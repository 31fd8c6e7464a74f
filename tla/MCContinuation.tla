---------------------------- MODULE MCContinuation ----------------------------
(***************************************************************************)
(* Instances of Continuation for TLC: one tool, two leases of one request  *)
(* each and a pool of requests that meets every denial of the evaluator;   *)
(* and a session with two tools whose leases move several limits, which    *)
(* anyone may also call with grants that were never sealed.                *)
(***************************************************************************)
EXTENDS Checkpoint

Vec(requests, executions, retries, history) ==
  [r \in Resource |-> CASE r = "requests" -> requests
                        [] r = "executions" -> executions
                        [] r = "retries" -> retries
                        [] r = "history" -> history
                        [] OTHER -> 0]

SmallInitial == Vec(2, 1, 1, 6)
TwoLeases == <<Vec(1, 0, 0, 0), Vec(1, 0, 0, 0)>>
TwoCeiling == Vec(4, 1, 1, 6)
NoGrants == {}

TinyInitial == Vec(1, 1, 1, 6)
ThreeLeases == <<Vec(1, 0, 0, 0), Vec(1, 0, 0, 0), Vec(1, 0, 0, 0)>>
ThreeCeiling == Vec(4, 1, 1, 6)

(***************************************************************************)
(* Orchestration states by their open obligations.                         *)
(***************************************************************************)
Orch == {"two_open", "one_open", "done"}
OpenOrch == {"two_open", "one_open"}
OpenObligations == [s \in Orch |-> CASE s = "two_open" -> 2 [] s = "one_open" -> 1
                                     [] OTHER -> 0]

OpenLevels == [s \in OpenOrch |-> OpenObligations[s]]

ThreeOrch == {"three_open", "two_open", "one_open"}
ThreeLevels == [s \in ThreeOrch |-> IF s = "three_open" THEN 3 ELSE OpenObligations[s]]

Lease == Vec(1, 0, 0, 0)
Plain == [defect |-> "none", resources |-> Lease, change |-> None,
          evidence |-> "none", blocking |-> FALSE]
Change(status, cycle) ==
  {[Plain EXCEPT !.change = [prior |-> p, proposed |-> p, cycle |-> cycle,
                             status |-> status]] : p \in Strategies}

(***************************************************************************)
(* One request per denial, and the ones that are granted.                  *)
(***************************************************************************)
EveryRequest ==
  {Plain, [Plain EXCEPT !.blocking = TRUE], [Plain EXCEPT !.evidence = "stale"]}
    \cup {[Plain EXCEPT !.defect = d] : d \in {"orchestration", "progress", "index"}}
    \cup {[Plain EXCEPT !.resources = v] :
            v \in {Zero, [Zero EXCEPT !["mutations"] = 1], Vec(2, 0, 0, 0)}}
    \cup Change("admitted", "none") \cup Change("admitted", "live")
    \cup Change("not_material", "none") \cup Change("cycle_equivalent", "live")

PlainRequest == {Plain}
StaleRequest == {[Plain EXCEPT !.defect = "orchestration"]}

(***************************************************************************)
(* The first lease in full or in part, the second for a change of strategy.*)
(***************************************************************************)
LeasedInitial == Vec(1, 1, 1, 6)
LeasedSchedule == <<Vec(2, 1, 0, 1), Vec(1, 1, 0, 0)>>
LeasedCeiling == Vec(4, 3, 1, 7)
LeasedRequests ==
  {[Plain EXCEPT !.resources = v] : v \in {Vec(2, 1, 0, 1), Lease}}
    \cup {[r EXCEPT !.resources = Vec(1, 1, 0, 0)] : r \in Change("admitted", "none")}

(***************************************************************************)
(* Grants nobody sealed: copies of a right first lease for two runtime     *)
(* states, the second before the first, and one defect of each kind.       *)
(***************************************************************************)
Unsealed == [binding |-> "bound", prior |-> 0, index |-> 1, request |-> 0,
             granted |-> Lease, cumulative |-> Lease]
UnsealedGrants ==
  {Unsealed, [Unsealed EXCEPT !.prior = 1], [Unsealed EXCEPT !.index = 2]}
    \cup {[Unsealed EXCEPT !.binding = b] : b \in Binding}
    \cup {[Unsealed EXCEPT !.granted = v, !.cumulative = v] :
            v \in {Zero, [Zero EXCEPT !["mutations"] = 1], Vec(9, 0, 0, 0)}}

(***************************************************************************)
(* Everything but the last receipt: no guard reads it, and the properties  *)
(* about receipts look at each one in the step that makes it.              *)
(***************************************************************************)
GovernanceView == <<core, staged, call, authority, issued, govVars>>
=============================================================================
