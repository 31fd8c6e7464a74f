---------------------------- MODULE MCRuntimeCore ----------------------------
(***************************************************************************)
(* Instances of RuntimeCore for TLC: a leased session whose grant pool     *)
(* holds right grants and one defect of each kind, and a v0.3 session with *)
(* a history too short for its reads.                                      *)
(***************************************************************************)
EXTENDS RuntimeCore, TLC

Vec(requests, executions, retries, history) ==
  [r \in Resource |-> CASE r = "requests" -> requests
                        [] r = "executions" -> executions
                        [] r = "retries" -> retries
                        [] r = "history" -> history
                        [] OTHER -> 0]

LeasedInitial == Vec(2, 1, 1, 6)
LeasedSchedule == <<Vec(2, 1, 0, 1), Vec(1, 1, 0, 0)>>
LeasedCeiling == Vec(5, 3, 1, 7)

(***************************************************************************)
(* Grants for every state within the tick bound: the first lease in full   *)
(* or in part, the second on top of either; then one defect of each kind.  *)
(***************************************************************************)
TickBound == 7
First == {Vec(2, 1, 0, 1), Vec(1, 0, 0, 0)}
Good == {[binding |-> "bound", prior |-> t, index |-> 1, request |-> 0,
          granted |-> v, cumulative |-> v] : t \in 0..TickBound, v \in First}
        \cup
        {[binding |-> "bound", prior |-> t, index |-> 2, request |-> 0,
          granted |-> Vec(1, 1, 0, 0), cumulative |-> Plus(v, Vec(1, 1, 0, 0))] :
            t \in 1..TickBound, v \in First}
Defective ==
  {[binding |-> b, prior |-> 0, index |-> 1, request |-> 0,
    granted |-> Vec(1, 0, 0, 0), cumulative |-> Vec(1, 0, 0, 0)] : b \in Binding}
  \cup
  {[binding |-> "bound", prior |-> 0, index |-> 1, request |-> 0,
    granted |-> v, cumulative |-> v] :
      v \in {Zero, [Zero EXCEPT !["mutations"] = 1], Vec(9, 0, 0, 0)}}
LeasedPool == Good \cup Defective

KeySymmetry == Permutations(ToolKeys)
=============================================================================
