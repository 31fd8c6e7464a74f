------------------------- MODULE ReferenceConformance -------------------------
(***************************************************************************)
(* The Python reference executor (src/ibae/reference_executor.py, state.py,*)
(* cache.py, invariants.py) in lockstep with the native runtime: both      *)
(* receive the same commands and the same tool answers, in a v0.3 session. *)
(* The reference commits step by step, each candidate state checked by     *)
(* budget_violations; the native core checks before each increment, on a   *)
(* clone it installs at the end.  Conformance fixtures compare the two on  *)
(* a few scripts; here every script within the bounds is compared.         *)
(***************************************************************************)
EXTENDS RuntimeCore

VARIABLES
  reference,  \* ExecutionState and ObservationCache of the reference
  answer      \* how the reference answered: returned, raised or in operation()

referenceVars == <<reference, answer>>

Reference == [requests : Nat, executions : Nat, cache_hits : Nat, retries : Nat,
              history : Seq(Transition), cache : SUBSET Transition]

Answer == {"none", "returned", "budget_exceeded", "failed", "operation"}

-----------------------------------------------------------------------------

(***************************************************************************)
(* budget_violations and _commit_state: a candidate beyond a limit raises  *)
(* BudgetExceeded and leaves the state as it was.                          *)
(***************************************************************************)
Admissible(s) ==
  /\ s.requests <= core.limits["requests"]
  /\ s.executions <= core.limits["executions"]
  /\ s.retries <= core.limits["retries"]
  /\ Len(s.history) <= core.limits["history"]

\* Mutant: the slice is taken before the new entry is appended.
AppendSliceLate(s, transition) ==
  [s EXCEPT !.history = Append(IF Len(@) > core.limits["history"] THEN Tail(@) ELSE @,
                               transition)]

(***************************************************************************)
(* ExecutionState.append_history: the last max_history of all entries.     *)
(***************************************************************************)
AppendSlice(s, transition) ==
  LET whole == Append(s.history, transition)
      first == IF Len(whole) > core.limits["history"]
               THEN Len(whole) - core.limits["history"] + 1 ELSE 1
  IN [s EXCEPT !.history = SubSeq(whole, first, Len(whole))]

Requested(s) == [s EXCEPT !.requests = @ + 1]
Executing(s) == [s EXCEPT !.executions = @ + 1]
Hit(s, transition) == AppendSlice([s EXCEPT !.cache_hits = @ + 1], transition)
Observed(s, transition) == AppendSlice([s EXCEPT !.cache = @ \cup {transition}], transition)

(***************************************************************************)
(* execute_read up to its answer or to the call of operation().            *)
(***************************************************************************)
ReferenceRead(key) ==
  IF ~Admissible(Requested(reference))
  THEN answer' = "budget_exceeded" /\ UNCHANGED reference
  ELSE LET charged == Requested(reference)
           held == {t \in reference.cache : t[1] = key}
       IN IF held # {}
          THEN /\ reference' = Hit(charged, CHOOSE t \in held : TRUE)
               /\ answer' = "returned"
          ELSE IF ~Admissible(Executing(charged))
          THEN reference' = charged /\ answer' = "budget_exceeded"
          ELSE reference' = Executing(charged) /\ answer' = "operation"

ReferenceRetry ==
  LET candidate == [reference EXCEPT !.retries = @ + 1]
  IN IF Admissible(candidate)
     THEN reference' = candidate /\ answer' = "returned"
     ELSE UNCHANGED reference /\ answer' = "budget_exceeded"

-----------------------------------------------------------------------------
(* Lockstep: one command, given to both. *)

InitConformance ==
  /\ Init
  /\ reference = [requests |-> 0, executions |-> 0, cache_hits |-> 0, retries |-> 0,
                  history |-> <<>>, cache |-> {}]
  /\ answer = "none"

BothRetry == (RecordRetry \/ RefuseRetry) /\ ReferenceRetry

BothRead(key) ==
  /\ \/ ReadRefused
     \/ \E transition \in Transition : transition[1] = key /\ ReadHit(transition)
     \/ ReadExhausted(key)
     \/ ReadInvokes(key)
  /\ ReferenceRead(key)

BothObserve(observation) ==
  /\ ReadReturns(observation)
  /\ reference' = Observed(reference, <<call, observation>>)
  /\ answer' = "returned"

(***************************************************************************)
(* operation() raises, or its value has no canonical form: the reference   *)
(* keeps what it has committed.                                            *)
(***************************************************************************)
BothFail(reason) ==
  /\ ReadFails(reason)
  /\ answer' = "failed"
  /\ UNCHANGED reference

NextConformance ==
  \/ BothRetry
  \/ \E key \in ToolKeys : BothRead(key)
  \/ \E observation \in Observations : BothObserve(observation)
  \/ \E reason \in CallbackReason : BothFail(reason)

SpecConformance == InitConformance /\ [][NextConformance]_<<vars, referenceVars>>

-----------------------------------------------------------------------------
(* Properties. *)

(***************************************************************************)
(* detect_short_cycle (src/ibae/invariants.py): compares slices, shortest  *)
(* period first.                                                           *)
(***************************************************************************)
Repeated(history, period) ==
  /\ Len(history) >= 2 * period
  /\ SubSeq(history, Len(history) - 2 * period + 1, Len(history) - period)
       = SubSeq(history, Len(history) - period + 1, Len(history))

DetectShortCycle(history) ==
  CASE Repeated(history, 1) -> 1
    [] ~Repeated(history, 1) /\ Repeated(history, 2) -> 2
    [] ~Repeated(history, 1) /\ ~Repeated(history, 2) /\ Repeated(history, 3) -> 3
    [] OTHER -> 0

ExecutionState(c) == [requests |-> c.requests, executions |-> c.executions,
                      cache_hits |-> c.cache_hits, retries |-> c.retries,
                      history |-> c.history, cache |-> c.cache]

(***************************************************************************)
(* The two runtimes take the same transition on every command: their       *)
(* states are equal after it, also while a tool runs, when the native      *)
(* candidate equals what the reference has committed; what one refuses for *)
(* its budget the other refuses, the tool runs for one exactly when it     *)
(* runs for the other, and both detectors see the same terminal cycle.     *)
(***************************************************************************)
SameTransition ==
  /\ ExecutionState(staged) = reference
  /\ (call # Idle) = (answer = "operation")
  /\ call = Idle =>
       /\ (outcome.status = "accepted") = (answer = "returned")
       /\ (outcome.reason \in BudgetReason) = (answer = "budget_exceeded")
  /\ TerminalCyclePeriod(staged.history) = DetectShortCycle(reference.history)
=============================================================================
