-------------------------- MODULE TransitionHistory --------------------------
(***************************************************************************)
(* The bounded transition history of the native runtime and the detector   *)
(* of short terminal cycles that reads it.  Pure operators: RuntimeCore    *)
(* keeps the history as part of its state, ReferenceConformance compares   *)
(* the detector with the Python one.                                       *)
(***************************************************************************)
EXTENDS Naturals, Sequences

(***************************************************************************)
(* The two-period window the detector needs for its longest period.        *)
(***************************************************************************)
MaxCyclePeriod == 3
MinCycleHistory == 2 * MaxCyclePeriod

(***************************************************************************)
(* RuntimeCore::append_history: the oldest entry is dropped only when the  *)
(* length EQUALS the limit, which bounds the history only because a limit  *)
(* never shrinks.                                                          *)
(***************************************************************************)
AppendHistory(history, limit, transition) ==
  Append(IF Len(history) = limit THEN Tail(history) ELSE history, transition)

(***************************************************************************)
(* The last period entries repeat the period entries before them.          *)
(***************************************************************************)
RepeatsWith(history, period) ==
  /\ Len(history) >= 2 * period
  /\ \A i \in 1..period :
       history[Len(history) - 2 * period + i] = history[Len(history) - period + i]

(***************************************************************************)
(* terminal_cycle_period (Rust), CycleEvidence.from_snapshot and           *)
(* detect_short_cycle (Python): the shortest period, 0 when there is none. *)
(***************************************************************************)
TerminalCyclePeriod(history) ==
  IF \E p \in 1..MaxCyclePeriod : RepeatsWith(history, p)
  THEN CHOOSE p \in 1..MaxCyclePeriod :
         RepeatsWith(history, p) /\ \A q \in 1..(p - 1) : ~RepeatsWith(history, q)
  ELSE 0
=============================================================================
