---------------------------- MODULE MCEffectSession ----------------------------
(***************************************************************************)
(* EffectSession for TLC: manifests of two entries on one cell, with every *)
(* outcome planned for the first attempt of each.  Values run from 0 to 2, *)
(* so the increment of a 2 overflows; some preconditions hold from the     *)
(* start, some only after the first entry, some never.                     *)
(***************************************************************************)
EXTENDS EffectSession

Operations ==
  {<<"increment", 0, 1>>, <<"increment", 1, 1>>, <<"set", 0, 2>>, <<"increment", 2, 1>>}

Entries(plans) ==
  {[operation |-> o[1], key |-> "x", operand |-> o[3], expected |-> o[2],
    outcomes |-> plan] : o \in Operations, plan \in plans}

FirstPlans == {<<s, t>> : s \in Scenario, t \in {"success", "crash_after"}}
SecondPlans == {<<s>> : s \in Scenario}

Manifests ==
  {[limits |-> [requests |-> 5, executions |-> 3, retries |-> 1, reconciliations |-> 1],
    cells |-> [k \in Cells |-> 0], entries |-> <<first, second>>] :
     first \in Entries(FirstPlans), second \in Entries(SecondPlans)}
=============================================================================
