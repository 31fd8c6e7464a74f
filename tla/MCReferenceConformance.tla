------------------------ MODULE MCReferenceConformance ------------------------
(***************************************************************************)
(* ReferenceConformance for TLC: budgets small enough to run out of each,  *)
(* and a history shorter than the reads that succeed.                      *)
(***************************************************************************)
EXTENDS ReferenceConformance, TLC

ReferenceInitial ==
  [r \in Resource |-> CASE r = "requests" -> 8
                        [] r = "executions" -> 3
                        [] r = "retries" -> 1
                        [] r = "history" -> 3
                        [] OTHER -> 0]
NoSchedule == <<>>
NoGrants == {}
IdentitySymmetry == Permutations(ToolKeys) \cup Permutations(Observations)
=============================================================================
