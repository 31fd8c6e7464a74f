----------------------------- MODULE LeaseBudget -----------------------------
(***************************************************************************)
(* Resource vectors and the precommitted continuation policy.  The Rust    *)
(* core (LeaseResources, ContinuationPolicySpec) and the Python governance *)
(* layer (BudgetVector, ContinuationPolicy) each implement these; the      *)
(* constraints they both enforce at construction are PolicyAssumption.     *)
(* Additions are checked in the code; every sum taken here stays below the *)
(* hard limits, far from 2^64, so naturals model them exactly.             *)
(***************************************************************************)
EXTENDS TransitionHistory

CONSTANTS
  ContinuationEnabled,  \* TRUE for an opt-in session, FALSE for a v0.3 one
  Initial,              \* the initial budget vector
  Schedule,             \* the ordered lease schedule, a sequence of vectors
  TotalCeiling,         \* the budget no sequence of leases may exceed
  MaxLeaseRequests,     \* recordable lease decisions
  MaxRecoveries         \* strategy recoveries

(***************************************************************************)
(* mutations is a resource class of the vector but not a runtime limit.    *)
(***************************************************************************)
RuntimeResource == {"requests", "executions", "retries", "history"}
Resource == RuntimeResource \cup {"mutations"}

Vector == [Resource -> Nat]
Zero == [r \in Resource |-> 0]
Plus(a, b) == [r \in Resource |-> a[r] + b[r]]
Within(a, b) == \A r \in Resource : a[r] <= b[r]

(***************************************************************************)
(* MAX_REQUESTS, MAX_EXECUTIONS, MAX_RETRIES, MAX_HISTORY.                 *)
(***************************************************************************)
HardLimit == [r \in RuntimeResource |->
                IF r \in {"requests", "retries"} THEN 1000000 ELSE 4096]

MaxLeases == Len(Schedule)

(***************************************************************************)
(* The budget once the first n leases of the schedule are granted in full. *)
(***************************************************************************)
Scheduled[n \in 0..Len(Schedule)] ==
  IF n = 0 THEN Initial ELSE Plus(Scheduled[n - 1], Schedule[n])

(***************************************************************************)
(* continuation_capacity: what all leases together may add.                *)
(***************************************************************************)
Capacity == [r \in Resource |-> TotalCeiling[r] - Initial[r]]

LimitsValid(l) == \A r \in RuntimeResource : l[r] > 0 /\ l[r] <= HardLimit[r]

ASSUME PolicyType ==
  /\ ContinuationEnabled \in BOOLEAN
  /\ Initial \in Vector
  /\ Schedule \in Seq(Vector)
  /\ TotalCeiling \in Vector
  /\ MaxLeaseRequests \in Nat
  /\ MaxRecoveries \in Nat

ASSUME InitialAssumption ==
  /\ LimitsValid(Initial)
  /\ Initial["mutations"] = 0

(***************************************************************************)
(* ContinuationPolicySpec::parse and ContinuationPolicy.__post_init__; the *)
(* last conjunct but two is what continuation_capacity's checked           *)
(* subtraction needs.                                                      *)
(***************************************************************************)
ASSUME PolicyAssumption ==
  ContinuationEnabled =>
    /\ Initial["history"] >= MinCycleHistory
    /\ Len(Schedule) <= 64
    /\ \A i \in 1..Len(Schedule) : Schedule[i] # Zero /\ Schedule[i]["mutations"] = 0
    /\ TotalCeiling = Scheduled[Len(Schedule)]
    /\ LimitsValid(TotalCeiling) /\ TotalCeiling["mutations"] = 0
    /\ Within(Initial, TotalCeiling)
    /\ MaxLeases < MaxLeaseRequests /\ MaxLeaseRequests <= 128
    /\ MaxRecoveries <= MaxLeases
=============================================================================
