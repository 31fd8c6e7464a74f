-------------------------- MODULE ContinuationProofs --------------------------
(***************************************************************************)
(* Machine-checked proofs about Continuation, for every policy, schedule,  *)
(* set of orchestration states and pool of requests: the ledger is always  *)
(* one its constructor admits, governance and runtime agree on every       *)
(* lease, every grant was paid for, the recoveries the ledger advertises   *)
(* can be taken, the ledger only advances, and governance and runtime      *)
(* together implement LeaseProtocol.                                       *)
(*                                                                         *)
(* The session part is RuntimeCoreProofs: every step here is a step of     *)
(* SessionNext on the session's variables or leaves them alone, so CoreInv *)
(* and LedgerInv carry over.  The governance part rests on what each       *)
(* lineage transition may install (Follows): the transition keeps no       *)
(* reference to the session, so this is all that survives a dispatch or a  *)
(* revocation between its two halves.                                      *)
(***************************************************************************)
EXTENDS Continuation, RuntimeCoreProofs, WellFoundedInduction, NaturalsInduction

-----------------------------------------------------------------------------
(* The schedule adds up.  Scheduled is a recursive function; that it is    *)
(* defined, and bounded by the ceiling, is shown by least counterexample.  *)

(***************************************************************************)
(* A nonempty set of naturals has a least element.                         *)
(***************************************************************************)
LEMMA LeastNat ==
  ASSUME NEW T \in SUBSET Nat, T # {}
  PROVE  \E x \in T : \A y \in T : x <= y
<1>1. IsWellFoundedOn(OpToRel(<, Nat), Nat)
  BY NatLessThanWellFounded
<1>2. PICK x \in T : \A y \in T : ~(<<y, x>> \in OpToRel(<, Nat))
  BY <1>1, WFMin
<1>3. \A y \in T : ~(y < x)
  BY <1>2 DEF OpToRel
<1>. QED
  BY <1>3

(***************************************************************************)
(* f tabulates the partial sums of the schedule up to its n-th lease.      *)
(***************************************************************************)
Sums(f, n) ==
  /\ f \in [0..n -> Vector]
  /\ f[0] = Initial
  /\ \A i \in 1..n : f[i] = Plus(f[i - 1], Schedule[i])

(***************************************************************************)
(* Sums of vectors are vectors, resource by resource.                      *)
(***************************************************************************)
LEMMA PlusVector ==
  ASSUME NEW a \in Vector, NEW b \in Vector
  PROVE  /\ Plus(a, b) \in Vector
         /\ \A r \in Resource : Plus(a, b)[r] = a[r] + b[r] /\ a[r] \in Nat /\ b[r] \in Nat
BY DEF Plus, Vector

(***************************************************************************)
(* There is such a table for every prefix of the schedule.                 *)
(***************************************************************************)
LEMMA SumsExist == \A n \in 0..Len(Schedule) : \E f : Sums(f, n)
<1>. DEFINE L == Len(Schedule)
            T == {n \in 0..L : ~\E f : Sums(f, n)}
<1>1. Schedule \in Seq(Vector) /\ L \in Nat /\ Initial \in Vector
  BY PolicyType, LenProperties
<1>2. \A i \in 1..L : Schedule[i] \in Vector
  BY <1>1, ElementOfSeq
<1>. SUFFICES ASSUME T # {} PROVE FALSE
  OBVIOUS
<1>3. PICK m \in T : \A y \in T : m <= y
  <2>1. T \in SUBSET Nat
    BY <1>1
  <2>. QED
    BY <2>1, LeastNat
<1>4. m \in 0..L /\ ~\E f : Sums(f, m)
  OBVIOUS
<1>5. CASE m = 0
  <2>1. Sums([i \in 0..0 |-> Initial], 0)
    BY <1>1 DEF Sums
  <2>. QED
    BY <1>4, <1>5, <2>1
<1>6. CASE m > 0
  <2>1. m - 1 \in 0..L /\ m - 1 < m /\ m \in 1..L
    BY <1>1, <1>4, <1>6
  <2>2. PICK f : Sums(f, m - 1)
    BY <1>3, <2>1
  <2>. DEFINE top == Plus(f[m - 1], Schedule[m])
              g == [i \in 0..m |-> IF i = m THEN top ELSE f[i]]
  <2>3. f \in [0..(m - 1) -> Vector] /\ f[m - 1] \in Vector
    BY <2>1, <2>2 DEF Sums
  <2>4. top \in Vector
    BY <1>2, <2>1, <2>3, PlusVector
  <2>. HIDE DEF top
  <2>5. g \in [0..m -> Vector]
    BY <2>1, <2>3, <2>4
  <2>6. g[0] = Initial
    BY <2>1, <2>2, <1>6 DEF Sums
  <2>7. ASSUME NEW i \in 1..m PROVE g[i] = Plus(g[i - 1], Schedule[i])
    <3>1. CASE i = m
      BY <2>1, <3>1 DEF top
    <3>2. CASE i # m
      <4>1. i \in 1..(m - 1) /\ g[i] = f[i] /\ g[i - 1] = f[i - 1]
        BY <2>1, <3>2
      <4>. QED
        BY <2>2, <4>1 DEF Sums
    <3>. QED
      BY <3>1, <3>2
  <2>. QED
    BY <1>4, <2>5, <2>6, <2>7 DEF Sums
<1>. QED
  BY <1>1, <1>4, <1>5, <1>6

(***************************************************************************)
(* Scheduled is one.                                                       *)
(***************************************************************************)
LEMMA ScheduledSums == Sums(Scheduled, Len(Schedule))
<1>. DEFINE L == Len(Schedule)
            body(f) == [n \in 0..L |-> IF n = 0 THEN Initial ELSE Plus(f[n - 1], Schedule[n])]
<1>1. L \in Nat
  BY PolicyType, LenProperties
<1>2. PICK f : Sums(f, L)
  BY <1>1, SumsExist
<1>3. f = body(f)
  BY <1>1, <1>2 DEF Sums
<1>4. Scheduled = CHOOSE g : g = body(g)
  BY DEF Scheduled
<1>5. Scheduled = body(Scheduled)
  BY <1>3, <1>4
<1>6. /\ Scheduled[0] = Initial
      /\ \A i \in 1..L : Scheduled[i] = Plus(Scheduled[i - 1], Schedule[i])
  BY <1>1, <1>5
<1>7. Schedule \in Seq(Vector) /\ Initial \in Vector /\ \A i \in 1..L : Schedule[i] \in Vector
  BY PolicyType, ElementOfSeq
<1>. DEFINE T == {n \in 0..L : Scheduled[n] \notin Vector}
<1>8. T = {}
  <2>. SUFFICES ASSUME T # {} PROVE FALSE
    OBVIOUS
  <2>1. T \in SUBSET Nat
    BY <1>1
  <2>2. PICK m \in T : \A y \in T : m <= y
    BY <2>1, LeastNat
  <2>3. m \in 0..L /\ m # 0 /\ Scheduled[m] \notin Vector
    BY <1>6, <1>7
  <2>4. m \in 1..L /\ m - 1 \in 0..L /\ ~(m <= m - 1)
    BY <1>1, <2>3
  <2>5. Scheduled[m - 1] \in Vector
    BY <2>2, <2>4
  <2>. QED
    BY <1>6, <1>7, <2>3, <2>4, <2>5, PlusVector
<1>9. Scheduled \in [0..L -> Vector]
  BY <1>5, <1>8
<1>. QED
  BY <1>6, <1>9 DEF Sums

(***************************************************************************)
(* Whatever prefix of the schedule is granted, the rest of it still fits   *)
(* the total ceiling.                                                      *)
(***************************************************************************)
LEMMA ScheduledWithin ==
  ASSUME ContinuationEnabled, NEW n \in 0..Len(Schedule)
  PROVE  Within(Scheduled[n], TotalCeiling)
<1>. DEFINE L == Len(Schedule)
            T == {k \in 0..L : ~Within(Scheduled[L - k], TotalCeiling)}
<1>1. L \in Nat
  BY PolicyType, LenProperties
<1>2. Scheduled[L] = TotalCeiling /\ Sums(Scheduled, L)
  BY PolicyAssumption, ScheduledSums
<1>3. TotalCeiling \in Vector /\ \A i \in 1..L : Schedule[i] \in Vector
  BY PolicyType, ElementOfSeq
<1>4. T = {}
  <2>. SUFFICES ASSUME T # {} PROVE FALSE
    OBVIOUS
  <2>1. T \in SUBSET Nat
    BY <1>1
  <2>2. PICK k \in T : \A y \in T : k <= y
    BY <2>1, LeastNat
  <2>3. k \in 0..L /\ ~Within(Scheduled[L - k], TotalCeiling)
    OBVIOUS
  <2>4. k # 0
    <3>1. Within(TotalCeiling, TotalCeiling)
      BY <1>3 DEF Within, Vector
    <3>. QED
      BY <1>1, <1>2, <2>3, <3>1
  <2>5. k - 1 \in 0..L /\ ~(k <= k - 1) /\ L - (k - 1) \in 1..L /\ (L - (k - 1)) - 1 = L - k
        /\ L - k \in 0..L /\ L - (k - 1) \in 0..L
    BY <1>1, <2>3, <2>4
  <2>6. Within(Scheduled[L - (k - 1)], TotalCeiling)
    BY <2>2, <2>5
  <2>. DEFINE i == L - (k - 1)
              a == Scheduled[i - 1]
  <2>7. Scheduled[i] = Plus(a, Schedule[i]) /\ a \in Vector /\ Schedule[i] \in Vector
    BY <1>2, <1>3, <2>5 DEF Sums
  <2>8. a = Scheduled[L - k]
    BY <2>5
  <2>9. \A r \in Resource : a[r] + Schedule[i][r] <= TotalCeiling[r] /\ a[r] \in Nat
                              /\ Schedule[i][r] \in Nat /\ TotalCeiling[r] \in Nat
    <3>1. \A r \in Resource : Scheduled[i][r] <= TotalCeiling[r] /\ TotalCeiling[r] \in Nat
      BY <1>3, <2>6 DEF Within, Vector
    <3>2. \A r \in Resource : /\ Scheduled[i][r] = a[r] + Schedule[i][r]
                              /\ a[r] \in Nat /\ Schedule[i][r] \in Nat
      BY <2>7, PlusVector
    <3>. QED
      BY <3>1, <3>2
  <2>. HIDE DEF a, i
  <2>10. Within(a, TotalCeiling)
    BY <2>9 DEF Within
  <2>. QED
    BY <2>3, <2>8, <2>10
<1>5. L - n \in 0..L /\ L - (L - n) = n
  BY <1>1
<1>. QED
  BY <1>4, <1>5

-----------------------------------------------------------------------------
(* What a ledger is and what each transition may turn it into. *)

(***************************************************************************)
(* The task is complete in the last progress record of a ledger: nothing   *)
(* is pending then, and the ledger says so or a stale request blocked it.  *)
(***************************************************************************)
CompleteClosed(b) ==
  Complete(b) => /\ b.pending = None
                 /\ \/ b.pstate = "complete"
                    \/ GovernanceBlocked(b) /\ b.pstate = "stalled"

(***************************************************************************)
(* No more was granted than the schedule holds up to the last grant.       *)
(***************************************************************************)
Budgeted(b) == Within(Plus(Initial, b.cumulative), Scheduled[b.granted])

(***************************************************************************)
(* A pending grant is the last one the ledger counts.                      *)
(***************************************************************************)
PendingLast(b) ==
  b.pending # None => /\ b.granted > 0
                      /\ b.pending.index = b.granted
                      /\ b.pending.cumulative = b.cumulative
                      /\ b.pending.prior = b.runtime

(***************************************************************************)
(* What a ledger says of itself is still so: with no progress to show, the *)
(* last observed record cannot authorize; with leases exhausted, no lease  *)
(* or no decision is left.                                                 *)
(***************************************************************************)
DenialCurrent(b) ==
  /\ b.pstate = "stalled" /\ b.denial = "no_measurable_progress" => ~ProgressAdmitted(b)
  /\ b.pstate = "lease_exhausted" =>
       b.marker \/ (b.granted = MaxLeases /\ b.denial = "lease_ceiling_reached")

Valid(b) ==
  /\ b \in Ledger
  /\ WellFormed(b)
  /\ CompleteClosed(b)
  /\ Budgeted(b)
  /\ PendingLast(b)
  /\ DenialCurrent(b)

(***************************************************************************)
(* n counts no less than b in any of the ledger's counters.                *)
(***************************************************************************)
Onward(b, n) ==
  /\ n.requests \in {b.requests, b.requests + 1}
  /\ n.granted >= b.granted
  /\ n.denied >= b.denied
  /\ n.recoveries >= b.recoveries
  /\ n.events >= b.events
  /\ b.marker => n.marker
  /\ b.consumed # None => n.consumed # None

(***************************************************************************)
(* n grants one more lease than b, paid by new progress or by a recovery.  *)
(***************************************************************************)
Grants(b, n) ==
  /\ b.pending = None
  /\ n.granted = b.granted + 1 /\ n.granted <= MaxLeases
  /\ n.pending \in Grant
  /\ n.pending.granted # Zero
  /\ Within(n.pending.granted, Schedule[n.granted])
  /\ n.cumulative = Plus(b.cumulative, n.pending.granted)
  /\ \/ n.recoveries = b.recoveries + 1 /\ n.consumed = b.consumed
     \/ /\ n.consumed \in Progress /\ Measurable(n.consumed)
        /\ n.consumed # b.consumed

SameGrants(b, n) ==
  /\ n.granted = b.granted /\ n.cumulative = b.cumulative
  /\ n.recoveries = b.recoveries /\ n.consumed = b.consumed

Follows(b, n, kind) ==
  /\ kind \in {"grant", "deny", "observe", "settle"}
  /\ Valid(n) /\ Onward(b, n)
  /\ kind = "grant" => Grants(b, n)
  /\ kind # "grant" => SameGrants(b, n)
  /\ kind = "deny" => n.pending = b.pending
  /\ kind = "observe" => b.pending = None /\ n.pending = None
  /\ kind = "settle" => b.pending # None /\ n.pending = None

(***************************************************************************)
(* The fields of a ledger.                                                 *)
(***************************************************************************)
LEMMA LedgerFields ==
  ASSUME NEW b \in Ledger
  PROVE  /\ b.requests \in Nat /\ b.granted \in Nat /\ b.denied \in Nat
         /\ b.cumulative \in Vector /\ b.recoveries \in Nat
         /\ b.strategy \in Strategies \cup {None}
         /\ b.orch \in OrchStates /\ b.runtime \in Nat
         /\ b.progress \in Progress \cup {None} /\ b.events \in Nat
         /\ b.consumed \in Progress \cup {None}
         /\ b.pstate \in ProgressState
         /\ b.decision \in {"none", "granted", "denied"}
         /\ b.denial \in DenialReason \cup {None}
         /\ b.marker \in BOOLEAN
         /\ b.pending \in Grant \cup {None}
BY DEF Ledger

(***************************************************************************)
(* The numbers of a policy.                                                *)
(***************************************************************************)
LEMMA PolicyNumbers ==
  /\ MaxLeases \in Nat /\ MaxLeaseRequests \in Nat /\ MaxRecoveries \in Nat
  /\ Initial \in Vector /\ TotalCeiling \in Vector /\ Zero \in Vector
  /\ \A i \in 1..MaxLeases : /\ Schedule[i] \in Vector /\ Schedule[i] # Zero
                             /\ Schedule[i]["mutations"] = 0
  /\ ContinuationEnabled
  /\ MaxLeases < MaxLeaseRequests
<1>1. Schedule \in Seq(Vector) /\ MaxLeases = Len(Schedule) /\ MaxLeases \in Nat
  BY PolicyType, LenProperties DEF MaxLeases
<1>2. \A i \in 1..MaxLeases : Schedule[i] \in Vector
  BY <1>1, ElementOfSeq
<1>3. Zero \in Vector
  BY DEF Zero, Vector
<1>. QED
  BY <1>1, <1>2, <1>3, PolicyType, PolicyAssumption, ContinuationAssumption

(***************************************************************************)
(* What the evaluator has established when it grants.                      *)
(***************************************************************************)
LEMMA VerdictGranted ==
  ASSUME NEW b, NEW c, NEW r, Verdict(b, c, r) = "granted"
  PROVE  /\ b.pending = None /\ b.progress # None /\ ~TaskComplete(b.progress)
         /\ ~(b.granted >= MaxLeases) /\ ~(b.requests >= MaxLeaseRequests)
         /\ r.change = None => ProgressAdmitted(b)
         /\ r.change # None => ~(b.recoveries >= MaxRecoveries)
         /\ r.resources # Zero
         /\ Within(r.resources, Schedule[b.granted + 1])
         /\ Within(Plus(b.cumulative, r.resources), Capacity)
<1>1. StrategyVerdict(b, c, r) # "granted"
  BY DEF StrategyVerdict
<1>. QED
  BY <1>1 DEF Verdict

(***************************************************************************)
(* Otherwise it denies for a named reason.  Exhaustion is found only with  *)
(* nothing pending, and a completed task with nothing pending is denied    *)
(* as such or for a binding that blocks.                                   *)
(***************************************************************************)
LEMMA VerdictDenied ==
  ASSUME NEW b, NEW c, NEW r, Verdict(b, c, r) # "granted"
  PROVE  /\ Verdict(b, c, r) \in DenialReason
         /\ Verdict(b, c, r) \in {"lease_ceiling_reached", "lease_request_limit"}
              => b.pending = None
         /\ b.pending = None /\ Complete(b) =>
              Verdict(b, c, r) \in
                {"stale_continuation_state", "stale_orchestration_state",
                 "stale_runtime_state", "stale_progress", "task_already_complete"}
         /\ Verdict(b, c, r) = "lease_ceiling_reached"
              => b.granted >= MaxLeases \/ ~Within(b.cumulative, Capacity)
         /\ Verdict(b, c, r) = "lease_request_limit" => b.requests >= MaxLeaseRequests
         /\ Verdict(b, c, r) = "no_measurable_progress" => ~ProgressAdmitted(b)
<1>1. StrategyVerdict(b, c, r) \in {"none", "admitted", "strategy_change_not_material",
                                    "strategy_change_cycle_equivalent"}
  BY DEF StrategyVerdict
<1>2. Verdict(b, c, r) \in DenialReason
  BY <1>1 DEF Verdict, DenialReason
<1>3. Verdict(b, c, r) \in {"lease_ceiling_reached", "lease_request_limit"}
        => b.pending = None
  BY <1>1 DEF Verdict
<1>4. b.pending = None /\ Complete(b) =>
         Verdict(b, c, r) \in
                {"stale_continuation_state", "stale_orchestration_state",
                 "stale_runtime_state", "stale_progress", "task_already_complete"}
  BY DEF Verdict, Complete
<1>5. /\ Verdict(b, c, r) = "lease_ceiling_reached"
           => b.granted >= MaxLeases \/ ~Within(b.cumulative, Capacity)
      /\ Verdict(b, c, r) = "lease_request_limit" => b.requests >= MaxLeaseRequests
  BY <1>1 DEF Verdict
<1>6. Verdict(b, c, r) = "no_measurable_progress" => ~ProgressAdmitted(b)
  BY <1>1 DEF Verdict
<1>. QED
  BY <1>2, <1>3, <1>4, <1>5, <1>6

(***************************************************************************)
(* A grant within the next lease of the schedule keeps the ledger within   *)
(* the schedule.                                                           *)
(***************************************************************************)
LEMMA BudgetedStep ==
  ASSUME NEW n \in Nat, n < MaxLeases, NEW a \in Vector, NEW v \in Vector,
         Within(Plus(Initial, a), Scheduled[n]), Within(v, Schedule[n + 1])
  PROVE  Within(Plus(Initial, Plus(a, v)), Scheduled[n + 1])
<1>1. /\ n \in 0..Len(Schedule) /\ n + 1 \in 1..Len(Schedule) /\ (n + 1) - 1 = n
      /\ Initial \in Vector /\ Schedule[n + 1] \in Vector
  BY PolicyNumbers DEF MaxLeases
<1>2. Scheduled[n + 1] = Plus(Scheduled[n], Schedule[n + 1]) /\ Scheduled[n] \in Vector
  BY <1>1, ScheduledSums DEF Sums
<1>3. Plus(a, v) \in Vector
  BY PlusVector
<1>4. ASSUME NEW r \in Resource
      PROVE  Plus(Initial, Plus(a, v))[r] <= Scheduled[n + 1][r]
  <2>1. /\ Plus(Initial, Plus(a, v))[r] = Initial[r] + (a[r] + v[r])
        /\ Plus(Initial, a)[r] = Initial[r] + a[r]
        /\ Initial[r] \in Nat /\ a[r] \in Nat /\ v[r] \in Nat
    BY <1>1, <1>3, PlusVector
  <2>2. /\ Scheduled[n + 1][r] = Scheduled[n][r] + Schedule[n + 1][r]
        /\ Scheduled[n][r] \in Nat /\ Schedule[n + 1][r] \in Nat
    BY <1>1, <1>2, PlusVector
  <2>3. Initial[r] + a[r] <= Scheduled[n][r] /\ v[r] <= Schedule[n + 1][r]
    BY <2>1 DEF Within
  <2>. QED
    BY <2>1, <2>2, <2>3
<1>. QED
  BY <1>4 DEF Within

(***************************************************************************)
(* The whole of the next lease of the schedule always fits the capacity.   *)
(***************************************************************************)
LEMMA NextLeaseFits ==
  ASSUME NEW b, Valid(b), b.granted < MaxLeases
  PROVE  /\ Within(b.cumulative, Capacity)
         /\ Within(Plus(b.cumulative, Schedule[b.granted + 1]), Capacity)
<1>. DEFINE g == b.granted
            a == b.cumulative
            v == Schedule[g + 1]
<1>1. g \in Nat /\ a \in Vector /\ Budgeted(b)
  BY LedgerFields DEF Valid
<1>2. /\ g + 1 \in 1..MaxLeases /\ g + 1 \in 0..Len(Schedule)
      /\ v \in Vector /\ Initial \in Vector /\ TotalCeiling \in Vector
      /\ ContinuationEnabled
  <2>1. g + 1 \in 1..MaxLeases
    BY <1>1, PolicyNumbers
  <2>2. g + 1 \in 0..Len(Schedule)
    BY <1>1, <2>1, PolicyNumbers DEF MaxLeases
  <2>. QED
    BY <2>1, <2>2, PolicyNumbers
<1>3. Within(v, v)
  BY <1>2 DEF Within, Vector
<1>4. Within(Plus(Initial, Plus(a, v)), Scheduled[g + 1])
  BY <1>1, <1>2, <1>3, BudgetedStep DEF Budgeted
<1>5. Within(Scheduled[g + 1], TotalCeiling)
  BY <1>2, ScheduledWithin
<1>6. Scheduled[g + 1] \in Vector
  BY <1>2, ScheduledSums DEF Sums
<1>7. Plus(a, v) \in Vector
  BY <1>1, <1>2, PlusVector
<1>. HIDE DEF g, a, v
<1>8. ASSUME NEW r \in Resource
      PROVE  a[r] <= Capacity[r] /\ Plus(a, v)[r] <= Capacity[r]
  <2>1. /\ Plus(Initial, Plus(a, v))[r] = Initial[r] + Plus(a, v)[r]
        /\ Plus(a, v)[r] = a[r] + v[r]
        /\ Initial[r] \in Nat /\ a[r] \in Nat /\ v[r] \in Nat
    BY <1>1, <1>2, <1>7, PlusVector
  <2>2. /\ Plus(Initial, Plus(a, v))[r] <= Scheduled[g + 1][r]
        /\ Scheduled[g + 1][r] <= TotalCeiling[r]
    BY <1>4, <1>5 DEF Within
  <2>3. Scheduled[g + 1][r] \in Nat /\ TotalCeiling[r] \in Nat
    BY <1>2, <1>6 DEF Vector
  <2>4. Capacity[r] = TotalCeiling[r] - Initial[r]
    BY DEF Capacity
  <2>. QED
    BY <2>1, <2>2, <2>3, <2>4
<1>. QED
  BY <1>8 DEF Within, g, a, v

(***************************************************************************)
(* What the evaluator installs when it grants.                             *)
(***************************************************************************)
LEMMA GrantedFollows ==
  ASSUME NEW b, NEW c, NEW r \in Request, Valid(b), Verdict(b, c, r) = "granted"
  PROVE  Follows(b, Granted(b, c, r), "grant")
<1>. DEFINE n == Granted(b, c, r)
            req == b.requests + 1
            gra == b.granted + 1
            cum == Plus(b.cumulative, r.resources)
            rec == IF UsesRecovery(b, c, r) THEN b.recoveries + 1 ELSE b.recoveries
            str == IF r.change # None THEN r.change.proposed ELSE b.strategy
            con == IF ProgressAdmitted(b) THEN b.progress ELSE b.consumed
            pst == IF UsesRecovery(b, c, r) THEN "strategy_changed" ELSE "progressing"
            pen == GrantFor(b, r)
<1>1. b \in Ledger /\ WellFormed(b) /\ Budgeted(b)
  BY DEF Valid
<1>2. /\ b.pending = None /\ b.progress # None /\ ~TaskComplete(b.progress)
      /\ ~(b.granted >= MaxLeases) /\ ~(b.requests >= MaxLeaseRequests)
      /\ r.change = None => ProgressAdmitted(b)
      /\ r.change # None => ~(b.recoveries >= MaxRecoveries)
      /\ r.resources # Zero
      /\ Within(r.resources, Schedule[b.granted + 1])
  BY VerdictGranted
<1>3. r.resources \in Vector /\ r.change \in StrategyChange \cup {None}
  BY DEF Request
<1>4. /\ b.requests \in Nat /\ b.granted \in Nat /\ b.denied \in Nat /\ b.recoveries \in Nat
      /\ b.cumulative \in Vector /\ b.runtime \in Nat /\ b.progress \in Progress
      /\ b.consumed \in Progress \cup {None} /\ b.strategy \in Strategies \cup {None}
      /\ b.events \in Nat
  BY <1>1, <1>2, LedgerFields
<1>5. req \in Nat /\ gra \in Nat /\ rec \in Nat
  BY <1>4
<1>6. cum \in Vector
  BY <1>3, <1>4, PlusVector
<1>7. str \in Strategies \cup {None}
  BY <1>3, <1>4 DEF StrategyChange
<1>8. con \in Progress \cup {None}
  BY <1>4
<1>9. pst \in ProgressState /\ pst \notin {"stalled", "lease_exhausted"}
  BY DEF ProgressState
<1>10. /\ pen \in Grant /\ pen.index = gra /\ pen.cumulative = cum
       /\ pen.granted = r.resources /\ pen.prior = b.runtime
  BY <1>3, <1>4, <1>5, <1>6 DEF GrantFor, Grant, Binding
<1>11. n = [b EXCEPT !.requests = req, !.granted = gra, !.cumulative = cum,
                     !.recoveries = rec, !.strategy = str, !.consumed = con,
                     !.decision = "granted", !.denial = None, !.pstate = pst,
                     !.pending = pen]
  BY <1>1 DEF Granted, Ledger
<1>12. UsesRecovery(b, c, r) => rec = b.recoveries + 1 /\ r.change # None
  BY DEF UsesRecovery
<1>13. ~UsesRecovery(b, c, r) => rec = b.recoveries /\ ProgressAdmitted(b)
  BY <1>2 DEF UsesRecovery
<1>14. ProgressAdmitted(b) => /\ con = b.progress /\ Measurable(b.progress)
                              /\ b.progress # b.consumed
  BY DEF ProgressAdmitted
<1>15. ~ProgressAdmitted(b) => con = b.consumed
  OBVIOUS
<1>. HIDE DEF req, gra, cum, rec, str, con, pst, pen
<1>16. n \in Ledger
  <2>. DEFINE m == [b EXCEPT !.requests = req, !.granted = gra, !.cumulative = cum,
                             !.recoveries = rec, !.strategy = str]
  <2>1. m \in Ledger
    BY <1>1, <1>5, <1>6, <1>7 DEF Ledger
  <2>2. n = [m EXCEPT !.consumed = con, !.decision = "granted", !.denial = None,
                      !.pstate = pst, !.pending = pen]
    BY <1>11
  <2>. HIDE DEF m
  <2>. QED
    BY <1>8, <1>9, <1>10, <2>1, <2>2, ZenonT(40) DEF Ledger
<1>17. /\ n.requests = req /\ n.granted = gra /\ n.denied = b.denied /\ n.cumulative = cum
       /\ n.recoveries = rec /\ n.progress = b.progress /\ n.events = b.events
       /\ n.consumed = con /\ n.decision = "granted" /\ n.denial = None
       /\ n.marker = b.marker /\ n.pending = pen
       /\ n.pstate = pst /\ n.runtime = b.runtime
  BY <1>1, <1>11 DEF Ledger
<1>. HIDE DEF n
<1>18. b.marker = FALSE
  <2>1. b.marker => b.requests = MaxLeaseRequests
    BY <1>1 DEF WellFormed
  <2>2. b.marker \in BOOLEAN
    BY <1>1, LedgerFields
  <2>3. b.requests # MaxLeaseRequests
    BY <1>2, <1>4, PolicyNumbers
  <2>. QED
    BY <2>1, <2>2, <2>3
<1>19. /\ req = b.requests + 1 /\ gra = b.granted + 1 /\ gra <= MaxLeases
       /\ req <= MaxLeaseRequests
  BY <1>2, <1>4, PolicyNumbers DEF req, gra
<1>20. rec <= gra /\ rec <= MaxRecoveries /\ rec >= b.recoveries
  <2>1. b.recoveries <= b.granted /\ b.recoveries <= MaxRecoveries
    BY <1>1 DEF WellFormed
  <2>. QED
    BY <1>2, <1>4, <1>12, <1>13, <1>19, <2>1, PolicyNumbers
<1>21. WellFormed(n)
  <2>1. n.requests = n.granted + n.denied
    BY <1>1, <1>4, <1>17, <1>19 DEF WellFormed
  <2>2. /\ n.events <= MaxLeaseRequests + 1
        /\ (n.events = 0) = (n.progress = None)
    BY <1>1, <1>17 DEF WellFormed
  <2>3. (n.requests = 0) = (n.decision = "none")
    BY <1>4, <1>17, <1>19
  <2>4. n.granted > 0
    BY <1>4, <1>17, <1>19
  <2>. QED
    BY <1>17, <1>18, <1>19, <1>20, <2>1, <2>2, <2>3, <2>4 DEF WellFormed
<1>22. CompleteClosed(n)
  BY <1>2, <1>17 DEF CompleteClosed, Complete
<1>23. Budgeted(n)
  <2>1. b.granted < MaxLeases
    BY <1>2, <1>4, PolicyNumbers
  <2>. QED
    BY <1>1, <1>2, <1>3, <1>4, <1>17, <1>19, <2>1, BudgetedStep DEF Budgeted, cum
<1>24. PendingLast(n) /\ DenialCurrent(n)
  BY <1>4, <1>9, <1>10, <1>17, <1>19 DEF PendingLast, DenialCurrent
<1>25. Onward(b, n)
  <2>1. b.consumed # None => n.consumed # None
    BY <1>4, <1>14, <1>15, <1>17, NoneAssumption
  <2>. QED
    BY <1>4, <1>17, <1>18, <1>19, <1>20, <2>1 DEF Onward
<1>26. \/ n.recoveries = b.recoveries + 1 /\ n.consumed = b.consumed
       \/ n.consumed \in Progress /\ Measurable(n.consumed) /\ n.consumed # b.consumed
  BY <1>4, <1>12, <1>13, <1>14, <1>15, <1>17
<1>27. Grants(b, n)
  BY <1>2, <1>10, <1>17, <1>19, <1>26 DEF Grants, cum
<1>. QED
  BY <1>16, <1>21, <1>22, <1>23, <1>24, <1>25, <1>27 DEF Follows, Valid, n

(***************************************************************************)
(* What it installs when it denies.                                        *)
(***************************************************************************)
LEMMA DeniedFollows ==
  ASSUME NEW b, NEW c, NEW r, Valid(b), Verdict(b, c, r) # "granted"
  PROVE  Follows(b, Denied(b, Verdict(b, c, r)), "deny")
<1>. DEFINE reason == Verdict(b, c, r)
            n == Denied(b, reason)
<1>1. /\ b \in Ledger /\ WellFormed(b) /\ Budgeted(b) /\ CompleteClosed(b)
      /\ PendingLast(b) /\ DenialCurrent(b)
  BY DEF Valid
<1>2. /\ reason \in DenialReason
      /\ reason \in {"lease_ceiling_reached", "lease_request_limit"} => b.pending = None
      /\ b.pending = None /\ Complete(b) =>
           reason \in {"stale_continuation_state", "stale_orchestration_state",
                       "stale_runtime_state", "stale_progress", "task_already_complete"}
      /\ reason = "lease_ceiling_reached"
           => b.granted >= MaxLeases \/ ~Within(b.cumulative, Capacity)
      /\ reason = "lease_request_limit" => b.requests >= MaxLeaseRequests
      /\ reason = "no_measurable_progress" => ~ProgressAdmitted(b)
  BY VerdictDenied
<1>. HIDE DEF reason
<1>3. /\ b.requests \in Nat /\ b.granted \in Nat /\ b.denied \in Nat /\ b.recoveries \in Nat
      /\ b.events \in Nat /\ b.marker \in BOOLEAN
  BY <1>1, LedgerFields
<1>4. CASE b.requests < MaxLeaseRequests
  <2>. DEFINE req == b.requests + 1
              den == b.denied + 1
              pst == DenialState(reason)
  <2>1. req \in Nat /\ den \in Nat
    BY <1>3
  <2>2. pst \in ProgressState
    BY DEF DenialState, ProgressState
  <2>3. n = [b EXCEPT !.requests = req, !.denied = den, !.decision = "denied",
                      !.denial = reason, !.pstate = pst]
    BY <1>1, <1>4 DEF Denied, RecordDenial, Ledger
  <2>4. Complete(b) => \/ pst = "complete"
                       \/ /\ pst = "stalled"
                          /\ reason \in {"stale_continuation_state", "stale_orchestration_state",
                                         "stale_runtime_state", "stale_progress"}
    BY <1>1, <1>2 DEF CompleteClosed, DenialState
  <2>a. pst = "lease_exhausted" => b.granted = MaxLeases /\ reason = "lease_ceiling_reached"
    <3>1. pst = "lease_exhausted" => reason \in {"lease_ceiling_reached", "lease_request_limit"}
      BY DEF DenialState
    <3>2. reason # "lease_request_limit"
      BY <1>2, <1>3, <1>4, PolicyNumbers
    <3>3. ~(b.granted < MaxLeases) \/ Within(b.cumulative, Capacity)
      BY NextLeaseFits
    <3>4. b.granted <= MaxLeases
      BY <1>1 DEF WellFormed
    <3>. QED
      BY <1>2, <1>3, <3>1, <3>2, <3>3, <3>4, PolicyNumbers
  <2>. HIDE DEF req, den, pst
  <2>5. n \in Ledger
    BY <1>1, <1>2, <2>1, <2>2, <2>3, ZenonT(40) DEF Ledger
  <2>6. /\ n.requests = req /\ n.granted = b.granted /\ n.denied = den
        /\ n.cumulative = b.cumulative /\ n.recoveries = b.recoveries
        /\ n.progress = b.progress /\ n.events = b.events /\ n.consumed = b.consumed
        /\ n.pstate = pst /\ n.decision = "denied" /\ n.denial = reason
        /\ n.marker = b.marker /\ n.pending = b.pending /\ n.runtime = b.runtime
    BY <1>1, <2>3 DEF Ledger
  <2>. HIDE DEF n
  <2>7. b.marker = FALSE
    BY <1>1, <1>3, <1>4, PolicyNumbers DEF WellFormed
  <2>8. reason # None
    BY <1>2, NoneAssumption
  <2>9. req = b.requests + 1 /\ den = b.denied + 1 /\ req <= MaxLeaseRequests
    BY <1>3, <1>4, PolicyNumbers DEF req, den
  <2>10. WellFormed(n)
    <3>1. n.requests = n.granted + n.denied /\ (n.requests = 0) = (n.decision = "none")
      BY <1>1, <1>3, <2>6, <2>9 DEF WellFormed
    <3>. QED
      BY <1>1, <2>6, <2>7, <2>8, <2>9, <3>1 DEF WellFormed
  <2>11. CompleteClosed(n)
    BY <1>1, <2>4, <2>6 DEF CompleteClosed, Complete, GovernanceBlocked
  <2>12. Budgeted(n) /\ PendingLast(n) /\ DenialCurrent(n)
    <3>1. ProgressAdmitted(n) <=> ProgressAdmitted(b)
      BY <2>6 DEF ProgressAdmitted
    <3>2. DenialCurrent(n)
      BY <1>2, <2>a, <2>6, <3>1 DEF DenialCurrent
    <3>. QED
      BY <1>1, <2>6, <3>2 DEF Budgeted, PendingLast
  <2>13. Onward(b, n)
    BY <1>3, <2>6, <2>7, <2>9 DEF Onward
  <2>. QED
    BY <2>5, <2>6, <2>10, <2>11, <2>12, <2>13 DEF Follows, SameGrants, Valid, n, reason
<1>5. CASE /\ ~(b.requests < MaxLeaseRequests)
           /\ ~b.marker
           /\ \/ reason = "lease_ceiling_reached" /\ b.granted >= MaxLeases
              \/ reason = "lease_request_limit" /\ b.granted < MaxLeases
  <2>1. n = [b EXCEPT !.pstate = "lease_exhausted", !.marker = TRUE]
    BY <1>5 DEF Denied
  <2>2. n \in Ledger
    BY <1>1, <2>1 DEF Ledger, ProgressState
  <2>3. /\ n.requests = b.requests /\ n.granted = b.granted /\ n.denied = b.denied
        /\ n.cumulative = b.cumulative /\ n.recoveries = b.recoveries
        /\ n.progress = b.progress /\ n.events = b.events /\ n.consumed = b.consumed
        /\ n.pstate = "lease_exhausted" /\ n.decision = b.decision /\ n.denial = b.denial
        /\ n.marker = TRUE /\ n.pending = b.pending /\ n.runtime = b.runtime
    BY <1>1, <2>1 DEF Ledger
  <2>. HIDE DEF n
  <2>4. b.requests = MaxLeaseRequests /\ b.pending = None
    BY <1>1, <1>2, <1>3, <1>5, PolicyNumbers DEF WellFormed
  <2>5. WellFormed(n)
    BY <1>1, <2>3, <2>4 DEF WellFormed
  <2>a. ~Complete(n)
    BY <1>2, <1>5, <2>3, <2>4 DEF Complete
  <2>6. CompleteClosed(n) /\ Budgeted(n) /\ PendingLast(n) /\ DenialCurrent(n)
    BY <1>1, <2>a, <2>3, <2>4 DEF CompleteClosed, Budgeted, PendingLast, DenialCurrent
  <2>7. Onward(b, n)
    BY <1>3, <2>3 DEF Onward
  <2>. QED
    BY <2>2, <2>3, <2>5, <2>6, <2>7 DEF Follows, SameGrants, Valid, n, reason
<1>6. CASE n = b
  <2>1. Onward(b, b)
    BY <1>3 DEF Onward
  <2>. QED
    BY <1>6, <2>1 DEF Follows, SameGrants, n, reason
<1>. QED
  BY <1>4, <1>5, <1>6 DEF Denied

(***************************************************************************)
(* What an observation installs.                                           *)
(***************************************************************************)
LEMMA ObservedFollows ==
  ASSUME NEW b, Valid(b), b.pending = None, NEW to \in OrchStates, NEW t \in Nat
  PROVE  /\ Follows(b, [b EXCEPT !.runtime = t], "observe")
         /\ b.events < MaxLeaseRequests + 1 /\ ~b.marker =>
              Follows(b, [b EXCEPT !.orch = to, !.runtime = t, !.progress = <<b.orch, to>>,
                                   !.events = @ + 1,
                                   !.pstate = ObservedState(<<b.orch, to>>)], "observe")
<1>1. /\ b \in Ledger /\ WellFormed(b) /\ Budgeted(b) /\ CompleteClosed(b)
      /\ PendingLast(b) /\ DenialCurrent(b)
  BY DEF Valid
<1>2. /\ b.requests \in Nat /\ b.granted \in Nat /\ b.denied \in Nat /\ b.recoveries \in Nat
      /\ b.events \in Nat /\ b.marker \in BOOLEAN /\ b.orch \in OrchStates
  BY <1>1, LedgerFields
<1>3. Follows(b, [b EXCEPT !.runtime = t], "observe")
  <2>. DEFINE n == [b EXCEPT !.runtime = t]
  <2>1. n \in Ledger
    BY <1>1 DEF Ledger
  <2>2. /\ n.requests = b.requests /\ n.granted = b.granted /\ n.denied = b.denied
        /\ n.cumulative = b.cumulative /\ n.recoveries = b.recoveries
        /\ n.progress = b.progress /\ n.events = b.events /\ n.consumed = b.consumed
        /\ n.pstate = b.pstate /\ n.decision = b.decision /\ n.denial = b.denial
        /\ n.marker = b.marker /\ n.pending = b.pending
    BY <1>1 DEF Ledger
  <2>. HIDE DEF n
  <2>3. WellFormed(n)
    BY <1>1, <2>2 DEF WellFormed
  <2>4. CompleteClosed(n) /\ Budgeted(n) /\ PendingLast(n)
    BY <1>1, <2>2 DEF CompleteClosed, Complete, GovernanceBlocked, Budgeted, PendingLast
  <2>a. DenialCurrent(n)
    BY <1>1, <2>2 DEF DenialCurrent, ProgressAdmitted
  <2>5. Onward(b, n)
    BY <1>2, <2>2 DEF Onward
  <2>. QED
    BY <2>1, <2>2, <2>3, <2>4, <2>a, <2>5 DEF Follows, SameGrants, Valid, n
<1>4. ASSUME b.events < MaxLeaseRequests + 1, ~b.marker
      PROVE  Follows(b, [b EXCEPT !.orch = to, !.runtime = t, !.progress = <<b.orch, to>>,
                                  !.events = @ + 1,
                                  !.pstate = ObservedState(<<b.orch, to>>)], "observe")
  <2>. DEFINE p == <<b.orch, to>>
              eve == b.events + 1
              pst == ObservedState(p)
              n == [b EXCEPT !.orch = to, !.runtime = t, !.progress = p, !.events = eve,
                             !.pstate = pst]
  <2>1. p \in Progress /\ p # None
    BY <1>2, NoneAssumption DEF Progress
  <2>2. eve \in Nat /\ eve <= MaxLeaseRequests + 1 /\ eve > b.events
    BY <1>2, <1>4, PolicyNumbers
  <2>3. /\ pst \in ProgressState /\ (TaskComplete(p) => pst = "complete")
        /\ pst # "lease_exhausted" /\ (pst = "stalled" => ~Measurable(p))
    BY DEF ObservedState, ProgressState
  <2>4. n = [b EXCEPT !.orch = to, !.runtime = t, !.progress = <<b.orch, to>>,
                      !.events = @ + 1, !.pstate = ObservedState(<<b.orch, to>>)]
    BY <1>1 DEF Ledger
  <2>. HIDE DEF p, eve, pst
  <2>5. n \in Ledger
    BY <1>1, <2>1, <2>2, <2>3, ZenonT(40) DEF Ledger
  <2>6. /\ n.requests = b.requests /\ n.granted = b.granted /\ n.denied = b.denied
        /\ n.cumulative = b.cumulative /\ n.recoveries = b.recoveries
        /\ n.progress = p /\ n.events = eve /\ n.consumed = b.consumed
        /\ n.pstate = pst /\ n.decision = b.decision /\ n.denial = b.denial
        /\ n.marker = b.marker /\ n.pending = b.pending
    BY <1>1 DEF Ledger
  <2>. HIDE DEF n
  <2>7. WellFormed(n)
    <3>1. (n.events = 0) = (n.progress = None)
      BY <1>2, <2>1, <2>2, <2>6
    <3>. QED
      BY <1>1, <1>4, <2>2, <2>6, <3>1 DEF WellFormed
  <2>8. CompleteClosed(n)
    BY <2>3, <2>6 DEF CompleteClosed, Complete
  <2>9. Budgeted(n) /\ PendingLast(n) /\ DenialCurrent(n)
    BY <1>1, <2>3, <2>6 DEF Budgeted, PendingLast, DenialCurrent, ProgressAdmitted
  <2>10. Onward(b, n)
    BY <1>2, <2>2, <2>6 DEF Onward
  <2>11. Follows(b, n, "observe")
    BY <2>5, <2>6, <2>7, <2>8, <2>9, <2>10 DEF Follows, SameGrants, Valid
  <2>. QED
    BY <2>4, <2>11
<1>. QED
  BY <1>3, <1>4

(***************************************************************************)
(* What settling an applied lease installs.                                *)
(***************************************************************************)
LEMMA SettledFollows ==
  ASSUME NEW b, Valid(b), b.pending # None, NEW t \in Nat
  PROVE  Follows(b, [b EXCEPT !.runtime = t, !.pending = None], "settle")
<1>. DEFINE n == [b EXCEPT !.runtime = t, !.pending = None]
<1>1. b \in Ledger /\ WellFormed(b) /\ Budgeted(b) /\ CompleteClosed(b) /\ DenialCurrent(b)
  BY DEF Valid
<1>2. /\ b.requests \in Nat /\ b.granted \in Nat /\ b.denied \in Nat /\ b.recoveries \in Nat
      /\ b.events \in Nat /\ b.marker \in BOOLEAN
  BY <1>1, LedgerFields
<1>3. n \in Ledger
  BY <1>1 DEF Ledger
<1>4. /\ n.requests = b.requests /\ n.granted = b.granted /\ n.denied = b.denied
      /\ n.cumulative = b.cumulative /\ n.recoveries = b.recoveries
      /\ n.progress = b.progress /\ n.events = b.events /\ n.consumed = b.consumed
      /\ n.pstate = b.pstate /\ n.decision = b.decision /\ n.denial = b.denial
      /\ n.marker = b.marker /\ n.pending = None
  BY <1>1 DEF Ledger
<1>. HIDE DEF n
<1>5. WellFormed(n)
  BY <1>1, <1>4 DEF WellFormed
<1>6. CompleteClosed(n) /\ Budgeted(n) /\ PendingLast(n)
  BY <1>1, <1>4 DEF CompleteClosed, Complete, Budgeted, PendingLast
<1>8. DenialCurrent(n)
  BY <1>1, <1>4 DEF DenialCurrent, ProgressAdmitted
<1>7. Onward(b, n)
  BY <1>2, <1>4 DEF Onward
<1>. QED
  BY <1>3, <1>4, <1>5, <1>6, <1>7, <1>8 DEF Follows, SameGrants, Valid, n

-----------------------------------------------------------------------------
(* The inductive invariant. *)

(***************************************************************************)
(* Every sealed grant is in effect or pending: none can be applied beside  *)
(* the one the ledger knows of.                                            *)
(***************************************************************************)
IssuedKnown ==
  ledger # None =>
    \A g \in issued : \/ g = ledger.pending
                      \/ \E i \in DOMAIN core.applied : core.applied[i] = g

(***************************************************************************)
(* The ledger remembers the progress record spent last.                    *)
(***************************************************************************)
SpentLast ==
  IF spent = <<>> THEN ledger # None => ledger.consumed = None
  ELSE ledger # None /\ ledger.consumed = spent[Len(spent)]

(***************************************************************************)
(* As long as the runtime is in the state a pending grant is bound to, it  *)
(* accepts the grant.                                                      *)
(***************************************************************************)
PendingAccepted ==
  ledger # None /\ ledger.pending # None =>
    /\ ledger.pending.prior <= core.tick
    /\ ledger.pending.prior = core.tick => LeaseVerdict(core, ledger.pending) = "accepted"

(***************************************************************************)
(* What is known of the transition in progress, whatever the session has   *)
(* done since it began: the ledger it installs follows the live one, and   *)
(* if it settles a lease, that lease is in effect.                         *)
(***************************************************************************)
WorkFollows ==
  work # None => /\ ledger # None
                 /\ generation < MaxGeneration
                 /\ Follows(ledger, work.next, work.kind)
                 /\ work.kind = "settle" => Agreed(ledger)

GovInv ==
  /\ ledger # None => Valid(ledger)
  /\ generation \in 0..MaxGeneration
  /\ WorkFollows
  /\ kept \in Sealed \cup {None}
  /\ spent \in Seq(Progress)
  /\ AuthorityAgreement
  /\ IssuedKnown
  /\ PendingAccepted
  /\ SpentLast
  /\ GrantsPaid

ContinuationInv == CoreInv /\ LedgerInv /\ GovInv

-----------------------------------------------------------------------------
(* The steps. *)

(***************************************************************************)
(* The ledger stays: a dispatch, a revocation, the first half of a         *)
(* transition, or one that ends without installing anything.               *)
(***************************************************************************)
Stays ==
  /\ UNCHANGED <<ledger, generation, kept, spent, issued>>
  /\ \/ work' = work
     \/ work' = None
     \/ /\ ledger # None /\ generation < MaxGeneration
        /\ UNCHANGED vars
        /\ Follows(ledger, work'.next, work'.kind)
        /\ work'.kind = "settle" => Agreed(ledger)

Creates ==
  /\ Active
  /\ ledger = None
  /\ UNCHANGED <<vars, generation, work, kept, spent>>
  /\ Valid(ledger')
  /\ ledger'.granted = 0 /\ ledger'.cumulative = Zero
  /\ ledger'.consumed = None /\ ledger'.pending = None

Installs ==
  /\ Active
  /\ work # None
  /\ Supersede(work.next)
  /\ UNCHANGED <<core, authority>>
  /\ IF work.kind = "grant"
     THEN /\ LeaseVerdict(core, work.next.pending) = "accepted"
          /\ issued' = issued \cup {work.next.pending}
          /\ spent' = IF work.next.consumed # ledger.consumed
                      THEN Append(spent, work.next.consumed) ELSE spent
     ELSE UNCHANGED <<issued, spent>>

(***************************************************************************)
(* A seal that passes the lineage checks is the live ledger's.             *)
(***************************************************************************)
LEMMA HeldLive ==
  ASSUME NEW held, Begins(held)
  PROVE  /\ held.body = ledger /\ ledger # None /\ generation < MaxGeneration
         /\ UNCHANGED <<vars, ledger, generation, kept, spent>>
BY DEF Begins, Current

(***************************************************************************)
(* The ledger ContinuationState.create makes is a valid one.               *)
(***************************************************************************)
LEMMA CreateValid ==
  ASSUME CoreInv, NEW strategy \in Strategies \cup {None},
         NEW from \in OrchStates \cup {None}, Create(strategy, from)
  PROVE  Creates
<1>. DEFINE p == IF from = None THEN None ELSE <<from, FirstOrch>>
            eve == IF p = None THEN 0 ELSE 1
            pst == IF p = None THEN "stalled" ELSE ObservedState(p)
            tick == core.tick
            n == [requests |-> 0, granted |-> 0, denied |-> 0, cumulative |-> Zero,
                  recoveries |-> 0, strategy |-> strategy, orch |-> FirstOrch,
                  runtime |-> tick, progress |-> p, events |-> eve,
                  consumed |-> None, pstate |-> pst,
                  decision |-> "none", denial |-> None, marker |-> FALSE,
                  pending |-> None]
<1>1. /\ ledger' = n /\ ledger = None /\ Active /\ core.applied = <<>>
      /\ UNCHANGED <<vars, generation, work, kept, spent>>
  BY DEF Create, Dispatchable
<1>2. FirstOrch \in OrchStates
  BY ContinuationAssumption
<1>3. p \in Progress \cup {None} /\ (p # None => p \in Progress)
  BY <1>2 DEF Progress
<1>4. tick \in Nat
  BY SoundNumbers DEF CoreInv
<1>5. eve \in Nat /\ (eve = 0) = (p = None) /\ eve <= 1
  OBVIOUS
<1>6. pst \in ProgressState /\ (p # None /\ TaskComplete(p) => pst = "complete")
  BY DEF ObservedState, ProgressState
<1>. HIDE DEF p, eve, pst, tick
<1>7. n \in Ledger
  BY <1>2, <1>3, <1>4, <1>5, <1>6, PolicyNumbers DEF Ledger
<1>8. /\ n.requests = 0 /\ n.granted = 0 /\ n.denied = 0 /\ n.cumulative = Zero
      /\ n.recoveries = 0 /\ n.progress = p /\ n.events = eve /\ n.consumed = None
      /\ n.pstate = pst /\ n.decision = "none" /\ n.denial = None
      /\ n.marker = FALSE /\ n.pending = None
  OBVIOUS
<1>. HIDE DEF n
<1>9. WellFormed(n)
  BY <1>5, <1>8, PolicyNumbers DEF WellFormed
<1>10. CompleteClosed(n) /\ PendingLast(n) /\ DenialCurrent(n)
  <2>1. pst # "lease_exhausted"
    BY DEF pst, ObservedState
  <2>2. "no_measurable_progress" \in DenialReason
    BY DEF DenialReason
  <2>. QED
    BY <1>6, <1>8, <2>1, <2>2, NoneAssumption
       DEF CompleteClosed, Complete, PendingLast, DenialCurrent
<1>11. Budgeted(n)
  <2>1. Scheduled[0] = Initial
    BY ScheduledSums DEF Sums
  <2>2. \A r \in Resource : Plus(Initial, Zero)[r] = Initial[r] + Zero[r]
                              /\ Initial[r] \in Nat /\ Zero[r] = 0
    BY PolicyNumbers, PlusVector DEF Zero
  <2>. QED
    BY <1>8, <2>1, <2>2 DEF Budgeted, Within
<1>. QED
  BY <1>1, <1>7, <1>8, <1>9, <1>10, <1>11 DEF Creates, Valid

(***************************************************************************)
(* Every step is one of these, and a step of the session.                  *)
(***************************************************************************)
LEMMA Steps ==
  ASSUME ContinuationInv, [NextContinuation]_allVars
  PROVE  [SessionNext]_vars /\ (Stays \/ Creates \/ Installs)
<1>t. /\ CoreInv /\ WorkFollows /\ (ledger # None => Valid(ledger))
      /\ core.tick \in Nat /\ issued \subseteq Grant
  BY SoundNumbers DEF ContinuationInv, GovInv, CoreInv, TypeOK
<1>1. ASSUME NEW strategy \in Strategies \cup {None}, NEW from \in OrchStates \cup {None},
             Create(strategy, from)
      PROVE  UNCHANGED vars /\ Creates
  BY <1>t, <1>1, CreateValid DEF Creates
<1>2. ASSUME NEW held \in Held, NEW r \in RequestPool, BeginEvaluate(held, r)
      PROVE  UNCHANGED vars /\ Stays
  <2>1. /\ held.body = ledger /\ ledger # None /\ generation < MaxGeneration
        /\ UNCHANGED <<vars, ledger, generation, kept, spent>>
    BY <1>2, HeldLive DEF BeginEvaluate
  <2>2. r \in Request
    BY RequestAssumption
  <2>3. CASE Verdict(ledger, core, r) = "granted"
    <3>1. work' = [kind |-> "grant", next |-> Granted(ledger, core, r)]
      BY <1>2, <2>1, <2>3 DEF BeginEvaluate
    <3>2. Follows(ledger, Granted(ledger, core, r), "grant")
      BY <1>t, <2>1, <2>2, <2>3, GrantedFollows
    <3>3. work'.kind = "grant" /\ work'.next = Granted(ledger, core, r)
      BY <3>1
    <3>. QED
      BY <2>1, <3>2, <3>3 DEF Stays, vars
  <2>4. CASE Verdict(ledger, core, r) # "granted"
    <3>1. work' = [kind |-> "deny", next |-> Denied(ledger, Verdict(ledger, core, r))]
      BY <1>2, <2>1, <2>4 DEF BeginEvaluate
    <3>2. Follows(ledger, Denied(ledger, Verdict(ledger, core, r)), "deny")
      BY <1>t, <2>1, <2>4, DeniedFollows
    <3>3. work'.kind = "deny" /\ work'.next = Denied(ledger, Verdict(ledger, core, r))
      BY <3>1
    <3>. QED
      BY <2>1, <3>2, <3>3 DEF Stays, vars
  <2>. QED
    BY <2>3, <2>4
<1>3. ASSUME NEW held \in Held, NEW to \in OrchStates, NEW with_progress \in BOOLEAN,
             BeginObserve(held, to, with_progress)
      PROVE  UNCHANGED vars /\ Stays
  <2>1. /\ held.body = ledger /\ ledger # None /\ generation < MaxGeneration
        /\ UNCHANGED <<vars, ledger, generation, kept, spent>>
    BY <1>3, HeldLive DEF BeginObserve
  <2>2. ledger.pending = None
    BY <1>3, <2>1 DEF BeginObserve
  <2>3. PICK n : Follows(ledger, n, "observe") /\ work' = [kind |-> "observe", next |-> n]
    <3>1. CASE with_progress
      <4>. DEFINE n == [ledger EXCEPT !.orch = to, !.runtime = core.tick,
                          !.progress = <<ledger.orch, to>>, !.events = @ + 1,
                          !.pstate = ObservedState(<<ledger.orch, to>>)]
      <4>1. ledger.events < MaxLeaseRequests + 1 /\ ~ledger.marker
            /\ work' = [kind |-> "observe", next |-> n]
        BY <1>3, <2>1, <3>1 DEF BeginObserve
      <4>2. Follows(ledger, n, "observe")
        BY <1>t, <2>1, <2>2, <4>1, ObservedFollows
      <4>. QED
        BY <4>1, <4>2
    <3>2. CASE ~with_progress
      <4>1. work' = [kind |-> "observe", next |-> [ledger EXCEPT !.runtime = core.tick]]
        BY <1>3, <2>1, <3>2 DEF BeginObserve
      <4>2. Follows(ledger, [ledger EXCEPT !.runtime = core.tick], "observe")
        BY <1>t, <2>1, <2>2, ObservedFollows
      <4>. QED
        BY <4>1, <4>2
    <3>. QED
      BY <3>1, <3>2
  <2>4. work'.kind = "observe" /\ work'.next = n
    BY <2>3
  <2>. QED
    BY <2>1, <2>3, <2>4 DEF Stays, vars
<1>4. ASSUME NEW held \in Held, BeginSettle(held) PROVE UNCHANGED vars /\ Stays
  <2>. DEFINE n == [ledger EXCEPT !.runtime = core.tick, !.pending = None]
  <2>1. /\ held.body = ledger /\ ledger # None /\ generation < MaxGeneration
        /\ UNCHANGED <<vars, ledger, generation, kept, spent>>
    BY <1>4, HeldLive DEF BeginSettle
  <2>2. ledger.pending # None /\ Agreed(ledger)
    BY <1>4, <2>1 DEF BeginSettle, Settles, Agreed
  <2>3. work' = [kind |-> "settle", next |-> n]
    BY <1>4, <2>1 DEF BeginSettle
  <2>4. Follows(ledger, n, "settle")
    BY <1>t, <2>1, <2>2, SettledFollows
  <2>. HIDE DEF n
  <2>5. work'.kind = "settle" /\ work'.next = n
    BY <2>3
  <2>. QED
    BY <2>1, <2>2, <2>4, <2>5 DEF Stays, vars
<1>5. CASE FinishDenial
  BY <1>5 DEF FinishDenial, Stays, Installs, Dispatchable, vars
<1>6. CASE FinishGrant
  <2>1. work # None /\ work.kind = "grant" /\ IssueGrant(work.next.pending)
    BY <1>6 DEF FinishGrant
  <2>2. work.next.pending \in Grant
    BY <1>t, <2>1 DEF WorkFollows, Follows, Grants
  <2>3. SessionNext
    BY <2>1, <2>2 DEF SessionNext
  <2>4. Installs
    BY <1>6, <2>1 DEF FinishGrant, Installs, IssueGrant, Dispatchable, coreVars
  <2>. QED
    BY <2>3, <2>4
<1>7. CASE FinishObserve
  BY <1>7 DEF FinishObserve, Installs, Dispatchable, vars
<1>8. CASE FinishSettle
  BY <1>8 DEF FinishSettle, Installs, Dispatchable, vars
<1>9. CASE AbortTransition
  BY <1>9 DEF AbortTransition, Stays, vars
<1>10. CASE Dispatch
  <2>1. issued' = issued
    BY <1>10 DEF Dispatch, RejectCommand, RecordRetry, RefuseRetry, ReadRefused, ReadHit,
                 ReadExhausted, ReadInvokes, ReadReturns, ReadFails, DispatchRaises,
                 ApplyLease, RefuseLease
  <2>a. GrantPool \cup issued \subseteq Grant
    BY <1>t, CoreAssumption
  <2>2. SessionNext
    BY <2>a, <1>10, Zenon DEF Dispatch, SessionNext
  <2>3. Stays
    BY <1>10, <2>1 DEF Dispatch, Stays, govVars
  <2>. QED
    BY <2>2, <2>3
<1>11. CASE Revoke
  BY <1>11 DEF Revoke, RevokeAll, SessionNext, Stays, govVars
<1>12. CASE UNCHANGED allVars
  BY <1>12 DEF allVars, govVars, vars, Stays
<1>. QED
  BY <1>1, <1>2, <1>3, <1>4, <1>5, <1>6, <1>7, <1>8, <1>9, <1>10, <1>11, <1>12
     DEF NextContinuation

(***************************************************************************)
(* A grant in effect is never accepted again.                              *)
(***************************************************************************)
LEMMA AcceptedFresh ==
  ASSUME NEW c, NEW g, LeaseVerdict(c, g) = "accepted"
  PROVE  \A i \in DOMAIN c.applied : c.applied[i] # g
BY DEF LeaseVerdict

(***************************************************************************)
(* While the ledger stays, the session can only put the pending grant into *)
(* effect, and only once.                                                  *)
(***************************************************************************)
LEMMA StaysAgreed ==
  ASSUME ContinuationInv, Advances, Stays
  PROVE  /\ AuthorityAgreement' /\ IssuedKnown'
         /\ ledger # None /\ Agreed(ledger) => Agreed(ledger)'
         /\ \/ UNCHANGED <<core.applied, core.cumulative>>
            \/ /\ ledger # None /\ ledger.pending # None
               /\ Len(core.applied) + 1 = ledger.granted
               /\ Agreed(ledger)'
<1>1. /\ AuthorityAgreement /\ IssuedKnown /\ core \in Core /\ core.applied \in Seq(Grant)
      /\ Len(core.applied) \in Nat /\ DOMAIN core.applied = 1..Len(core.applied)
      /\ issued \subseteq Grant
  BY LenProperties DEF ContinuationInv, GovInv, CoreInv, TypeOK, Sound, Core
<1>2. ledger' = ledger /\ issued' = issued
  BY DEF Stays
<1>3. CASE UNCHANGED <<core.applied, core.cumulative>>
  BY <1>1, <1>2, <1>3, Zenon DEF AuthorityAgreement, IssuedKnown, Agreed
<1>4. ASSUME NEW g \in issued, LeaseVerdict(core, g) = "accepted", core' = Extended(core, g)
      PROVE  /\ AuthorityAgreement' /\ IssuedKnown' /\ Agreed(ledger)'
             /\ ledger # None /\ ledger.pending # None
             /\ Len(core.applied) + 1 = ledger.granted
  <2>. DEFINE s == core.applied
              l == Append(s, g)
              k == Len(s)
  <2>1. ledger # None
    BY <1>1, <1>4 DEF AuthorityAgreement
  <2>2. g = ledger.pending /\ g \in Grant /\ g # None
    BY <1>1, <1>4, <2>1, AcceptedFresh, NoneAssumption DEF IssuedKnown
  <2>3. /\ ledger \in Ledger /\ ledger.granted \in Nat /\ ledger.granted > 0
        /\ ledger.pending.index = ledger.granted
        /\ ledger.pending.cumulative = ledger.cumulative
    BY <2>1, <2>2, LedgerFields DEF ContinuationInv, GovInv, Valid, PendingLast
  <2>4. g.index = k + 1
    BY <1>4, AcceptedGrant
  <2>5. k + 1 = ledger.granted
    BY <2>2, <2>3, <2>4
  <2>6. /\ l \in Seq(Grant) /\ Len(l) = k + 1 /\ l[k + 1] = g
        /\ DOMAIN l = 1..(k + 1) /\ \A i \in 1..k : l[i] = s[i]
    BY <1>1, <2>2, AppendProperties, LenProperties
  <2>7. core'.applied = l /\ core'.cumulative = g.cumulative
    BY <1>1, <1>4 DEF Extended, Core
  <2>. HIDE DEF l, k, s
  <2>8. Agreed(ledger)'
    BY <1>2, <2>2, <2>3, <2>5, <2>6, <2>7 DEF Agreed
  <2>9. AuthorityAgreement'
    <3>1. ledger'.pending \in issued' /\ core'.applied[ledger'.granted] = ledger'.pending
      BY <1>2, <1>4, <2>2, <2>5, <2>6, <2>7
    <3>. QED
      BY <1>2, <2>1, <2>2, <2>8, <3>1 DEF AuthorityAgreement
  <2>10. IssuedKnown'
    <3>. SUFFICES ASSUME NEW h \in issued, h # ledger.pending
                  PROVE  \E i \in DOMAIN l : l[i] = h
      BY <1>2, <2>7 DEF IssuedKnown
    <3>1. PICK i \in DOMAIN s : s[i] = h
      BY <1>1, <2>1 DEF IssuedKnown, s
    <3>2. i \in DOMAIN l /\ l[i] = h
      BY <1>1, <2>6, <3>1 DEF s, k
    <3>. QED
      BY <3>2
  <2>. QED
    BY <2>1, <2>2, <2>5, <2>8, <2>9, <2>10 DEF s, k
<1>. QED
  BY <1>3, <1>4 DEF Advances

(***************************************************************************)
(* A step under which the ledger stays preserves the invariant.            *)
(***************************************************************************)
LEMMA StaysInv == ContinuationInv /\ CoreInv' /\ Advances /\ Stays => GovInv'
<1>. SUFFICES ASSUME ContinuationInv, CoreInv', Advances, Stays PROVE GovInv'
  OBVIOUS
<1>1. UNCHANGED <<ledger, generation, kept, spent>> /\ GovInv
  BY DEF Stays, ContinuationInv
<1>2. WorkFollows'
  <2>1. CASE work' = work
    <3>. SUFFICES ASSUME work # None PROVE WorkFollows'
      BY <2>1 DEF WorkFollows
    <3>1. /\ ledger # None /\ generation < MaxGeneration
          /\ Follows(ledger, work.next, work.kind)
          /\ work.kind = "settle" => Agreed(ledger)
      BY <1>1 DEF GovInv, WorkFollows
    <3>2. Agreed(ledger) => Agreed(ledger)'
      BY <3>1, StaysAgreed
    <3>. QED
      BY <1>1, <2>1, <3>1, <3>2 DEF WorkFollows
  <2>2. CASE work' = None
    BY <2>2 DEF WorkFollows
  <2>3. CASE /\ ledger # None /\ generation < MaxGeneration
             /\ UNCHANGED vars
             /\ Follows(ledger, work'.next, work'.kind)
             /\ work'.kind = "settle" => Agreed(ledger)
    <3>1. Agreed(ledger) => Agreed(ledger)'
      BY <2>3, StaysAgreed
    <3>. QED
      BY <1>1, <2>3, <3>1 DEF WorkFollows
  <2>. QED
    BY <2>1, <2>2, <2>3 DEF Stays
<1>3. AuthorityAgreement' /\ IssuedKnown'
  BY StaysAgreed
<1>4. SpentLast' /\ GrantsPaid'
  BY <1>1 DEF GovInv, SpentLast, GrantsPaid
<1>5. PendingAccepted'
  <2>. SUFFICES ASSUME ledger # None, ledger.pending # None PROVE PendingAccepted'
    BY <1>1 DEF PendingAccepted
  <2>1. /\ ledger.pending.prior <= core.tick
        /\ ledger.pending.prior = core.tick => LeaseVerdict(core, ledger.pending) = "accepted"
    BY <1>1 DEF GovInv, PendingAccepted
  <2>2. CASE core' = core
    BY <1>1, <2>1, <2>2 DEF PendingAccepted
  <2>3. CASE core' # core
    <3>1. ledger.pending \in Grant
      BY <1>1, LedgerFields DEF GovInv, Valid
    <3>2. core'.tick > core.tick /\ core.tick \in Nat /\ core'.tick \in Nat
      BY <2>3, SoundNumbers DEF Advances, ContinuationInv, CoreInv
    <3>3. ledger.pending.prior \in Nat
      BY <3>1 DEF Grant
    <3>4. ledger.pending.prior < core'.tick
      BY <2>1, <3>2, <3>3
    <3>. QED
      BY <1>1, <3>2, <3>3, <3>4 DEF PendingAccepted
  <2>. QED
    BY <2>2, <2>3
<1>. QED
  BY <1>1, <1>2, <1>3, <1>4, <1>5 DEF GovInv

(***************************************************************************)
(* Creating the ledger preserves it.                                       *)
(***************************************************************************)
LEMMA CreatesInv == ContinuationInv /\ Creates => GovInv'
<1>. SUFFICES ASSUME ContinuationInv, Creates PROVE GovInv'
  OBVIOUS
<1>1. /\ ledger = None /\ Valid(ledger')
      /\ UNCHANGED <<core, issued, generation, work, kept, spent>>
      /\ ledger'.granted = 0 /\ ledger'.cumulative = Zero
      /\ ledger'.consumed = None /\ ledger'.pending = None
  BY DEF Creates, vars
<1>2. core.applied = <<>> /\ issued = {} /\ work = None /\ spent = <<>>
  BY <1>1 DEF ContinuationInv, GovInv, AuthorityAgreement, WorkFollows, SpentLast
<1>3. Len(core.applied) = 0 /\ core.cumulative = Zero
  BY <1>2, EmptySeq DEF ContinuationInv, LedgerInv, Before
<1>4. ledger' # None /\ ledger' \in Ledger
  BY <1>1, NoneAssumption DEF Valid
<1>5. AuthorityAgreement'
  BY <1>1, <1>3, <1>4 DEF AuthorityAgreement, Agreed
<1>6. IssuedKnown' /\ SpentLast' /\ WorkFollows' /\ PendingAccepted'
  BY <1>1, <1>2 DEF IssuedKnown, SpentLast, WorkFollows, PendingAccepted
<1>7. GrantsPaid'
  <2>1. Len(spent') = 0 /\ ledger'.recoveries \in Nat
    BY <1>1, <1>2, <1>4, EmptySeq, LedgerFields
  <2>. QED
    BY <1>1, <2>1 DEF GrantsPaid
<1>. QED
  BY <1>1, <1>5, <1>6, <1>7 DEF GovInv, ContinuationInv

(***************************************************************************)
(* After a transition installs its ledger, governance and runtime agree:   *)
(* a new grant is the next lease of a session in which all earlier ones    *)
(* are in effect.                                                          *)
(***************************************************************************)
LEMMA InstallsAgreed ==
  ASSUME ContinuationInv, Installs
  PROVE  AuthorityAgreement' /\ IssuedKnown'
<1>. DEFINE n == work.next
<1>1. /\ work # None /\ ledger' = n /\ core' = core
      /\ ledger # None /\ Follows(ledger, n, work.kind)
      /\ work.kind = "settle" => Agreed(ledger)
      /\ AuthorityAgreement /\ IssuedKnown
  BY DEF Installs, Supersede, ContinuationInv, GovInv, WorkFollows
<1>2. /\ core.applied \in Seq(Grant) /\ Len(core.applied) \in Nat
      /\ DOMAIN core.applied = 1..Len(core.applied) /\ issued \subseteq Grant
      /\ Valid(ledger) /\ ledger.granted \in Nat
  BY <1>1, LenProperties, LedgerFields
     DEF ContinuationInv, GovInv, CoreInv, TypeOK, Sound, Core, Valid
<1>3. Valid(n) /\ n \in Ledger /\ n # None
  BY <1>1, NoneAssumption DEF Follows, Valid
<1>4. CASE work.kind = "grant"
  <2>1. /\ LeaseVerdict(core, n.pending) = "accepted" /\ issued' = issued \cup {n.pending}
        /\ Grants(ledger, n)
    BY <1>1, <1>4 DEF Installs, Follows
  <2>2. n.pending \in Grant /\ n.pending # None /\ ledger.pending = None
    BY <2>1, NoneAssumption DEF Grants
  <2>3. n.pending.index = n.granted /\ n.pending.cumulative = n.cumulative
    BY <1>3, <2>2 DEF Valid, PendingLast
  <2>4. /\ n.pending.index = Len(core.applied) + 1
        /\ n.pending.cumulative = Plus(core.cumulative, n.pending.granted)
    BY <2>1, AcceptedGrant
  <2>5. AuthorityAgreement'
    BY <1>1, <1>3, <2>1, <2>2, <2>3, <2>4 DEF AuthorityAgreement
  <2>6. \A g \in issued : g # ledger.pending
    BY <1>2, <2>2, NoneAssumption
  <2>7. IssuedKnown'
    BY <1>1, <2>1, <2>6 DEF IssuedKnown
  <2>. QED
    BY <2>5, <2>7
<1>5. CASE work.kind # "grant"
  <2>1. issued' = issued /\ SameGrants(ledger, n)
    BY <1>1, <1>5 DEF Installs, Follows
  <2>2. CASE n.pending = ledger.pending
    BY <1>1, <1>3, <2>1, <2>2 DEF AuthorityAgreement, IssuedKnown, Agreed, SameGrants
  <2>3. CASE work.kind = "settle"
    <3>1. ledger.pending # None /\ n.pending = None /\ Agreed(ledger)
      BY <1>1, <2>3 DEF Follows
    <3>2. AuthorityAgreement'
      BY <1>1, <1>3, <2>1, <3>1 DEF AuthorityAgreement, Agreed, SameGrants
    <3>3. ledger.granted > 0
      BY <1>2, <3>1 DEF Valid, PendingLast
    <3>4. core.applied[ledger.granted] = ledger.pending /\ Len(core.applied) = ledger.granted
      BY <1>1, <1>2, <3>1 DEF AuthorityAgreement, Agreed
    <3>5. ledger.granted \in DOMAIN core.applied
      BY <1>2, <3>3, <3>4
    <3>6. IssuedKnown'
      BY <1>1, <2>1, <3>4, <3>5 DEF IssuedKnown
    <3>. QED
      BY <3>2, <3>6
  <2>4. work.kind \in {"deny", "observe"} => n.pending = ledger.pending
    BY <1>1 DEF Follows
  <2>. QED
    BY <1>1, <1>5, <2>2, <2>3, <2>4 DEF Follows
<1>. QED
  BY <1>4, <1>5

(***************************************************************************)
(* Every grant a transition installs is paid for: by a progress record the *)
(* grant before did not consume, or by one more recovery.                  *)
(***************************************************************************)
LEMMA InstallsPaid ==
  ASSUME ContinuationInv, Installs
  PROVE  SpentLast' /\ GrantsPaid' /\ spent' \in Seq(Progress)
<1>. DEFINE n == work.next
            k == Len(spent)
<1>1. /\ work # None /\ ledger' = n /\ ledger # None /\ Follows(ledger, n, work.kind)
      /\ SpentLast /\ GrantsPaid /\ spent \in Seq(Progress) /\ Valid(ledger)
  BY DEF Installs, Supersede, ContinuationInv, GovInv, WorkFollows
<1>2. /\ k \in Nat /\ \A i \in 1..k : spent[i] \in Progress
      /\ (spent = <<>>) <=> (k = 0)
  BY <1>1, LenProperties, ElementOfSeq, EmptySeq
<1>3. /\ n # None /\ ledger.granted \in Nat /\ ledger.recoveries \in Nat
      /\ n.granted \in Nat /\ n.recoveries \in Nat
  BY <1>1, LedgerFields, NoneAssumption DEF Follows, Valid
<1>4. /\ ledger.granted <= k + ledger.recoveries
      /\ \A i \in 1..k : Measurable(spent[i]) /\ (i > 1 => spent[i - 1] # spent[i])
  BY <1>1 DEF GrantsPaid
<1>5. CASE work.kind = "grant" /\ n.consumed # ledger.consumed
  <2>. DEFINE p == n.consumed
              q == Append(spent, p)
  <2>1. Grants(ledger, n) /\ spent' = q
    BY <1>1, <1>5 DEF Installs, Follows
  <2>2. /\ n.granted = ledger.granted + 1 /\ n.recoveries >= ledger.recoveries
        /\ p \in Progress /\ Measurable(p)
    BY <1>1, <1>5, <2>1 DEF Grants, Follows, Onward
  <2>3. /\ q \in Seq(Progress) /\ Len(q) = k + 1 /\ q[k + 1] = p /\ q # <<>>
        /\ \A i \in 1..k : q[i] = spent[i]
    BY <1>1, <2>2, AppendProperties
  <2>4. k > 0 => spent[k] = ledger.consumed
    BY <1>1, <1>2 DEF SpentLast
  <2>. HIDE DEF q, k
  <2>5. SpentLast'
    BY <1>1, <1>3, <2>1, <2>3 DEF SpentLast
  <2>6. ASSUME NEW i \in 1..(k + 1)
        PROVE  Measurable(q[i]) /\ (i > 1 => q[i - 1] # q[i])
    <3>1. CASE i \in 1..k
      BY <1>2, <1>4, <2>3, <3>1
    <3>2. CASE i = k + 1
      <4>1. i > 1 => k \in 1..k /\ i - 1 = k
        BY <1>2, <3>2
      <4>. QED
        BY <1>5, <2>2, <2>3, <2>4, <3>2, <4>1
    <3>. QED
      BY <1>2, <3>1, <3>2
  <2>7. n.granted <= (k + 1) + n.recoveries
    BY <1>2, <1>3, <1>4, <2>2
  <2>8. GrantsPaid'
    BY <1>1, <2>1, <2>3, <2>6, <2>7 DEF GrantsPaid
  <2>. QED
    BY <2>1, <2>3, <2>5, <2>8
<1>6. CASE ~(work.kind = "grant" /\ n.consumed # ledger.consumed)
  <2>1. spent' = spent
    BY <1>6 DEF Installs
  <2>2. n.consumed = ledger.consumed
    BY <1>1, <1>6 DEF Follows, SameGrants
  <2>3. n.granted <= k + n.recoveries
    <3>1. CASE work.kind = "grant"
      <4>1. n.granted = ledger.granted + 1 /\ n.recoveries = ledger.recoveries + 1
        BY <1>1, <2>2, <3>1 DEF Follows, Grants
      <4>. QED
        BY <1>2, <1>3, <1>4, <4>1
    <3>2. CASE work.kind # "grant"
      BY <1>1, <1>4, <3>2 DEF Follows, SameGrants
    <3>. QED
      BY <3>1, <3>2
  <2>4. SpentLast'
    BY <1>1, <1>3, <2>1, <2>2 DEF SpentLast
  <2>5. GrantsPaid'
    BY <1>1, <1>4, <2>1, <2>3 DEF GrantsPaid
  <2>. QED
    BY <1>1, <2>1, <2>4, <2>5
<1>. QED
  BY <1>5, <1>6

(***************************************************************************)
(* Installing the ledger of a transition preserves the invariant.          *)
(***************************************************************************)
LEMMA InstallsInv == ContinuationInv /\ Installs => GovInv'
<1>. SUFFICES ASSUME ContinuationInv, Installs PROVE GovInv'
  OBVIOUS
<1>1. /\ work # None /\ ledger' = work.next /\ generation' = generation + 1 /\ work' = None
      /\ kept' \in {kept, Live}
      /\ ledger # None /\ generation < MaxGeneration
      /\ Follows(ledger, work.next, work.kind)
      /\ GovInv
  BY DEF Installs, Supersede, ContinuationInv, GovInv, WorkFollows
<1>2. Valid(ledger')
  BY <1>1 DEF Follows
<1>3. generation' \in 0..MaxGeneration /\ generation \in Nat
  BY <1>1, ContinuationAssumption DEF GovInv
<1>4. Live \in Sealed
  BY <1>1, <1>3 DEF Live, Sealed, GovInv, Valid
<1>5. kept' \in Sealed \cup {None}
  BY <1>1, <1>4 DEF GovInv
<1>6. WorkFollows'
  BY <1>1 DEF WorkFollows
<1>7. PendingAccepted'
  <2>1. core' = core
    BY DEF Installs
  <2>2. CASE work.kind = "grant"
    <3>1. LeaseVerdict(core, ledger'.pending) = "accepted"
      BY <1>1, <2>2 DEF Installs
    <3>2. ledger'.pending.prior = core.tick /\ core.tick \in Nat
      BY <3>1, AcceptedGrant, SoundNumbers DEF ContinuationInv, CoreInv
    <3>. QED
      BY <2>1, <3>1, <3>2 DEF PendingAccepted
  <2>3. CASE work.kind # "grant"
    <3>1. ledger'.pending \in {None, ledger.pending}
      BY <1>1, <2>3 DEF Follows
    <3>. QED
      BY <1>1, <2>1, <3>1 DEF PendingAccepted, GovInv
  <2>. QED
    BY <2>2, <2>3
<1>. QED
  BY <1>2, <1>3, <1>5, <1>6, <1>7, InstallsAgreed, InstallsPaid DEF GovInv

(***************************************************************************)
(* The initial states satisfy the invariant.                               *)
(***************************************************************************)
LEMMA InitContinuationInv == InitContinuation => ContinuationInv
<1>. SUFFICES ASSUME InitContinuation PROVE ContinuationInv
  OBVIOUS
<1>1. /\ Init /\ ledger = None /\ generation = 0 /\ work = None /\ kept = None
      /\ spent = <<>>
  BY DEF InitContinuation
<1>2. CoreInv /\ LedgerInv
  BY <1>1, InitCoreInv, InitLedger
<1>3. core.applied = <<>> /\ issued = {}
  BY <1>1 DEF Init, InitialCore
<1>. QED
  BY <1>1, <1>2, <1>3, ContinuationAssumption
     DEF ContinuationInv, GovInv, WorkFollows, AuthorityAgreement, IssuedKnown, SpentLast,
         GrantsPaid, PendingAccepted

(***************************************************************************)
(* Every step preserves it.                                                *)
(***************************************************************************)
LEMMA NextContinuationInv ==
  ContinuationInv /\ [NextContinuation]_allVars => ContinuationInv'
<1>. SUFFICES ASSUME ContinuationInv, [NextContinuation]_allVars PROVE ContinuationInv'
  OBVIOUS
<1>1. [SessionNext]_vars /\ (Stays \/ Creates \/ Installs)
  BY Steps
<1>2. CoreInv' /\ Advances
  BY <1>1, SessionCoreInv, SessionAdvances DEF ContinuationInv
<1>3. LedgerInv'
  BY <1>2, NextLedger DEF ContinuationInv
<1>. QED
  BY <1>1, <1>2, <1>3, StaysInv, CreatesInv, InstallsInv DEF ContinuationInv

-----------------------------------------------------------------------------
(* Recoveries. *)

(***************************************************************************)
(* A ledger that may still change strategy and has an open task is granted *)
(* the next lease of the schedule once rebound to the live runtime state.  *)
(***************************************************************************)
LEMMA StrategyGranted ==
  ASSUME ContinuationInv, ledger # None, ledger.pending = None,
         ledger.requests < MaxLeaseRequests, ledger.granted < MaxLeases,
         StrategyAvailable(ledger), ~Complete(ledger), ~ledger.marker
  PROVE  CanChangeStrategy(ledger)
<1>. DEFINE b == ledger
            e == [b EXCEPT !.runtime = core.tick]
            cycle == IF LiveCycle(core) THEN "live" ELSE "none"
            change == [prior |-> b.strategy, proposed |-> b.strategy,
                       cycle |-> cycle, status |-> "admitted"]
            v == Schedule[b.granted + 1]
            request == [defect |-> "none", resources |-> v,
                        change |-> change, evidence |-> "none", blocking |-> FALSE]
<1>1. Valid(b) /\ b \in Ledger /\ Agreed(b) /\ WellFormed(b)
  BY DEF ContinuationInv, GovInv, Valid, AuthorityAgreement
<1>2. /\ b.granted \in Nat /\ b.requests \in Nat /\ b.recoveries \in Nat /\ b.events \in Nat
      /\ b.strategy \in Strategies /\ b.strategy # None /\ b.recoveries < MaxRecoveries
  BY <1>1, LedgerFields DEF StrategyAvailable
<1>3. CASE b.progress = None
  <2>1. b.events < MaxLeaseRequests + 1
    BY <1>1, <1>3, PolicyNumbers DEF WellFormed
  <2>. QED
    BY <1>1, <1>2, <1>3, <2>1 DEF CanChangeStrategy, CanObserveProgress
<1>4. CASE b.progress # None
  <2>1. ~TaskComplete(b.progress)
    BY <1>4 DEF Complete
  <2>2. change \in StrategyChange
    BY <1>2 DEF StrategyChange
  <2>3. change # None
    BY <2>2, NoneAssumption
  <2>4. BindsCycle(cycle, core)
    BY DEF BindsCycle
  <2>5. /\ v # Zero /\ v \in Vector /\ v["mutations"] = 0
    <3>1. b.granted + 1 \in 1..MaxLeases
      BY <1>2, PolicyNumbers
    <3>. QED
      BY <3>1, PolicyNumbers
  <2>6. Within(v, v)
    BY <2>5 DEF Within, Vector
  <2>7. Within(b.cumulative, Capacity) /\ Within(Plus(b.cumulative, v), Capacity)
    BY <1>1, NextLeaseFits
  <2>8. change.prior = b.strategy /\ change.cycle = cycle /\ change.status = "admitted"
    OBVIOUS
  <2>. HIDE DEF change, cycle
  <2>9. /\ request.defect = "none" /\ request.resources = v /\ request.change = change
        /\ request.evidence = "none" /\ request.blocking = FALSE
    OBVIOUS
  <2>10. /\ e.runtime = core.tick /\ e.pending = b.pending /\ e.progress = b.progress
         /\ e.granted = b.granted /\ e.requests = b.requests /\ e.cumulative = b.cumulative
         /\ e.recoveries = b.recoveries /\ e.strategy = b.strategy
    BY <1>1 DEF Ledger
  <2>11. /\ ~(e.granted >= MaxLeases) /\ ~(e.requests >= MaxLeaseRequests)
         /\ ~(e.recoveries >= MaxRecoveries)
    BY <1>2, <2>10, PolicyNumbers
  <2>. HIDE DEF request, e, v
  <2>12. StrategyVerdict(e, core, request) = "admitted"
    BY <1>2, <2>3, <2>4, <2>8, <2>9, <2>10 DEF StrategyVerdict
  <2>13. Verdict(e, core, request) = "granted"
    BY <1>4, <2>1, <2>3, <2>5, <2>6, <2>7, <2>9, <2>10, <2>11, <2>12 DEF Verdict, v
  <2>. QED
    BY <1>2, <1>4, <2>13 DEF CanChangeStrategy, e, request, change, cycle, v
<1>. QED
  BY <1>3, <1>4

(***************************************************************************)
(* A pending grant can be applied, or settled once applied, exactly while  *)
(* nothing but its application has moved the runtime.                      *)
(***************************************************************************)
LEMMA PendingApplies ==
  ASSUME ContinuationInv, ledger # None, ledger.pending # None
  PROVE  CanApplyPending(ledger) <=> ~Overtaken(ledger)
<1>. DEFINE g == ledger.pending
            k == Len(core.applied)
<1>1. /\ AuthorityAgreement /\ PendingAccepted /\ LedgerInv /\ PendingLast(ledger)
      /\ ledger \in Ledger
  BY DEF ContinuationInv, GovInv, Valid
<1>2. g \in Grant /\ ledger.granted \in Nat
  BY <1>1, LedgerFields
<1>3. g.prior \in Nat /\ core.tick \in Nat
  BY <1>2, SoundNumbers DEF Grant, ContinuationInv, CoreInv
<1>4. core.applied \in Seq(Grant) /\ k \in Nat /\ DOMAIN core.applied = 1..k
  BY LenProperties DEF ContinuationInv, CoreInv, Sound, Core
<1>5. /\ g \in issued /\ g.prior <= core.tick
      /\ g.prior = core.tick => LeaseVerdict(core, g) = "accepted"
      /\ ledger.granted > 0 /\ ledger.runtime = g.prior
  BY <1>1 DEF AuthorityAgreement, PendingAccepted, PendingLast
<1>6. CASE k + 1 = ledger.granted
  <2>1. k # ledger.granted /\ ~Settles(ledger)
    BY <1>2, <1>4, <1>6 DEF Settles
  <2>2. Overtaken(ledger) <=> core.tick > g.prior
    BY <1>3, <2>1 DEF Overtaken
  <2>3. LeaseVerdict(core, g) = "accepted" => g.prior = core.tick
    BY AcceptedGrant
  <2>. QED
    BY <1>3, <1>5, <2>1, <2>2, <2>3 DEF CanApplyPending
<1>7. CASE Agreed(ledger) /\ core.applied[ledger.granted] = g
  <2>1. k = ledger.granted /\ core.cumulative = ledger.cumulative
    BY <1>7 DEF Agreed
  <2>2. k \in 1..k /\ core.applied[k] = g
    BY <1>4, <1>5, <1>7, <2>1
  <2>3. g.prior < core.tick
    BY <1>1, <2>2 DEF LedgerInv
  <2>4. LeaseVerdict(core, g) # "accepted"
    BY <1>4, <2>2, AcceptedFresh
  <2>5. Overtaken(ledger) <=> core.tick > g.prior + 1
    BY <1>3, <2>1 DEF Overtaken
  <2>6. core.applied # <<>>
    BY <1>4, <2>2, EmptySeq
  <2>7. Settles(ledger) <=> core.tick = g.prior + 1
    BY <1>5, <2>1, <2>2, <2>6 DEF Settles
  <2>. QED
    BY <1>3, <2>3, <2>4, <2>5, <2>7 DEF CanApplyPending
<1>. QED
  BY <1>1, <1>6, <1>7 DEF AuthorityAgreement

(***************************************************************************)
(* Whatever recovery the projection of a valid ledger advertises can be    *)
(* taken, a pending lease until the runtime has moved on.                  *)
(***************************************************************************)
LEMMA RecoveriesHold == ContinuationInv => RecoveriesPossible
<1>. SUFFICES ASSUME ContinuationInv, ledger # None
              PROVE  /\ "apply_pending_lease" \in RecoveryActions(ledger)
                          => (CanApplyPending(ledger) <=> ~Overtaken(ledger))
                     /\ "provide_objective_progress" \in RecoveryActions(ledger)
                          => CanObserveProgress(ledger)
                     /\ RecoveryActions(ledger) \cap StrategyAction # {}
                          \/ StrategyAdmissible(ledger) => CanChangeStrategy(ledger)
  BY DEF RecoveriesPossible
<1>1. Valid(ledger) /\ ledger \in Ledger /\ WellFormed(ledger) /\ CompleteClosed(ledger)
  BY DEF ContinuationInv, GovInv, Valid
<1>2. ledger.granted \in Nat /\ ledger.requests \in Nat
  BY <1>1, LedgerFields
<1>3. ledger.requests <= MaxLeaseRequests /\ ledger.granted <= MaxLeases
      /\ (ledger.marker => ledger.pstate = "lease_exhausted")
  BY <1>1 DEF WellFormed
<1>4. ledger.pending = None => Agreed(ledger)
  BY DEF ContinuationInv, GovInv, AuthorityAgreement
<1>5. ASSUME "provide_objective_progress" \in RecoveryActions(ledger)
      PROVE  CanObserveProgress(ledger)
  <2>1. /\ ledger.pending = None /\ ledger.pstate = "stalled"
        /\ ledger.events < MaxLeaseRequests + 1
    BY <1>5 DEF RecoveryActions
  <2>. QED
    BY <1>3, <1>4, <2>1 DEF CanObserveProgress
<1>6. ASSUME RecoveryActions(ledger) \cap StrategyAction # {} PROVE StrategyAdmissible(ledger)
  <2>1. /\ ledger.pending = None /\ ~GovernanceBlocked(ledger)
        /\ ledger.requests # MaxLeaseRequests /\ ledger.granted # MaxLeases
    BY <1>6 DEF RecoveryActions, StrategyAction
  <2>2. StrategyAvailable(ledger)
    BY <1>6, <2>1 DEF RecoveryActions, StrategyAction
  <2>3. ledger.pstate \in {"stalled", "cycle_blocked", "strategy_change_rejected"}
    BY <1>6, <2>1 DEF RecoveryActions, StrategyAction
  <2>4. ledger.requests < MaxLeaseRequests /\ ledger.granted < MaxLeases
    BY <1>2, <1>3, <2>1, PolicyNumbers
  <2>. QED
    BY <2>1, <2>2, <2>3, <2>4 DEF StrategyAdmissible
<1>7. ASSUME StrategyAdmissible(ledger) PROVE CanChangeStrategy(ledger)
  <2>1. ~Complete(ledger) /\ ~ledger.marker
    BY <1>1, <1>3, <1>7 DEF StrategyAdmissible, CompleteClosed
  <2>. QED
    BY <1>7, <2>1, StrategyGranted DEF StrategyAdmissible
<1>8. ASSUME "apply_pending_lease" \in RecoveryActions(ledger)
      PROVE  CanApplyPending(ledger) <=> ~Overtaken(ledger)
  <2>1. ledger.pending # None
    BY <1>8 DEF RecoveryActions
  <2>. QED
    BY <2>1, PendingApplies
<1>. QED
  BY <1>5, <1>6, <1>7, <1>8

-----------------------------------------------------------------------------
(* The lease protocol. *)

(***************************************************************************)
(* The protocol's copies of the policy operators are the same operators.   *)
(***************************************************************************)
LEMMA ProtocolPolicy ==
  /\ Protocol!Vector = Vector /\ Protocol!Zero = Zero /\ Protocol!MaxLeases = MaxLeases
  /\ \A a, b : Protocol!Within(a, b) <=> Within(a, b)
  /\ \A a, b : Protocol!Plus(a, b) = Plus(a, b)
BY DEF Protocol!Vector, Vector, Protocol!Zero, Zero, Protocol!MaxLeases, MaxLeases,
       Protocol!Within, Within, Protocol!Plus, Plus, Protocol!Resource, Resource,
       Protocol!RuntimeResource, RuntimeResource

(***************************************************************************)
(* The initial states are initial states of the protocol.                  *)
(***************************************************************************)
LEMMA ProtocolStart == InitContinuation => Protocol!ProtocolInit
<1>. SUFFICES ASSUME InitContinuation PROVE Protocol!ProtocolInit
  OBVIOUS
<1>1. /\ ledger = None /\ core.applied = <<>> /\ core.cumulative = Zero
      /\ authority.revoked = FALSE
  BY DEF InitContinuation, Init, InitialCore
<1>2. Len(core.applied) = 0
  BY <1>1, EmptySeq
<1>. QED
  BY <1>1, <1>2, ProtocolPolicy DEF Protocol!ProtocolInit, Phase

(***************************************************************************)
(* While the ledger stays, the protocol stutters, a lease takes effect, or *)
(* authority is withdrawn.                                                 *)
(***************************************************************************)
LEMMA StaysProtocol ==
  ASSUME ContinuationInv, [SessionNext]_vars, Advances, Stays
  PROVE  [Protocol!ProtocolNext]_(Protocol!protocolVars)
<1>1. ledger' = ledger
  BY DEF Stays
<1>2. /\ Len(core.applied) \in Nat /\ authority \in [epoch : Nat, revoked : BOOLEAN]
      /\ ledger # None => ledger.granted \in Nat
  BY LenProperties, LedgerFields
     DEF ContinuationInv, GovInv, CoreInv, TypeOK, Sound, Core, Valid
<1>3. \/ UNCHANGED authority
      \/ /\ UNCHANGED <<core, staged, call>>
         /\ ~authority.revoked /\ authority'.revoked = TRUE
  <2>1. CASE RevokeAll
    BY <2>1 DEF RevokeAll, coreVars
  <2>2. ASSUME NEW g \in Grant, IssueGrant(g) \/ ApplyLease(g) \/ RefuseLease(g)
        PROVE  UNCHANGED authority
    BY <2>2 DEF IssueGrant, ApplyLease, RefuseLease
  <2>3. ASSUME NEW x, \/ RejectCommand(x) \/ ReadHit(x) \/ ReadExhausted(x)
                      \/ ReadInvokes(x) \/ ReadReturns(x) \/ ReadFails(x)
        PROVE  UNCHANGED authority
    BY <2>3 DEF RejectCommand, ReadHit, ReadExhausted, ReadInvokes, ReadReturns, ReadFails
  <2>4. CASE RecordRetry \/ RefuseRetry \/ ReadRefused \/ DispatchRaises
    BY <2>4 DEF RecordRetry, RefuseRetry, ReadRefused, DispatchRaises
  <2>5. CASE UNCHANGED vars
    BY <2>5 DEF vars
  <2>. QED
    BY <2>1, <2>2, <2>3, <2>4, <2>5, Zenon DEF SessionNext
<1>4. CASE /\ UNCHANGED <<core.applied, core.cumulative>>
           /\ UNCHANGED authority
  <2>1. Phase' = Phase
    BY <1>1, <1>4, Zenon DEF Phase
  <2>2. UNCHANGED Protocol!protocolVars
    BY <1>1, <1>4, <2>1 DEF Protocol!protocolVars
  <2>. QED
    BY <2>2
<1>5. CASE UNCHANGED <<core, staged, call>> /\ ~authority.revoked /\ authority'.revoked = TRUE
  <2>1. Phase' = Phase
    BY <1>1, <1>5, Zenon DEF Phase
  <2>2. Protocol!Withdraw
    BY <1>1, <1>5, <2>1 DEF Protocol!Withdraw
  <2>. QED
    BY <2>2 DEF Protocol!ProtocolNext
<1>6. CASE /\ ledger # None /\ ledger.pending # None
           /\ Len(core.applied) + 1 = ledger.granted
           /\ Agreed(ledger)'
           /\ UNCHANGED authority
  <2>1. Len(core'.applied) = ledger.granted /\ core'.cumulative = ledger.cumulative
    BY <1>1, <1>6 DEF Agreed
  <2>2. Phase = "pending" /\ Phase' = "applied"
    BY <1>1, <1>2, <1>6, <2>1 DEF Phase
  <2>3. core' # core
    BY <1>2, <1>6, <2>1
  <2>4. ~authority.revoked
    BY <2>3 DEF Advances
  <2>5. Protocol!TakeEffect
    BY <1>1, <1>6, <2>1, <2>2, <2>4 DEF Protocol!TakeEffect
  <2>. QED
    BY <2>5 DEF Protocol!ProtocolNext
<1>7. \/ UNCHANGED <<core.applied, core.cumulative>>
      \/ /\ ledger # None /\ ledger.pending # None
         /\ Len(core.applied) + 1 = ledger.granted
         /\ Agreed(ledger)'
  BY StaysAgreed
<1>. QED
  BY <1>3, <1>4, <1>5, <1>6, <1>7

(***************************************************************************)
(* Installing a ledger grants the next lease, settles the last one, or is  *)
(* a stutter.                                                              *)
(***************************************************************************)
LEMMA InstallsProtocol ==
  ASSUME ContinuationInv, Installs, GovInv'
  PROVE  [Protocol!ProtocolNext]_(Protocol!protocolVars)
<1>. DEFINE n == work.next
<1>1. /\ ledger' = n /\ UNCHANGED <<core, authority>> /\ ~authority.revoked
      /\ ledger # None /\ Follows(ledger, n, work.kind) /\ work # None
      /\ work.kind = "settle" => Agreed(ledger)
  BY DEF Installs, Active, Supersede, ContinuationInv, GovInv, WorkFollows
<1>2. /\ Valid(ledger) /\ Valid(n) /\ n # None /\ n.granted \in Nat /\ ledger.granted \in Nat
      /\ ledger.cumulative \in Vector /\ n.cumulative \in Vector
      /\ Len(core.applied) \in Nat /\ AuthorityAgreement /\ AuthorityAgreement'
  BY <1>1, LenProperties, LedgerFields, NoneAssumption
     DEF ContinuationInv, GovInv, CoreInv, Sound, Core, Valid, Follows
<1>3. CASE work.kind = "grant"
  <2>. DEFINE v == n.pending.granted
              a == ledger.cumulative
  <2>1. /\ ledger.pending = None /\ n.granted = ledger.granted + 1 /\ n.granted <= MaxLeases
        /\ n.pending \in Grant /\ v # Zero /\ Within(v, Schedule[n.granted])
        /\ n.cumulative = Plus(a, v)
    BY <1>1, <1>3 DEF Follows, Grants
  <2>2. n.pending # None /\ v \in Vector
    BY <2>1, NoneAssumption DEF Grant
  <2>3. /\ LeaseVerdict(core, n.pending) = "accepted"
        /\ n.pending.index = Len(core.applied) + 1 /\ n.pending.index = n.granted
    BY <1>2, <1>3, <2>2, AcceptedGrant DEF Installs, Valid, PendingLast
  <2>4. Phase = "settled" /\ Phase' = "pending"
    BY <1>1, <1>2, <2>1, <2>2, <2>3 DEF Phase
  <2>5. Schedule[n.granted] \in Vector /\ ledger.granted < MaxLeases
    <3>1. n.granted \in 1..MaxLeases /\ ledger.granted < MaxLeases
      BY <1>2, <2>1, PolicyNumbers
    <3>. QED
      BY <3>1, PolicyNumbers
  <2>. HIDE DEF v, a, n
  <2>6. \A r \in Resource : /\ n.cumulative[r] = a[r] + v[r]
                            /\ a[r] \in Nat /\ v[r] \in Nat
                            /\ v[r] <= Schedule[n.granted][r]
                            /\ Schedule[n.granted][r] \in Nat
                            /\ Plus(a, Schedule[n.granted])[r] = a[r] + Schedule[n.granted][r]
    <3>1. a \in Vector
      BY <1>2 DEF a
    <3>. QED
      BY <2>1, <2>2, <2>5, <3>1, PlusVector DEF Within
  <2>7. Within(a, n.cumulative) /\ Within(n.cumulative, Plus(a, Schedule[n.granted]))
    BY <2>6 DEF Within
  <2>8. n.cumulative # a
    <3>1. PICK r \in Resource : v[r] # 0
      <4>. SUFFICES ASSUME \A r \in Resource : v[r] = 0 PROVE FALSE
        OBVIOUS
      <4>1. v = Zero
        BY <2>2 DEF Vector, Zero
      <4>. QED
        BY <2>1, <4>1
    <3>2. n.cumulative[r] # a[r]
      BY <2>6, <3>1
    <3>. QED
      BY <3>2
  <2>9. Protocol!GrantLease
    BY <1>1, <1>2, <2>1, <2>4, <2>5, <2>7, <2>8, ProtocolPolicy DEF Protocol!GrantLease, a, n
  <2>. QED
    BY <2>9 DEF Protocol!ProtocolNext
<1>4. CASE work.kind = "settle"
  <2>1. /\ ledger.pending # None /\ n.pending = None /\ SameGrants(ledger, n)
        /\ Len(core.applied) = ledger.granted
    BY <1>1, <1>4 DEF Follows, Agreed
  <2>2. Phase = "applied" /\ Phase' = "settled"
    BY <1>1, <1>2, <2>1 DEF Phase
  <2>3. Protocol!Settle
    BY <1>1, <1>2, <2>1, <2>2 DEF Protocol!Settle, SameGrants
  <2>. QED
    BY <2>3 DEF Protocol!ProtocolNext
<1>5. CASE work.kind \in {"deny", "observe"}
  <2>1. n.pending = ledger.pending /\ SameGrants(ledger, n)
    BY <1>1, <1>5 DEF Follows
  <2>2. Phase' = Phase
    BY <1>1, <1>2, <2>1 DEF Phase, SameGrants
  <2>3. UNCHANGED Protocol!protocolVars
    BY <1>1, <1>2, <2>1, <2>2 DEF Protocol!protocolVars, SameGrants
  <2>. QED
    BY <2>3
<1>. QED
  BY <1>1, <1>3, <1>4, <1>5 DEF Follows

(***************************************************************************)
(* Every step of governance and runtime is a step of the protocol.         *)
(***************************************************************************)
LEMMA ProtocolStep ==
  ContinuationInv /\ [NextContinuation]_allVars
    => [Protocol!ProtocolNext]_(Protocol!protocolVars)
<1>. SUFFICES ASSUME ContinuationInv, [NextContinuation]_allVars
              PROVE  [Protocol!ProtocolNext]_(Protocol!protocolVars)
  OBVIOUS
<1>1. [SessionNext]_vars /\ (Stays \/ Creates \/ Installs)
  BY Steps
<1>2. Advances /\ GovInv'
  BY <1>1, SessionAdvances, NextContinuationInv DEF ContinuationInv
<1>3. CASE Creates
  <2>1. /\ ledger = None /\ ledger'.granted = 0 /\ ledger'.cumulative = Zero
        /\ ledger'.pending = None /\ UNCHANGED <<core, authority>>
    BY <1>3 DEF Creates, vars
  <2>2. Phase = "settled" /\ Phase' = "settled"
    BY <2>1 DEF Phase
  <2>3. UNCHANGED Protocol!protocolVars
    BY <2>1, <2>2, ProtocolPolicy DEF Protocol!protocolVars
  <2>. QED
    BY <2>3
<1>. QED
  BY <1>1, <1>2, <1>3, StaysProtocol, InstallsProtocol

-----------------------------------------------------------------------------
(* The theorems. *)

(***************************************************************************)
(* The invariant holds of every reachable state.                           *)
(***************************************************************************)
THEOREM ContinuationInvariant == SpecContinuation => []ContinuationInv
BY InitContinuationInv, NextContinuationInv, PTL DEF SpecContinuation

(***************************************************************************)
(* Every ledger that is live or about to be installed passes the checks of *)
(* ContinuationState.__post_init__ and _require_policy.                    *)
(***************************************************************************)
THEOREM GovernanceTypes == SpecContinuation => []TypeOKContinuation
<1>1. ContinuationInv => TypeOKContinuation
  BY DEF ContinuationInv, GovInv, WorkFollows, Follows, Valid, TypeOKContinuation
<1>. QED
  BY <1>1, ContinuationInvariant, PTL

(***************************************************************************)
(* Governance (continuation.py) and the native runtime agree on the leases *)
(* granted and in effect, whatever ran between the halves of a transition. *)
(***************************************************************************)
THEOREM AgreementSafety == SpecContinuation => []AuthorityAgreement
<1>1. ContinuationInv => AuthorityAgreement
  BY DEF ContinuationInv, GovInv
<1>. QED
  BY <1>1, ContinuationInvariant, PTL

(***************************************************************************)
(* No grant is issued without measurable progress that did not pay for the *)
(* grant before, or a strategy recovery (_evaluate_continuation).          *)
(***************************************************************************)
THEOREM PaymentSafety == SpecContinuation => []GrantsPaid
<1>1. ContinuationInv => GrantsPaid
  BY DEF ContinuationInv, GovInv
<1>. QED
  BY <1>1, ContinuationInvariant, PTL

(***************************************************************************)
(* What compact_projection advertises: progress can be observed, a         *)
(* strategy change is granted the next lease of the schedule in full, and  *)
(* a pending lease can be applied or settled just until another command    *)
(* has moved the runtime; from then on that one advice cannot be followed. *)
(***************************************************************************)
THEOREM RecoverySafety == SpecContinuation => []RecoveriesPossible
BY RecoveriesHold, ContinuationInvariant, PTL

(***************************************************************************)
(* The ledger only advances, and not at all once authority is revoked.     *)
(***************************************************************************)
THEOREM LedgerForward == SpecContinuation => LedgerAdvances
<1>. DEFINE Forward ==
       /\ ledger # None /\ ledger' # ledger =>
            /\ generation' = generation + 1
            /\ ledger'.requests \in {ledger.requests, ledger.requests + 1}
            /\ ledger'.granted >= ledger.granted
            /\ ledger'.denied >= ledger.denied
            /\ ledger'.recoveries >= ledger.recoveries
            /\ ledger'.events >= ledger.events
            /\ ledger.marker => ledger'.marker
            /\ ledger.consumed # None => ledger'.consumed # None
       /\ authority.revoked => UNCHANGED <<ledger, generation, issued, core>>
<1>1. ContinuationInv /\ [NextContinuation]_allVars => [Forward]_allVars
  <2>. SUFFICES ASSUME ContinuationInv, [NextContinuation]_allVars PROVE Forward
    OBVIOUS
  <2>1. [SessionNext]_vars /\ (Stays \/ Creates \/ Installs)
    BY Steps
  <2>2. Advances
    BY <2>1, SessionAdvances DEF ContinuationInv
  <2>3. CASE Stays
    BY <2>2, <2>3 DEF Stays, Advances
  <2>4. CASE Creates
    BY <2>2, <2>4 DEF Creates, Active, Advances
  <2>5. CASE Installs
    <3>1. /\ ledger' = work.next /\ generation' = generation + 1 /\ ~authority.revoked
          /\ Follows(ledger, work.next, work.kind)
      BY <2>5 DEF Installs, Active, Supersede, ContinuationInv, GovInv, WorkFollows
    <3>. QED
      BY <3>1 DEF Follows, Onward
  <2>. QED
    BY <2>1, <2>3, <2>4, <2>5
<1>. QED
  BY <1>1, ContinuationInvariant, PTL DEF SpecContinuation, LedgerAdvances

(***************************************************************************)
(* Governance and runtime together implement the lease protocol: one lease *)
(* at a time, in schedule order, in effect at most once and as granted,    *)
(* and none after revocation.                                              *)
(***************************************************************************)
THEOREM ProtocolImplemented == SpecContinuation => ImplementsProtocol
BY ProtocolStart, ProtocolStep, ContinuationInvariant, PTL
   DEF SpecContinuation, ImplementsProtocol, Protocol!ProtocolSpec
=============================================================================
