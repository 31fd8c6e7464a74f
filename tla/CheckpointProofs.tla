--------------------------- MODULE CheckpointProofs ---------------------------
(***************************************************************************)
(* Partial finalization tells the truth and is always possible, for every  *)
(* policy, schedule and pool of requests.  Checkpoints change no state, so *)
(* the invariant of ContinuationProofs is enough: DenialCurrent says that  *)
(* the status a reason is read off is still so, PendingLast that a ledger  *)
(* bound to the live runtime state has no lease in effect it has not       *)
(* settled, and Budgeted that a ceiling denial means no lease is left.     *)
(***************************************************************************)
EXTENDS Checkpoint, ContinuationProofs

(***************************************************************************)
(* A sealed state whose seal is live is the live state.                    *)
(***************************************************************************)
LEMMA CurrentIsLive ==
  ASSUME ContinuationInv, NEW held \in Held, Current(held)
  PROVE  held = Live
<1>1. CASE held = Live
  BY <1>1
<1>2. CASE held \in Sealed
  BY <1>2 DEF Sealed, Current, Live
<1>. QED
  BY <1>1, <1>2 DEF Held, ContinuationInv, GovInv

(***************************************************************************)
(* A ledger bound to the live runtime state and settled with it on every   *)
(* lease has no lease pending: the one in effect would have moved the      *)
(* runtime beyond the state the ledger is bound to.                        *)
(***************************************************************************)
LEMMA SettledNothingPending ==
  ASSUME ContinuationInv, ledger # None, ledger.runtime = core.tick,
         Len(core.applied) = ledger.granted
  PROVE  ledger.pending = None
<1>. SUFFICES ASSUME ledger.pending # None PROVE FALSE
  OBVIOUS
<1>1. /\ AuthorityAgreement /\ LedgerInv /\ CoreInv /\ Valid(ledger)
  BY DEF ContinuationInv, GovInv
<1>2. /\ ledger.granted \in Nat /\ ledger.granted > 0 /\ ledger.pending.prior = core.tick
  BY <1>1, LedgerFields DEF Valid, PendingLast
<1>3. core.applied[ledger.granted] = ledger.pending
  BY <1>1, <1>2 DEF AuthorityAgreement
<1>4. core.tick \in Nat
  BY <1>1, SoundNumbers DEF CoreInv
<1>5. ledger.granted \in 1..Len(core.applied)
  BY <1>2
<1>6. ledger.pending.prior < core.tick
  BY <1>1, <1>3, <1>5 DEF LedgerInv
<1>. QED
  BY <1>2, <1>4, <1>6

(***************************************************************************)
(* No decision or no lease is left exactly when none remains of one kind.  *)
(***************************************************************************)
LEMMA NoneRemain ==
  ASSUME NEW b, Valid(b)
  PROVE  /\ LeasesRemaining(b) = 0 <=> b.granted = MaxLeases \/ b.requests = MaxLeaseRequests
         /\ RecoveriesRemaining(b) = 0 <=> b.recoveries = MaxRecoveries
<1>. DEFINE q == b.requests  g == b.granted  y == b.recoveries
<1>1. /\ q \in Nat /\ g \in Nat /\ y \in Nat
      /\ q <= MaxLeaseRequests /\ g <= MaxLeases /\ y <= MaxRecoveries
  BY LedgerFields DEF Valid, WellFormed
<1>2. MaxLeaseRequests \in Nat /\ MaxLeases \in Nat /\ MaxRecoveries \in Nat
  BY PolicyNumbers
<1>. HIDE DEF q, g, y
<1>3. (IF MaxLeaseRequests - q < MaxLeases - g THEN MaxLeaseRequests - q ELSE MaxLeases - g) = 0
        <=> g = MaxLeases \/ q = MaxLeaseRequests
  BY <1>1, <1>2
<1>4. MaxRecoveries - y = 0 <=> y = MaxRecoveries
  BY <1>1, <1>2
<1>. QED
  BY <1>3, <1>4 DEF LeasesRemaining, RecoveriesRemaining, q, g, y

(***************************************************************************)
(* A reason the ledger admits claims what is so.                           *)
(***************************************************************************)
LEMMA ReasonTrue ==
  ASSUME NEW b, Valid(b), NEW reason \in PartialReason,
         SemanticReason(b, reason, LeasesRemaining(b), RecoveriesRemaining(b))
  PROVE  Claim(reason, b)
<1>1. /\ b.granted \in Nat /\ b.requests \in Nat /\ b.recoveries \in Nat
      /\ DenialCurrent(b) /\ b \in Ledger
  BY LedgerFields DEF Valid
<1>2. ASSUME NEW r, Verdict(b, core, r) = "granted"
      PROVE  /\ b.granted # MaxLeases /\ b.requests # MaxLeaseRequests
             /\ r.change = None => ProgressAdmitted(b)
             /\ r.change # None => b.recoveries # MaxRecoveries
  BY <1>1, <1>2, VerdictGranted, PolicyNumbers
<1>3. CASE reason = "lease_ceiling_exhausted"
  <2>1. LeasesRemaining(b) = 0
    BY <1>3 DEF SemanticReason, RequiredState
  <2>2. \A r \in RequestPool : Verdict(b, core, r) # "granted"
    BY <1>2, <2>1, NoneRemain
  <2>. QED
    BY <1>3, <2>2 DEF Claim
<1>4. CASE reason = "no_progress"
  <2>1. b.pstate = "stalled" /\ b.denial = "no_measurable_progress"
    BY <1>4 DEF SemanticReason, RequiredState, RequiredDenials, DeniedFor
  <2>2. ~ProgressAdmitted(b)
    BY <1>1, <2>1 DEF DenialCurrent
  <2>3. \A r \in RequestPool : r.change = None => Verdict(b, core, r) # "granted"
    BY <1>2, <2>2
  <2>. QED
    BY <1>4, <2>3 DEF Claim
<1>5. CASE reason = "strategy_recovery_exhausted"
  <2>1. RecoveriesRemaining(b) = 0
    BY <1>5 DEF SemanticReason, RequiredState
  <2>2. \A r \in RequestPool : r.change # None => Verdict(b, core, r) # "granted"
    BY <1>2, <2>1, NoneRemain
  <2>. QED
    BY <1>5, <2>2 DEF Claim
<1>6. CASE reason \in {"terminal_cycle", "watchdog_expired"}
  BY <1>6 DEF Claim
<1>. QED
  BY <1>3, <1>4, <1>5, <1>6 DEF PartialReason

(***************************************************************************)
(* A reason other than the watchdog's is refused once the task is complete:*)
(* the status of such a ledger, or its last denial, is not what it needs.  *)
(***************************************************************************)
LEMMA CompleteReason ==
  ASSUME NEW b, Valid(b), Complete(b), b.pstate # "complete", NEW reason \in PartialReason,
         NEW leases, NEW recoveries, SemanticReason(b, reason, leases, recoveries)
  PROVE  reason = "watchdog_expired" /\ GovernanceBlocked(b)
<1>1. GovernanceBlocked(b) /\ b.pstate = "stalled"
  BY DEF Valid, CompleteClosed
<1>2. CASE reason \in {"lease_ceiling_exhausted", "terminal_cycle"}
  BY <1>1, <1>2 DEF SemanticReason, RequiredState
<1>3. CASE reason \in {"no_progress", "strategy_recovery_exhausted"}
  <2>1. b.denial \in {"no_measurable_progress", "strategy_recovery_exhausted"}
    BY <1>3 DEF SemanticReason, RequiredState, RequiredDenials, DeniedFor
  <2>. QED
    BY <1>1, <2>1 DEF GovernanceBlocked
<1>4. CASE reason = "watchdog_expired"
  BY <1>1, <1>4
<1>. QED
  BY <1>2, <1>3, <1>4 DEF PartialReason

(***************************************************************************)
(* What a finalized offer says is so.                                      *)
(***************************************************************************)
LEMMA FinalizedTrue ==
  ASSUME ContinuationInv, ledger # None, NEW o \in Offers, o.reason # None, Finalized(o)
  PROVE  /\ o.state = Live /\ AuthorityAgreement /\ ledger.pending = None
         /\ Claim(o.reason, ledger)
         /\ Complete(ledger) => o.reason = "watchdog_expired" /\ GovernanceBlocked(ledger)
<1>1. CheckpointAdmits(o)
  BY DEF Finalized
<1>2. o.state \in Held /\ o.reason \in PartialReason
  BY DEF Offers
<1>3. o.state = Live
  BY <1>1, <1>2, CurrentIsLive DEF CheckpointAdmits
<1>4. o.state.body = ledger
  BY <1>3 DEF Live
<1>5. /\ ledger.runtime = core.tick /\ Len(core.applied) = ledger.granted
      /\ SemanticReason(ledger, o.reason, LeasesRemaining(ledger), RecoveriesRemaining(ledger))
  BY <1>1, <1>4 DEF CheckpointAdmits
<1>6. ledger.pending = None
  BY <1>5, SettledNothingPending
<1>7. Claim(o.reason, ledger)
  BY <1>2, <1>5, ReasonTrue DEF ContinuationInv, GovInv
<1>8. ledger.pstate # "complete"
  BY <1>4 DEF Finalized, PartialAdmits
<1>9. Complete(ledger) => o.reason = "watchdog_expired" /\ GovernanceBlocked(ledger)
  BY <1>2, <1>5, <1>8, CompleteReason DEF ContinuationInv, GovInv
<1>. QED
  BY <1>3, <1>6, <1>7, <1>9 DEF ContinuationInv, GovInv

-----------------------------------------------------------------------------
(* What a settled ledger admits. *)

Offered(reason, receipt) ==
  [state |-> Live, snapshot |-> core.tick, reason |-> reason, receipt |-> receipt]

(***************************************************************************)
(* The fields of an offer of the live state.                               *)
(***************************************************************************)
LEMMA OfferedFields ==
  ASSUME NEW reason, NEW receipt
  PROVE  LET o == Offered(reason, receipt)
         IN  /\ o.state = Live /\ o.snapshot = core.tick
             /\ o.reason = reason /\ o.receipt = receipt /\ o.state.body = ledger
BY DEF Offered, Live

(***************************************************************************)
(* Such an offer is one a caller may make.                                 *)
(***************************************************************************)
LEMMA OfferedOffers ==
  ASSUME NEW reason \in PartialReason \cup {None}, NEW receipt \in {None, "terminal"}
  PROVE  Offered(reason, receipt) \in Offers
<1>1. Live \in Held
  BY DEF Held
<1>2. Offered(reason, receipt)
        \in [state : {Live}, snapshot : {core.tick, Live.body.runtime},
             reason : PartialReason \cup {None}, receipt : {None, "terminal"}]
  BY DEF Offered
<1>. QED
  BY <1>1, <1>2 DEF Offers

(***************************************************************************)
(* A settled ledger bound to the live runtime state is checkpointed for    *)
(* any reason that describes it, or for none.                              *)
(***************************************************************************)
LEMMA SettledAdmits ==
  ASSUME ContinuationInv, ledger # None, ledger.pending = None, ledger.runtime = core.tick,
         NEW reason, NEW receipt,
         BindsMarker(ledger, reason, receipt),
         reason # None => /\ ledger.pstate # "complete"
                          /\ SemanticReason(ledger, reason, LeasesRemaining(ledger),
                                            RecoveriesRemaining(ledger))
  PROVE  CheckpointAdmits(Offered(reason, receipt))
<1>. DEFINE o == Offered(reason, receipt)
<1>1. /\ o.state = Live /\ o.snapshot = core.tick
      /\ o.reason = reason /\ o.receipt = receipt /\ o.state.body = ledger
  BY OfferedFields
<1>2. Current(o.state)
  BY <1>1 DEF Current, Live
<1>3. Len(core.applied) = ledger.granted /\ core.cumulative = ledger.cumulative
  BY DEF ContinuationInv, GovInv, AuthorityAgreement, Agreed
<1>4. \A r \in RuntimeResource : core.limits[r] = Initial[r] + ledger.cumulative[r]
  BY <1>3 DEF ContinuationInv, CoreInv, Sound, Leased
<1>. HIDE DEF o
<1>5. CheckpointAdmits(o)
  BY <1>1, <1>2, <1>3, <1>4 DEF CheckpointAdmits
<1>. QED
  BY <1>5 DEF o

(***************************************************************************)
(* And finalized, for a reason other than completion.                      *)
(***************************************************************************)
LEMMA SettledFinalized ==
  ASSUME ContinuationInv, ledger # None, ledger.pending = None, ledger.runtime = core.tick,
         ledger.pstate # "complete", NEW reason \in PartialReason,
         NEW receipt \in {None, "terminal"},
         BindsMarker(ledger, reason, receipt),
         SemanticReason(ledger, reason, LeasesRemaining(ledger), RecoveriesRemaining(ledger))
  PROVE  /\ Offered(reason, receipt) \in Offers /\ Finalized(Offered(reason, receipt))
         /\ Offered(reason, receipt).reason = reason
<1>. DEFINE o == Offered(reason, receipt)
            k == CheckpointOf(o)
            e == LeasesRemaining(ledger) = 0
            w == IF reason = "watchdog_expired" THEN Observation(ledger, e) ELSE None
<1>1. /\ o.state = Live /\ o.reason = reason /\ o.receipt = receipt /\ o.state.body = ledger
  BY OfferedFields
<1>2. reason # None
  BY CheckpointAssumption
<1>3. CheckpointAdmits(o) /\ o \in Offers
  BY <1>2, SettledAdmits, OfferedOffers
<1>. HIDE DEF o
<1>4. /\ k.state = ledger /\ k.reason = reason /\ k.receipt = receipt
      /\ k.leases = LeasesRemaining(ledger) /\ k.recoveries = RecoveriesRemaining(ledger)
  BY <1>1 DEF CheckpointOf
<1>. HIDE DEF k
<1>5. e \in BOOLEAN
  OBVIOUS
<1>6. Observation(ledger, e) # None
  <2>1. ledger \in Ledger
    BY DEF ContinuationInv, GovInv, Valid
  <2>. HIDE DEF e
  <2>2. Observation(ledger, e) \in [state : Ledger, exhausted : BOOLEAN]
    BY <1>5, <2>1 DEF Observation
  <2>. QED
    BY <2>2, CheckpointAssumption
<1>7. w \in {None} \cup {Observation(o.state.body, x) : x \in BOOLEAN}
  <2>. HIDE DEF e
  <2>. QED
    BY <1>1, <1>5
<1>8. Current(o.state)
  BY <1>1 DEF Current, Live
<1>9. IF k.reason = "watchdog_expired"
      THEN w # None /\ w = Observation(ledger, k.leases = 0) ELSE w = None
  BY <1>4, <1>6
<1>. HIDE DEF w
<1>10. PartialAdmits(o.state, k, w)
  BY <1>1, <1>4, <1>8, <1>9 DEF PartialAdmits
<1>11. Finalized(o)
  BY <1>3, <1>7, <1>10, Zenon DEF Finalized, k
<1>. QED
  BY <1>1, <1>3, <1>11 DEF o

(***************************************************************************)
(* The invariant of Continuation says that finalization is truthful.       *)
(***************************************************************************)
LEMMA FinalizationHolds == ContinuationInv => FinalizationTruthful
<1>. SUFFICES ASSUME ContinuationInv, ledger # None PROVE FinalizationTruthful
  BY DEF FinalizationTruthful
<1>1. \A o \in Offers : o.reason # None /\ Finalized(o) =>
         /\ o.state = Live /\ AuthorityAgreement /\ ledger.pending = None
         /\ Claim(o.reason, ledger)
         /\ Complete(ledger) => o.reason = "watchdog_expired" /\ GovernanceBlocked(ledger)
  BY FinalizedTrue
<1>2. ASSUME ledger.pending = None, ledger.runtime = core.tick
      PROVE  LET admitted == {o \in Offers : Finalized(o)}
                 plain == [state |-> Live, snapshot |-> core.tick, reason |-> None,
                           receipt |-> None]
             IN /\ CheckpointAdmits(plain) /\ Resumes(CheckpointOf(plain), plain)
                /\ ledger.pstate # "complete" =>
                     \E o \in admitted : o.reason = "watchdog_expired"
                /\ ledger.pstate = "lease_exhausted" =>
                     \E o \in admitted : o.reason = "lease_ceiling_exhausted"
  <2>. DEFINE plain == Offered(None, None)
  <2>1. BindsMarker(ledger, None, None)
    BY CheckpointAssumption DEF BindsMarker, PartialReason
  <2>2. CheckpointAdmits(plain)
    BY <1>2, <2>1, SettledAdmits
  <2>3. Resumes(CheckpointOf(plain), plain)
    <3>1. CheckpointOf(plain).receipt = None /\ CheckpointOf(plain).reason = None
      BY DEF CheckpointOf, Offered
    <3>2. [plain EXCEPT !.receipt = None, !.reason = None] = plain
      <4>. DEFINE tick == core.tick
      <4>1. plain = [state |-> Live, snapshot |-> tick, reason |-> None, receipt |-> None]
        BY DEF Offered
      <4>. HIDE DEF plain, tick
      <4>2. [plain EXCEPT !.receipt = None] = plain
        BY <4>1
      <4>3. [plain EXCEPT !.reason = None] = plain
        BY <4>1
      <4>. QED
        BY <4>2, <4>3
    <3>. HIDE DEF plain
    <3>. QED
      BY <2>2, <3>1, <3>2 DEF Resumes
  <2>4. ASSUME ledger.pstate # "complete"
        PROVE  \E o \in Offers : Finalized(o) /\ o.reason = "watchdog_expired"
    <3>1. /\ BindsMarker(ledger, "watchdog_expired", None)
          /\ "watchdog_expired" \in PartialReason
          /\ SemanticReason(ledger, "watchdog_expired", LeasesRemaining(ledger),
                            RecoveriesRemaining(ledger))
      BY DEF BindsMarker, PartialReason, SemanticReason
    <3>2. LET o == Offered("watchdog_expired", None)
          IN  o \in Offers /\ Finalized(o) /\ o.reason = "watchdog_expired"
      BY <1>2, <2>4, <3>1, SettledFinalized
    <3>. QED
      BY <3>2, Zenon
  <2>5. ASSUME ledger.pstate = "lease_exhausted"
        PROVE  \E o \in Offers : Finalized(o) /\ o.reason = "lease_ceiling_exhausted"
    <3>1. /\ Valid(ledger) /\ DenialCurrent(ledger) /\ WellFormed(ledger)
          /\ ledger \in Ledger
      BY DEF ContinuationInv, GovInv, Valid
    <3>2. ledger.marker \/ (ledger.granted = MaxLeases /\ ledger.denial = "lease_ceiling_reached")
      BY <2>5, <3>1 DEF DenialCurrent
    <3>3. LeasesRemaining(ledger) = 0
      BY <3>1, <3>2, NoneRemain DEF WellFormed
    <3>4. "lease_ceiling_reached" \in DenialReason
      BY DEF DenialReason
    <3>5. DeniedFor(ledger, {"lease_ceiling_reached"}) \/ ledger.marker
      BY <3>1, <3>2, <3>4, NoneAssumption DEF WellFormed, DeniedFor
    <3>6. /\ BindsMarker(ledger, "lease_ceiling_exhausted", "terminal")
          /\ "lease_ceiling_exhausted" \in PartialReason
          /\ SemanticReason(ledger, "lease_ceiling_exhausted", LeasesRemaining(ledger),
                            RecoveriesRemaining(ledger))
      BY <2>5, <3>3, <3>5 DEF BindsMarker, PartialReason, SemanticReason
    <3>7. LET o == Offered("lease_ceiling_exhausted", "terminal")
          IN  o \in Offers /\ Finalized(o) /\ o.reason = "lease_ceiling_exhausted"
      BY <1>2, <2>5, <3>6, SettledFinalized
    <3>. QED
      BY <3>7, Zenon
  <2>. QED
    BY <2>2, <2>3, <2>4, <2>5 DEF Offered
<1>. QED
  BY <1>1, <1>2 DEF FinalizationTruthful

(***************************************************************************)
(* A partial receipt is admitted only for the live ledger, settled with    *)
(* the live runtime, and what its reason claims of later requests is so;   *)
(* its task is open, unless the watchdog expired after the denial of a     *)
(* stale request relabelled a complete ledger.  A settled ledger can always*)
(* be checkpointed, resumed and finalized, for every policy, schedule and  *)
(* pool of requests.                                                       *)
(***************************************************************************)
THEOREM FinalizationSafety == SpecContinuation => []FinalizationTruthful
<1>. QED
  BY ContinuationInvariant, FinalizationHolds, PTL
=============================================================================
