----------------------------- MODULE Checkpoint -------------------------------
(***************************************************************************)
(* Checkpoints and semantic partial finalization of continuation           *)
(* governance (ContinuationCheckpoint, resume_continuation_checkpoint,     *)
(* ContinuationPartialReceipt of src/ibae/continuation.py).  They are      *)
(* records a caller asks for between any two steps of Continuation and     *)
(* change no live state, so the module adds no variable and no action: it  *)
(* says which records the live ledger and session would admit now.  A      *)
(* superseded seal is refused by validates_live_lineage, as in Current;    *)
(* neither an open transition nor revocation stands in the way.            *)
(***************************************************************************)
EXTENDS Continuation

PartialReason == {"lease_ceiling_exhausted", "no_progress", "terminal_cycle",
                  "strategy_recovery_exhausted", "watchdog_expired"}

(***************************************************************************)
(* The decisions that are left: request slots or schedule slots.           *)
(***************************************************************************)
LeasesRemaining(b) ==
  LET slots == MaxLeaseRequests - b.requests
      leases == MaxLeases - b.granted
  IN IF slots < leases THEN slots ELSE leases

RecoveriesRemaining(b) == MaxRecoveries - b.recoveries

(***************************************************************************)
(* What each semantic reason requires of status and of the last denial.    *)
(***************************************************************************)
RequiredState == [no_progress |-> "stalled", terminal_cycle |-> "cycle_blocked",
                  strategy_recovery_exhausted |-> "stalled"]
RequiredDenials ==
  [no_progress |-> {"no_measurable_progress"},
   terminal_cycle |-> {"terminal_cycle", "strategy_change_cycle_equivalent"},
   strategy_recovery_exhausted |-> {"strategy_recovery_exhausted"}]

DeniedFor(b, reasons) == b.decision = "denied" /\ b.denial \in reasons

\* Mutant: the denial is remembered, what was observed since is not.
SemanticReasonRemembered(b, reason, leases, recoveries) ==
  \/ reason = "watchdog_expired"
  \/ /\ reason = "lease_ceiling_exhausted"
     /\ leases = 0
     /\ DeniedFor(b, {"lease_ceiling_reached"}) \/ b.marker
  \/ /\ reason \in DOMAIN RequiredState
     /\ DeniedFor(b, RequiredDenials[reason])
     /\ reason = "strategy_recovery_exhausted" => recoveries = 0

(***************************************************************************)
(* _validate_semantic_partial_reason.                                      *)
(***************************************************************************)
SemanticReason(b, reason, leases, recoveries) ==
  \/ reason = "watchdog_expired"
  \/ /\ reason = "lease_ceiling_exhausted"
     /\ b.pstate = "lease_exhausted"
     /\ leases = 0
     /\ DeniedFor(b, {"lease_ceiling_reached"}) \/ b.marker
  \/ /\ reason \in DOMAIN RequiredState
     /\ b.pstate = RequiredState[reason]
     /\ DeniedFor(b, RequiredDenials[reason])
     /\ reason = "strategy_recovery_exhausted" => recoveries = 0

(***************************************************************************)
(* What a caller passes in: a state object and a runtime snapshot, each    *)
(* perhaps superseded, a partial reason or None, and the relevant receipt, *)
(* the terminal one of the ledger or None.  Supplied progress and strategy *)
(* records must equal the ledger's and add nothing.                        *)
(***************************************************************************)
Offers ==
  UNION {[state : {held}, snapshot : {core.tick, held.body.runtime},
          reason : PartialReason \cup {None}, receipt : {None, "terminal"}] :
         held \in Held}

BindsMarker(b, reason, receipt) ==
  reason = "lease_ceiling_exhausted" /\ b.marker => receipt = "terminal"

(***************************************************************************)
(* ContinuationCheckpoint.__init__: the seal is live, the snapshot is the  *)
(* live one and the one the ledger is bound to, native leases and limits   *)
(* are those of the ledger, and a reason describes the ledger.             *)
(***************************************************************************)
CheckpointAdmits(o) ==
  LET b == o.state.body
  IN /\ Current(o.state)
     /\ o.snapshot = core.tick
     /\ o.snapshot = b.runtime
     /\ Len(core.applied) = b.granted
     /\ core.cumulative = b.cumulative
     /\ \A r \in RuntimeResource : core.limits[r] = Initial[r] + b.cumulative[r]
     /\ b.pstate = "complete" => o.reason = None
     /\ BindsMarker(b, o.reason, o.receipt)
     /\ o.reason # None =>
          SemanticReason(b, o.reason, LeasesRemaining(b), RecoveriesRemaining(b))

(***************************************************************************)
(* The record: continuation_state_id binds the whole ledger.               *)
(***************************************************************************)
CheckpointOf(o) ==
  [state |-> o.state.body, runtime |-> o.snapshot,
   leases |-> LeasesRemaining(o.state.body),
   recoveries |-> RecoveriesRemaining(o.state.body),
   receipt |-> o.receipt, reason |-> o.reason]

(***************************************************************************)
(* resume_continuation_checkpoint: the same checkpoint can be taken now.   *)
(***************************************************************************)
Resumes(checkpoint, o) ==
  LET again == [o EXCEPT !.receipt = checkpoint.receipt, !.reason = checkpoint.reason]
  IN CheckpointAdmits(again) /\ CheckpointOf(again) = checkpoint

(***************************************************************************)
(* WatchdogObservation of a ledger: the watchdog says which states it saw  *)
(* and whether leases were exhausted.                                      *)
(***************************************************************************)
Observation(b, exhausted) == [state |-> b, exhausted |-> exhausted]

(***************************************************************************)
(* Python's None is neither a reason nor an observation.                   *)
(***************************************************************************)
ASSUME CheckpointAssumption ==
  /\ None \notin PartialReason
  /\ None \notin [state : Ledger, exhausted : BOOLEAN]

(***************************************************************************)
(* ContinuationPartialReceipt.__init__ over the state, its checkpoint and  *)
(* a watchdog observation or None.  Reading continuation_state_id of the   *)
(* state requires its seal to be live.                                     *)
(***************************************************************************)
PartialAdmits(held, checkpoint, watchdog) ==
  LET b == held.body
  IN /\ Current(held)
     /\ checkpoint.state = b
     /\ checkpoint.reason \in PartialReason
     /\ b.pstate # "complete"
     /\ BindsMarker(b, checkpoint.reason, checkpoint.receipt)
     /\ SemanticReason(b, checkpoint.reason, checkpoint.leases, checkpoint.recoveries)
     /\ IF checkpoint.reason = "watchdog_expired"
        THEN watchdog # None /\ watchdog = Observation(b, checkpoint.leases = 0)
        ELSE watchdog = None

Finalized(o) ==
  \E watchdog \in {None} \cup {Observation(o.state.body, e) : e \in BOOLEAN} :
    CheckpointAdmits(o) /\ PartialAdmits(o.state, CheckpointOf(o), watchdog)

-----------------------------------------------------------------------------
(* Properties. *)

(***************************************************************************)
(* What a reason claims: of all the requests the supervisor could make now *)
(* none would be granted, none that rests on progress, or none that        *)
(* changes the strategy.  terminal_cycle and watchdog_expired claim        *)
(* nothing about later requests: the cycle may have been broken by a       *)
(* dispatch the ledger was rebound to.                                     *)
(***************************************************************************)
Claim(reason, b) ==
  LET would(r) == Verdict(b, core, r) = "granted"
  IN CASE reason = "lease_ceiling_exhausted" -> \A r \in RequestPool : ~would(r)
       [] reason = "no_progress" -> \A r \in RequestPool : r.change = None => ~would(r)
       [] reason = "strategy_recovery_exhausted" ->
            \A r \in RequestPool : r.change # None => ~would(r)
       [] OTHER -> TRUE

(***************************************************************************)
(* Partial finalization tells the truth and is always possible.  A partial *)
(* receipt is admitted only for the live ledger, settled with the live     *)
(* runtime on every lease, and what its reason claims is so.  The task of  *)
(* such a ledger is open, with one exception, which CompleteNotPartial     *)
(* denies: a ledger that was relabelled by the denial of a stale request   *)
(* is finalized as partial when the watchdog expires.  A ledger            *)
(* that is settled and bound to the live runtime state can be              *)
(* checkpointed, resumed and, unless complete, finalized when the watchdog *)
(* expires; and one that reports exhausted leases can be finalized for     *)
(* just that reason.  (Looking between transitions loses nothing: one that *)
(* is open may be aborted, which leaves ledger and runtime as they are.)   *)
(***************************************************************************)
FinalizationTruthful ==
  ledger # None /\ work = None /\ call = Idle =>
    /\ \A o \in Offers : o.reason # None /\ Finalized(o) =>
         /\ o.state = Live
         /\ AuthorityAgreement /\ ledger.pending = None
         /\ Claim(o.reason, ledger)
         /\ Complete(ledger) =>
              o.reason = "watchdog_expired" /\ GovernanceBlocked(ledger)
    /\ ledger.pending = None /\ ledger.runtime = core.tick =>
         LET admitted == {o \in Offers : Finalized(o)}
             plain == [state |-> Live, snapshot |-> core.tick, reason |-> None,
                       receipt |-> None]
         IN /\ CheckpointAdmits(plain) /\ Resumes(CheckpointOf(plain), plain)
            /\ ledger.pstate # "complete" =>
                 \E o \in admitted : o.reason = "watchdog_expired"
            /\ ledger.pstate = "lease_exhausted" =>
                 \E o \in admitted : o.reason = "lease_ceiling_exhausted"

(***************************************************************************)
(* CONTINUATION_PROTOCOL.md: "a complete continuation state cannot be      *)
(* relabelled partial".  Whatever was requested since, no partial receipt  *)
(* is admitted for a ledger whose task is complete.                        *)
(***************************************************************************)
CompleteNotPartial ==
  ledger # None /\ Complete(ledger) => \A o \in Offers : ~Finalized(o)
=============================================================================
