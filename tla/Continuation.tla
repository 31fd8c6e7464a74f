----------------------------- MODULE Continuation -----------------------------
(***************************************************************************)
(* Continuation governance (src/ibae/continuation.py) over the native      *)
(* runtime session: the sealed ContinuationState ledger, the evaluator     *)
(* that grants or denies lease requests, the observer that rebinds the     *)
(* ledger to the work done, and the committer that settles an applied      *)
(* lease.  Each of the three runs as a transition of the native live       *)
(* lineage (ContinuationLineageTransition): Rust opens the transition,     *)
(* calls pinned Python, rechecks the authority epoch and what it must not  *)
(* trust, and commits the next generation or restores the prior one.       *)
(* The session is not borrowed meanwhile, so a dispatch or a revocation    *)
(* may run between the two halves.                                         *)
(*                                                                         *)
(* Identities are abstracted to what they bind: a runtime state is its     *)
(* tick, a progress record the pair of orchestration states it compares, a *)
(* ledger id the ledger itself.  continuation_logical_tick and the receipt *)
(* history always equal lease_requests in number and are left out, as are  *)
(* external progress endpoints.  A request without its native seal is      *)
(* denied without opening a transition or changing anything.               *)
(***************************************************************************)
EXTENDS RuntimeCore

CONSTANTS
  OrchStates,     \* identities of orchestration states
  FirstOrch,      \* the one the ledger is created in
  Level,          \* the declared measure of each: obligations still open
  Strategies,     \* strategy material identities
  None,           \* no ledger, progress, strategy, grant or transition
  RequestPool,    \* the requests the supervisor may make
  MaxGeneration,  \* bound: lineage generations in one behaviour
  MaxKept         \* bound: superseded states are retained up to this generation

ASSUME ContinuationAssumption ==
  /\ ContinuationEnabled
  /\ FirstOrch \in OrchStates
  /\ Level \in [OrchStates -> Nat]
  /\ MaxGeneration \in Nat
  /\ MaxKept \in Nat

VARIABLES
  ledger,      \* the ContinuationState whose seal is live, None before create
  generation,  \* its generation in the native live lineage
  work,        \* the lineage transition in progress, None if there is none
  kept,        \* a superseded sealed state a caller still holds, or None
  spent        \* history: the progress records grants have consumed

govVars == <<ledger, generation, work, kept, spent>>
allVars == <<vars, govVars>>

-----------------------------------------------------------------------------
(* Progress and cycles. *)

Progress == OrchStates \X OrchStates

(***************************************************************************)
(* _derive_progress_classification: only measurable_progress is told apart *)
(* from the other classes, none of which can authorize a lease.            *)
(***************************************************************************)
Measurable(p) == Level[p[2]] < Level[p[1]]
TaskComplete(p) == Level[p[2]] = 0

ObservedState(p) ==
  IF TaskComplete(p) THEN "complete"
  ELSE IF Measurable(p) THEN "progressing" ELSE "stalled"

(***************************************************************************)
(* CycleEvidence.from_snapshot of the live snapshot, and whether evidence a*)
(* caller binds ("none", the "live" one, or "stale") is exactly that.      *)
(***************************************************************************)
LiveCycle(c) == TerminalCyclePeriod(c.history) > 0
BindsCycle(evidence, c) == evidence = IF LiveCycle(c) THEN "live" ELSE "none"

-----------------------------------------------------------------------------
(* The ledger. *)

ProgressState == {"stalled", "progressing", "complete", "cycle_blocked",
                  "strategy_changed", "strategy_change_rejected", "lease_exhausted"}

DenialReason == {"stale_continuation_state", "stale_orchestration_state",
                 "stale_runtime_state", "pending_lease_application", "stale_progress",
                 "task_already_complete", "blocking_governance_violation",
                 "lease_ceiling_reached", "lease_request_limit", "lease_index_mismatch",
                 "strategy_change_not_material", "strategy_change_cycle_equivalent",
                 "terminal_cycle", "no_measurable_progress",
                 "strategy_recovery_exhausted", "empty_resource_vector",
                 "unsupported_resource", "amount_exceeds_schedule",
                 "amount_exceeds_ceiling"}

(***************************************************************************)
(* ContinuationState.  runtime and orch are the endpoints it is bound to,  *)
(* progress the last observed record, consumed the last one that           *)
(* authorized a grant, marker whether a terminal receipt is installed.     *)
(***************************************************************************)
Ledger == [requests : Nat, granted : Nat, denied : Nat, cumulative : Vector,
           recoveries : Nat, strategy : Strategies \cup {None},
           orch : OrchStates, runtime : Nat,
           progress : Progress \cup {None}, events : Nat,
           consumed : Progress \cup {None},
           pstate : ProgressState,
           decision : {"none", "granted", "denied"},
           denial : DenialReason \cup {None},
           marker : BOOLEAN,
           pending : Grant \cup {None}]

Sealed == [generation : Nat, body : Ledger]

(***************************************************************************)
(* A strategy change receipt (None: the request proposes none).  status is *)
(* what evaluate_strategy_change derived, "unbound" a receipt that does    *)
(* not match the request, the task or the orchestration state.             *)
(***************************************************************************)
StrategyChange == [prior : Strategies, proposed : Strategies,
                   cycle : {"none", "live", "stale"},
                   status : {"admitted", "not_material", "cycle_equivalent", "unbound"}]

(***************************************************************************)
(* A supervisor request with the arguments submitted beside it.  defect    *)
(* names the first family of its fields that does not match the ledger;    *)
(* authorize_request rules out a governance or session mismatch.           *)
(***************************************************************************)
Request == [defect : {"none", "continuation", "orchestration", "runtime", "progress",
                      "index"},
            resources : Vector,
            change : StrategyChange \cup {None},
            evidence : {"none", "live", "stale"},
            blocking : BOOLEAN]

ASSUME RequestAssumption == RequestPool \subseteq Request

(***************************************************************************)
(* Python's None is none of the values a field or variable may hold.       *)
(***************************************************************************)
ASSUME NoneAssumption ==
  /\ None \notin Ledger /\ None \notin Grant /\ None \notin Progress
  /\ None \notin DenialReason /\ None \notin StrategyChange

-----------------------------------------------------------------------------
(* _evaluate_continuation. *)

StrategyVerdict(b, c, r) ==
  IF r.change = None THEN "none"
  ELSE IF r.change.status = "unbound" THEN "strategy_change_not_material"
  ELSE IF b.strategy = None \/ r.change.prior # b.strategy
       THEN "strategy_change_not_material"
  ELSE IF ~BindsCycle(r.change.cycle, c) THEN "strategy_change_cycle_equivalent"
  ELSE IF r.change.status = "cycle_equivalent" THEN "strategy_change_cycle_equivalent"
  ELSE IF r.change.status = "not_material" THEN "strategy_change_not_material"
  ELSE "admitted"

\* Mutant: progress that already paid for a grant pays again.
ProgressAdmittedAgain(b) == Measurable(b.progress)

ProgressAdmitted(b) == Measurable(b.progress) /\ b.progress # b.consumed

(***************************************************************************)
(* The first reason to deny, in the order of the code, or "granted".       *)
(***************************************************************************)
Verdict(b, c, r) ==
  IF r.defect = "continuation" THEN "stale_continuation_state"
  ELSE IF r.defect = "orchestration" THEN "stale_orchestration_state"
  ELSE IF r.defect = "runtime" \/ c.tick # b.runtime THEN "stale_runtime_state"
  ELSE IF b.pending # None THEN "pending_lease_application"
  ELSE IF r.defect = "progress" \/ b.progress = None THEN "stale_progress"
  ELSE IF TaskComplete(b.progress) THEN "task_already_complete"
  ELSE IF r.blocking THEN "blocking_governance_violation"
  ELSE IF b.granted >= MaxLeases THEN "lease_ceiling_reached"
  ELSE IF b.requests >= MaxLeaseRequests THEN "lease_request_limit"
  ELSE IF r.defect = "index" THEN "lease_index_mismatch"
  ELSE IF ~Within(b.cumulative, Capacity) THEN "lease_ceiling_reached"
  ELSE IF r.evidence # "none" /\ ~BindsCycle(r.evidence, c) THEN "stale_runtime_state"
  ELSE IF StrategyVerdict(b, c, r) \notin {"none", "admitted"} THEN StrategyVerdict(b, c, r)
  ELSE IF LiveCycle(c) /\ r.change = None THEN "terminal_cycle"
  ELSE IF ~ProgressAdmitted(b) /\ r.change = None THEN "no_measurable_progress"
  ELSE IF r.change # None /\ b.recoveries >= MaxRecoveries
       THEN "strategy_recovery_exhausted"
  ELSE IF r.resources = Zero THEN "empty_resource_vector"
  ELSE IF r.resources["mutations"] # 0 THEN "unsupported_resource"
  ELSE IF ~Within(r.resources, Schedule[b.granted + 1]) THEN "amount_exceeds_schedule"
  ELSE IF ~Within(Plus(b.cumulative, r.resources), Capacity)
       THEN "amount_exceeds_ceiling"
  ELSE "granted"

DenialState(reason) ==
  CASE reason = "task_already_complete" -> "complete"
    [] reason \in {"lease_ceiling_reached", "lease_request_limit"} -> "lease_exhausted"
    [] reason \in {"terminal_cycle", "strategy_change_cycle_equivalent"} -> "cycle_blocked"
    [] reason = "strategy_change_not_material" -> "strategy_change_rejected"
    [] OTHER -> "stalled"

(***************************************************************************)
(* _deny_continuation: the decision takes a slot and sets the status.      *)
(***************************************************************************)
RecordDenial(b, reason) ==
  [b EXCEPT !.requests = @ + 1, !.denied = @ + 1, !.decision = "denied",
            !.denial = reason, !.pstate = DenialState(reason)]

\* Mutant: a denial is recorded although no decision slot remains.
DeniedUnbounded(b, reason) == RecordDenial(b, reason)

(***************************************************************************)
(* A denial is recorded while decision slots remain.  Without a slot, the  *)
(* first exhaustion denial installs the terminal marker; every other       *)
(* denial returns the state unchanged.                                     *)
(***************************************************************************)
Denied(b, reason) ==
  IF b.requests < MaxLeaseRequests THEN RecordDenial(b, reason)
  ELSE IF /\ ~b.marker
          /\ \/ reason = "lease_ceiling_reached" /\ b.granted >= MaxLeases
             \/ reason = "lease_request_limit" /\ b.granted < MaxLeases
  THEN [b EXCEPT !.pstate = "lease_exhausted", !.marker = TRUE]
  ELSE b

GrantFor(b, r) ==
  [binding |-> "bound", prior |-> b.runtime, index |-> b.granted + 1,
   request |-> b.requests, granted |-> r.resources,
   cumulative |-> Plus(b.cumulative, r.resources)]

UsesRecovery(b, c, r) == r.change # None /\ (LiveCycle(c) \/ ~ProgressAdmitted(b))

Granted(b, c, r) ==
  [b EXCEPT !.requests = @ + 1, !.granted = @ + 1,
            !.cumulative = Plus(@, r.resources),
            !.recoveries = IF UsesRecovery(b, c, r) THEN @ + 1 ELSE @,
            !.strategy = IF r.change # None THEN r.change.proposed ELSE @,
            !.consumed = IF ProgressAdmitted(b) THEN b.progress ELSE @,
            !.decision = "granted", !.denial = None,
            !.pstate = IF UsesRecovery(b, c, r) THEN "strategy_changed" ELSE "progressing",
            !.pending = GrantFor(b, r)]

-----------------------------------------------------------------------------
(* compact_projection: the recoveries a ledger advertises. *)

GovernanceBlocked(b) ==
  b.denial \in {"blocking_governance_violation", "stale_continuation_state",
                "stale_orchestration_state", "stale_runtime_state", "stale_progress",
                "lease_index_mismatch"}

\* Mutant: a ledger without a strategy is offered a strategy change.
StrategyAvailableUnnamed(b) == b.recoveries < MaxRecoveries

StrategyAvailable(b) == b.strategy # None /\ b.recoveries < MaxRecoveries

StrategyAction == {"propose_material_strategy_change", "propose_cycle_breaking_strategy",
                   "provide_material_semantic_difference"}

RecoveryActions(b) ==
  LET strategy(action) == IF StrategyAvailable(b) THEN {action} ELSE {}
  IN IF b.pending # None THEN {"apply_pending_lease"}
     ELSE IF \/ GovernanceBlocked(b)
             \/ b.requests = MaxLeaseRequests
             \/ b.granted = MaxLeases
     THEN {}
     ELSE CASE b.pstate = "stalled" ->
                 strategy("propose_material_strategy_change")
                   \cup (IF b.events < MaxLeaseRequests + 1
                         THEN {"provide_objective_progress"} ELSE {})
            [] b.pstate = "cycle_blocked" -> strategy("propose_cycle_breaking_strategy")
            [] b.pstate = "strategy_change_rejected" ->
                 strategy("provide_material_semantic_difference")
            [] OTHER -> {}

\* The last progress record of the ledger says that the task is complete.
Complete(b) == b.progress # None /\ TaskComplete(b.progress)

StrategyAdmissible(b) ==
  /\ ~GovernanceBlocked(b)
  /\ b.requests < MaxLeaseRequests /\ b.granted < MaxLeases
  /\ b.pending = None
  /\ StrategyAvailable(b)
  /\ b.pstate \notin {"complete", "lease_exhausted"}

-----------------------------------------------------------------------------
(* The native live lineage. *)

Live == [generation |-> generation, body |-> ledger]
Held == {Live} \cup ({kept} \ {None})

\* Mutant: any state that was ever sealed is accepted.
CurrentUnchecked(held) == TRUE

(***************************************************************************)
(* validates_live_lineage and begin_lineage_transition: the seal must be   *)
(* the live one, in generation and in content, and no other transition be  *)
(* in progress.                                                            *)
(***************************************************************************)
Current(held) == held.generation = generation /\ held.body = ledger

Begins(held) ==
  /\ Dispatchable
  /\ ledger # None
  /\ work = None
  /\ generation < MaxGeneration
  /\ Current(held)
  /\ UNCHANGED <<vars, ledger, generation, kept, spent>>

(***************************************************************************)
(* transition.commit: the next generation supersedes the live seal.  The   *)
(* caller still holds the superseded state object; whether it offers it    *)
(* again is the choice of held in the actions below.                       *)
(***************************************************************************)
Supersede(next) ==
  /\ ledger' = next
  /\ generation' = generation + 1
  /\ work' = None
  /\ kept' = IF generation < MaxKept THEN Live ELSE kept

-----------------------------------------------------------------------------
(* Actions. *)

InitContinuation ==
  /\ Init
  /\ ledger = None /\ generation = 0 /\ work = None /\ kept = None /\ spent = <<>>

(***************************************************************************)
(* ContinuationState.create and seal_initial_continuation_state, which     *)
(* borrows the session and runs whole.  from is the prior state of the     *)
(* initial progress record, if there is one.                               *)
(***************************************************************************)
Create(strategy, from) ==
  /\ Dispatchable
  /\ ledger = None
  /\ core.applied = <<>>
  /\ LET p == IF from = None THEN None ELSE <<from, FirstOrch>>
     IN ledger' = [requests |-> 0, granted |-> 0, denied |-> 0, cumulative |-> Zero,
                   recoveries |-> 0, strategy |-> strategy, orch |-> FirstOrch,
                   runtime |-> core.tick, progress |-> p,
                   events |-> IF p = None THEN 0 ELSE 1,
                   consumed |-> None,
                   pstate |-> IF p = None THEN "stalled" ELSE ObservedState(p),
                   decision |-> "none", denial |-> None, marker |-> FALSE,
                   pending |-> None]
  /\ UNCHANGED <<vars, generation, work, kept, spent>>

(***************************************************************************)
(* NativeContinuationRequestSeal.evaluate up to the return of the pinned   *)
(* evaluator, which reads the live snapshot once.                          *)
(***************************************************************************)
BeginEvaluate(held, r) ==
  /\ Begins(held)
  /\ LET b == held.body
         reason == Verdict(b, core, r)
     IN work' = IF reason = "granted"
                THEN [kind |-> "grant", next |-> Granted(b, core, r)]
                ELSE [kind |-> "deny", next |-> Denied(b, reason)]

FinishDenial ==
  /\ work # None /\ work.kind = "deny"
  /\ Dispatchable
  /\ IF work.next = ledger
     THEN work' = None /\ UNCHANGED <<ledger, generation, kept>>
     ELSE Supersede(work.next)
  /\ UNCHANGED <<vars, spent>>

(***************************************************************************)
(* The grant is sealed only if the live session would accept it now.       *)
(***************************************************************************)
FinishGrant ==
  /\ work # None /\ work.kind = "grant"
  /\ IssueGrant(work.next.pending)
  /\ Supersede(work.next)
  /\ spent' = IF work.next.consumed # ledger.consumed
              THEN Append(spent, work.next.consumed) ELSE spent

(***************************************************************************)
(* observe_continuation_context: the snapshot must be the live one and the *)
(* ledger settled with it; orchestration advances only with a progress     *)
(* record from the ledger's state to the new one.  Observing progress      *)
(* after the terminal marker fails the constructor's check.                *)
(***************************************************************************)
BeginObserve(held, to, with_progress) ==
  /\ Begins(held)
  /\ LET b == held.body
         p == <<b.orch, to>>
     IN /\ b.pending = None
        /\ Len(core.applied) = b.granted
        /\ core.cumulative = b.cumulative
        /\ IF with_progress
           THEN /\ b.events < MaxLeaseRequests + 1
                /\ ~b.marker
                /\ work' = [kind |-> "observe",
                            next |-> [b EXCEPT !.orch = to, !.runtime = core.tick,
                                               !.progress = p, !.events = @ + 1,
                                               !.pstate = ObservedState(p)]]
           ELSE /\ to = b.orch
                /\ work' = [kind |-> "observe", next |-> [b EXCEPT !.runtime = core.tick]]

\* Mutant: the epoch is not rechecked when the observer returns.
FinishObserveUnchecked ==
  /\ work # None /\ work.kind = "observe"
  /\ call = Idle
  /\ Supersede(work.next)
  /\ UNCHANGED <<vars, spent>>

(***************************************************************************)
(* The snapshot is not compared with the live session again.               *)
(***************************************************************************)
FinishObserve ==
  /\ work # None /\ work.kind = "observe"
  /\ Dispatchable
  /\ Supersede(work.next)
  /\ UNCHANGED <<vars, spent>>

\* Mutant: the receipt's lineage is checked, the native ledger is not.
SettlesUnapplied(b) ==
  /\ b.pending # None
  /\ b.runtime = b.pending.prior
  /\ core.tick = b.pending.prior + 1

(***************************************************************************)
(* commit_lease_application: the accepted application receipt names the    *)
(* pending grant, extends the ledger's runtime state, and its resulting    *)
(* state is still the live one.                                            *)
(***************************************************************************)
Settles(b) ==
  /\ b.pending # None
  /\ core.applied # <<>>
  /\ core.applied[Len(core.applied)] = b.pending
  /\ Len(core.applied) = b.granted
  /\ core.cumulative = b.cumulative
  /\ b.runtime = b.pending.prior
  /\ core.tick = b.pending.prior + 1

BeginSettle(held) ==
  /\ Begins(held)
  /\ Settles(held.body)
  /\ work' = [kind |-> "settle",
              next |-> [held.body EXCEPT !.runtime = core.tick, !.pending = None]]

FinishSettle ==
  /\ work # None /\ work.kind = "settle"
  /\ Dispatchable
  /\ work.next.runtime = core.tick
  /\ Supersede(work.next)
  /\ UNCHANGED <<vars, spent>>

\* Mutant: the prior lineage is restored only under a current epoch.
AbortTransitionActive ==
  /\ work # None
  /\ Dispatchable
  /\ work' = None
  /\ UNCHANGED <<vars, ledger, generation, kept, spent>>

(***************************************************************************)
(* Any failure between the halves, a revoked epoch or a grant gone stale   *)
(* included: Drop restores the prior lineage.                              *)
(***************************************************************************)
AbortTransition ==
  /\ work # None
  /\ call = Idle
  /\ work' = None
  /\ UNCHANGED <<vars, ledger, generation, kept, spent>>

(***************************************************************************)
(* The commands of the session, by anyone who holds it.  apply_lease is    *)
(* called with a grant governance has sealed or with any other.  A         *)
(* callback holds the session, so both halves of a transition wait for it  *)
(* to return.                                                              *)
(***************************************************************************)
Dispatch ==
  /\ \/ \E reason \in ParseReason : RejectCommand(reason)
     \/ RecordRetry
     \/ RefuseRetry
     \/ ReadRefused
     \/ \E transition \in Transition : ReadHit(transition)
     \/ \E key \in ToolKeys : ReadExhausted(key)
     \/ \E key \in ToolKeys : ReadInvokes(key)
     \/ \E observation \in Observations : ReadReturns(observation)
     \/ \E reason \in CallbackReason : ReadFails(reason)
     \/ DispatchRaises
     \/ \E g \in GrantPool \cup issued : ApplyLease(g)
     \/ \E g \in GrantPool \cup issued : RefuseLease(g)
  /\ UNCHANGED govVars

Revoke == RevokeAll /\ UNCHANGED govVars

NextContinuation ==
  \/ \E strategy \in Strategies \cup {None}, from \in OrchStates \cup {None} :
       Create(strategy, from)
  \/ \E held \in Held, r \in RequestPool : BeginEvaluate(held, r)
  \/ \E held \in Held, to \in OrchStates, with_progress \in BOOLEAN :
       BeginObserve(held, to, with_progress)
  \/ \E held \in Held : BeginSettle(held)
  \/ FinishDenial
  \/ FinishGrant
  \/ FinishObserve
  \/ FinishSettle
  \/ AbortTransition
  \/ Dispatch
  \/ Revoke

SpecContinuation == InitContinuation /\ [][NextContinuation]_allVars

(***************************************************************************)
(* Pinned Python and tool callbacks are assumed to return; a transition    *)
(* whose Python has returned ends, by commit, restore or Drop.  Strong     *)
(* fairness: Python that returns makes finitely many reads on the way, but *)
(* a read whose callback raises charges nothing, so budgets do not bound   *)
(* their number.                                                           *)
(***************************************************************************)
CallbackReturns ==
  /\ \/ \E observation \in Observations : ReadReturns(observation)
     \/ \E reason \in CallbackReason : ReadFails(reason)
     \/ DispatchRaises
  /\ UNCHANGED govVars

EndTransition ==
  FinishDenial \/ FinishGrant \/ FinishObserve \/ FinishSettle \/ AbortTransition

FairContinuation ==
  SpecContinuation /\ WF_allVars(CallbackReturns) /\ SF_allVars(EndTransition)

-----------------------------------------------------------------------------
(* Properties. *)

(***************************************************************************)
(* Everything ContinuationState.__post_init__ and _require_policy demand.  *)
(***************************************************************************)
WellFormed(b) ==
  /\ b.requests = b.granted + b.denied
  /\ b.requests <= MaxLeaseRequests /\ b.granted <= MaxLeases
  /\ b.recoveries <= b.granted /\ b.recoveries <= MaxRecoveries
  /\ b.events <= MaxLeaseRequests + 1
  /\ (b.events = 0) = (b.progress = None)
  /\ (b.decision = "denied") = (b.denial # None)
  /\ (b.requests = 0) = (b.decision = "none")
  /\ b.decision = "granted" => b.granted > 0
  /\ b.consumed # None => b.granted > 0
  /\ b.marker => /\ b.pstate = "lease_exhausted"
                 /\ b.pending = None
                 /\ b.requests = MaxLeaseRequests

(***************************************************************************)
(* The ledger, the transition in progress and a retained state have the    *)
(* types of ContinuationState and its seal; and the live ledger, like      *)
(* every state a transition is about to install, passes the constructor's  *)
(* checks, so no lease decision is lost to one that fails.                 *)
(***************************************************************************)
TypeOKContinuation ==
  /\ ledger \in Ledger \cup {None}
  /\ ledger # None => WellFormed(ledger)
  /\ generation \in 0..MaxGeneration
  /\ work # None => /\ work.kind \in {"grant", "deny", "observe", "settle"}
                    /\ work.next \in Ledger
                    /\ WellFormed(work.next)
  /\ kept \in Sealed \cup {None}
  /\ spent \in Seq(Progress)

(***************************************************************************)
(* Governance and runtime agree on every lease: with nothing pending they  *)
(* count the same leases and the same total; with a pending grant they     *)
(* differ by exactly that grant, or have it in common as the last one.     *)
(***************************************************************************)
Agreed(b) == Len(core.applied) = b.granted /\ core.cumulative = b.cumulative

AuthorityAgreement ==
  IF ledger = None THEN core.applied = <<>> /\ issued = {}
  ELSE IF ledger.pending = None THEN Agreed(ledger)
  ELSE /\ ledger.pending \in issued
       /\ \/ /\ Len(core.applied) + 1 = ledger.granted
             /\ Plus(core.cumulative, ledger.pending.granted) = ledger.cumulative
          \/ /\ Agreed(ledger)
             /\ core.applied[ledger.granted] = ledger.pending

(***************************************************************************)
(* Every grant was paid for: by a measurable progress record, never the    *)
(* one that paid for the grant before, or by a strategy recovery.          *)
(***************************************************************************)
GrantsPaid ==
  ledger # None =>
    /\ ledger.granted <= Len(spent) + ledger.recoveries
    /\ \A i \in 1..Len(spent) :
         /\ Measurable(spent[i])
         /\ i > 1 => spent[i - 1] # spent[i]

(***************************************************************************)
(* The ledger only moves forward, one generation at a time: a superseded   *)
(* state a caller retained can never be continued, which would replenish   *)
(* request slots, recoveries or observation capacity.  After revocation it *)
(* does not move at all: no transition already under way can still install *)
(* a ledger, seal a grant or move the runtime.                             *)
(***************************************************************************)
LedgerAdvances ==
  [][/\ ledger # None /\ ledger' # ledger =>
          /\ generation' = generation + 1
          /\ ledger'.requests \in {ledger.requests, ledger.requests + 1}
          /\ ledger'.granted >= ledger.granted
          /\ ledger'.denied >= ledger.denied
          /\ ledger'.recoveries >= ledger.recoveries
          /\ ledger'.events >= ledger.events
          /\ ledger.marker => ledger'.marker
          /\ ledger.consumed # None => ledger'.consumed # None
     /\ authority.revoked => UNCHANGED <<ledger, generation, issued, core>>]_allVars

(***************************************************************************)
(* A lineage transition never stays open: it commits or the prior ledger   *)
(* is restored, revocation in the middle included, so governance is never  *)
(* locked out by a transition already in progress.                         *)
(***************************************************************************)
TransitionEnds == work # None ~> work = None

(***************************************************************************)
(* When the recoveries the projection advertises can be taken.  Progress   *)
(* can be observed.  A strategy change is granted once the ledger is       *)
(* rebound to the live runtime state; a ledger that has observed no        *)
(* progress yet must first do so, and can.  A pending lease is the         *)
(* exception: it can be applied, or settled once applied, exactly until    *)
(* another command has moved the runtime.  From then on apply_pending_lease*)
(* is still advertised and can never be taken, for no tick recurs.         *)
(***************************************************************************)
CanObserveProgress(b) ==
  b.pending = None /\ Agreed(b) /\ b.events < MaxLeaseRequests + 1 /\ ~b.marker

CanChangeStrategy(b) ==
  LET cycle == IF LiveCycle(core) THEN "live" ELSE "none"
      change == [prior |-> b.strategy, proposed |-> b.strategy,
                 cycle |-> cycle, status |-> "admitted"]
      request == [defect |-> "none", resources |-> Schedule[b.granted + 1],
                  change |-> change, evidence |-> "none", blocking |-> FALSE]
  IN /\ b.strategy # None
     /\ b.granted < MaxLeases
     /\ IF b.progress = None THEN CanObserveProgress(b)
        ELSE Verdict([b EXCEPT !.runtime = core.tick], core, request) = "granted"

CanApplyPending(b) ==
  \/ b.pending \in issued /\ LeaseVerdict(core, b.pending) = "accepted"
  \/ Settles(b)

\* The runtime has moved beyond the pending grant by more than its application.
Overtaken(b) ==
  LET application == IF Len(core.applied) = b.granted THEN 1 ELSE 0
  IN core.tick > b.pending.prior + application

RecoveriesPossible ==
  ledger # None =>
    /\ "apply_pending_lease" \in RecoveryActions(ledger)
         => (CanApplyPending(ledger) <=> ~Overtaken(ledger))
    /\ "provide_objective_progress" \in RecoveryActions(ledger)
         => CanObserveProgress(ledger)
    /\ RecoveryActions(ledger) \cap StrategyAction # {} \/ StrategyAdmissible(ledger)
         => CanChangeStrategy(ledger)

(***************************************************************************)
(* CONTINUATION_PROTOCOL.md: a measurable progress record "is consumed     *)
(* when it authorizes a grant and cannot independently authorize another   *)
(* grant".                                                                 *)
(***************************************************************************)
ConsumedOnce ==
  \A i, j \in 1..Len(spent) : i # j => spent[i] # spent[j]

(***************************************************************************)
(* Governance and runtime together implement the lease protocol: the grant *)
(* is the ledger's, the effect the native core's, and the phase of the     *)
(* last lease is read off both.                                            *)
(***************************************************************************)
Phase ==
  IF ledger = None \/ ledger.pending = None THEN "settled"
  ELSE IF Len(core.applied) < ledger.granted THEN "pending" ELSE "applied"

Protocol == INSTANCE LeaseProtocol WITH
  granted <- IF ledger = None THEN 0 ELSE ledger.granted,
  total <- IF ledger = None THEN Zero ELSE ledger.cumulative,
  applied <- Len(core.applied),
  effective <- core.cumulative,
  phase <- Phase,
  revoked <- authority.revoked

ImplementsProtocol == Protocol!ProtocolSpec
=============================================================================
