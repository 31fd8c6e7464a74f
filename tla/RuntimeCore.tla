----------------------------- MODULE RuntimeCore -----------------------------
(***************************************************************************)
(* The native runtime session (rust/src/lib.rs): RuntimeCore with its      *)
(* budgets, read cache, bounded history and lease ledger, and the          *)
(* NativeRuntimeSession around it, which stages every dispatch on a clone  *)
(* of the core and installs the clone only if the session's authority      *)
(* epoch is still current when the tool callback has returned.             *)
(*                                                                         *)
(* The code names a committed runtime state by the hash of its whole       *)
(* record.  Here a state is named by its logical tick: StateIdFresh says   *)
(* every committed change advances the tick, so within one session the     *)
(* tick tells committed states apart exactly as the hash does.  A tool key *)
(* is the hash of tool, arguments and dependency; a transition id is the   *)
(* hash of tool key and observation, here the pair itself.                 *)
(***************************************************************************)
EXTENDS LeaseBudget, FiniteSets

CONSTANTS
  ToolKeys,      \* identities of distinct read commands
  Observations,  \* identities of distinct canonical observations
  Idle,          \* no tool callback is running
  GrantPool,     \* the grant records callers may present or governance issue
  MaxIssued      \* bound: grant seals issued in one behaviour

Transition == ToolKeys \X Observations

(***************************************************************************)
(* What the identity fields of a grant bind: this session in full          *)
(* ("bound"), or the first family of fields whose comparison fails.        *)
(***************************************************************************)
Binding == {"bound", "identity", "governance", "policy", "session"}

(***************************************************************************)
(* A lease grant receipt.  prior is the runtime state it extends.  The     *)
(* grant id is the hash of the record, so a grant is its own id; request   *)
(* stands for the request, progress and strategy identities it binds.      *)
(***************************************************************************)
Grant == [binding : Binding, prior : Nat, index : Nat, request : Nat,
          granted : Vector, cumulative : Vector]

ASSUME CoreAssumption ==
  /\ Idle \notin ToolKeys
  /\ GrantPool \subseteq Grant
  /\ MaxIssued \in Nat

(***************************************************************************)
(* RuntimeCore, Counters and ContinuationRuntimeState in one record.  The  *)
(* cache maps tool keys to observations: it is the set of its pairs.       *)
(***************************************************************************)
Core == [limits : [RuntimeResource -> Nat],
         requests : Nat, executions : Nat, cache_hits : Nat, retries : Nat,
         tick : Nat,
         cache : SUBSET Transition,
         history : Seq(Transition),
         cumulative : Vector,
         applied : Seq(Grant)]

ParseReason == {"invalid_canonical_command", "invalid_command",
                "unsupported_command", "protocol_version"}
CallbackReason == {"invalid_observation", "operation_failed"}
BudgetReason == {"request_budget", "execution_budget", "retry_budget"}
LeaseReason == {"continuation_disabled", "grant_identity", "stale_governance",
                "policy_mismatch", "stale_runtime_state", "lease_index", "schedule",
                "unsupported_resource", "ceiling", "unissued_grant"}
Reason == {"none", "cold_execution", "cache_hit"}
            \cup ParseReason \cup CallbackReason \cup BudgetReason \cup LeaseReason

Receipt == [command : {"none", "any", "unparsed", "execute_read", "record_retry",
                       "apply_lease"},
            status : {"none", "accepted", "rejected", "raised"},
            reason : Reason]

VARIABLES
  core,       \* the committed RuntimeCore
  staged,     \* the candidate clone of the dispatch in progress
  call,       \* the tool key whose callback is running, or Idle
  authority,  \* AuthorityEpochState of the session's binding
  issued,     \* grants for which a NativeLeaseGrantSeal exists
  outcome     \* the receipt of the last dispatch

coreVars == <<core, staged, call>>
vars == <<core, staged, call, authority, issued, outcome>>

Reply(command, status, reason) ==
  outcome' = [command |-> command, status |-> status, reason |-> reason]

-----------------------------------------------------------------------------
(* The steps of dispatch_in_place, as functions of the core. *)

IncrementRequest(c) ==
  [c EXCEPT !.requests = @ + 1, !.tick = @ + 1]

IncrementExecution(c) ==
  [c EXCEPT !.executions = @ + 1, !.tick = @ + 1]

IncrementRetry(c) ==
  [c EXCEPT !.retries = @ + 1, !.tick = @ + 1]

\* Mutant: a hit records the tool key instead of the transition.
CommitCacheHitKeyOnly(c, transition) ==
  [c EXCEPT !.cache_hits = @ + 1, !.tick = @ + 1,
            !.history = AppendHistory(@, c.limits["history"], transition[1])]

CommitCacheHit(c, transition) ==
  [c EXCEPT !.cache_hits = @ + 1, !.tick = @ + 1,
            !.history = AppendHistory(@, c.limits["history"], transition)]

(***************************************************************************)
(* commit_observation refuses an observation for which the cache has no    *)
(* room; ReadReturns then reports the execution budget as exhausted.       *)
(***************************************************************************)
CacheFull(c) == Cardinality(c.cache) >= c.limits["executions"]

\* Mutant: the observation is stored without advancing the tick.
CommitObservationUnticked(c, transition) ==
  [c EXCEPT !.cache = @ \cup {transition},
            !.history = AppendHistory(@, c.limits["history"], transition)]

CommitObservation(c, transition) ==
  [c EXCEPT !.tick = @ + 1,
            !.cache = @ \cup {transition},
            !.history = AppendHistory(@, c.limits["history"], transition)]

Cached(c, key) == {t \in c.cache : t[1] = key}

-----------------------------------------------------------------------------
(* Lease application. *)

(***************************************************************************)
(* validate_lease_application: the first check that fails, in the order of *)
(* the code, or "accepted".                                                *)
(***************************************************************************)
LeaseVerdict(c, g) ==
  IF ~ContinuationEnabled THEN "continuation_disabled"
  ELSE IF g.binding = "identity" THEN "grant_identity"
  ELSE IF g.binding = "governance" THEN "stale_governance"
  ELSE IF g.binding = "policy" THEN "policy_mismatch"
  ELSE IF g.binding = "session" \/ g.prior # c.tick THEN "stale_runtime_state"
  ELSE IF g.index # Len(c.applied) + 1 \/ \E i \in DOMAIN c.applied : c.applied[i] = g
       THEN "lease_index"
  ELSE IF g.granted = Zero THEN "schedule"
  ELSE IF g.granted["mutations"] # 0 THEN "unsupported_resource"
  ELSE IF g.index > Len(Schedule) THEN "lease_index"
  ELSE IF ~Within(g.granted, Schedule[g.index]) THEN "schedule"
  ELSE IF \E r \in RuntimeResource : c.limits[r] # Initial[r] + c.cumulative[r]
       THEN "policy_mismatch"
  ELSE IF g.cumulative # Plus(c.cumulative, g.granted) THEN "ceiling"
  ELSE IF ~Within(Plus(Initial, g.cumulative), TotalCeiling) THEN "ceiling"
  ELSE IF ~LimitsValid(Plus(Initial, g.cumulative)) THEN "ceiling"
  ELSE "accepted"

\* Mutant: applying a lease does not advance the tick.
ExtendedUnticked(c, g) ==
  [c EXCEPT !.limits = [r \in RuntimeResource |-> Initial[r] + g.cumulative[r]],
            !.cumulative = g.cumulative,
            !.applied = Append(@, g)]

Extended(c, g) ==
  [c EXCEPT !.limits = [r \in RuntimeResource |-> Initial[r] + g.cumulative[r]],
            !.tick = @ + 1,
            !.cumulative = g.cumulative,
            !.applied = Append(@, g)]

-----------------------------------------------------------------------------

InitialCore ==
  [limits |-> [r \in RuntimeResource |-> Initial[r]],
   requests |-> 0, executions |-> 0, cache_hits |-> 0, retries |-> 0,
   tick |-> 0, cache |-> {}, history |-> <<>>, cumulative |-> Zero, applied |-> <<>>]

Init ==
  /\ core = InitialCore
  /\ staged = InitialCore
  /\ call = Idle
  /\ authority = [epoch |-> 0, revoked |-> FALSE]
  /\ issued = {}
  /\ outcome = [command |-> "none", status |-> "none", reason |-> "none"]

(***************************************************************************)
(* A callback holds the session borrowed, so nothing else enters it; a     *)
(* revoked session refuses every dispatch before looking at the command.   *)
(***************************************************************************)
Active == ~authority.revoked
Dispatchable == call = Idle /\ Active

Commit(c) == core' = c /\ staged' = c /\ call' = Idle

RejectCommand(reason) ==
  /\ Dispatchable
  /\ Reply("unparsed", "rejected", reason)
  /\ UNCHANGED <<coreVars, authority, issued>>

RecordRetry ==
  /\ Dispatchable
  /\ core.retries < core.limits["retries"]
  /\ Commit(IncrementRetry(core))
  /\ Reply("record_retry", "accepted", "none")
  /\ UNCHANGED <<authority, issued>>

RefuseRetry ==
  /\ Dispatchable
  /\ core.retries >= core.limits["retries"]
  /\ Reply("record_retry", "rejected", "retry_budget")
  /\ UNCHANGED <<coreVars, authority, issued>>

ReadRefused ==
  /\ Dispatchable
  /\ core.requests >= core.limits["requests"]
  /\ Reply("execute_read", "rejected", "request_budget")
  /\ UNCHANGED <<coreVars, authority, issued>>

ReadHit(transition) ==
  /\ Dispatchable
  /\ core.requests < core.limits["requests"]
  /\ transition \in core.cache
  /\ Commit(CommitCacheHit(IncrementRequest(core), transition))
  /\ Reply("execute_read", "accepted", "cache_hit")
  /\ UNCHANGED <<authority, issued>>

\* Mutant: a refused execution gives the request back.
ReadExhaustedRefunded(key) ==
  /\ Dispatchable
  /\ core.requests < core.limits["requests"]
  /\ Cached(core, key) = {}
  /\ core.executions >= core.limits["executions"]
  /\ Commit(core)
  /\ Reply("execute_read", "rejected", "execution_budget")
  /\ UNCHANGED <<authority, issued>>

(***************************************************************************)
(* The request stays consumed when the execution is refused.               *)
(***************************************************************************)
ReadExhausted(key) ==
  /\ Dispatchable
  /\ core.requests < core.limits["requests"]
  /\ Cached(core, key) = {}
  /\ core.executions >= core.limits["executions"]
  /\ Commit(IncrementRequest(core))
  /\ Reply("execute_read", "rejected", "execution_budget")
  /\ UNCHANGED <<authority, issued>>

\* Mutant: the execution budget is not checked before the tool is invoked.
ReadInvokesUnbudgeted(key) ==
  /\ Dispatchable
  /\ core.requests < core.limits["requests"]
  /\ Cached(core, key) = {}
  /\ call' = key
  /\ staged' = IncrementExecution(IncrementRequest(core))
  /\ UNCHANGED <<core, authority, issued, outcome>>

(***************************************************************************)
(* Request and execution are admitted on the candidate before the tool is  *)
(* invoked; nothing is committed while the callback runs.                  *)
(***************************************************************************)
ReadInvokes(key) ==
  /\ Dispatchable
  /\ core.requests < core.limits["requests"]
  /\ Cached(core, key) = {}
  /\ core.executions < core.limits["executions"]
  /\ call' = key
  /\ staged' = IncrementExecution(IncrementRequest(core))
  /\ UNCHANGED <<core, authority, issued, outcome>>

\* Mutant: the epoch is not checked again when the callback returns.
ReadReturnsUnchecked(observation) ==
  /\ call # Idle
  /\ Commit(CommitObservation(staged, <<call, observation>>))
  /\ Reply("execute_read", "accepted", "cold_execution")
  /\ UNCHANGED <<authority, issued>>

ReadReturns(observation) ==
  /\ call # Idle
  /\ Active
  /\ IF CacheFull(staged)
     THEN /\ Commit(staged)
          /\ Reply("execute_read", "rejected", "execution_budget")
     ELSE /\ Commit(CommitObservation(staged, <<call, observation>>))
          /\ Reply("execute_read", "accepted", "cold_execution")
  /\ UNCHANGED <<authority, issued>>

ReadFails(reason) ==
  /\ call # Idle
  /\ Active
  /\ Commit(staged)
  /\ Reply("execute_read", "rejected", reason)
  /\ UNCHANGED <<authority, issued>>

(***************************************************************************)
(* The candidate is dropped and dispatch raises: the epoch was revoked     *)
(* during the callback, or the outcome exceeds its envelope.               *)
(***************************************************************************)
DispatchRaises ==
  /\ call # Idle \/ Active
  /\ Commit(core)
  /\ Reply("any", "raised", "none")
  /\ UNCHANGED <<authority, issued>>

(***************************************************************************)
(* revoke_all is reached through the supervisor authority, not through the *)
(* session, so it may run inside a tool callback.  It is terminal.         *)
(***************************************************************************)
RevokeAll ==
  /\ ContinuationEnabled
  /\ ~authority.revoked
  /\ authority' = [epoch |-> authority.epoch + 1, revoked |-> TRUE]
  /\ UNCHANGED <<coreVars, issued, outcome>>

(***************************************************************************)
(* issue_evaluated_lease_grant: only a grant the live state would accept   *)
(* is sealed.  It borrows the session, so no callback is running.          *)
(***************************************************************************)
IssueGrant(g) ==
  /\ Dispatchable
  /\ Cardinality(issued) < MaxIssued
  /\ LeaseVerdict(core, g) = "accepted"
  /\ issued' = issued \cup {g}
  /\ UNCHANGED <<coreVars, authority, outcome>>

\* Mutant: the grant's seal is not required.
ApplyLeaseUnsealed(g) ==
  /\ Dispatchable
  /\ LeaseVerdict(core, g) = "accepted"
  /\ Commit(Extended(core, g))
  /\ Reply("apply_lease", "accepted", "none")
  /\ UNCHANGED <<authority, issued>>

ApplyLease(g) ==
  /\ Dispatchable
  /\ LeaseVerdict(core, g) = "accepted"
  /\ g \in issued
  /\ Commit(Extended(core, g))
  /\ Reply("apply_lease", "accepted", "none")
  /\ UNCHANGED <<authority, issued>>

(***************************************************************************)
(* A grant may be presented without its seal even when one was issued.     *)
(***************************************************************************)
RefuseLease(g) ==
  /\ Dispatchable
  /\ Reply("apply_lease", "rejected",
           IF LeaseVerdict(core, g) = "accepted"
           THEN "unissued_grant" ELSE LeaseVerdict(core, g))
  /\ UNCHANGED <<coreVars, authority, issued>>

Next ==
  \/ \E reason \in ParseReason : RejectCommand(reason)
  \/ RecordRetry
  \/ RefuseRetry
  \/ ReadRefused
  \/ \E transition \in Transition : ReadHit(transition)
  \/ \E key \in ToolKeys : ReadExhausted(key)
  \/ \E key \in ToolKeys : ReadInvokes(key)
  \/ \E observation \in Observations : ReadReturns(observation)
  \/ \E reason \in CallbackReason : ReadFails(reason)
  \/ DispatchRaises
  \/ RevokeAll
  \/ \E g \in GrantPool : IssueGrant(g)
  \/ \E g \in GrantPool : ApplyLease(g)
  \/ \E g \in GrantPool : RefuseLease(g)

Spec == Init /\ [][Next]_vars

-----------------------------------------------------------------------------
(* Properties. *)

(***************************************************************************)
(* Every variable has the type of its Rust counterpart.                    *)
(***************************************************************************)
TypeOK ==
  /\ core \in Core
  /\ staged \in Core
  /\ call \in ToolKeys \cup {Idle}
  /\ authority \in [epoch : Nat, revoked : BOOLEAN]
  /\ issued \subseteq Grant
  /\ outcome \in Receipt

(***************************************************************************)
(* No counter passes its limit, no read is both a hit and an execution,    *)
(* and neither history nor cache outgrows its bound, although leases move  *)
(* the limits while reads are in progress (INVARIANTS: IBAE-BND).          *)
(***************************************************************************)
Bounded(c) ==
  /\ c.requests <= c.limits["requests"]
  /\ c.executions <= c.limits["executions"]
  /\ c.retries <= c.limits["retries"]
  /\ c.executions + c.cache_hits <= c.requests
  /\ Len(c.history) <= c.limits["history"]
  /\ Cardinality(c.cache) <= c.executions

BudgetsRespected == Bounded(core) /\ Bounded(staged)

(***************************************************************************)
(* The equation RuntimeSnapshot.from_record demands of every native        *)
(* snapshot: each tick is accounted for by exactly one counter, cache      *)
(* entry or applied lease.  With BudgetsRespected it bounds the tick below *)
(* MAX_RUNTIME_LOGICAL_TICK, so checked_add never overflows.               *)
(***************************************************************************)
Accounted(c) ==
  c.tick = c.requests + c.executions + c.cache_hits + c.retries
             + Cardinality(c.cache) + Len(c.applied)

TickAccounting == Accounted(core)

(***************************************************************************)
(* A tool that has been invoked never loses its observation to the cache   *)
(* bound: the capacity check after the callback cannot fail.               *)
(***************************************************************************)
ObservationHasRoom == call # Idle => ~CacheFull(staged)

(***************************************************************************)
(* The limits are exactly the initial budget plus the applied leases, and  *)
(* stay within the precommitted ceiling and the hard limits.               *)
(***************************************************************************)
LimitsFollowLeases ==
  /\ \A r \in RuntimeResource : core.limits[r] = Initial[r] + core.cumulative[r]
  /\ LimitsValid(core.limits)
  /\ ContinuationEnabled => Within(Plus(Initial, core.cumulative), TotalCeiling)
  /\ core.cumulative["mutations"] = 0

(***************************************************************************)
(* The applied leases are the schedule's in order, none skipped or         *)
(* replayed, each extending a strictly later state than the one before and *)
(* each adding what it granted to the running total.                       *)
(***************************************************************************)
LedgerExact ==
  /\ Len(core.applied) <= MaxLeases
  /\ \A i \in 1..Len(core.applied) :
       LET g == core.applied[i]
           before == IF i = 1 THEN Zero ELSE core.applied[i - 1].cumulative
       IN /\ g \in issued
          /\ g.index = i
          /\ Within(g.granted, Schedule[i])
          /\ g.cumulative = Plus(before, g.granted)
          /\ i > 1 => core.applied[i - 1].prior < g.prior
  /\ core.cumulative = IF core.applied = <<>> THEN Zero
                        ELSE core.applied[Len(core.applied)].cumulative

(***************************************************************************)
(* Every committed change advances the tick, so no committed state is ever *)
(* revisited and a grant bound to a past state can never apply again.      *)
(***************************************************************************)
StateIdFresh == [][core' # core => core'.tick > core.tick]_vars

(***************************************************************************)
(* Once authority is revoked the core is frozen, a read whose callback was *)
(* running when it was revoked included, and no new seal is issued.        *)
(***************************************************************************)
RevokedFrozen ==
  [][authority.revoked => UNCHANGED <<core, issued, authority>>]_vars

(***************************************************************************)
(* What RuntimeReceipt (src/ibae/runtime.py) demands of a receipt before   *)
(* it hands the outcome to the caller: exact accounting per transition,    *)
(* and for a rejection a blocking state whose tick its counters explain.   *)
(***************************************************************************)
Accounting(requests, executions, hits, retries, ticks) ==
  /\ core'.requests - core.requests = requests
  /\ core'.executions - core.executions = executions
  /\ core'.cache_hits - core.cache_hits = hits
  /\ core'.retries - core.retries = retries
  /\ core'.tick - core.tick = ticks
  /\ (ticks = 0) = (core' = core)

ReceiptAccounting(o) ==
  CASE o.command = "record_retry" /\ o.status = "accepted" -> Accounting(0, 0, 0, 1, 1)
    [] o.reason = "cold_execution" -> Accounting(1, 1, 0, 0, 3)
    [] o.reason = "cache_hit" -> Accounting(1, 0, 1, 0, 2)
    [] o.reason \in CallbackReason -> Accounting(1, 1, 0, 0, 2)
    [] o.reason = "execution_budget" -> Accounting(1, 0, 0, 0, 1)
    [] OTHER -> Accounting(0, 0, 0, 0, 0)

BlockingState(c, reason) ==
  LET events == c.requests + c.executions + c.cache_hits + c.retries
  IN /\ events <= c.tick /\ c.tick <= events + c.executions
     /\ c.executions + c.cache_hits <= c.requests
     /\ reason = "request_budget" => c.requests = c.limits["requests"]
     /\ reason = "execution_budget" => c.executions = c.limits["executions"]
     /\ reason = "retry_budget" => c.retries = c.limits["retries"]

Replied == core' # core \/ outcome' # outcome

(***************************************************************************)
(* RuntimeLeaseApplicationReceipt: an accepted lease moves the limits by   *)
(* what its grant names and nothing else, and spends one tick; a rejected  *)
(* one leaves the whole state alone.                                       *)
(***************************************************************************)
LeaseReceiptAccounting(o) ==
  IF o.status = "accepted"
  THEN LET granted == core'.applied[Len(core'.applied)].granted
       IN /\ granted # Zero /\ granted["mutations"] = 0
          /\ Within(granted, core'.cumulative)
          /\ Within(core'.cumulative, TotalCeiling)
          /\ LimitsValid(core'.limits)
          /\ \A r \in RuntimeResource : core'.limits[r] = core.limits[r] + granted[r]
          /\ Accounting(0, 0, 0, 0, 1)
  ELSE o.reason \in LeaseReason /\ Accounting(0, 0, 0, 0, 0)

(***************************************************************************)
(* RuntimeContinuationSnapshot.from_record, which every snapshot of an     *)
(* opt-in session must pass.                                               *)
(***************************************************************************)
ContinuationSnapshotAdmitted(c) ==
  /\ Len(c.applied) <= MaxLeases
  /\ \A i, j \in DOMAIN c.applied : c.applied[i] = c.applied[j] => i = j
  /\ c.cumulative["mutations"] = 0 /\ TotalCeiling["mutations"] = 0
  /\ Within(c.cumulative, TotalCeiling)

(***************************************************************************)
(* Every receipt accounts for exactly the change of state it reports, and  *)
(* the snapshot the facade takes afterwards is one it admits.              *)
(***************************************************************************)
ReceiptsExact ==
  [][Replied /\ outcome'.status \in {"accepted", "rejected"}
     => /\ IF outcome'.command = "apply_lease"
           THEN LeaseReceiptAccounting(outcome') ELSE ReceiptAccounting(outcome')
        /\ ContinuationEnabled => ContinuationSnapshotAdmitted(core')]_vars

(***************************************************************************)
(* Every rejection the native runtime returns is one the Python facade     *)
(* admits, so the caller receives its receipt and not a ValueError.        *)
(***************************************************************************)
RejectionsAdmitted ==
  [][Replied /\ outcome'.status = "rejected" /\ outcome'.command # "apply_lease"
     => BlockingState(core', outcome'.reason)]_vars
=============================================================================
