# A TLA+ verification of QSOL-IBAE

QSOL-IBAE runs the tools an LLM agent asks for under a bounded, auditable
budget. A native (Rust) core owns every authoritative transition; Python
constructs the records, evaluates governance and validates what the core
returns. This directory models the parts that keep state, checks them with TLC
and proves the central safety results with TLAPS.

## Inventory

| Part | Source | State | Operations | Modelled by |
|---|---|---|---|---|
| Native runtime core and session | `rust/src/lib.rs` `RuntimeCore`, `NativeRuntimeSession` | limits, counters, tick, read cache, bounded history, applied leases; the authority epoch | `dispatch` (`execute_read`, `record_retry`, `apply_lease`), `issue_evaluated_lease_grant`, `revoke_all` | `RuntimeCore` |
| History and cycle detector | `append_history`, `terminal_cycle_period`; `invariants.py` | the window of the last transitions | append, detect | `TransitionHistory`, `ReferenceConformance` |
| Lease budget and policy | `LeaseResources`, `ContinuationPolicySpec`; `continuation.py` `BudgetVector`, `ContinuationPolicy` | constants of a session | vector arithmetic, validation | `LeaseBudget` |
| Continuation governance | `continuation.py` `ContinuationState`, `_evaluate_continuation`, `_observe_continuation_context`, `_commit_lease_application` | the sealed ledger | create, evaluate, observe, commit, project | `Continuation`, `LeaseProtocol` |
| Native live lineage | `lib.rs` `ContinuationLineageTransition`, `NativeContinuationRequestSeal`, `NativeContinuationStateSeal` | generation, live seal, open transition | begin, commit, restore, drop | `Continuation` |
| Runtime facade | `runtime.py` | none of its own | validates receipts and snapshots | properties of `RuntimeCore` |
| Python reference executor | `reference_executor.py`, `state.py`, `cache.py` | `ExecutionState`, `ObservationCache` | `execute_read`, `record_retry` | `ReferenceConformance` |
| Effect session | `rust/src/effects.rs`, `effects.py` | cells, occurrence journal, counters, the one pending approval | authorize, dispatch (execute, retry, reconcile, cancel) | `EffectSession` |
| Transport activation | `transport_activation.py` | stage, epoch, spent and in-flight budgets, captures | reserve, complete, verify, propose, capture, rollback, revoke | `Activation` |
| Obligations and knowledge | `obligations.py`, `epistemic.py` | status of each obligation, record of each state key | change a status, learn a record | `Orchestration` |
| Orchestration and admission | `orchestration.py` | tick, bounded history, occurrence owners | `admit_batch`, `advance` | `Orchestration` |
| Tool governance | `governance.py` `GovernanceWrapper`, `ReceiptValidator` | none of its own | `admit_tool`, `bind_orchestration` and their validation | `Governance` |
| Evidence accumulator | `lib.rs` `EvidenceCore`, `evidence.py` | chains of items, totals, coverage, runtime boundary, summary, final receipt; the facade's copies | ingest a runtime case, an unbound case, a child receipt; seal, finalize, expand | `Evidence` |
| Governed acceptance | `governance.py` | none of its own | `bind_execution`, `finalize` and their validation | `Acceptance` |
| Checkpoints, watchdog, partial receipts | `continuation.py` | records over the live ledger | checkpoint, resume, observe expiry, finalize as partial | `Checkpoint` |
| Everything else | policy and plan records, canonical encoding, supervisor client, fixtures; HTTP and parsing of `openai_transport.py` and `readonly_adapters.py` | immutable records or I/O | validation | not modelled, see below |

What is hard here: tool callbacks run in the middle of a native dispatch and
may revoke its authority; pinned Python runs in the middle of a native lineage
transition while the session is not borrowed; a lease is granted, applied and
settled by three calls in two languages; callers retain every state they were
ever given; every counter has a limit and leases move the limits; each native
outcome is validated in Python after the native state has changed; the effect
ledger must stay truthful when an acknowledgement is lost on either side of the
effect; the activation controller holds its lock only for short sections, so
its operator may roll back, reconfigure or revoke in the middle of any network
call, capture or verification of any thread. Admission decides each proposal of
a batch by the ones before it; what it admitted, what governance authorized,
what the runtime executed and what the evidence covers are four records made by
four components, and acceptance must see them agree.

## Modules

* `TransitionHistory`: pure operators for the history and the detector.
* `LeaseBudget` (extends it): vectors, schedule, ceiling. What the two policy
  parsers enforce are the named assumptions `PolicyType`, `InitialAssumption`
  and `PolicyAssumption`.
* `RuntimeCore` (extends it): the native session. `core` is the committed
  core, `staged` the clone a dispatch works on, `call` the running callback,
  `authority` the epoch, `issued` the sealed grants, `outcome` the last
  receipt. A read that reaches the tool takes two steps, `ReadInvokes` and one
  of `ReadReturns`, `ReadFails`, `DispatchRaises`; only revocation can come
  between them, because the callback holds the session.
  A runtime state id, in the code a hash of the whole state, is the tick;
  `StateIdFresh` (proved) is what makes that sound.
* `LeaseProtocol`: the abstract specification of continuation: grant, take
  effect, settle, withdraw.
* `Continuation` (extends `RuntimeCore`): the ledger over the session. Each of
  evaluate, observe and commit has a `Begin` step, up to the return of the
  pinned Python, and a `Finish` step, what Rust rechecks and commits;
  `AbortTransition` is any failure between them. Identities are what they
  bind: a progress record is the pair of orchestration states it compares, a
  grant its own content. `Dispatch` is every command of the session, given by
  anyone who holds it; a grant it presents need not be one governance sealed.
  `kept` is a superseded state object that a caller still holds (that of
  generation `MaxKept - 1`, whatever it is); `spent` records which progress paid
  for which grant.
* `Checkpoint` (extends `Continuation`): which checkpoints, resumptions and
  partial receipts the live ledger and session admit. They change no live
  state, so the module has operators and no action; its property looks at
  everything a caller could offer in every state of `Continuation`.
* `ReferenceConformance` (extends `RuntimeCore`): the Python reference and the
  native session driven by the same commands, their cycle detectors included.
* `Orchestration`: the orchestration state with its obligations and knowledge.
  `orch` is the state record, `taken` the occurrences ever admitted, which the
  code does not keep. A step submits a batch (`Admit`), changes the status of an
  obligation (`WithStatus`) or replaces a record (`Learn`). `AdmitBatch` is the
  loop of the code, a recursive function over the turns (`Loop`); `Meaning` is a
  definition of what it decides without a loop. `Reached` is the closure behind
  the dependency digest and the ancestry of an obligation.
* `Governance` (extends it): tool admission and the orchestration receipt. The
  wrapper keeps no state, so its calls are operators and its property
  quantifies over all batches in every state of `Orchestration`.
* `Evidence`: sessions that issue receipts, and accumulators that are fed by the
  host in any order. `native` is the reducer in Rust, `facade` the Python object
  around it. A call that raises is no step, except `AggregateSummary`, which
  changes the native side first. `chain` holds the items the four hash chains
  commit to, a child with the cases of its own chain; `CasesOf` is all of them in
  order.
* `Acceptance` (extends it): execution receipts, partial and final acceptance,
  and the validator that rebuilds each from the receipts beneath it.
* `EffectSession`: the effect ledger. `world` is what has really happened to
  the cells, the journal what the ledger knows of it; the plan of each entry
  says how its execution and acknowledgement turn out. `authorize` fills the
  one approval slot, each of the four commands is an action, and what the
  Python facade demands of snapshots and receipts are properties.
* `Activation`: the transport controller shared by threads. `ctl` is the
  controller with its ledger, `plans` every capture plan made, `thread` what
  each thread is doing, `host` and `made` the orchestration states of the
  trusted host, `occurrences` the keys it has admitted. An operation is one
  action per section between two points where another thread can run: a model
  call begins, reserves, sends, is answered or fails, completes and is
  retained or dropped; a capture is admitted, revalidated, reserved, sent,
  answered, completed, kept or lost, and recorded; a verification begins and
  ends. Every check the adapters make of their reservation is a guard of the
  section it precedes. One section is coarser than the code: `KeepCapture` takes
  the last comparison of the native context, made without the lock, together
  with the locked fence after it. A host that advances between the two is seen
  by neither in the code; the model reaches the same state by advancing the host
  right after `KeepCapture`, which neither reads nor changes what that step does
  by itself.
* `RuntimeCoreProofs`, `ReferenceConformanceProofs`, `ContinuationProofs`,
  `CheckpointProofs`, `EffectSessionProofs`, `ActivationProofs`: the theorems
  about the module of that name. `OrchestrationProofs`: those about
  `Orchestration` and `Governance`. `EvidenceProofs`: those about `Evidence` and
  `Acceptance`.
* `MCRuntimeCore`, `MCContinuation`, `MCReferenceConformance`,
  `MCEffectSession`, `MCActivation`, `MCOrchestration`, `MCEvidence`: instances. `MCActivation` also has
  `SpecParked`, a subset of the behaviours of `SpecActivation`, for the one
  disagreement that takes sixty steps.

## Runs

| Run | Checks | Bounds |
|---|---|---|
| `leased_session` | budgets, tick accounting, lease ledger, fresh states, revocation, exact receipts, snapshots the facade admits; superseded ledgers, revocation within a transition, no transition left open (fair callbacks) | two tools, two leases that move three limits, both applied; unsealed copies of a right grant and one grant per defect; three generations, the first one retained |
| `lease_flow` | the ledger after every grant and every kind of denial, when advertised recoveries can be taken, agreement of ledger and core, payment of grants, truthful finalization, refinement of `LeaseProtocol` | three decisions for two leases, four generations: both leases requested, applied and settled |
| `reference_conformance` | native against reference: state, answer, detected cycle | two tools, two observations, every budget exhausted, history 3 |
| `effect_session` | truthful journal, effects once and in order, what the facade demands, the approval slot, cancellation | every manifest of two entries on one cell with values 0 to 2, five requests, three executions, one retry, one reconciliation |
| `activation` | accounting, one call at a time, current evidence, earned gates, chained admissions, silence after revocation | two threads, two deployments, two proposals for one target, four calls, four epochs and their exhaustion, one capture |
| `orchestration` | occurrences once, the loop against `Meaning`, splitting a batch, grounded admission, exact authorization | three obligations in a chain (cyclic graphs are offered and refused), one derived record, sixteen batches of up to four proposals, two owners, history 2, batches up to tick 2 |
| `evidence` | exact totals, real coverage, unbroken history, earned acceptance | one session with two receipts, two orchestrations that share a cache key, two accumulators, three cases, one retained failure |
| `core_rejection_receipt`, `progress_reuse`, `complete_relabelled`, `stale_capture`, `mixed_seal` | the five disagreements below | |

The bounds are small because the checks of the code are local: a limit is
reached by one more command, a lease depends on the one before it, a cycle on
the last six transitions. They are chosen so that every limit is reached and
every denial reason of the evaluator occurs. Four calls and four epochs are
what the ladder of stages, one capture and a rollback after it need. The batches
of `orchestration` are chosen so that every rejection of admission occurs and
every pair of proposals that can influence each other (same action, same
occurrence key, last owner slot) meets in one batch and across two.

`evidence` uses the action constraint `OneOrder`. An accumulator never
influences a session, and two accumulators meet only in child receipts and
execution identities, so the sessions run first and `q` is finished before `p`
is begun: every state of one accumulator together with what it may refer to is
still reached, and only interleavings that commute are left out. Two receipts
are what a cold execution and a cache hit on it, a second action of the same
manifest, or a break in the history need.

Fairness (`TransitionEnds` only): tool callbacks return (`WF`), and pinned
Python, once called, returns (`SF`, because reads it makes on the way may
interleave without bound). The code's transitions are ended by the scope that
opened them, by commit, restore or `Drop`; nothing else is assumed.

`VIEW GovernanceView` leaves the last receipt out of the fingerprint in the runs
of `MCContinuation`. No guard reads it, so the steps from a state do not depend
on it; `ReceiptsExact` looks at each receipt in the step that makes it, and TLC
evaluates action properties on every step, also on one whose end is known; and
every action with a fairness condition changes what the view keeps. A
rejection that leaves the core as it is and repeats the receipt before it is
skipped by `Replied`; it was looked at when that receipt was made, in the same
core.

## Disagreements found

* **Rejections after a lease** (`core_rejection_receipt`). The facade bounds
  the tick of a rejection receipt by its counters and forgets that an applied
  lease advances the tick too. After an accepted lease every rejection raises
  `ValueError` in Python after the native core has committed it.
* **Progress that pays twice** (`progress_reuse`). Only the last consumed
  record is remembered; regress, consume another record, repeat the first
  improvement, and the same record authorizes again.
* **A complete ledger finalized as partial** (`complete_relabelled`).
  `_denial_state` maps every stale binding to `stalled`, whatever the status of
  the ledger was. A ledger that has observed its task complete and then receives
  a stale request is stalled; the constructors of checkpoint and partial receipt
  look at that status only, and admit a partial result when the watchdog expires.
  `FinalizationTruthful` shows that this is the only way: every other reason is
  refused for a complete task, and this one needs a stale denial.
* **A stale capture that reads** (`stale_capture`). The plan of a capture is
  compared by value. A capture that is rolled back just before it reserves its
  read finds, after the stages have been passed again, the plan of a later
  capture of the same proposal, takes that capture's only reservation and sends
  the GET. Its result is discarded and the later capture fails.
* **A seal without a summary** (`mixed_seal`). After one runtime case and one
  child receipt `aggregate_summary` seals the reducer and then fails in the
  constructor of the summary, because the facade passes runtime endpoints that a
  mixed stream does not show. The accumulator is sealed and has no summary.

Three remarks from the modelling, which no run of their own states:

* A dispatch between the grant of a lease and its application moves the runtime
  past the state the grant is bound to, and no state recurs (`StateIdFresh`).
  The grant stays pending for ever: it is advertised as `apply_pending_lease`,
  every later request is denied, and no checkpoint can be taken.
  `CONTINUATION_PROTOCOL.md` calls what the projection advertises legal recovery
  actions and does not say what becomes of such a grant, so `RecoveriesPossible`
  states the fact as it is: the advice can be followed exactly until another
  command has moved the runtime (`Overtaken`).
* A checkpoint for `terminal_cycle` needs the last denial, not a live cycle: a
  read may have broken the cycle before the ledger was rebound.
  `FinalizationTruthful` therefore claims nothing about later requests for
  `terminal_cycle`, nor for `watchdog_expired`.
* `EVIDENCE_PROTOCOL.md` says that the first receipt admitted for an action must
  be an accepted `cold_execution`. The reducer asks that of cache hits and of
  coverage only: a failed read of the action, or a retry, may come before. No
  hit counts without a cold execution before it either way (`CoverageReal`).

## Theorems

Every theorem holds for all values of the constants that satisfy the named
assumptions of the modules: any budgets and schedules the policy parsers accept
(`LeaseBudget`), any pools of grants and requests, any number of threads, any
finite sets of obligations and state keys, batches of any length. The bounds
TLC needs (`MaxIssued`, `MaxGeneration`, `MaxEpoch`, `MaxHost`, `MaxTick`) are
arbitrary naturals there. What Python writes as `None` is assumed to be none of
the values it stands beside (`NoneAssumption`, `CheckpointAssumption` and
conjuncts of `EffectAssumption`, `ActivationAssumption`,
`GovernanceAssumption`; `EvidenceNoneAssumption`, `AcceptanceNoneAssumption`);
`BatchAssumption` is what the constructors of proposals and batches demand, and
`EvidenceAssumption` what those of accumulators and of unbound case records do.

| Module | Theorems, with the property each states for every instance |
|---|---|
| `RuntimeCoreProofs` | `CoreInvariant`; `TypeCorrect` (`TypeOK`), `BudgetSafety` (`BudgetsRespected`), `TickSafety` (`TickAccounting`), `RoomSafety` (`ObservationHasRoom`), `LimitSafety` (`LimitsFollowLeases`), `LedgerSafety` (`LedgerExact`), `ReceiptSafety` (`ReceiptsExact`), `FreshStates` (`StateIdFresh`), `RevocationFreezes` (`RevokedFrozen`) |
| `ReferenceConformanceProofs` | `ConformanceInvariant`; `ReferenceConforms` (`SameTransition`) |
| `ContinuationProofs` | `ContinuationInvariant`; `GovernanceTypes` (`TypeOKContinuation`), `AgreementSafety` (`AuthorityAgreement`), `PaymentSafety` (`GrantsPaid`), `RecoverySafety` (`RecoveriesPossible`), `LedgerForward` (`LedgerAdvances`), `ProtocolImplemented` (`ImplementsProtocol`) |
| `CheckpointProofs` | `FinalizationSafety` (`FinalizationTruthful`) |
| `EffectSessionProofs` | `EffectInvariant`; `EffectTypes`, `JournalSafety`, `OrderSafety`, `WorldSafety`, `PendingSafety`, `CancellationSafety`, `FacadeSafety` |
| `ActivationProofs` | `ActivationInvariant`; `ActivationTypeSafety`, `AccountSafety`, `CallSafety`, `EvidenceSafety`, `GateSafety`, `ChainSafety`, `RevocationSilences` |
| `OrchestrationProofs` | `OrchestrationInvariant`; `OrchestrationTypes`, `OccurrenceSafety`, `GroundedSafety`, `MeaningSafety`, `SplitSafety`, `AuthorizationSafety` |
| `EvidenceProofs` | `EvidenceInvariant`; `HistorySafety` (`HistoryUnbroken`), `CoverageSafety` (`CoverageReal`), `AccountingSafety` (`AccountingExact`), `AcceptanceSafety` (`AcceptanceEarned`) |

No invariant is inductive alone. The inductive invariants, and what each adds:

* `CoreInv` relates `staged` to `core`: with no callback running they are
  equal; with one running `staged` is `core` with one request and one execution
  admitted, and the key is not cached. That bounds the cache by the executions
  *before* the callback (`ObservationHasRoom` needs it). `LedgerInv` says of each
  applied grant what it adds to the one before; it needs `prior < tick`, which
  is where `StateIdFresh` pays. That limits never shrink, hence that the history
  keeps its bound, follows from the schedule: limits are the initial budget plus
  a cumulative vector.
* `ConformanceInv` says that the reference state is the image of `staged`, that
  the two last answers correspond, and that the cache has one entry per key;
  the last is what makes a set of pairs and a dictionary look up alike.
* `ContinuationInv` adds to the core that the ledger and every ledger about to
  be installed are valid, that the one of an open transition follows the live
  one (`WorkFollows`, `Follows`: it was computed before the session was given
  back and is installed after), that every sealed grant is pending or in effect
  (`IssuedKnown`), that the runtime accepts the pending one as long as it is in
  the state the grant is bound to (`PendingAccepted`), and that the ledger
  remembers the progress record spent last (`SpentLast`). The refinement maps the pair of ledger and core to the
  abstract lease; each step is shown to be one of its steps or a stutter.
* `FinalizationTruthful` follows from `ContinuationInv`, in particular from
  `DenialCurrent`, what a ledger remembers of its last denial is still so, and
  `CompleteClosed`, a ledger with a complete task says so or was stalled by a
  stale request.
* `EffectInv` and `FacadeInv` relate the journal to the effects: which attempts
  exist, what each witnessed, which counters paid for them; the seals of the
  pending approval name a declared entry. The facade's checks then follow from
  counters that dominate what the entries add up to.
* `ActivationInv` says whose the outstanding call is (`CallInv`: call indexes
  are never reused, a thread of an earlier epoch holds an older one), which plan
  a capture holds (`PlanInv`, `CaptureInv`), that a call a thread still holds
  has left no evidence (`FreshInv`), and that a verification begun in this epoch
  had its evidence when it was begun (`VerifyInv`), which is what it may rely on
  when it ends (`GateInv`). Every action is first classified by what it does to
  the controller, so that each part of the invariant is shown for a few kinds of
  step and not for each of the actions.
* `OrchInv` is `Sound`, what the constructors of the state accept, with
  `OccurrenceOnce`. The rest is about one batch in a sound state: `LoopNotes`
  and `LoopOwns` say which actions and keys the loop has recorded after n turns,
  whence `Meaning`; `LoopResumes` that a loop cut in two continues where it
  stopped; `ReachedClosed` that a closure stays in any closed set it starts in,
  whence groundedness at any depth from checks one level deep. In
  `AuthorizationSafety` no two admitted decisions are for one action
  (`AdmittedOnce`), so tools correspond to decisions one to one.

* `EvidenceInv` has one part for the sessions and four for each accumulator.
  `Lives`: two receipts of a session that both change its state do not start
  from the same one, and none ends beyond where the session is. That is why a
  stream whose receipts join up leaves no change out (`Unbroken`); that a session
  goes on later does not matter, because a new receipt starts where the session
  has got to (`SoundLater`). `Accounted`: totals and counters are those of the
  cases of all chains, the retained details are the first failures in increasing
  order, and without children the cases are the chain itself. `Sourced`: in bound
  evidence every source was issued, hits follow cold executions, and every action
  in `observed` has one under its own key; unbound evidence holds a case without
  a source, which is why it can never be taken for a live one. `Sealed`: what
  either side has sealed is computed from the stream as it now is, because
  sealing ends ingestion. A child is taken in on the strength of its receipt
  only, so the same invariant of the accumulator it came from must vouch for it
  (`FinalVouches`). For `AcceptanceEarned`, the receipts that bind an execution
  are shown to be just those that were earned (`BindingIsEarned`,
  `EarnedBinds`), and the wrapper and the validator to agree on any gates at all
  (`WrapperValidates`); `Flaws` is needed only for what must be refused.

Recursion over numbers (the sums of a schedule, the turns of the loop, the
rounds of a closure, the joining of sequences, the sums of counters, the pages
of details) is handled without an induction theorem: a least
counterexample exists (`WFMin`, `NatLessThanWellFounded`), and the step rules it
out.

Only model-checked, and why:

* `TransitionEnds`, liveness under fairness, and everything about enabledness:
  beyond the prover.

Every invariant of a passing run is stated by a theorem. So are the action
properties; the refinement `ImplementsProtocol` among them.

## Plan

The order was: the native session; governance over it; the effect ledger; the
transport controller; orchestration and governance policies; evidence and
acceptance; then the theorems, in the same order with the reference executor
after the session. All of it is done. What would extend the project:

* `ContinuationEvidenceReceipt` over the trace of `Continuation`, with its
  replay as an operator and its agreement with the ledger as the property.
* The response continuation of the supervisor, as one more operation of
  `Activation`.

No module of the project declares a RECURSIVE operator.

## Not modelled

Canonical encoding and hashing (an identity is what it binds); the pinning of
Python code objects (its failure is `AbortTransition`); the constructors of
task, policy and plan records, assurance and supervisor records (immutable, no
guard of a modelled operation reads them beyond the identities the models keep);
`ContinuationEvidenceReceipt`, which replays the whole trace of progress records;
HTTP and parsing of the transport and the adapters (an answer arrives or the
call fails); response continuation of the supervisor; conformance fixtures and
benchmarks; the synthetic runner and its recovery, a scripted harness that calls
the modelled components and keeps no authoritative state.
