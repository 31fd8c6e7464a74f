--------------------------- MODULE Orchestration ---------------------------
(***************************************************************************)
(* The orchestration state and the admission of proposal batches.  The     *)
(* state is an immutable Python record; a step is the pure function that   *)
(* makes the next one.  A fingerprint is what it binds: an action is its   *)
(* capability, arguments, dependency digest and, where replay is unsafe,   *)
(* its occurrence key; an event is the tick it consumed.                   *)
(***************************************************************************)
EXTENDS Naturals, FiniteSets, SequencesExt

CONSTANTS
  Obligations,   \* obligation identities
  Graphs,        \* the dependency graphs a host may declare
  StateKeys,     \* keys of epistemic records
  DerivedFrom,   \* the dependencies of the derived record of a key
  Values,        \* values of records
  Capabilities,  \* the registry: name -> [available, replay, required, schema]
  Schemas,       \* admitted strategy schemas: strategy key -> schema
  Batches,       \* the batches a supervisor may propose
  Rank,          \* the order of proposal fingerprints: proposal -> number
  MaxBatch, MaxHistory, MaxOwners,
  MaxTick,       \* bound of the model: no batch is submitted at this tick
  None

NoRecord == [class |-> "absent", value |-> None]

Records == {NoRecord, [class |-> "unknown", value |-> None]}
           \cup [class : {"observed", "model_proposed", "derived"}, value : Values]

(***************************************************************************)
(* Rounds of Kahn's algorithm: what the dependencies visited so far leave  *)
(* ready; a graph is acyclic when the rounds reach all of it.              *)
(***************************************************************************)
Acyclic(nodes, edges) ==
  LET visited[n \in 0..Cardinality(nodes)] ==
        IF n = 0 THEN {} ELSE {v \in nodes : edges[v] \subseteq visited[n - 1]}
  IN visited[Cardinality(nodes)] = nodes

ASSUME OrchestrationAssumption ==
  /\ IsFiniteSet(Obligations) /\ IsFiniteSet(StateKeys)
  /\ Graphs \subseteq [Obligations -> SUBSET Obligations]
  /\ DerivedFrom \in [StateKeys -> SUBSET StateKeys]
  /\ Acyclic(StateKeys, DerivedFrom)
  /\ MaxBatch \in Nat \ {0} /\ MaxHistory \in Nat \ {0} /\ MaxOwners \in Nat \ {0}
  /\ MaxTick \in Nat
  /\ \A c \in DOMAIN Capabilities : Capabilities[c].required \subseteq StateKeys

\* What the constructors of proposals and batches demand; proposals of a batch have
\* different keys, hence different fingerprints.
ASSUME BatchAssumption ==
  \A b \in Batches :
    /\ b = [strategy |-> b.strategy, ordering |-> b.ordering, proposals |-> b.proposals]
    /\ b.proposals # <<>> /\ b.proposals \in Seq(Range(b.proposals))
    /\ \A i \in DOMAIN b.proposals :
         /\ b.proposals[i].targets # {} /\ b.proposals[i].required \subseteq StateKeys
         /\ Rank[b.proposals[i]] \in Nat
         /\ \A j \in DOMAIN b.proposals : Rank[b.proposals[i]] = Rank[b.proposals[j]] => i = j

RejectionReasons ==
  {"BATCH_LIMIT_EXCEEDED", "STRATEGY_SCHEMA_NOT_ADMITTED", "UNKNOWN_CAPABILITY",
   "CAPABILITY_UNAVAILABLE", "ARGUMENT_SCHEMA_MISMATCH", "UNKNOWN_OBLIGATION",
   "OBLIGATION_SATISFIED", "OBLIGATION_BLOCKED", "DEPENDENCY_UNSATISFIED", "UNKNOWN_STATE",
   "OCCURRENCE_KEY_REQUIRED", "UNEXPECTED_OCCURRENCE_KEY", "DUPLICATE_OCCURRENCE",
   "OCCURRENCE_REGISTRY_FULL", "ORDERING_CONTRACT_REQUIRED"}

Proposals == UNION {Range(b.proposals) : b \in Batches}

\* What is proposed, on which state of knowledge, and which occurrence it claims.
Action(p, digest, occurrence) ==
  [capability |-> p.capability, arguments |-> p.arguments, digest |-> digest,
   occurrence |-> occurrence]

\* None is none of the values it stands beside.
ASSUME NoneAssumption ==
  /\ None \notin RejectionReasons /\ None \notin Proposals
  /\ \A p \in Proposals : \A keys \in SUBSET StateKeys : \A digest \in [keys -> Records] :
       None \notin {digest, Action(p, digest, None), Action(p, digest, p.occurrence)}

VARIABLES
  orch,   \* the current OrchestrationState
  taken   \* every occurrence-sensitive admission there has been

orchVars == <<orch, taken>>

----------------------------------------------------------------------------
(* Obligations *)

Statuses == {"unsatisfied", "satisfied", "blocked"}

BlockingDependencies(st, o) == {d \in st.deps[o] : st.status[d] # "satisfied"}

Readiness(st, o) ==
  CASE st.status[o] = "satisfied" -> "satisfied"
    [] st.status[o] = "blocked" -> "explicitly_blocked"
    [] st.status[o] = "unsatisfied" ->
         IF BlockingDependencies(st, o) # {} THEN "dependency_blocked" ELSE "ready"

\* Mutant: an obligation is satisfied before what it depends on.
SatisfiedDependenciesUnchecked(deps, status) == TRUE

SatisfiedDependencies(deps, status) ==
  \A o \in Obligations :
    status[o] = "satisfied" => \A d \in deps[o] : status[d] = "satisfied"

\* Everything the constructor of a registry demands.
ValidRegistry(deps, status) ==
  /\ \A o \in Obligations : o \notin deps[o]
  /\ Acyclic(Obligations, deps)
  /\ SatisfiedDependencies(deps, status)

----------------------------------------------------------------------------
(* Epistemic records *)

IsResolved(record) == record.class \in {"observed", "derived"}

\* Only a derived record declares dependencies.
Dependencies(known, k) == IF known[k].class = "derived" THEN DerivedFrom[k] ELSE {}

ValidKnowledge(known) ==
  \A k \in StateKeys : \A d \in Dependencies(known, k) : IsResolved(known[d])

UnresolvedKeys(known, keys) == {k \in keys : ~ IsResolved(known[k])}

\* What the edges lead to, in any number of steps.
Reached(from, edges) ==
  LET step(s) == s \cup UNION {edges[k] : k \in s}
      reached[n \in 0..Cardinality(DOMAIN edges)] ==
        IF n = 0 THEN from ELSE step(reached[n - 1])
  IN reached[Cardinality(DOMAIN edges)]

\* Fingerprint of the records that keys depend on, through any number of
\* derivations.
DependencyDigest(known, keys) ==
  [k \in Reached(keys, [d \in StateKeys |-> Dependencies(known, d)]) |-> known[k]]

----------------------------------------------------------------------------
(* The decision on one proposal *)

IsReplaySafe(capability) == capability.replay # "occurrence_sensitive"

DependencyKeys(p) ==
  IF p.capability \in DOMAIN Capabilities
  THEN Capabilities[p.capability].required \cup p.required
  ELSE p.required

\* What a rejection names as its cause: obligations or state keys.
Refusal(reason, because) == [reason |-> reason, because |-> because]
Passed == Refusal(None, {})

ValidateTargets(st, p) ==
  LET having(r) == {o \in p.targets : Readiness(st, o) = r} IN
  IF p.targets \ Obligations # {}
    THEN Refusal("UNKNOWN_OBLIGATION", p.targets \ Obligations)
  ELSE IF having("satisfied") # {}
    THEN Refusal("OBLIGATION_SATISFIED", having("satisfied"))
  ELSE IF having("explicitly_blocked") # {}
    THEN Refusal("OBLIGATION_BLOCKED", having("explicitly_blocked"))
  ELSE IF having("dependency_blocked") # {}
    THEN Refusal("DEPENDENCY_UNSATISFIED",
                 UNION {BlockingDependencies(st, o) : o \in having("dependency_blocked")})
  ELSE Passed

ValidateState(st, p) ==
  LET unresolved == UnresolvedKeys(st.known, DependencyKeys(p)) IN
  IF unresolved # {} THEN Refusal("UNKNOWN_STATE", unresolved) ELSE Passed

ValidateOccurrence(p) ==
  LET safe == IsReplaySafe(Capabilities[p.capability]) IN
  IF ~ safe /\ p.occurrence = None THEN Refusal("OCCURRENCE_KEY_REQUIRED", {})
  ELSE IF safe /\ p.occurrence # None THEN Refusal("UNEXPECTED_OCCURRENCE_KEY", {})
  ELSE Passed

\* The checks that do not depend on the rest of the batch, first failure first.
Screen(st, ordering, p) ==
  IF p.capability \notin DOMAIN Capabilities THEN Refusal("UNKNOWN_CAPABILITY", {})
  ELSE LET c == Capabilities[p.capability] IN
    IF ~ c.available THEN Refusal("CAPABILITY_UNAVAILABLE", {})
    ELSE IF ~ (p.arguments \subseteq c.schema) THEN Refusal("ARGUMENT_SCHEMA_MISMATCH", {})
    ELSE IF c.replay # "cacheable_read" /\ ordering # "declared_sequence"
      THEN Refusal("ORDERING_CONTRACT_REQUIRED", {})
    ELSE IF ValidateTargets(st, p) # Passed THEN ValidateTargets(st, p)
    ELSE IF ValidateState(st, p) # Passed THEN ValidateState(st, p)
    ELSE ValidateOccurrence(p)

\* Mutant: the action is bound to the tick as well.
ActionIdOfState(st, p) ==
  Action(p, DependencyDigest(st.known, DependencyKeys(p)),
         IF IsReplaySafe(Capabilities[p.capability]) THEN None ELSE <<p.occurrence, st.tick>>)

ActionId(st, p) ==
  Action(p, DependencyDigest(st.known, DependencyKeys(p)),
         IF IsReplaySafe(Capabilities[p.capability]) THEN None ELSE p.occurrence)

Decision(p, status, tick, action, equivalent, refusal) ==
  [proposal |-> p, status |-> status, tick |-> tick, action |-> action,
   equivalent |-> equivalent, reason |-> refusal.reason, because |-> refusal.because]

Rejected(p, tick, refusal) == Decision(p, "rejected", tick, None, None, refusal)

\* Mutant: the owners are those of the state the batch started from.
OwnersAtStart(st, acc) == st.owners

\* The owners consulted for a duplicate are those the earlier proposals of the
\* batch have left.
OwnersNow(st, acc) == acc.owners

(***************************************************************************)
(* One turn of the loop of admit_batch: acc holds the decisions so far,    *)
(* the replay-safe actions admitted in this batch and the owners of        *)
(* occurrence keys.                                                        *)
(***************************************************************************)
Decide(st, ordering, acc, p) ==
  LET tick    == st.tick + Len(acc.decisions) + 1
      refusal == Screen(st, ordering, p)
      after(d, actions, owners) ==
        [decisions |-> Append(acc.decisions, d), actions |-> actions, owners |-> owners]
      reject(cause) == after(Rejected(p, tick, cause), acc.actions, acc.owners)
  IN
  IF refusal # Passed THEN reject(refusal)
  ELSE LET action == ActionId(st, p)
           admit  == Decision(p, "admitted", tick, action, None, Passed) IN
    IF IsReplaySafe(Capabilities[p.capability]) THEN
      IF action \in DOMAIN acc.actions
      THEN after(Decision(p, "deduplicated", tick, action, acc.actions[action], Passed),
                 acc.actions, acc.owners)
      ELSE after(admit, [a \in DOMAIN acc.actions \cup {action} |->
                           IF a = action THEN p ELSE acc.actions[a]], acc.owners)
    ELSE IF p.occurrence \in DOMAIN OwnersNow(st, acc)
      THEN reject(Refusal("DUPLICATE_OCCURRENCE", {}))
    ELSE IF Cardinality(DOMAIN acc.owners) = MaxOwners
      THEN reject(Refusal("OCCURRENCE_REGISTRY_FULL", {}))
    ELSE after(admit, acc.actions,
               [k \in DOMAIN acc.owners \cup {p.occurrence} |->
                  IF k = p.occurrence THEN [action |-> action, proposal |-> p] ELSE acc.owners[k]])

\* The values of acc through the loop over the proposals q.
Loop(st, ordering, q) ==
  LET acc[n \in 0..Len(q)] ==
        IF n = 0 THEN [decisions |-> <<>>, actions |-> <<>>, owners |-> st.owners]
        ELSE Decide(st, ordering, acc[n - 1], q[n])
  IN acc

----------------------------------------------------------------------------
(* The decision on a batch *)

\* Mutant: independent proposals keep the order they were submitted in.
OrderedAsSubmitted(b) == b.proposals

\* The place of p when the proposals s are sorted by their fingerprints.
Position(s, p) == Cardinality({q \in Range(s) : Rank[q] < Rank[p]}) + 1

OrderedProposals(b) ==
  IF b.ordering = "declared_sequence" THEN b.proposals
  ELSE [i \in DOMAIN b.proposals |->
          CHOOSE p \in Range(b.proposals) : Position(b.proposals, p) = i]

\* Mutant: the history is not cut.
AdvanceUncut(st, events, owners) ==
  [st EXCEPT !.tick = @ + Len(events), !.owners = owners, !.history = @ \o events]

\* Every event consumes one tick; the history keeps the latest ones.
Advance(st, events, owners) ==
  LET history == st.history \o events
      kept    == IF Len(history) < MaxHistory THEN Len(history) ELSE MaxHistory
  IN [st EXCEPT !.tick = @ + Len(events), !.owners = owners,
                !.history = SubSeq(history, Len(history) - kept + 1, Len(history))]

Receipt(st, status, decisions, rejection, next) ==
  [status |-> status, prior |-> st, next |-> next, decisions |-> decisions,
   rejection |-> rejection]

RejectedBatch(st, reason) ==
  Receipt(st, "rejected", <<>>, reason, Advance(st, <<st.tick + 1>>, st.owners))

ProcessedBatch(st, acc) ==
  Receipt(st, "processed", acc.decisions, None,
          Advance(st, [i \in DOMAIN acc.decisions |-> acc.decisions[i].tick], acc.owners))

AdmitBatch(st, b) ==
  IF b.strategy.key \notin DOMAIN Schemas \/ Schemas[b.strategy.key] # b.strategy.schema
    THEN RejectedBatch(st, "STRATEGY_SCHEMA_NOT_ADMITTED")
  ELSE IF Len(b.proposals) > MaxBatch THEN RejectedBatch(st, "BATCH_LIMIT_EXCEEDED")
  ELSE LET q == OrderedProposals(b) IN ProcessedBatch(st, Loop(st, b.ordering, q)[Len(q)])

\* What the constructor of a decision demands.
ValidDecision(d) ==
  CASE d.status = "admitted" -> d.action # None /\ d.equivalent = None /\ d.reason = None
    [] d.status = "deduplicated" -> d.action # None /\ d.equivalent # None /\ d.reason = None
    [] d.status = "rejected" -> d.action = None /\ d.equivalent = None /\ d.reason # None

\* What the constructor of an admission receipt demands.
ValidReceipt(ordering, r) ==
  IF r.status = "rejected"
  THEN r.rejection # None /\ r.decisions = <<>> /\ r.next.tick = r.prior.tick + 1
  ELSE /\ r.rejection = None /\ r.decisions # <<>>
       /\ Len(r.decisions) = r.next.tick - r.prior.tick
       /\ \A i \in DOMAIN r.decisions : r.decisions[i].tick = r.prior.tick + i
       /\ ordering = "canonical_independent" =>
            \A i, j \in DOMAIN r.decisions :
              i < j => Rank[r.decisions[i].proposal] < Rank[r.decisions[j].proposal]

----------------------------------------------------------------------------
(* Steps *)

InitOrchestration ==
  /\ taken = {}
  /\ \E deps \in Graphs :
       /\ ValidRegistry(deps, [o \in Obligations |-> "unsatisfied"])
       /\ orch = [deps |-> deps, status |-> [o \in Obligations |-> "unsatisfied"],
                  known |-> [k \in StateKeys |-> NoRecord],
                  tick |-> 0, history |-> <<>>, owners |-> <<>>]

OccurrenceAdmissions(receipt) ==
  {[occurrence |-> d.proposal.occurrence, action |-> d.action, tick |-> d.tick] :
     d \in {e \in Range(receipt.decisions) :
              e.status = "admitted" /\ e.proposal.occurrence # None}}

\* admit_batch, and the host keeps the state it returns.
Admit(b) ==
  /\ orch.tick < MaxTick
  /\ LET receipt == AdmitBatch(orch, b) IN
       /\ orch' = receipt.next
       /\ taken' = taken \cup OccurrenceAdmissions(receipt)

\* ObligationRegistry.with_status; a registry that is not valid raises.
WithStatus(o, s) ==
  LET status == [orch.status EXCEPT ![o] = s] IN
  /\ ValidRegistry(orch.deps, status)
  /\ orch' = [orch EXCEPT !.status = status]
  /\ UNCHANGED taken

\* The host replaces a record of the epistemic state.
Learn(k, record) ==
  LET known == [orch.known EXCEPT ![k] = record] IN
  /\ ValidKnowledge(known)
  /\ orch' = [orch EXCEPT !.known = known]
  /\ UNCHANGED taken

NextOrchestration ==
  \/ \E b \in Batches : Admit(b)
  \/ \E o \in Obligations, s \in Statuses : WithStatus(o, s)
  \/ \E k \in StateKeys, r \in Records : Learn(k, r)

SpecOrchestration == InitOrchestration /\ [][NextOrchestration]_orchVars
----------------------------------------------------------------------------
(* Properties *)

\* The state stays within the limits its constructor checks, and its history
\* is the unbroken run of the latest ticks (OrchestrationState.__post_init__,
\* advance).
TypeOKOrchestration ==
  /\ orch.status \in [Obligations -> Statuses] /\ orch.known \in [StateKeys -> Records]
  /\ ValidRegistry(orch.deps, orch.status) /\ ValidKnowledge(orch.known)
  /\ orch.tick \in 0..(MaxTick + MaxBatch)
  /\ Len(orch.history) = Min({orch.tick, MaxHistory})
  /\ \A i \in DOMAIN orch.history : orch.history[i] = orch.tick - Len(orch.history) + i
  /\ Cardinality(DOMAIN orch.owners) <= MaxOwners

\* However batches are cut, rejected or repeated, and whatever the bounded
\* history has forgotten, an occurrence key is admitted once, and its owner is
\* the action it was admitted for (IBAE-ORCH-007).
OccurrenceOnce ==
  /\ \A x, y \in taken : x.occurrence = y.occurrence => x = y
  /\ DOMAIN orch.owners = {x.occurrence : x \in taken}
  /\ \A x \in taken : orch.owners[x.occurrence].action = x.action

(***************************************************************************)
(* What a batch means, without the loop: a proposal that passes the screen *)
(* is admitted when it is the first of its action, or, where replay is     *)
(* unsafe, the first of its unowned key while the keys before it leave a   *)
(* slot.                                                                   *)
(***************************************************************************)
Meaning(st, b) ==
  LET q          == OrderedProposals(b)
      passes(i)  == Screen(st, b.ordering, q[i]) = Passed
      safe(i)    == IsReplaySafe(Capabilities[q[i].capability])
      same(i)    == {j \in 1..(i - 1) : passes(j) /\ safe(j) /\ ActionId(st, q[j]) = ActionId(st, q[i])}
      before(i)  == {q[j].occurrence : j \in {k \in 1..(i - 1) : passes(k) /\ ~ safe(k)}}
                      \ DOMAIN st.owners
      claims(i)  == /\ q[i].occurrence \notin DOMAIN st.owners \cup before(i)
                    /\ Cardinality(DOMAIN st.owners) + Cardinality(before(i)) < MaxOwners
  IN [i \in DOMAIN q |->
        [status |-> CASE ~ passes(i) -> "rejected"
                      [] passes(i) /\ safe(i) -> IF same(i) = {} THEN "admitted" ELSE "deduplicated"
                      [] passes(i) /\ ~ safe(i) -> IF claims(i) THEN "admitted" ELSE "rejected",
         equivalent |-> IF passes(i) /\ safe(i) /\ same(i) # {} THEN q[Min(same(i))] ELSE None]]

\* At every state, the loop of admit_batch decides every batch as Meaning says,
\* a batch of independent proposals however it is arranged, and nothing it builds
\* on the way is refused by its own constructor.
AdmissionMeaning ==
  \A b \in Batches :
    LET r == AdmitBatch(orch, b) IN
      /\ ValidReceipt(b.ordering, r) /\ \A d \in Range(r.decisions) : ValidDecision(d)
      /\ r.status = "processed" =>
           [i \in DOMAIN r.decisions |->
              [status |-> r.decisions[i].status, equivalent |-> r.decisions[i].equivalent]]
           = Meaning(orch, b)
      /\ b.ordering = "canonical_independent" =>
           r = AdmitBatch(orch, [b EXCEPT !.proposals = Reverse(@)])

Admitted(receipt) == {d.action : d \in {e \in Range(receipt.decisions) : e.status = "admitted"}}

\* Following the advice to split a batch changes nothing that lasts: the two
\* parts of a declared sequence admit the same actions and leave the same owners
\* as the whole (RecoveryAction.SPLIT_BATCH).
SplitPreserves ==
  \A b \in Batches : \A n \in 1..(Len(b.proposals) - 1) :
    (b.ordering = "declared_sequence" /\ Len(b.proposals) <= MaxBatch) =>
      LET part(m, k) == [b EXCEPT !.proposals = SubSeq(@, m, k)]
          whole  == AdmitBatch(orch, b)
          first  == AdmitBatch(orch, part(1, n))
          second == AdmitBatch(first.next, part(n + 1, Len(b.proposals)))
      IN first.status = "processed" =>
           /\ second.next.owners = whole.next.owners
           /\ second.next.tick = whole.next.tick
           /\ Admitted(first) \cup Admitted(second) = Admitted(whole)

Ancestors(deps, o) == Reached(deps[o], deps)

\* No action is admitted for an obligation anything of whose ancestry is
\* unsatisfied, or on state that rests, at any depth, on an unresolved record,
\* although each check of admission looks only one level deep.
AdmissionGrounded ==
  \A b \in Batches : \A d \in Range(AdmitBatch(orch, b).decisions) :
    d.status # "rejected" =>
      /\ \A o \in d.proposal.targets : \A a \in Ancestors(orch.deps, o) : orch.status[a] = "satisfied"
      /\ \A k \in DOMAIN d.action.digest : IsResolved(d.action.digest[k])
      /\ \A k \in DOMAIN d.action.digest : Dependencies(orch.known, k) \subseteq DOMAIN d.action.digest
=============================================================================
