----------------------------- MODULE Governance -----------------------------
(***************************************************************************)
(* Tool governance over admitted batches: the wrapper that turns admitted  *)
(* decisions into tool admissions and a processed batch with all of its    *)
(* admissions into an orchestration receipt, whose manifest says what the  *)
(* evidence of the execution may contain.  The wrapper keeps no state; a   *)
(* call either returns a receipt or raises with a reason.                  *)
(***************************************************************************)
EXTENDS Orchestration

CONSTANTS Policy   \* tool permissions: tool name -> [class, mutation, reuse]

AuthorityClasses ==
  {"pure_read", "snapshot_read", "volatile_read", "idempotent_mutation", "non_idempotent_mutation"}

IsMutation(class) == class \in {"idempotent_mutation", "non_idempotent_mutation"}

CachedRead(class) == class \in {"pure_read", "snapshot_read"}

\* What the constructor of a permission demands.
ValidPermission(permission) ==
  /\ permission.class \in AuthorityClasses
  /\ permission.mutation => IsMutation(permission.class)
  /\ permission.reuse => CachedRead(permission.class)

GovernanceRejections ==
  {"AUTHORITY_ESCALATION", "UNKNOWN_TOOL_PERMISSION", "UNKNOWN_AUTHORITY", "TOOL_CLASS_MISMATCH",
   "MUTATION_NOT_PERMITTED", "DEPENDENCY_ID_REQUIRED", "OCCURRENCE_ID_REQUIRED",
   "OCCURRENCE_ID_FORBIDDEN", "MALFORMED_ACTION"}

ASSUME GovernanceAssumption ==
  None \notin GovernanceRejections /\ \A tool \in DOMAIN Policy : ValidPermission(Policy[tool])

----------------------------------------------------------------------------
(* Tool admission *)

\* The class a permission needs for the replay safety and the declared state of
\* a proposal; nothing fits a capability whose replay is proven safe.
FitsReplay(class, p) ==
  LET replay == Capabilities[p.capability].replay IN
  IF CachedRead(class)
  THEN /\ replay = "cacheable_read"
       /\ class = IF DependencyKeys(p) # {} THEN "snapshot_read" ELSE "pure_read"
  ELSE replay = "occurrence_sensitive"

\* The identity of the action is computed again, from the dependency state the
\* host names.
BindsAction(decision, p, dependency) ==
  decision.action =
    Action(p, dependency,
           IF IsReplaySafe(Capabilities[p.capability]) THEN None ELSE p.occurrence)

\* What the constructor of a tool admission receipt demands.
ValidToolAdmission(decision, p, dependency) ==
  /\ decision.status = "admitted" /\ decision.because = {}
  /\ decision.proposal = p
  /\ Capabilities[p.capability].available
  /\ BindsAction(decision, p, dependency)
  /\ FitsReplay(Policy[p.capability].class, p)
  /\ IsMutation(Policy[p.capability].class) => Policy[p.capability].mutation
  /\ CachedRead(Policy[p.capability].class) <=> p.occurrence = None

\* The verdict of admit_tool, first failure first; None when the tool is admitted.
ToolVerdict(decision, p, class, dependency, requester) ==
  IF requester # "deterministic_orchestrator" THEN "AUTHORITY_ESCALATION"
  ELSE IF p.capability \notin DOMAIN Policy THEN "UNKNOWN_TOOL_PERMISSION"
  ELSE IF class \notin AuthorityClasses THEN "UNKNOWN_AUTHORITY"
  ELSE IF class # Policy[p.capability].class THEN "TOOL_CLASS_MISMATCH"
  ELSE IF IsMutation(class) /\ ~ Policy[p.capability].mutation THEN "MUTATION_NOT_PERMITTED"
  ELSE IF dependency = None THEN "DEPENDENCY_ID_REQUIRED"
  ELSE IF ~ CachedRead(class) /\ p.occurrence = None THEN "OCCURRENCE_ID_REQUIRED"
  ELSE IF CachedRead(class) /\ p.occurrence # None THEN "OCCURRENCE_ID_FORBIDDEN"
  ELSE IF ~ ValidToolAdmission(decision, p, dependency) THEN "MALFORMED_ACTION"
  ELSE None

ToolAdmission(decision) ==
  [decision |-> decision, action |-> decision.action, tool |-> decision.proposal.capability,
   class |-> Policy[decision.proposal.capability].class,
   reuse |-> Policy[decision.proposal.capability].reuse]

\* ReceiptValidator.validate_tool_admission rebuilds the record from the decision
\* and the dependency state the record itself names.
ValidatesToolAdmission(record, decision) ==
  /\ record.tool \in DOMAIN Policy /\ record.class = Policy[record.tool].class
  /\ record.tool = decision.proposal.capability
  /\ ValidToolAdmission(decision, decision.proposal, record.action.digest)
  /\ record = ToolAdmission(decision)

----------------------------------------------------------------------------
(* Orchestration receipts *)

AdmittedDecisions(receipt) == {d \in Range(receipt.decisions) : d.status = "admitted"}

\* A duplicate names an earlier admitted proposal of the same action.
DuplicatesGrounded(receipt) ==
  \A i \in DOMAIN receipt.decisions :
    receipt.decisions[i].status = "deduplicated" =>
      \E j \in 1..(i - 1) : /\ receipt.decisions[j].status = "admitted"
                            /\ receipt.decisions[j].proposal = receipt.decisions[i].equivalent
                            /\ receipt.decisions[j].action = receipt.decisions[i].action

RuntimeCacheKey(tool) == <<tool.tool, tool.action.arguments, tool.action.digest>>

\* The entries the evidence of the orchestration is checked against.
Manifest(tools) ==
  {[action |-> t.action, key |-> RuntimeCacheKey(t), class |-> t.class, reuse |-> t.reuse] :
     t \in tools}

\* The action identities agree; alone, a mutant of AuthorizesExactly.
AuthorizesActions(receipt, tools) ==
  {t.action : t \in tools} = {d.action : d \in AdmittedDecisions(receipt)}

\* The tools authorize every admitted action, through the decision of this batch.
AuthorizesExactly(receipt, tools) ==
  /\ AuthorizesActions(receipt, tools)
  /\ \A t \in tools : t.decision \in AdmittedDecisions(receipt)

\* bind_orchestration returns a receipt; tools are valid tool admissions.
OrchestrationBinds(receipt, ordering, tools) ==
  /\ receipt.status = "processed"
  /\ \A s, t \in tools : s.action = t.action => s = t
  /\ \A d, e \in AdmittedDecisions(receipt) : d.action = e.action => d = e
  /\ DuplicatesGrounded(receipt)
  /\ AuthorizesExactly(receipt, tools)
  /\ (\E t \in tools : Capabilities[t.tool].replay = "occurrence_sensitive")
       => ordering = "declared_sequence"
  /\ \A m, n \in Manifest({t \in tools : CachedRead(t.class)}) : m.key = n.key => m = n

----------------------------------------------------------------------------
(* Properties *)

Governable(p) ==
  /\ p.capability \in DOMAIN Policy
  /\ LET permission == Policy[p.capability] IN
       /\ FitsReplay(permission.class, p)
       /\ IsMutation(permission.class) => permission.mutation

\* The tools the wrapper admits when the host asks as the runner does, with the
\* permission's class and the dependency state of the decision.
GovernedTools(receipt) ==
  {ToolAdmission(d) : d \in {e \in AdmittedDecisions(receipt) :
     ToolVerdict(e, e.proposal, IF e.proposal.capability \in DOMAIN Policy
                                THEN Policy[e.proposal.capability].class ELSE "pure_read",
                 e.action.digest, "deterministic_orchestrator") = None}}

\* The dependency states one record away from the one a decision is bound to.
NearbyDependencies(digest) ==
  {[digest EXCEPT ![k] = r] : k \in DOMAIN digest, r \in Records}

(***************************************************************************)
(* The two layers agree: whatever batch orchestration processes, it binds  *)
(* if and only if governance can authorize each of its admitted actions,   *)
(* with all of them and not with fewer; no action of it is authorized      *)
(* under another state of knowledge; the authorizations of a batch do not  *)
(* bind the same batch when it is submitted again; and the independent     *)
(* validator rebuilds each from its own decision and from no other         *)
(* (admit_tool, bind_orchestration, validate_tool_admission).              *)
(***************************************************************************)
AuthorizationsExact ==
  \A b \in Batches :
    LET first    == AdmitBatch(orch, b)
        second   == AdmitBatch(first.next, b)
        admitted == AdmittedDecisions(first)
        tools    == GovernedTools(first)
    IN first.status = "processed" =>
         /\ OrchestrationBinds(first, b.ordering, tools)
              <=> \A d \in admitted : Governable(d.proposal)
         /\ \A t \in tools : ~ OrchestrationBinds(first, b.ordering, tools \ {t})
         /\ \A d \in admitted : \A dependency \in NearbyDependencies(d.action.digest) \ {d.action.digest} :
              d.proposal.capability \in DOMAIN Policy =>
                ToolVerdict(d, d.proposal, Policy[d.proposal.capability].class, dependency,
                            "deterministic_orchestrator") # None
         /\ \A t \in tools, d \in admitted \cup AdmittedDecisions(second) :
              ValidatesToolAdmission(t, d) <=> t.decision = d
         /\ AdmittedDecisions(second) # {} => ~ OrchestrationBinds(second, b.ordering, tools)
=============================================================================
