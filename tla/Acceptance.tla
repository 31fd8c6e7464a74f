----------------------------- MODULE Acceptance -----------------------------
(***************************************************************************)
(* Governed acceptance over compact evidence: the wrapper binds a sealed   *)
(* summary to an execution receipt, the accumulator binds that execution   *)
(* to its compact receipt, and the supervisor asks for final acceptance.   *)
(* The wrapper keeps no state, so its calls are operators; a receipt is    *)
(* identified by what it binds.                                            *)
(***************************************************************************)
EXTENDS Evidence

CONSTANTS Foreign   \* an execution identity that is nobody's

----------------------------------------------------------------------------
(* Execution receipts *)

\* What the constructor of an execution receipt demands of its endpoints.
ValidEndpoints(first, last, transitions) ==
  /\ Accepted(first) /\ Accepted(last)
  /\ first.session = last.session
  /\ transitions = 1 => first = last
  /\ transitions > 1 => first # last
  /\ first.result <= last.result

\* bind_execution returns a receipt.
ExecutionBinds(o, summary) ==
  /\ summary.bound
  /\ summary.orch = o
  /\ summary.children = 0 /\ summary.cases = summary.counts.total
  /\ summary.boundary # None
  /\ ValidEndpoints(summary.boundary.first, summary.boundary.last, summary.counts.total)
  /\ summary.manifest = o

ExecutionReceipt(o, chain, transitions, boundary) ==
  [orch |-> o, manifest |-> o, chain |-> chain, transitions |-> transitions,
   boundary |-> boundary]

\* ReceiptValidator.validate_execution rebuilds the receipt from two runtime
\* receipts and what the record itself says of the stream between them.
ValidatesExecution(record, o, first, last) ==
  /\ ValidEndpoints(first, last, record.transitions)
  /\ record = ExecutionReceipt(o, record.chain, record.transitions,
                               [session |-> first.session, initial |-> first.prior,
                                final |-> last.result, first |-> first, last |-> last])

ExecutionReceipts ==
  [orch : Orchestrations, manifest : Orchestrations, chain : Seq(Items), transitions : Nat,
   boundary : Boundaries]

Summaries == {facade[a].summary : a \in Accumulators} \ {None}

Executions ==
  {ExecutionReceipt(s.orch, s.chain, s.counts.total, s.boundary) :
     s \in {t \in Summaries : ExecutionBinds(t.orch, t)}}

\* An execution receipt as it is presented: bound when both of its runtime
\* receipts are live ones, not when it was rebuilt from parsed copies.
Presented(e, bound) == [receipt |-> e, bound |-> bound]

ASSUME AcceptanceNoneAssumption ==
  /\ None \notin [receipt : ExecutionReceipts, bound : BOOLEAN]
  /\ None \notin CompactReceipts(ExecutionReceipts \cup {Foreign})

----------------------------------------------------------------------------
(* Finalization *)

GateKeys == {"compact_evidence_valid", "orchestration_receipt_valid", "execution_receipt_valid"}

PartialReasons == {"MISSING_ORCHESTRATION_RECEIPT", "MISSING_EXECUTION_RECEIPT",
                   "UNSATISFIED_ACCEPTANCE_GATES"}
Outcome(status, reason) == [status |-> status, reason |-> reason]
Reject(reason) == Outcome("rejected", reason)

Satisfied(gates, k) == k \in DOMAIN gates /\ gates[k].satisfied

\* A parsed copy of a compact receipt has the identity of the live one.
CompactId(c) == <<"compact", [c EXCEPT !.bound = None]>>
OrchestrationId(o) == <<"orchestration", o>>
ExecutionId(e) == <<"execution", e.receipt>>
ForeignId == <<"foreign", None>>   \* of a receipt of somebody else's

Missing(gates) == {k \in GateKeys : ~ Satisfied(gates, k)}

\* What the constructor of a partial receipt demands: the receipts its reason
\* implies, and no gate that rests on a receipt that is not there.
ValidPartial(reason, o, e, gates) ==
  /\ e # None => o # None /\ e.receipt.orch = o
  /\ DOMAIN gates \subseteq GateKeys
  /\ ~ Satisfied(gates, "compact_evidence_valid")
  /\ Satisfied(gates, "orchestration_receipt_valid") =>
       o # None /\ gates["orchestration_receipt_valid"].evidence = OrchestrationId(o)
  /\ Satisfied(gates, "execution_receipt_valid") =>
       e # None /\ gates["execution_receipt_valid"].evidence = ExecutionId(e)
  /\ \/ reason = "MISSING_ORCHESTRATION_RECEIPT" /\ o = None
     \/ reason = "MISSING_EXECUTION_RECEIPT" /\ o # None /\ e = None
     \/ reason = "UNSATISFIED_ACCEPTANCE_GATES" /\ e # None /\ Missing(gates) # {}

Partial(reason, o, e, c, gates) ==
  IF c = None /\ ValidPartial(reason, o, e, gates) THEN Outcome("partial", reason)
  ELSE Reject("INVALID_BOUND_RECEIPT")

\* Mutant: a parsed copy binds like the live receipt.
CompactAnySource(o, e, c) ==
  /\ c.status = "complete_no_failures"
  /\ c.children = 0 /\ c.cases = c.counts.total
  /\ c.orch = o /\ c.execution = e
  /\ c.manifest = e.manifest /\ c.chain = e.chain
  /\ c.counts.total = e.transitions /\ c.boundary = e.boundary

\* _validate_compact_evidence_binding
CompactBinds(o, e, c) ==
  /\ c.status = "complete_no_failures"
  /\ c.bound
  /\ c.children = 0 /\ c.cases = c.counts.total
  /\ c.orch = o /\ c.execution = e
  /\ c.manifest = e.manifest /\ c.chain = e.chain
  /\ c.counts.total = e.transitions /\ c.boundary = e.boundary

\* What the constructor of a final acceptance receipt demands.
ValidFinal(o, e, c, gates) ==
  /\ e.receipt.orch = o
  /\ e.bound
  /\ DOMAIN gates = GateKeys /\ Missing(gates) = {}
  /\ CompactBinds(o, e.receipt, c)
  /\ gates["compact_evidence_valid"].evidence = CompactId(c)
  /\ gates["orchestration_receipt_valid"].evidence = OrchestrationId(o)
  /\ gates["execution_receipt_valid"].evidence = ExecutionId(e)

\* ReceiptValidator.validate_partial and validate_final: a record of these gates
\* is rebuilt from the receipts presented beside it.
ValidatesPartial(reason, o, e, gates) == ValidPartial(reason, o, e, gates)
ValidatesFinal(o, e, c, gates) == e # None /\ c # None /\ ValidFinal(o, e, c, gates)

\* GovernanceWrapper.finalize
FinalizeTask(o, e, c, gates, requester) ==
  IF requester # "openai_supervisor" THEN Reject("AUTHORITY_ESCALATION")
  ELSE IF DOMAIN gates \ GateKeys # {} THEN Reject("UNKNOWN_ACCEPTANCE_GATE")
  ELSE IF o = None THEN
    IF e # None THEN Reject("INVALID_BOUND_RECEIPT")
    ELSE Partial("MISSING_ORCHESTRATION_RECEIPT", o, e, c, gates)
  ELSE IF e = None THEN Partial("MISSING_EXECUTION_RECEIPT", o, e, c, gates)
  ELSE IF e.receipt.orch # o THEN Reject("INVALID_BOUND_RECEIPT")
  ELSE IF Missing(gates) # {}
    THEN Partial("UNSATISFIED_ACCEPTANCE_GATES", o, e, c, gates)
  ELSE IF c # None /\ ValidFinal(o, e, c, gates) THEN Outcome("accepted", None)
  ELSE Reject("INVALID_BOUND_RECEIPT")

----------------------------------------------------------------------------
(* Steps *)

Receipts == {facade[a].final : a \in Accumulators} \ {None}

NextEvidence ==
  \/ \E s \in Sessions, c \in Commands : ExecuteRead(s, c)
  \/ \E s \in Sessions, c \in Commands : RecordRetry(s, c)
  \/ \E s \in Sessions : ApplyLease(s)
  \/ \E a \in Accumulators, c \in StructuralCases : RecordCase(a, c)
  \/ \E a \in Accumulators, r \in issued : RecordRuntimeCase(a, r)
  \/ \E a \in Accumulators, receipt \in Receipts : IngestChild(a, receipt)
  \/ \E a \in Accumulators : AggregateSummary(a)
  \/ \E a \in Accumulators, e \in Executions \cup {Foreign} : Finalize(a, e)

SpecEvidence == InitEvidence /\ [][NextEvidence]_evidenceVars
----------------------------------------------------------------------------
(* Properties *)

Having(cases, status) == {i \in DOMAIN cases : cases[i].status = status}

Sum(cases, f) ==
  LET sum[i \in 0..Len(cases)] == IF i = 0 THEN 0 ELSE sum[i - 1] + cases[i].counters[f]
  IN sum[Len(cases)]

Failures(cases) == {i \in DOMAIN cases : cases[i].status # "passed"}

(***************************************************************************)
(* Whatever was ingested, refused and composed, the totals are those of    *)
(* the cases the chains commit to, the first failure and the retained      *)
(* details are the earliest ones, and paging through expand finds each of  *)
(* them at its own index (IBAE-EVID-003, IBAE-EVID-004).                   *)
(***************************************************************************)
AccountingExact ==
  \A a \in Accumulators :
    LET n     == native[a]
        cases == CasesOf(n.chain)
        kept  == {i \in Failures(cases) : Cardinality({j \in Failures(cases) : j < i}) < MaxFailureDetails}
    IN /\ n.counts.total = Len(cases) /\ n.counts.total <= MaxCases
       /\ \A s \in Statuses : n.counts[s] = Cardinality(Having(cases, s))
       /\ \A f \in DOMAIN n.counters : n.counters[f] = Sum(cases, f)
       /\ n.firstFailure = IF Failures(cases) = {} THEN None
                           ELSE (CHOOSE i \in Failures(cases) : \A j \in Failures(cases) : i <= j) - 1
       /\ \A i \in DOMAIN cases :
            Expand(a, i - 1, 1) =
              LET later == {j \in kept : j >= i} IN
              IF later = {} THEN <<>>
              ELSE LET j == CHOOSE j \in later : \A k \in later : j <= k
                   IN <<[index |-> j - 1, item |-> cases[j]]>>

(***************************************************************************)
(* Evidence that claims live sources contains, for every action its        *)
(* manifest authorizes, an accepted cold execution of that very action     *)
(* and key: neither a cache filled for another admission nor a retry nor a *)
(* failed read passes for one; every hit it contains follows one, or a     *)
(* child that does (EVIDENCE_PROTOCOL.md, cold provenance).                *)
(***************************************************************************)
CoverageReal ==
  \A s \in Summaries :
    s.bound =>
      LET cases  == CasesOf(s.chain)
          colds(a, k) == {i \in DOMAIN cases : /\ cases[i].source.kind = "cold" /\ cases[i].source.action = a
                                               /\ cases[i].source.key = k}
      IN /\ \A a \in DOMAIN Manifests[s.manifest] : colds(a, Manifests[s.manifest][a].key) # {}
         /\ \A i \in DOMAIN cases : cases[i].source \in issued
         /\ \A i \in DOMAIN cases : cases[i].source.kind = "hit" =>
              \E j \in colds(cases[i].source.action, cases[i].source.key) : j < i

\* The runtime receipts recorded into a stream itself, in order.
DirectSources(chain) ==
  Joined([i \in DOMAIN chain |->
            IF chain[i].type = "case" /\ chain[i].source # None THEN <<chain[i].source>>
            ELSE <<>>])

(***************************************************************************)
(* The runtime receipts of a stream are an unbroken stretch of the life of *)
(* one session: no change of state between its first and last receipt is   *)
(* left out; reducer and facade hold the same ends of it, also after calls *)
(* that were refused on one side or the other; what was sealed is what is  *)
(* there, and no finalized receipt is refused by the facade.               *)
(***************************************************************************)
HistoryUnbroken ==
  \A a \in Accumulators :
    LET n       == native[a]
        sources == DirectSources(n.chain)
        stretch == {r \in issued : /\ r.session = sources[1].session /\ r.prior # r.result
                                   /\ r.prior >= sources[1].prior
                                   /\ r.result <= sources[Len(sources)].result}
    IN /\ sources = <<>> => n.boundary = None /\ facade[a].first = None
       /\ sources # <<>> =>
            /\ \A r \in stretch : \E i \in DOMAIN sources : sources[i] = r
            /\ n.boundary = [session |-> sources[1].session, initial |-> sources[1].prior,
                             final |-> sources[Len(sources)].result,
                             first |-> sources[1], last |-> sources[Len(sources)]]
            /\ facade[a].first = sources[1] /\ facade[a].last = sources[Len(sources)]
       /\ n.summary # None => n.summary = Summary(n)
       /\ n.final = facade[a].final
       /\ n.final # None => n.final.chain = n.summary.chain

\* The evidence a supervisor can point to: live receipts and parsed copies.
Presentable == Receipts \cup {[c EXCEPT !.bound = FALSE] : c \in Receipts}

Gate(satisfied, evidence) == [satisfied |-> satisfied, evidence |-> evidence]

RightGates(o, e, c) ==
  [k \in GateKeys |->
     Gate(TRUE, CASE k = "compact_evidence_valid" -> IF c = None THEN ForeignId ELSE CompactId(c)
                  [] k = "orchestration_receipt_valid" -> OrchestrationId(o)
                  [] k = "execution_receipt_valid" -> IF e = None THEN ForeignId ELSE ExecutionId(e))]

\* Ways to be wrong about the gates.
Flawless == [gate |-> "none", how |-> "none"]
Flaws == [gate : GateKeys, how : {"unsatisfied", "foreign", "absent"}]
           \cup {[gate |-> "other", how |-> "unknown"], Flawless}

Spoil(gates, flaw) ==
  [k \in (DOMAIN gates \cup {flaw.gate}) \
         (IF flaw.how \in {"none", "absent"} THEN {flaw.gate} ELSE {}) |->
     IF k # flaw.gate THEN gates[k]
     ELSE IF flaw.how = "unsatisfied" THEN Gate(FALSE, None) ELSE Gate(TRUE, ForeignId)]

\* What final acceptance means, told from the receipts of the sessions: a live
\* accumulator of the orchestration and its manifest holds only accepted runtime
\* cases, every authorized action among them executed, and has been bound to the
\* execution of just these cases.
Earned(o, e, c) ==
  \E a \in Accumulators :
    LET cases == native[a].chain IN
    /\ c = facade[a].final
    /\ native[a].orch = o /\ native[a].manifest = o
    /\ \A i \in DOMAIN cases : /\ cases[i].type = "case" /\ cases[i].source \in issued
                               /\ Accepted(cases[i].source)
    /\ \A action \in DOMAIN Manifests[o] :
         \E i \in DOMAIN cases : cases[i].source.kind = "cold" /\ cases[i].source.action = action
    /\ c.execution = e /\ e.orch = o /\ e.chain = cases

\* The validator and the wrapper agree on a request: a final record of these gates
\* validates just when the wrapper accepts, a partial one just when it is the
\* wrapper's answer without compact evidence, reason included.
ValidatorAgrees(o, e, c, gates, outcome) ==
  /\ c # None => (ValidatesFinal(o, e, c, gates) <=> outcome.status = "accepted")
  /\ c = None => \A reason \in PartialReasons :
       ValidatesPartial(reason, o, e, gates) <=> outcome = Outcome("partial", reason)

(***************************************************************************)
(* In every state, of everything a supervisor could present, the wrapper   *)
(* accepts exactly what has been earned, with exactly the right gates, and *)
(* what it calls partial never carries a compact receipt; the independent  *)
(* validator rebuilds exactly the wrapper's decisions, and an execution    *)
(* receipt from its own two runtime receipts only (GovernanceWrapper,      *)
(* ReceiptValidator).  With neither execution nor evidence the request is  *)
(* the same in all states and is looked at in the first ones.              *)
(***************************************************************************)
AcceptanceEarned ==
  /\ \A o \in Orchestrations, c \in Presentable \cup {None},
        e \in {Presented(x, bound) : x \in Executions, bound \in BOOLEAN} \cup {None} :
       LET right == RightGates(o, e, c)
           earned == e # None /\ c # None /\ e.bound /\ Earned(o, e.receipt, c)
       IN e # None \/ c # None \/ issued = {} =>
            /\ \A flaw \in Flaws :
                 LET gates   == Spoil(right, flaw)
                     outcome == FinalizeTask(o, e, c, gates, "openai_supervisor")
                 IN /\ outcome.status \in
                         IF flaw = Flawless /\ earned THEN {"accepted"}
                         ELSE IF c = None THEN {"partial", "rejected"} ELSE {"rejected"}
                    /\ ValidatorAgrees(o, e, c, gates, outcome)
            /\ FinalizeTask(None, None, c, right, "openai_supervisor").status = "rejected"
            /\ FinalizeTask(o, e, c, right, "local_candidate_worker").status = "rejected"
  /\ \A e \in Executions, o \in Orchestrations : \A first, last \in issued :
       ValidatesExecution(e, o, first, last)
         <=> o = e.orch /\ first = e.boundary.first /\ last = e.boundary.last

\* aggregate_summary() seals ingestion and returns the summary: a reducer that is
\* sealed has a summary the host can read (EVIDENCE_PROTOCOL.md).
SealReturnsSummary ==
  \A a \in Accumulators : native[a].summary # None => facade[a].summary # None
=============================================================================
