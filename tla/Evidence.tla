------------------------------ MODULE Evidence ------------------------------
(***************************************************************************)
(* Compact evidence: the native reducer (EvidenceCore) behind its Python   *)
(* facade (EvidenceAccumulator), fed by a host in any order with receipts  *)
(* of runtime sessions, with unbound case records and with the compact     *)
(* receipts of other accumulators.  A call that raises changes nothing and *)
(* is no step, with one exception: see AggregateSummary.                   *)
(*                                                                         *)
(* The four ordered hash chains of the reducer are one sequence, chain, of *)
(* the items they commit to.  A receipt of a session is the kind of its    *)
(* outcome, what was asked, and the states before and after; the budgets   *)
(* that decide between outcomes are those of RuntimeCore and are left open *)
(* here.                                                                   *)
(***************************************************************************)
EXTENDS Naturals, FiniteSets, Sequences

CONSTANTS
  Sessions,
  Manifests,           \* orchestration -> (action -> [key, class, reuse])
  Commands,            \* the reads a host issues: records [action, key]
  Accumulators,
  Openings,            \* Accumulators -> [orch, manifest], as hosts open them
  StructuralCases,     \* unbound case records: [status, mismatches]
  MaxCases, MaxFailureDetails,
  MaxReceipts,         \* bound of the model: receipts the sessions issue
  None

Orchestrations == DOMAIN Manifests

Statuses == {"passed", "failed", "rejected"}

ASSUME EvidenceAssumption ==
  /\ MaxCases \in Nat \ {0} /\ MaxFailureDetails \in Nat \ {0} /\ MaxReceipts \in Nat
  /\ Openings \subseteq [Accumulators -> [orch : Orchestrations, manifest : Orchestrations]]
  /\ \A o \in Orchestrations : \A a \in DOMAIN Manifests[o] :
       Manifests[o][a].class \in {"pure_read", "snapshot_read"}
  /\ StructuralCases \subseteq [status : Statuses, mismatches : Nat]
  /\ \A c \in StructuralCases : c.status = "passed" => c.mismatches = 0

VARIABLES
  at,       \* the state of each session, counted in changes
  issued,   \* the sealed receipts the sessions have issued
  native,   \* the reducer of each accumulator
  facade    \* what the Python object keeps beside it

evidenceVars == <<at, issued, native, facade>>

----------------------------------------------------------------------------
(* Runtime receipts *)

Reads   == {"cold", "hit", "failed", "exhausted", "refused"}
Retries == {"retry", "retry_refused"}

RuntimeReceipts ==
  [session : Sessions, kind : Reads \cup Retries \cup {"lease"},
   action : {c.action : c \in Commands} \cup {None}, key : {c.key : c \in Commands} \cup {None},
   prior : Nat, result : Nat]

Accepted(r) == r.kind \in {"cold", "hit", "retry", "lease"}

\* A refused command leaves the session as it was; a read that fails, or finds the
\* execution budget spent, has consumed its request.
Moves(kind) == kind \notin {"refused", "retry_refused"}

Cached(s) == {r.key : r \in {q \in issued : q.session = s /\ q.kind = "cold"}}

Issue(s, kind, action, key) ==
  LET r == [session |-> s, kind |-> kind, action |-> action, key |-> key,
            prior |-> at[s], result |-> IF Moves(kind) THEN at[s] + 1 ELSE at[s]] IN
  /\ Cardinality(issued \cup {r}) <= MaxReceipts
  /\ issued' = issued \cup {r}
  /\ at' = [at EXCEPT ![s] = r.result]
  /\ UNCHANGED <<native, facade>>

ExecuteRead(s, c) ==
  \E kind \in Reads :
    /\ kind = "hit" => c.key \in Cached(s)
    /\ kind \in {"cold", "failed", "exhausted"} => c.key \notin Cached(s)
    /\ Issue(s, kind, c.action, c.key)

RecordRetry(s, c) == \E kind \in Retries : Issue(s, kind, c.action, None)

ApplyLease(s) == Issue(s, "lease", None, None)

----------------------------------------------------------------------------
(* The reducer *)

Counters(requests, executions, hits, retries, mismatches) ==
  [requests |-> requests, executions |-> executions, hits |-> hits, retries |-> retries,
   mismatches |-> mismatches]

One(condition) == IF condition THEN 1 ELSE 0

BudgetDelta(r) ==
  Counters(One(r.kind \in Reads \ {"refused"}), One(r.kind \in {"cold", "failed"}),
           One(r.kind = "hit"), One(r.kind = "retry"), 0)

CountOf(status) ==
  [passed |-> One(status = "passed"), failed |-> One(status = "failed"),
   rejected |-> One(status = "rejected"), total |-> 1]

CheckedAdd(x, y) == [f \in DOMAIN x |-> x[f] + y[f]]

RuntimeCase(r) ==
  [type |-> "case", source |-> r, status |-> IF Accepted(r) THEN "passed" ELSE "rejected",
   counters |-> BudgetDelta(r)]

StructuralCase(c) ==
  [type |-> "case", source |-> None, status |-> c.status,
   counters |-> Counters(0, 0, 0, 0, c.mismatches)]

\* Sequences, one after the other.
Joined(parts) ==
  LET joined[i \in 0..Len(parts)] == IF i = 0 THEN <<>> ELSE joined[i - 1] \o parts[i]
  IN joined[Len(parts)]

\* The cases a chain commits to, in order; a child stands for those of its own chain.
CasesOf(chain) ==
  Joined([i \in DOMAIN chain |->
            IF chain[i].type = "case" THEN <<chain[i]>> ELSE chain[i].cases])

ChildItem(receipt) == [type |-> "child", cases |-> CasesOf(receipt.chain)]

NewReducer(opening) ==
  [orch |-> opening.orch, manifest |-> opening.manifest, bound |-> TRUE,
   counts |-> [passed |-> 0, failed |-> 0, rejected |-> 0, total |-> 0],
   counters |-> Counters(0, 0, 0, 0, 0), cases |-> 0, children |-> 0,
   details |-> <<>>, firstFailure |-> None, observed |-> {}, boundary |-> None,
   chain |-> <<>>, summary |-> None, final |-> None]

Open(n) == n.summary = None /\ n.final = None

Continuous(n, r) ==
  n.boundary # None => n.boundary.session = r.session /\ n.boundary.final = r.prior

\* Mutant: the boundary keeps the state of its first receipt.
ExtendBoundaryStale(boundary, r) ==
  IF boundary = None
  THEN [session |-> r.session, initial |-> r.prior, final |-> r.result, first |-> r, last |-> r]
  ELSE [boundary EXCEPT !.last = r]

ExtendBoundary(boundary, r) ==
  IF boundary = None
  THEN [session |-> r.session, initial |-> r.prior, final |-> r.result, first |-> r, last |-> r]
  ELSE [boundary EXCEPT !.final = r.result, !.last = r]

HasRoom(n, cases) == n.counts.total + cases <= MaxCases

\* ingest_validated for a case whose checks have passed.
IngestCase(n, item) ==
  LET failed == item.status # "passed" IN
  [n EXCEPT
     !.counts = CheckedAdd(@, CountOf(item.status)),
     !.counters = CheckedAdd(@, item.counters),
     !.cases = @ + 1,
     !.chain = Append(@, item),
     !.boundary = IF item.source = None THEN @ ELSE ExtendBoundary(@, item.source),
     !.firstFailure = IF failed /\ @ = None THEN n.counts.total ELSE @,
     !.details = IF failed /\ Len(@) < MaxFailureDetails
                 THEN Append(@, [index |-> n.counts.total, item |-> item]) ELSE @]

\* Mutant: a child receipt counts as one case.
IngestReceiptAsCase(n, receipt) ==
  [n EXCEPT
     !.counts = CheckedAdd(@, CountOf("passed")),
     !.counters = CheckedAdd(@, receipt.counters),
     !.children = @ + 1,
     !.chain = Append(@, ChildItem(receipt)),
     !.observed = DOMAIN Manifests[n.manifest]]

\* ingest_validated for a child receipt whose checks have passed.
IngestReceipt(n, receipt) ==
  [n EXCEPT
     !.counts = CheckedAdd(@, receipt.counts),
     !.counters = CheckedAdd(@, receipt.counters),
     !.children = @ + 1,
     !.chain = Append(@, ChildItem(receipt)),
     !.observed = DOMAIN Manifests[n.manifest]]

\* EvidenceAuthorization::matches_runtime
MatchesRuntime(entry, r) ==
  \/ r.kind \in Retries
  \/ /\ r.kind \in Reads /\ r.key = entry.key
     /\ entry.reuse \/ r.kind # "hit"

\* A hit counts only after a cold execution of the same action in this stream:
\* the cache of the session does not know for which admission it was filled.
ColdBefore(n, r) == r.kind = "hit" => r.action \in n.observed

\* Mutant: any accepted receipt stands for an execution of its action.
ObserveAccepted(n, r) == IF Accepted(r) THEN n.observed \cup {r.action} ELSE n.observed

Observe(n, r) == IF r.kind = "cold" THEN n.observed \cup {r.action} ELSE n.observed

BoundaryShown(n) == IF n.bound /\ n.children = 0 THEN n.boundary ELSE None

\* Source-bound evidence is sealed when every authorized action was executed.
Covered(n) == n.bound => n.observed = DOMAIN Manifests[n.manifest]

Summary(n) ==
  [orch |-> n.orch, manifest |-> n.manifest, bound |-> n.bound, counts |-> n.counts,
   counters |-> n.counters, cases |-> n.cases, children |-> n.children, chain |-> n.chain,
   boundary |-> BoundaryShown(n)]

FailureCount(counts) == counts.failed + counts.rejected

Status(counts) ==
  IF FailureCount(counts) = 0 THEN "complete_no_failures" ELSE "complete_with_failures"

CompactReceipt(n, execution) ==
  [orch |-> n.orch, manifest |-> n.manifest, bound |-> n.bound, counts |-> n.counts,
   counters |-> n.counters, cases |-> n.cases, children |-> n.children, chain |-> n.chain,
   boundary |-> BoundaryShown(n), status |-> Status(n.counts), execution |-> execution,
   firstFailure |-> n.firstFailure, details |-> Len(n.details)]

----------------------------------------------------------------------------
(* The records of the protocol.  None is not one of them. *)

CaseCounts       == [passed : Nat, failed : Nat, rejected : Nat, total : Nat]
EvidenceCounters == [requests : Nat, executions : Nat, hits : Nat, retries : Nat, mismatches : Nat]

Cases == [type : {"case"}, source : RuntimeReceipts \cup {None}, status : Statuses,
          counters : EvidenceCounters]
Items == Cases \cup [type : {"child"}, cases : Seq(Cases)]

Boundaries == [session : Sessions, initial : Nat, final : Nat, first : RuntimeReceipts,
               last : RuntimeReceipts]

AggregateSummaries ==
  [orch : Orchestrations, manifest : Orchestrations, bound : BOOLEAN, counts : CaseCounts,
   counters : EvidenceCounters, cases : Nat, children : Nat, chain : Seq(Items),
   boundary : Boundaries \cup {None}]

CompactReceipts(executions) ==
  [orch : Orchestrations, manifest : Orchestrations, bound : BOOLEAN, counts : CaseCounts,
   counters : EvidenceCounters, cases : Nat, children : Nat, chain : Seq(Items),
   boundary : Boundaries \cup {None}, status : {"complete_no_failures", "complete_with_failures"},
   execution : executions, firstFailure : Nat \cup {None}, details : Nat]

ASSUME EvidenceNoneAssumption ==
  /\ None \notin Orchestrations /\ None \notin Nat
  /\ None \notin RuntimeReceipts /\ None \notin Boundaries /\ None \notin AggregateSummaries

----------------------------------------------------------------------------
(* The accumulator *)

NewFacade == [first |-> None, last |-> None, summary |-> None, final |-> None]

InitEvidence ==
  /\ at = [s \in Sessions |-> 0]
  /\ issued = {}
  /\ \E opening \in Openings : native = [a \in Accumulators |-> NewReducer(opening[a])]
  /\ facade = [a \in Accumulators |-> NewFacade]

RecordCase(a, c) ==
  /\ Open(native[a]) /\ HasRoom(native[a], 1)
  /\ native' = [native EXCEPT ![a] = IngestCase([@ EXCEPT !.bound = FALSE], StructuralCase(c))]
  /\ UNCHANGED <<at, issued, facade>>

\* The facade compares the receipt with the last one it has recorded, then the
\* reducer with its boundary; the facade notes the receipt when both accept it.
RecordRuntimeCase(a, r) ==
  LET n == native[a] IN
  /\ r.kind # "lease"
  /\ facade[a].last # None =>
       r.session = facade[a].last.session /\ r.prior = facade[a].last.result
  /\ Open(n)
  /\ r.action \in DOMAIN Manifests[n.manifest]
  /\ MatchesRuntime(Manifests[n.manifest][r.action], r)
  /\ ColdBefore(n, r)
  /\ HasRoom(n, 1)
  /\ Continuous(n, r)
  /\ native' = [native EXCEPT ![a] =
       IngestCase([@ EXCEPT !.observed = Observe(n, r)], RuntimeCase(r))]
  /\ facade' = [facade EXCEPT ![a].first = IF @ = None THEN r ELSE @, ![a].last = r]
  /\ UNCHANGED <<at, issued>>

IngestChild(a, receipt) ==
  LET n == native[a] IN
  /\ receipt.bound
  /\ receipt.orch = n.orch /\ receipt.manifest = n.manifest
  /\ Open(n)
  /\ receipt.status = "complete_no_failures"
  /\ HasRoom(n, receipt.counts.total)
  /\ native' = [native EXCEPT ![a] = IngestReceipt(@, receipt)]
  /\ UNCHANGED <<at, issued, facade>>

\* The summary exposes runtime endpoints exactly when it shows a boundary, and a
\* boundary only for a stream of direct cases.
SummaryAdmitted(n, f) ==
  LET first == IF n.bound THEN f.first ELSE None
      last  == IF n.bound THEN f.last ELSE None
      shown == BoundaryShown(n)
  IN /\ n.cases + n.children \in 1..n.counts.total
     /\ IF shown = None THEN first = None /\ last = None
        ELSE /\ n.children = 0 /\ n.cases = n.counts.total
             /\ first = shown.first /\ last = shown.last

(***************************************************************************)
(* The reducer seals before the facade checks what it returned: where the  *)
(* check fails the call raises with the reducer sealed.                    *)
(***************************************************************************)
AggregateSummary(a) ==
  LET n == native[a] IN
  /\ facade[a].summary = None
  /\ n.summary = None => n.counts.total > 0 /\ Covered(n)
  /\ native' = [native EXCEPT ![a].summary = IF @ = None THEN Summary(n) ELSE @]
  /\ facade' = [facade EXCEPT ![a].summary =
                  IF SummaryAdmitted(n, facade[a]) THEN native'[a].summary ELSE @]
  /\ UNCHANGED <<at, issued>>

\* What the constructor of a compact receipt demands.
CompactAdmitted(r) ==
  LET failures == FailureCount(r.counts) IN
  /\ r.cases + r.children \in 1..r.counts.total /\ r.counts.total <= MaxCases
  /\ r.boundary # None => r.children = 0 /\ r.cases = r.counts.total
  /\ r.details = IF failures < MaxFailureDetails THEN failures ELSE MaxFailureDetails
  /\ IF failures = 0
     THEN r.firstFailure = None /\ r.status = "complete_no_failures" /\ r.counters.mismatches = 0
     ELSE r.firstFailure \in 0..(r.counts.total - 1) /\ r.status = "complete_with_failures"

\* The execution identity is bound once; a second call with the same one returns
\* the same receipt and with another one raises.
Finalize(a, execution) ==
  LET n == native[a] IN
  /\ facade[a].summary # None /\ facade[a].final = None
  /\ n.final # None => n.final.execution = execution
  /\ native' = [native EXCEPT ![a].final = IF @ = None THEN CompactReceipt(n, execution) ELSE @]
  /\ facade' = [facade EXCEPT ![a].final =
                  IF CompactAdmitted(native'[a].final) THEN native'[a].final ELSE @]
  /\ UNCHANGED <<at, issued>>

\* The details expand returns for a finalized accumulator: of those from the start
\* index on, the first ones.
Expand(a, start, max) ==
  LET details == native[a].details
      page[i \in 0..Len(details)] ==
        IF i = 0 THEN <<>>
        ELSE IF details[i].index >= start /\ Len(page[i - 1]) < max
        THEN Append(page[i - 1], details[i]) ELSE page[i - 1]
  IN page[Len(details)]
=============================================================================
