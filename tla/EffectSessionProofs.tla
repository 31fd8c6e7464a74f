-------------------------- MODULE EffectSessionProofs --------------------------
(***************************************************************************)
(* Machine-checked proofs about EffectSession, for every set of cells, any *)
(* signed range and every set of profiles the code admits.                 *)
(*                                                                         *)
(* EffectInv adds to the invariants of EffectSession what they rest on:    *)
(* every seal names a declared occurrence (SealsDeclared), and the witness *)
(* of an occurrence exists exactly when it has been attempted              *)
(* (AttemptsWitnessed).                                                    *)
(***************************************************************************)
EXTENDS EffectSession, TLAPS, FiniteSetTheorems, SequenceTheorems

SealsDeclared == \A a \in 1..Len(approvals) : approvals[a].entry \in Indices

AttemptsWitnessed ==
  \A i \in Indices :
    /\ entry[i].attempts = 0 <=> entry[i].witness.known = "none"
    /\ entry[i].status = "pending" => entry[i].attempts = 0
    /\ entry[i].status \notin {"pending", "cancelled"} => entry[i].attempts > 0

-----------------------------------------------------------------------------
(* Facts about the operators. *)

(***************************************************************************)
(* The occurrences of a task are the entries of its profile.               *)
(***************************************************************************)
LEMMA DeclaredEntry ==
  ASSUME TypeOKEffects, NEW i \in Indices
  PROVE  /\ profile \in Profiles /\ profile \in Profile
         /\ i \in 1..Len(profile.entries)
         /\ Declared(i) \in Declaration
         /\ Declared(i).key \in Cells
         /\ entry[i] \in Occurrence
<1>1. profile # None /\ profile \in Profiles /\ i \in 1..Len(profile.entries)
  BY DEF TypeOKEffects, Indices
<1>2. profile \in Profile
  BY <1>1, EffectAssumption
<1>3. profile.entries \in Seq(Declaration)
  BY <1>2 DEF Profile
<1>4. profile.entries[i] \in Declaration
  BY <1>1, <1>3, ElementOfSeq
<1>. QED
  BY <1>1, <1>2, <1>4 DEF TypeOKEffects, Declared, Declaration

(***************************************************************************)
(* What an attempt makes of an occurrence: one attempt more, a witness     *)
(* that says whether the effect happened, and a status that does not claim *)
(* more than the planned outcome lets the caller know.                     *)
(***************************************************************************)
LEMMA AttemptedOccurrence ==
  ASSUME TypeOKEffects, NEW i \in Indices, NEW kind, Attemptable(kind, i)
  PROVE  /\ Attempted(i) \in Occurrence
         /\ Attempted(i).attempts = entry[i].attempts + 1
         /\ Attempted(i).cancel = FALSE
         /\ Attempted(i).event = entry[i].event
         /\ Applies(i) => /\ Attempted(i).status \in {"applied", "ambiguous"}
                          /\ Attempted(i).witness.known \in {"applied", "unknown"}
         /\ ~Applies(i) => /\ Attempted(i).status \in {"not_applied", "ambiguous"}
                           /\ Attempted(i).witness.known = "not_applied"
<1>. DEFINE was == cells[Declared(i).key]
            w == IF ~Applies(i) THEN [known |-> "not_applied", value |-> was]
                 ELSE IF Outcome(i) = "ambiguous_unknown"
                 THEN [known |-> "unknown", value |-> None]
                 ELSE [known |-> "applied", value |-> After(i)]
            s == IF ~Matches(i) \/ Outcome(i) = "fail_before" THEN "not_applied"
                 ELSE IF Outcome(i) = "success" THEN "applied" ELSE "ambiguous"
<1>1. entry[i] \in Occurrence /\ was \in Value
  BY DeclaredEntry DEF TypeOKEffects
<1>2. Applies(i) => After(i) \in Value
  BY DEF Attemptable
<1>3. w \in [known : {"none", "not_applied", "applied", "unknown"}, value : Value \cup {None}]
  BY <1>1, <1>2
<1>4. s \in Status
  BY DEF Status
<1>5. Attempted(i) = [entry[i] EXCEPT !.attempts = @ + 1, !.status = s, !.witness = w]
  BY DEF Attempted
<1>6. entry[i].cancel = FALSE
  BY <1>1 DEF Attemptable, Occurrence
<1>7. /\ Applies(i) => s \in {"applied", "ambiguous"} /\ w.known \in {"applied", "unknown"}
      /\ ~Applies(i) => s \in {"not_applied", "ambiguous"} /\ w.known = "not_applied"
  BY DEF Applies
<1>. HIDE DEF w, s
<1>8. /\ Attempted(i) \in Occurrence
      /\ Attempted(i).attempts = entry[i].attempts + 1
      /\ Attempted(i).cancel = entry[i].cancel
      /\ Attempted(i).event = entry[i].event
      /\ Attempted(i).status = s
      /\ Attempted(i).witness = w
  <2>. DEFINE e == entry[i]  n == entry[i].attempts + 1
  <2>1. /\ e \in Occurrence /\ n \in Nat
        /\ Attempted(i) = [e EXCEPT !.attempts = n, !.status = s, !.witness = w]
    BY <1>1, <1>5 DEF Occurrence
  <2>. HIDE DEF e, n
  <2>2. /\ Attempted(i) \in Occurrence /\ Attempted(i).attempts = n
        /\ Attempted(i).cancel = e.cancel /\ Attempted(i).event = e.event
        /\ Attempted(i).status = s /\ Attempted(i).witness = w
    BY <2>1, <1>3, <1>4 DEF Occurrence
  <2>. QED
    BY <2>2, Zenon DEF e, n
<1>. QED
  BY <1>6, <1>7, <1>8, Zenon

(***************************************************************************)
(* Reconciliation only replaces the status of an ambiguous occurrence by   *)
(* what its witness says, and leaves it ambiguous if that is unknown.      *)
(***************************************************************************)
LEMMA ReconciledOccurrence ==
  ASSUME NEW e \in Occurrence, e.status = "ambiguous"
  PROVE  /\ Reconciled(e) \in Occurrence
         /\ Reconciled(e).attempts = e.attempts /\ Reconciled(e).cancel = e.cancel
         /\ Reconciled(e).event = e.event /\ Reconciled(e).witness = e.witness
         /\ Reconciled(e).status =
              IF e.witness.known = "applied" THEN "reconciled_applied"
              ELSE IF e.witness.known = "not_applied" THEN "reconciled_not_applied"
              ELSE "ambiguous"
<1>1. CASE e.witness.known = "applied"
  BY <1>1 DEF Reconciled, Occurrence, Status
<1>2. CASE e.witness.known = "not_applied"
  BY <1>2 DEF Reconciled, Occurrence, Status
<1>3. CASE e.witness.known \notin {"applied", "not_applied"}
  BY <1>3 DEF Reconciled
<1>. QED
  BY <1>1, <1>2, <1>3

(***************************************************************************)
(* Cancellation marks the occurrence, and keeps what it does not know.     *)
(***************************************************************************)
LEMMA CancelledOccurrence ==
  ASSUME NEW e \in Occurrence
  PROVE  /\ Cancelled(e) \in Occurrence
         /\ Cancelled(e).attempts = e.attempts /\ Cancelled(e).cancel = TRUE
         /\ Cancelled(e).event = e.event /\ Cancelled(e).witness = e.witness
         /\ Cancelled(e).status = IF e.status = "ambiguous" THEN "ambiguous" ELSE "cancelled"
<1>. DEFINE s == IF e.status = "ambiguous" THEN "ambiguous" ELSE "cancelled"
<1>1. Cancelled(e) = [e EXCEPT !.cancel = TRUE, !.status = s] /\ s \in Status
  BY DEF Cancelled, Status, Occurrence
<1>. HIDE DEF s
<1>2. /\ Cancelled(e) \in Occurrence
      /\ Cancelled(e).attempts = e.attempts /\ Cancelled(e).cancel = TRUE
      /\ Cancelled(e).event = e.event /\ Cancelled(e).witness = e.witness
      /\ Cancelled(e).status = s
  BY <1>1 DEF Occurrence
<1>. QED
  BY <1>2, Zenon DEF s

(***************************************************************************)
(* Occurrence i becomes e, and nothing else of the journal changes.        *)
(***************************************************************************)
Replaces(i, e) ==
  /\ i \in Indices /\ e \in Occurrence
  /\ Indices' = Indices /\ profile' = profile
  /\ entry' \in [Indices -> Occurrence]
  /\ entry'[i].status = e.status /\ entry'[i].attempts = e.attempts
  /\ entry'[i].cancel = e.cancel /\ entry'[i].witness = e.witness
  /\ entry'[i].event = generation + 1
  /\ \A j \in Indices \ {i} : entry'[j] = entry[j]
  /\ generation' = generation + 1
  /\ approvals' \in Seq(Approval) /\ Len(approvals') = Len(approvals)
  /\ \A b \in 1..Len(approvals) : approvals'[b].entry = approvals[b].entry
  /\ pending' = 0
  /\ authority' = authority /\ lineage' = lineage

ReceiptOf(kind, i, e, spending, failure, before, after) ==
  [kind |-> kind, entry |-> i, status |-> e.status, applied |-> Applied(e),
   failure |-> failure, attempt |-> e.attempts, cancel |-> e.cancel,
   recovers |-> IF kind = "execute_effect" THEN 0 ELSE entry[i].event,
   before |-> before, after |-> after, counters |-> spending, tick |-> generation + 1]

(***************************************************************************)
(* What every command does to the ledger, whatever its kind: one           *)
(* occurrence changes, under the approval that names it, and the approval  *)
(* is used up.                                                             *)
(***************************************************************************)
LEMMA CommandReplaces ==
  ASSUME TypeOKEffects, SealsDeclared, NEW a \in 1..Len(approvals), NEW e \in Occurrence,
         NEW spending, NEW failure, NEW before, NEW after,
         CommitCommand(a, e, spending, failure, before, after)
  PROVE  /\ Replaces(approvals[a].entry, e)
         /\ used' = spending
         /\ receipt' = ReceiptOf(approvals[a].kind, approvals[a].entry, e, spending,
                                failure, before, after)
<1>. DEFINE i == approvals[a].entry
<1>1. i \in Indices /\ profile' = profile /\ Indices' = Indices
  BY DEF SealsDeclared, CommitCommand, Indices
<1>2. generation \in Nat /\ entry \in [Indices -> Occurrence]
  BY DEF TypeOKEffects
<1>3. generation' = generation + 1 /\ entry' = [entry EXCEPT ![i] = [e EXCEPT !.event = generation + 1]]
  BY DEF CommitCommand
<1>4. generation + 1 \in Nat
  BY <1>2
<1>. DEFINE f == [e EXCEPT !.event = generation + 1]
<1>5. /\ f \in Occurrence /\ f.status = e.status /\ f.attempts = e.attempts
      /\ f.cancel = e.cancel /\ f.witness = e.witness /\ f.event = generation + 1
  BY <1>4 DEF Occurrence
<1>6. /\ entry' \in [Indices -> Occurrence] /\ entry'[i] = f
      /\ \A j \in Indices \ {i} : entry'[j] = entry[j]
  <2>. HIDE DEF f
  <2>1. entry' = [entry EXCEPT ![i] = f]
    BY <1>3 DEF f
  <2>. QED
    BY <2>1, <1>1, <1>2, <1>5
<1>7. /\ approvals' \in Seq(Approval) /\ Len(approvals') = Len(approvals)
      /\ \A b \in 1..Len(approvals) : approvals'[b].entry = approvals[b].entry
  <2>1. approvals \in Seq(Approval) /\ approvals[a] \in Approval
    BY ElementOfSeq DEF TypeOKEffects
  <2>2. approvals' = [approvals EXCEPT ![a].used = TRUE]
    BY DEF CommitCommand
  <2>3. [approvals[a] EXCEPT !.used = TRUE] \in Approval
    BY <2>1 DEF Approval
  <2>4. [approvals[a] EXCEPT !.used = TRUE].entry = approvals[a].entry
    BY <2>1 DEF Approval
  <2>. DEFINE g == [approvals[a] EXCEPT !.used = TRUE]
  <2>5. approvals' = [approvals EXCEPT ![a] = g]
    BY <2>2
  <2>. HIDE DEF g
  <2>. QED
    BY <2>1, <2>3, <2>4, <2>5, ExceptSeq DEF g
<1>8. pending' = 0 /\ authority' = authority /\ lineage' = lineage /\ used' = spending
  BY DEF CommitCommand
<1>9. Replaces(i, e)
  BY <1>1, <1>3, <1>5, <1>6, <1>7, <1>8, Zenon DEF Replaces
<1>10. receipt' = ReceiptOf(approvals[a].kind, i, e, spending, failure, before, after)
  BY DEF CommitCommand, ReceiptOf
<1>. QED
  BY <1>8, <1>9, <1>10, Zenon

-----------------------------------------------------------------------------
(* The commands: on which occurrence, under which guard, with what effect. *)

AttemptOn(i, kind) ==
  /\ Attemptable(kind, i)
  /\ used.requests < profile.limits.requests
  /\ Replaces(i, Attempted(i))
  /\ cells' = IF Applies(i) THEN [cells EXCEPT ![Declared(i).key] = After(i)]
              ELSE cells
  /\ applied' = IF Applies(i) THEN Append(applied, i) ELSE applied
  /\ used' = [used EXCEPT !.requests = @ + 1, !.executions = @ + 1,
                          !.retries = @ + IF kind = "retry_effect" THEN 1 ELSE 0]
  /\ receipt' = ReceiptOf(kind, i, Attempted(i), used', AttemptFailure(i),
                         cells[Declared(i).key],
                         IF Attempted(i).status = "ambiguous" THEN None
                         ELSE cells'[Declared(i).key])

ReconcileOn(i) ==
  /\ entry[i].status = "ambiguous"
  /\ used.requests < profile.limits.requests
  /\ used.reconciliations < profile.limits.reconciliations
  /\ Replaces(i, Reconciled(entry[i]))
  /\ cells' = cells /\ applied' = applied
  /\ used' = [used EXCEPT !.requests = @ + 1, !.reconciliations = @ + 1]
  /\ receipt' = ReceiptOf("reconcile_effect", i, Reconciled(entry[i]), used',
                         IF Reconciled(entry[i]).status = "ambiguous"
                         THEN "reconciliation_unknown" ELSE "none",
                         None, Reconciled(entry[i]).witness.value)

CancelOn(i) ==
  /\ ~entry[i].cancel /\ entry[i].status \notin Completed
  /\ used.requests < profile.limits.requests
  /\ Replaces(i, Cancelled(entry[i]))
  /\ cells' = cells /\ applied' = applied
  /\ used' = [used EXCEPT !.requests = @ + 1]
  /\ receipt' = ReceiptOf("cancel_effect", i, Cancelled(entry[i]), used', "none", None, None)

(***************************************************************************)
(* An attempt runs only on an occurrence whose effect has not happened and *)
(* whose predecessors are terminal.                                        *)
(***************************************************************************)
LEMMA AttemptStep ==
  ASSUME TypeOKEffects, SealsDeclared, NEW a \in 1..Len(approvals), Attempt(a)
  PROVE  \E i \in Indices, kind \in {"execute_effect", "retry_effect"} : AttemptOn(i, kind)
<1>. DEFINE i == approvals[a].entry  kind == approvals[a].kind
<1>1. i \in Indices /\ kind \in {"execute_effect", "retry_effect"}
  BY DEF SealsDeclared, Attempt
<1>2. Attemptable(kind, i) /\ used.requests < profile.limits.requests
  BY <1>1 DEF Attempt, Presented, Admissible
<1>3. Attempted(i) \in Occurrence
  BY <1>1, <1>2, AttemptedOccurrence
<1>. DEFINE spending == [used EXCEPT !.requests = @ + 1, !.executions = @ + 1,
                           !.retries = @ + IF kind = "retry_effect" THEN 1 ELSE 0]
            before == cells[Declared(i).key]
            after == IF Attempted(i).status = "ambiguous" THEN None
                     ELSE cells'[Declared(i).key]
<1>4. CommitCommand(a, Attempted(i), spending, AttemptFailure(i), before, after)
  BY Zenon DEF Attempt
<1>5. /\ Replaces(i, Attempted(i)) /\ used' = spending
      /\ receipt' = ReceiptOf(kind, i, Attempted(i), spending, AttemptFailure(i), before, after)
  <2>. HIDE DEF spending, before, after
  <2>. QED
    BY <1>3, <1>4, CommandReplaces
<1>6. /\ cells' = IF Applies(i) THEN [cells EXCEPT ![Declared(i).key] = After(i)] ELSE cells
      /\ applied' = IF Applies(i) THEN Append(applied, i) ELSE applied
  BY Zenon DEF Attempt
<1>7. receipt' = ReceiptOf(kind, i, Attempted(i), used', AttemptFailure(i), before, after)
  <2>. HIDE DEF spending, before, after
  <2>. QED
    BY <1>5
<1>8. AttemptOn(i, kind)
  BY <1>2, <1>5, <1>6, <1>7 DEF AttemptOn
<1>. QED
  BY <1>1, <1>8

(***************************************************************************)
(* Reconciliation runs only on an ambiguous occurrence.                    *)
(***************************************************************************)
LEMMA ReconcileStep ==
  ASSUME TypeOKEffects, SealsDeclared, NEW a \in 1..Len(approvals), Reconcile(a)
  PROVE  \E i \in Indices : ReconcileOn(i)
<1>. DEFINE i == approvals[a].entry
<1>1. i \in Indices /\ entry[i] \in Occurrence
  BY DEF SealsDeclared, TypeOKEffects
<1>2. /\ entry[i].status = "ambiguous"
      /\ used.requests < profile.limits.requests
      /\ used.reconciliations < profile.limits.reconciliations
  BY DEF Reconcile, Presented, Admissible
<1>3. Reconciled(entry[i]) \in Occurrence
  BY <1>1, <1>2, ReconciledOccurrence
<1>. DEFINE spending == [used EXCEPT !.requests = @ + 1, !.reconciliations = @ + 1]
            failure == IF Reconciled(entry[i]).status = "ambiguous"
                       THEN "reconciliation_unknown" ELSE "none"
<1>4. /\ approvals[a].kind = "reconcile_effect"
      /\ CommitCommand(a, Reconciled(entry[i]), spending, failure, None,
                       Reconciled(entry[i]).witness.value)
  BY Zenon DEF Reconcile
<1>5. /\ Replaces(i, Reconciled(entry[i])) /\ used' = spending
      /\ receipt' = ReceiptOf("reconcile_effect", i, Reconciled(entry[i]), spending, failure,
                             None, Reconciled(entry[i]).witness.value)
  <2>. HIDE DEF spending, failure
  <2>. QED
    BY <1>3, <1>4, CommandReplaces
<1>6. cells' = cells /\ applied' = applied
  BY Zenon DEF Reconcile
<1>. QED
  BY <1>1, <1>2, <1>5, <1>6 DEF ReconcileOn

(***************************************************************************)
(* Cancellation runs only on an occurrence that is not completed and has   *)
(* not been cancelled before.                                              *)
(***************************************************************************)
LEMMA CancelStep ==
  ASSUME TypeOKEffects, SealsDeclared, NEW a \in 1..Len(approvals), Cancel(a)
  PROVE  \E i \in Indices : CancelOn(i)
<1>. DEFINE i == approvals[a].entry
<1>1. i \in Indices /\ entry[i] \in Occurrence
  BY DEF SealsDeclared, TypeOKEffects
<1>2. /\ ~entry[i].cancel /\ entry[i].status \notin Completed
      /\ used.requests < profile.limits.requests
  BY DEF Cancel, Presented, Admissible
<1>3. Cancelled(entry[i]) \in Occurrence
  BY <1>1, CancelledOccurrence
<1>. DEFINE spending == [used EXCEPT !.requests = @ + 1]
<1>4. /\ approvals[a].kind = "cancel_effect"
      /\ CommitCommand(a, Cancelled(entry[i]), spending, "none", None, None)
  BY Zenon DEF Cancel
<1>5. /\ Replaces(i, Cancelled(entry[i])) /\ used' = spending
      /\ receipt' = ReceiptOf("cancel_effect", i, Cancelled(entry[i]), spending,
                             "none", None, None)
  <2>. HIDE DEF spending
  <2>. QED
    BY <1>3, <1>4, CommandReplaces
<1>6. cells' = cells /\ applied' = applied
  BY Zenon DEF Cancel
<1>. QED
  BY <1>1, <1>2, <1>5, <1>6 DEF CancelOn

(***************************************************************************)
(* The empty journal of a task without a profile.                          *)
(***************************************************************************)
LEMMA Unattached ==
  ASSUME TypeOKEffects, SealsDeclared, profile = None
  PROVE  Indices = {} /\ applied = <<>> /\ approvals = <<>>
<1>1. Indices = {} /\ applied \in Seq({}) /\ approvals \in Seq(Approval)
  BY DEF TypeOKEffects, Indices
<1>2. \A n \in 1..Len(applied) : applied[n] \in {}
  BY <1>1, ElementOfSeq
<1>3. 1..Len(applied) = {} /\ 1..Len(approvals) = {}
  BY <1>1, <1>2 DEF SealsDeclared
<1>. QED
  BY <1>1, <1>3, LenProperties, EmptySeq

-----------------------------------------------------------------------------
(* Types. *)

(***************************************************************************)
(* A command keeps every variable in its type, the cells in particular.    *)
(***************************************************************************)
LEMMA CommandTypes ==
  ASSUME TypeOKEffects, SealsDeclared, NEW i, NEW e, Replaces(i, e),
         cells' \in [Cells -> Value], applied' \in Seq(Indices), used' \in Counters
  PROVE  TypeOKEffects' /\ SealsDeclared'
<1>1. /\ authority' \in [epoch : Nat, revoked : BOOLEAN]
      /\ lineage' \in {"uninitialized", "ready", "transitioning"}
      /\ profile' \in Profiles \cup {None}
      /\ entry' \in [Indices' -> Occurrence]
      /\ applied' \in Seq(Indices')
  BY Zenon DEF TypeOKEffects, Replaces
<1>2. generation' \in Nat /\ pending' \in 0..Len(approvals') /\ approvals' \in Seq(Approval)
  BY LenProperties DEF TypeOKEffects, Replaces
<1>3. SealsDeclared'
  BY DEF SealsDeclared, Replaces
<1>. QED
  BY <1>1, <1>2, <1>3, Zenon DEF TypeOKEffects

(***************************************************************************)
(* Every step of the effect session keeps the types, and seals only        *)
(* commands on declared occurrences.                                       *)
(***************************************************************************)
LEMMA NextTypes ==
  ASSUME TypeOKEffects, SealsDeclared, [NextEffects]_effectVars
  PROVE  TypeOKEffects' /\ SealsDeclared'
<1>1. CASE LineageMoves
  BY <1>1 DEF LineageMoves, TypeOKEffects, SealsDeclared, ledgerVars, Indices
<1>2. ASSUME NEW p \in Profiles, Attach(p)
      PROVE  TypeOKEffects' /\ SealsDeclared'
  <2>1. /\ p \in Profile /\ p # None /\ profile = None /\ profile' = p
        /\ Indices = {} /\ Indices' = 1..Len(p.entries)
    BY <1>2, EffectAssumption DEF Attach, Indices
  <2>2. p.cells \in [Cells -> Value]
    BY <2>1 DEF Profile
  <2>3. [status |-> "pending", attempts |-> 0, cancel |-> FALSE, event |-> 0,
         witness |-> [known |-> "none", value |-> None]] \in Occurrence
    BY DEF Occurrence, Status
  <2>4. entry' \in [Indices' -> Occurrence]
    BY <1>2, <2>1, <2>3 DEF Attach
  <2>5. applied = <<>> /\ approvals = <<>>
    BY <2>1, Unattached
  <2>6. applied' \in Seq(Indices')
    BY <1>2, <2>5, EmptySeq DEF Attach
  <2>7. SealsDeclared'
    BY <1>2, <2>5, EmptySeq DEF Attach, SealsDeclared
  <2>. QED
    BY <1>2, <2>1, <2>2, <2>4, <2>6, <2>7 DEF Attach, TypeOKEffects
<1>3. CASE RevokeEffects
  <2>1. authority' \in [epoch : Nat, revoked : BOOLEAN]
    BY <1>3 DEF RevokeEffects, TypeOKEffects
  <2>. QED
    BY <1>3, <2>1, Zenon DEF RevokeEffects, TypeOKEffects, SealsDeclared, ledgerVars, Indices
<1>4. ASSUME NEW kind \in Kind, NEW i \in Indices, Authorize(kind, i)
      PROVE  TypeOKEffects' /\ SealsDeclared'
  <2>1. profile' = profile /\ Indices' = Indices
    BY <1>4, Zenon DEF Authorize, ledgerVars, Indices
  <2>2. Seal(kind, i) \in Approval /\ Seal(kind, i).entry = i
    <3>1. i \in Nat \ {0}
      BY DEF Indices
    <3>. QED
      BY <3>1 DEF Seal, Approval, TypeOKEffects
  <2>3. /\ Retired \in Seq(Approval) /\ Len(Retired) = Len(approvals)
        /\ \A b \in 1..Len(approvals) : Retired[b].entry \in Indices
    <3>1. CASE pending = 0
      BY <3>1 DEF Retired, TypeOKEffects, SealsDeclared
    <3>2. CASE pending # 0
      <4>1. approvals \in Seq(Approval) /\ pending \in 1..Len(approvals)
        BY <3>2, LenProperties DEF TypeOKEffects
      <4>2. approvals[pending] \in Approval /\ approvals[pending].entry \in Indices
        BY <4>1, ElementOfSeq DEF SealsDeclared
      <4>. DEFINE g == [approvals[pending] EXCEPT !.used = TRUE]
      <4>3. g \in Approval /\ g.entry = approvals[pending].entry
        BY <4>2 DEF Approval
      <4>4. Retired = [approvals EXCEPT ![pending] = g]
        BY <3>2 DEF Retired
      <4>. HIDE DEF g
      <4>. QED
        BY <4>1, <4>2, <4>3, <4>4, ExceptSeq DEF SealsDeclared
    <3>. QED
      BY <3>1, <3>2
  <2>4. approvals' = Append(Retired, Seal(kind, i)) /\ pending' = Len(approvals) + 1
    BY <1>4 DEF Authorize
  <2>5. /\ approvals' \in Seq(Approval) /\ Len(approvals') = Len(approvals) + 1
        /\ \A b \in 1..Len(approvals') : approvals'[b].entry \in Indices
    BY <2>2, <2>3, <2>4, AppendProperties
  <2>6. pending' \in 0..Len(approvals')
    BY <2>4, <2>5, LenProperties DEF TypeOKEffects
  <2>7. SealsDeclared'
    BY <2>1, <2>5, Zenon DEF SealsDeclared
  <2>. QED
    BY <1>4, <2>1, <2>5, <2>6, <2>7, Zenon DEF Authorize, TypeOKEffects, ledgerVars
<1>5. ASSUME NEW a \in 1..Len(approvals), Attempt(a)
      PROVE  TypeOKEffects' /\ SealsDeclared'
  <2>1. PICK i \in Indices, kind \in {"execute_effect", "retry_effect"} : AttemptOn(i, kind)
    BY <1>5, AttemptStep, Zenon
  <2>2. cells' \in [Cells -> Value]
    BY <2>1, DeclaredEntry DEF TypeOKEffects, Attemptable, AttemptOn
  <2>3. applied' \in Seq(Indices)
    BY <2>1, AppendProperties DEF TypeOKEffects, AttemptOn
  <2>4. used' \in Counters
    <3>. DEFINE q == used.requests + 1  x == used.executions + 1
                y == used.retries + IF kind = "retry_effect" THEN 1 ELSE 0
    <3>1. used \in Counters /\ q \in Nat /\ x \in Nat /\ y \in Nat
      BY SMTT(30) DEF TypeOKEffects, Counters
    <3>2. used' = [used EXCEPT !.requests = q, !.executions = x, !.retries = y]
      BY <2>1 DEF AttemptOn
    <3>. HIDE DEF q, x, y
    <3>. QED
      BY <3>1, <3>2 DEF Counters
  <2>. QED
    BY <2>1, <2>2, <2>3, <2>4, CommandTypes DEF AttemptOn
<1>6. ASSUME NEW a \in 1..Len(approvals), Reconcile(a)
      PROVE  TypeOKEffects' /\ SealsDeclared'
  <2>1. PICK i \in Indices : ReconcileOn(i)
    BY <1>6, ReconcileStep, Zenon
  <2>2. used' \in Counters
    <3>. DEFINE q == used.requests + 1  x == used.reconciliations + 1
    <3>1. used \in Counters /\ q \in Nat /\ x \in Nat
      BY DEF TypeOKEffects, Counters
    <3>2. used' = [used EXCEPT !.requests = q, !.reconciliations = x]
      BY <2>1 DEF ReconcileOn
    <3>. HIDE DEF q, x
    <3>. QED
      BY <3>1, <3>2 DEF Counters
  <2>3. cells' \in [Cells -> Value] /\ applied' \in Seq(Indices)
    BY <2>1 DEF TypeOKEffects, ReconcileOn
  <2>. QED
    BY <2>1, <2>2, <2>3, CommandTypes DEF ReconcileOn
<1>7. ASSUME NEW a \in 1..Len(approvals), Cancel(a)
      PROVE  TypeOKEffects' /\ SealsDeclared'
  <2>1. PICK i \in Indices : CancelOn(i)
    BY <1>7, CancelStep, Zenon
  <2>2. used' \in Counters
    <3>1. used' = [used EXCEPT !.requests = @ + 1]
      BY <2>1 DEF CancelOn
    <3>. QED
      BY <3>1, SMTT(30) DEF TypeOKEffects, Counters
  <2>3. cells' \in [Cells -> Value] /\ applied' \in Seq(Indices)
    BY <2>1 DEF TypeOKEffects, CancelOn
  <2>. QED
    BY <2>1, <2>2, <2>3, CommandTypes DEF CancelOn
<1>8. CASE UNCHANGED effectVars
  BY <1>8, Zenon DEF effectVars, ledgerVars, TypeOKEffects, SealsDeclared, Indices
<1>. QED
  BY <1>1, <1>2, <1>3, <1>4, <1>5, <1>6, <1>7, <1>8 DEF NextEffects

-----------------------------------------------------------------------------
(* The invariant. *)

EffectInv ==
  /\ TypeOKEffects
  /\ SealsDeclared
  /\ AttemptsWitnessed
  /\ JournalTruthful
  /\ DeclaredOrder
  /\ WorldExplained
  /\ PendingDispatchable

Quiet == UNCHANGED <<profile, cells, entry, applied, used, generation, receipt>>

(***************************************************************************)
(* A step other than attachment and a command leaves journal and cells     *)
(* alone.                                                                  *)
(***************************************************************************)
LEMMA Steps ==
  ASSUME TypeOKEffects, SealsDeclared, [NextEffects]_effectVars
  PROVE  \/ Quiet
         \/ \E p \in Profiles : Attach(p)
         \/ \E i \in Indices, kind \in {"execute_effect", "retry_effect"} : AttemptOn(i, kind)
         \/ \E i \in Indices : ReconcileOn(i)
         \/ \E i \in Indices : CancelOn(i)
<1>1. CASE LineageMoves \/ RevokeEffects \/ UNCHANGED effectVars
           \/ \E kind \in Kind, i \in Indices : Authorize(kind, i)
  BY <1>1, Zenon DEF LineageMoves, RevokeEffects, Authorize, effectVars, ledgerVars, Quiet
<1>. QED
  BY <1>1, AttemptStep, ReconcileStep, CancelStep, Zenon DEF NextEffects

(***************************************************************************)
(* What has happened after an effect.                                      *)
(***************************************************************************)
LEMMA AppliedHappened ==
  ASSUME TypeOKEffects, NEW i \in Indices, NEW j, applied' = Append(applied, i)
  PROVE  Happened(j)' <=> Happened(j) \/ j = i
<1>1. /\ Len(applied) \in Nat /\ Len(applied') = Len(applied) + 1
      /\ \A n \in 1..Len(applied) : applied'[n] = applied[n]
      /\ applied'[Len(applied) + 1] = i
  BY AppendProperties, LenProperties DEF TypeOKEffects
<1>2. \A n \in 1..Len(applied') : n \in 1..Len(applied) \/ n = Len(applied) + 1
  BY <1>1
<1>3. Len(applied) + 1 \in 1..Len(applied') /\ 1..Len(applied) \subseteq 1..Len(applied')
  BY <1>1
<1>. QED
  BY <1>1, <1>2, <1>3, Zenon DEF Happened

(***************************************************************************)
(* Only what has been attempted can have happened.                         *)
(***************************************************************************)
LEMMA HappenedAttempted ==
  ASSUME TypeOKEffects, AttemptsWitnessed, JournalTruthful,
         NEW i \in Indices, Happened(i)
  PROVE  entry[i].attempts > 0
<1>1. entry[i] \in Occurrence
  BY DeclaredEntry
<1>2. entry[i].witness.known # "none"
  BY DEF JournalTruthful
<1>. QED
  BY <1>1, <1>2 DEF AttemptsWitnessed, Occurrence

(***************************************************************************)
(* No step makes the journal lie: an attempt is only made while the effect *)
(* has not happened, reconciliation follows a witness that is right, and   *)
(* what may have happened is not reported as cancelled.                    *)
(***************************************************************************)
LEMMA NextJournal ==
  ASSUME TypeOKEffects, SealsDeclared, AttemptsWitnessed, JournalTruthful,
         [NextEffects]_effectVars
  PROVE  AttemptsWitnessed' /\ JournalTruthful'
<1>1. CASE Quiet
  BY <1>1, Zenon DEF Quiet, AttemptsWitnessed, JournalTruthful, Happened, Indices
<1>2. ASSUME NEW p \in Profiles, Attach(p)
      PROVE  AttemptsWitnessed' /\ JournalTruthful'
  <2>1. Indices' = 1..Len(p.entries) /\ profile = None
    BY <1>2, EffectAssumption DEF Attach, Indices
  <2>2. applied' = <<>>
    BY <1>2, <2>1, Unattached DEF Attach
  <2>3. \A i \in Indices' : /\ entry'[i].status = "pending" /\ entry'[i].attempts = 0
                            /\ entry'[i].witness.known = "none"
    BY <1>2, <2>1 DEF Attach
  <2>4. \A i : ~Happened(i)'
    BY <2>2 DEF Happened
  <2>. QED
    BY <2>3, <2>4 DEF AttemptsWitnessed, JournalTruthful
<1>3. ASSUME NEW i \in Indices, NEW kind \in {"execute_effect", "retry_effect"},
             AttemptOn(i, kind)
      PROVE  AttemptsWitnessed' /\ JournalTruthful'
  <2>1. /\ Indices' = Indices
        /\ entry'[i].status = Attempted(i).status
        /\ entry'[i].attempts = Attempted(i).attempts
        /\ entry'[i].witness = Attempted(i).witness
        /\ \A j \in Indices \ {i} : entry'[j] = entry[j]
    BY <1>3 DEF AttemptOn, Replaces
  <2>2. /\ Attempted(i).attempts = entry[i].attempts + 1
        /\ Applies(i) => /\ Attempted(i).status \in {"applied", "ambiguous"}
                         /\ Attempted(i).witness.known \in {"applied", "unknown"}
        /\ ~Applies(i) => /\ Attempted(i).status \in {"not_applied", "ambiguous"}
                          /\ Attempted(i).witness.known = "not_applied"
    BY <1>3, AttemptedOccurrence DEF AttemptOn
  <2>3. entry[i].attempts \in Nat
    BY DeclaredEntry DEF Occurrence
  <2>4. ~Happened(i)
    <3>1. entry[i].status \in {"pending", "not_applied", "reconciled_not_applied"}
      BY <1>3 DEF AttemptOn, Attemptable
    <3>. QED
      BY <3>1 DEF JournalTruthful
  <2>5. \A j \in Indices : Happened(j)' <=> Happened(j) \/ (j = i /\ Applies(i))
    <3>1. CASE Applies(i)
      BY <1>3, <3>1, AppliedHappened DEF AttemptOn
    <3>2. CASE ~Applies(i)
      BY <1>3, <3>2 DEF AttemptOn, Happened
    <3>. QED
      BY <3>1, <3>2
  <2>6. AttemptsWitnessed'
    <3>1. entry'[i].attempts > 0
      BY <2>1, <2>2, <2>3
    <3>2. entry'[i].attempts # 0 /\ entry'[i].witness.known # "none"
          /\ entry'[i].status # "pending"
      BY <2>1, <2>2, <2>3
    <3>3. \A j \in Indices \ {i} :
            /\ entry'[j].attempts = 0 <=> entry'[j].witness.known = "none"
            /\ entry'[j].status = "pending" => entry'[j].attempts = 0
            /\ entry'[j].status \notin {"pending", "cancelled"} => entry'[j].attempts > 0
      BY <2>1, Zenon DEF AttemptsWitnessed
    <3>. QED
      BY <2>1, <3>1, <3>2, <3>3, Zenon DEF AttemptsWitnessed
  <2>7. JournalTruthful'
    <3>. DEFINE Truthful(j) ==
           /\ entry'[j].status \in {"applied", "reconciled_applied"} => Happened(j)'
           /\ entry'[j].status \in {"pending", "not_applied", "cancelled",
                                    "reconciled_not_applied"} => ~Happened(j)'
           /\ entry'[j].witness.known \in {"none", "not_applied"} => ~Happened(j)'
           /\ entry'[j].witness.known \in {"applied", "unknown"} => Happened(j)'
    <3>1. Truthful(i)
      <4>1. Happened(i)' <=> Applies(i)
        BY <2>4, <2>5
      <4>. QED
        BY <2>1, <2>2, <4>1
    <3>2. ASSUME NEW j \in Indices \ {i}  PROVE Truthful(j)
      <4>1. Happened(j)' <=> Happened(j)
        BY <2>5
      <4>2. entry'[j] = entry[j]
        BY <2>1
      <4>. QED
        BY <4>1, <4>2, Zenon DEF JournalTruthful
    <3>3. \A j \in Indices : Truthful(j)
      BY <3>1, <3>2
    <3>. QED
      BY <2>1, <3>3 DEF JournalTruthful
  <2>. QED
    BY <2>6, <2>7
<1>4. ASSUME NEW i \in Indices, NEW e,
             Replaces(i, e), applied' = applied,
             e.attempts = entry[i].attempts, e.witness = entry[i].witness,
             e.status # "pending",
             e.status \notin {"pending", "cancelled"} => entry[i].attempts > 0,
             e.status \in {"applied", "reconciled_applied"} => Happened(i),
             e.status \in {"not_applied", "cancelled", "reconciled_not_applied"} => ~Happened(i)
      PROVE  AttemptsWitnessed' /\ JournalTruthful'
  <2>1. /\ Indices' = Indices
        /\ entry'[i].status = e.status
        /\ entry'[i].attempts = entry[i].attempts
        /\ entry'[i].witness = entry[i].witness
        /\ \A j \in Indices \ {i} : entry'[j] = entry[j]
    BY <1>4 DEF Replaces
  <2>2. \A j : Happened(j)' <=> Happened(j)
    BY <1>4 DEF Happened
  <2>. DEFINE Good(j) ==
         /\ entry'[j].attempts = 0 <=> entry'[j].witness.known = "none"
         /\ entry'[j].status = "pending" => entry'[j].attempts = 0
         /\ entry'[j].status \notin {"pending", "cancelled"} => entry'[j].attempts > 0
         /\ entry'[j].status \in {"applied", "reconciled_applied"} => Happened(j)'
         /\ entry'[j].status \in {"pending", "not_applied", "cancelled",
                                  "reconciled_not_applied"} => ~Happened(j)'
         /\ entry'[j].witness.known \in {"none", "not_applied"} => ~Happened(j)'
         /\ entry'[j].witness.known \in {"applied", "unknown"} => Happened(j)'
  <2>3. Good(i)
    BY <1>4, <2>1, <2>2 DEF AttemptsWitnessed, JournalTruthful
  <2>4. ASSUME NEW j \in Indices \ {i}  PROVE Good(j)
    <3>1. entry'[j] = entry[j]
      BY <2>1
    <3>. QED
      BY <2>2, <3>1, Zenon DEF AttemptsWitnessed, JournalTruthful
  <2>5. \A j \in Indices : Good(j)
    BY <2>3, <2>4
  <2>. QED
    BY <2>1, <2>5 DEF AttemptsWitnessed, JournalTruthful
<1>5. ASSUME NEW i \in Indices, ReconcileOn(i)
      PROVE  AttemptsWitnessed' /\ JournalTruthful'
  <2>1. /\ entry[i].status = "ambiguous" /\ Replaces(i, Reconciled(entry[i]))
        /\ applied' = applied
    BY <1>5 DEF ReconcileOn
  <2>2. /\ Reconciled(entry[i]).attempts = entry[i].attempts
        /\ Reconciled(entry[i]).witness = entry[i].witness
        /\ Reconciled(entry[i]).status =
              IF entry[i].witness.known = "applied" THEN "reconciled_applied"
              ELSE IF entry[i].witness.known = "not_applied" THEN "reconciled_not_applied"
              ELSE "ambiguous"
    BY <2>1, DeclaredEntry, ReconciledOccurrence
  <2>3. entry[i].attempts > 0
    BY <2>1 DEF AttemptsWitnessed
  <2>4. /\ entry[i].witness.known = "applied" => Happened(i)
        /\ entry[i].witness.known = "not_applied" => ~Happened(i)
    BY DEF JournalTruthful
  <2>. QED
    BY <2>1, <2>2, <2>3, <2>4, <1>4
<1>6. ASSUME NEW i \in Indices, CancelOn(i)
      PROVE  AttemptsWitnessed' /\ JournalTruthful'
  <2>1. /\ entry[i].status \notin Completed /\ Replaces(i, Cancelled(entry[i]))
        /\ applied' = applied
    BY <1>6 DEF CancelOn
  <2>2. /\ Cancelled(entry[i]).attempts = entry[i].attempts
        /\ Cancelled(entry[i]).witness = entry[i].witness
        /\ Cancelled(entry[i]).status = IF entry[i].status = "ambiguous" THEN "ambiguous" ELSE "cancelled"
    BY DeclaredEntry, CancelledOccurrence
  <2>3. entry[i].status = "ambiguous" => entry[i].attempts > 0
    BY DEF AttemptsWitnessed
  <2>4. entry[i].status # "ambiguous" => ~Happened(i)
    <3>1. entry[i].status \in Status
      BY DeclaredEntry DEF Occurrence
    <3>2. entry[i].status # "ambiguous" =>
            entry[i].status \in {"pending", "not_applied", "cancelled", "reconciled_not_applied"}
      BY <2>1, <3>1 DEF Status, Completed
    <3>. QED
      BY <3>2 DEF JournalTruthful
  <2>. QED
    BY <2>1, <2>2, <2>3, <2>4, <1>4
<1>. QED
  BY <1>1, <1>2, <1>3, <1>5, <1>6, Steps

(***************************************************************************)
(* A terminal occurrence stays terminal, and only attempts on occurrences  *)
(* whose predecessors are terminal add to the number of attempts.          *)
(***************************************************************************)
LEMMA TerminalStays ==
  ASSUME TypeOKEffects, SealsDeclared, [NextEffects]_effectVars,
         NEW i \in Indices, SequenceTerminal(entry[i])
  PROVE  SequenceTerminal(entry'[i])
<1>1. CASE Quiet
  BY <1>1 DEF Quiet
<1>2. ASSUME NEW p \in Profiles, Attach(p)  PROVE FALSE
  BY <1>2 DEF Attach, Indices
<1>3. ASSUME NEW j \in Indices, NEW kind \in {"execute_effect", "retry_effect"},
             AttemptOn(j, kind)
      PROVE  SequenceTerminal(entry'[i])
  <2>1. j # i
    BY <1>3 DEF AttemptOn, Attemptable, SequenceTerminal, Completed
  <2>. QED
    BY <1>3, <2>1 DEF AttemptOn, Replaces
<1>4. ASSUME NEW j \in Indices, ReconcileOn(j)
      PROVE  SequenceTerminal(entry'[i])
  <2>1. j # i
    BY <1>4 DEF ReconcileOn, SequenceTerminal, Completed
  <2>. QED
    BY <1>4, <2>1 DEF ReconcileOn, Replaces
<1>5. ASSUME NEW j \in Indices, CancelOn(j)
      PROVE  SequenceTerminal(entry'[i])
  <2>1. j # i
    BY <1>5 DEF CancelOn, SequenceTerminal, Completed
  <2>. QED
    BY <1>5, <2>1 DEF CancelOn, Replaces
<1>. QED
  BY <1>1, <1>2, <1>3, <1>4, <1>5, Steps

(***************************************************************************)
(* Effects keep the declared order: an occurrence with an effect after it  *)
(* would be terminal, and a terminal one is not attempted.                 *)
(***************************************************************************)
LEMMA NextOrder ==
  ASSUME TypeOKEffects, SealsDeclared, AttemptsWitnessed, JournalTruthful, DeclaredOrder,
         [NextEffects]_effectVars
  PROVE  DeclaredOrder'
<1>1. CASE Quiet
  BY <1>1, Zenon DEF Quiet, DeclaredOrder, Indices
<1>2. ASSUME NEW p \in Profiles, Attach(p)
      PROVE  DeclaredOrder'
  <2>1. Indices' = 1..Len(p.entries) /\ profile = None
    BY <1>2, EffectAssumption DEF Attach, Indices
  <2>2. applied' = <<>>
    BY <1>2, <2>1, Unattached DEF Attach
  <2>3. \A i \in Indices' : entry'[i].attempts = 0
    BY <1>2, <2>1 DEF Attach
  <2>. QED
    BY <2>2, <2>3 DEF DeclaredOrder
<1>3. ASSUME NEW i \in Indices, NEW kind \in {"execute_effect", "retry_effect"},
             AttemptOn(i, kind)
      PROVE  DeclaredOrder'
  <2>1. /\ Indices' = Indices /\ \A j \in Indices \ {i} : entry'[j] = entry[j]
    BY <1>3 DEF AttemptOn, Replaces
  <2>2. \A j \in 1..(i - 1) : SequenceTerminal(entry[j])
    BY <1>3 DEF AttemptOn, Attemptable
  <2>3. Indices \subseteq Nat /\ \A j \in Indices : j < i => j \in 1..(i - 1)
    BY DEF Indices
  <2>4. ~SequenceTerminal(entry[i]) /\ ~Happened(i)
    BY <1>3 DEF AttemptOn, Attemptable, SequenceTerminal, Completed, JournalTruthful
  <2>5. \A j, k \in Indices' : j < k /\ entry'[k].attempts > 0 => SequenceTerminal(entry'[j])
    <3>1. SUFFICES ASSUME NEW j \in Indices, NEW k \in Indices, j < k, entry'[k].attempts > 0
                   PROVE  SequenceTerminal(entry[j])
      BY <2>1, TerminalStays, Zenon
    <3>2. CASE k = i
      BY <3>1, <3>2, <2>2, <2>3
    <3>3. CASE k # i
      BY <3>1, <3>3, <2>1 DEF DeclaredOrder
    <3>. QED
      BY <3>2, <3>3
  <2>6. \A m \in 1..Len(applied) : applied[m] \in Indices /\ applied[m] < i
    <3>1. SUFFICES ASSUME NEW m \in 1..Len(applied)
                   PROVE  applied[m] \in Indices /\ applied[m] < i
      OBVIOUS
    <3>2. applied[m] \in Indices /\ Happened(applied[m])
      BY ElementOfSeq DEF TypeOKEffects, Happened
    <3>3. entry[applied[m]].attempts > 0
      BY <3>2, HappenedAttempted
    <3>4. ~(i < applied[m])
      BY <3>2, <3>3, <2>4 DEF DeclaredOrder
    <3>5. applied[m] # i
      BY <3>2, <2>4
    <3>6. applied[m] \in Nat /\ i \in Nat
      BY <3>2, <2>3
    <3>. QED
      BY <3>2, <3>4, <3>5, <3>6
  <2>7. \A m, n \in 1..Len(applied') : m < n => applied'[m] < applied'[n]
    <3>1. CASE Applies(i)
      <4>1. /\ Len(applied) \in Nat /\ Len(applied') = Len(applied) + 1
            /\ \A n \in 1..Len(applied) : applied'[n] = applied[n]
            /\ applied'[Len(applied) + 1] = i
        BY <1>3, <3>1, AppendProperties, LenProperties DEF TypeOKEffects, AttemptOn
      <4>2. \A m, n \in 1..Len(applied) : m < n => applied[m] < applied[n]
        BY DEF DeclaredOrder
      <4>3. SUFFICES ASSUME NEW m \in 1..Len(applied'), NEW n \in 1..Len(applied'), m < n
                     PROVE  applied'[m] < applied'[n]
        OBVIOUS
      <4>4. m \in 1..Len(applied)
        BY <4>1, <4>3
      <4>5. CASE n \in 1..Len(applied)
        BY <4>1, <4>2, <4>3, <4>4, <4>5
      <4>6. CASE n = Len(applied) + 1
        BY <4>1, <4>4, <4>6, <2>6
      <4>. QED
        BY <4>1, <4>5, <4>6
    <3>2. CASE ~Applies(i)
      BY <1>3, <3>2 DEF AttemptOn, DeclaredOrder
    <3>. QED
      BY <3>1, <3>2
  <2>. QED
    BY <2>5, <2>7 DEF DeclaredOrder
<1>4. ASSUME NEW i \in Indices, NEW e, Replaces(i, e), applied' = applied,
             e.attempts = entry[i].attempts
      PROVE  DeclaredOrder'
  <2>1. /\ Indices' = Indices /\ \A j \in Indices : entry'[j].attempts = entry[j].attempts
    BY <1>4 DEF Replaces
  <2>2. \A j, k \in Indices : j < k /\ entry[k].attempts > 0 => SequenceTerminal(entry'[j])
    BY TerminalStays DEF DeclaredOrder
  <2>3. \A m, n \in 1..Len(applied') : m < n => applied'[m] < applied'[n]
    BY <1>4 DEF DeclaredOrder
  <2>. QED
    BY <2>1, <2>2, <2>3, Zenon DEF DeclaredOrder
<1>5. ASSUME NEW i \in Indices, ReconcileOn(i)
      PROVE  DeclaredOrder'
  BY <1>4, <1>5, DeclaredEntry, ReconciledOccurrence DEF ReconcileOn
<1>6. ASSUME NEW i \in Indices, CancelOn(i)
      PROVE  DeclaredOrder'
  BY <1>4, <1>6, DeclaredEntry, CancelledOccurrence DEF CancelOn
<1>. QED
  BY <1>1, <1>2, <1>3, <1>5, <1>6, Steps

(***************************************************************************)
(* A cell changes only by an effect whose precondition it meets, which     *)
(* makes it what the declaration says.                                     *)
(***************************************************************************)
LEMMA NextWorld ==
  ASSUME TypeOKEffects, SealsDeclared, WorldExplained, [NextEffects]_effectVars
  PROVE  WorldExplained'
<1>1. CASE Quiet
  BY <1>1, Zenon DEF Quiet, WorldExplained, On, Declared
<1>2. ASSUME NEW p \in Profiles, Attach(p)
      PROVE  WorldExplained'
  <2>1. applied' = <<>> /\ cells' = p.cells /\ profile' = p
    BY <1>2, Unattached DEF Attach
  <2>2. \A key : On(key)' = {}
    BY <2>1 DEF On
  <2>. QED
    BY <2>1, <2>2 DEF WorldExplained
<1>3. ASSUME NEW i \in Indices, NEW kind \in {"execute_effect", "retry_effect"},
             AttemptOn(i, kind)
      PROVE  WorldExplained'
  <2>1. profile' = profile /\ profile # None
    BY <1>3 DEF AttemptOn, Replaces, Indices
  <2>2. CASE ~Applies(i)
    BY <1>3, <2>1, <2>2 DEF AttemptOn, WorldExplained, On, Declared
  <2>3. CASE Applies(i)
    <3>. DEFINE key == Declared(i).key  top == Len(applied) + 1
    <3>1. /\ Len(applied) \in Nat /\ Len(applied') = top
          /\ \A n \in 1..Len(applied) : applied'[n] = applied[n]
          /\ applied'[top] = i
      BY <1>3, <2>3, AppendProperties, LenProperties DEF TypeOKEffects, AttemptOn
    <3>2. cells' = [cells EXCEPT ![key] = After(i)] /\ key \in Cells
      BY <1>3, <2>3, DeclaredEntry DEF AttemptOn
    <3>3. After(i) = Written(Declared(i))
      BY <2>3 DEF After, Written, Applies, Matches
    <3>4. ASSUME NEW k \in Cells, k # key
          PROVE  cells'[k] = cells[k] /\ On(k)' = On(k)
      <4>1. cells'[k] = cells[k]
        BY <3>2, <3>4 DEF TypeOKEffects
      <4>2. On(k)' = On(k)
        BY <3>1, <2>1, <3>4 DEF On, Declared
      <4>. QED
        BY <4>1, <4>2
    <3>5. top \in On(key)'
      BY <3>1, <2>1 DEF On, Declared
    <3>6. \A n \in On(key)' : (\A m \in On(key)' : m <= n) => n = top
      BY <3>1, <3>5 DEF On
    <3>7. cells'[key] = Written(Declared(i))
      BY <3>2, <3>3 DEF TypeOKEffects
    <3>8. ASSUME NEW k \in Cells
          PROVE  /\ On(k)' = {} => cells'[k] = profile'.cells[k]
                 /\ \A n \in On(k)' : (\A m \in On(k)' : m <= n)
                      => cells'[k] = Written(profile.entries[applied'[n]])
      <4>1. CASE k = key
        BY <4>1, <3>1, <3>5, <3>6, <3>7, <2>1 DEF Declared
      <4>2. CASE k # key
        <5>1. cells'[k] = cells[k] /\ On(k)' = On(k)
          BY <4>2, <3>4
        <5>2. /\ On(k) = {} => cells[k] = profile.cells[k]
              /\ \A n \in On(k) : (\A m \in On(k) : m <= n)
                   => cells[k] = Written(Declared(applied[n]))
          BY <2>1 DEF WorldExplained
        <5>3. \A n \in On(k) : applied'[n] = applied[n]
          BY <3>1 DEF On
        <5>. QED
          BY <5>1, <5>2, <5>3, <2>1 DEF Declared
      <4>. QED
        BY <4>1, <4>2
    <3>. HIDE DEF key, top
    <3>. QED
      BY <3>8, <2>1 DEF WorldExplained, Declared
  <2>. QED
    BY <2>2, <2>3
<1>4. ASSUME NEW i \in Indices, ReconcileOn(i) \/ CancelOn(i)
      PROVE  WorldExplained'
  <2>1. profile' = profile /\ cells' = cells /\ applied' = applied
    BY <1>4 DEF ReconcileOn, CancelOn, Replaces
  <2>. QED
    BY <2>1, Zenon DEF WorldExplained, On, Declared
<1>. QED
  BY <1>1, <1>2, <1>3, <1>4, Steps

(***************************************************************************)
(* The approval that fills the slot is the newest one and names the state  *)
(* in which it is dispatched: every command empties the slot.              *)
(***************************************************************************)
LEMMA NextPending ==
  ASSUME TypeOKEffects, SealsDeclared, PendingDispatchable, [NextEffects]_effectVars
  PROVE  PendingDispatchable'
<1>1. CASE UNCHANGED effectVars
  BY <1>1, Zenon DEF effectVars, ledgerVars, PendingDispatchable, Presented, Admissible,
     Attemptable, Applies, Matches, Outcome, After, Declared
<1>2. CASE LineageMoves \/ RevokeEffects \/ \E p \in Profiles : Attach(p)
  <2>1. CASE RevokeEffects
    BY <2>1 DEF RevokeEffects, PendingDispatchable
  <2>2. CASE LineageMoves \/ \E p \in Profiles : Attach(p)
    <3>1. profile = None /\ pending' = pending
      BY <2>2 DEF LineageMoves, Attach
    <3>2. pending = 0
      BY <3>1, Unattached DEF TypeOKEffects
    <3>. QED
      BY <3>1, <3>2 DEF PendingDispatchable
  <2>. QED
    BY <1>2, <2>1, <2>2
<1>3. ASSUME NEW kind \in Kind, NEW i \in Indices, Authorize(kind, i)
      PROVE  PendingDispatchable'
  <2>1. /\ approvals' = Append(Retired, Seal(kind, i)) /\ pending' = Len(approvals) + 1
        /\ Admissible(kind, i, generation)
        /\ UNCHANGED <<authority, profile, cells, entry, used, generation>>
    BY <1>3 DEF Authorize, ledgerVars
  <2>2. Retired \in Seq(Approval) /\ Len(Retired) = Len(approvals)
    <3>1. CASE pending = 0
      BY <3>1 DEF Retired, TypeOKEffects
    <3>2. CASE pending # 0
      <4>1. approvals \in Seq(Approval) /\ pending \in 1..Len(approvals)
        BY <3>2, LenProperties DEF TypeOKEffects
      <4>. DEFINE g == [approvals[pending] EXCEPT !.used = TRUE]
      <4>2. approvals[pending] \in Approval
        BY <4>1, ElementOfSeq
      <4>3. g \in Approval
        BY <4>2 DEF Approval
      <4>4. Retired = [approvals EXCEPT ![pending] = g]
        BY <3>2 DEF Retired
      <4>. HIDE DEF g
      <4>. QED
        BY <4>1, <4>3, <4>4, ExceptSeq
    <3>. QED
      BY <3>1, <3>2
  <2>3. Seal(kind, i) \in Approval
    BY DEF Seal, Approval, TypeOKEffects, Indices
  <2>4. approvals'[pending'] = Seal(kind, i)
    BY <2>1, <2>2, <2>3, AppendProperties
  <2>5. /\ Seal(kind, i).kind = kind /\ Seal(kind, i).entry = i /\ ~Seal(kind, i).used
        /\ Seal(kind, i).state = generation /\ Seal(kind, i).epoch = authority.epoch
    BY DEF Seal
  <2>6. /\ approvals'[pending'].kind = kind /\ approvals'[pending'].entry = i
        /\ approvals'[pending'].state = generation' /\ ~approvals'[pending'].used
        /\ approvals'[pending'].epoch = authority'.epoch
    BY <2>1, <2>4, <2>5, Zenon
  <2>7. Presented(pending)'
    BY <2>1, <2>6, Zenon DEF Presented, Admissible, Attemptable, Applies, Matches, Outcome,
       After, Declared
  <2>. QED
    BY <2>7, Zenon DEF PendingDispatchable, Presented
<1>4. ASSUME NEW i, NEW e, Replaces(i, e)  PROVE PendingDispatchable'
  BY <1>4 DEF Replaces, PendingDispatchable
<1>. QED
  BY <1>1, <1>2, <1>3, <1>4, AttemptStep, ReconcileStep, CancelStep, Zenon
     DEF NextEffects, AttemptOn, ReconcileOn, CancelOn

(***************************************************************************)
(* A task starts without a ledger.                                         *)
(***************************************************************************)
LEMMA InitEffectInv == InitEffects => EffectInv
<1>. SUFFICES ASSUME InitEffects PROVE EffectInv
  OBVIOUS
<1>1. Indices = {} /\ profile = None
  BY DEF InitEffects, Indices
<1>2. MinCell \in Value
  BY EffectAssumption DEF Value
<1>3. entry \in [Indices -> Occurrence]
  BY <1>1 DEF InitEffects
<1>4. TypeOKEffects
  BY <1>1, <1>2, <1>3, EmptySeq DEF InitEffects, TypeOKEffects, Counters
<1>5. SealsDeclared
  BY EmptySeq DEF InitEffects, SealsDeclared
<1>6. applied = <<>> /\ pending = 0
  BY DEF InitEffects
<1>. QED
  BY <1>1, <1>4, <1>5, <1>6, EmptySeq
     DEF EffectInv, AttemptsWitnessed, JournalTruthful, DeclaredOrder, WorldExplained,
         PendingDispatchable

(***************************************************************************)
(* The invariant the safety of the effect session rests on holds in every  *)
(* reachable state, for any profile, range of values and plan of outcomes. *)
(***************************************************************************)
THEOREM EffectInvariant == SpecEffects => []EffectInv
<1>1. InitEffects => EffectInv
  BY InitEffectInv
<1>2. EffectInv /\ [NextEffects]_effectVars => EffectInv'
  BY NextTypes, NextJournal, NextOrder, NextWorld, NextPending DEF EffectInv
<1>. QED
  BY <1>1, <1>2, PTL DEF SpecEffects

(***************************************************************************)
(* Every variable of the effect session has its type; no addition to a     *)
(* cell leaves the signed range.                                           *)
(***************************************************************************)
THEOREM EffectTypes == SpecEffects => []TypeOKEffects
<1>1. EffectInv => TypeOKEffects
  BY DEF EffectInv
<1>. QED
  BY <1>1, EffectInvariant, PTL

(***************************************************************************)
(* The journal of occurrences tells the truth about the cells, whatever    *)
(* acknowledgements are lost and however the task is retried, reconciled   *)
(* or cancelled.                                                           *)
(***************************************************************************)
THEOREM JournalSafety == SpecEffects => []JournalTruthful
<1>1. EffectInv => JournalTruthful
  BY DEF EffectInv
<1>. QED
  BY <1>1, EffectInvariant, PTL

(***************************************************************************)
(* Effects happen in the order of the manifest and at most once.           *)
(***************************************************************************)
THEOREM OrderSafety == SpecEffects => []DeclaredOrder
<1>1. EffectInv => DeclaredOrder
  BY DEF EffectInv
<1>. QED
  BY <1>1, EffectInvariant, PTL

(***************************************************************************)
(* Every cell holds what the last effect on it was declared to write.      *)
(***************************************************************************)
THEOREM WorldSafety == SpecEffects => []WorldExplained
<1>1. EffectInv => WorldExplained
  BY DEF EffectInv
<1>. QED
  BY <1>1, EffectInvariant, PTL

(***************************************************************************)
(* The approval in the session's only slot can be dispatched as long as    *)
(* authority lasts.                                                        *)
(***************************************************************************)
THEOREM PendingSafety == SpecEffects => []PendingDispatchable
<1>1. EffectInv => PendingDispatchable
  BY DEF EffectInv
<1>. QED
  BY <1>1, EffectInvariant, PTL

(***************************************************************************)
(* A cancelled occurrence stays cancelled and is never attempted again.    *)
(***************************************************************************)
THEOREM CancellationSafety == SpecEffects => CancellationFinal
<1>. DEFINE Final == \A i \in Indices : entry[i].cancel =>
                       entry'[i].cancel /\ entry'[i].attempts = entry[i].attempts
<1>1. ASSUME EffectInv, [NextEffects]_effectVars
      PROVE  Final
  <2>1. TypeOKEffects /\ SealsDeclared
    BY <1>1 DEF EffectInv
  <2>2. CASE Quiet
    BY <2>2 DEF Quiet
  <2>3. ASSUME NEW p \in Profiles, Attach(p)  PROVE Final
    BY <2>3 DEF Attach, Indices
  <2>4. ASSUME NEW j \in Indices, NEW kind \in {"execute_effect", "retry_effect"},
               AttemptOn(j, kind)
        PROVE  Final
    <3>1. ~entry[j].cancel /\ \A i \in Indices \ {j} : entry'[i] = entry[i]
      BY <2>4 DEF AttemptOn, Attemptable, Replaces
    <3>. QED
      BY <3>1, Zenon
  <2>5. ASSUME NEW j \in Indices, ReconcileOn(j)  PROVE Final
    <3>1. /\ entry'[j].cancel = entry[j].cancel /\ entry'[j].attempts = entry[j].attempts
          /\ \A i \in Indices \ {j} : entry'[i] = entry[i]
      BY <2>1, <2>5, DeclaredEntry, ReconciledOccurrence DEF ReconcileOn, Replaces
    <3>. QED
      BY <3>1, Zenon
  <2>6. ASSUME NEW j \in Indices, CancelOn(j)  PROVE Final
    <3>1. ~entry[j].cancel /\ \A i \in Indices \ {j} : entry'[i] = entry[i]
      BY <2>6 DEF CancelOn, Replaces
    <3>. QED
      BY <3>1, Zenon
  <2>. QED
    BY <1>1, <2>1, <2>2, <2>3, <2>4, <2>5, <2>6, Steps
<1>. QED
  BY <1>1, EffectInvariant, PTL DEF SpecEffects, CancellationFinal

-----------------------------------------------------------------------------
(* What the facade demands of snapshots and receipts. *)

(***************************************************************************)
(* A known witness has a value, an unknown one has none.                   *)
(***************************************************************************)
WitnessesValued ==
  \A i \in Indices :
    LET w == entry[i].witness
    IN /\ w.known \in {"applied", "not_applied"} => w.value # None
       /\ w.known = "unknown" => w.value = None

(***************************************************************************)
(* No occurrence has more attempts than were spent, or than retries allow. *)
(***************************************************************************)
AttemptsBounded ==
  \A i \in Indices : /\ entry[i].attempts <= used.executions
                     /\ entry[i].attempts <= used.retries + 1

FacadeInv ==
  /\ profile = None => /\ used.requests = 0 /\ used.executions = 0
                       /\ used.retries = 0 /\ used.reconciliations = 0
                       /\ generation = 0 /\ receipt = None
  /\ profile # None => CountersValid
  /\ EntriesValid
  /\ AttemptsCounted
  /\ IsFiniteSet(Attempts)
  /\ WitnessesValued
  /\ AttemptsBounded
  /\ receipt # None => ReceiptAdmitted(receipt)

Spends(q, x, y, z) ==
  /\ used'.requests = used.requests + q /\ used'.executions = used.executions + x
  /\ used'.retries = used.retries + y /\ used'.reconciliations = used.reconciliations + z

(***************************************************************************)
(* What each command spends, by counter.                                   *)
(***************************************************************************)
LEMMA Spending ==
  ASSUME TypeOKEffects, NEW i \in Indices
  PROVE  /\ \A kind : AttemptOn(i, kind)
              => Spends(1, 1, IF kind = "retry_effect" THEN 1 ELSE 0, 0)
         /\ ReconcileOn(i) => Spends(1, 0, 0, 1)
         /\ CancelOn(i) => Spends(1, 0, 0, 0)
<1>. DEFINE q == used.requests + 1  x == used.executions + 1
            z == used.reconciliations + 1
<1>1. /\ used \in Counters /\ used.requests \in Nat /\ used.executions \in Nat
      /\ used.retries \in Nat /\ used.reconciliations \in Nat
  BY DEF TypeOKEffects, Counters
<1>2. ASSUME NEW kind, AttemptOn(i, kind)
      PROVE  Spends(1, 1, IF kind = "retry_effect" THEN 1 ELSE 0, 0)
  <2>. DEFINE y == used.retries + IF kind = "retry_effect" THEN 1 ELSE 0
  <2>1. used' = [used EXCEPT !.requests = q, !.executions = x, !.retries = y]
    BY <1>2 DEF AttemptOn
  <2>2. /\ used'.requests = q /\ used'.executions = x /\ used'.retries = y
        /\ used'.reconciliations = used.reconciliations
    <3>. HIDE DEF q, x, y
    <3>. QED
      BY <1>1, <2>1 DEF Counters
  <2>. QED
    BY <1>1, <2>2 DEF Spends
<1>3. ASSUME ReconcileOn(i)  PROVE Spends(1, 0, 0, 1)
  <2>1. used' = [used EXCEPT !.requests = q, !.reconciliations = z]
    BY <1>3 DEF ReconcileOn
  <2>2. /\ used'.requests = q /\ used'.reconciliations = z
        /\ used'.retries = used.retries /\ used'.executions = used.executions
    <3>. HIDE DEF q, z
    <3>. QED
      BY <1>1, <2>1 DEF Counters
  <2>. QED
    BY <1>1, <2>2 DEF Spends
<1>4. ASSUME CancelOn(i)  PROVE Spends(1, 0, 0, 0)
  <2>1. used' = [used EXCEPT !.requests = q]
    BY <1>4 DEF CancelOn
  <2>2. /\ used'.requests = q /\ used'.reconciliations = used.reconciliations
        /\ used'.retries = used.retries /\ used'.executions = used.executions
    <3>. HIDE DEF q
    <3>. QED
      BY <1>1, <2>1 DEF Counters
  <2>. QED
    BY <1>1, <2>2 DEF Spends
<1>. QED
  BY <1>2, <1>3, <1>4

(***************************************************************************)
(* The counters of a profile's task, and their limits, are numbers.        *)
(***************************************************************************)
LEMMA CounterNumbers ==
  ASSUME TypeOKEffects, NEW i \in Indices
  PROVE  /\ used.requests \in Nat /\ used.executions \in Nat
         /\ used.retries \in Nat /\ used.reconciliations \in Nat
         /\ profile.limits.requests \in Nat /\ profile.limits.executions \in Nat
         /\ profile.limits.retries \in Nat /\ profile.limits.reconciliations \in Nat
         /\ generation \in Nat
         /\ DOMAIN used = {"requests", "executions", "retries", "reconciliations"}
<1>1. profile \in Profile
  BY DeclaredEntry
<1>2. profile.limits \in Counters /\ used \in Counters
  BY <1>1 DEF Profile, TypeOKEffects
<1>. QED
  BY <1>2 DEF Counters, TypeOKEffects

Tried == {i \in Indices : entry[i].attempts > 0}

(***************************************************************************)
(* The occurrences that have been attempted can be counted.                *)
(***************************************************************************)
LEMMA TriedFinite ==
  ASSUME TypeOKEffects
  PROVE  IsFiniteSet(Tried) /\ Cardinality(Tried) \in Nat
<1>1. IsFiniteSet(Indices)
  <2>1. CASE profile = None
    BY <2>1, FS_EmptySet DEF Indices
  <2>2. CASE profile # None
    <3>1. profile \in Profile
      BY <2>2, EffectAssumption DEF TypeOKEffects
    <3>2. Len(profile.entries) \in Int
      BY <3>1, LenProperties DEF Profile
    <3>. QED
      BY <2>2, <3>2, FS_Interval DEF Indices
  <2>. QED
    BY <2>1, <2>2
<1>2. IsFiniteSet(Tried)
  BY <1>1, FS_Subset DEF Tried
<1>. QED
  BY <1>2, FS_CardinalityType

(***************************************************************************)
(* An attempt leaves a snapshot and a receipt the facade admits.           *)
(***************************************************************************)
LEMMA AttemptFacade ==
  ASSUME EffectInv, FacadeInv, NEW i \in Indices,
         NEW kind \in {"execute_effect", "retry_effect"}, AttemptOn(i, kind),
         TypeOKEffects'
  PROVE  FacadeInv'
<1>. DEFINE y == IF kind = "retry_effect" THEN 1 ELSE 0
<1>1. /\ TypeOKEffects /\ AttemptsWitnessed /\ profile # None
      /\ CountersValid /\ EntriesValid /\ WitnessesValued /\ AttemptsBounded
  BY DEF EffectInv, FacadeInv, Indices
<1>2. /\ Indices' = Indices /\ profile' = profile
      /\ entry'[i].status = Attempted(i).status /\ entry'[i].attempts = Attempted(i).attempts
      /\ entry'[i].cancel = Attempted(i).cancel /\ entry'[i].witness = Attempted(i).witness
      /\ entry'[i].event = generation + 1 /\ generation' = generation + 1
      /\ \A j \in Indices \ {i} : entry'[j] = entry[j]
  BY DEF AttemptOn, Replaces
<1>3. /\ Attempted(i).attempts = entry[i].attempts + 1
      /\ Attempted(i).cancel = FALSE
      /\ Applies(i) => Attempted(i).status \in {"applied", "ambiguous"}
      /\ ~Applies(i) => Attempted(i).status \in {"not_applied", "ambiguous"}
  BY <1>1, AttemptedOccurrence DEF AttemptOn
<1>4. /\ used.requests \in Nat /\ used.executions \in Nat
      /\ used.retries \in Nat /\ used.reconciliations \in Nat
      /\ profile.limits.requests \in Nat /\ profile.limits.executions \in Nat
      /\ profile.limits.retries \in Nat /\ profile.limits.reconciliations \in Nat
      /\ generation \in Nat
      /\ DOMAIN used = {"requests", "executions", "retries", "reconciliations"}
  BY <1>1, CounterNumbers
<1>5. /\ used'.requests = used.requests + 1 /\ used'.executions = used.executions + 1
      /\ used'.retries = used.retries + y
      /\ used'.reconciliations = used.reconciliations
      /\ DOMAIN used' = {"requests", "executions", "retries", "reconciliations"}
  <2>1. Spends(1, 1, y, 0)
    BY <1>1, Spending
  <2>2. used' \in Counters
    BY DEF TypeOKEffects
  <2>. QED
    BY <1>4, <2>1, <2>2 DEF Spends, Counters
<1>6. /\ used.requests < profile.limits.requests
      /\ used.executions < profile.limits.executions
      /\ kind = "retry_effect" => used.retries < profile.limits.retries
      /\ entry[i].attempts \in Nat
      /\ kind = "execute_effect" => entry[i].attempts = 0
      /\ kind = "retry_effect" => entry[i].attempts > 0 /\ entry[i].event # 0
  <2>1. Attemptable(kind, i) /\ used.requests < profile.limits.requests
    BY DEF AttemptOn
  <2>2. entry[i].attempts \in Nat
    BY <1>1, DeclaredEntry DEF Occurrence
  <2>3. kind = "execute_effect" => entry[i].status = "pending"
    BY <2>1 DEF Attemptable
  <2>4. kind = "retry_effect" => entry[i].status \in {"not_applied", "reconciled_not_applied"}
    BY <2>1 DEF Attemptable
  <2>5. kind = "retry_effect" => entry[i].attempts > 0 /\ entry[i].event # 0
    BY <1>1, <2>4 DEF AttemptsWitnessed, EntriesValid
  <2>. QED
    BY <1>1, <2>1, <2>2, <2>3, <2>5 DEF AttemptsWitnessed, Attemptable
<1>7. CountersValid'
  <2>1. /\ used.executions + used.reconciliations <= used.requests
        /\ used.retries <= used.executions /\ generation = used.requests
        /\ used.retries = used.executions - Cardinality(Tried)
        /\ used.requests <= profile.limits.requests
        /\ used.executions <= profile.limits.executions
        /\ used.retries <= profile.limits.retries
        /\ used.reconciliations <= profile.limits.reconciliations
    BY <1>1, <1>4 DEF CountersValid, Tried
  <2>2. \A c \in DOMAIN used' : used'[c] <= profile'.limits[c]
    BY <2>1, <1>2, <1>4, <1>5, <1>6
  <2>3. /\ used'.executions + used'.reconciliations <= used'.requests
        /\ used'.retries <= used'.executions /\ generation' = used'.requests
    BY <2>1, <1>2, <1>4, <1>5
  <2>4. IsFiniteSet(Tried) /\ Cardinality(Tried) \in Nat
    BY <1>1, TriedFinite
  <2>5. Tried' = Tried \cup {i}
    BY <1>2, <1>3, <1>6 DEF Tried
  <2>6. i \in Tried <=> kind = "retry_effect"
    BY <1>6 DEF Tried
  <2>7. Cardinality(Tried') = Cardinality(Tried) + 1 - y
    BY <2>4, <2>5, <2>6, FS_AddElement
  <2>8. used'.retries = used'.executions - Cardinality(Tried')
    BY <2>1, <2>4, <2>7, <1>4, <1>5
  <2>. QED
    BY <2>2, <2>3, <2>8 DEF CountersValid, Tried
<1>8. EntriesValid'
  <2>1. /\ entry'[i].status \in {"applied", "not_applied", "ambiguous"}
        /\ ~entry'[i].cancel /\ entry'[i].event # 0 /\ entry'[i].attempts > 0
    BY <1>2, <1>3, <1>4, <1>6
  <2>. QED
    BY <1>1, <1>2, <2>1, ZenonT(40) DEF EntriesValid
<1>9. WitnessesValued'
  <2>1. LET w == Attempted(i).witness
        IN /\ w.known \in {"applied", "not_applied"} => w.value # None
           /\ w.known = "unknown" => w.value = None
    <3>. DEFINE was == cells[Declared(i).key]
    <3>1. was \in Value /\ (Applies(i) => After(i) \in Value)
      BY <1>1, DeclaredEntry DEF TypeOKEffects, AttemptOn, Attemptable
    <3>2. was # None /\ (Applies(i) => After(i) # None)
      BY <3>1, EffectAssumption
    <3>3. Attempted(i).witness =
            IF ~Applies(i) THEN [known |-> "not_applied", value |-> was]
            ELSE IF Outcome(i) = "ambiguous_unknown"
            THEN [known |-> "unknown", value |-> None]
            ELSE [known |-> "applied", value |-> After(i)]
      <4>1. entry[i] \in Occurrence
        BY <1>1, DeclaredEntry
      <4>. QED
        BY <4>1 DEF Attempted, Occurrence
    <3>. HIDE DEF was
    <3>. QED
      BY <3>2, <3>3
  <2>. QED
    BY <1>1, <1>2, <2>1, Zenon DEF WitnessesValued
<1>10. AttemptsBounded'
  <2>1. SUFFICES ASSUME NEW j \in Indices
                 PROVE  /\ entry'[j].attempts <= used'.executions
                        /\ entry'[j].attempts <= used'.retries + 1
    BY <1>2 DEF AttemptsBounded
  <2>2. /\ entry[j].attempts \in Nat /\ entry[j].attempts <= used.executions
        /\ entry[j].attempts <= used.retries + 1
    BY <1>1, DeclaredEntry DEF Occurrence, AttemptsBounded
  <2>3. CASE j = i
    BY <2>2, <2>3, <1>2, <1>3, <1>4, <1>5, <1>6
  <2>4. CASE j # i
    BY <2>2, <2>4, <1>2, <1>4, <1>5
  <2>. QED
    BY <2>3, <2>4
<1>11. ReceiptAdmitted(receipt')
  <2>. DEFINE key == Declared(i).key  e == Attempted(i)
              after == IF e.status = "ambiguous" THEN None ELSE cells'[key]
              recovers == IF kind = "execute_effect" THEN 0 ELSE entry[i].event
  <2>1. receipt' = ReceiptOf(kind, i, e, used', AttemptFailure(i), cells[key], after)
    BY DEF AttemptOn
  <2>2. /\ receipt'.kind = kind /\ receipt'.status = e.status
        /\ receipt'.failure = AttemptFailure(i) /\ receipt'.attempt = e.attempts
        /\ receipt'.cancel = e.cancel /\ receipt'.recovers = recovers
        /\ receipt'.before = cells[key] /\ receipt'.after = after
        /\ receipt'.counters = used' /\ receipt'.tick = generation + 1
    <3>. HIDE DEF key, e, after
    <3>. QED
      BY <2>1 DEF ReceiptOf
  <2>3. cells[key] # None /\ cells'[key] # None
    <3>1. key \in Cells
      BY <1>1, DeclaredEntry
    <3>2. cells[key] \in Value /\ cells'[key] \in Value
      BY <1>1, <3>1 DEF TypeOKEffects
    <3>. QED
      BY <3>2, EffectAssumption
  <2>4. /\ e.status = "ambiguous" => AttemptFailure(i) = "acknowledgement_lost"
        /\ e.status = "not_applied" =>
             AttemptFailure(i) \in {"synthetic_failure_before", "precondition_mismatch"}
        /\ e.status = "applied" => AttemptFailure(i) = "none"
    <3>1. e.status = IF ~Matches(i) \/ Outcome(i) = "fail_before" THEN "not_applied"
                     ELSE IF Outcome(i) = "success" THEN "applied" ELSE "ambiguous"
      <4>1. entry[i] \in Occurrence
        BY <1>1, DeclaredEntry
      <4>. QED
        BY <4>1 DEF Attempted, Occurrence
    <3>. HIDE DEF e
    <3>. QED
      BY <3>1 DEF AttemptFailure
  <2>5. e.status = "not_applied" => cells' = cells
    BY <1>3 DEF AttemptOn
  <2>6. /\ e.attempts > 0 /\ e.attempts <= used'.executions /\ e.attempts <= used'.retries + 1
        /\ kind = "execute_effect" => e.attempts = 1
        /\ kind = "retry_effect" => e.attempts >= 2
    <3>1. e.attempts = entry[i].attempts + 1
      BY <1>3
    <3>2. entry[i].attempts \in Nat /\ entry[i].attempts <= used.executions
          /\ entry[i].attempts <= used.retries + 1
      BY <1>1, <1>6 DEF AttemptsBounded
    <3>. HIDE DEF e
    <3>. QED
      BY <3>1, <3>2, <1>4, <1>5, <1>6
  <2>7. e.cancel = FALSE /\ e.status \in {"applied", "not_applied", "ambiguous"}
    BY <1>3
  <2>8. generation + 1 = used'.requests /\ generation + 1 > 0
    BY <1>1, <1>4, <1>5 DEF CountersValid
  <2>9. kind = "retry_effect" => recovers # 0
    BY <1>6
  <2>10. kind = "execute_effect" => recovers = 0
    OBVIOUS
  <2>11. /\ e.status = "ambiguous" => after = None
         /\ e.status # "ambiguous" => after = cells'[key]
    OBVIOUS
  <2>. HIDE DEF key, e, after, recovers
  <2>12. /\ receipt'.tick = receipt'.counters.requests /\ receipt'.tick > 0
         /\ receipt'.attempt # 0
         /\ receipt'.attempt <= receipt'.counters.executions
         /\ receipt'.attempt <= receipt'.counters.retries + 1
         /\ ~receipt'.cancel
    BY <2>2, <2>6, <2>7, <2>8
  <2>13. /\ receipt'.status \in {"applied", "not_applied", "ambiguous"} /\ receipt'.before # None
         /\ IF receipt'.kind = "execute_effect" THEN receipt'.attempt = 1 /\ receipt'.recovers = 0
            ELSE receipt'.attempt >= 2 /\ receipt'.recovers # 0
    BY <2>2, <2>3, <2>6, <2>7, <2>9, <2>10
  <2>14. /\ receipt'.status = "ambiguous" =>
              receipt'.after = None /\ receipt'.failure = "acknowledgement_lost"
         /\ receipt'.status = "not_applied" =>
              /\ receipt'.failure \in {"synthetic_failure_before", "precondition_mismatch"}
              /\ receipt'.before = receipt'.after
         /\ receipt'.status = "applied" => receipt'.after # None /\ receipt'.failure = "none"
    BY <2>2, <2>3, <2>4, <2>5, <2>11
  <2>. QED
    BY <2>2, <2>12, <2>13, <2>14 DEF ReceiptAdmitted
<1>12. AttemptsCounted' /\ IsFiniteSet(Attempts')
  <2>. DEFINE n == entry[i].attempts + 1
  <2>1. /\ IsFiniteSet(Attempts) /\ Cardinality(Attempts) = used.executions
    BY DEF FacadeInv, AttemptsCounted
  <2>2. Attempts' = Attempts \cup {<<i, n>>}
    <3>1. 1..entry'[i].attempts = (1..entry[i].attempts) \cup {n}
      BY <1>2, <1>3, <1>6
    <3>. HIDE DEF n
    <3>. QED
      BY <1>2, <3>1 DEF Attempts
  <2>3. <<i, n>> \notin Attempts
    BY <1>6 DEF Attempts
  <2>. QED
    BY <2>1, <2>2, <2>3, <1>4, <1>5, FS_AddElement DEF AttemptsCounted
<1>. QED
  BY <1>1, <1>2, <1>7, <1>8, <1>9, <1>10, <1>11, <1>12, Zenon DEF FacadeInv

(***************************************************************************)
(* A command that makes no attempt leaves a snapshot the facade admits.    *)
(***************************************************************************)
LEMMA UnattemptedFacade ==
  ASSUME EffectInv, FacadeInv, NEW i \in Indices, NEW e, Replaces(i, e), TypeOKEffects',
         NEW z \in {0, 1}, Spends(1, 0, 0, z),
         used.requests < profile.limits.requests,
         used.executions + used.reconciliations + z <= used.requests + 1,
         used.reconciliations + z <= profile.limits.reconciliations,
         e.attempts = entry[i].attempts, e.witness = entry[i].witness,
         e.status \notin {"pending", "applied", "not_applied"},
         e.status = "cancelled" => e.cancel,
         e.status # "cancelled" => entry[i].attempts > 0,
         ReceiptAdmitted(receipt')
  PROVE  FacadeInv'
<1>1. /\ TypeOKEffects /\ profile # None
      /\ CountersValid /\ EntriesValid /\ WitnessesValued /\ AttemptsBounded
  BY DEF EffectInv, FacadeInv, Indices
<1>2. /\ Indices' = Indices /\ profile' = profile
      /\ entry'[i].status = e.status /\ entry'[i].attempts = entry[i].attempts
      /\ entry'[i].cancel = e.cancel /\ entry'[i].witness = entry[i].witness
      /\ entry'[i].event = generation + 1 /\ generation' = generation + 1
      /\ \A j \in Indices \ {i} : entry'[j] = entry[j]
  BY DEF Replaces
<1>3. /\ used.requests \in Nat /\ used.executions \in Nat
      /\ used.retries \in Nat /\ used.reconciliations \in Nat
      /\ profile.limits.requests \in Nat /\ profile.limits.executions \in Nat
      /\ profile.limits.retries \in Nat /\ profile.limits.reconciliations \in Nat
      /\ generation \in Nat
      /\ DOMAIN used = {"requests", "executions", "retries", "reconciliations"}
  BY <1>1, CounterNumbers
<1>4. /\ used'.requests = used.requests + 1 /\ used'.executions = used.executions
      /\ used'.retries = used.retries
      /\ used'.reconciliations = used.reconciliations + z
      /\ DOMAIN used' = {"requests", "executions", "retries", "reconciliations"}
  <2>1. used' \in Counters
    BY DEF TypeOKEffects
  <2>. QED
    BY <1>3, <2>1 DEF Spends, Counters
<1>5. \A j \in Indices : entry'[j].attempts = entry[j].attempts
  BY <1>2
<1>6. CountersValid'
  <2>1. /\ used.retries <= used.executions /\ generation = used.requests
        /\ used.retries = used.executions - Cardinality(Tried)
        /\ used.requests <= profile.limits.requests
        /\ used.executions <= profile.limits.executions
        /\ used.retries <= profile.limits.retries
    BY <1>1, <1>3 DEF CountersValid, Tried
  <2>2. \A c \in DOMAIN used' : used'[c] <= profile'.limits[c]
    BY <2>1, <1>2, <1>3, <1>4
  <2>3. /\ used'.executions + used'.reconciliations <= used'.requests
        /\ used'.retries <= used'.executions /\ generation' = used'.requests
    BY <2>1, <1>2, <1>3, <1>4
  <2>4. Tried' = Tried
    BY <1>2, <1>5 DEF Tried
  <2>5. used'.retries = used'.executions - Cardinality(Tried')
    BY <2>1, <2>4, <1>4
  <2>. QED
    BY <2>2, <2>3, <2>5 DEF CountersValid, Tried
<1>7. EntriesValid'
  <2>1. entry'[i].event # 0
    BY <1>2, <1>3
  <2>. QED
    BY <1>1, <1>2, <2>1 DEF EntriesValid
<1>8. WitnessesValued'
  BY <1>1, <1>2, ZenonT(40) DEF WitnessesValued
<1>9. AttemptsBounded'
  BY <1>1, <1>2, <1>4, <1>5, Zenon DEF AttemptsBounded
<1>10. AttemptsCounted' /\ IsFiniteSet(Attempts')
  <2>1. Attempts' = Attempts
    BY <1>2, <1>5 DEF Attempts
  <2>. QED
    BY <2>1, <1>4 DEF FacadeInv, AttemptsCounted
<1>. QED
  BY <1>1, <1>2, <1>6, <1>7, <1>8, <1>9, <1>10, Zenon DEF FacadeInv

(***************************************************************************)
(* Every step leaves a snapshot and a receipt the facade admits.           *)
(***************************************************************************)
LEMMA NextFacade ==
  ASSUME EffectInv, FacadeInv, [NextEffects]_effectVars, TypeOKEffects'
  PROVE  FacadeInv'
<1>0. TypeOKEffects /\ SealsDeclared /\ AttemptsWitnessed
  BY DEF EffectInv
<1>1. CASE Quiet
  BY <1>1, ZenonT(40) DEF Quiet, FacadeInv, CountersValid, EntriesValid, AttemptsCounted, Attempts,
     WitnessesValued, AttemptsBounded, Indices
<1>2. ASSUME NEW p \in Profiles, Attach(p)
      PROVE  FacadeInv'
  <2>1. /\ p \in Profile /\ p # None /\ profile = None /\ profile' = p
        /\ Indices' = 1..Len(p.entries)
        /\ \A i \in Indices' :
             entry'[i] = [status |-> "pending", attempts |-> 0, cancel |-> FALSE, event |-> 0,
                          witness |-> [known |-> "none", value |-> None]]
        /\ used' = used /\ generation' = generation /\ receipt' = receipt
    BY <1>2, EffectAssumption DEF Attach, Indices
  <2>2. /\ used.requests = 0 /\ used.executions = 0
        /\ used.retries = 0 /\ used.reconciliations = 0
        /\ generation = 0 /\ receipt = None
    BY <2>1 DEF FacadeInv
  <2>3. p.limits \in Counters /\ used \in Counters
    BY <1>0, <2>1 DEF Profile, TypeOKEffects
  <2>4. \A i \in Indices' : /\ entry'[i].status = "pending" /\ entry'[i].attempts = 0
                            /\ ~entry'[i].cancel /\ entry'[i].event = 0
                            /\ entry'[i].witness.known = "none"
    BY <2>1
  <2>5. Tried' = {} /\ Attempts' = {}
    BY <2>4 DEF Tried, Attempts
  <2>6. Cardinality({}) = 0 /\ IsFiniteSet({})
    BY FS_EmptySet
  <2>7. CountersValid'
    <3>1. \A c \in DOMAIN used' : used'[c] <= profile'.limits[c]
      BY <2>1, <2>2, <2>3 DEF Counters
    <3>2. used'.retries = used'.executions - Cardinality(Tried')
      BY <2>1, <2>2, <2>5, <2>6
    <3>. QED
      BY <3>1, <3>2, <2>1, <2>2 DEF CountersValid, Tried
  <2>8. EntriesValid' /\ WitnessesValued'
    BY <2>4 DEF EntriesValid, WitnessesValued
  <2>9. AttemptsBounded'
    BY <2>1, <2>2, <2>4 DEF AttemptsBounded
  <2>10. AttemptsCounted' /\ IsFiniteSet(Attempts')
    BY <2>1, <2>2, <2>5, <2>6 DEF AttemptsCounted
  <2>. QED
    BY <2>1, <2>2, <2>7, <2>8, <2>9, <2>10 DEF FacadeInv
<1>3. ASSUME NEW i \in Indices, NEW kind \in {"execute_effect", "retry_effect"},
             AttemptOn(i, kind)
      PROVE  FacadeInv'
  BY <1>3, AttemptFacade
<1>4. ASSUME NEW i \in Indices
      PROVE  /\ used.requests \in Nat /\ used.executions \in Nat
             /\ used.retries \in Nat /\ used.reconciliations \in Nat
             /\ profile.limits.reconciliations \in Nat /\ generation \in Nat
             /\ used.executions + used.reconciliations <= used.requests
             /\ used.reconciliations <= profile.limits.reconciliations
             /\ generation = used.requests
             /\ entry[i] \in Occurrence
             /\ entry[i].attempts \in Nat
             /\ entry[i].attempts <= used.executions
             /\ entry[i].attempts <= used.retries + 1
             /\ entry[i].status # "pending" => entry[i].event # 0
             /\ entry[i].status \in {"applied", "not_applied"} => ~entry[i].cancel
  <2>1. profile # None /\ CountersValid
    BY DEF FacadeInv, Indices
  <2>2. entry[i] \in Occurrence
    BY <1>0, DeclaredEntry
  <2>3. entry[i].attempts \in Nat
    BY <2>2 DEF Occurrence
  <2>. QED
    BY <1>0, <2>1, <2>2, <2>3, CounterNumbers DEF FacadeInv, CountersValid, EntriesValid,
       AttemptsBounded
<1>5. ASSUME NEW i \in Indices, ReconcileOn(i)
      PROVE  FacadeInv'
  <2>. DEFINE e == Reconciled(entry[i])
              failure == IF e.status = "ambiguous" THEN "reconciliation_unknown" ELSE "none"
              value == entry[i].witness.value
  <2>1. /\ entry[i].status = "ambiguous" /\ used.requests < profile.limits.requests
        /\ used.reconciliations < profile.limits.reconciliations
        /\ Replaces(i, e)
        /\ receipt' = ReceiptOf("reconcile_effect", i, e, used', failure, None, e.witness.value)
    BY <1>5 DEF ReconcileOn
  <2>2. /\ e.attempts = entry[i].attempts /\ e.cancel = entry[i].cancel
        /\ e.witness = entry[i].witness
        /\ e.status = IF entry[i].witness.known = "applied" THEN "reconciled_applied"
                      ELSE IF entry[i].witness.known = "not_applied" THEN "reconciled_not_applied"
                      ELSE "ambiguous"
    BY <2>1, <1>4, ReconciledOccurrence
  <2>3. Spends(1, 0, 0, 1)
    BY <1>0, <1>5, Spending
  <2>4. entry[i].attempts > 0 /\ entry[i].event # 0
    BY <1>0, <1>4, <2>1 DEF AttemptsWitnessed
  <2>5. /\ entry[i].witness.known \in {"applied", "not_applied"} => value # None
        /\ entry[i].witness.known \notin {"applied", "not_applied"} => value = None
    <3>1. entry[i].witness.known \in {"not_applied", "applied", "unknown"}
      BY <1>0, <1>4, <2>4 DEF AttemptsWitnessed, Occurrence
    <3>. QED
      BY <3>1 DEF FacadeInv, WitnessesValued
  <2>6. /\ receipt'.kind = "reconcile_effect" /\ receipt'.status = e.status
        /\ receipt'.failure = failure /\ receipt'.attempt = entry[i].attempts
        /\ receipt'.recovers = entry[i].event
        /\ receipt'.before = None /\ receipt'.after = value
        /\ receipt'.counters = used' /\ receipt'.tick = generation + 1
    <3>. HIDE DEF failure, e
    <3>1. e.witness.value = value /\ e.attempts = entry[i].attempts
      BY <2>2
    <3>. HIDE DEF value
    <3>. QED
      BY <2>1, <3>1 DEF ReceiptOf
  <2>7. /\ receipt'.tick = receipt'.counters.requests /\ receipt'.tick > 0
        /\ receipt'.attempt # 0
        /\ receipt'.attempt <= receipt'.counters.executions
        /\ receipt'.attempt <= receipt'.counters.retries + 1
        /\ receipt'.counters.reconciliations > 0
    BY <1>4, <2>3, <2>4, <2>6 DEF Spends
  <2>8. /\ receipt'.status \in {"reconciled_applied", "reconciled_not_applied", "ambiguous"}
        /\ receipt'.before = None /\ receipt'.recovers # 0
        /\ IF receipt'.status = "ambiguous"
           THEN receipt'.after = None /\ receipt'.failure = "reconciliation_unknown"
           ELSE receipt'.after # None /\ receipt'.failure = "none"
    <3>. HIDE DEF e, value
    <3>. QED
      BY <2>2, <2>4, <2>5, <2>6
  <2>9. ReceiptAdmitted(receipt')
    BY <2>6, <2>7, <2>8 DEF ReceiptAdmitted
  <2>10. /\ e.status \notin {"pending", "applied", "not_applied", "cancelled"}
         /\ used.executions + used.reconciliations + 1 <= used.requests + 1
         /\ used.reconciliations + 1 <= profile.limits.reconciliations
    BY <1>4, <2>1, <2>2
  <2>. HIDE DEF e
  <2>. QED
    BY <2>1, <2>2, <2>3, <2>4, <2>9, <2>10, UnattemptedFacade
<1>6. ASSUME NEW i \in Indices, CancelOn(i)
      PROVE  FacadeInv'
  <2>. DEFINE e == Cancelled(entry[i])
  <2>1. /\ entry[i].status \notin Completed /\ used.requests < profile.limits.requests
        /\ Replaces(i, e)
        /\ receipt' = ReceiptOf("cancel_effect", i, e, used', "none", None, None)
    BY <1>6 DEF CancelOn
  <2>2. /\ e.attempts = entry[i].attempts /\ e.cancel = TRUE
        /\ e.witness = entry[i].witness
        /\ e.status = IF entry[i].status = "ambiguous" THEN "ambiguous" ELSE "cancelled"
    BY <1>4, CancelledOccurrence
  <2>3. Spends(1, 0, 0, 0)
    BY <1>0, <1>6, Spending
  <2>4. entry[i].status = "ambiguous" => entry[i].attempts > 0
    BY <1>0 DEF AttemptsWitnessed
  <2>5. /\ receipt'.kind = "cancel_effect" /\ receipt'.status = e.status
        /\ receipt'.failure = "none" /\ receipt'.attempt = e.attempts
        /\ receipt'.cancel = e.cancel
        /\ receipt'.before = None /\ receipt'.after = None
        /\ receipt'.counters = used' /\ receipt'.tick = generation + 1
    <3>. HIDE DEF e
    <3>. QED
      BY <2>1 DEF ReceiptOf
  <2>6. /\ receipt'.tick = receipt'.counters.requests /\ receipt'.tick > 0
        /\ receipt'.attempt = 0 => receipt'.status = "cancelled"
        /\ receipt'.attempt <= receipt'.counters.executions
        /\ receipt'.attempt <= receipt'.counters.retries + 1
        /\ receipt'.counters.executions + receipt'.counters.reconciliations
             < receipt'.counters.requests
        /\ receipt'.status \in {"cancelled", "ambiguous"} /\ receipt'.cancel
    <3>. HIDE DEF e
    <3>. QED
      BY <1>4, <2>2, <2>3, <2>4, <2>5 DEF Spends
  <2>7. ReceiptAdmitted(receipt')
    BY <2>5, <2>6 DEF ReceiptAdmitted
  <2>8. /\ e.status \notin {"pending", "applied", "not_applied"}
        /\ e.status # "cancelled" => entry[i].attempts > 0
        /\ used.executions + used.reconciliations + 0 <= used.requests + 1
        /\ used.reconciliations + 0 <= profile.limits.reconciliations
    BY <1>4, <2>2, <2>4
  <2>. HIDE DEF e
  <2>. QED
    BY <2>1, <2>2, <2>3, <2>7, <2>8, UnattemptedFacade
<1>. QED
  BY <1>0, <1>1, <1>2, <1>3, <1>5, <1>6, Steps

(***************************************************************************)
(* Every snapshot and every receipt of the native effect session passes    *)
(* the checks of the Python facade, so no command is committed and then    *)
(* raises.                                                                 *)
(***************************************************************************)
THEOREM FacadeSafety == SpecEffects => []FacadeAdmits
<1>1. InitEffects => FacadeInv
  <2>. SUFFICES ASSUME InitEffects PROVE FacadeInv
    OBVIOUS
  <2>1. Indices = {} /\ profile = None /\ receipt = None /\ generation = 0
    BY DEF InitEffects, Indices
  <2>2. /\ used.requests = 0 /\ used.executions = 0
        /\ used.retries = 0 /\ used.reconciliations = 0
    BY DEF InitEffects
  <2>3. Attempts = {}
    BY <2>1 DEF Attempts
  <2>. QED
    BY <2>1, <2>2, <2>3, FS_EmptySet
       DEF FacadeInv, EntriesValid, AttemptsCounted, WitnessesValued, AttemptsBounded
<1>2. EffectInv /\ EffectInv' /\ FacadeInv /\ [NextEffects]_effectVars => FacadeInv'
  BY NextFacade DEF EffectInv
<1>3. FacadeInv => FacadeAdmits
  BY DEF FacadeInv, FacadeAdmits, SnapshotValid
<1>. QED
  BY <1>1, <1>2, <1>3, EffectInvariant, PTL DEF SpecEffects
=============================================================================
