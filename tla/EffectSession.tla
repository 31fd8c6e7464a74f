----------------------------- MODULE EffectSession -----------------------------
(***************************************************************************)
(* The governed synthetic effects (rust/src/effects.rs, src/ibae/          *)
(* effects.py): a task's one effect ledger, with its cells, its journal of *)
(* occurrences in declared order, its finite budgets and its single        *)
(* pending approval.  Every command needs an approval that names the exact *)
(* state, and is consumed with it.  An attempt follows the outcome plan    *)
(* the profile has committed: it may fail before the effect, or lose its   *)
(* acknowledgement before or after it; then only reconciliation with the   *)
(* journal tells whether the occurrence may be tried again.                *)
(*                                                                         *)
(* A state id is the hash of a snapshot that holds the generation and the  *)
(* epoch; here it is the generation, and the epoch is compared on its own. *)
(* A command that is refused raises and changes nothing.                   *)
(***************************************************************************)
EXTENDS Integers, Sequences, FiniteSets

CONSTANTS
  Cells,             \* keys of the synthetic cells
  MinCell, MaxCell,  \* the signed 64-bit range, scaled down
  Profiles,          \* the profiles a task may have committed to
  None               \* no profile, receipt or evidence

Value == MinCell..MaxCell
Scenario == {"success", "fail_before", "crash_after", "crash_before",
             "ambiguous_unknown"}
Kind == {"execute_effect", "retry_effect", "reconcile_effect", "cancel_effect"}
Status == {"pending", "not_applied", "applied", "ambiguous", "cancelled",
           "reconciled_applied", "reconciled_not_applied"}

(***************************************************************************)
(* An entry of the manifest and the whole profile; identities, governance  *)
(* receipts and admissions are checked once, at attachment.                *)
(***************************************************************************)
Declaration == [operation : {"set", "increment"}, key : Cells, operand : Value,
                expected : Value, outcomes : Seq(Scenario)]
Counters == [requests : Nat, executions : Nat, retries : Nat, reconciliations : Nat]
Profile == [limits : Counters, cells : [Cells -> Value], entries : Seq(Declaration)]

ProfileValid(p) ==
  /\ p.limits.requests \in 1..4096
  /\ p.limits.executions \in 1..1024
  /\ p.limits.retries <= 1024 /\ p.limits.reconciliations <= 1024
  /\ Len(p.entries) \in 1..64
  /\ \A i \in 1..Len(p.entries) : Len(p.entries[i].outcomes) \in 1..16

ASSUME EffectAssumption ==
  /\ MinCell \in Int /\ MaxCell \in Int /\ MinCell <= MaxCell
  /\ Profiles \subseteq Profile
  /\ \A p \in Profiles : ProfileValid(p)
  /\ None \notin Profile /\ None \notin Value

VARIABLES
  authority,   \* the epoch shared with the task's runtime session
  lineage,     \* the task's continuation lineage, as attachment sees it
  profile,     \* the committed profile, None before attachment
  cells,       \* the synthetic world
  entry,       \* the occurrence journal, one record per declared entry
  used,        \* the counters spent
  generation,  \* committed commands
  approvals,   \* every approval seal issued
  pending,     \* the index of the one that may be dispatched, 0 for none
  receipt,     \* the receipt of the last command
  applied      \* history: occurrences in the order their effects happened

ledgerVars == <<profile, cells, entry, used, generation, receipt, applied>>
effectVars == <<authority, lineage, ledgerVars, approvals, pending>>

Declared(i) == profile.entries[i]
Indices == IF profile = None THEN {} ELSE 1..Len(profile.entries)

-----------------------------------------------------------------------------
(* check_command. *)

Completed == {"applied", "cancelled", "reconciled_applied"}

SequenceTerminal(e) ==
  e.status \in Completed \/ (e.cancel /\ e.status = "reconciled_not_applied")

Outcome(i) == Declared(i).outcomes[entry[i].attempts + 1]
Matches(i) == cells[Declared(i).key] = Declared(i).expected

\* Mutant: the precondition is reported but not enforced.
AppliesRegardless(i) == Outcome(i) \notin {"fail_before", "crash_before"}

(***************************************************************************)
(* The attempt reaches the cell.                                           *)
(***************************************************************************)
Applies(i) == Matches(i) /\ Outcome(i) \notin {"fail_before", "crash_before"}

(***************************************************************************)
(* What the attempt would leave in the cell.                               *)
(***************************************************************************)
After(i) ==
  IF Declared(i).operation = "set" THEN Declared(i).operand
  ELSE cells[Declared(i).key] + Declared(i).operand

\* Mutant: a cancelled occurrence may still be retried.
AttemptableCancelled(kind, i) ==
  /\ \A j \in 1..(i - 1) : SequenceTerminal(entry[j])
  /\ IF kind = "execute_effect" THEN entry[i].status = "pending"
     ELSE /\ entry[i].status \in {"not_applied", "reconciled_not_applied"}
          /\ used.retries < profile.limits.retries
  /\ used.executions < profile.limits.executions
  /\ entry[i].attempts < Len(Declared(i).outcomes)
  /\ Applies(i) => After(i) \in Value

\* Mutant: a predecessor that has been attempted no longer blocks.
AttemptableOutOfOrder(kind, i) ==
  /\ ~entry[i].cancel
  /\ \A j \in 1..(i - 1) : entry[j].status # "pending"
  /\ IF kind = "execute_effect" THEN entry[i].status = "pending"
     ELSE /\ entry[i].status \in {"not_applied", "reconciled_not_applied"}
          /\ used.retries < profile.limits.retries
  /\ used.executions < profile.limits.executions
  /\ entry[i].attempts < Len(Declared(i).outcomes)
  /\ Applies(i) => After(i) \in Value

\* Mutant: the addition is not checked before it is reserved.
AttemptableUnchecked(kind, i) ==
  /\ ~entry[i].cancel
  /\ \A j \in 1..(i - 1) : SequenceTerminal(entry[j])
  /\ IF kind = "execute_effect" THEN entry[i].status = "pending"
     ELSE /\ entry[i].status \in {"not_applied", "reconciled_not_applied"}
          /\ used.retries < profile.limits.retries
  /\ used.executions < profile.limits.executions
  /\ entry[i].attempts < Len(Declared(i).outcomes)

Attemptable(kind, i) ==
  /\ ~entry[i].cancel
  /\ \A j \in 1..(i - 1) : SequenceTerminal(entry[j])
  /\ IF kind = "execute_effect" THEN entry[i].status = "pending"
     ELSE /\ entry[i].status \in {"not_applied", "reconciled_not_applied"}
          /\ used.retries < profile.limits.retries
  /\ used.executions < profile.limits.executions
  /\ entry[i].attempts < Len(Declared(i).outcomes)
  /\ Applies(i) => After(i) \in Value

Admissible(kind, i, state) ==
  /\ ~authority.revoked
  /\ state = generation
  /\ used.requests < profile.limits.requests
  /\ CASE kind = "reconcile_effect" ->
            /\ entry[i].status = "ambiguous"
            /\ used.reconciliations < profile.limits.reconciliations
       [] kind = "cancel_effect" -> ~entry[i].cancel /\ entry[i].status \notin Completed
       [] OTHER -> Attemptable(kind, i)

-----------------------------------------------------------------------------
(* The ledger is attached to its task once. *)

InitEffects ==
  /\ authority = [epoch |-> 0, revoked |-> FALSE]
  /\ lineage = "uninitialized"
  /\ profile = None
  /\ cells = [k \in Cells |-> MinCell]
  /\ entry = <<>>
  /\ used = [requests |-> 0, executions |-> 0, retries |-> 0, reconciliations |-> 0]
  /\ generation = 0
  /\ approvals = <<>> /\ pending = 0
  /\ receipt = None
  /\ applied = <<>>

(***************************************************************************)
(* The continuation lineage (Continuation.tla) only matters until the      *)
(* ledger is attached.                                                     *)
(***************************************************************************)
LineageMoves ==
  /\ profile = None
  /\ ~authority.revoked
  /\ lineage' = IF lineage = "ready" THEN "transitioning" ELSE "ready"
  /\ UNCHANGED <<authority, ledgerVars, approvals, pending>>

Attach(p) ==
  /\ ~authority.revoked
  /\ lineage = "ready"
  /\ profile = None
  /\ profile' = p
  /\ cells' = p.cells
  /\ entry' = [i \in 1..Len(p.entries) |->
                 [status |-> "pending", attempts |-> 0, cancel |-> FALSE, event |-> 0,
                  witness |-> [known |-> "none", value |-> None]]]
  /\ UNCHANGED <<authority, lineage, used, generation, approvals, pending, receipt, applied>>

RevokeEffects ==
  /\ ~authority.revoked
  /\ authority' = [epoch |-> authority.epoch + 1, revoked |-> TRUE]
  /\ UNCHANGED <<lineage, ledgerVars, approvals, pending>>

-----------------------------------------------------------------------------
(* Approvals. *)

(***************************************************************************)
(* The pending approval of an execution or a retry may be replaced, once,  *)
(* by a cancellation of the same occurrence in the same state.             *)
(***************************************************************************)
SlotFree(kind, i) ==
  pending # 0 =>
     /\ kind = "cancel_effect"
     /\ approvals[pending].kind \in {"execute_effect", "retry_effect"}
     /\ approvals[pending].entry = i
     /\ approvals[pending].state = generation
     /\ ~approvals[pending].used

(***************************************************************************)
(* The seals after the pending one, if any, has been used up.              *)
(***************************************************************************)
Retired == IF pending = 0 THEN approvals ELSE [approvals EXCEPT ![pending].used = TRUE]

Seal(kind, i) == [kind |-> kind, entry |-> i, state |-> generation,
                  epoch |-> authority.epoch, used |-> FALSE]

\* Mutant: the command is checked only when it is dispatched.
AuthorizeUnchecked(kind, i) ==
  /\ ~authority.revoked
  /\ used.requests < profile.limits.requests
  /\ SlotFree(kind, i)
  /\ approvals' = Append(Retired, Seal(kind, i))
  /\ pending' = Len(approvals) + 1
  /\ UNCHANGED <<authority, lineage, ledgerVars>>

Authorize(kind, i) ==
  /\ Admissible(kind, i, generation)
  /\ SlotFree(kind, i)
  /\ approvals' = Append(Retired, Seal(kind, i))
  /\ pending' = Len(approvals) + 1
  /\ UNCHANGED <<authority, lineage, ledgerVars>>

-----------------------------------------------------------------------------
(* Dispatch. *)

(***************************************************************************)
(* A caller may present any seal it was ever given; only the pending one,  *)
(* unused and of the current epoch, with its own command, is accepted.     *)
(***************************************************************************)
Presented(a) ==
  /\ approvals[a].epoch = authority.epoch
  /\ ~approvals[a].used
  /\ pending = a
  /\ Admissible(approvals[a].kind, approvals[a].entry, approvals[a].state)

Applied(e) ==
  CASE e.status \in {"applied", "reconciled_applied"} -> "yes"
    [] e.status = "ambiguous" -> "unknown"
    [] OTHER -> "no"

(***************************************************************************)
(* The tail of every command: the generation, the event, the receipt and   *)
(* the use of the approval.  e is the occurrence after the command.        *)
(***************************************************************************)
CommitCommand(a, e, spending, failure, before, after) ==
  LET i == approvals[a].entry
      kind == approvals[a].kind
  IN /\ generation' = generation + 1
     /\ entry' = [entry EXCEPT ![i] = [e EXCEPT !.event = generation + 1]]
     /\ used' = spending
     /\ receipt' = [kind |-> kind, entry |-> i, status |-> e.status,
                    applied |-> Applied(e), failure |-> failure,
                    attempt |-> e.attempts, cancel |-> e.cancel,
                    recovers |-> IF kind = "execute_effect" THEN 0 ELSE entry[i].event,
                    before |-> before, after |-> after,
                    counters |-> spending, tick |-> generation + 1]
     /\ approvals' = [approvals EXCEPT ![a].used = TRUE]
     /\ pending' = 0
     /\ UNCHANGED <<authority, lineage, profile>>

(***************************************************************************)
(* The occurrence after an attempt that follows its planned outcome.       *)
(***************************************************************************)
Attempted(i) ==
  LET was == cells[Declared(i).key]
  IN [entry[i] EXCEPT
        !.attempts = @ + 1,
        !.status = IF ~Matches(i) \/ Outcome(i) = "fail_before" THEN "not_applied"
                   ELSE IF Outcome(i) = "success" THEN "applied" ELSE "ambiguous",
        !.witness = IF ~Applies(i) THEN [known |-> "not_applied", value |-> was]
                    ELSE IF Outcome(i) = "ambiguous_unknown"
                    THEN [known |-> "unknown", value |-> None]
                    ELSE [known |-> "applied", value |-> After(i)]]

\* Mutant: the planned outcome names the failure, whatever the precondition.
AttemptFailurePlanned(i) ==
  CASE Outcome(i) = "fail_before" -> "synthetic_failure_before"
    [] Outcome(i) = "success" -> "none"
    [] OTHER -> "acknowledgement_lost"

AttemptFailure(i) ==
  CASE ~Matches(i) -> "precondition_mismatch"
    [] Matches(i) /\ Outcome(i) = "fail_before" -> "synthetic_failure_before"
    [] Matches(i) /\ Outcome(i) = "success" -> "none"
    [] OTHER -> "acknowledgement_lost"

Attempt(a) ==
  LET i == approvals[a].entry
      key == Declared(i).key
      e == Attempted(i)
      retry == IF approvals[a].kind = "retry_effect" THEN 1 ELSE 0
  IN /\ approvals[a].kind \in {"execute_effect", "retry_effect"}
     /\ Presented(a)
     /\ cells' = IF Applies(i) THEN [cells EXCEPT ![key] = After(i)] ELSE cells
     /\ applied' = IF Applies(i) THEN Append(applied, i) ELSE applied
     /\ CommitCommand(a, e,
          [used EXCEPT !.requests = @ + 1, !.executions = @ + 1, !.retries = @ + retry],
          AttemptFailure(i), cells[key],
          IF e.status = "ambiguous" THEN None ELSE cells'[key])

\* Mutant: an unknown journal is taken for an effect that never happened.
ReconciledOptimistic(e) ==
  IF e.witness.known = "applied" THEN [e EXCEPT !.status = "reconciled_applied"]
  ELSE [e EXCEPT !.status = "reconciled_not_applied"]

Reconciled(e) ==
  CASE e.witness.known = "applied" -> [e EXCEPT !.status = "reconciled_applied"]
    [] e.witness.known = "not_applied" -> [e EXCEPT !.status = "reconciled_not_applied"]
    [] OTHER -> e

Reconcile(a) ==
  LET i == approvals[a].entry
      e == Reconciled(entry[i])
  IN /\ approvals[a].kind = "reconcile_effect"
     /\ Presented(a)
     /\ CommitCommand(a, e,
          [used EXCEPT !.requests = @ + 1, !.reconciliations = @ + 1],
          IF e.status = "ambiguous" THEN "reconciliation_unknown" ELSE "none",
          None, e.witness.value)
     /\ UNCHANGED <<cells, applied>>

(***************************************************************************)
(* An ambiguous occurrence stays ambiguous when it is cancelled.           *)
(***************************************************************************)
Cancelled(e) ==
  [e EXCEPT !.cancel = TRUE,
            !.status = IF @ = "ambiguous" THEN @ ELSE "cancelled"]

Cancel(a) ==
  /\ approvals[a].kind = "cancel_effect"
  /\ Presented(a)
  /\ CommitCommand(a, Cancelled(entry[approvals[a].entry]),
                   [used EXCEPT !.requests = @ + 1], "none", None, None)
  /\ UNCHANGED <<cells, applied>>

NextEffects ==
  \/ LineageMoves
  \/ \E p \in Profiles : Attach(p)
  \/ RevokeEffects
  \/ \E kind \in Kind, i \in Indices : Authorize(kind, i)
  \/ \E a \in 1..Len(approvals) : Attempt(a)
  \/ \E a \in 1..Len(approvals) : Reconcile(a)
  \/ \E a \in 1..Len(approvals) : Cancel(a)

SpecEffects == InitEffects /\ [][NextEffects]_effectVars

-----------------------------------------------------------------------------
(* Properties. *)

Approval == [kind : Kind, entry : Nat \ {0}, state : Nat, epoch : Nat, used : BOOLEAN]
Occurrence == [status : Status, attempts : Nat, cancel : BOOLEAN, event : Nat,
               witness : [known : {"none", "not_applied", "applied", "unknown"},
                          value : Value \cup {None}]]

(***************************************************************************)
(* Every variable has its type; cells stay in the signed range, so the     *)
(* addition of an increment never panics.                                  *)
(***************************************************************************)
TypeOKEffects ==
  /\ authority \in [epoch : Nat, revoked : BOOLEAN]
  /\ lineage \in {"uninitialized", "ready", "transitioning"}
  /\ profile \in Profiles \cup {None}
  /\ cells \in [Cells -> Value]
  /\ entry \in [Indices -> Occurrence]
  /\ used \in Counters
  /\ generation \in Nat
  /\ approvals \in Seq(Approval)
  /\ pending \in 0..Len(approvals)
  /\ applied \in Seq(Indices)

(***************************************************************************)
(* What the journal says happened is what happened, lost acknowledgements, *)
(* retries and cancellations included: an occurrence reported as applied   *)
(* was applied, one reported as not applied or cancelled was not, and a    *)
(* known witness is right about an ambiguous one.                          *)
(***************************************************************************)
Happened(i) == \E n \in 1..Len(applied) : applied[n] = i

JournalTruthful ==
  \A i \in Indices :
    /\ entry[i].status \in {"applied", "reconciled_applied"} => Happened(i)
    /\ entry[i].status \in {"pending", "not_applied", "cancelled",
                             "reconciled_not_applied"} => ~Happened(i)
    /\ entry[i].witness.known \in {"none", "not_applied"} => ~Happened(i)
    /\ entry[i].witness.known \in {"applied", "unknown"} => Happened(i)

(***************************************************************************)
(* Effects happen in the declared order and each at most once: never a     *)
(* later one before an earlier one that may still happen.                  *)
(***************************************************************************)
DeclaredOrder ==
  /\ \A m, n \in 1..Len(applied) : m < n => applied[m] < applied[n]
  /\ \A i, j \in Indices :
       i < j /\ entry[j].attempts > 0 => SequenceTerminal(entry[i])

(***************************************************************************)
(* Every cell holds what the last effect on it wrote, or its initial       *)
(* value: a refused precondition protects what it found.                   *)
(***************************************************************************)
Written(d) == IF d.operation = "set" THEN d.operand ELSE d.expected + d.operand

On(key) == {n \in 1..Len(applied) : Declared(applied[n]).key = key}

WorldExplained ==
  profile # None =>
    \A key \in Cells :
      /\ On(key) = {} => cells[key] = profile.cells[key]
      /\ \A n \in On(key) :
           (\A m \in On(key) : m <= n) => cells[key] = Written(Declared(applied[n]))

(***************************************************************************)
(* What EffectSnapshot (src/ibae/effects.py) demands of a native snapshot. *)
(***************************************************************************)
Attempts == UNION {{i} \X (1..entry[i].attempts) : i \in Indices}

(***************************************************************************)
(* The attempts of all entries add up to the executions.                   *)
(***************************************************************************)
AttemptsCounted == Cardinality(Attempts) = used.executions

CountersValid ==
  /\ \A c \in DOMAIN used : used[c] <= profile.limits[c]
  /\ used.executions + used.reconciliations <= used.requests
  /\ used.retries <= used.executions
  /\ generation = used.requests
  /\ used.retries = used.executions - Cardinality({i \in Indices : entry[i].attempts > 0})

EntriesValid ==
  \A i \in Indices :
    LET e == entry[i]
    IN /\ e.status = "cancelled" => e.cancel
       /\ e.status \in {"pending", "applied", "not_applied"} => ~e.cancel
       /\ e.status = "pending" => e.attempts = 0 /\ e.event = 0
       /\ e.status # "pending" =>
            e.event # 0 /\ (e.attempts > 0 \/ e.status = "cancelled")

SnapshotValid == CountersValid /\ EntriesValid /\ AttemptsCounted

(***************************************************************************)
(* What EffectReceipt demands of the receipt of a command.                 *)
(***************************************************************************)
ReceiptAdmitted(r) ==
  /\ r.tick = r.counters.requests /\ r.tick > 0
  /\ r.attempt = 0 => r.status = "cancelled"
  /\ r.attempt <= r.counters.executions /\ r.attempt <= r.counters.retries + 1
  /\ r.status \in {"applied", "not_applied"} => ~r.cancel
  /\ CASE r.kind \in {"execute_effect", "retry_effect"} ->
            /\ r.status \in {"applied", "not_applied", "ambiguous"} /\ r.before # None
            /\ IF r.kind = "execute_effect" THEN r.attempt = 1 /\ r.recovers = 0
               ELSE r.attempt >= 2 /\ r.recovers # 0
            /\ CASE r.status = "ambiguous" ->
                       r.after = None /\ r.failure = "acknowledgement_lost"
                 [] r.status = "not_applied" ->
                       /\ r.failure \in {"synthetic_failure_before", "precondition_mismatch"}
                       /\ r.before = r.after
                 [] OTHER -> r.after # None /\ r.failure = "none"
       [] r.kind = "reconcile_effect" ->
            /\ r.counters.reconciliations > 0
            /\ r.before = None /\ r.recovers # 0
            /\ IF r.status = "ambiguous"
               THEN r.after = None /\ r.failure = "reconciliation_unknown"
               ELSE /\ r.status \in {"reconciled_applied", "reconciled_not_applied"}
                    /\ r.after # None /\ r.failure = "none"
       [] OTHER ->
            /\ r.counters.executions + r.counters.reconciliations < r.counters.requests
            /\ r.status \in {"cancelled", "ambiguous"} /\ r.cancel
            /\ r.before = None /\ r.after = None /\ r.failure = "none"

(***************************************************************************)
(* Whatever was attempted, lost, reconciled or cancelled, the facade       *)
(* accepts receipt and snapshot: no command is committed and then raises,  *)
(* the session stays readable, and commands, which are prepared from a     *)
(* snapshot, can still be made.                                            *)
(***************************************************************************)
FacadeAdmits ==
  /\ profile # None => SnapshotValid
  /\ receipt # None => ReceiptAdmitted(receipt)

(***************************************************************************)
(* The pending approval can always be dispatched while authority lasts, so *)
(* the session's only slot is never wedged by an approval gone stale.      *)
(***************************************************************************)
PendingDispatchable ==
  pending # 0 /\ ~authority.revoked => Presented(pending)

(***************************************************************************)
(* Cancellation is final, for approvals issued before it as well: the      *)
(* occurrence is never attempted again, whatever reconciliation finds.     *)
(***************************************************************************)
CancellationFinal ==
  [][\A i \in Indices : entry[i].cancel =>
       entry'[i].cancel /\ entry'[i].attempts = entry[i].attempts]_effectVars
=============================================================================
