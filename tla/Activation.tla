------------------------------ MODULE Activation ------------------------------
(***************************************************************************)
(* Transport activation (src/ibae/transport_activation.py): the staged,    *)
(* default-off controller of model calls and selected HTTP reads, with the *)
(* adapters that use it (openai_transport.py, readonly_adapters.py).       *)
(*                                                                         *)
(* Threads share one controller.  Its lock covers short control changes    *)
(* and never a network call, so an operation is one action per section     *)
(* between two points where another thread may run; the operator may roll  *)
(* back, reconfigure or revoke at any of them.  A method that raises       *)
(* without having changed anything is no step.                             *)
(*                                                                         *)
(* Tool and resource of a selected read are one target, which the proposal *)
(* determines.  Orchestration states are numbered in the order in which    *)
(* they are made; a source binding is the state the projection shows.      *)
(***************************************************************************)
EXTENDS Integers, Sequences, FiniteSets

CONSTANTS
  Threads,      \* threads that share the controller
  Deployments,  \* transport policy and credential reference
  Proposals,    \* normalized proposals a model may return
  TargetOf,     \* the target a proposal reads
  Transcript,   \* the proposals of the smoke gate
  Limit,        \* maximum transport calls
  MaxEpoch,     \* 2^64 - 1 in the code
  MaxRetained,  \* proposals retained, 16 in the code
  MaxCaptures,  \* lifetime capture attempts, 16 in the code
  MaxHost,      \* bound: orchestration states made
  None

Stage == 0..3
Targets == {TargetOf[p] : p \in Proposals}

(***************************************************************************)
(* What an outstanding call binds, and what a passed gate is kept as.      *)
(***************************************************************************)
Reservations == [epoch : 0..MaxEpoch, stage : Stage, deployment : Deployments, call : Nat,
                 kind : {"openai", "selected_read"}, proposal : Proposals \cup {None}]
Gates == [epoch : 0..MaxEpoch, deployment : Deployments]

ASSUME ActivationAssumption ==
  /\ Limit \in Nat \ {0} /\ MaxEpoch \in Nat
  /\ MaxRetained \in Nat \ {0} /\ MaxCaptures \in Nat \ {0} /\ MaxHost \in Nat
  /\ DOMAIN TargetOf = Proposals
  /\ Transcript \in Seq(Proposals) /\ Transcript # <<>>
  /\ None \notin Nat /\ None \notin Reservations /\ None \notin Gates

VARIABLES
  ctl,         \* the controller and its ledger
  plans,       \* every capture plan made; only its call index changes
  thread,      \* what each thread is doing
  host,        \* the orchestration state the live native context shows
  made,        \* orchestration states made so far
  occurrences  \* occurrence keys the orchestration has admitted

activationVars == <<ctl, plans, thread, host, made, occurrences>>

Idle == [op |-> "none", pc |-> "idle", fence |-> None, source |-> 0,
         proposal |-> None, reservation |-> None, surface |-> FALSE, plan |-> 0,
         status |-> "none"]

(***************************************************************************)
(* What a long operation compares when it comes back.                      *)
(***************************************************************************)
Fence(c) ==
  [epoch |-> c.epoch, stage |-> c.stage, deployment |-> c.deployment, used |-> c.used,
   pending |-> c.pending, live |-> c.live, overflow |-> c.overflow,
   captures |-> c.captures, consumed |-> c.consumed, plan |-> c.plan, next |-> c.next,
   attempts |-> c.attempts, inflight |-> c.inflight, selections |-> c.selections]

Set(t, state) == thread' = [thread EXCEPT ![t] = state]

At(t, op, pc) == thread[t].op = op /\ thread[t].pc = pc

-----------------------------------------------------------------------------
(* _TransportLedger. *)

\* Mutant: a revoked ledger still reserves.
CanReserveRevoked(c) == c.pending = None /\ c.used < Limit

CanReserve(c) == ~c.revoked /\ c.pending = None /\ c.used < Limit

Reservation(c, kind, proposal) ==
  [epoch |-> c.epoch, stage |-> c.stage, deployment |-> c.deployment,
   call |-> c.used, kind |-> kind, proposal |-> proposal]

Reserve(c, r) ==
  [c EXCEPT !.used = @ + 1, !.pending = r,
            !.openai = IF r.kind = "openai" THEN @ + 1 ELSE @,
            !.reads = IF r.kind = "selected_read" THEN @ + 1 ELSE @]

(***************************************************************************)
(* check: call indexes are never reused, so they identify reservations.    *)
(***************************************************************************)
Holds(c, r) == c.pending = r /\ r.epoch = c.epoch /\ ~c.revoked

\* Mutant: completing a call clears whatever call is outstanding.
CompletedAny(c, r) == [c EXCEPT !.pending = None]

Completed(c, r) == [c EXCEPT !.pending = IF @ = r THEN None ELSE @]

Retire(c) == [c EXCEPT !.epoch = @ + 1, !.pending = None]

(***************************************************************************)
(* The last epoch cannot be retired: activation ends, and the operation    *)
(* raises before it does anything else.                                    *)
(***************************************************************************)
Exhaust(c) == [c EXCEPT !.revoked = TRUE, !.pending = None]

\* Mutant: the next orchestration state is forgotten with the rest.
ForgetNext(c) ==
  [c EXCEPT !.live = <<>>, !.overflow = FALSE, !.captures = <<>>,
            !.consumed = {}, !.plan = 0, !.selections = {}, !.next = None]

(***************************************************************************)
(* What every change of stage forgets.  Budgets, attempts, captures in     *)
(* flight and the next orchestration state are kept.                       *)
(***************************************************************************)
Forget(c) ==
  [c EXCEPT !.live = <<>>, !.overflow = FALSE, !.captures = <<>>,
            !.consumed = {}, !.plan = 0, !.selections = {}]

-----------------------------------------------------------------------------
(* The operator. *)

(***************************************************************************)
(* A controller made without a deployment can do nothing but be configured;*)
(* it is modelled from then on.                                            *)
(***************************************************************************)
InitActivation ==
  /\ ctl \in {[epoch |-> 0, revoked |-> FALSE, used |-> 0, openai |-> 0, reads |-> 0,
               pending |-> None, stage |-> 0, deployment |-> d, selected |-> {},
               observed |-> [s \in Stage |-> None], live |-> <<>>, overflow |-> FALSE,
               captures |-> <<>>, consumed |-> {}, plan |-> 0, next |-> None,
               attempts |-> <<>>, inflight |-> {}, selections |-> {}] : d \in Deployments}
  /\ plans = <<>>
  /\ thread = [t \in Threads |-> Idle]
  /\ host = 0 /\ made = 0
  /\ occurrences = {}

Control == UNCHANGED <<plans, thread, host, made, occurrences>>

Authorize(selected) ==
  /\ ~ctl.revoked
  /\ ctl.stage < 3
  /\ (selected # {}) <=> (ctl.stage = 2)
  /\ Cardinality(selected) <= MaxCaptures
  /\ ctl.pending = None
  /\ ctl.observed[ctl.stage] # None /\ ctl.observed[ctl.stage].epoch = ctl.epoch
  /\ ctl.used < Limit
  /\ ctl' = IF ctl.epoch = MaxEpoch THEN Exhaust(ctl)
            ELSE [Forget(Retire(ctl)) EXCEPT !.stage = @ + 1, !.selected = selected]
  /\ Control

RolledBack(c) ==
  [Forget(Retire(c)) EXCEPT !.stage = 0, !.selected = {},
                            !.observed = [s \in Stage |-> None]]

Rollback ==
  /\ ~ctl.revoked
  /\ ctl' = IF ctl.epoch = MaxEpoch THEN Exhaust(ctl) ELSE RolledBack(ctl)
  /\ Control

Configure(d) ==
  /\ ~ctl.revoked
  /\ d # ctl.deployment
  /\ ctl' = IF ctl.epoch = MaxEpoch THEN Exhaust(ctl)
            ELSE [RolledBack(ctl) EXCEPT !.deployment = d]
  /\ Control

(***************************************************************************)
(* Revocation leaves the stage as it is.                                   *)
(***************************************************************************)
RevokeTransport ==
  /\ ~ctl.revoked
  /\ ctl' = IF ctl.epoch = MaxEpoch THEN Exhaust(ctl)
            ELSE [Forget(Retire(ctl)) EXCEPT !.revoked = TRUE,
                                             !.observed = [s \in Stage |-> None]]
  /\ Control

Register(target) ==
  /\ ~ctl.revoked
  /\ ctl.stage = 3
  /\ target \in ctl.selected \ ctl.selections
  /\ ctl.live = <<>>
  /\ ctl.pending = None /\ ctl.plan = 0
  /\ ctl' = [ctl EXCEPT !.selections = @ \cup {target}]
  /\ Control

(***************************************************************************)
(* The host goes on to a newer orchestration state: the one its last       *)
(* capture made, or one made by work of its own.                           *)
(***************************************************************************)
HostAdvances ==
  /\ \/ ctl.next # None /\ ctl.next > host /\ host' = ctl.next /\ made' = made
     \/ made < MaxHost /\ host' = made + 1 /\ made' = made + 1
  /\ UNCHANGED <<ctl, plans, thread, occurrences>>

-----------------------------------------------------------------------------
(* propose: one model call. *)

ProposeBegins(t, source) ==
  /\ thread[t].pc = "idle"
  /\ ~ctl.revoked
  /\ Set(t, [Idle EXCEPT !.op = "propose", !.pc = "reserve", !.source = source,
                         !.fence = [epoch |-> ctl.epoch, stage |-> ctl.stage,
                                    used |-> ctl.used, deployment |-> ctl.deployment,
                                    selections |-> ctl.selections]])
  /\ UNCHANGED <<ctl, plans, host, made, occurrences>>

(***************************************************************************)
(* The supervisor was made for the stage that is active now, which need    *)
(* not be the one in which the call began.                                 *)
(***************************************************************************)
ReserveCall(t) ==
  /\ At(t, "propose", "reserve")
  /\ CanReserve(ctl)
  /\ ctl.stage # 0 /\ ctl.deployment = thread[t].fence.deployment
  /\ LET r == Reservation(ctl, "openai", None)
     IN  /\ ctl' = Reserve(ctl, r)
         /\ Set(t, [thread[t] EXCEPT !.pc = "send", !.reservation = r])
  /\ UNCHANGED <<plans, host, made, occurrences>>

ReserveRefused(t) ==
  /\ At(t, "propose", "reserve")
  /\ Set(t, Idle)
  /\ UNCHANGED <<ctl, plans, host, made, occurrences>>

(***************************************************************************)
(* What may change of the capture surface while its call is outstanding.   *)
(***************************************************************************)
Surface == ctl.plan # 0

CallCurrent(t) ==
  /\ Holds(ctl, thread[t].reservation)
  /\ thread[t].reservation.stage = ctl.stage
  /\ thread[t].reservation.deployment = ctl.deployment

SendRequest(t) ==
  /\ At(t, "propose", "send")
  /\ CallCurrent(t)
  /\ Set(t, [thread[t] EXCEPT !.pc = "wait", !.surface = Surface])
  /\ UNCHANGED <<ctl, plans, host, made, occurrences>>

ResponseArrives(t, proposal) ==
  /\ At(t, "propose", "wait")
  /\ CallCurrent(t) /\ thread[t].surface = Surface
  /\ Set(t, [thread[t] EXCEPT !.pc = "complete", !.proposal = proposal,
                              !.status = "received"])
  /\ UNCHANGED <<ctl, plans, host, made, occurrences>>

(***************************************************************************)
(* The call fails, times out, is malformed or fails a check.               *)
(***************************************************************************)
CallFails(t) ==
  /\ thread[t].pc \in {"send", "wait"}
  /\ Set(t, [thread[t] EXCEPT !.pc = "complete", !.status = "failed"])
  /\ UNCHANGED <<ctl, plans, host, made, occurrences>>

CompleteCall(t) ==
  /\ thread[t].pc = "complete"
  /\ ctl' = Completed(ctl, thread[t].reservation)
  /\ Set(t, IF thread[t].op = "capture" THEN [thread[t] EXCEPT !.pc = "conclude"]
            ELSE IF thread[t].status = "received" THEN [thread[t] EXCEPT !.pc = "retain"]
            ELSE Idle)
  /\ UNCHANGED <<plans, host, made, occurrences>>

\* Mutant: the stage alone is compared when the answer arrives.
PreservedStage(t) ==
  /\ ~ctl.revoked
  /\ ctl.stage = thread[t].fence.stage
  /\ ctl.pending = None

(***************************************************************************)
(* The controller has seen nothing but this call since it began.           *)
(***************************************************************************)
Preserved(t) ==
  LET fence == thread[t].fence
      r == thread[t].reservation
  IN /\ ~ctl.revoked
     /\ ctl.epoch = fence.epoch /\ ctl.stage = fence.stage
     /\ ctl.selections = fence.selections
     /\ ctl.used = fence.used + 1 /\ ctl.pending = None
     /\ r.epoch = ctl.epoch /\ r.call = fence.used /\ r.deployment = ctl.deployment

\* Mutant: the stream is not bounded.
RetainProposalUnbounded(t) ==
  /\ At(t, "propose", "retain")
  /\ Preserved(t)
  /\ ctl' = [ctl EXCEPT !.live = Append(@,
                [proposal |-> thread[t].proposal, source |-> thread[t].source,
                 epoch |-> thread[t].reservation.epoch,
                 call |-> thread[t].reservation.call])]
  /\ Set(t, Idle)
  /\ UNCHANGED <<plans, host, made, occurrences>>

RetainProposal(t) ==
  /\ At(t, "propose", "retain")
  /\ Preserved(t)
  /\ ctl' = IF Len(ctl.live) = MaxRetained THEN [ctl EXCEPT !.overflow = TRUE]
            ELSE [ctl EXCEPT !.live = Append(@,
                   [proposal |-> thread[t].proposal, source |-> thread[t].source,
                    epoch |-> thread[t].reservation.epoch,
                    call |-> thread[t].reservation.call])]
  /\ Set(t, Idle)
  /\ UNCHANGED <<plans, host, made, occurrences>>

(***************************************************************************)
(* The controller has moved on, or the network was not verified.           *)
(***************************************************************************)
DropProposal(t) ==
  /\ At(t, "propose", "retain")
  /\ Set(t, Idle)
  /\ UNCHANGED <<ctl, plans, host, made, occurrences>>

-----------------------------------------------------------------------------
(* capture_selected_read: one governed HTTP read. *)

Owned(p) ==
  \E i \in 1..Len(ctl.live) : ctl.live[i].proposal = p /\ ctl.live[i].source = host

CaptureAllowed(p) ==
  /\ ~ctl.revoked /\ ctl.stage = 3
  /\ ctl.plan = 0 /\ ctl.pending = None
  /\ Len(ctl.attempts) + Cardinality(ctl.inflight) < MaxCaptures
  /\ p \notin ctl.consumed
  /\ TargetOf[p] \in ctl.selected
  /\ Owned(p)
  /\ ctl.next # None => host = ctl.next

Occurrence == <<ctl.epoch, ctl.used>>

(***************************************************************************)
(* The typed admission takes place here, whatever becomes of the read:     *)
(* orchestration refuses an occurrence key it has admitted before.         *)
(***************************************************************************)
AdmitCapture(t, p) ==
  /\ thread[t].pc = "idle"
  /\ made < MaxHost
  /\ CaptureAllowed(p)
  /\ Occurrence \notin occurrences
  /\ LET plan == Len(plans) + 1
         c == [ctl EXCEPT !.next = made + 1, !.plan = plan,
                          !.consumed = @ \cup {p}, !.inflight = @ \cup {plan}]
     IN  /\ ctl' = c
         /\ Set(t, [Idle EXCEPT !.op = "capture", !.pc = "revalidate", !.fence = Fence(c),
                                !.source = host, !.proposal = p, !.plan = plan])
  /\ plans' = Append(plans, [proposal |-> p, call |-> None, next |-> made + 1])
  /\ made' = made + 1
  /\ occurrences' = occurrences \cup {Occurrence}
  /\ UNCHANGED host

Revalidate(t) ==
  /\ At(t, "capture", "revalidate")
  /\ thread[t].source = host
  /\ Set(t, [thread[t] EXCEPT !.pc = "reserve"])
  /\ UNCHANGED <<ctl, plans, host, made, occurrences>>

(***************************************************************************)
(* The native context has changed or the read cannot be reserved.          *)
(***************************************************************************)
CaptureRefused(t) ==
  /\ thread[t].op = "capture" /\ thread[t].pc \in {"revalidate", "reserve"}
  /\ Set(t, [thread[t] EXCEPT !.pc = "conclude", !.status = "failed"])
  /\ UNCHANGED <<ctl, plans, host, made, occurrences>>

(***************************************************************************)
(* _check_capture_plan compares what the plan says, not which plan it is.  *)
(***************************************************************************)
PlanMatches(t) == ctl.plan # 0 /\ plans[ctl.plan].proposal = thread[t].proposal

ReserveRead(t) ==
  /\ At(t, "capture", "reserve")
  /\ ctl.stage = 3 /\ TargetOf[thread[t].proposal] \in ctl.selected
  /\ PlanMatches(t) /\ plans[ctl.plan].call = None
  /\ CanReserve(ctl)
  /\ LET r == Reservation(ctl, "selected_read", thread[t].proposal)
     IN  /\ ctl' = Reserve(ctl, r)
         /\ plans' = [plans EXCEPT ![ctl.plan].call = r.call]
         /\ Set(t, [thread[t] EXCEPT !.pc = "send", !.reservation = r])
  /\ UNCHANGED <<host, made, occurrences>>

ReadCurrent(t) ==
  /\ CallCurrent(t)
  /\ ctl.stage = 3 /\ TargetOf[thread[t].proposal] \in ctl.selected
  /\ PlanMatches(t)

SendRead(t) ==
  /\ At(t, "capture", "send")
  /\ ReadCurrent(t)
  /\ Set(t, [thread[t] EXCEPT !.pc = "wait"])
  /\ UNCHANGED <<ctl, plans, host, made, occurrences>>

ReadArrives(t) ==
  /\ At(t, "capture", "wait")
  /\ ReadCurrent(t)
  /\ Set(t, [thread[t] EXCEPT !.pc = "complete", !.status = "received"])
  /\ UNCHANGED <<ctl, plans, host, made, occurrences>>

(***************************************************************************)
(* Nothing but this capture's own reservation has happened since.          *)
(***************************************************************************)
CaptureFenced(t) ==
  LET fence == thread[t].fence
      r == thread[t].reservation
  IN /\ ~ctl.revoked
     /\ r.epoch = fence.epoch /\ r.call = fence.used
     /\ Fence(ctl) = [fence EXCEPT !.used = @ + 1]
     /\ PlanMatches(t)

KeepCapture(t) ==
  /\ At(t, "capture", "conclude")
  /\ thread[t].status = "received"
  /\ thread[t].source = host
  /\ CaptureFenced(t)
  /\ ctl' = [ctl EXCEPT
       !.captures = Append(@, [target |-> TargetOf[thread[t].proposal], epoch |-> ctl.epoch,
                               call |-> thread[t].reservation.call]),
       !.next = plans[thread[t].plan].next]
  /\ Set(t, [thread[t] EXCEPT !.pc = "record", !.status = "captured"])
  /\ UNCHANGED <<plans, host, made, occurrences>>

LoseCapture(t) ==
  /\ At(t, "capture", "conclude")
  /\ Set(t, [thread[t] EXCEPT !.pc = "record", !.status =
       IF ctl.revoked \/ ctl.epoch # thread[t].fence.epoch THEN "interrupted"
       ELSE IF plans[thread[t].plan].call = None THEN "not_dispatched" ELSE "failed"])
  /\ UNCHANGED <<ctl, plans, host, made, occurrences>>

Recorded(c, t) ==
  [c EXCEPT !.attempts = Append(@, [epoch |-> thread[t].fence.epoch,
                                    call |-> plans[thread[t].plan].call,
                                    status |-> thread[t].status]),
            !.inflight = @ \ {thread[t].plan}]

\* Mutant: only a capture that is still current is recorded.
RecordAttemptCurrent(t) ==
  /\ At(t, "capture", "record")
  /\ ctl' = IF ctl.plan = thread[t].plan
            THEN [Recorded(ctl, t) EXCEPT !.plan = 0]
            ELSE [ctl EXCEPT !.inflight = @ \ {thread[t].plan}]
  /\ Set(t, Idle)
  /\ UNCHANGED <<plans, host, made, occurrences>>

(***************************************************************************)
(* The finally clause: the attempt is kept, the plan ended if it is still  *)
(* this one.                                                               *)
(***************************************************************************)
RecordAttempt(t) ==
  /\ At(t, "capture", "record")
  /\ ctl' = IF ctl.plan = thread[t].plan
            THEN [Recorded(ctl, t) EXCEPT !.plan = 0, !.next = plans[thread[t].plan].next]
            ELSE Recorded(ctl, t)
  /\ Set(t, Idle)
  /\ UNCHANGED <<plans, host, made, occurrences>>

-----------------------------------------------------------------------------
(* Stage verification: the probes run outside the lock. *)

Gate(c) == [epoch |-> c.epoch, deployment |-> c.deployment]

Covered(c) == {c.captures[i].target : i \in 1..Len(c.captures)}

GateReady(c) ==
  CASE c.stage = 0 -> TRUE
    [] c.stage \in {1, 2} ->
         /\ c.pending = None /\ ~c.overflow
         /\ [i \in 1..Len(c.live) |-> c.live[i].proposal] = Transcript
    [] OTHER -> c.pending = None /\ c.plan = 0 /\ c.selected # {} /\ Covered(c) = c.selected

VerifyBegins(t) ==
  /\ thread[t].pc = "idle"
  /\ ~ctl.revoked
  /\ GateReady(ctl)
  /\ Set(t, [Idle EXCEPT !.op = "verify", !.pc = "probe", !.fence = Fence(ctl)])
  /\ UNCHANGED <<ctl, plans, host, made, occurrences>>

\* Mutant: the verified stage is credited without looking again.
VerifyEndsUnfenced(t) ==
  /\ At(t, "verify", "probe")
  /\ ~ctl.revoked
  /\ ctl' = [ctl EXCEPT !.observed[ctl.stage] = Gate(ctl)]
  /\ Set(t, Idle)
  /\ UNCHANGED <<plans, host, made, occurrences>>

VerifyEnds(t) ==
  /\ At(t, "verify", "probe")
  /\ ~ctl.revoked
  /\ Fence(ctl) = thread[t].fence
  /\ ctl' = [ctl EXCEPT !.observed[ctl.stage] = Gate(ctl)]
  /\ Set(t, Idle)
  /\ UNCHANGED <<plans, host, made, occurrences>>

VerifyFails(t) ==
  /\ At(t, "verify", "probe")
  /\ Set(t, Idle)
  /\ UNCHANGED <<ctl, plans, host, made, occurrences>>

-----------------------------------------------------------------------------
Operator ==
  \/ \E selected \in SUBSET Targets : Authorize(selected)
  \/ Rollback
  \/ \E d \in Deployments : Configure(d)
  \/ RevokeTransport
  \/ \E target \in Targets : Register(target)

Starts(t) ==
  \/ \E source \in 0..host : ProposeBegins(t, source)
  \/ \E p \in Proposals : AdmitCapture(t, p)
  \/ VerifyBegins(t)

Continues(t) ==
  \/ ReserveCall(t) \/ ReserveRefused(t) \/ SendRequest(t)
  \/ \E p \in Proposals : ResponseArrives(t, p)
  \/ CallFails(t) \/ CompleteCall(t) \/ RetainProposal(t) \/ DropProposal(t)
  \/ Revalidate(t) \/ CaptureRefused(t) \/ ReserveRead(t) \/ SendRead(t) \/ ReadArrives(t)
  \/ KeepCapture(t) \/ LoseCapture(t) \/ RecordAttempt(t)
  \/ VerifyEnds(t) \/ VerifyFails(t)

NextActivation ==
  \/ Operator
  \/ HostAdvances
  \/ \E t \in Threads : Starts(t) \/ Continues(t)

SpecActivation == InitActivation /\ [][NextActivation]_activationVars

-----------------------------------------------------------------------------
(* Properties. *)

(***************************************************************************)
(* Types of the controller's state.                                        *)
(***************************************************************************)
TypeOKActivation ==
  /\ ctl.epoch \in 0..MaxEpoch /\ ctl.revoked \in BOOLEAN
  /\ ctl.used \in 0..Limit /\ ctl.stage \in Stage
  /\ ctl.deployment \in Deployments /\ ctl.selected \subseteq Targets
  /\ ctl.observed \in [Stage -> Gates \cup {None}]
  /\ Len(ctl.live) <= MaxRetained /\ ctl.overflow \in BOOLEAN
  /\ ctl.consumed \subseteq Proposals /\ ctl.selections \subseteq ctl.selected
  /\ ctl.plan \in 0..Len(plans) /\ ctl.inflight \subseteq 1..Len(plans)
  /\ ctl.next \in (1..made) \cup {None} /\ host \in 0..made

(***************************************************************************)
(* The reservations the controller reports (canonical_record raises        *)
(* otherwise): every call is of one of the two kinds, and each selected    *)
(* read is held by exactly one attempt or capture in flight, however many  *)
(* rollbacks interrupted it.                                               *)
(***************************************************************************)
Dispatched ==
  Cardinality({i \in 1..Len(ctl.attempts) : ctl.attempts[i].call # None})
    + Cardinality({i \in ctl.inflight : plans[i].call # None})

AccountingReconciles ==
  /\ ctl.openai + ctl.reads = ctl.used
  /\ Dispatched = ctl.reads
  /\ Len(ctl.attempts) + Cardinality(ctl.inflight) <= MaxCaptures

(***************************************************************************)
(* A call is outstanding for the controller exactly when one thread is in  *)
(* the middle of a call of this epoch, and never two are: no reservation   *)
(* leaks, and a late completion frees nobody else's.                       *)
(***************************************************************************)
Calling ==
  {t \in Threads : /\ thread[t].pc \in {"send", "wait", "complete"}
                   /\ thread[t].reservation.epoch = ctl.epoch}

SingleOutstanding ==
  ~ctl.revoked => /\ Cardinality(Calling) <= 1
                  /\ (ctl.pending = None) <=> (Calling = {})

(***************************************************************************)
(* Answers that come back late are dropped: whatever the controller keeps  *)
(* as evidence comes from a call of this very epoch, each call is used     *)
(* once, and proposals are kept in the order of their calls.               *)
(***************************************************************************)
EvidenceCurrent ==
  /\ \A i \in 1..Len(ctl.live) :
       /\ ctl.live[i].epoch = ctl.epoch
       /\ \A j \in 1..(i - 1) : ctl.live[j].call < ctl.live[i].call
  /\ \A i \in 1..Len(ctl.captures) :
       /\ ctl.captures[i].epoch = ctl.epoch /\ ctl.captures[i].target \in ctl.selected
       /\ \A j \in 1..(i - 1) : ctl.captures[j].call < ctl.captures[i].call
       /\ \A j \in 1..Len(ctl.live) : ctl.live[j].call # ctl.captures[i].call

(***************************************************************************)
(* The stages below the active one were passed one after the other, each   *)
(* in the epoch before the next and all under the active deployment; and a *)
(* gate that counts as passed now has its evidence, even if the controller *)
(* was rolled back or advanced while the probes were running.              *)
(***************************************************************************)
GatesEarned ==
  ~ctl.revoked =>
    /\ \A s \in 0..(ctl.stage - 1) :
         ctl.observed[s] = [epoch |-> ctl.epoch - ctl.stage + s, deployment |-> ctl.deployment]
    /\ ctl.observed[ctl.stage] = Gate(ctl) =>
         CASE ctl.stage = 0 -> TRUE
           [] ctl.stage \in {1, 2} ->
                /\ Len(Transcript) <= Len(ctl.live)
                /\ \A i \in 1..Len(Transcript) : ctl.live[i].proposal = Transcript[i]
           [] OTHER -> Covered(ctl) = ctl.selected

(***************************************************************************)
(* "The admission happened even if HTTP later fails or transport is rolled *)
(* back. Its host-state advancement cannot be silently lost": the state    *)
(* the next capture must start from is the one the last admission made.    *)
(***************************************************************************)
AdmissionsChained ==
  ctl.next = IF plans = <<>> THEN None ELSE plans[Len(plans)].next

(***************************************************************************)
(* A read on the wire belongs to the capture that holds its reservation.   *)
(* OPENAI_TRANSPORT_PROTOCOL.md: "Duplicate, stale and denied captures     *)
(* fail before GET."                                                       *)
(***************************************************************************)
ReadsOwnPlan ==
  \A t \in Threads :
    At(t, "capture", "wait") => plans[thread[t].plan].call = thread[t].reservation.call

(***************************************************************************)
(* After revocation no thread reserves, retains, captures or passes a gate *)
(* any more, however far it had come.                                      *)
(***************************************************************************)
RevokedSilent ==
  [][ctl.revoked =>
       /\ ctl'.revoked /\ ctl'.used = ctl.used /\ ctl'.pending = ctl.pending
       /\ ctl'.live = ctl.live /\ ctl'.captures = ctl.captures
       /\ ctl'.observed = ctl.observed]_activationVars
=============================================================================
