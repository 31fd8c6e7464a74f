--------------------------- MODULE ActivationProofs ---------------------------
(***************************************************************************)
(* Machine-checked proofs about Activation, for every number of threads,   *)
(* every set of proposals and targets and all limits.                      *)
(*                                                                         *)
(* Steps says what each step does to the controller and to the thread that *)
(* takes it, field by field; one lemma per part of the invariant then goes *)
(* through those few kinds of steps.  What a thread knows when it comes    *)
(* back (its reservation, its fence, its plan) is related to the           *)
(* controller by CallInv, FreshInv, CaptureInv and VerifyInv.              *)
(***************************************************************************)
EXTENDS Activation, TLAPS, FiniteSetTheorems, SequenceTheorems

-----------------------------------------------------------------------------
(* Types. *)

CallStatus == {"none", "received", "failed", "captured", "interrupted", "not_dispatched"}

KeptProposal == [proposal : Proposals \cup {None}, source : Nat, epoch : Nat, call : Nat]

KeptCapture == [target : Targets, epoch : Nat, call : Nat]

Attempt == [epoch : Nat, call : Nat \cup {None}, status : CallStatus]

Plan == [proposal : Proposals, call : Nat \cup {None}, next : Nat]

Controller ==
  [epoch : 0..MaxEpoch, revoked : BOOLEAN, used : 0..Limit, openai : Nat, reads : Nat,
   pending : Reservations \cup {None}, stage : Stage, deployment : Deployments,
   selected : SUBSET Targets, observed : [Stage -> Gates \cup {None}],
   live : Seq(KeptProposal), overflow : BOOLEAN, captures : Seq(KeptCapture),
   consumed : SUBSET Proposals, plan : Nat, next : Nat \cup {None},
   attempts : Seq(Attempt), inflight : SUBSET Nat, selections : SUBSET Targets]

CallFence == [epoch : 0..MaxEpoch, stage : Stage, used : Nat, deployment : Deployments,
              selections : SUBSET Targets]

FullFence ==
  [epoch : 0..MaxEpoch, stage : Stage, deployment : Deployments, used : Nat,
   pending : Reservations \cup {None}, live : Seq(KeptProposal), overflow : BOOLEAN,
   captures : Seq(KeptCapture), consumed : SUBSET Proposals, plan : Nat,
   next : Nat \cup {None}, attempts : Seq(Attempt), inflight : SUBSET Nat,
   selections : SUBSET Targets]

ThreadState ==
  [op : {"none", "propose", "capture", "verify"},
   pc : {"idle", "reserve", "send", "wait", "complete", "retain", "revalidate",
         "conclude", "record", "probe"},
   fence : CallFence \cup FullFence \cup {None}, source : Nat,
   proposal : Proposals \cup {None}, reservation : Reservations \cup {None},
   surface : BOOLEAN, plan : Nat, status : CallStatus]

(***************************************************************************)
(* Where the operations of a thread may be.                                *)
(***************************************************************************)
Shape(s) ==
  /\ s.op = "none" => s.pc = "idle"
  /\ s.op = "propose" => s.pc \in {"reserve", "send", "wait", "complete", "retain"}
  /\ s.op = "capture" => /\ s.pc \in {"revalidate", "reserve", "send", "wait", "complete",
                                      "conclude", "record"}
                         /\ s.fence \in FullFence /\ s.proposal \in Proposals
  /\ s.op = "verify" => s.pc = "probe" /\ s.fence \in FullFence

(***************************************************************************)
(* The capture plan in force is the last one made and is in flight.        *)
(***************************************************************************)
PlanInv ==
  /\ \A i \in 1..Len(plans) : plans[i].next \in 1..made
  /\ ctl.inflight \subseteq 1..Len(plans)
  /\ ctl.plan # 0 => ctl.plan = Len(plans) /\ ctl.plan \in ctl.inflight
  /\ \A t \in Threads : thread[t].op = "capture" => thread[t].plan \in ctl.inflight
  /\ \A t, u \in Threads :
       t # u /\ thread[t].op = "capture" /\ thread[u].op = "capture"
         => thread[t].plan # thread[u].plan

ActivationTypes ==
  /\ ctl \in Controller
  /\ plans \in Seq(Plan)
  /\ thread \in [Threads -> ThreadState]
  /\ \A t \in Threads : Shape(thread[t])
  /\ host \in Nat /\ made \in Nat
  /\ PlanInv
  /\ TypeOKActivation

(***************************************************************************)
(* The constants of the controller.                                        *)
(***************************************************************************)
LEMMA Constants ==
  /\ Limit \in Nat /\ Limit > 0 /\ MaxEpoch \in Nat
  /\ MaxRetained \in Nat /\ MaxRetained > 0 /\ MaxCaptures \in Nat
  /\ None \notin Nat /\ None \notin Reservations /\ None \notin Gates
  /\ \A p \in Proposals : TargetOf[p] \in Targets
  /\ Transcript \in Seq(Proposals)
BY ActivationAssumption DEF Targets

(***************************************************************************)
(* The fields of the controller.                                           *)
(***************************************************************************)
LEMMA ControllerFields ==
  ASSUME NEW c \in Controller
  PROVE  /\ c.epoch \in 0..MaxEpoch /\ c.revoked \in BOOLEAN /\ c.used \in 0..Limit
         /\ c.openai \in Nat /\ c.reads \in Nat /\ c.pending \in Reservations \cup {None}
         /\ c.stage \in Stage /\ c.deployment \in Deployments /\ c.selected \subseteq Targets
         /\ c.observed \in [Stage -> Gates \cup {None}]
         /\ c.live \in Seq(KeptProposal) /\ c.overflow \in BOOLEAN
         /\ c.captures \in Seq(KeptCapture) /\ c.consumed \subseteq Proposals
         /\ c.plan \in Nat /\ c.next \in Nat \cup {None} /\ c.attempts \in Seq(Attempt)
         /\ c.inflight \subseteq Nat /\ c.selections \subseteq Targets
BY DEF Controller

(***************************************************************************)
(* The fields of a thread.                                                 *)
(***************************************************************************)
LEMMA ThreadFields ==
  ASSUME NEW s \in ThreadState
  PROVE  /\ s.fence \in CallFence \cup FullFence \cup {None} /\ s.source \in Nat
         /\ s.proposal \in Proposals \cup {None}
         /\ s.reservation \in Reservations \cup {None}
         /\ s.surface \in BOOLEAN /\ s.plan \in Nat /\ s.status \in CallStatus
BY DEF ThreadState

(***************************************************************************)
(* Parts of the controller, to say what a step leaves alone.               *)
(***************************************************************************)
SameCalls(c, d) ==
  /\ d.epoch = c.epoch /\ d.revoked = c.revoked /\ d.used = c.used
  /\ d.openai = c.openai /\ d.reads = c.reads /\ d.pending = c.pending

SameStage(c, d) ==
  /\ d.stage = c.stage /\ d.deployment = c.deployment
  /\ d.selected = c.selected /\ d.observed = c.observed

SameEvidence(c, d) ==
  /\ d.live = c.live /\ d.overflow = c.overflow /\ d.captures = c.captures

SamePlans(c, d) ==
  /\ d.consumed = c.consumed /\ d.plan = c.plan /\ d.next = c.next
  /\ d.attempts = c.attempts /\ d.inflight = c.inflight

Steady(c, d) == SameCalls(c, d) /\ SameStage(c, d) /\ SameEvidence(c, d) /\ SamePlans(c, d)

-----------------------------------------------------------------------------
(* What the operations do to the controller. *)

(***************************************************************************)
(* A retired epoch: the outstanding call and the evidence are gone, the    *)
(* budgets, attempts and captures in flight remain.                        *)
(***************************************************************************)
Retires(c, d) ==
  /\ d.epoch = c.epoch + 1 /\ d.pending = None
  /\ d.used = c.used /\ d.openai = c.openai /\ d.reads = c.reads
  /\ d.live = <<>> /\ d.overflow = FALSE /\ d.captures = <<>>
  /\ d.consumed = {} /\ d.plan = 0 /\ d.selections = {}
  /\ d.next = c.next /\ d.attempts = c.attempts /\ d.inflight = c.inflight

(***************************************************************************)
(* Retiring and forgetting does that, and changes nothing else.            *)
(***************************************************************************)
LEMMA RetireFields ==
  ASSUME NEW c \in Controller, c.epoch # MaxEpoch
  PROVE  LET d == Forget(Retire(c))
         IN  d \in Controller /\ Retires(c, d) /\ SameStage(c, d) /\ d.revoked = c.revoked
<1>. DEFINE e == c.epoch + 1
            b == [c EXCEPT !.epoch = e, !.pending = None]
            d == [b EXCEPT !.live = <<>>, !.overflow = FALSE, !.captures = <<>>,
                           !.consumed = {}, !.plan = 0, !.selections = {}]
<1>1. e \in 0..MaxEpoch
  BY ControllerFields, Constants
<1>2. Forget(Retire(c)) = d
  BY DEF Forget, Retire, Controller
<1>. HIDE DEF e
<1>3. b \in Controller
  BY <1>1 DEF Controller
<1>4. /\ b.epoch = e /\ b.pending = None /\ b.used = c.used /\ b.openai = c.openai
      /\ b.reads = c.reads /\ b.next = c.next /\ b.attempts = c.attempts
      /\ b.inflight = c.inflight /\ SameStage(c, b) /\ b.revoked = c.revoked
  BY DEF Controller, SameStage
<1>. HIDE DEF b
<1>5. d \in Controller
  <2>. DEFINE m == [b EXCEPT !.live = <<>>, !.overflow = FALSE, !.captures = <<>>]
  <2>1. m \in Controller
    <3>1. ASSUME NEW l \in Seq(KeptProposal), NEW k \in Seq(KeptCapture)
          PROVE  [b EXCEPT !.live = l, !.overflow = FALSE, !.captures = k] \in Controller
      BY <1>3 DEF Controller
    <3>2. <<>> \in Seq(KeptProposal) /\ <<>> \in Seq(KeptCapture)
      BY EmptySeq
    <3>. QED
      BY <3>1, <3>2, Zenon
  <2>2. d = [m EXCEPT !.consumed = {}, !.plan = 0, !.selections = {}]
    OBVIOUS
  <2>. HIDE DEF m, d
  <2>. QED
    BY <2>1, <2>2 DEF Controller
<1>6. /\ d.epoch = b.epoch /\ d.pending = b.pending /\ d.used = b.used
      /\ d.openai = b.openai /\ d.reads = b.reads /\ d.next = b.next
      /\ d.attempts = b.attempts /\ d.inflight = b.inflight /\ d.revoked = b.revoked
      /\ d.live = <<>> /\ d.overflow = FALSE /\ d.captures = <<>>
      /\ d.consumed = {} /\ d.plan = 0 /\ d.selections = {}
  BY <1>3 DEF Controller
<1>7. SameStage(b, d)
  BY <1>3 DEF Controller, SameStage
<1>. HIDE DEF d
<1>8. Retires(c, d)
  BY <1>4, <1>6 DEF Retires, e
<1>9. SameStage(c, d)
  BY <1>4, <1>7 DEF SameStage
<1>. QED
  BY <1>2, <1>4, <1>5, <1>6, <1>8, <1>9

(***************************************************************************)
(* The last epoch ends activation and leaves everything but the            *)
(* outstanding call as it is.                                              *)
(***************************************************************************)
Exhausts(c, d) ==
  /\ d.revoked = TRUE /\ d.pending = None
  /\ d.epoch = c.epoch /\ d.used = c.used /\ d.openai = c.openai /\ d.reads = c.reads
  /\ SameStage(c, d) /\ SameEvidence(c, d) /\ SamePlans(c, d)
  /\ d.selections = c.selections

(***************************************************************************)
(* That is what Exhaust does.                                              *)
(***************************************************************************)
LEMMA ExhaustFields ==
  ASSUME NEW c \in Controller
  PROVE  Exhaust(c) \in Controller /\ Exhausts(c, Exhaust(c))
BY DEF Exhaust, Exhausts, Controller, SameStage, SameEvidence, SamePlans

(***************************************************************************)
(* Passing a gate moves up one stage and keeps the gates passed; a reset   *)
(* starts again without any; revocation ends activation.                   *)
(***************************************************************************)
NoGates == [s \in Stage |-> None]

Promotes(c, d) ==
  /\ Retires(c, d) /\ d.revoked = c.revoked
  /\ c.stage < 3 /\ d.stage = c.stage + 1
  /\ d.deployment = c.deployment /\ d.observed = c.observed
  /\ c.observed[c.stage] # None /\ c.observed[c.stage].epoch = c.epoch

Resets(c, d) ==
  /\ Retires(c, d) /\ d.revoked = c.revoked
  /\ d.stage = 0 /\ d.selected = {} /\ d.observed = NoGates

Revokes(c, d) ==
  /\ Retires(c, d) /\ d.revoked = TRUE
  /\ d.stage = c.stage /\ d.deployment = c.deployment /\ d.selected = c.selected
  /\ d.observed = NoGates

Registers(c, d) ==
  /\ Steady(c, d)
  /\ d.selections \subseteq c.selections \cup c.selected

(***************************************************************************)
(* The operator's steps.                                                   *)
(***************************************************************************)
OperatorStep ==
  /\ UNCHANGED <<plans, thread, host, made, occurrences>>
  /\ ~ctl.revoked
  /\ ctl' \in Controller
  /\ \/ Exhausts(ctl, ctl')
     \/ Promotes(ctl, ctl')
     \/ Resets(ctl, ctl')
     \/ Revokes(ctl, ctl')
     \/ Registers(ctl, ctl')

(***************************************************************************)
(* Every operator action is one of them.                                   *)
(***************************************************************************)
LEMMA OperatorSteps ==
  ASSUME ctl \in Controller, Operator
  PROVE  OperatorStep
<1>. DEFINE d == Forget(Retire(ctl))
<1>1. NoGates \in [Stage -> Gates \cup {None}]
  BY DEF NoGates
<1>2. Exhaust(ctl) \in Controller /\ Exhausts(ctl, Exhaust(ctl))
  BY ExhaustFields
<1>3. ctl.epoch # MaxEpoch =>
        d \in Controller /\ Retires(ctl, d) /\ SameStage(ctl, d) /\ d.revoked = ctl.revoked
  BY RetireFields
<1>. HIDE DEF d
<1>5. /\ ctl.stage \in Stage /\ ctl.deployment \in Deployments
      /\ ctl.selected \subseteq Targets /\ ctl.observed \in [Stage -> Gates \cup {None}]
      /\ ctl.revoked \in BOOLEAN
  BY ControllerFields
<1>6. ASSUME NEW selected \in SUBSET Targets, Authorize(selected) PROVE OperatorStep
  <2>1. CASE ctl.epoch = MaxEpoch
    BY <1>2, <1>6, <2>1 DEF Authorize, Control, OperatorStep
  <2>2. CASE ctl.epoch # MaxEpoch
    <3>1. ctl' = [d EXCEPT !.stage = @ + 1, !.selected = selected]
      BY <1>6, <2>2 DEF Authorize, d
    <3>2. ctl.stage < 3 /\ ctl.stage + 1 \in Stage
      BY <1>5, <1>6 DEF Authorize, Stage
    <3>. DEFINE up == ctl.stage + 1
                n == [d EXCEPT !.stage = up, !.selected = selected]
    <3>3. ctl' = n
      BY <1>3, <2>2, <3>1 DEF SameStage
    <3>. HIDE DEF up
    <3>4. up \in Stage
      BY <3>2 DEF up
    <3>5. n \in Controller
      BY <1>3, <2>2, <3>4 DEF Controller
    <3>6. /\ n.stage = up /\ n.observed = d.observed /\ n.deployment = d.deployment
          /\ n.revoked = d.revoked
      BY <1>3, <2>2 DEF Controller
    <3>7. Retires(ctl, n)
      BY <1>3, <2>2 DEF Controller, Retires
    <3>. HIDE DEF n
    <3>8. Promotes(ctl, n)
      BY <1>3, <1>6, <2>2, <3>2, <3>6, <3>7 DEF Promotes, Authorize, SameStage, up
    <3>. QED
      BY <1>6, <3>3, <3>5, <3>8 DEF Authorize, Control, OperatorStep
  <2>. QED
    BY <2>1, <2>2
<1>7. ASSUME NEW w \in Deployments, ~ctl.revoked, Control,
             ctl' = IF ctl.epoch = MaxEpoch THEN Exhaust(ctl)
                    ELSE [d EXCEPT !.stage = 0, !.selected = {}, !.observed = NoGates,
                                   !.deployment = w]
      PROVE  OperatorStep
  <2>1. CASE ctl.epoch = MaxEpoch
    BY <1>2, <1>7, <2>1 DEF Control, OperatorStep
  <2>2. CASE ctl.epoch # MaxEpoch
    <3>. DEFINE g == NoGates
                n == [d EXCEPT !.stage = 0, !.selected = {}, !.observed = g,
                               !.deployment = w]
    <3>1. ctl' = n
      BY <1>7, <2>2
    <3>2. 0 \in Stage /\ g \in [Stage -> Gates \cup {None}]
      BY <1>1 DEF Stage
    <3>. HIDE DEF g
    <3>3. n \in Controller
      BY <1>3, <1>7, <2>2, <3>2 DEF Controller
    <3>4. n.stage = 0 /\ n.selected = {} /\ n.observed = g /\ n.revoked = d.revoked
      BY <1>3, <2>2 DEF Controller
    <3>5. Retires(ctl, n)
      BY <1>3, <2>2 DEF Controller, Retires
    <3>. HIDE DEF n
    <3>6. Resets(ctl, n)
      BY <1>3, <2>2, <3>4, <3>5 DEF Resets, g
    <3>. QED
      BY <1>7, <3>1, <3>3, <3>6 DEF Control, OperatorStep
  <2>. QED
    BY <2>1, <2>2
<1>8. CASE Rollback
  <2>1. ctl.epoch # MaxEpoch =>
          RolledBack(ctl) = [d EXCEPT !.stage = 0, !.selected = {}, !.observed = NoGates,
                                      !.deployment = ctl.deployment]
    BY <1>3 DEF RolledBack, NoGates, d, Controller, SameStage
  <2>. QED
    BY <1>5, <1>7, <1>8, <2>1 DEF Rollback
<1>9. ASSUME NEW w \in Deployments, Configure(w) PROVE OperatorStep
  <2>1. ctl.epoch # MaxEpoch =>
          [RolledBack(ctl) EXCEPT !.deployment = w]
             = [d EXCEPT !.stage = 0, !.selected = {}, !.observed = NoGates,
                         !.deployment = w]
    BY <1>3 DEF RolledBack, NoGates, d, Controller
  <2>. QED
    BY <1>7, <1>9, <2>1 DEF Configure
<1>10. CASE RevokeTransport
  <2>1. CASE ctl.epoch = MaxEpoch
    BY <1>2, <1>10, <2>1 DEF RevokeTransport, Control, OperatorStep
  <2>2. CASE ctl.epoch # MaxEpoch
    <3>1. ctl' = [d EXCEPT !.revoked = TRUE, !.observed = NoGates]
      BY <1>10, <2>2 DEF RevokeTransport, NoGates, d
    <3>. DEFINE g == NoGates
                n == [d EXCEPT !.revoked = TRUE, !.observed = g]
    <3>. HIDE DEF g
    <3>2. g \in [Stage -> Gates \cup {None}]
      BY <1>1 DEF g
    <3>3. n \in Controller
      BY <1>3, <2>2, <3>2 DEF Controller
    <3>4. /\ n.stage = d.stage /\ n.selected = d.selected /\ n.observed = g
          /\ n.revoked = TRUE /\ n.deployment = d.deployment
      BY <1>3, <2>2 DEF Controller
    <3>5. Retires(ctl, n)
      BY <1>3, <2>2 DEF Controller, Retires
    <3>6. ctl' = n
      BY <3>1 DEF g
    <3>. HIDE DEF n
    <3>7. Revokes(ctl, n)
      BY <1>3, <2>2, <3>4, <3>5 DEF Revokes, SameStage, g
    <3>. QED
      BY <1>10, <3>3, <3>6, <3>7 DEF RevokeTransport, Control, OperatorStep
  <2>. QED
    BY <2>1, <2>2
<1>11. ASSUME NEW target \in Targets, Register(target) PROVE OperatorStep
  <2>. DEFINE more == ctl.selections \cup {target}
  <2>1. ctl' = [ctl EXCEPT !.selections = more] /\ target \in ctl.selected
    BY <1>11 DEF Register
  <2>2. more \subseteq Targets
    BY ControllerFields
  <2>. HIDE DEF more
  <2>3. /\ ctl' \in Controller /\ SameCalls(ctl, ctl') /\ SameStage(ctl, ctl')
        /\ SameEvidence(ctl, ctl') /\ SamePlans(ctl, ctl') /\ ctl'.selections = more
    BY <2>1, <2>2 DEF Controller, SameCalls, SameStage, SameEvidence, SamePlans
  <2>. QED
    BY <1>11, <2>3 DEF Register, Control, OperatorStep, Registers, Steady, more
<1>. QED
  BY <1>6, <1>8, <1>9, <1>10, <1>11 DEF Operator

-----------------------------------------------------------------------------
(* What the threads do. *)

CallPc == {"send", "wait", "complete"}

Moves(t, s) == thread' = [thread EXCEPT ![t] = s] /\ s \in ThreadState /\ Shape(s)

(***************************************************************************)
(* The thread goes on with the same operation, call, fence and plan.       *)
(***************************************************************************)
SameWork(o, s) ==
  /\ s.op = o.op /\ s.fence = o.fence /\ s.plan = o.plan
  /\ s.reservation = o.reservation /\ o.op \in {"propose", "capture"}
  /\ o.op = "capture" => s.proposal = o.proposal

Goes(o, s) ==
  /\ SameWork(o, s)
  /\ (s.pc \in CallPc) <=> (o.pc \in CallPc)
  /\ s.pc # "retain" /\ o.pc # "record"
  /\ s.status = "received" => o.status = "received" \/ o.pc \in CallPc

(***************************************************************************)
(* Steps that leave the controller alone: an operation ends, begins, or    *)
(* goes on.                                                                *)
(***************************************************************************)
QuietStep(t, s) ==
  /\ UNCHANGED <<ctl, plans, host, made, occurrences>>
  /\ \/ s = Idle /\ thread[t].pc \notin CallPc /\ thread[t].op # "capture"
     \/ /\ thread[t].pc = "idle"
        /\ s.op = "propose" /\ s.pc = "reserve" /\ s.reservation = None /\ s.status = "none"
     \/ /\ thread[t].pc = "idle"
        /\ s.op = "verify" /\ s.pc = "probe" /\ s.reservation = None /\ s.status = "none"
        /\ s.fence = Fence(ctl) /\ ~ctl.revoked /\ GateReady(ctl)
     \/ Goes(thread[t], s)

ReserveStep(t, s) ==
  /\ UNCHANGED <<host, made, occurrences>>
  /\ thread[t].pc = "reserve" /\ s.pc = "send"
  /\ s.op = thread[t].op /\ s.fence = thread[t].fence /\ s.plan = thread[t].plan
  /\ s.proposal = thread[t].proposal /\ s.status = thread[t].status
  /\ s.reservation \in Reservations
  /\ s.reservation.epoch = ctl.epoch /\ s.reservation.call = ctl.used
  /\ CanReserve(ctl) /\ ctl' \in Controller
  /\ ctl'.epoch = ctl.epoch /\ ctl'.revoked = ctl.revoked
  /\ ctl'.used = ctl.used + 1 /\ ctl'.pending = s.reservation
  /\ SameStage(ctl, ctl') /\ SameEvidence(ctl, ctl') /\ SamePlans(ctl, ctl')
  /\ ctl'.selections = ctl.selections
  /\ \/ /\ thread[t].op = "propose" /\ plans' = plans
        /\ ctl'.openai = ctl.openai + 1 /\ ctl'.reads = ctl.reads
     \/ /\ thread[t].op = "capture"
        /\ ctl'.openai = ctl.openai /\ ctl'.reads = ctl.reads + 1
        /\ ctl.plan # 0 /\ plans[ctl.plan].call = None
        /\ plans' = [plans EXCEPT ![ctl.plan].call = ctl.used]

CompleteStep(t, s) ==
  /\ UNCHANGED <<plans, host, made, occurrences>>
  /\ thread[t].pc = "complete"
  /\ ctl' \in Controller
  /\ ctl'.epoch = ctl.epoch /\ ctl'.revoked = ctl.revoked /\ ctl'.used = ctl.used
  /\ ctl'.openai = ctl.openai /\ ctl'.reads = ctl.reads
  /\ ctl'.pending = IF ctl.pending = thread[t].reservation THEN None ELSE ctl.pending
  /\ SameStage(ctl, ctl') /\ SameEvidence(ctl, ctl') /\ SamePlans(ctl, ctl')
  /\ ctl'.selections = ctl.selections
  /\ \/ s = Idle /\ thread[t].op # "capture"
     \/ SameWork(thread[t], s) /\ s.pc \in {"conclude", "retain"}

RetainStep(t, s) ==
  /\ UNCHANGED <<plans, host, made, occurrences>>
  /\ s = Idle /\ At(t, "propose", "retain") /\ Preserved(t)
  /\ ctl' \in Controller
  /\ SameCalls(ctl, ctl') /\ SameStage(ctl, ctl') /\ SamePlans(ctl, ctl')
  /\ ctl'.captures = ctl.captures /\ ctl'.selections = ctl.selections
  /\ \/ ctl'.live = ctl.live
     \/ /\ Len(ctl.live) # MaxRetained
        /\ ctl'.live = Append(ctl.live,
             [proposal |-> thread[t].proposal, source |-> thread[t].source,
              epoch |-> thread[t].reservation.epoch, call |-> thread[t].reservation.call])

AdmitStep(t, s) ==
  /\ host' = host /\ made' = made + 1
  /\ thread[t].pc = "idle" /\ ~ctl.revoked
  /\ s.op = "capture" /\ s.pc = "revalidate" /\ s.reservation = None /\ s.status = "none"
  /\ s.plan = Len(plans) + 1 /\ s.fence = Fence(ctl')
  /\ TargetOf[s.proposal] \in ctl.selected
  /\ plans' = Append(plans, [proposal |-> s.proposal, call |-> None, next |-> made + 1])
  /\ ctl' \in Controller
  /\ SameCalls(ctl, ctl') /\ SameStage(ctl, ctl') /\ SameEvidence(ctl, ctl')
  /\ ctl'.selections = ctl.selections /\ ctl'.attempts = ctl.attempts
  /\ ctl'.next = made + 1 /\ ctl'.plan = Len(plans) + 1
  /\ ctl'.inflight = ctl.inflight \cup {Len(plans) + 1}
  /\ Len(ctl.attempts) + Cardinality(ctl.inflight) < MaxCaptures

KeepStep(t, s) ==
  /\ UNCHANGED <<plans, host, made, occurrences>>
  /\ At(t, "capture", "conclude") /\ thread[t].status = "received" /\ CaptureFenced(t)
  /\ SameWork(thread[t], s) /\ s.pc = "record" /\ s.status = "captured"
  /\ ctl' \in Controller
  /\ SameCalls(ctl, ctl') /\ SameStage(ctl, ctl')
  /\ ctl'.live = ctl.live /\ ctl'.overflow = ctl.overflow
  /\ ctl'.captures = Append(ctl.captures,
       [target |-> TargetOf[thread[t].proposal], epoch |-> ctl.epoch,
        call |-> thread[t].reservation.call])
  /\ ctl'.consumed = ctl.consumed /\ ctl'.plan = ctl.plan
  /\ ctl'.next = plans[thread[t].plan].next
  /\ ctl'.attempts = ctl.attempts /\ ctl'.inflight = ctl.inflight
  /\ ctl'.selections = ctl.selections

RecordStep(t, s) ==
  /\ UNCHANGED <<plans, host, made, occurrences>>
  /\ s = Idle /\ At(t, "capture", "record")
  /\ ctl' \in Controller
  /\ SameCalls(ctl, ctl') /\ SameStage(ctl, ctl') /\ SameEvidence(ctl, ctl')
  /\ ctl'.selections = ctl.selections /\ ctl'.consumed = ctl.consumed
  /\ ctl'.attempts = Append(ctl.attempts,
       [epoch |-> thread[t].fence.epoch, call |-> plans[thread[t].plan].call,
        status |-> thread[t].status])
  /\ ctl'.inflight = ctl.inflight \ {thread[t].plan}
  /\ IF ctl.plan = thread[t].plan
     THEN ctl'.plan = 0 /\ ctl'.next = plans[thread[t].plan].next
     ELSE ctl'.plan = ctl.plan /\ ctl'.next = ctl.next

VerifyStep(t, s) ==
  /\ UNCHANGED <<plans, host, made, occurrences>>
  /\ s = Idle /\ At(t, "verify", "probe")
  /\ ~ctl.revoked /\ Fence(ctl) = thread[t].fence
  /\ ctl' \in Controller
  /\ SameCalls(ctl, ctl') /\ SameEvidence(ctl, ctl') /\ SamePlans(ctl, ctl')
  /\ ctl'.selections = ctl.selections
  /\ ctl'.stage = ctl.stage /\ ctl'.deployment = ctl.deployment
  /\ ctl'.selected = ctl.selected
  /\ ctl'.observed = [ctl.observed EXCEPT ![ctl.stage] = Gate(ctl)]

ThreadStep(t, s) ==
  \/ QuietStep(t, s) \/ ReserveStep(t, s) \/ CompleteStep(t, s) \/ RetainStep(t, s)
  \/ AdmitStep(t, s) \/ KeepStep(t, s) \/ RecordStep(t, s) \/ VerifyStep(t, s)

(***************************************************************************)
(* The state of a thread that does nothing.                                *)
(***************************************************************************)
LEMMA IdleFields ==
  /\ Idle \in ThreadState /\ Shape(Idle)
  /\ Idle.op = "none" /\ Idle.pc = "idle" /\ Idle.reservation = None
  /\ Idle.status = "none"
BY DEF Idle, ThreadState, Shape, CallStatus

(***************************************************************************)
(* What a fence holds.                                                     *)
(***************************************************************************)
LEMMA FenceFields ==
  ASSUME NEW c \in Controller
  PROVE  /\ Fence(c) \in FullFence
         /\ Fence(c).epoch = c.epoch /\ Fence(c).stage = c.stage /\ Fence(c).used = c.used
         /\ Fence(c).live = c.live /\ Fence(c).captures = c.captures
         /\ Fence(c).plan = c.plan /\ Fence(c).next = c.next
<1>1. c.used \in Nat
  BY ControllerFields, Constants
<1>2. Fence(c) \in FullFence
  BY <1>1, ControllerFields, SMT DEF Fence, FullFence
<1>. QED
  BY <1>2 DEF Fence

(***************************************************************************)
(* The actions that leave the controller alone are quiet steps.            *)
(***************************************************************************)
LEMMA QuietSteps ==
  ASSUME ActivationTypes, NEW t \in Threads,
         \/ \E source \in 0..host : ProposeBegins(t, source)
         \/ VerifyBegins(t) \/ ReserveRefused(t) \/ SendRequest(t)
         \/ \E p \in Proposals : ResponseArrives(t, p)
         \/ CallFails(t) \/ DropProposal(t) \/ Revalidate(t) \/ CaptureRefused(t)
         \/ SendRead(t) \/ ReadArrives(t) \/ LoseCapture(t) \/ VerifyFails(t)
  PROVE  \E s : Moves(t, s) /\ QuietStep(t, s)
<1>. DEFINE o == thread[t]
<1>1. o \in ThreadState /\ Shape(o) /\ ctl \in Controller /\ host \in Nat
  BY DEF ActivationTypes
<1>2. ASSUME NEW source \in 0..host, ProposeBegins(t, source)
      PROVE  \E s : Moves(t, s) /\ QuietStep(t, s)
  <2>. DEFINE f == [epoch |-> ctl.epoch, stage |-> ctl.stage, used |-> ctl.used,
                    deployment |-> ctl.deployment, selections |-> ctl.selections]
              s == [Idle EXCEPT !.op = "propose", !.pc = "reserve", !.source = source,
                                !.fence = f]
  <2>1. ctl.used \in Nat
    BY <1>1, ControllerFields, Constants
  <2>2. f \in CallFence
    BY <1>1, <2>1, ControllerFields DEF CallFence
  <2>3. thread' = [thread EXCEPT ![t] = s]
    BY <1>2 DEF ProposeBegins, Set
  <2>. HIDE DEF f
  <2>4. /\ s \in ThreadState /\ s.op = "propose" /\ s.pc = "reserve"
        /\ s.reservation = None /\ s.status = "none"
    <3>1. source \in Nat /\ f \in CallFence \cup FullFence \cup {None}
      BY <1>1, <2>2
    <3>. QED
      BY <3>1, IdleFields DEF ThreadState
  <2>. HIDE DEF s
  <2>5. Shape(s)
    BY <2>4 DEF Shape
  <2>. QED
    BY <1>2, <2>3, <2>4, <2>5 DEF Moves, QuietStep, ProposeBegins
<1>3. CASE VerifyBegins(t)
  <2>. DEFINE f == Fence(ctl)
              s == [Idle EXCEPT !.op = "verify", !.pc = "probe", !.fence = f]
  <2>2. f \in FullFence
    BY <1>1, FenceFields
  <2>3. thread' = [thread EXCEPT ![t] = s]
    BY <1>3 DEF VerifyBegins, Set
  <2>. HIDE DEF f
  <2>4. /\ s \in ThreadState /\ s.op = "verify" /\ s.pc = "probe" /\ s.fence = f
        /\ s.reservation = None /\ s.status = "none"
    BY <1>1, <2>2, IdleFields DEF ThreadState
  <2>. HIDE DEF s
  <2>5. Shape(s)
    BY <2>2, <2>4 DEF Shape
  <2>. QED
    BY <1>3, <2>3, <2>4, <2>5 DEF Moves, QuietStep, VerifyBegins, f
<1>4. CASE ReserveRefused(t) \/ DropProposal(t) \/ VerifyFails(t)
  <2>1. /\ thread' = [thread EXCEPT ![t] = Idle]
        /\ UNCHANGED <<ctl, plans, host, made, occurrences>>
        /\ thread[t].pc \notin CallPc /\ thread[t].op # "capture"
    BY <1>4 DEF ReserveRefused, DropProposal, VerifyFails, Set, At, CallPc
  <2>. QED
    BY <2>1, IdleFields DEF Moves, QuietStep
<1>5. ASSUME NEW pc \in {"wait", "complete", "reserve", "conclude", "record"},
             NEW status \in CallStatus,
             thread' = [thread EXCEPT ![t] = [o EXCEPT !.pc = pc, !.status = status]],
             UNCHANGED <<ctl, plans, host, made, occurrences>>,
             o.op \in {"propose", "capture"},
             pc \in CallPc <=> o.pc \in CallPc,
             pc \in {"reserve", "conclude", "record"} => o.op = "capture",
             o.pc # "record",
             status = "received" => o.status = "received" \/ o.pc \in CallPc
      PROVE  \E s : Moves(t, s) /\ QuietStep(t, s)
  <2>. DEFINE s == [o EXCEPT !.pc = pc, !.status = status]
  <2>1. /\ s \in ThreadState /\ s.pc = pc /\ s.status = status
        /\ s.op = o.op /\ s.fence = o.fence /\ s.plan = o.plan
        /\ s.reservation = o.reservation /\ s.proposal = o.proposal
    BY <1>1, <1>5 DEF ThreadState
  <2>2. thread' = [thread EXCEPT ![t] = s]
    BY <1>5
  <2>. HIDE DEF s
  <2>3. Shape(s)
    BY <1>1, <1>5, <2>1 DEF Shape
  <2>4. Goes(o, s)
    BY <1>5, <2>1 DEF Goes, SameWork
  <2>. QED
    BY <1>5, <2>1, <2>2, <2>3, <2>4 DEF Moves, QuietStep
<1>6. CASE SendRequest(t)
  <2>. DEFINE v == Surface
              s == [o EXCEPT !.pc = "wait", !.surface = v]
  <2>1. v \in BOOLEAN /\ thread' = [thread EXCEPT ![t] = s]
        /\ o.op = "propose" /\ o.pc = "send"
    BY <1>6 DEF SendRequest, Set, At, Surface
  <2>. HIDE DEF v
  <2>2. /\ s \in ThreadState /\ s.pc = "wait" /\ s.status = o.status
        /\ s.op = o.op /\ s.fence = o.fence /\ s.plan = o.plan
        /\ s.reservation = o.reservation /\ s.proposal = o.proposal
    BY <1>1, <2>1 DEF ThreadState
  <2>. HIDE DEF s
  <2>3. Shape(s) /\ Goes(o, s)
    BY <1>1, <2>1, <2>2 DEF Shape, Goes, SameWork, CallPc
  <2>. QED
    BY <1>6, <2>1, <2>2, <2>3 DEF Moves, QuietStep, SendRequest
<1>7. ASSUME NEW p \in Proposals, ResponseArrives(t, p)
      PROVE  \E s : Moves(t, s) /\ QuietStep(t, s)
  <2>. DEFINE s == [o EXCEPT !.pc = "complete", !.proposal = p, !.status = "received"]
  <2>1. thread' = [thread EXCEPT ![t] = s] /\ o.op = "propose" /\ o.pc = "wait"
    BY <1>7 DEF ResponseArrives, Set, At
  <2>2. /\ s \in ThreadState /\ s.pc = "complete" /\ s.status = "received"
        /\ s.op = o.op /\ s.fence = o.fence /\ s.plan = o.plan
        /\ s.reservation = o.reservation
    BY <1>1, ZenonT(40) DEF ThreadState, CallStatus
  <2>. HIDE DEF s
  <2>3. Shape(s) /\ Goes(o, s)
    BY <1>1, <2>1, <2>2 DEF Shape, Goes, SameWork, CallPc
  <2>. QED
    BY <1>7, <2>1, <2>2, <2>3 DEF Moves, QuietStep, ResponseArrives
<1>8. o.status \in CallStatus
  BY <1>1, ThreadFields
<1>9. [o EXCEPT !.pc = "reserve"] = [o EXCEPT !.pc = "reserve", !.status = o.status]
  BY <1>1 DEF ThreadState
<1>10. [o EXCEPT !.pc = "wait"] = [o EXCEPT !.pc = "wait", !.status = o.status]
  BY <1>1 DEF ThreadState
<1>11. CASE Revalidate(t)
  <2>1. /\ o.op = "capture" /\ o.pc = "revalidate"
        /\ thread' = [thread EXCEPT ![t] = [o EXCEPT !.pc = "reserve", !.status = o.status]]
        /\ UNCHANGED <<ctl, plans, host, made, occurrences>>
    BY <1>9, <1>11 DEF Revalidate, Set, At
  <2>. QED
    BY <1>5, <1>8, <2>1 DEF CallPc
<1>12. CASE SendRead(t)
  <2>1. /\ o.op = "capture" /\ o.pc = "send"
        /\ thread' = [thread EXCEPT ![t] = [o EXCEPT !.pc = "wait", !.status = o.status]]
        /\ UNCHANGED <<ctl, plans, host, made, occurrences>>
    BY <1>10, <1>12 DEF SendRead, Set, At
  <2>. QED
    BY <1>5, <1>8, <2>1 DEF CallPc
<1>13. CASE ReadArrives(t)
  <2>1. /\ o.op = "capture" /\ o.pc = "wait" /\ "received" \in CallStatus
        /\ thread' = [thread EXCEPT ![t] = [o EXCEPT !.pc = "complete", !.status = "received"]]
        /\ UNCHANGED <<ctl, plans, host, made, occurrences>>
    BY <1>13 DEF ReadArrives, Set, At, CallStatus
  <2>. QED
    BY <1>5, <2>1 DEF CallPc
<1>14. CASE CallFails(t)
  <2>1. /\ o.op \in {"propose", "capture"} /\ o.pc \in {"send", "wait"}
        /\ "failed" \in CallStatus
        /\ thread' = [thread EXCEPT ![t] = [o EXCEPT !.pc = "complete", !.status = "failed"]]
        /\ UNCHANGED <<ctl, plans, host, made, occurrences>>
    BY <1>1, <1>14 DEF CallFails, Set, CallStatus, Shape, ThreadState
  <2>. QED
    BY <1>5, <2>1 DEF CallPc
<1>15. CASE CaptureRefused(t)
  <2>1. /\ o.op = "capture" /\ o.pc \in {"revalidate", "reserve"}
        /\ "failed" \in CallStatus
        /\ thread' = [thread EXCEPT ![t] = [o EXCEPT !.pc = "conclude", !.status = "failed"]]
        /\ UNCHANGED <<ctl, plans, host, made, occurrences>>
    BY <1>15 DEF CaptureRefused, Set, CallStatus
  <2>. QED
    BY <1>5, <2>1 DEF CallPc
<1>16. CASE LoseCapture(t)
  <2>. DEFINE v == IF ctl.revoked \/ ctl.epoch # thread[t].fence.epoch THEN "interrupted"
                   ELSE IF plans[thread[t].plan].call = None THEN "not_dispatched"
                   ELSE "failed"
  <2>1. /\ o.op = "capture" /\ o.pc = "conclude"
        /\ thread' = [thread EXCEPT ![t] = [o EXCEPT !.pc = "record", !.status = v]]
        /\ UNCHANGED <<ctl, plans, host, made, occurrences>>
    BY <1>16 DEF LoseCapture, Set, At
  <2>2. v \in CallStatus /\ v # "received"
    BY DEF CallStatus
  <2>. HIDE DEF v
  <2>. QED
    BY <1>5, <2>1, <2>2 DEF CallPc
<1>. QED
  BY <1>2, <1>3, <1>4, <1>6, <1>7, <1>11, <1>12, <1>13, <1>14, <1>15, <1>16

(***************************************************************************)
(* A reservation counts one call and binds it to the epoch.                *)
(***************************************************************************)
LEMMA ReserveFields ==
  ASSUME NEW c \in Controller, NEW kind \in {"openai", "selected_read"},
         NEW p \in Proposals \cup {None}, CanReserve(c)
  PROVE  LET r == Reservation(c, kind, p)
             d == Reserve(c, r)
         IN  /\ r \in Reservations /\ r.epoch = c.epoch /\ r.call = c.used
             /\ d \in Controller
             /\ d.epoch = c.epoch /\ d.revoked = c.revoked
             /\ d.used = c.used + 1 /\ d.pending = r
             /\ SameStage(c, d) /\ SameEvidence(c, d) /\ SamePlans(c, d)
             /\ d.selections = c.selections
             /\ d.openai = IF kind = "openai" THEN c.openai + 1 ELSE c.openai
             /\ d.reads = IF kind = "openai" THEN c.reads ELSE c.reads + 1
<1>. DEFINE r == Reservation(c, kind, p)
            x == c.used + 1
            y == IF kind = "openai" THEN c.openai + 1 ELSE c.openai
            z == IF kind = "openai" THEN c.reads ELSE c.reads + 1
            d == [c EXCEPT !.used = x, !.pending = r, !.openai = y, !.reads = z]
<1>1. c.used \in Nat
  BY ControllerFields, Constants
<1>2. r \in Reservations /\ r.epoch = c.epoch /\ r.call = c.used /\ r.kind = kind
  BY <1>1, ControllerFields DEF Reservation, Reservations
<1>3. x \in 0..Limit /\ y \in Nat /\ z \in Nat
  BY ControllerFields, Constants DEF CanReserve
<1>4. Reserve(c, r) = d
  <2>1. (IF r.kind = "openai" THEN c.openai + 1 ELSE c.openai) = y
    BY <1>2
  <2>2. (IF r.kind = "selected_read" THEN c.reads + 1 ELSE c.reads) = z
    BY <1>2
  <2>. HIDE DEF r, y, z
  <2>. QED
    BY <2>1, <2>2 DEF Reserve, Controller
<1>. HIDE DEF r, x, y, z
<1>5. d \in Controller
  BY <1>2, <1>3 DEF Controller
<1>6. /\ d.epoch = c.epoch /\ d.revoked = c.revoked /\ d.used = x /\ d.pending = r
      /\ d.openai = y /\ d.reads = z
  BY DEF Controller
<1>7. SameStage(c, d) /\ SameEvidence(c, d)
  BY DEF Controller, SameStage, SameEvidence
<1>8. SamePlans(c, d) /\ d.selections = c.selections
  BY DEF Controller, SamePlans
<1>. HIDE DEF d
<1>. QED
  BY <1>2, <1>4, <1>5, <1>6, <1>7, <1>8 DEF r, x, y, z

(***************************************************************************)
(* Reserving a model call or a selected read is a reserving step.          *)
(***************************************************************************)
LEMMA ReserveSteps ==
  ASSUME ActivationTypes, NEW t \in Threads, ReserveCall(t) \/ ReserveRead(t)
  PROVE  \E s : Moves(t, s) /\ ReserveStep(t, s)
<1>. DEFINE o == thread[t]
<1>1. o \in ThreadState /\ Shape(o) /\ ctl \in Controller
  BY DEF ActivationTypes
<1>2. ASSUME NEW r \in Reservations
      PROVE  LET s == [o EXCEPT !.pc = "send", !.reservation = r]
             IN  /\ s \in ThreadState /\ s.pc = "send" /\ s.reservation = r
                 /\ s.op = o.op /\ s.fence = o.fence /\ s.plan = o.plan
                 /\ s.proposal = o.proposal /\ s.status = o.status
                 /\ o.op \in {"propose", "capture"} => Shape(s)
  <2>. DEFINE s == [o EXCEPT !.pc = "send", !.reservation = r]
  <2>1. /\ s \in ThreadState /\ s.pc = "send" /\ s.reservation = r
        /\ s.op = o.op /\ s.fence = o.fence /\ s.plan = o.plan
        /\ s.proposal = o.proposal /\ s.status = o.status
    BY <1>1 DEF ThreadState
  <2>. HIDE DEF s
  <2>2. o.op \in {"propose", "capture"} => Shape(s)
    BY <1>1, <2>1 DEF Shape
  <2>. QED
    BY <2>1, <2>2 DEF s
<1>3. CASE ReserveCall(t)
  <2>. DEFINE r == Reservation(ctl, "openai", None)
              d == Reserve(ctl, r)
              s == [o EXCEPT !.pc = "send", !.reservation = r]
  <2>1. /\ ctl' = d /\ thread' = [thread EXCEPT ![t] = s] /\ CanReserve(ctl)
        /\ o.op = "propose" /\ o.pc = "reserve"
        /\ UNCHANGED <<plans, host, made, occurrences>>
    BY <1>3 DEF ReserveCall, Set, At
  <2>2. /\ r \in Reservations /\ r.epoch = ctl.epoch /\ r.call = ctl.used
        /\ d \in Controller
        /\ d.epoch = ctl.epoch /\ d.revoked = ctl.revoked
        /\ d.used = ctl.used + 1 /\ d.pending = r
        /\ SameStage(ctl, d) /\ SameEvidence(ctl, d) /\ SamePlans(ctl, d)
        /\ d.selections = ctl.selections
        /\ d.openai = ctl.openai + 1 /\ d.reads = ctl.reads
    BY <1>1, <2>1, ReserveFields
  <2>. HIDE DEF r, d
  <2>3. /\ s \in ThreadState /\ s.pc = "send" /\ s.reservation = r
        /\ s.op = o.op /\ s.fence = o.fence /\ s.plan = o.plan
        /\ s.proposal = o.proposal /\ s.status = o.status /\ Shape(s)
    BY <1>2, <2>1, <2>2
  <2>. HIDE DEF s
  <2>4. ReserveStep(t, s)
    BY <2>1, <2>2, <2>3 DEF ReserveStep
  <2>. QED
    BY <2>1, <2>3, <2>4 DEF Moves
<1>4. CASE ReserveRead(t)
  <2>. DEFINE r == Reservation(ctl, "selected_read", o.proposal)
              d == Reserve(ctl, r)
              s == [o EXCEPT !.pc = "send", !.reservation = r]
  <2>1. /\ ctl' = d /\ thread' = [thread EXCEPT ![t] = s] /\ CanReserve(ctl)
        /\ o.op = "capture" /\ o.pc = "reserve"
        /\ UNCHANGED <<host, made, occurrences>>
        /\ ctl.plan # 0 /\ plans[ctl.plan].call = None
        /\ plans' = [plans EXCEPT ![ctl.plan].call = r.call]
    BY <1>4 DEF ReserveRead, Set, At, PlanMatches
  <2>2. /\ r \in Reservations /\ r.epoch = ctl.epoch /\ r.call = ctl.used
        /\ d \in Controller
        /\ d.epoch = ctl.epoch /\ d.revoked = ctl.revoked
        /\ d.used = ctl.used + 1 /\ d.pending = r
        /\ SameStage(ctl, d) /\ SameEvidence(ctl, d) /\ SamePlans(ctl, d)
        /\ d.selections = ctl.selections
        /\ d.openai = ctl.openai /\ d.reads = ctl.reads + 1
    BY <1>1, <2>1, ReserveFields, ThreadFields
  <2>. HIDE DEF r, d
  <2>3. /\ s \in ThreadState /\ s.pc = "send" /\ s.reservation = r
        /\ s.op = o.op /\ s.fence = o.fence /\ s.plan = o.plan
        /\ s.proposal = o.proposal /\ s.status = o.status /\ Shape(s)
    BY <1>2, <2>1, <2>2
  <2>. HIDE DEF s
  <2>4. ReserveStep(t, s)
    BY <2>1, <2>2, <2>3 DEF ReserveStep
  <2>. QED
    BY <2>1, <2>3, <2>4 DEF Moves
<1>. QED
  BY <1>3, <1>4

(***************************************************************************)
(* The end of a call is a completing step.                                 *)
(***************************************************************************)
LEMMA CompleteSteps ==
  ASSUME ActivationTypes, NEW t \in Threads, CompleteCall(t)
  PROVE  \E s : Moves(t, s) /\ CompleteStep(t, s)
<1>. DEFINE o == thread[t]
            v == IF ctl.pending = o.reservation THEN None ELSE ctl.pending
            d == [ctl EXCEPT !.pending = v]
<1>1. o \in ThreadState /\ Shape(o) /\ ctl \in Controller /\ o.pc = "complete"
  BY DEF ActivationTypes, CompleteCall
<1>2. o.op \in {"propose", "capture"}
  BY <1>1 DEF Shape, ThreadState
<1>3. v \in Reservations \cup {None}
  BY <1>1, ControllerFields
<1>4. ctl' = d
  BY DEF CompleteCall, Completed
<1>. HIDE DEF v
<1>5. d \in Controller
  BY <1>1, <1>3 DEF Controller
<1>6. /\ d.epoch = ctl.epoch /\ d.revoked = ctl.revoked /\ d.used = ctl.used
      /\ d.openai = ctl.openai /\ d.reads = ctl.reads /\ d.pending = v
      /\ d.selections = ctl.selections
  BY <1>1 DEF Controller
<1>7. SameStage(ctl, d) /\ SameEvidence(ctl, d) /\ SamePlans(ctl, d)
  BY <1>1 DEF Controller, SameStage, SameEvidence, SamePlans
<1>. HIDE DEF d
<1>8. ASSUME NEW s,
             \/ s = Idle /\ o.op # "capture"
             \/ SameWork(o, s) /\ s.pc \in {"conclude", "retain"}
      PROVE  CompleteStep(t, s)
  BY <1>1, <1>4, <1>5, <1>6, <1>7, <1>8 DEF CompleteStep, CompleteCall, v
<1>9. ASSUME NEW pc \in {"conclude", "retain"}, pc = "conclude" <=> o.op = "capture"
      PROVE  LET s == [o EXCEPT !.pc = pc]
             IN  s \in ThreadState /\ Shape(s) /\ SameWork(o, s) /\ s.pc = pc
  <2>. DEFINE s == [o EXCEPT !.pc = pc]
  <2>1. /\ s \in ThreadState /\ s.pc = pc
        /\ s.op = o.op /\ s.fence = o.fence /\ s.plan = o.plan
        /\ s.reservation = o.reservation /\ s.proposal = o.proposal
    BY <1>1, <1>9 DEF ThreadState
  <2>. HIDE DEF s
  <2>2. Shape(s) /\ SameWork(o, s)
    BY <1>1, <1>2, <1>9, <2>1 DEF Shape, SameWork
  <2>. QED
    BY <2>1, <2>2 DEF s
<1>10. CASE o.op = "capture"
  <2>. DEFINE s == [o EXCEPT !.pc = "conclude"]
  <2>1. thread' = [thread EXCEPT ![t] = s]
    BY <1>10 DEF CompleteCall, Set
  <2>2. s \in ThreadState /\ Shape(s) /\ SameWork(o, s) /\ s.pc = "conclude"
    BY <1>9, <1>10
  <2>. HIDE DEF s
  <2>. QED
    BY <1>8, <2>1, <2>2 DEF Moves
<1>11. CASE o.op # "capture" /\ o.status = "received"
  <2>. DEFINE s == [o EXCEPT !.pc = "retain"]
  <2>1. thread' = [thread EXCEPT ![t] = s]
    BY <1>11 DEF CompleteCall, Set
  <2>2. s \in ThreadState /\ Shape(s) /\ SameWork(o, s) /\ s.pc = "retain"
    BY <1>9, <1>11
  <2>. HIDE DEF s
  <2>. QED
    BY <1>8, <2>1, <2>2 DEF Moves
<1>12. CASE o.op # "capture" /\ o.status # "received"
  <2>1. thread' = [thread EXCEPT ![t] = Idle]
    BY <1>12 DEF CompleteCall, Set
  <2>. QED
    BY <1>8, <1>12, <2>1, IdleFields DEF Moves
<1>. QED
  BY <1>10, <1>11, <1>12

(***************************************************************************)
(* A thread that calls, or that has an answer, has a reservation.          *)
(***************************************************************************)
HasCall ==
  \A t \in Threads :
    thread[t].pc \in CallPc \cup {"retain"} \/ thread[t].status = "received"
      => thread[t].reservation \in Reservations

(***************************************************************************)
(* The parts of a reservation.                                             *)
(***************************************************************************)
LEMMA ReservationFields ==
  ASSUME NEW r \in Reservations
  PROVE  r.epoch \in 0..MaxEpoch /\ r.epoch \in Nat /\ r.call \in Nat
BY Constants DEF Reservations

(***************************************************************************)
(* Keeping a proposal, or noting that the stream overflows, is a retaining *)
(* step.                                                                   *)
(***************************************************************************)
LEMMA RetainSteps ==
  ASSUME ActivationTypes, HasCall, NEW t \in Threads, RetainProposal(t)
  PROVE  \E s : Moves(t, s) /\ RetainStep(t, s)
<1>. DEFINE o == thread[t]
            k == [proposal |-> o.proposal, source |-> o.source,
                  epoch |-> o.reservation.epoch, call |-> o.reservation.call]
            l == Append(ctl.live, k)
<1>1. /\ o \in ThreadState /\ ctl \in Controller
      /\ At(t, "propose", "retain") /\ Preserved(t)
      /\ thread' = [thread EXCEPT ![t] = Idle]
      /\ UNCHANGED <<plans, host, made, occurrences>>
  BY DEF ActivationTypes, RetainProposal, Set
<1>2. o.reservation \in Reservations
  BY <1>1 DEF HasCall, At
<1>3. k \in KeptProposal
  BY <1>1, <1>2, ThreadFields, ReservationFields DEF KeptProposal
<1>. HIDE DEF k
<1>4. l \in Seq(KeptProposal)
  BY <1>1, <1>3, ControllerFields, AppendProperties
<1>. HIDE DEF l
<1>5. ASSUME NEW d, \/ d = [ctl EXCEPT !.overflow = TRUE]
                    \/ d = [ctl EXCEPT !.live = l]
      PROVE  /\ d \in Controller
             /\ SameCalls(ctl, d) /\ SameStage(ctl, d) /\ SamePlans(ctl, d)
             /\ d.captures = ctl.captures /\ d.selections = ctl.selections
  <2>1. CASE d = [ctl EXCEPT !.overflow = TRUE]
    BY <1>1, <2>1 DEF Controller, SameCalls, SameStage, SamePlans
  <2>2. CASE d = [ctl EXCEPT !.live = l]
    BY <1>1, <1>4, <2>2 DEF Controller, SameCalls, SameStage, SamePlans
  <2>. QED
    BY <1>5, <2>1, <2>2
<1>6. CASE Len(ctl.live) = MaxRetained
  <2>1. ctl' = [ctl EXCEPT !.overflow = TRUE]
    BY <1>6 DEF RetainProposal
  <2>2. ctl'.live = ctl.live
    BY <1>1, <2>1 DEF Controller
  <2>. QED
    BY <1>1, <1>5, <2>1, <2>2, IdleFields DEF Moves, RetainStep
<1>7. CASE Len(ctl.live) # MaxRetained
  <2>1. ctl' = [ctl EXCEPT !.live = l]
    BY <1>7 DEF RetainProposal, l, k
  <2>2. ctl'.live = l
    BY <1>1, <2>1 DEF Controller
  <2>3. /\ ctl' \in Controller
        /\ SameCalls(ctl, ctl') /\ SameStage(ctl, ctl') /\ SamePlans(ctl, ctl')
        /\ ctl'.captures = ctl.captures /\ ctl'.selections = ctl.selections
    BY <1>5, <2>1
  <2>4. RetainStep(t, Idle)
    BY <1>1, <1>7, <2>2, <2>3 DEF RetainStep, l, k
  <2>. QED
    BY <1>1, <2>4, IdleFields DEF Moves
<1>. QED
  BY <1>6, <1>7

(***************************************************************************)
(* An admission is an admitting step.                                      *)
(***************************************************************************)
LEMMA AdmitSteps ==
  ASSUME ActivationTypes, NEW t \in Threads, NEW p \in Proposals, AdmitCapture(t, p)
  PROVE  \E s : Moves(t, s) /\ AdmitStep(t, s)
<1>. DEFINE i == Len(plans) + 1
            n == made + 1
            e == ctl.consumed \cup {p}
            w == ctl.inflight \cup {i}
            d == [ctl EXCEPT !.next = n, !.plan = i, !.consumed = e, !.inflight = w]
            f == Fence(d)
            s == [Idle EXCEPT !.op = "capture", !.pc = "revalidate", !.fence = f,
                              !.source = host, !.proposal = p, !.plan = i]
<1>1. /\ ctl \in Controller /\ host \in Nat /\ made \in Nat /\ plans \in Seq(Plan)
      /\ thread[t].pc = "idle"
  BY DEF ActivationTypes, AdmitCapture
<1>2. /\ ctl' = d /\ thread' = [thread EXCEPT ![t] = s]
      /\ plans' = Append(plans, [proposal |-> p, call |-> None, next |-> n])
      /\ made' = n /\ host' = host
      /\ ~ctl.revoked /\ TargetOf[p] \in ctl.selected
      /\ Len(ctl.attempts) + Cardinality(ctl.inflight) < MaxCaptures
  BY DEF AdmitCapture, CaptureAllowed, Set
<1>3. i \in Nat /\ n \in Nat /\ e \subseteq Proposals /\ w \subseteq Nat
  BY <1>1, ControllerFields, LenProperties
<1>. HIDE DEF i, n, e, w
<1>4. d \in Controller
  BY <1>1, <1>3 DEF Controller
<1>5. /\ d.selections = ctl.selections /\ d.attempts = ctl.attempts
      /\ d.next = n /\ d.plan = i /\ d.inflight = w
  BY <1>1 DEF Controller
<1>6. SameCalls(ctl, d) /\ SameStage(ctl, d) /\ SameEvidence(ctl, d)
  BY <1>1 DEF Controller, SameCalls, SameStage, SameEvidence
<1>. HIDE DEF d
<1>7. f \in FullFence
  BY <1>4, FenceFields
<1>. HIDE DEF f
<1>8. /\ s \in ThreadState /\ s.op = "capture" /\ s.pc = "revalidate"
      /\ s.reservation = None /\ s.status = "none" /\ s.plan = i /\ s.fence = f
      /\ s.proposal = p
  BY <1>1, <1>3, <1>7, IdleFields DEF ThreadState
<1>. HIDE DEF s
<1>9. Shape(s)
  BY <1>7, <1>8 DEF Shape
<1>10. s.fence = Fence(ctl')
  BY <1>2, <1>8 DEF f
<1>11. AdmitStep(t, s)
  BY <1>1, <1>2, <1>4, <1>5, <1>6, <1>8, <1>10 DEF AdmitStep, i, n, w
<1>. QED
  BY <1>2, <1>8, <1>9, <1>11 DEF Moves

(***************************************************************************)
(* The plan of a capture is one of the plans made.                         *)
(***************************************************************************)
LEMMA CapturePlan ==
  ASSUME ActivationTypes, NEW t \in Threads, thread[t].op = "capture"
  PROVE  /\ thread[t].plan \in 1..Len(plans) /\ thread[t].plan \in ctl.inflight
         /\ plans[thread[t].plan] \in Plan
         /\ plans[thread[t].plan].next \in Nat
         /\ plans[thread[t].plan].call \in Nat \cup {None}
<1>1. thread[t].plan \in 1..Len(plans) /\ thread[t].plan \in ctl.inflight
  BY DEF ActivationTypes, PlanInv
<1>2. plans[thread[t].plan] \in Plan
  BY <1>1, ElementOfSeq DEF ActivationTypes
<1>. QED
  BY <1>1, <1>2 DEF Plan

(***************************************************************************)
(* A capture that is kept is a keeping step.                               *)
(***************************************************************************)
LEMMA KeepSteps ==
  ASSUME ActivationTypes, HasCall, NEW t \in Threads, KeepCapture(t)
  PROVE  \E s : Moves(t, s) /\ KeepStep(t, s)
<1>. DEFINE o == thread[t]
            k == [target |-> TargetOf[o.proposal], epoch |-> ctl.epoch,
                  call |-> o.reservation.call]
            l == Append(ctl.captures, k)
            n == plans[o.plan].next
            d == [ctl EXCEPT !.captures = l, !.next = n]
            s == [o EXCEPT !.pc = "record", !.status = "captured"]
<1>1. /\ o \in ThreadState /\ Shape(o) /\ ctl \in Controller
      /\ At(t, "capture", "conclude") /\ o.status = "received" /\ CaptureFenced(t)
      /\ o.op = "capture"
      /\ UNCHANGED <<plans, host, made, occurrences>>
  BY DEF ActivationTypes, KeepCapture, At
<1>2. ctl' = d /\ thread' = [thread EXCEPT ![t] = s]
  BY DEF KeepCapture, Set
<1>3. o.reservation \in Reservations
  BY <1>1 DEF HasCall
<1>4. ctl.epoch \in Nat
  BY <1>1, ControllerFields, Constants
<1>5. k \in KeptCapture
  BY <1>1, <1>3, <1>4, ReservationFields, Constants DEF KeptCapture, Shape
<1>. HIDE DEF k
<1>6. l \in Seq(KeptCapture)
  BY <1>1, <1>5, ControllerFields, AppendProperties
<1>7. n \in Nat
  BY <1>1, CapturePlan
<1>. HIDE DEF l, n
<1>8. d \in Controller
  BY <1>1, <1>6, <1>7 DEF Controller
<1>9. /\ d.live = ctl.live /\ d.overflow = ctl.overflow /\ d.captures = l
      /\ d.consumed = ctl.consumed /\ d.plan = ctl.plan /\ d.next = n
      /\ d.attempts = ctl.attempts /\ d.inflight = ctl.inflight
      /\ d.selections = ctl.selections
  BY <1>1 DEF Controller
<1>10. SameCalls(ctl, d) /\ SameStage(ctl, d)
  BY <1>1 DEF Controller, SameCalls, SameStage
<1>. HIDE DEF d
<1>11. /\ s \in ThreadState /\ s.pc = "record" /\ s.status = "captured"
       /\ s.op = o.op /\ s.fence = o.fence /\ s.plan = o.plan
       /\ s.reservation = o.reservation /\ s.proposal = o.proposal
  BY <1>1 DEF ThreadState, CallStatus
<1>. HIDE DEF s
<1>12. Shape(s) /\ SameWork(o, s)
  BY <1>1, <1>11 DEF Shape, SameWork
<1>13. KeepStep(t, s)
  BY <1>1, <1>2, <1>8, <1>9, <1>10, <1>11, <1>12 DEF KeepStep, l, k, n
<1>. QED
  BY <1>2, <1>11, <1>12, <1>13 DEF Moves

(***************************************************************************)
(* The record of an attempt is a recording step.                           *)
(***************************************************************************)
LEMMA RecordSteps ==
  ASSUME ActivationTypes, NEW t \in Threads, RecordAttempt(t)
  PROVE  \E s : Moves(t, s) /\ RecordStep(t, s)
<1>. DEFINE o == thread[t]
            k == [epoch |-> o.fence.epoch, call |-> plans[o.plan].call, status |-> o.status]
            l == Append(ctl.attempts, k)
            w == ctl.inflight \ {o.plan}
            n == plans[o.plan].next
            b == [ctl EXCEPT !.attempts = l, !.inflight = w]
<1>1. /\ o \in ThreadState /\ Shape(o) /\ ctl \in Controller
      /\ At(t, "capture", "record") /\ o.op = "capture"
      /\ thread' = [thread EXCEPT ![t] = Idle]
      /\ UNCHANGED <<plans, host, made, occurrences>>
  BY DEF ActivationTypes, RecordAttempt, At, Set
<1>2. o.fence.epoch \in Nat
  BY <1>1, Constants, SMTT(30) DEF Shape, FullFence
<1>3. k \in Attempt
  BY <1>1, <1>2, CapturePlan, ThreadFields DEF Attempt
<1>. HIDE DEF k
<1>4. l \in Seq(Attempt)
  BY <1>1, <1>3, ControllerFields, AppendProperties
<1>5. n \in Nat /\ w \subseteq Nat
  BY <1>1, CapturePlan, ControllerFields
<1>6. Recorded(ctl, t) = b
  BY DEF Recorded, k
<1>7. ctl' = IF ctl.plan = o.plan THEN [b EXCEPT !.plan = 0, !.next = n] ELSE b
  <2>1. ctl' = IF ctl.plan = o.plan THEN [Recorded(ctl, t) EXCEPT !.plan = 0, !.next = n]
               ELSE Recorded(ctl, t)
    BY DEF RecordAttempt
  <2>. QED
    BY <1>6, <2>1, Zenon
<1>. HIDE DEF l, n, w
<1>8. b \in Controller
  BY <1>1, <1>4, <1>5 DEF Controller
<1>9. /\ b.selections = ctl.selections /\ b.consumed = ctl.consumed
      /\ b.attempts = l /\ b.inflight = w /\ b.plan = ctl.plan /\ b.next = ctl.next
  BY <1>1 DEF Controller
<1>10. SameCalls(ctl, b) /\ SameStage(ctl, b) /\ SameEvidence(ctl, b)
  BY <1>1 DEF Controller, SameCalls, SameStage, SameEvidence
<1>. HIDE DEF b
<1>11. CASE ctl.plan # o.plan
  <2>1. ctl' = b
    BY <1>7, <1>11
  <2>2. RecordStep(t, Idle)
    BY <1>1, <1>8, <1>9, <1>10, <1>11, <2>1 DEF RecordStep, l, w, k
  <2>. QED
    BY <1>1, <2>2, IdleFields DEF Moves
<1>12. CASE ctl.plan = o.plan
  <2>. DEFINE d == [b EXCEPT !.plan = 0, !.next = n]
  <2>1. ctl' = d
    BY <1>7, <1>12
  <2>2. d \in Controller
    BY <1>5, <1>8 DEF Controller
  <2>3. /\ d.selections = b.selections /\ d.consumed = b.consumed
        /\ d.attempts = b.attempts /\ d.inflight = b.inflight /\ d.plan = 0 /\ d.next = n
    BY <1>8 DEF Controller
  <2>4. SameCalls(b, d) /\ SameStage(b, d) /\ SameEvidence(b, d)
    BY <1>8 DEF Controller, SameCalls, SameStage, SameEvidence
  <2>. HIDE DEF d
  <2>5. SameCalls(ctl, d) /\ SameStage(ctl, d) /\ SameEvidence(ctl, d)
    BY <1>10, <2>4 DEF SameCalls, SameStage, SameEvidence
  <2>6. RecordStep(t, Idle)
    BY <1>1, <1>9, <1>12, <2>1, <2>2, <2>3, <2>5 DEF RecordStep, l, w, k, n
  <2>. QED
    BY <1>1, <2>6, IdleFields DEF Moves
<1>. QED
  BY <1>11, <1>12

(***************************************************************************)
(* A gate that passes is a verifying step.                                 *)
(***************************************************************************)
LEMMA VerifySteps ==
  ASSUME ActivationTypes, NEW t \in Threads, VerifyEnds(t)
  PROVE  \E s : Moves(t, s) /\ VerifyStep(t, s)
<1>. DEFINE g == [ctl.observed EXCEPT ![ctl.stage] = Gate(ctl)]
            d == [ctl EXCEPT !.observed = g]
<1>1. /\ ctl \in Controller /\ At(t, "verify", "probe")
      /\ ~ctl.revoked /\ Fence(ctl) = thread[t].fence
      /\ thread' = [thread EXCEPT ![t] = Idle]
      /\ UNCHANGED <<plans, host, made, occurrences>>
  BY DEF ActivationTypes, VerifyEnds, Set
<1>2. ctl' = d
  BY <1>1 DEF VerifyEnds, Controller
<1>3. Gate(ctl) \in Gates
  BY <1>1, ControllerFields DEF Gate, Gates
<1>4. g \in [Stage -> Gates \cup {None}]
  BY <1>1, <1>3, ControllerFields
<1>. HIDE DEF g
<1>5. d \in Controller
  BY <1>1, <1>4 DEF Controller
<1>6. /\ d.selections = ctl.selections /\ d.stage = ctl.stage
      /\ d.deployment = ctl.deployment /\ d.selected = ctl.selected /\ d.observed = g
  BY <1>1 DEF Controller
<1>7. SameCalls(ctl, d) /\ SameEvidence(ctl, d) /\ SamePlans(ctl, d)
  BY <1>1 DEF Controller, SameCalls, SameEvidence, SamePlans
<1>. HIDE DEF d
<1>8. VerifyStep(t, Idle)
  BY <1>1, <1>2, <1>5, <1>6, <1>7 DEF VerifyStep, g
<1>. QED
  BY <1>1, <1>8, IdleFields DEF Moves

(***************************************************************************)
(* Every step of the system is of one of these kinds.                      *)
(***************************************************************************)
LEMMA Steps ==
  ASSUME ActivationTypes, HasCall, NextActivation
  PROVE  \/ OperatorStep
         \/ HostAdvances
         \/ \E t \in Threads : \E s : Moves(t, s) /\ ThreadStep(t, s)
<1>1. CASE Operator
  BY <1>1, OperatorSteps DEF ActivationTypes
<1>2. CASE HostAdvances
  BY <1>2
<1>3. ASSUME NEW t \in Threads, Starts(t) \/ Continues(t)
      PROVE  \E s : Moves(t, s) /\ ThreadStep(t, s)
  <2>1. CASE \/ \E source \in 0..host : ProposeBegins(t, source)
             \/ VerifyBegins(t) \/ ReserveRefused(t) \/ SendRequest(t)
             \/ \E p \in Proposals : ResponseArrives(t, p)
             \/ CallFails(t) \/ DropProposal(t) \/ Revalidate(t) \/ CaptureRefused(t)
             \/ SendRead(t) \/ ReadArrives(t) \/ LoseCapture(t) \/ VerifyFails(t)
    BY <2>1, QuietSteps DEF ThreadStep
  <2>2. CASE ReserveCall(t) \/ ReserveRead(t)
    BY <2>2, ReserveSteps DEF ThreadStep
  <2>3. CASE CompleteCall(t)
    BY <2>3, CompleteSteps DEF ThreadStep
  <2>4. CASE RetainProposal(t)
    BY <2>4, RetainSteps DEF ThreadStep
  <2>5. CASE \E p \in Proposals : AdmitCapture(t, p)
    BY <2>5, AdmitSteps DEF ThreadStep
  <2>6. CASE KeepCapture(t)
    BY <2>6, KeepSteps DEF ThreadStep
  <2>7. CASE RecordAttempt(t)
    BY <2>7, RecordSteps DEF ThreadStep
  <2>8. CASE VerifyEnds(t)
    BY <2>8, VerifySteps DEF ThreadStep
  <2>. QED
    BY <1>3, <2>1, <2>2, <2>3, <2>4, <2>5, <2>6, <2>7, <2>8 DEF Starts, Continues
<1>. QED
  BY <1>1, <1>2, <1>3 DEF NextActivation

-----------------------------------------------------------------------------
(* Types are kept. *)

(***************************************************************************)
(* One thread moves, the others stay.                                      *)
(***************************************************************************)
LEMMA Moved ==
  ASSUME thread \in [Threads -> ThreadState], \A u \in Threads : Shape(thread[u]),
         NEW t \in Threads, NEW s, Moves(t, s)
  PROVE  /\ thread' \in [Threads -> ThreadState] /\ \A u \in Threads : Shape(thread'[u])
         /\ thread'[t] = s /\ \A u \in Threads : u # t => thread'[u] = thread[u]
BY DEF Moves

(***************************************************************************)
(* A plan made before keeps its proposal and its next state.               *)
(***************************************************************************)
PlansKept ==
  /\ plans' \in Seq(Plan) /\ Len(plans) \in Nat /\ Len(plans') \in Nat
  /\ Len(plans) <= Len(plans')
  /\ \A i \in 1..Len(plans) : plans'[i].next = plans[i].next

(***************************************************************************)
(* Setting the call of a plan does that.                                   *)
(***************************************************************************)
LEMMA PlanCalled ==
  ASSUME plans \in Seq(Plan), NEW i \in 1..Len(plans), NEW n \in Nat,
         plans' = [plans EXCEPT ![i].call = n]
  PROVE  /\ PlansKept /\ Len(plans') = Len(plans)
         /\ \A j \in 1..Len(plans) :
              plans'[j].call = IF j = i THEN n ELSE plans[j].call
<1>1. plans[i] \in Plan
  BY ElementOfSeq
<1>. DEFINE e == [plans[i] EXCEPT !.call = n]
<1>2. e \in Plan /\ e.next = plans[i].next /\ e.call = n
  BY <1>1 DEF Plan
<1>3. plans' = [plans EXCEPT ![i] = e]
  OBVIOUS
<1>. HIDE DEF e
<1>4. plans' \in Seq(Plan) /\ Len(plans') = Len(plans) /\ Len(plans) \in Nat
  BY <1>2, <1>3, ExceptSeq, LenProperties
<1>5. \A j \in 1..Len(plans) : plans'[j] = IF j = i THEN e ELSE plans[j]
  BY <1>2, <1>3, ExceptSeq
<1>. QED
  BY <1>2, <1>4, <1>5 DEF PlansKept

(***************************************************************************)
(* So does adding a plan.                                                  *)
(***************************************************************************)
LEMMA PlanAdded ==
  ASSUME plans \in Seq(Plan), NEW p \in Plan, plans' = Append(plans, p)
  PROVE  /\ PlansKept /\ Len(plans') = Len(plans) + 1 /\ plans'[Len(plans) + 1] = p
         /\ \A j \in 1..Len(plans) : plans'[j] = plans[j]
<1>1. /\ plans' \in Seq(Plan) /\ Len(plans') = Len(plans) + 1
      /\ \A j \in 1..Len(plans) : plans'[j] = plans[j]
      /\ plans'[Len(plans) + 1] = p
  BY AppendProperties
<1>2. Len(plans) \in Nat
  BY LenProperties
<1>. QED
  BY <1>1, <1>2 DEF PlansKept

(***************************************************************************)
(* What an admission adds.                                                 *)
(***************************************************************************)
LEMMA PlanAdmitted ==
  ASSUME ActivationTypes, NEW t \in Threads, NEW s, Moves(t, s), AdmitStep(t, s)
  PROVE  /\ PlansKept /\ Len(plans') = Len(plans) + 1
         /\ plans'[Len(plans) + 1].call = None /\ plans'[Len(plans) + 1].next = made + 1
         /\ \A j \in 1..Len(plans) : plans'[j] = plans[j]
<1>. DEFINE p == [proposal |-> s.proposal, call |-> None, next |-> made + 1]
<1>1. s.proposal \in Proposals
  BY DEF Moves, AdmitStep, Shape
<1>2. p \in Plan
  BY <1>1 DEF Plan, ActivationTypes
<1>3. plans \in Seq(Plan) /\ plans' = Append(plans, p)
  BY DEF ActivationTypes, AdmitStep
<1>4. p.call = None /\ p.next = made + 1
  OBVIOUS
<1>. HIDE DEF p
<1>. QED
  BY <1>2, <1>3, <1>4, PlanAdded

(***************************************************************************)
(* What a reservation does to the plans.                                   *)
(***************************************************************************)
LEMMA PlanReserved ==
  ASSUME ActivationTypes, NEW t \in Threads, NEW s, Moves(t, s), ReserveStep(t, s)
  PROVE  /\ PlansKept /\ Len(plans') = Len(plans)
         /\ thread[t].op = "propose" => plans' = plans
         /\ thread[t].op = "capture" =>
              /\ ctl.plan \in 1..Len(plans) /\ ctl.plan \in ctl.inflight
              /\ \A j \in 1..Len(plans) :
                   plans'[j].call = IF j = ctl.plan THEN ctl.used ELSE plans[j].call
<1>1. ctl.used \in Nat /\ plans \in Seq(Plan) /\ Len(plans) \in Nat
  BY ControllerFields, Constants, LenProperties DEF ActivationTypes
<1>2. CASE plans' = plans /\ thread[t].op = "propose"
  BY <1>1, <1>2 DEF PlansKept
<1>3. CASE thread[t].op = "capture" /\ ctl.plan # 0
             /\ plans' = [plans EXCEPT ![ctl.plan].call = ctl.used]
  <2>1. ctl.plan \in 1..Len(plans) /\ ctl.plan \in ctl.inflight
    BY <1>3 DEF ActivationTypes, PlanInv
  <2>. QED
    BY <1>1, <1>3, <2>1, PlanCalled
<1>. QED
  BY <1>2, <1>3 DEF ReserveStep

(***************************************************************************)
(* The controller and the plans keep their types.                          *)
(***************************************************************************)
LEMMA StateTypes ==
  ASSUME ActivationTypes, HasCall, NextActivation
  PROVE  /\ ctl' \in Controller /\ PlansKept
         /\ thread' \in [Threads -> ThreadState] /\ \A u \in Threads : Shape(thread'[u])
         /\ made' \in Nat /\ made <= made' /\ host' \in Nat
<1>1. /\ ctl \in Controller /\ plans \in Seq(Plan) /\ Len(plans) \in Nat
      /\ thread \in [Threads -> ThreadState] /\ \A u \in Threads : Shape(thread[u])
      /\ made \in Nat /\ host \in Nat
  BY LenProperties DEF ActivationTypes
<1>2. plans' = plans => PlansKept
  BY <1>1 DEF PlansKept
<1>3. CASE OperatorStep
  BY <1>1, <1>2, <1>3 DEF OperatorStep
<1>4. CASE HostAdvances
  <2>1. ctl.next # None => ctl.next \in Nat
    BY <1>1, ControllerFields
  <2>. QED
    BY <1>1, <1>2, <1>4, <2>1 DEF HostAdvances
<1>5. ASSUME NEW t \in Threads, NEW s, Moves(t, s), ThreadStep(t, s)
      PROVE  /\ ctl' \in Controller /\ PlansKept
             /\ made' \in Nat /\ made <= made' /\ host' \in Nat
  <2>1. CASE QuietStep(t, s)
    BY <1>1, <1>2, <2>1 DEF QuietStep
  <2>2. CASE ReserveStep(t, s)
    BY <1>1, <1>5, <2>2, PlanReserved DEF ReserveStep
  <2>3. CASE CompleteStep(t, s)
    BY <1>1, <1>2, <2>3 DEF CompleteStep
  <2>4. CASE RetainStep(t, s)
    BY <1>1, <1>2, <2>4 DEF RetainStep
  <2>5. CASE AdmitStep(t, s)
    BY <1>1, <1>5, <2>5, PlanAdmitted DEF AdmitStep
  <2>6. CASE KeepStep(t, s)
    BY <1>1, <1>2, <2>6 DEF KeepStep
  <2>7. CASE RecordStep(t, s)
    BY <1>1, <1>2, <2>7 DEF RecordStep
  <2>8. CASE VerifyStep(t, s)
    BY <1>1, <1>2, <2>8 DEF VerifyStep
  <2>. QED
    BY <1>5, <2>1, <2>2, <2>3, <2>4, <2>5, <2>6, <2>7, <2>8 DEF ThreadStep
<1>6. ASSUME NEW t \in Threads, NEW s, Moves(t, s), ThreadStep(t, s)
      PROVE  thread' \in [Threads -> ThreadState] /\ \A u \in Threads : Shape(thread'[u])
  BY <1>1, <1>6, Moved
<1>. QED
  BY <1>3, <1>4, <1>5, <1>6, Steps

(***************************************************************************)
(* Steps that neither begin nor end a capture.                             *)
(***************************************************************************)
PlanFrame ==
  /\ ctl'.inflight = ctl.inflight /\ ctl'.plan \in {0, ctl.plan}
  /\ ctl'.attempts = ctl.attempts /\ Len(plans') = Len(plans)
  /\ \A u \in Threads :
       thread'[u].op = "capture" => /\ thread[u].op = "capture"
                                    /\ thread'[u].plan = thread[u].plan
                                    /\ thread'[u].fence = thread[u].fence
                                    /\ thread'[u].proposal = thread[u].proposal

(***************************************************************************)
(* Every step is one of those, an admission or the record of an attempt.   *)
(***************************************************************************)
LEMMA PlanCases ==
  ASSUME ActivationTypes, HasCall, NextActivation
  PROVE  \/ PlanFrame
         \/ \E t \in Threads : \E s : Moves(t, s) /\ (AdmitStep(t, s) \/ RecordStep(t, s))
<1>1. /\ ctl \in Controller /\ thread \in [Threads -> ThreadState]
      /\ \A u \in Threads : Shape(thread[u])
  BY DEF ActivationTypes
<1>2. CASE OperatorStep
  <2>1. thread' = thread /\ plans' = plans
    BY <1>2 DEF OperatorStep
  <2>2. /\ ctl'.inflight = ctl.inflight /\ ctl'.plan \in {0, ctl.plan}
        /\ ctl'.attempts = ctl.attempts
    BY <1>2 DEF OperatorStep, Exhausts, Promotes, Resets, Revokes, Registers, Steady,
                Retires, SamePlans
  <2>. QED
    BY <2>1, <2>2 DEF PlanFrame
<1>3. CASE HostAdvances
  BY <1>3 DEF HostAdvances, PlanFrame
<1>4. ASSUME NEW t \in Threads, NEW s, Moves(t, s), ThreadStep(t, s)
      PROVE  PlanFrame \/ AdmitStep(t, s) \/ RecordStep(t, s)
  <2>1. thread'[t] = s /\ \A u \in Threads : u # t => thread'[u] = thread[u]
    BY <1>1, <1>4, Moved
  <2>2. ASSUME s.op = "capture" => /\ thread[t].op = "capture"
                                   /\ s.plan = thread[t].plan
                                   /\ s.fence = thread[t].fence
                                   /\ s.proposal = thread[t].proposal,
               ctl'.inflight = ctl.inflight, ctl'.plan = ctl.plan,
               ctl'.attempts = ctl.attempts, Len(plans') = Len(plans)
        PROVE  PlanFrame
    BY <2>1, <2>2 DEF PlanFrame
  <2>3. CASE QuietStep(t, s)
    BY <2>2, <2>3, IdleFields DEF QuietStep, Goes, SameWork
  <2>4. CASE ReserveStep(t, s)
    BY <1>4, <2>2, <2>4, PlanReserved DEF ReserveStep, SamePlans
  <2>5. CASE CompleteStep(t, s)
    BY <2>2, <2>5, IdleFields DEF CompleteStep, SamePlans, SameWork
  <2>6. CASE RetainStep(t, s)
    BY <2>2, <2>6, IdleFields DEF RetainStep, SamePlans
  <2>7. CASE KeepStep(t, s)
    BY <2>2, <2>7 DEF KeepStep, SameWork
  <2>8. CASE VerifyStep(t, s)
    BY <2>2, <2>8, IdleFields DEF VerifyStep, SamePlans
  <2>. QED
    BY <1>4, <2>3, <2>4, <2>5, <2>6, <2>7, <2>8 DEF ThreadStep
<1>. QED
  BY <1>2, <1>3, <1>4, Steps

(***************************************************************************)
(* The capture plan in force stays the last one made and in flight.        *)
(***************************************************************************)
LEMMA PlanStep ==
  ASSUME ActivationTypes, HasCall, NextActivation
  PROVE  PlanInv'
<1>1. /\ PlansKept /\ made \in Nat /\ made' \in Nat /\ made <= made'
      /\ Len(plans) \in Nat /\ PlanInv
  BY StateTypes DEF ActivationTypes, PlansKept
<1>2. CASE PlanFrame
  <2>1. \A i \in 1..Len(plans') : plans'[i].next \in 1..made'
    BY <1>1, <1>2 DEF PlanFrame, PlansKept, PlanInv
  <2>2. ctl'.inflight \subseteq 1..Len(plans')
    BY <1>1, <1>2 DEF PlanFrame, PlanInv
  <2>3. ctl'.plan # 0 => ctl'.plan = Len(plans') /\ ctl'.plan \in ctl'.inflight
    BY <1>1, <1>2 DEF PlanFrame, PlanInv
  <2>4. \A u \in Threads : thread'[u].op = "capture" => thread'[u].plan \in ctl'.inflight
    BY <1>1, <1>2 DEF PlanFrame, PlanInv
  <2>5. \A u, v \in Threads :
          u # v /\ thread'[u].op = "capture" /\ thread'[v].op = "capture"
            => thread'[u].plan # thread'[v].plan
    BY <1>1, <1>2 DEF PlanFrame, PlanInv
  <2>. QED
    BY <2>1, <2>2, <2>3, <2>4, <2>5 DEF PlanInv
<1>3. ASSUME NEW t \in Threads, NEW s, Moves(t, s), AdmitStep(t, s)
      PROVE  PlanInv'
  <2>1. thread'[t] = s /\ \A u \in Threads : u # t => thread'[u] = thread[u]
    BY <1>3, Moved DEF ActivationTypes
  <2>2. /\ Len(plans') = Len(plans) + 1 /\ plans'[Len(plans) + 1].next = made + 1
        /\ \A j \in 1..Len(plans) : plans'[j] = plans[j]
    BY <1>3, PlanAdmitted
  <2>3. /\ made' = made + 1 /\ ctl'.plan = Len(plans) + 1
        /\ ctl'.inflight = ctl.inflight \cup {Len(plans) + 1}
        /\ s.op = "capture" /\ s.plan = Len(plans) + 1
    BY <1>3 DEF AdmitStep
  <2>4. \A i \in 1..Len(plans') : plans'[i].next \in 1..made'
    BY <1>1, <2>2, <2>3 DEF PlanInv
  <2>5. ctl'.inflight \subseteq 1..Len(plans')
    BY <1>1, <2>2, <2>3 DEF PlanInv
  <2>6. \A u \in Threads : thread'[u].op = "capture" => thread'[u].plan \in ctl'.inflight
    BY <1>1, <2>1, <2>3 DEF PlanInv
  <2>7. \A u \in Threads : thread[u].op = "capture" => thread[u].plan # Len(plans) + 1
    BY <1>1 DEF PlanInv
  <2>8. \A u, v \in Threads :
          u # v /\ thread'[u].op = "capture" /\ thread'[v].op = "capture"
            => thread'[u].plan # thread'[v].plan
    BY <1>1, <2>1, <2>3, <2>7 DEF PlanInv
  <2>. QED
    BY <2>2, <2>3, <2>4, <2>5, <2>6, <2>8 DEF PlanInv
<1>4. ASSUME NEW t \in Threads, NEW s, Moves(t, s), RecordStep(t, s)
      PROVE  PlanInv'
  <2>1. thread'[t] = s /\ \A u \in Threads : u # t => thread'[u] = thread[u]
    BY <1>4, Moved DEF ActivationTypes
  <2>2. /\ plans' = plans /\ made' = made /\ s.op = "none" /\ thread[t].op = "capture"
        /\ ctl'.inflight = ctl.inflight \ {thread[t].plan}
        /\ ctl'.plan = IF ctl.plan = thread[t].plan THEN 0 ELSE ctl.plan
    BY <1>4, IdleFields DEF RecordStep, At
  <2>3. \A u \in Threads : thread'[u].op = "capture" => thread'[u].plan \in ctl'.inflight
    BY <1>1, <2>1, <2>2 DEF PlanInv
  <2>4. ctl'.plan # 0 => ctl'.plan = Len(plans') /\ ctl'.plan \in ctl'.inflight
    BY <1>1, <2>2 DEF PlanInv
  <2>5. \A u, v \in Threads :
          u # v /\ thread'[u].op = "capture" /\ thread'[v].op = "capture"
            => thread'[u].plan # thread'[v].plan
    BY <1>1, <2>1, <2>2 DEF PlanInv
  <2>. QED
    BY <1>1, <2>2, <2>3, <2>4, <2>5 DEF PlanInv
<1>. QED
  BY <1>2, <1>3, <1>4, PlanCases

(***************************************************************************)
(* The types are kept.                                                     *)
(***************************************************************************)
LEMMA TypesStep ==
  ASSUME ActivationTypes, HasCall, NextActivation
  PROVE  ActivationTypes'
<1>1. /\ ctl' \in Controller /\ PlansKept
      /\ thread' \in [Threads -> ThreadState] /\ \A u \in Threads : Shape(thread'[u])
      /\ made' \in Nat /\ made <= made' /\ host' \in Nat /\ PlanInv'
      /\ ctl \in Controller /\ TypeOKActivation /\ PlanInv /\ made \in Nat /\ host \in Nat
  BY StateTypes, PlanStep DEF ActivationTypes
<1>2. ctl.live \in Seq(KeptProposal) /\ Len(ctl.live) \in Nat
  BY <1>1, ControllerFields, LenProperties
<1>3. /\ Len(ctl'.live) <= MaxRetained /\ ctl'.selections \subseteq ctl'.selected
      /\ ctl'.next \in (1..made') \cup {None} /\ host' \in 0..made'
  <2>1. /\ Len(ctl.live) <= MaxRetained /\ ctl.selections \subseteq ctl.selected
        /\ ctl.next \in (1..made) \cup {None} /\ host \in 0..made
    BY <1>1 DEF TypeOKActivation
  <2>2. CASE OperatorStep
    <3>1. CASE Retires(ctl, ctl')
      BY <2>1, <2>2, <3>1, EmptySeq, Constants DEF OperatorStep, Retires
    <3>2. CASE Exhausts(ctl, ctl')
      BY <2>1, <2>2, <3>2 DEF OperatorStep, Exhausts, SameEvidence, SamePlans, SameStage
    <3>3. CASE Registers(ctl, ctl')
      BY <2>1, <2>2, <3>3 DEF OperatorStep, Registers, Steady, SameEvidence, SamePlans,
                              SameStage
    <3>. QED
      BY <2>2, <3>1, <3>2, <3>3 DEF OperatorStep, Promotes, Resets, Revokes
  <2>3. CASE HostAdvances
    <3>1. ctl' = ctl
      BY <2>3 DEF HostAdvances
    <3>2. host' \in 0..made'
      BY <1>1, <2>1, <2>3, Constants DEF HostAdvances
    <3>3. ctl'.next \in (1..made') \cup {None}
      BY <1>1, <2>1, <3>1
    <3>. QED
      BY <2>1, <3>1, <3>2, <3>3
  <2>4. ASSUME NEW t \in Threads, NEW s, Moves(t, s), ThreadStep(t, s)
        PROVE  /\ Len(ctl'.live) <= MaxRetained /\ ctl'.selections \subseteq ctl'.selected
               /\ ctl'.next \in (1..made') \cup {None} /\ host' \in 0..made'
    <3>1. CASE QuietStep(t, s)
      BY <2>1, <3>1 DEF QuietStep
    <3>2. CASE ReserveStep(t, s)
      BY <2>1, <3>2 DEF ReserveStep, SameEvidence, SamePlans, SameStage
    <3>3. CASE CompleteStep(t, s)
      BY <2>1, <3>3 DEF CompleteStep, SameEvidence, SamePlans, SameStage
    <3>4. CASE RetainStep(t, s)
      <4>1. CASE ctl'.live = ctl.live
        BY <2>1, <3>4, <4>1 DEF RetainStep, SamePlans, SameStage
      <4>2. CASE ctl'.live # ctl.live
        <5>. DEFINE k == [proposal |-> thread[t].proposal, source |-> thread[t].source,
                          epoch |-> thread[t].reservation.epoch,
                          call |-> thread[t].reservation.call]
        <5>1. ctl'.live = Append(ctl.live, k) /\ Len(ctl.live) # MaxRetained
          BY <3>4, <4>2 DEF RetainStep
        <5>. HIDE DEF k
        <5>2. Len(ctl'.live) = Len(ctl.live) + 1
          BY <1>2, <5>1
        <5>3. Len(ctl'.live) <= MaxRetained
          BY <1>2, <2>1, <5>1, <5>2, Constants
        <5>. QED
          BY <2>1, <3>4, <5>3 DEF RetainStep, SamePlans, SameStage
      <4>. QED
        BY <4>1, <4>2
    <3>5. CASE AdmitStep(t, s)
      BY <1>1, <2>1, <3>5 DEF AdmitStep, SameEvidence, SameStage
    <3>6. CASE KeepStep(t, s)
      <4>1. thread[t].plan \in 1..Len(plans)
        BY <2>4, <3>6, CapturePlan DEF KeepStep, At
      <4>2. ctl'.next \in 1..made
        BY <1>1, <3>6, <4>1 DEF KeepStep, PlanInv
      <4>. QED
        BY <2>1, <3>6, <4>2 DEF KeepStep, SameStage
    <3>7. CASE RecordStep(t, s)
      <4>1. thread[t].plan \in 1..Len(plans)
        BY <2>4, <3>7, CapturePlan DEF RecordStep, At
      <4>2. ctl'.next \in (1..made) \cup {None}
        BY <1>1, <2>1, <3>7, <4>1 DEF RecordStep, PlanInv
      <4>. QED
        BY <2>1, <3>7, <4>2 DEF RecordStep, SameStage, SameEvidence
    <3>8. CASE VerifyStep(t, s)
      BY <2>1, <3>8 DEF VerifyStep, SameEvidence, SamePlans
    <3>. QED
      BY <2>4, <3>1, <3>2, <3>3, <3>4, <3>5, <3>6, <3>7, <3>8 DEF ThreadStep
  <2>. QED
    BY <2>2, <2>3, <2>4, Steps
<1>4. ctl'.plan \in 0..Len(plans') /\ ctl'.inflight \subseteq 1..Len(plans')
  BY <1>1 DEF PlanInv, PlansKept
<1>5. TypeOKActivation'
  <2>1. /\ ctl'.epoch \in 0..MaxEpoch /\ ctl'.revoked \in BOOLEAN
        /\ ctl'.used \in 0..Limit /\ ctl'.stage \in Stage
        /\ ctl'.deployment \in Deployments /\ ctl'.selected \subseteq Targets
        /\ ctl'.observed \in [Stage -> Gates \cup {None}]
        /\ ctl'.overflow \in BOOLEAN /\ ctl'.consumed \subseteq Proposals
    BY <1>1, ControllerFields
  <2>. QED
    BY <1>3, <1>4, <2>1 DEF TypeOKActivation
<1>. QED
  BY <1>1, <1>5 DEF ActivationTypes, PlansKept

-----------------------------------------------------------------------------
(* Calls. *)

(***************************************************************************)
(* Call indexes are never reused, so a thread's reservation is its own;    *)
(* the controller's outstanding call is the one of the thread that calls   *)
(* in this epoch, and a thread of an earlier epoch holds an older one.     *)
(***************************************************************************)
CallInv ==
  /\ HasCall
  /\ \A t \in Threads :
       thread[t].reservation # None =>
         thread[t].reservation.epoch <= ctl.epoch /\ thread[t].reservation.call < ctl.used
  /\ \A t \in Threads :
       thread[t].pc \in CallPc /\ ~ctl.revoked /\ thread[t].reservation.epoch = ctl.epoch
         => ctl.pending = thread[t].reservation
  /\ \A t, u \in Threads :
       t # u /\ thread[t].reservation # None /\ thread[u].reservation # None
         => thread[t].reservation.call # thread[u].reservation.call
  /\ ctl.pending # None =>
       /\ ~ctl.revoked /\ ctl.pending.epoch = ctl.epoch
       /\ \E t \in Threads : thread[t].pc \in CallPc /\ thread[t].reservation = ctl.pending

(***************************************************************************)
(* A thread that calls keeps having a reservation.                         *)
(***************************************************************************)
LEMMA HasCallStep ==
  ASSUME ActivationTypes, HasCall, NextActivation
  PROVE  HasCall'
<1>1. CASE thread' = thread
  BY <1>1 DEF HasCall
<1>2. ASSUME NEW t \in Threads, NEW s, Moves(t, s), ThreadStep(t, s)
      PROVE  HasCall'
  <2>1. thread'[t] = s /\ \A u \in Threads : u # t => thread'[u] = thread[u]
    BY <1>2, Moved DEF ActivationTypes
  <2>2. ASSUME s.pc \in CallPc \cup {"retain"} \/ s.status = "received"
        PROVE  s.reservation \in Reservations
    <3>1. s # Idle
      BY <2>2, IdleFields DEF CallPc
    <3>2. CASE QuietStep(t, s)
      <4>1. Goes(thread[t], s)
        BY <2>2, <3>1, <3>2 DEF QuietStep, CallPc
      <4>. QED
        BY <2>2, <4>1 DEF Goes, SameWork, HasCall
    <3>3. CASE ReserveStep(t, s)
      BY <3>3 DEF ReserveStep
    <3>4. CASE CompleteStep(t, s)
      BY <3>1, <3>4 DEF CompleteStep, SameWork, HasCall, CallPc
    <3>5. CASE AdmitStep(t, s)
      BY <2>2, <3>5 DEF AdmitStep, CallPc
    <3>6. CASE KeepStep(t, s)
      BY <2>2, <3>6 DEF KeepStep, CallPc
    <3>. QED
      BY <1>2, <3>1, <3>2, <3>3, <3>4, <3>5, <3>6
         DEF ThreadStep, RetainStep, RecordStep, VerifyStep
  <2>. QED
    BY <2>1, <2>2 DEF HasCall
<1>. QED
  BY <1>1, <1>2, Steps DEF OperatorStep, HostAdvances

(***************************************************************************)
(* Steps that neither begin nor end a call.                                *)
(***************************************************************************)
CallFrame ==
  /\ ctl'.epoch = ctl.epoch /\ ctl'.revoked = ctl.revoked /\ ctl'.used = ctl.used
  /\ ctl'.pending = ctl.pending
  /\ \A u \in Threads :
       /\ (thread'[u].pc \in CallPc) <=> (thread[u].pc \in CallPc)
       /\ thread'[u].reservation \in {thread[u].reservation, None}
       /\ thread'[u].pc \in CallPc => thread'[u].reservation = thread[u].reservation

(***************************************************************************)
(* Every step is one of those, the operator's, a reservation or the end of *)
(* a call.                                                                 *)
(***************************************************************************)
LEMMA CallCases ==
  ASSUME ActivationTypes, HasCall, NextActivation
  PROVE  \/ CallFrame
         \/ OperatorStep
         \/ \E t \in Threads : \E s :
              Moves(t, s) /\ (ReserveStep(t, s) \/ CompleteStep(t, s))
<1>1. CASE HostAdvances
  BY <1>1 DEF HostAdvances, CallFrame
<1>2. ASSUME NEW t \in Threads, NEW s, Moves(t, s), ThreadStep(t, s)
      PROVE  CallFrame \/ ReserveStep(t, s) \/ CompleteStep(t, s)
  <2>1. /\ thread'[t] = s /\ \A u \in Threads : u # t => thread'[u] = thread[u]
        /\ Shape(thread[t])
    BY <1>2, Moved DEF ActivationTypes
  <2>2. ASSUME ctl'.epoch = ctl.epoch, ctl'.revoked = ctl.revoked, ctl'.used = ctl.used,
               ctl'.pending = ctl.pending,
               (s.pc \in CallPc) <=> (thread[t].pc \in CallPc),
               s.reservation \in {thread[t].reservation, None},
               s.pc \in CallPc => s.reservation = thread[t].reservation
        PROVE  CallFrame
    BY <2>1, <2>2 DEF CallFrame
  <2>3. CASE QuietStep(t, s)
    BY <2>2, <2>3, IdleFields DEF QuietStep, Goes, SameWork, CallPc
  <2>4. CASE RetainStep(t, s)
    BY <2>2, <2>4, IdleFields DEF RetainStep, At, SameCalls, CallPc
  <2>5. CASE AdmitStep(t, s)
    BY <2>2, <2>5 DEF AdmitStep, SameCalls, CallPc
  <2>6. CASE KeepStep(t, s)
    BY <2>2, <2>6 DEF KeepStep, At, SameCalls, SameWork, CallPc
  <2>7. CASE RecordStep(t, s)
    BY <2>2, <2>7, IdleFields DEF RecordStep, At, SameCalls, CallPc
  <2>8. CASE VerifyStep(t, s)
    BY <2>2, <2>8, IdleFields DEF VerifyStep, At, SameCalls, CallPc
  <2>. QED
    BY <1>2, <2>3, <2>4, <2>5, <2>6, <2>7, <2>8 DEF ThreadStep
<1>. QED
  BY <1>1, <1>2, Steps

(***************************************************************************)
(* The threads and the controller keep agreeing about the calls.           *)
(***************************************************************************)
LEMMA CallStep ==
  ASSUME ActivationTypes, CallInv, NextActivation
  PROVE  CallInv'
<1>1. HasCall /\ HasCall'
  BY HasCallStep DEF CallInv
<1>2. /\ ctl.epoch \in Nat /\ ctl.used \in Nat
      /\ \A t \in Threads : /\ thread[t].reservation \in Reservations \cup {None}
                            /\ thread[t].reservation # None =>
                                 /\ thread[t].reservation.epoch \in Nat
                                 /\ thread[t].reservation.call \in Nat
  BY ControllerFields, ThreadFields, ReservationFields, Constants DEF ActivationTypes
<1>3. CASE CallFrame
  BY <1>1, <1>3 DEF CallFrame, CallInv
<1>4. CASE OperatorStep
  <2>1. thread' = thread
    BY <1>4 DEF OperatorStep
  <2>2. CASE Registers(ctl, ctl')
    <3>1. CallFrame
      BY <2>1, <2>2 DEF CallFrame, Registers, Steady, SameCalls
    <3>. QED
      BY <1>3, <3>1
  <2>3. CASE Exhausts(ctl, ctl')
    <3>1. /\ ctl'.revoked /\ ctl'.pending = None /\ ctl'.epoch = ctl.epoch
          /\ ctl'.used = ctl.used
      BY <2>3 DEF Exhausts
    <3>. QED
      BY <1>1, <2>1, <3>1 DEF CallInv
  <2>4. CASE Retires(ctl, ctl')
    <3>1. /\ ctl'.epoch = ctl.epoch + 1 /\ ctl'.pending = None /\ ctl'.used = ctl.used
      BY <2>4 DEF Retires
    <3>2. \A t \in Threads :
            thread[t].reservation # None => /\ thread[t].reservation.epoch < ctl'.epoch
                                            /\ thread[t].reservation.call < ctl'.used
      BY <1>2, <3>1 DEF CallInv
    <3>3. \A t \in Threads : thread[t].pc \in CallPc => thread[t].reservation # None
      BY <1>1, Constants DEF HasCall
    <3>4. \A t \in Threads :
            thread[t].pc \in CallPc => thread[t].reservation.epoch # ctl'.epoch
      BY <1>2, <3>1, <3>2, <3>3
    <3>5. \A t \in Threads :
            thread[t].reservation # None => thread[t].reservation.epoch <= ctl'.epoch
      BY <1>2, <3>1, <3>2
    <3>. QED
      BY <1>1, <2>1, <3>1, <3>2, <3>4, <3>5 DEF CallInv
  <2>. QED
    BY <1>4, <2>2, <2>3, <2>4 DEF OperatorStep, Promotes, Resets, Revokes
<1>5. ASSUME NEW t \in Threads, NEW s, Moves(t, s), ReserveStep(t, s)
      PROVE  CallInv'
  <2>1. thread'[t] = s /\ \A u \in Threads : u # t => thread'[u] = thread[u]
    BY <1>5, Moved DEF ActivationTypes
  <2>2. /\ s.pc \in CallPc /\ s.reservation \in Reservations /\ s.reservation # None
        /\ s.reservation.epoch = ctl.epoch /\ s.reservation.call = ctl.used
        /\ ctl.pending = None /\ ~ctl.revoked
        /\ ctl'.epoch = ctl.epoch /\ ctl'.revoked = ctl.revoked
        /\ ctl'.used = ctl.used + 1 /\ ctl'.pending = s.reservation
    BY <1>5, Constants DEF ReserveStep, CanReserve, CallPc
  <2>3. \A u \in Threads :
          thread'[u].reservation # None =>
            /\ thread'[u].reservation.epoch <= ctl'.epoch
            /\ thread'[u].reservation.call < ctl'.used
    BY <1>2, <2>1, <2>2 DEF CallInv
  <2>4. \A u \in Threads : u # t /\ thread[u].pc \in CallPc =>
          thread[u].reservation # None /\ thread[u].reservation.epoch # ctl.epoch
    BY <1>1, <2>2, Constants DEF CallInv, HasCall
  <2>5. \A u \in Threads :
          thread'[u].pc \in CallPc /\ ~ctl'.revoked
            /\ thread'[u].reservation.epoch = ctl'.epoch
            => ctl'.pending = thread'[u].reservation
    BY <2>1, <2>2, <2>4
  <2>6. \A u \in Threads : thread[u].reservation # None =>
          thread[u].reservation.call # ctl.used
    BY <1>2 DEF CallInv
  <2>7. \A u, v \in Threads :
          u # v /\ thread'[u].reservation # None /\ thread'[v].reservation # None
            => thread'[u].reservation.call # thread'[v].reservation.call
    BY <2>1, <2>2, <2>6 DEF CallInv
  <2>. QED
    BY <1>1, <2>1, <2>2, <2>3, <2>5, <2>7 DEF CallInv
<1>6. ASSUME NEW t \in Threads, NEW s, Moves(t, s), CompleteStep(t, s)
      PROVE  CallInv'
  <2>1. thread'[t] = s /\ \A u \in Threads : u # t => thread'[u] = thread[u]
    BY <1>6, Moved DEF ActivationTypes
  <2>2. /\ s.pc \notin CallPc /\ s.reservation \in {thread[t].reservation, None}
        /\ thread[t].reservation \in Reservations /\ thread[t].reservation # None
        /\ ctl'.epoch = ctl.epoch /\ ctl'.revoked = ctl.revoked /\ ctl'.used = ctl.used
        /\ ctl'.pending = IF ctl.pending = thread[t].reservation THEN None ELSE ctl.pending
    BY <1>1, <1>6, IdleFields, Constants DEF CompleteStep, SameWork, CallPc, HasCall
  <2>3. \A u \in Threads :
          thread'[u].reservation # None =>
            /\ thread'[u].reservation.epoch <= ctl'.epoch
            /\ thread'[u].reservation.call < ctl'.used
    BY <2>1, <2>2 DEF CallInv
  <2>4. \A u \in Threads : u # t /\ thread[u].pc \in CallPc =>
          thread[u].reservation # thread[t].reservation
    BY <1>1, <2>2, Constants DEF CallInv, HasCall
  <2>5. \A u \in Threads :
          thread'[u].pc \in CallPc /\ ~ctl'.revoked
            /\ thread'[u].reservation.epoch = ctl'.epoch
            => ctl'.pending = thread'[u].reservation
    BY <2>1, <2>2, <2>4 DEF CallInv
  <2>6. \A u, v \in Threads :
          u # v /\ thread'[u].reservation # None /\ thread'[v].reservation # None
            => thread'[u].reservation.call # thread'[v].reservation.call
    BY <2>1, <2>2 DEF CallInv
  <2>7. ctl'.pending # None =>
          /\ ~ctl'.revoked /\ ctl'.pending.epoch = ctl'.epoch
          /\ \E u \in Threads :
               thread'[u].pc \in CallPc /\ thread'[u].reservation = ctl'.pending
    BY <2>1, <2>2 DEF CallInv
  <2>. QED
    BY <1>1, <2>3, <2>5, <2>6, <2>7 DEF CallInv
<1>. QED
  BY <1>1, <1>3, <1>4, <1>5, <1>6, CallCases

-----------------------------------------------------------------------------
(* Captures and the plans they carry out. *)

(***************************************************************************)
(* The stage, its selected targets and the deployment change only with the *)
(* epoch, which only grows.                                                *)
(***************************************************************************)
LEMMA EpochMoves ==
  ASSUME ActivationTypes, HasCall, NextActivation
  PROVE  \/ /\ ctl'.epoch = ctl.epoch /\ ctl'.selected = ctl.selected
            /\ ctl'.stage = ctl.stage /\ ctl'.deployment = ctl.deployment
         \/ ctl'.epoch = ctl.epoch + 1 /\ OperatorStep /\ Retires(ctl, ctl')
<1>1. CASE OperatorStep
  BY <1>1 DEF OperatorStep, Exhausts, Promotes, Resets, Revokes, Registers, Retires, Steady,
              SameCalls, SameStage
<1>2. CASE HostAdvances
  BY <1>2 DEF HostAdvances
<1>3. ASSUME NEW t \in Threads, NEW s, ThreadStep(t, s)
      PROVE  /\ ctl'.epoch = ctl.epoch /\ ctl'.selected = ctl.selected
             /\ ctl'.stage = ctl.stage /\ ctl'.deployment = ctl.deployment
  BY <1>3 DEF ThreadStep, QuietStep, ReserveStep, CompleteStep, RetainStep, AdmitStep,
              KeepStep, RecordStep, VerifyStep, SameCalls, SameStage
<1>. QED
  BY <1>1, <1>2, <1>3, Steps

(***************************************************************************)
(* A capture knows its own plan, and its target is selected as long as its *)
(* epoch lasts.                                                            *)
(***************************************************************************)
CaptureInv ==
  \A t \in Threads :
    thread[t].op = "capture" =>
      /\ thread[t].fence.epoch \in Nat /\ thread[t].fence.epoch <= ctl.epoch
      /\ thread[t].fence.plan = thread[t].plan
      /\ thread[t].fence.epoch = ctl.epoch => TargetOf[thread[t].proposal] \in ctl.selected

(***************************************************************************)
(* Captures keep that.                                                     *)
(***************************************************************************)
LEMMA CaptureStep ==
  ASSUME ActivationTypes, HasCall, CaptureInv, NextActivation
  PROVE  CaptureInv'
<1>1. ctl.epoch \in Nat
  BY ControllerFields, Constants DEF ActivationTypes
<1>2. \A t \in Threads :
        thread[t].op = "capture" =>
          /\ thread[t].fence.epoch \in Nat /\ thread[t].fence.epoch <= ctl'.epoch
          /\ thread[t].fence.plan = thread[t].plan
          /\ thread[t].fence.epoch = ctl'.epoch => TargetOf[thread[t].proposal] \in ctl'.selected
  BY <1>1, EpochMoves DEF CaptureInv
<1>3. CASE PlanFrame
  BY <1>2, <1>3 DEF PlanFrame, CaptureInv
<1>4. ASSUME NEW t \in Threads, NEW s, Moves(t, s), AdmitStep(t, s)
      PROVE  CaptureInv'
  <2>1. thread'[t] = s /\ \A u \in Threads : u # t => thread'[u] = thread[u]
    BY <1>4, Moved DEF ActivationTypes
  <2>2. /\ s.fence = Fence(ctl') /\ ctl' \in Controller /\ ctl'.plan = s.plan
        /\ TargetOf[s.proposal] \in ctl'.selected /\ ctl'.epoch = ctl.epoch
    BY <1>4 DEF AdmitStep, SameStage, SameCalls
  <2>3. s.fence.epoch = ctl'.epoch /\ s.fence.plan = ctl'.plan
    BY <2>2, FenceFields
  <2>. QED
    BY <1>1, <1>2, <2>1, <2>2, <2>3 DEF CaptureInv
<1>5. ASSUME NEW t \in Threads, NEW s, Moves(t, s), RecordStep(t, s)
      PROVE  CaptureInv'
  <2>1. thread'[t] = s /\ \A u \in Threads : u # t => thread'[u] = thread[u]
    BY <1>5, Moved DEF ActivationTypes
  <2>2. s.op = "none"
    BY <1>5, IdleFields DEF RecordStep
  <2>. QED
    BY <1>2, <2>1, <2>2 DEF CaptureInv
<1>. QED
  BY <1>3, <1>4, <1>5, PlanCases

(***************************************************************************)
(* What a fenced capture knows when it comes back.                         *)
(***************************************************************************)
LEMMA Fenced ==
  ASSUME ActivationTypes, CaptureInv, NEW t \in Threads, thread[t].op = "capture",
         CaptureFenced(t)
  PROVE  /\ ~ctl.revoked
         /\ TargetOf[thread[t].proposal] \in ctl.selected
         /\ ctl.plan = thread[t].plan /\ ctl.plan # 0
         /\ thread[t].reservation.epoch = ctl.epoch
         /\ thread[t].reservation.call + 1 = ctl.used
<1>. DEFINE f == thread[t].fence
            g == [f EXCEPT !.used = @ + 1]
<1>1. f \in FullFence /\ ctl \in Controller
  BY DEF ActivationTypes, Shape
<1>2. g.epoch = f.epoch /\ g.plan = f.plan /\ g.used = f.used + 1
  BY <1>1 DEF FullFence
<1>3. /\ Fence(ctl) = g /\ thread[t].reservation.epoch = f.epoch
      /\ thread[t].reservation.call = f.used /\ ~ctl.revoked /\ ctl.plan # 0
  BY DEF CaptureFenced, PlanMatches
<1>. HIDE DEF g
<1>4. ctl.epoch = f.epoch /\ ctl.plan = f.plan /\ ctl.used = f.used + 1
  BY <1>1, <1>2, <1>3, FenceFields
<1>. QED
  BY <1>3, <1>4 DEF CaptureInv

(***************************************************************************)
(* The next orchestration state is the one of the last plan.               *)
(***************************************************************************)
LEMMA ChainStep ==
  ASSUME ActivationTypes, HasCall, CaptureInv, AdmissionsChained, NextActivation
  PROVE  AdmissionsChained'
<1>1. plans \in Seq(Plan) /\ Len(plans) \in Nat /\ ctl \in Controller
  BY LenProperties DEF ActivationTypes
<1>2. plans = <<>> <=> Len(plans) = 0
  BY <1>1, EmptySeq
<1>3. ASSUME ctl'.next = ctl.next, plans' = plans PROVE AdmissionsChained'
  BY <1>3 DEF AdmissionsChained
<1>4. CASE OperatorStep
  <2>1. ctl'.next = ctl.next /\ plans' = plans
    BY <1>4 DEF OperatorStep, Exhausts, Promotes, Resets, Revokes, Registers, Retires,
                Steady, SamePlans
  <2>. QED
    BY <1>3, <2>1
<1>5. CASE HostAdvances
  BY <1>3, <1>5 DEF HostAdvances
<1>6. ASSUME NEW t \in Threads, NEW s, Moves(t, s), ThreadStep(t, s)
      PROVE  AdmissionsChained'
  <2>1. CASE QuietStep(t, s) \/ CompleteStep(t, s) \/ RetainStep(t, s) \/ VerifyStep(t, s)
    <3>1. ctl'.next = ctl.next /\ plans' = plans
      BY <2>1 DEF QuietStep, CompleteStep, RetainStep, VerifyStep, SamePlans
    <3>. QED
      BY <1>3, <3>1
  <2>2. CASE ReserveStep(t, s)
    <3>1. ctl'.next = ctl.next
      BY <2>2 DEF ReserveStep, SamePlans
    <3>2. /\ Len(plans') = Len(plans) /\ plans' \in Seq(Plan)
          /\ \A i \in 1..Len(plans) : plans'[i].next = plans[i].next
      BY <1>6, <2>2, PlanReserved DEF PlansKept
    <3>3. plans' = <<>> <=> Len(plans') = 0
      BY <3>2, EmptySeq
    <3>. QED
      BY <1>1, <1>2, <3>1, <3>2, <3>3 DEF AdmissionsChained
  <2>3. CASE AdmitStep(t, s)
    <3>1. ctl'.next = made + 1
      BY <2>3 DEF AdmitStep
    <3>2. /\ Len(plans') = Len(plans) + 1 /\ plans' \in Seq(Plan)
          /\ plans'[Len(plans) + 1].next = made + 1
      BY <1>6, <2>3, PlanAdmitted DEF PlansKept
    <3>3. plans' = <<>> <=> Len(plans') = 0
      BY <3>2, EmptySeq
    <3>. QED
      BY <1>1, <3>1, <3>2, <3>3 DEF AdmissionsChained
  <2>4. ASSUME thread[t].op = "capture", ctl.plan = thread[t].plan,
               ctl'.next = plans[thread[t].plan].next, plans' = plans
        PROVE  AdmissionsChained'
    <3>1. ctl.plan = Len(plans) /\ Len(plans) # 0
      BY <1>1, <2>4, CapturePlan DEF ActivationTypes, PlanInv
    <3>. QED
      BY <1>2, <2>4, <3>1 DEF AdmissionsChained
  <2>5. CASE KeepStep(t, s)
    <3>1. thread[t].op = "capture" /\ CaptureFenced(t)
      BY <2>5 DEF KeepStep, At
    <3>2. ctl.plan = thread[t].plan
      BY <3>1, Fenced
    <3>. QED
      BY <2>4, <2>5, <3>1, <3>2 DEF KeepStep
  <2>6. CASE RecordStep(t, s)
    <3>1. CASE ctl.plan = thread[t].plan
      BY <2>4, <2>6, <3>1 DEF RecordStep, At
    <3>2. CASE ctl.plan # thread[t].plan
      BY <1>3, <2>6, <3>2 DEF RecordStep
    <3>. QED
      BY <3>1, <3>2
  <2>. QED
    BY <1>6, <2>1, <2>2, <2>3, <2>5, <2>6 DEF ThreadStep
<1>. QED
  BY <1>4, <1>5, <1>6, Steps

-----------------------------------------------------------------------------
(* Evidence. *)

(***************************************************************************)
(* A call that a thread still holds has left no evidence yet, and every    *)
(* kept call was reserved.                                                 *)
(***************************************************************************)
FreshInv ==
  /\ \A i \in 1..Len(ctl.live) : ctl.live[i].call < ctl.used
  /\ \A i \in 1..Len(ctl.captures) : ctl.captures[i].call < ctl.used
  /\ \A t \in Threads :
       thread[t].reservation # None /\ thread[t].pc # "record" =>
         /\ \A i \in 1..Len(ctl.live) : ctl.live[i].call # thread[t].reservation.call
         /\ \A i \in 1..Len(ctl.captures) : ctl.captures[i].call # thread[t].reservation.call

(***************************************************************************)
(* Steps that leave the evidence alone.                                    *)
(***************************************************************************)
FreshFrame ==
  /\ ctl'.live = ctl.live /\ ctl'.captures = ctl.captures /\ ctl'.epoch = ctl.epoch
  /\ ctl'.selected = ctl.selected /\ ctl'.used \in {ctl.used, ctl.used + 1}
  /\ \A u \in Threads :
       thread'[u].reservation # None /\ thread'[u].pc # "record" =>
         \/ thread'[u].reservation = thread[u].reservation /\ thread[u].pc # "record"
         \/ thread'[u].reservation.call = ctl.used

(***************************************************************************)
(* Every step is one of those, forgets the evidence, or keeps a proposal   *)
(* or a capture.                                                           *)
(***************************************************************************)
LEMMA FreshCases ==
  ASSUME ActivationTypes, HasCall, NextActivation
  PROVE  \/ FreshFrame
         \/ Retires(ctl, ctl')
         \/ \E t \in Threads : \E s : Moves(t, s) /\ RetainStep(t, s) /\ ctl'.live # ctl.live
         \/ \E t \in Threads : \E s : Moves(t, s) /\ KeepStep(t, s)
<1>1. CASE OperatorStep
  <2>1. thread' = thread
    BY <1>1 DEF OperatorStep
  <2>2. CASE Exhausts(ctl, ctl')
    BY <2>1, <2>2 DEF Exhausts, SameEvidence, SameStage, FreshFrame
  <2>3. CASE Registers(ctl, ctl')
    BY <2>1, <2>3 DEF Registers, Steady, SameCalls, SameEvidence, SameStage, FreshFrame
  <2>. QED
    BY <1>1, <2>2, <2>3 DEF OperatorStep, Promotes, Resets, Revokes
<1>2. CASE HostAdvances
  BY <1>2 DEF HostAdvances, FreshFrame
<1>3. ASSUME NEW t \in Threads, NEW s, Moves(t, s), ThreadStep(t, s)
      PROVE  FreshFrame \/ (RetainStep(t, s) /\ ctl'.live # ctl.live) \/ KeepStep(t, s)
  <2>1. thread'[t] = s /\ \A u \in Threads : u # t => thread'[u] = thread[u]
    BY <1>3, Moved DEF ActivationTypes
  <2>2. ASSUME ctl'.live = ctl.live, ctl'.captures = ctl.captures, ctl'.epoch = ctl.epoch,
               ctl'.selected = ctl.selected, ctl'.used \in {ctl.used, ctl.used + 1},
               s.reservation # None /\ s.pc # "record" =>
                 \/ s.reservation = thread[t].reservation /\ thread[t].pc # "record"
                 \/ s.reservation.call = ctl.used
        PROVE  FreshFrame
    BY <2>1, <2>2 DEF FreshFrame
  <2>3. CASE QuietStep(t, s)
    BY <2>2, <2>3, IdleFields DEF QuietStep, Goes, SameWork
  <2>4. CASE ReserveStep(t, s)
    BY <2>2, <2>4 DEF ReserveStep, SameEvidence, SameStage
  <2>5. CASE CompleteStep(t, s)
    BY <2>2, <2>5, IdleFields DEF CompleteStep, SameEvidence, SameStage, SameWork
  <2>6. CASE RetainStep(t, s) /\ ctl'.live = ctl.live
    BY <2>2, <2>6, IdleFields DEF RetainStep, SameCalls, SameStage
  <2>7. CASE AdmitStep(t, s)
    BY <2>2, <2>7 DEF AdmitStep, SameCalls, SameEvidence, SameStage
  <2>8. CASE RecordStep(t, s)
    BY <2>2, <2>8, IdleFields DEF RecordStep, SameCalls, SameEvidence, SameStage
  <2>9. CASE VerifyStep(t, s)
    BY <2>2, <2>9, IdleFields DEF VerifyStep, SameCalls, SameEvidence
  <2>. QED
    BY <1>3, <2>3, <2>4, <2>5, <2>6, <2>7, <2>8, <2>9 DEF ThreadStep
<1>. QED
  BY <1>1, <1>2, <1>3, Steps

(***************************************************************************)
(* The kept calls are numbers.                                             *)
(***************************************************************************)
LEMMA KeptCalls ==
  ASSUME ctl \in Controller
  PROVE  /\ Len(ctl.live) \in Nat /\ Len(ctl.captures) \in Nat /\ ctl.used \in Nat
         /\ \A i \in 1..Len(ctl.live) : ctl.live[i].call \in Nat
         /\ \A i \in 1..Len(ctl.captures) : ctl.captures[i].call \in Nat
<1>1. ctl.live \in Seq(KeptProposal) /\ ctl.captures \in Seq(KeptCapture) /\ ctl.used \in Nat
  BY ControllerFields, Constants
<1>2. \A i \in 1..Len(ctl.live) : ctl.live[i] \in KeptProposal
  BY <1>1, ElementOfSeq
<1>3. \A i \in 1..Len(ctl.captures) : ctl.captures[i] \in KeptCapture
  BY <1>1, ElementOfSeq
<1>. QED
  BY <1>1, <1>2, <1>3, LenProperties DEF KeptProposal, KeptCapture

(***************************************************************************)
(* A later call at the end of an ordered sequence.                         *)
(***************************************************************************)
LEMMA Ordered ==
  ASSUME NEW m \in Nat, NEW f, NEW g,
         \A i \in 1..m : g[i] = f[i] /\ f[i].call < g[m + 1].call,
         \A i \in 1..m : \A j \in 1..(i - 1) : f[j].call < f[i].call
  PROVE  \A i \in 1..(m + 1) : \A j \in 1..(i - 1) : g[j].call < g[i].call
<1>. SUFFICES ASSUME NEW i \in 1..(m + 1), NEW j \in 1..(i - 1)
              PROVE  g[j].call < g[i].call
  OBVIOUS
<1>1. j \in 1..m
  OBVIOUS
<1>2. CASE i = m + 1
  BY <1>1, <1>2
<1>3. CASE i # m + 1
  <2>1. i \in 1..m
    BY <1>3
  <2>. QED
    BY <1>1, <2>1
<1>. QED
  BY <1>2, <1>3

(***************************************************************************)
(* Evidence stays current and ordered.                                     *)
(***************************************************************************)
LEMMA EvidenceStep ==
  ASSUME ActivationTypes, CallInv, CaptureInv, FreshInv, EvidenceCurrent, NextActivation
  PROVE  FreshInv' /\ EvidenceCurrent'
<1>1. /\ ctl \in Controller /\ HasCall
      /\ ctl.live \in Seq(KeptProposal) /\ ctl.captures \in Seq(KeptCapture)
  BY ControllerFields DEF ActivationTypes, CallInv
<1>2. /\ Len(ctl.live) \in Nat /\ Len(ctl.captures) \in Nat /\ ctl.used \in Nat
      /\ \A i \in 1..Len(ctl.live) : ctl.live[i].call \in Nat
      /\ \A i \in 1..Len(ctl.captures) : ctl.captures[i].call \in Nat
  BY <1>1, KeptCalls
<1>3. CASE FreshFrame
  <2>1. EvidenceCurrent'
    BY <1>3 DEF FreshFrame, EvidenceCurrent
  <2>2. /\ \A i \in 1..Len(ctl'.live) : ctl'.live[i].call < ctl'.used
        /\ \A i \in 1..Len(ctl'.captures) : ctl'.captures[i].call < ctl'.used
    BY <1>2, <1>3 DEF FreshFrame, FreshInv
  <2>3. ASSUME NEW u \in Threads, thread'[u].reservation # None, thread'[u].pc # "record"
        PROVE  /\ \A i \in 1..Len(ctl'.live) : ctl'.live[i].call # thread'[u].reservation.call
               /\ \A i \in 1..Len(ctl'.captures) :
                    ctl'.captures[i].call # thread'[u].reservation.call
    <3>1. CASE thread'[u].reservation.call = ctl.used
      BY <1>2, <1>3, <3>1 DEF FreshFrame, FreshInv
    <3>2. CASE thread'[u].reservation = thread[u].reservation /\ thread[u].pc # "record"
      BY <1>3, <2>3, <3>2 DEF FreshFrame, FreshInv
    <3>. QED
      BY <1>3, <2>3, <3>1, <3>2 DEF FreshFrame
  <2>. QED
    BY <2>1, <2>2, <2>3 DEF FreshInv
<1>4. CASE Retires(ctl, ctl')
  <2>1. ctl'.live = <<>> /\ ctl'.captures = <<>>
    BY <1>4 DEF Retires
  <2>2. 1..Len(ctl'.live) = {} /\ 1..Len(ctl'.captures) = {}
    BY <2>1
  <2>. QED
    BY <2>2 DEF FreshInv, EvidenceCurrent
<1>5. ASSUME NEW t \in Threads, NEW s, Moves(t, s), RetainStep(t, s), ctl'.live # ctl.live
      PROVE  FreshInv' /\ EvidenceCurrent'
  <2>. DEFINE r == thread[t].reservation
              n == Len(ctl.live) + 1
              k == [proposal |-> thread[t].proposal, source |-> thread[t].source,
                    epoch |-> r.epoch, call |-> r.call]
  <2>1. thread'[t] = Idle /\ \A u \in Threads : u # t => thread'[u] = thread[u]
    BY <1>5, Moved DEF ActivationTypes, RetainStep
  <2>2. /\ ctl'.live = Append(ctl.live, k) /\ ctl'.captures = ctl.captures
        /\ ctl'.used = ctl.used /\ ctl'.epoch = ctl.epoch /\ ctl'.selected = ctl.selected
        /\ thread[t].pc = "retain"
    BY <1>5 DEF RetainStep, SameCalls, SameStage, At
  <2>3. r \in Reservations /\ r # None /\ r.call \in Nat
    BY <1>1, <2>2, ReservationFields, Constants DEF HasCall
  <2>4. r.epoch = ctl.epoch /\ r.call + 1 = ctl.used
    BY <1>5 DEF RetainStep, Preserved
  <2>5. k.call = r.call /\ k.epoch = r.epoch
    OBVIOUS
  <2>. HIDE DEF k
  <2>6. /\ Len(ctl'.live) = n /\ ctl'.live[n] = k
        /\ \A i \in 1..Len(ctl.live) : ctl'.live[i] = ctl.live[i]
    BY <1>1, <2>2
  <2>7. /\ \A i \in 1..Len(ctl.live) : ctl.live[i].call # r.call /\ ctl.live[i].call < ctl.used
        /\ \A i \in 1..Len(ctl.captures) : ctl.captures[i].call # r.call
    BY <2>2, <2>3 DEF FreshInv
  <2>8. \A i \in 1..Len(ctl.live) : ctl.live[i].call < r.call
    BY <1>2, <2>3, <2>4, <2>7
  <2>9. n \in Nat /\ \A i \in 1..n : i \in 1..Len(ctl.live) \/ i = n
    BY <1>2
  <2>10. \A i \in 1..n : \A j \in 1..(i - 1) : j \in 1..Len(ctl.live)
    BY <1>2
  <2>11. \A i \in 1..n :
           /\ ctl'.live[i].epoch = ctl.epoch
           /\ \A j \in 1..(i - 1) : ctl'.live[j].call < ctl'.live[i].call
           /\ ctl'.live[i].call < ctl.used
    <3>1. \A i \in 1..Len(ctl.live) : ctl.live[i].call < ctl'.live[n].call
      BY <2>5, <2>6, <2>8
    <3>2. \A i \in 1..n : \A j \in 1..(i - 1) : ctl'.live[j].call < ctl'.live[i].call
      <4>1. \A i \in 1..Len(ctl.live) : \A j \in 1..(i - 1) :
              ctl.live[j].call < ctl.live[i].call
        BY DEF EvidenceCurrent
      <4>2. \A i \in 1..Len(ctl.live) :
              ctl'.live[i] = ctl.live[i] /\ ctl.live[i].call < ctl'.live[n].call
        BY <2>6, <3>1
      <4>. QED
        BY <1>2, <4>1, <4>2, Ordered, Zenon
    <3>. HIDE DEF n
    <3>3. \A i \in 1..Len(ctl.live) : ctl'.live[i].epoch = ctl.epoch
      BY <2>6 DEF EvidenceCurrent
    <3>4. \A i \in 1..Len(ctl.live) : ctl'.live[i].call < ctl.used
      BY <2>6, <2>7
    <3>5. ctl'.live[n].epoch = ctl.epoch /\ ctl'.live[n].call < ctl.used
      BY <1>2, <2>3, <2>4, <2>5, <2>6
    <3>. QED
      BY <2>9, <3>2, <3>3, <3>4, <3>5
  <2>12. \A i \in 1..Len(ctl.captures) : \A j \in 1..n :
           ctl'.live[j].call # ctl.captures[i].call
    BY <2>5, <2>6, <2>7, <2>9, SMTT(30) DEF EvidenceCurrent
  <2>13. EvidenceCurrent'
    BY <2>2, <2>6, <2>11, <2>12 DEF EvidenceCurrent
  <2>14. ASSUME NEW u \in Threads, thread'[u].reservation # None, thread'[u].pc # "record"
         PROVE  /\ \A i \in 1..n : ctl'.live[i].call # thread'[u].reservation.call
                /\ \A i \in 1..Len(ctl.captures) :
                     ctl.captures[i].call # thread'[u].reservation.call
    <3>1. u # t
      BY <2>1, <2>14, IdleFields
    <3>2. thread[u].reservation.call # r.call
      BY <2>1, <2>3, <2>14, <3>1 DEF CallInv
    <3>3. /\ thread'[u] = thread[u]
          /\ \A i \in 1..Len(ctl.live) : ctl.live[i].call # thread[u].reservation.call
          /\ \A i \in 1..Len(ctl.captures) : ctl.captures[i].call # thread[u].reservation.call
      BY <2>1, <2>14, <3>1 DEF FreshInv
    <3>. HIDE DEF n
    <3>4. ctl'.live[n].call # thread[u].reservation.call
      BY <2>5, <2>6, <3>2
    <3>. QED
      BY <2>6, <2>9, <3>3, <3>4
  <2>. QED
    BY <2>2, <2>6, <2>11, <2>13, <2>14 DEF FreshInv
<1>6. ASSUME NEW t \in Threads, NEW s, Moves(t, s), KeepStep(t, s)
      PROVE  FreshInv' /\ EvidenceCurrent'
  <2>. DEFINE r == thread[t].reservation
              n == Len(ctl.captures) + 1
              k == [target |-> TargetOf[thread[t].proposal], epoch |-> ctl.epoch,
                    call |-> r.call]
  <2>1. /\ thread'[t].pc = "record" /\ \A u \in Threads : u # t => thread'[u] = thread[u]
    BY <1>6, Moved DEF ActivationTypes, KeepStep
  <2>2. /\ ctl'.captures = Append(ctl.captures, k) /\ ctl'.live = ctl.live
        /\ ctl'.used = ctl.used /\ ctl'.epoch = ctl.epoch /\ ctl'.selected = ctl.selected
        /\ thread[t].pc = "conclude" /\ thread[t].op = "capture"
        /\ thread[t].status = "received" /\ CaptureFenced(t)
    BY <1>6 DEF KeepStep, SameCalls, SameStage, At
  <2>3. r \in Reservations /\ r # None /\ r.call \in Nat
    BY <1>1, <2>2, ReservationFields, Constants DEF HasCall
  <2>4. r.call + 1 = ctl.used /\ TargetOf[thread[t].proposal] \in ctl.selected
    BY <2>2, Fenced
  <2>5. k.call = r.call /\ k.epoch = ctl.epoch /\ k.target \in ctl.selected
    BY <2>4
  <2>. HIDE DEF k
  <2>6. /\ Len(ctl'.captures) = n /\ ctl'.captures[n] = k
        /\ \A i \in 1..Len(ctl.captures) : ctl'.captures[i] = ctl.captures[i]
    BY <1>1, <2>2
  <2>7. /\ \A i \in 1..Len(ctl.live) : ctl.live[i].call # r.call
        /\ \A i \in 1..Len(ctl.captures) :
             ctl.captures[i].call # r.call /\ ctl.captures[i].call < ctl.used
    BY <2>2, <2>3 DEF FreshInv
  <2>8. \A i \in 1..Len(ctl.captures) : ctl.captures[i].call < r.call
    BY <1>2, <2>3, <2>4, <2>7
  <2>9. n \in Nat /\ \A i \in 1..n : i \in 1..Len(ctl.captures) \/ i = n
    BY <1>2
  <2>10. \A i \in 1..n :
           /\ ctl'.captures[i].epoch = ctl.epoch /\ ctl'.captures[i].target \in ctl.selected
           /\ \A j \in 1..(i - 1) : ctl'.captures[j].call < ctl'.captures[i].call
           /\ \A j \in 1..Len(ctl.live) : ctl.live[j].call # ctl'.captures[i].call
           /\ ctl'.captures[i].call < ctl.used
    <3>1. \A i \in 1..Len(ctl.captures) : ctl.captures[i].call < ctl'.captures[n].call
      BY <2>5, <2>6, <2>8
    <3>2. \A i \in 1..n : \A j \in 1..(i - 1) :
            ctl'.captures[j].call < ctl'.captures[i].call
      <4>1. \A i \in 1..Len(ctl.captures) : \A j \in 1..(i - 1) :
              ctl.captures[j].call < ctl.captures[i].call
        BY DEF EvidenceCurrent
      <4>2. \A i \in 1..Len(ctl.captures) :
              ctl'.captures[i] = ctl.captures[i] /\ ctl.captures[i].call < ctl'.captures[n].call
        BY <2>6, <3>1
      <4>. QED
        BY <1>2, <4>1, <4>2, Ordered, Zenon
    <3>. HIDE DEF n
    <3>3. \A i \in 1..Len(ctl.captures) :
            /\ ctl'.captures[i].epoch = ctl.epoch /\ ctl'.captures[i].target \in ctl.selected
            /\ \A j \in 1..Len(ctl.live) : ctl.live[j].call # ctl'.captures[i].call
      BY <2>6 DEF EvidenceCurrent
    <3>4. \A i \in 1..Len(ctl.captures) : ctl'.captures[i].call < ctl.used
      BY <2>6, <2>7
    <3>5. /\ ctl'.captures[n].epoch = ctl.epoch /\ ctl'.captures[n].target \in ctl.selected
          /\ \A j \in 1..Len(ctl.live) : ctl.live[j].call # ctl'.captures[n].call
      BY <2>5, <2>6, <2>7
    <3>6. ctl'.captures[n].call < ctl.used
      BY <1>2, <2>3, <2>4, <2>5, <2>6
    <3>. QED
      BY <2>9, <3>2, <3>3, <3>4, <3>5, <3>6
  <2>11. EvidenceCurrent'
    BY <2>2, <2>6, <2>10 DEF EvidenceCurrent
  <2>12. ASSUME NEW u \in Threads, thread'[u].reservation # None, thread'[u].pc # "record"
         PROVE  /\ \A i \in 1..Len(ctl.live) : ctl.live[i].call # thread'[u].reservation.call
                /\ \A i \in 1..n : ctl'.captures[i].call # thread'[u].reservation.call
    <3>1. u # t
      BY <2>1, <2>12
    <3>2. thread[u].reservation.call # r.call
      BY <2>1, <2>3, <2>12, <3>1 DEF CallInv
    <3>3. /\ thread'[u] = thread[u]
          /\ \A i \in 1..Len(ctl.live) : ctl.live[i].call # thread[u].reservation.call
          /\ \A i \in 1..Len(ctl.captures) : ctl.captures[i].call # thread[u].reservation.call
      BY <2>1, <2>12, <3>1 DEF FreshInv
    <3>. HIDE DEF n
    <3>4. ctl'.captures[n].call # thread[u].reservation.call
      BY <2>5, <2>6, <3>2
    <3>. QED
      BY <2>6, <2>9, <3>3, <3>4
  <2>. QED
    BY <2>2, <2>6, <2>10, <2>11, <2>12 DEF FreshInv
<1>. QED
  BY <1>1, <1>3, <1>4, <1>5, <1>6, FreshCases

-----------------------------------------------------------------------------
(* Accounts. *)

AccountFrame ==
  /\ ctl'.used = ctl.used /\ ctl'.openai = ctl.openai /\ ctl'.reads = ctl.reads
  /\ ctl'.attempts = ctl.attempts /\ ctl'.inflight = ctl.inflight /\ plans' = plans

(***************************************************************************)
(* Only reservations, admissions and recorded attempts change an account.  *)
(***************************************************************************)
LEMMA AccountCases ==
  ASSUME ActivationTypes, HasCall, NextActivation
  PROVE  \/ AccountFrame
         \/ \E t \in Threads : \E s :
              Moves(t, s) /\ (ReserveStep(t, s) \/ AdmitStep(t, s) \/ RecordStep(t, s))
<1>1. CASE OperatorStep
  BY <1>1 DEF OperatorStep, Exhausts, Promotes, Resets, Revokes, Registers, Retires, Steady,
              SameCalls, SamePlans, AccountFrame
<1>2. CASE HostAdvances
  BY <1>2 DEF HostAdvances, AccountFrame
<1>3. ASSUME NEW t \in Threads, NEW s, ThreadStep(t, s)
      PROVE  AccountFrame \/ ReserveStep(t, s) \/ AdmitStep(t, s) \/ RecordStep(t, s)
  BY <1>3 DEF ThreadStep, QuietStep, CompleteStep, RetainStep, KeepStep, VerifyStep,
              SameCalls, SamePlans, AccountFrame
<1>. QED
  BY <1>1, <1>2, <1>3, Steps

(***************************************************************************)
(* Every selected read is held by one attempt or one capture in flight.    *)
(***************************************************************************)
LEMMA AccountStep ==
  ASSUME ActivationTypes, HasCall, AccountingReconciles, NextActivation
  PROVE  AccountingReconciles'
<1>. DEFINE A == {i \in 1..Len(ctl.attempts) : ctl.attempts[i].call # None}
            F == {i \in ctl.inflight : plans[i].call # None}
            B == {i \in 1..Len(ctl'.attempts) : ctl'.attempts[i].call # None}
            G == {i \in ctl'.inflight : plans'[i].call # None}
<1>1. /\ ctl \in Controller /\ PlanInv /\ Len(plans) \in Nat
      /\ ctl.attempts \in Seq(Attempt) /\ Len(ctl.attempts) \in Nat
      /\ ctl.used \in Nat /\ ctl.openai \in Nat /\ ctl.reads \in Nat
  BY ControllerFields, LenProperties, Constants DEF ActivationTypes
<1>2. ctl.inflight \subseteq 1..Len(plans) /\ IsFiniteSet(1..Len(plans))
  <2>1. 1 \in Int /\ Len(plans) \in Int
    BY <1>1
  <2>. QED
    BY <1>1, <2>1, FS_Interval, Zenon DEF PlanInv
<1>3. IsFiniteSet(ctl.inflight) /\ IsFiniteSet(F)
  BY <1>2, FS_Subset
<1>4. IsFiniteSet(1..Len(ctl.attempts))
  <2>1. 1 \in Int /\ Len(ctl.attempts) \in Int
    BY <1>1
  <2>. QED
    BY <2>1, FS_Interval, Zenon
<1>5. IsFiniteSet(A)
  BY <1>4, FS_Subset
<1>6. /\ Cardinality(ctl.inflight) \in Nat /\ Cardinality(A) \in Nat
      /\ Cardinality(F) \in Nat
  BY <1>3, <1>5, FS_CardinalityType
<1>7. /\ ctl.openai + ctl.reads = ctl.used
      /\ Cardinality(A) + Cardinality(F) = ctl.reads
      /\ Len(ctl.attempts) + Cardinality(ctl.inflight) <= MaxCaptures
  BY DEF AccountingReconciles, Dispatched
<1>8. SUFFICES /\ ctl'.openai + ctl'.reads = ctl'.used
               /\ Cardinality(B) + Cardinality(G) = ctl'.reads
               /\ Len(ctl'.attempts) + Cardinality(ctl'.inflight) <= MaxCaptures
  BY DEF AccountingReconciles, Dispatched
<1>9. CASE AccountFrame
  <2>1. B = A /\ G = F
    BY <1>9 DEF AccountFrame
  <2>. HIDE DEF A, B, F, G
  <2>. QED
    BY <1>7, <1>9, <2>1 DEF AccountFrame
<1>10. ASSUME NEW t \in Threads, NEW s, Moves(t, s), ReserveStep(t, s)
       PROVE  /\ ctl'.openai + ctl'.reads = ctl'.used
              /\ Cardinality(B) + Cardinality(G) = ctl'.reads
              /\ Len(ctl'.attempts) + Cardinality(ctl'.inflight) <= MaxCaptures
  <2>1. /\ ctl'.used = ctl.used + 1 /\ ctl'.attempts = ctl.attempts
        /\ ctl'.inflight = ctl.inflight
    BY <1>10 DEF ReserveStep, SamePlans
  <2>2. B = A
    BY <2>1
  <2>3. CASE thread[t].op = "propose"
    <3>1. plans' = plans /\ ctl'.openai = ctl.openai + 1 /\ ctl'.reads = ctl.reads
      BY <1>10, <2>3 DEF ReserveStep
    <3>2. G = F
      BY <2>1, <3>1
    <3>. HIDE DEF A, B, F, G
    <3>. QED
      BY <1>1, <1>7, <2>1, <2>2, <3>1, <3>2
  <2>4. CASE thread[t].op = "capture"
    <3>1. /\ ctl'.openai = ctl.openai /\ ctl'.reads = ctl.reads + 1
          /\ plans[ctl.plan].call = None
      BY <1>10, <2>4 DEF ReserveStep
    <3>2. /\ ctl.plan \in ctl.inflight
          /\ \A j \in 1..Len(plans) :
               plans'[j].call = IF j = ctl.plan THEN ctl.used ELSE plans[j].call
      BY <1>10, <2>4, PlanReserved
    <3>3. ctl.used # None
      BY <1>1, Constants
    <3>4. G = F \cup {ctl.plan} /\ ctl.plan \notin F
      BY <1>2, <2>1, <3>1, <3>2, <3>3
    <3>. HIDE DEF A, B, F, G
    <3>5. Cardinality(G) = Cardinality(F) + 1
      BY <1>3, <3>4, FS_AddElement
    <3>6. ctl'.openai + ctl'.reads = ctl'.used
      BY <1>1, <1>7, <2>1, <3>1
    <3>7. Cardinality(B) + Cardinality(G) = ctl'.reads
      BY <1>6, <1>7, <2>2, <3>1, <3>5
    <3>. QED
      BY <1>7, <2>1, <3>6, <3>7
  <2>. QED
    BY <1>10, <2>3, <2>4 DEF ReserveStep
<1>11. ASSUME NEW t \in Threads, NEW s, Moves(t, s), AdmitStep(t, s)
       PROVE  /\ ctl'.openai + ctl'.reads = ctl'.used
              /\ Cardinality(B) + Cardinality(G) = ctl'.reads
              /\ Len(ctl'.attempts) + Cardinality(ctl'.inflight) <= MaxCaptures
  <2>. DEFINE n == Len(plans) + 1
  <2>1. /\ ctl'.used = ctl.used /\ ctl'.openai = ctl.openai /\ ctl'.reads = ctl.reads
        /\ ctl'.attempts = ctl.attempts /\ ctl'.inflight = ctl.inflight \cup {n}
        /\ Len(ctl.attempts) + Cardinality(ctl.inflight) < MaxCaptures
    BY <1>11 DEF AdmitStep, SameCalls
  <2>2. plans'[n].call = None /\ \A j \in 1..Len(plans) : plans'[j] = plans[j]
    BY <1>11, PlanAdmitted
  <2>3. n \notin ctl.inflight
    BY <1>1, <1>2
  <2>. HIDE DEF n
  <2>4. B = A
    BY <2>1
  <2>5. G = F
    BY <1>2, <2>1, <2>2
  <2>6. Cardinality(ctl'.inflight) = Cardinality(ctl.inflight) + 1
    BY <1>3, <2>1, <2>3, FS_AddElement
  <2>. HIDE DEF A, B, F, G
  <2>. QED
    BY <1>1, <1>6, <1>7, <2>1, <2>4, <2>5, <2>6, Constants
<1>12. ASSUME NEW t \in Threads, NEW s, Moves(t, s), RecordStep(t, s)
       PROVE  /\ ctl'.openai + ctl'.reads = ctl'.used
              /\ Cardinality(B) + Cardinality(G) = ctl'.reads
              /\ Len(ctl'.attempts) + Cardinality(ctl'.inflight) <= MaxCaptures
  <2>. DEFINE p == thread[t].plan
              k == [epoch |-> thread[t].fence.epoch, call |-> plans[p].call,
                    status |-> thread[t].status]
              n == Len(ctl.attempts) + 1
  <2>1. /\ ctl'.used = ctl.used /\ ctl'.openai = ctl.openai /\ ctl'.reads = ctl.reads
        /\ ctl'.attempts = Append(ctl.attempts, k) /\ ctl'.inflight = ctl.inflight \ {p}
        /\ plans' = plans /\ thread[t].op = "capture"
    BY <1>12 DEF RecordStep, SameCalls, At
  <2>2. p \in ctl.inflight
    BY <2>1, CapturePlan
  <2>3. k.call = plans[p].call
    OBVIOUS
  <2>. HIDE DEF k
  <2>4. /\ Len(ctl'.attempts) = n /\ ctl'.attempts[n] = k
        /\ \A i \in 1..Len(ctl.attempts) : ctl'.attempts[i] = ctl.attempts[i]
    BY <1>1, <2>1
  <2>5. 1..n = 1..Len(ctl.attempts) \cup {n} /\ n \notin 1..Len(ctl.attempts) /\ n \in Nat
    BY <1>1
  <2>6. Cardinality(ctl'.inflight) = Cardinality(ctl.inflight) - 1
    BY <1>3, <2>1, <2>2, FS_RemoveElement, ZenonT(40)
  <2>7. Cardinality(B) + Cardinality(G) = Cardinality(A) + Cardinality(F)
    <3>1. CASE plans[p].call = None
      <4>. HIDE DEF n
      <4>1. B = A
        BY <2>3, <2>4, <2>5, <3>1
      <4>2. G = F
        BY <2>1, <3>1
      <4>. HIDE DEF A, B, F, G
      <4>. QED
        BY <4>1, <4>2
    <3>2. CASE plans[p].call # None
      <4>. HIDE DEF n
      <4>1. B = A \cup {n} /\ n \notin A
        BY <2>3, <2>4, <2>5, <3>2
      <4>2. G = F \ {p} /\ p \in F
        BY <2>1, <2>2, <3>2
      <4>. HIDE DEF A, B, F, G
      <4>3. Cardinality(B) = Cardinality(A) + 1
        BY <1>5, <4>1, FS_AddElement
      <4>4. Cardinality(G) = Cardinality(F) - 1
        BY <1>3, <4>2, FS_RemoveElement
      <4>. QED
        BY <1>6, <4>3, <4>4
    <3>. QED
      BY <3>1, <3>2
  <2>. HIDE DEF A, B, F, G
  <2>. QED
    BY <1>1, <1>6, <1>7, <2>1, <2>4, <2>6, <2>7, Constants
<1>. HIDE DEF A, B, F, G
<1>. QED
  BY <1>9, <1>10, <1>11, <1>12, AccountCases

-----------------------------------------------------------------------------
(* Gates. *)

(***************************************************************************)
(* The evidence a gate of a stage asks for.                                *)
(***************************************************************************)
Shown(stage, live, captures, selected) ==
  CASE stage = 0 -> TRUE
    [] stage \in {1, 2} ->
         /\ Len(Transcript) <= Len(live)
         /\ \A i \in 1..Len(Transcript) : live[i].proposal = Transcript[i]
    [] OTHER -> {captures[i].target : i \in 1..Len(captures)} = selected

(***************************************************************************)
(* A verification that was begun in this epoch had its evidence.           *)
(***************************************************************************)
VerifyInv ==
  \A t \in Threads :
    thread[t].op = "verify" =>
      /\ thread[t].fence.epoch \in Nat /\ thread[t].fence.epoch <= ctl.epoch
      /\ thread[t].fence.epoch = ctl.epoch =>
           Shown(thread[t].fence.stage, thread[t].fence.live, thread[t].fence.captures,
                 ctl.selected)

(***************************************************************************)
(* A gate was passed under the active deployment and not in the future.    *)
(***************************************************************************)
GateInv ==
  /\ \A s \in Stage :
       ctl.observed[s] # None =>
         ctl.observed[s].epoch <= ctl.epoch /\ ctl.observed[s].deployment = ctl.deployment
  /\ GatesEarned

(***************************************************************************)
(* A gate that is ready has its evidence.                                  *)
(***************************************************************************)
LEMMA ReadyShown ==
  ASSUME ctl \in Controller, GateReady(ctl)
  PROVE  Shown(ctl.stage, ctl.live, ctl.captures, ctl.selected)
<1>1. ctl.live \in Seq(KeptProposal) /\ Len(ctl.live) \in Nat
      /\ Transcript \in Seq(Proposals) /\ Len(Transcript) \in Nat
      /\ DOMAIN Transcript = 1..Len(Transcript)
  BY ControllerFields, LenProperties, Constants
<1>2. CASE ctl.stage \in {1, 2}
  <2>1. [i \in 1..Len(ctl.live) |-> ctl.live[i].proposal] = Transcript
    BY <1>2 DEF GateReady
  <2>2. 1..Len(ctl.live) = 1..Len(Transcript)
    BY <1>1, <2>1
  <2>3. Len(Transcript) <= Len(ctl.live)
    BY <1>1, <2>2
  <2>4. \A i \in 1..Len(Transcript) : ctl.live[i].proposal = Transcript[i]
    BY <2>1, <2>2
  <2>. QED
    BY <1>2, <2>3, <2>4 DEF Shown
<1>3. CASE ctl.stage = 0
  BY <1>3 DEF Shown
<1>4. CASE ctl.stage \notin {0, 1, 2}
  <2>1. Covered(ctl) = ctl.selected
    BY <1>4 DEF GateReady
  <2>. QED
    BY <1>4, <2>1 DEF Shown, Covered
<1>. QED
  BY <1>2, <1>3, <1>4

(***************************************************************************)
(* Evidence that is shown stays shown when more is kept.                   *)
(***************************************************************************)
LEMMA ShownGrows ==
  ASSUME NEW stage, NEW live \in Seq(KeptProposal), NEW captures \in Seq(KeptCapture),
         NEW selected, NEW more, NEW kept,
         Shown(stage, live, captures, selected),
         more = live \/ \E k \in KeptProposal : more = Append(live, k),
         \/ kept = captures
         \/ \E k \in KeptCapture : kept = Append(captures, k) /\ k.target \in selected
  PROVE  Shown(stage, more, kept, selected)
<1>1. Len(live) \in Nat /\ Len(captures) \in Nat /\ Len(Transcript) \in Nat
  BY LenProperties, Constants
<1>2. CASE stage \in {1, 2}
  <2>1. /\ Len(Transcript) <= Len(live)
        /\ \A i \in 1..Len(Transcript) : live[i].proposal = Transcript[i]
    BY <1>2 DEF Shown
  <2>2. Len(live) <= Len(more) /\ \A i \in 1..Len(live) : more[i] = live[i]
    <3>1. CASE more = live
      BY <1>1, <3>1
    <3>2. ASSUME NEW k \in KeptProposal, more = Append(live, k)
          PROVE  Len(live) <= Len(more) /\ \A i \in 1..Len(live) : more[i] = live[i]
      <4>1. Len(more) = Len(live) + 1 /\ \A i \in 1..Len(live) : more[i] = live[i]
        BY <3>2, AppendProperties
      <4>. QED
        BY <1>1, <4>1
    <3>. QED
      BY <3>1, <3>2
  <2>3. Len(more) \in Nat
    BY <1>1, LenProperties, AppendProperties
  <2>4. Len(Transcript) <= Len(more)
    BY <1>1, <2>1, <2>2, <2>3
  <2>5. \A i \in 1..Len(Transcript) : i \in 1..Len(live)
    BY <1>1, <2>1
  <2>6. \A i \in 1..Len(Transcript) : more[i].proposal = Transcript[i]
    BY <2>1, <2>2, <2>5
  <2>. QED
    BY <1>2, <2>4, <2>6 DEF Shown
<1>3. CASE stage = 0
  BY <1>3 DEF Shown
<1>4. CASE stage \notin {0, 1, 2}
  <2>1. {captures[i].target : i \in 1..Len(captures)} = selected
    BY <1>4 DEF Shown
  <2>2. {kept[i].target : i \in 1..Len(kept)} = selected
    <3>1. CASE kept = captures
      BY <2>1, <3>1
    <3>2. ASSUME NEW k \in KeptCapture, kept = Append(captures, k), k.target \in selected
          PROVE  {kept[i].target : i \in 1..Len(kept)} = selected
      <4>1. /\ Len(kept) = Len(captures) + 1 /\ kept[Len(captures) + 1] = k
            /\ \A i \in 1..Len(captures) : kept[i] = captures[i]
        BY <3>2, AppendProperties
      <4>. DEFINE n == Len(captures) + 1
      <4>2. 1..n = 1..Len(captures) \cup {n}
        BY <1>1
      <4>. HIDE DEF n
      <4>3. /\ Len(kept) = n /\ kept[n] = k
            /\ \A i \in 1..Len(captures) : kept[i] = captures[i]
        BY <4>1 DEF n
      <4>. QED
        BY <2>1, <3>2, <4>2, <4>3
    <3>. QED
      BY <3>1, <3>2
  <2>. QED
    BY <1>4, <2>2 DEF Shown
<1>. QED
  BY <1>2, <1>3, <1>4

(***************************************************************************)
(* Within an epoch the evidence only grows.                                *)
(***************************************************************************)
LEMMA EvidenceGrows ==
  ASSUME ActivationTypes, HasCall, CaptureInv, NextActivation
  PROVE  \/ Retires(ctl, ctl')
         \/ /\ \/ ctl'.live = ctl.live
               \/ \E k \in KeptProposal : ctl'.live = Append(ctl.live, k)
            /\ \/ ctl'.captures = ctl.captures
               \/ \E k \in KeptCapture :
                    ctl'.captures = Append(ctl.captures, k) /\ k.target \in ctl.selected
<1>1. ctl' \in Controller /\ ctl \in Controller
  BY StateTypes DEF ActivationTypes
<1>2. /\ ctl'.live \in Seq(KeptProposal) /\ ctl'.captures \in Seq(KeptCapture)
      /\ ctl.live \in Seq(KeptProposal) /\ ctl.captures \in Seq(KeptCapture)
  BY <1>1, ControllerFields
<1>3. CASE FreshFrame
  BY <1>3 DEF FreshFrame
<1>4. ASSUME NEW t \in Threads, NEW s, Moves(t, s), RetainStep(t, s), ctl'.live # ctl.live
      PROVE  \E k \in KeptProposal : ctl'.live = Append(ctl.live, k)
  <2>. DEFINE k == [proposal |-> thread[t].proposal, source |-> thread[t].source,
                    epoch |-> thread[t].reservation.epoch,
                    call |-> thread[t].reservation.call]
  <2>1. ctl'.live = Append(ctl.live, k) /\ thread[t].pc = "retain"
    BY <1>4 DEF RetainStep, At
  <2>2. thread[t].reservation \in Reservations /\ thread[t] \in ThreadState
    BY <2>1 DEF HasCall, ActivationTypes
  <2>3. k \in KeptProposal
    BY <2>2, ThreadFields, ReservationFields DEF KeptProposal
  <2>. QED
    BY <2>1, <2>3
<1>5. ASSUME NEW t \in Threads, NEW s, Moves(t, s), KeepStep(t, s)
      PROVE  /\ ctl'.live = ctl.live
             /\ \E k \in KeptCapture :
                  ctl'.captures = Append(ctl.captures, k) /\ k.target \in ctl.selected
  <2>. DEFINE k == [target |-> TargetOf[thread[t].proposal], epoch |-> ctl.epoch,
                    call |-> thread[t].reservation.call]
  <2>1. /\ ctl'.captures = Append(ctl.captures, k) /\ ctl'.live = ctl.live
        /\ thread[t].op = "capture" /\ thread[t].status = "received" /\ CaptureFenced(t)
    BY <1>5 DEF KeepStep, At
  <2>2. thread[t].reservation \in Reservations /\ ctl.epoch \in Nat
        /\ ctl.selected \subseteq Targets
    BY <1>1, <2>1, ControllerFields, Constants DEF HasCall
  <2>3. TargetOf[thread[t].proposal] \in ctl.selected
    BY <2>1, Fenced
  <2>4. k \in KeptCapture /\ k.target \in ctl.selected
    BY <2>2, <2>3, ReservationFields DEF KeptCapture
  <2>. QED
    BY <2>1, <2>4
<1>6. ASSUME NEW t \in Threads, NEW s, RetainStep(t, s) PROVE ctl'.captures = ctl.captures
  BY <1>6 DEF RetainStep
<1>. QED
  BY <1>3, <1>4, <1>5, <1>6, FreshCases

(***************************************************************************)
(* A verification in progress keeps what its fence says.                   *)
(***************************************************************************)
LEMMA ProbeStep ==
  ASSUME ActivationTypes, HasCall, VerifyInv, NextActivation
  PROVE  VerifyInv'
<1>1. ctl.epoch \in Nat /\ ctl \in Controller
  BY ControllerFields, Constants DEF ActivationTypes
<1>2. \A t \in Threads :
        thread[t].op = "verify" =>
          /\ thread[t].fence.epoch \in Nat /\ thread[t].fence.epoch <= ctl'.epoch
          /\ thread[t].fence.epoch = ctl'.epoch =>
               Shown(thread[t].fence.stage, thread[t].fence.live, thread[t].fence.captures,
                     ctl'.selected)
  <2>. SUFFICES ASSUME NEW t \in Threads, thread[t].op = "verify"
                PROVE  /\ thread[t].fence.epoch \in Nat /\ thread[t].fence.epoch <= ctl'.epoch
                       /\ thread[t].fence.epoch = ctl'.epoch =>
                            Shown(thread[t].fence.stage, thread[t].fence.live,
                                  thread[t].fence.captures, ctl'.selected)
    OBVIOUS
  <2>1. thread[t].fence.epoch \in Nat /\ thread[t].fence.epoch <= ctl.epoch
    BY DEF VerifyInv
  <2>2. CASE ctl'.epoch = ctl.epoch /\ ctl'.selected = ctl.selected
    BY <2>1, <2>2 DEF VerifyInv
  <2>3. CASE ctl'.epoch = ctl.epoch + 1
    BY <1>1, <2>1, <2>3
  <2>. QED
    BY <2>2, <2>3, EpochMoves
<1>3. CASE thread' = thread
  BY <1>2, <1>3 DEF VerifyInv
<1>4. ASSUME NEW t \in Threads, NEW s, Moves(t, s), ThreadStep(t, s)
      PROVE  VerifyInv'
  <2>1. thread'[t] = s /\ \A u \in Threads : u # t => thread'[u] = thread[u]
    BY <1>4, Moved DEF ActivationTypes
  <2>2. CASE s.op # "verify"
    BY <1>2, <2>1, <2>2 DEF VerifyInv
  <2>3. CASE s.op = "verify"
    <3>1. s.fence = Fence(ctl) /\ GateReady(ctl) /\ ctl' = ctl
      BY <1>4, <2>3, IdleFields
         DEF ThreadStep, QuietStep, ReserveStep, CompleteStep, RetainStep, AdmitStep,
             KeepStep, RecordStep, VerifyStep, Goes, SameWork
    <3>2. Shown(ctl.stage, ctl.live, ctl.captures, ctl.selected)
      BY <1>1, <3>1, ReadyShown
    <3>3. /\ s.fence.epoch = ctl.epoch /\ s.fence.stage = ctl.stage
          /\ s.fence.live = ctl.live /\ s.fence.captures = ctl.captures
      BY <1>1, <3>1, FenceFields
    <3>4. Shown(s.fence.stage, s.fence.live, s.fence.captures, ctl'.selected)
      BY <3>1, <3>2, <3>3, Zenon
    <3>5. s.fence.epoch \in Nat /\ s.fence.epoch <= ctl'.epoch
      BY <1>1, <3>1, <3>3
    <3>. QED
      BY <1>2, <2>1, <3>4, <3>5 DEF VerifyInv
  <2>. QED
    BY <2>2, <2>3
<1>. QED
  BY <1>3, <1>4, Steps DEF OperatorStep, HostAdvances

(***************************************************************************)
(* What GatesEarned says, with the evidence of a gate as one predicate.    *)
(***************************************************************************)
LEMMA EarnedShown ==
  GatesEarned <=>
    (~ctl.revoked =>
       /\ \A s \in 0..(ctl.stage - 1) :
            ctl.observed[s] = [epoch |-> ctl.epoch - ctl.stage + s,
                               deployment |-> ctl.deployment]
       /\ ctl.observed[ctl.stage] = Gate(ctl) =>
            Shown(ctl.stage, ctl.live, ctl.captures, ctl.selected))
BY DEF GatesEarned, Shown, Covered

(***************************************************************************)
(* Gates stay earned.                                                      *)
(***************************************************************************)
LEMMA GateStep ==
  ASSUME ActivationTypes, HasCall, CaptureInv, VerifyInv, GateInv, NextActivation
  PROVE  GateInv'
<1>1. /\ ctl \in Controller /\ ctl' \in Controller
  BY StateTypes DEF ActivationTypes
<1>2. /\ ctl.epoch \in Nat /\ ctl.stage \in Stage
      /\ ctl.observed \in [Stage -> Gates \cup {None}]
      /\ ctl.live \in Seq(KeptProposal) /\ ctl.captures \in Seq(KeptCapture)
  BY <1>1, ControllerFields, Constants
<1>3. Gate(ctl) \in Gates /\ Gate(ctl') \in Gates
  <2>1. /\ ctl.epoch \in 0..MaxEpoch /\ ctl.deployment \in Deployments
        /\ ctl'.epoch \in 0..MaxEpoch /\ ctl'.deployment \in Deployments
    BY <1>1, ControllerFields
  <2>. QED
    BY <2>1 DEF Gate, Gates
<1>4. Gate(ctl).epoch = ctl.epoch /\ Gate(ctl).deployment = ctl.deployment
      /\ Gate(ctl').epoch = ctl'.epoch /\ Gate(ctl') # None
  BY <1>3, Constants DEF Gate
<1>5. /\ \A s \in Stage :
           ctl.observed[s] # None =>
             ctl.observed[s].epoch <= ctl.epoch /\ ctl.observed[s].deployment = ctl.deployment
      /\ ~ctl.revoked =>
           /\ \A s \in 0..(ctl.stage - 1) :
                ctl.observed[s] = [epoch |-> ctl.epoch - ctl.stage + s,
                                   deployment |-> ctl.deployment]
           /\ ctl.observed[ctl.stage] = Gate(ctl) =>
                Shown(ctl.stage, ctl.live, ctl.captures, ctl.selected)
  BY EarnedShown DEF GateInv
<1>. DEFINE Kept ==
              /\ \A s \in Stage :
                   ctl'.observed[s] # None =>
                     /\ ctl'.observed[s].epoch <= ctl'.epoch
                     /\ ctl'.observed[s].deployment = ctl'.deployment
              /\ ~ctl'.revoked =>
                   /\ \A s \in 0..(ctl'.stage - 1) :
                        ctl'.observed[s] = [epoch |-> ctl'.epoch - ctl'.stage + s,
                                            deployment |-> ctl'.deployment]
                   /\ ctl'.observed[ctl'.stage] = Gate(ctl') =>
                        Shown(ctl'.stage, ctl'.live, ctl'.captures, ctl'.selected)
<1>6. ASSUME Kept PROVE GateInv'
  <2>1. GatesEarned' <=>
          (~ctl'.revoked =>
             /\ \A s \in 0..(ctl'.stage - 1) :
                  ctl'.observed[s] = [epoch |-> ctl'.epoch - ctl'.stage + s,
                                      deployment |-> ctl'.deployment]
             /\ ctl'.observed[ctl'.stage] = Gate(ctl') =>
                  Shown(ctl'.stage, ctl'.live, ctl'.captures, ctl'.selected))
    BY DEF GatesEarned, Shown, Covered
  <2>. QED
    BY <1>6, <2>1 DEF GateInv
<1>7. ASSUME ctl'.observed = NoGates, ctl'.revoked \/ ctl'.stage = 0
      PROVE  GateInv'
  <2>1. \A s \in Stage : ctl'.observed[s] = None
    BY <1>7 DEF NoGates
  <2>2. ctl'.stage = 0 => 0..(ctl'.stage - 1) = {} /\ ctl'.stage \in Stage
    BY DEF Stage
  <2>. QED
    BY <1>4, <1>6, <1>7, <2>1, <2>2
<1>8. ASSUME ctl'.epoch = ctl.epoch, ctl'.stage = ctl.stage, ctl'.selected = ctl.selected,
             ctl'.deployment = ctl.deployment, ctl'.observed = ctl.observed,
             ~ctl'.revoked => ~ctl.revoked, ~Retires(ctl, ctl')
      PROVE  GateInv'
  <2>1. Gate(ctl') = Gate(ctl)
    BY <1>8 DEF Gate
  <2>2. Shown(ctl.stage, ctl.live, ctl.captures, ctl.selected) =>
          Shown(ctl.stage, ctl'.live, ctl'.captures, ctl.selected)
    BY <1>2, <1>8, EvidenceGrows, ShownGrows
  <2>3. \A s \in Stage :
          ctl'.observed[s] # None =>
            /\ ctl'.observed[s].epoch <= ctl'.epoch
            /\ ctl'.observed[s].deployment = ctl'.deployment
    BY <1>5, <1>8
  <2>4. ~ctl'.revoked => \A s \in 0..(ctl'.stage - 1) :
          ctl'.observed[s] = [epoch |-> ctl'.epoch - ctl'.stage + s,
                              deployment |-> ctl'.deployment]
    BY <1>5, <1>8
  <2>5. ~ctl'.revoked /\ ctl'.observed[ctl'.stage] = Gate(ctl') =>
          Shown(ctl'.stage, ctl'.live, ctl'.captures, ctl'.selected)
    <3>1. ~ctl'.revoked /\ ctl'.observed[ctl'.stage] = Gate(ctl') =>
            Shown(ctl.stage, ctl'.live, ctl'.captures, ctl.selected)
      BY <1>5, <1>8, <2>1, <2>2
    <3>. QED
      BY <1>8, <3>1, Zenon
  <2>. QED
    BY <1>6, <2>3, <2>4, <2>5
<1>9. CASE OperatorStep
  <2>1. CASE Resets(ctl, ctl')
    BY <1>7, <2>1 DEF Resets
  <2>2. CASE Revokes(ctl, ctl')
    BY <1>7, <2>2 DEF Revokes
  <2>3. CASE Exhausts(ctl, ctl')
    <3>1. ~Retires(ctl, ctl')
      BY <1>2, <2>3 DEF Exhausts, Retires
    <3>. QED
      BY <1>8, <2>3, <3>1 DEF Exhausts, SameStage
  <2>4. CASE Registers(ctl, ctl')
    <3>1. ~Retires(ctl, ctl')
      BY <1>2, <2>4 DEF Registers, Steady, SameCalls, Retires
    <3>. QED
      BY <1>8, <2>4, <3>1 DEF Registers, Steady, SameCalls, SameStage
  <2>5. CASE Promotes(ctl, ctl')
    <3>1. /\ ctl'.epoch = ctl.epoch + 1 /\ ctl'.stage = ctl.stage + 1
          /\ ctl'.deployment = ctl.deployment /\ ctl'.observed = ctl.observed
          /\ ctl.stage < 3 /\ ctl'.revoked = ctl.revoked /\ ~ctl.revoked
          /\ ctl.observed[ctl.stage] # None /\ ctl.observed[ctl.stage].epoch = ctl.epoch
      BY <1>9, <2>5 DEF Promotes, Retires, OperatorStep
    <3>2. \A s \in Stage :
            ctl.observed[s] # None => ctl.observed[s] \in Gates /\ ctl.observed[s].epoch \in Nat
      BY <1>2, Constants DEF Gates
    <3>3. \A s \in Stage :
            ctl'.observed[s] # None =>
              /\ ctl'.observed[s].epoch <= ctl'.epoch /\ ctl'.observed[s].epoch # ctl'.epoch
              /\ ctl'.observed[s].deployment = ctl'.deployment
      <4>. SUFFICES ASSUME NEW s \in Stage, ctl.observed[s] # None
                    PROVE  /\ ctl.observed[s].epoch <= ctl.epoch + 1
                           /\ ctl.observed[s].epoch # ctl.epoch + 1
                           /\ ctl.observed[s].deployment = ctl.deployment
        BY <3>1
      <4>1. /\ ctl.observed[s].epoch \in Nat /\ ctl.observed[s].epoch <= ctl.epoch
            /\ ctl.observed[s].deployment = ctl.deployment
        BY <1>5, <3>2
      <4>. QED
        BY <1>2, <4>1
    <3>4. ctl'.stage \in Stage /\ ctl'.observed[ctl'.stage] # Gate(ctl')
      <4>1. ctl'.stage \in Stage
        BY <1>1, ControllerFields
      <4>. QED
        BY <1>4, <3>3, <4>1
    <3>5. ASSUME NEW s \in 0..(ctl'.stage - 1)
          PROVE  ctl'.observed[s] = [epoch |-> ctl'.epoch - ctl'.stage + s,
                                     deployment |-> ctl'.deployment]
      <4>. DEFINE g == ctl.observed[ctl.stage]
      <4>1. ctl.stage \in Nat /\ s \in Nat /\ (s \in 0..(ctl.stage - 1) \/ s = ctl.stage)
        BY <1>2, <3>1 DEF Stage
      <4>2. ctl'.epoch - ctl'.stage + s = ctl.epoch - ctl.stage + s
        BY <1>2, <3>1, <4>1, SMTT(30)
      <4>3. CASE s \in 0..(ctl.stage - 1)
        BY <1>5, <3>1, <4>2, <4>3
      <4>4. CASE s = ctl.stage
        <5>1. g \in Gates /\ g.epoch = ctl.epoch /\ g.deployment = ctl.deployment
          BY <1>2, <1>5, <3>1, <3>2
        <5>. HIDE DEF g
        <5>2. g = [epoch |-> ctl.epoch, deployment |-> ctl.deployment]
          BY <5>1 DEF Gates
        <5>3. ctl'.epoch - ctl'.stage + s = ctl.epoch
          BY <1>2, <4>1, <4>2, <4>4
        <5>. QED
          BY <3>1, <4>4, <5>2, <5>3 DEF g
      <4>. QED
        BY <4>1, <4>3, <4>4
    <3>. QED
      BY <1>6, <3>3, <3>4, <3>5
  <2>. QED
    BY <1>9, <2>1, <2>2, <2>3, <2>4, <2>5 DEF OperatorStep
<1>10. CASE HostAdvances
  <2>1. ctl' = ctl
    BY <1>10 DEF HostAdvances
  <2>2. ~Retires(ctl, ctl')
    BY <1>2, <2>1 DEF Retires
  <2>. QED
    BY <1>8, <2>1, <2>2
<1>11. ASSUME NEW t \in Threads, NEW s, Moves(t, s), ThreadStep(t, s)
       PROVE  GateInv'
  <2>1. ctl'.epoch = ctl.epoch /\ ctl'.revoked = ctl.revoked
    BY <1>11 DEF ThreadStep, QuietStep, ReserveStep, CompleteStep, RetainStep, AdmitStep,
                 KeepStep, RecordStep, VerifyStep, SameCalls
  <2>2. ~Retires(ctl, ctl')
    BY <1>2, <2>1 DEF Retires
  <2>3. CASE ~VerifyStep(t, s)
    <3>1. /\ ctl'.stage = ctl.stage /\ ctl'.selected = ctl.selected
          /\ ctl'.deployment = ctl.deployment /\ ctl'.observed = ctl.observed
      BY <1>11, <2>3 DEF ThreadStep, QuietStep, ReserveStep, CompleteStep, RetainStep,
                         AdmitStep, KeepStep, RecordStep, SameStage
    <3>. QED
      BY <1>8, <2>1, <2>2, <3>1
  <2>4. CASE VerifyStep(t, s)
    <3>1. /\ ctl'.live = ctl.live /\ ctl'.captures = ctl.captures
          /\ ctl'.stage = ctl.stage /\ ctl'.selected = ctl.selected
          /\ ctl'.deployment = ctl.deployment
          /\ ctl'.observed = [ctl.observed EXCEPT ![ctl.stage] = Gate(ctl)]
          /\ thread[t].op = "verify" /\ thread[t].fence = Fence(ctl)
      BY <2>4 DEF VerifyStep, SameEvidence, At
    <3>2. /\ thread[t].fence.epoch = ctl.epoch /\ thread[t].fence.stage = ctl.stage
          /\ thread[t].fence.live = ctl.live /\ thread[t].fence.captures = ctl.captures
      BY <1>1, <3>1, FenceFields
    <3>3. Shown(thread[t].fence.stage, thread[t].fence.live, thread[t].fence.captures,
                ctl.selected)
      BY <3>1, <3>2 DEF VerifyInv
    <3>4. Shown(ctl'.stage, ctl'.live, ctl'.captures, ctl'.selected)
      BY <3>1, <3>2, <3>3, Zenon
    <3>5. \A v \in Stage :
            ctl'.observed[v] = IF v = ctl.stage THEN Gate(ctl) ELSE ctl.observed[v]
      BY <1>2, <3>1
    <3>6. \A v \in Stage :
            ctl'.observed[v] # None =>
              /\ ctl'.observed[v].epoch <= ctl'.epoch
              /\ ctl'.observed[v].deployment = ctl'.deployment
      BY <1>2, <1>4, <1>5, <2>1, <3>1, <3>5
    <3>7. \A v \in 0..(ctl.stage - 1) : v \in Stage /\ v # ctl.stage
      BY <1>2 DEF Stage
    <3>8. ~ctl'.revoked => \A v \in 0..(ctl'.stage - 1) :
            ctl'.observed[v] = [epoch |-> ctl'.epoch - ctl'.stage + v,
                                deployment |-> ctl'.deployment]
      BY <1>5, <2>1, <3>1, <3>5, <3>7
    <3>. QED
      BY <1>6, <3>4, <3>6, <3>8
  <2>. QED
    BY <2>3, <2>4
<1>. QED
  BY <1>9, <1>10, <1>11, Steps

-----------------------------------------------------------------------------
(* The theorems. *)

(***************************************************************************)
(* The inductive invariant of the controller and its threads.              *)
(***************************************************************************)
ActivationInv ==
  /\ ActivationTypes
  /\ CallInv
  /\ CaptureInv
  /\ AdmissionsChained
  /\ FreshInv /\ EvidenceCurrent
  /\ AccountingReconciles
  /\ VerifyInv /\ GateInv

(***************************************************************************)
(* A new controller, whatever its deployment, satisfies the invariant.     *)
(***************************************************************************)
LEMMA ActivationInit == InitActivation => ActivationInv
<1>. SUFFICES ASSUME InitActivation PROVE ActivationInv
  OBVIOUS
<1>. DEFINE gates == [s \in Stage |-> None]
<1>1. PICK d \in Deployments :
        ctl = [epoch |-> 0, revoked |-> FALSE, used |-> 0, openai |-> 0, reads |-> 0,
               pending |-> None, stage |-> 0, deployment |-> d, selected |-> {},
               observed |-> gates, live |-> <<>>, overflow |-> FALSE,
               captures |-> <<>>, consumed |-> {}, plan |-> 0, next |-> None,
               attempts |-> <<>>, inflight |-> {}, selections |-> {}]
  BY DEF InitActivation
<1>2. /\ plans = <<>> /\ thread = [t \in Threads |-> Idle] /\ host = 0 /\ made = 0
  BY DEF InitActivation
<1>3. gates \in [Stage -> Gates \cup {None}] /\ \A s \in Stage : gates[s] = None
  OBVIOUS
<1>. HIDE DEF gates
<1>4. /\ ctl.epoch = 0 /\ ctl.revoked = FALSE /\ ctl.used = 0 /\ ctl.openai = 0
      /\ ctl.reads = 0 /\ ctl.pending = None /\ ctl.stage = 0 /\ ctl.deployment = d
      /\ ctl.selected = {} /\ ctl.observed = gates /\ ctl.live = <<>>
      /\ ctl.overflow = FALSE /\ ctl.captures = <<>> /\ ctl.consumed = {}
      /\ ctl.plan = 0 /\ ctl.next = None /\ ctl.attempts = <<>> /\ ctl.inflight = {}
      /\ ctl.selections = {}
  BY <1>1
<1>5. /\ <<>> \in Seq(KeptProposal) /\ <<>> \in Seq(KeptCapture) /\ <<>> \in Seq(Attempt)
      /\ <<>> \in Seq(Plan) /\ Len(<<>>) = 0 /\ 1..0 = {}
  BY EmptySeq
<1>6. 0 \in 0..MaxEpoch /\ 0 \in 0..Limit /\ 0 \in Stage /\ 0 \in Nat
  BY Constants DEF Stage
<1>7. ctl \in Controller
  BY <1>1, <1>3, <1>5, <1>6 DEF Controller
<1>8. \A t \in Threads : thread[t] = Idle
  BY <1>2
<1>9. PlanInv
  BY <1>2, <1>4, <1>5, <1>8, IdleFields DEF PlanInv
<1>10. TypeOKActivation
  <2>1. Len(ctl.live) = 0 /\ Len(plans) = 0
    BY <1>2, <1>4, <1>5
  <2>2. /\ Len(ctl.live) <= MaxRetained /\ ctl.plan \in 0..Len(plans) /\ host \in 0..made
    BY <1>2, <1>4, <2>1, Constants
  <2>3. /\ ctl.epoch \in 0..MaxEpoch /\ ctl.revoked \in BOOLEAN /\ ctl.used \in 0..Limit
        /\ ctl.stage \in Stage /\ ctl.deployment \in Deployments
        /\ ctl.selected \subseteq Targets
        /\ ctl.observed \in [Stage -> Gates \cup {None}] /\ ctl.overflow \in BOOLEAN
    BY <1>7, ControllerFields
  <2>. QED
    BY <1>4, <2>2, <2>3 DEF TypeOKActivation
<1>11. ActivationTypes
  BY <1>2, <1>5, <1>6, <1>7, <1>8, <1>9, <1>10, IdleFields DEF ActivationTypes
<1>12. CallInv
  BY <1>4, <1>8, IdleFields DEF CallInv, HasCall, CallPc
<1>13. CaptureInv /\ VerifyInv
  BY <1>8, IdleFields DEF CaptureInv, VerifyInv
<1>14. AdmissionsChained
  BY <1>2, <1>4 DEF AdmissionsChained
<1>15. 1..Len(ctl.live) = {} /\ 1..Len(ctl.captures) = {} /\ 1..Len(ctl.attempts) = {}
  BY <1>4, <1>5
<1>16. FreshInv /\ EvidenceCurrent
  BY <1>8, <1>15, IdleFields DEF FreshInv, EvidenceCurrent
<1>17. AccountingReconciles
  <2>1. {i \in 1..Len(ctl.attempts) : ctl.attempts[i].call # None} = {}
        /\ {i \in ctl.inflight : plans[i].call # None} = {}
    BY <1>4, <1>15
  <2>2. Cardinality({}) = 0
    BY FS_EmptySet
  <2>3. Len(ctl.attempts) = 0
    BY <1>4, <1>5
  <2>. QED
    BY <1>4, <2>1, <2>2, <2>3, Constants DEF AccountingReconciles, Dispatched
<1>18. GateInv
  <2>1. Gate(ctl) # None
    BY <1>7, ControllerFields, Constants DEF Gate, Gates
  <2>2. 0..(ctl.stage - 1) = {}
    BY <1>4
  <2>3. ctl.observed[ctl.stage] # Gate(ctl)
    BY <1>3, <1>4, <1>6, <2>1
  <2>4. GatesEarned
    BY <2>2, <2>3, EarnedShown
  <2>. QED
    BY <1>3, <1>4, <2>4 DEF GateInv
<1>. QED
  BY <1>11, <1>12, <1>13, <1>14, <1>16, <1>17, <1>18 DEF ActivationInv

(***************************************************************************)
(* Every step keeps the invariant.                                         *)
(***************************************************************************)
LEMMA ActivationNext ==
  ActivationInv /\ [NextActivation]_activationVars => ActivationInv'
<1>. SUFFICES ASSUME ActivationInv, [NextActivation]_activationVars
              PROVE  ActivationInv'
  OBVIOUS
<1>1. CASE NextActivation
  <2>1. /\ ActivationTypes /\ CallInv /\ CaptureInv /\ AdmissionsChained /\ FreshInv
        /\ EvidenceCurrent /\ AccountingReconciles /\ VerifyInv /\ GateInv /\ HasCall
    BY DEF ActivationInv, CallInv
  <2>2. ActivationTypes'
    BY <1>1, <2>1, TypesStep
  <2>3. CallInv'
    BY <1>1, <2>1, CallStep
  <2>4. CaptureInv'
    BY <1>1, <2>1, CaptureStep
  <2>5. AdmissionsChained'
    BY <1>1, <2>1, ChainStep
  <2>6. FreshInv' /\ EvidenceCurrent'
    BY <1>1, <2>1, EvidenceStep
  <2>7. AccountingReconciles'
    BY <1>1, <2>1, AccountStep
  <2>8. VerifyInv'
    BY <1>1, <2>1, ProbeStep
  <2>9. GateInv'
    BY <1>1, <2>1, GateStep
  <2>. QED
    BY <2>2, <2>3, <2>4, <2>5, <2>6, <2>7, <2>8, <2>9 DEF ActivationInv
<1>2. CASE UNCHANGED activationVars
  BY <1>2 DEF ActivationInv, activationVars, ActivationTypes, PlanInv, TypeOKActivation,
     CallInv, HasCall, CaptureInv, AdmissionsChained, FreshInv, EvidenceCurrent,
     AccountingReconciles, Dispatched, VerifyInv, GateInv, GatesEarned, Gate, Covered, At
<1>. QED
  BY <1>1, <1>2

(***************************************************************************)
(* The invariant of the transport controller holds always.                 *)
(***************************************************************************)
THEOREM ActivationInvariant == SpecActivation => []ActivationInv
BY ActivationInit, ActivationNext, PTL DEF SpecActivation

(***************************************************************************)
(* The controller's fields keep their types and limits: calls within the   *)
(* budget, plans among those made, the host never ahead of what was made.  *)
(***************************************************************************)
THEOREM ActivationTypeSafety == SpecActivation => []TypeOKActivation
<1>1. ActivationInv => TypeOKActivation
  BY DEF ActivationInv, ActivationTypes
<1>. QED
  BY <1>1, ActivationInvariant, PTL

(***************************************************************************)
(* What canonical_record demands of the accounts is always met.            *)
(***************************************************************************)
THEOREM AccountSafety == SpecActivation => []AccountingReconciles
<1>1. ActivationInv => AccountingReconciles
  BY DEF ActivationInv
<1>. QED
  BY <1>1, ActivationInvariant, PTL

(***************************************************************************)
(* Evidence is always of this epoch, in the order of its calls, and no     *)
(* call counts twice.                                                      *)
(***************************************************************************)
THEOREM EvidenceSafety == SpecActivation => []EvidenceCurrent
<1>1. ActivationInv => EvidenceCurrent
  BY DEF ActivationInv
<1>. QED
  BY <1>1, ActivationInvariant, PTL

(***************************************************************************)
(* The stages below the active one were passed one after the other, and a  *)
(* gate that counts has its evidence.                                      *)
(***************************************************************************)
THEOREM GateSafety == SpecActivation => []GatesEarned
<1>1. ActivationInv => GatesEarned
  BY DEF ActivationInv, GateInv
<1>. QED
  BY <1>1, ActivationInvariant, PTL

(***************************************************************************)
(* No admission's orchestration state is lost.                             *)
(***************************************************************************)
THEOREM ChainSafety == SpecActivation => []AdmissionsChained
<1>1. ActivationInv => AdmissionsChained
  BY DEF ActivationInv
<1>. QED
  BY <1>1, ActivationInvariant, PTL

(***************************************************************************)
(* At most one thread calls in an epoch, and the controller's outstanding  *)
(* call is there exactly when one does.                                    *)
(***************************************************************************)
THEOREM CallSafety == SpecActivation => []SingleOutstanding
<1>1. ASSUME ActivationInv PROVE SingleOutstanding
  <2>. SUFFICES ASSUME ~ctl.revoked
                PROVE  /\ Cardinality(Calling) <= 1
                       /\ (ctl.pending = None) <=> (Calling = {})
    BY DEF SingleOutstanding
  <2>1. CallInv /\ HasCall
    BY <1>1 DEF ActivationInv, CallInv
  <2>2. \A t \in Calling :
          t \in Threads /\ ctl.pending = thread[t].reservation /\ thread[t].reservation # None
    BY <2>1, Constants DEF Calling, CallInv, HasCall, CallPc
  <2>3. \A t, u \in Calling : t = u
    BY <2>1, <2>2 DEF CallInv
  <2>4. ctl.pending # None => Calling # {}
    BY <2>1 DEF Calling, CallInv, CallPc
  <2>5. Cardinality(Calling) <= 1
    <3>1. CASE Calling = {}
      BY <3>1, FS_EmptySet
    <3>2. ASSUME NEW t \in Calling PROVE Cardinality(Calling) <= 1
      <4>1. Calling = {t}
        BY <2>3, <3>2
      <4>. QED
        BY <4>1, FS_Singleton
    <3>. QED
      BY <3>1, <3>2
  <2>. QED
    BY <2>2, <2>4, <2>5
<1>. QED
  BY <1>1, ActivationInvariant, PTL

(***************************************************************************)
(* After revocation nothing is reserved, kept or passed any more.          *)
(***************************************************************************)
THEOREM RevocationSilences == SpecActivation => RevokedSilent
<1>. DEFINE Silent ==
       ctl.revoked =>
         /\ ctl'.revoked /\ ctl'.used = ctl.used /\ ctl'.pending = ctl.pending
         /\ ctl'.live = ctl.live /\ ctl'.captures = ctl.captures
         /\ ctl'.observed = ctl.observed
<1>1. ASSUME ActivationInv, NextActivation PROVE Silent
  <2>. SUFFICES ASSUME ctl.revoked
                PROVE  /\ ctl'.revoked /\ ctl'.used = ctl.used /\ ctl'.pending = ctl.pending
                       /\ ctl'.live = ctl.live /\ ctl'.captures = ctl.captures
                       /\ ctl'.observed = ctl.observed
    OBVIOUS
  <2>1. ActivationTypes /\ HasCall /\ CaptureInv /\ ctl.pending = None
    BY <1>1 DEF ActivationInv, CallInv
  <2>2. CASE OperatorStep
    BY <2>2 DEF OperatorStep
  <2>3. CASE HostAdvances
    BY <2>3 DEF HostAdvances
  <2>4. ASSUME NEW t \in Threads, NEW s, ThreadStep(t, s)
        PROVE  /\ ctl'.revoked /\ ctl'.used = ctl.used /\ ctl'.pending = ctl.pending
               /\ ctl'.live = ctl.live /\ ctl'.captures = ctl.captures
               /\ ctl'.observed = ctl.observed
    BY <2>1, <2>4
       DEF ThreadStep, QuietStep, ReserveStep, CompleteStep, RetainStep, AdmitStep, KeepStep,
           RecordStep, VerifyStep, SameCalls, SameEvidence, SameStage, CanReserve, Preserved,
           CaptureFenced
  <2>. QED
    BY <1>1, <2>1, <2>2, <2>3, <2>4, Steps
<1>2. ActivationInv /\ [NextActivation]_activationVars => [Silent]_activationVars
  BY <1>1
<1>. QED
  BY <1>2, ActivationInvariant, PTL DEF SpecActivation, RevokedSilent
=============================================================================
