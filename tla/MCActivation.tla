---------------------------- MODULE MCActivation ----------------------------
(***************************************************************************)
(* Activation for TLC: two threads, a smoke gate of one proposal, and      *)
(* limits just large enough for the ladder and what follows it.            *)
(***************************************************************************)
EXTENDS Activation, TLC

Smoke == <<"a">>
OneTarget == [p \in Proposals |-> "x"]
AnyName == Permutations(Threads) \cup Permutations(Deployments)

(***************************************************************************)
(* Behaviours of SpecActivation in which no call fails and one thread runs *)
(* at a time, except that a capture may stand still just before it         *)
(* reserves its read.                                                      *)
(***************************************************************************)
StandsStill(t) == thread[t].pc = "idle" \/ At(t, "capture", "reserve")

ContinuesWell(t) ==
  \/ ReserveCall(t) \/ SendRequest(t) \/ \E p \in Proposals : ResponseArrives(t, p)
  \/ CompleteCall(t) \/ RetainProposal(t)
  \/ Revalidate(t) \/ ReserveRead(t) \/ SendRead(t)
  \/ VerifyEnds(t)

NextParked ==
  \/ /\ \A t \in Threads : StandsStill(t)
     /\ \/ \E selected \in SUBSET Targets : Authorize(selected)
        \/ Rollback
        \/ HostAdvances
  \/ \E t \in Threads : /\ \A u \in Threads \ {t} : StandsStill(u)
                        /\ Starts(t) \/ ContinuesWell(t)

SpecParked == InitActivation /\ [][NextParked]_activationVars
=============================================================================
