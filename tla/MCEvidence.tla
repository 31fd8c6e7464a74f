----------------------------- MODULE MCEvidence -----------------------------
(***************************************************************************)
(* Acceptance for TLC: an orchestration of two reads, one of which may not *)
(* be reused, and a second one whose action shares a cache key with the    *)
(* first; two accumulators, one of which may become the child of the other.*)
(***************************************************************************)
EXTENDS Acceptance, TLC

Entry(key, reuse) == [key |-> key, class |-> "snapshot_read", reuse |-> reuse]
TwoOrchestrations ==
  "o1" :> ("a" :> Entry("k1", TRUE) @@ "b" :> Entry("k2", FALSE))
  @@ "o2" :> ("c" :> Entry("k1", TRUE))

Read(action, key) == [action |-> action, key |-> key]
Hosted == {Read("a", "k1"), Read("b", "k2"), Read("c", "k1"), Read("c", "k2")}

Opening(orch, manifest) == [orch |-> orch, manifest |-> manifest]
Opened(p, q) == "p" :> p @@ "q" :> q
Pairs == {Opened(Opening("o1", "o1"), Opening("o2", "o2")),
          Opened(Opening("o2", "o2"), Opening("o2", "o2")),
          Opened(Opening("o1", "o2"), Opening("o2", "o2"))}
Unbound == {[status |-> "passed", mismatches |-> 0], [status |-> "failed", mismatches |-> 1]}

(***************************************************************************)
(* An accumulator never influences a session, and two accumulators meet    *)
(* only in child receipts and execution identities.  So the sessions run   *)
(* first and q is finished before p is begun; and q, which is opened in a  *)
(* way p is opened too, is followed only as far as it can become a child.  *)
(***************************************************************************)
Begun(n) == n.chain # <<>>
OneOrder ==
  /\ issued' # issued => \A a \in Accumulators : ~ Begun(native[a])
  /\ native'["q"].chain # native["q"].chain =>
       /\ ~ Begun(native["p"])
       /\ native'["q"].bound /\ native'["q"].counts.passed = native'["q"].counts.total
  /\ native'["p"].chain # native["p"].chain /\ Begun(native["q"]) => facade["q"].final # None
=============================================================================
