-------------------------- MODULE MCOrchestration --------------------------
(***************************************************************************)
(* Orchestration for TLC: two reads, an effect and a capability that is    *)
(* switched off; proposals chosen so that they meet in a batch.            *)
(***************************************************************************)
EXTENDS Governance, TLC

Registry ==
  "read"   :> [available |-> TRUE, replay |-> "cacheable_read", required |-> {"base"}, schema |-> {"x"}]
  @@ "proven" :> [available |-> TRUE, replay |-> "proven_replay_safe", required |-> {}, schema |-> {}]
  @@ "effect" :> [available |-> TRUE, replay |-> "occurrence_sensitive", required |-> {}, schema |-> {}]
  @@ "off"    :> [available |-> FALSE, replay |-> "cacheable_read", required |-> {}, schema |-> {}]

Proposal(key, capability, targets, required, occurrence, arguments) ==
  [key |-> key, capability |-> capability, targets |-> targets, required |-> required,
   occurrence |-> occurrence, arguments |-> arguments]

ReadBase    == Proposal("r1", "read", {"o1"}, {}, None, {})
ReadBaseToo == Proposal("r2", "read", {"o1"}, {"base"}, None, {})
ReadDerived == Proposal("r3", "read", {"o2"}, {"derived"}, None, {})
Proven      == Proposal("p1", "proven", {"o3"}, {}, None, {})
EffectX     == Proposal("e1", "effect", {"o1"}, {}, "x", {})
EffectXToo  == Proposal("e2", "effect", {"o1"}, {"base"}, "x", {})
EffectY     == Proposal("e3", "effect", {"o1"}, {}, "y", {})
EffectNoKey == Proposal("e5", "effect", {"o1"}, {}, None, {})
EffectZ     == Proposal("e4", "effect", {"o1"}, {}, "z", {})

Misfits ==
  <<Proposal("m1", "none", {"o1"}, {}, None, {}), Proposal("m2", "off", {"o1"}, {}, None, {}),
    Proposal("m3", "read", {"o1"}, {}, None, {"x", "y"}), Proposal("m4", "read", {"o9"}, {}, None, {}),
    Proposal("m5", "read", {"o1"}, {}, "x", {})>>

Order == <<EffectZ, ReadBaseToo, EffectXToo, ReadDerived, ReadBase, EffectX, Proven, EffectY, EffectNoKey>>
         \o Misfits
Ranks == [p \in Range(Order) |-> CHOOSE i \in DOMAIN Order : Order[i] = p]

Good == [key |-> "s", schema |-> "v1"]
Batch(strategy, ordering, proposals) ==
  [strategy |-> strategy, ordering |-> ordering, proposals |-> proposals]

Declared ==
  {<<EffectX, EffectXToo>>, <<EffectXToo, EffectX>>, <<EffectX, EffectY, EffectZ>>,
   <<EffectY, EffectZ, EffectXToo>>, <<ReadBase, EffectZ, ReadBaseToo>>,
   <<Proven, EffectX>>, <<EffectX>>, <<EffectNoKey>>}
Independent ==
  {<<ReadBase, ReadBaseToo>>, <<ReadDerived, ReadBaseToo, ReadBase>>, <<ReadBase, EffectX, Proven>>,
   SubSeq(Misfits, 1, 3), SubSeq(Misfits, 4, 5)}

Proposed ==
  {Batch(Good, "declared_sequence", s) : s \in Declared}
  \cup {Batch(Good, "canonical_independent", s) : s \in Independent}
  \cup {Batch(Good, "declared_sequence", <<ReadBase, ReadBaseToo, ReadDerived, Proven>>),
        Batch([key |-> "s", schema |-> "v2"], "canonical_independent", <<ReadBase>>),
        Batch([key |-> "t", schema |-> "v1"], "canonical_independent", <<ReadBase>>)}

Graph(a, b, c) == "o1" :> a @@ "o2" :> b @@ "o3" :> c
ChainAndCycles ==
  {Graph({}, {"o1"}, {"o2"}),
   Graph({"o3"}, {"o1"}, {"o2"}), Graph({"o2"}, {"o1"}, {}), Graph({}, {}, {"o3"})}
Permission(class, mutation, reuse) == [class |-> class, mutation |-> mutation, reuse |-> reuse]
Permissions ==
  "read" :> Permission("snapshot_read", FALSE, TRUE)
  @@ "effect" :> Permission("idempotent_mutation", TRUE, FALSE)
  @@ "proven" :> Permission("pure_read", FALSE, TRUE)

OneSchema == "s" :> "v1"
OneDerivation == "base" :> {} @@ "derived" :> {"base"}
=============================================================================
