-------------------------- MODULE RuntimeCoreProofs --------------------------
(***************************************************************************)
(* Machine-checked proofs about RuntimeCore, for every policy, every set   *)
(* of tool keys and every pool of grants.                                  *)
(*                                                                         *)
(* The invariants of RuntimeCore are not inductive alone.  The strengthened*)
(* invariant CoreInv says that the committed core is Sound, and what the   *)
(* candidate clone is at any time: the core itself between dispatches, and *)
(* during a callback the core with exactly one request and one execution   *)
(* admitted, for a tool key the cache does not hold.                       *)
(***************************************************************************)
EXTENDS RuntimeCore, TLAPS, FiniteSetTheorems, SequenceTheorems

(***************************************************************************)
(* The limits of a core are those of its lease ledger (the per-core part   *)
(* of LimitsFollowLeases).                                                 *)
(***************************************************************************)
Leased(c) ==
  /\ \A r \in RuntimeResource : c.limits[r] = Initial[r] + c.cumulative[r]
  /\ LimitsValid(c.limits)
  /\ ContinuationEnabled => Within(Plus(Initial, c.cumulative), TotalCeiling)
  /\ c.cumulative["mutations"] = 0

Sound(c) ==
  /\ c \in Core
  /\ IsFiniteSet(c.cache)
  /\ Bounded(c)
  /\ Accounted(c)
  /\ Leased(c)

Admitted(c) == IncrementExecution(IncrementRequest(c))

CoreInv ==
  /\ TypeOK
  /\ Sound(core)
  /\ call = Idle => staged = core
  /\ call # Idle =>
       /\ staged = Admitted(core)
       /\ core.requests < core.limits["requests"]
       /\ core.executions < core.limits["executions"]
       /\ Cached(core, call) = {}

-----------------------------------------------------------------------------
(* Facts about the operators. *)

(***************************************************************************)
(* Appending to a history keeps it within its limit, although the oldest   *)
(* entry is dropped only at equality.                                      *)
(***************************************************************************)
LEMMA AppendHistoryBounded ==
  ASSUME NEW S, NEW h \in Seq(S), NEW limit \in Nat, limit > 0, Len(h) <= limit,
         NEW t \in S
  PROVE  /\ AppendHistory(h, limit, t) \in Seq(S)
         /\ Len(AppendHistory(h, limit, t)) <= limit
<1>1. CASE Len(h) = limit
  <2>1. h # <<>>
    BY <1>1, EmptySeq
  <2>2. Tail(h) \in Seq(S) /\ Len(Tail(h)) = Len(h) - 1
    BY <2>1, HeadTailProperties
  <2>. QED
    BY <1>1, <2>2, AppendProperties DEF AppendHistory
<1>2. CASE Len(h) # limit
  BY <1>2, AppendProperties, LenProperties DEF AppendHistory
<1>. QED
  BY <1>1, <1>2

(***************************************************************************)
(* The resources with a runtime limit.                                     *)
(***************************************************************************)
LEMMA Resources ==
  /\ RuntimeResource \subseteq Resource
  /\ {"requests", "executions", "retries", "history"} \subseteq RuntimeResource
  /\ "mutations" \in Resource
BY DEF RuntimeResource, Resource

(***************************************************************************)
(* The numbers a Sound core holds.                                         *)
(***************************************************************************)
LEMMA SoundNumbers ==
  ASSUME NEW c, Sound(c)
  PROVE  /\ c.requests \in Nat /\ c.executions \in Nat /\ c.cache_hits \in Nat
         /\ c.retries \in Nat /\ c.tick \in Nat
         /\ Cardinality(c.cache) \in Nat /\ Len(c.applied) \in Nat
         /\ \A r \in RuntimeResource : c.limits[r] \in Nat /\ c.limits[r] > 0
<1>1. c \in Core
  BY DEF Sound
<1>2. \A r \in RuntimeResource : c.limits[r] \in Nat /\ c.limits[r] > 0
  BY <1>1 DEF Sound, Leased, LimitsValid, Core
<1>3. Cardinality(c.cache) \in Nat
  BY FS_CardinalityType DEF Sound
<1>4. c.applied \in Seq(Grant)
  BY <1>1 DEF Core
<1>5. Len(c.applied) \in Nat
  BY <1>4, LenProperties
<1>. QED
  BY <1>1, <1>2, <1>3, <1>5 DEF Core

(***************************************************************************)
(* What a step adds to the counters of a core: q requests, x executions,   *)
(* h hits, y retries, k cache entries and l leases, and as many ticks.     *)
(***************************************************************************)
Charges(c, d, q, x, h, y, k, l) ==
  /\ d.requests = c.requests + q
  /\ d.executions = c.executions + x
  /\ d.cache_hits = c.cache_hits + h
  /\ d.retries = c.retries + y
  /\ Cardinality(d.cache) = Cardinality(c.cache) + k
  /\ Len(d.applied) = Len(c.applied) + l
  /\ d.tick = c.tick + (q + x + h + y + k + l)

(***************************************************************************)
(* A step that charges what it ticks keeps the tick accounted for.         *)
(***************************************************************************)
LEMMA ChargesAccounted ==
  ASSUME NEW c, NEW d, Sound(c),
         NEW q \in Nat, NEW x \in Nat, NEW h \in Nat,
         NEW y \in Nat, NEW k \in Nat, NEW l \in Nat,
         Charges(c, d, q, x, h, y, k, l)
  PROVE  Accounted(d)
<1>. DEFINE r == c.requests  e == c.executions  m == c.cache_hits  z == c.retries
            n == Cardinality(c.cache)  p == Len(c.applied)  t == c.tick
<1>1. /\ r \in Nat /\ e \in Nat /\ m \in Nat /\ z \in Nat
      /\ n \in Nat /\ p \in Nat /\ t \in Nat
  BY SoundNumbers
<1>2. t = r + e + m + z + n + p
  BY DEF Sound, Accounted
<1>3. t + (q + x + h + y + k + l)
        = (r + q) + (e + x) + (m + h) + (z + y) + (n + k) + (p + l)
  <2>. HIDE DEF r, e, m, z, n, p, t
  <2>. QED
    BY <1>1, <1>2
<1>. QED
  BY <1>3, Zenon DEF Charges, Accounted

(***************************************************************************)
(* A step that leaves limits and ledger alone keeps the leased part.       *)
(***************************************************************************)
LEMMA LeasedFrame ==
  ASSUME NEW c, NEW d, Leased(c), d.limits = c.limits, d.cumulative = c.cumulative
  PROVE  Leased(d)
BY DEF Leased

(***************************************************************************)
(* A retry within its budget leaves the core sound.                        *)
(***************************************************************************)
LEMMA RetrySound ==
  ASSUME NEW c, Sound(c), c.retries < c.limits["retries"]
  PROVE  /\ Sound(IncrementRetry(c))
         /\ IncrementRetry(c).tick > c.tick
<1>. DEFINE d == IncrementRetry(c)
<1>1. c \in Core /\ Bounded(c) /\ Leased(c) /\ IsFiniteSet(c.cache)
  BY DEF Sound
<1>2. c.retries + 1 \in Nat /\ c.tick + 1 \in Nat
  BY SoundNumbers
<1>3. d \in Core
  BY <1>1, <1>2 DEF IncrementRetry, Core
<1>4. /\ d.limits = c.limits /\ d.requests = c.requests /\ d.executions = c.executions
      /\ d.cache_hits = c.cache_hits /\ d.retries = c.retries + 1 /\ d.tick = c.tick + 1
      /\ d.cache = c.cache /\ d.history = c.history
      /\ d.cumulative = c.cumulative /\ d.applied = c.applied
  BY <1>1 DEF IncrementRetry, Core
<1>. HIDE DEF d
<1>5. Bounded(d)
  BY <1>1, <1>4, SoundNumbers, Resources, SMTT(30) DEF Bounded
<1>6. Charges(c, d, 0, 0, 0, 1, 0, 0)
  BY <1>4, SoundNumbers DEF Charges
<1>7. Accounted(d)
  BY <1>6, ChargesAccounted
<1>8. Sound(d) /\ d.tick > c.tick
  BY <1>1, <1>3, <1>4, <1>5, <1>7, SoundNumbers, LeasedFrame DEF Sound
<1>. QED
  BY <1>8 DEF d

(***************************************************************************)
(* A request within its budget leaves the core sound, with room for one    *)
(* hit or one execution.                                                   *)
(***************************************************************************)
LEMMA RequestSound ==
  ASSUME NEW c, Sound(c), c.requests < c.limits["requests"]
  PROVE  LET d == IncrementRequest(c)
         IN  /\ Sound(d)
             /\ d.tick > c.tick
             /\ d.executions + d.cache_hits < d.requests
             /\ d.limits = c.limits /\ d.executions = c.executions
             /\ d.cache = c.cache
<1>. DEFINE d == IncrementRequest(c)
<1>1. c \in Core /\ Bounded(c) /\ Leased(c) /\ IsFiniteSet(c.cache)
  BY DEF Sound
<1>2. c.requests + 1 \in Nat /\ c.tick + 1 \in Nat
  BY SoundNumbers
<1>3. d \in Core
  BY <1>1, <1>2 DEF IncrementRequest, Core
<1>4. /\ d.limits = c.limits /\ d.requests = c.requests + 1 /\ d.executions = c.executions
      /\ d.cache_hits = c.cache_hits /\ d.retries = c.retries /\ d.tick = c.tick + 1
      /\ d.cache = c.cache /\ d.history = c.history
      /\ d.cumulative = c.cumulative /\ d.applied = c.applied
  BY <1>1 DEF IncrementRequest, Core
<1>. HIDE DEF d
<1>5. Bounded(d) /\ d.executions + d.cache_hits < d.requests
  <2>1. /\ c.requests \in Nat /\ c.executions \in Nat /\ c.cache_hits \in Nat
        /\ c.limits["requests"] \in Nat
    BY SoundNumbers, Resources
  <2>2. d.requests <= d.limits["requests"] /\ d.executions + d.cache_hits < d.requests
    BY <1>1, <1>4, <2>1 DEF Bounded
  <2>3. d.executions + d.cache_hits <= d.requests
    BY <1>1, <1>4, <2>1 DEF Bounded
  <2>. QED
    BY <1>1, <1>4, <2>2, <2>3 DEF Bounded
<1>6. Charges(c, d, 1, 0, 0, 0, 0, 0)
  BY <1>4, SoundNumbers DEF Charges
<1>7. Accounted(d)
  BY <1>6, ChargesAccounted
<1>8. Sound(d) /\ d.tick > c.tick
  BY <1>1, <1>3, <1>4, <1>5, <1>7, SoundNumbers, LeasedFrame DEF Sound
<1>. QED
  BY <1>4, <1>5, <1>8 DEF d

(***************************************************************************)
(* An execution within its budget, on a core whose request is not yet      *)
(* answered, leaves the core sound and the cache with room for the         *)
(* observation.                                                            *)
(***************************************************************************)
LEMMA ExecutionSound ==
  ASSUME NEW c, Sound(c), c.executions < c.limits["executions"],
         c.executions + c.cache_hits < c.requests
  PROVE  LET d == IncrementExecution(c)
         IN  /\ Sound(d)
             /\ d.tick > c.tick
             /\ Cardinality(d.cache) < d.executions
             /\ d.cache = c.cache
             /\ ~CacheFull(d)
<1>. DEFINE d == IncrementExecution(c)
<1>1. c \in Core /\ Bounded(c) /\ Leased(c) /\ IsFiniteSet(c.cache)
  BY DEF Sound
<1>2. c.executions + 1 \in Nat /\ c.tick + 1 \in Nat
  BY SoundNumbers
<1>3. d \in Core
  BY <1>1, <1>2 DEF IncrementExecution, Core
<1>4. /\ d.limits = c.limits /\ d.requests = c.requests /\ d.executions = c.executions + 1
      /\ d.cache_hits = c.cache_hits /\ d.retries = c.retries /\ d.tick = c.tick + 1
      /\ d.cache = c.cache /\ d.history = c.history
      /\ d.cumulative = c.cumulative /\ d.applied = c.applied
  BY <1>1 DEF IncrementExecution, Core
<1>. HIDE DEF d
<1>5. Bounded(d) /\ Cardinality(d.cache) < d.executions
  <2>1. /\ c.requests \in Nat /\ c.executions \in Nat /\ c.cache_hits \in Nat
        /\ Cardinality(c.cache) \in Nat /\ c.limits["executions"] \in Nat
    BY SoundNumbers, Resources
  <2>2. d.executions <= d.limits["executions"] /\ Cardinality(d.cache) < d.executions
    BY <1>1, <1>4, <2>1 DEF Bounded
  <2>3. d.executions + d.cache_hits <= d.requests /\ Cardinality(d.cache) <= d.executions
    BY <1>4, <2>1, <2>2
  <2>. QED
    BY <1>1, <1>4, <2>2, <2>3 DEF Bounded
<1>6. Charges(c, d, 0, 1, 0, 0, 0, 0)
  BY <1>4, SoundNumbers DEF Charges
<1>7. Accounted(d)
  BY <1>6, ChargesAccounted
<1>8. Sound(d) /\ d.tick > c.tick
  BY <1>1, <1>3, <1>4, <1>5, <1>7, SoundNumbers, LeasedFrame DEF Sound
<1>9. ~CacheFull(d)
  <2>1. /\ d.executions \in Nat /\ Cardinality(d.cache) \in Nat
        /\ d.limits["executions"] \in Nat
    BY <1>8, SoundNumbers, Resources
  <2>2. d.executions <= d.limits["executions"] /\ Cardinality(d.cache) < d.executions
    BY <1>5 DEF Bounded
  <2>. QED
    BY <2>1, <2>2 DEF CacheFull
<1>. QED
  BY <1>4, <1>5, <1>8, <1>9 DEF d

(***************************************************************************)
(* Answering an open request from the cache leaves the core sound.         *)
(***************************************************************************)
LEMMA HitSound ==
  ASSUME NEW c, Sound(c), NEW t \in Transition, c.executions + c.cache_hits < c.requests
  PROVE  LET d == CommitCacheHit(c, t)
         IN  Sound(d) /\ d.tick > c.tick
<1>. DEFINE d == CommitCacheHit(c, t)
            new == AppendHistory(c.history, c.limits["history"], t)
<1>1. c \in Core /\ Bounded(c) /\ Leased(c) /\ IsFiniteSet(c.cache)
  BY DEF Sound
<1>2. /\ c.cache_hits + 1 \in Nat /\ c.tick + 1 \in Nat
      /\ c.limits["history"] \in Nat /\ c.limits["history"] > 0
  BY SoundNumbers, Resources
<1>3. c.history \in Seq(Transition) /\ Len(c.history) <= c.limits["history"]
  BY <1>1 DEF Core, Bounded
<1>4. new \in Seq(Transition) /\ Len(new) <= c.limits["history"]
  BY <1>2, <1>3, AppendHistoryBounded
<1>. HIDE DEF new
<1>5. d = [c EXCEPT !.cache_hits = @ + 1, !.tick = @ + 1, !.history = new]
  BY DEF CommitCacheHit, new
<1>6. d \in Core
  BY <1>1, <1>2, <1>4, <1>5 DEF Core
<1>7. /\ d.limits = c.limits /\ d.requests = c.requests /\ d.executions = c.executions
      /\ d.cache_hits = c.cache_hits + 1 /\ d.retries = c.retries /\ d.tick = c.tick + 1
      /\ d.cache = c.cache /\ d.history = new
      /\ d.cumulative = c.cumulative /\ d.applied = c.applied
  BY <1>1, <1>5 DEF Core
<1>. HIDE DEF d
<1>8. Bounded(d)
  BY <1>1, <1>4, <1>7, SoundNumbers, Resources, SMTT(30) DEF Bounded
<1>9. Charges(c, d, 0, 0, 1, 0, 0, 0)
  BY <1>7, SoundNumbers DEF Charges
<1>10. Accounted(d)
  BY <1>9, ChargesAccounted
<1>11. Sound(d) /\ d.tick > c.tick
  BY <1>1, <1>6, <1>7, <1>8, <1>10, SoundNumbers, LeasedFrame DEF Sound
<1>. QED
  BY <1>11 DEF d

(***************************************************************************)
(* Storing an observation the cache has room for leaves the core sound.    *)
(***************************************************************************)
LEMMA ObservationSound ==
  ASSUME NEW c, Sound(c), NEW t \in Transition, t \notin c.cache,
         Cardinality(c.cache) < c.executions
  PROVE  LET d == CommitObservation(c, t)
         IN  Sound(d) /\ d.tick > c.tick
<1>. DEFINE d == CommitObservation(c, t)
            new == AppendHistory(c.history, c.limits["history"], t)
            full == c.cache \cup {t}
<1>1. c \in Core /\ Bounded(c) /\ Leased(c) /\ IsFiniteSet(c.cache)
  BY DEF Sound
<1>2. c.tick + 1 \in Nat /\ c.limits["history"] \in Nat /\ c.limits["history"] > 0
  BY SoundNumbers, Resources
<1>3. c.history \in Seq(Transition) /\ Len(c.history) <= c.limits["history"]
  BY <1>1 DEF Core, Bounded
<1>4. new \in Seq(Transition) /\ Len(new) <= c.limits["history"]
  BY <1>2, <1>3, AppendHistoryBounded
<1>5. full \subseteq Transition
  BY <1>1 DEF Core
<1>6. IsFiniteSet(full) /\ Cardinality(full) = Cardinality(c.cache) + 1
  BY <1>1, FS_AddElement
<1>. HIDE DEF new, full
<1>7. d = [c EXCEPT !.tick = @ + 1, !.cache = full, !.history = new]
  BY DEF CommitObservation, new, full
<1>8. d \in Core
  BY <1>1, <1>2, <1>4, <1>5, <1>7 DEF Core
<1>9. /\ d.limits = c.limits /\ d.requests = c.requests /\ d.executions = c.executions
      /\ d.cache_hits = c.cache_hits /\ d.retries = c.retries /\ d.tick = c.tick + 1
      /\ d.cache = full /\ d.history = new
      /\ d.cumulative = c.cumulative /\ d.applied = c.applied
  BY <1>1, <1>7 DEF Core
<1>. HIDE DEF d
<1>10. Cardinality(d.cache) = Cardinality(c.cache) + 1 /\ IsFiniteSet(d.cache)
  BY <1>6, <1>9
<1>11. Bounded(d)
  BY <1>1, <1>4, <1>9, <1>10, SoundNumbers, Resources, SMTT(30) DEF Bounded
<1>12. Charges(c, d, 0, 0, 0, 0, 1, 0)
  BY <1>9, <1>10, SoundNumbers DEF Charges
<1>13. Accounted(d)
  BY <1>12, ChargesAccounted
<1>14. Sound(d) /\ d.tick > c.tick
  BY <1>1, <1>8, <1>9, <1>10, <1>11, <1>13, SoundNumbers, LeasedFrame DEF Sound
<1>. QED
  BY <1>14 DEF d

(***************************************************************************)
(* What an accepted grant satisfies.                                       *)
(***************************************************************************)
LEMMA AcceptedGrant ==
  ASSUME NEW c, NEW g, LeaseVerdict(c, g) = "accepted"
  PROVE  /\ ContinuationEnabled
         /\ g.prior = c.tick
         /\ g.index = Len(c.applied) + 1 /\ ~(g.index > Len(Schedule))
         /\ Within(g.granted, Schedule[g.index])
         /\ g.granted["mutations"] = 0
         /\ g.cumulative = Plus(c.cumulative, g.granted)
         /\ Within(Plus(Initial, g.cumulative), TotalCeiling)
         /\ LimitsValid(Plus(Initial, g.cumulative))
BY DEF LeaseVerdict

(***************************************************************************)
(* Applying an accepted lease leaves the core sound: limits only grow, so  *)
(* counters, history and cache stay within them.                           *)
(***************************************************************************)
LEMMA LeaseSound ==
  ASSUME NEW c, Sound(c), NEW g \in Grant, LeaseVerdict(c, g) = "accepted"
  PROVE  LET d == Extended(c, g)
         IN  Sound(d) /\ d.tick > c.tick
<1>. DEFINE d == Extended(c, g)
            lim == [r \in RuntimeResource |-> Initial[r] + g.cumulative[r]]
            led == Append(c.applied, g)
<1>1. c \in Core /\ Bounded(c) /\ Leased(c) /\ IsFiniteSet(c.cache)
  BY DEF Sound
<1>2. /\ c.cumulative \in Vector /\ c.applied \in Seq(Grant)
      /\ g.granted \in Vector /\ g.cumulative \in Vector
  BY <1>1 DEF Core, Grant
<1>3. Initial \in Vector
  BY PolicyType
<1>4. \A r \in Resource : /\ g.cumulative[r] = c.cumulative[r] + g.granted[r]
                          /\ g.cumulative[r] \in Nat /\ c.cumulative[r] \in Nat
                          /\ g.granted[r] \in Nat /\ Initial[r] \in Nat
  <2>1. \A r \in Resource : /\ g.cumulative[r] \in Nat /\ c.cumulative[r] \in Nat
                            /\ g.granted[r] \in Nat /\ Initial[r] \in Nat
    BY <1>2, <1>3 DEF Vector
  <2>2. g.cumulative = Plus(c.cumulative, g.granted)
    BY AcceptedGrant
  <2>3. \A r \in Resource : g.cumulative[r] = c.cumulative[r] + g.granted[r]
    BY <2>2 DEF Plus
  <2>. QED
    BY <2>1, <2>3
<1>5. \A r \in RuntimeResource : /\ lim[r] = Initial[r] + g.cumulative[r]
                                 /\ lim[r] \in Nat /\ c.limits[r] <= lim[r]
  BY <1>1, <1>4, Resources DEF Leased
<1>6. lim \in [RuntimeResource -> Nat]
  BY <1>5
<1>7. led \in Seq(Grant) /\ Len(led) = Len(c.applied) + 1
  BY <1>2, AppendProperties
<1>8. c.tick + 1 \in Nat
  BY SoundNumbers
<1>9. \A r \in RuntimeResource : Plus(Initial, g.cumulative)[r] = lim[r]
  BY <1>5, Resources DEF Plus
<1>. HIDE DEF lim, led
<1>10. LimitsValid(lim)
  BY <1>9, AcceptedGrant DEF LimitsValid
<1>11. d = [c EXCEPT !.limits = lim, !.tick = @ + 1, !.cumulative = g.cumulative,
                     !.applied = led]
  BY DEF Extended, lim, led
<1>12. d \in Core
  BY <1>1, <1>2, <1>6, <1>7, <1>8, <1>11 DEF Core
<1>13. /\ d.limits = lim /\ d.requests = c.requests /\ d.executions = c.executions
       /\ d.cache_hits = c.cache_hits /\ d.retries = c.retries /\ d.tick = c.tick + 1
       /\ d.cache = c.cache /\ d.history = c.history
       /\ d.cumulative = g.cumulative /\ d.applied = led
  BY <1>1, <1>11 DEF Core
<1>. HIDE DEF d
<1>14. c.history \in Seq(Transition) /\ Len(c.history) \in Nat
  BY <1>1, LenProperties DEF Core
<1>15. Bounded(d)
  <2>1. \A n \in Nat, r \in RuntimeResource : n <= c.limits[r] => n <= d.limits[r]
    BY <1>5, <1>13, SoundNumbers
  <2>2. /\ d.requests <= d.limits["requests"] /\ d.executions <= d.limits["executions"]
        /\ d.retries <= d.limits["retries"] /\ Len(d.history) <= d.limits["history"]
    BY <1>1, <1>13, <1>14, <2>1, SoundNumbers, Resources DEF Bounded
  <2>. QED
    BY <1>1, <1>13, <2>2 DEF Bounded
<1>16. Charges(c, d, 0, 0, 0, 0, 0, 1)
  BY <1>7, <1>13, SoundNumbers DEF Charges
<1>17. Accounted(d)
  BY <1>16, ChargesAccounted
<1>18. g.cumulative["mutations"] = 0
  <2>1. c.cumulative["mutations"] = 0 /\ g.granted["mutations"] = 0
    BY <1>1, AcceptedGrant DEF Leased
  <2>. QED
    BY <1>4, <2>1, Resources
<1>19. Leased(d)
  BY <1>5, <1>10, <1>13, <1>18, AcceptedGrant DEF Leased
<1>20. Sound(d) /\ d.tick > c.tick
  BY <1>1, <1>12, <1>13, <1>15, <1>17, <1>19, SoundNumbers DEF Sound
<1>. QED
  BY <1>20 DEF d

-----------------------------------------------------------------------------
(* The inductive invariant. *)

(***************************************************************************)
(* Every core a dispatch may hold is sound, and a running callback will    *)
(* find room for its observation.                                          *)
(***************************************************************************)
LEMMA StagedSound ==
  ASSUME CoreInv
  PROVE  /\ Sound(staged)
         /\ call # Idle => /\ ~CacheFull(staged)
                           /\ Cardinality(staged.cache) < staged.executions
                           /\ staged.cache = core.cache
                           /\ staged.tick > core.tick
<1>1. CASE call = Idle
  BY <1>1 DEF CoreInv
<1>2. CASE call # Idle
  <2>. DEFINE d == IncrementRequest(core)
  <2>1. Sound(core) /\ staged = IncrementExecution(d)
    BY <1>2 DEF CoreInv, Admitted
  <2>2. core.requests < core.limits["requests"] /\ core.executions < core.limits["executions"]
    BY <1>2 DEF CoreInv
  <2>3. /\ Sound(d) /\ d.tick > core.tick /\ d.executions + d.cache_hits < d.requests
        /\ d.limits = core.limits /\ d.executions = core.executions
        /\ d.cache = core.cache
    BY <2>1, <2>2, RequestSound
  <2>. HIDE DEF d
  <2>4. /\ Sound(staged) /\ staged.tick > d.tick /\ staged.cache = d.cache
        /\ Cardinality(staged.cache) < staged.executions /\ ~CacheFull(staged)
    BY <2>1, <2>2, <2>3, ExecutionSound
  <2>5. core.tick \in Nat /\ d.tick \in Nat /\ staged.tick \in Nat
    BY <2>1, <2>3, <2>4, SoundNumbers
  <2>. QED
    BY <2>3, <2>4, <2>5
<1>. QED
  BY <1>1, <1>2

(***************************************************************************)
(* A fresh session satisfies the invariant.                                *)
(***************************************************************************)
LEMMA InitCoreInv == Init => CoreInv
<1>. SUFFICES ASSUME Init PROVE CoreInv
  OBVIOUS
<1>. DEFINE c == InitialCore
            lim == [r \in RuntimeResource |-> Initial[r]]
<1>1. Initial \in Vector /\ TotalCeiling \in Vector
  BY PolicyType
<1>2. lim \in [RuntimeResource -> Nat] /\ LimitsValid(lim)
  BY <1>1, Resources, InitialAssumption DEF Vector, LimitsValid
<1>3. Zero \in Vector /\ \A r \in Resource : Zero[r] = 0
  BY DEF Zero, Vector
<1>4. /\ c.limits = lim /\ c.requests = 0 /\ c.executions = 0 /\ c.cache_hits = 0
      /\ c.retries = 0 /\ c.tick = 0 /\ c.cache = {} /\ c.history = <<>>
      /\ c.cumulative = Zero /\ c.applied = <<>>
  BY DEF InitialCore
<1>5. c \in Core
  BY <1>2, <1>3 DEF InitialCore, Core
<1>. HIDE DEF c
<1>6. IsFiniteSet(c.cache) /\ Cardinality(c.cache) = 0
  BY <1>4, FS_EmptySet
<1>7. \A r \in RuntimeResource : lim[r] \in Nat /\ lim[r] > 0
  BY <1>2 DEF LimitsValid
<1>8. Bounded(c)
  BY <1>4, <1>6, <1>7, Resources, EmptySeq DEF Bounded
<1>9. Accounted(c)
  BY <1>4, <1>6, EmptySeq DEF Accounted
<1>10. \A r \in Resource : Initial[r] + Zero[r] = Initial[r]
  BY <1>1, <1>3 DEF Vector
<1>11. ContinuationEnabled => Within(Plus(Initial, Zero), TotalCeiling)
  BY <1>10, PolicyAssumption DEF Within, Plus
<1>12. \A r \in RuntimeResource : c.limits[r] = Initial[r] + c.cumulative[r]
  BY <1>4, <1>10, Resources
<1>13. Leased(c)
  BY <1>2, <1>3, <1>4, <1>11, <1>12, Resources DEF Leased
<1>14. Sound(c)
  BY <1>5, <1>6, <1>8, <1>9, <1>13 DEF Sound
<1>15. TypeOK
  <2>1. core \in Core /\ staged \in Core
    BY <1>5 DEF Init, c
  <2>2. authority \in [epoch : Nat, revoked : BOOLEAN]
    BY DEF Init
  <2>3. outcome \in Receipt
    BY DEF Init, Receipt, Reason
  <2>. QED
    BY <2>1, <2>2, <2>3 DEF Init, TypeOK
<1>. QED
  BY <1>14, <1>15 DEF Init, CoreInv, c

(***************************************************************************)
(* Steps that commit a sound core leave the session idle and the invariant *)
(* intact.                                                                 *)
(***************************************************************************)
LEMMA CommitInv ==
  ASSUME NEW c, Sound(c), Commit(c), TypeOK,
         UNCHANGED authority, issued' \subseteq Grant,
         outcome' \in Receipt
  PROVE  CoreInv'
<1>1. core' = c /\ staged' = c /\ call' = Idle
  BY DEF Commit
<1>2. Sound(core)' /\ core' \in Core /\ staged' \in Core
  BY <1>1 DEF Sound
<1>3. TypeOK'
  BY <1>1, <1>2 DEF TypeOK
<1>. QED
  BY <1>1, <1>2, <1>3 DEF CoreInv

(***************************************************************************)
(* Steps that leave the core and the dispatch alone keep the invariant.    *)
(***************************************************************************)
LEMMA FrameInv ==
  ASSUME CoreInv, UNCHANGED coreVars,
         authority' \in [epoch : Nat, revoked : BOOLEAN],
         issued' \subseteq Grant, outcome' \in Receipt
  PROVE  CoreInv'
BY DEF CoreInv, TypeOK, coreVars

(***************************************************************************)
(* The steps of a session whatever grants it is presented: Continuation    *)
(* issues grants of its own making, which no pool fixes beforehand.        *)
(***************************************************************************)
SessionNext ==
  \/ \E reason \in ParseReason : RejectCommand(reason)
  \/ RecordRetry
  \/ RefuseRetry
  \/ ReadRefused
  \/ \E transition \in Transition : ReadHit(transition)
  \/ \E key \in ToolKeys : ReadExhausted(key)
  \/ \E key \in ToolKeys : ReadInvokes(key)
  \/ \E observation \in Observations : ReadReturns(observation)
  \/ \E reason \in CallbackReason : ReadFails(reason)
  \/ DispatchRaises
  \/ RevokeAll
  \/ \E g \in Grant : IssueGrant(g) \/ ApplyLease(g) \/ RefuseLease(g)

(***************************************************************************)
(* A step of RuntimeCore is such a step.                                   *)
(***************************************************************************)
LEMMA NextSession == [Next]_vars => [SessionNext]_vars
<1>1. GrantPool \subseteq Grant
  BY CoreAssumption
<1>. QED
  BY <1>1, Zenon DEF Next, SessionNext

(***************************************************************************)
(* Every step of the session preserves the invariant.                      *)
(***************************************************************************)
LEMMA SessionCoreInv == CoreInv /\ [SessionNext]_vars => CoreInv'
<1>. SUFFICES ASSUME CoreInv, [SessionNext]_vars PROVE CoreInv'
  OBVIOUS
<1>t. /\ TypeOK /\ Sound(core) /\ Sound(staged)
      /\ authority \in [epoch : Nat, revoked : BOOLEAN]
      /\ issued \subseteq Grant /\ outcome \in Receipt
      /\ call \in ToolKeys \cup {Idle}
  BY StagedSound DEF CoreInv, TypeOK
<1>1. ASSUME NEW reason \in ParseReason, RejectCommand(reason) PROVE CoreInv'
  <2>1. outcome' \in Receipt
    BY <1>1 DEF RejectCommand, Reply, Receipt, Reason
  <2>. QED
    BY <1>t, <1>1, <2>1, FrameInv DEF RejectCommand
<1>2. CASE RecordRetry
  <2>1. Sound(IncrementRetry(core))
    BY <1>t, <1>2, RetrySound DEF RecordRetry
  <2>2. outcome' \in Receipt
    BY <1>2 DEF RecordRetry, Reply, Receipt, Reason
  <2>. QED
    BY <1>t, <1>2, <2>1, <2>2, CommitInv DEF RecordRetry
<1>3. CASE RefuseRetry
  <2>1. outcome' \in Receipt
    BY <1>3 DEF RefuseRetry, Reply, Receipt, Reason, BudgetReason
  <2>. QED
    BY <1>t, <1>3, <2>1, FrameInv DEF RefuseRetry
<1>4. CASE ReadRefused
  <2>1. outcome' \in Receipt
    BY <1>4 DEF ReadRefused, Reply, Receipt, Reason, BudgetReason
  <2>. QED
    BY <1>t, <1>4, <2>1, FrameInv DEF ReadRefused
<1>5. ASSUME NEW transition \in Transition, ReadHit(transition) PROVE CoreInv'
  <2>. DEFINE d == IncrementRequest(core)
  <2>1. Sound(d) /\ d.executions + d.cache_hits < d.requests
    BY <1>t, <1>5, RequestSound DEF ReadHit
  <2>. HIDE DEF d
  <2>2. Sound(CommitCacheHit(d, transition))
    BY <2>1, HitSound
  <2>3. outcome' \in Receipt
    BY <1>5 DEF ReadHit, Reply, Receipt, Reason
  <2>. QED
    BY <1>t, <1>5, <2>2, <2>3, CommitInv DEF ReadHit, d
<1>6. ASSUME NEW key \in ToolKeys, ReadExhausted(key) PROVE CoreInv'
  <2>1. Sound(IncrementRequest(core))
    BY <1>t, <1>6, RequestSound DEF ReadExhausted
  <2>2. outcome' \in Receipt
    BY <1>6 DEF ReadExhausted, Reply, Receipt, Reason, BudgetReason
  <2>. QED
    BY <1>t, <1>6, <2>1, <2>2, CommitInv DEF ReadExhausted
<1>7. ASSUME NEW key \in ToolKeys, ReadInvokes(key) PROVE CoreInv'
  <2>1. /\ core' = core /\ call' = key /\ staged' = Admitted(core)
        /\ UNCHANGED <<authority, issued, outcome>>
        /\ core.requests < core.limits["requests"]
        /\ core.executions < core.limits["executions"]
        /\ Cached(core, key) = {}
    BY <1>7 DEF ReadInvokes, Admitted
  <2>. DEFINE d == IncrementRequest(core)
  <2>2. /\ Sound(d) /\ d.executions + d.cache_hits < d.requests
        /\ d.limits = core.limits /\ d.executions = core.executions
    BY <1>t, <2>1, RequestSound
  <2>. HIDE DEF d
  <2>3. Sound(IncrementExecution(d))
    BY <2>1, <2>2, ExecutionSound
  <2>4. staged' \in Core /\ core' \in Core
    BY <1>t, <2>1, <2>3 DEF Sound, Admitted, d
  <2>5. TypeOK'
    BY <1>t, <2>1, <2>4 DEF TypeOK
  <2>6. key # Idle
    BY CoreAssumption
  <2>7. Sound(core)' /\ Admitted(core)' = Admitted(core) /\ Cached(core, call)' = Cached(core, key)
    BY <1>t, <2>1
  <2>. QED
    BY <2>1, <2>5, <2>6, <2>7 DEF CoreInv
<1>8. ASSUME NEW observation \in Observations, ReadReturns(observation) PROVE CoreInv'
  <2>. DEFINE t == <<call, observation>>
  <2>1. call # Idle /\ call \in ToolKeys
    BY <1>t, <1>8 DEF ReadReturns
  <2>2. ~CacheFull(staged) /\ Cardinality(staged.cache) < staged.executions
          /\ staged.cache = core.cache /\ Cached(core, call) = {}
    BY <2>1, StagedSound DEF CoreInv
  <2>3. t \in Transition
    BY <2>1 DEF Transition
  <2>4. t \notin staged.cache
    BY <2>2 DEF Cached
  <2>. HIDE DEF t
  <2>5. Sound(CommitObservation(staged, t))
    BY <1>t, <2>2, <2>3, <2>4, ObservationSound
  <2>6. /\ Commit(CommitObservation(staged, t)) /\ UNCHANGED <<authority, issued>>
        /\ Reply("execute_read", "accepted", "cold_execution")
    BY <1>8, <2>2 DEF ReadReturns, t
  <2>7. outcome' \in Receipt
    BY <2>6 DEF Reply, Receipt, Reason
  <2>. QED
    BY <1>t, <2>5, <2>6, <2>7, CommitInv
<1>9. ASSUME NEW reason \in CallbackReason, ReadFails(reason) PROVE CoreInv'
  <2>1. outcome' \in Receipt
    BY <1>9 DEF ReadFails, Reply, Receipt, Reason
  <2>. QED
    BY <1>t, <1>9, <2>1, CommitInv DEF ReadFails
<1>10. CASE DispatchRaises
  <2>1. outcome' \in Receipt
    BY <1>10 DEF DispatchRaises, Reply, Receipt, Reason
  <2>. QED
    BY <1>t, <1>10, <2>1, CommitInv DEF DispatchRaises
<1>11. CASE RevokeAll
  <2>1. authority' \in [epoch : Nat, revoked : BOOLEAN]
    BY <1>t, <1>11 DEF RevokeAll
  <2>. QED
    BY <1>t, <1>11, <2>1, FrameInv DEF RevokeAll
<1>12. ASSUME NEW g \in Grant, IssueGrant(g) PROVE CoreInv'
  <2>1. issued' \subseteq Grant
    BY <1>t, <1>12 DEF IssueGrant
  <2>. QED
    BY <1>t, <1>12, <2>1, FrameInv DEF IssueGrant
<1>13. ASSUME NEW g \in Grant, ApplyLease(g) PROVE CoreInv'
  <2>1. Sound(Extended(core, g))
    BY <1>t, <1>13, LeaseSound DEF ApplyLease
  <2>2. outcome' \in Receipt
    BY <1>13 DEF ApplyLease, Reply, Receipt, Reason
  <2>. QED
    BY <1>t, <1>13, <2>1, <2>2, CommitInv DEF ApplyLease
<1>14. ASSUME NEW g \in Grant, RefuseLease(g) PROVE CoreInv'
  <2>1. LeaseVerdict(core, g) \in LeaseReason \cup {"accepted"}
    BY DEF LeaseVerdict, LeaseReason
  <2>2. outcome' \in Receipt
    BY <1>14, <2>1 DEF RefuseLease, Reply, Receipt, Reason, LeaseReason
  <2>. QED
    BY <1>t, <1>14, <2>2, FrameInv DEF RefuseLease
<1>15. CASE UNCHANGED vars
  BY <1>15 DEF vars, CoreInv, TypeOK
<1>. QED
  BY <1>1, <1>2, <1>3, <1>4, <1>5, <1>6, <1>7, <1>8, <1>9, <1>10, <1>11, <1>12, <1>13,
     <1>14, <1>15 DEF SessionNext

(***************************************************************************)
(* What the code changes in the committed core, step by step: nothing, or  *)
(* a sound core with a later tick; and only while authority is live.  The  *)
(* lease ledger changes only when a sealed grant is applied.               *)
(***************************************************************************)
Advances ==
  /\ core' # core => core'.tick > core.tick
  /\ authority.revoked => UNCHANGED <<core, issued, authority>>
  /\ issued \subseteq issued'
  /\ \/ UNCHANGED <<core.applied, core.cumulative>>
     \/ \E g \in issued : /\ LeaseVerdict(core, g) = "accepted"
                          /\ core' = Extended(core, g)

(***************************************************************************)
(* Every step of the session advances in this sense.                       *)
(***************************************************************************)
LEMMA SessionAdvances == CoreInv /\ [SessionNext]_vars => Advances
<1>. SUFFICES ASSUME CoreInv, [SessionNext]_vars PROVE Advances
  OBVIOUS
<1>t. /\ Sound(core) /\ Sound(staged) /\ core \in Core
      /\ staged.applied = core.applied /\ staged.cumulative = core.cumulative
  <2>1. Sound(core) /\ Sound(staged) /\ core \in Core
    BY StagedSound DEF CoreInv, Sound
  <2>2. CASE call = Idle
    BY <2>1, <2>2 DEF CoreInv
  <2>3. CASE call # Idle
    BY <2>1, <2>3 DEF CoreInv, Admitted, IncrementRequest, IncrementExecution, Core
  <2>. QED
    BY <2>1, <2>2, <2>3
<1>1. CASE UNCHANGED <<core, issued>> /\ (authority.revoked => UNCHANGED authority)
  BY <1>1 DEF Advances
<1>2. ASSUME NEW d, d.tick > core.tick, d.applied = core.applied,
             d.cumulative = core.cumulative, core' = d, Active,
             UNCHANGED <<authority, issued>>
      PROVE  Advances
  BY <1>2 DEF Advances, Active
<1>3. ASSUME NEW reason \in ParseReason, RejectCommand(reason) PROVE Advances
  BY <1>1, <1>3 DEF RejectCommand, coreVars
<1>4. CASE RecordRetry
  <2>1. IncrementRetry(core).tick > core.tick
    BY <1>t, <1>4, RetrySound DEF RecordRetry
  <2>2. /\ IncrementRetry(core).applied = core.applied
        /\ IncrementRetry(core).cumulative = core.cumulative
    BY <1>t DEF IncrementRetry, Core
  <2>. QED
    BY <1>2, <1>4, <2>1, <2>2 DEF RecordRetry, Commit, Dispatchable
<1>5. CASE RefuseRetry
  BY <1>1, <1>5 DEF RefuseRetry, coreVars
<1>6. CASE ReadRefused
  BY <1>1, <1>6 DEF ReadRefused, coreVars
<1>7. ASSUME NEW transition \in Transition, ReadHit(transition) PROVE Advances
  <2>. DEFINE r == IncrementRequest(core)
              d == CommitCacheHit(r, transition)
  <2>1. Sound(r) /\ r.executions + r.cache_hits < r.requests /\ r.tick > core.tick
    BY <1>t, <1>7, RequestSound DEF ReadHit
  <2>2. r.applied = core.applied /\ r.cumulative = core.cumulative
    BY <1>t DEF IncrementRequest, Core
  <2>. HIDE DEF r
  <2>3. Sound(d) /\ d.tick > r.tick
    BY <2>1, HitSound
  <2>4. d.applied = r.applied /\ d.cumulative = r.cumulative
    BY <2>1 DEF CommitCacheHit, Sound, Core
  <2>5. d.tick > core.tick
    <3>1. d.tick \in Nat /\ r.tick \in Nat /\ core.tick \in Nat
      BY <1>t, <2>1, <2>3, SoundNumbers
    <3>. QED
      BY <2>1, <2>3, <3>1
  <2>6. core' = d /\ Active /\ UNCHANGED <<authority, issued>>
    BY <1>7 DEF ReadHit, Commit, Dispatchable, r
  <2>. HIDE DEF d
  <2>. QED
    BY <1>2, <2>2, <2>4, <2>5, <2>6
<1>8. ASSUME NEW key \in ToolKeys, ReadExhausted(key) PROVE Advances
  <2>1. IncrementRequest(core).tick > core.tick
    BY <1>t, <1>8, RequestSound DEF ReadExhausted
  <2>2. /\ IncrementRequest(core).applied = core.applied
        /\ IncrementRequest(core).cumulative = core.cumulative
    BY <1>t DEF IncrementRequest, Core
  <2>. QED
    BY <1>2, <1>8, <2>1, <2>2 DEF ReadExhausted, Commit, Dispatchable
<1>9. ASSUME NEW key \in ToolKeys, ReadInvokes(key) PROVE Advances
  BY <1>1, <1>9 DEF ReadInvokes
<1>10. ASSUME NEW observation \in Observations, ReadReturns(observation) PROVE Advances
  <2>. DEFINE t == <<call, observation>>
              d == CommitObservation(staged, t)
  <2>1. call # Idle /\ call \in ToolKeys
    BY <1>10 DEF ReadReturns, CoreInv, TypeOK
  <2>2. ~CacheFull(staged) /\ Cardinality(staged.cache) < staged.executions
          /\ staged.cache = core.cache /\ Cached(core, call) = {}
          /\ staged.tick > core.tick
    BY <2>1, StagedSound DEF CoreInv
  <2>3. t \in Transition
    BY <2>1 DEF Transition
  <2>4. t \notin staged.cache
    BY <2>2 DEF Cached
  <2>. HIDE DEF t
  <2>5. Sound(d) /\ d.tick > staged.tick
    BY <1>t, <2>2, <2>3, <2>4, ObservationSound
  <2>6. d.applied = staged.applied /\ d.cumulative = staged.cumulative
    BY <1>t DEF CommitObservation, Sound, Core
  <2>7. d.tick > core.tick
    <3>1. d.tick \in Nat /\ staged.tick \in Nat /\ core.tick \in Nat
      BY <1>t, <2>5, SoundNumbers
    <3>. QED
      BY <2>2, <2>5, <3>1
  <2>8. core' = d /\ Active /\ UNCHANGED <<authority, issued>>
    BY <1>10, <2>2 DEF ReadReturns, Commit, t
  <2>. HIDE DEF d
  <2>. QED
    BY <1>t, <1>2, <2>6, <2>7, <2>8
<1>11. ASSUME NEW reason \in CallbackReason, ReadFails(reason) PROVE Advances
  <2>1. staged.tick > core.tick
    BY <1>11, StagedSound DEF ReadFails
  <2>. QED
    BY <1>t, <1>2, <1>11, <2>1 DEF ReadFails, Commit
<1>12. CASE DispatchRaises
  BY <1>1, <1>12 DEF DispatchRaises, Commit
<1>13. CASE RevokeAll
  BY <1>1, <1>13 DEF RevokeAll, coreVars
<1>14. ASSUME NEW g \in Grant, IssueGrant(g) PROVE Advances
  BY <1>14 DEF IssueGrant, Dispatchable, Active, coreVars, Advances
<1>15. ASSUME NEW g \in Grant, ApplyLease(g) PROVE Advances
  <2>1. Extended(core, g).tick > core.tick
    BY <1>t, <1>15, LeaseSound DEF ApplyLease
  <2>. QED
    BY <1>15, <2>1 DEF ApplyLease, Dispatchable, Active, Commit, Advances
<1>16. ASSUME NEW g \in Grant, RefuseLease(g) PROVE Advances
  BY <1>1, <1>16 DEF RefuseLease, coreVars
<1>17. CASE UNCHANGED vars
  BY <1>1, <1>17 DEF vars
<1>. QED
  BY <1>3, <1>4, <1>5, <1>6, <1>7, <1>8, <1>9, <1>10, <1>11, <1>12, <1>13,
     <1>14, <1>15, <1>16, <1>17 DEF SessionNext

(***************************************************************************)
(* LedgerExact, entry by entry, becomes inductive with the fact that every *)
(* applied grant extended a state before the current one.                  *)
(***************************************************************************)
Before(s, i) == IF i = 1 THEN Zero ELSE s[i - 1].cumulative

EntryExact(s, i) ==
  /\ s[i].index = i
  /\ Within(s[i].granted, Schedule[i])
  /\ s[i].cumulative = Plus(Before(s, i), s[i].granted)
  /\ i > 1 => s[i - 1].prior < s[i].prior

LedgerInv ==
  /\ Len(core.applied) <= MaxLeases
  /\ \A i \in 1..Len(core.applied) : EntryExact(core.applied, i)
  /\ \A i \in 1..Len(core.applied) :
       core.applied[i] \in issued /\ core.applied[i].prior < core.tick
  /\ core.cumulative = Before(core.applied, Len(core.applied) + 1)

(***************************************************************************)
(* The inductive form says what LedgerExact says.                          *)
(***************************************************************************)
LEMMA LedgerInvExact == CoreInv /\ LedgerInv => LedgerExact
<1>. SUFFICES ASSUME CoreInv, LedgerInv PROVE LedgerExact
  OBVIOUS
<1>1. core.applied \in Seq(Grant) /\ Len(core.applied) \in Nat
  BY LenProperties DEF CoreInv, Sound, Core
<1>2. (core.applied = <<>>) <=> (Len(core.applied) = 0)
  BY <1>1, EmptySeq
<1>3. core.cumulative = IF core.applied = <<>> THEN Zero
                        ELSE core.applied[Len(core.applied)].cumulative
  BY <1>1, <1>2 DEF LedgerInv, Before
<1>. QED
  BY <1>1, <1>3 DEF LedgerInv, LedgerExact, EntryExact, Before

(***************************************************************************)
(* A fresh session has an empty ledger.                                    *)
(***************************************************************************)
LEMMA InitLedger == Init => LedgerInv
<1>. SUFFICES ASSUME Init PROVE LedgerInv
  OBVIOUS
<1>1. core.applied = <<>> /\ core.cumulative = Zero /\ Len(core.applied) = 0
  BY EmptySeq DEF Init, InitialCore
<1>2. MaxLeases \in Nat
  BY PolicyType, LenProperties DEF MaxLeases
<1>. QED
  BY <1>1, <1>2 DEF LedgerInv, Before

(***************************************************************************)
(* The ledger stays exact whatever the session does.                       *)
(***************************************************************************)
LEMMA NextLedger == CoreInv /\ LedgerInv /\ Advances /\ CoreInv' => LedgerInv'
<1>. SUFFICES ASSUME CoreInv, LedgerInv, Advances, CoreInv' PROVE LedgerInv'
  OBVIOUS
<1>. DEFINE s == core.applied
            n == Len(s)
<1>1. /\ core \in Core /\ s \in Seq(Grant) /\ n \in Nat /\ core.tick \in Nat
      /\ core'.tick \in Nat
  BY LenProperties DEF CoreInv, Sound, Core
<1>2. issued \subseteq issued'
  BY DEF Advances
<1>3. core'.tick >= core.tick
  BY <1>1 DEF Advances
<1>4. \A i \in 1..n : s[i] \in Grant /\ s[i].prior \in Nat
  <2>1. \A i \in 1..n : s[i] \in Grant
    BY <1>1, ElementOfSeq
  <2>2. \A g \in Grant : g.prior \in Nat
    BY DEF Grant
  <2>. QED
    BY <2>1, <2>2
<1>5. CASE UNCHANGED <<core.applied, core.cumulative>>
  <2>1. \A i \in 1..n : s[i] \in issued' /\ s[i].prior < core'.tick
    BY <1>1, <1>2, <1>3, <1>4 DEF LedgerInv
  <2>. QED
    BY <1>5, <2>1 DEF LedgerInv
<1>6. ASSUME NEW g \in issued, LeaseVerdict(core, g) = "accepted", core' = Extended(core, g)
      PROVE  LedgerInv'
  <2>. DEFINE l == Append(s, g)
  <2>1. /\ g.prior = core.tick /\ g.index = n + 1 /\ ~(g.index > Len(Schedule))
        /\ Within(g.granted, Schedule[g.index])
        /\ g.cumulative = Plus(core.cumulative, g.granted)
    BY <1>6, AcceptedGrant
  <2>2. g \in Grant
    BY <1>6 DEF CoreInv, TypeOK
  <2>3. /\ l \in Seq(Grant) /\ Len(l) = n + 1 /\ l[n + 1] = g
        /\ \A i \in 1..n : l[i] = s[i]
    BY <1>1, <2>2, AppendProperties
  <2>4. core'.applied = l /\ core'.cumulative = g.cumulative /\ core'.tick = core.tick + 1
    BY <1>1, <1>6 DEF Extended, Core
  <2>5. core.cumulative = Before(s, n + 1)
    BY DEF LedgerInv
  <2>. HIDE DEF l, n, s
  <2>6. \A i \in 1..(n + 1) : Before(l, i) = Before(s, i)
    BY <1>1, <2>3 DEF Before
  <2>7. ASSUME NEW i \in 1..(n + 1) PROVE EntryExact(l, i)
    <3>1. CASE i \in 1..n
      <4>1. EntryExact(s, i)
        BY <3>1 DEF LedgerInv, s, n
      <4>2. l[i] = s[i] /\ (i > 1 => l[i - 1] = s[i - 1])
        BY <1>1, <2>3, <3>1
      <4>. QED
        BY <2>6, <3>1, <4>1, <4>2 DEF EntryExact
    <3>2. CASE i = n + 1
      <4>1. l[i] = g /\ l[i].cumulative = Plus(Before(l, i), l[i].granted)
        BY <2>1, <2>3, <2>5, <2>6, <3>2
      <4>2. i > 1 => l[i - 1].prior < l[i].prior
        <5>1. CASE n > 0
          <6>1. n \in 1..n /\ l[i - 1] = s[n]
            BY <1>1, <2>3, <3>2, <5>1
          <6>2. s[n].prior < core.tick
            BY <6>1 DEF LedgerInv, s, n
          <6>. QED
            BY <2>1, <4>1, <6>1, <6>2
        <5>2. CASE n = 0
          BY <3>2, <5>2
        <5>. QED
          BY <1>1, <5>1, <5>2
      <4>. QED
        BY <2>1, <3>2, <4>1, <4>2 DEF EntryExact
    <3>. QED
      BY <1>1, <3>1, <3>2
  <2>8. \A i \in 1..(n + 1) : l[i] \in issued' /\ l[i].prior < core'.tick
    <3>1. \A i \in 1..n : s[i] \in issued /\ s[i].prior < core.tick /\ s[i].prior \in Nat
      BY <1>4 DEF LedgerInv, s, n
    <3>. QED
      BY <1>1, <1>2, <1>6, <2>1, <2>3, <2>4, <3>1, SMTT(30)
  <2>9. n + 1 <= MaxLeases
    <3>1. Len(Schedule) \in Nat
      BY PolicyType, LenProperties
    <3>. QED
      BY <1>1, <2>1, <3>1 DEF MaxLeases
  <2>10. g.cumulative = Before(l, Len(l) + 1)
    <3>1. Len(l) + 1 # 1 /\ (Len(l) + 1) - 1 = n + 1
      BY <1>1, <2>3
    <3>. QED
      BY <2>3, <3>1 DEF Before
  <2>. QED
    BY <2>3, <2>4, <2>7, <2>8, <2>9, <2>10 DEF LedgerInv
<1>. QED
  BY <1>5, <1>6 DEF Advances

-----------------------------------------------------------------------------
(* Receipts. *)

(***************************************************************************)
(* How a step moves the counters a receipt reports.                        *)
(***************************************************************************)
Moves(c, d, q, x, h, y, t) ==
  /\ d.requests = c.requests + q
  /\ d.executions = c.executions + x
  /\ d.cache_hits = c.cache_hits + h
  /\ d.retries = c.retries + y
  /\ d.tick = c.tick + t

(***************************************************************************)
(* A step that moves the counters so is accounted for so.                  *)
(***************************************************************************)
LEMMA MovesAccounting ==
  ASSUME Sound(core), NEW q \in Nat, NEW x \in Nat, NEW h \in Nat, NEW y \in Nat,
         NEW t \in Nat, Moves(core, core', q, x, h, y, t), t = 0 => core' = core
  PROVE  Accounting(q, x, h, y, t)
<1>1. /\ core.requests \in Nat /\ core.executions \in Nat /\ core.cache_hits \in Nat
      /\ core.retries \in Nat /\ core.tick \in Nat
  BY SoundNumbers
<1>2. (t = 0) = (core' = core)
  BY <1>1 DEF Moves
<1>. QED
  BY <1>1, <1>2 DEF Moves, Accounting

(***************************************************************************)
(* How the steps of dispatch_in_place move the counters.                   *)
(***************************************************************************)
LEMMA DispatchMoves ==
  ASSUME NEW c, c \in Core, NEW u
  PROVE  /\ Moves(c, c, 0, 0, 0, 0, 0)
         /\ Moves(c, IncrementRetry(c), 0, 0, 0, 1, 1)
         /\ Moves(c, IncrementRequest(c), 1, 0, 0, 0, 1)
         /\ Moves(c, CommitCacheHit(IncrementRequest(c), u), 1, 0, 1, 0, 2)
         /\ Moves(c, Admitted(c), 1, 1, 0, 0, 2)
         /\ Moves(c, CommitObservation(Admitted(c), u), 1, 1, 0, 0, 3)
         /\ Moves(c, Extended(c, u), 0, 0, 0, 0, 1)
<1>1. /\ c.requests \in Nat /\ c.executions \in Nat /\ c.cache_hits \in Nat
      /\ c.retries \in Nat /\ c.tick \in Nat
  BY DEF Core
<1>2. Moves(c, c, 0, 0, 0, 0, 0)
  BY <1>1 DEF Moves
<1>3. Moves(c, IncrementRetry(c), 0, 0, 0, 1, 1)
  BY <1>1 DEF Moves, IncrementRetry, Core
<1>. DEFINE d == IncrementRequest(c)
            e == IncrementExecution(d)
<1>4. d \in Core /\ Moves(c, d, 1, 0, 0, 0, 1)
  <2>1. c.requests + 1 \in Nat /\ c.tick + 1 \in Nat
    BY <1>1
  <2>2. d \in Core
    BY <2>1 DEF IncrementRequest, Core
  <2>. QED
    BY <1>1, <2>2, SMTT(30) DEF Moves, IncrementRequest, Core
<1>. HIDE DEF d
<1>5. Moves(c, CommitCacheHit(d, u), 1, 0, 1, 0, 2)
  <2>1. /\ CommitCacheHit(d, u).requests = d.requests
        /\ CommitCacheHit(d, u).executions = d.executions
        /\ CommitCacheHit(d, u).cache_hits = d.cache_hits + 1
        /\ CommitCacheHit(d, u).retries = d.retries
        /\ CommitCacheHit(d, u).tick = d.tick + 1
    BY <1>4 DEF CommitCacheHit, Core
  <2>. QED
    BY <1>1, <1>4, <2>1 DEF Moves
<1>6. e \in Core /\ Moves(c, e, 1, 1, 0, 0, 2)
  <2>1. d.executions + 1 \in Nat /\ d.tick + 1 \in Nat
    BY <1>4, SMTT(30) DEF Core
  <2>2. /\ e.requests = d.requests /\ e.executions = d.executions + 1
        /\ e.cache_hits = d.cache_hits /\ e.retries = d.retries /\ e.tick = d.tick + 1
    BY <1>4 DEF IncrementExecution, Core
  <2>3. e \in Core
    BY <1>4, <2>1 DEF IncrementExecution, Core
  <2>. QED
    BY <1>1, <1>4, <2>2, <2>3 DEF Moves
<1>. HIDE DEF e
<1>7. Moves(c, CommitObservation(e, u), 1, 1, 0, 0, 3)
  <2>1. /\ CommitObservation(e, u).requests = e.requests
        /\ CommitObservation(e, u).executions = e.executions
        /\ CommitObservation(e, u).cache_hits = e.cache_hits
        /\ CommitObservation(e, u).retries = e.retries
        /\ CommitObservation(e, u).tick = e.tick + 1
    BY <1>6 DEF CommitObservation, Core
  <2>. QED
    BY <1>1, <1>6, <2>1 DEF Moves
<1>8. Moves(c, Extended(c, u), 0, 0, 0, 0, 1)
  BY <1>1 DEF Moves, Extended, Core
<1>. QED
  BY <1>2, <1>3, <1>4, <1>5, <1>6, <1>7, <1>8 DEF d, e, Admitted

(***************************************************************************)
(* What the receipt of an accepted lease must say.                         *)
(***************************************************************************)
LEMMA LeaseReceipt ==
  ASSUME CoreInv, NEW g \in Grant, LeaseVerdict(core, g) = "accepted",
         core' = Extended(core, g), outcome'.status = "accepted"
  PROVE  LeaseReceiptAccounting(outcome')
<1>. DEFINE s == core.applied
<1>1. /\ Sound(core) /\ core \in Core /\ s \in Seq(Grant) /\ Leased(core)
      /\ core.cumulative \in Vector
  BY DEF CoreInv, Sound, Core
<1>2. /\ core'.applied = Append(s, g) /\ core'.cumulative = g.cumulative
      /\ core'.limits = [r \in RuntimeResource |-> Initial[r] + g.cumulative[r]]
  BY <1>1 DEF Extended, Core
<1>3. core'.applied[Len(core'.applied)] = g
  BY <1>1, <1>2, AppendProperties
<1>4. g.granted # Zero
  BY DEF LeaseVerdict
<1>5. /\ g.granted["mutations"] = 0 /\ g.cumulative = Plus(core.cumulative, g.granted)
      /\ Within(Plus(Initial, g.cumulative), TotalCeiling)
  BY AcceptedGrant
<1>6. g.granted \in Vector /\ g.cumulative \in Vector
  BY DEF Grant
<1>7. \A r \in Resource : /\ g.cumulative[r] = core.cumulative[r] + g.granted[r]
                          /\ core.cumulative[r] \in Nat /\ g.granted[r] \in Nat
                          /\ g.cumulative[r] \in Nat
                          /\ Initial[r] \in Nat /\ TotalCeiling[r] \in Nat
                          /\ Initial[r] + g.cumulative[r] <= TotalCeiling[r]
  <2>1. \A r \in Resource : /\ core.cumulative[r] \in Nat /\ g.granted[r] \in Nat
                            /\ g.cumulative[r] \in Nat
                            /\ Initial[r] \in Nat /\ TotalCeiling[r] \in Nat
    BY <1>1, <1>6, PolicyType DEF Vector
  <2>2. \A r \in Resource : g.cumulative[r] = core.cumulative[r] + g.granted[r]
    BY <1>5 DEF Plus
  <2>3. \A r \in Resource : Initial[r] + g.cumulative[r] <= TotalCeiling[r]
    BY <1>5 DEF Within, Plus
  <2>. QED
    BY <2>1, <2>2, <2>3
<1>8. Within(g.granted, g.cumulative) /\ Within(g.cumulative, TotalCeiling)
  BY <1>7 DEF Within
<1>9. ASSUME NEW r \in RuntimeResource PROVE core'.limits[r] = core.limits[r] + g.granted[r]
  <2>1. r \in Resource /\ core'.limits[r] = Initial[r] + g.cumulative[r]
    BY <1>2, Resources
  <2>2. core.limits[r] = Initial[r] + core.cumulative[r]
    BY <1>1 DEF Leased
  <2>. QED
    BY <1>7, <2>1, <2>2
<1>10. LimitsValid(core'.limits)
  <2>1. Sound(Extended(core, g))
    BY <1>1, LeaseSound
  <2>. QED
    BY <2>1 DEF Sound, Leased
<1>11. Accounting(0, 0, 0, 0, 1)
  BY <1>1, DispatchMoves, MovesAccounting
<1>. QED
  BY <1>2, <1>3, <1>4, <1>5, <1>8, <1>9, <1>10, <1>11 DEF LeaseReceiptAccounting

(***************************************************************************)
(* The facade admits the lease ledger of every reachable core.             *)
(***************************************************************************)
LEMMA SnapshotAdmitted ==
  CoreInv /\ LedgerInv /\ ContinuationEnabled => ContinuationSnapshotAdmitted(core)
<1>. SUFFICES ASSUME CoreInv, LedgerInv, ContinuationEnabled
              PROVE  ContinuationSnapshotAdmitted(core)
  OBVIOUS
<1>1. /\ core.applied \in Seq(Grant) /\ DOMAIN core.applied = 1..Len(core.applied)
      /\ Leased(core) /\ core.cumulative \in Vector
  BY LenProperties DEF CoreInv, Sound, Core
<1>2. \A i \in DOMAIN core.applied : core.applied[i].index = i
  BY <1>1 DEF LedgerInv, EntryExact
<1>3. \A i, j \in DOMAIN core.applied : core.applied[i] = core.applied[j] => i = j
  BY <1>2
<1>4. \A r \in Resource : /\ core.cumulative[r] \in Nat /\ Initial[r] \in Nat
                          /\ TotalCeiling[r] \in Nat
                          /\ Initial[r] + core.cumulative[r] <= TotalCeiling[r]
  <2>1. \A r \in Resource : /\ core.cumulative[r] \in Nat /\ Initial[r] \in Nat
                            /\ TotalCeiling[r] \in Nat
    BY <1>1, PolicyType DEF Vector
  <2>2. \A r \in Resource : Initial[r] + core.cumulative[r] <= TotalCeiling[r]
    BY <1>1 DEF Leased, Within, Plus
  <2>. QED
    BY <2>1, <2>2
<1>5. Within(core.cumulative, TotalCeiling)
  BY <1>4 DEF Within
<1>. QED
  BY <1>1, <1>3, <1>5, PolicyAssumption DEF LedgerInv, Leased, ContinuationSnapshotAdmitted

(***************************************************************************)
(* What a receipt the facade looks at must say of the step.                *)
(***************************************************************************)
Reported ==
  Replied /\ outcome'.status \in {"accepted", "rejected"}
  => IF outcome'.command = "apply_lease"
     THEN LeaseReceiptAccounting(outcome') ELSE ReceiptAccounting(outcome')

(***************************************************************************)
(* The receipt of every dispatch accounts for the change it reports.       *)
(***************************************************************************)
LEMMA SessionReported == CoreInv /\ [SessionNext]_vars => Reported
<1>. SUFFICES ASSUME CoreInv, [SessionNext]_vars PROVE Reported
  OBVIOUS
<1>t. Sound(core) /\ core \in Core
  BY DEF CoreInv, Sound
<1>u. core' = core => Accounting(0, 0, 0, 0, 0)
  BY <1>t, DispatchMoves, MovesAccounting
<1>1. ASSUME NEW reason \in ParseReason, RejectCommand(reason) PROVE Reported
  <2>1. /\ core' = core /\ outcome'.command = "unparsed" /\ outcome'.status = "rejected"
        /\ outcome'.reason = reason
    BY <1>1 DEF RejectCommand, Reply, coreVars
  <2>. QED
    BY <1>u, <2>1 DEF Reported, ReceiptAccounting, ParseReason, CallbackReason
<1>2. CASE RecordRetry
  <2>1. /\ core' = IncrementRetry(core) /\ outcome'.command = "record_retry"
        /\ outcome'.status = "accepted" /\ outcome'.reason = "none"
    BY <1>2 DEF RecordRetry, Reply, Commit
  <2>2. Accounting(0, 0, 0, 1, 1)
    BY <1>t, <2>1, DispatchMoves, MovesAccounting
  <2>. QED
    BY <2>1, <2>2 DEF Reported, ReceiptAccounting, CallbackReason
<1>3. CASE RefuseRetry
  <2>1. /\ core' = core /\ outcome'.command = "record_retry" /\ outcome'.status = "rejected"
        /\ outcome'.reason = "retry_budget"
    BY <1>3 DEF RefuseRetry, Reply, coreVars
  <2>. QED
    BY <1>u, <2>1 DEF Reported, ReceiptAccounting, CallbackReason
<1>4. CASE ReadRefused
  <2>1. /\ core' = core /\ outcome'.command = "execute_read" /\ outcome'.status = "rejected"
        /\ outcome'.reason = "request_budget"
    BY <1>4 DEF ReadRefused, Reply, coreVars
  <2>. QED
    BY <1>u, <2>1 DEF Reported, ReceiptAccounting, CallbackReason
<1>5. ASSUME NEW transition \in Transition, ReadHit(transition) PROVE Reported
  <2>1. /\ core' = CommitCacheHit(IncrementRequest(core), transition)
        /\ outcome'.command = "execute_read" /\ outcome'.status = "accepted"
        /\ outcome'.reason = "cache_hit"
    BY <1>5 DEF ReadHit, Reply, Commit
  <2>2. Accounting(1, 0, 1, 0, 2)
    BY <1>t, <2>1, DispatchMoves, MovesAccounting
  <2>. QED
    BY <2>1, <2>2 DEF Reported, ReceiptAccounting, CallbackReason
<1>6. ASSUME NEW key \in ToolKeys, ReadExhausted(key) PROVE Reported
  <2>1. /\ core' = IncrementRequest(core) /\ outcome'.command = "execute_read"
        /\ outcome'.status = "rejected" /\ outcome'.reason = "execution_budget"
    BY <1>6 DEF ReadExhausted, Reply, Commit
  <2>2. Accounting(1, 0, 0, 0, 1)
    BY <1>t, <2>1, DispatchMoves, MovesAccounting
  <2>. QED
    BY <2>1, <2>2 DEF Reported, ReceiptAccounting, CallbackReason
<1>7. ASSUME NEW observation \in Observations, ReadReturns(observation) PROVE Reported
  <2>1. call # Idle /\ ~CacheFull(staged) /\ staged = Admitted(core)
    BY <1>7, StagedSound DEF ReadReturns, CoreInv
  <2>2. /\ core' = CommitObservation(Admitted(core), <<call, observation>>)
        /\ outcome'.command = "execute_read" /\ outcome'.status = "accepted"
        /\ outcome'.reason = "cold_execution"
    BY <1>7, <2>1 DEF ReadReturns, Reply, Commit
  <2>3. Accounting(1, 1, 0, 0, 3)
    BY <1>t, <2>2, DispatchMoves, MovesAccounting
  <2>. QED
    BY <2>2, <2>3 DEF Reported, ReceiptAccounting, CallbackReason
<1>8. ASSUME NEW reason \in CallbackReason, ReadFails(reason) PROVE Reported
  <2>1. /\ core' = Admitted(core) /\ outcome'.command = "execute_read"
        /\ outcome'.status = "rejected" /\ outcome'.reason = reason
    BY <1>8 DEF ReadFails, Reply, Commit, CoreInv
  <2>2. Accounting(1, 1, 0, 0, 2)
    BY <1>t, <2>1, DispatchMoves, MovesAccounting
  <2>. QED
    BY <2>1, <2>2 DEF Reported, ReceiptAccounting, CallbackReason
<1>9. CASE DispatchRaises
  BY <1>9 DEF DispatchRaises, Reply, Reported
<1>10. ASSUME NEW g \in Grant, ApplyLease(g) PROVE Reported
  <2>1. /\ LeaseVerdict(core, g) = "accepted" /\ core' = Extended(core, g)
        /\ outcome'.command = "apply_lease" /\ outcome'.status = "accepted"
    BY <1>10 DEF ApplyLease, Reply, Commit
  <2>. QED
    BY <2>1, LeaseReceipt DEF Reported
<1>11. ASSUME NEW g \in Grant, RefuseLease(g) PROVE Reported
  <2>1. LeaseVerdict(core, g) \in LeaseReason \cup {"accepted"}
    BY DEF LeaseVerdict, LeaseReason
  <2>2. /\ core' = core /\ outcome'.command = "apply_lease" /\ outcome'.status = "rejected"
        /\ outcome'.reason \in LeaseReason
    BY <1>11, <2>1 DEF RefuseLease, Reply, coreVars, LeaseReason
  <2>. QED
    BY <1>u, <2>2 DEF Reported, LeaseReceiptAccounting
<1>12. CASE UNCHANGED <<core, outcome>>
  BY <1>12 DEF Reported, Replied
<1>13. ASSUME NEW key \in ToolKeys, ReadInvokes(key) PROVE Reported
  BY <1>12, <1>13 DEF ReadInvokes
<1>14. CASE RevokeAll
  BY <1>12, <1>14 DEF RevokeAll, coreVars
<1>15. ASSUME NEW g \in Grant, IssueGrant(g) PROVE Reported
  BY <1>12, <1>15 DEF IssueGrant, coreVars
<1>16. CASE UNCHANGED vars
  BY <1>12, <1>16 DEF vars
<1>. QED
  BY <1>1, <1>2, <1>3, <1>4, <1>5, <1>6, <1>7, <1>8, <1>9, <1>10, <1>11, <1>13, <1>14,
     <1>15, <1>16 DEF SessionNext

-----------------------------------------------------------------------------
(* The theorems. *)

(***************************************************************************)
(* The invariant holds of every reachable state.                           *)
(***************************************************************************)
THEOREM CoreInvariant == Spec => [](CoreInv /\ LedgerInv)
<1>1. Init => CoreInv /\ LedgerInv
  BY InitCoreInv, InitLedger
<1>2. CoreInv /\ LedgerInv /\ [Next]_vars => CoreInv' /\ LedgerInv'
  BY NextSession, SessionCoreInv, SessionAdvances, NextLedger
<1>. QED
  BY <1>1, <1>2, PTL DEF Spec

(***************************************************************************)
(* Every variable of the session keeps its type.                           *)
(***************************************************************************)
THEOREM TypeCorrect == Spec => []TypeOK
<1>1. CoreInv => TypeOK
  BY DEF CoreInv
<1>. QED
  BY <1>1, CoreInvariant, PTL

(***************************************************************************)
(* No counter, history or cache ever passes its limit, in the committed    *)
(* core or in the candidate of a dispatch (increment_request,              *)
(* increment_execution, increment_retry, append_history).                  *)
(***************************************************************************)
THEOREM BudgetSafety == Spec => []BudgetsRespected
<1>1. CoreInv => BudgetsRespected
  BY StagedSound DEF CoreInv, Sound, BudgetsRespected
<1>. QED
  BY <1>1, CoreInvariant, PTL

(***************************************************************************)
(* Every snapshot the native core exports satisfies the tick equation of   *)
(* RuntimeSnapshot.from_record.                                            *)
(***************************************************************************)
THEOREM TickSafety == Spec => []TickAccounting
<1>1. CoreInv => TickAccounting
  BY DEF CoreInv, Sound, TickAccounting
<1>. QED
  BY <1>1, CoreInvariant, PTL

(***************************************************************************)
(* The capacity check of commit_observation never discards the observation *)
(* of a tool that was invoked.                                             *)
(***************************************************************************)
THEOREM RoomSafety == Spec => []ObservationHasRoom
<1>1. CoreInv => ObservationHasRoom
  BY StagedSound DEF ObservationHasRoom
<1>. QED
  BY <1>1, CoreInvariant, PTL

(***************************************************************************)
(* The limits are at all times the initial budget plus the applied leases, *)
(* within the total ceiling of the policy and the hard limits.             *)
(***************************************************************************)
THEOREM LimitSafety == Spec => []LimitsFollowLeases
<1>1. CoreInv => LimitsFollowLeases
  BY DEF CoreInv, Sound, Leased, LimitsFollowLeases
<1>. QED
  BY <1>1, CoreInvariant, PTL

(***************************************************************************)
(* The lease ledger is the schedule's in order, each entry sealed, no      *)
(* entry skipped or replayed.                                              *)
(***************************************************************************)
THEOREM LedgerSafety == Spec => []LedgerExact
BY LedgerInvExact, CoreInvariant, PTL

(***************************************************************************)
(* No committed state is ever revisited: state ids are never reused.       *)
(***************************************************************************)
THEOREM FreshStates == Spec => StateIdFresh
<1>1. CoreInv /\ [Next]_vars => [core' # core => core'.tick > core.tick]_vars
  BY NextSession, SessionAdvances DEF Advances
<1>. QED
  BY <1>1, CoreInvariant, PTL DEF Spec, StateIdFresh

(***************************************************************************)
(* Revocation is terminal and freezes the core even under a callback that  *)
(* was running when it happened.                                           *)
(***************************************************************************)
THEOREM RevocationFreezes == Spec => RevokedFrozen
<1>1. CoreInv /\ [Next]_vars
        => [authority.revoked => UNCHANGED <<core, issued, authority>>]_vars
  BY NextSession, SessionAdvances DEF Advances
<1>. QED
  BY <1>1, CoreInvariant, PTL DEF Spec, RevokedFrozen

(***************************************************************************)
(* Every receipt the facade checks (RuntimeReceipt,                        *)
(* RuntimeLeaseApplicationReceipt) accounts exactly for the step it        *)
(* reports, and the snapshot taken afterwards is admitted.                 *)
(***************************************************************************)
THEOREM ReceiptSafety == Spec => ReceiptsExact
<1>1. /\ CoreInv /\ LedgerInv /\ [Next]_vars
      => [Replied /\ outcome'.status \in {"accepted", "rejected"}
          => /\ IF outcome'.command = "apply_lease"
                THEN LeaseReceiptAccounting(outcome') ELSE ReceiptAccounting(outcome')
             /\ ContinuationEnabled => ContinuationSnapshotAdmitted(core')]_vars
  <2>. SUFFICES ASSUME CoreInv, LedgerInv, [Next]_vars,
                       Replied /\ outcome'.status \in {"accepted", "rejected"}
                PROVE  /\ IF outcome'.command = "apply_lease"
                          THEN LeaseReceiptAccounting(outcome')
                          ELSE ReceiptAccounting(outcome')
                       /\ ContinuationEnabled => ContinuationSnapshotAdmitted(core')
    OBVIOUS
  <2>1. Reported
    BY NextSession, SessionReported
  <2>2. CoreInv' /\ LedgerInv'
    BY NextSession, SessionCoreInv, SessionAdvances, NextLedger
  <2>3. (CoreInv /\ LedgerInv /\ ContinuationEnabled => ContinuationSnapshotAdmitted(core))'
    BY SnapshotAdmitted, PTL
  <2>4. ContinuationEnabled => ContinuationSnapshotAdmitted(core')
    BY <2>2, <2>3
  <2>. QED
    BY <2>1, <2>4 DEF Reported
<1>. QED
  BY <1>1, CoreInvariant, PTL DEF Spec, ReceiptsExact
=============================================================================
