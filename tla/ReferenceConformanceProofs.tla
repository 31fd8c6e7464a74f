---------------------- MODULE ReferenceConformanceProofs ----------------------
(***************************************************************************)
(* The Python reference executor and the native runtime take the same      *)
(* transitions, for every budget, every set of tool keys and every script. *)
(*                                                                         *)
(* SameTransition needs the invariant of the native core (a candidate is   *)
(* the core with one request and one execution admitted) and one fact more:*)
(* the cache holds at most one observation for a tool key, so the entry    *)
(* the reference looks up is the one the native core replays.              *)
(***************************************************************************)
EXTENDS ReferenceConformance, RuntimeCoreProofs

OneEntryPerKey(cache) == \A s, t \in cache : s[1] = t[1] => s = t

(***************************************************************************)
(* How the answers of the two relate.                                      *)
(***************************************************************************)
SameAnswer ==
  /\ (call # Idle) = (answer = "operation")
  /\ call = Idle =>
       /\ (outcome.status = "accepted") = (answer = "returned")
       /\ (outcome.reason \in BudgetReason) = (answer = "budget_exceeded")

ConformanceInv ==
  /\ CoreInv
  /\ Active
  /\ OneEntryPerKey(core.cache)
  /\ reference = ExecutionState(staged)
  /\ SameAnswer

-----------------------------------------------------------------------------
(* Facts about the operators. *)

(***************************************************************************)
(* Slicing the last limit entries off the whole history (Python) and       *)
(* dropping the oldest entry at the limit (Rust) leave the same history,   *)
(* as long as the history is within its limit.                             *)
(***************************************************************************)
LEMMA SliceAppends ==
  ASSUME NEW S, NEW h \in Seq(S), NEW limit \in Nat, limit > 0, Len(h) <= limit,
         NEW t \in S
  PROVE  LET whole == Append(h, t)
             first == IF Len(whole) > limit THEN Len(whole) - limit + 1 ELSE 1
         IN  SubSeq(whole, first, Len(whole)) = AppendHistory(h, limit, t)
<1>. DEFINE whole == Append(h, t)
<1>1. /\ whole \in Seq(S) /\ whole # <<>> /\ Len(whole) = Len(h) + 1
  BY AppendProperties
<1>2. Len(h) \in Nat
  BY LenProperties
<1>3. CASE Len(h) = limit
  <2>1. h # <<>>
    BY <1>3, EmptySeq
  <2>2. Tail(whole) = Append(Tail(h), t)
    BY <2>1, HeadTailAppend
  <2>3. Tail(whole) = SubSeq(whole, 2, Len(whole))
    BY <1>1, TailIsSubSeq
  <2>4. Len(whole) > limit /\ Len(whole) - limit + 1 = 2
    BY <1>1, <1>2, <1>3
  <2>5. AppendHistory(h, limit, t) = Append(Tail(h), t)
    BY <1>3 DEF AppendHistory
  <2>. HIDE DEF whole
  <2>6. SubSeq(whole, IF Len(whole) > limit THEN Len(whole) - limit + 1 ELSE 1, Len(whole))
          = AppendHistory(h, limit, t)
    BY <2>2, <2>3, <2>4, <2>5
  <2>. QED
    BY <2>6 DEF whole
<1>4. CASE Len(h) # limit
  <2>1. ~(Len(whole) > limit)
    BY <1>1, <1>2, <1>4
  <2>2. SubSeq(whole, 1, Len(whole)) = whole
    BY <1>1, SubSeqFull
  <2>3. AppendHistory(h, limit, t) = whole
    BY <1>4 DEF AppendHistory
  <2>. HIDE DEF whole
  <2>4. SubSeq(whole, IF Len(whole) > limit THEN Len(whole) - limit + 1 ELSE 1, Len(whole))
          = AppendHistory(h, limit, t)
    BY <2>1, <2>2, <2>3
  <2>. QED
    BY <2>4 DEF whole
<1>. QED
  BY <1>3, <1>4

(***************************************************************************)
(* A slice within a history: its length and its entries.                   *)
(***************************************************************************)
LEMMA SliceWithin ==
  ASSUME NEW S, NEW h \in Seq(S), NEW a \in Nat, NEW p \in Nat,
         a + p <= Len(h), p > 0
  PROVE  LET slice == SubSeq(h, a + 1, a + p)
         IN  /\ slice \in Seq(S) /\ Len(slice) = p
             /\ \A i \in 1..p : slice[i] = h[a + i]
<1>. DEFINE x == a + 1
            y == a + p
<1>1. Len(h) \in Nat /\ \A i \in 1..Len(h) : h[i] \in S
  BY LenProperties, ElementOfSeq
<1>2. x \in Int /\ y \in Int /\ x <= y /\ y - x + 1 = p
  OBVIOUS
<1>3. \A i \in x..y : h[i] \in S
  BY <1>1
<1>4. \A i \in 1..p : x + i - 1 = a + i
  OBVIOUS
<1>. HIDE DEF x, y
<1>5. /\ SubSeq(h, x, y) \in Seq(S) /\ Len(SubSeq(h, x, y)) = y - x + 1
      /\ \A i \in 1..(y - x + 1) : SubSeq(h, x, y)[i] = h[x + i - 1]
  BY <1>2, <1>3, SubSeqProperties
<1>6. \A i \in 1..p : SubSeq(h, x, y)[i] = h[a + i]
  BY <1>2, <1>4, <1>5
<1>. QED
  BY <1>2, <1>5, <1>6 DEF x, y

(***************************************************************************)
(* Comparing two slices is comparing their entries.                        *)
(***************************************************************************)
LEMMA SlicesRepeat ==
  ASSUME NEW S, NEW h \in Seq(S), NEW p \in 1..3
  PROVE  Repeated(h, p) <=> RepeatsWith(h, p)
<1>. DEFINE n == Len(h)
            early == SubSeq(h, n - 2 * p + 1, n - p)
            late == SubSeq(h, n - p + 1, n)
<1>1. n \in Nat /\ p \in Nat /\ p > 0
  BY LenProperties
<1>2. CASE ~(n >= 2 * p)
  BY <1>2 DEF Repeated, RepeatsWith
<1>3. CASE n >= 2 * p
  <2>. DEFINE a == n - 2 * p
              b == n - p
  <2>1. /\ a \in Nat /\ a + p <= n /\ a + p = n - p
        /\ b \in Nat /\ b + p <= n /\ b + p = n
    BY <1>1, <1>3
  <2>. HIDE DEF a, b
  <2>2. /\ SubSeq(h, a + 1, a + p) \in Seq(S) /\ Len(SubSeq(h, a + 1, a + p)) = p
        /\ \A i \in 1..p : SubSeq(h, a + 1, a + p)[i] = h[a + i]
    BY <1>1, <2>1, SliceWithin
  <2>3. /\ SubSeq(h, b + 1, b + p) \in Seq(S) /\ Len(SubSeq(h, b + 1, b + p)) = p
        /\ \A i \in 1..p : SubSeq(h, b + 1, b + p)[i] = h[b + i]
    BY <1>1, <2>1, SliceWithin
  <2>4. early = SubSeq(h, a + 1, a + p) /\ late = SubSeq(h, b + 1, b + p)
    BY <2>1 DEF a, b
  <2>. HIDE DEF early, late
  <2>5. /\ early \in Seq(S) /\ Len(early) = p
        /\ late \in Seq(S) /\ Len(late) = p
    BY <2>2, <2>3, <2>4
  <2>6. \A i \in 1..p : early[i] = h[a + i] /\ late[i] = h[b + i]
    BY <2>2, <2>3, <2>4
  <2>7. (\A i \in 1..p : early[i] = late[i]) => early = late
    BY <2>5, SeqEqual
  <2>8. early = late <=> \A i \in 1..p : h[a + i] = h[b + i]
    BY <2>6, <2>7
  <2>9. Repeated(h, p) <=> early = late
    BY <1>3 DEF Repeated, early, late, n
  <2>10. RepeatsWith(h, p) <=> \A i \in 1..p : h[a + i] = h[b + i]
    BY <1>3 DEF RepeatsWith, n, a, b
  <2>. QED
    BY <2>8, <2>9, <2>10
<1>. QED
  BY <1>2, <1>3

(***************************************************************************)
(* The two cycle detectors agree on every history.                         *)
(***************************************************************************)
LEMMA DetectorsAgree ==
  ASSUME NEW S, NEW h \in Seq(S)
  PROVE  TerminalCyclePeriod(h) = DetectShortCycle(h)
<1>. DEFINE A(p) == Repeated(h, p)
            B(p) == RepeatsWith(h, p)
            Least(p) == B(p) /\ \A q \in 1..(p - 1) : ~B(q)
<1>1. \A p \in 1..3 : A(p) <=> B(p)
  BY SlicesRepeat
<1>2. TerminalCyclePeriod(h) = IF \E p \in 1..3 : B(p)
                               THEN CHOOSE p \in 1..3 : Least(p) ELSE 0
  BY DEF TerminalCyclePeriod, MaxCyclePeriod
<1>3. DetectShortCycle(h) = CASE A(1) -> 1
                              [] ~A(1) /\ A(2) -> 2
                              [] ~A(1) /\ ~A(2) /\ A(3) -> 3
                              [] OTHER -> 0
  BY DEF DetectShortCycle
<1>. HIDE DEF A, B
<1>4. 1 \in 1..3 /\ 2 \in 1..3 /\ 3 \in 1..3
  OBVIOUS
<1>5. CASE A(1)
  <2>1. Least(1) /\ \A p \in 1..3 : Least(p) => p = 1
    BY <1>1, <1>4, <1>5
  <2>. HIDE DEF Least
  <2>. QED
    BY <1>1, <1>2, <1>3, <1>4, <1>5, <2>1
<1>6. CASE ~A(1) /\ A(2)
  <2>1. Least(2) /\ \A p \in 1..3 : Least(p) => p = 2
    BY <1>1, <1>4, <1>6
  <2>. HIDE DEF Least
  <2>. QED
    BY <1>1, <1>2, <1>3, <1>4, <1>6, <2>1
<1>7. CASE ~A(1) /\ ~A(2) /\ A(3)
  <2>1. Least(3) /\ \A p \in 1..3 : Least(p) => p = 3
    BY <1>1, <1>4, <1>7
  <2>. HIDE DEF Least
  <2>. QED
    BY <1>1, <1>2, <1>3, <1>4, <1>7, <2>1
<1>8. CASE ~A(1) /\ ~A(2) /\ ~A(3)
  <2>1. \A p \in 1..3 : ~B(p)
    BY <1>1, <1>8
  <2>. QED
    BY <1>2, <1>3, <1>8, <2>1
<1>. QED
  BY <1>5, <1>6, <1>7, <1>8

-----------------------------------------------------------------------------
(* The steps of the two executors correspond. *)

(***************************************************************************)
(* Counting a request, an execution or a retry commutes with reading the   *)
(* reference's state off a native core.                                    *)
(***************************************************************************)
LEMMA CountersCommute ==
  ASSUME NEW c \in Core
  PROVE  /\ ExecutionState(IncrementRequest(c)) = Requested(ExecutionState(c))
         /\ ExecutionState(IncrementExecution(c)) = Executing(ExecutionState(c))
         /\ ExecutionState(IncrementRetry(c))
              = [ExecutionState(c) EXCEPT !.retries = @ + 1]
<1>1. ExecutionState(IncrementRequest(c)) = Requested(ExecutionState(c))
  <2>. DEFINE d == IncrementRequest(c)
  <2>1. /\ d.requests = c.requests + 1 /\ d.executions = c.executions
        /\ d.cache_hits = c.cache_hits /\ d.retries = c.retries
        /\ d.history = c.history /\ d.cache = c.cache
    BY DEF IncrementRequest, Core
  <2>2. Requested(ExecutionState(c))
          = [requests |-> c.requests + 1, executions |-> c.executions,
             cache_hits |-> c.cache_hits, retries |-> c.retries,
             history |-> c.history, cache |-> c.cache]
    BY DEF ExecutionState, Requested
  <2>. HIDE DEF d
  <2>3. ExecutionState(d) = Requested(ExecutionState(c))
    BY <2>1, <2>2 DEF ExecutionState
  <2>. QED
    BY <2>3 DEF d
<1>2. ExecutionState(IncrementExecution(c)) = Executing(ExecutionState(c))
  <2>. DEFINE d == IncrementExecution(c)
  <2>1. /\ d.requests = c.requests /\ d.executions = c.executions + 1
        /\ d.cache_hits = c.cache_hits /\ d.retries = c.retries
        /\ d.history = c.history /\ d.cache = c.cache
    BY DEF IncrementExecution, Core
  <2>2. Executing(ExecutionState(c))
          = [requests |-> c.requests, executions |-> c.executions + 1,
             cache_hits |-> c.cache_hits, retries |-> c.retries,
             history |-> c.history, cache |-> c.cache]
    BY DEF ExecutionState, Executing
  <2>. HIDE DEF d
  <2>3. ExecutionState(d) = Executing(ExecutionState(c))
    BY <2>1, <2>2 DEF ExecutionState
  <2>. QED
    BY <2>3 DEF d
<1>3. ExecutionState(IncrementRetry(c)) = [ExecutionState(c) EXCEPT !.retries = @ + 1]
  <2>. DEFINE d == IncrementRetry(c)
  <2>1. /\ d.requests = c.requests /\ d.executions = c.executions
        /\ d.cache_hits = c.cache_hits /\ d.retries = c.retries + 1
        /\ d.history = c.history /\ d.cache = c.cache
    BY DEF IncrementRetry, Core
  <2>2. [ExecutionState(c) EXCEPT !.retries = @ + 1]
          = [requests |-> c.requests, executions |-> c.executions,
             cache_hits |-> c.cache_hits, retries |-> c.retries + 1,
             history |-> c.history, cache |-> c.cache]
    BY DEF ExecutionState
  <2>. HIDE DEF d
  <2>3. ExecutionState(d) = [ExecutionState(c) EXCEPT !.retries = @ + 1]
    BY <2>1, <2>2 DEF ExecutionState
  <2>. QED
    BY <2>3 DEF d
<1>. QED
  BY <1>1, <1>2, <1>3

(***************************************************************************)
(* So do answering from the cache and storing an observation, as long as   *)
(* the history is within the limit the two share.                          *)
(***************************************************************************)
LEMMA HistoryCommutes ==
  ASSUME NEW c, Sound(c), c.limits = core.limits, NEW t \in Transition
  PROVE  /\ ExecutionState(CommitCacheHit(c, t)) = Hit(ExecutionState(c), t)
         /\ ExecutionState(CommitObservation(c, t)) = Observed(ExecutionState(c), t)
<1>. DEFINE new == AppendHistory(c.history, c.limits["history"], t)
            whole == Append(c.history, t)
            first == IF Len(whole) > core.limits["history"]
                     THEN Len(whole) - core.limits["history"] + 1 ELSE 1
<1>1. c \in Core /\ c.history \in Seq(Transition) /\ Len(c.history) <= c.limits["history"]
  BY DEF Sound, Core, Bounded
<1>2. c.limits["history"] \in Nat /\ c.limits["history"] > 0
  BY SoundNumbers, Resources
<1>3. SubSeq(whole, first, Len(whole)) = new
  BY <1>1, <1>2, SliceAppends
<1>4. ASSUME NEW s, s.history = c.history
      PROVE  AppendSlice(s, t) = [s EXCEPT !.history = new]
  BY <1>3, <1>4, Zenon DEF AppendSlice
<1>. HIDE DEF new
<1>5. ExecutionState(CommitCacheHit(c, t)) = Hit(ExecutionState(c), t)
  <2>. DEFINE s == [ExecutionState(c) EXCEPT !.cache_hits = @ + 1]
  <2>1. s.history = c.history
    BY DEF ExecutionState
  <2>2. Hit(ExecutionState(c), t) = [s EXCEPT !.history = new]
    BY <1>4, <2>1 DEF Hit
  <2>3. CommitCacheHit(c, t) = [c EXCEPT !.cache_hits = @ + 1, !.tick = @ + 1, !.history = new]
    BY DEF CommitCacheHit, new
  <2>. DEFINE d == CommitCacheHit(c, t)
  <2>4. /\ d.requests = c.requests /\ d.executions = c.executions
        /\ d.cache_hits = c.cache_hits + 1 /\ d.retries = c.retries
        /\ d.history = new /\ d.cache = c.cache
    BY <1>1, <2>3 DEF Core
  <2>5. [s EXCEPT !.history = new]
          = [requests |-> c.requests, executions |-> c.executions,
             cache_hits |-> c.cache_hits + 1, retries |-> c.retries,
             history |-> new, cache |-> c.cache]
    <3>1. s = [requests |-> c.requests, executions |-> c.executions,
               cache_hits |-> c.cache_hits + 1, retries |-> c.retries,
               history |-> c.history, cache |-> c.cache]
      BY DEF ExecutionState
    <3>. HIDE DEF s
    <3>. QED
      BY <3>1
  <2>. HIDE DEF d, s
  <2>6. ExecutionState(d) = [s EXCEPT !.history = new]
    BY <2>4, <2>5 DEF ExecutionState
  <2>. QED
    BY <2>2, <2>6 DEF d
<1>6. ExecutionState(CommitObservation(c, t)) = Observed(ExecutionState(c), t)
  <2>. DEFINE s == [ExecutionState(c) EXCEPT !.cache = @ \cup {t}]
  <2>1. s.history = c.history
    BY DEF ExecutionState
  <2>2. Observed(ExecutionState(c), t) = [s EXCEPT !.history = new]
    BY <1>4, <2>1 DEF Observed
  <2>3. CommitObservation(c, t)
          = [c EXCEPT !.tick = @ + 1, !.cache = @ \cup {t}, !.history = new]
    BY DEF CommitObservation, new
  <2>. DEFINE d == CommitObservation(c, t)
  <2>4. /\ d.requests = c.requests /\ d.executions = c.executions
        /\ d.cache_hits = c.cache_hits /\ d.retries = c.retries
        /\ d.history = new /\ d.cache = c.cache \cup {t}
    BY <1>1, <2>3 DEF Core
  <2>5. [s EXCEPT !.history = new]
          = [requests |-> c.requests, executions |-> c.executions,
             cache_hits |-> c.cache_hits, retries |-> c.retries,
             history |-> new, cache |-> c.cache \cup {t}]
    <3>1. s = [requests |-> c.requests, executions |-> c.executions,
               cache_hits |-> c.cache_hits, retries |-> c.retries,
               history |-> c.history, cache |-> c.cache \cup {t}]
      BY DEF ExecutionState
    <3>. HIDE DEF s
    <3>. QED
      BY <3>1
  <2>. HIDE DEF d, s
  <2>6. ExecutionState(d) = [s EXCEPT !.history = new]
    BY <2>4, <2>5 DEF ExecutionState
  <2>. QED
    BY <2>2, <2>6 DEF d
<1>. QED
  BY <1>5, <1>6

(***************************************************************************)
(* Checking the candidate afterwards (budget_violations) refuses exactly   *)
(* what the check before the increment refuses.                            *)
(***************************************************************************)
LEMMA ChecksAgree ==
  ASSUME NEW c, Sound(c), c.limits = core.limits
  PROVE  LET s == ExecutionState(c)
         IN  /\ Admissible(Requested(s)) <=> c.requests < core.limits["requests"]
             /\ Admissible(Executing(s)) <=> c.executions < core.limits["executions"]
             /\ Admissible([s EXCEPT !.retries = @ + 1])
                  <=> c.retries < core.limits["retries"]
<1>. DEFINE s == ExecutionState(c)
<1>1. /\ s.requests = c.requests /\ s.executions = c.executions
      /\ s.retries = c.retries /\ s.history = c.history
  BY DEF ExecutionState
<1>2. /\ c.requests <= core.limits["requests"] /\ c.executions <= core.limits["executions"]
      /\ c.retries <= core.limits["retries"] /\ Len(c.history) <= core.limits["history"]
  BY DEF Sound, Bounded
<1>3. /\ c.requests \in Nat /\ c.executions \in Nat /\ c.retries \in Nat
      /\ core.limits["requests"] \in Nat /\ core.limits["executions"] \in Nat
      /\ core.limits["retries"] \in Nat
  BY SoundNumbers, Resources
<1>4. /\ Requested(s).requests = c.requests + 1 /\ Requested(s).executions = c.executions
      /\ Requested(s).retries = c.retries /\ Requested(s).history = c.history
  BY DEF ExecutionState, Requested
<1>5. /\ Executing(s).requests = c.requests /\ Executing(s).executions = c.executions + 1
      /\ Executing(s).retries = c.retries /\ Executing(s).history = c.history
  BY DEF ExecutionState, Executing
<1>6. LET y == [s EXCEPT !.retries = @ + 1]
      IN  /\ y.requests = c.requests /\ y.executions = c.executions
          /\ y.retries = c.retries + 1 /\ y.history = c.history
  BY DEF ExecutionState
<1>. HIDE DEF s
<1>7. Admissible(Requested(s)) <=> c.requests < core.limits["requests"]
  BY <1>2, <1>3, <1>4 DEF Admissible
<1>8. Admissible(Executing(s)) <=> c.executions < core.limits["executions"]
  BY <1>2, <1>3, <1>5 DEF Admissible
<1>9. Admissible([s EXCEPT !.retries = @ + 1]) <=> c.retries < core.limits["retries"]
  <2>. DEFINE y == [s EXCEPT !.retries = @ + 1]
  <2>1. /\ y.requests = c.requests /\ y.executions = c.executions
        /\ y.retries = c.retries + 1 /\ y.history = c.history
    BY <1>6
  <2>. HIDE DEF y
  <2>2. Admissible(y) <=> c.retries < core.limits["retries"]
    BY <1>2, <1>3, <2>1 DEF Admissible
  <2>. QED
    BY <2>2 DEF y
<1>. QED
  BY <1>7, <1>8, <1>9 DEF s

-----------------------------------------------------------------------------
(* The inductive invariant. *)

(***************************************************************************)
(* Both executors start in the same state.                                 *)
(***************************************************************************)
LEMMA InitConforms == InitConformance => ConformanceInv
<1>. SUFFICES ASSUME InitConformance PROVE ConformanceInv
  OBVIOUS
<1>1. CoreInv
  BY InitCoreInv DEF InitConformance
<1>2. Active /\ OneEntryPerKey(core.cache)
  BY DEF InitConformance, Init, InitialCore, Active, OneEntryPerKey
<1>3. reference = ExecutionState(staged)
  BY DEF InitConformance, Init, InitialCore, ExecutionState
<1>4. SameAnswer
  BY DEF InitConformance, Init, SameAnswer, BudgetReason
<1>. QED
  BY <1>1, <1>2, <1>3, <1>4 DEF ConformanceInv

(***************************************************************************)
(* Every lockstep step is a step of the native session.                    *)
(***************************************************************************)
LEMMA LockstepSession ==
  [NextConformance]_<<vars, referenceVars>> => [SessionNext]_vars
<1>. SUFFICES ASSUME [NextConformance]_<<vars, referenceVars>> PROVE [SessionNext]_vars
  OBVIOUS
<1>1. CASE BothRetry
  BY <1>1 DEF BothRetry, SessionNext
<1>2. ASSUME NEW key \in ToolKeys, BothRead(key) PROVE SessionNext
  BY <1>2, Zenon DEF BothRead, SessionNext
<1>3. ASSUME NEW observation \in Observations, BothObserve(observation) PROVE SessionNext
  BY <1>3, Zenon DEF BothObserve, SessionNext
<1>4. ASSUME NEW reason \in CallbackReason, BothFail(reason) PROVE SessionNext
  BY <1>4, Zenon DEF BothFail, SessionNext
<1>5. CASE UNCHANGED <<vars, referenceVars>>
  BY <1>5
<1>. QED
  BY <1>1, <1>2, <1>3, <1>4, <1>5 DEF NextConformance

(***************************************************************************)
(* A running callback has changed no limit and no cache entry.             *)
(***************************************************************************)
LEMMA StagedLimits ==
  ASSUME CoreInv
  PROVE  staged.limits = core.limits /\ staged.cache = core.cache
<1>1. core \in Core
  BY DEF CoreInv, TypeOK
<1>2. CASE call = Idle
  BY <1>2 DEF CoreInv
<1>3. CASE call # Idle
  BY <1>1, <1>3 DEF CoreInv, Admitted, IncrementExecution, IncrementRequest, Core
<1>. QED
  BY <1>2, <1>3

(***************************************************************************)
(* A retry is counted, or refused, by both.                                *)
(***************************************************************************)
LEMMA RetryConforms ==
  ASSUME ConformanceInv, BothRetry
  PROVE  /\ reference' = ExecutionState(staged)' /\ SameAnswer'
         /\ core'.cache = core.cache /\ authority' = authority
<1>1. Sound(core) /\ core \in Core /\ call = Idle /\ staged = core
  BY DEF ConformanceInv, CoreInv, TypeOK, BothRetry, RecordRetry, RefuseRetry, Dispatchable
<1>2. reference = ExecutionState(core)
  BY <1>1 DEF ConformanceInv
<1>3. Admissible([reference EXCEPT !.retries = @ + 1])
        <=> core.retries < core.limits["retries"]
  BY <1>1, <1>2, ChecksAgree
<1>4. core.retries \in Nat /\ core.limits["retries"] \in Nat
  BY <1>1, SoundNumbers, Resources
<1>5. CASE RecordRetry
  <2>1. /\ core' = IncrementRetry(core) /\ staged' = core' /\ call' = Idle
        /\ outcome' = [command |-> "record_retry", status |-> "accepted", reason |-> "none"]
        /\ authority' = authority /\ core.retries < core.limits["retries"]
    BY <1>5 DEF RecordRetry, Commit, Reply
  <2>2. reference' = [reference EXCEPT !.retries = @ + 1] /\ answer' = "returned"
    BY <1>3, <2>1 DEF BothRetry, ReferenceRetry
  <2>3. reference' = ExecutionState(staged')
    BY <1>1, <1>2, <2>1, <2>2, CountersCommute
  <2>4. core'.cache = core.cache
    BY <1>1, <2>1 DEF IncrementRetry, Core
  <2>5. SameAnswer'
    BY <2>1, <2>2 DEF SameAnswer, BudgetReason
  <2>. QED
    BY <2>1, <2>3, <2>4, <2>5 DEF ExecutionState
<1>6. CASE RefuseRetry
  <2>1. /\ UNCHANGED coreVars
        /\ outcome' = [command |-> "record_retry", status |-> "rejected",
                       reason |-> "retry_budget"]
        /\ authority' = authority /\ ~(core.retries < core.limits["retries"])
    BY <1>4, <1>6 DEF RefuseRetry, Reply
  <2>2. reference' = reference /\ answer' = "budget_exceeded"
    BY <1>3, <2>1 DEF BothRetry, ReferenceRetry
  <2>. QED
    BY <1>1, <1>2, <2>1, <2>2 DEF SameAnswer, BudgetReason, ExecutionState, coreVars
<1>. QED
  BY <1>5, <1>6 DEF BothRetry

(***************************************************************************)
(* A read is refused, answered from the cache, refused after its request   *)
(* was charged, or handed to the tool, by both.                            *)
(***************************************************************************)
LEMMA ReadConforms ==
  ASSUME ConformanceInv, NEW key \in ToolKeys, BothRead(key)
  PROVE  /\ reference' = ExecutionState(staged)' /\ SameAnswer'
         /\ core'.cache = core.cache /\ authority' = authority
<1>. DEFINE charged == Requested(reference)
            held == {t \in reference.cache : t[1] = key}
            d == IncrementRequest(core)
<1>1. /\ Sound(core) /\ core \in Core /\ call = Idle /\ staged = core
  BY DEF ConformanceInv, CoreInv, TypeOK, BothRead, ReadRefused, ReadHit, ReadExhausted,
         ReadInvokes, Dispatchable
<1>2. reference = ExecutionState(core)
  BY <1>1 DEF ConformanceInv
<1>3. /\ core.requests \in Nat /\ core.limits["requests"] \in Nat
      /\ core.executions \in Nat /\ core.limits["executions"] \in Nat
  BY <1>1, SoundNumbers, Resources
<1>4. Admissible(charged) <=> core.requests < core.limits["requests"]
  BY <1>1, <1>2, ChecksAgree
<1>5. held = Cached(core, key)
  BY <1>2 DEF ExecutionState, Cached
<1>6. charged = ExecutionState(d)
  BY <1>1, <1>2, CountersCommute
<1>7. d \in Core /\ d.limits = core.limits /\ d.cache = core.cache
        /\ d.executions = core.executions
  <2>1. core.requests + 1 \in Nat /\ core.tick + 1 \in Nat
    BY <1>1, SoundNumbers
  <2>. QED
    BY <1>1, <2>1 DEF IncrementRequest, Core
<1>8. CASE ReadRefused
  <2>1. /\ UNCHANGED coreVars
        /\ outcome' = [command |-> "execute_read", status |-> "rejected",
                       reason |-> "request_budget"]
        /\ authority' = authority /\ ~Admissible(charged)
    BY <1>3, <1>4, <1>8 DEF ReadRefused, Reply
  <2>2. reference' = reference /\ answer' = "budget_exceeded"
    BY <2>1 DEF BothRead, ReferenceRead
  <2>. QED
    BY <1>1, <1>2, <2>1, <2>2 DEF SameAnswer, BudgetReason, ExecutionState, coreVars
<1>9. ASSUME core.requests < core.limits["requests"]
      PROVE  /\ Sound(d)
             /\ Admissible(Executing(charged)) <=> core.executions < core.limits["executions"]
  <2>1. Sound(d)
    BY <1>1, <1>9, RequestSound
  <2>. QED
    BY <1>6, <1>7, <2>1, ChecksAgree
<1>10. ASSUME NEW transition \in Transition, transition[1] = key, ReadHit(transition)
       PROVE  /\ reference' = ExecutionState(staged)' /\ SameAnswer'
              /\ core'.cache = core.cache /\ authority' = authority
  <2>1. /\ core.requests < core.limits["requests"] /\ transition \in core.cache
        /\ core' = CommitCacheHit(d, transition) /\ staged' = core' /\ call' = Idle
        /\ outcome' = [command |-> "execute_read", status |-> "accepted",
                       reason |-> "cache_hit"]
        /\ authority' = authority
    BY <1>10 DEF ReadHit, Commit, Reply
  <2>2. transition \in held
    BY <1>5, <1>10, <2>1 DEF Cached
  <2>3. \A t \in held : t = transition
    BY <1>5, <1>10, <2>1 DEF Cached, ConformanceInv, OneEntryPerKey
  <2>4. (CHOOSE t \in held : TRUE) = transition
    BY <2>2, <2>3
  <2>5. reference' = Hit(charged, transition) /\ answer' = "returned"
    BY <1>4, <2>1, <2>2, <2>4 DEF BothRead, ReferenceRead
  <2>6. Sound(d)
    BY <1>9, <2>1
  <2>7. ExecutionState(CommitCacheHit(d, transition)) = Hit(ExecutionState(d), transition)
    BY <1>7, <2>6, HistoryCommutes
  <2>8. reference' = ExecutionState(staged')
    BY <1>6, <2>1, <2>5, <2>7
  <2>9. core'.cache = core.cache
    BY <1>7, <2>1 DEF CommitCacheHit, Core
  <2>. QED
    BY <2>1, <2>5, <2>8, <2>9 DEF SameAnswer, BudgetReason, ExecutionState
<1>11. CASE ReadExhausted(key)
  <2>1. /\ core.requests < core.limits["requests"] /\ Cached(core, key) = {}
        /\ ~(core.executions < core.limits["executions"])
        /\ core' = d /\ staged' = core' /\ call' = Idle
        /\ outcome' = [command |-> "execute_read", status |-> "rejected",
                       reason |-> "execution_budget"]
        /\ authority' = authority
    BY <1>3, <1>11 DEF ReadExhausted, Commit, Reply
  <2>2. reference' = charged /\ answer' = "budget_exceeded"
    BY <1>4, <1>5, <1>9, <2>1 DEF BothRead, ReferenceRead
  <2>. QED
    BY <1>6, <1>7, <2>1, <2>2 DEF SameAnswer, BudgetReason, ExecutionState
<1>12. CASE ReadInvokes(key)
  <2>1. /\ core.requests < core.limits["requests"] /\ Cached(core, key) = {}
        /\ core.executions < core.limits["executions"]
        /\ core' = core /\ staged' = IncrementExecution(d) /\ call' = key
        /\ authority' = authority
    BY <1>12 DEF ReadInvokes
  <2>2. reference' = Executing(charged) /\ answer' = "operation"
    BY <1>4, <1>5, <1>9, <2>1 DEF BothRead, ReferenceRead
  <2>3. reference' = ExecutionState(staged')
    BY <1>6, <1>7, <2>1, <2>2, CountersCommute
  <2>4. call' # Idle
    BY <2>1, CoreAssumption
  <2>. QED
    BY <2>1, <2>2, <2>3, <2>4 DEF SameAnswer, ExecutionState
<1>. QED
  BY <1>8, <1>10, <1>11, <1>12 DEF BothRead

(***************************************************************************)
(* An observation is stored by both, with room for it in both.             *)
(***************************************************************************)
LEMMA ObserveConforms ==
  ASSUME ConformanceInv, NEW observation \in Observations, BothObserve(observation)
  PROVE  /\ reference' = ExecutionState(staged)' /\ SameAnswer'
         /\ OneEntryPerKey(core'.cache) /\ authority' = authority
<1>. DEFINE t == <<call, observation>>
<1>1. /\ CoreInv /\ call # Idle /\ OneEntryPerKey(core.cache)
      /\ reference = ExecutionState(staged)
  BY DEF ConformanceInv, BothObserve, ReadReturns
<1>2. /\ Sound(staged) /\ ~CacheFull(staged) /\ staged.cache = core.cache
      /\ staged.limits = core.limits /\ staged \in Core
  BY <1>1, StagedSound, StagedLimits DEF Sound
<1>3. t \in Transition
  BY <1>1 DEF CoreInv, TypeOK, Transition
<1>4. /\ core' = CommitObservation(staged, t) /\ staged' = core' /\ call' = Idle
      /\ outcome' = [command |-> "execute_read", status |-> "accepted",
                     reason |-> "cold_execution"]
      /\ authority' = authority
  BY <1>2 DEF BothObserve, ReadReturns, Commit, Reply
<1>5. reference' = Observed(reference, t) /\ answer' = "returned"
  BY DEF BothObserve
<1>6. reference' = ExecutionState(staged')
  BY <1>1, <1>2, <1>3, <1>4, <1>5, HistoryCommutes
<1>7. core'.cache = core.cache \cup {t}
  BY <1>2, <1>4 DEF CommitObservation, Core
<1>8. \A s \in core.cache : s[1] # call
  BY <1>1 DEF CoreInv, Cached
<1>9. OneEntryPerKey(core'.cache)
  BY <1>1, <1>7, <1>8 DEF OneEntryPerKey
<1>. QED
  BY <1>4, <1>5, <1>6, <1>9 DEF SameAnswer, BudgetReason, ExecutionState

(***************************************************************************)
(* When the tool fails both keep what they had charged.                    *)
(***************************************************************************)
LEMMA FailConforms ==
  ASSUME ConformanceInv, NEW reason \in CallbackReason, BothFail(reason)
  PROVE  /\ reference' = ExecutionState(staged)' /\ SameAnswer'
         /\ core'.cache = core.cache /\ authority' = authority
<1>1. staged.cache = core.cache
  BY StagedLimits DEF ConformanceInv
<1>2. /\ core' = staged /\ staged' = staged /\ call' = Idle
      /\ outcome' = [command |-> "execute_read", status |-> "rejected", reason |-> reason]
      /\ authority' = authority /\ reference' = reference /\ answer' = "failed"
  BY DEF BothFail, ReadFails, Commit, Reply
<1>3. reason \notin BudgetReason
  BY DEF CallbackReason, BudgetReason
<1>. QED
  BY <1>1, <1>2, <1>3 DEF SameAnswer, ExecutionState, ConformanceInv

(***************************************************************************)
(* Every lockstep step preserves the invariant.                            *)
(***************************************************************************)
LEMMA NextConforms ==
  ConformanceInv /\ [NextConformance]_<<vars, referenceVars>> => ConformanceInv'
<1>. SUFFICES ASSUME ConformanceInv, [NextConformance]_<<vars, referenceVars>>
              PROVE  ConformanceInv'
  OBVIOUS
<1>1. CoreInv'
  BY LockstepSession, SessionCoreInv DEF ConformanceInv
<1>2. /\ reference' = ExecutionState(staged)' /\ SameAnswer'
      /\ OneEntryPerKey(core'.cache) /\ authority' = authority
  <2>1. CASE BothRetry
    BY <2>1, RetryConforms DEF ConformanceInv
  <2>2. ASSUME NEW key \in ToolKeys, BothRead(key)
        PROVE  /\ reference' = ExecutionState(staged)' /\ SameAnswer'
               /\ OneEntryPerKey(core'.cache) /\ authority' = authority
    BY <2>2, ReadConforms DEF ConformanceInv
  <2>3. ASSUME NEW observation \in Observations, BothObserve(observation)
        PROVE  /\ reference' = ExecutionState(staged)' /\ SameAnswer'
               /\ OneEntryPerKey(core'.cache) /\ authority' = authority
    BY <2>3, ObserveConforms
  <2>4. ASSUME NEW reason \in CallbackReason, BothFail(reason)
        PROVE  /\ reference' = ExecutionState(staged)' /\ SameAnswer'
               /\ OneEntryPerKey(core'.cache) /\ authority' = authority
    BY <2>4, FailConforms DEF ConformanceInv
  <2>5. CASE UNCHANGED <<vars, referenceVars>>
    BY <2>5 DEF vars, referenceVars, ConformanceInv, SameAnswer, ExecutionState
  <2>. QED
    BY <2>1, <2>2, <2>3, <2>4, <2>5 DEF NextConformance
<1>3. Active'
  BY <1>2 DEF ConformanceInv, Active
<1>. QED
  BY <1>1, <1>2, <1>3 DEF ConformanceInv, OneEntryPerKey

(***************************************************************************)
(* The invariant says the two executors take the same transition.          *)
(***************************************************************************)
LEMMA ConformanceSame == ConformanceInv => SameTransition
<1>. SUFFICES ASSUME ConformanceInv PROVE SameTransition
  OBVIOUS
<1>1. reference = ExecutionState(staged) /\ SameAnswer
  BY DEF ConformanceInv
<1>2. staged.history \in Seq(Transition) /\ reference.history = staged.history
  BY <1>1 DEF ConformanceInv, CoreInv, TypeOK, Core, ExecutionState
<1>3. TerminalCyclePeriod(staged.history) = DetectShortCycle(reference.history)
  BY <1>2, DetectorsAgree
<1>. QED
  BY <1>1, <1>3 DEF SameTransition, SameAnswer

(***************************************************************************)
(* In every lockstep execution the candidate of the native core is what    *)
(* the reference has committed, and each cache key has one observation.    *)
(***************************************************************************)
THEOREM ConformanceInvariant == SpecConformance => []ConformanceInv
<1>. QED
  BY InitConforms, NextConforms, PTL DEF SpecConformance

(***************************************************************************)
(* The Python reference executor and the native runtime agree after every  *)
(* command: same counters, cache and history, same refusals for budget,    *)
(* the tool called for one exactly when for the other, and the two cycle   *)
(* detectors see the same period, for every budget and every script.       *)
(***************************************************************************)
THEOREM ReferenceConforms == SpecConformance => []SameTransition
<1>. QED
  BY ConformanceInvariant, ConformanceSame, PTL
=============================================================================
