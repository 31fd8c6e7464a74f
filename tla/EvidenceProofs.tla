--------------------------- MODULE EvidenceProofs ---------------------------
(***************************************************************************)
(* Theorems about compact evidence and governed acceptance, for any number *)
(* of sessions and accumulators, nested to any depth, any manifests and    *)
(* any limits.                                                             *)
(***************************************************************************)
EXTENDS Acceptance, TLAPS, FiniteSetTheorems, SequenceTheorems, WellFoundedInduction,
        NaturalsInduction

-----------------------------------------------------------------------------
(* Induction, as the absence of a least counterexample. *)

(***************************************************************************)
(* A set of numbers that contains 0 and is closed under successors up to m *)
(* contains all numbers up to m.                                           *)
(***************************************************************************)
LEMMA UpTo ==
  ASSUME NEW m \in Nat, NEW good,
         0 \in good, \A n \in 0..(m - 1) : n \in good => n + 1 \in good
  PROVE  \A n \in 0..m : n \in good
<1>. DEFINE bad == {n \in 0..m : n \notin good}
<1>. SUFFICES ASSUME bad # {} PROVE FALSE
  OBVIOUS
<1>1. bad \subseteq Nat
  OBVIOUS
<1>2. PICK n \in bad : \A k \in bad : ~(<<k, n>> \in OpToRel(<, Nat))
  BY <1>1, NatLessThanWellFounded, WFMin
<1>3. n \in Nat /\ n <= m /\ n # 0
  OBVIOUS
<1>4. n - 1 \in 0..m /\ n - 1 < n /\ n - 1 \in Nat /\ n - 1 \in 0..(m - 1) /\ (n - 1) + 1 = n
  BY <1>3
<1>5. <<n - 1, n>> \in OpToRel(<, Nat)
  BY <1>3, <1>4 DEF OpToRel
<1>6. n - 1 \in good
  BY <1>2, <1>4, <1>5
<1>. QED
  BY <1>4, <1>6

(***************************************************************************)
(* The loop that joins sequences: there is a function of the turns.        *)
(***************************************************************************)
Joins(g, parts, n) == g = [i \in 0..n |-> IF i = 0 THEN <<>> ELSE g[i - 1] \o parts[i]]

(***************************************************************************)
(* Every number of turns has such a function.                              *)
(***************************************************************************)
LEMMA JoinTurns ==
  ASSUME NEW parts, Len(parts) \in Nat
  PROVE  \E g : Joins(g, parts, Len(parts)) /\ Joined(parts) = g[Len(parts)]
<1>. DEFINE good == {n \in Nat : \E g : Joins(g, parts, n)}
<1>1. 0 \in good
  <2>. DEFINE g == [i \in 0..0 |-> <<>>]
  <2>1. Joins(g, parts, 0)
    BY DEF Joins
  <2>. QED
    BY <2>1
<1>2. ASSUME NEW n \in Nat, n \in good PROVE n + 1 \in good
  <2>1. PICK g : Joins(g, parts, n)
    BY <1>2
  <2>. DEFINE h == [i \in 0..(n + 1) |-> IF i \in 0..n THEN g[i] ELSE g[n] \o parts[n + 1]]
  <2>2. \A i \in 0..n : h[i] = g[i]
    OBVIOUS
  <2>3. h[n + 1] = g[n] \o parts[n + 1]
    OBVIOUS
  <2>4. \A i \in 0..n : g[i] = IF i = 0 THEN <<>> ELSE g[i - 1] \o parts[i]
    BY <2>1 DEF Joins
  <2>5. \A i \in 0..(n + 1) : h[i] = IF i = 0 THEN <<>> ELSE h[i - 1] \o parts[i]
    <3>. TAKE i \in 0..(n + 1)
    <3>1. CASE i \in 0..n
      <4>1. i # 0 => i - 1 \in 0..n
        BY <3>1
      <4>. HIDE DEF h
      <4>. QED
        BY <2>2, <2>4, <3>1, <4>1
    <3>2. CASE i = n + 1
      <4>1. i # 0 /\ i - 1 = n /\ n \in 0..n
        BY <3>2
      <4>. HIDE DEF h
      <4>. QED
        BY <2>2, <2>3, <3>2, <4>1
    <3>. QED
      BY <3>1, <3>2
  <2>6. h = [i \in 0..(n + 1) |-> h[i]]
    OBVIOUS
  <2>7. Joins(h, parts, n + 1)
    <3>. HIDE DEF h
    <3>. QED
      BY <2>5, <2>6 DEF Joins
  <2>8. n + 1 \in Nat
    OBVIOUS
  <2>. HIDE DEF h
  <2>. QED
    BY <2>7, <2>8
<1>3. Len(parts) \in good
  <2>1. \A n \in 0..Len(parts) : n \in good
    <3>. HIDE DEF good
    <3>1. \A n \in 0..(Len(parts) - 1) : n \in good => n + 1 \in good
      BY <1>2
    <3>. QED
      BY <1>1, <3>1, UpTo
  <2>. QED
    BY <2>1
<1>. DEFINE f == CHOOSE g : Joins(g, parts, Len(parts))
<1>4. Joins(f, parts, Len(parts))
  BY <1>3
<1>5. Joined(parts) = f[Len(parts)]
  BY DEF Joined, Joins
<1>. HIDE DEF f
<1>. QED
  BY <1>4, <1>5

(***************************************************************************)
(* Joined adds a last part at the end, and no parts are the empty          *)
(* sequence.                                                               *)
(***************************************************************************)
LEMMA JoinedNone == Joined(<<>>) = <<>>
<1>1. Len(<<>>) = 0 /\ Len(<<>>) \in Nat
  OBVIOUS
<1>2. PICK g : Joins(g, <<>>, Len(<<>>)) /\ Joined(<<>>) = g[Len(<<>>)]
  BY <1>1, JoinTurns
<1>. QED
  BY <1>1, <1>2 DEF Joins

(***************************************************************************)
(* Joined adds a last part at the end.                                     *)
(***************************************************************************)
LEMMA JoinedLast ==
  ASSUME NEW parts, NEW longer, NEW m \in Nat, Len(parts) = m, Len(longer) = m + 1,
         \A i \in 1..m : longer[i] = parts[i]
  PROVE  Joined(longer) = Joined(parts) \o longer[m + 1]
<1>1. PICK g : Joins(g, parts, m) /\ Joined(parts) = g[m]
  BY JoinTurns
<1>2. PICK h : Joins(h, longer, m + 1) /\ Joined(longer) = h[m + 1]
  BY JoinTurns
<1>3. /\ \A i \in 0..m : g[i] = IF i = 0 THEN <<>> ELSE g[i - 1] \o parts[i]
      /\ \A i \in 0..(m + 1) : h[i] = IF i = 0 THEN <<>> ELSE h[i - 1] \o longer[i]
  BY <1>1, <1>2 DEF Joins
<1>. DEFINE good == {i \in 0..m : g[i] = h[i]}
<1>4. 0 \in good
  BY <1>3
<1>5. ASSUME NEW i \in 0..(m - 1), i \in good PROVE i + 1 \in good
  <2>1. i + 1 \in 0..m /\ i + 1 \in 0..(m + 1) /\ i + 1 \in 1..m /\ i + 1 # 0 /\ (i + 1) - 1 = i
    OBVIOUS
  <2>2. g[i + 1] = g[i] \o parts[i + 1] /\ h[i + 1] = h[i] \o longer[i + 1]
    BY <1>3, <2>1
  <2>. QED
    BY <1>5, <2>1, <2>2
<1>6. m \in good
  <2>1. \A i \in 0..m : i \in good
    <3>. HIDE DEF good
    <3>. QED
      BY <1>4, <1>5, UpTo
  <2>. QED
    BY <2>1
<1>7. h[m + 1] = h[m] \o longer[m + 1]
  <2>1. m + 1 \in 0..(m + 1) /\ m + 1 # 0 /\ (m + 1) - 1 = m
    OBVIOUS
  <2>. QED
    BY <1>3, <2>1
<1>. QED
  BY <1>1, <1>2, <1>6, <1>7

(***************************************************************************)
(* The loop that adds up a counter: there is a function of the turns.      *)
(***************************************************************************)
Sums(g, cases, f, n) == g = [i \in 0..n |-> IF i = 0 THEN 0 ELSE g[i - 1] + cases[i].counters[f]]

(***************************************************************************)
(* Every number of turns has such a function.                              *)
(***************************************************************************)
LEMMA SumTurns ==
  ASSUME NEW cases, NEW f, Len(cases) \in Nat
  PROVE  \E g : Sums(g, cases, f, Len(cases)) /\ Sum(cases, f) = g[Len(cases)]
<1>. DEFINE good == {n \in Nat : \E g : Sums(g, cases, f, n)}
<1>1. 0 \in good
  <2>. DEFINE g == [i \in 0..0 |-> 0]
  <2>1. Sums(g, cases, f, 0)
    BY DEF Sums
  <2>. QED
    BY <2>1
<1>2. ASSUME NEW n \in Nat, n \in good PROVE n + 1 \in good
  <2>1. PICK g : Sums(g, cases, f, n)
    BY <1>2
  <2>. DEFINE h == [i \in 0..(n + 1) |-> IF i \in 0..n THEN g[i] ELSE g[n] + cases[n + 1].counters[f]]
  <2>2. \A i \in 0..n : h[i] = g[i]
    OBVIOUS
  <2>3. h[n + 1] = g[n] + cases[n + 1].counters[f]
    OBVIOUS
  <2>4. \A i \in 0..n : g[i] = IF i = 0 THEN 0 ELSE g[i - 1] + cases[i].counters[f]
    BY <2>1 DEF Sums
  <2>5. \A i \in 0..(n + 1) : h[i] = IF i = 0 THEN 0 ELSE h[i - 1] + cases[i].counters[f]
    <3>. TAKE i \in 0..(n + 1)
    <3>1. CASE i \in 0..n
      <4>1. i # 0 => i - 1 \in 0..n
        BY <3>1
      <4>. HIDE DEF h
      <4>. QED
        BY <2>2, <2>4, <3>1, <4>1
    <3>2. CASE i = n + 1
      <4>1. i # 0 /\ i - 1 = n /\ n \in 0..n
        BY <3>2
      <4>. HIDE DEF h
      <4>. QED
        BY <2>2, <2>3, <3>2, <4>1
    <3>. QED
      BY <3>1, <3>2
  <2>6. h = [i \in 0..(n + 1) |-> h[i]]
    OBVIOUS
  <2>7. Sums(h, cases, f, n + 1)
    <3>. HIDE DEF h
    <3>. QED
      BY <2>5, <2>6 DEF Sums
  <2>8. n + 1 \in Nat
    OBVIOUS
  <2>. HIDE DEF h
  <2>. QED
    BY <2>7, <2>8
<1>3. Len(cases) \in good
  <2>1. \A n \in 0..Len(cases) : n \in good
    <3>. HIDE DEF good
    <3>1. \A n \in 0..(Len(cases) - 1) : n \in good => n + 1 \in good
      BY <1>2
    <3>. QED
      BY <1>1, <3>1, UpTo
  <2>. QED
    BY <2>1
<1>. DEFINE c == CHOOSE g : Sums(g, cases, f, Len(cases))
<1>4. Sums(c, cases, f, Len(cases))
  BY <1>3
<1>5. Sum(cases, f) = c[Len(cases)]
  BY DEF Sum, Sums
<1>. HIDE DEF c
<1>. QED
  BY <1>4, <1>5

(***************************************************************************)
(* The loop that collects a page of details.                               *)
(***************************************************************************)
Turn(page, details, start, max, i) ==
  IF details[i].index >= start /\ Len(page) < max THEN Append(page, details[i]) ELSE page

Pages(g, details, start, max, n) ==
  g = [i \in 0..n |-> IF i = 0 THEN <<>> ELSE Turn(g[i - 1], details, start, max, i)]

(***************************************************************************)
(* Every number of turns has such a function.                              *)
(***************************************************************************)
LEMMA PageTurns ==
  ASSUME NEW a, NEW start, NEW max, NEW details, details = native[a].details, Len(details) \in Nat
  PROVE  \E g : Pages(g, details, start, max, Len(details)) /\ Expand(a, start, max) = g[Len(details)]
<1>. DEFINE good == {n \in Nat : \E g : Pages(g, details, start, max, n)}
<1>1. 0 \in good
  <2>. DEFINE g == [i \in 0..0 |-> <<>>]
  <2>1. Pages(g, details, start, max, 0)
    BY DEF Pages
  <2>. QED
    BY <2>1
<1>2. ASSUME NEW n \in Nat, n \in good PROVE n + 1 \in good
  <2>1. PICK g : Pages(g, details, start, max, n)
    BY <1>2
  <2>. DEFINE h == [i \in 0..(n + 1) |-> IF i \in 0..n THEN g[i] ELSE Turn(g[n], details, start, max, n + 1)]
  <2>2. \A i \in 0..n : h[i] = g[i]
    OBVIOUS
  <2>3. h[n + 1] = Turn(g[n], details, start, max, n + 1)
    OBVIOUS
  <2>4. \A i \in 0..n : g[i] = IF i = 0 THEN <<>> ELSE Turn(g[i - 1], details, start, max, i)
    BY <2>1 DEF Pages
  <2>5. \A i \in 0..(n + 1) : h[i] = IF i = 0 THEN <<>> ELSE Turn(h[i - 1], details, start, max, i)
    <3>. TAKE i \in 0..(n + 1)
    <3>1. CASE i \in 0..n
      <4>1. i # 0 => i - 1 \in 0..n
        BY <3>1
      <4>. HIDE DEF h
      <4>. QED
        BY <2>2, <2>4, <3>1, <4>1
    <3>2. CASE i = n + 1
      <4>1. i # 0 /\ i - 1 = n /\ n \in 0..n
        BY <3>2
      <4>. HIDE DEF h
      <4>. QED
        BY <2>2, <2>3, <3>2, <4>1
    <3>. QED
      BY <3>1, <3>2
  <2>6. h = [i \in 0..(n + 1) |-> h[i]]
    OBVIOUS
  <2>7. Pages(h, details, start, max, n + 1)
    <3>. HIDE DEF h
    <3>. QED
      BY <2>5, <2>6 DEF Pages
  <2>8. n + 1 \in Nat
    OBVIOUS
  <2>. HIDE DEF h
  <2>. QED
    BY <2>7, <2>8
<1>3. Len(details) \in good
  <2>1. \A n \in 0..Len(details) : n \in good
    <3>. HIDE DEF good
    <3>1. \A n \in 0..(Len(details) - 1) : n \in good => n + 1 \in good
      BY <1>2
    <3>. QED
      BY <1>1, <3>1, UpTo
  <2>. QED
    BY <2>1
<1>. DEFINE f == CHOOSE g : Pages(g, details, start, max, Len(details))
<1>4. Pages(f, details, start, max, Len(details))
  BY <1>3
<1>5. Expand(a, start, max) = f[Len(details)]
  BY DEF Expand, Pages, Turn
<1>. HIDE DEF f
<1>. QED
  BY <1>4, <1>5

-----------------------------------------------------------------------------
(* Joined sequences and sums *)

(***************************************************************************)
(* Sequences over a set join to a sequence over it.                        *)
(***************************************************************************)
LEMMA JoinedTyped ==
  ASSUME NEW S, NEW parts, Len(parts) \in Nat, \A i \in 1..Len(parts) : parts[i] \in Seq(S)
  PROVE  Joined(parts) \in Seq(S)
<1>1. PICK g : Joins(g, parts, Len(parts)) /\ Joined(parts) = g[Len(parts)]
  BY JoinTurns
<1>2. \A i \in 0..Len(parts) : g[i] = IF i = 0 THEN <<>> ELSE g[i - 1] \o parts[i]
  BY <1>1 DEF Joins
<1>. DEFINE good == {i \in 0..Len(parts) : g[i] \in Seq(S)}
<1>3. 0 \in good
  <2>1. 0 \in 0..Len(parts)
    OBVIOUS
  <2>2. g[0] = <<>>
    BY <1>2, <2>1
  <2>3. g[0] \in Seq(S)
    BY <2>2
  <2>. QED
    BY <2>1, <2>3
<1>4. ASSUME NEW i \in 0..(Len(parts) - 1), i \in good PROVE i + 1 \in good
  <2>1. i + 1 \in 0..Len(parts) /\ i + 1 \in 1..Len(parts) /\ i + 1 # 0 /\ (i + 1) - 1 = i
    OBVIOUS
  <2>2. g[i + 1] = g[i] \o parts[i + 1]
    BY <1>2, <2>1
  <2>3. g[i] \in Seq(S) /\ parts[i + 1] \in Seq(S)
    BY <1>4, <2>1
  <2>. QED
    BY <2>1, <2>2, <2>3, ConcatProperties, ZenonT(40)
<1>5. \A i \in 0..Len(parts) : i \in good
  <2>. HIDE DEF good
  <2>. QED
    BY <1>3, <1>4, UpTo
<1>. QED
  BY <1>1, <1>5

CounterNames == {"requests", "executions", "hits", "retries", "mismatches"}

(***************************************************************************)
(* The counters of a case are numbers.                                     *)
(***************************************************************************)
LEMMA CounterTyped ==
  ASSUME NEW x \in EvidenceCounters
  PROVE  /\ DOMAIN x = CounterNames
         /\ \A f \in CounterNames : x[f] \in Nat
BY DEF EvidenceCounters, CounterNames

(***************************************************************************)
(* A sum is a number; there is nothing to add up in an empty stream.       *)
(***************************************************************************)
LEMMA SumTyped ==
  ASSUME NEW q \in Seq(Cases), NEW f \in CounterNames,
         NEW g, Sums(g, q, f, Len(q))
  PROVE  /\ \A i \in 0..Len(q) : g[i] \in Nat
         /\ g[0] = 0
         /\ \A i \in 1..Len(q) : g[i] = g[i - 1] + q[i].counters[f] /\ q[i].counters[f] \in Nat
<1>1. \A i \in 0..Len(q) : g[i] = IF i = 0 THEN 0 ELSE g[i - 1] + q[i].counters[f]
  BY DEF Sums
<1>2. \A i \in 1..Len(q) : q[i].counters[f] \in Nat
  <2>. TAKE i \in 1..Len(q)
  <2>1. q[i] \in Cases
    BY ElementOfSeq
  <2>2. q[i].counters \in EvidenceCounters
    BY <2>1 DEF Cases
  <2>. QED
    BY <2>2, CounterTyped
<1>. DEFINE good == {i \in 0..Len(q) : g[i] \in Nat}
<1>. Len(q) \in Nat
  BY LenProperties
<1>3. 0 \in good
  BY <1>1
<1>4. ASSUME NEW i \in 0..(Len(q) - 1), i \in good PROVE i + 1 \in good
  <2>1. i + 1 \in 0..Len(q) /\ i + 1 \in 1..Len(q) /\ i + 1 # 0 /\ (i + 1) - 1 = i
    OBVIOUS
  <2>2. g[i + 1] = g[i] + q[i + 1].counters[f]
    BY <1>1, <2>1
  <2>. QED
    BY <1>2, <1>4, <2>1, <2>2
<1>5. \A i \in 0..Len(q) : i \in good
  <2>. HIDE DEF good
  <2>. QED
    BY <1>3, <1>4, UpTo
<1>6. \A i \in 1..Len(q) : i \in 0..Len(q) /\ i # 0
  OBVIOUS
<1>7. \A i \in 1..Len(q) : g[i] = g[i - 1] + q[i].counters[f]
  BY <1>1, <1>6
<1>8. g[0] = 0
  BY <1>1
<1>. QED
  BY <1>2, <1>5, <1>7, <1>8

(***************************************************************************)
(* Sums are numbers.                                                       *)
(***************************************************************************)
LEMMA SumNat ==
  ASSUME NEW q \in Seq(Cases), NEW f \in CounterNames
  PROVE  Sum(q, f) \in Nat
<1>1. Len(q) \in Nat /\ Len(q) \in 0..Len(q)
  BY LenProperties
<1>2. PICK g : Sums(g, q, f, Len(q)) /\ Sum(q, f) = g[Len(q)]
  BY <1>1, SumTurns
<1>. QED
  BY <1>1, <1>2, SumTyped

(***************************************************************************)
(* The sum of two streams, one after the other, is the sum of their sums.  *)
(***************************************************************************)
LEMMA SumJoined ==
  ASSUME NEW q \in Seq(Cases), NEW t \in Seq(Cases), NEW f \in CounterNames
  PROVE  Sum(q \o t, f) = Sum(q, f) + Sum(t, f)
<1>. DEFINE a == Len(q)
            b == Len(t)
            u == q \o t
<1>1. a \in Nat /\ b \in Nat
  BY LenProperties
<1>2. u \in Seq(Cases) /\ Len(u) = a + b
      /\ \A i \in 1..(a + b) : u[i] = IF i <= a THEN q[i] ELSE t[i - a]
  BY ConcatProperties
<1>. HIDE DEF a, b, u
<1>3. PICK g : Sums(g, q, f, a) /\ Sum(q, f) = g[a]
  BY <1>1, SumTurns DEF a
<1>4. PICK k : Sums(k, t, f, b) /\ Sum(t, f) = k[b]
  BY <1>1, SumTurns DEF b
<1>5. PICK h : Sums(h, u, f, a + b) /\ Sum(u, f) = h[a + b]
  <2>1. Len(u) \in Nat
    BY <1>1, <1>2
  <2>. QED
    BY <1>2, <2>1, SumTurns
<1>6. /\ \A i \in 0..a : g[i] \in Nat
      /\ g[0] = 0
      /\ \A i \in 1..a : g[i] = g[i - 1] + q[i].counters[f]
  BY <1>3, SumTyped DEF a
<1>7. /\ \A i \in 0..b : k[i] \in Nat
      /\ k[0] = 0
      /\ \A i \in 1..b : k[i] = k[i - 1] + t[i].counters[f] /\ t[i].counters[f] \in Nat
  BY <1>4, SumTyped DEF b
<1>8. /\ h[0] = 0
      /\ \A i \in 1..(a + b) : h[i] = h[i - 1] + u[i].counters[f]
  BY <1>2, <1>5, SumTyped
<1>9. h[a] = g[a]
  <2>. DEFINE good == {i \in 0..a : h[i] = g[i]}
  <2>1. 0 \in good
    BY <1>1, <1>6, <1>8
  <2>2. ASSUME NEW i \in 0..(a - 1), i \in good PROVE i + 1 \in good
    <3>1. i + 1 \in 0..a /\ i + 1 \in 1..a /\ i + 1 \in 1..(a + b) /\ i + 1 <= a /\ (i + 1) - 1 = i
      BY <1>1
    <3>2. u[i + 1] = q[i + 1]
      BY <1>2, <3>1
    <3>3. h[i + 1] = h[i] + q[i + 1].counters[f] /\ g[i + 1] = g[i] + q[i + 1].counters[f]
      BY <1>6, <1>8, <3>1, <3>2
    <3>. QED
      BY <2>2, <3>1, <3>3
  <2>3. \A i \in 0..a : i \in good
    <3>. HIDE DEF good
    <3>. QED
      BY <1>1, <2>1, <2>2, UpTo
  <2>4. a \in 0..a
    BY <1>1
  <2>. QED
    BY <2>3, <2>4
<1>10. h[a + b] = g[a] + k[b]
  <2>. DEFINE good == {i \in 0..b : h[a + i] = g[a] + k[i]}
  <2>0. g[a] \in Nat
    BY <1>1, <1>6
  <2>1. 0 \in good
    <3>1. a + 0 = a /\ 0 \in 0..b /\ g[a] + 0 = g[a]
      BY <1>1, <2>0
    <3>. QED
      BY <1>7, <1>9, <3>1
  <2>2. ASSUME NEW i \in 0..(b - 1), i \in good PROVE i + 1 \in good
    <3>1. /\ i \in 0..b /\ i + 1 \in 0..b /\ i + 1 \in 1..b /\ (i + 1) - 1 = i
          /\ a + (i + 1) \in 1..(a + b) /\ ~(a + (i + 1) <= a) /\ (a + (i + 1)) - a = i + 1
          /\ (a + (i + 1)) - 1 = a + i
      BY <1>1
    <3>2. u[a + (i + 1)] = t[i + 1]
      BY <1>2, <3>1
    <3>3. h[a + (i + 1)] = h[a + i] + t[i + 1].counters[f] /\ k[i + 1] = k[i] + t[i + 1].counters[f]
      BY <1>7, <1>8, <3>1, <3>2
    <3>4. h[a + i] = g[a] + k[i] /\ k[i] \in Nat /\ t[i + 1].counters[f] \in Nat
      BY <1>7, <2>2, <3>1
    <3>5. h[a + (i + 1)] = g[a] + k[i + 1]
      BY <2>0, <3>3, <3>4
    <3>. QED
      BY <3>1, <3>5
  <2>3. \A i \in 0..b : i \in good
    <3>. HIDE DEF good
    <3>. QED
      BY <1>1, <2>1, <2>2, UpTo
  <2>4. b \in 0..b
    BY <1>1
  <2>. QED
    BY <2>3, <2>4
<1>. QED
  BY <1>3, <1>4, <1>5, <1>10 DEF u

(***************************************************************************)
(* The sum of a single case is its counter, and of none is 0.              *)
(***************************************************************************)
LEMMA SumSmall ==
  ASSUME NEW f \in CounterNames
  PROVE  /\ Sum(<<>>, f) = 0
         /\ \A c \in Cases : Sum(<<c>>, f) = c.counters[f]
<1>1. Sum(<<>>, f) = 0
  <2>1. <<>> \in Seq(Cases) /\ Len(<<>>) = 0 /\ Len(<<>>) \in Nat
    OBVIOUS
  <2>2. PICK g : Sums(g, <<>>, f, Len(<<>>)) /\ Sum(<<>>, f) = g[Len(<<>>)]
    BY <2>1, SumTurns
  <2>. QED
    BY <2>1, <2>2, SumTyped
<1>2. ASSUME NEW c \in Cases PROVE Sum(<<c>>, f) = c.counters[f]
  <2>. DEFINE q == <<c>>
  <2>1. q \in Seq(Cases) /\ Len(q) = 1 /\ Len(q) \in Nat /\ q[1] = c
    OBVIOUS
  <2>. HIDE DEF q
  <2>2. PICK g : Sums(g, q, f, Len(q)) /\ Sum(q, f) = g[Len(q)]
    BY <2>1, SumTurns
  <2>3. 1 \in 1..Len(q)
    BY <2>1
  <2>4. g[0] = 0 /\ g[1] = g[1 - 1] + q[1].counters[f] /\ q[1].counters[f] \in Nat
    BY <2>1, <2>2, <2>3, SumTyped
  <2>. QED
    BY <2>1, <2>2, <2>4 DEF q
<1>. QED
  BY <1>1, <1>2

-----------------------------------------------------------------------------
(* What a chain commits to *)

PartOf(item) == IF item.type = "case" THEN <<item>> ELSE item.cases
SourcePart(item) ==
  IF item.type = "case" /\ item.source # None THEN <<item.source>> ELSE <<>>

(***************************************************************************)
(* An item is a case or a child, and not both.                             *)
(***************************************************************************)
LEMMA ItemTyped ==
  ASSUME NEW item \in Items
  PROVE  /\ item.type = "case" \/ item.type = "child"
         /\ item.type = "case" <=> item \in Cases
         /\ item.type = "child" => item.cases \in Seq(Cases)
         /\ PartOf(item) \in Seq(Cases)
         /\ SourcePart(item) \in Seq(RuntimeReceipts)
<1>. DEFINE Children == [type : {"child"}, cases : Seq(Cases)]
<1>1. item \in Cases => item.type = "case" /\ item.source \in RuntimeReceipts \cup {None}
  BY DEF Cases
<1>2. item \in Children => item.type = "child" /\ item.cases \in Seq(Cases)
  OBVIOUS
<1>3. item \in Cases \/ item \in Children
  BY DEF Items
<1>. HIDE DEF Children
<1>4. /\ item.type = "case" \/ item.type = "child"
      /\ item.type = "case" <=> item \in Cases
      /\ item.type = "child" => item.cases \in Seq(Cases)
  BY <1>1, <1>2, <1>3
<1>5. PartOf(item) \in Seq(Cases)
  BY <1>4 DEF PartOf
<1>6. SourcePart(item) \in Seq(RuntimeReceipts)
  BY <1>1, <1>4 DEF SourcePart
<1>. QED
  BY <1>4, <1>5, <1>6

(***************************************************************************)
(* The cases of a chain are cases; a new chain has none; an item adds its  *)
(* own at the end.                                                         *)
(***************************************************************************)
LEMMA CasesOfChain ==
  /\ CasesOf(<<>>) = <<>>
  /\ \A chain \in Seq(Items) :
       /\ CasesOf(chain) \in Seq(Cases)
       /\ \A item \in Items : CasesOf(Append(chain, item)) = CasesOf(chain) \o PartOf(item)
<1>. DEFINE Parts(chain) == [i \in DOMAIN chain |->
                               IF chain[i].type = "case" THEN <<chain[i]>> ELSE chain[i].cases]
<1>1. \A chain : CasesOf(chain) = Joined(Parts(chain))
  BY DEF CasesOf
<1>2. CasesOf(<<>>) = <<>>
  <2>1. Parts(<<>>) = <<>>
    OBVIOUS
  <2>. HIDE DEF Parts
  <2>. QED
    BY <1>1, <2>1, JoinedNone
<1>3. ASSUME NEW chain \in Seq(Items)
      PROVE  /\ Len(Parts(chain)) = Len(chain) /\ Len(chain) \in Nat
             /\ \A i \in 1..Len(chain) : Parts(chain)[i] = PartOf(chain[i])
  <2>1. Len(chain) \in Nat /\ DOMAIN chain = 1..Len(chain)
    BY LenProperties
  <2>2. Parts(chain) = [i \in 1..Len(chain) |-> PartOf(chain[i])]
    BY <2>1 DEF PartOf
  <2>3. DOMAIN Parts(chain) = 1..Len(chain)
    BY <2>2
  <2>4. Len(Parts(chain)) = Len(chain)
    <3>. DEFINE p == [i \in 1..Len(chain) |-> PartOf(chain[i])]
                S == {PartOf(chain[i]) : i \in 1..Len(chain)}
    <3>1. p \in [1..Len(chain) -> S]
      OBVIOUS
    <3>2. Len(p) = Len(chain)
      <4>. HIDE DEF p, S
      <4>. QED
        BY <2>1, <3>1
    <3>. QED
      BY <2>2, <3>2
  <2>. QED
    BY <2>1, <2>2, <2>4
<1>. HIDE DEF Parts
<1>4. ASSUME NEW chain \in Seq(Items)
      PROVE  CasesOf(chain) \in Seq(Cases)
  <2>1. \A i \in 1..Len(chain) : chain[i] \in Items
    BY ElementOfSeq
  <2>2. \A i \in 1..Len(chain) : Parts(chain)[i] \in Seq(Cases)
    BY <1>3, <2>1, ItemTyped
  <2>. QED
    BY <1>1, <1>3, <2>2, JoinedTyped
<1>5. ASSUME NEW chain \in Seq(Items), NEW item \in Items
      PROVE  CasesOf(Append(chain, item)) = CasesOf(chain) \o PartOf(item)
  <2>. DEFINE longer == Append(chain, item)
              m == Len(chain)
  <2>1. /\ longer \in Seq(Items) /\ Len(longer) = m + 1 /\ m \in Nat
        /\ \A i \in 1..m : longer[i] = chain[i]
        /\ longer[m + 1] = item
    BY <1>3, AppendProperties
  <2>. HIDE DEF longer, m
  <2>2. /\ Len(Parts(longer)) = m + 1
        /\ \A i \in 1..(m + 1) : Parts(longer)[i] = PartOf(longer[i])
    BY <1>3, <2>1
  <2>3. /\ Len(Parts(chain)) = m
        /\ \A i \in 1..m : Parts(chain)[i] = PartOf(chain[i])
    BY <1>3 DEF m
  <2>4. \A i \in 1..m : i \in 1..(m + 1)
    BY <2>1
  <2>5. \A i \in 1..m : Parts(longer)[i] = Parts(chain)[i]
    BY <2>1, <2>2, <2>3, <2>4
  <2>6. Parts(longer)[m + 1] = PartOf(item)
    BY <2>1, <2>2
  <2>7. Joined(Parts(longer)) = Joined(Parts(chain)) \o Parts(longer)[m + 1]
    BY <2>1, <2>2, <2>3, <2>5, JoinedLast, SMTT(30)
  <2>. QED
    BY <1>1, <2>6, <2>7 DEF longer
<1>. QED
  BY <1>2, <1>4, <1>5

(***************************************************************************)
(* The same of the runtime receipts that were recorded into a stream.      *)
(***************************************************************************)
LEMMA SourcesOfChain ==
  /\ DirectSources(<<>>) = <<>>
  /\ \A chain \in Seq(Items) :
       /\ DirectSources(chain) \in Seq(RuntimeReceipts)
       /\ \A item \in Items : DirectSources(Append(chain, item)) = DirectSources(chain) \o SourcePart(item)
<1>. DEFINE Parts(chain) == [i \in DOMAIN chain |->
                               IF chain[i].type = "case" /\ chain[i].source # None
                               THEN <<chain[i].source>> ELSE <<>>]
<1>1. \A chain : DirectSources(chain) = Joined(Parts(chain))
  BY DEF DirectSources
<1>2. DirectSources(<<>>) = <<>>
  <2>1. Parts(<<>>) = <<>>
    OBVIOUS
  <2>. HIDE DEF Parts
  <2>. QED
    BY <1>1, <2>1, JoinedNone
<1>3. ASSUME NEW chain \in Seq(Items)
      PROVE  /\ Len(Parts(chain)) = Len(chain) /\ Len(chain) \in Nat
             /\ \A i \in 1..Len(chain) : Parts(chain)[i] = SourcePart(chain[i])
  <2>1. Len(chain) \in Nat /\ DOMAIN chain = 1..Len(chain)
    BY LenProperties
  <2>2. Parts(chain) = [i \in 1..Len(chain) |-> SourcePart(chain[i])]
    BY <2>1 DEF SourcePart
  <2>3. DOMAIN Parts(chain) = 1..Len(chain)
    BY <2>2
  <2>4. Len(Parts(chain)) = Len(chain)
    <3>. DEFINE p == [i \in 1..Len(chain) |-> SourcePart(chain[i])]
                S == {SourcePart(chain[i]) : i \in 1..Len(chain)}
    <3>1. p \in [1..Len(chain) -> S]
      OBVIOUS
    <3>2. Len(p) = Len(chain)
      <4>. HIDE DEF p, S
      <4>. QED
        BY <2>1, <3>1
    <3>. QED
      BY <2>2, <3>2
  <2>. QED
    BY <2>1, <2>2, <2>4
<1>. HIDE DEF Parts
<1>4. ASSUME NEW chain \in Seq(Items)
      PROVE  DirectSources(chain) \in Seq(RuntimeReceipts)
  <2>1. \A i \in 1..Len(chain) : chain[i] \in Items
    BY ElementOfSeq
  <2>2. \A i \in 1..Len(chain) : Parts(chain)[i] \in Seq(RuntimeReceipts)
    BY <1>3, <2>1, ItemTyped
  <2>. QED
    BY <1>1, <1>3, <2>2, JoinedTyped
<1>5. ASSUME NEW chain \in Seq(Items), NEW item \in Items
      PROVE  DirectSources(Append(chain, item)) = DirectSources(chain) \o SourcePart(item)
  <2>. DEFINE longer == Append(chain, item)
              m == Len(chain)
  <2>1. /\ longer \in Seq(Items) /\ Len(longer) = m + 1 /\ m \in Nat
        /\ \A i \in 1..m : longer[i] = chain[i]
        /\ longer[m + 1] = item
    BY <1>3, AppendProperties
  <2>. HIDE DEF longer, m
  <2>2. /\ Len(Parts(longer)) = m + 1
        /\ \A i \in 1..(m + 1) : Parts(longer)[i] = SourcePart(longer[i])
    BY <1>3, <2>1
  <2>3. /\ Len(Parts(chain)) = m
        /\ \A i \in 1..m : Parts(chain)[i] = SourcePart(chain[i])
    BY <1>3 DEF m
  <2>4. \A i \in 1..m : i \in 1..(m + 1)
    BY <2>1
  <2>5. \A i \in 1..m : Parts(longer)[i] = Parts(chain)[i]
    BY <2>1, <2>2, <2>3, <2>4
  <2>6. Parts(longer)[m + 1] = SourcePart(item)
    BY <2>1, <2>2
  <2>7. Joined(Parts(longer)) = Joined(Parts(chain)) \o Parts(longer)[m + 1]
    BY <2>1, <2>2, <2>3, <2>5, JoinedLast, SMTT(30)
  <2>. QED
    BY <1>1, <2>6, <2>7 DEF longer
<1>. QED
  BY <1>2, <1>4, <1>5

-----------------------------------------------------------------------------
(* The inductive invariant, in parts.  I stands for the issued receipts. *)

ActionNames == UNION {DOMAIN Manifests[o] : o \in Orchestrations}
Finals == CompactReceipts(ExecutionReceipts \cup {Foreign})
Details == [index : Nat, item : Cases]

Reducers ==
  [orch : Orchestrations, manifest : Orchestrations, bound : BOOLEAN, counts : CaseCounts,
   counters : EvidenceCounters, cases : Nat, children : Nat, details : Seq(Details),
   firstFailure : Nat \cup {None}, observed : SUBSET ActionNames,
   boundary : Boundaries \cup {None}, chain : Seq(Items),
   summary : AggregateSummaries \cup {None}, final : Finals \cup {None}]

Facades ==
  [first : RuntimeReceipts \cup {None}, last : RuntimeReceipts \cup {None},
   summary : AggregateSummaries \cup {None}, final : Finals \cup {None}]

\* A receipt that changes the state of its session is the only one to do so from there.
Lives(I, state) ==
  /\ \A r \in I : /\ r.result = IF Moves(r.kind) THEN r.prior + 1 ELSE r.prior
                  /\ r.result <= state[r.session]
  /\ \A r, q \in I : r.session = q.session /\ r.prior = q.prior /\ r.prior # r.result /\ q.prior # q.result
                       => r = q

Stretch(I, sources) ==
  {r \in I : /\ r.session = sources[1].session /\ r.prior # r.result
             /\ r.prior >= sources[1].prior /\ r.result <= sources[Len(sources)].result}

BoundaryOf(sources) ==
  [session |-> sources[1].session, initial |-> sources[1].prior,
   final |-> sources[Len(sources)].result, first |-> sources[1], last |-> sources[Len(sources)]]

\* The runtime receipts of a stream, its boundary and the two ends the facade holds.
Unbroken(I, sources, boundary, first, last) ==
  /\ \A i \in 1..Len(sources) : sources[i] \in I
  /\ sources = <<>> => boundary = None /\ first = None /\ last = None
  /\ sources # <<>> =>
       /\ \A r \in Stretch(I, sources) : \E i \in 1..Len(sources) : sources[i] = r
       /\ boundary = BoundaryOf(sources)
       /\ first = sources[1] /\ last = sources[Len(sources)]
       /\ sources[1].session = sources[Len(sources)].session

Counted(q, counts) ==
  /\ counts.total = Len(q) /\ counts.total <= MaxCases
  /\ counts.passed = Cardinality(Having(q, "passed"))
  /\ counts.failed = Cardinality(Having(q, "failed"))
  /\ counts.rejected = Cardinality(Having(q, "rejected"))
  /\ counts.failed + counts.rejected = Cardinality(Failures(q))

Summed(q, counters) == \A f \in CounterNames : counters[f] = Sum(q, f)

FirstFailed(q, first) ==
  \/ first = None /\ Failures(q) = {}
  \/ first \in Nat /\ first + 1 \in Failures(q) /\ \A j \in Failures(q) : first + 1 <= j

Kept(q) ==
  {i \in Failures(q) : Cardinality({j \in Failures(q) : j < i}) < MaxFailureDetails}

\* The retained details are the first failures, in order.
Detailed(q, details) ==
  /\ Len(details) = IF Cardinality(Failures(q)) < MaxFailureDetails THEN Cardinality(Failures(q))
                    ELSE MaxFailureDetails
  /\ \A k \in 1..Len(details) : /\ details[k].index + 1 \in Kept(q)
                                /\ details[k].item = q[details[k].index + 1]
  /\ \A k, l \in 1..Len(details) : k < l => details[k].index < details[l].index
  /\ \A i \in Kept(q) : \E k \in 1..Len(details) : details[k].index + 1 = i

\* How many items there are, and of which kind.
Itemized(q, n) ==
  /\ n.cases + n.children <= n.counts.total
  /\ n.counts.total > 0 => n.cases + n.children > 0
  /\ n.children = 0 => q = n.chain /\ n.cases = n.counts.total
  /\ n.children = 0 <=> \A i \in 1..Len(n.chain) : n.chain[i].type = "case"

Accounted(q, n) ==
  /\ Counted(q, n.counts) /\ Summed(q, n.counters) /\ FirstFailed(q, n.firstFailure)
  /\ Detailed(q, n.details) /\ Itemized(q, n)
  /\ n.counts.failed + n.counts.rejected = 0 => n.counters.mismatches = 0

Colds(q, action, key) ==
  {i \in 1..Len(q) : q[i].source.kind = "cold" /\ q[i].source.action = action /\ q[i].source.key = key}

HitsFollow(q) ==
  \A i \in 1..Len(q) : q[i].source.kind = "hit" =>
    \E j \in Colds(q, q[i].source.action, q[i].source.key) : j < i

Observed(q, n) ==
  \A action \in n.observed : /\ action \in DOMAIN Manifests[n.manifest]
                             /\ Colds(q, action, Manifests[n.manifest][action].key) # {}

\* Live sources, and what was observed of them.
Sourced(I, q, n) ==
  /\ \A i \in 1..Len(q) : q[i].source # None => (q[i].status = "passed" <=> Accepted(q[i].source))
  /\ n.bound => /\ \A i \in 1..Len(q) : q[i].source \in I
                /\ HitsFollow(q) /\ Observed(q, n)
  /\ ~ n.bound => \E i \in 1..Len(n.chain) : n.chain[i].type = "case" /\ n.chain[i].source = None

\* What is sealed is what is there.
Sealed(n, f) ==
  /\ n.summary # None => n.summary = Summary(n) /\ Covered(n) /\ n.counts.total > 0
  /\ f.summary # None => f.summary = n.summary
  /\ n.final # None => f.summary # None /\ n.final = CompactReceipt(n, n.final.execution)
  /\ f.final = n.final

Sound(I, n, f) ==
  /\ Accounted(CasesOf(n.chain), n)
  /\ Sourced(I, CasesOf(n.chain), n)
  /\ Unbroken(I, DirectSources(n.chain), n.boundary, f.first, f.last)
  /\ Sealed(n, f)

EvidenceTypes ==
  /\ at \in [Sessions -> Nat] /\ issued \subseteq RuntimeReceipts
  /\ native \in [Accumulators -> Reducers] /\ facade \in [Accumulators -> Facades]

EvidenceInv ==
  /\ EvidenceTypes
  /\ Lives(issued, at)
  /\ \A a \in Accumulators : Sound(issued, native[a], facade[a])

-----------------------------------------------------------------------------
(* One more case, or the cases of a child *)

(***************************************************************************)
(* The failures and the cases of a status of a stream are finitely many    *)
(* of its positions.                                                       *)
(***************************************************************************)
LEMMA PositionsFinite ==
  ASSUME NEW q \in Seq(Cases)
  PROVE  /\ Len(q) \in Nat /\ DOMAIN q = 1..Len(q)
         /\ Failures(q) \subseteq 1..Len(q) /\ IsFiniteSet(Failures(q))
         /\ Cardinality(Failures(q)) \in Nat
         /\ \A s : /\ Having(q, s) \subseteq 1..Len(q) /\ IsFiniteSet(Having(q, s))
                   /\ Cardinality(Having(q, s)) \in Nat
<1>1. Len(q) \in Nat /\ DOMAIN q = 1..Len(q)
  BY LenProperties
<1>2. IsFiniteSet(1..Len(q))
  BY <1>1, FS_Interval
<1>3. \A T \in SUBSET (1..Len(q)) : IsFiniteSet(T) /\ Cardinality(T) \in Nat
  BY <1>2, FS_Subset, FS_CardinalityType
<1>4. Failures(q) \in SUBSET (1..Len(q)) /\ \A s : Having(q, s) \in SUBSET (1..Len(q))
  BY <1>1 DEF Failures, Having
<1>. QED
  BY <1>1, <1>3, <1>4

OneLonger(u, q, c) ==
  /\ u \in Seq(Cases) /\ Len(u) = Len(q) + 1
  /\ \A i \in 1..Len(q) : u[i] = q[i]
  /\ u[Len(q) + 1] = c
  /\ Failures(u) = IF c.status = "passed" THEN Failures(q) ELSE Failures(q) \cup {Len(q) + 1}
  /\ \A s : Having(u, s) = IF c.status = s THEN Having(q, s) \cup {Len(q) + 1} ELSE Having(q, s)

(***************************************************************************)
(* A stream with one case more.                                            *)
(***************************************************************************)
LEMMA OneMore ==
  ASSUME NEW q \in Seq(Cases), NEW c \in Cases, NEW u, u = q \o <<c>>
  PROVE  OneLonger(u, q, c)
<1>0. u = Append(q, c)
  BY AppendIsConcat
<1>1. /\ u \in Seq(Cases) /\ Len(u) = Len(q) + 1
      /\ \A i \in 1..Len(q) : u[i] = q[i]
      /\ u[Len(q) + 1] = c
  BY <1>0, AppendProperties
<1>2. Len(q) \in Nat /\ DOMAIN q = 1..Len(q) /\ DOMAIN u = 1..Len(u)
  BY <1>1, PositionsFinite
<1>3. \A i : i \in 1..Len(u) <=> i \in 1..Len(q) \/ i = Len(q) + 1
  BY <1>1, <1>2
<1>. DEFINE L == Len(q)
<1>4. \A i : i \in DOMAIN u <=> i \in DOMAIN q \/ i = L + 1
  BY <1>2, <1>3
<1>5. \A i \in DOMAIN q : u[i] = q[i]
  BY <1>1, <1>2
<1>6. u[L + 1] = c
  BY <1>1
<1>. HIDE DEF L
<1>7. Failures(u) = IF c.status = "passed" THEN Failures(q) ELSE Failures(q) \cup {L + 1}
  <2>1. \A i : i \in Failures(u) <=> i \in DOMAIN u /\ u[i].status # "passed"
    BY DEF Failures
  <2>2. \A i : i \in Failures(q) <=> i \in DOMAIN q /\ q[i].status # "passed"
    BY DEF Failures
  <2>3. CASE c.status = "passed"
    <3>1. \A i : i \in Failures(u) <=> i \in Failures(q)
      BY <1>4, <1>5, <1>6, <2>1, <2>2, <2>3
    <3>. QED
      BY <2>3, <3>1
  <2>4. CASE c.status # "passed"
    <3>1. \A i : i \in Failures(u) <=> i \in Failures(q) \/ i = L + 1
      BY <1>4, <1>5, <1>6, <2>1, <2>2, <2>4
    <3>. QED
      BY <2>4, <3>1
  <2>. QED
    BY <2>3, <2>4
<1>8. ASSUME NEW s
      PROVE  Having(u, s) = IF c.status = s THEN Having(q, s) \cup {L + 1} ELSE Having(q, s)
  <2>1. \A i : i \in Having(u, s) <=> i \in DOMAIN u /\ u[i].status = s
    BY DEF Having
  <2>2. \A i : i \in Having(q, s) <=> i \in DOMAIN q /\ q[i].status = s
    BY DEF Having
  <2>3. CASE c.status = s
    <3>1. \A i : i \in Having(u, s) <=> i \in Having(q, s) \/ i = L + 1
      BY <1>4, <1>5, <1>6, <2>1, <2>2, <2>3
    <3>. QED
      BY <2>3, <3>1
  <2>4. CASE c.status # s
    <3>1. \A i : i \in Having(u, s) <=> i \in Having(q, s)
      BY <1>4, <1>5, <1>6, <2>1, <2>2, <2>4
    <3>. QED
      BY <2>4, <3>1
  <2>. QED
    BY <2>3, <2>4
<1>. QED
  BY <1>1, <1>7, <1>8 DEF L, OneLonger

Continues(u, q, t) ==
  /\ Len(u) = Len(q) + Len(t)
  /\ \A i \in 1..(Len(q) + Len(t)) : u[i] = IF i <= Len(q) THEN q[i] ELSE t[i - Len(q)]

Lengthened(u, q, t) ==
  /\ \A i \in 1..Len(q) : u[i] = q[i]
  /\ \A i \in 1..Len(t) : u[Len(q) + i] = t[i]
  /\ \A i : i \in 1..Len(u) <=> i \in 1..Len(q) \/ \E j \in 1..Len(t) : i = Len(q) + j
  /\ Failures(u) = Failures(q)
  /\ \A s \in {"failed", "rejected"} : Having(u, s) = Having(q, s)
  /\ Cardinality(Having(u, "passed")) = Cardinality(Having(q, "passed")) + Len(t)
  /\ Cardinality(Having(t, "passed")) = Len(t)

(***************************************************************************)
(* A stream continued by cases that all passed.                            *)
(***************************************************************************)
LEMMA ManyMore ==
  ASSUME NEW q \in Seq(Cases), NEW t \in Seq(Cases), Failures(t) = {}, NEW u \in Seq(Cases),
         Continues(u, q, t)
  PROVE  Lengthened(u, q, t)
<1>. DEFINE a == Len(q)
            b == Len(t)
<1>1. /\ u \in Seq(Cases) /\ Len(u) = a + b
      /\ \A i \in 1..(a + b) : u[i] = IF i <= a THEN q[i] ELSE t[i - a]
  BY DEF Continues
<1>2. /\ a \in Nat /\ b \in Nat /\ DOMAIN q = 1..a /\ DOMAIN t = 1..b /\ DOMAIN u = 1..(a + b)
  BY <1>1, PositionsFinite
<1>3. \A i \in 1..b : t[i].status = "passed"
  BY <1>2 DEF Failures
<1>. HIDE DEF a, b
<1>4. \A i \in 1..a : u[i] = q[i]
  BY <1>1, <1>2
<1>5. \A i \in 1..b : u[a + i] = t[i]
  <2>. TAKE i \in 1..b
  <2>1. a + i \in 1..(a + b) /\ ~(a + i <= a) /\ (a + i) - a = i
    BY <1>2
  <2>. QED
    BY <1>1, <2>1
<1>6. \A i : i \in 1..(a + b) <=> i \in 1..a \/ i \in (a + 1)..(a + b)
  BY <1>2
<1>7. \A i \in (a + 1)..(a + b) : u[i].status = "passed"
  <2>. TAKE i \in (a + 1)..(a + b)
  <2>1. i \in 1..(a + b) /\ ~(i <= a) /\ i - a \in 1..b
    BY <1>2
  <2>. QED
    BY <1>1, <1>3, <2>1
<1>. DEFINE A == 1..a
            T == (a + 1)..(a + b)
            U == 1..(a + b)
<1>8. /\ \A i : i \in U <=> i \in A \/ i \in T
      /\ \A i \in A : u[i].status = q[i].status
      /\ \A i \in T : u[i].status = "passed"
      /\ \A i : i \in Failures(u) <=> i \in U /\ u[i].status # "passed"
      /\ \A i : i \in Failures(q) <=> i \in A /\ q[i].status # "passed"
      /\ \A i, s : i \in Having(u, s) <=> i \in U /\ u[i].status = s
      /\ \A i, s : i \in Having(q, s) <=> i \in A /\ q[i].status = s
  BY <1>2, <1>4, <1>6, <1>7 DEF Failures, Having
<1>. HIDE DEF A, T, U
<1>9. Failures(u) = Failures(q)
  <2>1. \A i : i \in Failures(u) <=> i \in Failures(q)
    BY <1>8
  <2>. QED
    BY <2>1
<1>10. ASSUME NEW s \in {"failed", "rejected"} PROVE Having(u, s) = Having(q, s)
  <2>1. \A i : i \in Having(u, s) <=> i \in Having(q, s)
    BY <1>8
  <2>. QED
    BY <2>1
<1>11. Cardinality(Having(u, "passed")) = Cardinality(Having(q, "passed")) + b
  <2>. DEFINE S == Having(q, "passed")
  <2>0. Having(u, "passed") = S \cup T
    <3>1. \A i : i \in Having(u, "passed") <=> i \in Having(q, "passed") \/ i \in T
      BY <1>8
    <3>. QED
      BY <3>1
  <2>1. IsFiniteSet(S) /\ S \subseteq 1..a
    BY PositionsFinite DEF a
  <2>2. IsFiniteSet(T) /\ Cardinality(T) = b
    <3>1. a + 1 \in Int /\ a + b \in Int /\ (IF a + 1 > a + b THEN 0 ELSE (a + b) - (a + 1) + 1) = b
      BY <1>2
    <3>. QED
      BY <3>1, FS_Interval DEF T
  <2>3. S \cap T = {}
    BY <1>2, <2>1 DEF T
  <2>. HIDE DEF S
  <2>4. Cardinality(S \cup T) = Cardinality(S) + Cardinality(T) - Cardinality(S \cap T)
    BY <2>1, <2>2, FS_Union
  <2>5. Cardinality(S \cap T) = 0 /\ Cardinality(S) \in Nat
    BY <2>1, <2>3, FS_EmptySet, FS_CardinalityType
  <2>6. Cardinality(S \cup T) = Cardinality(S) + b
    BY <1>2, <2>2, <2>4, <2>5
  <2>. QED
    BY <2>0, <2>6 DEF S
<1>12. Cardinality(Having(t, "passed")) = b
  <2>1. Having(t, "passed") = 1..b
    BY <1>2, <1>3 DEF Having
  <2>2. 1 \in Int /\ b \in Int /\ (IF 1 > b THEN 0 ELSE b - 1 + 1) = b
    BY <1>2
  <2>. QED
    BY <2>1, <2>2, FS_Interval
<1>13. \A i : i \in 1..(a + b) <=> i \in 1..a \/ \E j \in 1..b : i = a + j
  <2>1. \A i \in (a + 1)..(a + b) : i - a \in 1..b /\ i = a + (i - a)
    BY <1>2
  <2>2. \A j \in 1..b : a + j \in 1..(a + b)
    BY <1>2
  <2>. QED
    BY <1>6, <2>1, <2>2
<1>. QED
  BY <1>1, <1>4, <1>5, <1>9, <1>10, <1>11, <1>12, <1>13 DEF a, b, Lengthened

-----------------------------------------------------------------------------
(* What ingestion does to the fields of a reducer *)

(***************************************************************************)
(* Case counts are added field by field.                                   *)
(***************************************************************************)
LEMMA AddCounts ==
  ASSUME NEW x \in CaseCounts, NEW y \in CaseCounts
  PROVE  /\ CheckedAdd(x, y) \in CaseCounts
         /\ CheckedAdd(x, y).passed = x.passed + y.passed
         /\ CheckedAdd(x, y).failed = x.failed + y.failed
         /\ CheckedAdd(x, y).rejected = x.rejected + y.rejected
         /\ CheckedAdd(x, y).total = x.total + y.total
<1>. DEFINE z == CheckedAdd(x, y)
<1>1. DOMAIN x = {"passed", "failed", "rejected", "total"}
  BY DEF CaseCounts
<1>2. z = [f \in {"passed", "failed", "rejected", "total"} |-> x[f] + y[f]]
  BY <1>1 DEF CheckedAdd
<1>. HIDE DEF z
<1>3. /\ z.passed = x.passed + y.passed /\ z.failed = x.failed + y.failed
      /\ z.rejected = x.rejected + y.rejected /\ z.total = x.total + y.total
  BY <1>2
<1>4. /\ x.passed \in Nat /\ x.failed \in Nat /\ x.rejected \in Nat /\ x.total \in Nat
      /\ y.passed \in Nat /\ y.failed \in Nat /\ y.rejected \in Nat /\ y.total \in Nat
  BY DEF CaseCounts
<1>5. \A f \in {"passed", "failed", "rejected", "total"} : z[f] \in Nat
  BY <1>2, <1>4
<1>6. z \in CaseCounts
  BY <1>2, <1>5 DEF CaseCounts
<1>. QED
  BY <1>3, <1>6 DEF z

(***************************************************************************)
(* Counters are added field by field.                                      *)
(***************************************************************************)
LEMMA AddCounters ==
  ASSUME NEW x \in EvidenceCounters, NEW y \in EvidenceCounters
  PROVE  /\ CheckedAdd(x, y) \in EvidenceCounters
         /\ \A f \in CounterNames : CheckedAdd(x, y)[f] = x[f] + y[f]
         /\ CheckedAdd(x, y).mismatches = x.mismatches + y.mismatches
<1>. DEFINE z == CheckedAdd(x, y)
<1>1. DOMAIN x = CounterNames /\ \A f \in CounterNames : x[f] \in Nat /\ y[f] \in Nat
  BY CounterTyped
<1>2. z = [f \in CounterNames |-> x[f] + y[f]]
  BY <1>1 DEF CheckedAdd
<1>. HIDE DEF z
<1>3. \A f \in CounterNames : z[f] = x[f] + y[f] /\ z[f] \in Nat
  BY <1>1, <1>2
<1>4. z \in EvidenceCounters
  BY <1>2, <1>3 DEF EvidenceCounters, CounterNames
<1>5. z.mismatches = x.mismatches + y.mismatches
  BY <1>3 DEF CounterNames
<1>. QED
  BY <1>3, <1>4, <1>5 DEF z

(***************************************************************************)
(* What one case counts for.                                               *)
(***************************************************************************)
LEMMA CountOfOne ==
  ASSUME NEW s \in Statuses
  PROVE  /\ CountOf(s) \in CaseCounts /\ CountOf(s).total = 1
         /\ CountOf(s).passed = (IF s = "passed" THEN 1 ELSE 0)
         /\ CountOf(s).failed = (IF s = "failed" THEN 1 ELSE 0)
         /\ CountOf(s).rejected = (IF s = "rejected" THEN 1 ELSE 0)
BY DEF CountOf, One, CaseCounts

(***************************************************************************)
(* A receipt extends the boundary of a stream to a boundary.               *)
(***************************************************************************)
LEMMA BoundaryTyped ==
  ASSUME NEW b \in Boundaries \cup {None}, NEW r \in RuntimeReceipts
  PROVE  ExtendBoundary(b, r) \in Boundaries
<1>1. r.session \in Sessions /\ r.prior \in Nat /\ r.result \in Nat
  BY DEF RuntimeReceipts
<1>2. CASE b = None
  BY <1>1, <1>2 DEF ExtendBoundary, Boundaries
<1>3. CASE b # None
  BY <1>1, <1>3 DEF ExtendBoundary, Boundaries
<1>. QED
  BY <1>2, <1>3

CaseIngested(m, n, item) ==
  /\ m \in Reducers
  /\ m.orch = n.orch /\ m.manifest = n.manifest /\ m.bound = n.bound
  /\ m.counts = CheckedAdd(n.counts, CountOf(item.status))
  /\ m.counters = CheckedAdd(n.counters, item.counters)
  /\ m.cases = n.cases + 1 /\ m.children = n.children
  /\ m.chain = Append(n.chain, item)
  /\ m.boundary = (IF item.source = None THEN n.boundary
                   ELSE ExtendBoundary(n.boundary, item.source))
  /\ m.firstFailure = (IF item.status # "passed" /\ n.firstFailure = None
                       THEN n.counts.total ELSE n.firstFailure)
  /\ m.details = (IF item.status # "passed" /\ Len(n.details) < MaxFailureDetails
                  THEN Append(n.details, [index |-> n.counts.total, item |-> item])
                  ELSE n.details)
  /\ m.observed = n.observed /\ m.summary = n.summary /\ m.final = n.final

(***************************************************************************)
(* The reducer after a case.                                               *)
(***************************************************************************)
LEMMA CaseFields ==
  ASSUME NEW n \in Reducers, NEW item \in Cases, NEW m, m = IngestCase(n, item)
  PROVE  CaseIngested(m, n, item)
<1>. DEFINE counts == CheckedAdd(n.counts, CountOf(item.status))
            counters == CheckedAdd(n.counters, item.counters)
            chain == Append(n.chain, item)
            boundary == IF item.source = None THEN n.boundary
                        ELSE ExtendBoundary(n.boundary, item.source)
            first == IF item.status # "passed" /\ n.firstFailure = None
                     THEN n.counts.total ELSE n.firstFailure
            details == IF item.status # "passed" /\ Len(n.details) < MaxFailureDetails
                       THEN Append(n.details, [index |-> n.counts.total, item |-> item])
                       ELSE n.details
<1>1. /\ n.counts \in CaseCounts /\ n.counters \in EvidenceCounters /\ n.cases \in Nat
      /\ n.chain \in Seq(Items) /\ n.boundary \in Boundaries \cup {None}
      /\ n.firstFailure \in Nat \cup {None} /\ n.details \in Seq(Details)
  BY DEF Reducers
<1>2. /\ item.status \in Statuses /\ item.counters \in EvidenceCounters
      /\ item.source \in RuntimeReceipts \cup {None} /\ item \in Items
  BY DEF Cases, Items
<1>3. counts \in CaseCounts
  BY <1>1, <1>2, AddCounts, CountOfOne
<1>4. counters \in EvidenceCounters
  BY <1>1, <1>2, AddCounters
<1>5. chain \in Seq(Items)
  BY <1>1, <1>2, AppendProperties
<1>6. boundary \in Boundaries \cup {None}
  BY <1>1, <1>2, BoundaryTyped
<1>7. n.counts.total \in Nat
  BY <1>1 DEF CaseCounts
<1>8. first \in Nat \cup {None}
  BY <1>1, <1>7
<1>9. details \in Seq(Details)
  <2>1. [index |-> n.counts.total, item |-> item] \in Details
    BY <1>7 DEF Details
  <2>. QED
    BY <1>1, <2>1, AppendProperties
<1>10. m = [n EXCEPT !.counts = counts, !.counters = counters, !.cases = @ + 1, !.chain = chain,
                     !.boundary = boundary, !.firstFailure = first, !.details = details]
  BY DEF IngestCase, Reducers
<1>. HIDE DEF counts, counters, chain, boundary, first, details
<1>11. /\ m.counts = counts /\ m.counters = counters /\ m.cases = n.cases + 1 /\ m.chain = chain
       /\ m.boundary = boundary /\ m.firstFailure = first /\ m.details = details
  BY <1>10 DEF Reducers
<1>12. /\ m.orch = n.orch /\ m.manifest = n.manifest /\ m.bound = n.bound /\ m.children = n.children
       /\ m.observed = n.observed /\ m.summary = n.summary /\ m.final = n.final
  BY <1>10 DEF Reducers
<1>13. m \in Reducers
  <2>1. n.cases + 1 \in Nat
    BY <1>1
  <2>. QED
    BY <1>3, <1>4, <1>5, <1>6, <1>8, <1>9, <1>10, <2>1, ZenonT(40) DEF Reducers
<1>. QED
  BY <1>11, <1>12, <1>13 DEF counts, counters, chain, boundary, first, details, CaseIngested

ChildIngested(m, n, receipt) ==
  /\ m \in Reducers
  /\ m.orch = n.orch /\ m.manifest = n.manifest /\ m.bound = n.bound
  /\ m.counts = CheckedAdd(n.counts, receipt.counts)
  /\ m.counters = CheckedAdd(n.counters, receipt.counters)
  /\ m.cases = n.cases /\ m.children = n.children + 1
  /\ m.chain = Append(n.chain, ChildItem(receipt)) /\ ChildItem(receipt) \in Items
  /\ m.boundary = n.boundary /\ m.firstFailure = n.firstFailure /\ m.details = n.details
  /\ m.observed = DOMAIN Manifests[n.manifest] /\ m.summary = n.summary /\ m.final = n.final

(***************************************************************************)
(* The reducer after a child receipt.                                      *)
(***************************************************************************)
LEMMA ChildFields ==
  ASSUME NEW n \in Reducers, NEW receipt \in Finals, NEW m, m = IngestReceipt(n, receipt)
  PROVE  ChildIngested(m, n, receipt)
<1>. DEFINE counts == CheckedAdd(n.counts, receipt.counts)
            counters == CheckedAdd(n.counters, receipt.counters)
            chain == Append(n.chain, ChildItem(receipt))
            observed == DOMAIN Manifests[n.manifest]
<1>1. /\ n.counts \in CaseCounts /\ n.counters \in EvidenceCounters /\ n.children \in Nat
      /\ n.chain \in Seq(Items) /\ n.manifest \in Orchestrations
  BY DEF Reducers
<1>2. /\ receipt.counts \in CaseCounts /\ receipt.counters \in EvidenceCounters
      /\ receipt.chain \in Seq(Items)
  BY DEF Finals, CompactReceipts
<1>3. counts \in CaseCounts
  BY <1>1, <1>2, AddCounts
<1>4. counters \in EvidenceCounters
  BY <1>1, <1>2, AddCounters
<1>5. ChildItem(receipt) \in Items
  <2>1. CasesOf(receipt.chain) \in Seq(Cases)
    BY <1>2, CasesOfChain
  <2>. QED
    BY <2>1 DEF ChildItem, Items
<1>6. chain \in Seq(Items)
  BY <1>1, <1>5, AppendProperties
<1>7. observed \in SUBSET ActionNames
  BY <1>1 DEF ActionNames
<1>8. m = [n EXCEPT !.counts = counts, !.counters = counters, !.children = @ + 1, !.chain = chain,
                    !.observed = observed]
  BY DEF IngestReceipt, Reducers
<1>. HIDE DEF counts, counters, chain, observed
<1>9. /\ m.counts = counts /\ m.counters = counters /\ m.children = n.children + 1 /\ m.chain = chain
      /\ m.observed = observed
  BY <1>8 DEF Reducers
<1>10. /\ m.orch = n.orch /\ m.manifest = n.manifest /\ m.bound = n.bound /\ m.cases = n.cases
       /\ m.boundary = n.boundary /\ m.firstFailure = n.firstFailure /\ m.details = n.details
       /\ m.summary = n.summary /\ m.final = n.final
  BY <1>8 DEF Reducers
<1>11. m \in Reducers
  <2>1. n.children + 1 \in Nat
    BY <1>1
  <2>. QED
    BY <1>3, <1>4, <1>6, <1>7, <1>8, <2>1, ZenonT(40) DEF Reducers
<1>. QED
  BY <1>5, <1>9, <1>10, <1>11 DEF counts, counters, chain, observed, ChildIngested

-----------------------------------------------------------------------------
(* The books of a reducer stay right: one more case *)

(***************************************************************************)
(* Ingesting a case makes the stream of cases one longer.                  *)
(***************************************************************************)
LEMMA ChainWithCase ==
  ASSUME NEW chain \in Seq(Items), NEW c \in Cases
  PROVE  /\ CasesOf(chain) \in Seq(Cases)
         /\ CasesOf(Append(chain, c)) = CasesOf(chain) \o <<c>>
         /\ OneLonger(CasesOf(Append(chain, c)), CasesOf(chain), c)
<1>1. c \in Items /\ c.type = "case"
  BY DEF Items, Cases
<1>2. PartOf(c) = <<c>>
  BY <1>1 DEF PartOf
<1>. DEFINE q == CasesOf(chain)
            u == CasesOf(Append(chain, c))
<1>3. q \in Seq(Cases) /\ u = q \o <<c>>
  BY <1>1, <1>2, CasesOfChain
<1>. HIDE DEF q, u
<1>4. OneLonger(u, q, c)
  BY <1>3, OneMore
<1>. QED
  BY <1>3, <1>4 DEF q, u

(***************************************************************************)
(* The counts are right after one more case.                               *)
(***************************************************************************)
LEMMA CountedMore ==
  ASSUME NEW q \in Seq(Cases), NEW c \in Cases, NEW u, OneLonger(u, q, c),
         NEW counts \in CaseCounts, Counted(q, counts), counts.total + 1 <= MaxCases
  PROVE  Counted(u, CheckedAdd(counts, CountOf(c.status)))
<1>. DEFINE new == CheckedAdd(counts, CountOf(c.status))
            F == Failures(q)
            L == Len(q)
<1>1. c.status \in Statuses
  BY DEF Cases
<1>2. /\ new.total = counts.total + 1
      /\ new.passed = counts.passed + (IF c.status = "passed" THEN 1 ELSE 0)
      /\ new.failed = counts.failed + (IF c.status = "failed" THEN 1 ELSE 0)
      /\ new.rejected = counts.rejected + (IF c.status = "rejected" THEN 1 ELSE 0)
  BY <1>1, AddCounts, CountOfOne
<1>3. counts.total \in Nat /\ counts.passed \in Nat /\ counts.failed \in Nat /\ counts.rejected \in Nat
  BY DEF CaseCounts
<1>4. L \in Nat /\ F \subseteq 1..L /\ IsFiniteSet(F)
      /\ \A s : Having(q, s) \subseteq 1..L /\ IsFiniteSet(Having(q, s))
  BY PositionsFinite
<1>5. Len(u) = L + 1
  BY DEF OneLonger
<1>. HIDE DEF new
<1>6. ASSUME NEW s
      PROVE  Cardinality(Having(u, s)) = Cardinality(Having(q, s)) + (IF c.status = s THEN 1 ELSE 0)
  <2>. DEFINE H == Having(q, s)
  <2>1. H \subseteq 1..L /\ IsFiniteSet(H)
    BY <1>4
  <2>2. L + 1 \notin H
    BY <1>4, <2>1
  <2>3. Cardinality(H) \in Nat
    BY <2>1, FS_CardinalityType
  <2>4. CASE c.status = s
    <3>1. Having(u, s) = H \cup {L + 1}
      BY <2>4 DEF OneLonger
    <3>. HIDE DEF H, L
    <3>2. Cardinality(H \cup {L + 1}) = Cardinality(H) + 1
      BY <2>1, <2>2, FS_AddElement
    <3>. QED
      BY <2>4, <3>1, <3>2 DEF H
  <2>5. CASE c.status # s
    <3>1. Having(u, s) = H
      BY <2>5 DEF OneLonger
    <3>. HIDE DEF H, L
    <3>2. Cardinality(H) = Cardinality(H) + 0
      BY <2>3
    <3>. QED
      BY <2>5, <3>1, <3>2 DEF H
  <2>. QED
    BY <2>4, <2>5
<1>7. Cardinality(Failures(u)) = Cardinality(F) + (IF c.status = "passed" THEN 0 ELSE 1)
  <2>2. L + 1 \notin F
    BY <1>4
  <2>3. Cardinality(F) \in Nat
    BY <1>4, FS_CardinalityType
  <2>4. CASE c.status # "passed"
    <3>1. Failures(u) = F \cup {L + 1}
      BY <2>4 DEF OneLonger
    <3>. HIDE DEF F, L
    <3>2. Cardinality(F \cup {L + 1}) = Cardinality(F) + 1
      BY <1>4, <2>2, FS_AddElement
    <3>. QED
      BY <2>4, <3>1, <3>2
  <2>5. CASE c.status = "passed"
    <3>1. Failures(u) = F
      BY <2>5 DEF OneLonger
    <3>. HIDE DEF F, L
    <3>2. Cardinality(F) = Cardinality(F) + 0
      BY <2>3
    <3>. QED
      BY <2>5, <3>1, <3>2
  <2>. QED
    BY <2>4, <2>5
<1>8. /\ counts.total = L /\ counts.passed = Cardinality(Having(q, "passed"))
      /\ counts.failed = Cardinality(Having(q, "failed"))
      /\ counts.rejected = Cardinality(Having(q, "rejected"))
      /\ counts.failed + counts.rejected = Cardinality(F)
  BY DEF Counted
<1>. HIDE DEF F, L
<1>9. /\ new.total = Len(u) /\ new.total <= MaxCases
      /\ new.passed = Cardinality(Having(u, "passed"))
      /\ new.failed = Cardinality(Having(u, "failed"))
      /\ new.rejected = Cardinality(Having(u, "rejected"))
  BY <1>2, <1>3, <1>4, <1>5, <1>6, <1>8
<1>10. (IF c.status = "failed" THEN 1 ELSE 0) + (IF c.status = "rejected" THEN 1 ELSE 0)
         = (IF c.status = "passed" THEN 0 ELSE 1)
  BY <1>1 DEF Statuses
<1>11. new.failed + new.rejected = Cardinality(Failures(u))
  BY <1>1, <1>2, <1>3, <1>7, <1>8 DEF Statuses
<1>. QED
  BY <1>9, <1>11 DEF Counted, new

(***************************************************************************)
(* The sums are right after one more case.                                 *)
(***************************************************************************)
LEMMA SummedMore ==
  ASSUME NEW q \in Seq(Cases), NEW c \in Cases,
         NEW counters \in EvidenceCounters, Summed(q, counters)
  PROVE  Summed(q \o <<c>>, CheckedAdd(counters, c.counters))
<1>1. c.counters \in EvidenceCounters
  BY DEF Cases
<1>2. ASSUME NEW f \in CounterNames
      PROVE  CheckedAdd(counters, c.counters)[f] = Sum(q \o <<c>>, f)
  <2>1. CheckedAdd(counters, c.counters)[f] = counters[f] + c.counters[f]
    BY <1>1, AddCounters
  <2>2. counters[f] = Sum(q, f)
    BY DEF Summed
  <2>3. <<c>> \in Seq(Cases)
    OBVIOUS
  <2>4. Sum(q \o <<c>>, f) = Sum(q, f) + Sum(<<c>>, f)
    BY <2>3, SumJoined
  <2>5. Sum(<<c>>, f) = c.counters[f]
    BY SumSmall
  <2>. QED
    BY <2>1, <2>2, <2>4, <2>5
<1>. QED
  BY <1>2 DEF Summed

(***************************************************************************)
(* The first failure is right after one more case.                         *)
(***************************************************************************)
LEMMA FirstFailedMore ==
  ASSUME NEW q \in Seq(Cases), NEW c \in Cases, NEW u, OneLonger(u, q, c),
         NEW first, FirstFailed(q, first)
  PROVE  FirstFailed(u, IF c.status # "passed" /\ first = None THEN Len(q) ELSE first)
<1>. DEFINE L == Len(q)
            F == Failures(q)
<1>1. L \in Nat /\ F \subseteq 1..L
  BY PositionsFinite
<1>2. Failures(u) = IF c.status = "passed" THEN F ELSE F \cup {L + 1}
  BY DEF OneLonger
<1>3. None \notin Nat
  BY EvidenceNoneAssumption
<1>4. FirstFailed(q, first) <=> (first = None /\ F = {})
        \/ (first \in Nat /\ first + 1 \in F /\ \A j \in F : first + 1 <= j)
  BY DEF FirstFailed
<1>. HIDE DEF L, F
<1>5. CASE c.status = "passed"
  BY <1>2, <1>4, <1>5 DEF FirstFailed
<1>6. CASE c.status # "passed" /\ first = None
  <2>1. F = {}
    BY <1>3, <1>4, <1>6
  <2>2. Failures(u) = {L + 1}
    BY <1>2, <1>6, <2>1
  <2>3. L + 1 <= L + 1
    BY <1>1
  <2>4. FirstFailed(u, L)
    BY <1>1, <2>2, <2>3 DEF FirstFailed
  <2>. QED
    BY <1>6, <2>4 DEF L
<1>7. CASE c.status # "passed" /\ first # None
  <2>1. first \in Nat /\ first + 1 \in F /\ \A j \in F : first + 1 <= j
    BY <1>4, <1>7
  <2>2. first + 1 <= L + 1
    BY <1>1, <2>1
  <2>3. Failures(u) = F \cup {L + 1}
    BY <1>2, <1>7
  <2>4. FirstFailed(u, first)
    BY <2>1, <2>2, <2>3 DEF FirstFailed
  <2>. QED
    BY <1>7, <2>4
<1>. QED
  BY <1>5, <1>6, <1>7

(***************************************************************************)
(* Which failures are kept after one more case: those before, and the new  *)
(* one when there is room.                                                 *)
(***************************************************************************)
LEMMA KeptMore ==
  ASSUME NEW q \in Seq(Cases), NEW c \in Cases, NEW u, OneLonger(u, q, c)
  PROVE  Kept(u) = IF c.status # "passed" /\ Cardinality(Failures(q)) < MaxFailureDetails
                   THEN Kept(q) \cup {Len(q) + 1} ELSE Kept(q)
<1>. DEFINE L == Len(q)
            F == Failures(q)
            G == Failures(u)
            Before(S, i) == {j \in S : j < i}
<1>1. L \in Nat /\ F \subseteq 1..L
  BY PositionsFinite
<1>2. G = IF c.status = "passed" THEN F ELSE F \cup {L + 1}
  BY DEF OneLonger
<1>3. \A i : i \in Kept(q) <=> i \in F /\ Cardinality(Before(F, i)) < MaxFailureDetails
  BY DEF Kept
<1>4. \A i : i \in Kept(u) <=> i \in G /\ Cardinality(Before(G, i)) < MaxFailureDetails
  BY DEF Kept
<1>. HIDE DEF L, F, G
<1>5. CASE c.status = "passed"
  <2>1. G = F
    BY <1>2, <1>5
  <2>2. \A i : i \in Kept(u) <=> i \in Kept(q)
    <3>. HIDE DEF Before
    <3>. QED
      BY <1>3, <1>4, <2>1
  <2>. QED
    BY <1>5, <2>2
<1>6. CASE c.status # "passed"
  <2>1. G = F \cup {L + 1}
    BY <1>2, <1>6
  <2>2. \A i \in F : Before(G, i) = Before(F, i)
    BY <1>1, <2>1
  <2>3. Before(G, L + 1) = F
    <3>1. \A j \in F : j < L + 1
      BY <1>1
    <3>2. ~(L + 1 < L + 1)
      BY <1>1
    <3>3. \A j : j \in Before(G, L + 1) <=> j \in F
      BY <2>1, <3>1, <3>2
    <3>. QED
      BY <3>3
  <2>4. \A i : i \in G <=> i \in F \/ i = L + 1
    BY <2>1
  <2>5. L + 1 \notin F
    BY <1>1
  <2>. HIDE DEF Before
  <2>6. \A i : i \in Kept(u) <=> i \in Kept(q) \/ (i = L + 1 /\ Cardinality(F) < MaxFailureDetails)
    BY <1>3, <1>4, <2>2, <2>3, <2>4, <2>5
  <2>7. CASE Cardinality(F) < MaxFailureDetails
    <3>1. Kept(u) = Kept(q) \cup {L + 1}
      BY <2>6, <2>7
    <3>. QED
      BY <1>6, <2>7, <3>1 DEF F, L
  <2>8. CASE ~(Cardinality(F) < MaxFailureDetails)
    <3>1. Kept(u) = Kept(q)
      BY <2>6, <2>8
    <3>. QED
      BY <1>6, <2>8, <3>1 DEF F, L
  <2>. QED
    BY <2>7, <2>8
<1>. QED
  BY <1>5, <1>6

(***************************************************************************)
(* The details are right after one more case.                              *)
(***************************************************************************)
LEMMA DetailedMore ==
  ASSUME NEW q \in Seq(Cases), NEW c \in Cases, NEW u, OneLonger(u, q, c),
         NEW details \in Seq(Details), Detailed(q, details)
  PROVE  Detailed(u, IF c.status # "passed" /\ Len(details) < MaxFailureDetails
                     THEN Append(details, [index |-> Len(q), item |-> c]) ELSE details)
<1>. DEFINE L == Len(q)
            F == Failures(q)
            D == Len(details)
            x == [index |-> L, item |-> c]
            longer == Append(details, x)
<1>1. /\ L \in Nat /\ F \subseteq 1..L /\ IsFiniteSet(F) /\ Cardinality(F) \in Nat
  BY PositionsFinite
<1>2. MaxFailureDetails \in Nat \ {0} /\ D \in Nat
  BY EvidenceAssumption, LenProperties
<1>3. /\ D = IF Cardinality(F) < MaxFailureDetails THEN Cardinality(F) ELSE MaxFailureDetails
      /\ \A k \in 1..D : details[k].index + 1 \in Kept(q) /\ details[k].item = q[details[k].index + 1]
      /\ \A k, l \in 1..D : k < l => details[k].index < details[l].index
      /\ \A i \in Kept(q) : \E k \in 1..D : details[k].index + 1 = i
  BY DEF Detailed
<1>4. Kept(q) \subseteq F
  BY DEF Kept
<1>5. \A i \in 1..L : u[i] = q[i]
  BY DEF OneLonger
<1>6. u[L + 1] = c
  BY DEF OneLonger
<1>7. \A k \in 1..D : details[k].item = u[details[k].index + 1] /\ details[k].index \in Nat
                      /\ details[k].index < L
  <2>. TAKE k \in 1..D
  <2>1. details[k].index + 1 \in 1..L
    BY <1>1, <1>3, <1>4
  <2>2. details[k] \in Details
    BY ElementOfSeq
  <2>3. details[k].index \in Nat
    BY <2>2 DEF Details
  <2>. HIDE DEF D, L
  <2>. QED
    BY <1>1, <1>3, <1>5, <2>1, <2>3, SMTT(30)
<1>8. Kept(u) = IF c.status # "passed" /\ Cardinality(F) < MaxFailureDetails
                THEN Kept(q) \cup {L + 1} ELSE Kept(q)
  BY KeptMore
<1>9. D < MaxFailureDetails <=> Cardinality(F) < MaxFailureDetails
  BY <1>1, <1>2, <1>3
<1>10. CASE c.status = "passed"
  <2>1. Failures(u) = F /\ Kept(u) = Kept(q)
    BY <1>8, <1>10 DEF OneLonger
  <2>. HIDE DEF F, D
  <2>2. Detailed(u, details)
    BY <1>3, <1>7, <2>1 DEF Detailed, D
  <2>. QED
    BY <1>10, <2>2
<1>11. CASE c.status # "passed" /\ ~(D < MaxFailureDetails)
  <2>1. Failures(u) = F \cup {L + 1} /\ Kept(u) = Kept(q)
    BY <1>8, <1>9, <1>11 DEF OneLonger
  <2>2. L + 1 \notin F
    BY <1>1
  <2>3. Cardinality(Failures(u)) = Cardinality(F) + 1
    <3>. HIDE DEF F, L
    <3>. QED
      BY <1>1, <2>1, <2>2, FS_AddElement
  <2>4. D = IF Cardinality(Failures(u)) < MaxFailureDetails THEN Cardinality(Failures(u))
            ELSE MaxFailureDetails
    BY <1>1, <1>2, <1>3, <1>9, <1>11, <2>3
  <2>. HIDE DEF F, D
  <2>5. Detailed(u, details)
    BY <1>3, <1>7, <2>1, <2>4 DEF Detailed, D
  <2>. QED
    BY <1>11, <2>5 DEF D
<1>12. CASE c.status # "passed" /\ D < MaxFailureDetails
  <2>1. Failures(u) = F \cup {L + 1}
    BY <1>12 DEF OneLonger
  <2>2. L + 1 \notin F
    BY <1>1
  <2>3. Cardinality(Failures(u)) = Cardinality(F) + 1
    <3>. HIDE DEF F, L
    <3>. QED
      BY <1>1, <2>1, <2>2, FS_AddElement
  <2>4. x \in Details /\ x.index = L /\ x.item = c
    BY <1>1 DEF Details
  <2>. HIDE DEF x
  <2>5. /\ Len(longer) = D + 1 /\ longer[D + 1] = x
        /\ \A k \in 1..D : longer[k] = details[k]
    BY <2>4, AppendProperties
  <2>6. Kept(u) = Kept(q) \cup {L + 1}
    BY <1>8, <1>9, <1>12
  <2>. HIDE DEF longer, D, L, F
  <2>7. \A k : k \in 1..(D + 1) <=> k \in 1..D \/ k = D + 1
    BY <1>2
  <2>8. D + 1 = IF Cardinality(Failures(u)) < MaxFailureDetails THEN Cardinality(Failures(u))
                ELSE MaxFailureDetails
    BY <1>1, <1>2, <1>3, <1>9, <1>12, <2>3
  <2>9. \A k \in 1..(D + 1) : /\ longer[k].index + 1 \in Kept(u)
                              /\ longer[k].item = u[longer[k].index + 1]
    <3>. TAKE k \in 1..(D + 1)
    <3>1. CASE k \in 1..D
      BY <1>3, <1>7, <2>5, <2>6, <3>1
    <3>2. CASE k = D + 1
      BY <1>6, <2>4, <2>5, <2>6, <3>2
    <3>. QED
      BY <2>7, <3>1, <3>2
  <2>10. \A k, l \in 1..(D + 1) : k < l => longer[k].index < longer[l].index
    <3>. TAKE k, l \in 1..(D + 1)
    <3>1. CASE k \in 1..D /\ l \in 1..D
      BY <1>3, <2>5, <3>1
    <3>2. CASE k \in 1..D /\ l = D + 1
      BY <1>7, <2>4, <2>5, <3>2
    <3>3. CASE k = D + 1
      BY <1>2, <3>3
    <3>. QED
      BY <2>7, <3>1, <3>2, <3>3
  <2>11. \A i \in Kept(u) : \E k \in 1..(D + 1) : longer[k].index + 1 = i
    <3>. TAKE i \in Kept(u)
    <3>1. CASE i \in Kept(q)
      <4>1. PICK k \in 1..D : details[k].index + 1 = i
        BY <1>3, <3>1
      <4>. QED
        BY <2>5, <2>7, <4>1
    <3>2. CASE i = L + 1
      <4>1. longer[D + 1].index + 1 = i
        BY <2>4, <2>5, <3>2
      <4>. QED
        BY <2>7, <4>1
    <3>. QED
      BY <2>6, <3>1, <3>2
  <2>12. Detailed(u, longer)
    BY <2>5, <2>8, <2>9, <2>10, <2>11 DEF Detailed
  <2>. QED
    BY <1>12, <2>12 DEF longer, x, L, D
<1>. QED
  BY <1>10, <1>11, <1>12

(***************************************************************************)
(* The kinds of items of a longer chain.                                   *)
(***************************************************************************)
LEMMA KindsMore ==
  ASSUME NEW chain \in Seq(Items), NEW item \in Items
  PROVE  LET longer == Append(chain, item)
         IN  /\ longer \in Seq(Items) /\ Len(longer) = Len(chain) + 1 /\ Len(chain) \in Nat
             /\ \A i \in 1..Len(chain) : longer[i] = chain[i] /\ i \in 1..Len(longer)
             /\ longer[Len(chain) + 1] = item /\ Len(chain) + 1 \in 1..Len(longer)
             /\ \A i \in 1..Len(longer) : i \in 1..Len(chain) \/ i = Len(chain) + 1
<1>. DEFINE longer == Append(chain, item)
            m == Len(chain)
<1>1. /\ longer \in Seq(Items) /\ Len(longer) = m + 1 /\ m \in Nat
      /\ longer[m + 1] = item /\ \A i \in 1..m : longer[i] = chain[i]
  BY AppendProperties, LenProperties
<1>. HIDE DEF longer, m
<1>2. /\ \A i \in 1..m : i \in 1..Len(longer)
      /\ m + 1 \in 1..Len(longer)
      /\ \A i \in 1..Len(longer) : i \in 1..m \/ i = m + 1
  BY <1>1
<1>. QED
  BY <1>1, <1>2 DEF longer, m

(***************************************************************************)
(* The books are right after a case.                                       *)
(***************************************************************************)
LEMMA AccountedCase ==
  ASSUME NEW n \in Reducers, NEW item \in Cases, HasRoom(n, 1),
         item.status = "passed" => item.counters.mismatches = 0,
         Accounted(CasesOf(n.chain), n),
         NEW m, m = IngestCase(n, item)
  PROVE  Accounted(CasesOf(m.chain), m)
<1>. DEFINE q == CasesOf(n.chain)
            u == CasesOf(m.chain)
<1>1. /\ m.counts = CheckedAdd(n.counts, CountOf(item.status))
      /\ m.counters = CheckedAdd(n.counters, item.counters)
      /\ m.cases = n.cases + 1 /\ m.children = n.children
      /\ m.chain = Append(n.chain, item)
      /\ m.firstFailure = (IF item.status # "passed" /\ n.firstFailure = None
                           THEN n.counts.total ELSE n.firstFailure)
      /\ m.details = (IF item.status # "passed" /\ Len(n.details) < MaxFailureDetails
                      THEN Append(n.details, [index |-> n.counts.total, item |-> item])
                      ELSE n.details)
  BY CaseFields DEF CaseIngested
<1>2. /\ n.counts \in CaseCounts /\ n.counters \in EvidenceCounters /\ n.cases \in Nat
      /\ n.children \in Nat /\ n.chain \in Seq(Items) /\ n.details \in Seq(Details)
  BY DEF Reducers
<1>3. n.counts.total \in Nat /\ n.counts.failed \in Nat /\ n.counts.rejected \in Nat
      /\ n.counters.mismatches \in Nat
  BY <1>2 DEF CaseCounts, EvidenceCounters
<1>4. item.status \in Statuses /\ item.counters \in EvidenceCounters /\ item \in Items
      /\ item.type = "case"
  BY DEF Cases, Items
<1>5. q \in Seq(Cases) /\ u = q \o <<item>> /\ OneLonger(u, q, item)
  BY <1>1, <1>2, ChainWithCase
<1>. HIDE DEF q, u
<1>6. /\ Counted(q, n.counts) /\ Summed(q, n.counters) /\ FirstFailed(q, n.firstFailure)
      /\ Detailed(q, n.details) /\ Itemized(q, n)
      /\ n.counts.failed + n.counts.rejected = 0 => n.counters.mismatches = 0
  BY DEF Accounted, q
<1>7. n.counts.total = Len(q)
  BY <1>6 DEF Counted
<1>8. Counted(u, m.counts)
  <2>1. n.counts.total + 1 <= MaxCases
    BY DEF HasRoom
  <2>. QED
    BY <1>1, <1>2, <1>5, <1>6, <2>1, CountedMore
<1>9. Summed(u, m.counters)
  BY <1>1, <1>2, <1>5, <1>6, SummedMore
<1>10. FirstFailed(u, m.firstFailure)
  BY <1>1, <1>5, <1>6, <1>7, FirstFailedMore
<1>11. Detailed(u, m.details)
  BY <1>1, <1>2, <1>5, <1>6, <1>7, DetailedMore
<1>12. /\ m.counts.total = n.counts.total + 1
       /\ m.counts.failed = n.counts.failed + (IF item.status = "failed" THEN 1 ELSE 0)
       /\ m.counts.rejected = n.counts.rejected + (IF item.status = "rejected" THEN 1 ELSE 0)
  BY <1>1, <1>2, <1>4, AddCounts, CountOfOne
<1>13. Itemized(u, m)
  <2>1. /\ n.cases + n.children <= n.counts.total
        /\ n.children = 0 => q = n.chain /\ n.cases = n.counts.total
        /\ n.children = 0 <=> \A i \in 1..Len(n.chain) : n.chain[i].type = "case"
    BY <1>6 DEF Itemized
  <2>2. m.cases + m.children <= m.counts.total /\ m.cases + m.children > 0
    BY <1>1, <1>2, <1>3, <1>12, <2>1
  <2>3. m.children = 0 => u = m.chain /\ m.cases = m.counts.total
    <3>1. n.children = 0 => u = Append(n.chain, item)
      BY <1>2, <1>5, <2>1, AppendIsConcat
    <3>. QED
      BY <1>1, <1>12, <2>1, <3>1
  <2>. DEFINE longer == Append(n.chain, item)
              L == Len(n.chain)
  <2>4. /\ \A i \in 1..L : longer[i] = n.chain[i] /\ i \in 1..Len(longer)
        /\ longer[L + 1] = item
        /\ \A i \in 1..Len(longer) : i \in 1..L \/ i = L + 1
    BY <1>2, <1>4, KindsMore
  <2>5. m.chain = longer /\ m.children = n.children
    BY <1>1
  <2>. HIDE DEF longer, L
  <2>6. m.children = 0 <=> \A i \in 1..Len(m.chain) : m.chain[i].type = "case"
    BY <1>4, <2>1, <2>4, <2>5 DEF L
  <2>. QED
    BY <2>2, <2>3, <2>6 DEF Itemized
<1>14. m.counts.failed + m.counts.rejected = 0 => m.counters.mismatches = 0
  <2>1. m.counters.mismatches = n.counters.mismatches + item.counters.mismatches
    BY <1>1, <1>2, <1>4, AddCounters
  <2>. DEFINE failed == n.counts.failed
              rejected == n.counts.rejected
  <2>2. failed \in Nat /\ rejected \in Nat
    BY <1>3
  <2>3. /\ item.status = "passed" => m.counts.failed = failed + 0 /\ m.counts.rejected = rejected + 0
        /\ item.status = "failed" => m.counts.failed = failed + 1 /\ m.counts.rejected = rejected + 0
        /\ item.status = "rejected" => m.counts.failed = failed + 0 /\ m.counts.rejected = rejected + 1
    BY <1>12
  <2>4. item.status = "passed" \/ item.status = "failed" \/ item.status = "rejected"
    BY <1>4 DEF Statuses
  <2>. HIDE DEF failed, rejected
  <2>5. m.counts.failed + m.counts.rejected = 0 => item.status = "passed" /\ failed + rejected = 0
    BY <2>2, <2>3, <2>4
  <2>6. 0 + 0 = 0
    OBVIOUS
  <2>. QED
    BY <1>6, <2>1, <2>5, <2>6 DEF failed, rejected
<1>. QED
  BY <1>8, <1>9, <1>10, <1>11, <1>13, <1>14 DEF Accounted, u

-----------------------------------------------------------------------------
(* The books stay right: a child *)

\* What a parent may rely on of a child receipt that reports no failures.
Whole(receipt) ==
  LET t == CasesOf(receipt.chain) IN
  /\ Failures(t) = {} /\ receipt.counts.total = Len(t) /\ Len(t) > 0
  /\ receipt.counts.passed = Cardinality(Having(t, "passed"))
  /\ receipt.counts.failed = 0 /\ receipt.counts.rejected = 0
  /\ Summed(t, receipt.counters) /\ receipt.counters.mismatches = 0

(***************************************************************************)
(* Ingesting a child continues the stream of cases with those of the       *)
(* child.                                                                  *)
(***************************************************************************)
LEMMA ChainWithChild ==
  ASSUME NEW chain \in Seq(Items), NEW receipt \in Finals
  PROVE  LET q == CasesOf(chain)
             t == CasesOf(receipt.chain)
             u == CasesOf(Append(chain, ChildItem(receipt)))
         IN  /\ q \in Seq(Cases) /\ t \in Seq(Cases) /\ u \in Seq(Cases)
             /\ u = q \o t /\ Continues(u, q, t)
<1>. DEFINE q == CasesOf(chain)
            t == CasesOf(receipt.chain)
            u == CasesOf(Append(chain, ChildItem(receipt)))
<1>1. receipt.chain \in Seq(Items)
  BY DEF Finals, CompactReceipts
<1>2. q \in Seq(Cases) /\ t \in Seq(Cases)
  BY <1>1, CasesOfChain
<1>3. ChildItem(receipt) \in Items /\ PartOf(ChildItem(receipt)) = t
  BY <1>2 DEF ChildItem, Items, PartOf
<1>4. u = q \o t
  BY <1>3, CasesOfChain
<1>. HIDE DEF q, t, u
<1>5. u \in Seq(Cases) /\ Continues(u, q, t)
  BY <1>2, <1>4, ConcatProperties DEF Continues
<1>. QED
  BY <1>2, <1>4, <1>5 DEF q, t, u

(***************************************************************************)
(* The books are right after a child that reports no failures.             *)
(***************************************************************************)
LEMMA AccountedChild ==
  ASSUME NEW n \in Reducers, NEW receipt \in Finals, HasRoom(n, receipt.counts.total),
         Whole(receipt), Accounted(CasesOf(n.chain), n),
         NEW m, m = IngestReceipt(n, receipt)
  PROVE  Accounted(CasesOf(m.chain), m)
<1>. DEFINE q == CasesOf(n.chain)
            t == CasesOf(receipt.chain)
            u == CasesOf(m.chain)
<1>1. /\ m.counts = CheckedAdd(n.counts, receipt.counts)
      /\ m.counters = CheckedAdd(n.counters, receipt.counters)
      /\ m.cases = n.cases /\ m.children = n.children + 1
      /\ m.chain = Append(n.chain, ChildItem(receipt)) /\ ChildItem(receipt) \in Items
      /\ m.firstFailure = n.firstFailure /\ m.details = n.details
  BY ChildFields DEF ChildIngested
<1>2. /\ n.counts \in CaseCounts /\ n.counters \in EvidenceCounters /\ n.cases \in Nat
      /\ n.children \in Nat /\ n.chain \in Seq(Items) /\ n.details \in Seq(Details)
  BY DEF Reducers
<1>3. receipt.counts \in CaseCounts /\ receipt.counters \in EvidenceCounters
  BY DEF Finals, CompactReceipts
<1>4. n.counts.total \in Nat /\ n.counts.failed \in Nat /\ n.counts.rejected \in Nat
      /\ n.counts.passed \in Nat /\ n.counters.mismatches \in Nat
  BY <1>2 DEF CaseCounts, EvidenceCounters
<1>5. /\ q \in Seq(Cases) /\ t \in Seq(Cases) /\ u \in Seq(Cases)
      /\ u = q \o t /\ Continues(u, q, t)
  BY <1>1, <1>2, ChainWithChild
<1>6. /\ Failures(t) = {} /\ receipt.counts.total = Len(t) /\ Len(t) > 0
      /\ receipt.counts.passed = Cardinality(Having(t, "passed"))
      /\ receipt.counts.failed = 0 /\ receipt.counts.rejected = 0
      /\ Summed(t, receipt.counters) /\ receipt.counters.mismatches = 0
  BY DEF Whole
<1>. HIDE DEF q, t, u
<1>7. /\ Counted(q, n.counts) /\ Summed(q, n.counters) /\ FirstFailed(q, n.firstFailure)
      /\ Detailed(q, n.details) /\ Itemized(q, n)
      /\ n.counts.failed + n.counts.rejected = 0 => n.counters.mismatches = 0
  BY DEF Accounted, q
<1>8. Len(u) = Len(q) + Len(t)
  BY <1>5 DEF Continues
<1>9. /\ \A i \in 1..Len(q) : u[i] = q[i]
      /\ Failures(u) = Failures(q)
      /\ Having(u, "failed") = Having(q, "failed") /\ Having(u, "rejected") = Having(q, "rejected")
      /\ Cardinality(Having(u, "passed")) = Cardinality(Having(q, "passed")) + Len(t)
      /\ Cardinality(Having(t, "passed")) = Len(t)
  <2>1. Lengthened(u, q, t)
    BY <1>5, <1>6, ManyMore
  <2>. QED
    BY <2>1 DEF Lengthened
<1>10. /\ m.counts.total = n.counts.total + Len(t) /\ m.counts.passed = n.counts.passed + Len(t)
       /\ m.counts.failed = n.counts.failed /\ m.counts.rejected = n.counts.rejected
  <2>1. /\ m.counts.total = n.counts.total + receipt.counts.total
        /\ m.counts.passed = n.counts.passed + receipt.counts.passed
        /\ m.counts.failed = n.counts.failed + receipt.counts.failed
        /\ m.counts.rejected = n.counts.rejected + receipt.counts.rejected
    BY <1>1, <1>2, <1>3, AddCounts
  <2>. QED
    BY <1>4, <1>6, <1>9, <2>1
<1>11. Counted(u, m.counts)
  <2>1. n.counts.total + Len(t) <= MaxCases
    BY <1>6 DEF HasRoom
  <2>2. /\ n.counts.total = Len(q)
        /\ n.counts.passed = Cardinality(Having(q, "passed"))
        /\ n.counts.failed = Cardinality(Having(q, "failed"))
        /\ n.counts.rejected = Cardinality(Having(q, "rejected"))
        /\ n.counts.failed + n.counts.rejected = Cardinality(Failures(q))
    BY <1>7 DEF Counted
  <2>. QED
    BY <1>8, <1>9, <1>10, <2>1, <2>2 DEF Counted
<1>12. Summed(u, m.counters)
  <2>1. ASSUME NEW f \in CounterNames PROVE m.counters[f] = Sum(u, f)
    <3>1. m.counters[f] = n.counters[f] + receipt.counters[f]
      BY <1>1, <1>2, <1>3, AddCounters
    <3>2. n.counters[f] = Sum(q, f) /\ receipt.counters[f] = Sum(t, f)
      BY <1>6, <1>7 DEF Summed
    <3>3. Sum(u, f) = Sum(q, f) + Sum(t, f)
      BY <1>5, SumJoined
    <3>. QED
      BY <3>1, <3>2, <3>3
  <2>. QED
    BY <2>1 DEF Summed
<1>13. FirstFailed(u, m.firstFailure)
  BY <1>1, <1>7, <1>9 DEF FirstFailed
<1>14. Detailed(u, m.details)
  <2>1. Kept(u) = Kept(q) /\ Kept(q) \subseteq Failures(q)
    BY <1>9 DEF Kept
  <2>2. Failures(q) \subseteq 1..Len(q)
    BY <1>5, PositionsFinite
  <2>3. \A i \in Kept(q) : u[i] = q[i]
    BY <1>9, <2>1, <2>2
  <2>. QED
    BY <1>1, <1>7, <1>9, <2>1, <2>3 DEF Detailed
<1>15. Itemized(u, m)
  <2>1. n.cases + n.children <= n.counts.total
    BY <1>7 DEF Itemized
  <2>2. Len(t) \in Nat
    BY <1>5, PositionsFinite
  <2>3. /\ m.cases + m.children <= m.counts.total /\ m.cases + m.children > 0 /\ m.children # 0
    <3>. DEFINE x == n.cases
                y == n.children
                z == n.counts.total
                l == Len(t)
    <3>1. x \in Nat /\ y \in Nat /\ z \in Nat /\ l \in Nat /\ l > 0 /\ x + y <= z
      BY <1>2, <1>4, <1>6, <2>1, <2>2
    <3>2. m.cases = x /\ m.children = y + 1 /\ m.counts.total = z + l
      BY <1>1, <1>10
    <3>. HIDE DEF x, y, z, l
    <3>. QED
      BY <3>1, <3>2
  <2>4. \E i \in 1..Len(m.chain) : m.chain[i].type # "case"
    <3>. DEFINE child == ChildItem(receipt)
    <3>1. child.type # "case"
      BY DEF ChildItem
    <3>. HIDE DEF child
    <3>2. m.chain = Append(n.chain, child) /\ child \in Items
      BY <1>1 DEF child
    <3>3. m.chain[Len(n.chain) + 1] = child /\ Len(n.chain) + 1 \in 1..Len(m.chain)
      BY <1>2, <3>2, KindsMore
    <3>. QED
      BY <3>1, <3>3
  <2>. QED
    BY <2>3, <2>4 DEF Itemized
<1>16. m.counts.failed + m.counts.rejected = 0 => m.counters.mismatches = 0
  <2>1. m.counters.mismatches = n.counters.mismatches + receipt.counters.mismatches
    BY <1>1, <1>2, <1>3, AddCounters
  <2>. QED
    BY <1>4, <1>6, <1>7, <1>10, <2>1
<1>. QED
  BY <1>11, <1>12, <1>13, <1>14, <1>15, <1>16 DEF Accounted, u

-----------------------------------------------------------------------------
(* Provenance *)

\* The first cases of u are those of q.
Begins(u, q) ==
  /\ Len(q) \in Nat /\ Len(u) \in Nat /\ Len(q) <= Len(u)
  /\ \A i \in 1..Len(q) : u[i] = q[i]

(***************************************************************************)
(* A cold execution stays where it is when the stream grows, and what it   *)
(* stands for stays observed.                                              *)
(***************************************************************************)
LEMMA ColdsStay ==
  ASSUME NEW q, NEW u, Begins(u, q), NEW action, NEW key
  PROVE  Colds(q, action, key) \subseteq Colds(u, action, key)
<1>1. \A i \in 1..Len(q) : i \in 1..Len(u) /\ u[i] = q[i]
  BY DEF Begins
<1>. QED
  BY <1>1 DEF Colds

\* Whatever has no source, or a status that is not its source's, is not among them.
Told(q) ==
  \A i \in 1..Len(q) : q[i].source # None => (q[i].status = "passed" <=> Accepted(q[i].source))

LiveSources(I, q) == \A i \in 1..Len(q) : q[i].source \in I

(***************************************************************************)
(* What holds of the cases of a stream holds of them when it has grown.    *)
(***************************************************************************)
LEMMA BeginningStays ==
  ASSUME NEW q, NEW u, Begins(u, q), NEW I, NEW i \in 1..Len(q)
  PROVE  /\ i \in 1..Len(u)
         /\ Told(q) => (u[i].source # None => (u[i].status = "passed" <=> Accepted(u[i].source)))
         /\ LiveSources(I, q) => u[i].source \in I
         /\ HitsFollow(q) /\ u[i].source.kind = "hit" =>
              \E j \in Colds(u, u[i].source.action, u[i].source.key) : j < i
<1>1. i \in 1..Len(u) /\ u[i] = q[i]
  BY DEF Begins
<1>2. Told(q) => (u[i].source # None => (u[i].status = "passed" <=> Accepted(u[i].source)))
  BY <1>1 DEF Told
<1>3. LiveSources(I, q) => u[i].source \in I
  BY <1>1 DEF LiveSources
<1>4. ASSUME HitsFollow(q), u[i].source.kind = "hit"
      PROVE  \E j \in Colds(u, u[i].source.action, u[i].source.key) : j < i
  <2>1. PICK j \in Colds(q, q[i].source.action, q[i].source.key) : j < i
    BY <1>1, <1>4 DEF HitsFollow
  <2>2. j \in Colds(u, q[i].source.action, q[i].source.key)
    BY <2>1, ColdsStay
  <2>. QED
    BY <1>1, <2>1, <2>2
<1>. QED
  BY <1>1, <1>2, <1>3, <1>4

(***************************************************************************)
(* The provenance of a stream is right after the case of a runtime         *)
(* receipt.                                                                *)
(***************************************************************************)
LEMMA SourcedRuntime ==
  ASSUME NEW I, I \subseteq RuntimeReceipts, NEW q \in Seq(Cases), NEW u, NEW r \in I,
         OneLonger(u, q, RuntimeCase(r)),
         NEW n, NEW m, Sourced(I, q, n),
         m.bound = n.bound, m.manifest = n.manifest, m.observed = Observe(n, r),
         r.action \in DOMAIN Manifests[n.manifest],
         MatchesRuntime(Manifests[n.manifest][r.action], r), ColdBefore(n, r),
         NEW item \in Items, n.chain \in Seq(Items), m.chain = Append(n.chain, item)
  PROVE  Sourced(I, u, m)
<1>. DEFINE c == RuntimeCase(r)
            L == Len(q)
            key == Manifests[n.manifest][r.action].key
<1>1. c.source = r /\ (c.status = "passed" <=> Accepted(r))
  BY DEF RuntimeCase
<1>. HIDE DEF c
<1>2. /\ Len(u) = L + 1 /\ L \in Nat /\ u[L + 1] = c
      /\ \A i \in 1..L : u[i] = q[i]
  BY PositionsFinite DEF OneLonger, c
<1>3. Begins(u, q)
  BY <1>2 DEF Begins
<1>. HIDE DEF L
<1>4. \A i \in 1..Len(u) : i \in 1..L \/ i = L + 1
  BY <1>2
<1>5. L + 1 \in 1..Len(u)
  BY <1>2
<1>6. Told(q)
  BY DEF Sourced, Told
<1>7. Told(u)
  <2>1. \A i \in 1..L : u[i].source # None => (u[i].status = "passed" <=> Accepted(u[i].source))
    BY <1>3, <1>6, BeginningStays DEF L
  <2>. QED
    BY <1>1, <1>2, <1>4, <2>1 DEF Told
<1>8. ASSUME m.bound
      PROVE  LiveSources(I, u) /\ HitsFollow(u) /\ Observed(u, m)
  <2>1. LiveSources(I, q) /\ HitsFollow(q) /\ Observed(q, n)
    BY <1>8 DEF Sourced, LiveSources
  <2>2. LiveSources(I, u)
    <3>1. \A i \in 1..L : u[i].source \in I
      BY <1>3, <2>1, BeginningStays DEF L
    <3>. QED
      BY <1>1, <1>2, <1>4, <3>1 DEF LiveSources
  <2>3. r.kind \in {"cold", "hit"} => r.key = key
    BY DEF MatchesRuntime, Reads, Retries
  <2>4. HitsFollow(u)
    <3>1. \A i \in 1..L : u[i].source.kind = "hit" =>
            \E j \in Colds(u, u[i].source.action, u[i].source.key) : j < i
      BY <1>3, <2>1, BeginningStays DEF L
    <3>2. ASSUME r.kind = "hit"
          PROVE  \E j \in Colds(u, r.action, r.key) : j < L + 1
      <4>1. r.action \in n.observed
        BY <3>2 DEF ColdBefore
      <4>2. Colds(q, r.action, r.key) # {}
        BY <2>1, <2>3, <3>2, <4>1 DEF Observed
      <4>3. PICK j : j \in Colds(q, r.action, r.key)
        BY <4>2
      <4>4. j \in 1..L
        BY <4>3 DEF Colds, L
      <4>5. j \in Colds(u, r.action, r.key)
        BY <1>3, <4>3, ColdsStay
      <4>. QED
        BY <1>2, <4>4, <4>5
    <3>3. u[L + 1].source = r
      BY <1>1, <1>2
    <3>4. ASSUME NEW i \in 1..Len(u), u[i].source.kind = "hit"
          PROVE  \E j \in Colds(u, u[i].source.action, u[i].source.key) : j < i
      <4>1. CASE i \in 1..L
        BY <3>1, <3>4, <4>1
      <4>2. CASE i = L + 1
        BY <3>2, <3>3, <3>4, <4>2
      <4>. QED
        BY <1>4, <4>1, <4>2
    <3>. QED
      BY <3>4 DEF HitsFollow
  <2>5. ASSUME NEW action \in m.observed
        PROVE  /\ action \in DOMAIN Manifests[m.manifest]
               /\ Colds(u, action, Manifests[m.manifest][action].key) # {}
    <3>1. CASE action \in n.observed
      <4>1. /\ action \in DOMAIN Manifests[n.manifest]
            /\ Colds(q, action, Manifests[n.manifest][action].key) # {}
        BY <2>1, <3>1 DEF Observed
      <4>2. Colds(q, action, Manifests[n.manifest][action].key)
              \subseteq Colds(u, action, Manifests[n.manifest][action].key)
        BY <1>3, ColdsStay
      <4>. QED
        BY <4>1, <4>2
    <3>2. CASE r.kind = "cold" /\ action = r.action
      <4>1. u[L + 1].source = r
        BY <1>1, <1>2
      <4>2. L + 1 \in Colds(u, r.action, key)
        BY <1>5, <2>3, <3>2, <4>1 DEF Colds
      <4>. QED
        BY <3>2, <4>2
    <3>. QED
      BY <3>1, <3>2 DEF Observe
  <2>. QED
    BY <2>2, <2>4, <2>5 DEF Observed
<1>9. ASSUME ~ m.bound
      PROVE  \E i \in 1..Len(m.chain) : m.chain[i].type = "case" /\ m.chain[i].source = None
  <2>1. PICK i \in 1..Len(n.chain) : n.chain[i].type = "case" /\ n.chain[i].source = None
    BY <1>9 DEF Sourced
  <2>2. m.chain[i] = n.chain[i] /\ i \in 1..Len(m.chain)
    BY <2>1, KindsMore
  <2>. QED
    BY <2>1, <2>2
<1>. QED
  BY <1>7, <1>8, <1>9 DEF Sourced, Told, LiveSources

(***************************************************************************)
(* The provenance of a stream is right after an unbound case: it claims no *)
(* live sources any more.                                                  *)
(***************************************************************************)
LEMMA SourcedStructural ==
  ASSUME NEW I, NEW q \in Seq(Cases), NEW u, NEW item \in Cases, item.source = None,
         OneLonger(u, q, item), NEW n, NEW m, Sourced(I, q, n), m.bound = FALSE,
         n.chain \in Seq(Items), m.chain = Append(n.chain, item)
  PROVE  Sourced(I, u, m)
<1>. DEFINE L == Len(q)
<1>1. /\ Len(u) = L + 1 /\ L \in Nat /\ u[L + 1] = item
      /\ \A i \in 1..L : u[i] = q[i]
  BY PositionsFinite DEF OneLonger
<1>2. Begins(u, q)
  BY <1>1 DEF Begins
<1>3. Told(q)
  BY DEF Sourced, Told
<1>. HIDE DEF L
<1>4. \A i \in 1..Len(u) : i \in 1..L \/ i = L + 1
  BY <1>1
<1>5. Told(u)
  <2>1. \A i \in 1..L : u[i].source # None => (u[i].status = "passed" <=> Accepted(u[i].source))
    BY <1>2, <1>3, BeginningStays DEF L
  <2>. QED
    BY <1>1, <1>4, <2>1 DEF Told
<1>6. item \in Items /\ item.type = "case"
  BY DEF Items, Cases
<1>7. m.chain[Len(n.chain) + 1] = item /\ Len(n.chain) + 1 \in 1..Len(m.chain)
  BY <1>6, KindsMore
<1>. QED
  BY <1>5, <1>6, <1>7 DEF Sourced, Told

\* What a parent may rely on of a child with live sources.
ChildSourced(I, t, manifest) ==
  /\ Told(t) /\ LiveSources(I, t) /\ HitsFollow(t)
  /\ \A action \in DOMAIN Manifests[manifest] : Colds(t, action, Manifests[manifest][action].key) # {}

(***************************************************************************)
(* The provenance of a stream is right after a child with live sources.    *)
(***************************************************************************)
LEMMA SourcedChild ==
  ASSUME NEW I, NEW q \in Seq(Cases), NEW t \in Seq(Cases), NEW u \in Seq(Cases),
         Lengthened(u, q, t), Len(u) = Len(q) + Len(t),
         NEW n, NEW m, Sourced(I, q, n), ChildSourced(I, t, n.manifest),
         m.bound = n.bound, m.manifest = n.manifest, m.observed = DOMAIN Manifests[n.manifest],
         NEW item \in Items, n.chain \in Seq(Items), m.chain = Append(n.chain, item)
  PROVE  Sourced(I, u, m)
<1>. DEFINE L == Len(q)
            K == Len(t)
<1>1. /\ L \in Nat /\ K \in Nat /\ Len(u) = L + K
  BY PositionsFinite
<1>2. /\ \A i \in 1..L : u[i] = q[i]
      /\ \A i \in 1..K : u[L + i] = t[i]
      /\ \A i : i \in 1..Len(u) <=> i \in 1..L \/ \E j \in 1..K : i = L + j
  BY DEF Lengthened
<1>3. Begins(u, q)
  BY <1>1, <1>2 DEF Begins
<1>4. Told(q) /\ Told(t) /\ LiveSources(I, t) /\ HitsFollow(t)
  BY DEF Sourced, Told, ChildSourced
<1>5. ASSUME NEW action, NEW key, NEW j \in Colds(t, action, key)
      PROVE  L + j \in Colds(u, action, key) /\ j \in 1..K
  <2>1. j \in 1..K /\ t[j].source.kind = "cold" /\ t[j].source.action = action
        /\ t[j].source.key = key
    BY DEF Colds
  <2>. HIDE DEF L, K
  <2>2. u[L + j] = t[j] /\ L + j \in 1..Len(u)
    BY <1>1, <1>2, <2>1
  <2>. QED
    BY <2>1, <2>2 DEF Colds
<1>. HIDE DEF L, K
<1>6. Told(u)
  <2>1. \A i \in 1..L : u[i].source # None => (u[i].status = "passed" <=> Accepted(u[i].source))
    BY <1>3, <1>4, BeginningStays DEF L
  <2>2. \A j \in 1..K : u[L + j].source # None => (u[L + j].status = "passed" <=> Accepted(u[L + j].source))
    BY <1>2, <1>4 DEF Told, K
  <2>. QED
    BY <1>2, <2>1, <2>2 DEF Told
<1>7. ASSUME m.bound
      PROVE  LiveSources(I, u) /\ HitsFollow(u) /\ Observed(u, m)
  <2>1. LiveSources(I, q) /\ HitsFollow(q)
    BY <1>7 DEF Sourced, LiveSources
  <2>2. LiveSources(I, u)
    <3>1. \A i \in 1..L : u[i].source \in I
      BY <1>3, <2>1, BeginningStays DEF L
    <3>2. \A j \in 1..K : u[L + j].source \in I
      BY <1>2, <1>4 DEF LiveSources, K
    <3>. QED
      BY <1>2, <3>1, <3>2 DEF LiveSources
  <2>3. ASSUME NEW i \in 1..Len(u), u[i].source.kind = "hit"
        PROVE  \E j \in Colds(u, u[i].source.action, u[i].source.key) : j < i
    <3>1. CASE i \in 1..L
      BY <1>3, <2>1, <2>3, <3>1, BeginningStays DEF L
    <3>2. ASSUME NEW k \in 1..K, i = L + k
          PROVE  \E j \in Colds(u, u[i].source.action, u[i].source.key) : j < i
      <4>1. u[i] = t[k]
        BY <1>2, <3>2
      <4>2. PICK j \in Colds(t, t[k].source.action, t[k].source.key) : j < k
        BY <1>4, <2>3, <4>1 DEF HitsFollow, K
      <4>3. L + j \in Colds(u, t[k].source.action, t[k].source.key) /\ j \in 1..K
        BY <1>5, <4>2
      <4>4. L + j < L + k
        BY <1>1, <4>2, <4>3
      <4>. QED
        BY <3>2, <4>1, <4>3, <4>4
    <3>. QED
      BY <1>2, <3>1, <3>2
  <2>4. ASSUME NEW action \in DOMAIN Manifests[n.manifest]
        PROVE  Colds(u, action, Manifests[n.manifest][action].key) # {}
    <3>1. PICK j : j \in Colds(t, action, Manifests[n.manifest][action].key)
      BY DEF ChildSourced
    <3>. QED
      BY <1>5, <3>1
  <2>. QED
    BY <2>2, <2>3, <2>4 DEF HitsFollow, Observed
<1>8. ASSUME ~ m.bound
      PROVE  \E i \in 1..Len(m.chain) : m.chain[i].type = "case" /\ m.chain[i].source = None
  <2>1. PICK i \in 1..Len(n.chain) : n.chain[i].type = "case" /\ n.chain[i].source = None
    BY <1>8 DEF Sourced
  <2>2. m.chain[i] = n.chain[i] /\ i \in 1..Len(m.chain)
    BY <2>1, KindsMore
  <2>. QED
    BY <2>1, <2>2
<1>. QED
  BY <1>6, <1>7, <1>8 DEF Sourced, Told, LiveSources

-----------------------------------------------------------------------------
(* Histories *)

(***************************************************************************)
(* A stream that is extended by the receipt that starts where it ends      *)
(* stays unbroken: whatever changed the state of the session from there is *)
(* that very receipt.                                                      *)
(***************************************************************************)
LEMMA UnbrokenMore ==
  ASSUME NEW I, I \subseteq RuntimeReceipts, NEW state, Lives(I, state),
         NEW sources \in Seq(RuntimeReceipts), NEW boundary, NEW first, NEW last,
         Unbroken(I, sources, boundary, first, last), NEW r \in I,
         boundary # None => boundary.session = r.session /\ boundary.final = r.prior
  PROVE  Unbroken(I, Append(sources, r), ExtendBoundary(boundary, r),
                  IF first = None THEN r ELSE first, r)
<1>. DEFINE longer == Append(sources, r)
            L == Len(sources)
<1>1. /\ longer \in Seq(RuntimeReceipts) /\ longer # <<>> /\ Len(longer) = L + 1 /\ L \in Nat
      /\ longer[L + 1] = r /\ \A i \in 1..L : longer[i] = sources[i]
  BY AppendProperties, LenProperties
<1>. HIDE DEF longer
<1>2. \A i : i \in 1..(L + 1) <=> i \in 1..L \/ i = L + 1
  BY <1>1
<1>3. \A i \in 1..L : sources[i] \in I
  BY DEF Unbroken
<1>4. \A i \in 1..Len(longer) : longer[i] \in I
  <2>. HIDE DEF L
  <2>. QED
    BY <1>1, <1>2, <1>3
<1>5. \A p \in I : p.prior \in Nat /\ p.result \in Nat /\ p.session \in Sessions
  BY DEF RuntimeReceipts
<1>6. \A p \in I : p.result = p.prior \/ p.result = p.prior + 1
  BY DEF Lives
<1>7. \A p, q \in I : p.session = q.session /\ p.prior = q.prior /\ p.prior # p.result /\ q.prior # q.result
                        => p = q
  BY DEF Lives
<1>8. None \notin RuntimeReceipts /\ None \notin Boundaries
  BY EvidenceNoneAssumption
<1>9. CASE sources = <<>>
  <2>1. L = 0 /\ boundary = None /\ first = None
    BY <1>9 DEF Unbroken
  <2>2. Len(longer) = 1 /\ longer[1] = r
    BY <1>1, <2>1
  <2>3. ASSUME NEW p \in Stretch(I, longer) PROVE p = r
    <3>1. /\ p \in I /\ p.session = r.session /\ p.prior # p.result
          /\ p.prior >= r.prior /\ p.result <= r.result
      BY <2>2, <2>3 DEF Stretch
    <3>2. p.prior = r.prior /\ r.prior # r.result
      BY <1>5, <1>6, <3>1
    <3>. QED
      BY <1>7, <3>1, <3>2
  <2>4. ExtendBoundary(boundary, r) = BoundaryOf(longer)
    BY <2>1, <2>2 DEF ExtendBoundary, BoundaryOf
  <2>5. 1 \in 1..Len(longer)
    BY <2>2
  <2>. QED
    BY <1>1, <1>4, <2>1, <2>2, <2>3, <2>4, <2>5 DEF Unbroken, longer
<1>10. CASE sources # <<>>
  <2>1. /\ \A p \in Stretch(I, sources) : \E i \in 1..L : sources[i] = p
        /\ boundary = BoundaryOf(sources)
        /\ first = sources[1] /\ last = sources[L]
        /\ sources[1].session = sources[L].session
    BY <1>10 DEF Unbroken
  <2>2. L # 0 /\ 1 \in 1..L /\ L \in 1..L
    BY <1>1, <1>10, EmptySeq
  <2>3. sources[1] \in I /\ sources[L] \in I
    BY <1>3, <2>2
  <2>4. boundary # None
    <3>1. boundary \in Boundaries
      BY <1>5, <2>1, <2>3 DEF BoundaryOf, Boundaries, L
    <3>. QED
      BY <1>8, <3>1
  <2>5. sources[1].session = r.session /\ sources[L].result = r.prior
    BY <2>1, <2>4 DEF BoundaryOf, L
  <2>6. longer[1] = sources[1] /\ longer[Len(longer)] = r
    BY <1>1, <2>2
  <2>7. first # None
    BY <1>8, <2>1, <2>3
  <2>8. ASSUME NEW p \in Stretch(I, longer)
        PROVE  \E i \in 1..Len(longer) : longer[i] = p
    <3>1. /\ p \in I /\ p.session = sources[1].session /\ p.prior # p.result
          /\ p.prior >= sources[1].prior /\ p.result <= r.result
      BY <2>6, <2>8 DEF Stretch
    <3>2. CASE p.result <= sources[L].result
      <4>1. p \in Stretch(I, sources)
        BY <3>1, <3>2 DEF Stretch, L
      <4>2. PICK i \in 1..L : sources[i] = p
        BY <2>1, <4>1
      <4>3. i \in 1..Len(longer) /\ longer[i] = p
        <5>. HIDE DEF L
        <5>. QED
          BY <1>1, <1>2, <4>2
      <4>. QED
        BY <4>3
    <3>3. CASE ~(p.result <= sources[L].result)
      <4>. DEFINE x == sources[L].result
      <4>1. /\ x \in Nat /\ r.prior = x /\ p.result <= r.result /\ ~(p.result <= x)
            /\ r.prior \in Nat /\ r.result \in Nat /\ p.result \in Nat /\ p.prior \in Nat
            /\ (r.result = r.prior \/ r.result = r.prior + 1)
            /\ p.result = p.prior + 1
        BY <1>5, <1>6, <2>3, <2>5, <3>1, <3>3
      <4>. HIDE DEF x
      <4>2. p.prior = r.prior /\ r.prior # r.result
        BY <4>1
      <4>3. p = r
        BY <1>7, <2>5, <3>1, <4>2
      <4>4. L + 1 \in 1..Len(longer)
        BY <1>1
      <4>. QED
        BY <1>1, <4>3, <4>4
    <3>. QED
      BY <3>2, <3>3
  <2>9. ExtendBoundary(boundary, r) = BoundaryOf(longer)
    BY <2>1, <2>4, <2>6 DEF ExtendBoundary, BoundaryOf
  <2>. QED
    BY <1>1, <1>4, <2>1, <2>5, <2>6, <2>7, <2>8, <2>9 DEF Unbroken, longer
<1>. QED
  BY <1>9, <1>10

(***************************************************************************)
(* A session that moves on adds nothing inside the stretch of a stream.    *)
(***************************************************************************)
LEMMA UnbrokenLater ==
  ASSUME NEW I, NEW state, Lives(I, state), state \in [Sessions -> Nat], I \subseteq RuntimeReceipts,
         NEW r \in RuntimeReceipts, r.prior = state[r.session],
         r.result = r.prior \/ r.result = r.prior + 1,
         NEW sources \in Seq(RuntimeReceipts), NEW boundary, NEW first, NEW last,
         Unbroken(I, sources, boundary, first, last)
  PROVE  Unbroken(I \cup {r}, sources, boundary, first, last)
<1>. DEFINE L == Len(sources)
            J == I \cup {r}
<1>1. \A i \in 1..L : sources[i] \in I
  BY DEF Unbroken
<1>2. ASSUME sources # <<>>
      PROVE  \A p \in Stretch(J, sources) : \E i \in 1..L : sources[i] = p
  <2>1. /\ \A p \in Stretch(I, sources) : \E i \in 1..L : sources[i] = p
        /\ sources[1].session = sources[L].session
    BY <1>2 DEF Unbroken
  <2>2. L \in Nat /\ L # 0 /\ L \in 1..L
    BY <1>2, EmptySeq, LenProperties
  <2>3. sources[L] \in I
    BY <1>1, <2>2
  <2>4. sources[L].result <= state[sources[L].session]
    BY <2>3 DEF Lives
  <2>5. sources[L].result \in Nat /\ sources[L].session \in Sessions /\ r.session \in Sessions
        /\ r.prior \in Nat /\ r.result \in Nat
    BY <2>3 DEF RuntimeReceipts
  <2>6. r \notin Stretch(J, sources)
    <3>. SUFFICES ASSUME r \in Stretch(J, sources) PROVE FALSE
      OBVIOUS
    <3>1. /\ r.session = sources[1].session /\ r.prior # r.result
          /\ r.result <= sources[L].result
      BY DEF Stretch
    <3>2. state[sources[L].session] = r.prior
      BY <2>1, <3>1
    <3>. QED
      BY <2>4, <2>5, <3>1, <3>2
  <2>7. \A p \in Stretch(J, sources) : p \in Stretch(I, sources)
    BY <2>6 DEF Stretch
  <2>. QED
    BY <2>1, <2>7
<1>. QED
  BY <1>1, <1>2 DEF Unbroken

(***************************************************************************)
(* The receipt a session issues keeps the lives of the sessions in order.  *)
(***************************************************************************)
LEMMA LivesMore ==
  ASSUME NEW I, NEW state \in [Sessions -> Nat], Lives(I, state), I \subseteq RuntimeReceipts,
         NEW r \in RuntimeReceipts, r.prior = state[r.session],
         r.result = IF Moves(r.kind) THEN r.prior + 1 ELSE r.prior,
         NEW next, next = [state EXCEPT ![r.session] = r.result]
  PROVE  Lives(I \cup {r}, next)
<1>1. r.session \in Sessions /\ r.prior \in Nat /\ r.result \in Nat
  BY DEF RuntimeReceipts
<1>2. r.result >= r.prior /\ (r.prior # r.result => r.result = r.prior + 1)
  BY <1>1
<1>3. \A p \in I : /\ p.session \in Sessions /\ p.prior \in Nat /\ p.result \in Nat
  BY DEF RuntimeReceipts
<1>4. \A p \in I : /\ p.result = IF Moves(p.kind) THEN p.prior + 1 ELSE p.prior
                   /\ p.result <= state[p.session]
  BY DEF Lives
<1>5. \A s \in Sessions : state[s] \in Nat /\ next[s] = IF s = r.session THEN r.result ELSE state[s]
  OBVIOUS
<1>6. \A p \in I \cup {r} : p.result <= next[p.session]
  BY <1>1, <1>2, <1>3, <1>4, <1>5
<1>7. ASSUME NEW p \in I, p.session = r.session, p.prior = r.prior, p.prior # p.result PROVE FALSE
  <2>1. p.result = p.prior + 1 /\ p.result <= state[r.session]
    BY <1>4, <1>7
  <2>. QED
    BY <1>1, <1>3, <1>7, <2>1
<1>8. \A p, q \in I \cup {r} :
        p.session = q.session /\ p.prior = q.prior /\ p.prior # p.result /\ q.prior # q.result => p = q
  BY <1>7 DEF Lives
<1>. QED
  BY <1>4, <1>6, <1>8 DEF Lives

-----------------------------------------------------------------------------
(* The operations of an accumulator *)

(***************************************************************************)
(* The case of an unbound record, and of a runtime receipt.                *)
(***************************************************************************)
LEMMA CaseTyped ==
  /\ \A c \in StructuralCases :
       /\ StructuralCase(c) \in Cases /\ StructuralCase(c).source = None
       /\ StructuralCase(c).status = "passed" => StructuralCase(c).counters.mismatches = 0
  /\ \A r \in RuntimeReceipts :
       /\ RuntimeCase(r) \in Cases /\ RuntimeCase(r).source = r /\ RuntimeCase(r).source # None
       /\ RuntimeCase(r).counters.mismatches = 0
<1>1. ASSUME NEW c \in StructuralCases
      PROVE  /\ StructuralCase(c) \in Cases /\ StructuralCase(c).source = None
             /\ StructuralCase(c).status = "passed" => StructuralCase(c).counters.mismatches = 0
  <2>1. c.status \in Statuses /\ c.mismatches \in Nat /\ (c.status = "passed" => c.mismatches = 0)
    BY EvidenceAssumption
  <2>. QED
    BY <2>1 DEF StructuralCase, Counters, Cases, EvidenceCounters
<1>2. ASSUME NEW r \in RuntimeReceipts
      PROVE  /\ RuntimeCase(r) \in Cases /\ RuntimeCase(r).source = r /\ RuntimeCase(r).source # None
             /\ RuntimeCase(r).counters.mismatches = 0
  <2>1. BudgetDelta(r) \in EvidenceCounters /\ BudgetDelta(r).mismatches = 0
    BY DEF BudgetDelta, Counters, One, EvidenceCounters
  <2>2. (IF Accepted(r) THEN "passed" ELSE "rejected") \in Statuses
    BY DEF Statuses
  <2>. QED
    BY <2>1, <2>2, EvidenceNoneAssumption DEF RuntimeCase, Cases
<1>. QED
  BY <1>1, <1>2

(***************************************************************************)
(* Ingestion into an open reducer leaves nothing sealed.                   *)
(***************************************************************************)
LEMMA SealedOpen ==
  ASSUME NEW n, NEW f, NEW m, NEW g, Open(n), Sealed(n, f),
         m.summary = n.summary, m.final = n.final, g.summary = f.summary, g.final = f.final
  PROVE  Sealed(m, g)
BY DEF Open, Sealed

\* p is n, up to what it claims of its sources.
SameBooks(p, n) ==
  /\ p \in Reducers /\ p.manifest = n.manifest
  /\ p.counts = n.counts /\ p.counters = n.counters /\ p.cases = n.cases /\ p.children = n.children
  /\ p.chain = n.chain /\ p.boundary = n.boundary /\ p.firstFailure = n.firstFailure
  /\ p.details = n.details /\ p.summary = n.summary /\ p.final = n.final

(***************************************************************************)
(* A case, whatever it claims of its source.                               *)
(***************************************************************************)
LEMMA SoundCase ==
  ASSUME NEW n \in Reducers, NEW p, SameBooks(p, n), Accounted(CasesOf(n.chain), n),
         NEW item \in Cases, item.status = "passed" => item.counters.mismatches = 0,
         HasRoom(n, 1), NEW m, m = IngestCase(p, item)
  PROVE  /\ CaseIngested(m, p, item)
         /\ Accounted(CasesOf(m.chain), m)
         /\ m.chain = Append(n.chain, item)
         /\ CasesOf(n.chain) \in Seq(Cases)
         /\ OneLonger(CasesOf(m.chain), CasesOf(n.chain), item)
<1>. DEFINE q == CasesOf(n.chain)
            u == CasesOf(m.chain)
<1>1. p \in Reducers
  BY DEF SameBooks
<1>2. CaseIngested(m, p, item)
  BY <1>1, CaseFields
<1>3. n.chain \in Seq(Items) /\ m.chain = Append(n.chain, item)
  BY <1>2 DEF CaseIngested, SameBooks, Reducers
<1>4. q \in Seq(Cases) /\ OneLonger(u, q, item)
  BY <1>3, ChainWithCase
<1>5. Accounted(CasesOf(p.chain), p)
  <2>1. Accounted(q, n)
    OBVIOUS
  <2>. HIDE DEF q
  <2>2. Accounted(q, p)
    BY <2>1 DEF Accounted, Itemized, SameBooks
  <2>. QED
    BY <2>2 DEF q, SameBooks
<1>6. HasRoom(p, 1)
  BY DEF HasRoom, SameBooks
<1>7. Accounted(u, m)
  BY <1>1, <1>5, <1>6, AccountedCase
<1>. QED
  BY <1>2, <1>3, <1>4, <1>7

(***************************************************************************)
(* An unbound case record.                                                 *)
(***************************************************************************)
LEMMA SoundStructural ==
  ASSUME NEW I, NEW n \in Reducers, NEW f \in Facades, Sound(I, n, f),
         NEW item \in Cases, item.source = None,
         item.status = "passed" => item.counters.mismatches = 0, Open(n), HasRoom(n, 1),
         NEW p, SameBooks(p, n), p.bound = FALSE, NEW m, m = IngestCase(p, item)
  PROVE  m \in Reducers /\ Sound(I, m, f)
<1>. DEFINE q == CasesOf(n.chain)
            u == CasesOf(m.chain)
<1>1. Accounted(q, n) /\ Sourced(I, q, n)
  BY DEF Sound
<1>2. /\ CaseIngested(m, p, item) /\ Accounted(u, m) /\ m.chain = Append(n.chain, item)
      /\ q \in Seq(Cases) /\ OneLonger(u, q, item)
  BY <1>1, SoundCase
<1>. HIDE DEF q, u
<1>3. /\ m \in Reducers /\ m.bound = p.bound
      /\ m.boundary = n.boundary /\ m.summary = n.summary /\ m.final = n.final
  BY <1>2 DEF CaseIngested, SameBooks
<1>4. n.chain \in Seq(Items)
  BY DEF Reducers
<1>5. m.bound = FALSE
  BY <1>3
<1>8. Sourced(I, u, m)
  BY <1>1, <1>2, <1>4, <1>5, SourcedStructural
<1>9. DirectSources(m.chain) = DirectSources(n.chain)
  <2>1. item \in Items /\ SourcePart(item) = <<>>
    BY DEF Items, SourcePart
  <2>2. DirectSources(n.chain) \in Seq(RuntimeReceipts)
        /\ DirectSources(m.chain) = DirectSources(n.chain) \o <<>>
    BY <1>2, <1>4, <2>1, SourcesOfChain
  <2>. QED
    BY <2>2, ConcatEmptySeq
<1>10. Unbroken(I, DirectSources(m.chain), m.boundary, f.first, f.last)
  BY <1>3, <1>9 DEF Sound
<1>11. Sealed(m, f)
  BY <1>3, SealedOpen DEF Sound
<1>. QED
  BY <1>2, <1>3, <1>8, <1>10, <1>11 DEF Sound, u

(***************************************************************************)
(* A runtime receipt.                                                      *)
(***************************************************************************)
LEMMA SoundRuntime ==
  ASSUME NEW I, I \subseteq RuntimeReceipts, NEW state, Lives(I, state),
         NEW n \in Reducers, NEW f \in Facades, Sound(I, n, f), NEW r \in I,
         Open(n), HasRoom(n, 1), Continuous(n, r), r.action \in DOMAIN Manifests[n.manifest],
         MatchesRuntime(Manifests[n.manifest][r.action], r), ColdBefore(n, r),
         NEW p, SameBooks(p, n), p.bound = n.bound, p.observed = Observe(n, r),
         NEW m, m = IngestCase(p, RuntimeCase(r)),
         NEW g, g.first = (IF f.first = None THEN r ELSE f.first), g.last = r,
         g.summary = f.summary, g.final = f.final
  PROVE  m \in Reducers /\ Sound(I, m, g)
<1>. DEFINE item == RuntimeCase(r)
            q == CasesOf(n.chain)
            u == CasesOf(m.chain)
<1>1. Accounted(q, n) /\ Sourced(I, q, n)
  BY DEF Sound
<1>2. item \in Cases /\ item.source = r /\ item.source # None /\ item.counters.mismatches = 0
  BY CaseTyped
<1>3. m = IngestCase(p, item)
  OBVIOUS
<1>. HIDE DEF item
<1>4. n.chain \in Seq(Items) /\ item \in Items /\ item.type = "case"
  BY <1>2 DEF Reducers, Items, Cases
<1>5. /\ CaseIngested(m, p, item) /\ Accounted(u, m) /\ m.chain = Append(n.chain, item)
      /\ q \in Seq(Cases) /\ OneLonger(u, q, item)
  BY <1>1, <1>2, <1>3, SoundCase
<1>. HIDE DEF q, u
<1>6. /\ m \in Reducers /\ m.bound = p.bound /\ m.manifest = n.manifest /\ m.observed = p.observed
      /\ m.summary = n.summary /\ m.final = n.final
  BY <1>5 DEF CaseIngested, SameBooks
<1>7. m.boundary = ExtendBoundary(n.boundary, r)
  BY <1>2, <1>5 DEF CaseIngested, SameBooks
<1>8. Sourced(I, u, m)
  <2>1. m.bound = n.bound /\ m.observed = Observe(n, r)
    BY <1>6
  <2>. QED
    BY <1>1, <1>4, <1>5, <1>6, <2>1, SourcedRuntime DEF item
<1>9. /\ DirectSources(n.chain) \in Seq(RuntimeReceipts)
      /\ DirectSources(m.chain) = Append(DirectSources(n.chain), r)
  <2>1. SourcePart(item) = <<r>>
    BY <1>2, <1>4 DEF SourcePart
  <2>2. DirectSources(n.chain) \in Seq(RuntimeReceipts)
        /\ DirectSources(m.chain) = DirectSources(n.chain) \o <<r>>
    BY <1>4, <1>5, <2>1, SourcesOfChain
  <2>3. r \in RuntimeReceipts
    OBVIOUS
  <2>. QED
    BY <2>2, <2>3, AppendIsConcat
<1>10. Unbroken(I, DirectSources(m.chain), m.boundary, g.first, g.last)
  <2>. DEFINE s == DirectSources(n.chain)
              b == n.boundary
              x == f.first
  <2>1. Unbroken(I, s, b, x, f.last)
    BY DEF Sound
  <2>2. b # None => b.session = r.session /\ b.final = r.prior
    BY DEF Continuous
  <2>3. s \in Seq(RuntimeReceipts)
    BY <1>9
  <2>. HIDE DEF s, b, x
  <2>4. Unbroken(I, Append(s, r), ExtendBoundary(b, r), IF x = None THEN r ELSE x, r)
    BY <2>1, <2>2, <2>3, UnbrokenMore
  <2>5. DirectSources(m.chain) = Append(s, r) /\ m.boundary = ExtendBoundary(b, r)
        /\ g.first = (IF x = None THEN r ELSE x) /\ g.last = r
    BY <1>7, <1>9 DEF s, b, x
  <2>. QED
    BY <2>4, <2>5
<1>11. Sealed(m, g)
  BY <1>6, SealedOpen DEF Sound
<1>. QED
  BY <1>5, <1>6, <1>8, <1>10, <1>11 DEF Sound, u

(***************************************************************************)
(* What a final receipt without failures vouches for.                      *)
(***************************************************************************)
LEMMA FinalVouches ==
  ASSUME NEW I, NEW n \in Reducers, NEW f \in Facades, Sound(I, n, f),
         NEW receipt, receipt = f.final, receipt # None, receipt.status = "complete_no_failures"
  PROVE  /\ receipt \in Finals /\ receipt.chain = n.chain /\ Whole(receipt)
         /\ receipt.bound => ChildSourced(I, CasesOf(receipt.chain), receipt.manifest)
<1>. DEFINE q == CasesOf(n.chain)
<1>1. receipt \in Finals
  BY DEF Facades
<1>2. /\ n.final = receipt /\ n.summary # None /\ Covered(n) /\ n.counts.total > 0
      /\ receipt = CompactReceipt(n, receipt.execution)
  BY DEF Sound, Sealed
<1>3. /\ receipt.chain = n.chain /\ receipt.counts = n.counts /\ receipt.counters = n.counters
      /\ receipt.bound = n.bound /\ receipt.manifest = n.manifest /\ receipt.status = Status(n.counts)
  BY <1>2 DEF CompactReceipt
<1>4. n.counts.failed \in Nat /\ n.counts.rejected \in Nat /\ n.counts.total \in Nat
  BY DEF Reducers, CaseCounts
<1>5. n.counts.failed + n.counts.rejected = 0
  BY <1>3 DEF Status, FailureCount
<1>6. n.counts.failed = 0 /\ n.counts.rejected = 0
  BY <1>4, <1>5
<1>7. q \in Seq(Cases)
  BY CasesOfChain DEF Reducers
<1>8. Accounted(q, n) /\ Sourced(I, q, n)
  BY DEF Sound
<1>. HIDE DEF q
<1>9. /\ n.counts.total = Len(q) /\ n.counts.passed = Cardinality(Having(q, "passed"))
      /\ Cardinality(Failures(q)) = 0 /\ Summed(q, n.counters) /\ n.counters.mismatches = 0
  BY <1>5, <1>8 DEF Accounted, Counted
<1>10. Failures(q) = {}
  BY <1>7, <1>9, PositionsFinite, FS_EmptySet
<1>11. Whole(receipt)
  <2>1. CasesOf(receipt.chain) = q
    BY <1>3 DEF q
  <2>. QED
    BY <1>2, <1>3, <1>6, <1>9, <1>10, <2>1 DEF Whole
<1>12. ASSUME receipt.bound PROVE ChildSourced(I, q, n.manifest)
  <2>1. n.bound /\ n.observed = DOMAIN Manifests[n.manifest]
    BY <1>2, <1>3, <1>12 DEF Covered
  <2>2. Told(q) /\ LiveSources(I, q) /\ HitsFollow(q) /\ Observed(q, n)
    BY <1>8, <2>1 DEF Sourced, Told, LiveSources
  <2>. QED
    BY <2>1, <2>2 DEF Observed, ChildSourced
<1>. QED
  BY <1>1, <1>3, <1>11, <1>12 DEF q

(***************************************************************************)
(* A child receipt.                                                        *)
(***************************************************************************)
LEMMA SoundChild ==
  ASSUME NEW I, NEW n \in Reducers, NEW f \in Facades, Sound(I, n, f),
         NEW receipt \in Finals, Whole(receipt),
         ChildSourced(I, CasesOf(receipt.chain), n.manifest),
         Open(n), HasRoom(n, receipt.counts.total),
         NEW m, m = IngestReceipt(n, receipt)
  PROVE  m \in Reducers /\ Sound(I, m, f)
<1>. DEFINE q == CasesOf(n.chain)
            t == CasesOf(receipt.chain)
            u == CasesOf(m.chain)
            item == ChildItem(receipt)
<1>1. /\ m \in Reducers /\ m.bound = n.bound /\ m.manifest = n.manifest
      /\ m.chain = Append(n.chain, item) /\ item \in Items
      /\ m.observed = DOMAIN Manifests[n.manifest]
      /\ m.boundary = n.boundary /\ m.summary = n.summary /\ m.final = n.final
  BY ChildFields DEF ChildIngested
<1>2. n.chain \in Seq(Items)
  BY DEF Reducers
<1>3. Accounted(u, m)
  BY AccountedChild DEF Sound
<1>4. /\ q \in Seq(Cases) /\ t \in Seq(Cases) /\ u \in Seq(Cases) /\ Continues(u, q, t)
  BY <1>1, <1>2, ChainWithChild
<1>5. Failures(t) = {} /\ Len(u) = Len(q) + Len(t)
  BY <1>4 DEF Whole, Continues
<1>6. Sourced(I, q, n)
  BY DEF Sound
<1>7. item.type = "child"
  BY DEF ChildItem
<1>. HIDE DEF q, u, item
<1>8. Lengthened(u, q, t)
  <2>. HIDE DEF t
  <2>. QED
    BY <1>4, <1>5, ManyMore
<1>9. Sourced(I, u, m)
  <2>1. ChildSourced(I, t, n.manifest)
    OBVIOUS
  <2>. HIDE DEF t
  <2>. QED
    BY <1>1, <1>2, <1>4, <1>5, <1>6, <1>8, <2>1, SourcedChild
<1>10. DirectSources(m.chain) = DirectSources(n.chain)
  <2>1. SourcePart(item) = <<>>
    BY <1>7 DEF SourcePart
  <2>2. DirectSources(n.chain) \in Seq(RuntimeReceipts)
        /\ DirectSources(m.chain) = DirectSources(n.chain) \o <<>>
    BY <1>1, <1>2, <2>1, SourcesOfChain
  <2>. QED
    BY <2>2, ConcatEmptySeq
<1>11. Unbroken(I, DirectSources(m.chain), m.boundary, f.first, f.last)
  BY <1>1, <1>10 DEF Sound
<1>12. Sealed(m, f)
  BY <1>1, SealedOpen DEF Sound
<1>. QED
  BY <1>1, <1>3, <1>9, <1>11, <1>12 DEF Sound, u

-----------------------------------------------------------------------------
(* Sealing *)

\* m is n with something sealed.
SameStream(m, n) ==
  /\ m.orch = n.orch /\ m.manifest = n.manifest /\ m.bound = n.bound
  /\ m.counts = n.counts /\ m.counters = n.counters /\ m.cases = n.cases
  /\ m.children = n.children /\ m.details = n.details /\ m.firstFailure = n.firstFailure
  /\ m.observed = n.observed /\ m.boundary = n.boundary /\ m.chain = n.chain

(***************************************************************************)
(* What is said of a stream does not depend on what is sealed.             *)
(***************************************************************************)
LEMMA StreamStays ==
  ASSUME NEW I, NEW n, NEW m, NEW f, NEW g, Sound(I, n, f), SameStream(m, n),
         g.first = f.first, g.last = f.last, Sealed(m, g)
  PROVE  Sound(I, m, g)
<1>. DEFINE q == CasesOf(n.chain)
            s == DirectSources(n.chain)
<1>1. Accounted(q, n) /\ Sourced(I, q, n) /\ Unbroken(I, s, n.boundary, f.first, f.last)
  BY DEF Sound
<1>2. CasesOf(m.chain) = q /\ DirectSources(m.chain) = s
  BY DEF SameStream
<1>. HIDE DEF q, s
<1>3. Accounted(q, m)
  BY <1>1 DEF Accounted, Itemized, SameStream
<1>4. Observed(q, n) => Observed(q, m)
  BY DEF Observed, SameStream
<1>5. Sourced(I, q, m)
  BY <1>1, <1>4 DEF Sourced, SameStream
<1>6. Unbroken(I, s, m.boundary, g.first, g.last)
  BY <1>1 DEF SameStream
<1>. QED
  BY <1>2, <1>3, <1>5, <1>6 DEF Sound

(***************************************************************************)
(* The records a reducer seals are records of the protocol.                *)
(***************************************************************************)
LEMMA SealTyped ==
  ASSUME NEW n \in Reducers
  PROVE  /\ Summary(n) \in AggregateSummaries /\ Summary(n) # None
         /\ \A e \in ExecutionReceipts \cup {Foreign} :
              CompactReceipt(n, e) \in Finals /\ CompactReceipt(n, e) # None
<1>1. /\ n.orch \in Orchestrations /\ n.manifest \in Orchestrations /\ n.bound \in BOOLEAN
      /\ n.counts \in CaseCounts /\ n.counters \in EvidenceCounters /\ n.cases \in Nat
      /\ n.children \in Nat /\ n.chain \in Seq(Items) /\ n.firstFailure \in Nat \cup {None}
      /\ n.boundary \in Boundaries \cup {None} /\ n.details \in Seq(Details)
  BY DEF Reducers
<1>2. BoundaryShown(n) \in Boundaries \cup {None}
  BY <1>1 DEF BoundaryShown
<1>3. Status(n.counts) \in {"complete_no_failures", "complete_with_failures"}
  BY DEF Status
<1>4. Len(n.details) \in Nat
  BY <1>1, LenProperties
<1>5. Summary(n) \in AggregateSummaries
  BY <1>1, <1>2 DEF Summary, AggregateSummaries
<1>6. \A e \in ExecutionReceipts \cup {Foreign} : CompactReceipt(n, e) \in Finals
  BY <1>1, <1>2, <1>3, <1>4 DEF CompactReceipt, Finals, CompactReceipts
<1>. QED
  BY <1>5, <1>6, EvidenceNoneAssumption, AcceptanceNoneAssumption DEF Finals

(***************************************************************************)
(* The facade never refuses the receipt of a reducer whose books are right.*)
(***************************************************************************)
LEMMA CompactIsAdmitted ==
  ASSUME NEW n \in Reducers, Accounted(CasesOf(n.chain), n), n.counts.total > 0, NEW e
  PROVE  CompactAdmitted(CompactReceipt(n, e))
<1>. DEFINE q == CasesOf(n.chain)
            c == CompactReceipt(n, e)
            failures == n.counts.failed + n.counts.rejected
<1>1. q \in Seq(Cases)
  BY CasesOfChain DEF Reducers
<1>2. /\ n.counts.total \in Nat /\ n.counts.failed \in Nat /\ n.counts.rejected \in Nat
      /\ n.cases \in Nat /\ n.children \in Nat
  BY DEF Reducers, CaseCounts
<1>3. /\ c.counts = n.counts /\ c.cases = n.cases /\ c.children = n.children /\ c.status = Status(n.counts)
      /\ c.counters = n.counters /\ c.boundary = BoundaryShown(n) /\ c.firstFailure = n.firstFailure
      /\ c.details = Len(n.details)
  BY DEF CompactReceipt
<1>4. /\ Counted(q, n.counts) /\ FirstFailed(q, n.firstFailure) /\ Detailed(q, n.details)
      /\ Itemized(q, n) /\ (failures = 0 => n.counters.mismatches = 0)
  BY DEF Accounted
<1>. HIDE DEF c, q
<1>5. /\ n.counts.total = Len(q) /\ n.counts.total <= MaxCases /\ failures = Cardinality(Failures(q))
  BY <1>4 DEF Counted
<1>6. /\ n.cases + n.children <= n.counts.total /\ n.cases + n.children > 0
      /\ n.children = 0 => n.cases = n.counts.total
  BY <1>4 DEF Itemized
<1>7. FailureCount(c.counts) = failures
  BY <1>3 DEF FailureCount
<1>8. c.cases + c.children \in 1..c.counts.total /\ c.counts.total <= MaxCases
  BY <1>2, <1>3, <1>5, <1>6
<1>9. c.boundary # None => c.children = 0 /\ c.cases = c.counts.total
  BY <1>3, <1>6 DEF BoundaryShown
<1>10. c.details = IF failures < MaxFailureDetails THEN failures ELSE MaxFailureDetails
  BY <1>3, <1>4, <1>5 DEF Detailed
<1>11. ASSUME failures = 0
       PROVE  c.firstFailure = None /\ c.status = "complete_no_failures" /\ c.counters.mismatches = 0
  <2>1. Failures(q) = {}
    BY <1>1, <1>5, <1>11, PositionsFinite, FS_EmptySet
  <2>2. c.firstFailure = None
    BY <1>3, <1>4, <2>1 DEF FirstFailed
  <2>3. c.status = "complete_no_failures"
    BY <1>3, <1>11 DEF Status, FailureCount
  <2>. QED
    BY <1>3, <1>4, <1>11, <2>2, <2>3
<1>12. ASSUME failures # 0
       PROVE  c.firstFailure \in 0..(c.counts.total - 1) /\ c.status = "complete_with_failures"
  <2>1. Failures(q) # {}
    BY <1>1, <1>5, <1>12, FS_EmptySet
  <2>2. n.firstFailure \in Nat /\ n.firstFailure + 1 \in Failures(q)
    BY <1>4, <2>1 DEF FirstFailed
  <2>3. Failures(q) \subseteq 1..Len(q)
    BY <1>1, PositionsFinite
  <2>4. n.firstFailure \in 0..(n.counts.total - 1)
    BY <1>2, <1>5, <2>2, <2>3
  <2>5. c.status = "complete_with_failures"
    BY <1>3, <1>12 DEF Status, FailureCount
  <2>. QED
    BY <1>3, <2>4, <2>5
<1>. HIDE DEF failures
<1>. QED
  BY <1>7, <1>8, <1>9, <1>10, <1>11, <1>12 DEF CompactAdmitted, c

\* AggregateSummary and Finalize make m of the reducer n and g of the facade f.
Summarized(m, g, n, f) ==
  /\ m = [n EXCEPT !.summary = IF @ = None THEN Summary(n) ELSE @]
  /\ g = [f EXCEPT !.summary = IF SummaryAdmitted(n, f) THEN m.summary ELSE @]

Finalized(m, g, n, f, e) ==
  /\ m = [n EXCEPT !.final = IF @ = None THEN CompactReceipt(n, e) ELSE @]
  /\ g = [f EXCEPT !.final = IF CompactAdmitted(m.final) THEN m.final ELSE @]

(***************************************************************************)
(* Sealing a summary.                                                      *)
(***************************************************************************)
LEMMA SoundSummary ==
  ASSUME NEW I, NEW n \in Reducers, NEW f \in Facades, Sound(I, n, f), f.summary = None,
         n.summary = None => n.counts.total > 0 /\ Covered(n),
         NEW m, NEW g, Summarized(m, g, n, f)
  PROVE  m \in Reducers /\ g \in Facades /\ Sound(I, m, g)
<1>. DEFINE x == IF n.summary = None THEN Summary(n) ELSE n.summary
            y == IF SummaryAdmitted(n, f) THEN x ELSE f.summary
<1>1. Summary(n) \in AggregateSummaries /\ Summary(n) # None
  BY SealTyped
<1>2. x \in AggregateSummaries \cup {None} /\ x # None
  BY <1>1 DEF Reducers
<1>3. m = [n EXCEPT !.summary = x]
  BY DEF Reducers, Summarized
<1>4. m.summary = x
  BY <1>3 DEF Reducers
<1>5. y \in AggregateSummaries \cup {None} /\ (y # None => y = x)
  BY <1>2 DEF Facades
<1>6. g = [f EXCEPT !.summary = y]
  BY <1>4 DEF Facades, Summarized
<1>7. /\ n.summary # None => n.summary = Summary(n) /\ Covered(n) /\ n.counts.total > 0
      /\ n.final = None /\ f.final = None
  BY DEF Sound, Sealed
<1>8. x = Summary(n) /\ Covered(n) /\ n.counts.total > 0
  BY <1>7
<1>. HIDE DEF x, y
<1>9. /\ m \in Reducers /\ m.orch = n.orch /\ m.manifest = n.manifest /\ m.bound = n.bound
      /\ m.counts = n.counts /\ m.counters = n.counters /\ m.cases = n.cases
      /\ m.children = n.children /\ m.details = n.details /\ m.firstFailure = n.firstFailure
      /\ m.observed = n.observed /\ m.boundary = n.boundary /\ m.chain = n.chain /\ m.final = n.final
  BY <1>2, <1>3 DEF Reducers
<1>10. /\ g \in Facades /\ g.first = f.first /\ g.last = f.last /\ g.summary = y /\ g.final = f.final
  BY <1>5, <1>6 DEF Facades
<1>11. Summary(m) = Summary(n) /\ (Covered(m) <=> Covered(n))
  BY <1>9 DEF Summary, BoundaryShown, Covered
<1>12. Sealed(m, g)
  BY <1>4, <1>5, <1>7, <1>8, <1>9, <1>10, <1>11 DEF Sealed
<1>13. SameStream(m, n)
  BY <1>9 DEF SameStream
<1>14. Sound(I, m, g)
  BY <1>10, <1>12, <1>13, StreamStays
<1>. QED
  BY <1>9, <1>10, <1>14

(***************************************************************************)
(* Binding an execution.                                                   *)
(***************************************************************************)
LEMMA SoundFinal ==
  ASSUME NEW I, NEW n \in Reducers, NEW f \in Facades, Sound(I, n, f),
         f.summary # None, f.final = None, NEW e \in ExecutionReceipts \cup {Foreign},
         NEW m, NEW g, Finalized(m, g, n, f, e)
  PROVE  m \in Reducers /\ g \in Facades /\ Sound(I, m, g)
<1>. DEFINE c == CompactReceipt(n, e)
<1>1. /\ n.final = None /\ n.summary # None /\ f.summary = n.summary
      /\ n.summary = Summary(n) /\ Covered(n) /\ n.counts.total > 0
  BY DEF Sound, Sealed
<1>2. c \in Finals /\ c # None
  BY SealTyped
<1>3. CompactAdmitted(c)
  BY <1>1, CompactIsAdmitted DEF Sound
<1>4. c.execution = e
  BY DEF CompactReceipt
<1>. HIDE DEF c
<1>5. m = [n EXCEPT !.final = c]
  BY <1>1 DEF c, Reducers, Finalized
<1>6. m.final = c
  BY <1>5 DEF Reducers
<1>7. g = [f EXCEPT !.final = c]
  BY <1>3, <1>6 DEF Facades, Finalized
<1>8. /\ m \in Reducers /\ m.orch = n.orch /\ m.manifest = n.manifest /\ m.bound = n.bound
      /\ m.counts = n.counts /\ m.counters = n.counters /\ m.cases = n.cases
      /\ m.children = n.children /\ m.details = n.details /\ m.firstFailure = n.firstFailure
      /\ m.observed = n.observed /\ m.boundary = n.boundary /\ m.chain = n.chain
      /\ m.summary = n.summary
  BY <1>2, <1>5 DEF Reducers
<1>9. g \in Facades /\ g.first = f.first /\ g.last = f.last /\ g.summary = f.summary /\ g.final = c
  BY <1>2, <1>7 DEF Facades
<1>10. Summary(m) = Summary(n) /\ (Covered(m) <=> Covered(n)) /\ CompactReceipt(m, e) = c
  BY <1>8 DEF Summary, BoundaryShown, Covered, CompactReceipt, c
<1>11. Sealed(m, g)
  BY <1>1, <1>2, <1>4, <1>6, <1>8, <1>9, <1>10 DEF Sealed
<1>12. SameStream(m, n)
  BY <1>8 DEF SameStream
<1>13. Sound(I, m, g)
  BY <1>9, <1>11, <1>12, StreamStays
<1>. QED
  BY <1>8, <1>9, <1>13

(***************************************************************************)
(* A receipt a session issues takes nothing away.                          *)
(***************************************************************************)
LEMMA SoundLater ==
  ASSUME NEW I, NEW state \in [Sessions -> Nat], Lives(I, state), I \subseteq RuntimeReceipts,
         NEW r \in RuntimeReceipts, r.prior = state[r.session],
         r.result = r.prior \/ r.result = r.prior + 1,
         NEW n \in Reducers, NEW f, Sound(I, n, f)
  PROVE  Sound(I \cup {r}, n, f)
<1>. DEFINE q == CasesOf(n.chain)
            s == DirectSources(n.chain)
            b == n.boundary
<1>1. /\ Accounted(q, n) /\ Sourced(I, q, n) /\ Sealed(n, f)
      /\ Unbroken(I, s, b, f.first, f.last)
  BY DEF Sound
<1>2. s \in Seq(RuntimeReceipts)
  BY SourcesOfChain DEF Reducers
<1>. HIDE DEF q, s, b
<1>3. Sourced(I \cup {r}, q, n)
  BY <1>1 DEF Sourced
<1>4. Unbroken(I \cup {r}, s, b, f.first, f.last)
  BY <1>1, <1>2, UnbrokenLater
<1>. QED
  BY <1>1, <1>3, <1>4 DEF Sound, q, s, b

-----------------------------------------------------------------------------
(* The invariant *)

(***************************************************************************)
(* An execution receipt binds a summary that shows a boundary.             *)
(***************************************************************************)
LEMMA ExecutionsTyped ==
  ASSUME EvidenceTypes
  PROVE  /\ Summaries \subseteq AggregateSummaries
         /\ Executions \subseteq ExecutionReceipts
<1>1. \A a \in Accumulators : facade[a].summary \in AggregateSummaries \cup {None}
  BY DEF EvidenceTypes, Facades
<1>2. Summaries \subseteq AggregateSummaries
  BY <1>1 DEF Summaries
<1>3. ASSUME NEW t \in AggregateSummaries, ExecutionBinds(t.orch, t)
      PROVE  ExecutionReceipt(t.orch, t.chain, t.counts.total, t.boundary) \in ExecutionReceipts
  <2>1. t.orch \in Orchestrations /\ t.chain \in Seq(Items) /\ t.counts \in CaseCounts
        /\ t.boundary \in Boundaries \cup {None}
    BY <1>3 DEF AggregateSummaries
  <2>2. t.counts.total \in Nat
    BY <2>1 DEF CaseCounts
  <2>3. t.boundary # None
    BY <1>3 DEF ExecutionBinds
  <2>. QED
    BY <2>1, <2>2, <2>3 DEF ExecutionReceipt, ExecutionReceipts
<1>. QED
  BY <1>2, <1>3 DEF Executions

(***************************************************************************)
(* A new accumulator.                                                      *)
(***************************************************************************)
LEMMA SoundNew ==
  ASSUME NEW opening \in [orch : Orchestrations, manifest : Orchestrations],
         NEW n, n = NewReducer(opening), NEW f, f = NewFacade
  PROVE  n \in Reducers /\ f \in Facades /\ Sound({}, n, f)
<1>1. /\ n.bound = TRUE /\ n.cases = 0 /\ n.children = 0 /\ n.details = <<>>
      /\ n.firstFailure = None /\ n.observed = {} /\ n.boundary = None /\ n.chain = <<>>
      /\ n.summary = None /\ n.final = None
      /\ n.counts = [passed |-> 0, failed |-> 0, rejected |-> 0, total |-> 0]
      /\ n.counters = Counters(0, 0, 0, 0, 0)
  BY DEF NewReducer
<1>2. f.first = None /\ f.last = None /\ f.summary = None /\ f.final = None
  BY DEF NewFacade
<1>3. n.counts \in CaseCounts /\ n.counters \in EvidenceCounters
  BY <1>1 DEF CaseCounts, EvidenceCounters, Counters
<1>4. << >> \in Seq(Items) /\ << >> \in Seq(Details) /\ << >> \in Seq(Cases)
  OBVIOUS
<1>5. n.orch \in Orchestrations /\ n.manifest \in Orchestrations
  BY DEF NewReducer
<1>6. n \in Reducers
  <2>1. opening.orch \in Orchestrations /\ opening.manifest \in Orchestrations
    OBVIOUS
  <2>2. [passed |-> 0, failed |-> 0, rejected |-> 0, total |-> 0] \in CaseCounts
        /\ Counters(0, 0, 0, 0, 0) \in EvidenceCounters
    BY <1>1, <1>3
  <2>. QED
    BY <1>4, <2>1, <2>2 DEF Reducers, NewReducer
<1>7. f \in Facades
  BY DEF NewFacade, Facades
<1>8. CasesOf(n.chain) = <<>> /\ DirectSources(n.chain) = <<>>
  BY <1>1, CasesOfChain, SourcesOfChain
<1>9. Failures(<<>>) = {} /\ \A s : Having(<<>>, s) = {}
  BY DEF Failures, Having
<1>10. Counted(<<>>, n.counts)
  <2>1. Cardinality({}) = 0
    BY FS_EmptySet
  <2>2. MaxCases \in Nat
    BY EvidenceAssumption
  <2>3. /\ n.counts.total = 0 /\ n.counts.passed = 0 /\ n.counts.failed = 0
        /\ n.counts.rejected = 0 /\ Len(<<>>) = 0
    BY <1>1
  <2>4. /\ Cardinality(Failures(<<>>)) = 0 /\ Cardinality(Having(<<>>, "passed")) = 0
        /\ Cardinality(Having(<<>>, "failed")) = 0 /\ Cardinality(Having(<<>>, "rejected")) = 0
    BY <1>9, <2>1
  <2>. QED
    BY <2>2, <2>3, <2>4 DEF Counted
<1>11. Summed(<<>>, n.counters)
  BY <1>1, SumSmall DEF Summed, Counters, CounterNames
<1>12. FirstFailed(<<>>, n.firstFailure)
  BY <1>1, <1>9 DEF FirstFailed
<1>13. Detailed(<<>>, n.details)
  <2>1. Cardinality({}) = 0
    BY FS_EmptySet
  <2>2. MaxFailureDetails \in Nat \ {0}
    BY EvidenceAssumption
  <2>3. Kept(<<>>) = {}
    BY <1>9 DEF Kept
  <2>4. Cardinality(Failures(<<>>)) = 0
    BY <1>9, <2>1
  <2>5. Len(n.details) = 0 /\ 1..0 = {}
    BY <1>1
  <2>. QED
    BY <2>2, <2>3, <2>4, <2>5 DEF Detailed
<1>14. Itemized(<<>>, n)
  BY <1>1 DEF Itemized
<1>15. Accounted(<<>>, n)
  BY <1>1, <1>10, <1>11, <1>12, <1>13, <1>14 DEF Accounted, Counters
<1>16. Sourced({}, <<>>, n)
  BY <1>1 DEF Sourced, HitsFollow, Observed
<1>17. Unbroken({}, <<>>, n.boundary, f.first, f.last)
  BY <1>1, <1>2 DEF Unbroken
<1>18. Sealed(n, f)
  BY <1>1, <1>2 DEF Sealed
<1>. QED
  BY <1>6, <1>7, <1>8, <1>15, <1>16, <1>17, <1>18 DEF Sound

(***************************************************************************)
(* The invariant holds at first.                                           *)
(***************************************************************************)
LEMMA EvidenceInitially == InitEvidence => EvidenceInv
<1>. SUFFICES ASSUME InitEvidence PROVE EvidenceInv
  OBVIOUS
<1>1. at \in [Sessions -> Nat] /\ issued = {}
  BY DEF InitEvidence
<1>2. PICK opening \in Openings : native = [a \in Accumulators |-> NewReducer(opening[a])]
  BY DEF InitEvidence
<1>3. \A a \in Accumulators : opening[a] \in [orch : Orchestrations, manifest : Orchestrations]
  BY EvidenceAssumption
<1>4. \A a \in Accumulators : native[a] = NewReducer(opening[a]) /\ facade[a] = NewFacade
  BY <1>2 DEF InitEvidence
<1>5. \A a \in Accumulators : native[a] \in Reducers /\ facade[a] \in Facades
                              /\ Sound({}, native[a], facade[a])
  BY <1>3, <1>4, SoundNew
<1>6. native \in [Accumulators -> Reducers] /\ facade \in [Accumulators -> Facades]
  BY <1>2, <1>5 DEF InitEvidence
<1>7. Lives({}, at)
  BY DEF Lives
<1>. QED
  BY <1>1, <1>5, <1>6, <1>7 DEF EvidenceInv, EvidenceTypes

(***************************************************************************)
(* A step of one accumulator, the sessions left alone.                     *)
(***************************************************************************)
LEMMA OneAccumulator ==
  ASSUME EvidenceInv, NEW a \in Accumulators, at' = at, issued' = issued,
         NEW m, m \in Reducers, NEW g, g \in Facades, Sound(issued, m, g),
         native' = [native EXCEPT ![a] = m], facade' = [facade EXCEPT ![a] = g]
  PROVE  EvidenceInv'
<1>1. native' \in [Accumulators -> Reducers] /\ facade' \in [Accumulators -> Facades]
  BY DEF EvidenceInv, EvidenceTypes
<1>2. \A b \in Accumulators : /\ native'[b] = IF b = a THEN m ELSE native[b]
                              /\ facade'[b] = IF b = a THEN g ELSE facade[b]
  BY DEF EvidenceInv, EvidenceTypes
<1>3. \A b \in Accumulators : Sound(issued, native'[b], facade'[b])
  BY <1>2 DEF EvidenceInv
<1>4. EvidenceTypes'
  BY <1>1 DEF EvidenceInv, EvidenceTypes
<1>5. Lives(issued, at)' /\ \A b \in Accumulators : Sound(issued', native'[b], facade'[b])
  BY <1>3 DEF EvidenceInv
<1>. QED
  BY <1>4, <1>5 DEF EvidenceInv

(***************************************************************************)
(* A receipt is issued.                                                    *)
(***************************************************************************)
LEMMA IssueKeeps ==
  ASSUME EvidenceInv, NEW s \in Sessions, NEW kind \in Reads \cup Retries \cup {"lease"},
         NEW action \in {c.action : c \in Commands} \cup {None},
         NEW key \in {c.key : c \in Commands} \cup {None}, Issue(s, kind, action, key)
  PROVE  EvidenceInv'
<1>. DEFINE r == [session |-> s, kind |-> kind, action |-> action, key |-> key,
                  prior |-> at[s], result |-> IF Moves(kind) THEN at[s] + 1 ELSE at[s]]
<1>1. at \in [Sessions -> Nat] /\ issued \subseteq RuntimeReceipts /\ Lives(issued, at)
  BY DEF EvidenceInv, EvidenceTypes
<1>2. issued' = issued \cup {r} /\ at' = [at EXCEPT ![s] = r.result]
      /\ native' = native /\ facade' = facade
  BY DEF Issue
<1>3. r \in RuntimeReceipts
  BY <1>1 DEF RuntimeReceipts
<1>4. r.session = s /\ r.prior = at[s] /\ r.result = IF Moves(r.kind) THEN r.prior + 1 ELSE r.prior
  OBVIOUS
<1>. HIDE DEF r
<1>5. r.result \in Nat
  BY <1>3 DEF RuntimeReceipts
<1>6. at' \in [Sessions -> Nat] /\ issued' \subseteq RuntimeReceipts
  BY <1>1, <1>2, <1>3, <1>5
<1>7. Lives(issued \cup {r}, at')
  BY <1>1, <1>2, <1>3, <1>4, LivesMore
<1>8. r.result = r.prior \/ r.result = r.prior + 1
  BY <1>4
<1>9. \A a \in Accumulators : native[a] \in Reducers /\ Sound(issued, native[a], facade[a])
  BY DEF EvidenceInv, EvidenceTypes
<1>10. \A a \in Accumulators : Sound(issued \cup {r}, native[a], facade[a])
  BY <1>1, <1>3, <1>4, <1>8, <1>9, SoundLater
<1>11. EvidenceTypes'
  BY <1>2, <1>6 DEF EvidenceInv, EvidenceTypes
<1>12. Lives(issued, at)' /\ (\A a \in Accumulators : Sound(issued, native[a], facade[a]))'
  BY <1>2, <1>7, <1>10
<1>. QED
  BY <1>11, <1>12 DEF EvidenceInv

(***************************************************************************)
(* What the invariant says of one accumulator.                             *)
(***************************************************************************)
LEMMA OfOne ==
  ASSUME EvidenceInv, NEW a \in Accumulators
  PROVE  /\ native[a] \in Reducers /\ facade[a] \in Facades
         /\ Sound(issued, native[a], facade[a])
         /\ issued \subseteq RuntimeReceipts /\ Lives(issued, at)
         /\ native \in [Accumulators -> Reducers] /\ facade \in [Accumulators -> Facades]
BY DEF EvidenceInv, EvidenceTypes

(***************************************************************************)
(* record_case keeps the invariant.                                        *)
(***************************************************************************)
LEMMA RecordCaseKeeps ==
  ASSUME EvidenceInv, NEW a \in Accumulators, NEW c \in StructuralCases, RecordCase(a, c)
  PROVE  EvidenceInv'
<1>. DEFINE n == native[a]
            f == facade[a]
            p == [n EXCEPT !.bound = FALSE]
            item == StructuralCase(c)
            m == IngestCase(p, item)
<1>1. n \in Reducers /\ f \in Facades /\ Sound(issued, n, f)
  BY OfOne
<1>2. Open(n) /\ HasRoom(n, 1)
  BY DEF RecordCase
<1>3. at' = at /\ issued' = issued /\ native' = [native EXCEPT ![a] = m]
  BY OfOne DEF RecordCase
<1>4. facade' = [facade EXCEPT ![a] = f]
  BY OfOne DEF RecordCase
<1>5. item \in Cases /\ item.source = None /\ (item.status = "passed" => item.counters.mismatches = 0)
  BY CaseTyped
<1>. HIDE DEF n, f, item
<1>6. SameBooks(p, n) /\ p.bound = FALSE
  BY <1>1 DEF SameBooks, Reducers
<1>. HIDE DEF p
<1>7. m \in Reducers /\ Sound(issued, m, f)
  BY <1>1, <1>2, <1>5, <1>6, SoundStructural
<1>. HIDE DEF m
<1>. QED
  BY <1>1, <1>3, <1>4, <1>7, OneAccumulator

(***************************************************************************)
(* record_runtime_case keeps the invariant.                                *)
(***************************************************************************)
LEMMA RecordRuntimeCaseKeeps ==
  ASSUME EvidenceInv, NEW a \in Accumulators, NEW r \in issued, RecordRuntimeCase(a, r)
  PROVE  EvidenceInv'
<1>. DEFINE n == native[a]
            f == facade[a]
            p == [n EXCEPT !.observed = Observe(n, r)]
            m == IngestCase(p, RuntimeCase(r))
            g == [f EXCEPT !.first = IF @ = None THEN r ELSE @, !.last = r]
<1>1. n \in Reducers /\ f \in Facades /\ Sound(issued, n, f)
      /\ issued \subseteq RuntimeReceipts /\ Lives(issued, at)
  BY OfOne
<1>2. /\ Open(n) /\ HasRoom(n, 1) /\ Continuous(n, r) /\ r.action \in DOMAIN Manifests[n.manifest]
      /\ MatchesRuntime(Manifests[n.manifest][r.action], r) /\ ColdBefore(n, r)
  BY DEF RecordRuntimeCase
<1>3. at' = at /\ issued' = issued /\ native' = [native EXCEPT ![a] = m]
  BY OfOne DEF RecordRuntimeCase
<1>4. facade' = [facade EXCEPT ![a] = g]
  BY OfOne DEF RecordRuntimeCase
<1>. HIDE DEF n, f
<1>5. r \in RuntimeReceipts
  BY <1>1
<1>6. /\ g \in Facades /\ g.first = (IF f.first = None THEN r ELSE f.first) /\ g.last = r
      /\ g.summary = f.summary /\ g.final = f.final
  BY <1>1, <1>5 DEF Facades
<1>7. Observe(n, r) \in SUBSET ActionNames
  <2>1. n.observed \in SUBSET ActionNames /\ n.manifest \in Orchestrations
    BY <1>1 DEF Reducers
  <2>2. r.action \in ActionNames
    BY <1>2, <2>1 DEF ActionNames
  <2>. QED
    BY <2>1, <2>2 DEF Observe
<1>8. SameBooks(p, n) /\ p.observed = Observe(n, r)
  BY <1>1, <1>7 DEF SameBooks, Reducers
<1>9. p.bound = n.bound
  BY <1>1 DEF Reducers
<1>. HIDE DEF p, g
<1>10. m \in Reducers /\ Sound(issued, m, g)
  BY <1>1, <1>2, <1>6, <1>8, <1>9, SoundRuntime
<1>. HIDE DEF m
<1>. QED
  BY <1>3, <1>4, <1>6, <1>10, OneAccumulator

(***************************************************************************)
(* ingest_child keeps the invariant.                                       *)
(***************************************************************************)
LEMMA IngestChildKeeps ==
  ASSUME EvidenceInv, NEW a \in Accumulators, NEW receipt \in Receipts, IngestChild(a, receipt)
  PROVE  EvidenceInv'
<1>. DEFINE n == native[a]
            f == facade[a]
            m == IngestReceipt(n, receipt)
<1>1. n \in Reducers /\ f \in Facades /\ Sound(issued, n, f)
  BY OfOne
<1>2. PICK b \in Accumulators : receipt = facade[b].final /\ receipt # None
  BY DEF Receipts
<1>3. native[b] \in Reducers /\ facade[b] \in Facades /\ Sound(issued, native[b], facade[b])
  BY OfOne
<1>4. /\ receipt.bound /\ receipt.manifest = n.manifest /\ Open(n)
      /\ receipt.status = "complete_no_failures" /\ HasRoom(n, receipt.counts.total)
  BY DEF IngestChild
<1>5. at' = at /\ issued' = issued /\ native' = [native EXCEPT ![a] = m]
      /\ facade' = [facade EXCEPT ![a] = f]
  BY OfOne DEF IngestChild
<1>. HIDE DEF n, f
<1>6. /\ receipt \in Finals /\ Whole(receipt)
      /\ receipt.bound => ChildSourced(issued, CasesOf(receipt.chain), receipt.manifest)
  BY <1>2, <1>3, <1>4, FinalVouches
<1>7. ChildSourced(issued, CasesOf(receipt.chain), n.manifest)
  BY <1>4, <1>6
<1>8. m \in Reducers /\ Sound(issued, m, f)
  BY <1>1, <1>4, <1>6, <1>7, SoundChild
<1>. HIDE DEF m
<1>. QED
  BY <1>1, <1>5, <1>8, OneAccumulator

(***************************************************************************)
(* aggregate_summary keeps the invariant, also where it raises.            *)
(***************************************************************************)
LEMMA AggregateSummaryKeeps ==
  ASSUME EvidenceInv, NEW a \in Accumulators, AggregateSummary(a)
  PROVE  EvidenceInv'
<1>. DEFINE n == native[a]
            f == facade[a]
            m == [n EXCEPT !.summary = IF @ = None THEN Summary(n) ELSE @]
            g == [f EXCEPT !.summary = IF SummaryAdmitted(n, f) THEN m.summary ELSE @]
<1>1. n \in Reducers /\ f \in Facades /\ Sound(issued, n, f)
  BY OfOne
<1>2. f.summary = None /\ (n.summary = None => n.counts.total > 0 /\ Covered(n))
  BY DEF AggregateSummary
<1>3. at' = at /\ issued' = issued /\ native' = [native EXCEPT ![a] = m]
  BY OfOne DEF AggregateSummary
<1>4. native'[a] = m
  BY <1>3, OfOne
<1>5. facade' = [facade EXCEPT ![a] = g]
  <2>. DEFINE x == IF SummaryAdmitted(n, f) THEN m.summary ELSE f.summary
  <2>1. facade' = [facade EXCEPT ![a].summary = x]
    BY <1>4, ZenonT(40) DEF AggregateSummary
  <2>2. g = [f EXCEPT !.summary = x]
    OBVIOUS
  <2>. HIDE DEF x, g, m
  <2>. QED
    BY <2>1, <2>2
<1>6. Summarized(m, g, n, f)
  BY DEF Summarized
<1>. HIDE DEF n, f, m, g
<1>7. m \in Reducers /\ g \in Facades /\ Sound(issued, m, g)
  BY <1>1, <1>2, <1>6, SoundSummary
<1>. QED
  BY <1>3, <1>5, <1>7, OneAccumulator

(***************************************************************************)
(* finalize keeps the invariant.                                           *)
(***************************************************************************)
LEMMA FinalizeKeeps ==
  ASSUME EvidenceInv, NEW a \in Accumulators, NEW e \in Executions \cup {Foreign}, Finalize(a, e)
  PROVE  EvidenceInv'
<1>. DEFINE n == native[a]
            f == facade[a]
            m == [n EXCEPT !.final = IF @ = None THEN CompactReceipt(n, e) ELSE @]
            g == [f EXCEPT !.final = IF CompactAdmitted(m.final) THEN m.final ELSE @]
<1>1. n \in Reducers /\ f \in Facades /\ Sound(issued, n, f)
  BY OfOne
<1>2. f.summary # None /\ f.final = None
  BY DEF Finalize
<1>3. at' = at /\ issued' = issued /\ native' = [native EXCEPT ![a] = m]
  BY OfOne DEF Finalize
<1>4. native'[a] = m
  BY <1>3, OfOne
<1>5. facade' = [facade EXCEPT ![a] = g]
  <2>. DEFINE x == IF CompactAdmitted(m.final) THEN m.final ELSE f.final
  <2>1. facade' = [facade EXCEPT ![a].final = x]
    BY <1>4, ZenonT(40) DEF Finalize
  <2>2. g = [f EXCEPT !.final = x]
    OBVIOUS
  <2>. HIDE DEF x, g, m
  <2>. QED
    BY <2>1, <2>2
<1>6. Finalized(m, g, n, f, e)
  BY DEF Finalized
<1>7. e \in ExecutionReceipts \cup {Foreign}
  BY ExecutionsTyped DEF EvidenceInv
<1>. HIDE DEF n, f, m, g
<1>8. m \in Reducers /\ g \in Facades /\ Sound(issued, m, g)
  BY <1>1, <1>2, <1>6, <1>7, SoundFinal
<1>. QED
  BY <1>3, <1>5, <1>8, OneAccumulator

(***************************************************************************)
(* Every step keeps the invariant.                                         *)
(***************************************************************************)
LEMMA EvidenceKept == EvidenceInv /\ [NextEvidence]_evidenceVars => EvidenceInv'
<1>. SUFFICES ASSUME EvidenceInv, [NextEvidence]_evidenceVars PROVE EvidenceInv'
  OBVIOUS
<1>1. ASSUME NEW s \in Sessions, NEW c \in Commands, ExecuteRead(s, c) PROVE EvidenceInv'
  <2>1. PICK kind \in Reads : Issue(s, kind, c.action, c.key)
    BY <1>1 DEF ExecuteRead
  <2>. QED
    BY <2>1, IssueKeeps
<1>2. ASSUME NEW s \in Sessions, NEW c \in Commands, RecordRetry(s, c) PROVE EvidenceInv'
  <2>1. PICK kind \in Retries : Issue(s, kind, c.action, None)
    BY <1>2 DEF RecordRetry
  <2>. QED
    BY <2>1, IssueKeeps
<1>3. ASSUME NEW s \in Sessions, ApplyLease(s) PROVE EvidenceInv'
  BY <1>3, IssueKeeps DEF ApplyLease
<1>4. CASE UNCHANGED evidenceVars
  BY <1>4 DEF evidenceVars, EvidenceInv, EvidenceTypes
<1>. QED
  BY <1>1, <1>2, <1>3, <1>4, RecordCaseKeeps, RecordRuntimeCaseKeeps, IngestChildKeeps,
     AggregateSummaryKeeps, FinalizeKeeps DEF NextEvidence

(***************************************************************************)
(* Whatever hosts record, compose and seal, in any order and through       *)
(* refused calls: sessions issue linear lives, the books of every          *)
(* accumulator are those of the cases its chains commit to, what it claims *)
(* of its sources is so, and what is sealed is what is there.              *)
(***************************************************************************)
THEOREM EvidenceInvariant == SpecEvidence => []EvidenceInv
BY EvidenceInitially, EvidenceKept, PTL DEF SpecEvidence

(***************************************************************************)
(* Reducer and facade agree on an unbroken stretch of the life of one      *)
(* session, whatever was refused on either side; what was sealed stays,    *)
(* and no finalized receipt is refused by the facade.                      *)
(***************************************************************************)
THEOREM HistorySafety == SpecEvidence => []HistoryUnbroken
<1>1. EvidenceInv => HistoryUnbroken
  <2>. SUFFICES ASSUME EvidenceInv, NEW a \in Accumulators
                PROVE  LET n       == native[a]
                           sources == DirectSources(n.chain)
                           stretch == {r \in issued :
                                         /\ r.session = sources[1].session /\ r.prior # r.result
                                         /\ r.prior >= sources[1].prior
                                         /\ r.result <= sources[Len(sources)].result}
                       IN /\ sources = <<>> => n.boundary = None /\ facade[a].first = None
                          /\ sources # <<>> =>
                               /\ \A r \in stretch : \E i \in DOMAIN sources : sources[i] = r
                               /\ n.boundary = BoundaryOf(sources)
                               /\ facade[a].first = sources[1]
                               /\ facade[a].last = sources[Len(sources)]
                          /\ n.summary # None => n.summary = Summary(n)
                          /\ n.final = facade[a].final
                          /\ n.final # None => n.final.chain = n.summary.chain
    BY DEF HistoryUnbroken, BoundaryOf
  <2>. DEFINE n == native[a]
              f == facade[a]
              sources == DirectSources(n.chain)
  <2>1. n \in Reducers /\ Sound(issued, n, f)
    BY OfOne
  <2>2. Unbroken(issued, sources, n.boundary, f.first, f.last) /\ Sealed(n, f)
    BY <2>1 DEF Sound
  <2>3. DOMAIN sources = 1..Len(sources)
    BY <2>1, SourcesOfChain, LenProperties DEF Reducers
  <2>. HIDE DEF sources
  <2>4. sources = <<>> => n.boundary = None /\ f.first = None
    BY <2>2 DEF Unbroken
  <2>5. sources # <<>> =>
          /\ \A r \in Stretch(issued, sources) : \E i \in DOMAIN sources : sources[i] = r
          /\ n.boundary = BoundaryOf(sources)
          /\ f.first = sources[1] /\ f.last = sources[Len(sources)]
    BY <2>2, <2>3 DEF Unbroken
  <2>6. n.summary # None => n.summary = Summary(n)
    BY <2>2 DEF Sealed
  <2>7. n.final = f.final
    BY <2>2 DEF Sealed
  <2>8. n.final # None => n.final.chain = n.summary.chain
    BY <2>2 DEF Sealed, CompactReceipt, Summary
  <2>. QED
    BY <2>4, <2>5, <2>6, <2>7, <2>8 DEF sources, Stretch
<1>. QED
  BY <1>1, EvidenceInvariant, PTL

(***************************************************************************)
(* The summaries hosts hold are those of the reducers.                     *)
(***************************************************************************)
LEMMA SummaryOfReducer ==
  ASSUME EvidenceInv, NEW s \in Summaries
  PROVE  \E a \in Accumulators : /\ s = Summary(native[a]) /\ native[a].summary = s
                                 /\ Covered(native[a]) /\ native[a] \in Reducers
                                 /\ Sound(issued, native[a], facade[a])
<1>1. PICK a \in Accumulators : s = facade[a].summary /\ s # None
  BY DEF Summaries
<1>2. native[a] \in Reducers /\ Sound(issued, native[a], facade[a])
  BY OfOne
<1>3. native[a].summary = s /\ s = Summary(native[a]) /\ Covered(native[a])
  BY <1>1, <1>2 DEF Sound, Sealed
<1>. QED
  BY <1>2, <1>3

(***************************************************************************)
(* Evidence that claims live sources has, for every action its manifest    *)
(* authorizes, a cold execution of that action and key among sources that  *)
(* sessions really issued, also where the evidence came in through         *)
(* children; every hit in it follows one.                                  *)
(***************************************************************************)
THEOREM CoverageSafety == SpecEvidence => []CoverageReal
<1>1. EvidenceInv => CoverageReal
  <2>. SUFFICES ASSUME EvidenceInv, NEW s \in Summaries, s.bound
                PROVE  LET cases  == CasesOf(s.chain)
                           colds(a, k) == {i \in DOMAIN cases :
                                             /\ cases[i].source.kind = "cold"
                                             /\ cases[i].source.action = a /\ cases[i].source.key = k}
                       IN /\ \A a \in DOMAIN Manifests[s.manifest] :
                               colds(a, Manifests[s.manifest][a].key) # {}
                          /\ \A i \in DOMAIN cases : cases[i].source \in issued
                          /\ \A i \in DOMAIN cases : cases[i].source.kind = "hit" =>
                               \E j \in colds(cases[i].source.action, cases[i].source.key) : j < i
    BY DEF CoverageReal
  <2>. DEFINE cases == CasesOf(s.chain)
  <2>1. PICK b \in Accumulators : /\ s = Summary(native[b]) /\ Covered(native[b])
                                  /\ native[b] \in Reducers
                                  /\ Sound(issued, native[b], facade[b])
    BY SummaryOfReducer
  <2>2. s.chain = native[b].chain /\ s.manifest = native[b].manifest /\ native[b].bound
    BY <2>1 DEF Summary
  <2>3. DOMAIN cases = 1..Len(cases)
    BY <2>1, <2>2, CasesOfChain, LenProperties DEF Reducers
  <2>4. Sourced(issued, cases, native[b])
    BY <2>1, <2>2 DEF Sound
  <2>5. native[b].observed = DOMAIN Manifests[s.manifest]
    BY <2>1, <2>2 DEF Covered
  <2>. HIDE DEF cases
  <2>6. /\ \A i \in 1..Len(cases) : cases[i].source \in issued
        /\ HitsFollow(cases) /\ Observed(cases, native[b])
    BY <2>2, <2>4 DEF Sourced
  <2>7. \A a \in DOMAIN Manifests[s.manifest] : Colds(cases, a, Manifests[s.manifest][a].key) # {}
    BY <2>2, <2>5, <2>6 DEF Observed
  <2>8. \A i \in 1..Len(cases) : cases[i].source.kind = "hit" =>
          \E j \in Colds(cases, cases[i].source.action, cases[i].source.key) : j < i
    BY <2>6 DEF HitsFollow
  <2>. QED
    BY <2>3, <2>6, <2>7, <2>8 DEF Colds, cases
<1>. QED
  BY <1>1, EvidenceInvariant, PTL

-----------------------------------------------------------------------------
(* Pages of details *)

(***************************************************************************)
(* A page of one detail holds the first one at or after the start index.   *)
(***************************************************************************)
LEMMA FirstPage ==
  ASSUME NEW a \in Accumulators, NEW details \in Seq(Details), details = native[a].details,
         NEW start \in Nat
  PROVE  \/ /\ Expand(a, start, 1) = <<>>
            /\ \A k \in 1..Len(details) : details[k].index < start
         \/ \E k \in 1..Len(details) :
              /\ Expand(a, start, 1) = <<details[k]>> /\ details[k].index >= start
              /\ \A l \in 1..Len(details) : l < k => details[l].index < start
<1>1. Len(details) \in Nat
  BY LenProperties
<1>2. PICK g : Pages(g, details, start, 1, Len(details)) /\ Expand(a, start, 1) = g[Len(details)]
  BY <1>1, PageTurns
<1>. DEFINE N == Len(details)
            Empty(i) == g[i] = <<>> /\ \A k \in 1..i : details[k].index < start
            Found(i) == \E k \in 1..i : /\ g[i] = <<details[k]>> /\ details[k].index >= start
                                        /\ \A l \in 1..i : l < k => details[l].index < start
            good == {i \in 0..N : Empty(i) \/ Found(i)}
<1>3. g[0] = <<>>
  BY <1>1, <1>2 DEF Pages
<1>4. \A i \in 0..(N - 1) : i + 1 \in 0..N /\ i + 1 # 0 /\ (i + 1) - 1 = i
  BY <1>1
<1>5. \A i \in 0..(N - 1) : g[i + 1] = Turn(g[i], details, start, 1, i + 1)
  BY <1>2, <1>4 DEF Pages
<1>6. 0 \in good
  BY <1>1, <1>3
<1>7. ASSUME NEW i \in 0..(N - 1), i \in good PROVE i + 1 \in good
  <2>1. i \in Nat /\ i + 1 \in 1..N /\ i + 1 \in 0..N
    BY <1>1
  <2>2. \A k : k \in 1..(i + 1) <=> k \in 1..i \/ k = i + 1
    BY <2>1
  <2>3. details[i + 1].index \in Nat
    <3>1. details[i + 1] \in Details
      BY <2>1, ElementOfSeq
    <3>. QED
      BY <3>1 DEF Details
  <2>4. CASE Empty(i)
    <3>1. Len(g[i]) < 1
      BY <2>4
    <3>2. CASE details[i + 1].index >= start
      <4>1. g[i + 1] = Append(<<>>, details[i + 1])
        BY <1>5, <2>4, <3>1, <3>2 DEF Turn
      <4>2. g[i + 1] = <<details[i + 1]>>
        BY <4>1
      <4>3. \A l \in 1..(i + 1) : l < i + 1 => details[l].index < start
        BY <2>1, <2>2, <2>4
      <4>4. i + 1 \in 1..(i + 1)
        BY <2>1
      <4>5. Found(i + 1)
        BY <3>2, <4>2, <4>3, <4>4
      <4>. QED
        BY <2>1, <4>5
    <3>3. CASE ~(details[i + 1].index >= start)
      <4>1. g[i + 1] = <<>>
        BY <1>5, <2>4, <3>3 DEF Turn
      <4>2. details[i + 1].index < start
        BY <2>3, <3>3
      <4>3. Empty(i + 1)
        BY <2>2, <2>4, <4>1, <4>2
      <4>. QED
        BY <2>1, <4>3
    <3>. QED
      BY <3>2, <3>3
  <2>5. CASE Found(i)
    <3>1. PICK k \in 1..i : /\ g[i] = <<details[k]>> /\ details[k].index >= start
                            /\ \A l \in 1..i : l < k => details[l].index < start
      BY <2>5
    <3>2. ~(Len(g[i]) < 1)
      BY <3>1
    <3>3. g[i + 1] = <<details[k]>>
      BY <1>5, <3>1, <3>2 DEF Turn
    <3>4. k \in 1..(i + 1) /\ \A l \in 1..(i + 1) : l < k => details[l].index < start
      BY <2>1, <2>2, <3>1
    <3>5. Found(i + 1)
      BY <3>1, <3>3, <3>4
    <3>. QED
      BY <2>1, <3>5
  <2>. QED
    BY <1>7, <2>4, <2>5
<1>. HIDE DEF Empty, Found
<1>8. \A i \in 0..N : i \in good
  <2>. HIDE DEF good
  <2>. QED
    BY <1>1, <1>6, <1>7, UpTo
<1>9. N \in 0..N
  BY <1>1
<1>10. Empty(N) \/ Found(N)
  BY <1>8, <1>9
<1>. QED
  BY <1>2, <1>10 DEF Empty, Found, N

(***************************************************************************)
(* The least element of a set of numbers, as CHOOSE names it.              *)
(***************************************************************************)
LEMMA LeastChosen ==
  ASSUME NEW S \in SUBSET Nat, NEW x \in S, \A y \in S : x <= y
  PROVE  (CHOOSE z \in S : \A y \in S : z <= y) = x
<1>. DEFINE c == CHOOSE z \in S : \A y \in S : z <= y
<1>1. c \in S /\ \A y \in S : c <= y
  OBVIOUS
<1>. HIDE DEF c
<1>2. c <= x /\ x <= c /\ c \in Nat /\ x \in Nat
  BY <1>1
<1>. QED
  BY <1>2 DEF c

FirstDetail(q, i) ==
  LET later == {j \in Kept(q) : j >= i} IN
  IF later = {} THEN <<>>
  ELSE LET j == CHOOSE j \in later : \A k \in later : j <= k
       IN <<[index |-> j - 1, item |-> q[j]]>>

(***************************************************************************)
(* What expand returns from an index on, told from the cases.              *)
(***************************************************************************)
LEMMA ExpandFinds ==
  ASSUME NEW a \in Accumulators, NEW q \in Seq(Cases), NEW details \in Seq(Details),
         details = native[a].details, Detailed(q, details), NEW i \in 1..Len(q)
  PROVE  Expand(a, i - 1, 1) = FirstDetail(q, i)
<1>. DEFINE start == i - 1
            page == Expand(a, start, 1)
            later == {j \in Kept(q) : j >= i}
<1>1. i \in Nat /\ start \in Nat /\ \A x \in Nat : (x < start <=> x + 1 < i) /\ (x >= start <=> x + 1 >= i)
  BY LenProperties
<1>2. /\ \A k \in 1..Len(details) : /\ details[k].index + 1 \in Kept(q)
                                    /\ details[k].item = q[details[k].index + 1]
      /\ \A k, l \in 1..Len(details) : k < l => details[k].index < details[l].index
      /\ \A j \in Kept(q) : \E k \in 1..Len(details) : details[k].index + 1 = j
  BY DEF Detailed
<1>3. \A k \in 1..Len(details) : details[k] \in Details
  BY ElementOfSeq
<1>4. \A k \in 1..Len(details) : details[k].index \in Nat
  BY <1>3 DEF Details
<1>5. Kept(q) \subseteq Nat
  BY PositionsFinite DEF Kept
<1>6. \A j : j \in later <=> j \in Kept(q) /\ j >= i
  OBVIOUS
<1>. HIDE DEF later
<1>7. later \in SUBSET Nat
  BY <1>5, <1>6
<1>8. \/ /\ page = <<>>
         /\ \A k \in 1..Len(details) : details[k].index < start
      \/ \E k \in 1..Len(details) :
           /\ page = <<details[k]>> /\ details[k].index >= start
           /\ \A l \in 1..Len(details) : l < k => details[l].index < start
  BY <1>1, FirstPage
<1>. HIDE DEF start, page
<1>9. CASE page = <<>> /\ \A k \in 1..Len(details) : details[k].index < start
  <2>1. \A k \in 1..Len(details) : details[k].index + 1 < i
    BY <1>1, <1>4, <1>9
  <2>2. \A j \in Kept(q) : j < i
    BY <1>2, <2>1
  <2>3. \A j : j \notin later
    BY <1>1, <1>5, <1>6, <2>2
  <2>4. later = {}
    BY <2>3
  <2>. QED
    BY <1>9, <2>4 DEF FirstDetail, page, start, later
<1>10. ASSUME NEW k \in 1..Len(details), page = <<details[k]>>, details[k].index >= start,
              \A l \in 1..Len(details) : l < k => details[l].index < start
       PROVE  page = FirstDetail(q, i)
  <2>. DEFINE x == details[k].index + 1
  <2>1. x \in later
    BY <1>1, <1>2, <1>4, <1>6, <1>10
  <2>2. ASSUME NEW y \in later PROVE x <= y
    <3>1. PICK l \in 1..Len(details) : details[l].index + 1 = y
      BY <1>2, <1>6
    <3>2. y >= i /\ y \in Nat
      BY <1>6, <1>7
    <3>3. details[l].index \in Nat /\ details[k].index \in Nat
      BY <1>4
    <3>4. details[l].index >= start
      BY <1>1, <3>1, <3>2, <3>3
    <3>5. ~(details[l].index < start)
      BY <1>1, <3>3, <3>4
    <3>6. ~(l < k)
      BY <1>10, <3>5
    <3>7. Len(details) \in Nat
      BY LenProperties
    <3>8. l = k \/ k < l
      BY <3>6, <3>7
    <3>9. k < l => details[k].index < details[l].index
      BY <1>2
    <3>10. details[k].index <= details[l].index
      BY <3>3, <3>8, <3>9
    <3>. QED
      BY <3>1, <3>3, <3>10, SMTT(30)
  <2>3. x - 1 = details[k].index /\ q[x] = details[k].item
    BY <1>2, <1>4
  <2>4. details[k] = [index |-> details[k].index, item |-> details[k].item]
    BY <1>3 DEF Details
  <2>5. details[k] = [index |-> x - 1, item |-> q[x]]
    BY <2>3, <2>4
  <2>. HIDE DEF x
  <2>6. (CHOOSE j \in later : \A l \in later : j <= l) = x
    BY <1>7, <2>1, <2>2, LeastChosen
  <2>7. FirstDetail(q, i) = <<[index |-> x - 1, item |-> q[x]]>>
    BY <2>1, <2>6 DEF FirstDetail, later
  <2>. QED
    BY <1>10, <2>5, <2>7
<1>. QED
  BY <1>8, <1>9, <1>10 DEF page, start

(***************************************************************************)
(* The first failure is the least one.                                     *)
(***************************************************************************)
LEMMA FirstIsLeast ==
  ASSUME NEW q \in Seq(Cases), NEW first, FirstFailed(q, first)
  PROVE  first = IF Failures(q) = {} THEN None
                 ELSE (CHOOSE i \in Failures(q) : \A j \in Failures(q) : i <= j) - 1
<1>. DEFINE S == Failures(q)
<1>1. S \in SUBSET Nat
  BY PositionsFinite
<1>2. CASE first = None /\ S = {}
  BY <1>2
<1>3. CASE first \in Nat /\ first + 1 \in S /\ \A j \in S : first + 1 <= j
  <2>. HIDE DEF S
  <2>1. (CHOOSE i \in S : \A j \in S : i <= j) = first + 1
    BY <1>1, <1>3, LeastChosen
  <2>2. (first + 1) - 1 = first
    BY <1>3
  <2>. QED
    BY <1>3, <2>1, <2>2 DEF S
<1>. QED
  BY <1>2, <1>3 DEF FirstFailed

\* AccountingExact, of one accumulator.
BooksExact(a, n, q) ==
  /\ n.counts.total = Len(q) /\ n.counts.total <= MaxCases
  /\ \A s \in Statuses : n.counts[s] = Cardinality(Having(q, s))
  /\ \A f \in DOMAIN n.counters : n.counters[f] = Sum(q, f)
  /\ n.firstFailure = IF Failures(q) = {} THEN None
                      ELSE (CHOOSE i \in Failures(q) : \A j \in Failures(q) : i <= j) - 1
  /\ \A i \in DOMAIN q : Expand(a, i - 1, 1) = FirstDetail(q, i)

(***************************************************************************)
(* The books of one accumulator.                                           *)
(***************************************************************************)
LEMMA BooksOfOne ==
  ASSUME EvidenceInv, NEW a \in Accumulators
  PROVE  BooksExact(a, native[a], CasesOf(native[a].chain))
<1>. DEFINE n == native[a]
            q == CasesOf(n.chain)
<1>1. n \in Reducers /\ Sound(issued, n, facade[a])
  BY OfOne
<1>2. q \in Seq(Cases) /\ n.details \in Seq(Details) /\ n.counters \in EvidenceCounters
  BY <1>1, CasesOfChain DEF Reducers
<1>3. /\ Counted(q, n.counts) /\ Summed(q, n.counters)
      /\ FirstFailed(q, n.firstFailure) /\ Detailed(q, n.details)
  BY <1>1 DEF Sound, Accounted
<1>4. n.details = native[a].details
  OBVIOUS
<1>. HIDE DEF n, q
<1>5. n.counts.total = Len(q) /\ n.counts.total <= MaxCases
  BY <1>3 DEF Counted
<1>6. \A s \in Statuses : n.counts[s] = Cardinality(Having(q, s))
  BY <1>3 DEF Counted, Statuses
<1>7. \A f \in DOMAIN n.counters : n.counters[f] = Sum(q, f)
  BY <1>2, <1>3, CounterTyped DEF Summed
<1>8. DOMAIN q = 1..Len(q)
  BY <1>2, LenProperties
<1>9. \A i \in DOMAIN q : Expand(a, i - 1, 1) = FirstDetail(q, i)
  BY <1>2, <1>3, <1>4, <1>8, ExpandFinds
<1>10. n.firstFailure = IF Failures(q) = {} THEN None
                       ELSE (CHOOSE i \in Failures(q) : \A j \in Failures(q) : i <= j) - 1
  BY <1>2, <1>3, FirstIsLeast
<1>11. BooksExact(a, n, q)
  BY <1>5, <1>6, <1>7, <1>9, <1>10 DEF BooksExact
<1>. QED
  BY <1>11 DEF n, q


(***************************************************************************)
(* The books of every accumulator are exact: the totals are those of the   *)
(* cases its chains commit to, through any nesting of children; the first  *)
(* failure and the retained details are the earliest ones, and expand      *)
(* finds each of them at its own index.                                    *)
(***************************************************************************)
THEOREM AccountingSafety == SpecEvidence => []AccountingExact
<1>1. EvidenceInv => AccountingExact
  BY BooksOfOne, Zenon DEF BooksExact, FirstDetail, Kept, AccountingExact
<1>. QED
  BY <1>1, EvidenceInvariant, PTL

-----------------------------------------------------------------------------
(* Acceptance *)

(***************************************************************************)
(* The compact receipts hosts hold are those of the reducers.              *)
(***************************************************************************)
LEMMA ReceiptOfReducer ==
  ASSUME EvidenceInv, NEW a \in Accumulators, NEW c, c = facade[a].final, c # None
  PROVE  /\ native[a] \in Reducers /\ c \in Finals
         /\ c = CompactReceipt(native[a], c.execution)
         /\ Covered(native[a]) /\ native[a].counts.total > 0
         /\ Sound(issued, native[a], facade[a])
<1>1. native[a] \in Reducers /\ facade[a] \in Facades /\ Sound(issued, native[a], facade[a])
  BY OfOne
<1>2. Sealed(native[a], facade[a])
  BY <1>1 DEF Sound
<1>3. c \in Finals
  BY <1>1 DEF Facades
<1>4. native[a].final = c
  BY <1>2 DEF Sealed
<1>5. facade[a].summary # None /\ c = CompactReceipt(native[a], c.execution)
  BY <1>2, <1>4 DEF Sealed
<1>6. native[a].summary # None
  BY <1>2, <1>5 DEF Sealed
<1>7. Covered(native[a]) /\ native[a].counts.total > 0
  BY <1>2, <1>6 DEF Sealed
<1>. QED
  BY <1>1, <1>3, <1>5, <1>7

(***************************************************************************)
(* What can be presented is a compact receipt, and only a live one is      *)
(* bound.                                                                  *)
(***************************************************************************)
LEMMA PresentableTyped ==
  ASSUME EvidenceInv, NEW c \in Presentable
  PROVE  c \in Finals /\ c # None /\ (c.bound => c \in Receipts)
<1>1. Receipts \subseteq Finals
  BY OfOne DEF Receipts, Facades
<1>2. CASE c \in Receipts
  BY <1>1, <1>2, AcceptanceNoneAssumption DEF Finals
<1>3. ASSUME NEW d \in Receipts, c = [d EXCEPT !.bound = FALSE]
      PROVE  c \in Finals /\ c # None /\ ~ c.bound
  <2>1. d \in Finals
    BY <1>1
  <2>2. c \in Finals /\ c.bound = FALSE
    BY <1>3, <2>1 DEF Finals, CompactReceipts
  <2>. QED
    BY <2>2, AcceptanceNoneAssumption DEF Finals
<1>. QED
  BY <1>2, <1>3 DEF Presentable

(***************************************************************************)
(* An execution receipt tells the length and the ends of its own stream.   *)
(***************************************************************************)
LEMMA ExecutionTells ==
  ASSUME EvidenceInv, NEW x \in Executions
  PROVE  /\ x.manifest = x.orch
         /\ x.transitions = Len(CasesOf(x.chain))
         /\ DirectSources(x.chain) # <<>> /\ x.boundary = BoundaryOf(DirectSources(x.chain))
         /\ ValidEndpoints(x.boundary.first, x.boundary.last, x.transitions)
         /\ x = ExecutionReceipt(x.orch, x.chain, x.transitions, x.boundary)
<1>1. PICK s \in Summaries : /\ ExecutionBinds(s.orch, s)
                             /\ x = ExecutionReceipt(s.orch, s.chain, s.counts.total, s.boundary)
  BY DEF Executions
<1>2. PICK b \in Accumulators : /\ s = Summary(native[b]) /\ native[b] \in Reducers
                                /\ Sound(issued, native[b], facade[b])
  BY SummaryOfReducer
<1>. DEFINE n == native[b]
            src == DirectSources(n.chain)
<1>3. s.chain = n.chain /\ s.counts = n.counts /\ s.boundary = BoundaryShown(n)
  BY <1>2 DEF Summary
<1>4. s.boundary # None /\ ValidEndpoints(s.boundary.first, s.boundary.last, s.counts.total)
  BY <1>1 DEF ExecutionBinds
<1>5. n.boundary # None /\ s.boundary = n.boundary
  BY <1>3, <1>4 DEF BoundaryShown
<1>6. x.orch = s.orch /\ x.manifest = s.orch /\ x.chain = s.chain
      /\ x.transitions = s.counts.total /\ x.boundary = s.boundary
  BY <1>1 DEF ExecutionReceipt
<1>7. /\ Unbroken(issued, src, n.boundary, facade[b].first, facade[b].last)
      /\ Counted(CasesOf(n.chain), n.counts)
  BY <1>2 DEF Sound, Accounted
<1>8. n.counts.total = Len(CasesOf(n.chain))
  BY <1>7 DEF Counted
<1>9. src # <<>> /\ n.boundary = BoundaryOf(src)
  <2>. HIDE DEF src
  <2>. QED
    BY <1>5, <1>7 DEF Unbroken
<1>10. x = ExecutionReceipt(x.orch, x.chain, x.transitions, x.boundary)
  BY <1>1, <1>6
<1>. QED
  BY <1>3, <1>4, <1>5, <1>6, <1>8, <1>9, <1>10

(***************************************************************************)
(* A receipt without failures and without children.                        *)
(***************************************************************************)
LEMMA DirectAndClean ==
  ASSUME NEW I, I \subseteq RuntimeReceipts, NEW n \in Reducers, NEW f, Sound(I, n, f),
         n.children = 0, n.bound
  PROVE  /\ CasesOf(n.chain) = n.chain /\ n.cases = n.counts.total
         /\ DOMAIN n.chain = 1..Len(n.chain)
         /\ \A i \in DOMAIN n.chain : n.chain[i].type = "case" /\ n.chain[i].source \in I
         /\ Status(n.counts) = "complete_no_failures"
              <=> \A i \in DOMAIN n.chain : Accepted(n.chain[i].source)
<1>. DEFINE q == CasesOf(n.chain)
<1>1. q \in Seq(Cases) /\ n.counts \in CaseCounts /\ n.chain \in Seq(Items)
  BY CasesOfChain DEF Reducers
<1>2. Itemized(q, n) /\ Counted(q, n.counts) /\ Sourced(I, q, n)
  BY DEF Sound, Accounted
<1>. HIDE DEF q
<1>3. q = n.chain /\ n.cases = n.counts.total /\ \A i \in 1..Len(n.chain) : n.chain[i].type = "case"
  BY <1>2 DEF Itemized
<1>4. DOMAIN n.chain = 1..Len(n.chain)
  BY <1>1, LenProperties
<1>5. /\ \A i \in 1..Len(q) : q[i].source \in I
      /\ \A i \in 1..Len(q) : q[i].source # None => (q[i].status = "passed" <=> Accepted(q[i].source))
  BY <1>2 DEF Sourced
<1>6. \A i \in 1..Len(q) : q[i].status = "passed" <=> Accepted(q[i].source)
  BY <1>5, EvidenceNoneAssumption
<1>7. Failures(q) = {} <=> \A i \in 1..Len(q) : Accepted(q[i].source)
  BY <1>3, <1>4, <1>6 DEF Failures
<1>8. n.counts.failed + n.counts.rejected = Cardinality(Failures(q))
  BY <1>2 DEF Counted
<1>9. FailureCount(n.counts) = 0 <=> Failures(q) = {}
  BY <1>1, <1>8, PositionsFinite, FS_EmptySet DEF FailureCount
<1>10. Status(n.counts) = "complete_no_failures" <=> FailureCount(n.counts) = 0
  BY DEF Status
<1>11. Status(n.counts) = "complete_no_failures" <=> \A i \in DOMAIN n.chain : Accepted(n.chain[i].source)
  BY <1>3, <1>4, <1>7, <1>9, <1>10
<1>. QED
  BY <1>3, <1>4, <1>5, <1>11 DEF q

(***************************************************************************)
(* The compact receipt that binds an execution is one that was earned.     *)
(***************************************************************************)
LEMMA BindingIsEarned ==
  ASSUME EvidenceInv, NEW o \in Orchestrations, NEW c \in Presentable, NEW x \in Executions,
         x.orch = o, CompactBinds(o, x, c)
  PROVE  Earned(o, x, c)
<1>1. /\ c.status = "complete_no_failures" /\ c.bound /\ c.children = 0 /\ c.orch = o
      /\ c.execution = x /\ c.manifest = x.manifest /\ c.chain = x.chain
  BY DEF CompactBinds
<1>2. c \in Receipts
  BY <1>1, PresentableTyped
<1>3. PICK a \in Accumulators : c = facade[a].final /\ c # None
  BY <1>2 DEF Receipts
<1>. DEFINE n == native[a]
<1>4. /\ n \in Reducers /\ c = CompactReceipt(n, c.execution) /\ Covered(n)
      /\ Sound(issued, n, facade[a]) /\ issued \subseteq RuntimeReceipts
  BY <1>3, ReceiptOfReducer, OfOne
<1>. HIDE DEF n
<1>5. /\ c.orch = n.orch /\ c.manifest = n.manifest /\ c.children = n.children
      /\ c.chain = n.chain /\ c.status = Status(n.counts) /\ (c.bound <=> n.bound)
  BY <1>4 DEF CompactReceipt
<1>6. n.bound /\ n.children = 0
  BY <1>1, <1>5
<1>7. n.orch = o /\ n.manifest = o
  BY <1>1, <1>5, ExecutionTells
<1>8. /\ CasesOf(n.chain) = n.chain /\ DOMAIN n.chain = 1..Len(n.chain)
      /\ \A i \in DOMAIN n.chain : n.chain[i].type = "case" /\ n.chain[i].source \in issued
      /\ \A i \in DOMAIN n.chain : Accepted(n.chain[i].source)
  BY <1>1, <1>4, <1>5, <1>6, DirectAndClean, ZenonT(40)
<1>9. Observed(n.chain, n) /\ n.observed = DOMAIN Manifests[o]
  BY <1>4, <1>6, <1>7, <1>8 DEF Sound, Sourced, Covered
<1>10. \A action \in DOMAIN Manifests[o] :
         \E i \in DOMAIN n.chain : n.chain[i].source.kind = "cold" /\ n.chain[i].source.action = action
  BY <1>8, <1>9 DEF Observed, Colds
<1>. QED
  BY <1>1, <1>3, <1>5, <1>7, <1>8, <1>10 DEF Earned, n

(***************************************************************************)
(* What was earned binds the execution it was earned for.                  *)
(***************************************************************************)
LEMMA EarnedBinds ==
  ASSUME EvidenceInv, NEW o \in Orchestrations, NEW c \in Presentable, NEW x \in Executions,
         Earned(o, x, c)
  PROVE  x.orch = o /\ CompactBinds(o, x, c)
<1>1. PICK a \in Accumulators :
        /\ c = facade[a].final /\ native[a].orch = o /\ native[a].manifest = o
        /\ \A i \in DOMAIN native[a].chain : /\ native[a].chain[i].type = "case"
                                             /\ native[a].chain[i].source \in issued
                                             /\ Accepted(native[a].chain[i].source)
        /\ c.execution = x /\ x.orch = o /\ x.chain = native[a].chain
  BY DEF Earned
<1>2. c # None
  BY PresentableTyped
<1>. DEFINE n == native[a]
<1>3. /\ n \in Reducers /\ c = CompactReceipt(n, c.execution)
      /\ Sound(issued, n, facade[a]) /\ issued \subseteq RuntimeReceipts
  BY <1>1, <1>2, ReceiptOfReducer, OfOne
<1>4. /\ n.orch = o /\ n.manifest = o /\ x.chain = n.chain
      /\ \A i \in DOMAIN n.chain : /\ n.chain[i].type = "case" /\ n.chain[i].source \in issued
                                   /\ Accepted(n.chain[i].source)
  BY <1>1
<1>. DEFINE q == CasesOf(n.chain)
            src == DirectSources(n.chain)
<1>5. /\ Itemized(q, n) /\ Counted(q, n.counts) /\ Sourced(issued, q, n)
      /\ Unbroken(issued, src, n.boundary, facade[a].first, facade[a].last)
  BY <1>3 DEF Sound, Accounted
<1>6. /\ x.transitions = Len(q) /\ src # <<>> /\ x.boundary = BoundaryOf(src) /\ x.manifest = x.orch
  BY <1>4, ExecutionTells
<1>. HIDE DEF n, q, src
<1>7. DOMAIN n.chain = 1..Len(n.chain)
  BY <1>3, LenProperties DEF Reducers
<1>8. n.children = 0
  BY <1>4, <1>5, <1>7 DEF Itemized
<1>9. n.bound
  BY <1>3, <1>4, <1>5, <1>7, EvidenceNoneAssumption DEF Sourced
<1>10. n.cases = n.counts.total /\ Status(n.counts) = "complete_no_failures"
  BY <1>3, <1>4, <1>8, <1>9, DirectAndClean
<1>11. n.counts.total = x.transitions
  BY <1>5, <1>6 DEF Counted
<1>12. BoundaryShown(n) = x.boundary
  BY <1>5, <1>6, <1>8, <1>9 DEF BoundaryShown, Unbroken
<1>13. /\ c.orch = n.orch /\ c.manifest = n.manifest /\ c.children = n.children
       /\ c.chain = n.chain /\ c.status = Status(n.counts) /\ (c.bound <=> n.bound)
       /\ c.cases = n.cases /\ c.counts = n.counts /\ c.boundary = BoundaryShown(n)
  BY <1>3 DEF CompactReceipt
<1>14. c.execution = x /\ x.orch = o
  BY <1>1
<1>. QED
  BY <1>4, <1>6, <1>8, <1>9, <1>10, <1>11, <1>12, <1>13, <1>14 DEF CompactBinds

(***************************************************************************)
(* The wrapper accepts what a final acceptance receipt can be made of, and *)
(* gives a partial answer only without compact evidence.                   *)
(***************************************************************************)
LEMMA WrapperAnswers ==
  ASSUME NEW o, o # None, NEW e, NEW c, NEW gates,
         NEW outcome, outcome = FinalizeTask(o, e, c, gates, "openai_supervisor")
  PROVE  /\ outcome.status \in {"accepted", "partial", "rejected"}
         /\ outcome.status = "accepted" <=> e # None /\ c # None /\ ValidFinal(o, e, c, gates)
         /\ outcome.status = "partial" => c = None
<1>1. \A reason : /\ Reject(reason).status = "rejected"
                  /\ Partial(reason, o, e, c, gates).status \in {"partial", "rejected"}
                  /\ Partial(reason, o, e, c, gates).status = "partial" => c = None
  BY DEF Reject, Partial, Outcome
<1>2. Outcome("accepted", None).status = "accepted"
  BY DEF Outcome
<1>3. ValidFinal(o, e, c, gates) => DOMAIN gates \ GateKeys = {} /\ e.receipt.orch = o /\ Missing(gates) = {}
  BY DEF ValidFinal
<1>. QED
  BY <1>1, <1>2, <1>3 DEF FinalizeTask

(***************************************************************************)
(* The independent validator rebuilds exactly the wrapper's decisions.     *)
(***************************************************************************)
LEMMA WrapperValidates ==
  ASSUME NEW o, o # None, NEW e, NEW c, NEW gates,
         NEW outcome, outcome = FinalizeTask(o, e, c, gates, "openai_supervisor")
  PROVE  ValidatorAgrees(o, e, c, gates, outcome)
<1>1. c # None => (ValidatesFinal(o, e, c, gates) <=> outcome.status = "accepted")
  BY WrapperAnswers DEF ValidatesFinal
<1>2. ASSUME c = None, NEW reason \in PartialReasons
      PROVE  ValidPartial(reason, o, e, gates) <=> outcome = Outcome("partial", reason)
  <2>1. \A r : Outcome("partial", r) = Outcome("partial", reason) <=> r = reason
    BY DEF Outcome
  <2>2. \A r : Reject(r) # Outcome("partial", reason)
    <3>1. \A r : Reject(r).status = "rejected" /\ Outcome("partial", reason).status = "partial"
      BY DEF Reject, Outcome
    <3>. QED
      BY <3>1
  <2>3. \A r : Partial(r, o, e, c, gates) = IF ValidPartial(r, o, e, gates) THEN Outcome("partial", r)
                                            ELSE Reject("INVALID_BOUND_RECEIPT")
    BY <1>2 DEF Partial
  <2>4. ValidPartial(reason, o, e, gates) =>
          /\ DOMAIN gates \ GateKeys = {} /\ (e # None => e.receipt.orch = o)
          /\ \/ reason = "MISSING_EXECUTION_RECEIPT" /\ e = None
             \/ reason = "UNSATISFIED_ACCEPTANCE_GATES" /\ e # None /\ Missing(gates) # {}
    BY DEF ValidPartial
  <2>5. CASE DOMAIN gates \ GateKeys # {}
    BY <2>2, <2>4, <2>5 DEF FinalizeTask
  <2>6. CASE DOMAIN gates \ GateKeys = {} /\ e = None
    <3>1. outcome = Partial("MISSING_EXECUTION_RECEIPT", o, e, c, gates)
      BY <2>6 DEF FinalizeTask
    <3>2. outcome = Outcome("partial", reason)
            <=> ValidPartial("MISSING_EXECUTION_RECEIPT", o, e, gates) /\ reason = "MISSING_EXECUTION_RECEIPT"
      BY <2>1, <2>2, <2>3, <3>1
    <3>. QED
      BY <2>4, <2>6, <3>2
  <2>7. CASE DOMAIN gates \ GateKeys = {} /\ e # None /\ e.receipt.orch # o
    BY <2>2, <2>4, <2>7 DEF FinalizeTask
  <2>8. CASE DOMAIN gates \ GateKeys = {} /\ e # None /\ e.receipt.orch = o /\ Missing(gates) # {}
    <3>1. outcome = Partial("UNSATISFIED_ACCEPTANCE_GATES", o, e, c, gates)
      BY <2>8 DEF FinalizeTask
    <3>2. outcome = Outcome("partial", reason)
            <=> ValidPartial("UNSATISFIED_ACCEPTANCE_GATES", o, e, gates) /\ reason = "UNSATISFIED_ACCEPTANCE_GATES"
      BY <2>1, <2>2, <2>3, <3>1
    <3>. QED
      BY <2>4, <2>8, <3>2
  <2>9. CASE DOMAIN gates \ GateKeys = {} /\ e # None /\ e.receipt.orch = o /\ Missing(gates) = {}
    <3>1. outcome = Reject("INVALID_BOUND_RECEIPT")
      BY <1>2, <2>9 DEF FinalizeTask
    <3>. QED
      BY <2>2, <2>4, <2>9, <3>1
  <2>. QED
    BY <2>5, <2>6, <2>7, <2>8, <2>9
<1>. QED
  BY <1>1, <1>2 DEF ValidatorAgrees, ValidatesPartial

\* Gates that are all satisfied, by these receipts.
AllRight(gates, o, e, c) ==
  /\ DOMAIN gates = GateKeys
  /\ \A k \in GateKeys : gates[k].satisfied
  /\ gates["compact_evidence_valid"].evidence = (IF c = None THEN ForeignId ELSE CompactId(c))
  /\ gates["orchestration_receipt_valid"].evidence = OrchestrationId(o)
  /\ gates["execution_receipt_valid"].evidence = (IF e = None THEN ForeignId ELSE ExecutionId(e))

(***************************************************************************)
(* The right gates are.                                                    *)
(***************************************************************************)
LEMMA RightAreRight ==
  ASSUME NEW o, NEW e, NEW c
  PROVE  AllRight(RightGates(o, e, c), o, e, c)
<1>. DEFINE right == RightGates(o, e, c)
<1>1. DOMAIN right = GateKeys /\ \A k \in GateKeys : right[k].satisfied = TRUE
  BY DEF RightGates, Gate
<1>2. right["compact_evidence_valid"].evidence = IF c = None THEN ForeignId ELSE CompactId(c)
  BY DEF RightGates, Gate, GateKeys
<1>3. right["orchestration_receipt_valid"].evidence = OrchestrationId(o)
  BY DEF RightGates, Gate, GateKeys
<1>4. right["execution_receipt_valid"].evidence = IF e = None THEN ForeignId ELSE ExecutionId(e)
  BY DEF RightGates, Gate, GateKeys
<1>. QED
  BY <1>1, <1>2, <1>3, <1>4 DEF AllRight

(***************************************************************************)
(* No identity is the foreign one.                                         *)
(***************************************************************************)
LEMMA NobodysId ==
  ASSUME NEW o, NEW e, NEW c
  PROVE  CompactId(c) # ForeignId /\ OrchestrationId(o) # ForeignId /\ ExecutionId(e) # ForeignId
<1>1. CompactId(c)[1] = "compact" /\ OrchestrationId(o)[1] = "orchestration"
      /\ ExecutionId(e)[1] = "execution" /\ ForeignId[1] = "foreign"
  BY DEF CompactId, OrchestrationId, ExecutionId, ForeignId
<1>. QED
  BY <1>1

(***************************************************************************)
(* Spoiled gates do not make a final receipt; the right ones do when       *)
(* everything else binds.                                                  *)
(***************************************************************************)
LEMMA SpoiledGates ==
  ASSUME NEW o, NEW e, e # None, NEW c, c # None, NEW flaw \in Flaws,
         NEW right, AllRight(right, o, e, c), NEW gates, gates = Spoil(right, flaw)
  PROVE  /\ flaw # Flawless => ~ ValidFinal(o, e, c, gates)
         /\ flaw = Flawless => (ValidFinal(o, e, c, gates)
                                  <=> e.receipt.orch = o /\ e.bound /\ CompactBinds(o, e.receipt, c))
<1>. DEFINE dropped == IF flaw.how \in {"none", "absent"} THEN {flaw.gate} ELSE {}
            keys == (GateKeys \cup {flaw.gate}) \ dropped
<1>1. DOMAIN right = GateKeys
  BY DEF AllRight
<1>2. DOMAIN gates = keys
      /\ \A k \in keys : gates[k] = IF k # flaw.gate THEN right[k]
                                    ELSE IF flaw.how = "unsatisfied" THEN Gate(FALSE, None)
                                    ELSE Gate(TRUE, ForeignId)
  BY <1>1 DEF Spoil
<1>3. "none" \notin GateKeys /\ "other" \notin GateKeys
  BY DEF GateKeys
<1>4. CASE flaw = Flawless
  <2>1. flaw.gate = "none" /\ flaw.how = "none"
    BY <1>4 DEF Flawless
  <2>2. keys = GateKeys
    BY <1>3, <2>1
  <2>3. \A k \in GateKeys : gates[k] = right[k]
    BY <1>2, <1>3, <2>1, <2>2
  <2>4. DOMAIN gates = GateKeys /\ Missing(gates) = {}
    BY <1>2, <2>2, <2>3 DEF Missing, Satisfied, AllRight
  <2>5. /\ gates["compact_evidence_valid"].evidence = CompactId(c)
        /\ gates["orchestration_receipt_valid"].evidence = OrchestrationId(o)
        /\ gates["execution_receipt_valid"].evidence = ExecutionId(e)
    BY <2>3 DEF AllRight, GateKeys
  <2>. QED
    BY <1>4, <2>4, <2>5 DEF ValidFinal
<1>5. CASE flaw = [gate |-> "other", how |-> "unknown"]
  <2>1. "other" \in keys
    BY <1>5
  <2>2. DOMAIN gates # GateKeys
    BY <1>2, <1>3, <2>1
  <2>3. flaw # Flawless
    BY <1>5 DEF Flawless
  <2>. QED
    BY <2>2, <2>3 DEF ValidFinal
<1>6. CASE flaw \in [gate : GateKeys, how : {"unsatisfied", "foreign", "absent"}]
  <2>1. flaw.gate \in GateKeys /\ flaw.how \in {"unsatisfied", "foreign", "absent"}
    BY <1>6
  <2>2. flaw # Flawless
    BY <1>3, <2>1 DEF Flawless
  <2>3. CASE flaw.how = "absent"
    <3>1. flaw.gate \notin DOMAIN gates
      BY <1>2, <2>3
    <3>. QED
      BY <2>1, <2>2, <3>1 DEF ValidFinal
  <2>4. CASE flaw.how = "unsatisfied"
    <3>1. flaw.gate \in keys
      BY <2>1, <2>4
    <3>2. gates[flaw.gate] = Gate(FALSE, None)
      BY <1>2, <2>4, <3>1
    <3>3. gates[flaw.gate].satisfied = FALSE
      BY <3>2 DEF Gate
    <3>4. flaw.gate \in Missing(gates)
      BY <2>1, <3>3 DEF Missing, Satisfied
    <3>. QED
      BY <2>2, <3>4 DEF ValidFinal
  <2>5. CASE flaw.how = "foreign"
    <3>1. flaw.gate \in keys
      BY <2>1, <2>5
    <3>2. gates[flaw.gate] = Gate(TRUE, ForeignId)
      BY <1>2, <2>5, <3>1
    <3>3. gates[flaw.gate].evidence = ForeignId
      BY <3>2 DEF Gate
    <3>4. flaw.gate \in {"compact_evidence_valid", "orchestration_receipt_valid", "execution_receipt_valid"}
      BY <2>1 DEF GateKeys
    <3>. QED
      BY <2>2, <3>3, <3>4, NobodysId DEF ValidFinal
  <2>. QED
    BY <2>1, <2>3, <2>4, <2>5
<1>. QED
  BY <1>4, <1>5, <1>6 DEF Flaws

\* AcceptanceEarned, of what is presented for one orchestration.
Judged(o, c, e) ==
  LET right == RightGates(o, e, c)
      earned == e # None /\ c # None /\ e.bound /\ Earned(o, e.receipt, c)
  IN /\ \A flaw \in Flaws :
          LET gates   == Spoil(right, flaw)
              outcome == FinalizeTask(o, e, c, gates, "openai_supervisor")
          IN /\ outcome.status \in
                  IF flaw = Flawless /\ earned THEN {"accepted"}
                  ELSE IF c = None THEN {"partial", "rejected"} ELSE {"rejected"}
             /\ ValidatorAgrees(o, e, c, gates, outcome)
     /\ FinalizeTask(None, None, c, right, "openai_supervisor").status = "rejected"
     /\ FinalizeTask(o, e, c, right, "local_candidate_worker").status = "rejected"

(***************************************************************************)
(* What the wrapper answers to one request.                                *)
(***************************************************************************)
LEMMA JudgedRight ==
  ASSUME EvidenceInv, NEW o \in Orchestrations, NEW c \in Presentable \cup {None},
         NEW e \in {Presented(x, bound) : x \in Executions, bound \in BOOLEAN} \cup {None}
  PROVE  Judged(o, c, e)
<1>. DEFINE right == RightGates(o, e, c)
            earned == e # None /\ c # None /\ e.bound /\ Earned(o, e.receipt, c)
<1>1. o # None
  BY EvidenceNoneAssumption
<1>2. AllRight(right, o, e, c)
  BY RightAreRight
<1>3. e # None => e.receipt \in Executions
  BY DEF Presented
<1>4. c # None => c \in Presentable
  OBVIOUS
<1>5. e # None /\ c # None =>
        (earned <=> e.receipt.orch = o /\ e.bound /\ CompactBinds(o, e.receipt, c))
  BY <1>3, <1>4, BindingIsEarned, EarnedBinds
<1>. HIDE DEF right, earned
<1>6. ASSUME NEW flaw \in Flaws, NEW gates, gates = Spoil(right, flaw),
             NEW outcome, outcome = FinalizeTask(o, e, c, gates, "openai_supervisor")
      PROVE  /\ outcome.status \in
                  IF flaw = Flawless /\ earned THEN {"accepted"}
                  ELSE IF c = None THEN {"partial", "rejected"} ELSE {"rejected"}
             /\ ValidatorAgrees(o, e, c, gates, outcome)
  <2>1. /\ outcome.status \in {"accepted", "partial", "rejected"}
        /\ outcome.status = "accepted" <=> e # None /\ c # None /\ ValidFinal(o, e, c, gates)
        /\ outcome.status = "partial" => c = None
    BY <1>1, <1>6, WrapperAnswers
  <2>2. ValidatorAgrees(o, e, c, gates, outcome)
    BY <1>1, <1>6, WrapperValidates
  <2>3. earned => e # None /\ c # None
    BY DEF earned
  <2>4. e # None /\ c # None => (ValidFinal(o, e, c, gates) <=> flaw = Flawless /\ earned)
    BY <1>2, <1>5, <1>6, SpoiledGates
  <2>5. outcome.status = "accepted" <=> flaw = Flawless /\ earned
    BY <2>1, <2>3, <2>4
  <2>. QED
    BY <2>1, <2>2, <2>5
<1>7. FinalizeTask(None, None, c, right, "openai_supervisor").status = "rejected"
  <2>1. Satisfied(right, "compact_evidence_valid")
    BY <1>2 DEF AllRight, Satisfied, GateKeys
  <2>2. \A reason : ~ ValidPartial(reason, None, None, right)
    BY <2>1 DEF ValidPartial
  <2>. QED
    BY <1>2, <2>2 DEF FinalizeTask, Partial, Reject, Outcome, AllRight
<1>8. FinalizeTask(o, e, c, right, "local_candidate_worker").status = "rejected"
  BY DEF FinalizeTask, Reject, Outcome
<1>. QED
  BY <1>6, <1>7, <1>8 DEF Judged, right, earned

(***************************************************************************)
(* An execution receipt validates from its own two runtime receipts only.  *)
(***************************************************************************)
LEMMA OwnReceipts ==
  ASSUME EvidenceInv, NEW e \in Executions, NEW o, NEW first, NEW last
  PROVE  ValidatesExecution(e, o, first, last)
           <=> o = e.orch /\ first = e.boundary.first /\ last = e.boundary.last
<1>. DEFINE src == DirectSources(e.chain)
            ends == [session |-> first.session, initial |-> first.prior,
                     final |-> last.result, first |-> first, last |-> last]
<1>1. /\ e.boundary = BoundaryOf(src)
      /\ ValidEndpoints(e.boundary.first, e.boundary.last, e.transitions)
      /\ e = ExecutionReceipt(e.orch, e.chain, e.transitions, e.boundary)
  BY ExecutionTells
<1>. HIDE DEF src
<1>2. e.boundary.first = src[1] /\ e.boundary.last = src[Len(src)]
  BY <1>1 DEF BoundaryOf
<1>3. ASSUME ValidatesExecution(e, o, first, last)
      PROVE  o = e.orch /\ first = e.boundary.first /\ last = e.boundary.last
  <2>1. e = ExecutionReceipt(o, e.chain, e.transitions, ends)
    BY <1>3 DEF ValidatesExecution
  <2>2. e.orch = o /\ e.boundary = ends
    BY <2>1 DEF ExecutionReceipt
  <2>3. e.boundary.first = first /\ e.boundary.last = last
    BY <2>2
  <2>. QED
    BY <2>2, <2>3
<1>4. ASSUME o = e.orch, first = e.boundary.first, last = e.boundary.last
      PROVE  ValidatesExecution(e, o, first, last)
  <2>1. ends = e.boundary
    BY <1>1, <1>2, <1>4 DEF BoundaryOf
  <2>2. e = ExecutionReceipt(o, e.chain, e.transitions, ends)
    BY <1>1, <1>4, <2>1
  <2>. QED
    BY <1>1, <1>4, <2>2 DEF ValidatesExecution
<1>. QED
  BY <1>3, <1>4

(***************************************************************************)
(* Of everything a supervisor could present, the wrapper accepts exactly   *)
(* what has been earned, with exactly the right gates; what it calls       *)
(* partial never carries a compact receipt; the validator rebuilds its     *)
(* decisions, and an execution receipt from its own two runtime receipts   *)
(* only.                                                                   *)
(***************************************************************************)
THEOREM AcceptanceSafety == SpecEvidence => []AcceptanceEarned
<1>1. EvidenceInv => AcceptanceEarned
  BY JudgedRight, OwnReceipts DEF AcceptanceEarned, Judged
<1>. QED
  BY <1>1, EvidenceInvariant, PTL
=============================================================================
