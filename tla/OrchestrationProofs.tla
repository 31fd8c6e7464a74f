------------------------ MODULE OrchestrationProofs ------------------------
(***************************************************************************)
(* Theorems about orchestration and tool governance, for every registry of *)
(* obligations and capabilities, every set of batches and every limit.     *)
(***************************************************************************)
EXTENDS Governance, TLAPS, FiniteSetTheorems, FunctionTheorems, SequenceTheorems,
        WellFoundedInduction, NaturalsInduction

Start(st) == [decisions |-> <<>>, actions |-> <<>>, owners |-> st.owners]

-----------------------------------------------------------------------------
(* Induction, as the absence of a least counterexample. *)

(***************************************************************************)
(* A set of numbers that contains 0 and is closed under successors up to m *)
(* contains all numbers up to m.                                           *)
(***************************************************************************)
LEMMA UpTo ==
  ASSUME NEW m \in Nat, NEW good,
         0 \in good, \A n \in 0..(m - 1) : n \in good => n + 1 \in good
  PROVE  \A n \in 0..m : n \in good
<1>. DEFINE bad == {n \in 0..m : n \notin good}
<1>. SUFFICES ASSUME bad # {} PROVE FALSE
  OBVIOUS
<1>1. bad \subseteq Nat
  OBVIOUS
<1>2. PICK n \in bad : \A k \in bad : ~(<<k, n>> \in OpToRel(<, Nat))
  BY <1>1, NatLessThanWellFounded, WFMin
<1>3. n \in Nat /\ n <= m /\ n # 0
  OBVIOUS
<1>4. n - 1 \in 0..m /\ n - 1 < n /\ n - 1 \in Nat /\ n - 1 \in 0..(m - 1) /\ (n - 1) + 1 = n
  BY <1>3
<1>5. <<n - 1, n>> \in OpToRel(<, Nat)
  BY <1>3, <1>4 DEF OpToRel
<1>6. n - 1 \in good
  BY <1>2, <1>4, <1>5
<1>. QED
  BY <1>4, <1>6

(***************************************************************************)
(* The accumulator of admit_batch starts empty, with the owners of the     *)
(* state, and each turn of the loop makes the next one from the last.      *)
(***************************************************************************)
LEMMA LoopTurns ==
  ASSUME NEW st, NEW ordering, NEW q, Len(q) \in Nat
  PROVE  LET acc == Loop(st, ordering, q)
         IN  /\ acc[0] = Start(st)
             /\ \A n \in 1..Len(q) : acc[n] = Decide(st, ordering, acc[n - 1], q[n])
<1>. DEFINE Turns(g, n) ==
              g = [i \in 0..n |-> IF i = 0 THEN Start(st) ELSE Decide(st, ordering, g[i - 1], q[i])]
            good == {n \in Nat : \E g : Turns(g, n)}
<1>1. 0 \in good
  <2>. DEFINE g == [i \in 0..0 |-> Start(st)]
  <2>1. g = [i \in 0..0 |-> IF i = 0 THEN Start(st) ELSE Decide(st, ordering, g[i - 1], q[i])]
    OBVIOUS
  <2>. QED
    BY <2>1
<1>2. ASSUME NEW n \in Nat, n \in good PROVE n + 1 \in good
  <2>1. PICK g : Turns(g, n)
    BY <1>2
  <2>. DEFINE h == [i \in 0..(n + 1) |-> IF i \in 0..n THEN g[i] ELSE Decide(st, ordering, g[n], q[n + 1])]
  <2>2. \A i \in 0..n : h[i] = g[i]
    OBVIOUS
  <2>3. h[n + 1] = Decide(st, ordering, g[n], q[n + 1])
    OBVIOUS
  <2>4. \A i \in 0..n : g[i] = IF i = 0 THEN Start(st) ELSE Decide(st, ordering, g[i - 1], q[i])
    BY <2>1
  <2>5. \A i \in 0..(n + 1) :
          h[i] = IF i = 0 THEN Start(st) ELSE Decide(st, ordering, h[i - 1], q[i])
    <3>. TAKE i \in 0..(n + 1)
    <3>1. CASE i \in 0..n
      <4>1. i # 0 => i - 1 \in 0..n
        BY <3>1
      <4>. HIDE DEF h
      <4>. QED
        BY <2>2, <2>4, <3>1, <4>1
    <3>2. CASE i = n + 1
      <4>1. i # 0 /\ i - 1 = n /\ n \in 0..n
        BY <3>2
      <4>. HIDE DEF h
      <4>. QED
        BY <2>2, <2>3, <3>2, <4>1
    <3>. QED
      BY <3>1, <3>2
  <2>6. h = [i \in 0..(n + 1) |-> h[i]]
    OBVIOUS
  <2>7. Turns(h, n + 1)
    <3>. HIDE DEF h
    <3>. QED
      BY <2>5, <2>6
  <2>8. n + 1 \in Nat
    OBVIOUS
  <2>. HIDE DEF h, Turns
  <2>. QED
    BY <2>7, <2>8
<1>3. Len(q) \in good
  <2>1. \A n \in 0..Len(q) : n \in good
    <3>. HIDE DEF good
    <3>1. \A n \in 0..(Len(q) - 1) : n \in good => n + 1 \in good
      BY <1>2
    <3>. QED
      BY <1>1, <3>1, UpTo
  <2>. QED
    BY <2>1
<1>. DEFINE f == CHOOSE g : Turns(g, Len(q))
<1>4. Turns(f, Len(q))
  BY <1>3
<1>5. Loop(st, ordering, q) = f
  BY DEF Loop, Start
<1>. HIDE DEF f
<1>. QED
  BY <1>4, <1>5

-----------------------------------------------------------------------------
(* Sequences *)

(***************************************************************************)
(* Appending to a sequence, whatever it contains.                          *)
(***************************************************************************)
LEMMA Appending ==
  ASSUME NEW s, s \in Seq(Range(s)), NEW e
  PROVE  LET t == Append(s, e)
         IN  /\ t \in Seq(Range(t)) /\ Len(t) = Len(s) + 1 /\ Len(s) \in Nat
             /\ DOMAIN s = 1..Len(s) /\ DOMAIN t = 1..(Len(s) + 1)
             /\ \A i \in 1..Len(s) : t[i] = s[i]
             /\ t[Len(s) + 1] = e
             /\ Range(t) = Range(s) \cup {e}
<1>. DEFINE S == Range(s) \cup {e}
            t == Append(s, e)
<1>1. s \in Seq(S)
  <2>1. \A i \in 1..Len(s) : s[i] \in Range(s)
    BY ElementOfSeq
  <2>. QED
    BY <2>1
<1>2. t \in Seq(S) /\ Len(t) = Len(s) + 1 /\ Len(s) \in Nat
      /\ (\A i \in 1..Len(s) : t[i] = s[i]) /\ t[Len(s) + 1] = e
  BY <1>1, AppendProperties, LenProperties
<1>3. DOMAIN s = 1..Len(s) /\ DOMAIN t = 1..Len(t)
  BY <1>1, <1>2, LenProperties
<1>. HIDE DEF S, t
<1>4. \A x : x \in Range(t) <=> \E i \in 1..(Len(s) + 1) : x = t[i]
  BY <1>2, <1>3 DEF Range
<1>5. \A x : x \in Range(s) <=> \E i \in 1..Len(s) : x = s[i]
  BY <1>3 DEF Range
<1>6. \A i : i \in 1..(Len(s) + 1) <=> i \in 1..Len(s) \/ i = Len(s) + 1
  BY <1>2
<1>7. Range(t) = Range(s) \cup {e}
  BY <1>2, <1>4, <1>5, <1>6, SMTT(30)
<1>8. t \in Seq(Range(t))
  BY <1>2, <1>7 DEF S
<1>. QED
  BY <1>2, <1>3, <1>7, <1>8 DEF t

-----------------------------------------------------------------------------
(* One proposal *)

(***************************************************************************)
(* A refusal with a reason is a refusal.                                   *)
(***************************************************************************)
LEMMA RefusalRefuses ==
  ASSUME NEW reason \in RejectionReasons, NEW because
  PROVE  Refusal(reason, because) # Passed /\ Refusal(reason, because).reason \in RejectionReasons
BY NoneAssumption DEF Refusal, Passed

(***************************************************************************)
(* What a proposal has passed when nothing screened it out, and what is    *)
(* told when something did.                                                *)
(***************************************************************************)
LEMMA Screened ==
  ASSUME NEW st, NEW ordering, NEW p
  PROVE  /\ Screen(st, ordering, p) = Passed =>
              /\ p.capability \in DOMAIN Capabilities
              /\ Capabilities[p.capability].available
              /\ Capabilities[p.capability].replay # "cacheable_read"
                   => ordering = "declared_sequence"
              /\ ValidateTargets(st, p) = Passed
              /\ ValidateState(st, p) = Passed
              /\ IsReplaySafe(Capabilities[p.capability]) <=> p.occurrence = None
         /\ Screen(st, ordering, p) # Passed =>
              Screen(st, ordering, p).reason \in RejectionReasons
<1>. DEFINE c == Capabilities[p.capability]
<1>1. /\ ValidateTargets(st, p) # Passed => ValidateTargets(st, p).reason \in RejectionReasons
      /\ ValidateState(st, p) # Passed => ValidateState(st, p).reason \in RejectionReasons
  <2>1. ValidateTargets(st, p) # Passed => ValidateTargets(st, p).reason \in RejectionReasons
    BY DEF ValidateTargets, Refusal, RejectionReasons
  <2>2. ValidateState(st, p) # Passed => ValidateState(st, p).reason \in RejectionReasons
    BY DEF ValidateState, Refusal, RejectionReasons
  <2>. QED
    BY <2>1, <2>2
<1>2. /\ ValidateOccurrence(p) = Passed => (IsReplaySafe(c) <=> p.occurrence = None)
      /\ ValidateOccurrence(p) # Passed => ValidateOccurrence(p).reason \in RejectionReasons
  <2>1. /\ Refusal("OCCURRENCE_KEY_REQUIRED", {}) # Passed
        /\ Refusal("UNEXPECTED_OCCURRENCE_KEY", {}) # Passed
    BY RefusalRefuses DEF RejectionReasons
  <2>2. /\ Refusal("OCCURRENCE_KEY_REQUIRED", {}).reason \in RejectionReasons
        /\ Refusal("UNEXPECTED_OCCURRENCE_KEY", {}).reason \in RejectionReasons
    BY RefusalRefuses DEF RejectionReasons
  <2>. QED
    BY <2>1, <2>2 DEF ValidateOccurrence
<1>3. /\ \A r \in {"UNKNOWN_CAPABILITY", "CAPABILITY_UNAVAILABLE", "ARGUMENT_SCHEMA_MISMATCH",
                   "ORDERING_CONTRACT_REQUIRED"} :
           Refusal(r, {}) # Passed /\ Refusal(r, {}).reason \in RejectionReasons
  BY RefusalRefuses DEF RejectionReasons
<1>. QED
  BY <1>1, <1>2, <1>3 DEF Screen

(***************************************************************************)
(* The tick a turn consumes, the decision it makes and what it leaves.     *)
(***************************************************************************)
TickOf(st, acc) == st.tick + Len(acc.decisions) + 1

Safe(p) == IsReplaySafe(Capabilities[p.capability])

Admits(st, ordering, acc, p) ==
  /\ Screen(st, ordering, p) = Passed
  /\ IF Safe(p) THEN ActionId(st, p) \notin DOMAIN acc.actions
     ELSE /\ p.occurrence \notin DOMAIN acc.owners
          /\ Cardinality(DOMAIN acc.owners) # MaxOwners

Repeats(st, ordering, acc, p) ==
  Screen(st, ordering, p) = Passed /\ Safe(p) /\ ActionId(st, p) \in DOMAIN acc.actions

Cause(st, ordering, acc, p) ==
  IF Screen(st, ordering, p) # Passed THEN Screen(st, ordering, p)
  ELSE IF p.occurrence \in DOMAIN acc.owners THEN Refusal("DUPLICATE_OCCURRENCE", {})
  ELSE Refusal("OCCURRENCE_REGISTRY_FULL", {})

DecisionOn(st, ordering, acc, p) ==
  IF Admits(st, ordering, acc, p)
    THEN Decision(p, "admitted", TickOf(st, acc), ActionId(st, p), None, Passed)
  ELSE IF Repeats(st, ordering, acc, p)
    THEN Decision(p, "deduplicated", TickOf(st, acc), ActionId(st, p),
                  acc.actions[ActionId(st, p)], Passed)
  ELSE Rejected(p, TickOf(st, acc), Cause(st, ordering, acc, p))

ActionsAfter(st, ordering, acc, p) ==
  IF Admits(st, ordering, acc, p) /\ Safe(p)
  THEN [a \in DOMAIN acc.actions \cup {ActionId(st, p)} |->
          IF a = ActionId(st, p) THEN p ELSE acc.actions[a]]
  ELSE acc.actions

OwnersAfter(st, ordering, acc, p) ==
  IF Admits(st, ordering, acc, p) /\ ~ Safe(p)
  THEN [k \in DOMAIN acc.owners \cup {p.occurrence} |->
          IF k = p.occurrence THEN [action |-> ActionId(st, p), proposal |-> p] ELSE acc.owners[k]]
  ELSE acc.owners

(***************************************************************************)
(* A turn appends one decision; an admission notes its action, or the      *)
(* owner of its occurrence, and nothing else changes.                      *)
(***************************************************************************)
LEMMA DecideTurns ==
  ASSUME NEW st, NEW ordering, NEW p, NEW acc
  PROVE  Decide(st, ordering, acc, p)
           = [decisions |-> Append(acc.decisions, DecisionOn(st, ordering, acc, p)),
              actions |-> ActionsAfter(st, ordering, acc, p),
              owners |-> OwnersAfter(st, ordering, acc, p)]
<1>. DEFINE tick == TickOf(st, acc)
            action == ActionId(st, p)
            d == DecisionOn(st, ordering, acc, p)
            After(x, actions, owners) ==
              [decisions |-> Append(acc.decisions, x), actions |-> actions, owners |-> owners]
<1>1. tick = st.tick + Len(acc.decisions) + 1
  BY DEF TickOf
<1>2. CASE Screen(st, ordering, p) # Passed
  <2>1. Decide(st, ordering, acc, p)
          = After(Rejected(p, tick, Screen(st, ordering, p)), acc.actions, acc.owners)
    BY <1>1, <1>2 DEF Decide
  <2>2. d = Rejected(p, tick, Screen(st, ordering, p))
    BY <1>2 DEF DecisionOn, Admits, Repeats, Cause
  <2>3. /\ ActionsAfter(st, ordering, acc, p) = acc.actions
        /\ OwnersAfter(st, ordering, acc, p) = acc.owners
    BY <1>2 DEF ActionsAfter, OwnersAfter, Admits
  <2>. QED
    BY <2>1, <2>2, <2>3
<1>3. CASE Screen(st, ordering, p) = Passed /\ Safe(p)
  <2>1. CASE action \in DOMAIN acc.actions
    <3>1. Decide(st, ordering, acc, p)
            = After(Decision(p, "deduplicated", tick, action, acc.actions[action], Passed),
                    acc.actions, acc.owners)
      BY <1>1, <1>3, <2>1 DEF Decide, Safe
    <3>2. d = Decision(p, "deduplicated", tick, action, acc.actions[action], Passed)
      BY <1>3, <2>1 DEF DecisionOn, Admits, Repeats
    <3>3. /\ ActionsAfter(st, ordering, acc, p) = acc.actions
          /\ OwnersAfter(st, ordering, acc, p) = acc.owners
      BY <1>3, <2>1 DEF ActionsAfter, OwnersAfter, Admits
    <3>. QED
      BY <3>1, <3>2, <3>3
  <2>2. CASE action \notin DOMAIN acc.actions
    <3>. DEFINE new == [a \in DOMAIN acc.actions \cup {action} |->
                          IF a = action THEN p ELSE acc.actions[a]]
    <3>1. Decide(st, ordering, acc, p)
            = After(Decision(p, "admitted", tick, action, None, Passed), new, acc.owners)
      BY <1>1, <1>3, <2>2 DEF Decide, Safe
    <3>2. d = Decision(p, "admitted", tick, action, None, Passed)
      BY <1>3, <2>2 DEF DecisionOn, Admits
    <3>3. /\ ActionsAfter(st, ordering, acc, p) = new
          /\ OwnersAfter(st, ordering, acc, p) = acc.owners
      BY <1>3, <2>2 DEF ActionsAfter, OwnersAfter, Admits
    <3>. QED
      BY <3>1, <3>2, <3>3
  <2>. QED
    BY <2>1, <2>2
<1>4. CASE Screen(st, ordering, p) = Passed /\ ~ Safe(p)
  <2>1. CASE p.occurrence \in DOMAIN acc.owners
    <3>1. Decide(st, ordering, acc, p)
            = After(Rejected(p, tick, Refusal("DUPLICATE_OCCURRENCE", {})), acc.actions, acc.owners)
      BY <1>1, <1>4, <2>1 DEF Decide, Safe, OwnersNow
    <3>2. d = Rejected(p, tick, Refusal("DUPLICATE_OCCURRENCE", {}))
      BY <1>4, <2>1 DEF DecisionOn, Admits, Repeats, Cause
    <3>3. /\ ActionsAfter(st, ordering, acc, p) = acc.actions
          /\ OwnersAfter(st, ordering, acc, p) = acc.owners
      BY <1>4, <2>1 DEF ActionsAfter, OwnersAfter, Admits
    <3>. QED
      BY <3>1, <3>2, <3>3
  <2>2. CASE p.occurrence \notin DOMAIN acc.owners /\ Cardinality(DOMAIN acc.owners) = MaxOwners
    <3>1. Decide(st, ordering, acc, p)
            = After(Rejected(p, tick, Refusal("OCCURRENCE_REGISTRY_FULL", {})),
                    acc.actions, acc.owners)
      BY <1>1, <1>4, <2>2 DEF Decide, Safe, OwnersNow
    <3>2. d = Rejected(p, tick, Refusal("OCCURRENCE_REGISTRY_FULL", {}))
      BY <1>4, <2>2 DEF DecisionOn, Admits, Repeats, Cause
    <3>3. /\ ActionsAfter(st, ordering, acc, p) = acc.actions
          /\ OwnersAfter(st, ordering, acc, p) = acc.owners
      BY <1>4, <2>2 DEF ActionsAfter, OwnersAfter, Admits
    <3>. QED
      BY <3>1, <3>2, <3>3
  <2>3. CASE p.occurrence \notin DOMAIN acc.owners /\ Cardinality(DOMAIN acc.owners) # MaxOwners
    <3>. DEFINE new == [k \in DOMAIN acc.owners \cup {p.occurrence} |->
                          IF k = p.occurrence THEN [action |-> action, proposal |-> p]
                          ELSE acc.owners[k]]
    <3>1. Decide(st, ordering, acc, p)
            = After(Decision(p, "admitted", tick, action, None, Passed), acc.actions, new)
      BY <1>1, <1>4, <2>3 DEF Decide, Safe, OwnersNow
    <3>2. d = Decision(p, "admitted", tick, action, None, Passed)
      BY <1>4, <2>3 DEF DecisionOn, Admits
    <3>3. /\ ActionsAfter(st, ordering, acc, p) = acc.actions
          /\ OwnersAfter(st, ordering, acc, p) = new
      BY <1>4, <2>3 DEF ActionsAfter, OwnersAfter, Admits
    <3>. QED
      BY <3>1, <3>2, <3>3
  <2>. QED
    BY <2>1, <2>2, <2>3
<1>. QED
  BY <1>2, <1>3, <1>4

-----------------------------------------------------------------------------
(* The loop over a batch *)

(***************************************************************************)
(* What one turn of the loop leaves, part by part.                         *)
(***************************************************************************)
LEMMA LoopParts ==
  ASSUME NEW st, NEW ordering, NEW q, Len(q) \in Nat
  PROVE  LET acc == Loop(st, ordering, q)
         IN  /\ acc[0].decisions = <<>> /\ acc[0].actions = <<>> /\ acc[0].owners = st.owners
             /\ \A n \in 1..Len(q) :
                  /\ acc[n].decisions = Append(acc[n - 1].decisions,
                                               DecisionOn(st, ordering, acc[n - 1], q[n]))
                  /\ acc[n].actions = ActionsAfter(st, ordering, acc[n - 1], q[n])
                  /\ acc[n].owners = OwnersAfter(st, ordering, acc[n - 1], q[n])
<1>. DEFINE acc == Loop(st, ordering, q)
<1>1. /\ acc[0] = Start(st)
      /\ \A n \in 1..Len(q) : acc[n] = Decide(st, ordering, acc[n - 1], q[n])
  BY LoopTurns
<1>. HIDE DEF acc
<1>2. acc[0].decisions = <<>> /\ acc[0].actions = <<>> /\ acc[0].owners = st.owners
  BY <1>1 DEF Start
<1>3. ASSUME NEW n \in 1..Len(q)
      PROVE  /\ acc[n].decisions = Append(acc[n - 1].decisions,
                                          DecisionOn(st, ordering, acc[n - 1], q[n]))
             /\ acc[n].actions = ActionsAfter(st, ordering, acc[n - 1], q[n])
             /\ acc[n].owners = OwnersAfter(st, ordering, acc[n - 1], q[n])
  <2>. DEFINE old == acc[n - 1]
  <2>. HIDE DEF old
  <2>1. acc[n] = Decide(st, ordering, old, q[n])
    BY <1>1 DEF old
  <2>2. acc[n] = [decisions |-> Append(old.decisions, DecisionOn(st, ordering, old, q[n])),
                  actions |-> ActionsAfter(st, ordering, old, q[n]),
                  owners |-> OwnersAfter(st, ordering, old, q[n])]
    BY <2>1, DecideTurns
  <2>3. /\ acc[n].decisions = Append(old.decisions, DecisionOn(st, ordering, old, q[n]))
        /\ acc[n].actions = ActionsAfter(st, ordering, old, q[n])
        /\ acc[n].owners = OwnersAfter(st, ordering, old, q[n])
    BY <2>2
  <2>. QED
    BY <2>3 DEF old
<1>. QED
  BY <1>2, <1>3 DEF acc

(***************************************************************************)
(* The decisions after n turns: one for each proposal so far, each the one *)
(* its own turn made; and the owners stay within their limit.              *)
(***************************************************************************)
Shape(st, ordering, q, n) ==
  LET acc == Loop(st, ordering, q)
  IN  /\ acc[n].decisions \in Seq(Range(acc[n].decisions))
      /\ Len(acc[n].decisions) = n
      /\ \A i \in 1..n : acc[n].decisions[i] = DecisionOn(st, ordering, acc[i - 1], q[i])
      /\ IsFiniteSet(DOMAIN acc[n].owners) /\ Cardinality(DOMAIN acc[n].owners) <= MaxOwners

LEMMA LoopShape ==
  ASSUME NEW st, NEW ordering, NEW q, Len(q) \in Nat,
         IsFiniteSet(DOMAIN st.owners), Cardinality(DOMAIN st.owners) <= MaxOwners
  PROVE  \A n \in 0..Len(q) : Shape(st, ordering, q, n)
<1>. DEFINE acc == Loop(st, ordering, q)
            good == {n \in 0..Len(q) : Shape(st, ordering, q, n)}
<1>1. /\ acc[0].decisions = <<>> /\ acc[0].owners = st.owners
      /\ \A n \in 1..Len(q) :
           /\ acc[n].decisions = Append(acc[n - 1].decisions,
                                        DecisionOn(st, ordering, acc[n - 1], q[n]))
           /\ acc[n].owners = OwnersAfter(st, ordering, acc[n - 1], q[n])
  BY LoopParts
<1>2. 0 \in good
  <2>1. <<>> \in Seq(Range(<<>>)) /\ Len(<<>>) = 0
    OBVIOUS
  <2>2. Shape(st, ordering, q, 0)
    BY <1>1, <2>1 DEF Shape
  <2>. QED
    BY <2>2
<1>3. ASSUME NEW n \in 0..(Len(q) - 1), n \in good PROVE n + 1 \in good
  <2>. DEFINE old == acc[n]
              new == acc[n + 1]
              d == DecisionOn(st, ordering, old, q[n + 1])
  <2>0. n + 1 \in 1..Len(q) /\ (n + 1) - 1 = n /\ n \in Nat /\ n + 1 \in 0..Len(q)
    OBVIOUS
  <2>1. /\ old.decisions \in Seq(Range(old.decisions)) /\ Len(old.decisions) = n
        /\ \A i \in 1..n : old.decisions[i] = DecisionOn(st, ordering, acc[i - 1], q[i])
        /\ IsFiniteSet(DOMAIN old.owners) /\ Cardinality(DOMAIN old.owners) <= MaxOwners
    BY <1>3 DEF Shape
  <2>2. new.decisions = Append(old.decisions, d)
        /\ new.owners = OwnersAfter(st, ordering, old, q[n + 1])
    BY <1>1, <2>0
  <2>. HIDE DEF old, new, d
  <2>3. /\ new.decisions \in Seq(Range(new.decisions)) /\ Len(new.decisions) = n + 1
        /\ \A i \in 1..n : new.decisions[i] = old.decisions[i]
        /\ new.decisions[n + 1] = d
    BY <2>1, <2>2, Appending
  <2>4. \A i \in 1..(n + 1) : new.decisions[i] = DecisionOn(st, ordering, acc[i - 1], q[i])
    <3>. TAKE i \in 1..(n + 1)
    <3>. HIDE DEF acc
    <3>1. CASE i \in 1..n
      BY <2>1, <2>3, <3>1
    <3>2. CASE i = n + 1
      BY <2>0, <2>3, <3>2 DEF d, old
    <3>. QED
      BY <2>0, <3>1, <3>2
  <2>5. IsFiniteSet(DOMAIN new.owners) /\ Cardinality(DOMAIN new.owners) <= MaxOwners
    <3>1. CASE Admits(st, ordering, old, q[n + 1]) /\ ~ Safe(q[n + 1])
      <4>. DEFINE k == q[n + 1].occurrence
      <4>1. DOMAIN new.owners = DOMAIN old.owners \cup {k}
        BY <2>2, <3>1 DEF OwnersAfter
      <4>2. k \notin DOMAIN old.owners /\ Cardinality(DOMAIN old.owners) # MaxOwners
        BY <3>1 DEF Admits
      <4>3. Cardinality(DOMAIN old.owners) \in Nat /\ MaxOwners \in Nat
        BY <2>1, FS_CardinalityType, OrchestrationAssumption
      <4>4. IsFiniteSet(DOMAIN new.owners)
            /\ Cardinality(DOMAIN new.owners) = Cardinality(DOMAIN old.owners) + 1
        <5>. DEFINE D == DOMAIN old.owners
        <5>. HIDE DEF D, k
        <5>1. IsFiniteSet(D \cup {k}) /\ Cardinality(D \cup {k}) = Cardinality(D) + 1
          <6>1. IsFiniteSet(D) /\ k \notin D
            BY <2>1, <4>2 DEF D
          <6>. QED
            BY <6>1, FS_AddElement
        <5>. QED
          BY <4>1, <5>1 DEF D
      <4>. QED
        BY <2>1, <4>2, <4>3, <4>4
    <3>2. CASE ~(Admits(st, ordering, old, q[n + 1]) /\ ~ Safe(q[n + 1]))
      BY <2>1, <2>2, <3>2 DEF OwnersAfter
    <3>. QED
      BY <3>1, <3>2
  <2>6. Shape(st, ordering, q, n + 1)
    BY <2>3, <2>4, <2>5 DEF Shape, new
  <2>. QED
    BY <2>0, <2>6
<1>4. \A n \in 0..Len(q) : n \in good
  <2>. HIDE DEF good
  <2>1. \A n \in 0..(Len(q) - 1) : n \in good => n + 1 \in good
    BY <1>3
  <2>. QED
    BY <1>2, <2>1, UpTo
<1>. QED
  BY <1>4

-----------------------------------------------------------------------------
(* The order of the proposals *)

Ranked(s) ==
  /\ s \in Seq(Range(s))
  /\ \A i \in DOMAIN s : Rank[s[i]] \in Nat
  /\ \A i, j \in DOMAIN s : Rank[s[i]] = Rank[s[j]] => i = j

(***************************************************************************)
(* Sorting by fingerprint: every position is taken by exactly one proposal *)
(* and the fingerprints ascend.                                            *)
(***************************************************************************)
LEMMA Positions ==
  ASSUME NEW s, Ranked(s)
  PROVE  /\ \A i \in 1..Len(s) : \E p \in Range(s) : Position(s, p) = i
         /\ \A p, r \in Range(s) : Position(s, p) < Position(s, r) => Rank[p] < Rank[r]
<1>. DEFINE S == Range(s)
            n == Len(s)
            Below(p) == {r \in S : Rank[r] < Rank[p]}
<1>1. n \in Nat /\ DOMAIN s = 1..n /\ s \in [1..n -> S]
  BY LenProperties DEF Ranked
<1>2. \A p \in S : \E i \in 1..n : p = s[i]
  BY <1>1 DEF Range
<1>3. \A p, r \in S : /\ Rank[p] \in Nat
                      /\ Rank[p] = Rank[r] => p = r
  BY <1>1, <1>2 DEF Ranked
<1>4. IsFiniteSet(S) /\ Cardinality(S) = n
  <2>1. s \in Injection(1..n, S)
    <3>1. \A i, j \in 1..n : s[i] = s[j] => i = j
      BY <1>1 DEF Ranked
    <3>. QED
      BY <1>1, <3>1, Fun_IsInj
  <2>2. s \in Surjection(1..n, S)
    <3>1. \A p \in S : \E i \in 1..n : s[i] = p
      BY <1>2
    <3>. QED
      BY <1>1, <3>1, Fun_IsSurj
  <2>3. IsFiniteSet(1..n) /\ Cardinality(1..n) = n
    BY <1>1, FS_Interval, SMTT(30)
  <2>4. IsFiniteSet(S) /\ Cardinality(S) = Cardinality(1..n)
    BY <2>1, <2>2, <2>3, FS_Surjection
  <2>. QED
    BY <2>3, <2>4
<1>. HIDE DEF S, n
<1>5. \A p \in S : IsFiniteSet(Below(p)) /\ Cardinality(Below(p)) \in Nat
  BY <1>4, FS_Subset, FS_CardinalityType
<1>6. ASSUME NEW p \in S, NEW T, IsFiniteSet(T), Below(p) \subseteq T, p \in T
      PROVE  Cardinality(Below(p)) + 1 <= Cardinality(T)
  <2>. DEFINE B == Below(p)
  <2>1. IsFiniteSet(B) /\ p \notin B
    BY <1>3, <1>5
  <2>. HIDE DEF B
  <2>2. Cardinality(B \cup {p}) = Cardinality(B) + 1
    BY <2>1, FS_AddElement
  <2>3. B \cup {p} \in SUBSET T
    BY <1>6 DEF B
  <2>4. Cardinality(B \cup {p}) <= Cardinality(T)
    BY <1>6, <2>3, FS_Subset
  <2>5. Cardinality(B) + 1 <= Cardinality(T)
    BY <2>2, <2>4
  <2>. QED
    BY <2>5 DEF B
<1>7. \A p, r \in S : Rank[p] < Rank[r] => Cardinality(Below(p)) < Cardinality(Below(r))
  <2>. SUFFICES ASSUME NEW p \in S, NEW r \in S, Rank[p] < Rank[r]
                PROVE  Cardinality(Below(p)) < Cardinality(Below(r))
    OBVIOUS
  <2>1. Below(p) \subseteq Below(r) /\ p \in Below(r)
    BY <1>3
  <2>2. Cardinality(Below(p)) + 1 <= Cardinality(Below(r))
    BY <1>5, <1>6, <2>1
  <2>. QED
    BY <1>5, <2>2
<1>8. \A p \in S : Cardinality(Below(p)) + 1 \in 1..n
  <2>. TAKE p \in S
  <2>1. Cardinality(Below(p)) + 1 <= n
    BY <1>4, <1>6
  <2>. QED
    BY <1>1, <1>5, <2>1, SMTT(30)
<1>. DEFINE pos == [p \in S |-> Cardinality(Below(p)) + 1]
<1>9. pos \in Injection(S, 1..n)
  <2>1. pos \in [S -> 1..n]
    BY <1>8
  <2>2. \A p, r \in S : pos[p] = pos[r] => p = r
    <3>. SUFFICES ASSUME NEW p \in S, NEW r \in S, pos[p] = pos[r], p # r PROVE FALSE
      OBVIOUS
    <3>1. Cardinality(Below(p)) = Cardinality(Below(r))
      <4>. DEFINE x == Cardinality(Below(p))
                  y == Cardinality(Below(r))
      <4>1. x + 1 = y + 1
        OBVIOUS
      <4>2. x \in Nat /\ y \in Nat
        BY <1>5
      <4>. HIDE DEF x, y
      <4>3. x = y
        BY <4>1, <4>2
      <4>. QED
        BY <4>3 DEF x, y
    <3>2. Rank[p] < Rank[r] \/ Rank[r] < Rank[p]
      BY <1>3
    <3>. HIDE DEF Below
    <3>. QED
      BY <1>5, <1>7, <3>1, <3>2
  <2>. HIDE DEF pos
  <2>. QED
    BY <2>1, <2>2, Fun_IsInj
<1>10. pos \in Surjection(S, 1..n)
  <2>1. IsFiniteSet(1..n) /\ Cardinality(1..n) = n
    BY <1>1, FS_Interval
  <2>. HIDE DEF pos
  <2>. QED
    BY <1>4, <1>9, <2>1, FS_Injection
<1>11. \A i \in 1..n : \E p \in S : pos[p] = i
  <2>. HIDE DEF pos
  <2>. QED
    BY <1>10, Fun_SurjectionProperties
<1>12. \A p \in S : Position(s, p) = Cardinality(Below(p)) + 1
  BY DEF Position, S
<1>13. \A i \in 1..n : \E p \in S : Position(s, p) = i
  BY <1>11, <1>12
<1>14. \A p, r \in S : Position(s, p) < Position(s, r) => Rank[p] < Rank[r]
  <2>. SUFFICES ASSUME NEW p \in S, NEW r \in S, Position(s, p) < Position(s, r),
                       ~(Rank[p] < Rank[r])
                PROVE  FALSE
    OBVIOUS
  <2>1. Cardinality(Below(p)) < Cardinality(Below(r))
    <3>1. Position(s, p) = Cardinality(Below(p)) + 1 /\ Position(s, r) = Cardinality(Below(r)) + 1
      BY <1>12
    <3>. HIDE DEF Below
    <3>. QED
      BY <1>5, <3>1
  <2>. HIDE DEF Below
  <2>2. CASE Rank[p] = Rank[r]
    BY <1>3, <1>5, <2>1, <2>2
  <2>3. CASE Rank[r] < Rank[p]
    BY <1>5, <1>7, <2>1, <2>3
  <2>. QED
    BY <1>3, <2>2, <2>3
<1>. QED
  BY <1>13, <1>14 DEF S, n

(***************************************************************************)
(* The proposals in the order in which they are decided.                   *)
(***************************************************************************)
LEMMA OrderedShape ==
  ASSUME NEW b, Ranked(b.proposals)
  PROVE  LET q == OrderedProposals(b)
         IN  /\ Len(q) \in Nat /\ Len(q) = Len(b.proposals) /\ DOMAIN q = 1..Len(q)
             /\ q \in Seq(Range(b.proposals))
             /\ \A i \in 1..Len(q) : q[i] \in Range(b.proposals)
             /\ b.ordering # "declared_sequence" =>
                  \A i, j \in 1..Len(q) : i < j => Rank[q[i]] < Rank[q[j]]
<1>. DEFINE s == b.proposals
            q == OrderedProposals(b)
            n == Len(s)
<1>1. n \in Nat /\ DOMAIN s = 1..n /\ s \in Seq(Range(s)) /\ \A i \in 1..n : s[i] \in Range(s)
  BY LenProperties, ElementOfSeq DEF Ranked
<1>2. CASE b.ordering = "declared_sequence"
  BY <1>1, <1>2 DEF OrderedProposals
<1>3. CASE b.ordering # "declared_sequence"
  <2>1. q = [i \in 1..n |-> CHOOSE p \in Range(s) : Position(s, p) = i]
    BY <1>1, <1>3 DEF OrderedProposals
  <2>2. /\ \A i \in 1..n : \E p \in Range(s) : Position(s, p) = i
        /\ \A p, r \in Range(s) : Position(s, p) < Position(s, r) => Rank[p] < Rank[r]
    BY Positions
  <2>. HIDE DEF s, q, n
  <2>3. \A i \in 1..n : q[i] \in Range(s) /\ Position(s, q[i]) = i
    <3>. TAKE i \in 1..n
    <3>1. q[i] = CHOOSE p \in Range(s) : Position(s, p) = i
      BY <2>1
    <3>. QED
      BY <2>2, <3>1
  <2>4. q \in [1..n -> Range(s)]
    BY <2>1, <2>3
  <2>5. q \in Seq(Range(s)) /\ Len(q) = n /\ DOMAIN q = 1..n
    BY <1>1, <2>4
  <2>6. \A i, j \in 1..n : i < j => Rank[q[i]] < Rank[q[j]]
    <3>. SUFFICES ASSUME NEW i \in 1..n, NEW j \in 1..n, i < j PROVE Rank[q[i]] < Rank[q[j]]
      OBVIOUS
    <3>1. Position(s, q[i]) < Position(s, q[j])
      BY <2>3
    <3>. QED
      BY <2>2, <2>3, <3>1
  <2>7. Len(q) \in Nat
    BY <1>1, <2>5
  <2>. QED
    BY <2>3, <2>5, <2>6, <2>7 DEF s, q, n
<1>. QED
  BY <1>2, <1>3

(***************************************************************************)
(* The proposals of every batch have different fingerprints.               *)
(***************************************************************************)
LEMMA BatchRanked ==
  ASSUME NEW b \in Batches
  PROVE  /\ Ranked(b.proposals) /\ Len(b.proposals) \in Nat /\ Len(b.proposals) > 0
         /\ b = [strategy |-> b.strategy, ordering |-> b.ordering, proposals |-> b.proposals]
<1>1. Ranked(b.proposals)
  BY BatchAssumption DEF Ranked
<1>2. Len(b.proposals) \in Nat /\ Len(b.proposals) > 0
  BY BatchAssumption, LenProperties, EmptySeq
<1>. QED
  BY <1>1, <1>2, BatchAssumption

-----------------------------------------------------------------------------
(* The next state *)

IsState(st) ==
  st = [deps |-> st.deps, status |-> st.status, known |-> st.known,
        tick |-> st.tick, history |-> st.history, owners |-> st.owners]

\* The latest entries that fit.
Recent(h) ==
  SubSeq(h, Len(h) - (IF Len(h) < MaxHistory THEN Len(h) ELSE MaxHistory) + 1, Len(h))

(***************************************************************************)
(* Advancing a state consumes ticks, replaces the owners and leaves        *)
(* obligations and knowledge alone.                                        *)
(***************************************************************************)
LEMMA AdvanceParts ==
  ASSUME NEW st, IsState(st), NEW events, NEW owners
  PROVE  LET next == Advance(st, events, owners)
         IN  /\ IsState(next)
             /\ next.deps = st.deps /\ next.status = st.status /\ next.known = st.known
             /\ next.tick = st.tick + Len(events) /\ next.owners = owners
             /\ next.history = Recent(st.history \o events)
<1>. DEFINE next == Advance(st, events, owners)
            h == Recent(st.history \o events)
            t == st.tick + Len(events)
<1>1. next = [st EXCEPT !.tick = t, !.owners = owners, !.history = h]
  BY DEF Advance, Recent
<1>2. st \in [deps : {st.deps}, status : {st.status}, known : {st.known},
              tick : {st.tick}, history : {st.history}, owners : {st.owners}]
  BY DEF IsState
<1>. HIDE DEF h, t, next
<1>3. next \in [deps : {st.deps}, status : {st.status}, known : {st.known},
                tick : {t}, history : {h}, owners : {owners}]
  BY <1>1, <1>2
<1>4. /\ next.deps = st.deps /\ next.status = st.status /\ next.known = st.known
      /\ next.tick = t /\ next.history = h /\ next.owners = owners
  BY <1>3
<1>5. IsState(next)
  BY <1>3 DEF IsState
<1>. QED
  BY <1>4, <1>5 DEF h, t, next

(***************************************************************************)
(* The history of a state: the latest ticks, in order and without a gap.   *)
(***************************************************************************)
Unbroken(history, tick) ==
  /\ history \in Seq(Nat)
  /\ Len(history) = IF tick < MaxHistory THEN tick ELSE MaxHistory
  /\ \A i \in 1..Len(history) : history[i] = tick - Len(history) + i

LEMMA HistoryAdvances ==
  ASSUME NEW tick \in Nat, NEW h, Unbroken(h, tick),
         NEW events \in Seq(Nat), \A i \in 1..Len(events) : events[i] = tick + i
  PROVE  Unbroken(Recent(h \o events), tick + Len(events))
<1>. DEFINE all == h \o events
            n == Len(all)
            m == Len(events)
            kept == IF n < MaxHistory THEN n ELSE MaxHistory
            first == n - kept + 1
            new == SubSeq(all, first, n)
<1>1. MaxHistory \in Nat /\ MaxHistory > 0
  BY OrchestrationAssumption
<1>2. /\ h \in Seq(Nat) /\ Len(h) \in Nat /\ m \in Nat
      /\ all \in Seq(Nat) /\ n = Len(h) + m
      /\ \A i \in 1..n : all[i] = IF i <= Len(h) THEN h[i] ELSE events[i - Len(h)]
  <2>1. h \in Seq(Nat) /\ Len(h) \in Nat /\ m \in Nat
    BY LenProperties DEF Unbroken
  <2>2. /\ all \in Seq(Nat) /\ Len(all) = Len(h) + Len(events)
        /\ \A i \in 1..(Len(h) + Len(events)) :
             all[i] = IF i <= Len(h) THEN h[i] ELSE events[i - Len(h)]
    BY <2>1, ConcatProperties
  <2>. HIDE DEF all
  <2>. QED
    BY <2>1, <2>2
<1>3. Len(h) = IF tick < MaxHistory THEN tick ELSE MaxHistory
  BY DEF Unbroken
<1>4. \A i \in 1..n : all[i] = tick - Len(h) + i
  <2>. TAKE i \in 1..n
  <2>1. CASE i <= Len(h)
    <3>1. i \in 1..Len(h) /\ all[i] = h[i]
      BY <1>2, <2>1
    <3>. QED
      BY <3>1 DEF Unbroken
  <2>2. CASE i > Len(h)
    <3>1. i - Len(h) \in 1..m /\ all[i] = events[i - Len(h)]
      BY <1>2, <2>2
    <3>2. all[i] = tick + (i - Len(h))
      BY <3>1
    <3>. HIDE DEF all
    <3>. QED
      BY <1>2, <3>2
  <2>. QED
    BY <1>2, <2>1, <2>2
<1>. HIDE DEF all, n, m
<1>5. /\ kept \in Nat /\ kept <= n /\ first \in Int /\ n \in Int /\ n \in Nat
      /\ first >= 1 /\ n - first + 1 = kept
      /\ kept = IF tick + m < MaxHistory THEN tick + m ELSE MaxHistory
  BY <1>1, <1>2, <1>3
<1>6. \A i \in first..n : all[i] \in Nat
  <2>1. \A i \in 1..n : all[i] \in Nat
    BY <1>2, ElementOfSeq DEF n
  <2>. QED
    BY <1>5, <2>1
<1>. HIDE DEF kept, first
<1>7. /\ new \in Seq(Nat)
      /\ Len(new) = kept
      /\ \A i \in 1..kept : new[i] = all[first + i - 1]
  <2>1. /\ new \in Seq(Nat)
        /\ Len(new) = IF first <= n THEN n - first + 1 ELSE 0
        /\ \A i \in 1..(n - first + 1) : new[i] = all[first + i - 1]
    BY <1>5, <1>6, SubSeqProperties
  <2>. HIDE DEF new
  <2>. QED
    BY <1>5, <2>1
<1>. HIDE DEF new
<1>8. \A i \in 1..kept : new[i] = (tick + m) - kept + i
  <2>. TAKE i \in 1..kept
  <2>1. first + i - 1 \in 1..n /\ first + i - 1 = n - kept + i
    BY <1>5
  <2>2. new[i] = tick - Len(h) + (n - kept + i)
    BY <1>4, <1>7, <2>1
  <2>. QED
    BY <1>2, <1>5, <2>2
<1>9. Recent(all) = new
  BY DEF Recent, new, first, kept, n
<1>. QED
  BY <1>5, <1>7, <1>8, <1>9 DEF Unbroken, all, m

(***************************************************************************)
(* The receipt of a batch: refused as a whole, or decided by the loop.     *)
(***************************************************************************)
Admissible(b) ==
  /\ b.strategy.key \in DOMAIN Schemas /\ Schemas[b.strategy.key] = b.strategy.schema
  /\ Len(b.proposals) <= MaxBatch

Final(st, b) == LET q == OrderedProposals(b) IN Loop(st, b.ordering, q)[Len(q)]

LEMMA BatchReceipt ==
  ASSUME NEW st, NEW b, Ranked(b.proposals)
  PROVE  LET r == AdmitBatch(st, b)
             ds == Final(st, b).decisions
         IN  /\ r.prior = st
             /\ Admissible(b) =>
                  /\ r.status = "processed" /\ r.decisions = ds /\ r.rejection = None
                  /\ r.next = Advance(st, [i \in DOMAIN ds |-> ds[i].tick], Final(st, b).owners)
             /\ ~ Admissible(b) =>
                  /\ r.status = "rejected" /\ r.decisions = <<>>
                  /\ r.rejection \in RejectionReasons
                  /\ r.next = Advance(st, <<st.tick + 1>>, st.owners)
<1>. DEFINE ds == Final(st, b).decisions
            next == Advance(st, [i \in DOMAIN ds |-> ds[i].tick], Final(st, b).owners)
<1>0. Len(b.proposals) \in Nat /\ MaxBatch \in Nat
  BY LenProperties, OrchestrationAssumption DEF Ranked
<1>1. CASE Admissible(b)
  <2>1. AdmitBatch(st, b) = Receipt(st, "processed", ds, None, next)
    BY <1>0, <1>1 DEF AdmitBatch, ProcessedBatch, Admissible, Final
  <2>. HIDE DEF ds, next
  <2>. QED
    BY <1>1, <2>1 DEF Receipt, next, ds
<1>2. CASE ~ Admissible(b)
  <2>1. \E reason \in RejectionReasons : AdmitBatch(st, b) = RejectedBatch(st, reason)
    <3>1. "STRATEGY_SCHEMA_NOT_ADMITTED" \in RejectionReasons
          /\ "BATCH_LIMIT_EXCEEDED" \in RejectionReasons
      BY DEF RejectionReasons
    <3>. QED
      BY <1>0, <1>2, <3>1 DEF AdmitBatch, Admissible
  <2>. QED
    BY <1>2, <2>1 DEF RejectedBatch, Receipt
<1>. QED
  BY <1>1, <1>2

-----------------------------------------------------------------------------
(* Occurrences *)

Claim(d) == [occurrence |-> d.proposal.occurrence, action |-> d.action, tick |-> d.tick]

Claiming(d) == d.status = "admitted" /\ d.proposal.occurrence # None

Claims(ds) == {Claim(d) : d \in {e \in Range(ds) : Claiming(e)}}

\* Each occurrence is claimed once, and its owner is the action that claimed it.
OnceIn(claims, owners) ==
  /\ \A x, y \in claims : x.occurrence = y.occurrence => x = y
  /\ DOMAIN owners = {x.occurrence : x \in claims}
  /\ \A x \in claims : owners[x.occurrence].action = x.action

(***************************************************************************)
(* What is written in a decision.                                          *)
(***************************************************************************)
LEMMA DecisionFields ==
  ASSUME NEW st, NEW ordering, NEW acc, NEW p
  PROVE  LET d == DecisionOn(st, ordering, acc, p)
         IN  /\ d.proposal = p /\ d.tick = TickOf(st, acc)
             /\ Admits(st, ordering, acc, p) =>
                  /\ d.status = "admitted" /\ d.action = ActionId(st, p)
                  /\ d.equivalent = None /\ d.reason = None /\ d.because = {}
             /\ Repeats(st, ordering, acc, p) =>
                  /\ d.status = "deduplicated" /\ d.action = ActionId(st, p)
                  /\ d.equivalent = acc.actions[ActionId(st, p)] /\ d.reason = None
             /\ ~ Admits(st, ordering, acc, p) /\ ~ Repeats(st, ordering, acc, p) =>
                  /\ d.status = "rejected" /\ d.action = None /\ d.equivalent = None
                  /\ d.reason \in RejectionReasons
<1>1. CASE Admits(st, ordering, acc, p)
  <2>1. ~ Repeats(st, ordering, acc, p)
    BY <1>1 DEF Admits, Repeats
  <2>. QED
    BY <1>1, <2>1 DEF DecisionOn, Decision, Passed, Refusal
<1>2. CASE Repeats(st, ordering, acc, p)
  <2>1. ~ Admits(st, ordering, acc, p)
    BY <1>2 DEF Admits, Repeats
  <2>. QED
    BY <1>2, <2>1 DEF DecisionOn, Decision, Passed, Refusal
<1>3. CASE ~ Admits(st, ordering, acc, p) /\ ~ Repeats(st, ordering, acc, p)
  <2>. DEFINE c == Cause(st, ordering, acc, p)
  <2>1. c.reason \in RejectionReasons
    <3>1. Screen(st, ordering, p) # Passed => Screen(st, ordering, p).reason \in RejectionReasons
      BY Screened
    <3>2. /\ Refusal("DUPLICATE_OCCURRENCE", {}).reason \in RejectionReasons
          /\ Refusal("OCCURRENCE_REGISTRY_FULL", {}).reason \in RejectionReasons
      BY DEF Refusal, RejectionReasons
    <3>. QED
      BY <3>1, <3>2 DEF Cause
  <2>2. DecisionOn(st, ordering, acc, p) = Rejected(p, TickOf(st, acc), c)
    BY <1>3 DEF DecisionOn
  <2>. HIDE DEF c
  <2>. QED
    BY <1>3, <2>1, <2>2 DEF Rejected, Decision
<1>. QED
  BY <1>1, <1>2, <1>3

(***************************************************************************)
(* A turn claims an occurrence that nobody owned, or claims nothing.       *)
(***************************************************************************)
LEMMA TurnClaims ==
  ASSUME NEW st, NEW ordering, NEW acc, NEW p, NEW claims, OnceIn(claims, acc.owners)
  PROVE  LET d == DecisionOn(st, ordering, acc, p)
         IN  OnceIn(claims \cup (IF Claiming(d) THEN {Claim(d)} ELSE {}),
                    OwnersAfter(st, ordering, acc, p))
<1>. DEFINE d == DecisionOn(st, ordering, acc, p)
            k == p.occurrence
            new == OwnersAfter(st, ordering, acc, p)
<1>1. CASE Admits(st, ordering, acc, p) /\ ~ Safe(p)
  <2>1. k # None
    BY <1>1, Screened DEF Admits, Safe
  <2>2. d.status = "admitted" /\ d.proposal = p /\ d.action = ActionId(st, p)
    BY <1>1, DecisionFields
  <2>. DEFINE c == Claim(d)
              owner == [action |-> ActionId(st, p), proposal |-> p]
  <2>. HIDE DEF d
  <2>3. Claiming(d) /\ c.occurrence = k /\ c.action = ActionId(st, p)
    BY <2>1, <2>2 DEF Claiming, Claim
  <2>4. k \notin DOMAIN acc.owners
    BY <1>1 DEF Admits
  <2>5. new = [x \in DOMAIN acc.owners \cup {k} |-> IF x = k THEN owner ELSE acc.owners[x]]
    BY <1>1 DEF OwnersAfter
  <2>6. owner.action = ActionId(st, p)
    OBVIOUS
  <2>7. \A x \in claims : x.occurrence \in DOMAIN acc.owners /\ x.occurrence # k
    BY <2>4 DEF OnceIn
  <2>. HIDE DEF k, c, owner, new
  <2>8. OnceIn(claims \cup {c}, new)
    <3>1. \A x, y \in claims \cup {c} : x.occurrence = y.occurrence => x = y
      BY <2>3, <2>7 DEF OnceIn
    <3>2. DOMAIN new = {x.occurrence : x \in claims \cup {c}}
      BY <2>3, <2>5 DEF OnceIn
    <3>3. \A x \in claims \cup {c} : new[x.occurrence].action = x.action
      BY <2>3, <2>5, <2>6, <2>7 DEF OnceIn
    <3>. QED
      BY <3>1, <3>2, <3>3 DEF OnceIn
  <2>. QED
    BY <2>3, <2>8 DEF c, d, new
<1>2. CASE ~(Admits(st, ordering, acc, p) /\ ~ Safe(p))
  <2>1. new = acc.owners
    BY <1>2 DEF OwnersAfter
  <2>2. ~ Claiming(d)
    <3>1. CASE Admits(st, ordering, acc, p)
      <4>1. k = None
        BY <1>2, <3>1, Screened DEF Admits, Safe
      <4>. QED
        BY <4>1, DecisionFields DEF Claiming
    <3>2. CASE ~ Admits(st, ordering, acc, p)
      <4>1. d.status \in {"deduplicated", "rejected"}
        BY <3>2, DecisionFields
      <4>. QED
        BY <4>1 DEF Claiming
    <3>. QED
      BY <3>1, <3>2
  <2>3. claims \cup (IF Claiming(d) THEN {Claim(d)} ELSE {}) = claims
    BY <2>2
  <2>. QED
    BY <2>1, <2>3
<1>. QED
  BY <1>1, <1>2

(***************************************************************************)
(* A batch adds claims to those there were, and each occurrence is still   *)
(* claimed once.                                                           *)
(***************************************************************************)
LEMMA BatchClaims ==
  ASSUME NEW st, NEW ordering, NEW q, Len(q) \in Nat,
         IsFiniteSet(DOMAIN st.owners), Cardinality(DOMAIN st.owners) <= MaxOwners,
         NEW claims, OnceIn(claims, st.owners)
  PROVE  LET acc == Loop(st, ordering, q)[Len(q)]
         IN  OnceIn(claims \cup Claims(acc.decisions), acc.owners)
<1>. DEFINE acc == Loop(st, ordering, q)
            good == {n \in 0..Len(q) : OnceIn(claims \cup Claims(acc[n].decisions), acc[n].owners)}
<1>1. /\ acc[0].decisions = <<>> /\ acc[0].owners = st.owners
      /\ \A n \in 1..Len(q) :
           /\ acc[n].decisions = Append(acc[n - 1].decisions,
                                        DecisionOn(st, ordering, acc[n - 1], q[n]))
           /\ acc[n].owners = OwnersAfter(st, ordering, acc[n - 1], q[n])
  BY LoopParts
<1>2. \A n \in 0..Len(q) : acc[n].decisions \in Seq(Range(acc[n].decisions))
  BY LoopShape DEF Shape
<1>. HIDE DEF acc
<1>3. 0 \in good
  <2>1. Claims(<<>>) = {}
    BY DEF Claims, Range
  <2>2. claims \cup Claims(acc[0].decisions) = claims
    BY <1>1, <2>1
  <2>3. OnceIn(claims \cup Claims(acc[0].decisions), acc[0].owners)
    BY <1>1, <2>2
  <2>. QED
    BY <2>3
<1>4. ASSUME NEW n \in 0..(Len(q) - 1), n \in good PROVE n + 1 \in good
  <2>. DEFINE old == acc[n]
              new == acc[n + 1]
              d == DecisionOn(st, ordering, old, q[n + 1])
              more == IF Claiming(d) THEN {Claim(d)} ELSE {}
  <2>0. n + 1 \in 1..Len(q) /\ (n + 1) - 1 = n /\ n + 1 \in 0..Len(q) /\ n \in 0..Len(q)
    OBVIOUS
  <2>1. new.decisions = Append(old.decisions, d) /\ new.owners = OwnersAfter(st, ordering, old, q[n + 1])
    BY <1>1, <2>0
  <2>2. old.decisions \in Seq(Range(old.decisions))
    BY <1>2, <2>0
  <2>3. OnceIn(claims \cup Claims(old.decisions), old.owners)
    BY <1>4
  <2>4. OnceIn((claims \cup Claims(old.decisions)) \cup more, new.owners)
    <3>. HIDE DEF old, new
    <3>. QED
      BY <2>1, <2>3, TurnClaims
  <2>. HIDE DEF old, new, d
  <2>5. Range(new.decisions) = Range(old.decisions) \cup {d}
    BY <2>1, <2>2, Appending
  <2>6. Claims(new.decisions) = Claims(old.decisions) \cup more
    BY <2>5 DEF Claims
  <2>7. claims \cup Claims(new.decisions) = (claims \cup Claims(old.decisions)) \cup more
    <3>. HIDE DEF more
    <3>. QED
      BY <2>6
  <2>. QED
    BY <2>0, <2>4, <2>7 DEF new
<1>5. \A n \in 0..Len(q) : n \in good
  <2>. HIDE DEF good
  <2>1. \A n \in 0..(Len(q) - 1) : n \in good => n + 1 \in good
    BY <1>4
  <2>. QED
    BY <1>3, <2>1, UpTo
<1>6. Len(q) \in 0..Len(q)
  OBVIOUS
<1>7. OnceIn(claims \cup Claims(acc[Len(q)].decisions), acc[Len(q)].owners)
  BY <1>5, <1>6
<1>. QED
  BY <1>7 DEF acc

-----------------------------------------------------------------------------
(* The invariant *)

\* What every orchestration state satisfies, however it was reached.
Sound(st) ==
  /\ IsState(st) /\ st.deps \in [Obligations -> SUBSET Obligations]
  /\ st.status \in [Obligations -> Statuses] /\ st.known \in [StateKeys -> Records]
  /\ ValidRegistry(st.deps, st.status) /\ ValidKnowledge(st.known)
  /\ st.tick \in Nat /\ Unbroken(st.history, st.tick)
  /\ IsFiniteSet(DOMAIN st.owners) /\ Cardinality(DOMAIN st.owners) <= MaxOwners

OrchInv ==
  Sound(orch) /\ orch.tick <= MaxTick + MaxBatch /\ OccurrenceOnce

(***************************************************************************)
(* What the loop leaves of a processed batch: a decision for each          *)
(* proposal, at the tick after the one before it.                          *)
(***************************************************************************)
LEMMA BatchDecided ==
  ASSUME NEW st, NEW b, Ranked(b.proposals), st.tick \in Nat,
         IsFiniteSet(DOMAIN st.owners), Cardinality(DOMAIN st.owners) <= MaxOwners
  PROVE  LET q  == OrderedProposals(b)
             ds == Final(st, b).decisions
         IN  /\ Len(q) \in Nat /\ Len(q) = Len(b.proposals)
             /\ ds \in Seq(Range(ds)) /\ Len(ds) = Len(q) /\ DOMAIN ds = 1..Len(q)
             /\ \A i \in 1..Len(q) :
                  /\ ds[i] = DecisionOn(st, b.ordering, Loop(st, b.ordering, q)[i - 1], q[i])
                  /\ ds[i].tick = st.tick + i
             /\ IsFiniteSet(DOMAIN Final(st, b).owners)
             /\ Cardinality(DOMAIN Final(st, b).owners) <= MaxOwners
<1>. DEFINE q == OrderedProposals(b)
            acc == Loop(st, b.ordering, q)
            ds == Final(st, b).decisions
<1>1. Len(q) \in Nat /\ Len(q) = Len(b.proposals)
  BY OrderedShape
<1>2. \A n \in 0..Len(q) : Shape(st, b.ordering, q, n)
  BY <1>1, LoopShape
<1>3. Final(st, b) = acc[Len(q)]
  BY DEF Final
<1>4. Len(q) \in 0..Len(q)
  BY <1>1
<1>5. /\ ds \in Seq(Range(ds)) /\ Len(ds) = Len(q)
      /\ \A i \in 1..Len(q) : ds[i] = DecisionOn(st, b.ordering, acc[i - 1], q[i])
      /\ IsFiniteSet(DOMAIN Final(st, b).owners)
      /\ Cardinality(DOMAIN Final(st, b).owners) <= MaxOwners
  BY <1>2, <1>3, <1>4 DEF Shape
<1>6. DOMAIN ds = 1..Len(q)
  <2>. HIDE DEF ds
  <2>. QED
    BY <1>5, LenProperties
<1>7. ASSUME NEW i \in 1..Len(q) PROVE ds[i].tick = st.tick + i
  <2>1. i - 1 \in 0..Len(q) /\ i \in Nat
    BY <1>1
  <2>2. Len(acc[i - 1].decisions) = i - 1
    BY <1>2, <2>1 DEF Shape
  <2>3. ds[i].tick = TickOf(st, acc[i - 1])
    <3>. HIDE DEF ds, acc
    <3>. QED
      BY <1>5, DecisionFields
  <2>4. TickOf(st, acc[i - 1]) = st.tick + (i - 1) + 1
    BY <2>2 DEF TickOf
  <2>. QED
    BY <2>1, <2>3, <2>4
<1>. HIDE DEF ds, acc, q
<1>. QED
  BY <1>1, <1>5, <1>6, <1>7 DEF ds, acc, q

(***************************************************************************)
(* A batch, processed or rejected, leaves a sound state some ticks later   *)
(* with the same obligations and knowledge.                                *)
(***************************************************************************)
LEMMA BatchAdvances ==
  ASSUME NEW st, Sound(st), NEW b, Ranked(b.proposals), Len(b.proposals) > 0
  PROVE  LET next == AdmitBatch(st, b).next
         IN  /\ Sound(next)
             /\ next.deps = st.deps /\ next.status = st.status /\ next.known = st.known
             /\ next.tick = st.tick + (IF Admissible(b) THEN Len(b.proposals) ELSE 1)
             /\ next.tick <= st.tick + MaxBatch
             /\ next.owners = IF Admissible(b) THEN Final(st, b).owners ELSE st.owners
<1>. DEFINE next == AdmitBatch(st, b).next
<1>0. MaxBatch \in Nat /\ MaxBatch > 0 /\ st.tick \in Nat
  BY OrchestrationAssumption DEF Sound
<1>1. ASSUME NEW events \in Seq(Nat), \A i \in 1..Len(events) : events[i] = st.tick + i,
             NEW owners, IsFiniteSet(DOMAIN owners), Cardinality(DOMAIN owners) <= MaxOwners,
             next = Advance(st, events, owners)
      PROVE  /\ Sound(next)
             /\ next.deps = st.deps /\ next.status = st.status /\ next.known = st.known
             /\ next.tick = st.tick + Len(events) /\ next.owners = owners
  <2>1. /\ IsState(next)
        /\ next.deps = st.deps /\ next.status = st.status /\ next.known = st.known
        /\ next.tick = st.tick + Len(events) /\ next.owners = owners
        /\ next.history = Recent(st.history \o events)
    BY <1>1, AdvanceParts DEF Sound
  <2>2. Unbroken(next.history, next.tick)
    <3>. HIDE DEF next
    <3>. QED
      BY <1>0, <1>1, <2>1, HistoryAdvances DEF Sound
  <2>3. next.tick \in Nat
    BY <1>0, <2>1, LenProperties
  <2>. HIDE DEF next
  <2>. QED
    BY <1>1, <2>1, <2>2, <2>3 DEF Sound
<1>2. CASE Admissible(b)
  <2>. DEFINE ds == Final(st, b).decisions
              events == [i \in DOMAIN ds |-> ds[i].tick]
  <2>1. /\ Len(b.proposals) \in Nat /\ Len(ds) = Len(b.proposals)
        /\ DOMAIN ds = 1..Len(b.proposals)
        /\ \A i \in 1..Len(b.proposals) : ds[i].tick = st.tick + i
        /\ IsFiniteSet(DOMAIN Final(st, b).owners)
        /\ Cardinality(DOMAIN Final(st, b).owners) <= MaxOwners
    <3>1. IsFiniteSet(DOMAIN st.owners) /\ Cardinality(DOMAIN st.owners) <= MaxOwners
      BY DEF Sound
    <3>2. /\ Len(OrderedProposals(b)) \in Nat /\ Len(OrderedProposals(b)) = Len(b.proposals)
          /\ Len(ds) = Len(OrderedProposals(b)) /\ DOMAIN ds = 1..Len(OrderedProposals(b))
          /\ \A i \in 1..Len(OrderedProposals(b)) : ds[i].tick = st.tick + i
          /\ IsFiniteSet(DOMAIN Final(st, b).owners)
          /\ Cardinality(DOMAIN Final(st, b).owners) <= MaxOwners
      BY <1>0, <3>1, BatchDecided
    <3>. QED
      BY <3>2
  <2>2. next = Advance(st, events, Final(st, b).owners)
    BY <1>2, BatchReceipt
  <2>. HIDE DEF ds
  <2>3. \A i \in 1..Len(b.proposals) : ds[i].tick \in Nat
    BY <1>0, <2>1
  <2>4. events \in Seq(Nat) /\ Len(events) = Len(b.proposals)
    BY <2>1, <2>3, IsASeq, LenProperties
  <2>5. \A i \in 1..Len(events) : events[i] = st.tick + i
    BY <2>1, <2>4
  <2>. HIDE DEF events, next
  <2>6. /\ Sound(next)
        /\ next.deps = st.deps /\ next.status = st.status /\ next.known = st.known
        /\ next.tick = st.tick + Len(events) /\ next.owners = Final(st, b).owners
    BY <1>1, <2>1, <2>2, <2>4, <2>5
  <2>7. Len(b.proposals) <= MaxBatch
    BY <1>2 DEF Admissible
  <2>. QED
    BY <1>0, <1>2, <2>1, <2>4, <2>6, <2>7 DEF next
<1>3. CASE ~ Admissible(b)
  <2>. DEFINE events == <<st.tick + 1>>
  <2>1. next = Advance(st, events, st.owners)
    <3>1. ~ Admissible(b) => next = Advance(st, <<st.tick + 1>>, st.owners)
      BY BatchReceipt, Zenon
    <3>. QED
      BY <1>3, <3>1
  <2>2. events \in Seq(Nat) /\ Len(events) = 1 /\ events[1] = st.tick + 1
    <3>1. st.tick + 1 \in Nat
      BY <1>0
    <3>. QED
      BY <3>1
  <2>3. \A i \in 1..Len(events) : events[i] = st.tick + i
    BY <2>2
  <2>. HIDE DEF events, next
  <2>4. /\ Sound(next)
        /\ next.deps = st.deps /\ next.status = st.status /\ next.known = st.known
        /\ next.tick = st.tick + Len(events) /\ next.owners = st.owners
    BY <1>1, <2>1, <2>2, <2>3 DEF Sound
  <2>. QED
    BY <1>0, <1>3, <2>2, <2>4 DEF next
<1>. QED
  BY <1>2, <1>3

(***************************************************************************)
(* The smaller of two numbers.                                             *)
(***************************************************************************)
LEMMA Smaller ==
  ASSUME NEW a \in Nat, NEW c \in Nat
  PROVE  Min({a, c}) = IF a < c THEN a ELSE c
<1>. DEFINE m == IF a < c THEN a ELSE c
            Least(x) == x \in {a, c} /\ \A y \in {a, c} : x <= y
<1>1. Least(m) /\ \A x : Least(x) => x = m
  OBVIOUS
<1>2. Min({a, c}) = CHOOSE x : Least(x)
  BY Zenon DEF Min
<1>3. Least(CHOOSE x : Least(x))
  <2>. HIDE DEF Least, m
  <2>. QED
    BY <1>1, Zenon
<1>. HIDE DEF Least, m
<1>4. Min({a, c}) = m
  BY <1>1, <1>2, <1>3
<1>. QED
  BY <1>4 DEF m

(***************************************************************************)
(* A host starts with nothing satisfied, nothing known and nothing owned.  *)
(***************************************************************************)
LEMMA StartsSound == InitOrchestration => OrchInv
<1>. SUFFICES ASSUME InitOrchestration PROVE OrchInv
  OBVIOUS
<1>. DEFINE pending == [o \in Obligations |-> "unsatisfied"]
            blank == [k \in StateKeys |-> NoRecord]
<1>1. PICK deps \in Graphs :
        /\ ValidRegistry(deps, pending)
        /\ orch = [deps |-> deps, status |-> pending, known |-> blank,
                   tick |-> 0, history |-> <<>>, owners |-> <<>>]
  BY DEF InitOrchestration
<1>2. taken = {}
  BY DEF InitOrchestration
<1>3. pending \in [Obligations -> Statuses]
  BY DEF Statuses
<1>4. blank \in [StateKeys -> Records]
  BY DEF Records
<1>5. ValidKnowledge(blank)
  BY DEF ValidKnowledge, Dependencies, NoRecord
<1>. HIDE DEF pending, blank
<1>6. /\ orch.deps = deps /\ orch.status = pending /\ orch.known = blank
      /\ orch.tick = 0 /\ orch.history = <<>> /\ orch.owners = <<>>
  BY <1>1
<1>7. IsState(orch)
  BY <1>1, <1>6 DEF IsState
<1>8. Unbroken(<<>>, 0)
  <2>1. MaxHistory \in Nat /\ MaxHistory > 0
    BY OrchestrationAssumption
  <2>. QED
    BY <2>1 DEF Unbroken
<1>9. DOMAIN <<>> = {} /\ IsFiniteSet({}) /\ Cardinality({}) = 0
  BY FS_EmptySet
<1>10. MaxOwners \in Nat /\ MaxTick \in Nat /\ MaxBatch \in Nat
  BY OrchestrationAssumption
<1>11. Sound(orch)
  BY <1>1, OrchestrationAssumption, <1>3, <1>4, <1>5, <1>6, <1>7, <1>8, <1>9, <1>10 DEF Sound
<1>12. OccurrenceOnce
  BY <1>2, <1>6, <1>9 DEF OccurrenceOnce
<1>. QED
  BY <1>6, <1>10, <1>11, <1>12 DEF OrchInv

(***************************************************************************)
(* Nothing a host or a supervisor does disturbs it.                        *)
(***************************************************************************)
LEMMA StaysSound == OrchInv /\ [NextOrchestration]_orchVars => OrchInv'
<1>. SUFFICES ASSUME OrchInv, [NextOrchestration]_orchVars PROVE OrchInv'
  OBVIOUS
<1>0. MaxOwners \in Nat /\ MaxTick \in Nat /\ MaxBatch \in Nat /\ orch.tick \in Nat
  BY OrchestrationAssumption DEF OrchInv, Sound
<1>1. ASSUME NEW b \in Batches, Admit(b) PROVE OrchInv'
  <2>. DEFINE r == AdmitBatch(orch, b)
  <2>1. orch.tick < MaxTick /\ orch' = r.next /\ taken' = taken \cup Claims(r.decisions)
    BY <1>1 DEF Admit, OccurrenceAdmissions, Claims, Claim, Claiming
  <2>2. Ranked(b.proposals) /\ Len(b.proposals) > 0 /\ Sound(orch)
    BY BatchRanked DEF OrchInv
  <2>3. /\ Sound(r.next) /\ r.next.tick <= orch.tick + MaxBatch
        /\ r.next.owners = IF Admissible(b) THEN Final(orch, b).owners ELSE orch.owners
    BY <2>2, BatchAdvances, Zenon
  <2>4. r.next.tick <= MaxTick + MaxBatch
    <3>1. r.next.tick \in Nat
      BY <2>3 DEF Sound
    <3>. HIDE DEF r
    <3>. QED
      BY <1>0, <2>1, <2>3, <3>1
  <2>5. OnceIn(taken, orch.owners)
    BY DEF OrchInv, OccurrenceOnce, OnceIn
  <2>6. OnceIn(taken \cup Claims(r.decisions), r.next.owners)
    <3>1. CASE Admissible(b)
      <4>. DEFINE q == OrderedProposals(b)
                  last == Loop(orch, b.ordering, q)[Len(q)]
      <4>1. Len(q) \in Nat
        BY <2>2, OrderedShape, Zenon
      <4>2. IsFiniteSet(DOMAIN orch.owners) /\ Cardinality(DOMAIN orch.owners) <= MaxOwners
        BY <2>2 DEF Sound
      <4>. HIDE DEF q
      <4>3. OnceIn(taken \cup Claims(last.decisions), last.owners)
        BY <2>5, <4>1, <4>2, BatchClaims
      <4>4. Final(orch, b) = last
        BY DEF Final, q
      <4>5. r.decisions = Final(orch, b).decisions
        BY <2>2, <3>1, BatchReceipt, ZenonT(40)
      <4>. QED
        BY <2>3, <3>1, <4>3, <4>4, <4>5
    <3>2. CASE ~ Admissible(b)
      <4>1. r.decisions = <<>>
        BY <2>2, <3>2, BatchReceipt, ZenonT(40)
      <4>2. Claims(<<>>) = {}
        BY DEF Claims, Range
      <4>3. taken \cup Claims(r.decisions) = taken
        BY <4>1, <4>2
      <4>. QED
        BY <2>3, <2>5, <3>2, <4>3
    <3>. QED
      BY <3>1, <3>2
  <2>. HIDE DEF r
  <2>7. OccurrenceOnce'
    BY <2>1, <2>6 DEF OccurrenceOnce, OnceIn
  <2>. QED
    BY <2>1, <2>3, <2>4, <2>7 DEF OrchInv
<1>2. ASSUME NEW o \in Obligations, NEW s \in Statuses, WithStatus(o, s) PROVE OrchInv'
  <2>. DEFINE status == [orch.status EXCEPT ![o] = s]
              next == [orch EXCEPT !.status = status]
  <2>1. ValidRegistry(orch.deps, status) /\ orch' = next /\ taken' = taken
    BY <1>2 DEF WithStatus
  <2>2. status \in [Obligations -> Statuses]
    BY DEF OrchInv, Sound
  <2>. HIDE DEF status
  <2>3. orch = [deps |-> orch.deps, status |-> orch.status, known |-> orch.known,
                tick |-> orch.tick, history |-> orch.history, owners |-> orch.owners]
    BY DEF OrchInv, Sound, IsState
  <2>4. next = [deps |-> orch.deps, status |-> status, known |-> orch.known,
                tick |-> orch.tick, history |-> orch.history, owners |-> orch.owners]
    BY <2>3
  <2>. HIDE DEF next
  <2>5. /\ orch'.deps = orch.deps /\ orch'.status = status /\ orch'.known = orch.known
        /\ orch'.tick = orch.tick /\ orch'.history = orch.history /\ orch'.owners = orch.owners
    BY <2>1, <2>4
  <2>6. IsState(orch')
    BY <2>1, <2>4, <2>5 DEF IsState
  <2>7. Sound(orch')
    BY <2>1, <2>2, <2>5, <2>6 DEF OrchInv, Sound
  <2>8. OccurrenceOnce'
    BY <2>1, <2>5 DEF OrchInv, OccurrenceOnce
  <2>. QED
    BY <2>5, <2>7, <2>8 DEF OrchInv
<1>3. ASSUME NEW k \in StateKeys, NEW record \in Records, Learn(k, record) PROVE OrchInv'
  <2>. DEFINE known == [orch.known EXCEPT ![k] = record]
              next == [orch EXCEPT !.known = known]
  <2>1. ValidKnowledge(known) /\ orch' = next /\ taken' = taken
    BY <1>3 DEF Learn
  <2>2. known \in [StateKeys -> Records]
    BY DEF OrchInv, Sound
  <2>. HIDE DEF known
  <2>3. orch = [deps |-> orch.deps, status |-> orch.status, known |-> orch.known,
                tick |-> orch.tick, history |-> orch.history, owners |-> orch.owners]
    BY DEF OrchInv, Sound, IsState
  <2>4. next = [deps |-> orch.deps, status |-> orch.status, known |-> known,
                tick |-> orch.tick, history |-> orch.history, owners |-> orch.owners]
    BY <2>3
  <2>. HIDE DEF next
  <2>5. /\ orch'.deps = orch.deps /\ orch'.status = orch.status /\ orch'.known = known
        /\ orch'.tick = orch.tick /\ orch'.history = orch.history /\ orch'.owners = orch.owners
    BY <2>1, <2>4
  <2>6. IsState(orch')
    BY <2>1, <2>4, <2>5 DEF IsState
  <2>7. Sound(orch')
    BY <2>1, <2>2, <2>5, <2>6 DEF OrchInv, Sound
  <2>8. OccurrenceOnce'
    BY <2>1, <2>5 DEF OrchInv, OccurrenceOnce
  <2>. QED
    BY <2>5, <2>7, <2>8 DEF OrchInv
<1>4. CASE UNCHANGED orchVars
  BY <1>4 DEF orchVars, OrchInv, OccurrenceOnce
<1>. QED
  BY <1>1, <1>2, <1>3, <1>4 DEF NextOrchestration

(***************************************************************************)
(* The orchestration state is sound, and the admissions there have been    *)
(* are those its owners record, whatever the host and the supervisor do.   *)
(***************************************************************************)
THEOREM OrchestrationInvariant == SpecOrchestration => []OrchInv
<1>1. OrchInv /\ [NextOrchestration]_orchVars => OrchInv'
  BY StaysSound
<1>. QED
  BY StartsSound, <1>1, PTL DEF SpecOrchestration

(***************************************************************************)
(* The state stays within the limits its constructor checks, and its       *)
(* history is the unbroken run of the latest ticks.                        *)
(***************************************************************************)
THEOREM OrchestrationTypes == SpecOrchestration => []TypeOKOrchestration
<1>1. OrchInv => TypeOKOrchestration
  <2>. SUFFICES ASSUME OrchInv PROVE TypeOKOrchestration
    OBVIOUS
  <2>1. Sound(orch) /\ orch.tick \in Nat /\ orch.tick <= MaxTick + MaxBatch
    BY DEF OrchInv, Sound
  <2>2. MaxTick \in Nat /\ MaxBatch \in Nat /\ MaxHistory \in Nat
    BY OrchestrationAssumption
  <2>3. orch.tick \in 0..(MaxTick + MaxBatch)
    BY <2>1, <2>2
  <2>4. Unbroken(orch.history, orch.tick)
    BY <2>1 DEF Sound
  <2>5. Len(orch.history) = Min({orch.tick, MaxHistory})
    BY <2>1, <2>2, <2>4, Smaller DEF Unbroken
  <2>6. DOMAIN orch.history = 1..Len(orch.history)
    BY <2>4, LenProperties DEF Unbroken
  <2>7. \A i \in DOMAIN orch.history : orch.history[i] = orch.tick - Len(orch.history) + i
    BY <2>4, <2>6 DEF Unbroken
  <2>. QED
    BY <2>1, <2>3, <2>5, <2>7 DEF Sound, TypeOKOrchestration
<1>. QED
  BY <1>1, OrchestrationInvariant, PTL

(***************************************************************************)
(* An occurrence key is admitted once, however batches are cut, rejected   *)
(* or repeated, and its owner is the action it was admitted for.           *)
(***************************************************************************)
THEOREM OccurrenceSafety == SpecOrchestration => []OccurrenceOnce
<1>1. OrchInv => OccurrenceOnce
  BY DEF OrchInv
<1>. QED
  BY <1>1, OrchestrationInvariant, PTL

-----------------------------------------------------------------------------
(* What an admission rests on *)

(***************************************************************************)
(* What is reached grows from where it starts by what the edges of its     *)
(* members lead to.                                                        *)
(***************************************************************************)
LEMMA ReachedSteps ==
  ASSUME NEW from, NEW edges, Cardinality(DOMAIN edges) \in Nat
  PROVE  \E f : /\ f[0] = from
                /\ \A n \in 1..Cardinality(DOMAIN edges) :
                     f[n] = f[n - 1] \cup UNION {edges[k] : k \in f[n - 1]}
                /\ Reached(from, edges) = f[Cardinality(DOMAIN edges)]
<1>. DEFINE m == Cardinality(DOMAIN edges)
            More(S) == S \cup UNION {edges[k] : k \in S}
            Steps(g, n) == g = [i \in 0..n |-> IF i = 0 THEN from ELSE More(g[i - 1])]
            good == {n \in Nat : \E g : Steps(g, n)}
<1>1. 0 \in good
  <2>. DEFINE g == [i \in 0..0 |-> from]
  <2>1. g = [i \in 0..0 |-> IF i = 0 THEN from ELSE More(g[i - 1])]
    OBVIOUS
  <2>. QED
    BY <2>1
<1>2. ASSUME NEW n \in Nat, n \in good PROVE n + 1 \in good
  <2>. HIDE DEF More
  <2>1. PICK g : Steps(g, n)
    BY <1>2
  <2>. DEFINE h == [i \in 0..(n + 1) |-> IF i \in 0..n THEN g[i] ELSE More(g[n])]
  <2>2. \A i \in 0..n : h[i] = g[i]
    OBVIOUS
  <2>3. h[n + 1] = More(g[n])
    OBVIOUS
  <2>4. \A i \in 0..n : g[i] = IF i = 0 THEN from ELSE More(g[i - 1])
    BY <2>1
  <2>5. \A i \in 0..(n + 1) : h[i] = IF i = 0 THEN from ELSE More(h[i - 1])
    <3>. TAKE i \in 0..(n + 1)
    <3>1. CASE i \in 0..n
      <4>1. i # 0 => i - 1 \in 0..n
        BY <3>1
      <4>. HIDE DEF h
      <4>. QED
        BY <2>2, <2>4, <3>1, <4>1
    <3>2. CASE i = n + 1
      <4>1. i # 0 /\ i - 1 = n /\ n \in 0..n
        BY <3>2
      <4>. HIDE DEF h
      <4>. QED
        BY <2>2, <2>3, <3>2, <4>1
    <3>. QED
      BY <3>1, <3>2
  <2>6. h = [i \in 0..(n + 1) |-> h[i]]
    OBVIOUS
  <2>7. Steps(h, n + 1)
    <3>. HIDE DEF h
    <3>. QED
      BY <2>5, <2>6
  <2>8. n + 1 \in Nat
    OBVIOUS
  <2>. HIDE DEF h, Steps
  <2>. QED
    BY <2>7, <2>8
<1>3. m \in good
  <2>1. \A n \in 0..m : n \in good
    <3>. HIDE DEF good
    <3>1. \A n \in 0..(m - 1) : n \in good => n + 1 \in good
      BY <1>2
    <3>. QED
      BY <1>1, <3>1, UpTo
  <2>2. m \in 0..m
    OBVIOUS
  <2>. HIDE DEF good, m
  <2>. QED
    BY <2>1, <2>2
<1>. DEFINE f == CHOOSE g : Steps(g, m)
<1>4. Steps(f, m)
  BY <1>3
<1>5. Reached(from, edges) = f[m]
  BY DEF Reached
<1>. HIDE DEF f
<1>6. f[0] = from /\ \A n \in 1..m : f[n] = More(f[n - 1])
  <2>. HIDE DEF More
  <2>1. \A n \in 0..m : f[n] = IF n = 0 THEN from ELSE More(f[n - 1])
    BY <1>4
  <2>. QED
    BY <2>1
<1>. QED
  BY <1>5, <1>6

(***************************************************************************)
(* What is reached contains the start and is closed under the edges; and   *)
(* it stays within any set that contains the start and is closed.          *)
(***************************************************************************)
LEMMA ReachedClosed ==
  ASSUME NEW nodes, IsFiniteSet(nodes), NEW edges \in [nodes -> SUBSET nodes],
         NEW from \in SUBSET nodes
  PROVE  /\ from \subseteq Reached(from, edges) /\ Reached(from, edges) \subseteq nodes
         /\ \A k \in Reached(from, edges) : edges[k] \subseteq Reached(from, edges)
         /\ \A S \in SUBSET nodes : from \subseteq S /\ (\A k \in S : edges[k] \subseteq S)
                                      => Reached(from, edges) \subseteq S
<1>. DEFINE m == Cardinality(nodes)
            More(S) == S \cup UNION {edges[k] : k \in S}
<1>1. m \in Nat /\ DOMAIN edges = nodes
  BY FS_CardinalityType
<1>2. PICK f : /\ f[0] = from
               /\ \A n \in 1..m : f[n] = f[n - 1] \cup UNION {edges[k] : k \in f[n - 1]}
               /\ Reached(from, edges) = f[m]
  <2>1. Cardinality(DOMAIN edges) \in Nat
    BY <1>1
  <2>2. PICK g : /\ g[0] = from
                 /\ \A n \in 1..Cardinality(DOMAIN edges) :
                      g[n] = g[n - 1] \cup UNION {edges[k] : k \in g[n - 1]}
                 /\ Reached(from, edges) = g[Cardinality(DOMAIN edges)]
    BY <2>1, ReachedSteps, ZenonT(40)
  <2>3. Cardinality(DOMAIN edges) = m
    BY <1>1
  <2>. HIDE DEF m
  <2>. QED
    BY <2>2, <2>3
<1>3. \A n \in 0..(m - 1) : f[n + 1] = More(f[n])
  <2>. HIDE DEF m
  <2>. TAKE n \in 0..(m - 1)
  <2>1. n + 1 \in 1..m /\ (n + 1) - 1 = n
    BY <1>1
  <2>. QED
    BY <1>2, <2>1
<1>4. \A S \in SUBSET nodes : S \subseteq More(S) /\ More(S) \in SUBSET nodes
  OBVIOUS
<1>5. ASSUME NEW S \in SUBSET nodes, from \subseteq S, \A k \in S : edges[k] \subseteq S
      PROVE  \A n \in 0..m : f[n] \subseteq S
  <2>. DEFINE good == {n \in 0..m : f[n] \subseteq S}
  <2>. HIDE DEF m
  <2>1. 0 \in good
    BY <1>1, <1>2, <1>5
  <2>2. ASSUME NEW n \in 0..(m - 1), n \in good PROVE n + 1 \in good
    <3>1. f[n + 1] = More(f[n]) /\ f[n] \subseteq S
      BY <1>3, <2>2
    <3>2. More(f[n]) \subseteq S
      BY <1>5, <3>1
    <3>. QED
      BY <1>1, <3>1, <3>2
  <2>3. \A n \in 0..m : n \in good
    <3>. HIDE DEF good
    <3>. QED
      BY <1>1, <2>1, <2>2, UpTo
  <2>. QED
    BY <2>3
<1>6. \A n \in 0..m : f[n] \subseteq nodes
  BY <1>5
<1>. DEFINE Size(n) == Cardinality(f[n])
            good == {n \in 0..m : /\ from \subseteq f[n]
                                  /\ More(f[n]) = f[n] \/ Size(n) > n}
<1>7. \A n \in 0..m : IsFiniteSet(f[n]) /\ Size(n) \in Nat /\ Size(n) <= m
  <2>. TAKE n \in 0..m
  <2>1. f[n] \subseteq nodes
    BY <1>6
  <2>. QED
    BY <2>1, FS_Subset, FS_CardinalityType
<1>8. 0 \in good
  <2>1. from = {} => More(from) = from
    OBVIOUS
  <2>2. from # {} => Cardinality(from) > 0
    <3>1. IsFiniteSet(from)
      BY FS_Subset
    <3>2. Cardinality(from) \in Nat /\ (Cardinality(from) = 0 <=> from = {})
      BY <3>1, FS_CardinalityType, FS_EmptySet
    <3>. QED
      BY <3>2
  <2>. HIDE DEF More, m
  <2>. QED
    BY <1>1, <1>2, <2>1, <2>2
<1>9. ASSUME NEW n \in 0..(m - 1), n \in good PROVE n + 1 \in good
  <2>0. n \in 0..m /\ n + 1 \in 0..m /\ n \in Nat
    <3>. HIDE DEF m
    <3>. QED
      BY <1>1
  <2>1. f[n + 1] = More(f[n]) /\ f[n] \subseteq f[n + 1] /\ from \subseteq f[n + 1]
    <3>1. f[n] \in SUBSET nodes
      BY <1>6, <2>0
    <3>2. f[n + 1] = More(f[n]) /\ f[n] \subseteq More(f[n])
      BY <1>3, <1>4, <3>1, <1>9
    <3>. HIDE DEF More
    <3>. QED
      BY <3>2, <1>9
  <2>2. CASE More(f[n]) = f[n]
    <3>1. f[n + 1] = f[n]
      BY <2>1, <2>2
    <3>2. More(f[n + 1]) = f[n + 1]
      BY <2>2, <3>1
    <3>. HIDE DEF More, m
    <3>. QED
      BY <2>0, <2>1, <3>2
  <2>3. CASE More(f[n]) # f[n] /\ Size(n) > n
    <3>1. f[n + 1] # f[n]
      BY <2>1, <2>3
    <3>2. /\ IsFiniteSet(f[n + 1]) /\ Size(n) \in Nat /\ Size(n + 1) \in Nat
      BY <1>7, <2>0
    <3>3. Size(n) < Size(n + 1)
      BY <2>1, <3>1, <3>2, FS_Subset
    <3>4. Size(n + 1) > n + 1
      <4>. HIDE DEF Size
      <4>. QED
        BY <2>0, <2>3, <3>2, <3>3
    <3>. HIDE DEF More, m, Size
    <3>. QED
      BY <2>0, <2>1, <3>4
  <2>. HIDE DEF More, Size
  <2>. QED
    BY <1>9, <2>2, <2>3
<1>10. m \in good
  <2>1. \A n \in 0..m : n \in good
    <3>. HIDE DEF good, m
    <3>. QED
      BY <1>1, <1>8, <1>9, UpTo
  <2>2. m \in 0..m
    <3>. HIDE DEF m
    <3>. QED
      BY <1>1
  <2>. QED
    BY <2>1, <2>2
<1>11. from \subseteq f[m] /\ More(f[m]) = f[m] /\ f[m] \subseteq nodes
  <2>1. m \in 0..m
    <3>. HIDE DEF m
    <3>. QED
      BY <1>1
  <2>2. Size(m) \in Nat /\ Size(m) <= m /\ f[m] \subseteq nodes
    BY <1>6, <1>7, <2>1
  <2>. HIDE DEF More, Size, m
  <2>. QED
    BY <1>1, <1>10, <2>2
<1>12. \A k \in f[m] : edges[k] \subseteq f[m]
  BY <1>11
<1>13. \A S \in SUBSET nodes : from \subseteq S /\ (\A k \in S : edges[k] \subseteq S)
                                 => f[m] \subseteq S
  <2>1. m \in 0..m
    <3>. HIDE DEF m
    <3>. QED
      BY <1>1
  <2>. QED
    BY <1>5, <2>1
<1>. HIDE DEF m, More
<1>. QED
  BY <1>2, <1>11, <1>12, <1>13

(***************************************************************************)
(* The records a digest binds: those of the keys and of everything they    *)
(* are derived from, all resolved when those of the keys are.              *)
(***************************************************************************)
LEMMA DigestBinds ==
  ASSUME NEW st, Sound(st), NEW keys \in SUBSET StateKeys
  PROVE  LET digest == DependencyDigest(st.known, keys)
         IN  /\ DOMAIN digest \in SUBSET StateKeys /\ digest \in [DOMAIN digest -> Records]
             /\ keys \subseteq DOMAIN digest
             /\ \A k \in DOMAIN digest : /\ digest[k] = st.known[k]
                                         /\ Dependencies(st.known, k) \subseteq DOMAIN digest
             /\ (\A k \in keys : IsResolved(st.known[k]))
                  => \A k \in DOMAIN digest : IsResolved(digest[k])
<1>. DEFINE edges == [d \in StateKeys |-> Dependencies(st.known, d)]
            all == Reached(keys, edges)
            digest == DependencyDigest(st.known, keys)
            resolved == {k \in StateKeys : IsResolved(st.known[k])}
<1>1. IsFiniteSet(StateKeys) /\ DerivedFrom \in [StateKeys -> SUBSET StateKeys]
  BY OrchestrationAssumption
<1>2. edges \in [StateKeys -> SUBSET StateKeys]
  BY <1>1 DEF Dependencies
<1>3. \A k \in StateKeys : edges[k] = Dependencies(st.known, k)
  OBVIOUS
<1>4. digest = [k \in all |-> st.known[k]]
  BY DEF DependencyDigest
<1>. HIDE DEF edges
<1>5. /\ keys \subseteq all /\ all \subseteq StateKeys
      /\ \A k \in all : edges[k] \subseteq all
      /\ \A S \in SUBSET StateKeys : keys \subseteq S /\ (\A k \in S : edges[k] \subseteq S)
                                       => all \subseteq S
  BY <1>1, <1>2, ReachedClosed
<1>. HIDE DEF all, digest
<1>6. DOMAIN digest = all /\ \A k \in all : digest[k] = st.known[k]
  BY <1>4
<1>7. st.known \in [StateKeys -> Records] /\ ValidKnowledge(st.known)
  BY DEF Sound
<1>8. digest \in [all -> Records]
  BY <1>4, <1>5, <1>7
<1>9. ASSUME \A k \in keys : IsResolved(st.known[k]) PROVE all \subseteq resolved
  <2>1. keys \subseteq resolved
    BY <1>9
  <2>2. \A k \in StateKeys : edges[k] \subseteq resolved
    BY <1>2, <1>3, <1>7 DEF ValidKnowledge
  <2>3. resolved \in SUBSET StateKeys /\ \A k \in resolved : edges[k] \subseteq resolved
    BY <2>2
  <2>. HIDE DEF resolved
  <2>. QED
    BY <1>5, <2>1, <2>3
<1>10. (\A k \in keys : IsResolved(st.known[k])) => \A k \in all : IsResolved(digest[k])
  BY <1>6, <1>9
<1>11. \A k \in all : Dependencies(st.known, k) \subseteq all
  BY <1>3, <1>5
<1>. QED
  BY <1>5, <1>6, <1>8, <1>10, <1>11 DEF digest

(***************************************************************************)
(* The targets of a proposal that is not refused are obligations whose     *)
(* dependencies are satisfied.                                             *)
(***************************************************************************)
LEMMA TargetsReady ==
  ASSUME NEW st, Sound(st), NEW p, ValidateTargets(st, p) = Passed
  PROVE  /\ p.targets \subseteq Obligations
         /\ \A o \in p.targets : \A a \in st.deps[o] : st.status[a] = "satisfied"
<1>. DEFINE Having(r) == {o \in p.targets : Readiness(st, o) = r}
            blockers == UNION {BlockingDependencies(st, o) : o \in Having("dependency_blocked")}
<1>1. ValidateTargets(st, p) =
        IF p.targets \ Obligations # {}
          THEN Refusal("UNKNOWN_OBLIGATION", p.targets \ Obligations)
        ELSE IF Having("satisfied") # {} THEN Refusal("OBLIGATION_SATISFIED", Having("satisfied"))
        ELSE IF Having("explicitly_blocked") # {}
          THEN Refusal("OBLIGATION_BLOCKED", Having("explicitly_blocked"))
        ELSE IF Having("dependency_blocked") # {} THEN Refusal("DEPENDENCY_UNSATISFIED", blockers)
        ELSE Passed
  BY DEF ValidateTargets
<1>2. \A x : /\ Refusal("UNKNOWN_OBLIGATION", x) # Passed
             /\ Refusal("OBLIGATION_SATISFIED", x) # Passed
             /\ Refusal("OBLIGATION_BLOCKED", x) # Passed
             /\ Refusal("DEPENDENCY_UNSATISFIED", x) # Passed
  BY RefusalRefuses DEF RejectionReasons
<1>3. /\ p.targets \ Obligations = {} /\ Having("satisfied") = {}
      /\ Having("explicitly_blocked") = {} /\ Having("dependency_blocked") = {}
  <2>. HIDE DEF Having, blockers
  <2>. QED
    BY <1>1, <1>2
<1>4. ASSUME NEW o \in p.targets PROVE BlockingDependencies(st, o) = {}
  <2>1. o \in Obligations /\ st.status[o] \in Statuses
    BY <1>3 DEF Sound
  <2>2. Readiness(st, o) \notin {"satisfied", "explicitly_blocked", "dependency_blocked"}
    BY <1>3
  <2>3. CASE st.status[o] = "satisfied"
    BY <2>2, <2>3 DEF Readiness
  <2>4. CASE st.status[o] = "blocked"
    BY <2>2, <2>4 DEF Readiness
  <2>5. CASE st.status[o] = "unsatisfied"
    BY <2>2, <2>5 DEF Readiness
  <2>. QED
    BY <2>1, <2>3, <2>4, <2>5 DEF Statuses
<1>. QED
  BY <1>3, <1>4 DEF BlockingDependencies

(***************************************************************************)
(* The keys a proposal depends on are resolved when it is not refused.     *)
(***************************************************************************)
LEMMA StateResolved ==
  ASSUME NEW st, NEW p, p.required \subseteq StateKeys
  PROVE  /\ DependencyKeys(p) \in SUBSET StateKeys
         /\ ValidateState(st, p) = Passed => \A k \in DependencyKeys(p) : IsResolved(st.known[k])
<1>1. DependencyKeys(p) \in SUBSET StateKeys
  BY OrchestrationAssumption DEF DependencyKeys
<1>2. ASSUME ValidateState(st, p) = Passed PROVE UnresolvedKeys(st.known, DependencyKeys(p)) = {}
  <2>1. \A x : Refusal("UNKNOWN_STATE", x) # Passed
    BY RefusalRefuses DEF RejectionReasons
  <2>. QED
    BY <1>2, <2>1 DEF ValidateState
<1>. QED
  BY <1>1, <1>2 DEF UnresolvedKeys

(***************************************************************************)
(* The decisions on a batch, and the proposals they are about.             *)
(***************************************************************************)
LEMMA DecisionsMade ==
  ASSUME NEW st, Sound(st), NEW b \in Batches, NEW d \in Range(AdmitBatch(st, b).decisions)
  PROVE  \E acc : \E p \in Range(b.proposals) : d = DecisionOn(st, b.ordering, acc, p)
<1>. DEFINE q == OrderedProposals(b)
            ds == Final(st, b).decisions
<1>1. Ranked(b.proposals)
  BY BatchRanked
<1>2. CASE Admissible(b)
  <2>1. AdmitBatch(st, b).decisions = ds
    BY <1>1, <1>2, BatchReceipt, ZenonT(40)
  <2>2. st.tick \in Nat /\ IsFiniteSet(DOMAIN st.owners) /\ Cardinality(DOMAIN st.owners) <= MaxOwners
    BY DEF Sound
  <2>3. /\ DOMAIN ds = 1..Len(q)
        /\ \A i \in 1..Len(q) : ds[i] = DecisionOn(st, b.ordering, Loop(st, b.ordering, q)[i - 1], q[i])
    BY <1>1, <2>2, BatchDecided
  <2>4. \A i \in 1..Len(q) : q[i] \in Range(b.proposals)
    BY <1>1, OrderedShape
  <2>. HIDE DEF q, ds
  <2>5. PICK i \in 1..Len(q) : d = ds[i]
    BY <2>1, <2>3 DEF Range
  <2>6. d = DecisionOn(st, b.ordering, Loop(st, b.ordering, q)[i - 1], q[i])
    BY <2>3, <2>5
  <2>. QED
    BY <2>4, <2>6
<1>3. CASE ~ Admissible(b)
  <2>1. AdmitBatch(st, b).decisions = <<>>
    BY <1>1, <1>3, BatchReceipt, ZenonT(40)
  <2>. QED
    BY <2>1 DEF Range
<1>. QED
  BY <1>2, <1>3

(***************************************************************************)
(* No action is admitted for an obligation anything of whose ancestry is   *)
(* unsatisfied, or on state that rests on an unresolved record.            *)
(***************************************************************************)
THEOREM GroundedSafety == SpecOrchestration => []AdmissionGrounded
<1>1. OrchInv => AdmissionGrounded
  <2>. SUFFICES ASSUME OrchInv, NEW b \in Batches, NEW d \in Range(AdmitBatch(orch, b).decisions),
                       d.status # "rejected"
                PROVE  /\ \A o \in d.proposal.targets :
                            \A a \in Ancestors(orch.deps, o) : orch.status[a] = "satisfied"
                       /\ \A k \in DOMAIN d.action.digest :
                            /\ IsResolved(d.action.digest[k])
                            /\ Dependencies(orch.known, k) \subseteq DOMAIN d.action.digest
    BY DEF AdmissionGrounded
  <2>0. Sound(orch)
    BY DEF OrchInv
  <2>1. PICK acc : \E p \in Range(b.proposals) : d = DecisionOn(orch, b.ordering, acc, p)
    BY <2>0, DecisionsMade
  <2>2. PICK p \in Range(b.proposals) : d = DecisionOn(orch, b.ordering, acc, p)
    BY <2>1
  <2>3. Admits(orch, b.ordering, acc, p) \/ Repeats(orch, b.ordering, acc, p)
    BY <2>2, DecisionFields
  <2>4. Screen(orch, b.ordering, p) = Passed
    BY <2>3 DEF Admits, Repeats
  <2>5. d.proposal = p /\ d.action = ActionId(orch, p)
    BY <2>2, <2>3, DecisionFields
  <2>6. ValidateTargets(orch, p) = Passed /\ ValidateState(orch, p) = Passed
    BY <2>4, Screened
  <2>7. p.required \subseteq StateKeys
    BY BatchAssumption DEF Range
  <2>8. ASSUME NEW o \in p.targets, NEW a \in Ancestors(orch.deps, o)
        PROVE  orch.status[a] = "satisfied"
    <3>. DEFINE done == {x \in Obligations : orch.status[x] = "satisfied"}
    <3>1. /\ p.targets \subseteq Obligations
          /\ \A x \in p.targets : \A y \in orch.deps[x] : orch.status[y] = "satisfied"
      BY <2>0, <2>6, TargetsReady
    <3>2. IsFiniteSet(Obligations) /\ orch.deps \in [Obligations -> SUBSET Obligations]
      BY <2>0, OrchestrationAssumption DEF Sound
    <3>3. orch.deps[o] \in SUBSET Obligations /\ orch.deps[o] \subseteq done
      BY <3>1, <3>2
    <3>4. \A x \in done : orch.deps[x] \subseteq done
      BY <2>0, <3>2 DEF Sound, ValidRegistry, SatisfiedDependencies
    <3>5. done \in SUBSET Obligations
      OBVIOUS
    <3>. HIDE DEF done
    <3>6. Reached(orch.deps[o], orch.deps) \subseteq done
      BY <3>2, <3>3, <3>4, <3>5, ReachedClosed
    <3>. QED
      BY <3>6 DEF Ancestors, done
  <2>9. d.action.digest = DependencyDigest(orch.known, DependencyKeys(p))
    BY <2>5 DEF ActionId, Action
  <2>10. /\ DependencyKeys(p) \in SUBSET StateKeys
         /\ \A k \in DependencyKeys(p) : IsResolved(orch.known[k])
    BY <2>6, <2>7, StateResolved
  <2>11. \A k \in DOMAIN d.action.digest :
           /\ IsResolved(d.action.digest[k])
           /\ Dependencies(orch.known, k) \subseteq DOMAIN d.action.digest
    <3>. DEFINE digest == DependencyDigest(orch.known, DependencyKeys(p))
    <3>1. \A k \in DOMAIN digest : /\ IsResolved(digest[k])
                                   /\ Dependencies(orch.known, k) \subseteq DOMAIN digest
      BY <2>0, <2>10, DigestBinds
    <3>. HIDE DEF digest
    <3>. QED
      BY <2>9, <3>1 DEF digest
  <2>. QED
    BY <2>5, <2>8, <2>11
<1>. QED
  BY <1>1, OrchestrationInvariant, PTL

-----------------------------------------------------------------------------
(* A batch in two parts *)

\* The two states judge proposals alike.
SameView(s, t) == s.deps = t.deps /\ s.status = t.status /\ s.known = t.known

\* The actions the decisions admit.
Taken(ds) == {d.action : d \in {e \in Range(ds) : e.status = "admitted"}}

\* The action a turn admits, if any.
New(st, ordering, acc, p) == IF Admits(st, ordering, acc, p) THEN {ActionId(st, p)} ELSE {}

(***************************************************************************)
(* What the screen says of a proposal, and the action it proposes, depend  *)
(* on obligations and knowledge alone.                                     *)
(***************************************************************************)
LEMMA SameJudgement ==
  ASSUME NEW s, NEW t, SameView(s, t), NEW ordering, NEW p
  PROVE  Screen(s, ordering, p) = Screen(t, ordering, p) /\ ActionId(s, p) = ActionId(t, p)
<1>1. \A o : Readiness(s, o) = Readiness(t, o) /\ BlockingDependencies(s, o) = BlockingDependencies(t, o)
  BY DEF SameView, Readiness, BlockingDependencies
<1>2. ValidateTargets(s, p) = ValidateTargets(t, p)
  BY <1>1 DEF ValidateTargets
<1>3. ValidateState(s, p) = ValidateState(t, p)
  BY DEF SameView, ValidateState
<1>4. Screen(s, ordering, p) = Screen(t, ordering, p)
  BY <1>2, <1>3 DEF Screen
<1>. QED
  BY <1>4 DEF SameView, ActionId

(***************************************************************************)
(* A turn admits one action or none.                                       *)
(***************************************************************************)
LEMMA TurnTakes ==
  ASSUME NEW st, NEW ordering, NEW acc, NEW p, acc.decisions \in Seq(Range(acc.decisions))
  PROVE  Taken(Append(acc.decisions, DecisionOn(st, ordering, acc, p)))
           = Taken(acc.decisions) \cup New(st, ordering, acc, p)
<1>. DEFINE d == DecisionOn(st, ordering, acc, p)
            ds == acc.decisions
<1>1. /\ Admits(st, ordering, acc, p) => d.status = "admitted" /\ d.action = ActionId(st, p)
      /\ ~ Admits(st, ordering, acc, p) => d.status # "admitted"
  BY DecisionFields DEF Repeats
<1>. HIDE DEF d, ds
<1>2. Range(Append(ds, d)) = Range(ds) \cup {d}
  BY Appending DEF ds
<1>3. Taken(Append(ds, d)) = Taken(ds) \cup (IF d.status = "admitted" THEN {d.action} ELSE {})
  BY <1>2 DEF Taken
<1>. QED
  BY <1>1, <1>3 DEF New, d, ds

(***************************************************************************)
(* The loop over the beginning of a sequence of proposals is the beginning *)
(* of the loop over all of it.                                             *)
(***************************************************************************)
LEMMA LoopPrefix ==
  ASSUME NEW st, NEW ordering, NEW q, NEW r, Len(q) \in Nat, Len(r) \in Nat, Len(r) <= Len(q),
         \A i \in 1..Len(r) : r[i] = q[i]
  PROVE  \A n \in 0..Len(r) : Loop(st, ordering, r)[n] = Loop(st, ordering, q)[n]
<1>. DEFINE f == Loop(st, ordering, q)
            g == Loop(st, ordering, r)
            good == {n \in 0..Len(r) : g[n] = f[n]}
<1>1. /\ f[0] = Start(st) /\ g[0] = Start(st)
      /\ \A n \in 1..Len(q) : f[n] = Decide(st, ordering, f[n - 1], q[n])
      /\ \A n \in 1..Len(r) : g[n] = Decide(st, ordering, g[n - 1], r[n])
  BY LoopTurns
<1>. HIDE DEF f, g
<1>2. 0 \in good
  BY <1>1
<1>3. ASSUME NEW n \in 0..(Len(r) - 1), n \in good PROVE n + 1 \in good
  <2>1. /\ n + 1 \in 1..Len(r) /\ n + 1 \in 1..Len(q) /\ (n + 1) - 1 = n
        /\ n + 1 \in 0..Len(r)
    OBVIOUS
  <2>2. f[n + 1] = Decide(st, ordering, f[n], q[n + 1])
    BY <1>1, <2>1
  <2>3. g[n + 1] = Decide(st, ordering, g[n], r[n + 1])
    BY <1>1, <2>1
  <2>4. g[n] = f[n] /\ r[n + 1] = q[n + 1]
    BY <1>3, <2>1
  <2>. QED
    BY <2>1, <2>2, <2>3, <2>4
<1>4. \A n \in 0..Len(r) : n \in good
  <2>. HIDE DEF good
  <2>. QED
    BY <1>2, <1>3, UpTo
<1>. QED
  BY <1>4 DEF f, g

(***************************************************************************)
(* The actions the loop notes are actions it has admitted.                 *)
(***************************************************************************)
LEMMA NotedTaken ==
  ASSUME NEW st, NEW ordering, NEW q, Len(q) \in Nat,
         IsFiniteSet(DOMAIN st.owners), Cardinality(DOMAIN st.owners) <= MaxOwners
  PROVE  LET acc == Loop(st, ordering, q)
         IN  \A n \in 0..Len(q) : DOMAIN acc[n].actions \subseteq Taken(acc[n].decisions)
<1>. DEFINE acc == Loop(st, ordering, q)
            good == {n \in 0..Len(q) : DOMAIN acc[n].actions \subseteq Taken(acc[n].decisions)}
<1>1. /\ acc[0].actions = <<>>
      /\ \A n \in 1..Len(q) :
           /\ acc[n].decisions = Append(acc[n - 1].decisions,
                                        DecisionOn(st, ordering, acc[n - 1], q[n]))
           /\ acc[n].actions = ActionsAfter(st, ordering, acc[n - 1], q[n])
  BY LoopParts
<1>2. \A n \in 0..Len(q) : acc[n].decisions \in Seq(Range(acc[n].decisions))
  BY LoopShape DEF Shape
<1>. HIDE DEF acc
<1>3. 0 \in good
  BY <1>1
<1>4. ASSUME NEW n \in 0..(Len(q) - 1), n \in good PROVE n + 1 \in good
  <2>. DEFINE old == acc[n]
              new == acc[n + 1]
              p == q[n + 1]
  <2>0. n + 1 \in 1..Len(q) /\ (n + 1) - 1 = n /\ n + 1 \in 0..Len(q) /\ n \in 0..Len(q)
    OBVIOUS
  <2>1. /\ new.decisions = Append(old.decisions, DecisionOn(st, ordering, old, p))
        /\ new.actions = ActionsAfter(st, ordering, old, p)
    BY <1>1, <2>0
  <2>2. old.decisions \in Seq(Range(old.decisions))
    BY <1>2, <2>0
  <2>3. DOMAIN old.actions \subseteq Taken(old.decisions)
    BY <1>4
  <2>. HIDE DEF old, new, p
  <2>4. Taken(new.decisions) = Taken(old.decisions) \cup New(st, ordering, old, p)
    BY <2>1, <2>2, TurnTakes
  <2>5. DOMAIN new.actions \subseteq DOMAIN old.actions \cup New(st, ordering, old, p)
    BY <2>1 DEF ActionsAfter, New
  <2>6. DOMAIN new.actions \subseteq Taken(new.decisions)
    BY <2>3, <2>4, <2>5
  <2>. QED
    BY <2>0, <2>6 DEF new
<1>5. \A n \in 0..Len(q) : n \in good
  <2>. HIDE DEF good
  <2>. QED
    BY <1>3, <1>4, UpTo
<1>. QED
  BY <1>5 DEF acc

\* y has been at it since noted was noted and had was admitted; x from the start.
Resumes(x, y, noted, had) ==
  /\ x.owners = y.owners
  /\ noted \subseteq had /\ DOMAIN x.actions = noted \cup DOMAIN y.actions
  /\ x.decisions \in Seq(Range(x.decisions)) /\ y.decisions \in Seq(Range(y.decisions))
  /\ Taken(x.decisions) = had \cup Taken(y.decisions)

(***************************************************************************)
(* A turn of the whole batch and the same turn of its second part: the     *)
(* part may admit again what the first part has admitted already, and they *)
(* do not differ otherwise.                                                *)
(***************************************************************************)
LEMMA TurnResumed ==
  ASSUME NEW s, NEW t, SameView(s, t), NEW ordering, NEW p, NEW x, NEW y, NEW noted, NEW had,
         Resumes(x, y, noted, had)
  PROVE  Resumes(Decide(s, ordering, x, p), Decide(t, ordering, y, p), noted, had)
<1>. DEFINE x1 == Decide(s, ordering, x, p)
            y1 == Decide(t, ordering, y, p)
<1>0. /\ x.owners = y.owners
      /\ noted \subseteq had /\ DOMAIN x.actions = noted \cup DOMAIN y.actions
      /\ x.decisions \in Seq(Range(x.decisions)) /\ y.decisions \in Seq(Range(y.decisions))
      /\ Taken(x.decisions) = had \cup Taken(y.decisions)
  BY DEF Resumes
<1>1. Screen(s, ordering, p) = Screen(t, ordering, p) /\ ActionId(s, p) = ActionId(t, p)
  BY SameJudgement
<1>2. /\ x1.decisions = Append(x.decisions, DecisionOn(s, ordering, x, p))
      /\ x1.actions = ActionsAfter(s, ordering, x, p)
      /\ x1.owners = OwnersAfter(s, ordering, x, p)
      /\ y1.decisions = Append(y.decisions, DecisionOn(t, ordering, y, p))
      /\ y1.actions = ActionsAfter(t, ordering, y, p)
      /\ y1.owners = OwnersAfter(t, ordering, y, p)
  BY DecideTurns
<1>. HIDE DEF x1, y1
<1>3. /\ Taken(x1.decisions) = Taken(x.decisions) \cup New(s, ordering, x, p)
      /\ Taken(y1.decisions) = Taken(y.decisions) \cup New(t, ordering, y, p)
  BY <1>0, <1>2, TurnTakes
<1>4. x1.decisions \in Seq(Range(x1.decisions)) /\ y1.decisions \in Seq(Range(y1.decisions))
  BY <1>0, <1>2, Appending
<1>5. CASE Screen(s, ordering, p) = Passed /\ Safe(p)
  <2>1. Admits(s, ordering, x, p) <=> ActionId(t, p) \notin noted \cup DOMAIN y.actions
    BY <1>0, <1>1, <1>5 DEF Admits
  <2>2. Admits(t, ordering, y, p) <=> ActionId(t, p) \notin DOMAIN y.actions
    BY <1>1, <1>5 DEF Admits
  <2>3. x1.owners = y1.owners
    BY <1>0, <1>2, <1>5 DEF OwnersAfter
  <2>4. /\ DOMAIN x1.actions = DOMAIN x.actions \cup New(s, ordering, x, p)
        /\ DOMAIN y1.actions = DOMAIN y.actions \cup New(t, ordering, y, p)
    BY <1>2, <1>5 DEF ActionsAfter, New
  <2>5. New(s, ordering, x, p)
          = IF ActionId(t, p) \in noted \cup DOMAIN y.actions THEN {} ELSE {ActionId(t, p)}
    BY <1>1, <2>1 DEF New
  <2>6. New(t, ordering, y, p) = IF ActionId(t, p) \in DOMAIN y.actions THEN {} ELSE {ActionId(t, p)}
    BY <2>2 DEF New
  <2>7. Taken(x1.decisions) = had \cup Taken(y1.decisions)
    BY <1>0, <1>3, <2>5, <2>6
  <2>8. DOMAIN x1.actions = noted \cup DOMAIN y1.actions
    BY <1>0, <2>4, <2>5, <2>6
  <2>. QED
    BY <1>0, <1>4, <2>3, <2>7, <2>8 DEF Resumes, x1, y1
<1>6. CASE ~(Screen(s, ordering, p) = Passed /\ Safe(p))
  <2>1. Admits(s, ordering, x, p) <=> Admits(t, ordering, y, p)
    BY <1>0, <1>1, <1>6 DEF Admits
  <2>2. x1.owners = y1.owners
    BY <1>0, <1>1, <1>2, <2>1 DEF OwnersAfter
  <2>3. x1.actions = x.actions /\ y1.actions = y.actions
    BY <1>1, <1>2, <1>6 DEF ActionsAfter, Admits
  <2>4. New(s, ordering, x, p) = New(t, ordering, y, p)
    BY <1>1, <2>1 DEF New
  <2>5. Taken(x1.decisions) = had \cup Taken(y1.decisions)
    BY <1>0, <1>3, <2>4
  <2>. QED
    BY <1>0, <1>4, <2>2, <2>3, <2>5 DEF Resumes, x1, y1
<1>. QED
  BY <1>5, <1>6

(***************************************************************************)
(* The loop over the rest of a sequence of proposals, from the state the   *)
(* loop over its beginning has left.                                       *)
(***************************************************************************)
LEMMA LoopResumes ==
  ASSUME NEW s, NEW t, SameView(s, t), NEW ordering, NEW q, NEW r, NEW n \in Nat,
         Len(q) \in Nat, Len(r) \in Nat, Len(q) = n + Len(r),
         \A i \in 1..Len(r) : r[i] = q[n + i],
         IsFiniteSet(DOMAIN s.owners), Cardinality(DOMAIN s.owners) <= MaxOwners,
         t.owners = Loop(s, ordering, q)[n].owners
  PROVE  LET whole == Loop(s, ordering, q)
             rest  == Loop(t, ordering, r)
         IN  \A m \in 0..Len(r) :
               Resumes(whole[n + m], rest[m], DOMAIN whole[n].actions, Taken(whole[n].decisions))
<1>. DEFINE f == Loop(s, ordering, q)
            g == Loop(t, ordering, r)
            before == DOMAIN f[n].actions
            taken0 == Taken(f[n].decisions)
            good == {m \in 0..Len(r) : Resumes(f[n + m], g[m], before, taken0)}
<1>1. /\ \A i \in 1..Len(q) : f[i] = Decide(s, ordering, f[i - 1], q[i])
      /\ \A i \in 1..Len(r) : g[i] = Decide(t, ordering, g[i - 1], r[i])
      /\ g[0].decisions = <<>> /\ g[0].actions = <<>> /\ g[0].owners = t.owners
  <2>1. f[0] = Start(s) /\ \A i \in 1..Len(q) : f[i] = Decide(s, ordering, f[i - 1], q[i])
    BY LoopTurns
  <2>2. g[0] = Start(t) /\ \A i \in 1..Len(r) : g[i] = Decide(t, ordering, g[i - 1], r[i])
    BY LoopTurns
  <2>. HIDE DEF f, g
  <2>. QED
    BY <2>1, <2>2 DEF Start
<1>2. n \in 0..Len(q)
  OBVIOUS
<1>3. f[n].decisions \in Seq(Range(f[n].decisions))
  BY <1>2, LoopShape DEF Shape
<1>4. before \subseteq taken0
  BY <1>2, NotedTaken
<1>5. t.owners = f[n].owners
  OBVIOUS
<1>. HIDE DEF f, g
<1>6. 0 \in good
  <2>1. n + 0 = n /\ 0 \in 0..Len(r)
    OBVIOUS
  <2>2. Taken(<<>>) = {} /\ DOMAIN <<>> = {} /\ <<>> \in Seq(Range(<<>>))
    BY DEF Taken, Range
  <2>3. taken0 = taken0 \cup Taken(g[0].decisions) /\ before = before \cup DOMAIN g[0].actions
    BY <1>1, <2>2
  <2>4. g[0].decisions \in Seq(Range(g[0].decisions))
    BY <1>1, <2>2
  <2>5. Resumes(f[n], g[0], before, taken0)
    BY <1>1, <1>3, <1>4, <1>5, <2>3, <2>4 DEF Resumes
  <2>. HIDE DEF before, taken0
  <2>. QED
    BY <2>1, <2>5
<1>7. ASSUME NEW m \in 0..(Len(r) - 1), m \in good PROVE m + 1 \in good
  <2>. DEFINE i == n + (m + 1)
  <2>0. /\ m + 1 \in 1..Len(r) /\ (m + 1) - 1 = m /\ m + 1 \in 0..Len(r)
        /\ i \in 1..Len(q) /\ i - 1 = n + m
    OBVIOUS
  <2>1. q[i] = r[m + 1]
    BY <2>0
  <2>2. f[i] = Decide(s, ordering, f[n + m], r[m + 1])
    <3>. HIDE DEF i
    <3>. QED
      BY <1>1, <2>0, <2>1
  <2>3. g[m + 1] = Decide(t, ordering, g[m], r[m + 1])
    BY <1>1, <2>0
  <2>4. Resumes(f[n + m], g[m], before, taken0)
    BY <1>7
  <2>. HIDE DEF before, taken0, i
  <2>5. Resumes(f[i], g[m + 1], before, taken0)
    BY <2>2, <2>3, <2>4, TurnResumed
  <2>. QED
    BY <2>0, <2>5 DEF i
<1>8. \A m \in 0..Len(r) : m \in good
  <2>. HIDE DEF good
  <2>. QED
    BY <1>6, <1>7, UpTo
<1>. QED
  BY <1>8 DEF f, g

(***************************************************************************)
(* A part of the proposals of a batch is a sequence a batch may have.      *)
(***************************************************************************)
LEMMA RankedPart ==
  ASSUME NEW s, Ranked(s), NEW m \in Nat, NEW k \in Nat, 1 <= m, m <= k, k <= Len(s)
  PROVE  LET t == SubSeq(s, m, k)
         IN  /\ Ranked(t) /\ Len(t) = (k - m) + 1 /\ Len(t) \in Nat /\ Len(t) > 0
             /\ \A i \in 1..Len(t) : t[i] = s[(m - 1) + i]
<1>. DEFINE t == SubSeq(s, m, k)
            l == (k - m) + 1
<1>1. l \in Nat /\ l > 0
  OBVIOUS
<1>2. s \in Seq(Range(s)) /\ Len(s) \in Nat /\ DOMAIN s = 1..Len(s)
  BY LenProperties DEF Ranked
<1>3. /\ t \in Seq(Range(s)) /\ Len(t) = l
      /\ \A i \in 1..l : t[i] = s[m + i - 1]
  <2>1. \A i \in m..k : s[i] \in Range(s)
    BY <1>2 DEF Range
  <2>2. m \in Int /\ k \in Int /\ (k - m) + 1 = k - m + 1
    OBVIOUS
  <2>. QED
    BY <2>1, <2>2, SubSeqProperties
<1>. HIDE DEF t, l
<1>4. DOMAIN t = 1..l /\ \A i \in 1..l : t[i] = s[(m - 1) + i]
  BY <1>3, LenProperties
<1>5. \A i \in 1..l : (m - 1) + i \in DOMAIN s
  BY <1>2 DEF l
<1>6. t \in Seq(Range(t)) /\ Len(t) = l
  <2>1. \A i \in 1..l : t[i] \in Range(t)
    BY <1>4 DEF Range
  <2>. QED
    BY <1>3, <1>4, <2>1
<1>7. \A i \in 1..l : Rank[t[i]] \in Nat
  BY <1>4, <1>5 DEF Ranked
<1>8. ASSUME NEW i \in 1..l, NEW j \in 1..l, Rank[t[i]] = Rank[t[j]] PROVE i = j
  <2>0. \A a, c \in DOMAIN s : Rank[s[a]] = Rank[s[c]] => a = c
    BY DEF Ranked
  <2>. DEFINE a == (m - 1) + i
              c == (m - 1) + j
  <2>1. a = c
    <3>1. a \in DOMAIN s /\ c \in DOMAIN s
      BY <1>5
    <3>2. t[i] = s[a] /\ t[j] = s[c]
      BY <1>4
    <3>. HIDE DEF a, c
    <3>. QED
      BY <1>8, <2>0, <3>1, <3>2
  <2>. QED
    BY <1>1, <2>1
<1>9. Ranked(t)
  BY <1>4, <1>6, <1>7, <1>8 DEF Ranked
<1>. QED
  BY <1>1, <1>4, <1>6, <1>9 DEF t, l

(***************************************************************************)
(* The receipt of a processed batch holds the decisions of the loop.       *)
(***************************************************************************)
LEMMA ProcessedDecisions ==
  ASSUME NEW st, NEW b, Ranked(b.proposals), Admissible(b)
  PROVE  /\ AdmitBatch(st, b).decisions = Final(st, b).decisions
         /\ AdmitBatch(st, b).status = "processed" /\ AdmitBatch(st, b).rejection = None
         /\ AdmitBatch(st, b).prior = st
<1>1. AdmitBatch(st, b).prior = st
  BY BatchReceipt, Zenon
<1>2. AdmitBatch(st, b).decisions = Final(st, b).decisions
  BY BatchReceipt, ZenonT(40)
<1>3. AdmitBatch(st, b).status = "processed"
  BY BatchReceipt, ZenonT(40)
<1>4. AdmitBatch(st, b).rejection = None
  <2>1. Len(b.proposals) \in Nat /\ MaxBatch \in Nat
    BY LenProperties, OrchestrationAssumption DEF Ranked
  <2>. QED
    BY <2>1 DEF AdmitBatch, ProcessedBatch, Receipt, Admissible
<1>. QED
  BY <1>1, <1>2, <1>3, <1>4

(***************************************************************************)
(* Following the advice to split a batch changes nothing that lasts: the   *)
(* two parts of a declared sequence admit the same actions and leave the   *)
(* same owners and the same tick as the whole.                             *)
(***************************************************************************)
THEOREM SplitSafety == SpecOrchestration => []SplitPreserves
<1>1. OrchInv => SplitPreserves
  <2>. DEFINE Part(b, m, k) == [b EXCEPT !.proposals = SubSeq(@, m, k)]
  <2>. SUFFICES ASSUME OrchInv, NEW b \in Batches, NEW n \in 1..(Len(b.proposals) - 1),
                       b.ordering = "declared_sequence", Len(b.proposals) <= MaxBatch,
                       AdmitBatch(orch, Part(b, 1, n)).status = "processed"
                PROVE  LET whole  == AdmitBatch(orch, b)
                           first  == AdmitBatch(orch, Part(b, 1, n))
                           second == AdmitBatch(first.next, Part(b, n + 1, Len(b.proposals)))
                       IN  /\ second.next.owners = whole.next.owners
                           /\ second.next.tick = whole.next.tick
                           /\ Admitted(first) \cup Admitted(second) = Admitted(whole)
    BY DEF SplitPreserves
  <2>. DEFINE q == b.proposals
              l == Len(q)
              q1 == SubSeq(q, 1, n)
              q2 == SubSeq(q, n + 1, l)
              b1 == Part(b, 1, n)
              b2 == Part(b, n + 1, l)
              o == b.ordering
              whole == AdmitBatch(orch, b)
              first == AdmitBatch(orch, b1)
              mid == first.next
              second == AdmitBatch(mid, b2)
  <2>1. /\ Sound(orch) /\ Ranked(q) /\ l \in Nat /\ l > 0 /\ n \in Nat /\ 1 <= n /\ n < l
        /\ b = [strategy |-> b.strategy, ordering |-> b.ordering, proposals |-> b.proposals]
    BY BatchRanked DEF OrchInv
  <2>2. /\ b1.strategy = b.strategy /\ b1.ordering = o /\ b1.proposals = q1
        /\ b2.strategy = b.strategy /\ b2.ordering = o /\ b2.proposals = q2
    BY <2>1
  <2>3. /\ Ranked(q1) /\ Len(q1) = n /\ \A i \in 1..n : q1[i] = q[i]
    <3>. HIDE DEF q, l
    <3>. DEFINE one == 1
    <3>0. one = 1 /\ one \in Nat /\ 1 <= one /\ one <= n /\ n <= Len(q) /\ q1 = SubSeq(q, one, n)
      BY <2>1 DEF l
    <3>. HIDE DEF one, q1
    <3>1. LET t == SubSeq(q, one, n)
          IN  /\ Ranked(t) /\ Len(t) = (n - one) + 1 /\ Len(t) \in Nat /\ Len(t) > 0
              /\ \A i \in 1..Len(t) : t[i] = q[(one - 1) + i]
      BY <2>1, <3>0, RankedPart
    <3>2. Len(q1) = n
      BY <2>1, <3>0, <3>1
    <3>. QED
      BY <3>0, <3>1, <3>2
  <2>4. /\ Ranked(q2) /\ Len(q2) = l - n /\ Len(q2) \in Nat /\ Len(q2) > 0
        /\ \A i \in 1..Len(q2) : q2[i] = q[n + i]
    <3>. HIDE DEF q
    <3>0. n + 1 \in Nat /\ 1 <= n + 1 /\ n + 1 <= l
      BY <2>1
    <3>. DEFINE n1 == n + 1
    <3>. HIDE DEF n1
    <3>1. LET t == SubSeq(q, n1, l)
          IN  /\ Ranked(t) /\ Len(t) = (l - n1) + 1 /\ Len(t) \in Nat /\ Len(t) > 0
              /\ \A i \in 1..Len(t) : t[i] = q[(n1 - 1) + i]
      BY <2>1, <3>0, RankedPart DEF l, n1
    <3>2. n1 - 1 = n /\ (l - n1) + 1 = l - n /\ q2 = SubSeq(q, n1, l)
      BY <2>1 DEF n1
    <3>. HIDE DEF q2
    <3>. QED
      BY <3>1, <3>2
  <2>. HIDE DEF b1, b2, q1, q2, q, l
  <2>5. Admissible(b1)
    <3>1. ~ Admissible(b1) => AdmitBatch(orch, b1).status = "rejected"
      BY <2>2, <2>3, BatchReceipt, Zenon
    <3>2. AdmitBatch(orch, b1).status = "processed"
      BY DEF b1
    <3>. QED
      BY <3>1, <3>2
  <2>6. MaxBatch \in Nat /\ l <= MaxBatch
    BY OrchestrationAssumption DEF l, q
  <2>7. Admissible(b)
    BY <2>2, <2>5, <2>6 DEF Admissible, l, q
  <2>8. Admissible(b2)
    BY <2>1, <2>2, <2>4, <2>5, <2>6 DEF Admissible
  <2>9. /\ OrderedProposals(b) = q /\ OrderedProposals(b1) = q1 /\ OrderedProposals(b2) = q2
    BY <2>2 DEF OrderedProposals, q
  <2>10. /\ Sound(mid) /\ SameView(orch, mid)
         /\ mid.tick = orch.tick + n /\ mid.owners = Final(orch, b1).owners
    <3>1. Ranked(b1.proposals) /\ Len(b1.proposals) > 0 /\ Len(b1.proposals) = n
      BY <2>1, <2>2, <2>3
    <3>2. /\ Sound(mid)
          /\ mid.deps = orch.deps /\ mid.status = orch.status /\ mid.known = orch.known
          /\ mid.tick = orch.tick + (IF Admissible(b1) THEN Len(b1.proposals) ELSE 1)
          /\ mid.owners = IF Admissible(b1) THEN Final(orch, b1).owners ELSE orch.owners
      BY <2>1, <3>1, BatchAdvances, Zenon
    <3>. HIDE DEF mid
    <3>. QED
      BY <2>5, <3>1, <3>2 DEF SameView
  <2>11. /\ whole.next.tick = orch.tick + l /\ whole.next.owners = Final(orch, b).owners
    <3>1. /\ whole.next.tick = orch.tick + (IF Admissible(b) THEN Len(q) ELSE 1)
          /\ whole.next.owners = IF Admissible(b) THEN Final(orch, b).owners ELSE orch.owners
      BY <2>1, BatchAdvances, Zenon DEF q, l
    <3>. HIDE DEF whole
    <3>. QED
      BY <2>7, <3>1 DEF l
  <2>12. /\ second.next.tick = mid.tick + (l - n) /\ second.next.owners = Final(mid, b2).owners
    <3>1. Ranked(b2.proposals) /\ Len(b2.proposals) > 0 /\ Len(b2.proposals) = l - n
      BY <2>2, <2>4
    <3>2. /\ second.next.tick = mid.tick + (IF Admissible(b2) THEN Len(b2.proposals) ELSE 1)
          /\ second.next.owners = IF Admissible(b2) THEN Final(mid, b2).owners ELSE mid.owners
      <4>. HIDE DEF mid
      <4>. QED
        BY <2>10, <3>1, BatchAdvances, Zenon
    <3>. HIDE DEF second, mid
    <3>. QED
      BY <2>8, <3>1, <3>2
  <2>13. /\ Admitted(whole) = Taken(Final(orch, b).decisions)
         /\ Admitted(first) = Taken(Final(orch, b1).decisions)
         /\ Admitted(second) = Taken(Final(mid, b2).decisions)
    <3>0. Ranked(b.proposals) /\ Ranked(b1.proposals) /\ Ranked(b2.proposals)
      BY <2>1, <2>2, <2>3, <2>4 DEF q
    <3>1. whole.decisions = Final(orch, b).decisions
      BY <2>7, <3>0, ProcessedDecisions
    <3>2. first.decisions = Final(orch, b1).decisions
      BY <2>5, <3>0, ProcessedDecisions
    <3>3. second.decisions = Final(mid, b2).decisions
      <4>. HIDE DEF mid
      <4>. QED
        BY <2>8, <3>0, ProcessedDecisions
    <3>. HIDE DEF whole, first, second, mid
    <3>. QED
      BY <3>1, <3>2, <3>3 DEF Admitted, Taken
  <2>. HIDE DEF whole, first, second, mid
  <2>. DEFINE f == Loop(orch, o, q)
              g == Loop(mid, o, q2)
  <2>14. /\ Final(orch, b) = f[l] /\ Final(orch, b1) = Loop(orch, o, q1)[n]
         /\ Final(mid, b2) = g[l - n]
    BY <2>2, <2>3, <2>4, <2>9 DEF Final, l
  <2>15. Loop(orch, o, q1)[n] = f[n]
    <3>1. /\ Len(q) \in Nat /\ Len(q1) \in Nat /\ Len(q1) <= Len(q) /\ n \in 0..Len(q1)
          /\ \A i \in 1..Len(q1) : q1[i] = q[i]
      BY <2>1, <2>3 DEF l
    <3>. HIDE DEF o
    <3>2. \A k \in 0..Len(q1) : Loop(orch, o, q1)[k] = Loop(orch, o, q)[k]
      BY <3>1, LoopPrefix
    <3>. QED
      BY <3>1, <3>2
  <2>16. /\ f[n + (l - n)].owners = g[l - n].owners
         /\ Taken(f[n + (l - n)].decisions) = Taken(f[n].decisions) \cup Taken(g[l - n].decisions)
    <3>1. IsFiniteSet(DOMAIN orch.owners) /\ Cardinality(DOMAIN orch.owners) <= MaxOwners
      BY <2>1 DEF Sound
    <3>2. mid.owners = f[n].owners
      BY <2>10, <2>14, <2>15
    <3>3. /\ Len(q) \in Nat /\ Len(q2) \in Nat /\ Len(q) = n + Len(q2) /\ l - n \in 0..Len(q2)
      BY <2>1, <2>4 DEF l
    <3>. HIDE DEF o
    <3>4. \A m \in 0..Len(q2) : Resumes(f[n + m], g[m], DOMAIN f[n].actions, Taken(f[n].decisions))
      BY <2>1, <2>4, <2>10, <3>1, <3>2, <3>3, LoopResumes
    <3>. QED
      BY <3>3, <3>4 DEF Resumes
  <2>17. n + (l - n) = l /\ orch.tick \in Nat /\ (orch.tick + n) + (l - n) = orch.tick + l
    BY <2>1 DEF Sound
  <2>. HIDE DEF f, g
  <2>18. /\ second.next.owners = whole.next.owners
         /\ second.next.tick = whole.next.tick
         /\ Admitted(first) \cup Admitted(second) = Admitted(whole)
    BY <2>10, <2>11, <2>12, <2>13, <2>14, <2>15, <2>16, <2>17
  <2>. QED
    BY <2>18 DEF second, whole, first, mid, b1, b2, q, l
<1>. QED
  BY <1>1, OrchestrationInvariant, PTL

-----------------------------------------------------------------------------
(* What a batch means *)

Passes(st, ordering, q, i) == Screen(st, ordering, q[i]) = Passed

\* The replay-safe proposals among the first n that nothing refuses.
Reads(st, ordering, q, n) == {j \in 1..n : Passes(st, ordering, q, j) /\ Safe(q[j])}

\* The keys nobody owned before that the others of them claim.
Keys(st, ordering, q, n) ==
  {q[j].occurrence : j \in {k \in 1..n : Passes(st, ordering, q, k) /\ ~ Safe(q[k])}}
    \ DOMAIN st.owners

\* The actions noted are those of the reads so far, each with its first proposal.
NotesFirst(st, ordering, q, n) ==
  LET noted == Loop(st, ordering, q)[n].actions
      reads == Reads(st, ordering, q, n)
  IN  /\ DOMAIN noted = {ActionId(st, q[j]) : j \in reads}
      /\ \A a \in DOMAIN noted :
           \E i \in reads : /\ ActionId(st, q[i]) = a /\ noted[a] = q[i]
                            /\ \A j \in reads : ActionId(st, q[j]) = a => i <= j

(***************************************************************************)
(* The loop notes each replay-safe action with the first proposal of it.   *)
(***************************************************************************)
LEMMA LoopNotes ==
  ASSUME NEW st, NEW ordering, NEW q, Len(q) \in Nat
  PROVE  \A n \in 0..Len(q) : NotesFirst(st, ordering, q, n)
<1>. DEFINE acc == Loop(st, ordering, q)
            R(n) == Reads(st, ordering, q, n)
            good == {n \in 0..Len(q) : NotesFirst(st, ordering, q, n)}
<1>1. /\ acc[0].actions = <<>>
      /\ \A n \in 1..Len(q) : acc[n].actions = ActionsAfter(st, ordering, acc[n - 1], q[n])
  BY LoopParts
<1>2. 0 \in good
  <2>1. R(0) = {}
    BY DEF Reads
  <2>2. DOMAIN acc[0].actions = {}
    BY <1>1
  <2>. HIDE DEF acc, R
  <2>3. NotesFirst(st, ordering, q, 0)
    BY <2>1, <2>2 DEF NotesFirst, acc, R
  <2>. QED
    BY <2>3
<1>3. ASSUME NEW n \in 0..(Len(q) - 1), n \in good PROVE n + 1 \in good
  <2>. DEFINE old == acc[n]
              new == acc[n + 1]
              p == q[n + 1]
              x == ActionId(st, p)
              takes == Passes(st, ordering, q, n + 1) /\ Safe(p)
  <2>0. n + 1 \in 1..Len(q) /\ (n + 1) - 1 = n /\ n + 1 \in 0..Len(q) /\ n \in 0..Len(q) /\ n \in Nat
    OBVIOUS
  <2>1. new.actions = ActionsAfter(st, ordering, old, p)
    BY <1>1, <2>0
  <2>2. R(n + 1) = R(n) \cup (IF takes THEN {n + 1} ELSE {})
    BY <2>0 DEF Reads
  <2>3. \A j \in R(n) : j \in Nat /\ j <= n
    BY <2>0 DEF Reads
  <2>4. /\ DOMAIN old.actions = {ActionId(st, q[j]) : j \in R(n)}
        /\ \A a \in DOMAIN old.actions :
             \E i \in R(n) : /\ ActionId(st, q[i]) = a /\ old.actions[a] = q[i]
                             /\ \A j \in R(n) : ActionId(st, q[j]) = a => i <= j
    BY <1>3 DEF NotesFirst
  <2>5. Admits(st, ordering, old, p) /\ Safe(p) <=> takes /\ x \notin DOMAIN old.actions
    BY DEF Admits, Passes
  <2>6. new.actions = IF takes /\ x \notin DOMAIN old.actions
                      THEN [a \in DOMAIN old.actions \cup {x} |-> IF a = x THEN p ELSE old.actions[a]]
                      ELSE old.actions
    BY <2>1, <2>5 DEF ActionsAfter
  <2>. HIDE DEF old, new, acc, R, takes, x
  <2>7. DOMAIN new.actions = {ActionId(st, q[j]) : j \in R(n + 1)}
    <3>1. CASE takes
      <4>1. {ActionId(st, q[j]) : j \in R(n + 1)} = {ActionId(st, q[j]) : j \in R(n)} \cup {x}
        BY <2>2, <3>1 DEF x
      <4>2. DOMAIN new.actions = DOMAIN old.actions \cup {x}
        BY <2>6, <3>1
      <4>. QED
        BY <2>4, <4>1, <4>2
    <3>2. CASE ~ takes
      BY <2>2, <2>4, <2>6, <3>2
    <3>. QED
      BY <3>1, <3>2
  <2>8. ASSUME NEW a \in DOMAIN new.actions
        PROVE  \E i \in R(n + 1) : /\ ActionId(st, q[i]) = a /\ new.actions[a] = q[i]
                                   /\ \A j \in R(n + 1) : ActionId(st, q[j]) = a => i <= j
    <3>1. CASE a \in DOMAIN old.actions
      <4>1. PICK i \in R(n) : /\ ActionId(st, q[i]) = a /\ old.actions[a] = q[i]
                              /\ \A j \in R(n) : ActionId(st, q[j]) = a => i <= j
        BY <2>4, <3>1
      <4>2. new.actions[a] = old.actions[a]
        BY <2>6, <3>1
      <4>3. i <= n + 1 /\ i \in R(n + 1)
        BY <2>0, <2>2, <2>3
      <4>4. \A j \in R(n + 1) : ActionId(st, q[j]) = a => i <= j
        BY <2>2, <4>1, <4>3
      <4>. QED
        BY <4>1, <4>2, <4>3, <4>4
    <3>2. CASE a \notin DOMAIN old.actions
      <4>1. takes /\ a = x /\ new.actions[a] = p /\ n + 1 \in R(n + 1)
        BY <2>2, <2>6, <3>2
      <4>2. \A j \in R(n) : ActionId(st, q[j]) # a
        BY <2>4, <3>2
      <4>3. n + 1 <= n + 1
        BY <2>0
      <4>4. \A j \in R(n + 1) : ActionId(st, q[j]) = a => n + 1 <= j
        BY <2>2, <4>2, <4>3
      <4>. QED
        BY <4>1, <4>4 DEF x
    <3>. QED
      BY <3>1, <3>2
  <2>9. NotesFirst(st, ordering, q, n + 1)
    BY <2>7, <2>8 DEF NotesFirst, new, acc, R
  <2>. QED
    BY <2>0, <2>9
<1>4. \A n \in 0..Len(q) : n \in good
  <2>. HIDE DEF good
  <2>. QED
    BY <1>2, <1>3, UpTo
<1>. QED
  BY <1>4

\* The keys owned are those claimed so far, or there is no room for another.
OwnsClaimed(st, ordering, q, n) ==
  LET owned == DOMAIN Loop(st, ordering, q)[n].owners
      keys  == Keys(st, ordering, q, n)
  IN  /\ IsFiniteSet(keys)
      /\ \/ owned = DOMAIN st.owners \cup keys
         \/ Cardinality(owned) = MaxOwners /\ owned \subseteq DOMAIN st.owners \cup keys

(***************************************************************************)
(* The loop gives each claimed key an owner until the registry is full.    *)
(***************************************************************************)
LEMMA LoopOwns ==
  ASSUME NEW st, NEW ordering, NEW q, Len(q) \in Nat
  PROVE  \A n \in 0..Len(q) : OwnsClaimed(st, ordering, q, n)
<1>. DEFINE acc == Loop(st, ordering, q)
            K(n) == Keys(st, ordering, q, n)
            D0 == DOMAIN st.owners
            good == {n \in 0..Len(q) : OwnsClaimed(st, ordering, q, n)}
<1>1. /\ acc[0].owners = st.owners
      /\ \A n \in 1..Len(q) : acc[n].owners = OwnersAfter(st, ordering, acc[n - 1], q[n])
  BY LoopParts
<1>2. 0 \in good
  <2>1. K(0) = {}
    BY DEF Keys
  <2>2. IsFiniteSet({})
    BY FS_EmptySet
  <2>. HIDE DEF acc, K
  <2>3. OwnsClaimed(st, ordering, q, 0)
    BY <1>1, <2>1, <2>2 DEF OwnsClaimed, acc, K
  <2>. QED
    BY <2>3
<1>3. ASSUME NEW n \in 0..(Len(q) - 1), n \in good PROVE n + 1 \in good
  <2>. DEFINE old == acc[n]
              new == acc[n + 1]
              p == q[n + 1]
              k == p.occurrence
              claims == Passes(st, ordering, q, n + 1) /\ ~ Safe(p)
              had == DOMAIN old.owners
              has == DOMAIN new.owners
  <2>0. n + 1 \in 1..Len(q) /\ (n + 1) - 1 = n /\ n + 1 \in 0..Len(q) /\ n \in 0..Len(q) /\ n \in Nat
    OBVIOUS
  <2>1. new.owners = OwnersAfter(st, ordering, old, p)
    BY <1>1, <2>0
  <2>2. K(n + 1) = K(n) \cup (IF claims THEN {k} \ D0 ELSE {})
    <3>. DEFINE C(m) == {i \in 1..m : Passes(st, ordering, q, i) /\ ~ Safe(q[i])}
    <3>1. C(n + 1) = C(n) \cup (IF claims THEN {n + 1} ELSE {})
      BY <2>0
    <3>. HIDE DEF C, claims
    <3>2. K(n + 1) = {q[j].occurrence : j \in C(n + 1)} \ D0 /\ K(n) = {q[j].occurrence : j \in C(n)} \ D0
      BY DEF Keys, C
    <3>. HIDE DEF K, D0
    <3>. QED
      BY <3>1, <3>2
  <2>3. /\ IsFiniteSet(K(n))
        /\ \/ had = D0 \cup K(n)
           \/ Cardinality(had) = MaxOwners /\ had \subseteq D0 \cup K(n)
    BY <1>3 DEF OwnsClaimed
  <2>4. Admits(st, ordering, old, p) /\ ~ Safe(p)
          <=> claims /\ k \notin had /\ Cardinality(had) # MaxOwners
    BY DEF Admits, Passes
  <2>5. has = IF claims /\ k \notin had /\ Cardinality(had) # MaxOwners THEN had \cup {k} ELSE had
    BY <2>1, <2>4 DEF OwnersAfter
  <2>6. IsFiniteSet(K(n + 1))
    <3>1. IsFiniteSet(K(n) \cup {k})
      <4>. HIDE DEF K
      <4>. QED
        BY <2>3, FS_AddElement
    <3>2. K(n + 1) \subseteq K(n) \cup {k}
      <4>. HIDE DEF K, claims
      <4>. QED
        BY <2>2
    <3>. QED
      BY <3>1, <3>2, FS_Subset
  <2>. HIDE DEF has, had, acc, K, claims, k, D0
  <2>7. \/ has = D0 \cup K(n + 1)
        \/ Cardinality(has) = MaxOwners /\ has \subseteq D0 \cup K(n + 1)
    <3>1. CASE ~ claims
      BY <2>2, <2>3, <2>5, <3>1
    <3>2. CASE claims /\ Cardinality(had) = MaxOwners
      <4>1. has = had
        BY <2>5, <3>2
      <4>2. had \subseteq D0 \cup K(n) /\ K(n) \subseteq K(n + 1)
        BY <2>2, <2>3
      <4>. QED
        BY <3>2, <4>1, <4>2
    <3>3. CASE claims /\ Cardinality(had) # MaxOwners
      <4>1. had = D0 \cup K(n) /\ has = had \cup {k}
        BY <2>3, <2>5, <3>3
      <4>. QED
        BY <2>2, <3>3, <4>1
    <3>. QED
      BY <3>1, <3>2, <3>3
  <2>8. OwnsClaimed(st, ordering, q, n + 1)
    BY <2>6, <2>7 DEF OwnsClaimed, has, acc, K, D0
  <2>. QED
    BY <2>0, <2>8
<1>4. \A n \in 0..Len(q) : n \in good
  <2>. HIDE DEF good
  <2>. QED
    BY <1>2, <1>3, UpTo
<1>. QED
  BY <1>4

(***************************************************************************)
(* A key is admitted exactly when it is the first of its kind and the keys *)
(* claimed before it leave a slot.                                         *)
(***************************************************************************)
LEMMA KeyAdmitted ==
  ASSUME NEW st, NEW ordering, NEW q, Len(q) \in Nat,
         IsFiniteSet(DOMAIN st.owners), Cardinality(DOMAIN st.owners) <= MaxOwners,
         NEW n \in 0..Len(q), NEW k
  PROVE  LET owned == DOMAIN Loop(st, ordering, q)[n].owners
             keys  == Keys(st, ordering, q, n)
         IN  (k \notin owned /\ Cardinality(owned) # MaxOwners)
               <=> /\ k \notin DOMAIN st.owners \cup keys
                   /\ Cardinality(DOMAIN st.owners) + Cardinality(keys) < MaxOwners
<1>. DEFINE owned == DOMAIN Loop(st, ordering, q)[n].owners
            keys  == Keys(st, ordering, q, n)
            D0 == DOMAIN st.owners
            all == D0 \cup keys
<1>1. /\ IsFiniteSet(keys)
      /\ owned = all \/ (Cardinality(owned) = MaxOwners /\ owned \subseteq all)
  BY LoopOwns DEF OwnsClaimed
<1>2. IsFiniteSet(owned) /\ Cardinality(owned) <= MaxOwners
  BY LoopShape DEF Shape
<1>3. D0 \cap keys = {}
  BY DEF Keys
<1>. HIDE DEF keys, owned, D0
<1>4. /\ IsFiniteSet(all) /\ Cardinality(all) \in Nat
      /\ Cardinality(D0) \in Nat /\ Cardinality(keys) \in Nat /\ Cardinality(owned) \in Nat
  <2>1. IsFiniteSet(D0)
    BY DEF D0
  <2>. QED
    BY <1>1, <1>2, <2>1, FS_Union, FS_CardinalityType
<1>5. Cardinality(all) = Cardinality(D0) + Cardinality(keys)
  <2>1. IsFiniteSet(D0) /\ Cardinality(D0 \cap keys) = 0
    BY <1>3, FS_EmptySet DEF D0
  <2>2. Cardinality(D0 \cup keys) = Cardinality(D0) + Cardinality(keys) - Cardinality(D0 \cap keys)
    BY <1>1, <2>1, FS_Union
  <2>. QED
    BY <1>4, <2>1, <2>2
<1>6. owned \subseteq all => Cardinality(owned) <= Cardinality(all)
  BY <1>4, FS_Subset
<1>7. MaxOwners \in Nat
  BY OrchestrationAssumption
<1>. DEFINE c == Cardinality(owned)
            a == Cardinality(all)
            d == Cardinality(D0)
            e == Cardinality(keys)
<1>8. CASE owned = all
  <2>1. c = a
    BY <1>8
  <2>. HIDE DEF c, a, d, e
  <2>2. c # MaxOwners <=> d + e < MaxOwners
    BY <1>2, <1>4, <1>5, <1>7, <2>1 DEF c, a, d, e
  <2>. QED
    BY <1>8, <2>2 DEF owned, keys, D0, c, d, e
<1>9. CASE c = MaxOwners /\ owned \subseteq all
  <2>1. a >= MaxOwners
    BY <1>6, <1>9
  <2>2. ~(d + e < MaxOwners)
    <3>. HIDE DEF a, d, e
    <3>. QED
      BY <1>4, <1>5, <1>7, <2>1 DEF a, d, e
  <2>. QED
    BY <1>9, <2>2 DEF owned, keys, D0
<1>. QED
  BY <1>1, <1>8, <1>9

(***************************************************************************)
(* The least element of a set of numbers.                                  *)
(***************************************************************************)
LEMMA LeastElement ==
  ASSUME NEW S \in SUBSET Nat, NEW i \in S, \A j \in S : i <= j
  PROVE  Min(S) = i
<1>. DEFINE Least(x) == x \in S /\ \A y \in S : x <= y
<1>1. Least(i) /\ \A x : Least(x) => x = i
  <2>1. Least(i)
    OBVIOUS
  <2>2. ASSUME NEW x, Least(x) PROVE x = i
    <3>1. x \in Nat /\ i \in Nat /\ x <= i /\ i <= x
      BY <2>2
    <3>. QED
      BY <3>1
  <2>. HIDE DEF Least
  <2>. QED
    BY <2>1, <2>2
<1>2. Min(S) = CHOOSE x : Least(x)
  BY Zenon DEF Min
<1>3. Least(CHOOSE x : Least(x))
  <2>. HIDE DEF Least
  <2>. QED
    BY <1>1, Zenon
<1>. HIDE DEF Least
<1>. QED
  BY <1>1, <1>2, <1>3

\* The earlier proposals of the same replay-safe action.
Same(st, ordering, q, i) ==
  {j \in 1..(i - 1) : /\ Passes(st, ordering, q, j) /\ Safe(q[j])
                      /\ ActionId(st, q[j]) = ActionId(st, q[i])}

Free(st, ordering, q, i) ==
  /\ q[i].occurrence \notin DOMAIN st.owners \cup Keys(st, ordering, q, i - 1)
  /\ Cardinality(DOMAIN st.owners) + Cardinality(Keys(st, ordering, q, i - 1)) < MaxOwners

\* What Meaning says of the proposal at i, case by case.
MeansAt(st, b, i) ==
  LET q == OrderedProposals(b)
      o == b.ordering
      m == Meaning(st, b)[i]
  IN  /\ DOMAIN Meaning(st, b) = DOMAIN q
      /\ m = [status |-> m.status, equivalent |-> m.equivalent]
      /\ ~ Passes(st, o, q, i) => m.status = "rejected" /\ m.equivalent = None
      /\ Passes(st, o, q, i) /\ Safe(q[i]) /\ Same(st, o, q, i) = {}
           => m.status = "admitted" /\ m.equivalent = None
      /\ Passes(st, o, q, i) /\ Safe(q[i]) /\ Same(st, o, q, i) # {}
           => m.status = "deduplicated" /\ m.equivalent = q[Min(Same(st, o, q, i))]
      /\ Passes(st, o, q, i) /\ ~ Safe(q[i])
           => /\ m.status = IF Free(st, o, q, i) THEN "admitted" ELSE "rejected"
              /\ m.equivalent = None

(***************************************************************************)
(* What Meaning says of a proposal, case by case.                          *)
(***************************************************************************)
LEMMA MeaningCases ==
  ASSUME NEW st, NEW b, NEW i \in DOMAIN OrderedProposals(b)
  PROVE  MeansAt(st, b, i)
<1>. DEFINE q == OrderedProposals(b)
            o == b.ordering
            P(j) == Passes(st, o, q, j)
            S(j) == Safe(q[j])
            E(j) == Same(st, o, q, j)
            F(j) == Free(st, o, q, j)
            M == [j \in DOMAIN q |->
                    [status |-> CASE ~ P(j) -> "rejected"
                                  [] P(j) /\ S(j) -> IF E(j) = {} THEN "admitted" ELSE "deduplicated"
                                  [] P(j) /\ ~ S(j) -> IF F(j) THEN "admitted" ELSE "rejected",
                     equivalent |-> IF P(j) /\ S(j) /\ E(j) # {} THEN q[Min(E(j))] ELSE None]]
<1>1. Meaning(st, b) = M
  BY DEF Meaning, Passes, Safe, Same, Free, Keys
<1>. HIDE DEF P, S, E, F, q
<1>2. /\ DOMAIN M = DOMAIN q /\ i \in DOMAIN q
      /\ M[i] = [status |-> M[i].status, equivalent |-> M[i].equivalent]
      /\ ~ P(i) => M[i].status = "rejected" /\ M[i].equivalent = None
      /\ P(i) /\ S(i) /\ E(i) = {} => M[i].status = "admitted" /\ M[i].equivalent = None
      /\ P(i) /\ S(i) /\ E(i) # {}
           => M[i].status = "deduplicated" /\ M[i].equivalent = q[Min(E(i))]
      /\ P(i) /\ ~ S(i) => /\ M[i].status = IF F(i) THEN "admitted" ELSE "rejected"
                           /\ M[i].equivalent = None
  BY DEF q
<1>. QED
  BY <1>1, <1>2 DEF MeansAt, P, S, E, F, q

(***************************************************************************)
(* The loop decides a proposal as Meaning says.                            *)
(***************************************************************************)
LEMMA DecidesMeaning ==
  ASSUME NEW st, NEW b, Ranked(b.proposals),
         IsFiniteSet(DOMAIN st.owners), Cardinality(DOMAIN st.owners) <= MaxOwners,
         NEW i \in 1..Len(OrderedProposals(b))
  PROVE  LET q == OrderedProposals(b)
             d == DecisionOn(st, b.ordering, Loop(st, b.ordering, q)[i - 1], q[i])
         IN  [status |-> d.status, equivalent |-> d.equivalent] = Meaning(st, b)[i]
<1>. DEFINE q == OrderedProposals(b)
            o == b.ordering
            acc == Loop(st, o, q)[i - 1]
            p == q[i]
            d == DecisionOn(st, o, acc, p)
            m == Meaning(st, b)[i]
            a == ActionId(st, p)
            reads == Reads(st, o, q, i - 1)
            same == Same(st, o, q, i)
<1>1. Len(q) \in Nat /\ DOMAIN q = 1..Len(q)
  BY OrderedShape
<1>2. i - 1 \in 0..Len(q) /\ i \in DOMAIN q
  BY <1>1
<1>3. /\ m = [status |-> m.status, equivalent |-> m.equivalent]
      /\ ~ Passes(st, o, q, i) => m.status = "rejected" /\ m.equivalent = None
      /\ Passes(st, o, q, i) /\ Safe(q[i]) /\ same = {}
           => m.status = "admitted" /\ m.equivalent = None
      /\ Passes(st, o, q, i) /\ Safe(q[i]) /\ same # {}
           => m.status = "deduplicated" /\ m.equivalent = q[Min(same)]
      /\ Passes(st, o, q, i) /\ ~ Safe(q[i])
           => /\ m.status = IF Free(st, o, q, i) THEN "admitted" ELSE "rejected"
              /\ m.equivalent = None
  <2>1. MeansAt(st, b, i)
    BY <1>2, MeaningCases
  <2>. QED
    BY <2>1 DEF MeansAt
<1>4. /\ Admits(st, o, acc, p) => d.status = "admitted" /\ d.equivalent = None
      /\ Repeats(st, o, acc, p) => d.status = "deduplicated" /\ d.equivalent = acc.actions[a]
      /\ ~ Admits(st, o, acc, p) /\ ~ Repeats(st, o, acc, p)
           => d.status = "rejected" /\ d.equivalent = None
  BY DecisionFields
<1>5. d.status = m.status /\ d.equivalent = m.equivalent
  <2>1. CASE ~ Passes(st, o, q, i)
    <3>1. ~ Admits(st, o, acc, p) /\ ~ Repeats(st, o, acc, p)
      BY <2>1 DEF Admits, Repeats, Passes
    <3>. HIDE DEF d, m
    <3>. QED
      BY <1>3, <1>4, <2>1, <3>1
  <2>2. CASE Passes(st, o, q, i) /\ Safe(p)
    <3>1. /\ Admits(st, o, acc, p) <=> a \notin DOMAIN acc.actions
          /\ Repeats(st, o, acc, p) <=> a \in DOMAIN acc.actions
      BY <2>2 DEF Admits, Repeats, Passes
    <3>2. same = {j \in reads : ActionId(st, q[j]) = a} /\ reads \subseteq Nat
      BY DEF Same, Reads
    <3>3. /\ DOMAIN acc.actions = {ActionId(st, q[j]) : j \in reads}
          /\ \A x \in DOMAIN acc.actions :
               \E k \in reads : /\ ActionId(st, q[k]) = x /\ acc.actions[x] = q[k]
                                /\ \A j \in reads : ActionId(st, q[j]) = x => k <= j
      BY <1>1, <1>2, LoopNotes DEF NotesFirst
    <3>. HIDE DEF same, reads, a, acc, d, m, q
    <3>4. CASE a \in DOMAIN acc.actions
      <4>1. PICK k \in reads : /\ ActionId(st, q[k]) = a /\ acc.actions[a] = q[k]
                               /\ \A j \in reads : ActionId(st, q[j]) = a => k <= j
        BY <3>3, <3>4
      <4>2. k \in same /\ same \in SUBSET Nat /\ \A j \in same : k <= j
        BY <3>2, <4>1
      <4>3. Min(same) = k
        BY <4>2, LeastElement
      <4>. QED
        BY <1>3, <1>4, <2>2, <3>1, <3>4, <4>1, <4>2, <4>3
    <3>5. CASE a \notin DOMAIN acc.actions
      <4>1. same = {}
        BY <3>2, <3>3, <3>5
      <4>. QED
        BY <1>3, <1>4, <2>2, <3>1, <3>5, <4>1
    <3>. QED
      BY <3>4, <3>5
  <2>3. CASE Passes(st, o, q, i) /\ ~ Safe(p)
    <3>1. /\ Admits(st, o, acc, p) <=> p.occurrence \notin DOMAIN acc.owners
                                         /\ Cardinality(DOMAIN acc.owners) # MaxOwners
          /\ ~ Repeats(st, o, acc, p)
      BY <2>3 DEF Admits, Repeats, Passes
    <3>2. (p.occurrence \notin DOMAIN acc.owners /\ Cardinality(DOMAIN acc.owners) # MaxOwners)
            <=> Free(st, o, q, i)
      <4>. DEFINE k == p.occurrence
      <4>. HIDE DEF k
      <4>1. (k \notin DOMAIN acc.owners /\ Cardinality(DOMAIN acc.owners) # MaxOwners)
              <=> /\ k \notin DOMAIN st.owners \cup Keys(st, o, q, i - 1)
                  /\ Cardinality(DOMAIN st.owners) + Cardinality(Keys(st, o, q, i - 1)) < MaxOwners
        BY <1>1, <1>2, KeyAdmitted
      <4>. QED
        BY <4>1 DEF Free, k
    <3>. HIDE DEF d, m, acc, q
    <3>. QED
      BY <1>3, <1>4, <2>3, <3>1, <3>2
  <2>. QED
    BY <2>1, <2>2, <2>3
<1>6. m = [status |-> m.status, equivalent |-> m.equivalent]
  BY <1>3
<1>. HIDE DEF d, m
<1>7. [status |-> d.status, equivalent |-> d.equivalent] = m
  BY <1>5, <1>6
<1>. QED
  BY <1>7 DEF d, m

(***************************************************************************)
(* The identity of an action is never the mark of a missing one.           *)
(***************************************************************************)
LEMMA ActionNamed ==
  ASSUME NEW st, Sound(st), NEW p \in Proposals
  PROVE  ActionId(st, p) # None /\ p # None /\ p.required \subseteq StateKeys
<1>1. PICK b \in Batches : p \in Range(b.proposals)
  BY DEF Proposals
<1>2. p.required \subseteq StateKeys
  BY <1>1, BatchAssumption DEF Range
<1>. DEFINE digest == DependencyDigest(st.known, DependencyKeys(p))
<1>3. DependencyKeys(p) \in SUBSET StateKeys
  BY <1>2, StateResolved
<1>4. DOMAIN digest \in SUBSET StateKeys /\ digest \in [DOMAIN digest -> Records]
  BY <1>3, DigestBinds
<1>5. ActionId(st, p) = Action(p, digest, IF IsReplaySafe(Capabilities[p.capability]) THEN None ELSE p.occurrence)
  BY DEF ActionId
<1>. HIDE DEF digest
<1>6. Action(p, digest, None) # None /\ Action(p, digest, p.occurrence) # None
  BY <1>4, NoneAssumption
<1>7. p # None
  BY NoneAssumption
<1>. QED
  BY <1>2, <1>5, <1>6, <1>7

(***************************************************************************)
(* Every decision of the loop is one its constructor accepts.              *)
(***************************************************************************)
LEMMA DecisionsValid ==
  ASSUME NEW st, Sound(st), NEW b \in Batches, NEW i \in 1..Len(OrderedProposals(b))
  PROVE  LET q == OrderedProposals(b)
         IN  ValidDecision(DecisionOn(st, b.ordering, Loop(st, b.ordering, q)[i - 1], q[i]))
<1>. DEFINE q == OrderedProposals(b)
            o == b.ordering
            acc == Loop(st, o, q)[i - 1]
            p == q[i]
            d == DecisionOn(st, o, acc, p)
<1>1. /\ Len(q) \in Nat /\ i - 1 \in 0..Len(q)
      /\ \A j \in 1..Len(q) : q[j] \in Range(b.proposals)
  BY BatchRanked, OrderedShape
<1>2. \A j \in 1..Len(q) : q[j] \in Proposals
  BY <1>1 DEF Proposals
<1>3. ActionId(st, p) # None
  BY <1>2, ActionNamed
<1>4. /\ Admits(st, o, acc, p) =>
           /\ d.status = "admitted" /\ d.action = ActionId(st, p)
           /\ d.equivalent = None /\ d.reason = None
      /\ Repeats(st, o, acc, p) =>
           /\ d.status = "deduplicated" /\ d.action = ActionId(st, p)
           /\ d.equivalent = acc.actions[ActionId(st, p)] /\ d.reason = None
      /\ ~ Admits(st, o, acc, p) /\ ~ Repeats(st, o, acc, p) =>
           /\ d.status = "rejected" /\ d.action = None /\ d.equivalent = None
           /\ d.reason \in RejectionReasons
  BY DecisionFields
<1>5. Repeats(st, o, acc, p) => acc.actions[ActionId(st, p)] # None
  <2>. SUFFICES ASSUME Repeats(st, o, acc, p) PROVE acc.actions[ActionId(st, p)] # None
    OBVIOUS
  <2>1. ActionId(st, p) \in DOMAIN acc.actions
    BY DEF Repeats
  <2>2. PICK k \in Reads(st, o, q, i - 1) : acc.actions[ActionId(st, p)] = q[k]
    BY <1>1, <2>1, LoopNotes DEF NotesFirst
  <2>3. k \in 1..Len(q)
    BY <1>1 DEF Reads
  <2>. QED
    BY <1>2, <2>2, <2>3, ActionNamed
<1>6. None \notin RejectionReasons
  BY NoneAssumption
<1>. HIDE DEF d, acc, p
<1>7. CASE Admits(st, o, acc, p)
  BY <1>3, <1>4, <1>7 DEF ValidDecision, d, acc, p
<1>8. CASE Repeats(st, o, acc, p)
  BY <1>3, <1>4, <1>5, <1>8 DEF ValidDecision, d, acc, p
<1>9. CASE ~ Admits(st, o, acc, p) /\ ~ Repeats(st, o, acc, p)
  BY <1>4, <1>6, <1>9 DEF ValidDecision, d, acc, p
<1>. QED
  BY <1>7, <1>8, <1>9

(***************************************************************************)
(* The receipt of a batch is one its constructor accepts.                  *)
(***************************************************************************)
LEMMA ReceiptValid ==
  ASSUME NEW st, Sound(st), NEW b \in Batches
  PROVE  LET r == AdmitBatch(st, b)
         IN  ValidReceipt(b.ordering, r) /\ \A d \in Range(r.decisions) : ValidDecision(d)
<1>. DEFINE r == AdmitBatch(st, b)
            q == OrderedProposals(b)
            ds == Final(st, b).decisions
<1>0. Ranked(b.proposals) /\ Len(b.proposals) \in Nat /\ Len(b.proposals) > 0 /\ st.tick \in Nat
  BY BatchRanked DEF Sound
<1>1. r.next.tick = st.tick + (IF Admissible(b) THEN Len(b.proposals) ELSE 1) /\ r.prior = st
  <2>1. r.prior = st
    BY <1>0, BatchReceipt, Zenon
  <2>. QED
    BY <1>0, <2>1, BatchAdvances, Zenon
<1>2. CASE Admissible(b)
  <2>1. r.decisions = ds /\ r.status = "processed" /\ r.rejection = None
    BY <1>0, <1>2, ProcessedDecisions
  <2>2. /\ Len(q) \in Nat /\ Len(q) = Len(b.proposals) /\ Len(ds) = Len(q) /\ DOMAIN ds = 1..Len(q)
        /\ \A i \in 1..Len(q) :
             /\ ds[i] = DecisionOn(st, b.ordering, Loop(st, b.ordering, q)[i - 1], q[i])
             /\ ds[i].tick = st.tick + i
    <3>1. IsFiniteSet(DOMAIN st.owners) /\ Cardinality(DOMAIN st.owners) <= MaxOwners
      BY DEF Sound
    <3>. QED
      BY <1>0, <3>1, BatchDecided
  <2>3. \A i \in 1..Len(q) : ds[i].proposal = q[i]
    <3>. HIDE DEF ds, q
    <3>. QED
      BY <2>2, DecisionFields
  <2>4. \A i \in 1..Len(q) : ValidDecision(ds[i])
    <3>1. ASSUME NEW i \in 1..Len(q)
          PROVE  ValidDecision(DecisionOn(st, b.ordering, Loop(st, b.ordering, q)[i - 1], q[i]))
      BY DecisionsValid
    <3>. HIDE DEF ds, q
    <3>. QED
      BY <2>2, <3>1
  <2>5. b.ordering = "canonical_independent" =>
          \A i, j \in 1..Len(q) : i < j => Rank[q[i]] < Rank[q[j]]
    BY <1>0, OrderedShape
  <2>. HIDE DEF r, q, ds
  <2>6. \A d \in Range(r.decisions) : ValidDecision(d)
    BY <2>1, <2>2, <2>4 DEF Range
  <2>7. r.decisions # <<>> /\ Len(r.decisions) = r.next.tick - r.prior.tick
    BY <1>0, <1>1, <1>2, <2>1, <2>2
  <2>8. \A i \in DOMAIN r.decisions : r.decisions[i].tick = r.prior.tick + i
    BY <1>1, <2>1, <2>2
  <2>9. b.ordering = "canonical_independent" =>
          \A i, j \in DOMAIN r.decisions :
            i < j => Rank[r.decisions[i].proposal] < Rank[r.decisions[j].proposal]
    BY <2>1, <2>2, <2>3, <2>5
  <2>10. ValidReceipt(b.ordering, r)
    BY <2>1, <2>7, <2>8, <2>9 DEF ValidReceipt
  <2>. QED
    BY <2>6, <2>10 DEF r
<1>3. CASE ~ Admissible(b)
  <2>1. r.decisions = <<>>
    BY <1>0, <1>3, BatchReceipt, ZenonT(40)
  <2>2. r.status = "rejected"
    BY <1>0, <1>3, BatchReceipt, ZenonT(40)
  <2>3. r.rejection \in RejectionReasons
    BY <1>0, <1>3, BatchReceipt, Zenon
  <2>4. r.rejection # None
    BY <2>3, NoneAssumption
  <2>. HIDE DEF r
  <2>5. ValidReceipt(b.ordering, r)
    BY <1>1, <1>3, <2>1, <2>2, <2>4 DEF ValidReceipt
  <2>6. Range(r.decisions) = {}
    BY <2>1 DEF Range
  <2>. QED
    BY <2>5, <2>6 DEF r
<1>. QED
  BY <1>2, <1>3

(***************************************************************************)
(* Independent proposals are decided alike however they are arranged.      *)
(***************************************************************************)
LEMMA ArrangementIgnored ==
  ASSUME NEW st, NEW b \in Batches, b.ordering = "canonical_independent"
  PROVE  AdmitBatch(st, b) = AdmitBatch(st, [b EXCEPT !.proposals = Reverse(@)])
<1>. DEFINE s == b.proposals
            t == Reverse(s)
            c == [b EXCEPT !.proposals = Reverse(@)]
            n == Len(s)
<1>1. /\ Ranked(s) /\ n \in Nat
      /\ b = [strategy |-> b.strategy, ordering |-> b.ordering, proposals |-> b.proposals]
  BY BatchRanked
<1>2. s \in Seq(Range(s)) /\ DOMAIN s = 1..n
  BY <1>1, LenProperties DEF Ranked
<1>3. c.strategy = b.strategy /\ c.ordering = b.ordering /\ c.proposals = t
  BY <1>1
<1>4. t = [i \in 1..n |-> s[(n - i) + 1]]
  BY DEF Reverse
<1>. HIDE DEF t, c
<1>5. DOMAIN t = 1..n /\ \A i \in 1..n : t[i] = s[(n - i) + 1]
  BY <1>4
<1>6. \A i \in 1..n : (n - i) + 1 \in 1..n /\ (n - ((n - i) + 1)) + 1 = i
  BY <1>1
<1>7. Range(t) = Range(s)
  <2>1. \A i \in 1..n : \E j \in 1..n : t[i] = s[j]
    BY <1>5, <1>6
  <2>2. \A i \in 1..n : \E j \in 1..n : s[i] = t[j]
    <3>. TAKE i \in 1..n
    <3>. DEFINE j == (n - i) + 1
    <3>1. j \in 1..n /\ (n - j) + 1 = i
      BY <1>6
    <3>. HIDE DEF j
    <3>2. t[j] = s[(n - j) + 1]
      BY <1>5, <3>1
    <3>. QED
      BY <3>1, <3>2
  <2>. HIDE DEF s, n
  <2>3. \A x : x \in Range(t) <=> \E i \in 1..n : x = t[i]
    BY <1>5 DEF Range
  <2>4. \A x : x \in Range(s) <=> \E i \in 1..n : x = s[i]
    BY <1>2 DEF Range
  <2>5. \A x : x \in Range(t) <=> x \in Range(s)
    BY <2>1, <2>2, <2>3, <2>4
  <2>. QED
    BY <2>5
<1>8. Len(t) = n
  <2>1. \A i \in 1..n : t[i] \in Range(s)
    BY <1>5, <1>7 DEF Range
  <2>2. t \in Seq(Range(s))
    BY <1>1, <1>4, <1>5, <2>1
  <2>. QED
    BY <1>1, <1>5, <2>2, LenProperties
<1>9. OrderedProposals(b) = OrderedProposals(c)
  <2>1. b.ordering # "declared_sequence" /\ c.ordering # "declared_sequence"
    BY <1>3
  <2>2. DOMAIN s = DOMAIN t
    BY <1>2, <1>5
  <2>3. OrderedProposals(b) = [i \in DOMAIN s |-> CHOOSE p \in Range(s) : Position(s, p) = i]
    BY <2>1 DEF OrderedProposals
  <2>4. OrderedProposals(c) = [i \in DOMAIN t |-> CHOOSE p \in Range(t) : Position(t, p) = i]
    BY <1>3, <2>1 DEF OrderedProposals
  <2>. DEFINE Sorted(R, D) ==
                [i \in D |-> CHOOSE p \in R : Cardinality({q \in R : Rank[q] < Rank[p]}) + 1 = i]
  <2>5. OrderedProposals(b) = Sorted(Range(s), DOMAIN s)
    BY <2>3, Zenon DEF Position
  <2>6. OrderedProposals(c) = Sorted(Range(t), DOMAIN t)
    BY <2>4, Zenon DEF Position
  <2>. HIDE DEF s, Sorted
  <2>. QED
    BY <1>7, <2>2, <2>5, <2>6
<1>. QED
  BY <1>3, <1>8, <1>9 DEF AdmitBatch, c

(***************************************************************************)
(* At every state, the loop of admit_batch decides every batch as Meaning  *)
(* says, a batch of independent proposals however it is arranged, and      *)
(* nothing it builds on the way is refused by its own constructor.         *)
(***************************************************************************)
THEOREM MeaningSafety == SpecOrchestration => []AdmissionMeaning
<1>1. OrchInv => AdmissionMeaning
  <2>. SUFFICES ASSUME OrchInv, NEW b \in Batches
                PROVE  LET r == AdmitBatch(orch, b)
                       IN  /\ ValidReceipt(b.ordering, r)
                           /\ \A d \in Range(r.decisions) : ValidDecision(d)
                           /\ r.status = "processed" =>
                                [i \in DOMAIN r.decisions |->
                                   [status |-> r.decisions[i].status,
                                    equivalent |-> r.decisions[i].equivalent]] = Meaning(orch, b)
                           /\ b.ordering = "canonical_independent" =>
                                r = AdmitBatch(orch, [b EXCEPT !.proposals = Reverse(@)])
    BY DEF AdmissionMeaning
  <2>. DEFINE r == AdmitBatch(orch, b)
              q == OrderedProposals(b)
              ds == Final(orch, b).decisions
              M == Meaning(orch, b)
  <2>0. Sound(orch) /\ Ranked(b.proposals) /\ orch.tick \in Nat
        /\ IsFiniteSet(DOMAIN orch.owners) /\ Cardinality(DOMAIN orch.owners) <= MaxOwners
    BY BatchRanked DEF OrchInv, Sound
  <2>1. ValidReceipt(b.ordering, r) /\ \A d \in Range(r.decisions) : ValidDecision(d)
    BY <2>0, ReceiptValid
  <2>2. b.ordering = "canonical_independent" =>
          r = AdmitBatch(orch, [b EXCEPT !.proposals = Reverse(@)])
    BY ArrangementIgnored
  <2>3. ASSUME r.status = "processed"
        PROVE  [i \in DOMAIN r.decisions |->
                  [status |-> r.decisions[i].status, equivalent |-> r.decisions[i].equivalent]] = M
    <3>1. Admissible(b)
      <4>1. ~ Admissible(b) => r.status = "rejected"
        BY <2>0, BatchReceipt, Zenon
      <4>. HIDE DEF r
      <4>. QED
        BY <2>3, <4>1
    <3>2. r.decisions = ds
      BY <2>0, <3>1, ProcessedDecisions
    <3>3. /\ Len(q) \in Nat /\ DOMAIN ds = 1..Len(q)
          /\ \A i \in 1..Len(q) :
               ds[i] = DecisionOn(orch, b.ordering, Loop(orch, b.ordering, q)[i - 1], q[i])
      BY <2>0, BatchDecided
    <3>4. DOMAIN q = 1..Len(q)
      BY <2>0, OrderedShape
    <3>5. \A i \in 1..Len(q) : [status |-> ds[i].status, equivalent |-> ds[i].equivalent] = M[i]
      <4>1. ASSUME NEW i \in 1..Len(q)
            PROVE  LET d == DecisionOn(orch, b.ordering, Loop(orch, b.ordering, q)[i - 1], q[i])
                   IN  [status |-> d.status, equivalent |-> d.equivalent] = M[i]
        BY <2>0, DecidesMeaning
      <4>. HIDE DEF ds, q, M
      <4>. QED
        BY <3>3, <4>1
    <3>6. M = [i \in 1..Len(q) |-> M[i]]
      BY <3>4 DEF Meaning
    <3>. HIDE DEF ds, q, M, r
    <3>7. [i \in 1..Len(q) |-> [status |-> ds[i].status, equivalent |-> ds[i].equivalent]]
            = [i \in 1..Len(q) |-> M[i]]
      BY <3>5
    <3>. QED
      BY <3>2, <3>3, <3>6, <3>7
  <2>. QED
    BY <2>1, <2>2, <2>3
<1>. QED
  BY <1>1, OrchestrationInvariant, PTL

-----------------------------------------------------------------------------
(* Governance *)

\* The i-th proposal as the loop decides it.
DecisionAt(st, b, i) ==
  LET q == OrderedProposals(b)
  IN  DecisionOn(st, b.ordering, Loop(st, b.ordering, q)[i - 1], q[i])

(***************************************************************************)
(* The decisions of a processed batch, by position.                        *)
(***************************************************************************)
LEMMA DecisionsByPosition ==
  ASSUME NEW st, Sound(st), NEW b \in Batches, AdmitBatch(st, b).status = "processed"
  PROVE  LET q  == OrderedProposals(b)
             ds == AdmitBatch(st, b).decisions
         IN  /\ Len(q) \in Nat /\ DOMAIN ds = 1..Len(q)
             /\ \A i \in 1..Len(q) :
                  /\ q[i] \in Proposals /\ ds[i] = DecisionAt(st, b, i) /\ ds[i].tick = st.tick + i
             /\ AdmitBatch(st, b).next.tick = st.tick + Len(q)
<1>. DEFINE q == OrderedProposals(b)
            r == AdmitBatch(st, b)
            ds == Final(st, b).decisions
<1>0. /\ Ranked(b.proposals) /\ st.tick \in Nat /\ Len(b.proposals) > 0
      /\ IsFiniteSet(DOMAIN st.owners) /\ Cardinality(DOMAIN st.owners) <= MaxOwners
  BY BatchRanked DEF Sound
<1>1. Admissible(b)
  <2>1. ~ Admissible(b) => r.status = "rejected"
    BY <1>0, BatchReceipt, Zenon
  <2>2. r.status = "processed"
    OBVIOUS
  <2>. HIDE DEF r
  <2>. QED
    BY <2>1, <2>2
<1>2. r.decisions = ds
  BY <1>0, <1>1, ProcessedDecisions
<1>3. /\ Len(q) \in Nat /\ Len(q) = Len(b.proposals) /\ DOMAIN ds = 1..Len(q)
      /\ \A i \in 1..Len(q) :
           /\ ds[i] = DecisionOn(st, b.ordering, Loop(st, b.ordering, q)[i - 1], q[i])
           /\ ds[i].tick = st.tick + i
  BY <1>0, BatchDecided
<1>4. \A i \in 1..Len(q) : q[i] \in Proposals
  BY <1>0, OrderedShape DEF Proposals
<1>5. r.next.tick = st.tick + Len(b.proposals)
  <2>1. r.next.tick = st.tick + (IF Admissible(b) THEN Len(b.proposals) ELSE 1)
    BY <1>0, BatchAdvances, Zenon
  <2>. QED
    BY <1>1, <2>1
<1>6. \A i \in 1..Len(q) : ds[i] = DecisionAt(st, b, i)
  BY <1>3 DEF DecisionAt
<1>. HIDE DEF q, r, ds
<1>. QED
  BY <1>2, <1>3, <1>4, <1>5, <1>6 DEF q, r, ds

(***************************************************************************)
(* What is written in the decision on the i-th proposal.                   *)
(***************************************************************************)
LEMMA DecisionAtFields ==
  ASSUME NEW st, NEW b, NEW i
  PROVE  LET q   == OrderedProposals(b)
             acc == Loop(st, b.ordering, q)[i - 1]
             d   == DecisionAt(st, b, i)
         IN  /\ d.proposal = q[i]
             /\ d.status = "admitted" <=> Admits(st, b.ordering, acc, q[i])
             /\ d.status = "deduplicated" <=> Repeats(st, b.ordering, acc, q[i])
             /\ d.status = "admitted" => d.action = ActionId(st, q[i]) /\ d.because = {}
             /\ d.status = "deduplicated" => /\ d.action = ActionId(st, q[i])
                                             /\ d.equivalent = acc.actions[ActionId(st, q[i])]
<1>. DEFINE q   == OrderedProposals(b)
            o   == b.ordering
            acc == Loop(st, o, q)[i - 1]
            p   == q[i]
            d   == DecisionAt(st, b, i)
<1>1. /\ d.proposal = p
      /\ Admits(st, o, acc, p) =>
           d.status = "admitted" /\ d.action = ActionId(st, p) /\ d.because = {}
      /\ Repeats(st, o, acc, p) =>
           /\ d.status = "deduplicated" /\ d.action = ActionId(st, p)
           /\ d.equivalent = acc.actions[ActionId(st, p)]
      /\ ~ Admits(st, o, acc, p) /\ ~ Repeats(st, o, acc, p) => d.status = "rejected"
  BY DecisionFields DEF DecisionAt
<1>2. ~(Admits(st, o, acc, p) /\ Repeats(st, o, acc, p))
  BY DEF Admits, Repeats
<1>. HIDE DEF d, acc, p
<1>. QED
  BY <1>1, <1>2 DEF d, acc, p

(***************************************************************************)
(* A batch admits an action once.                                          *)
(***************************************************************************)
LEMMA AdmittedOnce ==
  ASSUME NEW st, Sound(st), NEW b \in Batches,
         NEW i \in 1..Len(OrderedProposals(b)), NEW j \in 1..Len(OrderedProposals(b)), i < j,
         DecisionAt(st, b, i).status = "admitted", DecisionAt(st, b, j).status = "admitted",
         DecisionAt(st, b, i).action = DecisionAt(st, b, j).action
  PROVE  FALSE
<1>. DEFINE q == OrderedProposals(b)
            o == b.ordering
            acc == Loop(st, o, q)[j - 1]
            was == Loop(st, o, q)[i - 1]
            x == q[i]
            y == q[j]
<1>1. Len(q) \in Nat /\ j - 1 \in 0..Len(q) /\ i \in 1..(j - 1)
  BY BatchRanked, OrderedShape
<1>2. /\ Admits(st, o, was, x) /\ Admits(st, o, acc, y)
      /\ ActionId(st, x) = ActionId(st, y)
  BY DecisionAtFields
<1>3. Passes(st, o, q, i) /\ Passes(st, o, q, j)
  BY <1>2 DEF Admits, Passes
<1>4. CASE Safe(x) /\ Safe(y)
  <2>1. i \in Reads(st, o, q, j - 1)
    BY <1>1, <1>3, <1>4 DEF Reads
  <2>2. DOMAIN acc.actions = {ActionId(st, q[k]) : k \in Reads(st, o, q, j - 1)}
    BY <1>1, LoopNotes DEF NotesFirst
  <2>3. ActionId(st, y) \notin DOMAIN acc.actions
    BY <1>2, <1>4 DEF Admits
  <2>. QED
    BY <1>2, <2>1, <2>2, <2>3
<1>5. CASE ~ Safe(x) /\ ~ Safe(y)
  <2>1. x.occurrence = y.occurrence
    BY <1>2, <1>5 DEF ActionId, Action, Safe
  <2>2. x.occurrence \in DOMAIN st.owners \cup Keys(st, o, q, j - 1)
    BY <1>1, <1>3, <1>5 DEF Keys
  <2>3. y.occurrence \notin DOMAIN acc.owners /\ Cardinality(DOMAIN acc.owners) # MaxOwners
    BY <1>2, <1>5 DEF Admits
  <2>4. IsFiniteSet(DOMAIN st.owners) /\ Cardinality(DOMAIN st.owners) <= MaxOwners
    BY DEF Sound
  <2>5. y.occurrence \notin DOMAIN st.owners \cup Keys(st, o, q, j - 1)
    <3>. DEFINE k == y.occurrence
    <3>. HIDE DEF k
    <3>1. (k \notin DOMAIN acc.owners /\ Cardinality(DOMAIN acc.owners) # MaxOwners)
            <=> /\ k \notin DOMAIN st.owners \cup Keys(st, o, q, j - 1)
                /\ Cardinality(DOMAIN st.owners) + Cardinality(Keys(st, o, q, j - 1)) < MaxOwners
      BY <1>1, <2>4, KeyAdmitted
    <3>. QED
      BY <2>3, <3>1 DEF k
  <2>. QED
    BY <2>1, <2>2, <2>5
<1>6. Safe(x) <=> Safe(y)
  <2>1. /\ Safe(x) <=> x.occurrence = None
        /\ Safe(y) <=> y.occurrence = None
    BY <1>3, Screened DEF Passes, Safe
  <2>2. /\ ActionId(st, x).occurrence = IF Safe(x) THEN None ELSE x.occurrence
        /\ ActionId(st, y).occurrence = IF Safe(y) THEN None ELSE y.occurrence
    BY DEF ActionId, Action, Safe
  <2>. QED
    BY <1>2, <2>1, <2>2
<1>. QED
  BY <1>4, <1>5, <1>6

(***************************************************************************)
(* A duplicate names an earlier proposal of its batch, admitted for the    *)
(* same action.                                                            *)
(***************************************************************************)
LEMMA DuplicateFounded ==
  ASSUME NEW st, NEW b \in Batches, NEW i \in 1..Len(OrderedProposals(b)),
         DecisionAt(st, b, i).status = "deduplicated"
  PROVE  \E k \in 1..(i - 1) : /\ DecisionAt(st, b, k).status = "admitted"
                               /\ DecisionAt(st, b, k).proposal = DecisionAt(st, b, i).equivalent
                               /\ DecisionAt(st, b, k).action = DecisionAt(st, b, i).action
<1>. DEFINE q == OrderedProposals(b)
            o == b.ordering
            acc == Loop(st, o, q)[i - 1]
            a == ActionId(st, q[i])
<1>1. Len(q) \in Nat /\ i - 1 \in 0..Len(q)
  BY BatchRanked, OrderedShape
<1>2. /\ Repeats(st, o, acc, q[i])
      /\ DecisionAt(st, b, i).action = a /\ DecisionAt(st, b, i).equivalent = acc.actions[a]
  BY DecisionAtFields
<1>3. a \in DOMAIN acc.actions
  BY <1>2 DEF Repeats
<1>4. PICK k \in Reads(st, o, q, i - 1) :
        /\ ActionId(st, q[k]) = a /\ acc.actions[a] = q[k]
        /\ \A j \in Reads(st, o, q, i - 1) : ActionId(st, q[j]) = a => k <= j
  BY <1>1, <1>3, LoopNotes DEF NotesFirst
<1>5. k \in 1..(i - 1) /\ k - 1 \in 0..Len(q) /\ Passes(st, o, q, k) /\ Safe(q[k])
  BY <1>1 DEF Reads
<1>. DEFINE was == Loop(st, o, q)[k - 1]
<1>6. DOMAIN was.actions = {ActionId(st, q[j]) : j \in Reads(st, o, q, k - 1)}
  BY <1>1, <1>5, LoopNotes DEF NotesFirst
<1>7. \A j \in Reads(st, o, q, k - 1) : j \in Reads(st, o, q, i - 1) /\ ~(k <= j)
  BY <1>5 DEF Reads
<1>8. a \notin DOMAIN was.actions
  <2>. HIDE DEF was, a
  <2>. QED
    BY <1>4, <1>6, <1>7
<1>9. Admits(st, o, was, q[k])
  BY <1>4, <1>5, <1>8 DEF Admits, Passes
<1>10. /\ DecisionAt(st, b, k).status = "admitted" /\ DecisionAt(st, b, k).proposal = q[k]
       /\ DecisionAt(st, b, k).action = ActionId(st, q[k])
  BY <1>9, DecisionAtFields
<1>. QED
  BY <1>2, <1>4, <1>5, <1>10

(***************************************************************************)
(* What an admitted decision of a batch says.                              *)
(***************************************************************************)
LEMMA AdmittedSays ==
  ASSUME NEW st, Sound(st), NEW b \in Batches, AdmitBatch(st, b).status = "processed",
         NEW d \in AdmittedDecisions(AdmitBatch(st, b))
  PROVE  /\ d.status = "admitted" /\ d.because = {} /\ d.proposal \in Proposals
         /\ Screen(st, b.ordering, d.proposal) = Passed /\ d.action = ActionId(st, d.proposal)
         /\ d.tick \in Nat /\ st.tick < d.tick /\ d.tick <= AdmitBatch(st, b).next.tick
<1>. DEFINE q == OrderedProposals(b)
            r == AdmitBatch(st, b)
            ds == r.decisions
<1>1. /\ Len(q) \in Nat /\ DOMAIN ds = 1..Len(q)
      /\ \A i \in 1..Len(q) :
           q[i] \in Proposals /\ ds[i] = DecisionAt(st, b, i) /\ ds[i].tick = st.tick + i
      /\ r.next.tick = st.tick + Len(q)
  BY DecisionsByPosition
<1>2. d \in Range(ds) /\ d.status = "admitted"
  BY DEF AdmittedDecisions
<1>. HIDE DEF r
<1>3. PICK i \in 1..Len(q) : d = ds[i]
  BY <1>1, <1>2 DEF Range
<1>4. d = DecisionAt(st, b, i) /\ q[i] \in Proposals
  BY <1>1, <1>3
<1>5. /\ d.proposal = q[i] /\ Admits(st, b.ordering, Loop(st, b.ordering, q)[i - 1], q[i])
      /\ d.action = ActionId(st, q[i]) /\ d.because = {}
  BY <1>2, <1>4, DecisionAtFields
<1>6. Screen(st, b.ordering, q[i]) = Passed
  BY <1>5 DEF Admits
<1>7. d.tick \in Nat /\ st.tick < d.tick /\ d.tick <= r.next.tick
  <2>1. d.tick = st.tick + i /\ st.tick \in Nat
    BY <1>1, <1>3 DEF Sound
  <2>. QED
    BY <1>1, <2>1
<1>. HIDE DEF q
<1>. QED
  BY <1>2, <1>4, <1>5, <1>6, <1>7 DEF r

(***************************************************************************)
(* No two admitted decisions of a batch are for the same action.           *)
(***************************************************************************)
LEMMA AdmittedDiffer ==
  ASSUME NEW st, Sound(st), NEW b \in Batches, AdmitBatch(st, b).status = "processed",
         NEW d \in AdmittedDecisions(AdmitBatch(st, b)),
         NEW e \in AdmittedDecisions(AdmitBatch(st, b)), d.action = e.action
  PROVE  d = e
<1>. DEFINE q == OrderedProposals(b)
            ds == AdmitBatch(st, b).decisions
<1>1. /\ Len(q) \in Nat /\ DOMAIN ds = 1..Len(q)
      /\ \A i \in 1..Len(q) : ds[i] = DecisionAt(st, b, i)
  BY DecisionsByPosition
<1>2. d \in Range(ds) /\ d.status = "admitted" /\ e \in Range(ds) /\ e.status = "admitted"
  BY DEF AdmittedDecisions
<1>. HIDE DEF ds
<1>3. PICK i \in 1..Len(q) : d = ds[i]
  BY <1>1, <1>2 DEF Range
<1>4. PICK j \in 1..Len(q) : e = ds[j]
  BY <1>1, <1>2 DEF Range
<1>5. d = DecisionAt(st, b, i) /\ e = DecisionAt(st, b, j)
  BY <1>1, <1>3, <1>4
<1>6. ~(i < j) /\ ~(j < i)
  BY <1>2, <1>5, AdmittedOnce
<1>7. i = j
  BY <1>1, <1>6
<1>. QED
  BY <1>3, <1>4, <1>7

(***************************************************************************)
(* An admitted action is admitted as a tool under the state of knowledge   *)
(* it is bound to, exactly when its capability may be governed, and under  *)
(* no other state.                                                         *)
(***************************************************************************)
LEMMA VerdictOn ==
  ASSUME NEW st, Sound(st), NEW ordering, NEW d, NEW p \in Proposals,
         d.status = "admitted", d.because = {}, d.proposal = p,
         Screen(st, ordering, p) = Passed, d.action = ActionId(st, p),
         p.capability \in DOMAIN Policy
  PROVE  LET class == Policy[p.capability].class
         IN  /\ ToolVerdict(d, p, class, d.action.digest, "deterministic_orchestrator") = None
                  <=> Governable(p)
             /\ Governable(p) => ValidToolAdmission(d, p, d.action.digest)
             /\ \A other : other # d.action.digest =>
                  ToolVerdict(d, p, class, other, "deterministic_orchestrator") # None
<1>. DEFINE class == Policy[p.capability].class
            digest == DependencyDigest(st.known, DependencyKeys(p))
            key == IF IsReplaySafe(Capabilities[p.capability]) THEN None ELSE p.occurrence
<1>1. /\ d.action = Action(p, digest, key) /\ d.action.digest = digest
      /\ \A other : d.action = Action(p, other, key) => other = digest
  BY DEF ActionId, Action
<1>2. digest # None
  <2>1. p.required \subseteq StateKeys
    BY ActionNamed
  <2>2. DependencyKeys(p) \in SUBSET StateKeys
    BY <2>1, StateResolved
  <2>3. DOMAIN digest \in SUBSET StateKeys /\ digest \in [DOMAIN digest -> Records]
    BY <2>2, DigestBinds
  <2>. HIDE DEF digest
  <2>. QED
    BY <2>3, NoneAssumption
<1>3. class \in AuthorityClasses
  BY GovernanceAssumption DEF ValidPermission
<1>4. \A other : ToolVerdict(d, p, class, other, "deterministic_orchestrator") = None =>
                   ValidToolAdmission(d, p, other)
  <2>1. None \notin GovernanceRejections
    BY GovernanceAssumption
  <2>. HIDE DEF class
  <2>. QED
    BY <2>1 DEF ToolVerdict, GovernanceRejections
<1>5. /\ Capabilities[p.capability].available
      /\ IsReplaySafe(Capabilities[p.capability]) <=> p.occurrence = None
  BY Screened
<1>6. FitsReplay(class, p) => (CachedRead(class) <=> p.occurrence = None)
  BY <1>5 DEF FitsReplay, IsReplaySafe
<1>. HIDE DEF digest, class, key
<1>7. BindsAction(d, p, digest) /\ \A other : BindsAction(d, p, other) => other = digest
  BY <1>1 DEF BindsAction, key
<1>8. Governable(p) <=> FitsReplay(class, p) /\ (IsMutation(class) => Policy[p.capability].mutation)
  BY DEF Governable, class
<1>9. Governable(p) => ValidToolAdmission(d, p, digest)
  BY <1>5, <1>6, <1>7, <1>8 DEF ValidToolAdmission, class
<1>10. ValidToolAdmission(d, p, digest) => Governable(p)
  BY <1>8 DEF ValidToolAdmission, class
<1>11. Governable(p) => ToolVerdict(d, p, class, digest, "deterministic_orchestrator") = None
  <2>. SUFFICES ASSUME Governable(p)
                PROVE  ToolVerdict(d, p, class, digest, "deterministic_orchestrator") = None
    OBVIOUS
  <2>1. ~ (IsMutation(class) /\ ~ Policy[p.capability].mutation)
    BY <1>8
  <2>2. CachedRead(class) <=> p.occurrence = None
    BY <1>6, <1>8
  <2>3. class = Policy[p.capability].class
    BY DEF class
  <2>. QED
    BY <1>2, <1>3, <1>9, <2>1, <2>2, <2>3 DEF ToolVerdict
<1>12. ToolVerdict(d, p, class, digest, "deterministic_orchestrator") = None <=> Governable(p)
  BY <1>4, <1>10, <1>11
<1>13. ASSUME NEW other, other # digest
       PROVE  ToolVerdict(d, p, class, other, "deterministic_orchestrator") # None
  <2>1. ~ ValidToolAdmission(d, p, other)
    BY <1>7, <1>13 DEF ValidToolAdmission
  <2>. QED
    BY <1>4, <2>1
<1>. QED
  BY <1>1, <1>9, <1>12, <1>13 DEF class

(***************************************************************************)
(* The tools governance admits are those of the admitted decisions it may  *)
(* govern.                                                                 *)
(***************************************************************************)
LEMMA ToolsGoverned ==
  ASSUME NEW st, Sound(st), NEW b \in Batches, AdmitBatch(st, b).status = "processed"
  PROVE  LET admitted == AdmittedDecisions(AdmitBatch(st, b))
             tools    == GovernedTools(AdmitBatch(st, b))
         IN  /\ \A t \in tools : /\ t.decision \in admitted /\ Governable(t.decision.proposal)
                                 /\ t = ToolAdmission(t.decision)
             /\ \A d \in admitted : Governable(d.proposal) => ToolAdmission(d) \in tools
<1>. DEFINE r == AdmitBatch(st, b)
            admitted == AdmittedDecisions(r)
            tools == GovernedTools(r)
            Verdict(d) ==
              ToolVerdict(d, d.proposal,
                          IF d.proposal.capability \in DOMAIN Policy
                          THEN Policy[d.proposal.capability].class ELSE "pure_read",
                          d.action.digest, "deterministic_orchestrator")
<1>1. tools = {ToolAdmission(d) : d \in {e \in admitted : Verdict(e) = None}}
  BY DEF GovernedTools
<1>2. ASSUME NEW d \in admitted PROVE Verdict(d) = None <=> Governable(d.proposal)
  <2>. DEFINE p == d.proposal
  <2>1. /\ d.status = "admitted" /\ d.because = {} /\ p \in Proposals
        /\ Screen(st, b.ordering, p) = Passed /\ d.action = ActionId(st, p)
    BY AdmittedSays
  <2>2. CASE p.capability \in DOMAIN Policy
    <3>1. ToolVerdict(d, p, Policy[p.capability].class, d.action.digest, "deterministic_orchestrator")
            = None <=> Governable(p)
      <4>. DEFINE o == b.ordering
      <4>. HIDE DEF p, o
      <4>1. d.proposal = p
        BY DEF p
      <4>2. Screen(st, o, p) = Passed
        BY <2>1 DEF o, p
      <4>. QED
        BY <2>1, <2>2, <4>1, <4>2, VerdictOn DEF p
    <3>2. Verdict(d) = ToolVerdict(d, p, Policy[p.capability].class, d.action.digest,
                                   "deterministic_orchestrator")
      BY <2>2
    <3>. HIDE DEF Verdict
    <3>. QED
      BY <3>1, <3>2
  <2>3. CASE p.capability \notin DOMAIN Policy
    <3>1. Verdict(d) = "UNKNOWN_TOOL_PERMISSION"
      BY <2>3 DEF ToolVerdict
    <3>2. Verdict(d) # None
      BY <3>1, GovernanceAssumption DEF GovernanceRejections
    <3>3. ~ Governable(p)
      BY <2>3 DEF Governable
    <3>. QED
      BY <3>2, <3>3
  <2>. QED
    BY <2>2, <2>3
<1>3. \A d : ToolAdmission(d).decision = d
  BY DEF ToolAdmission
<1>. HIDE DEF admitted, tools, Verdict
<1>4. \A t \in tools : \E d \in admitted : Governable(d.proposal) /\ t = ToolAdmission(d)
  BY <1>1, <1>2
<1>5. \A d \in admitted : Governable(d.proposal) => ToolAdmission(d) \in tools
  BY <1>1, <1>2
<1>6. \A t \in tools : /\ t.decision \in admitted /\ Governable(t.decision.proposal)
                       /\ t = ToolAdmission(t.decision)
  BY <1>3, <1>4
<1>. QED
  BY <1>5, <1>6 DEF admitted, tools

(***************************************************************************)
(* Of the conditions to bind an orchestration with tools of its own, only  *)
(* the exactness of the authorization is not met by construction.          *)
(***************************************************************************)
LEMMA BindsWhenExact ==
  ASSUME NEW st, Sound(st), NEW b \in Batches, AdmitBatch(st, b).status = "processed",
         NEW tools \in SUBSET GovernedTools(AdmitBatch(st, b))
  PROVE  /\ \A s, t \in tools : s.action = t.action => s = t
         /\ OrchestrationBinds(AdmitBatch(st, b), b.ordering, tools)
              <=> AuthorizesExactly(AdmitBatch(st, b), tools)
<1>. DEFINE r == AdmitBatch(st, b)
            admitted == AdmittedDecisions(r)
<1>0. r.status = "processed"
  OBVIOUS
<1>1. \A t \in tools : /\ t.decision \in admitted /\ Governable(t.decision.proposal)
                       /\ t = ToolAdmission(t.decision)
  BY ToolsGoverned
<1>2. \A d, e \in admitted : d.action = e.action => d = e
  BY AdmittedDiffer
<1>3. \A d \in admitted :
        /\ d.action = ActionId(st, d.proposal) /\ Screen(st, b.ordering, d.proposal) = Passed
  BY AdmittedSays
<1>4. DuplicatesGrounded(r)
  <2>. DEFINE n == Len(OrderedProposals(b))
              ds == r.decisions
  <2>1. n \in Nat /\ DOMAIN ds = 1..n /\ \A i \in 1..n : ds[i] = DecisionAt(st, b, i)
    BY DecisionsByPosition
  <2>2. ASSUME NEW i \in 1..n, DecisionAt(st, b, i).status = "deduplicated"
        PROVE  \E k \in 1..(i - 1) : /\ DecisionAt(st, b, k).status = "admitted"
                                     /\ DecisionAt(st, b, k).proposal = DecisionAt(st, b, i).equivalent
                                     /\ DecisionAt(st, b, k).action = DecisionAt(st, b, i).action
    BY <2>2, DuplicateFounded
  <2>. HIDE DEF n, ds
  <2>3. ASSUME NEW i \in 1..n, ds[i].status = "deduplicated"
        PROVE  \E k \in 1..(i - 1) : /\ ds[k].status = "admitted"
                                     /\ ds[k].proposal = ds[i].equivalent /\ ds[k].action = ds[i].action
    <3>1. PICK k \in 1..(i - 1) : /\ DecisionAt(st, b, k).status = "admitted"
                                  /\ DecisionAt(st, b, k).proposal = DecisionAt(st, b, i).equivalent
                                  /\ DecisionAt(st, b, k).action = DecisionAt(st, b, i).action
      BY <2>1, <2>2, <2>3
    <3>2. k \in 1..n
      BY <2>1
    <3>. QED
      BY <2>1, <3>1, <3>2
  <2>. HIDE DEF r
  <2>. QED
    BY <2>1, <2>3 DEF DuplicatesGrounded, ds
<1>. HIDE DEF admitted, r
<1>5. \A t \in tools : /\ t.action = t.decision.action /\ t.tool = t.decision.proposal.capability
                       /\ t.class = Policy[t.decision.proposal.capability].class
  BY <1>1 DEF ToolAdmission
<1>6. ASSUME NEW s \in tools, NEW t \in tools, s.action = t.action PROVE s = t
  <2>1. s.decision.action = t.decision.action
    BY <1>5, <1>6
  <2>2. s.decision = t.decision
    BY <1>1, <1>2, <2>1
  <2>. QED
    BY <1>1, <2>2
<1>7. ASSUME NEW t \in tools, Capabilities[t.tool].replay = "occurrence_sensitive"
      PROVE  b.ordering = "declared_sequence"
  <2>. DEFINE p == t.decision.proposal
  <2>1. Screen(st, b.ordering, p) = Passed
    BY <1>1, <1>3
  <2>2. Capabilities[p.capability].replay # "cacheable_read" => b.ordering = "declared_sequence"
    BY <2>1, Screened
  <2>. QED
    BY <1>5, <1>7, <2>2
<1>8. ASSUME NEW s \in tools, CachedRead(s.class), NEW t \in tools, CachedRead(t.class),
             RuntimeCacheKey(s) = RuntimeCacheKey(t)
      PROVE  s = t
  <2>1. s.tool = t.tool /\ s.action.arguments = t.action.arguments /\ s.action.digest = t.action.digest
    BY <1>8 DEF RuntimeCacheKey
  <2>2. ASSUME NEW u \in tools, CachedRead(u.class)
        PROVE  u.action = [capability |-> u.tool, arguments |-> u.action.arguments,
                           digest |-> u.action.digest, occurrence |-> None]
    <3>. DEFINE p == u.decision.proposal
    <3>1. FitsReplay(u.class, p)
      BY <1>1, <1>5 DEF Governable
    <3>2. IsReplaySafe(Capabilities[p.capability])
      BY <2>2, <3>1 DEF FitsReplay, IsReplaySafe
    <3>3. u.action = ActionId(st, p) /\ u.tool = p.capability
      BY <1>1, <1>3, <1>5
    <3>4. ActionId(st, p) = Action(p, DependencyDigest(st.known, DependencyKeys(p)), None)
      BY <3>2 DEF ActionId
    <3>. HIDE DEF p
    <3>. QED
      BY <3>3, <3>4 DEF Action
  <2>3. s.action = t.action
    <3>1. s.action = [capability |-> s.tool, arguments |-> s.action.arguments,
                      digest |-> s.action.digest, occurrence |-> None]
      BY <1>8, <2>2
    <3>2. t.action = [capability |-> t.tool, arguments |-> t.action.arguments,
                      digest |-> t.action.digest, occurrence |-> None]
      BY <1>8, <2>2
    <3>. QED
      BY <2>1, <3>1, <3>2
  <2>. QED
    BY <1>6, <2>3
<1>9. \A m, n \in Manifest({t \in tools : CachedRead(t.class)}) : m.key = n.key => m = n
  <2>. SUFFICES ASSUME NEW m \in Manifest({t \in tools : CachedRead(t.class)}),
                       NEW n \in Manifest({t \in tools : CachedRead(t.class)}), m.key = n.key
                PROVE  m = n
    OBVIOUS
  <2>. DEFINE Entry(t) == [action |-> t.action, key |-> RuntimeCacheKey(t), class |-> t.class,
                           reuse |-> t.reuse]
  <2>1. PICK s \in tools : CachedRead(s.class) /\ m = Entry(s)
    BY DEF Manifest
  <2>2. PICK t \in tools : CachedRead(t.class) /\ n = Entry(t)
    BY DEF Manifest
  <2>3. m.key = RuntimeCacheKey(s) /\ n.key = RuntimeCacheKey(t)
    BY <2>1, <2>2
  <2>4. s = t
    BY <1>8, <2>1, <2>2, <2>3
  <2>. QED
    BY <2>1, <2>2, <2>4
<1>10. \A d, e \in AdmittedDecisions(r) : d.action = e.action => d = e
  BY <1>2 DEF admitted
<1>11. OrchestrationBinds(r, b.ordering, tools) <=> AuthorizesExactly(r, tools)
  BY <1>0, <1>4, <1>6, <1>7, <1>9, <1>10 DEF OrchestrationBinds
<1>. QED
  BY <1>6, <1>11 DEF r

(***************************************************************************)
(* A processed batch binds with the tools it is granted exactly when each  *)
(* of its admitted actions may be governed.                                *)
(***************************************************************************)
LEMMA BindsGovernable ==
  ASSUME NEW st, Sound(st), NEW b \in Batches, AdmitBatch(st, b).status = "processed"
  PROVE  OrchestrationBinds(AdmitBatch(st, b), b.ordering, GovernedTools(AdmitBatch(st, b)))
           <=> \A d \in AdmittedDecisions(AdmitBatch(st, b)) : Governable(d.proposal)
<1>. DEFINE r == AdmitBatch(st, b)
            admitted == AdmittedDecisions(r)
            tools == GovernedTools(r)
<1>1. /\ \A t \in tools : /\ t.decision \in admitted /\ Governable(t.decision.proposal)
                          /\ t = ToolAdmission(t.decision)
      /\ \A d \in admitted : Governable(d.proposal) => ToolAdmission(d) \in tools
  BY ToolsGoverned
<1>2. OrchestrationBinds(r, b.ordering, tools) <=> AuthorizesExactly(r, tools)
  <2>1. tools \in SUBSET GovernedTools(r)
    OBVIOUS
  <2>. HIDE DEF tools
  <2>. QED
    BY <2>1, BindsWhenExact
<1>3. \A d, e \in admitted : d.action = e.action => d = e
  BY AdmittedDiffer
<1>4. \A d : ToolAdmission(d).action = d.action
  BY DEF ToolAdmission
<1>. HIDE DEF tools, admitted
<1>5. \A t \in tools : t.action = t.decision.action
  BY <1>1, <1>4
<1>6. AuthorizesExactly(r, tools) <=> {t.action : t \in tools} = {d.action : d \in admitted}
  BY <1>1 DEF AuthorizesExactly, AuthorizesActions, admitted
<1>7. ASSUME {t.action : t \in tools} = {d.action : d \in admitted}, NEW d \in admitted
      PROVE  Governable(d.proposal)
  <2>1. d.action \in {t.action : t \in tools}
    BY <1>7
  <2>2. PICK t \in tools : t.action = d.action
    BY <2>1
  <2>3. t.decision = d
    BY <1>1, <1>3, <1>5, <2>2
  <2>. QED
    BY <1>1, <2>3
<1>8. ASSUME \A d \in admitted : Governable(d.proposal)
      PROVE  {t.action : t \in tools} = {d.action : d \in admitted}
  <2>1. \A t \in tools : t.action \in {d.action : d \in admitted}
    BY <1>1, <1>5
  <2>2. \A d \in admitted : ToolAdmission(d) \in tools /\ ToolAdmission(d).action = d.action
    BY <1>1, <1>4, <1>8
  <2>3. \A d \in admitted : d.action \in {t.action : t \in tools}
    BY <2>2
  <2>. QED
    BY <2>1, <2>3
<1>. QED
  BY <1>2, <1>6, <1>7, <1>8 DEF tools, admitted

(***************************************************************************)
(* It does not bind with one tool fewer.                                   *)
(***************************************************************************)
LEMMA BindsNoFewer ==
  ASSUME NEW st, Sound(st), NEW b \in Batches, AdmitBatch(st, b).status = "processed",
         NEW t \in GovernedTools(AdmitBatch(st, b))
  PROVE  ~ OrchestrationBinds(AdmitBatch(st, b), b.ordering,
                              GovernedTools(AdmitBatch(st, b)) \ {t})
<1>. DEFINE r == AdmitBatch(st, b)
            admitted == AdmittedDecisions(r)
            tools == GovernedTools(r)
            fewer == tools \ {t}
<1>1. t.decision \in admitted /\ t = ToolAdmission(t.decision)
  BY ToolsGoverned
<1>2. \A s \in tools : s.action = t.action => s = t
  <2>1. tools \in SUBSET GovernedTools(r) /\ t \in tools
    OBVIOUS
  <2>. HIDE DEF tools
  <2>. QED
    BY <2>1, BindsWhenExact
<1>3. OrchestrationBinds(r, b.ordering, fewer) <=> AuthorizesExactly(r, fewer)
  <2>1. fewer \in SUBSET GovernedTools(r)
    OBVIOUS
  <2>. HIDE DEF fewer
  <2>. QED
    BY <2>1, BindsWhenExact
<1>4. t.action = t.decision.action
  BY <1>1 DEF ToolAdmission
<1>5. ~ AuthorizesExactly(r, fewer)
  <2>1. \A s \in fewer : s.action # t.decision.action
    BY <1>2, <1>4
  <2>. HIDE DEF fewer, tools
  <2>. QED
    BY <1>1, <2>1 DEF AuthorizesExactly, AuthorizesActions
<1>. QED
  BY <1>3, <1>5

(***************************************************************************)
(* The validator rebuilds a tool from its own decision and no other.       *)
(***************************************************************************)
LEMMA ToolRebuilt ==
  ASSUME NEW st, Sound(st), NEW b \in Batches, AdmitBatch(st, b).status = "processed",
         NEW t \in GovernedTools(AdmitBatch(st, b)), NEW d
  PROVE  ValidatesToolAdmission(t, d) <=> t.decision = d
<1>. DEFINE admitted == AdmittedDecisions(AdmitBatch(st, b))
            e == t.decision
            p == e.proposal
<1>1. e \in admitted /\ Governable(p) /\ t = ToolAdmission(e)
  BY ToolsGoverned
<1>2. \A x : ToolAdmission(x).decision = x
  BY DEF ToolAdmission
<1>3. ValidatesToolAdmission(t, d) => t.decision = d
  <2>1. ValidatesToolAdmission(t, d) => t = ToolAdmission(d)
    BY DEF ValidatesToolAdmission
  <2>. QED
    BY <1>2, <2>1
<1>4. ValidatesToolAdmission(t, e)
  <2>1. /\ e.status = "admitted" /\ e.because = {} /\ p \in Proposals
        /\ Screen(st, b.ordering, p) = Passed /\ e.action = ActionId(st, p)
    BY <1>1, AdmittedSays
  <2>2. p.capability \in DOMAIN Policy
    BY <1>1 DEF Governable
  <2>3. /\ t.tool = p.capability /\ t.class = Policy[p.capability].class
        /\ t.action = e.action
    BY <1>1 DEF ToolAdmission
  <2>4. ValidToolAdmission(e, p, e.action.digest)
    <3>. DEFINE o == b.ordering
    <3>1. e.proposal = p /\ Screen(st, o, p) = Passed
      BY <2>1
    <3>2. e.status = "admitted" /\ e.because = {} /\ e.action = ActionId(st, p)
      BY <2>1
    <3>3. p \in Proposals /\ Governable(p)
      BY <1>1, <2>1
    <3>. HIDE DEF e, p, o
    <3>. QED
      BY <2>2, <3>1, <3>2, <3>3, VerdictOn
  <2>5. ValidToolAdmission(e, e.proposal, t.action.digest)
    BY <2>3, <2>4
  <2>. HIDE DEF e
  <2>. QED
    BY <1>1, <2>2, <2>3, <2>5 DEF ValidatesToolAdmission
<1>. QED
  BY <1>3, <1>4

(***************************************************************************)
(* The tools of a batch do not bind it when it is submitted again and      *)
(* admits something: its decisions are new.                                *)
(***************************************************************************)
LEMMA BindsOnce ==
  ASSUME NEW st, Sound(st), NEW b \in Batches, AdmitBatch(st, b).status = "processed"
  PROVE  LET first  == AdmitBatch(st, b)
             second == AdmitBatch(first.next, b)
         IN  AdmittedDecisions(second) # {} =>
               ~ OrchestrationBinds(second, b.ordering, GovernedTools(first))
<1>. DEFINE first == AdmitBatch(st, b)
            after == first.next
            second == AdmitBatch(after, b)
            tools == GovernedTools(first)
<1>1. \A t \in tools : t.decision \in AdmittedDecisions(first)
  BY ToolsGoverned
<1>2. Sound(after)
  <2>1. Ranked(b.proposals) /\ Len(b.proposals) > 0
    BY BatchRanked
  <2>. QED
    BY <2>1, BatchAdvances, Zenon
<1>3. \A d \in AdmittedDecisions(first) : d.tick \in Nat /\ d.tick <= after.tick
  BY AdmittedSays
<1>4. after.tick \in Nat
  BY <1>2 DEF Sound
<1>. HIDE DEF after, tools, first
<1>5. ASSUME second.status = "processed", NEW d \in AdmittedDecisions(second)
      PROVE  d.tick \in Nat /\ after.tick < d.tick
  BY <1>2, <1>5, AdmittedSays
<1>. HIDE DEF second
<1>6. ASSUME AdmittedDecisions(second) # {}, OrchestrationBinds(second, b.ordering, tools)
      PROVE  FALSE
  <2>1. /\ second.status = "processed" /\ AuthorizesActions(second, tools)
        /\ \A t \in tools : t.decision \in AdmittedDecisions(second)
    BY <1>6 DEF OrchestrationBinds, AuthorizesExactly
  <2>2. PICK t \in tools : TRUE
    BY <1>6, <2>1 DEF AuthorizesActions
  <2>. QED
    BY <1>1, <1>3, <1>4, <1>5, <2>1, <2>2
<1>. QED
  BY <1>6 DEF after, tools, first, second

(***************************************************************************)
(* The two layers agree: a processed batch binds exactly when governance   *)
(* can authorize each admitted action, with all tools and not with fewer,  *)
(* under no other state of knowledge and not again for the same batch.     *)
(***************************************************************************)
THEOREM AuthorizationSafety == SpecOrchestration => []AuthorizationsExact
<1>1. OrchInv => AuthorizationsExact
  <2>. SUFFICES ASSUME OrchInv, NEW b \in Batches, AdmitBatch(orch, b).status = "processed"
                PROVE  LET first    == AdmitBatch(orch, b)
                           second   == AdmitBatch(first.next, b)
                           admitted == AdmittedDecisions(first)
                           tools    == GovernedTools(first)
                       IN  /\ OrchestrationBinds(first, b.ordering, tools)
                                <=> \A d \in admitted : Governable(d.proposal)
                           /\ \A t \in tools : ~ OrchestrationBinds(first, b.ordering, tools \ {t})
                           /\ \A d \in admitted :
                                \A dependency \in NearbyDependencies(d.action.digest) \ {d.action.digest} :
                                  d.proposal.capability \in DOMAIN Policy =>
                                    ToolVerdict(d, d.proposal, Policy[d.proposal.capability].class,
                                                dependency, "deterministic_orchestrator") # None
                           /\ \A t \in tools, d \in admitted \cup AdmittedDecisions(second) :
                                ValidatesToolAdmission(t, d) <=> t.decision = d
                           /\ AdmittedDecisions(second) # {} =>
                                ~ OrchestrationBinds(second, b.ordering, tools)
    BY DEF AuthorizationsExact
  <2>. DEFINE st == orch
              first == AdmitBatch(st, b)
              second == AdmitBatch(first.next, b)
              admitted == AdmittedDecisions(first)
              tools == GovernedTools(first)
  <2>0. Sound(st) /\ first.status = "processed"
    BY DEF OrchInv
  <2>. HIDE DEF st
  <2>1. OrchestrationBinds(first, b.ordering, tools) <=> \A d \in admitted : Governable(d.proposal)
    BY <2>0, BindsGovernable
  <2>2. \A t \in tools : ~ OrchestrationBinds(first, b.ordering, tools \ {t})
    BY <2>0, BindsNoFewer
  <2>3. ASSUME NEW d \in admitted, NEW other, other # d.action.digest,
               d.proposal.capability \in DOMAIN Policy
        PROVE  ToolVerdict(d, d.proposal, Policy[d.proposal.capability].class, other,
                           "deterministic_orchestrator") # None
    <3>. DEFINE p == d.proposal
                o == b.ordering
    <3>1. /\ d.status = "admitted" /\ d.because = {} /\ p \in Proposals
          /\ Screen(st, o, p) = Passed /\ d.action = ActionId(st, p)
      BY <2>0, AdmittedSays
    <3>2. d.proposal = p /\ p.capability \in DOMAIN Policy
      BY <2>3
    <3>. HIDE DEF p, o
    <3>3. ToolVerdict(d, p, Policy[p.capability].class, other, "deterministic_orchestrator") # None
      BY <2>0, <2>3, <3>1, <3>2, VerdictOn
    <3>. QED
      BY <3>3 DEF p
  <2>4. \A t \in tools : \A d : ValidatesToolAdmission(t, d) <=> t.decision = d
    BY <2>0, ToolRebuilt
  <2>5. AdmittedDecisions(second) # {} => ~ OrchestrationBinds(second, b.ordering, tools)
    BY <2>0, BindsOnce, Zenon
  <2>. HIDE DEF first, second, admitted, tools
  <2>. QED
    BY <2>1, <2>2, <2>3, <2>4, <2>5 DEF first, second, admitted, tools, st
<1>. QED
  BY <1>1, OrchestrationInvariant, PTL
=============================================================================
