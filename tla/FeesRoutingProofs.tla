-------------------------- MODULE FeesRoutingProofs -------------------------
(***************************************************************************)
(* Theorems about Fees, and in its second half about Routing (the instance *)
(* R), for any number of runs and any values.                              *)
(*                                                                         *)
(* The argument for FeeWasInForce.  A lookup that no change has overtaken   *)
(* has passed rules that do not apply.  One change may make a rule it has  *)
(* passed apply, but then the rule it goes on to find is still the one     *)
(* that was in force before.  So the first rule that applies from where    *)
(* the lookup is has been in force, as long as one change overtakes it at  *)
(* most (OnTrack).                                                         *)
(***************************************************************************)
EXTENDS Fees, Routes, TLAPS

App(rs, s) == rs[s] # None /\ rs[s].active /\ ~rs[s].inherit

Ans(rs, s) == [slot |-> s, type |-> rs[s].type, value |-> rs[s].value]

IsFirst(rs, k, s) == s \in k..6 /\ App(rs, s) /\ \A t \in k..(s - 1) : ~App(rs, t)

\* The answer a lookup gets that goes on at k and that nothing overtakes.
First(rs, k) ==
    IF \E s \in k..6 : App(rs, s) THEN Ans(rs, CHOOSE s \in Slot : IsFirst(rs, k, s)) ELSE None

OnTrack ==
    \A r \in Request : Reading(r) =>
        /\ reqs[r].changes = 0 => \A s \in 1..(reqs[r].at - 1) : ~Applies(s)
        /\ reqs[r].changes <= 1 => First(rules, reqs[r].at) \in reqs[r].seen

\* Rules without a fee, inheriting ones among them, have inherited.
Unpriced == \A s \in Slot : rules[s] # None /\ (rules[s].inherit \/ ~Priced(rules[s])) => s \in inherited

----------------------------------------------------------------------------
(* The arithmetic of computeFee.                                           *)

\* A percentage of a larger amount is not smaller.
LEMMA TimesGrows ==
    ASSUME NEW a \in Nat, NEW b \in Nat, NEW v \in Nat, a <= b
    PROVE  a * v <= b * v /\ a * v \in Nat /\ b * v \in Nat
<1>1. PICK c \in Nat : b = a + c
  BY b - a \in Nat
<1>2. b * v = a * v + c * v
  BY <1>1
<1>3. c * v \in Nat /\ a * v \in Nat
  OBVIOUS
<1> QED
  BY <1>2, <1>3

\* Under one rule a larger payment never has a smaller fee.
THEOREM FeeGrows ==
    ASSUME NEW type \in Type, NEW value \in Nat, NEW min \in Nat,
           NEW max \in Nat \cup {None}, NEW a \in Nat, NEW b \in Nat, a <= b
    PROVE  ComputeFee(type, value, min, max, a) <= ComputeFee(type, value, min, max, b)
<1>1. a * value <= b * value /\ a * value \in Nat /\ b * value \in Nat
  BY TimesGrows
<1>2. CASE type = "flat"
  BY <1>2 DEF ComputeFee
<1>3. CASE type # "flat" /\ max = None
  BY <1>1, <1>3 DEF ComputeFee, Cap, Floor
<1>4. CASE type # "flat" /\ max # None
  <2>1. max \in Nat
    BY <1>4
  <2> DEFINE x == a * value
             y == b * value
  <2>2. x \in Nat /\ y \in Nat /\ x <= y
    BY <1>1
  <2> HIDE DEF x, y
  <2>3. Cap(Floor(x, min), max) <= Cap(Floor(y, min), max)
    BY <2>1, <2>2 DEF Cap, Floor
  <2> QED
    BY <1>4, <2>3 DEF ComputeFee, x, y
<1> QED
  BY <1>2, <1>3, <1>4

\* The fee of a percentage rule is never above its upper bound, and never below
\* its lower one unless the bounds are the wrong way round, which no check of the
\* rules prevents.
THEOREM FeeWithinBounds ==
    ASSUME NEW value \in Nat, NEW min \in Nat, NEW max \in Nat \cup {None}, NEW a \in Nat
    PROVE  LET fee == ComputeFee("percent", value, min, max, a) IN
           /\ max # None => fee <= 100 * max
           /\ max = None \/ min <= max => 100 * min <= fee
<1>1. a * value \in Nat
  OBVIOUS
<1> DEFINE x == a * value
<1>2. x \in Nat
  BY <1>1
<1> HIDE DEF x
<1>3. ASSUME max # None
      PROVE  /\ Cap(Floor(x, min), max) <= 100 * max
             /\ min <= max => 100 * min <= Cap(Floor(x, min), max)
  <2>1. max \in Nat
    BY <1>3
  <2> QED
    BY <1>2, <1>3, <2>1 DEF Cap, Floor
<1>4. 100 * min <= Cap(Floor(x, min), None)
  BY <1>2 DEF Cap, Floor
<1> QED
  BY <1>3, <1>4 DEF ComputeFee, x
----------------------------------------------------------------------------
(* What lookups find.                                                      *)

\* There is a first rule that applies, and only one.
LEMMA FirstIsOne ==
    ASSUME NEW rs, NEW k \in 1..7, NEW s \in Slot, IsFirst(rs, k, s)
    PROVE  First(rs, k) = Ans(rs, s)
<1>1. \A t \in Slot : IsFirst(rs, k, t) => t = s
  <2>1. SUFFICES ASSUME NEW t \in Slot, IsFirst(rs, k, t) PROVE t = s
    OBVIOUS
  <2>2. ~(t < s) /\ ~(s < t)
    BY <2>1 DEF IsFirst, Slot
  <2> QED
    BY <2>2 DEF Slot
<1>2. (CHOOSE t \in Slot : IsFirst(rs, k, t)) = s
  BY <1>1
<1>3. \E t \in k..6 : App(rs, t)
  BY DEF IsFirst
<1> QED
  BY <1>2, <1>3 DEF First

LEMMA FirstExists ==
    ASSUME NEW rs, NEW k \in 1..7, NEW t \in k..6, App(rs, t)
    PROVE  \E s \in k..t : IsFirst(rs, k, s)
<1>1. \/ App(rs, 1) /\ k <= 1
      \/ App(rs, 2) /\ k <= 2 /\ \A u \in k..1 : ~App(rs, u)
      \/ App(rs, 3) /\ k <= 3 /\ \A u \in k..2 : ~App(rs, u)
      \/ App(rs, 4) /\ k <= 4 /\ \A u \in k..3 : ~App(rs, u)
      \/ App(rs, 5) /\ k <= 5 /\ \A u \in k..4 : ~App(rs, u)
      \/ App(rs, 6) /\ k <= 6 /\ \A u \in k..5 : ~App(rs, u)
  OBVIOUS
<1> QED
  BY <1>1 DEF IsFirst

\* A rule that does not apply can be passed.
LEMMA FirstPasses ==
    ASSUME NEW rs, NEW k \in 1..7, NEW m \in k..7, \A s \in k..(m - 1) : ~App(rs, s)
    PROVE  First(rs, m) = First(rs, k)
<1>1. CASE \A s \in m..6 : ~App(rs, s)
  BY <1>1 DEF First
<1>2. ASSUME NEW t \in m..6, App(rs, t) PROVE First(rs, m) = First(rs, k)
  <2>1. PICK s \in m..t : IsFirst(rs, m, s)
    BY <1>2, FirstExists
  <2>2. s \in Slot /\ IsFirst(rs, k, s)
    BY <2>1 DEF IsFirst, Slot
  <2> QED
    BY <2>1, <2>2, FirstIsOne
<1> QED
  BY <1>1, <1>2

\* A change of a rule that was passed does not matter.
LEMMA FirstUnchanged ==
    ASSUME NEW rs, NEW rt, NEW k \in 1..7, \A s \in k..6 : rt[s] = rs[s]
    PROVE  First(rt, k) = First(rs, k)
<1>1. \A s \in k..6 : (App(rt, s) <=> App(rs, s)) /\ Ans(rt, s) = Ans(rs, s)
  BY DEF App, Ans
<1>2. CASE \A s \in k..6 : ~App(rs, s)
  BY <1>1, <1>2 DEF First
<1>3. ASSUME NEW t \in k..6, App(rs, t) PROVE First(rt, k) = First(rs, k)
  <2>1. PICK s \in k..t : IsFirst(rs, k, s)
    BY <1>3, FirstExists
  <2>2. s \in Slot /\ IsFirst(rt, k, s)
    BY <1>1, <2>1 DEF IsFirst, Slot
  <2> QED
    BY <1>1, <2>1, <2>2, FirstIsOne
<1> QED
  BY <1>2, <1>3

InForceOf(rs) ==
    IF \E s \in Slot : App(rs, s)
    THEN Ans(rs, CHOOSE s \in Slot : App(rs, s) /\ \A t \in 1..(s - 1) : ~App(rs, t))
    ELSE None

\* The rule in force is the first of all.
LEMMA InForceIsFirst ==
    ASSUME NEW rs
    PROVE  InForceOf(rs) = First(rs, 1)
<1>1. \A s \in Slot : (App(rs, s) /\ \A t \in 1..(s - 1) : ~App(rs, t)) <=> IsFirst(rs, 1, s)
  BY DEF IsFirst, Slot
<1>2. CASE \A s \in Slot : ~App(rs, s)
  BY <1>2 DEF InForceOf, First, Slot
<1>3. ASSUME NEW t \in Slot, App(rs, t) PROVE InForceOf(rs) = First(rs, 1)
  <2>1. PICK s \in 1..t : IsFirst(rs, 1, s)
    BY <1>3, FirstExists DEF Slot
  <2>2. s \in Slot
    BY <2>1 DEF Slot
  <2>3. \A u \in Slot : IsFirst(rs, 1, u) => u = s
    <3>1. SUFFICES ASSUME NEW u \in Slot, IsFirst(rs, 1, u) PROVE u = s
      OBVIOUS
    <3>2. ~(u < s) /\ ~(s < u)
      BY <2>1, <2>2, <3>1 DEF IsFirst, Slot
    <3> QED
      BY <2>2, <3>2 DEF Slot
  <2>4. InForceOf(rs) = Ans(rs, s)
    BY <1>1, <1>3, <2>1, <2>2, <2>3 DEF InForceOf
  <2> QED
    BY <2>1, <2>2, <2>4, FirstIsOne
<1> QED
  BY <1>2, <1>3

LEMMA InForceOfState == InForce = InForceOf(rules) /\ InForce' = InForceOf(rules')
BY DEF InForce, InForceOf, Applies, App, AnswerOf, Ans

\* An answer of lookups, whatever the rules.
LEMMA InForceType ==
    ASSUME NEW rs \in [Slot -> Rule \cup {None}]
    PROVE  InForceOf(rs) \in Answer
<1>1. \A s \in Slot : App(rs, s) => Ans(rs, s) \in Answer
  BY DEF App, Ans, Answer, Rule
<1>2. CASE \A s \in Slot : ~App(rs, s)
  BY <1>2 DEF InForceOf, Answer
<1>3. ASSUME NEW t \in Slot, App(rs, t) PROVE InForceOf(rs) \in Answer
  <2>1. PICK s \in 1..t : IsFirst(rs, 1, s)
    BY <1>3, FirstExists DEF Slot
  <2>2. s \in Slot /\ App(rs, s)
    BY <2>1 DEF IsFirst, Slot
  <2>3. InForceOf(rs) = Ans(rs, s)
    BY <2>1, <2>2, FirstIsOne, InForceIsFirst
  <2> QED
    BY <1>1, <2>2, <2>3
<1> QED
  BY <1>2, <1>3

----------------------------------------------------------------------------
(* Types.                                                                  *)

LEMMA RunTypes ==
    /\ \A x \in Search : x \notin Found /\ x # None /\ x # Over
    /\ \A x \in Found : x # None /\ x # Over
<1>1. \A x \in Search : x # None /\ x # Over
  BY FeesAssumption
<1>2. \A x \in Found : x # None /\ x # Over
  BY FeesAssumption
<1>3. \A x \in Search : x \notin Found
  BY DEF Search, Found
<1> QED
  BY <1>1, <1>2, <1>3

\* The rules after a change are rules.
LEMMA UpdatedType ==
    ASSUME NEW rule \in Rule, NEW a \in BOOLEAN \cup {None}, NEW i \in BOOLEAN \cup {None},
           NEW t \in Type \cup {None}, NEW v \in Value \cup {None}
    PROVE  Updated(rule, a, i, t, v) \in Rule
BY DEF Updated, Rule

LEMMA ChangeType ==
    ASSUME TypeOK, NEW r \in Request, NEW s \in Slot, NEW rule \in Rule \cup {None},
           Change(r, s, rule), inherited' \subseteq Slot
    PROVE  TypeOK'
<1>1. rules' \in [Slot -> Rule \cup {None}]
  BY DEF TypeOK, Change
<1>2. InForce' \in Answer
  BY <1>1, InForceType, InForceOfState
<1>3. ASSUME NEW q \in Request
      PROVE  reqs'[q] \in Search \cup Found \cup {None, Over}
  <2>1. CASE q # r /\ reqs[q] \in Search
    <3>1. reqs'[q] = [reqs[q] EXCEPT !.seen = @ \cup {InForce'}, !.changes = @ + 1]
      BY <2>1 DEF Change, Reading
    <3>2. reqs[q].seen \cup {InForce'} \in SUBSET Answer /\ reqs[q].changes + 1 \in Nat
      BY <1>2, <2>1 DEF Search
    <3> HIDE DEF InForce
    <3>3. [reqs[q] EXCEPT !.seen = @ \cup {InForce'}, !.changes = @ + 1] \in Search
      BY <2>1, <3>2 DEF Search
    <3> QED
      BY <3>1, <3>3
  <2>2. CASE q = r
    BY <2>2 DEF Change
  <2>3. CASE q # r /\ reqs[q] \notin Search
    <3>1. reqs'[q] = reqs[q]
      BY <2>3 DEF Change, Reading
    <3> QED
      BY <3>1 DEF TypeOK
  <2> QED
    BY <2>1, <2>2, <2>3
<1>4. reqs' \in [Request -> Search \cup Found \cup {None, Over}]
  BY <1>3 DEF Change
<1> QED
  BY <1>1, <1>4 DEF TypeOK

LEMMA ReadType ==
    ASSUME TypeOK, NEW r \in Request, Read(r)
    PROVE  TypeOK'
<1> DEFINE s == reqs[r].at
<1>1. reqs[r] \in Search /\ s \in Slot /\ reqs[r].seen \in SUBSET Answer /\ reqs[r].changes \in Nat
  BY DEF Read, Reading, Search
<1>2. Applies(s) => AnswerOf(s) \in Answer
  BY <1>1 DEF TypeOK, Applies, AnswerOf, Answer, Rule
<1>3. None \in Answer
  BY DEF Answer
<1>4. \A x \in Answer : End(r, x) => reqs' \in [Request -> Search \cup Found \cup {None, Over}]
  BY <1>1 DEF TypeOK, End, Found
<1>5. s < 6 => [reqs[r] EXCEPT !.at = s + 1] \in Search
  BY <1>1 DEF Search, Slot
<1>6. reqs' = [reqs EXCEPT ![r].at = s + 1] /\ s < 6 =>
        reqs' \in [Request -> Search \cup Found \cup {None, Over}]
  BY <1>5 DEF TypeOK
<1> QED
  BY <1>2, <1>3, <1>4, <1>6 DEF Read, TypeOK

\* Rules, runs and histories have the shapes the module gives them.
THEOREM TypeCorrect == Spec => []TypeOK
<1>1. Init => TypeOK
  <2>1. 1 \in Value /\ "percent" \in Type
    BY FeesAssumption DEF Type
  <2> QED
    BY <2>1 DEF Init, TypeOK, Fee, Rule
<1>2. TypeOK /\ [Next]_vars => TypeOK'
  <2> SUFFICES ASSUME TypeOK, [Next]_vars PROVE TypeOK'
    OBVIOUS
  <2>1. ASSUME NEW r \in Request, BeginLookup(r) PROVE TypeOK'
    <3>1. InForce \in Answer
      BY InForceType, InForceOfState DEF TypeOK
    <3> HIDE DEF InForce
    <3>2. [at |-> 1, seen |-> {InForce}, changes |-> 0] \in Search
      BY <3>1 DEF Search, Slot
    <3> QED
      BY <2>1, <3>2 DEF TypeOK, BeginLookup
  <2>2. ASSUME NEW r \in Request, Read(r) PROVE TypeOK'
    BY <2>2, ReadType
  <2>3. ASSUME NEW r \in Request, NEW s \in Slot, Create(r, s) PROVE TypeOK'
    <3>1. \A t \in Type, v \in Value : Fee(t, v) \in Rule
      BY DEF Fee, Rule
    <3>2. [Fee(None, None) EXCEPT !.inherit = TRUE] \in Rule
      BY DEF Fee, Rule
    <3>3. inherited' \subseteq Slot
      BY <2>3 DEF Create, TypeOK
    <3>4. \E rule \in Rule : Change(r, s, rule)
      BY <2>3, <3>1, <3>2 DEF Create
    <3> QED
      BY <3>3, <3>4, ChangeType
  <2>4. ASSUME NEW r \in Request, NEW s \in Slot, Update(r, s) PROVE TypeOK'
    <3>1. rules[s] \in Rule
      BY <2>4 DEF Update, TypeOK
    <3>2. PICK a \in BOOLEAN \cup {None}, i \in BOOLEAN \cup {None}, t \in Type \cup {None},
               v \in Value \cup {None} : Change(r, s, Updated(rules[s], a, i, t, v))
      BY <2>4 DEF Update
    <3>3. Updated(rules[s], a, i, t, v) \in Rule
      BY <3>1, UpdatedType
    <3>4. inherited' \subseteq Slot
      BY <2>4 DEF Update, TypeOK
    <3> QED
      BY <3>2, <3>3, <3>4, ChangeType
  <2>5. ASSUME NEW r \in Request, NEW s \in Slot, Delete(r, s) PROVE TypeOK'
    <3>1. Change(r, s, None) /\ inherited' \subseteq Slot
      BY <2>5 DEF Delete, TypeOK
    <3> QED
      BY <3>1, ChangeType
  <2>6. CASE Crash
    BY <2>6 DEF Crash, TypeOK
  <2>7. CASE UNCHANGED vars
    BY <2>7 DEF vars, TypeOK
  <2> QED
    BY <2>1, <2>2, <2>3, <2>4, <2>5, <2>6, <2>7 DEF Next
<1> QED
  BY <1>1, <1>2, PTL DEF Spec

----------------------------------------------------------------------------
(* FeesHaveValues.                                                         *)

\* A rule that applies has a type and a value, or has inherited before.
THEOREM FeesValued == Spec => []FeesHaveValues
<1>1. Init => Unpriced
  <2>1. None # "percent" /\ None # 1
    BY FeesAssumption DEF Type
  <2> QED
    BY <2>1 DEF Init, Unpriced, Fee, Priced
<1>2. TypeOK /\ Unpriced /\ [Next]_vars => Unpriced'
  <2> SUFFICES ASSUME TypeOK, Unpriced, [Next]_vars PROVE Unpriced'
    OBVIOUS
  <2> USE DEF Unpriced
  <2>1. ASSUME NEW r \in Request, NEW s \in Slot, NEW rule, Change(r, s, rule)
        PROVE  rules'[s] = rule /\ \A u \in Slot : u # s => rules'[u] = rules[u]
    BY <2>1 DEF Change, TypeOK
  <2>2. ASSUME NEW r \in Request, NEW s \in Slot, Create(r, s) PROVE Unpriced'
    <3>1. CASE \E t \in Type, v \in Value : Change(r, s, Fee(t, v)) /\ inherited' = inherited \ {s}
      <4>1. PICK t \in Type, v \in Value : Change(r, s, Fee(t, v)) /\ inherited' = inherited \ {s}
        BY <3>1
      <4>2. ~Fee(t, v).inherit /\ Priced(Fee(t, v))
        BY FeesAssumption DEF Fee, Priced
      <4>3. rules'[s] = Fee(t, v) /\ \A u \in Slot : u # s => rules'[u] = rules[u]
        BY <2>1, <4>1
      <4> QED
        BY <4>1, <4>2, <4>3 DEF Priced
    <3>2. CASE \E rule : Change(r, s, rule) /\ inherited' = inherited \cup {s}
      <4>1. PICK rule : Change(r, s, rule) /\ inherited' = inherited \cup {s}
        BY <3>2
      <4>2. \A u \in Slot : u # s => rules'[u] = rules[u]
        BY <2>1, <4>1
      <4> QED
        BY <4>1, <4>2 DEF Priced
    <3> QED
      BY <2>2, <3>1, <3>2 DEF Create
  <2>3. ASSUME NEW r \in Request, NEW s \in Slot, Update(r, s) PROVE Unpriced'
    <3>1. PICK a \in BOOLEAN \cup {None}, i \in BOOLEAN \cup {None}, t \in Type \cup {None},
               v \in Value \cup {None} :
            /\ Change(r, s, Updated(rules[s], a, i, t, v))
            /\ inherited' = IF i = TRUE THEN inherited \cup {s} ELSE inherited
      BY <2>3 DEF Update
    <3>2. rules'[s] = Updated(rules[s], a, i, t, v) /\ \A u \in Slot : u # s => rules'[u] = rules[u]
      BY <2>1, <3>1
    <3>3. \A u \in Slot : u # s /\ rules'[u] # None /\ (rules'[u].inherit \/ ~Priced(rules'[u])) => u \in inherited'
      BY <3>1, <3>2
    <3>4. CASE i = TRUE
      BY <3>1, <3>3, <3>4 DEF Priced
    <3>5. CASE i # TRUE
      <4>1. rules[s] # None
        BY <2>3 DEF Update
      <4>2. CASE rules[s].inherit \/ ~Priced(rules[s])
        BY <3>1, <3>3, <3>5, <4>1, <4>2 DEF Priced
      <4>3. CASE ~rules[s].inherit /\ Priced(rules[s])
        <5>1. rules'[s].type # None /\ rules'[s].value # None
          <6>1. /\ rules'[s].type = IF t = None THEN rules[s].type ELSE t
                /\ rules'[s].value = IF v = None THEN rules[s].value ELSE v
            <7>1. /\ rules'[s].type = IF i = TRUE THEN None ELSE IF t = None THEN rules[s].type ELSE t
                  /\ rules'[s].value = IF i = TRUE THEN None ELSE IF v = None THEN rules[s].value ELSE v
              BY <3>2 DEF Updated
            <7> QED
              BY <3>5, <7>1, Zenon
          <6> QED
            BY <4>3, <6>1 DEF Priced
        <5>2. ~rules'[s].inherit
          <6>1. rules'[s].inherit = IF i = None THEN rules[s].inherit ELSE i
            BY <3>2 DEF Updated
          <6>2. CASE i = None
            BY <4>3, <6>1, <6>2
          <6>3. CASE i # None
            <7>1. i = FALSE
              BY <3>5, <6>3
            <7> QED
              BY <6>1, <6>3, <7>1
          <6> QED
            BY <6>2, <6>3
        <5> QED
          BY <3>3, <5>1, <5>2 DEF Priced
      <4> QED
        BY <4>2, <4>3
    <3> QED
      BY <3>4, <3>5
  <2>4. ASSUME NEW r \in Request, NEW s \in Slot, Delete(r, s) PROVE Unpriced'
    <3>1. rules'[s] = None /\ \A u \in Slot : u # s => rules'[u] = rules[u]
      BY <2>1, <2>4 DEF Delete
    <3> QED
      BY <2>4, <3>1 DEF Delete, Priced
  <2>5. CASE UNCHANGED <<rules, inherited>>
    BY <2>5 DEF Priced
  <2> QED
    BY <2>2, <2>3, <2>4, <2>5 DEF Next, BeginLookup, Read, Crash, vars
<1>3. Unpriced => FeesHaveValues
  BY DEF Unpriced, FeesHaveValues
<1> QED
  BY <1>1, <1>2, <1>3, TypeCorrect, PTL DEF Spec

----------------------------------------------------------------------------
(* FeeWasInForce.                                                          *)

LEMMA AppliesIsApp ==
    /\ \A s : (Applies(s) <=> App(rules, s)) /\ (Applies(s)' <=> App(rules', s))
    /\ \A s : AnswerOf(s) = Ans(rules, s)
BY DEF Applies, App, AnswerOf, Ans

LEMMA BeginOnTrack ==
    ASSUME TypeOK, OnTrack, FeeWasInForce, NEW r \in Request, BeginLookup(r)
    PROVE  OnTrack' /\ FeeWasInForce'
<1>1. /\ rules' = rules
      /\ reqs'[r] = [at |-> 1, seen |-> {First(rules, 1)}, changes |-> 0]
      /\ \A q \in Request : q # r => reqs'[q] = reqs[q]
  BY InForceIsFirst, InForceOfState DEF BeginLookup, TypeOK
<1>2. reqs'[r] \notin Found
  BY <1>1 DEF Found
<1>3. OnTrack'
  <2> SUFFICES ASSUME NEW q \in Request, Reading(q)'
               PROVE  /\ reqs'[q].changes = 0 => \A s \in 1..(reqs'[q].at - 1) : ~Applies(s)'
                      /\ reqs'[q].changes <= 1 => First(rules', reqs'[q].at) \in reqs'[q].seen
    BY DEF OnTrack
  <2>1. CASE q = r
    BY <1>1, <2>1
  <2>2. CASE q # r
    BY <1>1, <2>2, AppliesIsApp DEF OnTrack, Reading
  <2> QED
    BY <2>1, <2>2
<1> QED
  BY <1>1, <1>2, <1>3 DEF FeeWasInForce

LEMMA ReadOnTrack ==
    ASSUME TypeOK, OnTrack, FeeWasInForce, NEW r \in Request, Read(r)
    PROVE  OnTrack' /\ FeeWasInForce'
<1> DEFINE k == reqs[r].at
<1>1. /\ reqs[r] \in Search /\ k \in Slot /\ reqs[r].changes \in Nat /\ Reading(r)
      /\ rules' = rules
  BY DEF Read, Reading, Search
<1>2. reqs[r].changes = 0 => \A s \in 1..(k - 1) : ~App(rules, s)
  BY <1>1, AppliesIsApp DEF OnTrack
<1>3. reqs[r].changes <= 1 => First(rules, k) \in reqs[r].seen
  BY <1>1 DEF OnTrack
<1>4. ASSUME NEW answer, End(r, answer), answer = First(rules, k)
      PROVE  OnTrack' /\ FeeWasInForce'
  <2>1. /\ reqs'[r] = [found |-> answer, seen |-> reqs[r].seen, changes |-> reqs[r].changes]
        /\ \A q \in Request : q # r => reqs'[q] = reqs[q]
    BY <1>4 DEF End, TypeOK
  <2>2. reqs'[r] \notin Search
    BY <2>1 DEF Search
  <2>3. OnTrack'
    BY <1>1, <2>1, <2>2, AppliesIsApp DEF OnTrack, Reading
  <2>4. reqs'[r].found \in reqs'[r].seen \/ reqs'[r].changes > 1
    BY <1>1, <1>3, <1>4, <2>1
  <2> QED
    BY <2>1, <2>3, <2>4 DEF FeeWasInForce
<1>5. CASE Applies(k)
  <2>1. End(r, Ans(rules, k))
    BY <1>5, AppliesIsApp DEF Read
  <2>2. IsFirst(rules, k, k)
    BY <1>1, <1>5, AppliesIsApp DEF IsFirst, Slot
  <2>3. First(rules, k) = Ans(rules, k)
    BY <1>1, <2>2, FirstIsOne DEF Slot
  <2> QED
    BY <1>4, <2>1, <2>3
<1>6. CASE ~Applies(k) /\ k = 6
  <2>1. End(r, None)
    BY <1>6 DEF Read
  <2>2. First(rules, k) = None
    BY <1>6, AppliesIsApp DEF First
  <2> QED
    BY <1>4, <2>1, <2>2
<1>7. CASE ~Applies(k) /\ k # 6
  <2>1. k < 6
    BY <1>1, <1>7 DEF Slot
  <2>2. /\ reqs'[r] = [reqs[r] EXCEPT !.at = k + 1]
        /\ \A q \in Request : q # r => reqs'[q] = reqs[q]
    BY <1>7, <2>1 DEF Read, TypeOK
  <2>3. reqs'[r].at = k + 1 /\ reqs'[r].seen = reqs[r].seen /\ reqs'[r].changes = reqs[r].changes
    BY <1>1, <2>2 DEF Search
  <2>4. First(rules, k + 1) = First(rules, k)
    <3>1. \A s \in k..((k + 1) - 1) : ~App(rules, s)
      BY <1>1, <1>7, AppliesIsApp DEF Slot
    <3>2. k \in 1..7 /\ k + 1 \in k..7
      BY <1>1 DEF Slot
    <3> HIDE DEF k
    <3> QED
      BY <3>1, <3>2, FirstPasses
  <2>5. reqs[r].changes = 0 => \A s \in 1..((k + 1) - 1) : ~App(rules, s)
    BY <1>1, <1>2, <1>7, AppliesIsApp DEF Slot
  <2>6. OnTrack'
    <3> SUFFICES ASSUME NEW q \in Request, Reading(q)'
                 PROVE  /\ reqs'[q].changes = 0 => \A s \in 1..(reqs'[q].at - 1) : ~Applies(s)'
                        /\ reqs'[q].changes <= 1 => First(rules', reqs'[q].at) \in reqs'[q].seen
      BY DEF OnTrack
    <3>1. CASE q = r
      BY <1>1, <1>3, <2>3, <2>4, <2>5, <3>1, AppliesIsApp
    <3>2. CASE q # r
      BY <1>1, <2>2, <3>2, AppliesIsApp DEF OnTrack, Reading
    <3> QED
      BY <3>1, <3>2
  <2>7. reqs'[r] \notin Found
    <3>1. reqs'[r] \in Search
      BY <1>1, <2>1, <2>2 DEF Search, Slot
    <3> QED
      BY <3>1, RunTypes
  <2> QED
    BY <2>2, <2>6, <2>7 DEF FeeWasInForce
<1> QED
  BY <1>5, <1>6, <1>7

LEMMA ChangeOnTrack ==
    ASSUME TypeOK, OnTrack, FeeWasInForce, NEW r \in Request, NEW s \in Slot, NEW rule,
           Change(r, s, rule)
    PROVE  OnTrack' /\ FeeWasInForce'
<1>1. \A u \in Slot : u # s => rules'[u] = rules[u]
  BY DEF Change, TypeOK
<1>2. reqs'[r] = Over
  BY DEF Change
<1>3. \A q \in Request : q # r /\ ~Reading(q) => reqs'[q] = reqs[q]
  BY DEF Change
<1>4. ASSUME NEW q \in Request, q # r, Reading(q)
      PROVE  /\ reqs'[q].at = reqs[q].at /\ reqs'[q].changes = reqs[q].changes + 1
             /\ reqs'[q].seen = reqs[q].seen \cup {First(rules', 1)}
             /\ reqs'[q] \notin Found
  <2>1. InForce' = First(rules', 1)
    BY InForceIsFirst, InForceOfState
  <2>2. reqs'[q] = [reqs[q] EXCEPT !.seen = @ \cup {First(rules', 1)}, !.changes = @ + 1]
    BY <1>4, <2>1 DEF Change
  <2>3. reqs[q] = [at |-> reqs[q].at, seen |-> reqs[q].seen, changes |-> reqs[q].changes]
    BY <1>4 DEF Reading, Search
  <2>4. reqs'[q] = [at |-> reqs[q].at, seen |-> reqs[q].seen \cup {First(rules', 1)},
                    changes |-> reqs[q].changes + 1]
    BY <2>2, <2>3
  <2> QED
    BY <2>4 DEF Found
<1>5. OnTrack'
  <2> SUFFICES ASSUME NEW q \in Request, Reading(q)'
               PROVE  /\ reqs'[q].changes = 0 => \A u \in 1..(reqs'[q].at - 1) : ~Applies(u)'
                      /\ reqs'[q].changes <= 1 => First(rules', reqs'[q].at) \in reqs'[q].seen
    BY DEF OnTrack
  <2>1. q # r
    BY <1>2, RunTypes DEF Reading
  <2>2. Reading(q)
    BY <1>3, <2>1 DEF Reading
  <2> DEFINE k == reqs[q].at
  <2>3. k \in Slot /\ reqs[q].changes \in Nat
    BY <2>2 DEF Reading, Search
  <2>4. reqs'[q].changes # 0
    BY <1>4, <2>1, <2>2, <2>3
  <2>5. ASSUME reqs'[q].changes <= 1
        PROVE  First(rules', k) \in reqs[q].seen \cup {First(rules', 1)}
    <3>1. reqs[q].changes = 0
      BY <1>4, <2>1, <2>2, <2>3, <2>5
    <3>2. First(rules, k) \in reqs[q].seen /\ \A u \in 1..(k - 1) : ~App(rules, u)
      BY <2>2, <3>1, AppliesIsApp DEF OnTrack
    <3>3. CASE s < k
      <4>1. \A u \in k..6 : rules'[u] = rules[u]
        BY <1>1, <2>3, <3>3 DEF Slot
      <4>2. First(rules', k) = First(rules, k)
        <5>1. k \in 1..7
          BY <2>3 DEF Slot
        <5> HIDE DEF k
        <5> QED
          BY <4>1, <5>1, FirstUnchanged
      <4> QED
        BY <3>2, <4>2
    <3>4. CASE ~(s < k)
      <4>1. \A u \in 1..(k - 1) : ~App(rules', u)
        BY <1>1, <2>3, <3>2, <3>4 DEF App, Slot
      <4>2. First(rules', k) = First(rules', 1)
        <5>1. k \in 1..7
          BY <2>3 DEF Slot
        <5> HIDE DEF k
        <5> QED
          BY <4>1, <5>1, FirstPasses
      <4> QED
        BY <4>2
    <3> QED
      BY <3>3, <3>4
  <2> QED
    BY <1>4, <2>1, <2>2, <2>4, <2>5
<1>6. FeeWasInForce'
  <2> SUFFICES ASSUME NEW q \in Request, reqs'[q] \in Found
               PROVE  reqs'[q].found \in reqs'[q].seen \/ reqs'[q].changes > 1
    BY DEF FeeWasInForce
  <2>1. q # r /\ ~Reading(q)
    BY <1>2, <1>4, RunTypes
  <2> QED
    BY <1>3, <2>1 DEF FeeWasInForce
<1> QED
  BY <1>5, <1>6

\* A lookup finds the fee of the most specific rule as it was at some moment
\* while it read, unless two changes overtook it.
THEOREM FeeInForce == Spec => []FeeWasInForce
<1>1. Init => OnTrack /\ FeeWasInForce
  BY RunTypes DEF Init, OnTrack, FeeWasInForce, Reading
<1>2. TypeOK /\ OnTrack /\ FeeWasInForce /\ [Next]_vars => OnTrack' /\ FeeWasInForce'
  <2> SUFFICES ASSUME TypeOK, OnTrack, FeeWasInForce, [Next]_vars
               PROVE  OnTrack' /\ FeeWasInForce'
    OBVIOUS
  <2>1. ASSUME NEW r \in Request, BeginLookup(r) PROVE OnTrack' /\ FeeWasInForce'
    BY <2>1, BeginOnTrack
  <2>2. ASSUME NEW r \in Request, Read(r) PROVE OnTrack' /\ FeeWasInForce'
    BY <2>2, ReadOnTrack
  <2>3. ASSUME NEW r \in Request, NEW s \in Slot, Create(r, s) \/ Update(r, s) \/ Delete(r, s)
        PROVE  OnTrack' /\ FeeWasInForce'
    <3>1. \E rule : Change(r, s, rule)
      BY <2>3 DEF Create, Update, Delete
    <3> QED
      BY <3>1, ChangeOnTrack
  <2>4. CASE Crash
    <3>1. \A q \in Request : ~Reading(q)' /\ (reqs'[q] \in Found => reqs'[q] = reqs[q])
      BY <2>4, RunTypes DEF Crash, Reading
    <3> QED
      BY <3>1 DEF OnTrack, FeeWasInForce
  <2>5. CASE UNCHANGED vars
    <3>1. rules' = rules /\ reqs' = reqs
      BY <2>5 DEF vars
    <3> QED
      BY <3>1, AppliesIsApp DEF OnTrack, FeeWasInForce, Reading
  <2> QED
    BY <2>1, <2>2, <2>3, <2>4, <2>5 DEF Next
<1> QED
  BY <1>1, <1>2, TypeCorrect, PTL DEF Spec

(***************************************************************************)
(* Routing.  Its settings and its properties are those of Routes, and what *)
(* it assumes of its constants is a hypothesis of each theorem.            *)
(*                                                                         *)
(* The argument for RouteIsCurrent.  A lookup whose route no change has    *)
(* made stale has passed settings that are not set, so what it finds is    *)
(* the route (RoutesOnTrack).  A change makes each route that it alters    *)
(* stale, or is about to drop it, and takes every lookup under way with    *)
(* it.  For AdapterIsCurrent: credentials read are those saved last, or    *)
(* the lookup that read them is behind (ReadsCurrent).                     *)
(***************************************************************************)
CONSTANT Batch

VARIABLE behind

R == INSTANCE Routing

\* A run that looks up the route of l.

Looking(r, l) == (R!At(r, "query") \/ R!At(r, "store")) /\ reqs[r].lookup = l

\* What the runs under way hold.
Shapes ==
    \A r \in R!Request :
      /\ R!At(r, "query") \/ R!At(r, "store") => reqs[r].lookup \in R!Lookup
      /\ R!At(r, "store") => reqs[r].found \in {"manual", "zoqq"}
      /\ R!At(r, "set") => reqs[r].read \in R!Credentials

\* A lookup of a route that is not stale has passed settings that are not set,
\* or has found the route.
RoutesOnTrack ==
    \A r \in R!Request, l \in R!Lookup \ stale : Looking(r, l) =>
      /\ reqs[r].pc = "query" => \A j \in 1..(reqs[r].at - 1) : R!Setting(j, l) = None
      /\ reqs[r].pc = "store" => reqs[r].found = R!Route(l)

\* What an adapter is about to be built from.
ReadsCurrent ==
    \A r \in R!Request : R!At(r, "set") => reqs[r].read = credentials \/ r \in behind

RoutesHeld == RoutesOnTrack /\ R!RouteIsCurrent
Adapters == ReadsCurrent /\ R!AdapterIsCurrent
RunsTypeOK == R!TypeOK /\ Shapes

LEMMA RunType ==
    ASSUME R!RoutingAssumption, R!TypeOK, NEW r \in R!Request, R!Running(r)
    PROVE  /\ reqs[r] \in R!Run /\ reqs[r].pc \in R!Pc /\ reqs[r].lookup \in R!Lookup \cup {None}
           /\ reqs[r].at \in 1..7 /\ reqs[r].found \in Provider \cup {None}
           /\ reqs[r].read \in R!Credentials \cup {None} /\ reqs[r].keys \in SUBSET R!Lookup
BY DEF R!TypeOK, R!Running, R!Run

\* The record of a run is neither None nor Over.
LEMMA RunIsRunning ==
    ASSUME R!RoutingAssumption, NEW q \in R!Run
    PROVE  q \notin {None, Over}
BY DEF R!RoutingAssumption

LEMMA Begins ==
    ASSUME R!RoutingAssumption, R!TypeOK, NEW r \in R!Request, NEW op \in R!Op, NEW pc \in R!Pc,
           NEW l \in R!Lookup \cup {None}, NEW found \in Provider \cup {None},
           NEW keys \in SUBSET R!Lookup, R!Begin(r, op, pc, l, found, keys)
    PROVE  /\ reqs' \in [R!Request -> R!Run \cup {None, Over}]
           /\ reqs[r] = None /\ ~R!Running(r) /\ R!Running(r)'
           /\ reqs'[r].pc = pc /\ reqs'[r].lookup = l /\ reqs'[r].at = 1
           /\ reqs'[r].found = found /\ reqs'[r].keys = keys
           /\ \A q \in R!Request \ {r} : reqs'[q] = reqs[q]
<1> DEFINE new == [op |-> op, pc |-> pc, lookup |-> l, at |-> 1, found |-> found,
                   read |-> None, keys |-> keys]
<1>1. new \in R!Run
  BY DEF R!Run
<1>2. reqs[r] = None /\ reqs' = [reqs EXCEPT ![r] = new]
  BY DEF R!Begin, R!Fresh
<1>3. new.pc = pc /\ new.lookup = l /\ new.at = 1 /\ new.found = found /\ new.keys = keys
  OBVIOUS
<1> HIDE DEF new
<1> QED
  BY <1>1, <1>2, <1>3, RunIsRunning DEF R!TypeOK, R!Running

LEMMA Ends ==
    ASSUME R!RoutingAssumption, R!TypeOK, NEW r \in R!Request, R!End(r)
    PROVE  /\ reqs' \in [R!Request -> R!Run \cup {None, Over}]
           /\ ~R!Running(r)'
           /\ \A q \in R!Request \ {r} : reqs'[q] = reqs[q]
BY DEF R!End, R!TypeOK, R!Running

\* A run goes on with some of its fields written.
LEMMA GoesOn ==
    ASSUME R!RoutingAssumption, R!TypeOK, NEW r \in R!Request, R!Running(r), NEW new \in R!Run,
           reqs' = [reqs EXCEPT ![r] = new]
    PROVE  /\ reqs' \in [R!Request -> R!Run \cup {None, Over}]
           /\ R!Running(r)' /\ reqs'[r] = new
           /\ \A q \in R!Request \ {r} : reqs'[q] = reqs[q]
BY RunIsRunning DEF R!TypeOK, R!Running

LEMMA Moves ==
    ASSUME R!RoutingAssumption, R!TypeOK, NEW r \in R!Request, R!Running(r), NEW pc \in R!Pc,
           R!GoTo(r, pc)
    PROVE  /\ reqs' \in [R!Request -> R!Run \cup {None, Over}]
           /\ R!Running(r)' /\ reqs'[r] \in R!Run /\ reqs'[r].pc = pc
           /\ reqs'[r].lookup = reqs[r].lookup /\ reqs'[r].keys = reqs[r].keys
           /\ \A q \in R!Request \ {r} : reqs'[q] = reqs[q]
<1> DEFINE new == [reqs[r] EXCEPT !.pc = pc]
<1>1. /\ new \in R!Run /\ new.pc = pc /\ new.lookup = reqs[r].lookup
      /\ new.keys = reqs[r].keys
  BY RunType DEF R!Run
<1>2. reqs' = [reqs EXCEPT ![r] = new]
  BY DEF R!GoTo
<1> HIDE DEF new
<1> QED
  BY <1>1, <1>2, GoesOn

\* Runs that a step leaves alone are where they were.
LEMMA Others ==
    ASSUME NEW q \in R!Request, reqs'[q] = reqs[q]
    PROVE  /\ R!Running(q)' <=> R!Running(q)
           /\ \A pc \in R!Pc : R!At(q, pc)' <=> R!At(q, pc)
           /\ \A l : Looking(q, l)' <=> Looking(q, l)
BY DEF R!Running, R!At, Looking

LEMMA SameSettings ==
    ASSUME UNCHANGED R!settings
    PROVE  \A l : R!Route(l)' = R!Route(l) /\ \A i \in 1..7 : R!Setting(i, l)' = R!Setting(i, l)
BY DEF R!settings, R!Route, R!Setting

LEMMA ResolvingIsLooking ==
    /\ \A l : R!Resolving(l) # {} <=> \E r \in R!Request : Looking(r, l)
    /\ \A l : (R!Resolving(l) # {})' <=> \E r \in R!Request : Looking(r, l)'
BY DEF R!Resolving, Looking

----------------------------------------------------------------------------
(* Resolution.                                                             *)

\* A setting behind others that are not set gives the route.
LEMMA RouteFound ==
    ASSUME NEW l \in R!Lookup, NEW i \in 1..7, R!Setting(i, l) # None,
           \A j \in 1..(i - 1) : R!Setting(j, l) = None
    PROVE  R!Route(l) = R!Resolved(R!Setting(i, l))
<1> DEFINE set == {j \in 1..7 : R!Setting(j, l) # None}
<1>1. i \in set /\ \A j \in set : i <= j
  OBVIOUS
<1>2. \A k \in set : (\A j \in set : k <= j) => k = i
  BY <1>1
<1>3. (CHOOSE k \in set : \A j \in set : k <= j) = i
  BY <1>1, <1>2
<1> QED
  BY <1>1, <1>3 DEF R!Route

LEMMA RouteMissing ==
    ASSUME NEW l \in R!Lookup, \A j \in 1..7 : R!Setting(j, l) = None
    PROVE  R!Route(l) = "manual"
BY DEF R!Route

LEMMA SettingType ==
    ASSUME R!RoutingAssumption, R!TypeOK, NEW l \in R!Lookup, NEW i \in 1..7
    PROVE  R!Setting(i, l) \in Provider \cup {None} /\ R!Resolved(R!Setting(i, l)) \in {"manual", "zoqq"}
<1>1. l \in R!Key /\ <<l[1], None>> \in R!Key /\ <<None, None>> \in R!Key
  BY DEF R!Lookup, R!Key
<1>2. i \in {1, 2, 3, 4, 5, 6, 7}
  OBVIOUS
<1> QED
  BY <1>1, <1>2 DEF R!Setting, R!Resolved, R!TypeOK

----------------------------------------------------------------------------
(* Steps.                                                                  *)

\* A step of one run by which no lookup begins or moves and no setting changes.
LEMMA RoutesKept ==
    ASSUME RoutesOnTrack, NEW r \in R!Request, UNCHANGED R!settings,
           \A q \in R!Request \ {r} : reqs'[q] = reqs[q],
           \A l \in R!Lookup : ~Looking(r, l)',
           \A l \in R!Lookup : l \in stale \ stale' => R!Resolving(l) = {}
    PROVE  RoutesOnTrack'
<1> SUFFICES ASSUME NEW q \in R!Request, NEW l \in R!Lookup, l \notin stale', Looking(q, l)'
             PROVE  /\ reqs'[q].pc = "query" =>
                         \A j \in 1..(reqs'[q].at - 1) : R!Setting(j, l)' = None
                    /\ reqs'[q].pc = "store" => reqs'[q].found = R!Route(l)'
  BY DEF RoutesOnTrack
<1>1. q # r /\ reqs'[q] = reqs[q] /\ Looking(q, l)
  BY Others
<1>2. l \notin stale
  BY <1>1, ResolvingIsLooking
<1>3. /\ reqs[q].pc = "query" => \A j \in 1..(reqs[q].at - 1) : R!Setting(j, l) = None
      /\ reqs[q].pc = "store" => reqs[q].found = R!Route(l)
  BY <1>1, <1>2 DEF RoutesOnTrack
<1>4. \A j : R!Setting(j, l)' = R!Setting(j, l)
  BY DEF R!Setting, R!settings
<1> QED
  BY <1>1, <1>3, <1>4, SameSettings

\* The five changes of settings: lookups under way are overtaken, and a route
\* that changes is not cached, about to be dropped, or stale.
LEMMA ChangeStep ==
    ASSUME R!RoutingAssumption, RoutesHeld, NEW r \in R!Request, ~R!Running(r),
           NEW dropped \in SUBSET R!Lookup, R!Missed(dropped), UNCHANGED cache,
           \A q \in R!Request \ {r} : reqs'[q] = reqs[q],
           ~R!At(r, "query")' /\ ~R!At(r, "store")',
           \A l \in dropped : R!At(r, "list")' \/ (R!At(r, "delete")' /\ l \in reqs'[r].keys)
    PROVE  RoutesHeld'
<1>1. /\ stale \subseteq stale'
      /\ \A l \in R!Lookup : R!Resolving(l) # {} => l \in stale'
      /\ \A l \in R!Lookup : R!Route(l)' # R!Route(l) /\ cache[l] # None /\ l \notin dropped => l \in stale'
  BY DEF R!Missed
<1>2. RoutesOnTrack'
  <2> SUFFICES ASSUME NEW q \in R!Request, NEW l \in R!Lookup, Looking(q, l)'
               PROVE  l \in stale'
    BY DEF RoutesOnTrack
  <2>1. q # r
    BY DEF Looking
  <2>2. Looking(q, l)
    BY <2>1, Others
  <2> QED
    BY <1>1, <2>2, ResolvingIsLooking
<1>3. \A l \in R!Lookup : l \in R!Pending => l \in R!Pending'
  <2> SUFFICES ASSUME NEW l \in R!Lookup, l \in R!Pending PROVE l \in R!Pending'
    OBVIOUS
  <2>1. PICK q \in R!Request : R!At(q, "forget") \/ R!At(q, "list") \/ (R!At(q, "delete") /\ l \in reqs[q].keys)
    BY DEF R!Pending
  <2>2. q # r
    BY <2>1 DEF R!At
  <2>3. reqs'[q] = reqs[q]
    BY <2>2
  <2>4. R!At(q, "forget")' \/ R!At(q, "list")' \/ (R!At(q, "delete")' /\ l \in reqs'[q].keys)
    BY <2>1, <2>3 DEF R!At, R!Running
  <2> QED
    BY <2>4 DEF R!Pending
<1>4. \A l \in dropped : l \in R!Pending'
  BY DEF R!Pending
<1>5. ASSUME NEW l \in R!Lookup
      PROVE  cache'[l] \in {None, R!Route(l)'} \/ l \in stale' \/ l \in R!Pending'
  <2>1. cache[l] \in {None, R!Route(l)} \/ l \in stale \/ l \in R!Pending
    BY DEF RoutesHeld, R!RouteIsCurrent
  <2> QED
    BY <1>1, <1>3, <1>4, <2>1
<1> QED
  BY <1>2, <1>5 DEF RoutesHeld, R!RouteIsCurrent

\* Steps that leave settings, cache and stale routes alone and drop nothing.
LEMMA PendingKept ==
    ASSUME NEW r \in R!Request, \A q \in R!Request \ {r} : reqs'[q] = reqs[q],
           NEW l \in R!Lookup, l \in R!Pending,
           \/ ~(R!At(r, "forget") \/ R!At(r, "list") \/ R!At(r, "delete"))
           \/ R!At(r, "forget")' \/ R!At(r, "list")' \/ (R!At(r, "delete")' /\ l \in reqs'[r].keys)
    PROVE  l \in R!Pending'
<1>1. PICK q \in R!Request : R!At(q, "forget") \/ R!At(q, "list") \/ (R!At(q, "delete") /\ l \in reqs[q].keys)
  BY DEF R!Pending
<1>2. CASE q # r
  <2>1. reqs'[q] = reqs[q]
    BY <1>2
  <2>2. R!At(q, "forget")' \/ R!At(q, "list")' \/ (R!At(q, "delete")' /\ l \in reqs'[q].keys)
    BY <1>1, <2>1 DEF R!At, R!Running
  <2> QED
    BY <2>2 DEF R!Pending
<1>3. CASE q = r
  BY <1>1, <1>3 DEF R!Pending
<1> QED
  BY <1>2, <1>3

LEMMA RouteIsKept ==
    ASSUME R!RouteIsCurrent, UNCHANGED <<R!settings, cache>>, stale \subseteq stale',
           \A l \in R!Lookup : l \in R!Pending => l \in R!Pending'
    PROVE  R!RouteIsCurrent'
BY SameSettings DEF R!RouteIsCurrent

----------------------------------------------------------------------------
(* Types.                                                                  *)

LEMMA ShapesKept ==
    ASSUME Shapes, NEW r \in R!Request, \A q \in R!Request \ {r} : reqs'[q] = reqs[q],
           R!At(r, "query")' \/ R!At(r, "store")' => reqs'[r].lookup \in R!Lookup,
           R!At(r, "store")' => reqs'[r].found \in {"manual", "zoqq"},
           R!At(r, "set")' => reqs'[r].read \in R!Credentials
    PROVE  Shapes'
<1> SUFFICES ASSUME NEW q \in R!Request, q # r
             PROVE  /\ R!At(q, "query")' \/ R!At(q, "store")' => reqs'[q].lookup \in R!Lookup
                    /\ R!At(q, "store")' => reqs'[q].found \in {"manual", "zoqq"}
                    /\ R!At(q, "set")' => reqs'[q].read \in R!Credentials
  BY DEF Shapes
<1>1. reqs'[q] = reqs[q]
  OBVIOUS
<1> QED
  BY <1>1, Others DEF Shapes, R!Pc

LEMMA LookupTypes ==
    ASSUME R!RoutingAssumption, RunsTypeOK, NEW r \in R!Request,
           R!FindCached(r) \/ R!MissCached(r) \/ R!Query(r) \/ R!Store(r)
    PROVE  RunsTypeOK'
<1>1. CASE R!FindCached(r)
  <2>1. PICK l \in R!Lookup : /\ cache[l] # None /\ R!Begin(r, "lookup", "connect", l, cache[l], {})
                            /\ UNCHANGED <<R!settings, credentials, cache, adapter, stale, behind>>
    BY <1>1 DEF R!FindCached
  <2>2. cache[l] \in Provider \cup {None}
    BY DEF RunsTypeOK, R!TypeOK, R!RoutingAssumption
  <2>3. reqs' \in [R!Request -> R!Run \cup {None, Over}] /\ reqs'[r].pc = "connect"
        /\ \A q \in R!Request \ {r} : reqs'[q] = reqs[q]
    BY <2>1, <2>2, Begins DEF RunsTypeOK, R!Op, R!Pc
  <2>4. Shapes'
    BY <2>3, ShapesKept DEF RunsTypeOK, R!At
  <2> QED
    BY <2>1, <2>3, <2>4 DEF RunsTypeOK, R!TypeOK, R!settings
<1>2. CASE R!MissCached(r)
  <2>1. PICK l \in R!Lookup : /\ R!Begin(r, "lookup", "query", l, None, {}) /\ stale' \subseteq stale
                            /\ UNCHANGED <<R!settings, credentials, cache, adapter, behind>>
    BY <1>2 DEF R!MissCached
  <2>2. reqs' \in [R!Request -> R!Run \cup {None, Over}] /\ reqs'[r].pc = "query" /\ reqs'[r].lookup = l
        /\ \A q \in R!Request \ {r} : reqs'[q] = reqs[q]
    BY <2>1, Begins DEF RunsTypeOK, R!Op, R!Pc
  <2>3. Shapes'
    BY <2>2, ShapesKept DEF RunsTypeOK, R!At
  <2> QED
    BY <2>1, <2>2, <2>3 DEF RunsTypeOK, R!TypeOK, R!settings
<1>3. CASE R!Query(r)
  <2> DEFINE q == reqs[r]
             name == R!Setting(q.at, q.lookup)
             new == IF name # None THEN [q EXCEPT !.pc = "store", !.found = R!Resolved(name)]
                    ELSE IF q.at = 7 THEN [q EXCEPT !.pc = "store", !.found = "manual"]
                    ELSE [q EXCEPT !.at = @ + 1]
  <2>1. /\ R!At(r, "query") /\ R!Running(r) /\ reqs' = [reqs EXCEPT ![r] = new]
        /\ UNCHANGED <<R!settings, credentials, cache, adapter, stale, behind>>
    BY <1>3 DEF R!Query, R!At
  <2>2. q \in R!Run /\ q.pc = "query" /\ q.lookup \in R!Lookup /\ q.at \in 1..7
    BY <2>1, RunType DEF RunsTypeOK, Shapes, R!At
  <2>3. R!Resolved(name) \in {"manual", "zoqq"} /\ {"manual", "zoqq"} \subseteq Provider
    BY <2>2, SettingType DEF RunsTypeOK, R!RoutingAssumption
  <2>4. new \in R!Run /\ new.lookup \in R!Lookup /\ (new.pc = "store" => new.found \in {"manual", "zoqq"})
        /\ new.pc \in {"query", "store"}
    <3> HIDE DEF name
    <3>1. CASE name # None
      BY <2>2, <2>3, <3>1 DEF R!Run, R!Pc
    <3>2. CASE name = None /\ q.at = 7
      BY <2>2, <2>3, <3>2 DEF R!Run, R!Pc
    <3>3. CASE name = None /\ q.at # 7
      BY <2>2, <3>3 DEF R!Run, R!Pc
    <3> QED
      BY <3>1, <3>2, <3>3
  <2> HIDE DEF new
  <2>5. reqs' \in [R!Request -> R!Run \cup {None, Over}] /\ reqs'[r] = new
        /\ \A p \in R!Request \ {r} : reqs'[p] = reqs[p]
    BY <2>1, <2>4, GoesOn DEF RunsTypeOK
  <2>6. Shapes'
    BY <2>4, <2>5, ShapesKept DEF RunsTypeOK, R!At
  <2> QED
    BY <2>1, <2>5, <2>6 DEF RunsTypeOK, R!TypeOK, R!settings
<1>4. CASE R!Store(r)
  <2>1. /\ R!Running(r) /\ R!GoTo(r, "connect") /\ cache' = [cache EXCEPT ![reqs[r].lookup] = reqs[r].found]
        /\ UNCHANGED <<R!settings, credentials, adapter, stale, behind>>
    BY <1>4 DEF R!Store, R!At
  <2>2. reqs[r].lookup \in R!Lookup /\ reqs[r].found \in {"manual", "zoqq"}
    BY <1>4 DEF R!Store, RunsTypeOK, Shapes
  <2>3. reqs' \in [R!Request -> R!Run \cup {None, Over}] /\ reqs'[r].pc = "connect"
        /\ \A q \in R!Request \ {r} : reqs'[q] = reqs[q]
    BY <2>1, Moves DEF RunsTypeOK, R!Pc
  <2>4. Shapes'
    BY <2>3, ShapesKept DEF RunsTypeOK, R!At
  <2> QED
    BY <2>1, <2>2, <2>3, <2>4 DEF RunsTypeOK, R!TypeOK, R!settings
<1> QED
  BY <1>1, <1>2, <1>3, <1>4

LEMMA AdapterTypes ==
    ASSUME R!RoutingAssumption, RunsTypeOK, NEW r \in R!Request,
           R!Connect(r) \/ R!SetAdapter(r) \/ R!ForgetAdapter(r) \/ R!ListRoutes(r) \/ R!DropRoutes(r)
    PROVE  RunsTypeOK'
<1>0. R!Running(r)
  BY DEF R!Connect, R!SetAdapter, R!ForgetAdapter, R!ListRoutes, R!DropRoutes, R!At
<1>1. CASE R!Connect(r)
  <2> DEFINE new == [[reqs[r] EXCEPT !.pc = "set"] EXCEPT !.read = credentials]
  <2>1. CASE R!End(r)
    <3>1. Shapes'
      BY <2>1, Ends, ShapesKept DEF RunsTypeOK, R!At
    <3> QED
      BY <1>1, <2>1, <3>1, Ends DEF R!Connect, RunsTypeOK, R!TypeOK, R!settings
  <2>2. CASE credentials # None /\ reqs' = [reqs EXCEPT ![r] = new]
    <3>0. reqs[r] \in R!Run /\ credentials \in R!Credentials /\ "set" \in R!Pc
      BY <1>0, <2>2, RunType DEF RunsTypeOK, R!TypeOK, R!Pc
    <3>1. new \in R!Run /\ new.pc = "set" /\ new.read = credentials /\ credentials \in R!Credentials
      BY <3>0 DEF R!Run
    <3> HIDE DEF new
    <3>2. reqs' \in [R!Request -> R!Run \cup {None, Over}] /\ reqs'[r] = new
          /\ \A q \in R!Request \ {r} : reqs'[q] = reqs[q]
      BY <1>0, <2>2, <3>1, GoesOn DEF RunsTypeOK
    <3>3. Shapes'
      BY <3>1, <3>2, ShapesKept DEF RunsTypeOK, R!At
    <3> QED
      BY <1>1, <3>2, <3>3 DEF R!Connect, RunsTypeOK, R!TypeOK, R!settings
  <2>3. R!End(r) \/ (credentials # None /\ reqs' = [reqs EXCEPT ![r].pc = "set", ![r].read = credentials])
    BY <1>1 DEF R!Connect
  <2>4. [reqs EXCEPT ![r].pc = "set", ![r].read = credentials] = [reqs EXCEPT ![r] = new]
    BY DEF RunsTypeOK, R!TypeOK
  <2> QED
    BY <2>1, <2>2, <2>3, <2>4
<1>2. CASE R!SetAdapter(r)
  <2>1. [credentials |-> reqs[r].read, late |-> r \in behind] \in R!Adapter
    BY <1>2 DEF R!SetAdapter, RunsTypeOK, Shapes, R!Adapter
  <2>2. Shapes'
    BY <1>2, Ends, ShapesKept DEF R!SetAdapter, RunsTypeOK, R!At
  <2> QED
    BY <1>2, <2>1, <2>2, Ends DEF R!SetAdapter, RunsTypeOK, R!TypeOK, R!settings
<1>3. CASE R!ForgetAdapter(r)
  <2>1. reqs' \in [R!Request -> R!Run \cup {None, Over}] /\ reqs'[r].pc = "list"
        /\ \A q \in R!Request \ {r} : reqs'[q] = reqs[q]
    BY <1>0, <1>3, Moves DEF R!ForgetAdapter, RunsTypeOK, R!Pc
  <2>2. Shapes'
    BY <2>1, ShapesKept DEF RunsTypeOK, R!At
  <2> QED
    BY <1>3, <2>1, <2>2 DEF R!ForgetAdapter, RunsTypeOK, R!TypeOK, R!settings
<1>4. CASE R!ListRoutes(r)
  <2> DEFINE new == [[reqs[r] EXCEPT !.pc = "delete"] EXCEPT !.keys = {l \in R!Lookup : cache[l] # None}]
  <2>1. reqs' = [reqs EXCEPT ![r] = new]
    BY <1>4 DEF R!ListRoutes, RunsTypeOK, R!TypeOK
  <2>2. new \in R!Run /\ new.pc = "delete"
    BY <1>0, RunType DEF RunsTypeOK, R!Run, R!Pc
  <2> HIDE DEF new
  <2>3. reqs' \in [R!Request -> R!Run \cup {None, Over}] /\ reqs'[r] = new
        /\ \A q \in R!Request \ {r} : reqs'[q] = reqs[q]
    BY <1>0, <2>1, <2>2, GoesOn DEF RunsTypeOK
  <2>4. Shapes'
    BY <2>2, <2>3, ShapesKept DEF RunsTypeOK, R!At
  <2> QED
    BY <1>4, <2>3, <2>4 DEF R!ListRoutes, RunsTypeOK, R!TypeOK, R!settings
<1>5. CASE R!DropRoutes(r)
  <2>1. /\ cache' \in [R!Lookup -> {"manual", "zoqq", None}] /\ stale' \subseteq R!Lookup
        /\ UNCHANGED <<R!settings, credentials, adapter, behind>> /\ R!End(r)
    BY <1>5 DEF R!DropRoutes, RunsTypeOK, R!TypeOK
  <2>2. Shapes'
    BY <2>1, Ends, ShapesKept DEF RunsTypeOK, R!At
  <2> QED
    BY <2>1, <2>2, Ends DEF RunsTypeOK, R!TypeOK, R!settings
<1> QED
  BY <1>1, <1>2, <1>3, <1>4, <1>5

\* A change that begins a run which drops routes, or that ends at once.
LEMMA ChangeTypes ==
    ASSUME R!RoutingAssumption, RunsTypeOK, NEW r \in R!Request, NEW pc \in {"list", "delete", "forget"},
           NEW op \in {"bust", "drop"}, NEW keys \in SUBSET R!Lookup,
           R!Begin(r, op, pc, None, None, keys) \/ R!End(r)
    PROVE  reqs' \in [R!Request -> R!Run \cup {None, Over}] /\ Shapes'
<1>1. CASE R!Begin(r, op, pc, None, None, keys)
  <2>1. reqs' \in [R!Request -> R!Run \cup {None, Over}] /\ reqs'[r].pc = pc
        /\ \A q \in R!Request \ {r} : reqs'[q] = reqs[q]
    BY <1>1, Begins DEF RunsTypeOK, R!Op, R!Pc
  <2> QED
    BY <2>1, ShapesKept DEF RunsTypeOK, R!At
<1>2. CASE R!End(r)
  BY <1>2, Ends, ShapesKept DEF RunsTypeOK, R!At
<1> QED
  BY <1>1, <1>2

LEMMA MissedTypes ==
    ASSUME R!TypeOK, NEW dropped, R!Missed(dropped)
    PROVE  stale' \subseteq R!Lookup
BY DEF R!Missed, R!TypeOK

LEMMA SettingChangeTypes ==
    ASSUME R!RoutingAssumption, RunsTypeOK, NEW r \in R!Request,
           \/ R!SetDefaultProvider(r) \/ R!UpdateProviderConfig(r) \/ R!AddCorridor(r)
           \/ R!RemoveCorridor(r) \/ R!ChangeGlobalCorridor(r) \/ R!SetProviderCredentials(r)
    PROVE  RunsTypeOK'
<1>1. CASE R!SetDefaultProvider(r)
  <2>1. reqs' \in [R!Request -> R!Run \cup {None, Over}] /\ Shapes'
    BY <1>1, ChangeTypes DEF R!SetDefaultProvider
  <2> QED
    BY <1>1, <2>1, MissedTypes DEF R!SetDefaultProvider, RunsTypeOK, R!TypeOK
<1>2. CASE R!UpdateProviderConfig(r)
  <2>1. reqs' \in [R!Request -> R!Run \cup {None, Over}] /\ Shapes'
    BY <1>2, ChangeTypes DEF R!UpdateProviderConfig
  <2>2. PICK ks \in SUBSET R!Key : \E change \in [ks -> Provider] : corridors' = R!Upsert(corridors, change)
    BY <1>2 DEF R!UpdateProviderConfig
  <2>3. corridors' \in [R!Key -> Provider \cup {None}]
    BY <2>2 DEF R!Upsert, RunsTypeOK, R!TypeOK
  <2> QED
    BY <1>2, <2>1, <2>3, MissedTypes DEF R!UpdateProviderConfig, RunsTypeOK, R!TypeOK
<1>3. CASE R!AddCorridor(r)
  <2>1. PICK k \in R!Key, p \in Provider :
          /\ corridors' = [corridors EXCEPT ![k] = p]
          /\ R!Begin(r, "drop", "delete", None, None, R!DroppedBy(k))
          /\ UNCHANGED <<global, default, credentials, cache, adapter, behind>>
          /\ R!Missed(R!DroppedBy(k))
    BY <1>3 DEF R!AddCorridor
  <2>2. R!DroppedBy(k) \in SUBSET R!Lookup
    BY DEF R!DroppedBy
  <2>3. reqs' \in [R!Request -> R!Run \cup {None, Over}] /\ Shapes'
    BY <2>1, <2>2, ChangeTypes
  <2> QED
    BY <2>1, <2>3, MissedTypes DEF RunsTypeOK, R!TypeOK
<1>4. CASE R!RemoveCorridor(r)
  <2>1. PICK k \in R!Key :
          /\ corridors' = [corridors EXCEPT ![k] = None]
          /\ R!Begin(r, "bust", "list", None, None, {})
          /\ UNCHANGED <<global, default, credentials, cache, adapter, behind>>
          /\ R!Missed(R!Lookup)
    BY <1>4 DEF R!RemoveCorridor
  <2>2. reqs' \in [R!Request -> R!Run \cup {None, Over}] /\ Shapes'
    BY <2>1, ChangeTypes
  <2> QED
    BY <2>1, <2>2, MissedTypes DEF RunsTypeOK, R!TypeOK
<1>5. CASE R!ChangeGlobalCorridor(r)
  <2>1. reqs' \in [R!Request -> R!Run \cup {None, Over}] /\ Shapes'
    BY <1>5, ChangeTypes DEF R!ChangeGlobalCorridor
  <2> QED
    BY <1>5, <2>1, MissedTypes DEF R!ChangeGlobalCorridor, RunsTypeOK, R!TypeOK
<1>6. CASE R!SetProviderCredentials(r)
  <2>1. reqs' \in [R!Request -> R!Run \cup {None, Over}] /\ Shapes'
    BY <1>6, ChangeTypes DEF R!SetProviderCredentials
  <2>2. credentials' \in R!Credentials \cup {None}
    BY <1>6 DEF R!SetProviderCredentials, R!Credentials, R!Request, R!RoutingAssumption
  <2> QED
    BY <1>6, <2>1, <2>2 DEF R!SetProviderCredentials, RunsTypeOK, R!TypeOK, R!settings
<1> QED
  BY <1>1, <1>2, <1>3, <1>4, <1>5, <1>6

LEMMA CrashEndsRuns ==
    ASSUME RunsTypeOK, R!Crash
    PROVE  /\ reqs' \in [R!Request -> R!Run \cup {None, Over}]
           /\ \A r \in R!Request : ~R!Running(r)' /\ \A pc \in R!Pc : ~R!At(r, pc)'
BY DEF R!Crash, RunsTypeOK, R!TypeOK, R!Running, R!At

LEMMA TypesKept ==
    ASSUME R!RoutingAssumption, RunsTypeOK, [R!Next]_R!vars
    PROVE  RunsTypeOK'
<1>1. CASE \E r \in R!Request : R!FindCached(r) \/ R!MissCached(r) \/ R!Goes(r)
  BY <1>1, LookupTypes, AdapterTypes DEF R!Goes
<1>2. CASE \E r \in R!Request : \/ R!SetDefaultProvider(r) \/ R!UpdateProviderConfig(r) \/ R!AddCorridor(r)
                              \/ R!RemoveCorridor(r) \/ R!ChangeGlobalCorridor(r) \/ R!SetProviderCredentials(r)
  BY <1>2, SettingChangeTypes
<1>3. CASE \E l \in R!Lookup : R!Expire(l)
  BY <1>3 DEF R!Expire, RunsTypeOK, R!TypeOK, Shapes, R!At, R!Running, R!settings
<1>4. CASE R!Crash
  <2>1. Shapes'
    BY <1>4, CrashEndsRuns DEF Shapes, R!Pc
  <2>2. stale' \subseteq R!Lookup /\ adapter' = None
        /\ UNCHANGED <<R!settings, credentials, cache, behind>>
    BY <1>4 DEF R!Crash, R!Pending, RunsTypeOK, R!TypeOK
  <2> QED
    BY <1>4, <2>1, <2>2, CrashEndsRuns DEF RunsTypeOK, R!TypeOK, R!settings
<1>5. CASE UNCHANGED R!vars
  BY <1>5 DEF R!vars, R!settings, RunsTypeOK, R!TypeOK, Shapes, R!At, R!Running
<1>6. ASSUME NEW r \in R!Request, R!Fail(r) PROVE RunsTypeOK'
  <2>1. R!End(r) /\ UNCHANGED <<R!settings, credentials, cache, adapter, behind>> /\ stale' \subseteq R!Lookup
    BY <1>6 DEF R!Fail, R!Pending, RunsTypeOK, R!TypeOK
  <2>2. reqs' \in [R!Request -> R!Run \cup {None, Over}] /\ Shapes'
    BY <2>1, Ends, ShapesKept DEF RunsTypeOK, R!At
  <2> QED
    BY <2>1, <2>2 DEF RunsTypeOK, R!TypeOK, R!settings
<1> QED
  BY <1>1, <1>2, <1>3, <1>4, <1>5, <1>6 DEF R!Next

LEMMA Starts ==
    ASSUME R!RoutingAssumption, R!Init
    PROVE  RunsTypeOK /\ RoutesHeld /\ Adapters
<1>1. \A r \in R!Request : ~R!Running(r)
  BY DEF R!Init, R!Running
<1>2. Shapes /\ RoutesOnTrack /\ ReadsCurrent
  BY <1>1 DEF Shapes, RoutesOnTrack, ReadsCurrent, Looking, R!At
<1>3. R!TypeOK
  <2>1. 0 \in R!Credentials
    BY DEF R!Credentials, R!RoutingAssumption
  <2> QED
    BY <2>1 DEF R!Init, R!TypeOK
<1> QED
  BY <1>2, <1>3 DEF RunsTypeOK, RoutesHeld, Adapters, R!RouteIsCurrent, R!AdapterIsCurrent, R!Init

----------------------------------------------------------------------------
(* RoutesHeld.                                                                 *)

LEMMA LookupKeepsRoutes ==
    ASSUME R!RoutingAssumption, RunsTypeOK, RoutesHeld, NEW r \in R!Request,
           R!FindCached(r) \/ R!MissCached(r) \/ R!Query(r) \/ R!Store(r)
    PROVE  RoutesHeld'
<1>1. CASE R!FindCached(r)
  <2>1. PICK l \in R!Lookup : /\ cache[l] # None /\ R!Begin(r, "lookup", "connect", l, cache[l], {})
                            /\ UNCHANGED <<R!settings, credentials, cache, adapter, stale, behind>>
    BY <1>1 DEF R!FindCached
  <2>2. cache[l] \in Provider \cup {None}
    BY DEF RunsTypeOK, R!TypeOK, R!RoutingAssumption
  <2>3. reqs'[r].pc = "connect" /\ (\A q \in R!Request \ {r} : reqs'[q] = reqs[q]) /\ ~R!Running(r)
    BY <2>1, <2>2, Begins DEF RunsTypeOK, R!Op, R!Pc
  <2>4. RoutesOnTrack'
    BY <2>1, <2>3, RoutesKept DEF RoutesHeld, Looking, R!At
  <2>5. \A k \in R!Lookup : k \in R!Pending => k \in R!Pending'
    BY <2>3, PendingKept DEF R!At
  <2> QED
    BY <2>1, <2>4, <2>5, RouteIsKept DEF RoutesHeld
<1>2. CASE R!MissCached(r)
  <2>1. PICK l \in R!Lookup : /\ cache[l] = None /\ R!Begin(r, "lookup", "query", l, None, {})
                            /\ stale' = (IF R!Resolving(l) = {} THEN stale \ {l} ELSE stale)
                            /\ UNCHANGED <<R!settings, credentials, cache, adapter, behind>>
    BY <1>2 DEF R!MissCached
  <2>2. /\ reqs'[r].pc = "query" /\ reqs'[r].lookup = l /\ reqs'[r].at = 1
        /\ (\A q \in R!Request \ {r} : reqs'[q] = reqs[q]) /\ ~R!Running(r)
    BY <2>1, Begins DEF RunsTypeOK, R!Op, R!Pc
  <2>3. RoutesOnTrack'
    <3> SUFFICES ASSUME NEW q \in R!Request, NEW k \in R!Lookup, k \notin stale', Looking(q, k)'
                 PROVE  /\ reqs'[q].pc = "query" =>
                             \A j \in 1..(reqs'[q].at - 1) : R!Setting(j, k)' = None
                        /\ reqs'[q].pc = "store" => reqs'[q].found = R!Route(k)'
      BY DEF RoutesOnTrack
    <3>1. CASE q = r
      BY <2>2, <3>1
    <3>2. CASE q # r
      <4>1. reqs'[q] = reqs[q] /\ Looking(q, k)
        BY <2>2, <3>2, Others
      <4>2. k \notin stale
        BY <2>1, <4>1, ResolvingIsLooking
      <4>3. /\ reqs[q].pc = "query" => \A j \in 1..(reqs[q].at - 1) : R!Setting(j, k) = None
            /\ reqs[q].pc = "store" => reqs[q].found = R!Route(k)
        BY <4>1, <4>2 DEF RoutesHeld, RoutesOnTrack
      <4>4. \A j : R!Setting(j, k)' = R!Setting(j, k)
        BY <2>1 DEF R!Setting, R!settings
      <4> QED
        BY <2>1, <4>1, <4>3, <4>4, SameSettings
    <3> QED
      BY <3>1, <3>2
  <2>4. \A k \in R!Lookup : k \in R!Pending => k \in R!Pending'
    BY <2>2, PendingKept DEF R!At
  <2>5. R!RouteIsCurrent'
    <3> SUFFICES ASSUME NEW k \in R!Lookup
                 PROVE  cache'[k] \in {None, R!Route(k)'} \/ k \in stale' \/ k \in R!Pending'
      BY DEF R!RouteIsCurrent
    <3>1. CASE k = l
      BY <2>1, <3>1
    <3>2. CASE k # l
      BY <2>1, <2>4, <3>2, SameSettings DEF RoutesHeld, R!RouteIsCurrent
    <3> QED
      BY <3>1, <3>2
  <2> QED
    BY <2>3, <2>5 DEF RoutesHeld
<1>3. CASE R!Query(r)
  <2> DEFINE p == reqs[r]
             name == R!Setting(p.at, p.lookup)
             new == IF name # None THEN [p EXCEPT !.pc = "store", !.found = R!Resolved(name)]
                    ELSE IF p.at = 7 THEN [p EXCEPT !.pc = "store", !.found = "manual"]
                    ELSE [p EXCEPT !.at = @ + 1]
  <2>1. /\ R!At(r, "query") /\ R!Running(r) /\ reqs' = [reqs EXCEPT ![r] = new]
        /\ UNCHANGED <<R!settings, credentials, cache, adapter, stale, behind>>
    BY <1>3 DEF R!Query, R!At
  <2>2. p \in R!Run /\ p.pc = "query" /\ p.lookup \in R!Lookup /\ p.at \in 1..7
    BY <2>1, RunType DEF RunsTypeOK, Shapes, R!At
  <2>3. /\ reqs'[r] = new /\ Looking(r, p.lookup)
        /\ \A q \in R!Request \ {r} : reqs'[q] = reqs[q]
    BY <2>1, <2>2 DEF RunsTypeOK, R!TypeOK, Looking
  <2>4. new.lookup = p.lookup
    BY <2>2 DEF R!Run
  <2>5. ASSUME p.lookup \notin stale
        PROVE  /\ new.pc = "query" => \A j \in 1..(new.at - 1) : R!Setting(j, p.lookup) = None
               /\ new.pc = "store" => new.found = R!Route(p.lookup)
    <3>1. \A j \in 1..(p.at - 1) : R!Setting(j, p.lookup) = None
      BY <2>2, <2>3, <2>5 DEF RoutesHeld, RoutesOnTrack
    <3>2. CASE name # None
      <4>1. new.pc = "store" /\ new.found = R!Resolved(name)
        BY <2>2, <3>2 DEF R!Run
      <4> QED
        BY <2>2, <3>1, <3>2, <4>1, RouteFound
    <3>3. CASE name = None /\ p.at = 7
      <4>1. new.pc = "store" /\ new.found = "manual"
        BY <2>2, <3>3 DEF R!Run
      <4>2. \A j \in 1..7 : j \in 1..(p.at - 1) \/ j = p.at
        BY <3>3
      <4> QED
        BY <2>2, <3>1, <3>3, <4>1, <4>2, RouteMissing
    <3>4. CASE name = None /\ p.at # 7
      <4>1. new.pc = "query" /\ new.at = p.at + 1
        BY <2>2, <3>4 DEF R!Run
      <4>2. \A j \in 1..(new.at - 1) : j \in 1..(p.at - 1) \/ j = p.at
        BY <2>2, <4>1
      <4> QED
        BY <3>1, <3>4, <4>1, <4>2
    <3> QED
      BY <3>2, <3>3, <3>4
  <2>6. new.pc \in {"query", "store"}
    BY <2>2 DEF R!Run
  <2> HIDE DEF new
  <2>7. RoutesOnTrack'
    <3> SUFFICES ASSUME NEW q \in R!Request, NEW k \in R!Lookup, k \notin stale', Looking(q, k)'
                 PROVE  /\ reqs'[q].pc = "query" =>
                             \A j \in 1..(reqs'[q].at - 1) : R!Setting(j, k)' = None
                        /\ reqs'[q].pc = "store" => reqs'[q].found = R!Route(k)'
      BY DEF RoutesOnTrack
    <3>1. k \notin stale /\ (\A j : R!Setting(j, k)' = R!Setting(j, k)) /\ R!Route(k)' = R!Route(k)
      BY <2>1, SameSettings DEF R!Setting, R!settings
    <3>2. CASE q = r
      <4>1. k = p.lookup
        BY <2>3, <2>4, <3>2 DEF Looking
      <4> QED
        BY <2>3, <2>5, <3>1, <3>2, <4>1
    <3>3. CASE q # r
      <4>1. reqs'[q] = reqs[q] /\ Looking(q, k)
        BY <2>3, <3>3, Others
      <4> QED
        BY <3>1, <4>1 DEF RoutesHeld, RoutesOnTrack
    <3> QED
      BY <3>2, <3>3
  <2>8. \A k \in R!Lookup : k \in R!Pending => k \in R!Pending'
    BY <2>2, <2>3, PendingKept DEF R!At
  <2> QED
    BY <2>1, <2>7, <2>8, RouteIsKept DEF RoutesHeld
<1>4. CASE R!Store(r)
  <2> DEFINE l == reqs[r].lookup
  <2>1. /\ R!At(r, "store") /\ R!Running(r) /\ R!GoTo(r, "connect")
        /\ cache' = [cache EXCEPT ![l] = reqs[r].found]
        /\ UNCHANGED <<R!settings, credentials, adapter, stale, behind>>
    BY <1>4 DEF R!Store, R!At
  <2>2. l \in R!Lookup /\ Looking(r, l) /\ reqs[r].pc = "store"
    BY <2>1 DEF RunsTypeOK, Shapes, Looking, R!At
  <2>3. reqs'[r].pc = "connect" /\ \A q \in R!Request \ {r} : reqs'[q] = reqs[q]
    BY <2>1, Moves DEF RunsTypeOK, R!Pc
  <2>4. RoutesOnTrack'
    BY <2>1, <2>3, RoutesKept DEF RoutesHeld, Looking, R!At
  <2>5. \A k \in R!Lookup : k \in R!Pending => k \in R!Pending'
    BY <2>2, <2>3, PendingKept DEF R!At
  <2>6. l \notin stale => reqs[r].found = R!Route(l)
    BY <2>2 DEF RoutesHeld, RoutesOnTrack
  <2>7. R!RouteIsCurrent'
    <3> SUFFICES ASSUME NEW k \in R!Lookup
                 PROVE  cache'[k] \in {None, R!Route(k)'} \/ k \in stale' \/ k \in R!Pending'
      BY DEF R!RouteIsCurrent
    <3>1. R!Route(k)' = R!Route(k) /\ stale' = stale
      BY <2>1, SameSettings
    <3>2. CASE k = l
      BY <2>1, <2>2, <2>6, <3>1, <3>2 DEF RunsTypeOK, R!TypeOK
    <3>3. CASE k # l
      BY <2>1, <2>5, <3>1, <3>3 DEF RoutesHeld, R!RouteIsCurrent, RunsTypeOK, R!TypeOK
    <3> QED
      BY <3>2, <3>3
  <2> QED
    BY <2>4, <2>7 DEF RoutesHeld
<1> QED
  BY <1>1, <1>2, <1>3, <1>4

LEMMA ConnectingKeepsRoutes ==
    ASSUME R!RoutingAssumption, RunsTypeOK, RoutesHeld, NEW r \in R!Request,
           R!Connect(r) \/ R!SetAdapter(r) \/ R!ForgetAdapter(r) \/ R!ListRoutes(r)
    PROVE  RoutesHeld'
<1>1. R!Running(r) /\ UNCHANGED <<R!settings, cache, stale>>
  BY DEF R!Connect, R!SetAdapter, R!ForgetAdapter, R!ListRoutes, R!At, R!settings
<1>2. /\ \A q \in R!Request \ {r} : reqs'[q] = reqs[q]
      /\ \A l \in R!Lookup : ~Looking(r, l)'
      /\ \A l \in R!Lookup : l \in R!Pending => l \in R!Pending' \/ cache[l] = None
  <2>1. CASE R!Connect(r)
    <3>1. /\ R!At(r, "connect") /\ (\A q \in R!Request \ {r} : reqs'[q] = reqs[q])
          /\ ~R!Running(r)' \/ reqs'[r].pc = "set"
      BY <1>1, <2>1, Ends, RunType DEF R!Connect, RunsTypeOK, R!TypeOK, R!Run
    <3> QED
      BY <3>1, PendingKept DEF R!At, Looking
  <2>2. CASE R!SetAdapter(r)
    <3>1. R!At(r, "set") /\ (\A q \in R!Request \ {r} : reqs'[q] = reqs[q]) /\ ~R!Running(r)'
      BY <2>2, Ends DEF R!SetAdapter, RunsTypeOK
    <3> QED
      BY <3>1, PendingKept DEF R!At, Looking
  <2>3. CASE R!ForgetAdapter(r)
    <3>1. /\ (\A q \in R!Request \ {r} : reqs'[q] = reqs[q])
          /\ R!Running(r)' /\ reqs'[r].pc = "list"
      BY <1>1, <2>3, Moves DEF R!ForgetAdapter, RunsTypeOK, R!Pc
    <3> QED
      BY <3>1, PendingKept DEF R!At, Looking
  <2>4. CASE R!ListRoutes(r)
    <3> DEFINE new == [reqs[r] EXCEPT !.pc = "delete", !.keys = {l \in R!Lookup : cache[l] # None}]
    <3>1. reqs' = [reqs EXCEPT ![r] = new] /\ reqs[r].pc = "list"
      BY <2>4 DEF R!ListRoutes, R!At, RunsTypeOK, R!TypeOK
    <3>2. new.pc = "delete" /\ new.keys = {l \in R!Lookup : cache[l] # None} /\ new \in R!Run
      BY <1>1, RunType DEF RunsTypeOK, R!Run, R!Pc
    <3> HIDE DEF new
    <3>3. (\A q \in R!Request \ {r} : reqs'[q] = reqs[q]) /\ R!Running(r)' /\ reqs'[r] = new
      BY <1>1, <3>1, <3>2, GoesOn DEF RunsTypeOK
    <3>4. \A l \in R!Lookup : cache[l] # None => R!At(r, "delete")' /\ l \in reqs'[r].keys
      BY <3>2, <3>3 DEF R!At
    <3> QED
      BY <3>2, <3>3, <3>4, PendingKept DEF R!At, Looking
  <2> QED
    BY <2>1, <2>2, <2>3, <2>4
<1>3. RoutesOnTrack'
  BY <1>1, <1>2, RoutesKept DEF RoutesHeld
<1>4. R!RouteIsCurrent'
  BY <1>1, <1>2, SameSettings DEF RoutesHeld, R!RouteIsCurrent
<1> QED
  BY <1>3, <1>4 DEF RoutesHeld

LEMMA DroppingKeepsRoutes ==
    ASSUME R!RoutingAssumption, RunsTypeOK, RoutesHeld, NEW r \in R!Request, R!DropRoutes(r)
    PROVE  RoutesHeld'
<1> DEFINE keys == reqs[r].keys
<1>1. /\ R!At(r, "delete") /\ R!End(r)
      /\ cache' = [l \in R!Lookup |-> IF l \in keys THEN None ELSE cache[l]]
      /\ stale' = {l \in stale : l \in keys => R!Resolving(l) # {}}
      /\ UNCHANGED <<R!settings, credentials, adapter, behind>>
  BY DEF R!DropRoutes
<1>2. ~R!Running(r)' /\ \A q \in R!Request \ {r} : reqs'[q] = reqs[q]
  BY <1>1, Ends DEF RunsTypeOK
<1>3. RoutesOnTrack'
  BY <1>1, <1>2, RoutesKept DEF RoutesHeld, Looking, R!At
<1>4. \A l \in R!Lookup : l \in R!Pending => l \in R!Pending' \/ l \in keys
  <2> SUFFICES ASSUME NEW l \in R!Lookup, l \in R!Pending, l \notin keys PROVE l \in R!Pending'
    OBVIOUS
  <2>1. PICK q \in R!Request : R!At(q, "forget") \/ R!At(q, "list") \/ (R!At(q, "delete") /\ l \in reqs[q].keys)
    BY DEF R!Pending
  <2>2. q # r
    BY <1>1, <2>1 DEF R!At
  <2>3. R!At(q, "forget")' \/ R!At(q, "list")' \/ (R!At(q, "delete")' /\ l \in reqs'[q].keys)
    BY <1>2, <2>1, <2>2 DEF R!At, R!Running
  <2> QED
    BY <2>3 DEF R!Pending
<1>5. ASSUME NEW l \in R!Lookup
      PROVE  cache'[l] \in {None, R!Route(l)'} \/ l \in stale' \/ l \in R!Pending'
  <2>1. CASE l \in keys
    BY <1>1, <2>1
  <2>2. CASE l \notin keys
    <3>1. cache[l] \in {None, R!Route(l)} \/ l \in stale \/ l \in R!Pending
      BY DEF RoutesHeld, R!RouteIsCurrent
    <3> QED
      BY <1>1, <1>4, <2>2, <3>1, SameSettings
  <2> QED
    BY <2>1, <2>2
<1> QED
  BY <1>3, <1>5 DEF RoutesHeld, R!RouteIsCurrent

LEMMA ChangesKeepRoutes ==
    ASSUME R!RoutingAssumption, RunsTypeOK, RoutesHeld, NEW r \in R!Request,
           \/ R!SetDefaultProvider(r) \/ R!UpdateProviderConfig(r) \/ R!AddCorridor(r)
           \/ R!RemoveCorridor(r) \/ R!ChangeGlobalCorridor(r)
    PROVE  RoutesHeld'
<1>1. CASE R!SetDefaultProvider(r) \/ R!RemoveCorridor(r)
  <2>1. R!Begin(r, "bust", "list", None, None, {}) /\ R!Missed(R!Lookup) /\ UNCHANGED cache
    BY <1>1 DEF R!SetDefaultProvider, R!RemoveCorridor
  <2>2. /\ ~R!Running(r) /\ R!Running(r)' /\ reqs'[r].pc = "list"
        /\ \A q \in R!Request \ {r} : reqs'[q] = reqs[q]
    BY <2>1, Begins DEF RunsTypeOK, R!Op, R!Pc
  <2> QED
    BY <2>1, <2>2, ChangeStep DEF R!At
<1>2. CASE R!UpdateProviderConfig(r) \/ R!ChangeGlobalCorridor(r)
  <2>1. R!Fresh(r) /\ R!End(r) /\ R!Missed({}) /\ UNCHANGED cache
    BY <1>2 DEF R!UpdateProviderConfig, R!ChangeGlobalCorridor
  <2>2. ~R!Running(r) /\ ~R!Running(r)' /\ \A q \in R!Request \ {r} : reqs'[q] = reqs[q]
    BY <2>1, Ends DEF RunsTypeOK, R!Fresh, R!Running
  <2> QED
    BY <2>1, <2>2, ChangeStep DEF R!At
<1>3. CASE R!AddCorridor(r)
  <2>1. PICK k \in R!Key : /\ R!Begin(r, "drop", "delete", None, None, R!DroppedBy(k))
                         /\ R!Missed(R!DroppedBy(k)) /\ UNCHANGED cache
    BY <1>3 DEF R!AddCorridor
  <2>2. R!DroppedBy(k) \in SUBSET R!Lookup
    BY DEF R!DroppedBy
  <2>3. /\ ~R!Running(r) /\ R!Running(r)' /\ reqs'[r].pc = "delete" /\ reqs'[r].keys = R!DroppedBy(k)
        /\ \A q \in R!Request \ {r} : reqs'[q] = reqs[q]
    BY <2>1, <2>2, Begins DEF RunsTypeOK, R!Op, R!Pc
  <2> QED
    BY <2>1, <2>2, <2>3, ChangeStep DEF R!At
<1> QED
  BY <1>1, <1>2, <1>3

LEMMA CredentialsKeepRoutes ==
    ASSUME R!RoutingAssumption, RunsTypeOK, RoutesHeld, NEW r \in R!Request, R!SetProviderCredentials(r)
    PROVE  RoutesHeld'
<1>1. R!Begin(r, "bust", "forget", None, None, {}) /\ UNCHANGED <<R!settings, cache, stale>>
  BY DEF R!SetProviderCredentials
<1>2. /\ ~R!Running(r) /\ R!Running(r)' /\ reqs'[r].pc = "forget"
      /\ \A q \in R!Request \ {r} : reqs'[q] = reqs[q]
  BY <1>1, Begins DEF RunsTypeOK, R!Op, R!Pc
<1>3. RoutesOnTrack'
  BY <1>1, <1>2, RoutesKept DEF RoutesHeld, Looking, R!At
<1>4. \A l \in R!Lookup : l \in R!Pending => l \in R!Pending'
  BY <1>2, PendingKept DEF R!At
<1> QED
  BY <1>1, <1>3, <1>4, RouteIsKept DEF RoutesHeld

LEMMA ExpiryKeepsRoutes ==
    ASSUME RunsTypeOK, RoutesHeld, NEW e \in R!Lookup, R!Expire(e)
    PROVE  RoutesHeld'
<1>1. /\ cache' = [cache EXCEPT ![e] = None]
      /\ stale' = (IF R!Resolving(e) = {} THEN stale \ {e} ELSE stale)
      /\ UNCHANGED <<R!settings, credentials, adapter, reqs, behind>>
  BY DEF R!Expire
<1>2. \A q \in R!Request, l \in R!Lookup : Looking(q, l)' <=> Looking(q, l)
  BY <1>1, Others
<1>3. RoutesOnTrack'
  <2> SUFFICES ASSUME NEW q \in R!Request, NEW l \in R!Lookup, l \notin stale', Looking(q, l)
               PROVE  /\ reqs[q].pc = "query" => \A j \in 1..(reqs[q].at - 1) : R!Setting(j, l)' = None
                      /\ reqs[q].pc = "store" => reqs[q].found = R!Route(l)'
    BY <1>1, <1>2 DEF RoutesOnTrack
  <2>1. l \notin stale
    BY <1>1, ResolvingIsLooking
  <2>2. \A j : R!Setting(j, l)' = R!Setting(j, l)
    BY <1>1 DEF R!Setting, R!settings
  <2> QED
    BY <1>1, <2>1, <2>2, SameSettings DEF RoutesHeld, RoutesOnTrack
<1>4. R!Pending' = R!Pending
  BY <1>1 DEF R!Pending, R!At, R!Running
<1>5. ASSUME NEW l \in R!Lookup
      PROVE  cache'[l] \in {None, R!Route(l)'} \/ l \in stale' \/ l \in R!Pending'
  <2>1. cache[l] \in {None, R!Route(l)} \/ l \in stale \/ l \in R!Pending
    BY DEF RoutesHeld, R!RouteIsCurrent
  <2>2. (l \in stale => l \in stale') \/ l = e
    BY <1>1
  <2>3. l = e => cache'[l] = None \/ cache'[l] = cache[l]
    BY <1>1
  <2>4. l # e => cache'[l] = cache[l]
    BY <1>1
  <2>5. l = e => cache'[l] = None
    BY <1>1 DEF RunsTypeOK, R!TypeOK
  <2> QED
    BY <1>1, <1>4, <2>1, <2>2, <2>4, <2>5, SameSettings
<1> QED
  BY <1>3, <1>5 DEF RoutesHeld, R!RouteIsCurrent

LEMMA CrashKeepsRoutes ==
    ASSUME RunsTypeOK, RoutesHeld, R!Crash
    PROVE  RoutesHeld'
<1>1. UNCHANGED <<R!settings, cache>> /\ stale' = stale \cup R!Pending
  BY DEF R!Crash
<1>2. RoutesOnTrack'
  BY CrashEndsRuns DEF RoutesOnTrack, Looking, R!Pc
<1> QED
  BY <1>1, <1>2, SameSettings DEF RoutesHeld, R!RouteIsCurrent

\* The routes that a request which fails had to drop become stale.
LEMMA FailureKeepsRoutes ==
    ASSUME R!RoutingAssumption, RunsTypeOK, RoutesHeld, NEW r \in R!Request, R!Fail(r)
    PROVE  RoutesHeld'
<1>1. /\ R!End(r) /\ stale' = stale \cup (R!Pending \ R!Pending')
      /\ UNCHANGED <<R!settings, credentials, cache, adapter, behind>>
  BY DEF R!Fail
<1>2. ~R!Running(r)' /\ \A q \in R!Request \ {r} : reqs'[q] = reqs[q]
  BY <1>1, Ends DEF RunsTypeOK
<1>3. RoutesOnTrack'
  BY <1>1, <1>2, RoutesKept DEF RoutesHeld, Looking, R!At
<1> QED
  BY <1>1, <1>3, SameSettings DEF RoutesHeld, R!RouteIsCurrent

LEMMA RoutesStep ==
    ASSUME R!RoutingAssumption, RunsTypeOK, RoutesHeld, [R!Next]_R!vars
    PROVE  RoutesHeld'
<1>1. CASE \E r \in R!Request : R!FindCached(r) \/ R!MissCached(r) \/ R!Goes(r)
  BY <1>1, LookupKeepsRoutes, ConnectingKeepsRoutes, DroppingKeepsRoutes DEF R!Goes
<1>2. CASE \E r \in R!Request : \/ R!SetDefaultProvider(r) \/ R!UpdateProviderConfig(r) \/ R!AddCorridor(r)
                              \/ R!RemoveCorridor(r) \/ R!ChangeGlobalCorridor(r) \/ R!SetProviderCredentials(r)
  BY <1>2, ChangesKeepRoutes, CredentialsKeepRoutes
<1>3. CASE \E l \in R!Lookup : R!Expire(l)
  BY <1>3, ExpiryKeepsRoutes
<1>4. CASE R!Crash
  BY <1>4, CrashKeepsRoutes
<1>5. CASE UNCHANGED R!vars
  <2>1. UNCHANGED <<R!settings, cache, stale, reqs>>
    BY <1>5 DEF R!vars
  <2>2. R!Pending' = R!Pending /\ \A q \in R!Request, l \in R!Lookup : Looking(q, l)' <=> Looking(q, l)
    BY <2>1, Others DEF R!Pending, R!At, R!Running
  <2>3. \A l : \A j : R!Setting(j, l)' = R!Setting(j, l)
    BY <2>1 DEF R!Setting, R!settings
  <2> QED
    BY <2>1, <2>2, <2>3, SameSettings DEF RoutesHeld, RoutesOnTrack, R!RouteIsCurrent
<1>6. CASE \E r \in R!Request : R!Fail(r)
  BY <1>6, FailureKeepsRoutes
<1> QED
  BY <1>1, <1>2, <1>3, <1>4, <1>5, <1>6 DEF R!Next

----------------------------------------------------------------------------
(* R!Adapter.                                                                *)

\* Steps that leave the credentials, the adapter and the lookups that were
\* overtaken alone, and by which no adapter is dropped.
LEMMA AdapterKept ==
    ASSUME Adapters, NEW r \in R!Request, \A q \in R!Request \ {r} : reqs'[q] = reqs[q],
           UNCHANGED <<credentials, adapter, behind>>,
           R!At(r, "set")' => reqs'[r].read = credentials, ~R!At(r, "forget")
    PROVE  Adapters'
<1>1. \A q \in R!Request \ {r} : /\ R!At(q, "set")' <=> R!At(q, "set")
                               /\ R!At(q, "forget")' <=> R!At(q, "forget")
  BY Others DEF R!Pc
<1>2. ReadsCurrent'
  <2> SUFFICES ASSUME NEW q \in R!Request, R!At(q, "set")'
               PROVE  reqs'[q].read = credentials \/ q \in behind
    BY DEF ReadsCurrent
  <2>1. CASE q = r
    BY <2>1
  <2>2. CASE q # r
    <3>1. reqs'[q] = reqs[q]
      BY <2>2
    <3>2. R!At(q, "set")
      BY <3>1, Others DEF R!Pc
    <3> QED
      BY <3>1, <3>2 DEF Adapters, ReadsCurrent
  <2> QED
    BY <2>1, <2>2
<1>3. (\E q \in R!Request : R!At(q, "forget")) => \E q \in R!Request : R!At(q, "forget")'
  <2> SUFFICES ASSUME NEW q \in R!Request, R!At(q, "forget") PROVE R!At(q, "forget")'
    OBVIOUS
  <2> QED
    BY <1>1
<1>4. R!AdapterIsCurrent'
  BY <1>3 DEF Adapters, R!AdapterIsCurrent
<1> QED
  BY <1>2, <1>4 DEF Adapters

LEMMA AdaptersStep ==
    ASSUME R!RoutingAssumption, RunsTypeOK, Adapters, [R!Next]_R!vars
    PROVE  Adapters'
<1>1. ASSUME NEW r \in R!Request, R!FindCached(r) \/ R!MissCached(r) PROVE Adapters'
  <2>1. PICK l \in R!Lookup, pc \in {"connect", "query"}, found \in Provider \cup {None} :
           R!Begin(r, "lookup", pc, l, found, {}) /\ UNCHANGED <<credentials, adapter, behind>>
    <3>1. \A l \in R!Lookup : cache[l] \in Provider \cup {None}
      BY DEF RunsTypeOK, R!TypeOK, R!RoutingAssumption
    <3>2. CASE R!FindCached(r)
      BY <3>1, <3>2 DEF R!FindCached
    <3>3. CASE R!MissCached(r)
      BY <3>3 DEF R!MissCached
    <3> QED
      BY <1>1, <3>2, <3>3
  <2>2. /\ ~R!Running(r) /\ reqs'[r].pc = pc /\ \A q \in R!Request \ {r} : reqs'[q] = reqs[q]
    BY <2>1, Begins DEF RunsTypeOK, R!Op, R!Pc
  <2> QED
    BY <2>1, <2>2, AdapterKept DEF R!At
<1>2. ASSUME NEW r \in R!Request, R!Query(r) PROVE Adapters'
  <2> DEFINE p == reqs[r]
             name == R!Setting(p.at, p.lookup)
             new == IF name # None THEN [p EXCEPT !.pc = "store", !.found = R!Resolved(name)]
                    ELSE IF p.at = 7 THEN [p EXCEPT !.pc = "store", !.found = "manual"]
                    ELSE [p EXCEPT !.at = @ + 1]
  <2>1. R!At(r, "query") /\ reqs' = [reqs EXCEPT ![r] = new] /\ UNCHANGED <<credentials, adapter, behind>>
    BY <1>2 DEF R!Query
  <2>2. p \in R!Run /\ p.pc = "query"
    BY <2>1, RunType DEF RunsTypeOK, R!At
  <2>3. new.pc \in {"query", "store"}
    BY <2>2 DEF R!Run
  <2> HIDE DEF new
  <2>4. reqs'[r].pc # "set" /\ (\A q \in R!Request \ {r} : reqs'[q] = reqs[q]) /\ ~R!At(r, "forget")
    BY <2>1, <2>2, <2>3 DEF RunsTypeOK, R!TypeOK, R!At
  <2> QED
    BY <2>1, <2>4, AdapterKept DEF R!At
<1>3. ASSUME NEW r \in R!Request, R!Store(r) PROVE Adapters'
  <2>1. R!At(r, "store") /\ R!GoTo(r, "connect") /\ UNCHANGED <<credentials, adapter, behind>>
    BY <1>3 DEF R!Store
  <2>2. reqs'[r].pc = "connect" /\ \A q \in R!Request \ {r} : reqs'[q] = reqs[q]
    BY <2>1, Moves DEF RunsTypeOK, R!Pc, R!At
  <2> QED
    BY <2>1, <2>2, AdapterKept DEF R!At
<1>4. ASSUME NEW r \in R!Request, R!Connect(r) PROVE Adapters'
  <2>1. /\ R!At(r, "connect") /\ UNCHANGED <<credentials, adapter, behind>>
        /\ \A q \in R!Request \ {r} : reqs'[q] = reqs[q]
        /\ ~R!Running(r)' \/ reqs'[r].read = credentials
    BY <1>4, Ends, RunType DEF R!Connect, R!At, RunsTypeOK, R!TypeOK, R!Run
  <2> QED
    BY <2>1, AdapterKept DEF R!At
<1>5. ASSUME NEW r \in R!Request, R!SetAdapter(r) PROVE Adapters'
  <2>1. /\ R!At(r, "set") /\ R!End(r) /\ UNCHANGED <<credentials, behind>>
        /\ adapter' = [credentials |-> reqs[r].read, late |-> r \in behind]
    BY <1>5 DEF R!SetAdapter
  <2>2. ~R!Running(r)' /\ \A q \in R!Request \ {r} : reqs'[q] = reqs[q]
    BY <2>1, Ends DEF RunsTypeOK
  <2>3. \A q \in R!Request \ {r} : R!At(q, "set")' <=> R!At(q, "set")
    BY <2>2, Others DEF R!Pc
  <2>4. ReadsCurrent'
    BY <2>1, <2>2, <2>3 DEF Adapters, ReadsCurrent, R!At
  <2>5. R!AdapterIsCurrent'
    BY <2>1 DEF Adapters, ReadsCurrent, R!AdapterIsCurrent
  <2> QED
    BY <2>4, <2>5 DEF Adapters
<1>6. ASSUME NEW r \in R!Request, R!ForgetAdapter(r) PROVE Adapters'
  <2>1. /\ R!At(r, "forget") /\ R!GoTo(r, "list") /\ UNCHANGED <<credentials, behind>>
        /\ adapter' = None
    BY <1>6 DEF R!ForgetAdapter
  <2>2. reqs'[r].pc = "list" /\ \A q \in R!Request \ {r} : reqs'[q] = reqs[q]
    BY <2>1, Moves DEF RunsTypeOK, R!Pc, R!At
  <2>3. \A q \in R!Request \ {r} : R!At(q, "set")' <=> R!At(q, "set")
    BY <2>2, Others DEF R!Pc
  <2> QED
    BY <2>1, <2>2, <2>3 DEF Adapters, ReadsCurrent, R!AdapterIsCurrent, R!At
<1>7. ASSUME NEW r \in R!Request, R!ListRoutes(r) PROVE Adapters'
  <2>1. /\ R!At(r, "list") /\ UNCHANGED <<credentials, adapter, behind>>
        /\ reqs'[r].pc = "delete" /\ \A q \in R!Request \ {r} : reqs'[q] = reqs[q]
    BY <1>7, RunType DEF R!ListRoutes, R!At, RunsTypeOK, R!TypeOK, R!Run
  <2> QED
    BY <2>1, AdapterKept DEF R!At
<1>8. ASSUME NEW r \in R!Request, R!DropRoutes(r) PROVE Adapters'
  <2>1. R!At(r, "delete") /\ R!End(r) /\ UNCHANGED <<credentials, adapter, behind>>
    BY <1>8 DEF R!DropRoutes
  <2>2. ~R!Running(r)' /\ \A q \in R!Request \ {r} : reqs'[q] = reqs[q]
    BY <2>1, Ends DEF RunsTypeOK
  <2> QED
    BY <2>1, <2>2, AdapterKept DEF R!At
<1>9. ASSUME NEW r \in R!Request,
             \/ R!SetDefaultProvider(r) \/ R!UpdateProviderConfig(r) \/ R!AddCorridor(r)
             \/ R!RemoveCorridor(r) \/ R!ChangeGlobalCorridor(r)
      PROVE Adapters'
  <2>1. /\ UNCHANGED <<credentials, adapter, behind>>
        /\ \/ R!Begin(r, "bust", "list", None, None, {})
           \/ R!Fresh(r) /\ R!End(r)
           \/ \E k \in R!Key : R!Begin(r, "drop", "delete", None, None, R!DroppedBy(k))
    BY <1>9 DEF R!SetDefaultProvider, R!UpdateProviderConfig, R!AddCorridor, R!RemoveCorridor, R!ChangeGlobalCorridor
  <2>2. \A k \in R!Key : R!DroppedBy(k) \in SUBSET R!Lookup
    BY DEF R!DroppedBy
  <2>3. /\ ~R!Running(r) /\ \A q \in R!Request \ {r} : reqs'[q] = reqs[q]
        /\ ~R!Running(r)' \/ reqs'[r].pc # "set"
    <3>1. CASE R!Begin(r, "bust", "list", None, None, {})
      BY <3>1, Begins DEF RunsTypeOK, R!Op, R!Pc
    <3>2. CASE R!Fresh(r) /\ R!End(r)
      BY <3>2, Ends DEF RunsTypeOK, R!Fresh, R!Running
    <3>3. CASE \E k \in R!Key : R!Begin(r, "drop", "delete", None, None, R!DroppedBy(k))
      BY <2>2, <3>3, Begins DEF RunsTypeOK, R!Op, R!Pc
    <3> QED
      BY <2>1, <3>1, <3>2, <3>3
  <2> QED
    BY <2>1, <2>3, AdapterKept DEF R!At
<1>10. ASSUME NEW r \in R!Request, R!SetProviderCredentials(r) PROVE Adapters'
  <2>1. /\ R!Begin(r, "bust", "forget", None, None, {}) /\ UNCHANGED adapter
        /\ behind' = behind \cup {q \in R!Request : R!At(q, "set")}
    BY <1>10 DEF R!SetProviderCredentials
  <2>2. /\ R!Running(r)' /\ reqs'[r].pc = "forget"
        /\ \A q \in R!Request \ {r} : reqs'[q] = reqs[q]
    BY <2>1, Begins DEF RunsTypeOK, R!Op, R!Pc
  <2>3. \A q \in R!Request \ {r} : R!At(q, "set")' <=> R!At(q, "set")
    BY <2>2, Others DEF R!Pc
  <2>4. ReadsCurrent'
    BY <2>1, <2>2, <2>3 DEF Adapters, ReadsCurrent, R!At
  <2>5. R!AdapterIsCurrent'
    BY <2>2 DEF R!AdapterIsCurrent, R!At
  <2> QED
    BY <2>4, <2>5 DEF Adapters
<1>11. ASSUME NEW l \in R!Lookup, R!Expire(l) PROVE Adapters'
  BY <1>11 DEF R!Expire, Adapters, ReadsCurrent, R!AdapterIsCurrent, R!At, R!Running
<1>12. CASE R!Crash
  BY <1>12, CrashEndsRuns DEF R!Crash, Adapters, ReadsCurrent, R!AdapterIsCurrent, R!Pc
<1>13. CASE UNCHANGED R!vars
  BY <1>13 DEF R!vars, Adapters, ReadsCurrent, R!AdapterIsCurrent, R!At, R!Running
<1>14. ASSUME NEW r \in R!Request, R!Fail(r) PROVE Adapters'
  <2>1. R!End(r) /\ ~R!At(r, "forget") /\ UNCHANGED <<credentials, adapter, behind>>
    BY <1>14 DEF R!Fail, R!At
  <2>2. ~R!Running(r)' /\ \A q \in R!Request \ {r} : reqs'[q] = reqs[q]
    BY <2>1, Ends DEF RunsTypeOK
  <2> QED
    BY <2>1, <2>2, AdapterKept DEF R!At
<1> QED
  BY <1>1, <1>2, <1>3, <1>4, <1>5, <1>6, <1>7, <1>8, <1>9, <1>10, <1>11, <1>12, <1>13, <1>14 DEF R!Next, R!Goes

----------------------------------------------------------------------------
\* The types of Routing, and what its runs hold.
THEOREM RoutingTypeCorrect ==
    ASSUME R!RoutingAssumption
    PROVE  R!Spec => []R!TypeOK
<1>1. R!Init => RunsTypeOK
  BY Starts
<1>2. RunsTypeOK /\ [R!Next]_R!vars => RunsTypeOK'
  BY TypesKept
<1>3. RunsTypeOK => R!TypeOK
  BY DEF RunsTypeOK
<1> QED
  BY <1>1, <1>2, <1>3, PTL DEF R!Spec

\* The instance of Routing has the routes of this module.
LEMMA SameRoutes ==
    /\ R!RouteIsCurrent <=> RouteIsCurrent
    /\ R!AdapterIsCurrent <=> AdapterIsCurrent
<1>1. R!RouteIsCurrent <=> RouteIsCurrent
  BY DEF R!RouteIsCurrent, R!Lookup, R!Route, R!Setting, R!Resolved, R!Pending, R!At, R!Running, R!Request,
     RouteIsCurrent, Lookup, Route, Setting, Resolved, Pending, At, Running, Request
<1>2. R!AdapterIsCurrent <=> AdapterIsCurrent
  BY DEF R!AdapterIsCurrent, R!At, R!Running, R!Request, AdapterIsCurrent, At, Running, Request
<1> QED
  BY <1>1, <1>2

\* RouteIsCurrent, with the lookups that are on track (RoutesOnTrack): a cached
\* route is the one the settings give unless it is stale or about to be dropped.
THEOREM RoutesFollowSettings ==
    ASSUME R!RoutingAssumption
    PROVE  R!Spec => []RouteIsCurrent
<1>1. R!Init => RunsTypeOK /\ RoutesHeld
  BY Starts
<1>2. RunsTypeOK /\ RoutesHeld /\ [R!Next]_R!vars => (RunsTypeOK /\ RoutesHeld)'
  BY TypesKept, RoutesStep
<1>3. RoutesHeld => RouteIsCurrent
  BY SameRoutes DEF RoutesHeld
<1> QED
  BY <1>1, <1>2, <1>3, PTL DEF R!Spec

\* AdapterIsCurrent, with the credentials that lookups have read (ReadsCurrent):
\* an adapter holds the credentials saved last, unless it is about to be dropped
\* or was built from credentials that changed after they were read.
THEOREM AdapterFollowsCredentials ==
    ASSUME R!RoutingAssumption
    PROVE  R!Spec => []AdapterIsCurrent
<1>1. R!Init => RunsTypeOK /\ Adapters
  BY Starts
<1>2. RunsTypeOK /\ Adapters /\ [R!Next]_R!vars => (RunsTypeOK /\ Adapters)'
  BY TypesKept, AdaptersStep
<1>3. Adapters => AdapterIsCurrent
  BY SameRoutes DEF Adapters
<1> QED
  BY <1>1, <1>2, <1>3, PTL DEF R!Spec
=============================================================================
