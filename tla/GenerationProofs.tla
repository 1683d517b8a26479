-------------------------- MODULE GenerationProofs --------------------------
(***************************************************************************)
(* Lemmas about a prompt and the reply to it, for every context, history,  *)
(* text and reply. ContextWindow: what a stretch of the history measures,  *)
(* which stretch goes with a prompt, what the whole comes to, and what the *)
(* excerpts of a long text take of it. ThinkGate: what the gate lets       *)
(* through, piece by piece, and the bridge passes on is what stripping the *)
(* whole reply leaves of it.                                               *)
(***************************************************************************)
EXTENDS ContextWindow, ThinkGate, FiniteSetTheorems, SequenceTheorems,
        WellFoundedInduction, TLAPS

-----------------------------------------------------------------------------
(* Induction over numbers, as a fact about sets of them.                    *)

LEMMA FirstNumber ==
  ASSUME NEW S \in SUBSET Nat, S # {}
  PROVE  Min(S) \in S /\ \A y \in S : Min(S) <= y
<1> DEFINE R == OpToRel(<, Nat)
<1>1. IsWellFoundedOn(R, Nat)
  BY NatLessThanWellFounded
<1>2. PICK x \in S : \A y \in S : <<y, x>> \notin R
  <2> HIDE DEF R
  <2>1. QED BY <1>1, WFMin
<1>3. \A y \in S : y \in Nat /\ x \in Nat /\ ~ (y < x)
  BY <1>2 DEF OpToRel
<1>4. \A y \in S : x <= y
  BY <1>3
<1>5. QED BY <1>4 DEF Min

(* A set of numbers with 0 and with every successor is all of them.         *)
LEMMA AllNumbers ==
  ASSUME NEW S \in SUBSET Nat, 0 \in S, \A k \in Nat : k \in S => k + 1 \in S
  PROVE  S = Nat
<1> SUFFICES ASSUME Nat \ S # {} PROVE FALSE
  OBVIOUS
<1>1. PICK m \in Nat \ S : \A y \in Nat \ S : m <= y
  BY FirstNumber
<1>2. m # 0 /\ m - 1 \in Nat /\ m - 1 < m
  BY <1>1
<1>3. m - 1 \in S
  BY <1>1, <1>2
<1>4. QED BY <1>2, <1>3

-----------------------------------------------------------------------------
(* Sums over sequences. The folds take the elements of a set of positions   *)
(* in an order that is nobody's business; what comes out is the sum from    *)
(* the first to the last.                                                   *)

Some(s) == CHOOSE i \in s : TRUE

SumStep(w, g) ==
  [s \in SUBSET DOMAIN w |-> IF s = {} THEN 0 ELSE w[Some(s)] + g[s \ {Some(s)}]]

(* g is the sum of w up to sets of k positions.                             *)
SumsUpTo(w, g, k) ==
  \A s \in SUBSET DOMAIN w : Cardinality(s) <= k => g[s] = SumStep(w, g)[s]

LEMMA Fewer ==
  ASSUME NEW D, IsFiniteSet(D), NEW s \in SUBSET D
  PROVE  /\ Cardinality(s) \in Nat /\ (Cardinality(s) = 0 <=> s = {})
         /\ \A i \in s : s \ {i} \in SUBSET D /\ Cardinality(s \ {i}) = Cardinality(s) - 1
         /\ s # {} => Some(s) \in s
<1>1. IsFiniteSet(s)
  BY FS_Subset
<1>2. QED BY <1>1, FS_CardinalityType, FS_EmptySet, FS_RemoveElement DEF Some

LEMMA SumExists ==
  ASSUME NEW w, IsFiniteSet(DOMAIN w)
  PROVE  \E g : g = SumStep(w, g)
<1> DEFINE Good == {k \in Nat : \E g : SumsUpTo(w, g, k)}
<1>1. 0 \in Good
  <2> DEFINE g == [s \in SUBSET DOMAIN w |-> 0]
  <2>1. ASSUME NEW s \in SUBSET DOMAIN w, Cardinality(s) <= 0
        PROVE  g[s] = SumStep(w, g)[s]
    <3>1. s = {}
      BY <2>1, Fewer
    <3>2. QED BY <3>1 DEF SumStep
  <2>2. SumsUpTo(w, g, 0)
    BY <2>1 DEF SumsUpTo
  <2>3. QED BY <2>2
<1>2. ASSUME NEW k \in Nat, k \in Good PROVE k + 1 \in Good
  <2>1. PICK g : SumsUpTo(w, g, k)
    BY <1>2
  <2>2. PICK h : h = SumStep(w, g)
    OBVIOUS
  <2>3. ASSUME NEW s \in SUBSET DOMAIN w, Cardinality(s) <= k + 1
        PROVE  h[s] = SumStep(w, h)[s]
    <3>1. CASE s = {}
      BY <2>2, <3>1 DEF SumStep
    <3>2. CASE s # {}
      <4>1. PICK t \in SUBSET DOMAIN w : t = s \ {Some(s)}
        BY <3>2
      <4>2. Cardinality(t) <= k
        BY <2>3, <3>2, <4>1, Fewer
      <4>3. g[t] = SumStep(w, g)[t]
        BY <2>1, <4>2 DEF SumsUpTo
      <4>4. h[t] = g[t]
        BY <2>2, <4>3
      <4>5. h[s] = w[Some(s)] + g[t] /\ SumStep(w, h)[s] = w[Some(s)] + h[t]
        BY <2>2, <3>2, <4>1 DEF SumStep
      <4>6. QED BY <4>4, <4>5
    <3>3. QED BY <3>1, <3>2
  <2>4. SumsUpTo(w, h, k + 1)
    BY <2>3 DEF SumsUpTo
  <2>5. QED BY <2>4
<1>3. Good = Nat
  <2> HIDE DEF Good
  <2>1. Good \in SUBSET Nat
    BY DEF Good
  <2>2. QED BY <1>1, <1>2, <2>1, AllNumbers
<1>4. PICK g : SumsUpTo(w, g, Cardinality(DOMAIN w))
  BY <1>3, FS_CardinalityType
<1>5. PICK h : h = SumStep(w, g)
  OBVIOUS
<1>6. ASSUME NEW s \in SUBSET DOMAIN w PROVE h[s] = g[s]
  BY <1>4, <1>5, FS_Subset DEF SumsUpTo
<1>7. ASSUME NEW s \in SUBSET DOMAIN w PROVE h[s] = SumStep(w, h)[s]
  <2>1. CASE s = {}
    BY <1>5, <2>1 DEF SumStep
  <2>2. CASE s # {}
    <3>1. PICK t \in SUBSET DOMAIN w : t = s \ {Some(s)}
      BY <2>2
    <3>2. h[s] = w[Some(s)] + g[t] /\ SumStep(w, h)[s] = w[Some(s)] + h[t]
      BY <1>5, <2>2, <3>1 DEF SumStep
    <3>3. QED BY <1>6, <3>2
  <2>3. QED BY <2>1, <2>2
<1>8. h = SumStep(w, h)
  BY <1>5, <1>7 DEF SumStep
<1>9. QED BY <1>8

LEMMA SumTyped ==
  ASSUME NEW w, IsFiniteSet(DOMAIN w), \A i \in DOMAIN w : w[i] \in Nat,
         NEW g, g = SumStep(w, g)
  PROVE  \A s \in SUBSET DOMAIN w : g[s] \in Nat
<1> DEFINE Good == {k \in Nat : \A s \in SUBSET DOMAIN w : Cardinality(s) = k => g[s] \in Nat}
<1>1. 0 \in Good
  <2>1. ASSUME NEW s \in SUBSET DOMAIN w, Cardinality(s) = 0 PROVE g[s] \in Nat
    <3>1. s = {}
      BY <2>1, Fewer
    <3>2. g[s] = 0
      BY <3>1 DEF SumStep
    <3>3. QED BY <3>2
  <2>2. QED BY <2>1
<1>2. ASSUME NEW k \in Nat, k \in Good PROVE k + 1 \in Good
  <2>1. ASSUME NEW s \in SUBSET DOMAIN w, Cardinality(s) = k + 1 PROVE g[s] \in Nat
    <3>1. s # {}
      BY <2>1, Fewer
    <3>2. PICK i \in s : i = Some(s)
      BY <3>1, Fewer
    <3>3. PICK t \in SUBSET DOMAIN w : t = s \ {i}
      BY <3>1
    <3>4. Cardinality(t) = k
      BY <2>1, <3>2, <3>3, Fewer
    <3>5. g[s] = w[i] + g[t]
      BY <3>1, <3>2, <3>3 DEF SumStep
    <3>6. QED BY <1>2, <3>2, <3>4, <3>5
  <2>2. QED BY <2>1
<1>3. Good = Nat
  <2> HIDE DEF Good
  <2>1. Good \in SUBSET Nat
    BY DEF Good
  <2>2. QED BY <1>1, <1>2, <2>1, AllNumbers
<1>4. ASSUME NEW s \in SUBSET DOMAIN w PROVE g[s] \in Nat
  BY <1>3, Fewer
<1>5. QED BY <1>4

(* Any position may be taken first.                                         *)
AnyFirst(w, g) ==
  \A s \in SUBSET DOMAIN w : \A i \in s : g[s] = w[i] + g[s \ {i}]

LEMMA SumAnyFirst ==
  ASSUME NEW w, IsFiniteSet(DOMAIN w), \A i \in DOMAIN w : w[i] \in Nat,
         NEW g, g = SumStep(w, g)
  PROVE  AnyFirst(w, g)
<1> DEFINE Good == {k \in Nat : \A s \in SUBSET DOMAIN w : Cardinality(s) = k =>
                                  \A i \in s : g[s] = w[i] + g[s \ {i}]}
<1>1. 0 \in Good
  <2>1. ASSUME NEW s \in SUBSET DOMAIN w, Cardinality(s) = 0 PROVE s = {}
    BY <2>1, Fewer
  <2>2. QED BY <2>1
<1>2. ASSUME NEW k \in Nat, k \in Good PROVE k + 1 \in Good
  <2>1. ASSUME NEW s \in SUBSET DOMAIN w, Cardinality(s) = k + 1, NEW i \in s
        PROVE  g[s] = w[i] + g[s \ {i}]
    <3>1. PICK j \in s : j = Some(s)
      BY Fewer
    <3>2. PICK t \in SUBSET DOMAIN w : t = s \ {j}
      OBVIOUS
    <3>3. g[s] = w[j] + g[t]
      BY <3>1, <3>2 DEF SumStep
    <3>4. CASE i = j
      BY <3>2, <3>3, <3>4
    <3>5. CASE i # j
      <4>1. PICK u \in SUBSET DOMAIN w : u = s \ {i}
        OBVIOUS
      <4>2. PICK v \in SUBSET DOMAIN w : v = t \ {i}
        OBVIOUS
      <4>3. i \in t /\ j \in u /\ v = u \ {j}
        BY <3>2, <3>5, <4>1, <4>2
      <4>4. Cardinality(t) = k /\ Cardinality(u) = k
        BY <2>1, <3>2, <4>1, Fewer
      <4>5. g[t] = w[i] + g[v]
        BY <1>2, <4>2, <4>3, <4>4
      <4>6. g[u] = w[j] + g[v]
        BY <1>2, <4>3, <4>4
      <4>7. w[i] \in Nat /\ w[j] \in Nat /\ g[v] \in Nat
        BY SumTyped
      <4>8. QED BY <3>3, <4>1, <4>5, <4>6, <4>7
    <3>6. QED BY <3>4, <3>5
  <2>2. QED BY <2>1
<1>3. Good = Nat
  <2> HIDE DEF Good
  <2>1. Good \in SUBSET Nat
    BY DEF Good
  <2>2. QED BY <1>1, <1>2, <2>1, AllNumbers
<1>4. ASSUME NEW s \in SUBSET DOMAIN w, NEW i \in s PROVE g[s] = w[i] + g[s \ {i}]
  BY <1>3, Fewer
<1>5. QED BY <1>4 DEF AnyFirst

(* p[k] is the sum of the first k of the weights w.                         *)
PartialSums(w, n, p) ==
  /\ p \in [0 .. n -> Nat]
  /\ p[0] = 0
  /\ \A k \in 1 .. n : p[k] = p[k-1] + w[k]

LEMMA SumFromTheFirst ==
  ASSUME NEW n \in Nat, NEW w \in [1 .. n -> Nat], NEW g, g = SumStep(w, g)
  PROVE  \E p : PartialSums(w, n, p) /\ g[DOMAIN w] = p[n]
<1> DEFINE p == [k \in 0 .. n |-> g[1 .. k]]
<1>1. DOMAIN w = 1 .. n /\ IsFiniteSet(DOMAIN w) /\ \A i \in DOMAIN w : w[i] \in Nat
  <2>1. IsFiniteSet(1 .. n)
    BY FS_Interval
  <2>2. QED BY <2>1
<1>2. \A k \in 0 .. n : 1 .. k \in SUBSET DOMAIN w
  BY <1>1
<1>3. p \in [0 .. n -> Nat]
  BY <1>1, <1>2, SumTyped
<1>4. p[0] = 0
  <2>1. 1 .. 0 = {} /\ 0 \in 0 .. n
    OBVIOUS
  <2>2. g[{}] = 0
    BY DEF SumStep
  <2>3. QED BY <2>1, <2>2
<1>5. ASSUME NEW k \in 1 .. n PROVE p[k] = p[k-1] + w[k]
  <2>1. k \in 1 .. k /\ (1 .. k) \ {k} = 1 .. k - 1 /\ k - 1 \in 0 .. n /\ k \in 0 .. n
    OBVIOUS
  <2>2. AnyFirst(w, g)
    BY <1>1, SumAnyFirst
  <2>3. PICK s \in SUBSET DOMAIN w : s = 1 .. k
    BY <1>2, <2>1
  <2>4. g[s] = w[k] + g[s \ {k}]
    BY <2>1, <2>2, <2>3 DEF AnyFirst
  <2>5. w[k] \in Nat /\ g[1 .. k - 1] \in Nat
    BY <1>1, <1>2, <2>1, SumTyped
  <2>6. p[k] = g[1 .. k] /\ p[k-1] = g[1 .. k - 1]
    BY <2>1
  <2>7. p[k] = w[k] + p[k-1]
    BY <2>1, <2>3, <2>4, <2>6
  <2> HIDE DEF p
  <2>8. p[k-1] \in Nat /\ w[k] \in Nat
    BY <2>5, <2>6
  <2>9. QED BY <2>7, <2>8
<1>6. g[DOMAIN w] = p[n]
  BY <1>1
<1> HIDE DEF p
<1>7. PartialSums(w, n, p)
  BY <1>3, <1>4, <1>5 DEF PartialSums
<1>8. QED BY <1>6, <1>7

-----------------------------------------------------------------------------
(* The tokens of a conversation, turn by turn.                              *)

(* What S may hold of turns is a number of tokens each.                     *)
HaveTokens(S) == \A t \in S : t.tokens \in Nat /\ t.counted \in BOOLEAN

Cost(turn) == AtLeastZero(CountTokens(turn))

LEMMA AtLeastZeroIs ==
  \A n \in Int : AtLeastZero(n) = IF n >= 0 THEN n ELSE 0
<1>1. ASSUME NEW n \in Int, n >= 0 PROVE AtLeastZero(n) = n
  BY <1>1 DEF AtLeastZero, Max
<1>2. ASSUME NEW n \in Int, ~ (n >= 0) PROVE AtLeastZero(n) = 0
  BY <1>2 DEF AtLeastZero, Max
<1>3. QED BY <1>1, <1>2

LEMMA CostIs ==
  ASSUME NEW S, HaveTokens(S), NEW t \in S
  PROVE  Cost(t) \in Nat /\ Cost(t) = IF t.counted THEN t.tokens ELSE 0
<1>1. t.tokens \in Nat /\ t.counted \in BOOLEAN
  BY DEF HaveTokens
<1>2. Cost(t) = AtLeastZero(IF t.counted THEN t.tokens ELSE -1)
  BY DEF Cost, CountTokens
<1>3. QED BY <1>1, <1>2, AtLeastZeroIs

Costs(turns) == [i \in 1 .. Len(turns) |-> Cost(turns[i])]

Loads(turns) == [i \in 1 .. Len(turns) |-> turns[i].tokens + Markup]

LEMMA MeasuredIs ==
  ASSUME NEW S, HaveTokens(S), NEW turns \in Seq(S)
  PROVE  \E p : PartialSums(Costs(turns), Len(turns), p) /\ Measured(turns) = p[Len(turns)]
<1> DEFINE n == Len(turns)
           w == Costs(turns)
           Step(g) == [s \in SUBSET DOMAIN turns |->
                         IF s = {} THEN 0
                         ELSE Cost(turns[CHOOSE i \in s : TRUE]) + g[s \ {CHOOSE i \in s : TRUE}]]
           g == CHOOSE h : h = Step(h)
<1>1. n \in Nat /\ DOMAIN turns = 1 .. n /\ \A i \in 1 .. n : turns[i] \in S
  BY LenProperties, ElementOfSeq
<1>2. w \in [1 .. n -> Nat] /\ DOMAIN w = DOMAIN turns /\ IsFiniteSet(DOMAIN w)
  <2>1. \A i \in 1 .. n : Cost(turns[i]) \in Nat
    BY <1>1, CostIs
  <2>2. IsFiniteSet(1 .. n)
    BY FS_Interval, <1>1
  <2>3. QED BY <1>1, <2>1, <2>2 DEF Costs
<1>3. Measured(turns) = g[DOMAIN turns]
  BY DEF Measured, FoldSeq, FoldFunction, FoldFunctionOnSet, MapThenFoldSet, Cost
<1>4. ASSUME NEW h PROVE Step(h) = SumStep(w, h)
  <2>1. ASSUME NEW s \in SUBSET DOMAIN turns, s # {}
        PROVE  Some(s) \in s /\ w[Some(s)] = Cost(turns[Some(s)])
    BY <1>1, <2>1 DEF Costs, Some
  <2> HIDE DEF w
  <2>2. QED BY <1>2, <2>1 DEF SumStep, Some
<1>5. \E h : h = Step(h)
  BY <1>2, <1>4, SumExists
<1>6. g = Step(g)
  BY <1>5
<1> HIDE DEF g, w, Step
<1>7. PICK h : h = g
  OBVIOUS
<1>8. h = SumStep(w, h)
  BY <1>4, <1>6, <1>7
<1>9. \E p : PartialSums(w, n, p) /\ h[DOMAIN w] = p[n]
  BY <1>1, <1>2, <1>8, SumFromTheFirst
<1>10. QED BY <1>2, <1>3, <1>7, <1>9 DEF w

LEMMA TrueTokensAre ==
  ASSUME NEW S, HaveTokens(S), NEW turns \in Seq(S)
  PROVE  \E p : PartialSums(Loads(turns), Len(turns), p) /\ TrueTokens(turns) = p[Len(turns)]
<1> DEFINE n == Len(turns)
           w == Loads(turns)
           Step(g) == [s \in SUBSET DOMAIN turns |->
                         IF s = {} THEN 0
                         ELSE turns[CHOOSE i \in s : TRUE].tokens + Markup
                              + g[s \ {CHOOSE i \in s : TRUE}]]
           g == CHOOSE h : h = Step(h)
<1>1. n \in Nat /\ DOMAIN turns = 1 .. n /\ \A i \in 1 .. n : turns[i] \in S
  BY LenProperties, ElementOfSeq
<1>2. w \in [1 .. n -> Nat] /\ DOMAIN w = DOMAIN turns /\ IsFiniteSet(DOMAIN w)
  <2>1. \A i \in 1 .. n : turns[i].tokens + Markup \in Nat
    BY <1>1, ContextWindowAssumption DEF HaveTokens
  <2>2. IsFiniteSet(1 .. n)
    BY FS_Interval, <1>1
  <2>3. QED BY <1>1, <2>1, <2>2 DEF Loads
<1>3. TrueTokens(turns) = g[DOMAIN turns]
  BY DEF TrueTokens, FoldSeq, FoldFunction, FoldFunctionOnSet, MapThenFoldSet
<1>4. ASSUME NEW h PROVE Step(h) = SumStep(w, h)
  <2>1. ASSUME NEW s \in SUBSET DOMAIN turns, s # {}
        PROVE  Some(s) \in s /\ w[Some(s)] = turns[Some(s)].tokens + Markup
    BY <1>1, <2>1 DEF Loads, Some
  <2> HIDE DEF w
  <2>2. QED BY <1>2, <2>1 DEF SumStep, Some
<1>5. \E h : h = Step(h)
  BY <1>2, <1>4, SumExists
<1>6. g = Step(g)
  BY <1>5
<1> HIDE DEF g, w, Step
<1>7. PICK h : h = g
  OBVIOUS
<1>8. h = SumStep(w, h)
  BY <1>4, <1>6, <1>7
<1>9. \E p : PartialSums(w, n, p) /\ h[DOMAIN w] = p[n]
  BY <1>1, <1>2, <1>8, SumFromTheFirst
<1>10. QED BY <1>2, <1>3, <1>7, <1>9 DEF w

(* A statement about the numbers up to n.                                   *)
LEMMA UpTo ==
  ASSUME NEW n \in Nat, NEW T, 0 \in T, \A k \in 1 .. n : k - 1 \in T => k \in T
  PROVE  0 .. n \subseteq T
<1> DEFINE S == {k \in Nat : k <= n => k \in T}
<1>1. 0 \in S
  OBVIOUS
<1>2. ASSUME NEW k \in Nat, k \in S PROVE k + 1 \in S
  BY <1>2
<1>3. S = Nat
  <2> HIDE DEF S
  <2>1. S \in SUBSET Nat
    BY DEF S
  <2>2. QED BY <1>1, <1>2, <2>1, AllNumbers
<1>4. QED BY <1>3

LEMMA NewestIs ==
  ASSUME NEW S, NEW h \in Seq(S), NEW i \in 1 .. Len(h) + 1
  PROVE  /\ Len(h) \in Nat /\ Newest(h, i) \in Seq(S)
         /\ Len(Newest(h, i)) = Len(h) - i + 1
         /\ \A k \in 1 .. Len(h) - i + 1 : Newest(h, i)[k] = h[i + k - 1]
<1>1. Len(h) \in Nat /\ \A k \in 1 .. Len(h) : h[k] \in S
  BY LenProperties, ElementOfSeq
<1>2. \A k \in i .. Len(h) : h[k] \in S
  BY <1>1
<1>3. QED BY <1>1, <1>2, SubSeqProperties DEF Newest

(* A stretch of the newest turns measures what the sums differ by.          *)
LEMMA NewestMeasures ==
  ASSUME NEW S, HaveTokens(S), NEW h \in Seq(S), NEW p, PartialSums(Costs(h), Len(h), p),
         NEW i \in 1 .. Len(h) + 1
  PROVE  Measured(Newest(h, i)) = p[Len(h)] - p[i-1]
<1> DEFINE n == Len(h)
           m == Len(h) - i + 1
<1>1. PICK new \in Seq(S) : new = Newest(h, i)
  BY NewestIs
<1>2. /\ n \in Nat /\ m \in Nat /\ Len(new) = m
      /\ \A k \in 1 .. m : new[k] = h[i + k - 1]
  BY <1>1, NewestIs
<1>3. PICK q : PartialSums(Costs(new), Len(new), q) /\ Measured(new) = q[Len(new)]
  BY MeasuredIs
<1>4. \A k \in 1 .. m : Costs(new)[k] = Costs(h)[i + k - 1]
  BY <1>2 DEF Costs
<1>5. /\ \A k \in 0 .. n : p[k] \in Nat
      /\ \A k \in 1 .. n : p[k] = p[k-1] + Costs(h)[k]
      /\ \A k \in 0 .. m : q[k] \in Nat
      /\ q[0] = 0
      /\ \A k \in 1 .. m : q[k] = q[k-1] + Costs(new)[k]
  BY <1>2, <1>3 DEF PartialSums
<1>6. \A k \in 1 .. n : Costs(h)[k] \in Nat
  <2>1. \A k \in 1 .. n : h[k] \in S
    BY ElementOfSeq
  <2>2. QED BY <2>1, CostIs DEF Costs
<1> DEFINE T == {k \in 0 .. m : q[k] = p[i + k - 1] - p[i-1]}
<1>7. 0 \in T
  BY <1>2, <1>5
<1>8. ASSUME NEW k \in 1 .. m, k - 1 \in T PROVE k \in T
  <2>1. q[k] = q[k-1] + Costs(h)[i + k - 1]
    BY <1>4, <1>5
  <2>2. i + k - 1 \in 1 .. n /\ i + (k - 1) - 1 = (i + k - 1) - 1
    BY <1>2
  <2>3. p[i + k - 1] = p[i + (k - 1) - 1] + Costs(h)[i + k - 1]
    BY <1>5, <2>2
  <2>4. q[k-1] = p[i + (k - 1) - 1] - p[i-1]
    BY <1>8
  <2>5. /\ i - 1 \in 0 .. n /\ i + k - 1 \in 0 .. n /\ i + (k - 1) - 1 \in 0 .. n
        /\ k - 1 \in 0 .. m
    BY <1>2, <2>2
  <2>6. /\ p[i-1] \in Nat /\ p[i + k - 1] \in Nat /\ p[i + (k - 1) - 1] \in Nat
        /\ Costs(h)[i + k - 1] \in Nat
    BY <1>5, <1>6, <2>2, <2>5
  <2>7. q[k] = p[i + k - 1] - p[i-1]
    BY <2>1, <2>3, <2>4, <2>6
  <2>8. QED BY <1>2, <2>7
<1>9. 0 .. m \subseteq T
  <2> HIDE DEF T
  <2>1. QED BY <1>2, <1>7, <1>8, UpTo
<1>10. q[m] = p[i + m - 1] - p[i-1] /\ i + m - 1 = n
  <2>1. m \in T /\ i + m - 1 = n
    <3> HIDE DEF T
    <3>1. QED BY <1>2, <1>9
  <2>2. QED BY <2>1
<1>11. QED BY <1>1, <1>2, <1>3, <1>10

(* A longer stretch measures no less.                                       *)
LEMMA SumsGrow ==
  ASSUME NEW n \in Nat, NEW w \in [1 .. n -> Nat], NEW p, PartialSums(w, n, p),
         NEW i \in 0 .. n, NEW j \in 0 .. n, i <= j
  PROVE  p[i] \in Nat /\ p[j] \in Nat /\ p[i] <= p[j]
<1>1. /\ \A k \in 0 .. n : p[k] \in Nat
      /\ \A k \in 1 .. n : p[k] = p[k-1] + w[k] /\ w[k] \in Nat
  BY DEF PartialSums
<1> DEFINE T == {k \in 0 .. n : i <= k => p[i] <= p[k]}
<1>2. 0 \in T
  BY <1>1
<1>3. ASSUME NEW k \in 1 .. n, k - 1 \in T PROVE k \in T
  <2>1. CASE i <= k - 1
    <3>1. p[i] <= p[k-1] /\ p[k] = p[k-1] + w[k] /\ w[k] \in Nat
      BY <1>1, <1>3, <2>1
    <3>2. p[k-1] \in Nat /\ p[i] \in Nat
      BY <1>1
    <3>3. p[i] <= p[k]
      BY <3>1, <3>2
    <3>4. QED BY <3>3
  <2>2. CASE ~ (i <= k - 1)
    <3>1. i <= k => i = k
      BY <2>2
    <3>2. p[k] \in Nat
      BY <1>1
    <3>3. QED BY <3>1, <3>2
  <2>3. QED BY <2>1, <2>2
<1>4. 0 .. n \subseteq T
  <2> HIDE DEF T
  <2>1. QED BY <1>2, <1>3, UpTo
<1>5. QED BY <1>1, <1>4

(* A window of the history: a stretch of the newest turns within the        *)
(* budget.                                                                  *)
IsWindow(h, b, s) ==
  s <= Len(h) => Measured(Newest(h, s)) <= b

IsLongest(h, b, s) ==
  \A i \in 1 .. Len(h) : Measured(Newest(h, i)) <= b => s <= i

LEMMA ShorterMeasuresLess ==
  ASSUME NEW S, HaveTokens(S), NEW h \in Seq(S),
         NEW i \in 1 .. Len(h), NEW j \in i .. Len(h)
  PROVE  /\ Measured(Newest(h, i)) \in Nat /\ Measured(Newest(h, j)) \in Nat
         /\ Measured(Newest(h, j)) <= Measured(Newest(h, i))
<1>1. PICK n \in Nat : n = Len(h)
  BY LenProperties
<1>2. PICK p : PartialSums(Costs(h), Len(h), p)
  BY MeasuredIs
<1>3. Costs(h) \in [1 .. n -> Nat]
  <2>1. \A k \in 1 .. n : h[k] \in S
    BY <1>1, ElementOfSeq
  <2>2. \A k \in 1 .. n : Cost(h[k]) \in Nat
    BY <2>1, CostIs
  <2>3. QED BY <1>1, <2>2 DEF Costs
<1>4. /\ i \in 1 .. n + 1 /\ j \in 1 .. n + 1 /\ i - 1 \in 0 .. n /\ j - 1 \in 0 .. n
      /\ n \in 0 .. n /\ i - 1 <= j - 1 /\ j - 1 <= n /\ i - 1 <= n
  BY <1>1
<1>5. Measured(Newest(h, i)) = p[n] - p[i-1] /\ Measured(Newest(h, j)) = p[n] - p[j-1]
  BY <1>1, <1>2, <1>4, NewestMeasures
<1> DEFINE a == i - 1
           b == j - 1
<1>6. p[a] \in Nat /\ p[b] \in Nat /\ p[n] \in Nat /\ p[a] <= p[b] /\ p[b] <= p[n] /\ p[a] <= p[n]
  <2>1. a \in 0 .. n /\ b \in 0 .. n /\ n \in 0 .. n /\ a <= b /\ b <= n /\ a <= n
    BY <1>4
  <2> HIDE DEF a, b
  <2>2. QED BY <1>1, <1>2, <1>3, <2>1, SumsGrow
<1>7. QED BY <1>5, <1>6

LEMMA WindowHistoryIs ==
  ASSUME NEW S, HaveTokens(S), NEW h \in Seq(S), NEW b \in Int
  PROVE  \E s \in 1 .. Len(h) + 1 :
           WindowHistory(h, b) = Newest(h, s) /\ IsWindow(h, b, s) /\ IsLongest(h, b, s)
<1> DEFINE fits == {s \in 1 .. Len(h) + 1 :
                      \A i \in s .. Len(h) : Measured(Newest(h, i)) <= b}
<1>1. PICK n \in Nat : n = Len(h)
  BY LenProperties
<1>2. fits \in SUBSET Nat /\ n + 1 \in fits
  BY <1>1
<1>3. PICK s : s = Min(fits)
  OBVIOUS
<1>4. s \in fits /\ \A i \in fits : s <= i
  <2> HIDE DEF fits
  <2>1. QED BY <1>2, <1>3, FirstNumber
<1>5. WindowHistory(h, b) = Newest(h, s)
  BY <1>3 DEF WindowHistory
<1>6. IsWindow(h, b, s)
  BY <1>1, <1>4 DEF IsWindow
<1>7. ASSUME NEW i \in 1 .. n, Measured(Newest(h, i)) <= b
      PROVE  i \in fits
  <2>1. ASSUME NEW j \in i .. n PROVE Measured(Newest(h, j)) <= b
    <3>1. /\ Measured(Newest(h, i)) \in Nat /\ Measured(Newest(h, j)) \in Nat
          /\ Measured(Newest(h, j)) <= Measured(Newest(h, i))
      BY <1>1, ShorterMeasuresLess
    <3>2. QED BY <1>7, <3>1
  <2>2. QED BY <1>1, <2>1
<1>8. IsLongest(h, b, s)
  BY <1>1, <1>4, <1>7 DEF IsLongest
<1>9. QED BY <1>1, <1>4, <1>5, <1>6, <1>8

LEMMA ConverseWindowIs ==
  ASSUME NEW S, HaveTokens(S), NEW h \in Seq(S), NEW b \in Int
  PROVE  \E s \in 1 .. Len(h) + 1 :
           /\ ConverseWindow(h, b) = Newest(h, s) /\ IsWindow(h, b, s)
           /\ (\A i \in 1 .. Len(h) : h[i].counted) => IsLongest(h, b, s)
<1> DEFINE fits == {s \in 1 .. Len(h) + 1 :
                      \A i \in s .. Len(h) :
                        h[i].counted /\ Measured(Newest(h, i)) <= b}
<1>1. PICK n \in Nat : n = Len(h)
  BY LenProperties
<1>2. fits \in SUBSET Nat /\ n + 1 \in fits
  BY <1>1
<1>3. PICK s : s = Min(fits)
  OBVIOUS
<1>4. s \in fits /\ \A i \in fits : s <= i
  <2> HIDE DEF fits
  <2>1. QED BY <1>2, <1>3, FirstNumber
<1>5. ConverseWindow(h, b) = Newest(h, s)
  BY <1>3 DEF ConverseWindow
<1>6. IsWindow(h, b, s)
  BY <1>1, <1>4 DEF IsWindow
<1>7. ASSUME \A i \in 1 .. n : h[i].counted,
             NEW i \in 1 .. n, Measured(Newest(h, i)) <= b
      PROVE  i \in fits
  <2>1. ASSUME NEW j \in i .. n PROVE h[j].counted /\ Measured(Newest(h, j)) <= b
    <3>1. /\ Measured(Newest(h, i)) \in Nat /\ Measured(Newest(h, j)) \in Nat
          /\ Measured(Newest(h, j)) <= Measured(Newest(h, i))
      BY <1>1, ShorterMeasuresLess
    <3>2. h[j].counted
      BY <1>7
    <3>3. QED BY <1>7, <3>1, <3>2
  <2>2. QED BY <1>1, <2>1
<1>8. ASSUME \A i \in 1 .. n : h[i].counted
      PROVE  IsLongest(h, b, s)
  BY <1>1, <1>4, <1>7, <1>8 DEF IsLongest
<1>9. QED BY <1>1, <1>4, <1>5, <1>6, <1>8

LEMMA ReverseIs ==
  ASSUME NEW S, NEW s \in Seq(S)
  PROVE  /\ Reverse(s) \in Seq(S) /\ Len(Reverse(s)) = Len(s)
         /\ \A k \in 1 .. Len(s) : Reverse(s)[k] = s[Len(s) - k + 1]
<1>1. PICK n \in Nat : n = Len(s)
  BY LenProperties
<1>2. PICK r : r = Reverse(s)
  OBVIOUS
<1>3. r = [k \in 1 .. n |-> s[n - k + 1]]
  BY <1>1, <1>2 DEF Reverse
<1>4. \A k \in 1 .. n : n - k + 1 \in 1 .. n /\ s[n - k + 1] \in S
  BY <1>1, ElementOfSeq
<1>5. r \in [1 .. n -> S]
  BY <1>3, <1>4
<1>6. r \in Seq(S) /\ Len(r) = n
  BY <1>1, <1>5, SeqDef, LenProperties
<1>7. QED BY <1>1, <1>2, <1>3, <1>6

LEMMA NewestIsSuffix ==
  ASSUME NEW S, NEW h \in Seq(S), NEW i \in 1 .. Len(h) + 1
  PROVE  IsSuffix(Newest(h, i), h)
<1>1. PICK new \in Seq(S) : new = Newest(h, i)
  BY NewestIs
<1>2. PICK n \in Nat : n = Len(h)
  BY LenProperties
<1>3. PICK m \in Nat : m = n - i + 1
  <2>1. n - i + 1 \in Nat
    BY <1>2
  <2>2. QED BY <2>1
<1>4. Len(new) = m /\ m <= n /\ \A k \in 1 .. m : new[k] = h[i + k - 1]
  BY <1>1, <1>2, <1>3, NewestIs
<1>5. PICK a \in Seq(S) : a = Reverse(new)
  BY ReverseIs
<1>6. PICK b \in Seq(S) : b = Reverse(h)
  BY ReverseIs
<1>7. Len(a) = m /\ Len(b) = n
  BY <1>2, <1>4, <1>5, <1>6, ReverseIs
<1>8. ASSUME NEW k \in 1 .. m PROVE a[k] = b[k]
  <2>1. a[k] = new[m - k + 1] /\ b[k] = h[n - k + 1]
    <3>1. k \in 1 .. Len(new) /\ k \in 1 .. Len(h)
      BY <1>2, <1>4
    <3>2. a[k] = new[Len(new) - k + 1] /\ b[k] = h[Len(h) - k + 1]
      BY <1>5, <1>6, <3>1, ReverseIs
    <3>3. QED BY <1>2, <1>4, <3>2
  <2>2. m - k + 1 \in 1 .. m /\ i + (m - k + 1) - 1 = n - k + 1
    BY <1>3
  <2>3. QED BY <1>4, <2>1, <2>2
<1>9. SubSeq(a, 1, m) = SubSeq(b, 1, m)
  <2>1. \A k \in 1 .. m : a[k] \in S /\ b[k] \in S
    BY <1>4, <1>7, ElementOfSeq
  <2>2. /\ SubSeq(a, 1, m) \in Seq(S) /\ SubSeq(b, 1, m) \in Seq(S)
        /\ Len(SubSeq(a, 1, m)) = m /\ Len(SubSeq(b, 1, m)) = m
        /\ \A k \in 1 .. m : SubSeq(a, 1, m)[k] = a[k] /\ SubSeq(b, 1, m)[k] = b[k]
    BY <2>1, SubSeqProperties
  <2>3. QED BY <1>8, <2>2, SeqEqual
<1>10. QED BY <1>1, <1>4, <1>5, <1>6, <1>7, <1>9 DEF IsSuffix, IsPrefix

(* What is sent: a stretch of the newest turns within the budget, and the   *)
(* prompt, with its instructions where it has any.                          *)
LEMMA TurnsAre ==
  ASSUME NEW S, HaveTokens(S), NEW kind \in Kinds, NEW prompt \in S, NEW h \in Seq(S)
  PROVE  /\ Budget(kind, prompt) \in Int
         /\ \E s \in 1 .. Len(h) + 1 :
              /\ Turns(kind, prompt, h) = Append(Newest(h, s), Sent(kind, prompt))
              /\ kind # "converse" => WindowHistory(h, Budget(kind, prompt)) = Newest(h, s)
              /\ IsWindow(h, Budget(kind, prompt), s)
              /\ (\A i \in 1 .. Len(h) : h[i].counted) => IsLongest(h, Budget(kind, prompt), s)
<1>1. PICK b : b = Budget(kind, prompt)
  OBVIOUS
<1>2. CountTokens(prompt) \in Int
  BY DEF CountTokens, HaveTokens
<1>3. \A n \in Int : AtLeastZero(n) \in Nat
  BY AtLeastZeroIs
<1>4. {NCtx, MaxNew, Headroom, RouterReserve, ContextualizeReserve} \subseteq Int
  BY ContextWindowAssumption
<1>5. b \in Int
  <2>1. Reserved \in Int
    BY <1>4 DEF Reserved
  <2>2. AnswerBudget(prompt) \in Int
    <3>1. PICK t \in Int : t = IF CountTokens(prompt) < 0 THEN NCtx ELSE CountTokens(prompt)
      BY <1>2, <1>4
    <3>2. NCtx - t - Reserved \in Int
      BY <1>4, <2>1, <3>1
    <3>3. QED BY <1>3, <3>1, <3>2 DEF AnswerBudget
  <2>3. ConverseBudget(prompt) \in Int
    <3>1. PICK t \in Nat : t = AtLeastZero(CountTokens(prompt))
      BY <1>2, <1>3
    <3>2. NCtx - Reserved - t \in Int
      BY <1>4, <2>1
    <3>3. QED BY <3>1, <3>2 DEF ConverseBudget
  <2>4. QED BY <1>1, <1>4, <2>2, <2>3 DEF Budget, Kinds
<1>6. CASE kind = "converse"
  <2>1. Turns(kind, prompt, h) = Append(ConverseWindow(h, b), Sent(kind, prompt))
    BY <1>1, <1>6 DEF Turns
  <2>2. PICK s \in 1 .. Len(h) + 1 :
          /\ ConverseWindow(h, b) = Newest(h, s) /\ IsWindow(h, b, s)
          /\ (\A i \in 1 .. Len(h) : h[i].counted) => IsLongest(h, b, s)
    BY <1>5, ConverseWindowIs
  <2>3. QED BY <1>1, <1>5, <1>6, <2>1, <2>2
<1>7. CASE kind # "converse"
  <2>1. Turns(kind, prompt, h) = Append(WindowHistory(h, b), Sent(kind, prompt))
    BY <1>1, <1>7 DEF Turns
  <2>2. PICK s \in 1 .. Len(h) + 1 :
          WindowHistory(h, b) = Newest(h, s) /\ IsWindow(h, b, s) /\ IsLongest(h, b, s)
    BY <1>5, WindowHistoryIs
  <2>3. QED BY <1>1, <1>5, <1>7, <2>1, <2>2
<1>8. QED BY <1>6, <1>7

(* Counted, it measures what the history and the prompt measure, and the    *)
(* markup of every turn.                                                    *)
LEMMA LoadIs ==
  ASSUME NEW S, HaveTokens(S), NEW prompt \in S, NEW new \in Seq(S),
         \A i \in 1 .. Len(new) : new[i].counted
  PROVE  /\ Measured(new) \in Nat
         /\ TrueTokens(Append(new, prompt)) =
              Measured(new) + prompt.tokens + Markup * (Len(new) + 1)
<1>1. PICK m \in Nat : m = Len(new)
  BY LenProperties
<1>2. PICK turns \in Seq(S) : turns = Append(new, prompt)
  BY AppendProperties
<1>3. /\ Len(turns) = m + 1 /\ turns[m + 1] = prompt
      /\ \A i \in 1 .. m : turns[i] = new[i] /\ new[i] \in S
  BY <1>1, <1>2, AppendProperties, ElementOfSeq
<1>4. PICK p : PartialSums(Costs(new), m, p) /\ Measured(new) = p[m]
  BY <1>1, MeasuredIs
<1>5. PICK q : PartialSums(Loads(turns), m + 1, q) /\ TrueTokens(turns) = q[m + 1]
  BY <1>3, TrueTokensAre
<1>6. Markup \in Nat /\ prompt.tokens \in Nat
  BY ContextWindowAssumption DEF HaveTokens
<1>7. ASSUME NEW i \in 1 .. m
      PROVE  Costs(new)[i] \in Nat /\ Loads(turns)[i] = Costs(new)[i] + Markup
  <2>1. new[i].tokens \in Nat /\ Cost(new[i]) = new[i].tokens
    BY <1>1, <1>3, CostIs DEF HaveTokens
  <2>2. Costs(new)[i] = Cost(new[i])
    BY <1>1 DEF Costs
  <2>3. i \in 1 .. Len(turns)
    BY <1>3
  <2>4. Loads(turns)[i] = new[i].tokens + Markup
    BY <1>3, <2>3 DEF Loads
  <2>5. QED BY <2>1, <2>2, <2>4
<1>8. /\ \A k \in 0 .. m : p[k] \in Nat
      /\ p[0] = 0 /\ q[0] = 0
      /\ \A k \in 1 .. m : p[k] = p[k-1] + Costs(new)[k]
      /\ \A k \in 1 .. m + 1 : q[k] = q[k-1] + Loads(turns)[k]
  BY <1>4, <1>5 DEF PartialSums
<1> DEFINE T == {k \in 0 .. m : q[k] = p[k] + Markup * k}
<1>9. 0 \in T
  BY <1>6, <1>8
<1>10. ASSUME NEW k \in 1 .. m, k - 1 \in T PROVE k \in T
  <2>1. q[k-1] = p[k-1] + Markup * (k - 1)
    BY <1>10
  <2>2. q[k] = q[k-1] + (Costs(new)[k] + Markup) /\ p[k] = p[k-1] + Costs(new)[k]
    BY <1>7, <1>8
  <2>3. Markup * (k - 1) + Markup = Markup * k
    BY <1>6
  <2>4. Markup * (k - 1) \in Nat /\ Markup * k \in Nat
    BY <1>6
  <2>5. p[k-1] \in Nat /\ Costs(new)[k] \in Nat
    BY <1>7, <1>8
  <2>6. q[k] = p[k] + Markup * k
    BY <1>6, <2>1, <2>2, <2>3, <2>4, <2>5
  <2>7. QED BY <2>6
<1>11. q[m] = p[m] + Markup * m
  <2>1. 0 .. m \subseteq T
    <3> HIDE DEF T
    <3>1. QED BY <1>9, <1>10, UpTo
  <2>2. m \in 0 .. m
    OBVIOUS
  <2>3. m \in T
    BY <2>1, <2>2
  <2>4. QED BY <2>3
<1>12. q[m + 1] = q[m] + (prompt.tokens + Markup)
  <2>1. Loads(turns)[m + 1] = prompt.tokens + Markup
    BY <1>3 DEF Loads
  <2>2. m + 1 \in 1 .. m + 1 /\ (m + 1) - 1 = m
    OBVIOUS
  <2>3. QED BY <1>8, <2>1, <2>2
<1>13. Markup * m + Markup = Markup * (m + 1) /\ Markup * m \in Nat /\ Markup * (m + 1) \in Nat
  BY <1>6
<1>14. p[m] \in Nat
  BY <1>8
<1>15. q[m + 1] = p[m] + prompt.tokens + Markup * (m + 1)
  BY <1>6, <1>11, <1>12, <1>13, <1>14
<1>16. QED BY <1>1, <1>2, <1>4, <1>5, <1>14, <1>15
-----------------------------------------------------------------------------
(* The excerpts of a long text.                                             *)

LEMMA PartsFit ==
  ASSUME NEW a \in Nat, NEW e \in Nat \ {0}
  PROVE  a \div e \in Nat /\ e * (a \div e) <= a /\ a < e * (a \div e) + e
  OBVIOUS

LEMMA PartsGrow ==
  ASSUME NEW a \in Nat, NEW b \in Nat, a <= b, NEW e \in Nat \ {0}
  PROVE  a \div e <= b \div e
<1>1. PICK p \in Nat : p = a \div e /\ e * p <= a
  BY PartsFit
<1>2. PICK q \in Nat : q = b \div e /\ b < e * q + e
  BY PartsFit
<1>3. SUFFICES ASSUME p > q PROVE FALSE
  BY <1>1, <1>2
<1>4. p >= q + 1
  BY <1>3
<1>5. e * p >= e * (q + 1) /\ e * (q + 1) = e * q + e
  BY <1>4
<1>6. QED BY <1>1, <1>2, <1>5

LEMMA LeastOfThree ==
  ASSUME NEW a \in Nat, NEW b \in Nat, NEW c \in Nat
  PROVE  /\ Min({a, b, c}) \in {a, b, c}
         /\ Min({a, b, c}) <= a /\ Min({a, b, c}) <= b /\ Min({a, b, c}) <= c
<1>1. PICK m \in {a, b, c} : \A x \in {a, b, c} : m <= x
  <2>1. CASE a <= b /\ a <= c
    BY <2>1
  <2>2. CASE b <= a /\ b <= c
    BY <2>2
  <2>3. CASE c <= a /\ c <= b
    BY <2>3
  <2>4. QED BY <2>1, <2>2, <2>3
<1>2. QED BY <1>1 DEF Min

(* One slice more, unless the budget is spent.                              *)
OneMore(len, budget, i, c) ==
  IF c.taken >= budget THEN c
  ELSE [cut   |-> Append(c.cut, Slice(len, budget, i - 1, c.taken)),
        taken |-> c.taken + Cardinality(Slice(len, budget, i - 1, c.taken))]

NoSlice == [cut |-> <<>>, taken |-> 0]

SliceStep(len, budget, f) ==
  [i \in 0 .. ExcerptsPerDoc |-> IF i = 0 THEN NoSlice ELSE OneMore(len, budget, i, f[i-1])]

LEMMA SlicesExist ==
  ASSUME NEW len, NEW budget
  PROVE  \E f : f = SliceStep(len, budget, f)
<1> DEFINE E == ExcerptsPerDoc
           Good == {k \in 0 .. E : \E f : \A i \in 0 .. k : f[i] = SliceStep(len, budget, f)[i]}
<1>1. E \in Nat
  BY ContextWindowAssumption
<1>2. 0 \in Good
  <2> DEFINE f == [i \in 0 .. E |-> NoSlice]
  <2>1. f[0] = SliceStep(len, budget, f)[0]
    BY <1>1 DEF SliceStep
  <2>2. \A i \in 0 .. 0 : f[i] = SliceStep(len, budget, f)[i]
    BY <2>1
  <2>3. QED BY <1>1, <2>2
<1>3. ASSUME NEW k \in 1 .. E, k - 1 \in Good PROVE k \in Good
  <2>1. PICK f : \A i \in 0 .. k - 1 : f[i] = SliceStep(len, budget, f)[i]
    BY <1>3
  <2>2. PICK h : h = SliceStep(len, budget, f)
    OBVIOUS
  <2>3. ASSUME NEW i \in 0 .. k PROVE h[i] = SliceStep(len, budget, h)[i]
    <3>1. i \in 0 .. E
      BY <1>1
    <3>2. CASE i = 0
      BY <2>2, <3>1, <3>2 DEF SliceStep
    <3>3. CASE i # 0
      <4>1. i - 1 \in 0 .. k - 1 /\ i - 1 \in 0 .. E
        BY <1>1, <3>3
      <4>2. h[i-1] = f[i-1]
        BY <2>1, <2>2, <4>1
      <4>3. h[i] = OneMore(len, budget, i, f[i-1])
        BY <2>2, <3>1, <3>3 DEF SliceStep
      <4>4. SliceStep(len, budget, h)[i] = OneMore(len, budget, i, h[i-1])
        BY <3>1, <3>3 DEF SliceStep
      <4>5. QED BY <4>2, <4>3, <4>4
    <3>4. QED BY <3>2, <3>3
  <2>4. QED BY <2>3
<1>4. E \in Good
  <2>1. 0 .. E \subseteq Good
    <3> HIDE DEF Good, E
    <3>1. QED BY <1>1, <1>2, <1>3, UpTo
  <2>2. QED BY <1>1, <2>1
<1>5. PICK f : \A i \in 0 .. E : f[i] = SliceStep(len, budget, f)[i]
  BY <1>4
<1>6. PICK h : h = SliceStep(len, budget, f)
  OBVIOUS
<1>7. \A i \in 0 .. E : h[i] = f[i]
  BY <1>5, <1>6
<1>8. ASSUME NEW i \in 0 .. E PROVE h[i] = SliceStep(len, budget, h)[i]
  <2>1. CASE i = 0
    BY <1>6, <2>1 DEF SliceStep
  <2>2. CASE i # 0
    <3>1. i - 1 \in 0 .. E
      BY <1>1, <2>2
    <3>2. h[i] = OneMore(len, budget, i, f[i-1])
      BY <1>6, <2>2 DEF SliceStep
    <3>3. SliceStep(len, budget, h)[i] = OneMore(len, budget, i, h[i-1])
      BY <2>2 DEF SliceStep
    <3>4. QED BY <1>7, <3>1, <3>2, <3>3
  <2>3. QED BY <2>1, <2>2
<1>9. h = SliceStep(len, budget, h)
  BY <1>6, <1>8 DEF SliceStep
<1>10. QED BY <1>9

LEMMA SampledIs ==
  ASSUME NEW len \in Nat, NEW budget \in Nat
  PROVE  IF len <= budget THEN Sampled(len, budget) = <<1 .. len>>
         ELSE \E f : /\ f = SliceStep(len, budget, f)
                     /\ Sampled(len, budget) = f[ExcerptsPerDoc].cut
<1>1. CASE len <= budget
  BY <1>1 DEF Sampled
<1>2. CASE ~ (len <= budget)
  <2> DEFINE f == CHOOSE g : g = SliceStep(len, budget, g)
  <2>1. f = SliceStep(len, budget, f)
    BY SlicesExist
  <2>2. Sampled(len, budget) = f[ExcerptsPerDoc].cut
    BY <1>2 DEF Sampled, SliceStep, OneMore, NoSlice
  <2>3. QED BY <1>2, <2>1, <2>2
<1>3. QED BY <1>1, <1>2

(* What i slices have taken: distinct bytes, and all from the first i parts *)
(* of the text as long as there is budget left.                             *)
AllOf(c) == UNION ToSet(c.cut)

SlicesFit(len, budget, i, c) ==
  /\ c = [cut |-> c.cut, taken |-> c.taken]
  /\ c.cut \in Seq(SUBSET (1 .. len)) /\ c.taken \in 0 .. budget
  /\ IsFiniteSet(AllOf(c)) /\ Cardinality(AllOf(c)) = c.taken
  /\ \A j, k \in DOMAIN c.cut : j # k => c.cut[j] \intersect c.cut[k] = {}
  /\ c.taken < budget => /\ AllOf(c) \subseteq 1 .. (len \div ExcerptsPerDoc) * i
                         /\ PerExcerpt(budget) = budget => i = 0

(* A slice lies in its part of the text, or takes all the budget at once.   *)
LEMMA SliceIs ==
  ASSUME NEW len \in Nat, NEW budget \in Nat, budget < len,
         NEW i \in 1 .. ExcerptsPerDoc, NEW taken \in Nat, taken < budget,
         PerExcerpt(budget) = budget => i = 1 /\ taken = 0
  PROVE  \E start, take \in Nat :
           /\ Slice(len, budget, i - 1, taken) = start + 1 .. start + take
           /\ start = (len \div ExcerptsPerDoc) * (i - 1)
           /\ start + take <= len /\ taken + take <= budget
           /\ taken + take < budget => /\ start + take <= (len \div ExcerptsPerDoc) * i
                                       /\ PerExcerpt(budget) # budget
<1> DEFINE E == ExcerptsPerDoc
           d == len \div E
           b == PerExcerpt(budget)
           start == d * (i - 1)
           take == Min({b, budget - taken, len - start})
<1>1. E \in Nat \ {0} /\ MinExcerpt \in Nat
  BY ContextWindowAssumption
<1>2. d \in Nat /\ E * d <= len
  BY <1>1, PartsFit
<1>3. budget \div E \in Nat /\ budget \div E <= d
  BY <1>1, PartsFit, PartsGrow
<1>4. b \in Nat /\ (b # budget => b <= d)
  BY <1>3 DEF PerExcerpt
<1>5. start \in Nat /\ start + d = d * i /\ d * i <= len
  <2>1. i \in Nat /\ i - 1 \in Nat /\ i <= E
    BY <1>1
  <2>2. start \in Nat /\ start + d = d * i
    BY <1>2, <2>1
  <2>3. d * i <= d * E /\ d * E = E * d /\ d * E \in Nat /\ d * i \in Nat
    BY <1>1, <1>2, <2>1
  <2>4. d * i <= len
    BY <1>2, <2>3
  <2>5. QED BY <2>2, <2>4
<1>6. start <= len /\ len - start \in Nat /\ budget - taken \in Nat
  <2> HIDE DEF d
  <2>1. QED BY <1>2, <1>5
<1>7. /\ take \in {b, budget - taken, len - start}
      /\ take <= b /\ take <= budget - taken /\ take <= len - start
  <2> HIDE DEF b, start
  <2>1. QED BY <1>4, <1>6, LeastOfThree
<1>8. take \in Nat
  <2> HIDE DEF take, b, start
  <2>1. QED BY <1>4, <1>6, <1>7
<1>9. Slice(len, budget, i - 1, taken) = start + 1 .. start + take
  BY DEF Slice
<1>10. taken + take < budget => start + take <= d * i /\ b # budget
  <2>1. CASE b = budget
    <3>1. i = 1 /\ taken = 0
      BY <2>1
    <3>2. start = 0
      BY <1>2, <3>1
    <3>3. take \in {budget, len}
      <4> HIDE DEF take, start, b
      <4>1. QED BY <1>7, <2>1, <3>1, <3>2
    <3>4. ~ (taken + take < budget)
      <4> HIDE DEF take
      <4>1. QED BY <3>1, <3>3
    <3>5. QED BY <3>4
  <2>2. CASE b # budget
    <3>1. take <= d
      <4> HIDE DEF take, b, d
      <4>1. QED BY <1>2, <1>4, <1>7, <1>8, <2>2
    <3>2. start + take <= d * i
      <4> HIDE DEF take, start, d
      <4>1. d * i = start + d
        BY <1>5
      <4>2. QED BY <1>2, <1>5, <1>8, <3>1, <4>1
    <3>3. QED BY <2>2, <3>2
  <2>3. QED BY <2>1, <2>2
<1>11. start + take <= len /\ taken + take <= budget
  <2> HIDE DEF take, start
  <2>1. QED BY <1>5, <1>6, <1>7, <1>8
<1> HIDE DEF take, start, d, b
<1>12. start = (len \div ExcerptsPerDoc) * (i - 1)
  BY DEF start, d
<1>13. QED BY <1>5, <1>8, <1>9, <1>10, <1>11, <1>12 DEF d, b

LEMMA OneMoreFits ==
  ASSUME NEW len \in Nat, NEW budget \in Nat, budget < len, NEW i \in 1 .. ExcerptsPerDoc,
         NEW c, SlicesFit(len, budget, i - 1, c)
  PROVE  SlicesFit(len, budget, i, OneMore(len, budget, i, c))
<1>1. CASE c.taken >= budget
  <2>1. OneMore(len, budget, i, c) = c
    BY <1>1 DEF OneMore
  <2>2. ~ (c.taken < budget)
    BY <1>1 DEF SlicesFit
  <2>3. QED BY <2>1, <2>2 DEF SlicesFit
<1>2. CASE ~ (c.taken >= budget)
  <2>1. PICK taken \in Nat : taken = c.taken
    BY DEF SlicesFit
  <2>2. taken < budget
    BY <1>2, <2>1
  <2>3. PICK cut \in Seq(SUBSET (1 .. len)) : cut = c.cut
    BY DEF SlicesFit
  <2>4. PICK all : all = AllOf(c)
    OBVIOUS
  <2>5. /\ IsFiniteSet(all) /\ Cardinality(all) = taken
        /\ \A j, k \in DOMAIN cut : j # k => cut[j] \intersect cut[k] = {}
        /\ all \subseteq 1 .. (len \div ExcerptsPerDoc) * (i - 1)
        /\ PerExcerpt(budget) = budget => i - 1 = 0
    BY <2>1, <2>2, <2>3, <2>4 DEF SlicesFit
  <2>6. i \in Nat /\ (i - 1 = 0 => i = 1)
    BY ContextWindowAssumption
  <2>7. i = 1 => taken = 0
    <3>1. SUFFICES ASSUME i = 1 PROVE taken = 0
      OBVIOUS
    <3>2. len \div ExcerptsPerDoc \in Nat
      BY ContextWindowAssumption, PartsFit
    <3>3. (len \div ExcerptsPerDoc) * (i - 1) = 0
      BY <3>1, <3>2
    <3>4. all = {}
      BY <2>5, <3>3
    <3>5. QED BY <2>5, <3>4, FS_EmptySet
  <2>8. PICK slice : slice = Slice(len, budget, i - 1, taken)
    OBVIOUS
  <2>9. PICK start \in Nat, take \in Nat :
           /\ slice = start + 1 .. start + take
           /\ start = (len \div ExcerptsPerDoc) * (i - 1)
           /\ start + take <= len /\ taken + take <= budget
           /\ taken + take < budget => /\ start + take <= (len \div ExcerptsPerDoc) * i
                                       /\ PerExcerpt(budget) # budget
    <3>1. PerExcerpt(budget) = budget => i = 1 /\ taken = 0
      BY <2>5, <2>6, <2>7
    <3>2. QED BY <2>2, <2>8, <3>1, SliceIs
  <2>10. IsFiniteSet(slice) /\ Cardinality(slice) = take /\ slice \subseteq 1 .. len
    <3>1. start + 1 \in Int /\ start + take \in Int
      BY <2>9
    <3>2. /\ IsFiniteSet(start + 1 .. start + take)
          /\ Cardinality(start + 1 .. start + take) =
               IF start + 1 > start + take THEN 0 ELSE (start + take) - (start + 1) + 1
      BY <3>1, FS_Interval
    <3>3. slice \subseteq 1 .. len
      BY <2>9
    <3>4. QED BY <2>9, <3>2, <3>3
  <2>11. PICK new \in Seq(SUBSET (1 .. len)) : new = Append(cut, slice)
    BY <2>10, AppendProperties
  <2>12. PICK n \in Nat : n = Len(cut)
    BY LenProperties
  <2>13. /\ DOMAIN cut = 1 .. n /\ DOMAIN new = 1 .. n + 1 /\ new[n + 1] = slice
         /\ \A j \in 1 .. n : new[j] = cut[j]
    BY <2>10, <2>11, <2>12, AppendProperties, LenProperties
  <2>14. PICK d : d = OneMore(len, budget, i, c)
    OBVIOUS
  <2>15. d = [cut |-> new, taken |-> taken + take]
    BY <1>2, <2>1, <2>3, <2>8, <2>10, <2>11, <2>14 DEF OneMore
  <2>16. AllOf(d) = all \union slice
    <3>1. ToSet(new) = ToSet(cut) \union {slice}
      <4>1. ToSet(new) = {new[j] : j \in 1 .. n + 1} /\ ToSet(cut) = {cut[j] : j \in 1 .. n}
        BY <2>13 DEF ToSet
      <4>2. 1 .. n + 1 = (1 .. n) \union {n + 1}
        OBVIOUS
      <4>3. QED BY <2>13, <4>1, <4>2
    <3>2. AllOf(d) = UNION ToSet(new) /\ all = UNION ToSet(cut)
      BY <2>3, <2>4, <2>15 DEF AllOf
    <3>3. QED BY <3>1, <3>2
  <2>17. all \intersect slice = {}
    BY <2>5, <2>9
  <2>18. IsFiniteSet(AllOf(d)) /\ Cardinality(AllOf(d)) = taken + take
    <3>1. /\ IsFiniteSet(all \union slice)
          /\ Cardinality(all \union slice) =
               Cardinality(all) + Cardinality(slice) - Cardinality(all \intersect slice)
      BY <2>5, <2>10, FS_Union
    <3>2. Cardinality(all \intersect slice) = 0
      BY <2>17, FS_EmptySet
    <3>3. QED BY <2>5, <2>10, <2>16, <3>1, <3>2
  <2>19. ASSUME NEW j \in DOMAIN new, NEW k \in DOMAIN new, j # k
         PROVE  new[j] \intersect new[k] = {}
    <3>1. \A m \in 1 .. n : new[m] \subseteq all
      BY <2>3, <2>4, <2>13 DEF AllOf, ToSet
    <3>2. CASE j = n + 1
      <4>1. k \in 1 .. n
        BY <2>13, <2>19, <3>2
      <4>2. QED BY <2>13, <2>17, <3>1, <3>2, <4>1
    <3>3. CASE k = n + 1
      <4>1. j \in 1 .. n
        BY <2>13, <2>19, <3>3
      <4>2. QED BY <2>13, <2>17, <3>1, <3>3, <4>1
    <3>4. CASE j # n + 1 /\ k # n + 1
      <4>1. j \in 1 .. n /\ k \in 1 .. n
        BY <2>13, <3>4
      <4>2. QED BY <2>5, <2>13, <2>19, <4>1
    <3>5. QED BY <3>2, <3>3, <3>4
  <2>20. ASSUME taken + take < budget
         PROVE  /\ AllOf(d) \subseteq 1 .. (len \div ExcerptsPerDoc) * i
                /\ PerExcerpt(budget) # budget
    <3>1. PICK reach \in Int : reach = (len \div ExcerptsPerDoc) * i /\ start + take <= reach
      <4>1. (len \div ExcerptsPerDoc) * i \in Int
        BY <2>6, ContextWindowAssumption, PartsFit
      <4>2. QED BY <2>9, <2>20, <4>1
    <3>2. all \subseteq 1 .. start
      BY <2>5, <2>9
    <3>3. all \union slice \subseteq 1 .. reach
      <4>1. start <= reach
        BY <2>9, <3>1
      <4>2. 1 .. start \subseteq 1 .. reach /\ start + 1 .. start + take \subseteq 1 .. reach
        BY <2>9, <3>1, <4>1
      <4>3. QED BY <2>9, <3>2, <4>2
    <3>4. QED BY <2>9, <2>16, <2>20, <3>1, <3>3
  <2>21. SlicesFit(len, budget, i, d)
    <3>1. d.cut = new /\ d.taken = taken + take /\ d = [cut |-> d.cut, taken |-> d.taken]
      BY <2>15
    <3>2. taken + take \in 0 .. budget
      BY <2>9
    <3>3. QED BY <2>18, <2>19, <2>20, <3>1, <3>2 DEF SlicesFit
  <2>22. QED BY <2>14, <2>21
<1>3. QED BY <1>1, <1>2

(* Excerpts keep to their budget, lie in the text and do not overlap; a     *)
(* text within its budget is taken whole.                                   *)
LEMMA SampledFits ==
  ASSUME NEW len \in Nat, NEW budget \in Nat
  PROVE  LET slices == Sampled(len, budget)
             all == UNION ToSet(slices)
         IN  /\ all \subseteq 1 .. len
             /\ Cardinality(all) <= budget
             /\ \A i, j \in DOMAIN slices : i # j => slices[i] \intersect slices[j] = {}
             /\ len <= budget => all = 1 .. len
<1>1. PICK slices : slices = Sampled(len, budget)
  OBVIOUS
<1>2. CASE len <= budget
  <2>1. slices = <<1 .. len>>
    BY <1>1, <1>2, SampledIs
  <2>2. DOMAIN slices = {1} /\ slices[1] = 1 .. len
    BY <2>1
  <2>3. UNION ToSet(slices) = 1 .. len
    BY <2>2 DEF ToSet
  <2>4. Cardinality(1 .. len) = len
    <3>1. Cardinality(1 .. len) = IF 1 > len THEN 0 ELSE len - 1 + 1
      BY FS_Interval
    <3>2. QED BY <3>1
  <2>5. QED BY <1>1, <1>2, <2>2, <2>3, <2>4
<1>3. CASE ~ (len <= budget)
  <2>1. PICK f : f = SliceStep(len, budget, f) /\ slices = f[ExcerptsPerDoc].cut
    BY <1>1, <1>3, SampledIs
  <2>2. ExcerptsPerDoc \in Nat /\ budget < len
    BY <1>3, ContextWindowAssumption
  <2> DEFINE T == {k \in 0 .. ExcerptsPerDoc : SlicesFit(len, budget, k, f[k])}
  <2>3. 0 \in T
    <3>1. f[0] = NoSlice
      BY <2>1, <2>2 DEF SliceStep
    <3>2. AllOf(NoSlice) = {} /\ DOMAIN NoSlice.cut = {}
      BY DEF AllOf, NoSlice, ToSet
    <3>3. IsFiniteSet({}) /\ Cardinality({}) = 0
      BY FS_EmptySet
    <3>4. /\ NoSlice.cut \in Seq(SUBSET (1 .. len)) /\ NoSlice.taken \in 0 .. budget
          /\ NoSlice.taken = 0 /\ NoSlice = [cut |-> NoSlice.cut, taken |-> NoSlice.taken]
      BY DEF NoSlice
    <3>5. SlicesFit(len, budget, 0, NoSlice)
      BY <3>2, <3>3, <3>4 DEF SlicesFit
    <3>6. QED BY <2>2, <3>1, <3>5
  <2>4. ASSUME NEW k \in 1 .. ExcerptsPerDoc, k - 1 \in T PROVE k \in T
    <3>1. f[k] = OneMore(len, budget, k, f[k-1])
      <4>1. k \in 0 .. ExcerptsPerDoc /\ k # 0
        OBVIOUS
      <4>2. QED BY <2>1, <4>1 DEF SliceStep
    <3>2. PICK c : c = f[k-1]
      OBVIOUS
    <3>3. SlicesFit(len, budget, k - 1, c)
      BY <2>4, <3>2
    <3>4. SlicesFit(len, budget, k, OneMore(len, budget, k, c))
      BY <2>2, <3>3, OneMoreFits
    <3>5. QED BY <3>1, <3>2, <3>4
  <2>5. ExcerptsPerDoc \in T
    <3>1. 0 .. ExcerptsPerDoc \subseteq T
      <4> HIDE DEF T
      <4>1. QED BY <2>2, <2>3, <2>4, UpTo
    <3>2. QED BY <2>2, <3>1
  <2>6. PICK c : c = f[ExcerptsPerDoc] /\ SlicesFit(len, budget, ExcerptsPerDoc, c)
    BY <2>5
  <2>7. slices = c.cut
    BY <2>1, <2>6
  <2>8. UNION ToSet(slices) \subseteq 1 .. len
    <3>1. DOMAIN slices = 1 .. Len(slices) /\ \A k \in 1 .. Len(slices) : slices[k] \subseteq 1 .. len
      BY <2>6, <2>7, LenProperties, ElementOfSeq DEF SlicesFit
    <3>2. QED BY <3>1 DEF ToSet
  <2>9. Cardinality(UNION ToSet(slices)) <= budget
    BY <2>6, <2>7 DEF SlicesFit, AllOf
  <2>10. \A i, j \in DOMAIN slices : i # j => slices[i] \intersect slices[j] = {}
    BY <2>6, <2>7 DEF SlicesFit
  <2>11. QED BY <1>1, <1>3, <2>8, <2>9, <2>10
<1>4. QED BY <1>2, <1>3

Text == Seq(Symbols)

-----------------------------------------------------------------------------
(* Sequences and the least of a set.                                        *)

LEMMA SymbolOf ==
  ASSUME NEW s \in Text
  PROVE  /\ Len(s) \in Nat
         /\ DOMAIN s = 1 .. Len(s)
         /\ \A i \in 1 .. Len(s) : s[i] \in Symbols
BY SMT, LenProperties, ElementOfSeq DEF Text

LEMMA CatIsText ==
  ASSUME NEW s \in Text, NEW t \in Text
  PROVE  /\ s \o t \in Text
         /\ Len(s \o t) = Len(s) + Len(t)
         /\ \A i \in 1 .. Len(s) : (s \o t)[i] = s[i]
         /\ \A i \in 1 .. Len(t) : (s \o t)[Len(s) + i] = t[i]
BY SMT, ConcatProperties DEF Text

LEMMA CatWithNothing ==
  ASSUME NEW s \in Text
  PROVE  s \o <<>> = s /\ <<>> \o s = s
BY ConcatEmptySeq DEF Text

LEMMA CatAgain ==
  ASSUME NEW s \in Text, NEW t \in Text, NEW u \in Text
  PROVE  (s \o t) \o u = s \o (t \o u)
BY ConcatAssociative DEF Text

LEMMA SameText ==
  ASSUME NEW s \in Text, NEW t \in Text, Len(s) = Len(t),
         \A i \in 1 .. Len(s) : s[i] = t[i]
  PROVE  s = t
BY SeqEqual DEF Text

LEMMA TextWithout ==
  ASSUME NEW s \in Text, Len(s) = 0
  PROVE  s = <<>>
BY EmptySeq DEF Text

LEMMA NothingIsText == <<>> \in Text /\ Len(<<>>) = 0
BY EmptySeq DEF Text

LEMMA TailIsText ==
  ASSUME NEW s \in Text, NEW i \in Nat \ {0}
  PROVE  /\ From(s, i) \in Text
         /\ Len(From(s, i)) = IF i <= Len(s) THEN Len(s) - i + 1 ELSE 0
         /\ \A k \in 1 .. Len(s) - i + 1 : From(s, i)[k] = s[i + k - 1]
BY SMT, SubSeqProperties, ElementOfSeq DEF Text, From

LEMMA HeadIsText ==
  ASSUME NEW s \in Text, NEW n \in 0 .. Len(s)
  PROVE  /\ SubSeq(s, 1, n) \in Text
         /\ Len(SubSeq(s, 1, n)) = n
         /\ \A k \in 1 .. n : SubSeq(s, 1, n)[k] = s[k]
BY SMT, SubSeqProperties, ElementOfSeq, LenProperties DEF Text

(* A tail that begins within s goes on in what is appended to s.            *)
LEMMA TailOfCat ==
  ASSUME NEW s \in Text, NEW t \in Text, NEW i \in 1 .. Len(s) + 1
  PROVE  From(s \o t, i) = From(s, i) \o t
<1>1. Len(s) \in Nat /\ Len(t) \in Nat
  BY SymbolOf
<1>2. /\ s \o t \in Text /\ Len(s \o t) = Len(s) + Len(t)
      /\ \A k \in 1 .. Len(s) : (s \o t)[k] = s[k]
      /\ \A k \in 1 .. Len(t) : (s \o t)[Len(s) + k] = t[k]
  BY CatIsText
<1> DEFINE a == From(s \o t, i)
           b == From(s, i) \o t
<1>3. i \in Nat \ {0} /\ i <= Len(s) + 1
  BY <1>1
<1>4. /\ From(s, i) \in Text /\ Len(From(s, i)) = Len(s) - i + 1
      /\ \A k \in 1 .. Len(s) - i + 1 : From(s, i)[k] = s[i + k - 1]
  <2>1. Len(From(s, i)) = IF i <= Len(s) THEN Len(s) - i + 1 ELSE 0
    BY <1>3, TailIsText
  <2>2. Len(From(s, i)) = Len(s) - i + 1
    BY <1>1, <1>3, <2>1
  <2>3. QED BY <1>3, <2>2, TailIsText
<1>5. /\ a \in Text /\ Len(a) = Len(s) + Len(t) - i + 1
      /\ \A k \in 1 .. Len(s) + Len(t) - i + 1 : a[k] = (s \o t)[i + k - 1]
  <2>1. Len(a) = IF i <= Len(s \o t) THEN Len(s \o t) - i + 1 ELSE 0
    BY <1>2, <1>3, TailIsText
  <2>2. Len(a) = Len(s) + Len(t) - i + 1
    <3> HIDE DEF a
    <3>1. QED BY <1>1, <1>2, <1>3, <2>1
  <2>3. a \in Text /\ \A k \in 1 .. Len(s \o t) - i + 1 : a[k] = (s \o t)[i + k - 1]
    BY <1>2, <1>3, TailIsText
  <2>4. Len(s \o t) - i + 1 = Len(s) + Len(t) - i + 1
    BY <1>2
  <2>5. \A k \in 1 .. Len(s) + Len(t) - i + 1 : a[k] = (s \o t)[i + k - 1]
    BY <2>3, <2>4
  <2>6. QED BY <2>2, <2>3, <2>5
<1>6. /\ b \in Text /\ Len(b) = Len(From(s, i)) + Len(t)
      /\ \A k \in 1 .. Len(From(s, i)) : b[k] = From(s, i)[k]
      /\ \A k \in 1 .. Len(t) : b[Len(From(s, i)) + k] = t[k]
  BY <1>4, CatIsText
<1> HIDE DEF a, b
<1>7. ASSUME NEW k \in 1 .. Len(a) PROVE a[k] = b[k]
  <2>1. CASE k <= Len(s) - i + 1
    <3>1. a[k] = (s \o t)[i + k - 1] /\ b[k] = s[i + k - 1]
      BY <1>4, <1>5, <1>6, <2>1
    <3>2. i + k - 1 \in 1 .. Len(s)
      BY <1>1, <1>3, <2>1
    <3>3. QED BY <1>2, <3>1, <3>2
  <2>2. CASE k > Len(s) - i + 1
    <3>1. PICK m \in 1 .. Len(t) : k = Len(s) - i + 1 + m
      <4>1. k - (Len(s) - i + 1) \in 1 .. Len(t)
        BY <1>1, <1>3, <1>5, <2>2
      <4>2. k = Len(s) - i + 1 + (k - (Len(s) - i + 1))
        BY <1>1, <1>3
      <4>3. QED BY <4>1, <4>2
    <3>2. a[k] = (s \o t)[i + k - 1] /\ i + k - 1 = Len(s) + m
      BY <1>1, <1>3, <1>5, <3>1
    <3>3. b[k] = t[m]
      BY <1>4, <1>6, <3>1
    <3>4. QED BY <1>2, <3>2, <3>3
  <2>3. QED BY <1>1, <1>3, <1>5, <2>1, <2>2
<1>8. QED
  <2>1. Len(a) = Len(b)
    BY <1>1, <1>3, <1>4, <1>5, <1>6
  <2>2. a = b
    BY <1>5, <1>6, <1>7, <2>1, SameText
  <2>3. QED BY <2>2 DEF a, b

LEMMA LeastExists ==
  ASSUME NEW S \in SUBSET Nat, S # {}
  PROVE  Min(S) \in S /\ \A y \in S : Min(S) <= y
<1> DEFINE R == OpToRel(<, Nat)
<1>1. IsWellFoundedOn(R, Nat)
  BY NatLessThanWellFounded
<1>2. PICK x \in S : \A y \in S : <<y, x>> \notin R
  <2> HIDE DEF R
  <2>1. QED BY <1>1, WFMin
<1>3. \A y \in S : y \in Nat /\ x \in Nat /\ ~ (y < x)
  BY <1>2 DEF OpToRel
<1>4. \A y \in S : x <= y
  BY <1>3
<1>5. QED BY <1>4 DEF Min

LEMMA LeastIs ==
  ASSUME NEW S \in SUBSET Nat, NEW x \in S, \A y \in S : x <= y
  PROVE  Min(S) = x
<1>1. \A z \in S : (\A y \in S : z <= y) => z = x
  <2>1. \A z \in S : z <= x => z = x
    OBVIOUS
  <2>2. QED BY <2>1
<1>2. QED BY <1>1 DEF Min

-----------------------------------------------------------------------------
(* The kinds of block: two symbols open one, and two close it.              *)

Formats == {1, 2}

OpenTag(f) == kThinkFormats[f].open[2]
CloseTag(f) == kThinkFormats[f].close[2]

LEMMA FormatsAre ==
  /\ DOMAIN kThinkFormats = Formats
  /\ \A f \in Formats :
       /\ kThinkFormats[f].open = <<"<", OpenTag(f)>>
       /\ kThinkFormats[f].close = <<"<", CloseTag(f)>>
       /\ OpenTag(f) # "<" /\ CloseTag(f) # "<" /\ OpenTag(f) # CloseTag(f)
       /\ OpenTag(f) # Blank /\ OpenTag(f) \in Symbols /\ CloseTag(f) \in Symbols
  /\ OpenTag(1) # OpenTag(2)
<1>1. /\ kThinkFormats[1] = [open |-> <<"<", "think>">>, close |-> <<"<", "/think>">>]
      /\ kThinkFormats[2] = [open |-> <<"<", "|channel>">>, close |-> <<"<", "channel|>">>]
      /\ DOMAIN kThinkFormats = 1 .. 2
  BY DEF kThinkFormats
<1>2. /\ OpenTag(1) = "think>" /\ OpenTag(2) = "|channel>"
      /\ CloseTag(1) = "/think>" /\ CloseTag(2) = "channel|>"
  BY <1>1 DEF OpenTag, CloseTag
<1>3. 1 .. 2 = Formats
  BY DEF Formats
<1>4. \A f \in Formats : f = 1 \/ f = 2
  BY DEF Formats
<1>5. \A f \in Formats :
        /\ kThinkFormats[f].open = <<"<", OpenTag(f)>>
        /\ kThinkFormats[f].close = <<"<", CloseTag(f)>>
  BY <1>1, <1>2, <1>4
<1>6. \A f \in Formats :
        /\ OpenTag(f) # "<" /\ CloseTag(f) # "<" /\ OpenTag(f) # CloseTag(f)
        /\ OpenTag(f) # Blank /\ OpenTag(f) \in Symbols /\ CloseTag(f) \in Symbols
  BY <1>2, <1>4 DEF Blank, Symbols
<1>7. QED BY <1>1, <1>2, <1>3, <1>5, <1>6

Opens(text, f) == Len(text) >= 2 /\ text[1] = "<" /\ text[2] = OpenTag(f)

ClosesAt(text, f, i) ==
  i \in 1 .. Len(text) - 1 /\ text[i] = "<" /\ text[i+1] = CloseTag(f)

LEMMA PairIs ==
  ASSUME NEW a, NEW b, NEW c, NEW d
  PROVE  <<a, b>> = <<c, d>> <=> a = c /\ b = d
OBVIOUS

LEMMA PairAt ==
  ASSUME NEW text \in Text, NEW i \in 1 .. Len(text) - 1
  PROVE  SubSeq(text, i, i + 1) = <<text[i], text[i+1]>>
<1>1. Len(text) \in Nat /\ \A k \in 1 .. Len(text) : text[k] \in Symbols
  BY SymbolOf
<1>2. i \in 1 .. Len(text) /\ i + 1 \in 1 .. Len(text)
  BY <1>1
<1> DEFINE s == SubSeq(text, i, i + 1)
<1>3. /\ s \in Text /\ Len(s) = 2
      /\ s[1] = text[i] /\ s[2] = text[i+1]
  <2>1. \A k \in i .. i + 1 : text[k] \in Symbols
    BY <1>1, <1>2
  <2>2. /\ s \in Seq(Symbols) /\ Len(s) = IF i <= i + 1 THEN i + 1 - i + 1 ELSE 0
        /\ \A k \in 1 .. i + 1 - i + 1 : s[k] = text[i + k - 1]
    BY <1>2, <2>1, SubSeqProperties
  <2> HIDE DEF s
  <2>3. Len(s) = 2 /\ s[1] = text[i + 1 - 1] /\ s[2] = text[i + 2 - 1]
    BY <1>2, <2>2
  <2>4. i + 1 - 1 = i /\ i + 2 - 1 = i + 1
    BY <1>2
  <2>5. QED BY <2>2, <2>3, <2>4 DEF Text
<1> HIDE DEF s
<1>4. /\ <<text[i], text[i+1]>> \in Text /\ Len(<<text[i], text[i+1]>>) = 2
  BY <1>1, <1>2 DEF Text
<1>5. \A k \in 1 .. 2 : s[k] = <<text[i], text[i+1]>>[k]
  BY <1>3
<1>6. s = <<text[i], text[i+1]>>
  BY <1>3, <1>4, <1>5, SameText
<1>7. QED BY <1>6 DEF s

LEMMA OpeningIs ==
  ASSUME NEW text \in Text, NEW f \in Formats
  PROVE  IsPrefix(kThinkFormats[f].open, text) <=> Opens(text, f)
<1>1. Len(text) \in Nat
  BY SymbolOf
<1> DEFINE o == kThinkFormats[f].open
<1>2. o = <<"<", OpenTag(f)>> /\ Len(o) = 2
  BY FormatsAre
<1>3. SubSeq(o, 1, 2) = <<"<", OpenTag(f)>>
  <2>1. o \in Text
    BY <1>2, FormatsAre DEF Text, Symbols
  <2>2. SubSeq(o, 1, Len(o)) = o
    BY <2>1, SubSeqFull DEF Text
  <2>3. QED BY <1>2, <2>2
<1> HIDE DEF o
<1>4. IsPrefix(o, text) <=> 2 <= Len(text) /\ <<"<", OpenTag(f)>> = SubSeq(text, 1, 2)
  BY <1>2, <1>3 DEF IsPrefix
<1>5. 2 <= Len(text) => SubSeq(text, 1, 2) = <<text[1], text[2]>>
  <2>1. SUFFICES ASSUME 2 <= Len(text) PROVE SubSeq(text, 1, 2) = <<text[1], text[2]>>
    OBVIOUS
  <2>2. 1 \in 1 .. Len(text) - 1
    BY <1>1, <2>1
  <2>3. SubSeq(text, 1, 1 + 1) = <<text[1], text[1+1]>>
    BY <2>2, PairAt
  <2>4. QED BY <2>3
<1>6. IsPrefix(o, text) <=> Opens(text, f)
  BY <1>1, <1>4, <1>5 DEF Opens
<1>7. QED BY <1>6 DEF o

LEMMA ClosingIs ==
  ASSUME NEW text \in Text, NEW f \in Formats, NEW from \in Nat \ {0}
  PROVE  Occurrences(text, kThinkFormats[f].close, from)
           = {i \in Nat : from <= i /\ ClosesAt(text, f, i)}
<1>1. Len(text) \in Nat
  BY SymbolOf
<1> DEFINE c == kThinkFormats[f].close
<1>2. c = <<"<", CloseTag(f)>>
  BY FormatsAre
<1>3. Len(<<"<", CloseTag(f)>>) = 2
  OBVIOUS
<1> HIDE DEF c
<1>4. Occurrences(text, c, from)
        = {i \in from .. Len(text) : i + 2 - 1 <= Len(text)
             /\ SubSeq(text, i, i + 2 - 1) = <<"<", CloseTag(f)>>}
  BY <1>2, <1>3 DEF Occurrences
<1>5. ASSUME NEW i \in from .. Len(text)
      PROVE  (i + 2 - 1 <= Len(text) /\ SubSeq(text, i, i + 2 - 1) = <<"<", CloseTag(f)>>)
               <=> ClosesAt(text, f, i)
  <2>1. i \in Nat \ {0} /\ i + 2 - 1 = i + 1
    BY <1>1
  <2>2. i + 1 <= Len(text) <=> i \in 1 .. Len(text) - 1
    BY <1>1, <2>1
  <2>3. i \in 1 .. Len(text) - 1 => SubSeq(text, i, i + 1) = <<text[i], text[i+1]>>
    BY PairAt
  <2>4. QED BY <2>1, <2>2, <2>3, PairIs DEF ClosesAt
<1>6. \A i \in Nat : from <= i /\ ClosesAt(text, f, i) => i \in from .. Len(text)
  BY <1>1 DEF ClosesAt
<1>7. from .. Len(text) \subseteq Nat /\ \A i \in from .. Len(text) : from <= i
  BY <1>1
<1>8. Occurrences(text, c, from) = {i \in Nat : from <= i /\ ClosesAt(text, f, i)}
  BY <1>4, <1>5, <1>6, <1>7
<1>9. QED BY <1>8 DEF c
-----------------------------------------------------------------------------
(* Blanks in front of a text.                                               *)

AllBlank(s) == \A i \in 1 .. Len(s) : s[i] = Blank

FirstSolid(s, k) ==
  k \in 1 .. Len(s) /\ s[k] # Blank /\ \A j \in 1 .. k - 1 : s[j] = Blank

LEMMA SkipAll ==
  ASSUME NEW s \in Text, AllBlank(s)
  PROVE  SkipBlanks(s) = <<>>
BY SymbolOf DEF AllBlank, SkipBlanks

LEMMA SkipTo ==
  ASSUME NEW s \in Text, NEW k, FirstSolid(s, k)
  PROVE  SkipBlanks(s) = From(s, k)
<1> DEFINE rest == {i \in DOMAIN s : s[i] # Blank}
<1>1. Len(s) \in Nat /\ DOMAIN s = 1 .. Len(s)
  BY SymbolOf
<1>2. rest \in SUBSET Nat /\ k \in rest
  BY <1>1 DEF FirstSolid
<1>3. \A y \in rest : k <= y
  BY <1>1 DEF FirstSolid
<1>4. Min(rest) = k
  <2> HIDE DEF rest
  <2>1. QED BY <1>2, <1>3, LeastIs
<1>5. rest # {}
  BY <1>2
<1>6. QED BY <1>4, <1>5 DEF SkipBlanks, From

LEMMA BlankOrSolid ==
  ASSUME NEW s \in Text
  PROVE  AllBlank(s) \/ \E k \in 1 .. Len(s) : FirstSolid(s, k)
<1> DEFINE rest == {i \in 1 .. Len(s) : s[i] # Blank}
<1>1. Len(s) \in Nat
  BY SymbolOf
<1>2. CASE rest = {}
  BY <1>2 DEF AllBlank
<1>3. CASE rest # {}
  <2>1. rest \in SUBSET Nat
    BY <1>1
  <2>2. PICK k \in rest : \A y \in rest : k <= y
    <3> HIDE DEF rest
    <3>1. QED BY <1>3, <2>1, LeastExists
  <2>3. \A j \in 1 .. k - 1 : s[j] = Blank
    BY <1>1, <2>2
  <2>4. FirstSolid(s, k)
    BY <2>2, <2>3 DEF FirstSolid
  <2>5. QED BY <2>2, <2>4
<1>4. QED BY <1>2, <1>3

(* What is left of a text is the end of it, or nothing.                     *)
IsTail(u, s) == \E k \in 1 .. Len(s) + 1 : u = From(s, k)

LEMMA WholeIsTail ==
  ASSUME NEW s \in Text
  PROVE  From(s, 1) = s /\ IsTail(s, s)
<1>1. From(s, 1) = s
  BY SubSeqFull DEF From, Text
<1>2. 1 \in 1 .. Len(s) + 1
  BY SymbolOf
<1>3. QED BY <1>1, <1>2 DEF IsTail

LEMMA NothingIsTail ==
  ASSUME NEW s \in Text
  PROVE  From(s, Len(s) + 1) = <<>> /\ IsTail(<<>>, s)
<1>1. Len(s) \in Nat
  BY SymbolOf
<1>2. From(s, Len(s) + 1) = <<>>
  BY <1>1, SubSeqEmpty DEF From
<1>3. Len(s) + 1 \in 1 .. Len(s) + 1
  BY <1>1
<1>4. QED BY <1>2, <1>3 DEF IsTail

LEMMA TailOfTail ==
  ASSUME NEW s \in Text, NEW i \in 1 .. Len(s) + 1, NEW u, IsTail(u, From(s, i))
  PROVE  u \in Text /\ IsTail(u, s)
<1>1. Len(s) \in Nat /\ i \in Nat \ {0} /\ i <= Len(s) + 1
  BY SymbolOf
<1> DEFINE t == From(s, i)
<1>2. t \in Text /\ \A k \in 1 .. Len(s) - i + 1 : t[k] = s[i + k - 1]
  BY <1>1, TailIsText
<1>3. Len(t) = Len(s) - i + 1
  <2>1. Len(t) = IF i <= Len(s) THEN Len(s) - i + 1 ELSE 0
    BY <1>1, TailIsText
  <2> HIDE DEF t
  <2>2. QED BY <1>1, <2>1
<1>4. PICK k \in 1 .. Len(t) + 1 : u = From(t, k)
  BY DEF IsTail
<1> HIDE DEF t
<1>5. k \in Nat \ {0} /\ k <= Len(s) - i + 2
  BY <1>1, <1>3
<1> DEFINE m == i + k - 1
<1>6. m \in Nat \ {0} /\ m \in 1 .. Len(s) + 1 /\ m <= Len(s) + 1
  BY <1>1, <1>5
<1> DEFINE v == From(s, m)
<1>7. /\ u \in Text /\ Len(u) = IF k <= Len(t) THEN Len(t) - k + 1 ELSE 0
      /\ \A j \in 1 .. Len(t) - k + 1 : u[j] = t[k + j - 1]
  BY <1>2, <1>4, <1>5, TailIsText
<1>8. /\ v \in Text /\ Len(v) = IF m <= Len(s) THEN Len(s) - m + 1 ELSE 0
      /\ \A j \in 1 .. Len(s) - m + 1 : v[j] = s[m + j - 1]
  BY <1>6, TailIsText
<1> HIDE DEF v
<1>9. Len(u) = Len(s) - m + 1 /\ Len(v) = Len(s) - m + 1
  <2>1. Len(u) = Len(t) - k + 1
    BY <1>1, <1>3, <1>5, <1>7
  <2>2. Len(v) = Len(s) - m + 1
    <3> HIDE DEF m
    <3>1. QED BY <1>1, <1>6, <1>8
  <2>3. QED BY <1>1, <1>3, <1>5, <2>1, <2>2
<1>10. ASSUME NEW j \in 1 .. Len(u) PROVE u[j] = v[j]
  <2>1. u[j] = t[k + j - 1] /\ v[j] = s[m + j - 1]
    BY <1>1, <1>3, <1>5, <1>7, <1>8, <1>9
  <2>2. k + j - 1 \in 1 .. Len(s) - i + 1 /\ i + (k + j - 1) - 1 = m + j - 1
    BY <1>1, <1>5, <1>9
  <2>3. t[k + j - 1] = s[i + (k + j - 1) - 1]
    BY <1>2, <2>2
  <2>4. QED BY <2>1, <2>2, <2>3
<1>11. u = v
  BY <1>7, <1>8, <1>9, <1>10, SameText
<1>12. QED BY <1>6, <1>7, <1>11 DEF v, IsTail

LEMMA SkipIsTail ==
  ASSUME NEW s \in Text
  PROVE  /\ SkipBlanks(s) \in Text
         /\ IsTail(SkipBlanks(s), s)
         /\ SkipBlanks(s) = <<>> <=> AllBlank(s)
<1>1. CASE AllBlank(s)
  BY <1>1, SkipAll, NothingIsTail, NothingIsText
<1>2. CASE \E k \in 1 .. Len(s) : FirstSolid(s, k)
  <2>1. PICK k \in 1 .. Len(s) : FirstSolid(s, k)
    BY <1>2
  <2>2. Len(s) \in Nat /\ k \in Nat \ {0} /\ k <= Len(s) /\ k \in 1 .. Len(s) + 1
    BY SymbolOf
  <2>3. SkipBlanks(s) = From(s, k)
    BY <2>1, SkipTo
  <2>4. From(s, k) \in Text /\ Len(From(s, k)) = Len(s) - k + 1
    BY <2>2, TailIsText
  <2>5. Len(From(s, k)) # 0
    BY <2>2, <2>4
  <2>6. From(s, k) # <<>>
    BY <2>5, NothingIsText
  <2>7. ~ AllBlank(s)
    BY <2>1 DEF FirstSolid, AllBlank
  <2>8. QED BY <2>2, <2>3, <2>4, <2>6, <2>7 DEF IsTail
<1>3. QED BY <1>1, <1>2, BlankOrSolid

LEMMA SkipOfCat ==
  ASSUME NEW s \in Text, NEW t \in Text
  PROVE  SkipBlanks(s \o t) = IF AllBlank(s) THEN SkipBlanks(t) ELSE SkipBlanks(s) \o t
<1>1. Len(s) \in Nat /\ Len(t) \in Nat
  BY SymbolOf
<1>2. /\ s \o t \in Text /\ Len(s \o t) = Len(s) + Len(t)
      /\ \A k \in 1 .. Len(s) : (s \o t)[k] = s[k]
      /\ \A k \in 1 .. Len(t) : (s \o t)[Len(s) + k] = t[k]
  BY CatIsText
<1>3. CASE ~ AllBlank(s)
  <2>1. PICK k \in 1 .. Len(s) : FirstSolid(s, k)
    BY <1>3, BlankOrSolid
  <2>2. FirstSolid(s \o t, k)
    BY <1>1, <1>2, <2>1 DEF FirstSolid
  <2>3. SkipBlanks(s) = From(s, k) /\ SkipBlanks(s \o t) = From(s \o t, k)
    BY <1>2, <2>1, <2>2, SkipTo
  <2>4. k \in 1 .. Len(s) + 1
    BY <1>1
  <2>5. QED BY <1>3, <2>3, <2>4, TailOfCat
<1>4. CASE AllBlank(s) /\ AllBlank(t)
  <2>1. ASSUME NEW i \in 1 .. Len(s \o t) PROVE (s \o t)[i] = Blank
    <3>1. CASE i <= Len(s)
      BY <1>1, <1>2, <1>4, <3>1 DEF AllBlank
    <3>2. CASE i > Len(s)
      <4>1. i - Len(s) \in 1 .. Len(t) /\ i = Len(s) + (i - Len(s))
        BY <1>1, <1>2, <3>2
      <4>2. (s \o t)[Len(s) + (i - Len(s))] = t[i - Len(s)]
        BY <1>2, <4>1
      <4>3. QED BY <1>4, <4>1, <4>2 DEF AllBlank
    <3>3. QED BY <1>1, <1>2, <3>1, <3>2
  <2>2. AllBlank(s \o t)
    BY <2>1 DEF AllBlank
  <2>3. QED BY <1>2, <1>4, <2>2, SkipAll
<1>5. CASE AllBlank(s) /\ ~ AllBlank(t)
  <2>1. PICK k \in 1 .. Len(t) : FirstSolid(t, k)
    BY <1>5, BlankOrSolid
  <2> DEFINE m == Len(s) + k
  <2>2. m \in 1 .. Len(s) + Len(t) /\ (s \o t)[m] = t[k]
    BY <1>1, <1>2
  <2>3. ASSUME NEW j \in 1 .. m - 1 PROVE (s \o t)[j] = Blank
    <3>1. CASE j <= Len(s)
      BY <1>1, <1>2, <1>5, <3>1 DEF AllBlank
    <3>2. CASE j > Len(s)
      <4>1. /\ j - Len(s) \in 1 .. Len(t) /\ j - Len(s) \in 1 .. k - 1
            /\ j = Len(s) + (j - Len(s))
        BY <1>1, <3>2
      <4>2. (s \o t)[Len(s) + (j - Len(s))] = t[j - Len(s)]
        BY <1>2, <4>1
      <4>3. QED BY <2>1, <4>1, <4>2 DEF FirstSolid
    <3>3. QED BY <1>1, <3>1, <3>2
  <2>4. FirstSolid(s \o t, m)
    BY <1>2, <2>1, <2>2, <2>3 DEF FirstSolid
  <2>5. SkipBlanks(t) = From(t, k) /\ SkipBlanks(s \o t) = From(s \o t, m)
    BY <1>2, <2>1, <2>4, SkipTo
  <2>6. From(s \o t, m) = SubSeq(t, k, Len(t))
    <3>1. m \in Len(s) + 1 .. Len(s) + Len(t)
      BY <1>1
    <3>2. Len(s) + Len(t) \in Len(s) + 1 .. Len(s) + Len(t)
      BY <1>1
    <3>3. SubSeq(s \o t, m, Len(s) + Len(t))
            = SubSeq(t, m - Len(s), Len(s) + Len(t) - Len(s))
      BY <3>1, <3>2, SubSeqOfConcat2 DEF Text
    <3>4. m - Len(s) = k /\ Len(s) + Len(t) - Len(s) = Len(t)
      BY <1>1
    <3> HIDE DEF m
    <3>5. QED BY <1>2, <3>3, <3>4 DEF From
  <2>7. QED BY <1>5, <2>5, <2>6 DEF From
<1>6. QED BY <1>3, <1>4, <1>5

-----------------------------------------------------------------------------
(* What stripping makes of a reply.                                         *)

IsEnd(text, f, e) ==
  /\ e \in Nat /\ e >= 3 /\ ClosesAt(text, f, e)
  /\ \A i \in Nat : 3 <= i /\ i < e => ~ ClosesAt(text, f, i)

NoEnd(text, f) == \A i \in Nat : 3 <= i => ~ ClosesAt(text, f, i)

LEMMA OpenedOnce ==
  ASSUME NEW text \in Text, NEW f \in Formats, Opens(text, f)
  PROVE  {g \in DOMAIN kThinkFormats : IsPrefix(kThinkFormats[g].open, text)} = {f}
<1>1. \A g \in Formats : IsPrefix(kThinkFormats[g].open, text) <=> Opens(text, g)
  BY OpeningIs
<1>2. \A g \in Formats : Opens(text, g) => g = f
  <2>1. OpenTag(1) # OpenTag(2)
    BY FormatsAre
  <2>2. ASSUME NEW g \in Formats, Opens(text, g) PROVE g = f
    <3>1. OpenTag(g) = OpenTag(f)
      BY <2>2 DEF Opens
    <3>2. (g = 1 \/ g = 2) /\ (f = 1 \/ f = 2)
      BY DEF Formats
    <3>3. QED BY <2>1, <3>1, <3>2
  <2>3. QED BY <2>2
<1>3. QED BY <1>1, <1>2, FormatsAre

LEMMA StripUnopened ==
  ASSUME NEW text \in Text, \A f \in Formats : ~ Opens(text, f)
  PROVE  StripLeadingThinkBlock(text) = text
BY OpeningIs, FormatsAre DEF StripLeadingThinkBlock

LEMMA StripOpened ==
  ASSUME NEW text \in Text, NEW f \in Formats, Opens(text, f)
  PROVE  /\ NoEnd(text, f) => StripLeadingThinkBlock(text) = text
         /\ \A e : IsEnd(text, f, e) =>
              StripLeadingThinkBlock(text) = SkipBlanks(From(text, e + 2))
<1> DEFINE opened == {g \in DOMAIN kThinkFormats : IsPrefix(kThinkFormats[g].open, text)}
           ends == Occurrences(text, kThinkFormats[f].close, 3)
<1>1. opened = {f}
  BY OpenedOnce
<1>2. Min(opened) = f /\ opened # {}
  <2>1. {f} \in SUBSET Nat
    BY DEF Formats
  <2>2. \A y \in {f} : f <= y
    BY DEF Formats
  <2>3. Min({f}) = f
    BY <2>1, <2>2, LeastIs
  <2> HIDE DEF opened
  <2>4. QED BY <1>1, <2>3
<1>3. Len(kThinkFormats[f].open) + 1 = 3 /\ Len(kThinkFormats[f].close) = 2
  <2>1. Len(<<"<", OpenTag(f)>>) = 2 /\ Len(<<"<", CloseTag(f)>>) = 2
    OBVIOUS
  <2>2. /\ kThinkFormats[f].open = <<"<", OpenTag(f)>>
        /\ kThinkFormats[f].close = <<"<", CloseTag(f)>>
    BY FormatsAre
  <2>3. QED BY <2>1, <2>2
<1>4. StripLeadingThinkBlock(text)
        = IF ends = {} THEN text ELSE SkipBlanks(From(text, Min(ends) + 2))
  <2>1. StripLeadingThinkBlock(text)
          = IF opened = {} THEN text
            ELSE LET g == kThinkFormats[Min(opened)]
                     E == Occurrences(text, g.close, Len(g.open) + 1)
                 IN  IF E = {} THEN text
                     ELSE SkipBlanks(From(text, Min(E) + Len(g.close)))
    BY DEF StripLeadingThinkBlock
  <2> HIDE DEF opened
  <2>2. QED BY <1>2, <1>3, <2>1
<1>5. ends = {i \in Nat : 3 <= i /\ ClosesAt(text, f, i)}
  BY ClosingIs
<1> HIDE DEF ends, opened
<1>6. NoEnd(text, f) => StripLeadingThinkBlock(text) = text
  BY <1>4, <1>5 DEF NoEnd
<1>7. ASSUME NEW e, IsEnd(text, f, e)
      PROVE  StripLeadingThinkBlock(text) = SkipBlanks(From(text, e + 2))
  <2>1. e \in ends /\ ends \in SUBSET Nat
    BY <1>5, <1>7 DEF IsEnd
  <2>2. \A y \in ends : e <= y
    BY <1>5, <1>7 DEF IsEnd
  <2>3. Min(ends) = e
    BY <2>1, <2>2, LeastIs
  <2>4. QED BY <1>4, <2>1, <2>3
<1>8. QED BY <1>6, <1>7

LEMMA EndOrNone ==
  ASSUME NEW text \in Text, NEW f \in Formats
  PROVE  NoEnd(text, f) \/ \E e \in Nat : IsEnd(text, f, e)
<1> DEFINE ends == {i \in Nat : 3 <= i /\ ClosesAt(text, f, i)}
<1>1. CASE ends = {}
  BY <1>1 DEF NoEnd
<1>2. CASE ends # {}
  <2>1. PICK e \in ends : \A y \in ends : e <= y
    <3>1. ends \in SUBSET Nat
      OBVIOUS
    <3> HIDE DEF ends
    <3>2. QED BY <1>2, <3>1, LeastExists
  <2>2. \A i \in Nat : 3 <= i /\ i < e => ~ ClosesAt(text, f, i)
    BY <2>1
  <2>3. IsEnd(text, f, e)
    BY <2>1, <2>2 DEF IsEnd
  <2>4. QED BY <2>3 DEF IsEnd
<1>3. QED BY <1>1, <1>2
LEMMA StripIsTail ==
  ASSUME NEW text \in Text
  PROVE  /\ StripLeadingThinkBlock(text) \in Text
         /\ IsTail(StripLeadingThinkBlock(text), text)
<1>1. CASE StripLeadingThinkBlock(text) = text
  BY <1>1, WholeIsTail
<1>2. CASE \E f \in Formats : Opens(text, f) /\ \E e \in Nat : IsEnd(text, f, e)
  <2>1. PICK f \in Formats, e \in Nat : Opens(text, f) /\ IsEnd(text, f, e)
    BY <1>2
  <2>2. StripLeadingThinkBlock(text) = SkipBlanks(From(text, e + 2))
    BY <2>1, StripOpened
  <2>3. e + 2 \in Nat \ {0} /\ e + 2 \in 1 .. Len(text) + 1
    BY <2>1, SymbolOf DEF IsEnd, ClosesAt
  <2>4. From(text, e + 2) \in Text
    BY <2>3, TailIsText
  <2>5. IsTail(SkipBlanks(From(text, e + 2)), From(text, e + 2))
    BY <2>4, SkipIsTail
  <2>6. QED BY <2>2, <2>3, <2>5, TailOfTail
<1>3. QED BY <1>1, <1>2, StripUnopened, StripOpened, EndOrNone

(* A block that has begun or ended in a reply has done so in a longer one.  *)
LEMMA LongerReply ==
  ASSUME NEW text \in Text, NEW piece \in Text, NEW f \in Formats
  PROVE  /\ Opens(text, f) => Opens(text \o piece, f)
         /\ \A i \in Nat : i < Len(text) =>
              (ClosesAt(text \o piece, f, i) <=> ClosesAt(text, f, i))
         /\ \A e : IsEnd(text, f, e) => IsEnd(text \o piece, f, e)
<1> DEFINE long == text \o piece
<1>1. Len(text) \in Nat /\ Len(piece) \in Nat
  BY SymbolOf
<1>2. /\ Len(long) = Len(text) + Len(piece)
      /\ \A i \in 1 .. Len(text) : long[i] = text[i]
  BY CatIsText
<1> HIDE DEF long
<1>3. Opens(text, f) => Opens(long, f)
  BY <1>1, <1>2 DEF Opens
<1>4. \A i \in Nat : i < Len(text) => (ClosesAt(long, f, i) <=> ClosesAt(text, f, i))
  BY <1>1, <1>2 DEF ClosesAt
<1>5. ASSUME NEW e, IsEnd(text, f, e) PROVE IsEnd(long, f, e)
  <2>1. e \in Nat /\ e < Len(text)
    BY <1>1, <1>5 DEF IsEnd, ClosesAt
  <2>2. ClosesAt(long, f, e)
    BY <1>4, <1>5, <2>1 DEF IsEnd
  <2>3. \A i \in Nat : 3 <= i /\ i < e => ~ ClosesAt(long, f, i)
    BY <1>1, <1>4, <1>5, <2>1 DEF IsEnd
  <2>4. QED BY <1>5, <2>1, <2>2, <2>3 DEF IsEnd
<1>6. QED BY <1>3, <1>4, <1>5 DEF long

LEMMA EndComesLater ==
  ASSUME NEW text \in Text, NEW f \in Formats, Opens(text, f), NEW i, ClosesAt(text, f, i)
  PROVE  i \in Nat /\ i >= 3
<1>1. Len(text) \in Nat
  BY SymbolOf
<1>2. OpenTag(f) # CloseTag(f) /\ OpenTag(f) # "<"
  BY FormatsAre
<1>3. i \in Nat /\ i >= 1
  BY <1>1 DEF ClosesAt
<1>4. i # 1
  BY <1>2 DEF ClosesAt, Opens
<1>5. i # 2
  BY <1>2 DEF ClosesAt, Opens
<1>6. QED BY <1>3, <1>4, <1>5

-----------------------------------------------------------------------------
(* The gate, after it was fed a reply and has let out through of it.        *)

Gate ==
  [phase : {"deciding", "inside", "released"}, alive : SUBSET Formats,
   format : Formats, scanned : Nat, skip : BOOLEAN, held : Text]

Deciding(g, reply, out) ==
  g.phase = "deciding" /\ g.held = reply /\ out = <<>> /\ g.alive = Formats
    /\ reply \in {<<>>, <<"<">>}

Inside(g, reply, out) ==
  /\ g.phase = "inside" /\ g.held = reply /\ out = <<>>
  /\ Opens(reply, g.format) /\ NoEnd(reply, g.format) /\ g.scanned <= Len(reply)

(* No block, whatever comes.                                                *)
IsPlainReply(text) ==
  /\ Len(text) >= 1
  /\ text[1] # "<" \/ (Len(text) >= 2 /\ \A f \in Formats : text[2] # OpenTag(f))

BehindBlock(g, reply, out) ==
  \E f \in Formats, e \in Nat :
    /\ Opens(reply, f) /\ IsEnd(reply, f, e)
    /\ out = SkipBlanks(From(reply, e + 2))
    /\ g.skip <=> out = <<>>

Through(g, reply, out) ==
  /\ g.phase = "released" /\ g.held = <<>>
  /\ \/ IsPlainReply(reply) /\ ~ g.skip /\ out = reply
     \/ BehindBlock(g, reply, out)

GateFits(g, reply, out) ==
  /\ g \in Gate
  /\ Deciding(g, reply, out) \/ Inside(g, reply, out) \/ Through(g, reply, out)

LEMMA PlainStays ==
  ASSUME NEW text \in Text, IsPlainReply(text)
  PROVE  /\ StripLeadingThinkBlock(text) = text
         /\ \A piece \in Text : IsPlainReply(text \o piece)
<1>1. \A f \in Formats : ~ Opens(text, f)
  BY DEF IsPlainReply, Opens
<1>2. ASSUME NEW piece \in Text PROVE IsPlainReply(text \o piece)
  <2>1. Len(text) \in Nat /\ Len(piece) \in Nat
    BY SymbolOf
  <2>2. /\ Len(text \o piece) = Len(text) + Len(piece)
        /\ \A i \in 1 .. Len(text) : (text \o piece)[i] = text[i]
    BY CatIsText
  <2>3. QED BY <2>1, <2>2 DEF IsPlainReply
<1>3. QED BY <1>1, <1>2, StripUnopened

(* When the reply ends, what has been held back completes what stripping    *)
(* leaves of it.                                                            *)
LEMMA FlushCompletes ==
  ASSUME NEW g, NEW reply \in Text, NEW out, GateFits(g, reply, out)
  PROVE  /\ out \o Flush(g) = StripLeadingThinkBlock(reply)
         /\ out \in Text /\ Flush(g) \in Text
<1>1. CASE Deciding(g, reply, out)
  <2>1. Len(reply) < 2
    BY <1>1 DEF Deciding
  <2>2. \A f \in Formats : ~ Opens(reply, f)
    BY <2>1, SymbolOf DEF Opens
  <2>3. StripLeadingThinkBlock(reply) = reply
    BY <2>2, StripUnopened
  <2>4. QED BY <1>1, <2>3, CatWithNothing, NothingIsText DEF Deciding, Flush
<1>2. CASE Inside(g, reply, out)
  <2>1. g.format \in Formats
    BY DEF GateFits, Gate
  <2>2. StripLeadingThinkBlock(reply) = reply
    BY <1>2, <2>1, StripOpened DEF Inside
  <2>3. QED BY <1>2, <2>2, CatWithNothing, NothingIsText DEF Inside, Flush
<1>3. CASE Through(g, reply, out)
  <2>1. out = StripLeadingThinkBlock(reply)
    BY <1>3, PlainStays, StripOpened DEF Through, BehindBlock
  <2>2. out \in Text
    BY <2>1, StripIsTail
  <2>3. QED BY <1>3, <2>1, <2>2, CatWithNothing, NothingIsText DEF Through, Flush
<1>4. QED BY <1>1, <1>2, <1>3 DEF GateFits

(* The search for the end of a block misses nothing, though it only looks   *)
(* at what a cut mark could need again.                                     *)
LEMMA ScanFinds ==
  ASSUME NEW g \in Gate, Opens(g.held, g.format),
         \A i \in Nat : 3 <= i /\ i < g.scanned => ~ ClosesAt(g.held, g.format, i)
  PROVE  \/ /\ NoEnd(g.held, g.format)
            /\ ScanForEnd(g) = [gate |-> [g EXCEPT !.scanned = Len(g.held)], out |-> <<>>]
         \/ \E e \in Nat :
              LET rest == SkipBlanks(From(g.held, e + 2))
              IN  /\ IsEnd(g.held, g.format, e)
                  /\ ScanForEnd(g) = [gate |-> Released(g, rest = <<>>), out |-> rest]
<1> DEFINE text == g.held
           f == g.format
           close == kThinkFormats[f].close
           from == IF g.scanned >= 1 THEN g.scanned - 1 ELSE 0
           ends == Occurrences(text, close, from + 1)
<1>1. text \in Text /\ f \in Formats /\ g.scanned \in Nat
  BY DEF Gate
<1>2. Len(close) = 2
  <2>1. Len(<<"<", CloseTag(f)>>) = 2
    OBVIOUS
  <2>2. close = <<"<", CloseTag(f)>>
    BY <1>1, FormatsAre
  <2>3. QED BY <2>1, <2>2
<1>3. from \in Nat /\ from + 1 \in Nat \ {0}
  BY <1>1
<1>4. ends = {i \in Nat : from + 1 <= i /\ ClosesAt(text, f, i)}
  BY <1>1, <1>3, ClosingIs
<1>5. ASSUME NEW i \in Nat, ClosesAt(text, f, i)
      PROVE  from + 1 <= i /\ 3 <= i
  <2>1. i >= 3
    BY <1>1, <1>5, EndComesLater
  <2>2. ~ (i < g.scanned)
    BY <1>5, <2>1
  <2>3. QED BY <1>1, <2>1, <2>2
<1>6. ends = {i \in Nat : 3 <= i /\ ClosesAt(text, f, i)}
  BY <1>4, <1>5
<1>7. ScanForEnd(g)
        = IF ends = {} THEN [gate |-> [g EXCEPT !.scanned = Len(text)], out |-> <<>>]
          ELSE LET rest == SkipBlanks(From(text, Min(ends) + 2))
               IN  [gate |-> Released(g, rest = <<>>), out |-> rest]
  <2>1. (IF g.scanned >= Len(close) - 1 THEN g.scanned - (Len(close) - 1) ELSE 0) = from
    BY <1>1, <1>2
  <2>2. ScanForEnd(g)
          = LET E == Occurrences(text, close,
                       (IF g.scanned >= Len(close) - 1 THEN g.scanned - (Len(close) - 1) ELSE 0) + 1)
            IN  IF E = {} THEN [gate |-> [g EXCEPT !.scanned = Len(text)], out |-> <<>>]
                ELSE LET rest == SkipBlanks(From(text, Min(E) + Len(close)))
                     IN  [gate |-> Released(g, rest = <<>>), out |-> rest]
    BY DEF ScanForEnd
  <2> HIDE DEF close, from
  <2>3. QED BY <1>2, <2>1, <2>2
<1> HIDE DEF ends
<1>8. CASE ends = {}
  BY <1>6, <1>7, <1>8 DEF NoEnd
<1>9. CASE ends # {}
  <2>1. ends \in SUBSET Nat
    BY <1>6
  <2>2. Min(ends) \in ends /\ \A y \in ends : Min(ends) <= y
    BY <1>9, <2>1, LeastExists
  <2>3. PICK e \in Nat : e = Min(ends)
    BY <2>1, <2>2
  <2>4. IsEnd(text, f, e)
    <3>1. 3 <= e /\ ClosesAt(text, f, e)
      BY <1>6, <2>2, <2>3
    <3>2. \A i \in Nat : 3 <= i /\ i < e => ~ ClosesAt(text, f, i)
      BY <1>6, <2>2, <2>3
    <3>3. QED BY <3>1, <3>2 DEF IsEnd
  <2>5. QED BY <1>7, <1>9, <2>3, <2>4
<1>10. QED BY <1>8, <1>9
LEMMA ReleasedIsGate ==
  ASSUME NEW g \in Gate, NEW skip \in BOOLEAN
  PROVE  /\ Released(g, skip) \in Gate
         /\ Released(g, skip).phase = "released" /\ Released(g, skip).held = <<>>
         /\ Released(g, skip).skip = skip
BY NothingIsText DEF Gate, Released

LEMMA ScanKeeps ==
  ASSUME NEW g \in Gate, g.phase = "inside", Opens(g.held, g.format),
         \A i \in Nat : 3 <= i /\ i < g.scanned => ~ ClosesAt(g.held, g.format, i)
  PROVE  GateFits(ScanForEnd(g).gate, g.held, ScanForEnd(g).out)
<1>1. g.held \in Text /\ g.format \in Formats /\ Len(g.held) \in Nat
  BY SymbolOf DEF Gate
<1>2. CASE /\ NoEnd(g.held, g.format)
           /\ ScanForEnd(g) = [gate |-> [g EXCEPT !.scanned = Len(g.held)], out |-> <<>>]
  <2> DEFINE h == [g EXCEPT !.scanned = Len(g.held)]
  <2>1. /\ h \in Gate /\ h.phase = "inside" /\ h.held = g.held
        /\ h.format = g.format /\ h.scanned = Len(g.held)
    BY <1>1 DEF Gate
  <2>2. ScanForEnd(g).gate = h /\ ScanForEnd(g).out = <<>>
    BY <1>2
  <2> HIDE DEF h
  <2>3. Inside(h, g.held, <<>>)
    BY <1>1, <1>2, <2>1 DEF Inside
  <2>4. QED BY <2>1, <2>2, <2>3 DEF GateFits
<1>3. CASE \E e \in Nat :
             LET rest == SkipBlanks(From(g.held, e + 2))
             IN  /\ IsEnd(g.held, g.format, e)
                 /\ ScanForEnd(g) = [gate |-> Released(g, rest = <<>>), out |-> rest]
  <2>1. PICK e \in Nat :
          LET rest == SkipBlanks(From(g.held, e + 2))
          IN  /\ IsEnd(g.held, g.format, e)
              /\ ScanForEnd(g) = [gate |-> Released(g, rest = <<>>), out |-> rest]
    BY <1>3
  <2> DEFINE rest == SkipBlanks(From(g.held, e + 2))
             h == Released(g, rest = <<>>)
  <2>2. ScanForEnd(g).gate = h /\ ScanForEnd(g).out = rest
    BY <2>1
  <2>3. h \in Gate /\ h.phase = "released" /\ h.held = <<>> /\ h.skip = (rest = <<>>)
    BY ReleasedIsGate
  <2>4. IsEnd(g.held, g.format, e)
    BY <2>1
  <2> HIDE DEF h
  <2>5. BehindBlock(h, g.held, rest)
    BY <1>1, <2>3, <2>4 DEF BehindBlock
  <2> HIDE DEF rest
  <2>6. Through(h, g.held, rest)
    BY <2>3, <2>5 DEF Through
  <2>7. QED BY <2>2, <2>3, <2>6 DEF GateFits
<1>4. QED BY <1>2, <1>3, ScanFinds

(* A text that may still open a block is nothing but the mark's first half. *)
LEMMA MayOpen ==
  ASSUME NEW text \in Text, Len(text) >= 1, NEW f \in Formats, ~ Opens(text, f)
  PROVE  IsPrefix(text, kThinkFormats[f].open) <=> text = <<"<">>
<1> DEFINE o == kThinkFormats[f].open
<1>1. o = <<"<", OpenTag(f)>>
  BY FormatsAre
<1>2. o \in Text /\ Len(o) = 2 /\ o[1] = "<" /\ o[2] = OpenTag(f)
  BY <1>1, FormatsAre DEF Text, Symbols
<1> HIDE DEF o
<1>3. Len(text) \in Nat /\ SubSeq(text, 1, Len(text)) = text
  BY SymbolOf, SubSeqFull DEF Text
<1>4. ASSUME IsPrefix(text, o) PROVE text = <<"<">>
  <2>1. Len(text) <= 2 /\ text = SubSeq(o, 1, Len(text))
    BY <1>2, <1>3, <1>4 DEF IsPrefix
  <2>2. /\ Len(text) \in 0 .. Len(o)
        /\ \A k \in 1 .. Len(text) : text[k] = o[k]
    BY <1>2, <1>3, <2>1, HeadIsText
  <2>3. Len(text) # 2
    BY <1>2, <2>2 DEF Opens
  <2>4. Len(text) = 1
    BY <1>3, <2>1, <2>3
  <2>5. text[1] = "<"
    BY <1>2, <2>2, <2>4
  <2>6. <<"<">> \in Text /\ Len(<<"<">>) = 1 /\ <<"<">>[1] = "<"
    BY DEF Text, Symbols
  <2>7. QED BY <2>4, <2>5, <2>6, SameText
<1>5. ASSUME text = <<"<">> PROVE IsPrefix(text, o)
  <2>1. Len(text) = 1 /\ text[1] = "<"
    BY <1>5
  <2>2. 1 \in 0 .. Len(o)
    BY <1>2
  <2>3. /\ SubSeq(o, 1, 1) \in Text /\ Len(SubSeq(o, 1, 1)) = 1
        /\ \A k \in 1 .. 1 : SubSeq(o, 1, 1)[k] = o[k]
    BY <1>2, <2>2, HeadIsText
  <2>4. SubSeq(o, 1, 1) = text
    <3>1. \A k \in 1 .. Len(text) : SubSeq(o, 1, 1)[k] = text[k]
      BY <1>2, <2>1, <2>3
    <3>2. QED BY <2>1, <2>3, <3>1, SameText
  <2>5. QED BY <1>2, <1>3, <2>1, <2>4 DEF IsPrefix
<1>6. QED BY <1>4, <1>5 DEF o

LEMMA DecideKeeps ==
  ASSUME NEW g \in Gate, g.phase = "deciding", g.alive = Formats, Len(g.held) >= 1
  PROVE  GateFits(Decide(g).gate, g.held, Decide(g).out)
<1> DEFINE text == g.held
           matched == {f \in g.alive : IsPrefix(kThinkFormats[f].open, text)}
           alive == {f \in g.alive : IsPrefix(text, kThinkFormats[f].open)}
           inside(f) == [g EXCEPT !.phase = "inside", !.format = f, !.scanned = 0]
<1>1. text \in Text /\ Len(text) \in Nat
  BY SymbolOf DEF Gate
<1>2. matched = {f \in Formats : Opens(text, f)}
  BY <1>1, OpeningIs
<1>3. Decide(g)
        = IF matched # {} THEN ScanForEnd(inside(Min(matched)))
          ELSE IF alive = {} THEN [gate |-> Released(g, FALSE), out |-> text]
          ELSE [gate |-> [g EXCEPT !.alive = alive], out |-> <<>>]
  BY DEF Decide
<1>4. CASE matched # {}
  <2>1. PICK f \in Formats : Opens(text, f)
    BY <1>2, <1>4
  <2>2. matched = {f}
    BY <1>1, <2>1, OpenedOnce, FormatsAre
  <2>3. Min(matched) = f
    <3>1. {f} \in SUBSET Nat /\ \A y \in {f} : f <= y
      BY DEF Formats
    <3>2. Min({f}) = f
      BY <3>1, LeastIs
    <3> HIDE DEF matched
    <3>3. QED BY <2>2, <3>2
  <2> DEFINE h == inside(f)
  <2>4. /\ h \in Gate /\ h.phase = "inside" /\ h.held = text
        /\ h.format = f /\ h.scanned = 0
    BY DEF Gate
  <2>5. Decide(g) = ScanForEnd(h)
    <3> HIDE DEF matched, inside, h
    <3>1. QED BY <1>3, <1>4, <2>3 DEF h
  <2> HIDE DEF h
  <2>6. \A i \in Nat : 3 <= i /\ i < h.scanned => ~ ClosesAt(h.held, h.format, i)
    BY <2>4
  <2>7. GateFits(ScanForEnd(h).gate, h.held, ScanForEnd(h).out)
    BY <2>1, <2>4, <2>6, ScanKeeps
  <2>8. QED BY <2>4, <2>5, <2>7
<1>5. CASE matched = {}
  <2>1. \A f \in Formats : ~ Opens(text, f)
    BY <1>2, <1>5
  <2>2. alive = {f \in Formats : text = <<"<">>}
    BY <1>1, <2>1, MayOpen
  <2>3. CASE text = <<"<">>
    <3>1. alive = Formats /\ alive # {}
      BY <2>2, <2>3 DEF Formats
    <3>2. Decide(g).gate = [g EXCEPT !.alive = Formats] /\ Decide(g).out = <<>>
      <4>1. Decide(g) = [gate |-> [g EXCEPT !.alive = alive], out |-> <<>>]
        <5> HIDE DEF alive, matched, inside
        <5>1. QED BY <1>3, <1>5, <3>1
      <4>2. Decide(g).gate = [g EXCEPT !.alive = alive] /\ Decide(g).out = <<>>
        <5> HIDE DEF alive
        <5>1. QED BY <4>1
      <4> HIDE DEF alive
      <4>3. QED BY <3>1, <4>2
    <3> DEFINE h == [g EXCEPT !.alive = Formats]
    <3>3. h \in Gate /\ h.phase = "deciding" /\ h.held = text /\ h.alive = Formats
      BY DEF Gate
    <3> HIDE DEF h
    <3>4. Deciding(h, text, <<>>)
      BY <2>3, <3>3 DEF Deciding
    <3>5. QED BY <3>2, <3>3, <3>4 DEF GateFits, h
  <2>4. CASE text # <<"<">>
    <3>1. alive = {}
      BY <2>2, <2>4
    <3> DEFINE h == Released(g, FALSE)
    <3>2. Decide(g).gate = h /\ Decide(g).out = text
      <4> HIDE DEF alive, matched, inside
      <4>1. QED BY <1>3, <1>5, <3>1
    <3>3. h \in Gate /\ h.phase = "released" /\ h.held = <<>> /\ h.skip = FALSE
      BY ReleasedIsGate
    <3>4. IsPlainReply(text)
      <4>1. CASE Len(text) = 1
        <5>1. <<"<">> \in Text /\ Len(<<"<">>) = 1 /\ <<"<">>[1] = "<"
          BY DEF Text, Symbols
        <5>2. text[1] # "<"
          <6>1. SUFFICES ASSUME text[1] = "<" PROVE FALSE
            OBVIOUS
          <6>2. \A i \in 1 .. Len(text) : text[i] = <<"<">>[i]
            BY <4>1, <5>1, <6>1
          <6>3. QED BY <1>1, <2>4, <4>1, <5>1, <6>2, SameText
        <5>3. QED BY <5>2 DEF IsPlainReply
      <4>2. CASE Len(text) >= 2
        <5>1. text[1] = "<" => \A f \in Formats : text[2] # OpenTag(f)
          BY <2>1, <4>2 DEF Opens
        <5>2. Len(text) >= 1
          BY <1>1, <4>2
        <5>3. text[1] # "<" \/ (Len(text) >= 2 /\ \A f \in Formats : text[2] # OpenTag(f))
          BY <4>2, <5>1
        <5>4. QED BY <5>2, <5>3 DEF IsPlainReply
      <4>3. Len(text) = 1 \/ Len(text) >= 2
        <5>1. Len(text) >= 1
          OBVIOUS
        <5>2. \A n \in Nat : n >= 1 => n = 1 \/ n >= 2
          OBVIOUS
        <5>3. QED BY <1>1, <5>1, <5>2
      <4>4. QED BY <4>1, <4>2, <4>3
    <3> HIDE DEF h
    <3>5. Through(h, text, text)
      BY <3>3, <3>4 DEF Through
    <3>6. QED BY <3>2, <3>3, <3>5 DEF GateFits
  <2>5. QED BY <2>3, <2>4
<1>6. QED BY <1>4, <1>5

LEMMA PassKeeps ==
  ASSUME NEW g \in Gate, NEW reply \in Text, NEW out, Through(g, reply, out),
         NEW piece \in Text
  PROVE  GateFits(Pass(g, piece).gate, reply \o piece, out \o Pass(g, piece).out)
<1> DEFINE text == IF g.skip THEN SkipBlanks(piece) ELSE piece
           h == [g EXCEPT !.skip = g.skip /\ text = <<>>]
<1>1. text \in Text /\ reply \o piece \in Text
  BY SkipIsTail, CatIsText
<1>2. Pass(g, piece).gate = h /\ Pass(g, piece).out = text
  BY DEF Pass
<1>3. h \in Gate /\ h.phase = "released" /\ h.held = <<>>
  BY DEF Gate, Through
<1>4. h.skip = (g.skip /\ text = <<>>)
  BY DEF Gate
<1>5. g.skip \in BOOLEAN
  BY DEF Gate
<1> HIDE DEF h
<1>6. CASE IsPlainReply(reply) /\ ~ g.skip /\ out = reply
  <2>1. text = piece /\ ~ h.skip
    BY <1>4, <1>6
  <2>2. IsPlainReply(reply \o piece)
    BY <1>6, PlainStays
  <2>3. Through(h, reply \o piece, out \o text)
    BY <1>3, <1>6, <2>1, <2>2 DEF Through
  <2>4. QED BY <1>2, <1>3, <2>3 DEF GateFits
<1>7. CASE BehindBlock(g, reply, out)
  <2>1. PICK f \in Formats, e \in Nat :
          /\ Opens(reply, f) /\ IsEnd(reply, f, e)
          /\ out = SkipBlanks(From(reply, e + 2))
          /\ g.skip <=> out = <<>>
    BY <1>7 DEF BehindBlock
  <2>2. Opens(reply \o piece, f) /\ IsEnd(reply \o piece, f, e)
    BY <2>1, LongerReply
  <2>3. e + 2 \in Nat \ {0} /\ e + 2 \in 1 .. Len(reply) + 1
    BY <2>1, SymbolOf DEF IsEnd, ClosesAt
  <2> DEFINE rest == From(reply, e + 2)
  <2>4. rest \in Text /\ From(reply \o piece, e + 2) = rest \o piece
    BY <2>3, TailIsText, TailOfCat
  <2> HIDE DEF rest
  <2>5. out = SkipBlanks(rest) /\ (out = <<>> <=> AllBlank(rest)) /\ out \in Text
    BY <2>1, <2>4, SkipIsTail DEF rest
  <2>6. SkipBlanks(rest \o piece) = out \o text
    <3>1. CASE AllBlank(rest)
      BY <1>1, <2>1, <2>4, <2>5, <3>1, SkipOfCat, CatWithNothing
    <3>2. CASE ~ AllBlank(rest)
      BY <2>1, <2>4, <2>5, <3>2, SkipOfCat
    <3>3. QED BY <3>1, <3>2
  <2>7. h.skip <=> out \o text = <<>>
    <3>1. out \o text = <<>> <=> out = <<>> /\ text = <<>>
      BY <1>1, <2>5, ConcatEqualIffEmpty DEF Text
    <3> HIDE DEF text
    <3>2. QED BY <1>4, <1>5, <2>1, <3>1
  <2>8. out \o text = SkipBlanks(From(reply \o piece, e + 2))
    BY <2>4, <2>6
  <2> HIDE DEF text
  <2>9. BehindBlock(h, reply \o piece, out \o text)
    BY <2>2, <2>7, <2>8 DEF BehindBlock
  <2>10. QED BY <1>2, <1>3, <2>9 DEF GateFits, Through
<1>8. QED BY <1>6, <1>7 DEF Through

LEMMA FeedKeeps ==
  ASSUME NEW g, NEW reply \in Text, NEW out, GateFits(g, reply, out),
         NEW piece \in Text, piece # <<>>
  PROVE  /\ GateFits(Feed(g, piece).gate, reply \o piece, out \o Feed(g, piece).out)
         /\ out \in Text /\ Feed(g, piece).out \in Text
<1> DEFINE h == [g EXCEPT !.held = g.held \o piece]
           fed == Feed(g, piece)
<1>1. g \in Gate /\ g.held \in Text
  BY DEF GateFits, Gate
<1>2. g.held \o piece \in Text /\ reply \o piece \in Text
  BY <1>1, CatIsText
<1>3. Len(reply) \in Nat /\ Len(piece) \in Nat /\ Len(piece) >= 1
  BY SymbolOf, TextWithout
<1>4. /\ h \in Gate /\ h.phase = g.phase /\ h.alive = g.alive /\ h.format = g.format
      /\ h.scanned = g.scanned /\ h.held = g.held \o piece
  BY <1>1, <1>2 DEF Gate
<1>5. fed = IF g.phase = "released" THEN Pass(g, piece)
            ELSE IF g.phase = "deciding" THEN Decide(h) ELSE ScanForEnd(h)
  BY DEF Feed
<1> HIDE DEF h, fed
<1>6. CASE Deciding(g, reply, out)
  <2>1. h.held = reply \o piece /\ h.phase = "deciding" /\ h.alive = Formats
    BY <1>4, <1>6 DEF Deciding
  <2>2. Len(h.held) >= 1
    BY <1>3, <2>1, CatIsText
  <2>3. GateFits(Decide(h).gate, h.held, Decide(h).out)
    BY <1>4, <2>1, <2>2, DecideKeeps
  <2>4. Decide(h).out \in Text
    BY ZenonT(60), <1>2, <2>1, <2>3, FlushCompletes
  <2>5. fed = Decide(h) /\ out = <<>>
    BY <1>5, <1>6 DEF Deciding
  <2>6. QED BY <2>1, <2>3, <2>4, <2>5, CatWithNothing, NothingIsText DEF fed
<1>7. CASE Inside(g, reply, out)
  <2>1. h.held = reply \o piece /\ h.phase = "inside" /\ h.format \in Formats
    BY <1>1, <1>4, <1>7 DEF Inside, Gate
  <2>2. Opens(h.held, h.format)
    BY <1>4, <1>7, <2>1, LongerReply DEF Inside
  <2>3. \A i \in Nat : 3 <= i /\ i < h.scanned => ~ ClosesAt(h.held, h.format, i)
    <3>1. h.scanned \in Nat /\ h.scanned <= Len(reply)
      BY <1>4, <1>7 DEF Inside, Gate
    <3>2. \A i \in Nat : i < h.scanned => i < Len(reply)
      BY <1>3, <3>1
    <3>3. NoEnd(reply, h.format)
      BY <1>4, <1>7 DEF Inside
    <3>4. QED BY <2>1, <3>2, <3>3, LongerReply DEF NoEnd
  <2>4. GateFits(ScanForEnd(h).gate, h.held, ScanForEnd(h).out)
    BY <1>4, <2>1, <2>2, <2>3, ScanKeeps
  <2>5. ScanForEnd(h).out \in Text
    BY <1>2, <2>1, <2>4, FlushCompletes
  <2>6. fed = ScanForEnd(h) /\ out = <<>>
    BY <1>5, <1>7 DEF Inside
  <2>7. QED BY <2>1, <2>4, <2>5, <2>6, CatWithNothing, NothingIsText DEF fed
<1>8. CASE Through(g, reply, out)
  <2>1. fed = Pass(g, piece)
    BY <1>5, <1>8 DEF Through
  <2>2. GateFits(Pass(g, piece).gate, reply \o piece, out \o Pass(g, piece).out)
    BY <1>1, <1>8, PassKeeps
  <2>3. out \in Text
    BY FlushCompletes
  <2>4. Pass(g, piece).out \in Text
    BY SkipIsTail DEF Pass
  <2>5. QED BY <2>1, <2>2, <2>3, <2>4 DEF fed
<1>9. QED BY <1>6, <1>7, <1>8 DEF GateFits
LEMMA FreshGateFits == GateFits(FreshGate, <<>>, <<>>)
<1>1. FreshGate \in Gate
  BY FormatsAre, NothingIsText DEF FreshGate, Gate, Formats
<1>2. Deciding(FreshGate, <<>>, <<>>)
  BY FormatsAre DEF FreshGate, Deciding
<1>3. QED BY <1>1, <1>2 DEF GateFits

-----------------------------------------------------------------------------
(* The bridge keeps back the first half of a character and no more.         *)

LEMMA PrefixIs ==
  ASSUME NEW buf \in Text
  PROVE  CompletePrefix(buf) =
           IF Len(buf) >= 1 /\ buf[Len(buf)] = Lead THEN SubSeq(buf, 1, Len(buf) - 1)
           ELSE buf
<1> DEFINE heads == {back \in 1 .. Len(buf) :
                       back <= 4 /\ buf[Len(buf) - back + 1] # Continuation}
<1>1. Len(buf) \in Nat
  BY SymbolOf
<1>2. heads \in SUBSET Nat
  BY <1>1
<1>3. CompletePrefix(buf) =
        IF heads = {} THEN buf
        ELSE IF Min(heads) >= Needed(buf[Len(buf) - Min(heads) + 1]) THEN buf
        ELSE SubSeq(buf, 1, Len(buf) - Min(heads))
  BY DEF CompletePrefix
<1>4. CASE Len(buf) >= 1 /\ buf[Len(buf)] = Lead
  <2>1. 1 \in 1 .. Len(buf) /\ Len(buf) - 1 + 1 = Len(buf)
    BY <1>1, <1>4
  <2>2. 1 \in heads
    BY <1>4, <2>1 DEF Lead, Continuation
  <2>3. \A y \in heads : 1 <= y
    BY <1>1
  <2>4. Min(heads) = 1 /\ heads # {}
    <3> HIDE DEF heads
    <3>1. QED BY <1>2, <2>2, <2>3, LeastIs
  <2> HIDE DEF heads
  <2>5. Needed(buf[Len(buf) - Min(heads) + 1]) = 2
    BY <1>4, <2>1, <2>4 DEF Needed
  <2>6. QED BY <1>3, <1>4, <2>4, <2>5
<1>5. CASE ~ (Len(buf) >= 1 /\ buf[Len(buf)] = Lead) /\ heads # {}
  <2>1. Min(heads) \in heads
    <3> HIDE DEF heads
    <3>1. QED BY <1>2, <1>5, LeastExists
  <2>2. PICK back \in 1 .. Len(buf) : back = Min(heads)
    BY <2>1
  <2> HIDE DEF heads
  <2>3. back = 1 => buf[Len(buf) - back + 1] # Lead
    BY <1>1, <1>5, <2>2
  <2>4. back >= Needed(buf[Len(buf) - back + 1])
    BY <1>1, <2>3 DEF Needed
  <2>5. QED BY <1>3, <1>5, <2>2, <2>4
<1>6. QED BY <1>3, <1>4, <1>5

LEMMA BridgeKeeps ==
  ASSUME NEW pending \in {<<>>, <<Lead>>}, NEW piece \in Text
  PROVE  LET b == Bridge(pending, piece)
         IN  /\ b.shown \in Text /\ b.pending \in {<<>>, <<Lead>>}
             /\ b.shown \o b.pending = pending \o piece
             /\ b.shown # <<>> /\ Last(b.shown) = Lead => b.pending = <<Lead>>
<1> DEFINE buf == pending \o piece
           ready == CompletePrefix(buf)
<1>1. <<Lead>> \in Text /\ Len(<<Lead>>) = 1 /\ <<Lead>>[1] = Lead
  BY DEF Text, Symbols
<1>2. pending \in Text
  BY <1>1, NothingIsText
<1>3. buf \in Text
  BY <1>2, CatIsText
<1>4. Bridge(pending, piece).shown = ready
        /\ Bridge(pending, piece).pending = From(buf, Len(ready) + 1)
  BY DEF Bridge
<1> HIDE DEF buf
<1>5. Len(buf) \in Nat
  BY <1>3, SymbolOf
<1>6. CASE Len(buf) >= 1 /\ buf[Len(buf)] = Lead
  <2>1. ready = SubSeq(buf, 1, Len(buf) - 1)
    BY <1>3, <1>6, PrefixIs
  <2>2. Len(buf) - 1 \in 0 .. Len(buf)
    BY <1>5, <1>6
  <2>3. Len(ready) = Len(buf) - 1 /\ ready \in Text
    BY <1>3, <2>1, <2>2, HeadIsText
  <2>4. Len(ready) + 1 = Len(buf) /\ Len(buf) \in Nat \ {0}
    BY <1>5, <1>6, <2>3
  <2> DEFINE rest == From(buf, Len(buf))
  <2>5. /\ rest \in Text
        /\ Len(rest) = IF Len(buf) <= Len(buf) THEN Len(buf) - Len(buf) + 1 ELSE 0
        /\ \A k \in 1 .. Len(buf) - Len(buf) + 1 : rest[k] = buf[Len(buf) + k - 1]
    BY <1>3, <2>4, TailIsText
  <2>6. rest = <<Lead>>
    <3> HIDE DEF rest
    <3>1. Len(rest) = 1
      BY <1>5, <2>5
    <3>2. rest[1] = buf[Len(buf) + 1 - 1] /\ Len(buf) + 1 - 1 = Len(buf)
      BY <1>5, <2>5
    <3>3. \A k \in 1 .. Len(rest) : rest[k] = <<Lead>>[k]
      BY <1>1, <1>6, <3>1, <3>2
    <3>4. QED BY <1>1, <2>5, <3>1, <3>3, SameText
  <2>7. ready \o rest = buf
    <3>1. /\ 1 \in 1 .. Len(buf) + 1 /\ Len(buf) - 1 \in 1 - 1 .. Len(buf)
          /\ Len(buf) \in Len(buf) - 1 .. Len(buf) /\ Len(buf) - 1 + 1 = Len(buf)
      BY <1>5, <1>6
    <3>2. SubSeq(buf, 1, Len(buf) - 1) \o SubSeq(buf, Len(buf) - 1 + 1, Len(buf))
            = SubSeq(buf, 1, Len(buf))
      BY <1>3, <3>1, ConcatAdjacentSubSeq DEF Text
    <3>3. SubSeq(buf, 1, Len(buf)) = buf
      BY <1>3, SubSeqFull DEF Text
    <3> HIDE DEF ready
    <3>4. QED BY <2>1, <3>1, <3>2, <3>3 DEF From
  <2> HIDE DEF ready, rest
  <2>8. Bridge(pending, piece).pending = rest
    BY <1>4, <2>4 DEF rest
  <2>9. QED BY <1>4, <2>3, <2>6, <2>7, <2>8 DEF buf
<1>7. CASE ~ (Len(buf) >= 1 /\ buf[Len(buf)] = Lead)
  <2>1. ready = buf
    BY <1>3, <1>7, PrefixIs
  <2> HIDE DEF ready
  <2>2. Bridge(pending, piece).pending = <<>>
    BY <1>3, <1>4, <2>1, NothingIsTail
  <2>3. buf # <<>> => Last(buf) # Lead
    BY <1>3, <1>5, <1>7, TextWithout DEF Last
  <2>4. buf \o <<>> = buf
    BY <1>3, CatWithNothing
  <2>5. QED BY <1>3, <1>4, <2>1, <2>2, <2>3, <2>4 DEF buf
<1>8. QED BY <1>6, <1>7

-----------------------------------------------------------------------------
(* The end of a text.                                                       *)

LEMMA LastOfCat ==
  ASSUME NEW s \in Text, NEW t \in Text, t # <<>>
  PROVE  Last(s \o t) = Last(t)
<1>1. Len(s) \in Nat /\ Len(t) \in Nat /\ Len(t) # 0
  BY SymbolOf, TextWithout
<1>2. Len(s \o t) = Len(s) + Len(t) /\ (s \o t)[Len(s) + Len(t)] = t[Len(t)]
  <2>1. Len(t) \in 1 .. Len(t)
    BY <1>1
  <2>2. QED BY <2>1, CatIsText
<1>3. QED BY <1>2 DEF Last

(* Whatever is shown of whole characters has none cut before its end.       *)
LEMMA CharactersStayWhole ==
  ASSUME NEW reply \in Text, NEW out \in Text, NEW more \in Text,
         IsTail(out \o more, reply),
         \A i \in DOMAIN reply :
           reply[i] = Lead /\ i < Len(reply) => reply[i+1] = Continuation
  PROVE  \A i \in 1 .. Len(out) : i < Len(out) /\ out[i] = Lead => out[i+1] = Continuation
<1>1. PICK k \in 1 .. Len(reply) + 1 : out \o more = From(reply, k)
  BY DEF IsTail
<1>2. /\ Len(reply) \in Nat /\ Len(out) \in Nat /\ Len(more) \in Nat
      /\ k \in Nat \ {0} /\ DOMAIN reply = 1 .. Len(reply)
  BY SymbolOf
<1>3. /\ Len(out \o more) = IF k <= Len(reply) THEN Len(reply) - k + 1 ELSE 0
      /\ \A j \in 1 .. Len(reply) - k + 1 : (out \o more)[j] = reply[k + j - 1]
  <2>1. /\ Len(From(reply, k)) = IF k <= Len(reply) THEN Len(reply) - k + 1 ELSE 0
        /\ \A j \in 1 .. Len(reply) - k + 1 : From(reply, k)[j] = reply[k + j - 1]
    BY <1>2, TailIsText
  <2>2. QED BY <1>1, <2>1
<1>4. /\ Len(out \o more) = Len(out) + Len(more)
      /\ \A j \in 1 .. Len(out) : (out \o more)[j] = out[j]
  BY CatIsText
<1>5. ASSUME NEW i \in 1 .. Len(out), i < Len(out), out[i] = Lead
      PROVE  out[i+1] = Continuation
  <2>1. i + 1 \in 1 .. Len(out)
    BY <1>2, <1>5
  <2>2. Len(out) + Len(more) = Len(reply) - k + 1
    <3>1. Len(out) + Len(more) = IF k <= Len(reply) THEN Len(reply) - k + 1 ELSE 0
      BY <1>3, <1>4
    <3>2. Len(out) >= 1
      BY <1>2, <2>1
    <3>3. QED BY <1>2, <3>1, <3>2
  <2>3. i \in 1 .. Len(reply) - k + 1 /\ i + 1 \in 1 .. Len(reply) - k + 1
    BY <1>2, <2>1, <2>2
  <2>4. out[i] = reply[k + i - 1] /\ out[i+1] = reply[k + (i + 1) - 1]
    BY <1>3, <1>4, <2>1, <2>3
  <2>5. k + i - 1 \in 1 .. Len(reply) /\ k + i - 1 < Len(reply) /\ k + (i + 1) - 1 = k + i - 1 + 1
    BY <1>2, <2>3
  <2>6. reply[k + i - 1 + 1] = Continuation
    BY <1>2, <1>5, <2>4, <2>5
  <2>7. QED BY <2>4, <2>5, <2>6
<1>6. QED BY <1>5
=============================================================================
