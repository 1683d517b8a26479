-------------------------- MODULE RetrievalProofs --------------------------
(***************************************************************************)
(* Lemmas about the operators of search, for every lexicon, text and list  *)
(* of passages: what folding and sorting give, that the index of a result  *)
(* list finds what it holds, what a term adds to a score, what is ranked,  *)
(* rescored and trimmed, which words a text has and which terms a question *)
(* is searched by.                                                         *)
(***************************************************************************)
EXTENDS GenerationProofs, Ranking, Lexicon, QueryTerms, TextIngest

-----------------------------------------------------------------------------
(* Folds. A fold is the value, at the whole set, of a recursive function    *)
(* over its subsets; there is one if every step stays within a set A.       *)

FoldsTo(f, base, ch, D, g) ==
  \A s \in SUBSET D : g[s] = IF s = {} THEN base ELSE f[ch[s]][g[s \ {ch[s]}]]

LEMMA FoldExists ==
  ASSUME NEW D, IsFiniteSet(D), NEW A, NEW base \in A, NEW f \in [D -> [A -> A]],
         NEW ch, \A s \in SUBSET D : s # {} => ch[s] \in s
  PROVE  \E g \in [SUBSET D -> A] : FoldsTo(f, base, ch, D, g)
<1> DEFINE Next(g) == [s \in SUBSET D |-> IF s = {} THEN base ELSE f[ch[s]][g[s \ {ch[s]}]]]
           UpToSize(g, k) == \A s \in SUBSET D : Cardinality(s) <= k => g[s] = Next(g)[s]
           Good == {k \in Nat : \E g \in [SUBSET D -> A] : UpToSize(g, k)}
<1>1. ASSUME NEW s \in SUBSET D, s # {}
      PROVE  /\ s \ {ch[s]} \in SUBSET D /\ ch[s] \in D
             /\ Cardinality(s \ {ch[s]}) = Cardinality(s) - 1
  BY <1>1, Fewer
<1>2. ASSUME NEW g \in [SUBSET D -> A] PROVE Next(g) \in [SUBSET D -> A]
  <2>1. ASSUME NEW s \in SUBSET D PROVE Next(g)[s] \in A
    BY <1>1
  <2>2. QED BY <2>1
<1>3. 0 \in Good
  <2> DEFINE g == [s \in SUBSET D |-> base]
  <2>1. g \in [SUBSET D -> A]
    OBVIOUS
  <2>2. ASSUME NEW s \in SUBSET D, Cardinality(s) <= 0 PROVE g[s] = Next(g)[s]
    <3>1. s = {}
      BY <2>2, Fewer
    <3>2. QED BY <3>1
  <2>3. QED BY <2>1, <2>2
<1>4. ASSUME NEW k \in Nat, k \in Good PROVE k + 1 \in Good
  <2>1. PICK g \in [SUBSET D -> A] : UpToSize(g, k)
    BY <1>4
  <2>2. PICK h \in [SUBSET D -> A] : h = Next(g)
    BY <1>2
  <2>3. ASSUME NEW s \in SUBSET D, Cardinality(s) <= k + 1 PROVE h[s] = Next(h)[s]
    <3>1. CASE s = {}
      BY <2>2, <3>1
    <3>2. CASE s # {}
      <4>1. PICK t \in SUBSET D : t = s \ {ch[s]} /\ Cardinality(t) <= k
        <5>1. Cardinality(s) \in Nat /\ Cardinality(s) <= k + 1
          BY <2>3, Fewer
        <5>2. Cardinality(s \ {ch[s]}) = Cardinality(s) - 1 /\ s \ {ch[s]} \in SUBSET D
          BY <1>1, <3>2
        <5>3. Cardinality(s \ {ch[s]}) <= k
          BY <5>1, <5>2
        <5>4. QED BY <5>2, <5>3
      <4>2. g[t] = Next(g)[t]
        BY <2>1, <4>1
      <4>3. h[t] = g[t]
        BY <2>2, <4>2
      <4>4. h[s] = f[ch[s]][g[t]] /\ Next(h)[s] = f[ch[s]][h[t]]
        BY <2>2, <3>2, <4>1
      <4>5. QED BY <4>3, <4>4
    <3>3. QED BY <3>1, <3>2
  <2>4. UpToSize(h, k + 1)
    BY <2>3
  <2> HIDE DEF UpToSize
  <2>5. QED BY <2>4
<1>5. Good = Nat
  <2> HIDE DEF Good
  <2>1. Good \in SUBSET Nat
    BY DEF Good
  <2>2. QED BY <1>3, <1>4, <2>1, AllNumbers
<1>6. PICK g \in [SUBSET D -> A] : UpToSize(g, Cardinality(D))
  BY ZenonT(60), <1>5, FS_CardinalityType
<1>7. \A s \in SUBSET D : g[s] = Next(g)[s]
  BY <1>6, FS_Subset
<1>8. QED BY <1>7 DEF FoldsTo

(* A sequence is folded from its first element to its last.                 *)
LEMMA LastOfMany ==
  ASSUME NEW k \in Nat \ {0}
  PROVE  Max(1 .. k) = k /\ (1 .. k) \ {k} = 1 .. k - 1 /\ 1 .. k # {}
<1>1. k \in 1 .. k /\ \A y \in 1 .. k : k >= y
  OBVIOUS
<1>2. Max(1 .. k) = k
  BY <1>1 DEF Max
<1>3. QED BY <1>1, <1>2

LEMMA LastOfSome ==
  ASSUME NEW n \in Nat, NEW s \in SUBSET (1 .. n), s # {}
  PROVE  Max(s) \in s
<1> DEFINE T == {n - i : i \in s}
<1>1. T \in SUBSET Nat /\ T # {}
  <2>1. \A i \in s : n - i \in Nat
    OBVIOUS
  <2>2. QED BY <2>1
<1>2. PICK m \in T : \A y \in T : m <= y
  BY <1>1, FirstNumber
<1>3. PICK i \in s : m = n - i
  BY <1>2
<1>4. ASSUME NEW j \in s PROVE i >= j
  <2>1. n - j \in T /\ i \in Nat /\ j \in Nat
    OBVIOUS
  <2>2. n - i <= n - j
    BY <1>2, <1>3, <2>1
  <2>3. QED BY <2>1, <2>2
<1>5. QED BY <1>4 DEF Max

Latest(n) == [s \in SUBSET (1 .. n) |-> Max(s)]

LEMMA FoldInOrder ==
  ASSUME NEW n \in Nat, NEW A, NEW base \in A, NEW f \in [1 .. n -> [A -> A]]
  PROVE  \E g \in [SUBSET (1 .. n) -> A] : FoldsTo(f, base, Latest(n), 1 .. n, g)
<1>1. IsFiniteSet(1 .. n)
  BY FS_Interval
<1>2. \A s \in SUBSET (1 .. n) : s # {} => Latest(n)[s] \in s
  BY LastOfSome DEF Latest
<1>3. QED BY <1>1, <1>2, FoldExists

-----------------------------------------------------------------------------
(* The tokens of a list of passages.                                        *)

SumTokens(items, tokens) == FoldLeft(LAMBDA n, item : n + tokens[item.passage], 0, items)

LEMMA SumTokensIs ==
  ASSUME NEW n \in Nat, NEW items, DOMAIN items = 1 .. n, NEW tokens,
         \A i \in 1 .. n : tokens[items[i].passage] \in Nat
  PROVE  \E p : /\ PartialSums([i \in 1 .. n |-> tokens[items[i].passage]], n, p)
                /\ SumTokens(items, tokens) = p[n]
<1> DEFINE w == [i \in 1 .. n |-> tokens[items[i].passage]]
           Step(h) == [s \in SUBSET DOMAIN items |->
                         IF s = {} THEN 0 ELSE h[s \ {Max(s)}] + tokens[items[Max(s)].passage]]
           h == CHOOSE h : h = Step(h)
           f == [i \in 1 .. n |-> [a \in Nat |-> a + w[i]]]
<1>1. SumTokens(items, tokens) = h[1 .. n]
  BY DEF SumTokens, FoldLeft, MapThenFoldSet
<1>2. \E g : g = Step(g)
  <2>1. w \in [1 .. n -> Nat]
    OBVIOUS
  <2>2. f \in [1 .. n -> [Nat -> Nat]]
    BY <2>1
  <2>3. PICK g \in [SUBSET (1 .. n) -> Nat] : FoldsTo(f, 0, Latest(n), 1 .. n, g)
    <3> HIDE DEF f
    <3>1. QED BY <2>2, FoldInOrder
  <2>4. ASSUME NEW s \in SUBSET (1 .. n) PROVE g[s] = Step(g)[s]
    <3>1. CASE s = {}
      BY <2>3, <3>1 DEF FoldsTo
    <3>2. CASE s # {}
      <4>1. PICK i \in 1 .. n : i = Max(s) /\ Latest(n)[s] = i
        BY <3>2, LastOfSome DEF Latest
      <4>2. PICK t \in SUBSET (1 .. n) : t = s \ {i}
        OBVIOUS
      <4>3. g[s] = f[i][g[t]]
        BY <2>3, <3>2, <4>1, <4>2 DEF FoldsTo
      <4>4. g[t] \in Nat
        OBVIOUS
      <4>5. QED BY <3>2, <4>1, <4>2, <4>3, <4>4
    <3>3. QED BY <3>1, <3>2
  <2>5. g = Step(g)
    BY <2>4
  <2>6. QED BY <2>5
<1>3. h = Step(h)
  BY <1>2
<1> HIDE DEF h
<1> DEFINE p == [k \in 0 .. n |-> h[1 .. k]]
<1>4. p[0] = 0
  BY <1>3
<1>5. ASSUME NEW k \in 1 .. n PROVE p[k] = p[k-1] + w[k]
  <2>1. Max(1 .. k) = k /\ (1 .. k) \ {k} = 1 .. k - 1 /\ 1 .. k # {}
    <3>1. k \in Nat \ {0}
      OBVIOUS
    <3>2. QED BY <3>1, LastOfMany
  <2>2. 1 .. k \in SUBSET (1 .. n) /\ k - 1 \in 0 .. n /\ k \in 0 .. n
    OBVIOUS
  <2>3. h[1 .. k] = h[1 .. k - 1] + tokens[items[k].passage]
    BY <1>3, <2>1, <2>2
  <2>4. QED BY <2>2, <2>3
<1>6. p \in [0 .. n -> Nat]
  <2> DEFINE T == {k \in 0 .. n : p[k] \in Nat}
  <2>1. 0 \in T
    BY <1>4
  <2>2. ASSUME NEW k \in 1 .. n, k - 1 \in T PROVE k \in T
    <3> HIDE DEF p
    <3>1. w[k] \in Nat /\ p[k-1] \in Nat /\ k \in 0 .. n
      BY <2>2
    <3>2. p[k] = p[k-1] + w[k]
      BY <1>5
    <3>3. QED BY <3>1, <3>2
  <2>3. 0 .. n \subseteq T
    <3> HIDE DEF T
    <3>1. QED BY <2>1, <2>2, UpTo
  <2>4. QED BY <2>3
<1>7. p[n] = h[1 .. n]
  OBVIOUS
<1> HIDE DEF p, w
<1>8. PartialSums(w, n, p)
  BY <1>4, <1>5, <1>6 DEF PartialSums
<1>9. QED BY <1>1, <1>7, <1>8 DEF w

-----------------------------------------------------------------------------
(* Sorting by rank: in an order of a finite set, every member has as many   *)
(* before it as its place says.                                             *)

IsOrder(R, S) ==
  /\ \A x \in S : <<x, x>> \notin R
  /\ \A x, y \in S : x = y \/ <<x, y>> \in R \/ <<y, x>> \in R
  /\ \A x, y, z \in S : <<x, y>> \in R /\ <<y, z>> \in R => <<x, z>> \in R

Before(R, S, x) == {y \in S : <<y, x>> \in R}

(* s lists S in the order R.                                                *)
Lists(s, R, S) ==
  /\ s \in [1 .. Cardinality(S) -> S]
  /\ \A x \in S : \E k \in 1 .. Cardinality(S) : s[k] = x
  /\ \A j, k \in 1 .. Cardinality(S) : j < k => <<s[j], s[k]>> \in R

LEMMA RanksGrow ==
  ASSUME NEW S, IsFiniteSet(S), NEW R, IsOrder(R, S),
         NEW x \in S, NEW y \in S, <<x, y>> \in R
  PROVE  Cardinality(Before(R, S, x)) < Cardinality(Before(R, S, y))
<1> DEFINE B == Before(R, S, x)
           C == Before(R, S, y)
<1>1. B \in SUBSET C /\ x \in C /\ x \notin B
  BY DEF Before, IsOrder
<1>2. IsFiniteSet(C)
  BY FS_Subset DEF Before
<1> HIDE DEF B, C
<1>3. IsFiniteSet(B) /\ Cardinality(B) <= Cardinality(C) /\ Cardinality(B) # Cardinality(C)
  <2>1. B # C
    BY <1>1
  <2>2. QED BY <1>1, <1>2, <2>1, FS_Subset
<1>4. Cardinality(B) \in Nat /\ Cardinality(C) \in Nat
  BY <1>2, <1>3, FS_CardinalityType
<1>5. Cardinality(B) < Cardinality(C)
  BY <1>3, <1>4
<1>6. QED BY <1>5 DEF B, C

LEMMA RanksAre ==
  ASSUME NEW S, IsFiniteSet(S), NEW R, IsOrder(R, S),
         NEW s, s = [k \in 1 .. Cardinality(S) |-> s[k]],
         \A k \in 1 .. Cardinality(S) :
           (\E x \in S : Cardinality(Before(R, S, x)) = k - 1) =>
             s[k] \in S /\ Cardinality(Before(R, S, s[k])) = k - 1
  PROVE  Lists(s, R, S)
<1> DEFINE n == Cardinality(S)
           rank == [x \in S |-> Cardinality(Before(R, S, x)) + 1]
<1>1. n \in Nat
  BY FS_CardinalityType
<1>2. ASSUME NEW x \in S
      PROVE  Cardinality(Before(R, S, x)) \in Nat /\ Cardinality(Before(R, S, x)) < n
  <2>1. PICK B \in SUBSET S : B = Before(R, S, x)
    BY DEF Before
  <2>2. B # S
    BY <2>1 DEF Before, IsOrder
  <2>3. IsFiniteSet(B) /\ Cardinality(B) <= n /\ Cardinality(B) # n
    BY <2>2, FS_Subset
  <2>4. Cardinality(B) \in Nat
    BY <2>3, FS_CardinalityType
  <2>5. QED BY <1>1, <2>1, <2>3, <2>4
<1>3. rank \in [S -> 1 .. n]
  <2>1. \A x \in S : Cardinality(Before(R, S, x)) + 1 \in 1 .. n
    BY <1>1, <1>2
  <2>2. QED BY <2>1
<1>4. \A x, y \in S : <<x, y>> \in R => rank[x] < rank[y]
  <2>1. ASSUME NEW x \in S, NEW y \in S, <<x, y>> \in R PROVE rank[x] < rank[y]
    BY <1>2, <2>1, RanksGrow
  <2>2. QED BY <2>1
<1>5. \A x, y \in S : rank[x] = rank[y] => x = y
  <2> HIDE DEF rank
  <2>1. \A x \in S : rank[x] \in Nat
    BY <1>1, <1>3
  <2>2. ASSUME NEW x \in S, NEW y \in S, rank[x] = rank[y] PROVE x = y
    <3>1. ~ (<<x, y>> \in R) /\ ~ (<<y, x>> \in R)
      BY <1>4, <2>1, <2>2
    <3>2. QED BY <3>1 DEF IsOrder
  <2>3. QED BY <2>2
<1>6. \A k \in 1 .. n : \E x \in S : rank[x] = k
  <2> HIDE DEF rank
  <2>1. rank \in Injection(S, 1 .. n)
    BY <1>3, <1>5 DEF Injection, IsInjective
  <2>2. IsFiniteSet(1 .. n) /\ Cardinality(1 .. n) = n
    BY <1>1, FS_Interval
  <2>3. rank \in Surjection(S, 1 .. n)
    BY <2>1, <2>2, FS_Injection
  <2>4. QED BY <2>3 DEF Surjection
<1>7. ASSUME NEW k \in 1 .. n PROVE s[k] \in S /\ rank[s[k]] = k
  <2>1. PICK x \in S : rank[x] = k
    BY <1>6
  <2>2. Cardinality(Before(R, S, x)) = k - 1
    BY <1>2, <2>1
  <2>3. s[k] \in S /\ Cardinality(Before(R, S, s[k])) = k - 1
    BY <2>2
  <2>4. QED BY <2>3
<1>8. s \in [1 .. n -> S]
  BY <1>7
<1> HIDE DEF rank
<1>9. ASSUME NEW x \in S PROVE \E k \in 1 .. n : s[k] = x
  <2>1. rank[x] \in 1 .. n
    BY <1>3
  <2>2. s[rank[x]] \in S /\ rank[s[rank[x]]] = rank[x]
    BY <1>7, <2>1
  <2>3. QED BY <1>5, <2>1, <2>2
<1>10. ASSUME NEW j \in 1 .. n, NEW k \in 1 .. n, j < k PROVE <<s[j], s[k]>> \in R
  <2>1. s[j] \in S /\ s[k] \in S /\ rank[s[j]] = j /\ rank[s[k]] = k
    BY <1>7
  <2>2. ~ (<<s[k], s[j]>> \in R) /\ s[j] # s[k]
    BY <1>1, <1>4, <1>10, <2>1
  <2>3. QED BY <2>1, <2>2 DEF IsOrder
<1>11. Lists(s, R, S)
  BY <1>8, <1>9, <1>10 DEF Lists
<1>12. QED BY <1>11

(* Numbers.                                                                 *)
LEMMA AscendingIs ==
  ASSUME NEW N \in SUBSET Nat, IsFiniteSet(N)
  PROVE  /\ Cardinality(N) \in Nat
         /\ Ascending(N) \in [1 .. Cardinality(N) -> N]
         /\ \A x \in N : \E k \in 1 .. Cardinality(N) : Ascending(N)[k] = x
         /\ \A j, k \in 1 .. Cardinality(N) : j < k => Ascending(N)[j] < Ascending(N)[k]
<1> DEFINE R == {p \in N \X N : p[1] < p[2]}
<1>1. \A x, y \in N : <<x, y>> \in R <=> x < y
  OBVIOUS
<1>2. IsOrder(R, N)
  <2> HIDE DEF R
  <2>1. \A x \in N : x \in Nat
    OBVIOUS
  <2>2. QED BY <1>1, <2>1 DEF IsOrder
<1>3. /\ Ascending(N) = [k \in 1 .. Cardinality(N) |-> Ascending(N)[k]]
      /\ \A k \in 1 .. Cardinality(N) :
           (\E x \in N : Cardinality(Before(R, N, x)) = k - 1) =>
             /\ Ascending(N)[k] \in N
             /\ Cardinality(Before(R, N, Ascending(N)[k])) = k - 1
  <2>1. \A x \in N : Before(R, N, x) = {m \in N : m < x}
    BY <1>1 DEF Before
  <2>2. ASSUME NEW k \in 1 .. Cardinality(N), NEW x \in N, Cardinality(Before(R, N, x)) = k - 1
        PROVE  /\ Ascending(N)[k] \in N
               /\ Cardinality(Before(R, N, Ascending(N)[k])) = k - 1
    <3>1. Cardinality({m \in N : m < x}) = k - 1
      BY <2>1, <2>2
    <3>2. Ascending(N)[k] = CHOOSE y \in N : Cardinality({m \in N : m < y}) = k - 1
      BY DEF Ascending
    <3> HIDE DEF R
    <3>3. PICK z \in N : z = Ascending(N)[k] /\ Cardinality({m \in N : m < z}) = k - 1
      BY <3>1, <3>2
    <3>4. QED BY <2>1, <3>3
  <2>3. Ascending(N) = [k \in 1 .. Cardinality(N) |-> Ascending(N)[k]]
    <3>1. PICK f : f = Ascending(N)
      OBVIOUS
    <3>2. f = [k \in 1 .. Cardinality(N) |->
                 CHOOSE n \in N : Cardinality({m \in N : m < n}) = k - 1]
      BY <3>1 DEF Ascending
    <3>3. f = [k \in 1 .. Cardinality(N) |-> f[k]]
      BY <3>2
    <3>4. QED BY <3>1, <3>3
  <2> HIDE DEF R
  <2>4. QED BY <2>2, <2>3
<1> HIDE DEF R
<1>4. Lists(Ascending(N), R, N)
  BY <1>2, <1>3, RanksAre
<1>5. QED BY <1>1, <1>4, FS_CardinalityType DEF Lists

(* Scored passages: everything but the order of equals is in Ahead.         *)
Distinguished(all) ==
  /\ \A x \in all : x.score \in Int /\ x.passage \in Nat
  /\ \A x, y \in all : x.passage = y.passage => x = y

LEMMA SortedIs ==
  ASSUME NEW items, IsFiniteSet(ToSet(items)), Distinguished(ToSet(items))
  PROVE  LET n == Cardinality(ToSet(items))
         IN  /\ n \in Nat /\ Sorted(items) \in [1 .. n -> ToSet(items)]
             /\ \A x \in ToSet(items) : \E k \in 1 .. n : Sorted(items)[k] = x
             /\ \A j, k \in 1 .. n : j < k => Ahead(Sorted(items)[j], Sorted(items)[k])
<1> DEFINE all == ToSet(items)
           R == {p \in all \X all : Ahead(p[1], p[2])}
<1>1. \A x, y \in all : <<x, y>> \in R <=> Ahead(x, y)
  OBVIOUS
<1>2. IsOrder(R, all)
  <2> HIDE DEF R, all
  <2>1. \A x \in all : x.score \in Int /\ x.passage \in Nat
    BY DEF Distinguished, all
  <2>2. \A x, y \in all : x = y \/ Ahead(x, y) \/ Ahead(y, x)
    BY <2>1 DEF Distinguished, all, Ahead
  <2>3. \A x \in all : ~Ahead(x, x)
    BY <2>1 DEF Ahead
  <2>4. \A x, y, z \in all : Ahead(x, y) /\ Ahead(y, z) => Ahead(x, z)
    BY <2>1 DEF Ahead
  <2>5. QED BY <1>1, <2>2, <2>3, <2>4 DEF IsOrder
<1>3. /\ Sorted(items) = [k \in 1 .. Cardinality(all) |-> Sorted(items)[k]]
      /\ \A k \in 1 .. Cardinality(all) :
           (\E x \in all : Cardinality(Before(R, all, x)) = k - 1) =>
             /\ Sorted(items)[k] \in all
             /\ Cardinality(Before(R, all, Sorted(items)[k])) = k - 1
  <2>1. \A x \in all : Before(R, all, x) = {m \in all : Ahead(m, x)}
    BY <1>1 DEF Before
  <2>2. ASSUME NEW k \in 1 .. Cardinality(all), NEW x \in all, Cardinality(Before(R, all, x)) = k - 1
        PROVE  /\ Sorted(items)[k] \in all
               /\ Cardinality(Before(R, all, Sorted(items)[k])) = k - 1
    <3>1. Cardinality({m \in all : Ahead(m, x)}) = k - 1
      BY <2>1, <2>2
    <3>2. Sorted(items)[k] = CHOOSE y \in all : Cardinality({m \in all : Ahead(m, y)}) = k - 1
      BY DEF Sorted
    <3> HIDE DEF R
    <3>3. PICK z \in all : z = Sorted(items)[k] /\ Cardinality({m \in all : Ahead(m, z)}) = k - 1
      BY <3>1, <3>2
    <3>4. QED BY <2>1, <3>3
  <2>3. Sorted(items) = [k \in 1 .. Cardinality(all) |-> Sorted(items)[k]]
    BY SMTT(30) DEF Sorted
  <2> HIDE DEF R
  <2>4. QED BY <2>2, <2>3
<1> HIDE DEF R
<1>4. Lists(Sorted(items), R, all)
  <2> HIDE DEF all
  <2>1. IsFiniteSet(all)
    BY DEF all
  <2>2. QED BY <1>2, <1>3, <2>1, RanksAre
<1>5. QED BY <1>1, <1>4, FS_CardinalityType DEF Lists

-----------------------------------------------------------------------------
(* The index of a result list: a table of slots with open addressing.       *)

LEMMA RestIs ==
  ASSUME NEW n \in Nat \ {0}, NEW q \in Nat, NEW s \in 0 .. n - 1
  PROVE  (n * q + s) % n = s
  OBVIOUS

(* From anywhere, n places in a row reach every slot.                       *)
LEMMA ProbesReach ==
  ASSUME NEW n \in Nat \ {0}, NEW h \in Nat, NEW s \in 0 .. n - 1
  PROVE  \E k \in 0 .. n - 1 : (h + k) % n = s
<1>1. PICK q \in Nat : q = h \div n
  OBVIOUS
<1>2. PICK r \in 0 .. n - 1 : r = h % n
  OBVIOUS
<1>3. h = (n * q) + r
  BY <1>1, <1>2
<1>4. n * q \in Nat /\ n * (q + 1) = (n * q) + n
  OBVIOUS
<1>5. CASE s >= r
  <2>1. PICK k \in 0 .. n - 1 : k = s - r
    BY <1>5
  <2>2. h + k = (n * q) + s
    BY <1>3, <1>4, <2>1
  <2>3. QED BY <2>2, RestIs
<1>6. CASE s < r
  <2>1. PICK k \in 0 .. n - 1 : k = s - r + n
    BY <1>6
  <2>2. h + k = (n * (q + 1)) + s
    BY <1>3, <1>4, <2>1
  <2>3. (n * (q + 1) + s) % n = s
    <3>1. q + 1 \in Nat
      OBVIOUS
    <3>2. QED BY <3>1, RestIs
  <2>4. QED BY <2>2, <2>3
<1>7. QED BY <1>5, <1>6

Slot == [passage : Nat, item : Nat]

(* Where passage may be looked for, from the first place to the last.       *)
Probe(c, passage, k) == (Hash[passage] + k) % c
Stops(index, c, passage) ==
  {k \in 0 .. c - 1 : index[Probe(c, passage, k)].passage \in {0, passage}}

LEMMA FindSlotIs ==
  ASSUME NEW c \in Nat \ {0}, NEW index, DOMAIN index = 0 .. c - 1,
         NEW p, Hash[p] \in Nat,
         NEW s \in 0 .. c - 1, index[s].passage \in {0, p}
  PROVE  /\ Min(Stops(index, c, p)) \in Stops(index, c, p)
         /\ \A k \in Stops(index, c, p) : Min(Stops(index, c, p)) <= k
         /\ FindSlot(index, p) = Probe(c, p, Min(Stops(index, c, p)))
         /\ FindSlot(index, p) \in 0 .. c - 1
         /\ index[FindSlot(index, p)].passage \in {0, p}
<1>1. PICK k \in 0 .. c - 1 : (Hash[p] + k) % c = s
  BY ProbesReach
<1>2. k \in Stops(index, c, p)
  BY <1>1 DEF Stops, Probe
<1>3. PICK T \in SUBSET Nat : T = Stops(index, c, p)
  <2>1. \A j \in 0 .. c - 1 : j \in Nat
    OBVIOUS
  <2>2. Stops(index, c, p) \subseteq Nat
    BY <2>1 DEF Stops
  <2>3. QED BY <2>2
<1>4. Min(T) \in T /\ \A y \in T : Min(T) <= y
  <2>1. T # {}
    BY <1>2, <1>3
  <2>2. QED BY <2>1, FirstNumber
<1>5. Cardinality(0 .. c - 1) = c
  <2>1. PICK b \in Int : b = c - 1
    OBVIOUS
  <2>2. ~ (0 > b) /\ b - 0 + 1 = c
    BY <2>1
  <2>3. Cardinality(0 .. b) = IF 0 > b THEN 0 ELSE b - 0 + 1
    BY FS_Interval
  <2>4. QED BY <2>1, <2>2, <2>3
<1>6. FindSlot(index, p) = Probe(c, p, Min(T))
  <2>1. Capacity(index) = c
    BY <1>5 DEF Capacity
  <2>2. T = {j \in 0 .. c - 1 : index[(Hash[p] + j) % c].passage \in {0, p}}
    BY <1>3 DEF Stops, Probe
  <2>3. FindSlot(index, p) = (Hash[p] + Min(T)) % c
    BY <2>1, <2>2, Zenon DEF FindSlot
  <2>4. QED BY <2>3 DEF Probe
<1>7. PICK m \in 0 .. c - 1 : m = Min(T) /\ index[Probe(c, p, m)].passage \in {0, p}
  BY <1>3, <1>4 DEF Stops
<1>8. Probe(c, p, m) \in 0 .. c - 1
  BY DEF Probe
<1>9. QED BY <1>3, <1>4, <1>6, <1>7, <1>8

-----------------------------------------------------------------------------
(* Slots in use, and the entries they are to hold.                          *)

Used(index) == {s \in DOMAIN index : index[s] # Free}

AreEntries(E) ==
  /\ IsFiniteSet(E) /\ E \subseteq Slot
  /\ \A e \in E : e.passage # 0 /\ Hash[e.passage] \in Nat
  /\ \A e, f \in E : e.passage = f.passage => e = f

(* Every entry is where it is looked for, and nothing else is there.        *)
IndexHolds(index, c, E) ==
  /\ c \in Nat \ {0} /\ index \in [0 .. c - 1 -> Slot]
  /\ AreEntries(E)
  /\ \A s \in 0 .. c - 1 : index[s] = Free \/ index[s] \in E
  /\ \A e \in E : FindSlot(index, e.passage) \in 0 .. c - 1 /\ index[FindSlot(index, e.passage)] = e
  /\ Cardinality(Used(index)) = Cardinality(E)

LEMMA SlotIsFree ==
  ASSUME NEW index, NEW c, NEW E, IndexHolds(index, c, E), Cardinality(E) < c
  PROVE  \E s \in 0 .. c - 1 : index[s] = Free
<1>1. c \in Nat \ {0} /\ DOMAIN index = 0 .. c - 1 /\ Cardinality(Used(index)) = Cardinality(E)
  BY DEF IndexHolds
<1>2. SUFFICES ASSUME \A s \in 0 .. c - 1 : index[s] # Free PROVE FALSE
  OBVIOUS
<1>3. Used(index) = 0 .. c - 1
  BY <1>1, <1>2 DEF Used
<1>4. Cardinality(0 .. c - 1) = c
  <2>1. 0 \in Int /\ c - 1 \in Int
    BY <1>1
  <2>2. QED BY <1>1, <2>1, FS_Interval
<1>5. QED BY <1>1, <1>3, <1>4

LEMMA EntriesGrow ==
  ASSUME NEW E, AreEntries(E), NEW e \in Slot, e.passage # 0, Hash[e.passage] \in Nat,
         \A f \in E : f.passage # e.passage
  PROVE  /\ AreEntries(E \union {e})
         /\ Cardinality(E \union {e}) = Cardinality(E) + 1 /\ Cardinality(E) \in Nat
<1>1. IsFiniteSet(E) /\ e \notin E
  BY DEF AreEntries
<1>2. /\ IsFiniteSet(E \union {e}) /\ Cardinality(E \union {e}) = Cardinality(E) + 1
      /\ Cardinality(E) \in Nat
  BY <1>1, FS_AddElement, FS_CardinalityType
<1>3. QED BY <1>2 DEF AreEntries

(* A further entry takes the slot where it is looked for.                   *)
LEMMA EntryAdded ==
  ASSUME NEW index, NEW c, NEW E, IndexHolds(index, c, E), Cardinality(E) < c,
         NEW e \in Slot, e.passage # 0, Hash[e.passage] \in Nat,
         \A f \in E : f.passage # e.passage
  PROVE  IndexHolds([index EXCEPT ![FindSlot(index, e.passage)] = e], c, E \union {e})
<1>1. /\ c \in Nat \ {0} /\ index \in [0 .. c - 1 -> Slot] /\ AreEntries(E)
      /\ \A s \in 0 .. c - 1 : index[s] = Free \/ index[s] \in E
      /\ \A f \in E : FindSlot(index, f.passage) \in 0 .. c - 1 /\ index[FindSlot(index, f.passage)] = f
      /\ Cardinality(Used(index)) = Cardinality(E)
  BY DEF IndexHolds
<1>2. PICK p \in Nat \ {0} : p = e.passage /\ Hash[p] \in Nat
  BY DEF Slot
<1>3. PICK free \in 0 .. c - 1 : index[free] = Free
  BY SlotIsFree
<1>4. index[free].passage \in {0, p}
  BY <1>3 DEF Free
<1>5. PICK m : m = Min(Stops(index, c, p))
  OBVIOUS
<1>6. PICK t \in 0 .. c - 1 : t = FindSlot(index, p) /\ t = Probe(c, p, m) /\ index[t].passage \in {0, p}
  BY <1>1, <1>2, <1>4, <1>5, FindSlotIs
<1>7. index[t] = Free
  <2>1. index[t] \notin E
    BY <1>2, <1>6, <1>1 DEF AreEntries
  <2>2. QED BY <1>1, <2>1
<1>8. PICK now : now = [index EXCEPT ![t] = e]
  OBVIOUS
<1>9. /\ now \in [0 .. c - 1 -> Slot] /\ DOMAIN now = 0 .. c - 1 /\ now[t] = e
      /\ \A s \in 0 .. c - 1 : s # t => now[s] = index[s]
  BY <1>1, <1>8
<1>10. FindSlot(now, p) = t
  <2>1. Stops(now, c, p) = Stops(index, c, p)
    <3>1. ASSUME NEW k \in 0 .. c - 1
          PROVE  (now[Probe(c, p, k)].passage \in {0, p}) <=> (index[Probe(c, p, k)].passage \in {0, p})
      <4>1. PICK s \in 0 .. c - 1 : s = Probe(c, p, k)
        BY <1>1, <1>2 DEF Probe
      <4>2. now[s] = index[s] \/ (s = t /\ now[s].passage = p /\ index[s].passage = 0)
        BY <1>2, <1>6, <1>7, <1>9 DEF Free
      <4>3. QED BY <4>1, <4>2
    <3>2. QED BY <3>1 DEF Stops
  <2>2. now[t].passage \in {0, p}
    BY <1>2, <1>9
  <2>3. FindSlot(now, p) = Probe(c, p, Min(Stops(now, c, p)))
    BY <1>1, <1>2, <1>9, <2>2, FindSlotIs
  <2>4. QED BY <1>5, <1>6, <2>1, <2>3
<1>11. ASSUME NEW f \in E
       PROVE  FindSlot(now, f.passage) \in 0 .. c - 1 /\ now[FindSlot(now, f.passage)] = f
  <2>1. PICK q \in Nat \ {0} : q = f.passage /\ Hash[q] \in Nat /\ q # p
    BY <1>1, <1>2 DEF AreEntries, Slot
  <2>2. PICK s \in 0 .. c - 1 : s = FindSlot(index, q) /\ index[s] = f
    BY <1>1, <2>1
  <2>3. PICK k : k = Min(Stops(index, c, q))
    OBVIOUS
  <2>4. index[s].passage \in {0, q}
    BY <2>1, <2>2
  <2>5. /\ k \in Stops(index, c, q) /\ s = Probe(c, q, k)
        /\ \A y \in Stops(index, c, q) : k <= y
    BY <1>1, <2>1, <2>2, <2>3, <2>4, FindSlotIs
  <2>6. s # t /\ now[s] = f
    BY <1>7, <1>9, <2>1, <2>2 DEF Free
  <2>7. Stops(now, c, q) \subseteq Stops(index, c, q)
    <3>1. ASSUME NEW y \in 0 .. c - 1, now[Probe(c, q, y)].passage \in {0, q}
          PROVE  index[Probe(c, q, y)].passage \in {0, q}
      <4>1. PICK u \in 0 .. c - 1 : u = Probe(c, q, y)
        BY <1>1, <2>1 DEF Probe
      <4>2. u # t
        BY <1>2, <1>9, <2>1, <3>1, <4>1
      <4>3. QED BY <1>9, <3>1, <4>1, <4>2
    <3>2. QED BY <3>1 DEF Stops
  <2>8. k \in Stops(now, c, q)
    BY <2>1, <2>5, <2>6 DEF Stops
  <2>9. now[s].passage \in {0, q}
    BY <2>1, <2>6
  <2>10. PICK j : j = Min(Stops(now, c, q)) /\ j \in Stops(now, c, q)
           /\ (\A y \in Stops(now, c, q) : j <= y) /\ FindSlot(now, q) = Probe(c, q, j)
    BY <1>1, <1>9, <2>1, <2>9, FindSlotIs
  <2>11. j = k
    <3>1. j \in Nat /\ k \in Nat
      BY <2>8, <2>10 DEF Stops
    <3>2. j <= k /\ k <= j
      BY <2>5, <2>7, <2>8, <2>10
    <3>3. QED BY <3>1, <3>2
  <2>12. FindSlot(now, q) = s
    BY <2>5, <2>10, <2>11
  <2>13. QED BY <2>1, <2>6, <2>12
<1>12. \A s \in 0 .. c - 1 : now[s] = Free \/ now[s] \in E \union {e}
  BY <1>1, <1>9
<1>13. AreEntries(E \union {e}) /\ Cardinality(E \union {e}) = Cardinality(E) + 1
  BY <1>1, EntriesGrow
<1>14. Cardinality(Used(now)) = Cardinality(E) + 1
  <2>1. Used(now) = Used(index) \union {t} /\ t \notin Used(index)
    BY <1>1, <1>2, <1>7, <1>9 DEF Used, Free
  <2>2. IsFiniteSet(Used(index))
    <3>1. IsFiniteSet(0 .. c - 1)
      <4>1. 0 \in Int /\ c - 1 \in Int
        BY <1>1
      <4>2. QED BY <4>1, FS_Interval
    <3>2. Used(index) \in SUBSET (0 .. c - 1)
      BY <1>1 DEF Used
    <3>3. QED BY <3>1, <3>2, FS_Subset
  <2>3. Cardinality(Used(index) \union {t}) = Cardinality(Used(index)) + 1
    BY <2>1, <2>2, FS_AddElement
  <2>4. QED BY <1>1, <2>1, <2>3
<1>15. \A f \in E \union {e} :
         FindSlot(now, f.passage) \in 0 .. c - 1 /\ now[FindSlot(now, f.passage)] = f
  BY <1>2, <1>9, <1>10, <1>11
<1>16. IndexHolds(now, c, E \union {e})
  BY <1>1, <1>9, <1>12, <1>13, <1>14, <1>15 DEF IndexHolds
<1>17. QED BY <1>2, <1>6, <1>8, <1>16

LEMMA FreshHolds ==
  ASSUME NEW c \in Nat \ {0}
  PROVE  IndexHolds(FreshIndex(c), c, {})
<1>1. PICK index : index = FreshIndex(c)
  OBVIOUS
<1>2. /\ index \in [0 .. c - 1 -> Slot] /\ DOMAIN index = 0 .. c - 1
      /\ \A s \in 0 .. c - 1 : index[s] = Free
  BY <1>1 DEF FreshIndex, Free, Slot
<1>3. Used(index) = {}
  BY <1>2 DEF Used
<1>4. IsFiniteSet({}) /\ Cardinality({}) = 0
  BY FS_EmptySet
<1>5. QED BY <1>1, <1>2, <1>3, <1>4 DEF IndexHolds, AreEntries

(* The larger index holds what the smaller one held.                        *)
LEMMA GrowHolds ==
  ASSUME NEW index, NEW c, NEW E, IndexHolds(index, c, E), Cardinality(E) < 2 * c
  PROVE  IndexHolds(Grow(index), 2 * c, E)
<1>1. /\ c \in Nat \ {0} /\ index \in [0 .. c - 1 -> Slot] /\ AreEntries(E)
      /\ \A s \in 0 .. c - 1 : index[s] = Free \/ index[s] \in E
      /\ \A f \in E : FindSlot(index, f.passage) \in 0 .. c - 1 /\ index[FindSlot(index, f.passage)] = f
  BY DEF IndexHolds
<1>2. PICK d \in Nat \ {0} : d = 2 * c
  BY <1>1
<1>3. Capacity(index) = c
  <2>1. 0 \in Int /\ c - 1 \in Int
    BY <1>1
  <2>2. Cardinality(0 .. c - 1) = c
    BY <1>1, <2>1, FS_Interval
  <2>3. QED BY <1>1, <2>2 DEF Capacity
<1>4. {index[s] : s \in {t \in DOMAIN index : index[t] # Free}} = E
  <2>1. \A f \in E : f # Free
    BY <1>1 DEF AreEntries, Free
  <2>2. QED BY <1>1, <2>1
<1> DEFINE A == [0 .. d - 1 -> Slot]
           base == FreshIndex(d)
           f == [e \in E |-> [a \in A |-> [a EXCEPT ![FindSlot(a, e.passage)] = e]]]
           ch == [s \in SUBSET E |-> CHOOSE x \in s : TRUE]
           Step(h) == [s \in SUBSET E |->
                         IF s = {} THEN base
                         ELSE LET x == CHOOSE x \in s : TRUE
                                  a == h[s \ {x}]
                              IN  [a EXCEPT ![FindSlot(a, x.passage)] = x]]
           g == CHOOSE h : h = Step(h)
<1>5. Grow(index) = g[E]
  BY <1>2, <1>3, <1>4 DEF Grow, FoldSet, MapThenFoldSet
<1>6. base \in A /\ IndexHolds(base, d, {})
  BY FreshHolds DEF IndexHolds
<1>7. IsFiniteSet(E) /\ E \subseteq Slot
  BY <1>1 DEF AreEntries
<1>8. f \in [E -> [A -> A]]
  <2>1. ASSUME NEW e \in E, NEW a \in A
        PROVE  [a EXCEPT ![FindSlot(a, e.passage)] = e] \in A
    BY <1>7
  <2>2. QED BY <2>1
<1>9. \A s \in SUBSET E : s # {} => ch[s] \in s
  OBVIOUS
<1>10. PICK h \in [SUBSET E -> A] : FoldsTo(f, base, ch, E, h)
  <2> HIDE DEF f, ch, base, A
  <2>1. QED BY <1>6, <1>7, <1>8, <1>9, FoldExists
<1>11. h = Step(h)
  <2>1. ASSUME NEW s \in SUBSET E PROVE h[s] = Step(h)[s]
    <3>1. CASE s = {}
      BY <1>10, <3>1 DEF FoldsTo
    <3>2. CASE s # {}
      <4>1. PICK x \in s : x = ch[s] /\ x = CHOOSE z \in s : TRUE
        BY <3>2
      <4>2. PICK a \in A : a = h[s \ {x}]
        OBVIOUS
      <4>3. h[s] = f[x][a]
        BY <1>10, <3>2, <4>1, <4>2 DEF FoldsTo
      <4>4. f[x][a] = [a EXCEPT ![FindSlot(a, x.passage)] = x]
        BY <4>1, <4>2
      <4>5. Step(h)[s] = [a EXCEPT ![FindSlot(a, x.passage)] = x]
        BY <3>2, <4>1, <4>2
      <4>6. QED BY <4>3, <4>4, <4>5
    <3>3. QED BY <3>1, <3>2
  <2>2. QED BY <2>1
<1>12. g = Step(g)
  BY <1>11
<1> HIDE DEF g
<1> DEFINE Good == {k \in Nat : \A s \in SUBSET E : Cardinality(s) = k => IndexHolds(g[s], d, s)}
<1>13. 0 \in Good
  <2>1. ASSUME NEW s \in SUBSET E, Cardinality(s) = 0 PROVE IndexHolds(g[s], d, s)
    <3>1. s = {}
      BY <1>7, <2>1, Fewer
    <3>2. g[s] = base
      BY <1>12, <3>1
    <3>3. QED BY <1>6, <3>1, <3>2
  <2>2. QED BY <2>1
<1>14. ASSUME NEW k \in Nat, k \in Good PROVE k + 1 \in Good
  <2>1. ASSUME NEW s \in SUBSET E, Cardinality(s) = k + 1 PROVE IndexHolds(g[s], d, s)
    <3>1. s # {}
      BY <1>7, <2>1, Fewer
    <3>2. PICK x \in s : x = CHOOSE z \in s : TRUE
      BY <3>1
    <3>3. PICK t \in SUBSET E : t = s \ {x}
      OBVIOUS
    <3>4. Cardinality(t) = k
      BY <1>7, <2>1, <3>3, Fewer
    <3>5. PICK a : a = g[t]
      OBVIOUS
    <3>6. g[s] = [a EXCEPT ![FindSlot(a, x.passage)] = x]
      BY <1>12, <3>1, <3>2, <3>3, <3>5
    <3>7. IndexHolds(a, d, t)
      BY <1>14, <3>4, <3>5
    <3>8. Cardinality(t) < d
      <4>1. Cardinality(s) <= Cardinality(E) /\ Cardinality(E) \in Nat
        BY <1>7, FS_Subset, FS_CardinalityType
      <4>2. QED BY <1>2, <2>1, <3>4, <4>1
    <3>9. x \in Slot /\ x.passage # 0 /\ Hash[x.passage] \in Nat /\ \A y \in t : y.passage # x.passage
      BY <1>1, <3>3 DEF AreEntries
    <3>10. IndexHolds([a EXCEPT ![FindSlot(a, x.passage)] = x], d, t \union {x})
      BY <3>7, <3>8, <3>9, EntryAdded
    <3>11. t \union {x} = s
      BY <3>3
    <3>12. QED BY <3>6, <3>10, <3>11
  <2>2. QED BY <2>1
<1>15. Good = Nat
  <2> HIDE DEF Good
  <2>1. Good \in SUBSET Nat
    BY DEF Good
  <2>2. QED BY <1>13, <1>14, <2>1, AllNumbers
<1>16. IndexHolds(g[E], d, E)
  BY <1>7, <1>15, FS_CardinalityType
<1>17. QED BY <1>2, <1>5, <1>16

(* An index that is never more than seven tenths full.                      *)
HasRoom(c, E) == 10 * Cardinality(E) < 7 * c

(* The table is never full when a passage is looked for.                    *)
LEMMA InsertHolds ==
  ASSUME NEW index, NEW c, NEW E, IndexHolds(index, c, E), HasRoom(c, E),
         NEW e \in Slot, e.passage # 0, Hash[e.passage] \in Nat,
         \A f \in E : f.passage # e.passage
  PROVE  \E d : /\ IndexHolds(Insert(index, e.passage, e.item), d, E \union {e})
                /\ HasRoom(d, E \union {e})
<1>1. c \in Nat \ {0} /\ AreEntries(E) /\ Cardinality(Used(index)) = Cardinality(E)
  BY DEF IndexHolds
<1>2. PICK n \in Nat : n = Cardinality(E) /\ Cardinality(E \union {e}) = n + 1
  BY <1>1, EntriesGrow
<1>3. Capacity(index) = c
  <2>1. 0 \in Int /\ c - 1 \in Int
    BY <1>1
  <2>2. Cardinality(0 .. c - 1) = c
    BY <1>1, <2>1, FS_Interval
  <2>3. QED BY <2>2 DEF Capacity, IndexHolds
<1>4. [passage |-> e.passage, item |-> e.item] = e
  BY DEF Slot
<1>5. PICK room : room = IF (n + 1) * 10 >= c * 7 THEN Grow(index) ELSE index
  OBVIOUS
<1>6. Insert(index, e.passage, e.item) = [room EXCEPT ![FindSlot(room, e.passage)] = e]
  <2>1. Cardinality({s \in DOMAIN index : index[s] # Free}) = n
    BY <1>1, <1>2 DEF Used
  <2>2. QED BY <1>3, <1>4, <1>5, <2>1 DEF Insert
<1>7. PICK d \in Nat \ {0} : IndexHolds(room, d, E) /\ n < d /\ 10 * (n + 1) < 7 * d
  <2>1. 10 * n < 7 * c
    BY <1>2 DEF HasRoom
  <2>2. CASE (n + 1) * 10 >= c * 7
    <3>1. n < 2 * c /\ 10 * (n + 1) < 7 * (2 * c) /\ 2 * c \in Nat \ {0}
      BY <1>1, <2>1
    <3>2. IndexHolds(room, 2 * c, E)
      BY <1>2, <1>5, <2>2, <3>1, GrowHolds
    <3>3. QED BY <3>1, <3>2
  <2>3. CASE ~ ((n + 1) * 10 >= c * 7)
    <3>1. n < c /\ 10 * (n + 1) < 7 * c
      BY <1>1, <2>3
    <3>2. QED BY <1>1, <1>5, <2>3, <3>1
  <2>4. QED BY <2>2, <2>3
<1>8. IndexHolds([room EXCEPT ![FindSlot(room, e.passage)] = e], d, E \union {e})
  BY <1>2, <1>7, EntryAdded
<1>9. HasRoom(d, E \union {e})
  BY <1>2, <1>7 DEF HasRoom
<1>10. QED BY <1>6, <1>8, <1>9

-----------------------------------------------------------------------------
(* The result list. Its passages are of P, each once, and the index knows   *)
(* the place of each.                                                       *)

Hashed(P) == \A p \in P : p \in Nat \ {0} /\ Hash[p] \in Nat

Item == [passage : Nat, score : Nat, matched : Nat \ {0}]

Entries(items) == {[passage |-> items[i].passage, item |-> i] : i \in DOMAIN items}

Listed(items, P) ==
  /\ items \in Seq(Item)
  /\ \A i \in DOMAIN items : items[i].passage \in P
  /\ \A i, j \in DOMAIN items : items[i].passage = items[j].passage => i = j

ResultsFit(r, P) ==
  /\ r = [items |-> r.items, index |-> r.index]
  /\ Listed(r.items, P)
  /\ \E c : IndexHolds(r.index, c, Entries(r.items)) /\ HasRoom(c, Entries(r.items))

(* What the list says of a passage: its score, and the terms it matched.    *)
Marked(items, q, s, m) ==
  \/ \E i \in DOMAIN items : items[i].passage = q /\ items[i].score = s /\ items[i].matched = m
  \/ (\A i \in DOMAIN items : items[i].passage # q) /\ s = 0 /\ m = 0

LEMMA FoundWhereItIs ==
  ASSUME NEW P, Hashed(P), NEW r, ResultsFit(r, P), NEW p \in P
  PROVE  LET found == r.index[FindSlot(r.index, p)]
         IN  \/ /\ found # Free /\ found.item \in DOMAIN r.items
                /\ r.items[found.item].passage = p
             \/ found = Free /\ \A i \in DOMAIN r.items : r.items[i].passage # p
<1>1. PICK c : IndexHolds(r.index, c, Entries(r.items)) /\ HasRoom(c, Entries(r.items))
  BY DEF ResultsFit
<1>2. PICK E : E = Entries(r.items)
  OBVIOUS
<1>3. /\ c \in Nat \ {0} /\ r.index \in [0 .. c - 1 -> Slot] /\ AreEntries(E)
      /\ \A s \in 0 .. c - 1 : r.index[s] = Free \/ r.index[s] \in E
      /\ \A f \in E : r.index[FindSlot(r.index, f.passage)] = f
  BY <1>1, <1>2 DEF IndexHolds
<1>4. p \in Nat \ {0} /\ Hash[p] \in Nat
  BY DEF Hashed
<1>5. Cardinality(E) < c
  <2>1. Cardinality(E) \in Nat /\ 10 * Cardinality(E) < 7 * c
    BY <1>1, <1>2, <1>3, FS_CardinalityType DEF HasRoom, AreEntries
  <2>2. QED BY <1>3, <2>1
<1>6. PICK s \in 0 .. c - 1 : r.index[s] = Free
  BY <1>1, <1>2, <1>5, SlotIsFree
<1>7. r.index[s].passage \in {0, p} /\ DOMAIN r.index = 0 .. c - 1
  BY <1>3, <1>6 DEF Free
<1>8. PICK t \in 0 .. c - 1 : t = FindSlot(r.index, p) /\ r.index[t].passage \in {0, p}
  BY <1>3, <1>4, <1>7, FindSlotIs
<1>9. PICK found : found = r.index[t] /\ (found = Free \/ found \in E) /\ found.passage \in {0, p}
  BY <1>3, <1>8
<1>10. CASE found = Free
  <2>1. ASSUME NEW i \in DOMAIN r.items, r.items[i].passage = p PROVE FALSE
    <3>1. PICK e : e = [passage |-> r.items[i].passage, item |-> i]
      OBVIOUS
    <3>2. e \in E /\ e.passage = p
      BY <1>2, <2>1, <3>1 DEF Entries
    <3>3. r.index[t] = e
      BY <1>3, <1>8, <3>2
    <3>4. e = Free
      BY <1>9, <1>10, <3>3
    <3>5. Free.passage = 0
      BY DEF Free
    <3>6. QED BY <1>4, <3>2, <3>4, <3>5
  <2>2. QED BY <1>8, <1>9, <1>10, <2>1
<1>11. CASE found # Free
  <2>1. found \in E /\ found.passage = p
    BY <1>3, <1>9, <1>11 DEF AreEntries
  <2>2. PICK i \in DOMAIN r.items : found = [passage |-> r.items[i].passage, item |-> i]
    BY <1>2, <2>1 DEF Entries
  <2>3. QED BY <1>8, <1>9, <1>11, <2>1, <2>2
<1>12. QED BY <1>10, <1>11

(* What a score for a passage does to the list.                             *)
Scored(old, new, p, score) ==
  \/ \E i \in DOMAIN old : /\ old[i].passage = p
                           /\ new = [old EXCEPT ![i].score = @ + score, ![i].matched = @ + 1]
  \/ /\ \A i \in DOMAIN old : old[i].passage # p
     /\ new = Append(old, [passage |-> p, score |-> score, matched |-> 1])

LEMMA AddScoreFits ==
  ASSUME NEW P, Hashed(P), NEW r, ResultsFit(r, P), NEW p \in P, NEW score \in Nat
  PROVE  /\ ResultsFit(AddScore(r, p, score), P)
         /\ Scored(r.items, AddScore(r, p, score).items, p, score)
<1>1. PICK found : found = r.index[FindSlot(r.index, p)]
  OBVIOUS
<1>2. PICK items : items = r.items
  OBVIOUS
<1>3. PICK n \in Nat : n = Len(items) /\ DOMAIN items = 1 .. n /\ \A i \in 1 .. n : items[i] \in Item
  BY <1>2, LenProperties, ElementOfSeq DEF ResultsFit, Listed
<1>4. PICK c : IndexHolds(r.index, c, Entries(items)) /\ HasRoom(c, Entries(items))
  BY <1>2 DEF ResultsFit
<1>5. r = [items |-> items, index |-> r.index] /\ Listed(items, P)
  BY <1>2 DEF ResultsFit
<1> DEFINE there == /\ found # Free /\ found.item \in 1 .. n
                    /\ items[found.item].passage = p
<1>9. there \/ (found = Free /\ \A i \in 1 .. n : items[i].passage # p)
  BY <1>1, <1>2, <1>3, FoundWhereItIs
<1>10. p \in Nat /\ p # 0 /\ Hash[p] \in Nat
  BY DEF Hashed
<1>6. CASE found # Free
  <2>1. PICK i \in 1 .. n : i = found.item /\ items[i].passage = p
    BY <1>6, <1>9
  <2>2. PICK new : new = [items EXCEPT ![i].score = @ + score, ![i].matched = @ + 1]
    OBVIOUS
  <2>3. PICK now : now = AddScore(r, p, score)
    OBVIOUS
  <2>4. now = [r EXCEPT !.items = new]
    BY ZenonT(60), <1>1, <1>2, <1>5, <1>6, <2>1, <2>2, <2>3 DEF AddScore
  <2>5. now = [items |-> new, index |-> r.index]
    BY <1>5, <2>4
  <2>6. /\ DOMAIN new = 1 .. n /\ Len(new) = n /\ new \in Seq(Item)
        /\ \A j \in 1 .. n : new[j].passage = items[j].passage
    <3>1. items[i] \in Item /\ items[i].score + score \in Nat /\ items[i].matched + 1 \in Nat \ {0}
      BY <1>3 DEF Item
    <3>2. new \in [1 .. n -> Item]
      BY <1>3, <2>2, <3>1 DEF Item
    <3>3. new \in Seq(Item)
      BY <3>2, SeqDef
    <3>4. Len(new) = n
      BY <3>2, <3>3, LenProperties
    <3>5. \A j \in 1 .. n : new[j].passage = items[j].passage
      BY <1>3, <2>2 DEF Item
    <3>6. QED BY <3>2, <3>3, <3>4, <3>5
  <2>7. Entries(new) = Entries(items)
    BY <1>3, <2>6 DEF Entries
  <2>8. Listed(new, P)
    BY <1>3, <1>5, <2>6 DEF Listed
  <2>9. ResultsFit(now, P)
    BY <1>4, <2>5, <2>7, <2>8 DEF ResultsFit
  <2>10. Scored(items, now.items, p, score)
    BY <1>3, <2>1, <2>2, <2>5 DEF Scored
  <2>11. QED BY <1>2, <2>3, <2>9, <2>10
<1>7. CASE found = Free
  <2>1. \A i \in 1 .. n : items[i].passage # p
    BY <1>7, <1>9
  <2>2. PICK e \in Slot : e = [passage |-> p, item |-> n + 1]
    <3>1. [passage |-> p, item |-> n + 1] \in Slot
      BY <1>3, <1>10 DEF Slot
    <3>2. QED BY <3>1
  <2>3. PICK it \in Item : it = [passage |-> p, score |-> score, matched |-> 1]
    <3>1. [passage |-> p, score |-> score, matched |-> 1] \in Item
      BY <1>10 DEF Item
    <3>2. QED BY <3>1
  <2>4. PICK new : new = Append(items, it)
    OBVIOUS
  <2>5. PICK index : index = Insert(r.index, p, n + 1)
    OBVIOUS
  <2>6. PICK now : now = AddScore(r, p, score)
    OBVIOUS
  <2>7. now = [items |-> new, index |-> index]
    BY <1>1, <1>2, <1>3, <1>7, <2>3, <2>4, <2>5, <2>6 DEF AddScore
  <2>8. /\ new \in Seq(Item) /\ DOMAIN new = 1 .. n + 1 /\ new[n+1] = it
        /\ \A j \in 1 .. n : new[j] = items[j]
    <3>1. items \in Seq(Item)
      BY <1>5 DEF Listed
    <3>2. /\ new \in Seq(Item) /\ Len(new) = n + 1 /\ new[n+1] = it
          /\ \A j \in 1 .. n : new[j] = items[j]
      BY <1>3, <2>4, <3>1, AppendProperties
    <3>3. QED BY <3>2, LenProperties
  <2>9. Entries(new) = Entries(items) \union {e}
    <3>1. Entries(new) = {[passage |-> new[i].passage, item |-> i] : i \in 1 .. n + 1}
      BY <2>8 DEF Entries
    <3>2. Entries(items) = {[passage |-> items[i].passage, item |-> i] : i \in 1 .. n}
      BY <1>3 DEF Entries
    <3>3. e = [passage |-> new[n+1].passage, item |-> n + 1]
      BY <2>2, <2>3, <2>8
    <3>4. \A i \in 1 .. n + 1 : i \in 1 .. n \/ i = n + 1
      OBVIOUS
    <3>5. n + 1 \in 1 .. n + 1 /\ \A i \in 1 .. n : i \in 1 .. n + 1
      OBVIOUS
    <3>6. QED BY <2>8, <3>1, <3>2, <3>3, <3>4, <3>5
  <2>10. PICK d : IndexHolds(index, d, Entries(new)) /\ HasRoom(d, Entries(new))
    <3>1. e.passage = p /\ e.item = n + 1 /\ e.passage # 0 /\ Hash[e.passage] \in Nat
      BY <1>10, <2>2
    <3>2. \A f \in Entries(items) : f.passage # e.passage
      BY <1>3, <2>1, <3>1 DEF Entries
    <3>3. \E d : /\ IndexHolds(Insert(r.index, e.passage, e.item), d, Entries(items) \union {e})
                 /\ HasRoom(d, Entries(items) \union {e})
      BY <1>4, <3>1, <3>2, InsertHolds
    <3>4. QED BY <2>5, <2>9, <3>1, <3>3
  <2>11. Listed(new, P)
    <3>1. \A j \in 1 .. n + 1 : \/ (j \in 1 .. n /\ new[j] = items[j])
                                 \/ (j = n + 1 /\ new[j].passage = p)
      BY <2>3, <2>8
    <3>2. \A j \in 1 .. n + 1 : new[j].passage \in P
      BY <1>3, <1>5, <3>1 DEF Listed
    <3>3. \A j, k \in 1 .. n + 1 : new[j].passage = new[k].passage => j = k
      BY <1>3, <1>5, <2>1, <3>1 DEF Listed
    <3>4. QED BY <2>8, <3>2, <3>3 DEF Listed
  <2>12. ResultsFit(now, P)
    BY <2>7, <2>10, <2>11 DEF ResultsFit
  <2>13. Scored(items, now.items, p, score)
    BY <1>3, <2>1, <2>3, <2>4, <2>7 DEF Scored
  <2>14. QED BY <1>2, <2>6, <2>12, <2>13
<1>8. QED BY <1>6, <1>7

LEMMA MarksChange ==
  ASSUME NEW P, Hashed(P), NEW old, Listed(old, P), NEW p \in P, NEW score \in Nat,
         NEW new, Scored(old, new, p, score),
         NEW q, NEW s \in Nat, NEW m \in Nat, Marked(old, q, s, m)
  PROVE  IF q = p THEN Marked(new, q, s + score, m + 1) ELSE Marked(new, q, s, m)
<1>1. PICK n \in Nat : n = Len(old) /\ DOMAIN old = 1 .. n /\ \A i \in 1 .. n : old[i] \in Item
  BY LenProperties, ElementOfSeq DEF Listed
<1>2. \A i, j \in 1 .. n : old[i].passage = old[j].passage => i = j
  BY <1>1 DEF Listed
<1>3. CASE \E i \in 1 .. n : old[i].passage = p
  <2>1. PICK i \in 1 .. n :
          /\ old[i].passage = p
          /\ new = [old EXCEPT ![i].score = @ + score, ![i].matched = @ + 1]
    BY <1>1, <1>3 DEF Scored
  <2>2. /\ DOMAIN new = 1 .. n /\ \A j \in 1 .. n : j # i => new[j] = old[j]
        /\ new[i].passage = p /\ new[i].score = old[i].score + score
        /\ new[i].matched = old[i].matched + 1
    BY <1>1, <2>1 DEF Item
  <2>3. CASE q = p
    <3>1. old[i].score = s /\ old[i].matched = m
      BY <1>1, <1>2, <2>1, <2>3 DEF Marked
    <3>2. QED BY <2>2, <2>3, <3>1 DEF Marked
  <2>4. CASE q # p
    BY <1>1, <2>1, <2>2, <2>4 DEF Marked
  <2>5. QED BY <2>3, <2>4
<1>4. CASE \A i \in 1 .. n : old[i].passage # p
  <2>1. new = Append(old, [passage |-> p, score |-> score, matched |-> 1])
    BY <1>1, <1>4 DEF Scored
  <2>2. /\ DOMAIN new = 1 .. n + 1 /\ new[n+1].passage = p /\ new[n+1].score = score
        /\ new[n+1].matched = 1
        /\ \A j \in 1 .. n : new[j] = old[j]
    <3>1. PICK it \in Item : it = [passage |-> p, score |-> score, matched |-> 1]
      <4>1. p \in Nat
        BY DEF Hashed
      <4>2. [passage |-> p, score |-> score, matched |-> 1] \in Item
        BY <4>1 DEF Item
      <4>3. QED BY <4>2
    <3>2. QED BY <1>1, <2>1, <3>1, AppendProperties, LenProperties DEF Listed
  <2>3. \A j \in 1 .. n + 1 : j \in 1 .. n \/ j = n + 1
    OBVIOUS
  <2>4. n + 1 \in 1 .. n + 1 /\ \A j \in 1 .. n : j \in 1 .. n + 1
    OBVIOUS
  <2>5. CASE q = p
    <3>1. s = 0 /\ m = 0
      BY <1>1, <1>4, <2>5 DEF Marked
    <3>2. s + score = score /\ m + 1 = 1
      BY <3>1
    <3>3. QED BY <2>2, <2>4, <2>5, <3>2 DEF Marked
  <2>6. CASE q # p
    BY <1>1, <2>2, <2>3, <2>4, <2>6 DEF Marked
  <2>7. QED BY <2>5, <2>6
<1>5. QED BY <1>3, <1>4

-----------------------------------------------------------------------------
(* The rows of one term, one after the other.                               *)

AreRows(rows, n, P) ==
  /\ n \in Nat /\ DOMAIN rows = 1 .. n
  /\ \A k \in 1 .. n : rows[k].passage \in P /\ rows[k].frequency \in Nat
  /\ \A j, k \in 1 .. n : rows[j].passage = rows[k].passage => j = k

AllResults(P) ==
  {r \in [items : Seq(Item), index : UNION {[0 .. c - 1 -> Slot] : c \in Nat}] : ResultsFit(r, P)}

LEMMA FittingResults ==
  ASSUME NEW P, NEW r
  PROVE  r \in AllResults(P) <=> ResultsFit(r, P)
<1>1. ASSUME ResultsFit(r, P) PROVE r \in AllResults(P)
  <2>1. r = [items |-> r.items, index |-> r.index] /\ r.items \in Seq(Item)
    BY <1>1 DEF ResultsFit, Listed
  <2>2. PICK c \in Nat : r.index \in [0 .. c - 1 -> Slot]
    BY <1>1 DEF ResultsFit, IndexHolds
  <2>3. QED BY <1>1, <2>1, <2>2 DEF AllResults
<1>2. QED BY <1>1 DEF AllResults

RowScore(rows, weight, total, k) == weight * TermScore(total, rows, rows[k].frequency)

(* p[k] is the list after k rows.                                           *)
RowByRow(r, rows, weight, total, n, p) ==
  /\ p[0] = r
  /\ \A k \in 1 .. n : p[k] = AddScore(p[k-1], rows[k].passage, RowScore(rows, weight, total, k))

ScoresAreNumbers(rows, weight, total, n) ==
  \A k \in 1 .. n : RowScore(rows, weight, total, k) \in Nat

RowsRun(r, rows, weight, total, n, P, p) ==
  /\ RowByRow(r, rows, weight, total, n, p)
  /\ \A k \in 0 .. n : ResultsFit(p[k], P)
  /\ Accumulate(r, rows, weight, total) = p[n]

LEMMA AccumulateIs ==
  ASSUME NEW P, Hashed(P), NEW r, ResultsFit(r, P), NEW n, NEW rows, AreRows(rows, n, P),
         NEW weight \in Nat, NEW total \in Nat,
         ScoresAreNumbers(rows, weight, total, n)
  PROVE  \E p : RowsRun(r, rows, weight, total, n, P, p)
<1> DEFINE A == AllResults(P)
           Score(k) == RowScore(rows, weight, total, k)
           Step(h) == [s \in SUBSET DOMAIN rows |->
                         IF s = {} THEN r
                         ELSE AddScore(h[s \ {Max(s)}], rows[Max(s)].passage,
                                       weight * TermScore(total, rows, rows[Max(s)].frequency))]
           h == CHOOSE h : h = Step(h)
           f == [i \in 1 .. n |-> [a \in A |-> AddScore(a, rows[i].passage, Score(i))]]
<1>1. Accumulate(r, rows, weight, total) = h[1 .. n] /\ n \in Nat
  BY DEF Accumulate, FoldLeft, MapThenFoldSet, AreRows
<1>2. f \in [1 .. n -> [A -> A]]
  <2>1. ASSUME NEW i \in 1 .. n, NEW a \in A PROVE AddScore(a, rows[i].passage, Score(i)) \in A
    <3>1. rows[i].passage \in P /\ Score(i) \in Nat
      BY DEF AreRows, ScoresAreNumbers
    <3>2. ResultsFit(a, P)
      BY FittingResults
    <3> HIDE DEF Score
    <3>3. ResultsFit(AddScore(a, rows[i].passage, Score(i)), P)
      BY <3>1, <3>2, AddScoreFits
    <3>4. QED BY <3>3, FittingResults
  <2> HIDE DEF A, Score
  <2>2. QED BY <2>1
<1>3. \E g : g \in [SUBSET (1 .. n) -> A] /\ g = Step(g)
  <2>1. PICK g \in [SUBSET (1 .. n) -> A] : FoldsTo(f, r, Latest(n), 1 .. n, g)
    <3>1. r \in A
      BY FittingResults
    <3> HIDE DEF f, A
    <3>2. QED BY <1>1, <1>2, <3>1, FoldInOrder
  <2>2. ASSUME NEW s \in SUBSET (1 .. n) PROVE g[s] = Step(g)[s]
    <3>0. DOMAIN rows = 1 .. n
      BY DEF AreRows
    <3>1. CASE s = {}
      BY <2>1, <3>0, <3>1 DEF FoldsTo
    <3>2. CASE s # {}
      <4>1. PICK i \in 1 .. n : i = Max(s) /\ Latest(n)[s] = i
        BY <1>1, <3>2, LastOfSome DEF Latest
      <4>2. PICK t \in SUBSET (1 .. n) : t = s \ {i}
        OBVIOUS
      <4>3. g[s] = f[i][g[t]]
        BY <2>1, <3>2, <4>1, <4>2 DEF FoldsTo
      <4>4. g[t] \in A
        OBVIOUS
      <4>5. f[i][g[t]] = AddScore(g[t], rows[i].passage, Score(i))
        <5> HIDE DEF A, Score
        <5>1. QED BY <4>4
      <4>6. Step(g)[s] = AddScore(g[t], rows[i].passage, Score(i))
        BY <3>0, <3>2, <4>1, <4>2 DEF RowScore
      <4>7. QED BY <4>3, <4>5, <4>6
    <3>3. QED BY <3>1, <3>2
  <2>3. g = Step(g)
    BY <2>2 DEF AreRows
  <2>4. QED BY <2>3
<1>4. h = Step(h)
  BY <1>3
<1> HIDE DEF h
<1> DEFINE p == [k \in 0 .. n |-> h[1 .. k]]
<1>5. p[0] = r
  BY <1>1, <1>4
<1>6. ASSUME NEW k \in 1 .. n PROVE p[k] = AddScore(p[k-1], rows[k].passage, Score(k))
  <2>1. Max(1 .. k) = k /\ (1 .. k) \ {k} = 1 .. k - 1 /\ 1 .. k # {}
    <3>1. k \in Nat \ {0}
      BY <1>1
    <3>2. QED BY <3>1, LastOfMany
  <2>2. 1 .. k \in SUBSET (1 .. n) /\ k - 1 \in 0 .. n /\ k \in 0 .. n /\ DOMAIN rows = 1 .. n
    BY <1>1 DEF AreRows
  <2>3. h[1 .. k] = AddScore(h[1 .. k - 1], rows[k].passage, Score(k))
    BY <1>4, <2>1, <2>2 DEF RowScore
  <2>4. QED BY <2>2, <2>3
<1>7. p[n] = h[1 .. n]
  BY <1>1
<1> HIDE DEF p
<1> DEFINE T == {k \in 0 .. n : ResultsFit(p[k], P)}
<1>8. 0 \in T
  BY <1>1, <1>5
<1>9. ASSUME NEW k \in 1 .. n, k - 1 \in T PROVE k \in T
  <2>1. rows[k].passage \in P /\ Score(k) \in Nat
    BY DEF AreRows, ScoresAreNumbers
  <2>2. ResultsFit(p[k-1], P) /\ k \in 0 .. n
    BY <1>1, <1>9
  <2> HIDE DEF Score
  <2>3. ResultsFit(AddScore(p[k-1], rows[k].passage, Score(k)), P)
    BY <2>1, <2>2, AddScoreFits
  <2>4. QED BY <1>6, <2>2, <2>3
<1>10. 0 .. n \subseteq T
  <2> HIDE DEF T
  <2>1. QED BY <1>1, <1>8, <1>9, UpTo
<1>11. RowByRow(r, rows, weight, total, n, p)
  BY <1>5, <1>6 DEF RowByRow
<1>12. QED BY <1>1, <1>7, <1>10, <1>11 DEF RowsRun

(* A passage is scored by the row that names it, and by no other.           *)
LEMMA RowsMark ==
  ASSUME NEW P, Hashed(P), NEW r, ResultsFit(r, P), NEW n, NEW rows, AreRows(rows, n, P),
         NEW weight \in Nat, NEW total \in Nat,
         ScoresAreNumbers(rows, weight, total, n),
         NEW q, NEW s \in Nat, NEW m \in Nat, Marked(r.items, q, s, m)
  PROVE  LET now == Accumulate(r, rows, weight, total)
         IN  /\ ResultsFit(now, P)
             /\ \A k \in 1 .. n : rows[k].passage = q =>
                  Marked(now.items, q, s + RowScore(rows, weight, total, k), m + 1)
             /\ (\A k \in 1 .. n : rows[k].passage # q) => Marked(now.items, q, s, m)
<1> DEFINE Score(k) == RowScore(rows, weight, total, k)
<1>0. PICK p : RowsRun(r, rows, weight, total, n, P, p)
  BY AccumulateIs
<1>1. /\ RowByRow(r, rows, weight, total, n, p)
      /\ \A k \in 0 .. n : ResultsFit(p[k], P)
      /\ Accumulate(r, rows, weight, total) = p[n]
      /\ \A k \in 1 .. n : Score(k) \in Nat
  BY <1>0 DEF RowsRun, ScoresAreNumbers
<1>2. /\ n \in Nat /\ DOMAIN rows = 1 .. n
      /\ \A k \in 1 .. n : rows[k].passage \in P
      /\ \A j, k \in 1 .. n : rows[j].passage = rows[k].passage => j = k
  BY DEF AreRows
<1> DEFINE None(k) == \A i \in 1 .. n : i <= k => rows[i].passage # q
           T == {k \in 0 .. n :
                   /\ None(k) => Marked(p[k].items, q, s, m)
                   /\ \A i \in 1 .. n : i <= k /\ rows[i].passage = q =>
                        Marked(p[k].items, q, s + Score(i), m + 1)}
<1>3. 0 \in T
  BY <1>1, <1>2 DEF RowByRow
<1>4. ASSUME NEW k \in 1 .. n, k - 1 \in T PROVE k \in T
  <2>1. PICK old, new : old = p[k-1].items /\ new = p[k].items
    OBVIOUS
  <2>2. k \in 0 .. n /\ k - 1 \in 0 .. n
    BY <1>2
  <2>3. Listed(old, P) /\ rows[k].passage \in P /\ Score(k) \in Nat
    BY <1>1, <1>2, <2>1, <2>2 DEF ResultsFit
  <2>4. Scored(old, new, rows[k].passage, Score(k))
    <3>1. p[k] = AddScore(p[k-1], rows[k].passage, Score(k)) /\ ResultsFit(p[k-1], P)
      BY <1>1, <2>2 DEF RowByRow
    <3> HIDE DEF Score
    <3>2. QED BY <2>1, <2>3, <3>1, AddScoreFits
  <2>5. \A u, v \in Nat : Marked(old, q, u, v) =>
          IF q = rows[k].passage THEN Marked(new, q, u + Score(k), v + 1) ELSE Marked(new, q, u, v)
    <3> HIDE DEF Score
    <3>1. QED BY <2>3, <2>4, MarksChange
  <2>6. /\ None(k - 1) => Marked(old, q, s, m)
        /\ \A i \in 1 .. n : i <= k - 1 /\ rows[i].passage = q => Marked(old, q, s + Score(i), m + 1)
    BY <1>4, <2>1
  <2>7. ASSUME None(k) PROVE Marked(new, q, s, m)
    <3>1. None(k - 1) /\ rows[k].passage # q
      BY <1>2, <2>7
    <3>2. QED BY <2>5, <2>6, <3>1
  <2>8. ASSUME NEW i \in 1 .. n, i <= k, rows[i].passage = q
        PROVE  Marked(new, q, s + Score(i), m + 1)
    <3>1. CASE i = k
      <4>1. None(k - 1)
        BY <1>2, <2>8, <3>1
      <4>2. QED BY <2>5, <2>6, <2>8, <3>1, <4>1
    <3>2. CASE i # k
      <4>1. i <= k - 1 /\ rows[k].passage # q
        BY <1>2, <2>8, <3>2
      <4>2. Marked(old, q, s + Score(i), m + 1)
        BY <2>6, <2>8, <4>1
      <4>3. s + Score(i) \in Nat /\ m + 1 \in Nat
        <5>1. Score(i) \in Nat
          BY <1>1
        <5> HIDE DEF Score
        <5>2. QED BY <5>1
      <4> HIDE DEF Score
      <4>4. QED BY <2>5, <4>1, <4>2, <4>3
    <3>3. QED BY <3>1, <3>2
  <2>9. QED BY <2>1, <2>2, <2>7, <2>8
<1>5. n \in T
  <2> HIDE DEF T
  <2>1. 0 .. n \subseteq T
    BY <1>2, <1>3, <1>4, UpTo
  <2>2. QED BY <1>2, <2>1
<1>6. QED BY <1>1, <1>2, <1>5

-----------------------------------------------------------------------------
(* The cut to what the model may be given.                                  *)

LEMMA HeadIs ==
  ASSUME NEW X, NEW items \in Seq(X), NEW k \in 0 .. Len(items)
  PROVE  /\ SubSeq(items, 1, k) \in Seq(X) /\ Len(SubSeq(items, 1, k)) = k
         /\ DOMAIN SubSeq(items, 1, k) = 1 .. k
         /\ \A i \in 1 .. k : SubSeq(items, 1, k)[i] = items[i]
<1>1. PICK s : s = SubSeq(items, 1, k)
  OBVIOUS
<1>2. k \in Nat /\ Len(items) \in Nat /\ k <= Len(items)
  BY LenProperties
<1>3. CASE k = 0
  <2>1. s = <<>>
    BY <1>1, <1>3, SubSeqProperties
  <2>2. QED BY <1>1, <1>3, <2>1
<1>4. CASE k # 0
  <2>1. /\ 1 \in 1 .. Len(items) + 1 /\ k \in 1 - 1 .. Len(items)
    BY <1>2
  <2>2. /\ s \in Seq(X) /\ Len(s) = IF 1 <= k THEN k - 1 + 1 ELSE 0
        /\ \A i \in 1 .. k - 1 + 1 : s[i] = items[1 + i - 1]
    BY <1>1, <2>1, SubSeqProperties
  <2>3. Len(s) = k /\ \A i \in 1 .. k : s[i] = items[i]
    <3>1. \A i \in 1 .. k : i \in 1 .. k - 1 + 1 /\ 1 + i - 1 = i
      BY <1>2
    <3>2. QED BY <1>2, <1>4, <2>2, <3>1
  <2>4. QED BY <1>1, <2>2, <2>3, LenProperties
<1>5. QED BY <1>3, <1>4

HeadTokens(items, tokens, k) == SumTokens(SubSeq(items, 1, k), tokens)

LEMMA HeadTokensGrow ==
  ASSUME NEW X, NEW items \in Seq(X), NEW tokens,
         \A i \in 1 .. Len(items) : tokens[items[i].passage] \in Nat,
         NEW k \in 0 .. Len(items)
  PROVE  /\ HeadTokens(items, tokens, k) \in Nat
         /\ k > 0 => HeadTokens(items, tokens, k) =
                       HeadTokens(items, tokens, k - 1) + tokens[items[k].passage]
<1>1. Len(items) \in Nat /\ k \in Nat
  BY LenProperties
<1> DEFINE Weights(n) == [i \in 1 .. n |-> tokens[items[i].passage]]
<1>2. ASSUME NEW n \in 0 .. Len(items)
      PROVE  \E p : PartialSums(Weights(n), n, p) /\ HeadTokens(items, tokens, n) = p[n]
  <2>1. PICK s : s = SubSeq(items, 1, n)
    OBVIOUS
  <2>2. DOMAIN s = 1 .. n /\ \A i \in 1 .. n : s[i] = items[i]
    BY <2>1, HeadIs
  <2>3. n \in Nat /\ \A i \in 1 .. n : tokens[s[i].passage] \in Nat
    BY <1>1, <2>2
  <2>4. PICK p : /\ PartialSums([i \in 1 .. n |-> tokens[s[i].passage]], n, p)
                 /\ SumTokens(s, tokens) = p[n]
    BY <2>2, <2>3, SumTokensIs
  <2>5. [i \in 1 .. n |-> tokens[s[i].passage]] = Weights(n)
    BY <2>2
  <2>6. QED BY <2>1, <2>4, <2>5 DEF HeadTokens
<1>3. PICK p : PartialSums(Weights(k), k, p) /\ HeadTokens(items, tokens, k) = p[k]
  BY <1>2
<1>4. p[k] \in Nat
  BY <1>1, <1>3 DEF PartialSums
<1>5. ASSUME k > 0
      PROVE  HeadTokens(items, tokens, k) = HeadTokens(items, tokens, k - 1) + tokens[items[k].passage]
  <2>1. k - 1 \in 0 .. Len(items) /\ k - 1 \in Nat /\ k \in 1 .. k
    BY <1>1, <1>5
  <2>2. PICK q : PartialSums(Weights(k - 1), k - 1, q) /\ HeadTokens(items, tokens, k - 1) = q[k-1]
    BY <1>2, <2>1
  <2> DEFINE T == {j \in 0 .. k - 1 : p[j] = q[j]}
  <2>3. 0 \in T
    BY <1>3, <2>1, <2>2 DEF PartialSums
  <2>4. ASSUME NEW j \in 1 .. k - 1, j - 1 \in T PROVE j \in T
    <3>1. j \in 1 .. k /\ Weights(k)[j] = Weights(k-1)[j]
      BY <1>1
    <3>2. p[j] = p[j-1] + Weights(k)[j]
      BY <1>3, <3>1 DEF PartialSums
    <3>3. q[j] = q[j-1] + Weights(k-1)[j]
      BY <2>2 DEF PartialSums
    <3> HIDE DEF Weights
    <3>4. QED BY <2>1, <2>4, <3>1, <3>2, <3>3
  <2>5. k - 1 \in T
    <3> HIDE DEF T
    <3>1. 0 .. k - 1 \subseteq T
      BY <2>1, <2>3, <2>4, UpTo
    <3>2. QED BY <2>1, <3>1
  <2>6. p[k] = p[k-1] + Weights(k)[k]
    BY <1>3, <2>1 DEF PartialSums
  <2>7. QED BY <1>3, <2>1, <2>2, <2>5, <2>6
<1>6. QED BY <1>3, <1>4, <1>5

(* A part of 1 .. n that has the smaller numbers of each it has is 1 .. m.  *)
LEMMA HeadOfNumbers ==
  ASSUME NEW n \in Nat, NEW S \in SUBSET (1 .. n), \A k \in S : \A j \in 1 .. k : j \in S
  PROVE  \E m \in 0 .. n : S = 1 .. m /\ Cardinality(S) = m
<1>1. PICK m \in 0 .. n : S = 1 .. m
  <2> DEFINE T == (1 .. n) \ S
  <2>1. CASE T = {}
    <3>1. S = 1 .. n
      BY <2>1
    <3>2. QED BY <3>1
  <2>2. CASE T # {}
    <3>1. T \in SUBSET Nat
      OBVIOUS
    <3>2. PICK l \in T : \A y \in T : l <= y
      BY <2>2, <3>1, FirstNumber
    <3>3. l - 1 \in 0 .. n
      BY <3>2
    <3>4. \A j \in S : j \in 1 .. l - 1
      <4>1. ASSUME NEW j \in S, j >= l PROVE FALSE
        <5>1. l \in 1 .. j
          BY <3>2, <4>1
        <5>2. QED BY <3>2, <5>1
      <4>2. QED BY <4>1, <3>2
    <3>5. \A j \in 1 .. l - 1 : j \in S
      BY <3>2
    <3>6. S = 1 .. l - 1
      BY <3>4, <3>5
    <3>7. QED BY <3>3, <3>6
  <2>3. QED BY <2>1, <2>2
<1>2. Cardinality(1 .. m) = m
  <2>1. 1 \in Int /\ m \in Int /\ m >= 0
    OBVIOUS
  <2>2. Cardinality(1 .. m) = IF 1 > m THEN 0 ELSE m - 1 + 1
    BY <2>1, FS_Interval
  <2>3. QED BY <2>1, <2>2
<1>3. QED BY <1>1, <1>2

Floored(items, k) == items[k].score * FloorDen < items[1].score * FloorNum

(* What is left out is left out for a reason, and the best never is.        *)
TrimsTo(items, tokens, floored, m) ==
  /\ m \in 0 .. Len(items) /\ m <= MaxPassages
  /\ Trimmed(items, tokens, floored) = SubSeq(items, 1, m)
  /\ Len(items) > 0 => m > 0
  /\ m > 1 => HeadTokens(items, tokens, m) <= TokenBudget
  /\ m < Len(items) =>
       \/ m = MaxPassages
       \/ HeadTokens(items, tokens, m) + tokens[items[m+1].passage] > TokenBudget
       \/ floored /\ Floored(items, m + 1)

LEMMA TrimmedIs ==
  ASSUME NEW X, NEW items \in Seq(X), NEW tokens,
         \A i \in 1 .. Len(items) : tokens[items[i].passage] \in Nat,
         NEW floored \in BOOLEAN,
         floored => \A i \in 1 .. Len(items) : items[i].score \in Nat
  PROVE  \E m : TrimsTo(items, tokens, floored, m)
<1> DEFINE n == Len(items)
           Sum(k) == HeadTokens(items, tokens, k)
           Stays(k) == /\ k <= MaxPassages
                       /\ ~floored \/ items[k].score * FloorDen >= items[1].score * FloorNum
                       /\ k = 1 \/ Sum(k) <= TokenBudget
           stays == {k \in 1 .. n : \A j \in 1 .. k : Stays(j)}
<1>1. n \in Nat /\ DOMAIN items = 1 .. n
  BY LenProperties
<1>2. MaxPassages \in Nat \ {0} /\ FloorNum \in Nat /\ FloorDen \in Nat /\ FloorNum <= FloorDen
      /\ TokenBudget \in Nat
  BY RankingAssumption
<1>3. Trimmed(items, tokens, floored) = SubSeq(items, 1, Cardinality(stays))
  BY <1>1 DEF Trimmed, HeadTokens, SumTokens
<1>4. PICK m \in 0 .. n : stays = 1 .. m /\ Cardinality(stays) = m
  <2>1. stays \in SUBSET (1 .. n)
    OBVIOUS
  <2>2. \A k \in stays : \A j \in 1 .. k : j \in stays
    <3> HIDE DEF Stays
    <3>1. ASSUME NEW k \in stays, NEW j \in 1 .. k PROVE j \in stays
      <4>1. j \in 1 .. n /\ \A i \in 1 .. j : i \in 1 .. k
        BY <1>1
      <4>2. QED BY <4>1
    <3>2. QED BY <3>1
  <2> HIDE DEF stays, n
  <2>3. QED BY <1>1, <2>1, <2>2, HeadOfNumbers
<1>5. m \in Nat /\ \A j \in 1 .. m : Stays(j)
  <2> HIDE DEF Stays
  <2>1. m \in Nat /\ \A j \in 1 .. m : j \in stays /\ j \in 1 .. j
    BY <1>1, <1>4
  <2>2. QED BY <2>1
<1>6. n > 0 => Stays(1)
  <2>1. ASSUME n > 0 PROVE Stays(1)
    <3>1. 1 \in 1 .. n
      BY <1>1, <2>1
    <3>2. floored => items[1].score * FloorDen >= items[1].score * FloorNum
      <4>1. ASSUME floored PROVE items[1].score * FloorDen >= items[1].score * FloorNum
        <5>1. PICK s \in Nat : s = items[1].score
          BY <3>1, <4>1
        <5>2. s * FloorDen >= s * FloorNum
          BY <1>2
        <5>3. QED BY <5>1, <5>2
      <4>2. QED BY <4>1
    <3>3. QED BY <1>2, <3>2
  <2>2. QED BY <2>1
<1>7. n > 0 => m > 0
  <2>1. ASSUME n > 0 PROVE 1 \in stays
    <3> HIDE DEF Stays
    <3>1. 1 \in 1 .. n /\ \A j \in 1 .. 1 : j = 1
      BY <1>1, <2>1
    <3>2. QED BY <1>6, <2>1, <3>1
  <2>2. QED BY <1>4, <1>5, <2>1
<1>8. m <= MaxPassages
  <2>1. CASE m = 0
    BY <1>2, <2>1
  <2>2. CASE m # 0
    <3>1. m \in 1 .. m
      BY <1>5, <2>2
    <3>2. QED BY <1>5, <3>1
  <2>3. QED BY <2>1, <2>2
<1>9. m > 1 => Sum(m) <= TokenBudget
  <2>1. ASSUME m > 1 PROVE Sum(m) <= TokenBudget
    <3>1. m \in 1 .. m /\ m # 1
      BY <1>5, <2>1
    <3>2. QED BY <1>5, <3>1
  <2>2. QED BY <2>1
<1>10. ASSUME m < n
       PROVE  \/ m = MaxPassages
              \/ Sum(m) + tokens[items[m+1].passage] > TokenBudget
              \/ floored /\ Floored(items, m + 1)
  <2>1. m > 0 /\ m + 1 \in 1 .. n /\ m + 1 \in 0 .. n /\ m + 1 > 1 /\ m + 1 - 1 = m
    BY <1>1, <1>5, <1>7, <1>10
  <2>2. ~Stays(m + 1)
    <3> HIDE DEF Stays
    <3>1. SUFFICES ASSUME Stays(m + 1) PROVE FALSE
      OBVIOUS
    <3>2. \A j \in 1 .. m + 1 : j \in 1 .. m \/ j = m + 1
      BY <1>5
    <3>3. m + 1 \in stays
      BY <1>5, <2>1, <3>1, <3>2
    <3>4. QED BY <1>4, <1>5, <3>3
  <2>3. Sum(m + 1) = Sum(m) + tokens[items[m+1].passage] /\ Sum(m + 1) \in Nat
    <3> HIDE DEF stays
    <3>1. \A k \in 0 .. n : k > 0 => Sum(k) = Sum(k - 1) + tokens[items[k].passage]
      BY HeadTokensGrow
    <3>2. Sum(m + 1) \in Nat
      BY <2>1, HeadTokensGrow
    <3>3. QED BY <2>1, <3>1, <3>2
  <2>4. CASE ~ (m + 1 <= MaxPassages)
    BY <1>2, <1>5, <1>8, <2>4
  <2>5. CASE floored /\ ~ (items[m+1].score * FloorDen >= items[1].score * FloorNum)
    <3>1. items[m+1].score \in Nat /\ items[1].score \in Nat
      BY <1>1, <2>1, <2>5
    <3>2. PICK a, b \in Nat : a = items[m+1].score * FloorDen /\ b = items[1].score * FloorNum
      BY SMTT(30), <1>2, <3>1
    <3>3. a < b
      BY <2>5, <3>2
    <3>4. QED BY <2>5, <3>2, <3>3 DEF Floored
  <2>6. CASE ~ (Sum(m + 1) <= TokenBudget)
    <3> HIDE DEF Sum
    <3>1. Sum(m + 1) > TokenBudget
      BY <1>2, <2>3, <2>6
    <3>2. QED BY <2>3, <3>1
  <2>7. QED BY <2>1, <2>2, <2>4, <2>5, <2>6
<1>11. Trimmed(items, tokens, floored) = SubSeq(items, 1, m)
  BY <1>3, <1>4
<1>12. TrimsTo(items, tokens, floored, m)
  <2> HIDE DEF stays, Stays
  <2>1. QED BY <1>7, <1>8, <1>9, <1>10, <1>11 DEF TrimsTo
<1>13. QED BY <1>12

-----------------------------------------------------------------------------
(* Lists of scored passages.                                                *)

ScoredList(items, n) ==
  /\ n \in Nat /\ items \in [1 .. n -> Item]
  /\ \A i, j \in 1 .. n : items[i].passage = items[j].passage => i = j

LEMMA ElementsCount ==
  ASSUME NEW n, NEW items, ScoredList(items, n)
  PROVE  /\ IsFiniteSet(ToSet(items)) /\ Cardinality(ToSet(items)) = n
         /\ Distinguished(ToSet(items)) /\ ToSet(items) \subseteq Item
         /\ \A x \in ToSet(items) : \E i \in 1 .. n : x = items[i]
         /\ \A i \in 1 .. n : items[i] \in ToSet(items)
<1>1. /\ n \in Nat /\ items \in [1 .. n -> Item] /\ DOMAIN items = 1 .. n
      /\ \A i, j \in 1 .. n : items[i].passage = items[j].passage => i = j
  BY DEF ScoredList
<1>2. PICK T : T = ToSet(items)
  OBVIOUS
<1>3. /\ \A x \in T : \E i \in 1 .. n : x = items[i]
      /\ \A i \in 1 .. n : items[i] \in T
  BY <1>1, <1>2 DEF ToSet
<1>4. IsFiniteSet(1 .. n) /\ Cardinality(1 .. n) = n
  BY <1>1, FS_Interval
<1>5. items \in Bijection(1 .. n, T)
  <2>1. items \in [1 .. n -> T]
    BY <1>1, <1>3
  <2>2. items \in Injection(1 .. n, T)
    BY <1>1, <2>1 DEF Injection, IsInjective
  <2>3. items \in Surjection(1 .. n, T)
    BY <1>3, <2>1 DEF Surjection
  <2>4. QED BY <2>2, <2>3 DEF Bijection
<1>6. IsFiniteSet(T) /\ Cardinality(T) = n
  <2>1. ExistsBijection(1 .. n, T)
    BY <1>5 DEF ExistsBijection
  <2>2. QED BY <1>4, <2>1, FS_Bijection
<1>7. \A x \in T : x \in Item
  BY <1>1, <1>3
<1>8. \A x, y \in T : x.passage = y.passage => x = y
  <2>1. ASSUME NEW x \in T, NEW y \in T, x.passage = y.passage PROVE x = y
    <3>1. PICK i, j \in 1 .. n : x = items[i] /\ y = items[j]
      BY <1>3
    <3>2. QED BY <1>1, <2>1, <3>1
  <2>2. QED BY <2>1
<1>9. \A x \in T : x.score \in Int /\ x.passage \in Nat
  BY <1>7 DEF Item
<1>10. Distinguished(T)
  BY <1>8, <1>9 DEF Distinguished
<1>11. QED BY <1>2, <1>3, <1>6, <1>7, <1>10

(* s lists the elements of items in their order.                            *)
SortedFrom(s, items, n) ==
  /\ ScoredList(s, n)
  /\ \A i \in 1 .. n : \E k \in 1 .. n : s[k] = items[i]
  /\ \A k \in 1 .. n : \E i \in 1 .. n : s[k] = items[i]
  /\ \A j, k \in 1 .. n : j < k => Ahead(s[j], s[k])

LEMMA NotAheadOfItself ==
  ASSUME NEW x, x.score \in Int, x.passage \in Nat
  PROVE  ~Ahead(x, x)
  BY DEF Ahead

LEMMA SortedFromIs ==
  ASSUME NEW n, NEW items, ScoredList(items, n)
  PROVE  SortedFrom(Sorted(items), items, n)
<1>1. PICK T : T = ToSet(items)
  OBVIOUS
<1>2. /\ IsFiniteSet(T) /\ Cardinality(T) = n /\ Distinguished(T) /\ T \subseteq Item
      /\ \A x \in T : \E i \in 1 .. n : x = items[i]
      /\ \A i \in 1 .. n : items[i] \in T
  BY <1>1, ElementsCount
<1>3. PICK s : s = Sorted(items)
  OBVIOUS
<1>4. /\ n \in Nat /\ s \in [1 .. n -> T]
      /\ \A x \in T : \E k \in 1 .. n : s[k] = x
      /\ \A j, k \in 1 .. n : j < k => Ahead(s[j], s[k])
  BY <1>1, <1>2, <1>3, SortedIs
<1>5. \A k \in 1 .. n : s[k] \in T /\ s[k] \in Item /\ s[k].score \in Int /\ s[k].passage \in Nat
  BY <1>2, <1>4 DEF Item
<1>6. ASSUME NEW j \in 1 .. n, NEW k \in 1 .. n, s[j].passage = s[k].passage PROVE j = k
  <2>1. s[j] = s[k]
    BY <1>2, <1>5, <1>6 DEF Distinguished
  <2>2. ~Ahead(s[j], s[k]) /\ ~Ahead(s[k], s[j])
    BY <1>5, <2>1, NotAheadOfItself
  <2>3. ~ (j < k) /\ ~ (k < j) /\ j \in Nat /\ k \in Nat
    BY <1>4, <2>2
  <2>4. QED BY <2>3
<1>7. ScoredList(s, n)
  BY <1>4, <1>5, <1>6 DEF ScoredList
<1>8. SortedFrom(s, items, n)
  BY <1>2, <1>4, <1>5, <1>7 DEF SortedFrom
<1>9. QED BY <1>3, <1>8

-----------------------------------------------------------------------------
(* The bonus for several terms, the order and the ceiling.                  *)

Final(item, terms) ==
  IF terms < 2 THEN item.score
  ELSE item.score * (terms - 1 + CoordBonus * (item.matched - 1))

LEMMA CoordinationIs ==
  ASSUME NEW n, NEW items, ScoredList(items, n), NEW terms \in Nat
  PROVE  /\ ScoredList(WithCoordination(items, terms), n)
         /\ \A i \in 1 .. n :
              /\ WithCoordination(items, terms)[i].passage = items[i].passage
              /\ WithCoordination(items, terms)[i].score = Final(items[i], terms)
<1>1. /\ n \in Nat /\ items \in [1 .. n -> Item] /\ DOMAIN items = 1 .. n
      /\ \A i, j \in 1 .. n : items[i].passage = items[j].passage => i = j
  BY DEF ScoredList
<1>2. CASE terms < 2
  BY <1>2 DEF WithCoordination, Final
<1>3. CASE ~ (terms < 2)
  <2>1. PICK new : new = WithCoordination(items, terms)
    OBVIOUS
  <2>2. new = [i \in 1 .. n |->
                 [items[i] EXCEPT !.score = @ * (terms - 1 + CoordBonus * (items[i].matched - 1))]]
    BY <1>1, <1>3, <2>1 DEF WithCoordination
  <2>3. ASSUME NEW i \in 1 .. n
        PROVE  /\ new[i] \in Item /\ new[i].passage = items[i].passage
               /\ new[i].score = Final(items[i], terms)
    <3>1. PICK s \in Nat, m \in Nat \ {0}, p \in Nat :
            items[i] = [passage |-> p, score |-> s, matched |-> m]
      BY <1>1 DEF Item
    <3>2. PICK f \in Nat : f = terms - 1 + CoordBonus * (m - 1)
      <4>1. CoordBonus \in Nat /\ terms - 1 \in Nat /\ m - 1 \in Nat
        BY <1>3, RankingAssumption
      <4>2. CoordBonus * (m - 1) \in Nat
        BY <4>1
      <4>3. terms - 1 + CoordBonus * (m - 1) \in Nat
        BY <4>1, <4>2
      <4>4. QED BY <4>3
    <3>3. s * f \in Nat
      OBVIOUS
    <3>4. new[i] = [passage |-> p, score |-> s * f, matched |-> m]
      BY SMTT(30), <2>2, <3>1, <3>2
    <3>5. Final(items[i], terms) = s * f
      BY <1>3, <3>1, <3>2 DEF Final
    <3>6. QED BY <3>1, <3>3, <3>4, <3>5 DEF Item
  <2>4. new \in [1 .. n -> Item]
    BY <2>2, <2>3
  <2>5. QED BY <1>1, <2>1, <2>3, <2>4 DEF ScoredList
<1>4. QED BY <1>2, <1>3

(* What ranking makes of a list: the best of it, as many as may be kept.    *)
RanksFrom(all, items, terms, n, m) ==
  /\ ScoredList(all, m) /\ all \in Seq(Item) /\ Len(all) = m /\ m <= CandidateCeiling
  /\ \A j, k \in 1 .. m : j < k => Ahead(all[j], all[k])
  /\ \A k \in 1 .. m : \E i \in 1 .. n : /\ all[k].passage = items[i].passage
                                          /\ all[k].score = Final(items[i], terms)
  /\ \A i \in 1 .. n :
       \/ \E k \in 1 .. m : all[k].passage = items[i].passage
       \/ /\ m = CandidateCeiling
          /\ \A k \in 1 .. m :
               Ahead(all[k], [passage |-> items[i].passage, score |-> Final(items[i], terms)])

LEMMA RankedIs ==
  ASSUME NEW n, NEW items, ScoredList(items, n), NEW terms \in Nat
  PROVE  \E m : RanksFrom(Ranked(items, terms), items, terms, n, m)
<1>1. PICK new : new = WithCoordination(items, terms)
  OBVIOUS
<1>2. /\ ScoredList(new, n)
      /\ \A i \in 1 .. n : /\ new[i].passage = items[i].passage
                           /\ new[i].score = Final(items[i], terms)
  BY <1>1, CoordinationIs
<1>3. PICK s : s = Sorted(new)
  OBVIOUS
<1>4. SortedFrom(s, new, n)
  BY <1>2, <1>3, SortedFromIs
<1>5. /\ n \in Nat /\ s \in [1 .. n -> Item]
      /\ \A i, j \in 1 .. n : s[i].passage = s[j].passage => i = j
      /\ \A i \in 1 .. n : \E k \in 1 .. n : s[k] = new[i]
      /\ \A k \in 1 .. n : \E i \in 1 .. n : s[k] = new[i]
      /\ \A j, k \in 1 .. n : j < k => Ahead(s[j], s[k])
  BY <1>4 DEF SortedFrom, ScoredList
<1>6. s \in Seq(Item) /\ Len(s) = n
  <2>1. s \in Seq(Item)
    BY <1>5, SeqDef
  <2>2. QED BY <1>5, <2>1, LenProperties
<1>7. PICK m \in 0 .. n : /\ m = Min({Len(s), CandidateCeiling}) /\ m <= CandidateCeiling
                          /\ (m = n \/ m = CandidateCeiling)
  <2>1. CandidateCeiling \in Nat
    BY RankingAssumption
  <2>2. PICK S \in SUBSET Nat : S = {n, CandidateCeiling}
    BY <1>5, <2>1
  <2>3. Min(S) \in S /\ \A y \in S : Min(S) <= y
    <3>1. S # {}
      BY <2>2
    <3>2. QED BY <3>1, FirstNumber
  <2>4. PICK l \in Nat : l = Min(S) /\ l <= n /\ l <= CandidateCeiling /\ (l = n \/ l = CandidateCeiling)
    BY <2>2, <2>3
  <2>5. QED BY <1>5, <1>6, <2>2, <2>4
<1>8. PICK all : all = SubSeq(s, 1, m)
  OBVIOUS
<1>9. Ranked(items, terms) = all
  BY <1>1, <1>3, <1>7, <1>8 DEF Ranked, TopK
<1>10. /\ all \in Seq(Item) /\ Len(all) = m /\ DOMAIN all = 1 .. m
       /\ \A k \in 1 .. m : all[k] = s[k] /\ k \in 1 .. n
  <2>1. m \in 0 .. Len(s)
    BY <1>6
  <2>2. QED BY <1>6, <1>8, <2>1, HeadIs
<1>11. m \in Nat /\ ScoredList(all, m)
  <2>1. \A k \in 1 .. m : all[k] \in Item
    BY <1>5, <1>10
  <2>2. all \in [1 .. m -> Item]
    BY <1>10, <2>1, LenProperties, SeqDef
  <2>3. ASSUME NEW i \in 1 .. m, NEW j \in 1 .. m, all[i].passage = all[j].passage PROVE i = j
    <3>1. i \in 1 .. n /\ j \in 1 .. n /\ s[i].passage = s[j].passage
      BY <1>10, <2>3
    <3>2. QED BY <1>5, <3>1
  <2>4. m \in Nat
    BY <1>5
  <2>5. QED BY <2>2, <2>3, <2>4 DEF ScoredList
<1>12. \A j, k \in 1 .. m : j < k => Ahead(all[j], all[k])
  BY <1>5, <1>10
<1>13. \A k \in 1 .. m : \E i \in 1 .. n : /\ all[k].passage = items[i].passage
                                           /\ all[k].score = Final(items[i], terms)
  <2>1. ASSUME NEW k \in 1 .. m
        PROVE  \E i \in 1 .. n : /\ all[k].passage = items[i].passage
                                /\ all[k].score = Final(items[i], terms)
    <3>1. k \in 1 .. n /\ all[k] = s[k]
      BY <1>10
    <3>2. PICK i \in 1 .. n : s[k] = new[i]
      BY <1>5, <3>1
    <3>3. QED BY <1>2, <3>1, <3>2
  <2>2. QED BY <2>1
<1>14. ASSUME NEW i \in 1 .. n, \A k \in 1 .. m : all[k].passage # items[i].passage
       PROVE  /\ m = CandidateCeiling
              /\ \A k \in 1 .. m :
                   Ahead(all[k], [passage |-> items[i].passage, score |-> Final(items[i], terms)])
  <2>1. PICK l \in 1 .. n : s[l] = new[i]
    BY <1>5
  <2>2. s[l].passage = items[i].passage /\ s[l].score = Final(items[i], terms)
    BY <1>2, <2>1
  <2>3. ~ (l \in 1 .. m)
    BY <1>10, <1>14, <2>2
  <2>4. m < l /\ m < n
    BY <1>5, <1>11, <2>3
  <2>5. \A k \in 1 .. m : Ahead(all[k], s[l])
    BY <1>5, <1>10, <1>11, <2>4
  <2>6. \A k \in 1 .. m : Ahead(all[k], [passage |-> items[i].passage, score |-> Final(items[i], terms)])
    BY <2>2, <2>5 DEF Ahead
  <2>7. m = CandidateCeiling
    <3>1. m = n \/ m = CandidateCeiling
      BY <1>7
    <3>2. m # n
      BY <1>5, <1>11, <2>4
    <3>3. QED BY <3>1, <3>2
  <2>8. QED BY <2>6, <2>7
<1>15. RanksFrom(all, items, terms, n, m)
  BY <1>7, <1>10, <1>11, <1>12, <1>13, <1>14 DEF RanksFrom
<1>16. QED BY <1>9, <1>15

-----------------------------------------------------------------------------
(* The reranker's order.                                                    *)

LEMMA RankPartIs ==
  ASSUME NEW r \in Nat
  PROVE  RankPart(r) \in Nat
<1>1. RrfScale \in Nat /\ RrfK + r \in Nat \ {0}
  BY RankingAssumption
<1>2. RrfScale \div (RrfK + r) \in Nat
  BY <1>1, PartsFit
<1>3. QED BY <1>2 DEF RankPart

(* A passage with the score of its places in the two orders.                *)
Placed(items, closest, i) ==
  IF Len(items) < 2 THEN items[i]
  ELSE [items[i] EXCEPT !.score = RankPart(i) + RankPart(CHOOSE r \in DOMAIN closest : closest[r] = i)]

(* new lists the passages with those scores, in the order of the scores.    *)
IsRescored(new, items, closest, n) ==
  /\ ScoredList(new, n)
  /\ \A j, k \in 1 .. n : j < k => Ahead(new[j], new[k])
  /\ \A k \in 1 .. n : \E i \in 1 .. n : new[k].passage = items[i].passage
  /\ \A k \in 1 .. n : \E i \in 1 .. n : new[k] = Placed(items, closest, i)
  /\ \A i \in 1 .. n : \E k \in 1 .. n : new[k] = Placed(items, closest, i)

LEMMA RescoredIs ==
  ASSUME NEW n, NEW items, ScoredList(items, n), Len(items) = n,
         \A j, k \in 1 .. n : j < k => Ahead(items[j], items[k]),
         NEW closest \in SetToSeqs(1 .. n)
  PROVE  IsRescored(Rescored(items, closest), items, closest, n)
<1>1. n \in Nat /\ items \in [1 .. n -> Item] /\ DOMAIN items = 1 .. n
      /\ \A i, j \in 1 .. n : items[i].passage = items[j].passage => i = j
  BY DEF ScoredList
<1>2. CASE n < 2
  <2>1. /\ Rescored(items, closest) = items
        /\ \A i \in 1 .. n : Placed(items, closest, i) = items[i]
    BY <1>2 DEF Rescored, Placed
  <2>2. QED BY <2>1 DEF IsRescored
<1>3. CASE ~ (n < 2)
  <2>1. IsFiniteSet(1 .. n) /\ Cardinality(1 .. n) = n
    BY <1>1, FS_Interval
  <2>2. closest \in [1 .. n -> 1 .. n] /\ \A i, j \in 1 .. n : i # j => closest[i] # closest[j]
    BY <2>1 DEF SetToSeqs
  <2>3. \A i \in 1 .. n : \E r \in 1 .. n : closest[r] = i
    <3>1. closest \in Injection(1 .. n, 1 .. n)
      BY <2>2 DEF Injection, IsInjective
    <3>2. closest \in Surjection(1 .. n, 1 .. n)
      BY <2>1, <3>1, FS_Injection
    <3>3. QED BY <3>2 DEF Surjection
  <2> DEFINE Nearness(i) == CHOOSE r \in DOMAIN closest : closest[r] = i
             new == [i \in DOMAIN items |->
                       [items[i] EXCEPT !.score = RankPart(i) + RankPart(Nearness(i))]]
  <2>4. ASSUME NEW i \in 1 .. n
        PROVE  new[i] \in Item /\ new[i].passage = items[i].passage
    <3>1. Nearness(i) \in 1 .. n
      BY <2>2, <2>3
    <3>2. PICK x \in Nat : x = RankPart(i) + RankPart(Nearness(i))
      <4> HIDE DEF Nearness
      <4>1. RankPart(i) \in Nat /\ RankPart(Nearness(i)) \in Nat
        BY <1>1, <3>1, RankPartIs
      <4>2. QED BY <4>1
    <3> HIDE DEF Nearness
    <3>3. new[i] = [items[i] EXCEPT !.score = x]
      BY <1>1, <3>2
    <3>4. items[i] \in Item
      BY <1>1
    <3>5. QED BY <3>3, <3>4 DEF Item
  <2>5. new \in [1 .. n -> Item]
    <3>1. DOMAIN new = 1 .. n /\ new = [i \in 1 .. n |-> new[i]]
      BY <1>1
    <3> HIDE DEF new
    <3>2. QED BY <2>4, <3>1
  <2>6. Rescored(items, closest) = Sorted(new)
    BY <1>3 DEF Rescored
  <2>7. \A i \in 1 .. n : new[i] = Placed(items, closest, i)
    BY <1>1, <1>3 DEF Placed
  <2> HIDE DEF new
  <2>8. ScoredList(new, n)
    BY <1>1, <2>4, <2>5 DEF ScoredList
  <2>9. SortedFrom(Sorted(new), new, n)
    BY <2>8, SortedFromIs
  <2>10. \A k \in 1 .. n : \E i \in 1 .. n : Sorted(new)[k].passage = items[i].passage
    <3>1. \A i \in 1 .. n : new[i].passage = items[i].passage
      BY <2>4
    <3>2. ASSUME NEW k \in 1 .. n
          PROVE  \E i \in 1 .. n : Sorted(new)[k].passage = items[i].passage
      <4>1. PICK i \in 1 .. n : Sorted(new)[k] = new[i]
        BY <2>9 DEF SortedFrom
      <4>2. QED BY <3>1, <4>1
    <3>3. QED BY <3>2
  <2>11. \A k \in 1 .. n : \E i \in 1 .. n : Sorted(new)[k] = Placed(items, closest, i)
    <3>1. ASSUME NEW k \in 1 .. n
          PROVE  \E i \in 1 .. n : Sorted(new)[k] = Placed(items, closest, i)
      <4>1. PICK i \in 1 .. n : Sorted(new)[k] = new[i]
        BY <2>9 DEF SortedFrom
      <4>2. QED BY <2>7, <4>1
    <3>2. QED BY <3>1
  <2>12. \A i \in 1 .. n : \E k \in 1 .. n : Sorted(new)[k] = Placed(items, closest, i)
    <3>1. ASSUME NEW i \in 1 .. n
          PROVE  \E k \in 1 .. n : Sorted(new)[k] = Placed(items, closest, i)
      <4>1. PICK k \in 1 .. n : Sorted(new)[k] = new[i]
        BY <2>9 DEF SortedFrom
      <4>2. QED BY <2>7, <4>1
    <3>2. QED BY <3>1
  <2>13. QED BY <2>6, <2>9, <2>10, <2>11, <2>12 DEF SortedFrom, IsRescored
<1>4. QED BY <1>2, <1>3

-----------------------------------------------------------------------------
(* Lists of words. *)

Once(words) == \A i, j \in DOMAIN words : words[i] = words[j] => i = j

LEMMA SeqIs ==
  ASSUME NEW X, NEW s \in Seq(X)
  PROVE  Len(s) \in Nat /\ DOMAIN s = 1 .. Len(s) /\ \A i \in 1 .. Len(s) : s[i] \in X
  BY LenProperties, ElementOfSeq

LEMMA AppendIs ==
  ASSUME NEW X, NEW s \in Seq(X), NEW w \in X
  PROVE  /\ Append(s, w) \in Seq(X) /\ Len(Append(s, w)) = Len(s) + 1
         /\ DOMAIN Append(s, w) = 1 .. Len(s) + 1
         /\ Append(s, w)[Len(s) + 1] = w
         /\ \A i \in 1 .. Len(s) : Append(s, w)[i] = s[i]
<1>1. Len(s) \in Nat
  BY SeqIs
<1>2. /\ Append(s, w) \in Seq(X) /\ Len(Append(s, w)) = Len(s) + 1
      /\ Append(s, w)[Len(s) + 1] = w
      /\ \A i \in 1 .. Len(s) : Append(s, w)[i] = s[i]
  BY AppendProperties
<1>3. QED BY <1>2, LenProperties

(* What one more word does to the words kept.                               *)
Kept(kept, w) == IF \E i \in DOMAIN kept : kept[i] = w THEN kept ELSE Append(kept, w)

LEMMA KeptIs ==
  ASSUME NEW X, NEW kept \in Seq(X), NEW w \in X
  PROVE  /\ Kept(kept, w) \in Seq(X)
         /\ Once(kept) => Once(Kept(kept, w))
         /\ ToSet(Kept(kept, w)) = ToSet(kept) \union {w}
         /\ (\A i \in 1 .. Len(kept) : kept[i] # w) => Kept(kept, w) = Append(kept, w)
<1>1. PICK n \in Nat : n = Len(kept) /\ DOMAIN kept = 1 .. n
  BY SeqIs
<1>2. CASE \E i \in DOMAIN kept : kept[i] = w
  <2>1. Kept(kept, w) = kept
    BY <1>2 DEF Kept
  <2>2. w \in ToSet(kept)
    BY <1>2 DEF ToSet
  <2>3. QED BY <1>1, <1>2, <2>1, <2>2
<1>3. CASE ~ \E i \in DOMAIN kept : kept[i] = w
  <2>1. PICK new : new = Append(kept, w)
    OBVIOUS
  <2>2. Kept(kept, w) = new
    BY <1>3, <2>1 DEF Kept
  <2>3. new \in Seq(X) /\ DOMAIN new = 1 .. n + 1 /\ new[n+1] = w /\ \A i \in 1 .. n : new[i] = kept[i]
    BY <1>1, <2>1, AppendIs
  <2>4. \A i \in 1 .. n + 1 : i \in 1 .. n \/ i = n + 1
    OBVIOUS
  <2>5. n + 1 \in 1 .. n + 1 /\ \A i \in 1 .. n : i \in 1 .. n + 1
    OBVIOUS
  <2>6. Once(kept) => Once(new)
    BY <1>1, <1>3, <2>3, <2>4 DEF Once
  <2>7. ToSet(new) = ToSet(kept) \union {w}
    <3>1. ToSet(new) = {new[i] : i \in 1 .. n + 1} /\ ToSet(kept) = {kept[i] : i \in 1 .. n}
      BY <1>1, <2>3 DEF ToSet
    <3>2. QED BY <2>3, <2>4, <2>5, <3>1
  <2>8. QED BY <2>1, <2>2, <2>3, <2>6, <2>7
<1>4. QED BY <1>2, <1>3

(* p[k]: the words kept of the first k.                                     *)
WordByWord(words, p) ==
  /\ p[0] = <<>>
  /\ \A k \in 1 .. Len(words) : p[k] = Kept(p[k-1], words[k])

LEMMA DistinctSteps ==
  ASSUME NEW X, NEW words \in Seq(X)
  PROVE  \E p : WordByWord(words, p) /\ Distinct(words) = p[Len(words)]
<1> DEFINE n == Len(words)
           A == Seq(X)
           Step(h) == [s \in SUBSET DOMAIN words |->
                         IF s = {} THEN <<>> ELSE Kept(h[s \ {Max(s)}], words[Max(s)])]
           h == CHOOSE h : h = Step(h)
           f == [i \in 1 .. n |-> [a \in A |-> Kept(a, words[i])]]
<1>1. n \in Nat /\ DOMAIN words = 1 .. n /\ \A i \in 1 .. n : words[i] \in X
  BY SeqIs
<1>2. Distinct(words) = h[1 .. n]
  BY <1>1 DEF Distinct, FoldLeft, MapThenFoldSet, Kept
<1>3. f \in [1 .. n -> [A -> A]]
  BY <1>1, KeptIs
<1>4. \E g : g = Step(g)
  <2>1. PICK g \in [SUBSET (1 .. n) -> A] : FoldsTo(f, <<>>, Latest(n), 1 .. n, g)
    <3>1. <<>> \in A
      OBVIOUS
    <3> HIDE DEF f, A, n
    <3>2. QED BY <1>1, <1>3, <3>1, FoldInOrder
  <2>2. ASSUME NEW s \in SUBSET (1 .. n) PROVE g[s] = Step(g)[s]
    <3>1. CASE s = {}
      BY <1>1, <2>1, <3>1 DEF FoldsTo
    <3>2. CASE s # {}
      <4>1. PICK i \in 1 .. n : i = Max(s) /\ Latest(n)[s] = i
        BY <1>1, <3>2, LastOfSome DEF Latest
      <4>2. PICK t \in SUBSET (1 .. n) : t = s \ {i}
        OBVIOUS
      <4>3. g[s] = f[i][g[t]]
        BY <2>1, <3>2, <4>1, <4>2 DEF FoldsTo
      <4>4. g[t] \in A
        OBVIOUS
      <4>5. f[i][g[t]] = Kept(g[t], words[i])
        <5> HIDE DEF A
        <5>1. QED BY <4>4
      <4>6. Step(g)[s] = Kept(g[t], words[i])
        BY <1>1, <3>2, <4>1, <4>2
      <4>7. QED BY <4>3, <4>5, <4>6
    <3>3. QED BY <3>1, <3>2
  <2>3. g = Step(g)
    BY <1>1, <2>2
  <2>4. QED BY <2>3
<1>5. h = Step(h)
  BY <1>4
<1> HIDE DEF h
<1> DEFINE p == [k \in 0 .. n |-> h[1 .. k]]
<1>6. p[0] = <<>>
  BY <1>1, <1>5
<1>7. ASSUME NEW k \in 1 .. n PROVE p[k] = Kept(p[k-1], words[k])
  <2>1. Max(1 .. k) = k /\ (1 .. k) \ {k} = 1 .. k - 1 /\ 1 .. k # {}
    <3>1. k \in Nat \ {0}
      BY <1>1
    <3>2. QED BY <3>1, LastOfMany
  <2>2. 1 .. k \in SUBSET (1 .. n) /\ k - 1 \in 0 .. n /\ k \in 0 .. n
    BY <1>1
  <2>3. h[1 .. k] = Kept(h[1 .. k - 1], words[k])
    BY <1>1, <1>5, <2>1, <2>2
  <2>4. QED BY <2>2, <2>3
<1>8. p[n] = h[1 .. n]
  BY <1>1
<1> HIDE DEF p
<1>9. WordByWord(words, p)
  BY <1>6, <1>7 DEF WordByWord
<1>10. QED BY <1>2, <1>8, <1>9

(* s holds, each once, the words of the first k.                            *)
KeptSoFar(words, X, s, k) ==
  /\ s \in Seq(X) /\ Once(s)
  /\ ToSet(s) = {words[i] : i \in 1 .. k}
  /\ Once(words) => s = SubSeq(words, 1, k)

LEMMA KeptOneMore ==
  ASSUME NEW X, NEW words \in Seq(X), NEW k \in 1 .. Len(words),
         NEW s, KeptSoFar(words, X, s, k - 1)
  PROVE  KeptSoFar(words, X, Kept(s, words[k]), k)
<1>1. PICK n \in Nat : n = Len(words) /\ DOMAIN words = 1 .. n /\ \A i \in 1 .. n : words[i] \in X
  BY SeqIs
<1>2. /\ s \in Seq(X) /\ Once(s)
      /\ ToSet(s) = {words[i] : i \in 1 .. k - 1}
      /\ Once(words) => s = SubSeq(words, 1, k - 1)
  BY DEF KeptSoFar
<1>3. k \in Nat /\ k - 1 \in 0 .. n /\ k \in 0 .. n /\ k \in 1 .. n
  BY <1>1
<1>4. PICK w \in X : w = words[k]
  BY <1>1, <1>3
<1>5. PICK new : new = Kept(s, w)
  OBVIOUS
<1>6. new \in Seq(X) /\ Once(new) /\ ToSet(new) = ToSet(s) \union {w}
  <2>1. s \in Seq(X) /\ w \in X /\ Once(s)
    BY <1>2
  <2>2. /\ Kept(s, w) \in Seq(X) /\ (Once(s) => Once(Kept(s, w)))
        /\ ToSet(Kept(s, w)) = ToSet(s) \union {w}
    BY <2>1, KeptIs
  <2>3. QED BY <1>5, <2>1, <2>2
<1>7. ToSet(new) = {words[i] : i \in 1 .. k}
  <2>1. \A i \in 1 .. k : i \in 1 .. k - 1 \/ i = k
    BY <1>3
  <2>2. k \in 1 .. k /\ \A i \in 1 .. k - 1 : i \in 1 .. k
    BY <1>3
  <2>3. QED BY <1>2, <1>4, <1>6, <2>1, <2>2
<1>8. ASSUME Once(words) PROVE new = SubSeq(words, 1, k)
  <2>1. s \in Seq(X) /\ Len(s) = k - 1 /\ \A i \in 1 .. k - 1 : s[i] = words[i]
    BY <1>1, <1>2, <1>3, <1>8, HeadIs
  <2>2. PICK b \in Seq(X) : b = SubSeq(words, 1, k) /\ Len(b) = k /\ \A i \in 1 .. k : b[i] = words[i]
    BY ZenonT(60), <1>1, <1>3, HeadIs
  <2>3. ASSUME NEW i \in 1 .. k - 1, s[i] = w PROVE FALSE
    <3>1. i \in 1 .. n /\ i # k /\ words[i] = words[k]
      BY <1>3, <1>4, <2>1, <2>3
    <3>2. QED BY <1>1, <1>3, <1>8, <3>1 DEF Once
  <2>4. \A i \in 1 .. Len(s) : s[i] # w
    BY <2>1, <2>3
  <2>5. new = Append(s, w)
    BY <1>5, <2>1, <2>4, KeptIs
  <2>6. new \in Seq(X) /\ Len(new) = Len(s) + 1 /\ new[Len(s) + 1] = w
        /\ \A i \in 1 .. Len(s) : new[i] = s[i]
    BY <2>1, <2>5, AppendIs
  <2>7. Len(new) = k /\ new[k] = w /\ \A i \in 1 .. k - 1 : new[i] = words[i]
    BY <1>3, <2>1, <2>6
  <2>8. \A i \in 1 .. k : i \in 1 .. k - 1 \/ i = k
    BY <1>3
  <2>9. \A i \in 1 .. k : new[i] = b[i]
    BY <1>4, <2>2, <2>7, <2>8
  <2>10. QED BY <2>2, <2>6, <2>7, <2>9, SeqEqual
<1>9. KeptSoFar(words, X, new, k)
  BY <1>6, <1>7, <1>8 DEF KeptSoFar
<1>10. QED BY <1>4, <1>5, <1>9

LEMMA DistinctIs ==
  ASSUME NEW X, NEW words \in Seq(X)
  PROVE  /\ Distinct(words) \in Seq(X) /\ Once(Distinct(words))
         /\ ToSet(Distinct(words)) = ToSet(words)
         /\ Once(words) => Distinct(words) = words
<1>1. PICK n \in Nat : n = Len(words) /\ DOMAIN words = 1 .. n /\ \A i \in 1 .. n : words[i] \in X
  BY SeqIs
<1>2. PICK p : /\ Distinct(words) = p[n] /\ p[0] = <<>>
               /\ \A k \in 1 .. n : p[k] = Kept(p[k-1], words[k])
  BY <1>1, DistinctSteps DEF WordByWord
<1> DEFINE T == {k \in 0 .. n : KeptSoFar(words, X, p[k], k)}
<1>3. 0 \in T
  <2>1. SubSeq(words, 1, 0) = <<>>
    BY <1>1, HeadIs
  <2>2. ToSet(<<>>) = {} /\ Once(<<>>)
    BY DEF ToSet, Once
  <2>3. {words[i] : i \in 1 .. 0} = {}
    OBVIOUS
  <2>4. KeptSoFar(words, X, <<>>, 0)
    BY <2>1, <2>2, <2>3 DEF KeptSoFar
  <2>5. QED BY <1>1, <1>2, <2>4
<1>4. ASSUME NEW k \in 1 .. n, k - 1 \in T PROVE k \in T
  <2>1. KeptSoFar(words, X, p[k-1], k - 1) /\ p[k] = Kept(p[k-1], words[k]) /\ k \in 0 .. n
    BY <1>1, <1>2, <1>4
  <2>2. PICK a : a = p[k-1]
    OBVIOUS
  <2>3. KeptSoFar(words, X, Kept(a, words[k]), k)
    BY <1>1, <2>1, <2>2, KeptOneMore
  <2>4. QED BY <2>1, <2>2, <2>3
<1>5. n \in T
  <2> HIDE DEF T
  <2>1. 0 .. n \subseteq T
    BY <1>1, <1>3, <1>4, UpTo
  <2>2. QED BY <1>1, <2>1
<1>6. ToSet(words) = {words[i] : i \in 1 .. n}
  BY <1>1 DEF ToSet
<1>7. SubSeq(words, 1, n) = words
  <2>1. PICK a \in Seq(X) : a = SubSeq(words, 1, n) /\ Len(a) = n /\ \A i \in 1 .. n : a[i] = words[i]
    BY <1>1, HeadIs
  <2>2. QED BY <1>1, <2>1, SeqEqual
<1>8. KeptSoFar(words, X, p[n], n)
  BY <1>5
<1>9. QED BY <1>2, <1>6, <1>7, <1>8 DEF KeptSoFar

-----------------------------------------------------------------------------
(* What a reply adds to the terms.                                          *)

Accepted(terms, kept, word) ==
  IF IsPlain(word) /\ ~Holds(kept, Lower(word)) /\ IsOffered(terms, Lower(word))
  THEN Append(kept, Lower(word)) ELSE kept

(* kept begins with the terms first, each once, and goes on with words that *)
(* were offered.                                                            *)
GoesOnFrom(kept, first, terms, X) ==
  /\ kept \in Seq(X) /\ Once(kept)
  /\ Len(first) <= Len(kept) /\ \A i \in 1 .. Len(first) : kept[i] = first[i]
  /\ \A i \in Len(first) + 1 .. Len(kept) :
       IsOffered(terms, kept[i]) /\ \E w : kept[i] = Lower(w)

LEMMA AcceptedIs ==
  ASSUME NEW X, NEW first \in Seq(X), NEW terms, NEW kept, GoesOnFrom(kept, first, terms, X),
         NEW word, Lower(word) \in X
  PROVE  GoesOnFrom(Accepted(terms, kept, word), first, terms, X)
<1>1. PICK w \in X : w = Lower(word)
  OBVIOUS
<1>2. PICK new : new = Accepted(terms, kept, word)
  OBVIOUS
<1>3. CASE new = kept
  BY <1>2, <1>3
<1>4. CASE new # kept
  <2>1. new = Append(kept, w) /\ ~Holds(kept, w) /\ IsOffered(terms, w)
    BY <1>1, <1>2, <1>4 DEF Accepted
  <2>2. /\ kept \in Seq(X) /\ Once(kept)
        /\ Len(first) <= Len(kept) /\ \A i \in 1 .. Len(first) : kept[i] = first[i]
        /\ \A i \in Len(first) + 1 .. Len(kept) :
             IsOffered(terms, kept[i]) /\ \E v : kept[i] = Lower(v)
    BY DEF GoesOnFrom
  <2>3. PICK m, n \in Nat : m = Len(first) /\ n = Len(kept) /\ DOMAIN kept = 1 .. n
    BY <2>2, SeqIs
  <2>4. /\ new \in Seq(X) /\ Len(new) = n + 1 /\ DOMAIN new = 1 .. n + 1 /\ new[n+1] = w
        /\ \A i \in 1 .. n : new[i] = kept[i]
    BY <2>1, <2>2, <2>3, AppendIs
  <2>5. \A i \in 1 .. n + 1 : i \in 1 .. n \/ i = n + 1
    BY <2>3
  <2>6. Once(new)
    BY <2>1, <2>2, <2>3, <2>4, <2>5 DEF Once, Holds
  <2>7. m <= n + 1 /\ \A i \in 1 .. m : new[i] = first[i]
    BY <2>2, <2>3, <2>4
  <2>8. ASSUME NEW i \in m + 1 .. n + 1
        PROVE  IsOffered(terms, new[i]) /\ \E v : new[i] = Lower(v)
    <3>1. CASE i = n + 1
      BY <1>1, <2>1, <2>4, <3>1
    <3>2. CASE i # n + 1
      <4>1. i \in 1 .. n /\ i \in m + 1 .. n
        BY <2>3, <3>2
      <4>2. QED BY <2>2, <2>3, <2>4, <4>1
    <3>3. QED BY <3>1, <3>2
  <2>9. GoesOnFrom(new, first, terms, X)
    BY <2>3, <2>4, <2>6, <2>7, <2>8 DEF GoesOnFrom
  <2>10. QED BY <1>2, <2>9
<1>5. QED BY <1>3, <1>4

AllGoingOn(first, terms, X) == {kept \in Seq(X) : GoesOnFrom(kept, first, terms, X)}

LEMMA AcceptedStays ==
  ASSUME NEW X, NEW first \in Seq(X), NEW terms, NEW kept \in AllGoingOn(first, terms, X),
         NEW word, Lower(word) \in X
  PROVE  Accepted(terms, kept, word) \in AllGoingOn(first, terms, X)
<1>1. GoesOnFrom(kept, first, terms, X)
  BY DEF AllGoingOn
<1>2. GoesOnFrom(Accepted(terms, kept, word), first, terms, X)
  BY <1>1, AcceptedIs
<1>3. QED BY <1>2 DEF AllGoingOn, GoesOnFrom

(* Every array of a reply is read word by word.                             *)
ReplyFor(reply, X) ==
  reply.kind = "array" =>
    \E W : reply.words \in Seq(W) /\ \A w \in W : Lower(w) \in X

LEMMA ParseIs ==
  ASSUME NEW X, NEW terms \in Seq(X), NEW reply, ReplyFor(reply, X)
  PROVE  GoesOnFrom(ParseSelectedTerms(reply, terms), Distinct(terms), terms, X)
<1> DEFINE first == Distinct(terms)
           A == AllGoingOn(first, terms, X)
<1>1. first \in Seq(X) /\ Once(first)
  BY DistinctIs
<1>2. first \in A
  <2>1. Len(first) \in Nat
    BY <1>1, SeqIs
  <2> HIDE DEF first
  <2>2. Len(first) + 1 .. Len(first) = {}
    BY <2>1
  <2>3. Len(first) <= Len(first)
    BY <2>1
  <2>4. GoesOnFrom(first, first, terms, X)
    BY <1>1, <2>2, <2>3 DEF GoesOnFrom
  <2>5. QED BY <1>1, <2>4 DEF AllGoingOn
<1>3. CASE reply.kind # "array"
  <2>1. ParseSelectedTerms(reply, terms) = first
    BY <1>3 DEF ParseSelectedTerms
  <2>2. QED BY <1>2, <2>1 DEF AllGoingOn
<1>4. CASE reply.kind = "array"
  <2>0. PICK W : reply.words \in Seq(W) /\ \A w \in W : Lower(w) \in X
    BY <1>4 DEF ReplyFor
  <2>1. PICK words \in Seq(W) : words = reply.words
    BY <2>0
  <2> DEFINE n == Len(words)
             Step(h) == [s \in SUBSET DOMAIN words |->
                           IF s = {} THEN first
                           ELSE Accepted(terms, h[s \ {Max(s)}], words[Max(s)])]
             h == CHOOSE h : h = Step(h)
             f == [i \in 1 .. n |-> [a \in A |-> Accepted(terms, a, words[i])]]
  <2>2. n \in Nat /\ DOMAIN words = 1 .. n /\ \A i \in 1 .. n : Lower(words[i]) \in X
    BY <2>0, <2>1, SeqIs
  <2>3. ParseSelectedTerms(reply, terms) = h[1 .. n]
    <3>1. ParseSelectedTerms(reply, terms) = h[DOMAIN words]
      BY <1>4, <2>1 DEF ParseSelectedTerms, FoldLeft, MapThenFoldSet, Accepted
    <3>2. QED BY <2>2, <3>1
  <2>4. f \in [1 .. n -> [A -> A]]
    <3>1. ASSUME NEW i \in 1 .. n, NEW a \in A PROVE Accepted(terms, a, words[i]) \in A
      <4> HIDE DEF first
      <4>1. QED BY <1>1, <2>2, AcceptedStays
    <3> HIDE DEF A
    <3>2. QED BY <3>1
  <2>5. PICK g \in [SUBSET (1 .. n) -> A] : FoldsTo(f, first, Latest(n), 1 .. n, g)
    <3> HIDE DEF f, A, n, first
    <3>1. QED BY <1>2, <2>2, <2>4, FoldInOrder
  <2>6. ASSUME NEW s \in SUBSET (1 .. n)
        PROVE  /\ g[s] = Step(g)[s]
               /\ s = {} => g[s] = first
               /\ s # {} => g[s] = Accepted(terms, g[s \ {Max(s)}], words[Max(s)])
    <3>1. CASE s = {}
      BY <2>2, <2>5, <3>1 DEF FoldsTo
    <3>2. CASE s # {}
      <4>1. PICK i \in 1 .. n : i = Max(s) /\ Latest(n)[s] = i
        BY <2>2, <3>2, LastOfSome DEF Latest
      <4>2. PICK t \in SUBSET (1 .. n) : t = s \ {i}
        OBVIOUS
      <4>3. g[s] = f[i][g[t]]
        BY <2>5, <3>2, <4>1, <4>2 DEF FoldsTo
      <4>4. g[t] \in A
        OBVIOUS
      <4>5. f[i][g[t]] = Accepted(terms, g[t], words[i])
        <5> HIDE DEF A
        <5>1. QED BY <4>4
      <4>6. Step(g)[s] = Accepted(terms, g[t], words[i])
        BY <2>2, <3>2, <4>1, <4>2
      <4>7. QED BY <3>2, <4>1, <4>2, <4>3, <4>5, <4>6
    <3>3. QED BY <3>1, <3>2
  <2>7. g = Step(g)
    BY <2>2, <2>6
  <2>8. h = Step(h)
    BY <2>7
  <2> HIDE DEF h
  <2> DEFINE T == {k \in 0 .. n : h[1 .. k] \in A}
  <2>9. 0 \in T
    <3>1. h[1 .. 0] = first
      BY <2>2, <2>8
    <3> HIDE DEF A, first
    <3>2. QED BY <1>2, <2>2, <3>1
  <2>10. ASSUME NEW k \in 1 .. n, k - 1 \in T PROVE k \in T
    <3>1. Max(1 .. k) = k /\ (1 .. k) \ {k} = 1 .. k - 1 /\ 1 .. k # {}
      <4>1. k \in Nat \ {0}
        BY <2>2
      <4>2. QED BY <4>1, LastOfMany
    <3>2. 1 .. k \in SUBSET (1 .. n) /\ k \in 0 .. n
      BY <2>2
    <3>3. h[1 .. k] = Accepted(terms, h[1 .. k - 1], words[k])
      BY <2>2, <2>8, <3>1, <3>2
    <3> HIDE DEF first
    <3>4. Accepted(terms, h[1 .. k - 1], words[k]) \in A
      BY <1>1, <2>2, <2>10, AcceptedStays
    <3>5. QED BY <3>2, <3>3, <3>4
  <2>11. n \in T
    <3> HIDE DEF T
    <3>1. 0 .. n \subseteq T
      BY <2>2, <2>9, <2>10, UpTo
    <3>2. QED BY <2>2, <3>1
  <2>12. QED BY <2>3, <2>11 DEF AllGoingOn
<1>5. QED BY <1>3, <1>4

-----------------------------------------------------------------------------
(* Texts and tokens.                                                        *)

CatText(a, b) == (a \o <<Space>>) \o b

LEMMA CatTextIs ==
  ASSUME NEW S, Space \in S, NEW a \in Seq(S), NEW b \in Seq(S)
  PROVE  /\ CatText(a, b) \in Seq(S) /\ Len(CatText(a, b)) = Len(a) + 1 + Len(b)
         /\ Len(a) \in Nat /\ Len(b) \in Nat
         /\ \A i \in 1 .. Len(a) : CatText(a, b)[i] = a[i]
         /\ CatText(a, b)[Len(a) + 1] = Space
         /\ \A i \in 1 .. Len(b) : CatText(a, b)[Len(a) + 1 + i] = b[i]
<1>1. PICK m \in Nat, n \in Nat : m = Len(a) /\ n = Len(b)
  BY SeqIs
<1>2. PICK blank \in Seq(S) : blank = <<Space>> /\ Len(blank) = 1 /\ blank[1] = Space
  <2>1. <<Space>> \in Seq(S)
    OBVIOUS
  <2>2. Len(<<Space>>) = 1 /\ <<Space>>[1] = Space
    OBVIOUS
  <2>3. QED BY <2>1, <2>2
<1>3. PICK c : c = a \o blank
  OBVIOUS
<1>4. /\ c \in Seq(S) /\ Len(c) = m + 1
      /\ \A i \in 1 .. m + 1 : c[i] = IF i <= m THEN a[i] ELSE blank[i - m]
  BY <1>1, <1>2, <1>3, ConcatProperties
<1>5. PICK d : d = c \o b
  OBVIOUS
<1>6. /\ d \in Seq(S) /\ Len(d) = m + 1 + n
      /\ \A i \in 1 .. m + 1 + n : d[i] = IF i <= m + 1 THEN c[i] ELSE b[i - (m + 1)]
  <2>1. PICK q \in Nat : q = m + 1
    OBVIOUS
  <2>2. c \in Seq(S) /\ Len(c) = q
    BY <1>4, <2>1
  <2>3. /\ d \in Seq(S) /\ Len(d) = q + n
        /\ \A i \in 1 .. q + n : d[i] = IF i <= q THEN c[i] ELSE b[i - q]
    BY <1>1, <1>5, <2>2, ConcatProperties
  <2>4. QED BY <2>1, <2>3
<1>7. \A i \in 1 .. m : d[i] = a[i]
  BY <1>4, <1>6
<1>8. d[m+1] = Space
  BY <1>2, <1>4, <1>6
<1>9. \A i \in 1 .. n : d[m + 1 + i] = b[i]
  <2>1. ASSUME NEW i \in 1 .. n PROVE d[m + 1 + i] = b[i]
    <3>1. m + 1 + i \in 1 .. m + 1 + n /\ ~ (m + 1 + i <= m + 1) /\ m + 1 + i - (m + 1) = i
      OBVIOUS
    <3>2. QED BY <1>6, <3>1
  <2>2. QED BY <2>1
<1>10. QED BY <1>1, <1>2, <1>3, <1>5, <1>6, <1>7, <1>8, <1>9 DEF CatText

(* p[k]: the first k words of a row, with blanks between them.              *)
JoinsTo(row, S, p) ==
  /\ \A k \in 1 .. Len(row) : p[k] \in Seq(S)
  /\ p[1] = row[1]
  /\ \A k \in 2 .. Len(row) : p[k] = CatText(p[k-1], row[k])
  /\ JoinWords(row) = p[Len(row)]

LEMMA JoinWordsSteps ==
  ASSUME NEW S, Space \in S, NEW row \in Seq(Seq(S)), row # <<>>
  PROVE  \E p : JoinsTo(row, S, p)
<1>1. PICK l \in Nat : l = Len(row) /\ DOMAIN row = 1 .. l /\ \A i \in 1 .. l : row[i] \in Seq(S)
  BY SeqIs
<1>2. l # 0
  BY <1>1, EmptySeq
<1>3. PICK n \in Nat : n = l - 1
  <2>1. l - 1 \in Nat
    BY <1>2
  <2>2. QED BY <2>1
<1>4. PICK words : words = Tail(row)
  OBVIOUS
<1>5. /\ DOMAIN words = 1 .. n /\ \A i \in 1 .. n : words[i] = row[i+1] /\ words[i] \in Seq(S)
      /\ Head(row) = row[1] /\ row[1] \in Seq(S)
  <2>1. /\ Len(words) = n /\ words \in Seq(Seq(S)) /\ \A i \in 1 .. n : words[i] = row[i+1]
        /\ Head(row) = row[1] /\ row[1] \in Seq(S)
    BY <1>1, <1>2, <1>3, <1>4, HeadTailProperties
  <2>2. QED BY <2>1, SeqIs
<1> DEFINE A == Seq(S)
           first == row[1]
           Step(h) == [s \in SUBSET DOMAIN words |->
                         IF s = {} THEN first ELSE CatText(h[s \ {Max(s)}], words[Max(s)])]
           h == CHOOSE h : h = Step(h)
           f == [i \in 1 .. n |-> [a \in A |-> CatText(a, words[i])]]
<1>6. JoinWords(row) = h[1 .. n]
  <2>1. JoinWords(row) =
          FoldLeft(LAMBDA text, field : text \o <<Space>> \o field, first, words)
    BY <1>4, <1>5 DEF JoinWords
  <2>2. FoldLeft(LAMBDA text, field : text \o <<Space>> \o field, first, words) = h[1 .. n]
    BY <1>5 DEF FoldLeft, MapThenFoldSet, CatText
  <2>3. QED BY <2>1, <2>2
<1>7. f \in [1 .. n -> [A -> A]]
  BY <1>5, CatTextIs
<1>8. \E g : g = Step(g)
  <2>1. PICK g \in [SUBSET (1 .. n) -> A] : FoldsTo(f, first, Latest(n), 1 .. n, g)
    <3>1. first \in A
      BY <1>5
    <3> HIDE DEF f, A, first
    <3>2. QED BY <1>7, <3>1, FoldInOrder
  <2>2. ASSUME NEW s \in SUBSET (1 .. n) PROVE g[s] = Step(g)[s]
    <3>1. CASE s = {}
      BY <1>5, <2>1, <3>1 DEF FoldsTo
    <3>2. CASE s # {}
      <4>1. PICK i \in 1 .. n : i = Max(s) /\ Latest(n)[s] = i
        BY <3>2, LastOfSome DEF Latest
      <4>2. PICK t \in SUBSET (1 .. n) : t = s \ {i}
        OBVIOUS
      <4>3. g[s] = f[i][g[t]]
        BY <2>1, <3>2, <4>1, <4>2 DEF FoldsTo
      <4>4. g[t] \in A
        OBVIOUS
      <4>5. f[i][g[t]] = CatText(g[t], words[i])
        <5> HIDE DEF A
        <5>1. QED BY <4>4
      <4>6. Step(g)[s] = CatText(g[t], words[i])
        BY <1>5, <3>2, <4>1, <4>2
      <4>7. QED BY <4>3, <4>5, <4>6
    <3>3. QED BY <3>1, <3>2
  <2>3. g = Step(g)
    BY <1>5, <2>2
  <2>4. QED BY <2>3
<1>9. h = Step(h)
  BY <1>8
<1> HIDE DEF h
<1> DEFINE p == [k \in 1 .. l |-> h[1 .. k - 1]]
<1>10. p[1] = first
  <2>1. 1 \in 1 .. l /\ 1 .. 1 - 1 = {}
    BY <1>1, <1>2
  <2>2. h[{}] = first
    BY <1>9
  <2>3. QED BY <2>1, <2>2
<1>11. ASSUME NEW k \in 2 .. l PROVE p[k] = CatText(p[k-1], row[k])
  <2>1. PICK j \in 1 .. n : j = k - 1 /\ words[j] = row[k]
    BY <1>3, <1>5
  <2>2. Max(1 .. j) = j /\ (1 .. j) \ {j} = 1 .. j - 1 /\ 1 .. j # {}
    <3>1. j \in Nat \ {0}
      OBVIOUS
    <3>2. QED BY <3>1, LastOfMany
  <2>3. 1 .. j \in SUBSET (1 .. n) /\ k - 1 \in 1 .. l /\ k \in 1 .. l /\ k - 1 - 1 = j - 1
    BY <1>3, <2>1
  <2>4. h[1 .. j] = CatText(h[1 .. j - 1], words[j])
    <3>1. PICK s \in SUBSET DOMAIN words : s = 1 .. j
      BY <1>5, <2>3
    <3>2. h[s] = CatText(h[s \ {Max(s)}], words[Max(s)])
      BY <1>9, <2>2, <3>1
    <3>3. QED BY <2>2, <3>1, <3>2
  <2>5. p[k] = h[1 .. j] /\ p[k-1] = h[1 .. j - 1]
    BY <2>1, <2>3
  <2> HIDE DEF p
  <2>6. QED BY <2>1, <2>4, <2>5
<1>12. p[l] = h[1 .. n]
  BY <1>1, <1>2, <1>3
<1> HIDE DEF p
<1> DEFINE T == {k \in 0 .. l : k = 0 \/ p[k] \in A}
<1>13. 0 \in T
  OBVIOUS
<1>14. ASSUME NEW k \in 1 .. l, k - 1 \in T PROVE k \in T
  <2>1. CASE k = 1
    BY <1>5, <1>10, <2>1
  <2>2. CASE k # 1
    <3>1. k \in 2 .. l /\ p[k-1] \in A /\ row[k] \in A
      BY <1>1, <1>14, <2>2
    <3>2. p[k] \in A
      BY <1>11, <3>1, CatTextIs
    <3>3. QED BY <3>2
  <2>3. QED BY <2>1, <2>2
<1>15. \A k \in 1 .. l : p[k] \in A
  <2> HIDE DEF A
  <2>1. 0 .. l \subseteq T
    <3> HIDE DEF T
    <3>1. QED BY <1>1, <1>13, <1>14, UpTo
  <2>2. QED BY <2>1
<1>16. JoinsTo(row, S, p)
  BY <1>1, <1>6, <1>10, <1>11, <1>12, <1>15 DEF JoinsTo
<1>17. QED BY <1>16

LEMMA JoinWordsIs ==
  ASSUME NEW S, Space \in S, NEW row \in Seq(Seq(S))
  PROVE  JoinWords(row) \in Seq(S)
<1>1. CASE row = <<>>
  <2>1. JoinWords(row) = <<>>
    BY <1>1, Zenon DEF JoinWords
  <2>2. QED BY <2>1, EmptySeq
<1>2. CASE row # <<>>
  <2>1. PICK p : JoinsTo(row, S, p)
    BY <1>2, JoinWordsSteps
  <2>2. Len(row) \in Nat /\ Len(row) # 0
    BY <1>2, SeqIs, EmptySeq
  <2>3. QED BY <2>1, <2>2 DEF JoinsTo
<1>3. QED BY <1>1, <1>2

(* A word of the row stands in the text by itself.                          *)
StandsAt(word, text, o) ==
  /\ o \in Nat /\ o + Len(word) <= Len(text)
  /\ \A i \in 1 .. Len(word) : text[o + i] = word[i]
  /\ o > 0 => text[o] = Space
  /\ o + Len(word) < Len(text) => text[o + Len(word) + 1] = Space

LEMMA WordsStand ==
  ASSUME NEW S, Space \in S, NEW row \in Seq(Seq(S)), NEW k \in DOMAIN row
  PROVE  \E o : StandsAt(row[k], JoinWords(row), o)
<1>1. PICK l \in Nat : l = Len(row) /\ DOMAIN row = 1 .. l /\ \A i \in 1 .. l : row[i] \in Seq(S)
  BY SeqIs
<1>2. row # <<>> /\ k \in 1 .. l /\ l # 0
  BY <1>1
<1>3. PICK p : JoinsTo(row, S, p)
  BY <1>2, JoinWordsSteps
<1>4. /\ \A j \in 1 .. l : p[j] \in Seq(S)
      /\ p[1] = row[1]
      /\ \A j \in 2 .. l : p[j] = CatText(p[j-1], row[j])
      /\ JoinWords(row) = p[l]
  BY <1>1, <1>3 DEF JoinsTo
<1>5. PICK word \in Seq(S) : word = row[k] /\ Len(word) \in Nat
  BY <1>1, <1>2, SeqIs
<1>6. \E o : StandsAt(word, p[k], o)
  <2>1. CASE k = 1
    <3>1. p[k] = word
      BY <1>4, <1>5, <2>1
    <3>2. StandsAt(word, word, 0)
      BY <1>5 DEF StandsAt
    <3>3. QED BY <3>1, <3>2
  <2>2. CASE k # 1
    <3>1. PICK a \in Seq(S) : a = p[k-1] /\ p[k] = CatText(a, word) /\ Len(a) \in Nat
      <4>1. k \in 2 .. l /\ k - 1 \in 1 .. l
        BY <1>2, <2>2
      <4>2. QED BY <1>4, <1>5, <4>1, SeqIs
    <3>2. /\ Len(CatText(a, word)) = Len(a) + 1 + Len(word)
          /\ CatText(a, word)[Len(a) + 1] = Space
          /\ \A i \in 1 .. Len(word) : CatText(a, word)[Len(a) + 1 + i] = word[i]
      BY CatTextIs
    <3>3. StandsAt(word, CatText(a, word), Len(a) + 1)
      BY <1>5, <3>1, <3>2 DEF StandsAt
    <3>4. QED BY <3>1, <3>3
  <2>3. QED BY <2>1, <2>2
<1> DEFINE T == {j \in 0 .. l : j >= k => \E o : StandsAt(word, p[j], o)}
<1>7. 0 \in T
  BY <1>2
<1>8. ASSUME NEW j \in 1 .. l, j - 1 \in T PROVE j \in T
  <2>1. CASE j <= k
    BY <1>2, <1>6, <2>1
  <2>2. CASE j > k
    <3>1. j - 1 >= k /\ j \in 2 .. l /\ j - 1 \in 1 .. l
      BY <1>2, <2>2
    <3>2. PICK a \in Seq(S), b \in Seq(S) : a = p[j-1] /\ b = row[j] /\ p[j] = CatText(a, b)
      BY <1>1, <1>4, <3>1
    <3>3. PICK o : StandsAt(word, a, o)
      BY <1>8, <3>1, <3>2
    <3>4. PICK c : c = CatText(a, b)
      OBVIOUS
    <3>5. /\ Len(c) = Len(a) + 1 + Len(b) /\ Len(a) \in Nat /\ Len(b) \in Nat
          /\ \A i \in 1 .. Len(a) : c[i] = a[i]
          /\ c[Len(a) + 1] = Space
      BY <3>4, CatTextIs
    <3>6. StandsAt(word, c, o)
      <4>1. /\ o \in Nat /\ o + Len(word) <= Len(a)
            /\ \A i \in 1 .. Len(word) : a[o + i] = word[i]
            /\ o > 0 => a[o] = Space
            /\ o + Len(word) < Len(a) => a[o + Len(word) + 1] = Space
        BY <3>3 DEF StandsAt
      <4>2. \A i \in 1 .. Len(word) : c[o + i] = word[i]
        BY <1>5, <3>5, <4>1
      <4>3. o > 0 => c[o] = Space
        BY SMTT(30), <1>5, <3>5, <4>1
      <4>4. c[o + Len(word) + 1] = Space
        <5>1. CASE o + Len(word) < Len(a)
          <6>1. o + Len(word) + 1 \in 1 .. Len(a)
            BY <1>5, <3>5, <4>1, <5>1
          <6>2. QED BY <3>5, <4>1, <5>1, <6>1
        <5>2. CASE o + Len(word) = Len(a)
          BY <3>5, <5>2
        <5>3. QED BY <1>5, <3>5, <4>1, <5>1, <5>2
      <4>5. o + Len(word) <= Len(c)
        BY <1>5, <3>5, <4>1
      <4>6. QED BY <4>1, <4>2, <4>3, <4>4, <4>5 DEF StandsAt
    <3>7. QED BY <3>2, <3>4, <3>6
  <2>3. QED BY <1>2, <2>1, <2>2
<1>9. l \in T
  <2> HIDE DEF T
  <2>1. 0 .. l \subseteq T
    BY <1>1, <1>7, <1>8, UpTo
  <2>2. QED BY <1>1, <2>1
<1>10. QED BY <1>2, <1>4, <1>5, <1>9

-----------------------------------------------------------------------------
(* The words of a text.                                                     *)

(* From a to b the text is one word, and no longer one.                     *)
IsWordOf(text, a, b) ==
  /\ a \in 1 .. Len(text) /\ b \in a .. Len(text)
  /\ \A i \in a .. b : InWord(text, i)
  /\ a = 1 \/ ~InWord(text, a - 1)
  /\ b = Len(text) \/ ~InWord(text, b + 1)

LEMMA SomeNumbers ==
  ASSUME NEW n \in Nat, NEW N \in SUBSET (1 .. n)
  PROVE  N \in SUBSET Nat /\ IsFiniteSet(N)
<1>1. IsFiniteSet(1 .. n)
  BY FS_Interval
<1>2. IsFiniteSet(N)
  BY <1>1, FS_Subset
<1>3. QED BY <1>2

LEMMA TokensAre ==
  ASSUME NEW S, NEW text \in Seq(S)
  PROVE  /\ \E n \in Nat : DOMAIN Tokenize(text) = 1 .. n
         /\ \A a, b : IsWordOf(text, a, b) =>
              \E k \in DOMAIN Tokenize(text) : Tokenize(text)[k] = Lower(SubSeq(text, a, b))
<1>1. PICK n \in Nat : n = Len(text) /\ DOMAIN text = 1 .. n
  BY SeqIs
<1> DEFINE inside == {i \in DOMAIN text : InWord(text, i)}
           N == {i \in inside : i - 1 \notin inside}
           End(i) == Min({j \in i .. Len(text) : j + 1 \notin inside})
<1>2. N \in SUBSET (1 .. n)
  BY <1>1
<1>3. PICK c \in Nat : c = Cardinality(N)
  <2> HIDE DEF N
  <2>1. QED BY <1>2, SomeNumbers, AscendingIs
<1>4. PICK starts : starts = Ascending(N)
  OBVIOUS
<1>5. /\ starts \in [1 .. c -> N]
      /\ \A x \in N : \E k \in 1 .. c : starts[k] = x
  <2> HIDE DEF N
  <2>1. QED BY <1>2, <1>3, <1>4, SomeNumbers, AscendingIs
<1>6. Tokenize(text) = [k \in 1 .. c |-> Lower(SubSeq(text, starts[k], End(starts[k])))]
  <2>1. DOMAIN starts = 1 .. c
    BY <1>5
  <2>2. Tokenize(text) =
          [k \in DOMAIN starts |-> Lower(SubSeq(text, starts[k], End(starts[k])))]
    BY <1>4 DEF Tokenize
  <2> HIDE DEF End
  <2>3. QED BY <2>1, <2>2
<1>7. ASSUME NEW a, NEW b, IsWordOf(text, a, b)
      PROVE  \E k \in 1 .. c : starts[k] = a /\ End(a) = b
  <2>1. /\ a \in 1 .. n /\ b \in a .. n
        /\ \A i \in a .. b : InWord(text, i)
        /\ a = 1 \/ ~InWord(text, a - 1)
        /\ b = n \/ ~InWord(text, b + 1)
    BY <1>1, <1>7 DEF IsWordOf
  <2>2. a \in inside
    BY <1>1, <2>1
  <2>3. a - 1 \notin inside
    BY <1>1, <2>1
  <2>4. PICK k \in 1 .. c : starts[k] = a
    BY <1>5, <2>2, <2>3
  <2>5. End(a) = b
    <3> DEFINE M == {j \in a .. n : j + 1 \notin inside}
    <3>1. b \in M
      BY <1>1, <2>1
    <3>2. ASSUME NEW j \in M PROVE b <= j
      <4>1. j \in a .. n /\ j + 1 \notin inside
        OBVIOUS
      <4>2. ASSUME j < b PROVE FALSE
        <5>1. j + 1 \in a .. b /\ j + 1 \in 1 .. n
          BY <2>1, <4>1, <4>2
        <5>2. InWord(text, j + 1)
          BY <2>1, <5>1
        <5>3. QED BY <1>1, <4>1, <5>1, <5>2
      <4>3. QED BY <2>1, <4>1, <4>2
    <3>3. End(a) = Min(M)
      BY <1>1
    <3>4. \A j \in M : j \in Nat
      BY <2>1
    <3> HIDE DEF M, End
    <3>5. Min(M) = b
      BY <3>1, <3>2, <3>4 DEF Min
    <3>6. QED BY <3>3, <3>5
  <2>6. QED BY <2>4, <2>5
<1> HIDE DEF End, N, inside
<1>8. ASSUME NEW a, NEW b, IsWordOf(text, a, b)
      PROVE  \E k \in 1 .. c : Tokenize(text)[k] = Lower(SubSeq(text, a, b))
  <2>1. PICK k \in 1 .. c : starts[k] = a /\ End(a) = b
    BY <1>7, <1>8
  <2>2. Tokenize(text)[k] = Lower(SubSeq(text, starts[k], End(starts[k])))
    BY <1>6
  <2>3. QED BY <2>1, <2>2
<1>9. DOMAIN Tokenize(text) = 1 .. c
  BY <1>6
<1>10. QED BY <1>3, <1>8, <1>9

LEMMA KeptWordsAre ==
  ASSUME NEW n \in Nat, NEW words, DOMAIN words = 1 .. n
  PROVE  /\ \E m \in Nat : DOMAIN WithoutStopwords(words) = 1 .. m
         /\ \A i \in 1 .. n : words[i] \notin Stopwords =>
              \E k \in DOMAIN WithoutStopwords(words) : WithoutStopwords(words)[k] = words[i]
<1> DEFINE N == {i \in DOMAIN words : words[i] \notin Stopwords}
<1>1. N \in SUBSET (1 .. n)
  OBVIOUS
<1>2. PICK kept : kept = Ascending(N)
  OBVIOUS
<1>3. PICK c \in Nat :
        /\ kept \in [1 .. c -> N]
        /\ \A x \in N : \E k \in 1 .. c : kept[k] = x
  <2> HIDE DEF N
  <2>1. QED BY ZenonT(60), <1>1, <1>2, SomeNumbers, AscendingIs
<1>4. WithoutStopwords(words) = [k \in DOMAIN kept |-> words[kept[k]]]
  BY <1>2 DEF WithoutStopwords
<1>5. DOMAIN WithoutStopwords(words) = 1 .. c
  BY <1>3, <1>4
<1>6. ASSUME NEW i \in 1 .. n, words[i] \notin Stopwords
      PROVE  \E k \in 1 .. c : WithoutStopwords(words)[k] = words[i]
  <2>1. i \in N
    BY <1>6
  <2>2. PICK k \in 1 .. c : kept[k] = i
    BY <1>3, <2>1
  <2>3. k \in DOMAIN kept
    BY <1>3
  <2>4. QED BY <1>4, <2>2, <2>3
<1>7. QED BY <1>5, <1>6

(* The base form of every word of a text but the stopwords.                 *)
LEMMA BaseFormsAre ==
  ASSUME NEW S, NEW text \in Seq(S)
  PROVE  /\ BaseForms(text) \in Seq(ToSet(BaseForms(text)))
         /\ \A a, b :
              IsWordOf(text, a, b) /\ Lower(SubSeq(text, a, b)) \notin Stopwords =>
                \E k \in DOMAIN BaseForms(text) :
                   BaseForms(text)[k] = Lemmatize(Lower(SubSeq(text, a, b)))
<1>1. PICK tokens : tokens = Tokenize(text)
  OBVIOUS
<1>2. PICK n \in Nat : DOMAIN tokens = 1 .. n
  BY <1>1, TokensAre
<1>3. PICK words : words = WithoutStopwords(tokens)
  OBVIOUS
<1>4. PICK m \in Nat : DOMAIN words = 1 .. m
  BY <1>2, <1>3, KeptWordsAre
<1>5. PICK forms : forms = BaseForms(text)
  OBVIOUS
<1>6. forms = [i \in 1 .. m |-> Lemmatize(words[i])]
  BY <1>1, <1>3, <1>4, <1>5 DEF BaseForms
<1>7. forms \in Seq(ToSet(forms))
  <2>1. forms \in [1 .. m -> ToSet(forms)]
    BY <1>6 DEF ToSet
  <2>2. QED BY <1>4, <2>1, SeqDef
<1>8. ASSUME NEW a, NEW b, IsWordOf(text, a, b), Lower(SubSeq(text, a, b)) \notin Stopwords
      PROVE  \E k \in DOMAIN forms : forms[k] = Lemmatize(Lower(SubSeq(text, a, b)))
  <2>1. PICK w : w = Lower(SubSeq(text, a, b))
    OBVIOUS
  <2>2. PICK i \in 1 .. n : tokens[i] = w
    BY <1>1, <1>2, <1>8, <2>1, TokensAre
  <2>3. PICK k \in 1 .. m : words[k] = w
    BY <1>2, <1>3, <1>4, <1>8, <2>1, <2>2, KeptWordsAre
  <2>4. QED BY <1>6, <2>1, <2>3
<1>9. QED BY <1>5, <1>7, <1>8

-----------------------------------------------------------------------------
(* A word in one piece, wherever it stands in a text.                       *)

(* a and b are the first and the last letter of word, which has nothing but *)
(* letters and the marks of a word between them.                            *)
IsPiece(word, a, b) ==
  /\ a \in DOMAIN word /\ b \in DOMAIN word
  /\ IsAlnum(word[a]) /\ IsAlnum(word[b])
  /\ \A i \in DOMAIN word : IsAlnum(word[i]) => a <= i /\ i <= b
  /\ \A i \in a .. b : InWord(word, i)

LEMMA SpaceIsNoLetter == ~IsAlnum(Space)
  BY Zenon DEF IsAlnum, ToLower, Capitals, Alphabet, Space

LEMMA SpaceIsNoConnector == Space \notin Connectors
  BY Zenon DEF Connectors, Space

LEMMA LettersAreNoConnectors == \A c : IsAlnum(c) => c \notin Connectors
  BY DEF IsAlnum, ToLower, Capitals, Alphabet, Connectors

LEMMA PieceIsWord ==
  ASSUME NEW S, NEW text \in Seq(S), NEW word \in Seq(S), NEW o, StandsAt(word, text, o),
         NEW a, NEW b, IsPiece(word, a, b)
  PROVE  IsWordOf(text, o + a, o + b)
<1>1. PICK n \in Nat : n = Len(text)
  BY SeqIs
<1>2. PICK m \in Nat : m = Len(word) /\ DOMAIN word = 1 .. m
  BY SeqIs
<1>3. /\ o \in Nat /\ o + m <= n
      /\ \A i \in 1 .. m : text[o + i] = word[i]
      /\ o > 0 => text[o] = Space
      /\ o + m < n => text[o + m + 1] = Space
  BY <1>1, <1>2 DEF StandsAt
<1>4. /\ a \in 1 .. m /\ b \in 1 .. m
      /\ \A i \in 1 .. m : IsAlnum(word[i]) => a <= i /\ i <= b
      /\ \A i \in a .. b : InWord(word, i)
      /\ IsAlnum(word[a]) /\ IsAlnum(word[b])
  BY <1>2 DEF IsPiece
<1>5. a <= b
  BY <1>4
<1>6. ASSUME NEW i \in 1 .. m, InWord(word, i) PROVE InWord(text, o + i)
  <2>1. text[o + i] = word[i]
    BY <1>3
  <2>2. CASE IsAlnum(word[i])
    BY <2>1, <2>2 DEF InWord
  <2>3. CASE ~IsAlnum(word[i])
    <3>1. /\ word[i] \in Connectors /\ 1 < i /\ i < m
          /\ IsAlnum(word[i-1]) /\ IsAlnum(word[i+1])
      BY <1>2, <1>6, <2>3 DEF InWord
    <3>2. i - 1 \in 1 .. m /\ i + 1 \in 1 .. m /\ o + (i - 1) = o + i - 1 /\ o + (i + 1) = o + i + 1
      BY <1>3, <3>1
    <3>3. text[o + i - 1] = word[i-1] /\ text[o + i + 1] = word[i+1]
      BY <1>3, <3>2
    <3>4. 1 < o + i /\ o + i < n
      BY SMTT(30), <1>3, <3>1
    <3>5. PICK j : j = o + i
      OBVIOUS
    <3>6. /\ text[j] \in Connectors /\ 1 < j /\ j < Len(text)
          /\ IsAlnum(text[j-1]) /\ IsAlnum(text[j+1])
      <4>1. j - 1 = o + i - 1 /\ j + 1 = o + i + 1
        BY <1>2, <1>3, <3>1, <3>5
      <4>2. text[j-1] = word[i-1] /\ text[j+1] = word[i+1] /\ text[j] = word[i]
        BY <2>1, <3>3, <3>5, <4>1
      <4>3. 1 < j /\ j < Len(text)
        BY <1>1, <3>4, <3>5
      <4>4. QED BY <3>1, <4>2, <4>3
    <3>7. InWord(text, j)
      BY <3>6 DEF InWord
    <3>8. QED BY <3>5, <3>7
  <2>4. QED BY <2>2, <2>3
<1>7. \A i \in (o + a) .. (o + b) : InWord(text, i)
  <2>1. ASSUME NEW i \in (o + a) .. (o + b) PROVE InWord(text, i)
    <3>1. PICK k \in a .. b : k = i - o /\ o + k = i
      BY <1>3, <1>4
    <3>2. k \in 1 .. m
      BY <1>4
    <3>3. QED BY <1>4, <1>6, <3>1, <3>2
  <2>2. QED BY <2>1
(* What is right before the first letter, and right behind the last.        *)
<1>8. o + a = 1 \/ ~InWord(text, o + a - 1)
  <2>1. CASE a = 1
    <3>1. CASE o = 0
      BY <2>1, <3>1
    <3>2. CASE o > 0
      <4>1. text[o] = Space /\ o + a - 1 = o
        BY <1>3, <2>1, <3>2
      <4>2. QED BY <4>1, SpaceIsNoLetter, SpaceIsNoConnector DEF InWord
    <3>3. QED BY <1>3, <3>1, <3>2
  <2>2. CASE a > 1
    <3>1. PICK c : c = text[o + a - 1]
      OBVIOUS
    <3>2. a - 1 \in 1 .. m /\ o + (a - 1) = o + a - 1 /\ ~ (a <= a - 1)
      BY <1>3, <1>4, <2>2
    <3>3. c = word[a-1]
      BY <1>3, <3>1, <3>2
    <3>4. ~IsAlnum(c)
      BY <1>4, <3>2, <3>3
    <3>5. ASSUME 1 < o + a - 1 PROVE ~IsAlnum(text[o + a - 1 - 1])
      <4>1. CASE a = 2
        <5>1. o > 0 /\ o + a - 1 - 1 = o
          BY <1>3, <3>5, <4>1
        <5>2. QED BY <1>3, <5>1, SpaceIsNoLetter
      <4>2. CASE a > 2
        <5>1. a - 2 \in 1 .. m /\ o + (a - 2) = o + a - 1 - 1 /\ ~ (a <= a - 2)
          BY <1>3, <1>4, <4>2
        <5>2. text[o + a - 1 - 1] = word[a-2]
          BY <1>3, <5>1
        <5>3. QED BY <1>4, <5>1, <5>2
      <4>3. QED BY <1>4, <2>2, <4>1, <4>2
    <3>6. PICK j : j = o + a - 1
      OBVIOUS
    <3>7. ~IsAlnum(text[j]) /\ (1 < j => ~IsAlnum(text[j-1]))
      <4>1. ~IsAlnum(text[j])
        BY <3>1, <3>4, <3>6
      <4>2. j - 1 = o + a - 1 - 1
        BY <1>3, <1>4, <3>6
      <4>3. QED BY <3>5, <3>6, <4>1, <4>2
    <3>8. ~InWord(text, j)
      BY <3>7 DEF InWord
    <3>9. QED BY <3>6, <3>8
  <2>3. QED BY <1>4, <2>1, <2>2
<1>9. o + b = n \/ ~InWord(text, o + b + 1)
  <2>1. CASE b = m
    <3>1. CASE o + m = n
      BY <2>1, <3>1
    <3>2. CASE o + m < n
      <4>1. text[o + b + 1] = Space
        BY <1>3, <2>1, <3>2
      <4>2. QED BY <4>1, SpaceIsNoLetter, SpaceIsNoConnector DEF InWord
    <3>3. QED BY <1>3, <3>1, <3>2
  <2>2. CASE b < m
    <3>1. PICK c : c = text[o + b + 1]
      OBVIOUS
    <3>2. b + 1 \in 1 .. m /\ o + (b + 1) = o + b + 1 /\ ~ (b + 1 <= b)
      BY <1>3, <1>4, <2>2
    <3>3. c = word[b+1]
      BY <1>3, <3>1, <3>2
    <3>4. ~IsAlnum(c)
      BY <1>4, <3>2, <3>3
    <3>5. ASSUME o + b + 1 < n PROVE ~IsAlnum(text[o + b + 1 + 1])
      <4>1. CASE b + 1 = m
        <5>1. o + m < n /\ o + b + 1 + 1 = o + m + 1
          BY <1>3, <1>4, <3>5, <4>1
        <5>2. QED BY <1>3, <5>1, SpaceIsNoLetter
      <4>2. CASE b + 1 < m
        <5>1. b + 2 \in 1 .. m /\ o + (b + 2) = o + b + 1 + 1 /\ ~ (b + 2 <= b)
          BY <1>3, <1>4, <4>2
        <5>2. text[o + b + 1 + 1] = word[b+2]
          BY <1>3, <5>1
        <5>3. QED BY <1>4, <5>1, <5>2
      <4>3. QED BY <1>4, <2>2, <4>1, <4>2
    <3>6. QED BY <1>1, <3>1, <3>4, <3>5 DEF InWord
  <2>3. QED BY <1>4, <2>1, <2>2
<1>10. o + a \in 1 .. n /\ o + b \in (o + a) .. n
  BY <1>3, <1>4, <1>5
<1>11. PICK p, q : p = o + a /\ q = o + b
  OBVIOUS
<1>12. IsWordOf(text, p, q)
  <2>1. p \in 1 .. Len(text) /\ q \in p .. Len(text)
    BY <1>1, <1>10, <1>11
  <2>2. \A i \in p .. q : InWord(text, i)
    BY <1>7, <1>11
  <2>3. p = 1 \/ ~InWord(text, p - 1)
    <3>1. p - 1 = o + a - 1
      <4>1. o \in Nat /\ a \in Nat /\ p = o + a
        BY <1>3, <1>4, <1>11
      <4>2. QED BY <4>1
    <3>2. QED BY <1>8, <1>11, <3>1
  <2>4. q = Len(text) \/ ~InWord(text, q + 1)
    BY <1>1, <1>9, <1>11
  <2>5. QED BY <2>1, <2>2, <2>3, <2>4 DEF IsWordOf
<1>13. QED BY <1>11, <1>12

Shifts(o, a, b, p, q) == p = o + a /\ q = o + b

LEMMA PieceIsSpelled ==
  ASSUME NEW S, NEW text \in Seq(S), NEW word \in Seq(S), NEW o, StandsAt(word, text, o),
         NEW a \in 1 .. Len(word), NEW b \in a .. Len(word),
         NEW p \in Nat, NEW q \in Nat, Shifts(o, a, b, p, q)
  PROVE  SubSeq(text, p, q) = SubSeq(word, a, b)
<1>1. PICK n \in Nat : n = Len(text) /\ \A i \in 1 .. n : text[i] \in S
  BY SeqIs
<1>2. PICK m \in Nat : m = Len(word) /\ \A i \in 1 .. m : word[i] \in S
  BY SeqIs
<1>3. /\ o \in Nat /\ o + m <= n /\ a \in 1 .. m /\ b \in a .. m
      /\ \A i \in 1 .. m : text[o + i] = word[i]
  BY <1>1, <1>2 DEF StandsAt
<1>4. SubSeq(text, o + a, o + b) = [i \in 1 .. (1 + (o + b) - (o + a)) |-> text[i + (o + a) - 1]]
  <2>1. p \in Nat /\ q \in Nat /\ p = o + a /\ q = o + b
    BY <1>3 DEF Shifts
  <2>2. SubSeq(text, p, q) = [i \in 1 .. (1 + q - p) |-> text[i + p - 1]]
    BY <2>1, SMTT(40)
  <2>3. QED BY <2>1, <2>2
<1>5. SubSeq(word, a, b) = [i \in 1 .. (1 + b - a) |-> word[i + a - 1]]
  OBVIOUS
<1>6. 1 + (o + b) - (o + a) = 1 + b - a
  BY <1>3
<1>7. ASSUME NEW i \in 1 .. (1 + b - a) PROVE text[i + (o + a) - 1] = word[i + a - 1]
  <2>1. i + a - 1 \in 1 .. m /\ o + (i + a - 1) = i + (o + a) - 1
    BY <1>3
  <2>2. QED BY <1>3, <2>1
<1>8. SubSeq(text, o + a, o + b) = SubSeq(word, a, b)
  BY <1>4, <1>5, <1>6, <1>7
<1>9. QED BY <1>8 DEF Shifts

-----------------------------------------------------------------------------
(* Words that are spelled alike, whichever rows they stand in.              *)

(* word as it is spelled: what is between its first and its last letter.    *)
SpelledAs(word, w) == \E a, b : IsPiece(word, a, b) /\ w = Lower(SubSeq(word, a, b))

LEMMA RowHasForm ==
  ASSUME NEW S, Space \in S, NEW row \in Seq(Seq(S)), NEW k \in DOMAIN row,
         NEW w, SpelledAs(row[k], w), w \notin Stopwords
  PROVE  \E i \in DOMAIN BaseForms(JoinWords(row)) : BaseForms(JoinWords(row))[i] = Lemmatize(w)
<1>1. PICK text \in Seq(S) : text = JoinWords(row)
  BY JoinWordsIs
<1>2. PICK word \in Seq(S) : word = row[k]
  BY SeqIs
<1>3. PICK o : StandsAt(word, text, o)
  BY <1>1, <1>2, WordsStand
<1>4. PICK a, b : IsPiece(word, a, b) /\ w = Lower(SubSeq(word, a, b))
  BY <1>2 DEF SpelledAs
<1>5. a \in 1 .. Len(word) /\ b \in a .. Len(word)
  <2>1. DOMAIN word = 1 .. Len(word) /\ Len(word) \in Nat
    BY SeqIs
  <2>2. a \in DOMAIN word /\ b \in DOMAIN word /\ a <= b
    BY <1>4 DEF IsPiece
  <2>3. QED BY <2>1, <2>2
<1>6. IsWordOf(text, o + a, o + b)
  BY <1>3, <1>4, PieceIsWord
<1>7. PICK p \in Nat, q \in Nat : p = o + a /\ q = o + b
  <2>1. o \in Nat /\ Len(word) \in Nat
    BY <1>3, SeqIs DEF StandsAt
  <2>2. a \in Nat /\ b \in Nat
    BY <1>5, <2>1
  <2>3. QED BY <2>1, <2>2
<1>8. SubSeq(text, p, q) = SubSeq(word, a, b)
  <2>1. Shifts(o, a, b, p, q)
    BY <1>7 DEF Shifts
  <2>2. QED BY <1>3, <1>5, <2>1, PieceIsSpelled
<1>9. IsWordOf(text, p, q) /\ Lower(SubSeq(text, p, q)) = w
  BY <1>4, <1>6, <1>7, <1>8
<1>10. QED BY <1>1, <1>9, BaseFormsAre

-----------------------------------------------------------------------------
(* The terms of a search.                                                   *)

IsTermOf(terms, w) == \E i \in DOMAIN terms : terms[i] = w

LEMMA ConcatIs ==
  ASSUME NEW X, NEW s \in Seq(X), NEW t \in Seq(X)
  PROVE  s \o t \in Seq(X) /\ ToSet(s \o t) = ToSet(s) \union ToSet(t)
<1>1. PICK m \in Nat, n \in Nat : m = Len(s) /\ n = Len(t)
  BY SeqIs
<1>2. PICK c : c = s \o t
  OBVIOUS
<1>3. /\ c \in Seq(X) /\ Len(c) = m + n
      /\ \A i \in 1 .. m + n : c[i] = IF i <= m THEN s[i] ELSE t[i - m]
  BY <1>1, <1>2, ConcatProperties
<1>4. DOMAIN c = 1 .. m + n /\ DOMAIN s = 1 .. m /\ DOMAIN t = 1 .. n
  BY <1>1, <1>3, SeqIs
<1>5. ASSUME NEW i \in DOMAIN c PROVE c[i] \in ToSet(s) \union ToSet(t)
  <2>1. CASE i <= m
    BY <1>3, <1>4, <2>1 DEF ToSet
  <2>2. CASE ~ (i <= m)
    <3>1. i - m \in 1 .. n
      BY <1>4, <2>2
    <3>2. QED BY <1>3, <1>4, <2>2, <3>1 DEF ToSet
  <2>3. QED BY <2>1, <2>2
<1>6. ASSUME NEW i \in DOMAIN s PROVE s[i] \in ToSet(c)
  <2>1. i \in 1 .. m + n /\ i <= m
    BY <1>4
  <2>2. QED BY <1>3, <1>4, <2>1 DEF ToSet
<1>7. ASSUME NEW i \in DOMAIN t PROVE t[i] \in ToSet(c)
  <2>1. m + i \in 1 .. m + n /\ ~ (m + i <= m) /\ m + i - m = i
    BY <1>4
  <2>2. c[m + i] = t[i]
    BY <1>3, <2>1
  <2>3. QED BY <1>4, <2>1, <2>2 DEF ToSet
<1>8. ToSet(c) \subseteq ToSet(s) \union ToSet(t)
  BY <1>5 DEF ToSet
<1>9. ToSet(s) \union ToSet(t) \subseteq ToSet(c)
  BY <1>6, <1>7 DEF ToSet
<1>10. QED BY <1>2, <1>3, <1>8, <1>9

(* A question's own terms: each base form of it once.                       *)
LEMMA TermsOnlyIs ==
  ASSUME NEW S, NEW text \in Seq(S)
  PROVE  LET forms == BaseForms(text)
         IN  /\ TermsOnly(text) \in Seq(ToSet(forms)) /\ Once(TermsOnly(text))
             /\ ToSet(TermsOnly(text)) = ToSet(forms)
<1>1. PICK forms : forms = BaseForms(text)
  OBVIOUS
<1>2. forms \in Seq(ToSet(forms))
  BY <1>1, BaseFormsAre
<1>3. TermsOnly(text) = Distinct(forms)
  BY <1>1 DEF TermsOnly, ParseSelectedTerms, NoReply
<1>4. PICK X : X = ToSet(forms)
  OBVIOUS
<1>5. Distinct(forms) \in Seq(X) /\ Once(Distinct(forms)) /\ ToSet(Distinct(forms)) = X
  BY <1>2, <1>4, DistinctIs
<1>6. QED BY <1>1, <1>3, <1>4, <1>5

LEMMA TermsUnionIs ==
  ASSUME NEW S, NEW question \in Seq(S), NEW rewriting \in Seq(S)
  PROVE  \E X : /\ TermsUnion(question, rewriting) \in Seq(X)
                /\ Once(TermsUnion(question, rewriting))
                /\ ToSet(BaseForms(question)) \subseteq ToSet(TermsUnion(question, rewriting))
<1>1. PICK s, X : /\ s = TermsOnly(question) /\ X = ToSet(BaseForms(question))
                  /\ s \in Seq(X) /\ Once(s) /\ ToSet(s) = X
  BY TermsOnlyIs
<1>2. PICK t, Y : /\ t = TermsOnly(rewriting) /\ Y = ToSet(BaseForms(rewriting))
                  /\ t \in Seq(Y)
  BY TermsOnlyIs
<1>3. CASE rewriting = question
  BY <1>1, <1>3 DEF TermsUnion
<1>4. CASE rewriting # question
  <2>1. PICK Z : Z = X \union Y
    OBVIOUS
  <2>2. s \in Seq(Z) /\ t \in Seq(Z)
    <3>1. s \in [1 .. Len(s) -> Z] /\ Len(s) \in Nat
      BY <1>1, <2>1, LenProperties
    <3>2. t \in [1 .. Len(t) -> Z] /\ Len(t) \in Nat
      BY <1>2, <2>1, LenProperties
    <3>3. QED BY <3>1, <3>2, SeqDef
  <2>3. PICK c : c = s \o t
    OBVIOUS
  <2>4. c \in Seq(Z) /\ X \subseteq ToSet(c)
    BY <1>1, <2>2, <2>3, ConcatIs
  <2>5. Distinct(c) \in Seq(Z) /\ Once(Distinct(c)) /\ ToSet(Distinct(c)) = ToSet(c)
    BY <2>4, DistinctIs
  <2>6. TermsUnion(question, rewriting) = Distinct(c)
    BY <1>1, <1>2, <1>4, <2>3 DEF TermsUnion
  <2>7. QED BY <1>1, <2>4, <2>5, <2>6
<1>5. QED BY <1>3, <1>4

-----------------------------------------------------------------------------
(* The terms of a search: those of the question, each once, and others that *)
(* an original term offers.                                                 *)
AreTermsFor(terms, original, text) ==
  /\ \E X : terms \in Seq(X)
  /\ Once(terms)
  /\ original \in 0 .. Len(terms)
  /\ ToSet(BaseForms(text)) \subseteq ToSet(terms)
  /\ \A i \in original + 1 .. Len(terms) :
       \E j \in 1 .. original : \E c \in Candidates(terms[j]) : Lower(c) = terms[i]

LEMMA LowerAgain ==
  ASSUME NEW w
  PROVE  Lower(Lower(w)) = Lower(w)
<1>1. \A c : ToLower(ToLower(c)) = ToLower(c)
  BY DEF ToLower, Capitals
<1>2. DOMAIN Lower(w) = DOMAIN w /\ \A i \in DOMAIN w : Lower(w)[i] = ToLower(w[i])
  BY DEF Lower
<1>3. Lower(Lower(w)) = [i \in DOMAIN w |-> ToLower(Lower(w)[i])]
  BY <1>2 DEF Lower
<1>4. \A i \in DOMAIN w : ToLower(Lower(w)[i]) = ToLower(w[i])
  BY <1>1, <1>2
<1>5. Lower(w) = [i \in DOMAIN w |-> ToLower(w[i])]
  BY DEF Lower
<1>6. QED BY <1>3, <1>4, <1>5

LEMMA MoreValues ==
  ASSUME NEW X, NEW Y, X \subseteq Y, NEW s \in Seq(X)
  PROVE  s \in Seq(Y)
<1>1. s \in [1 .. Len(s) -> Y] /\ Len(s) \in Nat
  BY LenProperties
<1>2. QED BY <1>1, SeqDef

LEMMA FormulateIs ==
  ASSUME NEW S, NEW question \in Seq(S), NEW rewriting \in Seq(S), NEW reply,
         reply.kind = "array" => \E W : reply.words \in Seq(W)
  PROVE  LET f == Formulate(question, rewriting, reply)
         IN  AreTermsFor(f.terms, f.original, question)
<1>1. PICK base : base = TermsUnion(question, rewriting)
  OBVIOUS
<1>2. PICK X : /\ base \in Seq(X) /\ Once(base)
               /\ ToSet(BaseForms(question)) \subseteq ToSet(base)
  BY <1>1, TermsUnionIs
<1>3. PICK n \in Nat : n = Len(base) /\ DOMAIN base = 1 .. n
  BY <1>2, SeqIs
<1>4. PICK terms : terms = IF base = <<>> THEN <<>> ELSE ParseSelectedTerms(reply, base)
  OBVIOUS
<1>5. AreTermsFor(terms, n, question)
  <2>1. CASE base = <<>>
    <3>1. terms = base /\ n = 0 /\ Len(terms) = 0
      BY <1>3, <1>4, <2>1, EmptySeq
    <3>2. n \in 0 .. Len(terms)
      BY <3>1
    <3>3. \A i \in n + 1 .. Len(terms) : FALSE
      BY <3>1
    <3>4. QED BY <1>2, <3>1, <3>2, <3>3 DEF AreTermsFor
  <2>2. CASE base # <<>>
    <3>1. PICK W : reply.kind = "array" => reply.words \in Seq(W)
      OBVIOUS
    <3>2. PICK Y : Y = X \union {Lower(w) : w \in W}
      OBVIOUS
    <3>3. base \in Seq(Y)
      BY <1>2, <3>2, MoreValues
    <3>4. ReplyFor(reply, Y)
      BY <3>1, <3>2 DEF ReplyFor
    <3>5. Distinct(base) = base
      BY <1>2, DistinctIs
    <3>6. GoesOnFrom(terms, base, base, Y)
      <4>1. GoesOnFrom(ParseSelectedTerms(reply, base), Distinct(base), base, Y)
        BY <3>3, <3>4, ParseIs
      <4>2. QED BY <1>4, <2>2, <3>5, <4>1
    <3>7. /\ terms \in Seq(Y) /\ Once(terms)
          /\ n <= Len(terms) /\ \A i \in 1 .. n : terms[i] = base[i]
          /\ \A i \in n + 1 .. Len(terms) :
               IsOffered(base, terms[i]) /\ \E w : terms[i] = Lower(w)
      BY <1>3, <3>6 DEF GoesOnFrom
    <3>8. PICK m \in Nat : m = Len(terms) /\ DOMAIN terms = 1 .. m
      BY <3>7, SeqIs
    <3>9. ToSet(base) \subseteq ToSet(terms)
      <4>1. \A i \in 1 .. n : i \in 1 .. m /\ terms[i] = base[i]
        BY <3>7, <3>8
      <4>2. QED BY <1>3, <3>8, <4>1 DEF ToSet
    <3>10. ASSUME NEW i \in n + 1 .. m
           PROVE  \E j \in 1 .. n : \E c \in Candidates(terms[j]) : Lower(c) = terms[i]
      <4>1. IsOffered(base, terms[i]) /\ Lower(terms[i]) = terms[i]
        BY <3>7, <3>8, LowerAgain
      <4>2. PICK j \in 1 .. n : \E c \in Candidates(base[j]) : Lower(c) = Lower(terms[i])
        BY <1>3, <4>1 DEF IsOffered
      <4>3. QED BY <3>7, <4>1, <4>2
    <3>11. QED BY <1>2, <3>7, <3>8, <3>9, <3>10 DEF AreTermsFor
  <2>3. QED BY <2>1, <2>2
<1>6. PICK f : f = Formulate(question, rewriting, reply)
  OBVIOUS
<1>7. f.terms = terms /\ f.original = n
  BY <1>1, <1>3, <1>4, <1>6 DEF Formulate
<1>8. QED BY <1>5, <1>6, <1>7

-----------------------------------------------------------------------------
(* What joining parts gives: h[i] is the first i of them joined.            *)

AreJoins(parts, n, W, h) ==
  /\ h \in [0 .. n -> Seq(W)] /\ h[0] = <<>>
  /\ \A i \in 1 .. n : h[i] = h[i-1] \o parts[i]

(* Parts can be joined one after the other.                                 *)
LEMMA JoinsExist ==
  ASSUME NEW W, NEW n \in Nat, NEW parts \in [1 .. n -> Seq(W)]
  PROVE  \E h : AreJoins(parts, n, W, h)
<1>1. PICK X : X = Seq(W)
  OBVIOUS
<1>2. <<>> \in X
  BY <1>1, EmptySeq
<1> DEFINE T == {k \in 0 .. n : \E h : AreJoins(parts, k, W, h)}
<1>3. 0 \in T
  <2>1. AreJoins(parts, 0, W, [i \in 0 .. 0 |-> <<>>])
    BY <1>1, <1>2 DEF AreJoins
  <2>2. QED BY <2>1
<1>4. ASSUME NEW k \in 1 .. n, k - 1 \in T PROVE k \in T
  <2>1. PICK h : AreJoins(parts, k - 1, W, h)
    BY <1>4
  <2>2. /\ h \in [0 .. k - 1 -> X] /\ h[0] = <<>>
        /\ \A i \in 1 .. k - 1 : h[i] = h[i-1] \o parts[i]
    BY <1>1, <2>1 DEF AreJoins
  <2>3. PICK a \in X, b \in X : a = h[k-1] /\ b = parts[k]
    BY <1>1, <1>4, <2>2
  <2>4. PICK c \in X : c = a \o b
    BY <1>1, <2>3, ConcatProperties
  <2> DEFINE g == [i \in 0 .. k |-> IF i = k THEN c ELSE h[i]]
  <2>5. g \in [0 .. k -> X] /\ g[0] = <<>> /\ g[k] = c /\ \A i \in 0 .. k - 1 : g[i] = h[i]
    BY <2>2, <2>4
  <2>6. ASSUME NEW i \in 1 .. k PROVE g[i] = g[i-1] \o parts[i]
    <3> HIDE DEF g
    <3>1. CASE i = k
      <4>1. k - 1 \in 0 .. k - 1 /\ i - 1 = k - 1
        BY <3>1
      <4>2. g[k-1] = h[k-1]
        BY <2>5, <4>1
      <4>3. g[i] = c /\ g[i-1] = a /\ parts[i] = b
        BY <2>3, <2>5, <3>1, <4>1, <4>2
      <4>4. QED BY <2>4, <4>3
    <3>2. CASE i # k
      <4>1. i \in 1 .. k - 1 /\ i \in 0 .. k - 1 /\ i - 1 \in 0 .. k - 1
        BY <3>2
      <4>2. QED BY <2>2, <2>5, <4>1
    <3>3. QED BY <3>1, <3>2
  <2> HIDE DEF g
  <2>7. AreJoins(parts, k, W, g)
    BY <1>1, <2>5, <2>6 DEF AreJoins
  <2>8. QED BY <2>7
<1>5. n \in T
  <2> HIDE DEF T
  <2>1. 0 .. n \subseteq T
    BY <1>3, <1>4, UpTo
  <2>2. QED BY <2>1
<1>6. QED BY <1>5

LEMMA ListOf ==
  ASSUME NEW W, NEW n \in Nat, NEW parts \in [1 .. n -> Seq(W)]
  PROVE  parts \in Seq(Seq(W)) /\ Len(parts) = n /\ DOMAIN parts = 1 .. n
<1>1. PICK X : X = Seq(W)
  OBVIOUS
<1>2. parts \in [1 .. n -> X]
  BY <1>1
<1>3. parts \in Seq(X) /\ DOMAIN parts = 1 .. n
  BY <1>2, SeqDef
<1>4. Len(parts) \in Nat /\ DOMAIN parts = 1 .. Len(parts)
  BY <1>3, LenProperties
<1>5. Len(parts) = n
  BY <1>3, <1>4
<1>6. QED BY <1>1, <1>3, <1>5

(* Flattening is that joining.                                              *)
LEMMA FlattenIsJoin ==
  ASSUME NEW W, NEW n \in Nat, NEW parts \in [1 .. n -> Seq(W)],
         NEW g, AreJoins(parts, n, W, g)
  PROVE  FlattenSeq(parts) = g[n] /\ FlattenSeq(parts) \in Seq(W)
<1>1. Len(parts) = n /\ parts \in Seq(Seq(W)) /\ DOMAIN parts = 1 .. n
  BY ListOf
<1>2. PICK X : X = Seq(W)
  OBVIOUS
<1>3. /\ g \in [0 .. n -> X] /\ g[0] = <<>>
      /\ \A i \in 1 .. n : g[i] = g[i-1] \o parts[i]
  BY <1>2 DEF AreJoins
<1>4. CASE n = 0
  <2>1. FlattenSeq(parts) = parts
    BY <1>1, <1>4 DEF FlattenSeq
  <2>2. parts = <<>>
    BY <1>1, <1>2, <1>4, EmptySeq
  <2>3. QED BY <1>2, <1>3, <1>4, <2>1, <2>2, EmptySeq
<1>5. CASE n # 0
  <2> DEFINE Step(h) == [i \in 1 .. Len(parts) |-> IF i = 1 THEN parts[i] ELSE h[i-1] \o parts[i]]
             h == CHOOSE h : h = Step(h)
             f == [i \in 1 .. n |-> g[i]]
  <2>1. FlattenSeq(parts) = h[n]
    BY <1>1, <1>5 DEF FlattenSeq
  <2>2. f = Step(f)
    <3>1. ASSUME NEW i \in 1 .. n PROVE f[i] = Step(f)[i]
      <4>1. CASE i = 1
        <5>1. g[1] = g[0] \o parts[1]
          <6>1. 1 \in 1 .. n /\ 1 - 1 = 0
            BY <4>1
          <6>2. g[1] = g[1-1] \o parts[1]
            BY <1>3, <6>1
          <6>3. QED BY <6>1, <6>2
        <5>2. <<>> \o parts[1] = parts[1]
          BY <1>5, ConcatEmptySeq
        <5>3. QED BY <1>1, <1>3, <4>1, <5>1, <5>2
      <4>2. CASE i # 1
        <5>1. i - 1 \in 1 .. n
          BY <4>2
        <5>2. f[i-1] = g[i-1] /\ f[i] = g[i]
          BY <5>1
        <5>3. Step(f)[i] = f[i-1] \o parts[i]
          BY <1>1, <4>2
        <5> HIDE DEF f, Step
        <5>4. QED BY <1>3, <5>2, <5>3
      <4>3. QED BY <4>1, <4>2
    <3>2. QED BY <1>1, <3>1
  <2>3. h = Step(h)
    BY <2>2
  <2> HIDE DEF h, f
  <2> DEFINE T == {i \in 0 .. n : i = 0 \/ h[i] = g[i]}
  <2>4. 0 \in T
    OBVIOUS
  <2>5. ASSUME NEW i \in 1 .. n, i - 1 \in T PROVE i \in T
    <3>1. h[i] = IF i = 1 THEN parts[i] ELSE h[i-1] \o parts[i]
      BY <1>1, <2>3
    <3>2. CASE i = 1
      <4>1. g[1] = g[0] \o parts[1]
        <5>1. 1 \in 1 .. n /\ 1 - 1 = 0
          BY <3>2
        <5>2. g[1] = g[1-1] \o parts[1]
          BY <1>3, <5>1
        <5>3. QED BY <5>1, <5>2
      <4>2. <<>> \o parts[1] = parts[1]
        BY <1>5, ConcatEmptySeq
      <4>3. QED BY <1>3, <3>1, <3>2, <4>1, <4>2
    <3>3. CASE i # 1
      <4>1. h[i-1] = g[i-1]
        BY <2>5, <3>3
      <4>2. g[i] = g[i-1] \o parts[i] /\ h[i] = h[i-1] \o parts[i]
        BY <1>3, <3>1, <3>3
      <4>3. h[i] = g[i]
        BY <4>1, <4>2, Zenon
      <4>4. QED BY <4>3
    <3>4. QED BY <3>2, <3>3
  <2>6. n \in T
    <3> HIDE DEF T
    <3>1. 0 .. n \subseteq T
      BY <2>4, <2>5, UpTo
    <3>2. QED BY <3>1
  <2>7. QED BY <1>2, <1>3, <1>5, <2>1, <2>6
<1>6. QED BY <1>4, <1>5

LEMMA FlattenNothing ==
  ASSUME NEW parts, parts = [i \in 1 .. 0 |-> parts[i]]
  PROVE  FlattenSeq(parts) = <<>>
<1>1. parts \in [1 .. 0 -> Seq({})]
  OBVIOUS
<1>2. Len(parts) = 0 /\ parts \in Seq(Seq({}))
  BY <1>1, ListOf
<1>3. PICK X : X = Seq({})
  OBVIOUS
<1>4. parts = <<>>
  BY <1>2, <1>3, EmptySeq
<1>5. QED BY <1>2, <1>4 DEF FlattenSeq

Again(a, b, c) == (a \o b) \o c = a \o (b \o c)

LEMMA JoinAgain ==
  ASSUME NEW W, NEW a \in Seq(W), NEW b \in Seq(W), NEW c \in Seq(W)
  PROVE  Again(a, b, c)
BY ConcatAssociative DEF Again

(* The first of some parts, and then the others.                            *)
LEMMA FlattenFirst ==
  ASSUME NEW W, NEW n \in Nat \ {0}, NEW parts \in [1 .. n -> Seq(W)],
         NEW others \in [1 .. n - 1 -> Seq(W)], \A i \in 1 .. n - 1 : others[i] = parts[i + 1]
  PROVE  FlattenSeq(parts) = parts[1] \o FlattenSeq(others)
<1>1. n - 1 \in Nat
  OBVIOUS
<1>2. PICK h : AreJoins(others, n - 1, W, h)
  BY <1>1, JoinsExist
<1>3. FlattenSeq(others) = h[n-1]
  BY <1>1, <1>2, FlattenIsJoin, ZenonT(40)
<1>4. PICK X : X = Seq(W)
  OBVIOUS
<1>5. /\ h \in [0 .. n - 1 -> X] /\ h[0] = <<>>
      /\ \A i \in 1 .. n - 1 : h[i] = h[i-1] \o others[i]
  BY <1>2, <1>4 DEF AreJoins
<1>6. PICK a \in X : a = parts[1]
  BY <1>4
<1>7. \A s \in X : a \o s \in X /\ a \o <<>> = a /\ <<>> \o a = a
  BY <1>4, <1>6, ConcatProperties, ConcatEmptySeq
<1> DEFINE g == [i \in 0 .. n |-> IF i = 0 THEN <<>> ELSE a \o h[i-1]]
<1>8. g \in [0 .. n -> X] /\ g[0] = <<>> /\ \A i \in 1 .. n : g[i] = a \o h[i-1]
  <2>1. <<>> \in X
    BY <1>4, EmptySeq
  <2>2. \A i \in 1 .. n : h[i-1] \in X
    BY <1>5
  <2>3. QED BY <1>7, <2>1, <2>2
<1>9. ASSUME NEW i \in 1 .. n PROVE g[i] = g[i-1] \o parts[i]
  <2> HIDE DEF g
  <2>1. CASE i = 1
    BY <1>5, <1>6, <1>7, <1>8, <2>1
  <2>2. CASE i # 1
    <3>1. PICK j \in 1 .. n - 1 : j = i - 1
      BY <2>2
    <3>2. j - 1 \in 0 .. n - 1 /\ j + 1 = i /\ i - 1 = j /\ j \in 1 .. n
      BY <3>1
    <3>3. h[j-1] \in X /\ parts[i] \in X
      BY <1>4, <1>5, <3>2
    <3>4. PICK b \in X, c \in X : b = h[j-1] /\ c = parts[i]
      BY <3>3
    <3>5. h[j] = b \o c
      <4>1. h[j] = h[j-1] \o others[j] /\ others[j] = parts[i]
        BY <1>5, <3>1, <3>2
      <4>2. QED BY <3>4, <4>1
    <3>6. Again(a, b, c)
      <4>1. a \in Seq(W) /\ b \in Seq(W) /\ c \in Seq(W)
        BY <1>4, <1>6, <3>4
      <4>2. QED BY <4>1, JoinAgain
    <3>7. g[i] = a \o h[j] /\ g[j] = a \o b
      <4>1. g[i] = a \o h[i-1] /\ g[j] = a \o h[j-1]
        BY <1>8, <3>2
      <4>2. QED BY <3>2, <3>4, <4>1
    <3>8. QED BY <3>2, <3>4, <3>5, <3>6, <3>7 DEF Again
  <2>3. QED BY <2>1, <2>2
<1> HIDE DEF g
<1>10. AreJoins(parts, n, W, g)
  BY <1>4, <1>8, <1>9 DEF AreJoins
<1>11. FlattenSeq(parts) = g[n]
  <2>1. n \in Nat
    OBVIOUS
  <2>2. QED BY <1>10, <2>1, FlattenIsJoin, ZenonT(40)
<1>12. g[n] = a \o h[n-1]
  BY <1>8
<1>13. QED BY <1>3, <1>6, <1>11, <1>12

LEMMA FlattenIsText ==
  ASSUME NEW W, NEW n \in Nat, NEW parts \in [1 .. n -> Seq(W)]
  PROVE  FlattenSeq(parts) \in Seq(W)
BY JoinsExist, FlattenIsJoin

(* What is left of some parts after the first k of them.                    *)
After(parts, k) ==
  FlattenSeq([m \in 1 .. Len(parts) - k |-> parts[k + m]])

(* The rest of some parts begins with the next of them.                     *)
LEMMA AfterIs ==
  ASSUME NEW W, NEW parts \in Seq(Seq(W)), NEW k \in 0 .. Len(parts)
  PROVE  /\ After(parts, k) \in Seq(W)
         /\ After(parts, Len(parts)) = <<>>
         /\ After(parts, 0) = FlattenSeq(parts)
         /\ k < Len(parts) => After(parts, k) = parts[k+1] \o After(parts, k + 1)
<1>1. PICK X : X = Seq(W)
  OBVIOUS
<1>2. PICK n \in Nat : n = Len(parts) /\ DOMAIN parts = 1 .. n /\ parts \in [1 .. n -> X]
  <2>1. Len(parts) \in Nat /\ DOMAIN parts = 1 .. Len(parts) /\ parts \in [1 .. Len(parts) -> X]
    BY <1>1, LenProperties
  <2>2. QED BY <2>1
<1> k \in 0 .. n
  BY <1>2
<1>3. PICK r : r = [m \in 1 .. n - k |-> parts[k + m]]
  OBVIOUS
<1>4. n - k \in Nat /\ r \in [1 .. n - k -> X] /\ \A m \in 1 .. n - k : r[m] = parts[k + m]
  <2>1. \A m \in 1 .. n - k : k + m \in 1 .. n
    BY <1>2
  <2>2. QED BY <1>2, <1>3, <2>1
<1>5. After(parts, k) = FlattenSeq(r)
  BY <1>2, <1>3 DEF After
<1>6. After(parts, k) \in Seq(W)
  BY <1>1, <1>4, <1>5, FlattenIsText
<1>7. After(parts, Len(parts)) = <<>>
  <2>1. PICK e : e = [m \in 1 .. n - n |-> parts[n + m]]
    OBVIOUS
  <2>2. e = [i \in 1 .. 0 |-> e[i]]
    BY <2>1
  <2>3. FlattenSeq(e) = <<>>
    BY <2>2, FlattenNothing
  <2>4. QED BY <1>2, <2>1, <2>3 DEF After
<1>8. After(parts, 0) = FlattenSeq(parts)
  <2>1. [m \in 1 .. n - 0 |-> parts[0 + m]] = parts
    BY <1>2
  <2>2. QED BY <1>2, <2>1 DEF After
<1>9. ASSUME k < n PROVE After(parts, k) = parts[k+1] \o After(parts, k + 1)
  <2>1. PICK l \in Nat \ {0} : l = n - k
    <3>1. k \in Nat /\ n \in Nat /\ k < n
      BY <1>9
    <3>2. n - k \in Nat \ {0}
      BY <3>1
    <3>3. QED BY <3>2
  <2>2. PICK o : o = [m \in 1 .. n - (k + 1) |-> parts[(k + 1) + m]]
    OBVIOUS
  <2>3. /\ o \in [1 .. l - 1 -> X] /\ \A m \in 1 .. l - 1 : o[m] = r[m+1]
    <3>1. n - (k + 1) = l - 1
      <4>1. k \in Nat /\ n \in Nat
        OBVIOUS
      <4>2. n - (k + 1) = n - k - 1
        BY <4>1
      <4>3. QED BY <2>1, <4>2
    <3>2. ASSUME NEW m \in 1 .. l - 1 PROVE o[m] = r[m+1] /\ o[m] \in X
      <4>1. m + 1 \in 1 .. n - k /\ (k + 1) + m = k + (m + 1) /\ m \in 1 .. n - (k + 1)
        BY <2>1, <3>1
      <4>2. o[m] = parts[(k+1) + m] /\ r[m+1] = parts[k + (m+1)] /\ r[m+1] \in X
        BY <1>4, <2>2, <4>1
      <4>3. QED BY <4>1, <4>2
    <3>3. QED BY <2>2, <3>1, <3>2
  <2>4. FlattenSeq(r) = r[1] \o FlattenSeq(o)
    <3>1. r \in [1 .. l -> Seq(W)] /\ o \in [1 .. l - 1 -> Seq(W)]
      BY <1>1, <1>4, <2>1, <2>3
    <3>2. QED BY <2>3, <3>1, FlattenFirst
  <2>5. r[1] = parts[k+1]
    BY <1>4, <2>1
  <2>6. After(parts, k + 1) = FlattenSeq(o)
    BY <1>2, <2>2 DEF After
  <2>7. QED BY <1>5, <2>4, <2>5, <2>6
<1>10. QED BY <1>2, <1>6, <1>7, <1>8, <1>9

-----------------------------------------------------------------------------
(* What is still to be read of a text.                                      *)
Signs == STRING \union {Quote, Comma, CR, LF}
Strings == Seq(Signs)

IsRest(text, next, rest) ==
  /\ text \in Strings /\ rest \in Strings
  /\ next \in 1 .. Len(text) + 1
  /\ Len(rest) = Len(text) + 1 - next
  /\ \A m \in 1 .. Len(rest) : rest[m] = text[next - 1 + m]

LEMMA RestAtFirst ==
  ASSUME NEW text \in Strings
  PROVE  IsRest(text, 1, text)
<1>1. Len(text) \in Nat
  BY SeqIs DEF Strings
<1>2. QED BY <1>1 DEF IsRest

LEMMA SingleIs ==
  ASSUME NEW X, NEW c \in X
  PROVE  <<c>> \in Seq(X)
OBVIOUS

LEMMA LeadIs ==
  ASSUME NEW c \in Signs, NEW s \in Strings
  PROVE  /\ <<c>> \o s \in Strings /\ Len(<<c>> \o s) = Len(s) + 1 /\ Len(s) \in Nat
         /\ (<<c>> \o s)[1] = c
         /\ \A m \in 1 .. Len(s) : (<<c>> \o s)[m + 1] = s[m]
<1>1. PICK n \in Nat : n = Len(s)
  BY SeqIs DEF Strings
<1>2. PICK o \in Strings : o = <<c>> /\ Len(o) = 1 /\ o[1] = c
  <2>1. <<c>> \in Strings
    BY SingleIs DEF Strings
  <2>2. Len(<<c>>) = 1 /\ <<c>>[1] = c
    OBVIOUS
  <2>3. QED BY <2>1, <2>2
<1>3. PICK t : t = o \o s
  OBVIOUS
<1>4. /\ t \in Strings /\ Len(t) = 1 + n
      /\ \A i \in 1 .. 1 + n : t[i] = IF i <= 1 THEN o[i] ELSE s[i - 1]
  BY <1>1, <1>2, <1>3, ConcatProperties DEF Strings
<1>5. \A m \in 1 .. n : t[m+1] = s[m]
  <2>1. ASSUME NEW m \in 1 .. n PROVE t[m+1] = s[m]
    <3>1. m + 1 \in 1 .. 1 + n /\ ~ (m + 1 <= 1) /\ m + 1 - 1 = m
      OBVIOUS
    <3>2. QED BY <1>4, <3>1
  <2>2. QED BY <2>1
<1>6. t[1] = c
  <2>1. 1 \in 1 .. 1 + n /\ 1 <= 1
    OBVIOUS
  <2>2. QED BY <1>2, <1>4, <2>1
<1>7. Len(t) = n + 1
  BY <1>4
<1>8. QED BY <1>1, <1>2, <1>3, <1>4, <1>5, <1>6, <1>7

(* After the character that is next comes the rest without it.              *)
LEMMA RestGoesOn ==
  ASSUME NEW text, NEW n, NEW c \in Signs, NEW more \in Strings,
         IsRest(text, n, <<c>> \o more)
  PROVE  /\ n \in Nat /\ Len(text) \in Nat /\ ~ (n > Len(text)) /\ text[n] = c
         /\ IsRest(text, n + 1, more)
<1>1. PICK l \in Nat : l = Len(text)
  BY SeqIs DEF Strings, IsRest
<1>2. PICK rest : rest = <<c>> \o more
  OBVIOUS
<1>3. PICK k \in Nat : /\ k = Len(more) /\ Len(rest) = k + 1 /\ rest[1] = c
                       /\ \A m \in 1 .. k : rest[m + 1] = more[m]
  <2>1. /\ Len(rest) = Len(more) + 1 /\ Len(more) \in Nat /\ rest[1] = c
        /\ \A m \in 1 .. Len(more) : rest[m + 1] = more[m]
    BY <1>2, LeadIs
  <2>2. QED BY <2>1
<1>4. /\ text \in Strings /\ n \in 1 .. l + 1 /\ k + 1 = l + 1 - n
      /\ \A m \in 1 .. k + 1 : rest[m] = text[n - 1 + m]
  BY <1>1, <1>2, <1>3 DEF IsRest
<1>5. ASSUME NEW m \in 1 .. k PROVE more[m] = text[(n + 1) - 1 + m]
  <2>1. m + 1 \in 1 .. k + 1 /\ n - 1 + (m + 1) = (n + 1) - 1 + m
    BY <1>4
  <2>2. rest[m+1] = text[n - 1 + (m + 1)]
    BY <1>4, <2>1
  <2>3. QED BY <1>3, <2>1, <2>2
<1>6. n + 1 \in 1 .. l + 1 /\ k = l + 1 - (n + 1) /\ ~ (n > l) /\ n \in Nat
  BY <1>4
<1>7. text[n] = c
  <2>1. 1 \in 1 .. k + 1 /\ n - 1 + 1 = n
    BY <1>4
  <2>2. QED BY <1>3, <1>4, <2>1
<1>8. IsRest(text, n + 1, more)
  BY <1>1, <1>3, <1>4, <1>5, <1>6 DEF IsRest
<1>9. QED BY <1>1, <1>6, <1>7, <1>8

(* With nothing left the text is at its end.                                *)
LEMMA RestEnds ==
  ASSUME NEW text, NEW n, IsRest(text, n, <<>>)
  PROVE  n \in Nat /\ Len(text) \in Nat /\ n > Len(text)
<1>1. Len(text) \in Nat
  BY SeqIs DEF Strings, IsRest
<1>2. Len(<<>>) = 0
  OBVIOUS
<1>3. QED BY <1>1, <1>2 DEF IsRest

LEMMA RestSeen ==
  ASSUME NEW text, NEW n, NEW rest, IsRest(text, n, rest), n <= Len(text)
  PROVE  rest # <<>> /\ rest[1] = text[n]
<1>1. PICK l \in Nat : l = Len(text)
  BY SeqIs DEF Strings, IsRest
<1>2. n \in 1 .. l + 1 /\ n <= l /\ Len(rest) = l + 1 - n
  BY <1>1 DEF IsRest
<1>3. 1 \in 1 .. Len(rest) /\ n - 1 + 1 = n /\ Len(rest) # 0
  BY <1>2
<1>4. rest[1] = text[n - 1 + 1]
  BY <1>3 DEF IsRest
<1>5. QED BY <1>3, <1>4

(* A written table, part by part.                                           *)
Codes(cell) ==
  [i \in DOMAIN cell |-> IF cell[i] = Quote THEN <<Quote, Quote>> ELSE <<cell[i]>>]

IsQuoted(cell, q) == q \/ MustQuote(cell)

Fields(row, q) ==
  [i \in DOMAIN row |-> (IF i = 1 THEN <<>> ELSE <<Comma>>) \o WriteCell(row[i], q)]

RowEnd(f, i) == IF i < Len(f.table) \/ f.lastEnd THEN f.lineEnd ELSE <<>>

WrittenRows(f) ==
  [i \in DOMAIN f.table |-> WriteRow(f.table[i], f.quoteAll) \o RowEnd(f, i)]

(* What follows the i-th row and the j-th cell of it.                       *)
AfterRow(f, i) == RowEnd(f, i) \o After(WrittenRows(f), i)
AfterCell(f, i, j) == After(Fields(f.table[i], f.quoteAll), j) \o AfterRow(f, i)

LEMMA SignsAre ==
  /\ Quote \in Signs /\ Comma \in Signs /\ CR \in Signs /\ LF \in Signs
  /\ Quote # Comma /\ Quote # CR /\ Quote # LF /\ Comma # CR /\ Comma # LF /\ CR # LF
<1>1. Quote # Comma /\ Quote # CR /\ Quote # LF
  BY DEF Quote, Comma, CR, LF
<1>2. Comma # CR /\ Comma # LF /\ CR # LF
  BY DEF Comma, CR, LF
<1>3. QED BY <1>1, <1>2 DEF Signs

LEMMA StringIs ==
  ASSUME NEW s \in Strings
  PROVE  Len(s) \in Nat /\ DOMAIN s = 1 .. Len(s) /\ \A i \in 1 .. Len(s) : s[i] \in Signs
BY SeqIs DEF Strings

LEMMA JoinIs ==
  ASSUME NEW a \in Strings, NEW b \in Strings
  PROVE  a \o b \in Strings
BY ConcatProperties DEF Strings

LEMMA JoinNothing ==
  ASSUME NEW a \in Strings
  PROVE  a \o <<>> = a /\ <<>> \o a = a
BY ConcatEmptySeq DEF Strings

LEMMA SinglesAre ==
  /\ <<>> \in Strings /\ <<Quote>> \in Strings /\ <<Comma>> \in Strings
  /\ \A c \in Signs : <<c>> \in Strings
<1>1. \A c \in Signs : <<c>> \in Strings
  BY SingleIs DEF Strings
<1>2. <<>> \in Strings
  BY EmptySeq DEF Strings
<1>3. QED BY <1>1, <1>2, SignsAre

LEMMA StringsAgain ==
  ASSUME NEW a \in Strings, NEW b \in Strings, NEW c \in Strings
  PROVE  Again(a, b, c)
BY JoinAgain DEF Strings

LEMMA AfterStrings ==
  ASSUME NEW parts \in Seq(Strings), NEW k \in 0 .. Len(parts)
  PROVE  /\ After(parts, k) \in Strings
         /\ After(parts, Len(parts)) = <<>>
         /\ After(parts, 0) = FlattenSeq(parts)
         /\ k < Len(parts) => After(parts, k) = parts[k+1] \o After(parts, k + 1)
BY AfterIs DEF Strings

LEMMA ListIs ==
  ASSUME NEW s, NEW n \in Nat, NEW X, s \in [1 .. n -> X]
  PROVE  s \in Seq(X) /\ Len(s) = n /\ DOMAIN s = 1 .. n
<1>1. s \in Seq(X) /\ DOMAIN s = 1 .. n
  BY SeqDef
<1>2. Len(s) \in Nat /\ DOMAIN s = 1 .. Len(s)
  BY <1>1, LenProperties
<1>3. QED BY <1>1, <1>2

(* A character within quotes is written once or twice.                      *)
LEMMA CodesAre ==
  ASSUME NEW cell \in Strings
  PROVE  /\ Codes(cell) \in Seq(Strings) /\ Len(Codes(cell)) = Len(cell)
         /\ \A i \in 1 .. Len(cell) :
              Codes(cell)[i] = IF cell[i] = Quote THEN <<Quote>> \o <<Quote>> ELSE <<cell[i]>>
<1>1. PICK n \in Nat : n = Len(cell) /\ DOMAIN cell = 1 .. n /\ \A i \in 1 .. n : cell[i] \in Signs
  BY StringIs
<1>2. <<Quote, Quote>> = <<Quote>> \o <<Quote>>
  OBVIOUS
<1>3. PICK codes : codes = Codes(cell)
  OBVIOUS
<1>4. \A i \in 1 .. n : codes[i] = IF cell[i] = Quote THEN <<Quote>> \o <<Quote>> ELSE <<cell[i]>>
  BY <1>1, <1>2, <1>3 DEF Codes
<1>5. <<Quote>> \o <<Quote>> \in Strings
  BY SinglesAre, JoinIs
<1>6. codes \in [1 .. n -> Strings]
  <2>1. \A i \in 1 .. n : codes[i] \in Strings
    BY <1>1, <1>4, <1>5, SinglesAre
  <2>2. codes = [i \in 1 .. n |-> codes[i]]
    BY <1>1, <1>3 DEF Codes
  <2>3. QED BY <2>1, <2>2
<1>7. QED BY <1>1, <1>3, <1>4, <1>6, ListIs

(* A cell is written in quotes or as it is.                                 *)
LEMMA CellIs ==
  ASSUME NEW cell \in Strings, NEW q \in BOOLEAN
  PROVE  /\ WriteCell(cell, q) \in Strings
         /\ IsQuoted(cell, q) =>
              WriteCell(cell, q) = <<Quote>> \o (After(Codes(cell), 0) \o <<Quote>>)
         /\ ~IsQuoted(cell, q) => WriteCell(cell, q) = cell
<1>1. Codes(cell) \in Seq(Strings) /\ Len(Codes(cell)) \in Nat
  BY CodesAre, StringIs
<1>2. PICK body \in Strings : body = FlattenSeq(Codes(cell)) /\ body = After(Codes(cell), 0)
  <2>1. 0 \in 0 .. Len(Codes(cell))
    BY <1>1
  <2>2. QED BY <1>1, <2>1, AfterStrings
<1>3. CASE IsQuoted(cell, q)
  <2>1. WriteCell(cell, q) = (<<Quote>> \o body) \o <<Quote>>
    BY <1>2, <1>3 DEF WriteCell, IsQuoted, Codes
  <2>2. Again(<<Quote>>, body, <<Quote>>)
    BY SinglesAre, StringsAgain
  <2>3. body \o <<Quote>> \in Strings
    BY SinglesAre, JoinIs
  <2>4. <<Quote>> \o (body \o <<Quote>>) \in Strings
    BY <2>3, SinglesAre, JoinIs
  <2>5. QED BY <1>2, <1>3, <2>1, <2>2, <2>4 DEF Again
<1>4. CASE ~IsQuoted(cell, q)
  BY <1>4 DEF WriteCell, IsQuoted
<1>5. QED BY <1>3, <1>4

(* The cells of a row, with the commas between them.                        *)
LEMMA FieldsAre ==
  ASSUME NEW row \in Seq(Strings), NEW q \in BOOLEAN, row # <<>>
  PROVE  /\ Fields(row, q) \in Seq(Strings) /\ Len(Fields(row, q)) = Len(row)
         /\ Fields(row, q)[1] = WriteCell(row[1], q)
         /\ \A i \in 2 .. Len(row) : Fields(row, q)[i] = <<Comma>> \o WriteCell(row[i], q)
<1>1. PICK n \in Nat : n = Len(row) /\ DOMAIN row = 1 .. n /\ \A i \in 1 .. n : row[i] \in Strings
  BY SeqIs
<1>2. n # 0
  BY <1>1, EmptySeq
<1>3. \A i \in 1 .. n : WriteCell(row[i], q) \in Strings
  BY <1>1, CellIs
<1>4. PICK fs : fs = Fields(row, q)
  OBVIOUS
<1>5. fs[1] = WriteCell(row[1], q)
  <2>1. 1 \in 1 .. n
    BY <1>2
  <2>2. fs[1] = <<>> \o WriteCell(row[1], q)
    BY <1>1, <1>4, <2>1 DEF Fields
  <2>3. QED BY <1>3, <2>1, <2>2, JoinNothing
<1>6. \A i \in 2 .. n : fs[i] = <<Comma>> \o WriteCell(row[i], q)
  BY <1>1, <1>4 DEF Fields
<1>7. fs \in [1 .. n -> Strings]
  <2>1. ASSUME NEW i \in 1 .. n PROVE fs[i] \in Strings
    <3>1. CASE i = 1
      BY <1>3, <1>5, <3>1
    <3>2. CASE i # 1
      <4>1. i \in 2 .. n
        BY <3>2
      <4>2. <<Comma>> \o WriteCell(row[i], q) \in Strings
        BY <1>3, SinglesAre, JoinIs
      <4>3. QED BY <1>6, <4>1, <4>2
    <3>3. QED BY <3>1, <3>2
  <2>2. fs = [i \in 1 .. n |-> fs[i]]
    BY <1>1, <1>4 DEF Fields
  <2>3. QED BY <2>1, <2>2
<1>8. QED BY <1>1, <1>4, <1>5, <1>6, <1>7, ListIs

(* A row is its first cell and what comes after that.                       *)
LEMMA RowIs ==
  ASSUME NEW row \in Seq(Strings), NEW q \in BOOLEAN, row # <<>>
  PROVE  /\ WriteRow(row, q) \in Strings
         /\ WriteRow(row, q) = WriteCell(row[1], q) \o After(Fields(row, q), 1)
<1>1. PICK n \in Nat : n = Len(row) /\ n # 0
  BY SeqIs, EmptySeq
<1>2. PICK fs \in Seq(Strings) : fs = Fields(row, q) /\ Len(fs) = n /\ fs[1] = WriteCell(row[1], q)
  BY <1>1, FieldsAre
<1>3. WriteRow(row, q) = FlattenSeq(fs)
  BY <1>2 DEF WriteRow, Fields
<1>4. 0 \in 0 .. Len(fs) /\ 0 < Len(fs)
  BY <1>1, <1>2
<1>5. PICK k \in 0 .. Len(fs) : k = 0
  BY <1>4
<1>6. After(fs, k) \in Strings /\ After(fs, 0) = FlattenSeq(fs) /\ After(fs, k) = fs[k+1] \o After(fs, k+1)
  BY <1>4, <1>5, AfterStrings
<1>7. k + 1 = 1
  BY <1>5
<1>8. QED BY <1>2, <1>3, <1>5, <1>6, <1>7

-----------------------------------------------------------------------------
(* The reader, one character at a time: a CR LF pair is two of them, for    *)
(* after the CR the line is blank.                                          *)

ReaderIs(r) ==
  /\ DOMAIN r = {"at", "field", "row", "rows", "width", "content", "next", "outcome"}
  /\ r.outcome = "reading" /\ r.next \in Nat

AtBlank(r) == r.at = "fieldStart" /\ r.content = FALSE /\ r.field = <<>> /\ r.row = <<>>

One(r, text) == [Consume(r, text[r.next], FALSE) EXCEPT !.next = r.next + 1]

(* The end of a row: the first sets the width, any other must have it.      *)
LEMMA FinishRowIs ==
  ASSUME NEW r, ReaderIs(r)
  PROVE  LET s == FinishRow(r)
             row == Append(r.row, r.field)
         IN  /\ s.outcome = "failed" \/ s.outcome = "reading"
             /\ s.outcome = "reading" => ReaderIs(s) /\ AtBlank(s) /\ s.next = r.next
             /\ s.outcome = "failed" <=> r.width # NoHeader /\ Len(row) # r.width
             /\ r.width = NoHeader => s.width = Len(row) /\ s.rows = r.rows
             /\ r.width # NoHeader /\ Len(row) = r.width =>
                  s.width = r.width /\ s.rows = Append(r.rows, JoinWords(row))
<1>1. PICK d : d = [r EXCEPT !.row = <<>>, !.field = <<>>, !.at = "fieldStart", !.content = FALSE]
  OBVIOUS
<1>2. PICK row : row = Append(r.row, r.field)
  OBVIOUS
<1>3. /\ ReaderIs(d) /\ AtBlank(d)
      /\ d.next = r.next /\ d.width = r.width /\ d.rows = r.rows
  BY <1>1 DEF ReaderIs, AtBlank
<1>4. CASE r.width = NoHeader
  <2>1. FinishRow(r) = [d EXCEPT !.width = Len(row)]
    BY <1>1, <1>2, <1>4, Zenon DEF FinishRow
  <2>2. QED BY <1>2, <1>3, <1>4, <2>1 DEF ReaderIs, AtBlank
<1>5. CASE r.width # NoHeader /\ Len(row) # r.width
  <2>1. FinishRow(r) = [d EXCEPT !.outcome = "failed"]
    BY <1>1, <1>2, <1>5, Zenon DEF FinishRow
  <2>2. QED BY <1>2, <1>3, <1>5, <2>1 DEF ReaderIs, AtBlank
<1>6. CASE r.width # NoHeader /\ Len(row) = r.width
  <2>1. PICK rows : rows = Append(r.rows, JoinWords(row))
    OBVIOUS
  <2>2. FinishRow(r) = [d EXCEPT !.rows = Append(@, JoinWords(row))]
    BY <1>1, <1>2, <1>6, Zenon DEF FinishRow
  <2>3. FinishRow(r) = [d EXCEPT !.rows = rows]
    BY <1>3, <2>1, <2>2
  <2>4. QED BY <1>2, <1>3, <1>6, <2>1, <2>3 DEF ReaderIs, AtBlank
<1>7. QED BY <1>2, <1>4, <1>5, <1>6

(* A line break leaves the reader at a blank line, or fails.                *)
LEMMA BreakLeavesBlank ==
  ASSUME NEW r, ReaderIs(r), NEW c \in Breaks, r.at # "quoted"
  PROVE  LET s == Consume(r, c, FALSE)
         IN  /\ s.outcome = "failed" \/ s.outcome = "reading"
             /\ s.outcome = "reading" => ReaderIs(s) /\ AtBlank(s) /\ s.next = r.next
<1>1. c # Quote /\ c # Comma /\ c \in {CR, LF}
  BY SignsAre DEF Breaks
<1>2. CASE r.at = "quoteSeen" \/ ~IsBlank(r)
  <2>1. Consume(r, c, FALSE) = FinishRow(r)
    BY <1>1, <1>2 DEF Consume
  <2>2. QED BY <2>1, FinishRowIs
<1>3. CASE r.at # "quoteSeen" /\ IsBlank(r)
  <2>1. Consume(r, c, FALSE) = r
    BY <1>1, <1>3 DEF Consume
  <2>2. AtBlank(r)
    BY <1>3 DEF IsBlank, AtBlank
  <2>3. QED BY <2>1, <2>2 DEF ReaderIs
<1>4. QED BY <1>2, <1>3

(* At a blank line a line break changes nothing.                            *)
LEMMA BlankStays ==
  ASSUME NEW r, AtBlank(r), NEW c \in Breaks
  PROVE  Consume(r, c, FALSE) = r
<1>1. c # Quote /\ c # Comma /\ c \in {CR, LF}
  BY SignsAre DEF Breaks
<1>2. QED BY <1>1 DEF Consume, AtBlank, IsBlank

(* The reader takes one character, or a CR LF pair one by one.              *)
LEMMA ReadsOneOrTwo ==
  ASSUME NEW r, ReaderIs(r), NEW text, r.next \in 1 .. Len(text), Len(text) \in Nat,
         One(r, text).outcome # "failed"
  PROVE  \/ ReadChar(r, text) = One(r, text)
         \/ /\ One(r, text).next \in 1 .. Len(text)
            /\ ReadChar(r, text) = One(One(r, text), text)
<1>1. PICK n \in Nat, l \in Nat : n = r.next /\ l = Len(text) /\ n \in 1 .. l
  BY DEF ReaderIs
<1>2. PICK s : s = Consume(r, text[n], FALSE)
  OBVIOUS
<1>3. One(r, text) = [s EXCEPT !.next = n + 1]
  BY <1>1, <1>2 DEF One
<1>4. s.outcome # "failed"
  <2>1. [s EXCEPT !.next = n + 1].outcome = s.outcome \/ "outcome" \notin DOMAIN s
    OBVIOUS
  <2>2. QED BY <1>3, <2>1
<1>5. ReadChar(r, text) = [s EXCEPT !.next = n + StepWidth(r, text)]
  <2>1. (r.next > Len(text)) = FALSE
    BY <1>1
  <2>2. ReadChar(r, text) = [s EXCEPT !.next = r.next + StepWidth(r, text)]
    BY <1>1, <1>2, <1>4, <2>1 DEF ReadChar
  <2>3. QED BY <1>1, <2>2
<1>6. CASE StepWidth(r, text) = 1
  BY <1>3, <1>5, <1>6
<1>7. CASE StepWidth(r, text) = 2
  <2>1. r.at # "quoted" /\ text[n] = CR /\ n < l /\ text[n+1] = LF
    BY <1>1, <1>7 DEF StepWidth
  <2>2. CR \in Breaks /\ LF \in Breaks
    BY DEF Breaks
  <2>3. ReaderIs(s) /\ AtBlank(s) /\ s.next = n
    BY <1>1, <1>2, <1>4, <2>1, <2>2, BreakLeavesBlank
  <2>4. PICK t : t = [s EXCEPT !.next = n + 1]
    OBVIOUS
  <2>5. t.next = n + 1 /\ AtBlank(t) /\ [t EXCEPT !.next = n + 2] = [s EXCEPT !.next = n + 2]
    BY <2>3, <2>4 DEF ReaderIs, AtBlank
  <2>6. One(t, text) = [t EXCEPT !.next = (n + 1) + 1]
    BY <2>1, <2>2, <2>5, BlankStays DEF One
  <2>7. (n + 1) + 1 = n + 2 /\ n + 1 \in 1 .. l
    BY <1>1, <2>1
  <2>8. QED BY <1>1, <1>3, <1>5, <1>7, <2>4, <2>5, <2>6, <2>7
<1>8. QED BY <1>6, <1>7 DEF StepWidth

(* A character that fails fails the step that reads it.                     *)
LEMMA FailsAtOnce ==
  ASSUME NEW r, NEW text, r.next <= Len(text), r.next \in Nat, Len(text) \in Nat,
         One(r, text).outcome = "failed"
  PROVE  ReadChar(r, text).outcome = "failed"
<1>1. PICK s : s = Consume(r, text[r.next], FALSE)
  OBVIOUS
<1>2. s.outcome = "failed"
  <2>1. [s EXCEPT !.next = r.next + 1].outcome = s.outcome
    OBVIOUS
  <2>2. QED BY <1>1, <2>1 DEF One
<1>3. (r.next > Len(text)) = FALSE
  OBVIOUS
<1>4. ReadChar(r, text) = s
  BY <1>1, <1>2, <1>3 DEF ReadChar
<1>5. QED BY <1>2, <1>4

(* What a character does to the reader.                                     *)
Keeps(s, r) ==
  ReaderIs(s) /\ s.rows = r.rows /\ s.width = r.width /\ s.next = r.next

Takes(s, r, c, state) ==
  /\ Keeps(s, r) /\ s.row = r.row /\ s.field = Append(r.field, c) /\ s.at = state

(* Within quotes everything but a quote is taken.                           *)
LEMMA WithinQuotes ==
  ASSUME NEW r, ReaderIs(r), r.at = "quoted", NEW c
  PROVE  LET s == Consume(r, c, FALSE)
         IN  /\ c # Quote => Takes(s, r, c, "quoted") /\ s.content = TRUE
             /\ c = Quote => /\ Keeps(s, r) /\ s.row = r.row /\ s.field = r.field
                             /\ s.at = "quoteSeen" /\ s.content = r.content
<1>1. CASE c # Quote
  <2>1. Consume(r, c, FALSE) = AppendChar(r, c, "quoted")
    BY <1>1 DEF Consume
  <2>2. PICK f : f = Append(r.field, c)
    OBVIOUS
  <2>3. AppendChar(r, c, "quoted") = [r EXCEPT !.field = Append(@, c), !.content = TRUE, !.at = "quoted"]
    BY DEF AppendChar
  <2>4. PICK s : s = Consume(r, c, FALSE)
    OBVIOUS
  <2>5. s = [r EXCEPT !.field = f, !.content = TRUE, !.at = "quoted"]
    BY <2>1, <2>2, <2>3, <2>4 DEF ReaderIs
  <2>6. /\ ReaderIs(s) /\ s.rows = r.rows /\ s.width = r.width /\ s.next = r.next
        /\ s.row = r.row
    BY <2>5 DEF ReaderIs
  <2>7. s.field = f /\ s.at = "quoted" /\ s.content = TRUE
    BY <2>5 DEF ReaderIs
  <2>8. QED BY <1>1, <2>2, <2>4, <2>6, <2>7 DEF Takes, Keeps
<1>2. CASE c = Quote
  <2>1. Consume(r, c, FALSE) = [r EXCEPT !.at = "quoteSeen"]
    BY <1>2 DEF Consume
  <2>2. QED BY <1>2, <2>1 DEF Keeps, ReaderIs
<1>3. QED BY <1>1, <1>2

(* After a quote another quote is taken, and other text fails.              *)
LEMMA AfterQuote ==
  ASSUME NEW r, ReaderIs(r), r.at = "quoteSeen", NEW c, c # Comma, c \notin Breaks
  PROVE  LET s == Consume(r, c, FALSE)
         IN  /\ c = Quote => Takes(s, r, c, "quoted") /\ s.content = r.content
             /\ c # Quote => s.outcome = "failed"
<1>1. CASE c # Quote
  <2>1. Consume(r, c, FALSE) = Fail(r)
    BY <1>1 DEF Consume, Breaks
  <2>2. Fail(r).outcome = "failed"
    BY DEF Fail, ReaderIs
  <2>3. QED BY <1>1, <2>1, <2>2
<1>2. CASE c = Quote
  <2>1. Consume(r, c, FALSE) = [r EXCEPT !.field = Append(@, c), !.at = "quoted"]
    BY <1>2, SignsAre DEF Consume
  <2>2. PICK f : f = Append(r.field, c)
    OBVIOUS
  <2>3. Consume(r, c, FALSE) = [r EXCEPT !.field = f, !.at = "quoted"]
    BY <2>1, <2>2 DEF ReaderIs
  <2>4. QED BY <1>2, <2>2, <2>3 DEF Takes, Keeps, ReaderIs
<1>3. QED BY <1>1, <1>2

(* At the beginning of a field, or within one that is not quoted.           *)
LEMMA WithoutQuotes ==
  ASSUME NEW r, ReaderIs(r), r.at \in {"fieldStart", "unquoted"}, NEW c,
         c # Comma, c \notin Breaks
  PROVE  LET s == Consume(r, c, FALSE)
         IN  /\ c # Quote => Takes(s, r, c, "unquoted") /\ s.content = TRUE
             /\ c = Quote /\ r.at = "fieldStart" =>
                  /\ Keeps(s, r) /\ s.row = r.row /\ s.field = r.field
                  /\ s.at = "quoted" /\ s.content = TRUE
             /\ c = Quote /\ r.at # "fieldStart" => s.outcome = "failed"
<1>1. CASE c # Quote
  <2>1. Consume(r, c, FALSE) = AppendChar(r, c, "unquoted")
    BY <1>1 DEF Consume, Breaks
  <2>2. PICK f : f = Append(r.field, c)
    OBVIOUS
  <2>3. AppendChar(r, c, "unquoted") = [r EXCEPT !.field = Append(@, c), !.content = TRUE, !.at = "unquoted"]
    BY DEF AppendChar
  <2>4. PICK s : s = Consume(r, c, FALSE)
    OBVIOUS
  <2>5. s = [r EXCEPT !.field = f, !.content = TRUE, !.at = "unquoted"]
    BY <2>1, <2>2, <2>3, <2>4 DEF ReaderIs
  <2>6. /\ ReaderIs(s) /\ s.rows = r.rows /\ s.width = r.width /\ s.next = r.next
        /\ s.row = r.row
    BY <2>5 DEF ReaderIs
  <2>7. s.field = f /\ s.at = "unquoted" /\ s.content = TRUE
    BY <2>5 DEF ReaderIs
  <2>8. QED BY <1>1, <2>2, <2>4, <2>6, <2>7 DEF Takes, Keeps
<1>2. CASE c = Quote /\ r.at = "fieldStart"
  <2>1. Consume(r, c, FALSE) = [r EXCEPT !.at = "quoted", !.content = TRUE]
    BY <1>2, SignsAre DEF Consume
  <2>2. QED BY <1>2, <2>1 DEF Keeps, ReaderIs
<1>3. CASE c = Quote /\ r.at # "fieldStart"
  <2>1. Consume(r, c, FALSE) = Fail(r)
    BY <1>3, SignsAre DEF Consume
  <2>2. Fail(r).outcome = "failed"
    BY DEF Fail, ReaderIs
  <2>3. QED BY <1>3, <2>1, <2>2
<1>4. QED BY <1>1, <1>2, <1>3

(* A comma ends a field.                                                    *)
LEMMA AtComma ==
  ASSUME NEW r, ReaderIs(r), r.at \in {"fieldStart", "unquoted", "quoteSeen"}
  PROVE  LET s == Consume(r, Comma, FALSE)
         IN  /\ Keeps(s, r) /\ s.row = Append(r.row, r.field) /\ s.field = <<>>
             /\ s.at = "fieldStart"
             /\ s.content = IF r.at = "quoteSeen" THEN r.content ELSE TRUE
<1>1. Comma # Quote
  BY SignsAre
<1>2. PICK row : row = Append(r.row, r.field)
  OBVIOUS
<1>3. PICK e : e = [r EXCEPT !.row = row, !.field = <<>>, !.at = "fieldStart"]
  OBVIOUS
<1>4. EndField(r) = e
  <2>1. EndField(r) = [r EXCEPT !.row = Append(@, r.field), !.field = <<>>, !.at = "fieldStart"]
    BY DEF EndField
  <2>2. QED BY <1>2, <1>3, <2>1 DEF ReaderIs
<1>5. /\ Keeps(e, r) /\ e.row = row /\ e.field = <<>> /\ e.at = "fieldStart"
      /\ e.content = r.content
  BY <1>3 DEF Keeps, ReaderIs
<1>6. CASE r.at = "quoteSeen"
  <2>1. Consume(r, Comma, FALSE) = e
    BY <1>1, <1>4, <1>6, SignsAre DEF Consume
  <2>2. QED BY <1>2, <1>5, <1>6, <2>1
<1>7. CASE r.at # "quoteSeen"
  <2>1. Consume(r, Comma, FALSE) = [e EXCEPT !.content = TRUE]
    BY <1>1, <1>4, <1>7, SignsAre DEF Consume
  <2>2. QED BY <1>2, <1>5, <1>7, <2>1 DEF Keeps, ReaderIs
<1>8. QED BY <1>6, <1>7

(* A line break ends a row, or passes over a blank line.                    *)
LEMMA AtBreak ==
  ASSUME NEW r, ReaderIs(r), r.at # "quoted", NEW c \in Breaks
  PROVE  Consume(r, c, FALSE) =
           IF r.at # "quoteSeen" /\ IsBlank(r) THEN r ELSE FinishRow(r)
<1>1. c # Quote /\ c # Comma /\ c \in {CR, LF}
  BY SignsAre DEF Breaks
<1>2. CASE r.at = "quoteSeen"
  BY <1>1, <1>2 DEF Consume
<1>3. CASE r.at # "quoteSeen"
  BY <1>1, <1>3 DEF Consume
<1>4. QED BY <1>2, <1>3

(* The end of the text.                                                     *)
LEMMA AtEnd ==
  ASSUME NEW r, ReaderIs(r), NEW text, r.next > Len(text)
  PROVE  /\ r.at = "quoted" => ReadChar(r, text).outcome = "failed"
         /\ r.at # "quoted" =>
              LET s == IF r.at # "quoteSeen" /\ IsBlank(r) THEN r ELSE FinishRow(r)
              IN  IF s.outcome = "failed" THEN ReadChar(r, text).outcome = "failed"
                  ELSE /\ ReadChar(r, text).outcome =
                            IF s.width = NoHeader THEN "failed" ELSE "read"
                       /\ ReadChar(r, text).rows = s.rows
<1>1. PICK s : s = Consume(r, LF, TRUE)
  OBVIOUS
<1>2. ReadChar(r, text) =
        IF s.outcome = "failed" THEN s
        ELSE [s EXCEPT !.outcome = IF s.width = NoHeader THEN "failed" ELSE "read"]
  BY <1>1 DEF ReadChar
<1>3. CASE r.at = "quoted"
  <2>1. s = Fail(r)
    BY <1>1, <1>3 DEF Consume
  <2>2. Fail(r).outcome = "failed"
    BY DEF Fail, ReaderIs
  <2>3. QED BY <1>2, <1>3, <2>1, <2>2
<1>4. CASE r.at # "quoted"
  <2>1. s = IF r.at # "quoteSeen" /\ IsBlank(r) THEN r ELSE FinishRow(r)
    <3>1. CASE r.at = "quoteSeen"
      BY <1>1, <3>1 DEF Consume
    <3>2. CASE r.at # "quoteSeen"
      BY <1>1, <1>4, <3>2 DEF Consume
    <3>3. QED BY <3>1, <3>2
  <2>2. s.outcome # "failed" => ReaderIs(s)
    BY <2>1, FinishRowIs
  <2>3. s.outcome # "failed" =>
          /\ ReadChar(r, text).outcome = IF s.width = NoHeader THEN "failed" ELSE "read"
          /\ ReadChar(r, text).rows = s.rows
    BY <1>2, <2>2 DEF ReaderIs
  <2>4. QED BY <1>2, <1>4, <2>1, <2>3
<1>5. QED BY <1>3, <1>4

-----------------------------------------------------------------------------
(* Counting places of a text.                                               *)

Count(s, from, to) == Cardinality({i \in from .. to : i \in s})

(* Counting goes on by one for a place that is in the set.                  *)
LEMMA CountIs ==
  ASSUME NEW s, NEW from \in Nat, NEW to \in Nat
  PROVE  /\ Count(s, from, to) \in Nat
         /\ from = to + 1 => Count(s, from, to) = 0
         /\ from <= to + 1 =>
              Count(s, from, to + 1) = IF to + 1 \in s THEN Count(s, from, to) + 1
                                       ELSE Count(s, from, to)
<1>1. PICK a : a = {i \in from .. to : i \in s}
  OBVIOUS
<1>2. PICK b : b = {i \in from .. to + 1 : i \in s}
  OBVIOUS
<1>3. IsFiniteSet(a) /\ Cardinality(a) \in Nat
  <2>1. IsFiniteSet(from .. to) /\ a \subseteq from .. to
    BY <1>1, FS_Interval
  <2>2. QED BY <2>1, FS_Subset, FS_CardinalityType
<1>4. to + 1 \notin a
  BY <1>1
<1>5. from = to + 1 => a = {}
  BY <1>1
<1>6. ASSUME from <= to + 1
      PROVE  b = IF to + 1 \in s THEN a \union {to + 1} ELSE a
  <2>1. from .. to + 1 = (from .. to) \union {to + 1}
    BY <1>6
  <2>2. QED BY <1>1, <1>2, <2>1
<1>7. Cardinality(a \union {to + 1}) = Cardinality(a) + 1
  BY <1>3, <1>4, FS_AddElement
<1>8. from = to + 1 => Cardinality(a) = 0
  BY <1>5, FS_EmptySet
<1>9. QED BY <1>1, <1>2, <1>3, <1>6, <1>7, <1>8 DEF Count

(* The quotes of a text, and the commas and line breaks outside of quotes.  *)
QuotesIn(text) == {i \in DOMAIN text : text[i] = Quote}
CommasOf(text) == {i \in DOMAIN text : text[i] = Comma /\ Outside(text, i)}

LEMMA OddOrEven ==
  ASSUME NEW n \in Nat
  PROVE  0 % 2 = 0 /\ ((n + 1) % 2 = 0 <=> ~(n % 2 = 0))
OBVIOUS

(* A quote, and nothing else, leads into quotes and out of them.            *)
LEMMA OutsideIs ==
  ASSUME NEW text \in Strings
  PROVE  /\ Outside(text, 1)
         /\ \A i \in 1 .. Len(text) :
              Outside(text, i + 1) <=> (Outside(text, i) <=> text[i] # Quote)
<1>1. PICK l \in Nat : l = Len(text) /\ DOMAIN text = 1 .. l
  BY StringIs
<1>2. PICK q : q = QuotesIn(text)
  OBVIOUS
<1>3. \A i \in 1 .. l + 1 : Outside(text, i) <=> Count(q, 1, i - 1) % 2 = 0
  <2>1. ASSUME NEW i \in 1 .. l + 1 PROVE Outside(text, i) <=> Count(q, 1, i - 1) % 2 = 0
    <3>1. {j \in 1 .. i - 1 : text[j] = Quote} = {j \in 1 .. i - 1 : j \in q}
      BY <1>1, <1>2 DEF QuotesIn
    <3>2. QED BY <3>1 DEF Outside, Count
  <2>2. QED BY <2>1
<1>4. Outside(text, 1)
  <2>1. Count(q, 1, 0) = 0
    <3>1. 1 \in Nat /\ 0 \in Nat /\ 1 = 0 + 1
      OBVIOUS
    <3>2. QED BY <3>1, CountIs
  <2>2. 1 \in 1 .. l + 1 /\ 1 - 1 = 0
    BY <1>1
  <2>3. QED BY <1>3, <2>1, <2>2, OddOrEven
<1>5. ASSUME NEW i \in 1 .. l
      PROVE  Outside(text, i + 1) <=> (Outside(text, i) <=> text[i] # Quote)
  <2>1. PICK k \in Nat : k = i - 1 /\ k + 1 = i /\ i \in Nat
    BY <1>1
  <2>2. PICK a \in Nat, b \in Nat : a = Count(q, 1, k) /\ b = Count(q, 1, k + 1)
    BY CountIs
  <2>3. b = IF i \in q THEN a + 1 ELSE a
    <3>1. 1 \in Nat /\ 1 <= k + 1
      OBVIOUS
    <3>2. QED BY <2>1, <2>2, <3>1, CountIs
  <2>4. i \in q <=> text[i] = Quote
    BY <1>1, <1>2 DEF QuotesIn
  <2>5. Outside(text, i) <=> a % 2 = 0
    BY <1>3, <2>1, <2>2
  <2>6. Outside(text, i + 1) <=> b % 2 = 0
    <3>1. i + 1 \in 1 .. l + 1 /\ (i + 1) - 1 = k + 1
      BY <1>1, <2>1
    <3>2. QED BY <1>3, <2>2, <3>1
  <2>7. QED BY <2>3, <2>4, <2>5, <2>6, OddOrEven
<1>6. QED BY <1>1, <1>4, <1>5

-----------------------------------------------------------------------------
(* The quotes among the first n characters, and the state they leave.       *)

States == {"fieldStart", "unquoted", "quoted", "quoteSeen"}

QuoteOpens(text, i) ==
  i = 1 \/ text[i-1] = Quote \/ (text[i-1] \in Marks /\ Outside(text, i - 1))
QuoteCloses(text, i) == i = Len(text) \/ text[i+1] \in Marks \union {Quote}

QuotesSoFar(text, n) ==
  \A i \in 1 .. n : text[i] = Quote =>
    IF Outside(text, i) THEN QuoteOpens(text, i) ELSE i = n \/ QuoteCloses(text, i)

StateFits(text, at, n) ==
  /\ at \in States
  /\ at = "quoted" <=> ~Outside(text, n + 1)
  /\ at = "quoteSeen" => n # 0 /\ text[n] = Quote /\ ~Outside(text, n)
  /\ at = "fieldStart" => n = 0 \/ (text[n] \in Marks /\ Outside(text, n))
  /\ at = "unquoted" => n # 0 /\ text[n] \notin Marks \union {Quote}

QuotesFit(text, at, n) == StateFits(text, at, n) /\ QuotesSoFar(text, n)

LEMMA QuotesAtFirst ==
  ASSUME NEW text \in Strings
  PROVE  QuotesFit(text, "fieldStart", 0)
<1>1. Outside(text, 0 + 1)
  <2>1. 0 + 1 = 1
    OBVIOUS
  <2>2. QED BY <2>1, OutsideIs
<1>2. QED BY <1>1 DEF QuotesFit, StateFits, QuotesSoFar, States

(* The state after one more character.                                      *)
StateAfter(at, c) ==
  CASE at = "quoted" -> IF c = Quote THEN "quoteSeen" ELSE "quoted"
    [] at # "quoted" /\ c = Quote -> "quoted"
    [] at # "quoted" /\ c \in Marks -> "fieldStart"
    [] at # "quoted" /\ c \notin Marks \union {Quote} -> "unquoted"

CanGoOn(at, c) ==
  /\ c = Quote => at # "unquoted"
  /\ c \notin Marks \union {Quote} => at # "quoteSeen"

(* The quotes match as far as the text was read, character by character.    *)
LEMMA QuotesGoOn ==
  ASSUME NEW text \in Strings, NEW n \in 0 .. Len(text), n < Len(text),
         NEW at, QuotesFit(text, at, n), CanGoOn(at, text[n+1])
  PROVE  QuotesFit(text, StateAfter(at, text[n+1]), n + 1)
<1>1. PICK l \in Nat : l = Len(text) /\ n \in 0 .. l /\ n < l /\ n \in Nat
  BY StringIs
<1>2. PICK i \in Nat \ {0} : i = n + 1 /\ i \in 1 .. l /\ i - 1 = n
  BY <1>1
<1>3. PICK c : c = text[i]
  OBVIOUS
<1>4. Outside(text, i + 1) <=> (Outside(text, i) <=> c # Quote)
  BY <1>1, <1>2, <1>3, OutsideIs
<1>5. StateFits(text, at, n) /\ QuotesSoFar(text, n) /\ CanGoOn(at, c)
  BY <1>2, <1>3 DEF QuotesFit
<1>6. (at = "quoted" <=> ~Outside(text, i)) /\ at \in States
  BY <1>2, <1>5 DEF StateFits
<1>7. Quote \notin Marks
  BY SignsAre DEF Marks
<1>8. StateFits(text, StateAfter(at, c), i)
  <2>1. CASE at = "quoted" /\ c = Quote
    <3>1. StateAfter(at, c) = "quoteSeen"
      BY <2>1 DEF StateAfter
    <3>2. QED BY <1>2, <1>3, <1>4, <1>6, <2>1, <3>1 DEF StateFits, States
  <2>2. CASE at = "quoted" /\ c # Quote
    <3>1. StateAfter(at, c) = "quoted"
      BY <2>2 DEF StateAfter
    <3>2. QED BY <1>2, <1>3, <1>4, <1>6, <2>2, <3>1 DEF StateFits, States
  <2>3. CASE at # "quoted" /\ c = Quote
    <3>1. StateAfter(at, c) = "quoted"
      BY <1>7, <2>3 DEF StateAfter
    <3>2. QED BY <1>2, <1>3, <1>4, <1>6, <2>3, <3>1 DEF StateFits, States
  <2>4. CASE at # "quoted" /\ c \in Marks
    <3>1. StateAfter(at, c) = "fieldStart"
      BY <1>7, <2>4 DEF StateAfter
    <3>2. QED BY <1>2, <1>3, <1>4, <1>6, <1>7, <2>4, <3>1 DEF StateFits, States
  <2>5. CASE at # "quoted" /\ c \notin Marks \union {Quote}
    <3>1. StateAfter(at, c) = "unquoted"
      BY <2>5 DEF StateAfter
    <3>2. QED BY <1>2, <1>3, <1>4, <1>6, <2>5, <3>1 DEF StateFits, States
  <2>6. QED BY <2>1, <2>2, <2>3, <2>4, <2>5
<1>9. ASSUME NEW j \in 1 .. i, text[j] = Quote
      PROVE  IF Outside(text, j) THEN QuoteOpens(text, j) ELSE j = i \/ QuoteCloses(text, j)
  <2>1. CASE j # i /\ j # n
    <3>1. j \in 1 .. n
      BY <1>1, <1>2, <2>1
    <3>2. QED BY <1>5, <1>9, <2>1, <3>1 DEF QuotesSoFar
  <2>2. CASE j = n
    <3>1. j \in 1 .. n
      BY <1>1, <2>2
    <3>2. ASSUME ~Outside(text, j) PROVE QuoteCloses(text, j)
      <4>1. at = "quoteSeen"
        <5>1. Outside(text, n + 1) <=> (Outside(text, n) <=> text[n] # Quote)
          <6>1. n \in 1 .. Len(text)
            BY <1>1, <2>2
          <6>2. QED BY <6>1, OutsideIs
        <5>2. at # "quoted"
          BY <1>2, <1>6, <1>9, <2>2, <3>2, <5>1
        <5>3. at # "fieldStart" /\ at # "unquoted"
          BY <1>5, <1>7, <1>9, <2>2 DEF StateFits
        <5>4. QED BY <1>6, <5>2, <5>3 DEF States
      <4>2. c \in Marks \union {Quote}
        BY <1>5, <4>1 DEF CanGoOn
      <4>3. QED BY <1>2, <1>3, <2>2, <4>2 DEF QuoteCloses
    <3>3. QED BY <1>5, <1>9, <3>1, <3>2 DEF QuotesSoFar
  <2>3. CASE j = i
    <3>1. ASSUME Outside(text, j) PROVE QuoteOpens(text, j)
      <4>1. at # "quoted" /\ at # "unquoted"
        BY <1>3, <1>5, <1>6, <1>9, <2>3, <3>1 DEF CanGoOn
      <4>2. CASE at = "fieldStart"
        BY <1>2, <1>5, <2>3, <4>2 DEF StateFits, QuoteOpens
      <4>3. CASE at = "quoteSeen"
        BY <1>2, <1>5, <2>3, <4>3 DEF StateFits, QuoteOpens
      <4>4. QED BY <1>6, <4>1, <4>2, <4>3 DEF States
    <3>2. QED BY <2>3, <3>1
  <2>4. QED BY <2>1, <2>2, <2>3
<1>10. QED BY <1>2, <1>3, <1>8, <1>9 DEF QuotesFit, QuotesSoFar

(* A character that the quotes before it do not allow, or an end in quotes. *)
LEMMA QuotesBreak ==
  ASSUME NEW text \in Strings, NEW n \in 0 .. Len(text), n < Len(text),
         NEW at, QuotesFit(text, at, n), ~CanGoOn(at, text[n+1])
  PROVE  ~QuotesMatch(text)
<1>1. PICK l \in Nat : l = Len(text) /\ DOMAIN text = 1 .. l /\ n \in 0 .. l /\ n < l /\ n \in Nat
  BY StringIs
<1>2. PICK i \in Nat \ {0} : i = n + 1 /\ i \in 1 .. l /\ i - 1 = n
  BY <1>1
<1>3. StateFits(text, at, n)
  BY DEF QuotesFit
<1>4. Quote \notin Marks
  BY SignsAre DEF Marks
<1>5. CASE text[i] = Quote /\ at = "unquoted"
  <2>1. Outside(text, i) /\ n # 0 /\ text[n] \notin Marks \union {Quote}
    BY <1>2, <1>3, <1>5 DEF StateFits
  <2>2. QED BY <1>1, <1>2, <1>5, <2>1 DEF QuotesMatch
<1>6. CASE text[i] \notin Marks \union {Quote} /\ at = "quoteSeen"
  <2>1. n # 0 /\ text[n] = Quote /\ ~Outside(text, n)
    BY <1>3, <1>6 DEF StateFits
  <2>2. n \in DOMAIN text /\ n # Len(text)
    BY <1>1, <2>1
  <2>3. QED BY <1>2, <1>6, <2>1, <2>2 DEF QuotesMatch
<1>7. QED BY <1>2, <1>5, <1>6 DEF CanGoOn

(* At the end they match if the reader is not within quotes.                *)
LEMMA QuotesAtEnd ==
  ASSUME NEW text \in Strings, NEW at, QuotesFit(text, at, Len(text))
  PROVE  QuotesMatch(text) <=> at # "quoted"
<1>1. PICK l \in Nat : l = Len(text) /\ DOMAIN text = 1 .. l
  BY StringIs
<1>2. at = "quoted" <=> ~Outside(text, Len(text) + 1)
  BY DEF QuotesFit, StateFits
<1>3. \A i \in DOMAIN text : text[i] = Quote =>
        IF Outside(text, i) THEN QuoteOpens(text, i) ELSE QuoteCloses(text, i)
  BY <1>1 DEF QuotesFit, QuotesSoFar, QuoteCloses
<1>4. QED BY <1>2, <1>3 DEF QuotesMatch, QuoteOpens, QuoteCloses

-----------------------------------------------------------------------------
(* Lines by where they begin and end.                                       *)

LineAt(text, a, b) ==
  /\ a \in LineBreaks(text) \union {0} /\ b \in LineBreaks(text) \union {Len(text) + 1}
  /\ a + 1 < b /\ \A k \in LineBreaks(text) : k <= a \/ b <= k

FieldsBetween(text, a, b) == 1 + Count(CommasOf(text), a + 1, b - 1)

LEMMA LineNumbers ==
  ASSUME NEW text \in Strings
  PROVE  /\ LineBreaks(text) \subseteq 1 .. Len(text)
         /\ \A a, b : LineAt(text, a, b) =>
              /\ a \in Nat /\ b \in Nat /\ b <= Len(text) + 1
              /\ FieldsBetween(text, a, b) \in Nat \ {0}
<1>1. PICK l \in Nat : l = Len(text) /\ DOMAIN text = 1 .. l
  BY StringIs
<1>2. LineBreaks(text) \subseteq 1 .. l
  BY <1>1 DEF LineBreaks
<1>3. ASSUME NEW a, NEW b, LineAt(text, a, b)
      PROVE  /\ a \in Nat /\ b \in Nat /\ b <= l + 1
             /\ FieldsBetween(text, a, b) \in Nat \ {0}
  <2>1. a \in Nat /\ b \in Nat /\ b <= l + 1 /\ a + 1 < b
    BY <1>1, <1>2, <1>3 DEF LineAt
  <2>2. PICK c : c = Count(CommasOf(text), a + 1, b - 1)
    OBVIOUS
  <2>3. c \in Nat
    <3>1. a + 1 \in Nat /\ b - 1 \in Nat
      BY <2>1
    <3>2. QED BY <2>2, <3>1, CountIs
  <2>4. QED BY <2>1, <2>2, <2>3 DEF FieldsBetween
<1>4. QED BY <1>1, <1>2, <1>3

(* The format, with its lines as pairs of places.                           *)
LEMMA LinesAre ==
  ASSUME NEW text \in Strings
  PROVE  IsWellFormed(text) <=>
           /\ QuotesMatch(text)
           /\ \E a, b : LineAt(text, a, b)
           /\ \A a, b, c, d : LineAt(text, a, b) /\ LineAt(text, c, d) =>
                FieldsBetween(text, a, b) = FieldsBetween(text, c, d)
<1>1. PICK len \in Nat : len = Len(text) /\ DOMAIN text = 1 .. len
  BY StringIs
<1> DEFINE Line(a, b) == [from |-> a, to |-> b]
<1>2. \A a, b : LineAt(text, a, b) => Line(a, b) \in Lines(text)
  BY DEF LineAt, Lines
<1>3. \A l \in Lines(text) : l = Line(l.from, l.to) /\ LineAt(text, l.from, l.to)
  BY DEF LineAt, Lines
<1>4. ASSUME NEW a, NEW b, LineAt(text, a, b)
      PROVE  FieldCount(text, Line(a, b)) = FieldsBetween(text, a, b)
  <2>1. a \in Nat /\ b \in Nat /\ b <= len + 1
    BY <1>1, <1>4, LineNumbers
  <2>2. a + 1 .. b - 1 \subseteq 1 .. len
    BY <2>1
  <2>3. {i \in a + 1 .. b - 1 : text[i] = Comma /\ Outside(text, i)}
          = {i \in a + 1 .. b - 1 : i \in CommasOf(text)}
    BY <1>1, <2>2 DEF CommasOf
  <2>4. QED BY <2>3 DEF FieldCount, FieldsBetween, Count
<1>5. \A l \in Lines(text) : FieldCount(text, l) = FieldsBetween(text, l.from, l.to)
  <2> HIDE DEF Line
  <2>1. QED BY <1>3, <1>4
<1>6. Lines(text) # {} <=> \E a, b : LineAt(text, a, b)
  <2> HIDE DEF Line
  <2>1. QED BY <1>2, <1>3
<1>7. (\A l, m \in Lines(text) : FieldCount(text, l) = FieldCount(text, m)) <=>
        \A a, b, c, d : LineAt(text, a, b) /\ LineAt(text, c, d) =>
          FieldsBetween(text, a, b) = FieldsBetween(text, c, d)
  <2> HIDE DEF Line
  <2>1. ASSUME \A l, m \in Lines(text) : FieldCount(text, l) = FieldCount(text, m),
               NEW a, NEW b, NEW c, NEW d, LineAt(text, a, b), LineAt(text, c, d)
        PROVE  FieldsBetween(text, a, b) = FieldsBetween(text, c, d)
    BY <1>2, <1>4, <2>1
  <2>2. ASSUME \A a, b, c, d : LineAt(text, a, b) /\ LineAt(text, c, d) =>
                 FieldsBetween(text, a, b) = FieldsBetween(text, c, d),
               NEW l \in Lines(text), NEW m \in Lines(text)
        PROVE  FieldCount(text, l) = FieldCount(text, m)
    BY <1>3, <1>5, <2>2
  <2>3. QED BY <2>1, <2>2
<1>8. QED BY <1>6, <1>7 DEF IsWellFormed

-----------------------------------------------------------------------------
(* The line that is being read, from the last line break on.                *)

LineFits(text, r, n, from) ==
  /\ from \in LineBreaks(text) \union {0} /\ from \in 0 .. n
  /\ \A k \in LineBreaks(text) : k <= from \/ n < k
  /\ r.row \in Seq(Strings) /\ r.field \in Strings /\ r.content \in BOOLEAN
  /\ r.content <=> from # n
  /\ Len(r.row) = Count(CommasOf(text), from + 1, n)
  /\ ~r.content => r.at = "fieldStart"
  /\ r.at = "fieldStart" => r.field = <<>>

(* The lines that have been read, all as wide as the first.                 *)
WidthFits(text, width, n) ==
  /\ width \in Nat
  /\ \A a, b : LineAt(text, a, b) /\ b <= n => FieldsBetween(text, a, b) = width
  /\ width = NoHeader <=> \A a, b : LineAt(text, a, b) => n < b

(* What ends with a line break, or with the text.                           *)
LEMMA LineThatEnds ==
  ASSUME NEW text \in Strings, NEW n \in 0 .. Len(text), NEW r, NEW from,
         LineFits(text, r, n, from), n + 1 \in LineBreaks(text) \union {Len(text) + 1}
  PROVE  /\ \A a : LineAt(text, a, n + 1) => a = from /\ from # n
         /\ from # n => /\ LineAt(text, from, n + 1)
                        /\ FieldsBetween(text, from, n + 1) = Len(Append(r.row, r.field))
<1>1. PICK l \in Nat : l = Len(text) /\ n \in 0 .. l /\ n \in Nat
  BY StringIs
<1>2. LineBreaks(text) \subseteq 1 .. l
  BY <1>1, LineNumbers
<1>3. /\ from \in LineBreaks(text) \union {0} /\ from \in 0 .. n /\ from \in Nat
      /\ \A k \in LineBreaks(text) : k <= from \/ n < k
  BY <1>1 DEF LineFits
<1>4. ASSUME NEW a, LineAt(text, a, n + 1) PROVE a = from /\ from # n
  <2>1. /\ a \in LineBreaks(text) \union {0} /\ a + 1 < n + 1 /\ a \in Nat
        /\ \A k \in LineBreaks(text) : k <= a \/ n + 1 <= k
    BY <1>2, <1>4 DEF LineAt
  <2>2. ~(a < from)
    <3>1. SUFFICES ASSUME a < from PROVE FALSE
      OBVIOUS
    <3>2. from \in LineBreaks(text)
      BY <1>3, <2>1, <3>1
    <3>3. from <= a \/ n + 1 <= from
      BY <2>1, <3>2
    <3>4. QED BY <1>1, <1>3, <2>1, <3>1, <3>3
  <2>3. ~(from < a)
    <3>1. SUFFICES ASSUME from < a PROVE FALSE
      OBVIOUS
    <3>2. a \in LineBreaks(text)
      BY <1>3, <2>1, <3>1
    <3>3. a <= from \/ n < a
      BY <1>3, <3>2
    <3>4. QED BY <1>1, <1>3, <2>1, <3>1, <3>3
  <2>4. QED BY <1>1, <1>3, <2>1, <2>2, <2>3
<1>5. ASSUME from # n
      PROVE  /\ LineAt(text, from, n + 1)
             /\ FieldsBetween(text, from, n + 1) = Len(Append(r.row, r.field))
  <2>1. from + 1 < n + 1
    BY <1>1, <1>3, <1>5
  <2>2. \A k \in LineBreaks(text) : k <= from \/ n + 1 <= k
    BY <1>1, <1>2, <1>3
  <2>3. LineAt(text, from, n + 1)
    BY <1>3, <2>1, <2>2 DEF LineAt
  <2>4. r.row \in Seq(Strings) /\ r.field \in Strings
        /\ Len(r.row) = Count(CommasOf(text), from + 1, n)
    BY DEF LineFits
  <2>5. Len(Append(r.row, r.field)) = Len(r.row) + 1 /\ Len(r.row) \in Nat
    BY <2>4, AppendProperties, LenProperties
  <2>6. (n + 1) - 1 = n
    BY <1>1
  <2>7. FieldsBetween(text, from, n + 1) = 1 + Count(CommasOf(text), from + 1, n)
    BY <2>6 DEF FieldsBetween
  <2>8. QED BY <2>3, <2>4, <2>5, <2>7
<1>6. QED BY <1>4, <1>5

(* Where no line ends, the width that was found still fits.                 *)
LEMMA WidthGoesOn ==
  ASSUME NEW text \in Strings, NEW n \in 0 .. Len(text), NEW width,
         WidthFits(text, width, n), \A a : ~LineAt(text, a, n + 1)
  PROVE  WidthFits(text, width, n + 1)
<1>1. n \in Nat
  BY StringIs
<1>2. ASSUME NEW a, NEW b, LineAt(text, a, b)
      PROVE  (b <= n + 1 <=> b <= n) /\ (n + 1 < b <=> n < b)
  <2>1. b \in Nat /\ b # n + 1
    BY <1>2, LineNumbers
  <2>2. QED BY <1>1, <2>1
<1>3. QED BY <1>2 DEF WidthFits

(* A line that ends must be as wide as the first.                           *)
LEMMA WidthOfLine ==
  ASSUME NEW text \in Strings, NEW n \in 0 .. Len(text), NEW width,
         WidthFits(text, width, n), NEW from, LineAt(text, from, n + 1),
         \A a : LineAt(text, a, n + 1) => a = from,
         NEW k, k = FieldsBetween(text, from, n + 1)
  PROVE  /\ width = NoHeader \/ width = k => WidthFits(text, k, n + 1)
         /\ width # NoHeader /\ width # k => ~IsWellFormed(text)
         /\ k # NoHeader
<1>1. n \in Nat
  BY StringIs
<1>2. k \in Nat \ {0}
  BY LineNumbers
<1>3. ASSUME width = NoHeader \/ width = k
      PROVE  WidthFits(text, k, n + 1)
  <2>1. ASSUME NEW a, NEW b, LineAt(text, a, b), b <= n + 1
        PROVE  FieldsBetween(text, a, b) = k
    <3>1. b \in Nat
      BY <2>1, LineNumbers
    <3>2. CASE b = n + 1
      BY <2>1, <3>2
    <3>3. CASE b # n + 1
      <4>1. b <= n /\ ~(n < b)
        BY <1>1, <2>1, <3>1, <3>3
      <4>2. width # NoHeader
        BY <2>1, <4>1 DEF WidthFits
      <4>3. QED BY <1>3, <2>1, <4>1, <4>2 DEF WidthFits
    <3>4. QED BY <3>2, <3>3
  <2>2. ~(n + 1 < n + 1) /\ k # NoHeader
    BY <1>1, <1>2 DEF NoHeader
  <2>3. QED BY <1>2, <2>1, <2>2 DEF WidthFits
<1>4. ASSUME width # NoHeader, width # k
      PROVE  ~IsWellFormed(text)
  <2>1. PICK a, b : LineAt(text, a, b) /\ ~(n < b)
    BY <1>4 DEF WidthFits
  <2>2. b \in Nat
    BY <2>1, LineNumbers
  <2>3. FieldsBetween(text, a, b) = width
    <3>1. b <= n
      BY <1>1, <2>1, <2>2
    <3>2. QED BY <2>1, <3>1 DEF WidthFits
  <2>4. QED BY <1>4, <2>1, <2>3, LinesAre
<1>5. QED BY <1>2, <1>3, <1>4 DEF NoHeader

(* A character that is no break goes to the line it is on.                  *)
LEMMA LineGoesOn ==
  ASSUME NEW text \in Strings, NEW n \in 0 .. Len(text), NEW r, NEW from,
         LineFits(text, r, n, from), n + 1 \notin LineBreaks(text),
         NEW s, s.content = TRUE, s.field \in Strings, s.at = "fieldStart" => s.field = <<>>,
         s.row = IF n + 1 \in CommasOf(text) THEN Append(r.row, r.field) ELSE r.row
  PROVE  LineFits(text, s, n + 1, from)
<1>1. PICK l \in Nat : l = Len(text) /\ n \in 0 .. l /\ n \in Nat
  BY StringIs
<1>2. LineBreaks(text) \subseteq 1 .. l
  BY <1>1, LineNumbers
<1>3. /\ from \in LineBreaks(text) \union {0} /\ from \in 0 .. n /\ from \in Nat
      /\ \A k \in LineBreaks(text) : k <= from \/ n < k
      /\ r.row \in Seq(Strings) /\ r.field \in Strings
      /\ Len(r.row) = Count(CommasOf(text), from + 1, n)
  BY <1>1 DEF LineFits
<1>4. \A k \in LineBreaks(text) : k <= from \/ n + 1 < k
  BY <1>1, <1>2, <1>3
<1>5. from \in 0 .. n + 1 /\ from # n + 1
  BY <1>1, <1>3
<1>6. PICK row : row = Append(r.row, r.field)
  OBVIOUS
<1>7. row \in Seq(Strings) /\ Len(row) = Len(r.row) + 1
  BY <1>3, <1>6, AppendProperties
<1>8. Count(CommasOf(text), from + 1, n + 1) =
        IF n + 1 \in CommasOf(text) THEN Count(CommasOf(text), from + 1, n) + 1
        ELSE Count(CommasOf(text), from + 1, n)
  <2>1. from + 1 \in Nat /\ from + 1 <= n + 1
    BY <1>1, <1>3
  <2>2. QED BY <1>1, <2>1, CountIs, SMTT(40)
<1>9. s.row \in Seq(Strings) /\ Len(s.row) = Count(CommasOf(text), from + 1, n + 1)
  BY <1>3, <1>6, <1>7, <1>8
<1>10. QED BY <1>3, <1>4, <1>5, <1>9 DEF LineFits

LEMMA NothingWritten == <<>> \in Strings /\ <<>> \in Seq(Strings) /\ Len(<<>>) = 0
<1>1. PICK X : X = Strings
  OBVIOUS
<1>2. <<>> \in Seq(X) /\ Len(<<>>) = 0
  BY EmptySeq
<1>3. QED BY <1>1, <1>2, SinglesAre

(* After a break a line begins.                                             *)
LEMMA LineBegins ==
  ASSUME NEW text \in Strings, NEW n \in 0 .. Len(text), n \in LineBreaks(text) \union {0},
         NEW s, AtBlank(s)
  PROVE  LineFits(text, s, n, n)
<1>1. PICK l \in Nat : l = Len(text) /\ n \in 0 .. l /\ n \in Nat
  BY StringIs
<1>2. LineBreaks(text) \subseteq 1 .. l
  BY <1>1, LineNumbers
<1>3. \A k \in LineBreaks(text) : k <= n \/ n < k
  BY <1>1, <1>2
<1>4. Count(CommasOf(text), n + 1, n) = 0
  <2>1. n + 1 \in Nat
    BY <1>1
  <2>2. QED BY <1>1, <2>1, CountIs
<1>5. n \in 0 .. n
  BY <1>1
<1>6. s.content = FALSE /\ s.row = <<>> /\ s.field = <<>> /\ s.at = "fieldStart"
  BY DEF AtBlank
<1>7. QED BY <1>3, <1>4, <1>5, <1>6, NothingWritten DEF LineFits

-----------------------------------------------------------------------------
(* What the reader knows after n characters.                                *)
ReadSoFar(text, r, n) ==
  /\ ReaderIs(r) /\ QuotesFit(text, r.at, n)
  /\ \E from : LineFits(text, r, n, from)
  /\ WidthFits(text, r.width, n)

LEMMA ReadAtFirst ==
  ASSUME NEW text \in Strings
  PROVE  ReadSoFar(text, FreshReader, 0)
<1>1. ReaderIs(FreshReader) /\ AtBlank(FreshReader)
  BY DEF FreshReader, ReaderIs, AtBlank
<1>2. FreshReader.at = "fieldStart" /\ FreshReader.width = NoHeader
  BY DEF FreshReader
<1>3. 0 \in 0 .. Len(text)
  BY StringIs
<1>4. LineFits(text, FreshReader, 0, 0)
  BY <1>1, <1>3, LineBegins
<1>5. WidthFits(text, NoHeader, 0)
  <2>1. \A a, b : LineAt(text, a, b) => ~(b <= 0) /\ 0 < b
    <3>1. \A a, b : LineAt(text, a, b) => a \in Nat /\ b \in Nat /\ a + 1 < b
      BY LineNumbers DEF LineAt
    <3>2. QED BY <3>1
  <2>2. NoHeader \in Nat
    BY DEF NoHeader
  <2>3. QED BY <2>1, <2>2 DEF WidthFits
<1>6. QED BY <1>1, <1>2, <1>4, <1>5, QuotesAtFirst DEF ReadSoFar

(* How far was read is not a matter of the place to read next.              *)
LEMMA NextIsFree ==
  ASSUME NEW text, NEW s, NEW n, ReadSoFar(text, s, n), NEW m \in Nat
  PROVE  ReadSoFar(text, [s EXCEPT !.next = m], n)
<1>1. PICK t : t = [s EXCEPT !.next = m]
  OBVIOUS
<1>2. ReaderIs(s)
  BY DEF ReadSoFar
<1>3. /\ ReaderIs(t) /\ t.at = s.at /\ t.width = s.width /\ t.row = s.row
      /\ t.field = s.field /\ t.content = s.content
  BY <1>1, <1>2 DEF ReaderIs
<1>4. ReadSoFar(text, t, n)
  BY <1>3 DEF ReadSoFar, LineFits
<1>5. QED BY <1>1, <1>4

(* A character that ends no line.                                           *)
LEMMA ReadWithin ==
  ASSUME NEW text \in Strings, NEW n \in 0 .. Len(text), n < Len(text),
         NEW r, ReadSoFar(text, r, n), NEW c, c = text[n+1], CanGoOn(r.at, c),
         r.at = "quoted" \/ c \notin Breaks,
         NEW s, s = Consume(r, c, FALSE)
  PROVE  Keeps(s, r) /\ ReadSoFar(text, s, n + 1)
<1>1. PICK l \in Nat : /\ l = Len(text) /\ DOMAIN text = 1 .. l
                       /\ n \in 0 .. l /\ n \in Nat /\ n + 1 \in 1 .. l
                       /\ \A i \in 1 .. l : text[i] \in Signs
  BY StringIs
<1>2. PICK from : LineFits(text, r, n, from)
  BY DEF ReadSoFar
<1>3. ReaderIs(r) /\ QuotesFit(text, r.at, n) /\ WidthFits(text, r.width, n)
  BY DEF ReadSoFar
<1>4. StateFits(text, r.at, n)
  BY <1>3 DEF QuotesFit
<1>5. r.at \in States /\ (r.at = "quoted" <=> ~Outside(text, n + 1))
  BY <1>4 DEF StateFits
<1>6. /\ r.row \in Seq(Strings) /\ r.field \in Strings /\ r.content \in BOOLEAN
      /\ r.at # "fieldStart" => r.content = TRUE
      /\ r.at = "fieldStart" => r.field = <<>>
  BY <1>2 DEF LineFits
<1>7. n + 1 \notin LineBreaks(text)
  BY <1>1, <1>5 DEF LineBreaks
<1>8. n + 1 \in CommasOf(text) <=> r.at # "quoted" /\ c = Comma
  BY <1>1, <1>5 DEF CommasOf
<1>9. c \in Signs
  BY <1>1
<1>10. Append(r.field, c) \in Strings /\ Append(r.field, Quote) \in Strings
  BY <1>6, <1>9, SignsAre, AppendProperties DEF Strings
<1>11. Quote \notin Marks /\ Quote # Comma /\ Quote \notin Breaks /\ Marks = Breaks \union {Comma}
  BY SignsAre DEF Marks, Breaks
<1>12. /\ Keeps(s, r) /\ s.content = TRUE /\ s.field \in Strings
       /\ s.at = StateAfter(r.at, c) /\ (s.at = "fieldStart" => s.field = <<>>)
       /\ s.row = IF n + 1 \in CommasOf(text) THEN Append(r.row, r.field) ELSE r.row
  <2>1. CASE r.at = "quoted"
    <3>1. /\ c # Quote => Takes(s, r, c, "quoted") /\ s.content = TRUE
          /\ c = Quote => /\ Keeps(s, r) /\ s.row = r.row /\ s.field = r.field
                          /\ s.at = "quoteSeen" /\ s.content = r.content
      BY <1>3, <2>1, WithinQuotes
    <3>2. StateAfter(r.at, c) = IF c = Quote THEN "quoteSeen" ELSE "quoted"
      BY <2>1 DEF StateAfter
    <3>3. QED BY <1>6, <1>8, <1>10, <2>1, <3>1, <3>2 DEF Takes
  <2>2. CASE r.at # "quoted" /\ c = Comma
    <3>1. /\ Keeps(s, r) /\ s.row = Append(r.row, r.field) /\ s.field = <<>>
          /\ s.at = "fieldStart"
          /\ s.content = IF r.at = "quoteSeen" THEN r.content ELSE TRUE
      BY <1>3, <1>5, <2>2, AtComma DEF States
    <3>2. StateAfter(r.at, c) = "fieldStart"
      BY <1>11, <2>2 DEF StateAfter
    <3>3. QED BY <1>6, <1>8, <2>2, <3>1, <3>2, NothingWritten
  <2>3. CASE r.at = "quoteSeen" /\ c # Comma
    <3>1. c = Quote
      BY <1>11, <2>3 DEF CanGoOn
    <3>2. Takes(s, r, c, "quoted") /\ s.content = r.content
      BY <1>3, <1>11, <2>3, <3>1, AfterQuote
    <3>3. StateAfter(r.at, c) = "quoted"
      BY <1>11, <2>3, <3>1 DEF StateAfter
    <3>4. QED BY <1>6, <1>8, <1>10, <2>3, <3>2, <3>3 DEF Takes
  <2>4. CASE r.at \in {"fieldStart", "unquoted"} /\ c # Comma
    <3>1. /\ c # Quote => Takes(s, r, c, "unquoted") /\ s.content = TRUE
          /\ c = Quote /\ r.at = "fieldStart" =>
               /\ Keeps(s, r) /\ s.row = r.row /\ s.field = r.field
               /\ s.at = "quoted" /\ s.content = TRUE
      BY <1>3, <2>4, WithoutQuotes
    <3>2. c = Quote => r.at = "fieldStart"
      BY <2>4 DEF CanGoOn
    <3>3. StateAfter(r.at, c) = IF c = Quote THEN "quoted" ELSE "unquoted"
      BY <1>11, <2>4 DEF StateAfter
    <3>4. QED BY <1>6, <1>8, <1>10, <2>4, <3>1, <3>2, <3>3 DEF Takes
  <2>5. QED BY <1>5, <2>1, <2>2, <2>3, <2>4 DEF States
<1>13. LineFits(text, s, n + 1, from)
  BY <1>2, <1>7, <1>12, LineGoesOn
<1>14. QuotesFit(text, s.at, n + 1)
  BY <1>3, <1>12, QuotesGoOn
<1>15. WidthFits(text, s.width, n + 1)
  <2>1. \A a : ~LineAt(text, a, n + 1)
    BY <1>1, <1>7 DEF LineAt
  <2>2. s.width = r.width
    BY <1>12 DEF Keeps
  <2>3. QED BY <1>3, <2>1, <2>2, WidthGoesOn
<1>16. QED BY <1>12, <1>13, <1>14, <1>15 DEF ReadSoFar, Keeps

(* What is left when a line ends, by a break or with the text.              *)
LineLeft(r) == IF r.at # "quoteSeen" /\ IsBlank(r) THEN r ELSE FinishRow(r)

(* A line is blank for the reader if there is nothing on it.                *)
LEMMA BlankIs ==
  ASSUME NEW text, NEW r, NEW n, NEW from, LineFits(text, r, n, from), n \in Nat,
         Len(r.row) = 0 => r.row = <<>>
  PROVE  /\ (r.at # "quoteSeen" /\ IsBlank(r)) <=> from = n
         /\ from = n => AtBlank(r)
<1>1. /\ r.content \in BOOLEAN /\ (r.content <=> from # n)
      /\ Len(r.row) = Count(CommasOf(text), from + 1, n)
      /\ ~r.content => r.at = "fieldStart"
      /\ r.at = "fieldStart" => r.field = <<>>
  BY DEF LineFits
<1>2. from = n => r.row = <<>>
  <2>1. n + 1 \in Nat
    OBVIOUS
  <2>2. Count(CommasOf(text), n + 1, n) = 0
    BY <2>1, CountIs
  <2>3. QED BY <1>1, <2>2
<1>3. QED BY <1>1, <1>2 DEF IsBlank, AtBlank

(* The lines up to the one that ends here, and the width they must have.    *)
LEMMA LineLeftIs ==
  ASSUME NEW text \in Strings, NEW n \in 0 .. Len(text), NEW r, ReadSoFar(text, r, n),
         n + 1 \in LineBreaks(text) \union {Len(text) + 1},
         NEW s, s = LineLeft(r)
  PROVE  \/ s.outcome = "failed" /\ ~IsWellFormed(text)
         \/ /\ s.outcome = "reading" /\ ReaderIs(s) /\ AtBlank(s) /\ s.next = r.next
            /\ WidthFits(text, s.width, n + 1)
<1>1. n \in Nat
  BY StringIs
<1>2. PICK from : LineFits(text, r, n, from)
  BY DEF ReadSoFar
<1>3. ReaderIs(r) /\ WidthFits(text, r.width, n)
  BY DEF ReadSoFar
<1>4. r.row \in Seq(Strings)
  BY <1>2 DEF LineFits
<1>5. Len(r.row) = 0 => r.row = <<>>
  <2>1. PICK X : X = Strings
    OBVIOUS
  <2>2. QED BY <1>4, <2>1, EmptySeq
<1>6. /\ (r.at # "quoteSeen" /\ IsBlank(r)) <=> from = n
      /\ from = n => AtBlank(r)
  BY <1>1, <1>2, <1>5, BlankIs
<1>7. /\ \A a : LineAt(text, a, n + 1) => a = from /\ from # n
      /\ from # n => /\ LineAt(text, from, n + 1)
                     /\ FieldsBetween(text, from, n + 1) = Len(Append(r.row, r.field))
  BY <1>2, LineThatEnds
<1>8. CASE from = n
  <2>1. s = r /\ AtBlank(r)
    BY <1>6, <1>8 DEF LineLeft
  <2>2. \A a : ~LineAt(text, a, n + 1)
    BY <1>7, <1>8
  <2>3. WidthFits(text, r.width, n + 1)
    BY <1>3, <2>2, WidthGoesOn
  <2>4. QED BY <1>3, <2>1, <2>3 DEF ReaderIs
<1>9. CASE from # n
  <2>1. s = FinishRow(r)
    BY <1>6, <1>9 DEF LineLeft
  <2>2. PICK k : k = Len(Append(r.row, r.field))
    OBVIOUS
  <2>3. LineAt(text, from, n + 1) /\ k = FieldsBetween(text, from, n + 1)
    BY <1>7, <1>9, <2>2
  <2>4. /\ r.width = NoHeader \/ r.width = k => WidthFits(text, k, n + 1)
        /\ r.width # NoHeader /\ r.width # k => ~IsWellFormed(text)
    BY <1>3, <1>7, <2>3, WidthOfLine
  <2>5. /\ s.outcome = "failed" \/ s.outcome = "reading"
        /\ s.outcome = "reading" => ReaderIs(s) /\ AtBlank(s) /\ s.next = r.next
        /\ s.outcome = "failed" <=> r.width # NoHeader /\ k # r.width
        /\ r.width = NoHeader => s.width = k
        /\ r.width # NoHeader /\ k = r.width => s.width = r.width
    BY <1>3, <2>1, <2>2, FinishRowIs
  <2>6. QED BY <2>4, <2>5
<1>10. QED BY <1>8, <1>9

(* What one more character comes to.                                        *)
ComesTo(text, r, s, n) ==
  \/ s.outcome = "failed" /\ ~IsWellFormed(text)
  \/ s.outcome = "reading" /\ s.next = r.next /\ ReadSoFar(text, s, n)

(* A line break outside of quotes.                                          *)
LEMMA ReadLineBreak ==
  ASSUME NEW text \in Strings, NEW n \in 0 .. Len(text), n < Len(text),
         NEW r, ReadSoFar(text, r, n), NEW c, c = text[n+1],
         r.at # "quoted", c \in Breaks,
         NEW s, s = Consume(r, c, FALSE)
  PROVE  ComesTo(text, r, s, n + 1)
<1>1. PICK l \in Nat : /\ l = Len(text) /\ DOMAIN text = 1 .. l
                       /\ n \in 0 .. l /\ n \in Nat /\ n + 1 \in 1 .. l
  BY StringIs
<1>2. ReaderIs(r) /\ QuotesFit(text, r.at, n)
  BY DEF ReadSoFar
<1>3. r.at \in States /\ Outside(text, n + 1)
  BY <1>2 DEF QuotesFit, StateFits
<1>4. n + 1 \in LineBreaks(text)
  BY <1>1, <1>3 DEF LineBreaks
<1>5. s = LineLeft(r)
  BY <1>2, AtBreak DEF LineLeft
<1>6. ASSUME s.outcome = "reading", ReaderIs(s), AtBlank(s), WidthFits(text, s.width, n + 1)
      PROVE  ReadSoFar(text, s, n + 1)
  <2>1. n + 1 \in 0 .. Len(text)
    BY <1>1
  <2>2. LineFits(text, s, n + 1, n + 1)
    BY <1>4, <1>6, <2>1, LineBegins
  <2>3. Quote \notin Marks /\ c \in Marks /\ c # Quote
    BY SignsAre DEF Marks, Breaks
  <2>4. StateAfter(r.at, c) = "fieldStart" /\ CanGoOn(r.at, c)
    BY <2>3 DEF StateAfter, CanGoOn
  <2>5. QuotesFit(text, "fieldStart", n + 1)
    BY <1>2, <2>4, QuotesGoOn
  <2>6. QED BY <1>6, <2>2, <2>5 DEF ReadSoFar, AtBlank
<1>7. n + 1 \in LineBreaks(text) \union {Len(text) + 1}
  BY <1>4
<1>8. \/ s.outcome = "failed" /\ ~IsWellFormed(text)
      \/ /\ s.outcome = "reading" /\ ReaderIs(s) /\ AtBlank(s) /\ s.next = r.next
         /\ WidthFits(text, s.width, n + 1)
  BY <1>5, <1>7, LineLeftIs
<1>9. QED BY <1>6, <1>8 DEF ComesTo

(* A character out of place is refused, and the text is ill-formed.         *)
LEMMA ReadRefused ==
  ASSUME NEW text \in Strings, NEW n \in 0 .. Len(text), n < Len(text),
         NEW r, ReadSoFar(text, r, n), NEW c, c = text[n+1], ~CanGoOn(r.at, c),
         NEW s, s = Consume(r, c, FALSE)
  PROVE  s.outcome = "failed" /\ ~IsWellFormed(text)
<1>1. ReaderIs(r) /\ QuotesFit(text, r.at, n)
  BY DEF ReadSoFar
<1>2. ~IsWellFormed(text)
  <2>1. ~QuotesMatch(text)
    BY <1>1, QuotesBreak
  <2>2. QED BY <2>1, LinesAre
<1>3. Quote # Comma /\ Quote \notin Breaks /\ Marks = Breaks \union {Comma}
  BY SignsAre DEF Marks, Breaks
<1>4. s.outcome = "failed"
  <2>1. CASE c = Quote /\ r.at = "unquoted"
    BY <1>1, <1>3, <2>1, WithoutQuotes
  <2>2. CASE c \notin Marks \union {Quote} /\ r.at = "quoteSeen"
    BY <1>1, <1>3, <2>2, AfterQuote
  <2>3. QED BY <2>1, <2>2 DEF CanGoOn
<1>5. QED BY <1>2, <1>4

(* Any character.                                                           *)
LEMMA ReadOn ==
  ASSUME NEW text \in Strings, NEW n \in 0 .. Len(text), n < Len(text),
         NEW r, ReadSoFar(text, r, n),
         NEW s, s = Consume(r, text[n+1], FALSE)
  PROVE  ComesTo(text, r, s, n + 1)
<1>1. PICK c : c = text[n+1]
  OBVIOUS
<1>2. s = Consume(r, c, FALSE)
  BY <1>1
<1>3. CASE ~CanGoOn(r.at, c)
  BY <1>1, <1>2, <1>3, ReadRefused DEF ComesTo
<1>4. CASE r.at # "quoted" /\ c \in Breaks
  BY <1>1, <1>2, <1>4, ReadLineBreak
<1>5. CASE CanGoOn(r.at, c) /\ (r.at = "quoted" \/ c \notin Breaks)
  <2>1. Keeps(s, r) /\ ReadSoFar(text, s, n + 1)
    BY <1>1, <1>2, <1>5, ReadWithin
  <2>2. QED BY <2>1 DEF Keeps, ReaderIs, ComesTo
<1>6. QED BY <1>3, <1>4, <1>5

(* At the end of the text it was read if it is well-formed.                 *)
LEMMA ReadToTheEnd ==
  ASSUME NEW text \in Strings, NEW r, ReadSoFar(text, r, Len(text)), r.next > Len(text),
         NEW s, s = ReadChar(r, text)
  PROVE  /\ s.outcome \in {"read", "failed"}
         /\ s.outcome = "read" <=> IsWellFormed(text)
<1>1. PICK l \in Nat : l = Len(text) /\ l \in 0 .. Len(text)
  BY StringIs
<1>2. ReaderIs(r) /\ QuotesFit(text, r.at, l)
  BY <1>1 DEF ReadSoFar
<1>3. QuotesMatch(text) <=> r.at # "quoted"
  BY <1>1, <1>2, QuotesAtEnd
<1>4. CASE r.at = "quoted"
  <2>1. s.outcome = "failed"
    BY <1>2, <1>4, AtEnd
  <2>2. QED BY <1>3, <1>4, <2>1, LinesAre
<1>5. CASE r.at # "quoted"
  <2>1. PICK t : t = LineLeft(r)
    OBVIOUS
  <2>2. IF t.outcome = "failed" THEN s.outcome = "failed"
        ELSE s.outcome = IF t.width = NoHeader THEN "failed" ELSE "read"
    BY <1>2, <1>5, <2>1, AtEnd DEF LineLeft
  <2>3. \/ t.outcome = "failed" /\ ~IsWellFormed(text)
        \/ t.outcome = "reading" /\ WidthFits(text, t.width, l + 1)
    BY <1>1, <2>1, LineLeftIs
  <2>4. CASE t.outcome = "failed"
    BY <2>2, <2>3, <2>4
  <2>5. CASE t.outcome = "reading" /\ WidthFits(text, t.width, l + 1)
    <3>1. \A a, b : LineAt(text, a, b) => b <= l + 1 /\ ~(l + 1 < b)
      <4>1. ASSUME NEW a, NEW b, LineAt(text, a, b) PROVE b <= l + 1 /\ ~(l + 1 < b)
        <5>1. b \in Nat /\ b <= l + 1
          BY <1>1, <4>1, LineNumbers
        <5>2. QED BY <5>1
      <4>2. QED BY <4>1
    <3>2. /\ \A a, b : LineAt(text, a, b) => FieldsBetween(text, a, b) = t.width
          /\ t.width = NoHeader <=> \A a, b : ~LineAt(text, a, b)
      BY <2>5, <3>1 DEF WidthFits
    <3>3. IsWellFormed(text) <=> t.width # NoHeader
      BY <1>3, <1>5, <3>2, LinesAre
    <3>4. QED BY <2>2, <2>5, <3>3
  <2>6. QED BY <2>3, <2>4, <2>5
<1>6. QED BY <1>4, <1>5

-----------------------------------------------------------------------------
(* A reader on its way through a text.                                      *)
ReadUpTo(text, r) ==
  /\ text \in Strings /\ r.next \in 1 .. Len(text) + 1
  /\ ReadSoFar(text, r, r.next - 1)

(* One character is read, or refused because the text is not well-formed.   *)
LEMMA OneGoesOn ==
  ASSUME NEW text, NEW r, ReadUpTo(text, r), r.next <= Len(text)
  PROVE  \/ One(r, text).outcome = "failed" /\ ~IsWellFormed(text)
         \/ One(r, text).outcome = "reading" /\ ReadUpTo(text, One(r, text))
<1>1. PICK n \in Nat, l \in Nat : /\ l = Len(text) /\ n = r.next - 1 /\ r.next = n + 1
                                 /\ n < l /\ n \in 0 .. l /\ n + 2 \in 1 .. l + 1 /\ n + 2 \in Nat
  <2>1. Len(text) \in Nat /\ r.next \in 1 .. Len(text) + 1 /\ r.next <= Len(text)
    BY StringIs DEF ReadUpTo
  <2>2. QED BY <2>1
<1>2. text \in Strings /\ ReadSoFar(text, r, n)
  BY <1>1 DEF ReadUpTo
<1>3. PICK s : s = Consume(r, text[n+1], FALSE)
  OBVIOUS
<1>4. \/ s.outcome = "failed" /\ ~IsWellFormed(text)
      \/ s.outcome = "reading" /\ s.next = r.next /\ ReadSoFar(text, s, n + 1)
  <2>1. n \in 0 .. Len(text) /\ n < Len(text)
    BY <1>1
  <2>2. ComesTo(text, r, s, n + 1)
    BY <1>2, <1>3, <2>1, ReadOn
  <2>3. QED BY <2>2 DEF ComesTo
<1>5. One(r, text) = [s EXCEPT !.next = n + 2]
  <2>1. r.next + 1 = n + 2
    BY <1>1
  <2>2. QED BY <1>1, <1>3, <2>1 DEF One
<1>6. CASE s.outcome = "failed" /\ ~IsWellFormed(text)
  <2>1. [s EXCEPT !.next = n + 2].outcome = "failed"
    BY <1>6
  <2>2. QED BY <1>5, <1>6, <2>1
<1>7. CASE s.outcome = "reading" /\ ReadSoFar(text, s, n + 1)
  <2>1. PICK t : t = [s EXCEPT !.next = n + 2]
    OBVIOUS
  <2>2. ReaderIs(s)
    BY <1>7 DEF ReadSoFar
  <2>3. t.outcome = "reading" /\ t.next = n + 2
    BY <2>1, <2>2 DEF ReaderIs
  <2>7. t.next - 1 = n + 1
    <3>1. (n + 2) - 1 = n + 1
      BY <1>1
    <3>2. QED BY <2>3, <3>1
  <2>4. ReadSoFar(text, t, n + 1)
    BY <1>1, <1>7, <2>1, NextIsFree
  <2>5. ReadUpTo(text, t)
    BY <1>1, <1>2, <2>3, <2>4, <2>7 DEF ReadUpTo
  <2>6. QED BY <1>5, <2>1, <2>3, <2>5
<1>8. QED BY <1>4, <1>6, <1>7

(* The reader takes the well-formed texts and no other.                     *)
LEMMA ReaderIsStrict ==
  ASSUME NEW text, NEW r, ReadUpTo(text, r), NEW s, s = ReadChar(r, text)
  PROVE  \/ s.outcome = "reading" /\ ReadUpTo(text, s)
         \/ s.outcome = "read" /\ IsWellFormed(text)
         \/ s.outcome = "failed" /\ ~IsWellFormed(text)
<1>1. PICK l \in Nat : l = Len(text)
  BY StringIs DEF ReadUpTo
<1>2. text \in Strings /\ r.next \in 1 .. l + 1 /\ ReaderIs(r)
  BY <1>1 DEF ReadUpTo, ReadSoFar
<1>3. CASE r.next > l
  <2>1. r.next - 1 = l
    BY <1>2, <1>3
  <2>2. ReadSoFar(text, r, Len(text))
    BY <1>1, <2>1 DEF ReadUpTo
  <2>3. QED BY <1>1, <1>2, <1>3, <2>2, ReadToTheEnd
<1>4. CASE r.next <= l
  <2>1. CASE One(r, text).outcome = "failed"
    <3>1. ~IsWellFormed(text)
      BY <1>1, <1>4, <2>1, OneGoesOn
    <3>2. s.outcome = "failed"
      BY <1>1, <1>2, <1>4, <2>1, FailsAtOnce
    <3>3. QED BY <3>1, <3>2
  <2>2. CASE One(r, text).outcome # "failed"
    <3>1. PICK o : o = One(r, text)
      OBVIOUS
    <3>2. o.outcome = "reading" /\ ReadUpTo(text, o)
      BY <1>1, <1>4, <2>2, <3>1, OneGoesOn
    <3>3. s = o \/ (o.next \in 1 .. l /\ s = One(o, text))
      BY <1>1, <1>2, <1>4, <2>2, <3>1, ReadsOneOrTwo
    <3>4. CASE o.next \in 1 .. l /\ s = One(o, text)
      BY <1>1, <3>2, <3>4, OneGoesOn
    <3>5. QED BY <3>2, <3>3, <3>4
  <2>3. QED BY <2>1, <2>2
<1>5. QED BY <1>2, <1>3, <1>4

-----------------------------------------------------------------------------
(* A written file, as the reader meets it.                                  *)

FileIs(f) ==
  /\ f.table \in Seq(Seq(Strings)) /\ f.table # <<>>
  /\ \A i \in DOMAIN f.table :
       /\ f.table[i] # <<>> /\ Len(f.table[i]) = Len(f.table[1])
       /\ f.table[i] = << <<>> >> => f.quoteAll
  /\ f.lineEnd \in Seq(Breaks) \ {<<>>} /\ f.lineEnd \in Strings
  /\ f.quoteAll \in BOOLEAN /\ f.lastEnd \in BOOLEAN

LEMMA SeqGrows ==
  ASSUME NEW A, NEW B, A \subseteq B, NEW s \in Seq(A)
  PROVE  s \in Seq(B)
<1>1. PICK n \in Nat : n = Len(s) /\ DOMAIN s = 1 .. n /\ s = [i \in 1 .. n |-> s[i]]
                       /\ \A i \in 1 .. n : s[i] \in A
  BY SeqIs, LenProperties
<1>2. s \in [1 .. n -> B]
  BY <1>1
<1>3. QED BY <1>2, SeqDef

(* How many rows a file has, and how many cells a row.                      *)
LEMMA TableIs ==
  ASSUME NEW f, FileIs(f)
  PROVE  /\ Len(f.table) \in Nat \ {0} /\ DOMAIN f.table = 1 .. Len(f.table)
         /\ Len(f.table[1]) \in Nat \ {0}
         /\ \A i \in 1 .. Len(f.table) :
              /\ f.table[i] \in Seq(Strings) /\ f.table[i] # <<>>
              /\ Len(f.table[i]) = Len(f.table[1])
              /\ f.table[i] = << <<>> >> => f.quoteAll
              /\ \A j \in 1 .. Len(f.table[1]) : f.table[i][j] \in Strings
<1>1. PICK X, Y : X = Strings /\ Y = Seq(X)
  OBVIOUS
<1>2. f.table \in Seq(Y) /\ f.table # <<>>
  BY <1>1 DEF FileIs
<1>3. PICK n \in Nat : n = Len(f.table) /\ DOMAIN f.table = 1 .. n /\ \A i \in 1 .. n : f.table[i] \in Y
  BY <1>2, SeqIs
<1>4. n # 0
  BY <1>2, <1>3, EmptySeq
<1>5. ASSUME NEW i \in 1 .. n
      PROVE  /\ f.table[i] \in Y /\ f.table[i] # <<>>
             /\ Len(f.table[i]) = Len(f.table[1]) /\ Len(f.table[1]) \in Nat \ {0}
             /\ f.table[i] = << <<>> >> => f.quoteAll
             /\ \A j \in 1 .. Len(f.table[1]) : f.table[i][j] \in X
  <2>1. f.table[i] # <<>> /\ Len(f.table[i]) = Len(f.table[1])
        /\ (f.table[i] = << <<>> >> => f.quoteAll)
    BY <1>3 DEF FileIs
  <2>2. PICK row \in Seq(X) : row = f.table[i]
    BY <1>1, <1>3
  <2>3. PICK m \in Nat : m = Len(row) /\ DOMAIN row = 1 .. m /\ \A j \in 1 .. m : row[j] \in X
    BY SeqIs
  <2>4. m # 0
    BY <2>1, <2>2, <2>3, EmptySeq
  <2>5. QED BY <1>3, <2>1, <2>2, <2>3, <2>4
<1>6. 1 \in 1 .. n
  BY <1>4
<1>7. QED BY <1>1, <1>3, <1>4, <1>5, <1>6

LEMMA RowEndIs ==
  ASSUME NEW f, FileIs(f), NEW i
  PROVE  RowEnd(f, i) \in Strings
BY SinglesAre DEF FileIs, RowEnd

(* The rows of a written file.                                              *)
LEMMA RowsAre ==
  ASSUME NEW f, FileIs(f)
  PROVE  /\ WrittenRows(f) \in Seq(Strings) /\ Len(WrittenRows(f)) = Len(f.table)
         /\ \A i \in 1 .. Len(f.table) :
              WrittenRows(f)[i] = WriteRow(f.table[i], f.quoteAll) \o RowEnd(f, i)
<1>1. PICK n \in Nat : n = Len(f.table) /\ DOMAIN f.table = 1 .. n
  BY TableIs
<1>2. PICK rows : rows = WrittenRows(f)
  OBVIOUS
<1>3. rows = [i \in 1 .. n |-> WriteRow(f.table[i], f.quoteAll) \o RowEnd(f, i)]
  BY <1>1, <1>2 DEF WrittenRows
<1>4. \A i \in 1 .. n : WriteRow(f.table[i], f.quoteAll) \o RowEnd(f, i) \in Strings
  <2>1. ASSUME NEW i \in 1 .. n PROVE WriteRow(f.table[i], f.quoteAll) \o RowEnd(f, i) \in Strings
    <3>1. f.table[i] \in Seq(Strings) /\ f.table[i] # <<>> /\ f.quoteAll \in BOOLEAN
      BY <1>1, TableIs DEF FileIs
    <3>2. WriteRow(f.table[i], f.quoteAll) \in Strings
      BY <3>1, RowIs
    <3>3. QED BY <3>2, RowEndIs, JoinIs
  <2>2. QED BY <2>1
<1>5. rows \in [1 .. n -> Strings]
  BY <1>3, <1>4
<1>6. rows \in Seq(Strings) /\ Len(rows) = n
  BY <1>5, ListIs
<1>7. QED BY <1>1, <1>2, <1>3, <1>6

LEMMA AfterRowIs ==
  ASSUME NEW f, FileIs(f), NEW i \in 0 .. Len(f.table)
  PROVE  /\ After(WrittenRows(f), i) \in Strings /\ AfterRow(f, i) \in Strings
         /\ AfterRow(f, i) = RowEnd(f, i) \o After(WrittenRows(f), i)
<1>1. After(WrittenRows(f), i) \in Strings
  BY RowsAre, AfterStrings
<1>2. RowEnd(f, i) \o After(WrittenRows(f), i) \in Strings
  BY <1>1, RowEndIs, JoinIs
<1>3. QED BY <1>1, <1>2 DEF AfterRow

(* After a cell of a row comes a comma and the next, or the end of the row. *)
LEMMA AfterCellIs ==
  ASSUME NEW f, FileIs(f), NEW i \in 1 .. Len(f.table), NEW j \in 1 .. Len(f.table[1])
  PROVE  /\ AfterCell(f, i, j) \in Strings
         /\ WriteCell(f.table[i][j], f.quoteAll) \in Strings
         /\ j = Len(f.table[1]) => AfterCell(f, i, j) = AfterRow(f, i)
         /\ j < Len(f.table[1]) =>
              AfterCell(f, i, j) =
                <<Comma>> \o (WriteCell(f.table[i][j+1], f.quoteAll) \o AfterCell(f, i, j + 1))
<1>1. PICK w \in Nat \ {0}, n \in Nat : w = Len(f.table[1]) /\ n = Len(f.table)
  BY TableIs
<1>2. PICK row \in Seq(Strings) : /\ row = f.table[i] /\ row # <<>> /\ Len(row) = w
                                  /\ \A k \in 1 .. w : row[k] \in Strings
  BY <1>1, TableIs
<1>3. PICK q \in BOOLEAN : q = f.quoteAll
  BY DEF FileIs
<1>4. PICK fs \in Seq(Strings) : /\ fs = Fields(row, q) /\ Len(fs) = w
        /\ \A k \in 2 .. w : fs[k] = <<Comma>> \o WriteCell(row[k], q)
  <2>1. PICK fs : fs = Fields(row, q)
    OBVIOUS
  <2>2. /\ fs \in Seq(Strings) /\ Len(fs) = Len(row)
        /\ \A k \in 2 .. Len(row) : fs[k] = <<Comma>> \o WriteCell(row[k], q)
    BY <1>2, <2>1, FieldsAre, ZenonT(40)
  <2>3. \A k \in 2 .. w : fs[k] = <<Comma>> \o WriteCell(row[k], q)
    BY <1>2, <2>2
  <2>4. QED BY <1>2, <2>1, <2>2, <2>3
<1>5. PICK z \in Strings : z = AfterRow(f, i)
  <2>1. i \in 0 .. Len(f.table)
    BY <1>1
  <2>2. QED BY <2>1, AfterRowIs
<1>6. \A k \in 1 .. w : AfterCell(f, i, k) = After(fs, k) \o z
  BY <1>2, <1>3, <1>4, <1>5 DEF AfterCell
<1>7. j \in 1 .. w /\ j \in 0 .. Len(fs)
  BY <1>1, <1>4
<1>8. PICK a \in Strings : a = After(fs, j)
  BY <1>7, AfterStrings
<1>9. AfterCell(f, i, j) \in Strings
  BY <1>6, <1>7, <1>8, JoinIs
<1>10. WriteCell(row[j], q) \in Strings
  BY <1>2, <1>7, CellIs
<1>11. ASSUME j = w PROVE AfterCell(f, i, j) = z
  <2>1. a = <<>>
    BY <1>4, <1>7, <1>8, <1>11, AfterStrings
  <2>2. QED BY <1>6, <1>7, <1>8, <2>1, JoinNothing
<1>12. ASSUME j < w
       PROVE  AfterCell(f, i, j) = <<Comma>> \o (WriteCell(row[j+1], q) \o AfterCell(f, i, j + 1))
  <2>1. PICK k \in 2 .. w : k = j + 1 /\ k \in 1 .. w /\ k \in 0 .. Len(fs)
    BY <1>4, <1>7, <1>12
  <2>2. PICK c \in Strings, b \in Strings : c = WriteCell(row[k], q) /\ b = After(fs, k)
    BY <1>2, <2>1, CellIs, AfterStrings
  <2>3. a = fs[k] \o b
    <3>1. j < Len(fs)
      BY <1>4, <1>12
    <3>2. After(fs, j) = fs[j+1] \o After(fs, j + 1)
      BY <1>7, <3>1, AfterStrings
    <3>3. QED BY <1>8, <2>1, <2>2, <3>2
  <2>4. fs[k] = <<Comma>> \o c
    BY <1>4, <2>1, <2>2
  <2>5. PICK m \in Strings : m = <<Comma>>
    BY SinglesAre
  <2>6. m \o c \in Strings /\ c \o b \in Strings
    BY JoinIs
  <2>7. Again(m, c, b) /\ Again(m, c \o b, z) /\ Again(c, b, z)
    BY <2>6, StringsAgain
  <2>8. AfterCell(f, i, j) = ((m \o c) \o b) \o z
    BY <1>6, <1>7, <1>8, <2>3, <2>4, <2>5
  <2>9. AfterCell(f, i, k) = b \o z
    BY <1>6, <2>1, <2>2
  <2>10. AfterCell(f, i, j) = m \o (c \o AfterCell(f, i, k))
    BY <2>7, <2>8, <2>9 DEF Again
  <2>11. QED BY <2>1, <2>2, <2>5, <2>10
<1>13. QED BY <1>1, <1>2, <1>3, <1>5, <1>9, <1>10, <1>11, <1>12

(* After a row comes the first cell of the next, or nothing.                *)
LEMMA RestOfRows ==
  ASSUME NEW f, FileIs(f), NEW i \in 0 .. Len(f.table)
  PROVE  /\ i = Len(f.table) => After(WrittenRows(f), i) = <<>>
         /\ i < Len(f.table) =>
              After(WrittenRows(f), i) =
                WriteCell(f.table[i+1][1], f.quoteAll) \o AfterCell(f, i + 1, 1)
<1>1. PICK n \in Nat : n = Len(f.table)
  BY TableIs
<1>2. PICK rows \in Seq(Strings) : rows = WrittenRows(f) /\ Len(rows) = n
  BY <1>1, RowsAre
<1>3. i \in 0 .. Len(rows)
  BY <1>1, <1>2
<1>4. ASSUME i = n PROVE After(rows, i) = <<>>
  BY <1>2, <1>3, <1>4, AfterStrings
<1>5. ASSUME i < n
      PROVE  After(rows, i) = WriteCell(f.table[i+1][1], f.quoteAll) \o AfterCell(f, i + 1, 1)
  <2>1. PICK k \in 1 .. n : k = i + 1 /\ k \in 0 .. n
    BY <1>1, <1>5
  <2>2. i < Len(rows)
    BY <1>2, <1>5
  <2>3. After(rows, i) = rows[k] \o After(rows, k)
    BY <1>3, <2>1, <2>2, AfterStrings
  <2>4. PICK row \in Seq(Strings), q \in BOOLEAN : row = f.table[k] /\ q = f.quoteAll /\ row # <<>>
    BY <1>1, <2>1, TableIs DEF FileIs
  <2>5. PICK e \in Strings, b \in Strings : e = RowEnd(f, k) /\ b = After(rows, k)
    BY <1>1, <1>2, <2>1, RowEndIs, AfterRowIs
  <2>6. WriteRow(row, q) \in Strings /\ WriteRow(row, q) = WriteCell(row[1], q) \o After(Fields(row, q), 1)
    BY <2>4, RowIs
  <2>7. PICK c \in Strings, d \in Strings : c = WriteCell(row[1], q) /\ d = After(Fields(row, q), 1)
    <3>1. PICK w \in Nat \ {0} : w = Len(row) /\ row[1] \in Strings
      <4>1. Len(f.table[1]) \in Nat \ {0} /\ Len(row) = Len(f.table[1])
            /\ \A j \in 1 .. Len(f.table[1]) : row[j] \in Strings
        BY <1>1, <2>1, <2>4, TableIs
      <4>2. QED BY <4>1
    <3>2. Fields(row, q) \in Seq(Strings) /\ 1 \in 0 .. Len(Fields(row, q))
      BY <2>4, <3>1, FieldsAre
    <3>3. After(Fields(row, q), 1) \in Strings
      BY <3>2, AfterStrings
    <3>4. WriteCell(row[1], q) \in Strings
      BY <3>1, CellIs
    <3>5. QED BY <3>3, <3>4
  <2>8. rows[k] = (c \o d) \o e
    BY <1>1, <1>2, <2>1, <2>4, <2>5, <2>6, <2>7, RowsAre
  <2>9. c \o d \in Strings /\ e \o b \in Strings
    BY JoinIs
  <2>10. Again(c \o d, e, b) /\ Again(c, d, e \o b)
    BY <2>9, StringsAgain
  <2>11. AfterCell(f, k, 1) = d \o (e \o b)
    BY <1>2, <2>4, <2>5, <2>7 DEF AfterCell, AfterRow
  <2>12. After(rows, i) = ((c \o d) \o e) \o b
    BY <2>3, <2>5, <2>8
  <2>13. After(rows, i) = c \o AfterCell(f, k, 1)
    BY <2>10, <2>11, <2>12 DEF Again
  <2>14. QED BY <2>1, <2>4, <2>7, <2>13
<1>6. QED BY <1>1, <1>2, <1>4, <1>5

-----------------------------------------------------------------------------
(* Moving the first of what is left to the end of what was read.            *)

(* What is left has a first character.                                      *)
LEMMA SplitFirst ==
  ASSUME NEW X, NEW s \in Seq(X), s # <<>>
  PROVE  \E c \in X, t \in Seq(X) : s = <<c>> \o t
<1>1. PICK c \in X, t \in Seq(X) : /\ c = Head(s) /\ Len(t) = Len(s) - 1
                                   /\ \A i \in 1 .. Len(t) : t[i] = s[i+1]
  <2>1. PICK c : c = Head(s)
    OBVIOUS
  <2>2. PICK t : t = Tail(s)
    OBVIOUS
  <2>3. c \in X /\ t \in Seq(X) /\ Len(t) = Len(s) - 1 /\ \A i \in 1 .. Len(t) : t[i] = s[i+1]
    BY <2>1, <2>2, HeadTailProperties
  <2>4. QED BY <2>1, <2>3
<1>2. PICK n \in Nat : n = Len(t)
  BY SeqIs
<1>3. Len(s) = n + 1 /\ s[1] = c
  <2>1. Len(s) \in Nat
    BY SeqIs
  <2>2. Head(s) = s[1]
    OBVIOUS
  <2>3. QED BY <1>1, <1>2, <2>1, <2>2
<1>4. PICK o \in Seq(X) : o = <<c>> /\ Len(o) = 1 /\ o[1] = c
  <2>1. <<c>> \in Seq(X)
    BY SingleIs
  <2>2. Len(<<c>>) = 1 /\ <<c>>[1] = c
    OBVIOUS
  <2>3. QED BY <2>1, <2>2
<1>5. PICK z : z = o \o t
  OBVIOUS
<1>6. /\ z \in Seq(X) /\ Len(z) = 1 + n
       /\ \A i \in 1 .. 1 + n : z[i] = IF i <= 1 THEN o[i] ELSE t[i - 1]
  BY <1>2, <1>4, <1>5, ConcatProperties
<1>7. \A i \in 1 .. Len(s) : s[i] = z[i]
  <2>1. ASSUME NEW i \in 1 .. n + 1 PROVE s[i] = z[i]
    <3>1. CASE i = 1
      BY <1>3, <1>4, <1>6, <3>1
    <3>2. CASE i # 1
      <4>1. i - 1 \in 1 .. n /\ (i - 1) + 1 = i /\ ~(i <= 1) /\ i \in 1 .. 1 + n
        BY <3>2
      <4>2. t[i-1] = s[(i - 1) + 1]
        BY <1>1, <1>2, <4>1
      <4>3. QED BY <1>6, <4>1, <4>2
    <3>3. QED BY <3>1, <3>2
  <2>2. QED BY <1>3, <2>1
<1>8. Len(s) = Len(z)
  BY <1>3, <1>6
<1>9. s = z
  BY <1>7, <1>8, <1>6, SeqEqual
<1>10. QED BY <1>4, <1>5, <1>9

LEMMA SplitString ==
  ASSUME NEW s \in Strings, s # <<>>
  PROVE  \E c \in Signs, t \in Strings : s = <<c>> \o t
BY SplitFirst DEF Strings

Over(a, c, b) == Append(a, c) \in Strings /\ Append(a, c) \o b = a \o (<<c>> \o b)

LEMMA OverIs ==
  ASSUME NEW a \in Strings, NEW c \in Signs, NEW b \in Strings
  PROVE  Over(a, c, b)
<1>1. Append(a, c) = a \o <<c>>
  BY AppendIsConcat DEF Strings
<1>2. Append(a, c) \in Strings
  BY AppendIs DEF Strings
<1>3. <<c>> \in Strings
  BY SinglesAre
<1>4. Again(a, <<c>>, b)
  BY <1>3, StringsAgain
<1>5. QED BY <1>1, <1>2, <1>4 DEF Again, Over

(* What a cell's characters are written as.                                 *)
Coded(cell) == FlattenSeq(Codes(cell))

LEMMA NothingCoded == Coded(<<>>) = <<>>
<1>1. PICK e : e = <<>>
  OBVIOUS
<1>2. DOMAIN e = 1 .. 0
  BY <1>1
<1>3. PICK codes : codes = Codes(e)
  OBVIOUS
<1>4. codes = [i \in 1 .. 0 |-> codes[i]]
  BY <1>2, <1>3 DEF Codes
<1>5. FlattenSeq(codes) = <<>>
  BY <1>4, FlattenNothing
<1>6. QED BY <1>1, <1>3, <1>5 DEF Coded

LEMMA CodedIs ==
  ASSUME NEW s \in Strings
  PROVE  Coded(s) \in Strings
<1>1. PICK n \in Nat : n = Len(s)
  BY StringIs
<1>2. PICK codes \in Seq(Strings) : codes = Codes(s) /\ Len(codes) = n
  BY <1>1, CodesAre
<1>3. 0 \in 0 .. Len(codes)
  BY <1>2
<1>4. After(codes, 0) \in Strings /\ After(codes, 0) = FlattenSeq(codes)
  BY <1>3, AfterStrings
<1>5. QED BY <1>2, <1>4 DEF Coded

(* The first character of a cell is written before the others.              *)
LEMMA CodedFirst ==
  ASSUME NEW c \in Signs, NEW b \in Strings
  PROVE  Coded(<<c>> \o b) = (IF c = Quote THEN <<Quote>> \o <<Quote>> ELSE <<c>>) \o Coded(b)
<1>1. PICK s \in Strings : s = <<c>> \o b
  BY LeadIs
<1>2. PICK k \in Nat : /\ k = Len(b) /\ Len(s) = k + 1 /\ s[1] = c
                       /\ \A m \in 1 .. k : s[m + 1] = b[m]
  BY <1>1, LeadIs
<1>3. PICK p \in Seq(Strings) : /\ p = Codes(s) /\ Len(p) = k + 1
        /\ \A i \in 1 .. k + 1 : p[i] = IF s[i] = Quote THEN <<Quote>> \o <<Quote>> ELSE <<s[i]>>
  <2>1. PICK p : p = Codes(s)
    OBVIOUS
  <2>2. /\ p \in Seq(Strings) /\ Len(p) = Len(s)
        /\ \A i \in 1 .. Len(s) : p[i] = IF s[i] = Quote THEN <<Quote>> \o <<Quote>> ELSE <<s[i]>>
    BY <2>1, CodesAre
  <2>3. QED BY <1>2, <2>1, <2>2
<1>4. PICK o \in Seq(Strings) : /\ o = Codes(b) /\ Len(o) = k
        /\ \A i \in 1 .. k : o[i] = IF b[i] = Quote THEN <<Quote>> \o <<Quote>> ELSE <<b[i]>>
  <2>1. PICK o : o = Codes(b)
    OBVIOUS
  <2>2. /\ o \in Seq(Strings) /\ Len(o) = Len(b)
        /\ \A i \in 1 .. Len(b) : o[i] = IF b[i] = Quote THEN <<Quote>> \o <<Quote>> ELSE <<b[i]>>
    BY <2>1, CodesAre
  <2>3. QED BY <1>2, <2>1, <2>2
<1>5. PICK n \in Nat \ {0} : n = k + 1 /\ n - 1 = k
  OBVIOUS
<1>6. p \in [1 .. n -> Strings] /\ o \in [1 .. n - 1 -> Strings]
  <2>1. PICK X : X = Strings
    OBVIOUS
  <2>2. p \in [1 .. Len(p) -> X] /\ o \in [1 .. Len(o) -> X]
    BY <2>1, LenProperties
  <2>3. QED BY <1>3, <1>4, <1>5, <2>1, <2>2
<1>7. \A i \in 1 .. n - 1 : o[i] = p[i + 1]
  <2>1. ASSUME NEW i \in 1 .. k PROVE o[i] = p[i+1]
    <3>1. i + 1 \in 1 .. k + 1
      OBVIOUS
    <3>2. s[i+1] = b[i]
      BY <1>2
    <3>3. QED BY <1>3, <1>4, <3>1, <3>2
  <2>2. QED BY <1>5, <2>1
<1>8. FlattenSeq(p) = p[1] \o FlattenSeq(o)
  BY <1>6, <1>7, FlattenFirst DEF Strings
<1>9. p[1] = IF c = Quote THEN <<Quote>> \o <<Quote>> ELSE <<c>>
  <2>1. 1 \in 1 .. k + 1
    OBVIOUS
  <2>2. QED BY <1>2, <1>3, <2>1
<1>10. QED BY <1>1, <1>3, <1>4, <1>8, <1>9 DEF Coded

(* A cell in quotes, and what follows it.                                   *)
LEMMA QuotedCell ==
  ASSUME NEW cell \in Strings, NEW q \in BOOLEAN, IsQuoted(cell, q), NEW tail \in Strings
  PROVE  /\ WriteCell(cell, q) \o tail = <<Quote>> \o (Coded(cell) \o (<<Quote>> \o tail))
         /\ Coded(cell) \o (<<Quote>> \o tail) \in Strings
<1>1. PICK body \in Strings : body = Coded(cell)
  BY CodedIs
<1>2. PICK m \in Strings : m = <<Quote>>
  BY SinglesAre
<1>3. body = After(Codes(cell), 0)
  <2>1. PICK n \in Nat : n = Len(cell)
    BY StringIs
  <2>2. PICK codes \in Seq(Strings) : codes = Codes(cell) /\ Len(codes) = n
    BY <2>1, CodesAre
  <2>3. 0 \in 0 .. Len(codes)
    BY <2>2
  <2>4. After(codes, 0) = FlattenSeq(codes)
    BY <2>3, AfterStrings
  <2>5. QED BY <1>1, <2>2, <2>4 DEF Coded
<1>4. WriteCell(cell, q) = m \o (body \o m)
  BY <1>2, <1>3, CellIs
<1>5. body \o m \in Strings /\ m \o tail \in Strings
  BY JoinIs
<1>6. Again(m, body \o m, tail) /\ Again(body, m, tail)
  BY <1>5, StringsAgain
<1>7. body \o (m \o tail) \in Strings
  BY <1>5, JoinIs
<1>8. QED BY <1>1, <1>2, <1>4, <1>6, <1>7 DEF Again

(* A character of it, and what follows.                                     *)
LEMMA CodedGoesOn ==
  ASSUME NEW c \in Signs, NEW b \in Strings, NEW tail \in Strings
  PROVE  /\ Coded(b) \o tail \in Strings
         /\ c # Quote => Coded(<<c>> \o b) \o tail = <<c>> \o (Coded(b) \o tail)
         /\ c = Quote => Coded(<<c>> \o b) \o tail = <<Quote>> \o (<<Quote>> \o (Coded(b) \o tail))
         /\ <<Quote>> \o (Coded(b) \o tail) \in Strings
<1>1. PICK d \in Strings : d = Coded(b)
  BY CodedIs
<1>2. PICK m \in Strings, l \in Strings : m = <<Quote>> /\ l = <<c>>
  BY SinglesAre
<1>3. d \o tail \in Strings /\ m \o (d \o tail) \in Strings /\ m \o m \in Strings
  BY JoinIs
<1>4. Again(l, d, tail) /\ Again(m \o m, d, tail) /\ Again(m, m, d \o tail)
  BY <1>3, StringsAgain
<1>5. Coded(<<c>> \o b) = IF c = Quote THEN (m \o m) \o d ELSE l \o d
  BY <1>1, <1>2, CodedFirst
<1>6. CASE c = Quote
  BY <1>1, <1>2, <1>3, <1>4, <1>5, <1>6 DEF Again
<1>7. CASE c # Quote
  BY <1>1, <1>2, <1>3, <1>4, <1>5, <1>7 DEF Again
<1>8. QED BY <1>6, <1>7

-----------------------------------------------------------------------------
(* The rows read of a written file, when i of them are finished.            *)
RowsUpTo(f, i) == [k \in 1 .. i - 1 |-> JoinWords(f.table[k+1])]

HasRows(f, r, i) ==
  /\ r.width = IF i = 0 THEN NoHeader ELSE Len(f.table[1])
  /\ r.rows = RowsUpTo(f, i)

LEMMA NoRowsAtFirst ==
  ASSUME NEW f
  PROVE  RowsUpTo(f, 0) = <<>> /\ RowsUpTo(f, 1) = <<>>
<1>1. 0 - 1 = 0 - 1 /\ 1 .. 0 - 1 = {} /\ 1 .. 1 - 1 = {}
  OBVIOUS
<1>2. DOMAIN RowsUpTo(f, 0) = {} /\ DOMAIN RowsUpTo(f, 1) = {}
  BY <1>1 DEF RowsUpTo
<1>3. QED BY <1>1, <1>2 DEF RowsUpTo

(* A row more, at the end of those read before.                             *)
LEMMA OneMoreRow ==
  ASSUME NEW f, NEW i \in Nat \ {0}
  PROVE  RowsUpTo(f, i + 1) = Append(RowsUpTo(f, i), JoinWords(f.table[i+1]))
<1>1. PICK n \in Nat : n = i - 1 /\ n + 1 = i /\ (i + 1) - 1 = n + 1
  OBVIOUS
<1>2. PICK X : X = {JoinWords(f.table[k+1]) : k \in 1 .. n + 1}
  OBVIOUS
<1>3. PICK s : s = RowsUpTo(f, i)
  OBVIOUS
<1>4. s = [k \in 1 .. n |-> JoinWords(f.table[k+1])]
  BY <1>1, <1>3 DEF RowsUpTo
<1>5. s \in [1 .. n -> X]
  <2>1. \A k \in 1 .. n : k \in 1 .. n + 1
    OBVIOUS
  <2>2. QED BY <1>2, <1>4, <2>1
<1>6. s \in Seq(X) /\ Len(s) = n
  BY <1>5, ListIs
<1>7. PICK w \in X : w = JoinWords(f.table[i+1])
  BY <1>1, <1>2
<1>8. PICK a : a = Append(s, w)
  OBVIOUS
<1>9. /\ a \in Seq(X) /\ Len(a) = n + 1 /\ a[n+1] = w
      /\ \A k \in 1 .. n : a[k] = s[k]
  BY <1>6, <1>8, AppendProperties
<1>10. PICK b : b = RowsUpTo(f, i + 1)
  OBVIOUS
<1>11. b = [k \in 1 .. n + 1 |-> JoinWords(f.table[k+1])]
  BY <1>1, <1>10 DEF RowsUpTo
<1>12. b \in [1 .. n + 1 -> X]
  BY <1>2, <1>11
<1>13. b \in Seq(X) /\ Len(b) = n + 1
  BY <1>12, ListIs
<1>14. \A k \in 1 .. n + 1 : b[k] = a[k]
  <2>1. ASSUME NEW k \in 1 .. n + 1 PROVE b[k] = a[k]
    <3>1. CASE k = n + 1
      BY <1>1, <1>7, <1>9, <1>11, <3>1
    <3>2. CASE k # n + 1
      <4>1. k \in 1 .. n
        BY <3>2
      <4>2. QED BY <1>4, <1>9, <1>11, <4>1
    <3>3. QED BY <3>1, <3>2
  <2>2. QED BY <2>1
<1>15. b = a
  BY <1>9, <1>13, <1>14, SeqEqual
<1>16. QED BY <1>3, <1>7, <1>8, <1>10, <1>15

(* The cells of a row, when k of them are finished.                         *)
HasCells(r, row, k) ==
  /\ r.row \in Seq(Strings) /\ Len(r.row) = k
  /\ \A m \in 1 .. k : r.row[m] = row[m]

(* A cell more, at the end of those of its row.                             *)
LEMMA OneMoreCell ==
  ASSUME NEW r, NEW s, NEW row, NEW k \in Nat, HasCells(r, row, k), NEW cell \in Strings,
         cell = row[k+1], s.row = Append(r.row, cell)
  PROVE  HasCells(s, row, k + 1)
<1>1. PICK t \in Seq(Strings) : t = r.row /\ Len(t) = k /\ \A m \in 1 .. k : t[m] = row[m]
  BY DEF HasCells
<1>2. PICK a : a = Append(t, cell)
  OBVIOUS
<1>3. /\ a \in Seq(Strings) /\ Len(a) = k + 1 /\ a[k+1] = cell
      /\ \A m \in 1 .. k : a[m] = t[m]
  BY <1>1, <1>2, AppendProperties
<1>4. \A m \in 1 .. k + 1 : a[m] = row[m]
  <2>1. ASSUME NEW m \in 1 .. k + 1 PROVE a[m] = row[m]
    <3>1. CASE m = k + 1
      BY <1>3, <3>1
    <3>2. CASE m # k + 1
      <4>1. m \in 1 .. k
        BY <3>2
      <4>2. QED BY <1>1, <1>3, <4>1
    <3>3. QED BY <3>1, <3>2
  <2>2. QED BY <2>1
<1>5. QED BY <1>1, <1>2, <1>3, <1>4 DEF HasCells

LEMMA AllCells ==
  ASSUME NEW r, NEW row \in Seq(Strings), HasCells(r, row, Len(row))
  PROVE  r.row = row
<1>1. PICK t \in Seq(Strings) : t = r.row /\ Len(t) = Len(row) /\ \A m \in 1 .. Len(t) : t[m] = row[m]
  BY DEF HasCells
<1>2. QED BY <1>1, SeqEqual

(* A row that ends is one row more.                                         *)
LEMMA RowIsFinished ==
  ASSUME NEW f, FileIs(f), NEW i \in 1 .. Len(f.table), NEW r, ReaderIs(r),
         HasRows(f, r, i - 1), Append(r.row, r.field) = f.table[i],
         NEW s, s = FinishRow(r)
  PROVE  ReaderIs(s) /\ AtBlank(s) /\ s.next = r.next /\ HasRows(f, s, i)
<1>1. PICK w \in Nat \ {0}, n \in Nat : w = Len(f.table[1]) /\ n = Len(f.table)
  BY TableIs
<1>2. PICK row : row = Append(r.row, r.field)
  OBVIOUS
<1>3. Len(row) = w /\ row = f.table[i]
  BY <1>1, <1>2, TableIs
<1>4. i \in Nat \ {0} /\ i # 0
  BY <1>1
<1>5. /\ s.outcome = "failed" \/ s.outcome = "reading"
      /\ s.outcome = "reading" => ReaderIs(s) /\ AtBlank(s) /\ s.next = r.next
      /\ s.outcome = "failed" <=> r.width # NoHeader /\ Len(row) # r.width
      /\ r.width = NoHeader => s.width = Len(row) /\ s.rows = r.rows
      /\ r.width # NoHeader /\ Len(row) = r.width =>
           s.width = r.width /\ s.rows = Append(r.rows, JoinWords(row))
  BY <1>2, FinishRowIs
<1>6. CASE i = 1
  <2>1. r.width = NoHeader /\ r.rows = RowsUpTo(f, 0)
    <3>1. i - 1 = 0
      BY <1>6
    <3>2. QED BY <3>1 DEF HasRows
  <2>2. s.width = w /\ s.rows = RowsUpTo(f, 1) /\ s.outcome = "reading"
    BY <1>3, <1>5, <2>1, NoRowsAtFirst
  <2>3. HasRows(f, s, i)
    BY <1>1, <1>4, <1>6, <2>2 DEF HasRows
  <2>4. QED BY <1>5, <2>2, <2>3
<1>7. CASE i # 1
  <2>1. PICK k \in Nat \ {0} : k = i - 1 /\ k + 1 = i
    BY <1>4, <1>7
  <2>2. r.width = w /\ r.rows = RowsUpTo(f, k)
    BY <1>1, <2>1 DEF HasRows
  <2>3. w # NoHeader
    BY DEF NoHeader
  <2>4. s.width = w /\ s.rows = Append(RowsUpTo(f, k), JoinWords(row)) /\ s.outcome = "reading"
    BY <1>3, <1>5, <2>2, <2>3
  <2>5. RowsUpTo(f, i) = Append(RowsUpTo(f, k), JoinWords(row))
    BY <1>3, <2>1, OneMoreRow
  <2>6. HasRows(f, s, i)
    BY <1>1, <1>4, <2>4, <2>5 DEF HasRows
  <2>7. QED BY <1>5, <2>4, <2>6
<1>8. QED BY <1>6, <1>7

-----------------------------------------------------------------------------
(* A character read, with what is then left of the text.                    *)
Alike(o, s) ==
  /\ ReaderIs(o) /\ o.at = s.at /\ o.field = s.field /\ o.row = s.row /\ o.rows = s.rows
  /\ o.width = s.width /\ o.content = s.content

(* The next character is read, and the rest is left.                        *)
LEMMA OneIs ==
  ASSUME NEW text, NEW r, ReaderIs(r), NEW c \in Signs, NEW more \in Strings,
         IsRest(text, r.next, <<c>> \o more),
         NEW s, s = Consume(r, c, FALSE), ReaderIs(s)
  PROVE  /\ r.next <= Len(text) /\ Alike(One(r, text), s)
         /\ IsRest(text, One(r, text).next, more)
<1>1. PICK n \in Nat : n = r.next
  BY DEF ReaderIs
<1>2. IsRest(text, n, <<c>> \o more)
  BY <1>1
<1>3. /\ Len(text) \in Nat /\ ~ (n > Len(text)) /\ text[n] = c
      /\ IsRest(text, n + 1, more)
  BY <1>2, RestGoesOn
<1>4. PICK o : o = One(r, text)
  OBVIOUS
<1>5. o = [s EXCEPT !.next = n + 1]
  BY <1>1, <1>3, <1>4 DEF One
<1>6. o.next = n + 1 /\ Alike(o, s)
  <2>1. PICK k \in Nat : k = n + 1
    OBVIOUS
  <2>2. o = [s EXCEPT !.next = k]
    BY <1>5, <2>1
  <2>3. o.next = k /\ ReaderIs(o)
    BY <2>2 DEF ReaderIs
  <2>4. /\ o.at = s.at /\ o.field = s.field /\ o.row = s.row /\ o.rows = s.rows
        /\ o.width = s.width /\ o.content = s.content
    BY <2>2 DEF ReaderIs
  <2>5. QED BY <2>1, <2>3, <2>4 DEF Alike
<1>7. n <= Len(text)
  BY <1>3
<1>8. QED BY <1>1, <1>3, <1>4, <1>6, <1>7

-----------------------------------------------------------------------------
(* Within a cell: what was read of it is in the field, and the rest of it   *)
(* and what follows it is left of the text.                                 *)

AtCell(r, text, cell, q, tail) ==
  /\ r.at = "fieldStart" /\ r.field = <<>>
  /\ IsRest(text, r.next, WriteCell(cell, q) \o tail)

InPlainCell(r, text, cell, q, tail) ==
  /\ ~IsQuoted(cell, q)
  /\ r.at = "unquoted" \/ (r.at = "fieldStart" /\ r.field = <<>>)
  /\ r.field \in Strings
  /\ \E b \in Strings : r.field \o b = cell /\ IsRest(text, r.next, b \o tail)

InQuotedCell(r, text, cell, q, tail) ==
  /\ r.at = "quoted" /\ r.field \in Strings
  /\ \E b \in Strings :
       r.field \o b = cell /\ IsRest(text, r.next, Coded(b) \o (<<Quote>> \o tail))

BetweenQuotes(r, text, cell, q, tail) ==
  /\ r.at = "quoteSeen" /\ r.field \in Strings
  /\ \E b \in Strings :
       /\ r.field \o (<<Quote>> \o b) = cell
       /\ IsRest(text, r.next, <<Quote>> \o (Coded(b) \o (<<Quote>> \o tail)))

InCell(r, text, cell, q, tail) ==
  \/ AtCell(r, text, cell, q, tail) \/ InPlainCell(r, text, cell, q, tail)
  \/ InQuotedCell(r, text, cell, q, tail) \/ BetweenQuotes(r, text, cell, q, tail)

CellEnds(r, text, cell, q, tail) ==
  /\ r.at \in {"fieldStart", "unquoted", "quoteSeen"} /\ r.field = cell
  /\ r.at = "fieldStart" => cell = <<>> /\ ~IsQuoted(cell, q)
  /\ IsRest(text, r.next, tail)

SameRow(o, r) == ReaderIs(o) /\ o.row = r.row /\ o.rows = r.rows /\ o.width = r.width

CellGoesOn(r, text, cell, q, tail) ==
  /\ r.next <= Len(text) /\ SameRow(One(r, text), r)
  /\ InCell(One(r, text), text, cell, q, tail) \/ CellEnds(One(r, text), text, cell, q, tail)

(* A reader that took a character is one that keeps its row.                *)
LEMMA TakenIs ==
  ASSUME NEW text, NEW r, ReaderIs(r), NEW c \in Signs, NEW more \in Strings,
         IsRest(text, r.next, <<c>> \o more),
         Keeps(Consume(r, c, FALSE), r), Consume(r, c, FALSE).row = r.row
  PROVE  /\ r.next <= Len(text) /\ SameRow(One(r, text), r)
         /\ One(r, text).at = Consume(r, c, FALSE).at
         /\ One(r, text).field = Consume(r, c, FALSE).field
         /\ IsRest(text, One(r, text).next, more)
<1>1. PICK s : s = Consume(r, c, FALSE)
  OBVIOUS
<1>2. ReaderIs(s) /\ s.rows = r.rows /\ s.width = r.width /\ s.row = r.row
  BY <1>1 DEF Keeps
<1>3. r.next <= Len(text) /\ Alike(One(r, text), s) /\ IsRest(text, One(r, text).next, more)
  BY <1>1, <1>2, OneIs
<1>4. QED BY <1>1, <1>2, <1>3 DEF Alike, SameRow

LEMMA InTheMiddle ==
  ASSUME NEW a \in Strings, NEW c \in Signs, NEW b \in Strings
  PROVE  Holds(a \o (<<c>> \o b), c)
<1>1. PICK t \in Strings : t = <<c>> \o b
  BY LeadIs
<1>2. PICK n \in Nat, k \in Nat : n = Len(a) /\ Len(t) = k + 1 /\ t[1] = c
  <2>1. Len(a) \in Nat /\ Len(b) \in Nat /\ Len(t) = Len(b) + 1 /\ t[1] = c
    BY <1>1, StringIs, LeadIs
  <2>2. QED BY <2>1
<1>3. PICK s : s = a \o t
  OBVIOUS
<1>4. /\ s \in Strings /\ Len(s) = n + (k + 1)
      /\ \A i \in 1 .. n + (k + 1) : s[i] = IF i <= n THEN a[i] ELSE t[i - n]
  <2>1. /\ s \in Strings /\ Len(s) = Len(a) + Len(t)
        /\ \A i \in 1 .. Len(a) + Len(t) : s[i] = IF i <= Len(a) THEN a[i] ELSE t[i - Len(a)]
    BY <1>3, ConcatProperties DEF Strings
  <2>2. QED BY <1>2, <2>1
<1>5. n + 1 \in 1 .. n + (k + 1) /\ ~(n + 1 <= n) /\ (n + 1) - n = 1
  OBVIOUS
<1>6. s[n + 1] = c /\ n + 1 \in DOMAIN s
  <2>1. DOMAIN s = 1 .. Len(s)
    BY <1>4, StringIs
  <2>2. QED BY <1>2, <1>4, <1>5, <2>1
<1>7. QED BY <1>1, <1>3, <1>6 DEF Holds

(* Without quotes: the cell has no character that would need them.          *)
LEMMA PlainGoesOn ==
  ASSUME NEW text, NEW cell \in Strings, NEW q, NEW tail \in Strings,
         NEW r, ReaderIs(r), InPlainCell(r, text, cell, q, tail)
  PROVE  CellEnds(r, text, cell, q, tail) \/ CellGoesOn(r, text, cell, q, tail)
<1>1. PICK a \in Strings, b \in Strings :
        a = r.field /\ a \o b = cell /\ IsRest(text, r.next, b \o tail)
  BY DEF InPlainCell
<1>2. /\ ~IsQuoted(cell, q) /\ r.at \in {"fieldStart", "unquoted"}
      /\ r.at = "fieldStart" => a = <<>>
  BY <1>1 DEF InPlainCell
<1>3. CASE b = <<>>
  <2>1. a = cell /\ IsRest(text, r.next, tail)
    BY <1>1, <1>3, JoinNothing
  <2>2. QED BY <1>1, <1>2, <2>1 DEF CellEnds
<1>4. CASE b # <<>>
  <2>1. PICK c \in Signs, d \in Strings : b = <<c>> \o d
    BY <1>4, SplitString
  <2>2. <<c>> \in Strings /\ d \o tail \in Strings
    BY SinglesAre, JoinIs
  <2>3. IsRest(text, r.next, <<c>> \o (d \o tail))
    <3>1. Again(<<c>>, d, tail)
      BY <2>2, StringsAgain
    <3>2. QED BY <1>1, <2>1, <3>1 DEF Again
  <2>4. c # Quote /\ c # Comma /\ c \notin Breaks
    <3>1. Holds(a \o (<<c>> \o d), c)
      BY InTheMiddle
    <3>2. ~MustQuote(cell)
      BY <1>2 DEF IsQuoted
    <3>3. QED BY <1>1, <2>1, <3>1, <3>2 DEF Holds, MustQuote, Breaks
  <2>5. PICK s : s = Consume(r, c, FALSE)
    OBVIOUS
  <2>6. Takes(s, r, c, "unquoted")
    BY <1>2, <2>4, <2>5, WithoutQuotes
  <2>7. Keeps(s, r) /\ s.row = r.row /\ s.field = Append(a, c) /\ s.at = "unquoted"
    BY <1>1, <2>6 DEF Takes
  <2>8. PICK o : o = One(r, text)
    OBVIOUS
  <2>9. /\ r.next <= Len(text) /\ SameRow(o, r) /\ o.at = "unquoted" /\ o.field = Append(a, c)
        /\ IsRest(text, o.next, d \o tail)
    BY <2>2, <2>3, <2>5, <2>7, <2>8, TakenIs
  <2>10. Append(a, c) \in Strings /\ Append(a, c) \o d = cell
    <3>1. Over(a, c, d)
      BY OverIs
    <3>2. QED BY <1>1, <2>1, <3>1 DEF Over
  <2>11. InPlainCell(o, text, cell, q, tail)
    BY <1>2, <2>9, <2>10 DEF InPlainCell
  <2>12. QED BY <2>8, <2>9, <2>11 DEF CellGoesOn, InCell
<1>5. QED BY <1>3, <1>4

(* The first character of a cell: a quote, or the cell without quotes.      *)
LEMMA CellBegins ==
  ASSUME NEW text, NEW cell \in Strings, NEW q \in BOOLEAN, NEW tail \in Strings,
         NEW r, ReaderIs(r), AtCell(r, text, cell, q, tail)
  PROVE  CellEnds(r, text, cell, q, tail) \/ CellGoesOn(r, text, cell, q, tail)
<1>1. r.at = "fieldStart" /\ r.field = <<>> /\ IsRest(text, r.next, WriteCell(cell, q) \o tail)
  BY DEF AtCell
<1>2. <<>> \in Strings /\ <<>> \o cell = cell
  BY SinglesAre, JoinNothing
<1>3. CASE ~IsQuoted(cell, q)
  <2>1. WriteCell(cell, q) = cell
    BY <1>3, CellIs
  <2>2. InPlainCell(r, text, cell, q, tail)
    BY <1>1, <1>2, <1>3, <2>1 DEF InPlainCell
  <2>3. QED BY <2>2, PlainGoesOn
<1>4. CASE IsQuoted(cell, q)
  <2>1. PICK more \in Strings : /\ more = Coded(cell) \o (<<Quote>> \o tail)
                                /\ WriteCell(cell, q) \o tail = <<Quote>> \o more
    BY <1>4, QuotedCell
  <2>2. IsRest(text, r.next, <<Quote>> \o more)
    BY <1>1, <2>1
  <2>3. PICK c \in Signs : c = Quote /\ c # Comma /\ c \notin Breaks
    BY SignsAre DEF Breaks
  <2>4. PICK s : s = Consume(r, c, FALSE)
    OBVIOUS
  <2>5. Keeps(s, r) /\ s.row = r.row /\ s.field = r.field /\ s.at = "quoted"
    BY <1>1, <2>3, <2>4, WithoutQuotes
  <2>6. PICK o : o = One(r, text)
    OBVIOUS
  <2>7. /\ r.next <= Len(text) /\ SameRow(o, r) /\ o.at = "quoted" /\ o.field = <<>>
        /\ IsRest(text, o.next, more)
    BY <1>1, <2>2, <2>3, <2>4, <2>5, <2>6, TakenIs
  <2>8. InQuotedCell(o, text, cell, q, tail)
    BY <1>2, <2>1, <2>7 DEF InQuotedCell
  <2>9. QED BY <2>6, <2>7, <2>8 DEF CellGoesOn, InCell
<1>5. QED BY <1>3, <1>4

(* Within quotes: a character of the cell, or the quote that ends it.       *)
LEMMA QuotedGoesOn ==
  ASSUME NEW text, NEW cell \in Strings, NEW q, NEW tail \in Strings,
         NEW r, ReaderIs(r), InQuotedCell(r, text, cell, q, tail)
  PROVE  CellGoesOn(r, text, cell, q, tail)
<1>1. PICK a \in Strings, b \in Strings :
        /\ r.at = "quoted" /\ a = r.field /\ a \o b = cell
        /\ IsRest(text, r.next, Coded(b) \o (<<Quote>> \o tail))
  BY DEF InQuotedCell
<1>2. PICK z \in Strings : z = <<Quote>> \o tail
  BY SinglesAre, JoinIs
<1>3. PICK o : o = One(r, text)
  OBVIOUS
<1>4. CASE b = <<>>
  <2>1. a = cell /\ IsRest(text, r.next, <<Quote>> \o tail)
    <3>1. Coded(b) \o z = z
      BY <1>4, NothingCoded, JoinNothing
    <3>2. a = cell
      BY <1>1, <1>4, JoinNothing
    <3>3. QED BY <1>1, <1>2, <3>1, <3>2
  <2>2. PICK c \in Signs : c = Quote
    BY SignsAre
  <2>3. PICK s : s = Consume(r, c, FALSE)
    OBVIOUS
  <2>4. Keeps(s, r) /\ s.row = r.row /\ s.field = r.field /\ s.at = "quoteSeen"
    BY <1>1, <2>2, <2>3, WithinQuotes
  <2>5. /\ r.next <= Len(text) /\ SameRow(o, r) /\ o.at = "quoteSeen" /\ o.field = cell
        /\ IsRest(text, o.next, tail)
    BY <1>1, <1>3, <2>1, <2>2, <2>3, <2>4, TakenIs
  <2>6. CellEnds(o, text, cell, q, tail)
    BY <2>5 DEF CellEnds
  <2>7. QED BY <1>3, <2>5, <2>6 DEF CellGoesOn
<1>5. CASE b # <<>>
  <2>1. PICK c \in Signs, d \in Strings : b = <<c>> \o d
    BY <1>5, SplitString
  <2>2. PICK more \in Strings : more = Coded(d) \o z
    BY CodedGoesOn
  <2>3. /\ c # Quote => Coded(b) \o z = <<c>> \o more
        /\ c = Quote => Coded(b) \o z = <<Quote>> \o (<<Quote>> \o more)
        /\ <<Quote>> \o more \in Strings
    BY <2>1, <2>2, CodedGoesOn, ZenonT(40)
  <2>4. PICK s : s = Consume(r, c, FALSE)
    OBVIOUS
  <2>5. CASE c # Quote
    <3>1. Takes(s, r, c, "quoted")
      BY <1>1, <2>4, <2>5, WithinQuotes
    <3>2. Keeps(s, r) /\ s.row = r.row /\ s.field = Append(a, c) /\ s.at = "quoted"
      BY <1>1, <3>1 DEF Takes
    <3>3. IsRest(text, r.next, <<c>> \o more)
      BY <1>1, <1>2, <2>3, <2>5
    <3>4. /\ r.next <= Len(text) /\ SameRow(o, r) /\ o.at = "quoted" /\ o.field = Append(a, c)
          /\ IsRest(text, o.next, more)
      BY <1>3, <2>4, <3>2, <3>3, TakenIs
    <3>5. Append(a, c) \in Strings /\ Append(a, c) \o d = cell
      <4>1. Over(a, c, d)
        BY OverIs
      <4>2. QED BY <1>1, <2>1, <4>1 DEF Over
    <3>6. InQuotedCell(o, text, cell, q, tail)
      BY <1>2, <2>2, <3>4, <3>5 DEF InQuotedCell
    <3>7. QED BY <1>3, <3>4, <3>6 DEF CellGoesOn, InCell
  <2>6. CASE c = Quote
    <3>1. Keeps(s, r) /\ s.row = r.row /\ s.field = r.field /\ s.at = "quoteSeen"
      BY <1>1, <2>4, <2>6, WithinQuotes
    <3>2. PICK rest \in Strings : rest = <<Quote>> \o more
      BY <2>3
    <3>3. IsRest(text, r.next, <<c>> \o rest)
      BY <1>1, <1>2, <2>3, <2>6, <3>2
    <3>4. /\ r.next <= Len(text) /\ SameRow(o, r) /\ o.at = "quoteSeen" /\ o.field = a
          /\ IsRest(text, o.next, rest)
      BY <1>1, <1>3, <2>4, <3>1, <3>3, TakenIs
    <3>5. a \o (<<Quote>> \o d) = cell
      BY <1>1, <2>1, <2>6
    <3>6. BetweenQuotes(o, text, cell, q, tail)
      BY <1>2, <2>2, <3>2, <3>4, <3>5 DEF BetweenQuotes
    <3>7. QED BY <1>3, <3>4, <3>6 DEF CellGoesOn, InCell
  <2>7. QED BY <2>5, <2>6
<1>6. QED BY <1>4, <1>5

(* The second of two quotes is a quote of the cell.                         *)
LEMMA SecondQuote ==
  ASSUME NEW text, NEW cell \in Strings, NEW q, NEW tail \in Strings,
         NEW r, ReaderIs(r), BetweenQuotes(r, text, cell, q, tail)
  PROVE  CellGoesOn(r, text, cell, q, tail)
<1>1. PICK a \in Strings, b \in Strings :
        /\ r.at = "quoteSeen" /\ a = r.field /\ a \o (<<Quote>> \o b) = cell
        /\ IsRest(text, r.next, <<Quote>> \o (Coded(b) \o (<<Quote>> \o tail)))
  BY DEF BetweenQuotes
<1>2. PICK c \in Signs : c = Quote /\ c # Comma /\ c \notin Breaks
  BY SignsAre DEF Breaks
<1>3. PICK more \in Strings : more = Coded(b) \o (<<Quote>> \o tail)
  <2>1. <<Quote>> \o tail \in Strings
    BY SinglesAre, JoinIs
  <2>2. QED BY <2>1, CodedGoesOn
<1>4. PICK s : s = Consume(r, c, FALSE)
  OBVIOUS
<1>5. Takes(s, r, c, "quoted")
  BY <1>1, <1>2, <1>4, AfterQuote
<1>6. Keeps(s, r) /\ s.row = r.row /\ s.field = Append(a, c) /\ s.at = "quoted"
  BY <1>1, <1>5 DEF Takes
<1>7. PICK o : o = One(r, text)
  OBVIOUS
<1>8. IsRest(text, r.next, <<c>> \o more)
  BY <1>1, <1>2, <1>3
<1>9. /\ r.next <= Len(text) /\ SameRow(o, r) /\ o.at = "quoted" /\ o.field = Append(a, c)
      /\ IsRest(text, o.next, more)
  BY <1>4, <1>6, <1>7, <1>8, TakenIs
<1>10. Append(a, c) \in Strings /\ Append(a, c) \o b = cell
  <2>1. Over(a, c, b)
    BY OverIs
  <2>2. QED BY <1>1, <1>2, <2>1 DEF Over
<1>11. InQuotedCell(o, text, cell, q, tail)
  BY <1>3, <1>9, <1>10 DEF InQuotedCell
<1>12. QED BY <1>7, <1>9, <1>11 DEF CellGoesOn, InCell

(* A reader within a cell has come to its end, or goes on within it.        *)
LEMMA CellIsRead ==
  ASSUME NEW text, NEW cell \in Strings, NEW q \in BOOLEAN, NEW tail \in Strings,
         NEW r, ReaderIs(r), InCell(r, text, cell, q, tail)
  PROVE  CellEnds(r, text, cell, q, tail) \/ CellGoesOn(r, text, cell, q, tail)
BY CellBegins, PlainGoesOn, QuotedGoesOn, SecondQuote DEF InCell

-----------------------------------------------------------------------------
(* On its way through a written file the reader is within a cell, or at the *)
(* end of one, or between two rows.                                         *)

InRow(f, r, i, j) ==
  /\ i \in 1 .. Len(f.table) /\ j \in 1 .. Len(f.table[1])
  /\ ReaderIs(r) /\ HasRows(f, r, i - 1) /\ HasCells(r, f.table[i], j - 1)

WithinCell(f, r, text, i, j) ==
  InRow(f, r, i, j) /\ InCell(r, text, f.table[i][j], f.quoteAll, AfterCell(f, i, j))

AtCellEnd(f, r, text, i, j) ==
  InRow(f, r, i, j) /\ CellEnds(r, text, f.table[i][j], f.quoteAll, AfterCell(f, i, j))

BetweenRows(f, r, text, i) ==
  /\ i \in 0 .. Len(f.table) /\ ReaderIs(r) /\ AtBlank(r) /\ HasRows(f, r, i)
  /\ \E e \in Seq(Breaks) : IsRest(text, r.next, e \o After(WrittenRows(f), i))

Reads(f, r, text) ==
  \/ \E i \in 1 .. Len(f.table), j \in 1 .. Len(f.table[1]) :
       WithinCell(f, r, text, i, j) \/ AtCellEnd(f, r, text, i, j)
  \/ \E i \in 0 .. Len(f.table) : BetweenRows(f, r, text, i)

(* One character more, or the end of the text and then every row is read.   *)
ReadsOn(f, r, text) ==
  \/ r.next <= Len(text) /\ ReaderIs(One(r, text)) /\ Reads(f, One(r, text), text)
  \/ /\ r.next > Len(text) /\ ReadChar(r, text).outcome = "read"
     /\ ReadChar(r, text).rows = RowsUpTo(f, Len(f.table))

LEMMA BreaksAre ==
  ASSUME NEW e \in Seq(Breaks)
  PROVE  e \in Strings
<1>1. Breaks \subseteq Signs
  BY DEF Breaks, Signs
<1>2. QED BY <1>1, SeqGrows DEF Strings

(* Within a cell the reader goes on within it, or is at its end.            *)
LEMMA ReadsWithinCell ==
  ASSUME NEW f, FileIs(f), NEW r, NEW text, NEW i, NEW j, WithinCell(f, r, text, i, j)
  PROVE  AtCellEnd(f, r, text, i, j) \/ ReadsOn(f, r, text)
<1>1. /\ i \in 1 .. Len(f.table) /\ j \in 1 .. Len(f.table[1])
      /\ ReaderIs(r) /\ HasRows(f, r, i - 1) /\ HasCells(r, f.table[i], j - 1)
  BY DEF WithinCell, InRow
<1>2. PICK cell \in Strings : cell = f.table[i][j]
  BY <1>1, TableIs
<1>3. PICK tail \in Strings : tail = AfterCell(f, i, j)
  BY <1>1, AfterCellIs
<1>4. PICK q \in BOOLEAN : q = f.quoteAll
  BY DEF FileIs
<1>5. InCell(r, text, cell, q, tail)
  BY <1>2, <1>3, <1>4 DEF WithinCell
<1>6. CASE CellEnds(r, text, cell, q, tail)
  BY <1>2, <1>3, <1>4, <1>6 DEF WithinCell, AtCellEnd
<1>7. CASE CellGoesOn(r, text, cell, q, tail)
  <2>1. PICK o : o = One(r, text)
    OBVIOUS
  <2>2. /\ r.next <= Len(text) /\ SameRow(o, r)
        /\ InCell(o, text, cell, q, tail) \/ CellEnds(o, text, cell, q, tail)
    BY <1>7, <2>1 DEF CellGoesOn
  <2>3. InRow(f, o, i, j)
    BY <1>1, <2>2 DEF SameRow, InRow, HasRows, HasCells
  <2>4. WithinCell(f, o, text, i, j) \/ AtCellEnd(f, o, text, i, j)
    BY <1>2, <1>3, <1>4, <2>2, <2>3 DEF WithinCell, AtCellEnd
  <2>5. Reads(f, o, text)
    BY <1>1, <2>4 DEF Reads
  <2>6. QED BY <2>1, <2>2, <2>5 DEF SameRow, ReadsOn
<1>8. QED BY <1>1, <1>5, <1>6, <1>7, CellIsRead

(* After a cell comes the next cell of the row, when there is one.          *)
LEMMA ReadsComma ==
  ASSUME NEW f, FileIs(f), NEW r, NEW text, NEW i, NEW j, AtCellEnd(f, r, text, i, j),
         j < Len(f.table[1])
  PROVE  ReadsOn(f, r, text)
<1>1. PICK w \in Nat \ {0}, n \in Nat : w = Len(f.table[1]) /\ n = Len(f.table)
  BY TableIs
<1>2. PICK row : row = f.table[i]
  OBVIOUS
<1>3. /\ i \in 1 .. n /\ j \in 1 .. w /\ j < w
      /\ ReaderIs(r) /\ HasRows(f, r, i - 1) /\ HasCells(r, row, j - 1)
  BY <1>1, <1>2 DEF AtCellEnd, InRow
<1>4. PICK cell \in Strings : cell = row[j]
  BY <1>1, <1>2, <1>3, TableIs
<1>5. /\ r.at \in {"fieldStart", "unquoted", "quoteSeen"} /\ r.field = cell
      /\ IsRest(text, r.next, AfterCell(f, i, j))
  BY <1>2, <1>4 DEF AtCellEnd, CellEnds
<1>6. PICK k \in 1 .. w : k = j + 1 /\ k - 1 = j
  BY <1>3
<1>7. PICK more : more = WriteCell(f.table[i][k], f.quoteAll) \o AfterCell(f, i, k)
  OBVIOUS
<1>8. more \in Strings
  <2>1. AfterCell(f, i, k) \in Strings /\ WriteCell(f.table[i][k], f.quoteAll) \in Strings
    BY <1>1, <1>3, <1>6, AfterCellIs
  <2>2. QED BY <1>7, <2>1, JoinIs
<1>9. IsRest(text, r.next, <<Comma>> \o more)
  <2>1. AfterCell(f, i, j) = <<Comma>> \o more
    BY <1>1, <1>3, <1>6, <1>7, AfterCellIs
  <2>2. QED BY <1>5, <2>1
<1>10. PICK c \in Signs : c = Comma
  BY SignsAre
<1>11. PICK s : s = Consume(r, c, FALSE)
  OBVIOUS
<1>12. Keeps(s, r) /\ s.row = Append(r.row, cell) /\ s.field = <<>> /\ s.at = "fieldStart"
  BY <1>3, <1>5, <1>10, <1>11, AtComma
<1>13. ReaderIs(s) /\ s.rows = r.rows /\ s.width = r.width
  BY <1>12 DEF Keeps
<1>14. PICK o : o = One(r, text)
  OBVIOUS
<1>15. r.next <= Len(text) /\ Alike(o, s) /\ IsRest(text, o.next, more)
  BY <1>3, <1>8, <1>9, <1>10, <1>11, <1>13, <1>14, OneIs
<1>16. HasCells(o, row, j)
  <2>1. PICK l \in Nat : l = j - 1 /\ l + 1 = j
    BY <1>3
  <2>2. o.row = Append(r.row, cell) /\ HasCells(r, row, l) /\ cell = row[l+1]
    BY <1>3, <1>4, <1>12, <1>15, <2>1 DEF Alike
  <2>3. HasCells(o, row, l + 1)
    BY <2>2, OneMoreCell
  <2>4. QED BY <2>1, <2>3
<1>17. HasRows(f, o, i - 1)
  BY <1>3, <1>13, <1>15 DEF Alike, HasRows
<1>18. InRow(f, o, i, k)
  BY <1>1, <1>2, <1>3, <1>6, <1>15, <1>16, <1>17 DEF Alike, InRow
<1>19. AtCell(o, text, f.table[i][k], f.quoteAll, AfterCell(f, i, k))
  BY <1>7, <1>12, <1>15 DEF Alike, AtCell
<1>20. WithinCell(f, o, text, i, k)
  BY <1>18, <1>19 DEF WithinCell, InCell
<1>21. Reads(f, o, text)
  BY <1>1, <1>3, <1>6, <1>20 DEF Reads
<1>22. QED BY <1>14, <1>15, <1>21 DEF Alike, ReadsOn

(* A row that ends is not a blank line.                                     *)
LEMMA RowIsNotBlank ==
  ASSUME NEW f, FileIs(f), NEW r, NEW text, NEW i, AtCellEnd(f, r, text, i, Len(f.table[1]))
  PROVE  /\ r.at # "quoted" /\ ~(r.at # "quoteSeen" /\ IsBlank(r))
         /\ Append(r.row, r.field) = f.table[i]
<1>1. PICK w \in Nat \ {0}, n \in Nat : w = Len(f.table[1]) /\ n = Len(f.table)
  BY TableIs
<1>2. i \in 1 .. n /\ w \in 1 .. w
  BY <1>1 DEF AtCellEnd, InRow
<1>3. PICK row \in Seq(Strings) : row = f.table[i] /\ Len(row) = w /\ (row = << <<>> >> => f.quoteAll)
  BY <1>1, <1>2, TableIs
<1>4. PICK cell \in Strings : cell = row[w]
  BY <1>1, <1>2, <1>3, TableIs
<1>5. /\ HasCells(r, row, w - 1) /\ r.field = cell
      /\ r.at \in {"fieldStart", "unquoted", "quoteSeen"}
      /\ r.at = "fieldStart" => cell = <<>> /\ ~IsQuoted(cell, f.quoteAll)
  BY <1>1, <1>3, <1>4 DEF AtCellEnd, InRow, CellEnds
<1>6. PICK t : t.row = Append(r.row, cell)
  <2>1. [row |-> Append(r.row, cell)].row = Append(r.row, cell)
    OBVIOUS
  <2>2. QED BY <2>1
<1>7. t.row = row
  <2>1. PICK l \in Nat : l = w - 1 /\ l + 1 = w
    <3>1. w \in Nat \ {0}
      OBVIOUS
    <3>2. w - 1 \in Nat /\ (w - 1) + 1 = w
      BY <3>1
    <3>3. QED BY <3>2
  <2>2. HasCells(r, row, l) /\ cell = row[l+1]
    BY <1>4, <1>5, <2>1
  <2>3. HasCells(t, row, l + 1)
    BY <1>6, <2>2, OneMoreCell
  <2>4. HasCells(t, row, Len(row))
    BY <1>3, <2>1, <2>3
  <2>5. QED BY <2>4, AllCells
<1>8. ASSUME r.at = "fieldStart", r.row = <<>> PROVE FALSE
  <2>1. cell = <<>> /\ ~f.quoteAll
    BY <1>5, <1>8 DEF IsQuoted
  <2>2. row = << <<>> >>
    <3>1. row = Append(<<>>, cell)
      BY <1>6, <1>7, <1>8
    <3>2. QED BY <2>1, <3>1
  <2>3. QED BY <1>3, <2>1, <2>2
<1>9. ~(r.at # "quoteSeen" /\ IsBlank(r))
  BY <1>8 DEF IsBlank
<1>10. QED BY <1>3, <1>5, <1>6, <1>7, <1>9

(* After the last cell of a row come line ends, or the end of the text.     *)
LEMMA ReadsRowEnd ==
  ASSUME NEW f, FileIs(f), NEW r, NEW text, NEW i, AtCellEnd(f, r, text, i, Len(f.table[1]))
  PROVE  ReadsOn(f, r, text)
<1>1. PICK w \in Nat \ {0}, n \in Nat \ {0} : w = Len(f.table[1]) /\ n = Len(f.table)
  BY TableIs
<1>2. i \in 1 .. n /\ i \in 0 .. n /\ w \in 1 .. w
  <2>1. i \in 1 .. n
    BY <1>1 DEF AtCellEnd, InRow
  <2>2. QED BY <2>1
<1>3. ReaderIs(r) /\ HasRows(f, r, i - 1) /\ IsRest(text, r.next, AfterCell(f, i, w))
  BY <1>1 DEF AtCellEnd, InRow, CellEnds
<1>4. /\ r.at # "quoted" /\ ~(r.at # "quoteSeen" /\ IsBlank(r))
      /\ Append(r.row, r.field) = f.table[i]
  BY RowIsNotBlank
<1>5. PICK s : s = FinishRow(r)
  OBVIOUS
<1>6. ReaderIs(s) /\ AtBlank(s) /\ s.next = r.next /\ HasRows(f, s, i)
  BY <1>1, <1>2, <1>3, <1>4, <1>5, RowIsFinished
<1>7. PICK z \in Strings : z = After(WrittenRows(f), i)
  BY <1>1, <1>2, AfterRowIs
<1>8. AfterCell(f, i, w) = RowEnd(f, i) \o z
  <2>1. AfterCell(f, i, w) = AfterRow(f, i)
    BY <1>1, <1>2, AfterCellIs
  <2>2. QED BY <1>1, <1>2, <1>7, <2>1, AfterRowIs
<1>9. CASE i < n \/ f.lastEnd
  <2>1. RowEnd(f, i) = f.lineEnd /\ f.lineEnd \in Seq(Breaks) /\ f.lineEnd # <<>>
    BY <1>1, <1>9 DEF RowEnd, FileIs
  <2>2. PICK c \in Breaks, e \in Seq(Breaks) : f.lineEnd = <<c>> \o e
    BY <2>1, SplitFirst
  <2>3. c \in Signs /\ e \in Strings /\ <<c>> \in Strings
    BY BreaksAre, SinglesAre DEF Breaks, Signs
  <2>4. e \o z \in Strings
    BY <2>3, JoinIs
  <2>5. IsRest(text, r.next, <<c>> \o (e \o z))
    <3>1. Again(<<c>>, e, z)
      BY <2>3, StringsAgain
    <3>2. QED BY <1>3, <1>8, <2>1, <2>2, <3>1 DEF Again
  <2>6. s = Consume(r, c, FALSE)
    BY <1>3, <1>4, <1>5, AtBreak
  <2>7. PICK o : o = One(r, text)
    OBVIOUS
  <2>8. r.next <= Len(text) /\ Alike(o, s) /\ IsRest(text, o.next, e \o z)
    BY <1>3, <1>6, <2>3, <2>4, <2>5, <2>6, <2>7, OneIs
  <2>9. BetweenRows(f, o, text, i)
    BY <1>1, <1>2, <1>6, <1>7, <2>8 DEF Alike, AtBlank, HasRows, BetweenRows
  <2>10. Reads(f, o, text)
    BY <1>1, <1>2, <2>9 DEF Reads
  <2>11. QED BY <2>7, <2>8, <2>10 DEF Alike, ReadsOn
<1>10. CASE ~(i < n \/ f.lastEnd)
  <2>1. i = n
    BY <1>2, <1>10
  <2>2. AfterCell(f, i, w) = <<>>
    <3>1. RowEnd(f, i) = <<>>
      BY <1>1, <1>10 DEF RowEnd
    <3>2. z = <<>>
      BY <1>1, <1>2, <1>7, <2>1, RestOfRows
    <3>3. QED BY <1>8, <3>1, <3>2, JoinNothing
  <2>3. PICK m : m = r.next
    OBVIOUS
  <2>4. IsRest(text, m, <<>>)
    BY <1>3, <2>2, <2>3
  <2>5. r.next > Len(text)
    BY <2>3, <2>4, RestEnds
  <2>6. IF s.outcome = "failed" THEN ReadChar(r, text).outcome = "failed"
        ELSE /\ ReadChar(r, text).outcome = IF s.width = NoHeader THEN "failed" ELSE "read"
             /\ ReadChar(r, text).rows = s.rows
    BY <1>3, <1>4, <1>5, <2>5, AtEnd
  <2>7. s.outcome = "reading" /\ s.width # NoHeader /\ s.rows = RowsUpTo(f, n)
    BY <1>1, <1>2, <1>6, <2>1 DEF ReaderIs, HasRows, NoHeader
  <2>8. QED BY <1>1, <2>5, <2>6, <2>7 DEF ReadsOn
<1>11. QED BY <1>9, <1>10

(* Between two rows come line ends, the next row, or the end of the text.   *)
LEMMA ReadsBetween ==
  ASSUME NEW f, FileIs(f), NEW r, NEW text, NEW i, BetweenRows(f, r, text, i)
  PROVE  ReadsOn(f, r, text)
<1>1. PICK w \in Nat \ {0}, n \in Nat \ {0} : w = Len(f.table[1]) /\ n = Len(f.table)
  BY TableIs
<1>2. i \in 0 .. n /\ ReaderIs(r) /\ AtBlank(r) /\ HasRows(f, r, i)
  BY <1>1 DEF BetweenRows
<1>3. PICK z \in Strings : z = After(WrittenRows(f), i)
  BY <1>1, <1>2, AfterRowIs
<1>4. PICK e \in Seq(Breaks) : IsRest(text, r.next, e \o z)
  BY <1>3 DEF BetweenRows
<1>5. CASE e # <<>>
  <2>1. PICK c \in Breaks, d \in Seq(Breaks) : e = <<c>> \o d
    BY <1>5, SplitFirst
  <2>2. c \in Signs /\ d \in Strings /\ <<c>> \in Strings
    BY BreaksAre, SinglesAre DEF Breaks, Signs
  <2>3. d \o z \in Strings
    BY <2>2, JoinIs
  <2>4. IsRest(text, r.next, <<c>> \o (d \o z))
    <3>1. Again(<<c>>, d, z)
      BY <2>2, StringsAgain
    <3>2. QED BY <1>4, <2>1, <3>1 DEF Again
  <2>5. r = Consume(r, c, FALSE)
    BY <1>2, BlankStays
  <2>6. PICK o : o = One(r, text)
    OBVIOUS
  <2>7. r.next <= Len(text) /\ Alike(o, r) /\ IsRest(text, o.next, d \o z)
    BY <1>2, <2>2, <2>3, <2>4, <2>5, <2>6, OneIs
  <2>8. BetweenRows(f, o, text, i)
    BY <1>1, <1>2, <1>3, <2>7 DEF Alike, AtBlank, HasRows, BetweenRows
  <2>9. Reads(f, o, text)
    BY <1>1, <1>2, <2>8 DEF Reads
  <2>10. QED BY <2>6, <2>7, <2>9 DEF Alike, ReadsOn
<1>6. CASE e = <<>>
  <2>1. IsRest(text, r.next, z)
    BY <1>4, <1>6, JoinNothing
  <2>2. CASE i = n
    <3>1. z = <<>>
      BY <1>1, <1>2, <1>3, <2>2, RestOfRows
    <3>2. PICK m : m = r.next
      OBVIOUS
    <3>3. IsRest(text, m, <<>>)
      BY <2>1, <3>1, <3>2
    <3>4. r.next > Len(text)
      BY <3>2, <3>3, RestEnds
    <3>5. r.at # "quoted" /\ r.at # "quoteSeen" /\ IsBlank(r)
      BY <1>2 DEF AtBlank, IsBlank
    <3>6. /\ r.outcome # "failed"
          /\ ReadChar(r, text).outcome = IF r.width = NoHeader THEN "failed" ELSE "read"
          /\ ReadChar(r, text).rows = r.rows
      <4>1. r.outcome # "failed"
        BY <1>2 DEF ReaderIs
      <4>2. QED BY <1>2, <3>4, <3>5, <4>1, AtEnd
    <3>7. r.width # NoHeader /\ r.rows = RowsUpTo(f, n)
      BY <1>1, <1>2, <2>2 DEF HasRows, NoHeader
    <3>8. QED BY <1>1, <3>4, <3>6, <3>7 DEF ReadsOn
  <2>3. CASE i # n
    <3>1. PICK k \in 1 .. n : k = i + 1 /\ k - 1 = i
      BY <1>2, <2>3
    <3>2. PICK cell, tail : cell = f.table[k][1] /\ tail = AfterCell(f, k, 1)
      OBVIOUS
    <3>3. z = WriteCell(cell, f.quoteAll) \o tail
      <4>1. i < n
        BY <1>2, <2>3
      <4>2. QED BY <1>1, <1>2, <1>3, <3>1, <3>2, <4>1, RestOfRows
    <3>4. AtCell(r, text, cell, f.quoteAll, tail)
      BY <1>2, <2>1, <3>3 DEF AtBlank, AtCell
    <3>5. HasCells(r, f.table[k], 1 - 1)
      <4>1. <<>> \in Seq(Strings) /\ Len(<<>>) = 0
        BY EmptySeq
      <4>2. r.row = <<>>
        BY <1>2 DEF AtBlank
      <4>3. 1 - 1 = 0
        OBVIOUS
      <4>4. QED BY <4>1, <4>2, <4>3 DEF HasCells
    <3>6. InRow(f, r, k, 1)
      BY <1>1, <1>2, <3>1, <3>5 DEF InRow
    <3>7. WithinCell(f, r, text, k, 1)
      BY <3>2, <3>4, <3>6 DEF WithinCell, InCell
    <3>8. CASE ReadsOn(f, r, text)
      BY <3>8
    <3>9. CASE AtCellEnd(f, r, text, k, 1)
      <4>1. CASE 1 < w
        BY <1>1, <3>9, <4>1, ReadsComma
      <4>2. CASE ~(1 < w)
        <5>1. w = 1
          BY <4>2
        <5>2. AtCellEnd(f, r, text, k, Len(f.table[1]))
          BY <1>1, <3>9, <5>1
        <5>3. QED BY <5>2, ReadsRowEnd
      <4>3. QED BY <4>1, <4>2
    <3>10. QED BY <3>7, <3>8, <3>9, ReadsWithinCell
  <2>4. QED BY <2>2, <2>3
<1>7. QED BY <1>5, <1>6

(* The reader goes on until the end of the text, with every row read then.  *)
LEMMA TableIsRead ==
  ASSUME NEW f, FileIs(f), NEW r, NEW text, Reads(f, r, text)
  PROVE  ReadsOn(f, r, text)
<1>1. ASSUME NEW i, NEW j, AtCellEnd(f, r, text, i, j)
      PROVE  ReadsOn(f, r, text)
  <2>1. PICK w \in Nat \ {0} : w = Len(f.table[1]) /\ j \in 1 .. w
    BY <1>1, TableIs DEF AtCellEnd, InRow
  <2>2. CASE j < w
    BY <1>1, <2>1, <2>2, ReadsComma
  <2>3. CASE ~(j < w)
    <3>1. j = Len(f.table[1])
      BY <2>1, <2>3
    <3>2. AtCellEnd(f, r, text, i, Len(f.table[1]))
      BY <1>1, <3>1
    <3>3. QED BY <3>2, ReadsRowEnd
  <2>4. QED BY <2>2, <2>3
<1>2. ASSUME NEW i, NEW j, WithinCell(f, r, text, i, j)
      PROVE  ReadsOn(f, r, text)
  BY <1>1, <1>2, ReadsWithinCell
<1>3. ASSUME NEW i, BetweenRows(f, r, text, i)
      PROVE  ReadsOn(f, r, text)
  BY <1>3, ReadsBetween
<1>4. QED BY <1>1, <1>2, <1>3 DEF Reads
=============================================================================
