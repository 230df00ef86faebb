----------------------------- MODULE ListLemmas -----------------------------
(***************************************************************************)
(* Facts about numbers, about lists without repetitions and about what a   *)
(* fold over a list computes, for the proofs of both books.                *)
(***************************************************************************)
EXTENDS Lists, SequenceTheorems, WellFoundedInduction, TLAPS

\* min() of two quantities.
LEMMA MinOfTwo ==
  ASSUME NEW a \in Int, NEW b \in Int
  PROVE  /\ Min({a, b}) \in {a, b}
         /\ Min({a, b}) <= a
         /\ Min({a, b}) <= b
BY DEF Min

\* A set of naturals has a least element.
LEMMA LeastNatural ==
  ASSUME NEW T \in SUBSET Nat, T # {}
  PROVE  \E m \in T : \A n \in T : m <= n
<1>1. PICK m \in T : \A n \in T : <<n, m>> \notin OpToRel(<, Nat)
  BY WFMin, NatLessThanWellFounded
<1>2. ASSUME NEW n \in T, n < m
      PROVE  FALSE
  <2>1. <<n, m>> \in Nat \X Nat
    OBVIOUS
  <2>2. <<n, m>>[1] < <<n, m>>[2]
    BY <1>2
  <2>3. <<n, m>> \in OpToRel(<, Nat)
    BY <2>1, <2>2, Zenon DEF OpToRel
  <2>4. QED
    BY <1>1, <2>3, Zenon
<1>3. QED
  BY <1>2

\* remove: the element goes, the others keep their order.
LEMMA RemoveFirstFacts ==
  ASSUME NEW S, NEW s \in Seq(S), IsInjective(s), NEW p \in 1..Len(s)
  PROVE  LET r == RemoveFirst(s, s[p])
         IN  /\ r \in Seq(S)
             /\ Len(r) = Len(s) - 1
             /\ \A i \in 1..Len(r) : r[i] = IF i < p THEN s[i] ELSE s[i + 1]
<1> DEFINE r == RemoveFirst(s, s[p])
           hits == {i \in 1..Len(s) : s[i] = s[p]}
<1>1. hits = {p}
  BY DEF IsInjective
<1>2. Min(hits) = p
  BY <1>1 DEF Min
<1>3. SelectInSeq(s, LAMBDA v : v = s[p]) = p
  BY <1>1, <1>2 DEF SelectInSeq
<1>4. r = SubSeq(s, 1, p - 1) \o SubSeq(s, p + 1, Len(s))
  BY <1>3 DEF RemoveFirst, RemoveAt
<1>5. /\ SubSeq(s, 1, p - 1) \in Seq(S)
      /\ Len(SubSeq(s, 1, p - 1)) = p - 1
      /\ \A i \in 1..p - 1 : SubSeq(s, 1, p - 1)[i] = s[i]
  OBVIOUS
<1>6. /\ SubSeq(s, p + 1, Len(s)) \in Seq(S)
      /\ Len(SubSeq(s, p + 1, Len(s))) = Len(s) - p
      /\ \A i \in 1..Len(s) - p : SubSeq(s, p + 1, Len(s))[i] = s[p + i]
  OBVIOUS
<1>7. /\ r \in Seq(S)
      /\ Len(r) = Len(s) - 1
      /\ \A i \in 1..Len(r) : r[i] = IF i < p THEN s[i] ELSE s[i + 1]
  <2> DEFINE a == SubSeq(s, 1, p - 1)
             b == SubSeq(s, p + 1, Len(s))
  <2> HIDE DEF a, b, r
  <2>1. /\ r = a \o b
        /\ a \in Seq(S) /\ Len(a) = p - 1 /\ \A i \in 1..p - 1 : a[i] = s[i]
        /\ b \in Seq(S) /\ Len(b) = Len(s) - p /\ \A i \in 1..Len(s) - p : b[i] = s[p + i]
    BY <1>4, <1>5, <1>6 DEF a, b, r
  <2>2. /\ r \in Seq(S)
        /\ Len(r) = Len(s) - 1
        /\ \A i \in 1..Len(r) : r[i] = IF i <= Len(a) THEN a[i] ELSE b[i - Len(a)]
    <3>1. /\ a \o b \in Seq(S)
          /\ Len(a \o b) = Len(a) + Len(b)
          /\ \A i \in 1..Len(a) + Len(b) : (a \o b)[i] = IF i <= Len(a) THEN a[i] ELSE b[i - Len(a)]
      BY <2>1, ConcatProperties
    <3>2. Len(a) + Len(b) = Len(s) - 1
      BY <2>1
    <3>3. QED
      BY <2>1, <3>1, <3>2
  <2>3. ASSUME NEW i \in 1..Len(r)
        PROVE  r[i] = IF i < p THEN s[i] ELSE s[i + 1]
    <3>1. CASE i < p
      BY <2>1, <2>2, <3>1
    <3>2. CASE i >= p
      <4>1. i - Len(a) \in 1..Len(s) - p /\ p + (i - Len(a)) = i + 1
        BY <2>1, <2>2, <3>2
      <4>2. QED
        BY <2>1, <2>2, <3>2, <4>1
    <3>3. QED
      BY <3>1, <3>2
  <2>4. QED
    BY <2>2, <2>3
<1>8. QED
  BY <1>7

\* The same in terms of the elements.
LEMMA RemoveFirstRange ==
  ASSUME NEW S, NEW s \in Seq(S), IsInjective(s), NEW e \in Range(s)
  PROVE  /\ RemoveFirst(s, e) \in Seq(S)
         /\ IsInjective(RemoveFirst(s, e))
         /\ Range(RemoveFirst(s, e)) = Range(s) \ {e}
<1>1. PICK p \in 1..Len(s) : e = s[p]
  BY DEF Range
<1> DEFINE r == RemoveFirst(s, e)
<1>2. /\ r \in Seq(S)
      /\ Len(r) = Len(s) - 1
      /\ \A i \in 1..Len(r) : r[i] = IF i < p THEN s[i] ELSE s[i + 1]
  BY <1>1, RemoveFirstFacts
<1> HIDE DEF r
<1>3. IsInjective(r)
  <2> DEFINE from(i) == IF i < p THEN i ELSE i + 1
  <2>1. \A i \in 1..Len(r) : from(i) \in 1..Len(s) /\ r[i] = s[from(i)]
    BY <1>2
  <2>2. ASSUME NEW i \in 1..Len(r), NEW j \in 1..Len(r), r[i] = r[j]
        PROVE  i = j
    <3>1. from(i) = from(j)
      BY <2>1, <2>2 DEF IsInjective
    <3>2. QED
      BY <3>1
  <2>3. QED
    BY <1>2, <2>2 DEF IsInjective
<1>4. Range(r) \subseteq Range(s) \ {e}
  BY <1>1, <1>2 DEF Range, IsInjective
<1>5. ASSUME NEW x \in Range(s) \ {e}
      PROVE  x \in Range(r)
  <2>1. PICK i \in 1..Len(s) : x = s[i] /\ i # p
    BY <1>1 DEF Range
  <2>2. CASE i < p
    BY <1>2, <2>1, <2>2 DEF Range
  <2>3. CASE i > p
    <3>1. i - 1 \in 1..Len(r) /\ r[i - 1] = x
      BY <1>2, <2>1, <2>3
    <3>2. QED
      BY <1>2, <3>1 DEF Range
  <2>4. QED
    BY <2>1, <2>2, <2>3
<1>6. QED
  BY <1>2, <1>3, <1>4, <1>5 DEF r

\* popleft: the first element goes.
LEMMA TailRange ==
  ASSUME NEW S, NEW s \in Seq(S), IsInjective(s), s # <<>>
  PROVE  /\ Head(s) \in Range(s)
         /\ Tail(s) \in Seq(S)
         /\ IsInjective(Tail(s))
         /\ Range(Tail(s)) = Range(s) \ {Head(s)}
<1>1. /\ Len(s) > 0
      /\ Head(s) = s[1]
      /\ Tail(s) \in Seq(S)
      /\ Len(Tail(s)) = Len(s) - 1
      /\ \A i \in 1..Len(Tail(s)) : Tail(s)[i] = s[i + 1]
  BY HeadTailProperties, EmptySeq
<1> DEFINE t == Tail(s)
<1> HIDE DEF t
<1>2. t \in Seq(S) /\ Len(t) = Len(s) - 1 /\ \A i \in 1..Len(t) : t[i] = s[i + 1]
  BY <1>1 DEF t
<1>3. IsInjective(t)
  <2>1. ASSUME NEW i \in 1..Len(t), NEW j \in 1..Len(t), t[i] = t[j]
        PROVE  i = j
    <3>1. i + 1 \in DOMAIN s /\ j + 1 \in DOMAIN s /\ s[i + 1] = s[j + 1]
      BY <1>2, <2>1
    <3>2. i + 1 = j + 1
      BY <3>1 DEF IsInjective
    <3>3. QED
      BY <3>2
  <2>2. QED
    BY <1>2, <2>1 DEF IsInjective
<1>4. Range(t) \subseteq Range(s) \ {s[1]}
  BY <1>2 DEF Range, IsInjective
<1>5. ASSUME NEW x \in Range(s) \ {s[1]}
      PROVE  x \in Range(t)
  <2>1. PICK i \in 1..Len(s) : x = s[i] /\ i # 1
    BY DEF Range
  <2>2. i - 1 \in 1..Len(t) /\ t[i - 1] = x
    BY <1>2, <2>1
  <2>3. QED
    BY <1>2, <2>2 DEF Range
<1>6. QED
  BY <1>1, <1>3, <1>4, <1>5 DEF Range, t

\* append: the new element comes last.
LEMMA AppendRange ==
  ASSUME NEW S, NEW s \in Seq(S), IsInjective(s), NEW e \in S, e \notin Range(s)
  PROVE  /\ Append(s, e) \in Seq(S)
         /\ Append(s, e) # <<>>
         /\ IsInjective(Append(s, e))
         /\ Range(Append(s, e)) = Range(s) \union {e}
<1> DEFINE a == Append(s, e)
<1>1. /\ a \in Seq(S)
      /\ Len(a) = Len(s) + 1
      /\ \A i \in 1..Len(s) : a[i] = s[i]
      /\ a[Len(s) + 1] = e
  OBVIOUS
<1> HIDE DEF a
<1>2. IsInjective(a)
  BY <1>1 DEF IsInjective, Range
<1>3. Range(a) = Range(s) \union {e}
  <2>1. Range(a) \subseteq Range(s) \union {e}
    BY <1>1 DEF Range
  <2>2. Range(s) \subseteq Range(a)
    BY <1>1 DEF Range
  <2>3. e \in Range(a)
    BY <1>1 DEF Range
  <2>4. QED
    BY <2>1, <2>2, <2>3
<1>4. QED
  BY <1>1, <1>2, <1>3, EmptySeq DEF a

\* Where the elements of a shortened list come from, in order.
LEMMA RemoveFirstSource ==
  ASSUME NEW S, NEW s \in Seq(S), IsInjective(s), NEW e \in Range(s)
  PROVE  LET r == RemoveFirst(s, e)
         IN  \A i, j \in DOMAIN r : i < j =>
               \E a, b \in DOMAIN s : a < b /\ s[a] = r[i] /\ s[b] = r[j]
<1> DEFINE r == RemoveFirst(s, e)
<1>1. PICK p \in 1..Len(s) : e = s[p]
  BY DEF Range
<1>2. /\ r \in Seq(S)
      /\ Len(r) = Len(s) - 1
      /\ \A i \in 1..Len(r) : r[i] = IF i < p THEN s[i] ELSE s[i + 1]
  BY <1>1, RemoveFirstFacts
<1> HIDE DEF r
<1> DEFINE from(i) == IF i < p THEN i ELSE i + 1
<1>3. \A i \in 1..Len(r) : from(i) \in 1..Len(s) /\ r[i] = s[from(i)]
  BY <1>2
<1>4. \A i, j \in 1..Len(r) : i < j => from(i) < from(j)
  OBVIOUS
<1> HIDE DEF from
<1>5. \A i, j \in DOMAIN r : i < j =>
        \E a, b \in DOMAIN s : a < b /\ s[a] = r[i] /\ s[b] = r[j]
  <2>1. DOMAIN r = 1..Len(r)
    BY <1>2
  <2>2. QED
    BY <1>3, <1>4, <2>1
<1>6. QED
  BY <1>5, Zenon DEF r

\* Removing an element does not reorder two others.
LEMMA RemoveKeepsOrder ==
  ASSUME NEW S, NEW s \in Seq(S), IsInjective(s), NEW e \in Range(s),
         NEW x, NEW y, x # e, y # e, Precedes(x, y, s)
  PROVE  Precedes(x, y, RemoveFirst(s, e))
<1> DEFINE r == RemoveFirst(s, e)
<1>1. PICK p \in 1..Len(s) : e = s[p]
  BY DEF Range
<1>2. /\ r \in Seq(S)
      /\ Len(r) = Len(s) - 1
      /\ \A i \in 1..Len(r) : r[i] = IF i < p THEN s[i] ELSE s[i + 1]
  BY <1>1, RemoveFirstFacts
<1> HIDE DEF r
<1>3. PICK a \in 1..Len(s), b \in 1..Len(s) : a < b /\ s[a] = x /\ s[b] = y
  BY DEF Precedes
<1>4. a # p /\ b # p
  BY <1>1, <1>3
<1> DEFINE to(i) == IF i < p THEN i ELSE i - 1
<1>5. ASSUME NEW i \in 1..Len(s), i # p
      PROVE  to(i) \in 1..Len(r) /\ r[to(i)] = s[i]
  <2>1. CASE i < p
    BY <1>2, <2>1
  <2>2. CASE i > p
    <3>1. i - 1 \in 1..Len(r) /\ ~(i - 1 < p) /\ (i - 1) + 1 = i
      BY <1>2, <2>2
    <3>2. QED
      BY <1>2, <2>2, <3>1
  <2>3. QED
    BY <1>5, <2>1, <2>2
<1>6. to(a) < to(b)
  BY <1>3, <1>4
<1> HIDE DEF to
<1>7. Precedes(x, y, r)
  BY <1>2, <1>3, <1>4, <1>5, <1>6 DEF Precedes
<1>8. QED
  BY <1>7 DEF r

\* Appending an element does not reorder two others, and puts it after all.
LEMMA AppendKeepsOrder ==
  ASSUME NEW S, NEW s \in Seq(S), NEW e \in S, NEW x, NEW y
  PROVE  /\ Precedes(x, y, s) => Precedes(x, y, Append(s, e))
         /\ x \in Range(s) => Precedes(x, e, Append(s, e))
<1> DEFINE a == Append(s, e)
<1>1. /\ a \in Seq(S)
      /\ Len(a) = Len(s) + 1
      /\ \A i \in 1..Len(s) : a[i] = s[i]
      /\ a[Len(s) + 1] = e
  OBVIOUS
<1> HIDE DEF a
<1>2. Precedes(x, y, s) => Precedes(x, y, a)
  BY <1>1 DEF Precedes
<1>3. x \in Range(s) => Precedes(x, e, a)
  BY <1>1 DEF Precedes, Range
<1>4. QED
  BY <1>2, <1>3 DEF a

\* A level that loses an order keeps the order of the others.
LEMMA LevelKeepsOrder ==
  ASSUME NEW S, NEW level \in Seq(S), IsInjective(level), NEW list, OrderedAs(level, list)
  PROVE  /\ level # <<>> => OrderedAs(Tail(level), list)
         /\ \A e \in Range(level) : OrderedAs(RemoveFirst(level, e), list)
<1>1. ASSUME level # <<>>
      PROVE  OrderedAs(Tail(level), list)
  <2> DEFINE t == Tail(level)
  <2>1. t \in Seq(S) /\ Len(t) = Len(level) - 1 /\ \A i \in 1..Len(t) : t[i] = level[i + 1]
    BY <1>1, HeadTailProperties, EmptySeq
  <2> HIDE DEF t
  <2>2. ASSUME NEW i \in DOMAIN t, NEW j \in DOMAIN t, i < j
        PROVE  Precedes(t[i], t[j], list)
    <3>1. i + 1 \in DOMAIN level /\ j + 1 \in DOMAIN level /\ i + 1 < j + 1
      BY <2>1, <2>2
    <3>2. QED
      BY <2>1, <3>1 DEF OrderedAs
  <2>3. QED
    BY <2>2 DEF OrderedAs, t
<1>2. ASSUME NEW e \in Range(level)
      PROVE  OrderedAs(RemoveFirst(level, e), list)
  <2> DEFINE r == RemoveFirst(level, e)
  <2>1. \A i, j \in DOMAIN r : i < j =>
          \E a, b \in DOMAIN level : a < b /\ level[a] = r[i] /\ level[b] = r[j]
    BY RemoveFirstSource
  <2> HIDE DEF r
  <2>2. OrderedAs(r, list)
    BY <2>1 DEF OrderedAs
  <2>3. QED
    BY <2>2 DEF r
<1>3. QED
  BY <1>1, <1>2

-----------------------------------------------------------------------------
(***************************************************************************)
(* Folds.  The community modules define a fold over a list as a recursive  *)
(* function chosen on the sets of its positions, so what a fold computes   *)
(* is proved by induction on the number of positions.                      *)
(***************************************************************************)

\* Induction over the natural numbers, for a set of them.
LEMMA Induction ==
  ASSUME NEW T \in SUBSET Nat, 0 \in T, \A n \in T : n + 1 \in T
  PROVE  T = Nat
<1> SUFFICES ASSUME Nat \ T # {}
             PROVE  FALSE
  OBVIOUS
<1>1. PICK m \in Nat \ T : \A n \in Nat \ T : m <= n
  BY LeastNatural
<1>2. m - 1 \in Nat
  OBVIOUS
<1>3. m - 1 \in T
  BY <1>1, <1>2
<1>4. QED
  BY <1>3

\* A set of naturals with a bound has a greatest element.
LEMMA GreatestNatural ==
  ASSUME NEW n \in Nat, NEW U \in SUBSET (1..n), U # {}
  PROVE  Max(U) \in U /\ \A i \in U : i <= Max(U)
<1> DEFINE B == {b \in Nat : \A i \in U : i <= b}
<1>1. n \in B
  OBVIOUS
<1>2. PICK m \in B : \A b \in B : m <= b
  BY <1>1, LeastNatural
<1>3. m \in U
  <2>1. SUFFICES ASSUME m \notin U PROVE FALSE
    OBVIOUS
  <2>2. PICK i \in U : TRUE
    OBVIOUS
  <2>3. m - 1 \in Nat /\ \A j \in U : j <= m - 1
    BY <2>1, <2>2
  <2>4. QED
    BY <1>2, <2>3
<1>4. QED
  BY <1>3 DEF Max

\* The greatest element of 1..n.
LEMMA GreatestOfInterval ==
  ASSUME NEW n \in Nat \ {0}
  PROVE  Max(1..n) = n /\ (1..n) \ {n} = 1..(n - 1)
<1>1. n \in 1..n /\ 1..n # {} /\ 1..n \in SUBSET (1..n)
  OBVIOUS
<1>2. Max(1..n) \in 1..n /\ n <= Max(1..n)
  BY <1>1, GreatestNatural
<1>3. QED
  BY <1>2

\* A fold over all sets of positions of a list, the way FoldLeft computes it:
\* the greatest position last.
FoldsSets(g, n, list, step, base) ==
  \A U \in SUBSET (1..n) :
    g[U] = IF U = {} THEN base ELSE step[<<g[U \ {Max(U)}], list[Max(U)]>>]

\* Such a fold exists, whatever the step is.
LEMMA FoldExists ==
  ASSUME NEW A, NEW V, NEW list \in Seq(V), NEW base \in A, NEW step \in [A \X V -> A],
         NEW n \in Nat, n <= Len(list)
  PROVE  \E g \in [SUBSET (1..n) -> A] : FoldsSets(g, n, list, step, base)
<1> DEFINE Folds(g, m) == FoldsSets(g, m, list, step, base)
           Good == {m \in Nat : m <= Len(list) => \E g \in [SUBSET (1..m) -> A] : Folds(g, m)}
<1>1. 0 \in Good
  <2>1. 1..0 = {}
    OBVIOUS
  <2>2. [U \in SUBSET (1..0) |-> base] \in [SUBSET (1..0) -> A]
    OBVIOUS
  <2>3. Folds([U \in SUBSET (1..0) |-> base], 0)
    BY <2>1 DEF FoldsSets
  <2>4. QED
    BY <2>2, <2>3
<1>2. ASSUME NEW m \in Nat, m + 1 <= Len(list),
             NEW g \in [SUBSET (1..m) -> A], Folds(g, m)
      PROVE  \E h \in [SUBSET (1..m + 1) -> A] : Folds(h, m + 1)
  <2> DEFINE h == [U \in SUBSET (1..m + 1) |->
                     IF m + 1 \in U THEN step[<<g[U \ {m + 1}], list[m + 1]>>] ELSE g[U]]
  <2>1. list[m + 1] \in V
    BY <1>2
  <2>2. ASSUME NEW U \in SUBSET (1..m + 1)
        PROVE  /\ h[U] \in A
               /\ h[U] = IF U = {} THEN base ELSE step[<<h[U \ {Max(U)}], list[Max(U)]>>]
    <3>1. U # {} => Max(U) \in U /\ \A i \in U : i <= Max(U)
      <4>1. m + 1 \in Nat
        OBVIOUS
      <4>2. QED
        BY <4>1, GreatestNatural
    <3>2. CASE m + 1 \in U
      <4>1. Max(U) = m + 1
        <5>1. Max(U) \in 1..m + 1 /\ m + 1 <= Max(U)
          BY <3>1, <3>2
        <5>2. QED
          BY <5>1
      <4>2. U \ {m + 1} \in SUBSET (1..m) /\ U \ {m + 1} \in SUBSET (1..m + 1) /\ m + 1 \notin U \ {m + 1}
        OBVIOUS
      <4>3. h[U \ {m + 1}] = g[U \ {m + 1}] /\ g[U \ {m + 1}] \in A
        BY <4>2
      <4>4. h[U] = step[<<g[U \ {m + 1}], list[m + 1]>>]
        BY <3>2
      <4>5. <<g[U \ {m + 1}], list[m + 1]>> \in A \X V
        BY <2>1, <4>3
      <4> HIDE DEF h
      <4>6. QED
        BY <3>2, <4>1, <4>3, <4>4, <4>5
    <3>3. CASE m + 1 \notin U
      <4>1. U \in SUBSET (1..m)
        BY <3>3
      <4>2. h[U] = g[U]
        BY <3>3
      <4> DEFINE W == U \ {Max(U)}
      <4>3. W \in SUBSET (1..m) /\ W \in SUBSET (1..m + 1) /\ m + 1 \notin W
        BY <3>3, <4>1
      <4> HIDE DEF W
      <4>4. h[W] = g[W]
        BY <4>3
      <4> HIDE DEF h
      <4>5. g[U] = IF U = {} THEN base ELSE step[<<g[W], list[Max(U)]>>]
        BY <1>2, <4>1 DEF W, FoldsSets
      <4>6. g[U] \in A
        BY <4>1
      <4>7. QED
        BY <4>2, <4>4, <4>5, <4>6 DEF W
    <3>4. QED
      BY <3>2, <3>3
  <2> HIDE DEF h
  <2>3. h \in [SUBSET (1..m + 1) -> A]
    BY <2>2 DEF h
  <2>4. Folds(h, m + 1)
    BY <2>2 DEF FoldsSets
  <2>5. QED
    BY <2>3, <2>4
<1>3. \A m \in Good : m + 1 \in Good
  <2> SUFFICES ASSUME NEW m \in Good
               PROVE  m + 1 \in Good
    OBVIOUS
  <2> HIDE DEF Folds
  <2>1. m \in Nat /\ (m <= Len(list) => \E g \in [SUBSET (1..m) -> A] : Folds(g, m))
    OBVIOUS
  <2>2. ASSUME m + 1 <= Len(list)
        PROVE  \E h \in [SUBSET (1..m + 1) -> A] : Folds(h, m + 1)
    <3>1. m <= Len(list)
      BY <2>1, <2>2
    <3>2. PICK g \in [SUBSET (1..m) -> A] : Folds(g, m)
      BY <2>1, <3>1
    <3>3. QED
      BY <1>2, <2>1, <2>2, <3>2
  <2>3. m + 1 \in Nat
    BY <2>1
  <2>4. QED
    BY <2>2, <2>3, Zenon
<1> HIDE DEF Good
<1>4. Good = Nat
  <2>1. Good \in SUBSET Nat
    BY DEF Good
  <2>2. QED
    BY <1>1, <1>3, <2>1, Induction
<1> HIDE DEF Folds
<1>5. \E g \in [SUBSET (1..n) -> A] : Folds(g, n)
  BY <1>4 DEF Good
<1>6. QED
  BY <1>5 DEF Folds

\* The partial sums of a list.
Sums(weight, list, p) ==
  /\ p \in [0..Len(list) -> Int]
  /\ p[0] = 0
  /\ \A i \in 1..Len(list) : p[i] = p[i - 1] + weight[list[i]]

\* A total is the last partial sum.
LEMMA TotalIsSum ==
  ASSUME NEW S, NEW s \in Seq(S), NEW w \in [S -> Int]
  PROVE  \E p : Sums(w, s, p) /\ Total(w, s) = p[Len(s)]
<1> DEFINE Iter(f) == f = [U \in SUBSET DOMAIN s |->
                             IF U = {} THEN 0 ELSE f[U \ {Max(U)}] + w[s[Max(U)]]]
           step == [a \in Int \X S |-> a[1] + w[a[2]]]
<1>1. Total(w, s) = (CHOOSE f : Iter(f))[DOMAIN s]
  BY DEF Total, FoldLeft, MapThenFoldSet
<1>2. DOMAIN s = 1..Len(s) /\ Len(s) \in Nat
  OBVIOUS
<1>3. PICK g \in [SUBSET (1..Len(s)) -> Int] :
        FoldsSets(g, Len(s), s, step, 0)
  <2>1. step \in [Int \X S -> Int]
    OBVIOUS
  <2>2. 0 \in Int /\ Len(s) <= Len(s)
    BY <1>2
  <2> HIDE DEF step
  <2>3. QED
    BY <1>2, <2>1, <2>2, FoldExists
<1>4. ASSUME NEW U \in SUBSET (1..Len(s)), U # {}
      PROVE  g[U] = g[U \ {Max(U)}] + w[s[Max(U)]]
  <2>1. Max(U) \in 1..Len(s)
    BY <1>2, <1>4, GreatestNatural
  <2>2. s[Max(U)] \in S
    BY <2>1
  <2> DEFINE W == U \ {Max(U)}
  <2>3. W \in SUBSET (1..Len(s))
    OBVIOUS
  <2>4. g[U] = step[<<g[W], s[Max(U)]>>]
    BY <1>3, <1>4 DEF FoldsSets
  <2> HIDE DEF W
  <2>5. g[W] \in Int
    BY <2>3
  <2>6. g[U] = g[W] + w[s[Max(U)]]
    BY <2>2, <2>4, <2>5
  <2>7. QED
    BY <2>6 DEF W
<1>5. \E f : Iter(f)
  <2>1. g = [U \in SUBSET DOMAIN s |-> IF U = {} THEN 0 ELSE g[U \ {Max(U)}] + w[s[Max(U)]]]
    <3> HIDE DEF step
    <3>1. QED
      BY <1>2, <1>3, <1>4 DEF FoldsSets
  <2>2. QED
    BY <2>1
<1> DEFINE f == CHOOSE h : Iter(h)
<1>6. f = [U \in SUBSET DOMAIN s |-> IF U = {} THEN 0 ELSE f[U \ {Max(U)}] + w[s[Max(U)]]]
  BY <1>5
<1>7. Total(w, s) = f[1..Len(s)]
  BY <1>1, <1>2
<1> HIDE DEF f, step, Iter
<1> DEFINE p == [i \in 0..Len(s) |-> f[1..i]]
<1>8. p[0] = 0
  <2>1. 1..0 = {} /\ 0 \in 0..Len(s)
    BY <1>2
  <2>2. QED
    BY <1>6, <2>1
<1>9. ASSUME NEW i \in 1..Len(s)
      PROVE  p[i] = p[i - 1] + w[s[i]]
  <2>1. i \in Nat \ {0} /\ i - 1 \in 0..Len(s) /\ i \in 0..Len(s)
    BY <1>2
  <2>2. Max(1..i) = i /\ (1..i) \ {i} = 1..(i - 1)
    BY <2>1, GreatestOfInterval
  <2>3. (1..i) \in SUBSET DOMAIN s /\ (1..i) # {}
    <3>1. i \in 1..i /\ 1..i \subseteq 1..Len(s)
      BY <1>2, <2>1
    <3>2. QED
      BY <1>2, <3>1, Zenon
  <2>4. f[1..i] = f[1..(i - 1)] + w[s[i]]
    BY <1>6, <2>2, <2>3
  <2>5. QED
    BY <2>1, <2>4
<1> HIDE DEF p
<1>10. p \in [0..Len(s) -> Int]
  <2> DEFINE T == {n \in Nat : n <= Len(s) => p[n] \in Int}
  <2>1. 0 \in T
    BY <1>8
  <2>2. ASSUME NEW n \in T
        PROVE  n + 1 \in T
    <3>1. ASSUME n + 1 <= Len(s) PROVE p[n + 1] \in Int
      <4>1. p[n] \in Int /\ w[s[n + 1]] \in Int /\ n + 1 \in 1..Len(s) /\ n + 1 - 1 = n
        BY <1>2, <3>1
      <4>2. p[n + 1] = p[n] + w[s[n + 1]]
        BY <1>9, <4>1
      <4>3. QED
        BY <4>1, <4>2
    <3>2. QED
      BY <3>1
  <2> HIDE DEF T
  <2>3. T = Nat
    <3>1. T \in SUBSET Nat
      BY DEF T
    <3>2. QED
      BY <2>1, <2>2, <3>1, Induction
  <2>4. \A i \in 0..Len(s) : p[i] \in Int
    BY <1>2, <2>3 DEF T
  <2>5. QED
    BY <2>4 DEF p
<1>11. Total(w, s) = p[Len(s)]
  BY <1>2, <1>7 DEF p
<1>12. QED
  BY <1>8, <1>9, <1>10, <1>11 DEF Sums

\* The first n elements of two lists weigh the same, one by one.
Alike(w, s, v, t, n) == \A i \in 1..n : w[s[i]] = v[t[i]]

\* Lists that agree up to a place, with weights that agree there, have the same
\* partial sums up to that place.
LEMMA SameSums ==
  ASSUME NEW s, NEW t, NEW w, NEW v, NEW p, NEW q, Sums(w, s, p), Sums(v, t, q),
         NEW n, n \in Nat, n <= Len(s), n <= Len(t), Len(s) \in Nat, Len(t) \in Nat,
         Alike(w, s, v, t, n)
  PROVE  p[n] = q[n]
<1> DEFINE T == {m \in Nat : m <= n => p[m] = q[m]}
<1>1. 0 \in T
  BY DEF Sums
<1>2. ASSUME NEW m \in T
      PROVE  m + 1 \in T
  <2>1. ASSUME m + 1 <= n PROVE p[m + 1] = q[m + 1]
    <3>1. m + 1 \in 1..n /\ m + 1 \in 1..Len(s) /\ m + 1 \in 1..Len(t) /\ (m + 1) - 1 = m
      BY <2>1
    <3>2. p[m] = q[m]
      BY <2>1
    <3>3. p[m + 1] = p[m] + w[s[m + 1]] /\ q[m + 1] = q[m] + v[t[m + 1]]
      BY <3>1 DEF Sums
    <3>4. w[s[m + 1]] = v[t[m + 1]]
      BY <3>1 DEF Alike
    <3>5. QED
      BY <3>2, <3>3, <3>4
  <2>2. QED
    BY <2>1
<1> HIDE DEF T
<1>3. T = Nat
  <2>1. T \in SUBSET Nat
    BY DEF T
  <2>2. QED
    BY <1>1, <1>2, <2>1, Induction
<1>4. QED
  BY <1>3 DEF T

\* Nothing weighs nothing.
LEMMA TotalOfEmpty ==
  ASSUME NEW S, NEW w \in [S -> Int]
  PROVE  Total(w, <<>>) = 0
<1>1. <<>> \in Seq(S) /\ Len(<<>>) = 0
  BY EmptySeq
<1>2. PICK p : Sums(w, <<>>, p) /\ Total(w, <<>>) = p[Len(<<>>)]
  BY <1>1, TotalIsSum
<1>3. QED
  BY <1>1, <1>2 DEF Sums

\* A total is a number.
LEMMA TotalType ==
  ASSUME NEW S, NEW s \in Seq(S), NEW w \in [S -> Int]
  PROVE  Total(w, s) \in Int
<1>1. PICK p : Sums(w, s, p) /\ Total(w, s) = p[Len(s)]
  BY TotalIsSum
<1>2. QED
  BY <1>1 DEF Sums

\* One more element adds its weight.
LEMMA TotalOfAppend ==
  ASSUME NEW S, NEW s \in Seq(S), NEW w \in [S -> Int], NEW x \in S
  PROVE  Total(w, Append(s, x)) = Total(w, s) + w[x]
<1> DEFINE t == Append(s, x)
<1>1. t \in Seq(S) /\ Len(t) = Len(s) + 1 /\ Len(s) \in Nat /\ t[Len(t)] = x
      /\ \A i \in 1..Len(s) : t[i] = s[i]
  OBVIOUS
<1> HIDE DEF t
<1>2. PICK p : Sums(w, s, p) /\ Total(w, s) = p[Len(s)]
  BY TotalIsSum
<1>3. PICK q : Sums(w, t, q) /\ Total(w, t) = q[Len(t)]
  BY <1>1, TotalIsSum
<1>4. p[Len(s)] = q[Len(s)]
  <2>1. Alike(w, s, w, t, Len(s)) /\ Len(s) <= Len(s) /\ Len(s) <= Len(t) /\ Len(t) \in Nat
    BY <1>1 DEF Alike
  <2>2. QED
    BY <1>1, <1>2, <1>3, <2>1, SameSums
<1>5. q[Len(t)] = q[Len(s)] + w[t[Len(t)]]
  BY <1>1, <1>3 DEF Sums
<1>6. Total(w, t) = Total(w, s) + w[x]
  BY <1>1, <1>2, <1>3, <1>4, <1>5
<1>7. QED
  BY <1>6 DEF t

\* Weights that agree on the elements of a list give it the same total.
LEMMA TotalOfSame ==
  ASSUME NEW S, NEW s \in Seq(S), NEW w \in [S -> Int], NEW v \in [S -> Int],
         \A i \in 1..Len(s) : w[s[i]] = v[s[i]]
  PROVE  Total(w, s) = Total(v, s)
<1>1. PICK p : Sums(w, s, p) /\ Total(w, s) = p[Len(s)]
  BY TotalIsSum
<1>2. PICK q : Sums(v, s, q) /\ Total(v, s) = q[Len(s)]
  BY TotalIsSum
<1>3. Len(s) \in Nat
  OBVIOUS
<1>4. p[Len(s)] = q[Len(s)]
  <2>1. Alike(w, s, v, s, Len(s)) /\ Len(s) <= Len(s)
    BY <1>3 DEF Alike
  <2>2. QED
    BY <1>1, <1>2, <1>3, <2>1, SameSums
<1>5. QED
  BY <1>1, <1>2, <1>4

\* A list whose elements weigh nothing has no total.
LEMMA TotalOfNothing ==
  ASSUME NEW S, NEW s \in Seq(S), NEW w \in [S -> Int], \A i \in 1..Len(s) : w[s[i]] = 0
  PROVE  Total(w, s) = 0
<1>1. PICK p : Sums(w, s, p) /\ Total(w, s) = p[Len(s)]
  BY TotalIsSum
<1>2. Len(s) \in Nat
  OBVIOUS
<1> DEFINE T == {m \in Nat : m <= Len(s) => p[m] = 0}
<1>3. 0 \in T
  BY <1>1 DEF Sums
<1>4. ASSUME NEW m \in T
      PROVE  m + 1 \in T
  <2>1. ASSUME m + 1 <= Len(s) PROVE p[m + 1] = 0
    <3>1. m + 1 \in 1..Len(s) /\ (m + 1) - 1 = m
      BY <1>2, <2>1
    <3>2. p[m] = 0 /\ w[s[m + 1]] = 0
      BY <1>2, <2>1, <3>1
    <3>3. p[m + 1] = p[m] + w[s[m + 1]]
      BY <1>1, <3>1 DEF Sums
    <3>4. QED
      BY <3>2, <3>3
  <2>2. QED
    BY <2>1
<1> HIDE DEF T
<1>5. T = Nat
  <2>1. T \in SUBSET Nat
    BY DEF T
  <2>2. QED
    BY <1>3, <1>4, <2>1, Induction
<1>6. QED
  BY <1>1, <1>2, <1>5 DEF T

\* List all is list s, then list t, whose elements w weighs.
Joined(w, s, t, all) ==
  /\ Len(s) \in Nat /\ Len(t) \in Nat /\ Len(all) = Len(s) + Len(t)
  /\ \A i \in 1..Len(t) : w[t[i]] \in Int
  /\ \A i \in 1..Len(s) : all[i] = s[i]
  /\ \A i \in 1..Len(t) : all[Len(s) + i] = t[i]

\* From where the first list ends its last partial sum is added to those of the second.
LEMMA SumsOfJoined ==
  ASSUME NEW w, NEW s, NEW t, NEW all, NEW p, NEW q, NEW r, Joined(w, s, t, all),
         Sums(w, s, p), Sums(w, t, q), Sums(w, all, r)
  PROVE  r[Len(all)] = p[Len(s)] + q[Len(t)]
<1> DEFINE a == Len(s)
           b == Len(t)
           T == {m \in Nat : m <= b => r[a + m] = p[a] + q[m]}
<1>1. /\ a \in Nat /\ b \in Nat /\ Len(s) = a /\ Len(t) = b /\ Len(all) = a + b
      /\ \A i \in 1..b : w[t[i]] \in Int /\ all[a + i] = t[i]
      /\ \A i \in 1..a : all[i] = s[i]
  BY DEF Joined
<1> HIDE DEF a, b
<1>2. /\ p[a] \in Int /\ q[0] = 0
      /\ \A i \in 1..b : q[i] = q[i - 1] + w[t[i]] /\ q[i - 1] \in Int
      /\ \A i \in 1..(a + b) : r[i] = r[i - 1] + w[all[i]]
  BY <1>1 DEF Sums
<1>3. r[a] = p[a]
  <2>1. Alike(w, s, w, all, a) /\ a <= Len(s) /\ a <= Len(all) /\ Len(all) \in Nat /\ Len(s) \in Nat
    BY <1>1 DEF Alike
  <2>2. QED
    BY <1>1, <2>1, SameSums
<1>4. 0 \in T
  BY <1>1, <1>2, <1>3
<1>5. ASSUME NEW m \in T
      PROVE  m + 1 \in T
  <2>1. ASSUME m + 1 <= b PROVE r[a + (m + 1)] = p[a] + q[m + 1]
    <3>1. /\ m \in Nat /\ m + 1 \in 1..b /\ (m + 1) - 1 = m /\ a + (m + 1) \in 1..(a + b)
          /\ (a + (m + 1)) - 1 = a + m
      BY <1>1, <2>1
    <3>2. r[a + m] = p[a] + q[m]
      BY <1>1, <2>1, <3>1
    <3>3. q[m + 1] = q[m] + w[t[m + 1]] /\ q[m] \in Int
      BY <1>2, <3>1
    <3>4. r[a + (m + 1)] = r[a + m] + w[t[m + 1]]
      BY <1>1, <1>2, <3>1
    <3>5. w[t[m + 1]] \in Int
      BY <1>1, <3>1
    <3>6. QED
      BY <1>2, <3>2, <3>3, <3>4, <3>5
  <2>2. QED
    BY <2>1
<1> HIDE DEF T
<1>6. T = Nat
  <2>1. T \in SUBSET Nat
    BY DEF T
  <2>2. QED
    BY <1>4, <1>5, <2>1, Induction
<1>7. r[a + b] = p[a] + q[b]
  BY <1>1, <1>6 DEF T
<1>8. QED
  BY <1>1, <1>7

\* Two lists one after the other have both totals.
LEMMA TotalOfConcat ==
  ASSUME NEW S, NEW s \in Seq(S), NEW t \in Seq(S), NEW w \in [S -> Int]
  PROVE  Total(w, s \o t) = Total(w, s) + Total(w, t)
<1> DEFINE all == s \o t
<1>1. /\ all \in Seq(S) /\ Len(s) \in Nat /\ Len(t) \in Nat /\ Len(all) = Len(s) + Len(t)
      /\ \A i \in 1..Len(s) : all[i] = s[i]
      /\ \A i \in 1..Len(t) : all[Len(s) + i] = t[i] /\ t[i] \in S
  OBVIOUS
<1> HIDE DEF all
<1>2. PICK p : Sums(w, s, p) /\ Total(w, s) = p[Len(s)]
  BY TotalIsSum
<1>3. PICK q : Sums(w, t, q) /\ Total(w, t) = q[Len(t)]
  BY TotalIsSum
<1>4. PICK r : Sums(w, all, r) /\ Total(w, all) = r[Len(all)]
  BY <1>1, TotalIsSum
<1>5. Joined(w, s, t, all)
  BY <1>1 DEF Joined
<1>6. r[Len(all)] = p[Len(s)] + q[Len(t)]
  BY <1>2, <1>3, <1>4, <1>5, SumsOfJoined
<1>7. QED
  BY <1>2, <1>3, <1>4, <1>6 DEF all

\* List r is list s, whose elements w weighs, without the k-th.
WithoutPlace(w, s, r, k) ==
  /\ Len(s) \in Nat /\ k \in 1..Len(s) /\ Len(r) = Len(s) - 1
  /\ \A i \in 1..Len(s) : w[s[i]] \in Int
  /\ \A i \in 1..Len(r) : r[i] = IF i < k THEN s[i] ELSE s[i + 1]

\* The partial sums p of list s and q of the list without its k-th element.
Lacks(w, s, r, k, p, q) == q[Len(r)] = p[Len(s)] - w[s[k]]

\* Without its k-th element the partial sums of a list lack its weight, from k on.
LEMMA SumsOfRest ==
  ASSUME NEW s, NEW r, NEW w, NEW k, NEW p, NEW q, WithoutPlace(w, s, r, k), Sums(w, s, p), Sums(w, r, q)
  PROVE  Lacks(w, s, r, k, p, q)
<1> DEFINE n == Len(s)
           c == w[s[k]]
           T == {m \in Nat : m <= n - 1 => q[m] = IF m < k THEN p[m] ELSE p[m + 1] - c}
<1>0. /\ n \in Nat /\ k \in 1..n /\ Len(s) = n /\ Len(r) = n - 1
      /\ \A i \in 1..n : w[s[i]] \in Int
      /\ \A i \in 1..n - 1 : r[i] = IF i < k THEN s[i] ELSE s[i + 1]
  BY DEF WithoutPlace
<1> HIDE DEF n
<1>1. /\ \A i \in 0..n : p[i] \in Int
      /\ \A i \in 1..n : p[i] = p[i - 1] + w[s[i]]
      /\ \A i \in 1..n - 1 : q[i] = q[i - 1] + w[r[i]] /\ q[i] \in Int
      /\ p[0] = 0 /\ q[0] = 0
  BY <1>0 DEF Sums
<1>2. p[k] = p[k - 1] + c /\ p[k - 1] \in Int /\ c \in Int
  BY <1>0, <1>1
<1>3. 0 \in T
  BY <1>0, <1>1
<1>4. ASSUME NEW m \in T
      PROVE  m + 1 \in T
  <2>1. ASSUME m + 1 <= n - 1
        PROVE  q[m + 1] = IF m + 1 < k THEN p[m + 1] ELSE p[(m + 1) + 1] - c
    <3>1. /\ m \in Nat /\ m + 1 \in 1..n - 1 /\ (m + 1) - 1 = m
          /\ (m + 1) + 1 \in 1..n /\ ((m + 1) + 1) - 1 = m + 1
          /\ m + 1 \in 1..n /\ m + 1 \in 0..n
      BY <1>0, <2>1
    <3>2. q[m + 1] = q[m] + w[r[m + 1]]
      BY <1>1, <3>1
    <3>3. q[m] = IF m < k THEN p[m] ELSE p[m + 1] - c
      <4>1. m <= n - 1
        BY <1>0, <2>1, <3>1
      <4>2. QED
        BY <4>1
    <3>4. CASE m + 1 < k
      <4>1. r[m + 1] = s[m + 1] /\ q[m] = p[m]
        BY <1>0, <3>1, <3>3, <3>4
      <4>2. p[m + 1] = p[m] + w[s[m + 1]]
        BY <1>1, <3>1
      <4>3. QED
        BY <3>2, <3>4, <4>1, <4>2
    <3>5. CASE ~(m + 1 < k)
      <4>1. r[m + 1] = s[(m + 1) + 1]
        BY <1>0, <3>1, <3>5
      <4>2. p[(m + 1) + 1] = p[m + 1] + w[s[(m + 1) + 1]]
            /\ p[(m + 1) + 1] \in Int /\ p[m + 1] \in Int
        BY <1>1, <3>1
      <4>3. q[m] = p[m + 1] - c
        <5>1. CASE m + 1 = k
          <6>1. m < k /\ k - 1 = m
            BY <1>0, <3>1, <5>1
          <6>2. QED
            BY <1>2, <3>3, <5>1, <6>1
        <5>2. CASE m + 1 # k
          <6>1. ~(m < k)
            BY <1>0, <3>1, <3>5, <5>2
          <6>2. QED
            BY <3>3, <6>1
        <5>3. QED
          BY <5>1, <5>2
      <4> HIDE DEF c
      <4>4. w[s[(m + 1) + 1]] = p[(m + 1) + 1] - p[m + 1]
        <5>1. q[m + 1] \in Int /\ q[m] \in Int
          BY <1>1, <1>2, <3>1, <4>2, <4>3
        <5>2. w[s[(m + 1) + 1]] \in Int
          BY <1>0, <3>1
        <5>3. QED
          BY <4>2, <5>2
      <4>5. QED
        BY <1>2, <3>2, <3>5, <4>1, <4>2, <4>3, <4>4
    <3>6. QED
      BY <3>4, <3>5
  <2>2. QED
    BY <2>1
<1> HIDE DEF T, c
<1>5. T = Nat
  <2>1. T \in SUBSET Nat
    BY DEF T
  <2>2. QED
    BY <1>3, <1>4, <2>1, Induction
<1>6. n - 1 \in T /\ n - 1 \in Nat
  BY <1>0, <1>5
<1>7. q[n - 1] = IF n - 1 < k THEN p[n - 1] ELSE p[(n - 1) + 1] - c
  BY <1>6 DEF T
<1>8. q[n - 1] = p[n] - c
  <2>1. CASE k = n
    BY <1>0, <1>2, <1>7, <2>1
  <2>2. CASE k # n
    <3>1. ~(n - 1 < k) /\ (n - 1) + 1 = n
      BY <1>0, <2>2
    <3>2. QED
      BY <1>7, <3>1
  <2>3. QED
    BY <2>1, <2>2
<1>9. QED
  BY <1>0, <1>8 DEF c, Lacks

\* A list without its k-th element has its total without that element's weight.
LEMMA TotalOfRest ==
  ASSUME NEW S, NEW s \in Seq(S), NEW w \in [S -> Int], NEW k \in 1..Len(s),
         NEW r \in Seq(S), Len(r) = Len(s) - 1,
         \A i \in 1..Len(r) : r[i] = IF i < k THEN s[i] ELSE s[i + 1]
  PROVE  Total(w, r) = Total(w, s) - w[s[k]]
<1>1. PICK p : Sums(w, s, p) /\ Total(w, s) = p[Len(s)]
  BY TotalIsSum
<1>2. PICK q : Sums(w, r, q) /\ Total(w, r) = q[Len(r)]
  BY TotalIsSum
<1>3. WithoutPlace(w, s, r, k)
  <2>1. Len(s) \in Nat /\ \A i \in 1..Len(s) : s[i] \in S
    OBVIOUS
  <2>2. \A i \in 1..Len(s) : w[s[i]] \in Int
    BY <2>1
  <2>3. QED
    BY <2>1, <2>2 DEF WithoutPlace
<1>4. Lacks(w, s, r, k, p, q)
  BY <1>1, <1>2, <1>3, SumsOfRest
<1>5. QED
  BY <1>1, <1>2, <1>4 DEF Lacks

\* Two weights agree on a list but for its k-th element.
AlikeBut(w, v, s, k) == \A i \in 1..Len(s) : i # k => v[s[i]] = w[s[i]]

\* Changing the weight of an element that is once in a list changes the total by
\* as much.
LEMMA TotalOfChange ==
  ASSUME NEW S, NEW s \in Seq(S), IsInjective(s), NEW w \in [S -> Int], NEW v \in [S -> Int],
         NEW k \in 1..Len(s), AlikeBut(w, v, s, k)
  PROVE  Total(v, s) = Total(w, s) - w[s[k]] + v[s[k]]
<1> DEFINE r == RemoveFirst(s, s[k])
<1>1. /\ r \in Seq(S) /\ Len(r) = Len(s) - 1
      /\ \A i \in 1..Len(r) : r[i] = IF i < k THEN s[i] ELSE s[i + 1]
  BY RemoveFirstFacts
<1> HIDE DEF r
<1>2. Total(w, r) = Total(w, s) - w[s[k]]
  BY <1>1, TotalOfRest
<1>3. Total(v, r) = Total(v, s) - v[s[k]]
  BY <1>1, TotalOfRest
<1>4. Total(w, r) = Total(v, r)
  <2>1. ASSUME NEW i \in 1..Len(r)
        PROVE  w[r[i]] = v[r[i]]
    <3>1. CASE i < k
      <4>1. i \in 1..Len(s) /\ i # k
        BY <1>1, <3>1
      <4>2. r[i] = s[i]
        BY <1>1, <3>1
      <4>3. QED
        BY <4>1, <4>2 DEF AlikeBut
    <3>2. CASE ~(i < k)
      <4>1. i + 1 \in 1..Len(s) /\ i + 1 # k
        BY <1>1, <3>2
      <4>2. r[i] = s[i + 1]
        BY <1>1, <3>2
      <4>3. QED
        BY <4>1, <4>2 DEF AlikeBut
    <3>3. QED
      BY <3>1, <3>2
  <2>2. QED
    BY <1>1, <2>1, TotalOfSame
<1>5. Total(w, s) \in Int /\ Total(v, s) \in Int /\ w[s[k]] \in Int /\ v[s[k]] \in Int
  <2>1. s[k] \in S
    OBVIOUS
  <2>2. QED
    BY <2>1, TotalType
<1>6. QED
  BY <1>2, <1>3, <1>4, <1>5

\* Others makes a list of the elements of a list.
LEMMA OthersType ==
  ASSUME NEW S, NEW s \in Seq(S), NEW x
  PROVE  Others(s, x) \in Seq(S)
<1> DEFINE N == Len(s)
           Iter(f) == f = [U \in SUBSET DOMAIN s |->
                             IF U = {} THEN <<>>
                             ELSE IF s[Max(U)] = x THEN f[U \ {Max(U)}]
                             ELSE Append(f[U \ {Max(U)}], s[Max(U)])]
           step == [a \in Seq(S) \X S |-> IF a[2] = x THEN a[1] ELSE Append(a[1], a[2])]
<1>1. Others(s, x) = (CHOOSE f : Iter(f))[DOMAIN s]
  BY DEF Others, FoldLeft, MapThenFoldSet
<1>2. DOMAIN s = 1..N /\ N \in Nat /\ \A i \in 1..N : s[i] \in S
  OBVIOUS
<1>3. PICK g \in [SUBSET (1..N) -> Seq(S)] : FoldsSets(g, N, s, step, <<>>)
  <2>1. step \in [Seq(S) \X S -> Seq(S)]
    OBVIOUS
  <2>2. <<>> \in Seq(S) /\ N <= Len(s)
    BY <1>2, EmptySeq
  <2> HIDE DEF step
  <2>3. QED
    BY <1>2, <2>1, <2>2, FoldExists
<1>4. ASSUME NEW U \in SUBSET (1..N), U # {}
      PROVE  g[U] = IF s[Max(U)] = x THEN g[U \ {Max(U)}] ELSE Append(g[U \ {Max(U)}], s[Max(U)])
  <2>1. Max(U) \in 1..N
    BY <1>2, <1>4, GreatestNatural
  <2>2. s[Max(U)] \in S
    BY <1>2, <2>1
  <2> DEFINE W == U \ {Max(U)}
  <2>3. W \in SUBSET (1..N)
    OBVIOUS
  <2>4. g[U] = step[<<g[W], s[Max(U)]>>]
    BY <1>3, <1>4 DEF FoldsSets
  <2> HIDE DEF W
  <2>5. g[W] \in Seq(S)
    BY <2>3
  <2>6. g[U] = IF s[Max(U)] = x THEN g[W] ELSE Append(g[W], s[Max(U)])
    BY <2>2, <2>4, <2>5
  <2>7. QED
    BY <2>6 DEF W
<1> HIDE DEF N
<1>5. \E f : Iter(f)
  <2>1. Iter(g)
    <3> HIDE DEF step
    <3>1. g[{}] = <<>>
      BY <1>3 DEF FoldsSets
    <3>2. QED
      BY <1>2, <1>4, <3>1
  <2>2. QED
    BY <2>1
<1> DEFINE f == CHOOSE h : Iter(h)
<1>6. f = [U \in SUBSET DOMAIN s |-> IF U = {} THEN <<>>
                                     ELSE IF s[Max(U)] = x THEN f[U \ {Max(U)}]
                                     ELSE Append(f[U \ {Max(U)}], s[Max(U)])]
  BY <1>5
<1>7. Others(s, x) = f[1..N]
  BY <1>1, <1>2
<1> HIDE DEF f, step, Iter
<1> DEFINE T == {n \in Nat : n <= N => f[1..n] \in Seq(S)}
<1>8. 0 \in T
  <2>1. 1..0 = {} /\ {} \in SUBSET DOMAIN s
    OBVIOUS
  <2>2. f[1..0] = <<>>
    BY <1>6, <2>1
  <2>3. QED
    BY <2>2, EmptySeq
<1>9. ASSUME NEW n \in T
      PROVE  n + 1 \in T
  <2>1. ASSUME n + 1 <= N PROVE f[1..(n + 1)] \in Seq(S)
    <3> DEFINE i == n + 1
    <3>1. i \in Nat \ {0} /\ i - 1 = n /\ i \in 1..N
      BY <1>2, <2>1
    <3>2. f[1..n] \in Seq(S)
      BY <1>2, <2>1
    <3> HIDE DEF i
    <3>3. Max(1..i) = i /\ (1..i) \ {i} = 1..(i - 1)
      BY <3>1, GreatestOfInterval
    <3>4. (1..i) \in SUBSET DOMAIN s /\ (1..i) # {}
      <4>1. i \in 1..i /\ 1..i \subseteq 1..N
        BY <1>2, <3>1
      <4>2. QED
        BY <1>2, <4>1, Zenon
    <3>5. f[1..i] = IF s[i] = x THEN f[1..(i - 1)] ELSE Append(f[1..(i - 1)], s[i])
      BY <1>6, <3>3, <3>4
    <3>6. s[i] \in S
      BY <1>2, <3>1
    <3>7. f[1..i] \in Seq(S)
      BY <3>1, <3>2, <3>5, <3>6
    <3>8. QED
      BY <3>7 DEF i
  <2>2. QED
    BY <2>1
<1> HIDE DEF T
<1>10. T = Nat
  <2>1. T \in SUBSET Nat
    BY DEF T
  <2>2. QED
    BY <1>8, <1>9, <2>1, Induction
<1>11. QED
  BY <1>2, <1>7, <1>10 DEF T

\* Leaving out an element that is once in a list is removing it.
LEMMA OthersIsRemoveFirst ==
  ASSUME NEW S, NEW s \in Seq(S), IsInjective(s), NEW k \in 1..Len(s)
  PROVE  Others(s, s[k]) = RemoveFirst(s, s[k])
<1> DEFINE N == Len(s)
           x == s[k]
           r == RemoveFirst(s, x)
           Iter(f) == f = [U \in SUBSET DOMAIN s |->
                             IF U = {} THEN <<>>
                             ELSE IF s[Max(U)] = x THEN f[U \ {Max(U)}]
                             ELSE Append(f[U \ {Max(U)}], s[Max(U)])]
           step == [a \in Seq(S) \X S |-> IF a[2] = x THEN a[1] ELSE Append(a[1], a[2])]
<1>1. Others(s, x) = (CHOOSE f : Iter(f))[DOMAIN s]
  BY DEF Others, FoldLeft, MapThenFoldSet
<1>2. DOMAIN s = 1..N /\ N \in Nat /\ k \in 1..N /\ \A i \in 1..N : s[i] \in S
  OBVIOUS
<1>3. /\ r \in Seq(S) /\ Len(r) = N - 1
      /\ \A i \in 1..Len(r) : r[i] = IF i < k THEN s[i] ELSE s[i + 1]
  BY RemoveFirstFacts
<1>4. \A i \in 1..N : s[i] = x <=> i = k
  BY <1>2 DEF IsInjective
<1>5. PICK g \in [SUBSET (1..N) -> Seq(S)] : FoldsSets(g, N, s, step, <<>>)
  <2>1. step \in [Seq(S) \X S -> Seq(S)]
    OBVIOUS
  <2>2. <<>> \in Seq(S) /\ N <= Len(s)
    BY <1>2, EmptySeq
  <2> HIDE DEF step
  <2>3. QED
    BY <1>2, <2>1, <2>2, FoldExists
<1>6. ASSUME NEW U \in SUBSET (1..N), U # {}
      PROVE  g[U] = IF s[Max(U)] = x THEN g[U \ {Max(U)}] ELSE Append(g[U \ {Max(U)}], s[Max(U)])
  <2>1. Max(U) \in 1..N
    BY <1>2, <1>6, GreatestNatural
  <2>2. s[Max(U)] \in S
    BY <1>2, <2>1
  <2> DEFINE W == U \ {Max(U)}
  <2>3. W \in SUBSET (1..N)
    OBVIOUS
  <2>4. g[U] = step[<<g[W], s[Max(U)]>>]
    BY <1>5, <1>6 DEF FoldsSets
  <2> HIDE DEF W, x
  <2>5. g[W] \in Seq(S)
    BY <2>3
  <2>6. g[U] = IF s[Max(U)] = x THEN g[W] ELSE Append(g[W], s[Max(U)])
    BY <2>2, <2>4, <2>5
  <2>7. QED
    BY <2>6 DEF W
<1> HIDE DEF x, r, N
<1>7. \E f : Iter(f)
  <2>1. Iter(g)
    <3> HIDE DEF step
    <3>1. g[{}] = <<>>
      BY <1>5 DEF FoldsSets
    <3>2. QED
      BY <1>2, <1>6, <3>1
  <2>2. QED
    BY <2>1
<1> DEFINE f == CHOOSE h : Iter(h)
<1>8. f = [U \in SUBSET DOMAIN s |-> IF U = {} THEN <<>>
                                     ELSE IF s[Max(U)] = x THEN f[U \ {Max(U)}]
                                     ELSE Append(f[U \ {Max(U)}], s[Max(U)])]
  BY <1>7
<1>9. Others(s, x) = f[1..N]
  BY <1>1, <1>2
<1> HIDE DEF f, step, Iter
<1>10. f[1..0] = <<>>
  <2>1. 1..0 = {}
    OBVIOUS
  <2>2. QED
    BY <1>8, <2>1
<1>11. ASSUME NEW i \in 1..N
       PROVE  f[1..i] = IF i = k THEN f[1..(i - 1)] ELSE Append(f[1..(i - 1)], s[i])
  <2>1. i \in Nat \ {0}
    BY <1>2
  <2>2. Max(1..i) = i /\ (1..i) \ {i} = 1..(i - 1)
    BY <2>1, GreatestOfInterval
  <2>3. (1..i) \in SUBSET DOMAIN s /\ (1..i) # {}
    <3>1. i \in 1..i /\ 1..i \subseteq 1..N
      BY <1>2, <2>1
    <3>2. QED
      BY <1>2, <3>1, Zenon
  <2>4. f[1..i] = IF s[i] = x THEN f[1..(i - 1)] ELSE Append(f[1..(i - 1)], s[i])
    BY <1>8, <2>2, <2>3
  <2>5. QED
    BY <1>4, <2>4
<1> DEFINE size(n) == IF n < k THEN n ELSE n - 1
           Right(n, q) == q \in Seq(S) /\ Len(q) = size(n) /\ \A j \in 1..size(n) : q[j] = r[j]
           T == {n \in Nat : n <= N => Right(n, f[1..n])}
<1>12. 0 \in T
  <2>1. f[1..0] \in Seq(S) /\ Len(f[1..0]) = 0
    BY <1>10, EmptySeq
  <2>2. size(0) = 0 /\ 1..0 = {}
    BY <1>2
  <2> HIDE DEF size
  <2>3. Right(0, f[1..0])
    BY <2>1, <2>2
  <2> HIDE DEF Right
  <2>4. QED
    BY <2>3
<1>13. ASSUME NEW n \in Nat, n + 1 <= N, NEW q, Right(n, q)
       PROVE  Right(n + 1, IF n + 1 = k THEN q ELSE Append(q, s[n + 1]))
  <2>1. CASE n + 1 = k
    BY <1>13, <2>1
  <2>2. CASE n + 1 # k
    <3> DEFINE t == Append(q, s[n + 1])
    <3>1. s[n + 1] \in S /\ n + 1 \in 1..N
      BY <1>2, <1>13
    <3>2. t \in Seq(S) /\ Len(t) = Len(q) + 1 /\ t[Len(q) + 1] = s[n + 1]
          /\ \A j \in 1..Len(q) : t[j] = q[j]
      BY <1>13, <3>1
    <3>3. size(n + 1) = size(n) + 1 /\ size(n) \in Nat
      BY <1>2, <2>2
    <3>4. r[size(n) + 1] = s[n + 1]
      BY <1>2, <1>3, <1>13, <2>2
    <3> HIDE DEF t, size
    <3>5. \A j \in 1..size(n) + 1 : t[j] = r[j]
      BY <1>13, <3>2, <3>3, <3>4
    <3>6. QED
      BY <1>13, <2>2, <3>2, <3>3, <3>5 DEF t
  <2>3. QED
    BY <2>1, <2>2
<1> HIDE DEF Right
<1>14. ASSUME NEW n \in T
       PROVE  n + 1 \in T
  <2>1. ASSUME n + 1 <= N PROVE Right(n + 1, f[1..(n + 1)])
    <3>1. n \in Nat /\ n <= N /\ n + 1 \in 1..N /\ (n + 1) - 1 = n
      BY <1>2, <2>1
    <3>2. Right(n, f[1..n])
      BY <3>1
    <3>3. f[1..(n + 1)] = IF n + 1 = k THEN f[1..n] ELSE Append(f[1..n], s[n + 1])
      BY <1>11, <3>1
    <3>4. QED
      BY <1>13, <2>1, <3>1, <3>2, <3>3
  <2>2. QED
    BY <2>1
<1> HIDE DEF T
<1>15. T = Nat
  <2>1. T \in SUBSET Nat
    BY DEF T
  <2>2. QED
    BY <1>12, <1>14, <2>1, Induction
<1>16. Right(N, f[1..N])
  BY <1>2, <1>15 DEF T
<1>17. f[1..N] = r
  <2> DEFINE q == f[1..N]
  <2>1. q \in Seq(S) /\ Len(q) = N - 1 /\ \A j \in 1..N - 1 : q[j] = r[j]
    BY <1>2, <1>16 DEF Right
  <2> HIDE DEF q
  <2>2. q = r
    BY <1>2, <1>3, <2>1, SeqEqual
  <2>3. QED
    BY <2>2 DEF q
<1>18. QED
  BY <1>9, <1>17 DEF x, r

\* The values on 0..n that a step makes of one another.
Steps(f, n, base, step) == \A k \in 0..n : f[k] = IF k = 0 THEN base ELSE step[f[k - 1]]

\* They exist.
LEMMA StepsExist ==
  ASSUME NEW A, NEW base \in A, NEW step \in [A -> A], NEW n \in Nat
  PROVE  \E f \in [0..n -> A] : Steps(f, n, base, step)
<1> DEFINE T == {m \in Nat : \E f \in [0..m -> A] : Steps(f, m, base, step)}
<1>1. 0 \in T
  <2> DEFINE f == [k \in 0..0 |-> base]
  <2>1. f \in [0..0 -> A] /\ Steps(f, 0, base, step)
    BY DEF Steps
  <2>2. QED
    BY <2>1
<1>2. ASSUME NEW m \in T
      PROVE  m + 1 \in T
  <2>1. m \in Nat /\ \E f \in [0..m -> A] : Steps(f, m, base, step)
    OBVIOUS
  <2>2. PICK f \in [0..m -> A] : Steps(f, m, base, step)
    BY <2>1
  <2> DEFINE g == [k \in 0..(m + 1) |-> IF k = m + 1 THEN step[f[m]] ELSE f[k]]
  <2>3. f[m] \in A /\ step[f[m]] \in A
    BY <2>1
  <2>4. \A k \in 0..(m + 1) : k = m + 1 \/ k \in 0..m
    BY <2>1
  <2>5. g \in [0..(m + 1) -> A]
    BY <2>3, <2>4
  <2>6. ASSUME NEW k \in 0..(m + 1)
        PROVE  g[k] = IF k = 0 THEN base ELSE step[g[k - 1]]
    <3>1. CASE k = m + 1
      <4>1. g[k] = step[f[m]] /\ m \in 0..(m + 1) /\ m # m + 1 /\ k - 1 = m /\ k # 0
        BY <2>1, <3>1
      <4>2. g[m] = f[m]
        BY <4>1
      <4> HIDE DEF g
      <4>3. QED
        BY <4>1, <4>2
    <3>2. CASE k # m + 1
      <4>1. k \in 0..m /\ (k # 0 => k - 1 \in 0..m /\ k - 1 \in 0..(m + 1) /\ k - 1 # m + 1)
        BY <2>1, <3>2
      <4>2. g[k] = f[k] /\ (k # 0 => g[k - 1] = f[k - 1])
        BY <3>2, <4>1
      <4>3. f[k] = IF k = 0 THEN base ELSE step[f[k - 1]]
        BY <2>2, <4>1 DEF Steps
      <4> HIDE DEF g
      <4>4. QED
        BY <4>2, <4>3
    <3>3. QED
      BY <3>1, <3>2
  <2> HIDE DEF g
  <2>7. Steps(g, m + 1, base, step)
    BY <2>6 DEF Steps
  <2>8. \E h \in [0..(m + 1) -> A] : Steps(h, m + 1, base, step)
    BY <2>5, <2>7
  <2>9. QED
    BY <2>1, <2>8
<1>3. T \in SUBSET Nat
  OBVIOUS
<1> HIDE DEF T
<1>4. T = Nat
  BY <1>1, <1>2, <1>3, Induction
<1>5. n \in T
  BY <1>4
<1>6. QED
  BY <1>5 DEF T

=============================================================================
