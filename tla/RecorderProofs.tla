--------------------------- MODULE RecorderProofs ---------------------------
(***************************************************************************)
(* What the recorder's sidecar and the archive builder's gates say of a    *)
(* recording, for every set of products and events, whatever is connected, *)
(* lost, resubscribed, stopped, killed and started again; and that nobody  *)
(* takes the files between the processes for those of an earlier recorder, *)
(* for every set of pids, whatever is started, stopped and killed when.    *)
(***************************************************************************)
EXTENDS Recorder, RecorderControl, ListLemmas, FiniteSetTheorems

(* Recorder.                                                               *)

Tops == UNION {[S -> Quantity] : S \in SUBSET Level}

GateType == [book : Book, ready : BOOLEAN, lastEmit : SUBSET Nat, lastTop : SUBSET Tops,
             count : Nat, crossed : Nat]

Gates == [Product -> GateType]

Line == {ConnectLine, GapLine}
        \union [kind : {"frame"}, at : Nat, product : Product, event : Event]

\* The gate of a new process.
LEMMA FreshGateType == FreshGate \in GateType /\ FreshGates \in Gates
<1>1. EmptyBook \in Book
  BY GateAssumption DEF EmptyBook, Book
<1>2. FreshGate \in GateType
  BY <1>1 DEF FreshGate, GateType
<1>3. QED
  BY <1>2 DEF FreshGates, Gates

\* A gate is not ready again until the next snapshot; nothing else changes.
LEMMA NotReadyFacts ==
  ASSUME NEW g \in GateType
  PROVE  NotReady(g) \in GateType /\ ~NotReady(g).ready /\ NotReady(g).count = g.count
  BY DEF NotReady, GateType

\* What an event makes of a gate: the book is the mirror's, a snapshot makes it ready,
\* at most one more snapshot is counted.
LEMMA ApplyEventFacts ==
  ASSUME NEW g \in GateType, NEW event \in Event, NEW t \in Nat
  PROVE  LET h == ApplyEvent(g, event, t)
         IN  /\ h \in GateType
             /\ h.book = BookAfter(g.book, event)
             /\ h.ready <=> g.ready \/ event.type = "snapshot"
             /\ h.count \in {g.count, g.count + 1}
<1>1. PICK m : m = [g EXCEPT !.book  = BookAfter(g.book, event), !.ready = g.ready \/ event.type = "snapshot"]
  OBVIOUS
<1>2. BookAfter(g.book, event) \in Book
  <2>1. g.book \in [Level -> Quantity]
    BY DEF GateType, Book
  <2>2. \A l \in Level : (IF l \in DOMAIN event.updates THEN event.updates[l]
                          ELSE IF event.type = "snapshot" THEN 0 ELSE g.book[l]) \in Quantity
    BY <2>1, GateAssumption, RecorderAssumption
  <2>3. QED
    BY <2>2 DEF BookAfter, Book
<1>3. /\ m \in GateType
      /\ m.book = BookAfter(g.book, event)
      /\ m.ready <=> g.ready \/ event.type = "snapshot"
      /\ m.count = g.count
  BY <1>1, <1>2 DEF GateType
<1>4. PICK top : top = Top(m.book)
  OBVIOUS
<1>5. top \in Tops
  <2>1. m.book \in [Level -> Quantity]
    BY <1>3 DEF GateType, Book
  <2>2. PICK best : best = {l \in Present(m.book) :
                              Cardinality({n \in Present(m.book) : Behind(l, n)}) < Depth}
    OBVIOUS
  <2>3. top = [l \in best |-> m.book[l]]
    BY <1>4, <2>2 DEF Top
  <2>4. best \in SUBSET Level
    BY <2>2 DEF Present
  <2>5. top \in [best -> Quantity]
    BY <2>1, <2>3, <2>4
  <2>6. QED
    BY <2>4, <2>5 DEF Tops
<1>6. PICK h : h = ApplyEvent(g, event, t)
  OBVIOUS
<1>7. \/ h = m
      \/ h = [m EXCEPT !.crossed = m.crossed + 1]
      \/ h = [m EXCEPT !.lastTop = {top}, !.lastEmit = {t}, !.count = m.count + 1]
  BY <1>1, <1>4, <1>6 DEF ApplyEvent
<1>8. /\ h \in GateType /\ h.book = m.book /\ h.ready = m.ready
      /\ h.count \in {m.count, m.count + 1}
  <2>1. CASE h = m
    BY <1>3, <2>1
  <2>2. CASE h = [m EXCEPT !.crossed = m.crossed + 1]
    BY <1>3, <2>2 DEF GateType
  <2>3. CASE h = [m EXCEPT !.lastTop = {top}, !.lastEmit = {t}, !.count = m.count + 1]
    <3>1. PICK at, tops, c : at = {t} /\ tops = {top} /\ c = m.count + 1
      OBVIOUS
    <3>2. at \in SUBSET Nat /\ tops \in SUBSET Tops /\ c \in Nat
      BY <1>3, <1>5, <3>1 DEF GateType
    <3>3. h = [m EXCEPT !.lastTop = tops, !.lastEmit = at, !.count = c]
      BY <2>3, <3>1
    <3>4. h \in GateType /\ h.book = m.book /\ h.ready = m.ready /\ h.count = c
      BY <1>3, <3>2, <3>3 DEF GateType
    <3>5. QED
      BY <3>1, <3>4
  <2>4. QED
    BY <1>7, <2>1, <2>2, <2>3
<1>9. QED
  BY <1>3, <1>6, <1>8

\* A line of the log keeps the builder's gates gates.
LEMMA BuildLineType ==
  ASSUME NEW built \in Gates, NEW line \in Line
  PROVE  BuildLine(built, line) \in Gates
<1>1. CASE line = ConnectLine
  <2>1. BuildLine(built, line) = [p \in Product |-> NotReady(built[p])]
    BY <1>1 DEF BuildLine, ConnectLine
  <2>2. QED
    BY <2>1, NotReadyFacts DEF Gates
<1>2. CASE line = GapLine
  BY <1>2 DEF BuildLine, GapLine
<1>3. CASE line \in [kind : {"frame"}, at : Nat, product : Product, event : Event]
  <2>1. BuildLine(built, line) = [built EXCEPT ![line.product] = ApplyEvent(built[line.product], line.event, line.at)]
    BY <1>3 DEF BuildLine
  <2>2. built[line.product] \in GateType
    BY <1>3 DEF Gates
  <2>3. ApplyEvent(built[line.product], line.event, line.at) \in GateType
    BY <1>3, <2>2, ApplyEventFacts
  <2>4. QED
    BY <1>3, <2>1, <2>3 DEF Gates
<1>4. QED
  BY <1>1, <1>2, <1>3 DEF Line

\* The builder's gates line by line.
Replay(lines, p) ==
  /\ p \in [0..Len(lines) -> Gates]
  /\ p[0] = FreshGates
  /\ \A i \in 1..Len(lines) : p[i] = BuildLine(p[i - 1], lines[i])

\* Build goes through the log line by line.
LEMMA BuildIsReplay ==
  ASSUME NEW s \in Seq(Line)
  PROVE  \E p : Replay(s, p) /\ Build(s) = p[Len(s)]
<1> DEFINE Iter(f) == f = [U \in SUBSET DOMAIN s |->
                             IF U = {} THEN FreshGates ELSE BuildLine(f[U \ {Max(U)}], s[Max(U)])]
           step == [a \in Gates \X Line |-> BuildLine(a[1], a[2])]
<1>1. Build(s) = (CHOOSE f : Iter(f))[DOMAIN s]
  BY DEF Build, FoldLeft, MapThenFoldSet
<1>2. DOMAIN s = 1..Len(s) /\ Len(s) \in Nat
  OBVIOUS
<1>3. PICK g \in [SUBSET (1..Len(s)) -> Gates] : FoldsSets(g, Len(s), s, step, FreshGates)
  <2>1. step \in [Gates \X Line -> Gates]
    BY BuildLineType
  <2>2. FreshGates \in Gates /\ Len(s) <= Len(s)
    BY <1>2, FreshGateType
  <2> HIDE DEF step
  <2>3. QED
    BY <1>2, <2>1, <2>2, FoldExists
<1>4. ASSUME NEW U \in SUBSET (1..Len(s)), U # {}
      PROVE  g[U] = BuildLine(g[U \ {Max(U)}], s[Max(U)])
  <2>1. Max(U) \in 1..Len(s)
    BY <1>2, <1>4, GreatestNatural
  <2>2. s[Max(U)] \in Line
    BY <2>1
  <2> DEFINE W == U \ {Max(U)}
  <2>3. W \in SUBSET (1..Len(s))
    OBVIOUS
  <2>4. g[U] = step[<<g[W], s[Max(U)]>>]
    BY <1>3, <1>4 DEF FoldsSets
  <2> HIDE DEF W
  <2>5. g[W] \in Gates
    BY <2>3
  <2>6. g[U] = BuildLine(g[W], s[Max(U)])
    BY <2>2, <2>4, <2>5
  <2>7. QED
    BY <2>6 DEF W
<1>5. \E f : Iter(f)
  <2>1. Iter(g)
    <3> HIDE DEF step
    <3>1. QED
      BY <1>2, <1>3, <1>4 DEF FoldsSets
  <2>2. QED
    BY <2>1
<1> DEFINE f == CHOOSE h : Iter(h)
<1>6. f = [U \in SUBSET DOMAIN s |-> IF U = {} THEN FreshGates ELSE BuildLine(f[U \ {Max(U)}], s[Max(U)])]
  BY <1>5
<1>7. Build(s) = f[1..Len(s)]
  BY <1>1, <1>2
<1> HIDE DEF f, step, Iter
<1> DEFINE p == [i \in 0..Len(s) |-> f[1..i]]
<1>8. p[0] = FreshGates
  <2>1. 1..0 = {} /\ 0 \in 0..Len(s)
    BY <1>2
  <2>2. QED
    BY <1>6, <2>1
<1>9. ASSUME NEW i \in 1..Len(s)
      PROVE  p[i] = BuildLine(p[i - 1], s[i])
  <2>1. i \in Nat \ {0} /\ i - 1 \in 0..Len(s) /\ i \in 0..Len(s)
    BY <1>2
  <2>2. Max(1..i) = i /\ (1..i) \ {i} = 1..(i - 1)
    BY <2>1, GreatestOfInterval
  <2>3. (1..i) \in SUBSET DOMAIN s /\ (1..i) # {}
    <3>1. i \in 1..i /\ 1..i \subseteq 1..Len(s)
      BY <1>2, <2>1
    <3>2. QED
      BY <1>2, <3>1, Zenon
  <2>4. f[1..i] = BuildLine(f[1..(i - 1)], s[i])
    BY <1>6, <2>2, <2>3
  <2>5. QED
    BY <2>1, <2>4
<1> HIDE DEF p
<1>10. p \in [0..Len(s) -> Gates]
  <2> DEFINE T == {n \in Nat : n <= Len(s) => p[n] \in Gates}
  <2>1. 0 \in T
    BY <1>8, FreshGateType
  <2>2. ASSUME NEW n \in T
        PROVE  n + 1 \in T
    <3>1. ASSUME n + 1 <= Len(s) PROVE p[n + 1] \in Gates
      <4>1. p[n] \in Gates /\ s[n + 1] \in Line /\ n + 1 \in 1..Len(s) /\ n + 1 - 1 = n
        BY <1>2, <3>1
      <4>2. p[n + 1] = BuildLine(p[n], s[n + 1])
        BY <1>9, <4>1
      <4>3. QED
        BY <4>1, <4>2, BuildLineType
    <3>2. QED
      BY <3>1
  <2> HIDE DEF T
  <2>3. T = Nat
    <3>1. T \in SUBSET Nat
      BY DEF T
    <3>2. QED
      BY <2>1, <2>2, <3>1, Induction
  <2>4. \A i \in 0..Len(s) : p[i] \in Gates
    BY <1>2, <2>3 DEF T
  <2>5. QED
    BY <2>4 DEF p
<1>11. Build(s) = p[Len(s)]
  BY <1>2, <1>7 DEF p
<1>12. QED
  BY <1>8, <1>9, <1>10, <1>11 DEF Replay

\* After the same lines the builder's gates are the same.
LEMMA SameReplay ==
  ASSUME NEW s, NEW t, NEW p, NEW q, Replay(s, p), Replay(t, q),
         NEW n \in Nat, n <= Len(s), n <= Len(t), Len(s) \in Nat, Len(t) \in Nat,
         \A i \in 1..n : s[i] = t[i]
  PROVE  p[n] = q[n]
<1> DEFINE T == {m \in Nat : m <= n => p[m] = q[m]}
<1>1. 0 \in T
  BY DEF Replay
<1>2. ASSUME NEW m \in T
      PROVE  m + 1 \in T
  <2>1. ASSUME m + 1 <= n PROVE p[m + 1] = q[m + 1]
    <3>1. p[m] = q[m] /\ m + 1 \in 1..n /\ m + 1 \in 1..Len(s) /\ m + 1 \in 1..Len(t) /\ m + 1 - 1 = m
      BY <2>1
    <3>2. p[m + 1] = BuildLine(p[m], s[m + 1]) /\ q[m + 1] = BuildLine(q[m], t[m + 1])
      BY <3>1 DEF Replay
    <3>3. QED
      BY <3>1, <3>2
  <2>2. QED
    BY <2>1
<1>3. T \in SUBSET Nat
  OBVIOUS
<1> HIDE DEF T
<1>4. T = Nat
  BY <1>1, <1>2, <1>3, Induction
<1>5. QED
  BY <1>4 DEF T

\* The builder's gates before the first line.
LEMMA BuildOfNone == Build(<<>>) = FreshGates
<1>1. <<>> \in Seq(Line) /\ Len(<<>>) = 0
  BY EmptySeq
<1>2. QED
  BY <1>1, BuildIsReplay DEF Replay

\* One line more is one step more of the builder.
LEMMA BuildOfAppend ==
  ASSUME NEW s \in Seq(Line), NEW line \in Line
  PROVE  Build(Append(s, line)) = BuildLine(Build(s), line) /\ Build(s) \in Gates
<1> DEFINE t == Append(s, line)
           n == Len(s)
<1>1. /\ n \in Nat /\ t \in Seq(Line) /\ Len(t) = n + 1 /\ t[n + 1] = line
      /\ \A i \in 1..n : t[i] = s[i]
  OBVIOUS
<1> HIDE DEF t, n
<1>2. PICK p : Replay(s, p) /\ Build(s) = p[n]
  BY BuildIsReplay DEF n
<1>3. PICK q : Replay(t, q) /\ Build(t) = q[n + 1]
  BY <1>1, BuildIsReplay
<1>4. p[n] = q[n]
  BY <1>1, <1>2, <1>3, SameReplay DEF n
<1>5. q[n + 1] = BuildLine(q[n], line)
  <2>1. n + 1 \in 1..Len(t) /\ n + 1 - 1 = n
    BY <1>1
  <2>2. QED
    BY <1>1, <1>3, <2>1 DEF Replay
<1>6. p[n] \in Gates
  BY <1>1, <1>2 DEF Replay, n
<1>7. QED
  BY <1>2, <1>3, <1>4, <1>5, <1>6 DEF t

\* The sums of a function over all sets of places, the way SumFunction computes them.
Pick(s) == CHOOSE x \in s : TRUE

SumAt(g, fun, s) == g[s] = IF s = {} THEN 0 ELSE fun[Pick(s)] + g[s \ {Pick(s)}]

\* A set without the place picked has one place less.
LEMMA PickFacts ==
  ASSUME NEW s, IsFiniteSet(s), s # {}
  PROVE  /\ Pick(s) \in s /\ IsFiniteSet(s \ {Pick(s)})
         /\ Cardinality(s) \in Nat \ {0} /\ Cardinality(s \ {Pick(s)}) = Cardinality(s) - 1
<1>1. Pick(s) \in s
  BY DEF Pick
<1>2. IsFiniteSet(s \ {Pick(s)}) /\ Cardinality(s \ {Pick(s)}) = Cardinality(s) - 1
  BY <1>1, FS_RemoveElement
<1>3. Cardinality(s) \in Nat /\ Cardinality(s) # 0
  BY FS_CardinalityType, FS_EmptySet
<1>4. QED
  BY <1>1, <1>2, <1>3

\* Sums of every function on a finite set exist.
LEMMA SumsExist ==
  ASSUME NEW D, IsFiniteSet(D), NEW fun \in [D -> Int]
  PROVE  \E g \in [SUBSET D -> Int] : \A s \in SUBSET D : SumAt(g, fun, s)
<1> DEFINE UpTo(g, n) == \A s \in SUBSET D : Cardinality(s) <= n => SumAt(g, fun, s)
           T == {n \in Nat : \E g \in [SUBSET D -> Int] : UpTo(g, n)}
<1>1. \A s \in SUBSET D : IsFiniteSet(s) /\ Cardinality(s) \in Nat
  BY FS_Subset, FS_CardinalityType
<1>2. 0 \in T
  <2> DEFINE g == [s \in SUBSET D |-> 0]
  <2>1. g \in [SUBSET D -> Int]
    OBVIOUS
  <2>2. UpTo(g, 0)
    <3>1. SUFFICES ASSUME NEW s \in SUBSET D, Cardinality(s) <= 0 PROVE SumAt(g, fun, s)
      OBVIOUS
    <3>2. s = {}
      BY <1>1, <3>1, FS_EmptySet
    <3>3. QED
      BY <3>2 DEF SumAt
  <2> HIDE DEF g, UpTo
  <2>3. QED
    BY <2>1, <2>2
<1>3. ASSUME NEW n \in T
      PROVE  n + 1 \in T
  <2>1. PICK g \in [SUBSET D -> Int] : UpTo(g, n)
    OBVIOUS
  <2>2. n \in Nat
    OBVIOUS
  <2> DEFINE h == [s \in SUBSET D |-> IF Cardinality(s) = n + 1 THEN fun[Pick(s)] + g[s \ {Pick(s)}] ELSE g[s]]
  <2>3. h \in [SUBSET D -> Int]
    <3>1. ASSUME NEW s \in SUBSET D, Cardinality(s) = n + 1
          PROVE  fun[Pick(s)] + g[s \ {Pick(s)}] \in Int
      <4>1. s # {}
        <5>1. n + 1 # 0
          BY <2>2
        <5>2. Cardinality({}) = 0
          BY FS_EmptySet
        <5>3. QED
          BY <3>1, <5>1, <5>2
      <4>2. Pick(s) \in D /\ s \ {Pick(s)} \in SUBSET D
        BY <1>1, <4>1, PickFacts
      <4>3. QED
        BY <4>2
    <3>2. QED
      BY <3>1
  <2>4. UpTo(h, n + 1)
    <3>1. SUFFICES ASSUME NEW s \in SUBSET D, Cardinality(s) <= n + 1 PROVE SumAt(h, fun, s)
      OBVIOUS
    <3>2. CASE s = {}
      <4>1. Cardinality(s) = 0 /\ 0 <= n /\ 0 # n + 1
        BY <2>2, <3>2, FS_EmptySet
      <4>2. g[s] = 0
        BY <2>1, <3>2, <4>1 DEF SumAt
      <4>3. QED
        BY <3>2, <4>1, <4>2 DEF SumAt
    <3>3. CASE s # {}
      <4>1. PICK r : r = s \ {Pick(s)}
        OBVIOUS
      <4>2. r \in SUBSET D /\ Cardinality(r) = Cardinality(s) - 1 /\ Cardinality(s) \in Nat
        BY <1>1, <3>3, <4>1, PickFacts
      <4>3. h[r] = g[r]
        BY <2>2, <3>1, <4>2
      <4>4. h[s] = fun[Pick(s)] + g[r]
        <5>1. CASE Cardinality(s) = n + 1
          BY <4>1, <5>1
        <5>2. CASE Cardinality(s) # n + 1
          <6>1. Cardinality(s) <= n
            BY <2>2, <3>1, <4>2, <5>2
          <6>2. SumAt(g, fun, s)
            BY <2>1, <6>1
          <6>3. QED
            BY <3>3, <4>1, <5>2, <6>2 DEF SumAt
        <5>3. QED
          BY <5>1, <5>2
      <4> HIDE DEF h
      <4>5. QED
        BY <3>3, <4>1, <4>3, <4>4 DEF SumAt
    <3>4. QED
      BY <3>2, <3>3
  <2> HIDE DEF h, UpTo
  <2>5. QED
    BY <2>2, <2>3, <2>4
<1>4. T \in SUBSET Nat
  OBVIOUS
<1>5. T = Nat
  <2> HIDE DEF T
  <2>1. QED
    BY <1>2, <1>3, <1>4, Induction
<1>6. Cardinality(D) \in Nat /\ \A s \in SUBSET D : Cardinality(s) <= Cardinality(D)
  BY FS_CardinalityType, FS_Subset
<1>7. PICK g \in [SUBSET D -> Int] : UpTo(g, Cardinality(D))
  BY <1>5, <1>6
<1>8. QED
  BY <1>6, <1>7

\* SumFunction is the sum over all places.
LEMMA SumIsSum ==
  ASSUME NEW D, IsFiniteSet(D), NEW fun \in [D -> Int]
  PROVE  \E g \in [SUBSET D -> Int] : /\ \A s \in SUBSET D : SumAt(g, fun, s)
                                      /\ SumFunction(fun) = g[D]
<1> DEFINE Iter(f) == f = [s \in SUBSET D |-> IF s = {} THEN 0
                                              ELSE fun[CHOOSE x \in s : TRUE] + f[s \ {CHOOSE x \in s : TRUE}]]
           f == CHOOSE h : Iter(h)
<1>1. SumFunction(fun) = f[D]
  BY DEF SumFunction, SumFunctionOnSet, FoldFunctionOnSet, MapThenFoldSet
<1>2. PICK g \in [SUBSET D -> Int] : \A s \in SUBSET D : SumAt(g, fun, s)
  BY SumsExist
<1>3. Iter(g)
  BY <1>2 DEF SumAt, Pick
<1>4. Iter(f)
  BY <1>3
<1>5. \A s \in SUBSET D : SumAt(f, fun, s)
  BY <1>4 DEF SumAt, Pick
<1>6. f \in [SUBSET D -> Int]
  <2> DEFINE T == {n \in Nat : \A s \in SUBSET D : Cardinality(s) = n => f[s] = g[s]}
  <2> HIDE DEF f, Iter
  <2>1. 0 \in T
    <3>1. \A s \in SUBSET D : Cardinality(s) = 0 => s = {}
      BY FS_Subset, FS_EmptySet
    <3>2. QED
      BY <1>2, <1>5, <3>1 DEF SumAt
  <2>2. ASSUME NEW n \in T
        PROVE  n + 1 \in T
    <3>1. SUFFICES ASSUME NEW s \in SUBSET D, Cardinality(s) = n + 1 PROVE f[s] = g[s]
      OBVIOUS
    <3>2. n \in Nat /\ s # {} /\ IsFiniteSet(s)
      <4>1. n \in Nat
        OBVIOUS
      <4>2. QED
        BY <3>1, <4>1, FS_Subset, FS_EmptySet
    <3>3. PICK r : r = s \ {Pick(s)}
      OBVIOUS
    <3>4. r \in SUBSET D /\ Cardinality(r) = n
      <4>1. r \in SUBSET D /\ Cardinality(r) = Cardinality(s) - 1
        BY <3>2, <3>3, PickFacts
      <4>2. QED
        BY <3>1, <3>2, <4>1
    <3>5. f[r] = g[r]
      BY <3>4
    <3>6. QED
      BY <1>2, <1>5, <3>2, <3>3, <3>5 DEF SumAt
  <2>3. T \in SUBSET Nat
    OBVIOUS
  <2>4. T = Nat
    <3> HIDE DEF T
    <3>1. QED
      BY <2>1, <2>2, <2>3, Induction
  <2>5. \A s \in SUBSET D : Cardinality(s) \in Nat
    BY FS_Subset, FS_CardinalityType
  <2>6. \A s \in SUBSET D : f[s] \in Int
    BY <2>4, <2>5
  <2>7. DOMAIN f = SUBSET D /\ f = [s \in SUBSET D |-> f[s]]
    BY <1>4 DEF Iter
  <2>8. QED
    BY <2>6, <2>7
<1> HIDE DEF f
<1>7. QED
  BY <1>1, <1>5, <1>6

\* Changing one value changes the sum by as much.
LEMMA SumOfChange ==
  ASSUME NEW D, IsFiniteSet(D), NEW v \in [D -> Int], NEW w \in [D -> Int], NEW p \in D,
         \A x \in D : x # p => v[x] = w[x]
  PROVE  SumFunction(v) = SumFunction(w) + (v[p] - w[p]) /\ SumFunction(w) \in Int
<1>1. PICK g \in [SUBSET D -> Int] : (\A s \in SUBSET D : SumAt(g, v, s)) /\ SumFunction(v) = g[D]
  BY SumIsSum
<1>2. PICK h \in [SUBSET D -> Int] : (\A s \in SUBSET D : SumAt(h, w, s)) /\ SumFunction(w) = h[D]
  BY SumIsSum
<1> DEFINE Changed(s) == g[s] = h[s] + (IF p \in s THEN v[p] - w[p] ELSE 0)
           T == {n \in Nat : \A s \in SUBSET D : Cardinality(s) = n => Changed(s)}
<1>3. 0 \in T
  <2>1. \A s \in SUBSET D : Cardinality(s) = 0 => s = {}
    BY FS_Subset, FS_EmptySet
  <2>2. Changed({})
    <3>1. {} \in SUBSET D /\ p \notin {}
      OBVIOUS
    <3>2. g[{}] = 0 /\ h[{}] = 0
      BY <1>1, <1>2, <3>1 DEF SumAt
    <3>3. QED
      BY <3>1, <3>2
  <2> HIDE DEF Changed
  <2>3. QED
    BY <2>1, <2>2
<1>4. ASSUME NEW n \in T
      PROVE  n + 1 \in T
  <2>0. n \in Nat /\ n + 1 \in Nat /\ n + 1 # 0
    OBVIOUS
  <2>1. SUFFICES ASSUME NEW s \in SUBSET D, Cardinality(s) = n + 1 PROVE Changed(s)
    BY <2>0
  <2>2. s # {} /\ IsFiniteSet(s)
    BY <2>0, <2>1, FS_Subset, FS_EmptySet
  <2>3. PICK x, r : x = Pick(s) /\ r = s \ {x}
    OBVIOUS
  <2>4. x \in s /\ r \in SUBSET D /\ Cardinality(r) = n
    <3>1. x \in s /\ Cardinality(r) = Cardinality(s) - 1
      BY <2>2, <2>3, PickFacts
    <3>2. QED
      BY <2>0, <2>1, <2>3, <3>1
  <2>5. Changed(r)
    BY <2>4
  <2>6. g[s] = v[x] + g[r] /\ h[s] = w[x] + h[r]
    BY <1>1, <1>2, <2>2, <2>3 DEF SumAt
  <2>7. g[r] \in Int /\ h[r] \in Int /\ v[x] \in Int /\ w[x] \in Int /\ v[p] \in Int /\ w[p] \in Int
    BY <2>4
  <2>8. CASE x = p
    <3>1. p \in s /\ p \notin r
      BY <2>3, <2>4, <2>8
    <3>2. QED
      BY <2>5, <2>6, <2>7, <2>8, <3>1
  <2>9. CASE x # p
    <3>1. (p \in s <=> p \in r) /\ v[x] = w[x]
      BY <2>3, <2>4, <2>9
    <3>2. QED
      BY <2>5, <2>6, <2>7, <3>1
  <2>10. QED
    BY <2>8, <2>9
<1>5. T \in SUBSET Nat
  OBVIOUS
<1>6. T = Nat
  <2> HIDE DEF T
  <2>1. QED
    BY <1>3, <1>4, <1>5, Induction
<1>7. Cardinality(D) \in Nat /\ D \in SUBSET D
  BY FS_CardinalityType
<1>8. Changed(D)
  BY <1>6, <1>7
<1>9. QED
  BY <1>1, <1>2, <1>7, <1>8

\* The sum of nothing but zeros.
LEMMA SumOfZeros ==
  ASSUME NEW D, IsFiniteSet(D), NEW v \in [D -> Int], \A x \in D : v[x] = 0
  PROVE  SumFunction(v) = 0
<1>1. PICK g \in [SUBSET D -> Int] : (\A s \in SUBSET D : SumAt(g, v, s)) /\ SumFunction(v) = g[D]
  BY SumIsSum
<1> DEFINE T == {n \in Nat : \A s \in SUBSET D : Cardinality(s) = n => g[s] = 0}
<1>2. 0 \in T
  <2>1. \A s \in SUBSET D : Cardinality(s) = 0 => s = {}
    BY FS_Subset, FS_EmptySet
  <2>2. QED
    BY <1>1, <2>1 DEF SumAt
<1>3. ASSUME NEW n \in T
      PROVE  n + 1 \in T
  <2>0. n \in Nat /\ n + 1 \in Nat /\ n + 1 # 0
    OBVIOUS
  <2>1. SUFFICES ASSUME NEW s \in SUBSET D, Cardinality(s) = n + 1 PROVE g[s] = 0
    BY <2>0
  <2>2. s # {} /\ IsFiniteSet(s)
    BY <2>0, <2>1, FS_Subset, FS_EmptySet
  <2>3. PICK x, r : x = Pick(s) /\ r = s \ {x}
    OBVIOUS
  <2>4. x \in s /\ r \in SUBSET D /\ Cardinality(r) = n
    <3>1. x \in s /\ Cardinality(r) = Cardinality(s) - 1
      BY <2>2, <2>3, PickFacts
    <3>2. QED
      BY <2>0, <2>1, <2>3, <3>1
  <2>5. g[r] = 0
    BY <2>4
  <2>6. g[s] = v[x] + g[r]
    BY <1>1, <2>2, <2>3 DEF SumAt
  <2>7. QED
    BY <2>4, <2>5, <2>6
<1>4. T \in SUBSET Nat
  OBVIOUS
<1>5. T = Nat
  <2> HIDE DEF T
  <2>1. QED
    BY <1>2, <1>3, <1>4, Induction
<1>6. Cardinality(D) \in Nat /\ D \in SUBSET D
  BY FS_CardinalityType
<1>7. QED
  BY <1>1, <1>5, <1>6

\* A live gate's snapshots are in the count of all.
LEMMA CountFacts ==
  ASSUME NEW gs \in Gates, NEW p \in Product, NEW g \in GateType
  PROVE  Count([gs EXCEPT ![p] = g]) = Count(gs) + (g.count - gs[p].count) /\ Count(gs) \in Int
<1> DEFINE v == [x \in Product |-> [gs EXCEPT ![p] = g][x].count]
           w == [x \in Product |-> gs[x].count]
<1>1. /\ DOMAIN gs = Product /\ DOMAIN [gs EXCEPT ![p] = g] = Product
      /\ \A x \in Product : gs[x].count \in Nat
      /\ g.count \in Nat
  BY DEF Gates, GateType
<1>2. Count([gs EXCEPT ![p] = g]) = SumFunction(v) /\ Count(gs) = SumFunction(w)
  BY <1>1 DEF Count
<1>3. v \in [Product -> Int] /\ w \in [Product -> Int] /\ v[p] = g.count /\ w[p] = gs[p].count
      /\ \A x \in Product : x # p => v[x] = w[x]
  BY <1>1
<1>4. IsFiniteSet(Product)
  BY RecorderAssumption
<1> HIDE DEF v, w
<1>5. SumFunction(v) = SumFunction(w) + (v[p] - w[p]) /\ SumFunction(w) \in Int
  BY <1>3, <1>4, SumOfChange
<1>6. QED
  BY <1>2, <1>3, <1>5

\* A new process has counted none.
LEMMA CountOfFresh == Count(FreshGates) = 0
<1> DEFINE v == [x \in Product |-> FreshGates[x].count]
<1>1. v \in [Product -> Int] /\ \A x \in Product : v[x] = 0
  BY DEF FreshGates, FreshGate
<1>2. Count(FreshGates) = SumFunction(v)
  BY DEF Count, FreshGates
<1> HIDE DEF v
<1>3. IsFiniteSet(Product)
  BY RecorderAssumption
<1>4. QED
  BY <1>1, <1>2, <1>3, SumOfZeros

\* A gate that is not ready has counted what it had.
LEMMA CountOfNotReady ==
  ASSUME NEW gs \in Gates
  PROVE  Count([p \in Product |-> NotReady(gs[p])]) = Count(gs)
<1>1. \A p \in Product : NotReady(gs[p]).count = gs[p].count
  BY NotReadyFacts DEF Gates
<1>2. DOMAIN gs = Product
  BY DEF Gates
<1>3. QED
  BY <1>1, <1>2 DEF Count

\* The counts of a recording: what a running process and its sidecar claim, and what
\* all processes have counted.
CountsKept ==
  /\ prior \in Int /\ emitted \in Int /\ sidecar.prior \in Int /\ sidecar.thisRun \in Int
  /\ SnapshotsTotal(sidecar) <= emitted
  /\ state # "off" => /\ SnapshotsTotal(sidecar) <= prior + Count(gates)
                      /\ prior + Count(gates) <= emitted
                      /\ ~crashed => prior + Count(gates) = emitted
  /\ (state = "off" /\ ~crashed) => SnapshotsTotal(sidecar) = emitted

\* The log is the builder's input; before the first run it is empty.
LogType ==
  /\ now \in Nat /\ runs \in Nat
  /\ log \in Seq(Line) /\ gates \in Gates
  /\ runs = 0 => log = <<>> /\ state = "off"
  /\ link # "down" => state = "recording"

\* The inductive invariant.
IInv == LogType /\ CountsKept /\ BuilderAgrees

\* It holds of the empty directory.
LEMMA InitIInv == Init => IInv
<1>1. SUFFICES ASSUME Init PROVE IInv
  OBVIOUS
<1>2. LogType
  BY <1>1, FreshGateType, EmptySeq DEF Init, LogType
<1>3. CountsKept
  BY <1>1 DEF Init, CountsKept, SnapshotsTotal
<1>4. BuilderAgrees
  BY <1>1 DEF Init, BuilderAgrees, ReplayAgrees, BooksAgree
<1>5. QED
  BY <1>2, <1>3, <1>4 DEF IInv

\* What a message does to the live gates, and the builder's gates at its line to them.
LEMMA MessageFacts ==
  ASSUME IInv, NEW p \in Product, NEW event \in Event
  PROVE  LET h    == ApplyEvent(gates[p], event, now)
             next == [gates EXCEPT ![p] = h]
             line == FrameLine(p, event)
         IN  /\ h \in GateType /\ next \in Gates /\ line \in Line
             /\ Count(next) = Count(gates) + (h.count - gates[p].count)
             /\ Count(gates) \in Int /\ h.count - gates[p].count \in Nat
             /\ Build(log) = gates => Build(Append(log, line)) = next
             /\ (link # "down" /\ BooksAgree) =>
                  \A q \in Product : next[q].ready =>
                    Build(Append(log, line))[q].ready /\ Build(Append(log, line))[q].book = next[q].book
<1>1. PICK g, h : g = gates[p] /\ h = ApplyEvent(g, event, now)
  OBVIOUS
<1>2. PICK next, line : next = [gates EXCEPT ![p] = h] /\ line = FrameLine(p, event)
  OBVIOUS
<1>3. gates \in Gates /\ now \in Nat /\ log \in Seq(Line) /\ g \in GateType
  BY <1>1 DEF IInv, LogType, Gates
<1>4. /\ h \in GateType /\ h.book = BookAfter(g.book, event)
      /\ h.ready <=> g.ready \/ event.type = "snapshot"
      /\ h.count \in {g.count, g.count + 1}
  BY <1>1, <1>3, ApplyEventFacts
<1>5. next \in Gates
  BY <1>2, <1>3, <1>4 DEF Gates
<1>6. line = [kind |-> "frame", at |-> now, product |-> p, event |-> event] /\ line \in Line
  BY <1>2, <1>3 DEF FrameLine, Line
<1>7. Count(next) = Count(gates) + (h.count - g.count) /\ Count(gates) \in Int
  BY <1>1, <1>2, <1>3, <1>4, CountFacts
<1>8. h.count - g.count \in Nat
  BY <1>3, <1>4 DEF GateType
<1>9. PICK built : built = Build(log)
  OBVIOUS
<1>10. Build(Append(log, line)) = BuildLine(built, line) /\ built \in Gates
  BY <1>3, <1>6, <1>9, BuildOfAppend
<1>11. PICK k : k = ApplyEvent(built[p], event, now)
  OBVIOUS
<1>12. BuildLine(built, line) = [built EXCEPT ![p] = k]
  BY <1>6, <1>11 DEF BuildLine
<1>13. built[p] \in GateType
  BY <1>10 DEF Gates
<1>14. k.book = BookAfter(built[p].book, event) /\ (k.ready <=> built[p].ready \/ event.type = "snapshot")
  BY <1>3, <1>11, <1>13, ApplyEventFacts
<1>15. built = gates => Build(Append(log, line)) = next
  BY <1>1, <1>2, <1>10, <1>11, <1>12
<1>16. ASSUME link # "down", BooksAgree, NEW q \in Product, next[q].ready
       PROVE  Build(Append(log, line))[q].ready /\ Build(Append(log, line))[q].book = next[q].book
  <2>1. CASE q = p
    <3>1. next[q] = h /\ [built EXCEPT ![p] = k][q] = k
      BY <1>2, <1>3, <1>10, <2>1 DEF Gates
    <3>2. k.ready
      BY <1>1, <1>4, <1>9, <1>14, <1>16, <3>1 DEF BooksAgree
    <3>3. k.book = h.book
      <4>1. CASE event.type = "snapshot"
        BY <1>4, <1>14, <4>1 DEF BookAfter
      <4>2. CASE event.type # "snapshot"
        BY <1>1, <1>4, <1>9, <1>14, <1>16, <3>1, <4>2 DEF BooksAgree
      <4>3. QED
        BY <4>1, <4>2
    <3>4. QED
      BY <1>10, <1>12, <3>1, <3>2, <3>3
  <2>2. CASE q # p
    <3>1. next[q] = gates[q] /\ [built EXCEPT ![p] = k][q] = built[q]
      BY <1>2, <1>3, <1>10, <2>2 DEF Gates
    <3>2. QED
      BY <1>9, <1>10, <1>12, <1>16, <3>1 DEF BooksAgree
  <2>3. QED
    BY <2>1, <2>2
<1>17. QED
  BY <1>1, <1>2, <1>4, <1>5, <1>6, <1>7, <1>8, <1>9, <1>15, <1>16

\* Writing lines is appending them.
LEMMA LinesAppended ==
  ASSUME NEW s \in Seq(Line), NEW a \in Line, NEW b \in Line
  PROVE  s \o <<a>> = Append(s, a) /\ s \o <<a, b>> = Append(Append(s, a), b)
         /\ Append(s, a) \in Seq(Line) /\ Append(Append(s, a), b) \in Seq(Line)
  OBVIOUS

\* Start.
LEMMA StartKeeps == ASSUME IInv, Start PROVE IInv'
<1>1. /\ state = "off" /\ state' = "recording" /\ runs' = runs + 1 /\ link' = "down"
      /\ gates' = FreshGates /\ prior' = PriorCount(sidecar)
      /\ sidecar' = [prior |-> prior', thisRun |-> 0]
      /\ now' = now /\ log' = log /\ emitted' = emitted /\ crashed' = crashed /\ skipped' = skipped
  BY DEF Start
<1>2. LogType'
  BY <1>1, FreshGateType DEF IInv, LogType
<1>3. CountsKept'
  <2>1. Count(gates') = 0
    BY <1>1, CountOfFresh
  <2>2. prior' = sidecar.prior + sidecar.thisRun /\ sidecar'.prior = prior' /\ sidecar'.thisRun = 0
    BY <1>1 DEF PriorCount
  <2>3. SnapshotsTotal(sidecar) <= emitted /\ (~crashed => SnapshotsTotal(sidecar) = emitted)
        /\ emitted \in Int /\ sidecar.prior \in Int /\ sidecar.thisRun \in Int
    BY <1>1 DEF IInv, CountsKept
  <2>4. SnapshotsTotal(sidecar') = prior' /\ SnapshotsTotal(sidecar) = prior' /\ prior' \in Int
    BY <2>2, <2>3 DEF SnapshotsTotal
  <2>5. QED
    BY <1>1, <2>1, <2>2, <2>3, <2>4 DEF CountsKept
<1>4. BuilderAgrees'
  <2>1. runs' = 1 => log' = <<>>
    BY <1>1 DEF IInv, LogType
  <2>2. runs' = 1 => Build(log') = gates'
    BY <1>1, <2>1, BuildOfNone
  <2>3. QED
    BY <1>1, <2>2 DEF BuilderAgrees, ReplayAgrees, BooksAgree
<1>5. QED
  BY <1>2, <1>3, <1>4 DEF IInv

\* OnConnect.
LEMMA OnConnectKeeps == ASSUME IInv, OnConnect PROVE IInv'
<1>1. /\ state = "recording" /\ link' = "up" /\ gates' = [p \in Product |-> NotReady(gates[p])]
      /\ log' = log \o <<ConnectLine>> /\ sidecar' = sidecar
      /\ now' = now /\ state' = state /\ prior' = prior /\ runs' = runs /\ emitted' = emitted
      /\ crashed' = crashed /\ skipped' = skipped
  BY DEF OnConnect, WriteLines, history
<1>2. gates \in Gates /\ log \in Seq(Line) /\ ConnectLine \in Line
  BY DEF IInv, LogType, Line
<1>3. log' = Append(log, ConnectLine) /\ log' \in Seq(Line)
  BY <1>1, <1>2, LinesAppended
<1>4. \A p \in Product : gates'[p] \in GateType /\ ~gates'[p].ready
  BY <1>1, <1>2, NotReadyFacts DEF Gates
<1>5. gates' \in Gates
  BY <1>1, <1>4 DEF Gates
<1>6. Count(gates') = Count(gates)
  BY <1>1, <1>2, CountOfNotReady
<1>7. LogType'
  BY <1>1, <1>3, <1>5 DEF IInv, LogType
<1>8. CountsKept'
  BY <1>1, <1>6 DEF IInv, CountsKept
<1>9. Build(log') = [p \in Product |-> NotReady(Build(log)[p])]
  BY <1>2, <1>3, BuildOfAppend DEF BuildLine, ConnectLine
<1>10. BuilderAgrees'
  BY <1>1, <1>4, <1>9 DEF IInv, BuilderAgrees, ReplayAgrees, BooksAgree
<1>11. QED
  BY <1>7, <1>8, <1>10 DEF IInv

\* Frame and GapFrame: a message that is applied.
LEMMA MessageKeeps ==
  ASSUME IInv, NEW p \in Product, NEW event \in Event, Frame(p, event) \/ GapFrame(p, event)
  PROVE  IInv'
<1>1. PICK h, next, line : /\ h = ApplyEvent(gates[p], event, now)
                           /\ next = [gates EXCEPT ![p] = h] /\ line = FrameLine(p, event)
  OBVIOUS
<1>2. /\ h \in GateType /\ next \in Gates /\ line \in Line
      /\ Count(next) = Count(gates) + (h.count - gates[p].count)
      /\ Count(gates) \in Int /\ h.count - gates[p].count \in Nat
      /\ Build(log) = gates => Build(Append(log, line)) = next
      /\ (link # "down" /\ BooksAgree) =>
           \A q \in Product : next[q].ready =>
             Build(Append(log, line))[q].ready /\ Build(Append(log, line))[q].book = next[q].book
  <2>1. LET g    == ApplyEvent(gates[p], event, now)
            then == [gates EXCEPT ![p] = g]
            l    == FrameLine(p, event)
        IN  /\ g \in GateType /\ then \in Gates /\ l \in Line
            /\ Count(then) = Count(gates) + (g.count - gates[p].count)
            /\ Count(gates) \in Int /\ g.count - gates[p].count \in Nat
            /\ Build(log) = gates => Build(Append(log, l)) = then
            /\ (link # "down" /\ BooksAgree) =>
                 \A q \in Product : then[q].ready =>
                   Build(Append(log, l))[q].ready /\ Build(Append(log, l))[q].book = then[q].book
    BY MessageFacts
  <2>2. QED
    BY <1>1, <2>1
<1>3. /\ state = "recording" /\ link # "down" /\ link' # "down" /\ gates' = next
      /\ emitted' = emitted + (gates'[p].count - gates[p].count)
      /\ log' = log \o <<line>> \/ log' = log \o <<line, GapLine>>
      /\ sidecar' = sidecar /\ now' = now /\ state' = state /\ prior' = prior /\ runs' = runs
      /\ crashed' = crashed /\ skipped' = skipped
  BY <1>1 DEF Frame, GapFrame, WriteLines, OnMessage
<1>4. gates \in Gates /\ log \in Seq(Line) /\ GapLine \in Line
  BY DEF IInv, LogType, Line
<1>5. log' \in Seq(Line) /\ Build(log') = Build(Append(log, line))
  <2>1. CASE log' = log \o <<line>>
    <3>1. log \o <<line>> = Append(log, line) /\ Append(log, line) \in Seq(Line)
      BY <1>2, <1>4, LinesAppended
    <3>2. QED
      BY <2>1, <3>1
  <2>2. CASE log' = log \o <<line, GapLine>>
    <3>1. log' = Append(Append(log, line), GapLine) /\ Append(log, line) \in Seq(Line)
      BY <1>2, <1>4, <2>2, LinesAppended
    <3>2. Build(log') = BuildLine(Build(Append(log, line)), GapLine)
      BY <1>4, <3>1, BuildOfAppend
    <3>3. QED
      BY <1>4, <3>1, <3>2 DEF BuildLine, GapLine
  <2>3. QED
    BY <1>3, <2>1, <2>2
<1>6. gates'[p] = h
  BY <1>1, <1>3, <1>4 DEF Gates
<1>7. LogType'
  <2>1. runs # 0
    BY <1>3 DEF IInv, LogType
  <2>2. QED
    BY <1>2, <1>3, <1>5, <2>1 DEF IInv, LogType
<1>8. CountsKept'
  <2>1. PICK c, d : c = Count(gates) /\ d = h.count - gates[p].count
    OBVIOUS
  <2>2. /\ c \in Int /\ d \in Nat /\ Count(gates') = c + d /\ emitted' = emitted + d
    BY <1>2, <1>3, <1>6, <2>1
  <2>3. /\ prior \in Int /\ emitted \in Int /\ sidecar.prior \in Int /\ sidecar.thisRun \in Int
        /\ SnapshotsTotal(sidecar) <= prior + c /\ prior + c <= emitted
        /\ ~crashed => prior + c = emitted
    BY <1>3, <2>1 DEF IInv, CountsKept
  <2>4. SnapshotsTotal(sidecar) \in Int
    BY <2>3 DEF SnapshotsTotal
  <2>5. /\ SnapshotsTotal(sidecar) <= prior + (c + d) /\ prior + (c + d) <= emitted + d
        /\ SnapshotsTotal(sidecar) <= emitted + d /\ (~crashed => prior + (c + d) = emitted + d)
        /\ emitted + d \in Int
    BY <2>2, <2>3, <2>4
  <2>6. QED
    BY <1>3, <2>2, <2>3, <2>5 DEF CountsKept
<1>9. BuilderAgrees'
  <2>1. BuilderAgrees /\ BooksAgree
    BY DEF IInv, BuilderAgrees
  <2>2. ReplayAgrees'
    BY <1>2, <1>3, <1>5, <2>1 DEF BuilderAgrees, ReplayAgrees
  <2>3. BooksAgree'
    BY <1>2, <1>3, <1>5, <2>1 DEF BooksAgree
  <2>4. QED
    BY <2>2, <2>3 DEF BuilderAgrees
<1>10. QED
  BY <1>7, <1>8, <1>9 DEF IInv

\* GapFrameFails: the frame is logged and lost.
LEMMA GapFrameFailsKeeps ==
  ASSUME IInv, NEW p \in Product, NEW event \in Event, GapFrameFails(p, event)
  PROVE  IInv'
<1>1. /\ state = "recording" /\ link = "numbered" /\ link' = "down" /\ skipped' = TRUE
      /\ log' = log \o <<FrameLine(p, event), GapLine>> /\ gates' = gates
      /\ sidecar' = sidecar /\ now' = now /\ state' = state /\ prior' = prior /\ runs' = runs
      /\ emitted' = emitted /\ crashed' = crashed
  BY DEF GapFrameFails, WriteLines
<1>2. log \in Seq(Line) /\ GapLine \in Line /\ now \in Nat /\ runs # 0
  BY <1>1 DEF IInv, LogType, Line
<1>3. FrameLine(p, event) \in Line
  BY <1>2 DEF FrameLine, Line
<1>4. log' \in Seq(Line)
  BY <1>1, <1>2, <1>3, LinesAppended
<1>5. LogType'
  BY <1>1, <1>2, <1>4 DEF IInv, LogType
<1>6. CountsKept'
  BY <1>1 DEF IInv, CountsKept
<1>7. BuilderAgrees'
  BY <1>1 DEF BuilderAgrees, ReplayAgrees, BooksAgree
<1>8. QED
  BY <1>5, <1>6, <1>7 DEF IInv

\* Crash: the log is cut short, the process gone.
LEMMA CrashKeeps == ASSUME IInv, Crash, durable \in Nat PROVE IInv'
<1>1. /\ state # "off" /\ state' = "off" /\ link' = "down" /\ crashed' = TRUE
      /\ durable' \in durable..Len(log) /\ log' = SubSeq(log, 1, durable')
      /\ now' = now /\ sidecar' = sidecar /\ gates' = gates /\ prior' = prior /\ runs' = runs
      /\ emitted' = emitted
  BY DEF Crash
<1>2. log' \in Seq(Line) /\ runs # 0
  <2>1. log \in Seq(Line) /\ runs # 0
    BY <1>1 DEF IInv, LogType
  <2>2. durable' \in Nat /\ durable' <= Len(log)
    BY <1>1, <2>1
  <2>3. QED
    BY <1>1, <2>1, <2>2
<1>3. LogType'
  BY <1>1, <1>2 DEF IInv, LogType
<1>4. CountsKept'
  BY <1>1 DEF IInv, CountsKept
<1>5. BuilderAgrees'
  BY <1>1 DEF BuilderAgrees, ReplayAgrees, BooksAgree
<1>6. QED
  BY <1>3, <1>4, <1>5 DEF IInv

\* LastSidecar and WriteSidecar: the sidecar says what the process counted.
LEMMA SidecarKeeps ==
  ASSUME IInv, WriteSidecar \/ LastSidecar
  PROVE  IInv' /\ SnapshotsTotal(sidecar') >= SnapshotsTotal(sidecar)
<1>1. /\ state # "off" /\ sidecar' = Counts /\ state' \in {"recording", "off"}
      /\ (state' = "recording" => state = "recording") /\ (state' = "off" => state = "closing")
      /\ now' = now /\ log' = log /\ link' = link /\ gates' = gates /\ prior' = prior
      /\ runs' = runs /\ emitted' = emitted /\ crashed' = crashed /\ skipped' = skipped
  BY DEF WriteSidecar, LastSidecar, process, history
<1>2. PICK c : c = Count(gates)
  OBVIOUS
<1>3. sidecar'.prior = prior /\ sidecar'.thisRun = c /\ SnapshotsTotal(sidecar') = prior + c
  BY <1>1, <1>2 DEF Counts, SnapshotsTotal
<1>4. c \in Int /\ prior \in Int
  <2>1. gates \in Gates
    BY DEF IInv, LogType
  <2>2. prior \in Int
    BY DEF IInv, CountsKept
  <2>3. c \in Int
    <3>1. CASE Product = {}
      <4>1. gates = FreshGates
        BY <2>1, <3>1 DEF Gates, FreshGates
      <4>2. QED
        BY <1>2, <4>1, CountOfFresh
    <3>2. CASE Product # {}
      <4>1. PICK p \in Product : TRUE
        BY <3>2
      <4>2. gates[p] \in GateType
        BY <2>1 DEF Gates
      <4>3. QED
        BY <1>2, <2>1, <4>2, CountFacts
    <3>3. QED
      BY <3>1, <3>2
  <2>4. QED
    BY <2>2, <2>3
<1>5. /\ SnapshotsTotal(sidecar) <= prior + c /\ prior + c <= emitted /\ emitted \in Int
      /\ ~crashed => prior + c = emitted
      /\ sidecar.prior \in Int /\ sidecar.thisRun \in Int
  BY <1>1, <1>2 DEF IInv, CountsKept
<1>6. SnapshotsTotal(sidecar) \in Int
  BY <1>5 DEF SnapshotsTotal
<1>7. CountsKept'
  <2>1. Count(gates') = c /\ prior' = prior /\ emitted' = emitted /\ crashed' = crashed
    BY <1>1, <1>2
  <2>2. prior + c <= prior + c
    BY <1>4
  <2>3. QED
    BY <1>3, <1>4, <1>5, <2>1, <2>2 DEF CountsKept
<1>8. LogType'
  BY <1>1 DEF IInv, LogType
<1>9. BuilderAgrees'
  BY <1>1 DEF IInv, BuilderAgrees, ReplayAgrees, BooksAgree
<1>10. SnapshotsTotal(sidecar') >= SnapshotsTotal(sidecar)
  BY <1>3, <1>4, <1>5, <1>6
<1>11. QED
  BY <1>7, <1>8, <1>9, <1>10 DEF IInv

\* The steps that change neither gates nor log nor counts.
LEMMA QuietKeeps ==
  ASSUME IInv, Disconnect \/ Flush \/ Stop \/ Tick \/ UNCHANGED vars
  PROVE  IInv'
<1>1. /\ log' = log /\ sidecar' = sidecar /\ gates' = gates /\ prior' = prior /\ runs' = runs
      /\ emitted' = emitted /\ crashed' = crashed /\ skipped' = skipped
      /\ now' \in {now, now + 1}
      /\ (state' = "off" <=> state = "off")
      /\ (link' # "down" => link' = link /\ state' = state)
  BY DEF Disconnect, Flush, Stop, Tick, vars, disk, process, history
<1>2. LogType'
  BY <1>1 DEF IInv, LogType
<1>3. CountsKept'
  BY <1>1 DEF IInv, CountsKept
<1>4. BuilderAgrees'
  BY <1>1 DEF IInv, BuilderAgrees, ReplayAgrees, BooksAgree
<1>5. QED
  BY <1>2, <1>3, <1>4 DEF IInv

\* Every step keeps the inductive invariant.
LEMMA NextIInv == IInv /\ durable \in Nat /\ [Next]_vars => IInv'
<1>1. SUFFICES ASSUME IInv, durable \in Nat, [Next]_vars PROVE IInv'
  OBVIOUS
<1>2. CASE Start
  BY <1>1, <1>2, StartKeeps
<1>3. CASE OnConnect
  BY <1>1, <1>3, OnConnectKeeps
<1>4. ASSUME NEW p \in Product, NEW event \in Event,
             Frame(p, event) \/ GapFrame(p, event) \/ GapFrameFails(p, event)
      PROVE  IInv'
  BY <1>1, <1>4, MessageKeeps, GapFrameFailsKeeps
<1>5. CASE Crash
  BY <1>1, <1>5, CrashKeeps
<1>6. CASE WriteSidecar \/ LastSidecar
  BY <1>1, <1>6, SidecarKeeps
<1>7. CASE Disconnect \/ Flush \/ Stop \/ Tick \/ UNCHANGED vars
  BY <1>1, <1>7, QuietKeeps
<1>8. QED
  BY <1>1, <1>2, <1>3, <1>4, <1>5, <1>6, <1>7 DEF Next

\* What is durable is a number of lines.
LEMMA DurableType == LogType /\ durable \in Nat /\ [Next]_vars => (durable \in Nat)'
<1>1. SUFFICES ASSUME LogType, durable \in Nat, [Next]_vars PROVE durable' \in Nat
  OBVIOUS
<1>2. Len(log) \in Nat /\ \A d \in durable..Len(log) : d \in Nat
  BY <1>1 DEF LogType
<1>3. CASE Crash
  BY <1>2, <1>3 DEF Crash
<1>4. CASE Flush \/ Stop
  BY <1>2, <1>4 DEF Flush, Stop
<1>5. QED
  BY <1>1, <1>3, <1>4 DEF Next, Start, OnConnect, Disconnect, Frame, GapFrame, GapFrameFails,
     WriteSidecar, LastSidecar, Tick, WriteLines, vars, disk

\* For every recording.
THEOREM RecorderInvariant == Spec => [](IInv /\ durable \in Nat)
<1>1. Init => IInv /\ durable \in Nat
  BY InitIInv DEF Init
<1>2. IInv /\ durable \in Nat /\ [Next]_vars => (IInv /\ durable \in Nat)'
  BY NextIInv, DurableType DEF IInv
<1>3. QED
  BY <1>1, <1>2, PTL DEF Spec

\* The archive builder sees what the live gates saw: in a log of one run that applied
\* every frame the same states, and after restarts, crashes and lost frames the same
\* books wherever a live gate is ready.
THEOREM BuilderCorrect == Spec => []BuilderAgrees
<1>1. IInv => BuilderAgrees
  BY DEF IInv
<1>2. QED
  BY <1>1, RecorderInvariant, PTL

\* The sidecar never claims more snapshots than were counted, and no fewer once the
\* recorder has stopped and was never killed.
THEOREM SidecarCorrect == Spec => []SidecarHonest
<1>1. IInv => SidecarHonest
  BY DEF IInv, CountsKept, SidecarHonest
<1>2. QED
  BY <1>1, RecorderInvariant, PTL

\* The total the target is compared with never drops.
THEOREM TotalOnlyGrows == Spec => TotalNeverDrops
<1>1. ASSUME IInv, [Next]_vars PROVE SnapshotsTotal(sidecar') >= SnapshotsTotal(sidecar)
  <2>1. sidecar.prior \in Int /\ sidecar.thisRun \in Int
    BY <1>1 DEF IInv, CountsKept
  <2>2. SnapshotsTotal(sidecar) \in Int
    BY <2>1 DEF SnapshotsTotal
  <2>3. CASE sidecar' = sidecar
    BY <2>2, <2>3
  <2>4. CASE WriteSidecar \/ LastSidecar
    BY <1>1, <2>4, SidecarKeeps
  <2>5. CASE Start
    <3>1. sidecar' = [prior |-> SnapshotsTotal(sidecar), thisRun |-> 0]
      BY <2>5 DEF Start, PriorCount, SnapshotsTotal
    <3>2. SnapshotsTotal(sidecar') = SnapshotsTotal(sidecar) + 0
      BY <3>1 DEF SnapshotsTotal
    <3>3. QED
      BY <2>2, <3>2
  <2>6. QED
    BY <1>1, <2>3, <2>4, <2>5 DEF Next, OnConnect, Disconnect, Frame, GapFrame, GapFrameFails, Flush,
       Stop, Crash, Tick, WriteLines, vars, disk
<1>2. IInv /\ [Next]_vars => [SnapshotsTotal(sidecar') >= SnapshotsTotal(sidecar)]_vars
  BY <1>1
<1>3. QED
  BY <1>2, RecorderInvariant, PTL DEF Spec, TotalNeverDrops

-----------------------------------------------------------------------------
(* RecorderControl.                                                        *)

Where == {"none", "starting", "pid written", "running", "stopping", "ended", "killed", "other program"}

\* The types of the processes and of their files.
ControlTypeOK ==
  /\ proc \in [Pid -> Where]
  /\ pidFile \in Pid \cup {NoFile}
  /\ stopFile \in BOOLEAN
  /\ aliveField \in BOOLEAN \cup {NoFile}
  /\ stopper \in [at : {"none", "write", "wait"}, pid : Pid \cup {NoFile}]
  /\ stopAsked \in [Pid -> BOOLEAN]

\* A stop command that has begun is for a recorder that had written its pid.
StopperHasPid == stopper.at # "none" => stopper.pid \in Pid

ControlInv == ControlTypeOK /\ StopperHasPid /\ OldStopForgotten /\ SidecarTellsEnd

\* Nothing has been started.
LEMMA ControlInvInit == ControlInit => ControlInv
<1>1. SUFFICES ASSUME ControlInit PROVE ControlInv
  OBVIOUS
<1>2. /\ proc \in [Pid -> Where] /\ stopAsked \in [Pid -> BOOLEAN]
      /\ \A p \in Pid : proc[p] = "none"
  BY <1>1 DEF ControlInit, Where
<1>3. stopper \in [at : {"none", "write", "wait"}, pid : Pid \cup {NoFile}] /\ stopper.at = "none"
  BY <1>1 DEF ControlInit, NoStopper
<1>4. ControlTypeOK /\ StopperHasPid
  BY <1>1, <1>2, <1>3 DEF ControlInit, ControlTypeOK, StopperHasPid
<1>5. QED
  BY <1>2, <1>4 DEF ControlInv, OldStopForgotten, SidecarTellsEnd

\* A recorder that begins its loop removes the stop file: nothing asks it to stop yet.
LEMMA BeginLoopKeeps ==
  ASSUME NEW p \in Pid, ControlInv, BeginLoop(p)
  PROVE  ControlInv'
<1>1. ControlTypeOK' /\ StopperHasPid'
  BY DEF BeginLoop, ControlInv, ControlTypeOK, StopperHasPid, Where
<1>2. OldStopForgotten'
  BY DEF BeginLoop, ControlInv, ControlTypeOK, OldStopForgotten
<1>3. proc'[p] = "running"
  BY DEF BeginLoop, ControlInv, ControlTypeOK
<1>4. SidecarTellsEnd'
  BY <1>3 DEF SidecarTellsEnd
<1>5. QED
  BY <1>1, <1>2, <1>4 DEF ControlInv

\* A step of recorder p into a place where it is not running: files but the sidecar are
\* as they were, or the pid file is its own.
LEMMA MoveKeeps ==
  ASSUME NEW p \in Pid, NEW to \in Where \ {"running"}, ControlInv,
         proc' = [proc EXCEPT ![p] = to],
         pidFile' \in {pidFile, p}, aliveField' \in {aliveField, FALSE},
         UNCHANGED <<stopFile, stopAsked>>,
         stopper' \in {stopper, NoStopper},
         to \in {"starting", "pid written", "stopping", "killed", "other program"} \/ aliveField' = FALSE
  PROVE  ControlInv'
<1>1. ControlTypeOK' /\ StopperHasPid'
  <2>1. stopper' \in [at : {"none", "write", "wait"}, pid : Pid \cup {NoFile}] /\ StopperHasPid'
    <3>1. NoStopper \in [at : {"none", "write", "wait"}, pid : Pid \cup {NoFile}] /\ NoStopper.at = "none"
      BY DEF NoStopper
    <3>2. QED
      BY <3>1 DEF ControlInv, ControlTypeOK, StopperHasPid
  <2>2. proc' \in [Pid -> Where]
    BY DEF ControlInv, ControlTypeOK
  <2>3. pidFile' \in Pid \cup {NoFile} /\ aliveField' \in BOOLEAN \cup {NoFile}
    BY DEF ControlInv, ControlTypeOK
  <2>4. QED
    BY <2>1, <2>2, <2>3 DEF ControlInv, ControlTypeOK
<1>2. \A q \in Pid : proc'[q] = IF q = p THEN to ELSE proc[q]
  BY DEF ControlInv, ControlTypeOK
<1>3. OldStopForgotten'
  BY <1>2 DEF ControlInv, OldStopForgotten
<1>4. SidecarTellsEnd'
  BY <1>2 DEF SidecarTellsEnd
<1>5. QED
  BY <1>1, <1>3, <1>4 DEF ControlInv

\* A stop command that reads or writes, or sees the end, changes no recorder.
LEMMA StopKeeps ==
  ASSUME ControlInv, StopReadsPid \/ StopWritesFile \/ StopSeesEnd
  PROVE  ControlInv'
<1>1. ControlTypeOK' /\ StopperHasPid'
  <2>1. /\ UNCHANGED <<proc, pidFile, aliveField>>
        /\ stopFile' \in {stopFile, TRUE} /\ stopAsked' \in {stopAsked, [p \in Pid |-> TRUE]}
    BY DEF StopReadsPid, StopWritesFile, StopSeesEnd
  <2>2. \/ stopper' = stopper
        \/ stopper' = [stopper EXCEPT !.at = "wait"] /\ stopper.at = "write"
        \/ stopper' = [at |-> "none", pid |-> NoFile]
        \/ stopper' = [at |-> "write", pid |-> pidFile] /\ pidFile # NoFile
    BY DEF StopReadsPid, StopWritesFile, StopSeesEnd, NoStopper
  <2>3. stopper' \in [at : {"none", "write", "wait"}, pid : Pid \cup {NoFile}] /\ StopperHasPid'
    BY <2>2 DEF ControlInv, ControlTypeOK, StopperHasPid
  <2>4. QED
    BY <2>1, <2>3 DEF ControlInv, ControlTypeOK
<1>2. OldStopForgotten'
  BY DEF ControlInv, ControlTypeOK, OldStopForgotten, StopReadsPid, StopWritesFile, StopSeesEnd
<1>3. SidecarTellsEnd'
  BY DEF ControlInv, SidecarTellsEnd, StopReadsPid, StopWritesFile, StopSeesEnd
<1>4. QED
  BY <1>1, <1>2, <1>3 DEF ControlInv

\* Every step keeps the invariant.
LEMMA ControlInvNext == ControlInv /\ [ControlNext]_controlVars => ControlInv'
<1>1. SUFFICES ASSUME ControlInv, [ControlNext]_controlVars PROVE ControlInv'
  OBVIOUS
<1>2. CASE UNCHANGED controlVars
  BY <1>1, <1>2 DEF ControlInv, ControlTypeOK, StopperHasPid, OldStopForgotten, SidecarTellsEnd, controlVars
<1>3. ASSUME NEW p \in Pid, StartRecorder(p) PROVE ControlInv'
  BY <1>1, <1>3, MoveKeeps DEF StartRecorder, Where
<1>4. ASSUME NEW p \in Pid, WritePid(p) PROVE ControlInv'
  BY <1>1, <1>4, MoveKeeps DEF WritePid, Where
<1>5. ASSUME NEW p \in Pid, RefreshSidecar(p) PROVE ControlInv'
  <2>1. proc'[p] = "running"
    BY <1>5 DEF RefreshSidecar
  <2>2. QED
    BY <1>1, <1>5, <2>1 DEF RefreshSidecar, ControlInv, ControlTypeOK, StopperHasPid, OldStopForgotten, SidecarTellsEnd
<1>6. ASSUME NEW p \in Pid, LeaveLoop(p) PROVE ControlInv'
  BY <1>1, <1>6, MoveKeeps DEF LeaveLoop, Where
<1>7. ASSUME NEW p \in Pid, End(p) PROVE ControlInv'
  BY <1>1, <1>7, MoveKeeps DEF End, Where
<1>8. ASSUME NEW p \in Pid, Kill(p) PROVE ControlInv'
  BY <1>1, <1>8, MoveKeeps DEF Kill, Where
<1>9. ASSUME NEW p \in Pid, PidReused(p) PROVE ControlInv'
  BY <1>1, <1>9, MoveKeeps DEF PidReused, Where
<1>10. CASE StopForces
  <2>1. stopper.pid \in Pid
    BY <1>1, <1>10 DEF StopForces, ControlInv, StopperHasPid
  <2>2. QED
    BY <1>1, <1>10, <2>1, MoveKeeps DEF StopForces, Where
<1>11. QED
  BY <1>1, <1>2, <1>3, <1>4, <1>5, <1>6, <1>7, <1>8, <1>9, <1>10, BeginLoopKeeps, StopKeeps DEF ControlNext

\* No recorder obeys a stop that was asked for before it began, and when all have come
\* to their own end the sidecar says so: for any number of recorders and stops, kills
\* at any point, and pids that other programs have by then.
THEOREM FilesStayCurrent == ControlSpec => []FilesAreCurrent
<1>1. ControlInv => FilesAreCurrent
  BY DEF ControlInv, FilesAreCurrent
<1>2. QED
  BY <1>1, ControlInvInit, ControlInvNext, PTL DEF ControlSpec
=============================================================================
