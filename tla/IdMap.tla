-------------------------------- MODULE IdMap --------------------------------
(***************************************************************************)
(* The map from order ids to nodes of the native book: class IdMap of      *)
(* src/native/include/ee/order_book.hpp.  Open addressing with linear      *)
(* probing; a deletion shifts later entries of the probe run back instead  *)
(* of leaving a tombstone.                                                 *)
(*                                                                         *)
(* A deletion is several steps, one per slot it looks at, so that the loop *)
(* invariant is an invariant of the module.  The book calls insert only    *)
(* with an id that find does not find.                                     *)
(***************************************************************************)
EXTENDS Integers, FiniteSetsExt, Functions

CONSTANTS
  OrderId,   \* order ids
  NoId,      \* nullptr
  FirstSize, \* slots of a new map (16 in the code for the smallest)
  MaxSize    \* bound: slots of the largest map, a power of two like FirstSize

Divides(capacity) == \E q \in 1..MaxSize : MaxSize = q * capacity

\* Powers of two: the divisors of MaxSize can be doubled up to it.
ASSUME IdMapAssumption ==
  /\ MaxSize \in Nat \ {0} /\ FirstSize \in 1..MaxSize
  /\ Divides(FirstSize)
  /\ \A capacity \in 1..MaxSize :
        Divides(capacity) /\ 2 * capacity <= MaxSize => Divides(2 * capacity)
  /\ NoId \notin OrderId

VARIABLES
  hash,    \* [OrderId -> 0..MaxSize-1]: the multiplied id's highest bits; never changes
  nodes,   \* [0..capacity-1 -> id or NoId]
  size,
  erasing, \* the locals of a running erase: {}, or one [hole, next, rounds]
  ids      \* history: the ids inserted and not erased since

mapVars == <<hash, nodes, size, erasing, ids>>

-----------------------------------------------------------------------------

\* Of a larger map the home slot takes more of the highest bits.
HomeIn(id, capacity) == hash[id] \div (MaxSize \div capacity)

Capacity == Cardinality(DOMAIN nodes)
MapSlot  == DOMAIN nodes
Home(id) == HomeIn(id, Capacity)

After(i, k) == (i + k) % Capacity

\* The slot at which probing for id from its home ends in ns: the first one that
\* holds it or nothing.
ProbeEnd(ns, id) ==
  LET capacity == Cardinality(DOMAIN ns)
      at(k)    == (HomeIn(id, capacity) + k) % capacity
  IN  at(Min({k \in 0..(capacity - 1) : ns[at(k)] \in {id, NoId}}))

MapFind(id) == nodes[ProbeEnd(nodes, id)] = id

PutId(ns, id) == [ns EXCEPT ![ProbeEnd(ns, id)] = id]

\* rehash to twice the capacity: the entries are inserted again in slot order.
Rehashed(ns) ==
  LET capacity == Cardinality(DOMAIN ns)
      again[k \in 0..capacity] ==
        IF k = 0 THEN [i \in 0..(2 * capacity - 1) |-> NoId]
        ELSE IF ns[k - 1] = NoId THEN again[k - 1]
        ELSE PutId(again[k - 1], ns[k - 1])
  IN  again[capacity]

-----------------------------------------------------------------------------

MapInit ==
  /\ hash \in [OrderId -> 0..(MaxSize - 1)]
  /\ nodes = [i \in 0..(FirstSize - 1) |-> NoId]
  /\ size = 0 /\ erasing = {}
  /\ ids = {}

\* Mutant: the map grows only when it is full.
MapInsertGrowsLate(id) ==
  /\ erasing = {} /\ ~MapFind(id)
  /\ nodes' = PutId(IF size + 1 > Capacity THEN Rehashed(nodes) ELSE nodes, id)
  /\ size' = size + 1
  /\ ids' = ids \union {id}
  /\ UNCHANGED <<hash, erasing>>

MapInsert(id) ==
  /\ erasing = {} /\ ~MapFind(id)
  /\ (size + 1) * 2 > Capacity => 2 * Capacity <= MaxSize
  /\ nodes' = PutId(IF (size + 1) * 2 > Capacity THEN Rehashed(nodes) ELSE nodes, id)
  /\ size' = size + 1
  /\ ids' = ids \union {id}
  /\ UNCHANGED <<hash, erasing>>

\* erase up to the shift: an id that is not there is left alone.
MapErase(id) ==
  /\ erasing = {} /\ MapFind(id)
  /\ LET i == ProbeEnd(nodes, id) IN erasing' = {[hole |-> i, next |-> After(i, 1), rounds |-> 0]}
  /\ ids' = ids \ {id}
  /\ UNCHANGED <<hash, nodes, size>>

\* Mutant: an entry is moved whenever its home is not after the hole.
MovableNoWrap(home, hole, j) == home <= hole

\* Whether the entry of slot j may go to the hole before it: its home is not
\* between the two, going round.
Movable(home, hole, j) ==
  IF hole <= j THEN home <= hole \/ home > j ELSE home <= hole /\ home > j

\* Mutant: the loop does not go on from an entry that stays.
ShiftStays ==
  \E e \in erasing :
    /\ nodes[e.next] # NoId
    /\ IF Movable(Home(nodes[e.next]), e.hole, e.next)
       THEN /\ nodes' = [nodes EXCEPT ![e.hole] = nodes[e.next]]
            /\ erasing' = {[hole |-> e.next, next |-> After(e.next, 1), rounds |-> e.rounds + 1]}
       ELSE erasing' = {[e EXCEPT !.rounds = @ + 1]} /\ UNCHANGED nodes
    /\ UNCHANGED <<hash, size, ids>>

\* One round of the shift.
Shift ==
  \E e \in erasing :
    /\ nodes[e.next] # NoId
    /\ erasing' = {[hole   |-> IF Movable(Home(nodes[e.next]), e.hole, e.next) THEN e.next ELSE e.hole,
                    next   |-> After(e.next, 1),
                    rounds |-> e.rounds + 1]}
    /\ nodes' = IF Movable(Home(nodes[e.next]), e.hole, e.next)
                THEN [nodes EXCEPT ![e.hole] = nodes[e.next]] ELSE nodes
    /\ UNCHANGED <<hash, size, ids>>

\* The end of the run.
EndShift ==
  \E e \in erasing :
    /\ nodes[e.next] = NoId
    /\ nodes' = [nodes EXCEPT ![e.hole] = NoId]
    /\ size' = size - 1 /\ erasing' = {}
    /\ UNCHANGED <<hash, ids>>

MapNext ==
  \/ \E id \in OrderId : MapInsert(id) \/ MapErase(id)
  \/ Shift \/ EndShift

MapSpec == MapInit /\ [][MapNext]_mapVars

-----------------------------------------------------------------------------
(* Properties.                                                             *)

\* Between calls find finds exactly the ids that were inserted and not erased,
\* whatever the hash function, the collisions, the order of insertions and
\* deletions and the growth of the map.
FindsMembers ==
  erasing = {} => size = Cardinality(ids) /\ \A id \in OrderId : MapFind(id) <=> id \in ids

\* At most half of the slots are taken, also in the middle of a deletion: every
\* probe ends at an empty slot.
HalfEmpty == 2 * Cardinality({i \in MapSlot : nodes[i] # NoId}) <= Capacity

\* A deletion ends before it has been round the table, however the homes lie.
EraseEnds == \A e \in erasing : e.rounds < Capacity


\* The map holds what was inserted and nothing else, and every probe of it comes to
\* an end: the three together, after any insertions, growth and deletions.
MapHolds == FindsMembers /\ HalfEmpty /\ EraseEnds
=============================================================================
