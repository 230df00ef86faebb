------------------------------- MODULE Bitmap -------------------------------
(***************************************************************************)
(* The two-level bitmap over the window slots of a book side: class Bitmap *)
(* of src/native/include/ee/order_book.hpp.  l0 has one bit per slot, l1   *)
(* one bit per word of l0 that is not zero.  A word is the set of its bits *)
(* that are set.                                                           *)
(***************************************************************************)
EXTENDS Integers, FiniteSetsExt

CONSTANTS
  WordBits,  \* bits of a word, 64 in the code
  Bits       \* slots of the window

ASSUME BitmapAssumption == WordBits \in Nat \ {0} /\ Bits \in Nat \ {0}

VARIABLES
  l0, l1,   \* the words of the bits and of the summary
  members   \* history: the slots set and not cleared since

bitmapVars == <<l0, l1, members>>

-----------------------------------------------------------------------------

\* Words that hold n bits.
WordsFor(n) == (n + WordBits - 1) \div WordBits

Words   == WordsFor(Bits)
BitSlot == 0..(Bits - 1)
Word    == SUBSET (0..(WordBits - 1))
Zero(n) == [w \in 0..(n - 1) |-> {}]

WordOf(i) == i \div WordBits
BitOf(i)  == i % WordBits

BitmapInit ==
  /\ l0 = Zero(Words) /\ l1 = Zero(WordsFor(Words))
  /\ members = {}

Set(i) ==
  /\ l0' = [l0 EXCEPT ![WordOf(i)] = @ \union {BitOf(i)}]
  /\ l1' = [l1 EXCEPT ![WordOf(WordOf(i))] = @ \union {BitOf(WordOf(i))}]
  /\ members' = members \union {i}

\* Mutant: the summary bit is cleared with the first bit of its word.
ClearSummaryToo(i) ==
  /\ l0' = [l0 EXCEPT ![WordOf(i)] = @ \ {BitOf(i)}]
  /\ l1' = [l1 EXCEPT ![WordOf(WordOf(i))] = @ \ {BitOf(WordOf(i))}]
  /\ members' = members \ {i}

Clear(i) ==
  /\ l0' = [l0 EXCEPT ![WordOf(i)] = @ \ {BitOf(i)}]
  /\ l1' = IF l0'[WordOf(i)] # {} THEN l1
           ELSE [l1 EXCEPT ![WordOf(WordOf(i))] = @ \ {BitOf(WordOf(i))}]
  /\ members' = members \ {i}

Reset ==
  /\ l0' = Zero(Words) /\ l1' = Zero(WordsFor(Words))
  /\ members' = {}

BitmapNext == (\E i \in BitSlot : Set(i) \/ Clear(i)) \/ Reset

BitmapSpec == BitmapInit /\ [][BitmapNext]_bitmapVars

-----------------------------------------------------------------------------
(* The searches, -1 for none.  The loop over the summary stops at its first *)
(* word with a bit in the range searched.                                   *)

\* Highest set bit <= i.
PrevSet(i) ==
  LET below(s, bit) == IF s = WordOf(bit) THEN {b \in l1[s] : b <= BitOf(bit)} ELSE l1[s]
      here == {b \in l0[WordOf(i)] : b <= BitOf(i)}
      last == WordOf(i) - 1
      hits == {s \in 0..WordOf(last) : below(s, last) # {}}
      word == Max(hits) * WordBits + Max(below(Max(hits), last))
  IN  IF here # {} THEN WordOf(i) * WordBits + Max(here)
      ELSE IF WordOf(i) = 0 \/ hits = {} THEN -1
      ELSE word * WordBits + Max(l0[word])

\* Mutant: the summary word of i's own word is not searched again.
NextSetSkipsSummaryWord(i) ==
  LET here  == {b \in l0[WordOf(i)] : b >= BitOf(i)}
      hits  == {s \in (WordOf(WordOf(i)) + 1)..WordOf(Words - 1) : l1[s] # {}}
      word  == Min(hits) * WordBits + Min(l1[Min(hits)])
  IN  IF here # {} THEN WordOf(i) * WordBits + Min(here)
      ELSE IF hits = {} THEN -1
      ELSE word * WordBits + Min(l0[word])

\* Lowest set bit >= i.
NextSet(i) ==
  LET above(s, bit) == IF s = WordOf(bit) THEN {b \in l1[s] : b >= BitOf(bit)} ELSE l1[s]
      here  == {b \in l0[WordOf(i)] : b >= BitOf(i)}
      first == WordOf(i) + 1
      hits  == {s \in WordOf(first)..WordOf(Words - 1) : above(s, first) # {}}
      word  == Min(hits) * WordBits + Min(above(Min(hits), first))
  IN  IF here # {} THEN WordOf(i) * WordBits + Min(here)
      ELSE IF first >= Words \/ hits = {} THEN -1
      ELSE word * WordBits + Min(l0[word])

-----------------------------------------------------------------------------
(* Properties.                                                             *)

\* The summary has a bit exactly for the words that are not zero: a bit too few
\* hides a price level from the searches, a bit too many sends them to an empty word.
SummaryExact ==
  \A w \in 0..(Words - 1) : BitOf(w) \in l1[WordOf(w)] <=> l0[w] # {}

\* From every slot the searches find the nearest slot that was set and not
\* cleared, across words and across summary words.
SearchesFindNeighbours ==
  \A i \in BitSlot :
    /\ PrevSet(i) = Max({m \in members : m <= i} \union {-1})
    /\ NextSet(i) = LET up == {m \in members : m >= i} IN IF up = {} THEN -1 ELSE Min(up)

=============================================================================
