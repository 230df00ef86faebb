-------------------------------- MODULE Lists --------------------------------
(***************************************************************************)
(* What is done with lists of orders: adding up what they weigh, leaving   *)
(* one of them out, and comparing the order in which two list the same.    *)
(***************************************************************************)
EXTENDS Integers, SequencesExt

\* What the elements of a list weigh together.
Total(weight, list) == FoldLeft(LAMBDA sum, x : sum + weight[x], 0, list)

\* The list of all elements that are not x (a comprehension with `is not`).
Others(list, x) ==
  FoldLeft(LAMBDA kept, y : IF y = x THEN kept ELSE Append(kept, y), <<>>, list)

\* Of two elements of a list the first is listed first.
Precedes(x, y, list) ==
  \E a, b \in DOMAIN list : a < b /\ list[a] = x /\ list[b] = y

\* A level's orders are in the order of the list.
OrderedAs(level, list) ==
  \A i, j \in DOMAIN level : i < j => Precedes(level[i], level[j], list)

=============================================================================
