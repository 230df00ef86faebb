-------------------------------- MODULE Fuzz --------------------------------
(***************************************************************************)
(* ddmin of src/scripts/fuzz_engine.py: the delta debugging of a stream of *)
(* operations on which two books disagree.                                 *)
(*                                                                         *)
(* Whether a stream fails is a function of the stream, and of that nothing *)
(* else is known: dropping operations may hide the disagreement or bring   *)
(* another one out.  The model decides it when a stream is first tried.    *)
(***************************************************************************)
EXTENDS Naturals, SequencesExt

CONSTANT MaxOps   \* bound on the operations of the stream

ASSUME FuzzAssumption == MaxOps \in Nat

VARIABLES
  ops,      \* the stream so far, as positions of the first one
  cut,      \* into how many chunks it is cut
  pass,     \* "subset", "complement", "one" (at a time) or "done"
  nextPart, \* the next chunk, or the next operation
  fails,    \* streams that were tried and fail
  agrees    \* streams that were tried and do not

fuzzVars == <<ops, cut, pass, nextPart, fails, agrees>>

-----------------------------------------------------------------------------

Least(a, b) == IF a < b THEN a ELSE b
Most(a, b)  == IF a > b THEN a ELSE b

\* find_divergence(candidate) is not None.
Failing(candidate, verdict) ==
  IF verdict THEN candidate \notin agrees /\ fails' = fails \cup {candidate} /\ UNCHANGED agrees
             ELSE candidate \notin fails /\ agrees' = agrees \cup {candidate} /\ UNCHANGED fails

Size       == (Len(ops) + cut - 1) \div cut
ChunkCount == (Len(ops) + Size - 1) \div Size
Chunk(k)   == SubSeq(ops, (k - 1) * Size + 1, Least(k * Size, Len(ops)))

Complement(k) == SubSeq(ops, 1, (k - 1) * Size) \o SubSeq(ops, Least(k * Size, Len(ops)) + 1, Len(ops))
Without(k)    == SubSeq(ops, 1, k - 1) \o SubSeq(ops, k + 1, Len(ops))

\* Begin a round of the first loop over the stream s, or the pass after it.
Round(s, chunks) == ops' = s /\ cut' = chunks /\ nextPart' = 1 /\ pass' = IF Len(s) >= 2 THEN "subset" ELSE "one"

\* Reduce to a subset.
TrySubset ==
  /\ pass = "subset"
  /\ \/ Failing(Chunk(nextPart), TRUE) /\ Round(Chunk(nextPart), 2)
     \/ /\ Failing(Chunk(nextPart), FALSE)
        /\ IF nextPart < ChunkCount THEN nextPart' = nextPart + 1 /\ UNCHANGED pass ELSE nextPart' = 1 /\ pass' = "complement"
        /\ UNCHANGED <<ops, cut>>

\* Mutant: the loop ends before the chunks are single operations.
CoarseEnough == 2 * cut >= Len(ops)

FineEnough == cut >= Len(ops)

Finer == IF FineEnough THEN pass' = "one" /\ nextPart' = 1 /\ UNCHANGED <<ops, cut>>
         ELSE Round(ops, Least(2 * cut, Len(ops)))

\* Reduce to a complement, or cut finer when there is none.
TryComplement ==
  /\ pass = "complement"
  /\ LET candidate == Complement(nextPart)
         next      == IF nextPart < ChunkCount THEN nextPart' = nextPart + 1 /\ UNCHANGED <<ops, cut, pass>> ELSE Finer
     IN  \/ candidate # <<>> /\ Failing(candidate, TRUE) /\ Round(candidate, Most(cut - 1, 2))
         \/ candidate # <<>> /\ Failing(candidate, FALSE) /\ next
         \/ candidate = <<>> /\ next /\ UNCHANGED <<fails, agrees>>

DropOne(candidate) == candidate # <<>> /\ Failing(candidate, TRUE) /\ ops' = candidate /\ UNCHANGED nextPart

\* The pass over the operations, one at a time.
TryOne ==
  /\ pass = "one" /\ nextPart <= Len(ops)
  /\ \/ DropOne(Without(nextPart))
     \/ Without(nextPart) # <<>> /\ Failing(Without(nextPart), FALSE) /\ nextPart' = nextPart + 1 /\ UNCHANGED ops
     \/ Without(nextPart) = <<>> /\ nextPart' = nextPart + 1 /\ UNCHANGED <<ops, fails, agrees>>
  /\ UNCHANGED <<cut, pass>>

Return == pass = "one" /\ nextPart > Len(ops) /\ pass' = "done" /\ UNCHANGED <<ops, cut, nextPart, fails, agrees>>

\* minimize_divergence is called with a stream that was found to fail.
FuzzInit ==
  /\ ops \in {[k \in 1 .. m |-> k] : m \in 1 .. MaxOps}
  /\ fails = {ops} /\ agrees = {}
  /\ cut = 2 /\ nextPart = 1 /\ pass = IF Len(ops) >= 2 THEN "subset" ELSE "one"

FuzzNext == TrySubset \/ TryComplement \/ TryOne \/ Return

FuzzSpec == FuzzInit /\ [][FuzzNext]_fuzzVars

-----------------------------------------------------------------------------
(* Properties.                                                             *)

\* "1-minimal": what ddmin returns fails, and leaving out any one of its operations
\* was tried and does not.  The pass over single operations does not start again
\* when it drops one, so this rests on the loop before it having cut the stream
\* down to single operations.
OneMinimal ==
  pass = "done" =>
    /\ ops \in fails
    /\ \A k \in 1 .. Len(ops) : Without(k) \in agrees \cup {<<>>}
=============================================================================
