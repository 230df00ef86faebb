------------------------------ MODULE Dataset ------------------------------
(***************************************************************************)
(* Archives as datasets and the benchmarks that load them: stage_archive   *)
(* of src/remote/kaggle.py and load_archive of src/bench/common.py.        *)
(*                                                                         *)
(* An archive is its length and its source, an element of one of its       *)
(* arrays the archive and its place there.  The length is all that the     *)
(* loader checks, and that of the level-major arrays only.                 *)
(***************************************************************************)
EXTENDS Naturals, Sequences

CONSTANTS
  None,
  LevelMajor, OtherArray, \* LEVEL_MAJOR, and the other arrays
  Slug,                   \* datasets
  MaxLength, MaxKills     \* bounds

VARIABLES
  staged,  \* [Slug -> the archive that was staged last, or None]
  cache,   \* [array -> the file in /tmp/exchange_engine_archive, or None]
  loaded,  \* what load_archive returned last: [slug, name, elements], or None
  kills

vars == <<staged, cache, loaded, kills>>

Name == LevelMajor \cup OtherArray

Version == (1..MaxLength) \X {"real", "synthetic"}

LengthOf(v) == v[1]

Elements(v) == [i \in 1..LengthOf(v) |-> <<v, i>>]

\* The folder of a dataset is made anew.
StageArchive ==
  /\ \E s \in Slug, v \in Version : staged' = [staged EXCEPT ![s] = v]
  /\ loaded' = None
  /\ UNCHANGED <<cache, kills>>

\* An array that is in the cache and not empty is not decompressed again.
Decompress(s, a) == IF cache[a] \notin {None, <<>>} THEN cache[a] ELSE Elements(staged[s])

\* One array of a dataset; reshape raises when a level-major one has another size.
LoadArchive ==
  /\ \E s \in Slug, a \in Name :
       /\ staged[s] # None
       /\ LET elements == Decompress(s, a)
          IN  /\ cache' = [cache EXCEPT ![a] = elements]
              /\ loaded' = IF a \in LevelMajor /\ Len(elements) # LengthOf(staged[s]) THEN None
                           ELSE [slug |-> s, name |-> a, elements |-> elements]
  /\ UNCHANGED <<staged, kills>>

\* A benchmark is killed while it decompresses: a beginning of the array is there.
KillLoad ==
  /\ kills < MaxKills /\ kills' = kills + 1
  /\ \E s \in Slug, a \in Name :
       /\ staged[s] # None /\ cache[a] \in {None, <<>>}
       /\ \E n \in 0..LengthOf(staged[s]) - 1 :
            cache' = [cache EXCEPT ![a] = SubSeq(Elements(staged[s]), 1, n)]
  /\ loaded' = None
  /\ UNCHANGED staged

Init == /\ staged = [s \in Slug |-> None] /\ cache = [a \in Name |-> None]
        /\ loaded = None /\ kills = 0

Next == StageArchive \/ LoadArchive \/ KillLoad

Spec == Init /\ [][Next]_vars

-----------------------------------------------------------------------------

\* load_archive returns the arrays of the archive it is given: it "transparently
\* decompresses *.zst copies".
LoadedIsTheArchive == loaded # None => loaded.elements = Elements(staged[loaded.slug])
=============================================================================
