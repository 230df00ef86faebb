----------------------------- MODULE LabProofs ------------------------------
(***************************************************************************)
(* What the programs of the GPU lab leave in files is what it says it is:  *)
(* metrics.json accounts for its sections, results are those of their run, *)
(* minutes are counted once, the numbers of the documents were measured,   *)
(* what is timed as verified is right, the archive that is measured has    *)
(* what was recorded, what is timed can be compared, and the stream in a   *)
(* report of the fuzzer has no operation too many.  For any sections,      *)
(* runs, documents, kernels and logs, and wherever a program fails, is     *)
(* interrupted or killed.                                                  *)
(***************************************************************************)
EXTENDS Archive, BenchRun, RemoteJob, Documents, Ladder, Timing, TimedBlock, Fuzz, ListLemmas, FiniteSetTheorems, SequenceTheorems

(* BenchRun                                                                *)

Measurement == [by : Nat, complete : BOOLEAN]

Metrics == [by : Nat, requested : SUBSET All, finished : BOOLEAN,
            sections : [All -> Measurement \cup {None}], errors : SUBSET All]

\* The types of the state of run_all and of its files.
BenchTypeOK ==
  /\ run \in Nat
  /\ file \in Metrics /\ mem = file
  /\ todo \in Seq(All)
  /\ at \in {"idle", "made", "sections"}
  /\ childFile \in Nat \cup {None}

\* Section s of the run that file is of is there, or its error is.
Accounted(s) == (Fresh(s) /\ file.sections[s].complete) \/ s \in file.errors

\* While sections run, those not to come are accounted for.
SectionsFollow ==
  at = "sections" =>
    /\ file.by = run /\ ~file.finished
    /\ Range(todo) \subseteq file.requested
    /\ \A s \in file.requested \ {Native} : s \in Range(todo) \/ Accounted(s)

\* A file marked finished accounts for its sections, also while the next run has it.
FinishedHolds == file.finished => \A s \in file.requested \ {Native} : Accounted(s)

BenchInv == BenchTypeOK /\ SectionsFollow /\ FinishedHolds

-----------------------------------------------------------------------------

\* The rest of a list has what the list has but the head.
LEMMA RangeOfTail ==
  ASSUME NEW S, NEW s \in Seq(S), s # <<>>
  PROVE  /\ Head(s) \in Range(s) /\ Head(s) \in S
         /\ Tail(s) \in Seq(S) /\ Range(s) = {Head(s)} \cup Range(Tail(s))
<1>1. /\ Head(s) = s[1] /\ Tail(s) \in Seq(S) /\ Len(s) \in Nat /\ Len(s) >= 1
      /\ Len(Tail(s)) = Len(s) - 1
      /\ DOMAIN s = 1..Len(s) /\ DOMAIN Tail(s) = 1..(Len(s) - 1)
      /\ \A i \in 1..(Len(s) - 1) : Tail(s)[i] = s[i + 1]
  OBVIOUS
<1>2. \A i \in 1..Len(s) : i = 1 \/ (i - 1 \in 1..(Len(s) - 1) /\ s[i] = Tail(s)[i - 1])
  BY <1>1
<1>3. Range(s) \subseteq {Head(s)} \cup Range(Tail(s))
  <2>1. SUFFICES ASSUME NEW i \in 1..Len(s), i # 1 PROVE s[i] \in Range(Tail(s))
    BY <1>1 DEF Range
  <2>2. i - 1 \in DOMAIN Tail(s) /\ s[i] = Tail(s)[i - 1]
    BY <1>1, <1>2, <2>1
  <2>3. QED
    BY <2>2 DEF Range
<1>4. Range(Tail(s)) \subseteq Range(s)
  <2>1. \A i \in 1..(Len(s) - 1) : i + 1 \in 1..Len(s)
    BY <1>1
  <2>2. QED
    BY <1>1, <2>1 DEF Range
<1>5. 1 \in DOMAIN s /\ s[1] \in S
  BY <1>1
<1>6. Head(s) \in Range(s)
  BY <1>1, <1>5 DEF Range
<1>7. QED
  BY <1>1, <1>3, <1>4, <1>5, <1>6

\* Two lists one after the other have what both have.
LEMMA RangeOfConcat ==
  ASSUME NEW S, NEW s \in Seq(S), NEW t \in Seq(S)
  PROVE  s \o t \in Seq(S) /\ Range(s \o t) = Range(s) \cup Range(t)
<1>1. /\ s \o t \in Seq(S) /\ Len(s) \in Nat /\ Len(t) \in Nat /\ Len(s \o t) = Len(s) + Len(t)
      /\ DOMAIN s = 1..Len(s) /\ DOMAIN t = 1..Len(t) /\ DOMAIN (s \o t) = 1..(Len(s) + Len(t))
      /\ \A i \in 1..(Len(s) + Len(t)) : (s \o t)[i] = IF i <= Len(s) THEN s[i] ELSE t[i - Len(s)]
  OBVIOUS
<1>2. \A i \in 1..(Len(s) + Len(t)) : i \in 1..Len(s) \/ i - Len(s) \in 1..Len(t)
  BY <1>1
<1>3. Range(s \o t) \subseteq Range(s) \cup Range(t)
  BY <1>1, <1>2 DEF Range
<1>4. Range(s) \subseteq Range(s \o t)
  <2>1. \A i \in 1..Len(s) : i \in 1..(Len(s) + Len(t)) /\ (s \o t)[i] = s[i]
    BY <1>1
  <2>2. QED
    BY <1>1, <2>1 DEF Range
<1>5. Range(t) \subseteq Range(s \o t)
  <2>1. \A i \in 1..Len(t) : /\ i + Len(s) \in 1..(Len(s) + Len(t))
                             /\ ~(i + Len(s) <= Len(s)) /\ (i + Len(s)) - Len(s) = i
    BY <1>1
  <2>2. \A i \in 1..Len(t) : (s \o t)[i + Len(s)] = t[i]
    BY <1>1, <2>1
  <2>3. QED
    BY <1>1, <2>1, <2>2 DEF Range
<1>6. QED
  BY <1>1, <1>3, <1>4, <1>5

\* A list of nothing and of one element.
LEMMA RangeOfFew ==
  /\ Range(<<>>) = {}
  /\ \A x : Range(<<x>>) = {x}
<1>1. Range(<<>>) = {}
  BY DEF Range
<1>2. ASSUME NEW x PROVE Range(<<x>>) = {x}
  <2>1. DOMAIN <<x>> = {1} /\ <<x>>[1] = x
    OBVIOUS
  <2>2. QED
    BY <2>1 DEF Range
<1>3. QED
  BY <1>1, <1>2

\* A finite set has a list of its elements.
LEMMA ListOfSet ==
  ASSUME NEW A, IsFiniteSet(A)
  PROVE  SetToSeq(A) \in Seq(A) /\ Range(SetToSeq(A)) = A
<1>1. Cardinality(A) \in Nat /\ ExistsBijection(1..Cardinality(A), A)
  BY FS_CardinalityType
<1>2. PICK f : f \in Bijection(1..Cardinality(A), A)
  BY <1>1 DEF ExistsBijection
<1>3. f \in [1..Cardinality(A) -> A] /\ IsInjective(f)
  BY <1>2 DEF Bijection, Injection, IsInjective
<1>4. /\ SetToSeq(A) \in [1..Cardinality(A) -> A] /\ IsInjective(SetToSeq(A))
  BY <1>3 DEF SetToSeq
<1>5. Range(SetToSeq(A)) = A
  <2>1. SetToSeq(A) \in Injection(1..Cardinality(A), A)
    BY <1>4 DEF Injection, IsInjective
  <2>2. IsFiniteSet(1..Cardinality(A)) /\ Cardinality(1..Cardinality(A)) = Cardinality(A)
    BY <1>1, FS_Interval
  <2>3. SetToSeq(A) \in Surjection(1..Cardinality(A), A)
    BY <2>1, <2>2, FS_Injection
  <2>4. QED
    BY <1>4, <2>3 DEF Surjection, Range
<1>6. QED
  BY <1>1, <1>4, <1>5

\* The sections a run asks for are those it has to do.
LEMMA SectionsRequested ==
  ASSUME NEW requested \in SUBSET All
  PROVE  LET list == SetToSeq(requested \cap Section) \o EngineSections(requested)
         IN  list \in Seq(All) /\ Range(list) = requested
<1> DEFINE first == SetToSeq(requested \cap Section)
           last == EngineSections(requested)
<1>1. first \in Seq(requested \cap Section) /\ Range(first) = requested \cap Section
  BY BenchRunAssumption, FS_Intersection, ListOfSet
<1>2. Engine # Native /\ Engine \in All /\ Native \in All
  BY DEF Engine, Native, All
<1>3. last \in Seq(All) /\ Range(last) = requested \cap {Engine, Native}
  <2> DEFINE one == IF Engine \in requested THEN <<Engine>> ELSE <<>>
             two == IF Native \in requested THEN <<Native>> ELSE <<>>
  <2>1. last = one \o two
    BY DEF EngineSections
  <2>2. one \in Seq(All) /\ Range(one) = requested \cap {Engine}
    BY <1>2, RangeOfFew
  <2>3. two \in Seq(All) /\ Range(two) = requested \cap {Native}
    BY <1>2, RangeOfFew
  <2> HIDE DEF one, two, last
  <2>4. last \in Seq(All) /\ Range(last) = Range(one) \cup Range(two)
    BY <2>1, <2>2, <2>3, RangeOfConcat
  <2>5. QED
    BY <2>2, <2>3, <2>4
<1>4. first \in Seq(All)
  BY <1>1 DEF All
<1>5. first \o last \in Seq(All) /\ Range(first \o last) = Range(first) \cup Range(last)
  BY <1>3, <1>4, RangeOfConcat
<1>6. requested = (requested \cap Section) \cup (requested \cap {Engine, Native})
  BY DEF All
<1>7. QED
  BY <1>1, <1>3, <1>5, <1>6

-----------------------------------------------------------------------------

\* A measurement is something.
LEMMA MeasurementIs ==
  ASSUME NEW b \in Nat, NEW c \in BOOLEAN
  PROVE  LET m == [by |-> b, complete |-> c] IN m \in Measurement /\ m.by = b /\ m.complete = c /\ m # None
<1>1. [by |-> b, complete |-> c] \in [by : Nat, complete : BOOLEAN]
  OBVIOUS
<1>2. QED
  BY <1>1, BenchRunAssumption DEF Measurement

\* In the beginning there is nothing to account for.
LEMMA BenchInvInit == BenchRunInit => BenchInv
<1>1. SUFFICES ASSUME BenchRunInit PROVE BenchInv
  OBVIOUS
<1>2. Empty \in Metrics
  BY DEF Empty, Metrics
<1>3. BenchTypeOK
  BY <1>1, <1>2 DEF BenchRunInit, BenchTypeOK
<1>4. QED
  BY <1>1, <1>3 DEF BenchRunInit, BenchInv, SectionsFollow, FinishedHolds, Empty

\* A new run takes up the file as it is.
LEMMA StartKeeps == BenchInv /\ Start => BenchInv'
  BY DEF BenchInv, BenchTypeOK, SectionsFollow, FinishedHolds, Accounted, Fresh, Start, Save, Loaded

\* A run marks the file as its own and not finished, and has all of it to do.
LEMMA RequestKeeps ==
  ASSUME NEW requested \in SUBSET All, BenchInv, Request(requested)
  PROVE  BenchInv'
<1>1. /\ todo' \in Seq(All) /\ Range(todo') = requested
  BY SectionsRequested DEF Request
<1>2. /\ file' = [file EXCEPT !.by = run, !.requested = requested, !.finished = FALSE,
                                !.errors = KeptErrors(requested)]
      /\ mem' = file' /\ at' = "sections" /\ run' = run /\ childFile' = childFile
  BY DEF Request, Save, BenchInv, BenchTypeOK
<1>3. KeptErrors(requested) \in SUBSET All
  BY DEF KeptErrors, BenchInv, BenchTypeOK, Metrics
<1>4. /\ file' \in Metrics /\ file'.by = run /\ file'.requested = requested /\ ~file'.finished
  BY <1>2, <1>3 DEF BenchInv, BenchTypeOK, Metrics
<1>5. QED
  BY <1>1, <1>2, <1>4 DEF BenchInv, BenchTypeOK, SectionsFollow, FinishedHolds

\* What a section saves counts for it, and takes nothing from the others.
LEMMA SaveSectionKeeps ==
  ASSUME NEW s \in Section, NEW complete \in BOOLEAN, BenchInv, SaveSection(s, complete)
  PROVE  BenchInv'
<1>1. /\ s \in All /\ at = "sections" /\ todo # <<>> /\ s = Head(todo)
      /\ file' = [file EXCEPT !.sections[s] = Measured(complete)]
      /\ mem' = file' /\ run' = run /\ childFile' = childFile /\ todo' = todo /\ at' = at
  BY DEF SaveSection, InSections, Save, BenchInv, BenchTypeOK, All
<1>2. Measured(complete) \in Measurement
  BY DEF Measured, Measurement, BenchInv, BenchTypeOK
<1>3. /\ file' \in Metrics /\ file'.by = file.by /\ file'.requested = file.requested
      /\ file'.finished = file.finished /\ file'.errors = file.errors
      /\ \A o \in All \ {s} : file'.sections[o] = file.sections[o]
  BY <1>1, <1>2 DEF BenchInv, BenchTypeOK, Metrics
<1>4. s \in Range(todo)
  BY <1>1, RangeOfTail DEF BenchInv, BenchTypeOK
<1>5. \A o \in All \ {s} : Accounted(o) => Accounted(o)'
  BY <1>3 DEF Accounted, Fresh
<1>6. SectionsFollow'
  BY <1>1, <1>3, <1>4, <1>5 DEF BenchInv, BenchTypeOK, Metrics, SectionsFollow
<1>7. QED
  BY <1>1, <1>3, <1>6 DEF BenchInv, BenchTypeOK, SectionsFollow, FinishedHolds

\* A section that is over, with file' in place of file, is accounted for or is the C++ one.
LEMMA NextSection ==
  ASSUME BenchInv, at = "sections", todo # <<>>, NEW s, s = Head(todo),
         todo' = Tail(todo), at' = at, run' = run,
         file' \in Metrics, mem' = file', childFile' \in Nat \cup {None},
         file'.by = file.by, file'.requested = file.requested, file'.finished = file.finished,
         file.errors \subseteq file'.errors,
         \A o \in All \ {s} : file'.sections[o] = file.sections[o],
         s = Native \/ Accounted(s)'
  PROVE  BenchInv'
<1>1. /\ s \in Range(todo) /\ Tail(todo) \in Seq(All) /\ Range(todo) = {s} \cup Range(Tail(todo))
  BY RangeOfTail DEF BenchInv, BenchTypeOK
<1>2. \A o \in All \ {s} : Accounted(o) => Accounted(o)'
  BY DEF Accounted, Fresh
<1>3. SectionsFollow'
  BY <1>1, <1>2 DEF BenchInv, BenchTypeOK, Metrics, SectionsFollow
<1>4. QED
  BY <1>1, <1>3 DEF BenchInv, BenchTypeOK, SectionsFollow, FinishedHolds

\* A section returns when all of it is saved.
LEMMA SectionReturnsKeeps ==
  ASSUME NEW s \in Section, BenchInv, SectionReturns(s)
  PROVE  BenchInv'
<1>1. /\ at = "sections" /\ todo # <<>> /\ s = Head(todo) /\ file' = file /\ mem' = file'
      /\ todo' = Tail(todo) /\ at' = at /\ run' = run /\ childFile' = childFile
      /\ file.sections[s] = [by |-> run, complete |-> TRUE]
  BY DEF SectionReturns, InSections, Save, Measured, BenchInv, BenchTypeOK
<1>2. Accounted(s)'
  <2>1. file.by = run /\ file.sections[s] # None
    BY <1>1, MeasurementIs DEF BenchInv, SectionsFollow, BenchTypeOK
  <2>2. QED
    BY <1>1, <2>1 DEF Accounted, Fresh
<1>3. QED
  BY <1>1, <1>2, NextSection DEF BenchInv, BenchTypeOK

\* A section that fails is in the list of errors.
LEMMA SectionFailsKeeps ==
  ASSUME NEW s \in Section, BenchInv, SectionFails(s)
  PROVE  BenchInv'
<1>1. /\ s \in All /\ at = "sections" /\ todo # <<>> /\ s = Head(todo) /\ mem' = file'
      /\ file' = [file EXCEPT !.errors = file.errors \cup {s}]
      /\ todo' = Tail(todo) /\ at' = at /\ run' = run /\ childFile' = childFile
  BY DEF SectionFails, InSections, Save, Recorded, BenchInv, BenchTypeOK, All
<1>2. /\ file' \in Metrics /\ file'.by = file.by /\ file'.requested = file.requested
      /\ file'.finished = file.finished /\ file'.errors = file.errors \cup {s}
      /\ file'.sections = file.sections
  BY <1>1 DEF BenchInv, BenchTypeOK, Metrics
<1>3. Accounted(s)'
  BY <1>2 DEF Accounted
<1>4. QED
  BY <1>1, <1>2, <1>3, NextSection DEF BenchInv, BenchTypeOK

\* The Python engine benchmark leaves a section or an error.
LEMMA RunEngineKeeps ==
  ASSUME BenchInv, RunEngine
  PROVE  BenchInv'
<1>1. /\ Engine \in All /\ at = "sections" /\ todo # <<>> /\ Engine = Head(todo) /\ mem' = file'
      /\ todo' = Tail(todo) /\ at' = at /\ run' = run /\ childFile' = childFile
      /\ file.by = run
  BY DEF RunEngine, InSections, Save, BenchInv, BenchTypeOK, All, SectionsFollow
<1>2. \/ file' = [file EXCEPT !.sections[Engine] = Measured(TRUE)]
      \/ file' = [file EXCEPT !.errors = file.errors \cup {Engine}]
  BY DEF RunEngine, Save, Recorded, BenchInv, BenchTypeOK
<1>3. Measured(TRUE) \in Measurement /\ Measured(TRUE).by = run /\ Measured(TRUE).complete
      /\ Measured(TRUE) # None
  BY MeasurementIs DEF Measured, BenchInv, BenchTypeOK
<1>4. /\ file' \in Metrics /\ file'.by = file.by /\ file'.requested = file.requested
      /\ file'.finished = file.finished /\ file.errors \subseteq file'.errors
      /\ \A o \in All \ {Engine} : file'.sections[o] = file.sections[o]
      /\ file'.sections[Engine] = Measured(TRUE) \/ Engine \in file'.errors
  <2>1. CASE file' = [file EXCEPT !.sections[Engine] = Measured(TRUE)]
    BY <1>1, <1>3, <2>1 DEF BenchInv, BenchTypeOK, Metrics
  <2>2. CASE file' = [file EXCEPT !.errors = file.errors \cup {Engine}]
    BY <1>1, <2>2 DEF BenchInv, BenchTypeOK, Metrics
  <2>3. QED
    BY <1>2, <2>1, <2>2
<1>5. Accounted(Engine)'
  BY <1>1, <1>3, <1>4 DEF Accounted, Fresh
<1>6. QED
  BY <1>1, <1>4, <1>5, NextSection DEF BenchInv, BenchTypeOK

\* The C++ benchmark leaves a section, maybe an old one, or an error.
LEMMA RunNativeKeeps ==
  ASSUME NEW written \in BOOLEAN, BenchInv, RunNative(written)
  PROVE  BenchInv'
<1>1. /\ Native \in All /\ at = "sections" /\ todo # <<>> /\ Native = Head(todo) /\ mem' = file'
      /\ todo' = Tail(todo) /\ at' = at /\ run' = run
      /\ childFile' = IF written THEN run ELSE childFile
  BY DEF RunNative, InSections, Save, BenchInv, BenchTypeOK, All
<1>2. childFile' \in Nat \cup {None}
  BY <1>1 DEF BenchInv, BenchTypeOK
<1>3. \/ childFile' = None /\ file' = [file EXCEPT !.errors = file.errors \cup {Native}]
      \/ /\ childFile' \in Nat
         /\ file' = [file EXCEPT !.sections[Native] = [by |-> childFile', complete |-> TRUE]]
  BY <1>2 DEF RunNative, Save, Recorded, BenchInv, BenchTypeOK
<1>4. /\ file' \in Metrics /\ file'.by = file.by /\ file'.requested = file.requested
      /\ file'.finished = file.finished /\ file.errors \subseteq file'.errors
      /\ \A o \in All \ {Native} : file'.sections[o] = file.sections[o]
  <2>1. CASE childFile' = None /\ file' = [file EXCEPT !.errors = file.errors \cup {Native}]
    BY <1>1, <2>1 DEF BenchInv, BenchTypeOK, Metrics
  <2>2. CASE /\ childFile' \in Nat
             /\ file' = [file EXCEPT !.sections[Native] = [by |-> childFile', complete |-> TRUE]]
    <3>1. [by |-> childFile', complete |-> TRUE] \in Measurement
      BY <2>2 DEF Measurement
    <3>2. QED
      BY <1>1, <2>2, <3>1 DEF BenchInv, BenchTypeOK, Metrics
  <2>3. QED
    BY <1>3, <2>1, <2>2
<1>5. QED
  BY <1>1, <1>2, <1>4, NextSection DEF BenchInv, BenchTypeOK

\* A run that is finished has nothing left to do.
LEMMA FinishKeeps ==
  ASSUME BenchInv, Finish
  PROVE  BenchInv'
<1>1. /\ at = "sections" /\ todo = <<>> /\ mem' = file' /\ at' = "idle"
      /\ run' = run /\ todo' = todo /\ childFile' = childFile
      /\ file' = [file EXCEPT !.finished = TRUE]
  BY DEF Finish, Save, BenchInv, BenchTypeOK
<1>2. /\ file' \in Metrics /\ file'.by = file.by /\ file'.requested = file.requested
      /\ file'.errors = file.errors /\ file'.sections = file.sections
  BY <1>1 DEF BenchInv, BenchTypeOK, Metrics
<1>3. \A o \in All : Accounted(o) => Accounted(o)'
  BY <1>2 DEF Accounted, Fresh
<1>4. FinishedHolds'
  BY <1>1, <1>2, <1>3, RangeOfFew DEF BenchInv, BenchTypeOK, Metrics, SectionsFollow, FinishedHolds
<1>5. QED
  BY <1>1, <1>2, <1>4 DEF BenchInv, BenchTypeOK, SectionsFollow

\* A killed run leaves the file as it last saved it.
LEMMA KillKeeps ==
  ASSUME BenchInv, Kill
  PROVE  BenchInv'
  BY DEF Kill, BenchInv, BenchTypeOK, SectionsFollow, FinishedHolds, Accounted, Fresh

\* Every step keeps the invariant.
LEMMA BenchInvNext == BenchInv /\ [BenchRunNext]_benchRunVars => BenchInv'
<1>1. SUFFICES ASSUME BenchInv, [BenchRunNext]_benchRunVars PROVE BenchInv'
  OBVIOUS
<1>2. CASE UNCHANGED benchRunVars
  BY <1>1, <1>2 DEF BenchInv, BenchTypeOK, SectionsFollow, FinishedHolds, Accounted, Fresh, benchRunVars
<1>3. CASE BenchRunNext
  BY <1>1, <1>3, StartKeeps, RequestKeeps, SaveSectionKeeps, SectionReturnsKeeps, SectionFailsKeeps,
     RunEngineKeeps, RunNativeKeeps, FinishKeeps, KillKeeps DEF BenchRunNext
<1>4. QED
  BY <1>1, <1>2, <1>3

\* The invariant of runs into one directory.
THEOREM BenchRunInvariant == BenchRunSpec => []BenchInv
<1>1. QED
  BY BenchInvInit, BenchInvNext, PTL DEF BenchRunSpec

\* A run marked finished accounts for every section it was asked for: measured whole by
\* that run, or in its list of errors, whatever earlier runs left in the file.
THEOREM FinishedIsAccounted == BenchRunSpec => []FinishedAccounts
<1>1. BenchInv => FinishedAccounts
  BY DEF BenchInv, FinishedHolds, FinishedAccounts, Accounted
<1>2. QED
  BY <1>1, BenchRunInvariant, PTL

\* What a run saved is replaced only by a later measurement that was asked for, and an
\* error goes only with a run that is asked for its section again.
THEOREM NothingIsLost == BenchRunSpec => NothingLost
<1>1. BenchInv /\ [BenchRunNext]_benchRunVars => [LosesNothing]_benchRunVars
  <2>1. SUFFICES ASSUME BenchInv, BenchRunNext PROVE LosesNothing
    OBVIOUS
  <2>2. CASE file' = file
    BY <2>1, <2>2 DEF LosesNothing
  <2>3. ASSUME NEW requested \in SUBSET All, Request(requested)
        PROVE  LosesNothing
    <3>1. /\ file' = [file EXCEPT !.by = run, !.requested = requested, !.finished = FALSE,
                                    !.errors = file.errors \ requested]
      BY <2>1, <2>3 DEF Request, Save, KeptErrors, BenchInv, BenchTypeOK
    <3>2. /\ file'.sections = file.sections /\ file'.requested = requested
          /\ file'.errors = file.errors \ requested
      BY <2>1, <3>1 DEF BenchInv, BenchTypeOK, Metrics
    <3>3. QED
      BY <3>2 DEF LosesNothing
  <2>4. ASSUME NEW s \in All, NEW m, m # None, InSections(s),
               file' = [file EXCEPT !.sections[s] = m]
        PROVE  LosesNothing
    <3>1. /\ file'.requested = file.requested /\ file'.errors = file.errors
          /\ \A o \in All : file'.sections[o] = IF o = s THEN m ELSE file.sections[o]
      BY <2>1, <2>4 DEF BenchInv, BenchTypeOK, Metrics
    <3>2. s \in file.requested
      BY <2>1, <2>4, RangeOfTail DEF BenchInv, BenchTypeOK, SectionsFollow, InSections
    <3>3. QED
      BY <2>4, <3>1, <3>2 DEF LosesNothing
  <2>5. ASSUME NEW s, file' = [file EXCEPT !.errors = file.errors \cup {s}]
        PROVE  LosesNothing
    BY <2>1, <2>5 DEF LosesNothing, BenchInv, BenchTypeOK, Metrics
  <2>6. \A complete \in BOOLEAN : Measured(complete) # None
    BY <2>1, BenchRunAssumption DEF Measured, BenchInv, BenchTypeOK
  <2>7. CASE Start \/ Kill
    BY <2>1, <2>2, <2>7 DEF Start, Kill, Save, Loaded
  <2>8. CASE Finish
    <3>1. file' = [file EXCEPT !.finished = TRUE]
      BY <2>1, <2>8 DEF Finish, Save, BenchInv, BenchTypeOK
    <3>2. QED
      BY <2>1, <3>1 DEF LosesNothing, BenchInv, BenchTypeOK, Metrics
  <2>9. CASE \E s \in Section : SectionReturns(s)
    BY <2>1, <2>2, <2>9 DEF SectionReturns, Save, BenchInv, BenchTypeOK
  <2>10. CASE \E s \in Section : SectionFails(s)
    BY <2>1, <2>5, <2>10 DEF SectionFails, Save, Recorded, BenchInv, BenchTypeOK
  <2>11. CASE \E s \in Section, complete \in BOOLEAN : SaveSection(s, complete)
    BY <2>1, <2>4, <2>6, <2>11 DEF SaveSection, Save, BenchInv, BenchTypeOK, All
  <2>12. CASE RunEngine
    <3>1. InSections(Engine) /\ Engine \in All
      BY <2>12 DEF RunEngine, All
    <3>2. \/ file' = [file EXCEPT !.sections[Engine] = Measured(TRUE)]
          \/ file' = [file EXCEPT !.errors = file.errors \cup {Engine}]
      BY <2>1, <2>12 DEF RunEngine, Save, Recorded, BenchInv, BenchTypeOK
    <3>3. QED
      BY <2>4, <2>5, <2>6, <3>1, <3>2
  <2>13. ASSUME NEW written \in BOOLEAN, RunNative(written)
         PROVE  LosesNothing
    <3>1. InSections(Native) /\ Native \in All
      BY <2>13 DEF RunNative, All
    <3>2. childFile' \in Nat \cup {None}
      BY <2>1, <2>13 DEF RunNative, BenchInv, BenchTypeOK
    <3>3. \/ file' = [file EXCEPT !.errors = file.errors \cup {Native}]
          \/ /\ childFile' \in Nat
             /\ file' = [file EXCEPT !.sections[Native] = [by |-> childFile', complete |-> TRUE]]
      BY <2>1, <2>13, <3>2 DEF RunNative, Save, Recorded, BenchInv, BenchTypeOK
    <3>4. childFile' \in Nat => [by |-> childFile', complete |-> TRUE] # None
      BY MeasurementIs
    <3>5. QED
      BY <2>4, <2>5, <3>1, <3>3, <3>4
  <2>14. QED
    BY <2>1, <2>3, <2>7, <2>8, <2>9, <2>10, <2>11, <2>12, <2>13 DEF BenchRunNext
<1>2. QED
  BY <1>1, BenchRunInvariant, PTL DEF BenchRunSpec, NothingLost

-----------------------------------------------------------------------------
(* Job                                                                     *)

VersionType == [state : {"none", "queued", "running", "complete", "error"},
                card : {"T4", "P100", None}, archive : Archives \cup {None}, hashed : BOOLEAN,
                used : Nat]

\* The types of the versions and the fields of the command.
JobTypeOK ==
  /\ pushed \in Nat /\ pushed <= MaxPushes
  /\ remote \in [Version -> VersionType]
  /\ ledger = [r \in Version |-> ledger[r]]
  /\ results = [r \in Version |-> results[r]]
  /\ command = [at |-> command.at, run |-> command.run, attempt |-> command.attempt,
                t0 |-> command.t0, started |-> command.started, log |-> command.log]

\* A command that is under way has a run that was pushed.
CommandHasRun == command.at # "idle" => command.run \in 1..pushed

\* A version that was not pushed is not on Kaggle, one that completed passed its checks.
VersionsChecked ==
  \A r \in Version :
    /\ r > pushed => remote[r].state = "none"
    /\ remote[r].state = "complete" => CardPasses(remote[r]) /\ ArchivePasses(remote[r])

\* What is in results is the bundle of that run, which completed.
ResultsComplete ==
  \A r \in Version : results[r] # None => results[r] = r /\ remote[r].state = "complete"

\* A wait that polls knows what the ledger knows.
WaitKnowsStart == command.at = "poll" => command.started = ledger[command.run].running_at

JobInv == JobTypeOK /\ CommandHasRun /\ VersionsChecked /\ ResultsComplete /\ WaitKnowsStart

\* Nothing has been pushed.
LEMMA JobInvInit == JobInit => JobInv
<1>1. SUFFICES ASSUME JobInit PROVE JobInv
  OBVIOUS
<1>2. JobTypeOK
  <2>1. command = [at |-> command.at, run |-> command.run, attempt |-> command.attempt,
                   t0 |-> command.t0, started |-> command.started, log |-> command.log]
    BY <1>1 DEF JobInit, NoCommand
  <2>2. remote \in [Version -> VersionType]
    BY <1>1 DEF JobInit, NotPushed, VersionType
  <2>3. QED
    BY <1>1, <2>1, <2>2, JobAssumption DEF JobInit, JobTypeOK
<1>3. QED
  BY <1>1, <1>2 DEF JobInit, JobInv, CommandHasRun, VersionsChecked, ResultsComplete, WaitKnowsStart, NotPushed,
     NoCommand, Version

\* What ledger_update does to the row of r, and that it does nothing to the others.
LEMMA RowUpdated ==
  ASSUME JobTypeOK, NEW r \in Version, NEW fields, LedgerUpdate(r, fields)
  PROVE  /\ ledger' = [q \in Version |-> ledger'[q]]
         /\ \A q \in Version : q # r => ledger'[q] = ledger[q]
         /\ \A f \in {"pushed_at", "running_at", "gpu_minutes"} :
              ledger'[r][f] = IF f \in DOMAIN fields THEN fields[f] ELSE ledger[r][f]
<1>1. DOMAIN NoRow = {"pushed_at", "running_at", "gpu_minutes"}
  BY DEF NoRow
<1>2. QED
  BY <1>1 DEF LedgerUpdate, JobTypeOK

\* The command that the runner goes on with.
LEMMA CommandGoesTo ==
  ASSUME JobTypeOK, NEW label, CommandTo(label)
  PROVE  /\ command'.at = label
         /\ command' = [at |-> command'.at, run |-> command'.run, attempt |-> command'.attempt,
                        t0 |-> command'.t0, started |-> command'.started, log |-> command'.log]
         /\ label # "idle" => command'.run = command.run /\ command'.started = command.started
  BY DEF CommandTo, JobTypeOK, NoCommand

\* A push is of a version that was on nobody's list.
LEMMA PushKeeps ==
  ASSUME JobInv, NEW attempt, NEW hashed \in BOOLEAN, PushVersion(attempt, hashed)
  PROVE  JobInv'
<1>1. pushed + 1 \in Version /\ pushed \in Nat
  BY JobAssumption DEF PushVersion, JobInv, JobTypeOK, Version
<1>2. /\ command'.at = "record push" /\ command'.run = pushed + 1
      /\ command' = [at |-> command'.at, run |-> command'.run, attempt |-> command'.attempt,
                     t0 |-> command'.t0, started |-> command'.started, log |-> command'.log]
  BY DEF PushVersion, NoCommand
<1>3. /\ remote' \in [Version -> VersionType]
      /\ \A r \in Version : r # pushed + 1 => remote'[r] = remote[r]
      /\ remote'[pushed + 1].state = "queued"
  BY <1>1 DEF PushVersion, JobInv, JobTypeOK, VersionType
<1>4. JobTypeOK'
  <2>2. pushed' \in Nat /\ pushed' <= MaxPushes
    BY <1>1, JobAssumption DEF PushVersion, Version
  <2>3. QED
    BY <1>2, <1>3, <2>2 DEF PushVersion, JobInv, JobTypeOK
<1>5. VersionsChecked'
  BY <1>1, <1>3 DEF PushVersion, JobInv, VersionsChecked, Version
<1>6. ResultsComplete'
  BY <1>1, <1>3 DEF PushVersion, JobInv, VersionsChecked, ResultsComplete, Version
<1>7. pushed' = pushed + 1 /\ pushed + 1 \in 1..(pushed + 1)
  BY <1>1 DEF PushVersion
<1>8. CommandHasRun' /\ WaitKnowsStart'
  BY <1>2, <1>7 DEF CommandHasRun, WaitKnowsStart
<1>9. QED
  BY <1>4, <1>5, <1>6, <1>8 DEF JobInv

\* A poll that sees the job run notes the time in both places.
LEMMA SeeRunningKeeps ==
  ASSUME JobInv, SeeRunning
  PROVE  JobInv'
<1>1. command.run \in 1..pushed /\ command.run \in Version
  BY JobAssumption DEF SeeRunning, CommandAt, JobInv, CommandHasRun, JobTypeOK, Version
<1>2. ledger' = [q \in Version |-> ledger'[q]] /\ ledger'[command.run].running_at = minute
  BY <1>1, RowUpdated DEF SeeRunning, JobInv
<1>3. /\ command'.at = command.at /\ command'.run = command.run /\ command'.started = minute
      /\ command' = [at |-> command'.at, run |-> command'.run, attempt |-> command'.attempt,
                     t0 |-> command'.t0, started |-> command'.started, log |-> command'.log]
  BY DEF SeeRunning, JobInv, JobTypeOK
<1>4. QED
  BY <1>1, <1>2, <1>3 DEF SeeRunning, JobInv, JobTypeOK, CommandHasRun, VersionsChecked, ResultsComplete, WaitKnowsStart

\* The steps that write a row without the start, or none, and go on.
LEMMA GoOnKeeps ==
  ASSUME JobInv, command.at # "idle", NEW label, CommandTo(label), label # "poll",
         UNCHANGED <<pushed, remote, results>>,
         ledger' = [q \in Version |-> ledger'[q]]
  PROVE  JobInv'
<1>1. /\ command'.at = label
      /\ command' = [at |-> command'.at, run |-> command'.run, attempt |-> command'.attempt,
                     t0 |-> command'.t0, started |-> command'.started, log |-> command'.log]
      /\ label # "idle" => command'.run = command.run
  BY CommandGoesTo DEF JobInv
<1>2. QED
  BY <1>1 DEF JobInv, JobTypeOK, CommandHasRun, VersionsChecked, ResultsComplete, WaitKnowsStart

\* What is extracted is of the command's run.
LEMMA PullKeeps ==
  ASSUME JobInv, Pull
  PROVE  JobInv'
<1>1. command.run \in 1..pushed /\ command.run \in Version
  BY JobAssumption DEF Pull, CommandAt, JobInv, CommandHasRun, JobTypeOK, Version
<1>2. /\ results' = [r \in Version |-> results'[r]]
      /\ \A r \in Version : results'[r] # results[r] =>
           r = command.run /\ r = pushed /\ results'[r] = r /\ remote[r].state = "complete"
  BY <1>1 DEF Pull, OwnMembers, JobInv, JobTypeOK
<1>3. /\ command'.at \in {"idle", "check card"}
      /\ command'.at # "idle" => command'.run = command.run
      /\ command' = [at |-> command'.at, run |-> command'.run, attempt |-> command'.attempt,
                     t0 |-> command'.t0, started |-> command'.started, log |-> command'.log]
  BY DEF Pull, NoCommand, JobInv, JobTypeOK
<1>4. ResultsComplete'
  BY <1>2 DEF Pull, JobInv, ResultsComplete
<1>5. QED
  BY <1>1, <1>2, <1>3, <1>4 DEF Pull, JobInv, JobTypeOK, CommandHasRun, VersionsChecked, WaitKnowsStart

\* The commands.
LEMMA CommandKeeps ==
  ASSUME JobInv, CommandStep
  PROVE  JobInv'
<1>1. \A r \in 1..pushed : r \in Version
  BY JobAssumption DEF JobInv, JobTypeOK, Version
<1>2. CASE RunCommand \/ PushAgain
  <2>1. CASE RunCommand
    BY <2>1, PushKeeps DEF RunCommand
  <2>2. CASE PushAgain
    <3>1. command.run \in Version /\ remote \in [Version -> VersionType]
      BY <1>1, <2>2 DEF PushAgain, CommandAt, JobInv, JobTypeOK, CommandHasRun
    <3>2. remote[command.run].hashed \in BOOLEAN
      BY <3>1 DEF VersionType
    <3>3. QED
      BY <2>2, <3>2, PushKeeps DEF PushAgain
  <2>3. QED
    BY <1>2, <2>1, <2>2
<1>3. CASE WaitCommand
  <2>1. PICK r \in 1..pushed, label \in {"begin wait", "pull"} :
          command' = [NoCommand EXCEPT !.at = label, !.run = r]
    BY <1>3 DEF WaitCommand
  <2>2. command' = [at |-> label, run |-> r, attempt |-> 0, t0 |-> 0, started |-> None, log |-> None]
    BY <2>1 DEF NoCommand
  <2>3. QED
    BY <1>3, <2>2 DEF WaitCommand, JobInv, JobTypeOK, CommandHasRun, VersionsChecked, ResultsComplete, WaitKnowsStart
<1>4. CASE RecordPush
  <2>1. command.at = "record push" /\ command.run \in Version
    BY <1>1, <1>4 DEF RecordPush, CommandAt, JobInv, CommandHasRun
  <2>2. ledger' = [q \in Version |-> ledger'[q]]
    BY <1>4, <2>1, RowUpdated DEF RecordPush, JobInv
  <2>3. PICK label \in {"idle", "begin wait"} : CommandTo(label)
    BY <1>4 DEF RecordPush
  <2>4. QED
    BY <1>4, <2>1, <2>2, <2>3, GoOnKeeps DEF RecordPush
<1>5. CASE BeginWait
  <2>1. command.at = "begin wait" /\ UNCHANGED <<minute, pushed, remote, ledger, results, interrupts>>
    BY <1>5 DEF BeginWait, CommandAt
  <2>2. command' = [at |-> "poll", run |-> command.run, attempt |-> command.attempt, t0 |-> minute,
                    started |-> ledger[command.run].running_at, log |-> command.log]
    BY <1>5 DEF BeginWait, KnownStart, JobInv, JobTypeOK
  <2>3. QED
    BY <2>1, <2>2 DEF JobInv, JobTypeOK, CommandHasRun, VersionsChecked, ResultsComplete, WaitKnowsStart
<1>6. CASE SeeTerminal
  <2>1. command.at = "poll" /\ command.run \in Version
    BY <1>1, <1>6 DEF SeeTerminal, CommandAt, JobInv, CommandHasRun
  <2>2. ledger' = [q \in Version |-> ledger'[q]]
    BY <1>6, <2>1, RowUpdated DEF SeeTerminal, JobInv
  <2>3. QED
    BY <1>6, <2>1, <2>2, GoOnKeeps DEF SeeTerminal
<1>7. CASE GiveUpWaiting
  <2>1. command.at = "poll" /\ ledger' = [q \in Version |-> ledger'[q]]
    BY <1>7 DEF GiveUpWaiting, CommandAt, JobInv, JobTypeOK
  <2>2. PICK label \in {"idle", "pull"} : CommandTo(label)
    BY <1>7 DEF GiveUpWaiting
  <2>3. QED
    BY <1>7, <2>1, <2>2, GoOnKeeps DEF GiveUpWaiting
<1>8. CASE CheckCard
  <2>1. command.at = "check card" /\ ledger' = [q \in Version |-> ledger'[q]]
    BY <1>8 DEF CheckCard, CommandAt, JobInv, JobTypeOK
  <2>2. PICK label \in {"push again", "idle"} : CommandTo(label)
    BY <1>8 DEF CheckCard
  <2>3. QED
    BY <1>8, <2>1, <2>2, GoOnKeeps DEF CheckCard
<1>9. CASE StopCommand
  BY <1>9 DEF StopCommand, NoCommand, JobInv, JobTypeOK, CommandHasRun, VersionsChecked, ResultsComplete, WaitKnowsStart
<1>10. QED
  BY <1>2, <1>3, <1>4, <1>5, <1>6, <1>7, <1>8, <1>9, SeeRunningKeeps, PullKeeps DEF CommandStep

\* A version that runs gets its card and its archive before it begins, and completes
\* only with the right ones.
LEMMA KernelKeeps ==
  ASSUME JobInv, NEW v \in Version, StartKernel(v) \/ EndKernel(v)
  PROVE  JobInv'
<1>1. /\ remote' \in [Version -> VersionType]
      /\ \A r \in Version : r # v => remote'[r] = remote[r]
      /\ remote[v].state \in {"queued", "running"}
      /\ remote'[v].state = "complete" => CardPasses(remote'[v]) /\ ArchivePasses(remote'[v])
      /\ remote'[v].state # "none"
  <2>1. CASE StartKernel(v)
    <3>1. PICK card \in {"T4", "P100"}, archive \in Archives :
            remote' = [remote EXCEPT ![v].state = "running", ![v].card = card, ![v].archive = archive]
      BY <2>1 DEF StartKernel
    <3>2. remote[v] \in VersionType
      BY DEF JobInv, JobTypeOK
    <3>3. /\ remote'[v] \in VersionType /\ remote'[v].state = "running"
          /\ \A r \in Version : r # v => remote'[r] = remote[r]
          /\ remote' = [r \in Version |-> remote'[r]]
      BY <3>1, <3>2 DEF JobInv, JobTypeOK, VersionType
    <3>4. QED
      BY <2>1, <3>3 DEF StartKernel, JobInv, JobTypeOK
  <2>2. CASE EndKernel(v)
    <3>1. PICK state \in IF Checks(remote[v]) = "go" THEN Terminal ELSE {"error"} :
            remote' = [remote EXCEPT ![v].state = state]
      BY <2>2 DEF EndKernel
    <3>2. /\ remote'[v] \in VersionType /\ remote'[v].state = state
          /\ remote'[v].card = remote[v].card /\ remote'[v].archive = remote[v].archive
          /\ remote'[v].hashed = remote[v].hashed
          /\ \A r \in Version : r # v => remote'[r] = remote[r]
          /\ remote' = [r \in Version |-> remote'[r]]
      <4>1. remote[v] \in VersionType /\ state \in {"complete", "error"}
        BY <3>1 DEF JobInv, JobTypeOK, Terminal
      <4>2. /\ \A r \in Version : remote'[r] = IF r = v THEN [remote[v] EXCEPT !.state = state] ELSE remote[r]
        BY <3>1 DEF JobInv, JobTypeOK
      <4>3. remote' = [r \in Version |-> remote'[r]]
        BY <3>1 DEF JobInv, JobTypeOK
      <4>4. QED
        BY <4>1, <4>2, <4>3 DEF VersionType
    <3>3. Checks(remote[v]) = "go" => CardPasses(remote[v]) /\ ArchivePasses(remote[v])
      BY DEF Checks
    <3>4. CardPasses(remote[v]) /\ ArchivePasses(remote[v]) => CardPasses(remote'[v]) /\ ArchivePasses(remote'[v])
      BY <3>2 DEF CardPasses, ArchivePasses
    <3>5. QED
      BY <2>2, <3>1, <3>2, <3>3, <3>4 DEF EndKernel, JobInv, JobTypeOK, Terminal
  <2>3. QED
    BY <2>1, <2>2
<1>2. UNCHANGED <<minute, pushed, ledger, results, command, interrupts>>
  BY DEF StartKernel, EndKernel, NotRemote
<1>4. JobTypeOK'
  BY <1>1, <1>2 DEF JobInv, JobTypeOK
<1>5. VersionsChecked'
  BY <1>1, <1>2 DEF JobInv, VersionsChecked
<1>6. ResultsComplete'
  BY <1>1, <1>2 DEF JobInv, ResultsComplete
<1>7. QED
  BY <1>2, <1>4, <1>5, <1>6 DEF JobInv, CommandHasRun, WaitKnowsStart

\* Time passes for the versions that run.
LEMMA TickKeeps ==
  ASSUME JobInv, JobTick
  PROVE  JobInv'
<1>1. \A r \in Version : /\ remote'[r] \in VersionType
                         /\ remote'[r].state = remote[r].state /\ remote'[r].card = remote[r].card
                         /\ remote'[r].archive = remote[r].archive /\ remote'[r].hashed = remote[r].hashed
  BY DEF JobTick, JobInv, JobTypeOK, VersionType
<1>2. remote' \in [Version -> VersionType]
  BY <1>1 DEF JobTick
<1>3. JobTypeOK'
  BY <1>2 DEF JobTick, JobInv, JobTypeOK
<1>4. QED
  BY <1>1, <1>3 DEF JobTick, JobInv, CommandHasRun, VersionsChecked, CardPasses, ArchivePasses, ResultsComplete,
                    WaitKnowsStart

\* Every step keeps the invariant.
LEMMA JobInvNext == JobInv /\ [JobNext]_jobVars => JobInv'
<1>1. SUFFICES ASSUME JobInv, [JobNext]_jobVars PROVE JobInv'
  OBVIOUS
<1>2. CASE UNCHANGED jobVars
  BY <1>1, <1>2 DEF jobVars, JobInv, JobTypeOK, CommandHasRun, VersionsChecked, ResultsComplete, WaitKnowsStart
<1>3. QED
  BY <1>1, <1>2, CommandKeeps, KernelKeeps, TickKeeps DEF JobNext

\* The invariant of the jobs.
THEOREM JobInvariant == JobSpec => []JobInv
<1>1. QED
  BY JobInvInit, JobInvNext, PTL DEF JobSpec

\* Whatever is pushed, replaced, waited for, interrupted and pulled again: the results
\* of a run are its own, measured on a T4 and on an archive of the source it asked for,
\* and on the archive with the content hash it asked for, where it asked for one.
THEOREM ResultsAreVouched == JobSpec => []ResultsVouched
<1>1. JobInv => ResultsVouched
  BY DEF JobInv, ResultsComplete, VersionsChecked, CardPasses, ArchivePasses, ResultsVouched
<1>2. QED
  BY <1>1, JobInvariant, PTL

\* The time a run was first seen running is never written again, and its minutes are
\* counted from there, by whichever wait sees its end.
THEOREM MinutesAreCounted == JobSpec => MinutesFromFirstSight
<1>1. JobInv /\ [JobNext]_jobVars => [CountsFromFirstSight]_jobVars
  <2>1. SUFFICES ASSUME JobInv, JobNext, NEW r \in Version, ledger[r].running_at # None
                 PROVE  /\ ledger'[r].running_at = ledger[r].running_at
                        /\ ledger'[r].gpu_minutes # ledger[r].gpu_minutes =>
                             ledger'[r].gpu_minutes = minute - ledger[r].running_at
    BY DEF CountsFromFirstSight
  <2>2. CASE ledger' = ledger
    BY <2>2
  <2>3. ASSUME ~CommandAt("idle") PROVE command.run \in Version
    BY <2>1, <2>3, JobAssumption DEF CommandAt, JobInv, CommandHasRun, JobTypeOK, Version
  <2>4. CASE RecordPush
    <3>1. command.run \in Version /\ LedgerUpdate(command.run, [pushed_at |-> minute])
      BY <2>3, <2>4 DEF RecordPush, CommandAt
    <3>2. DOMAIN [pushed_at |-> minute] = {"pushed_at"}
      OBVIOUS
    <3>3. /\ ledger'[command.run].running_at = ledger[command.run].running_at
          /\ ledger'[command.run].gpu_minutes = ledger[command.run].gpu_minutes
          /\ \A q \in Version : q # command.run => ledger'[q] = ledger[q]
      BY <2>1, <3>1, <3>2, RowUpdated DEF JobInv
    <3>4. QED
      BY <3>3
  <2>5. CASE SeeRunning
    <3>1. command.run \in Version /\ ledger[command.run].running_at = None
      BY <2>1, <2>3, <2>5 DEF SeeRunning, CommandAt, JobInv, WaitKnowsStart
    <3>2. \A q \in Version : q # command.run => ledger'[q] = ledger[q]
      BY <2>1, <2>5, <3>1, RowUpdated DEF SeeRunning, JobInv
    <3>3. QED
      BY <2>1, <3>1, <3>2
  <2>6. CASE SeeTerminal
    <3>1. command.run \in Version /\ LedgerUpdate(command.run, [gpu_minutes |-> minute - CountFrom])
      BY <2>3, <2>6 DEF SeeTerminal, CommandAt
    <3>2. /\ DOMAIN [gpu_minutes |-> minute - CountFrom] = {"gpu_minutes"}
          /\ [gpu_minutes |-> minute - CountFrom].gpu_minutes = minute - CountFrom
      OBVIOUS
    <3>3. /\ ledger'[command.run].running_at = ledger[command.run].running_at
          /\ ledger'[command.run].gpu_minutes = minute - CountFrom
          /\ \A q \in Version : q # command.run => ledger'[q] = ledger[q]
      BY <2>1, <3>1, <3>2, RowUpdated DEF JobInv
    <3>4. r = command.run => CountFrom = ledger[r].running_at
      BY <2>1, <2>6 DEF SeeTerminal, CommandAt, CountFrom, JobInv, WaitKnowsStart
    <3>5. QED
      BY <3>3, <3>4
  <2>7. QED
    BY <2>1, <2>2, <2>4, <2>5, <2>6 DEF JobNext, CommandStep, RunCommand, WaitCommand, BeginWait, GiveUpWaiting, Pull,
       CheckCard, PushAgain, PushVersion, StopCommand, JobTick, StartKernel, EndKernel, NotRemote
<1>2. QED
  BY <1>1, JobInvariant, PTL DEF JobSpec, MinutesFromFirstSight

-----------------------------------------------------------------------------
(* Documents                                                               *)

\* Full runs of rs measured n, in a section that d is about, or d counts n over some.
FullIn(rs) == {i \in DOMAIN rs : rs[i].kind = "full"}
SectionIn(d, n, rs) == \E i \in FullIn(rs), s \in SectionsOf[d] : rs[i].sections[s] = n
CountedIn(d, n, rs) == \E several \in SUBSET FullIn(rs) : n \in CountsOf(d, [i \in several |-> rs[i]])

\* What full runs of rs measured, and the numbers of the headings of d that it gives.
TopicsIn(rs) == {s \in Topic : \E i \in FullIn(rs) : rs[i].sections[s] # None}
HeadingIn(d, n, rs) == \E topics \in SUBSET TopicsIn(rs) : n \in HeadingsOf[d][topics]

AccountedIn(d, n, rs) == SectionIn(d, n, rs) \/ CountedIn(d, n, rs) \/ HeadingIn(d, n, rs)

\* Token x is accounted for in its document; where it names none, in some.
TracedIn(x, rs) ==
  IF x.doc = None THEN \E d \in Document : AccountedIn(d, x.token, rs) ELSE AccountedIn(x.doc, x.token, rs)

\* The types of the runs and of what is rendered, whose tokens are traced.
RunType == [kind : Kind, sections : [Topic -> Number \cup {None}]]

RunsTypeOK == runs \in Seq(RunType)

ProvenanceTraced == prov # None => \A x \in prov : TracedIn(x, runs)

PendingTraced == pending # None => \A x \in pending.prov : TracedIn(x, runs)

DocumentsInv == RunsTypeOK /\ ProvenanceTraced /\ PendingTraced

\* What a document reads from a section was measured for it: it is of the latest run
\* that has the section.
LEMMA FormattedIsMeasured ==
  ASSUME RunsTypeOK, NEW d \in Document
  PROVE  \A x \in FormattedTokens(d) : SectionIn(d, x.token, runs)
<1>1. SUFFICES ASSUME NEW s \in SectionsOf[d], Having(s) # {}
               PROVE  SectionIn(d, runs[Max(Having(s))].sections[s], runs)
  BY DEF FormattedTokens, Rendered
<1>2. Having(s) \in SUBSET (1..Len(runs)) /\ Len(runs) \in Nat
  BY DEF Having, Gpu, RunsTypeOK
<1>3. Max(Having(s)) \in Having(s)
  BY <1>1, <1>2, GreatestNatural
<1>4. QED
  BY <1>1, <1>3 DEF SectionIn, FullIn, Having, Gpu, Usable

\* The tokens of a document are accounted for in it when they are recorded.
LEMMA TokensAccounted ==
  ASSUME RunsTypeOK, NEW d \in Document, NEW x \in TokensOf(d)
  PROVE  x.doc = d /\ AccountedIn(d, x.token, runs)
<1>1. CASE x \in FormattedTokens(d)
  <2>1. x.doc = d
    BY <1>1 DEF FormattedTokens
  <2>2. QED
    BY <1>1, <2>1, FormattedIsMeasured DEF AccountedIn
<1>2. CASE x \in CountTokens(d)
  <2>1. Gpu \in SUBSET FullIn(runs)
    BY DEF Gpu, Usable, FullIn
  <2>2. x.doc = d /\ x.token \in CountsOf(d, [i \in Gpu |-> runs[i]])
    BY <1>2 DEF CountTokens
  <2>3. CountedIn(d, x.token, runs)
    BY <2>1, <2>2 DEF CountedIn
  <2>4. QED
    BY <2>2, <2>3 DEF AccountedIn
<1>3. CASE x \in HeadingTokens(d)
  <2>1. x.doc = d /\ x.token \in HeadingsOf[d][Rendered]
    BY <1>3 DEF HeadingTokens
  <2>2. Rendered \in SUBSET TopicsIn(runs)
    BY DEF Rendered, TopicsIn, FullIn, Having, Gpu, Usable
  <2>3. QED
    BY <2>1, <2>2 DEF AccountedIn, HeadingIn
<1>4. QED
  BY <1>1, <1>2, <1>3 DEF TokensOf, TextTokens

\* They are traced, then.
LEMMA TokensTraced ==
  ASSUME RunsTypeOK, NEW d \in Document
  PROVE  \A x \in TokensOf(d) : TracedIn(x, runs)
<1>1. d # None
  BY DocumentsAssumption
<1>2. QED
  BY <1>1, TokensAccounted DEF TracedIn

\* What is traced stays traced: runs are only added to the directory.
LEMMA MoreRuns ==
  ASSUME RunsTypeOK, NEW added \in RunType, NEW x, TracedIn(x, runs)
  PROVE  TracedIn(x, Append(runs, added))
<1> DEFINE more == Append(runs, added)
<1>1. DOMAIN runs \subseteq DOMAIN more /\ \A i \in DOMAIN runs : more[i] = runs[i]
  BY DEF RunsTypeOK
<1>2. FullIn(runs) \subseteq FullIn(more) /\ \A i \in FullIn(runs) : more[i] = runs[i]
  BY <1>1 DEF FullIn
<1>3. ASSUME NEW d, NEW n, AccountedIn(d, n, runs) PROVE AccountedIn(d, n, more)
  <2>1. CASE SectionIn(d, n, runs)
    <3>1. SectionIn(d, n, more)
      BY <1>2, <2>1 DEF SectionIn
    <3>2. QED
      BY <3>1 DEF AccountedIn
  <2>2. CASE CountedIn(d, n, runs)
    <3>1. PICK several \in SUBSET FullIn(runs) : n \in CountsOf(d, [i \in several |-> runs[i]])
      BY <2>2 DEF CountedIn
    <3>2. [i \in several |-> more[i]] = [i \in several |-> runs[i]]
      BY <1>2
    <3>3. CountedIn(d, n, more)
      BY <1>2, <3>1, <3>2 DEF CountedIn
    <3>4. QED
      BY <3>3 DEF AccountedIn
  <2>3. CASE HeadingIn(d, n, runs)
    <3>1. TopicsIn(runs) \subseteq TopicsIn(more)
      BY <1>2 DEF TopicsIn
    <3>2. HeadingIn(d, n, more)
      BY <2>3, <3>1 DEF HeadingIn
    <3>3. QED
      BY <3>2 DEF AccountedIn
  <2>4. QED
    BY <1>3, <2>1, <2>2, <2>3 DEF AccountedIn
<1>4. QED
  BY <1>3 DEF TracedIn

\* Every step keeps the invariant.
LEMMA DocumentsInvNext == DocumentsInv /\ [DocumentsNext]_documentsVars => DocumentsInv'
<1>1. SUFFICES ASSUME DocumentsInv, [DocumentsNext]_documentsVars PROVE DocumentsInv'
  OBVIOUS
<1>2. CASE UNCHANGED <<runs, prov, pending>>
  BY <1>1, <1>2 DEF DocumentsInv, RunsTypeOK, ProvenanceTraced, PendingTraced
<1>3. CASE AddRun
  <2>1. PICK added \in RunType : runs' = Append(runs, added)
    <3>1. PICK kind \in Kind, sections \in [Topic -> Number \cup {None}] :
            runs' = Append(runs, [kind |-> kind, sections |-> sections])
      BY <1>3 DEF AddRun
    <3>2. [kind |-> kind, sections |-> sections] \in RunType
      BY DEF RunType
    <3>3. QED
      BY <3>1, <3>2
  <2>2. RunsTypeOK'
    BY <1>1, <2>1 DEF DocumentsInv, RunsTypeOK
  <2>3. UNCHANGED <<prov, pending>>
    BY <1>3 DEF AddRun
  <2>4. ProvenanceTraced'
    BY <1>1, <2>1, <2>3, MoreRuns DEF DocumentsInv, ProvenanceTraced
  <2>5. PendingTraced'
    BY <1>1, <2>1, <2>3, MoreRuns DEF DocumentsInv, PendingTraced
  <2>6. QED
    BY <2>2, <2>4, <2>5 DEF DocumentsInv
<1>4. CASE Render
  <2>1. pending'.prov = UNION {TokensOf(d) : d \in Document} /\ UNCHANGED <<runs, prov>>
    BY <1>4 DEF Render
  <2>2. \A x \in pending'.prov : TracedIn(x, runs)
    BY <1>1, <2>1, TokensTraced DEF DocumentsInv
  <2>3. QED
    BY <1>1, <2>1, <2>2 DEF DocumentsInv, RunsTypeOK, ProvenanceTraced, PendingTraced
<1>5. CASE WriteDocument
  <2>1. PICK d \in pending.write : pending' = [pending EXCEPT !.write = @ \ {d}]
    BY <1>5 DEF WriteDocument
  <2>2. pending'.prov = pending.prov /\ pending # None /\ UNCHANGED <<runs, prov>>
    BY <1>5, <2>1 DEF WriteDocument
  <2>3. QED
    BY <1>1, <2>2 DEF DocumentsInv, RunsTypeOK, ProvenanceTraced, PendingTraced
<1>6. CASE WriteProvenance
  BY <1>1, <1>6 DEF WriteProvenance, DocumentsInv, RunsTypeOK, ProvenanceTraced, PendingTraced
<1>7. CASE KillRender
  BY <1>1, <1>7 DEF KillRender, DocumentsInv, RunsTypeOK, ProvenanceTraced, PendingTraced
<1>8. QED
  BY <1>1, <1>2, <1>3, <1>4, <1>5, <1>6, <1>7 DEF DocumentsNext, documentsVars, Edit

\* Both repositories one starts from have traced numbers.
LEMMA DocumentsInvInit == DocumentsInit => DocumentsInv
<1>1. SUFFICES ASSUME DocumentsInit PROVE DocumentsInv
  OBVIOUS
<1>2. PendingTraced
  BY <1>1 DEF DocumentsInit, PendingTraced
<1>3. CASE NothingRendered
  BY <1>2, <1>3 DEF NothingRendered, DocumentsInv, RunsTypeOK, ProvenanceTraced
<1>4. CASE RenderedUntagged
  <2>1. PICK sections \in [Topic -> Number \cup {None}] : runs = <<[kind |-> "full", sections |-> sections]>>
    BY <1>4 DEF RenderedUntagged
  <2>2. [kind |-> "full", sections |-> sections] \in RunType
    BY DEF RunType, Kind
  <2>3. RunsTypeOK
    BY <2>1, <2>2 DEF RunsTypeOK
  <2>4. ASSUME NEW d \in Document, NEW y \in TokensOf(d)
        PROVE  TracedIn([y EXCEPT !.doc = None], runs)
    <3>1. /\ [y EXCEPT !.doc = None].doc = None
          /\ [y EXCEPT !.doc = None].token = y.token
      BY <2>4 DEF TokensOf, TextTokens, FormattedTokens, CountTokens, HeadingTokens
    <3>2. AccountedIn(d, y.token, runs)
      BY <2>3, <2>4, TokensAccounted
    <3>3. QED
      BY <3>1, <3>2 DEF TracedIn
  <2>5. ProvenanceTraced
    BY <1>4, <2>4 DEF RenderedUntagged, ProvenanceTraced
  <2>6. QED
    BY <1>2, <2>3, <2>5 DEF DocumentsInv
<1>5. QED
  BY <1>1, <1>3, <1>4 DEF DocumentsInit

\* The invariant of the documents.
THEOREM DocumentsInvariant == DocumentsSpec => []DocumentsInv
<1>1. QED
  BY DocumentsInvInit, DocumentsInvNext, PTL DEF DocumentsSpec

\* For any runs, sections, headings and documents, whatever a document counts, whoever
\* edits and whichever render stops where: when the check passes, every number of every
\* document was measured by a full run, in a section the document is about, or counted
\* over such runs, or numbers a heading of that document; a number whose provenance names
\* no document is accounted for in some.
THEOREM NumbersAreTraced == DocumentsSpec => []NumbersTraced
<1>1. ASSUME NEW d, NEW n, AccountedIn(d, n, runs) PROVE IsTraced(d, n)
  <2>1. FullIn(runs) = FullRuns
    BY DEF FullIn, FullRuns
  <2>2. SectionIn(d, n, runs) => MeasuredFor(d, n)
    BY <2>1 DEF SectionIn, MeasuredFor
  <2>3. CountedIn(d, n, runs) => MeasuredFor(d, n)
    BY <2>1 DEF CountedIn, MeasuredFor
  <2>4. HeadingIn(d, n, runs) => NumbersHeading(d, n)
    BY <2>1 DEF HeadingIn, TopicsIn, NumbersHeading
  <2>5. QED
    BY <1>1, <2>2, <2>3, <2>4 DEF AccountedIn, IsTraced
<1>2. DocumentsInv => NumbersTraced
  <2>1. SUFFICES ASSUME DocumentsInv, CheckPasses, NEW d \in Document, NEW n \in NumbersIn(d)
                 PROVE  \/ IsTraced(d, n)
                        \/ (\E x \in prov : x.token = n /\ x.doc = None) /\ \E other \in Document : IsTraced(other, n)
    BY DEF NumbersTraced
  <2>2. PICK x \in prov : x.token = n /\ x.doc \in {None, d}
    BY <2>1 DEF CheckPasses, Sources
  <2>3. TracedIn(x, runs)
    BY <2>1, <2>2 DEF CheckPasses, DocumentsInv, ProvenanceTraced
  <2>4. CASE x.doc = None
    BY <1>1, <2>2, <2>3, <2>4 DEF TracedIn
  <2>5. CASE x.doc # None
    BY <1>1, <2>2, <2>3, <2>5 DEF TracedIn
  <2>6. QED
    BY <2>4, <2>5
<1>3. QED
  BY <1>2, DocumentsInvariant, PTL

-----------------------------------------------------------------------------
(* Ladder                                                                  *)

\* Kernel k writes every output, and writes it right.
Right(k) == \A o \in Output : effect[k][o] = "right"

\* Of the kernels of ks those that are right are verified.
Checked(ks) == \A k \in ks : Right(k) => k \in verified

\* The types of what the phases choose.
LadderTypeOK ==
  /\ v4 \in Config
  /\ triton \in Triton \cup {None}

\* How far the rungs are verified, and in which phase v4 and the Triton rung are.
RungsChecked ==
  IF phase = "rungs" THEN unverified \in 1..(Len(Rung) + 1) /\ Checked({Rung[i] : i \in 1..(unverified - 1)})
  ELSE Checked(Range(Rung))

V4Checked == phase \in {"triton", "triton configs", "time", "saved"} => Checked({v4})

TritonChecked ==
  /\ phase \in {"rungs", "sweep", "best", "triton", "triton configs"} => triton = None
  /\ triton # None => triton \in verified

SavedIsTimed ==
  IF phase = "saved" THEN saved = [k \in Timed |-> k \in verified] ELSE saved = None

LadderInv ==
  /\ phase \in {"rungs", "sweep", "best", "triton", "triton configs", "time", "saved"}
  /\ \A k \in verified : Right(k)
  /\ LadderTypeOK /\ RungsChecked /\ V4Checked /\ TritonChecked /\ SavedIsTimed

\* A kernel that is verified over poisoned buffers passes if and only if it is right, and
\* costs no other kernel its place.
LEMMA VerifyDecides ==
  ASSUME NEW k, Verify(k), UNCHANGED effect
  PROVE  /\ Right(k) => verified' = verified \cup {k}
         /\ ~Right(k) => verified' = verified \ {k}
         /\ \A j : Right(j)' = Right(j)
<1>1. buffers' = [o \in Output |-> IF effect[k][o] = "kept" THEN "poison" ELSE effect[k][o]]
  BY DEF Verify, Launched, Poisoned
<1>2. Compare(buffers') <=> Right(k)
  BY <1>1 DEF Compare, Right
<1>3. QED
  BY <1>2 DEF Verify, Right

\* So what was checked stays checked, and k is.
LEMMA CheckedGrows ==
  ASSUME NEW k, Verify(k), UNCHANGED effect, \A j \in verified : Right(j)
  PROVE  /\ \A j \in verified' : Right(j)'
         /\ \A j : (Right(j) => j \in verified) => (Right(j)' => j \in verified')
         /\ Right(k)' => k \in verified'
  BY VerifyDecides

\* Nothing is verified yet.
LEMMA LadderInvInit == LadderInit => LadderInv
<1>1. SUFFICES ASSUME LadderInit PROVE LadderInv
  OBVIOUS
<1>2. v4 \in Config
  BY <1>1, LadderAssumption DEF LadderInit
<1>3. unverified \in 1..(Len(Rung) + 1) /\ 1..(unverified - 1) = {}
  BY <1>1, LadderAssumption DEF LadderInit
<1>4. QED
  BY <1>1, <1>2, <1>3 DEF LadderInit, LadderInv, LadderTypeOK, RungsChecked, V4Checked, TritonChecked, SavedIsTimed, Checked

\* The rungs one by one, v4 as it begins at the end.
LEMMA VerifyRungKeeps ==
  ASSUME LadderInv, VerifyRung
  PROVE  LadderInv'
<1> DEFINE names == Append(Rung, v4)
<1>0. PICK k : k = names[unverified]
  OBVIOUS
<1>1. /\ phase = "rungs" /\ Verify(k) /\ UNCHANGED <<effect, available, v4, triton, saved>>
      /\ unverified \in 1..(Len(Rung) + 1) /\ Len(Rung) \in Nat /\ Len(names) = Len(Rung) + 1
  BY <1>0, LadderAssumption DEF VerifyRung, LadderInv, RungsChecked
<1>2. /\ \A j \in verified' : Right(j)'
      /\ \A j : (Right(j) => j \in verified) => (Right(j)' => j \in verified')
      /\ Right(k)' => k \in verified'
  BY <1>1, CheckedGrows DEF LadderInv
<1>3. \A i \in 1..Len(Rung) : names[i] = Rung[i]
  BY LadderAssumption
<1>4. \A i \in 1..unverified : i <= Len(Rung) => (Right(Rung[i])' => Rung[i] \in verified')
  <2>1. SUFFICES ASSUME NEW i \in 1..unverified, i <= Len(Rung) PROVE Right(Rung[i])' => Rung[i] \in verified'
    OBVIOUS
  <2>2. CASE i = unverified
    BY <1>0, <1>1, <1>2, <1>3, <2>1, <2>2
  <2>3. CASE i # unverified
    <3>1. i \in 1..(unverified - 1)
      BY <1>1, <2>3
    <3>2. Right(Rung[i]) => Rung[i] \in verified
      BY <1>1, <3>1 DEF LadderInv, RungsChecked, Checked
    <3>3. QED
      BY <1>2, <3>2
  <2>4. QED
    BY <2>2, <2>3
<1>5. CASE unverified < Len(names)
  <2>1. unverified' = unverified + 1 /\ phase' = "rungs"
    BY <1>1, <1>5 DEF VerifyRung
  <2>2. RungsChecked'
    <3>1. unverified' \in 1..(Len(Rung) + 1) /\ 1..(unverified' - 1) = 1..unverified /\ unverified <= Len(Rung)
      BY <1>1, <1>5, <2>1
    <3>2. \A i \in 1..unverified : Right(Rung[i])' => Rung[i] \in verified'
      BY <1>1, <1>4, <3>1
    <3>3. QED
      BY <2>1, <3>1, <3>2 DEF RungsChecked, Checked
  <2>3. QED
    BY <1>1, <1>2, <2>1, <2>2 DEF LadderInv, LadderTypeOK, V4Checked, TritonChecked, SavedIsTimed
<1>6. CASE ~(unverified < Len(names))
  <2>1. phase' = "sweep"
    BY <1>1, <1>6 DEF VerifyRung
  <2>2. Range(Rung) = {Rung[i] : i \in 1..Len(Rung)}
    BY LadderAssumption DEF Range
  <2>3. RungsChecked'
    <3>1. \A i \in 1..Len(Rung) : Right(Rung[i])' => Rung[i] \in verified'
      BY <1>1, <1>4, <1>6
    <3>2. QED
      BY <2>1, <2>2, <3>1 DEF RungsChecked, Checked
  <2>4. QED
    BY <1>1, <1>2, <2>1, <2>3 DEF LadderInv, LadderTypeOK, V4Checked, TritonChecked, SavedIsTimed
<1>7. QED
  BY <1>5, <1>6

\* A configuration that is verified later takes nothing away from those before.
LEMMA VerifyConfigKeeps ==
  ASSUME LadderInv, VerifyBest \/ VerifyTriton
  PROVE  LadderInv'
<1>1. PICK k : Verify(k) /\ (VerifyBest => k = v4)
  BY DEF VerifyBest, VerifyTriton
<1>2. UNCHANGED <<effect, available, v4, triton, saved>>
  BY DEF VerifyBest, VerifyTriton
<1>3. /\ \A j \in verified' : Right(j)'
      /\ \A j : (Right(j) => j \in verified) => (Right(j)' => j \in verified')
      /\ Right(k)' => k \in verified'
  BY <1>1, <1>2, CheckedGrows DEF LadderInv
<1>4. CASE VerifyBest
  <2>1. phase = "best" /\ phase' = "triton" /\ k = v4 /\ v4' = v4
    BY <1>1, <1>2, <1>4 DEF VerifyBest
  <2>2. RungsChecked' /\ V4Checked'
    BY <1>3, <2>1 DEF LadderInv, RungsChecked, V4Checked, Checked
  <2>3. QED
    BY <1>2, <1>3, <2>1, <2>2 DEF LadderInv, LadderTypeOK, TritonChecked, SavedIsTimed
<1>5. CASE VerifyTriton
  <2>1. phase = "triton configs" /\ phase' = phase /\ v4' = v4
    BY <1>2, <1>5 DEF VerifyTriton
  <2>2. RungsChecked' /\ V4Checked'
    BY <1>3, <2>1 DEF LadderInv, RungsChecked, V4Checked, Checked
  <2>3. QED
    BY <1>2, <1>3, <2>1, <2>2 DEF LadderInv, LadderTypeOK, TritonChecked, SavedIsTimed
<1>6. QED
  BY <1>4, <1>5

\* The sweeps choose, the Triton rung may fail, and what is timed is saved.
LEMMA ChooseKeeps ==
  ASSUME LadderInv, Sweep \/ BeginTriton \/ SweepTriton \/ TritonFails \/ TimeAndSave
  PROVE  LadderInv'
<1>1. UNCHANGED <<effect, verified>>
  BY DEF Sweep, BeginTriton, SweepTriton, TritonFails, TimeAndSave
<1>2. \A ks : Checked(ks) => Checked(ks)'
  BY <1>1 DEF Checked, Right
<1>3. \A j \in verified' : Right(j)'
  BY <1>1 DEF LadderInv, Right
<1>4. CASE Sweep
  BY <1>2, <1>3, <1>4 DEF Sweep, LadderInv, LadderTypeOK, RungsChecked, V4Checked, TritonChecked, SavedIsTimed
<1>5. CASE BeginTriton
  BY <1>2, <1>3, <1>5 DEF BeginTriton, LadderInv, LadderTypeOK, RungsChecked, V4Checked, TritonChecked, SavedIsTimed
<1>6. CASE SweepTriton
  <2>1. triton' \in Triton \cup {None} /\ (triton' # None => triton' \in verified)
    BY <1>6 DEF SweepTriton, Good, LadderInv, LadderTypeOK, TritonChecked
  <2>2. QED
    BY <1>1, <1>2, <1>3, <1>6, <2>1 DEF SweepTriton, LadderInv, LadderTypeOK, RungsChecked, V4Checked, TritonChecked, SavedIsTimed
<1>7. CASE TritonFails
  BY <1>2, <1>3, <1>7 DEF TritonFails, LadderInv, LadderTypeOK, RungsChecked, V4Checked, TritonChecked, SavedIsTimed
<1>8. CASE TimeAndSave
  <2>1. UNCHANGED <<v4, triton, verified>> /\ saved' = [k \in Timed |-> k \in verified]
    BY <1>8 DEF TimeAndSave
  <2>2. Timed' = Timed
    BY <2>1 DEF Timed
  <2>3. SavedIsTimed'
    BY <1>8, <2>1, <2>2 DEF TimeAndSave, SavedIsTimed
  <2>4. QED
    BY <1>2, <1>3, <1>8, <2>1, <2>3 DEF TimeAndSave, LadderInv, LadderTypeOK, RungsChecked, V4Checked, TritonChecked
<1>9. QED
  BY <1>4, <1>5, <1>6, <1>7, <1>8

\* Every step keeps the invariant.
LEMMA LadderInvNext == LadderInv /\ [LadderNext]_ladderVars => LadderInv'
<1>1. SUFFICES ASSUME LadderInv, [LadderNext]_ladderVars PROVE LadderInv'
  OBVIOUS
<1>2. CASE UNCHANGED ladderVars
  BY <1>1, <1>2 DEF ladderVars, LadderInv, LadderTypeOK, RungsChecked, V4Checked, TritonChecked, SavedIsTimed,
     Checked, Right, Timed
<1>3. QED
  BY <1>1, <1>2, VerifyRungKeeps, VerifyConfigKeeps, ChooseKeeps DEF LadderNext

\* The invariant of the ladder.
THEOREM LadderInvariant == LadderSpec => []LadderInv
<1>1. QED
  BY LadderInvInit, LadderInvNext, PTL DEF LadderSpec

\* For any rungs, configurations and outputs, whatever every kernel does to the buffers they
\* share: a kernel is saved as verified if and only if it is right, and the Triton rung is
\* saved only if it is.
THEOREM SavedIsRight == LadderSpec => []VerifiedIsRight
<1>1. LadderInv => VerifiedIsRight
  <2>1. SUFFICES ASSUME LadderInv, saved # None PROVE
          /\ \A k \in DOMAIN saved : saved[k] <=> Right(k)
          /\ triton # None => saved[triton]
    BY DEF VerifiedIsRight, Right
  <2>2. phase = "saved" /\ saved = [k \in Timed |-> k \in verified]
    BY <2>1 DEF LadderInv, SavedIsTimed
  <2>3. \A k \in Timed : Right(k) => k \in verified
    BY <2>1, <2>2 DEF LadderInv, RungsChecked, V4Checked, TritonChecked, Checked, Timed
  <2>4. \A k \in Timed : saved[k] <=> Right(k)
    BY <2>1, <2>2, <2>3 DEF LadderInv
  <2>5. triton # None => triton \in Timed /\ triton \in verified
    BY <2>1 DEF LadderInv, TritonChecked, Timed
  <2>6. QED
    BY <2>2, <2>4, <2>5
<1>2. QED
  BY <1>1, LadderInvariant, PTL

-----------------------------------------------------------------------------
(* The archive.                                                            *)

BuildRecord == [at : {"read", "flush", "finish", "replace", "sidecar"}, line : Nat, cap : Cap, seen : Seq(Nat),
                trades : Seq(Nat), snapshots : Seq(Nat), flushed : Nat, left : SUBSET Array]

\* A trade more is known, or was.
LEMMA KnownType ==
  ASSUME NEW list \in Seq(Nat), NEW id \in Nat
  PROVE  Known(list, id) \in Seq(Nat)
  BY DEF Known

\* The bucket of ids stays a list of ids.
LEMMA TakeTradeType ==
  ASSUME NEW b \in BuildRecord, NEW id \in Nat
  PROVE  TakeTrade(b, id) \in BuildRecord
<1>1. b.seen \in Seq(Nat) /\ b.trades \in Seq(Nat)
  BY DEF BuildRecord
<1>2. SeenAfter(b.seen, id) \in Seq(Nat)
  <2>1. CASE Len(b.seen) + 1 > Window
    <3>1. b.seen # <<>>
      <4>1. Window \in Nat \ {0}
        BY ArchiveAssumption
      <4>2. QED
        BY <1>1, <2>1, <4>1
    <3>2. Tail(b.seen) \in Seq(Nat)
      BY <1>1, <3>1
    <3>3. QED
      BY <2>1, <3>2 DEF SeenAfter
  <2>2. CASE ~(Len(b.seen) + 1 > Window)
    BY <1>1, <2>2 DEF SeenAfter
  <2>3. QED
    BY <2>1, <2>2
<1>3. Append(b.trades, id) \in Seq(Nat)
  BY <1>1
<1>4. CASE Contains(b.seen, id)
  BY <1>4 DEF TakeTrade
<1>5. CASE ~Contains(b.seen, id)
  <2>1. TakeTrade(b, id) = [b EXCEPT !.seen = SeenAfter(b.seen, id), !.trades = Append(b.trades, id)]
    BY <1>5 DEF TakeTrade
  <2>2. QED
    BY <1>2, <1>3, <2>1 DEF BuildRecord
<1>6. QED
  BY <1>4, <1>5

\* Trade after trade of a frame.
KnownChain(c, from, frame) ==
  /\ c \in [0..Len(frame) -> Seq(Nat)] /\ c[0] = from
  /\ \A k \in 1..Len(frame) : c[k] = Known(c[k - 1], frame[k])

TakenChain(c, from, frame) ==
  /\ c \in [0..Len(frame) -> BuildRecord] /\ c[0] = from
  /\ \A k \in 1..Len(frame) : c[k] = TakeTrade(c[k - 1], frame[k])

\* FoldLeft takes the trades one after the other: a chain that does is the one it goes along.
LEMMA KnownIsFold ==
  ASSUME NEW from \in Seq(Nat), NEW frames \in Seq(Nat), NEW c, KnownChain(c, from, frames)
  PROVE  FoldLeft(Known, from, frames) = c[Len(frames)]
<1> DEFINE Iter(f) == f = [U \in SUBSET DOMAIN frames |->
                             IF U = {} THEN from ELSE Known(f[U \ {Max(U)}], frames[Max(U)])]
           step == [a \in Seq(Nat) \X Nat |-> Known(a[1], a[2])]
<1>1. FoldLeft(Known, from, frames) = (CHOOSE f : Iter(f))[DOMAIN frames]
  BY DEF FoldLeft, MapThenFoldSet
<1>2. DOMAIN frames = 1..Len(frames) /\ Len(frames) \in Nat
  OBVIOUS
<1>3. PICK g \in [SUBSET (1..Len(frames)) -> Seq(Nat)] : FoldsSets(g, Len(frames), frames, step, from)
  <2>1. step \in [Seq(Nat) \X Nat -> Seq(Nat)]
    BY KnownType
  <2>2. Len(frames) <= Len(frames)
    BY <1>2
  <2> HIDE DEF step
  <2>3. QED
    BY <1>2, <2>1, <2>2, FoldExists
<1>4. ASSUME NEW U \in SUBSET (1..Len(frames)), U # {}
      PROVE  g[U] = Known(g[U \ {Max(U)}], frames[Max(U)])
  <2>1. Max(U) \in 1..Len(frames)
    BY <1>2, <1>4, GreatestNatural
  <2>2. frames[Max(U)] \in Nat
    BY <2>1
  <2> DEFINE W == U \ {Max(U)}
  <2>3. W \in SUBSET (1..Len(frames))
    OBVIOUS
  <2>4. g[U] = step[<<g[W], frames[Max(U)]>>]
    BY <1>3, <1>4 DEF FoldsSets
  <2> HIDE DEF W
  <2>5. g[W] \in Seq(Nat)
    BY <2>3
  <2>6. g[U] = Known(g[W], frames[Max(U)])
    BY <2>2, <2>4, <2>5
  <2>7. QED
    BY <2>6 DEF W
<1>5. \E f : Iter(f)
  <2>1. Iter(g)
    <3> HIDE DEF step
    <3>1. QED
      BY <1>2, <1>3, <1>4 DEF FoldsSets
  <2>2. QED
    BY <2>1
<1> DEFINE f == CHOOSE h : Iter(h)
<1>6. f = [U \in SUBSET DOMAIN frames |-> IF U = {} THEN from ELSE Known(f[U \ {Max(U)}], frames[Max(U)])]
  BY <1>5
<1>7. FoldLeft(Known, from, frames) = f[1..Len(frames)]
  BY <1>1, <1>2
<1> HIDE DEF f, step, Iter
<1>8. c[0] = from /\ \A i \in 1..Len(frames) : c[i] = Known(c[i - 1], frames[i])
  BY DEF KnownChain
<1> DEFINE T == {n \in Nat : n <= Len(frames) => f[1..n] = c[n]}
<1>9. 0 \in T
  <2>1. 1..0 = {} /\ {} \in SUBSET DOMAIN frames
    OBVIOUS
  <2>2. f[1..0] = from
    BY <1>6, <2>1
  <2>3. QED
    BY <1>8, <2>2
<1>10. ASSUME NEW n \in T
       PROVE  n + 1 \in T
  <2>1. ASSUME n + 1 <= Len(frames) PROVE f[1..(n + 1)] = c[n + 1]
    <3> DEFINE i == n + 1
    <3>1. i \in Nat \ {0} /\ i - 1 = n /\ i \in 1..Len(frames)
      BY <1>2, <2>1
    <3>2. f[1..n] = c[n]
      BY <1>2, <2>1
    <3> HIDE DEF i
    <3>3. Max(1..i) = i /\ (1..i) \ {i} = 1..(i - 1)
      BY <3>1, GreatestOfInterval
    <3>4. (1..i) \in SUBSET DOMAIN frames /\ (1..i) # {}
      <4>1. i \in 1..i /\ 1..i \subseteq 1..Len(frames)
        BY <1>2, <3>1
      <4>2. QED
        BY <1>2, <4>1, Zenon
    <3>5. f[1..i] = Known(f[1..(i - 1)], frames[i])
      BY <1>6, <3>3, <3>4
    <3>6. c[i] = Known(c[i - 1], frames[i])
      BY <1>8, <3>1
    <3>7. QED
      BY <3>1, <3>2, <3>5, <3>6 DEF i
  <2>2. QED
    BY <2>1
<1> HIDE DEF T
<1>11. T = Nat
  <2>1. T \in SUBSET Nat
    BY DEF T
  <2>2. QED
    BY <1>9, <1>10, <2>1, Induction
<1>12. f[1..Len(frames)] = c[Len(frames)]
  <2>1. Len(frames) \in T
    BY <1>2, <1>11
  <2>2. QED
    BY <1>2, <2>1 DEF T
<1>13. QED
  BY <1>7, <1>8, <1>12

\* So with what a build makes of them.
LEMMA TakenIsFold ==
  ASSUME NEW from \in BuildRecord, NEW frames \in Seq(Nat), NEW c, TakenChain(c, from, frames)
  PROVE  FoldLeft(TakeTrade, from, frames) = c[Len(frames)]
<1> DEFINE Iter(f) == f = [U \in SUBSET DOMAIN frames |->
                             IF U = {} THEN from ELSE TakeTrade(f[U \ {Max(U)}], frames[Max(U)])]
           step == [a \in BuildRecord \X Nat |-> TakeTrade(a[1], a[2])]
<1>1. FoldLeft(TakeTrade, from, frames) = (CHOOSE f : Iter(f))[DOMAIN frames]
  BY DEF FoldLeft, MapThenFoldSet
<1>2. DOMAIN frames = 1..Len(frames) /\ Len(frames) \in Nat
  OBVIOUS
<1>3. PICK g \in [SUBSET (1..Len(frames)) -> BuildRecord] : FoldsSets(g, Len(frames), frames, step, from)
  <2>1. step \in [BuildRecord \X Nat -> BuildRecord]
    BY TakeTradeType
  <2>2. Len(frames) <= Len(frames)
    BY <1>2
  <2> HIDE DEF step
  <2>3. QED
    BY <1>2, <2>1, <2>2, FoldExists
<1>4. ASSUME NEW U \in SUBSET (1..Len(frames)), U # {}
      PROVE  g[U] = TakeTrade(g[U \ {Max(U)}], frames[Max(U)])
  <2>1. Max(U) \in 1..Len(frames)
    BY <1>2, <1>4, GreatestNatural
  <2>2. frames[Max(U)] \in Nat
    BY <2>1
  <2> DEFINE W == U \ {Max(U)}
  <2>3. W \in SUBSET (1..Len(frames))
    OBVIOUS
  <2>4. g[U] = step[<<g[W], frames[Max(U)]>>]
    BY <1>3, <1>4 DEF FoldsSets
  <2> HIDE DEF W
  <2>5. g[W] \in BuildRecord
    BY <2>3
  <2>6. g[U] = TakeTrade(g[W], frames[Max(U)])
    BY <2>2, <2>4, <2>5
  <2>7. QED
    BY <2>6 DEF W
<1>5. \E f : Iter(f)
  <2>1. Iter(g)
    <3> HIDE DEF step
    <3>1. QED
      BY <1>2, <1>3, <1>4 DEF FoldsSets
  <2>2. QED
    BY <2>1
<1> DEFINE f == CHOOSE h : Iter(h)
<1>6. f = [U \in SUBSET DOMAIN frames |-> IF U = {} THEN from ELSE TakeTrade(f[U \ {Max(U)}], frames[Max(U)])]
  BY <1>5
<1>7. FoldLeft(TakeTrade, from, frames) = f[1..Len(frames)]
  BY <1>1, <1>2
<1> HIDE DEF f, step, Iter
<1>8. c[0] = from /\ \A i \in 1..Len(frames) : c[i] = TakeTrade(c[i - 1], frames[i])
  BY DEF TakenChain
<1> DEFINE T == {n \in Nat : n <= Len(frames) => f[1..n] = c[n]}
<1>9. 0 \in T
  <2>1. 1..0 = {} /\ {} \in SUBSET DOMAIN frames
    OBVIOUS
  <2>2. f[1..0] = from
    BY <1>6, <2>1
  <2>3. QED
    BY <1>8, <2>2
<1>10. ASSUME NEW n \in T
       PROVE  n + 1 \in T
  <2>1. ASSUME n + 1 <= Len(frames) PROVE f[1..(n + 1)] = c[n + 1]
    <3> DEFINE i == n + 1
    <3>1. i \in Nat \ {0} /\ i - 1 = n /\ i \in 1..Len(frames)
      BY <1>2, <2>1
    <3>2. f[1..n] = c[n]
      BY <1>2, <2>1
    <3> HIDE DEF i
    <3>3. Max(1..i) = i /\ (1..i) \ {i} = 1..(i - 1)
      BY <3>1, GreatestOfInterval
    <3>4. (1..i) \in SUBSET DOMAIN frames /\ (1..i) # {}
      <4>1. i \in 1..i /\ 1..i \subseteq 1..Len(frames)
        BY <1>2, <3>1
      <4>2. QED
        BY <1>2, <4>1, Zenon
    <3>5. f[1..i] = TakeTrade(f[1..(i - 1)], frames[i])
      BY <1>6, <3>3, <3>4
    <3>6. c[i] = TakeTrade(c[i - 1], frames[i])
      BY <1>8, <3>1
    <3>7. QED
      BY <3>1, <3>2, <3>5, <3>6 DEF i
  <2>2. QED
    BY <2>1
<1> HIDE DEF T
<1>11. T = Nat
  <2>1. T \in SUBSET Nat
    BY DEF T
  <2>2. QED
    BY <1>9, <1>10, <2>1, Induction
<1>12. f[1..Len(frames)] = c[Len(frames)]
  <2>1. Len(frames) \in T
    BY <1>2, <1>11
  <2>2. QED
    BY <1>2, <2>1 DEF T
<1>13. QED
  BY <1>7, <1>8, <1>12

-----------------------------------------------------------------------------
(* The trades of the log.                                                  *)

\* The lists of trades that lines make, one after the other.
TradesGrow(h, lines, n) ==
  h = [k \in 0..n |-> IF k = 0 THEN <<>> ELSE FoldLeft(Known, h[k - 1], lines[k].trades)]

\* There are such lists.
LEMMA TradesGrowing ==
  ASSUME NEW lines, NEW n \in Nat
  PROVE  \E h : TradesGrow(h, lines, n)
<1> DEFINE T == {m \in Nat : \E h : TradesGrow(h, lines, m)}
<1>1. 0 \in T
  <2> DEFINE h == [k \in 0..0 |-> <<>>]
  <2>1. \A k \in 0..0 : h[k] = <<>> /\ k = 0
    OBVIOUS
  <2>2. h = [k \in 0..0 |-> IF k = 0 THEN <<>> ELSE FoldLeft(Known, h[k - 1], lines[k].trades)]
    BY <2>1
  <2>3. QED
    BY <2>2 DEF TradesGrow
<1>2. ASSUME NEW m \in T
      PROVE  m + 1 \in T
  <2>1. m \in Nat
    OBVIOUS
  <2>2. PICK g : TradesGrow(g, lines, m)
    OBVIOUS
  <2> DEFINE last == FoldLeft(Known, g[m], lines[m + 1].trades)
             h == [k \in 0..(m + 1) |-> IF k <= m THEN g[k] ELSE last]
  <2>3. \A k \in 0..m : h[k] = g[k] /\ g[k] = IF k = 0 THEN <<>> ELSE FoldLeft(Known, g[k - 1], lines[k].trades)
    BY <2>1, <2>2 DEF TradesGrow
  <2>4. h[m + 1] = last /\ h[m] = g[m]
    BY <2>1
  <2>5. ASSUME NEW k \in 0..(m + 1)
        PROVE  h[k] = IF k = 0 THEN <<>> ELSE FoldLeft(Known, h[k - 1], lines[k].trades)
    <3>1. CASE k = m + 1
      <4>1. k # 0 /\ k - 1 = m
        BY <2>1, <3>1
      <4>2. QED
        BY <2>4, <3>1, <4>1
    <3>2. CASE k = 0
      <4>1. 0 \in 0..m
        BY <2>1
      <4>2. h[0] = <<>>
        BY <2>3, <4>1
      <4>3. QED
        BY <3>2, <4>2
    <3>3. CASE k # m + 1 /\ k # 0
      <4>1. k \in 0..m /\ k - 1 \in 0..m
        BY <2>1, <3>3
      <4>2. h[k] = g[k] /\ h[k - 1] = g[k - 1]
        BY <2>3, <4>1
      <4>3. g[k] = FoldLeft(Known, g[k - 1], lines[k].trades)
        BY <2>3, <3>3, <4>1
      <4>4. QED
        BY <3>3, <4>2, <4>3
    <3>4. QED
      BY <3>1, <3>2, <3>3
  <2>6. h = [k \in 0..(m + 1) |-> h[k]]
    OBVIOUS
  <2> HIDE DEF h
  <2>7. h = [k \in 0..(m + 1) |-> IF k = 0 THEN <<>> ELSE FoldLeft(Known, h[k - 1], lines[k].trades)]
    BY <2>5, <2>6
  <2>8. QED
    BY <2>1, <2>7 DEF TradesGrow
<1>3. T \in SUBSET Nat
  OBVIOUS
<1> HIDE DEF T
<1>4. T = Nat
  BY <1>1, <1>2, <1>3, Induction
<1>5. QED
  BY <1>4 DEF T

\* Lines that are the same make the same trades.
LEMMA SameTrades ==
  ASSUME NEW lines, NEW other, NEW g, NEW h, NEW a \in Nat, NEW b \in Nat, TradesGrow(g, lines, a), TradesGrow(h, other, b),
         NEW n \in Nat, n <= a, n <= b, \A k \in 1..n : lines[k] = other[k]
  PROVE  g[n] = h[n]
<1> DEFINE T == {m \in Nat : m <= n => g[m] = h[m]}
<1>1. /\ \A k \in 0..a : g[k] = IF k = 0 THEN <<>> ELSE FoldLeft(Known, g[k - 1], lines[k].trades)
      /\ \A k \in 0..b : h[k] = IF k = 0 THEN <<>> ELSE FoldLeft(Known, h[k - 1], other[k].trades)
  BY DEF TradesGrow
<1>2. 0 \in T
  BY <1>1
<1>3. ASSUME NEW m \in T
      PROVE  m + 1 \in T
  <2>1. m \in Nat
    OBVIOUS
  <2>2. ASSUME m + 1 <= n PROVE g[m + 1] = h[m + 1]
    <3>1. g[m] = h[m]
      BY <2>1, <2>2
    <3>2. m + 1 \in 0..a /\ m + 1 \in 0..b /\ m + 1 \in 1..n /\ m + 1 # 0 /\ m + 1 - 1 = m
      BY <2>1, <2>2
    <3>3. g[m + 1] = FoldLeft(Known, g[m], lines[m + 1].trades) /\ h[m + 1] = FoldLeft(Known, h[m], other[m + 1].trades)
      BY <1>1, <3>2
    <3>4. QED
      BY <3>1, <3>2, <3>3
  <2>3. QED
    BY <2>1, <2>2
<1>4. T \in SUBSET Nat
  OBVIOUS
<1> HIDE DEF T
<1>5. T = Nat
  BY <1>2, <1>3, <1>4, Induction
<1>6. QED
  BY <1>5 DEF T

\* The trades of a number of lines are the last of such lists.
LEMMA TradesOfIs ==
  ASSUME NEW lines, NEW n \in Nat
  PROVE  \E h : TradesGrow(h, lines, n) /\ TradesOf(lines, n) = h[n]
<1> DEFINE h == CHOOSE f : TradesGrow(f, lines, n)
<1>1. TradesGrow(h, lines, n)
  BY TradesGrowing
<1>2. TradesOf(lines, n) = h[n]
  BY DEF TradesOf, TradesGrow
<1>3. QED
  BY <1>1, <1>2

\* A line more is a frame more.
LEMMA TradesOfNext ==
  ASSUME NEW lines, NEW n \in Nat
  PROVE  /\ TradesOf(lines, 0) = <<>>
         /\ TradesOf(lines, n + 1) = FoldLeft(Known, TradesOf(lines, n), lines[n + 1].trades)
<1>1. TradesOf(lines, 0) = <<>>
  <2>1. 0 \in Nat
    OBVIOUS
  <2>2. PICK h : TradesGrow(h, lines, 0) /\ TradesOf(lines, 0) = h[0]
    BY <2>1, TradesOfIs
  <2>3. QED
    BY <2>2 DEF TradesGrow
<1>2. PICK g : TradesGrow(g, lines, n) /\ TradesOf(lines, n) = g[n]
  BY TradesOfIs
<1>3. n + 1 \in Nat /\ n + 1 # 0 /\ n + 1 - 1 = n /\ n + 1 \in 0..(n + 1) /\ n <= n + 1
  OBVIOUS
<1>4. PICK h : TradesGrow(h, lines, n + 1) /\ TradesOf(lines, n + 1) = h[n + 1]
  BY <1>3, TradesOfIs
<1>5. h[n + 1] = FoldLeft(Known, h[n], lines[n + 1].trades)
  BY <1>3, <1>4 DEF TradesGrow
<1>6. g[n] = h[n]
  BY <1>2, <1>3, <1>4, SameTrades
<1>7. QED
  BY <1>1, <1>2, <1>4, <1>5, <1>6

\* Lines that come after do not matter.
LEMMA TradesOfSame ==
  ASSUME NEW lines, NEW other, NEW n \in Nat, \A k \in 1..n : lines[k] = other[k]
  PROVE  TradesOf(lines, n) = TradesOf(other, n)
<1>1. PICK g : TradesGrow(g, lines, n) /\ TradesOf(lines, n) = g[n]
  BY TradesOfIs
<1>2. PICK h : TradesGrow(h, other, n) /\ TradesOf(other, n) = h[n]
  BY TradesOfIs
<1>3. QED
  BY <1>1, <1>2, SameTrades

-----------------------------------------------------------------------------
(* What an exchange repeats.                                               *)

\* The first trades that there were, each once and not far from its place.
Numbered(list, m) ==
  /\ list \in Seq(Nat) /\ Len(list) = m
  /\ \A t \in 1..m : \E i \in 1..m : list[i] = t
  /\ \A i \in 1..m : list[i] \in 1..m /\ list[i] <= i + Repeated - 1

\* The trades from one to the newest: what is not known yet is among them, and they are not many.
Rises(frame, from, newest) ==
  frame \in Seq(Nat) /\ Len(frame) = newest - from + 1 /\ \A k \in 1..Len(frame) : frame[k] = from + k - 1

Falls(frame, from, newest) ==
  frame \in Seq(Nat) /\ Len(frame) = newest - from + 1 /\ \A k \in 1..Len(frame) : frame[k] = newest - k + 1

Reaches(from, m, newest) ==
  from \in 1..(m + 1) /\ newest \in Nat /\ from <= newest /\ newest - from < Repeated /\ m <= newest

\* An id that is in the list has not been followed by a window of others.
Recent(list, id) == \A i \in 1..Len(list) : list[i] = id => Len(list) - i < Window

\* A chain of known trades in which what is repeated is still recent.
GoodChain(c, list, frame, newest) ==
  /\ KnownChain(c, list, frame)
  /\ Numbered(c[Len(frame)], newest)
  /\ \A k \in 1..Len(frame) : Recent(c[k - 1], frame[k])

\* Where each trade of a frame comes to stand: E has the list as it will be, Z how much of
\* it is there after so many trades.
Standing(E, Z, list, m, frame, newest) ==
  /\ E \in [1..newest -> 1..newest] /\ Z \in [0..Len(frame) -> m..newest]
  /\ Z[0] = m /\ Z[Len(frame)] = newest
  /\ \A i \in 1..m : E[i] = list[i]
  /\ \A t \in 1..newest : \E i \in 1..newest : E[i] = t
  /\ \A i \in 1..newest : E[i] <= i + Repeated - 1
  /\ \A k \in 1..Len(frame) :
       \/ frame[k] \in 1..m /\ Z[k] = Z[k - 1]
       \/ Z[k] = Z[k - 1] + 1 /\ E[Z[k]] = frame[k] /\ \A i \in 1..Z[k - 1] : E[i] # frame[k]

\* The lists on the way there are a good chain.
LEMMA StandingChain ==
  ASSUME NEW m \in Nat, NEW list, Numbered(list, m), NEW from, NEW newest, Reaches(from, m, newest),
         NEW frame \in Seq(Nat), \A k \in 1..Len(frame) : from <= frame[k],
         NEW E, NEW Z, Standing(E, Z, list, m, frame, newest)
  PROVE  \E c : GoodChain(c, list, frame, newest)
<1>1. /\ from \in Nat \ {0} /\ newest \in Nat /\ m <= newest
      /\ newest - from < Repeated /\ Repeated \in Nat \ {0} /\ Window \in Nat /\ Window >= 2 * Repeated - 1
  BY ArchiveAssumption DEF Reaches
<1>2. Len(frame) \in Nat
  OBVIOUS
<1>3. list \in Seq(Nat) /\ Len(list) = m /\ \A t \in 1..m : \E i \in 1..m : list[i] = t
  BY DEF Numbered
<1>4. /\ E \in [1..newest -> 1..newest] /\ Z \in [0..Len(frame) -> m..newest]
      /\ Z[0] = m /\ Z[Len(frame)] = newest
      /\ \A i \in 1..m : E[i] = list[i]
  BY DEF Standing
<1>5. /\ \A t \in 1..newest : \E i \in 1..newest : E[i] = t
      /\ \A i \in 1..newest : E[i] <= i + Repeated - 1
  BY DEF Standing
<1> DEFINE c == [k \in 0..Len(frame) |-> [i \in 1..Z[k] |-> E[i]]]
<1>6. ASSUME NEW k \in 0..Len(frame)
      PROVE  c[k] \in Seq(Nat) /\ Len(c[k]) = Z[k] /\ Z[k] \in m..newest /\ \A i \in 1..Z[k] : c[k][i] = E[i]
  <2> DEFINE n == Z[k]
             l == [i \in 1..n |-> E[i]]
  <2>1. n \in m..newest /\ n \in Nat
    <3>1. Z[k] \in m..newest
      BY <1>4
    <3>2. QED
      BY <1>1, <3>1
  <2>2. \A i \in 1..n : E[i] \in Nat
    BY <1>1, <1>4, <2>1
  <2>3. c[k] = l /\ n = Z[k]
    OBVIOUS
  <2> HIDE DEF n
  <2>4. l \in Seq(Nat) /\ Len(l) = n /\ \A i \in 1..n : l[i] = E[i]
    BY <2>1, <2>2
  <2> HIDE DEF c, l
  <2>5. QED
    BY <2>1, <2>3, <2>4
<1>7. c = [k \in 0..Len(frame) |-> c[k]]
  OBVIOUS
<1> HIDE DEF c
<1>8. c[0] = list
  <2>1. 0 \in 0..Len(frame)
    BY <1>2
  <2>2. c[0] \in Seq(Nat) /\ Len(c[0]) = m /\ \A i \in 1..m : c[0][i] = list[i]
    BY <1>4, <1>6, <2>1
  <2>3. QED
    BY <1>3, <2>2
<1>9. ASSUME NEW k \in 1..Len(frame)
      PROVE  c[k] = Known(c[k - 1], frame[k]) /\ Recent(c[k - 1], frame[k])
  <2>1. k \in 0..Len(frame) /\ k - 1 \in 0..Len(frame)
    BY <1>2
  <2>2. PICK id \in Nat : id = frame[k]
    OBVIOUS
  <2>3. from <= id
    BY <2>2
  <2>4. PICK old : old = c[k - 1]
    OBVIOUS
  <2>5. PICK new : new = c[k]
    OBVIOUS
  <2>6. PICK a : a = Z[k - 1]
    OBVIOUS
  <2>7. PICK b : b = Z[k]
    OBVIOUS
  <2>8. old \in Seq(Nat) /\ Len(old) = a /\ a \in m..newest /\ \A i \in 1..a : old[i] = E[i]
    BY <1>6, <2>1, <2>4, <2>6
  <2>9. new \in Seq(Nat) /\ Len(new) = b /\ b \in m..newest /\ \A i \in 1..b : new[i] = E[i]
    BY <1>6, <2>1, <2>5, <2>7
  <2>10. Recent(old, id)
    <3>1. SUFFICES ASSUME NEW i \in 1..Len(old), old[i] = id
                   PROVE  Len(old) - i < Window
      BY DEF Recent
    <3>2. i \in 1..newest /\ E[i] = id /\ a <= newest /\ a \in Int
      BY <1>1, <2>8, <3>1
    <3>3. id <= i + Repeated - 1
      BY <1>5, <3>2
    <3>4. QED
      BY <1>1, <2>2, <2>3, <2>8, <3>2, <3>3
  <2>11. \/ id \in 1..m /\ b = a
         \/ b = a + 1 /\ E[b] = id /\ \A i \in 1..a : E[i] # id
    BY <2>2, <2>6, <2>7 DEF Standing
  <2>12. CASE id \in 1..m /\ b = a
    <3>1. new = old
      <4>1. a \in Nat
        BY <1>1, <2>8
      <4>2. Len(new) = Len(old) /\ \A i \in 1..a : new[i] = old[i]
        BY <2>8, <2>9, <2>12
      <4>3. QED
        BY <2>8, <2>9, <4>1, <4>2
    <3>2. PICK i \in 1..m : E[i] = id
      BY <1>3, <1>4, <2>12
    <3>3. i \in 1..a
      BY <1>1, <2>8
    <3>4. Contains(old, id)
      BY <2>8, <3>2, <3>3 DEF Contains
    <3>5. QED
      BY <2>2, <2>4, <2>5, <2>10, <3>1, <3>4 DEF Known
  <2>13. CASE b = a + 1 /\ E[b] = id /\ \A i \in 1..a : E[i] # id
    <3>1. ~Contains(old, id)
      BY <2>8, <2>13 DEF Contains
    <3>2. a \in Nat
      BY <1>1, <2>8
    <3>3. \A i \in 1..a : new[i] = old[i]
      <4>1. \A i \in 1..a : i \in 1..b
        BY <2>13, <3>2
      <4>2. QED
        BY <2>8, <2>9, <4>1
    <3>4. new[a + 1] = id
      BY <2>9, <2>13, <3>2
    <3>5. new = Append(old, id)
      BY <2>2, <2>8, <2>9, <2>13, <3>2, <3>3, <3>4
    <3>6. QED
      BY <2>2, <2>4, <2>5, <2>10, <3>1, <3>5 DEF Known
  <2>14. QED
    BY <2>11, <2>12, <2>13
<1>10. Numbered(c[Len(frame)], newest)
  <2>1. Len(frame) \in 0..Len(frame)
    BY <1>2
  <2>2. PICK new : new = c[Len(frame)]
    OBVIOUS
  <2>3. new \in Seq(Nat) /\ Len(new) = newest /\ \A i \in 1..newest : new[i] = E[i]
    BY <1>4, <1>6, <2>1, <2>2
  <2>4. QED
    BY <1>4, <1>5, <2>2, <2>3 DEF Numbered
<1>11. \A k \in 0..Len(frame) : c[k] \in Seq(Nat)
  BY <1>6
<1>12. c \in [0..Len(frame) -> Seq(Nat)]
  BY <1>7, <1>11
<1>13. KnownChain(c, list, frame)
  BY <1>8, <1>9, <1>12 DEF KnownChain
<1>14. GoodChain(c, list, frame, newest)
  BY <1>9, <1>10, <1>13 DEF GoodChain
<1>15. QED
  BY <1>14

\* Trades in rising order add the new ones in rising order.
LEMMA RisingStands ==
  ASSUME NEW m \in Nat, NEW list, Numbered(list, m), NEW from, NEW newest, Reaches(from, m, newest),
         NEW frame, Rises(frame, from, newest)
  PROVE  \E E, Z : Standing(E, Z, list, m, frame, newest)
<1>1. /\ from \in Nat \ {0} /\ newest \in Nat /\ from <= m + 1 /\ from <= newest /\ m <= newest
      /\ newest - from < Repeated /\ Repeated \in Nat \ {0}
  BY ArchiveAssumption DEF Reaches
<1>2. Len(frame) = newest - from + 1 /\ Len(frame) \in Nat /\ \A k \in 1..Len(frame) : frame[k] = from + k - 1
  BY <1>1 DEF Rises
<1>3. \A i \in 1..m : list[i] \in 1..m /\ list[i] <= i + Repeated - 1
  BY DEF Numbered
<1>4. \A t \in 1..m : \E i \in 1..m : list[i] = t
  BY DEF Numbered
<1> DEFINE E == [i \in 1..newest |-> IF i <= m THEN list[i] ELSE i]
           Z == [k \in 0..Len(frame) |-> IF from + k - 1 > m THEN from + k - 1 ELSE m]
<1>5. \A i \in 1..m : i \in 1..newest /\ E[i] = list[i]
  BY <1>1
<1>6. \A i \in 1..newest : i > m => E[i] = i
  BY <1>1
<1>7. E \in [1..newest -> 1..newest]
  BY <1>1, <1>3
<1>8. Z \in [0..Len(frame) -> m..newest]
  BY <1>1, <1>2
<1>9. Z[0] = m /\ Z[Len(frame)] = newest
  BY <1>1, <1>2
<1>10. \A k \in 1..Len(frame) : /\ k - 1 \in 0..Len(frame) /\ frame[k] = from + k - 1
                                /\ from + k - 1 <= m => Z[k] = m /\ Z[k - 1] = m
                                /\ from + k - 1 > m => Z[k] = from + k - 1 /\ Z[k - 1] = from + k - 2
  BY <1>1, <1>2
<1> HIDE DEF E, Z
<1>11. \A t \in 1..newest : \E i \in 1..newest : E[i] = t
  <2>1. ASSUME NEW t \in 1..newest PROVE \E i \in 1..newest : E[i] = t
    <3>1. CASE t <= m
      BY <1>4, <1>5, <3>1
    <3>2. CASE t > m
      BY <1>6, <3>2
    <3>3. QED
      BY <3>1, <3>2
  <2>2. QED
    BY <2>1
<1>12. ASSUME NEW i \in 1..newest PROVE E[i] <= i + Repeated - 1
  <2>1. CASE i <= m
    <3>1. i \in 1..m
      BY <2>1
    <3>2. QED
      BY <1>3, <1>5, <3>1
  <2>2. CASE i > m
    BY <1>1, <1>6, <2>2
  <2>3. QED
    BY <2>1, <2>2
<1>13. ASSUME NEW k \in 1..Len(frame)
       PROVE  \/ frame[k] \in 1..m /\ Z[k] = Z[k - 1]
              \/ Z[k] = Z[k - 1] + 1 /\ E[Z[k]] = frame[k] /\ \A i \in 1..Z[k - 1] : E[i] # frame[k]
  <2>1. CASE from + k - 1 <= m
    BY <1>1, <1>2, <1>10, <2>1
  <2>2. CASE from + k - 1 > m
    <3>1. PICK id \in 1..newest : id = from + k - 1
      BY <1>1, <1>2
    <3>2. frame[k] = id /\ Z[k] = id /\ Z[k - 1] = id - 1 /\ E[id] = id
      BY <1>1, <1>6, <1>10, <2>2, <3>1
    <3>3. ASSUME NEW i \in 1..(id - 1) PROVE E[i] # id
      <4>1. CASE i <= m
        <5>1. i \in 1..m /\ id > m
          BY <2>2, <3>1, <4>1
        <5>2. QED
          BY <1>3, <1>5, <5>1
      <4>2. CASE i > m
        <5>1. i \in 1..newest /\ i < id
          BY <1>1, <3>1
        <5>2. QED
          BY <1>6, <4>2, <5>1
      <4>3. QED
        BY <4>1, <4>2
    <3>4. QED
      BY <3>2, <3>3
  <2>3. QED
    BY <1>1, <1>2, <2>1, <2>2
<1>14. Standing(E, Z, list, m, frame, newest)
  BY <1>5, <1>7, <1>8, <1>9, <1>11, <1>12, <1>13 DEF Standing
<1>15. QED
  BY <1>14

\* Trades in falling order add the new ones in falling order.
LEMMA FallingStands ==
  ASSUME NEW m \in Nat, NEW list, Numbered(list, m), NEW from, NEW newest, Reaches(from, m, newest),
         NEW frame, Falls(frame, from, newest)
  PROVE  \E E, Z : Standing(E, Z, list, m, frame, newest)
<1>1. /\ from \in Nat \ {0} /\ newest \in Nat /\ from <= m + 1 /\ from <= newest /\ m <= newest
      /\ newest - from < Repeated /\ Repeated \in Nat \ {0}
  BY ArchiveAssumption DEF Reaches
<1>2. Len(frame) = newest - from + 1 /\ Len(frame) \in Nat /\ \A k \in 1..Len(frame) : frame[k] = newest - k + 1
  BY <1>1 DEF Falls
<1>3. \A i \in 1..m : list[i] \in 1..m /\ list[i] <= i + Repeated - 1
  BY DEF Numbered
<1>4. \A t \in 1..m : \E i \in 1..m : list[i] = t
  BY DEF Numbered
<1> DEFINE E == [i \in 1..newest |-> IF i <= m THEN list[i] ELSE newest - i + m + 1]
           Z == [k \in 0..Len(frame) |-> IF k < newest - m THEN m + k ELSE newest]
<1>5. \A i \in 1..m : i \in 1..newest /\ E[i] = list[i]
  BY <1>1
<1>6. \A i \in 1..newest : i > m => E[i] = newest - i + m + 1
  BY <1>1
<1>7. E \in [1..newest -> 1..newest]
  BY <1>1, <1>3
<1>8. Z \in [0..Len(frame) -> m..newest]
  BY <1>1, <1>2
<1>9. Z[0] = m /\ Z[Len(frame)] = newest
  BY <1>1, <1>2
<1>10. ASSUME NEW k \in 1..Len(frame)
       PROVE  /\ k - 1 \in 0..Len(frame) /\ frame[k] = newest - k + 1
              /\ k > newest - m => Z[k] = newest /\ Z[k - 1] = newest
              /\ k <= newest - m => Z[k] = m + k /\ Z[k - 1] = m + k - 1
  <2>1. k \in 0..Len(frame) /\ k - 1 \in 0..Len(frame) /\ k \in Int
    BY <1>2
  <2>2. /\ Z[k] = (IF k < newest - m THEN m + k ELSE newest)
        /\ Z[k - 1] = (IF k - 1 < newest - m THEN m + (k - 1) ELSE newest)
    BY <2>1
  <2> HIDE DEF Z
  <2>3. k > newest - m => Z[k] = newest /\ Z[k - 1] = newest
    BY <1>1, <2>1, <2>2
  <2>4. k <= newest - m => Z[k] = m + k /\ Z[k - 1] = m + k - 1
    BY <1>1, <2>1, <2>2
  <2>5. QED
    BY <1>2, <2>1, <2>3, <2>4
<1> HIDE DEF E, Z
<1>11. \A t \in 1..newest : \E i \in 1..newest : E[i] = t
  <2>1. ASSUME NEW t \in 1..newest PROVE \E i \in 1..newest : E[i] = t
    <3>1. CASE t <= m
      BY <1>4, <1>5, <3>1
    <3>2. CASE t > m
      <4>1. newest - t + m + 1 \in 1..newest /\ newest - t + m + 1 > m
        BY <1>1, <3>2
      <4>2. E[newest - t + m + 1] = newest - (newest - t + m + 1) + m + 1
        BY <1>6, <4>1
      <4>3. newest - (newest - t + m + 1) + m + 1 = t
        BY <1>1
      <4>4. QED
        BY <4>1, <4>2, <4>3
    <3>3. QED
      BY <3>1, <3>2
  <2>2. QED
    BY <2>1
<1>12. ASSUME NEW i \in 1..newest PROVE E[i] <= i + Repeated - 1
  <2>1. CASE i <= m
    <3>1. i \in 1..m
      BY <2>1
    <3>2. QED
      BY <1>3, <1>5, <3>1
  <2>2. CASE i > m
    BY <1>1, <1>6, <2>2
  <2>3. QED
    BY <2>1, <2>2
<1>13. ASSUME NEW k \in 1..Len(frame)
       PROVE  \/ frame[k] \in 1..m /\ Z[k] = Z[k - 1]
              \/ Z[k] = Z[k - 1] + 1 /\ E[Z[k]] = frame[k] /\ \A i \in 1..Z[k - 1] : E[i] # frame[k]
  <2>1. CASE k > newest - m
    BY <1>1, <1>2, <1>10, <2>1
  <2>2. CASE k <= newest - m
    <3>1. PICK id \in 1..newest : id = newest - k + 1
      BY <1>1, <1>2
    <3>2. PICK p \in 1..newest : p = m + k
      BY <1>1, <1>2, <2>2
    <3>3. frame[k] = id /\ Z[k] = p /\ Z[k - 1] = p - 1
      BY <1>1, <1>10, <2>2, <3>1, <3>2
    <3>4. E[p] = id
      BY <1>1, <1>6, <2>2, <3>1, <3>2
    <3>5. ASSUME NEW i \in 1..(p - 1) PROVE E[i] # id
      <4>1. CASE i <= m
        <5>1. i \in 1..m /\ id > m
          BY <1>1, <2>2, <3>1, <4>1
        <5>2. QED
          BY <1>3, <1>5, <5>1
      <4>2. CASE i > m
        BY <1>1, <1>6, <3>1, <3>2, <4>2
      <4>3. QED
        BY <4>1, <4>2
    <3>6. QED
      BY <3>3, <3>4, <3>5
  <2>3. QED
    BY <1>1, <1>2, <2>1, <2>2
<1>14. Standing(E, Z, list, m, frame, newest)
  BY <1>5, <1>7, <1>8, <1>9, <1>11, <1>12, <1>13 DEF Standing
<1>15. QED
  BY <1>14

\* The end of a list, as much as the bucket of ids has.
Latest(list) ==
  LET n == IF Len(list) < Window THEN Len(list) ELSE Window
  IN  [j \in 1..n |-> list[Len(list) - n + j]]

\* The bucket knows an id that is recent if it is known at all, and it is the end of the list again.
LEMMA LatestFacts ==
  ASSUME NEW list \in Seq(Nat), NEW id \in Nat, Recent(list, id)
  PROVE  /\ Latest(list) \in Seq(Nat)
         /\ Contains(Latest(list), id) <=> Contains(list, id)
         /\ SeenAfter(Latest(list), id) = Latest(Append(list, id))
<1>1. Window \in Nat \ {0}
  BY ArchiveAssumption
<1>2. PICK len \in Nat : len = Len(list)
  OBVIOUS
<1>3. PICK n : n = IF len < Window THEN len ELSE Window
  OBVIOUS
<1>4. n \in Nat /\ n <= len /\ n <= Window /\ (n # len => n = Window)
  BY <1>1, <1>3
<1>5. PICK seen : seen = [j \in 1..n |-> list[len - n + j]]
  OBVIOUS
<1>6. Latest(list) = seen
  BY <1>2, <1>3, <1>5 DEF Latest
<1>7. \A j \in 1..n : len - n + j \in 1..len
  BY <1>4
<1>8. seen \in Seq(Nat) /\ Len(seen) = n /\ \A j \in 1..n : seen[j] = list[len - n + j]
  <2>1. \A j \in 1..n : list[len - n + j] \in Nat
    BY <1>2, <1>7
  <2>2. QED
    BY <1>4, <1>5, <2>1
<1>9. Contains(seen, id) <=> Contains(list, id)
  <2>1. ASSUME Contains(seen, id) PROVE Contains(list, id)
    <3>1. PICK j \in 1..n : seen[j] = id
      BY <1>8, <2>1 DEF Contains
    <3>2. QED
      BY <1>2, <1>7, <1>8, <3>1 DEF Contains
  <2>2. ASSUME Contains(list, id) PROVE Contains(seen, id)
    <3>1. PICK i \in 1..len : list[i] = id
      BY <1>2, <2>2 DEF Contains
    <3>2. len - i < Window
      BY <1>2, <3>1 DEF Recent
    <3>3. i > len - n
      BY <1>1, <1>3, <3>1, <3>2
    <3>4. PICK j : j = i - (len - n)
      OBVIOUS
    <3>5. j \in 1..n /\ len - n + j = i
      BY <1>4, <3>1, <3>3, <3>4
    <3>6. seen[j] = id
      BY <1>8, <3>1, <3>5
    <3>7. QED
      BY <1>8, <3>5, <3>6 DEF Contains
  <2>3. QED
    BY <2>1, <2>2
<1>10. PICK longer : longer = Append(list, id)
  OBVIOUS
<1>11. longer \in Seq(Nat) /\ Len(longer) = len + 1 /\ longer[len + 1] = id /\ \A i \in 1..len : longer[i] = list[i]
  BY <1>2, <1>10
<1>12. PICK m : m = IF len + 1 < Window THEN len + 1 ELSE Window
  OBVIOUS
<1>13. Latest(longer) = [j \in 1..m |-> longer[len + 1 - m + j]]
  <2>1. PICK total : total = len + 1
    OBVIOUS
  <2>2. total = Len(longer)
    BY <1>11, <2>1
  <2>3. PICK n2 : n2 = IF total < Window THEN total ELSE Window
    OBVIOUS
  <2>4. Latest(longer) = [j \in 1..n2 |-> longer[total - n2 + j]]
    BY <2>2, <2>3 DEF Latest
  <2>5. n2 = m
    BY <1>12, <2>1, <2>3
  <2>6. \A j \in 1..m : total - m + j = len + 1 - m + j
    <3>1. len \in Nat /\ m \in Nat
      BY <1>1, <1>2, <1>12
    <3>2. QED
      BY <2>1, <3>1
  <2>7. Latest(longer) = [j \in 1..m |-> longer[total - m + j]]
    BY <2>4, <2>5
  <2>8. QED
    BY <2>6, <2>7
<1>14. SeenAfter(seen, id) = Latest(longer)
  <2>1. CASE n + 1 > Window
    <3>1. n = Window /\ m = Window /\ n # 0
      BY <1>1, <1>3, <1>4, <1>12, <2>1
    <3>2. SeenAfter(seen, id) = Append(Tail(seen), id)
      BY <1>8, <2>1 DEF SeenAfter
    <3>3. PICK rest : rest = Tail(seen)
      OBVIOUS
    <3>4. rest \in Seq(Nat) /\ Len(rest) = n - 1 /\ \A j \in 1..(n - 1) : rest[j] = seen[j + 1]
      <4>1. seen # <<>>
        BY <1>8, <3>1
      <4>2. QED
        BY <1>8, <3>3, <4>1
    <3>5. PICK new : new = Append(rest, id)
      OBVIOUS
    <3>6. new \in Seq(Nat) /\ Len(new) = n /\ new[n] = id /\ \A j \in 1..(n - 1) : new[j] = rest[j]
      BY <1>4, <3>1, <3>4, <3>5
    <3>7. ASSUME NEW j \in 1..n PROVE new[j] = longer[len + 1 - n + j]
      <4>1. CASE j = n
        <5>1. len + 1 - n + j = len + 1
          BY <1>2, <1>4, <4>1
        <5>2. QED
          BY <1>11, <3>6, <4>1, <5>1
      <4>2. CASE j # n
        <5>1. j \in 1..(n - 1) /\ j + 1 \in 1..n
          BY <1>4, <4>2
        <5>2. new[j] = list[len - n + (j + 1)]
          BY <1>8, <3>4, <3>6, <5>1
        <5>3. len - n + (j + 1) = len + 1 - n + j /\ len - n + (j + 1) \in 1..len
          BY <1>4, <1>7, <5>1
        <5>4. QED
          BY <1>11, <5>2, <5>3
      <4>3. QED
        BY <4>1, <4>2
    <3>8. new = [j \in 1..n |-> longer[len + 1 - n + j]]
      <4>1. new = [j \in 1..n |-> new[j]]
        BY <3>6
      <4>2. QED
        BY <3>7, <4>1
    <3>9. QED
      BY <1>13, <3>1, <3>2, <3>3, <3>5, <3>8
  <2>2. CASE ~(n + 1 > Window)
    <3>1. n = len /\ m = len + 1
      BY <1>1, <1>3, <1>4, <1>12, <2>2
    <3>2. seen = list
      <4>1. \A j \in 1..n : len - n + j = j
        BY <1>4, <3>1
      <4>2. \A j \in 1..n : seen[j] = list[j]
        BY <1>8, <4>1
      <4>3. QED
        BY <1>2, <1>8, <3>1, <4>2
    <3>3. SeenAfter(seen, id) = longer
      BY <1>8, <1>10, <2>2, <3>2 DEF SeenAfter
    <3>4. \A j \in 1..m : len + 1 - m + j = j
      BY <1>2, <3>1
    <3>5. Latest(longer) = [j \in 1..m |-> longer[j]]
      BY <1>13, <3>4
    <3>6. longer = [j \in 1..m |-> longer[j]]
      BY <1>11, <3>1
    <3>7. QED
      BY <3>3, <3>5, <3>6
  <2>3. QED
    BY <2>1, <2>2
<1>15. QED
  BY <1>6, <1>8, <1>9, <1>10, <1>14

\* What an exchange may send: nothing new and nothing old, or trades up to the newest.
IsFrame(frame, m, newest) ==
  \/ frame = <<>> /\ newest = m
  \/ \E from : Reaches(from, m, newest) /\ (Rises(frame, from, newest) \/ Falls(frame, from, newest))

\* Every frame is a good chain.
LEMMA FrameChain ==
  ASSUME NEW m \in Nat, NEW list, Numbered(list, m), NEW newest, NEW frame, IsFrame(frame, m, newest)
  PROVE  frame \in Seq(Nat) /\ \E c : GoodChain(c, list, frame, newest)
<1>1. CASE frame = <<>> /\ newest = m
  <2>1. frame \in Seq(Nat) /\ Len(frame) = 0
    BY <1>1
  <2> DEFINE c == [k \in 0..0 |-> list]
  <2>2. c \in [0..0 -> Seq(Nat)] /\ c[0] = list
    BY DEF Numbered
  <2> HIDE DEF c
  <2>3. GoodChain(c, list, frame, newest)
    BY <1>1, <2>1, <2>2 DEF GoodChain, KnownChain
  <2>4. QED
    BY <2>1, <2>3
<1>2. ASSUME NEW from, Reaches(from, m, newest), Rises(frame, from, newest) \/ Falls(frame, from, newest)
      PROVE  frame \in Seq(Nat) /\ \E c : GoodChain(c, list, frame, newest)
  <2>1. /\ from \in Nat /\ newest \in Nat /\ from <= newest
    BY <1>2 DEF Reaches
  <2>2. frame \in Seq(Nat) /\ Len(frame) = newest - from + 1
    BY <1>2 DEF Rises, Falls
  <2>3. ASSUME NEW k \in 1..Len(frame) PROVE from <= frame[k]
    BY <1>2, <2>1, <2>2 DEF Rises, Falls
  <2>4. PICK E, Z : Standing(E, Z, list, m, frame, newest)
    BY <1>2, RisingStands, FallingStands
  <2>5. \E c : GoodChain(c, list, frame, newest)
    BY <1>2, <2>2, <2>3, <2>4, StandingChain
  <2>6. QED
    BY <2>2, <2>5
<1>3. QED
  BY <1>1, <1>2 DEF IsFrame

\* A build takes the trades of a frame that were not known, and the bucket of ids remains the
\* end of the trades.
LEMMA FrameTaken ==
  ASSUME NEW b \in BuildRecord, NEW m \in Nat, Numbered(b.trades, m), b.seen = Latest(b.trades),
         NEW newest, NEW frame, IsFrame(frame, m, newest)
  PROVE  \E new : /\ new = FoldLeft(Known, b.trades, frame)
                  /\ FoldLeft(TakeTrade, b, frame) = [b EXCEPT !.trades = new, !.seen = Latest(new)]
                  /\ FoldLeft(TakeTrade, b, frame) \in BuildRecord
<1>1. frame \in Seq(Nat)
  BY FrameChain
<1>2. PICK list : list = b.trades
  OBVIOUS
<1>3. PICK c : GoodChain(c, list, frame, newest)
  BY <1>2, FrameChain
<1>4. /\ c \in [0..Len(frame) -> Seq(Nat)] /\ c[0] = list /\ Len(frame) \in Nat
      /\ \A k \in 1..Len(frame) : c[k] = Known(c[k - 1], frame[k]) /\ Recent(c[k - 1], frame[k])
  BY <1>1, <1>3 DEF GoodChain, KnownChain
<1>5. FoldLeft(Known, list, frame) = c[Len(frame)]
  <2>1. list \in Seq(Nat) /\ KnownChain(c, list, frame)
    BY <1>2, <1>3 DEF GoodChain, Numbered
  <2>2. QED
    BY <1>1, <2>1, KnownIsFold
<1> DEFINE withTrades(l) == [b EXCEPT !.trades = l, !.seen = Latest(l)]
           d == [k \in 0..Len(frame) |-> withTrades(c[k])]
<1>6. \A k \in 0..Len(frame) : c[k] \in Seq(Nat)
  BY <1>4
<1>7. ASSUME NEW l \in Seq(Nat) PROVE withTrades(l) \in BuildRecord /\ withTrades(l).trades = l /\ withTrades(l).seen = Latest(l)
  <2>1. Latest(l) \in Seq(Nat)
    <3>1. PICK n : n = IF Len(l) < Window THEN Len(l) ELSE Window
      OBVIOUS
    <3>2. n \in Nat /\ n <= Len(l)
      BY <3>1, ArchiveAssumption
    <3>3. \A j \in 1..n : Len(l) - n + j \in 1..Len(l)
      BY <3>2
    <3>4. \A j \in 1..n : l[Len(l) - n + j] \in Nat
      BY <3>3
    <3>5. Latest(l) = [j \in 1..n |-> l[Len(l) - n + j]]
      BY <3>1 DEF Latest
    <3>6. QED
      BY <3>2, <3>4, <3>5
  <2>2. QED
    BY <2>1 DEF BuildRecord
<1>8. ASSUME NEW k \in 1..Len(frame)
      PROVE  withTrades(c[k]) = TakeTrade(withTrades(c[k - 1]), frame[k])
  <2>1. k - 1 \in 0..Len(frame) /\ frame[k] \in Nat
    BY <1>1
  <2>2. PICK old \in Seq(Nat) : old = c[k - 1]
    BY <1>6, <2>1
  <2>3. PICK id \in Nat : id = frame[k]
    BY <2>1
  <2>4. c[k] = Known(old, id) /\ Recent(old, id)
    BY <1>4, <2>2, <2>3
  <2>5. (Contains(Latest(old), id) <=> Contains(old, id)) /\ SeenAfter(Latest(old), id) = Latest(Append(old, id))
    BY <2>4, LatestFacts
  <2>6. PICK r : r = withTrades(old)
    OBVIOUS
  <2>7. r \in BuildRecord /\ r.trades = old /\ r.seen = Latest(old)
    BY <1>7, <2>6
  <2>8. CASE Contains(old, id)
    BY <2>2, <2>3, <2>4, <2>5, <2>6, <2>7, <2>8 DEF Known, TakeTrade
  <2>9. CASE ~Contains(old, id)
    <3>1. c[k] = Append(old, id)
      BY <2>4, <2>9 DEF Known
    <3>2. TakeTrade(r, id) = [r EXCEPT !.seen = Latest(Append(old, id)), !.trades = Append(old, id)]
      BY <2>5, <2>7, <2>9 DEF TakeTrade
    <3>3. [r EXCEPT !.seen = Latest(Append(old, id)), !.trades = Append(old, id)] = withTrades(Append(old, id))
      BY <2>6 DEF BuildRecord
    <3>4. QED
      BY <2>2, <2>3, <2>6, <3>1, <3>2, <3>3
  <2>10. QED
    BY <2>8, <2>9
<1>9. withTrades(c[0]) = b
  BY <1>2, <1>4 DEF BuildRecord
<1>10. \A k \in 0..Len(frame) : withTrades(c[k]) \in BuildRecord
  BY <1>6, <1>7
<1> HIDE DEF withTrades
<1>11. TakenChain(d, b, frame)
  <2>1. d \in [0..Len(frame) -> BuildRecord]
    BY <1>10
  <2>2. d[0] = b
    BY <1>4, <1>9
  <2>3. ASSUME NEW k \in 1..Len(frame) PROVE d[k] = TakeTrade(d[k - 1], frame[k])
    <3>1. k \in 0..Len(frame) /\ k - 1 \in 0..Len(frame)
      BY <1>4
    <3>2. QED
      BY <1>8, <3>1
  <2> HIDE DEF d
  <2>4. QED
    BY <2>1, <2>2, <2>3 DEF TakenChain
<1>12. FoldLeft(TakeTrade, b, frame) = d[Len(frame)]
  <2> HIDE DEF d
  <2>1. QED
    BY <1>1, <1>11, TakenIsFold
<1>13. Len(frame) \in 0..Len(frame)
  BY <1>4
<1>14. d[Len(frame)] = withTrades(c[Len(frame)])
  BY <1>13
<1>15. FoldLeft(TakeTrade, b, frame) \in BuildRecord
  BY <1>10, <1>12, <1>13, <1>14
<1>16. FoldLeft(TakeTrade, b, frame) = [b EXCEPT !.trades = c[Len(frame)], !.seen = Latest(c[Len(frame)])]
  BY <1>12, <1>14 DEF withTrades
<1>17. QED
  BY <1>2, <1>5, <1>15, <1>16

\* The lists of a frame end with all trades there are.
LEMMA FrameKnown ==
  ASSUME NEW m \in Nat, NEW list, Numbered(list, m), NEW newest, NEW frame, IsFrame(frame, m, newest)
  PROVE  frame \in Seq(Nat) /\ Numbered(FoldLeft(Known, list, frame), newest)
<1>1. frame \in Seq(Nat)
  BY FrameChain
<1>2. PICK c : GoodChain(c, list, frame, newest)
  BY FrameChain
<1>3. list \in Seq(Nat) /\ KnownChain(c, list, frame)
  BY <1>2 DEF GoodChain, Numbered
<1>4. FoldLeft(Known, list, frame) = c[Len(frame)]
  BY <1>1, <1>3, KnownIsFold
<1>5. Numbered(c[Len(frame)], newest)
  BY <1>2 DEF GoodChain
<1>6. QED
  BY <1>1, <1>4, <1>5

-----------------------------------------------------------------------------
(* The invariant.                                                          *)

Line == [trades : Seq(Nat), book : BOOLEAN]

\* The lines: each has what an exchange may send after those before it, and so the trades of
\* the first lines are the first trades.
LogHolds(lines, newest) ==
  /\ lines \in Seq(Line)
  /\ \A n \in 0..Len(lines) : Numbered(TradesOf(lines, n), Len(TradesOf(lines, n)))
  /\ \A n \in 1..Len(lines) : IsFrame(lines[n].trades, Len(TradesOf(lines, n - 1)), Len(TradesOf(lines, n)))
  /\ newest = Len(TradesOf(lines, Len(lines)))

\* A build has the trades and the snapshots of the lines it has read, and the bucket of ids
\* is the end of the trades.
ReadSoFar(b, lines) ==
  /\ b \in BuildRecord /\ b.line <= Len(lines)
  /\ b.trades = TradesOf(lines, b.line) /\ b.seen = Latest(b.trades)
  /\ AreBookLines(b.snapshots, lines, b.line)

\* At its end it has written what is not left to write.
Written(b, files) ==
  /\ b.at \in {"flush", "finish"} => b.left \subseteq TradeArray
  /\ b.at = "finish" => \A a \in TradeArray \ b.left : files[a] = b.trades
  /\ b.at \in {"replace", "sidecar"} =>
       /\ b.left \subseteq SnapshotArray
       /\ \A a \in TradeArray : files[a] = b.trades
       /\ \A a \in SnapshotArray \ b.left : files[a] = b.snapshots
  /\ b.at = "sidecar" => b.left = {}

\* Files of a build over a beginning of the log.
AreBuilt(files, lines) ==
  \E n \in 0..Len(lines) :
    /\ \A a \in TradeArray : files[a] = TradesOf(lines, n)
    /\ \A a \in SnapshotArray : AreBookLines(files[a], lines, n)

\* The sidecar, whenever it is there, is of files a build has made.
ArchiveInv ==
  /\ LogHolds(log, made)
  /\ \E files : array = [a \in Array |-> files[a]]
  /\ build # None => ReadSoFar(build, log) /\ Written(build, array)
  /\ archived # None => AreBuilt(archived.hash, log)

\* The snapshots of lines remain theirs.
LEMMA BookLinesSame ==
  ASSUME NEW lines, NEW other, NEW n \in Nat, \A k \in 1..n : lines[k] = other[k], NEW snapshots
  PROVE  AreBookLines(snapshots, lines, n) <=> AreBookLines(snapshots, other, n)
<1>1. {k \in 1..n : lines[k].book} = {k \in 1..n : other[k].book}
  OBVIOUS
<1>2. QED
  BY <1>1 DEF AreBookLines

\* What was read of a log, and what was built from it, remains that when a line is recorded.
LEMMA StillRead ==
  ASSUME NEW lines \in Seq(Line), NEW line \in Line, NEW longer, longer = Append(lines, line)
  PROVE  /\ \A n \in 0..Len(lines) : TradesOf(longer, n) = TradesOf(lines, n)
         /\ \A b : ReadSoFar(b, lines) => ReadSoFar(b, longer)
         /\ \A files : AreBuilt(files, lines) => AreBuilt(files, longer)
<1>1. PICK len \in Nat : len = Len(lines)
  OBVIOUS
<1>2. Len(longer) = len + 1 /\ \A k \in 1..len : lines[k] = longer[k]
  BY <1>1
<1>3. ASSUME NEW n \in 0..len
      PROVE  TradesOf(longer, n) = TradesOf(lines, n) /\ n \in Nat /\ \A k \in 1..n : lines[k] = longer[k]
  <2>1. n \in Nat /\ \A k \in 1..n : lines[k] = longer[k]
    BY <1>2
  <2>2. QED
    BY <2>1, TradesOfSame
<1>4. ASSUME NEW n \in 0..len, NEW snapshots, AreBookLines(snapshots, lines, n)
      PROVE  AreBookLines(snapshots, longer, n)
  BY <1>3, <1>4, BookLinesSame
<1>5. ASSUME NEW b, ReadSoFar(b, lines) PROVE ReadSoFar(b, longer)
  <2>1. b.line \in 0..len /\ b.line <= Len(longer)
    BY <1>1, <1>2, <1>5 DEF ReadSoFar, BuildRecord
  <2>2. TradesOf(longer, b.line) = TradesOf(lines, b.line) /\ AreBookLines(b.snapshots, longer, b.line)
    BY <1>3, <1>4, <1>5, <2>1 DEF ReadSoFar
  <2>3. QED
    BY <1>5, <2>1, <2>2 DEF ReadSoFar
<1>6. ASSUME NEW files, AreBuilt(files, lines) PROVE AreBuilt(files, longer)
  <2>1. PICK n \in 0..len : /\ \A a \in TradeArray : files[a] = TradesOf(lines, n)
                            /\ \A a \in SnapshotArray : AreBookLines(files[a], lines, n)
    BY <1>1, <1>6 DEF AreBuilt
  <2>2. n \in 0..Len(longer) /\ TradesOf(longer, n) = TradesOf(lines, n)
    BY <1>2, <1>3
  <2>3. \A a \in SnapshotArray : AreBookLines(files[a], longer, n)
    BY <1>4, <2>1
  <2>4. QED
    BY <2>1, <2>2, <2>3 DEF AreBuilt
<1>7. QED
  BY <1>1, <1>3, <1>5, <1>6

\* A line with what an exchange may send is recorded.
LEMMA LineRecorded ==
  ASSUME ArchiveInv, NEW trades, NEW book \in BOOLEAN, RecordLine(trades, book), IsFrame(trades, made, made')
  PROVE  ArchiveInv'
<1>1. PICK old : old = log
  OBVIOUS
<1>2. PICK line : line = [trades |-> trades, book |-> book]
  OBVIOUS
<1>3. PICK longer : longer = Append(old, line)
  OBVIOUS
<1>4. LogHolds(old, made)
  BY <1>1 DEF ArchiveInv
<1>5. PICK len \in Nat : len = Len(old)
  BY <1>4 DEF LogHolds
<1>6. PICK list : list = TradesOf(old, len)
  OBVIOUS
<1>7. Numbered(list, made) /\ made \in Nat
  <2>1. len \in 0..Len(old)
    BY <1>5
  <2>2. Numbered(list, Len(list)) /\ made = Len(list)
    BY <1>4, <1>5, <1>6, <2>1 DEF LogHolds
  <2>3. QED
    BY <2>2 DEF Numbered
<1>8. PICK newest : newest = made'
  OBVIOUS
<1>9. trades \in Seq(Nat) /\ Numbered(FoldLeft(Known, list, trades), newest)
  BY <1>7, <1>8, FrameKnown
<1>10. line \in Line /\ old \in Seq(Line)
  BY <1>2, <1>4, <1>9 DEF Line, LogHolds
<1>11. Len(longer) = len + 1 /\ longer[len + 1] = line /\ longer \in Seq(Line) /\ \A n \in 1..len : longer[n] = old[n]
  BY <1>3, <1>5, <1>10
<1>12. \A n \in 0..len : TradesOf(longer, n) = TradesOf(old, n)
  BY <1>3, <1>5, <1>10, StillRead
<1>13. TradesOf(longer, len + 1) = FoldLeft(Known, list, trades)
  <2>1. len \in 0..len
    OBVIOUS
  <2>2. TradesOf(longer, len) = list
    BY <1>6, <1>12, <2>1
  <2>3. TradesOf(longer, len + 1) = FoldLeft(Known, list, longer[len + 1].trades)
    BY <2>2, TradesOfNext
  <2>4. longer[len + 1].trades = trades
    BY <1>2, <1>11
  <2>5. QED
    BY <2>3, <2>4
<1>14. LogHolds(longer, newest)
  <2>1. PICK new : new = FoldLeft(Known, list, trades)
    OBVIOUS
  <2>2. Numbered(new, newest) /\ Len(new) = newest /\ TradesOf(longer, len + 1) = new
    BY <1>9, <1>13, <2>1 DEF Numbered
  <2>3. ASSUME NEW n \in 0..(len + 1)
        PROVE  Numbered(TradesOf(longer, n), Len(TradesOf(longer, n)))
    <3>1. CASE n \in 0..len
      BY <1>4, <1>5, <1>12, <3>1 DEF LogHolds
    <3>2. CASE n = len + 1
      BY <2>2, <3>2
    <3>3. QED
      BY <3>1, <3>2
  <2>4. ASSUME NEW n \in 1..(len + 1)
        PROVE  IsFrame(longer[n].trades, Len(TradesOf(longer, n - 1)), Len(TradesOf(longer, n)))
    <3>1. CASE n \in 1..len
      <4>1. n \in 0..len /\ n - 1 \in 0..len
        BY <3>1
      <4>2. TradesOf(longer, n) = TradesOf(old, n) /\ TradesOf(longer, n - 1) = TradesOf(old, n - 1) /\ longer[n] = old[n]
        BY <1>11, <1>12, <3>1, <4>1
      <4>3. QED
        BY <1>4, <1>5, <3>1, <4>2 DEF LogHolds
    <3>2. CASE n = len + 1
      <4>1. n - 1 = len /\ len \in 0..len
        BY <3>2
      <4>2. TradesOf(longer, n - 1) = list /\ TradesOf(longer, n) = new /\ longer[n].trades = trades
        BY <1>2, <1>6, <1>11, <1>12, <2>2, <3>2, <4>1
      <4>3. Len(list) = made
        BY <1>7 DEF Numbered
      <4>4. QED
        BY <1>8, <2>2, <4>2, <4>3
    <3>3. QED
      BY <3>1, <3>2
  <2>5. QED
    BY <1>11, <2>2, <2>3, <2>4 DEF LogHolds
<1>15. log' = longer /\ array' = array /\ archived' = archived /\ build' = build
  BY <1>1, <1>2, <1>3 DEF RecordLine
<1>16. (build # None => ReadSoFar(build, longer)) /\ (archived # None => AreBuilt(archived.hash, longer))
  BY <1>1, <1>3, <1>10, StillRead DEF ArchiveInv
<1>17. QED
  BY <1>8, <1>14, <1>15, <1>16 DEF ArchiveInv

\* The last trades are what an exchange may send, the newest last or first.
LEMMA LastTradesFrame ==
  ASSUME NEW m \in Nat, NEW missed \in 0..Repeated, NEW newest, newest = m + missed, LastTrades(newest) # <<>>
  PROVE  IsFrame(LastTrades(newest), m, newest) /\ IsFrame(Reverse(LastTrades(newest)), m, newest)
<1>1. Repeated \in Nat \ {0} /\ newest \in Nat
  BY ArchiveAssumption
<1>2. PICK n : n = IF newest < Repeated THEN newest ELSE Repeated
  OBVIOUS
<1>3. n \in Nat /\ n <= newest /\ n <= Repeated /\ missed <= n
  BY <1>1, <1>2
<1>4. PICK sent : sent = LastTrades(newest)
  OBVIOUS
<1>5. sent = [k \in 1..n |-> newest - n + k]
  BY <1>2, <1>4 DEF LastTrades
<1>6. \A k \in 1..n : newest - n + k \in Nat
  BY <1>1, <1>3
<1>7. sent \in Seq(Nat) /\ Len(sent) = n /\ \A k \in 1..n : sent[k] = newest - n + k
  BY <1>3, <1>5, <1>6
<1>8. n # 0
  BY <1>4, <1>7
<1>9. PICK from : from = newest - n + 1
  OBVIOUS
<1>10. Reaches(from, m, newest)
  BY <1>1, <1>3, <1>8, <1>9 DEF Reaches
<1>11. Rises(sent, from, newest)
  <2>1. Len(sent) = newest - from + 1
    BY <1>1, <1>3, <1>7, <1>9
  <2>2. \A k \in 1..Len(sent) : sent[k] = from + k - 1
    BY <1>1, <1>3, <1>7, <1>9
  <2>3. QED
    BY <1>7, <2>1, <2>2 DEF Rises
<1>12. Falls(Reverse(sent), from, newest)
  <2>1. PICK back : back = Reverse(sent)
    OBVIOUS
  <2>2. back = [j \in 1..n |-> sent[n - j + 1]]
    BY <1>7, <2>1 DEF Reverse
  <2>3. \A j \in 1..n : n - j + 1 \in 1..n
    BY <1>3
  <2>4. ASSUME NEW j \in 1..n PROVE sent[n - j + 1] \in Nat
    <3>1. PICK i \in 1..n : i = n - j + 1
      BY <2>3
    <3>2. sent[i] \in Nat
      BY <1>3, <1>7
    <3>3. QED
      BY <3>1, <3>2
  <2>5. back \in Seq(Nat) /\ Len(back) = n /\ \A j \in 1..n : back[j] = sent[n - j + 1]
    BY <1>3, <2>2, <2>4
  <2>6. \A j \in 1..n : back[j] = newest - n + (n - j + 1)
    BY <1>7, <2>3, <2>5
  <2>7. \A j \in 1..n : newest - n + (n - j + 1) = newest - j + 1
    BY <1>1, <1>3
  <2>8. Len(back) = newest - from + 1
    BY <1>1, <1>3, <1>9, <2>5
  <2>9. \A j \in 1..Len(back) : back[j] = newest - j + 1
    BY <2>5, <2>6, <2>7
  <2>10. QED
    BY <2>1, <2>5, <2>8, <2>9 DEF Falls
<1>13. QED
  BY <1>4, <1>10, <1>11, <1>12 DEF IsFrame

\* The exchange has made as many trades as the lines have.
LEMMA MadeType ==
  ASSUME ArchiveInv
  PROVE  made \in Nat
<1>1. log \in Seq(Line)
  BY DEF ArchiveInv, LogHolds
<1>2. Len(log) \in 0..Len(log)
  BY <1>1
<1>3. Numbered(TradesOf(log, Len(log)), made)
  BY <1>2 DEF ArchiveInv, LogHolds
<1>4. TradesOf(log, Len(log)) \in Seq(Nat) /\ Len(TradesOf(log, Len(log))) = made
  BY <1>3 DEF Numbered
<1>5. QED
  BY <1>4

\* A book is recorded.
LEMMA RecordBookHolds ==
  ASSUME ArchiveInv, RecordBook
  PROVE  ArchiveInv'
<1>1. RecordLine(<<>>, TRUE) /\ made' = made
  BY DEF RecordBook
<1>2. IsFrame(<<>>, made, made')
  BY <1>1 DEF IsFrame
<1>3. QED
  BY <1>1, <1>2, LineRecorded

\* A trade is recorded.
LEMMA RecordTradeHolds ==
  ASSUME ArchiveInv, RecordTrade
  PROVE  ArchiveInv'
<1>1. RecordLine(<<made + 1>>, FALSE) /\ made' = made + 1
  BY DEF RecordTrade
<1>2. made \in Nat
  BY MadeType
<1>3. PICK frame : frame = <<made + 1>>
  OBVIOUS
<1>4. Reaches(made + 1, made, made')
  BY <1>1, <1>2, ArchiveAssumption DEF Reaches
<1>5. Rises(frame, made + 1, made')
  BY <1>1, <1>2, <1>3 DEF Rises
<1>6. IsFrame(frame, made, made')
  BY <1>4, <1>5 DEF IsFrame
<1>7. QED
  BY <1>1, <1>3, <1>6, LineRecorded

\* The last trades are sent again.
LEMMA ReconnectHolds ==
  ASSUME ArchiveInv, Reconnect
  PROVE  ArchiveInv'
<1>1. PICK missed \in 0..Repeated :
        \E frame \in {LastTrades(made + missed), Reverse(LastTrades(made + missed))} :
          made' = made + missed /\ LastTrades(made + missed) # <<>> /\ RecordLine(frame, FALSE)
  BY DEF Reconnect
<1>2. made \in Nat
  BY MadeType
<1>3. PICK newest : newest = made + missed
  OBVIOUS
<1>4. PICK frame \in {LastTrades(newest), Reverse(LastTrades(newest))} :
        made' = newest /\ LastTrades(newest) # <<>> /\ RecordLine(frame, FALSE)
  BY <1>1, <1>3
<1>5. IsFrame(frame, made, made')
  BY <1>2, <1>3, <1>4, LastTradesFrame
<1>6. QED
  BY <1>4, <1>5, LineRecorded

-----------------------------------------------------------------------------
(* The steps of the build.                                                 *)

\* What the steps of the build leave as it is, and what the build that runs has.
LEMMA BuildFacts ==
  ASSUME ArchiveInv
  PROVE  /\ LogHolds(log, made) /\ log \in Seq(Line) /\ Len(log) \in Nat
         /\ array = [a \in Array |-> array[a]]
         /\ build # None => /\ ReadSoFar(build, log) /\ Written(build, array) /\ build \in BuildRecord
                            /\ build.line \in Nat /\ build.line <= Len(log)
  BY DEF ArchiveInv, LogHolds, ReadSoFar, BuildRecord

\* The invariant after a step that records nothing.
LEMMA BuildStepHolds ==
  ASSUME ArchiveInv, made' = made, log' = log,
         \E files : array' = [a \in Array |-> files[a]],
         build' # None => ReadSoFar(build', log) /\ Written(build', array'),
         archived' # None => AreBuilt(archived'.hash, log)
  PROVE  ArchiveInv'
  BY DEF ArchiveInv

\* A build starts: it has read nothing.
LEMMA StartBuildHolds ==
  ASSUME ArchiveInv, StartBuild
  PROVE  ArchiveInv'
<1>1. PICK cap \in Cap :
        build' = [at |-> "read", line |-> 0, cap |-> cap, seen |-> <<>>, trades |-> <<>>,
                  snapshots |-> <<>>, flushed |-> 0, left |-> {}]
  BY DEF StartBuild
<1>2. PICK b : b = [at |-> "read", line |-> 0, cap |-> cap, seen |-> <<>>, trades |-> <<>>,
                    snapshots |-> <<>>, flushed |-> 0, left |-> {}]
  OBVIOUS
<1>3. b \in BuildRecord
  <2>1. <<>> \in Seq(Nat) /\ 0 \in Nat /\ {} \in SUBSET Array
    OBVIOUS
  <2>2. QED
    BY <1>2, <2>1 DEF BuildRecord
<1>4. b.at = "read" /\ b.line = 0 /\ b.trades = <<>> /\ b.seen = <<>> /\ b.snapshots = <<>>
  BY <1>2
<1>5. 0 <= Len(log) /\ TradesOf(log, 0) = <<>>
  <2>1. 0 \in Nat
    OBVIOUS
  <2>2. TradesOf(log, 0) = <<>>
    BY <2>1, TradesOfNext
  <2>3. QED
    BY <2>2, BuildFacts
<1>6. Latest(<<>>) = <<>>
  <2>1. PICK n : n = IF 0 < Window THEN 0 ELSE Window
    OBVIOUS
  <2>2. n = 0
    BY <2>1, ArchiveAssumption
  <2>3. PICK none : none = <<>>
    OBVIOUS
  <2>4. none \in Seq(Nat) /\ Len(none) = 0
    BY <2>3
  <2>5. Latest(none) = [j \in 1..0 |-> none[Len(none) - 0 + j]]
    BY <2>1, <2>2, <2>4 DEF Latest
  <2>6. Latest(none) = <<>>
    BY <2>5
  <2>7. QED
    BY <2>3, <2>6
<1>7. AreBookLines(<<>>, log, 0)
  <2>1. PICK none : none = <<>>
    OBVIOUS
  <2>2. DOMAIN none = {}
    BY <2>1
  <2>3. Range(none) = {}
    BY <2>2 DEF Range
  <2>4. {k \in 1..0 : log[k].book} = {}
    OBVIOUS
  <2>5. QED
    BY <2>1, <2>2, <2>3, <2>4 DEF AreBookLines
<1>8. ReadSoFar(b, log)
  BY <1>3, <1>4, <1>5, <1>6, <1>7 DEF ReadSoFar
<1>9. Written(b, array')
  BY <1>4 DEF Written
<1>10. /\ made' = made /\ log' = log /\ archived' = archived
       /\ \E files : array' = [a \in Array |-> files[a]]
  <2>1. array' = [a \in Array |-> IF a \in TradeArray THEN <<>> ELSE array[a]]
    BY DEF StartBuild
  <2>2. PICK files : files = [a \in Array |-> IF a \in TradeArray THEN <<>> ELSE array[a]]
    OBVIOUS
  <2>3. files = [a \in Array |-> files[a]]
    BY <2>2
  <2>4. QED
    BY <2>1, <2>2, <2>3 DEF StartBuild
<1>11. QED
  BY <1>1, <1>2, <1>8, <1>9, <1>10, BuildStepHolds DEF ArchiveInv

\* The lines of books after a line more.
LEMMA BookLinesNext ==
  ASSUME NEW lines \in Seq(Line), NEW n \in Nat, n + 1 <= Len(lines), NEW old \in Seq(Nat), AreBookLines(old, lines, n),
         NEW new, new = IF lines[n + 1].book THEN Append(old, n + 1) ELSE old
  PROVE  AreBookLines(new, lines, n + 1)
<1>1. PICK len \in Nat : len = Len(old)
  OBVIOUS
<1>2. DOMAIN old = 1..len /\ \A j \in 1..len : old[j] \in 1..n
  <2>1. DOMAIN old = 1..len
    BY <1>1
  <2>2. \A j \in 1..len : old[j] \in Range(old)
    BY <2>1 DEF Range
  <2>3. QED
    BY <2>1, <2>2 DEF AreBookLines
<1>3. \A k : k \in Range(old) <=> k \in 1..n /\ lines[k].book
  BY DEF AreBookLines
<1>4. \A j, k \in 1..len : j < k => old[j] < old[k]
  BY <1>2 DEF AreBookLines
<1>5. \A k : k \in 1..(n + 1) <=> k \in 1..n \/ k = n + 1
  OBVIOUS
<1>6. CASE lines[n + 1].book
  <2>1. new \in Seq(Nat) /\ Len(new) = len + 1 /\ new[len + 1] = n + 1 /\ \A j \in 1..len : new[j] = old[j]
    BY <1>1, <1>6
  <2>2. DOMAIN new = 1..(len + 1)
    BY <1>1, <2>1
  <2>3. \A k : k \in Range(new) <=> k \in 1..(n + 1) /\ lines[k].book
    <3>1. ASSUME NEW k, k \in Range(new)
          PROVE  k \in 1..(n + 1) /\ lines[k].book
      <4>1. PICK j \in 1..(len + 1) : new[j] = k
        BY <2>2, <3>1 DEF Range
      <4>2. CASE j \in 1..len
        <5>1. k = old[j] /\ k \in Range(old)
          BY <1>2, <2>1, <4>1, <4>2 DEF Range
        <5>2. QED
          BY <1>3, <1>5, <5>1
      <4>3. CASE j = len + 1
        BY <1>5, <1>6, <2>1, <4>1, <4>3
      <4>4. QED
        BY <1>1, <4>1, <4>2, <4>3
    <3>2. ASSUME NEW k, k \in 1..(n + 1), lines[k].book
          PROVE  k \in Range(new)
      <4>1. CASE k \in 1..n
        <5>1. k \in Range(old)
          BY <1>3, <3>2, <4>1
        <5>2. PICK j \in 1..len : old[j] = k
          BY <1>2, <5>1 DEF Range
        <5>3. j \in DOMAIN new /\ new[j] = k
          BY <1>1, <2>1, <2>2, <5>2
        <5>4. QED
          BY <5>3 DEF Range
      <4>2. CASE k = n + 1
        <5>1. len + 1 \in DOMAIN new /\ new[len + 1] = k
          BY <1>1, <2>1, <2>2, <4>2
        <5>2. QED
          BY <5>1 DEF Range
      <4>3. QED
        BY <1>5, <3>2, <4>1, <4>2
    <3>3. QED
      BY <3>1, <3>2
  <2>4. Range(new) = {k \in 1..(n + 1) : lines[k].book}
    BY <2>3
  <2>5. ASSUME NEW j \in 1..(len + 1), NEW k \in 1..(len + 1), j < k
        PROVE  new[j] < new[k]
    <3>1. j \in 1..len
      BY <1>1, <2>5
    <3>2. CASE k \in 1..len
      BY <1>4, <2>1, <2>5, <3>1, <3>2
    <3>3. CASE k = len + 1
      <4>1. old[j] \in 1..n /\ new[j] = old[j] /\ new[k] = n + 1
        BY <1>2, <2>1, <3>1, <3>3
      <4>2. PICK x \in 1..n : x = old[j]
        BY <4>1
      <4>3. x < n + 1
        OBVIOUS
      <4>4. QED
        BY <4>1, <4>2, <4>3
    <3>4. QED
      BY <1>1, <3>2, <3>3
  <2>6. QED
    BY <2>2, <2>4, <2>5 DEF AreBookLines
<1>7. CASE ~lines[n + 1].book
  <2>1. new = old
    BY <1>7
  <2>2. Range(old) = {k \in 1..(n + 1) : lines[k].book}
    BY <1>3, <1>5, <1>7
  <2>3. QED
    BY <2>1, <2>2 DEF AreBookLines
<1>8. QED
  BY <1>6, <1>7

\* A line that is read.
LEMMA LineTaken ==
  ASSUME NEW lines, NEW newest, LogHolds(lines, newest), NEW b, ReadSoFar(b, lines), b.line < Len(lines),
         NEW r, r = TakeLine(b, lines[b.line + 1])
  PROVE  ReadSoFar(r, lines) /\ r.at = b.at
<1>1. lines \in Seq(Line) /\ b \in BuildRecord
  BY DEF LogHolds, ReadSoFar
<1>2. PICK n \in Nat : n = b.line
  BY <1>1 DEF BuildRecord
<1>3. n + 1 \in 1..Len(lines) /\ n \in 0..Len(lines) /\ n + 1 \in 0..Len(lines) /\ n + 1 - 1 = n
  BY <1>1, <1>2
<1>4. PICK line : line = lines[n + 1]
  OBVIOUS
<1>5. line \in Line
  BY <1>1, <1>3, <1>4
<1>6. PICK before : before = TradesOf(lines, n)
  OBVIOUS
<1>7. PICK after : after = TradesOf(lines, n + 1)
  OBVIOUS
<1>8. b.trades = before /\ b.seen = Latest(before) /\ AreBookLines(b.snapshots, lines, n)
  BY <1>2, <1>6 DEF ReadSoFar
<1>9. Numbered(before, Len(before)) /\ Numbered(after, Len(after)) /\ IsFrame(line.trades, Len(before), Len(after))
  BY <1>3, <1>4, <1>6, <1>7 DEF LogHolds
<1>10. Len(before) \in Nat
  BY <1>9 DEF Numbered
<1>11. after = FoldLeft(Known, before, line.trades)
  BY <1>4, <1>6, <1>7, TradesOfNext
<1>12. PICK taken : taken = FoldLeft(TakeTrade, b, line.trades)
  OBVIOUS
<1>13. taken = [b EXCEPT !.trades = after, !.seen = Latest(after)] /\ taken \in BuildRecord
  <2>1. PICK frame : frame = line.trades
    OBVIOUS
  <2>2. PICK m \in Nat : m = Len(before)
    BY <1>10
  <2>3. PICK end : end = Len(after)
    OBVIOUS
  <2>4. Numbered(b.trades, m) /\ b.seen = Latest(b.trades) /\ IsFrame(frame, m, end)
    BY <1>8, <1>9, <2>1, <2>2, <2>3
  <2>5. PICK new : /\ new = FoldLeft(Known, b.trades, frame)
                   /\ FoldLeft(TakeTrade, b, frame) = [b EXCEPT !.trades = new, !.seen = Latest(new)]
                   /\ FoldLeft(TakeTrade, b, frame) \in BuildRecord
    BY <1>1, <2>4, FrameTaken
  <2>6. new = after
    BY <1>8, <1>11, <2>1, <2>5
  <2>7. QED
    BY <1>12, <2>1, <2>5, <2>6
<1>14. PICK snapshots : snapshots = IF line.book THEN Append(b.snapshots, n + 1) ELSE b.snapshots
  OBVIOUS
<1>15. b.snapshots \in Seq(Nat) /\ snapshots \in Seq(Nat)
  BY <1>1, <1>14 DEF BuildRecord
<1>16. AreBookLines(snapshots, lines, n + 1)
  <2>1. PICK old \in Seq(Nat) : old = b.snapshots
    BY <1>15
  <2>2. snapshots = IF lines[n + 1].book THEN Append(old, n + 1) ELSE old
    BY <1>4, <1>14, <2>1
  <2>3. AreBookLines(old, lines, n) /\ n + 1 <= Len(lines)
    BY <1>3, <1>8, <2>1
  <2>4. QED
    BY <1>1, <2>2, <2>3, BookLinesNext
<1>17. taken.line = n /\ taken.snapshots = b.snapshots /\ taken.at = b.at /\ taken.trades = after /\ taken.seen = Latest(after)
  BY <1>1, <1>2, <1>13 DEF BuildRecord
<1>18. r = [taken EXCEPT !.line = n + 1, !.snapshots = snapshots]
  <2>1. r = [taken EXCEPT !.line = @ + 1, !.snapshots = IF line.book THEN Append(@, b.line + 1) ELSE @]
    BY <1>2, <1>4, <1>12 DEF TakeLine
  <2>2. QED
    BY <1>2, <1>14, <1>17, <2>1
<1>19. /\ r \in BuildRecord /\ r.line = n + 1 /\ r.snapshots = snapshots /\ r.at = b.at
       /\ r.trades = after /\ r.seen = Latest(after)
  <2>1. n + 1 \in Nat
    OBVIOUS
  <2>2. r \in BuildRecord /\ r.line = n + 1 /\ r.snapshots = snapshots
    BY <1>13, <1>15, <1>18, <2>1 DEF BuildRecord
  <2>3. r.at = taken.at /\ r.trades = taken.trades /\ r.seen = taken.seen
    BY <1>13, <1>18 DEF BuildRecord
  <2>4. QED
    BY <1>17, <2>2, <2>3
<1>20. QED
  BY <1>3, <1>7, <1>16, <1>19 DEF ReadSoFar

\* The build at another place with the same of the log.
LEMMA ReadStays ==
  ASSUME NEW lines, NEW b, ReadSoFar(b, lines), NEW r \in BuildRecord,
         r.line = b.line, r.trades = b.trades, r.seen = b.seen, r.snapshots = b.snapshots
  PROVE  ReadSoFar(r, lines)
  BY DEF ReadSoFar

\* A line is read.
LEMMA ReadLineHolds ==
  ASSUME ArchiveInv, ReadLine
  PROVE  ArchiveInv'
<1>1. build # None /\ build.at = "read" /\ build.line < Len(log) /\ log' = log /\ made' = made /\ array' = array /\ archived' = archived
  BY DEF ReadLine
<1>2. LogHolds(log, made) /\ ReadSoFar(build, log)
  BY <1>1, BuildFacts
<1>3. PICK r : r = TakeLine(build, log[build.line + 1])
  OBVIOUS
<1>4. ReadSoFar(r, log) /\ r.at = "read"
  BY <1>1, <1>2, <1>3, LineTaken
<1>5. build' = IF Len(r.trades) - r.flushed >= TradeChunk THEN [r EXCEPT !.at = "flush", !.left = TradeArray] ELSE r
  BY <1>3 DEF ReadLine
<1>6. ReadSoFar(build', log) /\ Written(build', array')
  <2>1. CASE build' = r
    BY <1>4, <2>1 DEF Written
  <2>2. CASE build' = [r EXCEPT !.at = "flush", !.left = TradeArray]
    <3>1. r \in BuildRecord /\ TradeArray \in SUBSET Array
      BY <1>4 DEF ReadSoFar, Array
    <3>2. [r EXCEPT !.at = "flush", !.left = TradeArray] = [r EXCEPT !.at = "flush", !.left = TradeArray, !.flushed = r.flushed]
          /\ r.flushed \in Nat
      BY <3>1 DEF BuildRecord
    <3>3. PICK b : b = [r EXCEPT !.at = "flush", !.left = TradeArray, !.flushed = r.flushed]
      OBVIOUS
    <3>4. b \in BuildRecord /\ b.at = "flush" /\ b.left = TradeArray
      BY <3>1, <3>2, <3>3 DEF BuildRecord
    <3>5. b.line = r.line /\ b.trades = r.trades /\ b.seen = r.seen /\ b.snapshots = r.snapshots
      BY <3>1, <3>3 DEF BuildRecord
    <3>6. ReadSoFar(b, log)
      BY <1>4, <3>4, <3>5, ReadStays
    <3>7. Written(b, array')
      BY <3>4 DEF Written
    <3>8. QED
      BY <2>2, <3>2, <3>3, <3>6, <3>7
  <2>3. QED
    BY <1>5, <2>1, <2>2
<1>7. QED
  BY <1>1, <1>6, BuildStepHolds DEF ArchiveInv

\* The log is read.
LEMMA EndOfLogHolds ==
  ASSUME ArchiveInv, EndOfLog
  PROVE  ArchiveInv'
<1>1. /\ build # None /\ build' = [build EXCEPT !.at = "finish", !.left = TradeArray]
      /\ log' = log /\ made' = made /\ array' = array /\ archived' = archived
  BY DEF EndOfLog
<1>2. ReadSoFar(build, log) /\ build \in BuildRecord
  BY <1>1, BuildFacts
<1>3. build' = [build EXCEPT !.at = "finish", !.left = TradeArray, !.flushed = build.flushed] /\ build.flushed \in Nat
      /\ TradeArray \in SUBSET Array
  BY <1>1, <1>2 DEF BuildRecord, Array
<1>4. PICK b : b = [build EXCEPT !.at = "finish", !.left = TradeArray, !.flushed = build.flushed]
  OBVIOUS
<1>5. ReadSoFar(b, log) /\ b.at = "finish" /\ b.left = TradeArray
  <2>1. b \in BuildRecord /\ b.at = "finish" /\ b.left = TradeArray
    BY <1>2, <1>3, <1>4 DEF BuildRecord
  <2>2. b.line = build.line /\ b.trades = build.trades /\ b.seen = build.seen /\ b.snapshots = build.snapshots
    BY <1>2, <1>4 DEF BuildRecord
  <2>3. QED
    BY <1>2, <2>1, <2>2, ReadStays
<1>6. Written(b, array')
  BY <1>5 DEF Written
<1>7. QED
  BY <1>1, <1>3, <1>4, <1>5, <1>6, BuildStepHolds DEF ArchiveInv

\* A file is written, the others are left.
LEMMA OneFile ==
  ASSUME NEW files, files = [a \in Array |-> files[a]], NEW a \in Array, NEW new, NEW after,
         after = [files EXCEPT ![a] = new]
  PROVE  after = [x \in Array |-> after[x]] /\ after[a] = new /\ \A x \in Array : x # a => after[x] = files[x]
<1>1. after = [x \in Array |-> IF x = a THEN new ELSE files[x]]
  BY Zenon
<1>2. QED
  BY <1>1

\* An array of trades is written.
LEMMA FlushTradesHolds ==
  ASSUME ArchiveInv, FlushTrades
  PROVE  ArchiveInv'
<1>1. PICK a \in build.left :
        /\ array' = [array EXCEPT ![a] = build.trades]
        /\ build' = IF build.left # {a} THEN [build EXCEPT !.left = @ \ {a}]
                    ELSE IF build.at = "flush" THEN [build EXCEPT !.at = "read", !.left = {}, !.flushed = Len(build.trades)]
                    ELSE [build EXCEPT !.at = "replace", !.left = SnapshotArray]
  BY DEF FlushTrades
<1>2. /\ build # None /\ build.at \in {"flush", "finish"}
      /\ log' = log /\ made' = made /\ archived' = archived
  BY DEF FlushTrades
<1>3. /\ ReadSoFar(build, log) /\ Written(build, array) /\ build \in BuildRecord
      /\ array = [x \in Array |-> array[x]]
  BY <1>2, BuildFacts
<1>4. build.left \subseteq TradeArray /\ a \in TradeArray /\ a \in Array
  BY <1>1, <1>2, <1>3 DEF Written, Array
<1>5. array' = [x \in Array |-> array'[x]] /\ array'[a] = build.trades /\ \A x \in Array : x # a => array'[x] = array[x]
  BY <1>1, <1>3, <1>4, OneFile
<1>6. build.at = "finish" => \A x \in TradeArray \ (build.left \ {a}) : array'[x] = build.trades
  <2>1. \A x \in TradeArray : x \in Array
    BY DEF Array
  <2>2. build.at = "finish" => \A x \in TradeArray \ build.left : array[x] = build.trades
    BY <1>3 DEF Written
  <2>3. QED
    BY <1>5, <2>1, <2>2
<1>7. build.flushed \in Nat /\ Len(build.trades) \in Nat /\ build.left \in SUBSET Array
  BY <1>3 DEF BuildRecord
<1>8. \E b : build' = b /\ ReadSoFar(b, log) /\ Written(b, array')
  <2>1. CASE build.left # {a}
    <3>1. PICK left : left = build.left \ {a}
      OBVIOUS
    <3>2. build' = [build EXCEPT !.at = build.at, !.left = left, !.flushed = build.flushed]
      BY <1>1, <1>3, <2>1, <3>1 DEF BuildRecord
    <3>3. PICK b : b = [build EXCEPT !.at = build.at, !.left = left, !.flushed = build.flushed]
      OBVIOUS
    <3>4. ReadSoFar(b, log) /\ b.at = build.at /\ b.left = left /\ b.trades = build.trades
      <4>1. left \in SUBSET Array
        BY <1>7, <3>1
      <4>2. b \in BuildRecord /\ b.at = build.at /\ b.left = left
        BY <1>3, <3>3, <4>1 DEF BuildRecord
      <4>3. b.line = build.line /\ b.trades = build.trades /\ b.seen = build.seen /\ b.snapshots = build.snapshots
        BY <1>3, <3>3 DEF BuildRecord
      <4>4. QED
        BY <1>3, <4>2, <4>3, ReadStays
    <3>5. Written(b, array')
      BY <1>2, <1>4, <1>6, <3>1, <3>4 DEF Written
    <3>6. QED
      BY <3>2, <3>3, <3>4, <3>5
  <2>2. CASE build.left = {a} /\ build.at = "flush"
    <3>1. build' = [build EXCEPT !.at = "read", !.left = {}, !.flushed = Len(build.trades)]
      BY <1>1, <2>2
    <3>2. PICK b : b = [build EXCEPT !.at = "read", !.left = {}, !.flushed = Len(build.trades)]
      OBVIOUS
    <3>3. ReadSoFar(b, log) /\ b.at = "read"
      <4>1. {} \in SUBSET Array
        OBVIOUS
      <4>2. b \in BuildRecord /\ b.at = "read"
        BY <1>3, <1>7, <3>2, <4>1 DEF BuildRecord
      <4>3. b.line = build.line /\ b.trades = build.trades /\ b.seen = build.seen /\ b.snapshots = build.snapshots
        BY <1>3, <3>2 DEF BuildRecord
      <4>4. QED
        BY <1>3, <4>2, <4>3, ReadStays
    <3>4. Written(b, array')
      BY <3>3 DEF Written
    <3>5. QED
      BY <3>1, <3>2, <3>3, <3>4
  <2>3. CASE build.left = {a} /\ build.at # "flush"
    <3>1. build' = [build EXCEPT !.at = "replace", !.left = SnapshotArray, !.flushed = build.flushed]
      BY <1>1, <1>3, <2>3 DEF BuildRecord
    <3>2. PICK b : b = [build EXCEPT !.at = "replace", !.left = SnapshotArray, !.flushed = build.flushed]
      OBVIOUS
    <3>3. SnapshotArray \in SUBSET Array
      BY DEF Array
    <3>4. ReadSoFar(b, log) /\ b.at = "replace" /\ b.left = SnapshotArray /\ b.trades = build.trades
      <4>1. b \in BuildRecord /\ b.at = "replace" /\ b.left = SnapshotArray
        BY <1>3, <1>7, <3>2, <3>3 DEF BuildRecord
      <4>2. b.line = build.line /\ b.trades = build.trades /\ b.seen = build.seen /\ b.snapshots = build.snapshots
        BY <1>3, <3>2 DEF BuildRecord
      <4>3. QED
        BY <1>3, <4>1, <4>2, ReadStays
    <3>5. \A x \in TradeArray : array'[x] = build.trades
      BY <1>2, <1>6, <2>3
    <3>6. Written(b, array')
      BY <3>4, <3>5 DEF Written
    <3>7. QED
      BY <3>1, <3>2, <3>4, <3>6
  <2>4. QED
    BY <2>1, <2>2, <2>3
<1>9. QED
  BY <1>2, <1>5, <1>8, BuildStepHolds DEF ArchiveInv

\* An array of snapshots is opened.
LEMMA EmptyArrayHolds ==
  ASSUME ArchiveInv, EmptyArray
  PROVE  ArchiveInv'
<1>1. PICK a \in build.left : array' = [array EXCEPT ![a] = <<>>]
  BY DEF EmptyArray
<1>2. /\ build # None /\ build.at = "replace"
      /\ log' = log /\ made' = made /\ archived' = archived /\ build' = build
  BY DEF EmptyArray
<1>3. ReadSoFar(build, log) /\ Written(build, array) /\ array = [x \in Array |-> array[x]]
  BY <1>2, BuildFacts
<1>4. build.left \subseteq SnapshotArray /\ a \in SnapshotArray /\ a \in Array /\ a \notin TradeArray
  BY <1>1, <1>2, <1>3, ArchiveAssumption DEF Written, Array
<1>5. array' = [x \in Array |-> array'[x]] /\ \A x \in Array : x # a => array'[x] = array[x]
  BY <1>1, <1>3, <1>4, OneFile
<1>6. \A x \in TradeArray \cup SnapshotArray : x \in Array
  BY DEF Array
<1>7. Written(build, array')
  BY <1>1, <1>2, <1>3, <1>4, <1>5, <1>6 DEF Written
<1>8. QED
  BY <1>2, <1>3, <1>5, <1>7, BuildStepHolds DEF ArchiveInv

\* An array of snapshots is written.
LEMMA WriteArrayHolds ==
  ASSUME ArchiveInv, WriteArray
  PROVE  ArchiveInv'
<1>1. PICK a \in build.left :
        /\ array' = [array EXCEPT ![a] = build.snapshots]
        /\ build' = [build EXCEPT !.left = @ \ {a}, !.at = IF build.left = {a} THEN "sidecar" ELSE @]
  BY DEF WriteArray
<1>2. /\ build # None /\ build.at = "replace"
      /\ log' = log /\ made' = made /\ archived' = archived
  BY DEF WriteArray
<1>3. /\ ReadSoFar(build, log) /\ Written(build, array) /\ build \in BuildRecord
      /\ array = [x \in Array |-> array[x]]
  BY <1>2, BuildFacts
<1>4. build.left \subseteq SnapshotArray /\ a \in SnapshotArray /\ a \in Array /\ a \notin TradeArray
  BY <1>1, <1>2, <1>3, ArchiveAssumption DEF Written, Array
<1>5. array' = [x \in Array |-> array'[x]] /\ array'[a] = build.snapshots /\ \A x \in Array : x # a => array'[x] = array[x]
  BY <1>1, <1>3, <1>4, OneFile
<1>6. PICK left : left = build.left \ {a}
  OBVIOUS
<1>7. PICK place \in {"replace", "sidecar"} : place = IF build.left = {a} THEN "sidecar" ELSE "replace"
  OBVIOUS
<1>8. build' = [build EXCEPT !.at = place, !.left = left, !.flushed = build.flushed] /\ build.flushed \in Nat /\ left \in SUBSET Array
  BY <1>1, <1>2, <1>3, <1>6, <1>7 DEF BuildRecord
<1>9. PICK b : b = [build EXCEPT !.at = place, !.left = left, !.flushed = build.flushed]
  OBVIOUS
<1>10. /\ ReadSoFar(b, log) /\ b.at = place /\ b.left = left
       /\ b.trades = build.trades /\ b.snapshots = build.snapshots
  <2>1. b \in BuildRecord /\ b.at = place /\ b.left = left
    BY <1>3, <1>7, <1>8, <1>9 DEF BuildRecord
  <2>2. b.line = build.line /\ b.trades = build.trades /\ b.seen = build.seen /\ b.snapshots = build.snapshots
    BY <1>3, <1>9 DEF BuildRecord
  <2>3. QED
    BY <1>3, <2>1, <2>2, ReadStays
<1>11. Written(b, array')
  <2>1. \A x \in TradeArray \cup SnapshotArray : x \in Array
    BY DEF Array
  <2>2. \A x \in TradeArray : array'[x] = build.trades
    BY <1>2, <1>3, <1>4, <1>5, <2>1 DEF Written
  <2>3. \A x \in SnapshotArray \ left : array'[x] = build.snapshots
    BY <1>2, <1>3, <1>4, <1>5, <1>6, <2>1 DEF Written
  <2>4. place = "sidecar" => left = {}
    BY <1>6, <1>7
  <2>5. QED
    BY <1>4, <1>6, <1>7, <1>10, <2>2, <2>3, <2>4 DEF Written
<1>12. QED
  BY <1>2, <1>5, <1>8, <1>9, <1>10, <1>11, BuildStepHolds DEF ArchiveInv

\* The sidecar is written: it is of the files the build has made.
LEMMA WriteSidecarHolds ==
  ASSUME ArchiveInv, WriteSidecar
  PROVE  ArchiveInv'
<1>1. /\ build # None /\ build.at = "sidecar" /\ build' = None
      /\ log' = log /\ made' = made /\ array' = array
      /\ archived' = [snapshots |-> Len(build.snapshots), hash |-> ContentHash]
  BY DEF WriteSidecar
<1>2. /\ ReadSoFar(build, log) /\ Written(build, array)
      /\ build.line \in Nat /\ build.line <= Len(log) /\ Len(log) \in Nat
  BY <1>1, BuildFacts
<1>3. archived'.hash = ContentHash
  BY <1>1
<1>4. \A a \in Array : ContentHash[a] = array[a]
  BY DEF ContentHash
<1>5. PICK n \in 0..Len(log) : n = build.line
  BY <1>2
<1>6. \A a \in TradeArray : ContentHash[a] = TradesOf(log, n)
  BY <1>1, <1>2, <1>4, <1>5 DEF Written, ReadSoFar, Array
<1>7. \A a \in SnapshotArray : AreBookLines(ContentHash[a], log, n)
  <2>1. \A a \in SnapshotArray : ContentHash[a] = build.snapshots
    BY <1>1, <1>2, <1>4 DEF Written, Array
  <2>2. AreBookLines(build.snapshots, log, n)
    BY <1>2, <1>5 DEF ReadSoFar
  <2>3. QED
    BY <2>1, <2>2
<1>8. AreBuilt(ContentHash, log)
  BY <1>5, <1>6, <1>7 DEF AreBuilt
<1>9. QED
  BY <1>1, <1>3, <1>8, BuildStepHolds DEF ArchiveInv

\* The invariant is kept by every step.
LEMMA ArchiveStepHolds ==
  ArchiveInv /\ [ArchiveNext]_archiveVars => ArchiveInv'
<1> SUFFICES ASSUME ArchiveInv, [ArchiveNext]_archiveVars
             PROVE  ArchiveInv'
  OBVIOUS
<1>1. CASE RecordBook
  BY <1>1, RecordBookHolds
<1>2. CASE RecordTrade
  BY <1>2, RecordTradeHolds
<1>3. CASE Reconnect
  BY <1>3, ReconnectHolds
<1>4. CASE StartBuild
  BY <1>4, StartBuildHolds
<1>5. CASE ReadLine
  BY <1>5, ReadLineHolds
<1>6. CASE EndOfLog
  BY <1>6, EndOfLogHolds
<1>7. CASE FlushTrades
  BY <1>7, FlushTradesHolds
<1>8. CASE EmptyArray
  BY <1>8, EmptyArrayHolds
<1>9. CASE WriteArray
  BY <1>9, WriteArrayHolds
<1>10. CASE EmptySidecar
  <2>1. made' = made /\ log' = log /\ array' = array /\ build' = build /\ archived' = None
    BY <1>10 DEF EmptySidecar
  <2>2. QED
    BY <2>1, BuildStepHolds DEF ArchiveInv
<1>11. CASE WriteSidecar
  BY <1>11, WriteSidecarHolds
<1>12. CASE KillBuild
  <2>1. made' = made /\ log' = log /\ array' = array /\ build' = None /\ archived' = archived
    BY <1>12 DEF KillBuild
  <2>2. QED
    BY <2>1, BuildStepHolds DEF ArchiveInv
<1>13. CASE UNCHANGED archiveVars
  BY <1>13 DEF archiveVars, ArchiveInv
<1>14. QED
  BY <1>1, <1>2, <1>3, <1>4, <1>5, <1>6, <1>7, <1>8, <1>9, <1>10, <1>11, <1>12, <1>13 DEF ArchiveNext

\* It holds of the empty directory and the empty log.
LEMMA ArchiveStarts ==
  ArchiveInit => ArchiveInv
<1> SUFFICES ASSUME ArchiveInit
             PROVE  ArchiveInv
  OBVIOUS
<1>1. /\ made = 0 /\ log = <<>> /\ array = [a \in Array |-> None]
      /\ archived = None /\ build = None
  BY DEF ArchiveInit
<1>2. PICK none : none = <<>>
  OBVIOUS
<1>3. none \in Seq(Line) /\ none \in Seq(Nat) /\ Len(none) = 0
  BY <1>2
<1>4. TradesOf(none, 0) = none
  <2>1. 0 \in Nat
    OBVIOUS
  <2>2. QED
    BY <1>2, <2>1, TradesOfNext
<1>5. Numbered(none, 0)
  BY <1>3 DEF Numbered
<1>6. LogHolds(none, 0)
  <2>1. \A n \in 0..Len(none) : n = 0
    BY <1>3
  <2>2. \A n \in 1..Len(none) : FALSE
    BY <1>3
  <2>3. QED
    BY <1>3, <1>4, <1>5, <2>1, <2>2 DEF LogHolds
<1>7. \E files : array = [a \in Array |-> files[a]]
  <2>1. PICK files : files = [a \in Array |-> None]
    OBVIOUS
  <2>2. files = [a \in Array |-> files[a]]
    BY <2>1
  <2>3. QED
    BY <1>1, <2>1, <2>2
<1>8. QED
  BY <1>1, <1>2, <1>6, <1>7 DEF ArchiveInv

\* A directory that validates has the files its sidecar is of.
LEMMA SidecarVouches ==
  ArchiveInv => ValidMeansBuilt
<1> SUFFICES ASSUME ArchiveInv, Validates
             PROVE  \E n \in 0..Len(log) :
                      /\ \A a \in TradeArray : array[a] = TradesOf(log, n)
                      /\ \A a \in SnapshotArray : AreBookLines(array[a], log, n)
  BY DEF ValidMeansBuilt
<1>1. archived # None /\ archived.hash = ContentHash
  BY DEF Validates, Loads
<1>2. AreBuilt(ContentHash, log)
  BY <1>1 DEF ArchiveInv
<1>3. \A a \in TradeArray \cup SnapshotArray : ContentHash[a] = array[a]
  BY DEF ContentHash, Array
<1>4. QED
  BY <1>2, <1>3 DEF AreBuilt

\* The invariant of the archive.
THEOREM ArchiveInvariant == ArchiveSpec => []ArchiveInv
<1>1. QED
  BY ArchiveStarts, ArchiveStepHolds, PTL DEF ArchiveSpec

\* For any log, however the exchange repeats its trades, however many builds run over it and
\* wherever they are killed: a directory that validates has the trades of a beginning of the log,
\* each once, and the snapshots of the same lines.
THEOREM ArchiveIsBuilt == ArchiveSpec => []ValidMeansBuilt
<1>1. QED
  BY ArchiveInvariant, SidecarVouches, PTL

-----------------------------------------------------------------------------
(* Timing                                                                  *)

Command == {"spin", "start", "launch", "end"} \X Nat

\* The commands that are not through end with the launch's kernels and the event after them.
EndsTimed(rest, first) ==
  /\ rest \in Seq(Command) /\ first <= Len(rest)
  /\ rest[Len(rest)] = <<"end", 0>>
  /\ \A k \in first..(Len(rest) - 1) : rest[k][1] = "launch"

\* As long as the host is fast enough: before the card has waited, then at the start event, then
\* among the kernels, each tick of which is one of the card's, and after the end event.
TimedSoFar(rest, waits) ==
  \/ /\ EndsTimed(rest, 3) /\ rest[1] = <<"spin", waits - ticks>> /\ rest[2] = <<"start", 0>>
     /\ ticks <= waits /\ busy = 0
     /\ queue = <<>> => dispatch = 0
  \/ EndsTimed(rest, 2) /\ rest[1] = <<"start", 0>> /\ ticks = waits /\ busy = 0
  \/ EndsTimed(rest, 1) /\ events.start = waits /\ ticks = waits + busy
  \/ rest = <<>> /\ events.end - events.start = busy

TimingTypeOK ==
  /\ script \in Seq(Command) /\ queue \in Seq(Command)
  /\ dispatch \in Nat /\ hostTime \in Nat /\ ticks \in Nat /\ busy \in Nat
  /\ events \in [start : Nat, end : Nat]

\* While the host enqueues, its time is that of the clock.
HostOnTime == script # <<>> => ticks + dispatch = hostTime

TimingInv ==
  /\ TimingTypeOK /\ HostOnTime
  /\ \E waits \in Nat : SpinUs <= waits /\ (hostTime <= SpinUs => TimedSoFar(queue \o script, waits))

\* Two lists of commands, one after the other.
LEMMA JoinedCommands ==
  ASSUME NEW q \in Seq(Command), NEW s \in Seq(Command), NEW n \in Nat, n = Len(q), NEW m \in Nat, m = Len(s)
  PROVE  /\ q \o s \in Seq(Command) /\ Len(q \o s) = n + m
         /\ \A k \in 1..n : (q \o s)[k] = q[k]
         /\ \A k \in (n + 1)..(n + m) : (q \o s)[k] = s[k - n]
  OBVIOUS

\* The host enqueues: what is not through is the same.
LEMMA EnqueuedRest ==
  ASSUME NEW q \in Seq(Command), NEW s \in Seq(Command), s # <<>>
  PROVE  /\ Append(q, Head(s)) \in Seq(Command) /\ Tail(s) \in Seq(Command)
         /\ Append(q, Head(s)) \o Tail(s) = q \o s
         /\ Append(q, Head(s)) # <<>>
<1>1. Head(s) \in Command /\ Tail(s) \in Seq(Command) /\ Len(Tail(s)) = Len(s) - 1 /\ \A k \in 1..(Len(s) - 1) : Tail(s)[k] = s[k + 1]
  OBVIOUS
<1>2. PICK a : a = Append(q, Head(s))
  OBVIOUS
<1>3. a \in Seq(Command) /\ Len(a) = Len(q) + 1 /\ a[Len(q) + 1] = s[1] /\ \A k \in 1..Len(q) : a[k] = q[k]
  BY <1>1, <1>2
<1>4. PICK t : t = Tail(s)
  OBVIOUS
<1>5. PICK n \in Nat : n = Len(q)
  OBVIOUS
<1>6. PICK m \in Nat : m = Len(s)
  OBVIOUS
<1>7. m >= 1
  BY <1>6
<1>8. PICK l \in Nat : l = m - 1
  BY <1>7
<1>9. /\ a \o t \in Seq(Command) /\ Len(a \o t) = (n + 1) + l
      /\ \A k \in 1..(n + 1) : (a \o t)[k] = a[k]
      /\ \A k \in (n + 1 + 1)..((n + 1) + l) : (a \o t)[k] = t[k - (n + 1)]
  <2>1. PICK h \in Nat : h = n + 1
    OBVIOUS
  <2>2. h = Len(a) /\ l = Len(t) /\ t \in Seq(Command) /\ a \in Seq(Command)
    BY <1>1, <1>3, <1>4, <1>5, <1>6, <1>8, <2>1
  <2>3. /\ a \o t \in Seq(Command) /\ Len(a \o t) = h + l
        /\ \A k \in 1..h : (a \o t)[k] = a[k]
        /\ \A k \in (h + 1)..(h + l) : (a \o t)[k] = t[k - h]
    BY <2>2, JoinedCommands
  <2>4. QED
    BY <2>1, <2>3
<1>10. /\ q \o s \in Seq(Command) /\ Len(q \o s) = n + m
       /\ \A k \in 1..n : (q \o s)[k] = q[k]
       /\ \A k \in (n + 1)..(n + m) : (q \o s)[k] = s[k - n]
  BY <1>5, <1>6, JoinedCommands
<1>11. ASSUME NEW k \in 1..(n + m) PROVE (a \o t)[k] = (q \o s)[k]
  <2>1. CASE k <= n
    <3>1. k \in 1..n /\ k \in 1..(n + 1)
      BY <2>1
    <3>2. QED
      BY <1>3, <1>5, <1>9, <1>10, <3>1
  <2>2. CASE k = n + 1
    <3>1. k \in (n + 1)..(n + m) /\ k - n = 1 /\ k \in 1..(n + 1)
      BY <2>2
    <3>2. (a \o t)[k] = a[k] /\ (q \o s)[k] = s[1]
      BY <1>9, <1>10, <3>1
    <3>3. QED
      BY <1>3, <1>5, <2>2, <3>2
  <2>3. CASE k > n + 1
    <3>1. PICK j \in 1..(m - 1) : j = k - (n + 1)
      BY <2>3
    <3>2. k \in (n + 1 + 1)..((n + 1) + l) /\ k \in (n + 1)..(n + m) /\ k - n = j + 1
      BY <1>8, <2>3, <3>1
    <3>3. (a \o t)[k] = t[j] /\ (q \o s)[k] = s[j + 1]
      BY <1>9, <1>10, <3>1, <3>2
    <3>4. QED
      BY <1>1, <1>4, <1>6, <3>1, <3>3
  <2>4. k <= n \/ k = n + 1 \/ k > n + 1
    OBVIOUS
  <2>5. QED
    BY <2>1, <2>2, <2>3, <2>4, Zenon
<1>12. a \o t = q \o s
  <2>1. PICK u : u = a \o t
    OBVIOUS
  <2>2. PICK r : r = q \o s
    OBVIOUS
  <2>3. (n + 1) + l = n + m
    BY <1>8
  <2>4. u \in Seq(Command) /\ r \in Seq(Command) /\ Len(u) = n + m /\ Len(r) = n + m
    BY <1>9, <1>10, <2>1, <2>2, <2>3
  <2>5. \A k \in 1..(n + m) : u[k] = r[k]
    BY <1>11, <2>1, <2>2
  <2>6. u = r
    BY <2>4, <2>5
  <2>7. QED
    BY <2>1, <2>2, <2>6
<1>13. a # <<>>
  BY <1>3, <1>5
<1>14. QED
  BY <1>1, <1>2, <1>3, <1>4, <1>12, <1>13

\* The command at the head of the queue is through.
LEMMA CompletedRest ==
  ASSUME NEW q \in Seq(Command), NEW s \in Seq(Command), q # <<>>
  PROVE  /\ Tail(q) \in Seq(Command) /\ Tail(q) \o s = Tail(q \o s)
         /\ (q \o s)[1] = q[1] /\ q \o s # <<>> /\ q \o s \in Seq(Command)
<1>1. PICK n \in Nat : n = Len(q)
  OBVIOUS
<1>2. PICK m \in Nat : m = Len(s)
  OBVIOUS
<1>3. n >= 1
  BY <1>1
<1>4. PICK t : t = Tail(q)
  OBVIOUS
<1>5. t \in Seq(Command) /\ Len(t) = n - 1 /\ \A k \in 1..(n - 1) : t[k] = q[k + 1]
  BY <1>1, <1>4
<1>6. PICK r : r = q \o s
  OBVIOUS
<1>7. /\ r \in Seq(Command) /\ Len(r) = n + m
      /\ \A k \in 1..n : r[k] = q[k]
      /\ \A k \in (n + 1)..(n + m) : r[k] = s[k - n]
  BY <1>1, <1>2, <1>6
<1>8. r # <<>> /\ r[1] = q[1]
  BY <1>3, <1>7
<1>9. PICK u : u = Tail(r)
  OBVIOUS
<1>10. u \in Seq(Command) /\ Len(u) = n + m - 1 /\ \A k \in 1..(n + m - 1) : u[k] = r[k + 1]
  BY <1>7, <1>8, <1>9
<1>11. PICK v : v = t \o s
  OBVIOUS
<1>12. /\ v \in Seq(Command) /\ Len(v) = n + m - 1
       /\ \A k \in 1..(n - 1) : v[k] = t[k]
       /\ \A k \in n..(n + m - 1) : v[k] = s[k - (n - 1)]
  <2>1. PICK l \in Nat : l = n - 1
    BY <1>3
  <2>2. /\ v \in Seq(Command) /\ Len(v) = l + m
        /\ \A k \in 1..l : v[k] = t[k]
        /\ \A k \in (l + 1)..(l + m) : v[k] = s[k - l]
    <3>1. t \in Seq(Command) /\ l = Len(t)
      BY <1>5, <2>1
    <3>2. /\ t \o s \in Seq(Command) /\ Len(t \o s) = l + m
          /\ \A k \in 1..l : (t \o s)[k] = t[k]
          /\ \A k \in (l + 1)..(l + m) : (t \o s)[k] = s[k - l]
      BY <1>2, <3>1, JoinedCommands
    <3>3. QED
      BY <1>11, <3>2
  <2>3. l + m = n + m - 1 /\ l + 1 = n
    BY <2>1
  <2>4. QED
    BY <2>1, <2>2, <2>3
<1>13. ASSUME NEW k \in 1..(n + m - 1) PROVE v[k] = u[k]
  <2>1. CASE k <= n - 1
    <3>1. k \in 1..(n - 1) /\ k + 1 \in 1..n
      BY <1>3, <2>1
    <3>2. QED
      BY <1>5, <1>7, <1>10, <1>12, <3>1
  <2>2. CASE k > n - 1
    <3>1. k \in n..(n + m - 1) /\ k + 1 \in (n + 1)..(n + m) /\ k + 1 - n = k - (n - 1)
      BY <1>3, <2>2
    <3>2. QED
      BY <1>7, <1>10, <1>12, <3>1
  <2>3. QED
    BY <1>3, <2>1, <2>2
<1>14. v = u
  BY <1>10, <1>12, <1>13
<1>15. QED
  BY <1>4, <1>5, <1>6, <1>7, <1>8, <1>9, <1>11, <1>14

\* A tick of work on the command at the head of the queue.
Worked(q) == [q EXCEPT ![1][2] = @ - 1]

\* It is the same command, with less to do.
LEMMA WorkedQueue ==
  ASSUME NEW q \in Seq(Command), q # <<>>, q[1][2] > 0, NEW p, p = Worked(q)
  PROVE  /\ p \in Seq(Command) /\ p # <<>> /\ Len(p) = Len(q)
         /\ p[1] = <<q[1][1], q[1][2] - 1>>
         /\ \A k \in 2..Len(q) : p[k] = q[k]
<1>1. PICK n \in Nat : n = Len(q)
  OBVIOUS
<1>2. n >= 1 /\ q[1] \in Command
  BY <1>1
<1>3. PICK kind \in {"spin", "start", "launch", "end"}, w \in Nat : q[1] = <<kind, w>>
  <2>1. q[1] = <<q[1][1], q[1][2]>> /\ q[1][1] \in {"spin", "start", "launch", "end"} /\ q[1][2] \in Nat
    BY <1>2 DEF Command
  <2>2. QED
    BY <2>1
<1>4. w > 0 /\ w - 1 \in Nat /\ <<kind, w - 1>> \in Command
  BY <1>3 DEF Command
<1>5. p = [q EXCEPT ![1] = <<kind, w - 1>>]
  <2>1. [q[1] EXCEPT ![2] = q[1][2] - 1] = <<kind, w - 1>>
    BY <1>3
  <2>2. p = [q EXCEPT ![1] = [q[1] EXCEPT ![2] = q[1][2] - 1]]
    BY DEF Worked
  <2>3. QED
    BY <2>1, <2>2
<1>6. PICK c \in Command : c = <<kind, w - 1>>
  BY <1>4
<1>7. p = [q EXCEPT ![1] = c]
  BY <1>5, <1>6
<1>8. p \in Seq(Command) /\ Len(p) = n /\ p[1] = c /\ \A k \in 2..n : p[k] = q[k]
  BY <1>1, <1>2, <1>7
<1>9. p # <<>>
  BY <1>2, <1>8
<1>10. c = <<q[1][1], q[1][2] - 1>>
  BY <1>3, <1>6
<1>11. QED
  BY <1>1, <1>8, <1>9, <1>10

\* Two queues that differ at their heads, followed by the same list.
LEMMA JoinedHeads ==
  ASSUME NEW q \in Seq(Command), NEW p \in Seq(Command), NEW s \in Seq(Command), q # <<>>,
         Len(p) = Len(q), \A k \in 2..Len(q) : p[k] = q[k]
  PROVE  \E after \in Seq(Command) :
           /\ after = p \o s /\ after[1] = p[1] /\ Len(after) = Len(q \o s)
           /\ \A k \in 2..Len(q \o s) : after[k] = (q \o s)[k]
<1>1. PICK n \in Nat : n = Len(q)
  OBVIOUS
<1>2. PICK m \in Nat : m = Len(s)
  OBVIOUS
<1>3. n >= 1 /\ n = Len(p) /\ \A k \in 2..n : p[k] = q[k]
  BY <1>1
<1>4. PICK r : r = q \o s
  OBVIOUS
<1>5. /\ r \in Seq(Command) /\ Len(r) = n + m
      /\ \A k \in 1..n : r[k] = q[k]
      /\ \A k \in (n + 1)..(n + m) : r[k] = s[k - n]
  BY <1>1, <1>2, <1>4
<1>6. PICK u : u = p \o s
  OBVIOUS
<1>7. /\ u \in Seq(Command) /\ Len(u) = n + m
      /\ \A k \in 1..n : u[k] = p[k]
      /\ \A k \in (n + 1)..(n + m) : u[k] = s[k - n]
  <2>1. p \in Seq(Command) /\ s \in Seq(Command) /\ n = Len(p)
    BY <1>3
  <2>2. /\ p \o s \in Seq(Command) /\ Len(p \o s) = n + m
        /\ \A k \in 1..n : (p \o s)[k] = p[k]
        /\ \A k \in (n + 1)..(n + m) : (p \o s)[k] = s[k - n]
    BY ONLY <1>2, <2>1, JoinedCommands
  <2>3. QED
    BY <1>6, <2>2
<1>8. ASSUME NEW k \in 2..(n + m) PROVE u[k] = r[k]
  <2>1. CASE k \in 2..n
    BY <1>3, <1>5, <1>7, <2>1
  <2>2. CASE k \in (n + 1)..(n + m)
    BY <1>5, <1>7, <2>2
  <2>3. QED
    BY <1>3, <2>1, <2>2
<1>9. u[1] = p[1]
  BY <1>3, <1>7
<1>10. u = p \o s /\ u[1] = p[1] /\ Len(u) = Len(r) /\ \A k \in 2..Len(r) : u[k] = r[k]
  BY <1>5, <1>6, <1>7, <1>8, <1>9
<1>11. QED
  BY <1>4, <1>7, <1>10

\* The end remains the end when the first is through.
LEMMA EndStays ==
  ASSUME NEW rest, NEW first \in Nat \ {0}, EndsTimed(rest, first + 1)
  PROVE  EndsTimed(Tail(rest), first)
<1>1. PICK n \in Nat : n = Len(rest)
  BY DEF EndsTimed
<1>2. rest \in Seq(Command) /\ n >= first + 1 /\ rest[n] = <<"end", 0>> /\ \A k \in (first + 1)..(n - 1) : rest[k][1] = "launch"
  BY <1>1 DEF EndsTimed
<1>3. PICK t : t = Tail(rest)
  OBVIOUS
<1>4. t \in Seq(Command) /\ Len(t) = n - 1 /\ \A k \in 1..(n - 1) : t[k] = rest[k + 1]
  BY <1>1, <1>2, <1>3
<1>5. t[n - 1] = <<"end", 0>>
  <2>1. n - 1 \in 1..(n - 1) /\ n - 1 + 1 = n
    BY <1>2
  <2>2. QED
    BY <1>2, <1>4, <2>1
<1>6. ASSUME NEW k \in first..(n - 1 - 1) PROVE t[k][1] = "launch"
  <2>1. k \in 1..(n - 1) /\ k + 1 \in (first + 1)..(n - 1)
    BY <1>2
  <2>2. QED
    BY <1>2, <1>4, <2>1
<1>7. first <= n - 1
  BY <1>2
<1>8. QED
  BY <1>3, <1>4, <1>5, <1>6, <1>7 DEF EndsTimed

\* The end remains the end while the first is worked on.
LEMMA EndWaits ==
  ASSUME NEW rest, NEW other \in Seq(Command), NEW first \in Nat \ {0}, EndsTimed(rest, first), Len(rest) >= 2,
         Len(other) = Len(rest), other[1][1] = rest[1][1], \A k \in 2..Len(rest) : other[k] = rest[k]
  PROVE  EndsTimed(other, first)
<1>1. PICK n \in Nat : n = Len(rest)
  BY DEF EndsTimed
<1>2. n >= first /\ n >= 2 /\ rest[n] = <<"end", 0>> /\ \A k \in first..(n - 1) : rest[k][1] = "launch"
  BY <1>1 DEF EndsTimed
<1>3. other[n] = <<"end", 0>>
  BY <1>1, <1>2
<1>4. ASSUME NEW k \in first..(n - 1) PROVE other[k][1] = "launch"
  <2>1. CASE k = 1
    BY <1>2, <2>1
  <2>2. CASE k # 1
    <3>1. k \in 2..n
      BY <1>2, <2>2
    <3>2. QED
      BY <1>1, <1>2, <3>1
  <2>3. QED
    BY <2>1, <2>2
<1>5. QED
  BY <1>1, <1>2, <1>3, <1>4 DEF EndsTimed

-----------------------------------------------------------------------------

\* The program as it is written.
LEMMA TimingStarts ==
  TimingInit => TimingInv
<1> SUFFICES ASSUME TimingInit
             PROVE  TimingInv
  OBVIOUS
<1>1. PICK m \in 1..MaxKernels :
        \E work \in [1..m -> 1..MaxWork], late \in 0..SlowestClock :
          script = QueuedTime(Spin(SpinUs) + late, [k \in 1..m |-> <<"launch", work[k]>>])
  BY DEF TimingInit
<1>2. PICK work \in [1..m -> 1..MaxWork], late \in 0..SlowestClock :
          script = QueuedTime(Spin(SpinUs) + late, [k \in 1..m |-> <<"launch", work[k]>>])
  BY <1>1
<1>3. m \in Nat /\ m >= 1 /\ late \in Nat /\ SpinUs \in Nat /\ \A k \in 1..m : work[k] \in Nat
  BY TimingAssumption
<1>4. PICK waits \in Nat : waits = SpinUs + late
  BY <1>3
<1>5. PICK launches : launches = [k \in 1..m |-> <<"launch", work[k]>>]
  OBVIOUS
<1>6. launches \in Seq(Command) /\ Len(launches) = m /\ \A k \in 1..m : launches[k][1] = "launch"
  <2>1. \A k \in 1..m : <<"launch", work[k]>> \in Command
    BY <1>3 DEF Command
  <2>2. QED
    BY <1>3, <1>5, <2>1
<1>7. PICK begin : begin = <<<<"spin", waits>>, <<"start", 0>>>>
  OBVIOUS
<1>8. PICK last : last = <<<<"end", 0>>>>
  OBVIOUS
<1>9. /\ begin \in Seq(Command) /\ Len(begin) = 2 /\ begin[1] = <<"spin", waits>> /\ begin[2] = <<"start", 0>>
      /\ last \in Seq(Command) /\ Len(last) = 1 /\ last[1] = <<"end", 0>>
  <2>1. <<"spin", waits>> \in Command /\ <<"start", 0>> \in Command /\ <<"end", 0>> \in Command
    BY DEF Command
  <2>2. QED
    BY <1>7, <1>8, <2>1
<1>10. script = (begin \o launches) \o last
  BY <1>2, <1>4, <1>5, <1>7, <1>8 DEF QueuedTime, Spin
<1>11. PICK both : both = begin \o launches
  OBVIOUS
<1>12. /\ both \in Seq(Command) /\ Len(both) = m + 2 /\ both[1] = begin[1] /\ both[2] = begin[2]
       /\ \A k \in 3..(m + 2) : both[k] = launches[k - 2]
  <2>1. 2 \in Nat /\ m \in Nat /\ 2 = Len(begin) /\ m = Len(launches)
    BY <1>3, <1>6, <1>9
  <2>2. /\ both \in Seq(Command) /\ Len(both) = 2 + m
        /\ \A k \in 1..2 : both[k] = begin[k]
        /\ \A k \in (2 + 1)..(2 + m) : both[k] = launches[k - 2]
    <3>1. PICK two \in Nat : two = 2
      OBVIOUS
    <3>2. two = Len(begin) /\ m \in Nat /\ m = Len(launches)
      BY <1>3, <1>6, <1>9, <3>1
    <3>3. /\ begin \o launches \in Seq(Command) /\ Len(begin \o launches) = two + m
          /\ \A k \in 1..two : (begin \o launches)[k] = begin[k]
          /\ \A k \in (two + 1)..(two + m) : (begin \o launches)[k] = launches[k - two]
      <4>1. begin \in Seq(Command) /\ launches \in Seq(Command)
        BY <1>6, <1>9
      <4>2. QED
        BY <3>2, <4>1, JoinedCommands
    <3>4. QED
      BY <1>11, <3>1, <3>3
  <2>3. 2 + 1 = 3 /\ 2 + m = m + 2 /\ 1 \in 1..2 /\ 2 \in 1..2
    BY <1>3
  <2>4. QED
    BY <2>2, <2>3
<1>13. /\ script \in Seq(Command) /\ Len(script) = m + 3 /\ script[m + 3] = last[1]
       /\ \A k \in 1..(m + 2) : script[k] = both[k]
  <2>1. PICK l \in Nat : l = m + 2
    BY <1>3
  <2>2. /\ script \in Seq(Command) /\ Len(script) = l + 1
        /\ \A k \in 1..l : script[k] = both[k]
        /\ \A k \in (l + 1)..(l + 1) : script[k] = last[k - l]
    <3>1. PICK one \in Nat : one = 1
      OBVIOUS
    <3>2. l = Len(both) /\ one = Len(last) /\ script = both \o last
      BY <1>9, <1>10, <1>11, <1>12, <2>1, <3>1
    <3>3. /\ both \o last \in Seq(Command) /\ Len(both \o last) = l + one
          /\ \A k \in 1..l : (both \o last)[k] = both[k]
          /\ \A k \in (l + 1)..(l + one) : (both \o last)[k] = last[k - l]
      <4>1. both \in Seq(Command) /\ last \in Seq(Command)
        BY <1>9, <1>12
      <4>2. QED
        BY <3>2, <4>1, JoinedCommands
    <3>4. QED
      BY <3>1, <3>2, <3>3
  <2>3. l + 1 = m + 3 /\ l + 1 \in (l + 1)..(l + 1) /\ (l + 1) - l = 1
    BY <1>3, <2>1
  <2>4. QED
    BY <2>1, <2>2, <2>3
<1>14. EndsTimed(script, 3) /\ script[1] = <<"spin", waits - 0>> /\ script[2] = <<"start", 0>>
  <2>1. ASSUME NEW k \in 3..(m + 3 - 1) PROVE script[k][1] = "launch"
    <3>1. k \in 3..(m + 2) /\ k \in 1..(m + 2) /\ k - 2 \in 1..m
      BY <1>3
    <3>2. QED
      BY <1>6, <1>12, <1>13, <3>1
  <2>2. 1 \in 1..(m + 2) /\ 2 \in 1..(m + 2) /\ 3 <= m + 3 /\ waits - 0 = waits
    BY <1>3
  <2>3. QED
    BY <1>9, <1>12, <1>13, <2>1, <2>2 DEF EndsTimed
<1>15. /\ dispatch = 0 /\ hostTime = 0 /\ queue = <<>> /\ events = [start |-> 0, end |-> 0] /\ ticks = 0 /\ busy = 0
  BY DEF TimingInit
<1>16. TimingTypeOK /\ HostOnTime
  BY <1>13, <1>15 DEF TimingTypeOK, HostOnTime
<1>17. queue \o script = script
  BY <1>13, <1>15
<1>18. TimedSoFar(script, waits)
  BY <1>14, <1>15 DEF TimedSoFar
<1>19. SpinUs <= waits
  BY <1>3, <1>4
<1>20. QED
  BY <1>16, <1>17, <1>18, <1>19 DEF TimingInv

\* The host enqueues the next command.
LEMMA EnqueueHolds ==
  ASSUME TimingInv, Enqueue
  PROVE  TimingInv'
<1>1. TimingTypeOK /\ HostOnTime
  BY DEF TimingInv
<1>2. /\ script # <<>> /\ dispatch = 0 /\ queue' = Append(queue, Head(script)) /\ script' = Tail(script)
      /\ hostTime' = hostTime + dispatch' /\ events' = events /\ ticks' = ticks /\ busy' = busy
  BY DEF Enqueue
<1>3. dispatch' \in Nat
  <2>1. CASE script' = <<>>
    BY <2>1 DEF Enqueue
  <2>2. CASE script' # <<>>
    BY <2>2, TimingAssumption DEF Enqueue
  <2>3. QED
    BY <2>1, <2>2
<1>4. queue' \in Seq(Command) /\ script' \in Seq(Command) /\ queue' \o script' = queue \o script /\ queue' # <<>>
  BY <1>1, <1>2, EnqueuedRest DEF TimingTypeOK
<1>5. TimingTypeOK'
  <2>1. PICK d \in Nat : d = dispatch'
    BY <1>3
  <2>2. hostTime \in Nat /\ hostTime' = hostTime + d
    BY <1>1, <1>2, <2>1 DEF TimingTypeOK
  <2>3. hostTime' \in Nat
    BY <2>2
  <2>4. QED
    BY <1>1, <1>2, <1>3, <1>4, <2>3 DEF TimingTypeOK
<1>6. HostOnTime'
  BY <1>1, <1>2, <1>3 DEF HostOnTime, TimingTypeOK
<1>7. PICK waits \in Nat : SpinUs <= waits /\ (hostTime <= SpinUs => TimedSoFar(queue \o script, waits))
  BY DEF TimingInv
<1>8. hostTime' <= SpinUs => TimedSoFar(queue \o script, waits)
  <2>1. PICK d \in Nat : d = dispatch'
    BY <1>3
  <2>2. hostTime \in Nat /\ SpinUs \in Nat /\ hostTime' = hostTime + d
    BY <1>1, <1>2, <2>1, TimingAssumption DEF TimingTypeOK
  <2>3. hostTime' <= SpinUs => hostTime <= SpinUs
    BY <2>2
  <2>4. QED
    BY <1>7, <2>3
<1>9. hostTime' <= SpinUs => TimedSoFar(queue \o script, waits)'
  <2>1. PICK r : r = queue \o script
    OBVIOUS
  <2>2. (queue \o script)' = r
    BY <1>4, <2>1
  <2>3. TimedSoFar(r, waits) => TimedSoFar(r, waits)'
    BY <1>2, <1>4 DEF TimedSoFar
  <2>4. QED
    BY <1>8, <2>1, <2>2, <2>3
<1>10. QED
  BY <1>5, <1>6, <1>7, <1>9 DEF TimingInv

\* The card is through with a command.
LEMMA CompleteHolds ==
  ASSUME TimingInv, Complete
  PROVE  TimingInv'
<1>1. TimingTypeOK /\ HostOnTime
  BY DEF TimingInv
<1>2. /\ queue # <<>> /\ queue[1][2] = 0 /\ queue' = Tail(queue) /\ script' = script /\ dispatch' = dispatch
      /\ hostTime' = hostTime /\ ticks' = ticks /\ busy' = busy /\ events' = EventsAfter(queue)
  BY DEF Complete
<1>3. PICK waits \in Nat : SpinUs <= waits /\ (hostTime <= SpinUs => TimedSoFar(queue \o script, waits))
  BY DEF TimingInv
<1>4. PICK rest : rest = queue \o script
  OBVIOUS
<1>5. PICK after : after = Tail(rest)
  OBVIOUS
<1>6. queue' \in Seq(Command) /\ queue' \o script' = after /\ rest[1] = queue[1] /\ rest # <<>> /\ rest \in Seq(Command)
  BY <1>1, <1>2, <1>4, <1>5, CompletedRest DEF TimingTypeOK
<1>7. events' \in [start : Nat, end : Nat]
  <2>1. events \in [start : Nat, end : Nat] /\ ticks \in Nat
    BY <1>1 DEF TimingTypeOK
  <2>2. CASE queue[1][1] = "start"
    BY <1>2, <2>1, <2>2 DEF EventsAfter
  <2>3. CASE queue[1][1] = "end"
    BY <1>2, <2>1, <2>3 DEF EventsAfter
  <2>4. CASE queue[1][1] \notin {"start", "end"}
    BY <1>2, <2>1, <2>4 DEF EventsAfter
  <2>5. QED
    BY <2>2, <2>3, <2>4
<1>8. TimingTypeOK' /\ HostOnTime'
  BY <1>1, <1>2, <1>6, <1>7 DEF TimingTypeOK, HostOnTime
<1>9. ASSUME TimedSoFar(rest, waits)
      PROVE  TimedSoFar(after, waits)'
  <2>1. ticks \in Nat /\ busy \in Nat /\ events \in [start : Nat, end : Nat]
    BY <1>1 DEF TimingTypeOK
  <2>2. CASE EndsTimed(rest, 3) /\ rest[1] = <<"spin", waits - ticks>> /\ rest[2] = <<"start", 0>> /\ ticks <= waits /\ busy = 0
    <3>1. ticks = waits
      <4>1. waits - ticks = 0
        BY <1>2, <1>6, <2>2
      <4>2. QED
        BY <2>1, <4>1
    <3>2. EndsTimed(after, 2)
      <4>1. 2 \in Nat \ {0} /\ 2 + 1 = 3
        OBVIOUS
      <4>2. EndsTimed(rest, 2 + 1)
        BY <2>2, <4>1
      <4>3. QED
        BY <1>5, <4>1, <4>2, EndStays
    <3>3. after[1] = <<"start", 0>>
      <4>1. Len(rest) >= 3 /\ Len(rest) \in Nat
        BY <1>6, <2>2 DEF EndsTimed
      <4>2. QED
        BY <1>5, <1>6, <2>2, <4>1
    <3>4. QED
      BY <1>2, <2>2, <3>1, <3>2, <3>3 DEF TimedSoFar
  <2>3. CASE EndsTimed(rest, 2) /\ rest[1] = <<"start", 0>> /\ ticks = waits /\ busy = 0
    <3>1. EndsTimed(after, 1)
      <4>1. 1 \in Nat \ {0} /\ 1 + 1 = 2
        OBVIOUS
      <4>2. EndsTimed(rest, 1 + 1)
        BY <2>3, <4>1
      <4>3. QED
        BY <1>5, <4>1, <4>2, EndStays
    <3>2. queue[1][1] = "start"
      BY <1>6, <2>3
    <3>3. events'.start = ticks
      BY <1>2, <2>1, <3>2 DEF EventsAfter
    <3>4. ticks' = waits + busy'
      BY <1>2, <2>1, <2>3
    <3>5. QED
      BY <2>3, <3>1, <3>3, <3>4 DEF TimedSoFar
  <2>4. CASE EndsTimed(rest, 1) /\ events.start = waits /\ ticks = waits + busy
    <3>1. PICK n \in Nat : n = Len(rest)
      BY <1>6
    <3>2. n >= 1 /\ rest[n] = <<"end", 0>> /\ \A k \in 1..(n - 1) : rest[k][1] = "launch"
      BY <2>4, <3>1 DEF EndsTimed
    <3>3. CASE n = 1
      <4>1. queue[1][1] = "end"
        BY <1>6, <3>2, <3>3
      <4>2. events'.end = ticks /\ events'.start = waits
        BY <1>2, <2>1, <2>4, <4>1 DEF EventsAfter
      <4>3. after = <<>>
        <5>1. Len(after) = 0 /\ after \in Seq(Command)
          <6>1. after \in Seq(Command) /\ Len(after) = Len(rest) - 1
            BY <1>5, <1>6
          <6>2. Len(rest) = 1
            BY <3>1, <3>3
          <6>3. QED
            BY ONLY <6>1, <6>2
        <5>2. QED
          BY <5>1
      <4>4. events'.end - events'.start = busy'
        BY <1>2, <2>1, <2>4, <4>2
      <4>5. QED
        BY <4>3, <4>4 DEF TimedSoFar
    <3>4. CASE n > 1
      <4>1. 1 \in 1..(n - 1)
        BY <3>4
      <4>2. queue[1][1] = "launch"
        BY <1>6, <3>2, <4>1
      <4>3. events' = events
        BY <1>2, <4>2 DEF EventsAfter
      <4>4. 1 \in Nat \ {0} /\ 1 + 1 = 2
        OBVIOUS
      <4>5. EndsTimed(rest, 1 + 1)
        <5>1. 2 <= n /\ \A k \in 2..(n - 1) : k \in 1..(n - 1)
          BY <3>4
        <5>2. EndsTimed(rest, 2)
          BY <1>6, <3>1, <3>2, <5>1 DEF EndsTimed
        <5>3. QED
          BY <4>4, <5>2
      <4>6. EndsTimed(after, 1)
        BY <1>5, <4>4, <4>5, EndStays
      <4>7. QED
        BY <1>2, <2>4, <4>3, <4>6 DEF TimedSoFar
    <3>5. QED
      BY <3>2, <3>3, <3>4
  <2>5. QED
    BY <1>6, <1>9, <2>2, <2>3, <2>4 DEF TimedSoFar
<1>10. hostTime' <= SpinUs => TimedSoFar(queue \o script, waits)'
  <2>1. (queue \o script)' = after
    BY <1>6
  <2>2. TimedSoFar(after, waits)' => TimedSoFar(queue \o script, waits)'
    BY <2>1 DEF TimedSoFar
  <2>3. QED
    BY <1>2, <1>3, <1>4, <1>9, <2>2
<1>11. QED
  BY <1>3, <1>8, <1>10 DEF TimingInv

\* A tick passes.
LEMMA TickHolds ==
  ASSUME TimingInv, Tick
  PROVE  TimingInv'
<1>1. TimingTypeOK /\ HostOnTime
  BY DEF TimingInv
<1>2. /\ script # <<>> => dispatch > 0
      /\ queue # <<>> => queue[1][2] > 0
      /\ script # <<>> \/ queue # <<>>
      /\ dispatch' = IF dispatch = 0 THEN 0 ELSE dispatch - 1
      /\ queue' = IF queue = <<>> THEN queue ELSE [queue EXCEPT ![1][2] = @ - 1]
      /\ ticks' = ticks + 1
      /\ busy' = IF queue # <<>> /\ queue[1][1] = "launch" THEN busy + 1 ELSE busy
      /\ script' = script /\ hostTime' = hostTime /\ events' = events
  BY DEF Tick
<1>3. PICK waits \in Nat : SpinUs <= waits /\ (hostTime <= SpinUs => TimedSoFar(queue \o script, waits))
  BY DEF TimingInv
<1>4. /\ script \in Seq(Command) /\ queue \in Seq(Command)
      /\ dispatch \in Nat /\ hostTime \in Nat /\ ticks \in Nat /\ busy \in Nat
      /\ events \in [start : Nat, end : Nat]
  BY <1>1 DEF TimingTypeOK
<1>5. dispatch' \in Nat /\ ticks' \in Nat /\ busy' \in Nat /\ (dispatch > 0 => dispatch' = dispatch - 1)
  BY <1>2, <1>4
<1>6. CASE queue = <<>>
  <2>1. queue' = queue /\ script # <<>> /\ dispatch > 0
    BY <1>2, <1>6
  <2>2. TimingTypeOK' /\ HostOnTime'
    <3>1. ticks' + dispatch' = hostTime'
      BY <1>1, <1>2, <1>4, <1>5, <2>1 DEF HostOnTime
    <3>2. QED
      BY <1>2, <1>4, <1>5, <2>1, <3>1 DEF TimingTypeOK, HostOnTime
  <2>3. ASSUME hostTime <= SpinUs
        PROVE  FALSE
    <3>1. PICK rest : rest = queue \o script
      OBVIOUS
    <3>2. rest = script /\ rest # <<>>
      BY <1>4, <1>6, <2>1, <3>1
    <3>3. ticks + dispatch = hostTime
      BY <1>1, <2>1 DEF HostOnTime
    <3>4. ticks < waits
      BY <1>3, <1>4, <2>1, <2>3, <3>3, TimingAssumption
    <3>5. TimedSoFar(rest, waits)
      BY <1>3, <2>3, <3>1
    <3>6. dispatch = 0 \/ ticks = waits \/ ticks = waits + busy
      BY <1>6, <3>2, <3>5 DEF TimedSoFar
    <3>7. QED
      BY <1>4, <2>1, <3>4, <3>6
  <2>4. QED
    BY <1>2, <1>3, <2>2, <2>3 DEF TimingInv
<1>7. CASE queue # <<>>
  <2>1. queue[1][2] > 0
    BY <1>2, <1>7
  <2>2. PICK rest : rest = queue \o script
    OBVIOUS
  <2>3. PICK work : work = Worked(queue)
    OBVIOUS
  <2>4. /\ work \in Seq(Command) /\ work # <<>> /\ Len(work) = Len(queue) /\ work[1] = <<queue[1][1], queue[1][2] - 1>>
        /\ \A k \in 2..Len(queue) : work[k] = queue[k]
    BY <1>4, <1>7, <2>1, <2>3, WorkedQueue
  <2>10. PICK after \in Seq(Command) :
           /\ after = work \o script /\ after[1] = work[1] /\ Len(after) = Len(queue \o script)
           /\ \A k \in 2..Len(queue \o script) : after[k] = (queue \o script)[k]
    BY <1>4, <1>7, <2>4, JoinedHeads
  <2>5. /\ work \in Seq(Command) /\ work # <<>> /\ after[1] = <<queue[1][1], queue[1][2] - 1>>
        /\ Len(after) = Len(rest) /\ after \in Seq(Command)
        /\ \A k \in 2..Len(rest) : after[k] = rest[k]
    BY <2>2, <2>4, <2>10
  <2>9. queue' = work
    BY <1>2, <1>7, <2>3 DEF Worked
  <2>6. rest[1] = queue[1] /\ rest \in Seq(Command) /\ rest # <<>>
    BY <1>4, <1>7, <2>2, CompletedRest
  <2>7. TimingTypeOK' /\ HostOnTime'
    <3>1. script # <<>> => ticks' + dispatch' = hostTime'
      BY <1>1, <1>2, <1>4, <1>5 DEF HostOnTime
    <3>2. QED
      BY <1>2, <1>4, <1>5, <2>5, <2>9, <3>1 DEF TimingTypeOK, HostOnTime
  <2>8. ASSUME hostTime <= SpinUs, TimedSoFar(rest, waits)
        PROVE  TimedSoFar(after, waits)'
    <3>1. CASE EndsTimed(rest, 3) /\ rest[1] = <<"spin", waits - ticks>> /\ rest[2] = <<"start", 0>> /\ ticks <= waits /\ busy = 0
      <4>1. queue[1][1] = "spin" /\ queue[1][2] = waits - ticks
        BY <2>6, <3>1
      <4>2. ticks < waits /\ (waits - ticks) - 1 = waits - ticks'
        BY <1>2, <1>4, <2>1, <4>1
      <4>3. after[1] = <<"spin", waits - ticks'>>
        BY <2>5, <4>1, <4>2
      <4>4. Len(rest) >= 3 /\ 2 \in 2..Len(rest) /\ 3 \in Nat \ {0}
        BY <2>6, <3>1 DEF EndsTimed
      <4>5. after[2] = <<"start", 0>>
        BY <2>5, <3>1, <4>4
      <4>6. EndsTimed(after, 3)
        <5>1. after[1][1] = rest[1][1] /\ Len(rest) >= 2
          BY <2>5, <2>6, <4>4
        <5>2. QED
          BY <2>5, <3>1, <4>4, <5>1, EndWaits
      <4>7. busy' = 0 /\ ticks' <= waits /\ queue' # <<>>
        BY <1>2, <1>4, <2>5, <2>9, <3>1, <4>1, <4>2
      <4>8. QED
        BY <4>3, <4>5, <4>6, <4>7 DEF TimedSoFar
    <3>2. CASE EndsTimed(rest, 2) /\ rest[1] = <<"start", 0>> /\ ticks = waits /\ busy = 0
      <4>1. queue[1][2] = 0
        BY <2>6, <3>2
      <4>2. QED
        BY <2>1, <4>1
    <3>3. CASE EndsTimed(rest, 1) /\ events.start = waits /\ ticks = waits + busy
      <4>1. script = <<>>
        <5>1. SUFFICES ASSUME script # <<>> PROVE FALSE
          OBVIOUS
        <5>2. dispatch > 0 /\ ticks + dispatch = hostTime
          BY <1>1, <1>2, <5>1 DEF HostOnTime
        <5>3. ticks < waits
          BY <1>3, <1>4, <2>8, <5>2, TimingAssumption
        <5>4. QED
          BY <1>4, <3>3, <5>3
      <4>2. PICK n \in Nat : n = Len(rest)
        BY <2>6
      <4>3. n >= 1 /\ rest[n] = <<"end", 0>> /\ \A k \in 1..(n - 1) : rest[k][1] = "launch"
        BY <3>3, <4>2 DEF EndsTimed
      <4>4. n >= 2
        <5>1. SUFFICES ASSUME n = 1 PROVE FALSE
          BY <4>3
        <5>2. queue[1][2] = 0
          BY <2>6, <4>3, <5>1
        <5>3. QED
          BY <2>1, <5>2
      <4>5. queue[1][1] = "launch"
        <5>1. 1 \in 1..(n - 1)
          BY <4>4
        <5>2. QED
          BY <2>6, <4>3, <5>1
      <4>6. busy' = busy + 1 /\ ticks' = waits + busy' /\ events' = events
        BY <1>2, <1>4, <1>7, <3>3, <4>5
      <4>7. EndsTimed(after, 1)
        <5>1. after[1][1] = rest[1][1] /\ 1 \in Nat \ {0} /\ Len(rest) >= 2
          BY <2>5, <2>6, <4>2, <4>4
        <5>2. QED
          BY <2>5, <3>3, <5>1, EndWaits
      <4>8. QED
        BY <3>3, <4>6, <4>7 DEF TimedSoFar
    <3>4. QED
      BY <2>6, <2>8, <3>1, <3>2, <3>3 DEF TimedSoFar
  <2>11. hostTime' <= SpinUs => TimedSoFar(queue \o script, waits)'
    <3>1. (queue \o script)' = after
      BY <1>2, <2>9, <2>10
    <3>2. TimedSoFar(after, waits)' => TimedSoFar(queue \o script, waits)'
      BY <3>1 DEF TimedSoFar
    <3>3. QED
      BY <1>2, <1>3, <2>2, <2>8, <3>2
  <2>12. QED
    BY <1>3, <2>7, <2>11 DEF TimingInv
<1>8. QED
  BY <1>6, <1>7

\* The invariant of the timer.
THEOREM TimingInvariant == TimingSpec => []TimingInv
<1>1. TimingInv /\ [TimingNext]_timingVars => TimingInv'
  <2> SUFFICES ASSUME TimingInv, [TimingNext]_timingVars
               PROVE  TimingInv'
    OBVIOUS
  <2>1. CASE Enqueue
    BY <2>1, EnqueueHolds
  <2>2. CASE Complete
    BY <2>2, CompleteHolds
  <2>3. CASE Tick
    BY <2>3, TickHolds
  <2>4. CASE UNCHANGED timingVars
    BY <2>4 DEF timingVars, TimingInv, TimingTypeOK, HostOnTime, TimedSoFar
  <2>5. QED
    BY <2>1, <2>2, <2>3, <2>4 DEF TimingNext
<1>2. QED
  BY <1>1, TimingStarts, PTL DEF TimingSpec

\* For any number of kernels, however long each works, however long the card is made to wait and
\* at whatever pace the host enqueues: if it was done within the time it counts on, the events
\* tell the time of the kernels and nothing else.
THEOREM KernelsAreTimed == TimingSpec => []OnlyKernelsTimed
<1>1. TimingInv => OnlyKernelsTimed
  <2>1. SUFFICES ASSUME TimingInv, AllThrough, hostTime <= SpinUs
                 PROVE  events.end - events.start = busy
    BY DEF OnlyKernelsTimed
  <2>2. PICK waits \in Nat : TimedSoFar(queue \o script, waits)
    BY <2>1 DEF TimingInv
  <2>3. PICK rest : rest = queue \o script
    OBVIOUS
  <2>4. rest = <<>>
    BY <2>1, <2>3 DEF AllThrough
  <2>5. ~EndsTimed(rest, 3) /\ ~EndsTimed(rest, 2) /\ ~EndsTimed(rest, 1)
    BY <2>4 DEF EndsTimed
  <2>6. QED
    BY <2>2, <2>3, <2>5 DEF TimedSoFar
<1>2. QED
  BY <1>1, TimingInvariant, PTL

-----------------------------------------------------------------------------
(* TimedBlock                                                              *)

\* The types of a block, and the bounds of its rounds.
BlockTypeOK ==
  /\ clock \in Clock /\ stage \in {"warmup", "timed", "saved", "raised"}
  /\ round \in Nat /\ turn \in 0..(Len(Variant) - 1)
  /\ monitor \in {"none", "running", "failed", "stopped"}
  /\ readBefore \in [warmup : Clock \cup {None}, timed : Clock \cup {None}]
  /\ samples \in [Variants -> Seq(Clock)]
  /\ stamps \in Seq([iteration : Nat, variant : Variants])

\* The rounds end with their last turn.
RoundsEnd ==
  /\ stage = "warmup" => round <= Warmup /\ (round = Warmup => turn = 0)
  /\ stage \in {"timed", "saved"} => round <= Iterations /\ (round = Iterations => turn = 0)
  /\ stage = "saved" => round = Iterations

\* Each variant has a sample for each turn it had, and the last is the clock as it is.
SamplesFollow ==
  /\ stage = "warmup" => \A v \in Variants : samples[v] = <<>>
  /\ stage \in {"timed", "saved"} =>
       /\ \A k \in 1..Len(Variant) : Len(samples[Order(round)[k]]) = IF k <= turn THEN round + 1 ELSE round
       /\ round > 0 /\ turn = 0 => samples[Order(round - 1)[Len(Variant)]][round] = clock

\* The call in turn k of iteration i has been.
Been(i, k) == i < round \/ (i = round /\ k <= turn)

\* The calls are stamped in their order.
StampsFollow ==
  /\ stage = "warmup" \/ monitor = "none" => stamps = <<>>
  /\ stage \in {"timed", "saved"} /\ monitor # "none" =>
       /\ Len(stamps) = round * Len(Variant) + turn
       /\ \A i \in Nat, k \in 1..Len(Variant) : Been(i, k) => stamps[i * Len(Variant) + k].variant = Order(i)[k]

\* The monitor is stopped, and the drop is of the clock that was read.
EndsHold ==
  /\ stage \in {"saved", "raised"} => monitor # "running"
  /\ stage = "saved" => \E reading \in Readings : summary = [drop |-> Drop(readBefore.timed, reading)]

BlockInv == BlockTypeOK /\ RoundsEnd /\ SamplesFollow /\ StampsFollow /\ EndsHold

\* The place in Variant of the k-th of iteration i.
PlaceOf(i, k) == IF (i % Len(Variant)) + k <= Len(Variant) THEN (i % Len(Variant)) + k ELSE ((i % Len(Variant)) + k) - Len(Variant)

\* The order of an iteration, place by place.
LEMMA OrderPlaces ==
  ASSUME NEW i \in Nat
  PROVE  /\ Len(Variant) \in Nat \ {0} /\ i % Len(Variant) \in 0..(Len(Variant) - 1)
         /\ Len(Order(i)) = Len(Variant)
         /\ \A k \in 1..Len(Variant) :
              PlaceOf(i, k) \in 1..Len(Variant) /\ Order(i)[k] = Variant[PlaceOf(i, k)] /\ Order(i)[k] \in Variants
<1>1. PICK n \in Nat \ {0} : n = Len(Variant)
  BY BlockAssumption
<1>2. PICK r \in 0..(n - 1) : r = i % n
  BY <1>1
<1>3. PICK names : names = Variant
  OBVIOUS
<1>4. names \in Seq(Variants) /\ Len(names) = n /\ \A k \in 1..n : names[k] \in Variants
  BY <1>1, <1>3, BlockAssumption DEF Variants
<1>5. PICK first : first = SubSeq(names, r + 1, n)
  OBVIOUS
<1>6. PICK second : second = SubSeq(names, 1, r)
  OBVIOUS
<1>7. first \in Seq(Variants) /\ Len(first) = n - r /\ \A k \in 1..(n - r) : first[k] = names[r + k]
  <2>1. \A k \in (r + 1)..n : names[k] \in Variants
    BY <1>4
  <2>2. first \in Seq(Variants) /\ Len(first) = n - r
    BY <1>4, <1>5
  <2>3. ASSUME NEW k \in 1..(n - r) PROVE first[k] = names[r + k]
    BY <1>4, <1>5
  <2>4. QED
    BY <2>2, <2>3
<1>8. second \in Seq(Variants) /\ Len(second) = r /\ \A k \in 1..r : second[k] = names[k]
  <2>1. second \in Seq(Variants) /\ Len(second) = r
    BY <1>4, <1>6
  <2>2. ASSUME NEW k \in 1..r PROVE second[k] = names[k]
    BY <1>4, <1>6
  <2>3. QED
    BY <2>1, <2>2
<1>9. PICK both : both = first \o second
  OBVIOUS
<1>10. /\ Len(both) = n /\ \A k \in 1..(n - r) : both[k] = first[k]
       /\ \A k \in (n - r + 1)..n : both[k] = second[k - (n - r)]
  <2>1. PICK l \in Nat : l = n - r
    OBVIOUS
  <2>2. first \in Seq(Variants) /\ second \in Seq(Variants) /\ l \in Nat /\ l = Len(first) /\ r \in Nat /\ r = Len(second)
    BY <1>7, <1>8, <2>1
  <2>3. /\ Len(first \o second) = l + r
        /\ \A k \in 1..l : (first \o second)[k] = first[k]
        /\ \A k \in (l + 1)..(l + r) : (first \o second)[k] = second[k - l]
    BY ONLY <2>2
  <2>4. l + r = n
    BY <2>1
  <2>5. QED
    BY <1>9, <2>1, <2>3, <2>4
<1>11. Order(i) = both
  BY <1>1, <1>2, <1>3, <1>5, <1>6, <1>9 DEF Order
<1>12. ASSUME NEW k \in 1..n
       PROVE  PlaceOf(i, k) \in 1..n /\ both[k] = names[PlaceOf(i, k)] /\ both[k] \in Variants
  <2>1. CASE r + k <= n
    <3>1. PlaceOf(i, k) = r + k /\ k \in 1..(n - r) /\ r + k \in 1..n
      BY <1>1, <1>2, <2>1 DEF PlaceOf
    <3>2. QED
      BY <1>4, <1>7, <1>10, <3>1
  <2>2. CASE r + k > n
    <3>1. PICK j \in 1..r : j = (r + k) - n
      BY <2>2
    <3>2. PlaceOf(i, k) = j /\ k \in (n - r + 1)..n /\ k - (n - r) = j /\ j \in 1..n
      BY <1>1, <1>2, <2>2, <3>1 DEF PlaceOf
    <3>3. QED
      BY <1>4, <1>8, <1>10, <3>2
  <2>3. QED
    BY <2>1, <2>2
<1>13. QED
  BY <1>1, <1>2, <1>3, <1>10, <1>11, <1>12

\* Each variant has one turn in each iteration.
LEMMA OrderOnce ==
  ASSUME NEW i \in Nat
  PROVE  /\ \A j, k \in 1..Len(Variant) : Order(i)[j] = Order(i)[k] => j = k
         /\ \A v \in Variants : \E k \in 1..Len(Variant) : Order(i)[k] = v
<1>1. PICK n \in Nat \ {0} : n = Len(Variant)
  BY BlockAssumption
<1>2. PICK r \in 0..(n - 1) : r = i % n
  BY <1>1
<1>3. \A k \in 1..n : PlaceOf(i, k) \in 1..n /\ Order(i)[k] = Variant[PlaceOf(i, k)]
  BY <1>1, OrderPlaces
<1>4. \A k \in 1..n : PlaceOf(i, k) = IF r + k <= n THEN r + k ELSE (r + k) - n
  BY <1>1, <1>2 DEF PlaceOf
<1>5. DOMAIN Variant = 1..n
  BY <1>1, BlockAssumption
<1>6. ASSUME NEW j \in 1..n, NEW k \in 1..n, Order(i)[j] = Order(i)[k] PROVE j = k
  <2>1. Variant[PlaceOf(i, j)] = Variant[PlaceOf(i, k)] /\ PlaceOf(i, j) \in 1..n /\ PlaceOf(i, k) \in 1..n
    BY <1>3, <1>6
  <2>2. PlaceOf(i, j) = PlaceOf(i, k)
    BY <1>5, <2>1, BlockAssumption
  <2>3. PlaceOf(i, j) = (IF r + j <= n THEN r + j ELSE (r + j) - n) /\ PlaceOf(i, k) = IF r + k <= n THEN r + k ELSE (r + k) - n
    BY <1>4
  <2>4. PICK a \in 1..n : a = j
    BY <1>6
  <2>5. PICK b \in 1..n : b = k
    BY <1>6
  <2>6. (IF r + a <= n THEN r + a ELSE (r + a) - n) = (IF r + b <= n THEN r + b ELSE (r + b) - n)
    BY <2>2, <2>3, <2>4, <2>5
  <2>7. a = b
    BY <2>6
  <2>8. QED
    BY <2>4, <2>5, <2>7
<1>7. ASSUME NEW v \in Variants PROVE \E k \in 1..n : Order(i)[k] = v
  <2>1. PICK p \in 1..n : v = Variant[p]
    BY <1>5 DEF Variants
  <2>2. PICK k \in 1..n : p = IF r + k <= n THEN r + k ELSE (r + k) - n
    <3>1. CASE p > r
      <4>1. PICK k \in 1..n : k = p - r
        BY <3>1
      <4>2. r + k <= n /\ r + k = p
        BY <4>1
      <4>3. QED
        BY <4>2
    <3>2. CASE p <= r
      <4>1. (p - r) + n \in 1..n /\ r + ((p - r) + n) = p + n /\ p + n > n /\ (p + n) - n = p
        BY <3>2
      <4>2. QED
        BY <4>1
    <3>3. QED
      BY <3>1, <3>2
  <2>3. PlaceOf(i, k) = p
    BY <1>4, <2>2
  <2>4. QED
    BY <1>3, <2>1, <2>3
<1>8. QED
  BY <1>1, <1>6, <1>7

\* Which iterations a variant has a place in.
LEMMA PlacesRotate ==
  ASSUME NEW v \in Variants, NEW k \in 1..Len(Variant)
  PROVE  \E r \in 0..(Len(Variant) - 1) : \A i \in Nat : Order(i)[k] = v <=> i % Len(Variant) = r
<1>1. PICK n \in Nat \ {0} : n = Len(Variant)
  BY BlockAssumption
<1>2. DOMAIN Variant = 1..n
  BY <1>1, BlockAssumption
<1>3. PICK p \in 1..n : v = Variant[p]
  BY <1>2 DEF Variants
<1>4. PICK r \in 0..(n - 1) : r = IF p >= k THEN p - k ELSE (p - k) + n
  <2>1. k \in 1..n
    BY <1>1
  <2>2. (IF p >= k THEN p - k ELSE (p - k) + n) \in 0..(n - 1)
    BY <2>1
  <2>3. QED
    BY <2>2
<1>5. ASSUME NEW i \in Nat PROVE Order(i)[k] = v <=> i % n = r
  <2>1. PICK x \in 0..(n - 1) : x = i % n
    BY <1>1
  <2>2. PICK q \in 1..n : q = PlaceOf(i, k)
    BY <1>1, OrderPlaces
  <2>3. q = IF x + k <= n THEN x + k ELSE (x + k) - n
    BY <1>1, <2>1, <2>2 DEF PlaceOf
  <2>4. Order(i)[k] = Variant[q]
    BY <2>2, OrderPlaces
  <2>5. Order(i)[k] = v <=> q = p
    BY <1>2, <1>3, <2>4, BlockAssumption
  <2>6. q = p <=> x = r
    BY <1>1, <1>4, <2>3
  <2>7. QED
    BY <2>1, <2>5, <2>6
<1>6. QED
  BY <1>1, <1>5

\* Below m there are as many numbers of one remainder as of another, or one more.
LEMMA RemaindersAreFair ==
  ASSUME NEW n \in Nat \ {0}, NEW m \in Nat, NEW r \in 0..(n - 1), NEW s \in 0..(n - 1)
  PROVE  Cardinality({i \in 0..(m - 1) : i % n = r}) <= Cardinality({i \in 0..(m - 1) : i % n = s}) + 1
<1> DEFINE A == {i \in 0..(m - 1) : i % n = r}
           B == {i \in 0..(m - 1) : i % n = s}
<1>1. PICK d \in 0..(n - 1) : d = IF r >= s THEN r - s ELSE (r - s) + n
  <2>1. (IF r >= s THEN r - s ELSE (r - s) + n) \in 0..(n - 1)
    OBVIOUS
  <2>2. QED
    BY <2>1
<1>2. IsFiniteSet(A) /\ IsFiniteSet(B)
  <2>1. IsFiniteSet(0..(m - 1)) /\ A \subseteq 0..(m - 1) /\ B \subseteq 0..(m - 1)
    BY FS_Interval
  <2>2. QED
    BY <2>1, FS_Subset
<1>3. ASSUME NEW i \in A \ {r} PROVE i - d \in B
  <2>1. i \in Nat /\ i % n = r /\ i < m /\ i # r
    OBVIOUS
  <2>2. i >= n
    BY <2>1
  <2>3. i - d \in 0..(m - 1)
    BY <2>1, <2>2
  <2>4. (i - d) % n = s
    <3>1. PICK q \in Nat : i = (n * q) + r
      BY <2>1
    <3>2. CASE r >= s
      <4>1. i - d = (n * q) + s
        BY <1>1, <3>1, <3>2
      <4>2. QED
        BY <4>1
    <3>3. CASE r < s
      <4>1. q >= 1
        BY <2>2, <3>1
      <4>2. n * q = (n * (q - 1)) + n
        BY <4>1
      <4>3. PICK z \in Nat : z = q - 1
        BY <4>1
      <4>4. i - d = (n * z) + s
        BY <1>1, <3>1, <3>3, <4>2, <4>3
      <4>5. QED
        BY <4>4
    <3>4. QED
      BY <3>2, <3>3
  <2>5. QED
    BY <2>3, <2>4
<1>4. Cardinality(A \ {r}) <= Cardinality(B)
  <2> DEFINE f == [i \in A \ {r} |-> i - d]
  <2>1. f \in Injection(A \ {r}, B)
    <3>1. f \in [A \ {r} -> B]
      BY <1>3
    <3>2. \A i, j \in A \ {r} : f[i] = f[j] => i = j
      OBVIOUS
    <3>3. QED
      BY <3>1, <3>2 DEF Injection, IsInjective
  <2>2. QED
    BY <1>2, <2>1, FS_Injection
<1>5. Cardinality(A) \in Nat /\ Cardinality(B) \in Nat /\ Cardinality(A \ {r}) \in Nat
  BY <1>2, FS_CardinalityType, FS_Difference, FS_Subset
<1>6. Cardinality(A) <= Cardinality(A \ {r}) + 1
  <2>1. CASE r \in A
    <3>1. Cardinality(A \ {r}) = Cardinality(A) - 1
      BY <1>2, <2>1, FS_RemoveElement
    <3>2. QED
      BY <1>5, <3>1
  <2>2. CASE r \notin A
    <3>1. A \ {r} = A
      BY <2>2
    <3>2. QED
      BY <1>5, <3>1
  <2>3. QED
    BY <2>1, <2>2
<1>7. QED
  BY <1>4, <1>5, <1>6

\* A block begins.
LEMMA BlockStarts ==
  BlockInit => BlockInv
<1> SUFFICES ASSUME BlockInit
             PROVE  BlockInv
  OBVIOUS
<1>1. Len(Variant) \in Nat /\ Len(Variant) >= 1 /\ Warmup \in Nat
  BY BlockAssumption
<1>2. monitor \in {"none", "running", "failed"}
  BY DEF BlockInit
<1>3. readBefore \in [warmup : Clock \cup {None}, timed : Clock \cup {None}]
  BY DEF BlockInit, Readings
<1>4. /\ clock \in Clock /\ stage = "warmup" /\ round = 0 /\ turn = 0
      /\ samples = [v \in Variants |-> <<>>] /\ stamps = <<>>
  BY DEF BlockInit
<1>5. BlockTypeOK
  BY <1>1, <1>2, <1>3, <1>4 DEF BlockTypeOK
<1>6. RoundsEnd /\ SamplesFollow /\ StampsFollow /\ EndsHold
  BY <1>1, <1>4 DEF RoundsEnd, SamplesFollow, StampsFollow, EndsHold
<1>7. QED
  BY <1>5, <1>6 DEF BlockInv

\* The turns of a round, and the next round.
LEMMA CountedHolds ==
  ASSUME BlockTypeOK, Counted
  PROVE  /\ round' \in Nat /\ turn' \in 0..(Len(Variant) - 1)
         /\ \/ turn + 1 < Len(Variant) /\ turn' = turn + 1 /\ round' = round
            \/ turn + 1 = Len(Variant) /\ turn' = 0 /\ round' = round + 1
<1>1. PICK n \in Nat \ {0} : n = Len(Variant)
  BY BlockAssumption
<1>2. turn \in 0..(n - 1) /\ round \in Nat
  BY <1>1 DEF BlockTypeOK
<1>3. CASE turn + 1 < n
  BY <1>1, <1>2, <1>3 DEF Counted
<1>4. CASE turn + 1 = n
  BY <1>1, <1>2, <1>4 DEF Counted
<1>5. QED
  BY <1>2, <1>3, <1>4

\* A call that is thrown away.
LEMMA WarmupCallHolds ==
  ASSUME BlockInv, WarmupCall
  PROVE  BlockInv'
<1>1. BlockTypeOK /\ RoundsEnd /\ SamplesFollow /\ StampsFollow /\ EndsHold
  BY DEF BlockInv
<1>2. /\ stage = "warmup" /\ round < Warmup /\ clock' \in Clock /\ Counted
      /\ UNCHANGED <<stage, monitor, readBefore, samples, stamps, summary>>
  BY DEF WarmupCall, Called
<1>3. /\ round' \in Nat /\ turn' \in 0..(Len(Variant) - 1)
      /\ turn' = 0 \/ round' = round
      /\ round' = round \/ round' = round + 1
  BY <1>1, <1>2, CountedHolds
<1>4. round \in Nat /\ Warmup \in Nat
  BY <1>1, BlockAssumption DEF BlockTypeOK
<1>5. BlockTypeOK'
  BY <1>1, <1>2, <1>3 DEF BlockTypeOK
<1>6. RoundsEnd'
  BY <1>2, <1>3, <1>4 DEF RoundsEnd
<1>7. SamplesFollow' /\ StampsFollow' /\ EndsHold'
  BY <1>1, <1>2 DEF SamplesFollow, StampsFollow, EndsHold
<1>8. QED
  BY <1>5, <1>6, <1>7 DEF BlockInv

\* The clock is read between the two.
LEMMA AfterWarmupHolds ==
  ASSUME BlockInv, AfterWarmup
  PROVE  BlockInv'
<1>1. BlockTypeOK /\ RoundsEnd /\ SamplesFollow /\ StampsFollow /\ EndsHold
  BY DEF BlockInv
<1>2. /\ stage = "warmup" /\ round = Warmup /\ stage' = "timed" /\ round' = 0
      /\ UNCHANGED <<clock, turn, monitor, samples, stamps, summary>>
  BY DEF AfterWarmup
<1>3. turn = 0 /\ stamps = <<>> /\ \A v \in Variants : samples[v] = <<>>
  BY <1>1, <1>2 DEF RoundsEnd, SamplesFollow, StampsFollow
<1>4. readBefore' \in [warmup : Clock \cup {None}, timed : Clock \cup {None}]
  <2>1. PICK reading \in Readings : readBefore' = [readBefore EXCEPT !.timed = reading]
    BY DEF AfterWarmup
  <2>2. reading \in Clock \cup {None} /\ readBefore \in [warmup : Clock \cup {None}, timed : Clock \cup {None}]
    BY <1>1, <2>1 DEF BlockTypeOK, Readings
  <2>3. QED
    BY <2>1, <2>2
<1>5. BlockTypeOK'
  BY <1>1, <1>2, <1>4 DEF BlockTypeOK
<1>6. PICK n \in Nat \ {0} : n = Len(Variant)
  BY BlockAssumption
<1>7. RoundsEnd'
  BY <1>2, <1>3, BlockAssumption DEF RoundsEnd
<1>8. SamplesFollow'
  <2>1. ASSUME NEW k \in 1..n PROVE Len(samples'[Order(0)[k]]) = 0
    <3>1. Order(0)[k] \in Variants
      BY <1>6, OrderPlaces
    <3>2. QED
      BY <1>2, <1>3, <3>1
  <2>2. QED
    BY <1>2, <1>3, <1>6, <2>1 DEF SamplesFollow
<1>9. StampsFollow'
  <2>1. Len(stamps') = round' * Len(Variant) + turn'
    BY <1>2, <1>3, <1>6
  <2>2. ASSUME NEW i \in Nat, NEW k \in 1..Len(Variant) PROVE ~Been(i, k)'
    BY <1>2, <1>3, <1>6, <2>2 DEF Been
  <2>3. QED
    BY <1>2, <1>3, <2>1, <2>2 DEF StampsFollow
<1>10. EndsHold'
  BY <1>2 DEF EndsHold
<1>11. QED
  BY <1>5, <1>7, <1>8, <1>9, <1>10 DEF BlockInv

\* A call that is timed.
LEMMA TimedCallHolds ==
  ASSUME BlockInv, TimedCall
  PROVE  BlockInv'
<1>1. BlockTypeOK /\ RoundsEnd /\ SamplesFollow /\ StampsFollow /\ EndsHold
  BY DEF BlockInv
<1>2. PICK called : called = Order(round)[turn + 1]
  OBVIOUS
<1>3. /\ stage = "timed" /\ round < Iterations /\ clock' \in Clock /\ Counted
      /\ samples' = [samples EXCEPT ![called] = Append(@, clock')]
      /\ stamps' = IF monitor = "none" THEN stamps ELSE Append(stamps, [iteration |-> round, variant |-> called])
      /\ UNCHANGED <<stage, monitor, readBefore, summary>>
  BY <1>2 DEF TimedCall, Called
<1>4. PICK n \in Nat \ {0} : n = Len(Variant)
  BY BlockAssumption
<1>5. /\ round' \in Nat /\ turn' \in 0..(n - 1)
      /\ \/ turn + 1 < n /\ turn' = turn + 1 /\ round' = round
         \/ turn + 1 = n /\ turn' = 0 /\ round' = round + 1
  BY <1>1, <1>3, <1>4, CountedHolds
<1>6. /\ round \in Nat /\ turn \in 0..(n - 1) /\ turn + 1 \in 1..n /\ Iterations \in Nat
      /\ samples \in [Variants -> Seq(Clock)] /\ stamps \in Seq([iteration : Nat, variant : Variants])
  BY <1>1, <1>4, BlockAssumption DEF BlockTypeOK
<1>7. called \in Variants
  BY <1>2, <1>4, <1>6, OrderPlaces
<1>8. PICK last \in Clock : last = clock'
  BY <1>3
<1>9. /\ samples'[called] = Append(samples[called], last) /\ samples[called] \in Seq(Clock)
      /\ \A v \in Variants : v # called => samples'[v] = samples[v]
  BY <1>3, <1>6, <1>7, <1>8
<1>10. \A k \in 1..n : Order(round)[k] \in Variants /\ Len(samples[Order(round)[k]]) = IF k <= turn THEN round + 1 ELSE round
  BY <1>1, <1>3, <1>4, <1>6, OrderPlaces DEF SamplesFollow
<1>11. Len(samples[called]) = round
  BY <1>2, <1>6, <1>10
<1>12. Len(samples'[called]) = round + 1 /\ samples'[called][round + 1] = last
  BY <1>6, <1>9, <1>11
<1>13. \A k \in 1..n : Len(samples'[Order(round)[k]]) = IF k <= turn + 1 THEN round + 1 ELSE round
  <2>1. SUFFICES ASSUME NEW k \in 1..n
                 PROVE  Len(samples'[Order(round)[k]]) = IF k <= turn + 1 THEN round + 1 ELSE round
    OBVIOUS
  <2>2. CASE k = turn + 1
    BY <1>2, <1>12, <2>2
  <2>3. CASE k # turn + 1
    <3>1. Order(round)[k] # called
      BY <1>2, <1>4, <1>6, <2>3, OrderOnce
    <3>2. samples'[Order(round)[k]] = samples[Order(round)[k]]
      BY <1>9, <1>10, <3>1
    <3>3. k <= turn + 1 <=> k <= turn
      BY <1>6, <2>3
    <3>4. QED
      BY <1>10, <3>2, <3>3
  <2>4. QED
    BY <2>2, <2>3
<1>14. BlockTypeOK'
  <2>1. samples' \in [Variants -> Seq(Clock)]
    <3>1. PICK more \in Seq(Clock) : more = Append(samples[called], last)
      BY <1>9
    <3>2. samples' = [samples EXCEPT ![called] = more]
      BY <1>3, <1>8, <3>1
    <3>3. QED
      BY <1>6, <1>7, <3>2
  <2>2. stamps' \in Seq([iteration : Nat, variant : Variants])
    <3>1. PICK stamp \in [iteration : Nat, variant : Variants] : stamp = [iteration |-> round, variant |-> called]
      BY <1>6, <1>7
    <3>2. Append(stamps, stamp) \in Seq([iteration : Nat, variant : Variants])
      BY <1>6
    <3>3. stamps' = stamps \/ stamps' = Append(stamps, stamp)
      BY <1>3, <3>1
    <3>4. QED
      BY <1>6, <3>2, <3>3
  <2>3. QED
    BY <1>1, <1>3, <1>4, <1>5, <2>1, <2>2 DEF BlockTypeOK
<1>15. RoundsEnd'
  BY <1>3, <1>5, <1>6 DEF RoundsEnd
<1>16. SamplesFollow'
  <2>1. CASE turn + 1 < n /\ turn' = turn + 1 /\ round' = round
    <3>1. \A k \in 1..Len(Variant) : Len(samples'[Order(round')[k]]) = IF k <= turn' THEN round' + 1 ELSE round'
      BY <1>4, <1>13, <2>1
    <3>2. turn' # 0
      BY <1>6, <2>1
    <3>3. QED
      BY <1>3, <3>1, <3>2 DEF SamplesFollow
  <2>2. CASE turn + 1 = n /\ turn' = 0 /\ round' = round + 1
    <3>1. \A k \in 1..n : Len(samples'[Order(round)[k]]) = round + 1
      BY <1>13, <2>2
    <3>2. ASSUME NEW k \in 1..n PROVE Len(samples'[Order(round + 1)[k]]) = round + 1
      <4>1. round + 1 \in Nat
        BY <1>6
      <4>2. Order(round + 1)[k] \in Variants
        BY <1>4, <4>1, OrderPlaces
      <4>3. PICK j \in 1..n : Order(round)[j] = Order(round + 1)[k]
        BY <1>4, <1>6, <4>2, OrderOnce
      <4>4. QED
        BY <3>1, <4>3
    <3>3. \A k \in 1..Len(Variant) : Len(samples'[Order(round')[k]]) = IF k <= turn' THEN round' + 1 ELSE round'
      BY <1>4, <2>2, <3>2
    <3>4. samples'[Order(round' - 1)[Len(Variant)]][round'] = clock'
      <4>1. round' - 1 = round /\ called = Order(round)[n]
        BY <1>2, <1>6, <2>2
      <4>2. QED
        BY <1>4, <1>8, <1>12, <2>2, <4>1
    <3>5. QED
      BY <1>3, <3>3, <3>4 DEF SamplesFollow
  <2>3. QED
    BY <1>5, <2>1, <2>2
<1>17. StampsFollow'
  <2>1. CASE monitor = "none"
    BY <1>1, <1>3, <2>1 DEF StampsFollow
  <2>2. CASE monitor # "none"
    <3>9. PICK o \in Nat : o = round * n
      BY <1>6
    <3>1. PICK l \in Nat : l = o + turn
      BY <1>6
    <3>2. Len(stamps) = l /\ \A i \in Nat, k \in 1..n : Been(i, k) => stamps[i * n + k].variant = Order(i)[k]
      BY <1>1, <1>3, <1>4, <2>2, <3>1, <3>9 DEF StampsFollow
    <3>3. PICK stamp \in [iteration : Nat, variant : Variants] : stamp = [iteration |-> round, variant |-> called]
      BY <1>6, <1>7
    <3>4. stamps' = Append(stamps, stamp)
      BY <1>3, <2>2, <3>3
    <3>5. Len(stamps') = l + 1 /\ stamps'[l + 1] = stamp /\ \A j \in 1..l : stamps'[j] = stamps[j]
      BY <1>6, <3>2, <3>4
    <3>6. Len(stamps') = round' * Len(Variant) + turn'
      <4>1. CASE turn + 1 < n /\ turn' = turn + 1 /\ round' = round
        BY <1>4, <1>6, <3>1, <3>5, <3>9, <4>1
      <4>2. CASE turn + 1 = n /\ turn' = 0 /\ round' = round + 1
        <5>1. (round + 1) * n = o + n
          BY <1>6, <3>9
        <5>2. Len(stamps') = o + n
          BY <1>6, <3>1, <3>5, <4>2
        <5>3. QED
          BY <1>4, <4>2, <5>1, <5>2
      <4>3. QED
        BY <1>5, <4>1, <4>2
    <3>7. ASSUME NEW i \in Nat, NEW k \in 1..n, Been(i, k)'
          PROVE  stamps'[i * n + k].variant = Order(i)[k]
      <4>1. CASE i = round /\ k = turn + 1
        <5>1. i * n + k = l + 1
          BY <1>6, <3>1, <3>9, <4>1
        <5>2. stamps'[i * n + k].variant = called
          BY <3>3, <3>5, <5>1
        <5>3. QED
          BY <1>2, <4>1, <5>2
      <4>2. CASE ~(i = round /\ k = turn + 1)
        <5>1. Been(i, k)
          BY <1>5, <1>6, <3>7, <4>2 DEF Been
        <5>2. i * n + k \in 1..l
          <6>1. PICK j \in Nat : j = i * n
            OBVIOUS
          <6>3. CASE i < round
            <7>1. j + n <= o
              BY <1>6, <3>9, <6>1, <6>3
            <7>2. j + k \in 1..l
              BY <1>6, <3>1, <7>1
            <7>3. QED
              BY <6>1, <7>2
          <6>4. CASE i = round /\ k <= turn
            <7>1. j = o
              BY <3>9, <6>1, <6>4
            <7>2. j + k \in 1..l
              BY <1>6, <3>1, <6>4, <7>1
            <7>3. QED
              BY <6>1, <7>2
          <6>5. QED
            BY <5>1, <6>3, <6>4 DEF Been
        <5>3. QED
          BY <3>2, <3>5, <5>1, <5>2
      <4>3. QED
        BY <4>1, <4>2
    <3>8. QED
      BY <1>3, <1>4, <2>2, <3>6, <3>7 DEF StampsFollow
  <2>3. QED
    BY <2>1, <2>2
<1>18. EndsHold'
  BY <1>3 DEF EndsHold
<1>19. QED
  BY <1>14, <1>15, <1>16, <1>17, <1>18 DEF BlockInv

\* A variant raises.
LEMMA RaiseHolds ==
  ASSUME BlockInv, Raise
  PROVE  BlockInv'
<1>1. BlockTypeOK /\ StampsFollow
  BY DEF BlockInv
<1>2. /\ stage \in {"warmup", "timed"} /\ stage' = "raised" /\ clock' \in Clock /\ monitor' = Stopped
      /\ UNCHANGED <<round, turn, readBefore, samples, stamps, summary>>
  BY DEF Raise, Called
<1>3. monitor' \in {"none", "failed", "stopped"} /\ (monitor' = "none" => monitor = "none")
  BY <1>1, <1>2 DEF Stopped, BlockTypeOK
<1>4. BlockTypeOK'
  BY <1>1, <1>2, <1>3 DEF BlockTypeOK
<1>5. RoundsEnd' /\ SamplesFollow' /\ StampsFollow' /\ EndsHold'
  BY <1>1, <1>2, <1>3 DEF RoundsEnd, SamplesFollow, StampsFollow, EndsHold
<1>6. QED
  BY <1>4, <1>5 DEF BlockInv

\* The block is over.
LEMMA SaveBlockHolds ==
  ASSUME BlockInv, SaveBlock
  PROVE  BlockInv'
<1>1. BlockTypeOK /\ RoundsEnd /\ SamplesFollow /\ StampsFollow
  BY DEF BlockInv
<1>2. /\ stage = "timed" /\ round = Iterations /\ stage' = "saved" /\ monitor' = Stopped
      /\ UNCHANGED <<clock, round, turn, readBefore, samples, stamps>>
  BY DEF SaveBlock
<1>3. monitor' \in {"none", "failed", "stopped"} /\ (monitor' = "none" <=> monitor = "none")
  BY <1>1, <1>2 DEF Stopped, BlockTypeOK
<1>4. BlockTypeOK'
  BY <1>1, <1>2, <1>3 DEF BlockTypeOK
<1>5. RoundsEnd' /\ SamplesFollow'
  BY <1>1, <1>2 DEF RoundsEnd, SamplesFollow
<1>6. StampsFollow'
  BY <1>1, <1>2, <1>3 DEF StampsFollow, Been
<1>7. EndsHold'
  <2>1. PICK reading \in Readings : summary' = [drop |-> Drop(ClockBefore, reading)]
    BY DEF SaveBlock
  <2>2. reading \in Readings' /\ ClockBefore = readBefore'.timed
    BY <1>2 DEF Readings, ClockBefore
  <2>3. QED
    BY <1>3, <2>1, <2>2 DEF EndsHold
<1>8. QED
  BY <1>4, <1>5, <1>6, <1>7 DEF BlockInv

\* The invariant of a block.
THEOREM BlockInvariant == BlockSpec => []BlockInv
<1>1. BlockInv /\ [BlockNext]_blockVars => BlockInv'
  <2> SUFFICES ASSUME BlockInv, [BlockNext]_blockVars
               PROVE  BlockInv'
    OBVIOUS
  <2>1. CASE WarmupCall
    BY <2>1, WarmupCallHolds
  <2>2. CASE AfterWarmup
    BY <2>2, AfterWarmupHolds
  <2>3. CASE TimedCall
    BY <2>3, TimedCallHolds
  <2>4. CASE Raise
    BY <2>4, RaiseHolds
  <2>5. CASE SaveBlock
    BY <2>5, SaveBlockHolds
  <2>6. CASE UNCHANGED blockVars
    BY <2>6 DEF blockVars, BlockInv, BlockTypeOK, RoundsEnd, SamplesFollow, StampsFollow, Been, EndsHold, Readings
  <2>7. QED
    BY <2>1, <2>2, <2>3, <2>4, <2>5, <2>6 DEF BlockNext
<1>2. QED
  BY <1>1, BlockStarts, PTL DEF BlockSpec

\* No monitor is left, and every variant has its samples.
LEMMA EndsWell ==
  BlockInv => NoPollerLeft
<1> SUFFICES ASSUME BlockInv
             PROVE  NoPollerLeft
  OBVIOUS
<1>1. stage \in {"saved", "raised"} => monitor # "running"
  BY DEF BlockInv, EndsHold
<1>2. ASSUME stage = "saved", NEW v \in Variants PROVE Len(samples[v]) = Iterations
  <2>1. round = Iterations /\ turn = 0 /\ Iterations \in Nat
    BY <1>2, BlockAssumption DEF BlockInv, RoundsEnd
  <2>2. PICK k \in 1..Len(Variant) : Order(round)[k] = v
    BY <2>1, OrderOnce
  <2>3. Len(samples[Order(round)[k]]) = IF k <= turn THEN round + 1 ELSE round
    BY <1>2 DEF BlockInv, SamplesFollow
  <2>4. ~(k <= turn)
    BY <2>1
  <2>5. QED
    BY <2>1, <2>2, <2>3, <2>4
<1>3. QED
  BY <1>1, <1>2 DEF NoPollerLeft

\* A drop is flagged.
LEMMA DropsAreTold ==
  BlockInv => NoHiddenDrop
<1> SUFFICES ASSUME BlockInv, stage = "saved", summary.drop # None, readBefore.timed # None
             PROVE  LET last == Order(Iterations - 1)[Len(Variant)]
                        end  == samples[last][Iterations]
                    IN  summary.drop <=> readBefore.timed > end /\ (readBefore.timed - end) * 10 > readBefore.timed
  BY DEF NoHiddenDrop
<1>1. round = Iterations /\ turn = 0 /\ Iterations \in Nat /\ Iterations > 0
  BY BlockAssumption DEF BlockInv, RoundsEnd
<1>2. samples[Order(Iterations - 1)[Len(Variant)]][Iterations] = clock
  BY <1>1 DEF BlockInv, SamplesFollow
<1>3. PICK reading \in Readings : summary = [drop |-> Drop(readBefore.timed, reading)]
  BY DEF BlockInv, EndsHold
<1>4. None \notin {readBefore.timed, reading}
  <2>1. SUFFICES ASSUME None \in {readBefore.timed, reading} PROVE FALSE
    OBVIOUS
  <2>2. Drop(readBefore.timed, reading) = None
    BY <2>1 DEF Drop
  <2>3. summary.drop = None
    BY <1>3, <2>2
  <2>4. QED
    BY <2>3
<1>5. reading = clock
  BY <1>4 DEF Readings
<1>6. Drop(readBefore.timed, clock) = (readBefore.timed > clock /\ (readBefore.timed - clock) * 10 > readBefore.timed)
  BY <1>4, <1>5 DEF Drop
<1>7. summary.drop = (readBefore.timed > clock /\ (readBefore.timed - clock) * 10 > readBefore.timed)
  BY <1>3, <1>5, <1>6
<1>8. QED
  BY <1>2, <1>7

\* The turns are fair.
LEMMA TurnsRotate ==
  BlockInv => TurnsAreFair
<1> SUFFICES ASSUME BlockInv, stage = "saved", stamps # <<>>,
                    NEW v \in Variants, NEW w \in Variants, NEW place \in 1..Len(Variant)
             PROVE  Cardinality({i \in 0..(Iterations - 1) : stamps[i * Len(Variant) + place].variant = v})
                      <= Cardinality({i \in 0..(Iterations - 1) : stamps[i * Len(Variant) + place].variant = w}) + 1
  BY DEF TurnsAreFair
<1>1. round = Iterations /\ Iterations \in Nat
  BY BlockAssumption DEF BlockInv, RoundsEnd
<1>2. monitor # "none"
  BY DEF BlockInv, StampsFollow
<1>3. ASSUME NEW i \in 0..(Iterations - 1) PROVE stamps[i * Len(Variant) + place].variant = Order(i)[place]
  <2>1. i \in Nat /\ Been(i, place)
    BY <1>1 DEF Been
  <2>2. QED
    BY <1>2, <2>1 DEF BlockInv, StampsFollow
<1>4. PICK r \in 0..(Len(Variant) - 1) : \A i \in Nat : Order(i)[place] = v <=> i % Len(Variant) = r
  BY PlacesRotate
<1>5. PICK s \in 0..(Len(Variant) - 1) : \A i \in Nat : Order(i)[place] = w <=> i % Len(Variant) = s
  BY PlacesRotate
<1>6. {i \in 0..(Iterations - 1) : stamps[i * Len(Variant) + place].variant = v} = {i \in 0..(Iterations - 1) : i % Len(Variant) = r}
  <2>1. ASSUME NEW i \in 0..(Iterations - 1) PROVE stamps[i * Len(Variant) + place].variant = v <=> i % Len(Variant) = r
    <3>1. stamps[i * Len(Variant) + place].variant = Order(i)[place]
      BY <1>3
    <3>2. i \in Nat
      BY <1>1
    <3>3. Order(i)[place] = v <=> i % Len(Variant) = r
      BY <1>4, <3>2
    <3>4. QED
      BY <3>1, <3>3, Zenon
  <2>2. QED
    BY <2>1
<1>7. {i \in 0..(Iterations - 1) : stamps[i * Len(Variant) + place].variant = w} = {i \in 0..(Iterations - 1) : i % Len(Variant) = s}
  <2>1. ASSUME NEW i \in 0..(Iterations - 1) PROVE stamps[i * Len(Variant) + place].variant = w <=> i % Len(Variant) = s
    <3>1. stamps[i * Len(Variant) + place].variant = Order(i)[place]
      BY <1>3
    <3>2. i \in Nat
      BY <1>1
    <3>3. Order(i)[place] = w <=> i % Len(Variant) = s
      BY <1>5, <3>2
    <3>4. QED
      BY <3>1, <3>3, Zenon
  <2>2. QED
    BY <2>1
<1>8. Len(Variant) \in Nat \ {0}
  BY BlockAssumption
<1>9. Cardinality({i \in 0..(Iterations - 1) : i % Len(Variant) = r}) <= Cardinality({i \in 0..(Iterations - 1) : i % Len(Variant) = s}) + 1
  BY <1>1, <1>8, RemaindersAreFair
<1>10. QED
  BY <1>6, <1>7, <1>9

\* For any variants, any number of rounds, any clocks and whatever raises or is missing: however a
\* block ends, its monitor does not go on, every variant of a saved block has a sample for every
\* iteration, a drop of the clock that was read is flagged, and every variant was called in every
\* place equally often, but for one call.
THEOREM BlocksAreSound == BlockSpec => []BlockIsSound
<1>1. BlockInv => BlockIsSound
  BY EndsWell, DropsAreTold, TurnsRotate DEF BlockIsSound
<1>2. QED
  BY <1>1, BlockInvariant, PTL

-----------------------------------------------------------------------------
(* Fuzz                                                                    *)

\* The types of ddmin; there is something to cut while it is being cut.
FuzzTypeOK ==
  /\ ops \in Seq(Nat) /\ cut \in Nat /\ cut >= 2 /\ nextPart \in Nat \ {0}
  /\ pass \in {"subset", "complement", "one", "done"}
  /\ pass \in {"subset", "complement"} => Len(ops) >= 2 /\ nextPart <= ChunkCount

\* The complements before the next were tried and do not fail.
ComplementsTried ==
  pass = "complement" => \A k \in 1..(nextPart - 1) : Complement(k) \in agrees \cup {<<>>}

\* No single operation can be left out, as soon as single operations are tried.
SinglesTried ==
  pass \in {"one", "done"} => \A k \in 1..Len(ops) : Without(k) \in agrees \cup {<<>>}

FuzzInv == FuzzTypeOK /\ ops \in fails /\ ComplementsTried /\ SinglesTried

\* Quotients.
LEMMA Quotient ==
  ASSUME NEW a \in Nat, NEW b \in Nat \ {0}
  PROVE  a \div b \in Nat /\ (a \div b) * b <= a /\ a < ((a \div b) * b) + b
OBVIOUS

\* Before each of the chunks there is less than the stream.
LEMMA ChunkStarts ==
  ASSUME FuzzTypeOK, Len(ops) >= 2
  PROVE  /\ Size \in Nat \ {0} /\ ChunkCount \in Nat \ {0}
         /\ \A k \in 1..ChunkCount : (k - 1) * Size \in 0..(Len(ops) - 1)
<1>1. PICK m \in Nat : m = Len(ops)
  BY DEF FuzzTypeOK
<1>2. m >= 2 /\ cut \in Nat /\ cut >= 2
  BY <1>1 DEF FuzzTypeOK
<1>3. PICK z \in Nat : z = Size
  BY <1>1, <1>2 DEF Size
<1>4. z >= 1
  <2>1. PICK a \in Nat : a = (m + cut) - 1
    BY <1>2
  <2>2. z = a \div cut
    BY <1>1, <1>2, <1>3, <2>1 DEF Size
  <2>3. a < (z * cut) + cut
    BY <1>2, <2>1, <2>2, Quotient
  <2>4. SUFFICES ASSUME z = 0 PROVE FALSE
    OBVIOUS
  <2>5. a < cut
    BY <1>2, <2>3, <2>4
  <2>6. QED
    BY <1>2, <2>1, <2>5
<1>5. PICK a \in Nat : a = (m + z) - 1
  BY <1>2
<1>6. PICK q \in Nat : q = a \div z
  BY <1>4, <1>5
<1>7. ChunkCount = q
  BY <1>1, <1>2, <1>3, <1>5, <1>6 DEF ChunkCount
<1>8. q * z <= a /\ a < (q * z) + z
  BY <1>4, <1>6, Quotient
<1>9. q # 0
  <2>1. SUFFICES ASSUME q = 0 PROVE FALSE
    OBVIOUS
  <2>2. a < z
    BY <1>8, <2>1
  <2>3. QED
    BY <1>2, <1>5, <2>2
<1>10. ASSUME NEW k \in 1..q PROVE (k - 1) * z \in 0..(m - 1)
  <2>1. PICK j \in Nat : j = k - 1
    OBVIOUS
  <2>2. PICK p \in Nat : p = j * z
    OBVIOUS
  <2>3. PICK o \in Nat : o = q * z
    OBVIOUS
  <2>4. p + z <= o
    <3>1. j + 1 <= q
      BY <2>1
    <3>2. (j + 1) * z <= o
      BY <2>3, <3>1
    <3>3. (j + 1) * z = p + z
      BY <2>2
    <3>4. QED
      BY <3>2, <3>3
  <2>5. p <= m - 1
    BY <1>5, <1>8, <2>3, <2>4
  <2>6. QED
    BY <1>2, <2>1, <2>2, <2>5
<1>11. QED
  BY <1>1, <1>3, <1>4, <1>7, <1>9, <1>10

\* The parts of a stream are streams.
LEMMA PartsAreStreams ==
  ASSUME FuzzTypeOK, Len(ops) >= 2, NEW k \in 1..ChunkCount
  PROVE  Chunk(k) \in Seq(Nat) /\ Complement(k) \in Seq(Nat)
<1>1. PICK m \in Nat : m = Len(ops)
  BY DEF FuzzTypeOK
<1>2. ops \in Seq(Nat)
  BY DEF FuzzTypeOK
<1>3. PICK p \in 0..(m - 1) : p = (k - 1) * Size
  BY <1>1, ChunkStarts
<1>4. PICK e \in p..m : e = Least(k * Size, Len(ops))
  <2>1. PICK z \in Nat : z = Size
    BY ChunkStarts
  <2>2. k \in Nat
    BY ChunkStarts
  <2>3. k * z = p + z
    BY <1>3, <2>1, <2>2
  <2>4. PICK o \in Nat : o = k * Size /\ o >= p
    BY <2>1, <2>3
  <2>5. Least(o, m) \in p..m
    BY <1>3, <2>4 DEF Least
  <2>6. QED
    BY <1>1, <2>4, <2>5
<1>5. Chunk(k) \in Seq(Nat)
  <2>1. SubSeq(ops, p + 1, e) \in Seq(Nat)
    BY <1>1, <1>2, <1>3, <1>4
  <2>2. QED
    BY <1>3, <1>4, <2>1 DEF Chunk
<1>6. Complement(k) \in Seq(Nat)
  <2>1. SubSeq(ops, 1, p) \in Seq(Nat) /\ SubSeq(ops, e + 1, m) \in Seq(Nat)
    BY <1>1, <1>2, <1>3, <1>4
  <2>2. SubSeq(ops, 1, p) \o SubSeq(ops, e + 1, m) \in Seq(Nat)
    BY <2>1
  <2>3. QED
    BY <1>1, <1>3, <1>4, <2>2 DEF Complement
<1>7. QED
  BY <1>5, <1>6

\* Cut as fine as can be, a complement lacks a single operation.
LEMMA FineComplements ==
  ASSUME FuzzTypeOK, Len(ops) >= 2, FineEnough
  PROVE  ChunkCount = Len(ops) /\ \A k \in 1..Len(ops) : Complement(k) = Without(k)
<1>1. PICK m \in Nat : m = Len(ops)
  BY DEF FuzzTypeOK
<1>2. m >= 2 /\ cut \in Nat /\ cut >= m
  BY <1>1 DEF FuzzTypeOK, FineEnough
<1>3. Size = 1
  <2>1. PICK a \in Nat : a = (m + cut) - 1
    BY <1>2
  <2>2. PICK z \in Nat : z = a \div cut
    BY <1>2
  <2>3. z * cut <= a /\ a < (z * cut) + cut
    BY <1>2, <2>2, Quotient
  <2>4. cut <= a /\ a < cut + cut
    BY <1>2, <2>1
  <2>5. z = 1
    BY <1>2, <2>3, <2>4
  <2>6. Size = a \div cut
    <3>1. Size = (Len(ops) + cut - 1) \div cut
      BY DEF Size
    <3>2. Len(ops) + cut - 1 = a
      BY <1>1, <1>2, <2>1
    <3>3. QED
      BY <3>1, <3>2
  <2>7. QED
    BY <2>2, <2>5, <2>6
<1>4. ChunkCount = m
  BY <1>1, <1>2, <1>3 DEF ChunkCount
<1>5. ASSUME NEW k \in 1..m PROVE Complement(k) = Without(k)
  <2>1. (k - 1) * Size = k - 1 /\ Least(k * Size, Len(ops)) = k
    BY <1>1, <1>3 DEF Least
  <2>2. QED
    BY <2>1 DEF Complement, Without
<1>6. QED
  BY <1>1, <1>4, <1>5

\* Of a single operation nothing is left without it.
LEMMA NothingWithout ==
  ASSUME ops \in Seq(Nat), Len(ops) < 2, NEW k \in 1..Len(ops)
  PROVE  Without(k) = <<>>
<1>1. k = 1 /\ Len(ops) = 1
  <2>1. PICK m \in Nat : m = Len(ops)
    OBVIOUS
  <2>2. m < 2 /\ k \in 1..m
    BY <2>1
  <2>3. k = 1 /\ m = 1
    BY <2>2
  <2>4. QED
    BY <2>1, <2>3
<1>2. SubSeq(ops, 1, 0) = <<>> /\ SubSeq(ops, 2, 1) = <<>>
  BY <1>1
<1>3. SubSeq(ops, 1, k - 1) = <<>> /\ SubSeq(ops, k + 1, Len(ops)) = <<>>
  BY <1>1, <1>2
<1>4. QED
  BY <1>3 DEF Without

\* A round begins with a stream that fails.
LEMMA RoundHolds ==
  ASSUME NEW s \in Seq(Nat), s \in fails', NEW chunks \in Nat, chunks >= 2, Round(s, chunks)
  PROVE  FuzzInv'
<1>1. ops' = s /\ cut' = chunks /\ nextPart' = 1 /\ pass' = IF Len(s) >= 2 THEN "subset" ELSE "one"
  BY DEF Round
<1>2. FuzzTypeOK'
  <2>1. CASE Len(s) >= 2
    <3>1. PICK m \in Nat : m = Len(s)
      OBVIOUS
    <3>2. ChunkCount' >= 1
      <4>6. PICK a \in Nat : a = (m + chunks) - 1
        OBVIOUS
      <4>7. PICK q \in Nat : q = a \div chunks
        BY <4>6
      <4>1. PICK z \in Nat : z = (m + chunks - 1) \div chunks
        BY <4>6, <4>7
      <4>2. z >= 1
        BY <2>1, <3>1, <4>1
      <4>3. (m + z - 1) \div z >= 1
        BY <2>1, <3>1, <4>2
      <4>4. ChunkCount' = (m + z - 1) \div z
        BY <1>1, <3>1, <4>1 DEF ChunkCount, Size
      <4>5. QED
        BY <4>3, <4>4
    <3>3. QED
      BY <1>1, <2>1, <3>2 DEF FuzzTypeOK
  <2>2. CASE ~(Len(s) >= 2)
    BY <1>1, <2>2 DEF FuzzTypeOK
  <2>3. QED
    BY <2>1, <2>2
<1>3. ComplementsTried'
  BY <1>1 DEF ComplementsTried
<1>4. SinglesTried'
  <2>1. SUFFICES ASSUME ~(Len(s) >= 2), NEW k \in 1..Len(s)
                 PROVE  Without(k)' = <<>>
    BY <1>1 DEF SinglesTried
  <2>2. Len(s) = 1 /\ k = 1
    <3>1. PICK m \in Nat : m = Len(s)
      OBVIOUS
    <3>2. m < 2 /\ k \in 1..m
      BY <2>1, <3>1
    <3>3. k = 1 /\ m = 1
      BY <3>2
    <3>4. QED
      BY <3>1, <3>3
  <2>3. SubSeq(s, 1, 0) = <<>> /\ SubSeq(s, 2, 1) = <<>>
    BY <2>2
  <2>4. SubSeq(s, 1, k - 1) = <<>> /\ SubSeq(s, k + 1, Len(s)) = <<>>
    BY <2>2, <2>3
  <2>5. QED
    BY <1>1, <2>4 DEF Without
<1>5. QED
  BY <1>1, <1>2, <1>3, <1>4 DEF FuzzInv

\* ddmin is called.
LEMMA FuzzStarts ==
  FuzzInit => FuzzInv
<1> SUFFICES ASSUME FuzzInit
             PROVE  FuzzInv
  OBVIOUS
<1>1. PICK m \in 1..MaxOps : ops = [k \in 1..m |-> k]
  BY DEF FuzzInit
<1>2. m \in Nat /\ ops \in Seq(Nat) /\ Len(ops) = m
  BY <1>1, FuzzAssumption
<1>3. ops \in fails /\ cut = 2 /\ nextPart = 1 /\ pass = IF Len(ops) >= 2 THEN "subset" ELSE "one"
  BY DEF FuzzInit
<1>4. FuzzTypeOK
  <2>1. CASE m >= 2
    <3>1. PICK z \in Nat : z = (m + 2 - 1) \div 2
      BY <1>2
    <3>2. z >= 1
      BY <2>1, <3>1
    <3>3. (m + z - 1) \div z >= 1
      BY <2>1, <1>2, <3>2
    <3>4. ChunkCount = (m + z - 1) \div z
      BY <1>2, <1>3, <3>1 DEF ChunkCount, Size
    <3>5. QED
      BY <1>2, <1>3, <2>1, <3>3, <3>4 DEF FuzzTypeOK
  <2>2. CASE ~(m >= 2)
    BY <1>2, <1>3, <2>2 DEF FuzzTypeOK
  <2>3. QED
    BY <2>1, <2>2
<1>5. SinglesTried
  BY <1>2, <1>3, NothingWithout DEF SinglesTried
<1>6. QED
  BY <1>3, <1>4, <1>5 DEF FuzzInv, ComplementsTried

\* A stream is tried.
LEMMA Tried ==
  ASSUME NEW s, NEW verdict \in BOOLEAN, Failing(s, verdict)
  PROVE  /\ fails \subseteq fails' /\ agrees \subseteq agrees'
         /\ verdict => s \in fails' /\ s \notin agrees
         /\ ~verdict => s \in agrees'
<1>1. CASE verdict
  BY <1>1 DEF Failing
<1>2. CASE ~verdict
  BY <1>2 DEF Failing
<1>3. QED
  BY <1>1, <1>2

\* The next chunk is tried.
LEMMA TrySubsetHolds ==
  ASSUME FuzzInv, TrySubset
  PROVE  FuzzInv'
<1>1. FuzzTypeOK /\ ops \in fails /\ pass = "subset" /\ Len(ops) >= 2 /\ nextPart \in 1..ChunkCount /\ ChunkCount \in Nat \ {0}
  <2>1. FuzzTypeOK /\ ops \in fails /\ pass = "subset" /\ Len(ops) >= 2 /\ nextPart <= ChunkCount /\ nextPart \in Nat \ {0}
    BY DEF FuzzInv, FuzzTypeOK, TrySubset
  <2>2. ChunkCount \in Nat \ {0}
    BY <2>1, ChunkStarts
  <2>3. QED
    BY <2>1, <2>2
<1>2. CASE Failing(Chunk(nextPart), TRUE) /\ Round(Chunk(nextPart), 2)
  <2>1. Chunk(nextPart) \in Seq(Nat)
    BY <1>1, PartsAreStreams
  <2>2. Chunk(nextPart) \in fails'
    BY <1>2, Tried
  <2>3. 2 \in Nat /\ 2 >= 2
    OBVIOUS
  <2>4. QED
    BY <1>2, <2>1, <2>2, <2>3, RoundHolds
<1>3. CASE /\ Failing(Chunk(nextPart), FALSE)
           /\ IF nextPart < ChunkCount THEN nextPart' = nextPart + 1 /\ UNCHANGED pass ELSE nextPart' = 1 /\ pass' = "complement"
           /\ UNCHANGED <<ops, cut>>
  <2>1. fails \subseteq fails'
    BY <1>3, Tried
  <2>2. ChunkCount' = ChunkCount
    BY <1>3 DEF ChunkCount, Size
  <2>3. nextPart' \in 1..ChunkCount /\ pass' \in {"subset", "complement"} /\ (pass' = "complement" => nextPart' = 1)
    BY <1>1, <1>3
  <2>4. FuzzTypeOK'
    BY <1>1, <1>3, <2>2, <2>3 DEF FuzzTypeOK
  <2>5. ComplementsTried' /\ SinglesTried'
    <3>1. SinglesTried'
      BY <2>3 DEF SinglesTried
    <3>2. SUFFICES ASSUME pass' = "complement", NEW k \in 1..(nextPart' - 1) PROVE FALSE
      BY <3>1 DEF ComplementsTried
    <3>3. nextPart' - 1 = 0
      BY <2>3, <3>2
    <3>4. QED
      BY <3>2, <3>3
  <2>6. QED
    BY <1>1, <1>3, <2>1, <2>4, <2>5 DEF FuzzInv
<1>4. QED
  BY <1>2, <1>3 DEF TrySubset

\* No complement fails up to the next: the next one, a finer cut, or single operations.
LEMMA NoComplement ==
  ASSUME FuzzInv, pass = "complement", fails \subseteq fails', agrees \subseteq agrees',
         Complement(nextPart) \in agrees' \cup {<<>>},
         IF nextPart < ChunkCount THEN nextPart' = nextPart + 1 /\ UNCHANGED <<ops, cut, pass>> ELSE Finer
  PROVE  FuzzInv'
<1>1. /\ FuzzTypeOK /\ ops \in fails /\ Len(ops) >= 2 /\ nextPart <= ChunkCount /\ nextPart \in Nat \ {0}
      /\ ops \in Seq(Nat) /\ cut \in Nat /\ cut >= 2
  BY DEF FuzzInv, FuzzTypeOK
<1>2. ChunkCount \in Nat \ {0}
  BY <1>1, ChunkStarts
<1>3. \A k \in 1..nextPart : Complement(k) \in agrees' \cup {<<>>}
  <2>1. \A k \in 1..(nextPart - 1) : Complement(k) \in agrees \cup {<<>>}
    BY DEF FuzzInv, ComplementsTried
  <2>2. SUFFICES ASSUME NEW k \in 1..nextPart PROVE Complement(k) \in agrees' \cup {<<>>}
    OBVIOUS
  <2>3. CASE k = nextPart
    BY <2>3
  <2>4. CASE k # nextPart
    <3>1. k \in 1..(nextPart - 1)
      BY <1>1, <2>4
    <3>2. QED
      BY <2>1, <3>1
  <2>5. QED
    BY <2>3, <2>4
<1>4. CASE nextPart < ChunkCount
  <2>1. nextPart' = nextPart + 1 /\ ops' = ops /\ cut' = cut /\ pass' = pass
    BY <1>4
  <2>2. ChunkCount' = ChunkCount /\ \A k : Complement(k)' = Complement(k)
    BY <2>1 DEF ChunkCount, Size, Complement, Least
  <2>3. FuzzTypeOK'
    BY <1>1, <1>2, <1>4, <2>1, <2>2 DEF FuzzTypeOK
  <2>4. ComplementsTried'
    <3>1. nextPart' - 1 = nextPart
      BY <1>1, <2>1
    <3>2. QED
      BY <1>3, <2>2, <3>1 DEF ComplementsTried
  <2>5. SinglesTried'
    BY <2>1 DEF SinglesTried
  <2>6. QED
    BY <1>1, <2>1, <2>3, <2>4, <2>5 DEF FuzzInv
<1>5. CASE ~(nextPart < ChunkCount) /\ FineEnough
  <2>1. pass' = "one" /\ nextPart' = 1 /\ ops' = ops /\ cut' = cut
    BY <1>5 DEF Finer
  <2>2. nextPart = ChunkCount
    BY <1>1, <1>2, <1>5
  <2>3. ChunkCount = Len(ops) /\ \A k \in 1..Len(ops) : Complement(k) = Without(k)
    BY <1>1, <1>5, FineComplements
  <2>4. \A k \in 1..Len(ops) : Without(k) \in agrees' \cup {<<>>}
    BY <1>3, <2>2, <2>3
  <2>5. SinglesTried'
    BY <2>1, <2>4 DEF SinglesTried, Without
  <2>6. FuzzTypeOK'
    BY <1>1, <2>1 DEF FuzzTypeOK
  <2>7. QED
    BY <1>1, <2>1, <2>5, <2>6 DEF FuzzInv, ComplementsTried
<1>6. CASE ~(nextPart < ChunkCount) /\ ~FineEnough
  <2>1. Round(ops, Least(2 * cut, Len(ops)))
    BY <1>6 DEF Finer
  <2>2. Least(2 * cut, Len(ops)) \in Nat /\ Least(2 * cut, Len(ops)) >= 2
    BY <1>1 DEF Least
  <2>3. ops \in fails'
    BY <1>1
  <2>4. QED
    BY <1>1, <2>1, <2>2, <2>3, RoundHolds
<1>7. QED
  BY <1>4, <1>5, <1>6

\* The next complement is tried.
LEMMA TryComplementHolds ==
  ASSUME FuzzInv, TryComplement
  PROVE  FuzzInv'
<1>1. /\ FuzzTypeOK /\ pass = "complement" /\ Len(ops) >= 2 /\ nextPart <= ChunkCount /\ nextPart \in Nat \ {0}
      /\ cut \in Nat /\ cut >= 2
  BY DEF FuzzInv, FuzzTypeOK, TryComplement
<1>2. PICK candidate : candidate = Complement(nextPart)
  OBVIOUS
<1>3. CASE candidate # <<>> /\ Failing(candidate, TRUE) /\ Round(candidate, Most(cut - 1, 2))
  <2>1. candidate \in Seq(Nat)
    <3>1. nextPart \in 1..ChunkCount
      BY <1>1, ChunkStarts
    <3>2. QED
      BY <1>1, <1>2, <3>1, PartsAreStreams
  <2>2. candidate \in fails'
    BY <1>3, Tried
  <2>3. Most(cut - 1, 2) \in Nat /\ Most(cut - 1, 2) >= 2
    BY <1>1 DEF Most
  <2>4. QED
    BY <1>3, <2>1, <2>2, <2>3, RoundHolds
<1>4. CASE /\ Failing(candidate, FALSE)
           /\ IF nextPart < ChunkCount THEN nextPart' = nextPart + 1 /\ UNCHANGED <<ops, cut, pass>> ELSE Finer
  <2>1. fails \subseteq fails' /\ agrees \subseteq agrees' /\ candidate \in agrees'
    BY <1>4, Tried
  <2>2. QED
    BY <1>1, <1>2, <1>4, <2>1, NoComplement
<1>5. CASE /\ candidate = <<>> /\ UNCHANGED <<fails, agrees>>
           /\ IF nextPart < ChunkCount THEN nextPart' = nextPart + 1 /\ UNCHANGED <<ops, cut, pass>> ELSE Finer
  BY <1>1, <1>2, <1>5, NoComplement
<1>6. QED
  BY <1>2, <1>3, <1>4, <1>5 DEF TryComplement

\* Single operations are tried again, and none is dropped.
LEMMA TryOneHolds ==
  ASSUME FuzzInv, TryOne
  PROVE  FuzzInv'
<1>1. FuzzTypeOK /\ ops \in fails /\ SinglesTried /\ pass = "one" /\ nextPart <= Len(ops) /\ nextPart \in Nat \ {0} /\ ops \in Seq(Nat)
  BY DEF FuzzInv, FuzzTypeOK, TryOne
<1>2. Without(nextPart) \in agrees \cup {<<>>}
  <2>1. nextPart \in 1..Len(ops)
    BY <1>1
  <2>2. QED
    BY <1>1, <2>1 DEF SinglesTried
<1>3. ~DropOne(Without(nextPart))
  <2>1. SUFFICES ASSUME DropOne(Without(nextPart)) PROVE FALSE
    OBVIOUS
  <2>2. Without(nextPart) # <<>> /\ Without(nextPart) \notin agrees
    BY <2>1, Tried DEF DropOne
  <2>3. QED
    BY <1>2, <2>2
<1>4. /\ nextPart' = nextPart + 1 /\ ops' = ops /\ cut' = cut /\ pass' = pass
      /\ fails \subseteq fails' /\ agrees \subseteq agrees'
  <2>1. CASE Failing(Without(nextPart), FALSE) /\ nextPart' = nextPart + 1 /\ UNCHANGED ops
    <3>1. fails \subseteq fails' /\ agrees \subseteq agrees'
      BY <2>1, Tried
    <3>2. QED
      BY <2>1, <3>1 DEF TryOne
  <2>2. CASE nextPart' = nextPart + 1 /\ UNCHANGED <<ops, fails, agrees>>
    BY <2>2 DEF TryOne
  <2>3. QED
    BY <1>3, <2>1, <2>2 DEF TryOne
<1>5. FuzzTypeOK'
  BY <1>1, <1>4 DEF FuzzTypeOK
<1>6. SinglesTried' /\ ComplementsTried'
  BY <1>1, <1>4 DEF SinglesTried, ComplementsTried, Without
<1>7. QED
  BY <1>1, <1>4, <1>5, <1>6 DEF FuzzInv

\* The invariant of ddmin.
THEOREM FuzzInvariant == FuzzSpec => []FuzzInv
<1>1. FuzzInv /\ [FuzzNext]_fuzzVars => FuzzInv'
  <2> SUFFICES ASSUME FuzzInv, [FuzzNext]_fuzzVars
               PROVE  FuzzInv'
    OBVIOUS
  <2>1. CASE TrySubset
    BY <2>1, TrySubsetHolds
  <2>2. CASE TryComplement
    BY <2>2, TryComplementHolds
  <2>3. CASE TryOne
    BY <2>3, TryOneHolds
  <2>4. CASE Return
    BY <2>4 DEF Return, FuzzInv, FuzzTypeOK, ComplementsTried, SinglesTried, Without
  <2>5. CASE UNCHANGED fuzzVars
    BY <2>5 DEF fuzzVars, FuzzInv, FuzzTypeOK, ComplementsTried, SinglesTried, Without, Complement, ChunkCount, Size, Least
  <2>6. QED
    BY <2>1, <2>2, <2>3, <2>4, <2>5 DEF FuzzNext
<1>2. QED
  BY <1>1, FuzzStarts, PTL DEF FuzzSpec

\* For a stream of any length, and whichever of its parts fail: what ddmin returns fails, and
\* leaving out any one of its operations was tried and does not.
THEOREM ReturnsOneMinimal == FuzzSpec => []OneMinimal
<1>1. FuzzInv => OneMinimal
  BY DEF FuzzInv, SinglesTried, OneMinimal
<1>2. QED
  BY <1>1, FuzzInvariant, PTL
=============================================================================
