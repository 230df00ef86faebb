----------------------------- MODULE Documents -----------------------------
(***************************************************************************)
(* The rendered documents and their number check: Run, load_runs,          *)
(* Renderer and main of src/scripts/render_docs.py, and                    *)
(* src/scripts/check_numbers.py.                                           *)
(*                                                                         *)
(* render_docs reads every run of results/, takes each section from the    *)
(* latest full run on a T4 with real data, writes the documents one by one *)
(* and the provenance of their numbers at the end: of those it reads from  *)
(* a section, of those it counts over sections and runs, and of those of   *)
(* headings.  check_numbers reads the documents and the provenance, which  *)
(* may be of before it named documents.  Between the two anybody may edit  *)
(* a document.  A document is the set of the numbers of its headings and   *)
(* that of the others; the wording is left out, and so are the justified   *)
(* constants.                                                              *)
(***************************************************************************)
EXTENDS Python, Naturals, Sequences, FiniteSetsExt

CONSTANTS
  Topic,      \* sections of a run, and what its metrics say beside them
  Facts,      \* of these the latter (archive, gpu, manifest): read from the latest run only
  Number,     \* numbers, as they are printed
  Document,
  SectionsOf, \* [Document -> the topics its numbers come from]
  HeadingsOf, \* [Document -> [topics there are -> numbers of its headings]]
  CountsOf(_, _), \* of a document and full runs: numbers it counts or works out over them
  MaxResults, \* bound: runs in results/
  MaxEdits    \* bound: numbers typed into documents, and renders that were killed

ASSUME DocumentsAssumption == Facts \subseteq Topic /\ SectionsOf \in [Document -> SUBSET Topic] /\ None \notin Document

Kind == {"full", "quick", "synthetic", "other card"}

VARIABLES
  runs,    \* [1..n -> run]: in the order they started
  docs,    \* [Document -> its numbers]
  prov,    \* provenance.json: the tokens, or None
  pending, \* what render_docs still has to write, or None
  edits

documentsVars == <<runs, docs, prov, pending, edits>>

\* A run is pulled into results/.
AddRun ==
  /\ Len(runs) < MaxResults
  /\ \E kind \in Kind, sections \in [Topic -> Number \cup {None}] :
       runs' = Append(runs, [kind |-> kind, sections |-> sections])
  /\ UNCHANGED <<docs, prov, pending, edits>>

-----------------------------------------------------------------------------
(* render_docs.                                                            *)

EveryKind(run) == TRUE

\* The runs Renderer takes numbers from.
Usable(run) == run.kind = "full"
Gpu == {i \in DOMAIN runs : Usable(runs[i])}

\* The runs a topic may come from; Renderer.sections takes the latest of them.
Having(s) == {i \in Gpu : runs[i].sections[s] # None /\ (s \in Facts => i = Max(Gpu))}
Rendered == {s \in Topic : Having(s) # {}}

\* What is recorded for the numbers d reads from a section.
FormattedTokens(d) ==
  {[token |-> runs[Max(Having(s))].sections[s], run |-> Max(Having(s)), doc |-> d] : s \in SectionsOf[d] \cap Rendered}

\* Timed blocks, disagreeing sessions and the like are counted over what is rendered and
\* recorded for a full run, here the latest.
CountTokens(d) == {[token |-> n, run |-> Max(Gpu), doc |-> d] : n \in CountsOf(d, [i \in Gpu |-> runs[i]])}

\* The numbers of questions, and those in the titles of bullets, are recorded as numbers
\* of the latest run.
HeadingTokens(d) == {[token |-> n, run |-> Max(Gpu), doc |-> d] : n \in HeadingsOf[d][Rendered]}

TextTokens(d) == FormattedTokens(d) \cup CountTokens(d)

TokensOf(d) == TextTokens(d) \cup HeadingTokens(d)

Page(d) == [text |-> {x.token : x \in TextTokens(d)}, headings |-> HeadingsOf[d][Rendered]]

\* With no usable run it refuses and writes nothing.
Render ==
  /\ pending = None /\ Gpu # {}
  /\ pending' = [write |-> Document, docs |-> [d \in Document |-> Page(d)],
                 prov |-> UNION {TokensOf(d) : d \in Document}]
  /\ UNCHANGED <<runs, docs, prov, edits>>

WriteDocument ==
  /\ pending # None
  /\ \E d \in pending.write :
       /\ docs' = [docs EXCEPT ![d] = pending.docs[d]]
       /\ pending' = [pending EXCEPT !.write = @ \ {d}]
  /\ UNCHANGED <<runs, prov, edits>>

WriteProvenance ==
  /\ pending # None /\ pending.write = {}
  /\ prov' = pending.prov
  /\ pending' = None
  /\ UNCHANGED <<runs, docs, edits>>

KillRender ==
  /\ pending # None /\ edits < MaxEdits
  /\ pending' = None
  /\ edits' = edits + 1
  /\ UNCHANGED <<runs, docs, prov>>

Edit ==
  /\ edits < MaxEdits
  /\ \E d \in Document, n \in Number : docs' = [docs EXCEPT ![d].text = @ \cup {n}]
  /\ edits' = edits + 1
  /\ UNCHANGED <<runs, prov, pending>>

-----------------------------------------------------------------------------
(* check_numbers.                                                          *)

\* run_ok: a quick run is a real T4 run too.
RunOk(i) == runs[i].kind \in {"full", "quick"}

AnyDocument(d, n) == {x \in prov : x.token = n}

\* The entries of a token that were rendered into the same document.  Entries written
\* before documents were tagged name none and match any document.
Sources(d, n) == {x \in prov : x.token = n /\ x.doc \in {None, d}}

NumbersIn(d) == docs[d].text \cup docs[d].headings

CheckPasses ==
  prov # None /\ \A d \in Document : \A n \in NumbersIn(d) : \E x \in Sources(d, n) : RunOk(x.run)

\* A repository with one run whose documents were rendered before tokens named their
\* document.
RenderedUntagged ==
  /\ \E sections \in [Topic -> Number \cup {None}] : runs = <<[kind |-> "full", sections |-> sections]>>
  /\ docs = [d \in Document |-> Page(d)]
  /\ prov = {[x EXCEPT !.doc = None] : x \in UNION {TokensOf(d) : d \in Document}}

NothingRendered == runs = <<>> /\ docs = [d \in Document |-> [text |-> {}, headings |-> {}]] /\ prov = None

DocumentsInit == (NothingRendered \/ RenderedUntagged) /\ pending = None /\ edits = 0

DocumentsNext == AddRun \/ Render \/ WriteDocument \/ WriteProvenance \/ KillRender \/ Edit

DocumentsSpec == DocumentsInit /\ [][DocumentsNext]_documentsVars

-----------------------------------------------------------------------------
(* Properties.                                                             *)

FullRuns == {i \in DOMAIN runs : runs[i].kind = "full"}

\* A full run measured n, in a section that d is about, or d counts n over full runs.
MeasuredFor(d, n) ==
  \/ \E i \in FullRuns, s \in SectionsOf[d] : runs[i].sections[s] = n
  \/ \E several \in SUBSET FullRuns : n \in CountsOf(d, [i \in several |-> runs[i]])

\* n numbers a heading of d, rendered from some of what full runs measured.
NumbersHeading(d, n) ==
  \E topics \in SUBSET {s \in Topic : \E i \in FullRuns : runs[i].sections[s] # None} : n \in HeadingsOf[d][topics]

IsTraced(d, n) == MeasuredFor(d, n) \/ NumbersHeading(d, n)

\* When the check passes, every number in every document was measured by a full run on
\* a T4 with real data, in a section that document is about, or counted over such runs,
\* or numbers a heading of that document: after edits, after renders that stopped
\* half-way, and with runs of other kinds beside it in results/.  Where the provenance
\* of the number is of before tokens named their document, that is so of some document.
NumbersTraced ==
  CheckPasses =>
    \A d \in Document : \A n \in NumbersIn(d) :
      \/ IsTraced(d, n)
      \/ (\E x \in prov : x.token = n /\ x.doc = None) /\ \E other \in Document : IsTraced(other, n)
=============================================================================
