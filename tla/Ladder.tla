------------------------------- MODULE Ladder -------------------------------
(***************************************************************************)
(* The verified benchmark of the feature kernels: Ladder, triton_rung and  *)
(* run of src/bench/bench_ladder.py.                                       *)
(*                                                                         *)
(* All kernels write to the same device buffers, and a rung with launch    *)
(* configurations may be right at one of them and not at another.  What a  *)
(* kernel does to a buffer is to write the right values, to write wrong    *)
(* ones, or to leave it as it is.  Which configuration is fastest is for   *)
(* the card to say.  The end-to-end runs, the bandwidths and how the       *)
(* numbers are put together are left out.                                  *)
(***************************************************************************)
EXTENDS Python, Naturals, SequencesExt, FiniteSetsExt

CONSTANTS
  Rung,     \* the CUDA rungs of one configuration each, as a sequence
  Config,   \* configurations of v4's sweep
  Triton,   \* configurations of the Triton rung
  Output    \* outputs of a kernel

ASSUME LadderAssumption ==
  /\ Rung \in Seq(Range(Rung))
  /\ Config # {} /\ None \notin Triton

Effect == [Output -> {"right", "wrong", "kept"}]
Kernel == Range(Rung) \cup Config \cup Triton

VARIABLES
  effect,    \* [Kernel -> what it does]: kernels at their configurations
  available, \* whether Triton is there
  phase,     \* what run does next
  unverified, \* how far verification is: a place among the rungs, then a set
  buffers,   \* [Output -> "poison", "right" or "wrong"]: the device buffers
  verified,  \* kernels that passed
  v4,        \* configuration of v4
  triton,    \* configuration of the Triton rung, or None
  saved      \* what is saved: [name -> verified], or None

ladderVars == <<effect, available, phase, unverified, buffers, verified, v4, triton, saved>>

-----------------------------------------------------------------------------

Poisoned == [o \in Output |-> "poison"]

\* A kernel is launched over what is in the buffers.
Launched(k, over) == [o \in Output |-> IF effect[k][o] = "kept" THEN over[o] ELSE effect[k][o]]

\* ref.compare over every output.
Compare(over) == \A o \in Output : over[o] = "right"

\* Mutant: the buffers are not poisoned.
VerifyOver(k) ==
  /\ buffers' = Launched(k, buffers)
  /\ verified' = IF Compare(buffers') THEN verified \cup {k} ELSE verified \ {k}

\* poison, launch, outputs_host, compare.
Verify(k) ==
  /\ buffers' = Launched(k, Poisoned)
  /\ verified' = IF Compare(buffers') THEN verified \cup {k} ELSE verified \ {k}

\* 1. Every rung, v4 at the configuration it begins with.
VerifyRung ==
  /\ phase = "rungs"
  /\ LET names == Append(Rung, v4)
         k     == names[unverified]
     IN  /\ Verify(k)
         /\ IF unverified < Len(names) THEN unverified' = unverified + 1 /\ UNCHANGED phase
            ELSE phase' = "sweep" /\ unverified' = {}
  /\ UNCHANGED <<effect, available, v4, triton, saved>>

\* A block runs its kernels in turns; any of them may be the one that ran last, and
\* any the fastest.
Ran(kernels) == \E last \in kernels : buffers' = Launched(last, buffers)

\* 2. v4's sweep, over configurations that were not verified; the best one is kept.
Sweep ==
  /\ phase = "sweep"
  /\ Ran(Config)
  /\ v4' \in Config
  /\ phase' = "best"
  /\ UNCHANGED <<effect, available, unverified, verified, triton, saved>>

VerifyBest ==
  /\ phase = "best"
  /\ Verify(v4)
  /\ phase' = "triton"
  /\ UNCHANGED <<effect, available, unverified, v4, triton, saved>>

\* 2b. triton_rung: v2's outputs are taken for the comparison bit by bit.
BeginTriton ==
  /\ phase = "triton"
  /\ IF available THEN buffers' = Launched(Rung[Len(Rung)], Poisoned) /\ phase' = "triton configs" /\ unverified' = Triton
     ELSE phase' = "time" /\ UNCHANGED <<buffers, unverified>>
  /\ UNCHANGED <<effect, available, verified, v4, triton, saved>>

VerifyTriton ==
  /\ phase = "triton configs" /\ unverified # {}
  /\ \E k \in unverified : Verify(k) /\ unverified' = unverified \ {k}
  /\ UNCHANGED <<effect, available, phase, v4, triton, saved>>

\* The configurations that are timed.
Good == Triton \cap verified

SweepTriton ==
  /\ phase = "triton configs" /\ unverified = {}
  /\ IF Good = {} THEN UNCHANGED <<buffers, triton>>
     ELSE Ran(Good) /\ \E k \in Good : triton' = k
  /\ phase' = "time"
  /\ UNCHANGED <<effect, available, unverified, verified, v4, saved>>

\* Anything that triton_rung raises costs the Triton rung and no other.
TritonFails ==
  /\ phase = "triton configs"
  /\ triton' = None /\ phase' = "time" /\ unverified' = {}
  /\ UNCHANGED <<effect, available, buffers, verified, v4, saved>>

\* 4. The rungs are timed, v4 and Triton at their configurations, and the section is saved.
Timed == Range(Rung) \cup {v4} \cup (IF triton = None THEN {} ELSE {triton})

TimeAndSave ==
  /\ phase = "time"
  /\ Ran(Timed)
  /\ saved' = [k \in Timed |-> k \in verified]
  /\ phase' = "saved"
  /\ UNCHANGED <<effect, available, unverified, verified, v4, triton>>

LadderInit ==
  /\ effect \in [Kernel -> Effect] /\ available \in BOOLEAN
  /\ phase = "rungs" /\ unverified = 1 /\ buffers = Poisoned /\ verified = {}
  /\ v4 = CHOOSE c \in Config : TRUE
  /\ triton = None /\ saved = None

LadderNext == VerifyRung \/ Sweep \/ VerifyBest \/ BeginTriton \/ VerifyTriton \/ SweepTriton
        \/ TritonFails \/ TimeAndSave

LadderSpec == LadderInit /\ [][LadderNext]_ladderVars

-----------------------------------------------------------------------------
(* Properties.                                                             *)

\* A time that is saved as that of a verified kernel is the time of a kernel that
\* writes every output, and writes it right, at the configuration that was timed:
\* not of one that left in a buffer what another had written, nor of a configuration
\* that was never looked at.  A Triton rung is saved only if it is verified.
VerifiedIsRight ==
  saved # None =>
    /\ \A k \in DOMAIN saved : saved[k] <=> \A o \in Output : effect[k][o] = "right"
    /\ triton # None => saved[triton]
=============================================================================
