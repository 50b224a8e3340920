---------------------------- MODULE EntropyPool -----------------------------
(***************************************************************************)
(* The entropy pool of core/entropy.cpp: what finalise() draws from the    *)
(* kernel and from the CPU, what of it is credited, and when it refuses.   *)
(*                                                                         *)
(* The hash chain is the set of the samples folded into it: HMAC is taken  *)
(* to lose none of them.  A sample keeps where it came from and what tells *)
(* a good source from a broken one.  Timing jitter, the clock and the      *)
(* process identity are always there and are never a reason; they are left *)
(* out.  The kernel is the environment: it may be seeded at any time,      *)
(* between any two of the reads, or never.                                 *)
(***************************************************************************)
EXTENDS Naturals, Sequences, FiniteSets, SequencesExt

CONSTANTS CpuWords,    \* kCpuWords
          Zero, Ones,  \* the constants that broken generators hand back
          Random,      \* the other words the CPU may give
          MaxSamples   \* bound: the events the operator contributes

ASSUME WordAssumption == Zero # Ones /\ Zero \notin Random /\ Ones \notin Random
ASSUME CountAssumption == CpuWords \in Nat /\ MaxSamples \in Nat

VARIABLES
    \* @external: the kernel pool and the CPU
    seeded,       \* the CRNG is initialised
    pushed,       \* an unseeded read made the kernel gather entropy by itself
    device,       \* /dev/urandom can be opened
    cpu,          \* the instructions CPUID advertises
    \* the pool
    userSamples,
    mixed,        \* the samples folded in by the finalise() that runs, or ran
    \* finalise()
    step,
    report,
    answer        \* what the last finalise() came to

poolVars == <<seeded, pushed, device, cpu, userSamples, mixed, step, report, answer>>
world == <<seeded, pushed, device, cpu>>

Words == Random \cup {Zero, Ones}
Instructions == {"rdseed", "rdrand"}

NoReport == [kernelOk |-> FALSE, kernelWasReady |-> FALSE,
             rdseedWords |-> 0, rdrandWords |-> 0, cpuRejected |-> 0]

KernelSample(ready) == [source |-> "kernel", ready |-> ready]
CpuSample(instruction, words) == [source |-> instruction, words |-> words]

(* The words of this finalise() that an instruction gave.                   *)
Drawn(instruction) ==
    LET samples == {s \in mixed : s.source = instruction}
    IN  IF samples = {} THEN <<>> ELSE (CHOOSE s \in samples : TRUE).words

PoolInit ==
    /\ seeded \in BOOLEAN /\ pushed = FALSE /\ device \in BOOLEAN
    /\ cpu \in SUBSET Instructions
    /\ userSamples = 0 /\ mixed = {}
    /\ step = "idle" /\ report = NoReport /\ answer = "none"

-----------------------------------------------------------------------------
(***************************************************************************)
(* Judging                                                                 *)
(***************************************************************************)

(* cpuWordsLookSane()                                                       *)
LookSane(words) ==
    /\ Len(words) >= 2
    /\ \A i \in 1..Len(words) : words[i] \notin {Zero, Ones}
    /\ \A i, j \in 1..Len(words) : i # j => words[i] # words[j]

(* entropyPolicySatisfied()                                                 *)
PolicySatisfied(rep) == (rep.kernelOk /\ rep.kernelWasReady) \/ rep.rdseedWords > 0

-----------------------------------------------------------------------------
(***************************************************************************)
(* The pool                                                                *)
(***************************************************************************)

(* mixUserEvent()                                                           *)
MixUserEvent ==
    /\ step = "idle" /\ userSamples < MaxSamples
    /\ userSamples' = userSamples + 1
    /\ UNCHANGED <<world, mixed, step, report, answer>>

(* reset()                                                                  *)
Reset ==
    /\ step = "idle"
    /\ userSamples' = 0 /\ mixed' = {} /\ answer' = "none" /\ report' = NoReport
    /\ UNCHANGED <<world, step>>

(* finalise() is called.                                                    *)
Finalise ==
    /\ step = "idle"
    /\ step' = "getrandom" /\ report' = NoReport /\ mixed' = {} /\ answer' = "none"
    /\ UNCHANGED <<world, userSamples>>

(* getrandom(2) with GRND_NONBLOCK: a full block, or not seeded yet.        *)
ReadKernel ==
    /\ step = "getrandom"
    /\ IF seeded
       THEN /\ step' = "rdseed"
            /\ report' = [report EXCEPT !.kernelOk = TRUE, !.kernelWasReady = TRUE]
            /\ mixed' = mixed \cup {KernelSample(TRUE)}
       ELSE /\ step' = "urandom"
            /\ UNCHANGED <<report, mixed>>
    /\ UNCHANGED <<world, userSamples, answer>>

(* A mutant of ReadDevice: what cannot be credited is not worth reading.    *)
ReadDeviceNever ==
    /\ step = "urandom"
    /\ step' = "rdseed"
    /\ UNCHANGED <<world, report, mixed, userSamples, answer>>

(* /dev/urandom: the same generator, and no word of whether it is seeded.   *)
(* Reading it unseeded sets the kernel to gather timing jitter.             *)
ReadDevice ==
    /\ step = "urandom"
    /\ step' = "rdseed"
    /\ IF device
       THEN /\ report' = [report EXCEPT !.kernelOk = TRUE]
            /\ mixed' = mixed \cup {KernelSample(seeded)}
            /\ pushed' = (pushed \/ ~seeded)
       ELSE UNCHANGED <<report, mixed, pushed>>
    /\ UNCHANGED <<seeded, device, cpu, userSamples, answer>>

(* drawCpuWords(): up to want words; a read that does not succeed in ten    *)
(* attempts is left out, so any number of them may be there.                *)
Draws(instruction, want) ==
    IF instruction \in cpu /\ want > 0 THEN BoundedSeq(Words, want) ELSE {<<>>}

(* RDSEED for as many words as it will give, all of them mixed in.          *)
DrawRdseed ==
    /\ step = "rdseed"
    /\ step' = "rdrand"
    /\ \E words \in Draws("rdseed", CpuWords) :
          mixed' = mixed \cup {CpuSample("rdseed", words)}
    /\ UNCHANGED <<world, report, userSamples, answer>>

(* The words that RDSEED left to RDRAND.                                    *)
Wanted == CpuWords - Len(Drawn("rdseed"))

(* A mutant of Judged: the two runs are judged as one.                      *)
JudgedTogether(seeds, rands) ==
    IF LookSane(seeds \o rands)
    THEN [rdseedWords |-> Len(seeds), rdrandWords |-> Len(rands), cpuRejected |-> 0]
    ELSE [rdseedWords |-> 0, rdrandWords |-> 0,
          cpuRejected |-> Len(seeds) + Len(rands)]

(* Each instruction stands or falls on its own run.                         *)
Judged(seeds, rands) ==
    LET Counted(words) == IF LookSane(words) THEN Len(words) ELSE 0
    IN  [rdseedWords |-> Counted(seeds), rdrandWords |-> Counted(rands),
         cpuRejected |-> Len(seeds) - Counted(seeds) + Len(rands) - Counted(rands)]

(* RDRAND for the rest, and both are counted.                               *)
DrawRdrand ==
    /\ step = "rdrand"
    /\ step' = "policy"
    /\ \E words \in Draws("rdrand", Wanted) :
          /\ mixed' = mixed \cup {CpuSample("rdrand", words)}
          /\ LET counts == Judged(Drawn("rdseed"), words)
             IN  report' = [report EXCEPT !.rdseedWords = counts.rdseedWords,
                                          !.rdrandWords = counts.rdrandWords,
                                          !.cpuRejected = counts.cpuRejected]
    /\ UNCHANGED <<world, userSamples, answer>>

(* The refusal, or the output, which is folded back into the pool.          *)
Decide ==
    /\ step = "policy"
    /\ step' = "idle"
    /\ answer' = IF PolicySatisfied(report) THEN "written" ELSE "refused"
    /\ UNCHANGED <<world, report, mixed, userSamples>>

(* The kernel gathers enough, by itself or because it was pushed.           *)
KernelSeeds ==
    /\ ~seeded
    /\ seeded' = TRUE
    /\ UNCHANGED <<pushed, device, cpu, userSamples, mixed, step, report, answer>>

Work == ReadKernel \/ ReadDevice \/ DrawRdseed \/ DrawRdrand \/ Decide

PoolNext == MixUserEvent \/ Reset \/ Finalise \/ Work \/ KernelSeeds

(* finalise() runs to its end; a kernel that was pushed gets there.         *)
PoolFairness == WF_poolVars(Work) /\ WF_poolVars(pushed /\ KernelSeeds)

PoolSpec == PoolInit /\ [][PoolNext]_poolVars /\ PoolFairness

-----------------------------------------------------------------------------
(***************************************************************************)
(* Properties                                                              *)
(***************************************************************************)

(* "At least one source we can stand behind": what was folded in before the *)
(* output holds a block of an initialised CRNG, or two words of RDSEED that *)
(* differ and are no known constant.  RDRAND, jitter and the operator's own *)
(* samples are never the reason.                                            *)
OutputIsCredited ==
    answer = "written" =>
        \/ \E s \in mixed : s.source = "kernel" /\ s.ready
        \/ /\ Cardinality(ToSet(Drawn("rdseed"))) = Len(Drawn("rdseed"))
           /\ Len(Drawn("rdseed")) > 1
           /\ ToSet(Drawn("rdseed")) \subseteq Random

(* "A stuck RDRAND must not be able to discredit an RDSEED that was         *)
(* working": a run of different random words is never refused.              *)
WorkingRdseedIsEnough ==
    answer = "refused" =>
        \/ Len(Drawn("rdseed")) < 2
        \/ ToSet(Drawn("rdseed")) \cap {Zero, Ones} # {}
        \/ ~IsInjective(Drawn("rdseed"))

(* Whatever the sources answered, finalise() neither makes a seed of what   *)
(* cannot be vouched for nor refuses one that can.                          *)
AnswerIsJustified == OutputIsCredited /\ WorkingRdseedIsEnough

(* "A syscall that never returns is not a delay, it is a brick": finalise() *)
(* comes to an answer even if the kernel pool is never seeded.              *)
FinaliseReturns == step # "idle" ~> step = "idle"

(* "That is what makes the refusal's 'try again' honest advice": on a       *)
(* machine whose pool can be read, an operator who keeps trying gets a seed. *)
TryingAgainHelps ==
    device /\ []<><<Decide>>_poolVars => <>(answer = "written")

(* An answer always comes, and trying again makes it a seed in the end.     *)
AnswerComes == FinaliseReturns /\ TryingAgainHelps
=============================================================================
