---------------------------- MODULE SessionProofs ----------------------------
(***************************************************************************)
(* The safety properties of what stands around the kiosk: of the session   *)
(* and the way down, for every number of failures the supervisor may put   *)
(* up with; of the watcher; and of the pool that a seed is drawn from.     *)
(***************************************************************************)
EXTENDS Session, DataWatch, EntropyPool, FiniteSetTheorems, TLAPS

USE DEF Running, Supervising, SlowScrub, Stages, Platforms

(* The supervisor's two counts go together, and it runs on only while they  *)
(* are below the limit.                                                     *)
Counting ==
    /\ rapid = failures
    /\ session \in {"top", "wait", "pause"} => failures < MaxRapidFailures
    /\ session = "gaveup" => platform = "linuxfb" /\ failures = MaxRapidFailures

(* A kiosk that is not old holds no key.                                    *)
YoungHoldsNothing == kiosk # "old" => ~key

(* Before the supervisor is stopped, it has only ended itself, with no      *)
(* kiosk; afterwards it is gone, and a kiosk with a terminal is dying.      *)
Stopping ==
    /\ init \in {"up", "s99"} /\ session = "dead" => kiosk = "none"
    /\ init \notin {"up", "s99"} =>
          /\ session \in {"gaveup", "dead"}
          /\ panel /\ kiosk # "none" => fate = "fatal"

(* The watcher is stopped once and for all.                                 *)
WatcherIsGone ==
    /\ init \in {"umount", "second", "scrub", "umountall", "killall", "off"} => ~watcher
    /\ init \in {"umountall", "killall", "off"} => ~mounting

IInv ==
    /\ TypeOK /\ Counting /\ YoungHoldsNothing /\ Stopping /\ WatcherIsGone
    /\ KioskIsGone /\ OffIsClean

-----------------------------------------------------------------------------
LEMMA InitIsInductive == Init => IInv
<1> SUFFICES ASSUME Init PROVE IInv
  OBVIOUS
<1>1. /\ ~key /\ ~file /\ ~mounting
      /\ key \in BOOLEAN /\ file \in BOOLEAN /\ mounting \in BOOLEAN /\ watcher \in BOOLEAN
  BY Zenon DEF Init
<1>2. exit \in [status : {"poweroff", "failure"}, rapid : BOOLEAN]
  BY Zenon DEF Init
<1>3. failures \in 0 .. MaxRapidFailures /\ rapid \in 0 .. MaxRapidFailures
  BY FailuresAssumption DEF Init
<1>4. TypeOK
  BY <1>1, <1>2, <1>3 DEF Init, TypeOK
<1> QED
  BY <1>1, <1>4, FailuresAssumption
  DEF Init, IInv, Counting, YoungHoldsNothing, Stopping, WatcherIsGone,
      KioskIsGone, OffIsClean

(* The kiosk's own steps.                                                   *)
LEMMA KioskKeeps ==
    ASSUME IInv, Kiosk
    PROVE  IInv'
<1> USE DEF IInv, TypeOK, Counting, YoungHoldsNothing, Stopping, WatcherIsGone,
            KioskIsGone, OffIsClean, machine, loop, volume
<1>1. CASE Exec
  BY <1>1 DEF Exec
<1>2. CASE Age
  BY <1>2 DEF Age
<1>3. CASE EnterKey
  BY <1>3 DEF EnterKey
<1>4. CASE ClearKey
  <2>1. ~key' /\ key' \in BOOLEAN
    BY <1>4, Zenon DEF ClearKey
  <2> QED
    BY <1>4, <2>1 DEF ClearKey
<1>5. CASE OpenFile
  BY <1>5 DEF OpenFile
<1>6. CASE CloseFile
  <2>1. ~file' /\ file' \in BOOLEAN
    BY <1>6, Zenon DEF CloseFile
  <2> QED
    BY <1>6, <2>1 DEF CloseFile
<1>7. ASSUME NEW status \in {"poweroff", "failure"}, KioskExit(status) PROVE IInv'
  <2>1. ~key' /\ ~file' /\ key' \in BOOLEAN /\ file' \in BOOLEAN
    BY <1>7, Zenon DEF KioskExit, Ends
  <2> QED
    BY <1>7, <2>1 DEF KioskExit, Ends
<1>8. CASE Die
  <2>1. ~key' /\ ~file' /\ key' \in BOOLEAN /\ file' \in BOOLEAN
    BY <1>8, Zenon DEF Die, Ends
  <2> QED
    BY <1>8, <2>1 DEF Die, Ends
<1> QED
  BY <1>1, <1>2, <1>3, <1>4, <1>5, <1>6, <1>7, <1>8 DEF Kiosk, Crash

(* The supervisor's.                                                        *)
LEMMA SuperviseKeeps ==
    ASSUME IInv, Supervise
    PROVE  IInv'
<1> USE DEF IInv, TypeOK, Counting, YoungHoldsNothing, Stopping, WatcherIsGone,
            KioskIsGone, OffIsClean, machine, process, volume
<1>1. CASE Start
  BY <1>1 DEF Start
<1>2. CASE ObeyPoweroff
  BY <1>2 DEF ObeyPoweroff, Reaped
<1>3. CASE FallBack
  BY <1>3, FailuresAssumption DEF FallBack, Reaped
<1>4. CASE Count
  BY <1>4, FailuresAssumption DEF Count, Reaped
<1>5. CASE Pause
  BY <1>5 DEF Pause
<1>6. CASE RequestPoweroff
  BY <1>6 DEF RequestPoweroff
<1> QED
  BY <1>1, <1>2, <1>3, <1>4, <1>5, <1>6 DEF Supervise

(* The steps of init on its way down.                                       *)
LEMMA GoDownKeeps ==
    ASSUME IInv, GoDown
    PROVE  IInv'
<1> USE DEF IInv, TypeOK, Counting, YoungHoldsNothing, Stopping, WatcherIsGone,
            KioskIsGone, OffIsClean, machine, loop, process, volume
<1>1. CASE TermSession
  BY <1>1 DEF TermSession
<1>2. CASE TermKiosk
  BY <1>2 DEF TermKiosk
<1>3. CASE WaitForKiosk
  BY <1>3 DEF WaitForKiosk
<1>4. CASE StopWatcher
  <2>1. ~watcher' /\ watcher' \in BOOLEAN
    BY <1>4, Zenon DEF StopWatcher
  <2> QED
    BY <1>4, <2>1 DEF StopWatcher
<1>5. CASE Umount
  BY <1>5 DEF Umount
<1>6. CASE LazyUmount
  BY <1>6 DEF LazyUmount
<1>7. CASE Scrub
  BY <1>7 DEF Scrub
<1>8. CASE UmountAll
  BY <1>8 DEF UmountAll
<1>9. CASE KillAll
  BY <1>9 DEF KillAll
<1> QED
  BY <1>1, <1>2, <1>3, <1>4, <1>5, <1>6, <1>7, <1>8, <1>9 DEF GoDown

LEMMA NextKeeps == IInv /\ [Next]_vars => IInv'
<1> SUFFICES ASSUME IInv, [Next]_vars PROVE IInv'
  OBVIOUS
<1>1. CASE Kiosk
  BY <1>1, KioskKeeps
<1>2. CASE Supervise
  BY <1>2, SuperviseKeeps
<1>3. CASE GoDown
  BY <1>3, GoDownKeeps
<1> USE DEF IInv, TypeOK, Counting, YoungHoldsNothing, Stopping, WatcherIsGone,
            KioskIsGone, OffIsClean, machine, loop, process, volume
<1>4. CASE CtrlAltDel
  BY <1>4 DEF CtrlAltDel
<1>5. CASE WatcherMounts
  BY <1>5 DEF WatcherMounts
<1>6. CASE MountReturns
  <2>1. ~mounting' /\ mounting' \in BOOLEAN
    BY <1>6, Zenon DEF MountReturns
  <2> QED
    BY <1>6, <2>1 DEF MountReturns
<1>7. CASE UNCHANGED vars
  BY <1>7 DEF vars
<1> QED
  BY <1>1, <1>2, <1>3, <1>4, <1>5, <1>6, <1>7 DEF Next

LEMMA Invariance == Spec => []IInv
BY InitIsInductive, NextKeeps, PTL DEF Spec

-----------------------------------------------------------------------------
(* There is one kiosk at a time, and what was its own ends with it.         *)
THEOREM TypeCorrect == Spec => []TypeOK
<1>1. IInv => TypeOK
  BY DEF IInv
<1> QED
  BY <1>1, Invariance, PTL

(* The supervisor gives up with the plain framebuffer only, and only after  *)
(* as many rapid exits in a row as it is set to.                            *)
THEOREM GivingUp == Spec => []GivingUpIsLast
<1>1. IInv => GivingUpIsLast
  BY FailuresAssumption DEF IInv, Counting, GivingUpIsLast
<1> QED
  BY <1>1, Invariance, PTL

(* Before the volume is unmounted the kiosk is gone or about to be, and no  *)
(* key is left when the memory has been overwritten.                        *)
THEOREM KioskGone == Spec => []KioskIsGone
<1>1. IInv => KioskIsGone
  BY DEF IInv
<1> QED
  BY <1>1, Invariance, PTL

(* No volume is mounted for writing when the power goes.                    *)
THEOREM CleanPoweroff == Spec => []OffIsClean
<1>1. IInv => OffIsClean
  BY DEF IInv
<1> QED
  BY <1>1, Invariance, PTL

-----------------------------------------------------------------------------
(***************************************************************************)
(* The watcher by itself, while it runs, for any number of device nodes    *)
(* and any kinds of sticks.                                                *)
(***************************************************************************)

(* What the script has seen of a candidate is still true when it acts on    *)
(* it, or the stick is gone or was exchanged; the device it goes on with is *)
(* a candidate; and it has announced what it is about to mount.             *)
SeenIsTrue ==
    /\ pc = "configured" => dataDev # NoNode /\ cands = {}
    /\ pc = "scan" => dataDev = NoNode
    /\ pc \in {"scan", "type", "mount"} =>
          \A n \in cands \ exchanged : at[n] \in Ours \cup {NoStick}
    /\ pc \in {"type", "mount"} =>
          /\ found \in NodeSet
          /\ dataDev = NoNode => found \in cands
          /\ dataDev = NoNode /\ Cardinality(cands) > 1 => warn

WatchInv == WatchTypeOK /\ OnlyOurVolume /\ PickIsAnnounced /\ SeenIsTrue

-----------------------------------------------------------------------------
LEMMA WatchStarts == WatchInit => WatchInv
<1> SUFFICES ASSUME WatchInit PROVE WatchInv
  OBVIOUS
<1>1. /\ mounted \in BOOLEAN /\ warn \in BOOLEAN /\ stuck \in BOOLEAN /\ ~stuck
      /\ cands \subseteq NodeSet /\ exchanged \subseteq cands
  BY Zenon DEF WatchInit
<1>2. WatchTypeOK
  BY <1>1, NodeAssumption DEF WatchInit, WatchTypeOK, NoNode
<1>3. OnlyOurVolume /\ PickIsAnnounced /\ SeenIsTrue
  BY DEF WatchInit, OnlyOurVolume, PickIsAnnounced, SeenIsTrue
<1> QED
  BY <1>2, <1>3 DEF WatchInv

(* What the operator does to a node is no matter to the script, unless it   *)
(* is mounted, and then the stick can only go, or it is a candidate, and    *)
(* then another stick is one that was exchanged.                            *)
LEMMA OperatorKeeps ==
    ASSUME WatchInv, NEW n \in NodeSet, NEW s \in Sticks,
           Insert(s, n) \/ Pull(n)
    PROVE  WatchInv'
<1> USE DEF script
<1>1. /\ UNCHANGED <<dataDev, script, mounted, stuck>>
      /\ \/ at' = [at EXCEPT ![n] = s] /\ (Seen(n) => n \in exchanged')
         \/ at' = [at EXCEPT ![n] = NoStick]
      /\ exchanged \subseteq exchanged' /\ exchanged' \subseteq cands
      /\ ~Seen(n) => exchanged' = exchanged
  BY DEF Insert, Pull, Seen, history, WatchInv, WatchTypeOK
<1>2. WatchTypeOK'
  BY <1>1 DEF WatchInv, WatchTypeOK, NoMount
<1>3. OnlyOurVolume'
  BY <1>1 DEF WatchInv, WatchTypeOK, OnlyOurVolume
<1>4. PickIsAnnounced'
  BY <1>1 DEF WatchInv, PickIsAnnounced, NoMount
<1>5. SeenIsTrue'
  BY <1>1 DEF WatchInv, WatchTypeOK, SeenIsTrue, Seen, Ours, NodeSet
<1> QED
  BY <1>2, <1>3, <1>4, <1>5 DEF WatchInv

(* The steps of the script.                                                 *)
LEMMA ScriptKeeps ==
    ASSUME WatchInv, Script
    PROVE  WatchInv'
<1> USE DEF WatchInv, WatchTypeOK, OnlyOurVolume, PickIsAnnounced, SeenIsTrue, NodeSet,
            NoNode, Ours, history
<1>1. CASE Poll
  <2>1. 1 \in 1 .. Nodes + 1
    BY NodeAssumption
  <2>2. CASE mountPoint = NoMount
    <3>1. /\ cands' = {} /\ next' = 1 /\ exchanged' = {}
          /\ UNCHANGED <<dataDev, at, mountPoint, found, polls, warn, mounted, mode, stuck>>
      BY <1>1, <2>2 DEF Poll
    <3>2. pc' = IF dataDev = NoNode THEN "scan" ELSE "configured"
      BY <1>1, <2>2 DEF Poll
    <3>3. OnlyOurVolume' /\ PickIsAnnounced' /\ SeenIsTrue'
      BY <2>2, <3>1, <3>2 DEF NoMount
    <3>4. WatchTypeOK'
      BY <2>1, <2>2, <3>1, <3>2 DEF NoMount
    <3> QED
      BY <3>3, <3>4
  <2>3. CASE mountPoint # NoMount
    <3>1. /\ UNCHANGED <<dataDev, at, mountPoint, next, cands, found, polls, warn, mounted,
                         history>>
          /\ mode' = "daemon" /\ pc' \in {"poll", "check"}
      BY <1>1, <2>3 DEF Poll
    <3>2. OnlyOurVolume' /\ PickIsAnnounced' /\ SeenIsTrue'
      BY <1>1, <2>3, <3>1 DEF Poll, NoMount
    <3>3. WatchTypeOK'
      BY <2>3, <3>1 DEF NoMount
    <3> QED
      BY <3>2, <3>3
  <2> QED
    BY <2>2, <2>3
<1>2. CASE Check
  BY <1>2 DEF Check, NoMount
<1>3. CASE Configured
  BY <1>3, NodeAssumption DEF Configured
<1>4. CASE Scan
  <2>1. next \in NodeSet /\ next + 1 \in 1 .. Nodes + 1
    BY <1>4, NodeAssumption DEF Scan
  <2>2. /\ UNCHANGED <<dataDev, at, mountPoint, mode, pc, found, polls, warn, mounted, history>>
        /\ mountPoint = NoMount /\ pc = "scan" /\ next' = next + 1
        /\ cands \subseteq cands' /\ cands' \subseteq cands \cup {next}
        /\ next \in cands' => next \in cands \/ at[next] \in Ours
    BY <1>4 DEF Scan
  <2>3. WatchTypeOK'
    BY <2>1, <2>2 DEF NoMount
  <2>4. OnlyOurVolume' /\ PickIsAnnounced' /\ SeenIsTrue'
    BY <2>1, <2>2 DEF NoMount
  <2> QED
    BY <2>3, <2>4
<1>5. CASE Choose
  <2>0. (Cardinality(cands) > 1) \in BOOLEAN
    OBVIOUS
  <2>1. /\ UNCHANGED <<dataDev, at, mountPoint, mode, next, cands, polls, mounted, history>>
        /\ mountPoint = NoMount
        /\ warn' = (Cardinality(cands) > 1)
    BY <1>5 DEF Choose
  <2>2. \/ pc' = "sleep" /\ UNCHANGED found
        \/ pc' = "type" /\ found' \in cands
    BY <1>5 DEF Choose, First
  <2>3. warn' \in BOOLEAN
    BY <2>0, <2>1, Zenon
  <2>4. found' \in NoNode .. Nodes
    <3>1. cands \subseteq 1 .. Nodes /\ found \in 0 .. Nodes
      OBVIOUS
    <3>2. 1 .. Nodes \subseteq 0 .. Nodes
      BY NodeAssumption
    <3>3. found' \in cands \/ found' = found
      BY <2>2
    <3> QED
      BY <3>1, <3>2, <3>3
  <2>5. WatchTypeOK'
    BY <2>1, <2>2, <2>3, <2>4 DEF NoMount
  <2>6. OnlyOurVolume' /\ PickIsAnnounced'
    BY <2>1 DEF NoMount
  <2>7. SeenIsTrue'
    BY <1>5, <2>1, <2>2 DEF Choose
  <2> QED
    BY <2>5, <2>6, <2>7
<1>6. CASE Identify
  BY <1>6 DEF Identify
<1>7. CASE Mount
  BY <1>7, StickAssumption DEF Mount, NoMount
<1>8. CASE Verify
  <2>1. /\ UNCHANGED <<dataDev, at, next, cands, found, polls, warn, mounted, exchanged>>
        /\ pc = "verify" /\ mountPoint # NoMount /\ ~(pc' = "verify")
        /\ mode' \in {"once", "daemon"} /\ pc' \in {"poll", "sleep"}
    BY <1>8 DEF Verify
  <2>2. \/ mountPoint.stick \in Writable /\ UNCHANGED <<mountPoint, stuck>>
        \/ mountPoint' = NoMount /\ stuck' = stuck
        \/ stuck' = TRUE /\ UNCHANGED mountPoint
    BY <1>8 DEF Verify
  <2>3. CASE mountPoint.stick \in Writable /\ UNCHANGED <<mountPoint, stuck>>
    BY <2>1, <2>3 DEF NoMount
  <2>4. CASE mountPoint' = NoMount /\ stuck' = stuck
    BY <1>8, <2>1, <2>4 DEF NoMount
  <2>5. CASE stuck' = TRUE /\ UNCHANGED mountPoint
    <3>1. stuck' \in BOOLEAN
      BY <2>5
    <3> QED
      BY <2>1, <2>5, <3>1 DEF NoMount
  <2> QED
    BY <2>2, <2>3, <2>4, <2>5
<1>9. CASE Sleep
  BY <1>9, NodeAssumption DEF Sleep
<1> QED
  BY <1>1, <1>2, <1>3, <1>4, <1>5, <1>6, <1>7, <1>8, <1>9 DEF Script

LEMMA WatchSteps == WatchInv /\ [WatchNext]_watchVars => WatchInv'
<1> SUFFICES ASSUME WatchInv, [WatchNext]_watchVars PROVE WatchInv'
  OBVIOUS
<1>1. CASE Operator
  <2>1. ASSUME NEW s \in Sticks, NEW n \in NodeSet, Insert(s, n) PROVE WatchInv'
    BY <2>1, OperatorKeeps
  <2>2. ASSUME NEW n \in NodeSet, Pull(n) PROVE WatchInv'
    <3>1. PICK s \in Sticks : TRUE
      BY <2>2 DEF Pull, WatchInv, WatchTypeOK
    <3> QED
      BY <2>2, <3>1, OperatorKeeps
  <2> QED
    BY <1>1, <2>1, <2>2 DEF Operator
<1>2. CASE Script
  BY <1>2, ScriptKeeps
<1>3. CASE PollDataMount
  BY <1>3 DEF PollDataMount, script, history, WatchInv, WatchTypeOK, OnlyOurVolume, PickIsAnnounced,
              SeenIsTrue, NoMount
<1>4. CASE UNCHANGED watchVars
  BY <1>4 DEF watchVars, script, history, WatchInv, WatchTypeOK, OnlyOurVolume, PickIsAnnounced, SeenIsTrue, NoMount
<1> QED
  BY <1>1, <1>2, <1>3, <1>4 DEF WatchNext

LEMMA WatchInvariance == WatchSpec => []WatchInv
BY WatchStarts, WatchSteps, PTL DEF WatchSpec

-----------------------------------------------------------------------------
(* The script's place, its choice and the mount agree at every moment.      *)
THEOREM WatcherTypeCorrect == WatchSpec => []WatchTypeOK
<1>1. WatchInv => WatchTypeOK
  BY DEF WatchInv
<1> QED
  BY <1>1, WatchInvariance, PTL

(* Whatever is plugged and pulled between any two steps of the script, a    *)
(* volume without the label is only mounted if it took the place of a       *)
(* candidate of that pass, one without the flags only stays if umount       *)
(* failed, and none of another type is ever mounted.                        *)
THEOREM OnlyOurs == WatchSpec => []OnlyOurVolume
<1>1. WatchInv => OnlyOurVolume
  BY DEF WatchInv
<1> QED
  BY <1>1, WatchInvariance, PTL

(* A volume picked out of several is announced as long as it is mounted.    *)
THEOREM Announced == WatchSpec => []PickIsAnnounced
<1>1. WatchInv => PickIsAnnounced
  BY DEF WatchInv
<1> QED
  BY <1>1, WatchInvariance, PTL

-----------------------------------------------------------------------------
(***************************************************************************)
(* The entropy pool, which the kiosk draws a seed from.                    *)
(***************************************************************************)
(* What RDSEED left in the chain.                                           *)
FromRdseed == {s \in mixed : s.source = "rdseed"}

KernelIsReady == \E s \in mixed : s.source = "kernel" /\ s.ready

(* finalise() draws RDSEED once, into a sample that is there from then on.  *)
DrawnOnce ==
    /\ step \in {"idle", "getrandom", "urandom", "rdseed", "rdrand", "policy"}
    /\ step \in {"getrandom", "urandom", "rdseed"} => FromRdseed = {}
    /\ step \in {"rdrand", "policy"} \/ answer # "none" =>
          \E w \in Seq(Words) : FromRdseed = {CpuSample("rdseed", w)}

(* The report never says more than what was folded in: it calls the kernel  *)
(* ready only for a block of a ready kernel, and once RDRAND is drawn it    *)
(* counts the words of RDSEED exactly when they look sane.                  *)
ReportIsTrue ==
    /\ report \in [kernelOk : BOOLEAN, kernelWasReady : BOOLEAN, rdseedWords : Nat,
                   rdrandWords : Nat, cpuRejected : Int]
    /\ report.kernelWasReady => KernelIsReady
    /\ step = "policy" =>
          report.rdseedWords = IF LookSane(Drawn("rdseed"))
                               THEN Len(Drawn("rdseed")) ELSE 0

(* An answer is kept for as long as its samples are, and is what the policy *)
(* says of them.                                                            *)
AnswerFollows ==
    /\ answer \in {"none", "written", "refused"}
    /\ answer # "none" => step = "idle"
    /\ answer = "written" => KernelIsReady \/ LookSane(Drawn("rdseed"))
    /\ answer = "refused" => ~LookSane(Drawn("rdseed"))

PoolInv == DrawnOnce /\ ReportIsTrue /\ AnswerFollows

-----------------------------------------------------------------------------
(* The words of the one sample there is.                                    *)
LEMMA DrawnIs ==
    ASSUME NEW w, FromRdseed = {CpuSample("rdseed", w)}
    PROVE  Drawn("rdseed") = w
<1> DEFINE sample == CpuSample("rdseed", w)
<1>1. {s \in mixed : s.source = "rdseed"} = {sample}
  BY DEF FromRdseed
<1>2. (CHOOSE s \in {sample} : TRUE) = sample
  OBVIOUS
<1>3. sample.words = w
  BY DEF CpuSample
<1> HIDE DEF sample
<1> QED
  BY <1>1, <1>2, <1>3 DEF Drawn

LEMMA DrawsAreWords ==
    ASSUME NEW i, NEW n, NEW w \in Draws(i, n)
    PROVE  w \in Seq(Words)
<1>1. CASE w = <<>>
  BY <1>1
<1>2. CASE \E m \in 0..n : w \in [1..m -> Words]
  BY <1>2
<1> QED
  BY <1>1, <1>2 DEF Draws, BoundedSeq, SeqOf

(* A sane run of words is as many random words.                             *)
LEMMA SaneIsRandom ==
    ASSUME NEW w \in Seq(Words), LookSane(w)
    PROVE  /\ Cardinality(ToSet(w)) = Len(w)
           /\ Len(w) > 1
           /\ ToSet(w) \subseteq Random
<1>1. Len(w) \in Nat /\ DOMAIN w = 1..Len(w) /\ \A i \in 1..Len(w) : w[i] \in Words
  OBVIOUS
<1>2. w \in Bijection(1..Len(w), ToSet(w))
  BY <1>1 DEF LookSane, ToSet, Bijection, Injection, Surjection, IsInjective
<1>3. IsFiniteSet(1..Len(w)) /\ Cardinality(1..Len(w)) = Len(w)
  <2>1. \A n \in Nat : IsFiniteSet(1..n) /\ Cardinality(1..n) = n
    BY FS_Interval
  <2> QED
    BY <1>1, <2>1
<1>4. Cardinality(ToSet(w)) = Len(w)
  BY <1>2, <1>3, FS_Bijection DEF ExistsBijection
<1>5. Cardinality(ToSet(w)) = Cardinality(ToSet(w))
  BY Zenon DEF Cardinality, Cardinality
<1>6. ToSet(w) \subseteq Random
  BY <1>1 DEF LookSane, ToSet, Words
<1> QED
  BY <1>1, <1>4, <1>5, <1>6 DEF LookSane

(* A run that does not look sane has a fault that can be named.             *)
LEMMA InsaneIsFaulty ==
    ASSUME NEW w \in Seq(Words), ~LookSane(w)
    PROVE  \/ Len(w) < 2
           \/ ToSet(w) \cap {Zero, Ones} # {}
           \/ ~IsInjective(w)
<1>1. Len(w) \in Nat /\ DOMAIN w = 1..Len(w)
  OBVIOUS
<1>2. \A i \in 1..Len(w) : w[i] \in ToSet(w)
  BY <1>1 DEF ToSet
<1>3. CASE \E i \in 1..Len(w) : w[i] \in {Zero, Ones}
  BY <1>2, <1>3
<1>4. CASE \E i, j \in 1..Len(w) : i # j /\ w[i] = w[j]
  BY <1>1, <1>4 DEF IsInjective
<1> QED
  BY <1>1, <1>3, <1>4 DEF LookSane

LEMMA PoolStarts == PoolInit => PoolInv
BY DEF PoolInit, PoolInv, DrawnOnce, ReportIsTrue, AnswerFollows, NoReport

LEMMA PoolSteps == PoolInv /\ [PoolNext]_poolVars => PoolInv'
<1> SUFFICES ASSUME PoolInv, [PoolNext]_poolVars PROVE PoolInv'
  OBVIOUS
<1> USE DEF PoolInv
<1>1. CASE UNCHANGED mixed /\ UNCHANGED <<step, report, answer>>
  <2>1. UNCHANGED Drawn("rdseed") /\ UNCHANGED <<FromRdseed, KernelIsReady>>
    BY <1>1 DEF Drawn, FromRdseed, KernelIsReady
  <2> QED
    BY <1>1, <2>1 DEF DrawnOnce, ReportIsTrue, AnswerFollows
<1>2. CASE Reset \/ Finalise
  <2>1. FromRdseed' = {} /\ answer' = "none" /\ report' = NoReport
        /\ step' \in {"idle", "getrandom"}
    BY <1>2 DEF Reset, Finalise, FromRdseed
  <2> QED
    BY <2>1 DEF DrawnOnce, ReportIsTrue, AnswerFollows, NoReport
<1>3. CASE ReadKernel \/ ReadDevice
  <2>1. /\ step \in {"getrandom", "urandom"} /\ step' \in {"urandom", "rdseed"}
        /\ UNCHANGED answer
    BY <1>3 DEF ReadKernel, ReadDevice
  <2>2. FromRdseed' = FromRdseed
    BY <1>3 DEF ReadKernel, ReadDevice, FromRdseed, KernelSample
  <2>3. /\ report' \in [kernelOk : BOOLEAN, kernelWasReady : BOOLEAN, rdseedWords : Nat,
                        rdrandWords : Nat, cpuRejected : Int]
        /\ \/ report'.kernelWasReady = report.kernelWasReady
           \/ KernelSample(TRUE) \in mixed'
    BY <1>3 DEF ReadKernel, ReadDevice, ReportIsTrue
  <2>4. mixed \subseteq mixed'
    BY <1>3 DEF ReadKernel, ReadDevice
  <2>5. report'.kernelWasReady => KernelIsReady'
    BY <2>3, <2>4 DEF ReportIsTrue, KernelIsReady, KernelSample
  <2> QED
    BY <2>1, <2>2, <2>3, <2>5 DEF DrawnOnce, ReportIsTrue, AnswerFollows
<1>4. CASE DrawRdseed
  <2>1. PICK w \in Draws("rdseed", CpuWords) :
          mixed' = mixed \cup {CpuSample("rdseed", w)}
    BY <1>4 DEF DrawRdseed
  <2>2. step = "rdseed" /\ step' = "rdrand" /\ UNCHANGED <<report, answer>>
    BY <1>4 DEF DrawRdseed
  <2>3. FromRdseed' = {CpuSample("rdseed", w)}
    BY <2>1, <2>2 DEF DrawnOnce, FromRdseed, CpuSample
  <2>4. w \in Seq(Words)
    BY DrawsAreWords
  <2>5. KernelIsReady => KernelIsReady'
    BY <2>1 DEF KernelIsReady
  <2> QED
    BY <2>2, <2>3, <2>4, <2>5 DEF DrawnOnce, ReportIsTrue, AnswerFollows
<1>5. CASE DrawRdrand
  <2>1. PICK w \in Draws("rdrand", Wanted) :
          /\ mixed' = mixed \cup {CpuSample("rdrand", w)}
          /\ report' = LET c == Judged(Drawn("rdseed"), w)
                       IN  [report EXCEPT !.rdseedWords = c.rdseedWords,
                                          !.rdrandWords = c.rdrandWords,
                                          !.cpuRejected = c.cpuRejected]
    BY <1>5 DEF DrawRdrand
  <2>2. step = "rdrand" /\ step' = "policy" /\ UNCHANGED answer
    BY <1>5 DEF DrawRdrand
  <2>3. FromRdseed' = FromRdseed
    BY <2>1 DEF FromRdseed, CpuSample
  <2>4. PICK s \in Seq(Words) : FromRdseed = {CpuSample("rdseed", s)}
    BY <2>2 DEF DrawnOnce
  <2>5. Drawn("rdseed") = s /\ Drawn("rdseed")' = s
    BY <2>3, <2>4, DrawnIs DEF Drawn, FromRdseed, CpuSample
  <2>6. KernelIsReady => KernelIsReady'
    BY <2>1 DEF KernelIsReady
  <2>7. w \in Seq(Words)
    BY DrawsAreWords
  <2>8. Len(s) \in Nat /\ Len(w) \in Nat
    BY <2>7
  <2>a. LET c == Judged(s, w)
        IN  /\ c.rdseedWords = IF LookSane(s) THEN Len(s) ELSE 0
            /\ c.rdseedWords \in Nat /\ c.rdrandWords \in Nat /\ c.cpuRejected \in Int
    BY <2>8 DEF Judged
  <2>9. /\ report' \in [kernelOk : BOOLEAN, kernelWasReady : BOOLEAN, rdseedWords : Nat,
                        rdrandWords : Nat, cpuRejected : Int]
        /\ report'.kernelWasReady = report.kernelWasReady
        /\ report'.rdseedWords = IF LookSane(s) THEN Len(s) ELSE 0
    BY <2>1, <2>5, <2>a DEF ReportIsTrue
  <2> QED
    BY <2>2, <2>3, <2>4, <2>5, <2>6, <2>9 DEF DrawnOnce, ReportIsTrue, AnswerFollows
<1>6. CASE Decide
  <2>1. /\ step = "policy" /\ step' = "idle" /\ UNCHANGED <<report, mixed>>
        /\ answer' = IF PolicySatisfied(report) THEN "written" ELSE "refused"
    BY <1>6 DEF Decide
  <2>2. UNCHANGED Drawn("rdseed") /\ UNCHANGED <<FromRdseed, KernelIsReady>>
    BY <2>1 DEF Drawn, FromRdseed, KernelIsReady
  <2>3. PICK s \in Seq(Words) : FromRdseed = {CpuSample("rdseed", s)}
    BY <2>1 DEF DrawnOnce
  <2>4. Drawn("rdseed") = s
    BY <2>3, DrawnIs
  <2>5. LookSane(s) => Len(s) > 0
    BY DEF LookSane
  <2> QED
    BY <2>1, <2>2, <2>3, <2>4, <2>5
       DEF DrawnOnce, ReportIsTrue, AnswerFollows, PolicySatisfied
<1> QED
  BY <1>1, <1>2, <1>3, <1>4, <1>5, <1>6
     DEF PoolNext, Work, MixUserEvent, KernelSeeds, poolVars

(* Whatever the kernel and the CPU answer, and whenever the kernel comes to *)
(* be seeded: what finalise() writes can be vouched for, and what it        *)
(* refuses cannot.                                                          *)
THEOREM AnswersJustified == PoolSpec => []AnswerIsJustified
<1>1. ASSUME PoolInv PROVE AnswerIsJustified
  <2>1. CASE answer = "none"
    BY <2>1 DEF AnswerIsJustified, OutputIsCredited, WorkingRdseedIsEnough
  <2>2. CASE answer # "none"
    <3>1. PICK s \in Seq(Words) : FromRdseed = {CpuSample("rdseed", s)}
      BY <1>1, <2>2 DEF PoolInv, DrawnOnce
    <3>2. Drawn("rdseed") = s
      BY <3>1, DrawnIs
    <3>3. OutputIsCredited
      BY <1>1, <3>2, SaneIsRandom
         DEF PoolInv, AnswerFollows, OutputIsCredited, KernelIsReady
    <3>4. WorkingRdseedIsEnough
      BY <1>1, <3>2, InsaneIsFaulty DEF PoolInv, AnswerFollows, WorkingRdseedIsEnough
    <3> QED
      BY <3>3, <3>4 DEF AnswerIsJustified
  <2> QED
    BY <2>1, <2>2
<1> QED
  BY <1>1, PoolStarts, PoolSteps, PTL DEF PoolSpec
=============================================================================
