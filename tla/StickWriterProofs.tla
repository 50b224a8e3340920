------------------------- MODULE StickWriterProofs -------------------------
(***************************************************************************)
(* What StickWriter promises holds for any number of sticks, names and     *)
(* things to save.                                                         *)
(*                                                                         *)
(* PromisesAreKept is not inductive: a call in progress has files of its   *)
(* own, and a promise could be broken by what it does next.  IInv adds     *)
(* what is known of those: the file that is open is nobody's promise, it   *)
(* is as complete as the call has got, and the PSBT that a transaction is  *)
(* being written for is complete and on the same stick.                    *)
(***************************************************************************)
EXTENDS StickWriter, TLAPS

Open_ == {"write", "fsync", "unlink"}

(* A call is for a path of some job.                                        *)
CallIsForAPath ==
    /\ pc # "idle" => path \in Paths /\ job \in 1..MaxJobs
    /\ told \in {"unsaved", "failed"} => job \in 1..MaxJobs
    /\ pc = "unlink" => path[2] # "tx"

(* The file that is open, on a stick that is still in.                      *)
OpenFileIsOurs ==
    stick # NoStick /\ pc \in Open_ =>
        /\ pc = "write" => files[stick][path] = Partial(job)
        /\ pc = "fsync" => files[stick][path] = Whole(job)
        /\ \A p \in promised : p.stick = stick => p.path # path

Psbt(s) == [stick |-> s, path |-> <<path[1], "psbt">>, job |-> job]

(* What a call has written before: a PSBT if it is about the transaction.   *)
WrittenIsWhole ==
    pc # "idle" =>
        /\ path[2] # "tx" => written = {}
        /\ path[2] = "tx" =>
              \E s \in Sticks :
                 /\ written = {Psbt(s)}
                 /\ files[s][<<path[1], "psbt">>] = Whole(job)
                 /\ stick \in {s, NoStick}

IInv ==
    /\ TypeOK
    /\ CallIsForAPath
    /\ OpenFileIsOurs
    /\ WrittenIsWhole
    /\ PromisesAreKept

-----------------------------------------------------------------------------


(* The initial states satisfy the invariant.                                *)
LEMMA InitEstablishes == Init => IInv
<1> SUFFICES ASSUME Init PROVE IInv
  OBVIOUS
<1>1. files \in [Sticks -> [Paths -> Contents]]
  <2>1. files \in [Sticks -> [Paths -> {Absent, Foreign}]]
    BY DEF Init
  <2>2. {Absent, Foreign} \subseteq Contents
    BY DEF Contents
  <2>3. \A s \in Sticks : files[s] \in [Paths -> Contents]
    BY <2>1, <2>2
  <2>4. QED
    BY <2>1, <2>3
<1>2. TypeOK
  <2>1. job \in 0..MaxJobs
    BY JobsAssumption DEF Init
  <2>2. QED
    BY <1>1, <2>1 DEF Init, TypeOK, Kinds
<1>3. CallIsForAPath /\ OpenFileIsOurs /\ WrittenIsWhole
  BY DEF Init, CallIsForAPath, OpenFileIsOurs, WrittenIsWhole, Open_
<1>4. PromisesAreKept
  BY DEF Init, PromisesAreKept
<1>5. QED
  BY <1>2, <1>3, <1>4 DEF IInv

(* What Put() does to the files, one by one.                                *)
LEMMA PutFacts ==
  ASSUME TypeOK, stick # NoStick, NEW f \in Paths, NEW c \in Contents, Put(f, c)
  PROVE  /\ files' \in [Sticks -> [Paths -> Contents]]
         /\ \A s \in Sticks, g \in Paths :
               files'[s][g] = IF s = stick /\ g = f THEN c ELSE files[s][g]
<1>1. stick \in Sticks /\ files \in [Sticks -> [Paths -> Contents]]
  BY DEF TypeOK
<1>2. files' = [files EXCEPT ![stick][f] = c]
  BY DEF Put
<1>3. files' = [s \in Sticks |-> IF s = stick THEN [files[s] EXCEPT ![f] = c] ELSE files[s]]
  BY <1>1, <1>2
<1>4. [files[stick] EXCEPT ![f] = c] \in [Paths -> Contents]
  BY <1>1
<1>5. QED
  BY <1>1, <1>3, <1>4

(* A call that fails, at any of its steps, breaks nothing.                  *)
LEMMA FailStep ==
  ASSUME IInv, Fail, pc \in {"access", "open", "write", "fsync"},
         UNCHANGED <<stick, files, job, kind, withTx, path>>
  PROVE  IInv'
<1> USE DEF IInv
<1>a. /\ path \in Paths /\ job \in 1..MaxJobs /\ pc # "idle"
  BY DEF CallIsForAPath
<1>1. CASE path[2] = "tx" /\ Report(written)
  <2>1. PICK s \in Sticks : /\ written = {Psbt(s)}
                            /\ files[s][<<path[1], "psbt">>] = Whole(job)
    BY <1>1, <1>a DEF WrittenIsWhole
  <2>2. promised' = promised \cup {Psbt(s)} /\ written' = written /\ pc' = "idle"
        /\ fd' = NoFile /\ told' = "written"
    BY <1>1, <2>1 DEF Report
  <2>3. TypeOK'
    BY <1>1, <2>2 DEF Report, TypeOK
  <2>4. PromisesAreKept'
    <3>1. Psbt(s).stick = s /\ Psbt(s).path = <<path[1], "psbt">> /\ Psbt(s).job = job
      BY DEF Psbt
    <3>2. QED
      BY <3>1, <2>1, <2>2 DEF PromisesAreKept, Whole
  <2>5. (CallIsForAPath /\ OpenFileIsOurs /\ WrittenIsWhole)'
    BY <2>2 DEF CallIsForAPath, OpenFileIsOurs, WrittenIsWhole, Open_
  <2>6. QED
    BY <2>3, <2>4, <2>5
<1>2. CASE path[2] # "tx" /\ kind = "export" /\ fd # NoFile /\ pc' = "unlink"
           /\ UNCHANGED <<fd, written, told, promised>>
  <2>1. pc \in Open_ /\ fd = path
    BY <1>2 DEF TypeOK, Open_
  <2>2. TypeOK'
    BY <1>2, <2>1 DEF TypeOK
  <2>3. CallIsForAPath'
    BY <1>2, <1>a DEF CallIsForAPath
  <2>4. OpenFileIsOurs'
    BY <1>2, <2>1 DEF OpenFileIsOurs, Open_
  <2>5. WrittenIsWhole'
    BY <1>2, <1>a DEF WrittenIsWhole
  <2>6. PromisesAreKept'
    BY <1>2 DEF PromisesAreKept, Whole
  <2>7. QED
    BY <2>2, <2>3, <2>4, <2>5, <2>6
<1>3. CASE Refuse
  <2>1. TypeOK'
    BY <1>3 DEF Refuse, TypeOK
  <2>2. (CallIsForAPath /\ OpenFileIsOurs /\ WrittenIsWhole)'
    BY <1>3, <1>a DEF Refuse, CallIsForAPath, OpenFileIsOurs, WrittenIsWhole, Open_
  <2>3. PromisesAreKept'
    BY <1>3 DEF Refuse, PromisesAreKept, Whole
  <2>4. QED
    BY <2>1, <2>2, <2>3
<1>4. QED
  BY <1>1, <1>2, <1>3 DEF Fail

(* open() creates a file that nobody was promised.                          *)
LEMMA OpenStep == IInv /\ Open => IInv'
<1> SUFFICES ASSUME IInv, Open PROVE IInv'
  OBVIOUS
<1> USE DEF IInv
<1>a. path \in Paths /\ job \in 1..MaxJobs /\ pc = "open"
  BY DEF Open, CallIsForAPath
<1>1. CASE UNCHANGED files /\ Fail
  BY <1>1, <1>a, FailStep DEF Open
<1>2. CASE /\ stick # NoStick /\ ~Exists(path)
           /\ Put(path, Partial(job))
           /\ fd' = path /\ pc' = "write"
           /\ UNCHANGED <<written, told, promised>>
  <2>1. UNCHANGED <<stick, job, kind, withTx, path>>
    BY DEF Open
  <2>2. Partial(job) \in Contents /\ files[stick][path] = Absent
    BY <1>2, <1>a DEF Partial, Contents, Exists
  <2>3. /\ files' \in [Sticks -> [Paths -> Contents]]
        /\ \A s \in Sticks, g \in Paths :
              files'[s][g] = IF s = stick /\ g = path THEN Partial(job) ELSE files[s][g]
    BY <1>2, <1>a, <2>2, PutFacts
  <2>4. \A j \in 1..MaxJobs : Whole(j) # Absent
    <3>1. \A j \in 1..MaxJobs : Whole(j) \in [job : 1..MaxJobs, whole : BOOLEAN]
      BY DEF Whole
    <3>2. QED
      BY <3>1, ContentAssumption
  <2>5. \A p \in promised : p.stick = stick => p.path # path
    <3> SUFFICES ASSUME NEW p \in promised, p.stick = stick, p.path = path PROVE FALSE
      OBVIOUS
    <3>1. p.job \in 1..MaxJobs /\ files[stick][path] = Whole(p.job)
      BY DEF TypeOK, Promises, PromisesAreKept
    <3>2. QED
      BY <3>1, <2>2, <2>4
  <2>6. TypeOK'
    BY <1>2, <2>1, <2>3 DEF TypeOK
  <2>7. CallIsForAPath'
    BY <1>2, <1>a, <2>1 DEF CallIsForAPath
  <2>8. OpenFileIsOurs'
    <3>1. stick \in Sticks
      BY <1>2 DEF TypeOK
    <3>2. files'[stick][path] = Partial(job)
      BY <3>1, <2>3, <1>a
    <3>3. QED
      BY <1>2, <2>1, <2>5, <3>2 DEF OpenFileIsOurs, Partial
  <2>9. WrittenIsWhole'
    <3>1. CASE path[2] # "tx"
      BY <3>1, <1>2, <2>1, <1>a DEF WrittenIsWhole
    <3>2. CASE path[2] = "tx"
      <4>1. PICK s \in Sticks : /\ written = {Psbt(s)}
                                /\ files[s][<<path[1], "psbt">>] = Whole(job)
                                /\ stick \in {s, NoStick}
        BY <3>2, <1>a DEF WrittenIsWhole
      <4>2. <<path[1], "psbt">> \in Paths /\ <<path[1], "psbt">> # path
        BY <3>2, <1>a DEF Paths
      <4>3. files'[s][<<path[1], "psbt">>] = Whole(job)
        BY <4>1, <4>2, <2>3
      <4>4. written' = {Psbt(s)'}
        BY <4>1, <1>2, <2>1 DEF Psbt
      <4>5. QED
        BY <3>2, <4>1, <4>3, <4>4, <2>1 DEF WrittenIsWhole, Whole
    <3>3. QED
      BY <3>1, <3>2
  <2>10. PromisesAreKept'
    <3> SUFFICES ASSUME NEW p \in promised PROVE files'[p.stick][p.path] = Whole(p.job)
      BY <1>2 DEF PromisesAreKept, Whole
    <3>1. p.stick \in Sticks /\ p.path \in Paths
      BY DEF TypeOK, Promises
    <3>2. QED
      BY <3>1, <2>3, <2>5 DEF PromisesAreKept
  <2>11. QED
    BY <2>6, <2>7, <2>8, <2>9, <2>10
<1>3. QED
  BY <1>1, <1>2 DEF Open

(* write() completes the file this call has open, which nobody was promised *)
(* and which is not the PSBT it wrote before.                               *)
LEMMA WriteStep == IInv /\ Write => IInv'
<1> SUFFICES ASSUME IInv, Write PROVE IInv'
  OBVIOUS
<1> USE DEF IInv
<1>a. path \in Paths /\ job \in 1..MaxJobs /\ pc = "write"
  BY DEF Write, CallIsForAPath
<1>1. CASE UNCHANGED files /\ Fail
  BY <1>1, <1>a, FailStep DEF Write
<1>2. CASE /\ stick # NoStick
           /\ Put(path, Whole(job))
           /\ pc' = "fsync"
           /\ UNCHANGED <<fd, written, told, promised>>
  <2>1. UNCHANGED <<stick, job, kind, withTx, path>>
    BY DEF Write
  <2>2. Whole(job) \in Contents
    BY <1>a DEF Whole, Contents
  <2>3. /\ files' \in [Sticks -> [Paths -> Contents]]
        /\ \A s \in Sticks, g \in Paths :
              files'[s][g] = IF s = stick /\ g = path THEN Whole(job) ELSE files[s][g]
    BY <1>2, <1>a, <2>2, PutFacts
  <2>4. \A p \in promised : p.stick = stick => p.path # path
    BY <1>2, <1>a DEF OpenFileIsOurs, Open_
  <2>5. TypeOK'
    BY <1>2, <1>a, <2>1, <2>3 DEF TypeOK
  <2>6. CallIsForAPath'
    BY <1>2, <1>a, <2>1 DEF CallIsForAPath
  <2>7. OpenFileIsOurs'
    <3>1. stick \in Sticks
      BY <1>2 DEF TypeOK
    <3>2. files'[stick][path] = Whole(job)
      BY <3>1, <2>3, <1>a
    <3>3. QED
      BY <1>2, <2>1, <2>4, <3>2 DEF OpenFileIsOurs, Whole
  <2>8. WrittenIsWhole'
    <3>1. CASE path[2] # "tx"
      BY <3>1, <1>2, <2>1, <1>a DEF WrittenIsWhole
    <3>2. CASE path[2] = "tx"
      <4>1. PICK s \in Sticks : /\ written = {Psbt(s)}
                                /\ files[s][<<path[1], "psbt">>] = Whole(job)
                                /\ stick \in {s, NoStick}
        BY <3>2, <1>a DEF WrittenIsWhole
      <4>2. <<path[1], "psbt">> \in Paths /\ <<path[1], "psbt">> # path
        BY <3>2, <1>a DEF Paths
      <4>3. files'[s][<<path[1], "psbt">>] = Whole(job)
        BY <4>1, <4>2, <2>3
      <4>4. written' = {Psbt(s)'}
        BY <4>1, <1>2, <2>1 DEF Psbt
      <4>5. QED
        BY <3>2, <4>1, <4>3, <4>4, <2>1 DEF WrittenIsWhole, Whole
    <3>3. QED
      BY <3>1, <3>2
  <2>9. PromisesAreKept'
    <3> SUFFICES ASSUME NEW p \in promised PROVE files'[p.stick][p.path] = Whole(p.job)
      BY <1>2 DEF PromisesAreKept, Whole
    <3>1. p.stick \in Sticks /\ p.path \in Paths
      BY DEF TypeOK, Promises
    <3>2. QED
      BY <3>1, <2>3, <2>4 DEF PromisesAreKept
  <2>10. QED
    BY <2>5, <2>6, <2>7, <2>8, <2>9
<1>3. QED
  BY <1>1, <1>2 DEF Write

(* fsync() turns the whole file into one the operator may be promised.      *)
LEMMA FsyncStep == IInv /\ Fsync => IInv'
<1> SUFFICES ASSUME IInv, Fsync PROVE IInv'
  OBVIOUS
<1> USE DEF IInv
<1> DEFINE now == [stick |-> stick, path |-> path, job |-> job]
<1>a. /\ path \in Paths /\ job \in 1..MaxJobs /\ pc = "fsync"
      /\ UNCHANGED <<stick, files, job, kind, withTx>>
  BY DEF Fsync, CallIsForAPath
<1>1. CASE Fail /\ UNCHANGED path
  BY <1>1, <1>a, FailStep
<1>b. stick # NoStick => stick \in Sticks /\ files[stick][path] = Whole(job)
  BY <1>a DEF TypeOK, OpenFileIsOurs, Open_
<1>2. CASE /\ stick # NoStick /\ withTx /\ path[2] = "psbt"
           /\ pc' = "access" /\ path' = <<path[1], "tx">>
           /\ fd' = NoFile /\ written' = {now}
           /\ UNCHANGED <<told, promised>>
  <2>1. path' \in Paths /\ path'[1] = path[1] /\ path'[2] = "tx"
        /\ path = <<path[1], "psbt">>
    BY <1>2, <1>a DEF Paths
  <2>2. now \in Promises
    BY <1>2, <1>a, <1>b DEF Promises
  <2>3. TypeOK'
    BY <1>2, <1>a, <2>1, <2>2 DEF TypeOK
  <2>4. CallIsForAPath' /\ OpenFileIsOurs'
    BY <1>2, <1>a, <2>1 DEF CallIsForAPath, OpenFileIsOurs, Open_
  <2>5. WrittenIsWhole'
    <3>1. Psbt(stick)' = now
      BY <2>1, <1>a DEF Psbt
    <3>2. written' = {Psbt(stick)'}
      BY <1>2, <3>1
    <3>3. files'[stick][<<path'[1], "psbt">>] = Whole(job)
      BY <2>1, <1>a, <1>b, <1>2
    <3>4. QED
      BY <1>2, <1>a, <1>b, <2>1, <3>2, <3>3 DEF WrittenIsWhole, Whole
  <2>6. PromisesAreKept'
    BY <1>2, <1>a DEF PromisesAreKept, Whole
  <2>7. QED
    BY <2>3, <2>4, <2>5, <2>6
<1>3. CASE stick # NoStick /\ Report(written \cup {now}) /\ UNCHANGED path
  <2>1. now \in Promises
    BY <1>3, <1>a, <1>b DEF Promises
  <2>2. pc' = "idle" /\ fd' = NoFile /\ told' = "written"
        /\ written' = written \cup {now} /\ promised' = promised \cup written \cup {now}
    BY <1>3 DEF Report
  <2>3. TypeOK'
    BY <1>3, <1>a, <2>1, <2>2 DEF TypeOK
  <2>4. (CallIsForAPath /\ OpenFileIsOurs /\ WrittenIsWhole)'
    BY <2>2 DEF CallIsForAPath, OpenFileIsOurs, WrittenIsWhole, Open_
  <2>5. \A w \in written : files[w.stick][w.path] = Whole(w.job)
    BY <1>a DEF WrittenIsWhole, Psbt
  <2>6. files[now.stick][now.path] = Whole(now.job)
    BY <1>3, <1>b
  <2>7. PromisesAreKept'
    BY <1>a, <2>2, <2>5, <2>6 DEF PromisesAreKept, Whole
  <2>8. QED
    BY <2>3, <2>4, <2>7
<1>4. QED
  BY <1>1, <1>2, <1>3 DEF Fsync

(* access() finds the name taken, or the way free for open().               *)
LEMMA AccessStep == IInv /\ Access => IInv'
<1> SUFFICES ASSUME IInv, Access PROVE IInv'
  OBVIOUS
<1> USE DEF IInv
<1>a. /\ path \in Paths /\ job \in 1..MaxJobs /\ pc = "access"
      /\ UNCHANGED <<stick, files, job, kind, withTx, path>>
  BY DEF Access, CallIsForAPath
<1>1. CASE Fail
  BY <1>1, <1>a, FailStep
<1>2. CASE pc' = "open" /\ UNCHANGED <<fd, written, told, promised>>
  <2>1. TypeOK'
    BY <1>2, <1>a DEF TypeOK
  <2>2. CallIsForAPath' /\ OpenFileIsOurs'
    BY <1>2, <1>a DEF CallIsForAPath, OpenFileIsOurs, Open_
  <2>3. WrittenIsWhole'
    BY <1>2, <1>a DEF WrittenIsWhole, Psbt, Whole
  <2>4. PromisesAreKept'
    BY <1>2, <1>a DEF PromisesAreKept, Whole
  <2>5. QED
    BY <2>1, <2>2, <2>3, <2>4
<1>3. QED
  BY <1>1, <1>2 DEF Access

(* unlink() takes away a file that nobody was promised.                     *)
LEMMA UnlinkStep == IInv /\ Unlink => IInv'
<1> SUFFICES ASSUME IInv, Unlink PROVE IInv'
  OBVIOUS
<1> USE DEF IInv
<1>a. /\ path \in Paths /\ job \in 1..MaxJobs /\ pc = "unlink"
      /\ UNCHANGED <<stick, job, kind, withTx, path>>
      /\ pc' = "idle" /\ fd' = NoFile /\ told' = "failed"
      /\ UNCHANGED <<written, promised>>
  BY DEF Unlink, Refuse, CallIsForAPath
<1>1. (CallIsForAPath /\ OpenFileIsOurs /\ WrittenIsWhole)'
  BY <1>a DEF CallIsForAPath, OpenFileIsOurs, WrittenIsWhole, Open_
<1>2. CASE UNCHANGED files
  <2>1. TypeOK'
    BY <1>2, <1>a DEF TypeOK
  <2>2. PromisesAreKept'
    BY <1>2, <1>a DEF PromisesAreKept, Whole
  <2>3. QED
    BY <1>1, <2>1, <2>2
<1>3. CASE stick # NoStick /\ Put(path, Absent)
  <2>1. /\ files' \in [Sticks -> [Paths -> Contents]]
        /\ \A s \in Sticks, g \in Paths :
              files'[s][g] = IF s = stick /\ g = path THEN Absent ELSE files[s][g]
    <3>1. Absent \in Contents
      BY DEF Contents
    <3>2. QED
      BY <1>3, <1>a, <3>1, PutFacts
  <2>2. TypeOK'
    BY <1>a, <2>1 DEF TypeOK
  <2>3. PromisesAreKept'
    <3> SUFFICES ASSUME NEW p \in promised PROVE files'[p.stick][p.path] = Whole(p.job)
      BY <1>a DEF PromisesAreKept, Whole
    <3>1. p.stick \in Sticks /\ p.path \in Paths
      BY DEF TypeOK, Promises
    <3>2. p.stick = stick => p.path # path
      BY <1>3, <1>a DEF OpenFileIsOurs, Open_
    <3>3. QED
      BY <3>1, <3>2, <2>1 DEF PromisesAreKept
  <2>4. QED
    BY <1>1, <2>2, <2>3
<1>4. QED
  BY <1>2, <1>3 DEF Unlink

(* The steps that touch no file, and the other computer.                    *)
LEMMA OtherSteps ==
  ASSUME IInv,
         \/ Pull
         \/ \E s \in Sticks : Insert(s)
         \/ \E s \in Sticks, f \in Paths : Elsewhere(s, f)
         \/ PowerCut
         \/ \E k \in Kinds, tx \in BOOLEAN : NewJob(k, tx)
         \/ \E n \in Names : Save(n)
         \/ UNCHANGED vars
  PROVE  IInv'
<1> USE DEF IInv
<1>1. CASE Pull
  <2>1. TypeOK' /\ CallIsForAPath' /\ OpenFileIsOurs'
    BY <1>1 DEF Pull, TypeOK, CallIsForAPath, OpenFileIsOurs
  <2>2. WrittenIsWhole'
    BY <1>1 DEF Pull, WrittenIsWhole, Psbt, Whole
  <2>3. PromisesAreKept'
    BY <1>1 DEF Pull, PromisesAreKept, Whole
  <2>4. QED
    BY <2>1, <2>2, <2>3
<1>2. CASE \E s \in Sticks : Insert(s)
  <2>1. TypeOK' /\ CallIsForAPath' /\ OpenFileIsOurs' /\ WrittenIsWhole'
    BY <1>2 DEF Insert, TypeOK, CallIsForAPath, OpenFileIsOurs, WrittenIsWhole, Open_
  <2>2. PromisesAreKept'
    BY <1>2 DEF Insert, PromisesAreKept, Whole
  <2>3. QED
    BY <2>1, <2>2
<1>3. CASE \E s \in Sticks, f \in Paths : Elsewhere(s, f)
  <2>1. PICK s \in Sticks, f \in Paths : Elsewhere(s, f)
    BY <1>3
  <2>2. PICK c \in {Absent, Foreign} : files' = [files EXCEPT ![s][f] = c]
    BY <2>1 DEF Elsewhere
  <2>3. files' = [t \in Sticks |-> IF t = s THEN [files[t] EXCEPT ![f] = c] ELSE files[t]]
    BY <2>2 DEF TypeOK
  <2>4. c \in Contents /\ [files[s] EXCEPT ![f] = c] \in [Paths -> Contents]
    BY DEF TypeOK, Contents
  <2>5. files' \in [Sticks -> [Paths -> Contents]]
    BY <2>3, <2>4 DEF TypeOK
  <2>6. TypeOK'
    BY <2>1, <2>5 DEF Elsewhere, TypeOK
  <2>7. (CallIsForAPath /\ OpenFileIsOurs /\ WrittenIsWhole)'
    BY <2>1 DEF Elsewhere, CallIsForAPath, OpenFileIsOurs, WrittenIsWhole, Open_
  <2>8. PromisesAreKept'
    <3> SUFFICES ASSUME NEW p \in promised, p.stick # s \/ p.path # f
                 PROVE  files'[p.stick][p.path] = Whole(p.job)
      BY <2>1 DEF Elsewhere, PromisesAreKept, Whole
    <3>1. p.stick \in Sticks /\ p.path \in Paths
      BY DEF TypeOK, Promises
    <3>2. files'[p.stick][p.path] = files[p.stick][p.path]
      BY <2>3, <3>1 DEF TypeOK
    <3>3. QED
      BY <3>2 DEF PromisesAreKept
  <2>9. QED
    BY <2>6, <2>7, <2>8
<1>4. CASE PowerCut
  <2>1. TypeOK'
    BY <1>4 DEF PowerCut, TypeOK
  <2>2. (CallIsForAPath /\ OpenFileIsOurs /\ WrittenIsWhole)'
    BY <1>4 DEF PowerCut, CallIsForAPath, OpenFileIsOurs, WrittenIsWhole, Open_
  <2>3. PromisesAreKept'
    BY <1>4 DEF PowerCut, PromisesAreKept, Whole
  <2>4. QED
    BY <2>1, <2>2, <2>3
<1>5. CASE \E k \in Kinds, tx \in BOOLEAN : NewJob(k, tx)
  <2>1. PICK k \in Kinds, tx \in BOOLEAN : NewJob(k, tx)
    BY <1>5
  <2>2. job' \in 1..MaxJobs
    BY <2>1, JobsAssumption DEF NewJob, TypeOK
  <2>3. TypeOK'
    BY <2>1, <2>2 DEF NewJob, TypeOK, Kinds
  <2>4. (CallIsForAPath /\ OpenFileIsOurs /\ WrittenIsWhole)'
    BY <2>1, <2>2 DEF NewJob, CallIsForAPath, OpenFileIsOurs, WrittenIsWhole, Open_
  <2>5. PromisesAreKept'
    BY <2>1 DEF NewJob, PromisesAreKept, Whole
  <2>6. QED
    BY <2>3, <2>4, <2>5
<1>6. CASE \E n \in Names : Save(n)
  <2>1. PICK n \in Names : Save(n)
    BY <1>6
  <2>2. path' \in Paths /\ path'[2] # "tx" /\ pc' \in {"access", "open"}
        /\ job \in 1..MaxJobs /\ fd = NoFile
    BY <2>1 DEF Save, Paths, CallIsForAPath, TypeOK
  <2>3. TypeOK'
    BY <2>1, <2>2 DEF Save, TypeOK
  <2>4. (CallIsForAPath /\ OpenFileIsOurs /\ WrittenIsWhole)'
    BY <2>1, <2>2 DEF Save, CallIsForAPath, OpenFileIsOurs, WrittenIsWhole, Open_
  <2>5. PromisesAreKept'
    BY <2>1 DEF Save, PromisesAreKept, Whole
  <2>6. QED
    BY <2>3, <2>4, <2>5
<1>7. CASE UNCHANGED vars
  <2>1. TypeOK' /\ CallIsForAPath' /\ OpenFileIsOurs' /\ PromisesAreKept'
    BY <1>7 DEF vars, TypeOK, CallIsForAPath, OpenFileIsOurs, PromisesAreKept
  <2>2. WrittenIsWhole'
    BY <1>7 DEF vars, WrittenIsWhole, Psbt
  <2>3. QED
    BY <2>1, <2>2
<1>8. QED
  BY <1>1, <1>2, <1>3, <1>4, <1>5, <1>6, <1>7

-----------------------------------------------------------------------------

(* Every reachable state satisfies the invariant.                           *)
THEOREM Invariance == Spec => []IInv
<1>1. IInv /\ [Next]_vars => IInv'
  BY OpenStep, WriteStep, FsyncStep, AccessStep, UnlinkStep, OtherSteps DEF Next
<1>2. QED
  BY InitEstablishes, <1>1, PTL DEF Spec

(* The variables keep their types.                                          *)
THEOREM TypeCorrect == Spec => []TypeOK
<1>1. IInv => TypeOK
  BY DEF IInv
<1>2. QED
  BY Invariance, <1>1, PTL

(* Once the operator has read that a file is on a stick, it is there and    *)
(* complete until somebody changes it on another computer.                  *)
THEOREM PromisesKept == Spec => []PromisesAreKept
<1>1. IInv => PromisesAreKept
  BY DEF IInv
<1>2. QED
  BY Invariance, <1>1, PTL

(* No call ever changes or removes a file that it has not created itself.   *)
THEOREM NeverOverwritten == Spec => NeverOverwrites
<1>1. ASSUME IInv, [Next]_vars, NEW f \in Paths,
             Exists(f), files'[stick][f] # files[stick][f]
      PROVE  f = fd
  <2>1. stick \in Sticks /\ files \in [Sticks -> [Paths -> Contents]]
    BY <1>1 DEF IInv, TypeOK, Exists
  <2>2. \A c : \A g \in Paths : Put(g, c) /\ g # f => files'[stick][f] = files[stick][f]
    BY <2>1 DEF Put
  <2>3. CASE Open
    <3>1. path \in Paths
      BY <1>1, <2>3 DEF Open, IInv, CallIsForAPath
    <3>2. CASE UNCHANGED files
      BY <1>1, <3>2
    <3>3. CASE ~Exists(path) /\ Put(path, Partial(job))
      BY <1>1, <3>1, <3>3, <2>2
    <3>4. QED
      BY <2>3, <3>2, <3>3 DEF Open
  <2>4. CASE Write
    <3>1. path \in Paths /\ fd = path
      BY <1>1, <2>4 DEF Write, IInv, CallIsForAPath, TypeOK
    <3>2. UNCHANGED files \/ Put(path, Whole(job))
      BY <2>4 DEF Write
    <3>3. QED
      BY <1>1, <3>1, <3>2, <2>2
  <2>5. CASE Unlink
    <3>1. path \in Paths /\ fd = path
      BY <1>1, <2>5 DEF Unlink, IInv, CallIsForAPath, TypeOK
    <3>2. UNCHANGED files \/ Put(path, Absent)
      BY <2>5 DEF Unlink
    <3>3. QED
      BY <1>1, <3>1, <3>2, <2>2
  <2>6. CASE \E s \in Sticks, g \in Paths : Elsewhere(s, g)
    <3>1. PICK s \in Sticks, g \in Paths : Elsewhere(s, g)
      BY <2>6
    <3>2. files'[stick] = files[stick]
      BY <3>1, <2>1 DEF Elsewhere
    <3>3. QED
      BY <1>1, <3>2
  <2>7. CASE UNCHANGED files
    BY <1>1, <2>7
  <2>8. QED
    BY <1>1, <2>3, <2>4, <2>5, <2>6, <2>7
    DEF Next, vars, Pull, Insert, PowerCut, NewJob, Save, Access, Fsync
<1>2. IInv /\ [Next]_vars =>
        [\A f \in Paths :
            Exists(f) /\ files'[stick][f] # files[stick][f] => f = fd]_vars
  BY <1>1
<1>3. QED
  BY Invariance, <1>2, PTL DEF Spec, NeverOverwrites

(* A transaction file is only created next to the complete PSBT it is of.   *)
THEOREM TxFollows == Spec => TxFollowsItsPsbt
<1>1. ASSUME IInv, [Next]_vars, NEW n \in Names, stick # NoStick,
             files[stick][<<n, "tx">>] = Absent,
             files'[stick][<<n, "tx">>] # Absent
      PROVE  files[stick][<<n, "psbt">>] = Whole(job)
  <2> DEFINE tx == <<n, "tx">>
  <2>1. stick \in Sticks /\ files \in [Sticks -> [Paths -> Contents]] /\ tx \in Paths
    BY <1>1 DEF IInv, TypeOK, Paths
  <2>2. \A c : \A g \in Paths : Put(g, c) /\ g # tx => files'[stick][tx] = files[stick][tx]
    BY <2>1 DEF Put
  <2>3. CASE pc # "idle" /\ path = tx
    <3>1. tx[1] = n /\ tx[2] = "tx"
      OBVIOUS
    <3>2. QED
      BY <1>1, <2>3, <3>1 DEF IInv, WrittenIsWhole
  <2>4. CASE (Open \/ Write \/ Unlink) /\ path # tx
    <3>1. path \in Paths
      BY <1>1, <2>4 DEF Open, Write, Unlink, IInv, CallIsForAPath
    <3>2. UNCHANGED files \/ \E c : Put(path, c)
      BY <2>4 DEF Open, Write, Unlink
    <3>3. QED
      BY <1>1, <3>1, <3>2, <2>2, <2>4
  <2>5. CASE \E s \in Sticks, g \in Paths : Elsewhere(s, g)
    <3>1. PICK s \in Sticks, g \in Paths : Elsewhere(s, g)
      BY <2>5
    <3>2. files'[stick] = files[stick]
      BY <3>1, <2>1 DEF Elsewhere
    <3>3. QED
      BY <1>1, <3>2
  <2>6. CASE UNCHANGED files
    BY <1>1, <2>6
  <2>7. (Open \/ Write \/ Unlink) => pc # "idle"
    BY DEF Open, Write, Unlink
  <2>8. QED
    BY <1>1, <2>3, <2>4, <2>5, <2>6, <2>7
    DEF Next, vars, Pull, Insert, PowerCut, NewJob, Save, Access, Fsync
<1>2. IInv /\ [Next]_vars =>
        [\A n \in Names :
            /\ stick # NoStick
            /\ files[stick][<<n, "tx">>] = Absent
            /\ files'[stick][<<n, "tx">>] # Absent
            => files[stick][<<n, "psbt">>] = Whole(job)]_vars
  BY <1>1
<1>3. QED
  BY Invariance, <1>2, PTL DEF Spec, TxFollowsItsPsbt
=============================================================================
