---------------------------- MODULE StickWriter ----------------------------
(***************************************************************************)
(* How a signed PSBT (writeResult() in core/psbt_engine.cpp) and a wallet  *)
(* export (writeWalletExport() in core/wallet_export.cpp) reach the stick, *)
(* one system call at a time, and what the screen says of it afterwards.   *)
(*                                                                         *)
(* The stick may be pulled, fill up or lose power between any two calls.   *)
(* The data partition is mounted with `sync` (signeros-datawatch), so what *)
(* a call has done is on the medium when it returns.  As long as a save    *)
(* has created nothing, the stick may be exchanged for another one as well.*)
(* After that it may only go: a call on a stick that is gone fails at      *)
(* once, and the watcher takes seconds to mount another.                   *)
(***************************************************************************)
EXTENDS Naturals

CONSTANTS Sticks, NoStick,
          Names,              \* the file names an operator may leave, without extension
          NoFile,
          Absent, Foreign,    \* no such file; a file this machine did not write
          MaxJobs             \* bound: how many things there are to save

ASSUME StickAssumption == NoStick \notin Sticks
ASSUME JobsAssumption == MaxJobs \in Nat \ {0}
ASSUME ContentAssumption ==
    /\ Absent # Foreign
    /\ Absent \notin [job : 1..MaxJobs, whole : BOOLEAN]
    /\ Foreign \notin [job : 1..MaxJobs, whole : BOOLEAN]

Kinds == {"result", "export"}

(* What the operator types ends in the extension of the kind, whatever it   *)
(* ended in before: sanitiseFileName().                                     *)
Paths == Names \X {"psbt", "tx", "txt"}

ASSUME PathAssumption == NoFile \notin Paths

VARIABLES stick,    \* the stick mounted on the data directory
          files,    \* what is under each path on each stick
          job,      \* how many PSBTs were signed and wallets exported so far
          kind,     \* which of the two the current job is
          withTx,   \* alsoFinalTx, and this PSBT finalises
          pc,       \* the next system call, or "idle"
          path,     \* the path it is for
          fd,       \* the path of the file this call has created and holds open
          written,  \* *psbtPath and *txPath: what was written so far
          told,     \* what the page says of the job, if there is one
          promised  \* every file the operator was told is on a stick

vars == <<stick, files, job, kind, withTx, pc, path, fd, written, told, promised>>

Partial(j) == [job |-> j, whole |-> FALSE]
Whole(j) == [job |-> j, whole |-> TRUE]
Contents == {Absent, Foreign} \cup [job : 1..MaxJobs, whole : BOOLEAN]

Promises == [stick : Sticks, path : Paths, job : 1..MaxJobs]

-----------------------------------------------------------------------------
(***************************************************************************)
(* The stick                                                               *)
(***************************************************************************)

Pull ==
    /\ stick # NoStick
    /\ stick' = NoStick
    /\ UNCHANGED <<files, job, kind, withTx, pc, path, fd, written, told, promised>>

(* A stick appears while nothing is being saved, or before a save has       *)
(* created its first file: at access(), or between access() and open().     *)
Insert(s) ==
    /\ stick = NoStick
    /\ pc = "idle" \/ (pc \in {"access", "open"} /\ written = {})
    /\ stick' = s
    /\ UNCHANGED <<files, job, kind, withTx, pc, path, fd, written, told, promised>>

(* Away from this machine a file of the stick is deleted or put there.      *)
Elsewhere(s, f) ==
    /\ s # stick /\ pc = "idle"
    /\ \E c \in {Absent, Foreign} : files' = [files EXCEPT ![s][f] = c]
    /\ promised' = {p \in promised : p.stick # s \/ p.path # f}
    /\ UNCHANGED <<stick, job, kind, withTx, pc, path, fd, written, told>>

(* The power goes, or the kiosk dies: what was signed is gone, what the     *)
(* operator has read is not.                                                *)
PowerCut ==
    /\ pc' = "idle" /\ fd' = NoFile /\ written' = {} /\ told' = "none"
    /\ UNCHANGED <<stick, files, job, kind, withTx, path, promised>>

-----------------------------------------------------------------------------
(***************************************************************************)
(* The writer                                                              *)
(***************************************************************************)

Exists(f) == stick # NoStick /\ files[stick][f] # Absent

Put(f, c) == files' = [files EXCEPT ![stick][f] = c]

(* A transaction has been signed, or a wallet is ready to be exported.      *)
NewJob(k, tx) ==
    /\ pc = "idle" /\ job < MaxJobs
    /\ job' = job + 1 /\ kind' = k /\ withTx' = (tx /\ k = "result")
    /\ told' = "unsaved"
    /\ UNCHANGED <<stick, files, pc, path, fd, written, promised>>

(* "Save", and again after an error: writeResult() asks access() first,     *)
(* writeWalletExport() leaves it to open().                                 *)
Save(n) ==
    /\ pc = "idle" /\ told \in {"unsaved", "failed"}
    /\ path' = <<n, IF kind = "result" THEN "psbt" ELSE "txt">>
    /\ pc' = IF kind = "result" THEN "access" ELSE "open"
    /\ written' = {}
    /\ UNCHANGED <<stick, files, job, kind, withTx, fd, told, promised>>

(* A mutant of Refuse: the error return leaves the descriptor open.         *)
RefuseLeaking ==
    /\ pc' = "idle" /\ told' = "failed"
    /\ UNCHANGED <<fd, written, promised>>

(* The call returns false; the page keeps what it had and shows the error.  *)
Refuse ==
    /\ pc' = "idle" /\ fd' = NoFile /\ told' = "failed"
    /\ UNCHANGED <<written, promised>>

(* The call returns true, and the page names the files of w.                *)
Report(w) ==
    /\ pc' = "idle" /\ fd' = NoFile /\ told' = "written"
    /\ written' = w
    /\ promised' = promised \cup w

(* A step that failed: without its transaction file a result is a success   *)
(* all the same; an export that had created its file takes it away again.   *)
Fail ==
    IF path[2] = "tx" THEN Report(written)
    ELSE IF kind = "export" /\ fd # NoFile
    THEN /\ pc' = "unlink"
         /\ UNCHANGED <<fd, written, told, promised>>
    ELSE Refuse

(* wally_psbt_to_base64() fails, or the name is taken.                      *)
Access ==
    /\ pc = "access"
    /\ \/ path[2] = "psbt" /\ Fail
       \/ Exists(path) /\ Fail
       \/ ~Exists(path) /\ pc' = "open" /\ UNCHANGED <<fd, written, told, promised>>
    /\ UNCHANGED <<stick, files, job, kind, withTx, path>>

(* A mutant of Open: O_TRUNC in the place of O_EXCL.                        *)
OpenTruncating ==
    /\ pc = "open"
    /\ \/ UNCHANGED files /\ Fail
       \/ /\ stick # NoStick
          /\ Put(path, Partial(job))
          /\ fd' = path /\ pc' = "write"
          /\ UNCHANGED <<written, told, promised>>
    /\ UNCHANGED <<stick, job, kind, withTx, path>>

(* open(O_CREAT | O_EXCL): may fail for many reasons, and must when there   *)
(* is no stick (the mount point is root's, on a read-only file system).     *)
Open ==
    /\ pc = "open"
    /\ \/ UNCHANGED files /\ Fail
       \/ /\ stick # NoStick /\ ~Exists(path)
          /\ Put(path, Partial(job))
          /\ fd' = path /\ pc' = "write"
          /\ UNCHANGED <<written, told, promised>>
    /\ UNCHANGED <<stick, job, kind, withTx, path>>

(* A mutant of Write: one write(2), and a short one counts.                 *)
WriteOnce ==
    /\ pc = "write"
    /\ \/ UNCHANGED files /\ Fail
       \/ /\ stick # NoStick
          /\ files' \in {files, [files EXCEPT ![stick][path] = Whole(job)]}
          /\ pc' = "fsync"
          /\ UNCHANGED <<fd, written, told, promised>>
    /\ UNCHANGED <<stick, job, kind, withTx, path>>

(* The loop over write(2), which goes on until everything is written or a   *)
(* call fails: the stick is full, or no longer there.                       *)
Write ==
    /\ pc = "write"
    /\ \/ UNCHANGED files /\ Fail
       \/ /\ stick # NoStick
          /\ Put(path, Whole(job))
          /\ pc' = "fsync"
          /\ UNCHANGED <<fd, written, told, promised>>
    /\ UNCHANGED <<stick, job, kind, withTx, path>>

(* fsync() and close(): the file counts as written, and writeResult() goes  *)
(* on to the transaction if the PSBT finalises.                             *)
Fsync ==
    LET now == [stick |-> stick, path |-> path, job |-> job]
    IN  /\ pc = "fsync"
        /\ \/ Fail /\ UNCHANGED path
           \/ /\ stick # NoStick
              /\ IF withTx /\ path[2] = "psbt"
                 THEN /\ pc' = "access" /\ path' = <<path[1], "tx">>
                      /\ fd' = NoFile /\ written' = {now}
                      /\ UNCHANGED <<told, promised>>
                 ELSE Report(written \cup {now}) /\ UNCHANGED path
        /\ UNCHANGED <<stick, files, job, kind, withTx>>

(* writeWalletExport() only; on a stick that is gone it does nothing.       *)
Unlink ==
    /\ pc = "unlink"
    /\ IF stick = NoStick THEN UNCHANGED files ELSE Put(path, Absent)
    /\ Refuse
    /\ UNCHANGED <<stick, job, kind, withTx, path>>

Init ==
    /\ stick \in Sticks \cup {NoStick}
    /\ files \in [Sticks -> [Paths -> {Absent, Foreign}]]
    /\ job = 0 /\ kind = "result" /\ withTx = FALSE
    /\ pc = "idle" /\ path = NoFile /\ fd = NoFile
    /\ written = {} /\ told = "none" /\ promised = {}

Next ==
    \/ Pull
    \/ \E s \in Sticks : Insert(s)
    \/ \E s \in Sticks, f \in Paths : Elsewhere(s, f)
    \/ PowerCut
    \/ \E k \in Kinds, tx \in BOOLEAN : NewJob(k, tx)
    \/ \E n \in Names : Save(n)
    \/ Access
    \/ Open
    \/ Write
    \/ Fsync
    \/ Unlink

Spec == Init /\ [][Next]_vars

-----------------------------------------------------------------------------
(***************************************************************************)
(* Properties                                                              *)
(***************************************************************************)

(* Types; with them, that a descriptor is open exactly between open() and   *)
(* the end of the call.                                                     *)
TypeOK ==
    /\ stick \in Sticks \cup {NoStick}
    /\ files \in [Sticks -> [Paths -> Contents]]
    /\ job \in 0..MaxJobs /\ kind \in Kinds /\ withTx \in BOOLEAN
    /\ pc \in {"idle", "access", "open", "write", "fsync", "unlink"}
    /\ path \in Paths \cup {NoFile}
    /\ fd = IF pc \in {"write", "fsync", "unlink"} THEN path ELSE NoFile
    /\ written \subseteq Promises /\ promised \subseteq Promises
    /\ told \in {"none", "unsaved", "failed", "written"}

(* "When this returns, pulling the stick cannot lose the signature": every  *)
(* file the operator was told is on a stick is there, complete, and what    *)
(* was signed or exported then, whatever was pulled, cut off or saved since.*)
PromisesAreKept ==
    \A p \in promised : files[p.stick][p.path] = Whole(p.job)

(* "Never silently overwrite a previous signing result": on the stick that  *)
(* is in, a file that exists changes or goes only if this very call created *)
(* it.  It says as much of the cleaning up after a failed export, and of a  *)
(* file that an earlier, failed attempt left behind.                        *)
NeverOverwrites ==
    [][\A f \in Paths :
          Exists(f) /\ files'[stick][f] # files[stick][f] => f = fd]_vars

(* A broadcast-ready transaction appears on a stick only next to the        *)
(* complete signed PSBT it was finalised from.                              *)
TxFollowsItsPsbt ==
    [][\A n \in Names :
          /\ stick # NoStick
          /\ files[stick][<<n, "tx">>] = Absent
          /\ files'[stick][<<n, "tx">>] # Absent
          => files[stick][<<n, "psbt">>] = Whole(job)]_vars

-----------------------------------------------------------------------------
(***************************************************************************)
(* A statement of the sources that the code does not keep                  *)
(***************************************************************************)

(* screen_sign.cpp:1661, when writeResult() has returned false: "Nothing    *)
(* has been written."                                                       *)
FailureMeansNothingWritten ==
    kind = "result" /\ told = "failed" =>
        \A s \in Sticks, f \in Paths : files[s][f] \notin {Partial(job), Whole(job)}
=============================================================================
