----------------------------- MODULE DataWatch -----------------------------
(***************************************************************************)
(* signeros-datawatch, the root process that finds the data stick by its   *)
(* label, mounts it and lets go of it when it disappears, and the kiosk's  *)
(* own poll of the mount (ui/app_window.cpp).  There is no hotplug: both   *)
(* only look, once a second, at what the operator does with the sticks     *)
(* meanwhile.                                                              *)
(*                                                                         *)
(* The shell script tests and acts in separate steps, and the sticks may   *)
(* change between any two of them.  Of the kernel it is assumed that a     *)
(* device node is not given to another stick while it is mounted, and that *)
(* `umount -l` succeeds.                                                   *)
(***************************************************************************)
EXTENDS Naturals, FiniteSets

CONSTANTS Sticks, NoStick,
          Labelled,      \* the sticks labelled DATA_LABEL
          Fat,           \* the sticks with FAT or exFAT on them
          Mountable,     \* the sticks mount(8) mounts
          Writable,      \* the sticks that then show rw,noexec,nodev,nosuid
          Nodes,         \* how many device nodes: 1..Nodes in the order of the globs
          DataDevs,      \* what DATA_DEV may be set to: nodes, or NoNode
          WaitPolls      \* bound: DATA_WAIT_SECS

NoNode == 0

ASSUME StickAssumption ==
    /\ NoStick \notin Sticks
    /\ Labelled \subseteq Sticks /\ Fat \subseteq Sticks
    /\ Mountable \subseteq Sticks /\ Writable \subseteq Sticks
ASSUME NodeAssumption ==
    Nodes \in Nat \ {0} /\ DataDevs \subseteq NoNode..Nodes /\ WaitPolls \in Nat

VARIABLES dataDev,  \* DATA_DEV of signeros.conf, which nobody changes
          at,       \* at[n]: the stick whose volume is the block device n
          mountPoint, \* what is under MOUNT_POINT: a node and the stick it was
          mode,     \* "once" during boot, then "daemon"
          pc,       \* where the script is
          next,     \* the node find_data_dev() looks at next
          cands,    \* _candidates
          found,    \* the device it printed
          polls,    \* _elapsed
          warn,     \* /run/signeros-warning exists
          mounted,  \* dataMounted_ of the kiosk's window
          exchanged, \* history: the candidates of this pass that got another stick
          stuck     \* history: the mount was refused, but umount failed

history == <<exchanged, stuck>>
script == <<mountPoint, mode, pc, next, cands, found, polls, warn>>
watchVars == <<dataDev, at, script, mounted, history>>

NodeSet == 1..Nodes
Ours == Labelled \cap Fat
NoMount == [node |-> NoNode, stick |-> NoStick]

-----------------------------------------------------------------------------
(***************************************************************************)
(* The operator                                                            *)
(***************************************************************************)

(* blkid has looked at what was at n, and the script has yet to mount it.   *)
Seen(n) == n \in cands /\ pc \in {"scan", "type", "mount"}

Insert(s, n) ==
    /\ at[n] = NoStick /\ n # mountPoint.node
    /\ \A m \in NodeSet : at[m] # s
    /\ at' = [at EXCEPT ![n] = s]
    /\ exchanged' = IF Seen(n) THEN exchanged \cup {n} ELSE exchanged
    /\ UNCHANGED <<dataDev, script, mounted, stuck>>

Pull(n) ==
    /\ at[n] # NoStick
    /\ at' = [at EXCEPT ![n] = NoStick]
    /\ UNCHANGED <<dataDev, script, mounted, history>>

-----------------------------------------------------------------------------
(***************************************************************************)
(* signeros-datawatch --once, then --daemon                                *)
(***************************************************************************)

(* The top of the loop: is_mounted.                                         *)
Poll ==
    /\ pc = "poll"
    /\ IF mountPoint = NoMount
       THEN /\ pc' = IF dataDev = NoNode THEN "scan" ELSE "configured"
            /\ next' = 1 /\ cands' = {} /\ exchanged' = {}
            /\ UNCHANGED mode
       ELSE /\ pc' = IF mode = "once" THEN "poll" ELSE "check"
            /\ mode' = "daemon"
            /\ UNCHANGED <<next, cands, exchanged>>
    /\ UNCHANGED <<dataDev, at, mountPoint, found, polls, warn, mounted, stuck>>

(* "Still there?"  The node of the mount is a block device no more: it is   *)
(* lazily unmounted.                                                        *)
Check ==
    /\ pc = "check"
    /\ IF at[mountPoint.node] = NoStick
       THEN mountPoint' = NoMount /\ stuck' = FALSE
       ELSE UNCHANGED <<mountPoint, stuck>>
    /\ pc' = "sleep"
    /\ UNCHANGED <<dataDev, at, mode, next, cands, found, polls, warn, mounted, exchanged>>

(* find_data_dev() with DATA_DEV set: no scan, no warning.                  *)
Configured ==
    /\ pc = "configured"
    /\ IF at[dataDev] = NoStick
       THEN pc' = "sleep" /\ UNCHANGED found
       ELSE pc' = "type" /\ found' = dataDev
    /\ UNCHANGED <<dataDev, at, mountPoint, mode, next, cands, polls, warn, mounted, history>>

(* One turn of the loop in find_data_dev(): blkid on one node.              *)
Scan ==
    /\ pc = "scan" /\ next <= Nodes
    /\ next' = next + 1
    /\ cands' = IF at[next] \in Ours THEN cands \cup {next} ELSE cands
    /\ UNCHANGED <<dataDev, at, mountPoint, mode, pc, found, polls, warn, mounted, history>>

(* The node that the globs name first.                                      *)
First(S) == {n \in S : \A m \in S : n <= m}

(* A mutant of Choose, and a bug this script once had: the warning goes to  *)
(* the standard output, where the caller expects a device.                  *)
ChooseNoisily ==
    /\ pc = "scan" /\ next > Nodes
    /\ warn' = (Cardinality(cands) > 1)
    /\ IF cands = {} \/ Cardinality(cands) > 1
       THEN pc' = "sleep" /\ UNCHANGED found
       ELSE pc' = "type" /\ found' \in First(cands)
    /\ UNCHANGED <<dataDev, at, mountPoint, mode, next, cands, polls, mounted, history>>

(* A mutant of Choose: the warning is cleared on every scan.                *)
ChooseQuietly ==
    /\ pc = "scan" /\ next > Nodes
    /\ warn' = FALSE
    /\ IF cands = {}
       THEN pc' = "sleep" /\ UNCHANGED found
       ELSE pc' = "type" /\ found' \in First(cands)
    /\ UNCHANGED <<dataDev, at, mountPoint, mode, next, cands, polls, mounted, history>>

(* The end of find_data_dev(): several candidates are announced, and the    *)
(* first of them is used all the same.                                      *)
Choose ==
    /\ pc = "scan" /\ next > Nodes
    /\ warn' = (Cardinality(cands) > 1)
    /\ IF cands = {}
       THEN pc' = "sleep" /\ UNCHANGED found
       ELSE pc' = "type" /\ found' \in First(cands)
    /\ UNCHANGED <<dataDev, at, mountPoint, mode, next, cands, polls, mounted, history>>

(* mount_data() up to the type.  A volume that is neither FAT nor exFAT is  *)
(* refused here as well, which matters when DATA_DEV chose it.              *)
Identify ==
    /\ pc = "type"
    /\ pc' = IF at[found] \in Fat THEN "mount" ELSE "sleep"
    /\ UNCHANGED <<dataDev, at, mountPoint, mode, next, cands, found, polls, warn, mounted,
                   history>>

(* A mutant of Mount: the exit status of mount(8) is not looked at.         *)
MountUnchecked ==
    /\ pc = "mount"
    /\ mountPoint' = IF at[found] \in Fat \cap Mountable
                     THEN [node |-> found, stick |-> at[found]] ELSE mountPoint
    /\ pc' = "verify"
    /\ UNCHANGED <<dataDev, at, mode, next, cands, found, polls, warn, mounted, history>>

(* A mutant of Mount: mount(8) finds out the type by itself.                *)
MountAnyType ==
    /\ pc = "mount"
    /\ IF at[found] \in Mountable
       THEN mountPoint' = [node |-> found, stick |-> at[found]] /\ pc' = "verify"
       ELSE UNCHANGED mountPoint /\ pc' = "sleep"
    /\ UNCHANGED <<dataDev, at, mode, next, cands, found, polls, warn, mounted, history>>

(* mount -t, which fails on a volume of another type than it was told.      *)
Mount ==
    /\ pc = "mount"
    /\ IF at[found] \in Fat \cap Mountable
       THEN mountPoint' = [node |-> found, stick |-> at[found]] /\ pc' = "verify"
       ELSE UNCHANGED mountPoint /\ pc' = "sleep"
    /\ UNCHANGED <<dataDev, at, mode, next, cands, found, polls, warn, mounted, history>>

(* A mutant of Verify: the flags of the mount are not looked at.            *)
VerifyNothing ==
    /\ pc = "verify"
    /\ pc' = IF mode = "once" THEN "poll" ELSE "sleep"
    /\ mode' = "daemon"
    /\ UNCHANGED <<dataDev, at, mountPoint, next, cands, found, polls, warn, mounted, history>>

(* "Verify the flags actually took": a mount without them is taken back,    *)
(* unless umount fails, as it does while somebody has a file open there.    *)
(* Its failure is ignored, and the flags are never looked at again.         *)
Verify ==
    /\ pc = "verify"
    /\ IF mountPoint.stick \in Writable
       THEN /\ pc' = IF mode = "once" THEN "poll" ELSE "sleep"
            /\ mode' = "daemon"
            /\ UNCHANGED <<mountPoint, stuck>>
       ELSE /\ pc' = "sleep"
            /\ \/ mountPoint' = NoMount /\ UNCHANGED stuck
               \/ stuck' = TRUE /\ UNCHANGED mountPoint
            /\ UNCHANGED mode
    /\ UNCHANGED <<dataDev, at, next, cands, found, polls, warn, mounted, exchanged>>

(* sleep, and the end of --once when it has waited long enough: S01 starts  *)
(* the daemon either way.                                                   *)
Sleep ==
    /\ pc = "sleep"
    /\ pc' = "poll"
    /\ IF mode = "once"
       THEN IF polls < WaitPolls
            THEN polls' = polls + 1 /\ UNCHANGED mode
            ELSE mode' = "daemon" /\ UNCHANGED polls
       ELSE UNCHANGED <<mode, polls>>
    /\ UNCHANGED <<dataDev, at, mountPoint, next, cands, found, warn, mounted, history>>

Script ==
    \/ Poll \/ Check \/ Configured \/ Scan \/ Choose \/ Identify \/ Mount \/ Verify \/ Sleep

-----------------------------------------------------------------------------
(***************************************************************************)
(* The kiosk, which is started after --once                                *)
(***************************************************************************)

(* pollDataMount(): /proc/mounts and a stat(), which on a stick that is     *)
(* gone may fail or be answered from the cache.                             *)
PollDataMount ==
    /\ mode = "daemon"
    /\ mounted' \in
          IF mountPoint = NoMount THEN {FALSE}
          ELSE IF at[mountPoint.node] = NoStick THEN BOOLEAN
          ELSE {TRUE}
    /\ UNCHANGED <<dataDev, at, script, history>>

-----------------------------------------------------------------------------

WatchInit ==
    /\ dataDev \in DataDevs
    /\ at \in [NodeSet -> Sticks \cup {NoStick}]
    /\ \A m, n \in NodeSet : at[m] = at[n] /\ at[m] # NoStick => m = n
    /\ mountPoint = NoMount /\ mode = "once" /\ pc = "poll"
    /\ next = 1 /\ cands = {} /\ found = NoNode /\ polls = 0
    /\ warn = FALSE /\ mounted = FALSE /\ exchanged = {} /\ stuck = FALSE

Operator ==
    \/ \E s \in Sticks, n \in NodeSet : Insert(s, n)
    \/ \E n \in NodeSet : Pull(n)

WatchNext == Operator \/ Script \/ PollDataMount

(* The script is a process that is never blocked, the kiosk's poll a timer. *)
WatchFairness == WF_watchVars(Script) /\ WF_watchVars(PollDataMount)

WatchSpec == WatchInit /\ [][WatchNext]_watchVars /\ WatchFairness

-----------------------------------------------------------------------------
(***************************************************************************)
(* Properties                                                              *)
(***************************************************************************)

(* Types; with them, that the script's place and the mount agree.           *)
WatchTypeOK ==
    /\ dataDev \in DataDevs
    /\ at \in [NodeSet -> Sticks \cup {NoStick}]
    /\ mountPoint \in [node : NodeSet, stick : Sticks] \cup {NoMount}
    /\ mode \in {"once", "daemon"} /\ polls \in 0..WaitPolls
    /\ pc \in {"poll", "check", "configured", "scan", "type", "mount", "verify", "sleep"}
    /\ next \in 1..Nodes + 1 /\ cands \subseteq NodeSet
    /\ found \in NoNode..Nodes
    /\ warn \in BOOLEAN /\ mounted \in BOOLEAN
    /\ exchanged \subseteq cands /\ stuck \in BOOLEAN
    /\ pc \in {"check", "verify"} => mountPoint # NoMount
    /\ stuck => mountPoint # NoMount /\ pc # "verify"
    /\ pc \in {"configured", "scan", "type", "mount"} => mountPoint = NoMount

(* What is mounted has the type it was mounted as; it has the label, if no  *)
(* DATA_DEV chose it, unless the operator put it where a candidate had been *)
(* seen in that same pass; and once mount_data() is through with it, it has *)
(* all the flags of the zero-trust mount, unless umount failed.  Whatever   *)
(* is plugged and pulled meanwhile, the two exceptions are the only ways to *)
(* a volume that the script did not mean to leave there: nothing it saw in  *)
(* an earlier pass, or of another node, decides.                            *)
OnlyOurVolume ==
    mountPoint # NoMount =>
        /\ mountPoint.stick \in Fat
        /\ dataDev = NoNode /\ mountPoint.node \notin exchanged =>
              mountPoint.stick \in Labelled
        /\ pc # "verify" /\ ~stuck => mountPoint.stick \in Writable

(* "Reported loudly rather than resolved silently": as long as a volume is  *)
(* mounted that was picked out of several, the warning is on the screen.    *)
PickIsAnnounced ==
    mountPoint # NoMount /\ dataDev = NoNode /\ Cardinality(cands) > 1 => warn

(* "Insert the stick now - it will be picked up automatically": when the    *)
(* operator leaves the sticks alone and the first candidate, or the         *)
(* configured node, can be mounted, the kiosk ends up showing a volume.  It *)
(* need not be this one if another was mounted before.                      *)
Usable(n) ==
    /\ at[n] \in Fat \cap Mountable \cap Writable
    /\ IF dataDev = NoNode
       THEN at[n] \in Labelled /\ \A m \in 1..n-1 : at[m] \notin Ours
       ELSE n = dataDev

StickIsPickedUp ==
    <>[][FALSE]_at /\ <>[](\E n \in NodeSet : Usable(n)) => <>[]mounted

(* A pulled stick is noticed: once every stick is out for good, the mount   *)
(* it left behind goes, and the kiosk says that the volume is missing.      *)
PullIsNoticed ==
    <>[](\A n \in NodeSet : at[n] = NoStick) => <>[](mountPoint = NoMount /\ ~mounted)

(* Left alone, the machine follows the stick: it ends up mounted and shown, *)
(* or gone and shown to be gone (signeros-datawatch and pollDataMount(),    *)
(* two loops that only share the mount).                                    *)
StickIsFollowed == StickIsPickedUp /\ PullIsNoticed
=============================================================================
