------------------------------- MODULE Session -------------------------------
(***************************************************************************)
(* The processes around the kiosk: the supervisor that starts it again     *)
(* (signer-session), the watcher that mounts the stick as far as shutdown  *)
(* meets it, and the chain that init runs when the machine is to go off    *)
(* (rcK with S99signer, S01mount-data and S00early, then inittab's own     *)
(* sync and umount).  The machine has booted: rcS is done.                 *)
(*                                                                         *)
(* Of the system underneath, the model takes these from how the scripts    *)
(* use it.  A shell without a trap dies of SIGTERM at once; start-stop-    *)
(* daemon has seen it die when it returns; its child lives on.  A session  *)
(* leader that dies hangs up its terminal, and the kiosk has nothing       *)
(* against SIGHUP.  A fatal signal takes effect when the system call the   *)
(* process is in returns; SIGTERM is answered by the kiosk's event loop,   *)
(* when it gets there.  pidof finds a process by the name of its program.  *)
(* A page is zeroed when it is freed (init_on_free), so that a key is gone *)
(* with its process.                                                       *)
(*                                                                         *)
(* One assumption is about time: SlowScrub.                                *)
(***************************************************************************)
EXTENDS Naturals

CONSTANT MaxRapidFailures    \* MAX_RAPID_FAILURES

ASSUME FailuresAssumption == MaxRapidFailures \in Nat \ {0}

Platforms == {"eglfs", "linuxfb"}

VARIABLES panel,     \* SIGNEROS_PANEL could be opened: the session's terminal
          broken,    \* the platforms on which the kiosk dies at once
          session,   \* where the supervision loop is
          platform, failures,
          rapid,     \* exits in a row, on one platform, of a kiosk that was young
          exit,      \* of the last kiosk: its status, and whether it was young
          kiosk,     \* the kiosk: forked, executed, older than RAPID_SECS
          fate,      \* the signal that is pending for it
          key,       \* there is a key in its memory
          file,      \* it has a file on the volume open
          watcher,   \* the daemon of signeros-datawatch is there
          mounting,  \* a mount(8) it started has not returned
          mount,     \* the volume: "lazy" is detached, but not let go of
          init       \* how far init is on the way down

machine == <<panel, broken>>
loop == <<session, platform, failures, rapid>>
process == <<exit, kiosk, fate, key, file>>
volume == <<watcher, mounting, mount>>
vars == <<machine, loop, process, volume, init>>

(* A kiosk that runs code of its own, which is also one that has its name.  *)
Running == kiosk \in {"young", "old"}

Supervising == session \notin {"gaveup", "dead"}

-----------------------------------------------------------------------------
(***************************************************************************)
(* The kiosk                                                               *)
(***************************************************************************)

(* The end of the process: its memory and its open files go with it, and a  *)
(* volume that was only waiting for the file goes, too.                     *)
Ends ==
    /\ kiosk' = "none" /\ fate' = "none" /\ key' = FALSE /\ file' = FALSE
    /\ mount' = IF mount = "lazy" /\ file THEN "none" ELSE mount
    /\ UNCHANGED <<machine, loop, watcher, mounting>>

(* setuidgid signer btc_signer_gui: the child becomes the kiosk.            *)
Exec ==
    /\ kiosk = "forked" /\ fate = "none"
    /\ kiosk' = "young"
    /\ UNCHANGED <<machine, loop, exit, fate, key, file, volume, init>>

(* RAPID_SECS pass.                                                         *)
Age ==
    /\ kiosk = "young" /\ platform \notin broken /\ fate # "fatal"
    /\ kiosk' = "old"
    /\ UNCHANGED <<machine, loop, exit, fate, key, file, volume, init>>

(* Nobody types a seed in the seconds after asking for the power to go.     *)
EnterKey ==
    /\ kiosk = "old" /\ fate = "none" /\ init = "up" /\ ~key
    /\ key' = TRUE
    /\ UNCHANGED <<machine, loop, exit, kiosk, fate, file, volume, init>>

ClearKey ==
    /\ key /\ fate # "fatal"
    /\ key' = FALSE
    /\ UNCHANGED <<machine, loop, exit, kiosk, fate, file, volume, init>>

OpenFile ==
    /\ kiosk = "old" /\ fate # "fatal" /\ mount \in {"mounted", "readonly"} /\ ~file
    /\ file' = TRUE
    /\ UNCHANGED <<machine, loop, exit, kiosk, fate, key, volume, init>>

CloseFile ==
    /\ file /\ fate # "fatal"
    /\ file' = FALSE
    /\ mount' = IF mount = "lazy" THEN "none" ELSE mount
    /\ UNCHANGED <<machine, loop, exit, kiosk, fate, key, watcher, mounting, init>>

(* The kiosk exits: with EXIT_POWEROFF because the operator asked for it,   *)
(* or in any other way.                                                     *)
KioskExit(status) ==
    /\ kiosk # "none" /\ fate # "fatal"
    /\ status = "poweroff" => Running /\ platform \notin broken
    /\ exit' = [status |-> status, rapid |-> kiosk # "old"]
    /\ Ends
    /\ UNCHANGED init

Crash == KioskExit("failure")

(* A signal that was sent to it takes effect.  It has no handler that would *)
(* run its destructors.                                                     *)
Die ==
    /\ fate # "none"
    /\ Ends
    /\ UNCHANGED <<exit, init>>

-----------------------------------------------------------------------------
(***************************************************************************)
(* signer-session                                                          *)
(***************************************************************************)

Start ==
    /\ session = "top"
    /\ session' = "wait"
    /\ kiosk' = "forked"
    /\ UNCHANGED <<machine, platform, failures, rapid, exit, fate, key, file,
                   volume, init>>

(* A mutant of Reaped: the kiosk is started in the background.              *)
NotWaitedFor == session = "wait"

(* The shell waits for the child it runs.                                   *)
Reaped == session = "wait" /\ kiosk = "none"

(* Status 42: exec secure-poweroff, which is the session's process from now *)
(* on.                                                                      *)
ObeyPoweroff ==
    /\ Reaped /\ exit.status = "poweroff"
    /\ session' = "poweroff"
    /\ UNCHANGED <<machine, platform, failures, rapid, process, volume, init>>

(* A mutant of FallBack: it starts over on the platform that failed.        *)
FallBackToTheSame ==
    /\ Reaped /\ exit.status # "poweroff"
    /\ exit.rapid /\ platform = "eglfs"
    /\ failures' = 0 /\ rapid' = 0
    /\ session' = "top"
    /\ UNCHANGED <<machine, platform, process, volume, init>>

(* "Try the other one once before giving up": no pause, and a new count.    *)
FallBack ==
    /\ Reaped /\ exit.status # "poweroff"
    /\ exit.rapid /\ platform = "eglfs"
    /\ platform' = "linuxfb" /\ failures' = 0 /\ rapid' = 0
    /\ session' = "top"
    /\ UNCHANGED <<machine, process, volume, init>>

(* A mutant of Count: an exit that was not rapid does not reset the count.  *)
CountForever ==
    /\ Reaped /\ exit.status # "poweroff"
    /\ ~(exit.rapid /\ platform = "eglfs")
    /\ failures' = IF exit.rapid THEN failures + 1 ELSE failures
    /\ rapid' = IF exit.rapid THEN rapid + 1 ELSE 0
    /\ session' = IF failures' >= MaxRapidFailures THEN "gaveup" ELSE "pause"
    /\ UNCHANGED <<machine, platform, process, volume, init>>

(* Any other exit is counted if it was rapid, and MAX_RAPID_FAILURES of     *)
(* them in a row end the session, with a message on the panel.              *)
Count ==
    /\ Reaped /\ exit.status # "poweroff"
    /\ ~(exit.rapid /\ platform = "eglfs")
    /\ failures' = IF exit.rapid THEN failures + 1 ELSE 0
    /\ rapid' = IF exit.rapid THEN rapid + 1 ELSE 0
    /\ session' = IF failures' >= MaxRapidFailures THEN "gaveup" ELSE "pause"
    /\ UNCHANGED <<machine, platform, process, volume, init>>

(* sleep 2                                                                  *)
Pause ==
    /\ session = "pause"
    /\ session' = "top"
    /\ UNCHANGED <<machine, platform, failures, rapid, process, volume, init>>

(* secure-poweroff: /sbin/poweroff asks init, which may be on its way.      *)
RequestPoweroff ==
    /\ session = "poweroff"
    /\ session' = "dead"
    /\ init' = IF init = "up" THEN "s99" ELSE init
    /\ UNCHANGED <<machine, platform, failures, rapid, process, volume>>

Supervise == Start \/ ObeyPoweroff \/ FallBack \/ Count \/ Pause \/ RequestPoweroff

(* ::ctrlaltdel of inittab.  Once the kiosk has muted the terminal, the     *)
(* kernel sees no keys.                                                     *)
CtrlAltDel ==
    /\ init = "up" /\ ~(panel /\ kiosk = "old")
    /\ init' = "s99"
    /\ UNCHANGED <<machine, loop, process, volume>>

-----------------------------------------------------------------------------
(***************************************************************************)
(* The watcher: what it does to the mount while the sticks are left alone  *)
(***************************************************************************)

WatcherMounts ==
    /\ watcher /\ mount = "none" /\ ~mounting
    /\ mounting' = TRUE
    /\ UNCHANGED <<machine, loop, process, watcher, mount, init>>

(* mount(8) returns, whether or not the shell that started it is alive.     *)
MountReturns ==
    /\ mounting
    /\ mounting' = FALSE
    /\ mount' \in {"none", "mounted"}
    /\ UNCHANGED <<machine, loop, process, watcher, init>>

-----------------------------------------------------------------------------
(***************************************************************************)
(* init on its way down                                                    *)
(***************************************************************************)

(* A mutant of TermSession: the kiosk is stopped, its supervisor is not.    *)
TermNobody ==
    /\ init = "s99"
    /\ init' = "pidof"
    /\ UNCHANGED <<machine, loop, process, volume>>

(* S99signer stop: start-stop-daemon ends the supervisor first, so that it  *)
(* cannot start a kiosk again.  With its terminal the kiosk goes as well.   *)
TermSession ==
    /\ init = "s99"
    /\ session' = IF Supervising THEN "dead" ELSE session
    /\ fate' = IF Supervising /\ panel /\ kiosk # "none" THEN "fatal" ELSE fate
    /\ init' = "pidof"
    /\ UNCHANGED <<machine, platform, failures, rapid, exit, kiosk, key, file, volume>>

(* A kiosk that pidof finds is sent SIGTERM; a child that was forked but    *)
(* has not become the kiosk yet is not found.                               *)
TermKiosk ==
    /\ init = "pidof"
    /\ fate' = IF Running /\ fate = "none" THEN "term" ELSE fate
    /\ init' = IF Running THEN "wait" ELSE "s01"
    /\ UNCHANGED <<machine, loop, exit, kiosk, key, file, volume>>

(* A mutant of WaitForKiosk: the seconds are not counted.                   *)
WaitForever ==
    /\ init = "wait" /\ ~Running
    /\ init' = "s01"
    /\ UNCHANGED <<machine, loop, process, volume>>

(* Eight seconds at the most, then SIGKILL.                                 *)
WaitForKiosk ==
    /\ init = "wait"
    /\ fate' = IF Running THEN "fatal" ELSE fate
    /\ init' = "s01"
    /\ UNCHANGED <<machine, loop, exit, kiosk, key, file, volume>>

(* S01mount-data stop.  A mount(8) the watcher started is not stopped.      *)
StopWatcher ==
    /\ init = "s01"
    /\ watcher' = FALSE
    /\ init' = "umount"
    /\ UNCHANGED <<machine, loop, process, mounting, mount>>

(* umount_data(): a volume with a file open is given a second.              *)
Umount ==
    /\ init = "umount"
    /\ IF mount = "mounted" /\ file
       THEN init' = "second" /\ UNCHANGED mount
       ELSE init' = "scrub" /\ mount' = IF mount = "mounted" THEN "none" ELSE mount
    /\ UNCHANGED <<machine, loop, process, watcher, mounting>>

LazyUmount ==
    /\ init = "second"
    /\ mount' = IF mount # "mounted" THEN mount ELSE IF file THEN "lazy" ELSE "none"
    /\ init' = "scrub"
    /\ UNCHANGED <<machine, loop, process, watcher, mounting>>

(* Overwriting the free memory takes longer than any system call on the     *)
(* stick, or a mount(8), that was under way when it began.                  *)
SlowScrub == ~mounting /\ fate # "fatal"

(* S00early stop                                                            *)
Scrub ==
    /\ init = "scrub" /\ SlowScrub
    /\ init' = "umountall"
    /\ UNCHANGED <<machine, loop, process, volume>>

(* A mutant of UmountAll: what S01mount-data did is taken to be enough.     *)
UmountNothing ==
    /\ init = "umountall"
    /\ init' = "killall"
    /\ UNCHANGED <<machine, loop, process, volume>>

(* sync; umount -a -r                                                       *)
UmountAll ==
    /\ init = "umountall"
    /\ mount' = IF mount # "mounted" THEN mount ELSE IF file THEN "readonly" ELSE "none"
    /\ init' = "killall"
    /\ UNCHANGED <<machine, loop, process, watcher, mounting>>

(* init ends every process that is left, and switches the machine off.      *)
KillAll ==
    /\ init = "killall"
    /\ session' = "dead" /\ watcher' = FALSE /\ mounting' = FALSE
    /\ kiosk' = "none" /\ fate' = "none" /\ key' = FALSE /\ file' = FALSE
    /\ mount' = IF mount = "lazy" THEN "none" ELSE mount
    /\ init' = "off"
    /\ UNCHANGED <<machine, platform, failures, rapid, exit>>

GoDown ==
    \/ TermSession \/ TermKiosk \/ WaitForKiosk
    \/ StopWatcher \/ Umount \/ LazyUmount
    \/ Scrub \/ UmountAll \/ KillAll

-----------------------------------------------------------------------------

Init ==
    /\ panel \in BOOLEAN /\ broken \in SUBSET Platforms
    /\ session = "top" /\ platform \in Platforms /\ failures = 0 /\ rapid = 0
    /\ exit = [status |-> "failure", rapid |-> FALSE]
    /\ kiosk = "none" /\ fate = "none" /\ key = FALSE /\ file = FALSE
    /\ watcher = TRUE /\ mounting = FALSE /\ mount \in {"none", "mounted"}
    /\ init = "up"

Kiosk ==
    \/ Exec \/ Age \/ EnterKey \/ ClearKey \/ OpenFile \/ CloseFile
    \/ KioskExit("poweroff") \/ Crash \/ Die

Next ==
    /\ init # "off"
    /\ Kiosk \/ Supervise \/ CtrlAltDel \/ WatcherMounts \/ MountReturns \/ GoDown

(* Processes that nothing blocks run on; a kiosk on a broken platform dies; *)
(* a fatal signal takes effect.  That a kiosk answers SIGTERM, closes its   *)
(* file or exits is not assumed.                                            *)
Fairness ==
    /\ WF_vars(init # "off" /\ Supervise)
    /\ WF_vars(init # "off" /\ (Exec \/ Age))
    /\ WF_vars(init # "off" /\ Running /\ platform \in broken /\ Crash)
    /\ WF_vars(init # "off" /\ fate = "fatal" /\ Die)
    /\ WF_vars(init # "off" /\ MountReturns)
    /\ WF_vars(GoDown)

Spec == Init /\ [][Next]_vars /\ Fairness

-----------------------------------------------------------------------------
(***************************************************************************)
(* Properties                                                              *)
(***************************************************************************)

Stages == {"up", "s99", "pidof", "wait", "s01", "umount", "second", "scrub",
           "umountall", "killall", "off"}

(* Types; with them, that there is never a second kiosk to lose track of,   *)
(* and that what belongs to a process ends with it.                         *)
TypeOK ==
    /\ panel \in BOOLEAN /\ broken \subseteq Platforms
    /\ session \in {"top", "wait", "pause", "poweroff", "gaveup", "dead"}
    /\ platform \in Platforms
    /\ failures \in 0..MaxRapidFailures /\ rapid \in 0..MaxRapidFailures
    /\ exit \in [status : {"poweroff", "failure"}, rapid : BOOLEAN]
    /\ kiosk \in {"none", "forked", "young", "old"}
    /\ fate \in {"none", "term", "fatal"} /\ key \in BOOLEAN /\ file \in BOOLEAN
    /\ watcher \in BOOLEAN /\ mounting \in BOOLEAN
    /\ mount \in {"none", "mounted", "lazy", "readonly"}
    /\ init \in Stages
    /\ session \notin {"wait", "dead"} => kiosk = "none"
    /\ kiosk = "none" => fate = "none" /\ ~key /\ ~file
    /\ mount = "lazy" => file

(* "Restart the kiosk if it crashes, and stop restarting it if that is      *)
(* clearly not working": the session only gives up with the platform that   *)
(* needs no GL stack, and after so many rapid exits with no longer run      *)
(* among them.                                                              *)
GivingUpIsLast ==
    session = "gaveup" => platform = "linuxfb" /\ rapid >= MaxRapidFailures

(* "Make sure the kiosk itself is gone before the data partition is         *)
(* unmounted underneath it": from then on no kiosk runs that a key was      *)
(* typed into, and nothing starts one.  Without a terminal there is one     *)
(* exception, the child that pidof could not see; it holds no key.          *)
KioskIsGone ==
    init \in Stages \ {"up", "s99", "pidof", "wait"} =>
        /\ session \in {"gaveup", "dead"}
        /\ kiosk = "none" \/ fate = "fatal" \/ (~panel /\ ~key)
        /\ init \in {"umountall", "killall", "off"} => ~key

(* When the power goes nothing is mounted for writing, nor about to be, also *)
(* when the watcher was stopped in the middle of mounting.                  *)
OffIsClean ==
    init \in {"killall", "off"} => mount # "mounted" /\ ~mounting

(* A request for the power to go, from the kiosk or the keyboard, is        *)
(* carried out, whatever the kiosk does.                                    *)
PoweroffEnds == session = "poweroff" \/ init # "up" ~> init = "off"

(* A kiosk that stops crashing is up for good, and one that never gets old  *)
(* is given up on: neither is the screen left dark nor does the loop run    *)
(* forever.                                                                 *)
Settles ==
    /\ <>[][kiosk' = "none" => kiosk = "none"]_vars
          => <>[](kiosk = "old" \/ session = "gaveup" \/ init # "up")
    /\ [](kiosk # "old") => <>(session = "gaveup" \/ init # "up")
=============================================================================
