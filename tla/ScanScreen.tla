----------------------------- MODULE ScanScreen -----------------------------
(***************************************************************************)
(* The list of transactions (ui/screen_scan.cpp), which is rebuilt under   *)
(* the operator: by a timer while the screen is up, and, up or not,        *)
(* whenever the kiosk's poll of the mount (ui/app_window.cpp) comes to     *)
(* another result.  Between two looks the stick may have been another one, *)
(* or in another machine.                                                  *)
(*                                                                         *)
(* A volume is what it holds: the time of last change of each file.  That  *)
(* the kiosk saves a file there is one step; StickWriter has the others.   *)
(***************************************************************************)
EXTENDS FileNames, FiniteSets

CONSTANTS ForeignNames,  \* of files that other machines put there
          Texts,         \* what the operator may type for a name
          Candidates,    \* what freeFileName() tries, in that order
          Times,
          Rank,          \* where a name stands in the alphabet
          MaxFiles,      \* bound: on one volume
          NoVolume, NoName

TypedNames == {Sanitised(Trimmed(t), PsbtSuffix) : t \in Texts} \ {<<>>}
Names == ForeignNames \cup TypedNames \cup ToSet(Candidates)

(* A name has a bounded length, so there are finitely many; what is         *)
(* proposed begins with "signed_" and ends with ".psbt".                    *)
ASSUME NameAssumption ==
    /\ IsFiniteSet(Names) /\ NoName \notin Names
    /\ Texts \subseteq Seq(STRING)
    /\ Candidates \in Seq(Seq(STRING)) /\ Candidates # <<>>
    /\ \A c \in ToSet(Candidates) : IsPsbtName(c)
ASSUME OrderAssumption ==
    /\ Times \subseteq Nat
    /\ Names \subseteq DOMAIN Rank /\ IsInjective(Rank)
    /\ \A n \in Names : Rank[n] \in Nat

VARIABLES volume,    \* what is mounted at MOUNT_POINT
          saved,     \* the names the kiosk saved there since it was mounted
          mounted,   \* dataMounted_
          screen,    \* "scan", or "away"
          timer,     \* autoRefresh_ is running
          list,      \* the rows of list_
          current,   \* the name in the current row
          button,    \* "Review transaction" is enabled
          complaint, \* errorLabel_ is up
          picked,    \* the row the operator last chose
          lost       \* a list without it was built since

medium == <<volume, saved>>
widgets == <<list, current, button, complaint>>
choice == <<picked, lost>>
vars == <<medium, mounted, screen, timer, widgets, choice>>

Volumes ==
    UNION {[S -> Times] : S \in {T \in SUBSET Names : Cardinality(T) <= MaxFiles}}
ASSUME VolumeAssumption == MaxFiles \in Nat /\ NoVolume \notin Volumes

Present(v) == IF v = NoVolume THEN {} ELSE DOMAIN v

-----------------------------------------------------------------------------
(***************************************************************************)
(* The stick                                                               *)
(***************************************************************************)

Mount ==
    /\ volume = NoVolume
    /\ volume' \in {v \in Volumes : DOMAIN v \subseteq ForeignNames}
    /\ UNCHANGED <<saved, mounted, screen, timer, widgets, choice>>

Unmount ==
    /\ volume # NoVolume
    /\ volume' = NoVolume /\ saved' = {}
    /\ UNCHANGED <<mounted, screen, timer, widgets, choice>>

(* writeResult(), from the sign screen: under the name that was typed, or   *)
(* the proposed one if nothing usable was; a name in use is refused.        *)
Save(text) ==
    /\ screen = "away" /\ volume # NoVolume
    /\ Cardinality(DOMAIN volume) < MaxFiles
    /\ LET typed == Sanitised(Trimmed(text), PsbtSuffix)
           name == IF typed = <<>> THEN FreeName(Candidates, DOMAIN volume) ELSE typed
       IN  /\ name \notin DOMAIN volume
           /\ \E t \in Times :
                volume' = [n \in DOMAIN volume \cup {name} |->
                             IF n = name THEN t ELSE volume[n]]
           /\ saved' = saved \cup {name}
    /\ UNCHANGED <<mounted, screen, timer, widgets, choice>>

-----------------------------------------------------------------------------
(***************************************************************************)
(* The list                                                                *)
(***************************************************************************)

(* A mutant of Kept: the selection stays in its row.                        *)
KeptByRow(rows) ==
    LET row == SelectInSeq(list, LAMBDA n : n = current)
    IN  IF rows = <<>> THEN NoName
        ELSE IF row \in DOMAIN rows THEN rows[row] ELSE rows[1]

(* "Preserve the selection across refreshes by name, not by row"; when the  *)
(* name is gone, the first row takes its place.                             *)
Kept(rows) ==
    IF rows = <<>> THEN NoName
    ELSE IF current \in ToSet(rows) THEN current ELSE rows[1]

(* A mutant of Refresh: without a volume it returns before updateButtons(). *)
RefreshHastily(isMounted, onTop) ==
    LET rows == IF isMounted /\ volume # NoVolume THEN Listed(volume, Rank) ELSE <<>>
    IN  /\ list' = rows
        /\ current' = Kept(rows)
        /\ button' = IF isMounted THEN onTop = "scan" /\ rows # <<>> ELSE button
        /\ complaint' = ~isMounted
        /\ lost' = (lost \/ (picked # NoName /\ picked \notin ToSet(rows)))
        /\ UNCHANGED picked

(* refresh(), with what dataMounted_ and the screen are by then.  Without a *)
(* volume the list is emptied, and with it the selection forgotten.         *)
Refresh(isMounted, onTop) ==
    LET rows == IF isMounted /\ volume # NoVolume THEN Listed(volume, Rank) ELSE <<>>
    IN  /\ list' = rows
        /\ current' = Kept(rows)
        /\ button' = (onTop = "scan" /\ rows # <<>>)
        /\ complaint' = ~isMounted
        /\ lost' = (lost \/ (picked # NoName /\ picked \notin ToSet(rows)))
        /\ UNCHANGED picked

(* pollDataMount(), and dataStatusChanged().                                *)
PollDataMount ==
    /\ mounted' = (volume # NoVolume)
    /\ IF mounted' # mounted
       THEN Refresh(mounted', screen)
       ELSE UNCHANGED <<widgets, choice>>
    /\ UNCHANGED <<medium, screen, timer>>

AutoRefresh ==
    /\ timer
    /\ Refresh(mounted, screen)
    /\ UNCHANGED <<medium, mounted, screen, timer>>

(* A mutant of Enter: the timer is not started again.                       *)
EnterWithoutTimer ==
    /\ screen = "away"
    /\ screen' = "scan"
    /\ Refresh(mounted, screen')
    /\ UNCHANGED <<medium, mounted, timer>>

(* showScan() and onEnter().                                                *)
Enter ==
    /\ screen = "away"
    /\ screen' = "scan" /\ timer' = TRUE
    /\ Refresh(mounted, screen')
    /\ UNCHANGED <<medium, mounted>>

(* leaveCurrent() and onLeave(): the list is left as it is.                 *)
Leave ==
    /\ screen = "scan"
    /\ screen' = "away" /\ timer' = FALSE
    /\ UNCHANGED <<medium, mounted, widgets, choice>>

(* A row is chosen, with a finger or the arrow keys.                        *)
Pick(name) ==
    /\ screen = "scan" /\ name \in ToSet(list)
    /\ current' = name /\ picked' = name /\ lost' = FALSE
    /\ button' = TRUE
    /\ UNCHANGED <<medium, mounted, screen, timer, list, complaint>>

(* openSelected(), by the button, a double click or Enter: the file is read *)
(* by its path, as it is now.  It may be gone, or be no PSBT.               *)
OpenSelected ==
    /\ screen = "scan" /\ current # NoName
    /\ \/ /\ complaint' = TRUE
          /\ UNCHANGED <<screen, timer>>
       \/ /\ current \in Present(volume)
          /\ complaint' = FALSE
          /\ screen' = "away" /\ timer' = FALSE
    /\ UNCHANGED <<medium, mounted, list, current, button, choice>>

-----------------------------------------------------------------------------

Init ==
    /\ volume = NoVolume /\ saved = {}
    /\ mounted = FALSE /\ screen = "away" /\ timer = FALSE
    /\ list = <<>> /\ current = NoName /\ button = FALSE /\ complaint = FALSE
    /\ picked = NoName /\ lost = FALSE

Stick == Mount \/ Unmount \/ \E t \in Texts : Save(t)

Next ==
    \/ Stick
    \/ PollDataMount \/ AutoRefresh
    \/ Enter \/ Leave \/ OpenSelected
    \/ \E n \in Names : Pick(n)

(* The two timers of an event loop that is not blocked.                     *)
Fairness == WF_vars(PollDataMount) /\ WF_vars(AutoRefresh)

Spec == Init /\ [][Next]_vars /\ Fairness

-----------------------------------------------------------------------------
(***************************************************************************)
(* Properties                                                              *)
(***************************************************************************)

(* Types; with them, that a row is current whenever there is one, that the  *)
(* button is enabled only for a row that is on screen, and that the screen  *)
(* says so while it knows of no volume.                                     *)
TypeOK ==
    /\ volume \in Volumes \cup {NoVolume} /\ saved \subseteq Present(volume)
    /\ mounted \in BOOLEAN /\ timer \in BOOLEAN /\ complaint \in BOOLEAN
    /\ screen \in {"scan", "away"}
    /\ ToSet(list) \subseteq Names /\ IsInjective(list)
    /\ current \in ToSet(list) \cup {NoName}
    /\ picked \in Names \cup {NoName} /\ lost \in BOOLEAN
    /\ current = NoName <=> list = <<>>
    /\ screen = "scan" =>
        /\ timer
        /\ button = (current # NoName)
        /\ ~mounted => complaint /\ ~button

(* "Selecting a different transaction than the one the operator picked      *)
(* would be unforgivable": whatever comes, goes or moves in the list, the   *)
(* current row is the one that was picked, unless a list was built that     *)
(* did not have it.                                                         *)
SelectionIsKept ==
    picked # NoName /\ ~lost => current = picked

(* "It is picked up automatically, there is no need to restart": when the   *)
(* stick is left alone and the screen stays up, the list comes to be what   *)
(* is on it, also of a stick that was exchanged between two polls.          *)
ListCatchesUp ==
    <>[](screen = "scan") /\ <>[][FALSE]_volume =>
        <>[](list = IF volume = NoVolume THEN <<>> ELSE Listed(volume, Rank))

(* What the kiosk saved as a transaction can be found there as one: under   *)
(* whatever was typed, it gets a name that the list shows.  The exception   *)
(* is a name that begins with a dot after all, which takes a mark that is   *)
(* dropped, then a blank, then a dot, with nothing between the two that is  *)
(* kept.                                                                    *)
SavedIsListed ==
    \A n \in saved :
        \/ n \in ToSet(Listed(volume, Rank))
        \/ /\ Head(n) = Dot
           /\ \A t \in Texts :
                 Sanitised(Trimmed(t), PsbtSuffix) = n =>
                    \E i, j \in 2..Len(t) :
                        /\ i < j /\ t[i] = Blank /\ t[j] = Dot
                        /\ \A k \in i + 1..j - 1 : t[k] \in Unwanted
=============================================================================
