------------------------------ MODULE Touchpad ------------------------------
(***************************************************************************)
(* ui/touchpad.cpp: the driver that turns the contacts of a pad with slots *)
(* into a pointer, scrolling and clicks.  The pad reports every change of  *)
(* its fingers and its button; the reports wait in the kernel while the    *)
(* kiosk's one thread is busy, as it is for a derivation or a write to the *)
(* stick.  Pads without slots, the other buttons and the sixteen slots     *)
(* that are kept at most are left out.                                     *)
(*                                                                         *)
(* One axis stands for both, and the gain is left out: a movement is the   *)
(* distance on the pad that it is computed from.  Time passes in ticks.    *)
(***************************************************************************)
EXTENDS Integers, Sequences, FiniteSets, FiniteSetsExt

CONSTANTS Slots,       \* of contacts_, in their order
          Positions,   \* on the axis
          Slop,        \* kTapSlop, as a distance
          JumpReject,  \* kJumpReject, as a distance
          TapTime,     \* kTapMs, in ticks
          MaxQueue     \* bound: the reports that wait

ASSUME PadAssumption ==
    /\ Slots \subseteq Nat /\ IsFiniteSet(Slots) /\ Positions \subseteq Nat
    /\ {Slop, JumpReject, TapTime, MaxQueue} \subseteq Nat
    /\ Slop < JumpReject

VARIABLES
    fingers,    \* the pad: where the contact of a slot is, or Up
    pressed,    \* the pad: the button under it
    gesture,    \* the pad: what happened since it was last untouched
    queue,      \* reports that were not read yet
    busy,       \* the thread is at something else
    attached,   \* notifier_ is enabled
    contacts,   \* contacts_
    buttonDown, \* physicalButtonDown_
    prevFingers, havePrev, prevX,
    tapCandidate, tapStart,
    tapTimer,   \* tapTimer_, up to one tick more than matters
    delivered   \* to the window, for the report that was handled last

pad == <<fingers, pressed, gesture>>
tap == <<tapCandidate, tapStart, tapTimer>>
driver == <<contacts, buttonDown, prevFingers, havePrev, prevX, tap>>
padVars == <<pad, queue, busy, attached, driver, delivered>>

Up == -1
Distance(x, y) == IF x < y THEN y - x ELSE x - y

Active(c) == {s \in Slots : c[s] # Up}

(* activeContacts()                                                         *)
ActiveContacts(c) == Cardinality(Active(c))

(* primaryPosition(): of the first slot that is in use.                     *)
PrimaryPosition(c) == c[Min(Active(c))]

Untouched == [s \in Slots |-> Up]

(* A gesture: how long the pad has been touched, where it began, whether    *)
(* the finger left the slop, jumped between two reports or was joined by    *)
(* another one or by the button, and whether the thread was busy meanwhile. *)
NoGesture == [held |-> 0, start |-> 0, strayed |-> FALSE, jumped |-> FALSE,
              joined |-> FALSE, clicked |-> FALSE, late |-> FALSE]

Nothing == [click |-> FALSE, move |-> 0, scroll |-> 0]

PadInit ==
    /\ fingers = Untouched /\ pressed = FALSE /\ gesture = NoGesture
    /\ queue = <<>> /\ busy = FALSE /\ attached = TRUE
    /\ contacts = Untouched /\ buttonDown = FALSE
    /\ prevFingers = 0 /\ havePrev = FALSE /\ prevX = 0
    /\ tapCandidate = FALSE /\ tapStart = 0 /\ tapTimer = 0
    /\ delivered = Nothing

-----------------------------------------------------------------------------
(***************************************************************************)
(* The pad and the clock                                                   *)
(***************************************************************************)

(* The gesture g goes on from the contacts c to d.                          *)
Continued(g, c, d, button) ==
    IF c = Untouched
    THEN [NoGesture EXCEPT !.start = IF d = Untouched THEN 0 ELSE PrimaryPosition(d),
                           !.joined = ActiveContacts(d) > 1,
                           !.clicked = button, !.late = busy]
    ELSE [g EXCEPT
            !.strayed = @ \/ (d # Untouched /\ Distance(PrimaryPosition(d), g.start) > Slop),
            !.jumped = @ \/ (d # Untouched
                               /\ Distance(PrimaryPosition(d), PrimaryPosition(c)) > JumpReject),
            !.joined = @ \/ ActiveContacts(d) > 1,
            !.clicked = @ \/ button,
            !.late = @ \/ busy]

(* The pad changes to the contacts d and a button, and says so.             *)
Reports(d, button) ==
    /\ attached /\ Len(queue) < MaxQueue
    /\ <<d, button>> # <<fingers, pressed>>
    /\ fingers' = d /\ pressed' = button
    /\ gesture' = Continued(gesture, fingers, d, button)
    /\ queue' = Append(queue, [fingers |-> d, pressed |-> button, gesture |-> gesture'])
    /\ delivered' = Nothing
    /\ UNCHANGED <<busy, attached, driver>>

(* A finger lands, moves or lifts.                                          *)
Touch(s, x) == Reports([fingers EXCEPT ![s] = x], pressed)

(* One lifts and another lands between two reports.                         *)
Exchange(s, t, x) ==
    /\ fingers[s] # Up /\ fingers[t] = Up /\ x # Up
    /\ Reports([fingers EXCEPT ![s] = Up, ![t] = x], pressed)

(* The pad is pressed down, which takes a finger, or comes up again.        *)
Press ==
    /\ pressed \/ fingers # Untouched
    /\ Reports(fingers, ~pressed)

(* Nothing waits while the thread is free.                                  *)
Tick ==
    /\ busy \/ queue = <<>>
    /\ gesture' = [gesture EXCEPT !.held = IF fingers = Untouched \/ @ > TapTime THEN @ ELSE @ + 1]
    /\ tapTimer' = IF tapTimer > TapTime THEN tapTimer ELSE tapTimer + 1
    /\ <<gesture, tapTimer>>' # <<gesture, tapTimer>>
    /\ delivered' = Nothing
    /\ UNCHANGED <<fingers, pressed, queue, busy, attached, contacts, buttonDown,
                   prevFingers, havePrev, prevX, tapCandidate, tapStart>>

(* The thread turns to something else.  A report that it leaves unread then *)
(* is as one that comes while it is away.                                   *)
TurnAway ==
    /\ ~busy /\ queue = <<>>
    /\ busy' = TRUE
    /\ gesture' = [gesture EXCEPT !.late = TRUE]
    /\ delivered' = Nothing
    /\ UNCHANGED <<fingers, pressed, queue, attached, driver>>

ComeBack ==
    /\ busy
    /\ busy' = FALSE
    /\ delivered' = Nothing
    /\ UNCHANGED <<pad, queue, attached, driver>>

-----------------------------------------------------------------------------
(***************************************************************************)
(* The driver                                                              *)
(***************************************************************************)

(* A mutant of TapAfterButton: the press leaves the tap alone.              *)
TapAfterButtonToo(button) == tapCandidate

(* handleEvent() of a BTN_LEFT: a press takes the tap with it.              *)
TapAfterButton(button) == tapCandidate /\ ~(button /\ ~buttonDown)

(* frameComplete(): a change in the number of fingers begins a tap, or ends *)
(* one with a click, or takes it away.                                      *)
Clicks(n, button) ==
    /\ n = 0 /\ prevFingers = 1
    /\ TapAfterButton(button) /\ ~button
    /\ tapTimer <= TapTime

Lands(n) == prevFingers = 0 /\ n = 1

TapAfterCount(n, button) ==
    IF n = prevFingers THEN TapAfterButton(button) ELSE Lands(n) /\ ~button

(* A mutant of Measured: another number of fingers changes nothing.         *)
MeasuredAcross(n) == havePrev /\ n > 0

(* There is a position to measure from: "Any change in how many fingers are *)
(* down invalidates the previous position".                                 *)
Measured(n) == havePrev /\ n = prevFingers /\ n > 0

(* One finger, or two with the button held, move the pointer, and two       *)
(* scroll.                                                                  *)
Moved(n, d, button) == IF n = 1 \/ (n = 2 /\ button) THEN d ELSE 0
Scrolled(n, d, button) == IF n = 2 /\ ~button THEN d ELSE 0

(* Further than a finger moves between two reports.                         *)
Far(x) == Distance(x, prevX) > JumpReject

(* readEvents(), handleEvent() and frameComplete() for one report.  A       *)
(* position that is too far off is taken for another finger's: it moves     *)
(* nothing, and the tap is not held against it.                             *)
ReadReport ==
    /\ attached /\ ~busy /\ queue # <<>>
    /\ LET r == Head(queue)
           n == ActiveContacts(r.fingers)
           x == IF n = 0 THEN prevX ELSE PrimaryPosition(r.fingers)
           moves == Measured(n) /\ ~Far(x)
           d == IF moves THEN x - prevX ELSE 0
       IN  /\ contacts' = r.fingers /\ buttonDown' = r.pressed
           /\ prevFingers' = n
           /\ prevX' = x
           /\ havePrev' = (n > 0)
           /\ tapStart' = IF Lands(n) THEN x ELSE tapStart
           /\ tapTimer' = IF Lands(n) THEN 0 ELSE tapTimer
           /\ tapCandidate' =
                 (TapAfterCount(n, r.pressed) /\ (moves => Distance(x, tapStart) <= Slop))
           /\ delivered' = [click |-> Clicks(n, r.pressed),
                            move |-> Moved(n, d, r.pressed),
                            scroll |-> Scrolled(n, d, r.pressed)]
    /\ queue' = Tail(queue)
    /\ UNCHANGED <<pad, busy, attached>>

(* readEvents() meets an error: the node is not listened to any more.       *)
Detach ==
    /\ attached /\ ~busy
    /\ attached' = FALSE
    /\ delivered' = Nothing
    /\ UNCHANGED <<pad, queue, busy, driver>>

Pad ==
    \/ \E s \in Slots, x \in Positions \cup {Up} : Touch(s, x)
    \/ \E s, t \in Slots, x \in Positions : Exchange(s, t, x)
    \/ Press

PadNext == Pad \/ Tick \/ TurnAway \/ ComeBack \/ ReadReport \/ Detach

PadSpec == PadInit /\ [][PadNext]_padVars

-----------------------------------------------------------------------------
(***************************************************************************)
(* Properties                                                              *)
(***************************************************************************)

Handles == queue # <<>> /\ queue' = Tail(queue)

(* The pad is untouched again with the report that is handled.              *)
Ends(r) == contacts # Untouched /\ r.fingers = Untouched

(* "Tap-to-click: a contact shorter than this, that moved less than         *)
(* kTapSlop of the pad, is a click", over all the reports of a touch: one   *)
(* that the thread was free for, and that did not jump, ends with a click   *)
(* exactly when one finger was down, for no longer than a tap and without   *)
(* leaving the slop.                                                        *)
(* And whatever the thread was at, a touch that the button or a second      *)
(* finger was part of ends with none: "Without cancelling the tap here, a   *)
(* short physical click emits its own press/release and then a second,      *)
(* phantom click when the finger comes up - on a screen whose buttons       *)
(* advance an irreversible signing flow."                                   *)
TapIsRecognised ==
    [][Handles =>
         LET r == Head(queue)
             g == r.gesture
         IN  /\ delivered'.click => Ends(r) /\ ~g.joined /\ ~g.clicked
             /\ Ends(r) /\ ~g.late /\ ~g.jumped =>
                   (delivered'.click <=>
                      ~g.joined /\ ~g.clicked /\ ~g.strayed /\ g.held <= TapTime)]_padVars

(* However many fingers come and go between two reports, the pointer and    *)
(* the scroll follow one finger: by what the first finger did between the   *)
(* two reports, or, where it was lifted and another put down at once, by no *)
(* more than a finger can do.  "Without this, resting a second finger to    *)
(* scroll makes the pointer jump to wherever that finger landed."           *)
PointerFollowsFinger ==
    [][Handles =>
         LET d == delivered'.move + delivered'.scroll
             now == Head(queue).fingers
             same == Active(contacts) = Active(now)
         IN  d # 0 =>
               /\ Distance(0, d) <= JumpReject
               /\ ActiveContacts(now) = ActiveContacts(contacts)
               /\ same => d = PrimaryPosition(now) - PrimaryPosition(contacts)
               /\ delivered'.move = 0 \/ delivered'.scroll = 0]_padVars

=============================================================================
