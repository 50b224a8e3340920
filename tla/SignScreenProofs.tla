-------------------------- MODULE SignScreenProofs --------------------------
(***************************************************************************)
(* What the operator may rely on while signing, for every set of masters,  *)
(* files, texts and passphrases and for both kinds of keyboard; and, in    *)
(* the second half, on the clicks that reach these pages, for any pad.     *)
(***************************************************************************)
EXTENDS SignScreen, Touchpad, PsbtEngineProofs, FiniteSetTheorems, SequenceTheorems,
        WellFoundedInduction, TLAPS

(* The confirmation page, as long as the check it was built on stands, is   *)
(* no older than the engine.                                                *)
ConfirmIsCurrent ==
    OnSignPage("confirm") /\ keyChecked => shown = [summary |-> summary, key |-> key]

ScreenInv == CheckedKeyIsTyped /\ ConfirmIsCurrent /\ NothingLeftBehind

-----------------------------------------------------------------------------
LEMMA InitIsInductive == ScreenInit => ScreenInv
BY DEF ScreenInit, Init, ScreenInv, CheckedKeyIsTyped, ConfirmIsCurrent,
       NothingLeftBehind, OnSignPage

(* No screen but the sign screen has a checked key.                         *)
LEMMA CheckedOnSignOnly ==
    ASSUME ScreenInv, keyChecked
    PROVE  screen = "sign" /\ page \notin {"name", "result"}
BY DEF ScreenInv, CheckedKeyIsTyped, NothingLeftBehind

(* Leaving and coming back: every way out wipes, and nothing is checked on  *)
(* the way in.                                                              *)
LEMMA NavigationKeeps ==
    ASSUME ScreenInv,
           \/ ShowHome \/ ShowScan \/ ShowSign \/ ShowShutdown \/ BackToInspect
           \/ \E f \in Files : OpenSelected(f)
    PROVE  ScreenInv'
<1> USE DEF ScreenInv, CheckedKeyIsTyped, ConfirmIsCurrent, NothingLeftBehind, OnSignPage
<1>1. CASE ShowHome
  <2>1. ~keyChecked'
    BY <1>1, CheckedOnSignOnly, Zenon DEF ShowHome
  <2> QED
    BY <1>1, <2>1 DEF ShowHome
<1>2. CASE ShowScan
  BY <1>2 DEF ShowScan
<1>3. CASE ShowSign
  BY <1>3 DEF ShowSign, Refresh
<1>4. CASE ShowShutdown
  <2>1. ~keyChecked'
    BY <1>4, CheckedOnSignOnly, Zenon DEF ShowShutdown, LeaveCurrent, WipeSecrets
  <2> QED
    BY <1>4, <2>1 DEF ShowShutdown, LeaveCurrent, WipeSecrets
<1>5. CASE BackToInspect
  BY <1>5 DEF BackToInspect, WipeSecrets
<1>6. CASE \E f \in Files : OpenSelected(f)
  BY <1>6 DEF OpenSelected, Load
<1> QED
  BY <1>1, <1>2, <1>3, <1>4, <1>5, <1>6

(* Every edit, from either keyboard and on every page, withdraws the check. *)
LEMMA EditKeeps ==
    ASSUME ScreenInv,
           \/ \E t \in Texts \cup Passphrases : TypeCharacter(t)
           \/ \E t \in Texts \cup Passphrases \cup {Empty} : Erase(t)
           \/ \E t \in Texts : ApplySuggestion(t)
    PROVE  ScreenInv'
<1>1. /\ screen = "sign" /\ page # "name" /\ UNCHANGED <<screen, page>>
      /\ ~keyChecked'
      /\ key' = key \/ key' = NoKey
  BY DEF TypeCharacter, Erase, ApplySuggestion, KeystrokesReachBuffers, ClearKey, vars
<1> QED
  BY <1>1 DEF ScreenInv, CheckedKeyIsTyped, ConfirmIsCurrent, NothingLeftBehind, OnSignPage

(* The switches of the entry page either change nothing that was checked or *)
(* withdraw the check; checking derives the key from what is typed.         *)
LEMMA EntryKeeps ==
    ASSUME ScreenInv,
           \/ \E src \in Sources : SetKeySource(src)
           \/ \E f \in Fields : SetField(f)
           \/ SetOskVisible \/ CheckKeyRefused \/ CheckKey
    PROVE  ScreenInv'
<1> USE DEF ScreenInv, CheckedKeyIsTyped, ConfirmIsCurrent, NothingLeftBehind, OnSignPage,
            PassphraseReady, TypedMaster
<1>1. ASSUME NEW src \in Sources, SetKeySource(src) PROVE ScreenInv'
  BY <1>1 DEF SetKeySource, Refresh
<1>2. ASSUME NEW f \in Fields, SetField(f) PROVE ScreenInv'
  BY <1>2 DEF SetField, Refresh
<1>3. CASE SetOskVisible
  BY <1>3 DEF SetOskVisible
<1>4. CASE CheckKeyRefused
  BY <1>4 DEF CheckKeyRefused
<1>5. CASE CheckKey
  BY <1>5 DEF CheckKey, SetKey, ClearKey
<1> QED
  BY <1>1, <1>2, <1>3, <1>4, <1>5

(* The pages after it.                                                      *)
LEMMA LaterPagesKeep ==
    ASSUME ScreenInv,
           ShowConfirm \/ BackToEntry \/ DoSign \/ DoSignFails \/ DoWrite
    PROVE  ScreenInv'
<1> USE DEF ScreenInv, CheckedKeyIsTyped, ConfirmIsCurrent, NothingLeftBehind, OnSignPage,
            PassphraseReady, TypedMaster
<1>1. CASE ShowConfirm
  BY <1>1 DEF ShowConfirm
<1>2. CASE BackToEntry
  BY <1>2 DEF BackToEntry
<1>3. CASE DoSign
  BY <1>3 DEF DoSign, SignNow, WipeSecrets
<1>4. CASE DoSignFails
  BY <1>4 DEF DoSignFails, SignNow, SignRejected
<1>5. CASE DoWrite
  BY <1>5 DEF DoWrite
<1> QED
  BY <1>1, <1>2, <1>3, <1>4, <1>5

LEMMA NextKeeps == ScreenInv /\ [ScreenNext]_screenVars => ScreenInv'
<1> SUFFICES ASSUME ScreenInv, [ScreenNext]_screenVars PROVE ScreenInv'
  OBVIOUS
<1>1. CASE UNCHANGED screenVars
  BY <1>1 DEF screenVars, vars, ScreenInv, CheckedKeyIsTyped, ConfirmIsCurrent, NothingLeftBehind,
              OnSignPage, PassphraseReady, TypedMaster
<1> QED
  BY <1>1, NavigationKeeps, EditKeeps, EntryKeeps, LaterPagesKeep DEF ScreenNext

LEMMA ScreenInvariance == ScreenSpec => []ScreenInv
BY InitIsInductive, NextKeeps, PTL DEF ScreenSpec

-----------------------------------------------------------------------------
(* A checked key is the one that is typed, through every edit, switch and   *)
(* page turn.                                                               *)
THEOREM CheckedIsTyped == ScreenSpec => []CheckedKeyIsTyped
<1>1. ScreenInv => CheckedKeyIsTyped
  BY DEF ScreenInv
<1> QED
  BY <1>1, ScreenInvariance, PTL

(* Whichever way the sign screen is left, no secret and no key remain.      *)
THEOREM NothingRemains == ScreenSpec => []NothingLeftBehind
<1>1. ScreenInv => NothingLeftBehind
  BY DEF ScreenInv
<1> QED
  BY <1>1, ScreenInvariance, PTL

-----------------------------------------------------------------------------
(***************************************************************************)
(* The engine under the screen.  What the screens do to it in one step is  *)
(* one of its operations or two: clearKey() after unload(), or after       *)
(* sign().  So its invariant, and all that follows from it, holds here too.*)
(***************************************************************************)
Typed ==
    /\ source \in Sources
    /\ words \in Texts \cup {Empty}
    /\ pass \in Passphrases \cup {Empty}

(* clearKey() and unload().                                                 *)
Abandon == psbt' = NoPsbt /\ key' = NoKey /\ summary' = EmptySummary

(* sign() and clearKey().                                                   *)
SignAndForget ==
    /\ MaySign
    /\ psbt' = WithSignatures(psbt, key, SignableBy(psbt, key))
    /\ key' = NoKey
    /\ summary' = Forgotten(Summarise(psbt', key))

LEMMA TypedMasterIsMaster ==
    ASSUME Typed
    PROVE  TypedMaster \in Masters \cup {NoKey}
<1>1. CASE words # Empty
  <2> DEFINE p == IF source = "mnemonic" THEN pass ELSE Empty
  <2>1. <<source, words, p>> \in Sources \X Texts \X (Passphrases \cup {Empty})
    BY <1>1 DEF Typed
  <2>2. MasterOf[<<source, words, p>>] \in Masters \cup {NoKey}
    BY <2>1, MasterAssumption
  <2> QED
    BY <1>1, <2>2 DEF TypedMaster
<1> QED
  BY <1>1 DEF TypedMaster

LEMMA TypedKeeps == Typed /\ [ScreenNext]_screenVars => Typed'
<1> SUFFICES ASSUME Typed, [ScreenNext]_screenVars PROVE Typed'
  OBVIOUS
<1> USE DEF Typed
<1>1. ASSUME NEW t, Edit(t), UNCHANGED source PROVE Typed'
  BY <1>1 DEF Edit
<1>2. CASE \/ \E t \in Texts \cup Passphrases : TypeCharacter(t)
           \/ \E t \in Texts \cup Passphrases \cup {Empty} : Erase(t)
           \/ \E t \in Texts : ApplySuggestion(t)
  BY <1>1, <1>2 DEF TypeCharacter, Erase, ApplySuggestion
<1>3. ASSUME NEW src \in Sources, SetKeySource(src) PROVE Typed'
  BY <1>3 DEF SetKeySource
<1>4. CASE ShowSign
  BY <1>4 DEF ShowSign, Sources
<1>5. CASE ShowHome \/ ShowScan \/ BackToInspect \/ DoSign
  BY <1>5 DEF ShowHome, ShowScan, BackToInspect, DoSign, WipeSecrets
<1>6. CASE ShowShutdown
  BY <1>6 DEF ShowShutdown, LeaveCurrent, WipeSecrets
<1>7. CASE \/ \E f \in Files : OpenSelected(f)
           \/ \E f \in Fields : SetField(f)
           \/ SetOskVisible \/ CheckKeyRefused \/ CheckKey \/ ShowConfirm
           \/ BackToEntry \/ DoSignFails \/ DoWrite
  BY <1>7 DEF OpenSelected, SetField, SetOskVisible, CheckKeyRefused, CheckKey,
              ShowConfirm, BackToEntry, DoSignFails, DoWrite
<1>8. CASE UNCHANGED screenVars
  BY <1>8 DEF screenVars
<1> QED
  BY <1>2, <1>3, <1>4, <1>5, <1>6, <1>7, <1>8 DEF ScreenNext

(* What a step of the screens is for the engine.                            *)
LEMMA EngineSteps ==
    ASSUME Typed, [ScreenNext]_screenVars
    PROVE  [Next]_vars \/ Abandon \/ SignAndForget
<1>1. CASE ShowHome \/ ShowScan
  BY <1>1 DEF ShowHome, ShowScan, Abandon
<1>2. ASSUME NEW f \in Files, OpenSelected(f) PROVE Next
  BY <1>2 DEF OpenSelected, Next
<1>3. CASE ShowShutdown \/ BackToInspect
  <2>1. ClearKey \/ UNCHANGED vars
    BY <1>3 DEF ShowShutdown, BackToInspect, LeaveCurrent, WipeSecrets, ClearKey, vars
  <2> QED
    BY <2>1 DEF Next
<1>4. ASSUME NEW t, TypeCharacter(t) PROVE [Next]_vars
  BY <1>4 DEF TypeCharacter, Next
<1>5. CASE CheckKey
  BY <1>5, TypedMasterIsMaster DEF CheckKey, Next
<1>6. CASE DoSign
  BY <1>6 DEF DoSign, SignNow, WipeSecrets, SignAndForget
<1>7. CASE DoSignFails
  BY <1>7 DEF DoSignFails, Next
<1>8. CASE \/ \E t \in Texts \cup Passphrases \cup {Empty} : Erase(t)
           \/ \E t \in Texts : ApplySuggestion(t)
           \/ \E src \in Sources : SetKeySource(src)
           \/ \E f \in Fields : SetField(f)
           \/ ShowSign \/ SetOskVisible \/ CheckKeyRefused \/ ShowConfirm
           \/ BackToEntry \/ DoWrite \/ UNCHANGED screenVars
  <2>1. UNCHANGED vars
    BY <1>8 DEF Erase, ApplySuggestion, SetKeySource, SetField, ShowSign,
                SetOskVisible, CheckKeyRefused, ShowConfirm, BackToEntry, DoWrite,
                screenVars, vars
  <2> QED
    BY <2>1
<1> QED
  BY <1>1, <1>2, <1>3, <1>4, <1>5, <1>6, <1>7, <1>8 DEF ScreenNext

LEMMA AbandonKeeps == IInv /\ Abandon => IInv'
<1> SUFFICES ASSUME Abandon PROVE IInv'
  OBVIOUS
<1>1. /\ DOMAIN summary'.outputs = {} /\ ~summary'.safeToSign
      /\ summary'.verifiedChange = {} /\ summary'.leaving = {}
  BY DEF Abandon, EmptySummary
<1>2. Labelled(summary'.outputs, "Verified") = {}
  BY <1>1 DEF Labelled
<1>3. TypeOK'
  BY EmptySummaryType DEF Abandon, TypeOK
<1> QED
  BY <1>1, <1>2, <1>3
  DEF Abandon, IInv, Blank, TotalsFollowLabels, SummaryIsCurrent

LEMMA SignAndForgetKeeps == IInv /\ SignAndForget => IInv'
<1> SUFFICES ASSUME IInv, SignAndForget PROVE IInv'
  OBVIOUS
<1> DEFINE s == Summarise(psbt', key)
<1>1. psbt \in Psbts /\ key \in Masters /\ key \in Slot
  BY DEF IInv, TypeOK, SignAndForget, MaySign, Slot
<1>2. psbt' \in Psbts
  BY <1>1, WithSignaturesType DEF SignAndForget
<1>3. s \in Summaries
  BY <1>1, <1>2, SummariseType
<1>4. ~psbt'.complete => Blank(s)
  BY <1>1, <1>2, SummariseFacts
<1>5. summary' = Forgotten(s) /\ key' = NoKey
  BY DEF SignAndForget
<1> HIDE DEF s
<1>6. /\ summary' \in Summaries
      /\ DOMAIN summary'.outputs = DOMAIN s.outputs
      /\ Labelled(summary'.outputs, "Verified") = {}
      /\ summary'.verifiedChange = {}
      /\ summary'.leaving = DOMAIN s.outputs
  BY <1>3, <1>5, ForgottenType
<1>7. summary'.safeToSign = s.safeToSign
  BY <1>3, <1>5 DEF Forgotten, Summaries
<1>8. TypeOK'
  BY <1>2, <1>5, <1>6 DEF TypeOK
<1>9. (psbt = NoPsbt \/ ~psbt.complete => Blank(summary))'
  BY <1>2, <1>4, <1>6, <1>7, FileAssumption DEF Blank
<1>10. TotalsFollowLabels'
  BY <1>6 DEF TotalsFollowLabels
<1>11. SummaryIsCurrent'
  BY <1>5 DEF SummaryIsCurrent
<1> QED
  BY <1>6, <1>8, <1>9, <1>10, <1>11 DEF IInv

LEMMA EngineInvariance == ScreenSpec => [](IInv /\ Typed)
<1>1. ScreenInit => IInv /\ Typed
  <2> SUFFICES ASSUME ScreenInit PROVE IInv /\ Typed
    OBVIOUS
  <2>1. Typed
    BY DEF ScreenInit, Typed, Sources
  <2> QED
    BY <2>1, EngineInit DEF ScreenInit
<1>2. (IInv /\ Typed) /\ [ScreenNext]_screenVars => (IInv /\ Typed)'
  BY TypedKeeps, EngineSteps, InvariantStep, AbandonKeeps, SignAndForgetKeeps
<1> QED
  BY <1>1, <1>2, PTL DEF ScreenSpec

(* Whatever the operator does on the screens, at every moment: the labels   *)
(* and totals that inspect and confirm draw are current for the PSBT and    *)
(* the key, and "Verified" is said only of an output that pays or names it. *)
THEOREM ScreensShowTheTruth ==
    ScreenSpec => [](TypeOK /\ TotalsFollowLabels /\ SummaryIsCurrent /\ VerifiedIsEarned)
<1>1. IInv => TypeOK /\ TotalsFollowLabels /\ SummaryIsCurrent /\ VerifiedIsEarned
  BY LabelsAreEarned DEF IInv
<1> QED
  BY <1>1, EngineInvariance, PTL

(* A page that shows the engine's summary while it may sign tells of every  *)
(* output whether it leaves the wallet or comes back.                       *)
LEMMA CurrentPageIsTrue ==
    ASSUME IInv, MaySign, shown = [summary |-> summary, key |-> key]
    PROVE  ShownIsTrue
<1>1. psbt # NoPsbt /\ key # NoKey /\ psbt.complete /\ psbt \in Psbts /\ key \in Slot
  BY DEF MaySign, IInv, Blank, TypeOK, Slot
<1>2. shown.summary = summary
  OBVIOUS
<1>3. summary.outputs = LabelsOf(psbt, key)
  BY <1>1 DEF IInv, SummaryIsCurrent
<1>4. DOMAIN summary.outputs = DOMAIN psbt.outputs
  BY <1>3 DEF LabelsOf
<1>5. ASSUME NEW j \in DOMAIN psbt.outputs, j \notin summary.leaving
      PROVE  \E path \in Paths : PaysOrNames(<<key, path>>, psbt.outputs[j].script)
  <2>1. j \in Labelled(summary.outputs, "Verified")
    BY <1>4, <1>5 DEF IInv, TotalsFollowLabels
  <2>2. j \in DOMAIN summary.outputs /\ summary.outputs[j].ownership = "Verified"
    BY <2>1 DEF Labelled
  <2> QED
    BY <2>2, LabelsAreEarned DEF VerifiedIsEarned
<1> QED
  BY <1>2, <1>3, <1>5 DEF ShownIsTrue

(* A signature is made with the key and for the summary that are on the     *)
(* confirmation page, with the key that is typed; and what the page says of *)
(* the outputs is true, of a transaction that passes every check.           *)
THEOREM SignaturesAreShown == ScreenSpec => SignedAsShown
<1> DEFINE Good == /\ OnSignPage("confirm")
                   /\ shown = [summary |-> summary, key |-> key]
                   /\ key = TypedMaster
                   /\ ShownIsTrue
                   /\ Device!Authorisable(psbt, key)
<1>1. ScreenInv /\ (IInv /\ Typed) /\ [ScreenNext]_screenVars =>
        [psbt # NoPsbt /\ psbt' # NoPsbt /\ screen' # "inspect" /\ psbt' # psbt =>
            Good]_screenVars
  <2> SUFFICES ASSUME ScreenInv, IInv, ScreenNext, psbt # NoPsbt, psbt' # NoPsbt,
                      screen' # "inspect", psbt' # psbt
               PROVE  Good
    BY DEF screenVars, vars
  <2>1. DoSign \/ DoSignFails
    BY DEF ScreenNext, ShowHome, ShowScan, OpenSelected, ShowSign, ShowShutdown,
           TypeCharacter, Erase, ApplySuggestion, SetKeySource, SetField,
           SetOskVisible, CheckKeyRefused, CheckKey, BackToInspect, ShowConfirm,
           BackToEntry, DoWrite, LeaveCurrent, WipeSecrets, SetKey, ClearKey, vars
  <2>2. OnSignPage("confirm") /\ keyChecked /\ MaySign
    BY <2>1 DEF DoSign, DoSignFails, SignNow
  <2>3. shown = [summary |-> summary, key |-> key] /\ key = TypedMaster
    BY <2>2 DEF ScreenInv, CheckedKeyIsTyped, ConfirmIsCurrent
  <2> QED
    BY <2>2, <2>3, CurrentPageIsTrue, MaySignIsAuthorised
<1> QED
  BY <1>1, ScreenInvariance, EngineInvariance, PTL DEF ScreenSpec, SignedAsShown

(***************************************************************************)
(* The touchpad driver, which the pages above are clicked with.            *)
(*                                                                         *)
(* The reports that wait are a chain: each is the pad's next one after the *)
(* one before it, the first follows the report that was handled last, and  *)
(* the last is where the pad is now.  The driver's state is that of the    *)
(* gesture as of the report it handled last.                               *)
(***************************************************************************)

Hands == [Slots -> Positions \cup {Up}]

Gestures == [held : Nat, start : Int, strayed : BOOLEAN, jumped : BOOLEAN,
             joined : BOOLEAN, clicked : BOOLEAN, late : BOOLEAN]

Reported == [fingers : Hands, pressed : BOOLEAN, gesture : Gestures]

PadTypes ==
    /\ fingers \in Hands /\ contacts \in Hands
    /\ pressed \in BOOLEAN /\ buttonDown \in BOOLEAN /\ busy \in BOOLEAN
    /\ gesture \in Gestures /\ queue \in Seq(Reported)
    /\ prevX \in Int /\ tapStart \in Int /\ tapTimer \in Nat /\ tapCandidate \in BOOLEAN
    /\ prevFingers = ActiveContacts(contacts)
    /\ havePrev = (contacts # Untouched)
    /\ havePrev => prevX = PrimaryPosition(contacts)

(* The report b is the next one after a.                                    *)
Follows(a, b) ==
    LET g == a.gesture
        h == b.gesture
        x == PrimaryPosition(b.fingers)
        down == b.fingers # Untouched
    IN  IF a.fingers = Untouched
        THEN /\ h.held = 0 /\ ~h.strayed /\ ~h.jumped
             /\ down => h.start = x
             /\ h.joined <=> ActiveContacts(b.fingers) > 1
             /\ h.clicked <=> b.pressed
        ELSE /\ h.start = g.start
             /\ h.strayed <=> g.strayed \/ (down /\ Distance(x, g.start) > Slop)
             /\ h.jumped <=> g.jumped \/ (down /\ Distance(x,
                                PrimaryPosition(a.fingers)) > JumpReject)
             /\ h.joined <=> g.joined \/ ActiveContacts(b.fingers) > 1
             /\ h.clicked <=> g.clicked \/ b.pressed
             /\ ~h.late => ~g.late /\ h.held = g.held

(* b is what the report a said, but for the time that the thread was away.  *)
Stands(a, b) ==
    LET g == a.gesture
        h == b.gesture
    IN  /\ a.fingers = b.fingers /\ a.pressed = b.pressed
        /\ h.start = g.start /\ h.strayed = g.strayed /\ h.jumped = g.jumped
        /\ h.joined = g.joined /\ h.clicked = g.clicked
        /\ ~h.late => ~g.late /\ h.held = g.held

(* What the driver keeps of a tap is so, where g is the gesture as of the   *)
(* report that it handled last.                                             *)
Agrees(g) ==
    /\ busy => g.late
    /\ tapCandidate => contacts # Untouched /\ ~g.joined /\ ~g.clicked
    /\ contacts # Untouched =>
         /\ ActiveContacts(contacts) > 1 => g.joined
         /\ buttonDown => g.clicked
         /\ ~g.joined => tapStart = g.start
         /\ ~g.joined /\ ~g.late => tapTimer = g.held
         /\ ~g.jumped => (tapCandidate <=> ~g.joined /\ ~g.clicked /\ ~g.strayed)

Handled(g) == [fingers |-> contacts, pressed |-> buttonDown, gesture |-> g]
Before(g, i) == IF i = 1 THEN Handled(g) ELSE queue[i - 1]
AtPad == [fingers |-> fingers, pressed |-> pressed, gesture |-> gesture]

Linked(g) ==
    /\ \A i \in 1..Len(queue) : Follows(Before(g, i), queue[i])
    /\ Stands(Before(g, Len(queue) + 1), AtPad)

PadInv ==
    /\ PadTypes
    /\ busy => gesture.late
    /\ \E g \in Gestures : Agrees(g) /\ Linked(g)

-----------------------------------------------------------------------------
LEMMA LeastSlot ==
    ASSUME NEW T \in SUBSET Nat, T # {}
    PROVE  Min(T) \in T
<1>1. PICK m \in T : \A n \in T : <<n, m>> \notin OpToRel(<, Nat)
  BY NatLessThanWellFounded, WFMin
<1>2. ASSUME NEW n \in T
      PROVE  m <= n
  <2>1. m \in Nat /\ n \in Nat
    OBVIOUS
  <2>2. ~(n < m)
    BY <1>1, <2>1 DEF OpToRel
  <2> QED
    BY <2>1, <2>2
<1>3. \E l \in T : \A n \in T : l <= n
  BY <1>2
<1> QED
  BY <1>3, Zenon DEF Min

LEMMA HandIs ==
    ASSUME NEW d \in Hands
    PROVE  /\ ActiveContacts(d) \in Nat
           /\ ActiveContacts(d) = 0 <=> d = Untouched
           /\ d # Untouched => PrimaryPosition(d) \in Positions
<1> DEFINE A == Active(d)
<1>1. /\ A \subseteq Slots /\ A \subseteq Nat /\ IsFiniteSet(Slots)
  <2>1. IsFiniteSet(Slots) => IsFiniteSet(Slots)
    BY Zenon DEF IsFiniteSet, IsFiniteSet
  <2> QED
    BY PadAssumption, <2>1 DEF Active
<1>2. A = {} <=> d = Untouched
  <2>1. d = [s \in Slots |-> d[s]]
    BY DEF Hands
  <2> QED
    BY <2>1 DEF Active, Untouched
<1>3. ActiveContacts(d) = Cardinality(A)
  <2>1. Cardinality(A) = Cardinality(A)
    BY Zenon DEF Cardinality, Cardinality
  <2> QED
    BY <2>1 DEF ActiveContacts
<1>4. ASSUME A # {}
      PROVE  PrimaryPosition(d) \in Positions
  <2>1. Min(A) \in A
    <3> HIDE DEF A
    <3> QED
      BY <1>1, <1>4, LeastSlot
  <2>2. d[Min(A)] \in Positions
    BY <1>1, <2>1 DEF Hands, Active
  <2> QED
    BY <2>2 DEF PrimaryPosition
<1> HIDE DEF A
<1>5. IsFiniteSet(A) /\ Cardinality(A) \in Nat /\ (Cardinality(A) = 0 <=> A = {})
  BY <1>1, FS_Subset, FS_CardinalityType, FS_EmptySet
<1> QED
  BY <1>2, <1>3, <1>4, <1>5

LEMMA DistanceIs ==
    ASSUME NEW x \in Int, NEW y \in Int
    PROVE  /\ Distance(x, y) \in Nat
           /\ Distance(0, x - y) = Distance(x, y)
           /\ Distance(x, y) = Distance(y, x)
BY DEF Distance

LEMMA QueueIs ==
    ASSUME NEW q \in Seq(Reported)
    PROVE  /\ Len(q) \in Nat /\ \A i \in 1..Len(q) : q[i] \in Reported
           /\ q # <<>> => /\ Len(q) > 0 /\ Head(q) = q[1] /\ Tail(q) \in Seq(Reported)
                          /\ Len(Tail(q)) = Len(q) - 1 /\ Tail(q) # q
                          /\ \A i \in 1..Len(q) - 1 : Tail(q)[i] = q[i + 1]
OBVIOUS

LEMMA AppendIs ==
    ASSUME NEW q \in Seq(Reported), NEW r \in Reported, NEW p, p = Append(q, r)
    PROVE  /\ p \in Seq(Reported) /\ Len(p) = Len(q) + 1 /\ p[Len(q) + 1] = r
           /\ \A i \in 1..Len(q) : p[i] = q[i]
OBVIOUS

LEMMA ContinuedFollows ==
    ASSUME PadTypes, NEW d \in Hands, NEW button \in BOOLEAN,
           NEW h, h = Continued(gesture, fingers, d, button)
    PROVE  /\ h \in Gestures
           /\ Follows(AtPad, [fingers |-> d, pressed |-> button, gesture |-> h])
           /\ busy => h.late
<1>1. /\ gesture \in Gestures /\ busy \in BOOLEAN /\ fingers \in Hands
      /\ Positions \subseteq Nat
  BY PadAssumption DEF PadTypes
<1> DEFINE x == PrimaryPosition(d)
           n == ActiveContacts(d)
<1>2. n \in Nat /\ (d # Untouched => x \in Nat)
  BY <1>1, HandIs
<1>3. CASE fingers = Untouched
  <2>1. h = [held |-> 0, start |-> IF d = Untouched THEN 0 ELSE x,
             strayed |-> FALSE, jumped |-> FALSE, joined |-> n > 1,
             clicked |-> button, late |-> busy]
    BY <1>3 DEF Continued, NoGesture
  <2> HIDE DEF x, n
  <2>2. (IF d = Untouched THEN 0 ELSE x) \in Int /\ (n > 1) \in BOOLEAN
    BY <1>2
  <2>3. h \in Gestures
    <3>1. ASSUME NEW start \in Int, NEW joined \in BOOLEAN, NEW late \in BOOLEAN
          PROVE  [held |-> 0, start |-> start, strayed |-> FALSE, jumped |-> FALSE,
                  joined |-> joined, clicked |-> button, late |-> late] \in Gestures
      BY DEF Gestures
    <3> QED
      BY <1>1, <2>1, <2>2, <3>1
  <2>4. Follows(AtPad, [fingers |-> d, pressed |-> button, gesture |-> h])
    <3>1. /\ h.held = 0 /\ h.start = (IF d = Untouched THEN 0 ELSE x)
          /\ h.strayed = FALSE /\ h.jumped = FALSE /\ h.joined = (n > 1)
          /\ h.clicked = button
      BY <2>1
    <3>2. d # Untouched => h.start = x
      BY <3>1
    <3> QED
      BY <1>3, <3>1, <3>2, Zenon DEF Follows, AtPad, x, n
  <2>5. busy => h.late
    BY <2>1
  <2> QED
    BY <2>3, <2>4, <2>5
<1>4. CASE fingers # Untouched
  <2> DEFINE strays == d # Untouched /\ Distance(x, gesture.start) > Slop
             jumps == d # Untouched
                        /\ Distance(x, PrimaryPosition(fingers)) > JumpReject
  <2>1. h = [gesture EXCEPT !.strayed = gesture.strayed \/ strays,
                            !.jumped = gesture.jumped \/ jumps,
                            !.joined = gesture.joined \/ n > 1,
                            !.clicked = gesture.clicked \/ button,
                            !.late = gesture.late \/ busy]
    BY <1>4 DEF Continued
  <2>2. strays \in BOOLEAN /\ jumps \in BOOLEAN /\ (n > 1) \in BOOLEAN
    OBVIOUS
  <2> HIDE DEF strays, jumps, n, x
  <2>3. h \in Gestures
    BY <1>1, <2>1, <2>2, ZenonT(30) DEF Gestures
  <2>4. /\ h.start = gesture.start /\ h.held = gesture.held
        /\ h.strayed = (gesture.strayed \/ strays)
        /\ h.jumped = (gesture.jumped \/ jumps)
        /\ h.joined = (gesture.joined \/ n > 1)
        /\ h.clicked = (gesture.clicked \/ button)
        /\ h.late = (gesture.late \/ busy)
    BY <1>1, <2>1 DEF Gestures
  <2>5. Follows(AtPad, [fingers |-> d, pressed |-> button, gesture |-> h])
    BY <1>4, <2>4 DEF Follows, AtPad, x, n, strays, jumps
  <2>6. busy => h.late
    BY <2>4
  <2> QED
    BY <2>3, <2>5, <2>6
<1> QED
  BY <1>3, <1>4

LEMMA FollowsThrough ==
    ASSUME NEW a, NEW b, NEW c, Stands(a, b), Follows(b, c)
    PROVE  Follows(a, c)
<1>1. CASE b.fingers = Untouched
  BY <1>1 DEF Stands, Follows
<1>2. CASE b.fingers # Untouched
  BY <1>2 DEF Stands, Follows
<1> QED
  BY <1>1, <1>2

(* The pad's report is put behind the others.                               *)
LEMMA ReportsKeep ==
    ASSUME PadInv, NEW d \in Hands, NEW button \in BOOLEAN,
           Reports(d, button)
    PROVE  PadInv'
<1> DEFINE r == [fingers |-> d, pressed |-> button, gesture |-> gesture']
<1>1. /\ fingers' = d /\ pressed' = button
      /\ gesture' = Continued(gesture, fingers, d, button)
      /\ queue' = Append(queue, r)
      /\ UNCHANGED <<busy, contacts, buttonDown, prevFingers, havePrev, prevX,
                     tapCandidate, tapStart, tapTimer>>
  BY DEF Reports, driver, tap
<1>2. /\ gesture' \in Gestures /\ Follows(AtPad, r) /\ (busy => gesture'.late)
  BY <1>1, ContinuedFollows DEF PadInv
<1>3. r \in Reported /\ AtPad' = r
  BY <1>1, <1>2 DEF Reported, AtPad
<1> HIDE DEF r
<1>4. /\ queue' \in Seq(Reported) /\ Len(queue') = Len(queue) + 1
      /\ queue'[Len(queue) + 1] = r
      /\ \A i \in 1..Len(queue) : queue'[i] = queue[i]
  BY <1>1, <1>3, AppendIs DEF PadInv, PadTypes
<1>5. PadTypes'
  BY <1>1, <1>2, <1>4 DEF PadInv, PadTypes
<1>6. PICK g \in Gestures : Agrees(g) /\ Linked(g)
  BY DEF PadInv
<1>7. Agrees(g)'
  BY <1>1, <1>6 DEF Agrees
<1>8. Len(queue) \in Nat
  BY DEF PadInv, PadTypes
<1>9. ASSUME NEW i \in 1..Len(queue) + 1
      PROVE  Before(g, i)' = Before(g, i)
  <2>1. i # 1 => i - 1 \in 1..Len(queue)
    BY <1>8
  <2> QED
    BY <1>1, <1>4, <2>1 DEF Before, Handled
<1>a. Follows(Before(g, Len(queue) + 1), r)
  BY <1>2, <1>6, FollowsThrough DEF Linked
<1>b. ASSUME NEW i \in 1..Len(queue')
      PROVE  Follows(Before(g, i), queue[i])'
  <2>1. CASE i = Len(queue) + 1
    <3>1. Follows(Before(g, i)', queue'[i])
      BY <1>4, <1>8, <1>9, <1>a, <2>1
    <3> QED
      BY <3>1 DEF Follows
  <2>2. CASE i # Len(queue) + 1
    <3>1. i \in 1..Len(queue) /\ i \in 1..Len(queue) + 1
      BY <1>4, <1>8, <2>2
    <3>2. Follows(Before(g, i)', queue'[i])
      BY <1>4, <1>6, <1>9, <3>1 DEF Linked
    <3> QED
      BY <3>2 DEF Follows
  <2> QED
    BY <2>1, <2>2
<1>c. Stands(Before(g, Len(queue) + 1), AtPad)'
  <2>1. Len(queue') + 1 # 1 /\ (Len(queue') + 1) - 1 = Len(queue) + 1
    BY <1>4, <1>8
  <2>2. Before(g, Len(queue) + 1)' = r
    BY <1>4, <2>1 DEF Before
  <2> QED
    BY <1>3, <2>2 DEF Stands
<1>d. Linked(g)'
  BY <1>b, <1>c DEF Linked
<1> QED
  BY <1>1, <1>2, <1>5, <1>6, <1>7, <1>d DEF PadInv

(* What comes through the pad is one of its reports.                        *)
LEMMA PadKeeps ==
    ASSUME PadInv, Pad
    PROVE  PadInv'
<1> USE DEF Hands
<1>1. fingers \in Hands /\ pressed \in BOOLEAN
  BY DEF PadInv, PadTypes
<1>2. CASE \E s \in Slots, x \in Positions \cup {Up} : Touch(s, x)
  <2>1. PICK s \in Slots, x \in Positions \cup {Up} : Touch(s, x)
    BY <1>2
  <2>2. [fingers EXCEPT ![s] = x] \in Hands
    BY <1>1
  <2> QED
    BY <1>1, <2>1, <2>2, ReportsKeep DEF Touch
<1>3. CASE \E s, t \in Slots, x \in Positions : Exchange(s, t, x)
  <2>1. PICK s \in Slots, t \in Slots, x \in Positions : Exchange(s, t, x)
    BY <1>3
  <2>2. [fingers EXCEPT ![s] = Up, ![t] = x] \in Hands
    BY <1>1
  <2> QED
    BY <1>1, <2>1, <2>2, ReportsKeep DEF Exchange
<1>4. CASE Press
  <2>1. (~pressed) \in BOOLEAN
    OBVIOUS
  <2> QED
    BY <1>1, <1>4, <2>1, ReportsKeep DEF Press
<1> QED
  BY <1>2, <1>3, <1>4 DEF Pad

(* While nothing waits, the pad is where the driver left it.                *)
LEMMA NothingWaits ==
    ASSUME PadInv, queue = <<>>
    PROVE  \E g \in Gestures : Agrees(g) /\ Stands(Handled(g), AtPad)
<1>1. PICK g \in Gestures : Agrees(g) /\ Linked(g)
  BY DEF PadInv
<1>2. Len(queue) + 1 = 1
  OBVIOUS
<1>3. Stands(Handled(g), AtPad)
  BY <1>1, <1>2 DEF Linked, Before
<1> QED
  BY <1>1, <1>3

LEMMA TickKeeps ==
    ASSUME PadInv, Tick
    PROVE  PadInv'
<1> DEFINE still == fingers = Untouched \/ gesture.held > TapTime
<1>1. /\ busy \/ queue = <<>>
      /\ gesture' = [gesture EXCEPT !.held = IF still THEN gesture.held ELSE gesture.held + 1]
      /\ tapTimer' = IF tapTimer > TapTime THEN tapTimer ELSE tapTimer + 1
      /\ UNCHANGED <<fingers, pressed, queue, busy, contacts, buttonDown,
                     prevFingers, havePrev, prevX, tapCandidate, tapStart>>
  BY DEF Tick
<1>2. gesture \in Gestures /\ tapTimer \in Nat /\ TapTime \in Nat /\ queue \in Seq(Reported)
  BY PadAssumption DEF PadInv, PadTypes
<1>3. /\ gesture' \in Gestures
      /\ gesture'.held = IF still THEN gesture.held ELSE gesture.held + 1
      /\ gesture'.start = gesture.start /\ gesture'.strayed = gesture.strayed
      /\ gesture'.jumped = gesture.jumped /\ gesture'.joined = gesture.joined
      /\ gesture'.clicked = gesture.clicked /\ gesture'.late = gesture.late
  BY <1>1, <1>2, SMTT(30) DEF Gestures
<1> HIDE DEF still
<1>4. PadTypes'
  BY <1>1, <1>2, <1>3 DEF PadInv, PadTypes
<1>5. (busy => gesture.late)'
  BY <1>1, <1>3 DEF PadInv
<1>6. CASE busy
  <2>1. PICK g \in Gestures : Agrees(g) /\ Linked(g)
    BY DEF PadInv
  <2>2. g.late /\ gesture.late
    BY <1>6, <2>1 DEF Agrees, PadInv
  <2>3. Agrees(g)'
    BY <1>1, <2>1, <2>2 DEF Agrees
  <2>4. Linked(g)'
    <3>1. \A i : Before(g, i)' = Before(g, i)
      BY <1>1 DEF Before, Handled
    <3>2. \A i \in 1..Len(queue) : Follows(Before(g, i), queue[i])'
      BY <1>1, <2>1, <3>1 DEF Linked, Follows
    <3>3. Stands(Before(g, Len(queue) + 1), AtPad)'
      <4>1. Stands(Before(g, Len(queue) + 1), AtPad)
        BY <2>1 DEF Linked
      <4>2. Stands(Before(g, Len(queue) + 1), AtPad')
        BY <1>1, <1>3, <2>2, <4>1 DEF Stands, AtPad
      <4> QED
        BY <1>1, <3>1, <4>2 DEF Stands
    <3> QED
      BY <1>1, <3>2, <3>3 DEF Linked
  <2> QED
    BY <1>4, <1>5, <2>1, <2>3, <2>4 DEF PadInv
<1>7. CASE queue = <<>>
  <2>1. PICK g \in Gestures : Agrees(g) /\ Stands(Handled(g), AtPad)
    BY <1>7, NothingWaits
  <2>2. /\ contacts = fingers /\ buttonDown = pressed
        /\ gesture.start = g.start /\ gesture.strayed = g.strayed
        /\ gesture.jumped = g.jumped /\ gesture.joined = g.joined
        /\ gesture.clicked = g.clicked
        /\ ~gesture.late => ~g.late /\ gesture.held = g.held
    BY <2>1 DEF Stands, Handled, AtPad
  <2>h. PICK h \in Gestures : h = gesture'
    BY <1>3
  <2>3. Agrees(h)'
    <3>1. busy' => h.late
      BY <1>5, <2>h
    <3>2. contacts' # Untouched /\ ~h.joined /\ ~h.late =>
             tapTimer' = h.held
      <4>1. SUFFICES ASSUME contacts # Untouched, ~g.joined, ~gesture.late
                     PROVE  tapTimer' = h.held
        BY <1>1, <1>3, <2>2, <2>h
      <4>2. tapTimer = gesture.held
        BY <2>1, <2>2, <4>1 DEF Agrees
      <4> QED
        BY <1>1, <1>3, <2>2, <2>h, <4>1, <4>2 DEF still
    <3> QED
      BY <1>1, <1>3, <2>1, <2>2, <2>h, <3>1, <3>2 DEF Agrees
  <2>4. Stands(Handled(h), AtPad)'
    BY <1>1, <1>3, <2>2, <2>h DEF Stands, Handled, AtPad
  <2>5. Linked(h)'
    <3>1. Len(queue') = 0 /\ Len(queue') + 1 = 1
      BY <1>1, <1>7
    <3>2. Before(h, Len(queue) + 1)' = Handled(h)'
      BY <3>1 DEF Before, Handled
    <3>3. Stands(Before(h, Len(queue) + 1), AtPad)'
      BY <2>4, <3>2 DEF Stands
    <3> QED
      BY <3>1, <3>3 DEF Linked
  <2> QED
    BY <1>3, <1>4, <1>5, <2>3, <2>5 DEF PadInv
<1> QED
  BY <1>1, <1>6, <1>7

LEMMA AwayKeeps ==
    ASSUME PadInv, TurnAway
    PROVE  PadInv'
<1>1. /\ queue = <<>> /\ busy' = TRUE
      /\ gesture' = [gesture EXCEPT !.late = TRUE]
      /\ UNCHANGED <<fingers, pressed, queue, contacts, buttonDown, prevFingers, havePrev,
                     prevX, tapCandidate, tapStart, tapTimer>>
  BY DEF TurnAway, driver, tap
<1>2. gesture \in Gestures
  BY DEF PadInv, PadTypes
<1>3. PICK h \in Gestures : h = gesture'
  BY <1>1, <1>2 DEF Gestures
<1>4. /\ h.start = gesture.start /\ h.strayed = gesture.strayed
      /\ h.jumped = gesture.jumped /\ h.joined = gesture.joined
      /\ h.clicked = gesture.clicked /\ h.late
  BY <1>1, <1>2, <1>3 DEF Gestures
<1>5. PadTypes'
  BY <1>1, <1>3 DEF PadInv, PadTypes
<1>6. PICK g \in Gestures : Agrees(g) /\ Stands(Handled(g), AtPad)
  BY <1>1, NothingWaits
<1>7. Agrees(h)'
  BY <1>1, <1>4, <1>6 DEF Agrees, Stands, Handled, AtPad
<1>8. Stands(Handled(h), AtPad)'
  BY <1>1, <1>3, <1>6 DEF Stands, Handled, AtPad
<1>9. Linked(h)'
  <2>1. Len(queue') = 0 /\ Len(queue') + 1 = 1
    BY <1>1
  <2>2. Before(h, Len(queue) + 1)' = Handled(h)'
    BY <2>1 DEF Before, Handled
  <2>3. Stands(Before(h, Len(queue) + 1), AtPad)'
    BY <1>8, <2>2 DEF Stands
  <2> QED
    BY <2>1, <2>3 DEF Linked
<1> QED
  BY <1>3, <1>4, <1>5, <1>7, <1>9 DEF PadInv

(* Where nothing but busy changes, and to FALSE, all stays as it is.        *)
LEMMA StillKeeps ==
    ASSUME PadInv, UNCHANGED <<fingers, pressed, gesture, queue, contacts, buttonDown,
                               prevFingers, havePrev, prevX, tapCandidate, tapStart,
                               tapTimer>>,
           busy' = busy \/ busy' = FALSE
    PROVE  PadInv'
<1>1. PICK g \in Gestures : Agrees(g) /\ Linked(g)
  BY DEF PadInv
<1>2. Agrees(g)'
  BY <1>1 DEF Agrees
<1>3. \A i : Before(g, i)' = Before(g, i)
  BY DEF Before, Handled
<1>4. Linked(g)'
  BY <1>1, <1>3 DEF Linked, Follows, Stands, AtPad
<1>5. PadTypes'
  <2>1. busy' \in BOOLEAN
    <3>1. CASE busy' = busy
      BY <3>1, Zenon DEF PadInv, PadTypes
    <3>2. CASE busy' = FALSE
      BY <3>2, Zenon
    <3> QED
      BY <3>1, <3>2
  <2>2. /\ Untouched' = Untouched
        /\ ActiveContacts(contacts)' = ActiveContacts(contacts)
        /\ PrimaryPosition(contacts)' = PrimaryPosition(contacts)
    BY Zenon DEF Untouched, ActiveContacts, PrimaryPosition, Active
  <2> QED
    BY <2>1, <2>2 DEF PadInv, PadTypes, Hands
<1>6. (busy => gesture.late)'
  BY DEF PadInv
<1> QED
  BY <1>1, <1>2, <1>4, <1>5, <1>6 DEF PadInv

-----------------------------------------------------------------------------
(***************************************************************************)
(* The driver handles a report                                             *)
(***************************************************************************)
LEMMA ReadIs ==
    ASSUME PadInv, ReadReport,
           NEW r, r = queue[1], NEW n, n = ActiveContacts(r.fingers)
    PROVE  /\ r \in Reported /\ Len(queue) > 0 /\ Head(queue) = r
           /\ contacts' = r.fingers /\ buttonDown' = r.pressed /\ prevFingers' = n
           /\ prevX' = IF n = 0 THEN prevX ELSE PrimaryPosition(r.fingers)
           /\ havePrev' = (n > 0)
           /\ tapStart' = IF Lands(n) THEN prevX' ELSE tapStart
           /\ tapTimer' = IF Lands(n) THEN 0 ELSE tapTimer
           /\ LET moves == Measured(n) /\ ~Far(prevX')
                  d == IF moves THEN prevX' - prevX ELSE 0
              IN  /\ tapCandidate' = (TapAfterCount(n, r.pressed)
                         /\ (moves => Distance(prevX', tapStart) <= Slop))
                  /\ delivered' = [click |-> Clicks(n, r.pressed),
                                   move |-> Moved(n, d, r.pressed),
                                   scroll |-> Scrolled(n, d, r.pressed)]
           /\ queue' = Tail(queue) /\ queue # <<>>
           /\ ~busy /\ UNCHANGED <<fingers, pressed, gesture, busy>>
<1>1. queue # <<>>
  BY DEF ReadReport
<1>2. queue \in Seq(Reported)
  BY DEF PadInv, PadTypes
<1>3. Len(queue) > 0 /\ Head(queue) = r /\ r \in Reported
  <2>1. 1 \in 1..Len(queue)
    BY <1>1, <1>2, QueueIs
  <2> QED
    BY <1>1, <1>2, <2>1, QueueIs
<1> QED
  BY <1>1, <1>3, Zenon DEF ReadReport, pad

LEMMA ReadTypes ==
    ASSUME PadInv, ReadReport
    PROVE  PadTypes'
<1> DEFINE r == queue[1]
           n == ActiveContacts(r.fingers)
<1>1. /\ r \in Reported
      /\ contacts' = r.fingers /\ buttonDown' = r.pressed /\ prevFingers' = n
      /\ prevX' = IF n = 0 THEN prevX ELSE PrimaryPosition(r.fingers)
      /\ havePrev' = (n > 0)
      /\ tapStart' = IF Lands(n) THEN prevX' ELSE tapStart
      /\ tapTimer' = IF Lands(n) THEN 0 ELSE tapTimer
      /\ queue' = Tail(queue) /\ queue # <<>>
      /\ UNCHANGED <<fingers, pressed, gesture, busy>>
  BY ReadIs
<1>2. tapCandidate' \in BOOLEAN
  BY ReadIs, Zenon
<1> HIDE DEF r, n
<1>3. r.fingers \in Hands /\ r.pressed \in BOOLEAN
  BY <1>1 DEF Reported
<1>4. /\ n \in Nat /\ (n = 0 <=> r.fingers = Untouched)
      /\ r.fingers # Untouched => PrimaryPosition(r.fingers) \in Int
  <2>1. r.fingers # Untouched => PrimaryPosition(r.fingers) \in Positions
    BY <1>3, HandIs
  <2>2. \A x \in Positions : x \in Int
    BY PadAssumption
  <2>3. n \in Nat /\ (n = 0 <=> r.fingers = Untouched)
    BY <1>3, HandIs DEF n
  <2> QED
    BY <2>1, <2>2, <2>3
<1>5. queue' \in Seq(Reported)
  BY <1>1, QueueIs DEF PadInv, PadTypes
<1>6. prevX \in Int /\ tapStart \in Int /\ tapTimer \in Nat
  BY DEF PadInv, PadTypes
<1>7. prevX' \in Int
  BY <1>1, <1>4, <1>6
<1>8. tapStart' \in Int /\ tapTimer' \in Nat
  BY <1>1, <1>6, <1>7
<1>9. /\ prevFingers' = ActiveContacts(contacts')
      /\ havePrev' = (contacts' # Untouched)
      /\ havePrev' => prevX' = PrimaryPosition(contacts')
  <2>1. prevFingers' = ActiveContacts(contacts')
    BY <1>1, Zenon DEF n
  <2>2. havePrev' = (contacts' # Untouched)
    <3>1. n > 0 <=> r.fingers # Untouched
      BY <1>4
    <3>2. (n > 0) = (r.fingers # Untouched)
      BY <3>1
    <3> QED
      BY <1>1, <3>2, Zenon
  <2>3. n # 0 => prevX' = PrimaryPosition(contacts')
    BY <1>1
  <2> QED
    BY <1>1, <1>4, <2>1, <2>2, <2>3
<1>a. /\ fingers' \in Hands /\ pressed' \in BOOLEAN /\ busy' \in BOOLEAN
      /\ gesture' \in Gestures
  BY <1>1 DEF PadInv, PadTypes
<1>b. Untouched' = Untouched
  BY DEF Untouched
<1> QED
  BY <1>1, <1>2, <1>3, <1>5, <1>7, <1>8, <1>9, <1>a DEF PadTypes, Hands

(* The reports that still wait follow the one that is handled.              *)
LEMMA ReadLinks ==
    ASSUME PadInv, ReadReport, NEW g \in Gestures, Linked(g),
           NEW h, h = queue[1].gesture
    PROVE  Linked(h)'
<1> DEFINE r == queue[1]
<1>1. /\ r \in Reported /\ Len(queue) > 0
      /\ contacts' = r.fingers /\ buttonDown' = r.pressed
      /\ queue' = Tail(queue) /\ queue # <<>>
      /\ UNCHANGED <<fingers, pressed, gesture>>
  BY ReadIs
<1>2. /\ Len(queue) \in Nat /\ Len(queue') = Len(queue) - 1
      /\ \A i \in 1..Len(queue) - 1 : queue'[i] = queue[i + 1]
  BY <1>1, QueueIs DEF PadInv, PadTypes
<1>3. Handled(h)' = r
  BY <1>1 DEF Handled, Reported
<1> HIDE DEF r
<1>4. ASSUME NEW i \in 1..Len(queue)
      PROVE  Before(h, i)' = Before(g, i + 1)
  <2>1. CASE i = 1
    BY <1>3, <2>1 DEF Before, Handled, r
  <2>2. CASE i # 1
    <3>1. i - 1 \in 1..Len(queue) - 1 /\ (i - 1) + 1 = i /\ (i + 1) - 1 = i /\ i + 1 # 1
      BY <1>2, <2>2
    <3>2. queue'[i - 1] = queue[i]
      BY <1>2, <3>1
    <3> QED
      BY <2>2, <3>1, <3>2 DEF Before
  <2> QED
    BY <2>1, <2>2
<1>5. ASSUME NEW i \in 1..Len(queue')
      PROVE  Follows(Before(h, i), queue[i])'
  <2>1. i \in 1..Len(queue) - 1 /\ i \in 1..Len(queue) /\ i + 1 \in 1..Len(queue)
    BY <1>2
  <2>2. Follows(Before(g, i + 1), queue[i + 1])
    BY <2>1 DEF Linked
  <2>3. Follows(Before(h, i)', queue'[i])
    BY <1>2, <1>4, <2>1, <2>2
  <2> QED
    BY <2>3 DEF Follows
<1>6. Stands(Before(h, Len(queue) + 1), AtPad)'
  <2>1. Len(queue') + 1 = Len(queue) /\ Len(queue) \in 1..Len(queue)
    BY <1>1, <1>2
  <2>2. Before(h, Len(queue) + 1)' = Before(g, Len(queue) + 1)
    <3>1. PICK k \in 1..Len(queue) : k = Len(queue)
      BY <2>1
    <3>2. Before(h, k)' = Before(g, k + 1)
      BY <1>4
    <3>3. Before(h, Len(queue) + 1)' = Before(h, k)'
      BY <2>1, <3>1 DEF Before
    <3> QED
      BY <3>1, <3>2, <3>3
  <2>3. AtPad' = AtPad
    BY <1>1 DEF AtPad
  <2>4. Stands(Before(g, Len(queue) + 1), AtPad)
    BY DEF Linked
  <2> QED
    BY <2>2, <2>3, <2>4 DEF Stands
<1> QED
  BY <1>5, <1>6 DEF Linked

(* What there is to know of a report r that is handled after g, in numbers. *)
LEMMA ReadFollows ==
    ASSUME PadInv, NEW g \in Gestures, Agrees(g), Linked(g),
           NEW r \in Reported, r = queue[1], Len(queue) > 0,
           NEW n, n = ActiveContacts(r.fingers)
    PROVE  /\ n \in Nat /\ (n = 0 <=> r.fingers = Untouched)
           /\ prevFingers \in Nat /\ prevFingers = ActiveContacts(contacts)
           /\ prevFingers = 0 <=> contacts = Untouched
           /\ havePrev <=> contacts # Untouched
           /\ contacts # Untouched => prevX = PrimaryPosition(contacts)
           /\ Follows(Handled(g), r)
           /\ prevX \in Int /\ (n # 0 => PrimaryPosition(r.fingers) \in Int)
<1>1. /\ r.fingers \in Hands /\ contacts \in Hands /\ prevX \in Int
      /\ prevFingers = ActiveContacts(contacts)
      /\ havePrev = (contacts # Untouched)
      /\ havePrev => prevX = PrimaryPosition(contacts)
  BY DEF Reported, PadInv, PadTypes
<1>2. /\ n \in Nat /\ (n = 0 <=> r.fingers = Untouched)
      /\ r.fingers # Untouched => PrimaryPosition(r.fingers) \in Positions
  BY <1>1, HandIs
<1>3. prevFingers \in Nat /\ (prevFingers = 0 <=> contacts = Untouched)
  BY <1>1, HandIs
<1>4. \A x \in Positions : x \in Int
  BY PadAssumption
<1>5. Follows(Handled(g), r)
  <2>1. Len(queue) \in Nat
    BY DEF PadInv, PadTypes
  <2>2. 1 \in 1..Len(queue)
    BY <2>1
  <2> QED
    BY <2>2 DEF Linked, Before
<1>6. havePrev <=> contacts # Untouched
  BY <1>1
<1> QED
  BY <1>1, <1>2, <1>3, <1>4, <1>5, <1>6

LEMMA ReadAgrees ==
    ASSUME PadInv, ReadReport,
           NEW g \in Gestures, Agrees(g), Linked(g),
           NEW h, h = queue[1].gesture
    PROVE  Agrees(h)'
<1> DEFINE r == queue[1]
           n == ActiveContacts(r.fingers)
           x == PrimaryPosition(r.fingers)
           moves == Measured(n) /\ ~Far(prevX')
<1>1. /\ r \in Reported /\ Len(queue) > 0
      /\ contacts' = r.fingers /\ buttonDown' = r.pressed
      /\ prevX' = IF n = 0 THEN prevX ELSE x
      /\ tapStart' = IF Lands(n) THEN prevX' ELSE tapStart
      /\ tapTimer' = IF Lands(n) THEN 0 ELSE tapTimer
      /\ tapCandidate' = (TapAfterCount(n, r.pressed)
                         /\ (moves => Distance(prevX', tapStart) <= Slop))
      /\ ~busy /\ busy' = busy
  BY ReadIs
<1>2. /\ n \in Nat /\ (n = 0 <=> r.fingers = Untouched)
      /\ prevFingers \in Nat /\ prevFingers = ActiveContacts(contacts)
      /\ prevFingers = 0 <=> contacts = Untouched
      /\ havePrev <=> contacts # Untouched
      /\ contacts # Untouched => prevX = PrimaryPosition(contacts)
      /\ Follows(Handled(g), r)
      /\ prevX \in Int /\ (n # 0 => x \in Int)
  BY <1>1, ReadFollows
<1>3. /\ Measured(n) <=> havePrev /\ n = prevFingers /\ n > 0
      /\ Lands(n) <=> prevFingers = 0 /\ n = 1
      /\ TapAfterCount(n, r.pressed) <=>
            IF n = prevFingers THEN tapCandidate /\ ~(r.pressed /\ ~buttonDown)
            ELSE prevFingers = 0 /\ n = 1 /\ ~r.pressed
  BY DEF Measured, Lands, TapAfterCount, TapAfterButton
<1>4. /\ h = r.gesture
      /\ Handled(g).gesture = g /\ Handled(g).fingers = contacts
      /\ Handled(g).pressed = buttonDown
  BY DEF Handled
<1>5. /\ Untouched' = Untouched
      /\ ActiveContacts(contacts)' = n
  BY <1>1, Zenon DEF Untouched, ActiveContacts, Active
<1> HIDE DEF moves
<1>6. CASE contacts = Untouched
  <2>1. /\ h.held = 0 /\ ~h.strayed /\ ~h.jumped
        /\ n # 0 => h.start = x
        /\ h.joined <=> n > 1
        /\ h.clicked <=> r.pressed
    BY <1>2, <1>4, <1>6 DEF Follows
  <2> HIDE DEF r, n, x
  <2>2. ~tapCandidate /\ ~moves
    BY <1>2, <1>3, <1>6 DEF Agrees, moves
  <2>3. tapCandidate' <=> n = 1 /\ ~r.pressed
    <3>1. TapAfterCount(n, r.pressed) <=> n = 1 /\ ~r.pressed
      BY <1>2, <1>3, <1>6, <2>2
    <3> QED
      BY <1>1, <2>2, <3>1, Zenon
  <2>4. n # 0 /\ ~h.joined => tapStart' = h.start /\ tapTimer' = h.held
    BY <1>1, <1>2, <1>3, <1>6, <2>1
  <2> QED
    BY <1>1, <1>2, <1>5, <1>6, <2>1, <2>3, <2>4 DEF Agrees
<1>7. CASE contacts # Untouched /\ n = 0
  <2> HIDE DEF r, n, x
  <2>1. ~tapCandidate'
    BY <1>1, <1>2, <1>3, <1>7
  <2> QED
    BY <1>1, <1>2, <1>7, <2>1 DEF Agrees
<1>8. CASE contacts # Untouched /\ n # 0
  <2>1. /\ h.start = g.start
        /\ h.strayed <=> g.strayed \/ Distance(x, g.start) > Slop
        /\ h.jumped <=> g.jumped \/ Distance(x, prevX) > JumpReject
        /\ h.joined <=> g.joined \/ n > 1
        /\ h.clicked <=> g.clicked \/ r.pressed
        /\ ~h.late => ~g.late /\ h.held = g.held
    BY <1>2, <1>4, <1>8 DEF Follows
  <2>2. /\ tapCandidate => ~g.joined /\ ~g.clicked
        /\ prevFingers > 1 => g.joined
        /\ buttonDown => g.clicked
        /\ ~g.joined => tapStart = g.start
        /\ ~g.joined /\ ~g.late => tapTimer = g.held
        /\ ~g.jumped => (tapCandidate <=> ~g.joined /\ ~g.clicked /\ ~g.strayed)
    BY <1>2, <1>8 DEF Agrees
  <2> HIDE DEF r, n, x
  <2>3. /\ prevX' = x /\ ~Lands(n) /\ tapStart' = tapStart /\ tapTimer' = tapTimer
    BY <1>1, <1>2, <1>3, <1>8
  <2>4. moves <=> n = prevFingers /\ ~(Distance(x, prevX) > JumpReject)
    BY <1>2, <1>3, <1>8, <2>3 DEF moves, Far
  <2>5. tapCandidate' <=>
           /\ n = prevFingers /\ tapCandidate /\ ~(r.pressed /\ ~buttonDown)
           /\ moves => Distance(x, tapStart) <= Slop
    BY <1>1, <1>2, <1>3, <1>8, <2>3
  <2>6. tapCandidate' => ~h.joined /\ ~h.clicked
    BY <1>2, <1>8, <2>1, <2>2, <2>5
  <2>7. ASSUME ~h.jumped
        PROVE  tapCandidate' <=> ~h.joined /\ ~h.clicked /\ ~h.strayed
    <3>1. CASE h.joined
      BY <2>6, <3>1
    <3>2. CASE ~h.joined
      <4>1. n = 1 /\ prevFingers = 1 /\ ~g.joined /\ moves
        BY <1>2, <1>8, <2>1, <2>2, <2>4, <2>7, <3>2
      <4>2. tapStart = g.start /\ tapStart \in Int /\ x \in Int
        BY <1>2, <1>8, <2>2, <4>1 DEF PadInv, PadTypes
      <4>3. Distance(x, tapStart) <= Slop <=> ~(Distance(x, g.start) > Slop)
        <5>1. Distance(x, tapStart) \in Nat /\ Slop \in Nat
          BY PadAssumption, <4>2, DistanceIs
        <5> QED
          BY <4>2, <5>1
      <4> QED
        BY <2>1, <2>2, <2>5, <2>7, <3>2, <4>1, <4>3
    <3> QED
      BY <3>1, <3>2
  <2>8. /\ n > 1 => h.joined
        /\ r.pressed => h.clicked
        /\ ~h.joined => tapStart' = h.start
        /\ ~h.joined /\ ~h.late => tapTimer' = h.held
    BY <2>1, <2>2, <2>3
  <2> QED
    BY <1>1, <1>2, <1>5, <1>8, <2>6, <2>7, <2>8 DEF Agrees
<1> QED
  BY <1>6, <1>7, <1>8

LEMMA ReadKeeps ==
    ASSUME PadInv, ReadReport
    PROVE  PadInv'
<1>1. PICK g \in Gestures : Agrees(g) /\ Linked(g)
  BY DEF PadInv
<1>2. PICK h \in Gestures : h = queue[1].gesture
  <2>1. queue[1] \in Reported
    BY ReadIs
  <2> QED
    BY <2>1 DEF Reported
<1>3. Agrees(h)' /\ Linked(h)'
  BY <1>1, <1>2, ReadAgrees, ReadLinks
<1>4. ~busy'
  BY ReadIs
<1> QED
  BY <1>2, <1>3, <1>4, ReadTypes DEF PadInv

-----------------------------------------------------------------------------
LEMMA PadStarts ==
    ASSUME PadInit
    PROVE  PadInv
<1> DEFINE g == NoGesture
<1>1. g \in Gestures /\ Untouched \in Hands
  BY DEF NoGesture, Gestures, Hands, Untouched
<1>2. ActiveContacts(Untouched) = 0
  BY <1>1, HandIs
<1>3. /\ fingers = Untouched /\ pressed = FALSE /\ gesture = g
      /\ queue = <<>> /\ busy = FALSE /\ contacts = Untouched /\ buttonDown = FALSE
      /\ prevFingers = 0 /\ havePrev = FALSE /\ prevX = 0
      /\ tapCandidate = FALSE /\ tapStart = 0 /\ tapTimer = 0
  BY DEF PadInit
<1> HIDE DEF g
<1>4. PadTypes
  <2>1. queue \in Seq(Reported)
    BY <1>3
  <2>2. havePrev = (contacts # Untouched) /\ ~havePrev
    <3>1. ~havePrev /\ ~(contacts # Untouched)
      BY <1>3
    <3> QED
      BY <1>3, <3>1, Zenon
  <2>3. pressed \in BOOLEAN /\ buttonDown \in BOOLEAN /\ busy \in BOOLEAN
    BY <1>3, Zenon
  <2>4. tapCandidate \in BOOLEAN
    BY <1>3, Zenon
  <2>5. fingers \in Hands /\ contacts \in Hands /\ gesture \in Gestures
    BY <1>1, <1>3, Zenon
  <2>6. prevX \in Int /\ tapStart \in Int /\ tapTimer \in Nat
    BY <1>3
  <2>7. prevFingers = ActiveContacts(contacts)
    BY <1>2, <1>3, Zenon
  <2> QED
    BY <2>1, <2>2, <2>3, <2>4, <2>5, <2>6, <2>7, Zenon DEF PadTypes
<1>5. Agrees(g)
  BY <1>3 DEF Agrees
<1>6. Linked(g)
  <2>1. Stands(Handled(g), AtPad)
    BY <1>3 DEF Stands, Handled, AtPad
  <2>2. Len(queue) = 0 /\ Len(queue) + 1 = 1
    BY <1>3
  <2> QED
    BY <2>1, <2>2 DEF Linked, Before
<1> QED
  BY <1>1, <1>3, <1>4, <1>5, <1>6 DEF PadInv

LEMMA PadSteps ==
    ASSUME PadInv, [PadNext]_padVars
    PROVE  PadInv'
<1>1. CASE Pad
  BY <1>1, PadKeeps
<1>2. CASE Tick
  BY <1>2, TickKeeps
<1>3. CASE TurnAway
  BY <1>3, AwayKeeps
<1>4. CASE ComeBack
  BY <1>4, StillKeeps DEF ComeBack, pad, driver, tap
<1>5. CASE ReadReport
  BY <1>5, ReadKeeps
<1>6. CASE Detach
  BY <1>6, StillKeeps DEF Detach, pad, driver, tap
<1>7. CASE UNCHANGED padVars
  BY <1>7, StillKeeps DEF padVars, pad, driver, tap
<1> QED
  BY <1>1, <1>2, <1>3, <1>4, <1>5, <1>6, <1>7 DEF PadNext

LEMMA PadInvariance == PadSpec => []PadInv
<1>1. PadInit => PadInv
  BY PadStarts
<1>2. PadInv /\ [PadNext]_padVars => PadInv'
  BY PadSteps
<1> QED
  BY <1>1, <1>2, PTL DEF PadSpec

(* Only the driver takes a report from the queue.                           *)
LEMMA OnlyReads ==
    ASSUME PadInv, [PadNext]_padVars, Handles
    PROVE  ReadReport
<1>1. queue \in Seq(Reported) /\ queue # <<>> /\ queue' = Tail(queue)
  BY DEF PadInv, PadTypes, Handles
<1>2. Len(queue') = Len(queue) - 1 /\ Len(queue) \in Nat /\ queue' # queue
  BY <1>1, QueueIs
<1>3. ~Pad
  <2>1. SUFFICES ASSUME Pad PROVE FALSE
    OBVIOUS
  <2>2. PICK d, button : Reports(d, button)
    BY <2>1 DEF Pad, Touch, Exchange, Press
  <2>3. PICK e : queue' = Append(queue, e)
    BY <2>2 DEF Reports
  <2>4. Len(queue') = Len(queue) + 1
    BY <1>1, <2>3
  <2> QED
    BY <1>2, <2>4
<1> QED
  BY <1>2, <1>3 DEF PadNext, padVars, Tick, TurnAway, ComeBack,
     Detach, pad

(* What the step does that is said of a tap.                                *)
TapStep ==
    Handles =>
      LET r == Head(queue)
          g == r.gesture
      IN  /\ delivered'.click => Ends(r) /\ ~g.joined /\ ~g.clicked
          /\ Ends(r) /\ ~g.late /\ ~g.jumped =>
                (delivered'.click <=>
                   ~g.joined /\ ~g.clicked /\ ~g.strayed /\ g.held <= TapTime)

LEMMA TapStepHolds ==
    ASSUME PadInv, [PadNext]_padVars
    PROVE  TapStep
<1> SUFFICES ASSUME Handles PROVE TapStep
  BY DEF TapStep
<1> DEFINE r == queue[1]
           h == r.gesture
           n == ActiveContacts(r.fingers)
<1>1. ReadReport
  BY OnlyReads
<1>2. PICK g \in Gestures : Agrees(g) /\ Linked(g)
  BY DEF PadInv
<1>3. /\ r \in Reported /\ Len(queue) > 0 /\ Head(queue) = r
      /\ delivered'.click = Clicks(n, r.pressed)
  <2> DEFINE moves == Measured(n) /\ ~Far(prevX')
             d == IF moves THEN prevX' - prevX ELSE 0
  <2>1. /\ r \in Reported /\ Len(queue) > 0 /\ Head(queue) = r
        /\ delivered' = [click |-> Clicks(n, r.pressed),
                         move |-> Moved(n, d, r.pressed),
                         scroll |-> Scrolled(n, d, r.pressed)]
    BY <1>1, ReadIs
  <2> QED
    BY <2>1
<1>4. /\ n \in Nat /\ (n = 0 <=> r.fingers = Untouched)
      /\ prevFingers \in Nat /\ prevFingers = ActiveContacts(contacts)
      /\ prevFingers = 0 <=> contacts = Untouched
      /\ Follows(Handled(g), r)
  BY <1>2, <1>3, ReadFollows
<1>5. Clicks(n, r.pressed) <=>
         /\ n = 0 /\ prevFingers = 1
         /\ tapCandidate /\ ~r.pressed /\ tapTimer <= TapTime
  BY DEF Clicks, TapAfterButton
<1>6. Ends(r) <=> n = 0 /\ prevFingers # 0
  BY <1>4 DEF Ends
<1>7. ASSUME n = 0, prevFingers # 0
      PROVE  /\ h.strayed <=> g.strayed
             /\ h.jumped <=> g.jumped
             /\ h.joined <=> g.joined
             /\ h.clicked <=> g.clicked \/ r.pressed
             /\ ~h.late => ~g.late /\ h.held = g.held
             /\ tapCandidate => ~g.joined /\ ~g.clicked
             /\ prevFingers > 1 => g.joined
             /\ ~g.joined /\ ~g.late => tapTimer = g.held
             /\ ~g.jumped => (tapCandidate <=> ~g.joined /\ ~g.clicked /\ ~g.strayed)
  <2>1. contacts # Untouched /\ r.fingers = Untouched /\ ~(n > 1)
    BY <1>4, <1>7
  <2>2. Handled(g).gesture = g /\ Handled(g).fingers = contacts
    BY DEF Handled
  <2>3. /\ h.strayed <=> g.strayed
        /\ h.jumped <=> g.jumped
        /\ h.joined <=> g.joined
        /\ h.clicked <=> g.clicked \/ r.pressed
        /\ ~h.late => ~g.late /\ h.held = g.held
    BY <1>4, <2>1, <2>2 DEF Follows
  <2> QED
    BY <1>2, <1>4, <2>1, <2>3 DEF Agrees
<1> HIDE DEF n, h, r
<1>8. delivered'.click => Ends(r) /\ ~h.joined /\ ~h.clicked
  BY <1>3, <1>5, <1>6, <1>7
<1>9. ASSUME Ends(r), ~h.late, ~h.jumped
      PROVE  delivered'.click <=>
                ~h.joined /\ ~h.clicked /\ ~h.strayed /\ h.held <= TapTime
  <2>1. n = 0 /\ prevFingers # 0
    BY <1>6, <1>9
  <2>2. CASE h.joined
    BY <1>3, <1>5, <1>7, <2>1, <2>2
  <2>3. CASE ~h.joined
    <3>1. prevFingers = 1 /\ tapTimer = h.held
      BY <1>4, <1>7, <1>9, <2>1, <2>3
    <3> QED
      BY <1>3, <1>5, <1>7, <1>9, <2>1, <2>3, <3>1
  <2> QED
    BY <2>2, <2>3
<1> QED
  BY <1>3, <1>8, <1>9 DEF TapStep, h

(* What the step does that is said of the pointer.                          *)
PointerStep ==
    Handles =>
      LET d == delivered'.move + delivered'.scroll
          now == Head(queue).fingers
          same == Active(contacts) = Active(now)
      IN  d # 0 =>
            /\ Distance(0, d) <= JumpReject
            /\ ActiveContacts(now) = ActiveContacts(contacts)
            /\ same => d = PrimaryPosition(now) - PrimaryPosition(contacts)
            /\ delivered'.move = 0 \/ delivered'.scroll = 0

LEMMA PointerStepHolds ==
    ASSUME PadInv, [PadNext]_padVars
    PROVE  PointerStep
<1> SUFFICES ASSUME Handles PROVE PointerStep
  BY DEF PointerStep
<1> DEFINE r == queue[1]
           n == ActiveContacts(r.fingers)
           x == PrimaryPosition(r.fingers)
           moves == Measured(n) /\ ~Far(prevX')
           d == IF moves THEN prevX' - prevX ELSE 0
<1>1. ReadReport
  BY OnlyReads
<1>2. PICK g \in Gestures : Agrees(g) /\ Linked(g)
  BY DEF PadInv
<1>3. /\ r \in Reported /\ Len(queue) > 0 /\ Head(queue) = r
      /\ prevX' = IF n = 0 THEN prevX ELSE x
      /\ delivered' = [click |-> Clicks(n, r.pressed),
                       move |-> Moved(n, d, r.pressed),
                       scroll |-> Scrolled(n, d, r.pressed)]
  BY <1>1, ReadIs
<1>4. /\ n \in Nat /\ prevFingers = ActiveContacts(contacts)
      /\ havePrev <=> contacts # Untouched
      /\ contacts # Untouched => prevX = PrimaryPosition(contacts)
      /\ prevX \in Int /\ (n # 0 => x \in Int)
  BY <1>2, <1>3, ReadFollows
<1>5. /\ delivered'.move = Moved(n, d, r.pressed)
      /\ delivered'.scroll = Scrolled(n, d, r.pressed)
  BY <1>3
<1> HIDE DEF d, moves, r, n, x
<1>6. /\ delivered'.move \in {0, d} /\ delivered'.scroll \in {0, d}
      /\ delivered'.move = 0 \/ delivered'.scroll = 0
  BY <1>4, <1>5 DEF Moved, Scrolled
<1>7. ASSUME d # 0
      PROVE  /\ n = prevFingers /\ d = x - PrimaryPosition(contacts)
             /\ Distance(0, d) <= JumpReject /\ d \in Int
  <2>1. moves
    BY <1>7 DEF d
  <2>2. havePrev /\ n = prevFingers /\ n > 0 /\ ~(Distance(prevX', prevX) > JumpReject)
    BY <2>1 DEF moves, Measured, Far
  <2>3. prevX' = x /\ x \in Int /\ d = x - prevX
    BY <1>3, <1>4, <2>1, <2>2 DEF d
  <2>4. /\ Distance(x, prevX) \in Nat /\ JumpReject \in Nat
        /\ Distance(0, d) = Distance(x, prevX)
    BY PadAssumption, <1>4, <2>3, DistanceIs
  <2> QED
    BY <1>4, <2>2, <2>3, <2>4
<1>8. delivered'.move + delivered'.scroll \in {0, d}
  <2>1. d \in Int
    BY <1>7
  <2> QED
    BY <1>6, <2>1
<1>9. PointerStep
  BY <1>3, <1>4, <1>6, <1>7, <1>8 DEF PointerStep, n, x
<1> QED
  BY <1>9

(* A touch ends with a click exactly when it was a tap, whatever the        *)
(* fingers, the button and the thread do meanwhile.                         *)
THEOREM TapsRecognised == PadSpec => TapIsRecognised
<1>1. PadInv /\ [PadNext]_padVars => [TapStep]_padVars
  BY TapStepHolds
<1> QED
  BY <1>1, PadInvariance, PTL DEF PadSpec, TapIsRecognised, TapStep

(* The pointer and the scroll follow one finger.                            *)
THEOREM FingerFollowed == PadSpec => PointerFollowsFinger
<1>1. PadInv /\ [PadNext]_padVars => [PointerStep]_padVars
  BY PointerStepHolds
<1> QED
  BY <1>1, PadInvariance, PTL DEF PadSpec, PointerFollowsFinger, PointerStep
=============================================================================
