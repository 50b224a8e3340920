----------------------------- MODULE SignScreen -----------------------------
(***************************************************************************)
(* ui/screen_sign.cpp on top of the signing engine: the operator picks a   *)
(* PSBT, types a key, checks it, confirms what the key verified, signs and *)
(* names the file.  The screens around it (ui/app_window.cpp) are here as  *)
(* far as they end, or lead to, a signing.                                 *)
(*                                                                         *)
(* A text in a secure buffer stands for all the ways of spacing the same   *)
(* words: normaliseWhitespace() makes no difference to it.  One keystroke  *)
(* may turn a text into any other, which is more than keystrokes can do.   *)
(***************************************************************************)
EXTENDS PsbtEngine

CONSTANTS Texts,              \* what can be typed into the key field
          Passphrases,        \* what can be typed into the passphrase fields
          Empty,              \* an empty buffer
          MasterOf,           \* the master a source, a text and a passphrase derive
          PhysicalKeyboard    \* config().physicalKeyboard

Sources == {"mnemonic", "xprv"}

ASSUME BufferAssumption == Empty \notin Texts \cup Passphrases
ASSUME MasterAssumption ==
    MasterOf \in [Sources \X Texts \X (Passphrases \cup {Empty}) -> Masters \cup {NoKey}]
ASSUME KeyboardAssumption == PhysicalKeyboard \in BOOLEAN

VARIABLES screen,       \* the widget on top of the window's stack
          page,         \* pages_ of the sign screen
          source,       \* source_: what the key field is read as
          field,        \* field_: the buffer keystrokes land in
          words,        \* mnemonicBuffer()
          pass,         \* passphraseBuffer()
          again,        \* passphraseConfirmBuffer()
          keyChecked,   \* keyChecked_
          osk,          \* the on-screen keyboard floats over the page
          shown         \* what rebuildConfirm() put on the confirmation page

screenVars == <<vars, screen, page, source, field, words, pass, again,
                keyChecked, osk, shown>>

Screens == {"home", "scan", "inspect", "sign", "shutdown"}
Pages == {"entry", "confirm", "name", "result"}
Fields == {"words", "pass", "again"}

-----------------------------------------------------------------------------

(* The master that what is typed now derives, or NoKey.                     *)
TypedMaster ==
    IF words = Empty THEN NoKey
    ELSE MasterOf[source, words, IF source = "mnemonic" THEN pass ELSE Empty]

(* passphraseReady(): no passphrase, or one that was typed twice.           *)
PassphraseReady == source = "mnemonic" /\ pass # Empty => pass = again

(* refreshDisplays() on the way out of every edit: a confirmation with no   *)
(* passphrase to confirm is wiped, and typing goes back to the passphrase.  *)
Refresh(src, f, p, r) ==
    LET stale == src # "mnemonic" \/ p = Empty
    IN  /\ again' = IF stale THEN Empty ELSE r
        /\ field' = IF stale /\ f = "again" THEN "pass" ELSE f

(* wipeAllSecrets() and the engine's clearKey(): wipeSecrets().             *)
WipeSecrets(s) ==
    /\ words' = Empty /\ pass' = Empty /\ again' = Empty
    /\ key' = NoKey
    /\ summary' = Forgotten(s)
    /\ keyChecked' = FALSE

(* A mutant of LeaveCurrent: the screen that is left is not told.           *)
LeaveCurrentSilently == UNCHANGED <<words, pass, again, key, summary, keyChecked>>

(* leaveCurrent(): only the sign screen has something to wipe.              *)
LeaveCurrent ==
    IF screen = "sign" THEN WipeSecrets(summary)
    ELSE UNCHANGED <<words, pass, again, key, summary, keyChecked>>

-----------------------------------------------------------------------------
(***************************************************************************)
(* The screens around                                                      *)
(***************************************************************************)

ScreenInit ==
    /\ Init
    /\ screen = "home"
    /\ page = "entry"
    /\ source = "mnemonic" /\ field = "words"
    /\ words = Empty /\ pass = Empty /\ again = Empty
    /\ keyChecked = FALSE
    /\ osk = FALSE
    /\ shown = [summary |-> EmptySummary, key |-> NoKey]

(* showHome(), from every screen but itself: Escape, Back, Cancel.          *)
ShowHome ==
    /\ screen # "home"
    /\ screen' = "home"
    /\ words' = Empty /\ pass' = Empty /\ again' = Empty
    /\ key' = NoKey /\ psbt' = NoPsbt /\ summary' = EmptySummary
    /\ keyChecked' = IF screen = "sign" THEN FALSE ELSE keyChecked
    /\ UNCHANGED <<page, source, field, osk, shown>>

(* showScan(): from home, Back on inspect, Back on the name page, "Sign     *)
(* another" on the result page.  sign_->onLeave() is called whatever the    *)
(* screen was.                                                              *)
ShowScan ==
    /\ \/ screen \in {"home", "inspect"}
       \/ screen = "sign" /\ page \in {"name", "result"}
    /\ screen' = "scan"
    /\ words' = Empty /\ pass' = Empty /\ again' = Empty
    /\ key' = NoKey /\ psbt' = NoPsbt /\ summary' = EmptySummary
    /\ keyChecked' = FALSE
    /\ UNCHANGED <<page, source, field, osk, shown>>

(* openSelected(): a PSBT that loads is inspected, one that does not leaves *)
(* the operator on the list with nothing loaded.                            *)
OpenSelected(f) ==
    /\ screen = "scan"
    /\ screen' = "inspect"
    /\ Load(f)
    /\ UNCHANGED <<page, source, field, words, pass, again, keyChecked, osk, shown>>

(* "Sign this transaction", enabled by InspectScreen::onEnter(), and        *)
(* SignScreen::onEnter().                                                   *)
ShowSign ==
    /\ screen = "inspect"
    /\ summary.safeToSign
    /\ screen' = "sign"
    /\ page' = "entry"
    /\ keyChecked' = FALSE
    /\ source' = "mnemonic"
    /\ words' = IF source = "mnemonic" THEN words ELSE Empty
    /\ Refresh("mnemonic", "words", pass, again)
    /\ osk' = ~PhysicalKeyboard
    /\ UNCHANGED <<psbt, key, summary, pass, shown>>

(* showShutdown(), by F12 or the button on the result page: the PSBT stays. *)
ShowShutdown ==
    /\ screen # "shutdown"
    /\ screen' = "shutdown"
    /\ LeaveCurrent
    /\ UNCHANGED <<psbt, page, source, field, osk, shown>>

-----------------------------------------------------------------------------
(***************************************************************************)
(* The key entry page                                                      *)
(***************************************************************************)

OnSignPage(p) == screen = "sign" /\ page = p

(* Where a keystroke gets through to the secure buffers: keyPressEvent()    *)
(* takes it on the entry page only, the on-screen keyboard on every page    *)
(* but the one that names the file.                                         *)
KeystrokesReachBuffers ==
    /\ screen = "sign"
    /\ page = "entry" \/ (osk /\ page \in {"confirm", "result"})

(* How the operator presses on: the physical Enter, or a button of the      *)
(* bottom row, which the floating keyboard covers.                          *)
CanPressOn == PhysicalKeyboard \/ ~osk

(* The buffer with keystrokes going into it changes to t.                   *)
Edit(t) ==
    /\ t \in IF field = "words" THEN Texts \cup {Empty} ELSE Passphrases \cup {Empty}
    /\ words' = IF field = "words" THEN t ELSE words
    /\ pass' = IF field = "pass" THEN t ELSE pass
    /\ Refresh(source, field, pass', IF field = "again" THEN t ELSE again)

(* A mutant of TypeCharacter: an edit does not invalidate the check.        *)
TypeCharacterKeepingCheck(t) ==
    /\ KeystrokesReachBuffers
    /\ t # Empty
    /\ Edit(t)
    /\ UNCHANGED <<psbt, key, summary, screen, page, source, keyChecked, osk, shown>>

(* typeCharacter(): a checked key is forgotten before the buffer changes,   *)
(* even when the buffer turns out to be full.                               *)
TypeCharacter(t) ==
    /\ KeystrokesReachBuffers
    /\ t # Empty
    /\ Edit(t)
    /\ keyChecked' = FALSE
    /\ IF keyChecked THEN ClearKey ELSE UNCHANGED vars
    /\ UNCHANGED <<screen, page, source, osk, shown>>

(* backspace(), deleteWord(), clearAll(): the key the engine holds stays.   *)
Erase(t) ==
    /\ KeystrokesReachBuffers
    /\ Edit(t)
    /\ keyChecked' = FALSE
    /\ UNCHANGED <<psbt, key, summary, screen, page, source, osk, shown>>

(* applySuggestion(): the word being typed is completed.                    *)
ApplySuggestion(t) ==
    /\ KeystrokesReachBuffers
    /\ source = "mnemonic" /\ field = "words" /\ words # Empty
    /\ t # Empty
    /\ Edit(t)
    /\ keyChecked' = FALSE
    /\ UNCHANGED <<psbt, key, summary, screen, page, source, osk, shown>>

(* setKeySource(), by the two buttons at the top of the page.               *)
SetKeySource(src) ==
    /\ OnSignPage("entry")
    /\ source' = src
    /\ IF src = source
       THEN UNCHANGED <<words, keyChecked>>
       ELSE words' = Empty /\ keyChecked' = FALSE
    /\ Refresh(src, IF src = "xprv" THEN "words" ELSE field, pass, again)
    /\ UNCHANGED <<psbt, key, summary, screen, page, pass, osk, shown>>

(* setField(), by F3 or a click on one of the cards.                        *)
SetField(f) ==
    /\ OnSignPage("entry")
    /\ source = "mnemonic"
    /\ Refresh(source, f, pass, again)
    /\ UNCHANGED <<psbt, key, summary, screen, page, source, words, pass,
                   keyChecked, osk, shown>>

(* F2 and the keyboard buttons of the entry and name pages; the key of the  *)
(* keyboard itself that hides it works everywhere.                          *)
SetOskVisible ==
    /\ screen = "sign"
    /\ osk \/ page \in {"entry", "name"}
    /\ osk' = ~osk
    /\ UNCHANGED <<psbt, key, summary, screen, page, source, field,
                   words, pass, again, keyChecked, shown>>

(* checkKey() with nothing to derive, or a passphrase not yet confirmed:    *)
(* the engine keeps whatever key it holds.                                  *)
CheckKeyRefused ==
    /\ OnSignPage("entry") /\ CanPressOn
    /\ words = Empty \/ ~PassphraseReady
    /\ keyChecked' = FALSE
    /\ field' = IF words # Empty THEN "again" ELSE field
    /\ UNCHANGED <<psbt, key, summary, screen, page, source, words, pass, again,
                   osk, shown>>

(* checkKey(): setKeyFromMnemonic() or setKeyFromXprv().                    *)
CheckKey ==
    /\ OnSignPage("entry") /\ CanPressOn
    /\ words # Empty /\ PassphraseReady
    /\ IF TypedMaster = NoKey THEN ClearKey ELSE SetKey(TypedMaster)
    /\ keyChecked' = (key' # NoKey /\ summary'.signable # {})
    /\ UNCHANGED <<screen, page, source, field, words, pass, again, osk, shown>>

(* showInspect(), "Back".                                                   *)
BackToInspect ==
    /\ OnSignPage("entry") /\ ~osk
    /\ screen' = "inspect"
    /\ WipeSecrets(summary)
    /\ UNCHANGED <<psbt, page, source, field, osk, shown>>

-----------------------------------------------------------------------------
(***************************************************************************)
(* The confirmation, naming and result pages                               *)
(***************************************************************************)

(* A mutant of ShowConfirm: the page is not rebuilt when it is shown.       *)
ShowConfirmStale ==
    /\ OnSignPage("entry") /\ CanPressOn
    /\ keyChecked
    /\ page' = "confirm"
    /\ shown' = IF shown.key = NoKey THEN [summary |-> summary, key |-> key] ELSE shown
    /\ UNCHANGED <<psbt, key, summary, screen, source, field, words, pass, again,
                   keyChecked, osk>>

(* showConfirm() and rebuildConfirm(): the page states what the engine says *)
(* now.  Enter gets here even when "Review and sign" is disabled.           *)
ShowConfirm ==
    /\ OnSignPage("entry") /\ CanPressOn
    /\ keyChecked
    /\ page' = "confirm"
    /\ shown' = [summary |-> summary, key |-> key]
    /\ UNCHANGED <<psbt, key, summary, screen, source, field, words, pass, again,
                   keyChecked, osk>>

BackToEntry ==
    /\ OnSignPage("confirm") /\ ~osk
    /\ page' = "entry"
    /\ UNCHANGED <<psbt, key, summary, screen, source, field, words, pass, again,
                   keyChecked, osk, shown>>

(* doSign() behind an enabled "Sign now", up to the engine's own guards.    *)
SignNow ==
    /\ OnSignPage("confirm") /\ CanPressOn
    /\ shown.summary.safeToSign /\ shown.summary.signable # {}
    /\ keyChecked
    /\ MaySign

(* sign() succeeds: the secrets go at once, then the file is named.         *)
DoSign ==
    /\ SignNow
    /\ SignableBy(psbt, key) # {}
    /\ psbt' = WithSignatures(psbt, key, SignableBy(psbt, key))
    /\ WipeSecrets(Summarise(psbt', key))
    /\ page' = "name"
    /\ osk' = ~PhysicalKeyboard
    /\ UNCHANGED <<screen, source, field, shown>>

(* sign() fails part of the way: the operator stays and may try again.      *)
DoSignFails ==
    /\ SignNow
    /\ SignRejected
    /\ UNCHANGED <<screen, page, source, field, words, pass, again,
                   keyChecked, osk, shown>>

(* doWrite() when writeResult() succeeds; when it fails the page stays.     *)
DoWrite ==
    /\ OnSignPage("name")
    /\ page' = "result"
    /\ UNCHANGED <<psbt, key, summary, screen, source, field, words, pass, again,
                   keyChecked, osk, shown>>

ScreenNext ==
    \/ ShowHome
    \/ ShowScan
    \/ \E f \in Files : OpenSelected(f)
    \/ ShowSign
    \/ ShowShutdown
    \/ \E t \in Texts \cup Passphrases : TypeCharacter(t)
    \/ \E t \in Texts \cup Passphrases \cup {Empty} : Erase(t)
    \/ \E t \in Texts : ApplySuggestion(t)
    \/ \E src \in Sources : SetKeySource(src)
    \/ \E f \in Fields : SetField(f)
    \/ SetOskVisible
    \/ CheckKeyRefused
    \/ CheckKey
    \/ BackToInspect
    \/ ShowConfirm
    \/ BackToEntry
    \/ DoSign
    \/ DoSignFails
    \/ DoWrite

ScreenSpec == ScreenInit /\ [][ScreenNext]_screenVars

-----------------------------------------------------------------------------
(***************************************************************************)
(* Properties                                                              *)
(***************************************************************************)

(* "Any edit invalidates a previous check": while a key counts as checked,  *)
(* the engine holds exactly the key that the buffers on screen derive, the  *)
(* passphrase was typed twice, and the key signs something.                 *)
CheckedKeyIsTyped ==
    keyChecked =>
        /\ screen = "sign"
        /\ key # NoKey /\ key = TypedMaster
        /\ PassphraseReady
        /\ summary.signable # {}

(* Every output of what is about to be signed is counted on the page as     *)
(* leaving the wallet, or it pays the key that is about to sign or commits  *)
(* to a script that names it.                                               *)
ShownIsTrue ==
    /\ shown.summary.outputs = LabelsOf(psbt, key)
    /\ \A j \in DOMAIN psbt.outputs :
          \/ j \in shown.summary.leaving
          \/ \E path \in Paths : PaysOrNames(<<key, path>>, psbt.outputs[j].script)

(* A signature appears only while the confirmation page is up, and that     *)
(* page shows the summary and the master it is made from: nothing the       *)
(* operator did since the page was built has changed either.  What it shows *)
(* is true of the PSBT at that moment, which passes every check that a      *)
(* device without a cached summary would make.                              *)
SignedAsShown ==
    [][psbt # NoPsbt /\ psbt' # NoPsbt /\ screen' # "inspect" /\ psbt' # psbt =>
          /\ OnSignPage("confirm")
          /\ shown = [summary |-> summary, key |-> key]
          /\ key = TypedMaster
          /\ ShownIsTrue
          /\ Device!Authorisable(psbt, key)]_screenVars

(* Whichever way the operator left the sign screen, nothing of what was     *)
(* typed there is left, nor the key it derived; the list and the home       *)
(* screen do not even have a PSBT.  On the sign screen itself the process   *)
(* holds no key from the moment the transaction is signed, and the page     *)
(* that asks what to call the file runs with nothing typed either.          *)
NothingLeftBehind ==
    /\ screen # "sign" \/ page \in {"name", "result"} => key = NoKey
    /\ screen # "sign" \/ page = "name" => words = Empty /\ pass = Empty /\ again = Empty
    /\ screen \in {"home", "scan"} => psbt = NoPsbt

=============================================================================
