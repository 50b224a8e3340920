---------------------------- MODULE CreateScreen ----------------------------
(***************************************************************************)
(* ui/screen_create.cpp: the wizard that mints a wallet.  The operator     *)
(* feeds the entropy samples, writes the words down, types them back, chooses *)
(* a passphrase, confirms, and names the watch-only file.                  *)
(*                                                                         *)
(* A letter is a member of a small set and a word a short sequence of      *)
(* them.  An export stands for the wallet it was derived from: the words   *)
(* and the passphrase, of which only public keys are written.              *)
(***************************************************************************)
EXTENDS Naturals, Sequences, FiniteSets, Grids

CONSTANTS Letters,          \* what the word grid takes
          Lexicon,          \* the BIP39 word list
          MaxWordLength,    \* kMaxWordLength
          WordCounts,       \* kWordChoices
          DefaultCount,     \* the choice the wizard starts with
          Characters,       \* what the passphrase fields take
          MaxPassphrase,    \* bound: the characters of a passphrase
          Target,           \* kUserSampleTarget
          PhysicalKeyboard, \* config().physicalKeyboard
          None

ASSUME LexiconAssumption ==
    /\ IsFiniteSet(Lexicon) /\ Lexicon \subseteq Seq(Letters)
    /\ \A w \in Lexicon : Len(w) \in 1..MaxWordLength
ASSUME CountAssumption ==
    /\ WordCounts \subseteq Nat \ {0} /\ DefaultCount \in WordCounts
    /\ {Target, MaxPassphrase, MaxWordLength} \subseteq Nat
ASSUME KeyboardAssumption == PhysicalKeyboard \in BOOLEAN

VARIABLES
    open,        \* the wizard is the window's current widget
    page,        \* pages_, which stays where it was while the wizard is away
    wordCount,   \* wordCount_
    samples,     \* what the operator contributed to the pool
    seed,        \* mnemonicBuffer(), as words
    typed,       \* verificationBuffer(), as cells
    cursor,      \* verifyCursor_, from one
    verified,    \* verified_
    pass, again, \* the two passphrase buffers
    confirming,  \* passConfirming_
    export,      \* export_
    mounted,     \* dataMounted() of the window
    createOn,    \* createBtn_ is enabled
    shown,       \* the passphrase in the label of the confirmation page
    osk,         \* the on-screen keyboard floats over the page
    echo,        \* what its echo line repeats
    offers       \* suggestions on the panel, and in the page's own row

passphrase == <<pass, again, confirming>>
secrets == <<seed, typed, cursor, verified, pass, again, confirming>>
panel == <<osk, echo, offers>>
vars == <<open, page, wordCount, samples, seed, typed, cursor, verified,
          pass, again, confirming, export, mounted, createOn, shown, osk, echo,
          offers>>

Pages == {"intro", "entropy", "seed", "verify", "passphrase", "confirm", "name",
          "result"}

OnPage(p) == open /\ page = p

(* A button of the bottom row, which the floating keyboard covers.          *)
CanReachButtons == ~osk

(* Enter on a keyboard, or a button.                                        *)
CanPressOn == PhysicalKeyboard \/ ~osk

NoOffers == [panel |-> {}, row |-> {}]

Init ==
    /\ open = FALSE /\ page = "intro"
    /\ wordCount = DefaultCount
    /\ samples = 0
    /\ seed = <<>> /\ typed = Blank /\ cursor = 1 /\ verified = FALSE
    /\ pass = <<>> /\ again = <<>> /\ confirming = FALSE
    /\ export = None
    /\ mounted \in BOOLEAN /\ createOn = FALSE
    /\ shown = <<>>
    /\ osk = FALSE /\ echo = <<>> /\ offers = NoOffers

-----------------------------------------------------------------------------
(***************************************************************************)
(* Shared steps                                                            *)
(***************************************************************************)

(* wipeSecrets() but for the row of suggestions.                            *)
WipeBuffers ==
    /\ seed' = <<>> /\ typed' = Blank /\ cursor' = 1 /\ verified' = FALSE
    /\ pass' = <<>> /\ again' = <<>> /\ confirming' = FALSE

(* A mutant of WipeSecrets: the second entry of the passphrase stays.       *)
WipeSecretsButAgain ==
    /\ seed' = <<>> /\ typed' = Blank /\ cursor' = 1 /\ verified' = FALSE
    /\ pass' = <<>> /\ again' = again /\ confirming' = FALSE
    /\ offers' = [offers EXCEPT !.row = {}]

(* wipeSecrets(): the buffers, and the labels on the pages.  The panel of   *)
(* the on-screen keyboard and the confirmation page keep theirs.            *)
WipeSecrets ==
    /\ WipeBuffers
    /\ offers' = [offers EXCEPT !.row = {}]

(* refreshEcho(): the field that is typed into, on the pages that have one. *)
Echo(p, cells, i, text) ==
    CASE p = "verify" -> cells[i]
      [] p = "passphrase" -> text
      [] p = "name" -> <<>>
      [] OTHER -> echo

(* bip39Suggestions() for the cell under the cursor.                        *)
Suggested(cell) ==
    {w \in Lexicon : ~IsEmptyCell(cell) /\ Len(cell) <= Len(w)
                        /\ SubSeq(w, 1, Len(cell)) = cell}

(* compareGrid(): complete when every cell holds exactly the word that was  *)
(* generated.                                                               *)
Matches(cells) ==
    /\ seed # <<>>
    /\ \A i \in 1..Len(seed) : i <= Len(cells) /\ cells[i] = seed[i]

(* A mutant of RefreshVerify: what has matched once stays verified.         *)
RefreshVerifyOnce(p, cells, i, keyboard) ==
    /\ typed' = cells
    /\ cursor' = i
    /\ verified' = (verified \/ Matches(cells))
    /\ echo' = Echo(p, cells, i, <<>>)
    /\ offers' = IF keyboard /\ p = "verify"
                 THEN [panel |-> Suggested(cells[i]), row |-> {}]
                 ELSE [panel |-> {}, row |-> Suggested(cells[i])]

(* refreshVerify(): the grid is compared again after every change, and the  *)
(* suggestions go to the row the operator can reach.                        *)
RefreshVerify(p, cells, i, keyboard) ==
    /\ typed' = cells
    /\ cursor' = i
    /\ verified' = Matches(cells)
    /\ echo' = Echo(p, cells, i, <<>>)
    /\ offers' = IF keyboard /\ p = "verify"
                 THEN [panel |-> Suggested(cells[i]), row |-> {}]
                 ELSE [panel |-> {}, row |-> Suggested(cells[i])]

(* refreshPassphrase(): with no passphrase there is nothing to confirm.     *)
RefreshPassphrase(p, r, c) ==
    /\ pass' = p
    /\ again' = IF p = <<>> THEN <<>> ELSE r
    /\ confirming' = (c /\ p # <<>>)
    /\ echo' = IF confirming' THEN again' ELSE p

(* rebuildConfirm(): the passphrase in clear, and a button that needs the   *)
(* stick.                                                                   *)
RebuildConfirm(text, stick) ==
    /\ shown' = text
    /\ createOn' = stick

-----------------------------------------------------------------------------
(***************************************************************************)
(* Into the wizard, out of it, and the stick                               *)
(***************************************************************************)

(* showCreate() and onEnter(), from the home screen.  The keyboard is where *)
(* it was left.                                                             *)
Enter ==
    /\ ~open
    /\ open' = TRUE /\ page' = "intro"
    /\ WipeSecrets
    /\ samples' = 0 /\ export' = None
    /\ UNCHANGED <<wordCount, mounted, createOn, shown, osk, echo>>

(* showHome() or showShutdown() with onLeave(), however it came about.      *)
Leave ==
    /\ open' = FALSE
    /\ WipeSecrets
    /\ samples' = 0
    /\ UNCHANGED <<page, wordCount, export, mounted, createOn, shown, osk, echo>>

(* "Back" on the first page, the buttons of the last.                       *)
LeaveByButton ==
    /\ OnPage("intro") \/ OnPage("result")
    /\ CanReachButtons
    /\ Leave

(* F12 gets to the window from every page but the one whose keystrokes are  *)
(* all entropy.                                                             *)
LeaveByKey ==
    /\ open /\ page # "entropy"
    /\ Leave

(* pollDataMount() notices a change.  dataStatusChanged reaches a wizard    *)
(* that is away as well.                                                    *)
DataStatusChanged ==
    /\ mounted' = ~mounted
    /\ IF page = "confirm" THEN RebuildConfirm(pass, mounted')
       ELSE UNCHANGED <<createOn, shown>>
    /\ UNCHANGED <<open, page, wordCount, samples, secrets, export, panel>>

(* F2 or the button, on the pages that are typed into; the key of the       *)
(* keyboard itself hides it anywhere.                                       *)
SetOskVisible ==
    /\ open /\ (osk \/ page \in {"verify", "passphrase", "name"})
    /\ osk' = ~osk
    /\ echo' = Echo(page, typed, cursor, IF confirming THEN again ELSE pass)
    /\ UNCHANGED <<open, page, wordCount, samples, secrets, export, mounted, createOn,
                   shown, offers>>

-----------------------------------------------------------------------------
(***************************************************************************)
(* Intro, entropy and seed pages                                           *)
(***************************************************************************)

SetWordCount(n) ==
    /\ OnPage("intro")
    /\ wordCount' = n
    /\ UNCHANGED <<open, page, samples, secrets, export, mounted, createOn, shown,
                   panel>>

(* goTo() to a page that does nothing to the rest of the state.             *)
Turn(from, to) ==
    /\ OnPage(from) /\ CanReachButtons
    /\ page' = to
    /\ UNCHANGED <<open, wordCount, samples, secrets, export, mounted, createOn, shown,
                   panel>>

Continue == Turn("intro", "entropy")
BackToIntro == Turn("entropy", "intro")
ShowWordsAgain == Turn("verify", "seed")

(* A movement over the pad, or any key but Enter.                           *)
Sample ==
    /\ OnPage("entropy")
    /\ samples' = IF samples < Target THEN samples + 1 ELSE samples
    /\ UNCHANGED <<open, page, wordCount, secrets, export, mounted, createOn,
                   shown, panel>>

(* generate() when finalise() agrees.  A refusal changes nothing here.      *)
Generate(words) ==
    /\ OnPage("entropy") /\ CanPressOn
    /\ samples >= Target
    /\ Len(words) = wordCount
    /\ seed' = words
    /\ typed' = Blank /\ verified' = FALSE
    /\ page' = "seed"
    /\ UNCHANGED <<open, wordCount, samples, cursor, passphrase, export, mounted,
                   createOn, shown, panel>>

(* A mutant of Discard: the words are left to the next seed to replace.     *)
DiscardKeepingWords ==
    /\ OnPage("seed") /\ CanReachButtons
    /\ page' = "intro"
    /\ UNCHANGED <<open, wordCount, samples, secrets, export, mounted, createOn, shown,
                   panel>>

(* "Discard and start over": the pool is not reset.                         *)
Discard ==
    /\ OnPage("seed") /\ CanReachButtons
    /\ WipeSecrets
    /\ page' = "intro"
    /\ UNCHANGED <<open, wordCount, samples, export, mounted, createOn, shown, osk, echo>>

-----------------------------------------------------------------------------
(***************************************************************************)
(* Typing the words back                                                   *)
(***************************************************************************)

(* A mutant of EnterVerify: the cells are not laid out.                     *)
EnterVerifyUnlaid ==
    /\ \/ OnPage("seed") /\ CanReachButtons
       \/ OnPage("passphrase") /\ CanReachButtons
    /\ page' = "verify"
    /\ osk' = ~PhysicalKeyboard
    /\ RefreshVerify("verify", typed, cursor, osk')
    /\ UNCHANGED <<open, wordCount, samples, seed, passphrase, export, mounted, createOn,
                   shown>>

(* goTo(kVerifyPage): what was typed before is kept.                        *)
EnterVerify ==
    /\ \/ OnPage("seed") /\ CanReachButtons
       \/ OnPage("passphrase") /\ CanReachButtons
    /\ page' = "verify"
    /\ osk' = ~PhysicalKeyboard
    /\ RefreshVerify("verify", Resized(typed, Len(seed)), cursor, osk')
    /\ UNCHANGED <<open, wordCount, samples, seed, passphrase, export, mounted, createOn,
                   shown>>

(* An edit of the grid, from either keyboard.                               *)
EditGrid(cells, i) ==
    /\ OnPage("verify")
    /\ RefreshVerify("verify", cells, i, osk)
    /\ UNCHANGED <<open, page, wordCount, samples, seed, passphrase, export, mounted,
                   createOn, shown, osk>>

(* verifyType()                                                             *)
VerifyType(c) ==
    /\ Len(typed[cursor]) < MaxWordLength
    /\ EditGrid(WithLetter(typed, cursor, c), cursor)

(* verifySetCursor(): a click, Home and End, and the arrows, clamped.       *)
VerifySetCursor(i) ==
    /\ i # cursor
    /\ EditGrid(typed, i)

(* verifyBackspace(): in an empty cell it steps back.                       *)
VerifyBackspace ==
    IF IsEmptyCell(typed[cursor])
    THEN cursor > 1 /\ EditGrid(typed, cursor - 1)
    ELSE EditGrid(WithoutLetter(typed, cursor), cursor)

VerifyDeleteWord == EditGrid(WithWord(typed, cursor, <<>>), cursor)

VerifyClear == EditGrid(BlankGrid(Len(seed)), 1)

(* applyVerifySuggestion(): from the page's row, or from the panel on any   *)
(* page it floats over.                                                     *)
ApplySuggestion(w) ==
    /\ open
    /\ \/ page = "verify" /\ w \in offers.row
       \/ osk /\ w \in offers.panel
    /\ RefreshVerify(page, WithWord(typed, cursor, w),
                     IF cursor < Len(seed) THEN cursor + 1 ELSE cursor, osk)
    /\ UNCHANGED <<open, page, wordCount, samples, seed, passphrase, export, mounted,
                   createOn, shown, osk>>

-----------------------------------------------------------------------------
(***************************************************************************)
(* The passphrase                                                          *)
(***************************************************************************)

(* goTo(kPassphrasePage): from a verified grid by Enter or "Continue", and  *)
(* back from the confirmation.                                              *)
EnterPassphrase ==
    /\ \/ OnPage("verify") /\ verified /\ CanPressOn
       \/ OnPage("confirm") /\ CanReachButtons
    /\ page' = "passphrase"
    /\ osk' = ~PhysicalKeyboard
    /\ RefreshPassphrase(pass, again, confirming)
    /\ offers' = [offers EXCEPT !.panel = {}]
    /\ UNCHANGED <<open, wordCount, samples, seed, typed, cursor, verified, export,
                   mounted, createOn, shown>>

EditPassphrase(p, r, c) ==
    /\ OnPage("passphrase")
    /\ RefreshPassphrase(p, r, c)
    /\ UNCHANGED <<open, page, wordCount, samples, seed, typed, cursor, verified, export,
                   mounted, createOn, shown, osk, offers>>

(* A key, Backspace, or the keyboard's delete-word and clear, into the      *)
(* field that is active.                                                    *)
TypePassphrase(c) ==
    LET Into(text) == IF Len(text) < MaxPassphrase THEN Append(text, c) ELSE text
    IN  IF confirming THEN EditPassphrase(pass, Into(again), TRUE)
        ELSE EditPassphrase(Into(pass), again, FALSE)

ErasePassphrase(n) ==
    IF confirming
    THEN n < Len(again) /\ EditPassphrase(pass, SubSeq(again, 1, n), TRUE)
    ELSE n < Len(pass) /\ EditPassphrase(SubSeq(pass, 1, n), again, FALSE)

(* setPassphraseField(): F3, a click on a card, or Enter and "Continue"     *)
(* where passphraseReady() says no.                                         *)
SetPassphraseField(c) == EditPassphrase(pass, again, c)

(* passphraseReady()                                                        *)
PassphraseReady == pass = <<>> \/ pass = again

(* leavePassphrasePage() to goTo(kConfirmPage).                             *)
LeavePassphrase ==
    /\ OnPage("passphrase") /\ CanPressOn
    /\ PassphraseReady
    /\ page' = "confirm"
    /\ RebuildConfirm(pass, mounted)
    /\ osk' = FALSE
    /\ UNCHANGED <<open, wordCount, samples, secrets, export, mounted, echo, offers>>

-----------------------------------------------------------------------------
(***************************************************************************)
(* Confirming, naming and writing                                          *)
(***************************************************************************)

(* showNamePage(): the export is derived before its file is named.          *)
ShowNamePage ==
    /\ OnPage("confirm") /\ CanReachButtons
    /\ createOn
    /\ export' = [words |-> seed, pass |-> pass]
    /\ page' = "name"
    /\ osk' = ~PhysicalKeyboard
    /\ echo' = <<>>
    /\ UNCHANGED <<open, wordCount, samples, secrets, mounted, createOn, shown, offers>>

(* The derivation fails: the page stays, and there is no export.            *)
ShowNamePageFails ==
    /\ OnPage("confirm") /\ CanReachButtons
    /\ createOn
    /\ export' = None
    /\ UNCHANGED <<open, page, wordCount, samples, secrets, mounted, createOn, shown,
                   panel>>

BackToConfirm ==
    /\ OnPage("name") /\ CanReachButtons
    /\ page' = "confirm"
    /\ RebuildConfirm(pass, mounted)
    /\ osk' = FALSE
    /\ UNCHANGED <<open, wordCount, samples, secrets, export, mounted, echo, offers>>

(* doCreate() when the file is written; when it is not, the page stays with *)
(* everything on it.                                                        *)
DoCreate ==
    /\ OnPage("name") /\ CanPressOn
    /\ WipeSecrets
    /\ page' = "result"
    /\ UNCHANGED <<open, wordCount, samples, export, mounted, createOn, shown, osk, echo>>

Seeds == UNION {[1..n -> Lexicon] : n \in WordCounts}

Next ==
    \/ Enter \/ LeaveByButton \/ LeaveByKey \/ DataStatusChanged \/ SetOskVisible
    \/ \E n \in WordCounts : SetWordCount(n)
    \/ Continue \/ BackToIntro \/ ShowWordsAgain \/ Sample \/ Discard
    \/ \E words \in Seeds : Generate(words)
    \/ EnterVerify
    \/ \E c \in Letters : VerifyType(c)
    \/ \E i \in 1..Len(seed) : VerifySetCursor(i)
    \/ VerifyBackspace \/ VerifyDeleteWord \/ VerifyClear
    \/ \E w \in Lexicon : ApplySuggestion(w)
    \/ EnterPassphrase
    \/ \E c \in Characters : TypePassphrase(c)
    \/ \E n \in 0..(MaxPassphrase - 1) : ErasePassphrase(n)
    \/ \E c \in BOOLEAN : SetPassphraseField(c)
    \/ LeavePassphrase
    \/ ShowNamePage \/ ShowNamePageFails \/ BackToConfirm \/ DoCreate

Spec == Init /\ [][Next]_vars

-----------------------------------------------------------------------------
(***************************************************************************)
(* Properties                                                              *)
(***************************************************************************)

Cell == UNION {[1..n -> Letters] : n \in 0..MaxWordLength}
Passphrase == UNION {[1..n -> Characters] : n \in 0..MaxPassphrase}
Exports == [words : Seeds, pass : Passphrase] \cup {None}

(* Types; with them, that the grid has a cell for every word whenever it is *)
(* typed into, with the cursor in one of them, whatever the word count was  *)
(* before.                                                                  *)
TypeOK ==
    /\ open \in BOOLEAN /\ page \in Pages
    /\ wordCount \in WordCounts
    /\ samples \in 0..Target
    /\ seed \in Seeds \cup {<<>>}
    /\ \A i \in DOMAIN typed : typed[i] \in Cell
    /\ cursor \in DOMAIN typed
    /\ verified \in BOOLEAN /\ confirming \in BOOLEAN
    /\ pass \in Passphrase /\ again \in Passphrase
    /\ export \in Exports
    /\ mounted \in BOOLEAN /\ createOn \in BOOLEAN /\ osk \in BOOLEAN
    /\ shown \in Passphrase /\ echo \in Cell \cup Passphrase
    /\ offers.panel \subseteq Lexicon /\ offers.row \subseteq Lexicon
    /\ OnPage("verify") => Len(typed) = wordCount /\ Len(seed) = wordCount

(* "This is the only way to find out that what you wrote down is what this  *)
(* machine generated": no page after the verification is up unless every    *)
(* cell holds exactly the word that was generated, by whatever way the      *)
(* operator went back and forth.                                            *)
BackupIsProved ==
    \A p \in {"passphrase", "confirm", "name"} :
        OnPage(p) => seed # <<>> /\ typed = seed

(* While a file is named, what will be written is the wallet of the words   *)
(* and the passphrase in the buffers, the passphrase was typed twice, and   *)
(* it is the one the confirmation page showed to be written down.           *)
ExportIsConfirmed ==
    OnPage("name") =>
        /\ export = [words |-> seed, pass |-> pass]
        /\ pass = <<>> \/ pass = again
        /\ shown = pass

(* A file leads back to the paper: what would be written is proved and      *)
(* confirmed, and the button that leads there follows the stick, also when  *)
(* it comes or goes while the page is up.                                   *)
ExportIsProved ==
    /\ BackupIsProved
    /\ ExportIsConfirmed
    /\ OnPage("confirm") => createOn = mounted

(* The words and the passphrase are gone from their buffers whenever the    *)
(* wizard is not open, and on the page that tells the operator so.          *)
NothingInTheBuffers ==
    ~open \/ page = "result" =>
        seed = <<>> /\ typed = Blank /\ pass = <<>> /\ again = <<>>

(* The words on the operator's paper stay the words in the machine: while   *)
(* there is a seed it may go, but never turn into another one.              *)
SeedIsNeverReplaced == [][seed # <<>> => seed' \in {seed, <<>>}]_vars

=============================================================================
