---------------------------- MODULE ImportScreen ----------------------------
(***************************************************************************)
(* ui/screen_import.cpp: watch-only keys for words the operator already    *)
(* has.  The words and the passphrase are typed, the keys are derived and  *)
(* reviewed for an account the operator may change, and the file is named. *)
(*                                                                         *)
(* A letter is a member of a small set and a word a short sequence of      *)
(* them.  An export stands for the wallet it was derived from.  The rows   *)
(* of suggestions are refreshed with every edit and always offer what      *)
(* completes the cell under the cursor, so they are no state of their own. *)
(***************************************************************************)
EXTENDS Naturals, Sequences, FiniteSets, Grids

CONSTANTS Letters,          \* what the word grid takes
          Lexicon,          \* the BIP39 word list
          Mnemonics,        \* the rows of words whose checksum adds up
          MaxWordLength,    \* kMaxWordLength
          WordCounts,       \* kWordChoices
          DefaultCount,     \* the choice the screen starts with
          MaxAccount,       \* kMaxAccount
          Characters,       \* what the passphrase fields take
          MaxPassphrase,    \* bound: the characters of a passphrase
          PhysicalKeyboard, \* config().physicalKeyboard
          None

ASSUME LexiconAssumption ==
    /\ IsFiniteSet(Lexicon) /\ Lexicon \subseteq Seq(Letters)
    /\ \A w \in Lexicon : Len(w) \in 1..MaxWordLength
ASSUME CountAssumption ==
    /\ WordCounts \subseteq Nat \ {0} /\ DefaultCount \in WordCounts
    /\ {MaxAccount, MaxPassphrase, MaxWordLength} \subseteq Nat
ASSUME MnemonicAssumption ==
    /\ Mnemonics \subseteq Seq(Lexicon)
    /\ \A m \in Mnemonics : Len(m) \in WordCounts
ASSUME KeyboardAssumption == PhysicalKeyboard \in BOOLEAN

VARIABLES
    open,        \* the screen is the window's current widget
    page,        \* pages_, which stays where it was while the screen is away
    wordCount,   \* wordCount_, which outlives a visit
    words,       \* mnemonicBuffer(), as cells
    cursor,      \* cursor_, from one
    field,       \* field_
    pass, again, \* the two passphrase buffers
    account,     \* account_
    export,      \* export_
    reviewed,    \* what the review page was last drawn from
    mounted,     \* dataMounted() of the window
    writeOn,     \* writeBtn_ is enabled
    osk          \* the on-screen keyboard floats over the page

entry == <<words, cursor, field, pass, again>>
review == <<account, export, reviewed, writeOn>>
vars == <<open, page, wordCount, words, cursor, field, pass, again, account,
          export, reviewed, mounted, writeOn, osk>>

OnPage(p) == open /\ page = p

(* A button of the bottom row, which the floating keyboard covers.          *)
CanReachButtons == ~osk

Init ==
    /\ open = FALSE /\ page = "entry"
    /\ wordCount = DefaultCount
    /\ words = Blank /\ cursor = 1 /\ field = "words"
    /\ pass = <<>> /\ again = <<>>
    /\ account = 0 /\ export = None /\ reviewed = None
    /\ mounted \in BOOLEAN /\ writeOn = TRUE
    /\ osk = FALSE

-----------------------------------------------------------------------------
(***************************************************************************)
(* Shared steps                                                            *)
(***************************************************************************)

(* A mutant of WipeSecrets: the second entry of the passphrase stays.       *)
WipeSecretsButAgain ==
    /\ words' = Blank /\ cursor' = 1 /\ pass' = <<>> /\ again' = again

(* wipeSecrets(): the field stays the one that was typed into.              *)
WipeSecrets ==
    /\ words' = Blank /\ cursor' = 1 /\ pass' = <<>> /\ again' = <<>>

(* refreshEntry(): with no passphrase there is nothing to confirm.          *)
RefreshEntry(cells, i, f, p, r) ==
    /\ words' = cells /\ cursor' = i
    /\ pass' = p
    /\ again' = IF p = <<>> THEN <<>> ELSE r
    /\ field' = IF p = <<>> /\ f = "again" THEN "pass" ELSE f

(* The cell under the cursor; after a write there is but one cell left.     *)
Current == IF cursor \in DOMAIN words THEN words[cursor] ELSE <<>>

(* bip39Suggestions()                                                       *)
Suggested(cell) ==
    {w \in Lexicon : ~IsEmptyCell(cell) /\ Len(cell) <= Len(w)
                        /\ SubSeq(w, 1, Len(cell)) = cell}

(* deriveBtn_: every cell is filled, and with a word of the list but for    *)
(* the one that is being typed.                                             *)
CanDerive ==
    /\ WordCount(words) = wordCount
    /\ \A i \in DOMAIN words :
          words[i] \in Lexicon \/ (field = "words" /\ i = cursor)

(* passphraseReady()                                                        *)
PassphraseReady == pass = <<>> \/ pass = again

(* The wallet of what is typed, for an account.                             *)
Wallet(n) == [words |-> Normalised(words), pass |-> pass, account |-> n]

(* rebuildReview(): the page is drawn anew, and its button needs the stick. *)
RebuildReview(keys, stick) == reviewed' = keys /\ writeOn' = stick

-----------------------------------------------------------------------------
(***************************************************************************)
(* Into the screen, out of it, and the stick                               *)
(***************************************************************************)

(* showImport() and onEnter().  The count of words is the last one chosen.  *)
Enter ==
    /\ ~open
    /\ open' = TRUE /\ page' = "entry"
    /\ RefreshEntry(BlankGrid(wordCount), 1, "words", <<>>, <<>>)
    /\ account' = 0 /\ export' = None
    /\ osk' = ~PhysicalKeyboard
    /\ UNCHANGED <<wordCount, reviewed, mounted, writeOn>>

(* Escape, F12 and the buttons: showHome() or showShutdown(), and onLeave(). *)
Leave ==
    /\ open
    /\ open' = FALSE
    /\ WipeSecrets
    /\ UNCHANGED <<page, wordCount, field, review, mounted, osk>>

(* pollDataMount() notices a change.  dataStatusChanged reaches a screen    *)
(* that is away as well.                                                    *)
DataStatusChanged ==
    /\ mounted' = ~mounted
    /\ IF page = "review" THEN RebuildReview(export, mounted')
       ELSE UNCHANGED <<reviewed, writeOn>>
    /\ UNCHANGED <<open, page, wordCount, entry, account, export, osk>>

(* F2 or the button, on the pages that are typed into; the key of the       *)
(* keyboard itself hides it anywhere.                                       *)
SetOskVisible ==
    /\ open /\ (osk \/ page \in {"entry", "name"})
    /\ osk' = ~osk
    /\ UNCHANGED <<open, page, wordCount, entry, review, mounted>>

-----------------------------------------------------------------------------
(***************************************************************************)
(* Typing.  The keystrokes of the floating keyboard only ask whether a     *)
(* file is being named; it is hidden on the review page and stays up, if   *)
(* it was, on the last.                                                    *)
(***************************************************************************)

Typing == OnPage("entry") \/ (OnPage("result") /\ osk)

EditAt(cells, i) ==
    /\ Typing /\ field = "words"
    /\ RefreshEntry(cells, i, field, pass, again)
    /\ UNCHANGED <<open, page, wordCount, review, mounted, osk>>

EditText(text) ==
    /\ Typing /\ field # "words"
    /\ IF field = "again" THEN RefreshEntry(words, cursor, field, pass, text)
       ELSE RefreshEntry(words, cursor, field, text, again)
    /\ UNCHANGED <<open, page, wordCount, review, mounted, osk>>

ActiveText == IF field = "again" THEN again ELSE pass

(* typeCharacter() into a cell.                                             *)
TypeLetter(c) ==
    /\ cursor \in DOMAIN words /\ Len(Current) < MaxWordLength
    /\ EditAt(WithLetter(words, cursor, c), cursor)

(* typeCharacter() into a passphrase.                                       *)
TypeCharacter(c) ==
    /\ Len(ActiveText) < MaxPassphrase
    /\ EditText(Append(ActiveText, c))

(* A space or an arrow, Home, End, or a click, which is about the words     *)
(* whatever was typed before.                                               *)
SetWordCursor(i) ==
    /\ Typing /\ i # cursor
    /\ page = "entry" \/ (field = "words" /\ i = cursor + 1)
    /\ RefreshEntry(words, i, "words", pass, again)
    /\ UNCHANGED <<open, page, wordCount, review, mounted, osk>>

(* backspace() in a cell; in an empty one it steps back.                    *)
BackspaceWords ==
    IF IsEmptyCell(Current) THEN cursor > 1 /\ EditAt(words, cursor - 1)
    ELSE EditAt(WithoutLetter(words, cursor), cursor)

(* deleteWord(), which only the panel has.                                  *)
DeleteWord ==
    /\ osk /\ cursor \in DOMAIN words
    /\ EditAt(WithWord(words, cursor, <<>>), cursor)

(* clearAll(): the cells are laid out again.                                *)
ClearWords == EditAt(BlankGrid(wordCount), 1)

(* backspace() and clearAll() in a passphrase, and deleteWord() anywhere    *)
(* between the two.                                                         *)
EraseText(n) ==
    /\ n < Len(ActiveText)
    /\ osk \/ n \in {0, Len(ActiveText) - 1}
    /\ EditText(SubSeq(ActiveText, 1, n))

(* applySuggestion()                                                        *)
ApplySuggestion(w) ==
    /\ w \in Suggested(Current)
    /\ EditAt(WithWord(words, cursor, w),
              IF cursor < wordCount THEN cursor + 1 ELSE cursor)

(* setField(): F3, a click on a card, Enter, and passphraseReady() where it *)
(* says no.                                                                 *)
SetField(f) ==
    /\ OnPage("entry")
    /\ RefreshEntry(words, cursor, f, pass, again)
    /\ UNCHANGED <<open, page, wordCount, review, mounted, osk>>

(* A mutant of SetWordCount: the cursor stays where it was.                 *)
SetWordCountUnclamped(n) ==
    /\ OnPage("entry")
    /\ wordCount' = n
    /\ RefreshEntry(Resized(words, n), cursor, field, pass, again)
    /\ UNCHANGED <<open, page, review, mounted, osk>>

(* setWordCount(): shrinking wipes the cells past the new end.              *)
SetWordCount(n) ==
    /\ OnPage("entry")
    /\ wordCount' = n
    /\ RefreshEntry(Resized(words, n), IF cursor > n THEN n ELSE cursor,
                    field, pass, again)
    /\ UNCHANGED <<open, page, review, mounted, osk>>

-----------------------------------------------------------------------------
(***************************************************************************)
(* Deriving and reviewing                                                  *)
(***************************************************************************)

(* "Derive the keys", or Enter in a passphrase field, with a passphrase     *)
(* that is confirmed.                                                       *)
Deriving ==
    /\ OnPage("entry") /\ CanDerive /\ PassphraseReady
    /\ CanReachButtons \/ (PhysicalKeyboard /\ field # "words")
    /\ words' = Normalised(words)
    /\ UNCHANGED <<open, wordCount, cursor, field, pass, again, account, mounted>>

(* derive() and goTo(kReviewPage)                                           *)
Derive ==
    /\ Deriving
    /\ Normalised(words) \in Mnemonics
    /\ export' = Wallet(account)
    /\ page' = "review" /\ osk' = FALSE
    /\ RebuildReview(export', mounted)

(* derive() when the checksum or the derivation fails: the page stays.      *)
DeriveFails ==
    /\ Deriving
    /\ export' = None
    /\ UNCHANGED <<page, osk, reviewed, writeOn>>

(* A mutant of SetAccount: only the buttons and the file follow.            *)
SetAccountUndrawn(n) ==
    /\ OnPage("review")
    /\ account' = n
    /\ words' = Normalised(words)
    /\ export' = Wallet(n)
    /\ UNCHANGED <<reviewed, writeOn>>
    /\ UNCHANGED <<open, page, wordCount, cursor, field, pass, again, mounted, osk>>

(* setAccount(): the keys are derived again and the page is drawn anew.     *)
SetAccount(n) ==
    /\ OnPage("review")
    /\ account' = n
    /\ words' = Normalised(words)
    /\ export' = Wallet(n)
    /\ RebuildReview(export', mounted)
    /\ UNCHANGED <<open, page, wordCount, cursor, field, pass, again, mounted, osk>>

(* The derivation fails: the page shows the keys it showed, with an error   *)
(* under them, and there is no export.                                      *)
SetAccountFails(n) ==
    /\ OnPage("review")
    /\ account' = n
    /\ export' = None
    /\ words' = Normalised(words)
    /\ UNCHANGED <<open, page, wordCount, cursor, field, pass, again, reviewed,
                   mounted, writeOn, osk>>

(* "Back" on the review page: goTo(kEntryPage).                             *)
BackToEntry ==
    /\ OnPage("review")
    /\ page' = "entry" /\ osk' = ~PhysicalKeyboard
    /\ RefreshEntry(words, cursor, field, pass, again)
    /\ UNCHANGED <<open, wordCount, review, mounted>>

-----------------------------------------------------------------------------
(***************************************************************************)
(* Naming and writing                                                      *)
(***************************************************************************)

(* showNamePage(), from the button or Enter.                                *)
ShowNamePage ==
    /\ OnPage("review") /\ writeOn
    /\ page' = "name" /\ osk' = ~PhysicalKeyboard
    /\ UNCHANGED <<open, wordCount, entry, review, mounted>>

(* "Back" on the name page: goTo(kReviewPage) draws what there is.          *)
BackToReview ==
    /\ OnPage("name") /\ CanReachButtons
    /\ page' = "review" /\ osk' = FALSE
    /\ RebuildReview(export, mounted)
    /\ UNCHANGED <<open, wordCount, entry, account, export, mounted>>

(* doWrite() when the file is written, for which there must be something to *)
(* export; when it is not, the page stays with everything on it.            *)
DoWrite ==
    /\ OnPage("name") /\ (PhysicalKeyboard \/ CanReachButtons)
    /\ export # None
    /\ WipeSecrets
    /\ page' = "result"
    /\ UNCHANGED <<open, wordCount, field, review, mounted, osk>>

Next ==
    \/ Enter \/ Leave \/ DataStatusChanged \/ SetOskVisible
    \/ \E c \in Letters : TypeLetter(c)
    \/ \E c \in Characters : TypeCharacter(c)
    \/ \E i \in 1..wordCount : SetWordCursor(i)
    \/ BackspaceWords \/ DeleteWord \/ ClearWords
    \/ \E n \in 0..(MaxPassphrase - 1) : EraseText(n)
    \/ \E w \in Lexicon : ApplySuggestion(w)
    \/ \E f \in {"words", "pass", "again"} : SetField(f)
    \/ \E n \in WordCounts : SetWordCount(n)
    \/ Derive \/ DeriveFails
    \/ \E n \in 0..MaxAccount : SetAccount(n) \/ SetAccountFails(n)
    \/ BackToEntry \/ ShowNamePage \/ BackToReview \/ DoWrite

Spec == Init /\ [][Next]_vars

-----------------------------------------------------------------------------
(***************************************************************************)
(* Properties                                                              *)
(***************************************************************************)

Cell == UNION {[1..n -> Letters] : n \in 0..MaxWordLength}
Passphrase == UNION {[1..n -> Characters] : n \in 0..MaxPassphrase}
Exports ==
    [words : Mnemonics, pass : Passphrase, account : 0..MaxAccount] \cup {None}

(* Types; with them, that the entry page has a cell for every word it asks  *)
(* for, and the cursor in one of them, through every change of the count.   *)
TypeOK ==
    /\ open \in BOOLEAN /\ page \in {"entry", "review", "name", "result"}
    /\ wordCount \in WordCounts
    /\ \A i \in DOMAIN words : words[i] \in Cell
    /\ field \in {"words", "pass", "again"}
    /\ pass \in Passphrase /\ again \in Passphrase
    /\ account \in 0..MaxAccount
    /\ export \in Exports /\ reviewed \in Exports
    /\ mounted \in BOOLEAN /\ writeOn \in BOOLEAN /\ osk \in BOOLEAN
    /\ OnPage("entry") => Len(words) = wordCount
    /\ open => cursor \in 1..wordCount

(* "The review page is not a formality on the way to the write, it is the   *)
(* point of the screen": while it is up, or the file is named, the keys     *)
(* that would be written are those on the page, for the words, the          *)
(* passphrase and the account that are set, and the passphrase was typed    *)
(* twice.  When the derivation for another account fails, nothing would be  *)
(* written.  The button that leads to the write follows the stick, also     *)
(* when it comes or goes while the page is up, and across a change of the   *)
(* account.                                                                 *)
ReviewIsWhatIsTyped ==
    /\ OnPage("review") \/ OnPage("name") =>
          /\ pass = <<>> \/ pass = again
          /\ export = None \/ (export = Wallet(account) /\ reviewed = export)
    /\ OnPage("review") => writeOn = mounted

(* Nothing that was typed outlives what it belongs to: the buffers are      *)
(* empty while the screen is away, and "the second buffer goes with the     *)
(* first rather than sitting in memory describing a passphrase that no      *)
(* longer exists", so that the keystrokes never go to a card that is not on *)
(* the page.                                                                *)
NothingIsKept ==
    /\ ~open => words = Blank /\ pass = <<>> /\ again = <<>>
    /\ OnPage("entry") /\ pass = <<>> => again = <<>> /\ field # "again"

=============================================================================
