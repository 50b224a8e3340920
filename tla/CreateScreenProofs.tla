-------------------------- MODULE CreateScreenProofs --------------------------
(***************************************************************************)
(* The wizard, for every word list, alphabet and number of words: what is  *)
(* exported was typed back, the buffers are empty at the end, and a seed   *)
(* is never replaced by another.                                           *)
(***************************************************************************)
EXTENDS CreateScreen, TLAPS

(* A row of cells, whatever they hold.                                      *)
IsRow(cells) ==
    /\ Len(cells) \in Nat \ {0}
    /\ cells = [i \in 1..Len(cells) |-> cells[i]]

LEMMA BlankIsRow == IsRow(Blank) /\ Len(Blank) = 1
BY DEF IsRow, Blank

LEMMA ExceptRow ==
    ASSUME NEW cells, IsRow(cells), NEW i \in 1..Len(cells), NEW w
    PROVE  LET new == [cells EXCEPT ![i] = w]
           IN  IsRow(new) /\ Len(new) = Len(cells)
<1> DEFINE new == [cells EXCEPT ![i] = w]
<1>1. new = [j \in 1..Len(cells) |-> IF j = i THEN w ELSE cells[j]]
  BY DEF IsRow
<1>2. Len(new) = Len(cells)
  BY <1>1 DEF IsRow
<1> QED
  BY <1>1, <1>2 DEF IsRow

LEMMA ResizedRow ==
    ASSUME NEW cells, NEW n \in Nat \ {0}
    PROVE  IsRow(Resized(cells, n)) /\ Len(Resized(cells, n)) = n
BY DEF IsRow, Resized

LEMMA BlankGridRow ==
    ASSUME NEW n \in Nat \ {0}
    PROVE  IsRow(BlankGrid(n)) /\ Len(BlankGrid(n)) = n
BY DEF IsRow, BlankGrid

(* Every edit of a cell leaves a row as long as it was.                     *)
LEMMA EditRow ==
    ASSUME NEW cells, IsRow(cells), NEW i \in 1..Len(cells), NEW c
    PROVE  \A new \in {WithLetter(cells, i, c), WithoutLetter(cells, i),
                        WithWord(cells, i, c)} :
               IsRow(new) /\ Len(new) = Len(cells)
<1>1. \A w : IsRow([cells EXCEPT ![i] = w]) /\ Len([cells EXCEPT ![i] = w]) = Len(cells)
  BY ExceptRow
<1>2. IsRow(WithLetter(cells, i, c)) /\ Len(WithLetter(cells, i, c)) = Len(cells)
  BY <1>1 DEF WithLetter
<1>a. PICK w : WithoutLetter(cells, i) = [cells EXCEPT ![i] = w]
  BY DEF WithoutLetter
<1>3. IsRow(WithoutLetter(cells, i)) /\ Len(WithoutLetter(cells, i)) = Len(cells)
  BY <1>1, <1>a
<1>4. IsRow(WithWord(cells, i, c)) /\ Len(WithWord(cells, i, c)) = Len(cells)
  BY <1>1 DEF WithWord
<1> QED
  BY <1>2, <1>3, <1>4

LEMMA SeedIsRow ==
    ASSUME NEW words \in Seeds
    PROVE  IsRow(words) /\ words # <<>>
BY CountAssumption DEF IsRow, Seeds

(* compareGrid() of a grid of the right size says yes to the seed only.     *)
LEMMA MatchIsEqual ==
    ASSUME NEW cells, IsRow(cells), IsRow(seed), Len(cells) = Len(seed), Matches(cells)
    PROVE  cells = seed
BY DEF IsRow, Matches

-----------------------------------------------------------------------------
(* What the buffers hold, and where the cursor may be.                      *)
Shape ==
    /\ IsRow(typed) /\ cursor \in 1..Len(typed)
    /\ seed = <<>> => cursor = 1 /\ Len(typed) = 1
    /\ seed # <<>> => IsRow(seed) /\ Len(typed) \in {1, Len(seed)}
    /\ offers \in [panel : SUBSET Lexicon, row : SUBSET Lexicon]

(* Which pages have a seed behind them, and on which the keyboard, or what  *)
(* it suggests, cannot be.                                                  *)
Behind ==
    /\ page \in Pages
    /\ ~open \/ page \in {"intro", "entropy", "result"} => seed = <<>>
    /\ open /\ page \in {"seed", "verify", "passphrase", "confirm", "name"} => seed # <<>>
    /\ open /\ page \in {"entropy", "seed"} => ~osk
    /\ page \in {"passphrase", "confirm", "name", "result"} => offers.panel = {}

(* What makes the way from one page to the next a proof.                    *)
Earned ==
    /\ OnPage("verify") => Len(typed) = Len(seed)
    /\ OnPage("verify") /\ verified => typed = seed
    /\ OnPage("confirm") => shown = pass /\ (pass = <<>> \/ pass = again)

IInv == Shape /\ Behind /\ Earned /\ ExportIsProved /\ NothingInTheBuffers

USE DEF IInv, Earned, ExportIsProved, BackupIsProved, ExportIsConfirmed,
        NothingInTheBuffers, OnPage, Pages

-----------------------------------------------------------------------------
LEMMA InitIsInductive == Init => IInv
BY BlankIsRow DEF Init, Shape, Behind, NoOffers

(* A wizard that is wiped, and open on its first page or not at all.        *)
LEMMA WipedIsFine ==
    ASSUME IInv, WipeSecrets,
           page' \in Pages,
           open' => page' \in {"intro", "result"},
           page' \in {"passphrase", "confirm", "name", "result"} =>
              page \in {"passphrase", "confirm", "name", "result"}
    PROVE  IInv'
BY BlankIsRow DEF WipeSecrets, WipeBuffers, Shape, Behind

LEMMA WaysInAndOut ==
    ASSUME IInv, Enter \/ LeaveByButton \/ LeaveByKey \/ Discard \/ DoCreate
    PROVE  IInv'
<1>1. WipeSecrets
  BY DEF Enter, LeaveByButton, LeaveByKey, Leave, Discard, DoCreate
<1>2. /\ page' \in Pages
      /\ open' => page' \in {"intro", "result"}
      /\ page' \in {"passphrase", "confirm", "name", "result"} =>
           page \in {"passphrase", "confirm", "name", "result"}
  BY DEF Enter, LeaveByButton, LeaveByKey, Leave, Discard, DoCreate, Behind
<1> QED
  BY <1>1, <1>2, WipedIsFine

(* The stick, the keyboard, the count and the pages that only lead on.      *)
LEMMA TurningKeeps ==
    ASSUME IInv,
           \/ DataStatusChanged \/ SetOskVisible \/ Continue \/ BackToIntro
           \/ ShowWordsAgain \/ Sample \/ \E n \in WordCounts : SetWordCount(n)
    PROVE  IInv'
<1>1. CASE DataStatusChanged
  BY <1>1 DEF DataStatusChanged, RebuildConfirm, secrets, panel, Shape, Behind
<1>2. CASE SetOskVisible
  BY <1>2 DEF SetOskVisible, secrets, Shape, Behind
<1>3. CASE Continue
  BY <1>3 DEF Continue, Turn, CanReachButtons, secrets, panel, Shape, Behind
<1>4. CASE BackToIntro
  BY <1>4 DEF BackToIntro, Turn, CanReachButtons, secrets, panel, Shape, Behind
<1>5. CASE ShowWordsAgain
  BY <1>5 DEF ShowWordsAgain, Turn, CanReachButtons, secrets, panel, Shape, Behind
<1>6. CASE Sample
  BY <1>6 DEF Sample, secrets, panel, Shape, Behind
<1>7. CASE \E n \in WordCounts : SetWordCount(n)
  BY <1>7 DEF SetWordCount, secrets, panel, Shape, Behind
<1> QED
  BY <1>1, <1>2, <1>3, <1>4, <1>5, <1>6, <1>7

(* A seed is generated where there is none, and nothing was typed.          *)
LEMMA GenerateKeeps ==
    ASSUME IInv, NEW words \in Seeds, Generate(words)
    PROVE  IInv'
<1>1. seed = <<>> /\ seed' = words /\ typed' = Blank /\ cursor' = 1
  BY DEF Generate, Shape, Behind
<1>2. Shape'
  BY <1>1, SeedIsRow, BlankIsRow DEF Generate, panel, Shape
<1>3. Behind'
  BY <1>1, SeedIsRow DEF Generate, CanPressOn, panel, Behind
<1> QED
  BY <1>2, <1>3 DEF Generate, passphrase

(* The grid is compared again: what is verified is the seed.                *)
LEMMA RefreshKeeps ==
    ASSUME IInv, seed # <<>>,
           NEW p, NEW cells, IsRow(cells), Len(cells) = Len(seed),
           NEW i \in 1..Len(cells), NEW keyboard,
           RefreshVerify(p, cells, i, keyboard), seed' = seed
    PROVE  /\ Shape'
           /\ Len(typed') = Len(seed')
           /\ verified' => typed' = seed'
<1>1. Suggested(cells[i]) \subseteq Lexicon
  BY DEF Suggested
<1>2. offers' \in [panel : SUBSET Lexicon, row : SUBSET Lexicon]
  BY <1>1 DEF RefreshVerify
<1>3. verified' => typed' = seed'
  BY MatchIsEqual DEF RefreshVerify, Shape
<1> QED
  BY <1>2, <1>3 DEF RefreshVerify, Shape

LEMMA EnterVerifyKeeps ==
    ASSUME IInv, EnterVerify
    PROVE  IInv'
<1>1. seed # <<>> /\ seed' = seed /\ Len(seed) \in Nat \ {0}
  BY DEF EnterVerify, Behind, Shape, IsRow
<1>2. cursor \in 1..Len(seed)
  <2>1. cursor \in 1..Len(typed) /\ Len(typed) \in {1, Len(seed)}
    BY <1>1, Zenon DEF Shape
  <2>2. CASE Len(typed) = Len(seed)
    BY <2>1, <2>2
  <2>3. CASE Len(typed) = 1
    <3>1. cursor \in 1..1 /\ 1 \in 1..Len(seed)
      BY <1>1, <2>1, <2>3
    <3> QED
      BY <3>1
  <2> QED
    BY <2>1, <2>2, <2>3
<1>3. /\ IsRow(Resized(typed, Len(seed)))
      /\ Len(Resized(typed, Len(seed))) = Len(seed)
  BY <1>1, ResizedRow
<1>4. RefreshVerify("verify", Resized(typed, Len(seed)), cursor, osk')
  BY DEF EnterVerify
<1>5. Shape' /\ Len(typed') = Len(seed') /\ (verified' => typed' = seed')
  BY <1>1, <1>2, <1>3, <1>4, RefreshKeeps
<1> QED
  BY <1>1, <1>5 DEF EnterVerify, Behind

(* The edits of the grid, from either keyboard.                             *)
LEMMA EditKeeps ==
    ASSUME IInv, NEW cells, IsRow(cells), Len(cells) = Len(typed),
           NEW i \in 1..Len(cells), EditGrid(cells, i)
    PROVE  IInv'
<1>1. seed # <<>> /\ seed' = seed /\ Len(typed) = Len(seed)
  BY DEF EditGrid, Behind
<1>2. RefreshVerify("verify", cells, i, osk)
  BY DEF EditGrid
<1>3. Shape' /\ Len(typed') = Len(seed') /\ (verified' => typed' = seed')
  BY <1>1, <1>2, RefreshKeeps
<1> QED
  BY <1>1, <1>3 DEF EditGrid, Behind

LEMMA TypingKeeps ==
    ASSUME IInv,
           \/ \E c \in Letters : VerifyType(c)
           \/ \E i \in 1..Len(seed) : VerifySetCursor(i)
           \/ VerifyBackspace \/ VerifyDeleteWord \/ VerifyClear
    PROVE  IInv'
<1>1. IsRow(typed) /\ cursor \in 1..Len(typed)
  BY DEF Shape
<1>2. ASSUME NEW c PROVE
          \A new \in {WithLetter(typed, cursor, c), WithoutLetter(typed, cursor),
                      WithWord(typed, cursor, c)} :
             IsRow(new) /\ Len(new) = Len(typed)
  BY <1>1, EditRow
<1>3. ASSUME NEW c \in Letters, VerifyType(c) PROVE IInv'
  <2>1. EditGrid(WithLetter(typed, cursor, c), cursor)
    BY <1>3 DEF VerifyType
  <2> QED
    BY <1>1, <1>2, <2>1, EditKeeps
<1>4. ASSUME NEW i \in 1..Len(seed), VerifySetCursor(i) PROVE IInv'
  <2>1. EditGrid(typed, i)
    BY <1>4 DEF VerifySetCursor
  <2>2. i \in 1..Len(typed)
    BY <2>1 DEF EditGrid
  <2> QED
    BY <1>1, <2>1, <2>2, EditKeeps
<1>5. ASSUME VerifyBackspace PROVE IInv'
  <2>1. CASE IsEmptyCell(typed[cursor])
    <3>1. cursor > 1 /\ EditGrid(typed, cursor - 1)
      BY <1>5, <2>1 DEF VerifyBackspace
    <3>2. cursor - 1 \in 1..Len(typed)
      BY <1>1, <3>1 DEF IsRow
    <3> QED
      BY <1>1, <3>1, <3>2, EditKeeps
  <2>2. CASE ~IsEmptyCell(typed[cursor])
    <3>1. EditGrid(WithoutLetter(typed, cursor), cursor)
      BY <1>5, <2>2 DEF VerifyBackspace
    <3> QED
      BY <1>1, <1>2, <3>1, EditKeeps
  <2> QED
    BY <2>1, <2>2
<1>6. ASSUME VerifyDeleteWord PROVE IInv'
  <2>1. EditGrid(WithWord(typed, cursor, <<>>), cursor)
    BY <1>6 DEF VerifyDeleteWord
  <2> QED
    BY <1>1, <1>2, <2>1, EditKeeps
<1>7. ASSUME VerifyClear PROVE IInv'
  <2>1. EditGrid(BlankGrid(Len(seed)), 1)
    BY <1>7 DEF VerifyClear
  <2>2. seed # <<>> /\ Len(seed) = Len(typed) /\ Len(seed) \in Nat \ {0}
    BY <2>1 DEF EditGrid, Behind, Shape, IsRow
  <2>3. IsRow(BlankGrid(Len(seed))) /\ Len(BlankGrid(Len(seed))) = Len(typed)
    BY <2>2, BlankGridRow
  <2>4. 1 \in 1..Len(BlankGrid(Len(seed)))
    BY <2>2, <2>3
  <2> QED
    BY <2>1, <2>3, <2>4, EditKeeps
<1> QED
  BY <1>3, <1>4, <1>5, <1>6, <1>7

(* A suggestion can only be taken while the words are typed back, or, from  *)
(* a keyboard that was left up, on the first page, where it goes nowhere.   *)
LEMMA SuggestionKeeps ==
    ASSUME IInv, NEW w \in Lexicon, ApplySuggestion(w)
    PROVE  IInv'
<1> DEFINE cells == WithWord(typed, cursor, w)
           next == IF cursor < Len(seed) THEN cursor + 1 ELSE cursor
<1>1. /\ RefreshVerify(page, cells, next, osk)
      /\ open' = open /\ page' = page /\ seed' = seed /\ osk' = osk
      /\ pass' = pass /\ again' = again /\ shown' = shown /\ export' = export
      /\ createOn' = createOn /\ mounted' = mounted
  BY DEF ApplySuggestion, passphrase
<1>2. open /\ page \in {"intro", "verify"}
  BY DEF ApplySuggestion, Behind
<1>3. IsRow(typed) /\ cursor \in 1..Len(typed)
  BY DEF Shape
<1>4. IsRow(cells) /\ Len(cells) = Len(typed)
  BY <1>3, EditRow
<1>5. CASE page = "verify"
  <2>1. seed # <<>> /\ Len(typed) = Len(seed) /\ Len(seed) \in Nat
    BY <1>2, <1>3, <1>5 DEF Behind, IsRow
  <2>2. next \in 1..Len(cells)
    BY <1>3, <1>4, <2>1
  <2>3. Shape' /\ Len(typed') = Len(seed') /\ (verified' => typed' = seed')
    <3> HIDE DEF cells, next
    <3> QED
      BY <1>1, <1>4, <2>1, <2>2, RefreshKeeps
  <2> QED
    BY <1>1, <1>2, <1>5, <2>3, <2>1 DEF Behind
<1>6. CASE page = "intro"
  <2>1. seed = <<>> /\ cursor = 1 /\ Len(typed) = 1
    BY <1>6 DEF Behind, Shape
  <2>2. next = 1
    BY <2>1
  <2>3. cursor' = 1 /\ typed' = cells
    BY <1>1, <2>2 DEF RefreshVerify
  <2>4. Suggested(cells[next]) \subseteq Lexicon
    BY DEF Suggested
  <2>5. offers' \in [panel : SUBSET Lexicon, row : SUBSET Lexicon]
    <3> HIDE DEF cells, next
    <3> QED
      BY <1>1, <2>4 DEF RefreshVerify
  <2>6. Shape'
    <3> HIDE DEF cells, next
    <3> QED
      BY <1>1, <1>4, <2>1, <2>3, <2>5 DEF Shape
  <2> QED
    BY <1>1, <1>2, <1>6, <2>1, <2>6 DEF Behind
<1> QED
  BY <1>2, <1>5, <1>6

(* The passphrase is chosen: from here on the grid is out of reach.         *)
LEMMA PassphraseKeeps ==
    ASSUME IInv,
           \/ EnterPassphrase
           \/ \E c \in Characters : TypePassphrase(c)
           \/ \E n \in 0..(MaxPassphrase - 1) : ErasePassphrase(n)
           \/ \E c \in BOOLEAN : SetPassphraseField(c)
    PROVE  IInv'
<1>1. CASE EnterPassphrase
  <2>1. seed # <<>> /\ typed = seed
    BY <1>1 DEF EnterPassphrase, Behind
  <2>2. Shape' /\ Behind'
    BY <1>1, <2>1 DEF EnterPassphrase, Shape, Behind
  <2> QED
    BY <1>1, <2>1, <2>2 DEF EnterPassphrase
<1>2. CASE \E p, r, c : EditPassphrase(p, r, c)
  <2>1. Shape' /\ Behind'
    BY <1>2 DEF EditPassphrase, Shape, Behind
  <2> QED
    BY <1>2, <2>1 DEF EditPassphrase
<1>3. ASSUME NEW c, TypePassphrase(c) PROVE \E p, r, d : EditPassphrase(p, r, d)
  BY <1>3, Zenon DEF TypePassphrase
<1>4. ASSUME NEW n, ErasePassphrase(n) PROVE \E p, r, d : EditPassphrase(p, r, d)
  BY <1>4, Zenon DEF ErasePassphrase
<1>5. ASSUME NEW c, SetPassphraseField(c) PROVE \E p, r, d : EditPassphrase(p, r, d)
  BY <1>5, Zenon DEF SetPassphraseField
<1> QED
  BY <1>1, <1>2, <1>3, <1>4, <1>5

(* Confirming and naming.                                                   *)
LEMMA ConfirmingKeeps ==
    ASSUME IInv, LeavePassphrase \/ ShowNamePage \/ ShowNamePageFails \/ BackToConfirm
    PROVE  IInv'
<1>1. CASE LeavePassphrase
  BY <1>1 DEF LeavePassphrase, PassphraseReady, RebuildConfirm, secrets, Shape, Behind
<1>2. CASE ShowNamePage
  BY <1>2 DEF ShowNamePage, secrets, Shape, Behind
<1>3. CASE ShowNamePageFails
  BY <1>3 DEF ShowNamePageFails, secrets, panel, Shape, Behind
<1>4. CASE BackToConfirm
  BY <1>4 DEF BackToConfirm, RebuildConfirm, secrets, Shape, Behind
<1> QED
  BY <1>1, <1>2, <1>3, <1>4

-----------------------------------------------------------------------------
LEMMA NextKeeps == IInv /\ [Next]_vars => IInv'
<1> SUFFICES ASSUME IInv, [Next]_vars PROVE IInv'
  OBVIOUS
<1>1. CASE UNCHANGED vars
  BY <1>1 DEF vars, Shape, Behind
<1>2. CASE Next
  BY <1>2, WaysInAndOut, TurningKeeps, GenerateKeeps, EnterVerifyKeeps, TypingKeeps,
     SuggestionKeeps, PassphraseKeeps, ConfirmingKeeps DEF Next
<1> QED
  BY <1>1, <1>2

-----------------------------------------------------------------------------
(* Cells and passphrases are the short sequences of their characters.       *)
LEMMA ShortSequences ==
    ASSUME NEW C, NEW m \in Nat, NEW s
    PROVE  s \in UNION {[1..n -> C] : n \in 0..m} <=> s \in Seq(C) /\ Len(s) <= m
<1>1. ASSUME s \in UNION {[1..n -> C] : n \in 0..m}
      PROVE  s \in Seq(C) /\ Len(s) <= m
  <2>1. PICK n \in 0..m : s \in [1..n -> C]
    BY <1>1
  <2> QED
    BY <2>1
<1>2. ASSUME s \in Seq(C), Len(s) <= m
      PROVE  s \in UNION {[1..n -> C] : n \in 0..m}
  <2>1. Len(s) \in 0..m /\ s \in [1..Len(s) -> C]
    BY <1>2
  <2> QED
    BY <2>1
<1> QED
  BY <1>1, <1>2

LEMMA PrefixType ==
    ASSUME NEW C, NEW s \in Seq(C), NEW n \in 0..Len(s)
    PROVE  SubSeq(s, 1, n) \in Seq(C) /\ Len(SubSeq(s, 1, n)) = n
<1>1. Len(s) \in Nat /\ n \in Nat
  OBVIOUS
<1>2. SubSeq(s, 1, n) = [i \in 1..n |-> s[i]]
  BY <1>1
<1>3. \A i \in 1..n : s[i] \in C
  BY <1>1
<1> QED
  BY <1>1, <1>2, <1>3

LEMMA CellsAre ==
    ASSUME NEW s
    PROVE  s \in Cell <=> s \in Seq(Letters) /\ Len(s) <= MaxWordLength
<1>1. MaxWordLength \in Nat
  BY CountAssumption
<1> QED
  BY <1>1, ShortSequences DEF Cell

LEMMA PassphrasesAre ==
    ASSUME NEW s
    PROVE  s \in Passphrase <=> s \in Seq(Characters) /\ Len(s) <= MaxPassphrase
<1>1. MaxPassphrase \in Nat
  BY CountAssumption
<1> QED
  BY <1>1, ShortSequences DEF Passphrase

LEMMA EmptyTexts == <<>> \in Cell /\ <<>> \in Passphrase
<1>1. <<>> \in Seq(Letters) /\ <<>> \in Seq(Characters) /\ Len(<<>>) = 0
  OBVIOUS
<1>2. 0 <= MaxWordLength /\ 0 <= MaxPassphrase
  BY CountAssumption
<1> QED
  BY <1>1, <1>2, CellsAre, PassphrasesAre

LEMMA LexiconCells == Lexicon \subseteq Cell
<1>1. ASSUME NEW w \in Lexicon
      PROVE  w \in Seq(Letters) /\ Len(w) <= MaxWordLength
  <2>1. w \in Seq(Letters) /\ Len(w) \in 1..MaxWordLength /\ MaxWordLength \in Nat
    BY LexiconAssumption, CountAssumption
  <2> QED
    BY <2>1
<1> QED
  BY <1>1, CellsAre

(* Every cell of a row is a cell.                                           *)
HoldsCells(cells) == \A i \in DOMAIN cells : cells[i] \in Cell

LEMMA BlankHolds == HoldsCells(Blank)
BY EmptyTexts DEF HoldsCells, Blank

LEMMA ResizedHolds ==
    ASSUME NEW cells, IsRow(cells), HoldsCells(cells), NEW n \in Nat
    PROVE  HoldsCells(Resized(cells, n))
BY EmptyTexts DEF HoldsCells, Resized, IsRow

LEMMA BlankGridHolds ==
    ASSUME NEW n
    PROVE  HoldsCells(BlankGrid(n))
BY EmptyTexts DEF HoldsCells, BlankGrid

LEMMA EditHolds ==
    ASSUME NEW cells, HoldsCells(cells), NEW i \in DOMAIN cells
    PROVE  /\ \A w \in Cell : HoldsCells(WithWord(cells, i, w))
           /\ \A c \in Letters : Len(cells[i]) < MaxWordLength =>
                 HoldsCells(WithLetter(cells, i, c))
           /\ HoldsCells(WithoutLetter(cells, i))
<1>1. ASSUME NEW w \in Cell
      PROVE  HoldsCells([cells EXCEPT ![i] = w])
  BY DEF HoldsCells
<1>2. cells[i] \in Seq(Letters) /\ Len(cells[i]) <= MaxWordLength /\ cells[i] \in Cell
  BY CellsAre DEF HoldsCells
<1>3. ASSUME NEW c \in Letters, Len(cells[i]) < MaxWordLength
      PROVE  HoldsCells(WithLetter(cells, i, c))
  <2> DEFINE longer == Append(cells[i], c)
  <2>a. longer \in Seq(Letters) /\ Len(longer) = Len(cells[i]) + 1
    BY <1>2
  <2>b. Len(longer) <= MaxWordLength
    BY <1>2, <1>3, <2>a, CountAssumption
  <2>1. longer \in Cell
    BY <2>a, <2>b, CellsAre
  <2> QED
    BY <1>1, <2>1 DEF WithLetter
<1>4. HoldsCells(WithoutLetter(cells, i))
  <2>1. CASE IsEmptyCell(cells[i])
    <3>1. WithoutLetter(cells, i) = [cells EXCEPT ![i] = cells[i]]
      BY <2>1 DEF WithoutLetter
    <3> QED
      BY <1>1, <1>2, <3>1
  <2>2. CASE ~IsEmptyCell(cells[i])
    <3>1. Len(cells[i]) - 1 \in 0..Len(cells[i])
      BY <1>2, <2>2 DEF IsEmptyCell
    <3>2. SubSeq(cells[i], 1, Len(cells[i]) - 1) \in Cell
      <4>1. /\ SubSeq(cells[i], 1, Len(cells[i]) - 1) \in Seq(Letters)
            /\ Len(SubSeq(cells[i], 1, Len(cells[i]) - 1)) = Len(cells[i]) - 1
        BY <1>2, <3>1, PrefixType
      <4>2. Len(cells[i]) - 1 <= MaxWordLength
        BY <1>2, CountAssumption
      <4> QED
        BY <4>1, <4>2, CellsAre
    <3>3. WithoutLetter(cells, i)
            = [cells EXCEPT ![i] = SubSeq(cells[i], 1, Len(cells[i]) - 1)]
      BY <2>2 DEF WithoutLetter
    <3> QED
      BY <1>1, <3>2, <3>3
  <2> QED
    BY <2>1, <2>2
<1>5. ASSUME NEW w \in Cell
      PROVE  HoldsCells(WithWord(cells, i, w))
  BY <1>1 DEF WithWord
<1> QED
  BY <1>3, <1>4, <1>5

-----------------------------------------------------------------------------
(* What the variables hold, besides the shape of the buffers; a seed has    *)
(* the number of words that was chosen, for it cannot be changed while      *)
(* there is one.                                                            *)
Settings ==
    /\ wordCount \in WordCounts
    /\ samples \in 0..Target
    /\ export \in Exports

Flags ==
    /\ open \in BOOLEAN /\ verified \in BOOLEAN /\ confirming \in BOOLEAN
    /\ mounted \in BOOLEAN /\ createOn \in BOOLEAN /\ osk \in BOOLEAN

Texts ==
    /\ seed \in Seeds \cup {<<>>}
    /\ seed # <<>> => Len(seed) = wordCount
    /\ HoldsCells(typed)
    /\ pass \in Passphrase /\ again \in Passphrase
    /\ shown \in Passphrase /\ echo \in Cell \cup Passphrase

Types == Settings /\ Flags /\ Texts

LEMMA InitTypes == Init => Types
<1> SUFFICES ASSUME Init PROVE Types
  OBVIOUS
<1>1. Settings
  BY CountAssumption DEF Init, Settings, Exports
<1>2. Flags
  BY DEF Init, Flags
<1>3. Texts
  BY EmptyTexts, BlankHolds DEF Init, Texts
<1> QED
  BY <1>1, <1>2, <1>3 DEF Types

LEMMA WipedTypes ==
    ASSUME Types, WipeSecrets, UNCHANGED <<wordCount, mounted, createOn, shown, osk, echo>>,
           open' \in BOOLEAN, samples' \in 0..Target, export' \in Exports
    PROVE  Types'
<1>1. Settings' /\ Flags'
  BY DEF Types, Settings, Flags, WipeSecrets, WipeBuffers
<1>2. Texts'
  BY EmptyTexts, BlankHolds DEF Types, Texts, WipeSecrets, WipeBuffers, HoldsCells
<1> QED
  BY <1>1, <1>2 DEF Types

LEMMA WaysInAndOutTypes ==
    ASSUME Types, Enter \/ LeaveByButton \/ LeaveByKey \/ Discard \/ DoCreate
    PROVE  Types'
<1>1. WipeSecrets /\ UNCHANGED <<wordCount, mounted, createOn, shown, osk, echo>>
  BY DEF Enter, LeaveByButton, LeaveByKey, Leave, Discard, DoCreate
<1>2. open' \in BOOLEAN
  BY DEF Enter, LeaveByButton, LeaveByKey, Leave, Discard, DoCreate, Types, Flags
<1>3. samples' \in 0..Target
  BY CountAssumption DEF Enter, LeaveByButton, LeaveByKey, Leave, Discard, DoCreate,
     Types, Settings
<1>4. export' \in Exports
  BY DEF Enter, LeaveByButton, LeaveByKey, Leave, Discard, DoCreate, Types, Settings,
     Exports
<1> QED
  BY <1>1, <1>2, <1>3, <1>4, WipedTypes

(* A step that leaves the buffers alone.                                    *)
LEMMA UnchangedTexts ==
    ASSUME Texts, UNCHANGED <<seed, wordCount, typed, pass, again>>,
           shown' \in Passphrase, echo' \in Cell \cup Passphrase
    PROVE  Texts'
BY DEF Texts, HoldsCells

LEMMA TurningTypes ==
    ASSUME IInv, Types,
           \/ DataStatusChanged \/ SetOskVisible \/ Continue \/ BackToIntro
           \/ ShowWordsAgain \/ Sample \/ \E n \in WordCounts : SetWordCount(n)
    PROVE  Types'
<1>1. CASE DataStatusChanged
  <2>1. Settings' /\ Flags'
    BY <1>1 DEF DataStatusChanged, RebuildConfirm, secrets, panel, Types, Settings, Flags
  <2>2. Texts'
    BY <1>1, UnchangedTexts DEF DataStatusChanged, RebuildConfirm, secrets, panel, Types,
       Texts
  <2> QED
    BY <2>1, <2>2 DEF Types
<1>2. CASE SetOskVisible
  <2>1. Settings' /\ Flags'
    BY <1>2 DEF SetOskVisible, secrets, Types, Settings, Flags
  <2>2. Echo(page, typed, cursor, IF confirming THEN again ELSE pass) \in Cell \cup Passphrase
    BY EmptyTexts DEF Echo, Types, Texts, HoldsCells, Shape, IsRow
  <2>3. Texts'
    BY <1>2, <2>2, UnchangedTexts DEF SetOskVisible, secrets, Types, Texts
  <2> QED
    BY <2>1, <2>3 DEF Types
<1>3. CASE Continue \/ BackToIntro \/ ShowWordsAgain
  <2>1. Settings' /\ Flags'
    BY <1>3 DEF Continue, BackToIntro, ShowWordsAgain, Turn, secrets, panel, Types,
       Settings, Flags
  <2>2. Texts'
    BY <1>3, UnchangedTexts DEF Continue, BackToIntro, ShowWordsAgain, Turn, secrets,
       panel, Types, Texts
  <2> QED
    BY <2>1, <2>2 DEF Types
<1>4. CASE Sample
  <2>1. samples' \in 0..Target
    BY <1>4, CountAssumption DEF Sample, Types, Settings
  <2>2. Settings' /\ Flags'
    BY <1>4, <2>1 DEF Sample, secrets, panel, Types, Settings, Flags
  <2>3. Texts'
    BY <1>4, UnchangedTexts DEF Sample, secrets, panel, Types, Texts
  <2> QED
    BY <2>2, <2>3 DEF Types
<1>5. ASSUME NEW n \in WordCounts, SetWordCount(n)
      PROVE  Types'
  <2>1. seed = <<>>
    BY <1>5 DEF SetWordCount, Behind
  <2>2. Settings' /\ Flags'
    BY <1>5 DEF SetWordCount, secrets, panel, Types, Settings, Flags
  <2>3. Texts'
    BY <1>5, <2>1 DEF SetWordCount, secrets, panel, Types, Texts, HoldsCells
  <2> QED
    BY <2>2, <2>3 DEF Types
<1> QED
  BY <1>1, <1>2, <1>3, <1>4, <1>5

LEMMA GenerateTypes ==
    ASSUME Types, NEW words \in Seeds, Generate(words)
    PROVE  Types'
<1>1. Settings' /\ Flags'
  BY DEF Generate, passphrase, panel, Types, Settings, Flags
<1>2. Texts'
  BY BlankHolds DEF Generate, passphrase, panel, Types, Texts, HoldsCells
<1> QED
  BY <1>1, <1>2 DEF Types

(* A comparison of the grid, from wherever it is edited.                    *)
LEMMA RefreshTypes ==
    ASSUME Types, NEW p, NEW cells, HoldsCells(cells), NEW i \in DOMAIN cells, NEW keyboard,
           RefreshVerify(p, cells, i, keyboard), osk' \in BOOLEAN,
           UNCHANGED <<open, wordCount, samples, seed, passphrase, export, mounted,
                       createOn, shown>>
    PROVE  Types'
<1>1. Settings'
  BY DEF Types, Settings, passphrase
<1>2. verified' \in BOOLEAN
  BY DEF RefreshVerify, Matches
<1>3. Flags'
  BY <1>2 DEF Types, Flags, passphrase
<1>4. echo' \in Cell \cup Passphrase
  BY EmptyTexts DEF RefreshVerify, Echo, Types, Texts, HoldsCells
<1>5. Texts'
  BY <1>4 DEF RefreshVerify, Types, Texts, HoldsCells, passphrase
<1> QED
  BY <1>1, <1>3, <1>5 DEF Types

LEMMA EditTypes ==
    ASSUME Types, NEW cells, HoldsCells(cells), NEW i \in DOMAIN cells, EditGrid(cells, i)
    PROVE  Types'
<1>1. osk' \in BOOLEAN
  BY DEF EditGrid, Types, Flags
<1>2. RefreshVerify("verify", cells, i, osk)
  BY DEF EditGrid
<1> QED
  BY <1>1, <1>2, RefreshTypes DEF EditGrid

LEMMA VerifyTypes ==
    ASSUME IInv, Types,
           \/ EnterVerify
           \/ \E c \in Letters : VerifyType(c)
           \/ \E i \in 1..Len(seed) : VerifySetCursor(i)
           \/ VerifyBackspace \/ VerifyDeleteWord \/ VerifyClear
           \/ \E w \in Lexicon : ApplySuggestion(w)
    PROVE  Types'
<1>1. IsRow(typed) /\ HoldsCells(typed) /\ cursor \in 1..Len(typed) /\ Len(typed) \in Nat
  BY DEF Shape, Types, Texts, IsRow
<1>a. DOMAIN typed = 1..Len(typed)
  BY <1>1 DEF IsRow
<1>2. CASE EnterVerify
  <2>1. seed # <<>> /\ IsRow(seed) /\ Len(seed) \in Nat \ {0} /\ cursor \in 1..Len(seed)
    BY <1>1, <1>2 DEF EnterVerify, Behind, Shape, IsRow
  <2> DEFINE cells == Resized(typed, Len(seed))
  <2>2. HoldsCells(cells) /\ DOMAIN cells = 1..Len(seed)
    BY <1>1, <2>1, ResizedHolds DEF Resized
  <2>3. RefreshVerify("verify", cells, cursor, osk') /\ osk' \in BOOLEAN
    BY <1>2, KeyboardAssumption DEF EnterVerify
  <2> HIDE DEF cells
  <2> QED
    BY <1>2, <2>1, <2>2, <2>3, RefreshTypes DEF EnterVerify
<1>3. ASSUME NEW c \in Letters, VerifyType(c) PROVE Types'
  <2>1. HoldsCells(WithLetter(typed, cursor, c)) /\ EditGrid(WithLetter(typed, cursor, c), cursor)
    BY <1>1, <1>a, <1>3, EditHolds DEF VerifyType
  <2>2. cursor \in DOMAIN WithLetter(typed, cursor, c)
    BY <1>1, <1>a DEF WithLetter
  <2> QED
    BY <2>1, <2>2, EditTypes
<1>4. ASSUME NEW i \in 1..Len(seed), VerifySetCursor(i) PROVE Types'
  <2>1. EditGrid(typed, i) /\ i \in DOMAIN typed
    BY <1>4, <1>a DEF VerifySetCursor, EditGrid
  <2> QED
    BY <1>1, <2>1, EditTypes
<1>5. ASSUME VerifyBackspace PROVE Types'
  <2>1. CASE IsEmptyCell(typed[cursor])
    <3>1. EditGrid(typed, cursor - 1) /\ cursor - 1 \in DOMAIN typed
      BY <1>1, <1>a, <1>5, <2>1 DEF VerifyBackspace
    <3> QED
      BY <1>1, <3>1, EditTypes
  <2>2. CASE ~IsEmptyCell(typed[cursor])
    <3>1. EditGrid(WithoutLetter(typed, cursor), cursor)
      BY <1>5, <2>2 DEF VerifyBackspace
    <3>2. HoldsCells(WithoutLetter(typed, cursor))
      BY <1>1, <1>a, EditHolds
    <3>3. cursor \in DOMAIN WithoutLetter(typed, cursor)
      BY <1>1, <1>a DEF WithoutLetter
    <3> QED
      BY <3>1, <3>2, <3>3, EditTypes
  <2> QED
    BY <2>1, <2>2
<1>6. ASSUME VerifyDeleteWord PROVE Types'
  <2>1. EditGrid(WithWord(typed, cursor, <<>>), cursor)
    BY <1>6 DEF VerifyDeleteWord
  <2>2. HoldsCells(WithWord(typed, cursor, <<>>)) /\ cursor \in DOMAIN WithWord(typed, cursor, <<>>)
    BY <1>1, <1>a, EditHolds, EmptyTexts DEF WithWord
  <2> QED
    BY <2>1, <2>2, EditTypes
<1>7. ASSUME VerifyClear PROVE Types'
  <2>1. EditGrid(BlankGrid(Len(seed)), 1)
    BY <1>7 DEF VerifyClear
  <2>2. Len(seed) \in Nat \ {0}
    BY <2>1 DEF EditGrid, Behind, Shape, IsRow
  <2>3. HoldsCells(BlankGrid(Len(seed))) /\ 1 \in DOMAIN BlankGrid(Len(seed))
    BY <2>2, BlankGridHolds DEF BlankGrid
  <2> QED
    BY <2>1, <2>3, EditTypes
<1>8. ASSUME NEW w \in Lexicon, ApplySuggestion(w) PROVE Types'
  <2> DEFINE cells == WithWord(typed, cursor, w)
             next == IF cursor < Len(seed) THEN cursor + 1 ELSE cursor
  <2>1. HoldsCells(cells) /\ DOMAIN cells = 1..Len(typed)
    BY <1>1, <1>a, EditHolds, LexiconCells DEF WithWord
  <2>2. next \in 1..Len(typed)
    <3>1. open /\ page \in {"intro", "verify"}
      BY <1>8 DEF ApplySuggestion, Behind
    <3>2. CASE page = "verify"
      BY <1>1, <3>1, <3>2 DEF Shape
    <3>3. CASE page = "intro"
      <4>1. seed = <<>>
        BY <3>3 DEF Behind
      <4> QED
        BY <1>1, <4>1
    <3> QED
      BY <3>1, <3>2, <3>3
  <2>3. RefreshVerify(page, cells, next, osk) /\ osk' \in BOOLEAN
    BY <1>8 DEF ApplySuggestion, Types, Flags
  <2> HIDE DEF cells, next
  <2> QED
    BY <1>8, <2>1, <2>2, <2>3, RefreshTypes DEF ApplySuggestion
<1> QED
  BY <1>2, <1>3, <1>4, <1>5, <1>6, <1>7, <1>8

LEMMA EditPassphraseTypes ==
    ASSUME Types, NEW p \in Passphrase, NEW r \in Passphrase, NEW c \in BOOLEAN,
           EditPassphrase(p, r, c)
    PROVE  Types'
<1>1. Settings'
  BY DEF EditPassphrase, Types, Settings
<1>2. confirming' \in BOOLEAN
  BY DEF EditPassphrase, RefreshPassphrase
<1>3. Flags'
  BY <1>2 DEF EditPassphrase, Types, Flags
<1>4. Texts'
  BY EmptyTexts DEF EditPassphrase, RefreshPassphrase, Types, Texts, HoldsCells
<1> QED
  BY <1>1, <1>3, <1>4 DEF Types

LEMMA PassphraseTypes ==
    ASSUME Types,
           \/ EnterPassphrase
           \/ \E c \in Characters : TypePassphrase(c)
           \/ \E n \in 0..(MaxPassphrase - 1) : ErasePassphrase(n)
           \/ \E c \in BOOLEAN : SetPassphraseField(c)
    PROVE  Types'
<1>1. pass \in Passphrase /\ again \in Passphrase
  BY DEF Types, Texts
<1>2. CASE EnterPassphrase
  <2>1. Settings'
    BY <1>2 DEF EnterPassphrase, Types, Settings
  <2>2. confirming' \in BOOLEAN
    BY <1>2 DEF EnterPassphrase, RefreshPassphrase
  <2>3. Flags'
    BY <1>2, <2>2, KeyboardAssumption DEF EnterPassphrase, Types, Flags
  <2>4. Texts'
    BY <1>2, EmptyTexts DEF EnterPassphrase, RefreshPassphrase, Types, Texts, HoldsCells
  <2> QED
    BY <2>1, <2>3, <2>4 DEF Types
<1>3. ASSUME NEW c \in Characters, TypePassphrase(c) PROVE Types'
  <2> DEFINE Into(text) == IF Len(text) < MaxPassphrase THEN Append(text, c) ELSE text
  <2>1. ASSUME NEW text \in Passphrase PROVE Into(text) \in Passphrase
    <3>1. text \in Seq(Characters) /\ Len(text) \in Nat
      BY PassphrasesAre
    <3>2. Append(text, c) \in Seq(Characters) /\ Len(Append(text, c)) = Len(text) + 1
      BY <3>1
    <3>3. ASSUME Len(text) < MaxPassphrase PROVE Append(text, c) \in Passphrase
      <4>1. Len(Append(text, c)) <= MaxPassphrase
        BY <3>1, <3>2, <3>3, CountAssumption
      <4> QED
        BY <3>2, <4>1, PassphrasesAre
    <3> QED
      BY <3>3
  <2>2. \/ EditPassphrase(pass, Into(again), TRUE)
        \/ EditPassphrase(Into(pass), again, FALSE)
    BY <1>3, Zenon DEF TypePassphrase
  <2> HIDE DEF Into
  <2> QED
    BY <1>1, <2>1, <2>2, EditPassphraseTypes
<1>4. ASSUME NEW n \in 0..(MaxPassphrase - 1), ErasePassphrase(n) PROVE Types'
  <2>1. ASSUME NEW text \in Passphrase, n < Len(text)
        PROVE  SubSeq(text, 1, n) \in Passphrase
    <3>1. text \in Seq(Characters) /\ Len(text) <= MaxPassphrase /\ Len(text) \in Nat
      BY PassphrasesAre
    <3>2. n \in 0..Len(text) /\ n <= MaxPassphrase
      BY <2>1, <3>1, CountAssumption
    <3> QED
      BY <3>1, <3>2, PrefixType, PassphrasesAre
  <2>2. \/ n < Len(again) /\ EditPassphrase(pass, SubSeq(again, 1, n), TRUE)
        \/ n < Len(pass) /\ EditPassphrase(SubSeq(pass, 1, n), again, FALSE)
    BY <1>4, Zenon DEF ErasePassphrase
  <2> QED
    BY <1>1, <2>1, <2>2, EditPassphraseTypes
<1>5. ASSUME NEW c \in BOOLEAN, SetPassphraseField(c) PROVE Types'
  BY <1>1, <1>5, EditPassphraseTypes DEF SetPassphraseField
<1> QED
  BY <1>2, <1>3, <1>4, <1>5

LEMMA ConfirmingTypes ==
    ASSUME IInv, Types,
           LeavePassphrase \/ ShowNamePage \/ ShowNamePageFails \/ BackToConfirm
    PROVE  Types'
<1>1. CASE LeavePassphrase \/ BackToConfirm
  <2>1. Settings' /\ Flags'
    BY <1>1 DEF LeavePassphrase, BackToConfirm, RebuildConfirm, secrets, Types, Settings,
       Flags
  <2>2. Texts'
    BY <1>1, UnchangedTexts DEF LeavePassphrase, BackToConfirm, RebuildConfirm, secrets,
       Types, Texts
  <2> QED
    BY <2>1, <2>2 DEF Types
<1>2. CASE ShowNamePage
  <2>1. seed \in Seeds /\ pass \in Passphrase
    BY <1>2 DEF ShowNamePage, Behind, Types, Texts
  <2>2. [words |-> seed, pass |-> pass] \in Exports
    BY <2>1 DEF Exports
  <2>3. Settings' /\ Flags'
    BY <1>2, <2>2, KeyboardAssumption DEF ShowNamePage, secrets, Types, Settings, Flags
  <2>4. Texts'
    BY <1>2, UnchangedTexts, EmptyTexts DEF ShowNamePage, secrets, Types, Texts
  <2> QED
    BY <2>3, <2>4 DEF Types
<1>3. CASE ShowNamePageFails
  <2>1. Settings' /\ Flags'
    BY <1>3 DEF ShowNamePageFails, secrets, panel, Types, Settings, Flags, Exports
  <2>2. Texts'
    BY <1>3, UnchangedTexts DEF ShowNamePageFails, secrets, panel, Types, Texts
  <2> QED
    BY <2>1, <2>2 DEF Types
<1> QED
  BY <1>1, <1>2, <1>3

LEMMA NextKeepsTypes == IInv /\ Types /\ [Next]_vars => Types'
<1> SUFFICES ASSUME IInv, Types, [Next]_vars PROVE Types'
  OBVIOUS
<1>1. CASE UNCHANGED vars
  BY <1>1 DEF vars, Types, Settings, Flags, Texts, HoldsCells
<1>2. CASE Next
  BY <1>2, WaysInAndOutTypes, TurningTypes, GenerateTypes, VerifyTypes, PassphraseTypes,
     ConfirmingTypes DEF Next
<1> QED
  BY <1>1, <1>2

HIDE DEF IInv, Earned, ExportIsProved, BackupIsProved, ExportIsConfirmed,
         NothingInTheBuffers, OnPage, Pages

LEMMA Invariance == Spec => []IInv
<1>1. Init => IInv
  BY InitIsInductive
<1> QED
  BY <1>1, NextKeeps, PTL DEF Spec

(* The grid has a cell for every word whenever it is typed into, with the   *)
(* cursor in one of them; what is written down, typed and exported is made  *)
(* of words of the list.                                                    *)
THEOREM TypeCorrect == Spec => []TypeOK
<1>1. Init => Types
  BY InitTypes
<1>2. ASSUME IInv, Types PROVE TypeOK
  <2>1. cursor \in DOMAIN typed
    BY <1>2 DEF IInv, Shape, IsRow
  <2>2. offers.panel \subseteq Lexicon /\ offers.row \subseteq Lexicon /\ page \in Pages
    BY <1>2 DEF IInv, Shape, Behind
  <2>3. OnPage("verify") => Len(typed) = wordCount /\ Len(seed) = wordCount
    BY <1>2 DEF IInv, Earned, Behind, OnPage, Types, Texts
  <2> QED
    BY <1>2, <2>1, <2>2, <2>3 DEF TypeOK, Types, Settings, Flags, Texts, HoldsCells
<1> QED
  BY <1>1, <1>2, Invariance, NextKeepsTypes, PTL DEF Spec

(* What would be written was typed back in full, and its passphrase was     *)
(* typed twice and shown; the button follows the stick.                     *)
THEOREM Proved == Spec => []ExportIsProved
<1>1. IInv => ExportIsProved
  BY DEF IInv
<1> QED
  BY <1>1, Invariance, PTL

(* The buffers are empty while the wizard is away, and on its last page.    *)
THEOREM NothingRemains == Spec => []NothingInTheBuffers
<1>1. IInv => NothingInTheBuffers
  BY DEF IInv
<1> QED
  BY <1>1, Invariance, PTL

(* The words in the machine go, but never turn into others: no step but     *)
(* that of the samples makes words, and there it has none.                  *)
THEOREM NeverReplaced == Spec => SeedIsNeverReplaced
<1>1. IInv /\ [Next]_vars => [seed # <<>> => seed' \in {seed, <<>>}]_vars
  <2> SUFFICES ASSUME IInv, Next, seed # <<>> PROVE seed' \in {seed, <<>>}
    OBVIOUS
  <2>1. CASE Enter \/ LeaveByButton \/ LeaveByKey \/ Discard \/ DoCreate
    BY <2>1 DEF Enter, LeaveByButton, LeaveByKey, Leave, Discard, DoCreate, WipeSecrets,
       WipeBuffers
  <2>2. CASE \/ DataStatusChanged \/ SetOskVisible \/ Continue \/ BackToIntro
             \/ ShowWordsAgain \/ Sample \/ \E n \in WordCounts : SetWordCount(n)
    BY <2>2 DEF DataStatusChanged, SetOskVisible, Continue, BackToIntro, ShowWordsAgain,
       Turn, Sample, SetWordCount, secrets
  <2>3. ASSUME NEW words \in Seeds, Generate(words) PROVE FALSE
    BY <2>3 DEF Generate, IInv, Behind, OnPage
  <2>4. CASE \/ EnterVerify \/ \E c \in Letters : VerifyType(c)
             \/ \E i \in 1..Len(seed) : VerifySetCursor(i)
             \/ VerifyBackspace \/ VerifyDeleteWord \/ VerifyClear
             \/ \E w \in Lexicon : ApplySuggestion(w)
    BY <2>4 DEF EnterVerify, VerifyType, VerifySetCursor, VerifyBackspace,
       VerifyDeleteWord, VerifyClear, ApplySuggestion, EditGrid
  <2>5. CASE \/ EnterPassphrase
             \/ \E c \in Characters : TypePassphrase(c)
             \/ \E n \in 0..(MaxPassphrase - 1) : ErasePassphrase(n)
             \/ \E c \in BOOLEAN : SetPassphraseField(c)
    BY <2>5, Zenon DEF EnterPassphrase, TypePassphrase, ErasePassphrase,
       SetPassphraseField, EditPassphrase
  <2>6. CASE LeavePassphrase \/ ShowNamePage \/ ShowNamePageFails \/ BackToConfirm
    BY <2>6 DEF LeavePassphrase, ShowNamePage, ShowNamePageFails, BackToConfirm, secrets
  <2> QED
    BY <2>1, <2>2, <2>3, <2>4, <2>5, <2>6 DEF Next
<1> QED
  BY <1>1, Invariance, PTL DEF Spec, SeedIsNeverReplaced
=============================================================================
