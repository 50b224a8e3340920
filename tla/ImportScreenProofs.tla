-------------------------- MODULE ImportScreenProofs --------------------------
(***************************************************************************)
(* The import of a wallet, for every word list, alphabet and number of     *)
(* words: what is reviewed is what is typed, and nothing of it outlives    *)
(* the screen.                                                             *)
(***************************************************************************)
EXTENDS ImportScreen, FiniteSetTheorems, TLAPS

(* A row of cells, whatever they hold.                                      *)
IsRow(cells) ==
    /\ Len(cells) \in Nat \ {0}
    /\ cells = [i \in 1..Len(cells) |-> cells[i]]

LEMMA BlankIsRow == IsRow(Blank) /\ Len(Blank) = 1
BY DEF IsRow, Blank

LEMMA ExceptRow ==
    ASSUME NEW cells, IsRow(cells), NEW i \in 1..Len(cells), NEW w
    PROVE  LET new == [cells EXCEPT ![i] = w]
           IN  IsRow(new) /\ Len(new) = Len(cells)
<1> DEFINE new == [cells EXCEPT ![i] = w]
<1>1. new = [j \in 1..Len(cells) |-> IF j = i THEN w ELSE cells[j]]
  BY DEF IsRow
<1>2. Len(new) = Len(cells)
  BY <1>1 DEF IsRow
<1> QED
  BY <1>1, <1>2 DEF IsRow

LEMMA ResizedRow ==
    ASSUME NEW cells, NEW n \in Nat \ {0}
    PROVE  IsRow(Resized(cells, n)) /\ Len(Resized(cells, n)) = n
BY DEF IsRow, Resized

LEMMA BlankGridRow ==
    ASSUME NEW n \in Nat \ {0}
    PROVE  IsRow(BlankGrid(n)) /\ Len(BlankGrid(n)) = n
BY DEF IsRow, BlankGrid

(* Every edit of a cell leaves a row as long as it was.                     *)
LEMMA EditRow ==
    ASSUME NEW cells, IsRow(cells), NEW i \in 1..Len(cells), NEW c
    PROVE  \A new \in {WithLetter(cells, i, c), WithoutLetter(cells, i),
                        WithWord(cells, i, c)} :
               IsRow(new) /\ Len(new) = Len(cells)
<1>1. \A w : IsRow([cells EXCEPT ![i] = w]) /\ Len([cells EXCEPT ![i] = w]) = Len(cells)
  BY ExceptRow
<1>2. IsRow(WithLetter(cells, i, c)) /\ Len(WithLetter(cells, i, c)) = Len(cells)
  BY <1>1 DEF WithLetter
<1>a. PICK w : WithoutLetter(cells, i) = [cells EXCEPT ![i] = w]
  BY DEF WithoutLetter
<1>3. IsRow(WithoutLetter(cells, i)) /\ Len(WithoutLetter(cells, i)) = Len(cells)
  BY <1>1, <1>a
<1>4. IsRow(WithWord(cells, i, c)) /\ Len(WithWord(cells, i, c)) = Len(cells)
  BY <1>1 DEF WithWord
<1> QED
  BY <1>2, <1>3, <1>4

-----------------------------------------------------------------------------
(* Cells and passphrases are the short sequences of their characters.       *)
LEMMA ShortSequences ==
    ASSUME NEW C, NEW m \in Nat, NEW s
    PROVE  s \in UNION {[1..n -> C] : n \in 0..m} <=> s \in Seq(C) /\ Len(s) <= m
<1>1. ASSUME s \in UNION {[1..n -> C] : n \in 0..m}
      PROVE  s \in Seq(C) /\ Len(s) <= m
  <2>1. PICK n \in 0..m : s \in [1..n -> C]
    BY <1>1
  <2> QED
    BY <2>1
<1>2. ASSUME s \in Seq(C), Len(s) <= m
      PROVE  s \in UNION {[1..n -> C] : n \in 0..m}
  <2>1. Len(s) \in 0..m /\ s \in [1..Len(s) -> C]
    BY <1>2
  <2> QED
    BY <2>1
<1> QED
  BY <1>1, <1>2

LEMMA PrefixType ==
    ASSUME NEW C, NEW s \in Seq(C), NEW n \in 0..Len(s)
    PROVE  SubSeq(s, 1, n) \in Seq(C) /\ Len(SubSeq(s, 1, n)) = n
<1>1. Len(s) \in Nat /\ n \in Nat
  OBVIOUS
<1>2. SubSeq(s, 1, n) = [i \in 1..n |-> s[i]]
  BY <1>1
<1>3. \A i \in 1..n : s[i] \in C
  BY <1>1
<1> QED
  BY <1>1, <1>2, <1>3

LEMMA CellsAre ==
    ASSUME NEW s
    PROVE  s \in Cell <=> s \in Seq(Letters) /\ Len(s) <= MaxWordLength
<1>1. MaxWordLength \in Nat
  BY CountAssumption
<1> QED
  BY <1>1, ShortSequences DEF Cell

LEMMA PassphrasesAre ==
    ASSUME NEW s
    PROVE  s \in Passphrase <=> s \in Seq(Characters) /\ Len(s) <= MaxPassphrase
<1>1. MaxPassphrase \in Nat
  BY CountAssumption
<1> QED
  BY <1>1, ShortSequences DEF Passphrase

LEMMA EmptyTexts == <<>> \in Cell /\ <<>> \in Passphrase
<1>1. <<>> \in Seq(Letters) /\ <<>> \in Seq(Characters) /\ Len(<<>>) = 0
  OBVIOUS
<1>2. 0 <= MaxWordLength /\ 0 <= MaxPassphrase
  BY CountAssumption
<1> QED
  BY <1>1, <1>2, CellsAre, PassphrasesAre

LEMMA LexiconCells == Lexicon \subseteq Cell
<1>1. ASSUME NEW w \in Lexicon
      PROVE  w \in Seq(Letters) /\ Len(w) <= MaxWordLength
  <2>1. w \in Seq(Letters) /\ Len(w) \in 1..MaxWordLength /\ MaxWordLength \in Nat
    BY LexiconAssumption, CountAssumption
  <2> QED
    BY <2>1
<1> QED
  BY <1>1, CellsAre

(* Every cell of a row is a cell.                                           *)
HoldsCells(cells) == \A i \in DOMAIN cells : cells[i] \in Cell

LEMMA BlankHolds == HoldsCells(Blank)
BY EmptyTexts DEF HoldsCells, Blank

LEMMA ResizedHolds ==
    ASSUME NEW cells, IsRow(cells), HoldsCells(cells), NEW n \in Nat
    PROVE  HoldsCells(Resized(cells, n))
BY EmptyTexts DEF HoldsCells, Resized, IsRow

LEMMA BlankGridHolds ==
    ASSUME NEW n
    PROVE  HoldsCells(BlankGrid(n))
BY EmptyTexts DEF HoldsCells, BlankGrid

LEMMA EditHolds ==
    ASSUME NEW cells, HoldsCells(cells), NEW i \in DOMAIN cells
    PROVE  /\ \A w \in Cell : HoldsCells(WithWord(cells, i, w))
           /\ \A c \in Letters : Len(cells[i]) < MaxWordLength =>
                 HoldsCells(WithLetter(cells, i, c))
           /\ HoldsCells(WithoutLetter(cells, i))
<1>1. ASSUME NEW w \in Cell
      PROVE  HoldsCells([cells EXCEPT ![i] = w])
  BY DEF HoldsCells
<1>2. cells[i] \in Seq(Letters) /\ Len(cells[i]) <= MaxWordLength /\ cells[i] \in Cell
  BY CellsAre DEF HoldsCells
<1>3. ASSUME NEW c \in Letters, Len(cells[i]) < MaxWordLength
      PROVE  HoldsCells(WithLetter(cells, i, c))
  <2> DEFINE longer == Append(cells[i], c)
  <2>a. longer \in Seq(Letters) /\ Len(longer) = Len(cells[i]) + 1
    BY <1>2
  <2>b. Len(longer) <= MaxWordLength
    BY <1>2, <1>3, <2>a, CountAssumption
  <2>1. longer \in Cell
    BY <2>a, <2>b, CellsAre
  <2> QED
    BY <1>1, <2>1 DEF WithLetter
<1>4. HoldsCells(WithoutLetter(cells, i))
  <2>1. CASE IsEmptyCell(cells[i])
    <3>1. WithoutLetter(cells, i) = [cells EXCEPT ![i] = cells[i]]
      BY <2>1 DEF WithoutLetter
    <3> QED
      BY <1>1, <1>2, <3>1
  <2>2. CASE ~IsEmptyCell(cells[i])
    <3>1. Len(cells[i]) - 1 \in 0..Len(cells[i])
      BY <1>2, <2>2 DEF IsEmptyCell
    <3>2. SubSeq(cells[i], 1, Len(cells[i]) - 1) \in Cell
      <4>1. /\ SubSeq(cells[i], 1, Len(cells[i]) - 1) \in Seq(Letters)
            /\ Len(SubSeq(cells[i], 1, Len(cells[i]) - 1)) = Len(cells[i]) - 1
        BY <1>2, <3>1, PrefixType
      <4>2. Len(cells[i]) - 1 <= MaxWordLength
        BY <1>2, CountAssumption
      <4> QED
        BY <4>1, <4>2, CellsAre
    <3>3. WithoutLetter(cells, i)
            = [cells EXCEPT ![i] = SubSeq(cells[i], 1, Len(cells[i]) - 1)]
      BY <2>2 DEF WithoutLetter
    <3> QED
      BY <1>1, <3>2, <3>3
  <2> QED
    BY <2>1, <2>2
<1>5. ASSUME NEW w \in Cell
      PROVE  HoldsCells(WithWord(cells, i, w))
  BY <1>1 DEF WithWord
<1> QED
  BY <1>3, <1>4, <1>5

(* A row of words that derives a wallet has no gaps left.                   *)
LEMMA MnemonicIsNormal ==
    ASSUME NEW m \in Mnemonics
    PROVE  Normalised(m) = m
<1>1. m \in Seq(Lexicon) /\ m # <<>>
  BY MnemonicAssumption, CountAssumption
<1>2. \A i \in DOMAIN m : Len(m[i]) \in 1..MaxWordLength
  BY <1>1, LexiconAssumption
<1>3. \A i \in DOMAIN m : ~IsEmptyCell(m[i])
  BY <1>2, CountAssumption DEF IsEmptyCell
<1>4. Filled(m) = DOMAIN m
  BY <1>3 DEF Filled
<1> QED
  BY <1>1, <1>4, Zenon DEF Normalised

-----------------------------------------------------------------------------
(* What the variables hold.  The row has as many cells as there are words   *)
(* to be typed until the file is written, and makes a mnemonic while the    *)
(* keys of one are reviewed.                                                *)
Settings ==
    /\ wordCount \in WordCounts
    /\ account \in 0..MaxAccount
    /\ export \in Exports /\ reviewed \in Exports
    /\ field \in {"words", "pass", "again"}

Flags ==
    /\ open \in BOOLEAN /\ mounted \in BOOLEAN /\ writeOn \in BOOLEAN /\ osk \in BOOLEAN
    /\ page \in {"entry", "review", "name", "result"}

Reviewing == OnPage("review") \/ OnPage("name")

Row ==
    /\ IsRow(words) /\ HoldsCells(words)
    /\ OnPage("entry") \/ Reviewing => Len(words) = wordCount
    /\ Reviewing => words \in Mnemonics
    /\ open => cursor \in 1..wordCount

Texts == pass \in Passphrase /\ again \in Passphrase

Types == Settings /\ Flags /\ Row /\ Texts

LEMMA CountIsPositive ==
    ASSUME Settings
    PROVE  wordCount \in Nat \ {0}
BY CountAssumption DEF Settings

LEMMA InitTypes == Init => Types
<1> SUFFICES ASSUME Init PROVE Types
  OBVIOUS
<1>1. Settings
  BY CountAssumption DEF Init, Settings, Exports
<1>2. Flags
  BY DEF Init, Flags
<1>3. Row /\ Texts
  BY EmptyTexts, BlankHolds, BlankIsRow DEF Init, Row, Texts, Reviewing, OnPage
<1> QED
  BY <1>1, <1>2, <1>3 DEF Types

(* An edit of the row, of the cursor or of a passphrase, on the entry page, *)
(* or with a keyboard that was left up on the last.                         *)
LEMMA RefreshTypes ==
    ASSUME Types, Typing \/ OnPage("entry"),
           UNCHANGED <<open, page, review, mounted, osk>>, wordCount' \in WordCounts,
           NEW cells, IsRow(cells), HoldsCells(cells),
           OnPage("entry") => Len(cells) = wordCount',
           NEW i \in 1..wordCount', NEW f \in {"words", "pass", "again"},
           NEW p \in Passphrase, NEW r \in Passphrase, RefreshEntry(cells, i, f, p, r)
    PROVE  Types'
<1>1. Settings'
  BY DEF RefreshEntry, Types, Settings, review
<1>2. Flags'
  BY DEF Types, Flags, review
<1>3. ~Reviewing'
  BY DEF Typing, OnPage, Reviewing
<1>4. Row' /\ Texts'
  BY <1>3, EmptyTexts DEF RefreshEntry, Row, Texts, OnPage, Types
<1> QED
  BY <1>1, <1>2, <1>4 DEF Types

LEMMA EditTypes ==
    ASSUME Types, NEW cells, IsRow(cells), HoldsCells(cells),
           OnPage("entry") => Len(cells) = wordCount,
           NEW i \in 1..wordCount, EditAt(cells, i)
    PROVE  Types'
<1>1. /\ Typing /\ UNCHANGED <<open, page, wordCount, review, mounted, osk>>
      /\ RefreshEntry(cells, i, field, pass, again)
  BY DEF EditAt
<1>2. /\ wordCount' \in WordCounts /\ pass \in Passphrase /\ again \in Passphrase
      /\ field \in {"words", "pass", "again"}
  BY <1>1 DEF Types, Settings, Texts
<1> QED
  BY <1>1, <1>2, RefreshTypes

LEMMA EditTextTypes ==
    ASSUME Types, NEW text \in Passphrase, EditText(text)
    PROVE  Types'
<1>1. /\ Typing /\ UNCHANGED <<open, page, wordCount, review, mounted, osk>>
      /\ \/ RefreshEntry(words, cursor, field, pass, text)
         \/ RefreshEntry(words, cursor, field, text, again)
  BY DEF EditText
<1>2. /\ wordCount' \in WordCounts /\ pass \in Passphrase /\ again \in Passphrase
      /\ field \in {"words", "pass", "again"}
  BY <1>1 DEF Types, Settings, Texts
<1>3. /\ IsRow(words) /\ HoldsCells(words) /\ (OnPage("entry") => Len(words) = wordCount')
      /\ cursor \in 1..wordCount'
  BY <1>1 DEF Types, Row, Typing, OnPage
<1> QED
  BY <1>1, <1>2, <1>3, RefreshTypes

(* What is typed into the row.                                              *)
LEMMA WordTypes ==
    ASSUME Types,
           \/ \E c \in Letters : TypeLetter(c)
           \/ BackspaceWords \/ DeleteWord \/ ClearWords
           \/ \E w \in Lexicon : ApplySuggestion(w)
    PROVE  Types'
<1>1. /\ IsRow(words) /\ HoldsCells(words) /\ DOMAIN words = 1..Len(words)
      /\ Len(words) \in Nat /\ (OnPage("entry") => Len(words) = wordCount)
  BY DEF Types, Row, IsRow
<1>a. wordCount \in Nat \ {0}
  BY CountIsPositive DEF Types
<1>2. cursor \in 1..wordCount
  <2>1. Typing
    BY Zenon DEF TypeLetter, BackspaceWords, DeleteWord, ClearWords, ApplySuggestion, EditAt
  <2> QED
    BY <2>1 DEF Typing, OnPage, Types, Row
<1>3. ASSUME cursor \in DOMAIN words, NEW c
      PROVE  \A cells \in {WithLetter(words, cursor, c), WithoutLetter(words, cursor),
                           WithWord(words, cursor, c)} :
                IsRow(cells) /\ Len(cells) = Len(words)
  <2>1. cursor \in 1..Len(words)
    BY <1>1, <1>3
  <2> QED
    BY <1>1, <2>1, EditRow
<1>4. ASSUME NEW cells, IsRow(cells), Len(cells) = Len(words), HoldsCells(cells),
             NEW i \in 1..wordCount, EditAt(cells, i)
      PROVE  Types'
  BY <1>1, <1>4, EditTypes
<1>5. ASSUME NEW c \in Letters, TypeLetter(c) PROVE Types'
  <2>1. cursor \in DOMAIN words /\ EditAt(WithLetter(words, cursor, c), cursor)
    BY <1>5 DEF TypeLetter
  <2>2. HoldsCells(WithLetter(words, cursor, c))
    BY <1>1, <1>5, <2>1, EditHolds DEF TypeLetter, Current
  <2> QED
    BY <1>2, <1>3, <1>4, <2>1, <2>2
<1>6. ASSUME BackspaceWords PROVE Types'
  <2>1. CASE IsEmptyCell(Current)
    <3>1. cursor > 1 /\ EditAt(words, cursor - 1)
      BY <1>6, <2>1 DEF BackspaceWords
    <3>2. cursor - 1 \in 1..wordCount
      BY <1>a, <1>2, <3>1
    <3> QED
      BY <1>1, <1>4, <3>1, <3>2
  <2>2. CASE ~IsEmptyCell(Current)
    <3>1. EditAt(WithoutLetter(words, cursor), cursor)
      BY <1>6, <2>2 DEF BackspaceWords
    <3>2. cursor \in DOMAIN words
      BY <2>2 DEF Current, IsEmptyCell
    <3>3. HoldsCells(WithoutLetter(words, cursor))
      BY <1>1, <3>2, EditHolds
    <3> QED
      BY <1>2, <1>3, <1>4, <3>1, <3>2, <3>3
  <2> QED
    BY <2>1, <2>2
<1>7. ASSUME DeleteWord PROVE Types'
  <2>1. cursor \in DOMAIN words /\ EditAt(WithWord(words, cursor, <<>>), cursor)
    BY <1>7 DEF DeleteWord
  <2>2. HoldsCells(WithWord(words, cursor, <<>>))
    BY <1>1, <2>1, EditHolds, EmptyTexts
  <2> QED
    BY <1>2, <1>3, <1>4, <2>1, <2>2
<1>8. ASSUME ClearWords PROVE Types'
  <2>1. EditAt(BlankGrid(wordCount), 1) /\ 1 \in 1..wordCount
    BY <1>a, <1>8 DEF ClearWords
  <2>2. /\ IsRow(BlankGrid(wordCount)) /\ Len(BlankGrid(wordCount)) = wordCount
        /\ HoldsCells(BlankGrid(wordCount))
    BY <1>a, BlankGridRow, BlankGridHolds
  <2> QED
    BY <2>1, <2>2, EditTypes
<1>9. ASSUME NEW w \in Lexicon, ApplySuggestion(w) PROVE Types'
  <2> DEFINE next == IF cursor < wordCount THEN cursor + 1 ELSE cursor
  <2>1. EditAt(WithWord(words, cursor, w), next)
    BY <1>9 DEF ApplySuggestion
  <2>2. cursor \in DOMAIN words
    BY <1>9 DEF ApplySuggestion, Suggested, Current, IsEmptyCell
  <2>3. HoldsCells(WithWord(words, cursor, w))
    BY <1>1, <2>2, EditHolds, LexiconCells
  <2>4. next \in 1..wordCount
    BY <1>a, <1>2
  <2> HIDE DEF next
  <2> QED
    BY <1>3, <1>4, <2>1, <2>2, <2>3, <2>4
<1> QED
  BY <1>5, <1>6, <1>7, <1>8, <1>9

(* What is typed into a passphrase.                                         *)
LEMMA TextTypes ==
    ASSUME Types,
           \/ \E c \in Characters : TypeCharacter(c)
           \/ \E n \in 0..(MaxPassphrase - 1) : EraseText(n)
    PROVE  Types'
<1>1. /\ ActiveText \in Seq(Characters) /\ Len(ActiveText) <= MaxPassphrase
      /\ Len(ActiveText) \in Nat /\ MaxPassphrase \in Nat
  BY PassphrasesAre, CountAssumption DEF ActiveText, Types, Texts
<1>2. ASSUME NEW c \in Characters, TypeCharacter(c) PROVE Types'
  <2> DEFINE longer == Append(ActiveText, c)
  <2>1. longer \in Seq(Characters) /\ Len(longer) = Len(ActiveText) + 1
    BY <1>1
  <2>2. Len(longer) <= MaxPassphrase
    BY <1>1, <1>2, <2>1 DEF TypeCharacter
  <2>3. longer \in Passphrase
    BY <2>1, <2>2, PassphrasesAre
  <2> QED
    BY <1>2, <2>3, EditTextTypes DEF TypeCharacter
<1>3. ASSUME NEW n \in 0..(MaxPassphrase - 1), EraseText(n) PROVE Types'
  <2>1. n \in 0..Len(ActiveText) /\ n <= MaxPassphrase
    BY <1>1, <1>3 DEF EraseText
  <2>2. SubSeq(ActiveText, 1, n) \in Passphrase
    BY <1>1, <2>1, PrefixType, PassphrasesAre
  <2> QED
    BY <1>3, <2>2, EditTextTypes DEF EraseText
<1> QED
  BY <1>2, <1>3

(* The cursor, the field and the number of words.                           *)
LEMMA CursorTypes ==
    ASSUME Types,
           \/ \E i \in 1..wordCount : SetWordCursor(i)
           \/ \E f \in {"words", "pass", "again"} : SetField(f)
           \/ \E n \in WordCounts : SetWordCount(n)
    PROVE  Types'
<1>1. /\ pass \in Passphrase /\ again \in Passphrase
      /\ IsRow(words) /\ HoldsCells(words) /\ wordCount \in WordCounts
      /\ field \in {"words", "pass", "again"}
      /\ OnPage("entry") => Len(words) = wordCount
      /\ open => cursor \in 1..wordCount
  BY DEF Types, Texts, Row, Settings
<1>2. ASSUME NEW i \in 1..wordCount, SetWordCursor(i) PROVE Types'
  <2>1. /\ Typing /\ UNCHANGED <<open, page, wordCount, review, mounted, osk>>
        /\ RefreshEntry(words, i, "words", pass, again)
    BY <1>2 DEF SetWordCursor
  <2> QED
    BY <1>1, <2>1, RefreshTypes
<1>3. ASSUME NEW f \in {"words", "pass", "again"}, SetField(f) PROVE Types'
  <2>1. /\ OnPage("entry") /\ UNCHANGED <<open, page, wordCount, review, mounted, osk>>
        /\ RefreshEntry(words, cursor, f, pass, again)
    BY <1>3 DEF SetField
  <2>2. cursor \in 1..wordCount'
    BY <1>1, <2>1 DEF OnPage
  <2> QED
    BY <1>1, <2>1, <2>2, RefreshTypes
<1>4. ASSUME NEW n \in WordCounts, SetWordCount(n) PROVE Types'
  <2> DEFINE at == IF cursor > n THEN n ELSE cursor
  <2>1. /\ OnPage("entry") /\ UNCHANGED <<open, page, review, mounted, osk>>
        /\ wordCount' = n /\ RefreshEntry(Resized(words, n), at, field, pass, again)
    BY <1>4 DEF SetWordCount
  <2>2. n \in Nat \ {0} /\ wordCount \in Nat \ {0}
    BY <1>1, CountAssumption
  <2>3. at \in 1..n
    BY <1>1, <2>1, <2>2 DEF OnPage
  <2>4. /\ IsRow(Resized(words, n)) /\ Len(Resized(words, n)) = n
        /\ HoldsCells(Resized(words, n))
    BY <1>1, <2>2, ResizedRow, ResizedHolds
  <2> HIDE DEF at
  <2> QED
    BY <1>1, <2>1, <2>3, <2>4, RefreshTypes
<1> QED
  BY <1>2, <1>3, <1>4

(* A row with as many words as cells has none empty, so that deriving       *)
(* leaves it as it is.                                                      *)
LEMMA DerivingIsFull ==
    ASSUME Types, Deriving
    PROVE  words' = words /\ Normalised(words) = words
<1>1. OnPage("entry") /\ WordCount(words) = wordCount /\ words' = Normalised(words)
  BY DEF Deriving, CanDerive
<1>2. IsRow(words) /\ Len(words) = wordCount /\ wordCount \in Nat \ {0}
  BY <1>1, CountIsPositive DEF Types, Row
<1>3. DOMAIN words = 1..wordCount /\ Filled(words) \in SUBSET (1..wordCount)
  BY <1>2 DEF IsRow, Filled
<1>4. IsFiniteSet(1..wordCount) /\ Cardinality(1..wordCount) = wordCount
  BY <1>2, FS_Interval
<1>5. Cardinality(Filled(words)) = wordCount
  BY <1>1 DEF WordCount
<1>6. Filled(words) = DOMAIN words
  BY <1>3, <1>4, <1>5, FS_Subset
<1>7. words # <<>>
  BY <1>2, <1>3
<1> QED
  BY <1>1, <1>6, <1>7, Zenon DEF Normalised

LEMMA DerivingTypes ==
    ASSUME Types, Derive \/ DeriveFails
    PROVE  Types'
<1>1. words' = words /\ Normalised(words) = words
  BY DerivingIsFull DEF Derive, DeriveFails
<1>2. OnPage("entry") /\ UNCHANGED <<open, wordCount, cursor, field, pass, again, account, mounted>>
  BY DEF Derive, DeriveFails, Deriving
<1>3. CASE Derive
  <2>1. words \in Mnemonics /\ export' = Wallet(account) /\ reviewed' = export'
    BY <1>1, <1>3 DEF Derive, RebuildReview
  <2>2. export' \in Exports
    BY <1>1, <2>1 DEF Wallet, Exports, Types, Settings, Texts
  <2>3. Settings' /\ Flags'
    BY <1>2, <1>3, <2>1, <2>2 DEF Derive, RebuildReview, Types, Settings, Flags
  <2>4. Row' /\ Texts'
    BY <1>1, <1>2, <2>1 DEF Row, Texts, OnPage, Reviewing, HoldsCells, IsRow, Types
  <2> QED
    BY <2>3, <2>4 DEF Types
<1>4. CASE DeriveFails
  <2>1. Settings' /\ Flags'
    BY <1>2, <1>4 DEF DeriveFails, Types, Settings, Flags, Exports
  <2>2. Row' /\ Texts'
    BY <1>1, <1>2, <1>4 DEF DeriveFails, Row, Texts, OnPage, Reviewing, HoldsCells, IsRow, Types
  <2> QED
    BY <2>1, <2>2 DEF Types
<1> QED
  BY <1>3, <1>4

LEMMA WayTypes ==
    ASSUME Types, Enter \/ Leave \/ DataStatusChanged \/ SetOskVisible
    PROVE  Types'
<1>1. CASE Enter
  <2> DEFINE cells == BlankGrid(wordCount)
  <2>1. wordCount \in Nat \ {0}
    BY CountIsPositive DEF Types
  <2>2. IsRow(cells) /\ Len(cells) = wordCount /\ HoldsCells(cells) /\ 1 \in 1..wordCount
    BY <2>1, BlankGridRow, BlankGridHolds
  <2>3. /\ words' = cells /\ cursor' = 1 /\ field' = "words" /\ pass' = <<>> /\ again' = <<>>
        /\ wordCount' = wordCount /\ open' /\ page' = "entry"
    BY <1>1 DEF Enter, RefreshEntry
  <2>4. Settings' /\ Flags'
    BY <1>1, <2>3, CountAssumption, KeyboardAssumption
       DEF Enter, Types, Settings, Flags, Exports
  <2> HIDE DEF cells
  <2>5. Row' /\ Texts'
    BY <2>2, <2>3, EmptyTexts DEF Row, Texts, OnPage, Reviewing
  <2> QED
    BY <2>4, <2>5 DEF Types
<1>2. CASE Leave
  <2>1. Settings' /\ Flags'
    BY <1>2 DEF Leave, WipeSecrets, review, Types, Settings, Flags
  <2>2. Row' /\ Texts'
    BY <1>2, EmptyTexts, BlankHolds, BlankIsRow
       DEF Leave, WipeSecrets, review, Row, Texts, OnPage, Reviewing, Types
  <2> QED
    BY <2>1, <2>2 DEF Types
<1>3. CASE DataStatusChanged \/ SetOskVisible
  <2>1. Settings' /\ Flags'
    BY <1>3 DEF DataStatusChanged, SetOskVisible, RebuildReview, entry, review, Types,
       Settings, Flags
  <2>2. Row' /\ Texts'
    BY <1>3 DEF DataStatusChanged, SetOskVisible, entry, review, Row, Texts, OnPage,
       Reviewing, HoldsCells, IsRow, Types
  <2> QED
    BY <2>1, <2>2 DEF Types
<1> QED
  BY <1>1, <1>2, <1>3

LEMMA ReviewTypes ==
    ASSUME Types,
           \/ \E n \in 0..MaxAccount : SetAccount(n) \/ SetAccountFails(n)
           \/ BackToEntry \/ ShowNamePage \/ BackToReview \/ DoWrite
    PROVE  Types'
<1>1. ASSUME NEW n \in 0..MaxAccount, SetAccount(n) \/ SetAccountFails(n) PROVE Types'
  <2>1. words \in Mnemonics
    BY <1>1 DEF SetAccount, SetAccountFails, Types, Row, Reviewing
  <2>2. Normalised(words) = words /\ words' = words
    BY <1>1, <2>1, MnemonicIsNormal DEF SetAccount, SetAccountFails
  <2>3. Wallet(n) \in Exports
    BY <2>1, <2>2 DEF Wallet, Exports, Types, Texts
  <2>4. Settings' /\ Flags'
    BY <1>1, <2>3 DEF SetAccount, SetAccountFails, RebuildReview, Types, Settings, Flags,
       Exports
  <2>5. Row' /\ Texts'
    BY <1>1, <2>2 DEF SetAccount, SetAccountFails, Row, Texts, OnPage, Reviewing,
       HoldsCells, IsRow, Types
  <2> QED
    BY <2>4, <2>5 DEF Types
<1>2. CASE BackToEntry
  <2>1. Settings' /\ Flags'
    BY <1>2, KeyboardAssumption DEF BackToEntry, RefreshEntry, review, Types, Settings, Flags
  <2>2. Row' /\ Texts'
    BY <1>2, EmptyTexts DEF BackToEntry, RefreshEntry, review, Row, Texts, OnPage,
       Reviewing, HoldsCells, IsRow, Types
  <2> QED
    BY <2>1, <2>2 DEF Types
<1>3. CASE ShowNamePage \/ BackToReview
  <2>1. Settings' /\ Flags'
    BY <1>3, KeyboardAssumption DEF ShowNamePage, BackToReview, RebuildReview, entry,
       review, Types, Settings, Flags
  <2>2. Row' /\ Texts'
    BY <1>3 DEF ShowNamePage, BackToReview, RebuildReview, entry, review, Row, Texts,
       OnPage, Reviewing, HoldsCells, IsRow, Types
  <2> QED
    BY <2>1, <2>2 DEF Types
<1>4. CASE DoWrite
  <2>1. Settings' /\ Flags'
    BY <1>4 DEF DoWrite, WipeSecrets, review, Types, Settings, Flags
  <2>2. wordCount \in Nat \ {0}
    BY CountIsPositive DEF Types
  <2>3. Row' /\ Texts'
    BY <1>4, <2>2, EmptyTexts, BlankHolds, BlankIsRow
       DEF DoWrite, WipeSecrets, review, Row, Texts, OnPage, Reviewing, Types
  <2> QED
    BY <2>1, <2>3 DEF Types
<1> QED
  BY <1>1, <1>2, <1>3, <1>4

LEMMA NextKeepsTypes == Types /\ [Next]_vars => Types'
<1> SUFFICES ASSUME Types, [Next]_vars PROVE Types'
  OBVIOUS
<1>1. CASE UNCHANGED vars
  BY <1>1 DEF vars, Types, Settings, Flags, Row, Texts, OnPage, Reviewing, HoldsCells, IsRow
<1>2. CASE Next
  BY <1>2, WayTypes, WordTypes, TextTypes, CursorTypes, DerivingTypes, ReviewTypes DEF Next
<1> QED
  BY <1>1, <1>2

(* The entry page has a cell for every word it asks for, and the cursor in  *)
(* one of them, through every change of the count; what is exported is made *)
(* of a mnemonic, a passphrase and an account there is.                     *)
THEOREM TypeCorrect == Spec => []TypeOK
<1>1. Init => Types
  BY InitTypes
<1>2. Types => TypeOK
  BY DEF Types, Settings, Flags, Row, Texts, HoldsCells, TypeOK
<1> QED
  BY <1>1, <1>2, NextKeepsTypes, PTL DEF Spec

-----------------------------------------------------------------------------
(* What was derived from is still there, in the form it was derived from.   *)
Derived == OnPage("review") \/ OnPage("name") => Normalised(words) = words

IInv == Derived /\ ReviewIsWhatIsTyped /\ NothingIsKept

USE DEF IInv, Derived, ReviewIsWhatIsTyped, NothingIsKept, OnPage

LEMMA InitIsInductive == Init => IInv
BY DEF Init

(* Into the screen, out of it, the stick and the keyboard.                  *)
LEMMA WaysInAndOut ==
    ASSUME IInv, Enter \/ Leave \/ DataStatusChanged \/ SetOskVisible
    PROVE  IInv'
<1>1. CASE Enter
  BY <1>1 DEF Enter, RefreshEntry
<1>2. CASE Leave
  BY <1>2 DEF Leave, WipeSecrets
<1>3. CASE DataStatusChanged
  BY <1>3 DEF DataStatusChanged, RebuildReview, entry, Wallet
<1>4. CASE SetOskVisible
  BY <1>4 DEF SetOskVisible, entry, review, Wallet
<1> QED
  BY <1>1, <1>2, <1>3, <1>4

(* An edit happens on the first page, where nothing is derived yet, or on   *)
(* the last.                                                                *)
LEMMA EditKeeps ==
    ASSUME IInv, Typing \/ OnPage("entry"), UNCHANGED <<open, page>>,
           NEW cells, NEW i, NEW f, NEW p, NEW r, RefreshEntry(cells, i, f, p, r)
    PROVE  IInv'
BY DEF Typing, RefreshEntry

LEMMA TypingKeeps ==
    ASSUME IInv,
           \/ \E c \in Letters : TypeLetter(c)
           \/ \E c \in Characters : TypeCharacter(c)
           \/ \E i \in 1..wordCount : SetWordCursor(i)
           \/ BackspaceWords \/ DeleteWord \/ ClearWords
           \/ \E n \in 0..(MaxPassphrase - 1) : EraseText(n)
           \/ \E w \in Lexicon : ApplySuggestion(w)
           \/ \E f \in {"words", "pass", "again"} : SetField(f)
           \/ \E n \in WordCounts : SetWordCount(n)
    PROVE  IInv'
<1>1. ASSUME NEW cells, NEW i, EditAt(cells, i) PROVE IInv'
  BY <1>1, EditKeeps DEF EditAt
<1>2. ASSUME NEW text, EditText(text) PROVE IInv'
  <2>1. \/ RefreshEntry(words, cursor, field, pass, text)
        \/ RefreshEntry(words, cursor, field, text, again)
    BY <1>2 DEF EditText
  <2> QED
    BY <1>2, <2>1, EditKeeps DEF EditText
<1>3. ASSUME NEW c, TypeLetter(c) PROVE IInv'
  BY <1>1, <1>3 DEF TypeLetter
<1>4. ASSUME NEW c, TypeCharacter(c) PROVE IInv'
  BY <1>2, <1>4 DEF TypeCharacter
<1>5. ASSUME NEW i, SetWordCursor(i) PROVE IInv'
  BY <1>5, EditKeeps DEF SetWordCursor
<1>6. ASSUME BackspaceWords PROVE IInv'
  BY <1>1, <1>6, Zenon DEF BackspaceWords
<1>7. ASSUME DeleteWord \/ ClearWords PROVE IInv'
  BY <1>1, <1>7 DEF DeleteWord, ClearWords
<1>8. ASSUME NEW n, EraseText(n) PROVE IInv'
  BY <1>2, <1>8 DEF EraseText
<1>9. ASSUME NEW w, ApplySuggestion(w) PROVE IInv'
  BY <1>1, <1>9 DEF ApplySuggestion
<1>10. ASSUME NEW f, SetField(f) PROVE IInv'
  BY <1>10, EditKeeps DEF SetField
<1>11. ASSUME NEW n, SetWordCount(n) PROVE IInv'
  BY <1>11, EditKeeps DEF SetWordCount
<1> QED
  BY <1>3, <1>4, <1>5, <1>6, <1>7, <1>8, <1>9, <1>10, <1>11

(* What is derived is what is typed, with its gaps closed.                  *)
LEMMA DerivingKeeps ==
    ASSUME IInv, Derive \/ DeriveFails
    PROVE  IInv'
<1>1. CASE Derive
  <2>1. words' = Normalised(words) /\ Normalised(words') = words'
    BY <1>1, MnemonicIsNormal DEF Derive, Deriving
  <2> QED
    BY <1>1, <2>1 DEF Derive, Deriving, PassphraseReady, RebuildReview, Wallet
<1>2. CASE DeriveFails
  BY <1>2 DEF DeriveFails, Deriving
<1> QED
  BY <1>1, <1>2

LEMMA ReviewKeeps ==
    ASSUME IInv,
           \/ \E n \in 0..MaxAccount : SetAccount(n) \/ SetAccountFails(n)
           \/ BackToEntry \/ ShowNamePage \/ BackToReview \/ DoWrite
    PROVE  IInv'
<1>1. ASSUME NEW n, SetAccount(n) \/ SetAccountFails(n) PROVE IInv'
  <2>1. words' = words /\ Normalised(words) = words
    BY <1>1 DEF SetAccount, SetAccountFails
  <2> QED
    BY <1>1, <2>1 DEF SetAccount, SetAccountFails, RebuildReview, Wallet
<1>2. CASE BackToEntry
  BY <1>2 DEF BackToEntry, RefreshEntry
<1>3. CASE ShowNamePage
  BY <1>3 DEF ShowNamePage, entry, review, Wallet
<1>4. CASE BackToReview
  BY <1>4 DEF BackToReview, RebuildReview, entry, Wallet
<1>5. CASE DoWrite
  BY <1>5 DEF DoWrite, WipeSecrets
<1> QED
  BY <1>1, <1>2, <1>3, <1>4, <1>5

-----------------------------------------------------------------------------
LEMMA NextKeeps == IInv /\ [Next]_vars => IInv'
<1> SUFFICES ASSUME IInv, [Next]_vars PROVE IInv'
  OBVIOUS
<1>1. CASE UNCHANGED vars
  BY <1>1 DEF vars, Wallet
<1>2. CASE Next
  BY <1>2, WaysInAndOut, TypingKeeps, DerivingKeeps, ReviewKeeps DEF Next
<1> QED
  BY <1>1, <1>2

HIDE DEF IInv, Derived, ReviewIsWhatIsTyped, NothingIsKept, OnPage

LEMMA Invariance == Spec => []IInv
<1>1. Init => IInv
  BY InitIsInductive
<1> QED
  BY <1>1, NextKeeps, PTL DEF Spec

(* The keys that would be written are those on the page, for what is typed  *)
(* and the account that is set, and the button follows the stick.           *)
THEOREM ReviewIsTrue == Spec => []ReviewIsWhatIsTyped
<1>1. IInv => ReviewIsWhatIsTyped
  BY DEF IInv
<1> QED
  BY <1>1, Invariance, PTL

(* The buffers are empty while the screen is away, and the repeat goes with *)
(* its passphrase.                                                          *)
THEOREM NothingRemains == Spec => []NothingIsKept
<1>1. IInv => NothingIsKept
  BY DEF IInv
<1> QED
  BY <1>1, Invariance, PTL
=============================================================================
