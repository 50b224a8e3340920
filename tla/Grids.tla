------------------------------- MODULE Grids -------------------------------
(***************************************************************************)
(* What the grid view of core/secure_memory.h promises the screens: a text *)
(* is a row of cells, any of which may be empty, and an edit of one cell   *)
(* leaves the others where they are.  A cell is a sequence of letters.     *)
(* SecureString is shown to keep this promise on its flat buffer; the      *)
(* create and import screens are written in terms of it.                   *)
(***************************************************************************)
EXTENDS Naturals, Sequences, FiniteSets, Ordering

(* The text of a buffer that was cleared: one cell, with nothing in it.     *)
Blank == << <<>> >>

BlankGrid(n) == [i \in 1..n |-> <<>>]

IsEmptyCell(cell) == Len(cell) = 0

Filled(cells) == {i \in DOMAIN cells : ~IsEmptyCell(cells[i])}

(* wordCount(): only the cells with something in them.                      *)
WordCount(cells) == Cardinality(Filled(cells))

(* The characters the cells and their separators take.                      *)
TextLength(cells) ==
    LET upTo[i \in 0..Len(cells)] ==
            IF i = 0 THEN 0 ELSE upTo[i - 1] + Len(cells[i]) + 1
    IN  upTo[Len(cells)] - 1

Resized(cells, n) == [i \in 1..n |-> IF i <= Len(cells) THEN cells[i] ELSE <<>>]

WithLetter(cells, i, c) == [cells EXCEPT ![i] = Append(@, c)]

WithoutLetter(cells, i) ==
    [cells EXCEPT ![i] = IF IsEmptyCell(@) THEN @ ELSE SubSeq(@, 1, Len(@) - 1)]

WithWord(cells, i, w) == [cells EXCEPT ![i] = w]

(* normaliseWhitespace(): the words alone, with nothing between them.  A row *)
(* without gaps stays as it is.                                             *)
Normalised(cells) ==
    LET words == AtPlaces(cells, Filled(cells))
    IN  IF cells # <<>> /\ Filled(cells) = DOMAIN cells THEN cells
        ELSE IF words = <<>> THEN Blank ELSE words
=============================================================================
