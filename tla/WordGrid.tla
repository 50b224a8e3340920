------------------------------ MODULE WordGrid ------------------------------
(***************************************************************************)
(* The abstract specification of a SecureString: cells instead of a buffer *)
(* with separators and offsets.  Each operation is what the comment in     *)
(* core/secure_memory.h says of it.                                        *)
(***************************************************************************)
EXTENDS Naturals, Sequences, FiniteSets, Grids

CONSTANTS Letters,    \* what may stand in a cell
          MaxText,    \* the characters that fit, with the separators
          MaxCells,   \* the cells a caller asks for
          Words       \* the texts that are put in a cell in one go

VARIABLE cells

Room(n) == TextLength(cells) + n <= MaxText

Init == cells = Blank

Set(text) == cells' = text

(* append(char): a separator opens a cell, a letter goes into the last one. *)
Type == \/ Room(1) /\ Set(Append(cells, <<>>))
        \/ \E c \in Letters : Room(1) /\ Set(WithLetter(cells, Len(cells), c))

(* backspace(): a letter of the last cell, or the cell itself.              *)
Backspace ==
    IF ~IsEmptyCell(cells[Len(cells)]) THEN Set(WithoutLetter(cells, Len(cells)))
    ELSE Len(cells) > 1 /\ Set(SubSeq(cells, 1, Len(cells) - 1))

(* backspaceWord(): the last word there is, and the separators behind it.   *)
BackspaceWord ==
    IF Filled(cells) = {} THEN Set(Blank)
    ELSE \E i \in Filled(cells) :
            /\ \A j \in Filled(cells) : j <= i
            /\ Set([Resized(cells, i) EXCEPT ![i] = <<>>])

Clear == Set(Blank)

Normalise == Set(Normalised(cells))

(* assign(): the text that was there is gone even if the new one is refused. *)
Assign == \E w \in Words : Set(IF Len(w) <= MaxText THEN <<w>> ELSE Blank)

SetSlotCount ==
    \E n \in 1..MaxCells :
        /\ n > Len(cells) => Room(n - Len(cells))
        /\ Set(Resized(cells, n))

(* appendToSlot(), backspaceInSlot(), clearSlot(), setSlot().  A word that  *)
(* does not fit leaves the cell empty.                                      *)
EditSlot ==
    \E i \in DOMAIN cells :
        \/ \E c \in Letters : Room(1) /\ Set(WithLetter(cells, i, c))
        \/ Set(WithoutLetter(cells, i))
        \/ Set(WithWord(cells, i, <<>>))
        \/ \E w \in Words : TextLength(WithWord(cells, i, w)) <= MaxText
                              /\ Set(WithWord(cells, i, w))

Next ==
    \/ Type \/ Backspace \/ BackspaceWord \/ Clear \/ Normalise \/ Assign
    \/ SetSlotCount \/ EditSlot

Spec == Init /\ [][Next]_cells
=============================================================================
