---------------------------- MODULE SecureString ----------------------------
(***************************************************************************)
(* SecureString of core/secure_memory.cpp: a fixed array of characters and *)
(* a length, edited as a text and, through the grid view, as cells between *)
(* separators.  The array is the state, so that what an operation leaves   *)
(* beyond the end of the text is part of the model.                        *)
(*                                                                         *)
(* Tabs and line breaks never get in: the screens let letters, printable   *)
(* characters and spaces through.  Offsets count from zero as in the code. *)
(***************************************************************************)
EXTENDS Integers, Sequences, FiniteSets, SequencesExt

CONSTANTS Letters,    \* characters other than the space
          Space,
          Nul,
          Capacity,   \* kCapacity
          MaxCells,   \* bound: the most cells a caller asks for
          Words       \* what setSlot() and assign() are called with

ASSUME CharacterAssumption == Space \notin Letters /\ Nul \notin Letters /\ Space # Nul
ASSUME CapacityAssumption == Capacity \in Nat \ {0}
ASSUME CellsAssumption == MaxCells \in Nat
ASSUME WordsAssumption == Words \subseteq Seq(Letters)

VARIABLES buf, len

vars == <<buf, len>>

Index == 0..(Capacity - 1)
Characters == Letters \cup {Space, Nul}

Text == [i \in 1..len |-> buf[i - 1]]

Init ==
    /\ buf = [i \in Index |-> Nul]
    /\ len = 0

-----------------------------------------------------------------------------
(***************************************************************************)
(* Primitives                                                              *)
(***************************************************************************)

(* The text is cut to its first n characters and the rest of it is wiped.   *)
Cut(n) ==
    /\ len' = n
    /\ buf' = [i \in Index |-> IF i \in n..len THEN Nul ELSE buf[i]]

(* secureWipe() of the whole array.                                         *)
Clear ==
    /\ len' = 0
    /\ buf' = [i \in Index |-> Nul]

(* A mutant of Insert: the terminator's place is forgotten.               *)
InsertFull(pos, s) ==
    /\ len + Len(s) <= Capacity
    /\ len' = len + Len(s)
    /\ buf' = [i \in Index |->
                 IF i < pos THEN buf[i]
                 ELSE IF i < pos + Len(s) THEN s[i - pos + 1]
                 ELSE IF i < len + Len(s) THEN buf[i - Len(s)]
                 ELSE buf[i]]

(* insertAt(), and append() with pos = len: what is behind pos moves up.    *)
Insert(pos, s) ==
    /\ len + Len(s) + 1 <= Capacity
    /\ len' = len + Len(s)
    /\ buf' = [i \in Index |->
                 IF i < pos THEN buf[i]
                 ELSE IF i < pos + Len(s) THEN s[i - pos + 1]
                 ELSE IF i < len + Len(s) THEN buf[i - Len(s)]
                 ELSE IF i = len + Len(s) THEN Nul
                 ELSE buf[i]]

(* A mutant of EraseAt: the characters that the shift leaves are not wiped. *)
EraseAtUnwiped(pos, n) ==
    /\ len' = len - n
    /\ buf' = [i \in Index |->
                 IF i < pos THEN buf[i]
                 ELSE IF i + n < len THEN buf[i + n]
                 ELSE IF i = len - n THEN Nul
                 ELSE buf[i]]

(* eraseAt(): what is behind moves down, and the n characters that the      *)
(* shift leaves at the end are wiped.  No caller asks for more than is there. *)
EraseAt(pos, n) ==
    /\ len' = len - n
    /\ buf' = [i \in Index |->
                 IF i < pos THEN buf[i]
                 ELSE IF i + n < len THEN buf[i + n]
                 ELSE IF i < len THEN Nul
                 ELSE buf[i]]

-----------------------------------------------------------------------------
(***************************************************************************)
(* Slots                                                                   *)
(***************************************************************************)

(* slotSpan(): where the slots start and where they end, which is at a      *)
(* separator and, for the last one, at the end of the text.                 *)
Spans ==
    {span \in (0..len) \X (0..len) :
        /\ span[1] <= span[2]
        /\ span[1] = 0 \/ buf[span[1] - 1] = Space
        /\ span[2] = len \/ buf[span[2]] = Space
        /\ \A i \in span[1]..(span[2] - 1) : buf[i] # Space}

SlotCount == Cardinality(Spans)

SlotLength(span) == span[2] - span[1]

(* The place of a slot in the row: the slots before it.                     *)
Place(span) == Cardinality({other \in Spans : other[1] < span[1]})

WordCountOf == Cardinality({span \in Spans : SlotLength(span) > 0})

-----------------------------------------------------------------------------
(***************************************************************************)
(* Operations                                                              *)
(***************************************************************************)

(* append(char)                                                             *)
Type(c) == Insert(len, <<c>>)

(* backspace()                                                              *)
Backspace == len > 0 /\ Cut(len - 1)

(* backspaceWord(): the separators at the end, then the word before them.   *)
BackspaceWord ==
    \E rest, word \in 0..len :
        /\ rest > 0 => rest < word /\ buf[rest - 1] = Space
        /\ \A i \in rest..(word - 1) : buf[i] # Space
        /\ \A i \in word..(len - 1) : buf[i] = Space
        /\ Cut(rest)

(* assign(): clear(), then append() if it fits.                             *)
Assign(s) ==
    IF Len(s) + 1 <= Capacity
    THEN /\ len' = Len(s)
         /\ buf' = [i \in Index |-> IF i < Len(s) THEN s[i + 1] ELSE Nul]
    ELSE Clear

(* What normaliseWhitespace() copies: every letter, and one separator in    *)
(* front of each word but the first.                                        *)
Kept ==
    {i \in 0..(len - 1) :
        \/ buf[i] # Space
        \/ /\ i + 1 < len /\ buf[i + 1] # Space
           /\ \E j \in 0..(i - 1) : buf[j] # Space}

(* normaliseWhitespace(): the text closes up, and its old tail is wiped.    *)
Normalise ==
    LET Nth(n) == CHOOSE i \in Kept : Cardinality({j \in Kept : j < i}) = n
        size == Cardinality(Kept)
    IN  /\ len' = size
        /\ buf' = [i \in Index |->
                     IF i < size THEN buf[Nth(i)]
                     ELSE IF i <= len THEN Nul
                     ELSE buf[i]]

(* setSlotCount(): new slots are separators at the end; slots past the new  *)
(* end are wiped.                                                           *)
SetSlotCount(n) ==
    \/ n > SlotCount /\ Insert(len, [i \in 1..(n - SlotCount) |-> Space])
    \/ n < SlotCount /\ \E span \in Spans : Place(span) = n - 1 /\ Cut(span[2])

(* appendToSlot()                                                           *)
AppendToSlot(span, c) == Insert(span[2], <<c>>)

(* A mutant of BackspaceInSlot: in an empty slot it takes the separator.    *)
BackspaceJoiningSlots(span) == span[2] > 0 /\ EraseAt(span[2] - 1, 1)

(* backspaceInSlot()                                                        *)
BackspaceInSlot(span) == SlotLength(span) > 0 /\ EraseAt(span[2] - 1, 1)

(* clearSlot()                                                              *)
ClearSlot(span) == SlotLength(span) > 0 /\ EraseAt(span[1], SlotLength(span))

(* setSlot(): the old word is erased before the new one is inserted, and    *)
(* stays erased when the new one does not fit.                              *)
SetSlot(span, w) ==
    LET start == span[1]
        short == len - SlotLength(span)
    IN  IF short + Len(w) + 1 > Capacity
        THEN EraseAt(start, SlotLength(span))
        ELSE /\ len' = short + Len(w)
             /\ buf' = [i \in Index |->
                          IF i < start THEN buf[i]
                          ELSE IF i < start + Len(w) THEN w[i - start + 1]
                          ELSE IF i < short + Len(w)
                               THEN buf[i - Len(w) + SlotLength(span)]
                          ELSE IF i = short + Len(w) \/ i < len THEN Nul
                          ELSE buf[i]]

Next ==
    \/ \E c \in Letters \cup {Space} : Type(c)
    \/ Backspace
    \/ BackspaceWord
    \/ Clear
    \/ \E w \in Words : Assign(w)
    \/ Normalise
    \/ \E n \in 1..MaxCells : SetSlotCount(n)
    \/ \E span \in Spans :
          \/ \E c \in Letters : AppendToSlot(span, c)
          \/ BackspaceInSlot(span)
          \/ ClearSlot(span)
          \/ \E w \in Words : SetSlot(span, w)

Spec == Init /\ [][Next]_vars

-----------------------------------------------------------------------------
(***************************************************************************)
(* Properties                                                              *)
(***************************************************************************)

(* The text and its terminator fit in the array.                            *)
TypeOK ==
    /\ buf \in [Index -> Characters]
    /\ len \in Index
    /\ \A i \in Index : i < len => buf[i] # Nul

(* No operation leaves a character of the secret behind the end of the      *)
(* text: shrinking, deleting from the middle and normalising wipe what they *)
(* cut off ("wiped, not left behind the terminator").                       *)
TailIsWiped == \A i \in Index : i >= len => buf[i] = Nul

(* The grid's promise: seen as cells, every operation does to its own cell  *)
(* what WordGrid says and nothing to any other.                             *)
Cells ==
    [i \in 1..SlotCount |->
        LET span == CHOOSE span \in Spans : Place(span) = i - 1
        IN  SubSeq(Text, span[1] + 1, span[2])]
Grid == INSTANCE WordGrid WITH cells <- Cells, MaxText <- Capacity - 1
ImplementsGrid == Grid!Spec
=============================================================================
