------------------------- MODULE SecureStringProofs -------------------------
(***************************************************************************)
(* SecureString leaves nothing of a secret behind the end of its text,     *)
(* whatever its capacity, its characters and the words put into it.        *)
(***************************************************************************)
EXTENDS SecureString, FiniteSetTheorems, SequenceTheorems, WellFoundedInduction, TLAPS

(* What a text is made of.                                                  *)
Written == Letters \cup {Space}

(* The inductive invariant: the length is an index, so that the terminator  *)
(* has a place, what is before it are characters, and what is at the length *)
(* and behind it is empty.                                                  *)
IInv ==
    /\ buf = [i \in Index |-> buf[i]]
    /\ len \in Index
    /\ \A i \in Index : i < len => buf[i] \in Written
    /\ TailIsWiped

-----------------------------------------------------------------------------
(* Among natural numbers there is a least one.                              *)
LEMMA LeastNatural ==
  ASSUME NEW T \in SUBSET Nat, T # {}
  PROVE  \E m \in T : \A n \in T : m <= n
<1>1. PICK m \in T : \A n \in T : <<n, m>> \notin OpToRel(<, Nat)
  BY NatLessThanWellFounded, WFMin
<1>2. ASSUME NEW n \in T
      PROVE  m <= n
  <2>1. m \in Nat /\ n \in Nat
    OBVIOUS
  <2>2. ~(n < m)
    BY <1>1, <2>1 DEF OpToRel
  <2> QED
    BY <2>1, <2>2
<1> QED
  BY <1>2

(* In a finite set of naturals there is an element of every rank.           *)
LEMMA RankExists ==
  ASSUME NEW b \in Nat, NEW S \in SUBSET (0..b), NEW n \in Nat, n < Cardinality(S)
  PROVE  \E i \in S : Cardinality({j \in S : j < i}) = n
<1> DEFINE Below(m) == {j \in S : j < m}
           Enough == {m \in Nat : n < Cardinality(Below(m + 1))}
<1>0. \A j \in S : j \in Nat /\ j <= b
  OBVIOUS
<1>1. ASSUME NEW m
      PROVE  IsFiniteSet(Below(m)) /\ Cardinality(Below(m)) \in Nat
  <2>1. IsFiniteSet(0..b)
    BY FS_Interval
  <2>2. Below(m) \in SUBSET (0..b)
    OBVIOUS
  <2> QED
    BY <2>1, <2>2, FS_Subset, FS_CardinalityType
<1>2. b \in Enough
  <2>1. \A j \in S : j < b + 1
    BY <1>0
  <2>2. Below(b + 1) = S
    BY <2>1
  <2> QED
    BY <2>2
<1>3. PICK m \in Enough : \A k \in Enough : m <= k
  <2> HIDE DEF Enough
  <2>1. Enough \in SUBSET Nat
    BY DEF Enough
  <2> QED
    BY <1>2, <2>1, LeastNatural
<1>a. m \in Nat /\ n < Cardinality(Below(m + 1))
  OBVIOUS
<1>4. Cardinality(Below(m)) <= n
  <2>1. CASE m = 0
    <3>a. \A j \in S : ~(j < m)
      BY <2>1, <1>0
    <3>1. Below(m) = {}
      BY <3>a
    <3> QED
      BY <3>1, FS_EmptySet
  <2>2. CASE m # 0
    <3>1. m - 1 \in Nat /\ m - 1 \notin Enough /\ (m - 1) + 1 = m
      BY <2>2, <1>3, <1>a
    <3>2. ~(n < Cardinality(Below((m - 1) + 1)))
      BY <3>1
    <3> HIDE DEF Below
    <3>3. ~(n < Cardinality(Below(m)))
      BY <3>1, <3>2
    <3> QED
      BY <3>3, <1>1
  <2> QED
    BY <2>1, <2>2
<1>5. m \in S
  <2>1. SUFFICES ASSUME m \notin S PROVE FALSE
    OBVIOUS
  <2>a. \A j \in S : j # m => (j < m + 1 <=> j < m)
    BY <1>0, <1>a
  <2>2. Below(m + 1) = Below(m)
    BY <2>1, <2>a
  <2> HIDE DEF Below
  <2> QED
    BY <2>2, <1>1, <1>4, <1>a
<1>6. Below(m + 1) = Below(m) \cup {m} /\ m \notin Below(m)
  <2>1. \A j \in S : (j < m + 1 <=> j < m \/ j = m) /\ ~(m < m)
    BY <1>0, <1>a
  <2> QED
    BY <1>5, <2>1
<1>7. Cardinality(Below(m + 1)) = Cardinality(Below(m)) + 1
  <2> HIDE DEF Below
  <2> QED
    BY <1>1, <1>6, FS_AddElement
<1>8. Cardinality(Below(m)) = n
  <2> HIDE DEF Below
  <2> QED
    BY <1>1, <1>4, <1>7, <1>a
<1> QED
  BY <1>5, <1>8

-----------------------------------------------------------------------------
(* A cut inside the text wipes everything from the cut on.                  *)
LEMMA CutWipes ==
  ASSUME IInv, NEW n \in 0..len, Cut(n)
  PROVE  IInv'
BY CapacityAssumption DEF IInv, TailIsWiped, Index, Cut

(* secureWipe() of the whole array.                                         *)
LEMMA ClearWipes ==
  ASSUME IInv, Clear
  PROVE  IInv'
BY CapacityAssumption DEF IInv, TailIsWiped, Index, Clear

(* What is inserted fits, with its terminator, and nothing lands behind it. *)
LEMMA InsertWipes ==
  ASSUME IInv, NEW pos \in 0..len, NEW s \in Seq(Written), Insert(pos, s)
  PROVE  IInv'
<1>1. Len(s) \in Nat
  OBVIOUS
<1> QED
  BY <1>1, CapacityAssumption DEF IInv, TailIsWiped, Index, Insert

(* The characters a shift leaves at the end are wiped.                      *)
LEMMA EraseWipes ==
  ASSUME IInv, NEW pos \in Nat, NEW n \in Nat, pos + n <= len, EraseAt(pos, n)
  PROVE  IInv'
BY CapacityAssumption DEF IInv, TailIsWiped, Index, EraseAt

(* A slot lies inside the text.                                             *)
LEMMA SpanBounds ==
  ASSUME len \in Nat, NEW span \in Spans
  PROVE  /\ span[1] \in 0..len /\ span[2] \in 0..len
         /\ span[1] <= span[2]
         /\ SlotLength(span) \in Nat
         /\ span[1] + SlotLength(span) = span[2]
BY DEF Spans, SlotLength

(* There are finitely many slots.                                           *)
LEMMA SlotCountIsNat ==
  ASSUME len \in Nat
  PROVE  SlotCount \in Nat
<1>0. IsFiniteSet(0..len)
  BY FS_Interval
<1>1. IsFiniteSet((0..len) \X (0..len))
  BY <1>0, FS_Product
<1>2. IsFiniteSet(Spans)
  BY <1>1, FS_Subset DEF Spans
<1> QED
  BY <1>2, FS_CardinalityType DEF SlotCount

(* Normalising never makes the text longer.                                 *)
LEMMA KeptFits ==
  ASSUME len \in Nat
  PROVE  Cardinality(Kept) \in 0..len
<1>1. IsFiniteSet(0..(len - 1)) /\ Cardinality(0..(len - 1)) = len
  BY FS_Interval
<1>2. Kept \subseteq 0..(len - 1)
  BY DEF Kept
<1>3. IsFiniteSet(Kept) /\ Cardinality(Kept) <= Cardinality(0..(len - 1))
  BY <1>1, <1>2, FS_Subset
<1>4. Cardinality(Kept) \in Nat
  BY <1>3, FS_CardinalityType
<1> QED
  BY <1>1, <1>3, <1>4

(* Every operation keeps the invariant.                                     *)
LEMMA NextKeepsIInv ==
  ASSUME IInv, Next
  PROVE  IInv'
<1> USE DEF IInv
<1>0. len \in Nat /\ Capacity \in Nat
  BY CapacityAssumption DEF Index
<1>1. ASSUME NEW c \in Letters \cup {Space}, Type(c)
      PROVE  IInv'
  <2>1. <<c>> \in Seq(Written)
    BY <1>1 DEF Written
  <2>2. len \in 0..len /\ Insert(len, <<c>>)
    BY <1>0, <1>1 DEF Type
  <2> QED
    BY <2>1, <2>2, InsertWipes
<1>2. CASE Backspace
  BY <1>0, <1>2, CutWipes DEF Backspace
<1>3. CASE BackspaceWord
  BY <1>3, CutWipes DEF BackspaceWord
<1>4. CASE Clear
  BY <1>4, ClearWipes
<1>5. ASSUME NEW w \in Words, Assign(w)
      PROVE  IInv'
  <2>1. Len(w) \in Nat /\ w \in Seq(Written)
    BY WordsAssumption DEF Written
  <2>2. CASE Len(w) + 1 <= Capacity
    BY <1>0, <1>5, <2>1, <2>2, SMTT(30) DEF Assign, Index, TailIsWiped
  <2>3. CASE ~(Len(w) + 1 <= Capacity)
    BY <1>5, <2>3, ClearWipes DEF Assign
  <2> QED
    BY <2>2, <2>3
<1>6. CASE Normalise
  <2> DEFINE Nth(n) == CHOOSE i \in Kept : Cardinality({j \in Kept : j < i}) = n
             size == Cardinality(Kept)
  <2>1. size \in 0..len
    BY <1>0, KeptFits
  <2>2. ASSUME NEW n \in Nat, n < size
        PROVE  Nth(n) \in 0..(len - 1)
    <3>1. Kept \in SUBSET (0..len)
      BY <1>0 DEF Kept
    <3>2. \E i \in Kept : Cardinality({j \in Kept : j < i}) = n
      BY <1>0, <2>2, <3>1, RankExists
    <3>3. Nth(n) \in Kept
      BY <3>2
    <3> QED
      BY <3>3 DEF Kept
  <2>3. /\ len' = size
        /\ buf' = [i \in Index |-> IF i < size THEN buf[Nth(i)]
                                  ELSE IF i <= len THEN Nul ELSE buf[i]]
    BY <1>6 DEF Normalise
  <2> HIDE DEF Nth, size
  <2>4. \A i \in Index : i < size => buf[Nth(i)] \in Written
    BY <1>0, <2>1, <2>2 DEF Index
  <2> QED
    BY <1>0, <2>1, <2>3, <2>4 DEF Index, TailIsWiped
<1>7. ASSUME NEW n \in 1..MaxCells, SetSlotCount(n)
      PROVE  IInv'
  <2>1. CASE n > SlotCount /\ Insert(len, [i \in 1..(n - SlotCount) |-> Space])
    <3>1. n - SlotCount \in Nat
      BY <1>0, <2>1, SlotCountIsNat, CellsAssumption
    <3>2. [i \in 1..(n - SlotCount) |-> Space] \in Seq(Written)
      BY <3>1 DEF Written
    <3> QED
      BY <1>0, <2>1, <3>2, InsertWipes
  <2>2. ASSUME NEW span \in Spans, Cut(span[2])
        PROVE  IInv'
    BY <1>0, <2>2, SpanBounds, CutWipes
  <2> QED
    BY <1>7, <2>1, <2>2 DEF SetSlotCount
<1>8. ASSUME NEW span \in Spans, NEW c \in Letters, AppendToSlot(span, c)
      PROVE  IInv'
  <2>1. <<c>> \in Seq(Written)
    BY DEF Written
  <2> QED
    BY <1>0, <1>8, <2>1, SpanBounds, InsertWipes DEF AppendToSlot
<1>9. ASSUME NEW span \in Spans, BackspaceInSlot(span)
      PROVE  IInv'
  <2>1. /\ span[2] \in 0..len /\ span[2] >= 1
    BY <1>0, <1>9, SpanBounds DEF BackspaceInSlot
  <2>2. span[2] - 1 \in Nat /\ (span[2] - 1) + 1 <= len
    BY <1>0, <2>1
  <2>3. EraseAt(span[2] - 1, 1)
    BY <1>9 DEF BackspaceInSlot
  <2> QED
    BY <2>2, <2>3, EraseWipes
<1>10. ASSUME NEW span \in Spans, ClearSlot(span)
       PROVE  IInv'
  BY <1>0, <1>10, SpanBounds, EraseWipes DEF ClearSlot
<1>11. ASSUME NEW span \in Spans, NEW w \in Words, SetSlot(span, w)
       PROVE  IInv'
  <2>1. Len(w) \in Nat /\ w \in Seq(Written)
    BY WordsAssumption DEF Written
  <2>b. /\ span[1] \in Nat /\ SlotLength(span) \in Nat /\ len \in Nat
        /\ span[1] + SlotLength(span) <= len
    BY <1>0, SpanBounds
  <2>2. CASE (len - SlotLength(span)) + Len(w) + 1 > Capacity
    <3>1. EraseAt(span[1], SlotLength(span))
      BY <1>11, <2>2 DEF SetSlot
    <3> QED
      BY <2>b, <3>1, EraseWipes
  <2>3. CASE ~((len - SlotLength(span)) + Len(w) + 1 > Capacity)
    <3> DEFINE short == len - SlotLength(span)
    <3>1. short \in Nat /\ short <= len
      BY <1>0, SpanBounds
    <3>2. len' = short + Len(w)
      BY <1>11, <2>3 DEF SetSlot
    <3>3. len' \in Index
      BY <1>0, <2>1, <2>3, <3>1, <3>2 DEF Index
    <3>4. buf' = [i \in Index |-> buf'[i]]
      BY <1>11, <2>3 DEF SetSlot
    <3>5. ASSUME NEW i \in Index, i >= len'
          PROVE  buf'[i] = Nul
      <4>1. /\ ~(i < span[1]) /\ ~(i < span[1] + Len(w))
            /\ ~(i < short + Len(w))
        BY <1>0, <2>1, <3>1, <3>2, <3>5, SpanBounds, SMTT(30) DEF Index
      <4>2. buf'[i] = IF i = short + Len(w) \/ i < len THEN Nul ELSE buf[i]
        BY <1>11, <2>3, <4>1 DEF SetSlot
      <4> QED
        BY <1>0, <4>2 DEF TailIsWiped, Index
    <3>6. ASSUME NEW i \in Index, i < len'
          PROVE  buf'[i] \in Written
      <4> DEFINE start == span[1]
                 old == i - Len(w) + SlotLength(span)
      <4>1. /\ i \in Nat /\ start \in Nat /\ start <= short
            /\ short + SlotLength(span) = len
        BY <1>0, <2>b DEF Index
      <4>2. buf'[i] = IF i < start THEN buf[i]
                      ELSE IF i < start + Len(w) THEN w[i - start + 1]
                      ELSE buf[old]
        BY <1>11, <2>3, <3>2, <3>6 DEF SetSlot
      <4>3. CASE i < start
        <5>1. i < len /\ buf'[i] = buf[i]
          BY <2>b, <4>1, <4>2, <4>3
        <5> QED
          BY <5>1
      <4>4. CASE ~(i < start) /\ i < start + Len(w)
        <5>1. i - start + 1 \in 1..Len(w)
          BY <2>1, <4>1, <4>4
        <5> QED
          BY <2>1, <4>2, <4>4, <5>1
      <4>5. CASE ~(i < start) /\ ~(i < start + Len(w))
        <5>a. len <= Capacity - 1 /\ i < short + Len(w) /\ i >= start + Len(w)
          BY <1>0, <2>1, <2>b, <3>1, <3>2, <3>6, <4>1, <4>5 DEF Index
        <5>1. old \in Index /\ old < len
          <6> HIDE DEF short, start
          <6> QED
            BY <1>0, <2>1, <2>b, <3>1, <4>1, <5>a, SMTT(30) DEF Index
        <5> QED
          BY <4>2, <4>5, <5>1
      <4> QED
        BY <4>3, <4>4, <4>5
    <3> HIDE DEF short
    <3> QED
      BY <3>3, <3>4, <3>5, <3>6 DEF TailIsWiped
  <2> QED
    BY <2>2, <2>3
<1> QED
  BY <1>1, <1>2, <1>3, <1>4, <1>5, <1>6, <1>7, <1>8, <1>9, <1>10, <1>11 DEF Next

(* The invariant holds in every state.                                      *)
LEMMA Invariance == Spec => []IInv
<1>1. Init => IInv
  BY CapacityAssumption DEF Init, IInv, TailIsWiped, Index
<1>2. IInv /\ [Next]_vars => IInv'
  <2>1. ASSUME IInv, UNCHANGED vars
        PROVE  IInv'
    BY <2>1 DEF IInv, TailIsWiped, vars
  <2> QED
    BY <2>1, NextKeepsIInv
<1> QED
  BY <1>1, <1>2, PTL DEF Spec

(* The text and its terminator always fit in the array, and the text holds  *)
(* no terminator of its own: what a shift moves and what normalising copies *)
(* are characters of the text.                                              *)
THEOREM TypeCorrect == Spec => []TypeOK
<1>1. ASSUME IInv
      PROVE  TypeOK
  <2>1. Nul \notin Written /\ Written \subseteq Characters /\ Nul \in Characters
    BY CharacterAssumption DEF Written, Characters
  <2>2. \A i \in Index : IF i < len THEN buf[i] \in Written ELSE buf[i] = Nul
    BY <1>1, CapacityAssumption DEF IInv, TailIsWiped, Index
  <2>3. \A i \in Index : buf[i] \in Characters
    BY <2>1, <2>2
  <2>4. buf = [i \in Index |-> buf[i]]
    BY <1>1 DEF IInv
  <2>5. buf \in [Index -> Characters]
    BY <2>3, <2>4
  <2> QED
    BY <1>1, <2>1, <2>2, <2>5 DEF IInv, TypeOK
<1> QED
  BY <1>1, Invariance, PTL

(* No operation leaves a character of the secret behind the end of the      *)
(* text (secure_memory.h: "wiped, not left behind the terminator").         *)
THEOREM SecretTailIsWiped == Spec => []TailIsWiped
<1>1. IInv => TailIsWiped
  BY DEF IInv
<1> QED
  BY <1>1, Invariance, PTL
-----------------------------------------------------------------------------
(*****************************************************************************)
(* SecureString implements WordGrid                                          *)
(*                                                                           *)
(* What is shown of the text beside IInv: it is a row of cells, each where   *)
(* its offset says.  A row determines the cells, so that it is enough to     *)
(* find, for every operation, the row that it leads to.                      *)
(*****************************************************************************)

(* Where the cells of a row lie in its text: cell i starts at off[i - 1],   *)
(* and off[i] is behind its separator.                                      *)
Offsets(c, off) ==
    /\ c \in Seq(Seq(Letters)) /\ Len(c) \in Nat \ {0}
    /\ off \in [0..Len(c) -> Nat] /\ off[0] = 0
    /\ \A i \in 1..Len(c) : Len(c[i]) \in Nat /\ off[i] = off[i - 1] + Len(c[i]) + 1

(* The first n places of b are the row c.                                   *)
RowOn(b, n, c, off) ==
    /\ Offsets(c, off)
    /\ off[Len(c)] = n + 1
    /\ \A i \in 1..Len(c) : \A k \in 1..Len(c[i]) : b[off[i - 1] + k - 1] = c[i][k]
    /\ \A i \in 1..Len(c) - 1 : b[off[i] - 1] = Space

(* The text is the row c.                                                   *)
Row(c, off) == RowOn(buf, len, c, off)

(* The slot of cell i, as slotSpan() gives it.                              *)
SpanOf(off, i) == <<off[i - 1], off[i] - 1>>

(* A later cell starts farther on.                                          *)
LEMMA LaterIsFarther ==
    ASSUME NEW c, NEW off, Offsets(c, off), NEW i \in 0..Len(c), NEW j \in 0..Len(c), i < j
    PROVE  off[i] < off[j]
<1> DEFINE n == Len(c)
           T == {k \in 0..n : i < k /\ ~(off[i] < off[k])}
<1>1. n \in Nat /\ \A k \in 0..n : off[k] \in Nat
  BY DEF Offsets
<1>2. \A k \in 1..n : off[k - 1] < off[k]
  <2>1. ASSUME NEW k \in 1..n PROVE off[k - 1] < off[k]
    <3>1. k - 1 \in 0..n /\ off[k] = off[k - 1] + Len(c[k]) + 1 /\ Len(c[k]) \in Nat
      BY <1>1 DEF Offsets
    <3> QED
      BY <1>1, <3>1
  <2> QED
    BY <2>1
<1>3. SUFFICES ASSUME j \in T PROVE FALSE
  OBVIOUS
<1>4. PICK m \in T : \A k \in T : m <= k
  <2>1. T \in SUBSET Nat
    BY <1>1
  <2> HIDE DEF T
  <2> QED
    BY <1>3, <2>1, LeastNatural
<1>5. m \in 1..n /\ m - 1 \in 0..n /\ off[m - 1] < off[m] /\ ~(off[i] < off[m]) /\ i <= m - 1
  BY <1>1, <1>2, <1>4
<1>6. ~(i < m - 1)
  <2>1. SUFFICES ASSUME i < m - 1 PROVE FALSE
    OBVIOUS
  <2>2. off[i] < off[m - 1]
    BY <1>1, <1>4, <1>5, <2>1
  <2> QED
    BY <1>1, <1>5, <2>2
<1> QED
  BY <1>1, <1>5, <1>6

(* Every place of the text is in a cell or at its separator.                *)
LEMMA InSomeCell ==
    ASSUME NEW c, NEW off, Offsets(c, off), NEW p \in Nat, p < off[Len(c)]
    PROVE  \E i \in 1..Len(c) : off[i - 1] <= p /\ p < off[i]
<1> DEFINE n == Len(c)
           T == {k \in 1..n : p < off[k]}
<1>1. n \in Nat /\ n \in 1..n /\ \A k \in 0..n : off[k] \in Nat
  BY DEF Offsets
<1>2. PICK m \in T : \A k \in T : m <= k
  <2>1. T \in SUBSET Nat /\ T # {}
    BY <1>1
  <2> HIDE DEF T
  <2> QED
    BY <2>1, LeastNatural
<1>3. m \in 1..n /\ p < off[m] /\ m - 1 \in 0..n /\ m - 1 \notin T
  BY <1>1, <1>2
<1>4. off[m - 1] <= p
  <2>1. CASE m - 1 = 0
    BY <2>1 DEF Offsets
  <2>2. CASE m - 1 # 0
    <3>1. m - 1 \in 1..n
      BY <1>1, <1>3, <2>2
    <3> QED
      BY <1>1, <1>3, <3>1
  <2> QED
    BY <2>1, <2>2
<1> QED
  BY <1>3, <1>4

(* What follows of a row's layout.                                          *)
Laid(buffer, size, c, off) ==
    /\ Len(c) \in Nat \ {0} /\ DOMAIN c = 1..Len(c)
    /\ off[0] = 0 /\ off[Len(c)] = size + 1
    /\ \A i \in 0..Len(c) : off[i] \in Nat /\ off[i] <= size + 1
    /\ \A i \in 1..Len(c) :
          /\ c[i] \in Seq(Letters) /\ Len(c[i]) \in Nat
          /\ off[i - 1] \in Nat /\ off[i] \in Nat
          /\ off[i] = off[i - 1] + Len(c[i]) + 1
          /\ off[i - 1] <= size /\ off[i] - 1 \in 0..size
          /\ off[i] - 1 = size <=> i = Len(c)
    /\ \A i \in 1..Len(c) : \A p \in off[i - 1]..off[i] - 2 :
          p \in 0..size - 1 /\ buffer[p] = c[i][p - off[i - 1] + 1] /\ buffer[p] # Space
    /\ \A i \in 1..Len(c) : i # Len(c) => buffer[off[i] - 1] = Space

(* A row is laid out so.                                                    *)
LEMMA RowFacts ==
    ASSUME NEW buffer, NEW size \in Nat, NEW c, NEW off, RowOn(buffer, size, c, off)
    PROVE  Laid(buffer, size, c, off)
<1> DEFINE n == Len(c)
<1>1. /\ n \in Nat \ {0} /\ DOMAIN c = 1..n
      /\ off[0] = 0 /\ off[n] = size + 1 /\ Offsets(c, off) /\ c \in Seq(Seq(Letters))
  BY DEF RowOn, Offsets
<1>a. n \in Nat /\ n # 0 /\ off[0] = 0 /\ off[n] = size + 1
  BY <1>1
<1> HIDE DEF n
<1>2. ASSUME NEW i \in 0..n
      PROVE  off[i] \in Nat /\ off[i] <= size + 1 /\ (i # n => off[i] < size + 1)
  <2>1. off[i] \in Nat /\ n \in 0..n
    <3>1. off \in [0..n -> Nat]
      BY <1>1 DEF Offsets, n
    <3> QED
      BY <1>a, <3>1
  <2>2. CASE i = n
    BY <1>1, <2>1, <2>2
  <2>3. CASE i # n
    <3>1. off[i] < off[n]
      <4>1. i < n
        BY <1>a, <2>3
      <4> QED
        BY <1>1, <2>1, <4>1, LaterIsFarther DEF n
    <3> QED
      BY <1>a, <2>1, <2>3, <3>1
  <2> QED
    BY <2>2, <2>3
<1>3. ASSUME NEW i \in 1..n
      PROVE  /\ c[i] \in Seq(Letters) /\ Len(c[i]) \in Nat
             /\ off[i - 1] \in Nat /\ off[i] \in Nat
             /\ off[i] = off[i - 1] + Len(c[i]) + 1
             /\ off[i - 1] <= size /\ off[i] - 1 \in 0..size
             /\ off[i] - 1 = size <=> i = n
  <2>1. i - 1 \in 0..n /\ i - 1 # n /\ i \in 0..n
    BY <1>a
  <2>2. c[i] \in Seq(Letters) /\ Len(c[i]) \in Nat /\ off[i] = off[i - 1] + Len(c[i]) + 1
    BY <1>1 DEF Offsets, n
  <2>3. off[i - 1] \in Nat /\ off[i - 1] < size + 1 /\ off[i] \in Nat /\ off[i] <= size + 1
    BY <1>2, <2>1
  <2>4. off[i] - 1 = size <=> i = n
    BY <1>a, <1>2, <2>1, <2>3
  <2> QED
    BY <1>a, <2>2, <2>3, <2>4, SMTT(30)
<1>4. ASSUME NEW i \in 1..n, NEW p \in off[i - 1]..off[i] - 2
      PROVE  p \in 0..size - 1 /\ buffer[p] = c[i][p - off[i - 1] + 1] /\ buffer[p] # Space
  <2> DEFINE k == p - off[i - 1] + 1
  <2>1. k \in 1..Len(c[i]) /\ off[i - 1] + k - 1 = p /\ p \in 0..size - 1
    <3>1. /\ off[i - 1] \in Nat /\ off[i] \in Nat /\ off[i] - 1 \in 0..size
          /\ off[i] = off[i - 1] + Len(c[i]) + 1 /\ Len(c[i]) \in Nat
      BY <1>3
    <3>2. p \in Int /\ off[i - 1] <= p /\ p <= off[i] - 2
      BY <3>1
    <3>3. k \in 1..Len(c[i])
      <4>1. ASSUME NEW a \in Nat, NEW b \in Nat, NEW l \in Nat, b = a + l + 1,
                   NEW q \in Int, a <= q, q <= b - 2
            PROVE  q - a + 1 \in 1..l
        BY <4>1
      <4> QED
        BY <3>1, <3>2, <4>1
    <3>4. off[i - 1] + k - 1 = p
      BY <3>1, <3>2, SMTT(30)
    <3>5. p \in 0..size - 1
      BY <1>a, <3>1, <3>2, SMTT(30)
    <3> QED
      BY <3>3, <3>4, <3>5
  <2>2. buffer[p] = c[i][k]
    <3>1. buffer[off[i - 1] + k - 1] = c[i][k]
      BY <2>1 DEF RowOn, n
    <3> QED
      BY <2>1, <3>1
  <2>3. c[i][k] \in Letters
    BY <1>3, <2>1, SMTT(30)
  <2> QED
    BY <2>1, <2>2, <2>3, CharacterAssumption
<1>5. ASSUME NEW i \in 1..n, i # n
      PROVE  buffer[off[i] - 1] = Space
  <2>1. i \in 1..n - 1
    BY <1>a, <1>5
  <2> QED
    BY <2>1 DEF RowOn, n
<1> QED
  BY <1>1, <1>2, <1>3, <1>4, <1>5 DEF n, Laid

(* The same of the buffer itself.                                           *)
LEMMA TextFacts ==
    ASSUME IInv, NEW c, NEW off, Row(c, off)
    PROVE  len \in Nat /\ Laid(buf, len, c, off) /\ Offsets(c, off)
<1>1. len \in Nat
  BY CapacityAssumption DEF IInv, Index
<1>2. RowOn(buf, len, c, off) /\ Offsets(c, off)
  BY DEF Row, RowOn
<1> QED
  BY <1>1, <1>2, RowFacts

(* The slots of the text are the places of the row's cells.                 *)
LEMMA SpansAre ==
    ASSUME IInv, NEW c, NEW off, Row(c, off)
    PROVE  Spans = {SpanOf(off, i) : i \in 1..Len(c)}
<1> DEFINE n == Len(c)
<1>0. /\ n \in Nat \ {0} /\ len \in Nat
      /\ off[0] = 0 /\ off[n] = len + 1
      /\ \A i \in 1..n :
            /\ Len(c[i]) \in Nat
            /\ off[i - 1] \in Nat /\ off[i] \in Nat
            /\ off[i] = off[i - 1] + Len(c[i]) + 1
            /\ off[i - 1] <= len /\ off[i] - 1 \in 0..len
            /\ off[i] - 1 = len <=> i = n
      /\ \A i \in 1..n : \A p \in off[i - 1]..off[i] - 2 : buf[p] # Space
      /\ \A i \in 1..n : i # n => buf[off[i] - 1] = Space
  BY TextFacts DEF Laid
<1>1. ASSUME NEW i \in 1..n
      PROVE  SpanOf(off, i) \in Spans
  <2>1. off[i - 1] \in 0..len /\ off[i] - 1 \in 0..len /\ off[i - 1] <= off[i] - 1
    BY <1>0
  <2>2. off[i - 1] = 0 \/ buf[off[i - 1] - 1] = Space
    <3>1. CASE i = 1
      BY <1>0, <3>1
    <3>2. CASE i # 1
      <4>1. i - 1 \in 1..n /\ i - 1 # n
        BY <1>0, <3>2
      <4> QED
        BY <1>0, <4>1
    <3> QED
      BY <3>1, <3>2
  <2>3. off[i] - 1 = len \/ buf[off[i] - 1] = Space
    BY <1>0
  <2>4. \A p \in off[i - 1]..(off[i] - 1) - 1 : buf[p] # Space
    <3>1. off[i - 1]..(off[i] - 1) - 1 = off[i - 1]..off[i] - 2
      BY <1>0
    <3> QED
      BY <1>0, <3>1
  <2> QED
    BY <2>1, <2>2, <2>3, <2>4 DEF SpanOf, Spans
<1>2. ASSUME NEW span \in Spans
      PROVE  \E i \in 1..n : span = SpanOf(off, i)
  <2> DEFINE a == span[1]
             b == span[2]
  <2>1. /\ span = <<a, b>> /\ a \in 0..len /\ b \in 0..len /\ a <= b
        /\ a = 0 \/ buf[a - 1] = Space
        /\ b = len \/ buf[b] = Space
        /\ \A p \in a..(b - 1) : buf[p] # Space
    BY DEF Spans
  <2> HIDE DEF a, b
  <2>2. PICK i \in 1..n : off[i - 1] <= a /\ a < off[i]
    <3>1. a \in Nat /\ a < off[n] /\ Offsets(c, off)
      BY <1>0, <2>1 DEF Row, RowOn
    <3> QED
      BY <3>1, InSomeCell
  <2>3. a = off[i - 1]
    <3>1. SUFFICES ASSUME off[i - 1] < a PROVE FALSE
      BY <1>0, <2>1, <2>2
    <3>2. a - 1 \in off[i - 1]..off[i] - 2
      BY <1>0, <2>1, <2>2, <3>1, SMTT(30)
    <3>3. a # 0 /\ buf[a - 1] # Space
      BY <1>0, <2>1, <3>1, <3>2, SMTT(30)
    <3> QED
      BY <2>1, <3>3
  <2>4. ~(b < off[i] - 1)
    <3>1. SUFFICES ASSUME b < off[i] - 1 PROVE FALSE
      OBVIOUS
    <3>2. b \in off[i - 1]..off[i] - 2 /\ b # len
      BY <1>0, <2>1, <2>3, <3>1
    <3> QED
      BY <1>0, <2>1, <3>2
  <2>5. ~(off[i] - 1 < b)
    <3>1. SUFFICES ASSUME off[i] - 1 < b PROVE FALSE
      OBVIOUS
    <3>2. off[i] - 1 \in a..(b - 1) /\ off[i] - 1 # len
      BY <1>0, <2>1, <2>2, <2>3, <3>1, SMTT(30)
    <3> QED
      BY <1>0, <2>1, <3>2
  <2>6. b = off[i] - 1
    BY <1>0, <2>1, <2>4, <2>5
  <2> QED
    BY <2>1, <2>3, <2>6 DEF SpanOf
<1> QED
  BY <1>1, <1>2

(* The first m spans are m.                                                 *)
LEMMA SomeSpans ==
    ASSUME NEW c, NEW off, Offsets(c, off), NEW m \in 0..Len(c)
    PROVE  Cardinality({SpanOf(off, j) : j \in 1..m}) = m
<1> DEFINE S == {SpanOf(off, j) : j \in 1..m}
           f == [j \in 1..m |-> SpanOf(off, j)]
<1>1. Len(c) \in Nat /\ m \in Nat
  BY DEF Offsets
<1>2. ASSUME NEW i \in 1..m, NEW j \in 1..m, f[i] = f[j]
      PROVE  i = j
  <2>1. off[i - 1] = off[j - 1]
    BY <1>2 DEF SpanOf
  <2>2. i - 1 \in 0..Len(c) /\ j - 1 \in 0..Len(c) /\ off[i - 1] \in Nat /\ off[j - 1] \in Nat
    <3>1. i - 1 \in 0..Len(c) /\ j - 1 \in 0..Len(c)
      BY <1>1
    <3> QED
      BY <3>1 DEF Offsets
  <2>3. ~(i - 1 < j - 1) /\ ~(j - 1 < i - 1)
    <3>1. SUFFICES ASSUME i - 1 < j - 1 \/ j - 1 < i - 1 PROVE FALSE
      OBVIOUS
    <3>2. off[i - 1] < off[j - 1] \/ off[j - 1] < off[i - 1]
      BY <2>2, <3>1, LaterIsFarther
    <3> QED
      BY <2>1, <2>2, <3>2
  <2> QED
    BY <1>1, <2>3
<1>3. f \in Bijection(1..m, S)
  <2>1. f \in [1..m -> S]
    OBVIOUS
  <2>2. \A s \in S : \E j \in 1..m : f[j] = s
    OBVIOUS
  <2> HIDE DEF f, S
  <2> QED
    BY <1>2, <2>1, <2>2 DEF Bijection, Injection, Surjection, IsInjective
<1>4. IsFiniteSet(1..m) /\ Cardinality(1..m) = m
  BY <1>1, FS_Interval
<1> HIDE DEF S, f
<1>5. Cardinality(S) = Cardinality(1..m)
  BY <1>3, <1>4, FS_Bijection DEF ExistsBijection
<1> QED
  BY <1>4, <1>5 DEF S

(* The place of a slot is that of its cell.                                 *)
LEMMA PlaceIs ==
    ASSUME IInv, NEW c, NEW off, Row(c, off), NEW i \in 1..Len(c)
    PROVE  Place(SpanOf(off, i)) = i - 1
<1>1. /\ Spans = {SpanOf(off, j) : j \in 1..Len(c)} /\ Offsets(c, off)
      /\ Len(c) \in Nat
      /\ \A j \in 0..Len(c) : off[j] \in Nat
  BY SpansAre, TextFacts DEF Laid
<1>2. i - 1 \in 0..Len(c)
  BY <1>1
<1>3. ASSUME NEW j \in 1..Len(c)
      PROVE  off[j - 1] < off[i - 1] <=> j \in 1..i - 1
  <2>1. j - 1 \in 0..Len(c) /\ off[j - 1] \in Nat /\ off[i - 1] \in Nat
    BY <1>1, <1>2
  <2>2. CASE j < i
    <3>1. j - 1 < i - 1
      BY <1>1, <2>2
    <3>2. off[j - 1] < off[i - 1]
      BY <1>1, <1>2, <2>1, <3>1, LaterIsFarther
    <3> QED
      BY <1>1, <2>2, <3>2
  <2>3. CASE j = i
    BY <1>1, <2>1, <2>3
  <2>4. CASE i < j
    <3>1. i - 1 < j - 1
      BY <1>1, <2>4
    <3>2. off[i - 1] < off[j - 1]
      BY <1>1, <1>2, <2>1, <3>1, LaterIsFarther
    <3>3. ~(off[j - 1] < off[i - 1])
      BY <2>1, <3>2
    <3> QED
      BY <1>1, <2>4, <3>3
  <2> QED
    BY <1>1, <2>2, <2>3, <2>4
<1>4. \A j : SpanOf(off, j)[1] = off[j - 1]
  BY DEF SpanOf
<1>5. \A j \in 1..i - 1 : j \in 1..Len(c)
  BY <1>1
<1>6. {other \in Spans : other[1] < SpanOf(off, i)[1]} = {SpanOf(off, j) : j \in 1..i - 1}
  BY <1>1, <1>3, <1>4, <1>5
<1> QED
  BY <1>1, <1>2, <1>6, SomeSpans DEF Place

(* There are as many slots as cells.                                        *)
LEMMA SlotCountIs ==
    ASSUME IInv, NEW c, NEW off, Row(c, off)
    PROVE  SlotCount = Len(c)
<1>1. /\ Spans = {SpanOf(off, j) : j \in 1..Len(c)} /\ Offsets(c, off)
      /\ Len(c) \in Nat
  BY SpansAre, TextFacts DEF Laid
<1>2. Len(c) \in 0..Len(c)
  BY <1>1
<1> QED
  BY <1>1, <1>2, SomeSpans DEF SlotCount

(* The slot at a place is that of the cell there.                           *)
LEMMA PlacedAt ==
    ASSUME IInv, NEW c, NEW off, Row(c, off), NEW i \in 1..Len(c),
           NEW span \in Spans, Place(span) = i - 1
    PROVE  span = SpanOf(off, i)
<1>1. PICK j \in 1..Len(c) : span = SpanOf(off, j)
  BY SpansAre
<1>2. j - 1 = i - 1
  BY <1>1, PlaceIs
<1>3. Len(c) \in Nat
  BY TextFacts DEF Laid
<1> QED
  BY <1>1, <1>2, <1>3

(* A row determines what the grid sees of the text.                         *)
LEMMA CellsAre ==
    ASSUME IInv, NEW c, NEW off, Row(c, off)
    PROVE  Cells = c
<1>1. SlotCount = Len(c)
  BY SlotCountIs
<1> DEFINE Slot(i) == CHOOSE span \in Spans : Place(span) = i - 1
<1>2. ASSUME NEW i \in 1..Len(c)
      PROVE  Slot(i) = SpanOf(off, i)
  <2>1. SpanOf(off, i) \in Spans /\ Place(SpanOf(off, i)) = i - 1
    BY SpansAre, PlaceIs
  <2>2. Slot(i) \in Spans /\ Place(Slot(i)) = i - 1
    BY <2>1
  <2> HIDE DEF Slot
  <2> QED
    BY <2>2, PlacedAt
<1>3. Cells = [i \in 1..Len(c) |-> SubSeq(Text, Slot(i)[1] + 1, Slot(i)[2])]
  BY <1>1 DEF Cells
<1> HIDE DEF Slot
<1>4. ASSUME NEW i \in 1..Len(c)
      PROVE  SubSeq(Text, Slot(i)[1] + 1, Slot(i)[2]) = c[i]
  <2> DEFINE w == c[i]
  <2>1. PICK x \in Nat, y \in Nat, l \in Nat :
            x = off[i - 1] /\ y = off[i] /\ l = Len(w)
    BY TextFacts DEF Laid
  <2>2. /\ w \in Seq(Letters) /\ Len(w) = l /\ len \in Nat /\ y = x + l + 1 /\ y - 1 \in 0..len
        /\ \A p \in x..y - 2 : p \in 0..len - 1 /\ buf[p] = w[p - x + 1]
    BY <2>1, TextFacts DEF Laid
  <2>3. Slot(i)[1] + 1 = x + 1 /\ Slot(i)[2] = y - 1
    BY <1>2, <2>1 DEF SpanOf
  <2> HIDE DEF w
  <2>4. ASSUME NEW p \in x + 1..y - 1
        PROVE  Text[p] \in Letters /\ Text[p] = w[p - x]
    <3>1. p - 1 \in x..y - 2 /\ (p - 1) - x + 1 = p - x /\ p - x \in 1..l
      BY <2>2
    <3>2. p - 1 \in 0..len - 1 /\ buf[p - 1] = w[p - x]
      BY <2>2, <3>1
    <3>3. p \in 1..len
      BY <2>2, <3>2
    <3>4. w[p - x] \in Letters
      BY <2>2, <3>1, SMTT(30)
    <3> QED
      BY <3>2, <3>3, <3>4 DEF Text
  <2> DEFINE cell == SubSeq(Text, x + 1, y - 1)
  <2>5. /\ cell \in Seq(Letters)
        /\ Len(cell) = IF x + 1 <= y - 1 THEN (y - 1) - (x + 1) + 1 ELSE 0
        /\ \A k \in 1..(y - 1) - (x + 1) + 1 : cell[k] = Text[(x + 1) + k - 1]
    <3>1. x + 1 \in Int /\ y - 1 \in Int
      OBVIOUS
    <3> QED
      BY <2>4, <3>1, SubSeqProperties
  <2> HIDE DEF cell
  <2>6. (y - 1) - (x + 1) + 1 = l
    BY <2>2
  <2>7. Len(cell) = l
    BY <2>2, <2>5
  <2>8. ASSUME NEW k \in 1..l
        PROVE  cell[k] = w[k]
    <3>1. (x + 1) + k - 1 \in x + 1..y - 1 /\ ((x + 1) + k - 1) - x = k
      BY <2>2
    <3>2. cell[k] = Text[(x + 1) + k - 1]
      BY <2>5, <2>6
    <3> QED
      BY <2>4, <3>1, <3>2
  <2>9. cell = w
    BY <2>2, <2>5, <2>7, <2>8, SeqEqual
  <2> QED
    BY <2>3, <2>9 DEF cell, w
<1>5. c \in Seq(Seq(Letters))
  BY DEF Row, RowOn, Offsets
<1>6. c = [i \in 1..Len(c) |-> c[i]]
  BY <1>5
<1> QED
  BY <1>3, <1>4, <1>6

(* The length of a row's text is where its last cell ends.                  *)
LEMMA TextLengthIs ==
    ASSUME NEW c, NEW off, Offsets(c, off)
    PROVE  Grid!TextLength(c) = off[Len(c)] - 1
<1> DEFINE n == Len(c)
           Sums(f) == f = [i \in 0..n |-> IF i = 0 THEN 0 ELSE f[i - 1] + Len(c[i]) + 1]
           upTo == CHOOSE f : Sums(f)
<1>1. /\ n \in Nat /\ off \in [0..n -> Nat] /\ off[0] = 0
      /\ \A i \in 1..n : off[i] = off[i - 1] + Len(c[i]) + 1
  BY DEF Offsets
<1>2. Sums(off)
  <2>1. \A i \in 0..n : off[i] = IF i = 0 THEN 0 ELSE off[i - 1] + Len(c[i]) + 1
    BY <1>1
  <2>2. off = [i \in 0..n |-> off[i]]
    BY <1>1
  <2> QED
    BY <2>1, <2>2
<1>3. Sums(upTo)
  BY <1>2
<1>4. /\ upTo = [i \in 0..n |-> IF i = 0 THEN 0 ELSE upTo[i - 1] + Len(c[i]) + 1]
      /\ Grid!TextLength(c) = upTo[n] - 1
  BY <1>3 DEF Grid!TextLength
<1> HIDE DEF upTo, Sums
<1> DEFINE T == {i \in 0..n : upTo[i] # off[i]}
<1>5. T = {}
  <2>1. SUFFICES ASSUME T # {} PROVE FALSE
    OBVIOUS
  <2>2. PICK m \in T : \A k \in T : m <= k
    <3>1. T \in SUBSET Nat
      BY <1>1
    <3> HIDE DEF T
    <3> QED
      BY <2>1, <3>1, LeastNatural
  <2>3. m \in 0..n /\ upTo[m] # off[m]
    BY <2>2
  <2>4. m # 0
    <3>1. upTo[0] = 0
      BY <1>1, <1>4
    <3> QED
      BY <1>1, <2>3, <3>1
  <2>5. m \in 1..n /\ m - 1 \in 0..n /\ m - 1 \notin T
    BY <1>1, <2>2, <2>3, <2>4
  <2>6. upTo[m - 1] = off[m - 1]
    BY <2>5
  <2>7. upTo[m] = upTo[m - 1] + Len(c[m]) + 1
    BY <1>4, <2>3, <2>4
  <2> QED
    BY <1>1, <2>3, <2>5, <2>6, <2>7
<1>6. n \in 0..n
  BY <1>1
<1>7. upTo[n] = off[n]
  BY <1>5, <1>6
<1> QED
  BY <1>4, <1>7
-----------------------------------------------------------------------------
(*****************************************************************************)
(* How a row changes: a cut, a word in the place of another, empty cells     *)
(* more, a row of one cell.                                                  *)
(*****************************************************************************)

(* A function on 1..m is a sequence of length m.                            *)
LEMMA SequenceOf ==
    ASSUME NEW S, NEW m \in Nat, NEW f \in [1..m -> S]
    PROVE  f \in Seq(S) /\ Len(f) = m /\ DOMAIN f = 1..m
OBVIOUS

(* A row is given by its cells, where they start, and the separators.       *)
LEMMA MadeRow ==
    ASSUME NEW b, NEW size \in Nat, NEW m \in Nat \ {0},
           NEW c \in [1..m -> Seq(Letters)], NEW off \in [0..m -> Nat],
           off[0] = 0, off[m] = size + 1,
           \A j \in 1..m : off[j] = off[j - 1] + Len(c[j]) + 1,
           \A j \in 1..m : \A k \in 1..Len(c[j]) : b[off[j - 1] + k - 1] = c[j][k],
           \A j \in 1..m - 1 : b[off[j] - 1] = Space
    PROVE  RowOn(b, size, c, off)
<1>1. c \in Seq(Seq(Letters)) /\ Len(c) = m
  BY SequenceOf
<1>2. \A j \in 1..m : Len(c[j]) \in Nat
  OBVIOUS
<1> QED
  BY <1>1, <1>2 DEF RowOn, Offsets

(* The cells up to i, of which i keeps its first l letters.                 *)
CutCells(c, i, l) == [j \in 1..i |-> IF j = i THEN SubSeq(c[i], 1, l) ELSE c[j]]
CutOffsets(off, i, m) == [j \in 0..i |-> IF j = i THEN m + 1 ELSE off[j]]

(* A cut in cell i keeps the cells before it and the cut cell's beginning.  *)
LEMMA CutRow ==
    ASSUME NEW b, NEW size \in Nat, NEW c, NEW off, RowOn(b, size, c, off),
           NEW i \in 1..Len(c), NEW m \in Nat, off[i - 1] <= m, m <= off[i] - 1,
           NEW b2, \A p \in 0..m - 1 : b2[p] = b[p]
    PROVE  RowOn(b2, m, CutCells(c, i, m - off[i - 1]), CutOffsets(off, i, m))
<1>1. Laid(b, size, c, off)
  BY RowFacts
<1>2. PICK x \in Nat, l \in Nat, n \in Nat :
          /\ x = off[i - 1] /\ l = Len(c[i]) /\ n = Len(c)
          /\ off[i] = x + l + 1 /\ x <= m /\ m <= x + l /\ c[i] \in Seq(Letters)
          /\ i \in 1..n /\ i \in Nat \ {0}
  <2>1. /\ Len(c) \in Nat /\ off[i - 1] \in Nat /\ off[i] \in Nat /\ Len(c[i]) \in Nat
        /\ off[i] = off[i - 1] + Len(c[i]) + 1 /\ c[i] \in Seq(Letters)
    BY <1>1 DEF Laid
  <2> QED
    BY <2>1
<1>n. /\ x \in Nat /\ l \in Nat /\ n \in Nat /\ i \in Nat
      /\ x <= m /\ m <= x + l /\ 1 <= i /\ i <= n
  BY <1>2
<1> DEFINE c2 == CutCells(c, i, m - x)
           off2 == CutOffsets(off, i, m)
<1>3. SubSeq(c[i], 1, m - x) \in Seq(Letters) /\ Len(SubSeq(c[i], 1, m - x)) = m - x
      /\ \A k \in 1..m - x : SubSeq(c[i], 1, m - x)[k] = c[i][k]
  <2>1. m - x \in Nat /\ m - x <= l
    BY <1>2
  <2> QED
    BY <1>2, <2>1, SubSeqProperties, SMTT(30)
<1>4. \A j \in 1..i : /\ j \in 1..n /\ j - 1 \in 0..n /\ j - 1 # i /\ j - 1 \in 0..i
                      /\ j # i => j \in 1..i - 1 /\ j \in 1..n - 1
  BY <1>2
<1>5. \A j \in 1..n :
         /\ c[j] \in Seq(Letters) /\ Len(c[j]) \in Nat /\ off[j] \in Nat /\ off[j - 1] \in Nat
         /\ off[j] = off[j - 1] + Len(c[j]) + 1
  BY <1>1, <1>2 DEF Laid
<1>6. c2 \in [1..i -> Seq(Letters)]
  BY <1>3, <1>4, <1>5 DEF CutCells
<1>7. off2 \in [0..i -> Nat] /\ off2[0] = 0 /\ off2[i] = m + 1
  <2>0. \A j \in 0..n : off[j] \in Nat
    BY <1>1, <1>2 DEF Laid
  <2>1. \A j \in 0..i : j # i => j \in 0..n /\ off[j] \in Nat
    BY <1>n, <2>0
  <2>2. off[0] = 0 /\ 0 # i
    BY <1>1, <1>2 DEF Laid
  <2> QED
    BY <1>2, <2>1, <2>2 DEF CutOffsets
<1>8. \A j \in 1..i : off2[j - 1] = off[j - 1] /\ (j # i => off2[j] = off[j] /\ c2[j] = c[j])
  BY <1>2, <1>4 DEF CutOffsets, CutCells
<1>9. c2[i] = SubSeq(c[i], 1, m - x)
  BY <1>2 DEF CutCells
<1>10. ASSUME NEW j \in 1..i
       PROVE  /\ off2[j] = off2[j - 1] + Len(c2[j]) + 1
              /\ \A k \in 1..Len(c2[j]) : b2[off2[j - 1] + k - 1] = c2[j][k]
              /\ j # i => b2[off2[j] - 1] = Space
  <2>a. \A q \in 1..n : \A k \in 1..Len(c[q]) : b[off[q - 1] + k - 1] = c[q][k]
    BY <1>2 DEF RowOn
  <2>1. CASE j = i
    <3>1. off2[j - 1] = x
      BY <1>2, <1>8, <2>1
    <3>2. ASSUME NEW k \in 1..m - x
          PROVE  b2[x + k - 1] = c2[j][k]
      <4>1. x + k - 1 \in 0..m - 1 /\ k \in 1..l
        BY <1>n
      <4>2. b[x + k - 1] = c[i][k]
        BY <1>2, <2>a, <4>1
      <4> QED
        BY <1>3, <1>9, <2>1, <4>1, <4>2
    <3> HIDE DEF c2, off2
    <3>3. Len(c2[j]) = m - x /\ off2[j] = m + 1
      BY <1>3, <1>7, <1>9, <2>1
    <3> QED
      BY <1>2, <2>1, <3>1, <3>2, <3>3
  <2>2. CASE j # i
    <3>1. PICK y \in Nat, z \in Nat, k \in Nat :
              y = off[j - 1] /\ z = off[j] /\ k = Len(c[j]) /\ z = y + k + 1
      <4>1. j \in 1..n
        BY <1>4
      <4>2. /\ off[j - 1] \in Nat /\ off[j] \in Nat /\ Len(c[j]) \in Nat
            /\ off[j] = off[j - 1] + Len(c[j]) + 1
        BY <1>5, <4>1
      <4> QED
        BY <4>2
    <3>n. y \in Nat /\ z \in Nat /\ k \in Nat /\ z = y + k + 1
      BY <3>1
    <3>2. z <= x
      <4>1. CASE j = i - 1
        <5>1. z = x
          BY <1>2, <3>1, <4>1
        <5> QED
          BY <1>n, <5>1
      <4>2. CASE j # i - 1
        <5>1. j \in 0..Len(c) /\ i - 1 \in 0..Len(c) /\ j < i - 1 /\ Offsets(c, off)
          BY <1>2, <2>2, <4>2 DEF RowOn
        <5>2. z < x
          BY <1>2, <3>1, <5>1, LaterIsFarther
        <5> QED
          BY <1>n, <3>n, <5>2
      <4> QED
        BY <4>1, <4>2
    <3>3. ASSUME NEW q \in 1..k
          PROVE  b2[y + q - 1] = c[j][q]
      <4>1. y + q - 1 \in 0..m - 1
        BY <1>n, <3>n, <3>2
      <4>2. b[y + q - 1] = c[j][q]
        BY <1>4, <2>a, <3>1
      <4> QED
        BY <4>1, <4>2
    <3>4. b2[z - 1] = Space
      <4>1. z - 1 \in 0..m - 1
        BY <1>n, <3>n, <3>2
      <4>2. b[z - 1] = Space
        BY <1>2, <1>4, <2>2, <3>1 DEF RowOn
      <4> QED
        BY <4>1, <4>2
    <3>5. off2[j - 1] = y /\ off2[j] = z /\ c2[j] = c[j]
      BY <1>8, <2>2, <3>1
    <3> HIDE DEF c2, off2
    <3> QED
      BY <2>2, <3>1, <3>3, <3>4, <3>5
  <2> QED
    BY <2>1, <2>2
<1> HIDE DEF c2, off2
<1>11. \A j \in 1..i - 1 : j \in 1..i /\ j # i
  BY <1>2
<1>12. RowOn(b2, m, c2, off2)
  BY <1>2, <1>6, <1>7, <1>10, <1>11, MadeRow, ZenonT(30)
<1> QED
  BY <1>2, <1>12 DEF c2, off2

(* What is behind cell i moves by d.                                        *)
EditedOffsets(off, n, i, d) == [j \in 0..n |-> IF j < i THEN off[j] ELSE off[j] + d]

(* A word takes the place of cell i, and what is behind it moves along.     *)
Replaced(b, size, c, off, i, w, b2, size2) ==
    LET d == Len(w) - Len(c[i])
    IN  /\ size2 = size + d
        /\ \A p \in 0..off[i - 1] - 1 : b2[p] = b[p]
        /\ \A k \in 1..Len(w) : b2[off[i - 1] + k - 1] = w[k]
        /\ \A p \in off[i] - 1..size - 1 : b2[p + d] = b[p]

(* Then the row is the old one with that word in it.                        *)
LEMMA EditedRow ==
    ASSUME NEW b, NEW size \in Nat, NEW c, NEW off, RowOn(b, size, c, off),
           NEW i \in 1..Len(c), NEW w \in Seq(Letters), NEW b2, NEW size2 \in Nat,
           Replaced(b, size, c, off, i, w, b2, size2)
    PROVE  RowOn(b2, size2, [c EXCEPT ![i] = w],
                 EditedOffsets(off, Len(c), i, Len(w) - Len(c[i])))
<1>1. Laid(b, size, c, off) /\ Offsets(c, off)
  BY RowFacts DEF RowOn
<1>2. PICK x \in Nat, l \in Nat, n \in Nat, v \in Nat, d \in Int :
          /\ x = off[i - 1] /\ l = Len(c[i]) /\ n = Len(c) /\ v = Len(w)
          /\ off[i] = x + l + 1 /\ off[n] = size + 1 /\ d = v - l /\ d = Len(w) - Len(c[i])
          /\ i \in 1..n /\ i \in Nat \ {0}
  <2>1. /\ Len(c) \in Nat /\ off[i - 1] \in Nat /\ off[i] \in Nat /\ Len(c[i]) \in Nat
        /\ off[i] = off[i - 1] + Len(c[i]) + 1 /\ off[Len(c)] = size + 1
    BY <1>1 DEF Laid
  <2>2. Len(w) \in Nat
    OBVIOUS
  <2> QED
    BY <2>1, <2>2, SMTT(30)
<1>n. /\ x \in Nat /\ l \in Nat /\ n \in Nat /\ v \in Nat /\ i \in Nat /\ d \in Int /\ size \in Nat
      /\ d = v - l /\ 1 <= i /\ i <= n
  BY <1>2
<1>r. /\ size2 = size + d
      /\ \A p \in 0..x - 1 : b2[p] = b[p]
      /\ \A k \in 1..v : b2[x + k - 1] = w[k]
      /\ \A p \in x + l..size - 1 : b2[p + d] = b[p]
  <2>1. off[i] - 1 = x + l
    BY <1>2
  <2> QED
    BY <1>2, <2>1 DEF Replaced
<1> DEFINE c2 == [c EXCEPT ![i] = w]
           off2 == EditedOffsets(off, n, i, d)
<1>3. \A j \in 1..n :
         /\ c[j] \in Seq(Letters) /\ Len(c[j]) \in Nat /\ off[j] \in Nat /\ off[j - 1] \in Nat
         /\ off[j] = off[j - 1] + Len(c[j]) + 1
  BY <1>1, <1>2 DEF Laid
<1>4. c \in [1..n -> Seq(Letters)]
  <2>1. c \in Seq(Seq(Letters))
    BY <1>1 DEF Offsets
  <2> QED
    BY <1>2, <2>1
<1>5. c2 \in [1..n -> Seq(Letters)] /\ c2[i] = w /\ \A j \in 1..n : j # i => c2[j] = c[j]
  BY <1>2, <1>4
<1>6. ASSUME NEW j \in 0..n, NEW k \in 0..n, j < k
      PROVE  off[j] < off[k] /\ off[j] \in Nat /\ off[k] \in Nat
  <2>1. off[j] \in Nat /\ off[k] \in Nat
    BY <1>1, <1>2 DEF Laid
  <2> QED
    BY <1>1, <1>2, <1>6, <2>1, LaterIsFarther
<1>7. ASSUME NEW j \in 0..n
      PROVE  off2[j] = (IF j < i THEN off[j] ELSE off[j] + d) /\ off2[j] \in Nat
  <2>0. off[j] \in Nat
    BY <1>1, <1>2 DEF Laid
  <2>1. j >= i => off[j] >= x + l + 1
    <3>1. CASE j = i
      BY <1>n, <1>2, <3>1
    <3>2. CASE j > i
      <4>1. i \in 0..n
        BY <1>n
      <4>2. off[i] < off[j]
        BY <4>1, <3>2, <1>6
      <4>3. x + l + 1 < off[j]
        BY <1>2, <4>2
      <4> QED
        BY <2>0, <4>3, <1>n
    <3> QED
      BY <3>1, <3>2, <1>n
  <2>2. off2[j] = IF j < i THEN off[j] ELSE off[j] + d
    BY DEF EditedOffsets
  <2>3. PICK y \in Nat : y = off[j] /\ (j >= i => y >= x + l + 1)
    BY <2>0, <2>1
  <2>4. j \in Nat /\ y \in Nat /\ (j >= i => y >= x + l + 1)
    BY <2>3
  <2>5. (j < i \/ j >= i) /\ (j >= i => y + d \in Nat)
    BY <2>4, <1>n
  <2>6. off2[j] = IF j < i THEN y ELSE y + d
    BY <2>2, <2>3
  <2> HIDE DEF off2
  <2>7. off2[j] \in Nat
    BY <2>4, <2>5, <2>6
  <2> QED
    BY <2>2, <2>7
<1>8. off2 \in [0..n -> Nat] /\ off2[0] = 0 /\ off2[n] = size2 + 1
  <2>1. 0 \in 0..n /\ n \in 0..n /\ 0 < i /\ ~(n < i)
    BY <1>n
  <2>2. off[0] = 0 /\ off[n] = size + 1
    BY <1>1, <1>2 DEF Laid
  <2>3. off2[0] = 0 /\ off2[n] = (size + 1) + d
    BY <2>1, <2>2, <1>7
  <2>4. off2 \in [0..n -> Nat]
    BY <1>7 DEF EditedOffsets
  <2> HIDE DEF off2
  <2> QED
    BY <2>3, <2>4, <1>n, <1>r
<1> HIDE DEF off2
<1>9. ASSUME NEW j \in 1..n
      PROVE  /\ off2[j] = off2[j - 1] + Len(c2[j]) + 1
             /\ \A k \in 1..Len(c2[j]) : b2[off2[j - 1] + k - 1] = c2[j][k]
             /\ j # n => b2[off2[j] - 1] = Space
  <2>1. PICK y \in Nat, z \in Nat, k \in Nat :
            y = off[j - 1] /\ z = off[j] /\ k = Len(c[j]) /\ z = y + k + 1
    <3>1. /\ off[j - 1] \in Nat /\ off[j] \in Nat /\ Len(c[j]) \in Nat
          /\ off[j] = off[j - 1] + Len(c[j]) + 1
      BY <1>3
    <3> QED
      BY <3>1
  <2>2. \A q \in 1..k : b[y + q - 1] = c[j][q]
    BY <2>1, <1>2 DEF RowOn
  <2>3. j # n => b[z - 1] = Space
    <3>1. j # n => j \in 1..n - 1
      BY <1>n
    <3> QED
      BY <2>1, <3>1, <1>2 DEF RowOn
  <2>n. y \in Nat /\ z \in Nat /\ k \in Nat /\ z = y + k + 1 /\ j \in Nat
    BY <2>1
  <2>a. j \in 0..n /\ j - 1 \in 0..n /\ i - 1 \in 0..n /\ i \in 0..n
    BY <1>n, <2>n
  <2>4. /\ off2[j] = IF j < i THEN z ELSE z + d
        /\ off2[j - 1] = IF j - 1 < i THEN y ELSE y + d
    BY <1>7, <2>1, <2>a
  <2>8. z <= size + 1 /\ (j # n => z < size + 1)
    <3>1. CASE j = n
      <4>1. z = size + 1
        BY <1>2, <2>1, <3>1
      <4> QED
        BY <3>1, <4>1, <1>n
    <3>2. CASE j # n
      <4>1. j < n /\ n \in 0..n
        BY <3>2, <1>n
      <4>2. off[j] < off[n]
        BY <4>1, <2>a, <1>6
      <4>3. z < size + 1
        BY <1>2, <2>1, <4>2
      <4> QED
        BY <4>3, <1>n, <2>n
    <3> QED
      BY <3>1, <3>2
  <2>5. CASE j < i
    <3>1. z <= x
      <4>1. CASE j = i - 1
        <5>1. z = x
          BY <1>2, <2>1, <4>1
        <5> QED
          BY <1>n, <5>1
      <4>2. CASE j < i - 1
        <5>1. z < x
          BY <1>2, <2>1, <2>a, <1>6, <4>2
        <5> QED
          BY <1>n, <2>n, <5>1
      <4>3. j = i - 1 \/ j < i - 1
        BY <2>5, <2>n, <1>n
      <4> QED
        BY <4>1, <4>2, <4>3
    <3>2. ASSUME NEW q \in 1..k
          PROVE  b2[y + q - 1] = c[j][q]
      <4>1. y + q - 1 \in 0..x - 1
        BY <1>n, <2>n, <3>1
      <4> QED
        BY <1>r, <2>2, <4>1
    <3>3. j # n => b2[z - 1] = Space
      <4>1. z - 1 \in 0..x - 1
        BY <1>n, <2>n, <3>1
      <4> QED
        BY <1>r, <2>3, <4>1
    <3>4. off2[j - 1] = y /\ off2[j] = z /\ c2[j] = c[j]
      BY <2>4, <2>5, <2>n, <1>n, <1>5, SMTT(30)
    <3> HIDE DEF c2
    <3> QED
      BY <2>1, <3>2, <3>3, <3>4
  <2>6. CASE j = i
    <3>1. y = x /\ z = x + l + 1 /\ k = l
      BY <2>6, <2>1, <1>2
    <3>2. off2[j - 1] = x /\ off2[j] = x + v + 1
      <4>0. z = x + l + 1 /\ z + d = x + v + 1
        BY <3>1, <1>n
      <4>1. ~(j < i) /\ j - 1 < i /\ z + d = x + v + 1
        BY <2>6, <2>n, <1>n, <4>0
      <4> QED
        BY <2>4, <3>1, <4>1
    <3>3. c2[j] = w /\ Len(c2[j]) = v
      BY <1>2, <1>5, <2>6
    <3>4. j # n => b2[x + v] = Space
      <4>1. z = x + l + 1
        BY <3>1
      <4>2. z - 1 = x + l /\ (z - 1) + d = x + v
        BY <4>1, <1>n
      <4>3. j # n => z - 1 \in x + l..size - 1
        BY <4>1, <1>n, <2>8
      <4> QED
        BY <2>3, <4>2, <4>3, <1>r
    <3>5. \A q \in 1..v : b2[x + q - 1] = w[q]
      BY <1>r
    <3>6. (x + v + 1) - 1 = x + v
      BY <1>n
    <3> HIDE DEF c2
    <3> QED
      BY <3>2, <3>3, <3>4, <3>5, <3>6
  <2>7. CASE i < j
    <3>1. x + l + 1 <= y
      <4>1. CASE i = j - 1
        <5>1. y = x + l + 1
          BY <1>2, <2>1, <4>1
        <5> QED
          BY <1>n, <5>1
      <4>2. CASE i < j - 1
        <5>1. off[i] < y
          BY <2>1, <2>a, <1>6, <4>2
        <5>2. x + l + 1 < y
          BY <1>2, <5>1
        <5> QED
          BY <1>n, <2>n, <5>2
      <4>3. i = j - 1 \/ i < j - 1
        BY <2>7, <2>n, <1>n
      <4> QED
        BY <4>1, <4>2, <4>3
    <3>2. ASSUME NEW q \in 1..k
          PROVE  b2[(y + d) + q - 1] = c[j][q]
      <4>1. y + q - 1 \in x + l..size - 1 /\ (y + q - 1) + d = (y + d) + q - 1
        BY <1>n, <2>n, <3>1, <2>8
      <4>2. b2[(y + q - 1) + d] = b[y + q - 1]
        BY <1>r, <4>1
      <4> QED
        BY <2>2, <4>1, <4>2
    <3>3. j # n => b2[(z + d) - 1] = Space
      <4>1. j # n => z - 1 \in x + l..size - 1 /\ (z - 1) + d = (z + d) - 1
        BY <1>n, <2>n, <3>1, <2>8
      <4> QED
        BY <1>r, <2>3, <4>1
    <3>4. off2[j - 1] = y + d /\ off2[j] = z + d /\ c2[j] = c[j]
      BY <2>4, <2>7, <2>n, <1>n, <1>5, SMTT(30)
    <3>5. z + d = (y + d) + k + 1
      BY <2>n, <1>n
    <3> HIDE DEF c2
    <3> QED
      BY <2>1, <3>2, <3>3, <3>4, <3>5
  <2> QED
    BY <2>5, <2>6, <2>7, <2>n, <1>n
<1> HIDE DEF c2
<1>10. \A j \in 1..n - 1 : j \in 1..n /\ j # n
  BY <1>n
<1>11. n \in Nat \ {0}
  BY <1>n
<1>12. RowOn(b2, size2, c2, off2)
  <2>1. /\ \A j \in 1..n : off2[j] = off2[j - 1] + Len(c2[j]) + 1
        /\ \A j \in 1..n : \A k \in 1..Len(c2[j]) : b2[off2[j - 1] + k - 1] = c2[j][k]
    BY <1>9
  <2>2. \A j \in 1..n - 1 : b2[off2[j] - 1] = Space
    BY <1>9, <1>10
  <2>3. c2 \in [1..n -> Seq(Letters)]
    BY <1>5
  <2> QED
    BY <1>8, <1>11, <2>1, <2>2, <2>3, MadeRow
<1> QED
  BY <1>2, <1>12 DEF c2, off2

(* Of k empty cells more, each starts right behind the last.                *)
WidenedOffsets(off, n, k) ==
    [j \in 0..n + k |-> IF j <= n THEN off[j] ELSE off[n] + (j - n)]

(* Separators are put behind the text.                                      *)
Widened(b, size, k, b2) ==
    /\ \A p \in 0..size - 1 : b2[p] = b[p]
    /\ \A p \in size..size + k - 1 : b2[p] = Space

(* Then the row has so many empty cells more.                               *)
LEMMA WidenedRow ==
    ASSUME NEW b, NEW size \in Nat, NEW c, NEW off, RowOn(b, size, c, off),
           NEW k \in Nat, NEW b2, Widened(b, size, k, b2)
    PROVE  RowOn(b2, size + k, Grid!Resized(c, Len(c) + k), WidenedOffsets(off, Len(c), k))
<1>1. Laid(b, size, c, off) /\ Offsets(c, off)
  BY RowFacts DEF RowOn
<1>2. PICK n \in Nat \ {0} : n = Len(c) /\ off[n] = size + 1
  BY <1>1 DEF Laid
<1>n. n \in Nat /\ n >= 1 /\ k \in Nat /\ size \in Nat
  BY <1>2
<1> DEFINE c2 == Grid!Resized(c, n + k)
           off2 == WidenedOffsets(off, n, k)
           m == n + k
<1>3. \A j \in 1..n :
         /\ c[j] \in Seq(Letters) /\ Len(c[j]) \in Nat /\ off[j] \in Nat /\ off[j - 1] \in Nat
         /\ off[j] = off[j - 1] + Len(c[j]) + 1
         /\ \A p \in off[j - 1]..off[j] - 2 : p \in 0..size - 1
         /\ off[j] - 1 \in 0..size /\ (off[j] - 1 = size <=> j = n)
  BY <1>1, <1>2 DEF Laid
<1>4. \A j \in 0..n : off[j] \in Nat
  BY <1>1, <1>2 DEF Laid
<1>5. \A j \in 1..m : c2[j] = IF j <= n THEN c[j] ELSE <<>>
  BY <1>2 DEF Grid!Resized
<1>6. c2 \in [1..m -> Seq(Letters)]
  <2>1. \A j \in 1..m : j <= n => j \in 1..n
    BY <1>n
  <2>2. <<>> \in Seq(Letters)
    OBVIOUS
  <2>3. \A j \in 1..m : (IF j <= n THEN c[j] ELSE <<>>) \in Seq(Letters)
    BY <1>3, <2>1, <2>2
  <2>4. c2 = [j \in 1..m |-> IF j <= n THEN c[j] ELSE <<>>]
    BY <1>2 DEF Grid!Resized
  <2> HIDE DEF c2, m
  <2> QED
    BY <2>3, <2>4
<1>7. \A j \in 0..m : off2[j] = IF j <= n THEN off[j] ELSE (size + 1) + (j - n)
  BY <1>2 DEF WidenedOffsets
<1>8. off2 \in [0..m -> Nat] /\ off2[0] = 0 /\ off2[m] = (size + k) + 1
  <2>1. ASSUME NEW j \in 0..m
        PROVE  off2[j] \in Nat
    <3>1. CASE j <= n
      <4>1. j \in 0..n
        BY <1>n, <3>1
      <4> QED
        BY <1>4, <1>7, <3>1, <4>1
    <3>2. CASE ~(j <= n)
      <4>1. (size + 1) + (j - n) \in Nat
        BY <1>n, <3>2
      <4> QED
        BY <1>7, <3>2, <4>1
    <3> QED
      BY <3>1, <3>2
  <2>2. off2 = [j \in 0..m |-> off2[j]]
    BY DEF WidenedOffsets
  <2>3. off2[0] = 0
    <3>1. 0 \in 0..m /\ 0 <= n
      BY <1>n
    <3>2. off[0] = 0
      BY <1>1 DEF Laid
    <3> QED
      BY <1>7, <3>1, <3>2
  <2>4. off2[m] = (size + k) + 1
    <3>1. CASE k = 0
      <4>1. m = n /\ m \in 0..m /\ size + 1 = (size + k) + 1
        BY <1>n, <3>1
      <4>2. off2[n] = off[n]
        BY <1>7, <1>n, <4>1
      <4> QED
        BY <1>2, <4>1, <4>2
    <3>2. CASE k # 0
      <4>1. ~(m <= n) /\ m \in 0..m /\ (size + 1) + (m - n) = (size + k) + 1
        BY <1>n, <3>2
      <4> QED
        BY <1>7, <4>1
    <3> QED
      BY <3>1, <3>2
  <2> HIDE DEF off2, m
  <2> QED
    BY <2>1, <2>2, <2>3, <2>4
<1>9. ASSUME NEW j \in 1..m
      PROVE  /\ off2[j] = off2[j - 1] + Len(c2[j]) + 1
             /\ \A q \in 1..Len(c2[j]) : b2[off2[j - 1] + q - 1] = c2[j][q]
             /\ j # m => b2[off2[j] - 1] = Space
  <2> HIDE DEF c2, off2
  <2>a. j \in 0..m /\ j - 1 \in 0..m
    BY <1>n
  <2>1. CASE j <= n
    <3>1. j \in 1..n /\ j - 1 <= n /\ (j # n => j \in 1..n - 1)
      BY <1>n, <2>1
    <3>2. off2[j] = off[j] /\ off2[j - 1] = off[j - 1] /\ c2[j] = c[j]
      BY <1>5, <1>7, <2>1, <2>a, <3>1
    <3>3. ASSUME NEW q \in 1..Len(c[j])
          PROVE  b2[off[j - 1] + q - 1] = c[j][q]
      <4>1. off[j - 1] + q - 1 \in off[j - 1]..off[j] - 2
        <5>1. PICK y \in Nat, z \in Nat, l \in Nat :
                  y = off[j - 1] /\ z = off[j] /\ l = Len(c[j]) /\ z = y + l + 1
          <6>1. /\ off[j - 1] \in Nat /\ off[j] \in Nat /\ Len(c[j]) \in Nat
                /\ off[j] = off[j - 1] + Len(c[j]) + 1
            BY <1>3, <3>1
          <6> QED
            BY <6>1
        <5>2. q \in 1..l
          BY <5>1
        <5>3. \A e, f, g \in Nat : \A h \in 1..g : f = e + g + 1 => e + h - 1 \in e..f - 2
          OBVIOUS
        <5>4. y + q - 1 \in y..z - 2
          BY <5>1, <5>2, <5>3
        <5> QED
          BY <5>1, <5>4
      <4>2. off[j - 1] + q - 1 \in 0..size - 1
        BY <1>3, <3>1, <4>1
      <4>3. b[off[j - 1] + q - 1] = c[j][q]
        BY <1>2, <3>1 DEF RowOn
      <4> QED
        BY <4>2, <4>3 DEF Widened
    <3>4. j # m => b2[off[j] - 1] = Space
      <4>1. CASE j # n
        <5>1. b[off[j] - 1] = Space
          BY <1>2, <3>1, <4>1 DEF RowOn
        <5>2. off[j] - 1 \in 0..size /\ off[j] - 1 # size
          BY <1>3, <3>1, <4>1
        <5>3. off[j] - 1 \in 0..size - 1
          BY <5>2, <1>n
        <5> QED
          BY <5>1, <5>3 DEF Widened
      <4>2. CASE j = n /\ j # m
        <5>1. k # 0 /\ size \in size..size + k - 1
          BY <1>n, <4>2
        <5>2. off[j] - 1 = size
          BY <1>3, <3>1, <4>2
        <5> QED
          BY <5>1, <5>2 DEF Widened
      <4> QED
        BY <4>1, <4>2
    <3> HIDE DEF m
    <3> QED
      BY <1>3, <3>1, <3>2, <3>3, <3>4
  <2>2. CASE ~(j <= n)
    <3>1. PICK t \in Nat : t = j - n /\ t >= 1 /\ t <= k
      BY <1>n, <2>2
    <3>2. off2[j] = (size + 1) + t /\ c2[j] = <<>> /\ Len(c2[j]) = 0
      BY <1>5, <1>7, <2>2, <2>a, <3>1
    <3>3. off2[j - 1] = size + t
      <4>1. CASE j - 1 = n
        <5>1. j - 1 <= n /\ t = 1
          BY <1>n, <3>1, <4>1
        <5>2. off2[j - 1] = size + 1
          BY <1>2, <1>7, <2>a, <4>1, <5>1
        <5> QED
          BY <5>1, <5>2
      <4>2. CASE j - 1 # n
        <5>1. ~(j - 1 <= n) /\ (size + 1) + ((j - 1) - n) = size + t
          BY <1>n, <2>2, <3>1, <4>2
        <5> QED
          BY <1>7, <2>a, <5>1
      <4> QED
        BY <4>1, <4>2
    <3>4. j # m => b2[size + t] = Space
      <4>1. j # m => size + t \in size..size + k - 1
        BY <1>n, <3>1
      <4> QED
        BY <4>1 DEF Widened
    <3>5. ((size + 1) + t) - 1 = size + t /\ (size + 1) + t = (size + t) + 0 + 1
      BY <1>n, <3>1
    <3> HIDE DEF m
    <3>6. \A q \in 1..Len(c2[j]) : FALSE
      BY <3>2
    <3> QED
      BY <3>2, <3>3, <3>4, <3>5, <3>6
  <2> QED
    BY <2>1, <2>2
<1>10. m \in Nat \ {0} /\ size + k \in Nat /\ \A j \in 1..m - 1 : j \in 1..m /\ j # m
  BY <1>n
<1> HIDE DEF c2, off2, m
<1>11. RowOn(b2, size + k, c2, off2)
  <2>1. /\ \A j \in 1..m : off2[j] = off2[j - 1] + Len(c2[j]) + 1
        /\ \A j \in 1..m : \A q \in 1..Len(c2[j]) : b2[off2[j - 1] + q - 1] = c2[j][q]
    BY <1>9
  <2>2. \A j \in 1..m - 1 : b2[off2[j] - 1] = Space
    BY <1>9, <1>10
  <2> QED
    BY <1>6, <1>8, <1>10, <2>1, <2>2, MadeRow
<1> QED
  BY <1>2, <1>11 DEF c2, off2

(* A text of letters is a row of one cell.                                  *)
LEMMA SingleRow ==
    ASSUME NEW b, NEW w \in Seq(Letters), \A k \in 1..Len(w) : b[k - 1] = w[k]
    PROVE  RowOn(b, Len(w), <<w>>, [j \in 0..1 |-> IF j = 0 THEN 0 ELSE Len(w) + 1])
<1> DEFINE c2 == <<w>>
           off2 == [j \in 0..1 |-> IF j = 0 THEN 0 ELSE Len(w) + 1]
<1>1. Len(w) \in Nat
  OBVIOUS
<1>2. c2 \in [1..1 -> Seq(Letters)] /\ c2[1] = w
  OBVIOUS
<1>3. off2 \in [0..1 -> Nat] /\ off2[0] = 0 /\ off2[1] = Len(w) + 1
  BY <1>1
<1> HIDE DEF c2, off2
<1>4. ASSUME NEW j \in 1..1
      PROVE  /\ off2[j] = off2[j - 1] + Len(c2[j]) + 1
             /\ \A k \in 1..Len(c2[j]) : b[off2[j - 1] + k - 1] = c2[j][k]
  <2>1. j = 1 /\ j - 1 = 0
    OBVIOUS
  <2>2. \A k \in 1..Len(w) : 0 + k - 1 = k - 1
    BY <1>1
  <2> QED
    BY <1>1, <1>2, <1>3, <2>1, <2>2
<1>5. \A j \in 1..1 - 1 : b[off2[j] - 1] = Space
  OBVIOUS
<1>6. RowOn(b, Len(w), c2, off2)
  <2>1. /\ \A j \in 1..1 : off2[j] = off2[j - 1] + Len(c2[j]) + 1
        /\ \A j \in 1..1 : \A k \in 1..Len(c2[j]) : b[off2[j - 1] + k - 1] = c2[j][k]
    BY <1>4
  <2>2. 1 \in Nat \ {0}
    OBVIOUS
  <2> QED
    BY <1>1, <1>2, <1>3, <1>5, <2>1, <2>2, MadeRow
<1> QED
  BY <1>6 DEF c2, off2
-----------------------------------------------------------------------------
(*****************************************************************************)
(* What the primitives do to the row of the text                             *)
(*****************************************************************************)

(* What is known of cell i of the text: where it lies and what is in it.    *)
CellAt(c, off, i, x, l) ==
    /\ x = off[i - 1] /\ l = Len(c[i]) /\ off[i] = x + l + 1 /\ x + l <= len
    /\ c[i] \in Seq(Letters)
    /\ \A k \in 1..l : buf[x + k - 1] = c[i][k]

(* Every cell of the row has its place and its letters.                     *)
LEMMA CellIsAt ==
    ASSUME IInv, NEW c, NEW off, Row(c, off), NEW i \in 1..Len(c)
    PROVE  \E x \in Nat, l \in Nat : CellAt(c, off, i, x, l)
<1>1. len \in Nat /\ Laid(buf, len, c, off)
  BY TextFacts
<1>2. /\ off[i - 1] \in Nat /\ Len(c[i]) \in Nat /\ off[i] = off[i - 1] + Len(c[i]) + 1
      /\ off[i] - 1 \in 0..len /\ c[i] \in Seq(Letters)
  BY <1>1 DEF Laid
<1>3. \A k \in 1..Len(c[i]) : buf[off[i - 1] + k - 1] = c[i][k]
  BY DEF Row, RowOn
<1>4. PICK x \in Nat, l \in Nat : x = off[i - 1] /\ l = Len(c[i])
  BY <1>2
<1>5. off[i] = x + l + 1 /\ (x + l + 1) - 1 \in 0..len
  BY <1>2, <1>4
<1>6. x + l <= len
  BY <1>5, <1>1
<1>7. CellAt(c, off, i, x, l)
  BY <1>2, <1>3, <1>4, <1>5, <1>6 DEF CellAt
<1> QED
  BY <1>7

(* The length is an index of the array.                                     *)
Indices == len \in Nat /\ Capacity \in Nat /\ len < Capacity /\ Index = 0..Capacity - 1

(* It is, in every state of the invariant.                                  *)
LEMMA IndexIs == ASSUME IInv PROVE Indices
BY CapacityAssumption DEF IInv, Index, Indices

(* A letter typed at the end of a cell is the cell's last.                  *)
LEMMA InsertEdits ==
    ASSUME IInv, NEW c, NEW off, Row(c, off), NEW i \in 1..Len(c), NEW ch \in Letters,
           Insert(off[i] - 1, <<ch>>)
    PROVE  \E off2 : RowOn(buf', len', [c EXCEPT ![i] = Append(c[i], ch)], off2)
<1>1. PICK x \in Nat, l \in Nat : CellAt(c, off, i, x, l)
  BY CellIsAt
<1>2. Indices
  BY IndexIs
<1>3. x + l \in Nat /\ x + l <= len /\ off[i] - 1 = x + l
  BY <1>1 DEF CellAt
<1>4. /\ len' = len + 1 /\ len + 2 <= Capacity
      /\ buf' = [p \in Index |->
                    IF p < x + l THEN buf[p]
                    ELSE IF p < x + l + 1 THEN <<ch>>[p - (x + l) + 1]
                    ELSE IF p < len + 1 THEN buf[p - 1]
                    ELSE IF p = len + 1 THEN Nul
                    ELSE buf[p]]
  <2>1. Len(<<ch>>) = 1
    OBVIOUS
  <2> QED
    BY <1>2, <1>3, <2>1 DEF Insert, Indices
<1> DEFINE w == Append(c[i], ch)
<1>5. w \in Seq(Letters) /\ Len(w) = l + 1 /\ w[l + 1] = ch /\ \A k \in 1..l : w[k] = c[i][k]
  BY <1>1 DEF CellAt
<1> HIDE DEF w
<1>6. \A p \in 0..x - 1 : buf'[p] = buf[p]
  <2>1. \A p \in 0..x - 1 : p \in Index /\ p < x + l
    BY <1>2, <1>3 DEF Indices
  <2> QED
    BY <1>4, <2>1
<1>7. ASSUME NEW k \in 1..l + 1
      PROVE  buf'[x + k - 1] = w[k]
  <2>1. x + k - 1 \in Index
    BY <1>2, <1>3 DEF Indices
  <2>2. CASE k = l + 1
    <3>1. x + k - 1 = x + l /\ ~(x + l < x + l) /\ x + l < x + l + 1 /\ (x + l) - (x + l) + 1 = 1
      BY <2>2
    <3>2. buf'[x + l] = <<ch>>[1]
      BY <1>4, <2>1, <3>1
    <3> QED
      BY <1>5, <2>2, <3>1, <3>2
  <2>3. CASE k # l + 1
    <3>1. k \in 1..l /\ x + k - 1 < x + l
      BY <2>3
    <3>2. buf'[x + k - 1] = buf[x + k - 1]
      BY <1>4, <2>1, <3>1
    <3> QED
      BY <1>1, <1>5, <3>1, <3>2 DEF CellAt
  <2> QED
    BY <2>2, <2>3
<1>8. ASSUME NEW p \in x + l..len - 1
      PROVE  buf'[p + 1] = buf[p]
  <2>1. /\ p + 1 \in Index /\ ~(p + 1 < x + l) /\ ~(p + 1 < x + l + 1) /\ p + 1 < len + 1
        /\ (p + 1) - 1 = p
    BY <1>2, <1>3, <1>4 DEF Indices
  <2> QED
    BY <1>4, <2>1
<1>9. Replaced(buf, len, c, off, i, w, buf', len')
  <2>1. Len(w) - Len(c[i]) = 1 /\ off[i - 1] = x
    BY <1>1, <1>5 DEF CellAt
  <2>2. len' = len + (Len(w) - Len(c[i]))
    BY <1>4, <2>1
  <2> QED
    BY <1>3, <1>5, <1>6, <1>7, <1>8, <2>1, <2>2 DEF Replaced
<1>10. len \in Nat /\ len' \in Nat /\ RowOn(buf, len, c, off)
  BY <1>2, <1>4 DEF Indices, Row
<1>11. RowOn(buf', len', [c EXCEPT ![i] = w], EditedOffsets(off, Len(c), i, Len(w) - Len(c[i])))
  BY <1>5, <1>9, <1>10, EditedRow
<1> QED
  BY <1>11 DEF w

(* Erasing the end of a cell from its letter m + 1 on leaves the first m.   *)
LEMMA EraseEdits ==
    ASSUME IInv, NEW c, NEW off, Row(c, off), NEW i \in 1..Len(c),
           NEW m \in 0..Len(c[i]), EraseAt(off[i - 1] + m, Len(c[i]) - m)
    PROVE  \E off2 : RowOn(buf', len', [c EXCEPT ![i] = SubSeq(c[i], 1, m)], off2)
<1>1. PICK x \in Nat, l \in Nat : CellAt(c, off, i, x, l)
  BY CellIsAt
<1>2. Indices
  BY IndexIs
<1>3. x + l \in Nat /\ x + l <= len /\ off[i] - 1 = x + l /\ m \in Nat /\ m <= l
  BY <1>1, SMTT(30) DEF CellAt
<1>4. /\ len' = len - (l - m)
      /\ buf' = [p \in Index |->
                    IF p < x + m THEN buf[p]
                    ELSE IF p + (l - m) < len THEN buf[p + (l - m)]
                    ELSE IF p < len THEN Nul
                    ELSE buf[p]]
  BY <1>1 DEF EraseAt, CellAt
<1> DEFINE w == SubSeq(c[i], 1, m)
<1>5. w \in Seq(Letters) /\ Len(w) = m /\ \A k \in 1..m : w[k] = c[i][k]
  BY <1>1, <1>3, SubSeqProperties, SMTT(30) DEF CellAt
<1> HIDE DEF w
<1>6. \A p \in 0..x - 1 : buf'[p] = buf[p]
  <2>1. \A p \in 0..x - 1 : p \in Index /\ p < x + m
    BY <1>2, <1>3 DEF Indices
  <2> QED
    BY <1>4, <2>1
<1>7. ASSUME NEW k \in 1..m
      PROVE  buf'[x + k - 1] = w[k]
  <2>1. x + k - 1 \in Index /\ x + k - 1 < x + m /\ k \in 1..l
    BY <1>2, <1>3 DEF Indices
  <2> QED
    BY <1>1, <1>4, <1>5, <2>1 DEF CellAt
<1>8. ASSUME NEW p \in x + l..len - 1
      PROVE  buf'[p + (m - l)] = buf[p]
  <2>1. /\ p + (m - l) \in Index /\ ~(p + (m - l) < x + m) /\ (p + (m - l)) + (l - m) = p /\ p < len
    BY <1>2, <1>3 DEF Indices
  <2> QED
    BY <1>4, <2>1
<1>9. Replaced(buf, len, c, off, i, w, buf', len')
  <2>1. Len(w) - Len(c[i]) = m - l /\ off[i - 1] = x
    BY <1>1, <1>5 DEF CellAt
  <2>2. len' = len + (m - l)
    BY <1>2, <1>3, <1>4 DEF Indices
  <2> QED
    BY <1>3, <1>5, <1>6, <1>7, <1>8, <2>1, <2>2 DEF Replaced
<1>10. len \in Nat /\ len' \in Nat /\ RowOn(buf, len, c, off)
  BY <1>2, <1>3, <1>4 DEF Indices, Row
<1>11. RowOn(buf', len', [c EXCEPT ![i] = w], EditedOffsets(off, Len(c), i, Len(w) - Len(c[i])))
  BY <1>5, <1>9, <1>10, EditedRow
<1> QED
  BY <1>11 DEF w

(* The word that setSlot() puts in a cell takes the old one's place.        *)
LEMMA SetSlotEdits ==
    ASSUME IInv, NEW c, NEW off, Row(c, off), NEW i \in 1..Len(c), NEW w \in Seq(Letters),
           (len - Len(c[i])) + Len(w) + 1 <= Capacity,
           SetSlot(SpanOf(off, i), w)
    PROVE  len' = (len - Len(c[i])) + Len(w)
           /\ \E off2 : RowOn(buf', len', [c EXCEPT ![i] = w], off2)
<1>1. PICK x \in Nat, l \in Nat : CellAt(c, off, i, x, l)
  BY CellIsAt
<1>2. Indices
  BY IndexIs
<1>3. x + l \in Nat /\ x + l <= len /\ off[i] - 1 = x + l
  BY <1>1 DEF CellAt
<1>4. PICK v \in Nat : v = Len(w)
  OBVIOUS
<1>5. SpanOf(off, i)[1] = x /\ SlotLength(SpanOf(off, i)) = l
  <2>1. SpanOf(off, i) = <<x, x + l>>
    BY <1>1, <1>3 DEF SpanOf, CellAt
  <2> QED
    BY <2>1 DEF SlotLength
<1>a. (len - l) + v + 1 <= Capacity
  BY <1>1, <1>4 DEF CellAt
<1>6. /\ len' = (len - l) + v
      /\ buf' = [p \in Index |->
                    IF p < x THEN buf[p]
                    ELSE IF p < x + v THEN w[p - x + 1]
                    ELSE IF p < (len - l) + v THEN buf[p - v + l]
                    ELSE IF p = (len - l) + v \/ p < len THEN Nul
                    ELSE buf[p]]
  <2>1. ~((len - l) + v + 1 > Capacity)
    BY <1>2, <1>3, <1>a DEF Indices
  <2> QED
    BY <1>4, <1>5, <2>1 DEF SetSlot
<1>7. \A p \in 0..x - 1 : buf'[p] = buf[p]
  <2>1. \A p \in 0..x - 1 : p \in Index /\ p < x
    BY <1>2, <1>3 DEF Indices
  <2> QED
    BY <1>6, <2>1
<1>8. ASSUME NEW k \in 1..v
      PROVE  buf'[x + k - 1] = w[k]
  <2>1. /\ x + k - 1 \in Index /\ ~(x + k - 1 < x) /\ x + k - 1 < x + v
        /\ (x + k - 1) - x + 1 = k
    BY <1>2, <1>3, <1>a DEF Indices
  <2> QED
    BY <1>6, <2>1
<1>9. ASSUME NEW p \in x + l..len - 1
      PROVE  buf'[p + (v - l)] = buf[p]
  <2>1. /\ p + (v - l) \in Index /\ ~(p + (v - l) < x) /\ ~(p + (v - l) < x + v)
        /\ p + (v - l) < (len - l) + v /\ (p + (v - l)) - v + l = p
    BY <1>2, <1>3, <1>a DEF Indices
  <2> QED
    BY <1>6, <2>1
<1>10. Replaced(buf, len, c, off, i, w, buf', len')
  <2>1. Len(w) - Len(c[i]) = v - l /\ off[i - 1] = x
    BY <1>1, <1>4 DEF CellAt
  <2>2. len' = len + (v - l)
    BY <1>2, <1>3, <1>6 DEF Indices
  <2> QED
    BY <1>3, <1>4, <1>7, <1>8, <1>9, <2>1, <2>2 DEF Replaced
<1>11. len \in Nat /\ len' \in Nat /\ RowOn(buf, len, c, off)
  BY <1>2, <1>3, <1>6 DEF Indices, Row
<1>12. RowOn(buf', len', [c EXCEPT ![i] = w], EditedOffsets(off, Len(c), i, Len(w) - Len(c[i])))
  BY <1>10, <1>11, EditedRow
<1>13. len' = (len - Len(c[i])) + Len(w)
  BY <1>1, <1>4, <1>6 DEF CellAt
<1> QED
  BY <1>12, <1>13

(* A cut leaves the cells up to the one it is made in.                      *)
LEMMA CutCuts ==
    ASSUME IInv, NEW c, NEW off, Row(c, off), NEW i \in 1..Len(c), NEW l \in 0..Len(c[i]),
           NEW n, n = off[i - 1] + l, Cut(n)
    PROVE  \E off2 : RowOn(buf', len', CutCells(c, i, l), off2)
<1>1. PICK x \in Nat, k \in Nat : CellAt(c, off, i, x, k)
  BY CellIsAt
<1>2. Indices /\ RowOn(buf, len, c, off)
  BY IndexIs DEF Row
<1>3. n = x + l /\ l \in Nat /\ l <= k /\ off[i - 1] = x /\ off[i] - 1 = x + k /\ x + k <= len
  BY <1>1 DEF CellAt
<1>4. /\ n \in Nat /\ n <= len /\ off[i - 1] <= n /\ n <= off[i] - 1 /\ n - off[i - 1] = l
      /\ len \in Nat
  <2>1. \A e, f, g, h \in Nat : g = e + h /\ h <= f => g \in Nat /\ e <= g /\ g <= e + f /\ g - e = h
    OBVIOUS
  <2>2. n \in Nat /\ x <= n /\ n <= x + k /\ n - x = l
    BY <1>3, <2>1
  <2>3. len \in Nat /\ n <= len
    BY <1>2, <1>3, <2>2 DEF Indices
  <2> QED
    BY <1>3, <2>2, <2>3
<1>5. len' = n /\ \A p \in 0..n - 1 : buf'[p] = buf[p]
  <2>1. \A p \in 0..n - 1 : p \in Index /\ p \notin n..len
    BY <1>2, <1>4 DEF Indices
  <2> QED
    BY <2>1 DEF Cut
<1>6. RowOn(buf', n, CutCells(c, i, n - off[i - 1]), CutOffsets(off, i, n))
  BY <1>2, <1>4, <1>5, CutRow
<1> QED
  BY <1>4, <1>5, <1>6

(* Separators put behind the text open empty cells.                         *)
LEMMA SpacesWiden ==
    ASSUME IInv, NEW c, NEW off, Row(c, off), NEW k \in Nat, NEW s, Len(s) = k,
           \A j \in 1..k : s[j] = Space, Insert(len, s)
    PROVE  len' = len + k /\ len' + 1 <= Capacity
           /\ \E off2 : RowOn(buf', len', Grid!Resized(c, Len(c) + k), off2)
<1>1. Indices /\ RowOn(buf, len, c, off)
  BY IndexIs DEF Row
<1>2. /\ len' = len + k /\ len + k + 1 <= Capacity
      /\ buf' = [p \in Index |->
                    IF p < len THEN buf[p]
                    ELSE IF p < len + k THEN s[p - len + 1]
                    ELSE IF p < len + k THEN buf[p - k]
                    ELSE IF p = len + k THEN Nul
                    ELSE buf[p]]
  BY DEF Insert
<1>3. \A p \in 0..len - 1 : buf'[p] = buf[p]
  <2>1. \A p \in 0..len - 1 : p \in Index /\ p < len
    BY <1>1 DEF Indices
  <2> QED
    BY <1>2, <2>1
<1>4. ASSUME NEW p \in len..len + k - 1
      PROVE  buf'[p] = Space
  <2>1. p \in Index /\ ~(p < len) /\ p < len + k /\ p - len + 1 \in 1..k
    BY <1>1, <1>2 DEF Indices
  <2> QED
    BY <1>2, <2>1
<1>5. Widened(buf, len, k, buf')
  BY <1>3, <1>4 DEF Widened
<1>6. len \in Nat
  BY <1>1 DEF Indices
<1>7. RowOn(buf', len + k, Grid!Resized(c, Len(c) + k), WidenedOffsets(off, Len(c), k))
  BY <1>1, <1>5, <1>6, WidenedRow
<1> QED
  BY <1>2, <1>7
-----------------------------------------------------------------------------
(*****************************************************************************)
(* Every operation but normaliseWhitespace() is one of the grid's            *)
(*****************************************************************************)

(* What the grid sees, before a step and after it.                          *)
LEMMA CellsOfRow == \A c, off : IInv /\ Row(c, off) => Cells = c
BY CellsAre

(* The same of the state that a step leads to.                              *)
LEMMA CellsAfter == (\A c, off : IInv /\ Row(c, off) => Cells = c)'
BY CellsOfRow, PTL

(* The step leads to the row c.                                             *)
LeadsTo(c) == Cells' = c /\ \E off : RowOn(buf', len', c, off)

(* When the new text is the row c, the grid sees c.                         *)
LEMMA Arrives ==
    ASSUME IInv', NEW c, \E off : RowOn(buf', len', c, off)
    PROVE  LeadsTo(c)
BY CellsAfter DEF Row, LeadsTo

(* The step is one of the grid's, or none, and leads to a row again.        *)
Simulated == (Grid!Next \/ Cells' = Cells) /\ \E c : LeadsTo(c)

(* What is known before a step.                                             *)
Before(c, off, n) ==
    /\ IInv /\ IInv' /\ Row(c, off) /\ Cells = c
    /\ n \in Nat \ {0} /\ n = Len(c) /\ off[n] - 1 = len /\ len \in Nat /\ Capacity \in Nat
    /\ n \in 1..Len(c) /\ DOMAIN c = 1..n
    /\ c \in Seq(Seq(Letters)) /\ Offsets(c, off) /\ Grid!TextLength(c) = len

(* All of it is known in a state of the invariant whose text is a row.      *)
LEMMA Known ==
    ASSUME IInv, IInv', NEW c, NEW off, Row(c, off)
    PROVE  \E n : Before(c, off, n)
<1>1. Laid(buf, len, c, off) /\ Offsets(c, off) /\ Cells = c
  BY TextFacts, CellsAre
<1>2. Grid!TextLength(c) = off[Len(c)] - 1
  BY <1>1, TextLengthIs
<1>3. PICK n : n = Len(c) /\ n \in Nat \ {0} /\ off[n] = len + 1 /\ DOMAIN c = 1..n
  BY <1>1 DEF Laid
<1>4. len \in Nat /\ Capacity \in Nat
  BY IndexIs DEF Indices
<1>5. off[n] - 1 = len /\ n \in 1..n
  BY <1>3, <1>4
<1>6. c \in Seq(Seq(Letters))
  BY <1>1 DEF Offsets
<1>7. Before(c, off, n)
  BY <1>1, <1>2, <1>3, <1>4, <1>5, <1>6 DEF Before
<1> QED
  BY <1>7

(* append(char)                                                             *)
LEMMA TypeStep ==
    ASSUME NEW c, NEW off, NEW n, Before(c, off, n), NEW ch \in Letters \cup {Space}, Type(ch)
    PROVE  Simulated
<1>1. Insert(len, <<ch>>) /\ len + 1 + 1 <= Capacity
  BY DEF Type, Insert
<1>2. Grid!Room(1)
  <2>1. len + 1 <= Capacity - 1
    BY <1>1 DEF Before
  <2> QED
    BY <2>1 DEF Grid!Room, Before
<1>3. CASE ch \in Letters
  <2>1. \E off2 : RowOn(buf', len', [c EXCEPT ![n] = Append(c[n], ch)], off2)
    <3>1. Insert(off[n] - 1, <<ch>>)
      BY <1>1 DEF Before
    <3> QED
      BY <1>3, <3>1, InsertEdits DEF Before
  <2>2. LeadsTo([c EXCEPT ![n] = Append(c[n], ch)])
    BY <2>1, Arrives DEF Before
  <2>3. Grid!Type
    BY <1>2, <1>3, <2>2 DEF LeadsTo, Before, Grid!Type, Grid!Set, Grid!WithLetter
  <2> QED
    BY <2>2, <2>3 DEF Simulated, Grid!Next
<1>4. CASE ch = Space
  <2>1. \E off2 : RowOn(buf', len', Grid!Resized(c, n + 1), off2)
    <3>1. Len(<<ch>>) = 1 /\ 1 \in Nat /\ \A j \in 1..1 : <<ch>>[j] = Space
      BY <1>4
    <3> QED
      BY <1>1, <3>1, SpacesWiden DEF Before
  <2>2. LeadsTo(Grid!Resized(c, n + 1))
    BY <2>1, Arrives DEF Before
  <2>3. Grid!Resized(c, n + 1) = Append(c, <<>>)
    <3>1. n \in Nat /\ n = Len(c) /\ c \in Seq(Seq(Letters))
      BY DEF Before
    <3>2. <<>> \in Seq(Letters)
      OBVIOUS
    <3>3. /\ Append(c, <<>>) \in Seq(Seq(Letters)) /\ Len(Append(c, <<>>)) = n + 1
          /\ \A j \in 1..n : Append(c, <<>>)[j] = c[j]
          /\ Append(c, <<>>)[n + 1] = <<>>
      BY <3>1, <3>2, AppendProperties
    <3>4. \A j \in 1..n + 1 : Append(c, <<>>)[j] = IF j <= n THEN c[j] ELSE <<>>
      BY <3>1, <3>3
    <3>5. Append(c, <<>>) = [j \in 1..n + 1 |-> Append(c, <<>>)[j]]
      <4>1. \A s \in Seq(Seq(Letters)) : s = [j \in 1..Len(s) |-> s[j]]
        OBVIOUS
      <4> QED
        BY <3>3, <4>1, Zenon
    <3>6. Append(c, <<>>) = [j \in 1..n + 1 |-> IF j <= n THEN c[j] ELSE <<>>]
      BY <3>4, <3>5
    <3> QED
      BY <3>1, <3>6 DEF Grid!Resized
  <2>4. Grid!Type
    BY <1>2, <2>2, <2>3 DEF LeadsTo, Before, Grid!Type, Grid!Set
  <2> QED
    BY <2>2, <2>4 DEF Simulated, Grid!Next
<1> QED
  BY <1>3, <1>4

(* backspace()                                                              *)
LEMMA BackspaceStep ==
    ASSUME NEW c, NEW off, NEW n, Before(c, off, n), Backspace
    PROVE  Simulated
<1>1. len > 0 /\ Cut(len - 1)
  BY DEF Backspace
<1>2. PICK x \in Nat, l \in Nat : CellAt(c, off, n, x, l) /\ x + l = len
  <2>1. PICK x \in Nat, l \in Nat : CellAt(c, off, n, x, l)
    BY CellIsAt DEF Before
  <2>2. (x + l + 1) - 1 = len
    BY <2>1 DEF CellAt, Before
  <2> QED
    BY <2>1, <2>2
<1>3. CASE l > 0
  <2>1. l - 1 \in 0..l /\ len - 1 = x + (l - 1)
    BY <1>2, <1>3
  <2>2. \E off2 : RowOn(buf', len', CutCells(c, n, l - 1), off2)
    BY <1>1, <1>2, <2>1, CutCuts DEF Before, CellAt
  <2>3. LeadsTo(CutCells(c, n, l - 1))
    BY <2>2, Arrives DEF Before
  <2>4. CutCells(c, n, l - 1) = Grid!WithoutLetter(c, n) /\ ~Grid!IsEmptyCell(c[n])
    <3>1. ~Grid!IsEmptyCell(c[n]) /\ Len(c[n]) = l
      BY <1>2, <1>3 DEF Grid!IsEmptyCell, CellAt
    <3>2. c \in [1..n -> Seq(Letters)]
      BY DEF Before
    <3>3. CutCells(c, n, l - 1) = [c EXCEPT ![n] = SubSeq(c[n], 1, l - 1)]
      BY <3>2 DEF CutCells
    <3> QED
      BY <3>1, <3>3 DEF Grid!WithoutLetter
  <2>5. Grid!Backspace
    BY <2>3, <2>4 DEF LeadsTo, Before, Grid!Backspace, Grid!Set
  <2> QED
    BY <2>3, <2>5 DEF Simulated, Grid!Next
<1>4. CASE l = 0
  <2>1. n # 1
    <3>1. SUFFICES ASSUME n = 1 PROVE FALSE
      OBVIOUS
    <3>2. x = off[0] /\ off[0] = 0
      BY <1>2, <3>1 DEF CellAt, Before, Offsets
    <3> QED
      BY <1>1, <1>2, <1>4, <3>2
  <2>2. PICK m \in Nat : m = n - 1 /\ m \in 1..Len(c) /\ m >= 1
    <3>1. n \in Nat /\ n >= 2 /\ n = Len(c)
      BY <2>1 DEF Before
    <3>2. n - 1 \in Nat /\ n - 1 \in 1..n /\ n - 1 >= 1
      BY <3>1
    <3> QED
      BY <3>1, <3>2
  <2>3. PICK y \in Nat, k \in Nat : CellAt(c, off, m, y, k)
    BY <2>2, CellIsAt DEF Before
  <2>4. len - 1 = off[m - 1] + k /\ k \in 0..Len(c[m])
    <3>1. x = y + k + 1
      BY <1>2, <2>2, <2>3 DEF CellAt
    <3>2. len - 1 = y + k /\ k \in 0..k
      BY <1>2, <1>4, <3>1
    <3> QED
      BY <2>3, <3>2 DEF CellAt
  <2>5. \E off2 : RowOn(buf', len', CutCells(c, m, k), off2)
    BY <1>1, <2>2, <2>4, CutCuts DEF Before
  <2>6. LeadsTo(CutCells(c, m, k))
    BY <2>5, Arrives DEF Before
  <2>7. CutCells(c, m, k) = SubSeq(c, 1, m)
    <3>1. c \in Seq(Seq(Letters)) /\ m \in Nat /\ m <= Len(c)
      BY <2>2 DEF Before
    <3>2. SubSeq(c, 1, m) = [j \in 1..m |-> c[j]]
      BY <3>1
    <3>3. SubSeq(c[m], 1, k) = c[m]
      BY <2>3 DEF CellAt
    <3> QED
      BY <3>2, <3>3 DEF CutCells
  <2>8. Grid!Backspace
    <3>1. Grid!IsEmptyCell(c[n]) /\ n > 1 /\ m = n - 1
      <4>1. n \in Nat /\ m \in Nat /\ m >= 1 /\ m = n - 1
        BY <2>2 DEF Before
      <4>2. n > 1
        BY <4>1
      <4> QED
        BY <1>2, <1>4, <4>1, <4>2 DEF Grid!IsEmptyCell, CellAt
    <3> QED
      BY <2>6, <2>7, <3>1 DEF LeadsTo, Before, Grid!Backspace, Grid!Set
  <2> QED
    BY <2>6, <2>8 DEF Simulated, Grid!Next
<1> QED
  BY <1>3, <1>4

(* A text of the letters of w is the row of w alone.                        *)
LEMMA LeadsToOne ==
    ASSUME IInv', NEW w \in Seq(Letters), len' = Len(w),
           \A k \in 1..Len(w) : buf'[k - 1] = w[k]
    PROVE  LeadsTo(<<w>>)
<1>1. \E off : RowOn(buf', len', <<w>>, off)
  BY SingleRow
<1> QED
  BY <1>1, Arrives

(* secureWipe() of the whole array is the grid's Clear.                     *)
LEMMA ClearStep ==
    ASSUME NEW c, NEW off, NEW n, Before(c, off, n), Clear
    PROVE  Simulated /\ Grid!Clear
<1>1. LeadsTo(Grid!Blank)
  <2>1. <<>> \in Seq(Letters) /\ Len(<<>>) = 0 /\ \A k \in 1..0 : FALSE
    OBVIOUS
  <2>2. len' = 0 /\ IInv'
    BY DEF Clear, Before
  <2>3. LeadsTo(<< <<>> >>)
    BY <2>1, <2>2, LeadsToOne
  <2> QED
    BY <2>3 DEF Grid!Blank
<1>2. Grid!Clear
  BY <1>1 DEF LeadsTo, Grid!Clear, Grid!Set
<1> QED
  BY <1>1, <1>2 DEF Simulated, Grid!Next

(* assign(), whether or not the text fits.                                  *)
LEMMA AssignStep ==
    ASSUME NEW c, NEW off, NEW n, Before(c, off, n), NEW w \in Words, Assign(w)
    PROVE  Simulated
<1>1. w \in Seq(Letters) /\ Len(w) \in Nat /\ Capacity \in Nat
  BY WordsAssumption DEF Before
<1>2. CASE Len(w) + 1 <= Capacity
  <2>1. /\ len' = Len(w)
        /\ buf' = [i \in Index |-> IF i < Len(w) THEN w[i + 1] ELSE Nul]
    BY <1>2 DEF Assign
  <2>2. ASSUME NEW k \in 1..Len(w)
        PROVE  buf'[k - 1] = w[k]
    <3>1. k - 1 \in Index /\ k - 1 < Len(w) /\ (k - 1) + 1 = k
      BY <1>1, <1>2 DEF Index
    <3> QED
      BY <2>1, <3>1
  <2>3. LeadsTo(<<w>>)
    BY <1>1, <2>1, <2>2, LeadsToOne DEF Before
  <2>4. Len(w) <= Capacity - 1
    BY <1>1, <1>2
  <2>5. Grid!Assign
    BY <2>3, <2>4 DEF LeadsTo, Grid!Assign, Grid!Set
  <2> QED
    BY <2>3, <2>5 DEF Simulated, Grid!Next
<1>3. CASE ~(Len(w) + 1 <= Capacity)
  BY <1>3, ClearStep DEF Assign
<1> QED
  BY <1>2, <1>3

(* setSlotCount()                                                           *)
LEMMA SetSlotCountStep ==
    ASSUME NEW c, NEW off, NEW n, Before(c, off, n), NEW m \in 1..MaxCells, SetSlotCount(m)
    PROVE  Simulated
<1>1. SlotCount = n /\ n \in Nat /\ m \in Nat \ {0} /\ n = Len(c)
  BY SlotCountIs, CellsAssumption DEF Before
<1>2. CASE m > n /\ Insert(len, [i \in 1..(m - n) |-> Space])
  <2>1. PICK k \in Nat : k = m - n /\ m = n + k
    BY <1>1, <1>2
  <2> DEFINE s == [i \in 1..k |-> Space]
  <2>2. Len(s) = k /\ \A j \in 1..k : s[j] = Space
    BY <2>1
  <2>3. Insert(len, s)
    BY <1>2, <2>1
  <2> HIDE DEF s
  <2>4. /\ len' = len + k /\ len' + 1 <= Capacity
        /\ \E off2 : RowOn(buf', len', Grid!Resized(c, m), off2)
    BY <1>1, <2>1, <2>2, <2>3, SpacesWiden DEF Before
  <2>5. LeadsTo(Grid!Resized(c, m))
    BY <2>4, Arrives DEF Before
  <2>6. Grid!Room(m - n)
    <3>1. len + (m - n) <= Capacity - 1
      BY <1>1, <2>1, <2>4 DEF Before
    <3> QED
      BY <3>1 DEF Grid!Room, Before
  <2>7. Grid!SetSlotCount
    BY <1>1, <2>5, <2>6 DEF LeadsTo, Before, Grid!SetSlotCount, Grid!Set
  <2> QED
    BY <2>5, <2>7 DEF Simulated, Grid!Next
<1>3. ASSUME m < n, NEW span \in Spans, Place(span) = m - 1, Cut(span[2])
      PROVE  Simulated
  <2>1. m \in 1..Len(c)
    BY <1>1, <1>3
  <2>2. span = SpanOf(off, m)
    BY <1>3, <2>1, PlacedAt DEF Before
  <2>3. PICK x \in Nat, l \in Nat : CellAt(c, off, m, x, l)
    BY <2>1, CellIsAt DEF Before
  <2>4. l \in 0..Len(c[m]) /\ span[2] = off[m - 1] + l
    BY <2>2, <2>3 DEF SpanOf, CellAt
  <2>5. \E off2 : RowOn(buf', len', CutCells(c, m, l), off2)
    BY <1>3, <2>1, <2>4, CutCuts DEF Before
  <2>6. LeadsTo(CutCells(c, m, l))
    BY <2>5, Arrives DEF Before
  <2>7. CutCells(c, m, l) = Grid!Resized(c, m)
    <3>1. SubSeq(c[m], 1, l) = c[m]
      BY <2>3 DEF CellAt
    <3>2. \A j \in 1..m : j <= Len(c)
      BY <1>1, <1>3
    <3> QED
      BY <3>1, <3>2 DEF CutCells, Grid!Resized
  <2>8. ~(m > Len(c))
    BY <1>1, <1>3
  <2>9. Grid!SetSlotCount
    BY <2>6, <2>7, <2>8 DEF LeadsTo, Before, Grid!SetSlotCount, Grid!Set
  <2> QED
    BY <2>6, <2>9 DEF Simulated, Grid!Next
<1> QED
  BY <1>1, <1>2, <1>3 DEF SetSlotCount

(* appendToSlot(), backspaceInSlot(), clearSlot() and setSlot()             *)
LEMMA EditSlotStep ==
    ASSUME NEW c, NEW off, NEW n, Before(c, off, n), NEW span \in Spans,
           \/ \E ch \in Letters : AppendToSlot(span, ch)
           \/ BackspaceInSlot(span)
           \/ ClearSlot(span)
           \/ \E w \in Words : SetSlot(span, w)
    PROVE  Simulated
<1>1. PICK i \in 1..Len(c) : span = SpanOf(off, i)
  BY SpansAre DEF Before
<1>2. PICK x \in Nat, l \in Nat : CellAt(c, off, i, x, l)
  BY CellIsAt DEF Before
<1>3. /\ span[1] = x /\ span[2] = x + l /\ SlotLength(span) = l /\ span[2] = off[i] - 1
      /\ Len(c[i]) = l /\ off[i - 1] = x /\ c[i] \in Seq(Letters) /\ x + l <= len
  BY <1>1, <1>2 DEF SpanOf, SlotLength, CellAt
<1>4. i \in DOMAIN c
  BY DEF Before
<1> DEFINE With(w) == [c EXCEPT ![i] = w]
           Allowed(w) ==
              \/ \E ch \in Letters : Grid!Room(1) /\ With(w) = Grid!WithLetter(c, i, ch)
              \/ With(w) = Grid!WithoutLetter(c, i)
              \/ w = <<>>
              \/ w \in Words /\ Grid!TextLength(With(w)) <= Capacity - 1
<1>5. ASSUME NEW w, \E off2 : RowOn(buf', len', With(w), off2), Allowed(w)
      PROVE  Simulated
  <2>1. LeadsTo(With(w))
    BY <1>5, Arrives DEF Before
  <2>2. Cells = c /\ Cells' = With(w)
    BY <2>1 DEF Before, LeadsTo
  <2>3. Grid!EditSlot
    <3>1. CASE \E ch \in Letters : Grid!Room(1) /\ With(w) = Grid!WithLetter(c, i, ch)
      BY <1>4, <2>2, <3>1 DEF Grid!EditSlot, Grid!Set
    <3>2. CASE With(w) = Grid!WithoutLetter(c, i)
      BY <1>4, <2>2, <3>2 DEF Grid!EditSlot, Grid!Set
    <3>3. CASE w = <<>>
      BY <1>4, <2>2, <3>3 DEF Grid!EditSlot, Grid!Set, Grid!WithWord
    <3>4. CASE w \in Words /\ Grid!TextLength(With(w)) <= Capacity - 1
      BY <1>4, <2>2, <3>4 DEF Grid!EditSlot, Grid!Set, Grid!WithWord
    <3> QED
      BY <1>5, <3>1, <3>2, <3>3, <3>4
  <2> QED
    BY <2>1, <2>3 DEF Simulated, Grid!Next
<1>6. ASSUME NEW ch \in Letters, AppendToSlot(span, ch)
      PROVE  Simulated
  <2>1. Insert(off[i] - 1, <<ch>>) /\ len + 1 + 1 <= Capacity
    BY <1>3, <1>6 DEF AppendToSlot, Insert
  <2>2. \E off2 : RowOn(buf', len', With(Append(c[i], ch)), off2)
    BY <2>1, InsertEdits DEF Before
  <2>3. Grid!Room(1)
    <3>1. len + 1 <= Capacity - 1
      BY <2>1 DEF Before
    <3> QED
      BY <3>1 DEF Grid!Room, Before
  <2>4. With(Append(c[i], ch)) = Grid!WithLetter(c, i, ch)
    BY DEF Grid!WithLetter
  <2>5. Allowed(Append(c[i], ch))
    BY <2>3, <2>4
  <2> HIDE DEF With, Allowed
  <2> QED
    BY <1>5, <2>2, <2>5
<1>7. CASE BackspaceInSlot(span)
  <2>1. l > 0 /\ EraseAt(x + l - 1, 1)
    BY <1>3, <1>7 DEF BackspaceInSlot
  <2>2. PICK m \in Nat : m = l - 1 /\ m \in 0..l /\ l - m = 1 /\ x + m = x + l - 1
    BY <2>1
  <2>3. EraseAt(off[i - 1] + m, Len(c[i]) - m) /\ m \in 0..Len(c[i])
    BY <1>3, <2>1, <2>2
  <2>4. \E off2 : RowOn(buf', len', With(SubSeq(c[i], 1, m)), off2)
    BY <2>3, EraseEdits DEF Before
  <2>5. With(SubSeq(c[i], 1, m)) = Grid!WithoutLetter(c, i)
    <3>1. Len(c[i]) # 0 /\ Len(c[i]) - 1 = m
      BY <1>3, <2>1, <2>2
    <3> QED
      BY <3>1 DEF Grid!WithoutLetter, Grid!IsEmptyCell
  <2>6. Allowed(SubSeq(c[i], 1, m))
    BY <2>5
  <2> HIDE DEF With, Allowed
  <2> QED
    BY <1>5, <2>4, <2>6
<1>8. ASSUME EraseAt(x, l)
      PROVE  Simulated
  <2>1. x + 0 = x /\ l - 0 = l /\ 0 \in 0..l
    OBVIOUS
  <2>2. EraseAt(off[i - 1] + 0, Len(c[i]) - 0) /\ 0 \in 0..Len(c[i])
    BY <1>3, <1>8, <2>1
  <2>3. \E off2 : RowOn(buf', len', With(SubSeq(c[i], 1, 0)), off2)
    BY <2>2, EraseEdits DEF Before
  <2>4. SubSeq(c[i], 1, 0) = <<>>
    BY <1>3
  <2>5. Allowed(<<>>)
    OBVIOUS
  <2> HIDE DEF With, Allowed
  <2> QED
    BY <1>5, <2>3, <2>4, <2>5
<1>9. CASE ClearSlot(span)
  BY <1>3, <1>8, <1>9 DEF ClearSlot
<1>10. ASSUME NEW w \in Words, SetSlot(span, w)
       PROVE  Simulated
  <2>1. w \in Seq(Letters) /\ Len(w) \in Nat /\ len \in Nat /\ Capacity \in Nat
    BY WordsAssumption DEF Before
  <2>2. CASE (len - l) + Len(w) + 1 > Capacity
    BY <1>3, <1>8, <1>10, <2>2 DEF SetSlot
  <2>3. CASE (len - l) + Len(w) + 1 <= Capacity
    <3>1. len' = (len - l) + Len(w) /\ \E off2 : RowOn(buf', len', With(w), off2)
      BY <1>1, <1>3, <1>10, <2>1, <2>3, SetSlotEdits DEF Before
    <3>2. PICK off2 : RowOn(buf', len', With(w), off2)
      BY <3>1
    <3> HIDE DEF With
    <3>3. Grid!TextLength(With(w)) = (len' + 1) - 1
      BY <3>2, TextLengthIs DEF RowOn
    <3>4. (len' + 1) - 1 = (len - l) + Len(w) /\ (len - l) + Len(w) <= Capacity - 1
      <4>1. x + l \in Nat /\ x + l <= len
        BY <1>3
      <4>2. len - l \in Nat
        BY <2>1, <4>1
      <4> QED
        BY <2>1, <2>3, <3>1, <4>2
    <3>5. Allowed(w)
      BY <3>3, <3>4
    <3> HIDE DEF Allowed
    <3> QED
      BY <1>5, <3>1, <3>5
  <2>4. l \in Int /\ len - l \in Int
    BY <2>1
  <2> QED
    BY <2>1, <2>2, <2>3, <2>4
<1> QED
  BY <1>6, <1>7, <1>9, <1>10

(* backspaceWord()                                                          *)
LEMMA BackspaceWordStep ==
    ASSUME NEW c, NEW off, NEW n, Before(c, off, n), BackspaceWord
    PROVE  Simulated
<1>1. PICK rest \in 0..len, word \in 0..len :
          /\ rest > 0 => rest < word /\ buf[rest - 1] = Space
          /\ \A i \in rest..(word - 1) : buf[i] # Space
          /\ \A i \in word..(len - 1) : buf[i] = Space
          /\ Cut(rest)
  BY DEF BackspaceWord
<1>2. Laid(buf, len, c, off) /\ Offsets(c, off) /\ len \in Nat /\ n \in Nat /\ n = Len(c)
  BY TextFacts DEF Before
<1>n. rest \in Nat /\ word \in Nat /\ rest <= len /\ word <= len /\ len \in Nat
  BY <1>1, <1>2
<1>3. PICK i \in 1..n : off[i - 1] <= rest /\ rest < off[i]
  <2>1. rest < off[Len(c)]
    <3>1. off[Len(c)] = len + 1
      BY <1>2 DEF Laid
    <3> QED
      BY <1>n, <3>1
  <2> QED
    BY <1>2, <1>n, <2>1, InSomeCell
<1>4. PICK x \in Nat, l \in Nat : CellAt(c, off, i, x, l)
  BY <1>2, CellIsAt DEF Before
<1>5. off[i - 1] = x /\ off[i] = x + l + 1 /\ x + l <= len /\ Len(c[i]) = l /\ c[i] \in Seq(Letters)
  BY <1>4 DEF CellAt
<1>6. \A p \in x..x + l - 1 : buf[p] # Space
  <2>1. \A p \in off[i - 1]..off[i] - 2 : buf[p] # Space
    BY <1>2 DEF Laid
  <2>2. (x + l + 1) - 2 = x + l - 1
    OBVIOUS
  <2> QED
    BY <1>5, <2>1, <2>2
<1>7. rest = x
  <2>1. x <= rest /\ rest <= x + l
    <3>1. x <= rest /\ rest < x + l + 1
      BY <1>3, <1>5
    <3> QED
      BY <1>n, <3>1
  <2>2. SUFFICES ASSUME x < rest PROVE FALSE
    BY <1>n, <2>1
  <2>3. rest > 0 /\ rest - 1 \in x..x + l - 1
    BY <1>n, <2>1, <2>2
  <2> QED
    BY <1>1, <1>6, <2>3
<1>8. i # n => buf[x + l] = Space
  <2>1. i # n => buf[off[i] - 1] = Space
    BY <1>2 DEF Laid
  <2>2. off[i] - 1 = x + l
    BY <1>5
  <2> QED
    BY <2>1, <2>2
<1>9. i = n => x + l = len
  <2>1. i = n => off[i] = len + 1
    BY <1>2 DEF Laid
  <2> QED
    BY <1>5, <1>n, <2>1
<1>10. i # n => word <= x + l
  <2>1. SUFFICES ASSUME i # n, x + l < word PROVE FALSE
    BY <1>n
  <2>2. x + l \in x..(word - 1)
    BY <1>n, <2>1
  <2> QED
    BY <1>1, <1>7, <1>8, <2>1, <2>2
<1>11. ASSUME NEW j \in 1..n, i < j
       PROVE  Len(c[j]) = 0
  <2>1. PICK y \in Nat, k \in Nat : CellAt(c, off, j, y, k)
    BY <1>2, CellIsAt DEF Before
  <2>2. SUFFICES ASSUME k > 0 PROVE FALSE
    BY <2>1 DEF CellAt
  <2>3. y = off[j - 1] /\ y + k <= len /\ off[j] = y + k + 1
    BY <2>1 DEF CellAt
  <2>4. buf[y] # Space
    <3>1. \A p \in off[j - 1]..off[j] - 2 : buf[p] # Space
      BY <1>2 DEF Laid
    <3>2. y \in y..(y + k + 1) - 2
      BY <2>2
    <3> QED
      BY <2>3, <3>1, <3>2
  <2>5. x + l + 1 <= y
    <3>1. CASE i = j - 1
      <4>1. y = x + l + 1
        BY <1>5, <2>3, <3>1
      <4> QED
        BY <4>1
    <3>2. CASE i < j - 1
      <4>1. i \in 0..Len(c) /\ j - 1 \in 0..Len(c)
        BY <1>2
      <4>2. x + l + 1 < y
        BY <1>2, <1>5, <2>3, <3>2, <4>1, LaterIsFarther
      <4> QED
        BY <4>2
    <3>3. i = j - 1 \/ i < j - 1
      BY <1>2, <1>11
    <3> QED
      BY <3>1, <3>2, <3>3
  <2>6. i # n
    BY <1>2, <1>11
  <2>7. y \in word..(len - 1)
    <3>1. word <= x + l
      BY <1>10, <2>6
    <3> QED
      BY <1>n, <2>2, <2>3, <2>5, <3>1
  <2> QED
    BY <1>1, <2>4, <2>7
<1>12. LeadsTo(CutCells(c, i, 0))
  <2>1. i \in 1..Len(c) /\ 0 \in 0..Len(c[i]) /\ rest = off[i - 1] + 0
    BY <1>2, <1>5, <1>7
  <2>2. \E off2 : RowOn(buf', len', CutCells(c, i, 0), off2)
    BY <1>1, <2>1, CutCuts DEF Before
  <2> QED
    BY <2>2, Arrives DEF Before
<1>13. SubSeq(c[i], 1, 0) = <<>>
  BY <1>5
<1>f. Grid!Filled(c) = {j \in 1..n : Len(c[j]) # 0}
  BY DEF Grid!Filled, Grid!IsEmptyCell, Before
<1>14. Grid!BackspaceWord
  <2>1. CASE l # 0
    <3>1. i \in Grid!Filled(c) /\ \A j \in Grid!Filled(c) : j <= i
      <4>1. \A j \in 1..n : Len(c[j]) # 0 => j <= i
        BY <1>2, <1>11
      <4> QED
        BY <1>5, <1>f, <2>1, <4>1
    <3>2. CutCells(c, i, 0) = [Grid!Resized(c, i) EXCEPT ![i] = <<>>]
      <4>1. \A j \in 1..i : j <= Len(c)
        BY <1>2
      <4> QED
        BY <1>13, <4>1 DEF CutCells, Grid!Resized
    <3>3. Cells = c /\ Cells' = [Grid!Resized(c, i) EXCEPT ![i] = <<>>]
      BY <1>12, <3>2 DEF LeadsTo, Before
    <3> QED
      BY <3>1, <3>3 DEF Grid!BackspaceWord, Grid!Set
  <2>2. CASE l = 0
    <3>1. rest = 0
      <4>1. SUFFICES ASSUME rest > 0 PROVE FALSE
        BY <1>n
      <4>2. rest < word /\ rest \in rest..(word - 1) /\ x + l = rest
        BY <1>1, <1>n, <1>7, <2>2, <4>1
      <4>3. buf[rest] # Space
        BY <1>1, <4>2
      <4>4. i = n
        BY <1>8, <4>2, <4>3
      <4>5. rest = len
        BY <1>9, <4>2, <4>4
      <4> QED
        BY <1>n, <4>2, <4>5
    <3>2. i = 1
      <4>1. SUFFICES ASSUME i # 1 PROVE FALSE
        OBVIOUS
      <4>2. i - 1 \in 0..Len(c) /\ 0 \in 0..Len(c) /\ 0 < i - 1
        BY <1>2, <4>1
      <4>3. off[0] < off[i - 1]
        BY <1>2, <4>2, LaterIsFarther
      <4>4. 0 < x
        BY <1>2, <1>5, <4>3 DEF Offsets
      <4> QED
        BY <1>7, <3>1, <4>4
    <3>3. Grid!Filled(c) = {}
      <4>1. \A j \in 1..n : Len(c[j]) = 0
        <5>1. \A j \in 1..n : j = i \/ i < j
          BY <1>2, <3>2
        <5> QED
          BY <1>5, <1>11, <2>2, <5>1
      <4> QED
        BY <1>f, <4>1
    <3>4. CutCells(c, i, 0) = Grid!Blank
      <4>1. CutCells(c, 1, 0) = [j \in 1..1 |-> SubSeq(c[1], 1, 0)]
        BY DEF CutCells
      <4>2. [j \in 1..1 |-> <<>>] = << <<>> >>
        OBVIOUS
      <4> QED
        BY <1>13, <3>2, <4>1, <4>2 DEF Grid!Blank
    <3> QED
      BY <1>12, <3>3, <3>4 DEF LeadsTo, Before, Grid!BackspaceWord, Grid!Set
  <2> QED
    BY <2>1, <2>2
<1> QED
  BY <1>12, <1>14 DEF Simulated, Grid!Next
-----------------------------------------------------------------------------
(*****************************************************************************)
(* normaliseWhitespace(): each place that is kept moves to its rank among    *)
(* them, and the words, in their order, close up.                            *)
(*****************************************************************************)

(* How many elements of S are below p.                                      *)
Rank(S, p) == Cardinality({j \in S : j < p})

(* Ranks are numbers up to the size of the set.                             *)
LEMMA RankIsNat ==
    ASSUME NEW b \in Nat, NEW S \in SUBSET (0..b), NEW p
    PROVE  /\ IsFiniteSet(S) /\ IsFiniteSet({j \in S : j < p})
           /\ Rank(S, p) \in Nat /\ Rank(S, p) <= Cardinality(S) /\ Cardinality(S) \in Nat
<1>1. IsFiniteSet(0..b)
  BY FS_Interval
<1>2. {j \in S : j < p} \in SUBSET S
  OBVIOUS
<1>3. IsFiniteSet(S)
  BY <1>1, FS_Subset
<1> QED
  BY <1>2, <1>3, FS_Subset, FS_CardinalityType DEF Rank

(* An element's rank is below that of everything after it.                  *)
LEMMA RankGrows ==
    ASSUME NEW b \in Nat, NEW S \in SUBSET (0..b), NEW p \in S
    PROVE  /\ Rank(S, p) < Cardinality(S)
           /\ \A q \in Int : p < q => Rank(S, p) < Rank(S, q)
<1> DEFINE B == {j \in S : j < p}
<1>1. /\ IsFiniteSet(S) /\ IsFiniteSet(B) /\ Cardinality(B) \in Nat /\ Cardinality(S) \in Nat
      /\ Rank(S, p) = Cardinality(B) /\ p \in Int
  <2>1. p \in 0..b
    OBVIOUS
  <2>2. p \in Int
    BY <2>1
  <2>3. Rank(S, p) = Cardinality(B)
    BY DEF Rank
  <2> QED
    BY <2>2, <2>3, RankIsNat
<1>2. p \notin B
  BY <1>1
<1>3. B \cup {p} \in SUBSET S
  OBVIOUS
<1> HIDE DEF B
<1>4. Cardinality(B \cup {p}) = Cardinality(B) + 1
  BY <1>1, <1>2, FS_AddElement
<1>5. ASSUME NEW T, IsFiniteSet(T), B \cup {p} \subseteq T
      PROVE  Cardinality(B) < Cardinality(T)
  <2>1. Cardinality(B \cup {p}) <= Cardinality(T) /\ Cardinality(T) \in Nat
    BY <1>5, FS_Subset, FS_CardinalityType
  <2> QED
    BY <1>1, <1>4, <2>1
<1>6. ASSUME NEW q \in Int, p < q
      PROVE  Rank(S, p) < Rank(S, q)
  <2> DEFINE T == {j \in S : j < q}
  <2>1. B \cup {p} \subseteq T
    <3>1. \A j \in S : j \in Int
      <4>1. \A j \in S : j \in 0..b
        OBVIOUS
      <4> QED
        BY <4>1
    <3>2. \A j \in S : j < p => j < q
      BY <1>1, <1>6, <3>1
    <3> QED
      BY <1>6, <3>2 DEF B
  <2>2. IsFiniteSet(T)
    BY RankIsNat
  <2> QED
    BY <1>1, <1>5, <2>1, <2>2 DEF Rank
<1> QED
  BY <1>1, <1>3, <1>5, <1>6

(* Where S has no element the rank stays.                                   *)
LEMMA RankStays ==
    ASSUME NEW b \in Nat, NEW S \in SUBSET (0..b), NEW p \in Int, NEW q \in Int, p <= q,
           \A j \in p..q - 1 : j \notin S
    PROVE  Rank(S, q) = Rank(S, p)
<1>1. \A j \in S : j < q <=> j < p
  OBVIOUS
<1>2. {j \in S : j < q} = {j \in S : j < p}
  BY <1>1
<1> QED
  BY <1>2 DEF Rank

(* Where S has every number the rank counts.                                *)
LEMMA RankCounts ==
    ASSUME NEW b \in Nat, NEW S \in SUBSET (0..b), NEW p \in Nat, NEW q \in Nat, p <= q,
           \A j \in p..q - 1 : j \in S
    PROVE  Rank(S, q) = Rank(S, p) + (q - p)
<1> DEFINE B == {j \in S : j < p}
           C == p..q - 1
<1>1. IsFiniteSet(B) /\ Cardinality(B) \in Nat
  BY RankIsNat DEF Rank
<1>2. IsFiniteSet(C) /\ Cardinality(C) = q - p
  <2>1. IsFiniteSet(p..q - 1) /\ Cardinality(p..q - 1) = IF p > q - 1 THEN 0 ELSE (q - 1) - p + 1
    BY FS_Interval
  <2> QED
    BY <2>1
<1>3. {j \in S : j < q} = B \cup C
  <2>1. \A j \in S : j < q <=> j < p \/ j \in C
    OBVIOUS
  <2> QED
    BY <2>1
<1>4. B \cap C = {}
  OBVIOUS
<1>5. Cardinality(B \cup C) = Cardinality(B) + Cardinality(C) - Cardinality(B \cap C)
  BY <1>1, <1>2, FS_Union
<1>6. Cardinality(B \cap C) = 0
  BY <1>4, FS_EmptySet
<1> HIDE DEF B, C
<1>7. Cardinality(B \cup C) = Cardinality(B) + (q - p)
  BY <1>1, <1>2, <1>5, <1>6
<1> QED
  BY <1>3, <1>7 DEF Rank, B

(* Elements of the same rank are the same.                                  *)
LEMMA RankDecides ==
    ASSUME NEW b \in Nat, NEW S \in SUBSET (0..b), NEW p \in S, NEW q \in S,
           Rank(S, p) = Rank(S, q)
    PROVE  p = q
<1>1. p \in Int /\ q \in Int /\ Rank(S, p) \in Nat /\ Rank(S, q) \in Nat
  <2>1. p \in 0..b /\ q \in 0..b
    OBVIOUS
  <2>2. p \in Int /\ q \in Int
    BY <2>1
  <2>3. Rank(S, p) \in Nat
    BY RankIsNat
  <2>4. Rank(S, q) \in Nat
    BY RankIsNat
  <2> QED
    BY <2>2, <2>3, <2>4
<1>2. ~(p < q) /\ ~(q < p)
  <2>1. p < q => Rank(S, p) < Rank(S, q)
    BY <1>1, RankGrows
  <2>2. q < p => Rank(S, q) < Rank(S, p)
    BY <1>1, RankGrows
  <2>3. ~(Rank(S, p) < Rank(S, q)) /\ ~(Rank(S, q) < Rank(S, p))
    BY <1>1
  <2> QED
    BY <2>1, <2>2, <2>3
<1> QED
  BY <1>1, <1>2

(* A set of numbers in order: the k-th has k - 1 below it.                  *)
LEMMA AscendingIs ==
    ASSUME NEW b \in Nat, NEW S \in SUBSET (0..b), NEW k \in 1..Cardinality(S)
    PROVE  /\ Grid!Ascending(S)[k] \in S
           /\ Rank(S, Grid!Ascending(S)[k]) = k - 1
<1> DEFINE R == {p \in S \X S : p[1] < p[2]}
           e == CHOOSE x \in S : Cardinality({y \in S : <<y, x>> \in R}) = k - 1
<1>1. Cardinality(S) \in Nat
  BY RankIsNat
<1>2. \A x \in S : {y \in S : <<y, x>> \in R} = {y \in S : y < x}
  OBVIOUS
<1>3. k - 1 \in Nat /\ k - 1 < Cardinality(S)
  BY <1>1
<1>4. \E x \in S : Cardinality({y \in S : <<y, x>> \in R}) = k - 1
  <2>1. \E x \in S : Cardinality({y \in S : y < x}) = k - 1
    BY <1>3, RankExists
  <2> HIDE DEF R
  <2> QED
    BY <1>2, <2>1
<1>5. e \in S /\ Cardinality({y \in S : <<y, e>> \in R}) = k - 1
  BY <1>4
<1>6. Grid!Ascending(S)[k] = e
  <2>1. \A A : Grid!Cardinality(A) = Cardinality(A)
    BY Zenon DEF Grid!Cardinality, Cardinality
  <2> QED
    BY <2>1 DEF Grid!Ascending, Grid!InOrder
<1> HIDE DEF e
<1> QED
  BY <1>2, <1>5, <1>6 DEF Rank

(* Cells that start earlier come earlier.                                   *)
LEMMA FartherIsLater ==
    ASSUME NEW c, NEW off, Offsets(c, off), NEW i \in 0..Len(c), NEW j \in 0..Len(c),
           off[i] < off[j]
    PROVE  i < j
<1>1. Len(c) \in Nat /\ off[i] \in Nat /\ off[j] \in Nat
  BY DEF Offsets
<1>2. i # j
  BY <1>1
<1>3. ~(j < i)
  <2>1. SUFFICES ASSUME j < i PROVE FALSE
    OBVIOUS
  <2>2. off[j] < off[i]
    BY <2>1, LaterIsFarther
  <2> QED
    BY <1>1, <2>2
<1> QED
  BY <1>1, <1>2, <1>3

(* A character that is no separator lies in a cell with letters.            *)
LEMMA LetterInCell ==
    ASSUME NEW c, NEW off, NEW n, Before(c, off, n), NEW p \in 0..len - 1, buf[p] # Space
    PROVE  \E j \in 1..n : off[j - 1] <= p /\ p < off[j] - 1 /\ Len(c[j]) # 0
<1>1. /\ Laid(buf, len, c, off) /\ Offsets(c, off) /\ len \in Nat /\ n \in Nat /\ n = Len(c)
      /\ off[n] - 1 = len
  BY TextFacts DEF Before
<1>2. p \in Nat /\ p < len /\ off[n] = len + 1
  <2>1. len \in Nat
    BY <1>1
  <2>2. off[n] = len + 1
    BY <1>1 DEF Laid
  <2> QED
    BY <2>1, <2>2
<1>3. p < off[Len(c)]
  BY <1>1, <1>2
<1>4. PICK j \in 1..n : off[j - 1] <= p /\ p < off[j]
  BY <1>1, <1>2, <1>3, InSomeCell
<1>5. PICK x \in Nat, l \in Nat : CellAt(c, off, j, x, l)
  BY <1>1, CellIsAt DEF Before
<1>6. off[j - 1] = x /\ off[j] = x + l + 1 /\ Len(c[j]) = l /\ x <= p /\ p < x + l + 1
  BY <1>4, <1>5 DEF CellAt
<1>7. p # x + l
  <2>1. off[j] - 1 = x + l
    BY <1>6
  <2>2. j # n => buf[x + l] = Space
    BY <1>1, <2>1 DEF Laid
  <2>3. j = n => x + l = len
    BY <1>1, <2>1
  <2> QED
    BY <1>1, <1>2, <2>2, <2>3
<1>8. p < x + l /\ l # 0
  BY <1>2, <1>6, <1>7
<1>9. p < off[j] - 1
  BY <1>6, <1>8
<1> QED
  BY <1>4, <1>6, <1>8, <1>9

(* Between cells with letters there are only separators.                    *)
LEMMA NoLetters ==
    ASSUME NEW c, NEW off, NEW n, Before(c, off, n),
           NEW lo \in 0..n, NEW hi \in 0..n, \A j \in 1..n : lo < j /\ j <= hi => Len(c[j]) = 0,
           NEW p \in 0..len - 1, off[lo] - 1 <= p, p < off[hi]
    PROVE  buf[p] = Space
<1>1. SUFFICES ASSUME buf[p] # Space PROVE FALSE
  OBVIOUS
<1>2. PICK j \in 1..n : off[j - 1] <= p /\ p < off[j] - 1 /\ Len(c[j]) # 0
  BY <1>1, LetterInCell
<1>3. n \in Nat /\ n = Len(c) /\ Offsets(c, off)
  BY DEF Before
<1>4. j \in 0..Len(c) /\ j - 1 \in 0..Len(c) /\ lo \in 0..Len(c) /\ hi \in 0..Len(c)
  BY <1>3
<1>5. off[j] \in Nat /\ off[j - 1] \in Nat /\ off[lo] \in Nat /\ off[hi] \in Nat
  BY <1>3, <1>4 DEF Offsets
<1>6. off[lo] < off[j] /\ off[j - 1] < off[hi]
  <2>1. p \in Int /\ off[lo] - 1 <= p /\ p < off[hi] /\ off[j - 1] <= p /\ p < off[j] - 1
    BY <1>2
  <2> QED
    BY <1>5, <2>1, SMTT(30)
<1>7. lo < j /\ j - 1 < hi
  BY <1>3, <1>4, <1>6, FartherIsLater
<1>8. j <= hi
  BY <1>3, <1>4, <1>7
<1> QED
  BY <1>2, <1>7, <1>8

(* The cells with letters, in order: e[k] is the k-th of them.              *)
Chosen(c, n, m, e) ==
    /\ m \in Nat \ {0}
    /\ \A k \in 1..m : e[k] \in 1..n /\ Len(c[e[k]]) # 0
    /\ \A k \in 1..m - 1 :
          e[k] < e[k + 1] /\ \A j \in 1..n : e[k] < j /\ j < e[k + 1] => Len(c[j]) = 0
    /\ \A j \in 1..n : j < e[1] \/ e[m] < j => Len(c[j]) = 0

(* AtPlaces takes the cells with letters in the row's order.                *)
LEMMA ChosenAre ==
    ASSUME NEW c, NEW n \in Nat, NEW F, F = {j \in 1..n : Len(c[j]) # 0}, F # {},
           NEW m, m = Cardinality(F),
           NEW e, \A k \in 1..m : e[k] = Grid!Ascending(F)[k]
    PROVE  Chosen(c, n, m, e)
<1>1. F \in SUBSET (0..n)
  OBVIOUS
<1>2. m \in Nat /\ IsFiniteSet(F)
  BY <1>1, RankIsNat
<1>3. m # 0
  BY <1>2, FS_EmptySet
<1>4. ASSUME NEW k \in 1..m
      PROVE  e[k] \in F /\ e[k] \in Int /\ Rank(F, e[k]) = k - 1
  <2>1. e[k] \in F /\ Rank(F, e[k]) = k - 1
    BY <1>1, AscendingIs
  <2> QED
    BY <2>1
<1>5. ASSUME NEW i \in F
      PROVE  /\ Rank(F, i) \in Nat /\ i \in Int
             /\ Rank(F, i) < m
             /\ \A j \in F : i < j => Rank(F, i) < Rank(F, j)
  <2>1. Rank(F, i) \in Nat
    BY <1>1, RankIsNat
  <2>2. \A j \in F : j \in Int
    OBVIOUS
  <2>3. Rank(F, i) < Cardinality(F) /\ \A j \in Int : i < j => Rank(F, i) < Rank(F, j)
    BY <1>1, RankGrows
  <2> QED
    BY <2>1, <2>2, <2>3
<1>6. ASSUME NEW k \in 1..m - 1
      PROVE  e[k] < e[k + 1] /\ \A j \in 1..n : e[k] < j /\ j < e[k + 1] => Len(c[j]) = 0
  <2>1. k \in 1..m /\ k + 1 \in 1..m /\ (k + 1) - 1 = k /\ k \in Nat
    BY <1>2
  <2>2. /\ e[k] \in F /\ e[k + 1] \in F /\ e[k] \in Int /\ e[k + 1] \in Int
        /\ Rank(F, e[k]) = k - 1 /\ Rank(F, e[k + 1]) = k
    BY <1>4, <2>1
  <2>3. e[k] # e[k + 1]
    BY <2>1, <2>2
  <2>4. ~(e[k + 1] < e[k])
    <3>1. e[k + 1] < e[k] => k < k - 1
      BY <1>5, <2>2
    <3> QED
      BY <2>1, <3>1
  <2>5. ASSUME NEW j \in F, e[k] < j, j < e[k + 1] PROVE FALSE
    <3>1. k - 1 < Rank(F, j) /\ Rank(F, j) < k /\ Rank(F, j) \in Nat
      BY <1>5, <2>2, <2>5
    <3> QED
      BY <2>1, <3>1
  <2>6. e[k] < e[k + 1]
    BY <2>2, <2>3, <2>4
  <2> QED
    BY <2>5, <2>6
<1>7. ASSUME NEW j \in F, j < e[1] \/ e[m] < j
      PROVE  FALSE
  <2>1. 1 \in 1..m /\ m \in 1..m
    BY <1>2, <1>3
  <2>2. Rank(F, e[1]) = 0 /\ Rank(F, e[m]) = m - 1 /\ e[1] \in F /\ e[m] \in F
    BY <1>4, <2>1
  <2>3. Rank(F, j) \in Nat /\ Rank(F, j) < m
    BY <1>5
  <2>4. j < e[1] => Rank(F, j) < 0
    BY <1>5, <2>2
  <2>5. e[m] < j => m - 1 < Rank(F, j)
    BY <1>5, <2>2
  <2> QED
    BY <1>2, <1>7, <2>3, <2>4, <2>5
<1>8. \A k \in 1..m : e[k] \in 1..n /\ Len(c[e[k]]) # 0
  BY <1>4
<1>9. \A j \in 1..n : j < e[1] \/ e[m] < j => Len(c[j]) = 0
  BY <1>7
<1> QED
  BY <1>2, <1>3, <1>6, <1>8, <1>9 DEF Chosen

(* Where the k-th word ends up: behind the places kept before its end.      *)
ClosedOffsets(off, m, e) ==
    [k \in 0..m |-> IF k = 0 THEN 0 ELSE Rank(Kept, off[e[k]] - 1) + 1]

(* The k-th word's letters, and the separator in front of it, are kept, and *)
(* their ranks are their places in the text that is closed up.              *)
WordCloses(c, off, e, k, off2) ==
    /\ off2[k] \in Nat /\ off2[k - 1] \in Nat
    /\ off2[k] = off2[k - 1] + Len(c[e[k]]) + 1
    /\ \A t \in 1..Len(c[e[k]]) :
          /\ off[e[k] - 1] + t - 1 \in Kept
          /\ Rank(Kept, off[e[k] - 1] + t - 1) = off2[k - 1] + t - 1
          /\ buf[off[e[k] - 1] + t - 1] = c[e[k]][t]
    /\ k > 1 => /\ off[e[k] - 1] - 1 \in Kept
                /\ Rank(Kept, off[e[k] - 1] - 1) = off2[k - 1] - 1
                /\ buf[off[e[k] - 1] - 1] = Space

(* So it is of each word.                                                   *)
LEMMA WordKept ==
    ASSUME NEW c, NEW off, NEW n, Before(c, off, n), NEW m, NEW e, Chosen(c, n, m, e),
           NEW k \in 1..m, NEW off2, off2 = ClosedOffsets(off, m, e)
    PROVE  WordCloses(c, off, e, k, off2)
<1>1. /\ Laid(buf, len, c, off) /\ Offsets(c, off) /\ len \in Nat /\ n \in Nat /\ n = Len(c)
      /\ m \in Nat /\ k \in Nat /\ k >= 1
  BY TextFacts DEF Before, Chosen
<1>2. PICK i \in 1..n : i = e[k] /\ Len(c[i]) # 0
  BY DEF Chosen
<1>3. PICK x \in Nat, l \in Nat : CellAt(c, off, i, x, l)
  BY <1>1, CellIsAt DEF Before
<1>4. /\ off[i - 1] = x /\ off[i] = x + l + 1 /\ Len(c[i]) = l /\ x + l <= len /\ l # 0
      /\ \A t \in 1..l : buf[x + t - 1] = c[i][t]
  BY <1>2, <1>3 DEF CellAt
<1>5. Kept \in SUBSET (0..len) /\ \A p \in Kept : p \in 0..len - 1
  BY <1>1 DEF Kept
<1>k. Kept \in SUBSET (0..len) /\ len \in Nat
  BY <1>1, <1>5
<1>c. \A p, q \in Nat : p <= q /\ (\A j \in p..q - 1 : j \in Kept)
                       => Rank(Kept, q) = Rank(Kept, p) + (q - p)
  <2> QED
    BY <1>k, RankCounts
<1>6. \A p \in x..x + l - 1 : p \in Kept
  <2>1. \A p \in off[i - 1]..off[i] - 2 : p \in 0..len - 1 /\ buf[p] # Space
    BY <1>1 DEF Laid
  <2>2. (x + l + 1) - 2 = x + l - 1
    OBVIOUS
  <2> QED
    BY <1>4, <2>1, <2>2 DEF Kept
<1>r. \A p : Rank(Kept, p) \in Nat
  BY <1>1, <1>5, RankIsNat
<1>7. ASSUME NEW t \in 0..l
      PROVE  Rank(Kept, x + t) = Rank(Kept, x) + t
  <2>1. x + t \in Nat /\ x <= x + t /\ (x + t) - x = t /\ \A j \in x..(x + t) - 1 : j \in x..x + l - 1
    OBVIOUS
  <2>2. \A j \in x..(x + t) - 1 : j \in Kept
    BY <1>6, <2>1
  <2>3. x + t \in Nat /\ x <= x + t
    BY <2>1
  <2>4. Rank(Kept, x + t) = Rank(Kept, x) + ((x + t) - x)
    BY <1>c, <2>2, <2>3
  <2> QED
    BY <2>1, <2>4
(* The word starts where the kept places before it end.                     *)
<1>8. /\ Rank(Kept, x) = off2[k - 1]
      /\ k > 1 => x - 1 \in Kept /\ Rank(Kept, x - 1) = off2[k - 1] - 1 /\ buf[x - 1] = Space
  <2>1. CASE k = 1
    <3>1. \A p \in 0..x - 1 : buf[p] = Space
      <4>1. 0 \in 0..n /\ i - 1 \in 0..n /\ off[0] = 0
        BY <1>1 DEF Offsets
      <4>2. \A j \in 1..n : 0 < j /\ j <= i - 1 => Len(c[j]) = 0
        <5>1. \A j \in 1..n : j < i => Len(c[j]) = 0
          BY <1>2, <2>1 DEF Chosen
        <5> QED
          BY <1>1, <5>1
      <4>3. ASSUME NEW p \in 0..x - 1
            PROVE  buf[p] = Space
        <5>1. p \in 0..len - 1 /\ off[0] - 1 <= p /\ p < off[i - 1]
          BY <1>1, <1>4, <4>1
        <5> QED
          BY <4>1, <4>2, <5>1, NoLetters
      <4> QED
        BY <4>3
    <3>2. \A j \in 0..x - 1 : j \notin Kept
      <4>1. \A j \in 0..x - 1 : \A q \in 0..(j - 1) : q \in 0..x - 1
        OBVIOUS
      <4> QED
        BY <3>1, <4>1 DEF Kept
    <3>3. Rank(Kept, x) = Rank(Kept, 0)
      BY <1>1, <1>5, <3>2, RankStays
    <3>4. Rank(Kept, 0) = 0
      <4>1. \A j \in Kept : ~(j < 0)
        BY <1>1, <1>5
      <4>2. {j \in Kept : j < 0} = {}
        BY <4>1
      <4> QED
        BY <4>2, FS_EmptySet DEF Rank
    <3>5. off2[k - 1] = 0
      <4>1. k - 1 = 0 /\ 0 \in 0..m
        BY <1>1, <2>1
      <4> QED
        BY <4>1 DEF ClosedOffsets
    <3> QED
      BY <2>1, <3>3, <3>4, <3>5
  <2>2. CASE k > 1
    <3>1. k - 1 \in 1..m - 1 /\ k - 1 \in 1..m /\ (k - 1) + 1 = k /\ k - 1 # 0 /\ k - 1 \in 0..m
      BY <1>1, <2>2
    <3>2. PICK h \in 1..n : /\ h = e[k - 1] /\ Len(c[h]) # 0 /\ h < i
                           /\ \A j \in 1..n : h < j /\ j < i => Len(c[j]) = 0
      BY <1>2, <3>1 DEF Chosen
    <3>3. PICK y \in Nat, g \in Nat : CellAt(c, off, h, y, g)
      BY <1>1, CellIsAt DEF Before
    <3>4. PICK z \in Nat : z = y + g
      OBVIOUS
    <3>5. off[h] - 1 = z /\ off[h] = z + 1 /\ g # 0
      BY <3>2, <3>3, <3>4 DEF CellAt
    <3>6. z + 1 <= x
      <4>1. CASE h = i - 1
        <5>1. x = z + 1
          BY <1>4, <3>5, <4>1
        <5> QED
          BY <5>1
      <4>2. CASE h < i - 1
        <5>1. h \in 0..Len(c) /\ i - 1 \in 0..Len(c)
          BY <1>1
        <5>2. z + 1 < x
          BY <1>1, <1>4, <3>5, <4>2, <5>1, LaterIsFarther
        <5> QED
          BY <5>2
      <4>3. h = i - 1 \/ h < i - 1
        BY <1>1, <3>2
      <4> QED
        BY <4>1, <4>2, <4>3
    <3>7. ASSUME NEW p \in z..x - 1
          PROVE  buf[p] = Space
      <4>1. h \in 0..n /\ i - 1 \in 0..n
        BY <1>1
      <4>2. \A j \in 1..n : h < j /\ j <= i - 1 => Len(c[j]) = 0
        <5>1. \A j \in 1..n : j <= i - 1 => j < i
          BY <1>1
        <5> QED
          BY <3>2, <5>1
      <4>3. p \in 0..len - 1 /\ off[h] - 1 <= p /\ p < off[i - 1]
        <5>1. p \in 0..len - 1 /\ z <= p /\ p < x
          BY <1>1, <1>4, <3>6
        <5> QED
          BY <1>4, <3>5, <5>1
      <4> QED
        BY <4>1, <4>2, <4>3, NoLetters
    <3>8. x - 1 \in Kept /\ buf[x - 1] = Space
      <4>1. x - 1 \in 0..len - 1 /\ (x - 1) + 1 = x /\ x < len /\ x \in x..x + l - 1 /\ x - 1 \in z..x - 1
        BY <1>1, <1>4, <3>6
      <4>2. buf[x] # Space
        <5>1. \A p \in off[i - 1]..off[i] - 2 : buf[p] # Space
          BY <1>1 DEF Laid
        <5>2. x \in x..(x + l + 1) - 2
          BY <4>1
        <5> QED
          BY <1>4, <5>1, <5>2
      <4>3. z - 1 \in 0..(x - 1) - 1 /\ buf[z - 1] # Space
        <5>1. \A p \in off[h - 1]..off[h] - 2 : buf[p] # Space
          BY <1>1 DEF Laid
        <5>2. z - 1 \in y..(z + 1) - 2
          BY <3>4, <3>5
        <5>3. off[h - 1] = y
          BY <3>3 DEF CellAt
        <5>4. z - 1 \in 0..(x - 1) - 1
          BY <3>4, <3>5, <3>6
        <5> QED
          BY <3>5, <5>1, <5>2, <5>3, <5>4
      <4> QED
        BY <3>7, <4>1, <4>2, <4>3 DEF Kept
    <3>9. Rank(Kept, x - 1) = Rank(Kept, z)
      <4>1. \A p \in z..(x - 1) - 1 : p \in z..x - 1 /\ p + 1 \in z..x - 1
        BY <3>6
      <4>2. \A p \in z..(x - 1) - 1 : p \notin Kept
        BY <3>7, <4>1 DEF Kept
      <4>3. z \in Int /\ x - 1 \in Int /\ z <= x - 1
        BY <3>6
      <4> QED
        BY <1>1, <1>5, <4>2, <4>3, RankStays
    <3>10. Rank(Kept, x) = Rank(Kept, x - 1) + 1
      <4>1. x - 1 \in Nat /\ x - 1 <= x /\ x - (x - 1) = 1 /\ \A j \in x - 1..x - 1 : j = x - 1
        BY <3>6
      <4>2. \A j \in x - 1..x - 1 : j \in Kept
        BY <3>8, <4>1
      <4>3. x - 1 \in Nat /\ x - 1 <= x
        BY <4>1
      <4>4. Rank(Kept, x) = Rank(Kept, x - 1) + (x - (x - 1))
        BY <1>c, <4>2, <4>3
      <4> QED
        BY <4>1, <4>4
    <3>11. off2[k - 1] = Rank(Kept, z) + 1
      BY <3>1, <3>2, <3>5 DEF ClosedOffsets
    <3>12. Rank(Kept, x) = off2[k - 1] /\ Rank(Kept, x - 1) = off2[k - 1] - 1
      BY <1>r, <3>9, <3>10, <3>11
    <3> QED
      BY <3>8, <3>12
  <2> QED
    BY <1>1, <2>1, <2>2
<1>9. off2[k] = (off2[k - 1] + l) + 1
  <2>1. off2[k] = Rank(Kept, off[i] - 1) + 1
    <3>1. k \in 0..m /\ k # 0
      BY <1>1
    <3> QED
      BY <1>2, <3>1 DEF ClosedOffsets
  <2>2. off[i] - 1 = x + l
    BY <1>4
  <2>3. Rank(Kept, x + l) = off2[k - 1] + l
    BY <1>7, <1>8
  <2> QED
    BY <2>1, <2>2, <2>3
<1>10. off2[k - 1] \in Nat /\ off2[k] \in Nat /\ off2[k] = off2[k - 1] + l + 1
  <2>1. off2[k - 1] \in Nat
    BY <1>r, <1>8
  <2> QED
    BY <1>9, <2>1
<1>11. ASSUME NEW t \in 1..l
       PROVE  /\ x + t - 1 \in Kept
              /\ Rank(Kept, x + t - 1) = off2[k - 1] + t - 1
              /\ buf[x + t - 1] = c[i][t]
  <2>1. x + t - 1 \in x..x + l - 1 /\ t - 1 \in 0..l /\ x + (t - 1) = x + t - 1
    OBVIOUS
  <2>2. Rank(Kept, x + t - 1) = off2[k - 1] + (t - 1)
    BY <1>7, <1>8, <2>1
  <2>3. off2[k - 1] + (t - 1) = off2[k - 1] + t - 1
    BY <1>10
  <2> QED
    BY <1>4, <1>6, <2>1, <2>2, <2>3
<1> QED
  BY <1>2, <1>4, <1>8, <1>10, <1>11 DEF WordCloses

(* Nothing is kept behind the last word.                                    *)
LEMMA KeptSize ==
    ASSUME NEW c, NEW off, NEW n, Before(c, off, n), NEW m, NEW e, Chosen(c, n, m, e),
           NEW off2, off2 = ClosedOffsets(off, m, e)
    PROVE  Cardinality(Kept) \in Nat /\ off2[m] = Cardinality(Kept) + 1
<1>1. /\ Laid(buf, len, c, off) /\ len \in Nat /\ n \in Nat /\ n = Len(c)
      /\ m \in Nat /\ m # 0 /\ m \in 0..m
  BY TextFacts DEF Before, Chosen
<1>2. PICK h \in 1..n : h = e[m] /\ \A j \in 1..n : h < j => Len(c[j]) = 0
  BY <1>1 DEF Chosen
<1>3. PICK y \in Nat, g \in Nat : CellAt(c, off, h, y, g)
  BY <1>1, CellIsAt DEF Before
<1>4. PICK z \in Nat : z = y + g
  OBVIOUS
<1>5. off[h] - 1 = z /\ z <= len /\ off[n] = len + 1
  <2>1. off[h] = (y + g) + 1 /\ y + g <= len
    BY <1>3 DEF CellAt
  <2>2. off[n] = len + 1
    BY <1>1 DEF Laid
  <2> QED
    BY <1>1, <1>4, <2>1, <2>2
<1>6. ASSUME NEW p \in z..len - 1
      PROVE  buf[p] = Space
  <2>1. h \in 0..n /\ n \in 0..n
    BY <1>1
  <2>2. p \in 0..len - 1 /\ z <= p /\ p < len + 1
    BY <1>1
  <2> QED
    BY <1>2, <1>5, <2>1, <2>2, NoLetters
<1>7. Kept \in SUBSET (0..len) /\ \A j \in Kept : j < len
  BY <1>1 DEF Kept
<1>8. Rank(Kept, len) = Rank(Kept, z)
  <2>1. \A p \in z..len - 1 : p + 1 < len => p + 1 \in z..len - 1
    BY <1>1
  <2>2. \A p \in z..len - 1 : p \notin Kept
    BY <1>6, <2>1 DEF Kept
  <2>3. z \in Int /\ len \in Int /\ z <= len
    BY <1>1, <1>5
  <2> QED
    BY <1>1, <1>7, <2>2, <2>3, RankStays
<1>9. {j \in Kept : j < len} = Kept
  BY <1>7
<1>10. Cardinality(Kept) = Rank(Kept, z)
  BY <1>8, <1>9 DEF Rank
<1>11. off2[m] = Rank(Kept, z) + 1
  BY <1>1, <1>2, <1>5 DEF ClosedOffsets
<1>12. Cardinality(Kept) \in Nat
  BY <1>1, <1>7, RankIsNat
<1> QED
  BY <1>10, <1>11, <1>12

(* The closed-up text is the row of the words.                              *)
LEMMA ClosedRow ==
    ASSUME NEW c, NEW off, NEW n, Before(c, off, n), NEW m, NEW e, Chosen(c, n, m, e), Normalise
    PROVE  \E off2 : RowOn(buf', len', [k \in 1..m |-> c[e[k]]], off2)
<1> DEFINE words == [k \in 1..m |-> c[e[k]]]
           off2 == ClosedOffsets(off, m, e)
           size == Cardinality(Kept)
           Nth(i) == CHOOSE p \in Kept : Cardinality({j \in Kept : j < p}) = i
<1>1. /\ m \in Nat /\ m # 0 /\ n \in Nat /\ n = Len(c) /\ c \in Seq(Seq(Letters)) /\ len \in Nat
      /\ \A k \in 1..m : e[k] \in 1..n
  BY DEF Before, Chosen
<1>2. /\ len' = size
      /\ buf' = [i \in Index |-> IF i < size THEN buf[Nth(i)]
                                ELSE IF i <= len THEN Nul ELSE buf[i]]
  BY DEF Normalise
<1>3. size \in 0..len
  BY <1>1, KeptFits
<1>4. Kept \in SUBSET (0..len)
  BY <1>1 DEF Kept
(* A kept place moves to its rank.                                          *)
<1>5. ASSUME NEW p \in Kept
      PROVE  buf'[Rank(Kept, p)] = buf[p]
  <2>1. Rank(Kept, p) \in Nat
    BY <1>1, <1>4, RankIsNat
  <2>2. Rank(Kept, p) < size
    BY <1>1, <1>4, RankGrows
  <2>3. Nth(Rank(Kept, p)) \in Kept /\ Rank(Kept, Nth(Rank(Kept, p))) = Rank(Kept, p)
    BY DEF Rank
  <2> HIDE DEF Nth
  <2>4. Nth(Rank(Kept, p)) = p
    BY <1>1, <1>4, <2>3, RankDecides
  <2>5. Rank(Kept, p) \in Index
    BY <1>1, <1>3, <2>1, <2>2, IndexIs DEF Before, Indices
  <2> HIDE DEF size
  <2> QED
    BY <1>2, <2>2, <2>4, <2>5
<1> HIDE DEF Nth
<1>6. words \in [1..m -> Seq(Letters)] /\ \A k \in 1..m : words[k] = c[e[k]]
  <2>1. \A k \in 1..m : c[e[k]] \in Seq(Letters)
    BY <1>1
  <2> QED
    BY <2>1
<1>7. ASSUME NEW k \in 1..m
      PROVE  /\ off2[k] \in Nat /\ off2[k - 1] \in Nat
             /\ off2[k] = off2[k - 1] + Len(c[e[k]]) + 1
             /\ \A t \in 1..Len(c[e[k]]) : buf'[off2[k - 1] + t - 1] = c[e[k]][t]
             /\ k > 1 => buf'[off2[k - 1] - 1] = Space
  <2> HIDE DEF off2
  <2>1. off2 = ClosedOffsets(off, m, e)
    BY DEF off2
  <2>2. WordCloses(c, off, e, k, off2)
    BY <2>1, WordKept
  <2>3. \A t \in 1..Len(c[e[k]]) : buf'[off2[k - 1] + t - 1] = c[e[k]][t]
    BY <1>5, <2>2 DEF WordCloses
  <2>4. k > 1 => buf'[off2[k - 1] - 1] = Space
    BY <1>5, <2>2 DEF WordCloses
  <2> QED
    BY <2>2, <2>3, <2>4 DEF WordCloses
<1>8. off2 \in [0..m -> Nat] /\ off2[0] = 0 /\ off2[m] = size + 1
  <2>1. off2[m] = size + 1
    BY KeptSize
  <2>2. off2[0] = 0 /\ off2 = [k \in 0..m |-> off2[k]]
    BY <1>1 DEF ClosedOffsets
  <2> HIDE DEF off2
  <2>3. \A k \in 0..m : k = 0 \/ k \in 1..m
    BY <1>1
  <2>4. \A k \in 0..m : off2[k] \in Nat
    BY <1>7, <2>2, <2>3
  <2> QED
    BY <2>1, <2>2, <2>4
<1> HIDE DEF words, off2, size
<1>9. /\ \A k \in 1..m : off2[k] = off2[k - 1] + Len(words[k]) + 1
      /\ \A k \in 1..m : \A t \in 1..Len(words[k]) : buf'[off2[k - 1] + t - 1] = words[k][t]
  BY <1>6, <1>7, SMTT(30)
<1>10. ASSUME NEW k \in 1..m - 1
       PROVE  buf'[off2[k] - 1] = Space
  <2>1. k + 1 \in 1..m /\ k + 1 > 1 /\ (k + 1) - 1 = k
    BY <1>1
  <2> QED
    BY <1>7, <2>1
<1>11. m \in Nat \ {0} /\ size \in Nat
  BY <1>1, <1>3
<1>12. RowOn(buf', size, words, off2)
  BY <1>6, <1>8, <1>9, <1>10, <1>11, MadeRow
<1> QED
  BY <1>2, <1>12 DEF words

(* normaliseWhitespace()                                                    *)
LEMMA NormaliseStep ==
    ASSUME NEW c, NEW off, NEW n, Before(c, off, n), Normalise
    PROVE  Simulated
<1> DEFINE F == {j \in 1..n : Len(c[j]) # 0}
           m == Cardinality(F)
           e == [k \in 1..m |-> Grid!Ascending(F)[k]]
           words == [k \in 1..m |-> c[e[k]]]
<1>1. Grid!Filled(c) = F /\ Cells = c
  BY DEF Before, Grid!Filled, Grid!IsEmptyCell
<1>2. n \in Nat /\ n # 0 /\ F \in SUBSET (0..n) /\ len \in Nat /\ n = Len(c) /\ IInv' /\ DOMAIN c = 1..n
  BY DEF Before
<1>3. m \in Nat /\ IsFiniteSet(F)
  BY <1>2, RankIsNat
<1>4. Grid!AtPlaces(c, F) = words
  <2>1. \A A : Grid!Cardinality(A) = Cardinality(A)
    BY Zenon DEF Grid!Cardinality, Cardinality
  <2>2. \A k \in 1..m : e[k] = Grid!Ascending(F)[k]
    OBVIOUS
  <2> HIDE DEF F, e
  <2>3. Grid!AtPlaces(c, F) = [k \in 1..m |-> c[Grid!Ascending(F)[k]]]
    BY <2>1 DEF Grid!AtPlaces
  <2> QED
    BY <2>2, <2>3
<1>5. CASE F = {}
  <2>1. \A p \in 0..len - 1 : buf[p] = Space
    <3>1. \A j \in 1..n : Len(c[j]) = 0
      BY <1>5
    <3> QED
      BY <3>1, LetterInCell
  <2>2. Kept = {}
    BY <1>2, <2>1 DEF Kept
  <2>3. len' = 0
    BY <2>2, FS_EmptySet DEF Normalise
  <2>4. LeadsTo(<< <<>> >>)
    <3>1. <<>> \in Seq(Letters) /\ Len(<<>>) = 0 /\ \A k \in 1..0 : FALSE
      OBVIOUS
    <3> QED
      BY <1>2, <2>3, <3>1, LeadsToOne
  <2>5. Grid!Normalised(c) = << <<>> >>
    <3>1. m = 0
      BY <1>5, FS_EmptySet
    <3>2. words = <<>>
      <4> HIDE DEF m, e
      <4>1. 1..m = {}
        BY <3>1
      <4> QED
        BY <4>1
    <3>3. F # DOMAIN c
      BY <1>2, <1>5
    <3> QED
      BY <1>1, <1>4, <3>2, <3>3 DEF Grid!Normalised, Grid!Blank
  <2>6. Grid!Normalise
    BY <1>1, <2>4, <2>5 DEF LeadsTo, Grid!Normalise, Grid!Set
  <2> QED
    BY <2>4, <2>6 DEF Simulated, Grid!Next
<1>6. CASE F # {}
  <2>1. Chosen(c, n, m, e)
    <3>1. \A k \in 1..m : e[k] = Grid!Ascending(F)[k]
      OBVIOUS
    <3> HIDE DEF e
    <3> QED
      BY <1>2, <1>6, <3>1, ChosenAre
  <2>2. \E off2 : RowOn(buf', len', words, off2)
    <3> HIDE DEF m, e
    <3> QED
      BY <2>1, ClosedRow
  <2>3. LeadsTo(words)
    BY <1>2, <2>2, Arrives
  <2>4. Grid!Normalised(c) = words
    <3>1. m # 0
      BY <1>3, <1>6, FS_EmptySet
    <3>2. words # <<>>
      <4>1. 1 \in DOMAIN words
        BY <1>3, <3>1
      <4>2. DOMAIN <<>> = {}
        OBVIOUS
      <4> HIDE DEF words
      <4> QED
        BY <4>1, <4>2
    <3>3. CASE F # DOMAIN c
      BY <1>1, <1>4, <3>2, <3>3 DEF Grid!Normalised
    <3>4. CASE F = DOMAIN c
      <4>1. m = n
        <5>1. Cardinality(1..n) = n
          <6>1. Cardinality(1..n) = IF 1 > n THEN 0 ELSE n - 1 + 1
            BY <1>2, FS_Interval
          <6> QED
            BY <1>2, <6>1
        <5> QED
          BY <1>2, <3>4, <5>1
      <4>2. ASSUME NEW k \in 1..n
            PROVE  e[k] = k
        <5>1. k \in F /\ k \in 1..m /\ F = 1..n
          BY <1>2, <3>4, <4>1
        <5>2. e[k] \in F /\ Rank(F, e[k]) = k - 1
          <6>1. e[k] = Grid!Ascending(F)[k]
            BY <5>1
          <6> HIDE DEF e, F
          <6> QED
            BY <1>2, <5>1, <6>1, AscendingIs
        <5>3. Rank(F, k) = k - 1
          <6>1. {j \in F : j < k} = 1..k - 1
            BY <1>2, <5>1
          <6>2. Cardinality(1..k - 1) = k - 1
            <7>1. k - 1 \in Int /\ (1 > k - 1 => k - 1 = 0) /\ (k - 1) - 1 + 1 = k - 1
              BY <1>2
            <7> QED
              BY <7>1, FS_Interval
          <6> QED
            BY <6>1, <6>2 DEF Rank
        <5> HIDE DEF e, F
        <5> QED
          BY <1>2, <5>1, <5>2, <5>3, RankDecides
      <4>3. words = [k \in 1..n |-> c[k]]
        <5> HIDE DEF e, m
        <5> QED
          BY <4>1, <4>2
      <4>4. c = [k \in 1..n |-> c[k]]
        BY <1>2 DEF Before
      <4>5. c # <<>>
        BY <1>2
      <4> QED
        BY <1>1, <3>4, <4>3, <4>4, <4>5 DEF Grid!Normalised
    <3> QED
      BY <3>3, <3>4
  <2> HIDE DEF words
  <2>5. Grid!Normalise
    BY <1>1, <2>3, <2>4 DEF LeadsTo, Grid!Normalise, Grid!Set
  <2> QED
    BY <2>3, <2>5 DEF Simulated, Grid!Next
<1> QED
  BY <1>5, <1>6
-----------------------------------------------------------------------------
(*****************************************************************************)
(* The refinement                                                            *)
(*****************************************************************************)

(* The text is some row.                                                    *)
IsRow == \E c, off : Row(c, off)

(* Every operation is one of the grid's.                                    *)
LEMMA StepSimulated ==
    ASSUME IInv, IInv', IsRow, Next
    PROVE  Simulated
<1>1. PICK c, off : Row(c, off)
  BY DEF IsRow
<1>2. PICK n : Before(c, off, n)
  BY <1>1, Known
<1>3. ASSUME NEW ch \in Letters \cup {Space}, Type(ch)
      PROVE  Simulated
  BY <1>2, <1>3, TypeStep
<1>4. CASE Backspace
  BY <1>2, <1>4, BackspaceStep
<1>5. CASE BackspaceWord
  BY <1>2, <1>5, BackspaceWordStep
<1>6. CASE Clear
  BY <1>2, <1>6, ClearStep
<1>7. ASSUME NEW w \in Words, Assign(w)
      PROVE  Simulated
  BY <1>2, <1>7, AssignStep
<1>8. CASE Normalise
  BY <1>2, <1>8, NormaliseStep
<1>9. ASSUME NEW m \in 1..MaxCells, SetSlotCount(m)
      PROVE  Simulated
  BY <1>2, <1>9, SetSlotCountStep
<1>10. ASSUME NEW span \in Spans,
              \/ \E ch \in Letters : AppendToSlot(span, ch)
              \/ BackspaceInSlot(span)
              \/ ClearSlot(span)
              \/ \E w \in Words : SetSlot(span, w)
       PROVE  Simulated
  BY <1>2, <1>10, EditSlotStep
<1> QED
  BY <1>3, <1>4, <1>5, <1>6, <1>7, <1>8, <1>9, <1>10 DEF Next

(* So is a stuttering step, and the text stays a row.                       *)
LEMMA StepKeepsRow ==
    ASSUME IInv, IInv', IsRow, [Next]_vars
    PROVE  IsRow' /\ (Grid!Next \/ Cells' = Cells)
<1>1. CASE Next
  BY <1>1, StepSimulated DEF Simulated, LeadsTo, IsRow, Row
<1>2. CASE UNCHANGED vars
  <2>1. PICK c, off : RowOn(buf, len, c, off)
    BY DEF IsRow, Row
  <2>2. RowOn(buf', len', c, off)
    BY <1>2, <2>1 DEF vars
  <2>3. Row(c, off) /\ LeadsTo(c)
    BY <2>1, <2>2, Arrives DEF Row
  <2>4. Cells = c /\ Cells' = c
    BY <2>3, CellsAre DEF LeadsTo
  <2> QED
    BY <2>2, <2>4 DEF IsRow, Row
<1> QED
  BY <1>1, <1>2

(* The grid's promise (secure_memory.h), for every capacity and every row:  *)
(* seen as cells, each operation of SecureString does to its own cell what  *)
(* WordGrid says and nothing to any other; a cell whose letters are deleted *)
(* stays, and one that would not fit is refused whole.                      *)
THEOREM Refinement == Spec => ImplementsGrid
<1>1. ASSUME IInv, Init
      PROVE  IsRow /\ Grid!Init
  <2>1. <<>> \in Seq(Letters) /\ Len(<<>>) = 0 /\ \A k \in 1..0 : FALSE
    OBVIOUS
  <2>2. PICK off : RowOn(buf, 0, << <<>> >>, off)
    BY <2>1, SingleRow
  <2>3. Row(<< <<>> >>, off)
    BY <1>1, <2>2 DEF Row, Init
  <2>4. Cells = << <<>> >>
    BY <1>1, <2>3, CellsAre
  <2> QED
    BY <2>3, <2>4 DEF IsRow, Grid!Init, Grid!Blank
<1>2. IInv /\ IInv' /\ IsRow /\ [Next]_vars => IsRow' /\ [Grid!Next]_Cells
  BY StepKeepsRow
<1>3. IInv /\ Init => IsRow /\ Grid!Init
  BY <1>1
<1> QED
  BY <1>2, <1>3, Invariance, PTL DEF Spec, ImplementsGrid, Grid!Spec
=============================================================================
