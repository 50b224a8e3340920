-------------------------- MODULE ScanScreenProofs ---------------------------
(***************************************************************************)
(* The safety properties of the list of transactions, for any names on the *)
(* volume, any texts the operator types and any order of times; and what   *)
(* becomes of a text that is typed for a name, for every text there is.    *)
(***************************************************************************)
EXTENDS ScanScreen, FiniteSetTheorems, SequenceTheorems, WellFoundedInduction, TLAPS

(* R orders S strictly and totally.                                         *)
Orders(R, S) ==
    /\ \A x \in S : <<x, x>> \notin R
    /\ \A x, y \in S : x # y => <<x, y>> \in R \/ <<y, x>> \in R
    /\ \A x, y, z \in S : <<x, y>> \in R /\ <<y, z>> \in R => <<x, z>> \in R

(* Every place is that of one element, and places follow the order.         *)
LEMMA Places ==
    ASSUME NEW S, IsFiniteSet(S), NEW R, Orders(R, S),
           NEW place, place = [x \in S |-> Cardinality({y \in S : <<y, x>> \in R})]
    PROVE  /\ place \in Bijection(S, 0..Cardinality(S) - 1)
           /\ \A x, y \in S : place[x] < place[y] => <<x, y>> \in R
<1> DEFINE Before(x) == {y \in S : <<y, x>> \in R}
<1>1. Cardinality(S) \in Nat
  BY FS_CardinalityType
<1>2. ASSUME NEW x \in S
      PROVE  /\ IsFiniteSet(Before(x)) /\ Cardinality(Before(x)) \in Nat
             /\ IsFiniteSet(Before(x) \cup {x})
             /\ Cardinality(Before(x) \cup {x}) = Cardinality(Before(x)) + 1
             /\ Before(x) \cup {x} \in SUBSET S
  <2>1. Before(x) \in SUBSET S /\ x \notin Before(x)
    BY DEF Orders
  <2>2. IsFiniteSet(Before(x))
    BY <2>1, FS_Subset
  <2> HIDE DEF Before
  <2> QED
    BY <2>1, <2>2, FS_CardinalityType, FS_AddElement
<1>3. ASSUME NEW x \in S, NEW y \in S, <<x, y>> \in R
      PROVE  place[x] < place[y]
  <2>1. Before(x) \cup {x} \in SUBSET Before(y)
    BY <1>3 DEF Orders
  <2> HIDE DEF Before
  <2>2. Cardinality(Before(x) \cup {x}) <= Cardinality(Before(y))
    BY <1>2, <2>1, FS_Subset
  <2>3. Cardinality(Before(x)) \in Nat /\ Cardinality(Before(y)) \in Nat
    BY <1>2
  <2>4. Cardinality(Before(x) \cup {x}) = Cardinality(Before(x)) + 1
    BY <1>2
  <2>5. Cardinality(Before(x)) < Cardinality(Before(y))
    BY <2>2, <2>3, <2>4
  <2> QED
    BY <2>5 DEF Before
<1>4. ASSUME NEW x \in S
      PROVE  place[x] \in 0..Cardinality(S) - 1
  <2> HIDE DEF Before
  <2>1. Cardinality(Before(x) \cup {x}) <= Cardinality(S)
    BY <1>2, FS_Subset
  <2>2. Cardinality(Before(x)) \in 0..Cardinality(S) - 1
    BY <1>1, <1>2, <2>1
  <2> QED
    BY <2>2 DEF Before
<1>a. \A x \in S : place[x] \in Int
  BY <1>4
<1>5. \A x, y \in S : x # y => place[x] < place[y] \/ place[y] < place[x]
  BY <1>3 DEF Orders
<1>6. place \in Injection(S, 0..Cardinality(S) - 1)
  <2>1. place \in [S -> 0..Cardinality(S) - 1]
    BY <1>4
  <2>2. \A x, y \in S : place[x] = place[y] => x = y
    BY <1>5, <1>a
  <2> QED
    BY <2>1, <2>2 DEF Injection, IsInjective
<1>7. IsFiniteSet(0..Cardinality(S) - 1) /\ Cardinality(0..Cardinality(S) - 1) = Cardinality(S)
  <2>1. \A n \in Nat : IsFiniteSet(0..n - 1) /\ Cardinality(0..n - 1) = n
    BY FS_Interval
  <2> QED
    BY <1>1, <2>1
<1>8. place \in Bijection(S, 0..Cardinality(S) - 1)
  BY <1>6, <1>7, FS_Injection DEF Bijection
<1>9. ASSUME NEW x \in S, NEW y \in S, place[x] < place[y]
      PROVE  <<x, y>> \in R
  <2>1. x # y /\ ~(place[y] < place[x])
    BY <1>9, <1>a
  <2> QED
    BY <1>3, <2>1 DEF Orders
<1> QED
  BY <1>8, <1>9

(* InOrder() lists every element once, in the order.                        *)
LEMMA InOrderIs ==
    ASSUME NEW S, IsFiniteSet(S), NEW R, Orders(R, S),
           NEW f, f = InOrder(S, R)
    PROVE  /\ f \in [1..Cardinality(S) -> S]
           /\ \A x \in S : \E n \in 1..Cardinality(S) : f[n] = x
           /\ \A m, n \in 1..Cardinality(S) : m < n => <<f[m], f[n]>> \in R
<1> DEFINE place == [x \in S |-> Cardinality({y \in S : <<y, x>> \in R})]
<1>1. /\ place \in Bijection(S, 0..Cardinality(S) - 1)
      /\ \A x, y \in S : place[x] < place[y] => <<x, y>> \in R
  BY Places
<1>2. Cardinality(S) \in Nat
  BY FS_CardinalityType
<1>3. \A x \in S : Cardinality({y \in S : <<y, x>> \in R}) = place[x]
  OBVIOUS
<1>b. f = [n \in 1..Cardinality(S) |->
             CHOOSE x \in S : Cardinality({y \in S : <<y, x>> \in R}) = n - 1]
  BY DEF InOrder
<1>4. ASSUME NEW n \in 1..Cardinality(S)
      PROVE  f[n] \in S /\ place[f[n]] = n - 1
  <2>1. n - 1 \in 0..Cardinality(S) - 1
    BY <1>2
  <2>2. \E x \in S : place[x] = n - 1
    BY <1>1, <2>1 DEF Bijection, Surjection
  <2>3. \E x \in S : Cardinality({y \in S : <<y, x>> \in R}) = n - 1
    BY <1>3, <2>2
  <2>4. f[n] = CHOOSE x \in S : Cardinality({y \in S : <<y, x>> \in R}) = n - 1
    BY <1>b
  <2>5. f[n] \in S /\ Cardinality({y \in S : <<y, f[n]>> \in R}) = n - 1
    BY <2>3, <2>4
  <2> QED
    BY <1>3, <2>5
<1> HIDE DEF place
<1>5. f \in [1..Cardinality(S) -> S]
  BY <1>b, <1>4
<1>6. ASSUME NEW x \in S
      PROVE  \E n \in 1..Cardinality(S) : f[n] = x
  <2>1. place[x] \in 0..Cardinality(S) - 1
    BY <1>1 DEF Bijection, Surjection
  <2>2. place[x] + 1 \in 1..Cardinality(S) /\ (place[x] + 1) - 1 = place[x]
    BY <1>2, <2>1
  <2>3. f[place[x] + 1] \in S /\ place[f[place[x] + 1]] = place[x]
    BY <1>4, <2>2
  <2>4. f[place[x] + 1] = x
    BY <1>1, <2>3 DEF Bijection, Injection, IsInjective
  <2> QED
    BY <2>2, <2>4
<1>7. ASSUME NEW m \in 1..Cardinality(S), NEW n \in 1..Cardinality(S), m < n
      PROVE  <<f[m], f[n]>> \in R
  <2>1. m - 1 < n - 1
    BY <1>2, <1>7
  <2> QED
    BY <1>1, <1>4, <2>1
<1> QED
  BY <1>5, <1>6, <1>7

-----------------------------------------------------------------------------
Shown(v) == {n \in DOMAIN v : IsPsbtName(n)}

Earlier(v, m, n) ==
    \/ ~IsSignerOutput(m) /\ IsSignerOutput(n)
    \/ /\ IsSignerOutput(m) = IsSignerOutput(n)
       /\ \/ v[m] > v[n]
          \/ v[m] = v[n] /\ Rank[m] < Rank[n]

LEMMA VolumeIs ==
    ASSUME NEW v \in Volumes
    PROVE  /\ v \in [DOMAIN v -> Times] /\ DOMAIN v \subseteq Names
           /\ IsFiniteSet(DOMAIN v) /\ IsFiniteSet(Shown(v))
<1>1. PICK S \in SUBSET Names : v \in [S -> Times]
  BY DEF Volumes
<1>2. IsFiniteSet(Names)
  BY NameAssumption
<1>3. DOMAIN v = S /\ Shown(v) \in SUBSET S
  BY <1>1 DEF Shown
<1> QED
  BY <1>1, <1>2, <1>3, FS_Subset

LEMMA EarlierOrders ==
    ASSUME NEW v \in Volumes
    PROVE  Orders({p \in Shown(v) \X Shown(v) : Earlier(v, p[1], p[2])}, Shown(v))
<1>1. \A n \in Shown(v) : v[n] \in Nat /\ Rank[n] \in Nat /\ IsSignerOutput(n) \in BOOLEAN
  BY OrderAssumption, VolumeIs DEF Shown, IsSignerOutput
<1>2. \A m, n \in Shown(v) : m # n => Rank[m] # Rank[n]
  BY OrderAssumption, VolumeIs DEF Shown, IsInjective
<1>3. \A n \in Shown(v) : ~Earlier(v, n, n)
  BY <1>1 DEF Earlier
<1>4. \A m, n \in Shown(v) : m # n => Earlier(v, m, n) \/ Earlier(v, n, m)
  <2> SUFFICES ASSUME NEW m \in Shown(v), NEW n \in Shown(v), m # n
               PROVE  Earlier(v, m, n) \/ Earlier(v, n, m)
    OBVIOUS
  <2>1. Rank[m] < Rank[n] \/ Rank[n] < Rank[m]
    BY <1>1, <1>2
  <2>2. v[m] < v[n] \/ v[n] < v[m] \/ v[m] = v[n]
    BY <1>1
  <2>3. v[m] > v[n] <=> v[n] < v[m]
    BY <1>1
  <2>4. v[n] > v[m] <=> v[m] < v[n]
    BY <1>1
  <2> QED
    <3>1. CASE IsSignerOutput(m) = IsSignerOutput(n)
      BY <2>1, <2>2, <2>3, <2>4, <3>1, Zenon DEF Earlier
    <3>2. CASE IsSignerOutput(m) /\ ~IsSignerOutput(n)
      BY <3>2 DEF Earlier
    <3>3. CASE IsSignerOutput(n) /\ ~IsSignerOutput(m)
      BY <3>3 DEF Earlier
    <3> QED
      BY <1>1, <3>1, <3>2, <3>3
<1>5. \A l, m, n \in Shown(v) : Earlier(v, l, m) /\ Earlier(v, m, n) => Earlier(v, l, n)
  BY <1>1 DEF Earlier
<1> QED
  BY <1>3, <1>4, <1>5 DEF Orders

(* The list shows every transaction there is, once.                         *)
LEMMA ListedIs ==
    ASSUME NEW v \in Volumes,
           NEW rows, rows = Listed(v, Rank)
    PROVE  /\ ToSet(rows) = Shown(v)
           /\ IsInjective(rows)
           /\ rows = <<>> <=> Shown(v) = {}
           /\ rows # <<>> => rows[1] \in ToSet(rows)
<1> DEFINE R == {p \in Shown(v) \X Shown(v) : Earlier(v, p[1], p[2])}
<1>1. rows = InOrder(Shown(v), R)
  BY DEF Listed, Shown, Earlier
<1>2. IsFiniteSet(Shown(v)) /\ Cardinality(Shown(v)) \in Nat
  BY VolumeIs, FS_CardinalityType
<1>3. Orders(R, Shown(v))
  BY EarlierOrders
<1> HIDE DEF R
<1>4. /\ rows \in [1..Cardinality(Shown(v)) -> Shown(v)]
      /\ \A x \in Shown(v) : \E n \in 1..Cardinality(Shown(v)) : rows[n] = x
      /\ \A m, n \in 1..Cardinality(Shown(v)) : m < n => <<rows[m], rows[n]>> \in R
  BY <1>1, <1>2, <1>3, InOrderIs
<1>5. ToSet(rows) = Shown(v)
  BY <1>4 DEF ToSet
<1>6. \A m, n \in 1..Cardinality(Shown(v)) : m < n \/ n < m \/ m = n
  BY <1>2
<1>7. IsInjective(rows)
  BY <1>3, <1>4, <1>6 DEF IsInjective, Orders
<1>8. rows = <<>> <=> Cardinality(Shown(v)) = 0
  BY <1>2, <1>4
<1>9. Cardinality(Shown(v)) = 0 <=> Shown(v) = {}
  BY <1>2, FS_EmptySet
<1>a. Cardinality(Shown(v)) # 0 => rows[1] \in ToSet(rows)
  BY <1>2, <1>4 DEF ToSet
<1> QED
  BY <1>5, <1>7, <1>8, <1>9, <1>a

-----------------------------------------------------------------------------
(* Among natural numbers there is a least one.                              *)
LEMMA LeastNatural ==
    ASSUME NEW T \in SUBSET Nat, T # {}
    PROVE  /\ Min(T) \in T
           /\ \A n \in T : Min(T) <= n
<1>1. PICK m \in T : \A n \in T : <<n, m>> \notin OpToRel(<, Nat)
  BY NatLessThanWellFounded, WFMin
<1>2. ASSUME NEW n \in T
      PROVE  m <= n
  <2>1. m \in Nat /\ n \in Nat
    OBVIOUS
  <2>2. ~(n < m)
    BY <1>1, <2>1 DEF OpToRel
  <2> QED
    BY <2>1, <2>2
<1>3. \E l \in T : \A n \in T : l <= n
  BY <1>2
<1> QED
  BY <1>3, Zenon DEF Min

(* And below a bound there is a greatest one.                               *)
LEMMA GreatestNatural ==
    ASSUME NEW b \in Nat, NEW T \in SUBSET (0..b), T # {}
    PROVE  /\ Max(T) \in T
           /\ \A n \in T : n <= Max(T)
<1> DEFINE Bounds == {m \in Nat : \A n \in T : n <= m}
<1>1. b \in Bounds
  OBVIOUS
<1>2. PICK m \in Bounds : \A n \in Bounds : m <= n
  <2> HIDE DEF Bounds
  <2>1. Bounds \in SUBSET Nat
    BY DEF Bounds
  <2> QED
    BY <1>1, <2>1, LeastNatural
<1>3. m \in T
  <2>1. SUFFICES ASSUME m \notin T PROVE FALSE
    OBVIOUS
  <2>2. \A n \in T : n \in Nat /\ n <= m /\ n # m
    BY <2>1
  <2>3. m # 0 /\ m \in Nat
    <3>1. PICK n \in T : n \in Nat /\ n <= m /\ n # m
      BY <2>2
    <3>2. m \in Nat
      OBVIOUS
    <3> QED
      BY <3>1, <3>2
  <2>4. m - 1 \in Nat /\ \A n \in T : n <= m - 1
    BY <2>2, <2>3
  <2>5. m <= m - 1
    BY <1>2, <2>4
  <2> QED
    BY <2>3, <2>5
<1>4. \E l \in T : \A n \in T : l >= n
  BY <1>3
<1>5. Max(T) \in T /\ \A n \in T : Max(T) >= n
  BY <1>4, Zenon DEF Max
<1> QED
  BY <1>5

LEMMA FreeNameIs ==
    ASSUME NEW taken
    PROVE  FreeName(Candidates, taken) \in ToSet(Candidates)
<1> DEFINE free == {i \in 1..Len(Candidates) - 1 : Candidates[i] \notin taken}
<1>1. Len(Candidates) \in Nat /\ Len(Candidates) >= 1 /\ DOMAIN Candidates = 1..Len(Candidates)
  BY NameAssumption
<1>2. free \in SUBSET Nat /\ \A i \in free : i \in DOMAIN Candidates
  BY <1>1
<1>3. free # {} => Min(free) \in free
  <2> HIDE DEF free
  <2> QED
    BY <1>2, LeastNatural
<1>4. (IF free = {} THEN Len(Candidates) ELSE Min(free)) \in DOMAIN Candidates
  <2>1. Len(Candidates) \in DOMAIN Candidates
    BY <1>1
  <2> HIDE DEF free
  <2> QED
    BY <1>2, <1>3, <2>1
<1> QED
  BY <1>4 DEF FreeName, ToSet

-----------------------------------------------------------------------------
LEMMA RefreshTypes ==
    ASSUME TypeOK,
           NEW m \in BOOLEAN, NEW s \in {"scan", "away"}, Refresh(m, s)
    PROVE  /\ ToSet(list') \subseteq Names /\ IsInjective(list')
           /\ current' \in ToSet(list') \cup {NoName}
           /\ picked' \in Names \cup {NoName} /\ lost' \in BOOLEAN
           /\ current' = NoName <=> list' = <<>>
           /\ s = "scan" => button' = (current' # NoName)
           /\ ~m => complaint' /\ list' = <<>>
           /\ complaint' \in BOOLEAN
<1> DEFINE rows == IF m /\ volume # NoVolume THEN Listed(volume, Rank) ELSE <<>>
<1>1. /\ list' = rows /\ current' = Kept(rows) /\ complaint' = ~m
      /\ button' = (s = "scan" /\ rows # <<>>)
      /\ lost' = (lost \/ (picked # NoName /\ picked \notin ToSet(rows)))
      /\ picked' = picked
  BY DEF Refresh
<1>2. /\ ToSet(rows) \subseteq Names /\ IsInjective(rows)
      /\ rows # <<>> => rows[1] \in ToSet(rows)
  <2>1. CASE m /\ volume # NoVolume
    <3>1. volume \in Volumes /\ rows = Listed(volume, Rank)
      BY <2>1 DEF TypeOK
    <3>2. Shown(volume) \subseteq Names
      BY <3>1, VolumeIs DEF Shown
    <3> QED
      BY <3>1, <3>2, ListedIs
  <2>2. CASE ~(m /\ volume # NoVolume)
    BY <2>2 DEF ToSet, IsInjective
  <2> QED
    BY <2>1, <2>2
<1>3. ~m => rows = <<>>
  OBVIOUS
<1> HIDE DEF rows
<1>4. NoName \notin Names
  BY NameAssumption
<1>5. /\ current' \in ToSet(rows) \cup {NoName}
      /\ current' = NoName <=> rows = <<>>
  BY <1>1, <1>2, <1>4 DEF Kept
<1>6. lost' \in BOOLEAN /\ complaint' \in BOOLEAN
  BY <1>1, Zenon
<1>7. s = "scan" => button' = (current' # NoName)
  <2>1. CASE s = "scan" /\ rows # <<>>
    BY <1>1, <1>5, <2>1, Zenon
  <2>2. CASE s = "scan" /\ rows = <<>>
    BY <1>1, <1>5, <2>2
  <2> QED
    BY <2>1, <2>2
<1> QED
  BY <1>1, <1>2, <1>3, <1>5, <1>6, <1>7 DEF TypeOK

(* What was saved is what was typed, made fit, or what was proposed.        *)
SavedIsNamed == saved \subseteq TypedNames \cup ToSet(Candidates)

IInv == TypeOK /\ SavedIsNamed /\ SelectionIsKept

(* A list that is built anew has the row that was picked, or it is lost.    *)
LEMMA RefreshKeeps ==
    ASSUME NEW m, NEW s, SelectionIsKept, Refresh(m, s)
    PROVE  SelectionIsKept'
<1> DEFINE rows == IF m /\ volume # NoVolume THEN Listed(volume, Rank) ELSE <<>>
<1>1. /\ current' = Kept(rows)
      /\ lost' = (lost \/ (picked # NoName /\ picked \notin ToSet(rows)))
      /\ picked' = picked
  BY DEF Refresh
<1> HIDE DEF rows
<1>2. SUFFICES ASSUME picked' # NoName, ~lost'
               PROVE  current' = picked'
  BY DEF SelectionIsKept
<1>3. ~lost /\ picked \in ToSet(rows)
  BY <1>1, <1>2
<1>4. current = picked
  BY <1>1, <1>2, <1>3 DEF SelectionIsKept
<1>5. rows # <<>>
  BY <1>3 DEF ToSet
<1> QED
  BY <1>1, <1>3, <1>4, <1>5 DEF Kept

LEMMA SaveKeeps ==
    ASSUME IInv, NEW t \in Texts, Save(t)
    PROVE  /\ volume' \in Volumes /\ saved' \subseteq Present(volume')
           /\ SavedIsNamed'
<1> DEFINE typed == Sanitised(Trimmed(t), PsbtSuffix)
           name == IF typed = <<>> THEN FreeName(Candidates, DOMAIN volume)
                   ELSE typed
<1>1. /\ volume # NoVolume /\ Cardinality(DOMAIN volume) < MaxFiles
      /\ name \notin DOMAIN volume /\ saved' = saved \cup {name}
  BY DEF Save
<1>2. PICK x \in Times : volume' = [n \in DOMAIN volume \cup {name} |->
                                        IF n = name THEN x ELSE volume[n]]
  BY DEF Save
<1>3. typed # <<>> => typed \in TypedNames
  BY DEF TypedNames
<1>4. name \in TypedNames \cup ToSet(Candidates)
  BY <1>3, FreeNameIs
<1>5. name \in Names
  BY <1>4 DEF Names
<1> HIDE DEF name
<1>6. volume \in Volumes /\ saved \subseteq DOMAIN volume
  BY <1>1 DEF IInv, TypeOK, Present
<1>7. /\ volume \in [DOMAIN volume -> Times] /\ DOMAIN volume \subseteq Names
      /\ IsFiniteSet(DOMAIN volume)
  BY <1>6, VolumeIs
<1>8. volume' \in [DOMAIN volume \cup {name} -> Times]
  BY <1>2, <1>7
<1>9. Cardinality(DOMAIN volume \cup {name}) <= MaxFiles
  <2>1. Cardinality(DOMAIN volume \cup {name}) = Cardinality(DOMAIN volume) + 1
    BY <1>1, <1>7, FS_AddElement
  <2>2. Cardinality(DOMAIN volume) \in Nat /\ MaxFiles \in Nat
    BY VolumeAssumption, <1>7, FS_CardinalityType
  <2>3. Cardinality(DOMAIN volume) < MaxFiles
    BY <1>1
  <2> QED
    BY <2>1, <2>2, <2>3
<1>a. volume' \in Volumes
  BY <1>5, <1>7, <1>8, <1>9 DEF Volumes
<1>b. saved' \subseteq Present(volume')
  BY VolumeAssumption, <1>1, <1>6, <1>8, <1>a DEF Present
<1> QED
  BY <1>1, <1>4, <1>a, <1>b DEF IInv, SavedIsNamed

LEMMA InitIsInductive == Init => IInv
<1> SUFFICES ASSUME Init PROVE IInv
  OBVIOUS
<1>1. ToSet(list) = {} /\ IsInjective(list)
  BY DEF Init, ToSet, IsInjective
<1>2. TypeOK
  BY <1>1 DEF Init, TypeOK
<1> QED
  BY <1>2 DEF IInv, Init, SavedIsNamed, SelectionIsKept

LEMMA NextKeeps == IInv /\ [Next]_vars => IInv'
<1> SUFFICES ASSUME IInv, [Next]_vars PROVE IInv'
  OBVIOUS
<1> USE DEF IInv
<1>1. CASE Mount
  <2>1. /\ volume = NoVolume /\ volume' \in Volumes
        /\ UNCHANGED <<saved, mounted, screen, timer, list, current, button, complaint,
                       picked, lost>>
    BY <1>1 DEF Mount, widgets, choice
  <2>2. saved' = {}
    BY <2>1 DEF TypeOK, Present
  <2> QED
    BY <2>1, <2>2 DEF TypeOK, SavedIsNamed, SelectionIsKept
<1>2. CASE Unmount
  <2>1. /\ volume' = NoVolume /\ saved' = {}
        /\ UNCHANGED <<mounted, screen, timer, list, current, button, complaint,
                       picked, lost>>
    BY <1>2 DEF Unmount, widgets, choice
  <2> QED
    BY <2>1 DEF TypeOK, SavedIsNamed, SelectionIsKept
<1>3. ASSUME NEW t \in Texts, Save(t)
      PROVE  IInv'
  <2>1. UNCHANGED <<mounted, screen, timer, list, current, button, complaint, picked, lost>>
    BY <1>3 DEF Save, widgets, choice
  <2>2. /\ volume' \in Volumes /\ saved' \subseteq Present(volume')
        /\ SavedIsNamed'
    BY <1>3, SaveKeeps
  <2> QED
    BY <2>1, <2>2 DEF TypeOK, SelectionIsKept
<1>4. CASE PollDataMount
  <2>1. /\ UNCHANGED <<volume, saved, screen, timer>>
        /\ mounted' = (volume # NoVolume)
    BY <1>4 DEF PollDataMount, medium
  <2>2. mounted' \in BOOLEAN
    BY <2>1, Zenon
  <2>3. CASE mounted' # mounted
    <3>1. Refresh(mounted', screen)
      BY <1>4, <2>3 DEF PollDataMount
    <3>2. SelectionIsKept'
      BY <3>1, RefreshKeeps
    <3>3. screen \in {"scan", "away"}
      BY DEF TypeOK
    <3> QED
      BY <2>1, <2>2, <3>1, <3>2, <3>3, RefreshTypes DEF TypeOK, SavedIsNamed
  <2>4. CASE mounted' = mounted
    <3>1. UNCHANGED <<list, current, button, complaint, picked, lost>>
      BY <1>4, <2>4 DEF PollDataMount, widgets, choice
    <3> QED
      BY <2>1, <2>4, <3>1 DEF TypeOK, SavedIsNamed, SelectionIsKept
  <2> QED
    BY <2>3, <2>4
<1>5. CASE AutoRefresh \/ Enter
  <2>1. /\ Refresh(mounted, screen') /\ screen' \in {"scan", "away"}
        /\ UNCHANGED <<volume, saved, mounted>>
        /\ timer' \in BOOLEAN
        /\ screen' = "scan" => timer'
    BY <1>5 DEF AutoRefresh, Enter, medium, TypeOK
  <2>2. SelectionIsKept'
    BY <2>1, RefreshKeeps
  <2>3. mounted \in BOOLEAN
    BY DEF TypeOK
  <2>4. /\ ToSet(list') \subseteq Names /\ IsInjective(list')
        /\ current' \in ToSet(list') \cup {NoName}
        /\ picked' \in Names \cup {NoName} /\ lost' \in BOOLEAN
        /\ current' = NoName <=> list' = <<>>
        /\ screen' = "scan" => button' = (current' # NoName)
        /\ ~mounted => complaint' /\ list' = <<>>
        /\ complaint' \in BOOLEAN
    BY <2>1, <2>3, RefreshTypes
  <2> QED
    BY <2>1, <2>2, <2>4 DEF TypeOK, SavedIsNamed
<1>6. CASE Leave
  BY <1>6 DEF Leave, medium, widgets, choice, TypeOK,
              SavedIsNamed, SelectionIsKept
<1>7. ASSUME NEW n \in Names, Pick(n)
      PROVE  IInv'
  <2>1. /\ screen = "scan" /\ n \in ToSet(list) /\ current' = n /\ picked' = n
        /\ lost' = FALSE /\ button' = TRUE
        /\ UNCHANGED <<volume, saved, mounted, screen, timer, list, complaint>>
    BY <1>7 DEF Pick, medium
  <2>2. n # NoName /\ list # <<>>
    BY NameAssumption, <2>1 DEF ToSet
  <2> QED
    BY <2>1, <2>2 DEF TypeOK, SavedIsNamed, SelectionIsKept
<1>8. CASE OpenSelected
  <2>1. /\ UNCHANGED <<volume, saved, mounted, list, current, button, picked, lost>>
        /\ \/ complaint' = TRUE /\ UNCHANGED <<screen, timer>>
           \/ complaint' = FALSE /\ screen' = "away" /\ timer' = FALSE
    BY <1>8 DEF OpenSelected, medium, choice
  <2> QED
    BY <2>1 DEF TypeOK, SavedIsNamed, SelectionIsKept
<1>9. CASE UNCHANGED vars
  BY <1>9 DEF vars, medium, widgets, choice, TypeOK,
              SavedIsNamed, SelectionIsKept
<1> QED
  BY <1>1, <1>2, <1>3, <1>4, <1>5, <1>6, <1>7, <1>8, <1>9 DEF Next, Stick

-----------------------------------------------------------------------------
(* r is what stands in s from the place after d on, or a part of it.        *)
IsSlice(r, s, d) ==
    /\ r \in Seq(STRING) /\ d \in Nat /\ d + Len(r) <= Len(s)
    /\ \A i \in 1..Len(r) : r[i] = s[d + i]

LEMMA SubSeqIsSlice ==
    ASSUME NEW s \in Seq(STRING), NEW d \in 0..Len(s), NEW e \in d..Len(s)
    PROVE  IsSlice(SubSeq(s, d + 1, e), s, d) /\ Len(SubSeq(s, d + 1, e)) = e - d
<1>1. Len(s) \in Nat /\ \A i \in d + 1..e : s[i] \in STRING
  OBVIOUS
<1>2. d + 1 \in Int /\ e \in Int /\ d \in Nat
  BY <1>1
<1>3. /\ SubSeq(s, d + 1, e) \in Seq(STRING)
      /\ Len(SubSeq(s, d + 1, e)) = IF d + 1 <= e THEN e - (d + 1) + 1 ELSE 0
      /\ \A i \in 1..e - (d + 1) + 1 : SubSeq(s, d + 1, e)[i] = s[d + 1 + i - 1]
  BY <1>1, <1>2, SubSeqProperties
<1>4. Len(SubSeq(s, d + 1, e)) = e - d
  BY <1>1, <1>3
<1>5. \A i \in 1..e - d : SubSeq(s, d + 1, e)[i] = s[d + i]
  BY <1>1, <1>2, <1>3
<1> QED
  BY <1>1, <1>2, <1>3, <1>4, <1>5 DEF IsSlice

LEMMA EmptyIsSlice ==
    ASSUME NEW s \in Seq(STRING)
    PROVE  IsSlice(<<>>, s, 0)
BY DEF IsSlice

LEMMA SliceOfSlice ==
    ASSUME NEW q, NEW r, NEW s \in Seq(STRING), NEW d, NEW e,
           IsSlice(q, r, d), IsSlice(r, s, e)
    PROVE  IsSlice(q, s, e + d)
<1>1. Len(q) \in Nat /\ Len(r) \in Nat /\ Len(s) \in Nat /\ d \in Nat /\ e \in Nat
  BY DEF IsSlice
<1>2. ASSUME NEW i \in 1..Len(q) PROVE q[i] = s[(e + d) + i]
  <2>1. d + i \in 1..Len(r) /\ e + (d + i) = (e + d) + i
    BY <1>1 DEF IsSlice
  <2>2. q[i] = r[d + i] /\ r[d + i] = s[e + (d + i)]
    BY <2>1 DEF IsSlice
  <2> QED
    BY <2>1, <2>2
<1> QED
  BY <1>1, <1>2 DEF IsSlice

(* Marks are taken off the front up to the first that stays.                *)
LEMMA DropFrontIs ==
    ASSUME NEW s \in Seq(STRING), NEW M, NEW r, r = DropFront(s, M)
    PROVE  \E d \in Nat :
             /\ IsSlice(r, s, d)
             /\ r # <<>> => /\ r[1] \notin M
                            /\ \A i \in 1..d : s[i] \in M
<1> DEFINE keep == {i \in DOMAIN s : s[i] \notin M}
<1>1. Len(s) \in Nat /\ DOMAIN s = 1..Len(s)
  OBVIOUS
<1>2. CASE keep = {}
  <2>1. r = <<>>
    BY <1>2 DEF DropFront
  <2> QED
    BY <2>1, EmptyIsSlice
<1>3. CASE keep # {}
  <2> DEFINE m == Min(keep)
  <2>1. m \in keep /\ \A n \in keep : m <= n
    <3>1. keep \in SUBSET Nat
      BY <1>1
    <3> HIDE DEF keep
    <3> QED
      BY <1>3, <3>1, LeastNatural
  <2>2. r = SubSeq(s, m, Len(s))
    BY <1>3 DEF DropFront
  <2> HIDE DEF m
  <2>3. m \in 1..Len(s) /\ s[m] \notin M
    BY <1>1, <2>1
  <2>4. ASSUME NEW i \in 1..m - 1
        PROVE  s[i] \in M
    <3>1. i \in DOMAIN s /\ ~(m <= i)
      BY <1>1, <2>3
    <3> QED
      BY <2>1, <3>1
  <2>5. m - 1 \in Nat /\ m - 1 \in 0..Len(s) /\ Len(s) \in m - 1..Len(s) /\ (m - 1) + 1 = m
    BY <1>1, <2>3
  <2>6. IsSlice(SubSeq(s, (m - 1) + 1, Len(s)), s, m - 1)
        /\ Len(SubSeq(s, (m - 1) + 1, Len(s))) = Len(s) - (m - 1)
    BY <2>5, SubSeqIsSlice
  <2>7. IsSlice(r, s, m - 1) /\ Len(r) = Len(s) - (m - 1)
    BY <2>2, <2>5, <2>6
  <2>8. 1 \in 1..Len(r)
    BY <1>1, <2>3, <2>7
  <2>9. r[1] = s[m]
    BY <2>5, <2>7, <2>8 DEF IsSlice
  <2> QED
    BY <2>3, <2>4, <2>5, <2>7, <2>9
<1> QED
  BY <1>2, <1>3

LEMMA DropBackIs ==
    ASSUME NEW s \in Seq(STRING), NEW M
    PROVE  IsSlice(DropBack(s, M), s, 0)
<1> DEFINE keep == {i \in DOMAIN s : s[i] \notin M}
<1>1. Len(s) \in Nat /\ DOMAIN s = 1..Len(s)
  OBVIOUS
<1>2. CASE keep = {}
  BY <1>2, EmptyIsSlice DEF DropBack
<1>3. CASE keep # {}
  <2> DEFINE m == Max(keep)
  <2>1. m \in keep
    <3>1. keep \in SUBSET (0..Len(s))
      BY <1>1
    <3> HIDE DEF keep
    <3> QED
      BY <1>1, <1>3, <3>1, GreatestNatural
  <2>a. DropBack(s, M) = SubSeq(s, 1, m)
    BY <1>3 DEF DropBack
  <2>2. DropBack(s, M) = SubSeq(s, 0 + 1, m)
    BY <2>a
  <2>3. 0 \in 0..Len(s) /\ m \in 0..Len(s)
    BY <1>1, <2>1
  <2> HIDE DEF m
  <2> QED
    BY <2>2, <2>3, SubSeqIsSlice
<1> QED
  BY <1>2, <1>3

LEMMA AfterLastSlashIs ==
    ASSUME NEW s \in Seq(STRING)
    PROVE  \E d \in Nat : /\ IsSlice(AfterLastSlash(s), s, d)
                         /\ \A i \in 1..Len(s) : s[i] = Slash => i <= d
<1> DEFINE slashes == {i \in 1..Len(s) : s[i] = Slash}
           last == IF slashes # {} THEN Max(slashes) ELSE 0
<1>1. Len(s) \in Nat
  OBVIOUS
<1>2. AfterLastSlash(s) = SubSeq(s, last + 1, Len(s))
  BY DEF AfterLastSlash, SelectLastInSeq
<1>3. last \in 0..Len(s) /\ \A i \in slashes : i <= last
  <2>1. slashes \in SUBSET (0..Len(s))
    BY <1>1
  <2>2. slashes # {} => Max(slashes) \in slashes /\ \A i \in slashes : i <= Max(slashes)
    <3> HIDE DEF slashes
    <3> QED
      BY <1>1, <2>1, GreatestNatural
  <2>3. 0 \in 0..Len(s)
    BY <1>1
  <2> HIDE DEF slashes
  <2> QED
    BY <2>1, <2>2, <2>3
<1> HIDE DEF last
<1>4. Len(s) \in last..Len(s) /\ last \in Nat
  BY <1>1, <1>3
<1>5. IsSlice(AfterLastSlash(s), s, last)
  BY <1>2, <1>3, <1>4, SubSeqIsSlice
<1> QED
  BY <1>3, <1>4, <1>5

LEMMA AscendingIs ==
    ASSUME NEW b \in Nat, NEW S \in SUBSET (1..b), NEW f, f = Ascending(S)
    PROVE  /\ Cardinality(S) \in Nat
           /\ f \in [1..Cardinality(S) -> S]
           /\ \A x \in S : \E n \in 1..Cardinality(S) : f[n] = x
           /\ \A m, n \in 1..Cardinality(S) : m < n => f[m] < f[n]
<1> DEFINE R == {p \in S \X S : p[1] < p[2]}
<1>1. IsFiniteSet(S)
  <2>1. IsFiniteSet(1..b)
    BY FS_Interval
  <2> QED
    BY <2>1, FS_Subset
<1>2. \A x \in S : x \in Nat
  OBVIOUS
<1>3. Orders(R, S)
  BY <1>2 DEF Orders
<1>4. f = InOrder(S, R)
  BY DEF Ascending
<1>5. /\ f \in [1..Cardinality(S) -> S]
      /\ \A x \in S : \E n \in 1..Cardinality(S) : f[n] = x
      /\ \A m, n \in 1..Cardinality(S) : m < n => <<f[m], f[n]>> \in R
  <2> HIDE DEF R
  <2> QED
    BY <1>1, <1>3, <1>4, InOrderIs
<1>6. \A m, n \in 1..Cardinality(S) : m < n => f[m] < f[n]
  BY <1>5
<1> QED
  BY <1>1, <1>5, <1>6, FS_CardinalityType

(* The marks of r from n on stood in s in this order, with only marks of M  *)
(* between the two.                                                         *)
CameTogether(r, n, s, M) ==
    \E i, j \in 1..Len(s) :
        /\ i < j /\ r[n] = s[i] /\ r[n + 1] = s[j]
        /\ \A k \in i + 1..j - 1 : s[k] \in M

LEMMA WithoutIs ==
    ASSUME NEW s \in Seq(STRING), NEW M, NEW r, r = Without(s, M)
    PROVE  /\ r \in Seq(STRING)
           /\ \A n \in 1..Len(r) : r[n] \notin M /\ \E i \in 1..Len(s) : r[n] = s[i]
           /\ \A n \in 1..Len(r) - 1 : CameTogether(r, n, s, M)
<1> DEFINE keep == {i \in DOMAIN s : s[i] \notin M}
           places == Ascending(keep)
           size == Cardinality(keep)
<1>1. Len(s) \in Nat /\ DOMAIN s = 1..Len(s)
  OBVIOUS
<1>2. keep \in SUBSET (1..Len(s))
  BY <1>1
<1>3. r = [n \in 1..size |-> s[places[n]]]
  BY DEF Without, AtPlaces
<1>4. \A k \in 1..Len(s) : k \in keep <=> s[k] \notin M
  BY <1>1
<1> HIDE DEF keep
<1>5. /\ size \in Nat /\ places \in [1..size -> keep]
      /\ \A x \in keep : \E n \in 1..size : places[n] = x
      /\ \A m, n \in 1..size : m < n => places[m] < places[n]
  BY <1>1, <1>2, AscendingIs
<1> HIDE DEF places, size
<1>6. \A n \in 1..size : places[n] \in 1..Len(s)
  BY <1>2, <1>5
<1>7. r \in [1..size -> STRING]
  BY <1>1, <1>3, <1>6
<1>8. r \in Seq(STRING) /\ Len(r) = size
  BY <1>5, <1>7
<1>a. ASSUME NEW n \in 1..Len(r)
      PROVE  r[n] \notin M /\ \E i \in 1..Len(s) : r[n] = s[i]
  <2>1. r[n] = s[places[n]] /\ places[n] \in keep /\ places[n] \in 1..Len(s)
    BY <1>3, <1>5, <1>6, <1>8
  <2> QED
    BY <1>4, <2>1
<1>9. ASSUME NEW n \in 1..Len(r) - 1
      PROVE  CameTogether(r, n, s, M)
  <2> DEFINE i == places[n]
             j == places[n + 1]
  <2>1. n \in 1..size /\ n + 1 \in 1..size /\ n < n + 1
    BY <1>5, <1>8
  <2>2. i \in 1..Len(s) /\ j \in 1..Len(s) /\ i < j /\ r[n] = s[i] /\ r[n + 1] = s[j]
    BY <1>3, <1>5, <1>6, <2>1
  <2> HIDE DEF i, j
  <2>3. ASSUME NEW k \in i + 1..j - 1, s[k] \notin M
        PROVE  FALSE
    <3>1. k \in 1..Len(s) /\ i < k /\ k < j
      BY <1>1, <2>2
    <3>2. PICK m \in 1..size : places[m] = k
      BY <1>4, <1>5, <2>3, <3>1
    <3>3. ~(k < i) /\ ~(j < k) /\ k # i /\ k # j
      BY <1>1, <2>2, <3>1
    <3>4. ~(m < n) /\ ~(n + 1 < m) /\ m # n /\ m # n + 1
      BY <1>5, <2>1, <3>2, <3>3 DEF i, j
    <3> QED
      BY <1>5, <2>1, <3>4
  <2> QED
    BY <2>2, <2>3 DEF CameTogether
<1> QED
  BY <1>8, <1>9, <1>a

(* A blank with a dot somewhere behind it, and only unwanted marks between. *)
BlankThenDot(s, i, j) ==
    /\ i < j /\ s[i] = Blank /\ s[j] = Dot
    /\ \A k \in i + 1..j - 1 : s[k] \in Unwanted

LEMMA CleanedIs ==
    ASSUME NEW s \in Seq(STRING), s # <<>> => s[1] # Blank,
           NEW r, r = Cleaned(s)
    PROVE  /\ r \in Seq(STRING)
           /\ r # <<>> /\ r[1] = Dot =>
                 \E i, j \in 2..Len(s) : BlankThenDot(s, i, j)
<1> DEFINE tail == AfterLastSlash(s)
           base == Without(tail, Unwanted)
           dotless == DropFront(base, {Dot})
           front == DropBack(dotless, {Blank, Dot})
<1>1. PICK a \in Nat : IsSlice(tail, s, a)
  BY AfterLastSlashIs
<1>2. r = DropFront(front, {Blank})
  BY DEF Cleaned
<1> HIDE DEF tail
<1>3. tail \in Seq(STRING)
  BY <1>1 DEF IsSlice
<1>4. /\ base \in Seq(STRING)
      /\ \A n \in 1..Len(base) - 1 : CameTogether(base, n, tail, Unwanted)
  <2>1. base = Without(tail, Unwanted)
    OBVIOUS
  <2> HIDE DEF base
  <2> QED
    BY <1>3, <2>1, WithoutIs
<1> HIDE DEF base
<1>5. PICK d \in Nat : /\ IsSlice(dotless, base, d)
                       /\ dotless # <<>> => dotless[1] \notin {Dot}
  BY <1>4, DropFrontIs
<1> HIDE DEF dotless
<1>6. IsSlice(front, dotless, 0)
  BY <1>5, DropBackIs DEF IsSlice
<1> HIDE DEF front
<1>7. PICK f \in Nat : /\ IsSlice(r, front, f)
                       /\ r # <<>> => \A i \in 1..f : front[i] \in {Blank}
  <2>1. front \in Seq(STRING)
    BY <1>6 DEF IsSlice
  <2> QED
    BY <1>2, <2>1, DropFrontIs
<1>8. r \in Seq(STRING)
  BY <1>7 DEF IsSlice
<1>9. ASSUME r # <<>>, r[1] = Dot
      PROVE  \E i, j \in 2..Len(s) : BlankThenDot(s, i, j)
  <2>1. /\ Len(r) \in Nat /\ Len(front) \in Nat /\ Len(dotless) \in Nat
        /\ Len(base) \in Nat /\ Len(tail) \in Nat /\ Len(s) \in Nat
    BY <1>3, <1>4, <1>5, <1>6, <1>8 DEF IsSlice
  <2>2. 1 \in 1..Len(r)
    BY <1>8, <1>9
  <2>3. f + 1 \in 1..Len(front) /\ front[f + 1] = Dot
    BY <1>7, <1>9, <2>1, <2>2 DEF IsSlice
  <2>4. /\ \A i \in 1..Len(front) : front[i] = dotless[i]
        /\ Len(front) <= Len(dotless)
    BY <1>6, <2>1 DEF IsSlice
  <2>5. f + 1 \in 1..Len(dotless) /\ dotless[f + 1] = Dot
    BY <2>1, <2>3, <2>4
  <2>6. f # 0
    <3>1. dotless # <<>>
      BY <2>1, <2>5
    <3>2. dotless[1] # Dot
      BY <1>5, <3>1
    <3> QED
      BY <2>5, <3>2
  <2>7. f \in 1..f /\ f \in 1..Len(front) /\ f \in 1..Len(dotless)
    BY <2>1, <2>3, <2>5, <2>6
  <2>8. dotless[f] = Blank
    BY <1>7, <1>9, <2>4, <2>7
  <2>9. /\ base[d + f] = Blank /\ base[d + (f + 1)] = Dot
        /\ d + Len(dotless) <= Len(base)
    <3>1. /\ \A k \in 1..Len(dotless) : dotless[k] = base[d + k]
          /\ d + Len(dotless) <= Len(base)
      BY <1>5 DEF IsSlice
    <3>2. dotless[f] = base[d + f] /\ dotless[f + 1] = base[d + (f + 1)]
      BY <2>5, <2>7, <3>1
    <3>3. base[d + f] = Blank
      BY <2>8, <3>2, Zenon
    <3>4. base[d + (f + 1)] = Dot
      BY <2>5, <3>2, Zenon
    <3> QED
      BY <3>1, <3>3, <3>4, Zenon
  <2>a. d + f \in 1..Len(base) - 1 /\ (d + f) + 1 = d + (f + 1)
    BY <2>1, <2>5, <2>7, <2>9
  <2>b. PICK i \in 1..Len(tail), j \in 1..Len(tail) : BlankThenDot(tail, i, j)
    <3>1. PICK i \in 1..Len(tail), j \in 1..Len(tail) :
             /\ i < j /\ base[d + f] = tail[i] /\ base[(d + f) + 1] = tail[j]
             /\ \A k \in i + 1..j - 1 : tail[k] \in Unwanted
      BY <1>4, <2>a DEF CameTogether
    <3>2. BlankThenDot(tail, i, j)
      BY <2>9, <2>a, <3>1 DEF BlankThenDot
    <3> QED
      BY <3>2
  <2>c. /\ a + Len(tail) <= Len(s)
        /\ \A k \in 1..Len(tail) : tail[k] = s[a + k]
    BY <1>1 DEF IsSlice
  <2>d. s[a + i] = Blank /\ s[a + j] = Dot /\ a + i < a + j
    BY <2>1, <2>b, <2>c, SMTT(30) DEF BlankThenDot
  <2>e. ASSUME NEW k \in a + i + 1..a + j - 1
        PROVE  s[k] \in Unwanted
    <3>1. k - a \in i + 1..j - 1 /\ k - a \in 1..Len(tail) /\ a + (k - a) = k
      BY <2>1, <2>b
    <3>2. tail[k - a] \in Unwanted
      BY <2>b, <3>1 DEF BlankThenDot
    <3> QED
      BY <2>c, <3>1, <3>2
  <2>f. a + i \in 1..Len(s) /\ a + j \in 1..Len(s)
    BY <2>1, <2>b, <2>c
  <2>g. s[1] # Blank
    <3>1. s # <<>>
      BY <2>f
    <3> QED
      BY <3>1
  <2>h. a + i # 1
    BY <2>d, <2>g
  <2>i. a + i \in 2..Len(s) /\ a + j \in 2..Len(s)
    BY <2>1, <2>d, <2>f, <2>h
  <2>j. BlankThenDot(s, a + i, a + j)
    BY <2>d, <2>e DEF BlankThenDot
  <2> QED
    BY <2>i, <2>j
<1> QED
  BY <1>8, <1>9

LEMMA TrimmedIs ==
    ASSUME NEW s \in Seq(STRING), NEW r, r = Trimmed(s)
    PROVE  /\ \E d \in Nat : IsSlice(r, s, d)
           /\ r # <<>> => r[1] # Blank
<1> DEFINE front == DropBack(s, {Blank})
<1>1. r = DropFront(front, {Blank})
  BY DEF Trimmed
<1> HIDE DEF front
<1>2. IsSlice(front, s, 0)
  BY DropBackIs DEF front
<1>3. front \in Seq(STRING)
  BY <1>2 DEF IsSlice
<1>4. PICK d \in Nat : /\ IsSlice(r, front, d)
                       /\ r # <<>> => r[1] \notin {Blank}
  BY <1>1, <1>3, DropFrontIs
<1>5. IsSlice(r, s, 0 + d)
  BY <1>2, <1>3, <1>4, SliceOfSlice
<1>6. 0 + d \in Nat
  BY <1>4
<1>7. \E e \in Nat : IsSlice(r, s, e)
  BY <1>5, <1>6
<1> QED
  BY <1>4, <1>7

(* A name gets its suffix, unless it has it.                                *)
LEMMA SuffixIsThere ==
    ASSUME NEW M, NEW out \in Seq(M), out # <<>>, NEW suffix \in Seq(M),
           NEW n, n = IF HasSuffix(out, suffix) THEN out ELSE out \o suffix
    PROVE  /\ n \in Seq(M) /\ n[1] = out[1] /\ Head(n) = n[1]
           /\ HasSuffix(n, suffix)
           /\ \A i \in 1..Len(n) : \/ i <= Len(out) /\ n[i] = out[i]
                                   \/ \E k \in 1..Len(suffix) : n[i] = suffix[k]
<1>1. Len(out) \in Nat \ {0} /\ Len(suffix) \in Nat
  OBVIOUS
<1>2. CASE HasSuffix(out, suffix)
  BY <1>1, <1>2
<1>3. CASE ~HasSuffix(out, suffix)
  <2>1. n = out \o suffix
    BY <1>3
  <2>2. /\ n \in Seq(M) /\ Len(n) = Len(out) + Len(suffix)
        /\ \A i \in 1..Len(out) + Len(suffix) :
              n[i] = IF i <= Len(out) THEN out[i] ELSE suffix[i - Len(out)]
    BY <2>1, ConcatProperties
  <2>3. n[1] = out[1] /\ Head(n) = n[1]
    BY <1>1, <2>2
  <2> DEFINE back == SubSeq(n, Len(n) - Len(suffix) + 1, Len(n))
  <2>4. Len(n) - Len(suffix) + 1 = Len(out) + 1
    BY <1>1, <2>2
  <2>5. back = SubSeq(n, Len(out) + 1, Len(out) + Len(suffix))
    BY <2>2, <2>4
  <2>6. \A i \in Len(out) + 1..Len(out) + Len(suffix) : n[i] \in M
    BY <1>1, <2>2
  <2>7. Len(out) + 1 \in Int /\ Len(out) + Len(suffix) \in Int
    BY <1>1
  <2> HIDE DEF back
  <2>8. /\ back \in Seq(M)
        /\ Len(back) = IF Len(out) + 1 <= Len(out) + Len(suffix)
                       THEN (Len(out) + Len(suffix)) - (Len(out) + 1) + 1 ELSE 0
        /\ \A i \in 1..(Len(out) + Len(suffix)) - (Len(out) + 1) + 1 :
              back[i] = n[Len(out) + 1 + i - 1]
    BY <2>5, <2>6, <2>7, SubSeqProperties
  <2>9. Len(back) = Len(suffix)
    BY <1>1, <2>8
  <2>a. ASSUME NEW i \in 1..Len(suffix)
        PROVE  back[i] = suffix[i]
    <3>0. /\ i \in 1..(Len(out) + Len(suffix)) - (Len(out) + 1) + 1
          /\ Len(out) + 1 + i - 1 = Len(out) + i
      BY <1>1
    <3>1. back[i] = n[Len(out) + i] /\ Len(out) + i \in 1..Len(out) + Len(suffix)
      <4>1. back[i] = n[Len(out) + 1 + i - 1]
        BY <2>8, <3>0, Zenon
      <4> QED
        BY <1>1, <3>0, <4>1
    <3>2. ~(Len(out) + i <= Len(out)) /\ (Len(out) + i) - Len(out) = i
      BY <1>1
    <3> QED
      BY <2>2, <3>1, <3>2
  <2>b. back = suffix
    BY <2>8, <2>9, <2>a, SeqEqual
  <2>c. Len(n) > Len(suffix)
    BY <1>1, <2>2
  <2>d. ASSUME NEW i \in 1..Len(n), ~(i <= Len(out))
        PROVE  \E k \in 1..Len(suffix) : n[i] = suffix[k]
    <3>1. i - Len(out) \in 1..Len(suffix) /\ n[i] = suffix[i - Len(out)]
      BY <1>1, <2>2, <2>d
    <3> QED
      BY <3>1
  <2> QED
    BY <1>1, <2>2, <2>3, <2>b, <2>c, <2>d DEF HasSuffix, back
<1> QED
  BY <1>2, <1>3

(* A name that was made fit is that of a transaction, but for a dot that    *)
(* came to stand at its head.                                               *)
LEMMA TypedNameIs ==
    ASSUME NEW t \in Seq(STRING),
           NEW n, n = Sanitised(Trimmed(t), PsbtSuffix), n # <<>>
    PROVE  \/ IsPsbtName(n)
           \/ /\ Head(n) = Dot
              /\ \E i, j \in 2..Len(t) : BlankThenDot(t, i, j)
<1> DEFINE u == Trimmed(t)
           out == Cleaned(u)
           suffix == PsbtSuffix
<1>1. PICK d \in Nat : IsSlice(u, t, d)
  BY TrimmedIs
<1>2. u \in Seq(STRING) /\ (u # <<>> => u[1] # Blank)
  BY <1>1, TrimmedIs DEF IsSlice
<1>3. n = IF out = <<>> \/ HasSuffix(out, suffix) THEN out ELSE out \o suffix
  BY DEF Sanitised
<1> HIDE DEF u
<1>4. /\ out \in Seq(STRING)
      /\ out # <<>> /\ out[1] = Dot =>
            \E i, j \in 2..Len(u) : BlankThenDot(u, i, j)
  BY <1>2, CleanedIs
<1> HIDE DEF out
<1> DEFINE Mark == STRING \cup {".", "psbt"}
<1>5. suffix \in Seq(Mark) /\ Len(suffix) = 2 /\ out \in Seq(Mark)
  <2>1. suffix = <<".", "psbt">>
    BY DEF PsbtSuffix, Dot
  <2>2. "." \in Mark /\ "psbt" \in Mark
    OBVIOUS
  <2>3. ASSUME NEW S, NEW x \in S, NEW y \in S
        PROVE  <<x, y>> \in Seq(S) /\ Len(<<x, y>>) = 2
    OBVIOUS
  <2>4. \A i \in 1..Len(out) : out[i] \in Mark
    BY <1>4
  <2> HIDE DEF Mark, suffix
  <2>5. out \in Seq(Mark)
    BY <1>4, <2>4
  <2> QED
    BY <2>1, <2>2, <2>3, <2>5
<1> HIDE DEF Mark
<1> HIDE DEF suffix
<1>6. out # <<>>
  BY <1>3
<1>8. /\ n \in Seq(Mark) /\ n[1] = out[1] /\ Head(n) = n[1]
      /\ HasSuffix(n, suffix)
  <2>1. n = IF HasSuffix(out, suffix) THEN out ELSE out \o suffix
    BY <1>3, <1>6
  <2>2. n \in Seq(Mark)
    BY <1>5, <1>6, <2>1, SuffixIsThere
  <2>3. HasSuffix(n, suffix)
    BY <1>5, <1>6, <2>1, SuffixIsThere
  <2>4. n[1] = out[1]
    BY <1>5, <1>6, <2>1, SuffixIsThere
  <2>5. Head(n) = n[1]
    BY <1>5, <1>6, <2>1, SuffixIsThere
  <2> QED
    BY <2>2, <2>3, <2>4, <2>5
<1>9. CASE Head(n) # Dot
  <2>1. IsPsbtName(n)
    BY <1>8, <1>9 DEF IsPsbtName, suffix
  <2> QED
    BY <2>1
<1>a. CASE Head(n) = Dot
  <2>1. PICK i \in 2..Len(u), j \in 2..Len(u) : BlankThenDot(u, i, j)
    BY <1>4, <1>6, <1>8, <1>a
  <2>2. /\ Len(u) \in Nat /\ Len(t) \in Nat /\ d + Len(u) <= Len(t)
        /\ \A k \in 1..Len(u) : u[k] = t[d + k]
    <3>1. Len(u) \in Nat /\ Len(t) \in Nat
      BY <1>2
    <3>2. d + Len(u) <= Len(t)
      BY <1>1, Zenon DEF IsSlice
    <3>3. \A k \in 1..Len(u) : u[k] = t[d + k]
      BY <1>1, Zenon DEF IsSlice
    <3> QED
      BY <3>1, <3>2, <3>3
  <2>3. d + i \in 2..Len(t) /\ d + j \in 2..Len(t)
    BY <2>2
  <2>4. BlankThenDot(t, d + i, d + j)
    <3>1. d + i < d + j /\ t[d + i] = Blank /\ t[d + j] = Dot
      BY <2>1, <2>2 DEF BlankThenDot
    <3>2. ASSUME NEW k \in d + i + 1..d + j - 1
          PROVE  t[k] \in Unwanted
      <4>1. k - d \in i + 1..j - 1 /\ k - d \in 1..Len(u) /\ d + (k - d) = k
        BY <2>2
      <4>2. u[k - d] \in Unwanted
        BY <2>1, <4>1 DEF BlankThenDot
      <4> QED
        BY <2>2, <4>1, <4>2
    <3> QED
      BY <3>1, <3>2 DEF BlankThenDot
  <2> QED
    BY <1>a, <2>3, <2>4
<1> QED
  BY <1>9, <1>a

LEMMA SavedAreListed ==
    ASSUME IInv
    PROVE  SavedIsListed
<1> SUFFICES ASSUME NEW n \in saved, n \notin ToSet(Listed(volume, Rank))
             PROVE  /\ Head(n) = Dot
                    /\ \A t \in Texts :
                          Sanitised(Trimmed(t), PsbtSuffix) = n =>
                             \E i, j \in 2..Len(t) : BlankThenDot(t, i, j)
  BY DEF SavedIsListed, BlankThenDot
<1>1. volume \in Volumes /\ n \in DOMAIN volume
  BY DEF IInv, TypeOK, Present
<1>2. ~IsPsbtName(n)
  BY <1>1, ListedIs DEF Shown
<1>3. n \notin ToSet(Candidates)
  BY NameAssumption, <1>2
<1>4. n \in TypedNames
  BY <1>3 DEF IInv, SavedIsNamed
<1>5. \A t \in Texts : t \in Seq(STRING)
  BY NameAssumption
<1>6. n # <<>> /\ \E t \in Texts : n = Sanitised(Trimmed(t), PsbtSuffix)
  BY <1>4 DEF TypedNames
<1> QED
  BY <1>2, <1>5, <1>6, TypedNameIs

-----------------------------------------------------------------------------
LEMMA Invariance == Spec => []IInv
BY InitIsInductive, NextKeeps, PTL DEF Spec

(* The list, its current row and the button agree, whatever volume comes    *)
(* and goes between two looks.                                              *)
THEOREM TypeCorrect == Spec => []TypeOK
<1>1. IInv => TypeOK
  BY DEF IInv
<1> QED
  BY <1>1, Invariance, PTL

(* The current row is the one that was picked.                              *)
THEOREM PickStands == Spec => []SelectionIsKept
<1>1. IInv => SelectionIsKept
  BY DEF IInv
<1> QED
  BY <1>1, Invariance, PTL

(* What was saved is listed, under whatever was typed.                      *)
THEOREM SavedIsFound == Spec => []SavedIsListed
<1>1. IInv => SavedIsListed
  BY SavedAreListed
<1> QED
  BY <1>1, Invariance, PTL

-----------------------------------------------------------------------------
(***************************************************************************)
(* Names, for every text and every list there is                           *)
(***************************************************************************)

(* A mark of a slice is one of what it was cut from.                        *)
LEMMA SliceMarks ==
    ASSUME NEW s \in Seq(STRING), NEW d, NEW r, IsSlice(r, s, d)
    PROVE  \A i \in 1..Len(r) : d + i \in 1..Len(s) /\ r[i] = s[d + i]
<1>1. Len(r) \in Nat /\ Len(s) \in Nat /\ d \in Nat /\ d + Len(r) <= Len(s)
  BY DEF IsSlice
<1>2. \A i \in 1..Len(r) : r[i] = s[d + i]
  BY Zenon DEF IsSlice
<1> QED
  BY <1>1, <1>2

LEMMA CleanedMarks ==
    ASSUME NEW s \in Seq(STRING), NEW r, r = Cleaned(s)
    PROVE  /\ r \in Seq(STRING)
           /\ \A i \in 1..Len(r) : r[i] # Slash /\ r[i] \notin Unwanted
           /\ r # <<>> => r[1] # Blank
<1> DEFINE tail == AfterLastSlash(s)
           base == Without(tail, Unwanted)
           dotless == DropFront(base, {Dot})
           front == DropBack(dotless, {Blank, Dot})
           Fit(q) == /\ q \in Seq(STRING)
                     /\ \A i \in 1..Len(q) : q[i] # Slash /\ q[i] \notin Unwanted
<1>1. ASSUME NEW p, Fit(p), NEW q, NEW d, IsSlice(q, p, d)
      PROVE  Fit(q)
  <2>1. \A i \in 1..Len(q) : d + i \in 1..Len(p) /\ q[i] = p[d + i]
    BY <1>1, SliceMarks
  <2>2. q \in Seq(STRING)
    BY <1>1 DEF IsSlice
  <2> QED
    BY <1>1, <2>1, <2>2
<1>2. r = DropFront(front, {Blank})
  BY DEF Cleaned
<1>3. PICK a \in Nat : /\ IsSlice(tail, s, a)
                       /\ \A i \in 1..Len(s) : s[i] = Slash => i <= a
  BY AfterLastSlashIs
<1> HIDE DEF tail
<1>4. tail \in Seq(STRING)
  BY <1>3 DEF IsSlice
<1>5. \A i \in 1..Len(tail) : tail[i] # Slash
  <2> SUFFICES ASSUME NEW i \in 1..Len(tail), tail[i] = Slash
               PROVE  FALSE
    OBVIOUS
  <2>1. a + i \in 1..Len(s) /\ s[a + i] = Slash
    BY <1>3, SliceMarks
  <2>2. a + i <= a
    BY <1>3, <2>1
  <2>3. i \in Nat /\ i >= 1
    BY <1>4
  <2> QED
    BY <2>2, <2>3
<1>6. Fit(base)
  <2>1. base = Without(tail, Unwanted)
    OBVIOUS
  <2> HIDE DEF base
  <2>2. /\ base \in Seq(STRING)
        /\ \A n \in 1..Len(base) : /\ base[n] \notin Unwanted
                                   /\ \E i \in 1..Len(tail) : base[n] = tail[i]
    BY <1>4, <2>1, WithoutIs
  <2> QED
    BY <1>5, <2>2
<1> HIDE DEF base
<1>7. PICK d \in Nat : IsSlice(dotless, base, d)
  BY <1>6, DropFrontIs
<1>8. Fit(dotless)
  <2> HIDE DEF dotless, Fit
  <2> QED
    BY <1>1, <1>6, <1>7
<1> HIDE DEF dotless
<1>9. IsSlice(front, dotless, 0)
  BY <1>8, DropBackIs
<1>a. Fit(front)
  <2> HIDE DEF front, Fit
  <2> QED
    BY <1>1, <1>8, <1>9
<1> HIDE DEF front
<1>b. PICK f \in Nat : IsSlice(r, front, f) /\ (r # <<>> => r[1] \notin {Blank})
  BY <1>2, <1>a, DropFrontIs
<1>c. Fit(r)
  <2> HIDE DEF Fit
  <2> QED
    BY <1>1, <1>a, <1>b
<1> QED
  BY <1>b, <1>c

(* "Nothing may escape the directory it is written into": whatever is typed *)
(* comes to nothing, or to one path component without a mark that FAT or a  *)
(* shell argues about, which has the suffix and does not begin with a       *)
(* blank.  What it comes to does not depend on the suffix: the button,      *)
(* which judges the text without one, agrees with the writer.               *)
THEOREM OneComponent ==
    ASSUME NEW text \in Seq(STRING), NEW M, STRING \subseteq M,
           NEW suffix \in Seq(M),
           \A k \in 1..Len(suffix) : suffix[k] # Slash /\ suffix[k] \notin Unwanted,
           NEW n, n = Sanitised(text, suffix)
    PROVE  /\ \A i \in 1..Len(n) : n[i] # Slash /\ n[i] \notin Unwanted
           /\ n # <<>> => HasSuffix(n, suffix) /\ n[1] # Blank
           /\ n = <<>> <=> Sanitised(text, <<>>) = <<>>
<1> DEFINE out == Cleaned(text)
<1>1. /\ out \in Seq(STRING)
      /\ \A i \in 1..Len(out) : out[i] # Slash /\ out[i] \notin Unwanted
      /\ out # <<>> => out[1] # Blank
  BY CleanedMarks
<1>2. /\ n = IF out = <<>> \/ HasSuffix(out, suffix) THEN out ELSE out \o suffix
      /\ Sanitised(text, <<>>) =
            IF out = <<>> \/ HasSuffix(out, <<>>) THEN out ELSE out \o <<>>
  BY DEF Sanitised
<1> HIDE DEF out
<1>3. out \in Seq(M)
  <2>1. \A i \in 1..Len(out) : out[i] \in STRING
    BY <1>1
  <2>2. \A i \in 1..Len(out) : out[i] \in M
    BY <2>1, Zenon
  <2> QED
    BY <1>1, <2>2
<1>4. CASE out = <<>>
  BY <1>2, <1>4
<1>5. CASE out # <<>>
  <2>1. n = IF HasSuffix(out, suffix) THEN out ELSE out \o suffix
    BY <1>2, <1>5
  <2>2. HasSuffix(n, suffix)
    BY <1>3, <1>5, <2>1, SuffixIsThere
  <2>3. n[1] = out[1]
    BY <1>3, <1>5, <2>1, SuffixIsThere
  <2>4. \A i \in 1..Len(n) : \/ i <= Len(out) /\ n[i] = out[i]
                             \/ \E k \in 1..Len(suffix) : n[i] = suffix[k]
    BY <1>3, <1>5, <2>1, SuffixIsThere
  <2>5. \A i \in 1..Len(n) : n[i] # Slash /\ n[i] \notin Unwanted
    <3> SUFFICES ASSUME NEW i \in 1..Len(n)
                 PROVE  n[i] # Slash /\ n[i] \notin Unwanted
      OBVIOUS
    <3>1. CASE i <= Len(out) /\ n[i] = out[i]
      <4>1. i \in 1..Len(out)
        BY <1>1, <3>1
      <4> QED
        BY <1>1, <3>1, <4>1
    <3>2. CASE \E k \in 1..Len(suffix) : n[i] = suffix[k]
      BY <3>2
    <3> QED
      BY <2>4, <3>1, <3>2
  <2>6. n # <<>>
    BY <2>2 DEF HasSuffix
  <2>7. Sanitised(text, <<>>) # <<>>
    <3>1. out \o <<>> = out
      BY <1>1
    <3> QED
      BY <1>2, <1>5, <3>1
  <2> QED
    BY <1>1, <1>5, <2>2, <2>3, <2>5, <2>6, <2>7
<1> QED
  BY <1>4, <1>5

(* freeFileName() proposes the first name that is free; only when all but   *)
(* the last it tries are taken, it may propose one that is taken too.       *)
THEOREM FirstFreeName ==
    ASSUME NEW S, NEW candidates \in Seq(S), candidates # <<>>, NEW taken
    PROVE  \E i \in 1..Len(candidates) :
             /\ FreeName(candidates, taken) = candidates[i]
             /\ \A j \in 1..i - 1 : candidates[j] \in taken
             /\ candidates[i] \notin taken \/ i = Len(candidates)
<1> DEFINE free == {i \in 1..Len(candidates) - 1 : candidates[i] \notin taken}
           first == IF free = {} THEN Len(candidates) ELSE Min(free)
<1>1. Len(candidates) \in Nat \ {0}
  OBVIOUS
<1>2. free \in SUBSET Nat
  BY <1>1
<1>3. FreeName(candidates, taken) = candidates[first]
  BY DEF FreeName
<1>4. free # {} => Min(free) \in free /\ \A i \in free : Min(free) <= i
  <2> HIDE DEF free
  <2> QED
    BY <1>2, LeastNatural
<1>5. CASE free = {}
  <2>1. first = Len(candidates)
    BY <1>5
  <2>2. \A j \in 1..Len(candidates) - 1 : candidates[j] \in taken
    BY <1>5
  <2>3. Len(candidates) \in 1..Len(candidates)
    BY <1>1
  <2> HIDE DEF first
  <2> QED
    BY <1>3, <2>1, <2>2, <2>3
<1>6. CASE free # {}
  <2>1. first \in free /\ \A i \in free : first <= i
    BY <1>4, <1>6
  <2> HIDE DEF first
  <2>2. first \in 1..Len(candidates) /\ candidates[first] \notin taken
    BY <1>1, <2>1
  <2>3. ASSUME NEW j \in 1..first - 1
        PROVE  candidates[j] \in taken
    <3>1. j \in 1..Len(candidates) - 1 /\ ~(first <= j)
      BY <1>1, <2>1
    <3> QED
      BY <2>1, <3>1
  <2> QED
    BY <1>3, <2>2, <2>3
<1> QED
  BY <1>5, <1>6

(* "Newest first within each group, signer outputs last": the list shows    *)
(* every transaction on the volume once, none of the results above an input *)
(* and of two of a kind the older one never above the newer one.            *)
THEOREM ListIsInOrder ==
    ASSUME NEW v \in Volumes, NEW rows, rows = Listed(v, Rank)
    PROVE  /\ ToSet(rows) = {n \in DOMAIN v : IsPsbtName(n)}
           /\ IsInjective(rows)
           /\ \A i, j \in DOMAIN rows : i < j =>
                 \/ ~IsSignerOutput(rows[i]) /\ IsSignerOutput(rows[j])
                 \/ /\ IsSignerOutput(rows[i]) = IsSignerOutput(rows[j])
                    /\ v[rows[i]] >= v[rows[j]]
<1>1. rows \in [1..Cardinality(Shown(v)) -> Shown(v)]
      /\ \A i, j \in 1..Cardinality(Shown(v)) : i < j => Earlier(v, rows[i], rows[j])
  <2> DEFINE R == {p \in Shown(v) \X Shown(v) : Earlier(v, p[1], p[2])}
  <2>1. rows = InOrder(Shown(v), R) /\ IsFiniteSet(Shown(v)) /\ Orders(R, Shown(v))
    BY VolumeIs, EarlierOrders DEF Listed, Shown, Earlier
  <2>2. \A m, n : <<m, n>> \in R => Earlier(v, m, n)
    OBVIOUS
  <2> HIDE DEF R
  <2> QED
    BY <2>1, <2>2, InOrderIs
<1>2. DOMAIN rows = 1..Cardinality(Shown(v))
  BY <1>1
<1>3. ASSUME NEW i \in DOMAIN rows, NEW j \in DOMAIN rows, i < j
      PROVE  \/ ~IsSignerOutput(rows[i]) /\ IsSignerOutput(rows[j])
             \/ /\ IsSignerOutput(rows[i]) = IsSignerOutput(rows[j])
                /\ v[rows[i]] >= v[rows[j]]
  <2>1. Earlier(v, rows[i], rows[j])
    BY <1>1, <1>2, <1>3
  <2>2. v[rows[i]] \in Nat /\ v[rows[j]] \in Nat
    BY <1>1, <1>2, VolumeIs, OrderAssumption DEF Shown
  <2> QED
    BY <2>1, <2>2 DEF Earlier
<1>4. ToSet(rows) = Shown(v) /\ IsInjective(rows)
  BY ListedIs
<1> QED
  BY <1>3, <1>4 DEF Shown
=============================================================================
