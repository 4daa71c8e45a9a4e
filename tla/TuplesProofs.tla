---------------------------- MODULE TuplesProofs ----------------------------
(***************************************************************************)
(* Tuples of any length, whatever is stored, appended and deleted in them. *)
(*                                                                         *)
(* Loops (WholeLoops).  The induction carries Cursor: the position is one  *)
(* of the tuple, and an iterator that has the tuple to itself has given as *)
(* many items as the position says.  A tuple only becomes shorter when it  *)
(* is cleared, and then the position goes back.                            *)
(*                                                                         *)
(* Counts, names and dictionaries (CountsStayExact, NamesStay,             *)
(* TupleIsDict).  The induction carries TupleInv.  Every operation first   *)
(* counts what it puts into the tuple and then discounts what it removes:  *)
(* Exactly says that the two are the difference it makes, and UpdateExact  *)
(* that the counts then stay exact.  That a pair is at one place of the    *)
(* tuple at most (Once) is what makes an operation on an item one on the   *)
(* name: it binds or unsets one place (Bound, Unset), and these are the    *)
(* steps of the dictionary (Dict.tla).                                     *)
(***************************************************************************)
EXTENDS Tuples, FiniteSetTheorems, SequenceTheorems, TLAPS

-----------------------------------------------------------------------------
(* What Ascending gives, for every finite set of numbers: each member      *)
(* once, in order, and how that changes with one member more or less.      *)

LEMMA RankType ==
  ASSUME NEW S, IsFiniteSet(S), NEW i
  PROVE  IsFiniteSet(Below(S, i)) /\ Rank(S, i) \in Nat /\ Rank(S, i) <= Cardinality(S)
BY FS_Subset, FS_CardinalityType DEF Below, Rank

(* A later member has more members before it. *)
LEMMA RankGrows ==
  ASSUME NEW S, \A x \in S : x \in Int, IsFiniteSet(S), NEW i \in S, NEW j \in Int, i < j
  PROVE  Rank(S, i) < Rank(S, j)
<1>1. Below(S, i) \in SUBSET Below(S, j) /\ i \in Below(S, j) /\ i \notin Below(S, i)
  BY DEF Below
<1>2. Rank(S, i) <= Rank(S, j) /\ Rank(S, i) # Rank(S, j)
  BY <1>1, RankType, FS_Subset DEF Rank
<1>. QED
  BY <1>2, RankType

LEMMA RankBelow ==
  ASSUME NEW S, \A x \in S : x \in Int, IsFiniteSet(S), NEW i \in S
  PROVE  Rank(S, i) \in 0..(Cardinality(S) - 1)
<1>1. Below(S, i) \in SUBSET S /\ i \notin Below(S, i)
  BY DEF Below
<1>2. Rank(S, i) <= Cardinality(S) /\ Rank(S, i) # Cardinality(S)
  BY <1>1, FS_Subset DEF Rank
<1>. QED
  BY <1>2, RankType, FS_CardinalityType

(* There is a member with each number of members before it. *)
LEMMA RankCovers ==
  ASSUME NEW S, \A x \in S : x \in Int, IsFiniteSet(S), NEW n \in 0..(Cardinality(S) - 1)
  PROVE  \E i \in S : Rank(S, i) = n
<1> DEFINE c == Cardinality(S)
           f == [i \in S |-> Rank(S, i)]
<1>1. c \in Nat
  BY FS_CardinalityType
<1>2. f \in [S -> 0..(c - 1)]
  BY RankBelow
<1>3. f \in Injection(S, 0..(c - 1))
  <2>1. ASSUME NEW i \in S, NEW j \in S, f[i] = f[j]
        PROVE  i = j
    BY <2>1, RankGrows, RankType
  <2>. QED
    BY <1>2, <2>1 DEF Injection, IsInjective
<1>4. IsFiniteSet(0..(c - 1)) /\ Cardinality(0..(c - 1)) = c
  BY <1>1, FS_Interval
<1>5. f \in Surjection(S, 0..(c - 1))
  BY <1>3, <1>4, FS_Injection
<1>. QED
  BY <1>5 DEF Surjection

LEMMA AscendingType ==
  ASSUME NEW S, \A x \in S : x \in Int, IsFiniteSet(S)
  PROVE  /\ Cardinality(S) \in Nat
         /\ DOMAIN Ascending(S) = 1..Cardinality(S)
         /\ Len(Ascending(S)) = Cardinality(S)
         /\ Ascending(S) \in Seq(S)
         /\ \A n \in 1..Cardinality(S) : Ascending(S)[n] \in S /\ Rank(S, Ascending(S)[n]) = n - 1
<1>1. Cardinality(S) \in Nat
  BY FS_CardinalityType
<1>2. ASSUME NEW n \in 1..Cardinality(S)
      PROVE  Ascending(S)[n] \in S /\ Rank(S, Ascending(S)[n]) = n - 1
  <2>1. n - 1 \in 0..(Cardinality(S) - 1)
    BY <1>1
  <2>2. \E i \in S : Rank(S, i) = n - 1
    BY <2>1, RankCovers
  <2>. QED
    BY <2>2 DEF Ascending
<1>3. Ascending(S) \in [1..Cardinality(S) -> S]
  <2>1. Ascending(S) = [n \in 1..Cardinality(S) |-> Ascending(S)[n]]
    BY DEF Ascending
  <2>. QED
    BY <1>2, <2>1
<1>. QED
  BY <1>1, <1>2, <1>3

(* A member is at the place that its rank says. *)
LEMMA AscendingAt ==
  ASSUME NEW S, \A x \in S : x \in Int, IsFiniteSet(S), NEW i \in S
  PROVE  /\ Rank(S, i) + 1 \in 1..Cardinality(S)
         /\ Ascending(S)[Rank(S, i) + 1] = i
<1>1. Rank(S, i) + 1 \in 1..Cardinality(S)
  BY RankBelow, FS_CardinalityType
<1> DEFINE j == Ascending(S)[Rank(S, i) + 1]
<1>2. j \in S /\ Rank(S, j) = Rank(S, i)
  BY <1>1, AscendingType, RankType
<1>3. j = i
  BY <1>2, RankGrows, RankType
<1>. QED
  BY <1>1, <1>3

LEMMA AscendingOrdered ==
  ASSUME NEW S, \A x \in S : x \in Int, IsFiniteSet(S),
         NEW m \in 1..Cardinality(S), NEW n \in 1..Cardinality(S)
  PROVE  m < n <=> Ascending(S)[m] < Ascending(S)[n]
<1>1. /\ Ascending(S)[m] \in S /\ Rank(S, Ascending(S)[m]) = m - 1
      /\ Ascending(S)[n] \in S /\ Rank(S, Ascending(S)[n]) = n - 1
      /\ Cardinality(S) \in Nat
  BY AscendingType
<1>. QED
  BY <1>1, RankGrows

(* The first member is the least. *)
LEMMA AscendingFirst ==
  ASSUME NEW S, \A x \in S : x \in Int, IsFiniteSet(S), NEW i \in S, \A j \in S : i <= j
  PROVE  Rank(S, i) = 0 /\ Ascending(S)[1] = i /\ Ascending(S) # << >>
<1>1. Below(S, i) = {}
  BY DEF Below
<1>2. Rank(S, i) = 0
  BY <1>1, FS_EmptySet DEF Rank
<1>3. Ascending(S)[1] = i /\ 1 \in 1..Cardinality(S)
  BY <1>2, AscendingAt
<1>. QED
  BY <1>2, <1>3, AscendingType

(* A member behind all others comes last. *)
LEMMA AscendingAppend ==
  ASSUME NEW S, \A x \in S : x \in Int, IsFiniteSet(S), NEW m \in Int, \A i \in S : i < m
  PROVE  Ascending(S \cup {m}) = Append(Ascending(S), m)
<1> DEFINE T == S \cup {m}
<1>1. (\A x \in T : x \in Int) /\ IsFiniteSet(T) /\ Cardinality(T) = Cardinality(S) + 1
  BY FS_AddElement
<1>2. Cardinality(S) \in Nat
  BY FS_CardinalityType
<1>3. ASSUME NEW i \in S PROVE Rank(T, i) = Rank(S, i)
  <2>1. Below(T, i) = Below(S, i)
    BY DEF Below
  <2>. QED
    BY <2>1 DEF Rank
<1>4. Rank(T, m) = Cardinality(S)
  <2>1. Below(T, m) = S
    BY DEF Below
  <2>. QED
    BY <2>1 DEF Rank
<1>. HIDE DEF T
<1>5. Ascending(T)[Cardinality(S) + 1] = m
  BY <1>1, <1>4, AscendingAt, m \in T DEF T
<1>6. ASSUME NEW n \in 1..Cardinality(S) PROVE Ascending(T)[n] = Ascending(S)[n]
  <2>1. Ascending(S)[n] \in S /\ Rank(S, Ascending(S)[n]) = n - 1
    BY AscendingType
  <2>2. Ascending(S)[n] \in T /\ Rank(T, Ascending(S)[n]) + 1 = n
    BY <1>3, <2>1 DEF T
  <2>. QED
    BY <1>1, <2>2, AscendingAt
<1>7. /\ Ascending(T) \in Seq(Int) /\ Len(Ascending(T)) = Cardinality(S) + 1
      /\ Ascending(S) \in Seq(Int) /\ Len(Ascending(S)) = Cardinality(S)
  BY <1>1, <1>2, AscendingType
<1>. HIDE DEF T
<1>8. Ascending(T) = Append(Ascending(S), m)
  BY <1>2, <1>5, <1>6, <1>7
<1>. QED
  BY <1>8 DEF T

(* A member that goes moves those behind it up by one. *)
LEMMA AscendingRemove ==
  ASSUME NEW S, \A x \in S : x \in Int, IsFiniteSet(S), NEW i \in S
  PROVE  LET n == Rank(S, i) + 1
             A == Ascending(S)
         IN  Ascending(S \ {i}) = SubSeq(A, 1, n - 1) \o SubSeq(A, n + 1, Len(A))
<1> DEFINE T == S \ {i}
           n == Rank(S, i) + 1
           A == Ascending(S)
           c == Cardinality(S)
           B == SubSeq(A, 1, n - 1) \o SubSeq(A, n + 1, Len(A))
<1>1. (\A x \in T : x \in Int) /\ IsFiniteSet(T) /\ Cardinality(T) = c - 1
  BY FS_RemoveElement
<1>2. c \in Nat /\ n \in 1..c /\ A[n] = i
  BY FS_CardinalityType, AscendingAt
<1>3. ASSUME NEW j \in T
      PROVE  Rank(T, j) = IF j < i THEN Rank(S, j) ELSE Rank(S, j) - 1
  <2>1. CASE j < i
    <3>1. Below(T, j) = Below(S, j)
      BY <2>1 DEF Below
    <3>. QED
      BY <2>1, <3>1 DEF Rank
  <2>2. CASE ~(j < i)
    <3>1. i \in Below(S, j) /\ Below(T, j) = Below(S, j) \ {i}
      BY <2>2 DEF Below
    <3>2. IsFiniteSet(Below(S, j))
      BY RankType
    <3>. QED
      BY <2>2, <3>1, <3>2, FS_RemoveElement DEF Rank
  <2>. QED
    BY <2>1, <2>2
<1>4. ASSUME NEW k \in 1..c
      PROVE  A[k] \in S /\ Rank(S, A[k]) = k - 1 /\ (k < n <=> A[k] < i)
  BY <1>2, AscendingType, AscendingOrdered
<1>5. A \in Seq(Int) /\ Len(A) = c
  BY AscendingType
<1>6. Ascending(T) \in Seq(Int) /\ Len(Ascending(T)) = c - 1
  BY <1>1, AscendingType
<1>. HIDE DEF T, A, n, c
<1>7. ASSUME NEW k \in 1..(c - 1)
      PROVE  Ascending(T)[k] = IF k < n THEN A[k] ELSE A[k + 1]
  <2>1. CASE k < n
    <3>1. k \in 1..c /\ A[k] \in S /\ Rank(S, A[k]) = k - 1 /\ A[k] < i
      BY <1>2, <1>4, <2>1
    <3>2. A[k] \in T
      BY <3>1 DEF T
    <3>3. Rank(T, A[k]) + 1 = k
      BY <1>3, <3>1, <3>2
    <3>. QED
      BY <1>1, <2>1, <3>2, <3>3, AscendingAt
  <2>2. CASE ~(k < n)
    <3>1. k + 1 \in 1..c /\ ~(k + 1 < n) /\ k + 1 # n
      BY <1>2, <2>2
    <3>2. A[k + 1] \in S /\ Rank(S, A[k + 1]) = k /\ ~(A[k + 1] < i)
      BY <1>4, <3>1
    <3>3. A[k + 1] # i
      BY <1>2, <3>1, <3>2 DEF n
    <3>4. A[k + 1] \in T
      BY <3>2, <3>3 DEF T
    <3>5. Rank(T, A[k + 1]) + 1 = k
      BY <1>3, <3>2, <3>4
    <3>. QED
      BY <1>1, <2>2, <3>4, <3>5, AscendingAt
  <2>. QED
    BY <2>1, <2>2
<1>8. B \in Seq(Int) /\ Len(B) = c - 1
      /\ \A k \in 1..(c - 1) : B[k] = IF k < n THEN A[k] ELSE A[k + 1]
  BY <1>2, <1>5
<1>. HIDE DEF B
<1>9. Ascending(T) = B
  BY <1>2, <1>6, <1>7, <1>8
<1>. QED
  BY <1>9 DEF T, A, n, B

-----------------------------------------------------------------------------
Cursor ==
  /\ items \in Seq(Items)
  /\ pair \in [Pair -> [key : Items, value : Items]]
  /\ ptr \in 0..Len(items)
  /\ given \in [Iterator -> Nat]
  /\ looping \subseteq Iterator
  /\ alone \subseteq looping
  /\ \A s, t \in alone : s = t
  /\ LoneLoop

(***************************************************************************)
(* The sequences that the operations put in the place of the items.        *)
(***************************************************************************)
LEMMA Pushed ==
  ASSUME NEW s \in Seq(Items), NEW o \in Items
  PROVE  /\ list_Push(s, o) \in Seq(Items)
         /\ Len(list_Push(s, o)) >= Len(s)
BY DEF list_Push

LEMMA Inserted ==
  ASSUME NEW s \in Seq(Items), NEW o \in Items
  PROVE  /\ list_Insert(s, 1, o) \in Seq(Items)
         /\ Len(list_Insert(s, 1, o)) >= Len(s)
<1> DEFINE l == list_Insert(s, 1, o)
<1>1. /\ Len(s) \in Nat
      /\ l = [j \in 1..(Len(s) + 1) |-> IF j < 1 THEN s[j] ELSE IF j = 1 THEN o ELSE s[j - 1]]
  BY DEF list_Insert
<1>2. \A j \in 1..(Len(s) + 1) : l[j] \in Items
  BY <1>1
<1>3. l \in Seq(Items)
  BY <1>1, <1>2
<1>4. Len(l) = Len(s) + 1
  BY <1>1, <1>3
<1>. QED
  BY <1>1, <1>3, <1>4

LEMMA Replaced ==
  ASSUME NEW s \in Seq(Items), NEW o \in Items, NEW j
  PROVE  /\ [s EXCEPT ![j] = o] \in Seq(Items)
         /\ Len([s EXCEPT ![j] = o]) >= Len(s)
<1> DEFINE r == [s EXCEPT ![j] = o]
<1>1. DOMAIN s = 1..Len(s) /\ Len(s) \in Nat
  OBVIOUS
<1>2. r \in [1..Len(s) -> Items]
  <2>1. r = [x \in 1..Len(s) |-> IF x = j THEN o ELSE s[x]]
    BY <1>1
  <2>2. \A x \in 1..Len(s) : s[x] \in Items
    BY <1>1
  <2>. QED
    BY <2>1, <2>2
<1>3. r \in Seq(Items) /\ Len(r) = Len(s)
  BY <1>1, <1>2
<1>. QED
  BY <1>1, <1>3

(***************************************************************************)
(* A step that leaves the loops alone and does not shorten the tuple keeps *)
(* Cursor.                                                                 *)
(***************************************************************************)
LEMMA Longer ==
  ASSUME Cursor, UNCHANGED loops,
         NEW its \in Seq(Items), Len(its) >= Len(items),
         NEW pairs \in [Pair -> [key : Items, value : Items]],
         NEW more, NEW less, Update(its, pairs, more, less)
  PROVE  Cursor'
<1>1. items' = its
  BY DEF Update
<1>2. pair' \in [Pair -> [key : Items, value : Items]]
  BY DEF Update, NoPair, Items
<1>3. Len(items) \in Nat /\ Len(items') \in Nat
  BY <1>1 DEF Cursor
<1>4. ptr' \in 0..Len(items')
  BY <1>1, <1>3 DEF Cursor, loops
<1>. QED
  BY <1>1, <1>2, <1>4 DEF Cursor, loops, LoneLoop

LEMMA PutItemKeeps ==
  ASSUME Cursor, UNCHANGED loops, NEW j, NEW o \in Items, PutItem(j, o)
  PROVE  Cursor'
<1>1. /\ items \in Seq(Items)
      /\ pair \in [Pair -> [key : Items, value : Items]]
  BY DEF Cursor
<1>. QED
  BY <1>1, Replaced, Longer DEF PutItem

LEMMA PutPairKeeps ==
  ASSUME Cursor, UNCHANGED loops, NEW j, NEW p \in Pair,
         NEW k \in Items, NEW v \in Items, PutPair(j, p, k, v)
  PROVE  Cursor'
<1> DEFINE pairs == [pair EXCEPT ![p] = [key |-> k, value |-> v]]
<1>1. items \in Seq(Items) /\ p \in Items
  BY DEF Cursor, Items
<1>2. pairs \in [Pair -> [key : Items, value : Items]]
  BY DEF Cursor
<1>3. CASE j > Len(items)
  <2>1. Update(list_Push(items, p), pairs, <<p, k, v>>, << >>)
    BY <1>3 DEF PutPair
  <2>. HIDE DEF pairs
  <2>. QED
    BY <1>1, <1>2, <2>1, Pushed, Longer
<1>4. CASE ~(j > Len(items))
  <2>1. Update([items EXCEPT ![j] = p], pairs, <<p, k, v>>, <<items[j]>>)
    BY <1>4 DEF PutPair
  <2>. HIDE DEF pairs
  <2>. QED
    BY <1>1, <1>2, <2>1, Replaced, Longer
<1>. QED
  BY <1>3, <1>4

LEMMA BindKeeps ==
  ASSUME Cursor, UNCHANGED loops, NEW j, NEW k \in Items, NEW v \in Items, Bind(j, k, v)
  PROVE  Cursor'
<1>1. CASE j \in DOMAIN items /\ IsPair(items[j])
  <2> DEFINE p     == items[j]
             pairs == [pair EXCEPT ![p].value = v]
  <2>1. Update(items, pairs, <<v>>, <<pair[p].value>>)
    BY <1>1 DEF Bind, PutValue
  <2>2. pairs \in [Pair -> [key : Items, value : Items]]
    BY <1>1 DEF Cursor, IsPair
  <2>3. items \in Seq(Items) /\ Len(items) >= Len(items)
    BY DEF Cursor
  <2>. HIDE DEF pairs
  <2>. QED
    BY <2>1, <2>2, <2>3, Longer
<1>2. CASE ~(j \in DOMAIN items /\ IsPair(items[j]))
  <2>1. PICK p \in Pair : PutPair(j, p, k, v)
    BY <1>2 DEF Bind
  <2>. QED
    BY <2>1, PutPairKeeps
<1>. QED
  BY <1>1, <1>2

LEMMA UnchangedKeeps ==
  ASSUME Cursor, UNCHANGED <<items, pair, loops>>
  PROVE  Cursor'
BY DEF Cursor, loops, LoneLoop

(***************************************************************************)
(* The steps of the loops.                                                 *)
(***************************************************************************)
LEMMA LoopsKeep ==
  ASSUME Cursor, NEW t \in Iterator, BeginLoop(t) \/ Advance(t) \/ Break(t)
  PROVE  Cursor'
<1>. Len(items) \in Nat /\ ptr \in Int
  BY DEF Cursor
<1>1. CASE BeginLoop(t)
  <2>1. ptr' \in 0..Len(items')
    BY <1>1 DEF BeginLoop, Begin, Cursor
  <2>2. t \in alone' => ptr' = 0 /\ given'[t] = 0
    BY <1>1 DEF BeginLoop, Begin, Cursor
  <2>. QED
    BY <1>1, <2>1, <2>2 DEF BeginLoop, Cursor, LoneLoop
<1>2. CASE Advance(t)
  <2>1. CASE ptr < Len(items) /\ items[ptr + 1] \notin {Null, None}
    <3>1. ptr' \in 0..Len(items') /\ ptr' = ptr + 1
      BY <1>2, <2>1 DEF Advance, Cursor
    <3>2. /\ alone' = alone \cap {t} /\ looping' = looping
          /\ given' = [s \in Iterator |-> IF s \in alone' THEN given[s] + 1 ELSE 0]
      BY <1>2, <2>1 DEF Advance
    <3>3. given' \in [Iterator -> Nat]
      BY <3>2 DEF Cursor
    <3>4. \A s \in alone' : given'[s] = ptr'
      BY <3>1, <3>2 DEF Cursor, LoneLoop
    <3>. QED
      BY <1>2, <3>1, <3>2, <3>3, <3>4 DEF Advance, Cursor, LoneLoop
  <2>2. CASE ~(ptr < Len(items) /\ items[ptr + 1] \notin {Null, None})
    BY <1>2, <2>2 DEF Advance, Cursor, LoneLoop
  <2>. QED
    BY <2>1, <2>2
<1>3. CASE Break(t)
  BY <1>3 DEF Break, Cursor, LoneLoop
<1>. QED
  BY <1>1, <1>2, <1>3

LEMMA CursorInductive ==
  ASSUME Cursor, [Next]_vars
  PROVE  Cursor'
<1>. USE DEF Cursor
<1>0. Object \subseteq Items /\ Null \in Items /\ Pair \subseteq Items
  BY DEF Items
<1>1. ASSUME NEW k \in Object, NEW v \in Object \cup {Null}, SetDictItem(k, v)
      PROVE  Cursor'
  <2>1. PICK j : Bind(j, k, v)
    BY <1>1, Zenon DEF SetDictItem
  <2>. QED
    BY <1>0, <1>1, <2>1, BindKeeps DEF SetDictItem
<1>2. ASSUME NEW k \in Object, NEW v \in Object \cup {Null}, StoreGlobal(k, v)
      PROVE  Cursor'
  <2>1. CASE tuple_GetDictItemIndex(k) = 0
    BY <1>2, <2>1, UnchangedKeeps DEF StoreGlobal
  <2>2. CASE tuple_GetDictItemIndex(k) # 0
    <3> DEFINE j == tuple_GetDictItemIndex(k)
    <3>1. Bind(j, items[j], v) /\ UNCHANGED loops
      BY <1>2, <2>2 DEF StoreGlobal
    <3>2. j \in DOMAIN items
      BY <2>2 DEF tuple_GetDictItemIndex, IndexIn, Earliest, HasKey
    <3>3. items[j] \in Items
      BY <3>2
    <3>. HIDE DEF j
    <3>. QED
      BY <1>0, <3>1, <3>3, BindKeeps
  <2>. QED
    BY <2>1, <2>2
<1>3. ASSUME NEW k \in Object, NEW v \in Object, AppendDictItem(k, v)
      PROVE  Cursor'
  <2>1. PICK p \in Pair : PutPair(Len(items) + 1, p, k, v)
    BY <1>3 DEF AppendDictItem
  <2>. QED
    BY <1>0, <1>3, <2>1, PutPairKeeps DEF AppendDictItem
<1>4. ASSUME NEW k \in Object, GetDictItem(k) \/ GetDictItemByName(k)
      PROVE  Cursor'
  BY <1>4, UnchangedKeeps DEF GetDictItem, GetDictItemByName
<1>5. ASSUME NEW k \in Object, DeleteDictItem(k)
      PROVE  Cursor'
  <2>1. CASE tuple_GetDictItemIndex(k) = 0
    BY <1>5, <2>1, UnchangedKeeps DEF DeleteDictItem
  <2>2. CASE tuple_GetDictItemIndex(k) # 0
    BY <1>0, <1>5, <2>2, PutItemKeeps DEF DeleteDictItem
  <2>. QED
    BY <2>1, <2>2
<1>6. ASSUME NEW j \in DOMAIN items, NEW v \in Object, Store(j, v)
      PROVE  Cursor'
  <2>1. items[j] \in Items /\ v \in Items /\ Bind(j, items[j], v) /\ UNCHANGED loops
    BY <1>0, <1>6 DEF Store
  <2>. QED
    BY <2>1, BindKeeps
<1>7. ASSUME NEW j \in DOMAIN items, Load(j) \/ Delete(j)
      PROVE  Cursor'
  BY <1>0, <1>7, UnchangedKeeps, PutItemKeeps DEF Load, Delete
<1>8. ASSUME NEW j \in DOMAIN items, NEW p \in Pair, ConvertToDict(j, p)
      PROVE  Cursor'
  <2>1. /\ items[j] \in Items /\ p \in Pair /\ PutPair(j, p, items[j], Null)
        /\ UNCHANGED loops
    BY <1>8 DEF ConvertToDict
  <2>. QED
    BY <1>0, <2>1, PutPairKeeps
<1>9. CASE ClearDictValues
  <2> DEFINE its == [j \in DOMAIN items |-> KeyOf(items[j])]
  <2>1. \E more, less : Update(its, pair, more, less)
    BY <1>9 DEF ClearDictValues
  <2>4. PICK more, less : Update(its, pair, more, less)
    BY <2>1
  <2>2. \A j \in DOMAIN items : KeyOf(items[j]) \in Items
    BY DEF KeyOf, IsPair
  <2>3. its \in Seq(Items) /\ Len(its) >= Len(items)
    <3>1. /\ DOMAIN items = 1..Len(items) /\ Len(items) \in Nat
      OBVIOUS
    <3>0. its \in [1..Len(items) -> Items]
      BY <2>2, <3>1
    <3>2. its \in Seq(Items)
      BY <3>0, <3>1
    <3>3. Len(its) = Len(items)
      BY <3>0, <3>1, <3>2
    <3>. QED
      BY <3>1, <3>2, <3>3
  <2>. HIDE DEF its
  <2>. QED
    BY <1>9, <2>3, <2>4, Longer DEF ClearDictValues
<1>10. ASSUME NEW p \in Pair, Hold(p) \/ Drop(p)
       PROVE  Cursor'
  <2>1. Len(items) >= Len(items)
    OBVIOUS
  <2>. QED
    BY <1>10, <2>1, Longer DEF Hold, Drop
<1>11. ASSUME NEW o \in Object, AppendItem(o) \/ InsertItem(o)
       PROVE  Cursor'
  BY <1>0, <1>11, Pushed, Inserted, Longer DEF AppendItem, InsertItem
<1>12. ASSUME NEW i \in Subscript, NEW o \in Object \cup Pair,
              LoadSubscr(i) \/ DeleteSubscr(i) \/ StoreSubscr(i, o)
       PROVE  Cursor'
  <2>1. ASSUME NEW n, NEW x \in Items, SetItem(n, x), UNCHANGED loops PROVE Cursor'
    <3>. USE <2>1
    <3>1. CASE UNCHANGED <<items, pair>>
      BY <3>1, UnchangedKeeps
    <3>2. CASE PutItem(Position(n), x)
      BY <3>2, PutItemKeeps
    <3>. QED
      BY <3>1, <3>2 DEF SetItem
  <2>2. UNCHANGED loops
    BY <1>12 DEF LoadSubscr, DeleteSubscr, StoreSubscr, Subscripted
  <2>. HIDE DEF Cursor
  <2>3. CASE UNCHANGED <<items, pair>>
    BY <2>2, <2>3, UnchangedKeeps
  <2>4. CASE StoreSubscr(i, o)
    BY <1>0, <1>12, <2>1, <2>2, <2>4 DEF StoreSubscr
  <2>5. CASE DeleteSubscr(i)
    BY <1>0, <2>1, <2>2, <2>3, <2>5 DEF DeleteSubscr
  <2>. QED
    BY <1>12, <2>3, <2>4, <2>5 DEF LoadSubscr
<1>13. CASE Clear
  <2>1. items' = << >> /\ ptr' = 0 /\ alone = {}
    BY <1>13 DEF Clear, Update
  <2>2. pair' \in [Pair -> [key : Items, value : Items]]
    BY <1>13 DEF Clear, Update, NoPair, Items
  <2>3. looping' = {} /\ alone' = {} /\ given' = given
    BY <1>13, <2>1 DEF Clear
  <2>. QED
    BY <2>1, <2>2, <2>3 DEF LoneLoop
<1>14. ASSUME NEW t \in Iterator, BeginLoop(t) \/ Advance(t) \/ Break(t)
       PROVE  Cursor'
  BY <1>14, LoopsKeep
<1>15. CASE UNCHANGED vars
  BY <1>15, UnchangedKeeps DEF vars, loops
<1>. HIDE DEF Cursor
<1>. QED
  BY <1>1, <1>2, <1>3, <1>4, <1>5, <1>6, <1>7, <1>8, <1>9, <1>10, <1>11, <1>12, <1>13,
     <1>14, <1>15, IdsAssumption DEF Next

LEMMA CursorInitially ==
  ASSUME Init
  PROVE  Cursor
<1>1. items \in Seq(Items)
  <2>1. Names \in Seq(Object) /\ Object \subseteq Items
    BY NamesAssumption DEF Items
  <2>2. Names \in Seq(Items)
    BY <2>1
  <2>. QED
    BY <2>2 DEF Init
<1>2. Len(items) \in Nat
  BY <1>1
<1>. QED
  BY <1>1, <1>2 DEF Init, Cursor, LoneLoop, NoPair, Items

(***************************************************************************)
(* A loop that has the tuple to itself ends: after the last item, or       *)
(* before one that is 0 or None.                                           *)
(***************************************************************************)
LEMMA EndsWhole ==
  ASSUME Cursor, [Next]_vars, NEW t \in alone, t \notin looping', ptr' = 0
  PROVE  given[t] = Len(items) \/ items[given[t] + 1] \in {Null, None}
<1>. /\ given[t] = ptr /\ t \in looping /\ \A s \in alone : s = t
     /\ Len(items) \in Nat /\ ptr \in 0..Len(items)
  BY DEF Cursor, LoneLoop
<1>1. PICK s \in Iterator : Advance(s) \/ Break(s)
  <2>1. looping' # looping
    OBVIOUS
  <2>. QED
    BY <2>1 DEF Next, vars, loops, SetDictItem, StoreGlobal, AppendDictItem, GetDictItem,
       DeleteDictItem, GetDictItemByName, Store, Load, Delete, ConvertToDict,
       ClearDictValues, Hold, Drop, AppendItem, InsertItem, Clear, BeginLoop,
       LoadSubscr, DeleteSubscr, StoreSubscr, Subscripted
<1>2. CASE Advance(s)
  BY <1>2 DEF Advance
<1>3. CASE Break(s)
  BY <1>3 DEF Break
<1>. QED
  BY <1>1, <1>2, <1>3

(***************************************************************************)
(* An iterator that has the tuple to itself has given as many items as the *)
(* position of the tuple says (iterators.c, tuple_GetNextItem).            *)
(***************************************************************************)
THEOREM LonePosition == Spec => []LoneLoop
<1>1. Cursor => LoneLoop
  BY DEF Cursor
<1>. QED
  BY CursorInitially, CursorInductive, <1>1, PTL DEF Spec

(***************************************************************************)
(* Such a loop gets every item, whatever it stores, appends or deletes.    *)
(***************************************************************************)
THEOREM WholeLoops == Spec => LoopsWhole
<1>1. Cursor /\ [Next]_vars =>
        [\A t \in alone :
           t \notin looping' /\ ptr' = 0 =>
             given[t] = Len(items) \/ items[given[t] + 1] \in {Null, None}]_vars
  BY EndsWhole
<1>. QED
  BY CursorInitially, CursorInductive, <1>1, PTL DEF Spec, LoopsWhole

(***************************************************************************)
(* Counting.  A set that differs from another in one element.              *)
(***************************************************************************)
One(b) == IF b THEN 1 ELSE 0

LEMMA OneDiffers ==
  ASSUME NEW A, IsFiniteSet(A), NEW B, NEW p, \A q : q # p => (q \in A <=> q \in B)
  PROVE  /\ IsFiniteSet(B)
         /\ Cardinality(A) \in Nat /\ Cardinality(B) \in Nat
         /\ Cardinality(B) = Cardinality(A) - One(p \in A) + One(p \in B)
<1>1. IsFiniteSet(A \ {p}) /\ Cardinality(A) \in Nat
      /\ Cardinality(A \ {p}) = IF p \in A THEN Cardinality(A) - 1 ELSE Cardinality(A)
  BY FS_RemoveElement, FS_CardinalityType
<1>2. CASE p \in B
  <2>1. B = (A \ {p}) \cup {p} /\ p \notin A \ {p}
    BY <1>2
  <2>2. IsFiniteSet(B) /\ Cardinality(B) = Cardinality(A \ {p}) + 1
    BY <1>1, <2>1, FS_AddElement
  <2>. QED
    BY <1>1, <1>2, <2>2, FS_CardinalityType DEF One
<1>3. CASE p \notin B
  <2>1. B = A \ {p}
    BY <1>3
  <2>. QED
    BY <1>1, <1>3, <2>1, FS_CardinalityType DEF One
<1>. QED
  BY <1>2, <1>3

LEMMA TimesType ==
  ASSUME NEW s, Len(s) \in Nat, NEW x
  PROVE  /\ IsFiniteSet(Positions(s, x)) /\ Times(s, x) \in Nat
         /\ (Times(s, x) = 0 <=> \A j \in 1..Len(s) : s[j] # x)
<1>1. Positions(s, x) \in SUBSET (1..Len(s)) /\ IsFiniteSet(1..Len(s))
  BY FS_Interval DEF Positions
<1>2. IsFiniteSet(Positions(s, x)) /\ Times(s, x) \in Nat
  BY <1>1, FS_Subset, FS_CardinalityType DEF Times
<1>3. Times(s, x) = 0 <=> Positions(s, x) = {}
  BY <1>2, FS_EmptySet DEF Times
<1>. QED
  BY <1>2, <1>3 DEF Positions

LEMMA TimesNone ==
  ASSUME NEW x
  PROVE  Positions(<< >>, x) = {} /\ Times(<< >>, x) = 0
<1>1. Positions(<< >>, x) = {}
  BY DEF Positions
<1>. QED
  BY <1>1, FS_EmptySet DEF Times

LEMMA TimesPush ==
  ASSUME NEW s, NEW t, Len(s) \in Nat, Len(t) = Len(s) + 1,
         \A i \in 1..Len(s) : t[i] = s[i], NEW x
  PROVE  Times(t, x) = Times(s, x) + One(t[Len(s) + 1] = x)
<1>1. \A q : q # Len(s) + 1 => (q \in Positions(s, x) <=> q \in Positions(t, x))
  BY DEF Positions
<1>2. Len(s) + 1 \notin Positions(s, x) /\ (Len(s) + 1 \in Positions(t, x) <=> t[Len(s) + 1] = x)
  BY DEF Positions
<1>3. Times(t, x) = Times(s, x) - One(Len(s) + 1 \in Positions(s, x))
                                + One(Len(s) + 1 \in Positions(t, x))
  BY <1>1, TimesType, OneDiffers DEF Times
<1>. QED
  BY <1>2, <1>3, TimesType DEF One

LEMMA TimesPut ==
  ASSUME NEW s, NEW t, Len(s) \in Nat, Len(t) = Len(s),
         NEW j \in 1..Len(s), \A i \in 1..Len(s) : i # j => t[i] = s[i], NEW x
  PROVE  Times(t, x) = Times(s, x) - One(s[j] = x) + One(t[j] = x)
<1>1. \A q : q # j => (q \in Positions(s, x) <=> q \in Positions(t, x))
  BY DEF Positions
<1>2. (j \in Positions(s, x) <=> s[j] = x) /\ (j \in Positions(t, x) <=> t[j] = x)
  BY DEF Positions
<1>3. Times(t, x) = Times(s, x) - One(j \in Positions(s, x)) + One(j \in Positions(t, x))
  BY <1>1, TimesType, OneDiffers DEF Times
<1>. QED
  BY <1>2, <1>3 DEF One

LEMMA TimesInsert ==
  ASSUME NEW s, NEW t, Len(s) \in Nat, Len(t) = Len(s) + 1,
         \A j \in 1..Len(s) : t[j + 1] = s[j], NEW x
  PROVE  Times(t, x) = Times(s, x) + One(t[1] = x)
<1> DEFINE P == Positions(s, x)
           Q == {j \in 2..(Len(s) + 1) : t[j] = x}
           f == [j \in P |-> j + 1]
<1>4. f \in Bijection(P, Q)
  <2>1. \A j \in P : f[j] \in Q
    BY DEF Positions
  <2>2. f \in [P -> Q]
    BY <2>1
  <2>3. \A i, j \in P : f[i] = f[j] => i = j
    BY DEF Positions
  <2>4. ASSUME NEW q \in Q PROVE \E j \in P : f[j] = q
    <3>1. q - 1 \in 1..Len(s) /\ (q - 1) + 1 = q
      OBVIOUS
    <3>2. q - 1 \in P
      BY <3>1 DEF Positions
    <3>3. f[q - 1] = q
      BY <3>1, <3>2
    <3>. QED
      BY <3>2, <3>3
  <2>. QED
    BY <2>2, <2>3, <2>4 DEF Bijection, Injection, Surjection, IsInjective
<1>5. IsFiniteSet(Q) /\ Cardinality(Q) = Times(s, x)
  <2>1. ExistsBijection(P, Q)
    BY <1>4, Zenon DEF ExistsBijection
  <2>. QED
    BY <2>1, TimesType, FS_Bijection DEF Times
<1>6. 1 \notin Q
  OBVIOUS
<1>7. \A q : q # 1 => (q \in Q <=> q \in Positions(t, x))
  BY DEF Positions
<1>8. 1 \in Positions(t, x) <=> t[1] = x
  BY DEF Positions
<1>. HIDE DEF Q
<1>9. Times(t, x) = Cardinality(Q) - One(1 \in Q) + One(1 \in Positions(t, x))
  BY <1>5, <1>7, OneDiffers DEF Times
<1>. QED
  BY <1>5, <1>6, <1>8, <1>9, TimesType DEF One

LEMMA TimesOne ==
  ASSUME NEW a, NEW x
  PROVE  /\ Times(<<a>>, x) = One(a = x) /\ Times(<<a>>, x) \in Nat
         /\ (Positions(<<a>>, x) # {} <=> a = x)
<1> DEFINE s == <<a>>
           P == Positions(s, x)
<1>1. Len(s) = 1 /\ s[1] = a
  OBVIOUS
<1>. HIDE DEF s
<1>2. \A q : q \in P <=> q = 1 /\ a = x
  BY <1>1 DEF Positions
<1>. HIDE DEF P
<1>3. Cardinality(P) = Cardinality({}) - One(1 \in {}) + One(1 \in P)
  <2>1. \A q : q # 1 => (q \in {} <=> q \in P)
    BY <1>2
  <2>. QED
    BY <2>1, OneDiffers, FS_EmptySet
<1>4. Cardinality(P) = One(a = x)
  BY <1>2, <1>3, FS_EmptySet DEF One
<1>. QED
  BY <1>2, <1>4 DEF P, s, Times, One

LEMMA TimesThree ==
  ASSUME NEW a, NEW b, NEW c, NEW x
  PROVE  /\ Times(<<a, b, c>>, x) = One(a = x) + One(b = x) + One(c = x)
         /\ Times(<<a, b, c>>, x) \in Nat
<1> DEFINE s    == <<a, b, c>>
           P(n) == {j \in 1..n : s[j] = x}
<1>1. Len(s) = 3 /\ s[1] = a /\ s[2] = b /\ s[3] = c
  OBVIOUS
<1>. HIDE DEF s
<1>2. ASSUME NEW n \in 0..2
      PROVE  IsFiniteSet(P(n)) => /\ IsFiniteSet(P(n + 1))
                                  /\ Cardinality(P(n + 1)) = Cardinality(P(n)) + One(s[n + 1] = x)
  <2>1. \A q : q # n + 1 => (q \in P(n) <=> q \in P(n + 1))
    OBVIOUS
  <2>2. n + 1 \notin P(n) /\ (n + 1 \in P(n + 1) <=> s[n + 1] = x)
    OBVIOUS
  <2>. HIDE DEF P
  <2>. QED
    BY <2>1, <2>2, OneDiffers, FS_CardinalityType DEF One
<1>3. P(0) = {}
  OBVIOUS
<1>4. Positions(s, x) = P(3)
  BY <1>1 DEF Positions
<1>. HIDE DEF P
<1>5. IsFiniteSet(P(0)) /\ Cardinality(P(0)) = 0
  BY <1>3, FS_EmptySet
<1>6. IsFiniteSet(P(1)) /\ Cardinality(P(1)) = One(a = x)
  BY <1>1, <1>2, <1>5 DEF One
<1>7. IsFiniteSet(P(2)) /\ Cardinality(P(2)) = One(a = x) + One(b = x)
  BY <1>1, <1>2, <1>6
<1>8. Cardinality(P(3)) = One(a = x) + One(b = x) + One(c = x)
  BY <1>1, <1>2, <1>7
<1>. QED
  BY <1>4, <1>8 DEF s, Times, One

(***************************************************************************)
(* The references to an object or a pair.                                  *)
(***************************************************************************)
Fielded == [Pair -> [key : Object \cup {Null}, value : Object \cup {Null}]]

Refs(its, pairs, others, x) ==
  Times(its, x) + IF x \in Pair THEN Cardinality(others \cap {x}) ELSE Fields(Pair, pairs, x)

Sound ==
  /\ items \in Seq(Items)
  /\ pair \in Fielded
  /\ count \in [Object \cup Pair -> Nat]
  /\ held \subseteq Pair
  /\ CountsExact

LEMMA CountIsRefs ==
  ASSUME Sound, NEW x \in Object \cup Pair
  PROVE  count[x] = Refs(items, pair, held, x)
BY IdsAssumption DEF Sound, CountsExact, Refs

WithKey(P, pairs, x) == {p \in P : pairs[p].key = x}
WithValue(P, pairs, x) == {p \in P : pairs[p].value = x}

LEMMA FieldsType ==
  ASSUME NEW P, P \subseteq Pair, NEW pairs, NEW x
  PROVE  /\ IsFiniteSet(WithKey(P, pairs, x)) /\ IsFiniteSet(WithValue(P, pairs, x))
         /\ Cardinality(WithKey(P, pairs, x)) \in Nat
         /\ Cardinality(WithValue(P, pairs, x)) \in Nat
         /\ Fields(P, pairs, x) =
              Cardinality(WithKey(P, pairs, x)) + Cardinality(WithValue(P, pairs, x))
         /\ Fields(P, pairs, x) \in Nat
<1>1. WithKey(P, pairs, x) \in SUBSET Pair /\ WithValue(P, pairs, x) \in SUBSET Pair
  BY DEF WithKey, WithValue
<1>2. IsFiniteSet(WithKey(P, pairs, x)) /\ IsFiniteSet(WithValue(P, pairs, x))
  BY <1>1, FS_Subset, IdsAssumption
<1>3. Fields(P, pairs, x) = Cardinality(WithKey(P, pairs, x)) + Cardinality(WithValue(P, pairs, x))
  BY DEF Fields, WithKey, WithValue
<1>. QED
  BY <1>2, <1>3, FS_CardinalityType

LEMMA HeldType ==
  ASSUME NEW others, NEW x
  PROVE  Cardinality(others \cap {x}) = One(x \in others) /\ Cardinality(others \cap {x}) \in Nat
<1>1. IsFiniteSet({x}) /\ Cardinality({x}) = 1 /\ IsFiniteSet({}) /\ Cardinality({}) = 0
  BY FS_Singleton, FS_EmptySet
<1>2. others \cap {x} = IF x \in others THEN {x} ELSE {}
  OBVIOUS
<1>. QED
  BY <1>1, <1>2 DEF One

LEMMA RefsType ==
  ASSUME NEW its, Len(its) \in Nat, NEW pairs, NEW others, NEW x
  PROVE  Refs(its, pairs, others, x) \in Nat
<1>1. Cardinality(others \cap {x}) \in Nat
  BY HeldType
<1>2. Fields(Pair, pairs, x) \in Nat
  BY FieldsType
<1>. QED
  BY <1>1, <1>2, TimesType DEF Refs

SameBut(p, pairs, others) == \A q \in Pair : q # p => others[q] = pairs[q]

(* One pair gets another key and another value. *)
LEMMA FieldsPut ==
  ASSUME NEW pairs, NEW others, NEW p \in Pair, SameBut(p, pairs, others), NEW x
  PROVE  Fields(Pair, others, x) =
           Fields(Pair, pairs, x) - One(pairs[p].key = x) - One(pairs[p].value = x)
                                  + One(others[p].key = x) + One(others[p].value = x)
<1> DEFINE K(f) == WithKey(Pair, f, x)
           V(f) == WithValue(Pair, f, x)
<1>0. IsFiniteSet(K(pairs)) /\ IsFiniteSet(V(pairs))
  BY FieldsType
<1>1. \A q : q # p => (q \in K(pairs) <=> q \in K(others)) /\ (q \in V(pairs) <=> q \in V(others))
  BY DEF SameBut, WithKey, WithValue
<1>2. /\ p \in K(pairs) <=> pairs[p].key = x
      /\ p \in K(others) <=> others[p].key = x
      /\ p \in V(pairs) <=> pairs[p].value = x
      /\ p \in V(others) <=> others[p].value = x
  BY DEF WithKey, WithValue
<1>3. /\ Fields(Pair, pairs, x) = Cardinality(K(pairs)) + Cardinality(V(pairs))
      /\ Fields(Pair, others, x) = Cardinality(K(others)) + Cardinality(V(others))
  BY FieldsType
<1>. HIDE DEF K, V
<1>4. /\ Cardinality(K(pairs)) \in Nat /\ Cardinality(V(pairs)) \in Nat
      /\ Cardinality(K(others)) = Cardinality(K(pairs)) - One(p \in K(pairs)) + One(p \in K(others))
      /\ Cardinality(V(others)) = Cardinality(V(pairs)) - One(p \in V(pairs)) + One(p \in V(others))
  BY <1>0, <1>1, OneDiffers
<1>. QED
  BY <1>2, <1>3, <1>4 DEF One

(* Pairs are swept. *)
LEMMA FieldsSweep ==
  ASSUME NEW pairs, NEW swept \in SUBSET Pair, NEW x, x # Null
  PROVE  Fields(Pair, [p \in Pair |-> IF p \in swept THEN NoPair ELSE pairs[p]], x) =
           Fields(Pair, pairs, x) - Fields(swept, pairs, x)
<1> DEFINE others  == [p \in Pair |-> IF p \in swept THEN NoPair ELSE pairs[p]]
           K(P, f) == WithKey(P, f, x)
           V(P, f) == WithValue(P, f, x)
<1>1. K(Pair, others) = K(Pair, pairs) \ swept /\ V(Pair, others) = V(Pair, pairs) \ swept
  BY DEF NoPair, WithKey, WithValue
<1>2. K(swept, pairs) = K(Pair, pairs) \cap swept /\ V(swept, pairs) = V(Pair, pairs) \cap swept
  BY DEF WithKey, WithValue
<1>3. IsFiniteSet(K(Pair, pairs)) /\ IsFiniteSet(V(Pair, pairs))
  BY FieldsType
<1>4. /\ Fields(Pair, pairs, x) = Cardinality(K(Pair, pairs)) + Cardinality(V(Pair, pairs))
      /\ Fields(Pair, others, x) = Cardinality(K(Pair, others)) + Cardinality(V(Pair, others))
      /\ Fields(swept, pairs, x) = Cardinality(K(swept, pairs)) + Cardinality(V(swept, pairs))
  BY FieldsType
<1>. HIDE DEF K, V
<1>5. /\ Cardinality(K(Pair, others)) = Cardinality(K(Pair, pairs)) - Cardinality(K(swept, pairs))
      /\ Cardinality(V(Pair, others)) = Cardinality(V(Pair, pairs)) - Cardinality(V(swept, pairs))
  BY <1>1, <1>2, <1>3, FS_Difference
<1>6. /\ Cardinality(K(Pair, pairs)) \in Nat /\ Cardinality(K(swept, pairs)) \in Nat
      /\ Cardinality(V(Pair, pairs)) \in Nat /\ Cardinality(V(swept, pairs)) \in Nat
  BY <1>2, <1>3, FS_Intersection, FS_CardinalityType
<1>. QED
  BY <1>4, <1>5, <1>6

(***************************************************************************)
(* When an operation counts and discounts what it changes the counts are   *)
(* exact again, and the pairs among the items are what it made of them.    *)
(***************************************************************************)
Exactly(its, pairs, more, less) ==
  /\ its \in Seq(Items) /\ pairs \in Fielded /\ held' \subseteq Pair
  /\ Update(its, pairs, more, less)
  /\ \A x \in Object \cup Pair : Counted(more, less)[x] = Refs(its, pairs, held', x)
  /\ \A p \in Pair :
       Counted(more, less)[p] = 0 => Positions(less, p) # {} \/ pairs[p] = NoPair

LEMMA UpdateExact ==
  ASSUME Sound, NEW its, NEW pairs, NEW more, NEW less, Exactly(its, pairs, more, less)
  PROVE  /\ Sound' /\ items' = its
         /\ \A j \in DOMAIN its : IsPair(its[j]) => pair'[its[j]] = pairs[its[j]]
<1>. USE DEF Exactly
<1> DEFINE n     == Counted(more, less)
           swept == {p \in Pair : Positions(less, p) # {} /\ n[p] = 0}
           sunk  == [p \in Pair |-> IF p \in swept THEN NoPair ELSE pairs[p]]
<1>1. /\ items' = its
      /\ pair' = sunk
      /\ count' = [x \in Object \cup Pair |-> n[x] - Fields(swept, pairs, x)]
  BY DEF Update
<1>2. swept \in SUBSET Pair /\ sunk \in Fielded
  BY DEF Fielded, NoPair
<1>3. Len(its) \in Nat
  OBVIOUS
<1>4. \A x \in Object \cup Pair : n[x] = Refs(its, pairs, held', x)
  OBVIOUS
<1>5. \A p \in Pair : n[p] = 0 => p \in swept \/ pairs[p] = NoPair
  OBVIOUS
<1>6. \A p \in swept : n[p] = 0
  OBVIOUS
<1>7. \A p \in Pair : sunk[p] = IF p \in swept THEN NoPair ELSE pairs[p]
  OBVIOUS
<1>8. \A x : x # Null => Fields(Pair, sunk, x) = Fields(Pair, pairs, x) - Fields(swept, pairs, x)
  BY <1>2, FieldsSweep
<1>17. its \in Seq(Items) /\ pairs \in Fielded /\ held' \subseteq Pair
  OBVIOUS
<1>. HIDE DEF n, swept, sunk, Exactly
<1>9. ASSUME NEW p \in Pair PROVE Fields(swept, pairs, p) = 0
  <2>1. WithKey(swept, pairs, p) = {} /\ WithValue(swept, pairs, p) = {}
    BY <1>2, <1>17, IdsAssumption DEF Fielded, WithKey, WithValue
  <2>. QED
    BY <1>2, <2>1, FieldsType, FS_EmptySet
<1>10. \A p \in Pair : count'[p] = Times(its, p) + Cardinality(held' \cap {p})
  <2>. TAKE p \in Pair
  <2>1. n[p] = Times(its, p) + Cardinality(held' \cap {p})
    BY <1>4 DEF Refs
  <2>2. Times(its, p) \in Nat /\ Cardinality(held' \cap {p}) \in Nat
    BY <1>3, TimesType, HeldType
  <2>. QED
    BY <1>1, <1>9, <2>1, <2>2
<1>11. ASSUME NEW x \in Object
       PROVE  count'[x] = Times(its, x) + Fields(Pair, sunk, x)
  <2>1. x \notin Pair /\ x # Null
    BY IdsAssumption
  <2>2. n[x] = Times(its, x) + Fields(Pair, pairs, x)
    BY <1>4, <2>1 DEF Refs
  <2>3. Fields(Pair, sunk, x) = Fields(Pair, pairs, x) - Fields(swept, pairs, x)
    BY <1>8, <2>1
  <2>4. Times(its, x) \in Nat /\ Fields(Pair, pairs, x) \in Nat /\ Fields(swept, pairs, x) \in Nat
    BY <1>2, <1>3, TimesType, FieldsType
  <2>. QED
    BY <1>1, <2>2, <2>3, <2>4
<1>12. \A p \in Pair : count'[p] = n[p] /\ n[p] \in Nat
  <2>. TAKE p \in Pair
  <2>1. n[p] = Refs(its, pairs, held', p) /\ Refs(its, pairs, held', p) \in Nat
    BY <1>3, <1>4, RefsType
  <2>. QED
    BY <1>1, <1>9, <2>1
<1>13. \A p \in Pair : count'[p] = 0 => sunk[p] = NoPair
  BY <1>5, <1>7, <1>12
<1>14. count' \in [Object \cup Pair -> Nat]
  <2>1. \A x \in Object : Times(its, x) + Fields(Pair, sunk, x) \in Nat
    BY <1>3, TimesType, FieldsType
  <2>. QED
    BY <1>1, <1>11, <1>12, <2>1
<1>15. Sound'
  BY <1>1, <1>17, <1>2, <1>10, <1>11, <1>13, <1>14 DEF Sound, CountsExact
<1>16. ASSUME NEW j \in DOMAIN its, IsPair(its[j]) PROVE sunk[its[j]] = pairs[its[j]]
  <2>1. its[j] \in Pair /\ j \in 1..Len(its)
    BY <1>16 DEF IsPair
  <2>2. Times(its, its[j]) # 0 /\ Times(its, its[j]) \in Nat
    BY <1>3, <2>1, TimesType
  <2>3. Cardinality(held' \cap {its[j]}) \in Nat
    BY HeldType
  <2>4. n[its[j]] # 0
    BY <1>10, <1>12, <2>1, <2>2, <2>3
  <2>. QED
    BY <1>6, <1>7, <2>1, <2>4
<1>. QED
  BY <1>1, <1>15, <1>16

(***************************************************************************)
(* Each operation does so.  Keeps: the pairs that stay in the tuple keep    *)
(* the key and the value that the operation leaves them.                   *)
(***************************************************************************)
Keeps(pairs) ==
  \A i \in DOMAIN items' : IsPair(items'[i]) => pair'[items'[i]] = pairs[items'[i]]

LEMMA Balanced ==
  ASSUME Sound, NEW more, NEW less, NEW x \in Object \cup Pair, NEW n \in Nat,
         Times(more, x) \in Nat, Times(less, x) \in Nat,
         n = Refs(items, pair, held, x) + Times(more, x) - Times(less, x)
  PROVE  Counted(more, less)[x] = n
BY CountIsRefs DEF Counted

LEMMA NoneGone ==
  ASSUME Sound, NEW p \in Pair, NEW more, NEW less,
         Times(more, p) \in Nat, Times(less, p) \in Nat, Counted(more, less)[p] = 0
  PROVE  Times(less, p) # 0 \/ (count[p] = 0 /\ pair[p] = NoPair)
<1>1. count[p] \in Nat
  BY DEF Sound
<1>2. Times(less, p) = 0 => count[p] = 0
  BY <1>1 DEF Counted
<1>. QED
  BY <1>2 DEF Sound, CountsExact

LEMMA OneType ==
  ASSUME NEW a, NEW x
  PROVE  One(a = x) \in {0, 1}
BY DEF One

LEMMA PutItemExact ==
  ASSUME Sound, held' = held, NEW j \in DOMAIN items, NEW o \in Items, PutItem(j, o)
  PROVE  Sound' /\ items' = [items EXCEPT ![j] = o] /\ Keeps(pair)
<1> DEFINE its  == [items EXCEPT ![j] = o]
           more == <<o>>
           less == <<items[j]>>
<1>1. items \in Seq(Items) /\ o \in Items /\ j \in 1..Len(items) /\ Len(items) \in Nat
  BY DEF Sound
<1>2. its \in Seq(Items) /\ Len(its) \in Nat
  <2>1. its \in Seq(Items)
    BY <1>1, Replaced
  <2>. QED
    BY <2>1
<1>3. Update(its, pair, more, less)
  BY DEF PutItem
<1>9. Len(its) = Len(items) /\ its[j] = o /\ \A i \in 1..Len(items) : i # j => its[i] = items[i]
  BY <1>1
<1>. HIDE DEF its
<1>4. ASSUME NEW x
      PROVE  /\ Times(its, x) = Times(items, x) - One(items[j] = x) + One(o = x)
             /\ Times(more, x) = One(o = x) /\ Times(more, x) \in Nat
             /\ Times(less, x) = One(items[j] = x) /\ Times(less, x) \in Nat
             /\ Positions(less, x) # {} <=> items[j] = x
  <2>1. Times(its, x) = Times(items, x) - One(items[j] = x) + One(o = x)
    BY <1>1, <1>9, TimesPut
  <2>. QED
    BY <2>1, TimesOne
<1>. HIDE DEF its, more, less
<1>5. ASSUME NEW x \in Object \cup Pair
      PROVE  Counted(more, less)[x] = Refs(its, pair, held', x)
  <2>1. /\ Times(items, x) \in Nat /\ Cardinality(held \cap {x}) \in Nat
        /\ Fields(Pair, pair, x) \in Nat
    BY <1>1, TimesType, HeldType, FieldsType
  <2>2. Refs(its, pair, held', x) = Refs(items, pair, held, x) + Times(more, x) - Times(less, x)
    BY <1>4, <2>1, OneType DEF Refs
  <2>3. Len(its) \in Nat /\ Times(more, x) \in Nat /\ Times(less, x) \in Nat
    BY <1>2, <1>4
  <2>4. Refs(its, pair, held', x) \in Nat
    BY <2>3, RefsType
  <2>. QED
    BY <2>2, <2>3, <2>4, Balanced
<1>6. ASSUME NEW p \in Pair, Counted(more, less)[p] = 0
      PROVE  Positions(less, p) # {} \/ pair[p] = NoPair
  BY <1>4, <1>6, NoneGone DEF One
<1>7. pair \in Fielded /\ held' \subseteq Pair
  BY DEF Sound
<1>8. /\ Sound' /\ items' = its
      /\ \A i \in DOMAIN its : IsPair(its[i]) => pair'[its[i]] = pair[its[i]]
  <2>1. \A x \in Object \cup Pair : Counted(more, less)[x] = Refs(its, pair, held', x)
    BY <1>5
  <2>2. \A p \in Pair : Counted(more, less)[p] = 0 => Positions(less, p) # {} \/ pair[p] = NoPair
    BY <1>6
  <2>3. Exactly(its, pair, more, less)
    BY <1>2, <1>3, <1>7, <2>1, <2>2 DEF Exactly
  <2>. QED
    BY <2>3, UpdateExact
<1>. QED
  BY <1>8 DEF its, Keeps, IsPair

LEMMA PutPairExact ==
  ASSUME Sound, held' = held, NEW j \in 1..(Len(items) + 1), NEW p \in Pair,
         NEW k \in Object \cup {Null}, NEW v \in Object \cup {Null}, PutPair(j, p, k, v)
  PROVE  /\ Sound' /\ \A i \in DOMAIN items : items[i] # p
         /\ items' = IF j > Len(items) THEN list_Push(items, p) ELSE [items EXCEPT ![j] = p]
         /\ Keeps([pair EXCEPT ![p] = [key |-> k, value |-> v]])
<1> DEFINE its   == IF j > Len(items) THEN list_Push(items, p) ELSE [items EXCEPT ![j] = p]
           pairs == [pair EXCEPT ![p] = [key |-> k, value |-> v]]
           more  == <<p, k, v>>
           less  == IF j > Len(items) THEN << >> ELSE <<items[j]>>
<1>1. /\ items \in Seq(Items) /\ p \in Items /\ Len(items) \in Nat /\ DOMAIN items = 1..Len(items)
      /\ pair \in Fielded
  BY DEF Sound, Items
<1>2. its \in Seq(Items)
  BY <1>1, Pushed, Replaced
<1>3. Update(its, pairs, more, less)
  BY DEF PutPair
<1>4. count[p] = 0 /\ pair[p] = NoPair
  BY DEF PutPair, Sound, CountsExact
<1>5. pairs \in Fielded /\ pairs[p] = [key |-> k, value |-> v] /\ \A q \in Pair : q # p => pairs[q] = pair[q]
  BY <1>1 DEF Fielded
<1>6. \A x : /\ Times(more, x) = One(p = x) + One(k = x) + One(v = x) /\ Times(more, x) \in Nat
             /\ Times(less, x) \in Nat
             /\ Times(its, x) = Times(items, x) - Times(less, x) + One(p = x)
             /\ Times(less, x) # 0 => Positions(less, x) # {}
  <2>. TAKE x
  <2>0. Times(items, x) \in Nat
    BY <1>1, TimesType
  <2>1. CASE j > Len(items)
    <3>2. Len(its) = Len(items) + 1 /\ its[Len(items) + 1] = p /\ \A i \in 1..Len(items) : its[i] = items[i]
      BY <1>1, <2>1 DEF list_Push
    <3>3. Times(less, x) = 0
      BY <2>1, TimesNone
    <3>. HIDE DEF its
    <3>1. Times(less, x) = 0 /\ Times(its, x) = Times(items, x) + One(p = x)
      BY <1>1, <3>2, <3>3, TimesPush
    <3>. QED
      BY <2>0, <3>1, TimesThree, OneType
  <2>2. CASE ~(j > Len(items))
    <3>1. /\ Times(less, x) = One(items[j] = x) /\ (Positions(less, x) # {} <=> items[j] = x)
          /\ Times(its, x) = Times(items, x) - One(items[j] = x) + One(p = x)
      <4>1. Len(its) = Len(items) /\ its[j] = p /\ \A i \in 1..Len(items) : i # j => its[i] = items[i]
        BY <1>1, <2>2
      <4>2. /\ Times(less, x) = One(items[j] = x) /\ (Positions(less, x) # {} <=> items[j] = x)
        BY <2>2, TimesOne
      <4>. HIDE DEF its
      <4>3. Times(its, x) = Times(items, x) - One(items[j] = x) + One(p = x)
        BY <1>1, <2>2, <4>1, TimesPut
      <4>. QED
        BY <4>2, <4>3
    <3>4. One(items[j] = x) \in {0, 1}
      BY OneType
    <3>5. /\ Times(more, x) = One(p = x) + One(k = x) + One(v = x) /\ Times(more, x) \in Nat
      BY TimesThree
    <3>6. One(items[j] = x) # 0 => Positions(less, x) # {}
      BY <3>1 DEF One
    <3>. QED
      BY <2>0, <3>1, <3>4, <3>5, <3>6
  <2>. QED
    BY <2>1, <2>2
<1>. HIDE DEF its, pairs, more, less
<1>7. Len(its) \in Nat
  BY <1>2
<1>8. ASSUME NEW x \in Object \cup Pair
      PROVE  Counted(more, less)[x] = Refs(its, pairs, held', x)
  <2>1. /\ Times(items, x) \in Nat /\ Cardinality(held \cap {x}) \in Nat
        /\ Fields(Pair, pair, x) \in Nat
    BY <1>1, TimesType, HeldType, FieldsType
  <2>4. Refs(its, pairs, held', x) \in Nat
    BY <1>7, RefsType
  <2>2. CASE x \in Pair
    <3>1. k # x /\ v # x
      BY <2>2, IdsAssumption
    <3>2. Refs(its, pairs, held', x) = Refs(items, pair, held, x) + Times(more, x) - Times(less, x)
      BY <1>6, <2>1, <2>2, <3>1 DEF Refs, One
    <3>. QED
      BY <1>6, <2>4, <3>2, Balanced
  <2>3. CASE x \in Object
    <3>1. p # x /\ Null # x /\ x \notin Pair
      BY <2>3, IdsAssumption
    <3>2. Fields(Pair, pairs, x) = Fields(Pair, pair, x) + One(k = x) + One(v = x)
      <4>0. SameBut(p, pair, pairs)
        BY <1>5 DEF SameBut
      <4>1. Fields(Pair, pairs, x) = Fields(Pair, pair, x)
               - One(pair[p].key = x) - One(pair[p].value = x)
               + One(pairs[p].key = x) + One(pairs[p].value = x)
        BY <4>0, FieldsPut
      <4>2. /\ pair[p].key = Null /\ pair[p].value = Null
            /\ pairs[p].key = k /\ pairs[p].value = v
        BY <1>4, <1>5 DEF NoPair
      <4>. QED
        BY <2>1, <3>1, <4>1, <4>2, OneType DEF One
    <3>4. /\ Times(more, x) = One(k = x) + One(v = x) /\ Times(less, x) \in Nat
          /\ Times(its, x) = Times(items, x) - Times(less, x)
      BY <1>6, <2>1, <3>1, OneType DEF One
    <3>5. /\ Refs(its, pairs, held', x) = Times(its, x) + Fields(Pair, pairs, x)
          /\ Refs(items, pair, held, x) = Times(items, x) + Fields(Pair, pair, x)
      BY <3>1 DEF Refs
    <3>6. One(k = x) \in Int /\ One(v = x) \in Int
      BY DEF One
    <3>3. Refs(its, pairs, held', x) = Refs(items, pair, held, x) + Times(more, x) - Times(less, x)
      BY <2>1, <3>2, <3>4, <3>5, <3>6
    <3>. QED
      BY <1>6, <2>4, <3>3, Balanced
  <2>. QED
    BY <2>2, <2>3
<1>9. Times(items, p) = 0
  <2>1. Times(items, p) \in Nat /\ Cardinality(held \cap {p}) \in Nat
    BY <1>1, TimesType, HeldType
  <2>2. count[p] = Times(items, p) + Cardinality(held \cap {p})
    BY DEF Sound, CountsExact
  <2>. QED
    BY <1>4, <2>1, <2>2
<1>10. \A i \in DOMAIN items : items[i] # p
  BY <1>1, <1>9, TimesType
<1>11. ASSUME NEW q \in Pair, Counted(more, less)[q] = 0
       PROVE  Positions(less, q) # {} \/ pairs[q] = NoPair
  <2>1. CASE q = p
    <3>1. Refs(its, pairs, held', p) = 0
      BY <1>8, <1>11, <2>1
    <3>2. Times(its, p) \in Nat /\ Cardinality(held' \cap {p}) \in Nat
      BY <1>7, TimesType, HeldType
    <3>3. Times(its, p) = 0
      BY <3>1, <3>2 DEF Refs
    <3>4. Times(less, p) # 0
      BY <1>6, <1>9, <3>3 DEF One
    <3>. QED
      BY <1>6, <2>1, <3>4
  <2>2. CASE q # p
    BY <1>5, <1>6, <1>11, <2>2, NoneGone
  <2>. QED
    BY <2>1, <2>2
<1>12. held' \subseteq Pair
  BY DEF Sound
<1>13. /\ Sound' /\ items' = its
       /\ \A i \in DOMAIN its : IsPair(its[i]) => pair'[its[i]] = pairs[its[i]]
  <2>1. Exactly(its, pairs, more, less)
    BY <1>2, <1>3, <1>5, <1>8, <1>11, <1>12 DEF Exactly
  <2>. QED
    BY <2>1, UpdateExact
<1>14. Keeps(pairs)
  BY <1>13 DEF Keeps, IsPair
<1>. QED
  BY <1>10, <1>13, <1>14 DEF its, pairs

LEMMA PutValueExact ==
  ASSUME Sound, held' = held, NEW j \in DOMAIN items, IsPair(items[j]),
         NEW v \in Object \cup {Null}, PutValue(items[j], v)
  PROVE  Sound' /\ items' = items /\ Keeps([pair EXCEPT ![items[j]].value = v])
<1> DEFINE p     == items[j]
           pairs == [pair EXCEPT ![p].value = v]
           more  == <<v>>
           less  == <<pair[p].value>>
<1>1. /\ items \in Seq(Items) /\ Len(items) \in Nat /\ p \in Pair /\ j \in 1..Len(items)
      /\ pair \in Fielded /\ held' \subseteq Pair
  BY DEF Sound, IsPair
<1>2. Update(items, pairs, more, less)
  BY DEF PutValue
<1>3. /\ pairs \in Fielded /\ SameBut(p, pair, pairs)
      /\ pairs[p].key = pair[p].key /\ pairs[p].value = v
      /\ pair[p].value \in Object \cup {Null}
  BY <1>1 DEF Fielded, SameBut
<1>4. \A x : /\ Times(more, x) = One(v = x) /\ Times(more, x) \in Nat
             /\ Times(less, x) = One(pair[p].value = x) /\ Times(less, x) \in Nat
  BY TimesOne
<1>. HIDE DEF p, pairs, more, less
<1>5. ASSUME NEW x \in Object \cup Pair
      PROVE  Counted(more, less)[x] = Refs(items, pairs, held', x)
  <2>1. /\ Times(items, x) \in Nat /\ Cardinality(held \cap {x}) \in Nat
        /\ Fields(Pair, pair, x) \in Nat
    BY <1>1, TimesType, HeldType, FieldsType
  <2>2. Refs(items, pairs, held', x) \in Nat
    BY <1>1, RefsType
  <2>3. CASE x \in Pair
    <3>1. One(v = x) = 0 /\ One(pair[p].value = x) = 0
      BY <1>3, <2>3, IdsAssumption DEF One
    <3>2. Refs(items, pairs, held', x) = Refs(items, pair, held, x) + Times(more, x) - Times(less, x)
      BY <1>4, <2>1, <2>3, <3>1 DEF Refs
    <3>. QED
      BY <1>4, <2>2, <3>2, Balanced
  <2>4. CASE x \in Object
    <3>1. x \notin Pair
      BY <2>4, IdsAssumption
    <3>2. Fields(Pair, pairs, x) = Fields(Pair, pair, x)
            - One(pair[p].key = x) - One(pair[p].value = x)
            + One(pairs[p].key = x) + One(pairs[p].value = x)
      BY <1>1, <1>3, FieldsPut
    <3>3. One(pair[p].key = x) \in Int /\ One(pair[p].value = x) \in Int /\ One(v = x) \in Int
      BY DEF One
    <3>4. Fields(Pair, pairs, x) = Fields(Pair, pair, x) - Times(less, x) + Times(more, x)
      BY <1>3, <1>4, <2>1, <3>2, <3>3
    <3>5. Refs(items, pairs, held', x) = Refs(items, pair, held, x) + Times(more, x) - Times(less, x)
      BY <1>4, <2>1, <3>1, <3>4 DEF Refs
    <3>. QED
      BY <1>4, <2>2, <3>5, Balanced
  <2>. QED
    BY <2>3, <2>4
<1>6. ASSUME NEW q \in Pair, Counted(more, less)[q] = 0
      PROVE  Positions(less, q) # {} \/ pairs[q] = NoPair
  <2>1. Times(less, q) = 0
    BY <1>3, <1>4, IdsAssumption DEF One
  <2>2. count[q] = 0 /\ pair[q] = NoPair
    BY <1>4, <1>6, <2>1, NoneGone
  <2>3. q # p
    <3>1. Times(items, p) # 0 /\ Times(items, p) \in Nat /\ Cardinality(held \cap {p}) \in Nat
      BY <1>1, TimesType, HeldType DEF p
    <3>2. count[p] = Times(items, p) + Cardinality(held \cap {p})
      BY <1>1 DEF Sound, CountsExact
    <3>. QED
      BY <2>2, <3>1, <3>2
  <2>. QED
    BY <1>3, <2>2, <2>3 DEF SameBut
<1>7. Exactly(items, pairs, more, less)
  BY <1>1, <1>2, <1>3, <1>5, <1>6 DEF Exactly
<1>8. /\ Sound' /\ items' = items
      /\ \A i \in DOMAIN items : IsPair(items[i]) => pair'[items[i]] = pairs[items[i]]
  BY <1>7, UpdateExact
<1>9. Keeps(pairs)
  BY <1>8 DEF Keeps, IsPair
<1>. QED
  BY <1>8, <1>9 DEF pairs, p

LEMMA HoldExact ==
  ASSUME Sound, NEW p \in Pair,
         \/ held' = held \cup {p} /\ p \notin held /\ Update(items, pair, <<p>>, << >>)
         \/ held' = held \ {p} /\ p \in held /\ Update(items, pair, << >>, <<p>>)
  PROVE  Sound' /\ items' = items /\ Keeps(pair)
<1> DEFINE in   == p \notin held
           more == IF in THEN <<p>> ELSE << >>
           less == IF in THEN << >> ELSE <<p>>
<1>1. /\ items \in Seq(Items) /\ Len(items) \in Nat /\ pair \in Fielded
      /\ held' \subseteq Pair /\ Update(items, pair, more, less)
  BY DEF Sound
<1>2. \A x : x # p => (x \in held' <=> x \in held)
  OBVIOUS
<1>3. in => p \in held'
  OBVIOUS
<1>3a. ~in => p \notin held'
  OBVIOUS
<1>4. \A x : /\ Times(more, x) = IF in THEN One(p = x) ELSE 0
             /\ Times(less, x) = IF in THEN 0 ELSE One(p = x)
             /\ Times(more, x) \in Nat /\ Times(less, x) \in Nat
             /\ Times(less, x) # 0 => Positions(less, x) # {}
  BY TimesOne, TimesNone DEF One
<1>4a. in <=> p \notin held
  OBVIOUS
<1>. HIDE DEF more, less, in
<1>5. ASSUME NEW x \in Object \cup Pair
      PROVE  Counted(more, less)[x] = Refs(items, pair, held', x)
  <2>1. /\ Times(items, x) \in Nat /\ Cardinality(held \cap {x}) = One(x \in held)
        /\ Cardinality(held' \cap {x}) = One(x \in held') /\ Fields(Pair, pair, x) \in Nat
    BY <1>1, TimesType, HeldType, FieldsType
  <2>2. Refs(items, pair, held', x) \in Nat
    BY <1>1, RefsType
  <2>3. CASE x \in Pair
    <3>1. One(x \in held') = One(x \in held) + Times(more, x) - Times(less, x)
      BY <1>2, <1>3, <1>3a, <1>4, <1>4a DEF One
    <3>3. One(x \in held) \in Nat /\ One(x \in held') \in Nat
      BY DEF One
    <3>4. /\ Refs(items, pair, held', x) = Times(items, x) + One(x \in held')
          /\ Refs(items, pair, held, x) = Times(items, x) + One(x \in held)
      BY <2>1, <2>3 DEF Refs
    <3>2. Refs(items, pair, held', x) = Refs(items, pair, held, x) + Times(more, x) - Times(less, x)
      BY <1>4, <2>1, <3>1, <3>3, <3>4
    <3>. QED
      BY <1>4, <2>2, <3>2, Balanced
  <2>4. CASE x \in Object
    <3>1. x \notin Pair /\ p # x
      BY <2>4, IdsAssumption
    <3>2. Refs(items, pair, held', x) = Refs(items, pair, held, x) + Times(more, x) - Times(less, x)
      BY <1>4, <2>1, <3>1 DEF Refs, One
    <3>. QED
      BY <1>4, <2>2, <3>2, Balanced
  <2>. QED
    BY <2>3, <2>4
<1>6. ASSUME NEW q \in Pair, Counted(more, less)[q] = 0
      PROVE  Positions(less, q) # {} \/ pair[q] = NoPair
  BY <1>4, <1>6, NoneGone
<1>7. Exactly(items, pair, more, less)
  BY <1>1, <1>5, <1>6 DEF Exactly
<1>8. /\ Sound' /\ items' = items
      /\ \A i \in DOMAIN items : IsPair(items[i]) => pair'[items[i]] = pair[items[i]]
  BY <1>7, UpdateExact
<1>. QED
  BY <1>8 DEF Keeps, IsPair

(* An object comes to a list, in front or behind. *)
LEMMA AddedExact ==
  ASSUME Sound, held' = held, NEW o \in Object, NEW its,
         its = list_Push(items, o) \/ its = list_Insert(items, 1, o),
         Update(its, pair, <<o>>, << >>)
  PROVE  Sound'
<1> DEFINE more == <<o>>
           less == << >>
<1>1. /\ items \in Seq(Items) /\ o \in Items /\ Len(items) \in Nat /\ pair \in Fielded
      /\ held' \subseteq Pair
  BY DEF Sound, Items
<1>2. its \in Seq(Items)
  BY <1>1, Pushed, Inserted
<1>3. Len(its) \in Nat
  BY <1>2
<1>4. ASSUME NEW x
      PROVE  Times(its, x) = Times(items, x) + One(o = x)
  <2>1. CASE its = list_Push(items, o)
    <3>1. Len(its) = Len(items) + 1 /\ its[Len(items) + 1] = o /\ \A i \in 1..Len(items) : its[i] = items[i]
      BY <1>1, <2>1 DEF list_Push
    <3>. QED
      BY <1>1, <3>1, TimesPush
  <2>2. CASE its = list_Insert(items, 1, o)
    <3>1. its = [i \in 1..(Len(items) + 1) |-> IF i < 1 THEN items[i] ELSE IF i = 1 THEN o ELSE items[i - 1]]
      BY <2>2 DEF list_Insert
    <3>2. Len(its) = Len(items) + 1
      BY <1>1, <1>3, <3>1
    <3>3. its[1] = o /\ \A i \in 1..Len(items) : its[i + 1] = items[i]
      BY <1>1, <3>1
    <3>. QED
      BY <1>1, <3>2, <3>3, TimesInsert
  <2>. QED
    BY <2>1, <2>2
<1>5. \A x : Times(more, x) = One(o = x) /\ Times(more, x) \in Nat /\ Times(less, x) = 0
  BY TimesOne, TimesNone
<1>. HIDE DEF more, less
<1>6. ASSUME NEW x \in Object \cup Pair
      PROVE  Counted(more, less)[x] = Refs(its, pair, held', x)
  <2>1. /\ Times(items, x) \in Nat /\ Cardinality(held \cap {x}) \in Nat
        /\ Fields(Pair, pair, x) \in Nat /\ Refs(its, pair, held', x) \in Nat
    BY <1>1, <1>3, TimesType, HeldType, FieldsType, RefsType
  <2>2. Refs(its, pair, held', x) = Refs(items, pair, held, x) + Times(more, x) - Times(less, x)
    BY <1>4, <1>5, <2>1 DEF Refs, One
  <2>. QED
    BY <1>5, <2>1, <2>2, Balanced
<1>7. ASSUME NEW q \in Pair, Counted(more, less)[q] = 0
      PROVE  Positions(less, q) # {} \/ pair[q] = NoPair
  BY <1>5, <1>7, NoneGone
<1>8. Exactly(its, pair, more, less)
  BY <1>1, <1>2, <1>6, <1>7 DEF Exactly, more, less
<1>. QED
  BY <1>8, UpdateExact

LEMMA ClearExact ==
  ASSUME Sound, held' = held, Update(<< >>, pair, << >>, items)
  PROVE  Sound'
<1>1. /\ items \in Seq(Items) /\ Len(items) \in Nat /\ pair \in Fielded
      /\ held' \subseteq Pair
  BY DEF Sound
<1> DEFINE its == << >>
<1>2. its \in Seq(Items) /\ Len(its) \in Nat /\ \A x : Times(its, x) = 0
  BY TimesNone
<1>. HIDE DEF its
<1>3. ASSUME NEW x \in Object \cup Pair
      PROVE  Counted(its, items)[x] = Refs(its, pair, held', x)
  <2>1. /\ Times(items, x) \in Nat /\ Cardinality(held \cap {x}) \in Nat
        /\ Fields(Pair, pair, x) \in Nat /\ Refs(its, pair, held', x) \in Nat
    BY <1>1, <1>2, TimesType, HeldType, FieldsType, RefsType
  <2>2. Refs(its, pair, held', x) = Refs(items, pair, held, x) + Times(its, x) - Times(items, x)
    BY <1>2, <2>1 DEF Refs
  <2>. QED
    BY <1>2, <2>1, <2>2, Balanced
<1>4. ASSUME NEW q \in Pair, Counted(its, items)[q] = 0
      PROVE  Positions(items, q) # {} \/ pair[q] = NoPair
  <2>1. Times(items, q) \in Nat /\ (Times(items, q) # 0 => Positions(items, q) # {})
    BY <1>1, TimesType, FS_EmptySet DEF Times
  <2>. QED
    BY <1>2, <1>4, <2>1, NoneGone
<1>5. Exactly(its, pair, its, items)
  BY <1>1, <1>2, <1>3, <1>4 DEF Exactly, its
<1>. QED
  BY <1>5, UpdateExact

Unbound == [j \in DOMAIN items |-> KeyOf(items[j])]

LEMMA UnboundType ==
  ASSUME Sound
  PROVE  /\ Unbound \in Seq(Items) /\ Len(Unbound) = Len(items)
         /\ \A j \in 1..Len(items) : Unbound[j] = KeyOf(items[j]) /\ Unbound[j] \in Object \cup {Null}
<1>1. items \in Seq(Items) /\ pair \in Fielded /\ DOMAIN items = 1..Len(items) /\ Len(items) \in Nat
  BY DEF Sound
<1>2. \A j \in 1..Len(items) : KeyOf(items[j]) \in Object \cup {Null}
  BY <1>1 DEF KeyOf, IsPair, Items, Fielded
<1>3. Unbound \in [1..Len(items) -> Items]
  BY <1>1, <1>2 DEF Unbound, Items
<1>4. Unbound \in Seq(Items) /\ Len(Unbound) = Len(items)
  BY <1>1, <1>3
<1>. QED
  BY <1>1, <1>2, <1>4 DEF Unbound

LEMMA UnboundExact ==
  ASSUME Sound, ClearDictValues
  PROVE  Sound' /\ items' = Unbound
<1> DEFINE pairs == [j \in DOMAIN items |-> IF IsPair(items[j]) THEN items[j] ELSE Null]
           keys  == [j \in DOMAIN items |-> IF IsPair(items[j]) THEN KeyOf(items[j]) ELSE Null]
           less  == pairs \o pairs
           n     == Len(items)
<1>1. /\ items \in Seq(Items) /\ n \in Nat /\ DOMAIN items = 1..n /\ pair \in Fielded
      /\ held = {} /\ held' = {}
  BY DEF Sound, ClearDictValues
<1>2. Update(Unbound, pair, keys, less)
  BY DEF ClearDictValues, Unbound
<1>3. /\ Unbound \in Seq(Items) /\ Len(Unbound) = n
      /\ \A j \in 1..n : Unbound[j] = KeyOf(items[j]) /\ Unbound[j] \in Object \cup {Null}
  BY UnboundType
<1>4. /\ Len(keys) = n
      /\ \A j \in 1..n : keys[j] = IF IsPair(items[j]) THEN Unbound[j] ELSE Null
  <2>1. keys \in [1..n -> Items]
    BY <1>1, <1>3 DEF Items
  <2>2. keys \in Seq(Items)
    BY <1>1, <2>1
  <2>. QED
    BY <1>1, <1>3, <2>1, <2>2
<1>5. /\ Len(less) = n + n
      /\ \A j \in 1..n : less[j] = (IF IsPair(items[j]) THEN items[j] ELSE Null)
                      /\ less[n + j] = less[j]
      /\ \A j \in 1..(n + n) : \E i \in 1..n : less[j] = IF IsPair(items[i]) THEN items[i] ELSE Null
  <2>1. pairs \in [1..n -> Pair \cup {Null}]
    BY <1>1 DEF IsPair
  <2>2. pairs \in Seq(Pair \cup {Null}) /\ Len(pairs) = n
    BY <1>1, <2>1
  <2>3. /\ Len(less) = n + n
        /\ \A j \in 1..(n + n) : less[j] = IF j <= n THEN pairs[j] ELSE pairs[j - n]
    BY <1>1, <2>2
  <2>4. \A j \in 1..n : pairs[j] = IF IsPair(items[j]) THEN items[j] ELSE Null
    BY <1>1
  <2>. HIDE DEF pairs, less
  <2>5. \A j \in 1..n : less[j] = pairs[j] /\ less[n + j] = pairs[j]
    BY <1>1, <2>3
  <2>6. ASSUME NEW j \in 1..(n + n)
        PROVE  \E i \in 1..n : less[j] = IF IsPair(items[i]) THEN items[i] ELSE Null
    <3>1. CASE j <= n
      BY <2>3, <2>4, <3>1
    <3>2. CASE ~(j <= n)
      <4>1. j - n \in 1..n /\ less[j] = pairs[j - n]
        BY <1>1, <2>3, <3>2
      <4>. QED
        BY <2>4, <4>1
    <3>. QED
      BY <3>1, <3>2
  <2>. QED
    BY <2>3, <2>4, <2>5, <2>6
<1>. HIDE DEF pairs, keys, less
<1>6. \A x : /\ Times(items, x) \in Nat /\ Times(keys, x) \in Nat /\ Times(less, x) \in Nat
             /\ Times(Unbound, x) \in Nat
             /\ IsFiniteSet(Positions(items, x)) /\ IsFiniteSet(Positions(keys, x))
             /\ IsFiniteSet(Positions(less, x))
  BY <1>1, <1>3, <1>4, <1>5, TimesType
<1>7. ASSUME NEW p \in Pair
      PROVE  Times(Unbound, p) = 0 /\ Times(keys, p) = 0 /\ Times(less, p) >= Times(items, p)
  <2>1. \A j \in 1..n : Unbound[j] # p /\ keys[j] # p
    BY <1>3, <1>4, IdsAssumption
  <2>2. Times(Unbound, p) = 0 /\ Times(keys, p) = 0
    BY <1>1, <1>3, <1>4, <2>1, TimesType
  <2>3. Positions(items, p) \in SUBSET Positions(less, p)
    BY <1>1, <1>5 DEF Positions, IsPair
  <2>4. Cardinality(Positions(items, p)) <= Cardinality(Positions(less, p))
    BY <1>6, <2>3, FS_Subset
  <2>. QED
    BY <1>6, <2>2, <2>4 DEF Times
<1>8. ASSUME NEW x \in Object
      PROVE  Times(less, x) = 0 /\ Times(Unbound, x) = Times(items, x) + Times(keys, x)
  <2>1. x # Null /\ x \notin Pair
    BY IdsAssumption
  <2>2. \A j \in 1..Len(less) : less[j] # x
    BY <1>5, <2>1 DEF IsPair
  <2>3. Times(less, x) = 0
    <3>1. Len(less) \in Nat
      BY <1>1, <1>5
    <3>. QED
      BY <2>2, <3>1, TimesType
  <2>4. Positions(Unbound, x) = Positions(items, x) \cup Positions(keys, x)
    BY <1>1, <1>3, <1>4, <2>1 DEF Positions, IsPair, KeyOf
  <2>5. Positions(items, x) \cap Positions(keys, x) = {}
    BY <1>1, <1>3, <1>4, <2>1 DEF Positions, IsPair
  <2>6. Cardinality(Positions(Unbound, x)) =
          Cardinality(Positions(items, x)) + Cardinality(Positions(keys, x)) - Cardinality({})
    BY <1>6, <2>4, <2>5, FS_Union
  <2>. QED
    BY <1>6, <2>3, <2>6, FS_EmptySet DEF Times
<1>9. ASSUME NEW x \in Object \cup Pair
      PROVE  Counted(keys, less)[x] = Refs(Unbound, pair, held', x)
  <2>1. CASE x \in Object
    <3>1. x \notin Pair
      BY <2>1, IdsAssumption
    <3>2. Refs(Unbound, pair, held', x) = Refs(items, pair, held, x) + Times(keys, x) - Times(less, x)
      <4>1. Fields(Pair, pair, x) \in Nat
        BY FieldsType
      <4>. QED
        BY <1>6, <1>8, <2>1, <3>1, <4>1 DEF Refs
    <3>3. Refs(Unbound, pair, held', x) \in Nat
      BY <1>1, <1>3, RefsType
    <3>. QED
      BY <1>6, <3>2, <3>3, Balanced
  <2>2. CASE x \in Pair
    <3>1. held \cap {x} = {} /\ held' \cap {x} = {}
      BY <1>1
    <3>2. Refs(Unbound, pair, held', x) = 0 /\ Refs(items, pair, held, x) = Times(items, x)
      BY <1>6, <1>7, <2>2, <3>1, FS_EmptySet DEF Refs
    <3>3. count[x] = Times(items, x)
      BY <3>2, CountIsRefs
    <3>. QED
      BY <1>6, <1>7, <2>2, <3>2, <3>3 DEF Counted
  <2>. QED
    BY <2>1, <2>2
<1>10. ASSUME NEW q \in Pair, Counted(keys, less)[q] = 0
       PROVE  Positions(less, q) # {} \/ pair[q] = NoPair
  <2>1. Times(less, q) # 0 => Positions(less, q) # {}
    BY FS_EmptySet DEF Times
  <2>. QED
    BY <1>6, <1>10, <2>1, NoneGone
<1>11. Exactly(Unbound, pair, keys, less)
  BY <1>1, <1>2, <1>3, <1>9, <1>10 DEF Exactly
<1>. QED
  BY <1>11, UpdateExact

(***************************************************************************)
(* What an operation does to the names and the values at the positions.    *)
(***************************************************************************)
KeyAt(i) == KeyOf(items[i])
ValueAt(i) == ValueOf(items[i])

(* Nothing but item j is another one. *)
Untouched(i) == items'[i] = items[i] /\ KeyAt(i)' = KeyAt(i) /\ ValueAt(i)' = ValueAt(i)

Bound(j, k, v) ==
  /\ Len(items') = IF j > Len(items) THEN Len(items) + 1 ELSE Len(items)
  /\ \A i \in 1..Len(items) : i # j => Untouched(i)
  /\ items'[j] # Null
  /\ KeyAt(j)' = IF j \in 1..Len(items) /\ IsPair(items[j]) THEN KeyAt(j) ELSE k
  /\ ValueAt(j)' = v

Unset(j) ==
  /\ Len(items') = Len(items)
  /\ \A i \in 1..Len(items) : i # j => Untouched(i)
  /\ items'[j] = Null

Quiet == Len(items') = Len(items) /\ \A i \in 1..Len(items) : Untouched(i)

LEMMA Same ==
  ASSUME NEW pairs, Keeps(pairs), NEW i \in DOMAIN items',
         IsPair(items'[i]) => pairs[items'[i]] = pair[items'[i]], items'[i] = items[i]
  PROVE  Untouched(i)
BY DEF Keeps, Untouched, KeyAt, ValueAt, KeyOf, ValueOf, IsPair

LEMMA QuietWhen ==
  ASSUME Sound, items' = items, Keeps(pair)
  PROVE  Quiet /\ (Once => Once')
<1>1. DOMAIN items' = 1..Len(items)
  BY DEF Sound
<1>2. \A i \in 1..Len(items) : Untouched(i)
  BY <1>1, Same
<1>. QED
  BY <1>2 DEF Quiet, Once, IsPair

LEMMA QuietStill ==
  ASSUME UNCHANGED <<items, pair>>, Sound
  PROVE  Quiet /\ (Once => Once')
BY QuietWhen DEF Keeps

LEMMA BindExact ==
  ASSUME Sound, Once, held' = held, NEW j \in 1..(Len(items) + 1),
         NEW k \in Object \cup {Null}, NEW v \in Object \cup {Null}, Bind(j, k, v)
  PROVE  Sound' /\ Once' /\ Bound(j, k, v)
<1>1. Len(items) \in Nat /\ DOMAIN items = 1..Len(items) /\ items \in Seq(Items) /\ pair \in Fielded
  BY DEF Sound
<1>2. CASE j \in DOMAIN items /\ IsPair(items[j])
  <2> DEFINE pairs == [pair EXCEPT ![items[j]].value = v]
  <2>1. PutValue(items[j], v)
    BY <1>2 DEF Bind
  <2>2. Sound' /\ items' = items /\ Keeps(pairs)
    BY <1>2, <2>1, PutValueExact
  <2>3. /\ \A q \in Pair : q # items[j] => pairs[q] = pair[q]
        /\ pairs[items[j]].key = pair[items[j]].key /\ pairs[items[j]].value = v
    BY <1>1, <1>2 DEF IsPair, Fielded
  <2>. HIDE DEF pairs
  <2>4. ASSUME NEW i \in 1..Len(items), i # j PROVE Untouched(i)
    <3>1. IsPair(items[i]) => items[i] # items[j]
      BY <1>1, <1>2, <2>4 DEF Once
    <3>2. IsPair(items'[i]) => pairs[items'[i]] = pair[items'[i]]
      BY <2>2, <2>3, <3>1 DEF IsPair
    <3>. QED
      BY <1>1, <2>2, <3>2, Same
  <2>5. /\ KeyAt(j)' = KeyAt(j) /\ ValueAt(j)' = v
    BY <1>2, <2>2, <2>3 DEF Keeps, KeyAt, ValueAt, KeyOf, ValueOf, IsPair
  <2>6. items[j] # Null
    BY <1>2, IdsAssumption DEF IsPair
  <2>7. Once'
    BY <2>2 DEF Once, IsPair
  <2>8. /\ Len(items') = IF j > Len(items) THEN Len(items) + 1 ELSE Len(items)
        /\ items'[j] # Null
    <3>1. ~(j > Len(items))
      BY <1>1, <1>2
    <3>2. items' = items
      BY <2>2
    <3>. QED
      BY <2>6, <3>1, <3>2
  <2>9. KeyAt(j)' = IF j \in 1..Len(items) /\ IsPair(items[j]) THEN KeyAt(j) ELSE k
    BY <1>1, <1>2, <2>5
  <2>. QED
    BY <2>2, <2>4, <2>5, <2>7, <2>8, <2>9 DEF Bound
<1>3. CASE ~(j \in DOMAIN items /\ IsPair(items[j]))
  <2>1. PICK p \in Pair : PutPair(j, p, k, v)
    BY <1>3 DEF Bind
  <2> DEFINE pairs == [pair EXCEPT ![p] = [key |-> k, value |-> v]]
  <2>2. /\ Sound' /\ \A i \in DOMAIN items : items[i] # p
        /\ items' = IF j > Len(items) THEN list_Push(items, p) ELSE [items EXCEPT ![j] = p]
        /\ Keeps(pairs)
    BY <2>1, PutPairExact
  <2>3. /\ \A q \in Pair : q # p => pairs[q] = pair[q]
        /\ pairs[p].key = k /\ pairs[p].value = v
    BY <1>1 DEF Fielded
  <2>. HIDE DEF pairs
  <2>4. /\ Len(items') = IF j > Len(items) THEN Len(items) + 1 ELSE Len(items)
        /\ DOMAIN items' = 1..Len(items')
        /\ items'[j] = p
        /\ \A i \in 1..Len(items) : i # j => items'[i] = items[i]
    BY <1>1, <2>2 DEF list_Push
  <2>5. j \in DOMAIN items' /\ \A i \in 1..Len(items) : i \in DOMAIN items'
    BY <1>1, <2>4
  <2>6. \A i \in DOMAIN items' : i = j \/ i \in 1..Len(items)
    BY <1>1, <2>4
  <2>7. ASSUME NEW i \in 1..Len(items), i # j PROVE Untouched(i)
    <3>1. items[i] # p /\ items'[i] = items[i]
      BY <1>1, <2>2, <2>4, <2>7
    <3>. QED
      BY <2>2, <2>3, <2>5, <3>1, Same DEF IsPair
  <2>8. /\ items'[j] # Null /\ KeyAt(j)' = k /\ ValueAt(j)' = v
    BY <2>2, <2>3, <2>4, <2>5, IdsAssumption DEF Keeps, KeyAt, ValueAt, KeyOf, ValueOf, IsPair
  <2>9. Once'
    BY <1>1, <2>2, <2>4, <2>6 DEF Once, IsPair
  <2>. QED
    BY <1>1, <1>3, <2>2, <2>4, <2>7, <2>8, <2>9 DEF Bound
<1>. QED
  BY <1>2, <1>3

LEMMA UnsetExact ==
  ASSUME Sound, Once, held' = held, NEW j \in 1..Len(items), PutItem(j, Null)
  PROVE  Sound' /\ Once' /\ Unset(j)
<1>1. Len(items) \in Nat /\ DOMAIN items = 1..Len(items) /\ items \in Seq(Items)
  BY DEF Sound
<1>2. Sound' /\ items' = [items EXCEPT ![j] = Null] /\ Keeps(pair)
  BY <1>1, PutItemExact DEF Items
<1>3. Len(items') = Len(items) /\ DOMAIN items' = 1..Len(items) /\ items'[j] = Null
      /\ \A i \in 1..Len(items) : i # j => items'[i] = items[i]
  BY <1>1, <1>2
<1>4. ASSUME NEW i \in 1..Len(items), i # j PROVE Untouched(i)
  BY <1>2, <1>3, <1>4, Same
<1>5. Once'
  BY <1>1, <1>3, IdsAssumption DEF Once, IsPair
<1>. QED
  BY <1>2, <1>3, <1>4, <1>5 DEF Unset

LEMMA IndexType ==
  ASSUME Sound, NEW k
  PROVE  /\ tuple_GetDictItemIndex(k) \in 0..Len(items)
         /\ HasKey(k) \subseteq 1..Len(items) /\ IsFiniteSet(HasKey(k))
         /\ (tuple_GetDictItemIndex(k) = 0 <=> HasKey(k) = {})
         /\ HasKey(k) # {} => /\ tuple_GetDictItemIndex(k) \in HasKey(k)
                              /\ \A i \in HasKey(k) : tuple_GetDictItemIndex(k) <= i
<1>1. Len(items) \in Nat /\ HasKey(k) \subseteq 1..Len(items)
  BY DEF Sound, HasKey
<1>2. IsFiniteSet(HasKey(k))
  <2>1. IsFiniteSet(1..Len(items)) /\ HasKey(k) \in SUBSET (1..Len(items))
    BY <1>1, FS_Interval
  <2>. QED
    BY <2>1, FS_Subset
<1>3. CASE HasKey(k) = {}
  BY <1>1, <1>2, <1>3 DEF tuple_GetDictItemIndex, IndexIn
<1>4. CASE HasKey(k) # {}
  <2>1. (\A i \in HasKey(k) : i \in Int) /\ 1 \in 1..Cardinality(HasKey(k))
    BY <1>1, <1>2, <1>4, FS_EmptySet, FS_CardinalityType
  <2> DEFINE S == HasKey(k)
             m == Ascending(S)[1]
  <2>. HIDE DEF S
  <2>2. m \in S /\ \A i \in S : m <= i
    <3>1. Cardinality(S) \in Nat /\ m \in S /\ \A n \in 1..Cardinality(S) : Ascending(S)[n] \in S
      BY <1>2, <2>1, AscendingType DEF S
    <3>2. ASSUME NEW i \in S PROVE m <= i
      <4>1. Rank(S, i) + 1 \in 1..Cardinality(S) /\ Ascending(S)[Rank(S, i) + 1] = i
        BY <1>2, <2>1, AscendingAt DEF S
      <4>2. CASE Rank(S, i) + 1 = 1
        BY <1>1, <2>1, <3>1, <4>1, <4>2 DEF S
      <4>3. CASE Rank(S, i) + 1 # 1
        <5>1. 1 < Rank(S, i) + 1
          BY <3>1, <4>1, <4>3
        <5>2. m < i
          BY <1>2, <2>1, <4>1, <5>1, AscendingOrdered DEF S
        <5>. QED
          BY <2>1, <3>1, <5>2 DEF S
      <4>. QED
        BY <4>2, <4>3
    <3>. QED
      BY <3>1, <3>2
  <2>3. IndexIn(S) \in S /\ \A i \in S : IndexIn(S) <= i
    BY <1>4, <2>2 DEF IndexIn, Earliest, S
  <2>. QED
    BY <1>1, <1>2, <1>4, <2>3 DEF tuple_GetDictItemIndex, S
<1>. QED
  BY <1>3, <1>4

(***************************************************************************)
(* The invariant.  A list has no pairs; no pair of variables is in two     *)
(* places and no two variables have one name; where no name is deleted     *)
(* every variable has its name, at the place of the name.                  *)
(***************************************************************************)
NamesIn ==
  use = "names" /\ ~deleted =>
    /\ ~locked
    /\ Len(Names) <= Len(items)
    /\ \A j \in 1..Len(items) : KeyAt(j) # Null
    /\ \A j \in 1..Len(Names) : KeyAt(j) = Names[j]

Distinct ==
  use = "names" =>
    \A i, j \in 1..Len(items) : KeyAt(i) # Null /\ KeyAt(i) = KeyAt(j) => i = j

TupleInv ==
  /\ use \in {"list", "dict", "names", "lost"}
  /\ Sound
  /\ use = "names" => Once
  /\ use = "list" => held = {} /\ \A j \in DOMAIN items : ~IsPair(items[j])
  /\ Distinct
  /\ NamesIn

LEMMA NamesType ==
  /\ Len(Names) \in Nat /\ DOMAIN Names = 1..Len(Names)
  /\ \A j \in 1..Len(Names) : Names[j] \in Object
BY NamesAssumption

LEMMA ItemsType ==
  ASSUME Sound
  PROVE  /\ Len(items) \in Nat /\ DOMAIN items = 1..Len(items)
         /\ \A j \in 1..Len(items) :
              /\ items[j] \in Items /\ ValueAt(j) \in Object \cup {Null}
              /\ KeyAt(j) \in Object \cup {Null}
              /\ KeyAt(j) # Null => items[j] # Null
              /\ ~IsPair(items[j]) => /\ KeyAt(j) = items[j] /\ ValueAt(j) = Null
                                      /\ items[j] \in Object \cup {Null}
<1>1. Len(items) \in Nat /\ DOMAIN items = 1..Len(items) /\ items \in Seq(Items) /\ pair \in Fielded
  BY DEF Sound
<1>. QED
  BY <1>1, IdsAssumption DEF KeyAt, ValueAt, KeyOf, ValueOf, IsPair, Items, Fielded

LEMMA BindOwn ==
  ASSUME Sound, Once, held' = held, NEW j \in 1..Len(items), NEW v \in Object \cup {Null},
         Bind(j, items[j], v)
  PROVE  Sound' /\ Once' /\ Bound(j, KeyAt(j), v)
<1>1. Len(items) \in Nat /\ DOMAIN items = 1..Len(items) /\ KeyAt(j) \in Object \cup {Null}
  BY ItemsType
<1>2. Bind(j, KeyAt(j), v)
  BY <1>1, ItemsType DEF Bind
<1>. QED
  BY <1>1, <1>2, BindExact

(* The four kinds of steps. *)
LEMMA QuietKeeps ==
  ASSUME TupleInv, Sound', Once', Quiet, UNCHANGED <<use, deleted>>,
         use = "list" => held' = held,
         locked' => locked \/ (\E i \in 1..Len(items) : items[i] = Null)
  PROVE  TupleInv'
<1>1. /\ DOMAIN items' = 1..Len(items) /\ DOMAIN items = 1..Len(items) /\ Len(items') = Len(items)
      /\ \A i \in 1..Len(items) : items'[i] = items[i] /\ KeyAt(i)' = KeyAt(i)
  BY ItemsType DEF TupleInv, Sound, Quiet, Untouched
<1>2. \A i \in 1..Len(items) : KeyAt(i) # Null => items[i] # Null
  BY ItemsType DEF TupleInv
<1>3. NamesIn'
  BY <1>1, <1>2, NamesType DEF TupleInv, NamesIn
<1>4. use' = "list" => held' = {} /\ \A j \in DOMAIN items' : ~IsPair(items'[j])
  BY <1>1 DEF TupleInv, IsPair
<1>5. Distinct'
  BY <1>1 DEF TupleInv, Distinct
<1>. QED
  BY <1>3, <1>4, <1>5 DEF TupleInv, IsPair

LEMMA BoundKeeps ==
  ASSUME TupleInv, NEW j \in 1..(Len(items) + 1), NEW k, NEW v, Sound', Once', Bound(j, k, v),
         UNCHANGED <<use, deleted, locked>>, use \in {"dict", "names"}, k # Null \/ j <= Len(items),
         j <= Len(items) => k = KeyAt(j),
         use = "names" /\ j > Len(items) => \A i \in 1..Len(items) : KeyAt(i) # k
  PROVE  TupleInv'
<1>1. /\ Len(items) \in Nat
      /\ Len(items') = IF j > Len(items) THEN Len(items) + 1 ELSE Len(items)
      /\ \A i \in 1..Len(items) : KeyAt(i)' = KeyAt(i)
      /\ j > Len(items) => KeyAt(j)' # Null
  <2>1. Len(items) \in Nat
    BY ItemsType DEF TupleInv
  <2>2. ASSUME NEW i \in 1..Len(items) PROVE KeyAt(i)' = KeyAt(i)
    BY <2>1 DEF Bound, Untouched
  <2>3. j > Len(items) => KeyAt(j)' # Null
    BY <2>1 DEF Bound
  <2>. QED
    BY <2>1, <2>2, <2>3 DEF Bound
<1>2. ASSUME NEW i \in 1..Len(items') PROVE i \in 1..Len(items) \/ (i = j /\ j > Len(items))
  BY <1>1, <1>2
<1>3. Len(items) <= Len(items') /\ Len(items') \in Nat
  BY <1>1
<1>4. NamesIn'
  <2>1. SUFFICES ASSUME use = "names", ~deleted PROVE NamesIn'
    BY DEF NamesIn
  <2>2. /\ ~locked /\ Len(Names) <= Len(items)
        /\ \A i \in 1..Len(items) : KeyAt(i) # Null
        /\ \A i \in 1..Len(Names) : KeyAt(i) = Names[i]
    BY <2>1 DEF TupleInv, NamesIn
  <2>3. \A i \in 1..Len(items') : KeyAt(i)' # Null
    BY <1>1, <1>2, <2>2
  <2>4. \A i \in 1..Len(Names) : KeyAt(i)' = Names[i]
    BY <1>1, <2>2, NamesType
  <2>5. Len(Names) <= Len(items')
    BY <1>1, <1>3, <2>2, NamesType
  <2>. QED
    BY <2>2, <2>3, <2>4, <2>5 DEF NamesIn
<1>5. Distinct'
  <2>1. SUFFICES ASSUME use = "names" PROVE Distinct'
    BY DEF Distinct
  <2>2. \A i, l \in 1..Len(items) : KeyAt(i) # Null /\ KeyAt(i) = KeyAt(l) => i = l
    BY <2>1 DEF TupleInv, Distinct
  <2>3. j > Len(items) => KeyAt(j)' = k /\ \A i \in 1..Len(items) : KeyAt(i) # k
    BY <1>1, <2>1 DEF Bound
  <2>. QED
    BY <1>1, <1>2, <2>2, <2>3 DEF Distinct
<1>. QED
  BY <1>4, <1>5 DEF TupleInv

LEMMA UnsetKeeps ==
  ASSUME TupleInv, Sound', Once', use' = use, use \in {"dict", "names"}, deleted' \/ use = "dict",
         NEW j \in 1..Len(items), Unset(j)
  PROVE  TupleInv'
<1>1. KeyAt(j)' = Null
  BY IdsAssumption DEF Unset, KeyAt, KeyOf, IsPair
<1>2. Distinct'
  BY <1>1 DEF TupleInv, Distinct, Unset, Untouched
<1>. QED
  BY <1>2 DEF TupleInv, NamesIn

(* What each operation on a dictionary or names does. *)
LEMMA SetDictItemDoes ==
  ASSUME TupleInv, Once, NEW k \in Object, NEW v \in Object \cup {Null}, SetDictItem(k, v)
  PROVE  /\ TupleInv'
         /\ IF HasKey(k) = {} THEN Bound(Len(items) + 1, k, v)
            ELSE Bound(tuple_GetDictItemIndex(k), k, v)
<1> DEFINE i == tuple_GetDictItemIndex(k)
           j == IF i = 0 THEN Len(items) + 1 ELSE i
<1>0. Sound /\ Once /\ Len(items) \in Nat /\ DOMAIN items = 1..Len(items)
  BY ItemsType DEF TupleInv
<1>1. /\ i \in 0..Len(items) /\ (i = 0 <=> HasKey(k) = {})
      /\ i # 0 => KeyAt(i) = k
  BY <1>0, IndexType DEF HasKey, KeyAt
<1>2. j \in 1..(Len(items) + 1) /\ Bind(j, k, v) /\ held' = held
  BY <1>0, <1>1 DEF SetDictItem
<1>3. UNCHANGED <<use, deleted, locked>> /\ use \in {"dict", "names"}
  BY DEF SetDictItem
<1>4. i = 0 <=> j > Len(items)
  BY <1>0, <1>1
<1>5. k # Null /\ (j <= Len(items) => k = KeyAt(j))
  BY <1>0, <1>1, IdsAssumption
<1>8. j > Len(items) => \A l \in 1..Len(items) : KeyAt(l) # k
  <2>1. \A l \in 1..Len(items) : KeyAt(l) = k => items[l] # Null
    BY <1>0, <1>5, ItemsType
  <2>2. j > Len(items) => HasKey(k) = {}
    BY <1>1, <1>4
  <2>. QED
    BY <1>0, <2>1, <2>2 DEF HasKey, KeyAt
<1>. HIDE DEF i, j
<1>6. Sound' /\ Once' /\ Bound(j, k, v)
  BY <1>0, <1>2, BindExact
<1>7. TupleInv'
  BY <1>2, <1>3, <1>5, <1>6, <1>8, BoundKeeps
<1>. QED
  BY <1>1, <1>6, <1>7 DEF i, j

LEMMA AppendDictItemDoes ==
  ASSUME TupleInv, Once, NEW k \in Object, NEW v \in Object, AppendDictItem(k, v)
  PROVE  TupleInv' /\ Bound(Len(items) + 1, k, v)
<1> DEFINE j == Len(items) + 1
<1>0. Sound /\ Once /\ Len(items) \in Nat /\ DOMAIN items = 1..Len(items)
  BY ItemsType DEF TupleInv
<1>2. j \in 1..(Len(items) + 1) /\ Bind(j, k, v) /\ held' = held
  BY <1>0 DEF AppendDictItem, Bind
<1>3. UNCHANGED <<use, deleted, locked>> /\ use \in {"dict", "names"} /\ use # "names"
  BY DEF AppendDictItem
<1>5. k # Null /\ ~(j <= Len(items))
  BY <1>0, IdsAssumption
<1>. HIDE DEF j
<1>6. Sound' /\ Once' /\ Bound(j, k, v)
  BY <1>0, <1>2, BindExact
<1>7. TupleInv'
  BY <1>2, <1>3, <1>5, <1>6, BoundKeeps
<1>. QED
  BY <1>6, <1>7 DEF j

(* Store, StoreGlobal, ConvertToDict: the item keeps its name. *)
LEMMA OwnDoes ==
  ASSUME TupleInv, Once, NEW j \in 1..Len(items), NEW v \in Object \cup {Null},
         use = "names", Bind(j, items[j], v), UNCHANGED <<use, held, deleted, locked>>
  PROVE  TupleInv' /\ Bound(j, KeyAt(j), v)
<1>0. Sound /\ Once /\ Len(items) \in Nat
  BY ItemsType DEF TupleInv
<1>1. Sound' /\ Once' /\ Bound(j, KeyAt(j), v)
  BY <1>0, BindOwn
<1>2. j \in 1..(Len(items) + 1) /\ j <= Len(items) /\ ~(j > Len(items)) /\ use \in {"dict", "names"}
  BY <1>0
<1>. QED
  BY <1>1, <1>2, BoundKeeps

LEMMA StoreDoes ==
  ASSUME TupleInv, Once, NEW j \in DOMAIN items, NEW v \in Object, Store(j, v)
  PROVE  TupleInv' /\ j \in 1..Len(items) /\ Bound(j, KeyAt(j), v)
BY OwnDoes, ItemsType DEF Store, TupleInv

LEMMA ConvertToDictDoes ==
  ASSUME TupleInv, Once, NEW j \in DOMAIN items, NEW p \in Pair, ConvertToDict(j, p)
  PROVE  /\ TupleInv' /\ j \in 1..Len(items) /\ Bound(j, KeyAt(j), Null)
         /\ ValueAt(j) = Null
<1>1. j \in 1..Len(items) /\ ~IsPair(items[j]) /\ ValueAt(j) = Null
  BY ItemsType DEF TupleInv, ConvertToDict
<1>2. Bind(j, items[j], Null)
  BY <1>1 DEF ConvertToDict, Bind
<1>. QED
  BY <1>1, <1>2, OwnDoes DEF ConvertToDict

LEMMA StoreGlobalDoes ==
  ASSUME TupleInv, Once, NEW k \in Object, NEW v \in Object \cup {Null}, StoreGlobal(k, v)
  PROVE  /\ TupleInv'
         /\ IF HasKey(k) = {} THEN UNCHANGED <<items, pair>>
            ELSE Bound(tuple_GetDictItemIndex(k), k, v)
<1> DEFINE j == tuple_GetDictItemIndex(k)
<1>0. Sound /\ Once /\ Len(items) \in Nat
  BY ItemsType DEF TupleInv
<1>1. /\ j \in 0..Len(items) /\ (j = 0 <=> HasKey(k) = {})
      /\ j # 0 => KeyAt(j) = k
  BY <1>0, IndexType DEF HasKey, KeyAt
<1>2. CASE j = 0
  <2>1. UNCHANGED <<use, items, pair, count, held, deleted, locked>>
    BY <1>2 DEF StoreGlobal
  <2>2. Sound'
    BY <1>0, <2>1 DEF Sound, CountsExact
  <2>3. Quiet /\ Once'
    BY <1>0, <2>1, QuietStill
  <2>. QED
    BY <1>1, <1>2, <2>1, <2>2, <2>3, QuietKeeps
<1>3. CASE j # 0
  <2>1. Bind(j, items[j], v) /\ use = "names" /\ UNCHANGED <<use, held, deleted, locked>>
    BY <1>3 DEF StoreGlobal
  <2>2. j \in 1..Len(items)
    BY <1>0, <1>1, <1>3
  <2>. HIDE DEF j
  <2>3. TupleInv' /\ Bound(j, KeyAt(j), v)
    BY <2>1, <2>2, OwnDoes
  <2>. QED
    BY <1>1, <1>3, <2>3 DEF j
<1>. QED
  BY <1>2, <1>3

LEMMA DeleteDictItemDoes ==
  ASSUME TupleInv, Once, NEW k \in Object, DeleteDictItem(k)
  PROVE  /\ TupleInv'
         /\ IF HasKey(k) = {} THEN UNCHANGED <<items, pair>>
            ELSE Unset(tuple_GetDictItemIndex(k))
<1> DEFINE j == tuple_GetDictItemIndex(k)
<1>0. Sound /\ Once /\ Len(items) \in Nat
  BY ItemsType DEF TupleInv
<1>1. /\ j \in 0..Len(items) /\ (j = 0 <=> HasKey(k) = {})
  BY <1>0, IndexType
<1>2. CASE j = 0
  <2>1. UNCHANGED <<use, items, pair, count, held, deleted, locked>>
    BY <1>2 DEF DeleteDictItem
  <2>2. Sound'
    BY <1>0, <2>1 DEF Sound, CountsExact
  <2>3. Quiet /\ Once'
    BY <1>0, <2>1, QuietStill
  <2>. QED
    BY <1>1, <1>2, <2>1, <2>2, <2>3, QuietKeeps
<1>3. CASE j # 0
  <2>1. PutItem(j, Null) /\ use = "dict" /\ use' = use /\ held' = held
    BY <1>3 DEF DeleteDictItem
  <2>2. j \in 1..Len(items)
    BY <1>0, <1>1, <1>3
  <2>. HIDE DEF j
  <2>3. Sound' /\ Once' /\ Unset(j)
    BY <1>0, <2>1, <2>2, UnsetExact
  <2>4. TupleInv'
    BY <2>1, <2>2, <2>3, UnsetKeeps
  <2>. QED
    BY <1>1, <1>3, <2>3, <2>4 DEF j
<1>. QED
  BY <1>2, <1>3

LEMMA DeleteDoes ==
  ASSUME TupleInv, Once, NEW j \in DOMAIN items, Delete(j)
  PROVE  TupleInv' /\ j \in 1..Len(items) /\ Unset(j)
<1>1. Sound /\ Once /\ j \in 1..Len(items)
  BY ItemsType DEF TupleInv
<1>2. Sound' /\ Once' /\ Unset(j)
  BY <1>1, UnsetExact DEF Delete
<1>. QED
  BY <1>1, <1>2, UnsetKeeps DEF Delete

LEMMA ClearDictValuesDoes ==
  ASSUME TupleInv, Once, ClearDictValues
  PROVE  /\ TupleInv' /\ Len(items') = Len(items)
         /\ \A j \in 1..Len(items) : KeyAt(j)' = KeyAt(j) /\ ValueAt(j)' = Null /\ items'[j] = KeyAt(j)
<1>0. Sound /\ Len(items) \in Nat
  BY ItemsType DEF TupleInv
<1>1. Sound' /\ items' = Unbound
  BY <1>0, UnboundExact
<1>2. /\ Len(Unbound) = Len(items)
      /\ \A j \in 1..Len(items) : Unbound[j] = KeyAt(j) /\ Unbound[j] \notin Pair
  BY <1>0, UnboundType, IdsAssumption DEF KeyAt
<1>3. \A j \in 1..Len(items) : KeyAt(j)' = KeyAt(j) /\ ValueAt(j)' = Null /\ items'[j] = KeyAt(j)
  BY <1>1, <1>2 DEF KeyAt, ValueAt, KeyOf, ValueOf, IsPair
<1>4. Once'
  <2>1. DOMAIN items' = 1..Len(items)
    BY <1>1, <1>2 DEF Sound
  <2>. QED
    BY <1>1, <1>2, <2>1 DEF Once, IsPair
<1>5. NamesIn'
  <2>1. use' = use /\ deleted' = deleted /\ locked' = locked /\ NamesIn
    BY DEF TupleInv, ClearDictValues
  <2>2. Len(items') = Len(items) /\ \A j \in 1..Len(items) : KeyAt(j)' = KeyAt(j)
    BY <1>1, <1>2, <1>3
  <2>3. Len(Names) <= Len(items) => \A j \in 1..Len(Names) : j \in 1..Len(items)
    BY <1>0, NamesType
  <2>. QED
    BY <2>1, <2>2, <2>3 DEF NamesIn
<1>6. Distinct'
  BY <1>1, <1>2, <1>3 DEF TupleInv, Distinct, ClearDictValues
<1>. QED
  BY <1>1, <1>2, <1>3, <1>4, <1>5, <1>6 DEF TupleInv, ClearDictValues

LEMMA StillDoes ==
  ASSUME TupleInv, Once, UNCHANGED <<use, items, pair, count, held, deleted>>,
         locked' => locked \/ (\E i \in 1..Len(items) : items[i] = Null)
  PROVE  TupleInv' /\ Quiet
<1>1. Sound /\ Once
  BY DEF TupleInv
<1>2. Sound'
  BY <1>1 DEF Sound, CountsExact
<1>3. Quiet /\ Once'
  BY <1>1, QuietStill
<1>. QED
  BY <1>2, <1>3, QuietKeeps

LEMMA HoldDoes ==
  ASSUME TupleInv, Once, NEW p \in Pair, Hold(p) \/ Drop(p)
  PROVE  TupleInv' /\ Quiet
<1>1. Sound /\ Once
  BY DEF TupleInv
<1>2. Sound' /\ items' = items /\ Keeps(pair)
  BY <1>1, HoldExact DEF Hold, Drop
<1>3. Quiet /\ Once'
  BY <1>1, <1>2, QuietWhen
<1>4. UNCHANGED <<use, deleted, locked>> /\ use # "list"
  BY DEF Hold, Drop, TupleInv
<1>. QED
  BY <1>2, <1>3, <1>4, QuietKeeps

(* A list has no pairs, whatever becomes of its items. *)
LEMMA ListDoes ==
  ASSUME TupleInv, use = "list", (\E o \in Object : AppendItem(o) \/ InsertItem(o)) \/ Clear
  PROVE  TupleInv'
<1>0. Sound /\ Len(items) \in Nat /\ \A j \in DOMAIN items : ~IsPair(items[j])
  BY ItemsType DEF TupleInv
<1>. DOMAIN items = 1..Len(items) /\ items \in Seq(Items)
  BY <1>0 DEF Sound
<1>1. SUFFICES Sound' /\ \A j \in DOMAIN items' : ~IsPair(items'[j])
  <2>1. use' = use /\ held' = held
    BY DEF AppendItem, InsertItem, Clear
  <2>. QED
    BY <1>1, <2>1 DEF TupleInv, NamesIn, Distinct, IsPair
<1>2. ASSUME NEW o \in Object, AppendItem(o)
      PROVE  Sound' /\ \A j \in DOMAIN items' : ~IsPair(items'[j])
  <2>1. Update(list_Push(items, o), pair, <<o>>, << >>) /\ held' = held
    BY <1>2 DEF AppendItem
  <2>2. Sound' /\ items' = list_Push(items, o)
    BY <1>0, <2>1, AddedExact DEF Update
  <2>. QED
    BY <1>0, <2>2, IdsAssumption DEF list_Push, IsPair
<1>3. ASSUME NEW o \in Object, InsertItem(o)
      PROVE  Sound' /\ \A j \in DOMAIN items' : ~IsPair(items'[j])
  <2>1. Update(list_Insert(items, 1, o), pair, <<o>>, << >>) /\ held' = held
    BY <1>3 DEF InsertItem
  <2>2. Sound' /\ items' = list_Insert(items, 1, o)
    BY <1>0, <2>1, AddedExact DEF Update
  <2>. QED
    BY <1>0, <2>2, IdsAssumption DEF list_Insert, IsPair
<1>4. CASE Clear
  <2>1. Update(<< >>, pair, << >>, items) /\ held' = held
    BY <1>4 DEF Clear
  <2>2. Sound' /\ items' = << >>
    BY <1>0, <2>1, ClearExact DEF Update
  <2>. QED
    BY <2>2
<1>. QED
  BY <1>2, <1>3, <1>4

(* An index behind the items does nothing, and one between them puts an    *)
(* item in the place of another: the counts are right also when that is a  *)
(* pair that the dictionary has in another place.                          *)
LEMMA SetItemExact ==
  ASSUME Sound, NEW i \in Int, NEW o \in Items, SetItem(i, o), held' = held
  PROVE  /\ Sound' /\ use' \in {use, "lost"}
         /\ (\A j \in DOMAIN items : ~IsPair(items[j])) /\ o \notin Pair =>
              \A j \in DOMAIN items' : ~IsPair(items'[j])
<1>1. Len(items) \in Nat /\ DOMAIN items = 1..Len(items) /\ items \in Seq(Items)
  BY ItemsType DEF Sound
<1>2. CASE UNCHANGED <<items, pair, count>>
  BY <1>2 DEF SetItem, Sound, CountsExact, IsPair
<1>3. CASE ~Behind(i) /\ ~Before(i) /\ PutItem(Position(i), o)
  <2>1. Position(i) \in DOMAIN items
    BY <1>1, <1>3 DEF Position, Behind, Before
  <2>2. Sound' /\ items' = [items EXCEPT ![Position(i)] = o]
    BY <1>3, <2>1, PutItemExact
  <2>. QED
    BY <1>1, <2>1, <2>2 DEF SetItem, IsPair
<1>. QED
  BY <1>2, <1>3 DEF SetItem

LEMMA SubscrDoes ==
  ASSUME TupleInv, NEW i \in Subscript, NEW o \in Object \cup Pair,
         LoadSubscr(i) \/ DeleteSubscr(i) \/ StoreSubscr(i, o)
  PROVE  TupleInv'
<1>0. Sound /\ i \in Int /\ Len(items) \in Nat /\ Null \in Items /\ Null \notin Pair
  BY ItemsType, SubscriptAssumption, IdsAssumption DEF TupleInv, Items
<1>1. use \in {"list", "dict"} /\ held' = held
  BY DEF LoadSubscr, DeleteSubscr, StoreSubscr, Subscripted
<1>2. SUFFICES /\ Sound' /\ use' \in {use, "lost"}
               /\ use = "list" => \A j \in DOMAIN items' : ~IsPair(items'[j])
  BY <1>1, <1>2 DEF TupleInv, NamesIn, Distinct
<1>3. CASE StoreSubscr(i, o)
  <2>1. o \in Items /\ SetItem(i, o) /\ (use = "list" => o \notin Pair)
    BY <1>3, IdsAssumption DEF StoreSubscr, TupleInv, Items
  <2>. QED
    BY <1>0, <1>1, <2>1, SetItemExact DEF TupleInv
<1>4. CASE UNCHANGED <<items, pair, count>> /\ use' \in {use, "lost"}
  BY <1>0, <1>1, <1>4 DEF TupleInv, Sound, CountsExact, IsPair
<1>5. CASE DeleteSubscr(i)
  <2>1. PICK n \in Int : SetItem(n, Null) \/ UNCHANGED <<use, items, pair, count>>
    BY <1>0, <1>5 DEF DeleteSubscr
  <2>2. CASE SetItem(n, Null)
    BY <1>0, <1>1, <2>2, SetItemExact DEF TupleInv
  <2>. QED
    BY <1>4, <2>1, <2>2
<1>6. CASE LoadSubscr(i)
  BY <1>4, <1>6 DEF LoadSubscr
<1>. QED
  BY <1>3, <1>5, <1>6

(* Where a pair is in two places, the tuple is a dictionary, and an        *)
(* operation may change two of its bindings; the counts stay exact.        *)
LEMMA SharedDoes ==
  ASSUME TupleInv, ~Once, [Next]_vars
  PROVE  TupleInv'
<1>0. Sound /\ Len(items) \in Nat /\ DOMAIN items = 1..Len(items) /\ use \notin {"names", "list"}
  BY ItemsType DEF TupleInv, Once
<1>. SUFFICES ASSUME \A i \in Subscript : ~LoadSubscr(i) /\ ~DeleteSubscr(i),
                      \A i \in Subscript, o \in Object \cup Pair : ~StoreSubscr(i, o)
              PROVE  Sound' /\ use' = use
  BY <1>0, SubscrDoes, IdsAssumption DEF TupleInv, NamesIn, Distinct
<1>2. ASSUME UNCHANGED <<items, pair, count, held>>
      PROVE  Sound'
  BY <1>0, <1>2 DEF Sound, CountsExact
<1>3. ASSUME NEW j \in 1..(Len(items) + 1), NEW k \in Object \cup {Null},
             NEW v \in Object \cup {Null}, Bind(j, k, v), held' = held
      PROVE  Sound'
  <2>1. CASE j \in DOMAIN items /\ IsPair(items[j])
    BY <1>0, <1>3, <2>1, PutValueExact DEF Bind
  <2>2. CASE ~(j \in DOMAIN items /\ IsPair(items[j]))
    BY <1>0, <1>3, <2>2, PutPairExact DEF Bind
  <2>. QED
    BY <2>1, <2>2
<1>4. ASSUME NEW k \in Object, NEW v \in Object \cup {Null}, SetDictItem(k, v)
      PROVE  Sound' /\ use' = use
  <2> DEFINE i == tuple_GetDictItemIndex(k)
             j == IF i = 0 THEN Len(items) + 1 ELSE i
  <2>1. Bind(j, k, v) /\ held' = held /\ use' = use
    BY <1>4 DEF SetDictItem
  <2>2. j \in 1..(Len(items) + 1)
    BY <1>0, IndexType
  <2>. HIDE DEF j
  <2>. QED
    BY <1>3, <2>1, <2>2
<1>5. ASSUME NEW k \in Object, NEW v \in Object, AppendDictItem(k, v)
      PROVE  Sound' /\ use' = use
  <2>1. PICK p \in Pair : PutPair(Len(items) + 1, p, k, v)
    BY <1>5 DEF AppendDictItem
  <2>2. PICK j \in 1..(Len(items) + 1) : j = Len(items) + 1
    BY <1>0
  <2>. QED
    BY <1>0, <1>5, <2>1, <2>2, PutPairExact DEF AppendDictItem
<1>6. ASSUME NEW k \in Object, GetDictItem(k)
      PROVE  Sound' /\ use' = use
  BY <1>2, <1>6 DEF GetDictItem
<1>7. ASSUME NEW k \in Object, DeleteDictItem(k)
      PROVE  Sound' /\ use' = use
  <2>1. CASE tuple_GetDictItemIndex(k) = 0
    BY <1>2, <1>7, <2>1 DEF DeleteDictItem
  <2>2. CASE tuple_GetDictItemIndex(k) # 0
    <3>1. tuple_GetDictItemIndex(k) \in DOMAIN items /\ Null \in Items
      BY <1>0, <2>2, IndexType DEF Items
    <3>. QED
      BY <1>0, <1>7, <2>2, <3>1, PutItemExact DEF DeleteDictItem
  <2>. QED
    BY <2>1, <2>2
<1>8. ASSUME NEW p \in Pair, Hold(p) \/ Drop(p)
      PROVE  Sound' /\ use' = use
  BY <1>0, <1>8, HoldExact DEF Hold, Drop
<1>9. CASE UNCHANGED vars
  BY <1>2, <1>9 DEF vars
<1>. QED
  BY <1>0, <1>4, <1>5, <1>6, <1>7, <1>8, <1>9 DEF Next, StoreGlobal, GetDictItemByName,
     Store, Load, Delete, ConvertToDict, ClearDictValues, AppendItem, InsertItem, Clear,
     BeginLoop, Advance, Break

LEMMA TupleInvInductive ==
  ASSUME TupleInv, [Next]_vars
  PROVE  TupleInv'
<1>. SUFFICES ASSUME Once PROVE TupleInv'
  BY SharedDoes
<1>1. ASSUME NEW k \in Object, NEW v \in Object \cup {Null}, SetDictItem(k, v) \/ StoreGlobal(k, v)
      PROVE  TupleInv'
  BY <1>1, SetDictItemDoes, StoreGlobalDoes
<1>2. ASSUME NEW k \in Object, NEW v \in Object, AppendDictItem(k, v)
      PROVE  TupleInv'
  BY <1>2, AppendDictItemDoes
<1>3. ASSUME NEW k \in Object, GetDictItem(k)
      PROVE  TupleInv'
  BY <1>3, StillDoes DEF GetDictItem
<1>4. ASSUME NEW k \in Object, GetDictItemByName(k)
      PROVE  TupleInv'
  <2>1. Len(items) \in Nat /\ DOMAIN items = 1..Len(items)
    BY ItemsType DEF TupleInv
  <2>2. LeavesLock(k) => \E i \in 1..Len(items) : items[i] = Null
    BY <2>1 DEF LeavesLock
  <2>3. locked' => locked \/ LeavesLock(k)
    BY <1>4, Zenon DEF GetDictItemByName
  <2>4. locked' => locked \/ (\E i \in 1..Len(items) : items[i] = Null)
    BY <2>2, <2>3
  <2>. QED
    BY <1>4, <2>4, StillDoes DEF GetDictItemByName
<1>5. ASSUME NEW k \in Object, DeleteDictItem(k)
      PROVE  TupleInv'
  BY <1>5, DeleteDictItemDoes
<1>6. ASSUME NEW j \in DOMAIN items, NEW v \in Object, Store(j, v)
      PROVE  TupleInv'
  BY <1>6, StoreDoes
<1>7. ASSUME NEW j \in DOMAIN items, Load(j) \/ Delete(j)
      PROVE  TupleInv'
  BY <1>7, StillDoes, DeleteDoes DEF Load
<1>8. ASSUME NEW j \in DOMAIN items, NEW p \in Pair, ConvertToDict(j, p)
      PROVE  TupleInv'
  BY <1>8, ConvertToDictDoes
<1>9. CASE ClearDictValues
  BY <1>9, ClearDictValuesDoes
<1>10. ASSUME NEW p \in Pair, Hold(p) \/ Drop(p)
       PROVE  TupleInv'
  BY <1>10, HoldDoes
<1>11. CASE (\E o \in Object : AppendItem(o) \/ InsertItem(o)) \/ Clear
  BY <1>11, ListDoes DEF AppendItem, InsertItem, Clear
<1>12. ASSUME NEW t \in Iterator, BeginLoop(t) \/ Advance(t) \/ Break(t)
       PROVE  TupleInv'
  BY <1>12, StillDoes DEF BeginLoop, Advance, Break
<1>13. ASSUME NEW i \in Subscript, NEW o \in Object \cup Pair,
              LoadSubscr(i) \/ DeleteSubscr(i) \/ StoreSubscr(i, o)
       PROVE  TupleInv'
  BY <1>13, SubscrDoes
<1>14. CASE UNCHANGED vars
  BY <1>14, StillDoes DEF vars
<1>. QED
  BY <1>1, <1>2, <1>3, <1>4, <1>5, <1>6, <1>7, <1>8, <1>9, <1>10, <1>11, <1>12, <1>13, <1>14,
     IdsAssumption DEF Next

LEMMA TupleInvInitially ==
  ASSUME Init
  PROVE  TupleInv
<1>1. items \in Seq(Object) /\ (use # "names" => items = << >>) /\ (use = "names" => items = Names)
  BY NamesAssumption DEF Init
<1>2. items \in Seq(Items) /\ Len(items) \in Nat /\ \A j \in 1..Len(items) : items[j] \in Object
  <2>1. Object \subseteq Items
    BY DEF Items
  <2>. QED
    BY <1>1, <2>1
<1>3. pair = [p \in Pair |-> NoPair] /\ pair \in Fielded
  BY DEF Init, Fielded, NoPair
<1>4. \A x : Times(items, x) \in Nat
  BY <1>2, TimesType
<1>5. ASSUME NEW p \in Pair
      PROVE  Times(items, p) = 0 /\ Cardinality(held \cap {p}) = 0
  <2>1. \A j \in 1..Len(items) : items[j] # p
    BY <1>2, IdsAssumption
  <2>2. held \cap {p} = {}
    BY DEF Init
  <2>. QED
    BY <1>2, <2>1, <2>2, TimesType, FS_EmptySet
<1>6. ASSUME NEW x \in Object
      PROVE  Fields(Pair, pair, x) = 0
  <2>1. WithKey(Pair, pair, x) = {} /\ WithValue(Pair, pair, x) = {}
    BY <1>3, IdsAssumption DEF WithKey, WithValue, NoPair
  <2>. QED
    BY <2>1, FieldsType, FS_EmptySet
<1>7. count = [x \in Object \cup Pair |-> Times(items, x)]
  BY DEF Init
<1>8. CountsExact
  BY <1>3, <1>4, <1>5, <1>6, <1>7 DEF CountsExact
<1>9. Sound
  BY <1>2, <1>3, <1>4, <1>7, <1>8 DEF Sound, Init
<1>10. \A j \in DOMAIN items : ~IsPair(items[j])
  BY <1>2, IdsAssumption DEF IsPair
<1>11. \A j \in 1..Len(items) : KeyAt(j) = items[j] /\ KeyAt(j) # Null
  BY <1>2, IdsAssumption DEF KeyAt, KeyOf, IsPair
<1>12. NamesIn
  BY <1>1, <1>2, <1>11, NamesType DEF NamesIn, Init
<1>13. Distinct
  BY <1>1, <1>11, NamesType, NamesAssumption DEF Distinct
<1>. QED
  BY <1>9, <1>10, <1>12, <1>13 DEF TupleInv, Once, Init

(***************************************************************************)
(* The counts of tuples.c and object.c are exact after every operation,    *)
(* for any number of objects and pairs: a pair is swept when nothing       *)
(* refers to it, and not before.                                           *)
(***************************************************************************)
THEOREM CountsStayExact == Spec => []CountsExact
<1>1. TupleInv => CountsExact
  BY DEF TupleInv, Sound
<1>. QED
  BY TupleInvInitially, TupleInvInductive, <1>1, PTL DEF Spec

(***************************************************************************)
(* Where no name is deleted tuple_GetDictItemByName leaves no lock, every  *)
(* pair has a name, and every variable keeps the place of its name.        *)
(***************************************************************************)
THEOREM NamesStay == Spec => []NamesKept
<1>1. TupleInv => NamesKept
  <2>1. ASSUME TupleInv PROVE NamesKept
    <3>1. DOMAIN items = 1..Len(items)
      BY <2>1, ItemsType DEF TupleInv
    <3>. QED
      BY <2>1, <3>1, NamesType DEF TupleInv, NamesIn, NamesKept, KeyAt
  <2>. QED
    BY <2>1
<1>. QED
  BY TupleInvInitially, TupleInvInductive, <1>1, PTL DEF Spec

(***************************************************************************)
(* The tuple as a dictionary: the values at the positions of a name, one   *)
(* after the other.                                                        *)
(***************************************************************************)
Picked(H, f) == [n \in 1..Cardinality(H) |-> f[Ascending(H)[n]]]

Agree(H, f, g) == \A i \in H : f[i] = g[i]
AllBefore(H, m) == \A i \in H : i < m
Images(H, f) == {f[i] : i \in H}

Added(s, x) == Append(s, x)
Put(s, n, x) == [s EXCEPT ![n] = x]
Cut(s, n) == SubSeq(s, 1, n - 1) \o SubSeq(s, n + 1, Len(s))

Place(H, i) == Rank(H, i) + 1

IsPositions(H) == IsFiniteSet(H) /\ \A x \in H : x \in Int

LEMMA PickedType ==
  ASSUME NEW H, IsPositions(H), NEW f
  PROVE  /\ Cardinality(H) \in Nat /\ Len(Picked(H, f)) = Cardinality(H)
         /\ DOMAIN Picked(H, f) = 1..Cardinality(H)
         /\ Picked(H, f) \in Seq(Images(H, f))
         /\ (Picked(H, f) = << >> <=> H = {})
<1> DEFINE P == Picked(H, f)
<1>1. /\ Cardinality(H) \in Nat
      /\ \A n \in 1..Cardinality(H) : Ascending(H)[n] \in H
  BY AscendingType DEF IsPositions
<1>2. P \in [1..Cardinality(H) -> Images(H, f)]
  BY <1>1 DEF Picked, Images
<1>3. P \in Seq(Images(H, f)) /\ Len(P) = Cardinality(H)
  BY <1>1, <1>2
<1>4. Cardinality(H) = 0 <=> H = {}
  BY FS_EmptySet DEF IsPositions
<1>. QED
  BY <1>1, <1>2, <1>3, <1>4

LEMMA PickedSame ==
  ASSUME NEW H, IsPositions(H), NEW f, NEW g, Agree(H, f, g)
  PROVE  Picked(H, f) = Picked(H, g)
<1>1. \A n \in 1..Cardinality(H) : Ascending(H)[n] \in H
  BY AscendingType DEF IsPositions
<1>. QED
  BY <1>1 DEF Picked, Agree

LEMMA PickedPut ==
  ASSUME NEW H, IsPositions(H), NEW f, NEW g, NEW i \in H, Agree(H \ {i}, f, g),
         NEW v, g[i] = v
  PROVE  Picked(H, g) = Put(Picked(H, f), Place(H, i), v)
<1> DEFINE r == Place(H, i)
           A == Ascending(H)
<1>1. \A n \in 1..Cardinality(H) : A[n] \in H /\ Rank(H, A[n]) = n - 1
  BY AscendingType DEF IsPositions
<1>2. r \in 1..Cardinality(H) /\ A[r] = i
  BY AscendingAt DEF IsPositions, Place
<1>3. \A n \in 1..Cardinality(H) : n # r => A[n] # i
  <2>. HIDE DEF A
  <2>1. Cardinality(H) \in Nat
    BY FS_CardinalityType DEF IsPositions
  <2>. QED
    BY <1>1, <2>1 DEF Place
<1>. HIDE DEF A, r
<1>4. /\ Picked(H, f) = [n \in 1..Cardinality(H) |-> f[A[n]]]
      /\ Picked(H, g) = [n \in 1..Cardinality(H) |-> g[A[n]]]
  BY DEF Picked, A
<1>5. Put(Picked(H, f), r, g[i]) = [n \in 1..Cardinality(H) |-> IF n = r THEN g[i] ELSE f[A[n]]]
  BY <1>4 DEF Put
<1>6. \A n \in 1..Cardinality(H) : g[A[n]] = IF n = r THEN g[i] ELSE f[A[n]]
  BY <1>1, <1>2, <1>3 DEF Agree
<1>. QED
  BY <1>2, <1>4, <1>5, <1>6 DEF r

LEMMA PickedAppend ==
  ASSUME NEW H, IsPositions(H), NEW f, NEW g, NEW m \in Int, AllBefore(H, m), Agree(H, f, g),
         NEW v, g[m] = v
  PROVE  Picked(H \cup {m}, g) = Added(Picked(H, f), v)
<1> DEFINE A == Ascending(H)
           B == Ascending(H \cup {m})
           c == Cardinality(H)
<1>1. /\ c \in Nat /\ Len(A) = c /\ A \in Seq(H)
      /\ \A n \in 1..c : A[n] \in H
  BY AscendingType DEF IsPositions
<1>2. B = Append(A, m)
  BY AscendingAppend DEF IsPositions, AllBefore
<1>3. Cardinality(H \cup {m}) = c + 1
  <2>1. m \notin H
    BY DEF AllBefore
  <2>. QED
    BY <2>1, FS_AddElement DEF IsPositions
<1>4. \A n \in 1..(c + 1) : B[n] = IF n = c + 1 THEN m ELSE A[n]
  <2>. HIDE DEF A, B, c
  <2>. QED
    BY <1>1, <1>2
<1>5. Picked(H, f) \in Seq(Images(H, f)) /\ Len(Picked(H, f)) = c
  BY PickedType
<1>. HIDE DEF A, B, c
<1>6. Picked(H \cup {m}, g) = [n \in 1..(c + 1) |-> g[B[n]]]
  BY <1>3 DEF Picked, B
<1>7. \A n \in 1..c : Picked(H, f)[n] = f[A[n]]
  BY DEF Picked, A, c
<1>8. Append(Picked(H, f), g[m]) = [n \in 1..(c + 1) |-> IF n = c + 1 THEN g[m] ELSE Picked(H, f)[n]]
  <2> DEFINE P == Picked(H, f)
             W == Append(P, g[m])
  <2>. HIDE DEF P
  <2>1. W \in Seq(Images(H, f) \cup {g[m]}) /\ Len(W) = c + 1
    BY <1>1, <1>5 DEF P
  <2>2. \A n \in 1..(c + 1) : W[n] = IF n = c + 1 THEN g[m] ELSE P[n]
    BY <1>1, <1>5 DEF P
  <2>. HIDE DEF W
  <2>3. W = [n \in 1..(c + 1) |-> W[n]]
    BY <1>1, <2>1
  <2>. QED
    BY <2>2, <2>3 DEF W, P
<1>9. \A n \in 1..(c + 1) : g[B[n]] = IF n = c + 1 THEN g[m] ELSE Picked(H, f)[n]
  <2>. TAKE n \in 1..(c + 1)
  <2>1. CASE n = c + 1
    BY <1>4, <2>1
  <2>2. CASE n # c + 1
    <3>1. n \in 1..c
      BY <1>1, <2>2
    <3>. QED
      BY <1>1, <1>4, <1>7, <2>2, <3>1 DEF Agree
  <2>. QED
    BY <2>1, <2>2
<1>. QED
  BY <1>6, <1>8, <1>9 DEF Added

LEMMA PickedRemove ==
  ASSUME NEW H, IsPositions(H), NEW f, NEW g, NEW i \in H, Agree(H \ {i}, f, g)
  PROVE  Picked(H \ {i}, g) = Cut(Picked(H, f), Place(H, i))
<1> DEFINE A == Ascending(H)
           B == Ascending(H \ {i})
           c == Cardinality(H)
           r == Place(H, i)
           P == Picked(H, f)
           S == Images(H, f)
<1>1. /\ c \in Nat /\ Len(A) = c /\ A \in Seq(H)
      /\ \A n \in 1..c : A[n] \in H
  BY AscendingType DEF IsPositions
<1>2. B = SubSeq(A, 1, r - 1) \o SubSeq(A, r + 1, Len(A))
  BY AscendingRemove DEF IsPositions, Place
<1>3. Cardinality(H \ {i}) = c - 1 /\ IsPositions(H \ {i})
  BY FS_RemoveElement DEF IsPositions
<1>4. r \in 1..c
  BY AscendingAt DEF IsPositions, Place
<1>5. P \in Seq(S) /\ Len(P) = c /\ \A n \in 1..c : P[n] = f[A[n]]
  <2>1. P \in Seq(S) /\ Len(P) = c
    BY PickedType
  <2>. QED
    BY <2>1 DEF Picked
<1>6. Picked(H \ {i}, g) = [n \in 1..(c - 1) |-> g[B[n]]]
  BY <1>3 DEF Picked
<1>7. \A n \in 1..(c - 1) : B[n] \in H \ {i}
  BY <1>3, AscendingType DEF IsPositions
<1>. HIDE DEF A, B, c, r, P, S
<1>8. \A n \in 1..(c - 1) : B[n] = IF n < r THEN A[n] ELSE A[n + 1]
  <2>1. /\ SubSeq(A, 1, r - 1) \in Seq(H) /\ Len(SubSeq(A, 1, r - 1)) = r - 1
        /\ \A n \in 1..(r - 1) : SubSeq(A, 1, r - 1)[n] = A[n]
    BY <1>1, <1>4
  <2>2. /\ SubSeq(A, r + 1, c) \in Seq(H) /\ Len(SubSeq(A, r + 1, c)) = c - r
        /\ \A n \in 1..(c - r) : SubSeq(A, r + 1, c)[n] = A[n + r]
    BY <1>1, <1>4
  <2> DEFINE U == SubSeq(A, 1, r - 1)
             V == SubSeq(A, r + 1, c)
  <2>. HIDE DEF U, V
  <2>3. \A n \in 1..(c - 1) : (U \o V)[n] = IF n <= r - 1 THEN U[n] ELSE V[n - (r - 1)]
    BY <1>1, <1>4, <2>1, <2>2 DEF U, V
  <2>4. ASSUME NEW n \in 1..(c - 1) PROVE B[n] = IF n < r THEN A[n] ELSE A[n + 1]
    <3>1. CASE n < r
      <4>1. n \in 1..(r - 1) /\ n <= r - 1
        BY <1>1, <1>4, <3>1
      <4>. QED
        BY <1>1, <1>2, <2>1, <2>3, <3>1, <4>1 DEF U, V
    <3>2. CASE ~(n < r)
      <4>1. n - (r - 1) \in 1..(c - r) /\ ~(n <= r - 1) /\ (n - (r - 1)) + r = n + 1
        BY <1>1, <1>4, <3>2
      <4>. QED
        BY <1>1, <1>2, <2>2, <2>3, <3>2, <4>1 DEF U, V
    <3>. QED
      BY <3>1, <3>2
  <2>. QED
    BY <2>4
<1> DEFINE U == SubSeq(P, 1, r - 1)
           V == SubSeq(P, r + 1, c)
<1>9. /\ U \in Seq(S) /\ Len(U) = r - 1 /\ \A n \in 1..(r - 1) : U[n] = P[n]
  BY <1>1, <1>4, <1>5
<1>10. /\ V \in Seq(S) /\ Len(V) = c - r /\ \A n \in 1..(c - r) : V[n] = P[n + r]
  BY <1>1, <1>4, <1>5
<1>. HIDE DEF U, V
<1>11. U \o V = [n \in 1..(c - 1) |-> IF n <= r - 1 THEN U[n] ELSE V[n - (r - 1)]]
  <2>1. (r - 1) + (c - r) = c - 1 /\ r - 1 \in Nat /\ c - r \in Nat
    BY <1>1, <1>4
  <2>2. U \o V = [n \in 1..(Len(U) + Len(V)) |-> IF n <= Len(U) THEN U[n] ELSE V[n - Len(U)]]
    <3>1. /\ U \o V \in Seq(S) /\ Len(U \o V) = Len(U) + Len(V)
          /\ \A n \in 1..(Len(U) + Len(V)) : (U \o V)[n] = IF n <= Len(U) THEN U[n] ELSE V[n - Len(U)]
      BY <1>9, <1>10
    <3> DEFINE W == U \o V
    <3>. HIDE DEF W
    <3>2. W = [n \in 1..Len(W) |-> W[n]]
      <4>1. W \in Seq(S)
        BY <3>1 DEF W
      <4>. QED
        BY <4>1
    <3>. QED
      BY <3>1, <3>2 DEF W
  <2>. QED
    BY <1>9, <1>10, <2>1, <2>2
<1>12. \A n \in 1..(c - 1) : g[B[n]] = IF n <= r - 1 THEN U[n] ELSE V[n - (r - 1)]
  <2>. TAKE n \in 1..(c - 1)
  <2>0. f[B[n]] = g[B[n]]
    BY <1>7 DEF Agree
  <2>1. CASE n < r
    <3>1. n \in 1..(r - 1) /\ n <= r - 1 /\ n \in 1..c
      BY <1>1, <1>4, <2>1
    <3>. QED
      BY <1>5, <1>8, <1>9, <2>0, <2>1, <3>1
  <2>2. CASE ~(n < r)
    <3>1. /\ n - (r - 1) \in 1..(c - r) /\ ~(n <= r - 1) /\ (n - (r - 1)) + r = n + 1
          /\ n + 1 \in 1..c
      BY <1>1, <1>4, <2>2
    <3>2. V[n - (r - 1)] = P[n + 1]
      BY <1>10, <3>1
    <3>. QED
      BY <1>5, <1>8, <2>0, <2>2, <3>1, <3>2
  <2>. QED
    BY <2>1, <2>2
<1>13. Picked(H \ {i}, g) = U \o V
  BY <1>6, <1>11, <1>12
<1>. QED
  BY <1>5, <1>13 DEF Cut, U, V, P, r

Keyed(k) == {j \in 1..Len(items) : KeyAt(j) = k}
Values == [j \in 1..Len(items) |-> ValueAt(j)]

BindingsForm ==
  /\ Len(items) \in Nat
  /\ \A k \in Object : IsPositions(Keyed(k)) /\ HasKey(k) = Keyed(k)
  /\ Bindings = [k \in Object |-> IF use \in {"list", "lost"} THEN << >> ELSE Picked(Keyed(k), Values)]

LEMMA BindingsAre == Sound => BindingsForm
<1>. SUFFICES ASSUME Sound PROVE BindingsForm
  OBVIOUS
<1>1. Len(items) \in Nat /\ DOMAIN items = 1..Len(items)
  BY ItemsType
<1>2. ASSUME NEW k \in Object
      PROVE  /\ IsPositions(Keyed(k)) /\ HasKey(k) = Keyed(k)
             /\ Picked(Keyed(k), Values) =
                  [n \in 1..Cardinality(HasKey(k)) |-> ValueOf(items[Ascending(HasKey(k))[n]])]
  <2>1. k # Null
    BY IdsAssumption
  <2>2. HasKey(k) = Keyed(k)
    BY <1>1, <2>1, ItemsType DEF HasKey, Keyed, KeyAt
  <2>3. IsPositions(Keyed(k))
    <3>1. IsFiniteSet(HasKey(k))
      BY IndexType
    <3>. QED
      BY <1>1, <2>2, <3>1 DEF IsPositions, Keyed
  <2>4. \A n \in 1..Cardinality(Keyed(k)) : Ascending(Keyed(k))[n] \in Keyed(k)
    BY <2>3, AscendingType DEF IsPositions
  <2>5. \A n \in 1..Cardinality(Keyed(k)) :
          Values[Ascending(Keyed(k))[n]] = ValueOf(items[Ascending(Keyed(k))[n]])
    BY <2>4 DEF Values, Keyed, ValueAt
  <2>. QED
    BY <2>2, <2>3, <2>5 DEF Picked
<1>. QED
  BY <1>1, <1>2 DEF BindingsForm, Bindings

LEMMA BindingsWillBe == Sound' => BindingsForm'
BY BindingsAre, PTL

(***************************************************************************)
(* What the effects are to the dictionary.                                 *)
(***************************************************************************)
LEMMA BindingsType ==
  ASSUME Sound, use \in {"dict", "names"}, NEW k \in Object
  PROVE  /\ Bindings[k] = Picked(Keyed(k), Values) /\ IsPositions(Keyed(k))
         /\ HasKey(k) = Keyed(k) /\ Len(items) \in Nat
         /\ DOMAIN Bindings[k] = 1..Cardinality(Keyed(k)) /\ Cardinality(Keyed(k)) \in Nat
         /\ Bindings[k] \in Seq(Images(Keyed(k), Values))
         /\ Len(Bindings[k]) = Cardinality(Keyed(k))
         /\ (Bindings[k] = << >> <=> Keyed(k) = {})
<1>1. BindingsForm
  BY BindingsAre
<1>2. Bindings[k] = Picked(Keyed(k), Values) /\ IsPositions(Keyed(k))
      /\ HasKey(k) = Keyed(k) /\ Len(items) \in Nat
  BY <1>1 DEF BindingsForm
<1>3. /\ DOMAIN Picked(Keyed(k), Values) = 1..Cardinality(Keyed(k)) /\ Cardinality(Keyed(k)) \in Nat
      /\ Picked(Keyed(k), Values) \in Seq(Images(Keyed(k), Values))
      /\ Len(Picked(Keyed(k), Values)) = Cardinality(Keyed(k))
      /\ (Picked(Keyed(k), Values) = << >> <=> Keyed(k) = {})
  BY <1>2, PickedType
<1>. QED
  BY <1>2, <1>3

LEMMA QuietBinds ==
  ASSUME Sound, Sound', use' = use, Quiet
  PROVE  Bindings' = Bindings
<1>1. BindingsForm /\ BindingsForm'
  BY BindingsAre, BindingsWillBe
<1>2. \A k : Keyed(k)' = Keyed(k)
  BY DEF Quiet, Untouched, Keyed
<1>3. Values' = Values
  BY DEF Quiet, Untouched, Values
<1>. QED
  BY <1>1, <1>2, <1>3 DEF BindingsForm

LEMMA BoundBinds ==
  ASSUME Sound, Sound', use' = use, use \in {"dict", "names"}, NEW j \in 1..(Len(items) + 1),
         NEW k, NEW v, Bound(j, k, v), j <= Len(items) => k = KeyAt(j)
  PROVE  /\ k \notin Object => Bindings' = Bindings
         /\ k \in Object /\ j > Len(items) =>
              Bindings' = [Bindings EXCEPT ![k] = Added(@, v)]
         /\ k \in Object /\ j <= Len(items) =>
              /\ j \in Keyed(k)
              /\ Place(Keyed(k), j) \in DOMAIN Bindings[k]
              /\ Bindings' = [Bindings EXCEPT ![k] = Put(@, Place(Keyed(k), j), v)]
<1>1. BindingsForm /\ BindingsForm'
  BY BindingsAre, BindingsWillBe
<1>2. /\ Bindings = [x \in Object |-> Picked(Keyed(x), Values)]
      /\ Bindings' = [x \in Object |-> Picked(Keyed(x)', Values')]
      /\ \A x \in Object : IsPositions(Keyed(x)) /\ Len(items) \in Nat
  BY <1>1 DEF BindingsForm
<1>3. /\ Len(items') = IF j > Len(items) THEN Len(items) + 1 ELSE Len(items)
      /\ \A i \in 1..Len(items) : i # j => KeyAt(i)' = KeyAt(i) /\ ValueAt(i)' = ValueAt(i)
      /\ KeyAt(j)' = k /\ ValueAt(j)' = v
  BY <1>1 DEF Bound, Untouched, BindingsForm
<1>4. \A x : Keyed(x)' = IF x = k THEN Keyed(x) \cup {j} ELSE Keyed(x)
  <2>1. CASE j <= Len(items)
    BY <1>1, <1>3, <2>1 DEF Keyed, BindingsForm
  <2>2. CASE ~(j <= Len(items))
    <3>1. Len(items') = Len(items) + 1 /\ j = Len(items) + 1 /\ Len(items) \in Nat
      BY <1>1, <1>3, <2>2 DEF BindingsForm
    <3>2. \A i \in 1..Len(items') : i = j \/ (i # j /\ i \in 1..Len(items))
      BY <3>1
    <3>3. j \in 1..Len(items') /\ \A i \in 1..Len(items) : i # j /\ i \in 1..Len(items')
      BY <3>1
    <3>. QED
      BY <1>3, <3>2, <3>3 DEF Keyed
  <2>. QED
    BY <2>1, <2>2
<1>5. \A x : \A i \in Keyed(x) : i # j => Values[i] = Values'[i]
  <2>1. ASSUME NEW i \in 1..Len(items), i # j PROVE Values[i] = Values'[i]
    <3>1. i \in 1..Len(items')
      BY <1>1, <1>3 DEF BindingsForm
    <3>2. Values[i] = ValueAt(i) /\ Values'[i] = ValueAt(i)'
      BY <3>1 DEF Values
    <3>. QED
      BY <1>3, <2>1, <3>2
  <2>. QED
    BY <2>1 DEF Keyed
<1>6. Values'[j] = v
  <2>1. j \in 1..Len(items')
    BY <1>1, <1>3 DEF BindingsForm
  <2>. QED
    BY <1>3, <2>1 DEF Values
<1>7. \A x : x # k => j \notin Keyed(x)
  BY <1>1 DEF Keyed, BindingsForm
<1> DEFINE vals == Values'
           keyed(x) == Keyed(x)'
<1>8. \A x \in Object : x # k => Bindings'[x] = Bindings[x]
  <2>. TAKE x \in Object
  <2>1. HAVE x # k
  <2>2. Keyed(x)' = Keyed(x) /\ Agree(Keyed(x), Values, vals)
    BY <1>4, <1>5, <1>7, <2>1 DEF Agree
  <2>. HIDE DEF vals
  <2>3. Picked(Keyed(x), Values) = Picked(Keyed(x), vals)
    BY <1>2, <2>2, PickedSame
  <2>. QED
    BY <1>2, <2>2, <2>3 DEF vals
<1>9. k \notin Object => Bindings' = Bindings
  BY <1>2, <1>8
<1>10. ASSUME k \in Object, j > Len(items)
       PROVE  Bindings' = [Bindings EXCEPT ![k] = Added(@, v)]
  <2>1. j \in Int /\ AllBefore(Keyed(k), j)
    BY <1>1, <1>10 DEF Keyed, BindingsForm, AllBefore
  <2>2. Agree(Keyed(k), Values, vals)
    <3>1. \A i \in Keyed(k) : i # j
      BY <1>1, <1>10 DEF Keyed, BindingsForm
    <3>. QED
      BY <1>5, <3>1 DEF Agree
  <2>. HIDE DEF vals
  <2>3. Picked(Keyed(k) \cup {j}, vals) = Added(Picked(Keyed(k), Values), v)
    <3>2. vals[j] = v
      BY <1>6 DEF vals
    <3>1. IsPositions(Keyed(k))
      BY <1>2, <1>10
    <3>3. \A m : m \in Int /\ AllBefore(Keyed(k), m) /\ vals[m] = v =>
            Picked(Keyed(k) \cup {m}, vals) = Added(Picked(Keyed(k), Values), v)
      <4>. SUFFICES ASSUME NEW m \in Int, AllBefore(Keyed(k), m), vals[m] = v
                    PROVE  Picked(Keyed(k) \cup {m}, vals) = Added(Picked(Keyed(k), Values), v)
        OBVIOUS
      <4>. DEFINE H == Keyed(k)
                  f == Values
      <4>1. IsPositions(H) /\ Agree(H, f, vals) /\ AllBefore(H, m)
        BY <2>2, <3>1
      <4>. HIDE DEF H, f
      <4>2. ASSUME NEW g, Agree(H, f, g), g[m] = v
            PROVE  Picked(H \cup {m}, g) = Added(Picked(H, f), v)
        BY <4>1, <4>2, PickedAppend
      <4>. HIDE DEF vals
      <4>3. Picked(H \cup {m}, vals) = Added(Picked(H, f), v)
        BY <4>1, <4>2
      <4>. QED
        BY <4>3 DEF H, f
    <3>. QED
      BY <2>1, <3>2, <3>3
  <2>4. Bindings'[k] = Added(Bindings[k], v)
    BY <1>2, <1>4, <1>6, <1>10, <2>3 DEF vals
  <2>. QED
    BY <1>2, <1>8, <1>10, <2>4
<1>11. ASSUME k \in Object, j <= Len(items)
       PROVE  /\ j \in Keyed(k)
              /\ Place(Keyed(k), j) \in DOMAIN Bindings[k]
              /\ Bindings' = [Bindings EXCEPT ![k] = Put(@, Place(Keyed(k), j), v)]
  <2> DEFINE r == Place(Keyed(k), j)
  <2>1. j \in Keyed(k)
    BY <1>1, <1>11 DEF Keyed, BindingsForm
  <2>2. Keyed(k)' = Keyed(k) /\ Agree(Keyed(k) \ {j}, Values, vals)
    BY <1>4, <1>5, <2>1 DEF Agree
  <2>. HIDE DEF vals
  <2>3. r \in 1..Cardinality(Keyed(k)) /\ Picked(Keyed(k), vals) = Put(Picked(Keyed(k), Values), r, v)
    <3>2. vals[j] = v
      BY <1>6 DEF vals
    <3>1. IsPositions(Keyed(k))
      BY <1>2, <1>11
    <3>3. \A m : m \in Keyed(k) /\ Agree(Keyed(k) \ {m}, Values, vals) /\ vals[m] = v =>
            Picked(Keyed(k), vals) = Put(Picked(Keyed(k), Values), Place(Keyed(k), m), v)
      BY <3>1, PickedPut
    <3>4. r \in 1..Cardinality(Keyed(k))
      BY <2>1, <3>1, AscendingAt DEF IsPositions, Place
    <3>. QED
      BY <2>1, <2>2, <3>2, <3>3, <3>4
  <2>4. r \in DOMAIN Bindings[k]
    BY <1>11, <2>3, BindingsType
  <2>5. Bindings'[k] = Put(Bindings[k], r, v)
    BY <1>2, <1>6, <1>11, <2>2, <2>3 DEF vals
  <2>. HIDE DEF r
  <2>6. Bindings' = [Bindings EXCEPT ![k] = Put(@, r, v)]
    BY <1>2, <1>8, <1>11, <2>5
  <2>. QED
    BY <2>1, <2>4, <2>6 DEF r
<1>. QED
  BY <1>9, <1>10, <1>11

LEMMA UnsetBinds ==
  ASSUME Sound, Sound', use' = use, use \in {"dict", "names"}, NEW j \in 1..Len(items), Unset(j),
         NEW k, k = KeyAt(j)
  PROVE  LET n == Place(Keyed(k), j)
         IN  /\ k \notin Object => Bindings' = Bindings
             /\ k \in Object =>
                  /\ j \in Keyed(k)
                  /\ n \in DOMAIN Bindings[k]
                  /\ Bindings' = [Bindings EXCEPT ![k] = Cut(@, n)]
<1> DEFINE n == Place(Keyed(k), j)
<1>1. BindingsForm /\ BindingsForm'
  BY BindingsAre, BindingsWillBe
<1>2. /\ Bindings = [x \in Object |-> Picked(Keyed(x), Values)]
      /\ Bindings' = [x \in Object |-> Picked(Keyed(x)', Values')]
      /\ \A x \in Object : IsPositions(Keyed(x)) /\ Len(items) \in Nat
  BY <1>1 DEF BindingsForm
<1>3. /\ Len(items') = Len(items)
      /\ \A i \in 1..Len(items) : i # j => KeyAt(i)' = KeyAt(i) /\ ValueAt(i)' = ValueAt(i)
      /\ KeyAt(j)' \notin Object
  BY IdsAssumption DEF Unset, Untouched, KeyAt, KeyOf, IsPair
<1>4. \A x \in Object : Keyed(x)' = Keyed(x) \ {j}
  BY <1>3 DEF Keyed
<1>5. \A x : \A i \in Keyed(x) : i # j => Values[i] = Values'[i]
  BY <1>3 DEF Keyed, Values
<1>7. \A x : x # k => j \notin Keyed(x)
  BY DEF Keyed
<1> DEFINE vals == Values'
<1>8. \A x \in Object : x # k => Bindings'[x] = Bindings[x]
  <2>. TAKE x \in Object
  <2>1. HAVE x # k
  <2>2. Keyed(x)' = Keyed(x) /\ Agree(Keyed(x), Values, vals)
    BY <1>4, <1>5, <1>7, <2>1 DEF Agree
  <2>. HIDE DEF vals
  <2>3. Picked(Keyed(x), Values) = Picked(Keyed(x), vals)
    BY <1>2, <2>2, PickedSame
  <2>. QED
    BY <1>2, <2>2, <2>3 DEF vals
<1>9. k \notin Object => Bindings' = Bindings
  BY <1>2, <1>8
<1>10. ASSUME k \in Object
       PROVE  /\ j \in Keyed(k)
              /\ n \in DOMAIN Bindings[k]
              /\ Bindings' = [Bindings EXCEPT ![k] = Cut(@, n)]
  <2>1. j \in Keyed(k)
    BY DEF Keyed
  <2>2. Keyed(k)' = Keyed(k) \ {j} /\ Agree(Keyed(k) \ {j}, Values, vals)
    <3>1. \A i \in Keyed(k) : i # j => Values[i] = vals[i]
      BY <1>5
    <3>2. Keyed(k)' = Keyed(k) \ {j}
      BY <1>4, <1>10
    <3>. QED
      BY <3>1, <3>2 DEF Agree
  <2> DEFINE P == Picked(Keyed(k), Values)
  <2>. HIDE DEF vals
  <2>3. n \in DOMAIN Bindings[k]
    <3>1. n \in 1..Cardinality(Keyed(k))
      BY <1>2, <1>10, <2>1, AscendingAt DEF IsPositions, Place
    <3>. QED
      BY <1>10, <3>1, BindingsType
  <2>4. Picked(Keyed(k) \ {j}, vals) = Cut(P, n)
    BY <1>2, <1>10, <2>1, <2>2, PickedRemove
  <2>. HIDE DEF n
  <2>5. Bindings'[k] = Cut(Bindings[k], n)
    BY <1>2, <1>10, <2>2, <2>4 DEF vals
  <2>. QED
    BY <1>2, <1>8, <1>10, <2>1, <2>3, <2>5
<1>. QED
  BY <1>9, <1>10 DEF n

(***************************************************************************)
(* Each operation is one of the dictionary.                                *)
(***************************************************************************)
LEMMA FirstPlaces ==
  ASSUME NEW S, NEW P \in Seq(S), P # << >>, NEW v
  PROVE  /\ Put(P, 1, v) = <<v>> \o Tail(P)
         /\ Cut(P, 1) = Tail(P)
<1>0. Len(P) \in Nat /\ Len(P) # 0 /\ DOMAIN P = 1..Len(P)
  OBVIOUS
<1> DEFINE T == Tail(P)
           U == <<v>>
<1>1. T \in Seq(S) /\ Len(T) = Len(P) - 1 /\ \A n \in 1..(Len(P) - 1) : T[n] = P[n + 1]
  BY <1>0
<1>2. Put(P, 1, v) = U \o T
  <2> DEFINE R == S \cup {v}
  <2>1. U \in Seq(R) /\ T \in Seq(R) /\ Len(U) = 1 /\ U[1] = v
    BY <1>1
  <2>. HIDE DEF T, U, R
  <2>0. /\ U \o T \in Seq(R) /\ Len(U \o T) = Len(U) + Len(T)
        /\ \A n \in 1..(Len(U) + Len(T)) : (U \o T)[n] = IF n <= Len(U) THEN U[n] ELSE T[n - Len(U)]
    BY <2>1, ConcatProperties
  <2> DEFINE W == U \o T
  <2>. HIDE DEF W
  <2>2. /\ W \in Seq(R) /\ Len(W) = Len(P)
        /\ \A n \in 1..Len(P) : W[n] = IF n = 1 THEN v ELSE T[n - 1]
    <3>1. W \in Seq(R) /\ Len(W) = Len(U) + Len(T)
      BY <2>0 DEF W
    <3>2. \A n \in 1..(Len(U) + Len(T)) : W[n] = IF n <= Len(U) THEN U[n] ELSE T[n - Len(U)]
      BY <2>0 DEF W
    <3>3. \A n \in 1..Len(P) : n <= 1 <=> n = 1
      BY <1>0
    <3>. QED
      BY <1>0, <1>1, <2>1, <3>1, <3>2, <3>3
  <2>3. \A n \in 1..Len(P) : W[n] = IF n = 1 THEN v ELSE P[n]
    <3>. TAKE n \in 1..Len(P)
    <3>1. CASE n = 1
      BY <2>2, <3>1
    <3>2. CASE n # 1
      <4>1. n - 1 \in 1..(Len(P) - 1) /\ (n - 1) + 1 = n
        BY <1>0, <3>2
      <4>. QED
        BY <1>1, <2>2, <3>2, <4>1
    <3>. QED
      BY <3>1, <3>2
  <2>4. W = [n \in 1..Len(P) |-> W[n]]
    BY <2>2
  <2>5. Put(P, 1, v) = [n \in 1..Len(P) |-> IF n = 1 THEN v ELSE P[n]]
    BY <1>0 DEF Put
  <2>. QED
    BY <2>3, <2>4, <2>5 DEF W
<1>3. Cut(P, 1) = T
  <2> DEFINE E == SubSeq(P, 1, 1 - 1)
             V == SubSeq(P, 1 + 1, Len(P))
  <2>1. E \in Seq(S) /\ Len(E) = 0
    BY <1>0
  <2>2. V \in Seq(S) /\ Len(V) = Len(P) - 1 /\ \A n \in 1..(Len(P) - 1) : V[n] = P[n + 1]
    BY <1>0
  <2>. HIDE DEF E, V, T
  <2>3. E = << >> /\ E \o V = V
    <3>1. E = << >>
      BY <2>1
    <3>. QED
      BY <2>2, <3>1
  <2>4. V = [n \in 1..(Len(P) - 1) |-> V[n]] /\ T = [n \in 1..(Len(P) - 1) |-> T[n]]
    BY <1>1, <2>2
  <2>5. V = T
    BY <1>1, <2>2, <2>4
  <2>. QED
    BY <2>3, <2>5 DEF E, V, Cut
<1>. QED
  BY <1>2, <1>3

LEMMA AddedFirst ==
  ASSUME NEW v
  PROVE  Added(<< >>, v) = <<v>> \o << >>
BY DEF Added

LEMMA FirstBinding ==
  ASSUME Sound, use \in {"dict", "names"}, NEW k \in Object, HasKey(k) # {}
  PROVE  LET j == tuple_GetDictItemIndex(k)
         IN  /\ j \in 1..Len(items) /\ KeyAt(j) = k /\ Place(Keyed(k), j) = 1
             /\ Bindings[k] # << >> /\ Head(Bindings[k]) = ValueAt(j)
<1> DEFINE j == tuple_GetDictItemIndex(k)
<1>1. /\ Bindings[k] = Picked(Keyed(k), Values) /\ IsPositions(Keyed(k))
      /\ HasKey(k) = Keyed(k) /\ Len(items) \in Nat
      /\ Bindings[k] # << >> /\ Cardinality(Keyed(k)) \in Nat
  BY BindingsType
<1>2. j \in Keyed(k) /\ \A i \in Keyed(k) : j <= i
  BY <1>1, IndexType
<1>. HIDE DEF j
<1>3. j \in 1..Len(items) /\ KeyAt(j) = k
  BY <1>2 DEF Keyed
<1>4. Rank(Keyed(k), j) = 0 /\ Ascending(Keyed(k))[1] = j
  BY <1>1, <1>2, AscendingFirst DEF IsPositions
<1>5. 1 \in 1..Cardinality(Keyed(k))
  BY <1>1, <1>2, <1>4, AscendingAt DEF IsPositions
<1>6. Head(Bindings[k]) = Values[j]
  BY <1>1, <1>4, <1>5 DEF Picked
<1>7. Values[j] = ValueAt(j)
  BY <1>3 DEF Values
<1>. QED
  BY <1>1, <1>3, <1>4, <1>6, <1>7 DEF Place, j

LEMMA BindingsSeq ==
  ASSUME Sound, use \in {"dict", "names"}
  PROVE  /\ DOMAIN Bindings = Object /\ Bindings = [k \in Object |-> Bindings[k]]
         /\ \A k \in Object : /\ Bindings[k] \in Seq(Images(Keyed(k), Values))
                              /\ (Bindings[k] = << >> <=> HasKey(k) = {})
<1>1. \A k \in Object : /\ Bindings[k] \in Seq(Images(Keyed(k), Values))
                        /\ (Bindings[k] = << >> <=> HasKey(k) = {})
  BY BindingsType
<1>. QED
  BY <1>1 DEF Bindings

LEMMA SetStep ==
  ASSUME TupleInv, Once, NEW k \in Object, NEW v \in Object \cup {Null}, SetDictItem(k, v)
  PROVE  D!Set(k, v)
<1>0. Sound /\ Sound' /\ use \in {"dict", "names"} /\ use' = use /\ call' = <<"set", k, v>>
  BY SetDictItemDoes DEF TupleInv, SetDictItem
<1>1. /\ DOMAIN Bindings = Object
      /\ Bindings[k] \in Seq(Images(Keyed(k), Values))
      /\ (Bindings[k] = << >> <=> HasKey(k) = {})
  BY <1>0, BindingsSeq
<1>2. Len(items) \in Nat
  BY <1>0, ItemsType
<1>3. CASE HasKey(k) = {}
  <2>1. Bound(Len(items) + 1, k, v)
    BY <1>3, SetDictItemDoes
  <2> DEFINE j == Len(items) + 1
  <2>2. j \in 1..(Len(items) + 1) /\ j > Len(items) /\ ~(j <= Len(items))
    BY <1>2
  <2>. HIDE DEF j
  <2>3. Bindings' = [Bindings EXCEPT ![k] = Added(@, v)]
    BY <1>0, <2>1, <2>2, BoundBinds DEF j
  <2>4. Added(Bindings[k], v) = <<v>> \o IF Bindings[k] = << >> THEN << >> ELSE Tail(Bindings[k])
    BY <1>1, <1>3, AddedFirst
  <2>. QED
    BY <1>0, <1>1, <2>3, <2>4 DEF D!Set
<1>4. CASE HasKey(k) # {}
  <2> DEFINE j == tuple_GetDictItemIndex(k)
  <2>1. Bound(j, k, v)
    BY <1>4, SetDictItemDoes
  <2>2. j \in 1..Len(items) /\ KeyAt(j) = k /\ Place(Keyed(k), j) = 1
    BY <1>0, <1>4, FirstBinding
  <2>3. j \in 1..(Len(items) + 1) /\ j <= Len(items)
    BY <1>2, <2>2
  <2>. HIDE DEF j
  <2>4. Bindings' = [Bindings EXCEPT ![k] = Put(@, 1, v)]
    BY <1>0, <2>1, <2>2, <2>3, BoundBinds
  <2>5. Put(Bindings[k], 1, v) = <<v>> \o IF Bindings[k] = << >> THEN << >> ELSE Tail(Bindings[k])
    BY <1>1, <1>4, FirstPlaces
  <2>. QED
    BY <1>0, <1>1, <2>4, <2>5 DEF D!Set
<1>. QED
  BY <1>3, <1>4

LEMMA AddStep ==
  ASSUME TupleInv, Once, NEW k \in Object, NEW v \in Object, AppendDictItem(k, v)
  PROVE  D!Add(k, v)
<1>0. /\ Sound /\ Sound' /\ use \in {"dict", "names"} /\ use' = use /\ call' = <<"add", k, v>>
      /\ Bound(Len(items) + 1, k, v)
  BY AppendDictItemDoes DEF TupleInv, AppendDictItem
<1>2. Len(items) \in Nat
  BY <1>0, ItemsType
<1> DEFINE j == Len(items) + 1
<1>3. j \in 1..(Len(items) + 1) /\ j > Len(items) /\ ~(j <= Len(items))
  BY <1>2
<1>. HIDE DEF j
<1>4. Bindings' = [Bindings EXCEPT ![k] = Added(@, v)]
  BY <1>0, <1>3, BoundBinds DEF j
<1>. QED
  BY <1>0, <1>4 DEF D!Add, Added

(* A place is set by its position: STORE_NAME, STORE_GLOBAL. *)
LEMMA SetAtStep ==
  ASSUME Sound, Sound', use \in {"dict", "names"}, use' = use, NEW j \in 1..Len(items),
         NEW v \in Object \cup {Null}, Bound(j, KeyAt(j), v), KeyAt(j) # Null,
         call' = <<"set", KeyAt(j), v>>
  PROVE  D!Next
<1> DEFINE k == KeyAt(j)
           n == Place(Keyed(k), j)
<1>1. k \in Object /\ Len(items) \in Nat
  BY ItemsType
<1>2. j \in 1..(Len(items) + 1) /\ j <= Len(items)
  BY <1>1
<1>3. n \in DOMAIN Bindings[k] /\ Bindings' = [Bindings EXCEPT ![k] = Put(@, n, v)]
  BY <1>1, <1>2, BoundBinds
<1>. HIDE DEF n, k
<1>4. Bindings' = [Bindings EXCEPT ![k][n] = v]
  BY <1>3 DEF Put
<1>5. D!SetAt(k, n, v)
  BY <1>3, <1>4 DEF D!SetAt, k
<1>. QED
  BY <1>1, <1>3, <1>5 DEF D!Next

LEMMA ElsewhereStep ==
  ASSUME Bindings' = Bindings, call' = <<"none">>
  PROVE  D!Next
BY DEF D!Next, D!Elsewhere

LEMMA StoreStep ==
  ASSUME TupleInv, Once, NEW j \in DOMAIN items, NEW v \in Object, Store(j, v)
  PROVE  D!Next
<1>0. /\ Sound /\ Sound' /\ use \in {"dict", "names"} /\ use' = use
      /\ j \in 1..Len(items) /\ Bound(j, KeyAt(j), v)
      /\ call' = IF KeyAt(j) = Null THEN <<"none">> ELSE <<"set", KeyAt(j), v>>
  BY StoreDoes DEF TupleInv, Store, KeyAt
<1>1. CASE KeyAt(j) # Null
  BY <1>0, <1>1, SetAtStep
<1>2. CASE KeyAt(j) = Null
  <2>1. Null \notin Object /\ Len(items) \in Nat
    BY <1>0, IdsAssumption, ItemsType
  <2>2. j \in 1..(Len(items) + 1)
    BY <1>0, <2>1
  <2>3. Bindings' = Bindings
    BY <1>0, <1>2, <2>1, <2>2, BoundBinds
  <2>. QED
    BY <1>0, <1>2, <2>3, ElsewhereStep
<1>. QED
  BY <1>1, <1>2

LEMMA StoreGlobalStep ==
  ASSUME TupleInv, Once, NEW k \in Object, NEW v \in Object \cup {Null}, StoreGlobal(k, v)
  PROVE  D!Next
<1> DEFINE j == tuple_GetDictItemIndex(k)
<1>0. /\ Sound /\ Sound' /\ use \in {"dict", "names"} /\ use' = use
      /\ call' = IF j = 0 THEN <<"none">> ELSE <<"set", k, v>>
      /\ (j = 0 <=> HasKey(k) = {})
  BY StoreGlobalDoes, IndexType DEF TupleInv, StoreGlobal
<1>1. CASE HasKey(k) = {}
  <2>1. UNCHANGED <<items, pair>>
    BY <1>1, StoreGlobalDoes
  <2>2. Bindings' = Bindings
    BY <1>0, <2>1, QuietStill, QuietBinds
  <2>. QED
    BY <1>0, <1>1, <2>2, ElsewhereStep
<1>2. CASE HasKey(k) # {}
  <2>1. Bound(j, k, v)
    BY <1>2, StoreGlobalDoes
  <2>2. j \in 1..Len(items) /\ KeyAt(j) = k
    BY <1>0, <1>2, FirstBinding
  <2>3. k # Null /\ call' = <<"set", k, v>>
    BY <1>0, <1>2, IdsAssumption
  <2>. HIDE DEF j
  <2>. QED
    BY <1>0, <2>1, <2>2, <2>3, SetAtStep
<1>. QED
  BY <1>1, <1>2

LEMMA ConvertToDictStep ==
  ASSUME TupleInv, Once, NEW j \in DOMAIN items, NEW p \in Pair, ConvertToDict(j, p)
  PROVE  D!Next
<1>0. /\ Sound /\ Sound' /\ use \in {"dict", "names"} /\ use' = use /\ call' = <<"none">>
      /\ j \in 1..Len(items) /\ Bound(j, KeyAt(j), Null) /\ ValueAt(j) = Null
      /\ ~IsPair(items[j]) /\ items[j] # Null
  BY ConvertToDictDoes DEF TupleInv, ConvertToDict
<1>1. Len(items) \in Nat
  BY <1>0, ItemsType
<1>2. /\ Len(items') = Len(items)
      /\ \A i \in 1..Len(items) : KeyAt(i)' = KeyAt(i) /\ ValueAt(i)' = ValueAt(i)
  BY <1>0, <1>1 DEF Bound, Untouched
<1>3. BindingsForm /\ BindingsForm'
  BY <1>0, BindingsAre, BindingsWillBe
<1>4. Bindings' = Bindings
  <2>1. \A k : Keyed(k)' = Keyed(k)
    BY <1>2 DEF Keyed
  <2>2. Values' = Values
    BY <1>2 DEF Values
  <2>. QED
    BY <1>0, <1>3, <2>1, <2>2 DEF BindingsForm
<1>. QED
  BY <1>0, <1>4, ElsewhereStep

(* A name has one item: either it is the name, and nothing is stored under *)
(* it, or the pair.                                                        *)
LEMMA PairOfName ==
  ASSUME TupleInv, use = "names", NEW k \in Object
  PROVE  (IF PairOf(k) = 0 THEN Null ELSE ValueAt(PairOf(k)))
           = (IF tuple_GetDictItemIndex(k) = 0 THEN Null ELSE ValueAt(tuple_GetDictItemIndex(k)))
<1> DEFINE P == {j \in DOMAIN items : IsPair(items[j]) /\ KeyOf(items[j]) = k}
           H == HasKey(k)
<1>1. Sound /\ k # Null /\ DOMAIN items = 1..Len(items) /\ Len(items) \in Nat
  BY ItemsType, IdsAssumption DEF TupleInv
<1>2. \A i, j \in H : i = j
  BY <1>1 DEF TupleInv, Distinct, HasKey, KeyAt
<1>3. P \subseteq H /\ \A j \in H \ P : ValueAt(j) = Null
  BY <1>1, IdsAssumption DEF HasKey, IsPair, ValueAt, ValueOf
<1>4. \A j \in H : j # 0 /\ Earliest({j}) = j
  BY <1>1 DEF HasKey, Earliest
<1>5. CASE H = {}
  BY <1>3, <1>5 DEF PairOf, IndexIn, tuple_GetDictItemIndex
<1>6. CASE H # {}
  <2>1. PICK j \in H : H = {j}
    BY <1>2, <1>6
  <2>2. tuple_GetDictItemIndex(k) = j
    BY <1>4, <2>1 DEF tuple_GetDictItemIndex, IndexIn
  <2>3. P = {} \/ P = {j}
    BY <1>3, <2>1
  <2>4. PairOf(k) = IF P = {} THEN 0 ELSE j
    BY <1>4, <2>3 DEF PairOf, IndexIn
  <2>. QED
    BY <1>3, <1>4, <2>1, <2>2, <2>3, <2>4
<1>. QED
  BY <1>5, <1>6

LEMMA LookupStep ==
  ASSUME TupleInv, Once, NEW k \in Object, GetDictItem(k) \/ GetDictItemByName(k)
  PROVE  D!Next
<1> DEFINE j == tuple_GetDictItemIndex(k)
<1>0. /\ Sound /\ use \in {"dict", "names"} /\ UNCHANGED <<use, items, pair, count, held>>
      /\ call' = <<"get", k, IF j = 0 THEN Null ELSE ValueAt(j)>>
      /\ (j = 0 <=> HasKey(k) = {})
  <2>1. Sound /\ (j = 0 <=> HasKey(k) = {}) /\ UNCHANGED <<use, items, pair, count, held>>
        /\ use \in {"dict", "names"}
    BY IndexType DEF TupleInv, GetDictItem, GetDictItemByName
  <2>2. GetDictItemByName(k) => (IF PairOf(k) = 0 THEN Null ELSE ValueAt(PairOf(k)))
                             = (IF j = 0 THEN Null ELSE ValueAt(j))
    BY PairOfName DEF GetDictItemByName
  <2>. QED
    BY <2>1, <2>2 DEF GetDictItem, GetDictItemByName, ValueAt
<1>1. Sound'
  BY <1>0 DEF Sound, CountsExact
<1>2. Bindings' = Bindings
  BY <1>0, <1>1, QuietStill, QuietBinds
<1>3. Bindings[k] = << >> <=> HasKey(k) = {}
  BY <1>0, BindingsSeq
<1>4. HasKey(k) # {} => Head(Bindings[k]) = ValueAt(j)
  BY <1>0, FirstBinding
<1>5. D!Lookup(k)
  BY <1>0, <1>2, <1>3, <1>4 DEF D!Lookup
<1>. QED
  BY <1>5 DEF D!Next

LEMMA LoadStep ==
  ASSUME TupleInv, Once, NEW j \in DOMAIN items, Load(j)
  PROVE  D!Next
<1>0. /\ Sound /\ use = "names" /\ UNCHANGED <<use, items, pair, count, held>>
      /\ call' = IF KeyAt(j) = Null THEN <<"none">> ELSE <<"get", KeyAt(j), ValueAt(j)>>
  BY DEF TupleInv, Load, KeyAt, ValueAt
<1>1. Sound'
  BY <1>0 DEF Sound, CountsExact
<1>2. Bindings' = Bindings
  BY <1>0, <1>1, QuietStill, QuietBinds
<1>3. CASE KeyAt(j) = Null
  BY <1>0, <1>2, <1>3, ElsewhereStep
<1>4. CASE KeyAt(j) # Null
  <2> DEFINE k == KeyAt(j)
             i == tuple_GetDictItemIndex(k)
  <2>1. j \in 1..Len(items) /\ k \in Object /\ items[j] # Null /\ DOMAIN items = 1..Len(items)
    BY <1>0, <1>4, ItemsType
  <2>2. j \in HasKey(k)
    BY <2>1 DEF HasKey, KeyAt
  <2>3. HasKey(k) # {} /\ use \in {"dict", "names"}
    BY <1>0, <2>2
  <2>. HIDE DEF k
  <2>4. i \in 1..Len(items) /\ KeyAt(i) = k /\ Bindings[k] # << >> /\ Head(Bindings[k]) = ValueAt(i)
    BY <1>0, <2>1, <2>3, FirstBinding
  <2>. HIDE DEF i
  <2>5. i = j
    BY <1>0, <1>4, <2>1, <2>4 DEF TupleInv, Distinct, k
  <2>6. D!Lookup(k)
    BY <1>0, <1>2, <1>4, <2>4, <2>5 DEF D!Lookup, k
  <2>. QED
    BY <2>1, <2>6 DEF D!Next
<1>. QED
  BY <1>3, <1>4

LEMMA DeleteDictItemStep ==
  ASSUME TupleInv, Once, NEW k \in Object, DeleteDictItem(k)
  PROVE  D!Next
<1> DEFINE j == tuple_GetDictItemIndex(k)
<1>0. /\ Sound /\ Sound' /\ use \in {"dict", "names"} /\ use' = use /\ call' = <<"remove", k>>
  BY DeleteDictItemDoes DEF TupleInv, DeleteDictItem
<1>1. /\ DOMAIN Bindings = Object /\ Bindings = [x \in Object |-> Bindings[x]]
      /\ Bindings[k] \in Seq(Images(Keyed(k), Values))
      /\ (Bindings[k] = << >> <=> HasKey(k) = {})
  BY <1>0, BindingsSeq
<1>2. CASE HasKey(k) = {}
  <2>1. UNCHANGED <<items, pair>>
    BY <1>2, DeleteDictItemDoes
  <2>2. Bindings' = Bindings
    BY <1>0, <2>1, QuietStill, QuietBinds
  <2>3. D!Remove(k)
    BY <1>0, <1>1, <1>2, <2>2 DEF D!Remove
  <2>. QED
    BY <2>3 DEF D!Next
<1>3. CASE HasKey(k) # {}
  <2>1. Unset(j)
    BY <1>3, DeleteDictItemDoes
  <2>2. j \in 1..Len(items) /\ KeyAt(j) = k /\ Place(Keyed(k), j) = 1
    BY <1>0, <1>3, FirstBinding
  <2>. HIDE DEF j
  <2>3. Bindings' = [Bindings EXCEPT ![k] = Cut(@, 1)]
    BY <1>0, <2>1, <2>2, UnsetBinds
  <2>4. Cut(Bindings[k], 1) = Tail(Bindings[k])
    BY <1>1, <1>3, FirstPlaces
  <2>5. D!Remove(k)
    BY <1>0, <1>1, <1>3, <2>3, <2>4 DEF D!Remove
  <2>. QED
    BY <2>5 DEF D!Next
<1>. QED
  BY <1>2, <1>3

LEMMA DeleteStep ==
  ASSUME TupleInv, Once, NEW j \in DOMAIN items, Delete(j)
  PROVE  D!Next
<1>0. /\ Sound /\ Sound' /\ use \in {"dict", "names"} /\ use' = use /\ j \in 1..Len(items) /\ Unset(j)
      /\ call' = IF KeyAt(j) = Null THEN <<"none">> ELSE <<"remove", KeyAt(j)>>
  BY DeleteDoes DEF TupleInv, Delete, KeyAt
<1>1. PICK k : k = KeyAt(j)
  OBVIOUS
<1>2. k \in Object \cup {Null}
  BY <1>0, <1>1, ItemsType
<1>3. CASE k = Null
  <2>1. k \notin Object
    BY <1>3, IdsAssumption
  <2>2. Bindings' = Bindings
    BY <1>0, <1>1, <2>1, UnsetBinds
  <2>. QED
    BY <1>0, <1>1, <1>3, <2>2, ElsewhereStep
<1>4. CASE k # Null
  <2> DEFINE n == Place(Keyed(k), j)
  <2>1. k \in Object
    BY <1>2, <1>4
  <2>2. n \in DOMAIN Bindings[k] /\ Bindings' = [Bindings EXCEPT ![k] = Cut(@, n)]
    BY <1>0, <1>1, <2>1, UnsetBinds
  <2>. HIDE DEF n
  <2>3. D!RemoveAt(k, n)
    BY <1>0, <1>1, <1>4, <2>2 DEF D!RemoveAt, Cut
  <2>. QED
    BY <2>1, <2>2, <2>3 DEF D!Next
<1>. QED
  BY <1>3, <1>4

LEMMA ClearValuesStep ==
  ASSUME TupleInv, Once, ClearDictValues
  PROVE  D!Next
<1>0. /\ Sound /\ Sound' /\ use \in {"dict", "names"} /\ use' = use /\ call' = <<"clear">>
      /\ Len(items') = Len(items)
      /\ \A j \in 1..Len(items) : KeyAt(j)' = KeyAt(j) /\ ValueAt(j)' = Null
  BY ClearDictValuesDoes DEF TupleInv, ClearDictValues
<1>1. BindingsForm /\ BindingsForm'
  BY <1>0, BindingsAre, BindingsWillBe
<1>2. \A k : Keyed(k)' = Keyed(k)
  BY <1>0 DEF Keyed
<1>3. Values' = [j \in 1..Len(items) |-> Null]
  BY <1>0 DEF Values
<1>4. Bindings' = [k \in Object |-> Picked(Keyed(k), [j \in 1..Len(items) |-> Null])]
  BY <1>0, <1>1, <1>2, <1>3 DEF BindingsForm
<1>5. ASSUME NEW k \in Object
      PROVE  Picked(Keyed(k), [j \in 1..Len(items) |-> Null]) = [n \in DOMAIN Bindings[k] |-> Null]
  <2>1. IsPositions(Keyed(k)) /\ DOMAIN Bindings[k] = 1..Cardinality(Keyed(k))
    BY <1>0, BindingsType
  <2>2. \A n \in 1..Cardinality(Keyed(k)) : Ascending(Keyed(k))[n] \in 1..Len(items)
    <3>1. \A n \in 1..Cardinality(Keyed(k)) : Ascending(Keyed(k))[n] \in Keyed(k)
      BY <2>1, AscendingType DEF IsPositions
    <3>. QED
      BY <3>1 DEF Keyed
  <2>. QED
    BY <2>1, <2>2 DEF Picked
<1>6. D!ClearValues
  BY <1>0, <1>4, <1>5 DEF D!ClearValues
<1>. QED
  BY <1>6 DEF D!Next

LEMMA HoldStep ==
  ASSUME TupleInv, Once, NEW p \in Pair, Hold(p) \/ Drop(p)
  PROVE  D!Next
<1>1. Sound /\ Sound' /\ Quiet /\ use' = use /\ call' = <<"none">>
  BY HoldDoes DEF TupleInv, Hold, Drop
<1>. QED
  BY <1>1, QuietBinds, ElsewhereStep

LEMMA LoopStep ==
  ASSUME TupleInv, Once, NEW t \in Iterator, BeginLoop(t) \/ Advance(t) \/ Break(t)
  PROVE  D!Next
<1>1. UNCHANGED <<use, items, pair, count, held>> /\ call' = <<"none">> /\ Sound
  BY DEF BeginLoop, Advance, Break, TupleInv
<1>2. Sound' /\ Quiet
  BY <1>1, QuietStill DEF Sound, CountsExact
<1>. QED
  BY <1>1, <1>2, QuietBinds, ElsewhereStep

LEMMA ListStep ==
  ASSUME use = "list", use' = use, call' = call
  PROVE  UNCHANGED <<Bindings, call>>
BY DEF Bindings

LEMMA DictStep ==
  ASSUME TupleInv, Once, [Next]_vars, call' # <<"index">>
  PROVE  [D!Next]_<<Bindings, call>>
<1>1. ASSUME NEW k \in Object, NEW v \in Object \cup {Null}, SetDictItem(k, v)
      PROVE  D!Next
  BY <1>1, SetStep DEF D!Next
<1>2. ASSUME NEW k \in Object, NEW v \in Object, AppendDictItem(k, v)
      PROVE  D!Next
  BY <1>2, AddStep DEF D!Next
<1>3. CASE (\E o \in Object : AppendItem(o) \/ InsertItem(o)) \/ Clear
  BY <1>3, ListStep DEF AppendItem, InsertItem, Clear
<1>4. CASE UNCHANGED vars
  <2>1. UNCHANGED <<use, items, pair, count, held, call>> /\ Sound
    BY <1>4 DEF vars, TupleInv
  <2>2. Sound' /\ Quiet
    BY <2>1, QuietStill DEF Sound, CountsExact
  <2>. QED
    BY <2>1, <2>2, QuietBinds
<1>. QED
  BY <1>1, <1>2, <1>3, <1>4, StoreGlobalStep, LookupStep, DeleteDictItemStep, StoreStep,
     LoadStep, DeleteStep, ConvertToDictStep, ClearValuesStep, HoldStep, LoopStep
     DEF Next, LoadSubscr, DeleteSubscr, StoreSubscr, Subscripted

LEMMA DictInitially ==
  ASSUME Init
  PROVE  D!Init
<1>0. TupleInv /\ Sound /\ call = <<"none">>
  BY TupleInvInitially DEF TupleInv, Init
<1>1. BindingsForm
  BY <1>0, BindingsAre
<1>2. \A j \in 1..Len(items) : ~IsPair(items[j]) /\ ValueAt(j) = Null
  <2>1. items \in Seq(Object)
    BY NamesAssumption DEF Init
  <2>2. \A j \in 1..Len(items) : items[j] \in Object
    BY <2>1
  <2>. QED
    BY <2>2, IdsAssumption DEF IsPair, ValueAt, ValueOf
<1>3. ASSUME NEW k \in Object
      PROVE  Bindings[k] \in {<< >>, <<Null>>}
  <2>1. CASE use = "list"
    BY <1>1, <2>1 DEF BindingsForm
  <2>2. CASE use # "list"
    <3>. use \in {"dict", "names"}
      BY <2>2 DEF Init
    <3>1. /\ Bindings[k] = Picked(Keyed(k), Values) /\ IsPositions(Keyed(k))
          /\ (Bindings[k] = << >> <=> Keyed(k) = {})
      BY <1>0, <2>2, BindingsType
    <3>2. CASE Keyed(k) # {}
      <4>1. PICK j : j \in Keyed(k)
        BY <3>2
      <4>2. k # Null /\ \A i \in Keyed(k) : i = j
        <5>1. use = "names"
          BY <2>2, <4>1 DEF Init, Keyed
        <5>. QED
          BY <1>0, <4>1, <5>1, IdsAssumption DEF TupleInv, Distinct, Keyed
      <4>3. Keyed(k) = {j}
        BY <4>1, <4>2
      <4>4. Cardinality(Keyed(k)) = 1
        BY <4>3, FS_Singleton
      <4>5. Ascending(Keyed(k))[1] = j
        BY <3>1, <4>2, <4>3, <4>4, AscendingType DEF IsPositions
      <4>6. Values[j] = Null
        BY <1>2, <4>1 DEF Values, Keyed
      <4>7. Bindings[k] = [n \in 1..1 |-> Null]
        BY <3>1, <4>4, <4>5, <4>6 DEF Picked
      <4>8. [n \in 1..1 |-> Null] = <<Null>>
        OBVIOUS
      <4>. QED
        BY <4>7, <4>8
    <3>. QED
      BY <3>1, <3>2
  <2>. QED
    BY <2>1, <2>2
<1>4. Bindings = [k \in Object |-> Bindings[k]]
  BY DEF Bindings
<1>. QED
  BY <1>0, <1>3, <1>4 DEF D!Init

(***************************************************************************)
(* A tuple that the machine uses as a dictionary, or as the names of a     *)
(* code object, is a dictionary (module Dict) to every operation that goes *)
(* by the key: what a name was set to last is found, whatever holes, plain *)
(* names and shared pairs the tuple has, and whatever was put into it by   *)
(* an index, as long as no pair has come to two places.                    *)
(***************************************************************************)
THEOREM TupleIsDict == Spec => IsDict
<1>1. Init => D!Init
  BY DictInitially
<1>2. TupleInv /\ [Next]_vars => [call' # <<"index">> /\ Once => D!Next]_<<Bindings, call>>
  BY DictStep
<1>. QED
  BY TupleInvInitially, TupleInvInductive, <1>1, <1>2, PTL DEF Spec, IsDict
=============================================================================
