--------------------------- MODULE RefCountProofs ---------------------------
(***************************************************************************)
(* Proofs about reference counts and the garbage list, for any number of   *)
(* objects, of places in an object and of places outside, when the         *)
(* destructors are C functions.  (A destructor in Python can break what is *)
(* proved here: run refs_del.)                                             *)
(***************************************************************************)
EXTENDS RefCount, FiniteSetTheorems, SequenceTheorems, TLAPS

ObjectOrNull == Object \cup {Null}

(* The places of r that refer to o. *)
Refs(r, o) == {p \in Place : r[p] = o}

LEMMA PlaceFinite == IsFiniteSet(Place)
<1>1. IsFiniteSet(Object \X Field)
  BY SlotAssumption, FS_Product
<1>2. IsFiniteSet({Roots} \X Slot)
  BY SlotAssumption, FS_Product, FS_Singleton
<1>3. IsFiniteSet(Destructible)
  BY SlotAssumption, DestructibleAssumption, FS_Subset
<1>4. IsFiniteSet({Arguments, Variables})
  <2>1. IsFiniteSet({Arguments} \cup {Variables})
    BY FS_Singleton, FS_Union
  <2>2. {Arguments} \cup {Variables} = {Arguments, Variables}
    OBVIOUS
  <2> QED BY <2>1, <2>2
<1>5. IsFiniteSet({Arguments, Variables} \X Destructible)
  BY <1>3, <1>4, FS_Product
<1>6. IsFiniteSet((Object \X Field) \cup ({Roots} \X Slot))
  BY <1>1, <1>2, FS_Union
<1>7. IsFiniteSet(((Object \X Field) \cup ({Roots} \X Slot))
                  \cup ({Arguments, Variables} \X Destructible))
  BY <1>5, <1>6, FS_Union
<1> QED
  BY <1>7 DEF Place

LEMMA RefsFinite ==
  ASSUME NEW r, NEW o
  PROVE  IsFiniteSet(Refs(r, o)) /\ Cardinality(Refs(r, o)) \in Nat
<1>1. Refs(r, o) \in SUBSET Place
  BY DEF Refs
<1> QED
  BY <1>1, PlaceFinite, FS_Subset, FS_CardinalityType

(* How the number of references to o changes when place p gets content x.  *)
LEMMA RefsPut ==
  ASSUME NEW r \in [Place -> ObjectOrNull], NEW p \in Place, NEW x \in ObjectOrNull,
         NEW s, s[p] = x, \A q \in Place : q # p => s[q] = r[q],
         NEW o \in Object
  PROVE  Cardinality(Refs(s, o)) =
           IF x = o /\ r[p] # o THEN Cardinality(Refs(r, o)) + 1
           ELSE IF x # o /\ r[p] = o THEN Cardinality(Refs(r, o)) - 1
           ELSE Cardinality(Refs(r, o))
<1>1. \A q \in Place : s[q] = IF q = p THEN x ELSE r[q]
  OBVIOUS
<1>2. CASE x = o /\ r[p] # o
  <2>1. Refs(s, o) = Refs(r, o) \cup {p} /\ p \notin Refs(r, o)
    BY <1>1, <1>2 DEF Refs
  <2> QED BY <1>2, <2>1, RefsFinite, FS_AddElement
<1>3. CASE x # o /\ r[p] = o
  <2>1. Refs(s, o) = Refs(r, o) \ {p} /\ p \in Refs(r, o)
    BY <1>1, <1>3 DEF Refs
  <2> QED BY <1>3, <2>1, RefsFinite, FS_RemoveElement
<1>4. CASE (x = o) <=> (r[p] = o)
  <2>1. Refs(s, o) = Refs(r, o)
    BY <1>1, <1>4 DEF Refs
  <2> QED BY <1>4, <2>1
<1> QED
  BY <1>2, <1>3, <1>4

(* A place that refers to o is one reference to it at least. *)
LEMMA RefsSome ==
  ASSUME NEW r, NEW o, NEW p \in Place, r[p] = o
  PROVE  Cardinality(Refs(r, o)) > 0
<1>1. p \in Refs(r, o)
  BY DEF Refs
<1> QED
  BY <1>1, RefsFinite, FS_EmptySet

LEMMA RefsNone ==
  ASSUME NEW r, NEW o, Cardinality(Refs(r, o)) = 0, NEW p \in Place
  PROVE  r[p] # o
  BY RefsSome

-----------------------------------------------------------------------------
(* The garbage list: an object that is queued comes first, one that is     *)
(* popped was the last.                                                    *)
Items(l) == {l[k] : k \in 1..Len(l)}

Distinct(l) == \A j, k \in 1..Len(l) : l[j] = l[k] => j = k

LEMMA QueueItems ==
  ASSUME NEW l \in Seq(Object), NEW x \in Object
  PROVE  /\ list_Queue(l, x) \in Seq(Object)
         /\ Len(list_Queue(l, x)) = Len(l) + 1
         /\ list_Queue(l, x)[1] = x
         /\ \A k \in 1..Len(l) : list_Queue(l, x)[k + 1] = l[k]
         /\ \A j \in 1..(Len(l) + 1) : j = 1 \/ (j > 1 /\ list_Queue(l, x)[j] = l[j - 1])
         /\ Items(list_Queue(l, x)) = Items(l) \cup {x}
<1> DEFINE q == list_Queue(l, x)
<1>1. q = [j \in 1..(Len(l) + 1) |-> IF j < 1 THEN l[j] ELSE IF j = 1 THEN x ELSE l[j - 1]]
  BY DEF list_Queue, list_Insert
<1>2. q \in Seq(Object) /\ Len(q) = Len(l) + 1
  <2>1. \A j \in 1..(Len(l) + 1) :
          (IF j < 1 THEN l[j] ELSE IF j = 1 THEN x ELSE l[j - 1]) \in Object
    OBVIOUS
  <2>2. q \in [1..(Len(l) + 1) -> Object]
    BY <1>1, <2>1
  <2>3. Len(l) + 1 \in Nat
    OBVIOUS
  <2>4. DOMAIN q = 1..(Len(l) + 1)
    BY <2>2
  <2> QED BY <2>2, <2>3, <2>4
<1>3. q[1] = x
  BY <1>1
<1>4. \A k \in 1..Len(l) : q[k + 1] = l[k]
  BY <1>1
<1>5. \A j \in 1..(Len(l) + 1) : j = 1 \/ (j > 1 /\ q[j] = l[j - 1])
  BY <1>1
<1> HIDE DEF q
<1>6. Items(q) = Items(l) \cup {x}
  <2>1. \A y \in Items(q) : y \in Items(l) \cup {x}
    <3> SUFFICES ASSUME NEW j \in 1..(Len(l) + 1) PROVE q[j] \in Items(l) \cup {x}
      BY <1>2 DEF Items
    <3>1. CASE j = 1
      BY <3>1, <1>3
    <3>2. CASE j > 1
      <4>1. q[j] = l[j - 1] /\ j - 1 \in 1..Len(l)
        BY <1>5, <3>2
      <4> QED BY <4>1 DEF Items
    <3> QED BY <3>1, <3>2
  <2>2. \A y \in Items(l) \cup {x} : y \in Items(q)
    <3>1. x \in Items(q)
      <4>1. 1 \in 1..Len(q)
        BY <1>2
      <4> QED BY <4>1, <1>3 DEF Items
    <3>2. ASSUME NEW k \in 1..Len(l) PROVE l[k] \in Items(q)
      <4>1. k + 1 \in 1..Len(q)
        BY <1>2
      <4> QED BY <4>1, <1>4 DEF Items
    <3> QED BY <3>1, <3>2 DEF Items
  <2> QED BY <2>1, <2>2
<1> QED
  BY <1>2, <1>3, <1>4, <1>5, <1>6 DEF q

LEMMA PopItems ==
  ASSUME NEW l \in Seq(Object), l # <<>>
  PROVE  /\ list_Pop(l) \in Seq(Object)
         /\ Len(list_Pop(l)) = Len(l) - 1
         /\ \A k \in 1..(Len(l) - 1) : list_Pop(l)[k] = l[k]
         /\ Items(l) = Items(list_Pop(l)) \cup {l[Len(l)]}
         /\ l[Len(l)] \in Object
<1>1. list_Pop(l) = [j \in 1..(Len(l) - 1) |-> IF j < Len(l) THEN l[j] ELSE l[Len(l)]]
  BY DEF list_Pop, list_Remove
<1>2. Len(l) \in Nat \ {0}
  OBVIOUS
<1>3. list_Pop(l) \in [1..(Len(l) - 1) -> Object]
  BY <1>1, <1>2
<1>4. list_Pop(l) \in Seq(Object) /\ Len(list_Pop(l)) = Len(l) - 1
  <2>1. Len(l) - 1 \in Nat
    BY <1>2
  <2>2. DOMAIN list_Pop(l) = 1..(Len(l) - 1)
    BY <1>3
  <2> QED BY <1>3, <2>1, <2>2
<1>5. \A k \in 1..(Len(l) - 1) : list_Pop(l)[k] = l[k]
  BY <1>1, <1>2
<1>6. Items(l) = Items(list_Pop(l)) \cup {l[Len(l)]}
  <2>1. 1..Len(l) = 1..(Len(l) - 1) \cup {Len(l)}
    BY <1>2
  <2> QED BY <1>4, <1>5, <2>1 DEF Items
<1>7. l[Len(l)] \in Object
  BY <1>2
<1> QED
  BY <1>4, <1>5, <1>6, <1>7

LEMMA PopDistinct ==
  ASSUME NEW l \in Seq(Object), l # <<>>, Distinct(l)
  PROVE  Distinct(list_Pop(l)) /\ l[Len(l)] \notin Items(list_Pop(l))
<1>1. Len(l) \in Nat \ {0}
  OBVIOUS
<1>2. Len(list_Pop(l)) = Len(l) - 1 /\ \A k \in 1..(Len(l) - 1) : list_Pop(l)[k] = l[k]
  BY PopItems
<1>3. Distinct(list_Pop(l))
  BY <1>1, <1>2 DEF Distinct
<1>4. ASSUME NEW k \in 1..(Len(l) - 1) PROVE l[Len(l)] # l[k]
  BY <1>1 DEF Distinct
<1> QED
  BY <1>1, <1>2, <1>3, <1>4 DEF Items

(* list_RemoveItem of the last item does what list_Pop does. *)
LEMMA RemoveLast ==
  ASSUME NEW l \in Seq(Object), l # <<>>, Distinct(l), NEW x, x = l[Len(l)]
  PROVE  list_RemoveItem(l, x) = list_Pop(l)
<1>1. Len(l) \in 1..Len(l)
  OBVIOUS
<1>2. Positions(l, x) = {Len(l)}
  BY <1>1 DEF Positions, Distinct
<1>3. (CHOOSE k \in Positions(l, x) : \A j \in Positions(l, x) : k <= j) = Len(l)
  BY <1>1, <1>2
<1> QED
  BY <1>2, <1>3 DEF list_RemoveItem, list_Contains, list_Pop

LEMMA ContainsItems ==
  ASSUME NEW l \in Seq(Object), NEW x
  PROVE  list_Contains(l, x) <=> x \in Items(l)
  BY DEF list_Contains, Positions, Items

(* What obj_DecRefCount does to the garbage list. *)
LEMMA QueuedItems ==
  ASSUME NEW l \in Seq(Object), Distinct(l), NEW count, NEW o \in ObjectOrNull
  PROVE  /\ Queued(l, count, o) \in Seq(Object)
         /\ Distinct(Queued(l, count, o))
         /\ Items(l) \subseteq Items(Queued(l, count, o))
         /\ Items(Queued(l, count, o)) \subseteq Items(l) \cup {o}
         /\ (o # Null /\ count[o] = 1) => o \in Items(Queued(l, count, o))
         /\ (o = Null \/ count[o] # 1 \/ o \in Items(l)) => Queued(l, count, o) = l
<1>1. CASE o # Null /\ count[o] = 1 /\ ~list_Contains(l, o)
  <2> DEFINE q == list_Queue(l, o)
  <2>1. Queued(l, count, o) = q /\ o \in Object
    BY <1>1 DEF Queued, ObjectOrNull
  <2>2. o \notin Items(l)
    BY <1>1, ContainsItems
  <2>3. Distinct(q)
    <3> SUFFICES ASSUME NEW j \in 1..Len(q), NEW k \in 1..Len(q), q[j] = q[k]
                 PROVE  j = k
      BY DEF Distinct
    <3>1. /\ Len(q) = Len(l) + 1 /\ q[1] = o
          /\ \A i \in 1..(Len(l) + 1) : i = 1 \/ (i > 1 /\ q[i] = l[i - 1])
      BY <2>1, QueueItems
    <3> HIDE DEF q
    <3>2. ASSUME NEW i \in 1..Len(q), q[i] = o PROVE i = 1
      <4> SUFFICES ASSUME i # 1 PROVE FALSE
        OBVIOUS
      <4>1. i - 1 \in 1..Len(l) /\ l[i - 1] = o
        BY <3>1, <3>2
      <4> QED BY <4>1, <2>2 DEF Items
    <3>3. CASE j # 1 /\ k # 1
      <4>1. j - 1 \in 1..Len(l) /\ k - 1 \in 1..Len(l) /\ l[j - 1] = l[k - 1]
        BY <3>1, <3>3
      <4>2. j - 1 = k - 1
        BY <4>1 DEF Distinct
      <4> QED BY <4>2
    <3> QED BY <3>1, <3>2, <3>3
  <2>4. q \in Seq(Object) /\ Items(q) = Items(l) \cup {o}
    BY <2>1, QueueItems
  <2> HIDE DEF q
  <2> QED BY <1>1, <2>1, <2>2, <2>3, <2>4
<1>2. CASE ~(o # Null /\ count[o] = 1 /\ ~list_Contains(l, o))
  <2>1. Queued(l, count, o) = l
    BY <1>2 DEF Queued
  <2> QED BY <1>2, <2>1, ContainsItems
<1> QED
  BY <1>1, <1>2, ContainsItems DEF Queued

-----------------------------------------------------------------------------
(* The invariant in terms of the operators above. *)
LEMMA Terms ==
  /\ \A o : RefsTo(o) = Refs(ref, o)
  /\ Garbage = Items(garbage)
  /\ GarbageDistinct <=> Distinct(garbage) /\ Items(garbage) \subseteq live
BY DEF RefsTo, Refs, Garbage, Items, GarbageDistinct, Distinct

LEMMA TermsPrimed ==
  /\ \A o : RefsTo(o)' = Refs(ref', o)
  /\ Garbage' = Items(garbage')
  /\ GarbageDistinct' <=> Distinct(garbage') /\ Items(garbage') \subseteq live'
BY DEF RefsTo, Refs, Garbage, Items, GarbageDistinct, Distinct

(* A place gets another content: the counts stay exact, and an object that *)
(* loses its last reference is in the garbage list.                        *)
AfterPut(p, x) ==
  /\ ref' \in [Place -> ObjectOrNull]
  /\ ref'[p] = x
  /\ \A q \in Place : q # p => ref'[q] = ref[q]
  /\ ref_count' \in [Object -> Nat]
  /\ \A o \in live : ref_count'[o] = Cardinality(Refs(ref', o))
  /\ \A o \in Object : o \notin {x, ref[p]} => ref_count'[o] = ref_count[o]
  /\ x # Null => ref_count'[x] > 0
  /\ ref[p] \in live \cup {Null}
  /\ ref[p] \in live => ref_count[ref[p]] > 0
  /\ garbage' \in Seq(Object)
  /\ Distinct(garbage')
  /\ Items(garbage) \subseteq Items(garbage')
  /\ Items(garbage') \subseteq Items(garbage) \cup ({ref[p]} \cap live)
  /\ \A o \in live : ref_count[o] > 0 /\ ref_count'[o] = 0 => o \in Items(garbage')

LEMMA PutExact ==
  ASSUME IInv, NEW p \in Place, NEW x \in live \cup {Null}, Put(p, x)
  PROVE  AfterPut(p, x)
<1> USE Terms, ObjectAssumption
<1> DEFINE old == ref[p]
           counted == Inc(ref_count, x)
<1>1. /\ ref \in [Place -> ObjectOrNull] /\ live \subseteq Object
      /\ x \in ObjectOrNull /\ old \in live \cup {Null} /\ old \in ObjectOrNull
      /\ ref_count \in [Object -> Nat]
      /\ \A o \in live : ref_count[o] = Cardinality(Refs(ref, o))
      /\ garbage \in Seq(Object) /\ Distinct(garbage)
  BY DEF IInv, TypeOK, NoDangling, CountsExact, ObjectOrNull
<1>2. old # Null => ref_count[old] > 0
  BY <1>1, RefsSome
<1>3. /\ counted \in [Object -> Nat]
      /\ \A o \in Object : counted[o] = IF o = x THEN ref_count[o] + 1 ELSE ref_count[o]
  BY <1>1 DEF Inc, ObjectOrNull
<1> HIDE DEF counted
<1>4. /\ ref' = [ref EXCEPT ![p] = x]
      /\ ref_count' = Dec(counted, old)
      /\ garbage' = Queued(garbage, counted, old)
  BY DEF Put, counted
<1>5. /\ ref_count' \in [Object -> Nat]
      /\ \A o \in Object :
           ref_count'[o] = IF o = old /\ counted[o] # 0 THEN counted[o] - 1 ELSE counted[o]
  BY <1>1, <1>3, <1>4 DEF Dec, ObjectOrNull
<1>6. \A o \in Object :
        ref_count'[o] = IF x = o /\ old # o THEN ref_count[o] + 1
                        ELSE IF x # o /\ old = o THEN ref_count[o] - 1
                        ELSE ref_count[o]
  BY <1>1, <1>2, <1>3, <1>5
<1>7. ASSUME NEW o \in live PROVE ref_count'[o] = Cardinality(Refs(ref', o))
  <2>1. ref'[p] = x /\ \A q \in Place : q # p => ref'[q] = ref[q]
    BY <1>1, <1>4
  <2>2. ref_count[o] = Cardinality(Refs(ref, o)) /\ o \in Object
    BY <1>1
  <2>3. Cardinality(Refs(ref', o)) =
          IF x = o /\ ref[p] # o THEN Cardinality(Refs(ref, o)) + 1
          ELSE IF x # o /\ ref[p] = o THEN Cardinality(Refs(ref, o)) - 1
          ELSE Cardinality(Refs(ref, o))
    BY ONLY <1>1, <2>1, <2>2, RefsPut
  <2> QED BY <2>2, <2>3, <1>6
<1>8. /\ garbage' \in Seq(Object) /\ Distinct(garbage')
      /\ Items(garbage) \subseteq Items(garbage')
      /\ Items(garbage') \subseteq Items(garbage) \cup {old}
      /\ old # Null /\ counted[old] = 1 => old \in Items(garbage')
  BY <1>1, <1>4, QueuedItems
<1>9. Items(garbage') \subseteq Items(garbage) \cup ({old} \cap live)
  <2>1. CASE old = Null
    <3>1. garbage' = garbage
      BY <2>1, <1>4 DEF Queued
    <3> QED BY <3>1
  <2> QED BY <2>1, <1>1, <1>8
<1>10. ASSUME NEW o \in live, ref_count[o] > 0, ref_count'[o] = 0 PROVE o \in Items(garbage')
  <2>1. o = old /\ x # o /\ ref_count[o] = 1
    BY <1>1, <1>6, <1>10
  <2>2. counted[old] = 1
    BY <2>1, <1>1, <1>3
  <2> QED BY <2>1, <2>2, <1>1, <1>8
<1>11. /\ ref' \in [Place -> ObjectOrNull] /\ ref'[p] = x
       /\ \A q \in Place : q # p => ref'[q] = ref[q]
  BY <1>1, <1>4
<1>12. x # Null => ref_count'[x] > 0
  BY <1>1, <1>2, <1>6
<1> QED
  BY <1>1, <1>2, <1>5, <1>6, <1>7, <1>8, <1>9, <1>10, <1>11, <1>12 DEF AfterPut

(* So the invariant holds after it, in a step and in obj_Free. *)
LEMMA PutInvariant ==
  ASSUME IInv, NEW p \in Place, NEW x \in live \cup {Null}, Put(p, x),
         mode = "step" \/ (mode = "free" /\ x = Null),
         p[1] \in live \cup {Roots},
         UNCHANGED <<live, mode, dying, running, locked>>,
         fresh' = fresh \ {x},
         hand' \subseteq live,
         mode # "step" => hand' \subseteq fresh
  PROVE  IInv'
<1> USE Terms, TermsPrimed, ObjectAssumption
<1>0. AfterPut(p, x)
  BY PutExact
<1>1. TypeOK'
  BY <1>0 DEF IInv, TypeOK, AfterPut, ObjectOrNull
<1>2. CountsExact'
  BY <1>0 DEF CountsExact, AfterPut
<1>3. NoDangling'
  BY <1>0 DEF IInv, NoDangling, AfterPut
<1>4. GarbageDistinct'
  BY <1>0 DEF IInv, AfterPut
<1>5. HandAlive'
  BY DEF HandAlive
<1>6. ZeroQueued'
  <2> SUFFICES ASSUME NEW o \in live, ref_count'[o] = 0
               PROVE  o \in Items(garbage') \cup fresh' \cup {dying}
    BY DEF ZeroQueued
  <2>1. o \in Object /\ ref_count[o] \in Nat
    BY DEF IInv, TypeOK
  <2>2. CASE ref_count[o] > 0
    BY <2>2, <1>0 DEF AfterPut
  <2>3. CASE ref_count[o] = 0
    <3>1. o \in Items(garbage) \cup fresh \cup {dying}
      BY <2>3 DEF IInv, ZeroQueued
    <3>2. o # x
      BY <2>1, <1>0 DEF AfterPut
    <3> QED BY <3>1, <3>2, <1>0 DEF AfterPut
  <2> QED BY <2>1, <2>2, <2>3
<1>7. DeadEmpty'
  <2> SUFFICES ASSUME NEW q \in Place, q[1] \in Object \ live PROVE ref'[q] = Null
    BY DEF DeadEmpty
  <2>1. q # p
    OBVIOUS
  <2>2. ref[q] = Null
    BY DEF IInv, DeadEmpty
  <2> QED BY <2>1, <2>2, <1>0 DEF AfterPut
<1>8. FreshUncounted'
  <2>1. ASSUME NEW o \in fresh' PROVE ref_count'[o] = 0 /\ o \notin Items(garbage') \cup {dying}
    <3>1. /\ o # x /\ o \in live /\ o \in Object
          /\ ref_count[o] = 0 /\ o \notin Items(garbage) \cup {dying}
      BY DEF IInv, TypeOK, FreshUncounted
    <3>2. o # ref[p]
      BY <3>1, <1>0 DEF AfterPut
    <3> QED BY <3>1, <3>2, <1>0 DEF AfterPut
  <2>2. mode' # "step" => hand' \subseteq fresh'
    BY DEF IInv, TypeOK
  <2> QED BY <2>1, <2>2 DEF FreshUncounted
<1>9. Dying'
  <2>1. CASE mode = "step"
    BY <2>1 DEF IInv, Dying
  <2>2. CASE mode = "free"
    <3>1. dying \in live /\ dying \in Object /\ ref_count[dying] = 0 /\ dying \notin Items(garbage)
      BY <2>2 DEF IInv, TypeOK, Dying
    <3>2. dying \notin {x, ref[p]}
      BY <3>1, <2>2, <1>0 DEF AfterPut
    <3> QED BY <3>1, <3>2, <2>2, <1>0 DEF Dying, AfterPut
  <2> QED BY <2>1, <2>2
<1>10. Destructor'
  <2>1. ASSUME NEW o \in Destructible
        PROVE  ref'[Variable(o)] = ref[Variable(o)] /\ ref'[Argument(o)] = ref[Argument(o)]
    <3>1. /\ Variable(o) \in Place /\ Argument(o) \in Place
          /\ Variable(o)[1] = Variables /\ Argument(o)[1] = Arguments
      BY DEF Variable, Argument, Place
    <3>2. p # Variable(o) /\ p # Argument(o)
      BY <3>1 DEF IInv, TypeOK
    <3> QED BY <3>1, <3>2, <1>0 DEF AfterPut
  <2>2. running = <<>>
    BY DEF IInv, Destructor
  <2>3. \A o : running # <<o>>
    BY <2>2
  <2> QED BY <2>1, <2>2, <2>3 DEF IInv, Destructor
<1> QED
  BY <1>1, <1>2, <1>3, <1>4, <1>5, <1>6, <1>7, <1>8, <1>9, <1>10 DEF IInv

-----------------------------------------------------------------------------
LEMMA InitInvariant == Init => IInv
<1> SUFFICES ASSUME Init PROVE IInv
  OBVIOUS
<1> USE ObjectAssumption DEF Init
<1>1. TypeOK
  BY DEF TypeOK
<1>2. Garbage = {}
  BY DEF Garbage
<1>3. CountsExact /\ NoDangling /\ GarbageDistinct /\ HandAlive /\ ZeroQueued
  BY <1>2 DEF CountsExact, NoDangling, GarbageDistinct, HandAlive, ZeroQueued
<1>4. DeadEmpty /\ FreshUncounted /\ Dying
  BY DEF DeadEmpty, FreshUncounted, Dying
<1>5. Destructor
  <2>1. ASSUME NEW o \in Destructible PROVE Variable(o) \in Place /\ Argument(o) \in Place
    BY DEF Variable, Argument, Place
  <2>2. \A o : running # <<o>>
    OBVIOUS
  <2> QED BY <2>1, <2>2 DEF Destructor
<1> QED
  BY <1>1, <1>3, <1>4, <1>5 DEF IInv

(* Steps that change nothing but what is in hand, and begin or end a sweep. *)
LEMMA HandStep ==
  ASSUME IInv, UNCHANGED <<live, ref, ref_count, garbage, dying, running, fresh>>,
         mode \in {"step", "sweep"}, mode' \in {"step", "sweep"},
         hand' \subseteq live,
         locked' \subseteq Object,
         mode' # "step" => hand' \subseteq fresh
  PROVE  IInv'
<1> USE TermsPrimed, Terms
<1>1. TypeOK' /\ HandAlive'
  BY DEF IInv, TypeOK, HandAlive
<1>2. CountsExact' /\ NoDangling' /\ GarbageDistinct' /\ ZeroQueued'
  BY DEF IInv, CountsExact, NoDangling, ZeroQueued
<1>3. DeadEmpty' /\ FreshUncounted' /\ Dying'
  BY DEF IInv, DeadEmpty, FreshUncounted, Dying
<1>4. Destructor'
  BY DEF IInv, Destructor, Variable, Argument
<1> QED
  BY <1>1, <1>2, <1>3, <1>4 DEF IInv

LEMMA GetInvariant ==
  ASSUME IInv, NEW p \in Place, Get(p)
  PROVE  IInv'
<1>1. ref[p] \in live
  BY DEF IInv, NoDangling, Get
<1> QED
  BY <1>1, HandStep DEF Get, Step, Take, IInv, TypeOK, HandAlive

LEMMA PushInvariant ==
  ASSUME IInv, NEW p \in Place, NEW o \in hand, Push(p, o)
  PROVE  IInv'
  BY PutInvariant DEF Push, Step, Open, IInv, HandAlive

LEMMA PopInvariant ==
  ASSUME IInv, NEW p \in Place, Pop(p)
  PROVE  IInv'
<1>1. ref[p] \in live
  BY DEF IInv, NoDangling, Pop
<1>2. fresh' = fresh \ {Null}
  BY ObjectAssumption DEF Pop, IInv, TypeOK
<1> QED
  BY <1>1, <1>2, PutInvariant DEF Pop, Step, Open, Take, IInv, HandAlive

LEMMA SetItemInvariant ==
  ASSUME IInv, NEW p \in Place, NEW o \in hand \cup {Null}, SetItem(p, o)
  PROVE  IInv'
  BY PutInvariant DEF SetItem, Step, Open, IInv, HandAlive

LEMMA DropFieldInvariant ==
  ASSUME IInv, NEW f \in Field, DropField(f)
  PROVE  IInv'
<1>1. dying \in live /\ <<dying, f>> \in Place
  BY DEF IInv, TypeOK, Dying, DropField, Place
<1>2. fresh' = fresh \ {Null}
  BY ObjectAssumption DEF DropField, IInv, TypeOK
<1>3. hand' \subseteq live /\ hand' \subseteq fresh
  BY DEF DropField, IInv, HandAlive, FreshUncounted
<1> QED
  BY <1>1, <1>2, <1>3, PutInvariant DEF DropField

(* ROT_TWO counts nothing and need not: the places as a whole refer to the *)
(* same objects as before.                                                 *)
LEMMA RotateInvariant ==
  ASSUME IInv, NEW p \in Place, NEW q \in Place, Rotate(p, q)
  PROVE  IInv'
<1> USE Terms, TermsPrimed
<1>1. /\ ref \in [Place -> ObjectOrNull]
      /\ ref' = [ref EXCEPT ![p] = ref[q], ![q] = ref[p]]
      /\ UNCHANGED <<live, ref_count, garbage, hand, fresh, mode, dying, running, locked>>
      /\ p[1] \in hand \cup {Roots} /\ q[1] = p[1]
  BY DEF IInv, TypeOK, Rotate, Step, Open, ObjectOrNull
<1>2. \A x \in Place : ref'[x] = IF x = q THEN ref[p] ELSE IF x = p THEN ref[q] ELSE ref[x]
  BY <1>1
<1>3. ref' \in [Place -> ObjectOrNull]
  BY <1>1
<1>4. ASSUME NEW o \in Object PROVE Cardinality(Refs(ref', o)) = Cardinality(Refs(ref, o))
  <2>1. CASE p = q
    <3>1. Refs(ref', o) = Refs(ref, o)
      BY <1>2, <2>1 DEF Refs
    <3> QED BY <3>1
  <2>2. CASE p # q
    <3>1. PICK m : m = [x \in Place |-> IF x = p THEN ref[q] ELSE ref[x]]
      OBVIOUS
    <3>2. /\ m[p] = ref[q] /\ m[q] = ref[q]
          /\ \A x \in Place : x # p => m[x] = ref[x]
          /\ \A x \in Place : x # q => ref'[x] = m[x]
          /\ ref'[q] = ref[p]
          /\ m \in [Place -> ObjectOrNull]
          /\ ref[p] \in ObjectOrNull /\ ref[q] \in ObjectOrNull
          /\ ref \in [Place -> ObjectOrNull]
      BY <1>1, <1>2, <2>2, <3>1
    <3>3. Cardinality(Refs(m, o)) =
            IF ref[q] = o /\ ref[p] # o THEN Cardinality(Refs(ref, o)) + 1
            ELSE IF ref[q] # o /\ ref[p] = o THEN Cardinality(Refs(ref, o)) - 1
            ELSE Cardinality(Refs(ref, o))
      BY ONLY <3>2, RefsPut, p \in Place, o \in Object
    <3>4. Cardinality(Refs(ref', o)) =
            IF ref[p] = o /\ m[q] # o THEN Cardinality(Refs(m, o)) + 1
            ELSE IF ref[p] # o /\ m[q] = o THEN Cardinality(Refs(m, o)) - 1
            ELSE Cardinality(Refs(m, o))
      BY ONLY <3>2, RefsPut, q \in Place, o \in Object
    <3>5. Cardinality(Refs(ref, o)) \in Nat
      BY RefsFinite
    <3> QED BY <3>2, <3>3, <3>4, <3>5
  <2> QED BY <2>1, <2>2
<1>5. TypeOK'
  BY <1>1, <1>3 DEF IInv, TypeOK, ObjectOrNull
<1>6. CountsExact'
  BY <1>1, <1>4 DEF IInv, CountsExact, TypeOK
<1>7. NoDangling' /\ HandAlive'
  BY <1>1, <1>2 DEF IInv, NoDangling, HandAlive
<1>8. GarbageDistinct' /\ ZeroQueued'
  BY <1>1 DEF IInv, ZeroQueued
<1>9. DeadEmpty'
  <2>1. p[1] \notin Object \ live /\ q[1] \notin Object \ live
    BY <1>1, ObjectAssumption DEF IInv, HandAlive
  <2>2. ASSUME NEW x \in Place, x[1] \in Object \ live PROVE ref'[x] = Null
    <3>1. x # p /\ x # q
      BY <2>1, <2>2
    <3> QED BY <3>1, <2>2, <1>2 DEF IInv, DeadEmpty
  <2> QED BY <1>1, <2>2 DEF DeadEmpty
<1>10. FreshUncounted' /\ Dying'
  BY <1>1 DEF IInv, FreshUncounted, Dying
<1>11. Destructor'
  <2>1. ASSUME NEW o \in Destructible
        PROVE  ref'[Variable(o)] = ref[Variable(o)] /\ ref'[Argument(o)] = ref[Argument(o)]
    <3>1. /\ Variable(o) \in Place /\ Argument(o) \in Place
          /\ Variable(o)[1] = Variables /\ Argument(o)[1] = Arguments
      BY DEF Variable, Argument, Place
    <3>2. p[1] \notin {Variables, Arguments} /\ q[1] \notin {Variables, Arguments}
      BY <1>1, ObjectAssumption DEF IInv, TypeOK
    <3>3. Variable(o) \notin {p, q} /\ Argument(o) \notin {p, q}
      BY <3>1, <3>2
    <3> QED BY <3>1, <3>3, <1>2
  <2> QED BY <1>1, <2>1 DEF IInv, Destructor
<1> QED
  BY <1>5, <1>6, <1>7, <1>8, <1>9, <1>10, <1>11 DEF IInv

(* obj_Create...: the new object's places add to the references of what it *)
(* is made of.                                                             *)
LEMMA CreateInvariant ==
  ASSUME IInv, NEW o \in Object, NEW fields \in [Field -> hand \cup {Null}], Create(o, fields)
  PROVE  IInv'
<1> USE Terms, TermsPrimed
<1> DEFINE Of(x) == {f \in Field : fields[f] = x}
<1>1. /\ ref \in [Place -> ObjectOrNull] /\ ref_count \in [Object -> Nat]
      /\ o \in Object \ live /\ live' = live \cup {o} /\ live \subseteq Object
      /\ ref' = [p \in Place |-> IF p[1] = o THEN fields[p[2]] ELSE ref[p]]
      /\ ref_count' = [x \in Object |-> IF x = o THEN 0 ELSE ref_count[x] + Cardinality(Of(x))]
      /\ fresh' = (fresh \ {fields[f] : f \in Field}) \cup {o}
      /\ hand' = hand \cup {o}
      /\ UNCHANGED <<garbage, mode, dying, running, locked>>
      /\ mode = "step"
  BY DEF IInv, TypeOK, Create, Step, Take, ObjectOrNull
<1>2. /\ \A p \in Place : p[1] = o => p[2] \in Field /\ p = <<o, p[2]>>
      /\ \A f \in Field : <<o, f>> \in Place
  BY <1>1, ObjectAssumption DEF Place
<1>3. hand \subseteq live /\ \A f \in Field : fields[f] \in live \cup {Null}
  BY DEF IInv, HandAlive
<1>4. /\ \A p \in Place : p[1] = o => ref[p] = Null
      /\ \A p \in Place : ref[p] # o
  BY <1>1, ObjectAssumption DEF IInv, DeadEmpty, NoDangling
<1>5. ASSUME NEW x \in Object
      PROVE  IsFiniteSet(Of(x)) /\ Cardinality(Of(x)) \in Nat /\ (Of(x) # {} => Cardinality(Of(x)) > 0)
  <2>1. IsFiniteSet(Of(x))
    BY SlotAssumption, FS_Subset
  <2> QED BY <2>1, FS_CardinalityType, FS_EmptySet
<1> HIDE DEF Of
<1>6. ref_count' \in [Object -> Nat] /\ \A x \in Object :
        ref_count'[x] = IF x = o THEN 0 ELSE ref_count[x] + Cardinality(Of(x))
  BY <1>1, <1>5
<1>7. ref' \in [Place -> ObjectOrNull] /\ \A p \in Place : ref'[p] \in live \cup {Null}
  BY <1>1, <1>2, <1>3 DEF IInv, NoDangling, ObjectOrNull
<1>8. TypeOK'
  BY <1>1, <1>6, <1>7 DEF IInv, TypeOK, ObjectOrNull
<1>9. CountsExact'
  <2> SUFFICES ASSUME NEW x \in live' PROVE ref_count'[x] = Cardinality(Refs(ref', x))
    BY DEF CountsExact
  <2>1. CASE x = o
    <3>1. Refs(ref', o) = {}
      BY <1>1, <1>7, ObjectAssumption DEF Refs
    <3> QED BY <2>1, <3>1, <1>6, FS_EmptySet
  <2>2. CASE x # o
    <3>0. x \in live /\ x \in Object /\ x # Null
      BY <2>2, <1>1, ObjectAssumption
    <3>1. Refs(ref', x) = Refs(ref, x) \cup ({o} \X Of(x))
      <4>1. ASSUME NEW p \in Refs(ref', x) PROVE p \in Refs(ref, x) \cup ({o} \X Of(x))
        BY <4>1, <1>1, <1>2 DEF Refs, Of
      <4>2. ASSUME NEW p \in Refs(ref, x) PROVE p \in Refs(ref', x)
        BY <4>2, <3>0, <1>1, <1>4 DEF Refs
      <4>3. ASSUME NEW f \in Of(x) PROVE <<o, f>> \in Refs(ref', x)
        BY <4>3, <1>1, <1>2 DEF Refs, Of
      <4> QED BY <4>1, <4>2, <4>3
    <3>2. Refs(ref, x) \cap ({o} \X Of(x)) = {}
      BY <3>0, <1>4 DEF Refs
    <3>3. IsFiniteSet({o}) /\ Cardinality({o}) = 1
      BY FS_Singleton
    <3>4. /\ IsFiniteSet({o} \X Of(x))
          /\ Cardinality({o} \X Of(x)) = Cardinality({o}) * Cardinality(Of(x))
      BY ONLY <3>0, <3>3, <1>5, FS_Product
    <3>5. Cardinality({o} \X Of(x)) = Cardinality(Of(x))
      BY <3>0, <3>3, <3>4, <1>5
    <3>6. Cardinality(Refs(ref', x)) = Cardinality(Refs(ref, x)) + Cardinality(Of(x))
      <4>1. IsFiniteSet(Refs(ref, x)) /\ Cardinality(Refs(ref, x)) \in Nat
        BY RefsFinite
      <4>2. Cardinality(Refs(ref, x) \cup ({o} \X Of(x)))
              = Cardinality(Refs(ref, x)) + Cardinality({o} \X Of(x)) - Cardinality({})
        BY ONLY <4>1, <3>4, <3>2, FS_Union
      <4> QED BY <4>1, <4>2, <3>0, <3>1, <3>5, <1>5, FS_EmptySet
    <3>7. ref_count[x] = Cardinality(Refs(ref, x))
      BY <3>0 DEF IInv, CountsExact
    <3> QED BY <2>2, <3>0, <3>6, <3>7, <1>6
  <2> QED BY <2>1, <2>2
<1>10. NoDangling' /\ HandAlive'
  BY <1>1, <1>3, <1>7 DEF NoDangling, HandAlive
<1>11. GarbageDistinct'
  BY <1>1 DEF IInv
<1>12. ZeroQueued'
  <2> SUFFICES ASSUME NEW x \in live, x # o, ref_count'[x] = 0
               PROVE  x \in Items(garbage') \cup fresh' \cup {dying'}
    BY <1>1 DEF ZeroQueued
  <2>1. ref_count[x] = 0 /\ Cardinality(Of(x)) = 0
    BY <1>1, <1>5, <1>6
  <2>2. Of(x) = {}
    BY <2>1, <1>1, <1>5
  <2>3. x \notin {fields[f] : f \in Field}
    BY <2>2 DEF Of
  <2> QED BY <2>1, <2>3, <1>1 DEF IInv, ZeroQueued
<1>13. DeadEmpty'
  BY <1>1 DEF IInv, DeadEmpty
<1>14. FreshUncounted'
  <2>1. ASSUME NEW x \in fresh' PROVE ref_count'[x] = 0 /\ x \notin Items(garbage') \cup {dying'}
    <3>1. CASE x = o
      <4>1. o \notin Items(garbage) /\ dying = Null
        BY <1>1 DEF IInv, Dying
      <4> QED BY <3>1, <4>1, <1>1, <1>6, ObjectAssumption
    <3>2. CASE x # o
      <4>1. x \in fresh /\ x \in Object /\ \A f \in Field : fields[f] # x
        BY <3>2, <1>1 DEF IInv, TypeOK
      <4>2. Of(x) = {}
        BY <4>1 DEF Of
      <4>3. Cardinality(Of(x)) = 0
        BY <4>2, FS_EmptySet
      <4>4. ref_count[x] = 0 /\ x \notin Items(garbage) \cup {dying}
        BY <4>1 DEF IInv, FreshUncounted
      <4> QED BY <3>2, <4>1, <4>3, <4>4, <1>1, <1>6
    <3> QED BY <3>1, <3>2
  <2> QED BY <2>1, <1>1 DEF FreshUncounted
<1>15. Dying'
  BY <1>1 DEF IInv, Dying
<1>16. Destructor'
  <2>1. ASSUME NEW d \in Destructible
        PROVE  ref'[Variable(d)] = ref[Variable(d)] /\ ref'[Argument(d)] = ref[Argument(d)]
    <3>1. /\ Variable(d) \in Place /\ Argument(d) \in Place
          /\ Variable(d)[1] = Variables /\ Argument(d)[1] = Arguments
      BY DEF Variable, Argument, Place
    <3> QED BY <3>1, <1>1, ObjectAssumption
  <2>2. running = <<>> /\ \A d : running # <<d>>
    BY <1>1 DEF IInv, Destructor
  <2> QED BY <1>1, <2>1, <2>2 DEF IInv, Destructor
<1> QED
  BY <1>8, <1>9, <1>10, <1>11, <1>12, <1>13, <1>14, <1>15, <1>16 DEF IInv

(* An object that a step gives up: it was counted nowhere, or it is        *)
(* counted as it was.                                                      *)
LEMMA ReleaseInvariant ==
  ASSUME IInv, NEW o \in hand, Release(o)
  PROVE  IInv'
<1> USE Terms, TermsPrimed
<1>1. /\ o \in live /\ o \in Object /\ o # Null
      /\ ref_count \in [Object -> Nat]
      /\ garbage \in Seq(Object) /\ Distinct(garbage)
      /\ garbage' = Queued(garbage, Inc(ref_count, o), o)
      /\ fresh' = fresh \ {o}
      /\ UNCHANGED <<live, ref, ref_count, hand, mode, dying, running, locked>>
      /\ mode = "step"
  BY ObjectAssumption DEF IInv, TypeOK, HandAlive, Release, Step
<1>0. PICK counted : counted = Inc(ref_count, o)
  OBVIOUS
<1>2. o \in ObjectOrNull /\ counted[o] = ref_count[o] + 1 /\ ref_count[o] \in Nat
  BY <1>0, <1>1 DEF Inc, ObjectOrNull
<1>2b. garbage' = Queued(garbage, counted, o)
  BY <1>0, <1>1
<1>3. /\ garbage' \in Seq(Object) /\ Distinct(garbage')
      /\ Items(garbage) \subseteq Items(garbage')
      /\ Items(garbage') \subseteq Items(garbage) \cup {o}
      /\ ref_count[o] = 0 => o \in Items(garbage')
  <2>1. garbage \in Seq(Object) /\ Distinct(garbage)
    BY <1>1
  <2>2. /\ Queued(garbage, counted, o) \in Seq(Object)
        /\ Distinct(Queued(garbage, counted, o))
        /\ Items(garbage) \subseteq Items(Queued(garbage, counted, o))
        /\ Items(Queued(garbage, counted, o)) \subseteq Items(garbage) \cup {o}
        /\ o # Null /\ counted[o] = 1 => o \in Items(Queued(garbage, counted, o))
    BY ONLY <1>2, <2>1, QueuedItems
  <2> QED BY <1>1, <1>2, <1>2b, <2>2
<1>4. TypeOK' /\ HandAlive'
  BY <1>1, <1>3 DEF IInv, TypeOK, HandAlive
<1>5. CountsExact' /\ NoDangling' /\ DeadEmpty'
  BY <1>1 DEF IInv, CountsExact, NoDangling, DeadEmpty
<1>6. GarbageDistinct'
  BY <1>1, <1>3 DEF IInv
<1>7. ZeroQueued'
  BY <1>1, <1>3 DEF IInv, ZeroQueued
<1>8. FreshUncounted' /\ Dying'
  <2>1. FreshUncounted'
    BY <1>1, <1>3 DEF IInv, FreshUncounted
  <2>2. Dying'
    BY <1>1 DEF IInv, Dying
  <2> QED BY <2>1, <2>2
<1>9. Destructor'
  <2>1. running = <<>> /\ \A d : running # <<d>>
    BY <1>1 DEF IInv, Destructor
  <2> QED BY <1>1, <2>1 DEF IInv, Destructor, Variable, Argument
<1> QED
  BY <1>4, <1>5, <1>6, <1>7, <1>8, <1>9 DEF IInv

-----------------------------------------------------------------------------
LEMMA SweepInvariant ==
  ASSUME IInv, Sweep
  PROVE  IInv'
<1> USE Terms, TermsPrimed
<1> DEFINE o == garbage[Len(garbage)]
<1>1. /\ mode = "sweep" /\ garbage # <<>>
      /\ garbage \in Seq(Object) /\ Distinct(garbage) /\ Items(garbage) \subseteq live
      /\ garbage' = list_Pop(garbage)
      /\ UNCHANGED <<live, ref, ref_count, running, hand, locked, fresh>>
      /\ IF ref_count[o] = 0
         THEN /\ dying' = o /\ mode' \in {"del", "free"}
              /\ mode' = "del" => o \in Destructible
         ELSE UNCHANGED <<dying, mode>>
      /\ dying = Null
  BY DEF IInv, TypeOK, Sweep, Dying
<1>2. /\ garbage' \in Seq(Object)
      /\ Items(garbage) = Items(garbage') \cup {o}
      /\ Distinct(garbage') /\ o \notin Items(garbage')
      /\ o \in Object
  BY <1>1, PopItems, PopDistinct
<1> HIDE DEF o
<1>3. TypeOK' /\ HandAlive'
  BY <1>1, <1>2 DEF IInv, TypeOK, HandAlive
<1>4. CountsExact' /\ NoDangling' /\ DeadEmpty'
  BY <1>1 DEF IInv, CountsExact, NoDangling, DeadEmpty
<1>5. GarbageDistinct'
  BY <1>1, <1>2 DEF IInv
<1>6. ZeroQueued'
  BY <1>1, <1>2, ObjectAssumption DEF IInv, TypeOK, ZeroQueued
<1>7. FreshUncounted'
  BY <1>1, <1>2 DEF IInv, FreshUncounted
<1>8. Dying'
  BY <1>1, <1>2 DEF IInv, Dying
<1>9. Destructor'
  <2>1. running = <<>> /\ \A d : running # <<d>>
    BY <1>1 DEF IInv, Destructor
  <2> QED BY <1>1, <2>1 DEF IInv, Destructor, Variable, Argument
<1> QED
  BY <1>3, <1>4, <1>5, <1>6, <1>7, <1>8, <1>9 DEF IInv

LEMMA FreedInvariant ==
  ASSUME IInv, Freed
  PROVE  IInv' /\ RefsTo(dying) = {} /\ live \ live' = {dying}
<1> USE Terms, TermsPrimed
<1>1. /\ mode = "free" /\ mode' = "sweep"
      /\ dying \in live /\ dying \in Object /\ ref_count[dying] = 0
      /\ dying \notin Items(garbage)
      /\ live' = live \ {dying} /\ dying' = Null
      /\ UNCHANGED <<ref, ref_count, garbage, running, hand, locked, fresh>>
      /\ \A f \in Field : ref[<<dying, f>>] = Null
  BY DEF IInv, TypeOK, Dying, Freed
<1>2. Refs(ref, dying) = {}
  <2>1. Cardinality(Refs(ref, dying)) = 0
    BY <1>1 DEF IInv, CountsExact
  <2> QED BY <2>1, RefsFinite, FS_EmptySet
<1>3. dying \notin fresh /\ dying \notin hand
  BY <1>1 DEF IInv, FreshUncounted
<1>4. TypeOK' /\ HandAlive'
  BY <1>1, <1>3 DEF IInv, TypeOK, HandAlive
<1>5. CountsExact'
  BY <1>1 DEF IInv, CountsExact
<1>6. NoDangling'
  BY <1>1, <1>2 DEF IInv, NoDangling, Refs
<1>7. GarbageDistinct'
  BY <1>1 DEF IInv
<1>8. ZeroQueued'
  BY <1>1 DEF IInv, ZeroQueued
<1>9. DeadEmpty'
  <2> SUFFICES ASSUME NEW p \in Place, p[1] = dying PROVE ref[p] = Null
    BY <1>1 DEF IInv, DeadEmpty
  <2>1. p[2] \in Field /\ p = <<dying, p[2]>>
    BY <1>1, ObjectAssumption DEF Place
  <2> QED BY <1>1, <2>1
<1>10. FreshUncounted' /\ Dying'
  BY <1>1, ObjectAssumption DEF IInv, TypeOK, FreshUncounted, Dying
<1>11. Destructor'
  <2>1. running = <<>> /\ \A d : running # <<d>>
    BY <1>1 DEF IInv, Destructor
  <2> QED BY <1>1, <2>1 DEF IInv, Destructor, Variable, Argument
<1>12. IInv'
  BY <1>4, <1>5, <1>6, <1>7, <1>8, <1>9, <1>10, <1>11 DEF IInv
<1> QED
  BY <1>1, <1>2, <1>12

(* A destructor in C: the instance is put back at the end of the garbage   *)
(* list and counted for the arguments of the call...                       *)
LEMMA DelBeginInvariant ==
  ASSUME IInv, Scripted = {}, NEW pair, NEW f, DelBegin(pair, f)
  PROVE  IInv'
<1> USE Terms, TermsPrimed
<1> DEFINE o == dying
           p == Argument(dying)
<1>1. /\ mode = "del" /\ mode' = "ret"
      /\ o \in live /\ o \in Object /\ ref_count[o] = 0 /\ o \notin Items(garbage)
      /\ garbage \in Seq(Object) /\ garbage' = Append(garbage, o)
      /\ running = <<>> /\ running' = <<o>> /\ dying' = Null
      /\ o \in Destructible
      /\ ref' = [ref EXCEPT ![p] = o]
      /\ ref_count' = Inc(ref_count, o)
      /\ UNCHANGED <<live, hand, locked, fresh>>
  <2>1. mode = "del" /\ running = <<>>
    BY DEF DelBegin, IInv, Destructor
  <2>2. o \in Destructible
    BY <2>1, ObjectAssumption DEF DelBegin, IInv, TypeOK, Dying
  <2> QED BY <2>1, <2>2 DEF DelBegin, list_Push, IInv, TypeOK, Dying
<1>2. /\ p \in Place /\ ref[p] = Null /\ o # Null /\ o \in ObjectOrNull
      /\ ref \in [Place -> ObjectOrNull] /\ ref_count \in [Object -> Nat]
      /\ p[1] = Arguments
  <2>1. \A d : running # <<d>>
    BY <1>1
  <2> QED BY <1>1, <2>1, ObjectAssumption
          DEF IInv, TypeOK, Destructor, Argument, Place, ObjectOrNull
<1> HIDE DEF p
<1>3. /\ ref' \in [Place -> ObjectOrNull] /\ ref'[p] = o
      /\ \A q \in Place : q # p => ref'[q] = ref[q]
  BY <1>1, <1>2
<1>4. /\ ref_count' \in [Object -> Nat] /\ ref_count'[o] = 1
      /\ \A x \in Object : x # o => ref_count'[x] = ref_count[x]
  BY <1>1, <1>2 DEF Inc
<1>5. /\ garbage' \in Seq(Object) /\ Len(garbage') = Len(garbage) + 1
      /\ garbage' # <<>> /\ garbage'[Len(garbage')] = o
      /\ Items(garbage') = Items(garbage) \cup {o}
      /\ Distinct(garbage')
  <2>1. /\ Len(garbage) \in Nat /\ garbage' \in Seq(Object) /\ Len(garbage') = Len(garbage) + 1
        /\ \A k \in 1..Len(garbage) : garbage'[k] = garbage[k]
        /\ garbage'[Len(garbage) + 1] = o
    BY <1>1
  <2>2. Items(garbage') = Items(garbage) \cup {o}
    <3>1. 1..(Len(garbage) + 1) = 1..Len(garbage) \cup {Len(garbage) + 1}
      BY <2>1
    <3> QED BY ONLY <2>1, <3>1 DEF Items
  <2>3. Distinct(garbage')
    <3>1. \A j, k \in 1..Len(garbage) : garbage[j] = garbage[k] => j = k
      BY DEF IInv, Distinct
    <3>2. \A k \in 1..Len(garbage) : garbage[k] # o
      BY <1>1 DEF Items
    <3> QED BY <2>1, <3>1, <3>2 DEF Distinct
  <2>4. garbage' # <<>>
    BY <2>1
  <2> QED BY <2>1, <2>2, <2>3, <2>4
<1>6. TypeOK' /\ HandAlive'
  BY <1>1, <1>3, <1>4, <1>5, ObjectAssumption DEF IInv, TypeOK, HandAlive, ObjectOrNull
<1>7. CountsExact'
  <2> SUFFICES ASSUME NEW x \in live PROVE ref_count'[x] = Cardinality(Refs(ref', x))
    BY <1>1 DEF CountsExact
  <2>1. x \in Object /\ x # Null /\ ref_count[x] = Cardinality(Refs(ref, x))
    BY ObjectAssumption DEF IInv, TypeOK, CountsExact
  <2>2. Cardinality(Refs(ref', x)) =
          IF o = x /\ ref[p] # x THEN Cardinality(Refs(ref, x)) + 1
          ELSE IF o # x /\ ref[p] = x THEN Cardinality(Refs(ref, x)) - 1
          ELSE Cardinality(Refs(ref, x))
    BY ONLY <1>2, <1>3, <2>1, RefsPut
  <2>3. CASE x = o
    <3>1. ref_count[x] = 0 /\ ref[p] # x /\ ref_count'[x] = 1
      BY <2>3, <1>1, <1>2, <1>4
    <3> QED BY ONLY <2>1, <2>2, <2>3, <3>1
  <2>4. CASE x # o
    BY <2>4, <1>2, <1>4, <2>1, <2>2
  <2> QED BY <2>3, <2>4
<1>8. NoDangling'
  BY <1>1, <1>3 DEF IInv, NoDangling
<1>9. GarbageDistinct'
  BY <1>1, <1>5 DEF IInv
<1>10. ZeroQueued'
  BY <1>1, <1>4, <1>5 DEF IInv, TypeOK, ZeroQueued
<1>11. DeadEmpty'
  <2>1. \A q \in Place : q[1] \in Object => q # p
    BY <1>2, ObjectAssumption
  <2> QED BY <1>1, <1>3, <2>1 DEF IInv, DeadEmpty
<1>12. FreshUncounted'
  <2>1. o \notin fresh
    BY DEF IInv, FreshUncounted
  <2> QED BY <1>1, <1>4, <1>5, <2>1, ObjectAssumption DEF IInv, TypeOK, FreshUncounted
<1>13. Dying'
  BY <1>1 DEF Dying
<1>14. Destructor'
  <2> SUFFICES ASSUME NEW d \in Destructible
               PROVE  /\ ref'[Variable(d)] = Null
                      /\ ref'[Argument(d)] = IF d = o THEN d ELSE Null
    BY <1>1, <1>4, <1>5 DEF Destructor, Variable, Argument
  <2>1. /\ Variable(d) \in Place /\ Argument(d) \in Place
        /\ Variable(d) # p
        /\ Argument(d) = p <=> d = o
    BY <1>2, ObjectAssumption DEF Variable, Argument, Place, p
  <2>2. ref[Variable(d)] = Null /\ ref[Argument(d)] = Null
    <3>1. \A e : running # <<e>>
      BY <1>1
    <3> QED BY <3>1 DEF IInv, Destructor
  <2> QED BY <1>3, <2>1, <2>2
<1> QED
  BY <1>6, <1>7, <1>8, <1>9, <1>10, <1>11, <1>12, <1>13, <1>14 DEF IInv

(* ...and after the call both are undone, so obj_Free goes on with an      *)
(* object that nothing refers to.                                          *)
LEMMA DelEndInvariant ==
  ASSUME IInv, Scripted = {}, DelEnd
  PROVE  IInv'
<1> USE Terms, TermsPrimed
<1>0. PICK o \in Destructible : running = <<o>> /\ mode = "ret"
  <2>1. running # <<>> /\ Len(running) <= 1 /\ running \in Seq(Destructible) /\ mode = "ret"
    BY DEF IInv, TypeOK, Destructor, DelEnd
  <2>2. Len(running) = 1 /\ running[1] \in Destructible
    <3>1. Len(running) \in Nat /\ Len(running) # 0
      BY ONLY <2>1, EmptySeq
    <3>2. Len(running) = 1
      BY ONLY <2>1, <3>1
    <3>3. 1 \in 1..Len(running)
      BY ONLY <3>2
    <3> QED BY ONLY <2>1, <3>2, <3>3, ElementOfSeq
  <2>3. PICK o \in Destructible : o = running[1]
    BY <2>2
  <2>4. <<o>> \in Seq(Destructible) /\ Len(<<o>>) = 1 /\ <<o>>[1] = o
    OBVIOUS
  <2>5. running = <<o>>
    BY <2>1, <2>2, <2>3, <2>4, SeqEqual
  <2> QED BY <2>1, <2>5
<1> DEFINE p == Argument(o)
<1>1. /\ ref[Variable(o)] = Null /\ ref[p] = o
      /\ o \in live /\ o \in Object /\ ref_count[o] = 1 /\ o # Null
      /\ garbage \in Seq(Object) /\ garbage # <<>> /\ garbage[Len(garbage)] = o
      /\ Distinct(garbage) /\ Items(garbage) \subseteq live
      /\ ref \in [Place -> ObjectOrNull] /\ ref_count \in [Object -> Nat]
      /\ running[Len(running)] = o /\ dying = Null
  <2>1. running[Len(running)] = o
    BY <1>0
  <2> QED BY <1>0, <2>1, ObjectAssumption, DestructibleAssumption
          DEF IInv, TypeOK, Destructor, Dying, ObjectOrNull
<1>2. /\ p \in Place /\ Variable(o) \in Place /\ p # Variable(o)
      /\ p[1] = Arguments
  BY ObjectAssumption DEF Argument, Variable, Place
<1>3. o \in Items(garbage)
  <2>1. Len(garbage) \in 1..Len(garbage)
    BY <1>1
  <2> QED BY <1>1, <2>1 DEF Items
<1>4. /\ ref' = [ref EXCEPT ![Variable(o)] = Null, ![p] = Null]
      /\ ref_count' = Dec(ref_count, o)
      /\ garbage' = list_RemoveItem(garbage, o)
      /\ dying' = o /\ mode' = "free" /\ running' = <<>>
      /\ UNCHANGED <<live, hand, locked, fresh>>
  <2>1. Dec(ref_count, Null) = ref_count /\ Queued(garbage, ref_count, Null) = garbage
    BY DEF Dec, Queued
  <2>2. Queued(garbage, ref_count, o) = garbage
    BY <1>1, <1>3, ContainsItems DEF Queued
  <2>3. SubSeq(running, 1, Len(running) - 1) = <<>>
    BY <1>0
  <2> QED BY <1>1, <2>1, <2>2, <2>3 DEF DelEnd
<1> HIDE DEF p
<1>5. /\ garbage' \in Seq(Object) /\ Distinct(garbage')
      /\ Items(garbage) = Items(garbage') \cup {o}
      /\ o \notin Items(garbage')
  BY <1>1, <1>4, RemoveLast, PopItems, PopDistinct
<1>6. /\ ref' \in [Place -> ObjectOrNull] /\ ref'[p] = Null
      /\ \A q \in Place : q # p => ref'[q] = ref[q]
  BY <1>1, <1>2, <1>4 DEF ObjectOrNull
<1>7. /\ ref_count' \in [Object -> Nat] /\ ref_count'[o] = 0
      /\ \A x \in Object : x # o => ref_count'[x] = ref_count[x]
  BY <1>1, <1>4 DEF Dec
<1>8. TypeOK' /\ HandAlive'
  <2>1. running' \in Seq(Destructible) /\ dying' \in Object \cup {Null} /\ hand' \subseteq live'
    BY <1>1, <1>4 DEF IInv, HandAlive
  <2> QED BY <2>1, <1>4, <1>5, <1>6, <1>7 DEF IInv, TypeOK, HandAlive, ObjectOrNull
<1>9. CountsExact'
  <2> SUFFICES ASSUME NEW x \in live PROVE ref_count'[x] = Cardinality(Refs(ref', x))
    BY <1>4 DEF CountsExact
  <2>1. x \in Object /\ x # Null /\ ref_count[x] = Cardinality(Refs(ref, x)) /\ Null \in ObjectOrNull
    BY ObjectAssumption DEF IInv, TypeOK, CountsExact, ObjectOrNull
  <2>2. Cardinality(Refs(ref', x)) =
          IF Null = x /\ ref[p] # x THEN Cardinality(Refs(ref, x)) + 1
          ELSE IF Null # x /\ ref[p] = x THEN Cardinality(Refs(ref, x)) - 1
          ELSE Cardinality(Refs(ref, x))
    BY ONLY <1>1, <1>2, <1>6, <2>1, RefsPut
  <2>3. CASE x = o
    BY ONLY <2>3, <1>1, <1>7, <2>1, <2>2
  <2>4. CASE x # o
    BY ONLY <2>4, <1>1, <1>7, <2>1, <2>2
  <2> QED BY <2>3, <2>4
<1>10. NoDangling'
  BY <1>4, <1>6 DEF IInv, NoDangling
<1>11. GarbageDistinct'
  BY <1>1, <1>4, <1>5
<1>12. ZeroQueued'
  BY <1>1, <1>4, <1>5, <1>7, ObjectAssumption DEF IInv, TypeOK, ZeroQueued
<1>13. DeadEmpty'
  BY <1>4, <1>6 DEF IInv, DeadEmpty
<1>14. FreshUncounted'
  <2>1. o \notin fresh
    BY <1>1 DEF IInv, FreshUncounted
  <2>2. ASSUME NEW x \in fresh PROVE ref_count'[x] = 0 /\ x \notin Items(garbage') \cup {o}
    BY <2>1, <1>5, <1>7 DEF IInv, TypeOK, FreshUncounted
  <2>3. hand \subseteq fresh
    BY <1>0 DEF IInv, FreshUncounted
  <2> QED BY <1>4, <2>2, <2>3 DEF FreshUncounted
<1>15. Dying'
  BY <1>1, <1>4, <1>5, <1>7 DEF Dying
<1>16. Destructor'
  <2>1. ASSUME NEW d \in Destructible
        PROVE  ref'[Variable(d)] = Null /\ ref'[Argument(d)] = Null
    <3>1. /\ Variable(d) \in Place /\ Argument(d) \in Place
          /\ Variable(d) # p
          /\ Argument(d) = p <=> d = o
      BY <1>2, ObjectAssumption DEF Variable, Argument, Place, p
    <3>2. ref[Variable(d)] = Null
      BY DEF IInv, Destructor
    <3>3. d # o => ref[Argument(d)] = Null
      <4>1. d # o => running # <<d>>
        BY <1>0
      <4> QED BY <4>1 DEF IInv, Destructor
    <3> QED BY <1>6, <3>1, <3>2, <3>3
  <2>2. \A d : running' # <<d>>
    BY <1>4
  <2>3. mode' # "ret" /\ running' = <<>> /\ Len(running') <= 1
    BY <1>4
  <2> QED BY <2>1, <2>2, <2>3 DEF Destructor, Variable, Argument
<1> QED
  BY <1>8, <1>9, <1>10, <1>11, <1>12, <1>13, <1>14, <1>15, <1>16 DEF IInv

-----------------------------------------------------------------------------
(* One step of the machine keeps the invariant, and frees only what        *)
(* nothing refers to.                                                      *)
LEMMA StepInvariant ==
  ASSUME IInv, Scripted = {}, [Next]_vars
  PROVE  IInv' /\ \A o \in live \ live' : RefsTo(o) = {}
<1>1. CASE Operation
  <2>1. CASE \E o \in Object : \E fields \in [Field -> hand \cup {Null}] : Create(o, fields)
    BY <2>1, CreateInvariant DEF Create
  <2>2. CASE \E p \in Place : Get(p)
    BY <2>2, GetInvariant DEF Get
  <2>3. CASE \E p \in Place : Pop(p)
    BY <2>3, PopInvariant DEF Pop
  <2>4. CASE \E p \in Place : \E o \in hand : Push(p, o)
    BY <2>4, PushInvariant DEF Push
  <2>5. CASE \E p \in Place : \E o \in hand \cup {Null} : SetItem(p, o)
    BY <2>5, SetItemInvariant DEF SetItem
  <2>6. CASE \E p \in Place : \E q \in Place : Rotate(p, q)
    BY <2>6, RotateInvariant DEF Rotate
  <2>7. CASE \E o \in hand : Release(o)
    BY <2>7, ReleaseInvariant DEF Release
  <2> QED BY <1>1, <2>1, <2>2, <2>3, <2>4, <2>5, <2>6, <2>7 DEF Operation
<1>2. CASE EndStep
  BY <1>2, HandStep DEF EndStep
<1>3. CASE SweepWithin
  <2>1. hand' \subseteq live /\ hand' \subseteq fresh /\ locked' \subseteq Object
    BY <1>3 DEF SweepWithin, IInv, TypeOK, HandAlive
  <2> QED BY <1>3, <2>1, HandStep DEF SweepWithin
<1>4. CASE Sweep
  BY <1>4, SweepInvariant DEF Sweep
<1>5. CASE SweepDone
  <2>1. hand' \subseteq live /\ locked' \subseteq Object
    BY <1>5 DEF SweepDone, IInv, TypeOK, HandAlive
  <2> QED BY <1>5, <2>1, HandStep DEF SweepDone
<1>6. CASE \E pair \in Object \cup {Null}, f \in Field : DelBegin(pair, f)
  <2>1. live' = live
    BY <1>6 DEF DelBegin, IInv, Destructor, Dying
  <2> QED BY <1>6, <2>1, DelBeginInvariant
<1>7. CASE DelEnd
  BY <1>7, DelEndInvariant DEF DelEnd
<1>8. CASE \E f \in Field : DropField(f)
  BY <1>8, DropFieldInvariant DEF DropField
<1>9. CASE Freed
  BY <1>9, FreedInvariant
<1>10. CASE UNCHANGED vars
  <2>1. IInv'
    <3>1. CASE mode \in {"step", "sweep"}
      BY <1>10, <3>1, HandStep DEF vars, IInv, TypeOK, HandAlive, FreshUncounted
    <3>2. CASE mode \notin {"step", "sweep"}
      BY <1>10, <3>2 DEF vars, IInv, TypeOK, CountsExact, NoDangling, GarbageDistinct,
         HandAlive, ZeroQueued, DeadEmpty, FreshUncounted, Dying, Destructor, RefsTo,
         Garbage, Variable, Argument
    <3> QED BY <3>1, <3>2
  <2> QED BY <1>10, <2>1 DEF vars
<1> QED
  BY <1>1, <1>2, <1>3, <1>4, <1>5, <1>6, <1>7, <1>8, <1>9, <1>10 DEF Next, Collection

-----------------------------------------------------------------------------
(* With destructors in C, every state satisfies the inductive invariant:   *)
(* whatever sequence of operations the byte codes perform, counts, garbage *)
(* list and destructor calls fit together.                                 *)
THEOREM Invariance ==
  ASSUME Scripted = {}
  PROVE  Spec => []IInv
<1>1. Init => IInv
  BY InitInvariant
<1>2. IInv /\ [Next]_vars => IInv'
  BY StepInvariant
<1> QED
  BY <1>1, <1>2, PTL DEF Spec

(* The variables keep to their types. *)
THEOREM TypeCorrect ==
  ASSUME Scripted = {}
  PROVE  Spec => []TypeOK
<1>1. IInv => TypeOK
  BY DEF IInv
<1> QED
  BY <1>1, Invariance, PTL

(* The count of an object is the number of places that refer to it:        *)
(* obj_IncRefCount and obj_DecRefCount are called in pairs.                *)
THEOREM CountsCorrect ==
  ASSUME Scripted = {}
  PROVE  Spec => []CountsExact
<1>1. IInv => CountsExact
  BY DEF IInv
<1> QED
  BY <1>1, Invariance, PTL

(* No item, field or variable is the id of an object that has been freed.  *)
THEOREM NothingDangles ==
  ASSUME Scripted = {}
  PROVE  Spec => []NoDangling
<1>1. IInv => NoDangling
  BY DEF IInv
<1> QED
  BY <1>1, Invariance, PTL

(* obj_ClearGC meets every object at most once, and no memory that is not  *)
(* an object.                                                              *)
THEOREM GarbageCorrect ==
  ASSUME Scripted = {}
  PROVE  Spec => []GarbageDistinct
<1>1. IInv => GarbageDistinct
  BY DEF IInv
<1> QED
  BY <1>1, Invariance, PTL

(* What a step reads, writes or stores is allocated: what it popped, until *)
(* a sweep begins; what it made and counted nowhere, through the sweeps    *)
(* and destructors of nested runs as well.  Nothing is said of `locked':   *)
(* the block of a class's body, which vm_Step unlocks after __init__ has   *)
(* run, may have been freed by then.                                       *)
THEOREM HandStaysAlive ==
  ASSUME Scripted = {}
  PROVE  Spec => []HandAlive
<1>1. IInv => HandAlive
  BY DEF IInv
<1> QED
  BY <1>1, Invariance, PTL

(* No object is lost: one that nothing refers to any more awaits the next  *)
(* sweep.                                                                  *)
THEOREM NothingLost ==
  ASSUME Scripted = {}
  PROVE  Spec => []ZeroQueued
<1>1. IInv => ZeroQueued
  BY DEF IInv
<1> QED
  BY <1>1, Invariance, PTL

(* obj_Free frees what nothing refers to. *)
THEOREM FreesUnreferenced ==
  ASSUME Scripted = {}
  PROVE  Spec => FreedUnreferenced
<1>1. IInv /\ [Next]_vars => [\A o \in live \ live' : RefsTo(o) = {}]_vars
  BY StepInvariant
<1> QED
  BY <1>1, Invariance, PTL DEF Spec, FreedUnreferenced
=============================================================================
