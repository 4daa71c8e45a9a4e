------------------------------- MODULE Tuples -------------------------------
(***************************************************************************)
(* The tuples of tuples.c, in the three ways the machine uses them.        *)
(*                                                                         *)
(* "list": a Python list or tuple, or the arguments of a call; a loop over *)
(* it keeps its position in the tuple itself (iterators.c).                *)
(* "dict": a Python dictionary, the variables of an instance, vm->globals; *)
(* its items are pairs (TYPE_KV), which other places may hold too.         *)
(* "names": the names or varnames of a code object.  An item is a name     *)
(* until something is stored there, then the pair of the name and its      *)
(* value.                                                                  *)
(*                                                                         *)
(* Deleting an item leaves the id 0 in its place.  Index i of the code is  *)
(* position i + 1 here.  An operation is one step of the machine: a pair   *)
(* that has no reference at its end is swept (module RefCount).            *)
(*                                                                         *)
(* Between brackets a key of TYPE_INT is an index, of a list as of a       *)
(* dictionary, and never looked up: d[1] is the second item.  An index     *)
(* that lies before the items reaches out of the list's memory; `lost' is  *)
(* the program after that.                                                 *)
(***************************************************************************)
EXTENDS Integers, Sequences, FiniteSets, Lists, Ascending, TLC

CONSTANTS
  Object,     \* names and values; obj_Compare finds the same ones equal
  Pair,       \* ids of pairs
  Null,       \* the id 0
  None,       \* the object None
  Names,      \* the names a code object begins with
  Iterator,
  Subscript,  \* bound: the numbers that are used as an index
  MaxLen      \* bound: items of the tuple

ASSUME IdsAssumption ==
  /\ Null \notin Object \cup Pair
  /\ Object \cap Pair = {}
  /\ None \in Object
  /\ IsFiniteSet(Pair)
ASSUME NamesAssumption ==
  /\ Names \in Seq(Object)
  /\ \A i, j \in DOMAIN Names : Names[i] = Names[j] => i = j
ASSUME SubscriptAssumption == Subscript \subseteq Int
ASSUME MaxLenAssumption == MaxLen \in Nat

VARIABLES
  use,      \* how the machine uses the tuple, or "lost"
  items,
  pair,     \* the key and the value of each pair
  count,    \* the reference counts
  held,     \* pairs that another place refers to: a closure, the stack
  deleted,  \* some name was deleted
  locked,   \* locks of the id 0 that were never unlocked
  ptr,      \* tp->ptr
  looping,  \* iterators of loops that have begun and not ended
  alone,    \* those since whose beginning no other loop used the tuple
  given,    \* items each iterator has given to its loop
  call      \* what the last call on a dictionary saw or set

vars == <<use, items, pair, count, held, deleted, locked, ptr, looping, alone,
          given, call>>
loops == <<ptr, looping, alone, given>>

Items == Object \cup Pair \cup {Null}

NoPair == [key |-> Null, value |-> Null]

-----------------------------------------------------------------------------
IsPair(x) == x \in Pair
KeyOf(x) == IF IsPair(x) THEN pair[x].key ELSE x
ValueOf(x) == IF IsPair(x) THEN pair[x].value ELSE Null

Earliest(S) == CHOOSE j \in S : \A i \in S : j <= i

(* tuple_GetDictItemIndex: the position, 0 for -1. *)
HasKey(k) == {j \in DOMAIN items : items[j] # Null /\ KeyOf(items[j]) = k}

IndexIn(S) == IF S = {} THEN 0 ELSE Earliest(S)

tuple_GetDictItemIndex_Last(k) ==
  IF HasKey(k) = {} THEN 0 ELSE CHOOSE j \in HasKey(k) : \A i \in HasKey(k) : j >= i

tuple_GetDictItemIndex(k) == IndexIn(HasKey(k))

(* Negative indexes count from the end. *)
Position(i) == IF i < 0 THEN i + Len(items) + 1 ELSE i + 1

Behind(i) == i >= Len(items)
Before(i) == i < -Len(items)

(* No pair is in two places of the tuple. *)
Once == \A i, j \in DOMAIN items : IsPair(items[i]) /\ items[i] = items[j] => i = j

-----------------------------------------------------------------------------
(* The counts when the ids in `more' are counted and those in `less' are   *)
(* discounted, each as often as it is in the sequence.  A count stops at   *)
(* 0; the pairs whose count came to 0 are swept and discount their key and *)
(* their value.                                                            *)
Times(s, x) == Cardinality(Positions(s, x))

Counted(more, less) ==
  [x \in Object \cup Pair |->
     LET n == count[x] + Times(more, x) - Times(less, x) IN IF n < 0 THEN 0 ELSE n]

Fields(P, pairs, x) ==
  Cardinality({p \in P : pairs[p].key = x}) + Cardinality({p \in P : pairs[p].value = x})

Update(its, pairs, more, less) ==
  LET n     == Counted(more, less)
      swept == {p \in Pair : Positions(less, p) # {} /\ n[p] = 0}
  IN /\ items' = its
     /\ pair' = [p \in Pair |-> IF p \in swept THEN NoPair ELSE pairs[p]]
     /\ count' = [x \in Object \cup Pair |-> n[x] - Fields(swept, pairs, x)]

(* tuple_SetItem *)
PutItem(j, o) == Update([items EXCEPT ![j] = o], pair, <<o>>, <<items[j]>>)

(* obj_ConvertToValuedKV: a new pair p, in the place of item j or behind   *)
(* the last one.                                                           *)
PutPair(j, p, k, v) ==
  /\ count[p] = 0
  /\ LET pairs == [pair EXCEPT ![p] = [key |-> k, value |-> v]] IN
       IF j > Len(items)
       THEN Len(items) < MaxLen /\ Update(list_Push(items, p), pairs, <<p, k, v>>, << >>)
       ELSE Update([items EXCEPT ![j] = p], pairs, <<p, k, v>>, <<items[j]>>)

(* A value replaces another in a pair. *)
PutValue_Uncounted(p, v) == Update(items, [pair EXCEPT ![p].value = v], <<v>>, << >>)

PutValue(p, v) == Update(items, [pair EXCEPT ![p].value = v], <<v>>, <<pair[p].value>>)

(* What tuple_SetDictItem and tuple_SetDictItemByIndex do to item j. *)
Bind(j, k, v) ==
  IF j \in DOMAIN items /\ IsPair(items[j]) THEN PutValue(items[j], v)
  ELSE \E p \in Pair : PutPair(j, p, k, v)

Init ==
  /\ use \in {"list", "dict", "names"}
  /\ items = IF use = "names" THEN Names ELSE << >>
  /\ pair = [p \in Pair |-> NoPair]
  /\ count = [x \in Object \cup Pair |-> Times(items, x)]
  /\ held = {}
  /\ deleted = FALSE
  /\ locked = FALSE
  /\ ptr = 0
  /\ looping = {}
  /\ alone = {}
  /\ given = [t \in Iterator |-> 0]
  /\ call = <<"none">>

-----------------------------------------------------------------------------
(* As a dictionary or as names, by the name. *)

(* tuple_SetDictItem: STORE_MAP, MAP_ADD, obj_SetAttribute, keyword        *)
(* arguments and defaults, and STORE_SUBSCR with a key that is no INT.     *)
SetDictItem(k, v) ==
  /\ use \in {"dict", "names"}
  /\ LET j == tuple_GetDictItemIndex(k) IN Bind(IF j = 0 THEN Len(items) + 1 ELSE j, k, v)
  /\ call' = <<"set", k, v>>
  /\ UNCHANGED <<use, held, deleted, locked, loops>>

(* tuple_GetDictItem: attributes, globals, and BINARY_SUBSCR with a key    *)
(* that is no INT.                                                         *)
GetDictItem(k) ==
  /\ use \in {"dict", "names"}
  /\ LET j == tuple_GetDictItemIndex(k)
     IN  call' = <<"get", k, IF j = 0 THEN Null ELSE ValueOf(items[j])>>
  /\ UNCHANGED <<use, items, pair, count, held, deleted, locked, loops>>

(* vm_AddGlobal looks for no binding of the name that is there. *)
AppendDictItem(k, v) ==
  /\ use = "dict"
  /\ \E p \in Pair : PutPair(Len(items) + 1, p, k, v)
  /\ call' = <<"add", k, v>>
  /\ UNCHANGED <<use, held, deleted, locked, loops>>

(* vm_RemoveGlobal *)
DeleteDictItem(k) ==
  /\ use = "dict"
  /\ LET j == tuple_GetDictItemIndex(k)
     IN  IF j = 0 THEN UNCHANGED <<items, pair, count>> ELSE PutItem(j, Null)
  /\ call' = <<"remove", k>>
  /\ UNCHANGED <<use, held, deleted, locked, loops>>

(* STORE_GLOBAL, and DELETE_GLOBAL with the value 0: the item is found by  *)
(* tuple_GetItemIndexByName, which takes a pair without a name for NULL.   *)
StoreGlobal(k, v) ==
  /\ use = "names"
  /\ \A j \in DOMAIN items : IsPair(items[j]) => KeyOf(items[j]) # Null
  /\ LET j == tuple_GetDictItemIndex(k) IN
       IF j = 0
       THEN call' = <<"none">> /\ UNCHANGED <<items, pair, count>>
       ELSE call' = <<"set", k, v>> /\ Bind(j, items[j], v)
  /\ UNCHANGED <<use, held, deleted, locked, loops>>

(* tuple_GetDictItemByName (vm_RunFunction) looks for a pair of the name,  *)
(* and goes on past the name itself.  It locks every item it looks at, and *)
(* leaves the lock of an item that is 0.                                   *)
PairOf(k) == IndexIn({j \in DOMAIN items : IsPair(items[j]) /\ KeyOf(items[j]) = k})

LeavesLock_OfOthers(k) ==
  \E i \in DOMAIN items : ~IsPair(items[i]) /\ (PairOf(k) = 0 \/ i < PairOf(k))

LeavesLock(k) ==
  \E i \in DOMAIN items : items[i] = Null /\ (PairOf(k) = 0 \/ i < PairOf(k))

GetDictItemByName(k) ==
  /\ use = "names"
  /\ \A j \in DOMAIN items : IsPair(items[j]) => KeyOf(items[j]) # Null
  /\ LET j == PairOf(k)
     IN  call' = <<"get", k, IF j = 0 THEN Null ELSE ValueOf(items[j])>>
  /\ locked' = (locked \/ LeavesLock(k))
  /\ UNCHANGED <<use, items, pair, count, held, deleted, loops>>

-----------------------------------------------------------------------------
(* As names, by the index. *)

(* STORE_NAME, STORE_FAST, and the arguments of vm_StartFunctionObject. *)
Store(j, v) ==
  /\ use = "names"
  /\ call' = IF KeyOf(items[j]) = Null THEN <<"none">> ELSE <<"set", KeyOf(items[j]), v>>
  /\ Bind(j, items[j], v)
  /\ UNCHANGED <<use, held, deleted, locked, loops>>

(* LOAD_NAME, LOAD_FAST, of a variable that has a value. *)
Load(j) ==
  /\ use = "names"
  /\ IsPair(items[j])
  /\ call' = IF KeyOf(items[j]) = Null THEN <<"none">>
             ELSE <<"get", KeyOf(items[j]), ValueOf(items[j])>>
  /\ UNCHANGED <<use, items, pair, count, held, deleted, locked, loops>>

(* DELETE_NAME, DELETE_FAST *)
Delete(j) ==
  /\ use = "names"
  /\ items[j] # Null
  /\ PutItem(j, Null)
  /\ deleted' = TRUE
  /\ call' = IF KeyOf(items[j]) = Null THEN <<"none">> ELSE <<"remove", KeyOf(items[j])>>
  /\ UNCHANGED <<use, held, locked, loops>>

(* tuple_ClearDictValues (obj_CreateFunction): every pair gives way to its *)
(* key, and is discounted once more.  Nothing else refers to the pairs of  *)
(* the varnames of a function.                                             *)
ClearDictValues ==
  /\ use = "names"
  /\ held = {}
  /\ LET pairs == [j \in DOMAIN items |-> IF IsPair(items[j]) THEN items[j] ELSE Null]
         keys  == [j \in DOMAIN items |-> IF IsPair(items[j]) THEN KeyOf(items[j]) ELSE Null]
     IN  Update([j \in DOMAIN items |-> KeyOf(items[j])], pair, keys, pairs \o pairs)
  /\ call' = <<"clear">>
  /\ UNCHANGED <<use, held, deleted, locked, loops>>

(* tuple_ConvertToDict (free and cell variables): every name gets a pair,  *)
(* here one name after the other.                                          *)
ConvertToDict(j, p) ==
  /\ use = "names"
  /\ items[j] # Null /\ ~IsPair(items[j])
  /\ PutPair(j, p, items[j], Null)
  /\ call' = <<"none">>
  /\ UNCHANGED <<use, held, deleted, locked, loops>>

(* A closure, or the stack after LOAD_GLOBAL, refers to a pair as well. *)
Hold(p) ==
  /\ use \in {"dict", "names"}
  /\ p \in {items[j] : j \in DOMAIN items} \ held
  /\ held' = held \cup {p}
  /\ Update(items, pair, <<p>>, << >>)
  /\ call' = <<"none">>
  /\ UNCHANGED <<use, deleted, locked, loops>>

Drop(p) ==
  /\ use # "lost"
  /\ p \in held
  /\ held' = held \ {p}
  /\ Update(items, pair, << >>, <<p>>)
  /\ call' = <<"none">>
  /\ UNCHANGED <<use, deleted, locked, loops>>

-----------------------------------------------------------------------------
(* As a list or as a dictionary, by the index.                             *)

(* tuple_SetItem *)
SetItem(i, o) ==
  \/ /\ Behind(i)
     /\ UNCHANGED <<use, items, pair, count>>
  \/ /\ Before(i)
     /\ use' = "lost"
     /\ UNCHANGED <<items, pair, count>>
  \/ /\ ~Behind(i) /\ ~Before(i)
     /\ PutItem(Position(i), o)
     /\ UNCHANGED use

Subscripted ==
  /\ use \in {"list", "dict"}
  /\ call' = <<"index">>
  /\ UNCHANGED <<held, deleted, locked, loops>>

(* STORE_SUBSCR; what it stores may be a pair that BINARY_SUBSCR fetched   *)
(* from the dictionary (Hold).                                             *)
StoreSubscr(i, o) ==
  /\ Subscripted
  /\ o \in Object \cup held
  /\ SetItem(i, o)

(* BINARY_SUBSCR *)
LoadSubscr(i) ==
  /\ Subscripted
  /\ use' = IF items # << >> /\ Before(i) THEN "lost" ELSE use
  /\ UNCHANGED <<items, pair, count>>

(* DELETE_SUBSCR, with 0 for a key that is no INT.  tuple_DeleteItem makes *)
(* a negative index positive, and so do the two functions that it calls.   *)
DeleteSubscr(i) ==
  /\ Subscripted
  /\ IF items = << >> \/ Behind(i)
     THEN UNCHANGED <<use, items, pair, count>>
     ELSE SetItem(IF i < 0 THEN i + Len(items) ELSE i, Null)

-----------------------------------------------------------------------------
(* As a list.                                                              *)

(* LIST_APPEND, SET_ADD, BUILD_LIST *)
AppendItem(o) ==
  /\ use = "list"
  /\ Len(items) < MaxLen
  /\ Update(list_Push(items, o), pair, <<o>>, << >>)
  /\ UNCHANGED <<use, held, deleted, locked, loops, call>>

(* The instance becomes the first argument of a method. *)
InsertItem(o) ==
  /\ use = "list" /\ looping = {}
  /\ Len(items) < MaxLen
  /\ Update(list_Insert(items, 1, o), pair, <<o>>, << >>)
  /\ UNCHANGED <<use, held, deleted, locked, loops, call>>

(* if_map clears the arguments it has passed. *)
Clear ==
  /\ use = "list" /\ looping = {}
  /\ Update(<< >>, pair, << >>, items)
  /\ ptr' = 0
  /\ UNCHANGED <<use, held, deleted, locked, looping, alone, given, call>>

(* GET_ITER: iter_InitIteration, with tuple_ResetIteration.  A loop over a *)
(* dictionary goes over its pairs in the same way. *)
Begin_WithoutReset == ptr

Begin == IF Len(items) = 0 THEN ptr ELSE 0

BeginLoop(t) ==
  /\ use = "list"
  /\ t \notin looping
  /\ looping' = looping \cup {t}
  /\ ptr' = Begin
  /\ alone' = IF looping = {} THEN {t} ELSE {}
  /\ given' = [s \in Iterator |-> 0]
  /\ call' = <<"none">>
  /\ UNCHANGED <<use, items, pair, count, held, deleted, locked>>

(* FOR_ITER: iter_Iteration, with tuple_GetNextItem.  The loop ends when   *)
(* it gets 0 or None, and the position goes back.                          *)
Advance(t) ==
  /\ use = "list"
  /\ t \in looping
  /\ IF ptr < Len(items) /\ items[ptr + 1] \notin {Null, None}
     THEN /\ ptr' = ptr + 1
          /\ alone' = alone \cap {t}
          /\ given' = [s \in Iterator |-> IF s \in alone' THEN given[s] + 1 ELSE 0]
          /\ UNCHANGED looping
     ELSE /\ ptr' = 0
          /\ looping' = looping \ {t}
          /\ alone' = {}
          /\ given' = [s \in Iterator |-> 0]
  /\ call' = <<"none">>
  /\ UNCHANGED <<use, items, pair, count, held, deleted, locked>>

(* BREAK_LOOP, or a return from within the loop, after some item. *)
Break(t) ==
  /\ use = "list"
  /\ t \in looping
  /\ t \in alone => ptr # 0
  /\ looping' = looping \ {t}
  /\ alone' = alone \ {t}
  /\ given' = [given EXCEPT ![t] = 0]
  /\ call' = <<"none">>
  /\ UNCHANGED <<use, items, pair, count, held, deleted, locked, ptr>>

Next ==
  \/ \E k \in Object, v \in Object \cup {Null} : SetDictItem(k, v) \/ StoreGlobal(k, v)
  \/ \E k, v \in Object : AppendDictItem(k, v)
  \/ \E k \in Object : GetDictItem(k) \/ DeleteDictItem(k) \/ GetDictItemByName(k)
  \/ \E j \in DOMAIN items, v \in Object : Store(j, v)
  \/ \E j \in DOMAIN items : Load(j) \/ Delete(j)
  \/ \E j \in DOMAIN items, p \in Pair : ConvertToDict(j, p)
  \/ ClearDictValues
  \/ \E p \in Pair : Hold(p) \/ Drop(p)
  \/ \E o \in Object : AppendItem(o) \/ InsertItem(o)
  \/ \E i \in Subscript : LoadSubscr(i) \/ DeleteSubscr(i)
  \/ \E i \in Subscript, o \in Object \cup Pair : StoreSubscr(i, o)
  \/ Clear
  \/ \E t \in Iterator : BeginLoop(t) \/ Advance(t) \/ Break(t)

Spec == Init /\ [][Next]_vars
-----------------------------------------------------------------------------
TypeOK ==
  /\ use \in {"list", "dict", "names", "lost"}
  /\ items \in Seq(Items) /\ Len(items) <= MaxLen
  /\ pair \in [Pair -> [key : Object \cup {Null}, value : Object \cup {Null}]]
  /\ count \in [Object \cup Pair -> Nat]
  /\ held \in SUBSET Pair
  /\ deleted \in BOOLEAN /\ locked \in BOOLEAN
  /\ ptr \in 0..MaxLen
  /\ looping \in SUBSET Iterator
  /\ alone \in SUBSET looping
  /\ given \in [Iterator -> 0..MaxLen]

(* Every count is the number of references: of items, of pairs, of other   *)
(* places.  A pair without any is gone.                                    *)
CountsExact ==
  /\ \A p \in Pair : count[p] = Times(items, p) + Cardinality(held \cap {p})
  /\ \A p \in Pair : count[p] = 0 => pair[p] = NoPair
  /\ \A x \in Object : count[x] = Times(items, x) + Fields(Pair, pair, x)

(* A loop over a tuple that no other loop uses meanwhile gets its items in *)
(* their order, each once, and ends after the last one, or before an item  *)
(* that is 0 or None, whatever the loop does to the items.                 *)
LoneLoop == \A t \in alone : given[t] = ptr

LoopsWhole ==
  [][\A t \in alone :
       t \notin looping' /\ ptr' = 0 =>
         given[t] = Len(items) \/ items[given[t] + 1] \in {Null, None}]_vars

(* Where no name is ever deleted no lock is left, every pair has a name,   *)
(* and every variable keeps its place.                                     *)
NamesKept ==
  use = "names" /\ ~deleted =>
    /\ ~locked
    /\ \A j \in DOMAIN items : KeyOf(items[j]) # Null
    /\ \A j \in DOMAIN Names : KeyOf(items[j]) = Names[j]

(* The tuple is a dictionary, with holes, pairs and plain names in it. *)
Bindings ==
  [k \in Object |->
     IF use \in {"list", "lost"} THEN << >>
     ELSE [n \in 1..Cardinality(HasKey(k)) |-> ValueOf(items[Ascending(HasKey(k))[n]])]]

D == INSTANCE Dict WITH bindings <- Bindings

(* Every step is one of a dictionary, those with an index excepted, as     *)
(* long as no pair is in two places, which only d[i] = d[j] brings about.  *)
IsDict == D!Init /\ [][call' # <<"index">> /\ Once => D!Next]_<<Bindings, call>>
=============================================================================
