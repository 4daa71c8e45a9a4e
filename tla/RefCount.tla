------------------------------ MODULE RefCount ------------------------------
(***************************************************************************)
(* Reference counts and the garbage list (object.c, garbage.c), as the     *)
(* steps of the virtual machine use them.                                  *)
(*                                                                         *)
(* An object is a number of places that can each hold the id of another    *)
(* object: the items of a tuple, the key and the value of a pair, the      *)
(* stack of a block, the fields of a function.  The places outside of      *)
(* objects are the machine's stack of blocks, its globals, and the local   *)
(* variables of C functions that count what they keep.  What a step has    *)
(* popped or fetched and does not count, and will read, write or store, is *)
(* in `hand'; what it will only unlock is in `locked'.                     *)
(*                                                                         *)
(* An object whose count falls to 0 is queued in the garbage list.  The    *)
(* list is swept when the step ends, the object that came first first, and *)
(* frees the objects that have no references by then.                      *)
(***************************************************************************)
EXTENDS Naturals, Sequences, FiniteSets, Lists

CONSTANTS
  Object,       \* the ids the memory manager can give out
  Field,        \* the places of an object
  Slot,         \* the places outside of objects
  Null,         \* the id 0
  Roots,        \* the holder of blocks, globals and counted C variables
  Arguments,    \* the holder of the arguments of destructor calls
  Variables,    \* the holder of the variables of Python destructors
  Destructible, \* objects that are instances of a class with a __del__ method
  Scripted,     \* those of them whose __del__ is Python code
  MaxHand       \* bound: ids that a step holds at a time

ASSUME ObjectAssumption ==
  /\ Null \notin Object
  /\ {Roots, Arguments, Variables} \cap Object = {}
  /\ Roots # Arguments /\ Roots # Variables /\ Arguments # Variables
ASSUME SlotAssumption   == IsFiniteSet(Object) /\ IsFiniteSet(Field) /\ IsFiniteSet(Slot)
ASSUME DestructibleAssumption ==
  Destructible \subseteq Object /\ Scripted \subseteq Destructible
ASSUME MaxHandAssumption == MaxHand \in Nat

(* A destructor call keeps the instance in a tuple of arguments, and a     *)
(* Python method keeps its argument in a variable of its code as well.     *)
Place == Object \X Field \cup {Roots} \X Slot \cup {Arguments, Variables} \X Destructible

VARIABLES
  live,      \* the ids of the allocated objects
  ref,       \* what each place holds
  ref_count,
  garbage,
  mode,      \* "step", "sweep" (obj_ClearGC), "del", "ret" and "free" (obj_Free)
  dying,     \* the object that obj_Free is at
  running,   \* instances whose Python __del__ is running, the last one on top
  hand,      \* ids in uncounted variables that the step goes on using
  locked,    \* ids that the step only unlocks any more, after a nested run
  fresh      \* objects that have not been counted since obj_Alloc

vars == <<live, ref, ref_count, garbage, mode, dying, running, hand,
          locked, fresh>>

RefsTo(o) == {p \in Place : ref[p] = o}

Garbage == {garbage[k] : k \in 1..Len(garbage)}

-----------------------------------------------------------------------------
(* obj_IncRefCount and obj_DecRefCount, on counts and on the garbage list. *)
Inc(count, o) == IF o = Null THEN count ELSE [count EXCEPT ![o] = @ + 1]

Dec(count, o) ==
  IF o = Null THEN count ELSE [count EXCEPT ![o] = IF @ = 0 THEN 0 ELSE @ - 1]

Queued_AtZero(list, count, o) ==
  IF o # Null /\ count[o] = 0 /\ ~list_Contains(list, o) THEN list_Queue(list, o) ELSE list

Queued(list, count, o) ==
  IF o # Null /\ count[o] = 1 /\ ~list_Contains(list, o) THEN list_Queue(list, o) ELSE list

Put_Uncounted(p, o) ==
  /\ ref' = [ref EXCEPT ![p] = o]
  /\ ref_count' = Dec(ref_count, ref[p])
  /\ garbage' = Queued(garbage, ref_count, ref[p])

(* A place gets another content, o: o is counted before the one that was   *)
(* there is discounted (tuple_SetItem).                                    *)
Put(p, o) ==
  LET counted == Inc(ref_count, o)
  IN /\ ref' = [ref EXCEPT ![p] = o]
     /\ ref_count' = Dec(counted, ref[p])
     /\ garbage' = Queued(garbage, counted, ref[p])

Open(p) == p \in Place /\ p[1] \in hand \cup {Roots}

Take(o) == hand' = hand \cup {o} /\ Cardinality(hand') <= MaxHand

-----------------------------------------------------------------------------
Init ==
  /\ live = {}
  /\ ref = [p \in Place |-> Null]
  /\ ref_count = [o \in Object |-> 0]
  /\ garbage = <<>>
  /\ mode = "step"
  /\ dying = Null
  /\ running = <<>>
  /\ hand = {}
  /\ locked = {}
  /\ fresh = {}

Step == mode = "step" /\ UNCHANGED <<mode, dying, running, locked>>

(* obj_Create...: a new object that counts the ones it is made of. *)
Create(o, fields) ==
  /\ Step
  /\ o \notin live
  /\ live' = live \cup {o}
  /\ ref' = [p \in Place |-> IF p[1] = o THEN fields[p[2]] ELSE ref[p]]
  /\ ref_count' = [x \in Object |->
                     IF x = o THEN 0
                     ELSE ref_count[x] + Cardinality({f \in Field : fields[f] = x})]
  /\ fresh' = (fresh \ {fields[f] : f \in Field}) \cup {o}
  /\ Take(o)
  /\ UNCHANGED garbage

(* stack_Top, stack_Get, tuple_GetItem: the id of an item, not counted. *)
Get(p) ==
  /\ Step
  /\ Open(p)
  /\ ref[p] # Null
  /\ Take(ref[p])
  /\ UNCHANGED <<live, ref, ref_count, garbage, fresh>>

(* stack_Push, tuple_AppendItem, obj_IncRefCount of what C code keeps. *)
Push(p, o) ==
  /\ Step
  /\ Open(p)
  /\ o \in hand
  /\ ref[p] = Null
  /\ Put(p, o)
  /\ fresh' = fresh \ {o}
  /\ UNCHANGED <<live, hand>>

(* stack_Pop: the object may be used until the step ends. *)
Pop(p) ==
  /\ Step
  /\ Open(p)
  /\ ref[p] # Null
  /\ Take(ref[p])
  /\ Put(p, Null)
  /\ UNCHANGED <<live, fresh>>

(* tuple_SetItem, tuple_SetDictItem, tuple_DeleteItem, and tuple_Clear and *)
(* stack_Clear for one item after the other.                               *)
SetItem(p, o) ==
  /\ Step
  /\ Open(p)
  /\ o \in hand \cup {Null}
  /\ ref[p] # Null
  /\ Put(p, o)
  /\ fresh' = fresh \ {o}
  /\ UNCHANGED <<live, hand>>

(* ROT_TWO: stack_SetTop and stack_SetSecond count nothing. *)
Rotate(p, q) ==
  /\ Step
  /\ Open(p)
  /\ q \in Place /\ q[1] = p[1] /\ ref[p] # Null /\ ref[q] # Null
  /\ ref' = [ref EXCEPT ![p] = ref[q], ![q] = ref[p]]
  /\ UNCHANGED <<live, ref_count, garbage, hand, fresh>>

(* obj_IncRefCount and obj_DecRefCount at once: how a step gives up an     *)
(* object that it made and did not store.                                  *)
Release(o) ==
  /\ Step
  /\ o \in hand
  /\ garbage' = Queued(garbage, Inc(ref_count, o), o)
  /\ fresh' = fresh \ {o}
  /\ UNCHANGED <<live, ref, ref_count, hand>>

-----------------------------------------------------------------------------
(* vm_Step ends with obj_ClearGC and its unlocks. *)
EndStep ==
  /\ mode = "step"
  /\ mode' = "sweep"
  /\ hand' = {}
  /\ locked' = {}
  /\ UNCHANGED <<live, ref, ref_count, garbage, dying, running, fresh>>

SweepWithin_Kept ==
  /\ mode = "step"
  /\ mode' = "sweep"
  /\ UNCHANGED <<live, ref, ref_count, garbage, dying, running, hand, locked, fresh>>

(* An operation runs the machine from within (__init__, map, a generator,  *)
(* clear_gc), which sweeps.  Of what it did not count it goes on using only *)
(* what it has made before.  The block of a class's body is popped and its *)
(* stack is read before __init__ runs; after that, vm_Step only unlocks it *)
(* (vm.c 1519-1551), and the sweeps may have freed it by then: module      *)
(* MemCache has the unlock of a chunk that is gone, or of another chunk    *)
(* that got its id.                                                        *)
SweepWithin ==
  /\ mode = "step"
  /\ mode' = "sweep"
  /\ hand' = hand \cap fresh
  /\ locked' = locked \cup (hand \ fresh)
  /\ UNCHANGED <<live, ref, ref_count, garbage, dying, running, fresh>>

Sweep_All ==
  /\ mode = "sweep"
  /\ garbage # <<>>
  /\ garbage' = list_Pop(garbage)
  /\ dying' = garbage[Len(garbage)]
  /\ mode' = IF dying' \in Destructible THEN "del" ELSE "free"
  /\ UNCHANGED <<live, ref, ref_count, running, hand, locked, fresh>>

Sweep ==
  /\ mode = "sweep"
  /\ garbage # <<>>
  /\ garbage' = list_Pop(garbage)
  /\ LET o == garbage[Len(garbage)]
     IN IF ref_count[o] = 0
        THEN /\ dying' = o
             /\ mode' = IF o \in Destructible THEN "del" ELSE "free"
        ELSE UNCHANGED <<dying, mode>>
  /\ UNCHANGED <<live, ref, ref_count, running, hand, locked, fresh>>

SweepDone ==
  /\ mode = "sweep"
  /\ garbage = <<>>
  /\ mode' = "step"
  /\ UNCHANGED <<live, ref, ref_count, garbage, dying, running, hand, locked, fresh>>

-----------------------------------------------------------------------------
(* obj_Free of an instance: the instance goes to the end of the garbage    *)
(* list, the method's arguments refer to it, and vm_RunMethod begins.  A   *)
(* Python method's variable gets a new pair with the instance as value and *)
(* the machine runs; a C method has returned at once.                      *)
Argument(o) == <<Arguments, o>>
Variable(o) == <<Variables, o>>

DelBegin(pair, f) ==
  /\ mode = "del"
  /\ garbage' = list_Push(garbage, dying)
  /\ running' = Append(running, dying)
  /\ dying' = Null
  /\ IF dying \in Scripted
     THEN /\ pair \in Object \ live
          /\ live' = live \cup {pair}
          /\ ref' = [ref EXCEPT ![Argument(dying)] = dying, ![Variable(dying)] = pair,
                                ![<<pair, f>>] = dying]
          /\ ref_count' = [ref_count EXCEPT ![dying] = @ + 2, ![pair] = 1]
          /\ mode' = "step"
     ELSE /\ ref' = [ref EXCEPT ![Argument(dying)] = dying]
          /\ ref_count' = Inc(ref_count, dying)
          /\ mode' = "ret"
          /\ UNCHANGED live
  /\ UNCHANGED <<hand, locked, fresh>>

DelEnd_Listed ==
  /\ mode = "ret"
  /\ LET o == running[Len(running)]
     IN /\ ref' = [ref EXCEPT ![Argument(o)] = Null]
        /\ ref_count' = Dec(ref_count, o)
        /\ garbage' = Queued(garbage, ref_count, o)
        /\ dying' = o
  /\ mode' = "free"
  /\ running' = SubSeq(running, 1, Len(running) - 1)
  /\ UNCHANGED <<live, hand, locked, fresh>>

(* vm_RunMethod has run the method to its end.  Its variable is cleared,   *)
(* then the arguments, and the instance is taken out of the garbage list.  *)
DelEnd ==
  /\ running # <<>>
  /\ mode = "ret" \/ (mode = "step" /\ hand = {})
  /\ LET o == running[Len(running)]
         pair == ref[Variable(o)]
         unbound == Dec(ref_count, pair)
         list == Queued(garbage, ref_count, pair)
     IN /\ ref' = [ref EXCEPT ![Variable(o)] = Null, ![Argument(o)] = Null]
        /\ ref_count' = Dec(unbound, o)
        /\ garbage' = list_RemoveItem(Queued(list, unbound, o), o)
        /\ dying' = o
  /\ mode' = "free"
  /\ running' = SubSeq(running, 1, Len(running) - 1)
  /\ UNCHANGED <<live, hand, locked, fresh>>

(* obj_Free discounts what the object refers to, one place after the other. *)
DropField(f) ==
  /\ mode = "free"
  /\ ref[<<dying, f>>] # Null
  /\ Put(<<dying, f>>, Null)
  /\ UNCHANGED <<live, mode, dying, running, hand, locked, fresh>>

(* mem_free of the object. *)
Freed ==
  /\ mode = "free"
  /\ \A f \in Field : ref[<<dying, f>>] = Null
  /\ live' = live \ {dying}
  /\ dying' = Null
  /\ mode' = "sweep"
  /\ UNCHANGED <<ref, ref_count, garbage, running, hand, locked, fresh>>

-----------------------------------------------------------------------------
Operation ==
  \/ \E o \in Object : \E fields \in [Field -> hand \cup {Null}] : Create(o, fields)
  \/ \E p \in Place :
       \/ Get(p)
       \/ Pop(p)
       \/ \E o \in hand : Push(p, o)
       \/ \E o \in hand \cup {Null} : SetItem(p, o)
       \/ \E q \in Place : Rotate(p, q)
  \/ \E o \in hand : Release(o)

Collection ==
  \/ Sweep
  \/ SweepDone
  \/ \E pair \in Object \cup {Null}, f \in Field : DelBegin(pair, f)
  \/ DelEnd
  \/ \E f \in Field : DropField(f)
  \/ Freed

Next == Operation \/ EndStep \/ SweepWithin \/ Collection

(* A step has finitely many operations, and obj_ClearGC loops until the    *)
(* garbage list is empty.                                                  *)
Spec == Init /\ [][Next]_vars /\ WF_vars(EndStep) /\ WF_vars(Collection)

-----------------------------------------------------------------------------
TypeOK ==
  /\ live \subseteq Object
  /\ ref \in [Place -> Object \cup {Null}]
  /\ ref_count \in [Object -> Nat]
  /\ garbage \in Seq(Object)
  /\ mode \in {"step", "sweep", "del", "ret", "free"}
  /\ dying \in Object \cup {Null}
  /\ running \in Seq(Destructible)
  /\ hand \subseteq Object
  /\ locked \subseteq Object
  /\ fresh \subseteq live

(* The count of an object is the number of places that refer to it, so no  *)
(* object is freed too early and none is kept for ever by a lost decrement. *)
CountsExact == \A o \in live : ref_count[o] = Cardinality(RefsTo(o))

(* Nothing refers to memory that has been freed. *)
NoDangling == \A p \in Place : ref[p] # Null => ref[p] \in live

(* The garbage list names each object once, and only objects: obj_ClearGC  *)
(* frees nothing twice.                                                    *)
GarbageDistinct ==
  /\ \A j, k \in 1..Len(garbage) : garbage[j] = garbage[k] => j = k
  /\ Garbage \subseteq live

(* What a step reads, writes or stores is allocated, though nothing counts *)
(* it: what it popped or fetched, until a sweep begins, and what it made,  *)
(* through every sweep and destructor within it, until it is counted or    *)
(* given up.  A block that the step only unlocks may be gone (SweepWithin).*)
HandAlive == hand \subseteq live

(* Who loses its last reference is known to the garbage list: only objects *)
(* that were made and never counted can be left over.                      *)
ZeroQueued ==
  \A o \in live : ref_count[o] = 0 => o \in Garbage \cup fresh \cup {dying}

-----------------------------------------------------------------------------
(* What the above rest on.  Memory that is not an object refers to         *)
(* nothing; an object that was never counted is in no list; a sweep uses   *)
(* nothing that the step has popped.  obj_Free works on an object without  *)
(* references, and a destructor in C finds its instance at the end of the  *)
(* garbage list, counted once, by its arguments.                           *)
DeadEmpty == \A p \in Place : p[1] \in Object \ live => ref[p] = Null

FreshUncounted ==
  /\ \A o \in fresh : ref_count[o] = 0 /\ o \notin Garbage \cup {dying}
  /\ mode # "step" => hand \subseteq fresh

Dying ==
  IF mode \in {"del", "free"}
  THEN /\ dying \in live /\ ref_count[dying] = 0 /\ dying \notin Garbage
       /\ mode = "del" => dying \in Destructible
  ELSE dying = Null

Destructor ==
  /\ mode = "ret" <=> running # <<>>
  /\ Len(running) <= 1
  /\ \A o \in Destructible :
       /\ ref[Variable(o)] = Null
       /\ ref[Argument(o)] = IF running = <<o>> THEN o ELSE Null
       /\ running = <<o>> =>
            /\ o \in live
            /\ garbage # <<>> /\ garbage[Len(garbage)] = o
            /\ ref_count[o] = 1

(* All of it holds in every state, and every step keeps it, when the       *)
(* destructors are C functions.                                            *)
IInv ==
  /\ TypeOK
  /\ CountsExact
  /\ NoDangling
  /\ GarbageDistinct
  /\ HandAlive
  /\ ZeroQueued
  /\ DeadEmpty
  /\ FreshUncounted
  /\ Dying
  /\ Destructor

(* obj_Free's destructor call ends with the comment "removing loop         *)
(* reference of class instance": an object is freed when nothing refers to *)
(* it any more.                                                            *)
FreedUnreferenced == [][\A o \in live \ live' : RefsTo(o) = {}]_vars

(* obj_ClearGC comes to an end: the objects it frees may queue others and  *)
(* a destructor call puts its instance back into the list, but every one   *)
(* is freed once.                                                          *)
SweepEnds == mode = "sweep" ~> (mode = "step" /\ garbage = <<>>)
=============================================================================
