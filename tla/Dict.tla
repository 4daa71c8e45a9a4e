-------------------------------- MODULE Dict --------------------------------
(***************************************************************************)
(* What the machine expects of a tuple that it uses as a dictionary: each  *)
(* name has its bindings, the oldest one first, and the oldest one is the  *)
(* one that is found.  tuple_SetDictItem keeps one binding of a name;      *)
(* vm_AddGlobal adds one behind those that are there.                      *)
(***************************************************************************)
EXTENDS Sequences, Naturals

CONSTANTS
  Object,   \* names and values
  Null      \* the id 0: no value

VARIABLES
  bindings,   \* bindings[k]: the values of name k
  call        \* the last call: its name, the key and the value it saw or set

Init ==
  /\ bindings \in [Object -> {<< >>, <<Null>>}]
  /\ call = <<"none">>

Set(k, v) ==
  /\ bindings' = [bindings EXCEPT ![k] = <<v>> \o IF @ = << >> THEN << >> ELSE Tail(@)]
  /\ call' = <<"set", k, v>>

(* A binding is named by its position when it is set without its name. *)
SetAt(k, n, v) ==
  /\ n \in DOMAIN bindings[k]
  /\ bindings' = [bindings EXCEPT ![k][n] = v]
  /\ call' = <<"set", k, v>>

Add(k, v) ==
  /\ bindings' = [bindings EXCEPT ![k] = Append(@, v)]
  /\ call' = <<"add", k, v>>

Remove(k) ==
  /\ bindings' = [bindings EXCEPT ![k] = IF @ = << >> THEN << >> ELSE Tail(@)]
  /\ call' = <<"remove", k>>

RemoveAt(k, n) ==
  /\ n \in DOMAIN bindings[k]
  /\ bindings' = [bindings EXCEPT ![k] = SubSeq(@, 1, n - 1) \o SubSeq(@, n + 1, Len(@))]
  /\ call' = <<"remove", k>>

Lookup(k) ==
  /\ call' = <<"get", k, IF bindings[k] = << >> THEN Null ELSE Head(bindings[k])>>
  /\ UNCHANGED bindings

ClearValues ==
  /\ bindings' = [k \in Object |-> [n \in DOMAIN bindings[k] |-> Null]]
  /\ call' = <<"clear">>

(* What is done to other places of the tuple shows in no name. *)
Elsewhere ==
  /\ call' = <<"none">>
  /\ UNCHANGED bindings

Next ==
  \/ \E k \in Object, v \in Object \cup {Null} : Set(k, v) \/ Add(k, v)
  \/ \E k \in Object : Remove(k) \/ Lookup(k)
  \/ \E k \in Object, v \in Object \cup {Null} :
       \E n \in DOMAIN bindings[k] : SetAt(k, n, v) \/ RemoveAt(k, n)
  \/ ClearValues
  \/ Elsewhere

Spec == Init /\ [][Next]_<<bindings, call>>
=============================================================================
