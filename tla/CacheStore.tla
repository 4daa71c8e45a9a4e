----------------------------- MODULE CacheStore -----------------------------
(***************************************************************************)
(* What a store promises the caching memory manager through the functions  *)
(* of memory_store.c: it returns for a chunk the bytes last written for it,*)
(* from its opening to its closing.  The manager reads no chunk that it    *)
(* has not written.                                                        *)
(***************************************************************************)
EXTENDS Chunks

CONSTANT Ids   \* chunk ids (MEM_ID)

VARIABLES
  kept,  \* kept[i]: the bytes last written for chunk i, or NoBytes
  call   \* the last call

Init ==
  /\ kept = [i \in Ids |-> NoBytes]
  /\ call = NoCall

(* mem_store_Open: a store starts empty, whatever its files held. *)
Open ==
  /\ kept' = [i \in Ids |-> NoBytes]
  /\ call' = Call("open", 0, NoBytes)

Write(i, c) ==
  /\ kept' = [kept EXCEPT ![i] = c]
  /\ call' = Call("write", i, c)

Read(i) ==
  /\ kept[i] # NoBytes
  /\ call' = Call("read", i, kept[i])
  /\ UNCHANGED kept

(* mem_store_Close, mem_store_Free *)
Close ==
  /\ kept' = [i \in Ids |-> NoBytes]
  /\ call' = Call("close", 0, NoBytes)

Next ==
  \/ Open
  \/ \E i \in Ids, c \in Contents : Write(i, c)
  \/ \E i \in Ids : Read(i)
  \/ Close

Spec == Init /\ [][Next]_<<kept, call>>
=============================================================================
