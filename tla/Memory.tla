------------------------------- MODULE Memory -------------------------------
(***************************************************************************)
(* What every memory manager of memory.c promises to the interpreter: a    *)
(* chunk is named by an id, an id names at most one chunk at a time, and   *)
(* whoever reads a chunk sees the bytes last put into it.  Neither the     *)
(* cache, the backing store nor the table of chunks appears here.  `call'  *)
(* shows each call as the interpreter made it, so that no change of a      *)
(* chunk can pass for a call that was not made.                            *)
(***************************************************************************)
EXTENDS Chunks

CONSTANT Ids   \* chunk ids (MEM_ID)

VARIABLES
  mem,   \* mem[i]: the bytes of chunk i, NoBytes when i names no chunk
  call   \* the last call

Init ==
  /\ mem = [i \in Ids |-> NoBytes]
  /\ call = NoCall

Alloc(i, c) ==
  /\ mem[i] = NoBytes
  /\ mem' = [mem EXCEPT ![i] = c]
  /\ call' = Call("alloc", i, c)

Copy(i, j) ==
  /\ mem[i] # NoBytes
  /\ mem[j] = NoBytes
  /\ mem' = [mem EXCEPT ![j] = mem[i]]
  /\ call' = Call("copy", i, mem[i])

Read(i) ==
  /\ mem[i] # NoBytes
  /\ call' = Call("read", i, mem[i])
  /\ UNCHANGED mem

Compare(i, j) ==
  /\ mem[i] # NoBytes /\ mem[j] # NoBytes
  /\ call' = Compared(i, j, mem[i] = mem[j])
  /\ UNCHANGED mem

Write(i, c) ==
  /\ mem[i] # NoBytes
  /\ Len(c) = Len(mem[i])
  /\ mem' = [mem EXCEPT ![i] = c]
  /\ call' = Call("write", i, c)

(* The chunk is called j from now on: the same id, unless ids are           *)
(* addresses.  The cells that only the new size has are undefined.         *)
Resize(i, j, c) ==
  /\ mem[i] # NoBytes
  /\ j = i \/ mem[j] = NoBytes
  /\ SamePrefix(c, mem[i])
  /\ mem' = [mem EXCEPT ![i] = NoBytes, ![j] = c]
  /\ call' = Call("resize", j, c)

Free(i) ==
  /\ mem[i] # NoBytes
  /\ mem' = [mem EXCEPT ![i] = NoBytes]
  /\ call' = Call("free", i, NoBytes)

Close ==
  /\ mem' = [i \in Ids |-> NoBytes]
  /\ call' = Call("close", 0, NoBytes)

(* The manager works for itself. *)
Internal == call' = NoCall /\ UNCHANGED mem

Next ==
  \/ \E i \in Ids, c \in Contents : Alloc(i, c) \/ Write(i, c)
  \/ \E i, j \in Ids, c \in Contents : Resize(i, j, c)
  \/ \E i, j \in Ids : Copy(i, j) \/ Compare(i, j)
  \/ \E i \in Ids : Read(i) \/ Free(i)
  \/ Close
  \/ Internal

Spec == Init /\ [][Next]_<<mem, call>>
=============================================================================
