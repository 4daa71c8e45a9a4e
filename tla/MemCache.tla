------------------------------ MODULE MemCache ------------------------------
(***************************************************************************)
(* The caching memory manager of memory.c (USE_MEMORY_MANAGER_CACHE).      *)
(*                                                                         *)
(* A chunk is named by its index in mem_chunks.  One word per chunk says   *)
(* everything the manager knows about it: the address of the chunk's bytes *)
(* while they are in memory, 0 once they were written to the store and     *)
(* evicted, and, after mem_free, the id of the next free chunk (-1 at the  *)
(* end of this chain).  mem_lock brings the bytes back and pushes the id   *)
(* on the lock stack; mem_unlock pops it and evicts a chunk that is dirty  *)
(* and no longer locked.                                                   *)
(*                                                                         *)
(* The interpreter appears through what it asks of the manager.  `live' is *)
(* the set of chunks it owns; it locks, reads, writes and frees only those,*)
(* unlocks in the reverse order of its locks (mem_PopLock crashes on any   *)
(* other order), and keeps obj_NULL, the chunk with id 0, until obj_Close  *)
(* has freed all else.  Neither mem_free nor mem_realloc looks at the      *)
(* locks: when vm_Step ends the body of a class, the sweeps within it free *)
(* the block it popped and still has locked (vm.c 1519-1551).  `stale' are *)
(* the locks whose pointer such a call spoiled; the interpreter does not   *)
(* use that pointer again, and unlocks a chunk that is gone as clean.      *)
(***************************************************************************)
EXTENDS Integers, Chunks

CONSTANTS
  MaxIds,    \* bound: length the chunk table may reach
  MaxLocks,  \* bound: nested locks
  UseCache   \* cf_SetFileCache was called: cache # NULL

ASSUME MaxIdsAssumption   == MaxIds \in Nat \ {0}
ASSUME MaxLocksAssumption == MaxLocks \in Nat
ASSUME CacheAssumption    == UseCache \in BOOLEAN

Ids == 0..(MaxIds - 1)

(* Words of mem_chunks: an address, which is none of the small numbers the *)
(* table also holds, the evicted mark, the end of the free chain, an id.   *)
Address == -2
ChainEnd == -1
Evicted == 0

VARIABLES
  phase,       \* "open", "closing" once obj_Close freed obj_NULL, "closed"
  chunks_top,  \* mem_chunks_top
  entry,       \* mem_chunks: the word of each chunk
  buf,         \* the bytes at the address, NoBytes when there is none
  chain,       \* mem_chunks_free_chain_start
  locks,       \* mem_locks[0 .. mem_locks_top - 1]
  stale,       \* locks whose chunk was freed or resized after mem_lock
  saved,       \* the bytes the store returns for an id (cf_write, cf_read)
  live,        \* chunks the interpreter owns
  call         \* its last call (of Chunks)

vars == <<phase, chunks_top, entry, buf, chain, locks, stale, saved, live,
          call>>

-----------------------------------------------------------------------------
(* mem_HasLocks *)
Locked == {locks[k] : k \in DOMAIN locks}

(* What the interpreter has a good pointer to. *)
Held == {locks[k] : k \in DOMAIN locks \ stale}

(* A call that gives the bytes of chunk i back to the system. *)
Spoil(i) == stale' = stale \cup {k \in DOMAIN locks : locks[k] = i}

(* The test that precedes every use of a chunk's bytes, and mem_store_Read *)
(* with mem_malloc_ptr and mem_set_ptr: new memory, filled from the store. *)
MustRead(i) == UseCache /\ entry[i] = Evicted

ReadEntry(i) == IF MustRead(i) THEN [entry EXCEPT ![i] = Address] ELSE entry
ReadBuf(i)   == IF MustRead(i) THEN [buf EXCEPT ![i] = saved[i]] ELSE buf

(* mem_AddChunk: the id it returns, the chain it leaves.  The link of a    *)
(* popped entry is compared with 0, not with the end of the chain.         *)
NextId == IF chain = ChainEnd THEN chunks_top ELSE chain

NextChain_Kept == chain

NextChain ==
  IF chain = ChainEnd THEN ChainEnd
  ELSE IF entry[chain] # 0 THEN entry[chain] ELSE ChainEnd

(* Chunk `NextId' holds bytes c; e and b are the table it is added to. *)
AddChunk(c, e, b) ==
  /\ NextId < MaxIds
  /\ entry' = [e EXCEPT ![NextId] = Address]
  /\ buf' = [b EXCEPT ![NextId] = c]
  /\ chain' = NextChain
  /\ chunks_top' = IF chain = ChainEnd THEN chunks_top + 1 ELSE chunks_top
  /\ live' = live \cup {NextId}

-----------------------------------------------------------------------------
Init ==
  /\ phase = "open"
  /\ chunks_top = 0
  /\ entry = [i \in Ids |-> 0]
  /\ buf = [i \in Ids |-> NoBytes]
  /\ chain = ChainEnd
  /\ locks = << >>
  /\ stale = {}
  /\ saved = [i \in Ids |-> NoBytes]
  /\ live = {}
  /\ call = NoCall

(* mem_malloc, whose bytes are undefined, mem_create, mem_create_buf and   *)
(* mem_create_string.                                                      *)
Create(c) ==
  /\ phase = "open"
  /\ AddChunk(c, entry, buf)
  /\ call' = Call("alloc", NextId, c)
  /\ UNCHANGED <<phase, locks, stale, saved>>

(* mem_copy: the source is read back first, and stays in memory. *)
Copy(i) ==
  /\ phase = "open"
  /\ i \in live
  /\ AddChunk(ReadBuf(i)[i], ReadEntry(i), ReadBuf(i))
  /\ call' = Call("copy", i, ReadBuf(i)[i])
  /\ UNCHANGED <<phase, locks, stale, saved>>

Lock(i) ==
  /\ phase = "open"
  /\ i \in live
  /\ Len(locks) < MaxLocks
  /\ entry' = ReadEntry(i)
  /\ buf' = ReadBuf(i)
  /\ locks' = Append(locks, i)
  /\ call' = NoCall
  /\ UNCHANGED <<phase, chunks_top, chain, stale, saved, live>>

(* The interpreter loads, or stores, through a pointer mem_lock returned. *)
Load(i) ==
  /\ phase = "open"
  /\ i \in Held
  /\ call' = Call("read", i, buf[i])
  /\ UNCHANGED <<phase, chunks_top, entry, buf, chain, locks, stale, saved, live>>

Store(i, c) ==
  /\ phase = "open"
  /\ i \in Held
  /\ Len(c) = Len(buf[i])
  /\ buf' = [buf EXCEPT ![i] = c]
  /\ call' = Call("write", i, c)
  /\ UNCHANGED <<phase, chunks_top, entry, chain, locks, stale, saved, live>>

(* mem_unlock(i, is_dirty), after mem_PopLock: mem_HasLocks says the chunk *)
(* is still locked when its id is on the stack a second time.              *)
StillLocked(i) == \E k \in 1..(Len(locks) - 1) : locks[k] = i

Evicts_Always(i, is_dirty) == i # 0 /\ is_dirty /\ UseCache

Evicts(i, is_dirty) == i # 0 /\ is_dirty /\ UseCache /\ ~StillLocked(i)

(* mem_store_Write, then the buffer is freed. *)
WriteBack_Skipped(i) == saved

WriteBack(i) == [saved EXCEPT ![i] = buf[i]]

Unlock(is_dirty) ==
  /\ phase = "open"
  /\ locks # << >>
  /\ is_dirty => locks[Len(locks)] \in live
  /\ locks' = SubSeq(locks, 1, Len(locks) - 1)
  /\ stale' = stale \ {Len(locks)}
  /\ LET i == locks[Len(locks)] IN
       IF Evicts(i, is_dirty)
       THEN /\ saved' = WriteBack(i)
            /\ entry' = [entry EXCEPT ![i] = Evicted]
            /\ buf' = [buf EXCEPT ![i] = NoBytes]
       ELSE UNCHANGED <<saved, entry, buf>>
  /\ call' = NoCall
  /\ UNCHANGED <<phase, chunks_top, chain, live>>

(* mem_set, mem_copy_to, mem_copy_to_offset: no lock is taken. *)
CopyTo(i, c) ==
  /\ phase = "open"
  /\ i \in live
  /\ Len(c) = Len(ReadBuf(i)[i])
  /\ entry' = ReadEntry(i)
  /\ buf' = [ReadBuf(i) EXCEPT ![i] = c]
  /\ call' = Call("write", i, c)
  /\ UNCHANGED <<phase, chunks_top, chain, locks, stale, saved, live>>

(* mem_copy_from, mem_copy_from_offset. *)
CopyFrom(i) ==
  /\ phase = "open"
  /\ i \in live
  /\ entry' = ReadEntry(i)
  /\ buf' = ReadBuf(i)
  /\ call' = Call("read", i, ReadBuf(i)[i])
  /\ UNCHANGED <<phase, chunks_top, chain, locks, stale, saved, live>>

(* mem_compare reads back both chunks, if it must. *)
Compare(i, j) ==
  /\ phase = "open"
  /\ i \in live /\ j \in live
  /\ entry' = [ReadEntry(i) EXCEPT ![j] = ReadEntry(j)[j]]
  /\ buf' = [ReadBuf(i) EXCEPT ![j] = ReadBuf(j)[j]]
  /\ call' = Compared(i, j, ReadBuf(i)[i] = ReadBuf(j)[j])
  /\ UNCHANGED <<phase, chunks_top, chain, locks, stale, saved, live>>

(* mem_realloc: new memory, the old bytes up to the smaller size. *)
Realloc(i, c) ==
  /\ phase = "open"
  /\ i \in live
  /\ SamePrefix(c, ReadBuf(i)[i])
  /\ entry' = ReadEntry(i)
  /\ buf' = [ReadBuf(i) EXCEPT ![i] = c]
  /\ Spoil(i)
  /\ call' = Call("resize", i, c)
  /\ UNCHANGED <<phase, chunks_top, chain, locks, saved, live>>

(* mem_free: an entry of 0 is taken for an id that was never in use. *)
Release_NotLinked(i) ==
  /\ IF i < chunks_top /\ entry[i] # 0
     THEN /\ entry' = [entry EXCEPT ![i] = chain]
          /\ buf' = [buf EXCEPT ![i] = NoBytes]
          /\ UNCHANGED chain
     ELSE UNCHANGED <<entry, buf, chain>>
  /\ live' = live \ {i}

Release(i) ==
  /\ IF i < chunks_top /\ entry[i] # 0
     THEN /\ entry' = [entry EXCEPT ![i] = chain]
          /\ buf' = [buf EXCEPT ![i] = NoBytes]
          /\ chain' = i
     ELSE UNCHANGED <<entry, buf, chain>>
  /\ live' = live \ {i}

Free(i) ==
  /\ phase = "open"
  /\ i \in live \ {0}
  /\ Release(i)
  /\ Spoil(i)
  /\ call' = Call("free", i, NoBytes)
  /\ UNCHANGED <<phase, chunks_top, locks, saved>>

(* obj_Close ends with mem_free(obj_NULL). *)
FreeNull ==
  /\ phase = "open"
  /\ 0 \in live
  /\ locks = << >>
  /\ Release(0)
  /\ phase' = "closing"
  /\ call' = Call("free", 0, NoBytes)
  /\ UNCHANGED <<chunks_top, locks, stale, saved>>

(* mem_Close: the store and the tables are freed, chunks that nobody freed *)
(* are lost with them.                                                     *)
Close ==
  /\ phase = "closing"
  /\ phase' = "closed"
  /\ live' = {}
  /\ call' = Call("close", 0, NoBytes)
  /\ UNCHANGED <<chunks_top, entry, buf, chain, locks, stale, saved>>

(* The next vm_Init: mem_Init, then cf_open truncates the store's files. *)
Reopen ==
  /\ phase = "closed"
  /\ phase' = "open"
  /\ chunks_top' = 0
  /\ entry' = [i \in Ids |-> 0]
  /\ buf' = [i \in Ids |-> NoBytes]
  /\ chain' = ChainEnd
  /\ locks' = << >>
  /\ stale' = {}
  /\ saved' = [i \in Ids |-> NoBytes]
  /\ call' = NoCall
  /\ UNCHANGED live

Next ==
  \/ \E c \in Contents : Create(c)
  \/ \E i \in Ids : Copy(i) \/ Lock(i) \/ Load(i) \/ CopyFrom(i) \/ Free(i)
  \/ \E i, j \in Ids : Compare(i, j)
  \/ \E is_dirty \in BOOLEAN : Unlock(is_dirty)
  \/ \E i \in Ids, c \in Contents : Store(i, c) \/ CopyTo(i, c) \/ Realloc(i, c)
  \/ FreeNull
  \/ Close
  \/ Reopen

Spec == Init /\ [][Next]_vars
-----------------------------------------------------------------------------
TypeOK ==
  /\ phase \in {"open", "closing", "closed"}
  /\ chunks_top \in 0..MaxIds
  /\ entry \in [Ids -> Ids \cup {Address, ChainEnd}]
  /\ buf \in [Ids -> Contents \cup {NoBytes}]
  /\ chain \in Ids \cup {ChainEnd}
  /\ locks \in Seq(Ids)
  /\ stale \in SUBSET DOMAIN locks
  /\ saved \in [Ids -> Contents \cup {NoBytes}]
  /\ live \in SUBSET Ids

(* A pointer that mem_lock returned stays good until its mem_unlock, or    *)
(* until its own chunk is freed or resized: the chunk is in memory,        *)
(* whatever the frames called meanwhile lock, unlock dirty, free or create *)
(* (mem_HasLocks in mem_unlock).  Nor is a chunk evicted that has the id   *)
(* of one freed while locked: the mem_unlock that is still to come would   *)
(* write it to the store through a null pointer.                           *)
LockedResident ==
  /\ Held \subseteq live
  /\ \A i \in Locked \cap live : entry[i] = Address

(* The free chain holds free entries only, each at most once, and no word  *)
(* on it can be taken for an evicted chunk or an address: otherwise        *)
(* mem_AddChunk would hand out an id in use, or one id twice.  Link(i, j): *)
(* the word of the free entry i names j.                                   *)
IsFree(i) == i \in Ids /\ i < chunks_top /\ i \notin live /\ entry[i] # Evicted

Link(i, j) == IsFree(i) /\ entry[i] = j

ChainOK ==
  phase = "open" =>
    /\ chain # ChainEnd => chain # 0 /\ IsFree(chain)
    /\ \A i, j \in Ids :
         Link(i, j) => j # chain /\ IsFree(j) /\ \A k \in Ids : Link(k, j) => k = i

(* "no free entries left ,resize mem_chunks" (memory.c:1031): the chunk     *)
(* table never grows while the free chain has an entry; all that is lost   *)
(* is the entry of a chunk that was evicted when it was freed.             *)
GrowsOnlyWhenNeeded ==
  [][chunks_top' > chunks_top =>
       \A i \in 0..(chunks_top - 1) : i \in live \/ entry[i] = Evicted]_vars

(* The words of the table say of each chunk what the interpreter thinks of *)
(* it: what it owns is in memory or in the store, what it does not own is  *)
(* not in memory, and obj_NULL is never evicted.                           *)
TableOK ==
  phase = "open" =>
    /\ chunks_top > 0 => 0 \in live
    /\ \A i \in live :
         /\ i < chunks_top
         /\ entry[i] \in {Address, Evicted}
         /\ entry[i] = Address => buf[i] \in Contents
         /\ entry[i] = Evicted => UseCache /\ i # 0 /\ saved[i] \in Contents
    /\ \A i \in Ids \ live : entry[i] # Address
    /\ \A i \in Ids : i >= chunks_top => entry[i] = 0

PhaseOK ==
  /\ phase # "open" => locks = << >>
  /\ phase = "closed" => live = {}

IInv == TypeOK /\ PhaseOK /\ LockedResident /\ TableOK /\ ChainOK

(* To the interpreter the manager is a memory: what it put into a chunk is *)
(* there whenever it looks, through evictions, reloads and reuse of ids.   *)
Content ==
  [i \in Ids |-> IF i \notin live THEN NoBytes
                 ELSE IF entry[i] = Address THEN buf[i] ELSE saved[i]]

M == INSTANCE Memory WITH mem <- Content

(* As TypeOK and the rest of IInv show what the table holds, this shows    *)
(* what callers get of it: Spec implements the memory of module Memory.    *)
IsMemory == M!Spec
=============================================================================
