------------------------------ MODULE MemDebug ------------------------------
(***************************************************************************)
(* The debugging memory managers of memory.c: USE_MEMORY_MANAGER_DEBUG and *)
(* USE_MEMORY_MANAGER_CACHE_DEBUG, which is the same code with a store     *)
(* behind it.                                                              *)
(*                                                                         *)
(* Each chunk has a mem_chunk, whose index is its id; ids are never used   *)
(* again.  A chunk counts its locks, besides the lock stack; is_freed is   *)
(* set for a chunk that was freed and for one that was evicted, and chunks *)
(* of the pool class MEM_POOL_CLASS_PERMANENT are never evicted.  At the   *)
(* end mem_Close walks over the chunks and tells what was never freed or   *)
(* unlocked; then it gives the descriptions of the chunks to free, though  *)
(* they are string literals: what the program does after that is undefined.*)
(*                                                                         *)
(* The interpreter calls the manager as it calls that of module MemCache,  *)
(* frees what is locked as it does there, but may end a session with       *)
(* chunks that it has not freed or unlocked.                               *)
(***************************************************************************)
EXTENDS Integers, FiniteSets, Chunks

CONSTANTS
  MaxIds,    \* bound: chunks of one session
  MaxLocks   \* bound: nested locks

ASSUME MaxIdsAssumption   == MaxIds \in Nat \ {0}
ASSUME MaxLocksAssumption == MaxLocks \in Nat

Ids == 0..(MaxIds - 1)

VARIABLES
  cache,       \* cache # NULL: mem_SetCache was called
  phase,       \* "open", "closed", "undefined" once free was misused
  chunks_num,  \* mem_chunks_num
  ptr,         \* the bytes behind chunk->ptr, NoBytes when it is NULL
  is_freed,    \* chunk->is_freed
  lock_count,  \* chunk->locks
  permanent,   \* chunks whose pool_class is MEM_POOL_CLASS_PERMANENT
  described,   \* some chunk's description is not NULL
  locks,       \* mem_locks[0 .. mem_locks_top - 1]
  stale,       \* locks whose chunk was freed or resized after mem_lock
  saved,       \* the bytes the store returns for an id
  live,        \* chunks the interpreter owns
  call         \* its last call (of Chunks)

vars == <<cache, phase, chunks_num, ptr, is_freed, lock_count, permanent,
          described, locks, stale, saved, live, call>>

-----------------------------------------------------------------------------
Locked == {locks[k] : k \in DOMAIN locks}

(* What the interpreter has a good pointer to, and a call that gives the   *)
(* bytes of chunk i back to the system.                                    *)
Held == {locks[k] : k \in DOMAIN locks \ stale}

Spoil(i) == stale' = stale \cup {k \in DOMAIN locks : locks[k] = i}

(* How often chunk i is on a lock stack. *)
Positions(s, i) == {k \in DOMAIN s : s[k] = i}

(* The test before every use of a chunk's bytes, and mem_store_Read with   *)
(* mem_malloc_ptr, mem_set_ptr and mem_set_size.                           *)
MustRead(i) == cache /\ is_freed[i] /\ lock_count[i] = 0 /\ i \notin permanent

ReadPtr(i)   == IF MustRead(i) THEN [ptr EXCEPT ![i] = saved[i]] ELSE ptr
ReadFreed(i) == IF MustRead(i) THEN [is_freed EXCEPT ![i] = FALSE] ELSE is_freed

(* mem_AddChunk, of bytes c, to chunks with pointers p and marks f. *)
AddChunk(c, is_permanent, is_described, p, f) ==
  /\ chunks_num < MaxIds
  /\ chunks_num' = chunks_num + 1
  /\ ptr' = [p EXCEPT ![chunks_num] = c]
  /\ is_freed' = [f EXCEPT ![chunks_num] = FALSE]
  /\ lock_count' = [lock_count EXCEPT ![chunks_num] = 0]
  /\ permanent' = IF is_permanent THEN permanent \cup {chunks_num} ELSE permanent
  /\ described' = (described \/ is_described)
  /\ live' = live \cup {chunks_num}

(* mem_Init; `cache' is another program's choice: vm_Init sets the store,  *)
(* the tools that only read and write objects do not.                      *)
Fresh(num, p, f, n, pool, d, l, t, s) ==
  /\ num = 0
  /\ p = [i \in Ids |-> NoBytes]
  /\ f = [i \in Ids |-> TRUE]
  /\ n = [i \in Ids |-> 0]
  /\ pool = {}
  /\ d = FALSE
  /\ l = << >> /\ t = {}
  /\ s = [i \in Ids |-> NoBytes]

Init ==
  /\ cache \in BOOLEAN
  /\ phase = "open"
  /\ Fresh(chunks_num, ptr, is_freed, lock_count, permanent, described,
           locks, stale, saved)
  /\ live = {}
  /\ call = NoCall

(* mem_malloc, whose chunks alone have no description, mem_malloc_debug,   *)
(* mem_create, mem_create_buf and mem_create_string.                       *)
Create(c, is_permanent, is_described) ==
  /\ phase = "open"
  /\ AddChunk(c, is_permanent, is_described, ptr, is_freed)
  /\ call' = Call("alloc", chunks_num, c)
  /\ UNCHANGED <<cache, phase, locks, stale, saved>>

(* mem_copy: the copy is of the pool class of its source. *)
Copy(i) ==
  /\ phase = "open"
  /\ i \in live
  /\ AddChunk(ReadPtr(i)[i], i \in permanent, TRUE, ReadPtr(i), ReadFreed(i))
  /\ call' = Call("copy", i, ReadPtr(i)[i])
  /\ UNCHANGED <<cache, phase, locks, stale, saved>>

(* mem_lock, with mem_PushLock *)
Counted_Once(i) == [lock_count EXCEPT ![i] = 1]

Counted(i) == [lock_count EXCEPT ![i] = @ + 1]

Lock(i) ==
  /\ phase = "open"
  /\ i \in live
  /\ Len(locks) < MaxLocks
  /\ ptr' = ReadPtr(i)
  /\ is_freed' = ReadFreed(i)
  /\ lock_count' = Counted(i)
  /\ locks' = Append(locks, i)
  /\ call' = NoCall
  /\ UNCHANGED <<cache, phase, chunks_num, permanent, described, stale, saved, live>>

Load(i) ==
  /\ phase = "open"
  /\ i \in Held
  /\ call' = Call("read", i, ptr[i])
  /\ UNCHANGED <<cache, phase, chunks_num, ptr, is_freed, lock_count,
                 permanent, described, locks, stale, saved, live>>

Store(i, c) ==
  /\ phase = "open"
  /\ i \in Held
  /\ Len(c) = Len(ptr[i])
  /\ ptr' = [ptr EXCEPT ![i] = c]
  /\ call' = Call("write", i, c)
  /\ UNCHANGED <<cache, phase, chunks_num, is_freed, lock_count, permanent,
                 described, locks, stale, saved, live>>

(* mem_unlock, after chunk->locks-- and mem_PopLock. *)
Evicts_Permanent(i, is_dirty) == is_dirty /\ cache /\ lock_count[i] = 1

Evicts_WhileLocked(i, is_dirty) == is_dirty /\ cache /\ i \notin permanent

Evicts(i, is_dirty) ==
  is_dirty /\ cache /\ lock_count[i] = 1 /\ i \notin permanent

Unlock(is_dirty) ==
  /\ phase = "open"
  /\ locks # << >>
  /\ is_dirty => locks[Len(locks)] \in live
  /\ locks' = SubSeq(locks, 1, Len(locks) - 1)
  /\ stale' = stale \ {Len(locks)}
  /\ LET i == locks[Len(locks)] IN
       /\ lock_count' = [lock_count EXCEPT ![i] = @ - 1]
       /\ IF Evicts(i, is_dirty)
          THEN /\ saved' = [saved EXCEPT ![i] = ptr[i]]
               /\ ptr' = [ptr EXCEPT ![i] = NoBytes]
               /\ is_freed' = [is_freed EXCEPT ![i] = TRUE]
          ELSE UNCHANGED <<saved, ptr, is_freed>>
  /\ call' = NoCall
  /\ UNCHANGED <<cache, phase, chunks_num, permanent, described, live>>

(* mem_set, mem_copy_to, mem_copy_to_offset *)
CopyTo(i, c) ==
  /\ phase = "open"
  /\ i \in live
  /\ Len(c) = Len(ReadPtr(i)[i])
  /\ ptr' = [ReadPtr(i) EXCEPT ![i] = c]
  /\ is_freed' = ReadFreed(i)
  /\ call' = Call("write", i, c)
  /\ UNCHANGED <<cache, phase, chunks_num, lock_count, permanent, described,
                 locks, stale, saved, live>>

(* mem_copy_from, mem_copy_from_offset *)
CopyFrom(i) ==
  /\ phase = "open"
  /\ i \in live
  /\ ptr' = ReadPtr(i)
  /\ is_freed' = ReadFreed(i)
  /\ call' = Call("read", i, ReadPtr(i)[i])
  /\ UNCHANGED <<cache, phase, chunks_num, lock_count, permanent, described,
                 locks, stale, saved, live>>

Compare(i, j) ==
  /\ phase = "open"
  /\ i \in live /\ j \in live
  /\ ptr' = [ReadPtr(i) EXCEPT ![j] = ReadPtr(j)[j]]
  /\ is_freed' = [ReadFreed(i) EXCEPT ![j] = ReadFreed(j)[j]]
  /\ call' = Compared(i, j, ReadPtr(i)[i] = ReadPtr(j)[j])
  /\ UNCHANGED <<cache, phase, chunks_num, lock_count, permanent, described,
                 locks, stale, saved, live>>

Realloc(i, c) ==
  /\ phase = "open"
  /\ i \in live
  /\ SamePrefix(c, ReadPtr(i)[i])
  /\ ptr' = [ReadPtr(i) EXCEPT ![i] = c]
  /\ is_freed' = ReadFreed(i)
  /\ Spoil(i)
  /\ call' = Call("resize", i, c)
  /\ UNCHANGED <<cache, phase, chunks_num, lock_count, permanent, described,
                 locks, saved, live>>

(* mem_free of an evicted chunk finds it freed already. *)
Release_NotMarked(i) ==
  /\ ptr' = [ptr EXCEPT ![i] = NoBytes]
  /\ UNCHANGED is_freed

Release(i) ==
  /\ ptr' = [ptr EXCEPT ![i] = NoBytes]
  /\ is_freed' = [is_freed EXCEPT ![i] = TRUE]

Free(i) ==
  /\ phase = "open"
  /\ i \in live
  /\ IF ~is_freed[i] THEN Release(i) ELSE UNCHANGED <<ptr, is_freed>>
  /\ Spoil(i)
  /\ live' = live \ {i}
  /\ call' = Call("free", i, NoBytes)
  /\ UNCHANGED <<cache, phase, chunks_num, lock_count, permanent, described,
                 locks, saved>>

(* What mem_DebugHeapWalk(1, 1) returns, and mem_Close when it gets past   *)
(* free(description).                                                      *)
mem_DebugHeapWalk == \A i \in Ids : i < chunks_num => is_freed[i] /\ lock_count[i] <= 0

Close ==
  /\ phase = "open"
  /\ phase' \in {"closed"} \cup (IF described THEN {"undefined"} ELSE {})
  /\ live' = {}
  /\ call' = Call("close", 0, NoBytes)
  /\ UNCHANGED <<cache, chunks_num, ptr, is_freed, lock_count, permanent,
                 described, locks, stale, saved>>

(* mem_Init of the next session *)
Reopen ==
  /\ phase = "closed"
  /\ phase' = "open"
  /\ Fresh(chunks_num', ptr', is_freed', lock_count', permanent', described',
           locks', stale', saved')
  /\ call' = NoCall
  /\ UNCHANGED <<cache, live>>

Next ==
  \/ \E c \in Contents, is_permanent, is_described \in BOOLEAN :
       Create(c, is_permanent, is_described)
  \/ \E i \in Ids : Copy(i) \/ Lock(i) \/ Load(i) \/ CopyFrom(i) \/ Free(i)
  \/ \E i, j \in Ids : Compare(i, j)
  \/ \E is_dirty \in BOOLEAN : Unlock(is_dirty)
  \/ \E i \in Ids, c \in Contents : Store(i, c) \/ CopyTo(i, c) \/ Realloc(i, c)
  \/ Close
  \/ Reopen

Spec == Init /\ [][Next]_vars
-----------------------------------------------------------------------------
TypeOK ==
  /\ cache \in BOOLEAN
  /\ phase \in {"open", "closed", "undefined"}
  /\ chunks_num \in 0..MaxIds
  /\ ptr \in [Ids -> Contents \cup {NoBytes}]
  /\ is_freed \in [Ids -> BOOLEAN]
  /\ lock_count \in [Ids -> Int]
  /\ permanent \in SUBSET Ids
  /\ described \in BOOLEAN
  /\ locks \in Seq(Ids)
  /\ stale \in SUBSET DOMAIN locks
  /\ saved \in [Ids -> Contents \cup {NoBytes}]
  /\ live \in SUBSET Ids

(* The manager keeps two books of the locks, the counter of each chunk and *)
(* the stack; eviction and the final report go by the first, the order of  *)
(* the unlocks by the second (mem_lock, mem_unlock).                       *)
LocksAgree == \A i \in Ids : lock_count[i] = Cardinality(Positions(locks, i))

(* What the interpreter owns is in memory, or in the store where the next  *)
(* call finds it; it is in memory while locked, and always when permanent: *)
(* mem_lock would not read a permanent chunk back.  What the interpreter   *)
(* has a good pointer to, it owns.                                         *)
ChunksOK ==
  phase = "open" =>
    /\ Held \subseteq live
    /\ \A i \in live :
         /\ i < chunks_num
         /\ ~is_freed[i] => ptr[i] \in Contents
         /\ is_freed[i] =>
              cache /\ i \notin Locked \cup permanent /\ saved[i] \in Contents
    /\ \A i \in Ids \ live : is_freed[i]
    /\ \A i \in permanent \cup Locked : i < chunks_num

ClosedOK == phase # "open" => live = {}

(* "leaked" and "still locked": the walk at the end returns 1 exactly when *)
(* nothing is locked and no chunk in memory was never freed, also when     *)
(* chunks were freed while they were locked.  A chunk that was evicted and *)
(* never freed is not noticed.                                             *)
LeaksFound ==
  phase = "open" =>
    (mem_DebugHeapWalk <=> locks = << >> /\ \A i \in live : is_freed[i])

IInv == TypeOK /\ LocksAgree /\ ChunksOK /\ ClosedOK

(* With a store or without one the manager is the memory that the caching  *)
(* manager is.                                                             *)
Content ==
  [i \in Ids |-> IF i \notin live THEN NoBytes
                 ELSE IF is_freed[i] THEN saved[i] ELSE ptr[i]]

M == INSTANCE Memory WITH mem <- Content

IsMemory == M!Spec
=============================================================================
