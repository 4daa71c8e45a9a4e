------------------------------- MODULE MemPass ------------------------------
(***************************************************************************)
(* The memory manager of memory.c that features.h selects                  *)
(* (USE_MEMORY_MANAGER_PASS).  A chunk is named by its address; its size   *)
(* is kept in a header before its bytes.  Locking does nothing.            *)
(*                                                                         *)
(* mem_get_size means to read the header, but its cast binds looser than   *)
(* its index: it reads one char, the header's lowest byte, with its sign,  *)
(* and a negative size is a huge one once it is a MEM_NUM.  mem_copy and   *)
(* mem_compare are the calls that go by it.                                *)
(***************************************************************************)
EXTENDS Integers, Chunks

CONSTANTS
  Ids,     \* bound: addresses
  Bytes    \* values of a char: 256

ASSUME BytesAssumption == Bytes \in Nat \ {0} /\ Bytes % 2 = 0

VARIABLES
  crashed,    \* the program has read or written outside its memory
  allocated,  \* addresses of chunks
  size,       \* the header of each chunk
  bytes,      \* its bytes
  live,       \* chunks the interpreter owns
  call        \* its last call (of Chunks)

vars == <<crashed, allocated, size, bytes, live, call>>

-----------------------------------------------------------------------------
mem_get_size(i) ==
  LET low == size[i] % Bytes
  IN  IF low < Bytes \div 2 THEN low ELSE low - Bytes

Take(s, n) == SubSeq(s, 1, n)

(* malloc or realloc of a chunk at address i, and its header. *)
Header_Stale(i, n) == size

Header(i, n) == [size EXCEPT ![i] = n]

Init ==
  /\ crashed = FALSE
  /\ allocated = {}
  /\ size = [i \in Ids |-> 0]
  /\ bytes = [i \in Ids |-> NoBytes]
  /\ live = {}
  /\ call = NoCall

New(i, c) ==
  /\ ~crashed
  /\ i \notin allocated
  /\ allocated' = allocated \cup {i}
  /\ size' = [size EXCEPT ![i] = Len(c)]
  /\ bytes' = [bytes EXCEPT ![i] = c]
  /\ live' = live \cup {i}
  /\ UNCHANGED crashed

(* mem_malloc, mem_create, mem_create_buf, mem_create_string *)
Create(i, c) == New(i, c) /\ call' = Call("alloc", i, c)

(* malloc of a negative size returns NULL, whose header is written to, or, *)
(* for one just below zero, a block that the memcpy of so many bytes runs  *)
(* over.                                                                   *)
Crash ==
  /\ crashed' = TRUE
  /\ call' = [op |-> "crash"]
  /\ UNCHANGED <<allocated, size, bytes, live>>

Copy(i, j) ==
  /\ ~crashed
  /\ i \in live
  /\ IF mem_get_size(i) < 0 THEN Crash
     ELSE LET c == Take(bytes[i], mem_get_size(i))
          IN  New(j, c) /\ call' = Call("copy", i, c)

(* memcmp of a negative size stops at the first difference; when the chunk *)
(* has none it reads on in whatever lies behind it.                        *)
SameBytes_Shorter(i, j, n) ==
  \A k \in 1..(n - 1) : bytes[i][k] = bytes[j][k]

SameBytes(i, j, n) == Take(bytes[i], n) = Take(bytes[j], n)

Compare(i, j) ==
  /\ ~crashed
  /\ i \in live /\ j \in live
  /\ LET n == mem_get_size(i) IN
       \/ /\ n = mem_get_size(j) => n < 0 /\ i # j
          /\ call' = Compared(i, j, FALSE)
          /\ UNCHANGED <<crashed, allocated, size, bytes, live>>
       \/ /\ n = mem_get_size(j) /\ n >= 0
          /\ call' = Compared(i, j, SameBytes(i, j, n))
          /\ UNCHANGED <<crashed, allocated, size, bytes, live>>
       \/ n = mem_get_size(j) /\ n < 0 /\ SamePrefix(bytes[i], bytes[j]) /\ Crash

(* Reading and writing through the address itself, mem_set, mem_copy_to,   *)
(* mem_copy_from and the like: the caller says how many bytes.             *)
Read(i) ==
  /\ ~crashed
  /\ i \in live
  /\ call' = Call("read", i, bytes[i])
  /\ UNCHANGED <<crashed, allocated, size, bytes, live>>

Write(i, c) ==
  /\ ~crashed
  /\ i \in live
  /\ Len(c) = Len(bytes[i])
  /\ bytes' = [bytes EXCEPT ![i] = c]
  /\ call' = Call("write", i, c)
  /\ UNCHANGED <<crashed, allocated, size, live>>

(* The interpreter goes on with the address realloc returns. *)
Realloc(i, j, c) ==
  /\ ~crashed
  /\ i \in live
  /\ j = i \/ j \notin allocated
  /\ SamePrefix(c, bytes[i])
  /\ allocated' = (allocated \ {i}) \cup {j}
  /\ size' = Header(j, Len(c))
  /\ bytes' = [bytes EXCEPT ![i] = NoBytes, ![j] = c]
  /\ live' = (live \ {i}) \cup {j}
  /\ call' = Call("resize", j, c)
  /\ UNCHANGED crashed

Free(i) ==
  /\ ~crashed
  /\ i \in live
  /\ allocated' = allocated \ {i}
  /\ bytes' = [bytes EXCEPT ![i] = NoBytes]
  /\ live' = live \ {i}
  /\ call' = Call("free", i, NoBytes)
  /\ UNCHANGED <<crashed, size>>

(* mem_Close says that all is well, and frees nothing. *)
Close ==
  /\ ~crashed
  /\ live' = {}
  /\ call' = Call("close", 0, NoBytes)
  /\ UNCHANGED <<crashed, allocated, size, bytes>>

Next ==
  \/ \E i \in Ids, c \in Contents : Create(i, c) \/ Write(i, c)
  \/ \E i, j \in Ids, c \in Contents : Realloc(i, j, c)
  \/ \E i, j \in Ids : Copy(i, j) \/ Compare(i, j)
  \/ \E i \in Ids : Read(i) \/ Free(i)
  \/ Close

Spec == Init /\ [][Next]_vars
-----------------------------------------------------------------------------
TypeOK ==
  /\ crashed \in BOOLEAN
  /\ allocated \in SUBSET Ids
  /\ size \in [Ids -> 0..MaxSize]
  /\ bytes \in [Ids -> Contents \cup {NoBytes}]
  /\ live \in SUBSET allocated

(* The header of a chunk tells how many bytes follow it, wherever realloc  *)
(* has moved it.                                                           *)
HeadersTrue == \A i \in allocated : size[i] = Len(bytes[i])

(* As long as the size of every chunk fits a signed char the manager is    *)
(* the memory that the other managers are; the calls made when one does    *)
(* not may lose bytes, take different chunks for equal, or crash.          *)
Content == [i \in Ids |-> IF i \in live THEN bytes[i] ELSE NoBytes]

M == INSTANCE Memory WITH mem <- Content

AllSmall == \A i \in live : Len(bytes[i]) \in 1..(Bytes \div 2 - 1)

MemoryWhileSmall == [][AllSmall => [M!Next]_<<Content, call>>]_vars

IInv == TypeOK /\ HeadersTrue
=============================================================================
