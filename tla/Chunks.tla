------------------------------- MODULE Chunks -------------------------------
(***************************************************************************)
(* The bytes of a chunk of memory, and what the interpreter asks of a      *)
(* memory manager of memory.c in one call.                                 *)
(***************************************************************************)
EXTENDS Naturals, Sequences

CONSTANTS
  Cells,    \* values of one cell of a chunk
  MaxSize   \* bound: size of a chunk, in cells

ASSUME MaxSizeAssumption == MaxSize \in Nat \ {0}

(* The bytes of a chunk.  No caller asks for a chunk of size zero. *)
Contents == UNION {[1..n -> Cells] : n \in 1..MaxSize}

NoBytes == << >>

(* The cells that both sizes have are the same, as mem_realloc leaves them.*)
SamePrefix(a, b) == \A k \in DOMAIN a \cap DOMAIN b : a[k] = b[k]

(* One call: its name, the chunk it names, the bytes it puts into it or    *)
(* sees there.                                                             *)
Call(op, i, c) == [op |-> op, id |-> i, bytes |-> c]

(* A comparison of two chunks shows whether their bytes are the same. *)
Compared(i, j, equal) == [op |-> "compare", ids |-> {i, j}, equal |-> equal]

(* A call that shows nothing of the bytes of any chunk. *)
NoCall == [op |-> "none"]
=============================================================================
