------------------------------ MODULE CacheFile -----------------------------
(***************************************************************************)
(* The file store of cache_file.c.                                         *)
(*                                                                         *)
(* The ids are dealt out to blobs, one file each.  A file begins with a    *)
(* table of one entry per id, which gives the offset and the size of the   *)
(* bytes; the bytes follow it in the order in which they were written.     *)
(* Nothing is ever written over except table entries.                      *)
(*                                                                         *)
(* The program opens one store at a time, reads what it has written        *)
(* (`written'), and closes and frees it once (mem_Close).                  *)
(***************************************************************************)
EXTENDS Integers, Chunks

CONSTANTS
  Blobs,        \* CF_BLOBS
  BlobEntries,  \* CF_BLOB_ENTRIES
  MayFail,      \* fopen may fail
  MaxLog        \* bound: cells that are written behind the table of a file

ASSUME BlobsAssumption       == Blobs \in Nat \ {0}
ASSUME BlobEntriesAssumption == BlobEntries \in Nat \ {0}
ASSUME MayFailAssumption     == MayFail \in BOOLEAN
ASSUME MaxLogAssumption      == MaxLog \in Nat

(* mem_AddChunk bounds no id: more chunks than the blobs have entries for  *)
(* would index blobs[] out of its bounds.                                  *)
Ids == 0..(Blobs * BlobEntries - 1)

BlobIds == 0..(Blobs - 1)

cf_GetBlob(i) == i \div BlobEntries
cf_GetBlobEntry(i) == i % BlobEntries

(* A file is addressed in units of one table entry, or one cell. *)
FileEnd == BlobEntries + MaxLog
Positions == 0..(FileEnd - 1)

Blank == <<"blank">>
Cell(v) == <<"cell", v>>
Entry(start_offset, size) == <<"entry", start_offset, size>>
Words == {Blank} \cup {Cell(v) : v \in Cells}
           \cup {Entry(o, n) : o \in 0..FileEnd, n \in 1..MaxSize}

VARIABLES
  status,             \* "created", "open", "closed" or "freed"
  blobs_num,
  usable,             \* blobs b with a blobs[b], the others' is uninitialised
  closings,           \* fclose calls on the file of each blob
  file,               \* the files
  next_entry_offset,  \* of each blob
  written,            \* chunks the manager has written since the opening
  call                \* the last call (of Chunks)

vars == <<status, blobs_num, usable, closings, file, next_entry_offset, written, call>>

-----------------------------------------------------------------------------
(* fseek to position p and fwrite of the words of sequence ws. *)
PutWords(f, p, ws) ==
  [q \in Positions |-> IF q \in p..(p + Len(ws) - 1) THEN ws[q - p + 1] ELSE f[q]]

(* cf_write puts the bytes at the end, cf_SetEntry the table entry. *)
PutBytes_OverTable(f, p, c) ==
  PutWords(f, p - BlobEntries, [k \in DOMAIN c |-> Cell(c[k])])

PutBytes(f, p, c) == PutWords(f, p, [k \in DOMAIN c |-> Cell(c[k])])

cf_SetEntry_FirstBlob(f, i, offset, size) ==
  PutWords(f, 0, <<Entry(offset, size)>>)

cf_SetEntry(f, i, offset, size) ==
  PutWords(f, cf_GetBlobEntry(i), <<Entry(offset, size)>>)

(* cf_GetEntry, and the bytes that cf_read finds there. *)
cf_GetEntry(i) == file[cf_GetBlob(i)][cf_GetBlobEntry(i)]

Bytes(i) ==
  LET e == cf_GetEntry(i)
  IN  [k \in 1..e[3] |-> file[cf_GetBlob(i)][e[2] + k - 1][2]]

-----------------------------------------------------------------------------
Init ==
  /\ status = "created"
  /\ blobs_num = 0
  /\ usable = {}
  /\ closings = [b \in BlobIds |-> 0]
  /\ file = [b \in BlobIds |-> [p \in Positions |-> Blank]]
  /\ next_entry_offset = [b \in BlobIds |-> 0]
  /\ written = {}
  /\ call = NoCall

(* cf_open: every blob's file is created or truncated (fopen "wb+").  When *)
(* this fails cf_OpenBlob leaves blobs[b] as malloc made it, and cf_open   *)
(* returns 1 all the same.  Whatever uses blobs[b] then is undefined, and  *)
(* no step of this model.                                                  *)
cf_open(opened) ==
  /\ status = "created"
  /\ MayFail \/ opened = BlobIds
  /\ usable' = opened
  /\ status' = "open"
  /\ blobs_num' = Blobs
  /\ closings' = [b \in BlobIds |-> 0]
  /\ file' = [b \in BlobIds |-> [p \in Positions |-> Blank]]
  /\ next_entry_offset' = [b \in BlobIds |-> BlobEntries]
  /\ written' = {}
  /\ call' = Call("open", 0, NoBytes)

NextOffset_Kept(o, c) == o

NextOffset(o, c) == o + Len(c)

cf_write(i, c) ==
  LET b == cf_GetBlob(i)
      o == next_entry_offset[b]
  IN
  /\ status = "open"
  /\ b \in usable
  /\ o + Len(c) <= FileEnd
  /\ file' = [file EXCEPT ![b] = cf_SetEntry(PutBytes(@, o, c), i, o, Len(c))]
  /\ next_entry_offset' = [next_entry_offset EXCEPT ![b] = NextOffset(o, c)]
  /\ written' = written \cup {i}
  /\ call' = Call("write", i, c)
  /\ UNCHANGED <<status, blobs_num, usable, closings>>

cf_read(i) ==
  /\ status = "open"
  /\ i \in written   \* so its blob is usable
  /\ call' = Call("read", i, Bytes(i))
  /\ UNCHANGED <<status, blobs_num, usable, closings, file, next_entry_offset, written>>

(* cf_close closes the files of the first blobs_num blobs. *)
BlobsLeft_All == blobs_num

BlobsLeft == 0

CloseBlobs ==
  /\ \A b \in BlobIds : b < blobs_num => b \in usable
  /\ UNCHANGED usable
  /\ closings' = [b \in BlobIds |-> closings[b] + IF b < blobs_num THEN 1 ELSE 0]
  /\ blobs_num' = BlobsLeft

cf_close ==
  /\ status = "open"
  /\ CloseBlobs
  /\ status' = "closed"
  /\ written' = {}
  /\ call' = Call("close", 0, NoBytes)
  /\ UNCHANGED <<file, next_entry_offset>>

(* cf_free calls cf_close again, then frees the blobs and the store. *)
cf_free ==
  /\ status = "closed"
  /\ CloseBlobs
  /\ status' = "freed"
  /\ call' = Call("close", 0, NoBytes)
  /\ UNCHANGED <<file, next_entry_offset, written>>

(* cf_SetFileCache makes a new store for the next run of a vm. *)
cf_Create ==
  /\ status = "freed"
  /\ status' = "created"
  /\ call' = Call("close", 0, NoBytes)
  /\ UNCHANGED <<blobs_num, usable, closings, file, next_entry_offset, written>>

Next ==
  \/ \E opened \in SUBSET BlobIds : cf_open(opened)
  \/ \E i \in Ids, c \in Contents : cf_write(i, c)
  \/ \E i \in Ids : cf_read(i)
  \/ cf_close
  \/ cf_free
  \/ cf_Create

Spec == Init /\ [][Next]_vars
-----------------------------------------------------------------------------
TypeOK ==
  /\ status \in {"created", "open", "closed", "freed"}
  /\ blobs_num \in {0, Blobs}
  /\ usable \in SUBSET BlobIds
  /\ closings \in [BlobIds -> Nat]
  /\ file \in [BlobIds -> [Positions -> Words]]
  /\ next_entry_offset \in [BlobIds -> 0..FileEnd]
  /\ written \in SUBSET Ids

(* The table entry of a chunk that was written names cells that lie behind *)
(* the table and before next_entry_offset: the next bytes are written over *)
(* no table entry and over no chunk's bytes (cf_write).                    *)
Extent(i, o, n) ==
  /\ BlobEntries <= o
  /\ o + n <= next_entry_offset[cf_GetBlob(i)]
  /\ \A p \in o..(o + n - 1) : \E v \in Cells : file[cf_GetBlob(i)][p] = Cell(v)

Layout ==
  /\ status = "open" => \A b \in BlobIds : next_entry_offset[b] >= BlobEntries
  /\ \A i \in written :
       \E o \in 0..FileEnd, n \in 1..MaxSize : cf_GetEntry(i) = Entry(o, n) /\ Extent(i, o, n)

(* mem_Close closes the store and frees it, which closes it again: no file *)
(* is closed twice, and none stays open (cf_close, cf_free).               *)
ClosedOnce ==
  \A b \in BlobIds : /\ status = "open" => closings[b] = 0
                     /\ status \in {"closed", "freed"} => closings[b] = 1

NumOK ==
  /\ blobs_num = IF status = "open" THEN Blobs ELSE 0
  /\ status # "open" => written = {}

IInv == TypeOK /\ Layout /\ ClosedOnce /\ NumOK

(* The store keeps what module CacheStore says it keeps: the bytes of each *)
(* chunk, through the writing of all others and of itself again.           *)
Kept == [i \in Ids |-> IF i \in written THEN Bytes(i) ELSE NoBytes]

S == INSTANCE CacheStore WITH kept <- Kept

IsStore == S!Spec
=============================================================================
