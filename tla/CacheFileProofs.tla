-------------------------- MODULE CacheFileProofs ---------------------------
(***************************************************************************)
(* Proofs about the file store, for every number of blobs, entries of a    *)
(* blob and size of the files.                                             *)
(***************************************************************************)
EXTENDS CacheFile, SequenceTheorems, TLAPS

(* Two ids with one table entry are one id. *)
LEMMA EntryOfOneId ==
  ASSUME NEW i \in Ids, NEW j \in Ids,
         cf_GetBlob(i) = cf_GetBlob(j), cf_GetBlobEntry(i) = cf_GetBlobEntry(j)
  PROVE  i = j
<1>1. ASSUME NEW n \in Nat \ {0}, NEW k \in Nat
      PROVE  k = n * (k \div n) + (k % n)
  OBVIOUS
<1>2. i \in Nat /\ j \in Nat
  BY DEF Ids
<1> QED
  BY <1>1, <1>2, BlobEntriesAssumption DEF cf_GetBlob, cf_GetBlobEntry

LEMMA IdsInTable ==
  ASSUME NEW i \in Ids
  PROVE  cf_GetBlob(i) \in BlobIds /\ cf_GetBlobEntry(i) \in 0..(BlobEntries - 1)
<1> DEFINE q == i \div BlobEntries
<1>1. i \in Nat /\ i < Blobs * BlobEntries
  BY BlobsAssumption, BlobEntriesAssumption DEF Ids
<1>2. i % BlobEntries \in 0..(BlobEntries - 1)
  BY <1>1, BlobEntriesAssumption
<1>3. q \in Nat /\ BlobEntries * q <= i
  BY <1>1, BlobEntriesAssumption
<1>4. q < Blobs
  <2> SUFFICES ASSUME q >= Blobs PROVE FALSE
    BY <1>3, BlobsAssumption
  <2>1. BlobEntries * q >= BlobEntries * Blobs
    BY <1>3, BlobsAssumption, BlobEntriesAssumption
  <2> QED
    BY <1>1, <1>3, <2>1, BlobsAssumption, BlobEntriesAssumption
<1> QED
  BY <1>2, <1>3, <1>4, BlobsAssumption DEF BlobIds, cf_GetBlob, cf_GetBlobEntry

LEMMA InitInvariant == Init => IInv
<1> SUFFICES ASSUME Init PROVE IInv
  OBVIOUS
<1>1. TypeOK
  BY BlobsAssumption, BlobEntriesAssumption, MaxLogAssumption DEF Init, TypeOK, Words, FileEnd
<1>2. Layout /\ ClosedOnce /\ NumOK
  BY DEF Init, Layout, ClosedOnce, NumOK
<1> QED
  BY <1>1, <1>2 DEF IInv

-----------------------------------------------------------------------------
(* What a write leaves in the file of its blob. *)
LEMMA ContentsAreSequences ==
  ASSUME NEW c \in Contents
  PROVE  /\ Len(c) \in 1..MaxSize /\ DOMAIN c = 1..Len(c)
         /\ \A k \in 1..Len(c) : c[k] \in Cells
         /\ c # NoBytes
<1>1. PICK n \in 1..MaxSize : c \in [1..n -> Cells]
  BY DEF Contents
<1>2. Len(c) = n /\ DOMAIN c = 1..n
  BY <1>1, MaxSizeAssumption
<1>3. c # NoBytes
  BY <1>2, MaxSizeAssumption DEF NoBytes
<1> QED
  BY <1>1, <1>2, <1>3

LEMMA AfterPutBytes ==
  ASSUME NEW f, NEW p \in Nat, NEW c \in Contents, NEW q \in Positions
  PROVE  PutBytes(f, p, c)[q] =
           IF q \in p..(p + Len(c) - 1) THEN Cell(c[q - p + 1]) ELSE f[q]
<1> DEFINE ws == [k \in DOMAIN c |-> Cell(c[k])]
<1>1. Len(c) \in Nat /\ DOMAIN c = 1..Len(c) /\ q \in Int
  BY ContentsAreSequences, MaxSizeAssumption, BlobEntriesAssumption, MaxLogAssumption
     DEF Positions, FileEnd
<1>2. Len(ws) = Len(c)
  BY <1>1
<1>3. q \in p..(p + Len(c) - 1) => ws[q - p + 1] = Cell(c[q - p + 1])
  BY <1>1
<1>4. PutBytes(f, p, c)[q] =
        IF q \in p..(p + Len(ws) - 1) THEN ws[q - p + 1] ELSE f[q]
  BY DEF PutBytes, PutWords
<1> HIDE DEF ws
<1> QED
  BY <1>2, <1>3, <1>4

LEMMA AfterSetEntry ==
  ASSUME NEW f, NEW i \in Ids, NEW o, NEW n
  PROVE  /\ DOMAIN cf_SetEntry(f, i, o, n) = Positions
         /\ cf_SetEntry(f, i, o, n) = [q \in Positions |-> cf_SetEntry(f, i, o, n)[q]]
         /\ \A q \in Positions :
              cf_SetEntry(f, i, o, n)[q] =
                IF q = cf_GetBlobEntry(i) THEN Entry(o, n) ELSE f[q]
<1> DEFINE e == cf_GetBlobEntry(i)
           ws == <<Entry(o, n)>>
<1>1. e \in Nat
  BY IdsInTable, BlobEntriesAssumption
<1>2. Len(ws) = 1 /\ ws[1] = Entry(o, n)
  OBVIOUS
<1>3. cf_SetEntry(f, i, o, n) =
        [q \in Positions |-> IF q \in e..(e + Len(ws) - 1) THEN ws[q - e + 1] ELSE f[q]]
  BY DEF cf_SetEntry, PutWords
<1> HIDE DEF e, ws
<1>4. \A q \in Positions : (q \in e..(e + Len(ws) - 1) <=> q = e) /\ e - e + 1 = 1
  BY <1>1, <1>2, BlobEntriesAssumption, MaxLogAssumption DEF Positions, FileEnd
<1>5. \A q \in Positions :
        cf_SetEntry(f, i, o, n)[q] = IF q = e THEN Entry(o, n) ELSE f[q]
  BY <1>2, <1>3, <1>4
<1>6. /\ DOMAIN cf_SetEntry(f, i, o, n) = Positions
      /\ cf_SetEntry(f, i, o, n) = [q \in Positions |-> cf_SetEntry(f, i, o, n)[q]]
  BY <1>3
<1> QED
  BY <1>5, <1>6 DEF e

AfterPut(i, b, o, c) ==
  /\ o \in BlobEntries..FileEnd /\ o + Len(c) <= FileEnd
  /\ next_entry_offset' = [next_entry_offset EXCEPT ![b] = o + Len(c)]
  /\ file' \in [BlobIds -> [Positions -> Words]]
  /\ \A d \in BlobIds : d # b => file'[d] = file[d]
  /\ file'[b][cf_GetBlobEntry(i)] = Entry(o, Len(c))
  /\ \A p \in o..(o + Len(c) - 1) : p \in Positions /\ file'[b][p] = Cell(c[p - o + 1])
  /\ \A p \in Positions : p # cf_GetBlobEntry(i) /\ p < o => file'[b][p] = file[b][p]

LEMMA AfterWrite ==
  ASSUME IInv, NEW i \in Ids, NEW c \in Contents, cf_write(i, c),
         NEW b \in BlobIds, b = cf_GetBlob(i),
         NEW o, o = next_entry_offset[b]
  PROVE  AfterPut(i, b, o, c)
<1> USE BlobEntriesAssumption, MaxLogAssumption
<1> DEFINE e == cf_GetBlobEntry(i)
           n == Len(c)
<1>1. /\ e \in 0..(BlobEntries - 1) /\ e \in Positions
      /\ n \in 1..MaxSize /\ n \in Nat
      /\ \A k \in 1..n : c[k] \in Cells
  BY IdsInTable, ContentsAreSequences, MaxSizeAssumption DEF Positions, FileEnd
<1>2. /\ status = "open" /\ o + n <= FileEnd
      /\ next_entry_offset' = [next_entry_offset EXCEPT ![b] = o + n]
      /\ file' = [file EXCEPT ![b] = cf_SetEntry(PutBytes(file[b], o, c), i, o, n)]
  BY DEF cf_write, NextOffset
<1>3. o \in BlobEntries..FileEnd
  BY <1>2 DEF IInv, TypeOK, Layout, FileEnd
<1> DEFINE g == [p \in Positions |->
                   IF p = e THEN Entry(o, n)
                   ELSE IF p \in o..(o + n - 1) THEN Cell(c[p - o + 1]) ELSE file[b][p]]
<1>4. cf_SetEntry(PutBytes(file[b], o, c), i, o, n) = g
  <2> DEFINE h == PutBytes(file[b], o, c)
             F == cf_SetEntry(h, i, o, n)
  <2>1. o \in Nat
    BY <1>3
  <2>2. \A p \in Positions : h[p] = IF p \in o..(o + n - 1) THEN Cell(c[p - o + 1]) ELSE file[b][p]
    BY <2>1, AfterPutBytes
  <2> HIDE DEF h
  <2>3. /\ F = [p \in Positions |-> F[p]]
        /\ \A p \in Positions : F[p] = IF p = e THEN Entry(o, n) ELSE h[p]
    BY AfterSetEntry
  <2> HIDE DEF F, e
  <2>4. \A p \in Positions : F[p] = g[p]
    BY <2>2, <2>3
  <2>5. g = [p \in Positions |-> g[p]]
    OBVIOUS
  <2>6. F = g
    BY <2>3, <2>4, <2>5
  <2> QED
    BY <2>6 DEF F, h
<1>5. file' = [file EXCEPT ![b] = g]
  BY <1>2, <1>4
<1>6. \A p \in Positions : g[p] \in Words
  <2> SUFFICES ASSUME NEW p \in Positions PROVE g[p] \in Words
    OBVIOUS
  <2>1. CASE p = e
    BY <1>1, <1>3, <2>1 DEF Words, FileEnd
  <2>2. CASE p # e /\ p \in o..(o + n - 1)
    <3>1. c[p - o + 1] \in Cells
      BY <1>1, <1>3, <2>2
    <3> QED
      BY <2>2, <3>1 DEF Words
  <2>3. CASE p # e /\ p \notin o..(o + n - 1)
    BY <2>3 DEF IInv, TypeOK
  <2> QED
    BY <2>1, <2>2, <2>3
<1>7. g \in [Positions -> Words]
  BY <1>6
<1>8. \A p \in o..(o + n - 1) : p \in Positions /\ p # e /\ g[p] = Cell(c[p - o + 1])
  BY <1>1, <1>2, <1>3 DEF Positions, FileEnd
<1>9. \A p \in Positions : p # e /\ p < o => g[p] = file[b][p]
  BY <1>3 DEF Positions, FileEnd
<1>10. g[e] = Entry(o, n)
  BY <1>1
<1> HIDE DEF g
<1>11. file \in [BlobIds -> [Positions -> Words]]
  BY DEF IInv, TypeOK
<1> QED
  BY <1>2, <1>3, <1>5, <1>7, <1>8, <1>9, <1>10, <1>11 DEF AfterPut

-----------------------------------------------------------------------------
LEMMA WriteInvariant ==
  ASSUME IInv, NEW i \in Ids, NEW c \in Contents, cf_write(i, c)
  PROVE  IInv'
<1> USE BlobEntriesAssumption, MaxLogAssumption
<1> DEFINE b == cf_GetBlob(i)
           n == Len(c)
<1>0. PICK o : o = next_entry_offset[b]
  OBVIOUS
<1>1. /\ b \in BlobIds /\ n \in 1..MaxSize /\ n \in Nat
      /\ \A k \in 1..n : c[k] \in Cells
  BY IdsInTable, ContentsAreSequences, MaxSizeAssumption
<1>a. AfterPut(i, b, o, c)
  BY <1>0, <1>1, AfterWrite
<1>2. /\ o \in BlobEntries..FileEnd /\ o + n <= FileEnd
      /\ next_entry_offset' = [next_entry_offset EXCEPT ![b] = o + n]
      /\ file' \in [BlobIds -> [Positions -> Words]]
      /\ \A d \in BlobIds : d # b => file'[d] = file[d]
      /\ file'[b][cf_GetBlobEntry(i)] = Entry(o, n)
      /\ \A p \in o..(o + n - 1) : p \in Positions /\ file'[b][p] = Cell(c[p - o + 1])
      /\ \A p \in Positions : p # cf_GetBlobEntry(i) /\ p < o => file'[b][p] = file[b][p]
  BY <1>a DEF AfterPut
<1>3. /\ written' = written \cup {i} /\ status = "open"
      /\ UNCHANGED <<status, blobs_num, usable, closings>>
  BY DEF cf_write
<1> HIDE DEF b, n
<1>4. TypeOK'
  BY <1>1, <1>2, <1>3 DEF IInv, TypeOK, FileEnd
<1>5. ASSUME NEW j \in written'
      PROVE  \E p \in 0..FileEnd, m \in 1..MaxSize :
               cf_GetEntry(j)' = Entry(p, m) /\ Extent(j, p, m)'
  <2>1. CASE j = i
    <3>1. cf_GetEntry(j)' = Entry(o, n)
      BY <1>2, <2>1 DEF cf_GetEntry, b
    <3>2. o + n <= next_entry_offset'[b]
      BY <1>1, <1>2 DEF IInv, TypeOK
    <3>3. \A p \in o..(o + n - 1) : \E v \in Cells : file'[b][p] = Cell(v)
      BY <1>1, <1>2
    <3>4. Extent(j, o, n)'
      BY <1>2, <2>1, <3>2, <3>3 DEF Extent, b
    <3> QED
      BY <1>1, <1>2, <3>1, <3>4 DEF FileEnd
  <2>2. CASE j # i
    <3>1. j \in written /\ j \in Ids
      BY <1>3, <2>2 DEF IInv, TypeOK
    <3>2. PICK p \in 0..FileEnd, m \in 1..MaxSize : cf_GetEntry(j) = Entry(p, m) /\ Extent(j, p, m)
      BY <3>1 DEF IInv, Layout
    <3>3. CASE cf_GetBlob(j) # b
      <4>1. /\ file'[cf_GetBlob(j)] = file[cf_GetBlob(j)]
            /\ next_entry_offset'[cf_GetBlob(j)] = next_entry_offset[cf_GetBlob(j)]
        BY <1>2, <3>1, <3>3, IdsInTable DEF IInv, TypeOK
      <4> QED
        BY <3>2, <4>1 DEF cf_GetEntry, Extent
    <3>4. CASE cf_GetBlob(j) = b
      <4>1. cf_GetBlobEntry(j) # cf_GetBlobEntry(i)
        BY <2>2, <3>1, <3>4, EntryOfOneId DEF b
      <4>2. cf_GetBlobEntry(j) \in 0..(BlobEntries - 1) /\ cf_GetBlobEntry(j) \in Positions
        BY <3>1, IdsInTable DEF Positions, FileEnd
      <4>3. cf_GetEntry(j)' = Entry(p, m)
        BY <1>2, <3>2, <3>4, <4>1, <4>2 DEF cf_GetEntry
      <4>4. /\ BlobEntries <= p /\ p + m <= o
            /\ \A q \in p..(p + m - 1) : \E v \in Cells : file[b][q] = Cell(v)
        BY <1>0, <3>2, <3>4 DEF Extent
      <4>5. \A q \in p..(p + m - 1) :
               /\ q \in Positions /\ q # cf_GetBlobEntry(i) /\ q < o
        BY <1>2, <3>2, <4>4, IdsInTable, MaxSizeAssumption DEF Positions, FileEnd
      <4>6. \A q \in p..(p + m - 1) : \E v \in Cells : file'[b][q] = Cell(v)
        BY <1>2, <4>4, <4>5
      <4>7. p + m <= next_entry_offset'[b]
        BY <1>1, <1>2, <3>2, <4>4, MaxSizeAssumption DEF IInv, TypeOK, FileEnd
      <4> QED
        BY <3>2, <3>4, <4>3, <4>4, <4>6, <4>7 DEF Extent
    <3> QED
      BY <3>3, <3>4
  <2> QED
    BY <2>1, <2>2
<1>6. \A d \in BlobIds : next_entry_offset'[d] >= BlobEntries
  BY <1>1, <1>2, <1>3 DEF IInv, TypeOK, Layout, FileEnd
<1>7. Layout'
  BY <1>5, <1>6 DEF Layout
<1>8. ClosedOnce' /\ NumOK'
  BY <1>3 DEF IInv, ClosedOnce, NumOK
<1> QED
  BY <1>4, <1>7, <1>8 DEF IInv

LEMMA NextInvariant == IInv /\ [Next]_vars => IInv'
<1> SUFFICES ASSUME IInv, [Next]_vars PROVE IInv'
  OBVIOUS
<1> USE BlobsAssumption, BlobEntriesAssumption, MaxLogAssumption
<1>1. ASSUME NEW opened \in SUBSET BlobIds, cf_open(opened) PROVE IInv'
  <2>1. TypeOK'
    BY <1>1 DEF cf_open, TypeOK, Words, FileEnd
  <2>2. Layout' /\ ClosedOnce' /\ NumOK'
    BY <1>1 DEF cf_open, Layout, ClosedOnce, NumOK
  <2> QED
    BY <2>1, <2>2 DEF IInv
<1>2. ASSUME NEW i \in Ids, NEW c \in Contents, cf_write(i, c) PROVE IInv'
  BY <1>2, WriteInvariant
<1>3. ASSUME NEW i \in Ids, cf_read(i) PROVE IInv'
  BY <1>3 DEF cf_read, IInv, TypeOK, Layout, Extent, cf_GetEntry, ClosedOnce, NumOK
<1>4. ASSUME cf_close PROVE IInv'
  BY <1>4 DEF cf_close, CloseBlobs, BlobsLeft, IInv, TypeOK, Layout, ClosedOnce,
              NumOK, BlobIds
<1>5. ASSUME cf_free PROVE IInv'
  BY <1>5 DEF cf_free, CloseBlobs, BlobsLeft, IInv, TypeOK, Layout, ClosedOnce,
              NumOK, BlobIds
<1>6. ASSUME cf_Create PROVE IInv'
  BY <1>6 DEF cf_Create, IInv, TypeOK, Layout, ClosedOnce, NumOK
<1>7. ASSUME UNCHANGED vars PROVE IInv'
  BY <1>7 DEF vars, IInv, TypeOK, Layout, Extent, cf_GetEntry, ClosedOnce, NumOK
<1> QED
  BY <1>1, <1>2, <1>3, <1>4, <1>5, <1>6, <1>7 DEF Next

(* The layout of the files holds through every order of writes, openings   *)
(* and closings, for every number of blobs and of entries in a blob.       *)
THEOREM Invariance == Spec => []IInv
<1> QED
  BY InitInvariant, NextInvariant, PTL DEF Spec

(* No bytes are written over a table entry or over the bytes of a chunk. *)
THEOREM LayoutCorrect == Spec => []Layout
<1>1. IInv => Layout
  BY DEF IInv
<1> QED
  BY Invariance, <1>1, PTL

(* mem_Close closes every file once, though it calls cf_close twice. *)
THEOREM FilesClosedOnce == Spec => []ClosedOnce
<1>1. IInv => ClosedOnce
  BY DEF IInv
<1> QED
  BY Invariance, <1>1, PTL

-----------------------------------------------------------------------------
(* A chunk that was written has bytes. *)
LEMMA WrittenHasBytes ==
  ASSUME IInv, NEW j \in written
  PROVE  Kept[j] = Bytes(j) /\ Kept[j] # NoBytes
<1>1. j \in Ids
  BY DEF IInv, TypeOK
<1>2. PICK p \in 0..FileEnd, m \in 1..MaxSize : cf_GetEntry(j) = Entry(p, m)
  BY DEF IInv, Layout
<1>3. cf_GetEntry(j)[3] = m
  BY <1>2 DEF Entry
<1>4. DOMAIN Bytes(j) = 1..m
  BY <1>3 DEF Bytes
<1>5. Bytes(j) # NoBytes
  BY <1>4, MaxSizeAssumption DEF NoBytes
<1> QED
  BY <1>1, <1>5 DEF Kept

(* A write changes the bytes of the chunk it writes, and of no other. *)
LEMMA WriteKept ==
  ASSUME IInv, NEW i \in Ids, NEW c \in Contents, cf_write(i, c)
  PROVE  Kept' = [Kept EXCEPT ![i] = c]
<1> USE BlobEntriesAssumption, MaxLogAssumption
<1> DEFINE n == Len(c)
<1>0. PICK b, o : b = cf_GetBlob(i) /\ o = next_entry_offset[b]
  OBVIOUS
<1>1. b \in BlobIds /\ n \in 1..MaxSize /\ n \in Nat /\ DOMAIN c = 1..n
  BY <1>0, IdsInTable, ContentsAreSequences, MaxSizeAssumption
<1>a. AfterPut(i, b, o, c)
  BY <1>0, <1>1, AfterWrite
<1>2. /\ o \in BlobEntries..FileEnd /\ o + n <= FileEnd
      /\ \A d \in BlobIds : d # b => file'[d] = file[d]
      /\ file'[b][cf_GetBlobEntry(i)] = Entry(o, n)
      /\ \A p \in o..(o + n - 1) : p \in Positions /\ file'[b][p] = Cell(c[p - o + 1])
      /\ \A p \in Positions : p # cf_GetBlobEntry(i) /\ p < o => file'[b][p] = file[b][p]
  BY <1>a DEF AfterPut
<1>3. written' = written \cup {i}
  BY DEF cf_write
<1> HIDE DEF n
<1>4. Bytes(i)' = c
  <2>1. cf_GetEntry(i)' = Entry(o, n)
    BY <1>0, <1>2 DEF cf_GetEntry
  <2>2. cf_GetEntry(i)'[2] = o /\ cf_GetEntry(i)'[3] = n
    BY <2>1 DEF Entry
  <2>3. Bytes(i)' = [k \in 1..n |-> file'[b][o + k - 1][2]]
    BY <1>0, <2>2 DEF Bytes
  <2>4. ASSUME NEW k \in 1..n PROVE file'[b][o + k - 1][2] = c[k]
    <3>1. o + k - 1 \in o..(o + n - 1) /\ (o + k - 1) - o + 1 = k
      BY <1>1, <1>2 DEF FileEnd
    <3>2. file'[b][o + k - 1] = Cell(c[k])
      BY <1>2, <3>1
    <3> QED
      BY <3>2 DEF Cell
  <2>5. c = [k \in 1..n |-> c[k]]
    BY <1>1 DEF Contents
  <2> QED
    BY <2>3, <2>4, <2>5
<1>5. ASSUME NEW j \in written, j # i PROVE Bytes(j)' = Bytes(j)
  <2>1. j \in Ids
    BY DEF IInv, TypeOK
  <2>2. PICK p \in 0..FileEnd, m \in 1..MaxSize : cf_GetEntry(j) = Entry(p, m) /\ Extent(j, p, m)
    BY DEF IInv, Layout
  <2> DEFINE d == cf_GetBlob(j)
  <2>3. cf_GetBlobEntry(j) \in 0..(BlobEntries - 1) /\ cf_GetBlobEntry(j) \in Positions /\ d \in BlobIds
    BY <2>1, IdsInTable DEF Positions, FileEnd
  <2>4. cf_GetEntry(j)' = Entry(p, m) /\ \A q \in p..(p + m - 1) : file'[d][q] = file[d][q]
    <3>1. CASE d # b
      BY <1>2, <2>2, <2>3, <3>1 DEF cf_GetEntry
    <3>2. CASE d = b
      <4>1. cf_GetBlobEntry(j) # cf_GetBlobEntry(i)
        BY <1>0, <1>5, <2>1, <3>2, EntryOfOneId
      <4>2. cf_GetEntry(j)' = Entry(p, m)
        BY <1>2, <2>2, <2>3, <3>2, <4>1 DEF cf_GetEntry
      <4>3. BlobEntries <= p /\ p + m <= o
        BY <1>0, <2>2, <3>2 DEF Extent
      <4>4. \A q \in p..(p + m - 1) : q \in Positions /\ q # cf_GetBlobEntry(i) /\ q < o
        BY <1>2, <2>2, <4>3, IdsInTable, MaxSizeAssumption DEF Positions, FileEnd
      <4> QED
        BY <1>2, <3>2, <4>2, <4>4
    <3> QED
      BY <3>1, <3>2
  <2>5. /\ cf_GetEntry(j)[2] = p /\ cf_GetEntry(j)[3] = m
        /\ cf_GetEntry(j)'[2] = p /\ cf_GetEntry(j)'[3] = m
    BY <2>2, <2>4 DEF Entry
  <2>6. /\ Bytes(j) = [k \in 1..m |-> file[d][p + k - 1][2]]
        /\ Bytes(j)' = [k \in 1..m |-> file'[d][p + k - 1][2]]
    BY <2>5 DEF Bytes
  <2>7. \A k \in 1..m : file'[d][p + k - 1][2] = file[d][p + k - 1][2]
    <3>1. \A k \in 1..m : p + k - 1 \in p..(p + m - 1)
      BY <2>2, MaxSizeAssumption DEF FileEnd
    <3> QED
      BY <2>4, <3>1
  <2> HIDE DEF d
  <2> QED
    BY <2>6, <2>7
<1> DEFINE D == [Kept EXCEPT ![i] = c]
<1>6. ASSUME NEW j \in Ids PROVE Kept'[j] = D[j]
  BY <1>3, <1>4, <1>5 DEF Kept
<1>7. Kept' = [j \in Ids |-> Kept'[j]]
  BY DEF Kept
<1>8. D = [j \in Ids |-> D[j]]
  <2>1. DOMAIN Kept = Ids
    BY DEF Kept
  <2> QED
    BY <2>1
<1> QED
  BY <1>6, <1>7, <1>8

(* The instance of module CacheStore speaks of the same bytes and calls. *)
LEMMA SameWords ==
  /\ S!NoBytes = NoBytes /\ S!NoCall = NoCall /\ S!Contents = Contents
  /\ \A op, i, c : S!Call(op, i, c) = Call(op, i, c)
  BY DEF S!NoBytes, NoBytes, S!NoCall, NoCall, S!Contents, Contents, S!Call, Call

(* Every step of the file store is a step of the store. *)
LEMMA StepRefines == IInv /\ [Next]_vars => [S!Next]_<<Kept, call>>
<1> SUFFICES ASSUME IInv, [Next]_vars PROVE [S!Next]_<<Kept, call>>
  OBVIOUS
<1> USE SameWords
<1>1. ASSUME NEW opened \in SUBSET BlobIds, cf_open(opened) PROVE S!Next
  <2>1. Kept' = [i \in Ids |-> NoBytes] /\ call' = Call("open", 0, NoBytes)
    BY <1>1 DEF cf_open, Kept
  <2> QED
    BY <2>1 DEF S!Next, S!Open
<1>2. ASSUME NEW i \in Ids, NEW c \in Contents, cf_write(i, c) PROVE S!Next
  <2>1. S!Write(i, c)
    BY <1>2, WriteKept DEF cf_write, S!Write
  <2> QED
    BY <2>1 DEF S!Next
<1>3. ASSUME NEW i \in Ids, cf_read(i) PROVE S!Next
  <2>1. /\ i \in written /\ call' = Call("read", i, Bytes(i))
        /\ UNCHANGED <<file, written>>
    BY <1>3 DEF cf_read
  <2>2. Kept' = Kept
    BY <2>1 DEF Kept, Bytes, cf_GetEntry
  <2>3. S!Read(i)
    BY <2>1, <2>2, WrittenHasBytes DEF S!Read
  <2> QED
    BY <2>3 DEF S!Next
<1>4. ASSUME cf_close \/ cf_free \/ cf_Create PROVE S!Next
  <2>1. written' = {} /\ call' = Call("close", 0, NoBytes)
    BY <1>4 DEF cf_close, cf_free, cf_Create, IInv, NumOK
  <2>2. Kept' = [i \in Ids |-> NoBytes]
    BY <2>1 DEF Kept
  <2> QED
    BY <2>1, <2>2 DEF S!Next, S!Close
<1>5. ASSUME UNCHANGED vars PROVE UNCHANGED <<Kept, call>>
  BY <1>5 DEF vars, Kept, Bytes, cf_GetEntry
<1> QED
  BY <1>1, <1>2, <1>3, <1>4, <1>5 DEF Next

(* The file store is a store: it returns for a chunk the bytes last        *)
(* written for it, however often it and the others were written.           *)
THEOREM FileIsStore == Spec => IsStore
<1>1. Init => S!Init
  BY SameWords DEF Init, S!Init, Kept
<1> QED
  BY <1>1, InitInvariant, NextInvariant, StepRefines, PTL DEF Spec, IsStore, S!Spec
=============================================================================
