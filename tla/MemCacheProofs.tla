--------------------------- MODULE MemCacheProofs ---------------------------
(***************************************************************************)
(* Proofs about the caching memory manager, for every length of the chunk  *)
(* table, every size of a chunk and every depth of the lock stack, with    *)
(* and without a store behind it.                                          *)
(***************************************************************************)
EXTENDS MemCache, SequenceTheorems, WellFoundedInduction, TLAPS

(* Bytes are never mistaken for the absence of bytes. *)
LEMMA BytesAreBytes ==
  ASSUME NEW c \in Contents
  PROVE  c # NoBytes
<1>1. PICK n \in 1..MaxSize : c \in [1..n -> Cells]
  BY DEF Contents
<1>2. 1 \in DOMAIN c
  BY <1>1, MaxSizeAssumption
<1> QED
  BY <1>2 DEF NoBytes

(* Reading a chunk back: afterwards it is in memory, and no other chunk is *)
(* touched.                                                                *)
LEMMA ReadBack ==
  ASSUME IInv, phase = "open", NEW i \in live
  PROVE  /\ i \in Ids
         /\ ReadEntry(i) \in [Ids -> Ids \cup {Address, ChainEnd}]
         /\ ReadEntry(i)[i] = Address
         /\ \A j \in Ids : j # i => ReadEntry(i)[j] = entry[j]
         /\ ReadBuf(i) \in [Ids -> Contents \cup {NoBytes}]
         /\ ReadBuf(i)[i] \in Contents
         /\ \A j \in Ids : j # i => ReadBuf(i)[j] = buf[j]
  BY DEF IInv, TypeOK, TableOK, ReadEntry, ReadBuf, MustRead

(* Steps that leave the words of the free entries alone leave the free     *)
(* chain alone.                                                            *)
LEMMA SameChain ==
  ASSUME IInv, phase' = phase, chunks_top' = chunks_top, live' = live,
         chain' = chain, \A j \in Ids \ live : entry'[j] = entry[j]
  PROVE  ChainOK'
  BY DEF IInv, ChainOK, IsFree, Link

(* Steps that leave the lock stack alone and keep what is in memory there. *)
LEMMA SameLocks ==
  ASSUME IInv, phase = "open", UNCHANGED <<phase, locks, stale>>,
         Held \subseteq live',
         \A j \in Locked \cap live' : entry'[j] = Address
  PROVE  PhaseOK' /\ LockedResident'
<1>1. Held' = Held /\ Locked' = Locked
  BY DEF Held, Locked
<1> QED
  BY <1>1 DEF IInv, PhaseOK, LockedResident

LEMMA InitInvariant == Init => IInv
<1> SUFFICES ASSUME Init PROVE IInv
  OBVIOUS
<1> USE MaxIdsAssumption DEF Init
<1>1. TypeOK
  BY DEF TypeOK, Ids, ChainEnd, Address
<1>2. Held = {} /\ Locked = {}
  BY DEF Held, Locked
<1>3. PhaseOK /\ LockedResident
  BY <1>2 DEF PhaseOK, LockedResident
<1>4. TableOK
  BY DEF TableOK, Ids, Address
<1>5. ChainOK
  BY DEF ChainOK, IsFree, Link, Ids, ChainEnd
<1> QED
  BY <1>1, <1>3, <1>4, <1>5 DEF IInv

(* A call that reads the chunks of T back, puts bytes into them, or locks  *)
(* one of them.                                                            *)
LEMMA TouchInvariant ==
  ASSUME IInv, phase = "open", NEW T \in SUBSET live,
         UNCHANGED <<phase, chunks_top, chain, saved, live>>,
         entry' \in [Ids -> Ids \cup {Address, ChainEnd}],
         buf' \in [Ids -> Contents \cup {NoBytes}],
         \A j \in T : entry'[j] = Address /\ buf'[j] \in Contents,
         \A j \in Ids \ T : entry'[j] = entry[j] /\ buf'[j] = buf[j],
         \/ locks' = locks /\ stale \subseteq stale' /\ stale' \subseteq DOMAIN locks
         \/ stale' = stale /\ \E i \in T : locks' = Append(locks, i)
  PROVE  IInv'
<1>1. T \subseteq Ids /\ live \subseteq Ids
  BY DEF IInv, TypeOK
<1>0. /\ locks' \in Seq(Ids) /\ DOMAIN locks \subseteq DOMAIN locks'
      /\ stale' \in SUBSET DOMAIN locks'
      /\ Held' \subseteq Held \cup T /\ Locked' \subseteq Locked \cup T
  <2>1. locks \in Seq(Ids) /\ stale \subseteq DOMAIN locks
    BY DEF IInv, TypeOK
  <2>2. CASE locks' = locks /\ stale \subseteq stale' /\ stale' \subseteq DOMAIN locks
    BY <2>1, <2>2 DEF Held, Locked
  <2>3. CASE stale' = stale /\ \E i \in T : locks' = Append(locks, i)
    <3>1. PICK i \in T : locks' = Append(locks, i)
      BY <2>3
    <3> DEFINE n == Len(locks)
    <3>2. /\ locks' \in Seq(Ids) /\ n \in Nat
          /\ DOMAIN locks = 1..n /\ DOMAIN locks' = 1..(n + 1)
          /\ \A k \in 1..n : locks'[k] = locks[k]
          /\ locks'[n + 1] = i
      BY <1>1, <2>1, <3>1
    <3> HIDE DEF n
    <3>3. stale' = stale /\ stale \subseteq 1..n
      BY <2>1, <2>3, <3>2
    <3>4. \A k \in 1..(n + 1) : k \in 1..n \/ k = n + 1
      BY <3>2
    <3> QED
      BY <3>2, <3>3, <3>4 DEF Held, Locked
  <2> QED
    BY <2>2, <2>3
<1>2. TypeOK'
  BY <1>0, <1>1 DEF IInv, TypeOK
<1>4. PhaseOK' /\ LockedResident'
  BY <1>0, <1>1 DEF IInv, PhaseOK, LockedResident
<1>5. TableOK'
  <2>1. chunks_top > 0 => 0 \in live
    BY DEF IInv, TableOK
  <2>2. ASSUME NEW j \in live
        PROVE  /\ j < chunks_top
               /\ entry'[j] \in {Address, Evicted}
               /\ entry'[j] = Address => buf'[j] \in Contents
               /\ entry'[j] = Evicted => UseCache /\ j # 0 /\ saved[j] \in Contents
    BY <1>1 DEF IInv, TableOK, Evicted, Address
  <2>3. \A j \in Ids \ live : entry'[j] # Address
    BY DEF IInv, TableOK
  <2>4. \A j \in Ids : j >= chunks_top => entry'[j] = 0
    BY <1>1 DEF IInv, TypeOK, TableOK, Ids
  <2> QED
    BY <2>1, <2>2, <2>3, <2>4 DEF TableOK
<1>6. ChainOK'
  BY SameChain
<1> QED
  BY <1>2, <1>4, <1>5, <1>6 DEF IInv

(* The same for one chunk i, whose bytes become c. *)
LEMMA TouchOne ==
  ASSUME IInv, phase = "open", NEW i \in live, NEW c \in Contents,
         UNCHANGED <<phase, chunks_top, chain, saved, live>>,
         entry' = ReadEntry(i),
         buf' = [ReadBuf(i) EXCEPT ![i] = c],
         \/ locks' = locks /\ stale \subseteq stale' /\ stale' \subseteq DOMAIN locks
         \/ stale' = stale /\ locks' = Append(locks, i)
  PROVE  IInv'
<1>1. /\ entry' \in [Ids -> Ids \cup {Address, ChainEnd}]
      /\ buf' \in [Ids -> Contents \cup {NoBytes}]
      /\ i \in Ids /\ entry'[i] = Address /\ buf'[i] \in Contents
  BY ReadBack
<1>2. \A j \in Ids : j # i => entry'[j] = entry[j] /\ buf'[j] = buf[j]
  BY ReadBack
<1>3. {i} \in SUBSET live /\ \A j \in Ids \ {i} : entry'[j] = entry[j] /\ buf'[j] = buf[j]
  BY <1>2
<1> QED
  BY <1>1, <1>3, TouchInvariant

(* The id mem_AddChunk returns names no chunk, and the chain it leaves     *)
(* does not lead to that id.                                               *)
LEMMA FreshId ==
  ASSUME IInv, phase = "open", NextId < MaxIds
  PROVE  /\ NextId \in Ids \ live
         /\ chain # ChainEnd => NextChain = entry[chain] /\ IsFree(chain)
         /\ chain = ChainEnd => NextId = chunks_top /\ NextChain = ChainEnd
         /\ NextChain \in Ids \cup {ChainEnd} /\ NextChain # NextId
         /\ NextChain # ChainEnd => NextChain # 0 /\ IsFree(NextChain)
<1> USE MaxIdsAssumption
<1>1. CASE chain = ChainEnd
  <2>1. NextId \notin live
    BY <1>1 DEF IInv, TypeOK, TableOK, NextId
  <2> QED
    BY <1>1, <2>1 DEF IInv, TypeOK, NextId, NextChain, Ids, ChainEnd
<1>2. CASE chain # ChainEnd
  <2>1. chain \in Ids /\ IsFree(chain) /\ chain # 0
    BY <1>2 DEF IInv, TypeOK, ChainOK
  <2>2. entry[chain] # 0 /\ entry[chain] \in Ids \cup {ChainEnd}
    BY <2>1 DEF IInv, TypeOK, TableOK, IsFree, Evicted
  <2>3. NextId = chain /\ NextChain = entry[chain]
    BY <1>2, <2>2 DEF NextId, NextChain
  <2>4. entry[chain] # ChainEnd => entry[chain] # chain /\ IsFree(entry[chain])
    BY <2>1, <2>2 DEF IInv, ChainOK, Link
  <2> QED
    BY <1>2, <2>1, <2>2, <2>3, <2>4 DEF IsFree
<1> QED
  BY <1>1, <1>2

(* mem_AddChunk, called with a table (e, b) that differs from the present  *)
(* one at most in a chunk that was read back.                              *)
LEMMA AddInvariant ==
  ASSUME IInv, phase = "open", NEW c \in Contents,
         NEW e \in [Ids -> Ids \cup {Address, ChainEnd}],
         NEW b \in [Ids -> Contents \cup {NoBytes}],
         \A j \in Ids : e[j] = entry[j] \/ (j \in live /\ e[j] = Address),
         \A j \in live : e[j] = Address => b[j] \in Contents,
         AddChunk(c, e, b),
         UNCHANGED <<phase, locks, stale, saved>>
  PROVE  IInv'
<1> USE MaxIdsAssumption
<1> DEFINE n == NextId
           m == NextChain
<1>1. /\ n \in Ids \ live
      /\ chain # ChainEnd => m = entry[chain] /\ IsFree(chain) /\ n = chain
      /\ chain = ChainEnd => n = chunks_top /\ m = ChainEnd
      /\ m \in Ids \cup {ChainEnd} /\ m # n
      /\ m # ChainEnd => m # 0 /\ IsFree(m)
  BY FreshId DEF AddChunk, NextId
<1>2. /\ entry' = [e EXCEPT ![n] = Address]
      /\ buf' = [b EXCEPT ![n] = c]
      /\ chain' = m
      /\ chunks_top' = IF chain = ChainEnd THEN chunks_top + 1 ELSE chunks_top
      /\ live' = live \cup {n}
      /\ n < MaxIds
  BY DEF AddChunk
<1> HIDE DEF n, m
<1>3. chunks_top' \in 0..MaxIds /\ chunks_top' >= chunks_top /\ n < chunks_top'
  <2>1. chunks_top \in 0..MaxIds
    BY DEF IInv, TypeOK
  <2>2. CASE chain = ChainEnd
    BY <1>1, <1>2, <2>1, <2>2
  <2>3. CASE chain # ChainEnd
    BY <1>1, <1>2, <2>1, <2>3 DEF IsFree
  <2> QED
    BY <2>2, <2>3
<1>4. TypeOK'
  BY <1>1, <1>2, <1>3 DEF IInv, TypeOK
<1>5. PhaseOK' /\ LockedResident'
  <2>1. Held \subseteq live'
    BY <1>1, <1>2 DEF IInv, LockedResident
  <2>2. \A j \in Locked \cap live' : entry'[j] = Address
    BY <1>1, <1>2 DEF IInv, TypeOK, LockedResident
  <2> QED
    BY <2>1, <2>2, SameLocks
<1>6. TableOK'
  <2>1. 0 \in live'
    <3>1. CASE chunks_top > 0
      BY <1>2, <3>1 DEF IInv, TableOK
    <3>2. CASE chunks_top = 0
      BY <1>1, <1>2, <3>2 DEF IInv, TypeOK, IsFree, Ids
    <3> QED
      BY <3>1, <3>2 DEF IInv, TypeOK
  <2>2. ASSUME NEW j \in live'
        PROVE  /\ j < chunks_top'
               /\ entry'[j] \in {Address, Evicted}
               /\ entry'[j] = Address => buf'[j] \in Contents
               /\ entry'[j] = Evicted => UseCache /\ j # 0 /\ saved'[j] \in Contents
    <3>1. CASE j = n
      BY <1>1, <1>2, <1>3, <3>1 DEF Address, Evicted
    <3>2. CASE j # n
      <4>1. j \in live /\ j \in Ids /\ entry'[j] = e[j] /\ buf'[j] = b[j]
        BY <1>1, <1>2, <3>2 DEF IInv, TypeOK
      <4>2. j < chunks_top'
        BY <1>3, <4>1 DEF IInv, TypeOK, TableOK, Ids
      <4>3. entry'[j] = entry[j] \/ entry'[j] = Address
        BY <4>1
      <4> QED
        BY <4>1, <4>2, <4>3 DEF IInv, TableOK, Address, Evicted
    <3> QED
      BY <3>1, <3>2
  <2>3. \A j \in Ids \ live' : entry'[j] # Address
    BY <1>1, <1>2 DEF IInv, TableOK
  <2>4. ASSUME NEW j \in Ids, j >= chunks_top'
        PROVE  entry'[j] = 0
    <3>1. j # n /\ j >= chunks_top
      BY <1>1, <1>3, <2>4 DEF Ids, IInv, TypeOK
    <3>2. j \notin live
      BY <3>1 DEF IInv, TableOK, TypeOK, Ids
    <3> QED
      BY <1>2, <3>1, <3>2 DEF IInv, TableOK
  <2> QED
    BY <2>1, <2>2, <2>3, <2>4 DEF TableOK
<1>7. ChainOK'
  <2>1. ASSUME NEW j \in Ids, IsFree(j)'
        PROVE  IsFree(j) /\ j # n /\ entry'[j] = entry[j]
    <3>1. j \notin live /\ j # n /\ entry'[j] = entry[j]
      BY <1>2, <2>1 DEF IsFree
    <3>2. j < chunks_top
      BY <3>1, <2>1, <1>1, <1>2 DEF IsFree, IInv, TypeOK, Ids
    <3> QED
      BY <3>1, <3>2, <2>1 DEF IsFree
  <2>2. ASSUME NEW j \in Ids, IsFree(j), j # n
        PROVE  IsFree(j)' /\ entry'[j] = entry[j]
    <3>1. j \notin live' /\ entry'[j] = entry[j]
      BY <1>2, <2>2 DEF IsFree
    <3>2. j < chunks_top'
      BY <1>3, <2>2 DEF IsFree, IInv, TypeOK, Ids
    <3> QED
      BY <3>1, <3>2, <2>2 DEF IsFree
  <2>3. chain' # ChainEnd => chain' # 0 /\ IsFree(chain)'
    BY <1>1, <1>2, <2>2
  <2>4. ASSUME NEW i \in Ids, NEW j \in Ids, Link(i, j)'
        PROVE  /\ j # chain' /\ IsFree(j)'
               /\ \A k \in Ids : Link(k, j)' => k = i
    <3>1. Link(i, j) /\ i # n
      BY <2>1, <2>4 DEF Link
    <3>2. j # chain /\ IsFree(j) /\ \A k \in Ids : Link(k, j) => k = i
      BY <3>1 DEF IInv, ChainOK
    <3>3. j # n
      BY <3>2, <1>1 DEF IsFree, IInv, TypeOK, Ids
    <3>4. j # m
      BY <3>1, <3>2, <1>1 DEF Link, Ids, ChainEnd
    <3>5. \A k \in Ids : Link(k, j)' => Link(k, j)
      BY <2>1 DEF Link
    <3> QED
      BY <3>2, <3>3, <3>4, <3>5, <2>2, <1>2
  <2> QED
    BY <2>3, <2>4 DEF ChainOK
<1> QED
  BY <1>4, <1>5, <1>6, <1>7 DEF IInv

(* mem_free: the entry becomes the head of the free chain, unless the      *)
(* chunk is evicted, when it stays as it is.                               *)
LEMMA ReleaseInvariant ==
  ASSUME IInv, phase = "open", NEW i \in live,
         Release(i), Spoil(i),
         (phase' = "open" /\ i # 0) \/ (phase' = "closing" /\ locks = << >>),
         UNCHANGED <<chunks_top, locks, saved>>
  PROVE  IInv'
<1>0. /\ Held' = Held \ {i} /\ Locked' = Locked
      /\ stale' \in SUBSET DOMAIN locks
  BY DEF Held, Locked, Spoil, IInv, TypeOK
<1>1. /\ i \in Ids /\ i < chunks_top
      /\ entry[i] \in {Address, Evicted}
      /\ live' = live \ {i}
  BY DEF IInv, TypeOK, TableOK, Release
<1>2. CASE entry[i] = Address
  <2>1. /\ entry' = [entry EXCEPT ![i] = chain]
        /\ buf' = [buf EXCEPT ![i] = NoBytes]
        /\ chain' = i
    BY <1>1, <1>2 DEF Release, Address
  <2>2. TypeOK'
    BY <1>0, <1>1, <2>1 DEF IInv, TypeOK
  <2>3. Held' \subseteq Held \ {i} /\ Held \subseteq live
    BY <1>0 DEF IInv, LockedResident
  <2>4. PhaseOK' /\ LockedResident'
    BY <1>0, <1>1, <2>1, <2>3 DEF IInv, TypeOK, PhaseOK, LockedResident
  <2>5. TableOK'
    <3>1. chain # Address
      BY DEF IInv, TypeOK, Ids, ChainEnd, Address
    <3> QED
      BY <1>1, <2>1, <3>1 DEF IInv, TypeOK, TableOK, Ids
  <2>6. ASSUME phase' = "open" PROVE ChainOK'
    <3>1. chain \in Ids \cup {ChainEnd} /\ i # 0
      BY <2>6 DEF IInv, TypeOK
    <3>2. chain # ChainEnd => chain # 0 /\ IsFree(chain)
      BY DEF IInv, ChainOK
    <3>3. IsFree(i)'
      BY <1>1, <2>1, <3>1, <3>2 DEF IsFree, IInv, TypeOK, ChainEnd, Evicted
    <3>4. \A j \in Ids : j # i => entry'[j] = entry[j] /\ (IsFree(j)' <=> IsFree(j))
      BY <1>1, <2>1 DEF IsFree, IInv, TypeOK
    <3>5. entry'[i] = chain
      BY <1>1, <2>1 DEF IInv, TypeOK
    <3>6. ASSUME NEW h \in Ids, NEW j \in Ids, Link(h, j)'
          PROVE  /\ j # chain' /\ IsFree(j)'
                 /\ \A k \in Ids : Link(k, j)' => k = h
      <4>1. CASE h = i
        <5>1. j = chain /\ IsFree(j) /\ j # i
          BY <3>2, <3>5, <3>6, <4>1 DEF Link, IsFree, Ids, ChainEnd
        <5>2. ASSUME NEW k \in Ids, Link(k, j)', k # i PROVE FALSE
          BY <3>4, <5>1, <5>2 DEF Link, IInv, ChainOK
        <5> QED
          BY <2>1, <3>4, <4>1, <5>1, <5>2
      <4>2. CASE h # i
        <5>1. Link(h, j)
          BY <3>4, <3>6, <4>2 DEF Link
        <5>2. j # chain /\ IsFree(j) /\ \A k \in Ids : Link(k, j) => k = h
          BY <5>1 DEF IInv, ChainOK
        <5>3. j # i
          BY <5>2 DEF IsFree
        <5>4. \A k \in Ids : Link(k, j)' => Link(k, j)
          BY <3>4, <3>5, <5>2 DEF Link
        <5> QED
          BY <2>1, <3>4, <5>2, <5>3, <5>4
      <4> QED
        BY <4>1, <4>2
    <3>7. chain' = i /\ i # 0
      BY <2>1, <3>1
    <3> QED
      BY <3>3, <3>6, <3>7 DEF ChainOK
  <2>7. ChainOK'
    BY <2>6 DEF ChainOK
  <2> QED
    BY <2>2, <2>4, <2>5, <2>7 DEF IInv
<1>3. CASE entry[i] = Evicted
  <2>1. UNCHANGED <<entry, buf, chain>> /\ i # 0
    BY <1>1, <1>3 DEF Release, Evicted, IInv, TableOK
  <2>2. TypeOK'
    BY <1>0, <1>1, <2>1 DEF IInv, TypeOK
  <2>3. Held' \subseteq Held \ {i} /\ Held \subseteq live
    BY <1>0 DEF IInv, LockedResident
  <2>4. PhaseOK' /\ LockedResident'
    BY <1>0, <1>1, <2>1, <2>3 DEF IInv, PhaseOK, LockedResident
  <2>5. TableOK'
    BY <1>1, <1>3, <2>1 DEF IInv, TableOK, Evicted, Address
  <2>6. \A j \in Ids : IsFree(j)' <=> IsFree(j)
    BY <1>1, <1>3, <2>1 DEF IsFree
  <2>7. ChainOK'
    BY <2>1, <2>6 DEF IInv, TypeOK, ChainOK, Link
  <2> QED
    BY <2>2, <2>4, <2>5, <2>7 DEF IInv
<1> QED
  BY <1>1, <1>2, <1>3

(* mem_unlock: a chunk it evicts is not one that an outer frame holds. *)
LEMMA UnlockInvariant ==
  ASSUME IInv, NEW is_dirty \in BOOLEAN, Unlock(is_dirty)
  PROVE  IInv'
<1> DEFINE n == Len(locks)
           i == locks[n]
<1>1. /\ locks \in Seq(Ids) /\ n \in Nat /\ n > 0
      /\ locks' = SubSeq(locks, 1, n - 1) /\ stale' = stale \ {n}
      /\ i \in Ids /\ i \in Locked /\ (is_dirty => i \in live)
  BY DEF Unlock, IInv, TypeOK, Locked
<1>2. phase = "open" /\ UNCHANGED <<phase, chunks_top, chain, live>>
  BY DEF Unlock
<1>3. /\ locks' \in Seq(Ids)
      /\ Len(locks') = n - 1
      /\ \A k \in 1..(n - 1) : locks'[k] = locks[k]
  <2>1. \A k \in 1..(n - 1) : locks[k] \in Ids
    BY <1>1
  <2> HIDE DEF n
  <2>2. /\ SubSeq(locks, 1, n - 1) \in Seq(Ids)
        /\ Len(SubSeq(locks, 1, n - 1)) = n - 1
        /\ \A k \in 1..(n - 1) : SubSeq(locks, 1, n - 1)[k] = locks[k]
    BY <1>1, <2>1, SubSeqProperties
  <2> QED
    BY <1>1, <2>2
<1>4. /\ stale' \in SUBSET DOMAIN locks'
      /\ Held' \subseteq Held /\ Locked' \subseteq Locked
      /\ i \in Locked' => StillLocked(i)
  <2>1. /\ DOMAIN locks' = 1..(n - 1) /\ DOMAIN locks = 1..n
        /\ stale \subseteq DOMAIN locks
    BY <1>1, <1>3 DEF IInv, TypeOK
  <2> HIDE DEF n, i
  <2>2. stale' \in SUBSET DOMAIN locks' /\ Held' \subseteq Held
    BY <1>1, <1>3, <2>1 DEF Held
  <2>3. ASSUME NEW j \in Locked'
        PROVE  j \in Locked /\ \E k \in 1..(n - 1) : locks[k] = j
    BY <1>1, <1>3, <2>1, <2>3 DEF Locked
  <2> QED
    BY <2>2, <2>3 DEF StillLocked, n, i
<1>5. ASSUME Evicts(i, is_dirty)
      PROVE  i \in live /\ entry[i] = Address /\ buf[i] \in Contents
  BY <1>1, <1>2, <1>5 DEF Evicts, IInv, TypeOK, LockedResident, TableOK
<1>6. CASE Evicts(i, is_dirty)
  <2>1. /\ saved' = [saved EXCEPT ![i] = buf[i]]
        /\ entry' = [entry EXCEPT ![i] = Evicted]
        /\ buf' = [buf EXCEPT ![i] = NoBytes]
    BY <1>6 DEF Unlock, WriteBack
  <2>2. i # 0 /\ UseCache /\ i \notin Locked'
    BY <1>4, <1>6 DEF Evicts
  <2>3. TypeOK'
    <3>1. Evicted \in Ids
      BY MaxIdsAssumption DEF Ids, Evicted
    <3> QED
      BY <1>2, <1>3, <1>4, <1>5, <1>6, <2>1, <3>1 DEF IInv, TypeOK
  <2>4. PhaseOK' /\ LockedResident'
    BY <1>2, <1>4, <2>1, <2>2 DEF IInv, TypeOK, PhaseOK, LockedResident
  <2>5. TableOK'
    BY <1>2, <1>5, <1>6, <2>1, <2>2 DEF IInv, TypeOK, TableOK, Evicted, Address
  <2>6. ChainOK'
    BY <1>2, <1>5, <1>6, <2>1, SameChain DEF IInv, TypeOK
  <2> QED
    BY <2>3, <2>4, <2>5, <2>6 DEF IInv
<1>7. CASE ~Evicts(i, is_dirty)
  <2>1. UNCHANGED <<saved, entry, buf>>
    BY <1>7 DEF Unlock
  <2>2. TypeOK'
    BY <1>2, <1>3, <1>4, <2>1 DEF IInv, TypeOK
  <2>3. PhaseOK' /\ LockedResident'
    BY <1>2, <1>4, <2>1 DEF IInv, PhaseOK, LockedResident
  <2>4. TableOK'
    BY <1>2, <2>1 DEF IInv, TableOK
  <2>5. ChainOK'
    BY <1>2, <2>1, SameChain
  <2> QED
    BY <2>2, <2>3, <2>4, <2>5 DEF IInv
<1> QED
  BY <1>6, <1>7

LEMMA NextInvariant == IInv /\ [Next]_vars => IInv'
<1> SUFFICES ASSUME IInv, [Next]_vars PROVE IInv'
  OBVIOUS
<1>1. ASSUME NEW c \in Contents, Create(c) PROVE IInv'
  <2>1. /\ phase = "open"
        /\ AddChunk(c, entry, buf)
        /\ UNCHANGED <<phase, locks, stale, saved>>
    BY <1>1 DEF Create
  <2>2. /\ entry \in [Ids -> Ids \cup {Address, ChainEnd}]
        /\ buf \in [Ids -> Contents \cup {NoBytes}]
        /\ \A j \in live : entry[j] = Address => buf[j] \in Contents
    BY <2>1 DEF IInv, TypeOK, TableOK
  <2>3. \A j \in Ids : entry[j] = entry[j] \/ (j \in live /\ entry[j] = Address)
    OBVIOUS
  <2> QED
    BY <2>1, <2>2, <2>3, AddInvariant
<1>2. ASSUME NEW i \in Ids, Copy(i) PROVE IInv'
  <2>1. phase = "open" /\ i \in live
    BY <1>2 DEF Copy
  <2> DEFINE e == ReadEntry(i)
             b == ReadBuf(i)
  <2>2. AddChunk(b[i], e, b) /\ UNCHANGED <<phase, locks, stale, saved>>
    BY <1>2 DEF Copy
  <2>3. /\ e \in [Ids -> Ids \cup {Address, ChainEnd}]
        /\ b \in [Ids -> Contents \cup {NoBytes}]
        /\ b[i] \in Contents
    BY <2>1, ReadBack
  <2>5. \A j \in Ids : e[j] = entry[j] \/ (j \in live /\ e[j] = Address)
    <3>1. e[i] = Address /\ \A j \in Ids : j # i => e[j] = entry[j]
      BY <2>1, ReadBack
    <3> QED
      BY <2>1, <3>1
  <2>4. \A j \in live : e[j] = Address => b[j] \in Contents
    BY <2>1, ReadBack DEF IInv, TypeOK, TableOK
  <2> HIDE DEF e, b
  <2> QED
    BY <2>1, <2>2, <2>3, <2>4, <2>5, AddInvariant
<1>3. ASSUME NEW i \in Ids, Lock(i) PROVE IInv'
  <2>1. ReadBuf(i) = [ReadBuf(i) EXCEPT ![i] = ReadBuf(i)[i]]
    BY <1>3, ReadBack DEF Lock
  <2>2. ReadBuf(i)[i] \in Contents
    BY <1>3, ReadBack DEF Lock
  <2> QED
    BY <1>3, <2>1, <2>2, TouchOne DEF Lock
<1>4. ASSUME NEW i \in Ids, CopyFrom(i) PROVE IInv'
  <2>1. ReadBuf(i) = [ReadBuf(i) EXCEPT ![i] = ReadBuf(i)[i]]
    BY <1>4, ReadBack DEF CopyFrom
  <2>2. ReadBuf(i)[i] \in Contents
    BY <1>4, ReadBack DEF CopyFrom
  <2> QED
    BY <1>4, <2>1, <2>2, TouchOne DEF CopyFrom, IInv, TypeOK
<1>5. ASSUME NEW i \in Ids, NEW c \in Contents, CopyTo(i, c) PROVE IInv'
  BY <1>5, TouchOne DEF CopyTo, IInv, TypeOK
<1>6. ASSUME NEW i \in Ids, NEW c \in Contents, Realloc(i, c) PROVE IInv'
  <2>1. locks' = locks /\ stale \subseteq stale' /\ stale' \subseteq DOMAIN locks
    BY <1>6 DEF Realloc, Spoil, IInv, TypeOK
  <2> QED
    BY <1>6, <2>1, TouchOne DEF Realloc
<1>15. ASSUME NEW i \in Ids, NEW j \in Ids, Compare(i, j) PROVE IInv'
  <2>1. /\ phase = "open" /\ {i, j} \in SUBSET live
        /\ UNCHANGED <<phase, chunks_top, chain, saved, live, locks, stale>>
    BY <1>15 DEF Compare
  <2>2. /\ entry' \in [Ids -> Ids \cup {Address, ChainEnd}]
        /\ entry'[j] = Address /\ entry'[i] = Address
        /\ \A k \in Ids \ {i, j} : entry'[k] = entry[k]
    BY <1>15, <2>1, ReadBack DEF Compare
  <2>3. /\ buf' \in [Ids -> Contents \cup {NoBytes}]
        /\ buf'[j] \in Contents /\ buf'[i] \in Contents
        /\ \A k \in Ids \ {i, j} : buf'[k] = buf[k]
    BY <1>15, <2>1, ReadBack DEF Compare
  <2>4. stale \subseteq stale' /\ stale' \subseteq DOMAIN locks
    BY <2>1 DEF IInv, TypeOK
  <2> QED
    BY <2>1, <2>2, <2>3, <2>4, TouchInvariant
<1>7. ASSUME NEW i \in Ids, Load(i) PROVE IInv'
  <2>1. UNCHANGED <<phase, chunks_top, entry, buf, chain, locks, stale, saved, live>>
    BY <1>7 DEF Load
  <2> QED
    BY <2>1 DEF IInv, TypeOK, PhaseOK, LockedResident, Held, Locked, TableOK,
                ChainOK, Link, IsFree
<1>8. ASSUME NEW i \in Ids, NEW c \in Contents, Store(i, c) PROVE IInv'
  <2>1. i \in live /\ entry[i] = Address /\ phase = "open"
    BY <1>8 DEF Store, IInv, LockedResident, Held, Locked
  <2>2. /\ UNCHANGED <<phase, chunks_top, chain, locks, stale, saved, live>>
        /\ entry' = ReadEntry(i)
        /\ buf' = [ReadBuf(i) EXCEPT ![i] = c]
    BY <1>8, <2>1 DEF Store, ReadEntry, ReadBuf, MustRead, Address, Evicted
  <2>3. stale \subseteq stale' /\ stale' \subseteq DOMAIN locks
    BY <2>2 DEF IInv, TypeOK
  <2> QED
    BY <2>1, <2>2, <2>3, TouchOne
<1>9. ASSUME NEW is_dirty \in BOOLEAN, Unlock(is_dirty) PROVE IInv'
  BY <1>9, UnlockInvariant
<1>10. ASSUME NEW i \in Ids, Free(i) PROVE IInv'
  <2>1. /\ phase = "open" /\ phase' = "open"
        /\ i \in live /\ i # 0
        /\ Release(i) /\ Spoil(i)
        /\ UNCHANGED <<chunks_top, locks, saved>>
    BY <1>10 DEF Free
  <2> QED
    BY <2>1, ReleaseInvariant
<1>11. ASSUME FreeNull PROVE IInv'
  <2>1. Spoil(0)
    BY <1>11 DEF FreeNull, Spoil
  <2> QED
    BY <1>11, <2>1, ReleaseInvariant DEF FreeNull
<1>12. ASSUME Close PROVE IInv'
  <2>1. Held' = {} /\ Locked' = {}
    BY <1>12 DEF Close, Held, Locked, IInv, PhaseOK
  <2> QED
    BY <1>12, <2>1 DEF Close, IInv, TypeOK, PhaseOK, LockedResident, TableOK, ChainOK
<1>13. ASSUME Reopen PROVE IInv'
  <2>1. /\ live' = {} /\ Held' = {} /\ Locked' = {} /\ chunks_top' = 0 /\ chain' = ChainEnd
        /\ entry' = [i \in Ids |-> 0] /\ phase' = "open"
    BY <1>13 DEF Reopen, Held, Locked, IInv, PhaseOK
  <2>2. TypeOK'
    BY <1>13, <2>1, MaxIdsAssumption DEF Reopen, TypeOK, Ids
  <2>3. PhaseOK' /\ LockedResident'
    BY <2>1 DEF PhaseOK, LockedResident
  <2>4. TableOK'
    BY <2>1, MaxIdsAssumption DEF TableOK, Ids, Address
  <2>5. ChainOK'
    BY <2>1, MaxIdsAssumption DEF ChainOK, IsFree, Link, Ids
  <2> QED
    BY <2>2, <2>3, <2>4, <2>5 DEF IInv
<1>14. ASSUME UNCHANGED vars PROVE IInv'
  BY <1>14 DEF vars, IInv, TypeOK, PhaseOK, LockedResident, Held, Locked, TableOK,
               ChainOK, Link, IsFree
<1> QED
  BY <1>1, <1>2, <1>3, <1>4, <1>5, <1>6, <1>7, <1>8, <1>9, <1>10, <1>11,
     <1>12, <1>13, <1>14, <1>15 DEF Next

-----------------------------------------------------------------------------
(* The invariant that the run checks holds of every behaviour, whatever    *)
(* the length of the table, the sizes and the nesting of locks.            *)
THEOREM Invariance == Spec => []IInv
<1> QED
  BY InitInvariant, NextInvariant, PTL DEF Spec

(* Every variable keeps to its type: a word of mem_chunks is an address,   *)
(* the evicted mark, the end of the chain or an id below the table's bound.*)
THEOREM TypeCorrect == Spec => []TypeOK
<1>1. IInv => TypeOK
  BY DEF IInv
<1> QED
  BY Invariance, <1>1, PTL

(* A pointer that mem_lock returned is good until its mem_unlock, at any   *)
(* depth of nested locks.                                                  *)
THEOREM LockedStaysResident == Spec => []LockedResident
<1>1. IInv => LockedResident
  BY DEF IInv
<1> QED
  BY Invariance, <1>1, PTL

(* The free chain threaded through mem_chunks is a chain of free entries. *)
THEOREM ChainCorrect == Spec => []ChainOK
<1>1. IInv => ChainOK
  BY DEF IInv
<1> QED
  BY Invariance, <1>1, PTL

-----------------------------------------------------------------------------
(* What a call sees of a chunk that it reads back is the chunk's content.  *)
LEMMA SeesContent ==
  ASSUME IInv, phase = "open", NEW i \in live
  PROVE  /\ Content[i] = ReadBuf(i)[i] /\ Content[i] \in Contents
         /\ Content[i] # NoBytes
<1>1. i \in Ids
  BY ReadBack
<1>2. Content[i] = IF entry[i] = Address THEN buf[i] ELSE saved[i]
  BY <1>1 DEF Content
<1>3. Content[i] = ReadBuf(i)[i]
  BY <1>1, <1>2 DEF IInv, TypeOK, TableOK, ReadBuf, MustRead, Address, Evicted
<1> QED
  BY <1>3, ReadBack, BytesAreBytes

(* Reading chunk i back and putting bytes c into it changes no other.      *)
LEMMA TouchContent ==
  ASSUME IInv, phase = "open", NEW i \in live, NEW c \in Contents,
         UNCHANGED <<saved, live>>,
         entry' = ReadEntry(i),
         buf' = [ReadBuf(i) EXCEPT ![i] = c]
  PROVE  Content' = [Content EXCEPT ![i] = c]
<1>1. /\ i \in Ids /\ entry'[i] = Address
      /\ \A j \in Ids : j # i => entry'[j] = entry[j]
      /\ buf'[i] = c
      /\ \A j \in Ids : j # i => buf'[j] = buf[j]
  BY ReadBack
<1> DEFINE D == [Content EXCEPT ![i] = c]
<1>2. ASSUME NEW j \in Ids PROVE Content'[j] = D[j]
  BY <1>1 DEF Content
<1>3. Content' = [j \in Ids |-> Content'[j]] /\ D = [j \in Ids |-> D[j]]
  <2>1. DOMAIN Content = Ids
    BY DEF Content
  <2>2. Content' = [j \in Ids |-> Content'[j]]
    BY DEF Content
  <2> QED
    BY <2>1, <2>2
<1> QED
  BY <1>2, <1>3

(* A chunk that mem_AddChunk adds is new to the memory. *)
LEMMA AddContent ==
  ASSUME IInv, phase = "open", NEW c \in Contents,
         NEW e \in [Ids -> Ids \cup {Address, ChainEnd}],
         NEW b \in [Ids -> Contents \cup {NoBytes}],
         AddChunk(c, e, b), UNCHANGED saved,
         \A j \in live : (IF e[j] = Address THEN b[j] ELSE saved[j]) = Content[j]
  PROVE  /\ NextId \in Ids /\ Content[NextId] = NoBytes
         /\ Content' = [Content EXCEPT ![NextId] = c]
<1> DEFINE n == NextId
           D == [Content EXCEPT ![n] = c]
<1>1. n \in Ids \ live
  BY FreshId DEF AddChunk
<1>2. /\ entry' = [e EXCEPT ![n] = Address]
      /\ buf' = [b EXCEPT ![n] = c]
      /\ live' = live \cup {n}
  BY DEF AddChunk
<1>3. Content[n] = NoBytes
  BY <1>1 DEF Content
<1> HIDE DEF n
<1>4. ASSUME NEW j \in Ids PROVE Content'[j] = D[j]
  BY <1>1, <1>2 DEF Content
<1>5. Content' = [j \in Ids |-> Content'[j]] /\ D = [j \in Ids |-> D[j]]
  <2>1. DOMAIN Content = Ids
    BY DEF Content
  <2>2. Content' = [j \in Ids |-> Content'[j]]
    BY DEF Content
  <2> QED
    BY <2>1, <2>2
<1>6. Content' = D
  BY <1>4, <1>5
<1> QED
  BY <1>1, <1>3, <1>6 DEF n

LEMMA SameContent ==
  ASSUME UNCHANGED <<entry, buf, saved, live>>
  PROVE  Content' = Content
  BY DEF Content

(* The instance of module Memory speaks of the same bytes and calls. *)
LEMMA SameWords ==
  /\ M!NoBytes = NoBytes /\ M!NoCall = NoCall /\ M!Contents = Contents
  /\ \A op, i, c : M!Call(op, i, c) = Call(op, i, c)
  /\ \A i, j, equal : M!Compared(i, j, equal) = Compared(i, j, equal)
  /\ \A a, b : M!SamePrefix(a, b) <=> SamePrefix(a, b)
  BY DEF M!NoBytes, NoBytes, M!NoCall, NoCall, M!Contents, Contents,
         M!Call, Call, M!Compared, Compared, M!SamePrefix, SamePrefix

(* Every step of the manager is a step of the memory, or changes nothing   *)
(* that a caller can see.                                                  *)
LEMMA StepRefines == IInv /\ [Next]_vars => [M!Next]_<<Content, call>>
<1> SUFFICES ASSUME IInv, [Next]_vars PROVE [M!Next]_<<Content, call>>
  OBVIOUS
<1> USE SameWords
<1>1. ASSUME NEW c \in Contents, Create(c) PROVE M!Next
  <2>1. /\ phase = "open" /\ UNCHANGED saved
        /\ AddChunk(c, entry, buf)
        /\ call' = Call("alloc", NextId, c)
    BY <1>1 DEF Create
  <2>2. /\ entry \in [Ids -> Ids \cup {Address, ChainEnd}]
        /\ buf \in [Ids -> Contents \cup {NoBytes}]
        /\ \A j \in live : (IF entry[j] = Address THEN buf[j] ELSE saved[j]) = Content[j]
    BY DEF IInv, TypeOK, Content
  <2>3. NextId \in Ids /\ M!Alloc(NextId, c)
    BY <2>1, <2>2, AddContent DEF M!Alloc
  <2> QED
    BY <2>3 DEF M!Next
<1>2. ASSUME NEW i \in Ids, Copy(i) PROVE M!Next
  <2> DEFINE e == ReadEntry(i)
             b == ReadBuf(i)
  <2>1. /\ phase = "open" /\ UNCHANGED saved /\ i \in live
        /\ AddChunk(b[i], e, b)
        /\ call' = Call("copy", i, b[i])
    BY <1>2 DEF Copy
  <2>2. /\ e \in [Ids -> Ids \cup {Address, ChainEnd}]
        /\ b \in [Ids -> Contents \cup {NoBytes}]
        /\ Content[i] = b[i] /\ b[i] \in Contents /\ Content[i] # NoBytes
    BY <2>1, ReadBack, SeesContent
  <2>3. ASSUME NEW j \in live
        PROVE  (IF e[j] = Address THEN b[j] ELSE saved[j]) = Content[j]
    <3>1. e[i] = Address
      BY <2>1, ReadBack
    <3>2. j \in Ids /\ (j # i => e[j] = entry[j] /\ b[j] = buf[j])
      BY <2>1, ReadBack
    <3>3. Content[j] = IF entry[j] = Address THEN buf[j] ELSE saved[j]
      BY <3>2 DEF Content
    <3> HIDE DEF e, b
    <3> QED
      BY <2>2, <3>1, <3>2, <3>3
  <2> HIDE DEF e, b
  <2>4. NextId \in Ids /\ M!Copy(i, NextId)
    BY <2>1, <2>2, <2>3, AddContent DEF M!Copy
  <2> QED
    BY <2>4 DEF M!Next
<1>3. ASSUME NEW i \in Ids, Lock(i) PROVE M!Next
  <2>1. /\ phase = "open" /\ i \in live /\ UNCHANGED <<saved, live>>
        /\ entry' = ReadEntry(i) /\ buf' = ReadBuf(i)
        /\ call' = NoCall
    BY <1>3 DEF Lock
  <2>2. Content' = Content
    <3>1. /\ ReadBuf(i) = [ReadBuf(i) EXCEPT ![i] = Content[i]]
          /\ Content[i] \in Contents
      BY <2>1, ReadBack, SeesContent
    <3>2. Content' = [Content EXCEPT ![i] = Content[i]]
      BY <2>1, <3>1, TouchContent
    <3> QED
      BY <3>2 DEF Content
  <2> QED
    BY <2>1, <2>2 DEF M!Next, M!Internal
<1>4. ASSUME NEW i \in Ids, CopyFrom(i) PROVE M!Next
  <2>1. /\ phase = "open" /\ i \in live /\ UNCHANGED <<saved, live>>
        /\ entry' = ReadEntry(i) /\ buf' = ReadBuf(i)
        /\ call' = Call("read", i, ReadBuf(i)[i])
    BY <1>4 DEF CopyFrom
  <2>2. Content' = Content
    <3>1. /\ ReadBuf(i) = [ReadBuf(i) EXCEPT ![i] = Content[i]]
          /\ Content[i] \in Contents
      BY <2>1, ReadBack, SeesContent
    <3>2. Content' = [Content EXCEPT ![i] = Content[i]]
      BY <2>1, <3>1, TouchContent
    <3> QED
      BY <3>2 DEF Content
  <2>3. M!Read(i)
    BY <2>1, <2>2, SeesContent DEF M!Read
  <2> QED
    BY <2>3 DEF M!Next
<1>14. ASSUME NEW i \in Ids, NEW j \in Ids, Compare(i, j) PROVE M!Next
  <2>1. /\ phase = "open" /\ i \in live /\ j \in live /\ UNCHANGED <<saved, live>>
        /\ entry' = [ReadEntry(i) EXCEPT ![j] = ReadEntry(j)[j]]
        /\ buf' = [ReadBuf(i) EXCEPT ![j] = ReadBuf(j)[j]]
        /\ call' = Compared(i, j, ReadBuf(i)[i] = ReadBuf(j)[j])
    BY <1>14 DEF Compare
  <2>2. /\ Content[i] = ReadBuf(i)[i] /\ Content[j] = ReadBuf(j)[j]
        /\ Content[i] # NoBytes /\ Content[j] # NoBytes
    BY <2>1, SeesContent
  <2>3. \A k \in {i, j} : entry'[k] = Address /\ buf'[k] = Content[k]
    BY <2>1, <2>2, ReadBack
  <2>4. \A k \in Ids \ {i, j} : entry'[k] = entry[k] /\ buf'[k] = buf[k]
    BY <2>1, ReadBack
  <2>5. ASSUME NEW k \in Ids PROVE Content'[k] = Content[k]
    BY <2>1, <2>3, <2>4 DEF Content
  <2>6. Content' = Content
    <3>1. Content = [k \in Ids |-> Content[k]] /\ Content' = [k \in Ids |-> Content'[k]]
      BY DEF Content
    <3> QED
      BY <2>5, <3>1
  <2>7. M!Compare(i, j)
    BY <2>1, <2>2, <2>6 DEF M!Compare
  <2> QED
    BY <2>7 DEF M!Next
<1>5. ASSUME NEW i \in Ids, Load(i) PROVE M!Next
  <2>1. /\ phase = "open" /\ i \in live /\ entry[i] = Address
        /\ UNCHANGED <<entry, buf, saved, live>>
        /\ call' = Call("read", i, buf[i])
    BY <1>5 DEF Load, IInv, LockedResident, Held, Locked
  <2>2. Content[i] = buf[i] /\ Content[i] # NoBytes
    BY <2>1, SeesContent DEF Content
  <2>3. M!Read(i)
    BY <2>1, <2>2, SameContent DEF M!Read
  <2> QED
    BY <2>3 DEF M!Next
<1>6. ASSUME NEW i \in Ids, NEW c \in Contents, Store(i, c) \/ CopyTo(i, c)
      PROVE  M!Next
  <2>1. /\ phase = "open" /\ i \in live /\ UNCHANGED <<saved, live>>
        /\ entry' = ReadEntry(i)
        /\ buf' = [ReadBuf(i) EXCEPT ![i] = c]
        /\ Len(c) = Len(ReadBuf(i)[i])
        /\ call' = Call("write", i, c)
    BY <1>6 DEF Store, CopyTo, IInv, LockedResident, Held, Locked, ReadEntry, ReadBuf,
                MustRead, Address, Evicted
  <2>2. M!Write(i, c)
    BY <2>1, SeesContent, TouchContent DEF M!Write
  <2> QED
    BY <2>2 DEF M!Next
<1>7. ASSUME NEW i \in Ids, NEW c \in Contents, Realloc(i, c) PROVE M!Next
  <2>1. /\ phase = "open" /\ i \in live /\ UNCHANGED <<saved, live>>
        /\ entry' = ReadEntry(i)
        /\ buf' = [ReadBuf(i) EXCEPT ![i] = c]
        /\ SamePrefix(c, ReadBuf(i)[i])
        /\ call' = Call("resize", i, c)
    BY <1>7 DEF Realloc
  <2>2. Content' = [Content EXCEPT ![i] = NoBytes, ![i] = c]
    <3>1. Content' = [Content EXCEPT ![i] = c]
      BY <2>1, SeesContent, TouchContent
    <3> HIDE DEF Content
    <3> QED
      BY <3>1
  <2>3. M!Resize(i, i, c)
    BY <2>1, <2>2, SeesContent DEF M!Resize
  <2> QED
    BY <2>3 DEF M!Next
<1>8. ASSUME NEW is_dirty \in BOOLEAN, Unlock(is_dirty) PROVE M!Next
  <2> DEFINE i == locks[Len(locks)]
  <2>1. /\ phase = "open" /\ i \in Locked /\ UNCHANGED live
        /\ is_dirty => i \in live
        /\ call' = NoCall
    BY <1>8 DEF Unlock, IInv, TypeOK, Locked
  <2>3. CASE Evicts(i, is_dirty)
    <3>0. i \in live /\ i \in Ids /\ entry[i] = Address
      BY <2>1, <2>3 DEF Evicts, IInv, TypeOK, LockedResident
    <3>1. /\ saved' = [saved EXCEPT ![i] = buf[i]]
          /\ entry' = [entry EXCEPT ![i] = Evicted]
          /\ buf' = [buf EXCEPT ![i] = NoBytes]
      BY <1>8, <2>3 DEF Unlock, WriteBack
    <3> HIDE DEF i
    <3>2. Content' = Content
      BY <2>1, <3>0, <3>1 DEF Content, IInv, TypeOK, Address, Evicted
    <3> QED
      BY <2>1, <3>2 DEF M!Next, M!Internal
  <2>4. CASE ~Evicts(i, is_dirty)
    <3>1. UNCHANGED <<saved, entry, buf>>
      BY <1>8, <2>4 DEF Unlock
    <3> QED
      BY <2>1, <3>1, SameContent DEF M!Next, M!Internal
  <2> QED
    BY <2>3, <2>4
<1>9. ASSUME NEW i \in Ids, Free(i) \/ (i = 0 /\ FreeNull) PROVE M!Next
  <2>1. /\ phase = "open" /\ i \in live /\ UNCHANGED saved
        /\ Release(i)
        /\ call' = Call("free", i, NoBytes)
    BY <1>9 DEF Free, FreeNull
  <2>2. Content' = [Content EXCEPT ![i] = NoBytes]
    <3> DEFINE D == [Content EXCEPT ![i] = NoBytes]
    <3>1. live' = live \ {i} /\ \A j \in Ids : j # i => entry'[j] = entry[j] /\ buf'[j] = buf[j]
      BY <2>1 DEF Release, IInv, TypeOK
    <3>2. ASSUME NEW j \in Ids PROVE Content'[j] = D[j]
      BY <2>1, <3>1 DEF Content
    <3>3. DOMAIN Content = Ids
      BY DEF Content
    <3>4. Content' = [j \in Ids |-> Content'[j]]
      BY DEF Content
    <3>5. D = [j \in Ids |-> D[j]]
      BY <3>3
    <3> QED
      BY <3>2, <3>4, <3>5
  <2>3. M!Free(i)
    BY <2>1, <2>2, SeesContent DEF M!Free
  <2> QED
    BY <2>3 DEF M!Next
<1>10. ASSUME FreeNull PROVE M!Next
  <2>1. 0 \in Ids
    BY MaxIdsAssumption DEF Ids
  <2> QED
    BY <1>9, <1>10, <2>1
<1>11. ASSUME Close PROVE M!Next
  <2>1. Content' = [i \in Ids |-> NoBytes] /\ call' = Call("close", 0, NoBytes)
    BY <1>11 DEF Close, Content
  <2> QED
    BY <2>1 DEF M!Next, M!Close
<1>12. ASSUME Reopen PROVE M!Next
  <2>1. live = {} /\ live' = {} /\ call' = NoCall
    BY <1>12 DEF Reopen, IInv, PhaseOK
  <2>2. Content' = Content
    BY <2>1 DEF Content
  <2> QED
    BY <2>1, <2>2 DEF M!Next, M!Internal
<1>13. ASSUME UNCHANGED vars PROVE UNCHANGED <<Content, call>>
  BY <1>13, SameContent DEF vars
<1> QED
  BY <1>1, <1>2, <1>3, <1>4, <1>5, <1>6, <1>7, <1>8, <1>9, <1>10, <1>11,
     <1>12, <1>13, <1>14 DEF Next

(* To its callers the caching manager is a memory: with a store or without *)
(* one, a chunk shows the bytes last put into it until it is freed, and a  *)
(* new chunk never takes the id of one in use.                             *)
THEOREM CacheIsMemory == Spec => IsMemory
<1>1. Init => M!Init
  BY SameWords DEF Init, M!Init, Content
<1> QED
  BY <1>1, InitInvariant, NextInvariant, StepRefines, PTL DEF Spec, IsMemory, M!Spec

(* Every free entry is found from the head of the chain: the entry before  *)
(* it has a lesser number.                                                 *)
Numbers(r) == \A i \in Ids : IsFree(i) /\ i # chain => \E k \in Ids : Link(k, i) /\ r[k] < r[i]

Reached == phase = "open" => \E r \in [Ids -> Nat] : Numbers(r)

LEMMA SameReached ==
  ASSUME IInv, Reached, phase' = phase, chunks_top' = chunks_top, live' = live,
         chain' = chain, \A j \in Ids \ live : entry'[j] = entry[j]
  PROVE  Reached'
<1> SUFFICES ASSUME phase = "open" PROVE \E r \in [Ids -> Nat] : Numbers(r)'
  BY DEF Reached
<1>1. PICK r \in [Ids -> Nat] : Numbers(r)
  BY DEF Reached
<1>2. \A j \in Ids : IsFree(j)' <=> IsFree(j)
  BY DEF IsFree
<1>3. \A j, k \in Ids : Link(k, j)' <=> Link(k, j)
  BY <1>2 DEF Link, IsFree
<1> QED
  BY <1>1, <1>2, <1>3 DEF Numbers

(* A new chunk takes the head of the chain, or there was none. *)
LEMMA AddReached ==
  ASSUME IInv, Reached, phase = "open", UNCHANGED phase, NEW c, NEW b,
         NEW e \in [Ids -> Ids \cup {Address, ChainEnd}],
         \A j \in Ids : e[j] = entry[j] \/ (j \in live /\ e[j] = Address),
         AddChunk(c, e, b)
  PROVE  Reached'
<1>1. /\ NextId \in Ids \ live
      /\ chain # ChainEnd => NextChain = entry[chain] /\ NextId = chain
      /\ chain = ChainEnd => NextId = chunks_top /\ NextChain = ChainEnd
  BY FreshId DEF AddChunk, NextId
<1>2. /\ entry' = [e EXCEPT ![NextId] = Address]
      /\ chain' = NextChain
      /\ chunks_top' = IF chain = ChainEnd THEN chunks_top + 1 ELSE chunks_top
      /\ live' = live \cup {NextId}
  BY DEF AddChunk
<1>3. PICK r \in [Ids -> Nat] : Numbers(r)
  BY DEF Reached
<1>4. ASSUME NEW i \in Ids, i # NextId
      PROVE  (IsFree(i)' <=> IsFree(i)) /\ (i \notin live => entry'[i] = entry[i])
  BY <1>1, <1>2, <1>4 DEF IsFree, IInv, TypeOK, Ids
<1>5. ASSUME NEW i \in Ids, IsFree(i)', i # chain'
      PROVE  \E k \in Ids : Link(k, i)' /\ r[k] < r[i]
  <2>1. i # NextId /\ IsFree(i)
    BY <1>2, <1>4, <1>5 DEF IsFree
  <2>2. i # chain
    BY <1>1, <2>1 DEF IsFree, ChainEnd, Ids
  <2>3. PICK k \in Ids : Link(k, i) /\ r[k] < r[i]
    BY <1>3, <2>1, <2>2 DEF Numbers
  <2>4. k # NextId
    BY <1>1, <1>2, <1>5, <2>3 DEF Link, IsFree, ChainEnd, IInv, TypeOK
  <2>5. Link(k, i)'
    BY <1>4, <2>3, <2>4 DEF Link, IsFree
  <2>. QED
    BY <2>3, <2>5
<1> QED
  BY <1>3, <1>5 DEF Reached, Numbers

(* A freed entry becomes the head of the chain, the old head the second. *)
LEMMA ReleaseReached ==
  ASSUME IInv, Reached, phase = "open", NEW i \in live, UNCHANGED <<phase, chunks_top>>,
         Release(i)
  PROVE  Reached'
<1>1. i \in Ids /\ i < chunks_top /\ entry[i] \in {Address, Evicted} /\ live' = live \ {i}
  BY DEF IInv, TypeOK, TableOK, Release
<1>2. PICK r \in [Ids -> Nat] : Numbers(r)
  BY DEF Reached
<1>3. CASE entry[i] = Address
  <2>1. entry' = [entry EXCEPT ![i] = chain] /\ chain' = i
    BY <1>1, <1>3 DEF Release, Address
  <2>2. \A j \in Ids : j # i => entry'[j] = entry[j] /\ (IsFree(j)' <=> IsFree(j))
    BY <1>1, <2>1 DEF IsFree, IInv, TypeOK
  <2>3. entry'[i] = chain
    BY <1>1, <2>1 DEF IInv, TypeOK
  <2> DEFINE q == [j \in Ids |-> IF j = i THEN 0 ELSE r[j] + 1]
  <2>4. q \in [Ids -> Nat]
    OBVIOUS
  <2>5. ASSUME NEW j \in Ids, IsFree(j)', j # i
        PROVE  \E k \in Ids : Link(k, j)' /\ q[k] < q[j]
    <3>1. IsFree(j)
      BY <2>2, <2>5
    <3>2. CASE j = chain
      <4>1. chain # 0 /\ chain # ChainEnd
        BY <3>2 DEF Ids, ChainEnd, IInv, ChainOK
      <4>2. IsFree(i)'
        BY <1>1, <2>3, <4>1 DEF IsFree, Evicted
      <4>3. Link(i, j)' /\ q[i] < q[j]
        BY <1>1, <2>3, <2>5, <3>2, <4>2 DEF Link
      <4>. QED
        BY <1>1, <4>3
    <3>3. CASE j # chain
      <4>1. PICK k \in Ids : Link(k, j) /\ r[k] < r[j]
        BY <1>2, <3>1, <3>3 DEF Numbers
      <4>2. k # i
        BY <4>1 DEF Link, IsFree
      <4>3. Link(k, j)' /\ q[k] < q[j]
        BY <2>2, <2>5, <4>1, <4>2 DEF Link
      <4>. QED
        BY <4>3
    <3>. QED
      BY <3>2, <3>3
  <2> HIDE DEF q
  <2>. QED
    BY <2>1, <2>4, <2>5 DEF Reached, Numbers
<1>4. CASE entry[i] = Evicted
  <2>1. UNCHANGED <<entry, chain>>
    BY <1>4 DEF Release, Evicted
  <2>2. \A j \in Ids : IsFree(j)' <=> IsFree(j)
    BY <1>1, <1>4, <2>1 DEF IsFree
  <2>3. \A j, k \in Ids : Link(k, j)' <=> Link(k, j)
    BY <2>1, <2>2 DEF Link
  <2>. QED
    BY <1>2, <2>1, <2>2, <2>3 DEF Reached, Numbers
<1> QED
  BY <1>1, <1>3, <1>4

LEMMA NextReached == IInv /\ Reached /\ [Next]_vars => Reached'
<1> SUFFICES ASSUME IInv, Reached, [Next]_vars PROVE Reached'
  OBVIOUS
<1>1. ASSUME NEW c \in Contents, Create(c) PROVE Reached'
  BY <1>1, AddReached DEF Create, IInv, TypeOK
<1>2. ASSUME NEW i \in Ids, Copy(i) PROVE Reached'
  <2>1. /\ phase = "open" /\ i \in live /\ UNCHANGED phase
        /\ AddChunk(ReadBuf(i)[i], ReadEntry(i), ReadBuf(i))
    BY <1>2 DEF Copy
  <2>2. /\ ReadEntry(i) \in [Ids -> Ids \cup {Address, ChainEnd}]
        /\ \A j \in Ids : ReadEntry(i)[j] = entry[j] \/ (j \in live /\ ReadEntry(i)[j] = Address)
    BY <2>1, ReadBack
  <2>. QED
    BY <2>1, <2>2, AddReached
<1>3. ASSUME NEW i \in Ids,
             Lock(i) \/ CopyFrom(i) \/ \E c \in Contents : CopyTo(i, c) \/ Realloc(i, c)
      PROVE  Reached'
  <2>1. /\ phase = "open" /\ i \in live /\ UNCHANGED <<phase, chunks_top, chain, live>>
        /\ entry' = ReadEntry(i)
    BY <1>3 DEF Lock, CopyFrom, CopyTo, Realloc
  <2>2. \A j \in Ids \ live : entry'[j] = entry[j]
    BY <2>1, ReadBack
  <2>. QED
    BY <2>1, <2>2, SameReached
<1>4. ASSUME NEW i \in Ids, NEW j \in Ids, Compare(i, j) PROVE Reached'
  <2>1. /\ phase = "open" /\ i \in live /\ j \in live
        /\ UNCHANGED <<phase, chunks_top, chain, live>>
        /\ entry' = [ReadEntry(i) EXCEPT ![j] = ReadEntry(j)[j]]
    BY <1>4 DEF Compare
  <2>2. \A k \in Ids \ live : entry'[k] = entry[k]
    BY <2>1, ReadBack
  <2>. QED
    BY <2>1, <2>2, SameReached
<1>5. ASSUME NEW i \in Ids, Load(i) \/ \E c \in Contents : Store(i, c) PROVE Reached'
  BY <1>5, SameReached DEF Load, Store
<1>6. ASSUME NEW is_dirty \in BOOLEAN, Unlock(is_dirty) PROVE Reached'
  <2> DEFINE i == locks[Len(locks)]
  <2>1. phase = "open" /\ UNCHANGED <<phase, chunks_top, chain, live>>
    BY <1>6 DEF Unlock
  <2>2. \/ entry' = [entry EXCEPT ![i] = Evicted] /\ i \in live
        \/ entry' = entry
    BY <1>6 DEF Unlock, Evicts
  <2>4. \A j \in Ids \ live : entry'[j] = entry[j]
    BY <2>2 DEF IInv, TypeOK
  <2>. QED
    BY <2>1, <2>4, SameReached
<1>7. ASSUME NEW i \in Ids, Free(i) PROVE Reached'
  BY <1>7, ReleaseReached DEF Free
<1>8. ASSUME FreeNull \/ Close PROVE Reached'
  BY <1>8 DEF FreeNull, Close, Reached
<1>9. ASSUME Reopen PROVE Reached'
  <2>1. \A i \in Ids : ~IsFree(i)'
    BY <1>9 DEF Reopen, IsFree, Ids
  <2>2. [i \in Ids |-> 0] \in [Ids -> Nat]
    OBVIOUS
  <2>. QED
    BY <2>1, <2>2 DEF Reached, Numbers
<1>10. ASSUME UNCHANGED vars PROVE Reached'
  BY <1>10, SameReached DEF vars
<1> QED
  BY <1>1, <1>2, <1>3, <1>4, <1>5, <1>6, <1>7, <1>8, <1>9, <1>10 DEF Next

(* When the chain is empty there is no free entry: from one, the entries   *)
(* before it would go on for ever.                                         *)
LEMMA NoneFree ==
  ASSUME Reached, phase = "open", chain = ChainEnd
  PROVE  \A i \in Ids : ~IsFree(i)
<1> SUFFICES ASSUME NEW i \in Ids, IsFree(i) PROVE FALSE
  OBVIOUS
<1>1. PICK r \in [Ids -> Nat] : Numbers(r)
  BY DEF Reached
<1> DEFINE T == {r[j] : j \in {k \in Ids : IsFree(k)}}
<1>2. T \subseteq Nat /\ T # {}
  BY <1>1
<1>3. PICK n \in T : \A m \in T : ~(<<m, n>> \in OpToRel(<, Nat))
  BY <1>2, WFMin, NatLessThanWellFounded
<1>4. PICK j \in Ids : IsFree(j) /\ n = r[j]
  BY <1>3
<1>5. PICK k \in Ids : Link(k, j) /\ r[k] < r[j]
  BY <1>1, <1>4 DEF Numbers, Ids, ChainEnd
<1>6. r[k] \in T /\ r[k] < n /\ r[k] \in Nat /\ n \in Nat
  BY <1>4, <1>5 DEF Link
<1> HIDE DEF T
<1> QED
  BY <1>3, <1>6 DEF OpToRel

(* The table grows when there is no free entry left, and then only: what   *)
(* is lost are the entries of chunks that were in the store when they were *)
(* freed.                                                                  *)
THEOREM GrowsWhenFull == Spec => GrowsOnlyWhenNeeded
<1>1. Init => Reached
  <2> SUFFICES ASSUME Init PROVE Reached
    OBVIOUS
  <2>1. \A i \in Ids : ~IsFree(i)
    BY DEF Init, IsFree, Ids
  <2>2. [i \in Ids |-> 0] \in [Ids -> Nat]
    OBVIOUS
  <2>. QED
    BY <2>1, <2>2 DEF Reached, Numbers
<1>2. ASSUME IInv, Reached, [Next]_vars, chunks_top' > chunks_top,
             NEW i \in 0..(chunks_top - 1)
      PROVE  i \in live \/ entry[i] = Evicted
  <2>1. i \in Ids /\ i < chunks_top
    BY <1>2, MaxIdsAssumption DEF IInv, TypeOK, Ids
  <2>2. CASE phase = "open" /\ chain = ChainEnd
    BY <1>2, <2>1, <2>2, NoneFree DEF IsFree
  <2>3. CASE Reopen
    <3>1. chunks_top' = 0 /\ chunks_top \in 0..MaxIds
      BY <1>2, <2>3 DEF Reopen, IInv, TypeOK
    <3>. QED
      BY <1>2, <3>1, MaxIdsAssumption
  <2>4. CASE ~Reopen
    <3>1. \/ UNCHANGED chunks_top
          \/ phase = "open" /\ chunks_top' = IF chain = ChainEnd THEN chunks_top + 1 ELSE chunks_top
      BY <1>2, <2>4 DEF Next, vars, Create, Copy, AddChunk, Lock, Load, CopyFrom, Free,
         Compare, Unlock, Store, CopyTo, Realloc, FreeNull, Close
    <3>. QED
      BY <1>2, <2>2, <3>1 DEF IInv, TypeOK
  <2>. QED
    BY <2>3, <2>4
<1>3. IInv /\ Reached /\ [Next]_vars
        => [chunks_top' > chunks_top =>
              \A i \in 0..(chunks_top - 1) : i \in live \/ entry[i] = Evicted]_vars
  BY <1>2
<1> QED
  BY <1>1, <1>3, InitInvariant, NextInvariant, NextReached, PTL DEF Spec, GrowsOnlyWhenNeeded
=============================================================================
