--------------------------- MODULE MemDebugProofs ---------------------------
(***************************************************************************)
(* Proofs about the debugging memory managers, for every number of chunks, *)
(* every size of a chunk and every depth of the lock stack, with and       *)
(* without a store behind them.                                            *)
(***************************************************************************)
EXTENDS MemDebug, FiniteSetTheorems, SequenceTheorems, TLAPS

LEMMA BytesAreBytes ==
  ASSUME NEW c \in Contents
  PROVE  c # NoBytes
<1>1. PICK n \in 1..MaxSize : c \in [1..n -> Cells]
  BY DEF Contents
<1>2. 1 \in DOMAIN c
  BY <1>1, MaxSizeAssumption
<1> QED
  BY <1>2 DEF NoBytes

-----------------------------------------------------------------------------
(* Counting the places of a chunk on a lock stack. *)
LEMMA PositionsFinite ==
  ASSUME NEW s \in Seq(Ids), NEW i
  PROVE  /\ IsFiniteSet(Positions(s, i))
         /\ Cardinality(Positions(s, i)) \in Nat
         /\ Cardinality(Positions(s, i)) = 0 <=> \A k \in DOMAIN s : s[k] # i
<1>1. DOMAIN s = 1..Len(s) /\ Len(s) \in Nat
  OBVIOUS
<1>2. IsFiniteSet(1..Len(s))
  BY <1>1, FS_Interval
<1>3. Positions(s, i) \in SUBSET (1..Len(s))
  BY <1>1 DEF Positions
<1>4. IsFiniteSet(Positions(s, i))
  BY <1>2, <1>3, FS_Subset
<1>5. Cardinality(Positions(s, i)) \in Nat
  BY <1>4, FS_CardinalityType
<1>6. Cardinality(Positions(s, i)) = 0 <=> Positions(s, i) = {}
  BY <1>4, FS_EmptySet
<1> QED
  BY <1>4, <1>5, <1>6 DEF Positions

LEMMA CountAppend ==
  ASSUME NEW s \in Seq(Ids), NEW i \in Ids, NEW j \in Ids
  PROVE  Cardinality(Positions(Append(s, i), j)) =
           IF j = i THEN Cardinality(Positions(s, j)) + 1
                    ELSE Cardinality(Positions(s, j))
<1> DEFINE t == Append(s, i)
           n == Len(s) + 1
<1>1. /\ t \in Seq(Ids) /\ Len(t) = n /\ Len(s) \in Nat
      /\ \A k \in 1..Len(s) : t[k] = s[k]
      /\ t[n] = i
  BY AppendProperties
<1>2. DOMAIN t = 1..n /\ DOMAIN s = 1..Len(s)
  BY <1>1
<1>3. n \notin Positions(s, j)
  BY <1>1, <1>2 DEF Positions
<1> HIDE DEF t
<1>4. CASE j = i
  <2>1. Positions(t, j) = Positions(s, j) \cup {n}
    BY <1>1, <1>2, <1>4 DEF Positions
  <2> HIDE DEF n
  <2>2. IsFiniteSet(Positions(s, j))
    BY PositionsFinite
  <2>3. Cardinality(Positions(s, j) \cup {n}) = Cardinality(Positions(s, j)) + 1
    BY <1>3, <2>2, FS_AddElement
  <2> QED
    BY <1>4, <2>1, <2>3 DEF t
<1>5. CASE j # i
  <2>1. Positions(t, j) = Positions(s, j)
    BY <1>1, <1>2, <1>5 DEF Positions
  <2> QED
    BY <1>5, <2>1 DEF t
<1> QED
  BY <1>4, <1>5

(* mem_lock and mem_unlock keep the two books of the locks in step. *)
LEMMA LockCounts ==
  ASSUME IInv, NEW i \in Ids,
         lock_count' = [lock_count EXCEPT ![i] = @ + 1],
         locks' = Append(locks, i)
  PROVE  LocksAgree' /\ lock_count' \in [Ids -> Int]
<1>1. lock_count \in [Ids -> Int] /\ locks \in Seq(Ids)
  BY DEF IInv, TypeOK
<1>2. lock_count' \in [Ids -> Int]
  BY <1>1
<1>3. ASSUME NEW j \in Ids
      PROVE  lock_count'[j] = Cardinality(Positions(locks', j))
  <2>1. lock_count[j] = Cardinality(Positions(locks, j))
    BY DEF IInv, LocksAgree
  <2> QED
    BY <1>1, <2>1, CountAppend
<1> QED
  BY <1>2, <1>3 DEF LocksAgree

(* What mem_unlock pops from the lock stack, and what it leaves there. *)
LEMMA Popped ==
  ASSUME IInv, locks # << >>
  PROVE  /\ locks[Len(locks)] \in Locked /\ locks[Len(locks)] \in Ids
         /\ SubSeq(locks, 1, Len(locks) - 1) \in Seq(Ids)
         /\ locks = Append(SubSeq(locks, 1, Len(locks) - 1), locks[Len(locks)])
         /\ \A k \in DOMAIN SubSeq(locks, 1, Len(locks) - 1) :
              /\ SubSeq(locks, 1, Len(locks) - 1)[k] = locks[k]
              /\ k \in DOMAIN locks /\ k # Len(locks)
         /\ DOMAIN SubSeq(locks, 1, Len(locks) - 1) = DOMAIN locks \ {Len(locks)}
<1> DEFINE r == SubSeq(locks, 1, Len(locks) - 1)
<1>1. locks \in Seq(Ids) /\ Len(locks) \in Nat /\ DOMAIN locks = 1..Len(locks)
  BY DEF IInv, TypeOK
<1>2. Len(locks) # 0
  BY <1>1, EmptySeq
<1>3. PICK s \in Seq(Ids), e \in Ids : locks = Append(s, e)
  BY <1>1, SequenceEmptyOrAppend
<1>4. /\ Len(locks) = Len(s) + 1 /\ Len(s) \in Nat
      /\ locks[Len(locks)] = e
      /\ \A k \in 1..Len(s) : locks[k] = s[k]
  BY <1>3, AppendProperties
<1>5. r = s
  <2>1. /\ r \in Seq(Ids) /\ Len(r) = Len(s)
        /\ \A k \in 1..Len(s) : r[k] = locks[k]
    BY <1>1, <1>4, SubSeqProperties
  <2> HIDE DEF r
  <2> QED
    BY <1>4, <2>1, SeqEqual
<1>6. /\ \A k \in DOMAIN r : r[k] = locks[k] /\ k \in DOMAIN locks /\ k # Len(locks)
      /\ DOMAIN r = DOMAIN locks \ {Len(locks)}
  <2>1. s \in Seq(Ids) /\ DOMAIN s = 1..Len(s)
    BY <1>3
  <2> HIDE DEF r
  <2> QED
    BY <1>1, <1>4, <1>5, <2>1
<1> QED
  BY <1>1, <1>2, <1>3, <1>4, <1>5, <1>6 DEF Locked

LEMMA UnlockCounts ==
  ASSUME IInv, locks # << >>,
         lock_count' = [lock_count EXCEPT ![locks[Len(locks)]] = @ - 1],
         locks' = SubSeq(locks, 1, Len(locks) - 1)
  PROVE  LocksAgree' /\ lock_count' \in [Ids -> Int]
<1> DEFINE i == locks[Len(locks)]
<1>1. /\ i \in Ids /\ locks' \in Seq(Ids) /\ locks = Append(locks', i)
      /\ lock_count \in [Ids -> Int]
  BY Popped DEF IInv, TypeOK
<1>2. lock_count' = [lock_count EXCEPT ![i] = @ - 1]
  OBVIOUS
<1> HIDE DEF i
<1>3. ASSUME NEW j \in Ids
      PROVE  lock_count'[j] = Cardinality(Positions(locks', j))
  <2>1. lock_count[j] = Cardinality(Positions(Append(locks', i), j))
    BY <1>1 DEF IInv, LocksAgree
  <2>2. Cardinality(Positions(Append(locks', i), j)) =
           IF j = i THEN Cardinality(Positions(locks', j)) + 1
                    ELSE Cardinality(Positions(locks', j))
    BY <1>1, CountAppend
  <2>3. Cardinality(Positions(locks', j)) \in Nat
    BY <1>1, PositionsFinite
  <2> QED
    BY <1>1, <1>2, <2>1, <2>2, <2>3
<1> QED
  BY <1>1, <1>2, <1>3 DEF LocksAgree

(* A chunk is on the lock stack exactly when its counter is not zero. *)
LEMMA CountedLocked ==
  ASSUME IInv, NEW i \in Ids
  PROVE  lock_count[i] \in Nat /\ (lock_count[i] = 0 <=> i \notin Locked)
<1>1. locks \in Seq(Ids)
  BY DEF IInv, TypeOK
<1>2. lock_count[i] = Cardinality(Positions(locks, i))
  BY DEF IInv, LocksAgree
<1> QED
  BY <1>1, <1>2, PositionsFinite DEF Locked

-----------------------------------------------------------------------------
(* Reading a chunk back: afterwards it is in memory with its content, and  *)
(* no other chunk is touched.                                              *)
LEMMA ReadBack ==
  ASSUME IInv, phase = "open", NEW i \in live
  PROVE  /\ i \in Ids /\ i < chunks_num
         /\ ReadPtr(i) \in [Ids -> Contents \cup {NoBytes}]
         /\ ReadPtr(i)[i] \in Contents /\ ReadPtr(i)[i] = Content[i]
         /\ Content[i] # NoBytes
         /\ \A j \in Ids : j # i => ReadPtr(i)[j] = ptr[j]
         /\ ReadFreed(i) \in [Ids -> BOOLEAN]
         /\ ~ReadFreed(i)[i]
         /\ \A j \in Ids : j # i => ReadFreed(i)[j] = is_freed[j]
<1>1. /\ i \in Ids /\ i < chunks_num
      /\ ptr \in [Ids -> Contents \cup {NoBytes}]
      /\ is_freed \in [Ids -> BOOLEAN]
      /\ ~is_freed[i] => ptr[i] \in Contents
      /\ is_freed[i] => cache /\ i \notin Locked \cup permanent /\ saved[i] \in Contents
  BY DEF IInv, TypeOK, ChunksOK
<1>2. Content[i] = IF is_freed[i] THEN saved[i] ELSE ptr[i]
  BY <1>1 DEF Content
<1>3. CASE is_freed[i]
  <2>1. MustRead(i)
    BY <1>1, <1>3, CountedLocked DEF MustRead
  <2>2. /\ ReadPtr(i) = [ptr EXCEPT ![i] = saved[i]]
        /\ ReadFreed(i) = [is_freed EXCEPT ![i] = FALSE]
    BY <2>1 DEF ReadPtr, ReadFreed
  <2> QED
    BY <1>1, <1>2, <1>3, <2>2, BytesAreBytes
<1>4. CASE ~is_freed[i]
  <2>1. ReadPtr(i) = ptr /\ ReadFreed(i) = is_freed
    BY <1>4 DEF ReadPtr, ReadFreed, MustRead
  <2> QED
    BY <1>1, <1>2, <1>4, <2>1, BytesAreBytes
<1> QED
  BY <1>3, <1>4

(* A call that reads the chunks of T back, puts bytes into them, or locks  *)
(* or unlocks one of them without evicting it.                             *)
LEMMA TouchChunks ==
  ASSUME IInv, phase = "open", NEW T \in SUBSET live,
         UNCHANGED <<cache, phase, chunks_num, permanent, described, saved, live>>,
         ptr' \in [Ids -> Contents \cup {NoBytes}],
         is_freed' \in [Ids -> BOOLEAN],
         \A j \in T : ~is_freed'[j] /\ ptr'[j] \in Contents,
         \A j \in Ids \ T : is_freed'[j] = is_freed[j] /\ ptr'[j] = ptr[j],
         locks' \in Seq(Ids), stale' \in SUBSET DOMAIN locks',
         Locked' \subseteq Locked \cup T, Held' \subseteq Held \cup T,
         lock_count' \in [Ids -> Int], LocksAgree'
  PROVE  IInv'
<1>1. TypeOK'
  BY DEF IInv, TypeOK
<1>2. ChunksOK'
  <2>1. live \subseteq Ids
    BY DEF IInv, TypeOK
  <2>2. Held' \subseteq live
    BY DEF IInv, ChunksOK
  <2>3. ASSUME NEW j \in live
        PROVE  /\ j < chunks_num
               /\ ~is_freed'[j] => ptr'[j] \in Contents
               /\ is_freed'[j] => /\ cache /\ j \notin Locked' \cup permanent
                                  /\ saved[j] \in Contents
    BY <2>1 DEF IInv, ChunksOK
  <2>4. \A j \in Ids \ live : is_freed'[j]
    BY DEF IInv, ChunksOK
  <2>5. \A j \in permanent \cup Locked' : j < chunks_num
    BY DEF IInv, ChunksOK
  <2> QED
    BY <2>2, <2>3, <2>4, <2>5 DEF ChunksOK
<1>3. ClosedOK'
  BY DEF ClosedOK
<1> QED
  BY <1>1, <1>2, <1>3 DEF IInv

(* The same for one chunk i, whose bytes become c, with the lock stack     *)
(* left alone; pointers into the chunk may become stale.                   *)
LEMMA TouchOne ==
  ASSUME IInv, phase = "open", NEW i \in live, NEW c \in Contents,
         UNCHANGED <<cache, phase, chunks_num, permanent, described, saved, live, locks, lock_count>>,
         ptr' = [ReadPtr(i) EXCEPT ![i] = c],
         is_freed' = ReadFreed(i), stale' = stale \/ Spoil(i)
  PROVE  IInv'
<1>1. /\ ptr' \in [Ids -> Contents \cup {NoBytes}]
      /\ is_freed' \in [Ids -> BOOLEAN]
      /\ ~is_freed'[i] /\ ptr'[i] \in Contents
      /\ \A j \in Ids \ {i} : is_freed'[j] = is_freed[j] /\ ptr'[j] = ptr[j]
  BY ReadBack
<1>2. /\ Locked' \subseteq Locked \cup {i} /\ Held' \subseteq Held \cup {i}
      /\ stale' \in SUBSET DOMAIN locks' /\ LocksAgree'
      /\ locks' \in Seq(Ids) /\ lock_count' \in [Ids -> Int]
  BY DEF Locked, Held, Spoil, IInv, LocksAgree, Positions, TypeOK
<1>3. {i} \in SUBSET live
  OBVIOUS
<1>4. \A j \in {i} : ~is_freed'[j] /\ ptr'[j] \in Contents
  BY <1>1
<1> QED
  BY ONLY <1>1, <1>2, <1>3, <1>4, IInv, phase = "open",
     UNCHANGED <<cache, phase, chunks_num, permanent, described, saved, live, locks, lock_count>>,
     TouchChunks

(* mem_AddChunk, to chunks that differ from the present ones at most in a  *)
(* chunk that was read back.                                               *)
LEMMA AddInvariant ==
  ASSUME IInv, phase = "open", NEW c \in Contents, NEW is_permanent \in BOOLEAN,
         NEW is_described \in BOOLEAN,
         NEW p \in [Ids -> Contents \cup {NoBytes}],
         NEW f \in [Ids -> BOOLEAN],
         \A j \in live : (~f[j] /\ p[j] \in Contents)
                         \/ (f[j] = is_freed[j] /\ p[j] = ptr[j]),
         \A j \in Ids \ live : f[j] = is_freed[j],
         AddChunk(c, is_permanent, is_described, p, f),
         UNCHANGED <<cache, phase, locks, stale, saved>>
  PROVE  IInv'
<1> DEFINE n == chunks_num
<1>1. /\ n \in Ids /\ n < MaxIds
      /\ chunks_num' = n + 1
      /\ ptr' = [p EXCEPT ![n] = c]
      /\ is_freed' = [f EXCEPT ![n] = FALSE]
      /\ lock_count' = [lock_count EXCEPT ![n] = 0]
      /\ permanent' = permanent \cup {n} \/ permanent' = permanent
      /\ live' = live \cup {n}
  BY MaxIdsAssumption DEF AddChunk, IInv, TypeOK, Ids
<1>2. /\ n \notin live /\ n \notin Locked /\ Held \subseteq live /\ live \subseteq Ids
      /\ n \notin permanent
  BY <1>1 DEF IInv, TypeOK, ChunksOK
<1>3. n \in Nat /\ chunks_num \in 0..MaxIds /\ \A j \in Ids : j \in Nat
  BY <1>1 DEF IInv, TypeOK, Ids
<1> HIDE DEF n
<1>4. TypeOK'
  <2>1. chunks_num' \in 0..MaxIds
    BY <1>1, <1>3, MaxIdsAssumption
  <2>2. /\ ptr' \in [Ids -> Contents \cup {NoBytes}]
        /\ is_freed' \in [Ids -> BOOLEAN]
    BY <1>1
  <2>3. lock_count' \in [Ids -> Int]
    BY <1>1 DEF IInv, TypeOK
  <2>4. permanent' \in SUBSET Ids /\ live' \in SUBSET Ids
    BY <1>1 DEF IInv, TypeOK
  <2>5. /\ cache' \in BOOLEAN /\ phase' \in {"open", "closed", "undefined"}
        /\ locks' \in Seq(Ids) /\ saved' \in [Ids -> Contents \cup {NoBytes}]
        /\ stale' \in SUBSET DOMAIN locks'
    BY DEF IInv, TypeOK
  <2>6. described' \in BOOLEAN
    BY DEF AddChunk
  <2> QED
    BY <2>1, <2>2, <2>3, <2>4, <2>5, <2>6 DEF TypeOK
<1>5. Locked' = Locked /\ Held' = Held
  BY DEF Locked, Held
<1>6. LocksAgree'
  <2>1. lock_count[n] = 0
    BY <1>1, <1>2, CountedLocked
  <2>2. lock_count' = lock_count
    BY <1>1, <2>1 DEF IInv, TypeOK
  <2> QED
    BY <2>2 DEF IInv, LocksAgree, Positions
<1>7. ChunksOK'
  <2>1. Held' \subseteq live'
    BY <1>1, <1>2, <1>5
  <2>2. ASSUME NEW j \in live'
        PROVE  /\ j < chunks_num'
               /\ ~is_freed'[j] => ptr'[j] \in Contents
               /\ is_freed'[j] => /\ cache' /\ j \notin Locked' \cup permanent'
                                  /\ saved'[j] \in Contents
    <3>1. CASE j = n
      BY <1>1, <1>3, <3>1
    <3>2. CASE j # n
      <4>1. j \in live /\ j \in Ids /\ is_freed'[j] = f[j] /\ ptr'[j] = p[j]
        BY <1>1, <1>2, <3>2
      <4>2. /\ j < chunks_num
            /\ ~is_freed[j] => ptr[j] \in Contents
            /\ is_freed[j] => cache /\ j \notin Locked \cup permanent /\ saved[j] \in Contents
        BY <4>1 DEF IInv, ChunksOK
      <4>3. j < chunks_num'
        BY <1>1, <1>3, <4>1, <4>2 DEF n
      <4>4. j \in permanent' => j \in permanent
        BY <1>1, <3>2
      <4> QED
        BY <1>5, <4>1, <4>2, <4>3, <4>4
    <3> QED
      BY <3>1, <3>2
  <2>3. \A j \in Ids \ live' : is_freed'[j]
    BY <1>1 DEF IInv, ChunksOK
  <2>4. ASSUME NEW j \in permanent' \cup Locked' PROVE j < chunks_num'
    <3>1. CASE j = n
      BY <1>1, <1>3, <3>1
    <3>2. CASE j # n
      <4>1. j \in Ids /\ j < chunks_num
        BY <1>1, <1>5, <2>4, <3>2 DEF IInv, TypeOK, ChunksOK, Locked
      <4> QED
        BY <1>1, <1>3, <4>1 DEF n
    <3> QED
      BY <3>1, <3>2
  <2> QED
    BY <2>1, <2>2, <2>3, <2>4 DEF ChunksOK
<1>8. ClosedOK'
  BY DEF ClosedOK
<1> QED
  BY <1>4, <1>6, <1>7, <1>8 DEF IInv

LEMMA FreshInvariant ==
  ASSUME cache \in BOOLEAN, phase = "open", live = {},
         Fresh(chunks_num, ptr, is_freed, lock_count, permanent, described,
               locks, stale, saved)
  PROVE  IInv
<1> USE MaxIdsAssumption DEF Fresh
<1>1. TypeOK
  <2>1. locks = << >> /\ stale = {} /\ described = FALSE
    OBVIOUS
  <2>2. locks \in Seq(Ids) /\ stale \in SUBSET DOMAIN locks
    BY ONLY <2>1
  <2>3. described \in BOOLEAN
    BY ONLY <2>1
  <2> QED
    BY <2>2, <2>3 DEF TypeOK
<1>2. Locked = {} /\ Held = {}
  BY DEF Locked, Held
<1>3. LocksAgree
  <2>1. ASSUME NEW i \in Ids PROVE Cardinality(Positions(locks, i)) = 0
    <3>1. Positions(locks, i) = {}
      BY DEF Positions
    <3> QED
      BY <3>1, FS_EmptySet
  <2> QED
    BY <2>1 DEF LocksAgree
<1>4. ChunksOK
  BY <1>2 DEF ChunksOK
<1> QED
  BY <1>1, <1>3, <1>4 DEF IInv, ClosedOK

LEMMA InitInvariant == Init => IInv
  BY FreshInvariant DEF Init

(* mem_unlock: the counter and the stack go down, and the chunk is evicted *)
(* when nobody else has it locked.                                         *)
LEMMA UnlockInvariant ==
  ASSUME IInv, NEW is_dirty \in BOOLEAN, Unlock(is_dirty)
  PROVE  IInv'
<1> DEFINE i == locks[Len(locks)]
<1>1. /\ phase = "open" /\ locks # << >>
      /\ locks' = SubSeq(locks, 1, Len(locks) - 1)
      /\ lock_count' = [lock_count EXCEPT ![i] = @ - 1]
      /\ stale' = stale \ {Len(locks)}
      /\ is_dirty => i \in live
      /\ UNCHANGED <<cache, phase, chunks_num, permanent, described, live>>
  BY DEF Unlock
<1>2. LocksAgree' /\ lock_count' \in [Ids -> Int]
  BY <1>1, UnlockCounts
<1>3. /\ i \in Locked /\ i \in Ids /\ locks' \in Seq(Ids)
      /\ Locked' \subseteq Locked /\ Held' \subseteq Held
      /\ stale' \in SUBSET DOMAIN locks'
  <2>1. /\ i \in Locked /\ i \in Ids /\ locks' \in Seq(Ids)
        /\ \A k \in DOMAIN locks' : locks'[k] = locks[k] /\ k \in DOMAIN locks
        /\ DOMAIN locks' = DOMAIN locks \ {Len(locks)}
    BY <1>1, Popped
  <2>2. stale \subseteq DOMAIN locks /\ stale' = stale \ {Len(locks)}
    BY <1>1 DEF IInv, TypeOK
  <2> QED
    BY <2>1, <2>2 DEF Locked, Held
<1>4. Held \subseteq live /\ live \subseteq Ids
  BY <1>1 DEF IInv, TypeOK, ChunksOK
<1>5. CASE Evicts(i, is_dirty)
  <2>0. i \in live /\ ~is_freed[i] /\ ptr[i] \in Contents
    BY <1>1, <1>3, <1>5 DEF Evicts, IInv, TypeOK, ChunksOK
  <2>1. /\ saved' = [saved EXCEPT ![i] = ptr[i]]
        /\ ptr' = [ptr EXCEPT ![i] = NoBytes]
        /\ is_freed' = [is_freed EXCEPT ![i] = TRUE]
    BY <1>5 DEF Unlock
  <2>2. cache /\ lock_count[i] = 1 /\ i \notin permanent
    BY <1>5 DEF Evicts
  <2> HIDE DEF i
  <2>3. i \notin Locked'
    <3>1. lock_count'[i] = 0
      BY <1>1, <1>3, <2>2 DEF IInv, TypeOK
    <3>2. Cardinality(Positions(locks', i)) = 0
      BY <1>2, <1>3, <3>1 DEF LocksAgree
    <3> QED
      BY <1>3, <3>2, PositionsFinite DEF Locked
  <2>4. TypeOK'
    BY <1>1, <1>2, <1>3, <1>4, <2>0, <2>1 DEF IInv, TypeOK
  <2>5. ChunksOK'
    <3>1. ASSUME NEW j \in live
          PROVE  /\ j < chunks_num
                 /\ ~is_freed'[j] => ptr'[j] \in Contents
                 /\ is_freed'[j] => /\ cache /\ j \notin Locked' \cup permanent
                                    /\ saved'[j] \in Contents
      <4>1. /\ j \in Ids /\ j < chunks_num
            /\ ~is_freed[j] => ptr[j] \in Contents
            /\ is_freed[j] => cache /\ j \notin Locked \cup permanent /\ saved[j] \in Contents
        BY <1>1, <1>4 DEF IInv, ChunksOK
      <4>2. CASE j = i
        BY <1>4, <2>0, <2>1, <2>2, <2>3, <4>1, <4>2 DEF IInv, TypeOK
      <4>3. CASE j # i
        BY <1>3, <2>1, <4>1, <4>3 DEF IInv, TypeOK
      <4> QED
        BY <4>2, <4>3
    <3>2. \A j \in Ids \ live : is_freed'[j]
      BY <1>1, <2>1 DEF IInv, TypeOK, ChunksOK
    <3>3. \A j \in permanent \cup Locked' : j < chunks_num
      BY <1>1, <1>3 DEF IInv, ChunksOK
    <3> QED
      BY <1>1, <1>3, <1>4, <3>1, <3>2, <3>3 DEF ChunksOK
  <2> QED
    BY <1>1, <1>2, <2>4, <2>5 DEF IInv, ClosedOK
<1>6. CASE ~Evicts(i, is_dirty)
  <2>1. UNCHANGED <<saved, ptr, is_freed>>
    BY <1>6 DEF Unlock
  <2>2. {} \in SUBSET live
    OBVIOUS
  <2>3. /\ ptr' \in [Ids -> Contents \cup {NoBytes}]
        /\ is_freed' \in [Ids -> BOOLEAN]
    BY <2>1 DEF IInv, TypeOK
  <2> HIDE DEF i
  <2>4. /\ \A j \in {} : ~is_freed'[j] /\ ptr'[j] \in Contents
        /\ \A j \in Ids \ {} : is_freed'[j] = is_freed[j] /\ ptr'[j] = ptr[j]
        /\ Locked' \subseteq Locked \cup {} /\ Held' \subseteq Held \cup {}
        /\ stale' \in SUBSET DOMAIN locks'
    BY <1>3, <1>4, <2>1
  <2>5. UNCHANGED <<cache, phase, chunks_num, permanent, described, saved, live>>
    BY <1>1, <2>1
  <2>6. phase = "open" /\ locks' \in Seq(Ids)
    BY <1>1, <1>3
  <2> QED
    BY ONLY IInv, <1>2, <2>2, <2>3, <2>4, <2>5, <2>6, TouchChunks
<1> QED
  BY <1>5, <1>6

(* mem_free, of a chunk in memory or of an evicted one. *)
LEMMA FreeInvariant ==
  ASSUME IInv, NEW i \in Ids, Free(i)
  PROVE  IInv'
<1>1. /\ phase = "open" /\ i \in live /\ Spoil(i)
      /\ live' = live \ {i}
      /\ UNCHANGED <<cache, phase, chunks_num, lock_count, permanent, described,
                     locks, saved>>
  BY DEF Free
<1>2. /\ ptr' \in [Ids -> Contents \cup {NoBytes}]
      /\ is_freed' \in [Ids -> BOOLEAN] /\ is_freed'[i]
      /\ \A j \in Ids \ {i} : is_freed'[j] = is_freed[j] /\ ptr'[j] = ptr[j]
  <2>1. ptr \in [Ids -> Contents \cup {NoBytes}] /\ is_freed \in [Ids -> BOOLEAN]
    BY DEF IInv, TypeOK
  <2>2. CASE is_freed[i]
    <3>1. ptr' = ptr /\ is_freed' = is_freed
      BY <2>2 DEF Free
    <3> QED
      BY <2>1, <2>2, <3>1
  <2>3. CASE ~is_freed[i]
    <3>1. /\ ptr' = [ptr EXCEPT ![i] = NoBytes]
          /\ is_freed' = [is_freed EXCEPT ![i] = TRUE]
      BY <2>3 DEF Free, Release
    <3> QED
      BY <2>1, <3>1
  <2> QED
    BY <2>2, <2>3
<1>3. TypeOK'
  BY <1>1, <1>2 DEF IInv, TypeOK, Spoil
<1>4. Locked' = Locked /\ Held' \subseteq Held \ {i} /\ LocksAgree'
  BY <1>1 DEF Locked, Held, Spoil, IInv, LocksAgree, Positions
<1>5. ChunksOK'
  <2>1. live \subseteq Ids /\ Held \subseteq live
    BY <1>1 DEF IInv, TypeOK, ChunksOK
  <2>2. ASSUME NEW j \in live'
        PROVE  /\ j < chunks_num
               /\ ~is_freed'[j] => ptr'[j] \in Contents
               /\ is_freed'[j] => /\ cache /\ j \notin Locked \cup permanent
                                  /\ saved[j] \in Contents
    <3>1. j \in live /\ j \in Ids \ {i}
      BY <1>1, <2>1
    <3> QED
      BY <1>1, <1>2, <3>1 DEF IInv, ChunksOK
  <2>3. ASSUME NEW j \in Ids \ live' PROVE is_freed'[j]
    <3>1. CASE j = i
      BY <1>2, <3>1
    <3>2. CASE j # i
      BY <1>1, <1>2, <2>3, <3>2 DEF IInv, ChunksOK
    <3> QED
      BY <3>1, <3>2
  <2>4. \A j \in permanent \cup Locked : j < chunks_num
    BY <1>1 DEF IInv, ChunksOK
  <2>5. Held' \subseteq live'
    BY <1>1, <1>4, <2>1
  <2> QED
    BY <1>1, <1>4, <2>2, <2>3, <2>4, <2>5 DEF ChunksOK
<1> QED
  BY <1>1, <1>3, <1>4, <1>5 DEF IInv, ClosedOK

LEMMA SameInvariant ==
  ASSUME IInv, UNCHANGED <<cache, phase, chunks_num, ptr, is_freed, lock_count,
                           permanent, described, locks, stale, saved, live>>
  PROVE  IInv'
<1>1. TypeOK' /\ ClosedOK'
  BY DEF IInv, TypeOK, ClosedOK
<1>2. LocksAgree'
  BY DEF IInv, LocksAgree, Positions
<1>3. ChunksOK'
  BY DEF IInv, ChunksOK, Locked, Held
<1> QED
  BY <1>1, <1>2, <1>3 DEF IInv

LEMMA NextInvariant == IInv /\ [Next]_vars => IInv'
<1> SUFFICES ASSUME IInv, [Next]_vars PROVE IInv'
  OBVIOUS
<1>1. ASSUME NEW c \in Contents, NEW is_permanent \in BOOLEAN,
             NEW is_described \in BOOLEAN, Create(c, is_permanent, is_described)
      PROVE  IInv'
  <2>1. /\ phase = "open" /\ AddChunk(c, is_permanent, is_described, ptr, is_freed)
        /\ UNCHANGED <<cache, phase, locks, stale, saved>>
    BY <1>1 DEF Create
  <2>2. /\ ptr \in [Ids -> Contents \cup {NoBytes}]
        /\ is_freed \in [Ids -> BOOLEAN]
    BY DEF IInv, TypeOK
  <2> QED
    BY <2>1, <2>2, AddInvariant
<1>2. ASSUME NEW i \in Ids, Copy(i) PROVE IInv'
  <2> DEFINE p == ReadPtr(i)
             f == ReadFreed(i)
  <2>1. /\ phase = "open" /\ i \in live
        /\ AddChunk(p[i], i \in permanent, TRUE, p, f)
        /\ UNCHANGED <<cache, phase, locks, stale, saved>>
    BY <1>2 DEF Copy
  <2>2. /\ p \in [Ids -> Contents \cup {NoBytes}]
        /\ f \in [Ids -> BOOLEAN]
        /\ p[i] \in Contents /\ ~f[i]
        /\ \A j \in Ids : j # i => p[j] = ptr[j] /\ f[j] = is_freed[j]
    BY <2>1, ReadBack
  <2>3. live \subseteq Ids
    BY DEF IInv, TypeOK
  <2> HIDE DEF p, f
  <2>4. /\ \A j \in live : (~f[j] /\ p[j] \in Contents)
                           \/ (f[j] = is_freed[j] /\ p[j] = ptr[j])
        /\ \A j \in Ids \ live : f[j] = is_freed[j]
    BY <2>1, <2>2, <2>3
  <2>5. \E q, d \in BOOLEAN : AddChunk(p[i], q, d, p, f)
    <3>1. AddChunk(p[i], TRUE, TRUE, p, f) \/ AddChunk(p[i], FALSE, TRUE, p, f)
      BY <2>1 DEF AddChunk
    <3> QED
      BY <3>1
  <2>6. phase = "open" /\ UNCHANGED <<cache, phase, locks, stale, saved>>
    BY <2>1
  <2> QED
    BY ONLY IInv, <2>2, <2>4, <2>5, <2>6, AddInvariant
<1>3. ASSUME NEW i \in Ids, Lock(i) PROVE IInv'
  <2>1. /\ phase = "open" /\ i \in live
        /\ ptr' = ReadPtr(i) /\ is_freed' = ReadFreed(i)
        /\ lock_count' = [lock_count EXCEPT ![i] = @ + 1]
        /\ locks' = Append(locks, i)
        /\ UNCHANGED <<cache, phase, chunks_num, permanent, described, stale, saved, live>>
    BY <1>3 DEF Lock, Counted
  <2>2. LocksAgree' /\ lock_count' \in [Ids -> Int]
    BY <2>1, LockCounts
  <2>3. /\ ptr' \in [Ids -> Contents \cup {NoBytes}]
        /\ is_freed' \in [Ids -> BOOLEAN]
        /\ \A j \in {i} : ~is_freed'[j] /\ ptr'[j] \in Contents
        /\ \A j \in Ids \ {i} : is_freed'[j] = is_freed[j] /\ ptr'[j] = ptr[j]
    BY <2>1, ReadBack
  <2>4. /\ locks' \in Seq(Ids) /\ stale' \in SUBSET DOMAIN locks'
        /\ Locked' \subseteq Locked \cup {i} /\ Held' \subseteq Held \cup {i}
    <3>1. /\ locks \in Seq(Ids) /\ i \in Ids /\ stale \subseteq DOMAIN locks
          /\ Len(locks) \in Nat /\ DOMAIN locks = 1..Len(locks)
      BY <2>1 DEF IInv, TypeOK
    <3>2. /\ locks' \in Seq(Ids) /\ DOMAIN locks' = 1..(Len(locks) + 1)
          /\ \A k \in 1..Len(locks) : locks'[k] = locks[k]
          /\ locks'[Len(locks) + 1] = i
      BY <2>1, <3>1, AppendProperties
    <3>3. \A k \in DOMAIN locks' : k \in DOMAIN locks \/ locks'[k] = i
      BY <3>1, <3>2
    <3> QED
      BY <2>1, <3>1, <3>2, <3>3 DEF Locked, Held
  <2>5. {i} \in SUBSET live
    BY <2>1
  <2> QED
    BY ONLY IInv, <2>1, <2>2, <2>3, <2>4, <2>5, TouchChunks
<1>4. ASSUME NEW i \in Ids, NEW c \in Contents, CopyTo(i, c) \/ Realloc(i, c) PROVE IInv'
  <2>1. /\ phase = "open" /\ i \in live
        /\ ptr' = [ReadPtr(i) EXCEPT ![i] = c] /\ is_freed' = ReadFreed(i)
        /\ UNCHANGED <<cache, phase, chunks_num, permanent, described, saved, live, locks, lock_count>>
        /\ stale' = stale \/ Spoil(i)
    BY <1>4 DEF CopyTo, Realloc
  <2> QED
    BY <2>1, TouchOne
<1>5. ASSUME NEW i \in Ids, NEW c \in Contents, Store(i, c) PROVE IInv'
  <2>1. /\ phase = "open" /\ i \in Held /\ i \in Locked
        /\ ptr' = [ptr EXCEPT ![i] = c]
        /\ UNCHANGED <<cache, phase, chunks_num, permanent, described, is_freed, saved, live, locks,
                       stale, lock_count>>
    BY <1>5 DEF Store, Held, Locked
  <2>2. i \in live /\ ~is_freed[i]
    BY <2>1 DEF IInv, ChunksOK
  <2>3. ReadPtr(i) = ptr /\ ReadFreed(i) = is_freed
    BY <2>2 DEF ReadPtr, ReadFreed, MustRead
  <2> QED
    BY <2>1, <2>2, <2>3, TouchOne
<1>6. ASSUME NEW i \in Ids, CopyFrom(i) PROVE IInv'
  <2>1. /\ phase = "open" /\ i \in live
        /\ ptr' = ReadPtr(i) /\ is_freed' = ReadFreed(i)
        /\ UNCHANGED <<cache, phase, chunks_num, permanent, described, saved, live, locks, lock_count>>
        /\ stale' = stale
    BY <1>6 DEF CopyFrom
  <2>2. /\ ReadPtr(i) \in [Ids -> Contents \cup {NoBytes}]
        /\ ReadPtr(i)[i] \in Contents /\ i \in Ids
    BY <2>1, ReadBack
  <2>3. ptr' = [ReadPtr(i) EXCEPT ![i] = ReadPtr(i)[i]]
    BY <2>1, <2>2
  <2> QED
    BY <2>1, <2>2, <2>3, TouchOne
<1>7. ASSUME NEW i \in Ids, NEW j \in Ids, Compare(i, j) PROVE IInv'
  <2>1. /\ phase = "open" /\ i \in live /\ j \in live
        /\ ptr' = [ReadPtr(i) EXCEPT ![j] = ReadPtr(j)[j]]
        /\ is_freed' = [ReadFreed(i) EXCEPT ![j] = ReadFreed(j)[j]]
        /\ UNCHANGED <<cache, phase, chunks_num, permanent, described, saved, live, locks, lock_count>>
        /\ stale' = stale
    BY <1>7 DEF Compare
  <2>2. /\ ptr' \in [Ids -> Contents \cup {NoBytes}]
        /\ is_freed' \in [Ids -> BOOLEAN]
        /\ \A k \in {i, j} : ~is_freed'[k] /\ ptr'[k] \in Contents
        /\ \A k \in Ids \ {i, j} : is_freed'[k] = is_freed[k] /\ ptr'[k] = ptr[k]
    BY <2>1, ReadBack
  <2>3. /\ Locked' \subseteq Locked \cup {i, j} /\ Held' \subseteq Held \cup {i, j}
        /\ LocksAgree' /\ stale' \in SUBSET DOMAIN locks'
        /\ locks' \in Seq(Ids) /\ lock_count' \in [Ids -> Int]
    BY <2>1 DEF Locked, Held, IInv, LocksAgree, Positions, TypeOK
  <2>4. {i, j} \in SUBSET live
    BY <2>1
  <2> QED
    BY ONLY IInv, <2>1, <2>2, <2>3, <2>4, TouchChunks
<1>8. ASSUME NEW i \in Ids, Load(i) PROVE IInv'
  BY <1>8, SameInvariant DEF Load
<1>9. ASSUME Close PROVE IInv'
  BY <1>9 DEF Close, IInv, TypeOK, LocksAgree, Positions, ChunksOK, ClosedOK
<1>10. ASSUME Reopen PROVE IInv'
  <2>1. /\ cache' \in BOOLEAN /\ phase' = "open" /\ live' = {}
        /\ Fresh(chunks_num', ptr', is_freed', lock_count', permanent', described',
                 locks', stale', saved')
    BY <1>10 DEF Reopen, IInv, TypeOK, ClosedOK
  <2> USE MaxIdsAssumption DEF Fresh
  <2>2. TypeOK'
    <3>1. locks' = << >> /\ stale' = {} /\ described' = FALSE
      BY <2>1
    <3>2. locks' \in Seq(Ids) /\ stale' \in SUBSET DOMAIN locks'
      BY ONLY <3>1
    <3>3. described' \in BOOLEAN
      BY ONLY <3>1
    <3> QED
      BY <2>1, <3>2, <3>3 DEF TypeOK
  <2>3. Locked' = {} /\ Held' = {}
    BY <2>1 DEF Locked, Held
  <2>4. LocksAgree'
    <3>1. ASSUME NEW i \in Ids PROVE Cardinality(Positions(locks', i)) = 0
      <4>1. Positions(locks', i) = {}
        BY <2>1 DEF Positions
      <4> QED
        BY <4>1, FS_EmptySet
    <3> QED
      BY <2>1, <3>1 DEF LocksAgree
  <2>5. ChunksOK'
    BY <2>1, <2>3 DEF ChunksOK
  <2> QED
    BY <2>1, <2>2, <2>4, <2>5 DEF IInv, ClosedOK
<1>11. CASE UNCHANGED vars
  BY <1>11, SameInvariant DEF vars
<1> QED
  BY <1>1, <1>2, <1>3, <1>4, <1>5, <1>6, <1>7, <1>8, <1>9, <1>10, <1>11,
     UnlockInvariant, FreeInvariant DEF Next

(* The inductive invariant of the debugging managers, with and without a   *)
(* store: what the interpreter owns is in memory or in the store, and the  *)
(* two books of the locks agree.                                           *)
THEOREM Invariance == Spec => []IInv
<1> QED
  BY InitInvariant, NextInvariant, PTL DEF Spec

(* The counter of each chunk, by which mem_unlock decides to evict, counts *)
(* its places on the lock stack.                                           *)
THEOREM CountersAgree == Spec => []LocksAgree
<1>1. IInv => LocksAgree
  BY DEF IInv
<1> QED
  BY Invariance, <1>1, PTL

(* mem_Close reports no leak exactly when nothing is locked and no chunk   *)
(* in memory was never freed.                                              *)
THEOREM LeaksReported == Spec => []LeaksFound
<1>1. IInv => LeaksFound
  <2> SUFFICES ASSUME IInv, phase = "open"
               PROVE  mem_DebugHeapWalk <=> locks = << >> /\ \A i \in live : is_freed[i]
    BY DEF LeaksFound
  <2>1. /\ locks \in Seq(Ids) /\ live \subseteq Ids
        /\ \A i \in live : i < chunks_num
        /\ \A i \in Ids \ live : is_freed[i]
        /\ Locked \subseteq Ids /\ \A i \in Locked : i < chunks_num
    BY DEF IInv, TypeOK, ChunksOK, Locked
  <2>2. \A i \in Ids : lock_count[i] \in Nat /\ (lock_count[i] = 0 <=> i \notin Locked)
    BY CountedLocked
  <2>3. locks = << >> <=> Locked = {}
    <3>1. locks # << >> => locks[Len(locks)] \in Locked
      BY Popped
    <3> QED
      BY <3>1 DEF Locked
  <2>4. \A i \in Ids : lock_count[i] <= 0 <=> i \notin Locked
    BY <2>2
  <2> QED
    BY <2>1, <2>3, <2>4 DEF mem_DebugHeapWalk
<1> QED
  BY Invariance, <1>1, PTL

-----------------------------------------------------------------------------
(* The instance of module Memory speaks of the same bytes and calls. *)
LEMMA SameWords ==
  /\ M!NoBytes = NoBytes /\ M!NoCall = NoCall /\ M!Contents = Contents
  /\ \A op, i, c : M!Call(op, i, c) = Call(op, i, c)
  /\ \A i, j, equal : M!Compared(i, j, equal) = Compared(i, j, equal)
  /\ \A a, b : M!SamePrefix(a, b) <=> SamePrefix(a, b)
  BY DEF M!NoBytes, NoBytes, M!NoCall, NoCall, M!Contents, Contents,
         M!Call, Call, M!Compared, Compared, M!SamePrefix, SamePrefix

(* Two contents are the same when they are the same chunk by chunk. *)
LEMMA SameContent ==
  ASSUME NEW D, D = [j \in Ids |-> D[j]], \A j \in Ids : Content'[j] = D[j]
  PROVE  Content' = D
<1>1. Content' = [j \in Ids |-> Content'[j]]
  BY DEF Content
<1> QED
  BY <1>1

LEMMA ContentOfChunks ==
  ASSUME UNCHANGED <<ptr, is_freed, saved, live>>
  PROVE  Content' = Content
  BY DEF Content

(* Reading the chunks of T back changes no content. *)
LEMMA ReadContent ==
  ASSUME IInv, phase = "open", NEW T \in SUBSET live, UNCHANGED <<saved, live>>,
         \A j \in T : ~is_freed'[j] /\ ptr'[j] = Content[j],
         \A j \in Ids \ T : is_freed'[j] = is_freed[j] /\ ptr'[j] = ptr[j]
  PROVE  Content' = Content
<1>1. Content = [j \in Ids |-> Content[j]]
  BY DEF Content
<1>2. ASSUME NEW j \in Ids PROVE Content'[j] = Content[j]
  BY DEF Content
<1> QED
  BY <1>1, <1>2, SameContent

(* Reading chunk i back and putting bytes c into it changes no other.      *)
LEMMA TouchContent ==
  ASSUME IInv, phase = "open", NEW i \in live, NEW c \in Contents,
         UNCHANGED <<saved, live>>,
         is_freed' = ReadFreed(i),
         ptr' = [ReadPtr(i) EXCEPT ![i] = c]
  PROVE  Content' = [Content EXCEPT ![i] = c]
<1> DEFINE D == [Content EXCEPT ![i] = c]
<1>1. /\ i \in Ids /\ ~is_freed'[i] /\ ptr'[i] = c
      /\ \A j \in Ids : j # i => is_freed'[j] = is_freed[j] /\ ptr'[j] = ptr[j]
  BY ReadBack
<1>2. DOMAIN Content = Ids
  BY DEF Content
<1>3. ASSUME NEW j \in Ids PROVE Content'[j] = D[j]
  BY <1>1 DEF Content
<1>4. D = [j \in Ids |-> D[j]]
  BY <1>2
<1> HIDE DEF D
<1>5. Content' = D
  BY <1>3, <1>4, SameContent
<1> QED
  BY <1>5 DEF D

(* A chunk that mem_AddChunk adds is new to the memory. *)
LEMMA AddContent ==
  ASSUME IInv, phase = "open", NEW c \in Contents, NEW is_permanent, NEW is_described,
         NEW p \in [Ids -> Contents \cup {NoBytes}],
         NEW f \in [Ids -> BOOLEAN],
         AddChunk(c, is_permanent, is_described, p, f), UNCHANGED saved,
         \A j \in live : (IF f[j] THEN saved[j] ELSE p[j]) = Content[j]
  PROVE  /\ chunks_num \in Ids /\ Content[chunks_num] = NoBytes
         /\ Content' = [Content EXCEPT ![chunks_num] = c]
<1> DEFINE n == chunks_num
           D == [Content EXCEPT ![n] = c]
<1>1. /\ n \in Ids
      /\ ptr' = [p EXCEPT ![n] = c]
      /\ is_freed' = [f EXCEPT ![n] = FALSE]
      /\ live' = live \cup {n}
  BY MaxIdsAssumption DEF AddChunk, IInv, TypeOK, Ids
<1>2. n \notin live
  BY <1>1 DEF IInv, TypeOK, ChunksOK, Ids
<1>3. Content[n] = NoBytes
  BY <1>1, <1>2 DEF Content
<1>4. DOMAIN Content = Ids
  BY DEF Content
<1> HIDE DEF n
<1>5. ASSUME NEW j \in Ids PROVE Content'[j] = D[j]
  BY <1>1, <1>2 DEF Content
<1>6. D = [j \in Ids |-> D[j]]
  BY <1>4
<1> HIDE DEF D
<1>7. Content' = D
  BY <1>5, <1>6, SameContent
<1> QED
  BY <1>1, <1>3, <1>7 DEF n, D

(* Every step of the manager is a step of the memory, or changes nothing   *)
(* that a caller can see.                                                  *)
LEMMA StepRefines == IInv /\ [Next]_vars => [M!Next]_<<Content, call>>
<1> SUFFICES ASSUME IInv, [Next]_vars PROVE [M!Next]_<<Content, call>>
  OBVIOUS
<1> USE SameWords
<1>1. ASSUME NEW c \in Contents, NEW is_permanent \in BOOLEAN,
             NEW is_described \in BOOLEAN, Create(c, is_permanent, is_described)
      PROVE  M!Next
  <2>1. /\ phase = "open" /\ UNCHANGED saved
        /\ AddChunk(c, is_permanent, is_described, ptr, is_freed)
        /\ call' = Call("alloc", chunks_num, c)
    BY <1>1 DEF Create
  <2>2. /\ ptr \in [Ids -> Contents \cup {NoBytes}]
        /\ is_freed \in [Ids -> BOOLEAN]
        /\ \A j \in live : (IF is_freed[j] THEN saved[j] ELSE ptr[j]) = Content[j]
    BY DEF IInv, TypeOK, Content
  <2>3. chunks_num \in Ids /\ M!Alloc(chunks_num, c)
    BY <2>1, <2>2, AddContent DEF M!Alloc
  <2> QED
    BY <2>3 DEF M!Next
<1>2. ASSUME NEW i \in Ids, Copy(i) PROVE M!Next
  <2> DEFINE p == ReadPtr(i)
             f == ReadFreed(i)
             q == i \in permanent
  <2>1. /\ phase = "open" /\ i \in live /\ UNCHANGED saved
        /\ AddChunk(p[i], q, TRUE, p, f)
        /\ call' = Call("copy", i, p[i])
    BY <1>2 DEF Copy
  <2>2. /\ p \in [Ids -> Contents \cup {NoBytes}] /\ f \in [Ids -> BOOLEAN]
        /\ p[i] = Content[i] /\ p[i] \in Contents /\ Content[i] # NoBytes /\ ~f[i]
        /\ \A j \in Ids : j # i => p[j] = ptr[j] /\ f[j] = is_freed[j]
    BY <2>1, ReadBack
  <2> HIDE DEF p, f, q
  <2>3. ASSUME NEW j \in live
        PROVE  (IF f[j] THEN saved[j] ELSE p[j]) = Content[j]
    <3>1. j \in Ids /\ Content[j] = IF is_freed[j] THEN saved[j] ELSE ptr[j]
      BY DEF Content, IInv, TypeOK
    <3> QED
      BY <2>2, <3>1
  <2>4. /\ chunks_num \in Ids /\ Content[chunks_num] = NoBytes
        /\ Content' = [Content EXCEPT ![chunks_num] = p[i]]
    BY ONLY IInv, <2>1, <2>2, <2>3, AddContent
  <2>5. M!Copy(i, chunks_num)
    BY <2>1, <2>2, <2>4 DEF M!Copy
  <2> QED
    BY <2>4, <2>5 DEF M!Next
<1>3. ASSUME NEW i \in Ids, Lock(i) \/ CopyFrom(i) PROVE M!Next
  <2>1. /\ phase = "open" /\ i \in live /\ UNCHANGED <<saved, live>>
        /\ ptr' = ReadPtr(i) /\ is_freed' = ReadFreed(i)
        /\ call' = NoCall \/ call' = Call("read", i, ReadPtr(i)[i])
    BY <1>3 DEF Lock, CopyFrom
  <2>2. ReadPtr(i)[i] = Content[i] /\ Content[i] # NoBytes
    BY <2>1, ReadBack
  <2>3. Content' = Content
    <3>1. /\ \A j \in {i} : ~is_freed'[j] /\ ptr'[j] = Content[j]
          /\ \A j \in Ids \ {i} : is_freed'[j] = is_freed[j] /\ ptr'[j] = ptr[j]
      BY <2>1, ReadBack
    <3>2. {i} \in SUBSET live
      BY <2>1
    <3> QED
      BY ONLY IInv, <2>1, <3>1, <3>2, ReadContent
  <2>4. M!Internal \/ M!Read(i)
    BY <2>1, <2>2, <2>3 DEF M!Internal, M!Read
  <2> QED
    BY <2>4 DEF M!Next
<1>4. ASSUME NEW i \in Ids, NEW j \in Ids, Compare(i, j) PROVE M!Next
  <2>1. /\ phase = "open" /\ i \in live /\ j \in live /\ UNCHANGED <<saved, live>>
        /\ ptr' = [ReadPtr(i) EXCEPT ![j] = ReadPtr(j)[j]]
        /\ is_freed' = [ReadFreed(i) EXCEPT ![j] = ReadFreed(j)[j]]
        /\ call' = Compared(i, j, ReadPtr(i)[i] = ReadPtr(j)[j])
    BY <1>4 DEF Compare
  <2>2. /\ ReadPtr(i)[i] = Content[i] /\ ReadPtr(j)[j] = Content[j]
        /\ Content[i] # NoBytes /\ Content[j] # NoBytes
    BY <2>1, ReadBack
  <2>3. Content' = Content
    <3>1. /\ \A k \in {i, j} : ~is_freed'[k] /\ ptr'[k] = Content[k]
          /\ \A k \in Ids \ {i, j} : is_freed'[k] = is_freed[k] /\ ptr'[k] = ptr[k]
      BY <2>1, ReadBack
    <3>2. {i, j} \in SUBSET live
      BY <2>1
    <3> QED
      BY ONLY IInv, <2>1, <3>1, <3>2, ReadContent
  <2>4. M!Compare(i, j)
    BY <2>1, <2>2, <2>3 DEF M!Compare
  <2> QED
    BY <2>4 DEF M!Next
<1>5. ASSUME NEW i \in Ids, Load(i) PROVE M!Next
  <2>1. /\ phase = "open" /\ i \in live /\ ~is_freed[i]
        /\ UNCHANGED <<ptr, is_freed, saved, live>>
        /\ call' = Call("read", i, ptr[i])
    BY <1>5 DEF Load, IInv, ChunksOK, Held, Locked
  <2>2. Content[i] = ptr[i] /\ Content[i] # NoBytes
    BY <2>1, ReadBack DEF Content
  <2>3. M!Read(i)
    BY <2>1, <2>2, ContentOfChunks DEF M!Read
  <2> QED
    BY <2>3 DEF M!Next
<1>6. ASSUME NEW i \in Ids, NEW c \in Contents, Store(i, c) \/ CopyTo(i, c) PROVE M!Next
  <2>1. /\ phase = "open" /\ i \in live /\ UNCHANGED <<saved, live>>
        /\ is_freed' = ReadFreed(i)
        /\ ptr' = [ReadPtr(i) EXCEPT ![i] = c]
        /\ Len(c) = Len(ReadPtr(i)[i])
        /\ call' = Call("write", i, c)
    BY <1>6 DEF Store, CopyTo, IInv, ChunksOK, Held, Locked, ReadPtr, ReadFreed, MustRead
  <2>2. M!Write(i, c)
    BY <2>1, ReadBack, TouchContent DEF M!Write
  <2> QED
    BY <2>2 DEF M!Next
<1>7. ASSUME NEW i \in Ids, NEW c \in Contents, Realloc(i, c) PROVE M!Next
  <2>1. /\ phase = "open" /\ i \in live /\ UNCHANGED <<saved, live>>
        /\ is_freed' = ReadFreed(i)
        /\ ptr' = [ReadPtr(i) EXCEPT ![i] = c]
        /\ SamePrefix(c, ReadPtr(i)[i])
        /\ call' = Call("resize", i, c)
    BY <1>7 DEF Realloc
  <2>2. Content' = [Content EXCEPT ![i] = NoBytes, ![i] = c]
    <3>1. Content' = [Content EXCEPT ![i] = c]
      BY <2>1, TouchContent
    <3> HIDE DEF Content
    <3> QED
      BY <3>1
  <2>3. M!Resize(i, i, c)
    BY <2>1, <2>2, ReadBack DEF M!Resize
  <2> QED
    BY <2>3 DEF M!Next
<1>8. ASSUME NEW is_dirty \in BOOLEAN, Unlock(is_dirty) PROVE M!Next
  <2> DEFINE i == locks[Len(locks)]
  <2>1. /\ phase = "open" /\ i \in Ids /\ i \in Locked
        /\ is_dirty => i \in live /\ ~is_freed[i]
        /\ UNCHANGED live /\ call' = NoCall
    BY <1>8, Popped DEF Unlock, IInv, ChunksOK
  <2>2. Content' = Content
    <3>1. CASE Evicts(i, is_dirty)
      <4>1. /\ saved' = [saved EXCEPT ![i] = ptr[i]]
            /\ is_freed' = [is_freed EXCEPT ![i] = TRUE]
            /\ ptr' = [ptr EXCEPT ![i] = NoBytes]
        BY <1>8, <3>1 DEF Unlock
      <4>0. i \in live /\ ~is_freed[i]
        BY <2>1, <3>1 DEF Evicts
      <4> HIDE DEF i
      <4>2. ASSUME NEW j \in Ids PROVE Content'[j] = Content[j]
        BY <2>1, <4>0, <4>1 DEF Content, IInv, TypeOK
      <4>3. Content = [j \in Ids |-> Content[j]]
        BY DEF Content
      <4> QED
        BY <4>2, <4>3, SameContent
    <3>2. CASE ~Evicts(i, is_dirty)
      BY <1>8, <2>1, <3>2, ContentOfChunks DEF Unlock
    <3> QED
      BY <3>1, <3>2
  <2> QED
    BY <2>1, <2>2 DEF M!Next, M!Internal
<1>9. ASSUME NEW i \in Ids, Free(i) PROVE M!Next
  <2>1. /\ phase = "open" /\ i \in live /\ UNCHANGED saved /\ live' = live \ {i}
        /\ call' = Call("free", i, NoBytes)
    BY <1>9 DEF Free
  <2>2. \A j \in Ids : j # i => is_freed'[j] = is_freed[j] /\ ptr'[j] = ptr[j]
    BY <1>9 DEF Free, Release, IInv, TypeOK
  <2>3. Content' = [Content EXCEPT ![i] = NoBytes]
    <3> DEFINE D == [Content EXCEPT ![i] = NoBytes]
    <3>1. ASSUME NEW j \in Ids PROVE Content'[j] = D[j]
      BY <2>1, <2>2 DEF Content
    <3>2. DOMAIN Content = Ids
      BY DEF Content
    <3>3. D = [j \in Ids |-> D[j]]
      BY <3>2
    <3> HIDE DEF D
    <3>4. Content' = D
      BY <3>1, <3>3, SameContent
    <3> QED
      BY <3>4 DEF D
  <2>4. M!Free(i)
    BY <2>1, <2>3, ReadBack DEF M!Free
  <2> QED
    BY <2>4 DEF M!Next
<1>10. ASSUME Close PROVE M!Next
  <2>1. Content' = [i \in Ids |-> NoBytes] /\ call' = Call("close", 0, NoBytes)
    BY <1>10 DEF Close, Content
  <2> QED
    BY <2>1 DEF M!Next, M!Close
<1>11. ASSUME Reopen PROVE M!Next
  <2>1. live = {} /\ live' = {} /\ call' = NoCall
    BY <1>11 DEF Reopen, IInv, ClosedOK
  <2>2. Content' = Content
    BY <2>1 DEF Content
  <2> QED
    BY <2>1, <2>2 DEF M!Next, M!Internal
<1>12. CASE UNCHANGED vars
  BY <1>12, ContentOfChunks DEF vars
<1> QED
  BY <1>1, <1>2, <1>3, <1>4, <1>5, <1>6, <1>7, <1>8, <1>9, <1>10, <1>11, <1>12 DEF Next

(* To their callers the debugging managers are the memory that the caching *)
(* manager is.                                                             *)
THEOREM DebugIsMemory == Spec => IsMemory
<1>1. Init => M!Init
  BY SameWords DEF Init, M!Init, Content
<1> QED
  BY <1>1, InitInvariant, NextInvariant, StepRefines, PTL DEF Spec, IsMemory, M!Spec
=============================================================================
