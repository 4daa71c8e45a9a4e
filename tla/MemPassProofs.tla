---------------------------- MODULE MemPassProofs ---------------------------
(***************************************************************************)
(* Proofs about the memory manager of features.h, for every number of      *)
(* addresses, every size of a chunk and every width of a char.             *)
(***************************************************************************)
EXTENDS MemPass, SequenceTheorems, TLAPS

LEMMA BytesOfChunk ==
  ASSUME NEW c \in Contents
  PROVE  c \in Seq(Cells) /\ Len(c) \in 1..MaxSize /\ c # NoBytes
<1>1. PICK n \in 1..MaxSize : c \in [1..n -> Cells]
  BY DEF Contents
<1>2. Len(c) = n /\ c \in Seq(Cells)
  BY <1>1, MaxSizeAssumption
<1>3. 1 \in DOMAIN c
  BY <1>1, MaxSizeAssumption
<1> QED
  BY <1>2, <1>3, MaxSizeAssumption DEF NoBytes

LEMMA SmallMod ==
  ASSUME NEW x \in Nat, NEW b \in Nat, x < b
  PROVE  x % b = x
  BY Z3T(30)

LEMMA ModBounded ==
  ASSUME NEW x \in Nat, NEW b \in Nat, b > 0
  PROVE  x % b \in 0..x /\ x % b < b
  BY Z3T(30)

(* As long as it is less than half the values of a char, the lowest byte   *)
(* of a header is the header.                                              *)
LEMMA SmallSize ==
  ASSUME NEW i \in Ids, size[i] \in 1..(Bytes \div 2 - 1)
  PROVE  mem_get_size(i) = size[i]
<1>1. size[i] \in Nat /\ size[i] < Bytes \div 2 /\ size[i] < Bytes /\ Bytes \div 2 <= Bytes /\ Bytes \in Nat
      /\ Bytes > 0
  BY BytesAssumption
<1>2. size[i] % Bytes = size[i]
  BY ONLY <1>1, SmallMod
<1> QED
  BY <1>1, <1>2 DEF mem_get_size

LEMMA InitInvariant == Init => IInv
<1> SUFFICES ASSUME Init PROVE IInv
  OBVIOUS
<1>1. size \in [Ids -> 0..MaxSize]
  BY MaxSizeAssumption DEF Init
<1>2. bytes \in [Ids -> Contents \cup {NoBytes}]
  BY DEF Init
<1>3. HeadersTrue
  BY DEF Init, HeadersTrue
<1> QED
  BY <1>1, <1>2, <1>3 DEF Init, IInv, TypeOK

(* A chunk that appears at a free address, with a header that fits it. *)
LEMMA NewInvariant ==
  ASSUME IInv, NEW i \in Ids, NEW c \in Contents \cup {NoBytes}, New(i, c)
  PROVE  IInv'
<1>1. Len(c) \in 0..MaxSize
  BY BytesOfChunk, MaxSizeAssumption DEF NoBytes
<1>2. TypeOK'
  <2>1. size' \in [Ids -> 0..MaxSize]
    BY <1>1, MaxSizeAssumption DEF New, IInv, TypeOK
  <2>2. bytes' \in [Ids -> Contents \cup {NoBytes}]
    BY DEF New, IInv, TypeOK
  <2> QED
    BY <2>1, <2>2 DEF New, IInv, TypeOK
<1>3. HeadersTrue'
  BY DEF New, IInv, TypeOK, HeadersTrue
<1> QED
  BY <1>2, <1>3 DEF IInv

(* The bytes mem_copy takes are a chunk of their own, if there are any. *)
LEMMA TakeIsContent ==
  ASSUME NEW c \in Contents \cup {NoBytes}, NEW n \in 0..Len(c)
  PROVE  Take(c, n) \in Contents \cup {NoBytes}
<1>1. CASE n = 0
  BY <1>1 DEF Take, NoBytes, Contents
<1>2. CASE n # 0
  <2>1. c \in Contents
    BY <1>2 DEF NoBytes
  <2>2. c \in Seq(Cells) /\ Len(c) \in 1..MaxSize
    BY <2>1, BytesOfChunk
  <2>3. Take(c, n) = [k \in 1..n |-> c[k]]
    BY <2>2 DEF Take
  <2>4. Take(c, n) \in [1..n -> Cells]
    BY <2>2, <2>3
  <2>5. n \in 1..MaxSize
    BY <1>2, <2>2, MaxSizeAssumption
  <2> QED
    BY <2>4, <2>5 DEF Contents
<1> QED
  BY <1>1, <1>2

LEMMA CopyInvariant ==
  ASSUME IInv, NEW i \in Ids, NEW j \in Ids, Copy(i, j)
  PROVE  IInv'
<1>1. CASE mem_get_size(i) < 0
  BY <1>1 DEF Copy, Crash, IInv, TypeOK, HeadersTrue
<1>2. CASE ~(mem_get_size(i) < 0)
  <2>1. bytes[i] \in Contents \cup {NoBytes} /\ size[i] = Len(bytes[i]) /\ size[i] \in Nat
    BY MaxSizeAssumption DEF Copy, IInv, TypeOK, HeadersTrue
  <2>2. mem_get_size(i) \in 0..Len(bytes[i])
    <3>1. Bytes \in Nat /\ Bytes > 0 /\ Bytes \div 2 \in Nat
      BY BytesAssumption
    <3>2. size[i] % Bytes \in 0..size[i] /\ size[i] % Bytes < Bytes
      BY ONLY <2>1, <3>1, ModBounded
    <3>3. PICK low : low = size[i] % Bytes
      OBVIOUS
    <3>4. mem_get_size(i) = IF low < Bytes \div 2 THEN low ELSE low - Bytes
      BY <3>3 DEF mem_get_size
    <3>5. low \in Int /\ 0 <= low /\ low <= size[i] /\ low < Bytes
      BY <2>1, <3>2, <3>3
    <3> QED
      BY ONLY <1>2, <2>1, <3>1, <3>4, <3>5
  <2>3. Take(bytes[i], mem_get_size(i)) \in Contents \cup {NoBytes}
    BY <2>1, <2>2, TakeIsContent
  <2> QED
    BY <1>2, <2>3, NewInvariant DEF Copy
<1> QED
  BY <1>1, <1>2

LEMMA NextInvariant == IInv /\ [Next]_vars => IInv'
<1> SUFFICES ASSUME IInv, [Next]_vars
             PROVE  IInv'
  OBVIOUS
<1>1. ASSUME NEW i \in Ids, NEW c \in Contents, Create(i, c)
      PROVE  IInv'
  BY <1>1, NewInvariant DEF Create
<1>2. ASSUME NEW i \in Ids, NEW c \in Contents, Write(i, c)
      PROVE  IInv'
  BY <1>2 DEF Write, IInv, TypeOK, HeadersTrue
<1>3. ASSUME NEW i \in Ids, NEW j \in Ids, NEW c \in Contents, Realloc(i, j, c)
      PROVE  IInv'
  <2>1. Len(c) \in 0..MaxSize
    BY BytesOfChunk, MaxSizeAssumption
  <2>2. TypeOK'
    <3>1. size' \in [Ids -> 0..MaxSize]
      BY <1>3, <2>1 DEF Realloc, Header, IInv, TypeOK
    <3>2. bytes' \in [Ids -> Contents \cup {NoBytes}]
      BY <1>3 DEF Realloc, IInv, TypeOK
    <3> QED
      BY <1>3, <3>1, <3>2 DEF Realloc, IInv, TypeOK
  <2>3. HeadersTrue'
    BY <1>3 DEF Realloc, Header, IInv, TypeOK, HeadersTrue
  <2> QED
    BY <2>2, <2>3 DEF IInv
<1>4. ASSUME NEW i \in Ids, NEW j \in Ids, Copy(i, j)
      PROVE  IInv'
  BY <1>4, CopyInvariant
<1>5. ASSUME NEW i \in Ids, NEW j \in Ids, Compare(i, j)
      PROVE  IInv'
  BY <1>5 DEF Compare, Crash, IInv, TypeOK, HeadersTrue
<1>6. ASSUME NEW i \in Ids, Read(i)
      PROVE  IInv'
  BY <1>6 DEF Read, IInv, TypeOK, HeadersTrue
<1>7. ASSUME NEW i \in Ids, Free(i)
      PROVE  IInv'
  BY <1>7 DEF Free, IInv, TypeOK, HeadersTrue
<1>8. CASE Close
  BY <1>8 DEF Close, IInv, TypeOK, HeadersTrue
<1>9. CASE UNCHANGED vars
  BY <1>9 DEF vars, IInv, TypeOK, HeadersTrue
<1> QED
  BY <1>1, <1>2, <1>3, <1>4, <1>5, <1>6, <1>7, <1>8, <1>9 DEF Next

(* Whatever the sizes, every header tells how many bytes follow it: the    *)
(* defect is in how mem_get_size reads it, not in what malloc and realloc  *)
(* put there.                                                              *)
THEOREM Invariance == Spec => []IInv
<1> QED
  BY InitInvariant, NextInvariant, PTL DEF Spec

-----------------------------------------------------------------------------
(* While every chunk is small, what mem_get_size finds is its length. *)
LEMMA TrueSize ==
  ASSUME IInv, AllSmall, NEW i \in live
  PROVE  /\ i \in Ids /\ i \in allocated
         /\ bytes[i] \in Contents /\ Len(bytes[i]) \in Nat
         /\ Content[i] = bytes[i] /\ Content[i] # NoBytes
         /\ mem_get_size(i) = Len(bytes[i])
         /\ mem_get_size(i) >= 0
<1>1. i \in Ids /\ i \in allocated /\ size[i] = Len(bytes[i])
  BY DEF IInv, TypeOK, HeadersTrue
<1>2. Len(bytes[i]) \in 1..(Bytes \div 2 - 1)
  BY DEF AllSmall
<1>3. mem_get_size(i) = size[i]
  BY <1>1, <1>2, SmallSize
<1>4. Len(bytes[i]) > 0
  BY <1>2, BytesAssumption
<1>5. bytes[i] \in Contents
  BY <1>1, <1>4 DEF IInv, TypeOK, NoBytes
<1>6. Content[i] = bytes[i]
  BY <1>1 DEF Content
<1>7. Content[i] # NoBytes /\ Len(bytes[i]) \in Nat
  BY <1>5, <1>6, BytesOfChunk, MaxSizeAssumption
<1> QED
  BY <1>1, <1>3, <1>4, <1>5, <1>6, <1>7

LEMMA TakeAll ==
  ASSUME NEW c \in Contents
  PROVE  Take(c, Len(c)) = c
<1>1. c \in Seq(Cells) /\ Len(c) \in Nat
  BY BytesOfChunk, MaxSizeAssumption
<1> QED
  BY <1>1 DEF Take

LEMMA NewIsAlloc ==
  ASSUME IInv, NEW i \in Ids, NEW c \in Contents, New(i, c)
  PROVE  Content[i] = NoBytes /\ Content' = [Content EXCEPT ![i] = c]
<1>1. i \notin live
  BY DEF New, IInv, TypeOK
<1>2. Content[i] = NoBytes
  BY <1>1 DEF Content
<1>3. ASSUME NEW k \in Ids
      PROVE  Content'[k] = [Content EXCEPT ![i] = c][k]
  BY <1>1 DEF New, IInv, TypeOK, Content
<1> QED
  BY <1>2, <1>3 DEF Content

(* Every call made while all chunks are small is one of the memory.        *)
LEMMA SmallStep ==
  ASSUME IInv, AllSmall, [Next]_vars
  PROVE  [M!Next]_<<Content, call>>
<1>0. ASSUME NEW i \in live
      PROVE  Content[i] = bytes[i] /\ Content[i] # NoBytes
  BY ONLY IInv, AllSmall, i \in live, TrueSize
<1>1. ASSUME NEW i \in Ids, NEW c \in Contents, Create(i, c)
      PROVE  M!Alloc(i, c)
  <2>1. New(i, c) /\ call' = Call("alloc", i, c)
    BY <1>1 DEF Create
  <2>2. Content[i] = NoBytes /\ Content' = [Content EXCEPT ![i] = c]
    BY ONLY IInv, i \in Ids, c \in Contents, <2>1, NewIsAlloc
  <2> QED
    BY <2>1, <2>2 DEF M!Alloc, M!Call, Call, M!NoBytes, NoBytes
<1>2. ASSUME NEW i \in Ids, NEW c \in Contents, Write(i, c)
      PROVE  M!Write(i, c)
  <2>1. i \in live /\ Content[i] = bytes[i] /\ Content[i] # NoBytes
    BY <1>0, <1>2 DEF Write
  <2>2. ASSUME NEW k \in Ids
        PROVE  Content'[k] = [Content EXCEPT ![i] = c][k]
    BY <1>2 DEF Write, IInv, TypeOK, Content
  <2>3. Content' = [Content EXCEPT ![i] = c]
    BY <2>2 DEF Content
  <2>4. Len(c) = Len(Content[i]) /\ call' = Call("write", i, c)
    BY <1>2, <2>1 DEF Write
  <2> QED
    BY <2>1, <2>3, <2>4 DEF M!Write, M!Call, Call, M!NoBytes, NoBytes
<1>3. ASSUME NEW i \in Ids, NEW j \in Ids, NEW c \in Contents, Realloc(i, j, c)
      PROVE  M!Resize(i, j, c)
  <2>1. i \in live /\ Content[i] = bytes[i] /\ Content[i] # NoBytes
    BY <1>0, <1>3 DEF Realloc
  <2>2. j = i \/ Content[j] = NoBytes
    BY <1>3 DEF Realloc, IInv, TypeOK, Content
  <2>3. ASSUME NEW k \in Ids
        PROVE  Content'[k] = [Content EXCEPT ![i] = NoBytes, ![j] = c][k]
    BY <1>3 DEF Realloc, IInv, TypeOK, Content
  <2>4. Content' = [Content EXCEPT ![i] = NoBytes, ![j] = c]
    BY <2>3 DEF Content
  <2>5. SamePrefix(c, Content[i]) /\ call' = Call("resize", j, c)
    BY <1>3, <2>1 DEF Realloc
  <2> QED
    BY <2>1, <2>2, <2>4, <2>5 DEF M!Resize, M!Call, Call, M!NoBytes, NoBytes, M!SamePrefix, SamePrefix
<1>4. ASSUME NEW i \in Ids, NEW j \in Ids, Copy(i, j)
      PROVE  M!Copy(i, j)
  <2>1. i \in live
    BY <1>4 DEF Copy
  <2>2. /\ bytes[i] \in Contents
        /\ mem_get_size(i) = Len(bytes[i])
        /\ Len(bytes[i]) \in Nat
        /\ Content[i] = bytes[i] /\ Content[i] # NoBytes
    BY ONLY IInv, AllSmall, <2>1, TrueSize
  <2>3. Take(bytes[i], mem_get_size(i)) = bytes[i] /\ ~(mem_get_size(i) < 0)
    BY <2>2, TakeAll
  <2>4. New(j, bytes[i]) /\ call' = Call("copy", i, bytes[i])
    BY <1>4, <2>3 DEF Copy
  <2>5. Content[j] = NoBytes /\ Content' = [Content EXCEPT ![j] = bytes[i]]
    BY ONLY IInv, j \in Ids, <2>2, <2>4, NewIsAlloc
  <2> QED
    BY <2>2, <2>4, <2>5 DEF M!Copy, M!Call, Call, M!NoBytes, NoBytes
<1>5. ASSUME NEW i \in Ids, NEW j \in Ids, Compare(i, j)
      PROVE  M!Compare(i, j)
  <2>1. i \in live /\ j \in live
    BY <1>5 DEF Compare
  <2>2. /\ bytes[i] \in Contents
        /\ mem_get_size(i) = Len(bytes[i])
        /\ Len(bytes[i]) \in Nat
        /\ Content[i] = bytes[i] /\ Content[i] # NoBytes
    BY ONLY IInv, AllSmall, <2>1, TrueSize
  <2>3. /\ bytes[j] \in Contents
        /\ mem_get_size(j) = Len(bytes[j])
        /\ Len(bytes[j]) \in Nat
        /\ Content[j] = bytes[j] /\ Content[j] # NoBytes
    BY ONLY IInv, AllSmall, <2>1, TrueSize
  <2>4. Take(bytes[i], Len(bytes[i])) = bytes[i] /\ Take(bytes[j], Len(bytes[j])) = bytes[j]
    BY <2>2, <2>3, TakeAll
  <2>5. /\ call' = Compared(i, j, bytes[i] = bytes[j])
        /\ UNCHANGED <<crashed, allocated, size, bytes, live>>
    <3>1. CASE Len(bytes[i]) = Len(bytes[j])
      <4>1. SameBytes(i, j, Len(bytes[i])) = (bytes[i] = bytes[j])
        BY <2>4, <3>1 DEF SameBytes
      <4>2. /\ call' = Compared(i, j, SameBytes(i, j, Len(bytes[i])))
            /\ UNCHANGED <<crashed, allocated, size, bytes, live>>
        <5>1. mem_get_size(i) = mem_get_size(j) /\ ~(mem_get_size(i) < 0)
          BY <2>2, <2>3, <3>1
        <5>2. /\ call' = Compared(i, j, SameBytes(i, j, mem_get_size(i)))
              /\ UNCHANGED <<crashed, allocated, size, bytes, live>>
          BY <1>5, <5>1, Zenon DEF Compare
        <5> QED
          BY <2>2, <5>2, Zenon
      <4> QED
        BY <4>1, <4>2, Zenon
    <3>2. CASE Len(bytes[i]) # Len(bytes[j])
      <4>1. bytes[i] # bytes[j]
        BY <3>2
      <4>2. /\ call' = Compared(i, j, FALSE)
            /\ UNCHANGED <<crashed, allocated, size, bytes, live>>
        BY <1>5, <2>2, <2>3, <3>2 DEF Compare
      <4> QED
        BY <4>1, <4>2 DEF Compared
    <3> QED
      BY <3>1, <3>2
  <2>6. UNCHANGED Content
    BY <2>5 DEF Content
  <2> QED
    BY <2>2, <2>3, <2>5, <2>6 DEF M!Compare, M!Compared, Compared, M!NoBytes, NoBytes
<1>6. ASSUME NEW i \in Ids, Read(i)
      PROVE  M!Read(i)
  <2>1. i \in live /\ Content[i] = bytes[i] /\ Content[i] # NoBytes
    BY <1>0, <1>6 DEF Read
  <2>2. UNCHANGED Content
    BY <1>6 DEF Read, Content
  <2> QED
    BY <1>6, <2>1, <2>2 DEF Read, M!Read, M!Call, Call, M!NoBytes, NoBytes
<1>7. ASSUME NEW i \in Ids, Free(i)
      PROVE  M!Free(i)
  <2>1. i \in live /\ Content[i] # NoBytes
    BY <1>0, <1>7 DEF Free
  <2>2. ASSUME NEW k \in Ids
        PROVE  Content'[k] = [Content EXCEPT ![i] = NoBytes][k]
    BY <1>7 DEF Free, IInv, TypeOK, Content
  <2>3. Content' = [Content EXCEPT ![i] = NoBytes]
    BY <2>2 DEF Content
  <2> QED
    BY <1>7, <2>1, <2>3 DEF Free, M!Free, M!Call, Call, M!NoBytes, NoBytes
<1>8. ASSUME Close
      PROVE  M!Close
  BY <1>8 DEF Close, Content, M!Close, M!Call, Call, M!NoBytes, NoBytes
<1>9. ASSUME UNCHANGED vars
      PROVE  UNCHANGED <<Content, call>>
  BY <1>9 DEF vars, Content
<1> QED
  BY <1>1, <1>2, <1>3, <1>4, <1>5, <1>6, <1>7, <1>8, <1>9 DEF Next, M!Next, M!Contents, Contents

(* The manager of features.h implements module Memory as long as no chunk  *)
(* reaches half the values of a char, whatever was allocated before and    *)
(* however often chunks move.                                              *)
THEOREM SmallIsMemory == Spec => MemoryWhileSmall
<1>1. IInv /\ [Next]_vars => [AllSmall => [M!Next]_<<Content, call>>]_vars
  BY SmallStep
<1> QED
  BY <1>1, Invariance, PTL DEF Spec, MemoryWhileSmall
=============================================================================
