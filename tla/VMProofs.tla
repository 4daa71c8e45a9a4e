------------------------------ MODULE VMProofs ------------------------------
(***************************************************************************)
(* The virtual machine, for programs of any size, whatever they call and   *)
(* however their generators, loops and C calls are nested.                 *)
(*                                                                         *)
(* None of the properties is inductive by itself: that a C call finds the  *)
(* block stack as it left it needs the blocks of generators to be nowhere  *)
(* else, that needs the generators to keep their objects, those are kept   *)
(* by the C calls that wait for them, and all of it needs to know which    *)
(* blocks a step may pop, which follows from how the loops nest in the     *)
(* code and on the stack.  MachineInv says all of this at once:            *)
(*                                                                         *)
(*   HeapFine, VarsFine  every object is one of its type, and its place,   *)
(*                       its operands, its scope and its tag are of use;   *)
(*   Laid, Apart         the blocks of the stack, and those of each        *)
(*                       generator, are blocks, are there once, are nested *)
(*                       as the loops of the code, and in one place only;  *)
(*   FramesFine, AllRun  each C call waits on the blocks it found, asks an *)
(*                       iterator that is there, and was called by one     *)
(*                       that makes such calls; a generator whose blocks   *)
(*                       are on the stack is being run by one of them;     *)
(*   AtStep, AtCheck,    what the innermost C call relies on where it is.  *)
(*   AtNext                                                                *)
(*                                                                         *)
(* An action is split the same way: it moves one block (Moved...), assigns *)
(* a variable (Settled...), adds objects (Grows...), makes the block stack *)
(* shorter or longer (Shorter..., Longer...), and then drops the objects   *)
(* that are out of use (SweptGood).  Step... is the lemma of an action,    *)
(* EveryStep puts them together.                                           *)
(*                                                                         *)
(* The theorems are about machines whose programs keep Orderly (VM.tla),   *)
(* which the machine itself does not look at, and take the layout of the   *)
(* code from CodeAssumption.                                               *)
(***************************************************************************)
EXTENDS VM, FiniteSetTheorems, SequenceTheorems, TLAPS

-----------------------------------------------------------------------------
(* What Ascending gives, for every finite set of numbers: each member      *)
(* once, in order.                                                         *)

LEMMA RankType ==
  ASSUME NEW S, IsFiniteSet(S), NEW i
  PROVE  IsFiniteSet(Below(S, i)) /\ Rank(S, i) \in Nat /\ Rank(S, i) <= Cardinality(S)
BY FS_Subset, FS_CardinalityType DEF Below, Rank

(* A later member has more members before it. *)
LEMMA RankGrows ==
  ASSUME NEW S, \A x \in S : x \in Int, IsFiniteSet(S), NEW i \in S, NEW j \in Int, i < j
  PROVE  Rank(S, i) < Rank(S, j)
<1>1. Below(S, i) \in SUBSET Below(S, j) /\ i \in Below(S, j) /\ i \notin Below(S, i)
  BY DEF Below
<1>2. Rank(S, i) <= Rank(S, j) /\ Rank(S, i) # Rank(S, j)
  BY <1>1, RankType, FS_Subset DEF Rank
<1>. QED
  BY <1>2, RankType

LEMMA RankBelow ==
  ASSUME NEW S, \A x \in S : x \in Int, IsFiniteSet(S), NEW i \in S
  PROVE  Rank(S, i) \in 0..(Cardinality(S) - 1)
<1>1. Below(S, i) \in SUBSET S /\ i \notin Below(S, i)
  BY DEF Below
<1>2. Rank(S, i) <= Cardinality(S) /\ Rank(S, i) # Cardinality(S)
  BY <1>1, FS_Subset DEF Rank
<1>. QED
  BY <1>2, RankType, FS_CardinalityType

(* There is a member with each number of members before it. *)
LEMMA RankCovers ==
  ASSUME NEW S, \A x \in S : x \in Int, IsFiniteSet(S), NEW n \in 0..(Cardinality(S) - 1)
  PROVE  \E i \in S : Rank(S, i) = n
<1> DEFINE c == Cardinality(S)
           f == [i \in S |-> Rank(S, i)]
<1>1. c \in Nat
  BY FS_CardinalityType
<1>2. f \in [S -> 0..(c - 1)]
  BY RankBelow
<1>3. f \in Injection(S, 0..(c - 1))
  <2>1. ASSUME NEW i \in S, NEW j \in S, f[i] = f[j]
        PROVE  i = j
    BY <2>1, RankGrows, RankType
  <2>. QED
    BY <1>2, <2>1 DEF Injection, IsInjective
<1>4. IsFiniteSet(0..(c - 1)) /\ Cardinality(0..(c - 1)) = c
  BY <1>1, FS_Interval
<1>5. f \in Surjection(S, 0..(c - 1))
  BY <1>3, <1>4, FS_Injection
<1>. QED
  BY <1>5 DEF Surjection

LEMMA LeastMember ==
  ASSUME NEW S, \A x \in S : x \in Int, IsFiniteSet(S), S # {}
  PROVE  \E i \in S : \A j \in S : i <= j
<1>1. Cardinality(S) \in Nat /\ Cardinality(S) # 0
  BY FS_CardinalityType, FS_EmptySet
<1>2. PICK i \in S : Rank(S, i) = 0
  BY <1>1, RankCovers
<1>3. Below(S, i) = {}
  BY <1>2, RankType, FS_EmptySet DEF Rank
<1>. QED
  BY <1>3 DEF Below

LEMMA GreatestMember ==
  ASSUME NEW S, \A x \in S : x \in Int, IsFiniteSet(S), S # {}
  PROVE  \E i \in S : \A j \in S : i >= j
<1>1. Cardinality(S) \in Nat /\ Cardinality(S) # 0
  BY FS_CardinalityType, FS_EmptySet
<1>2. Cardinality(S) - 1 \in 0..(Cardinality(S) - 1)
  BY <1>1
<1>3. PICK i \in S : Rank(S, i) = Cardinality(S) - 1
  BY <1>2, RankCovers
<1>4. ASSUME NEW j \in S, i < j PROVE FALSE
  <2>1. Rank(S, i) < Rank(S, j)
    BY <1>4, RankGrows
  <2>2. Rank(S, j) \in 0..(Cardinality(S) - 1)
    BY RankBelow
  <2>. QED
    BY <1>1, <1>3, <2>1, <2>2
<1>. QED
  BY <1>4

LEMMA AscendingType ==
  ASSUME NEW S, \A x \in S : x \in Int, IsFiniteSet(S)
  PROVE  /\ Cardinality(S) \in Nat
         /\ DOMAIN Ascending(S) = 1..Cardinality(S)
         /\ Len(Ascending(S)) = Cardinality(S)
         /\ Ascending(S) \in Seq(S)
         /\ \A n \in 1..Cardinality(S) : Ascending(S)[n] \in S /\ Rank(S, Ascending(S)[n]) = n - 1
<1>1. Cardinality(S) \in Nat
  BY FS_CardinalityType
<1>2. ASSUME NEW n \in 1..Cardinality(S)
      PROVE  Ascending(S)[n] \in S /\ Rank(S, Ascending(S)[n]) = n - 1
  <2>1. n - 1 \in 0..(Cardinality(S) - 1)
    BY <1>1
  <2>2. \E i \in S : Rank(S, i) = n - 1
    BY <2>1, RankCovers
  <2>. QED
    BY <2>2 DEF Ascending
<1>3. Ascending(S) \in [1..Cardinality(S) -> S]
  <2>1. Ascending(S) = [n \in 1..Cardinality(S) |-> Ascending(S)[n]]
    BY DEF Ascending
  <2>. QED
    BY <1>2, <2>1
<1>. QED
  BY <1>1, <1>2, <1>3


(***************************************************************************)
(* The objects.                                                            *)
(***************************************************************************)
Slots == [by : Ids \cup {Nothing}, value : Values]

BlockRecs ==
  [type : {"block"}, code : DOMAIN Code, start : Nat, ip : Nat, len : Nat,
   stack : Seq(Values \ {Nothing}), flag : {"none", "root", "sub", "shared"},
   scope : Ids \cup {Nothing}, varnames : Seq(Slots)]

SequenceRecs == [type : {"sequence"}, pos : Nat, len : Nat]

IterationRecs == [type : {"iteration"}, tag : Tuples]

GeneratorRecs == [type : {"generator"}, tag : Ids, saved : Seq(Ids)]

Objects == {Free} \cup BlockRecs \cup SequenceRecs \cup IterationRecs \cup GeneratorRecs

End(f) == Len(Code[f].ops)

(* A block is the one of its code or that of a loop in it. *)
PlacedAt(r, p) ==
  /\ r.start <= p /\ p <= r.len
  /\ \/ r.start = 0 /\ r.len = End(r.code) /\ p \in Outside(r.code) \cup {End(r.code)}
     \/ \E q \in Setups(r.code) : r.start = q + 1 /\ r.len = Behind(r.code, q)

(* The ids among the values are iterators. *)
Safe(h, v) == v \in Ids => h[v].type \in {"sequence", "iteration", "generator"}

BlockSees(h, r) ==
  /\ \A k \in 1..Len(r.stack) : Safe(h, r.stack[k])
  /\ \A k \in 1..Len(r.varnames) : Safe(h, r.varnames[k].value)
  /\ r.scope \in Ids => /\ h[r.scope].type = "block" /\ h[r.scope].code = r.code
                        /\ Len(h[r.scope].varnames) = Code[r.code].vars

(* A generator has the block of its code. *)
IsTag(h, b) ==
  /\ h[b].type = "block" /\ h[b].start = 0 /\ h[b].flag = "none"
  /\ Kind(h[b].code) = "generator"

GeneratorSees(h, r) ==
  /\ IsTag(h, r.tag)
  /\ \A k \in 1..Len(r.saved) : h[r.saved[k]].type = "block"

Fine(h, r) ==
  /\ r.type = "block" => PlacedAt(r, r.ip) /\ BlockSees(h, r)
  /\ r.type = "sequence" => r.pos <= r.len
  /\ r.type = "generator" => GeneratorSees(h, r)

HeapFine(h) == h \in [Ids -> Objects] /\ \A i \in Ids : Fine(h, h[i])

VarsFine(h, held) ==
  /\ held \in [DOMAIN Code -> Seq(Slots)]
  /\ \A f \in DOMAIN Code : /\ Len(held[f]) = Code[f].vars
                            /\ \A k \in 1..Len(held[f]) : Safe(h, held[f][k].value)

(***************************************************************************)
(* Blocks and generators.                                                  *)
(***************************************************************************)
AreBlocks(h, s) == s \in Seq(Ids) /\ \A k \in 1..Len(s) : h[s[k]].type = "block"

Once(s) == \A j, k \in 1..Len(s) : s[j] = s[k] => j = k

Occurs(b, s) == \E k \in 1..Len(s) : s[k] = b

Disjoint(s, t) == \A j \in 1..Len(s), k \in 1..Len(t) : s[j] # t[k]

Asleep(h, i) ==
  [k \in 1..Len(h[i].saved) + 1 |->
     IF k = 1 THEN h[i].tag ELSE h[i].saved[Len(h[i].saved) + 2 - k]]

NestedOn(h, s) ==
  /\ s # <<>> => h[s[1]].start = 0
  /\ \A k \in 1..Len(s) - 1 :
       h[s[k + 1]].start # 0 =>
         /\ h[s[k]].code = h[s[k + 1]].code
         /\ h[s[k]].ip = h[s[k + 1]].len

Laid(h, s) == AreBlocks(h, s) /\ Once(s) /\ NestedOn(h, s)

IsGenerator(h, i) == i \in Ids /\ h[i].type = "generator"

Apart(h, bs) ==
  \A i \in Ids : IsGenerator(h, i) =>
    /\ Laid(h, Asleep(h, i))
    /\ Occurs(h[i].tag, bs) => h[i].saved = <<>>
    /\ Disjoint(h[i].saved, bs)
    /\ \A j \in Ids : IsGenerator(h, j) /\ j # i => Disjoint(Asleep(h, i), Asleep(h, j))

(***************************************************************************)
(* The C calls.                                                            *)
(***************************************************************************)
Waiting == {"for_iter", "map", "build", "ask"}

Asking == {"for_iter", "build", "ask"}

Looping == {"object", "next", "function", "method"}

Rests == [takes : Nat, rest : Seq(Ids)]

CallRecs ==
  [op : (Waiting \cup Looping) \ {"build"}, block : Ids \cup {Nothing},
   iter : Ids \cup {Nothing}, arg : Nat, name : DOMAIN Code \cup {""}, base : Seq(Ids)]

BuildRecs ==
  [op : {"build"}, block : Ids \cup {Nothing}, iter : Ids \cup {Nothing},
   arg : Rests, name : DOMAIN Code \cup {""}, base : Seq(Ids)]

FrameRecs == CallRecs \cup BuildRecs

Starts(s, t) == Len(s) <= Len(t) /\ \A k \in 1..Len(s) : s[k] = t[k]

(* The block that a loop around vm_Step runs lies on what it found. *)
Level(h, f, s) ==
  f.op \in {"next", "function"} =>
    /\ Len(f.base) < Len(s)
    /\ h[s[Len(f.base) + 1]].start = 0
    /\ h[s[Len(f.base) + 1]].ip \in Outside(h[s[Len(f.base) + 1]].code)
    /\ f.op = "next" => s[Len(f.base) + 1] = f.block
    /\ f.op = "function" => /\ h[s[Len(f.base) + 1]].flag = "none"
                            /\ Kind(h[s[Len(f.base) + 1]].code) = "function"

Holds(h, f, s) == Starts(f.base, s) /\ Level(h, f, s)

(* The iterators that BUILD_TUPLE has not asked yet are among the operands,*)
(* below the n top ones.                                                   *)
RestThere(h, f, n) ==
  f.op = "build" =>
    \A k \in 1..Len(f.arg.rest) :
      \E j \in 1..Len(h[f.block].stack) - n : h[f.block].stack[j] = f.arg.rest[k]

AtForIter(h, f) ==
  f.op = "for_iter" =>
    LET r == h[f.block]
    IN  /\ r.ip - 1 \in Places(r.code) /\ r.start <= r.ip - 1 /\ r.ip - 1 < r.len
        /\ r.start = 0 => r.ip - 1 \in Outside(r.code)
        /\ At(r.code, r.ip - 1).op = "for_iter" /\ At(r.code, r.ip - 1).arg = f.arg

FrameFine(h, f) ==
  /\ f.op \in Waiting =>
       /\ f.base # <<>> /\ f.block = f.base[Len(f.base)]
       /\ f.iter \in Ids /\ Safe(h, f.iter)
       /\ AtForIter(h, f) /\ RestThere(h, f, 0)
  /\ f.op = "map" => f.name \in DOMAIN Code /\ Kind(f.name) = "function"
  /\ f.op = "next" => /\ IsGenerator(h, f.iter)
                      /\ h[f.iter].tag = f.block /\ h[f.iter].saved = <<>>
  /\ f.op = "function" => f.arg = Len(f.base) + 1
  /\ f.op = "method" => f.arg = Len(f.base)

Above(f, g) ==
  /\ f.op \in Asking => g.op = "next" /\ g.base = f.base
  /\ f.op = "map" => g.op \in {"next", "function"}
  /\ f.op \in Looping => g.op \in Waiting \cup {"method"}

FramesFine(h, fs) ==
  /\ fs \in Seq(FrameRecs) /\ fs # <<>>
  /\ \A k \in 1..Len(fs) : FrameFine(h, fs[k]) /\ (fs[k].op = "object" <=> k = 1)
  /\ \A k \in 1..Len(fs) - 1 : Above(fs[k], fs[k + 1])
  /\ \A k \in 1..Len(fs) : \A j \in 1..k - 1 : Holds(h, fs[j], fs[k].base)
  /\ fs[1].base = <<>>

(* A generator whose block is on the stack is being run. *)
AllRun(h, bs, fs) ==
  \A i \in Ids : IsGenerator(h, i) /\ Occurs(h[i].tag, bs) =>
    \E k \in 1..Len(fs) : fs[k].op = "next" /\ fs[k].block = h[i].tag

Good(h, bs, fs, held, x) ==
  /\ HeapFine(h)
  /\ VarsFine(h, held)
  /\ Laid(h, bs)
  /\ Apart(h, bs)
  /\ FramesFine(h, fs)
  /\ AllRun(h, bs, fs)
  /\ \A k \in 1..Len(fs) : Starts(fs[k].base, bs)
  /\ x \in Values /\ Safe(h, x)

(***************************************************************************)
(* Where the innermost C call is.                                          *)
(***************************************************************************)
AtStep(h, bs, f) ==
  /\ f.op \in Looping
  /\ Level(h, f, bs)
  /\ f.op = "method" => Len(f.base) < Len(bs)

AtCheck(h, bs, fs, x) ==
  LET f == fs[Len(fs)]
  IN  /\ f.op \in Looping
      /\ f.op = "next" => \/ Level(h, f, bs)
                          \/ Len(bs) = Len(f.base) /\ ~Occurs(f.block, bs) /\ RestThere(h, fs[Len(fs) - 1], 1)
      /\ f.op = "function" => x # Nothing \/ Level(h, f, bs)

AtNext(bs, f) ==
  /\ f.op \in Waiting
  /\ f.op \in Asking => bs = f.base

MachineInv ==
  /\ Good(heap, blocks, frames, varnames, ret)
  /\ shared \subseteq DOMAIN Code /\ globals \subseteq Modules
  /\ phase \in {"step", "check", "next", "got", "done"}
  /\ phase = "step" => AtStep(heap, blocks, Caller)
  /\ phase = "check" => AtCheck(heap, blocks, frames, ret)
  /\ phase \in {"next", "got"} => AtNext(blocks, Caller)

(***************************************************************************)
(* The sweep.  Kept is defined along the chains of references; what the    *)
(* machine relies on is that it holds the roots and all they refer to.     *)
(***************************************************************************)
Inside(h) == \A i \in Ids : Refs(h, i) \subseteq Ids

Closed(h, s) == \A i \in s : Refs(h, i) \subseteq s

Steps(h, reach) ==
  reach = [s \in SUBSET Ids |-> IF Near(h, s) = s THEN s ELSE reach[Near(h, s)]]

LEMMA NearType ==
  ASSUME NEW h, Inside(h), NEW s \in SUBSET Ids
  PROVE  /\ Near(h, s) \in SUBSET Ids /\ s \subseteq Near(h, s)
         /\ (Near(h, s) = s <=> Closed(h, s))
BY DEF Inside, Near, Closed

(* Such a function exists: the least closed set around each set. *)
LEMMA StepsExist ==
  ASSUME NEW h, Inside(h)
  PROVE  \E reach : Steps(h, reach)
<1> DEFINE Around(s) == {t \in SUBSET Ids : s \subseteq t /\ Closed(h, t)}
           Least(s) == {i \in Ids : \A t \in Around(s) : i \in t}
           reach == [s \in SUBSET Ids |-> Least(s)]
<1>1. ASSUME NEW s \in SUBSET Ids, Near(h, s) = s
      PROVE  Least(s) = s
  <2>1. s \in Around(s)
    BY <1>1, NearType
  <2>. QED
    BY <2>1
<1>2. ASSUME NEW s \in SUBSET Ids
      PROVE  Least(Near(h, s)) = Least(s)
  <2>1. ASSUME NEW t \in SUBSET Ids, Closed(h, t)
        PROVE  s \subseteq t <=> Near(h, s) \subseteq t
    BY <2>1 DEF Closed, Near
  <2>2. Around(Near(h, s)) = Around(s)
    BY <2>1
  <2>. QED
    BY <2>2
<1>3. \A s \in SUBSET Ids : Near(h, s) \in SUBSET Ids
  BY NearType
<1>. HIDE DEF Least
<1>4. reach = [s \in SUBSET Ids |-> IF Near(h, s) = s THEN s ELSE reach[Near(h, s)]]
  <2>1. \A s \in SUBSET Ids : Least(s) = IF Near(h, s) = s THEN s ELSE reach[Near(h, s)]
    BY <1>1, <1>2, <1>3
  <2>. QED
    BY Zenon, <2>1
<1>. QED
  BY Zenon, <1>4 DEF Steps

LEMMA KeptIs ==
  ASSUME NEW h, Inside(h), NEW roots
  PROVE  \E reach : Steps(h, reach) /\ Kept(h, roots) = reach[roots]
<1> DEFINE reach == CHOOSE r : Steps(h, r)
<1>1. Steps(h, reach)
  BY StepsExist
<1>2. Kept(h, roots) = reach[roots]
  BY DEF Kept, Steps
<1>. QED
  BY Zenon, <1>1, <1>2

LEMMA IdsFinite == IsFiniteSet(Ids) /\ Cardinality(Ids) = MaxIds /\ MaxIds \in Nat
BY FS_Interval, VMAssumption DEF Ids

(* The chains end: a set that is not closed has fewer ids to gain than its *)
(* predecessor.                                                            *)
LEMMA KeptClosed ==
  ASSUME NEW h, Inside(h), NEW roots \in SUBSET Ids
  PROVE  /\ Kept(h, roots) \in SUBSET Ids /\ roots \subseteq Kept(h, roots)
         /\ Closed(h, Kept(h, roots))
<1>1. PICK reach : Steps(h, reach) /\ Kept(h, roots) = reach[roots]
  BY KeptIs
<1> DEFINE Reached(s) == reach[s] \in SUBSET Ids /\ s \subseteq reach[s] /\ Closed(h, reach[s])
           Bad == {s \in SUBSET Ids : ~Reached(s)}
           Left(s) == MaxIds - Cardinality(s)
           L == {Left(s) : s \in Bad}
<1>2. \A s \in SUBSET Ids : IsFiniteSet(s) /\ Cardinality(s) \in 0..MaxIds
  BY IdsFinite, FS_Subset, FS_CardinalityType
<1>3. ASSUME NEW s \in SUBSET Ids, Near(h, s) # s
      PROVE  Near(h, s) \in SUBSET Ids /\ Cardinality(s) < Cardinality(Near(h, s))
  <2>1. Near(h, s) \in SUBSET Ids /\ s \subseteq Near(h, s)
    BY NearType
  <2>2. IsFiniteSet(Near(h, s)) /\ Cardinality(Near(h, s)) \in Nat /\ Cardinality(s) \in Nat
    BY <1>2, <2>1
  <2>3. Cardinality(s) <= Cardinality(Near(h, s)) /\ Cardinality(s) # Cardinality(Near(h, s))
    BY <1>3, <2>1, <2>2, FS_Subset
  <2>. QED
    BY <2>1, <2>2, <2>3
<1>4. \A s \in SUBSET Ids : reach[s] = IF Near(h, s) = s THEN s ELSE reach[Near(h, s)]
  BY <1>1 DEF Steps
<1>5. Bad = {}
  <2>. SUFFICES ASSUME Bad # {} PROVE FALSE
    OBVIOUS
  <2>1. L \subseteq 0..MaxIds /\ L # {}
    BY <1>2, IdsFinite
  <2>2. IsFiniteSet(L) /\ \A x \in L : x \in Int
    <3>1. L \in SUBSET (0..MaxIds) /\ IsFiniteSet(0..MaxIds)
      BY <2>1, IdsFinite, FS_Interval
    <3>. HIDE DEF L
    <3>2. IsFiniteSet(L)
      BY Zenon, <3>1, FS_Subset
    <3>3. \A x \in 0..MaxIds : x \in Int
      BY IdsFinite
    <3>. QED
      BY <3>1, <3>2, <3>3
  <2>. HIDE DEF L
  <2>3. PICK x \in L : \A y \in L : x <= y
    BY Zenon, <2>1, <2>2, LeastMember
  <2>4. PICK s \in Bad : x = Left(s)
    BY DEF L
  <2>5. Near(h, s) # s
    BY <1>4, <2>4, NearType
  <2>6. reach[s] = reach[Near(h, s)] /\ s \subseteq Near(h, s)
    BY <1>4, <2>4, <2>5, NearType
  <2>7. Near(h, s) \in SUBSET Ids /\ Cardinality(s) < Cardinality(Near(h, s))
    BY <1>3, <2>4, <2>5
  <2>8. Near(h, s) \in Bad
    BY <2>4, <2>6, <2>7
  <2>9. Left(Near(h, s)) \in L
    BY <2>8 DEF L
  <2>. QED
    BY <1>2, <2>3, <2>4, <2>7, <2>9, IdsFinite
<1>. QED
  BY <1>1, <1>5

(***************************************************************************)
(* What an object refers to and the roots of a C call are kept.            *)
(***************************************************************************)
(* What the sweep keeps refers to nothing that it frees. *)
LEMMA RefsOfBlock ==
  ASSUME NEW h, HeapFine(h), NEW K, Closed(h, K), NEW i \in K, i \in Ids, h[i].type = "block"
  PROVE  /\ \A k \in 1..Len(h[i].stack) : h[i].stack[k] \in Ids => h[i].stack[k] \in K
         /\ \A k \in 1..Len(h[i].varnames) :
              h[i].varnames[k].value \in Ids => h[i].varnames[k].value \in K
         /\ h[i].scope \in Ids => h[i].scope \in K
<1>1. h[i] \in BlockRecs
  BY DEF HeapFine, Objects, Free, SequenceRecs, IterationRecs, GeneratorRecs
<1>2. Refs(h, i) = (ToSet(h[i].stack) \cup {h[i].scope} \cup ValuesIn(h[i].varnames)) \cap Ids
  BY DEF Refs
<1>3. Refs(h, i) \subseteq K
  BY DEF Closed
<1>4. h[i].stack \in Seq(Values \ {Nothing}) /\ h[i].varnames \in Seq(Slots)
  BY <1>1 DEF BlockRecs
<1>. QED
  BY <1>2, <1>3, <1>4 DEF ToSet, ValuesIn

LEMMA RefsOfGenerator ==
  ASSUME NEW h, HeapFine(h), NEW K, Closed(h, K), NEW i \in K, i \in Ids, h[i].type = "generator"
  PROVE  h[i].tag \in K /\ \A k \in 1..Len(h[i].saved) : h[i].saved[k] \in K
<1>1. h[i] \in GeneratorRecs
  BY DEF HeapFine, Objects, Free, SequenceRecs, IterationRecs, BlockRecs
<1>2. Refs(h, i) = {h[i].tag} \cup ToSet(h[i].saved)
  BY DEF Refs
<1>3. Refs(h, i) \subseteq K
  BY DEF Closed
<1>4. h[i].saved \in Seq(Ids)
  BY <1>1 DEF GeneratorRecs
<1>. QED
  BY <1>2, <1>3, <1>4 DEF ToSet

LEMMA RefsInside ==
  ASSUME NEW h, HeapFine(h)
  PROVE  Inside(h)
<1> SUFFICES ASSUME NEW i \in Ids PROVE Refs(h, i) \subseteq Ids
  BY DEF Inside
<1>1. h[i] \in Objects
  BY DEF HeapFine
<1>2. CASE h[i].type = "block"
  BY <1>2 DEF Refs
<1>3. CASE h[i].type = "generator"
  <2>1. h[i] \in GeneratorRecs
    BY <1>1, <1>3 DEF Objects, Free, SequenceRecs, IterationRecs, BlockRecs
  <2>2. h[i].tag \in Ids /\ h[i].saved \in Seq(Ids)
    BY <2>1 DEF GeneratorRecs
  <2>. QED
    BY <1>3, <2>2 DEF Refs, ToSet
<1>. QED
  BY <1>2, <1>3 DEF Refs

(* What the machine itself refers to is in s. *)
InUse(bs, fs, held, x, s) ==
  /\ \A k \in 1..Len(bs) : bs[k] \in s
  /\ \A k \in 1..Len(fs) : fs[k].iter \in Ids => fs[k].iter \in s
  /\ \A f \in DOMAIN Code : \A k \in 1..Len(held[f]) :
       held[f][k].value \in Ids => held[f][k].value \in s
  /\ x \in Ids => x \in s

LEMMA RootsInUse ==
  ASSUME NEW h, NEW bs, NEW fs, NEW held, NEW x, Good(h, bs, fs, held, x), NEW s,
         Roots(bs, fs, held, x) \subseteq s
  PROVE  InUse(bs, fs, held, x, s)
<1>1. bs \in Seq(Ids) /\ fs \in Seq(FrameRecs) /\ held \in [DOMAIN Code -> Seq(Slots)]
  BY DEF Good, Laid, AreBlocks, FramesFine, VarsFine
<1>2. \A k \in 1..Len(bs) : bs[k] \in s
  BY <1>1 DEF Roots, ToSet
<1>3. \A k \in 1..Len(fs) : fs[k].iter \in Ids => fs[k].iter \in s
  BY <1>1 DEF Roots
<1>4. \A f \in DOMAIN Code : \A k \in 1..Len(held[f]) :
        held[f][k].value \in Ids => held[f][k].value \in s
  <2> SUFFICES ASSUME NEW f \in DOMAIN Code, NEW k \in 1..Len(held[f]),
                      held[f][k].value \in Ids
               PROVE  held[f][k].value \in s
    OBVIOUS
  <2>1. held[f][k].value \in ValuesIn(held[f])
    BY <1>1 DEF ValuesIn, ToSet
  <2>. QED
    BY <1>1, <2>1 DEF Roots
<1>5. x \in Ids => x \in s
  BY DEF Roots
<1>. QED
  BY <1>2, <1>3, <1>4, <1>5 DEF InUse

LEMMA RootsType ==
  ASSUME NEW h, NEW bs, NEW fs, NEW held, NEW x, Good(h, bs, fs, held, x)
  PROVE  Roots(bs, fs, held, x) \in SUBSET Ids
<1>1. bs \in Seq(Ids)
  BY DEF Good, Laid, AreBlocks
<1>. QED
  BY <1>1 DEF Roots, ToSet

(***************************************************************************)
(* Sweeping: an object that is kept is the one it was, one that is not is  *)
(* free, and neither the stack nor a generator has such a block.           *)
(***************************************************************************)
Spares(h, g, s) ==
  /\ s \subseteq Ids
  /\ Closed(h, s)
  /\ \A i \in s : g[i] = h[i]
  /\ \A i \in Ids \ s : g[i] = Free

LEMMA SpareFine ==
  ASSUME NEW h, HeapFine(h), NEW g, g \in [Ids -> Objects], NEW s, Spares(h, g, s)
  PROVE  HeapFine(g)
<1> USE DEF Spares
<1> SUFFICES ASSUME NEW i \in Ids PROVE Fine(g, g[i])
  BY DEF HeapFine
<1>1. CASE i \notin s
  BY <1>1 DEF Fine, Free
<1>2. CASE i \in s
  <2>1. g[i] = h[i] /\ Fine(h, h[i])
    BY <1>2 DEF HeapFine
  <2>2. CASE h[i].type = "block"
    <3>1. PlacedAt(h[i], h[i].ip) /\ BlockSees(h, h[i])
      BY <2>1, <2>2 DEF Fine
    <3>2. /\ \A k \in 1..Len(h[i].stack) : h[i].stack[k] \in Ids => h[i].stack[k] \in s
          /\ \A k \in 1..Len(h[i].varnames) :
               h[i].varnames[k].value \in Ids => h[i].varnames[k].value \in s
          /\ h[i].scope \in Ids => h[i].scope \in s
      BY <1>2, <2>2, RefsOfBlock
    <3>3. BlockSees(g, h[i])
      BY <3>1, <3>2 DEF BlockSees, Safe
    <3>. QED
      BY <2>1, <2>2, <3>1, <3>3 DEF Fine
  <2>3. CASE h[i].type = "generator"
    <3>1. GeneratorSees(h, h[i])
      BY <2>1, <2>3 DEF Fine
    <3>2. h[i].tag \in s /\ \A k \in 1..Len(h[i].saved) : h[i].saved[k] \in s
      BY <1>2, <2>3, RefsOfGenerator
    <3>3. GeneratorSees(g, h[i])
      BY <3>1, <3>2 DEF GeneratorSees, IsTag
    <3>. QED
      BY <2>1, <2>3, <3>3 DEF Fine
  <2>. QED
    BY <2>1, <2>2, <2>3 DEF Fine
<1>. QED
  BY <1>1, <1>2

LEMMA SpareLaid ==
  ASSUME NEW h, NEW g, NEW b, Laid(h, b), \A k \in 1..Len(b) : g[b[k]] = h[b[k]]
  PROVE  Laid(g, b)
<1>1. b \in Seq(Ids)
  BY DEF Laid, AreBlocks
<1>2. b # <<>> => 1 \in 1..Len(b)
  BY <1>1
<1>3. \A k \in 1..Len(b) - 1 : k \in 1..Len(b) /\ k + 1 \in 1..Len(b)
  BY <1>1
<1>4. AreBlocks(g, b)
  BY DEF Laid, AreBlocks
<1>5. NestedOn(g, b)
  <2>1. NestedOn(h, b)
    BY DEF Laid
  <2>. QED
    BY <2>1, <1>2, <1>3 DEF NestedOn
<1>. QED
  BY <1>4, <1>5 DEF Laid

LEMMA AsleepIn ==
  ASSUME NEW h, HeapFine(h), NEW i, IsGenerator(h, i)
  PROVE  /\ h[i] \in GeneratorRecs /\ h[i].tag \in Ids /\ h[i].saved \in Seq(Ids)
         /\ IsTag(h, h[i].tag)
         /\ Len(Asleep(h, i)) = Len(h[i].saved) + 1 /\ Asleep(h, i) \in Seq(Ids)
         /\ Asleep(h, i)[1] = h[i].tag
         /\ \A k \in 1..Len(Asleep(h, i)) :
              Asleep(h, i)[k] = h[i].tag \/ Occurs(Asleep(h, i)[k], h[i].saved)
         /\ \A b : b = h[i].tag \/ Occurs(b, h[i].saved) <=> Occurs(b, Asleep(h, i))
<1>1. h[i] \in GeneratorRecs /\ i \in Ids /\ Fine(h, h[i])
  BY DEF HeapFine, Objects, Free, SequenceRecs, IterationRecs, BlockRecs, IsGenerator
<1>2. h[i].tag \in Ids /\ h[i].saved \in Seq(Ids) /\ IsTag(h, h[i].tag)
  BY <1>1 DEF GeneratorRecs, Fine, GeneratorSees, IsGenerator
<1> DEFINE n == Len(h[i].saved)
           a == Asleep(h, i)
<1>3. n \in Nat /\ h[i].saved \in [1..n -> Ids]
  BY <1>2
<1>4. a = [k \in 1..n + 1 |-> IF k = 1 THEN h[i].tag ELSE h[i].saved[n + 2 - k]]
  BY DEF Asleep
<1>. HIDE DEF a
<1>5. a \in [1..n + 1 -> Ids]
  BY <1>2, <1>3, <1>4
<1>6. Len(a) = n + 1 /\ a \in Seq(Ids) /\ a[1] = h[i].tag
  BY <1>3, <1>4, <1>5
<1>7. \A k \in 1..n + 1 : a[k] = h[i].tag \/ Occurs(a[k], h[i].saved)
  <2> SUFFICES ASSUME NEW k \in 1..n + 1, k # 1
               PROVE  Occurs(a[k], h[i].saved)
    BY Zenon, <1>3, <1>4
  <2>1. n + 2 - k \in 1..n /\ a[k] = h[i].saved[n + 2 - k]
    BY <1>3, <1>4
  <2>. QED
    BY <2>1 DEF Occurs
<1>8. ASSUME NEW b, b = h[i].tag \/ Occurs(b, h[i].saved)
      PROVE  Occurs(b, a)
  <2>1. CASE b = h[i].tag
    BY <1>3, <1>6, <2>1 DEF Occurs
  <2>2. CASE Occurs(b, h[i].saved)
    <3>1. PICK k \in 1..n : h[i].saved[k] = b
      BY <2>2 DEF Occurs
    <3>2. n + 2 - k \in 1..n + 1 /\ n + 2 - k # 1 /\ n + 2 - (n + 2 - k) = k
      BY <1>3
    <3>3. a[n + 2 - k] = b
      BY <1>4, <3>1, <3>2
    <3>. QED
      BY Zenon, <1>6, <3>2, <3>3 DEF Occurs
  <2>. QED
    BY <1>8, <2>1, <2>2
<1>9. \A b : b = h[i].tag \/ Occurs(b, h[i].saved) <=> Occurs(b, a)
  BY Zenon, <1>6, <1>7, <1>8 DEF Occurs
<1>. QED
  BY <1>1, <1>2, <1>6, <1>7, <1>9 DEF a

(***************************************************************************)
(* Frames and generators under a heap that agrees on what they look at.    *)
(***************************************************************************)
LEMMA SpareGenerator ==
  ASSUME NEW h, HeapFine(h), NEW g, NEW s, Spares(h, g, s), NEW i, IsGenerator(g, i)
  PROVE  /\ IsGenerator(h, i) /\ i \in s /\ g[i] = h[i] /\ Asleep(g, i) = Asleep(h, i)
         /\ h[i].tag \in s
         /\ \A k \in 1..Len(Asleep(h, i)) : g[Asleep(h, i)[k]] = h[Asleep(h, i)[k]]
<1>1. i \in s /\ g[i] = h[i] /\ IsGenerator(h, i) /\ Closed(h, s) /\ i \in Ids
  BY DEF IsGenerator, Spares, Free
<1>2. h[i].tag \in s /\ \A k \in 1..Len(h[i].saved) : h[i].saved[k] \in s
  BY <1>1, RefsOfGenerator DEF IsGenerator
<1>3. Asleep(g, i) = Asleep(h, i)
  BY <1>1 DEF Asleep
<1>4. \A k \in 1..Len(Asleep(h, i)) : Asleep(h, i)[k] \in s
  <2> SUFFICES ASSUME NEW k \in 1..Len(Asleep(h, i)) PROVE Asleep(h, i)[k] \in s
    OBVIOUS
  <2>1. Asleep(h, i)[k] = h[i].tag \/ Occurs(Asleep(h, i)[k], h[i].saved)
    BY <1>1, AsleepIn
  <2>. QED
    BY <1>2, <2>1 DEF Occurs
<1>. QED
  BY <1>1, <1>2, <1>3, <1>4 DEF Spares

LEMMA SpareApart ==
  ASSUME NEW h, HeapFine(h), NEW g, NEW s, Spares(h, g, s), NEW bs, Apart(h, bs)
  PROVE  Apart(g, bs)
<1> SUFFICES ASSUME NEW i \in Ids, IsGenerator(g, i)
             PROVE  /\ Laid(g, Asleep(g, i))
                    /\ Occurs(g[i].tag, bs) => g[i].saved = <<>>
                    /\ Disjoint(g[i].saved, bs)
                    /\ \A j \in Ids : IsGenerator(g, j) /\ j # i =>
                         Disjoint(Asleep(g, i), Asleep(g, j))
  BY DEF Apart
<1>1. /\ IsGenerator(h, i) /\ g[i] = h[i] /\ Asleep(g, i) = Asleep(h, i)
      /\ \A k \in 1..Len(Asleep(h, i)) : g[Asleep(h, i)[k]] = h[Asleep(h, i)[k]]
  BY SpareGenerator
<1>2. /\ Laid(h, Asleep(h, i))
      /\ Occurs(h[i].tag, bs) => h[i].saved = <<>>
      /\ Disjoint(h[i].saved, bs)
      /\ \A j \in Ids : IsGenerator(h, j) /\ j # i => Disjoint(Asleep(h, i), Asleep(h, j))
  BY <1>1 DEF Apart
<1>3. Laid(g, Asleep(h, i))
  BY <1>1, <1>2, SpareLaid
<1>4. ASSUME NEW j \in Ids, IsGenerator(g, j), j # i
      PROVE  Disjoint(Asleep(g, i), Asleep(g, j))
  <2>1. IsGenerator(h, j) /\ Asleep(g, j) = Asleep(h, j)
    BY <1>4, SpareGenerator
  <2>. QED
    BY <1>1, <1>2, <1>4, <2>1
<1>. QED
  BY <1>1, <1>2, <1>3, <1>4

(* The blocks of a sequence as they were. *)
Same(h, g, bs) == \A k \in 1..Len(bs) : g[bs[k]] = h[bs[k]]

LEMMA FrameType ==
  ASSUME NEW h, NEW fs, FramesFine(h, fs), NEW k \in 1..Len(fs)
  PROVE  /\ fs \in Seq(FrameRecs) /\ fs[k] \in FrameRecs
         /\ fs[k].base \in Seq(Ids) /\ fs[k].op \in Waiting \cup Looping
         /\ fs[k].op = "build" => fs[k].arg \in Rests
         /\ fs[k].op # "build" => fs[k].arg \in Nat
         /\ fs[k].iter \in Ids \cup {Nothing} /\ fs[k].block \in Ids \cup {Nothing}
         /\ FrameFine(h, fs[k])
<1>1. fs \in Seq(FrameRecs) /\ FrameFine(h, fs[k])
  BY DEF FramesFine
<1>2. fs[k] \in FrameRecs
  BY <1>1
<1>. QED
  BY Zenon, <1>1, <1>2 DEF FrameRecs, CallRecs, BuildRecs, Waiting

LEMMA SameLevel ==
  ASSUME NEW h, NEW g, NEW f, NEW bs, f.base \in Seq(Ids), bs \in Seq(Ids),
         Same(h, g, bs), Level(h, f, bs)
  PROVE  Level(g, f, bs)
<1>1. Len(f.base) < Len(bs) => Len(f.base) + 1 \in 1..Len(bs)
  OBVIOUS
<1>. QED
  BY <1>1 DEF Level, Same

LEMMA SameFrame ==
  ASSUME NEW h, NEW g, NEW bs, NEW f, Same(h, g, bs), bs \in Seq(Ids),
         f.base \in Seq(Ids), Starts(f.base, bs), FrameFine(h, f),
         f.iter \in Ids => g[f.iter] = h[f.iter]
  PROVE  FrameFine(g, f)
<1>1. CASE f.op \in Waiting
  <2>1. f.base # <<>> /\ f.block = f.base[Len(f.base)] /\ f.iter \in Ids
    BY <1>1 DEF FrameFine
  <2>2. Len(f.base) \in 1..Len(f.base)
    BY <2>1
  <2>3. Len(f.base) \in 1..Len(bs) /\ f.block = bs[Len(f.base)]
    BY <2>1, <2>2 DEF Starts
  <2>4. g[f.block] = h[f.block]
    BY <2>3 DEF Same
  <2>. QED
    BY <1>1, <2>1, <2>4 DEF FrameFine, AtForIter, RestThere, Safe, IsGenerator
<1>2. CASE f.op \notin Waiting
  <2>1. f.op = "next" => IsGenerator(h, f.iter)
    BY DEF FrameFine
  <2>. QED
    BY <1>2, <2>1 DEF FrameFine, IsGenerator
<1>. QED
  BY <1>1, <1>2

LEMMA SameFrames ==
  ASSUME NEW h, NEW g, NEW bs, NEW fs, FramesFine(h, fs), Same(h, g, bs), bs \in Seq(Ids),
         \A k \in 1..Len(fs) : Starts(fs[k].base, bs),
         \A k \in 1..Len(fs) : fs[k].iter \in Ids => g[fs[k].iter] = h[fs[k].iter]
  PROVE  FramesFine(g, fs)
<1>1. ASSUME NEW k \in 1..Len(fs) PROVE FrameFine(g, fs[k])
  BY FrameType, SameFrame
<1>2. ASSUME NEW k \in 1..Len(fs), NEW j \in 1..k - 1 PROVE Holds(g, fs[j], fs[k].base)
  <2>1. j \in 1..Len(fs) /\ Len(fs) \in Nat
    BY DEF FramesFine
  <2>2. Holds(h, fs[j], fs[k].base)
    BY DEF FramesFine
  <2>3. fs[j].base \in Seq(Ids) /\ fs[k].base \in Seq(Ids)
    BY <2>1, FrameType
  <2>4. Same(h, g, fs[k].base)
    <3>1. Starts(fs[k].base, bs)
      OBVIOUS
    <3>. QED
      BY <2>3, <3>1 DEF Same, Starts
  <2>. QED
    BY <2>2, <2>3, <2>4, SameLevel DEF Holds
<1>. QED
  BY <1>1, <1>2 DEF FramesFine

(***************************************************************************)
(* The machine after a sweep.                                              *)
(***************************************************************************)
(* The sweep frees nothing that the machine relies on. *)
LEMMA SweptGood ==
  ASSUME NEW h, NEW bs, NEW fs, NEW held, NEW x, Good(h, bs, fs, held, x)
  PROVE  LET g == Swept(h, Kept(h, Roots(bs, fs, held, x)))
         IN  Good(g, bs, fs, held, x) /\ Same(h, g, bs)
<1> DEFINE s == Kept(h, Roots(bs, fs, held, x))
           g == Swept(h, s)
<1>1. /\ HeapFine(h) /\ VarsFine(h, held) /\ Laid(h, bs) /\ Apart(h, bs) /\ FramesFine(h, fs)
      /\ AllRun(h, bs, fs) /\ \A k \in 1..Len(fs) : Starts(fs[k].base, bs)
      /\ x \in Values /\ Safe(h, x) /\ bs \in Seq(Ids)
  BY DEF Good, Laid, AreBlocks
<1>2. s \in SUBSET Ids /\ Roots(bs, fs, held, x) \subseteq s /\ Closed(h, s)
  BY <1>1, RefsInside, RootsType, KeptClosed
<1>3. InUse(bs, fs, held, x, s)
  BY <1>2, RootsInUse
<1>. HIDE DEF s
<1>4. Spares(h, g, s) /\ g \in [Ids -> Objects]
  <2>1. h \in [Ids -> Objects] /\ Free \in Objects
    BY <1>1 DEF HeapFine, Objects
  <2>. QED
    BY <1>2, <2>1 DEF Spares, Swept
<1>. HIDE DEF g
<1>5. HeapFine(g)
  BY <1>1, <1>4, SpareFine
<1>6. VarsFine(g, held)
  BY <1>1, <1>3, <1>4 DEF VarsFine, InUse, Safe, Spares
<1>7. Same(h, g, bs)
  BY <1>3, <1>4 DEF Same, InUse, Spares
<1>8. Laid(g, bs)
  BY <1>1, <1>7, SpareLaid DEF Same
<1>9. Apart(g, bs)
  BY <1>1, <1>4, SpareApart
<1>10. FramesFine(g, fs)
  <2>1. \A k \in 1..Len(fs) : fs[k].iter \in Ids => g[fs[k].iter] = h[fs[k].iter]
    BY <1>3, <1>4 DEF InUse, Spares
  <2>. QED
    BY <1>1, <1>7, <2>1, SameFrames
<1>11. AllRun(g, bs, fs)
  <2> SUFFICES ASSUME NEW i \in Ids, IsGenerator(g, i), Occurs(g[i].tag, bs)
               PROVE  \E k \in 1..Len(fs) : fs[k].op = "next" /\ fs[k].block = g[i].tag
    BY DEF AllRun
  <2>1. IsGenerator(h, i) /\ g[i] = h[i]
    BY <1>1, <1>4, SpareGenerator
  <2>. QED
    BY <1>1, <2>1 DEF AllRun
<1>12. Safe(g, x)
  BY <1>1, <1>3, <1>4 DEF InUse, Safe, Spares
<1>13. Good(g, bs, fs, held, x)
  BY <1>1, <1>5, <1>6, <1>8, <1>9, <1>10, <1>11, <1>12 DEF Good
<1>. QED
  BY <1>7, <1>13 DEF g, s

LEMMA SameAtCheck ==
  ASSUME NEW h, NEW g, NEW bs, NEW fs, NEW held, NEW x, Good(h, bs, fs, held, x),
         Same(h, g, bs), AtCheck(h, bs, fs, x)
  PROVE  AtCheck(g, bs, fs, x)
<1> DEFINE f == fs[Len(fs)]
           e == fs[Len(fs) - 1]
<1>1. /\ FramesFine(h, fs) /\ \A k \in 1..Len(fs) : Starts(fs[k].base, bs)
      /\ bs \in Seq(Ids) /\ fs # <<>> /\ fs \in Seq(FrameRecs)
  BY Zenon DEF Good, Laid, AreBlocks, FramesFine
<1>2. Len(fs) \in Nat /\ Len(fs) \in 1..Len(fs)
  BY <1>1
<1>3. f.base \in Seq(Ids)
  BY <1>1, <1>2, FrameType
<1>4. Level(h, f, bs) => Level(g, f, bs)
  BY <1>1, <1>3, SameLevel
<1>5. ASSUME f.op = "next", RestThere(h, e, 1)
      PROVE  RestThere(g, e, 1)
  <2> SUFFICES ASSUME e.op = "build" PROVE RestThere(g, e, 1)
    BY Zenon DEF RestThere
  <2>1. Len(fs) # 1
    BY <1>1, <1>2, <1>5 DEF FramesFine
  <2>2. Len(fs) - 1 \in 1..Len(fs)
    <3>1. \A n \in Nat : n \in 1..n /\ n # 1 => n - 1 \in 1..n
      OBVIOUS
    <3>. QED
      BY Zenon, <1>2, <2>1, <3>1
  <2>3. e.base \in Seq(Ids) /\ FrameFine(h, e) /\ Starts(e.base, bs)
    BY <1>1, <2>2, FrameType
  <2>4. e.base # <<>> /\ e.block = e.base[Len(e.base)]
    BY <2>3 DEF FrameFine, Waiting
  <2>5. Len(e.base) \in 1..Len(bs) /\ e.block = bs[Len(e.base)]
    BY <1>1, <2>3, <2>4 DEF Starts
  <2>6. g[e.block] = h[e.block]
    BY <2>5 DEF Same
  <2>. QED
    BY <1>5, <2>6 DEF RestThere
<1>. QED
  BY <1>4, <1>5 DEF AtCheck

InvBut(h, bs, fs, held, x, sh, gl) ==
  Good(h, bs, fs, held, x) /\ sh \subseteq DOMAIN Code /\ gl \subseteq Modules

LEMMA EndsFine ==
  ASSUME NEW h, NEW bs, NEW fs, NEW x, EndsAfter(h, bs, fs, x),
         InvBut(h, bs, fs, varnames', x, shared', globals'), AtCheck(h, bs, fs, x)
  PROVE  MachineInv'
<1> DEFINE g == Swept(h, Kept(h, Roots(bs, fs, varnames', x)))
<1>1. heap' = g /\ blocks' = bs /\ frames' = fs /\ ret' = x /\ phase' = "check"
  BY DEF EndsAfter
<1>2. Good(h, bs, fs, varnames', x)
  BY DEF InvBut
<1>3. Good(g, bs, fs, varnames', x) /\ Same(h, g, bs)
  BY <1>2, SweptGood
<1>. HIDE DEF g
<1>4. AtCheck(g, bs, fs, x)
  BY <1>2, <1>3, SameAtCheck
<1>. QED
  BY <1>1, <1>3, <1>4 DEF MachineInv, InvBut, Caller

(***************************************************************************)
(* Objects that change but stay what they are.                             *)
(***************************************************************************)
Alike(h, g) ==
  \A i \in Ids :
    /\ g[i].type = h[i].type
    /\ h[i].type = "block" =>
         /\ g[i].code = h[i].code /\ g[i].start = h[i].start /\ g[i].len = h[i].len
         /\ h[i].flag = "none" => g[i].flag = "none"
         /\ Len(g[i].varnames) = Len(h[i].varnames)
    /\ h[i].type = "generator" => g[i].tag = h[i].tag

LEMMA BlockType ==
  ASSUME NEW h, HeapFine(h), NEW i \in Ids, h[i].type = "block"
  PROVE  /\ h[i] \in BlockRecs /\ PlacedAt(h[i], h[i].ip) /\ BlockSees(h, h[i])
         /\ h[i].code \in DOMAIN Code /\ h[i].start \in Nat /\ h[i].ip \in Nat /\ h[i].len \in Nat
         /\ h[i].stack \in Seq(Values \ {Nothing}) /\ h[i].varnames \in Seq(Slots)
         /\ h[i].scope \in Ids \cup {Nothing}
<1>1. h[i] \in BlockRecs /\ Fine(h, h[i])
  BY DEF HeapFine, Objects, Free, SequenceRecs, IterationRecs, GeneratorRecs
<1>. QED
  BY <1>1 DEF Fine, BlockRecs

LEMMA AlikeSafe ==
  ASSUME NEW h, NEW g, Alike(h, g), NEW v, Safe(h, v)
  PROVE  Safe(g, v)
BY DEF Alike, Safe

LEMMA AlikeSees ==
  ASSUME NEW h, NEW g, HeapFine(h), Alike(h, g), NEW r, BlockSees(h, r)
  PROVE  BlockSees(g, r)
BY DEF Alike, BlockSees, Safe

LEMMA AlikeFine ==
  ASSUME NEW h, NEW g, HeapFine(h), Alike(h, g), NEW i \in Ids, g[i] = h[i]
  PROVE  Fine(g, g[i])
<1>1. Fine(h, h[i]) /\ h[i] \in Objects
  BY DEF HeapFine
<1>2. ASSUME h[i].type = "generator" PROVE GeneratorSees(g, h[i])
  <2>1. GeneratorSees(h, h[i]) /\ IsGenerator(h, i)
    BY <1>1, <1>2 DEF Fine, IsGenerator
  <2>2. h[i].tag \in Ids /\ h[i].saved \in Seq(Ids)
    BY <2>1, AsleepIn
  <2>3. \A k \in 1..Len(h[i].saved) : h[i].saved[k] \in Ids
    BY <2>2
  <2>. QED
    BY <2>1, <2>2, <2>3 DEF GeneratorSees, IsTag, Alike
<1>3. h[i].type = "block" => PlacedAt(h[i], h[i].ip) /\ BlockSees(g, h[i])
  BY <1>1, AlikeSees DEF Fine
<1>. QED
  BY <1>1, <1>2, <1>3 DEF Fine

LEMMA AlikeVars ==
  ASSUME NEW h, NEW g, Alike(h, g), NEW held, VarsFine(h, held)
  PROVE  VarsFine(g, held)
BY AlikeSafe DEF VarsFine

(* The heap g is h but for the block b, which is at p with s on its stack. *)
MovedTo(h, g, b, p, s) ==
  /\ b \in Ids /\ g \in [Ids -> Objects]
  /\ \A i \in Ids \ {b} : g[i] = h[i]
  /\ h[b].type = "block" /\ g[b].type = "block" /\ g[b].ip = p /\ g[b].stack = s
  /\ g[b].code = h[b].code /\ g[b].start = h[b].start /\ g[b].len = h[b].len
  /\ h[b].flag = "none" => g[b].flag = "none"
  /\ g[b].scope = h[b].scope /\ g[b].varnames = h[b].varnames

(* The C calls find the block b as they need it. *)
Suits(h, fs, b, p, s) ==
  \A k \in 1..Len(fs) : fs[k].op \in Waiting /\ fs[k].block = b =>
    /\ p = h[b].ip
    /\ fs[k].op = "build" =>
         \A m \in 1..Len(fs[k].arg.rest) : \E j \in 1..Len(s) : s[j] = fs[k].arg.rest[m]

CanMove(h, bs, fs, n, p, s) ==
  /\ n \in 1..Len(bs)
  /\ PlacedAt(h[bs[n]], p)
  /\ \A k \in 1..Len(s) : Safe(h, s[k])
  /\ Suits(h, fs, bs[n], p, s)
  /\ \/ p = h[bs[n]].ip
     \/ n = Len(bs) /\ \/ h[bs[n]].start = 0 => p \in Outside(h[bs[n]].code)
                       \/ \A k \in 1..Len(fs) : Len(fs[k].base) < Len(bs)

LEMMA MovedAlike ==
  ASSUME NEW h, NEW g, NEW b, NEW p, NEW s, MovedTo(h, g, b, p, s)
  PROVE  Alike(h, g)
BY DEF MovedTo, Alike

LEMMA MovedFine ==
  ASSUME NEW h, NEW g, NEW b, NEW p, NEW s, MovedTo(h, g, b, p, s), HeapFine(h),
         PlacedAt(h[b], p), \A k \in 1..Len(s) : Safe(h, s[k])
  PROVE  HeapFine(g)
<1>1. Alike(h, g)
  BY MovedAlike
<1>2. Fine(g, g[b])
  <2>1. BlockSees(h, h[b])
    BY BlockType DEF MovedTo
  <2>2. BlockSees(h, g[b])
    BY <2>1 DEF BlockSees, MovedTo
  <2>3. BlockSees(g, g[b])
    BY <1>1, <2>2, AlikeSees
  <2>4. PlacedAt(g[b], p)
    BY DEF PlacedAt, MovedTo
  <2>. QED
    BY <2>3, <2>4 DEF Fine, MovedTo
<1>3. ASSUME NEW i \in Ids, i # b PROVE Fine(g, g[i])
  BY <1>1, <1>3, AlikeFine DEF MovedTo
<1>. QED
  BY <1>2, <1>3 DEF HeapFine, MovedTo

(***************************************************************************)
(* The same: the block stack, the generators, the C calls.                 *)
(***************************************************************************)
LEMMA MovedLaid ==
  ASSUME NEW h, NEW g, NEW b, NEW p, NEW s, MovedTo(h, g, b, p, s), NEW t, Laid(h, t),
         \A k \in 1..Len(t) - 1 : t[k] = b => p = h[b].ip
  PROVE  Laid(g, t)
<1>1. t \in Seq(Ids) /\ (\A k \in 1..Len(t) : h[t[k]].type = "block") /\ NestedOn(h, t)
  BY DEF Laid, AreBlocks
<1>2. Alike(h, g)
  BY MovedAlike
<1>3. \A k \in 1..Len(t) :
        /\ t[k] \in Ids /\ g[t[k]].type = "block"
        /\ g[t[k]].start = h[t[k]].start /\ g[t[k]].code = h[t[k]].code /\ g[t[k]].len = h[t[k]].len
  BY <1>1, <1>2 DEF Alike
<1>4. \A k \in 1..Len(t) - 1 : k \in 1..Len(t) /\ k + 1 \in 1..Len(t)
  BY <1>1
<1>5. t # <<>> => 1 \in 1..Len(t)
  BY <1>1
<1>6. \A k \in 1..Len(t) - 1 : g[t[k]].ip = h[t[k]].ip
  BY <1>3, <1>4 DEF MovedTo
<1>7. NestedOn(g, t)
  BY Zenon, <1>1, <1>3, <1>4, <1>5, <1>6 DEF NestedOn
<1>. QED
  BY <1>1, <1>3, <1>7 DEF Laid, AreBlocks

LEMMA MovedGenerator ==
  ASSUME NEW h, NEW g, NEW b, NEW p, NEW s, MovedTo(h, g, b, p, s), NEW i
  PROVE  /\ IsGenerator(g, i) <=> IsGenerator(h, i)
         /\ IsGenerator(h, i) => g[i] = h[i] /\ Asleep(g, i) = Asleep(h, i)
BY DEF MovedTo, IsGenerator, Asleep

LEMMA MovedApart ==
  ASSUME NEW h, NEW g, NEW b, NEW p, NEW s, MovedTo(h, g, b, p, s),
         NEW bs, HeapFine(h), Apart(h, bs), Occurs(b, bs)
  PROVE  Apart(g, bs)
<1> SUFFICES ASSUME NEW i \in Ids, IsGenerator(g, i)
             PROVE  /\ Laid(g, Asleep(g, i))
                    /\ Occurs(g[i].tag, bs) => g[i].saved = <<>>
                    /\ Disjoint(g[i].saved, bs)
                    /\ \A j \in Ids : IsGenerator(g, j) /\ j # i =>
                         Disjoint(Asleep(g, i), Asleep(g, j))
  BY DEF Apart
<1>1. IsGenerator(h, i) /\ g[i] = h[i] /\ Asleep(g, i) = Asleep(h, i)
  BY MovedGenerator
<1>2. /\ Laid(h, Asleep(h, i))
      /\ Occurs(h[i].tag, bs) => h[i].saved = <<>>
      /\ Disjoint(h[i].saved, bs)
      /\ \A j \in Ids : IsGenerator(h, j) /\ j # i => Disjoint(Asleep(h, i), Asleep(h, j))
  BY <1>1 DEF Apart
<1>3. Laid(g, Asleep(h, i))
  <2>1. ASSUME NEW k \in 1..Len(Asleep(h, i)) - 1, Asleep(h, i)[k] = b
        PROVE  FALSE
    <3>1. Len(Asleep(h, i)) = Len(h[i].saved) + 1 /\ Len(h[i].saved) \in Nat
      BY <1>1, AsleepIn
    <3>2. k \in 1..Len(Asleep(h, i)) /\ Len(h[i].saved) # 0
      BY <3>1
    <3>3. b = h[i].tag \/ Occurs(b, h[i].saved)
      BY Zenon, <1>1, <2>1, <3>2, AsleepIn
    <3>4. ~Occurs(b, h[i].saved)
      BY <1>2 DEF Disjoint, Occurs
    <3>5. h[i].saved = <<>>
      BY <1>2, <3>3, <3>4
    <3>. QED
      BY <3>2, <3>5
  <2>. QED
    BY <1>2, <2>1, MovedLaid
<1>4. ASSUME NEW j \in Ids, IsGenerator(g, j), j # i
      PROVE  Disjoint(Asleep(g, i), Asleep(g, j))
  BY <1>1, <1>2, <1>4, MovedGenerator
<1>. QED
  BY <1>1, <1>2, <1>3, <1>4

LEMMA MovedLevel ==
  ASSUME NEW h, NEW g, NEW b, NEW p, NEW s, MovedTo(h, g, b, p, s),
         NEW f, NEW bs, f.base \in Seq(Ids), AreBlocks(h, bs), Level(h, f, bs),
         \A k \in 1..Len(bs) : bs[k] = b =>
           p = h[b].ip \/ (h[b].start = 0 => p \in Outside(h[b].code))
  PROVE  Level(g, f, bs)
<1> SUFFICES ASSUME f.op \in {"next", "function"} PROVE Level(g, f, bs)
  BY DEF Level
<1>1. Alike(h, g)
  BY MovedAlike
<1> DEFINE n == Len(f.base) + 1
           c == bs[n]
<1>2. n \in 1..Len(bs) /\ c \in Ids /\ h[c].type = "block"
  <2>1. bs \in Seq(Ids) /\ Len(f.base) < Len(bs) /\ Len(f.base) \in Nat
    BY DEF Level, AreBlocks
  <2>2. n \in 1..Len(bs)
    BY <2>1
  <2>. QED
    BY <2>1, <2>2 DEF AreBlocks
<1>3. /\ g[c].start = h[c].start /\ g[c].code = h[c].code
      /\ h[c].flag = "none" => g[c].flag = "none"
  BY <1>1, <1>2 DEF Alike
<1>4. h[c].start = 0 /\ h[c].ip \in Outside(h[c].code)
  BY DEF Level
<1>5. g[c].ip \in Outside(h[c].code)
  BY <1>2, <1>4 DEF MovedTo
<1>. QED
  BY <1>3, <1>4, <1>5 DEF Level

LEMMA MovedFrame ==
  ASSUME NEW h, NEW g, NEW b, NEW p, NEW s, MovedTo(h, g, b, p, s), HeapFine(h),
         NEW fs, FramesFine(h, fs), Suits(h, fs, b, p, s), NEW k \in 1..Len(fs)
  PROVE  FrameFine(g, fs[k])
<1> DEFINE f == fs[k]
<1>1. FrameFine(h, f) /\ f.iter \in Ids \cup {Nothing} /\ f.base \in Seq(Ids)
  BY FrameType
<1>2. Alike(h, g)
  BY MovedAlike
<1>3. CASE f.op \in Waiting
  <2>1. f.base # <<>> /\ f.block = f.base[Len(f.base)] /\ f.iter \in Ids /\ Safe(h, f.iter)
        /\ AtForIter(h, f) /\ RestThere(h, f, 0)
    BY <1>1, <1>3 DEF FrameFine
  <2>2. Len(f.base) \in 1..Len(f.base)
    BY <1>1, <2>1
  <2>3. f.block \in Ids
    BY <1>1, <2>1, <2>2
  <2>4. Safe(g, f.iter)
    BY <1>2, <2>1, AlikeSafe
  <2>5. AtForIter(g, f)
    <3>1. CASE f.block # b
      BY <2>1, <2>3, <3>1 DEF AtForIter, MovedTo
    <3>2. CASE f.block = b
      <4>1. p = h[b].ip
        BY <1>3, <3>2 DEF Suits
      <4>. QED
        BY <2>1, <3>2, <4>1 DEF AtForIter, MovedTo
    <3>. QED
      BY <3>1, <3>2
  <2>6. RestThere(g, f, 0)
    <3> SUFFICES ASSUME f.op = "build" PROVE RestThere(g, f, 0)
      BY DEF RestThere
    <3>1. CASE f.block # b
      <4>1. g[f.block] = h[f.block]
        BY <2>3, <3>1 DEF MovedTo
      <4>. QED
        BY <2>1, <4>1 DEF RestThere
    <3>2. CASE f.block = b
      <4>1. \A m \in 1..Len(f.arg.rest) : \E j \in 1..Len(s) : s[j] = f.arg.rest[m]
        BY <1>3, <3>2 DEF Suits
      <4>2. g[f.block].stack = s
        BY <3>2 DEF MovedTo
      <4>3. Len(s) - 0 = Len(s)
        <5>1. g[b] \in Objects
          BY DEF MovedTo
        <5>2. g[b] \in BlockRecs
          BY <5>1 DEF MovedTo, Objects, Free, SequenceRecs, IterationRecs, GeneratorRecs
        <5>3. s \in Seq(Values \ {Nothing})
          BY <5>2 DEF BlockRecs, MovedTo
        <5>. QED
          BY <5>3
      <4>. QED
        BY Zenon, <4>1, <4>2, <4>3 DEF RestThere
    <3>. QED
      BY <3>1, <3>2
  <2>. QED
    BY <1>1, <1>3, <2>1, <2>4, <2>5, <2>6 DEF FrameFine, Waiting
<1>4. CASE f.op \notin Waiting
  <2>1. f.op = "next" => IsGenerator(h, f.iter)
    BY <1>1 DEF FrameFine
  <2>2. f.op = "next" => IsGenerator(g, f.iter) /\ g[f.iter] = h[f.iter]
    BY <2>1, MovedGenerator
  <2>. QED
    BY <1>1, <1>4, <2>2 DEF FrameFine
<1>. QED
  BY <1>3, <1>4

(***************************************************************************)
(* The machine after such a step.                                          *)
(***************************************************************************)
LEMMA PrefixBlocks ==
  ASSUME NEW h, NEW bs, AreBlocks(h, bs), NEW t, t \in Seq(Ids), Starts(t, bs)
  PROVE  AreBlocks(h, t)
BY DEF AreBlocks, Starts

LEMMA MovedGood ==
  ASSUME NEW h, NEW bs, NEW fs, NEW held, NEW x, Good(h, bs, fs, held, x),
         NEW g, NEW n, NEW p, NEW s, CanMove(h, bs, fs, n, p, s), MovedTo(h, g, bs[n], p, s)
  PROVE  Good(g, bs, fs, held, x)
<1> DEFINE b == bs[n]
<1>1. /\ HeapFine(h) /\ VarsFine(h, held) /\ Laid(h, bs) /\ Apart(h, bs) /\ FramesFine(h, fs)
      /\ AllRun(h, bs, fs) /\ \A k \in 1..Len(fs) : Starts(fs[k].base, bs)
      /\ x \in Values /\ Safe(h, x) /\ bs \in Seq(Ids) /\ AreBlocks(h, bs) /\ Once(bs)
  BY DEF Good, Laid, AreBlocks
<1>2. /\ n \in 1..Len(bs) /\ PlacedAt(h[b], p) /\ \A k \in 1..Len(s) : Safe(h, s[k])
      /\ Suits(h, fs, b, p, s)
      /\ \/ p = h[b].ip
         \/ n = Len(bs) /\ \/ h[b].start = 0 => p \in Outside(h[b].code)
                           \/ \A k \in 1..Len(fs) : Len(fs[k].base) < Len(bs)
  BY DEF CanMove
<1>3. Len(bs) \in Nat /\ Occurs(b, bs) /\ \A k \in 1..Len(bs) : bs[k] = b => k = n
  BY <1>1, <1>2 DEF Once, Occurs
<1>4. MovedTo(h, g, b, p, s) /\ Alike(h, g)
  BY MovedAlike
<1>. HIDE DEF b
<1>5. HeapFine(g)
  BY <1>1, <1>2, <1>4, MovedFine
<1>6. VarsFine(g, held) /\ Safe(g, x)
  BY <1>1, <1>4, AlikeVars, AlikeSafe
<1>7. Laid(g, bs)
  <2>1. \A k \in 1..Len(bs) - 1 : bs[k] = b => p = h[b].ip
    BY <1>2, <1>3
  <2>. QED
    BY <1>1, <1>4, <2>1, MovedLaid
<1>8. Apart(g, bs)
  BY <1>1, <1>3, <1>4, MovedApart
<1>9. ASSUME NEW k \in 1..Len(fs), NEW j \in 1..k - 1 PROVE Holds(g, fs[j], fs[k].base)
  <2>1. j \in 1..Len(fs) /\ Len(fs) \in Nat /\ Holds(h, fs[j], fs[k].base)
    BY <1>1 DEF FramesFine
  <2>2. fs[j].base \in Seq(Ids) /\ fs[k].base \in Seq(Ids)
    BY <1>1, <2>1, FrameType
  <2>3. AreBlocks(h, fs[k].base)
    BY <1>1, <2>2, PrefixBlocks
  <2>4. \A m \in 1..Len(fs[k].base) : fs[k].base[m] = b =>
          p = h[b].ip \/ (h[b].start = 0 => p \in Outside(h[b].code))
    <3>1. Len(fs[k].base) <= Len(bs) /\ \A m \in 1..Len(fs[k].base) : fs[k].base[m] = bs[m]
      BY <1>1 DEF Starts
    <3>2. \A m \in 1..Len(fs[k].base) : fs[k].base[m] = b => m = n
      BY <1>3, <2>2, <3>1
    <3>3. Len(fs[k].base) < Len(bs) /\ n = Len(bs) => \A m \in 1..Len(fs[k].base) : m # n
      BY <1>3, <2>2
    <3>. QED
      BY <1>2, <3>2, <3>3
  <2>5. Level(h, fs[j], fs[k].base)
    BY <2>1 DEF Holds
  <2>6. Level(g, fs[j], fs[k].base)
    BY Zenon, <1>4, <2>2, <2>3, <2>4, <2>5, MovedLevel
  <2>. QED
    BY <2>1, <2>6 DEF Holds
<1>10. FramesFine(g, fs)
  <2>1. \A k \in 1..Len(fs) : FrameFine(g, fs[k])
    BY <1>1, <1>2, <1>4, MovedFrame
  <2>. QED
    BY <1>1, <1>9, <2>1 DEF FramesFine
<1>11. AllRun(g, bs, fs)
  BY <1>1, <1>4, MovedGenerator DEF AllRun
<1>. QED
  BY <1>1, <1>5, <1>6, <1>7, <1>8, <1>10, <1>11 DEF Good

(* Good does not depend on the value once there is none. *)
LEMMA GoodValue ==
  ASSUME NEW h, NEW bs, NEW fs, NEW held, NEW x, Good(h, bs, fs, held, x),
         NEW y \in Values, Safe(h, y)
  PROVE  Good(h, bs, fs, held, y)
BY DEF Good

(***************************************************************************)
(* The top block, which runs.                                              *)
(***************************************************************************)
Stepping == MachineInv /\ Orderly /\ phase = "step" /\ blocks # <<>>

Fetching == Stepping /\ heap[Current].ip < heap[Current].len

LEMMA InvParts ==
  ASSUME MachineInv
  PROVE  /\ Good(heap, blocks, frames, varnames, ret)
         /\ HeapFine(heap) /\ VarsFine(heap, varnames) /\ Laid(heap, blocks) /\ Apart(heap, blocks)
         /\ FramesFine(heap, frames) /\ AllRun(heap, blocks, frames)
         /\ \A k \in 1..Len(frames) : Starts(frames[k].base, blocks)
         /\ ret \in Values /\ Safe(heap, ret)
         /\ blocks \in Seq(Ids) /\ AreBlocks(heap, blocks) /\ Once(blocks)
         /\ Len(blocks) \in Nat /\ Len(frames) \in Nat /\ frames \in Seq(FrameRecs)
         /\ Len(frames) \in 1..Len(frames) /\ Caller = frames[Len(frames)]
         /\ shared \subseteq DOMAIN Code /\ globals \subseteq Modules
<1>1. Good(heap, blocks, frames, varnames, ret)
  BY DEF MachineInv
<1>2. FramesFine(heap, frames) /\ Laid(heap, blocks)
  BY <1>1 DEF Good
<1>3. frames \in Seq(FrameRecs) /\ frames # <<>> /\ blocks \in Seq(Ids)
  BY <1>2 DEF FramesFine, Laid, AreBlocks
<1>4. Len(blocks) \in Nat /\ Len(frames) \in Nat /\ Len(frames) \in 1..Len(frames)
  BY <1>3
<1>5. Caller = frames[Len(frames)]
  BY <1>3 DEF Caller, Last
<1>. QED
  BY <1>1, <1>2, <1>3, <1>4, <1>5 DEF Good, Laid, AreBlocks, MachineInv

LEMMA TopBlock ==
  ASSUME MachineInv, blocks # <<>>
  PROVE  /\ Len(blocks) \in 1..Len(blocks) /\ Current = blocks[Len(blocks)]
         /\ Current \in Ids /\ heap[Current].type = "block"
         /\ Operands = heap[Current].stack
         /\ heap[Current] \in BlockRecs /\ PlacedAt(heap[Current], heap[Current].ip)
         /\ BlockSees(heap, heap[Current]) /\ heap[Current].code \in DOMAIN Code
         /\ heap[Current].ip \in Nat
         /\ Operands \in Seq(Values \ {Nothing}) /\ Len(Operands) \in Nat
<1>1. Len(blocks) \in 1..Len(blocks) /\ Current = blocks[Len(blocks)]
  BY InvParts DEF Current, Last
<1>2. Current \in Ids /\ heap[Current].type = "block"
  BY <1>1, InvParts DEF AreBlocks
<1>. QED
  BY <1>1, <1>2, InvParts, BlockType DEF Operands

(* All that the C calls found lies below the top block. *)
LEMMA TopAlone ==
  ASSUME Stepping
  PROVE  /\ \A k \in 1..Len(frames) : Len(frames[k].base) < Len(blocks)
         /\ \A k \in 1..Len(frames) : frames[k].op \in Waiting => frames[k].block # Current
<1>1. MachineInv /\ blocks # <<>> /\ AtStep(heap, blocks, Caller)
  BY DEF Stepping, MachineInv
<1> DEFINE n == Len(frames)
<1>2. n \in Nat /\ n \in 1..n /\ Caller = frames[n] /\ Len(blocks) \in Nat /\ Len(blocks) # 0
  BY <1>1, InvParts, TopBlock
<1>3. FramesFine(heap, frames) /\ \A k \in 1..n : frames[k].base \in Seq(Ids)
  BY <1>1, InvParts, FrameType
<1>. HIDE DEF n
<1>4. Len(frames[n].base) < Len(blocks)
  <2>1. CASE Caller.op = "object"
    <3>1. n = 1 /\ frames[1].base = <<>>
      BY Zenon, <1>2, <1>3, <2>1 DEF FramesFine, n
    <3>. QED
      BY <1>2, <3>1
  <2>2. CASE Caller.op \in {"next", "function"}
    BY <1>1, <1>2, <2>2 DEF AtStep, Level
  <2>3. CASE Caller.op = "method"
    BY <1>1, <1>2, <2>3 DEF AtStep
  <2>. QED
    BY <1>1, <2>1, <2>2, <2>3 DEF AtStep, Looping
<1>5. ASSUME NEW k \in 1..n PROVE Len(frames[k].base) < Len(blocks)
  <2>1. CASE k = n
    BY <1>4, <2>1
  <2>2. CASE k # n
    <3>1. k \in 1..n - 1
      BY <1>2, <2>2
    <3>2. Starts(frames[k].base, frames[n].base)
      BY Zenon, <1>2, <1>3, <3>1 DEF FramesFine, Holds, n
    <3>. QED
      BY <1>2, <1>3, <1>4, <3>2 DEF Starts
  <2>. QED
    BY <2>1, <2>2
<1>6. ASSUME NEW k \in 1..n, frames[k].op \in Waiting, frames[k].block = Current PROVE FALSE
  <2>1. frames[k].base # <<>> /\ frames[k].block = frames[k].base[Len(frames[k].base)]
    BY <1>3, <1>6 DEF FramesFine, FrameFine, n
  <2>2. Len(frames[k].base) \in 1..Len(frames[k].base) /\ Len(frames[k].base) < Len(blocks)
    BY <1>3, <1>5, <2>1
  <2>3. blocks[Len(frames[k].base)] = Current /\ Len(frames[k].base) \in 1..Len(blocks)
    BY <1>1, <1>2, <1>6, <2>1, <2>2, InvParts DEF Starts, n
  <2>4. Len(frames[k].base) = Len(blocks)
    BY Zenon, <1>1, <2>3, InvParts, TopBlock DEF Once
  <2>. QED
    BY <1>2, <2>2, <2>4
<1>. QED
  BY <1>5, <1>6 DEF n

LEMMA StepToCheck ==
  ASSUME NEW h, NEW bs, NEW fs, NEW x, AtStep(h, bs, fs[Len(fs)])
  PROVE  AtCheck(h, bs, fs, x)
BY DEF AtStep, AtCheck

(* The top block goes on at p, with s on its stack. *)
LEMMA TopMoves ==
  ASSUME Stepping, NEW g, NEW p, NEW s, MovedTo(heap, g, Current, p, s),
         PlacedAt(heap[Current], p), \A k \in 1..Len(s) : Safe(heap, s[k])
  PROVE  Good(g, blocks, frames, varnames, Nothing)
<1>1. MachineInv /\ blocks # <<>>
  BY DEF Stepping
<1>2. CanMove(heap, blocks, frames, Len(blocks), p, s)
  <2>1. Suits(heap, frames, Current, p, s)
    BY TopAlone DEF Suits
  <2>. QED
    BY <1>1, <2>1, TopBlock, TopAlone DEF CanMove
<1>3. Good(g, blocks, frames, varnames, ret)
  BY <1>1, <1>2, MovedGood, InvParts, TopBlock
<1>4. Nothing \in Values /\ Safe(g, Nothing)
  BY VMAssumption DEF Values, Safe, Ids
<1>. QED
  BY <1>3, <1>4, GoodValue

LEMMA TopStays ==
  ASSUME Stepping, NEW g, NEW p, NEW s, MovedTo(heap, g, Current, p, s),
         heap[Current].start = 0 => p \in Outside(heap[Current].code)
  PROVE  AtStep(g, blocks, Caller)
<1>1. MachineInv /\ blocks # <<>> /\ AtStep(heap, blocks, Caller)
  BY DEF Stepping, MachineInv
<1>2. Caller.base \in Seq(Ids) /\ AreBlocks(heap, blocks)
  BY <1>1, InvParts, FrameType
<1>3. Level(heap, Caller, blocks)
  BY <1>1 DEF AtStep
<1>4. Level(g, Caller, blocks)
  BY <1>2, <1>3, MovedLevel
<1>. QED
  BY <1>1, <1>4 DEF AtStep

(***************************************************************************)
(* The instruction that the top block is at.                               *)
(***************************************************************************)
LEMMA CodeFine ==
  ASSUME NEW f \in DOMAIN Code
  PROVE  /\ End(f) \in Nat /\ Code[f].vars \in Nat /\ Code[f].args \in Nat
         /\ Places(f) = 0..End(f) - 1 /\ Bases(f) \in Seq(DOMAIN Code)
         /\ Code[f].init # "" => Code[f].init \in DOMAIN Code
         /\ \A p \in Places(f) : Supplied(f, p) /\ GoesTo(f, p) \subseteq 0..End(f)
         /\ \A q \in Setups(f) : /\ q \in Places(f) /\ Behind(f, q) \in Places(f)
                                 /\ \A p \in q + 1 .. Behind(f, q) - 1 :
                                      GoesTo(f, p) \subseteq q + 1 .. Behind(f, q)
         /\ 0 \in Outside(f) /\ Outside(f) \subseteq Places(f)
         /\ \A p \in Outside(f) : /\ At(f, p).op \notin {"pop_block", "break"}
                                  /\ At(f, p).op \in {"return", "raise"}
                                       \/ GoesTo(f, p) \subseteq Outside(f)
<1>1. Nestable(f)
  BY Zenon, CodeAssumption
<1>. QED
  BY Zenon, <1>1, CodeAssumption DEF Nestable, End, Places, Setups, Outside, Inner

LEMMA Placing ==
  ASSUME NEW r, r.code \in DOMAIN Code, r.ip \in Nat, PlacedAt(r, r.ip), r.ip < r.len
  PROVE  /\ r.ip \in Places(r.code)
         /\ r.start = 0 => r.ip \in Outside(r.code)
         /\ \A p \in GoesTo(r.code, r.ip) :
              At(r.code, r.ip).op \notin {"return", "raise"} =>
                PlacedAt(r, p) /\ (r.start = 0 => p \in Outside(r.code))
<1> DEFINE f == r.code
<1>1. /\ End(f) \in Nat /\ Places(f) = 0..End(f) - 1 /\ Outside(f) \subseteq Places(f)
      /\ \A q \in Setups(f) : /\ q \in Places(f) /\ Behind(f, q) \in Places(f)
                              /\ \A p \in q + 1 .. Behind(f, q) - 1 :
                                   GoesTo(f, p) \subseteq q + 1 .. Behind(f, q)
      /\ \A p \in Outside(f) : At(f, p).op \in {"return", "raise"}
                                 \/ GoesTo(f, p) \subseteq Outside(f)
  BY Zenon, CodeFine
<1>. HIDE DEF f
<1>2. CASE r.start = 0 /\ r.len = End(f) /\ r.ip \in Outside(f) \cup {End(f)}
  <2>1. r.ip \in Outside(f) /\ r.ip \in Places(f)
    BY <1>1, <1>2
  <2>2. ASSUME NEW p \in GoesTo(f, r.ip), At(f, r.ip).op \notin {"return", "raise"}
        PROVE  PlacedAt(r, p) /\ p \in Outside(f)
    <3>1. p \in Outside(f) /\ p \in Places(f)
      BY <1>1, <2>1, <2>2
    <3>. QED
      BY <1>1, <1>2, <3>1 DEF PlacedAt, f
  <2>. QED
    BY <2>1, <2>2 DEF f
<1>3. ASSUME NEW q \in Setups(f), r.start = q + 1, r.len = Behind(f, q)
      PROVE  /\ r.ip \in Places(f)
             /\ r.start # 0
             /\ \A p \in GoesTo(f, r.ip) : PlacedAt(r, p)
  <2>1. q \in Places(f) /\ Behind(f, q) \in Places(f)
    BY <1>1
  <2>2. r.start <= r.ip
    BY DEF PlacedAt
  <2>3. r.ip \in q + 1 .. Behind(f, q) - 1
    BY <1>1, <1>3, <2>1, <2>2
  <2>4. \A p \in GoesTo(f, r.ip) : p \in q + 1 .. Behind(f, q)
    BY <1>1, <2>3
  <2>5. \A p \in GoesTo(f, r.ip) : PlacedAt(r, p)
    BY <1>1, <1>3, <2>1, <2>4 DEF PlacedAt, f
  <2>. QED
    BY <1>1, <1>3, <2>1, <2>3, <2>5
<1>. QED
  BY <1>2, <1>3 DEF PlacedAt, f

(* A return is followed by no loop's body that it is not in itself. *)
LEMMA PastReturn ==
  ASSUME NEW r, r.code \in DOMAIN Code, r.ip \in Nat, PlacedAt(r, r.ip), r.ip < r.len,
         At(r.code, r.ip).op \notin {"setup_loop", "setup_with"}
  PROVE  PlacedAt(r, r.ip + 1)
<1> DEFINE f == r.code
<1>1. /\ End(f) \in Nat /\ Places(f) = 0..End(f) - 1 /\ Outside(f) \subseteq Places(f)
      /\ \A q \in Setups(f) : q \in Places(f) /\ Behind(f, q) \in Places(f)
  BY Zenon, CodeFine
<1>2. r.start <= r.ip
  BY DEF PlacedAt
<1>3. CASE r.start = 0 /\ r.len = End(f) /\ r.ip \in Outside(f) \cup {End(f)}
  <2>1. r.ip \in Outside(f) /\ r.ip \in Places(f)
    BY <1>1, <1>3
  <2>2. ASSUME r.ip + 1 # End(f) PROVE r.ip + 1 \in Outside(f)
    <3>1. r.ip + 1 \in Places(f)
      BY <1>1, <2>1, <2>2
    <3>2. ASSUME NEW q \in Setups(f), r.ip + 1 \in Inner(f, q) PROVE FALSE
      <4>1. r.ip \notin Inner(f, q)
        BY <2>1 DEF Outside
      <4>2. r.ip = q
        BY <1>1, <3>2, <4>1 DEF Inner
      <4>. QED
        BY <4>2 DEF Setups, f
    <3>. QED
      BY <3>1, <3>2 DEF Outside
  <2>3. r.ip + 1 <= End(f) /\ r.start <= r.ip + 1
    BY <1>1, <1>3, <2>1
  <2>. QED
    BY <1>3, <2>2, <2>3 DEF PlacedAt, f
<1>4. ASSUME NEW q \in Setups(f), r.start = q + 1, r.len = Behind(f, q)
      PROVE  PlacedAt(r, r.ip + 1)
  <2>1. r.start <= r.ip + 1 /\ r.ip + 1 <= r.len
    BY <1>1, <1>2, <1>4
  <2>. QED
    BY <1>4, <2>1 DEF PlacedAt, f
<1>. QED
  BY <1>3, <1>4 DEF PlacedAt, f

LEMMA Fetch ==
  ASSUME Fetching
  PROVE  LET r == heap[Current]
         IN  /\ Instruction = At(r.code, r.ip) /\ r.ip \in Places(r.code)
             /\ Supplied(r.code, r.ip)
             /\ Needs(Instruction) \in 0..Len(Operands)
             /\ \A p \in GoesTo(r.code, r.ip) :
                  Instruction.op \notin {"return", "raise"} =>
                    PlacedAt(r, p) /\ (r.start = 0 => p \in Outside(r.code))
             /\ Instruction.op \notin {"setup_loop", "setup_with"} => PlacedAt(r, r.ip + 1)
<1> DEFINE r == heap[Current]
<1>1. MachineInv /\ blocks # <<>> /\ r.ip < r.len /\ StackShape /\ phase = "step"
  BY DEF Fetching, Stepping, Orderly
<1>2. r.code \in DOMAIN Code /\ r.ip \in Nat /\ PlacedAt(r, r.ip)
  BY <1>1, TopBlock
<1>3. Instruction = At(r.code, r.ip)
  BY DEF Instruction, At
<1>4. Operands = r.stack /\ Operands \in Seq(Values \ {Nothing})
  BY <1>1, TopBlock
<1>5. [k \in DOMAIN r.stack |-> KindOf(r.stack[k])] = Code[r.code].shape[r.ip + 1]
  BY <1>1 DEF StackShape
<1>. HIDE DEF r
<1>6. r.ip \in Places(r.code) /\ Supplied(r.code, r.ip)
  BY Zenon, <1>1, <1>2, Placing, CodeFine
<1>7. Len(Code[r.code].shape[r.ip + 1]) = Len(Operands)
  BY <1>4, <1>5
<1>8. Needs(Instruction) \in 0..Len(Operands)
  BY <1>3, <1>6, <1>7 DEF Supplied
<1>. QED
  BY Zenon, <1>1, <1>2, <1>3, <1>6, <1>8, Placing, PastReturn DEF r

(***************************************************************************)
(* Stacks of values.                                                       *)
(***************************************************************************)
SafeStack(h, s) == s \in Seq(Values \ {Nothing}) /\ \A k \in 1..Len(s) : Safe(h, s[k])

LEMMA ValueFacts ==
  /\ Nothing \in Values /\ Item \in Values \ {Nothing} /\ None \in Values \ {Nothing}
  /\ Nothing \notin Ids /\ Item \notin Ids /\ None \notin Ids
  /\ \A h : Safe(h, Nothing) /\ Safe(h, Item) /\ Safe(h, None)
BY VMAssumption DEF Values, Ids, Safe

LEMMA PoppedHas ==
  ASSUME NEW t \in Seq(Values \ {Nothing}), NEW j \in 1..Len(t) - 1
  PROVE  j \in 1..Len(Popped(t, 1)) /\ Popped(t, 1)[j] = t[j]
<1>1. Len(t) - 1 \in Nat /\ Len(t) - 1 <= Len(t)
  OBVIOUS
<1>2. Len(Popped(t, 1)) = Len(t) - 1
  BY <1>1 DEF Popped
<1>. QED
  BY <1>1, <1>2 DEF Popped

LEMMA SafePopped ==
  ASSUME NEW h, NEW s, SafeStack(h, s), NEW n \in Nat
  PROVE  SafeStack(h, Popped(s, n))
<1>1. s \in Seq(Values \ {Nothing}) /\ Len(s) \in Nat
  BY DEF SafeStack
<1>2. /\ Popped(s, n) \in Seq(Values \ {Nothing})
      /\ Len(Popped(s, n)) = IF n <= Len(s) THEN Len(s) - n ELSE 0
      /\ \A k \in 1..Len(Popped(s, n)) : Popped(s, n)[k] = s[k]
  BY <1>1 DEF Popped
<1>3. \A k \in 1..Len(Popped(s, n)) : k \in 1..Len(s)
  BY <1>1, <1>2
<1>. QED
  BY <1>2, <1>3 DEF SafeStack

LEMMA SafeAppend ==
  ASSUME NEW h, NEW s, SafeStack(h, s), NEW v \in Values \ {Nothing}, Safe(h, v)
  PROVE  SafeStack(h, Append(s, v))
BY DEF SafeStack

LEMMA SafePushed ==
  ASSUME NEW h, NEW s, SafeStack(h, s), NEW v \in Values, Safe(h, v)
  PROVE  SafeStack(h, Pushed(s, v))
BY SafeAppend DEF Pushed

LEMMA SafeSub ==
  ASSUME NEW h, NEW s, SafeStack(h, s), NEW m \in Nat, m > 0, NEW n \in Nat, n <= Len(s)
  PROVE  SafeStack(h, SubSeq(s, m, n))
<1>1. s \in Seq(Values \ {Nothing}) /\ Len(s) \in Nat
  BY DEF SafeStack
<1>2. /\ SubSeq(s, m, n) \in Seq(Values \ {Nothing})
      /\ \A k \in 1..Len(SubSeq(s, m, n)) : SubSeq(s, m, n)[k] = s[m + k - 1]
      /\ Len(SubSeq(s, m, n)) = IF m <= n THEN n - m + 1 ELSE 0
  BY <1>1
<1>3. \A k \in 1..Len(SubSeq(s, m, n)) : m + k - 1 \in 1..Len(s)
  BY <1>1, <1>2
<1>. QED
  BY <1>2, <1>3 DEF SafeStack

LEMMA SafeConcat ==
  ASSUME NEW h, NEW s, SafeStack(h, s), NEW t, SafeStack(h, t)
  PROVE  SafeStack(h, s \o t)
<1>1. s \in Seq(Values \ {Nothing}) /\ t \in Seq(Values \ {Nothing})
  BY DEF SafeStack
<1>2. /\ s \o t \in Seq(Values \ {Nothing}) /\ Len(s \o t) = Len(s) + Len(t)
      /\ \A k \in 1..Len(s \o t) : (s \o t)[k] = IF k <= Len(s) THEN s[k] ELSE t[k - Len(s)]
  BY <1>1, ConcatProperties
<1>3. \A k \in 1..Len(s \o t) : k \in 1..Len(s) \/ (k > Len(s) /\ k - Len(s) \in 1..Len(t))
  BY <1>1, <1>2
<1>. QED
  BY <1>2, <1>3 DEF SafeStack

LEMMA SafeTop ==
  ASSUME NEW h, NEW s, SafeStack(h, s)
  PROVE  /\ stack_Top(s) \in Values /\ Safe(h, stack_Top(s))
         /\ s # <<>> => stack_Top(s) # Nothing /\ stack_Top(s) = s[Len(s)]
<1>1. s # <<>> => Len(s) \in 1..Len(s)
  BY DEF SafeStack
<1>. QED
  BY <1>1, ValueFacts DEF SafeStack, stack_Top, Last

LEMMA SafeNone ==
  ASSUME NEW h
  PROVE  SafeStack(h, <<>>)
BY DEF SafeStack

(* The operands are safe. *)
LEMMA OperandsSafe ==
  ASSUME MachineInv, blocks # <<>>
  PROVE  SafeStack(heap, Operands)
BY TopBlock DEF SafeStack, BlockSees

(* Changes of the heap that move one block. *)
LEMMA MoveIs ==
  ASSUME NEW h, HeapFine(h), NEW b \in Ids, h[b].type = "block", NEW p \in Nat,
         NEW s \in Seq(Values \ {Nothing})
  PROVE  MovedTo(h, [h EXCEPT ![b] = [@ EXCEPT !.ip = p, !.stack = s]], b, p, s)
<1> DEFINE r == [h[b] EXCEPT !.ip = p, !.stack = s]
           g == [h EXCEPT ![b] = r]
<1>1. h \in [Ids -> Objects] /\ h[b] \in BlockRecs
  BY BlockType DEF HeapFine
<1>2. /\ r \in BlockRecs /\ r.ip = p /\ r.stack = s
      /\ r.type = "block" /\ r.code = h[b].code /\ r.start = h[b].start /\ r.len = h[b].len
      /\ r.flag = h[b].flag /\ r.scope = h[b].scope /\ r.varnames = h[b].varnames
  BY Zenon, <1>1 DEF BlockRecs
<1>. HIDE DEF r
<1>3. g \in [Ids -> Objects] /\ g[b] = r /\ \A i \in Ids \ {b} : g[i] = h[i]
  BY <1>1, <1>2 DEF Objects
<1>4. MovedTo(h, g, b, p, s)
  BY <1>2, <1>3 DEF MovedTo
<1>. QED
  BY <1>4 DEF r

LEMMA FetchedIs ==
  ASSUME MachineInv, blocks # <<>>
  PROVE  MovedTo(heap, Fetched, Current, heap[Current].ip + 1, Operands)
<1> DEFINE r == heap[Current]
<1>1. heap \in [Ids -> Objects] /\ r \in BlockRecs /\ r.ip \in Nat /\ Operands = r.stack
      /\ Current \in Ids /\ r.type = "block" /\ HeapFine(heap)
      /\ r.stack \in Seq(Values \ {Nothing}) /\ r.ip + 1 \in Nat
  BY TopBlock, InvParts DEF HeapFine
<1>2. MovedTo(heap, [heap EXCEPT ![Current] = [@ EXCEPT !.ip = r.ip + 1, !.stack = r.stack]],
              Current, r.ip + 1, r.stack)
  BY Zenon, <1>1, MoveIs
<1>3. [r EXCEPT !.ip = r.ip + 1, !.stack = r.stack] = [r EXCEPT !.ip = r.ip + 1]
  BY Zenon, <1>1 DEF BlockRecs
<1>4. Fetched = [heap EXCEPT ![Current] = [@ EXCEPT !.ip = r.ip + 1, !.stack = r.stack]]
  BY Zenon, <1>1, <1>3 DEF Fetched
<1>. QED
  BY <1>1, <1>2, <1>4

LEMMA StackIs ==
  ASSUME NEW h, NEW g, NEW b, NEW p, NEW s, MovedTo(h, g, b, p, s),
         NEW t \in Seq(Values \ {Nothing})
  PROVE  MovedTo(h, [g EXCEPT ![b].stack = t], b, p, t)
<1>1. g \in [Ids -> Objects] /\ b \in Ids /\ g[b].type = "block"
  BY DEF MovedTo
<1>2. g[b] \in BlockRecs
  BY <1>1 DEF Objects, Free, SequenceRecs, IterationRecs, GeneratorRecs
<1> DEFINE r == [g[b] EXCEPT !.stack = t]
           k == [g EXCEPT ![b] = r]
<1>3. /\ r \in BlockRecs /\ r.ip = g[b].ip /\ r.stack = t
      /\ r.type = "block" /\ r.code = g[b].code /\ r.start = g[b].start /\ r.len = g[b].len
      /\ r.flag = g[b].flag /\ r.scope = g[b].scope /\ r.varnames = g[b].varnames
  BY Zenon, <1>2 DEF BlockRecs
<1>. HIDE DEF r
<1>4. k \in [Ids -> Objects] /\ k[b] = r /\ \A i \in Ids \ {b} : k[i] = g[i]
  BY <1>1, <1>3 DEF Objects
<1>5. MovedTo(h, k, b, p, t)
  BY <1>3, <1>4 DEF MovedTo
<1>. QED
  BY <1>5 DEF r

LEMMA PlaceIs ==
  ASSUME NEW h, NEW g, NEW b, NEW p, NEW s, MovedTo(h, g, b, p, s), NEW q \in Nat
  PROVE  MovedTo(h, [g EXCEPT ![b].ip = q], b, q, s)
<1>1. g \in [Ids -> Objects] /\ b \in Ids /\ g[b].type = "block"
  BY DEF MovedTo
<1>2. g[b] \in BlockRecs
  BY <1>1 DEF Objects, Free, SequenceRecs, IterationRecs, GeneratorRecs
<1> DEFINE r == [g[b] EXCEPT !.ip = q]
           k == [g EXCEPT ![b] = r]
<1>3. /\ r \in BlockRecs /\ r.ip = q /\ r.stack = g[b].stack
      /\ r.type = "block" /\ r.code = g[b].code /\ r.start = g[b].start /\ r.len = g[b].len
      /\ r.flag = g[b].flag /\ r.scope = g[b].scope /\ r.varnames = g[b].varnames
  BY Zenon, <1>2 DEF BlockRecs
<1>. HIDE DEF r
<1>4. k \in [Ids -> Objects] /\ k[b] = r /\ \A i \in Ids \ {b} : k[i] = g[i]
  BY <1>1, <1>3 DEF Objects
<1>5. MovedTo(h, k, b, q, s)
  BY <1>3, <1>4 DEF MovedTo
<1>. QED
  BY <1>5 DEF r

(***************************************************************************)
(* Instructions that stay within their block.                              *)
(***************************************************************************)
Ready == MachineInv /\ Orderly

LEMMA ExecutingFetches ==
  ASSUME Ready, NEW op, Executing(op)
  PROVE  /\ Fetching /\ Stepping /\ MachineInv /\ blocks # <<>> /\ Instruction.op = op
         /\ heap[Current].ip \in Nat
BY TopBlock DEF Ready, Executing, Fetching, Stepping

LEMMA GoesOn ==
  ASSUME Fetching
  PROVE  LET c == heap[Current].code
             p == heap[Current].ip
             o == Instruction.op
         IN  /\ o \notin {"jump", "branch", "jump_if", "for_iter", "setup_loop",
                          "setup_with", "yield"} => p + 1 \in GoesTo(c, p)
             /\ o = "jump" => Arg \in GoesTo(c, p)
             /\ o \in {"branch", "jump_if"} => p + 1 \in GoesTo(c, p) /\ Arg \in GoesTo(c, p)
             /\ o = "for_iter" => p + 1 \in GoesTo(c, p) /\ p + 1 + Arg \in GoesTo(c, p)
             /\ o \in {"setup_loop", "setup_with"} => p + 1 + Arg \in GoesTo(c, p)
             /\ o = "yield" => p + 2 \in GoesTo(c, p)
BY Fetch DEF GoesTo, Arg, Behind

LEMMA GoesNat ==
  ASSUME Fetching, NEW p \in GoesTo(heap[Current].code, heap[Current].ip)
  PROVE  p \in Nat
<1>1. heap[Current].code \in DOMAIN Code
  BY TopBlock DEF Fetching, Stepping
<1>2. heap[Current].ip \in Places(heap[Current].code)
  BY Fetch
<1>3. GoesTo(heap[Current].code, heap[Current].ip) \subseteq 0..End(heap[Current].code)
  BY Zenon, <1>1, <1>2, CodeFine
<1>4. End(heap[Current].code) \in Nat
  BY Zenon, <1>1, CodeFine
<1>. QED
  BY <1>3, <1>4

LEMMA WithinBlock ==
  ASSUME Fetching, NEW g, NEW p, NEW s, MovedTo(heap, g, Current, p, s), SafeStack(heap, s),
         p \in GoesTo(heap[Current].code, heap[Current].ip),
         Instruction.op \notin {"return", "raise"},
         NEW x \in Values, Safe(heap, x), Ends(g, blocks, frames, x)
  PROVE  MachineInv'
<1>1. Stepping /\ MachineInv
  BY DEF Fetching, Stepping
<1>2. /\ PlacedAt(heap[Current], p)
      /\ heap[Current].start = 0 => p \in Outside(heap[Current].code)
  BY Fetch
<1>3. Good(g, blocks, frames, varnames, Nothing)
  BY <1>1, <1>2, TopMoves DEF SafeStack
<1>4. Safe(g, x)
  BY MovedAlike, AlikeSafe
<1>5. Good(g, blocks, frames, varnames, x)
  BY <1>3, <1>4, GoodValue
<1>6. AtCheck(g, blocks, frames, x)
  BY <1>1, <1>2, TopStays, StepToCheck, InvParts
<1>7. varnames' = varnames /\ shared' = shared /\ globals' = globals
      /\ EndsAfter(g, blocks, frames, x)
  BY DEF Ends, statics
<1>8. InvBut(g, blocks, frames, varnames', x, shared', globals')
  BY <1>1, <1>5, <1>7, InvParts DEF InvBut
<1>. QED
  BY <1>6, <1>7, <1>8, EndsFine

LEMMA TakenIs ==
  ASSUME MachineInv, blocks # <<>>, NEW n \in Nat
  PROVE  /\ MovedTo(heap, Taken(n), Current, heap[Current].ip + 1, Popped(Operands, n))
         /\ SafeStack(heap, Popped(Operands, n)) /\ Taken(n)[Current].stack = Popped(Operands, n)
         /\ Taken(n)[Current].ip = heap[Current].ip + 1
<1>1. MovedTo(heap, Fetched, Current, heap[Current].ip + 1, Operands)
  BY FetchedIs
<1>2. Fetched[Current].stack = Operands
  BY <1>1 DEF MovedTo
<1>3. SafeStack(heap, Popped(Operands, n))
  BY OperandsSafe, SafePopped
<1>4. MovedTo(heap, [Fetched EXCEPT ![Current].stack = Popped(Operands, n)],
              Current, heap[Current].ip + 1, Popped(Operands, n))
  BY <1>1, <1>3, StackIs DEF SafeStack
<1>5. Taken(n) = [Fetched EXCEPT ![Current].stack = Popped(Operands, n)]
  BY <1>2 DEF Taken
<1>6. MovedTo(heap, Taken(n), Current, heap[Current].ip + 1, Popped(Operands, n))
  BY <1>4, <1>5
<1>. QED
  BY <1>3, <1>6 DEF MovedTo

(* The instructions that only change the values. *)
LEMMA OnlyValues ==
  ASSUME Fetching, NEW g, NEW q, NEW t, MovedTo(heap, g, Current, heap[Current].ip + 1, t),
         NEW s, SafeStack(heap, s), Ends([g EXCEPT ![Current].stack = s], blocks, frames, Nothing),
         Instruction.op \notin {"jump", "branch", "jump_if", "for_iter", "setup_loop",
                               "setup_with", "yield", "return", "raise"}
  PROVE  MachineInv'
<1>1. MovedTo(heap, [g EXCEPT ![Current].stack = s], Current, heap[Current].ip + 1, s)
  BY StackIs DEF SafeStack
<1>2. heap[Current].ip + 1 \in GoesTo(heap[Current].code, heap[Current].ip)
  BY GoesOn
<1>. QED
  BY <1>1, <1>2, WithinBlock, ValueFacts

LEMMA StepLoad ==
  ASSUME Ready, Load
  PROVE  MachineInv'
<1>1. Executing("load") /\ Ends([Fetched EXCEPT ![Current].stack = Append(@, Arg)],
                                blocks, frames, Nothing)
  BY DEF Load
<1>2. Fetching /\ MachineInv /\ blocks # <<>> /\ Instruction.op = "load"
  BY <1>1, ExecutingFetches
<1>3. Arg \in {Item, None} \cup Tuples
  BY <1>2, Fetch DEF Supplied, Arg
<1>4. SafeStack(heap, Append(Operands, Arg))
  <2>1. Arg \in Values \ {Nothing} /\ Safe(heap, Arg)
    BY <1>3, VMAssumption DEF Values, Ids, Safe
  <2>. QED
    BY <1>2, <2>1, OperandsSafe, SafeAppend
<1>5. /\ MovedTo(heap, Fetched, Current, heap[Current].ip + 1, Operands)
      /\ Fetched[Current].stack = Operands
  BY <1>2, FetchedIs DEF MovedTo
<1>6. Ends([Fetched EXCEPT ![Current].stack = Append(Operands, Arg)], blocks, frames, Nothing)
  BY <1>1, <1>5
<1>. QED
  BY Zenon, <1>2, <1>4, <1>5, <1>6, OnlyValues

LEMMA UppermostSafe ==
  ASSUME MachineInv, blocks # <<>>, NEW n \in 0..Len(Operands)
  PROVE  SafeStack(heap, Uppermost(n)) /\ Len(Uppermost(n)) = n
<1>1. Operands \in Seq(Values \ {Nothing}) /\ Len(Operands) \in Nat
  BY TopBlock
<1>2. SafeStack(heap, Uppermost(n))
  BY <1>1, OperandsSafe, SafeSub DEF Uppermost
<1>. QED
  BY <1>1, <1>2 DEF Uppermost

LEMMA StepDupTop ==
  ASSUME Ready, DupTop
  PROVE  MachineInv'
<1>1. Executing("dup_top") /\ Ends([Fetched EXCEPT ![Current].stack = @ \o Uppermost(Arg)],
                                   blocks, frames, Nothing)
  BY DEF DupTop
<1>2. Fetching /\ MachineInv /\ blocks # <<>> /\ Instruction.op = "dup_top"
  BY <1>1, ExecutingFetches
<1>3. Arg \in 0..Len(Operands)
  BY <1>2, Fetch DEF Needs, Arg
<1>4. SafeStack(heap, Operands \o Uppermost(Arg))
  BY <1>2, <1>3, OperandsSafe, UppermostSafe, SafeConcat
<1>5. /\ MovedTo(heap, Fetched, Current, heap[Current].ip + 1, Operands)
      /\ Fetched[Current].stack = Operands
  BY <1>2, FetchedIs DEF MovedTo
<1>6. Ends([Fetched EXCEPT ![Current].stack = Operands \o Uppermost(Arg)],
           blocks, frames, Nothing)
  BY <1>1, <1>5
<1>. QED
  BY Zenon, <1>2, <1>4, <1>5, <1>6, OnlyValues

LEMMA StepRotate ==
  ASSUME Ready, Rotate
  PROVE  MachineInv'
<1> DEFINE s == Popped(Operands, Arg) \o <<Last(Operands)>> \o Front(Uppermost(Arg))
<1>1. Executing("rotate")
      /\ Ends([Fetched EXCEPT ![Current].stack =
                  Popped(@, Arg) \o <<Last(@)>> \o Front(Uppermost(Arg))],
              blocks, frames, Nothing)
  BY DEF Rotate
<1>2. Fetching /\ MachineInv /\ blocks # <<>> /\ Instruction.op = "rotate"
  BY <1>1, ExecutingFetches
<1>3. Arg \in 0..Len(Operands) /\ Arg > 0
  BY Zenon, <1>2, Fetch DEF Needs, Arg, Supplied
<1>4. SafeStack(heap, s)
  <2>1. SafeStack(heap, Operands) /\ Len(Operands) \in 1..Len(Operands)
    BY <1>2, <1>3, OperandsSafe, TopBlock
  <2>2. SafeStack(heap, Popped(Operands, Arg))
    BY <1>3, <2>1, SafePopped
  <2>3. SafeStack(heap, <<Last(Operands)>>)
    BY <2>1 DEF SafeStack, Last
  <2>4. SafeStack(heap, Front(Uppermost(Arg)))
    <3>1. SafeStack(heap, Uppermost(Arg)) /\ Len(Uppermost(Arg)) = Arg
      BY <1>2, <1>3, UppermostSafe
    <3>. QED
      BY <1>3, <3>1, SafeSub DEF Front
  <2>. QED
    BY <2>2, <2>3, <2>4, SafeConcat
<1>5. /\ MovedTo(heap, Fetched, Current, heap[Current].ip + 1, Operands)
      /\ Fetched[Current].stack = Operands
  BY <1>2, FetchedIs DEF MovedTo
<1>6. Ends([Fetched EXCEPT ![Current].stack = s], blocks, frames, Nothing)
  BY <1>1, <1>5
<1>. QED
  BY Zenon, <1>2, <1>4, <1>5, <1>6, OnlyValues

(***************************************************************************)
(* The instructions that compute and jump.                                 *)
(***************************************************************************)
LEMMA StepCompute ==
  ASSUME Ready, Compute
  PROVE  MachineInv'
<1>1. Executing("compute") /\ Ends([Taken(Arg) EXCEPT ![Current].stack = Append(@, Item)],
                                   blocks, frames, Nothing)
  BY DEF Compute
<1>2. Fetching /\ MachineInv /\ blocks # <<>> /\ Instruction.op = "compute"
  BY <1>1, ExecutingFetches
<1>3. Arg \in Nat
  BY <1>2, Fetch, TopBlock DEF Needs, Arg
<1>4. /\ MovedTo(heap, Taken(Arg), Current, heap[Current].ip + 1, Popped(Operands, Arg))
      /\ SafeStack(heap, Popped(Operands, Arg))
      /\ Taken(Arg)[Current].stack = Popped(Operands, Arg)
  BY <1>2, <1>3, TakenIs
<1>5. SafeStack(heap, Append(Popped(Operands, Arg), Item))
  BY <1>4, SafeAppend, ValueFacts
<1>6. Ends([Taken(Arg) EXCEPT ![Current].stack = Append(Popped(Operands, Arg), Item)],
           blocks, frames, Nothing)
  BY <1>1, <1>4
<1>. QED
  BY Zenon, <1>2, <1>4, <1>5, <1>6, OnlyValues

LEMMA OnlyTaken ==
  ASSUME Fetching, NEW n \in Nat, Ends(Taken(n), blocks, frames, Nothing),
         Instruction.op \notin {"jump", "branch", "for_iter", "setup_loop", "setup_with",
                               "yield", "return", "raise"}
  PROVE  MachineInv'
<1>1. MachineInv /\ blocks # <<>>
  BY DEF Fetching, Stepping
<1>2. /\ MovedTo(heap, Taken(n), Current, heap[Current].ip + 1, Popped(Operands, n))
      /\ SafeStack(heap, Popped(Operands, n))
  BY <1>1, TakenIs
<1>3. heap[Current].ip + 1 \in GoesTo(heap[Current].code, heap[Current].ip)
  BY GoesOn
<1>. QED
  BY <1>2, <1>3, WithinBlock, ValueFacts

LEMMA StepStore ==
  ASSUME Ready, Store
  PROVE  MachineInv'
<1>1. Executing("store") /\ Ends(Taken(Arg), blocks, frames, Nothing)
  BY DEF Store
<1>2. Fetching /\ MachineInv /\ blocks # <<>> /\ Instruction.op = "store"
  BY <1>1, ExecutingFetches
<1>3. Arg \in Nat
  BY <1>2, Fetch, TopBlock DEF Needs, Arg
<1>. QED
  BY <1>1, <1>2, <1>3, OnlyTaken

LEMMA StepListAppend ==
  ASSUME Ready, ListAppend
  PROVE  MachineInv'
<1>1. Executing("list_append") /\ Ends(Taken(1), blocks, frames, Nothing)
  BY DEF ListAppend
<1>2. Fetching /\ Instruction.op = "list_append"
  BY <1>1, ExecutingFetches
<1>. QED
  BY <1>1, <1>2, OnlyTaken

LEMMA StepWithCleanup ==
  ASSUME Ready, WithCleanup
  PROVE  MachineInv'
<1>1. Executing("with_cleanup") /\ Ends([Fetched EXCEPT ![Current].stack = <<>>],
                                        blocks, frames, Nothing)
  BY DEF WithCleanup
<1>2. Fetching /\ MachineInv /\ blocks # <<>> /\ Instruction.op = "with_cleanup"
  BY <1>1, ExecutingFetches
<1>3. MovedTo(heap, Fetched, Current, heap[Current].ip + 1, Operands)
  BY <1>2, FetchedIs
<1>. QED
  BY Zenon, <1>1, <1>2, <1>3, OnlyValues, SafeNone

(* A variable holds no block. *)
LEMMA VariablesSafe ==
  ASSUME MachineInv, blocks # <<>>
  PROVE  /\ Variables \in Seq(Slots) /\ Len(Variables) = Code[heap[Current].code].vars
         /\ \A k \in 1..Len(Variables) : Safe(heap, Variables[k].value)
<1>1. Current \in Ids /\ heap[Current].code \in DOMAIN Code /\ BlockSees(heap, heap[Current])
      /\ heap[Current].scope \in Ids \cup {Nothing} /\ HeapFine(heap) /\ VarsFine(heap, varnames)
  BY TopBlock, InvParts, BlockType
<1>2. CASE Scope = Nothing
  <2>1. Variables = varnames[heap[Current].code]
    BY <1>2 DEF Variables
  <2>. QED
    BY <1>1, <2>1 DEF VarsFine
<1>3. CASE Scope # Nothing
  <2>1. Variables = heap[Scope].varnames /\ Scope \in Ids
    BY <1>1, <1>3 DEF Variables, Scope
  <2>2. /\ heap[Scope].type = "block" /\ heap[Scope].code = heap[Current].code
        /\ Len(heap[Scope].varnames) = Code[heap[Current].code].vars
    BY <1>1, <2>1 DEF BlockSees, Scope
  <2>3. BlockSees(heap, heap[Scope]) /\ heap[Scope].varnames \in Seq(Slots)
    BY <1>1, <2>1, <2>2, BlockType
  <2>. QED
    BY <2>1, <2>2, <2>3 DEF BlockSees
<1>. QED
  BY <1>2, <1>3

LEMMA StepLoadFast ==
  ASSUME Ready, LoadFast
  PROVE  MachineInv'
<1> DEFINE v == Variables[Arg].value
<1>1. Executing("load_fast") /\ Ends([Fetched EXCEPT ![Current].stack = Pushed(@, v)],
                                     blocks, frames, Nothing)
  BY DEF LoadFast
<1>2. Fetching /\ MachineInv /\ blocks # <<>> /\ Instruction.op = "load_fast"
  BY <1>1, ExecutingFetches
<1>3. Arg \in 1..Code[heap[Current].code].vars
  BY <1>2, Fetch DEF Supplied, Arg
<1>4. Arg \in 1..Len(Variables) /\ Variables[Arg] \in Slots /\ Safe(heap, v)
  BY <1>2, <1>3, VariablesSafe
<1>5. v \in Values
  BY <1>4 DEF Slots
<1>. HIDE DEF v
<1>6. SafeStack(heap, Pushed(Operands, v))
  BY <1>2, <1>4, <1>5, OperandsSafe, SafePushed
<1>7. /\ MovedTo(heap, Fetched, Current, heap[Current].ip + 1, Operands)
      /\ Fetched[Current].stack = Operands
  BY <1>2, FetchedIs DEF MovedTo
<1>8. Ends([Fetched EXCEPT ![Current].stack = Pushed(Operands, v)], blocks, frames, Nothing)
  BY <1>1, <1>7
<1>. QED
  BY <1>2, <1>6, <1>7, <1>8, OnlyValues

LEMMA StepJump ==
  ASSUME Ready, Jump
  PROVE  MachineInv'
<1>1. Executing("jump") /\ Ends([heap EXCEPT ![Current].ip = Arg], blocks, frames, Nothing)
  BY DEF Jump
<1>2. Fetching /\ MachineInv /\ blocks # <<>> /\ Instruction.op = "jump"
  BY <1>1, ExecutingFetches
<1>3. Arg \in GoesTo(heap[Current].code, heap[Current].ip) /\ Arg \in Nat
  BY <1>2, GoesOn, GoesNat
<1>4. MovedTo(heap, heap, Current, heap[Current].ip, Operands)
  BY <1>2, TopBlock, InvParts DEF MovedTo, HeapFine
<1>5. MovedTo(heap, [heap EXCEPT ![Current].ip = Arg], Current, Arg, Operands)
  BY <1>3, <1>4, PlaceIs
<1>. QED
  BY <1>1, <1>2, <1>3, <1>5, OperandsSafe, WithinBlock, ValueFacts

LEMMA StepBranch ==
  ASSUME Ready, Branch
  PROVE  MachineInv'
<1>1. PICK at \in {heap[Current].ip + 1, Arg} :
        Ends([Taken(1) EXCEPT ![Current].ip = at], blocks, frames, Nothing)
  BY DEF Branch
<1>2. Executing("branch")
  BY DEF Branch
<1>3. Fetching /\ MachineInv /\ blocks # <<>> /\ Instruction.op = "branch"
  BY <1>2, ExecutingFetches
<1>4. at \in GoesTo(heap[Current].code, heap[Current].ip) /\ at \in Nat
  BY <1>3, GoesOn, GoesNat
<1>5. /\ MovedTo(heap, Taken(1), Current, heap[Current].ip + 1, Popped(Operands, 1))
      /\ SafeStack(heap, Popped(Operands, 1))
  BY <1>3, TakenIs
<1>6. MovedTo(heap, [Taken(1) EXCEPT ![Current].ip = at], Current, at, Popped(Operands, 1))
  BY <1>4, <1>5, PlaceIs
<1>. QED
  BY <1>1, <1>3, <1>4, <1>5, <1>6, WithinBlock, ValueFacts

LEMMA StepJumpIf ==
  ASSUME Ready, JumpIf
  PROVE  MachineInv'
<1>1. Executing("jump_if")
  BY DEF JumpIf
<1>2. Fetching /\ MachineInv /\ blocks # <<>> /\ Instruction.op = "jump_if"
  BY <1>1, ExecutingFetches
<1>3. CASE Ends([Fetched EXCEPT ![Current].ip = Arg], blocks, frames, Nothing)
  <2>1. Arg \in GoesTo(heap[Current].code, heap[Current].ip) /\ Arg \in Nat
    BY <1>2, GoesOn, GoesNat
  <2>2. MovedTo(heap, [Fetched EXCEPT ![Current].ip = Arg], Current, Arg, Operands)
    BY <1>2, <2>1, FetchedIs, PlaceIs
  <2>. QED
    BY <1>2, <1>3, <2>1, <2>2, OperandsSafe, WithinBlock, ValueFacts
<1>4. CASE Ends(Taken(1), blocks, frames, Nothing)
  BY <1>2, <1>4, OnlyTaken
<1>. QED
  BY <1>3, <1>4 DEF JumpIf

(***************************************************************************)
(* Assignments.                                                            *)
(***************************************************************************)
LEMMA GoodVars ==
  ASSUME NEW h, NEW bs, NEW fs, NEW held, NEW x, Good(h, bs, fs, held, x),
         NEW vs, VarsFine(h, vs)
  PROVE  Good(h, bs, fs, vs, x)
BY DEF Good

(* All that moves in the heap is a variable, a position or a flag. *)
Settled(h, g) ==
  \A i \in Ids : /\ h[i].type = "block" => g[i].ip = h[i].ip /\ g[i].stack = h[i].stack
                 /\ h[i].type = "generator" => g[i] = h[i]

LEMMA SettledLaid ==
  ASSUME NEW h, NEW g, Alike(h, g), Settled(h, g), NEW t, Laid(h, t)
  PROVE  Laid(g, t)
<1>1. t \in Seq(Ids) /\ (\A k \in 1..Len(t) : h[t[k]].type = "block") /\ NestedOn(h, t)
  BY DEF Laid, AreBlocks
<1>2. \A k \in 1..Len(t) :
        /\ t[k] \in Ids /\ g[t[k]].type = "block" /\ g[t[k]].ip = h[t[k]].ip
        /\ g[t[k]].start = h[t[k]].start /\ g[t[k]].code = h[t[k]].code /\ g[t[k]].len = h[t[k]].len
  BY <1>1 DEF Alike, Settled
<1>3. \A k \in 1..Len(t) - 1 : k \in 1..Len(t) /\ k + 1 \in 1..Len(t)
  BY <1>1
<1>4. t # <<>> => 1 \in 1..Len(t)
  BY <1>1
<1>5. NestedOn(g, t)
  BY Zenon, <1>1, <1>2, <1>3, <1>4 DEF NestedOn
<1>. QED
  BY <1>1, <1>2, <1>5 DEF Laid, AreBlocks

LEMMA SettledGenerator ==
  ASSUME NEW h, NEW g, Alike(h, g), Settled(h, g), NEW i
  PROVE  /\ IsGenerator(g, i) <=> IsGenerator(h, i)
         /\ IsGenerator(h, i) => g[i] = h[i] /\ Asleep(g, i) = Asleep(h, i)
BY DEF Alike, Settled, IsGenerator, Asleep

LEMMA SettledLevel ==
  ASSUME NEW h, NEW g, Alike(h, g), Settled(h, g), NEW f, NEW bs, f.base \in Seq(Ids),
         AreBlocks(h, bs), Level(h, f, bs)
  PROVE  Level(g, f, bs)
<1> SUFFICES ASSUME f.op \in {"next", "function"} PROVE Level(g, f, bs)
  BY DEF Level
<1> DEFINE n == Len(f.base) + 1
           c == bs[n]
<1>1. n \in 1..Len(bs) /\ c \in Ids /\ h[c].type = "block"
  <2>1. bs \in Seq(Ids) /\ Len(f.base) < Len(bs) /\ Len(f.base) \in Nat
    BY DEF Level, AreBlocks
  <2>2. n \in 1..Len(bs)
    BY <2>1
  <2>. QED
    BY <2>1, <2>2 DEF AreBlocks
<1>2. /\ g[c].start = h[c].start /\ g[c].code = h[c].code /\ g[c].ip = h[c].ip
      /\ h[c].flag = "none" => g[c].flag = "none"
  BY <1>1 DEF Alike, Settled
<1>. QED
  BY <1>2 DEF Level

LEMMA SettledFrame ==
  ASSUME NEW h, NEW g, Alike(h, g), Settled(h, g), NEW fs, FramesFine(h, fs),
         NEW bs, AreBlocks(h, bs), NEW k \in 1..Len(fs), Starts(fs[k].base, bs)
  PROVE  FrameFine(g, fs[k])
<1> DEFINE f == fs[k]
<1>1. FrameFine(h, f) /\ f.iter \in Ids \cup {Nothing} /\ f.base \in Seq(Ids)
  BY FrameType
<1>2. CASE f.op \in Waiting
  <2>1. f.base # <<>> /\ f.block = f.base[Len(f.base)] /\ f.iter \in Ids /\ Safe(h, f.iter)
        /\ AtForIter(h, f) /\ RestThere(h, f, 0)
    BY <1>1, <1>2 DEF FrameFine
  <2>2. Len(f.base) \in 1..Len(bs)
    BY <1>1, <2>1 DEF Starts
  <2>3. f.block \in Ids /\ h[f.block].type = "block"
    BY <1>1, <2>1, <2>2 DEF Starts, AreBlocks
  <2>4. /\ g[f.block].ip = h[f.block].ip /\ g[f.block].stack = h[f.block].stack
        /\ g[f.block].code = h[f.block].code /\ g[f.block].start = h[f.block].start
        /\ g[f.block].len = h[f.block].len
    BY <2>3 DEF Alike, Settled
  <2>5. Safe(g, f.iter)
    BY <2>1, AlikeSafe
  <2>6. AtForIter(g, f) /\ RestThere(g, f, 0)
    BY Zenon, <2>1, <2>4 DEF AtForIter, RestThere
  <2>. QED
    BY <1>1, <1>2, <2>1, <2>5, <2>6 DEF FrameFine, Waiting
<1>3. CASE f.op \notin Waiting
  <2>1. f.op = "next" => IsGenerator(h, f.iter)
    BY <1>1 DEF FrameFine
  <2>2. f.op = "next" => IsGenerator(g, f.iter) /\ g[f.iter] = h[f.iter]
    BY <2>1, SettledGenerator
  <2>. QED
    BY <1>1, <1>3, <2>2 DEF FrameFine
<1>. QED
  BY <1>2, <1>3

LEMMA SettledGood ==
  ASSUME NEW h, NEW bs, NEW fs, NEW held, NEW x, Good(h, bs, fs, held, x),
         NEW g, HeapFine(g), Alike(h, g), Settled(h, g)
  PROVE  Good(g, bs, fs, held, x)
<1>1. /\ HeapFine(h) /\ VarsFine(h, held) /\ Laid(h, bs) /\ Apart(h, bs) /\ FramesFine(h, fs)
      /\ AllRun(h, bs, fs) /\ \A k \in 1..Len(fs) : Starts(fs[k].base, bs)
      /\ x \in Values /\ Safe(h, x) /\ AreBlocks(h, bs)
  BY DEF Good, Laid
<1>2. VarsFine(g, held) /\ Safe(g, x)
  BY <1>1, AlikeVars, AlikeSafe
<1>3. Laid(g, bs)
  BY <1>1, SettledLaid
<1>4. Apart(g, bs)
  <2> SUFFICES ASSUME NEW i \in Ids, IsGenerator(g, i)
               PROVE  /\ Laid(g, Asleep(g, i))
                      /\ Occurs(g[i].tag, bs) => g[i].saved = <<>>
                      /\ Disjoint(g[i].saved, bs)
                      /\ \A j \in Ids : IsGenerator(g, j) /\ j # i =>
                           Disjoint(Asleep(g, i), Asleep(g, j))
    BY DEF Apart
  <2>1. IsGenerator(h, i) /\ g[i] = h[i] /\ Asleep(g, i) = Asleep(h, i)
    BY SettledGenerator
  <2>2. /\ Laid(h, Asleep(h, i))
        /\ Occurs(h[i].tag, bs) => h[i].saved = <<>>
        /\ Disjoint(h[i].saved, bs)
        /\ \A j \in Ids : IsGenerator(h, j) /\ j # i => Disjoint(Asleep(h, i), Asleep(h, j))
    BY <1>1, <2>1 DEF Apart
  <2>3. Laid(g, Asleep(h, i))
    BY <2>2, SettledLaid
  <2>4. ASSUME NEW j \in Ids, IsGenerator(g, j), j # i
        PROVE  Disjoint(Asleep(g, i), Asleep(g, j))
    BY <2>1, <2>2, <2>4, SettledGenerator
  <2>. QED
    BY <2>1, <2>2, <2>3, <2>4
<1>5. FramesFine(g, fs)
  <2>1. \A k \in 1..Len(fs) : FrameFine(g, fs[k])
    BY <1>1, SettledFrame
  <2>2. ASSUME NEW k \in 1..Len(fs), NEW j \in 1..k - 1 PROVE Holds(g, fs[j], fs[k].base)
    <3>1. j \in 1..Len(fs) /\ Len(fs) \in Nat /\ Holds(h, fs[j], fs[k].base)
      BY <1>1 DEF FramesFine
    <3>2. fs[j].base \in Seq(Ids) /\ fs[k].base \in Seq(Ids)
      BY <1>1, <3>1, FrameType
    <3>3. AreBlocks(h, fs[k].base)
      BY <1>1, <3>2, PrefixBlocks
    <3>4. Level(g, fs[j], fs[k].base)
      BY <3>1, <3>2, <3>3, SettledLevel DEF Holds
    <3>. QED
      BY <3>1, <3>4 DEF Holds
  <2>. QED
    BY <1>1, <2>1, <2>2 DEF FramesFine
<1>6. AllRun(g, bs, fs)
  BY <1>1, SettledGenerator DEF AllRun
<1>. QED
  BY <1>1, <1>2, <1>3, <1>4, <1>5, <1>6 DEF Good

(***************************************************************************)
(* Whose variables: the activation, and the code object or the copy.       *)
(***************************************************************************)
(* The last block of a kind. *)
LEMMA GreatestOf ==
  ASSUME NEW n \in Nat, NEW S, \A i \in S : i \in 1..n, S # {}
  PROVE  Max(S) \in S /\ \A i \in S : i <= Max(S)
<1>1. S \in SUBSET (1..n) /\ IsFiniteSet(1..n)
  BY FS_Interval
<1>2. IsFiniteSet(S)
  BY Zenon, <1>1, FS_Subset
<1>3. \E i \in S : \A j \in S : i >= j
  BY <1>2, GreatestMember
<1>4. Max(S) \in S /\ \A j \in S : Max(S) >= j
  BY <1>3 DEF Max
<1>. QED
  BY <1>2, <1>4

LEMMA RunningIs ==
  ASSUME MachineInv
  PROVE  Running \in Ids \cup {Nothing}
<1> DEFINE S == {i \in 1..Len(blocks) : heap[blocks[i]].start = 0}
<1>1. Activation = IF S # {} THEN Max(S) ELSE 0
  BY DEF Activation, SelectLastInSeq
<1>2. blocks \in Seq(Ids) /\ Len(blocks) \in Nat
  BY InvParts
<1>3. ASSUME S # {} PROVE Max(S) \in 1..Len(blocks)
  <2>1. Max(S) \in S
    BY Zenon, <1>2, <1>3, GreatestOf
  <2>. QED
    BY <2>1
<1>4. Activation # 0 => Activation \in 1..Len(blocks)
  BY <1>1, <1>3
<1>. QED
  BY <1>2, <1>4 DEF Running

LEMMA ScopeFine ==
  ASSUME MachineInv, blocks # <<>>
  PROVE  /\ Scope \in Ids \cup {Nothing}
         /\ Scope \in Ids => /\ heap[Scope].type = "block"
                             /\ heap[Scope].code = heap[Current].code
                             /\ Len(heap[Scope].varnames) = Code[heap[Current].code].vars
BY TopBlock, InvParts, BlockType DEF Scope, BlockSees

LEMMA StoredIn ==
  ASSUME NEW vs \in Seq(Slots), NEW k \in 1..Len(vs), NEW v \in Slots
  PROVE  LET ws == [vs EXCEPT ![k] = v]
         IN  /\ ws \in Seq(Slots) /\ Len(ws) = Len(vs)
             /\ \A j \in 1..Len(vs) : ws[j] = IF j = k THEN v ELSE vs[j]
OBVIOUS

LEMMA StoreFastStatic ==
  ASSUME NEW h, NEW held, VarsFine(h, held), NEW f \in DOMAIN Code, NEW k \in 1..Code[f].vars,
         NEW v \in Slots, Safe(h, v.value)
  PROVE  VarsFine(h, [held EXCEPT ![f][k] = v])
<1> DEFINE w == [held[f] EXCEPT ![k] = v]
           vs == [held EXCEPT ![f] = w]
<1>1. held \in [DOMAIN Code -> Seq(Slots)] /\ Len(held[f]) = Code[f].vars /\ held[f] \in Seq(Slots)
  BY DEF VarsFine
<1>2. /\ w \in Seq(Slots) /\ Len(w) = Len(held[f])
      /\ \A j \in 1..Len(held[f]) : w[j] = IF j = k THEN v ELSE held[f][j]
  BY <1>1, StoredIn
<1>. HIDE DEF w
<1>3. /\ vs \in [DOMAIN Code -> Seq(Slots)] /\ vs[f] = w
      /\ \A c \in DOMAIN Code \ {f} : vs[c] = held[c]
  BY <1>1, <1>2
<1>. HIDE DEF vs
<1>4. ASSUME NEW c \in DOMAIN Code
      PROVE  Len(vs[c]) = Code[c].vars /\ \A j \in 1..Len(vs[c]) : Safe(h, vs[c][j].value)
  <2>1. CASE c = f
    BY <1>1, <1>2, <1>3, <2>1 DEF VarsFine
  <2>2. CASE c # f
    BY <1>3, <2>2 DEF VarsFine
  <2>. QED
    BY <2>1, <2>2
<1>5. VarsFine(h, vs)
  BY <1>3, <1>4 DEF VarsFine
<1>. QED
  BY <1>5 DEF vs, w

LEMMA StoreFastCopied ==
  ASSUME NEW h, HeapFine(h), NEW b \in Ids, h[b].type = "block",
         NEW k \in 1..Len(h[b].varnames), NEW v \in Slots, Safe(h, v.value)
  PROVE  LET g == [h EXCEPT ![b].varnames[k] = v]
         IN  HeapFine(g) /\ Alike(h, g) /\ Settled(h, g)
<1> DEFINE w == [h[b].varnames EXCEPT ![k] = v]
           r == [h[b] EXCEPT !.varnames = w]
           g == [h EXCEPT ![b] = r]
<1>1. h[b] \in BlockRecs /\ h[b].varnames \in Seq(Slots) /\ h \in [Ids -> Objects]
      /\ PlacedAt(h[b], h[b].ip) /\ BlockSees(h, h[b])
  BY BlockType DEF HeapFine
<1>2. /\ w \in Seq(Slots) /\ Len(w) = Len(h[b].varnames)
      /\ \A j \in 1..Len(h[b].varnames) : w[j] = IF j = k THEN v ELSE h[b].varnames[j]
  BY <1>1, StoredIn
<1>. HIDE DEF w
<1>3. /\ r \in BlockRecs /\ r.ip = h[b].ip /\ r.stack = h[b].stack
      /\ r.type = "block" /\ r.code = h[b].code /\ r.start = h[b].start /\ r.len = h[b].len
      /\ r.flag = h[b].flag /\ r.scope = h[b].scope /\ r.varnames = w
  BY <1>1, <1>2 DEF BlockRecs
<1>. HIDE DEF r
<1>4. g \in [Ids -> Objects] /\ g[b] = r /\ \A i \in Ids \ {b} : g[i] = h[i]
  BY <1>1, <1>3 DEF Objects
<1>. HIDE DEF g
<1>5. Alike(h, g) /\ Settled(h, g)
  BY <1>2, <1>3, <1>4 DEF Alike, Settled
<1>6. Fine(g, g[b])
  <2>1. BlockSees(h, r)
    BY <1>1, <1>2, <1>3 DEF BlockSees
  <2>2. PlacedAt(r, r.ip)
    BY <1>1, <1>3 DEF PlacedAt
  <2>. QED
    BY <1>3, <1>4, <1>5, <2>1, <2>2, AlikeSees DEF Fine
<1>7. HeapFine(g)
  BY <1>4, <1>5, <1>6, AlikeFine DEF HeapFine
<1>8. [h EXCEPT ![b].varnames[k] = v] = g
  BY DEF g, r, w
<1>. QED
  BY Zenon, <1>5, <1>7, <1>8

(***************************************************************************)
(* STORE_FAST.                                                             *)
(***************************************************************************)
LEMMA MovedOn ==
  ASSUME Fetching, NEW g, NEW p, NEW s, MovedTo(heap, g, Current, p, s), SafeStack(heap, s),
         p \in GoesTo(heap[Current].code, heap[Current].ip),
         Instruction.op \notin {"return", "raise"}
  PROVE  /\ Good(g, blocks, frames, varnames, Nothing) /\ AtStep(g, blocks, Caller)
         /\ Alike(heap, g) /\ HeapFine(g) /\ VarsFine(g, varnames)
<1>1. Stepping /\ MachineInv
  BY DEF Fetching, Stepping
<1>2. /\ PlacedAt(heap[Current], p)
      /\ heap[Current].start = 0 => p \in Outside(heap[Current].code)
  BY Fetch
<1>3. Good(g, blocks, frames, varnames, Nothing)
  BY <1>1, <1>2, TopMoves DEF SafeStack
<1>. QED
  BY <1>1, <1>2, <1>3, TopStays, MovedAlike DEF Good

LEMMA SettledAtStep ==
  ASSUME NEW h, NEW g, Alike(h, g), Settled(h, g), NEW f, NEW bs, f.base \in Seq(Ids),
         AreBlocks(h, bs), AtStep(h, bs, f)
  PROVE  AtStep(g, bs, f)
BY SettledLevel DEF AtStep

LEMMA StepStoreFast ==
  ASSUME Ready, StoreFast
  PROVE  MachineInv'
<1> DEFINE v == Variable(Running, stack_Top(Operands))
           c == heap[Current].code
<1>1. /\ Executing("store_fast")
      /\ IF Scope = Nothing
         THEN /\ varnames' = [varnames EXCEPT ![c][Arg] = v]
              /\ UNCHANGED <<shared, globals, tuples>>
              /\ EndsAfter(Taken(1), blocks, frames, Nothing)
         ELSE Ends([Taken(1) EXCEPT ![Scope].varnames[Arg] = v], blocks, frames, Nothing)
  BY DEF StoreFast
<1>2. Fetching /\ MachineInv /\ blocks # <<>> /\ Instruction.op = "store_fast"
  BY <1>1, ExecutingFetches
<1>3. c \in DOMAIN Code /\ Arg \in 1..Code[c].vars
  BY <1>2, Fetch, TopBlock DEF Supplied, Arg
<1>4. v \in Slots /\ Safe(heap, v.value)
  BY <1>2, RunningIs, OperandsSafe, SafeTop DEF Slots, Variable
<1>. HIDE DEF v, c
<1>5. /\ MovedTo(heap, Taken(1), Current, heap[Current].ip + 1, Popped(Operands, 1))
      /\ SafeStack(heap, Popped(Operands, 1))
  BY <1>2, TakenIs
<1>6. heap[Current].ip + 1 \in GoesTo(heap[Current].code, heap[Current].ip)
  BY <1>2, GoesOn
<1>7. /\ Good(Taken(1), blocks, frames, varnames, Nothing)
      /\ AtStep(Taken(1), blocks, Caller) /\ Alike(heap, Taken(1))
      /\ HeapFine(Taken(1)) /\ VarsFine(Taken(1), varnames)
  BY <1>2, <1>5, <1>6, MovedOn
<1>8. Safe(Taken(1), v.value)
  BY <1>4, <1>7, AlikeSafe
<1>9. CASE Scope = Nothing
  <2>1. /\ varnames' = [varnames EXCEPT ![c][Arg] = v] /\ shared' = shared /\ globals' = globals
        /\ EndsAfter(Taken(1), blocks, frames, Nothing)
    BY <1>1, <1>9
  <2>2. VarsFine(Taken(1), varnames')
    BY Zenon, <1>3, <1>4, <1>7, <1>8, <2>1, StoreFastStatic
  <2>3. Good(Taken(1), blocks, frames, varnames', Nothing)
    BY <1>7, <2>2, GoodVars
  <2>. QED
    BY Zenon, <1>2, <1>7, <2>1, <2>3, StepToCheck, EndsFine, InvParts DEF InvBut
<1>10. CASE Scope # Nothing
  <2> DEFINE g == [Taken(1) EXCEPT ![Scope].varnames[Arg] = v]
  <2>1. Ends(g, blocks, frames, Nothing)
    BY <1>1, <1>10
  <2>2. /\ Scope \in Ids /\ heap[Scope].type = "block"
        /\ Len(heap[Scope].varnames) = Code[c].vars
    BY <1>2, <1>10, ScopeFine DEF c
  <2>3. Taken(1)[Scope].type = "block" /\ Len(Taken(1)[Scope].varnames) = Code[c].vars
    BY <1>7, <2>2 DEF Alike
  <2>4. HeapFine(g) /\ Alike(Taken(1), g) /\ Settled(Taken(1), g)
    BY <1>3, <1>4, <1>7, <1>8, <2>2, <2>3, StoreFastCopied
  <2>. HIDE DEF g
  <2>5. Good(g, blocks, frames, varnames, Nothing)
    BY <1>7, <2>4, SettledGood
  <2>6. AtStep(g, blocks, Caller)
    <3>1. Caller.base \in Seq(Ids) /\ AreBlocks(Taken(1), blocks)
      BY <1>2, <1>7, InvParts, FrameType DEF Good, Laid
    <3>. QED
      BY <1>7, <2>4, <3>1, SettledAtStep
  <2>7. varnames' = varnames /\ shared' = shared /\ globals' = globals
        /\ EndsAfter(g, blocks, frames, Nothing)
    BY <2>1 DEF Ends, statics
  <2>. QED
    BY <1>2, <2>5, <2>6, <2>7, StepToCheck, EndsFine, InvParts DEF InvBut
<1>. QED
  BY <1>9, <1>10

(***************************************************************************)
(* New objects.                                                            *)
(***************************************************************************)
Grows(h, g, new) ==
  /\ new \subseteq Ids /\ g \in [Ids -> Objects]
  /\ \A i \in new : h[i] = Free
  /\ \A i \in Ids \ new : g[i] = h[i]

NewFine(g, new) ==
  /\ \A i \in new : Fine(g, g[i])
  /\ \A i \in new : IsGenerator(g, i) => g[i].saved = <<>> /\ g[i].tag \in new
  /\ \A i, j \in new : IsGenerator(g, i) /\ IsGenerator(g, j) => i = j

LEMMA GrowsSafe ==
  ASSUME NEW h, NEW g, NEW new, Grows(h, g, new), NEW v, Safe(h, v)
  PROVE  Safe(g, v)
BY DEF Grows, Safe, Free

LEMMA GrowsSees ==
  ASSUME NEW h, NEW g, NEW new, Grows(h, g, new), NEW r, BlockSees(h, r)
  PROVE  BlockSees(g, r)
BY DEF Grows, BlockSees, Safe, Free

LEMMA GrowsFine ==
  ASSUME NEW h, HeapFine(h), NEW g, NEW new, Grows(h, g, new), NewFine(g, new)
  PROVE  HeapFine(g)
<1> SUFFICES ASSUME NEW i \in Ids, i \notin new PROVE Fine(g, g[i])
  BY DEF HeapFine, Grows, NewFine
<1>1. g[i] = h[i] /\ Fine(h, h[i])
  BY DEF Grows, HeapFine
<1>2. ASSUME h[i].type = "generator" PROVE GeneratorSees(g, h[i])
  <2>1. GeneratorSees(h, h[i]) /\ IsGenerator(h, i)
    BY <1>1, <1>2 DEF Fine, IsGenerator
  <2>2. h[i].tag \in Ids /\ \A k \in 1..Len(h[i].saved) : h[i].saved[k] \in Ids
    BY <2>1, AsleepIn
  <2>. QED
    BY <2>1, <2>2 DEF GeneratorSees, IsTag, Grows, Free
<1>3. h[i].type = "block" => PlacedAt(h[i], h[i].ip) /\ BlockSees(g, h[i])
  BY <1>1, GrowsSees DEF Fine
<1>. QED
  BY <1>1, <1>2, <1>3 DEF Fine

(* Nothing refers to a free id. *)
LEMMA FreshApart ==
  ASSUME NEW h, HeapFine(h), NEW b, h[b] = Free
  PROVE  /\ \A t : AreBlocks(h, t) => ~Occurs(b, t)
         /\ \A i \in Ids : IsGenerator(h, i) => ~Occurs(b, Asleep(h, i)) /\ b # h[i].tag
                                                /\ ~Occurs(b, h[i].saved)
<1>1. ASSUME NEW t, AreBlocks(h, t), Occurs(b, t) PROVE FALSE
  BY <1>1 DEF AreBlocks, Occurs, Free
<1>2. ASSUME NEW i \in Ids, IsGenerator(h, i)
      PROVE  b # h[i].tag /\ ~Occurs(b, h[i].saved)
  <2>1. GeneratorSees(h, h[i])
    BY <1>2 DEF HeapFine, Fine, IsGenerator
  <2>. QED
    BY <2>1 DEF GeneratorSees, IsTag, Occurs, Free
<1>. QED
  BY <1>1, <1>2, AsleepIn

LEMMA NewAsleep ==
  ASSUME NEW g, HeapFine(g), NEW i \in Ids, IsGenerator(g, i), g[i].saved = <<>>
  PROVE  /\ Laid(g, Asleep(g, i)) /\ Len(Asleep(g, i)) = 1 /\ Asleep(g, i)[1] = g[i].tag
         /\ \A b : Occurs(b, Asleep(g, i)) => b = g[i].tag
<1>1. /\ Asleep(g, i) \in Seq(Ids) /\ Len(Asleep(g, i)) = 1 /\ Asleep(g, i)[1] = g[i].tag
      /\ IsTag(g, g[i].tag)
  <2>1. /\ Asleep(g, i) \in Seq(Ids) /\ Len(Asleep(g, i)) = Len(g[i].saved) + 1
        /\ Asleep(g, i)[1] = g[i].tag /\ IsTag(g, g[i].tag)
    BY Zenon, AsleepIn
  <2>2. Len(g[i].saved) = 0
    OBVIOUS
  <2>. QED
    BY <2>1, <2>2
<1>2. AreBlocks(g, Asleep(g, i)) /\ Once(Asleep(g, i)) /\ NestedOn(g, Asleep(g, i))
  BY <1>1 DEF AreBlocks, Once, NestedOn, IsTag
<1>. QED
  BY <1>1, <1>2 DEF Laid, Occurs

LEMMA DisjointIs ==
  ASSUME NEW s, NEW t
  PROVE  /\ Disjoint(s, t) <=> \A b : ~(Occurs(b, s) /\ Occurs(b, t))
         /\ Disjoint(s, t) <=> Disjoint(t, s)
BY Zenon DEF Disjoint, Occurs

LEMMA GrowsGenerator ==
  ASSUME NEW h, NEW g, NEW new, Grows(h, g, new), NEW i \in Ids, i \notin new
  PROVE  /\ IsGenerator(g, i) <=> IsGenerator(h, i)
         /\ g[i] = h[i] /\ Asleep(g, i) = Asleep(h, i)
BY DEF Grows, IsGenerator, Asleep

LEMMA GrowsLaid ==
  ASSUME NEW h, NEW g, NEW new, Grows(h, g, new), NEW t, Laid(h, t)
  PROVE  Laid(g, t) /\ Same(h, g, t)
<1>1. \A k \in 1..Len(t) : g[t[k]] = h[t[k]]
  BY DEF Laid, AreBlocks, Grows, Free
<1>. QED
  BY <1>1, SpareLaid DEF Same

LEMMA GrowsApart ==
  ASSUME NEW h, HeapFine(h), NEW g, NEW new, Grows(h, g, new), NewFine(g, new),
         NEW bs, Apart(h, bs), AreBlocks(h, bs)
  PROVE  Apart(g, bs)
<1> SUFFICES ASSUME NEW i \in Ids, IsGenerator(g, i)
             PROVE  /\ Laid(g, Asleep(g, i))
                    /\ Occurs(g[i].tag, bs) => g[i].saved = <<>>
                    /\ Disjoint(g[i].saved, bs)
                    /\ \A j \in Ids : IsGenerator(g, j) /\ j # i =>
                         Disjoint(Asleep(g, i), Asleep(g, j))
  BY DEF Apart
<1>1. HeapFine(g)
  BY GrowsFine
<1>2. ASSUME NEW a \in new, IsGenerator(g, a), NEW j \in Ids, IsGenerator(g, j), j # a
      PROVE  Disjoint(Asleep(g, a), Asleep(g, j))
  <2>1. g[a].saved = <<>> /\ g[a].tag \in new /\ a \in Ids /\ j \notin new
    BY <1>2 DEF NewFine, Grows
  <2>2. \A b : Occurs(b, Asleep(g, a)) => b = g[a].tag
    BY <1>1, <1>2, <2>1, NewAsleep
  <2>3. h[g[a].tag] = Free
    BY <2>1 DEF Grows
  <2>4. IsGenerator(h, j) /\ Asleep(g, j) = Asleep(h, j)
    BY <1>2, <2>1, GrowsGenerator
  <2>5. ~Occurs(g[a].tag, Asleep(g, j))
    BY <1>2, <2>3, <2>4, FreshApart
  <2>. QED
    BY <2>2, <2>5, DisjointIs
<1>3. CASE i \in new
  <2>1. g[i].saved = <<>> /\ g[i].tag \in new
    BY <1>3 DEF NewFine
  <2>2. Laid(g, Asleep(g, i))
    BY <1>1, <2>1, NewAsleep
  <2>3. Disjoint(g[i].saved, bs)
    BY <2>1 DEF Disjoint
  <2>. QED
    BY <1>2, <1>3, <2>1, <2>2, <2>3
<1>4. CASE i \notin new
  <2>1. IsGenerator(h, i) /\ g[i] = h[i] /\ Asleep(g, i) = Asleep(h, i)
    BY <1>4, GrowsGenerator
  <2>2. /\ Laid(h, Asleep(h, i))
        /\ Occurs(h[i].tag, bs) => h[i].saved = <<>>
        /\ Disjoint(h[i].saved, bs)
        /\ \A j \in Ids : IsGenerator(h, j) /\ j # i => Disjoint(Asleep(h, i), Asleep(h, j))
    BY <2>1 DEF Apart
  <2>3. Laid(g, Asleep(h, i))
    BY <2>2, GrowsLaid
  <2>4. ASSUME NEW j \in Ids, IsGenerator(g, j), j # i
        PROVE  Disjoint(Asleep(g, i), Asleep(g, j))
    <3>1. CASE j \in new
      BY <1>2, <2>4, <3>1, DisjointIs
    <3>2. CASE j \notin new
      BY <2>1, <2>2, <2>4, <3>2, GrowsGenerator
    <3>. QED
      BY <3>1, <3>2
  <2>. QED
    BY <2>1, <2>2, <2>3, <2>4
<1>. QED
  BY <1>3, <1>4

LEMMA GrowsGood ==
  ASSUME NEW h, NEW bs, NEW fs, NEW held, NEW x, Good(h, bs, fs, held, x),
         NEW g, NEW new, Grows(h, g, new), NewFine(g, new)
  PROVE  Good(g, bs, fs, held, x) /\ Same(h, g, bs)
<1>1. /\ HeapFine(h) /\ VarsFine(h, held) /\ Laid(h, bs) /\ Apart(h, bs) /\ FramesFine(h, fs)
      /\ AllRun(h, bs, fs) /\ \A k \in 1..Len(fs) : Starts(fs[k].base, bs)
      /\ x \in Values /\ Safe(h, x) /\ AreBlocks(h, bs) /\ bs \in Seq(Ids)
  BY DEF Good, Laid, AreBlocks
<1>2. HeapFine(g) /\ Apart(g, bs) /\ Laid(g, bs) /\ Same(h, g, bs) /\ Safe(g, x)
  BY <1>1, GrowsFine, GrowsApart, GrowsLaid, GrowsSafe
<1>3. VarsFine(g, held)
  BY <1>1, GrowsSafe DEF VarsFine
<1>4. FramesFine(g, fs)
  <2>1. ASSUME NEW k \in 1..Len(fs), fs[k].iter \in Ids PROVE g[fs[k].iter] = h[fs[k].iter] \/ fs[k].op \notin (Waiting \cup {"next"})
    <3>1. FrameFine(h, fs[k])
      BY <1>1, FrameType
    <3>. QED
      BY <2>1, <3>1 DEF FrameFine, Safe, IsGenerator, Grows, Free
  <2>2. ASSUME NEW k \in 1..Len(fs) PROVE FrameFine(g, fs[k])
    <3>1. FrameFine(h, fs[k]) /\ fs[k].base \in Seq(Ids)
      BY <1>1, FrameType
    <3>2. CASE fs[k].op \in Waiting \cup {"next"}
      <4>1. fs[k].iter \in Ids => g[fs[k].iter] = h[fs[k].iter]
        BY <2>1, <3>2
      <4>. QED
        BY <1>1, <1>2, <3>1, <4>1, SameFrame
    <3>3. CASE fs[k].op \notin Waiting \cup {"next"}
      BY <3>1, <3>3 DEF FrameFine
    <3>. QED
      BY <3>2, <3>3
  <2>3. ASSUME NEW k \in 1..Len(fs), NEW j \in 1..k - 1 PROVE Holds(g, fs[j], fs[k].base)
    <3>1. j \in 1..Len(fs) /\ Len(fs) \in Nat /\ Holds(h, fs[j], fs[k].base)
      BY <1>1 DEF FramesFine
    <3>2. fs[j].base \in Seq(Ids) /\ fs[k].base \in Seq(Ids)
      BY <1>1, <3>1, FrameType
    <3>3. Same(h, g, fs[k].base)
      BY <1>1, <1>2, <3>2 DEF Same, Starts
    <3>. QED
      BY <3>1, <3>2, <3>3, SameLevel DEF Holds
  <2>. QED
    BY <1>1, <2>2, <2>3 DEF FramesFine
<1>5. AllRun(g, bs, fs)
  <2> SUFFICES ASSUME NEW i \in Ids, IsGenerator(g, i), Occurs(g[i].tag, bs)
               PROVE  \E k \in 1..Len(fs) : fs[k].op = "next" /\ fs[k].block = g[i].tag
    BY DEF AllRun
  <2>1. i \notin new
    <3>1. i \in new => h[g[i].tag] = Free
      BY DEF NewFine, Grows
    <3>. QED
      BY <1>1, <3>1, FreshApart
  <2>. QED
    BY <1>1, <2>1, GrowsGenerator DEF AllRun
<1>. QED
  BY <1>1, <1>2, <1>3, <1>4, <1>5 DEF Good

(***************************************************************************)
(* What is unused is new, and a step with a new object.                    *)
(***************************************************************************)
LEMMA UnusedIs ==
  ASSUME NEW n \in Nat, Available(n)
  PROVE  /\ Unused \in Seq(Ids) /\ Len(Unused) >= n
         /\ \A k \in 1..n : Unused[k] \in Ids /\ heap[Unused[k]] = Free
         /\ \A j, k \in 1..n : Unused[j] = Unused[k] => j = k
<1> DEFINE S == FreeIds
           c == Cardinality(S)
<1>1. S \in SUBSET Ids /\ \A i \in S : heap[i] = Free
  BY DEF FreeIds
<1>2. IsFiniteSet(S) /\ \A i \in S : i \in Int
  <2>1. IsFiniteSet(S)
    BY <1>1, IdsFinite, FS_Subset
  <2>2. \A i \in Ids : i \in Int
    BY VMAssumption DEF Ids
  <2>. QED
    BY <1>1, <2>1, <2>2
<1>. HIDE DEF S
<1>3. /\ c \in Nat /\ Len(Ascending(S)) = c /\ Ascending(S) \in Seq(S)
      /\ \A k \in 1..c : Ascending(S)[k] \in S /\ Rank(S, Ascending(S)[k]) = k - 1
  BY <1>2, AscendingType
<1>4. c >= n /\ Unused = Ascending(S)
  BY DEF Available, Unused, S
<1>. HIDE DEF c
<1>5. \A k \in 1..n : k \in 1..c
  BY <1>3, <1>4
<1>6. Unused \in Seq(Ids)
  BY <1>1, <1>3, <1>4
<1>7. \A k \in 1..n : Unused[k] \in S
  BY <1>3, <1>4, <1>5
<1>8. ASSUME NEW j \in 1..n, NEW k \in 1..n, Unused[j] = Unused[k] PROVE j = k
  <2>1. Rank(S, Unused[j]) = j - 1 /\ Rank(S, Unused[k]) = k - 1
    BY <1>3, <1>4, <1>5
  <2>. QED
    BY <1>8, <2>1
<1>. QED
  BY <1>1, <1>3, <1>4, <1>6, <1>7, <1>8

LEMMA TopGrows ==
  ASSUME Stepping, NEW h, NEW new, Grows(heap, h, new), NewFine(h, new),
         NEW g, NEW p, NEW s, MovedTo(h, g, Current, p, s),
         PlacedAt(heap[Current], p), \A k \in 1..Len(s) : Safe(h, s[k])
  PROVE  /\ Good(g, blocks, frames, varnames, Nothing)
         /\ h[Current] = heap[Current] /\ Current \notin new /\ Good(h, blocks, frames, varnames, ret)
<1>1. MachineInv /\ blocks # <<>> /\ Current \in Ids /\ heap[Current].type = "block"
      /\ Good(heap, blocks, frames, varnames, ret)
  BY TopBlock, InvParts DEF Stepping
<1>2. Good(h, blocks, frames, varnames, ret)
  BY <1>1, GrowsGood
<1>3. h[Current] = heap[Current] /\ Current \notin new
  BY <1>1 DEF Grows, Free
<1>4. CanMove(h, blocks, frames, Len(blocks), p, s)
  <2>1. Suits(h, frames, Current, p, s)
    BY TopAlone DEF Suits
  <2>. QED
    BY <1>1, <1>3, <2>1, TopBlock, TopAlone DEF CanMove
<1>5. Good(g, blocks, frames, varnames, ret)
  BY <1>1, <1>2, <1>4, MovedGood, TopBlock
<1>. QED
  BY <1>2, <1>3, <1>5, GoodValue, ValueFacts

LEMMA TopGrowsStays ==
  ASSUME Stepping, NEW h, NEW new, Grows(heap, h, new), NewFine(h, new),
         NEW g, NEW p, NEW s, MovedTo(h, g, Current, p, s),
         heap[Current].start = 0 => p \in Outside(heap[Current].code)
  PROVE  AtStep(g, blocks, Caller)
<1>1. MachineInv /\ blocks # <<>> /\ AtStep(heap, blocks, Caller) /\ Current \in Ids
      /\ heap[Current].type = "block"
  BY TopBlock DEF Stepping, MachineInv
<1>2. Caller.base \in Seq(Ids) /\ blocks \in Seq(Ids) /\ Good(heap, blocks, frames, varnames, ret)
  BY <1>1, InvParts, FrameType
<1>3. Good(h, blocks, frames, varnames, ret) /\ Same(heap, h, blocks)
  BY <1>2, GrowsGood
<1>4. AreBlocks(h, blocks) /\ h[Current] = heap[Current]
  BY <1>1, <1>3 DEF Good, Laid, Grows, Free
<1>5. Level(h, Caller, blocks)
  BY <1>1, <1>2, <1>3, SameLevel DEF AtStep
<1>6. Level(g, Caller, blocks)
  BY <1>2, <1>4, <1>5, MovedLevel
<1>. QED
  BY <1>1, <1>6 DEF AtStep

(* The end of a step whose instruction leaves the variables alone. *)
LEMMA StepEndsAfter ==
  ASSUME Ready, phase = "step", NEW g, NEW bs, Good(g, bs, frames, varnames, Nothing),
         AtStep(g, bs, Caller), NEW v \in Values, Safe(g, v),
         UNCHANGED <<shared, globals, varnames>>, EndsAfter(g, bs, frames, v)
  PROVE  MachineInv'
<1>1. MachineInv
  BY DEF Ready
<1>2. Good(g, bs, frames, varnames, v)
  BY GoodValue
<1>3. varnames' = varnames /\ shared' = shared /\ globals' = globals /\ EndsAfter(g, bs, frames, v)
  OBVIOUS
<1>. QED
  BY <1>1, <1>2, <1>3, StepToCheck, EndsFine, InvParts DEF InvBut

LEMMA StepEnds ==
  ASSUME Ready, phase = "step", NEW g, NEW bs, NEW x, Good(g, bs, frames, varnames, Nothing),
         AtStep(g, bs, Caller), NEW v \in Values, Safe(g, v), Ends(g, bs, frames, v)
  PROVE  MachineInv'
<1>1. UNCHANGED <<shared, globals, varnames>> /\ EndsAfter(g, bs, frames, v)
  BY DEF Ends, statics
<1>. QED
  BY <1>1, StepEndsAfter

(* An iterator that has not begun. *)
Unbegun(r) ==
  \/ r \in SequenceRecs /\ r.pos = 0
  \/ r \in IterationRecs

LEMMA IteratorIs ==
  ASSUME NEW h, HeapFine(h), NEW u \in Ids, h[u] = Free, NEW r, Unbegun(r)
  PROVE  LET g == [h EXCEPT ![u] = r]
         IN  Grows(h, g, {u}) /\ NewFine(g, {u}) /\ g[u].type \in {"sequence", "iteration"}
<1> DEFINE g == [h EXCEPT ![u] = r]
<1>1. /\ r \in Objects /\ r.type \in {"sequence", "iteration"}
      /\ r.type = "sequence" => r.pos <= r.len
  BY DEF Objects, SequenceRecs, IterationRecs, Unbegun
<1>2. g \in [Ids -> Objects] /\ g[u] = r /\ \A i \in Ids \ {u} : g[i] = h[i]
  BY <1>1 DEF HeapFine
<1>. HIDE DEF g
<1>3. Grows(h, g, {u})
  BY <1>2 DEF Grows
<1>4. NewFine(g, {u})
  BY <1>1, <1>2 DEF NewFine, Fine, IsGenerator
<1>. QED
  BY <1>1, <1>2, <1>3, <1>4 DEF g

(***************************************************************************)
(* GET_ITER and range.                                                     *)
(***************************************************************************)
(* The top block moves while new objects come. *)
LEMMA MovedOver ==
  ASSUME NEW h, NEW g, NEW b, NEW p, NEW s, MovedTo(h, g, b, p, s),
         NEW k, NEW new, Grows(h, k, new), NEW m, m \in [Ids -> Objects],
         \A i \in new : m[i] = k[i], \A i \in Ids \ new : m[i] = g[i]
  PROVE  MovedTo(k, m, b, p, s)
<1>1. b \in Ids /\ b \notin new
  BY DEF MovedTo, Grows, Free
<1>2. k[b] = h[b] /\ m[b] = g[b]
  BY <1>1 DEF Grows
<1>3. \A i \in Ids \ {b} : m[i] = k[i]
  BY DEF MovedTo, Grows
<1>. QED
  BY <1>1, <1>2, <1>3 DEF MovedTo

(* The top block takes n operands and gets a new iterator for them. *)
LEMMA GetsIterator ==
  ASSUME Ready, Fetching, NEW n \in Nat, Available(1), NEW r, Unbegun(r),
         Instruction.op \in {"get_iter", "range"},
         UNCHANGED <<shared, globals, varnames>>,
         EndsAfter([Taken(n) EXCEPT ![Current].stack = Append(@, Unused[1]),
                                    ![Unused[1]] = r],
                   blocks, frames, Nothing)
  PROVE  MachineInv'
<1> DEFINE u == Unused[1]
           t == Append(Popped(Operands, n), u)
           T == Taken(n)
<1>1. /\ Stepping /\ MachineInv /\ blocks # <<>> /\ phase = "step"
      /\ heap[Current].ip + 1 \in GoesTo(heap[Current].code, heap[Current].ip)
  BY GoesOn DEF Fetching, Stepping
<1>2. EndsAfter([T EXCEPT ![Current].stack = Append(@, u), ![u] = r], blocks, frames, Nothing)
  OBVIOUS
<1>3. u \in Ids /\ heap[u] = Free
  BY UnusedIs
<1>4. HeapFine(heap) /\ Current \in Ids
  BY <1>1, InvParts, TopBlock
<1>5. /\ MovedTo(heap, T, Current, heap[Current].ip + 1, Popped(Operands, n))
      /\ SafeStack(heap, Popped(Operands, n)) /\ T[Current].stack = Popped(Operands, n)
  BY <1>1, TakenIs
<1> DEFINE h == [heap EXCEPT ![u] = r]
           g == [T EXCEPT ![Current].stack = t]
           m == [g EXCEPT ![u] = r]
<1>. HIDE DEF u, T
<1>6. Grows(heap, h, {u}) /\ NewFine(h, {u}) /\ h[u].type \in {"sequence", "iteration"}
  BY <1>3, <1>4, IteratorIs
<1>7. t \in Seq(Values \ {Nothing}) /\ \A k \in 1..Len(t) : Safe(h, t[k])
  <2>1. \A k \in 1..Len(Popped(Operands, n)) : Safe(h, Popped(Operands, n)[k])
    BY <1>5, <1>6, GrowsSafe DEF SafeStack
  <2>2. SafeStack(h, Popped(Operands, n)) /\ Safe(h, u) /\ u \in Values \ {Nothing}
    BY <1>3, <1>5, <1>6, <2>1, ValueFacts DEF SafeStack, Safe, Values
  <2>3. SafeStack(h, t)
    BY <2>2, SafeAppend
  <2>. QED
    BY Zenon, <2>3 DEF SafeStack
<1>. HIDE DEF t
<1>8. MovedTo(heap, g, Current, heap[Current].ip + 1, t)
  BY <1>5, <1>7, StackIs
<1>9. m \in [Ids -> Objects] /\ m[u] = h[u] /\ \A i \in Ids \ {u} : m[i] = g[i]
  <2>1. g \in [Ids -> Objects] /\ h \in [Ids -> Objects] /\ heap \in [Ids -> Objects]
    BY <1>4, <1>6, <1>8 DEF MovedTo, Grows, HeapFine
  <2>2. h[u] = r /\ h[u] \in Objects
    BY <1>3, <2>1
  <2>. QED
    BY <1>3, <2>1, <2>2
<1>10. [T EXCEPT ![Current].stack = Append(@, u), ![u] = r] = m
  BY <1>5 DEF t
<1>. HIDE DEF g, h, m
<1>11. MovedTo(h, m, Current, heap[Current].ip + 1, t)
  BY <1>6, <1>8, <1>9, MovedOver
<1>12. /\ PlacedAt(heap[Current], heap[Current].ip + 1)
       /\ heap[Current].start = 0 => heap[Current].ip + 1 \in Outside(heap[Current].code)
  BY <1>1, Fetch
<1>13. Good(m, blocks, frames, varnames, Nothing)
  BY <1>1, <1>6, <1>7, <1>11, <1>12, TopGrows
<1>14. AtStep(m, blocks, Caller)
  BY <1>1, <1>6, <1>11, <1>12, TopGrowsStays
<1>15. EndsAfter(m, blocks, frames, Nothing)
  BY Zenon, <1>2, <1>10
<1>. QED
  BY <1>1, <1>13, <1>14, <1>15, StepEndsAfter, ValueFacts

LEMMA StepGetIter ==
  ASSUME Ready, GetIter
  PROVE  MachineInv'
<1> DEFINE x == stack_Top(Operands)
<1>1. Executing("get_iter")
  BY DEF GetIter
<1>2. Fetching /\ MachineInv /\ blocks # <<>> /\ Instruction.op = "get_iter"
  BY <1>1, ExecutingFetches
<1>3. heap[Current].ip + 1 \in GoesTo(heap[Current].code, heap[Current].ip)
  BY <1>2, GoesOn
<1>4. \/ x \in Ids /\ Ends(Fetched, blocks, frames, Nothing)
      \/ /\ x \in Tuples /\ Available(1) /\ UNCHANGED <<shared, globals, varnames>>
         /\ EndsAfter([Taken(1) EXCEPT ![Current].stack = Append(@, Unused[1]),
                                       ![Unused[1]] = Iteration(x)],
                      blocks, frames, Nothing)
      \/ Ends(Taken(1), blocks, frames, Nothing)
  BY DEF GetIter
<1>5. CASE Ends(Fetched, blocks, frames, Nothing)
  BY <1>2, <1>3, <1>5, FetchedIs, OperandsSafe, WithinBlock, ValueFacts
<1>6. CASE Ends(Taken(1), blocks, frames, Nothing)
  BY <1>2, <1>3, <1>6, TakenIs, WithinBlock, ValueFacts
<1>7. CASE /\ x \in Tuples /\ Available(1) /\ UNCHANGED <<shared, globals, varnames>>
           /\ EndsAfter([Taken(1) EXCEPT ![Current].stack = Append(@, Unused[1]),
                                         ![Unused[1]] = Iteration(x)],
                        blocks, frames, Nothing)
  <2>1. Unbegun(Iteration(x))
    BY <1>7 DEF Unbegun, IterationRecs, Iteration
  <2>. HIDE DEF x
  <2>. QED
    BY <1>2, <1>7, <2>1, GetsIterator
<1>. QED
  BY <1>4, <1>5, <1>6, <1>7

LEMMA StepMakeRange ==
  ASSUME Ready, MakeRange
  PROVE  MachineInv'
<1>1. Executing("range") /\ Available(1)
  BY DEF MakeRange
<1>2. Fetching /\ Instruction.op = "range"
  BY <1>1, ExecutingFetches
<1>3. PICK n \in 0..MaxItems :
        Ends([Taken(2) EXCEPT ![Current].stack = Append(@, Unused[1]),
                              ![Unused[1]] = Sequence(n)],
             blocks, frames, Nothing)
  BY Zenon DEF MakeRange
<1>4. n \in Nat
  BY VMAssumption
<1>5. Unbegun(Sequence(n))
  BY <1>4 DEF Unbegun, SequenceRecs, Sequence
<1>6. /\ UNCHANGED <<shared, globals, varnames>>
      /\ EndsAfter([Taken(2) EXCEPT ![Current].stack = Append(@, Unused[1]),
                                    ![Unused[1]] = Sequence(n)],
                   blocks, frames, Nothing)
  BY <1>3 DEF Ends, statics
<1>. QED
  BY <1>1, <1>2, <1>5, <1>6, GetsIterator

(***************************************************************************)
(* Blocks that come and go.                                                *)
(***************************************************************************)
LEMMA StartsShorter ==
  ASSUME NEW a \in Seq(Ids), NEW t \in Seq(Ids), NEW bs \in Seq(Ids),
         Starts(a, bs), Starts(t, bs), Len(a) <= Len(t)
  PROVE  Starts(a, t)
BY DEF Starts

LEMMA StartsLonger ==
  ASSUME NEW a \in Seq(Ids), NEW t \in Seq(Ids), NEW bs \in Seq(Ids),
         Starts(a, bs), Starts(bs, t)
  PROVE  Starts(a, t)
BY DEF Starts

LEMMA ShorterLaid ==
  ASSUME NEW h, NEW bs, Laid(h, bs), NEW t \in Seq(Ids), Starts(t, bs)
  PROVE  Laid(h, t) /\ \A b : Occurs(b, t) => Occurs(b, bs)
<1>1. /\ bs \in Seq(Ids) /\ Len(bs) \in Nat /\ Len(t) \in Nat /\ Len(t) <= Len(bs)
      /\ \A k \in 1..Len(t) : t[k] = bs[k] /\ k \in 1..Len(bs)
  BY DEF Laid, AreBlocks, Starts
<1>2. AreBlocks(h, t) /\ Once(t)
  BY Zenon, <1>1 DEF Laid, AreBlocks, Once
<1>3. NestedOn(h, t)
  <2>1. \A k \in 1..Len(t) - 1 : k \in 1..Len(bs) - 1 /\ k \in 1..Len(t) /\ k + 1 \in 1..Len(t)
    BY <1>1
  <2>2. t # <<>> => bs # <<>> /\ 1 \in 1..Len(t)
    BY <1>1
  <2>. QED
    BY <1>1, <2>1, <2>2 DEF Laid, NestedOn
<1>4. \A b : Occurs(b, t) => Occurs(b, bs)
  BY <1>1 DEF Occurs
<1>. QED
  BY <1>2, <1>3, <1>4 DEF Laid

LEMMA ShorterGood ==
  ASSUME NEW h, NEW bs, NEW fs, NEW held, NEW x, Good(h, bs, fs, held, x),
         NEW t \in Seq(Ids), Starts(t, bs), \A k \in 1..Len(fs) : Starts(fs[k].base, t)
  PROVE  Good(h, t, fs, held, x)
<1>1. Laid(h, t) /\ \A b : Occurs(b, t) => Occurs(b, bs)
  BY ShorterLaid DEF Good
<1>2. Apart(h, t)
  <2>1. \A s : Disjoint(s, bs) => Disjoint(s, t)
    BY <1>1, DisjointIs
  <2>. QED
    BY <1>1, <2>1 DEF Good, Apart
<1>3. AllRun(h, t, fs)
  BY <1>1 DEF Good, AllRun
<1>. QED
  BY <1>1, <1>2, <1>3 DEF Good

(* The top block goes when no C call rests on it. *)
LEMMA PoppedIs ==
  ASSUME NEW bs \in Seq(Ids), bs # <<>>
  PROVE  /\ Popped(bs, 1) \in Seq(Ids) /\ Len(Popped(bs, 1)) = Len(bs) - 1
         /\ Starts(Popped(bs, 1), bs)
         /\ \A k \in 1..Len(bs) - 1 : Popped(bs, 1)[k] = bs[k]
<1>1. Len(bs) \in Nat /\ Len(bs) > 0
  OBVIOUS
<1>2. Popped(bs, 1) \in Seq(Ids) /\ Len(Popped(bs, 1)) = Len(bs) - 1
  <2>1. Popped(bs, 1) = SubSeq(bs, 1, Len(bs) - 1) /\ Len(bs) - 1 \in Nat
    BY <1>1 DEF Popped
  <2>2. \A n \in Nat : n <= Len(bs) => SubSeq(bs, 1, n) \in Seq(Ids) /\ Len(SubSeq(bs, 1, n)) = n
    OBVIOUS
  <2>. QED
    BY <1>1, <2>1, <2>2
<1>3. ASSUME NEW k \in 1..Len(bs) - 1 PROVE Popped(bs, 1)[k] = bs[k]
  <2>1. k \in Int /\ 1 <= k /\ k <= Len(bs) - 1
    BY <1>1
  <2>. QED
    BY <1>1, <2>1 DEF Popped
<1>. QED
  BY <1>1, <1>2, <1>3 DEF Starts

LEMMA PoppedGood ==
  ASSUME NEW h, NEW bs, NEW fs, NEW held, NEW x, Good(h, bs, fs, held, x), bs # <<>>,
         \A k \in 1..Len(fs) : Len(fs[k].base) < Len(bs)
  PROVE  Good(h, Popped(bs, 1), fs, held, x)
<1>1. bs \in Seq(Ids) /\ FramesFine(h, fs) /\ \A k \in 1..Len(fs) : Starts(fs[k].base, bs)
  BY DEF Good, Laid, AreBlocks
<1>2. /\ Popped(bs, 1) \in Seq(Ids) /\ Len(Popped(bs, 1)) = Len(bs) - 1
      /\ Starts(Popped(bs, 1), bs)
  BY <1>1, PoppedIs
<1>3. ASSUME NEW k \in 1..Len(fs) PROVE Starts(fs[k].base, Popped(bs, 1))
  <2>1. fs[k].base \in Seq(Ids) /\ Len(fs[k].base) \in Nat /\ Len(bs) \in Nat
    BY <1>1, FrameType
  <2>2. Len(fs[k].base) <= Len(Popped(bs, 1))
    BY <1>2, <2>1
  <2>. QED
    BY <1>1, <1>2, <2>1, <2>2, StartsShorter
<1>. QED
  BY <1>2, <1>3, ShorterGood

(* The top block goes and is not the one that the innermost loop runs. *)
LEMMA PoppedCheck ==
  ASSUME MachineInv, blocks # <<>>, NEW g, AtStep(g, blocks, Caller),
         Caller.op \in {"next", "function"} => Len(Caller.base) + 1 # Len(blocks), NEW x
  PROVE  AtCheck(g, Popped(blocks, 1), frames, x)
<1>1. Caller = frames[Len(frames)] /\ Caller.base \in Seq(Ids) /\ blocks \in Seq(Ids)
  BY InvParts, FrameType
<1>2. /\ Len(Popped(blocks, 1)) = Len(blocks) - 1
      /\ \A k \in 1..Len(blocks) - 1 : Popped(blocks, 1)[k] = blocks[k]
  BY <1>1, PoppedIs
<1>3. Level(g, Caller, Popped(blocks, 1))
  <2>1. Caller.op \in {"next", "function"} =>
           Len(Caller.base) + 1 \in 1..Len(blocks) - 1 /\ Len(Caller.base) < Len(blocks) - 1
    BY <1>1 DEF AtStep, Level
  <2>. QED
    BY <1>2, <2>1 DEF AtStep, Level
<1>. QED
  BY <1>1, <1>3 DEF AtStep, AtCheck

LEMMA CheckEnds ==
  ASSUME Ready, NEW g, NEW bs, NEW fs, NEW v, Good(g, bs, fs, varnames, v),
         AtCheck(g, bs, fs, v), Ends(g, bs, fs, v)
  PROVE  MachineInv'
<1>1. varnames' = varnames /\ shared' = shared /\ globals' = globals /\ EndsAfter(g, bs, fs, v)
  BY DEF Ends, statics
<1>. QED
  BY <1>1, EndsFine, InvParts DEF InvBut, Ready

(* Where the block of the innermost loop is when it is the top one. *)
LEMMA TopLevel ==
  ASSUME Stepping, Caller.op \in {"next", "function"}, Len(Caller.base) + 1 = Len(blocks)
  PROVE  /\ heap[Current].start = 0 /\ heap[Current].ip \in Outside(heap[Current].code)
         /\ heap[Current].ip < heap[Current].len
         /\ Caller.op = "next" => Current = Caller.block
         /\ Caller.op = "function" => /\ heap[Current].flag = "none"
                                      /\ Kind(heap[Current].code) = "function"
<1>1. MachineInv /\ blocks # <<>> /\ AtStep(heap, blocks, Caller)
  BY DEF Stepping, MachineInv
<1>2. /\ heap[Current].start = 0 /\ heap[Current].ip \in Outside(heap[Current].code)
      /\ Caller.op = "next" => Current = Caller.block
      /\ Caller.op = "function" => /\ heap[Current].flag = "none"
                                   /\ Kind(heap[Current].code) = "function"
  BY <1>1, TopBlock DEF AtStep, Level
<1>3. heap[Current].ip < heap[Current].len
  <2>1. heap[Current].code \in DOMAIN Code /\ PlacedAt(heap[Current], heap[Current].ip)
    BY <1>1, TopBlock
  <2>2. heap[Current].len = End(heap[Current].code)
    <3>1. \A q \in Setups(heap[Current].code) : q \in 0..End(heap[Current].code) - 1
      BY Zenon, <2>1, CodeFine
    <3>2. \A q \in Setups(heap[Current].code) : heap[Current].start # q + 1
      BY <1>2, <3>1
    <3>. QED
      BY <2>1, <3>2 DEF PlacedAt
  <2>3. heap[Current].ip \in 0..End(heap[Current].code) - 1
    BY Zenon, <1>2, <2>1, CodeFine
  <2>4. End(heap[Current].code) \in Nat
    BY Zenon, <2>1, CodeFine
  <2>. QED
    BY <2>2, <2>3, <2>4
<1>. QED
  BY <1>2, <1>3

LEMMA StepPopBlock ==
  ASSUME Ready, PopBlock
  PROVE  MachineInv'
<1>1. /\ Executing("pop_block") \/ Executing("break")
      /\ Ends(Fetched, Popped(blocks, 1), frames, Nothing)
  BY DEF PopBlock
<1>2. /\ Fetching /\ Stepping /\ MachineInv /\ blocks # <<>>
      /\ Instruction.op \in {"pop_block", "break"}
  BY <1>1, ExecutingFetches
<1>3. heap[Current].ip + 1 \in GoesTo(heap[Current].code, heap[Current].ip)
  BY <1>2, GoesOn
<1>4. Good(Fetched, blocks, frames, varnames, Nothing) /\ AtStep(Fetched, blocks, Caller)
  BY <1>2, <1>3, FetchedIs, OperandsSafe, MovedOn
<1>5. Good(Fetched, Popped(blocks, 1), frames, varnames, Nothing)
  BY <1>2, <1>4, PoppedGood, TopAlone
<1>6. Caller.op \in {"next", "function"} => Len(Caller.base) + 1 # Len(blocks)
  <2>1. /\ Instruction = At(heap[Current].code, heap[Current].ip)
        /\ heap[Current].code \in DOMAIN Code
    BY <1>2, Fetch, TopBlock
  <2>2. heap[Current].ip \notin Outside(heap[Current].code)
    BY Zenon, <1>2, <2>1, CodeFine
  <2>. QED
    BY <1>2, <2>2, TopLevel
<1>7. AtCheck(Fetched, Popped(blocks, 1), frames, Nothing)
  BY <1>2, <1>4, <1>6, PoppedCheck
<1>. QED
  BY <1>1, <1>5, <1>7, CheckEnds

(***************************************************************************)
(* A longer block stack: a block on top of what is there.                  *)
(***************************************************************************)
LEMMA TopKeeps ==
  ASSUME Stepping, NEW g, NEW s, MovedTo(heap, g, Current, heap[Current].ip, s)
  PROVE  AtStep(g, blocks, Caller)
<1>1. MachineInv /\ blocks # <<>> /\ AtStep(heap, blocks, Caller)
  BY DEF Stepping, MachineInv
<1>2. Caller.base \in Seq(Ids) /\ AreBlocks(heap, blocks)
  BY <1>1, InvParts, FrameType
<1>3. Level(heap, Caller, blocks)
  BY <1>1 DEF AtStep
<1>4. Level(g, Caller, blocks)
  BY <1>2, <1>3, MovedLevel
<1>. QED
  BY <1>1, <1>4 DEF AtStep

LEMMA StepCodeThru ==
  ASSUME Ready, CodeThru
  PROVE  MachineInv'
<1> DEFINE p == heap[Current].ip
           g == [heap EXCEPT ![Current].stack = <<>>]
<1>1. /\ phase = "step" /\ blocks # <<>> /\ p >= heap[Current].len
      /\ Ends([heap EXCEPT ![Current].stack = Popped(@, IF @ = <<>> THEN 0 ELSE 1)],
              Popped(blocks, 1), frames, stack_Top(Operands))
  BY DEF CodeThru
<1>2. Stepping /\ MachineInv /\ StackShape
  BY <1>1 DEF Ready, Orderly, Stepping
<1>3. /\ Current \in Ids /\ heap[Current].type = "block" /\ HeapFine(heap)
      /\ PlacedAt(heap[Current], p) /\ Operands = heap[Current].stack /\ p \in Nat
      /\ heap[Current].len \in Nat /\ Operands \in Seq(Values \ {Nothing})
  BY <1>1, <1>2, TopBlock, InvParts, BlockType
<1>4. Operands = <<>>
  <2>1. [k \in DOMAIN Operands |-> KindOf(Operands[k])] = <<>>
    BY <1>1, <1>2, <1>3 DEF StackShape
  <2>2. DOMAIN Operands = {}
    BY <2>1
  <2>3. DOMAIN Operands = 1..Len(Operands) /\ Len(Operands) \in Nat
    BY <1>3
  <2>4. Len(Operands) = 0
    BY <2>2, <2>3
  <2>. QED
    BY <1>3, <2>4
<1>5. Ends(g, Popped(blocks, 1), frames, Nothing)
  <2>1. Popped(<<>>, 0) = <<>>
    BY DEF Popped
  <2>2. stack_Top(Operands) = Nothing
    BY <1>4 DEF stack_Top
  <2>. QED
    BY Zenon, <1>1, <1>3, <1>4, <2>1, <2>2
<1>6. MovedTo(heap, g, Current, p, <<>>)
  <2>1. MovedTo(heap, heap, Current, p, Operands)
    BY <1>3 DEF MovedTo, HeapFine
  <2>. QED
    BY Zenon, <2>1, StackIs, SafeNone DEF SafeStack
<1>. HIDE DEF g
<1>7. Good(g, blocks, frames, varnames, Nothing) /\ AtStep(g, blocks, Caller)
  BY <1>2, <1>3, <1>6, TopMoves, TopKeeps, SafeNone DEF SafeStack
<1>8. Good(g, Popped(blocks, 1), frames, varnames, Nothing)
  BY <1>1, <1>2, <1>7, PoppedGood, TopAlone
<1>9. Caller.op \in {"next", "function"} => Len(Caller.base) + 1 # Len(blocks)
  BY <1>1, <1>2, <1>3, TopLevel
<1>10. AtCheck(g, Popped(blocks, 1), frames, Nothing)
  BY <1>1, <1>2, <1>7, <1>9, PoppedCheck
<1>. QED
  BY <1>5, <1>8, <1>10, CheckEnds

(***************************************************************************)
(* More blocks.                                                            *)
(***************************************************************************)
Laying(h, bs, t) ==
  /\ t \in Seq(Ids) /\ Starts(bs, t)
  /\ \A k \in Len(bs) + 1 .. Len(t) :
       /\ h[t[k]].type = "block" /\ ~Occurs(t[k], bs)
       /\ h[t[k]].start # 0 =>
            k > 1 /\ h[t[k - 1]].code = h[t[k]].code /\ h[t[k - 1]].ip = h[t[k]].len
  /\ \A j, k \in Len(bs) + 1 .. Len(t) : t[j] = t[k] => j = k

LEMMA LongerLaid ==
  ASSUME NEW h, NEW bs, Laid(h, bs), NEW t, Laying(h, bs, t)
  PROVE  Laid(h, t)
<1>1. /\ bs \in Seq(Ids) /\ t \in Seq(Ids) /\ Len(bs) \in Nat /\ Len(t) \in Nat
      /\ Len(bs) <= Len(t) /\ \A k \in 1..Len(bs) : t[k] = bs[k]
      /\ AreBlocks(h, bs) /\ Once(bs) /\ NestedOn(h, bs)
  BY DEF Laid, AreBlocks, Laying, Starts
<1>2. \A k \in 1..Len(t) : k \in 1..Len(bs) \/ k \in Len(bs) + 1 .. Len(t)
  BY <1>1
<1>3. AreBlocks(h, t)
  BY <1>1, <1>2 DEF AreBlocks, Laying
<1>4. Once(t)
  <2> SUFFICES ASSUME NEW j \in 1..Len(t), NEW k \in 1..Len(t), t[j] = t[k] PROVE j = k
    BY DEF Once
  <2>1. CASE j \in 1..Len(bs) /\ k \in 1..Len(bs)
    BY <1>1, <2>1 DEF Once
  <2>2. CASE j \in 1..Len(bs) /\ k \in Len(bs) + 1 .. Len(t)
    BY <1>1, <2>2 DEF Laying, Occurs
  <2>3. CASE k \in 1..Len(bs) /\ j \in Len(bs) + 1 .. Len(t)
    BY <1>1, <2>3 DEF Laying, Occurs
  <2>4. CASE j \in Len(bs) + 1 .. Len(t) /\ k \in Len(bs) + 1 .. Len(t)
    BY <2>4 DEF Laying
  <2>. QED
    BY <1>2, <2>1, <2>2, <2>3, <2>4
<1>5. NestedOn(h, t)
  <2>1. ASSUME t # <<>> PROVE h[t[1]].start = 0
    <3>1. CASE bs = <<>>
      <4>1. 1 \in Len(bs) + 1 .. Len(t)
        BY <1>1, <2>1, <3>1
      <4>. QED
        BY <4>1 DEF Laying
    <3>2. CASE bs # <<>>
      <4>1. 1 \in 1..Len(bs)
        BY <1>1, <3>2
      <4>. QED
        BY <1>1, <3>2, <4>1 DEF NestedOn
    <3>. QED
      BY <3>1, <3>2
  <2>2. ASSUME NEW k \in 1..Len(t) - 1, h[t[k + 1]].start # 0
        PROVE  h[t[k]].code = h[t[k + 1]].code /\ h[t[k]].ip = h[t[k + 1]].len
    <3>1. CASE k + 1 <= Len(bs)
      <4>1. k \in 1..Len(bs) - 1 /\ k \in 1..Len(bs) /\ k + 1 \in 1..Len(bs)
        BY <1>1, <3>1
      <4>. QED
        BY <1>1, <2>2, <4>1 DEF NestedOn
    <3>2. CASE k + 1 > Len(bs)
      <4>1. k + 1 \in Len(bs) + 1 .. Len(t) /\ k + 1 - 1 = k
        BY <1>1, <3>2
      <4>. QED
        BY <2>2, <4>1 DEF Laying
    <3>. QED
      BY <1>1, <3>1, <3>2
  <2>. QED
    BY <2>1, <2>2 DEF NestedOn
<1>. QED
  BY <1>3, <1>4, <1>5 DEF Laid

(* The new blocks of t are no generator's, or those of one that is run. *)
Owned(h, bs, fs, t) ==
  \A i \in Ids : IsGenerator(h, i) =>
    \A k \in Len(bs) + 1 .. Len(t) :
      /\ ~Occurs(t[k], h[i].saved)
      /\ t[k] = h[i].tag => /\ h[i].saved = <<>>
                            /\ \E j \in 1..Len(fs) : fs[j].op = "next" /\ fs[j].block = t[k]

LEMMA LongerGood ==
  ASSUME NEW h, NEW bs, NEW fs, NEW held, NEW x, Good(h, bs, fs, held, x),
         NEW t, Laying(h, bs, t), Owned(h, bs, fs, t)
  PROVE  Good(h, t, fs, held, x)
<1>1. /\ bs \in Seq(Ids) /\ t \in Seq(Ids) /\ Len(bs) \in Nat /\ Len(t) \in Nat
      /\ Len(bs) <= Len(t) /\ \A k \in 1..Len(bs) : t[k] = bs[k]
      /\ Starts(bs, t) /\ FramesFine(h, fs) /\ Laid(h, bs)
  BY DEF Good, Laid, AreBlocks, Laying, Starts
<1>2. Laid(h, t)
  BY <1>1, LongerLaid
<1>3. \A b : Occurs(b, t) => Occurs(b, bs) \/ \E k \in Len(bs) + 1 .. Len(t) : t[k] = b
  <2>1. \A k \in 1..Len(t) : k \in 1..Len(bs) \/ k \in Len(bs) + 1 .. Len(t)
    BY <1>1
  <2>. QED
    BY <1>1, <2>1 DEF Occurs
<1>4. Apart(h, t)
  <2> SUFFICES ASSUME NEW i \in Ids, IsGenerator(h, i)
               PROVE  /\ Occurs(h[i].tag, t) => h[i].saved = <<>>
                      /\ Disjoint(h[i].saved, t)
    BY DEF Good, Apart
  <2>1. (Occurs(h[i].tag, bs) => h[i].saved = <<>>) /\ Disjoint(h[i].saved, bs)
    BY DEF Good, Apart
  <2>2. Occurs(h[i].tag, t) => h[i].saved = <<>>
    BY <1>3, <2>1 DEF Owned
  <2>3. \A b : Occurs(b, t) => ~Occurs(b, h[i].saved)
    BY <1>3, <2>1, DisjointIs DEF Owned
  <2>. QED
    BY <2>2, <2>3, DisjointIs
<1>5. AllRun(h, t, fs)
  BY <1>3 DEF Good, AllRun, Owned
<1>6. \A k \in 1..Len(fs) : Starts(fs[k].base, t)
  BY <1>1, FrameType, StartsLonger DEF Good
<1>. QED
  BY <1>2, <1>4, <1>5, <1>6 DEF Good

LEMMA LongerLevel ==
  ASSUME NEW h, NEW f, f.base \in Seq(Ids), NEW bs \in Seq(Ids), NEW t \in Seq(Ids),
         Starts(bs, t), Level(h, f, bs)
  PROVE  Level(h, f, t)
<1>1. Len(f.base) < Len(bs) => Len(f.base) + 1 \in 1..Len(bs) /\ Len(f.base) < Len(t)
  BY DEF Starts
<1>. QED
  BY <1>1 DEF Level, Starts

LEMMA LongerStep ==
  ASSUME NEW h, NEW f, f.base \in Seq(Ids), NEW bs \in Seq(Ids), NEW t \in Seq(Ids),
         Starts(bs, t), AtStep(h, bs, f)
  PROVE  AtStep(h, t, f)
<1>1. Level(h, f, t)
  BY LongerLevel DEF AtStep
<1>2. Len(f.base) < Len(bs) => Len(f.base) < Len(t)
  BY DEF Starts
<1>. QED
  BY <1>1, <1>2 DEF AtStep

(* Blocks that are new belong to no generator. *)
LEMMA FreshOwned ==
  ASSUME NEW h, HeapFine(h), NEW g, NEW new, Grows(h, g, new), NEW bs, NEW fs, NEW t,
         \A i \in new : g[i].type = "block", \A k \in Len(bs) + 1 .. Len(t) : t[k] \in new
  PROVE  Owned(g, bs, fs, t)
<1> SUFFICES ASSUME NEW i \in Ids, IsGenerator(g, i), NEW k \in Len(bs) + 1 .. Len(t)
             PROVE  ~Occurs(t[k], g[i].saved) /\ t[k] # g[i].tag
  BY DEF Owned
<1>1. i \notin new
  BY DEF IsGenerator
<1>2. IsGenerator(h, i) /\ g[i] = h[i]
  BY <1>1, GrowsGenerator
<1>3. h[t[k]] = Free
  BY DEF Grows
<1>. QED
  BY <1>2, <1>3, FreshApart

(***************************************************************************)
(* SETUP_LOOP and SETUP_WITH.                                              *)
(***************************************************************************)
LEMMA MovedOwned ==
  ASSUME NEW h, NEW g, NEW b, NEW p, NEW s, MovedTo(h, g, b, p, s),
         NEW bs, NEW fs, NEW t, Owned(h, bs, fs, t)
  PROVE  Owned(g, bs, fs, t)
BY MovedGenerator DEF Owned

Appended(bs, u, t) ==
  t \in Seq(Ids) /\ Starts(bs, t) /\ Len(t) = Len(bs) + 1 /\ t[Len(bs) + 1] = u

LEMMA AppendedIs ==
  ASSUME NEW bs \in Seq(Ids), NEW u \in Ids
  PROVE  Appended(bs, u, Append(bs, u))
<1> DEFINE t == Append(bs, u)
<1>1. t \in Seq(Ids) /\ Len(t) = Len(bs) + 1 /\ t[Len(bs) + 1] = u /\ Len(bs) \in Nat
  OBVIOUS
<1>2. \A k \in 1..Len(bs) : t[k] = bs[k]
  OBVIOUS
<1>3. Starts(bs, t)
  BY <1>1, <1>2 DEF Starts
<1>. QED
  BY <1>1, <1>3 DEF Appended

(* The heap g is h but for what is at u. *)
PutAt(h, g, u, r) ==
  g \in [Ids -> Objects] /\ g[u] = r /\ \A i \in Ids \ {u} : g[i] = h[i]

LEMMA PutIs ==
  ASSUME NEW h, h \in [Ids -> Objects], NEW u \in Ids, NEW r \in Objects
  PROVE  PutAt(h, [h EXCEPT ![u] = r], u, r)
BY DEF PutAt

LEMMA PutGrows ==
  ASSUME NEW h, NEW u \in Ids, h[u] = Free, NEW g, NEW r, PutAt(h, g, u, r)
  PROVE  /\ Grows(h, g, {u})
         /\ r.type = "block" /\ PlacedAt(r, r.ip) /\ BlockSees(g, r) => NewFine(g, {u})
<1>1. Grows(h, g, {u})
  BY DEF PutAt, Grows
<1>2. ASSUME r.type = "block", PlacedAt(r, r.ip), BlockSees(g, r) PROVE NewFine(g, {u})
  BY <1>2 DEF PutAt, NewFine, Fine, IsGenerator
<1>. QED
  BY <1>1, <1>2

(* A new block on top of those there are, while the top one moves. *)
LEMMA PushBlock ==
  ASSUME Stepping, NEW u \in Ids, heap[u] = Free, NEW r, r.type = "block", PlacedAt(r, r.ip),
         NEW h, PutAt(heap, h, u, r), BlockSees(h, r),
         NEW g, NEW p, NEW s, MovedTo(heap, g, Current, p, s), SafeStack(heap, s),
         PlacedAt(heap[Current], p),
         heap[Current].start = 0 => p \in Outside(heap[Current].code),
         r.start # 0 => r.code = heap[Current].code /\ p = r.len,
         NEW m, PutAt(g, m, u, r), NEW t, Appended(blocks, u, t)
  PROVE  Good(m, t, frames, varnames, Nothing) /\ AtStep(m, t, Caller)
<1>1. /\ MachineInv /\ blocks # <<>> /\ HeapFine(heap) /\ blocks \in Seq(Ids) /\ AreBlocks(heap, blocks)
      /\ Caller.base \in Seq(Ids) /\ Len(blocks) \in 1..Len(blocks) /\ Current = blocks[Len(blocks)]
  BY InvParts, TopBlock, FrameType DEF Stepping
<1>2. Grows(heap, h, {u}) /\ NewFine(h, {u})
  BY PutGrows
<1>3. MovedTo(h, m, Current, p, s)
  BY <1>2, MovedOver DEF PutAt
<1>4. \A k \in 1..Len(s) : Safe(h, s[k])
  BY <1>2, GrowsSafe DEF SafeStack
<1>5. Good(m, blocks, frames, varnames, Nothing) /\ Current # u
  BY <1>2, <1>3, <1>4, TopGrows
<1>6. AtStep(m, blocks, Caller)
  BY <1>2, <1>3, TopGrowsStays
<1>7. /\ t \in Seq(Ids) /\ Starts(blocks, t) /\ Len(t) = Len(blocks) + 1 /\ t[Len(t)] = u
      /\ \A k \in Len(blocks) + 1 .. Len(t) : k = Len(t)
      /\ Len(t) - 1 = Len(blocks) /\ t[Len(blocks)] = Current /\ Len(t) > 1
  BY <1>1 DEF Appended, Starts
<1>8. Laying(m, blocks, t)
  <2>1. m[u] = r /\ m[Current].ip = p /\ m[Current].code = heap[Current].code
    <3>1. h[Current] = heap[Current]
      BY <1>2, <1>3, <1>5, TopGrows, TopBlock, <1>1 DEF Grows
    <3>. QED
      BY <1>3, <3>1 DEF PutAt, MovedTo
  <2>2. ~Occurs(u, blocks)
    BY <1>1, FreshApart
  <2>. QED
    BY <1>7, <2>1, <2>2 DEF Laying
<1>9. Owned(h, blocks, frames, t)
  <2>1. \A i \in {u} : h[i].type = "block"
    BY DEF PutAt
  <2>2. \A k \in Len(blocks) + 1 .. Len(t) : t[k] \in {u}
    BY <1>7
  <2>. QED
    BY <1>1, <1>2, <2>1, <2>2, FreshOwned
<1>10. Owned(m, blocks, frames, t)
  BY <1>3, <1>9, MovedOwned
<1>11. Good(m, t, frames, varnames, Nothing)
  BY <1>5, <1>8, <1>10, LongerGood
<1>12. AtStep(m, t, Caller)
  BY <1>1, <1>6, <1>7, LongerStep
<1>. QED
  BY <1>11, <1>12

(* The block of a loop or a with. *)
LEMMA SetupFine ==
  ASSUME Ready, phase = "step", Fetching, Instruction.op \in {"setup_loop", "setup_with"},
         NEW items, SafeStack(heap, items), NEW n \in Nat, Setup(items, n)
  PROVE  MachineInv'
<1> DEFINE u == Unused[1]
           c == heap[Current]
           at == c.ip + 1
           q == at + Arg
           r == Block(c.code, at, q, items, c.flag, c.scope, <<>>)
           T == Taken(n)
           g == [T EXCEPT ![Current].ip = q]
           m == [g EXCEPT ![u] = r]
           h == [heap EXCEPT ![u] = r]
           s == Popped(Operands, n)
<1>1. Available(1) /\ Ends([T EXCEPT ![u] = r, ![Current].ip = q], Append(blocks, u), frames, Nothing)
  BY DEF Setup
<1>2. u \in Ids /\ heap[u] = Free
  BY <1>1, UnusedIs
<1>3. /\ Stepping /\ MachineInv /\ blocks # <<>> /\ HeapFine(heap) /\ Current \in Ids
      /\ c \in BlockRecs /\ c.type = "block" /\ c.code \in DOMAIN Code /\ c.ip \in Nat
      /\ BlockSees(heap, c) /\ blocks \in Seq(Ids) /\ heap \in [Ids -> Objects]
  BY TopBlock, InvParts DEF Fetching, Stepping, HeapFine
<1>4. /\ q \in GoesTo(c.code, c.ip) /\ q \in Nat /\ c.ip \in Setups(c.code)
      /\ q = Behind(c.code, c.ip) /\ Arg \in Nat
  <2>1. q \in GoesTo(c.code, c.ip)
    BY GoesOn
  <2>2. q \in Nat
    BY <2>1, GoesNat
  <2>3. c.ip \in Setups(c.code) /\ q = Behind(c.code, c.ip) /\ Arg \in Nat
    BY Fetch DEF Setups, Behind, Arg, Supplied
  <2>. QED
    BY <2>1, <2>2, <2>3
<1>5. PlacedAt(c, q) /\ (c.start = 0 => q \in Outside(c.code))
  BY <1>4, Fetch
<1>6. MovedTo(heap, T, Current, at, s) /\ SafeStack(heap, s)
  BY <1>3, TakenIs
<1>7. MovedTo(heap, g, Current, q, s)
  BY <1>4, <1>6, PlaceIs
<1>8. /\ r \in BlockRecs /\ r.type = "block" /\ r.code = c.code /\ r.start = at /\ r.ip = at
      /\ r.len = q /\ r.stack = items /\ r.scope = c.scope /\ r.varnames = <<>> /\ r \in Objects
  <2>1. /\ c.flag \in {"none", "root", "sub", "shared"} /\ c.scope \in Ids \cup {Nothing}
        /\ <<>> \in Seq(Slots) /\ items \in Seq(Values \ {Nothing}) /\ at \in Nat
    BY <1>3 DEF BlockRecs, SafeStack
  <2>. QED
    BY <1>3, <1>4, <2>1 DEF Block, BlockRecs, Objects
<1>9. g \in [Ids -> Objects] /\ T \in [Ids -> Objects]
  BY <1>6, <1>7 DEF MovedTo
<1>10. Current # u
  BY <1>2, <1>3 DEF Free
<1>11. m = [T EXCEPT ![u] = r, ![Current].ip = q]
  BY Zenon, <1>2, <1>3, <1>9, <1>10
<1>. HIDE DEF u, T, g, q, r, s
<1>12. PutAt(heap, h, u, r) /\ PutAt(g, m, u, r)
  BY Zenon, <1>2, <1>3, <1>8, <1>9, PutIs
<1>. HIDE DEF m, h
<1>13. PlacedAt(r, r.ip)
  BY <1>3, <1>4, <1>8 DEF PlacedAt, q
<1>14. BlockSees(h, r)
  <2>1. BlockSees(heap, r)
    BY <1>3, <1>8 DEF BlockSees, SafeStack
  <2>. QED
    BY Zenon, <1>2, <1>12, <2>1, PutGrows, GrowsSees
<1>15. Appended(blocks, u, Append(blocks, u))
  BY <1>2, <1>3, AppendedIs
<1>16. Good(m, Append(blocks, u), frames, varnames, Nothing) /\ AtStep(m, Append(blocks, u), Caller)
  BY <1>2, <1>3, <1>5, <1>6, <1>7, <1>8, <1>12, <1>13, <1>14, <1>15, PushBlock
<1>. QED
  BY <1>1, <1>11, <1>16, StepEnds, ValueFacts

LEMMA StepSetupLoop ==
  ASSUME Ready, SetupLoop
  PROVE  MachineInv'
<1>1. Executing("setup_loop") /\ Setup(<<>>, 0)
  BY DEF SetupLoop
<1>. QED
  BY Zenon, <1>1, ExecutingFetches, SafeNone, SetupFine DEF Executing

LEMMA StepSetupWith ==
  ASSUME Ready, SetupWith
  PROVE  MachineInv'
<1>1. Executing("setup_with") /\ Setup(<<stack_Top(Operands)>>, 1)
  BY DEF SetupWith
<1>2. Fetching /\ MachineInv /\ blocks # <<>> /\ Instruction.op = "setup_with" /\ phase = "step"
  BY <1>1, ExecutingFetches DEF Executing
<1>3. SafeStack(heap, <<stack_Top(Operands)>>)
  <2>1. Needs(Instruction) = 1 /\ Needs(Instruction) \in 0..Len(Operands) /\ Len(Operands) \in Nat
    BY <1>2, Fetch, TopBlock DEF Needs
  <2>2. Operands # <<>>
    BY <2>1
  <2>3. stack_Top(Operands) \in Values \ {Nothing} /\ Safe(heap, stack_Top(Operands))
    BY <1>2, <2>2, OperandsSafe, SafeTop
  <2>. QED
    BY <2>3 DEF SafeStack
<1>. QED
  BY <1>1, <1>2, <1>3, SetupFine

(***************************************************************************)
(* Calls.                                                                  *)
(***************************************************************************)
Made(r, f, items, flag, scope, held) ==
  /\ f \in DOMAIN Code /\ items \in Seq(Values \ {Nothing})
  /\ flag \in {"none", "root", "sub", "shared"} /\ scope \in Ids \cup {Nothing}
  /\ held \in Seq(Slots) /\ r = NewBlock(f, items, flag, scope, held)

LEMMA NewBlockIs ==
  ASSUME NEW r, NEW f, NEW items, NEW flag, NEW scope, NEW held,
         Made(r, f, items, flag, scope, held)
  PROVE  /\ r \in Objects /\ r.type = "block" /\ r.code = f /\ r.start = 0 /\ r.ip = 0
         /\ r.stack = items /\ r.flag = flag /\ r.scope = scope /\ r.varnames = held
         /\ PlacedAt(r, r.ip) /\ r.ip \in Outside(f)
<1>1. f \in DOMAIN Code /\ End(f) \in Nat /\ 0 \in Outside(f)
  BY Zenon, CodeFine DEF Made
<1>2. /\ r \in BlockRecs /\ r.type = "block" /\ r.code = f /\ r.start = 0 /\ r.ip = 0
      /\ r.stack = items /\ r.flag = flag /\ r.scope = scope /\ r.varnames = held
      /\ r.len = End(f)
  BY <1>1 DEF Made, NewBlock, Block, BlockRecs, End
<1>3. PlacedAt(r, r.ip)
  BY <1>1, <1>2 DEF PlacedAt
<1>. QED
  BY <1>1, <1>2, <1>3 DEF Objects

(* Variables that hold no block. *)
SafeSlots(h, held) == held \in Seq(Slots) /\ \A k \in 1..Len(held) : Safe(h, held[k].value)

LEMMA SlotsOf ==
  ASSUME NEW h, NEW n \in Nat, NEW w, DOMAIN w = 1..n,
         w = [k \in 1..n |-> w[k]], \A k \in 1..n : w[k] \in Slots /\ Safe(h, w[k].value)
  PROVE  SafeSlots(h, w) /\ Len(w) = n
<1>1. w \in Seq(Slots) /\ Len(w) = n
  OBVIOUS
<1>. QED
  BY <1>1 DEF SafeSlots

(* What a function is called with. *)
SafeArgs(h, s) == s \in Seq(Values) /\ \A k \in 1..Len(s) : Safe(h, s[k])

LEMMA ArgsSafe ==
  ASSUME NEW h, NEW s, SafeStack(h, s)
  PROVE  SafeArgs(h, s)
<1>1. \A t \in Seq(Values \ {Nothing}) : t \in Seq(Values)
  OBVIOUS
<1>. QED
  BY <1>1 DEF SafeStack, SafeArgs

LEMMA WithArgumentsFine ==
  ASSUME NEW h, NEW held, SafeSlots(h, held), NEW args, SafeArgs(h, args),
         NEW b \in Ids, NEW f \in DOMAIN Code
  PROVE  SafeSlots(h, WithArguments(f, b, args, held))
         /\ Len(WithArguments(f, b, args, held)) = Len(held)
<1> DEFINE w == WithArguments(f, b, args, held)
<1>1. held \in Seq(Slots) /\ Len(held) \in Nat /\ DOMAIN held = 1..Len(held)
      /\ args \in Seq(Values) /\ Len(args) \in Nat
  BY DEF SafeSlots, SafeArgs
<1>2. w = [k \in 1..Len(held) |-> IF k <= Code[f].args /\ k <= Len(args)
                                  THEN Variable(b, args[k]) ELSE held[k]]
  BY <1>1 DEF WithArguments
<1>. HIDE DEF w
<1>3. DOMAIN w = 1..Len(held) /\ w = [k \in 1..Len(held) |-> w[k]]
  BY <1>2
<1>4. ASSUME NEW k \in 1..Len(held) PROVE w[k] \in Slots /\ Safe(h, w[k].value)
  <2>1. CASE k <= Code[f].args /\ k <= Len(args)
    <3>1. k \in 1..Len(args) /\ w[k] = Variable(b, args[k])
      BY <1>1, <1>2, <2>1
    <3>2. args[k] \in Values /\ Safe(h, args[k])
      BY <1>1, <3>1 DEF SafeArgs
    <3>. QED
      BY <3>1, <3>2 DEF Variable, Slots
  <2>2. CASE ~(k <= Code[f].args /\ k <= Len(args))
    BY <1>1, <1>2, <2>2 DEF SafeSlots
  <2>. QED
    BY <2>1, <2>2
<1>5. SafeSlots(h, w) /\ Len(w) = Len(held)
  BY Zenon, <1>1, <1>3, <1>4, SlotsOf
<1>. QED
  BY <1>5 DEF w

LEMMA CopiedFine ==
  ASSUME NEW h, NEW held, SafeSlots(h, held)
  PROVE  SafeSlots(h, Copied(held)) /\ Len(Copied(held)) = Len(held)
<1> DEFINE w == Copied(held)
<1>1. held \in Seq(Slots) /\ Len(held) \in Nat /\ DOMAIN held = 1..Len(held)
  BY DEF SafeSlots
<1>2. w = [k \in 1..Len(held) |->
             CASE held[k].value \in Ids    -> Variable(held[k].by, Nothing)
               [] held[k].value \in Tuples -> Variable(held[k].by, Item)
               [] OTHER                    -> held[k]]
  BY <1>1 DEF Copied
<1>. HIDE DEF w
<1>3. DOMAIN w = 1..Len(held) /\ w = [k \in 1..Len(held) |-> w[k]]
  BY <1>2
<1>4. ASSUME NEW k \in 1..Len(held) PROVE w[k] \in Slots /\ Safe(h, w[k].value)
  <2>1. held[k] \in Slots /\ Safe(h, held[k].value)
    BY <1>1 DEF SafeSlots
  <2>2. /\ Variable(held[k].by, Nothing) \in Slots /\ Safe(h, Variable(held[k].by, Nothing).value)
        /\ Variable(held[k].by, Item) \in Slots /\ Safe(h, Variable(held[k].by, Item).value)
    BY <2>1, ValueFacts DEF Variable, Slots
  <2>. HIDE DEF Variable
  <2>3. w[k] \in {held[k], Variable(held[k].by, Nothing), Variable(held[k].by, Item)}
    BY <1>2
  <2>. QED
    BY <2>1, <2>2, <2>3
<1>5. SafeSlots(h, w) /\ Len(w) = Len(held)
  BY Zenon, <1>1, <1>3, <1>4, SlotsOf
<1>. QED
  BY <1>5 DEF w

LEMMA VarsAre ==
  ASSUME NEW h, NEW held, VarsFine(h, held), NEW f \in DOMAIN Code
  PROVE  SafeSlots(h, held[f]) /\ Len(held[f]) = Code[f].vars
BY DEF VarsFine, SafeSlots

(* What vm_StartObjectCopy makes. *)
LEMMA StartedIs ==
  ASSUME MachineInv, NEW f \in DOMAIN Code, NEW b \in Ids, NEW args, SafeArgs(heap, args),
         NEW scope \in {b, Nothing}, NEW r, r = Started(f, b, args, scope)
  PROVE  /\ r \in Objects /\ r.type = "block" /\ r.code = f /\ r.start = 0 /\ r.ip = 0
         /\ r.flag = "none" /\ PlacedAt(r, r.ip) /\ r.ip \in Outside(f)
         /\ \A h, s : b \in s /\ Grows(heap, h, s) /\ h[b] = r => BlockSees(h, r)
<1> DEFINE held == IF scope = Nothing THEN <<>> ELSE WithArguments(f, b, args, Copied(varnames[f]))
<1>1. SafeSlots(heap, varnames[f]) /\ Len(varnames[f]) = Code[f].vars
  BY InvParts, VarsAre
<1>2. SafeSlots(heap, held) /\ (scope # Nothing => Len(held) = Code[f].vars)
  <2>1. CASE scope = Nothing
    BY <2>1 DEF SafeSlots
  <2>2. CASE scope # Nothing
    <3>1. SafeSlots(heap, Copied(varnames[f])) /\ Len(Copied(varnames[f])) = Code[f].vars
      BY <1>1, CopiedFine
    <3>2. /\ SafeSlots(heap, WithArguments(f, b, args, Copied(varnames[f])))
          /\ Len(WithArguments(f, b, args, Copied(varnames[f]))) = Code[f].vars
      BY <3>1, WithArgumentsFine
    <3>. QED
      BY <2>2, <3>2
  <2>. QED
    BY <2>1, <2>2
<1>3. r = NewBlock(f, <<>>, "none", scope, held)
  BY DEF Started
<1>. HIDE DEF held
<1>4. /\ r \in Objects /\ r.type = "block" /\ r.code = f /\ r.start = 0 /\ r.ip = 0
      /\ r.stack = <<>> /\ r.flag = "none" /\ r.scope = scope /\ r.varnames = held
      /\ PlacedAt(r, r.ip) /\ r.ip \in Outside(f)
  <2>1. Made(r, f, <<>>, "none", scope, held)
    BY <1>2, <1>3 DEF SafeSlots, Made
  <2>. QED
    BY <2>1, NewBlockIs
<1>5. ASSUME NEW h, NEW s, b \in s, Grows(heap, h, s), h[b] = r PROVE BlockSees(h, r)
  <2>1. \A k \in 1..Len(held) : Safe(h, held[k].value)
    BY <1>2, <1>5, GrowsSafe DEF SafeSlots
  <2>2. scope \in Ids => scope = b /\ scope # Nothing
    BY ValueFacts
  <2>. QED
    BY <1>2, <1>4, <1>5, <2>1, <2>2 DEF BlockSees
<1>. QED
  BY <1>4, <1>5

LEMMA ArgumentsSafe ==
  ASSUME MachineInv, blocks # <<>>, NEW n \in 1..Len(Operands)
  PROVE  SafeArgs(heap, Arguments(n))
<1>1. SafeStack(heap, Operands) /\ Len(Operands) \in Nat
  BY OperandsSafe, TopBlock
<1>2. Len(Operands) - n + 2 \in Nat /\ Len(Operands) - n + 2 > 0
  BY <1>1
<1>3. SafeStack(heap, Arguments(n))
  BY <1>1, <1>2, SafeSub DEF Arguments
<1>. QED
  BY <1>3, ArgsSafe

(* The instruction is behind it and its n operands gone. *)
LEMMA TakenOn ==
  ASSUME Fetching, NEW n \in Nat,
         Instruction.op \notin {"jump", "branch", "jump_if", "for_iter", "setup_loop",
                               "setup_with", "yield", "return", "raise"}
  PROVE  LET p == heap[Current].ip + 1
         IN  /\ MovedTo(heap, Taken(n), Current, p, Popped(Operands, n))
             /\ SafeStack(heap, Popped(Operands, n)) /\ PlacedAt(heap[Current], p)
             /\ Taken(n)[Current].stack = Popped(Operands, n)
             /\ heap[Current].start = 0 => p \in Outside(heap[Current].code)
<1>1. heap[Current].ip + 1 \in GoesTo(heap[Current].code, heap[Current].ip)
  BY GoesOn
<1>. QED
  BY <1>1, TakenIs, Fetch DEF Fetching, Stepping

LEMMA StepCallFunction ==
  ASSUME Ready, Executing("call"), NEW f \in Arg.callees, CallFunction(f, Arg.takes)
  PROVE  MachineInv'
<1> DEFINE b == Unused[1]
           n == Arg.takes
           r == Started(f, b, Arguments(n), b)
           h == [heap EXCEPT ![b] = r]
           m == [Taken(n) EXCEPT ![b] = r]
<1>1. /\ Available(1) /\ Assigns(f, b, Arguments(n), b)
      /\ EndsAfter(m, Append(blocks, b), frames, Nothing)
  BY DEF CallFunction, CopyScope
<1>2. b \in Ids /\ heap[b] = Free
  BY <1>1, UnusedIs
<1>3. /\ Fetching /\ Stepping /\ MachineInv /\ blocks # <<>> /\ Instruction.op = "call"
      /\ blocks \in Seq(Ids) /\ heap \in [Ids -> Objects]
  BY ExecutingFetches, InvParts DEF HeapFine
<1>4. f \in DOMAIN Code /\ n \in 1..Len(Operands) /\ n \in Nat
  <2>1. Needs(Instruction) = n
    BY <1>3 DEF Needs, Arg
  <2>2. Supplied(heap[Current].code, heap[Current].ip)
        /\ Instruction = At(heap[Current].code, heap[Current].ip)
        /\ Needs(Instruction) \in 0..Len(Operands) /\ Len(Operands) \in Nat
    BY <1>3, Fetch, TopBlock
  <2>3. n > 0 /\ f \in DOMAIN Code
    BY <1>3, <2>1, <2>2 DEF Supplied, Arg
  <2>. QED
    BY <2>1, <2>2, <2>3
<1>5. SafeArgs(heap, Arguments(n))
  BY <1>3, <1>4, ArgumentsSafe
<1>6. /\ r \in Objects /\ r.type = "block" /\ r.code = f /\ r.start = 0 /\ PlacedAt(r, r.ip)
      /\ \A k, s : b \in s /\ Grows(heap, k, s) /\ k[b] = r => BlockSees(k, r)
  <2>. HIDE DEF b, n
  <2>. QED
    BY <1>2, <1>3, <1>4, <1>5, StartedIs
<1>7. /\ MovedTo(heap, Taken(n), Current, heap[Current].ip + 1, Popped(Operands, n))
      /\ SafeStack(heap, Popped(Operands, n)) /\ PlacedAt(heap[Current], heap[Current].ip + 1)
      /\ heap[Current].start = 0 => heap[Current].ip + 1 \in Outside(heap[Current].code)
  BY <1>3, <1>4, TakenOn
<1>8. varnames' = varnames /\ shared' = shared /\ globals' = globals
  BY <1>1, <1>2, ValueFacts DEF Assigns
<1>. HIDE DEF b, n, r
<1>9. PutAt(heap, h, b, r) /\ PutAt(Taken(n), m, b, r)
  BY Zenon, <1>2, <1>3, <1>6, <1>7, PutIs DEF MovedTo
<1>. HIDE DEF h, m
<1>10. BlockSees(h, r)
  BY Zenon, <1>2, <1>6, <1>9, PutGrows DEF PutAt
<1>11. Appended(blocks, b, Append(blocks, b))
  BY <1>2, <1>3, AppendedIs
<1>12. Good(m, Append(blocks, b), frames, varnames, Nothing) /\ AtStep(m, Append(blocks, b), Caller)
  BY <1>2, <1>3, <1>6, <1>7, <1>9, <1>10, <1>11, PushBlock
<1>. QED
  BY <1>1, <1>3, <1>8, <1>12, StepToCheck, EndsFine, InvParts DEF InvBut

(***************************************************************************)
(* CALL_FUNCTION of a generator.                                           *)
(***************************************************************************)
(* Variables are left alone when the callee has its own. *)
LEMMA OwnScope ==
  ASSUME NEW f, NEW b \in Ids, NEW args, Assigns(f, b, args, b)
  PROVE  varnames' = varnames /\ shared' = shared /\ globals' = globals
BY ValueFacts DEF Assigns

LEMMA CallFacts ==
  ASSUME Ready, Executing("call"), NEW f \in Arg.callees
  PROVE  /\ Fetching /\ Stepping /\ MachineInv /\ blocks # <<>> /\ Instruction.op = "call"
         /\ blocks \in Seq(Ids) /\ heap \in [Ids -> Objects] /\ phase = "step" /\ HeapFine(heap)
         /\ f \in DOMAIN Code /\ Arg.takes \in 1..Len(Operands) /\ Arg.takes \in Nat
         /\ SafeArgs(heap, Arguments(Arg.takes))
<1> DEFINE n == Arg.takes
<1>3. /\ Fetching /\ Stepping /\ MachineInv /\ blocks # <<>> /\ Instruction.op = "call"
      /\ blocks \in Seq(Ids) /\ heap \in [Ids -> Objects] /\ phase = "step" /\ HeapFine(heap)
  BY ExecutingFetches, InvParts DEF HeapFine, Executing
<1>4. f \in DOMAIN Code /\ n \in 1..Len(Operands) /\ n \in Nat
  <2>1. Needs(Instruction) = n
    BY <1>3 DEF Needs, Arg
  <2>2. Supplied(heap[Current].code, heap[Current].ip)
        /\ Instruction = At(heap[Current].code, heap[Current].ip)
        /\ Needs(Instruction) \in 0..Len(Operands) /\ Len(Operands) \in Nat
    BY <1>3, Fetch, TopBlock
  <2>3. n > 0 /\ f \in DOMAIN Code
    BY <1>3, <2>1, <2>2 DEF Supplied, Arg
  <2>. QED
    BY <2>1, <2>2, <2>3
<1>5. SafeArgs(heap, Arguments(n))
  BY <1>3, <1>4, ArgumentsSafe
<1>. QED
  BY <1>3, <1>4, <1>5

(* A new generator and the block that is its tag. *)
LEMMA GeneratorIs ==
  ASSUME NEW h, HeapFine(h), NEW b \in Ids, h[b] = Free, NEW u \in Ids, h[u] = Free, b # u,
         NEW r \in Objects, r.type = "block", r.start = 0, r.flag = "none",
         Kind(r.code) = "generator", PlacedAt(r, r.ip),
         \A k, s : b \in s /\ Grows(h, k, s) /\ k[b] = r => BlockSees(k, r),
         NEW g, g \in [Ids -> Objects], g[b] = r, g[u] = Generator(b),
         \A i \in Ids \ {b, u} : g[i] = h[i]
  PROVE  Grows(h, g, {b, u}) /\ NewFine(g, {b, u})
<1>1. Grows(h, g, {b, u})
  BY DEF Grows
<1>2. BlockSees(g, r)
  BY <1>1
<1>3. /\ g[u].type = "generator" /\ g[u].tag = b /\ g[u].saved = <<>> /\ ~IsGenerator(g, b)
  BY DEF Generator, IsGenerator
<1>4. Fine(g, g[b])
  BY <1>2 DEF Fine
<1>5. Fine(g, g[u])
  <2>1. GeneratorSees(g, g[u])
    BY <1>3 DEF GeneratorSees, IsTag
  <2>. QED
    BY <1>3, <2>1 DEF Fine
<1>6. NewFine(g, {b, u})
  BY <1>3, <1>4, <1>5 DEF NewFine
<1>. QED
  BY <1>1, <1>6

LEMMA StepCallGenerator ==
  ASSUME Ready, Executing("call"), NEW f \in Arg.callees, Kind(f) = "generator",
         CallGenerator(f, Arg.takes)
  PROVE  MachineInv'
<1> DEFINE b == Unused[1]
           u == Unused[2]
           n == Arg.takes
           args == Arguments(n)
           r == Started(f, b, args, b)
           T == Taken(n)
           s == Append(Popped(Operands, n), u)
           h == [heap EXCEPT ![b] = r, ![u] = Generator(b)]
           g == [T EXCEPT ![Current].stack = s]
           W == [T EXCEPT ![b] = r, ![u] = Generator(b)]
           m == [W EXCEPT ![Current].stack = Append(@, u)]
<1>1. /\ Available(2) /\ Assigns(f, b, args, b)
      /\ EndsAfter(m, blocks, frames, Nothing)
  BY DEF CallGenerator, CopyScope, WithGenerator
<1>2. b \in Ids /\ heap[b] = Free /\ u \in Ids /\ heap[u] = Free /\ b # u
  <2>1. 1 \in 1..2 /\ 2 \in 1..2 /\ 2 \in Nat
    OBVIOUS
  <2>. QED
    BY <1>1, <2>1, UnusedIs
<1>3. /\ Fetching /\ Stepping /\ MachineInv /\ blocks # <<>> /\ Instruction.op = "call"
      /\ blocks \in Seq(Ids) /\ heap \in [Ids -> Objects] /\ phase = "step" /\ HeapFine(heap)
      /\ f \in DOMAIN Code /\ n \in 1..Len(Operands) /\ n \in Nat /\ SafeArgs(heap, args)
  BY CallFacts
<1>4. /\ MovedTo(heap, T, Current, heap[Current].ip + 1, Popped(Operands, n))
      /\ SafeStack(heap, Popped(Operands, n)) /\ PlacedAt(heap[Current], heap[Current].ip + 1)
      /\ T[Current].stack = Popped(Operands, n)
      /\ heap[Current].start = 0 => heap[Current].ip + 1 \in Outside(heap[Current].code)
  BY <1>3, TakenOn
<1>. HIDE DEF b, u, n, args, T
<1>5. /\ r \in Objects /\ r.type = "block" /\ r.code = f /\ r.start = 0 /\ PlacedAt(r, r.ip)
      /\ r.flag = "none"
      /\ \A k, t : b \in t /\ Grows(heap, k, t) /\ k[b] = r => BlockSees(k, r)
  BY <1>2, <1>3, StartedIs
<1>6. varnames' = varnames /\ shared' = shared /\ globals' = globals
  BY <1>1, <1>2, OwnScope
<1>. HIDE DEF r
<1>7. Generator(b) \in Objects /\ T \in [Ids -> Objects] /\ Current \in Ids /\ Current # b /\ Current # u
  <2>1. Generator(b) \in GeneratorRecs
    BY <1>2 DEF Generator, GeneratorRecs
  <2>2. Current \in Ids /\ heap[Current].type = "block"
    BY <1>3, TopBlock
  <2>. QED
    BY <1>2, <1>4, <2>1, <2>2 DEF Objects, MovedTo, Free
<1>8. /\ h \in [Ids -> Objects] /\ h[b] = r /\ h[u] = Generator(b)
      /\ \A i \in Ids \ {b, u} : h[i] = heap[i]
  BY <1>2, <1>3, <1>5, <1>7
<1>9. s \in Seq(Values \ {Nothing})
  BY <1>2, <1>4, ValueFacts DEF SafeStack, Values
<1>10. W[Current].stack = Popped(Operands, n) /\ W \in [Ids -> Objects]
  BY <1>2, <1>4, <1>5, <1>7
<1>11. m = [g EXCEPT ![b] = r, ![u] = Generator(b)]
  <2>1. m = [W EXCEPT ![Current].stack = s]
    BY Zenon, <1>10
  <2>. HIDE DEF s
  <2>. QED
    BY Zenon, <1>2, <1>7, <2>1
<1>12. MovedTo(heap, g, Current, heap[Current].ip + 1, s)
  BY Zenon, <1>4, <1>9, StackIs
<1>13. g \in [Ids -> Objects]
  BY <1>12 DEF MovedTo
<1>. HIDE DEF h, g
<1>14. /\ m \in [Ids -> Objects] /\ m[b] = r /\ m[u] = Generator(b)
       /\ \A i \in Ids \ {b, u} : m[i] = g[i]
  BY Zenon, <1>2, <1>5, <1>7, <1>11, <1>13
<1>. HIDE DEF m
<1>15. Grows(heap, h, {b, u}) /\ NewFine(h, {b, u})
  BY Zenon, <1>2, <1>3, <1>5, <1>8, GeneratorIs
<1>16. MovedTo(h, m, Current, heap[Current].ip + 1, s)
  <2>1. \A i \in {b, u} : m[i] = h[i]
    BY <1>8, <1>14
  <2>. QED
    BY <1>12, <1>14, <1>15, <2>1, MovedOver
<1>17. \A k \in 1..Len(s) : Safe(h, s[k])
  <2>1. \A k \in 1..Len(Popped(Operands, n)) : Safe(h, Popped(Operands, n)[k])
    BY <1>4, <1>15, GrowsSafe DEF SafeStack
  <2>2. Safe(h, u) /\ u \in Values \ {Nothing}
    BY <1>2, <1>8, ValueFacts DEF Safe, Values, Generator
  <2>3. SafeStack(h, Popped(Operands, n))
    BY <1>4, <2>1 DEF SafeStack
  <2>4. SafeStack(h, s)
    BY <2>2, <2>3, SafeAppend
  <2>. QED
    BY <2>4 DEF SafeStack
<1>. HIDE DEF s
<1>18. Good(m, blocks, frames, varnames, Nothing)
  BY <1>3, <1>4, <1>15, <1>16, <1>17, TopGrows
<1>19. AtStep(m, blocks, Caller)
  BY <1>3, <1>4, <1>15, <1>16, TopGrowsStays
<1>. QED
  BY <1>1, <1>3, <1>6, <1>18, <1>19, StepToCheck, EndsFine, InvParts DEF InvBut

(***************************************************************************)
(* CALL_FUNCTION of a class: its block and those of its bases.             *)
(***************************************************************************)
(* New blocks of functions or classes on top, while the top one moves. *)
Topped(bs, t, new) ==
  /\ t \in Seq(Ids) /\ Starts(bs, t)
  /\ \A k \in Len(bs) + 1 .. Len(t) : t[k] \in new
  /\ \A j, k \in Len(bs) + 1 .. Len(t) : t[j] = t[k] => j = k

Merged(m, h, g, new) ==
  /\ m \in [Ids -> Objects]
  /\ \A i \in new : m[i] = h[i]
  /\ \A i \in Ids \ new : m[i] = g[i]

LEMMA PushBlocks ==
  ASSUME Stepping, NEW h, NEW new, Grows(heap, h, new), NewFine(h, new),
         \A i \in new : h[i].type = "block" /\ h[i].start = 0,
         NEW g, NEW p, NEW s, MovedTo(heap, g, Current, p, s), SafeStack(heap, s),
         PlacedAt(heap[Current], p),
         heap[Current].start = 0 => p \in Outside(heap[Current].code),
         NEW m, Merged(m, h, g, new), NEW t, Topped(blocks, t, new)
  PROVE  Good(m, t, frames, varnames, Nothing) /\ AtStep(m, t, Caller)
<1>1. /\ MachineInv /\ blocks # <<>> /\ HeapFine(heap) /\ blocks \in Seq(Ids) /\ AreBlocks(heap, blocks)
      /\ Caller.base \in Seq(Ids)
  BY InvParts, TopBlock, FrameType DEF Stepping
<1>2. MovedTo(h, m, Current, p, s)
  BY MovedOver DEF Merged
<1>3. \A k \in 1..Len(s) : Safe(h, s[k])
  BY GrowsSafe DEF SafeStack
<1>4. Good(m, blocks, frames, varnames, Nothing)
  BY <1>2, <1>3, TopGrows
<1>5. AtStep(m, blocks, Caller)
  BY <1>2, TopGrowsStays
<1>6. Laying(m, blocks, t)
  <2>1. \A k \in Len(blocks) + 1 .. Len(t) : ~Occurs(t[k], blocks)
    BY <1>1, FreshApart DEF Grows, Topped
  <2>. QED
    BY <2>1 DEF Laying, Merged, Topped
<1>7. Owned(h, blocks, frames, t)
  BY <1>1, FreshOwned DEF Topped
<1>8. Owned(m, blocks, frames, t)
  BY <1>2, <1>7, MovedOwned
<1>9. Good(m, t, frames, varnames, Nothing)
  BY <1>4, <1>6, <1>8, LongerGood
<1>10. AtStep(m, t, Caller)
  BY <1>1, <1>5, LongerStep DEF Topped
<1>. QED
  BY <1>9, <1>10

LEMMA StepCallClass ==
  ASSUME Ready, Executing("call"), NEW c \in Arg.callees, CallClass(c, Arg.takes)
  PROVE  MachineInv'
<1> DEFINE bs == Bases(c)
           new == SubSeq(Unused, 1, 1 + Len(bs))
           n == Arg.takes
           T == Taken(n)
           R(i) == CASE i = new[1] ->
                          NewBlock(c, <<Item>>, IF c \in shared THEN "sub" ELSE "root", Nothing, <<>>)
                     [] \E k \in DOMAIN bs : i = new[k + 1] ->
                          NewBlock(bs[CHOOSE k \in DOMAIN bs : i = new[k + 1]],
                                   <<Item>>, "shared", Nothing, <<>>)
                     [] OTHER -> T[i]
           m == [i \in Ids |-> R(i)]
           N == {new[k] : k \in 1..1 + Len(bs)}
           h == [i \in Ids |-> IF i \in N THEN R(i) ELSE heap[i]]
           t == blocks \o new
<1>1. /\ Available(1 + Len(bs)) /\ shared' = shared \cup ToSet(bs)
      /\ globals' = globals /\ varnames' = varnames
      /\ EndsAfter(m, t, frames, Nothing)
  BY Zenon DEF CallClass
<1>2. /\ Fetching /\ Stepping /\ MachineInv /\ blocks # <<>> /\ Instruction.op = "call"
      /\ blocks \in Seq(Ids) /\ heap \in [Ids -> Objects] /\ phase = "step" /\ HeapFine(heap)
      /\ c \in DOMAIN Code /\ n \in 1..Len(Operands) /\ n \in Nat
  BY CallFacts
<1>3. bs \in Seq(DOMAIN Code) /\ Len(bs) \in Nat /\ DOMAIN bs = 1..Len(bs)
  <2>1. Bases(c) \in Seq(DOMAIN Code)
    BY Zenon, <1>2, CodeFine
  <2>. QED
    BY <2>1
<1>. HIDE DEF bs
<1>4. /\ new \in Seq(Ids) /\ Len(new) = 1 + Len(bs)
      /\ \A k \in 1..1 + Len(bs) : new[k] \in Ids /\ heap[new[k]] = Free
      /\ \A j, k \in 1..1 + Len(bs) : new[j] = new[k] => j = k
  <2>1. 1 + Len(bs) \in Nat
    BY <1>3
  <2>2. /\ Unused \in Seq(Ids) /\ Len(Unused) >= 1 + Len(bs)
        /\ \A k \in 1..1 + Len(bs) : Unused[k] \in Ids /\ heap[Unused[k]] = Free
        /\ \A j, k \in 1..1 + Len(bs) : Unused[j] = Unused[k] => j = k
    BY <1>1, <2>1, UnusedIs
  <2>3. new \in Seq(Ids) /\ Len(new) = 1 + Len(bs)
    BY <2>1, <2>2
  <2>4. \A k \in 1..1 + Len(bs) : new[k] = Unused[k]
    BY <2>1, <2>2
  <2>. QED
    BY <2>2, <2>3, <2>4
<1>5. /\ MovedTo(heap, T, Current, heap[Current].ip + 1, Popped(Operands, n))
      /\ SafeStack(heap, Popped(Operands, n)) /\ PlacedAt(heap[Current], heap[Current].ip + 1)
      /\ heap[Current].start = 0 => heap[Current].ip + 1 \in Outside(heap[Current].code)
  BY <1>2, TakenOn
<1>. HIDE DEF new, n, T
<1>6. ASSUME NEW i \in N
      PROVE  /\ i \in Ids /\ heap[i] = Free
             /\ \E f \in DOMAIN Code, flag \in {"sub", "root", "shared"} :
                  R(i) = NewBlock(f, <<Item>>, flag, Nothing, <<>>)
  <2>1. PICK place \in 1..1 + Len(bs) : i = new[place]
    OBVIOUS
  <2>2. ASSUME i = new[1]
        PROVE  \E f \in DOMAIN Code, flag \in {"sub", "root", "shared"} :
                  R(i) = NewBlock(f, <<Item>>, flag, Nothing, <<>>)
    <3>1. ~\E k \in DOMAIN bs : i = new[k + 1]
      <4>1. 1 \in 1..1 + Len(bs) /\ \A k \in DOMAIN bs : k + 1 \in 1..1 + Len(bs) /\ k + 1 # 1
        BY <1>3
      <4>. QED
        BY <1>4, <2>2, <4>1
    <3>4. R(i) = NewBlock(c, <<Item>>, IF c \in shared THEN "sub" ELSE "root", Nothing, <<>>)
      BY <2>2, <3>1
    <3>. HIDE DEF R
    <3>2. CASE c \in shared
      <4>1. R(i) = NewBlock(c, <<Item>>, "sub", Nothing, <<>>)
        BY <3>4, <3>2
      <4>. QED
        BY <1>2, <4>1
    <3>3. CASE c \notin shared
      <4>1. R(i) = NewBlock(c, <<Item>>, "root", Nothing, <<>>)
        BY <3>4, <3>3
      <4>. QED
        BY <1>2, <4>1
    <3>. QED
      BY <3>2, <3>3
  <2>3. ASSUME i # new[1]
        PROVE  \E f \in DOMAIN Code, flag \in {"sub", "root", "shared"} :
                  R(i) = NewBlock(f, <<Item>>, flag, Nothing, <<>>)
    <3>1. place - 1 \in DOMAIN bs /\ i = new[place - 1 + 1]
      BY <1>3, <2>1, <2>3
    <3> DEFINE j == CHOOSE j \in DOMAIN bs : i = new[j + 1]
    <3>2. j \in DOMAIN bs
      BY <3>1
    <3>3. R(i) = NewBlock(bs[j], <<Item>>, "shared", Nothing, <<>>)
      BY <2>3, <3>1
    <3>. HIDE DEF j, R
    <3>4. bs[j] \in DOMAIN Code
      BY <1>3, <3>2
    <3>. QED
      BY <3>3, <3>4
  <2>. QED
    BY Zenon, <1>4, <2>1, <2>2, <2>3
<1>7. ASSUME NEW i \in Ids, i \notin N PROVE R(i) = T[i]
  <2>1. 1 \in 1..1 + Len(bs) /\ \A k \in DOMAIN bs : k + 1 \in 1..1 + Len(bs)
    BY <1>3
  <2>. QED
    BY <1>7, <2>1
<1>. HIDE DEF R
<1>8. ASSUME NEW i \in N
      PROVE  /\ R(i) \in Objects /\ R(i).type = "block" /\ R(i).start = 0
             /\ PlacedAt(R(i), R(i).ip) /\ \A k : BlockSees(k, R(i))
  <2>1. PICK f \in DOMAIN Code, flag \in {"sub", "root", "shared"} :
          R(i) = NewBlock(f, <<Item>>, flag, Nothing, <<>>)
    BY Zenon, <1>6
  <2>2. Made(R(i), f, <<Item>>, flag, Nothing, <<>>)
    BY <2>1, ValueFacts DEF Made
  <2>3. /\ R(i) \in Objects /\ R(i).type = "block" /\ R(i).start = 0
        /\ PlacedAt(R(i), R(i).ip) /\ R(i).stack = <<Item>> /\ R(i).scope = Nothing
        /\ R(i).varnames = <<>>
    BY <2>2, NewBlockIs
  <2>4. \A k : BlockSees(k, R(i))
    BY <2>3, ValueFacts DEF BlockSees
  <2>. QED
    BY <2>3, <2>4
<1>9. N \subseteq Ids /\ \A i \in N : heap[i] = Free
  BY <1>6
<1>10. Topped(blocks, t, N)
  <2>1. /\ t \in Seq(Ids) /\ Len(t) = Len(blocks) + Len(new) /\ Len(blocks) \in Nat /\ Len(new) \in Nat
        /\ \A k \in 1..Len(t) : t[k] = IF k <= Len(blocks) THEN blocks[k] ELSE new[k - Len(blocks)]
    <3>1. blocks \in Seq(Ids) /\ new \in Seq(Ids)
      BY <1>2, <1>4
    <3>. QED
      BY <3>1, ConcatProperties
  <2>. HIDE DEF t
  <2>2. Starts(blocks, t)
    BY <2>1 DEF Starts
  <2>3. \A k \in Len(blocks) + 1 .. Len(t) :
          t[k] = new[k - Len(blocks)] /\ k - Len(blocks) \in 1..1 + Len(bs)
    BY <1>4, <2>1
  <2>4. \A k \in Len(blocks) + 1 .. Len(t) : t[k] \in N
    BY <2>3
  <2>5. ASSUME NEW j \in Len(blocks) + 1 .. Len(t), NEW k \in Len(blocks) + 1 .. Len(t), t[j] = t[k]
        PROVE  j = k
    <3>1. j - Len(blocks) = k - Len(blocks)
      BY <1>4, <2>3, <2>5
    <3>. QED
      BY <2>1, <3>1
  <2>. QED
    BY <2>1, <2>2, <2>4, <2>5 DEF Topped
<1>. HIDE DEF N, t
<1>11. /\ m \in [Ids -> Objects] /\ h \in [Ids -> Objects] /\ (\A i \in N : m[i] = h[i] /\ h[i] = R(i))
       /\ \A i \in Ids \ N : m[i] = T[i] /\ h[i] = heap[i]
  BY <1>2, <1>5, <1>7, <1>8, <1>9 DEF MovedTo
<1>. HIDE DEF m, h
<1>12. Grows(heap, h, N)
  BY <1>9, <1>11 DEF Grows
<1>13. NewFine(h, N)
  BY <1>8, <1>11 DEF NewFine, Fine, IsGenerator
<1>14. \A i \in N : h[i].type = "block" /\ h[i].start = 0
  BY <1>8, <1>11
<1>15. Good(m, t, frames, varnames, Nothing) /\ AtStep(m, t, Caller)
  <2>1. Merged(m, h, T, N)
    BY <1>11 DEF Merged
  <2>. QED
    BY <1>2, <1>5, <1>10, <1>12, <1>13, <1>14, <2>1, PushBlocks
<1>16. shared' \subseteq DOMAIN Code
  BY <1>1, <1>2, <1>3, InvParts DEF ToSet
<1>. QED
  BY <1>1, <1>2, <1>15, <1>16, StepToCheck, EndsFine, InvParts DEF InvBut

(***************************************************************************)
(* IMPORT_NAME, and the returns that leave a level, a module or a base;    *)
(* YIELD_VALUE.                                                            *)
(***************************************************************************)
LEMMA StepImportName ==
  ASSUME Ready, ImportName
  PROVE  MachineInv'
<1> DEFINE found == IF Arg \in globals \cup Modules THEN <<Item>> ELSE <<>>
           s == Popped(Operands, 2) \o found
           T == Taken(2)
           after == [T EXCEPT ![Current].stack = @ \o found]
           g == [T EXCEPT ![Current].stack = s]
<1>1. /\ Executing("import") /\ globals' = globals \cup (Modules \cap {Arg})
      /\ shared' = shared /\ varnames' = varnames
      /\ IF Arg \in Modules \ globals
         THEN /\ Available(1)
              /\ EndsAfter([after EXCEPT ![Unused[1]] = NewBlock(Arg, <<>>, "none", Nothing, <<>>)],
                           Append(blocks, Unused[1]), frames, Nothing)
         ELSE EndsAfter(after, blocks, frames, Nothing)
  BY DEF ImportName
<1>2. /\ Fetching /\ Stepping /\ MachineInv /\ blocks # <<>> /\ Instruction.op = "import"
      /\ blocks \in Seq(Ids) /\ heap \in [Ids -> Objects]
  BY <1>1, ExecutingFetches, InvParts DEF HeapFine
<1>3. /\ MovedTo(heap, T, Current, heap[Current].ip + 1, Popped(Operands, 2))
      /\ SafeStack(heap, Popped(Operands, 2)) /\ PlacedAt(heap[Current], heap[Current].ip + 1)
      /\ T[Current].stack = Popped(Operands, 2)
      /\ heap[Current].start = 0 => heap[Current].ip + 1 \in Outside(heap[Current].code)
  BY <1>2, TakenOn
<1>4. SafeStack(heap, s)
  <2>1. SafeStack(heap, <<Item>>) /\ SafeStack(heap, <<>>)
    BY ValueFacts DEF SafeStack
  <2>2. SafeStack(heap, found)
    BY <2>1
  <2>. HIDE DEF found
  <2>. QED
    BY <1>3, <2>2, SafeConcat
<1>5. after = g
  BY Zenon, <1>3
<1>6. shared' \subseteq DOMAIN Code /\ globals' \subseteq Modules
  BY <1>1, <1>2, InvParts
<1>. HIDE DEF found, T, s
<1>7. MovedTo(heap, g, Current, heap[Current].ip + 1, s)
  BY <1>3, <1>4, StackIs DEF SafeStack
<1>8. CASE Arg \in Modules \ globals
  <2> DEFINE b == Unused[1]
             r == NewBlock(Arg, <<>>, "none", Nothing, <<>>)
             h == [heap EXCEPT ![b] = r]
             m == [g EXCEPT ![b] = r]
  <2>1. Available(1) /\ EndsAfter(m, Append(blocks, b), frames, Nothing)
    BY Zenon, <1>1, <1>5, <1>8
  <2>2. b \in Ids /\ heap[b] = Free
    BY <2>1, UnusedIs
  <2>3. Made(r, Arg, <<>>, "none", Nothing, <<>>)
    BY <1>8 DEF Made, Modules
  <2>. HIDE DEF b, r, g, after
  <2>4. /\ r \in Objects /\ r.type = "block" /\ r.start = 0 /\ PlacedAt(r, r.ip)
        /\ r.stack = <<>> /\ r.scope = Nothing /\ r.varnames = <<>>
    BY <2>3, NewBlockIs
  <2>5. PutAt(heap, h, b, r) /\ PutAt(g, m, b, r)
    BY Zenon, <1>2, <1>7, <2>2, <2>4, PutIs DEF MovedTo
  <2>6. BlockSees(h, r)
    BY <2>4, ValueFacts DEF BlockSees
  <2>. HIDE DEF h, m
  <2>7. Appended(blocks, b, Append(blocks, b))
    BY <1>2, <2>2, AppendedIs
  <2>8. Good(m, Append(blocks, b), frames, varnames, Nothing) /\ AtStep(m, Append(blocks, b), Caller)
    BY <1>2, <1>3, <1>4, <1>7, <2>2, <2>4, <2>5, <2>6, <2>7, PushBlock
  <2>. QED
    BY <1>1, <1>2, <1>6, <2>1, <2>8, StepToCheck, EndsFine, InvParts DEF InvBut
<1>9. CASE Arg \notin Modules \ globals
  <2>1. EndsAfter(g, blocks, frames, Nothing)
    BY <1>1, <1>5, <1>9
  <2>2. heap[Current].ip + 1 \in GoesTo(heap[Current].code, heap[Current].ip)
    BY <1>2, GoesOn
  <2>. HIDE DEF g
  <2>3. Good(g, blocks, frames, varnames, Nothing) /\ AtStep(g, blocks, Caller)
    BY <1>2, <1>4, <1>7, <2>2, MovedOn
  <2>. QED
    BY <1>1, <1>2, <1>6, <2>1, <2>3, StepToCheck, EndsFine, InvParts DEF InvBut
<1>. QED
  BY <1>8, <1>9

(***************************************************************************)
(* Returns.                                                                *)
(***************************************************************************)
LEMMA ReturnFacts ==
  ASSUME Ready, Executing("return")
  PROVE  /\ Fetching /\ Stepping /\ MachineInv /\ blocks # <<>> /\ Instruction.op = "return"
         /\ blocks \in Seq(Ids) /\ heap \in [Ids -> Objects] /\ phase = "step"
         /\ PlacedAt(heap[Current], heap[Current].ip + 1)
         /\ Result \in Values /\ Result # Nothing /\ Safe(heap, Result)
         /\ AtStep(heap, blocks, Caller)
<1>1. /\ Fetching /\ Stepping /\ MachineInv /\ blocks # <<>> /\ Instruction.op = "return"
      /\ blocks \in Seq(Ids) /\ heap \in [Ids -> Objects] /\ phase = "step"
  BY ExecutingFetches, InvParts DEF HeapFine, Executing
<1>2. Operands # <<>>
  <2>1. Needs(Instruction) = 1 /\ Needs(Instruction) \in 0..Len(Operands) /\ Len(Operands) \in Nat
    BY <1>1, Fetch, TopBlock DEF Needs
  <2>. QED
    BY <2>1
<1>3. Result \in Values /\ Result # Nothing /\ Safe(heap, Result)
  BY <1>1, <1>2, OperandsSafe, SafeTop DEF Result
<1>4. PlacedAt(heap[Current], heap[Current].ip + 1)
  BY <1>1, Fetch
<1>. QED
  BY <1>1, <1>3, <1>4 DEF MachineInv

LEMMA ReturnTaken ==
  ASSUME Ready, Executing("return"), NEW n \in Nat
  PROVE  /\ MovedTo(heap, Taken(n), Current, heap[Current].ip + 1, Popped(Operands, n))
         /\ SafeStack(heap, Popped(Operands, n))
         /\ Good(Taken(n), blocks, frames, varnames, Nothing)
         /\ Good(Taken(n), Popped(blocks, 1), frames, varnames, Nothing)
<1>1. /\ MovedTo(heap, Taken(n), Current, heap[Current].ip + 1, Popped(Operands, n))
      /\ SafeStack(heap, Popped(Operands, n))
  BY ReturnFacts, TakenIs
<1>2. Good(Taken(n), blocks, frames, varnames, Nothing)
  BY <1>1, ReturnFacts, TopMoves DEF SafeStack
<1>3. Good(Taken(n), Popped(blocks, 1), frames, varnames, Nothing)
  BY <1>2, ReturnFacts, PoppedGood, TopAlone
<1>. QED
  BY <1>1, <1>2, <1>3

LEMMA StepReturnToLevel ==
  ASSUME Ready, ReturnToLevel
  PROVE  MachineInv'
<1>1. Executing("return") /\ Exits /\ Ends(Taken(1), blocks, frames, Result)
  BY DEF ReturnToLevel
<1>2. Good(Taken(1), blocks, frames, varnames, Nothing) /\ Safe(Taken(1), Result)
  BY <1>1, ReturnTaken, ReturnFacts, MovedAlike, AlikeSafe
<1>3. Good(Taken(1), blocks, frames, varnames, Result)
  BY <1>1, <1>2, ReturnFacts, GoodValue
<1>4. Caller.op = "function"
  <2>1. Caller.op # "function" => Len(blocks) = 0
    BY <1>1 DEF Exits, ExitLevel
  <2>. QED
    BY <1>1, <2>1, ReturnFacts
<1>5. AtCheck(Taken(1), blocks, frames, Result)
  BY <1>1, <1>4, ReturnFacts, InvParts DEF AtCheck, Looping
<1>. QED
  BY <1>1, <1>3, <1>5, CheckEnds

(* A return from a block that no C call is waiting for. *)
LEMMA LeaveLevel ==
  ASSUME Stepping, NEW g, NEW p, NEW s, MovedTo(heap, g, Current, p, s),
         Caller.op \in {"next", "function"} => Len(Caller.base) + 1 # Len(blocks)
  PROVE  Level(g, Caller, Popped(blocks, 1))
<1>1. MachineInv /\ blocks # <<>> /\ AtStep(heap, blocks, Caller)
  BY DEF Stepping, MachineInv
<1>2. /\ Caller = frames[Len(frames)] /\ Caller.base \in Seq(Ids) /\ blocks \in Seq(Ids)
      /\ AreBlocks(heap, blocks) /\ Once(blocks) /\ Len(blocks) \in 1..Len(blocks)
      /\ Current = blocks[Len(blocks)]
  BY <1>1, InvParts, FrameType, TopBlock
<1>3. /\ Popped(blocks, 1) \in Seq(Ids) /\ Len(Popped(blocks, 1)) = Len(blocks) - 1
      /\ Starts(Popped(blocks, 1), blocks)
      /\ \A k \in 1..Len(blocks) - 1 : Popped(blocks, 1)[k] = blocks[k]
  BY Zenon, <1>1, <1>2, PoppedIs
<1>4. Level(heap, Caller, Popped(blocks, 1))
  <2>1. Caller.op \in {"next", "function"} =>
           Len(Caller.base) + 1 \in 1..Len(blocks) - 1 /\ Len(Caller.base) < Len(blocks) - 1
    BY <1>1, <1>2 DEF AtStep, Level
  <2>. QED
    BY <1>1, <1>3, <2>1 DEF AtStep, Level
<1>5. \A k \in 1..Len(Popped(blocks, 1)) : Popped(blocks, 1)[k] # Current
  BY <1>2, <1>3 DEF Once
<1>6. AreBlocks(heap, Popped(blocks, 1))
  BY <1>2, <1>3, PrefixBlocks
<1>. QED
  BY <1>2, <1>4, <1>5, <1>6, MovedLevel

LEMMA LeaveCheck ==
  ASSUME Stepping, NEW g, NEW p, NEW s, MovedTo(heap, g, Current, p, s),
         Caller.op \in {"next", "function"} => Len(Caller.base) + 1 # Len(blocks), NEW x
  PROVE  AtCheck(g, Popped(blocks, 1), frames, x)
<1>1. Caller.op \in Looping /\ Caller = frames[Len(frames)]
  BY InvParts DEF Stepping, MachineInv, AtStep
<1>. QED
  BY <1>1, LeaveLevel DEF AtCheck

(* What a loop around vm_Step runs is a function or a generator. *)
LEMMA TopIsCallee ==
  ASSUME Stepping, Caller.op \in {"next", "function"}, Len(Caller.base) + 1 = Len(blocks)
  PROVE  /\ Kind(heap[Current].code) \in {"function", "generator"} /\ heap[Current].flag = "none"
         /\ Caller.op = "function" => Exits
<1>1. /\ Caller.op = "next" => Current = Caller.block
      /\ Caller.op = "function" => /\ heap[Current].flag = "none"
                                   /\ Kind(heap[Current].code) = "function"
  BY TopLevel
<1>2. MachineInv /\ Shallow /\ Caller = frames[Len(frames)] /\ FramesFine(heap, frames)
      /\ HeapFine(heap) /\ Len(frames) \in 1..Len(frames) /\ Len(blocks) \in Nat
  BY InvParts DEF Stepping, Orderly
<1>3. FrameFine(heap, Caller)
  BY <1>2, FrameType
<1>4. ASSUME Caller.op = "next" PROVE IsTag(heap, Current)
  <2>1. IsGenerator(heap, Caller.iter) /\ heap[Caller.iter].tag = Caller.block
    BY <1>3, <1>4 DEF FrameFine
  <2>. QED
    BY <1>1, <1>2, <1>4, <2>1, AsleepIn
<1>5. ASSUME Caller.op = "function" PROVE Exits
  <2>1. Caller.arg = Len(blocks)
    BY <1>3, <1>5 DEF FrameFine
  <2>2. \A m, n \in Nat : m < n => m % n = m
    OBVIOUS
  <2>3. Len(blocks) % LevelWidth = Len(blocks)
    BY <1>2, <2>2, VMAssumption DEF Shallow
  <2>. QED
    BY <1>5, <2>1, <2>3 DEF Exits, ExitLevel
<1>. QED
  BY <1>1, <1>4, <1>5 DEF IsTag

LEMMA StepReturnFromModule ==
  ASSUME Ready, ReturnFromModule
  PROVE  MachineInv'
<1>1. Executing("return") /\ IsModule /\ Ends(Taken(1), Popped(blocks, 1), frames, Nothing)
  BY DEF ReturnFromModule
<1>2. Caller.op \in {"next", "function"} => Len(Caller.base) + 1 # Len(blocks)
  BY <1>1, ReturnFacts, TopIsCallee DEF IsModule
<1>3. AtCheck(Taken(1), Popped(blocks, 1), frames, Nothing)
  BY <1>1, <1>2, ReturnFacts, ReturnTaken, LeaveCheck
<1>. QED
  BY <1>1, <1>3, ReturnTaken, CheckEnds

LEMMA StepReturnFromBase ==
  ASSUME Ready, ReturnFromBase
  PROVE  MachineInv'
<1> DEFINE T == Taken(1)
           g == [T EXCEPT ![Current].flag = IF @ = "sub" THEN "root" ELSE @]
           p == heap[Current].ip + 1
           s == Popped(Operands, 1)
<1>1. /\ Executing("return") /\ IsSub /\ shared' = shared \ {heap[Current].code}
      /\ globals' = globals /\ varnames' = varnames
      /\ EndsAfter(g, Popped(blocks, 1), frames, Nothing)
  BY DEF ReturnFromBase
<1>2. MovedTo(heap, T, Current, p, s) /\ SafeStack(heap, s)
  BY <1>1, ReturnTaken
<1>. HIDE DEF T, p, s
<1>3. T \in [Ids -> Objects] /\ Current \in Ids /\ T[Current].type = "block"
  BY <1>2 DEF MovedTo
<1>4. T[Current] \in BlockRecs
  BY <1>3 DEF Objects, Free, SequenceRecs, IterationRecs, GeneratorRecs
<1> DEFINE v == IF T[Current].flag = "sub" THEN "root" ELSE T[Current].flag
           r == [T[Current] EXCEPT !.flag = v]
<1>5. /\ r \in BlockRecs /\ r.ip = T[Current].ip /\ r.stack = T[Current].stack
      /\ r.type = "block" /\ r.code = T[Current].code /\ r.start = T[Current].start
      /\ r.len = T[Current].len /\ r.scope = T[Current].scope /\ r.varnames = T[Current].varnames
      /\ T[Current].flag = "none" => r.flag = "none"
  BY Zenon, <1>4 DEF BlockRecs
<1>6. g = [T EXCEPT ![Current] = r]
  OBVIOUS
<1>. HIDE DEF r, v
<1>7. g \in [Ids -> Objects] /\ g[Current] = r /\ \A i \in Ids \ {Current} : g[i] = T[i]
  BY <1>3, <1>5, <1>6 DEF Objects
<1>. HIDE DEF g
<1>8. MovedTo(heap, g, Current, p, s)
  BY <1>2, <1>5, <1>7 DEF MovedTo
<1>9. Good(g, blocks, frames, varnames, Nothing)
  BY <1>1, <1>2, <1>8, ReturnFacts, TopMoves DEF SafeStack, p
<1>10. Good(g, Popped(blocks, 1), frames, varnames, Nothing)
  BY <1>1, <1>9, ReturnFacts, PoppedGood, TopAlone
<1>11. Caller.op \in {"next", "function"} => Len(Caller.base) + 1 # Len(blocks)
  BY <1>1, ReturnFacts, TopIsCallee DEF IsSub
<1>12. AtCheck(g, Popped(blocks, 1), frames, Nothing)
  BY <1>1, <1>8, <1>11, ReturnFacts, LeaveCheck
<1>13. shared' \subseteq DOMAIN Code /\ globals' \subseteq Modules
  BY <1>1, ReturnFacts, InvParts
<1>. QED
  BY <1>1, <1>10, <1>12, <1>13, EndsFine DEF InvBut

LEMMA StepYield ==
  ASSUME Ready, Yield
  PROVE  MachineInv'
<1>1. Executing("yield")
      /\ Ends([Taken(1) EXCEPT ![Current].ip = @ + 1], blocks, frames, Result)
  BY DEF Yield
<1>2. Fetching /\ MachineInv /\ blocks # <<>> /\ Instruction.op = "yield"
  BY <1>1, ExecutingFetches
<1>3. /\ MovedTo(heap, Taken(1), Current, heap[Current].ip + 1, Popped(Operands, 1))
      /\ SafeStack(heap, Popped(Operands, 1)) /\ Taken(1)[Current].ip = heap[Current].ip + 1
  BY <1>2, TakenIs
<1>4. heap[Current].ip + 2 \in GoesTo(heap[Current].code, heap[Current].ip)
      /\ heap[Current].ip + 2 \in Nat /\ heap[Current].ip + 1 + 1 = heap[Current].ip + 2
  BY <1>2, GoesOn, TopBlock
<1>5. MovedTo(heap, [Taken(1) EXCEPT ![Current].ip = heap[Current].ip + 2],
              Current, heap[Current].ip + 2, Popped(Operands, 1))
  BY <1>3, <1>4, PlaceIs
<1>6. Ends([Taken(1) EXCEPT ![Current].ip = heap[Current].ip + 2], blocks, frames, Result)
  BY <1>1, <1>3, <1>4
<1>7. Result \in Values /\ Safe(heap, Result)
  BY <1>2, OperandsSafe, SafeTop DEF Result
<1>. QED
  BY <1>2, <1>3, <1>4, <1>5, <1>6, <1>7, WithinBlock

(***************************************************************************)
(* RAISE_VARARGS, and RETURN_VALUE of a function.                          *)
(***************************************************************************)
LEMMA StepRaise ==
  ASSUME Ready, Raise
  PROVE  MachineInv'
<1>1. /\ Executing("raise") /\ heap' = Taken(Arg) /\ blocks' = <<>> /\ ret' = None
      /\ phase' = "check" /\ shared' = shared /\ globals' = globals /\ varnames' = varnames
      /\ frames' = frames
  BY DEF Raise, statics
<1>2. /\ Fetching /\ Stepping /\ MachineInv /\ blocks # <<>> /\ Instruction.op = "raise"
      /\ Len(frames) = 1
  BY <1>1, ExecutingFetches DEF Ready, Orderly, NotEscaped
<1>3. Arg \in Nat
  BY <1>2, Fetch, TopBlock DEF Needs, Arg
<1>4. /\ MovedTo(heap, Taken(Arg), Current, heap[Current].ip + 1, Popped(Operands, Arg))
      /\ SafeStack(heap, Popped(Operands, Arg))
  BY <1>2, <1>3, TakenIs
<1>5. Good(Taken(Arg), blocks, frames, varnames, Nothing)
  BY <1>2, <1>4, Fetch, TopMoves DEF SafeStack
<1>6. Good(Taken(Arg), <<>>, frames, varnames, Nothing)
  <2>1. frames[1].base = <<>>
    BY <1>2, InvParts DEF FramesFine
  <2>2. \A k \in 1..Len(frames) : Starts(frames[k].base, <<>>)
    BY <1>2, <2>1 DEF Starts
  <2>3. Starts(<<>>, blocks) /\ <<>> \in Seq(Ids)
    BY <1>2, InvParts DEF Starts
  <2>. QED
    BY Zenon, <1>5, <2>2, <2>3, ShorterGood
<1>7. Good(Taken(Arg), <<>>, frames, varnames, None)
  BY <1>6, GoodValue, ValueFacts
<1>8. frames[Len(frames)].op = "object"
  BY <1>2, InvParts DEF FramesFine
<1>9. AtCheck(Taken(Arg), <<>>, frames, None)
  BY <1>8 DEF AtCheck, Looping
<1>. QED
  BY <1>1, <1>2, <1>7, <1>9, InvParts DEF MachineInv

(* The block below the one that returns gets a value. *)
LEMMA GivenGood ==
  ASSUME NEW h, NEW bs, NEW fs, NEW held, Good(h, bs, fs, held, Nothing), bs # <<>>,
         NEW x \in Values, Safe(h, x)
  PROVE  /\ Good(Given(h, bs, x), bs, fs, held, Nothing)
         /\ MovedTo(h, Given(h, bs, x), Last(bs), h[Last(bs)].ip, Pushed(h[Last(bs)].stack, x))
         /\ Last(bs) = bs[Len(bs)] /\ Len(bs) \in 1..Len(bs)
         /\ h[Last(bs)].stack \in Seq(Values \ {Nothing})
<1> DEFINE b == Last(bs)
           s == Pushed(h[b].stack, x)
           g == [h EXCEPT ![b].stack = s]
<1>1. HeapFine(h) /\ FramesFine(h, fs) /\ bs \in Seq(Ids) /\ AreBlocks(h, bs) /\ h \in [Ids -> Objects]
  BY DEF Good, Laid, AreBlocks, HeapFine
<1>2. Len(bs) \in 1..Len(bs) /\ b = bs[Len(bs)]
  BY <1>1 DEF Last
<1>3. b \in Ids /\ h[b].type = "block"
  BY <1>1, <1>2 DEF AreBlocks
<1>4. /\ PlacedAt(h[b], h[b].ip) /\ h[b].stack \in Seq(Values \ {Nothing}) /\ BlockSees(h, h[b])
  BY <1>1, <1>3, BlockType
<1>5. SafeStack(h, h[b].stack)
  BY <1>4 DEF SafeStack, BlockSees
<1>6. SafeStack(h, s)
  BY <1>5, SafePushed
<1>7. Given(h, bs, x) = g
  BY DEF Given
<1>. HIDE DEF b
<1>8. MovedTo(h, h, b, h[b].ip, h[b].stack)
  BY <1>1, <1>3 DEF MovedTo
<1>9. \A j \in 1..Len(h[b].stack) : \E i \in 1..Len(s) : s[i] = h[b].stack[j]
  <2>1. CASE x = Nothing
    BY <2>1 DEF Pushed
  <2>2. CASE x # Nothing
    <3>1. s = Append(h[b].stack, x)
      BY <2>2 DEF Pushed
    <3>2. \A j \in 1..Len(h[b].stack) : j \in 1..Len(s) /\ s[j] = h[b].stack[j]
      BY <1>4, <3>1
    <3>. QED
      BY <3>2
  <2>. QED
    BY <2>1, <2>2
<1>. HIDE DEF s
<1>10. MovedTo(h, g, b, h[b].ip, s)
  BY <1>6, <1>8, StackIs DEF SafeStack
<1>. HIDE DEF g
<1>11. Suits(h, fs, b, h[b].ip, s)
  <2> SUFFICES ASSUME NEW k \in 1..Len(fs), fs[k].op = "build", fs[k].block = b,
                      NEW m \in 1..Len(fs[k].arg.rest)
               PROVE  \E j \in 1..Len(s) : s[j] = fs[k].arg.rest[m]
    BY DEF Suits
  <2>1. RestThere(h, fs[k], 0)
    BY <1>1, FrameType DEF FrameFine, Waiting
  <2>2. PICK j \in 1..Len(h[b].stack) - 0 : h[b].stack[j] = fs[k].arg.rest[m]
    BY <2>1 DEF RestThere
  <2>3. j \in 1..Len(h[b].stack)
    BY <1>4, <2>2
  <2>. QED
    BY <1>9, <2>2, <2>3
<1>12. CanMove(h, bs, fs, Len(bs), h[b].ip, s)
  BY <1>2, <1>4, <1>6, <1>11 DEF CanMove, SafeStack
<1>13. Good(g, bs, fs, held, Nothing)
  BY <1>2, <1>10, <1>12, MovedGood
<1>. QED
  BY <1>2, <1>4, <1>7, <1>10, <1>13 DEF b, s

LEMMA StepReturnFromFunction ==
  ASSUME Ready, ReturnFromFunction
  PROVE  MachineInv'
<1> DEFINE below == Popped(blocks, 1)
           T == Taken(1)
           x == Result
           g == Given(T, below, x)
           v == IF below = <<>> THEN x ELSE Nothing
           f == frames[Len(frames)]
           e == frames[Len(frames) - 1]
<1>1. Executing("return") /\ Plainly /\ Ends(g, below, frames, v)
  BY DEF ReturnFromFunction
<1>2. /\ MachineInv /\ Stepping /\ blocks # <<>> /\ blocks \in Seq(Ids) /\ x \in Values /\ x # Nothing
      /\ Safe(heap, x) /\ AtStep(heap, blocks, Caller)
  BY <1>1, ReturnFacts
<1>3. /\ MovedTo(heap, T, Current, heap[Current].ip + 1, Popped(Operands, 1))
      /\ Good(T, below, frames, varnames, Nothing)
  BY <1>1, ReturnTaken
<1>4. /\ below \in Seq(Ids) /\ Len(below) = Len(blocks) - 1
      /\ \A k \in 1..Len(blocks) - 1 : below[k] = blocks[k]
  BY <1>2, PoppedIs
<1>5. /\ f = Caller /\ Len(frames) \in 1..Len(frames) /\ FramesFine(heap, frames)
      /\ f.base \in Seq(Ids) /\ f.op \in Looping
      /\ Len(blocks) \in 1..Len(blocks) /\ Current = blocks[Len(blocks)] /\ Once(blocks)
  BY <1>2, InvParts, TopBlock, FrameType DEF AtStep
<1>6. Safe(T, x)
  BY <1>2, <1>3, MovedAlike, AlikeSafe
<1>. HIDE DEF below, T, x
<1>7. below = <<>> => g = T /\ v = x
  BY DEF Given
<1>8. below # <<>> => v = Nothing
  OBVIOUS
<1>9. below # <<>> =>
        /\ Good(g, below, frames, varnames, Nothing)
        /\ MovedTo(T, g, Last(below), T[Last(below)].ip, Pushed(T[Last(below)].stack, x))
        /\ Last(below) = below[Len(below)]
        /\ T[Last(below)].stack \in Seq(Values \ {Nothing})
  BY <1>2, <1>3, <1>6, GivenGood
<1>. HIDE DEF g, v
<1>10. Good(g, below, frames, varnames, v)
  <2>1. CASE below = <<>>
    BY <1>2, <1>3, <1>6, <1>7, <2>1, GoodValue
  <2>2. CASE below # <<>>
    BY <1>8, <1>9, <2>2
  <2>. QED
    BY <2>1, <2>2
<1>11. ASSUME f.op \in {"next", "function"} => Len(f.base) + 1 # Len(blocks)
       PROVE  AtCheck(g, below, frames, v)
  <2>1. Level(T, f, below)
    BY <1>2, <1>3, <1>5, <1>11, LeaveLevel DEF below
  <2>2. AreBlocks(T, below)
    BY <1>3 DEF Good, Laid
  <2>3. Level(g, f, below)
    <3>1. CASE below = <<>>
      BY <1>7, <2>1, <3>1
    <3>2. CASE below # <<>>
      BY <1>5, <1>9, <2>1, <2>2, <3>2, MovedLevel
    <3>. QED
      BY <3>1, <3>2
  <2>. QED
    BY <1>5, <2>3 DEF AtCheck
<1>12. ASSUME f.op \in {"next", "function"}, Len(f.base) + 1 = Len(blocks)
       PROVE  AtCheck(g, below, frames, v)
  <2>1. f.op = "next" /\ Current = f.block
    BY <1>1, <1>2, <1>5, <1>12, TopIsCallee, TopLevel DEF Plainly
  <2>2. Len(below) = Len(f.base) /\ ~Occurs(f.block, below)
    <3>1. Len(below) = Len(f.base)
      BY <1>4, <1>5, <1>12
    <3>2. \A k \in 1..Len(blocks) - 1 : blocks[k] # blocks[Len(blocks)]
      <4>1. \A k \in 1..Len(blocks) - 1 : k \in 1..Len(blocks) /\ k # Len(blocks)
        BY <1>5
      <4>. QED
        BY <1>5, <4>1 DEF Once
    <3>3. \A k \in 1..Len(below) : k \in 1..Len(blocks) - 1 /\ below[k] # f.block
      BY <1>4, <1>5, <2>1, <3>2
    <3>. QED
      BY <3>1, <3>3 DEF Occurs
  <2>3. RestThere(g, e, 1)
    <3> SUFFICES ASSUME e.op = "build" PROVE RestThere(g, e, 1)
      BY DEF RestThere
    <3>1. Len(frames) # 1
      BY <1>5, <2>1 DEF FramesFine
    <3>2. Len(frames) - 1 \in 1..Len(frames) - 1 /\ Len(frames) - 1 \in 1..Len(frames)
          /\ Len(frames) - 1 + 1 = Len(frames)
      <4>1. \A n \in Nat : n \in 1..n /\ n # 1 => n - 1 \in 1..n - 1 /\ n - 1 \in 1..n /\ n - 1 + 1 = n
        OBVIOUS
      <4>. QED
        BY Zenon, <1>2, <1>5, <3>1, <4>1, InvParts
    <3>3. Above(e, f)
      BY <1>5, <3>2 DEF FramesFine
    <3>4. FrameFine(T, e) /\ Starts(f.base, below)
      BY Zenon, <1>3, <1>5, <3>2, FrameType DEF Good
    <3>5. /\ f.base = e.base /\ e.base # <<>> /\ e.block = e.base[Len(e.base)]
          /\ RestThere(T, e, 0)
      BY <3>3, <3>4 DEF Above, Asking, FrameFine, Waiting
    <3>6. Len(f.base) \in 1..Len(f.base) /\ below # <<>>
      BY <1>4, <1>5, <2>2, <3>5
    <3>7. e.block = Last(below)
      BY Zenon, <1>9, <2>2, <3>4, <3>5, <3>6 DEF Starts
    <3> DEFINE s == T[e.block].stack
    <3>8. g[e.block].stack = Append(s, x) /\ s \in Seq(Values \ {Nothing})
      BY <1>2, <1>9, <3>6, <3>7 DEF MovedTo, Pushed
    <3>9. \A k \in 1..Len(e.arg.rest) : \E j \in 1..Len(s) - 0 : s[j] = e.arg.rest[k]
      BY Zenon, <3>5 DEF RestThere
    <3>. HIDE DEF s
    <3>10. \A j \in 1..Len(s) - 0 : j \in 1..Len(Append(s, x)) - 1 /\ Append(s, x)[j] = s[j]
      BY <3>8
    <3>. QED
      BY <3>8, <3>9, <3>10 DEF RestThere
  <2>. QED
    BY <1>5, <2>1, <2>2, <2>3 DEF AtCheck
<1>. QED
  BY <1>1, <1>10, <1>11, <1>12, CheckEnds

(***************************************************************************)
(* A C call begins.                                                        *)
(***************************************************************************)
Pushes(fs, gs, f) ==
  /\ gs \in Seq(FrameRecs) /\ Len(gs) = Len(fs) + 1
  /\ gs[Len(gs)] = f
  /\ \A k \in 1..Len(fs) : gs[k] = fs[k]

LEMMA PushesIs ==
  ASSUME NEW fs \in Seq(FrameRecs), NEW f \in FrameRecs
  PROVE  Pushes(fs, Append(fs, f), f)
BY DEF Pushes

LEMMA FramePushed ==
  ASSUME NEW h, NEW bs, NEW fs, NEW held, NEW x, Good(h, bs, fs, held, x),
         NEW f, f \in FrameRecs, FrameFine(h, f), f.op # "object", Above(fs[Len(fs)], f),
         Starts(f.base, bs), \A k \in 1..Len(fs) : Starts(fs[k].base, f.base),
         Level(h, fs[Len(fs)], f.base),
         NEW gs, Pushes(fs, gs, f)
  PROVE  Good(h, bs, gs, held, x)
<1>1. FramesFine(h, fs) /\ AllRun(h, bs, fs) /\ Len(fs) \in Nat /\ Len(fs) \in 1..Len(fs)
      /\ \A k \in 1..Len(fs) : Starts(fs[k].base, bs)
  BY DEF Good, FramesFine
<1>2. /\ gs \in Seq(FrameRecs) /\ gs # <<>> /\ Len(gs) = Len(fs) + 1 /\ gs[Len(gs)] = f
      /\ \A k \in 1..Len(fs) : gs[k] = fs[k]
  BY <1>1 DEF Pushes
<1>3. \A k \in 1..Len(gs) : k \in 1..Len(fs) \/ k = Len(gs)
  BY <1>1, <1>2
<1>4. f.base \in Seq(Ids)
  BY Zenon DEF FrameRecs, CallRecs, BuildRecs
<1>5. \A k \in 1..Len(fs) : Holds(h, fs[k], f.base)
  <2> SUFFICES ASSUME NEW k \in 1..Len(fs) PROVE Level(h, fs[k], f.base)
    BY DEF Holds
  <2>1. CASE k = Len(fs)
    BY <2>1
  <2>2. CASE k # Len(fs)
    <3>1. k \in 1..Len(fs) - 1
      BY <1>1, <2>2
    <3>2. Holds(h, fs[k], fs[Len(fs)].base)
      BY <1>1, <3>1 DEF FramesFine
    <3>3. fs[k].base \in Seq(Ids) /\ fs[Len(fs)].base \in Seq(Ids)
      BY <1>1, FrameType
    <3>. QED
      BY <1>1, <1>4, <3>2, <3>3, LongerLevel DEF Holds
  <2>. QED
    BY <2>1, <2>2
<1>6. FramesFine(h, gs)
  <2>1. \A k \in 1..Len(gs) : FrameFine(h, gs[k]) /\ (gs[k].op = "object" <=> k = 1)
    <3>1. \A k \in 1..Len(fs) : FrameFine(h, fs[k]) /\ (fs[k].op = "object" <=> k = 1)
      BY <1>1 DEF FramesFine
    <3>2. Len(gs) # 1
      BY <1>1, <1>2
    <3>. QED
      BY <1>2, <1>3, <3>1, <3>2
  <2>2. \A k \in 1..Len(gs) - 1 : Above(gs[k], gs[k + 1])
    <3> SUFFICES ASSUME NEW k \in 1..Len(gs) - 1 PROVE Above(gs[k], gs[k + 1])
      OBVIOUS
    <3>1. CASE k = Len(fs)
      BY <1>1, <1>2, <3>1
    <3>2. CASE k # Len(fs)
      <4>1. k \in 1..Len(fs) - 1 /\ k \in 1..Len(fs) /\ k + 1 \in 1..Len(fs)
        BY <1>1, <1>2, <3>2
      <4>. QED
        BY <1>1, <1>2, <4>1 DEF FramesFine
    <3>. QED
      BY <3>1, <3>2
  <2>3. \A k \in 1..Len(gs) : \A j \in 1..k - 1 : Holds(h, gs[j], gs[k].base)
    <3> SUFFICES ASSUME NEW k \in 1..Len(gs), NEW j \in 1..k - 1
                 PROVE  Holds(h, gs[j], gs[k].base)
      OBVIOUS
    <3>1. j \in 1..Len(fs)
      BY <1>1, <1>2
    <3>2. CASE k = Len(gs)
      BY <1>2, <1>5, <3>1, <3>2
    <3>3. CASE k \in 1..Len(fs)
      BY <1>1, <1>2, <3>1, <3>3 DEF FramesFine
    <3>. QED
      BY <1>3, <3>2, <3>3
  <2>4. gs[1].base = <<>>
    BY <1>1, <1>2 DEF FramesFine
  <2>. QED
    BY <1>2, <2>1, <2>2, <2>3, <2>4 DEF FramesFine
<1>7. AllRun(h, bs, gs)
  <2>1. \A k \in 1..Len(fs) : k \in 1..Len(gs) /\ gs[k] = fs[k]
    BY <1>1, <1>2
  <2>. QED
    BY <1>1, <2>1 DEF AllRun
<1>8. \A k \in 1..Len(gs) : Starts(gs[k].base, bs)
  BY <1>1, <1>2, <1>3
<1>. QED
  BY <1>6, <1>7, <1>8 DEF Good

(* A C call ends. *)
Pops(fs, gs) ==
  /\ gs \in Seq(FrameRecs) /\ Len(gs) = Len(fs) - 1 /\ Len(fs) > 1
  /\ \A k \in 1..Len(gs) : gs[k] = fs[k]

LEMMA PopsIs ==
  ASSUME NEW h, NEW fs, FramesFine(h, fs), fs[Len(fs)].op # "object"
  PROVE  /\ Pops(fs, Popped(fs, 1)) /\ Len(fs) - 1 \in 1..Len(fs) /\ Len(fs) - 1 \in 1..Len(fs) - 1
         /\ Above(fs[Len(fs) - 1], fs[Len(fs)])
         /\ Popped(fs, 1)[Len(Popped(fs, 1))] = fs[Len(fs) - 1]
         /\ Holds(h, fs[Len(fs) - 1], fs[Len(fs)].base)
<1>1. fs \in Seq(FrameRecs) /\ fs # <<>> /\ Len(fs) \in Nat /\ Len(fs) \in 1..Len(fs)
  BY DEF FramesFine
<1>2. Len(fs) # 1
  BY <1>1 DEF FramesFine
<1>3. Len(fs) > 1 /\ Len(fs) - 1 \in 1..Len(fs) /\ Len(fs) - 1 \in 1..Len(fs) - 1
      /\ Len(fs) - 1 + 1 = Len(fs)
  <2>1. \A n \in Nat : n # 0 /\ n # 1 =>
          n > 1 /\ n - 1 \in 1..n /\ n - 1 \in 1..n - 1 /\ n - 1 + 1 = n
    OBVIOUS
  <2>2. Len(fs) # 0
    BY <1>1
  <2>. QED
    BY Zenon, <1>1, <1>2, <2>1, <2>2
<1>4. /\ Popped(fs, 1) \in Seq(FrameRecs) /\ Len(Popped(fs, 1)) = Len(fs) - 1
      /\ \A k \in 1..Len(fs) - 1 : Popped(fs, 1)[k] = fs[k]
  BY <1>1, <1>3 DEF Popped
<1>5. Pops(fs, Popped(fs, 1))
  BY Zenon, <1>3, <1>4 DEF Pops
<1>6. Above(fs[Len(fs) - 1], fs[Len(fs)])
  BY <1>3 DEF FramesFine
<1>7. Holds(h, fs[Len(fs) - 1], fs[Len(fs)].base)
  BY <1>1, <1>3 DEF FramesFine
<1>. QED
  BY <1>3, <1>4, <1>5, <1>6, <1>7

LEMMA FramePopped ==
  ASSUME NEW h, NEW bs, NEW fs, NEW held, NEW x, Good(h, bs, fs, held, x),
         NEW gs, Pops(fs, gs),
         fs[Len(fs)].op = "next" => ~Occurs(fs[Len(fs)].block, bs)
  PROVE  Good(h, bs, gs, held, x)
<1>1. FramesFine(h, fs) /\ AllRun(h, bs, fs) /\ Len(fs) \in Nat /\ fs \in Seq(FrameRecs)
      /\ \A k \in 1..Len(fs) : Starts(fs[k].base, bs)
  BY DEF Good, FramesFine
<1>2. /\ gs \in Seq(FrameRecs) /\ Len(gs) = Len(fs) - 1 /\ Len(gs) \in Nat /\ Len(gs) > 0
      /\ \A k \in 1..Len(gs) : k \in 1..Len(fs) /\ gs[k] = fs[k]
  BY <1>1 DEF Pops
<1>3. FramesFine(h, gs)
  <2>1. \A k \in 1..Len(gs) : FrameFine(h, gs[k]) /\ (gs[k].op = "object" <=> k = 1)
    BY <1>1, <1>2 DEF FramesFine
  <2>2. \A k \in 1..Len(gs) - 1 : Above(gs[k], gs[k + 1])
    <3> SUFFICES ASSUME NEW k \in 1..Len(gs) - 1 PROVE Above(gs[k], gs[k + 1])
      OBVIOUS
    <3>1. k \in 1..Len(fs) - 1 /\ k \in 1..Len(gs) /\ k + 1 \in 1..Len(gs)
      BY <1>1, <1>2
    <3>. QED
      BY <1>1, <1>2, <3>1 DEF FramesFine
  <2>3. \A k \in 1..Len(gs) : \A j \in 1..k - 1 : Holds(h, gs[j], gs[k].base)
    <3> SUFFICES ASSUME NEW k \in 1..Len(gs), NEW j \in 1..k - 1
                 PROVE  Holds(h, gs[j], gs[k].base)
      OBVIOUS
    <3>1. j \in 1..Len(gs)
      BY <1>2
    <3>. QED
      BY <1>1, <1>2, <3>1 DEF FramesFine
  <2>4. gs[1].base = <<>> /\ gs # <<>>
    BY <1>1, <1>2 DEF FramesFine
  <2>. QED
    BY <1>2, <2>1, <2>2, <2>3, <2>4 DEF FramesFine
<1>4. AllRun(h, bs, gs)
  <2> SUFFICES ASSUME NEW i \in Ids, IsGenerator(h, i), Occurs(h[i].tag, bs)
               PROVE  \E k \in 1..Len(gs) : gs[k].op = "next" /\ gs[k].block = h[i].tag
    BY DEF AllRun
  <2>1. PICK k \in 1..Len(fs) : fs[k].op = "next" /\ fs[k].block = h[i].tag
    BY <1>1 DEF AllRun
  <2>2. k # Len(fs)
    BY <2>1
  <2>3. k \in 1..Len(gs)
    BY <1>1, <1>2, <2>2
  <2>. QED
    BY Zenon, <1>2, <2>1, <2>3
<1>5. \A k \in 1..Len(gs) : Starts(gs[k].base, bs)
  BY <1>1, <1>2
<1>. QED
  BY <1>3, <1>4, <1>5 DEF Good

(***************************************************************************)
(* The original of a function is run, as a constructor or by map.          *)
(***************************************************************************)
LEMMA AssignedFine ==
  ASSUME NEW h, NEW held, VarsFine(h, held), NEW f \in DOMAIN Code, NEW b \in Ids,
         NEW args, SafeArgs(h, args)
  PROVE  VarsFine(h, [held EXCEPT ![f] = WithArguments(f, b, args, @)])
<1> DEFINE w == WithArguments(f, b, args, held[f])
           vs == [held EXCEPT ![f] = WithArguments(f, b, args, @)]
<1>1. SafeSlots(h, held[f]) /\ Len(held[f]) = Code[f].vars
  BY VarsAre
<1>2. SafeSlots(h, w) /\ Len(w) = Code[f].vars
  BY <1>1, WithArgumentsFine
<1>3. held \in [DOMAIN Code -> Seq(Slots)]
  BY DEF VarsFine
<1>. HIDE DEF w
<1>4. vs = [held EXCEPT ![f] = w]
  BY DEF w
<1>5. vs \in [DOMAIN Code -> Seq(Slots)] /\ vs[f] = w
      /\ \A e \in DOMAIN Code : e # f => vs[e] = held[e]
  BY <1>2, <1>3, <1>4 DEF SafeSlots
<1>. HIDE DEF vs
<1>6. \A e \in DOMAIN Code : SafeSlots(h, held[e]) /\ Len(held[e]) = Code[e].vars
  BY VarsAre
<1>7. \A e \in DOMAIN Code : SafeSlots(h, vs[e]) /\ Len(vs[e]) = Code[e].vars
  BY Zenon, <1>2, <1>5, <1>6
<1>8. vs \in [DOMAIN Code -> Seq(Slots)]
  BY <1>5
<1>9. VarsFine(h, vs)
  BY <1>7, <1>8 DEF VarsFine, SafeSlots
<1>. QED
  BY <1>9 DEF vs

Original(g, bs, f, b, args, m, t, held) ==
  /\ f \in DOMAIN Code /\ b \in Ids /\ heap[b] = Free /\ SafeArgs(heap, args)
  /\ m = [g EXCEPT ![b] = Started(f, b, args, Nothing)]
  /\ Appended(bs, b, t)
  /\ held = [varnames EXCEPT ![f] = WithArguments(f, b, args, @)]

LEMMA RunsOriginal ==
  ASSUME MachineInv, NEW g, NEW bs, Good(g, bs, frames, varnames, Nothing), Alike(heap, g),
         NEW f, NEW b, NEW args, NEW m, NEW t, NEW held, Original(g, bs, f, b, args, m, t, held)
  PROVE  /\ Good(m, t, frames, held, Nothing) /\ Same(g, m, bs) /\ m[b].type = "block"
         /\ m[b].start = 0 /\ m[b].ip \in Outside(f) /\ m[b].code = f /\ m[b].flag = "none"
<1> DEFINE r == Started(f, b, args, Nothing)
           h == [heap EXCEPT ![b] = r]
<1>0. /\ f \in DOMAIN Code /\ b \in Ids /\ heap[b] = Free /\ SafeArgs(heap, args)
      /\ m = [g EXCEPT ![b] = r] /\ Appended(bs, b, t)
      /\ held = [varnames EXCEPT ![f] = WithArguments(f, b, args, @)]
  BY DEF Original
<1>1. HeapFine(heap) /\ HeapFine(g) /\ heap \in [Ids -> Objects] /\ g \in [Ids -> Objects]
      /\ bs \in Seq(Ids) /\ Laid(g, bs)
  BY Zenon, <1>0, InvParts DEF Good, HeapFine, Laid, AreBlocks
<1>2. /\ r \in Objects /\ r.type = "block" /\ r.code = f /\ r.start = 0 /\ r.ip = 0
      /\ r.flag = "none" /\ PlacedAt(r, r.ip) /\ r.ip \in Outside(f)
      /\ \A k, s : b \in s /\ Grows(heap, k, s) /\ k[b] = r => BlockSees(k, r)
  BY <1>0, StartedIs
<1>. HIDE DEF r
<1>3. g[b] = Free
  <2>1. g[b].type = "free"
    BY <1>0 DEF Alike, Free
  <2>2. g[b] \in Objects
    BY <1>0, <1>1
  <2>. QED
    BY <1>0, <2>1, <2>2 DEF Objects, BlockRecs, SequenceRecs, IterationRecs, GeneratorRecs
<1>4. PutAt(heap, h, b, r) /\ PutAt(g, m, b, r)
  BY Zenon, <1>0, <1>1, <1>2, PutIs DEF r
<1>. HIDE DEF h
<1>5. Grows(heap, h, {b}) /\ Grows(g, m, {b})
  BY <1>0, <1>3, <1>4, PutGrows
<1>6. BlockSees(h, r)
  BY <1>0, <1>2, <1>4, <1>5 DEF PutAt
<1>7. HeapFine(h)
  BY <1>0, <1>1, <1>2, <1>4, <1>5, <1>6, PutGrows, GrowsFine
<1>8. Alike(h, m)
  BY <1>0, <1>4 DEF Alike, PutAt
<1>9. BlockSees(m, r)
  BY <1>0, <1>6, <1>7, <1>8, AlikeSees
<1>10. NewFine(m, {b})
  BY Zenon, <1>0, <1>2, <1>3, <1>4, <1>9, PutGrows
<1>11. Good(m, bs, frames, varnames, Nothing) /\ Same(g, m, bs)
  BY <1>0, <1>5, <1>10, GrowsGood
<1>12. SafeArgs(m, args)
  <2>1. \A v : Safe(heap, v) => Safe(m, v)
    BY <1>0, <1>5, AlikeSafe, GrowsSafe
  <2>. QED
    BY Zenon, <1>0, <2>1 DEF SafeArgs
<1>13. Good(m, bs, frames, held, Nothing)
  <2>1. VarsFine(m, varnames)
    BY <1>0, <1>11 DEF Good
  <2>2. VarsFine(m, held)
    BY Zenon, <1>0, <1>12, <2>1, AssignedFine
  <2>. QED
    BY <1>0, <1>11, <2>2, GoodVars
<1>14. /\ t \in Seq(Ids) /\ Starts(bs, t) /\ Len(t) = Len(bs) + 1 /\ t[Len(bs) + 1] = b
       /\ Len(bs) \in Nat
  BY <1>0, <1>1 DEF Appended
<1>15. \A k \in Len(bs) + 1 .. Len(t) : k = Len(bs) + 1 /\ t[k] = b
  BY <1>0, <1>14
<1>16. m[b] = r
  BY <1>0, <1>4 DEF PutAt
<1>17. ~Occurs(b, bs)
  BY <1>0, <1>1, <1>3, FreshApart DEF Laid
<1>18. Laying(m, bs, t)
  BY <1>0, <1>2, <1>14, <1>15, <1>16, <1>17 DEF Laying
<1>19. Owned(m, bs, frames, t)
  <2>1. \A i \in {b} : m[i].type = "block"
    BY <1>2, <1>16
  <2>2. \A k \in Len(bs) + 1 .. Len(t) : t[k] \in {b}
    BY <1>15
  <2>. QED
    BY <1>1, <1>5, <2>1, <2>2, FreshOwned
<1>. QED
  BY <1>0, <1>2, <1>11, <1>13, <1>16, <1>18, <1>19, LongerGood

(* A class or a module returns: what lies below gets the instance. *)
LEMMA GivenBelow ==
  ASSUME Ready, Executing("return"), NEW n \in Nat, NEW x \in Values, Safe(heap, x),
         Caller.op \in {"next", "function"} => Len(Caller.base) + 1 # Len(blocks),
         NEW g, g = Given(Taken(n), Popped(blocks, 1), x)
  PROVE  /\ Good(g, Popped(blocks, 1), frames, varnames, Nothing)
         /\ Alike(heap, g) /\ Level(g, Caller, Popped(blocks, 1))
<1> DEFINE below == Popped(blocks, 1)
           T == Taken(n)
<1>1. /\ MachineInv /\ Stepping
  BY ReturnFacts
<1>2. /\ MovedTo(heap, T, Current, heap[Current].ip + 1, Popped(Operands, n))
      /\ Good(T, below, frames, varnames, Nothing)
  BY ReturnTaken
<1>3. Alike(heap, T) /\ Safe(T, x)
  BY <1>2, MovedAlike, AlikeSafe
<1>4. Level(T, Caller, below)
  BY <1>1, <1>2, LeaveLevel
<1>5. Caller.base \in Seq(Ids)
  BY <1>1, InvParts, FrameType
<1>6. AreBlocks(T, below)
  BY <1>2 DEF Good, Laid
<1>. HIDE DEF below, T
<1>7. CASE below = <<>>
  <2>1. g = T
    BY <1>7 DEF Given, below, T
  <2>. QED
    BY <1>2, <1>3, <1>4, <2>1 DEF below
<1>8. CASE below # <<>>
  <2>1. /\ Good(g, below, frames, varnames, Nothing)
        /\ MovedTo(T, g, Last(below), T[Last(below)].ip, Pushed(T[Last(below)].stack, x))
    BY <1>2, <1>3, <1>8, GivenGood DEF below, T
  <2>2. Alike(T, g)
    BY <2>1, MovedAlike
  <2>3. Alike(heap, g)
    BY <1>3, <2>2 DEF Alike
  <2>4. Level(g, Caller, below)
    BY <1>4, <1>5, <1>6, <2>1, MovedLevel
  <2>. QED
    BY <2>1, <2>3, <2>4 DEF below
<1>. QED
  BY <1>7, <1>8

LEMMA StepReturnFromClass ==
  ASSUME Ready, ReturnFromClass
  PROVE  MachineInv'
<1> DEFINE below == Popped(blocks, 1)
           init == Code[heap[Current].code].init
           g == Given(Taken(2), below, Item)
           b == Unused[1]
           args == [k \in 1..Code[init].args |-> Item]
           m == [g EXCEPT ![b] = Started(init, b, <<>>, Nothing)]
           m2 == [g EXCEPT ![b] = Started(init, b, args, Nothing)]
           t == Append(below, b)
           held == [varnames EXCEPT ![init] = WithArguments(init, b, args, @)]
           f == [Frame("method", Current, Nothing, Len(below), init) EXCEPT !.base = below]
           gs == Append(frames, f)
<1>1. Executing("return") /\ ~Exits /\ ~IsSub /\ IsRoot
  BY Zenon DEF ReturnFromClass
<1>2. /\ MachineInv /\ Stepping /\ blocks # <<>> /\ blocks \in Seq(Ids) /\ heap \in [Ids -> Objects]
      /\ Caller.op \in Looping
  BY <1>1, ReturnFacts DEF AtStep
<1>3. Caller.op \in {"next", "function"} => Len(Caller.base) + 1 # Len(blocks)
  BY <1>1, <1>2, TopIsCallee DEF IsRoot
<1>4. /\ Good(g, below, frames, varnames, Nothing) /\ Alike(heap, g) /\ Level(g, Caller, below)
  BY <1>1, <1>3, GivenBelow, ValueFacts
<1>5. below \in Seq(Ids) /\ Len(below) \in Nat /\ Current \in Ids /\ heap[Current].code \in DOMAIN Code
  BY <1>2, PoppedIs, TopBlock
<1>6. Caller = frames[Len(frames)] /\ Len(frames) \in 1..Len(frames) /\ frames \in Seq(FrameRecs)
      /\ shared \subseteq DOMAIN Code /\ globals \subseteq Modules
  BY <1>2, InvParts
<1>. HIDE DEF g, below
<1>7. CASE init = ""
  <2>1. Ends(g, below, frames, Nothing)
    BY Zenon, <1>7 DEF ReturnFromClass, g, below
  <2>2. AtCheck(g, below, frames, Nothing)
    BY <1>2, <1>4, <1>6 DEF AtCheck
  <2>. QED
    BY <1>4, <2>1, <2>2, CheckEnds
<1>8. CASE init # ""
  <2>1. /\ Available(1) /\ heap' = m /\ Assigns(init, b, args, Nothing)
        /\ blocks' = t /\ frames' = gs /\ phase' = "step" /\ ret' = Nothing
    BY Zenon, <1>8 DEF ReturnFromClass, g, below
  <2>2. b \in Ids /\ heap[b] = Free
    BY <2>1, UnusedIs
  <2>3. init \in DOMAIN Code
    BY Zenon, <1>5, <1>8, CodeFine
  <2>4. SafeArgs(heap, args)
    <3>1. Code[init].args \in Nat
      BY Zenon, <2>3, CodeFine
    <3>2. \A n \in Nat : LET s == [k \in 1..n |-> Item]
                        IN  /\ s \in Seq(Values \ {Nothing})
                            /\ \A k \in 1..Len(s) : s[k] = Item
      BY ValueFacts
    <3>3. args \in Seq(Values \ {Nothing}) /\ \A k \in 1..Len(args) : args[k] = Item
      BY Zenon, <3>1, <3>2
    <3>4. SafeStack(heap, args)
      BY Zenon, <3>3, ValueFacts DEF SafeStack
    <3>. QED
      BY <3>4, ArgsSafe
  <2>5. m = m2
    BY DEF Started
  <2>6. varnames' = held /\ shared' = shared /\ globals' = globals
    BY <2>1 DEF Assigns
  <2>7. Appended(below, b, t)
    BY <1>5, <2>2, AppendedIs
  <2>. HIDE DEF b, args, t, held, m, init
  <2>8. /\ Good(m2, t, frames, held, Nothing) /\ Same(g, m2, below)
    <3>1. Original(g, below, init, b, args, m2, t, held)
      BY <2>2, <2>3, <2>4, <2>7 DEF Original, held
    <3>. HIDE DEF m2
    <3>. QED
      BY <1>2, <1>4, <3>1, RunsOriginal
  <2>. HIDE DEF m2
  <2>9. /\ f.op = "method" /\ f.block = Current /\ f.iter = Nothing /\ f.arg = Len(below)
        /\ f.name = init /\ f.base = below
    BY DEF Frame
  <2>10. f \in FrameRecs
    BY Zenon, <1>5, <2>3 DEF Frame, FrameRecs, CallRecs, Waiting, Looping
  <2>. HIDE DEF f
  <2>11. FrameFine(m2, f)
    BY <2>9 DEF FrameFine, Waiting
  <2>12. Above(frames[Len(frames)], f)
    BY <1>2, <1>6, <2>9 DEF Above, Looping, Asking
  <2>13. Starts(below, t) /\ t \in Seq(Ids) /\ Len(t) = Len(below) + 1
    BY <2>7 DEF Appended
  <2>14. \A k \in 1..Len(frames) : Starts(frames[k].base, below)
    BY <1>4 DEF Good
  <2>15. Level(m2, frames[Len(frames)], below)
    <3>1. frames[Len(frames)].base \in Seq(Ids)
      BY <1>2, <1>6, InvParts, FrameType
    <3>. QED
      BY <1>4, <1>5, <1>6, <2>8, <3>1, SameLevel
  <2>16. Pushes(frames, gs, f)
    BY <1>6, <2>10, PushesIs
  <2>. HIDE DEF gs
  <2>17. Good(m2, t, gs, held, Nothing)
    BY <2>8, <2>9, <2>10, <2>11, <2>12, <2>13, <2>14, <2>15, <2>16, FramePushed
  <2>18. AtStep(m2, t, f)
    BY <1>5, <2>9, <2>13 DEF AtStep, Level, Looping
  <2>19. gs[Len(gs)] = f /\ gs # <<>>
    BY <1>6, <2>16 DEF Pushes
  <2>20. Caller' = f
    BY <2>1, <2>19 DEF Caller, Last
  <2>. QED
    BY <1>6, <2>1, <2>5, <2>6, <2>17, <2>18, <2>20 DEF MachineInv
<1>. QED
  BY Zenon, <1>7, <1>8

(***************************************************************************)
(* An instruction waits for an iterator.                                   *)
(***************************************************************************)
AsksFrom(g, f) ==
  /\ f \in FrameRecs /\ f.op \in Waiting /\ f.block = Current /\ f.base = blocks
  /\ f.iter \in Ids /\ Safe(heap, f.iter)
  /\ AtForIter(g, f) /\ RestThere(g, f, 0)
  /\ f.op = "map" => f.name \in DOMAIN Code /\ Kind(f.name) = "function"

LEMMA WaitsFine ==
  ASSUME Ready, Stepping, NEW g, NEW p, NEW s, MovedTo(heap, g, Current, p, s),
         SafeStack(heap, s), PlacedAt(heap[Current], p),
         heap[Current].start = 0 => p \in Outside(heap[Current].code),
         NEW f, AsksFrom(g, f), Waits(g, Append(frames, f))
  PROVE  MachineInv'
<1> DEFINE gs == Append(frames, f)
<1>1. /\ heap' = g /\ frames' = gs /\ phase' = "next" /\ ret' = Nothing
      /\ blocks' = blocks /\ shared' = shared /\ globals' = globals /\ varnames' = varnames
  BY DEF Waits, statics
<1>2. /\ MachineInv /\ blocks # <<>> /\ blocks \in Seq(Ids) /\ Len(blocks) \in Nat
      /\ Caller = frames[Len(frames)]
      /\ Len(frames) \in 1..Len(frames) /\ frames \in Seq(FrameRecs)
      /\ shared \subseteq DOMAIN Code /\ globals \subseteq Modules
  BY InvParts DEF Stepping
<1>3. Good(g, blocks, frames, varnames, Nothing)
  BY TopMoves DEF SafeStack
<1>4. AtStep(g, blocks, Caller)
  BY TopStays
<1>5. FrameFine(g, f)
  <2>1. Safe(g, f.iter)
    BY MovedAlike, AlikeSafe DEF AsksFrom
  <2>2. Current = blocks[Len(blocks)]
    BY <1>2, TopBlock
  <2>. QED
    BY <1>2, <2>1, <2>2 DEF FrameFine, AsksFrom, Waiting
<1>6. f.op # "object" /\ Above(frames[Len(frames)], f)
  BY <1>2, <1>4 DEF Above, AtStep, AsksFrom, Looping, Waiting, Asking
<1>7. Starts(f.base, blocks)
  BY <1>2 DEF AsksFrom, Starts
<1>8. \A k \in 1..Len(frames) : Starts(frames[k].base, f.base)
  BY <1>3 DEF Good, AsksFrom
<1>9. Level(g, frames[Len(frames)], f.base)
  BY <1>2, <1>4 DEF AtStep, AsksFrom
<1>10. f \in FrameRecs /\ Pushes(frames, gs, f)
  BY <1>2, PushesIs DEF AsksFrom
<1>. HIDE DEF gs
<1>11. Good(g, blocks, gs, varnames, Nothing)
  BY <1>3, <1>5, <1>6, <1>7, <1>8, <1>9, <1>10, FramePushed
<1>12. Caller' = f
  BY <1>1, <1>2, <1>10 DEF Caller, Last, Pushes
<1>13. AtNext(blocks, f)
  BY DEF AtNext, AsksFrom
<1>. QED
  BY <1>1, <1>2, <1>11, <1>12, <1>13 DEF MachineInv

LEMMA StepForIter ==
  ASSUME Ready, ForIter
  PROVE  MachineInv'
<1> DEFINE f == Frame("for_iter", Current, stack_Top(Operands), Arg, "")
           r == heap[Current]
<1>1. /\ Executing("for_iter")
      /\ stack_Top(Operands) \in Ids => Waits(Fetched, Append(frames, f))
      /\ stack_Top(Operands) \notin Ids => Ends(Fetched, blocks, frames, Nothing)
  BY Zenon DEF ForIter
<1>2. Fetching /\ Stepping /\ MachineInv /\ blocks # <<>> /\ Instruction.op = "for_iter"
      /\ r.ip \in Nat /\ r.ip < r.len
  BY Zenon, <1>1, ExecutingFetches DEF Fetching
<1>3. /\ Instruction = At(r.code, r.ip) /\ r.ip \in Places(r.code) /\ Arg \in Nat
  BY <1>2, Fetch DEF Supplied, Arg
<1>4. r.ip + 1 \in GoesTo(r.code, r.ip)
  BY <1>2, GoesOn
<1>5. PlacedAt(r, r.ip + 1) /\ (r.start = 0 => r.ip + 1 \in Outside(r.code))
  BY <1>2, <1>4, Fetch
<1>6. MovedTo(heap, Fetched, Current, r.ip + 1, Operands) /\ SafeStack(heap, Operands)
  BY <1>2, FetchedIs, OperandsSafe
<1>7. CASE stack_Top(Operands) \notin Ids
  BY Zenon, <1>1, <1>2, <1>4, <1>6, <1>7, WithinBlock, ValueFacts
<1>8. CASE stack_Top(Operands) \in Ids
  <2>1. /\ f.op = "for_iter" /\ f.block = Current /\ f.iter = stack_Top(Operands)
        /\ f.arg = Arg /\ f.base = blocks
    BY DEF Frame
  <2>2. blocks \in Seq(Ids) /\ Current \in Ids
    BY <1>2, InvParts, TopBlock
  <2>3. f \in FrameRecs
    BY Zenon, <1>3, <1>8, <2>2 DEF Frame, FrameRecs, CallRecs, Waiting
  <2>. HIDE DEF f
  <2>4. Safe(heap, stack_Top(Operands))
    BY <1>6, SafeTop
  <2>5. /\ Fetched[Current].ip = r.ip + 1 /\ Fetched[Current].code = r.code
        /\ Fetched[Current].start = r.start /\ Fetched[Current].len = r.len
    BY <1>6 DEF MovedTo
  <2>6. r.ip + 1 - 1 = r.ip
    BY <1>2
  <2>7. PlacedAt(r, r.ip) /\ r.code \in DOMAIN Code
    BY <1>2, TopBlock
  <2>8. r.start = 0 => r.ip \in Outside(r.code)
    BY <1>2, <2>7, Placing
  <2>9. AtForIter(Fetched, f)
    BY <1>2, <1>3, <2>1, <2>5, <2>6, <2>7, <2>8 DEF AtForIter, PlacedAt, Arg
  <2>10. AsksFrom(Fetched, f)
    BY <1>8, <2>1, <2>3, <2>4, <2>9 DEF AsksFrom, Waiting, RestThere
  <2>. QED
    BY <1>1, <1>2, <1>5, <1>6, <1>8, <2>10, WaitsFine
<1>. QED
  BY <1>7, <1>8

(* The operands of an instruction are there. *)
LEMMA TopThere ==
  ASSUME Fetching, Needs(Instruction) > 0
  PROVE  /\ Operands # <<>> /\ stack_Top(Operands) = Operands[Len(Operands)]
         /\ Safe(heap, stack_Top(Operands)) /\ stack_Top(Operands) \in Values
<1>1. Needs(Instruction) \in 0..Len(Operands)
  BY Fetch
<1>2. MachineInv /\ blocks # <<>>
  BY DEF Fetching, Stepping
<1>3. Operands # <<>>
  BY <1>1, <1>2, TopBlock
<1>. QED
  BY <1>2, <1>3, OperandsSafe, SafeTop

LEMMA StepMap ==
  ASSUME Ready, Map
  PROVE  MachineInv'
<1> DEFINE r == heap[Current]
           x == stack_Top(Operands)
<1>1. PICK e \in Arg : Waits(Taken(3), Append(frames, Frame("map", Current, x, 0, e)))
  BY DEF Map
<1>2. Executing("map")
  BY DEF Map
<1>3. Fetching /\ Stepping /\ MachineInv /\ blocks # <<>> /\ Instruction.op = "map"
      /\ r.ip \in Nat /\ r.ip < r.len
  BY <1>2, ExecutingFetches DEF Fetching
<1>4. /\ Instruction = At(r.code, r.ip) /\ Supplied(r.code, r.ip)
      /\ Needs(Instruction) = 3
  BY <1>3, Fetch DEF Needs
<1>5. e \in DOMAIN Code /\ Kind(e) = "function"
      /\ Code[r.code].shape[r.ip + 1][Len(Code[r.code].shape[r.ip + 1])] = "iter"
  BY <1>3, <1>4 DEF Supplied, Arg
<1>6. x \in Ids /\ Safe(heap, x)
  <2> DEFINE s == Code[r.code].shape[r.ip + 1]
             kinds == [k \in DOMAIN r.stack |-> KindOf(r.stack[k])]
  <2>1. kinds = s
    BY <1>3 DEF Ready, Orderly, StackShape, Stepping, Fetching
  <2>2. Operands \in Seq(Values \ {Nothing}) /\ Operands = r.stack /\ Len(Operands) \in Nat
    BY <1>3, TopBlock
  <2>3. Operands # <<>> /\ x = Operands[Len(Operands)] /\ Safe(heap, x)
    BY <1>3, <1>4, TopThere
  <2>4. s \in Seq({"iter", "value"})
    BY <1>4 DEF Supplied
  <2>5. DOMAIN kinds = 1..Len(Operands) /\ DOMAIN s = 1..Len(s) /\ Len(s) \in Nat
    <3>1. \A u \in Seq({"iter", "value"}) : DOMAIN u = 1..Len(u) /\ Len(u) \in Nat
      OBVIOUS
    <3>2. DOMAIN r.stack = 1..Len(Operands)
      BY <2>2
    <3>3. DOMAIN kinds = DOMAIN r.stack
      OBVIOUS
    <3>. HIDE DEF s, kinds
    <3>. QED
      BY <2>4, <3>1, <3>2, <3>3
  <2>6. Len(s) = Len(Operands)
    BY <2>1, <2>2, <2>5
  <2>7. Len(Operands) \in DOMAIN r.stack
    BY <2>2, <2>3
  <2>8. kinds[Len(Operands)] = KindOf(x)
    BY <2>2, <2>3, <2>7
  <2>9. KindOf(x) = "iter"
    BY <1>5, <2>1, <2>6, <2>8
  <2>. QED
    BY <2>3, <2>9 DEF KindOf
<1>. HIDE DEF x
<1>7. /\ MovedTo(heap, Taken(3), Current, r.ip + 1, Popped(Operands, 3))
      /\ SafeStack(heap, Popped(Operands, 3)) /\ PlacedAt(r, r.ip + 1)
      /\ r.start = 0 => r.ip + 1 \in Outside(r.code)
  BY <1>3, TakenOn
<1> DEFINE f == Frame("map", Current, x, 0, e)
<1>8. /\ f.op = "map" /\ f.block = Current /\ f.iter = x /\ f.name = e /\ f.base = blocks
  BY DEF Frame
<1>9. blocks \in Seq(Ids) /\ Current \in Ids
  BY <1>3, InvParts, TopBlock
<1>10. f \in FrameRecs
  BY Zenon, <1>5, <1>6, <1>9 DEF Frame, FrameRecs, CallRecs, Waiting
<1>. HIDE DEF f
<1>11. AsksFrom(Taken(3), f)
  BY <1>5, <1>6, <1>8, <1>10 DEF AsksFrom, Waiting, RestThere, AtForIter
<1>12. Waits(Taken(3), Append(frames, f))
  BY <1>1 DEF f
<1>. QED
  BY <1>3, <1>7, <1>11, <1>12, WaitsFine

LEMMA StepAsk ==
  ASSUME Ready, Ask
  PROVE  MachineInv'
<1> DEFINE r == heap[Current]
           x == stack_Top(Operands)
           f == Frame("ask", Current, x, 0, "")
<1>1. Executing("ask") /\ x \in Ids /\ Waits(Taken(2), Append(frames, f))
  BY Zenon DEF Ask
<1>2. Fetching /\ Stepping /\ MachineInv /\ blocks # <<>> /\ Instruction.op = "ask"
  BY Zenon, <1>1, ExecutingFetches
<1>3. Safe(heap, x)
  BY <1>2, TopThere DEF Needs
<1>. HIDE DEF x
<1>4. /\ MovedTo(heap, Taken(2), Current, r.ip + 1, Popped(Operands, 2))
      /\ SafeStack(heap, Popped(Operands, 2)) /\ PlacedAt(r, r.ip + 1)
      /\ r.start = 0 => r.ip + 1 \in Outside(r.code)
  BY <1>2, TakenOn
<1>5. /\ f.op = "ask" /\ f.block = Current /\ f.iter = x /\ f.base = blocks
  BY DEF Frame
<1>6. blocks \in Seq(Ids) /\ Current \in Ids
  BY <1>2, InvParts, TopBlock
<1>7. f \in FrameRecs
  BY Zenon, <1>1, <1>6 DEF Frame, FrameRecs, CallRecs, Waiting
<1>. HIDE DEF f
<1>8. AsksFrom(Taken(2), f)
  BY <1>1, <1>3, <1>5, <1>7 DEF AsksFrom, Waiting, RestThere, AtForIter
<1>. QED
  BY <1>1, <1>2, <1>4, <1>8, WaitsFine

(***************************************************************************)
(* The iterators among the operands.                                       *)
(***************************************************************************)
LEMMA IteratorsAre ==
  ASSUME NEW h, NEW s, SafeStack(h, s)
  PROVE  /\ Iterators(s) \in Seq(Ids)
         /\ \A k \in 1..Len(Iterators(s)) :
              /\ \E j \in 1..Len(s) : s[j] = Iterators(s)[k]
              /\ Safe(h, Iterators(s)[k])
         /\ Len(Iterators(s)) <= Len(s)
<1> DEFINE S == {k \in DOMAIN s : s[k] \in Ids}
           places == Ascending(S)
           t == [n \in DOMAIN places |-> s[places[n]]]
<1>1. s \in Seq(Values \ {Nothing}) /\ Len(s) \in Nat /\ DOMAIN s = 1..Len(s)
      /\ \A k \in 1..Len(s) : Safe(h, s[k])
  BY DEF SafeStack
<1>2. S \in SUBSET (1..Len(s)) /\ \A k \in S : s[k] \in Ids
  BY <1>1
<1>. HIDE DEF S
<1>3. IsFiniteSet(S) /\ Cardinality(S) <= Len(s)
  <2>1. IsFiniteSet(1..Len(s)) /\ Cardinality(1..Len(s)) = Len(s)
    <3>1. \A n \in Nat : IsFiniteSet(1..n) /\ Cardinality(1..n) = n
      BY FS_Interval
    <3>. QED
      BY <1>1, <3>1
  <2>. QED
    BY Zenon, <1>2, <2>1, FS_Subset
<1>4. \A x \in S : x \in Int
  BY <1>1, <1>2
<1>5. /\ Cardinality(S) \in Nat /\ DOMAIN places = 1..Cardinality(S)
      /\ \A n \in 1..Cardinality(S) : places[n] \in S
  BY <1>3, <1>4, AscendingType
<1>. HIDE DEF places
<1>6. \A n \in 1..Cardinality(S) : t[n] = s[places[n]] /\ t[n] \in Ids /\ places[n] \in 1..Len(s)
  BY Zenon, <1>2, <1>5
<1>7. t \in Seq(Ids) /\ Len(t) = Cardinality(S)
  <2>1. t = [n \in 1..Cardinality(S) |-> s[places[n]]]
    BY <1>5
  <2>. HIDE DEF t
  <2>2. DOMAIN t = 1..Cardinality(S)
    BY <2>1
  <2>3. t = [n \in 1..Cardinality(S) |-> t[n]]
    BY <2>1, <2>2
  <2>4. t \in [1..Cardinality(S) -> Ids]
    BY <1>6, <2>2, <2>3
  <2>. QED
    BY <1>5, <2>4
<1>8. Iterators(s) = t
  BY DEF Iterators, places, S
<1>. HIDE DEF t
<1>. QED
  BY <1>1, <1>3, <1>6, <1>7, <1>8

LEMMA HeadTailAre ==
  ASSUME NEW t \in Seq(Ids), t # <<>>
  PROVE  /\ Head(t) = t[1] /\ Head(t) \in Ids /\ Tail(t) \in Seq(Ids)
         /\ Len(Tail(t)) = Len(t) - 1 /\ Len(t) \in Nat /\ 1 \in 1..Len(t)
         /\ \A k \in 1..Len(Tail(t)) : Tail(t)[k] = t[k + 1] /\ k + 1 \in 2..Len(t)
<1>1. Len(t) \in Nat /\ 1 \in 1..Len(t)
  OBVIOUS
<1>2. Head(t) = t[1] /\ Tail(t) \in Seq(Ids) /\ Len(Tail(t)) = Len(t) - 1
  OBVIOUS
<1>3. \A k \in 1..Len(t) - 1 : Tail(t)[k] = t[k + 1]
  OBVIOUS
<1>. QED
  BY <1>1, <1>2, <1>3

LEMMA ExpandsFine ==
  ASSUME Ready, Fetching, Instruction.op \in {"build", "drain"},
         NEW g, NEW s, MovedTo(heap, g, Current, heap[Current].ip + 1, s), SafeStack(heap, s),
         NEW n \in Nat, NEW iters \in Seq(Ids),
         \A k \in 1..Len(iters) : Safe(heap, iters[k]),
         \A k \in 2..Len(iters) : \E j \in 1..Len(s) : s[j] = iters[k],
         Expands(g, n, iters)
  PROVE  MachineInv'
<1> DEFINE r == heap[Current]
<1>1. Stepping /\ MachineInv /\ blocks # <<>>
  BY DEF Fetching, Stepping
<1>2. r.ip + 1 \in GoesTo(r.code, r.ip)
  BY GoesOn
<1>3. PlacedAt(r, r.ip + 1) /\ (r.start = 0 => r.ip + 1 \in Outside(r.code))
  BY <1>2, Fetch
<1>4. CASE iters = <<>>
  <2>1. Ends(Built(g, Current, n), blocks, frames, Nothing)
    BY <1>4 DEF Expands
  <2>2. g[Current].stack = s
    BY DEF MovedTo
  <2>3. Built(g, Current, n) = [g EXCEPT ![Current].stack = Append(Popped(s, n), Item)]
    BY <2>2 DEF Built
  <2>4. SafeStack(heap, Append(Popped(s, n), Item))
    BY SafePopped, SafeAppend, ValueFacts
  <2>. HIDE DEF r
  <2>. QED
    BY Zenon, <2>1, <2>3, <2>4, OnlyValues
<1>5. CASE iters # <<>>
  <2> DEFINE rest == Tail(iters)
             f == Frame("build", Current, Head(iters), [takes |-> n, rest |-> rest], "")
  <2>1. Waits(g, Append(frames, f))
    BY Zenon, <1>5 DEF Expands
  <2>2. /\ Head(iters) = iters[1] /\ Head(iters) \in Ids /\ rest \in Seq(Ids)
        /\ 1 \in 1..Len(iters)
        /\ \A k \in 1..Len(rest) : rest[k] = iters[k + 1] /\ k + 1 \in 2..Len(iters)
    BY <1>5, HeadTailAre
  <2>. HIDE DEF rest
  <2>3. /\ f.op = "build" /\ f.block = Current /\ f.iter = Head(iters) /\ f.base = blocks
        /\ f.arg.rest = rest
    BY DEF Frame
  <2>4. blocks \in Seq(Ids) /\ Current \in Ids
    BY <1>1, InvParts, TopBlock
  <2>5. f \in FrameRecs
    BY Zenon, <2>2, <2>4 DEF Frame, FrameRecs, BuildRecs, Rests
  <2>. HIDE DEF f
  <2>6. RestThere(g, f, 0)
    <3>1. g[f.block].stack = s /\ Len(s) \in Nat
      BY <2>3 DEF MovedTo, SafeStack
    <3>2. Len(s) - 0 = Len(s)
      BY <3>1
    <3>3. \A k \in 1..Len(rest) : \E j \in 1..Len(s) : s[j] = rest[k]
      BY <2>2
    <3>. QED
      BY <2>3, <3>1, <3>2, <3>3 DEF RestThere
  <2>7. Safe(heap, Head(iters))
    BY <2>2
  <2>8. AsksFrom(g, f)
    BY <2>2, <2>3, <2>5, <2>6, <2>7 DEF AsksFrom, Waiting, AtForIter
  <2>. QED
    BY <1>1, <1>3, <2>1, <2>8, WaitsFine
<1>. QED
  BY <1>4, <1>5

LEMMA StepBuild ==
  ASSUME Ready, Build
  PROVE  MachineInv'
<1> DEFINE u == Uppermost(Arg)
           iters == Iterators(u)
<1>1. Executing("build") /\ Expands(Fetched, Arg, iters)
  BY DEF Build
<1>2. Fetching /\ MachineInv /\ blocks # <<>> /\ Instruction.op = "build"
  BY <1>1, ExecutingFetches
<1>3. Arg \in 0..Len(Operands) /\ Arg \in Nat /\ Operands \in Seq(Values \ {Nothing})
      /\ Len(Operands) \in Nat
  <2>1. Arg \in 0..Len(Operands)
    BY <1>2, Fetch DEF Needs, Arg
  <2>. QED
    BY <1>2, <2>1, TopBlock
<1>4. SafeStack(heap, u) /\ Len(u) = Arg
  BY <1>2, <1>3, UppermostSafe
<1>5. \A j \in 1..Len(u) : \E i \in 1..Len(Operands) : Operands[i] = u[j]
  <2>1. \A j \in 1..Arg : /\ Len(Operands) - Arg + j \in 1..Len(Operands)
                          /\ Uppermost(Arg)[j] = Operands[Len(Operands) - Arg + j]
    BY <1>3 DEF Uppermost
  <2>. QED
    BY Zenon, <1>4, <2>1
<1>. HIDE DEF u
<1>6. /\ iters \in Seq(Ids)
      /\ \A k \in 1..Len(iters) : /\ \E j \in 1..Len(u) : u[j] = iters[k]
                                  /\ Safe(heap, iters[k])
  BY <1>4, IteratorsAre
<1>. HIDE DEF iters
<1>7. \A k \in 2..Len(iters) : \E j \in 1..Len(Operands) : Operands[j] = iters[k]
  <2>1. \A k \in 2..Len(iters) : k \in 1..Len(iters)
    BY <1>6
  <2>. QED
    BY <1>5, <1>6, <2>1
<1>8. MovedTo(heap, Fetched, Current, heap[Current].ip + 1, Operands) /\ SafeStack(heap, Operands)
  BY <1>2, FetchedIs, OperandsSafe
<1>. QED
  BY <1>1, <1>2, <1>3, <1>6, <1>7, <1>8, ExpandsFine

LEMMA StepDrain ==
  ASSUME Ready, Drain
  PROVE  MachineInv'
<1> DEFINE u == Uppermost(1)
           iters == Iterators(u)
           s == Popped(Operands, 2)
<1>1. Executing("drain") /\ Expands(Taken(2), 0, iters)
  BY DEF Drain
<1>2. Fetching /\ MachineInv /\ blocks # <<>> /\ Instruction.op = "drain"
  BY <1>1, ExecutingFetches
<1>3. 1 \in 0..Len(Operands)
  BY <1>2, Fetch, TopBlock DEF Needs
<1>4. SafeStack(heap, u) /\ Len(u) = 1
  BY Zenon, <1>2, <1>3, UppermostSafe
<1>. HIDE DEF u
<1>5. /\ iters \in Seq(Ids) /\ Len(iters) <= 1
      /\ \A k \in 1..Len(iters) : Safe(heap, iters[k])
  BY Zenon, <1>4, IteratorsAre
<1>. HIDE DEF iters
<1>6. \A k \in 2..Len(iters) : \E j \in 1..Len(s) : s[j] = iters[k]
  BY <1>5
<1>7. MovedTo(heap, Taken(2), Current, heap[Current].ip + 1, s) /\ SafeStack(heap, s)
  BY <1>2, TakenIs
<1>. HIDE DEF s
<1>. QED
  BY <1>1, <1>2, <1>5, <1>6, <1>7, ExpandsFine

(***************************************************************************)
(* An iterator gave what an instruction asked for.                         *)
(***************************************************************************)
GotFrom(e, f) ==
  /\ f = Caller /\ f = frames[Len(frames)] /\ Len(frames) \in 1..Len(frames)
  /\ f \in FrameRecs /\ f.op \in Waiting /\ FrameFine(heap, f)
  /\ e = frames[Len(frames) - 1] /\ e.op \in Looping /\ e.base \in Seq(Ids)
  /\ Popped(frames, 1)[Len(Popped(frames, 1))] = e /\ Pops(frames, Popped(frames, 1))
  /\ f.base \in Seq(Ids) /\ Len(f.base) \in 1..Len(f.base) /\ Len(f.base) \in 1..Len(blocks)
  /\ blocks[Len(f.base)] = f.block /\ f.block \in Ids /\ heap[f.block].type = "block"
  /\ Starts(f.base, blocks) /\ Level(heap, e, f.base)
  /\ f.op \in Asking => blocks = f.base

LEMMA GotFacts ==
  ASSUME MachineInv, phase = "got"
  PROVE  GotFrom(frames[Len(frames) - 1], Caller)
<1> DEFINE f == Caller
           e == frames[Len(frames) - 1]
<1>1. AtNext(blocks, f) /\ f.op \in Waiting /\ (f.op \in Asking => blocks = f.base)
  BY DEF MachineInv, AtNext
<1>2. /\ f = frames[Len(frames)] /\ Len(frames) \in 1..Len(frames) /\ FramesFine(heap, frames)
      /\ frames \in Seq(FrameRecs)
      /\ blocks \in Seq(Ids) /\ AreBlocks(heap, blocks) /\ Len(blocks) \in Nat
      /\ \A k \in 1..Len(frames) : Starts(frames[k].base, blocks)
  BY InvParts
<1>. HIDE DEF f
<1>3. f \in FrameRecs /\ f.base \in Seq(Ids) /\ FrameFine(heap, f)
  BY <1>2, FrameType
<1>4. /\ Pops(frames, Popped(frames, 1)) /\ Len(frames) - 1 \in 1..Len(frames)
      /\ Above(e, f) /\ Popped(frames, 1)[Len(Popped(frames, 1))] = e
      /\ Holds(heap, e, f.base)
  <2>1. f.op # "object"
    BY <1>1 DEF Waiting
  <2>. QED
    BY <1>2, <2>1, PopsIs
<1>5. e.base \in Seq(Ids) /\ e.op \in Looping
  <2>1. e.base \in Seq(Ids) /\ e.op \in Waiting \cup Looping
    BY <1>2, <1>4, FrameType
  <2>2. e.op \notin Waiting
    BY <1>1, <1>4 DEF Above, Waiting, Asking
  <2>. QED
    BY <2>1, <2>2
<1>6. f.base # <<>> /\ f.block = f.base[Len(f.base)]
  BY <1>1, <1>3 DEF FrameFine
<1>7. Len(f.base) \in 1..Len(f.base) /\ Starts(f.base, blocks)
  BY <1>2, <1>3, <1>6
<1>8. Len(f.base) \in 1..Len(blocks) /\ blocks[Len(f.base)] = f.block
  BY <1>2, <1>3, <1>6, <1>7 DEF Starts
<1>9. f.block \in Ids /\ heap[f.block].type = "block"
  BY <1>2, <1>8 DEF AreBlocks
<1>. QED
  BY <1>1, <1>2, <1>3, <1>4, <1>5, <1>7, <1>8, <1>9 DEF GotFrom, Holds, f

(* The C call is over: its block has a value more or less. *)
LEMMA CallOver ==
  ASSUME Ready, phase = "got", NEW g, NEW q, NEW t, MovedTo(heap, g, Caller.block, q, t),
         SafeStack(heap, t), PlacedAt(heap[Caller.block], q),
         \/ q = heap[Caller.block].ip
         \/ /\ Caller.op \in Asking
            /\ heap[Caller.block].start = 0 => q \in Outside(heap[Caller.block].code),
         Ends(g, blocks, Popped(frames, 1), Nothing)
  PROVE  MachineInv'
<1> DEFINE f == Caller
           e == frames[Len(frames) - 1]
           gs == Popped(frames, 1)
           n == Len(f.base)
<1>1. MachineInv /\ GotFrom(e, f)
  BY GotFacts DEF Ready
<1>2. /\ f = frames[Len(frames)] /\ Len(frames) \in 1..Len(frames) /\ f.op \in Waiting
      /\ e.op \in Looping /\ e.base \in Seq(Ids) /\ gs[Len(gs)] = e /\ Pops(frames, gs)
      /\ f.base \in Seq(Ids) /\ n \in 1..Len(f.base) /\ n \in 1..Len(blocks) /\ blocks[n] = f.block
      /\ f.block \in Ids /\ Starts(f.base, blocks) /\ Level(heap, e, f.base)
      /\ f.op \in Asking => blocks = f.base
  BY <1>1 DEF GotFrom
<1>3. /\ Good(heap, blocks, frames, varnames, ret) /\ blocks \in Seq(Ids) /\ Once(blocks)
      /\ FramesFine(heap, frames) /\ AreBlocks(heap, blocks) /\ HeapFine(heap)
  BY <1>1, InvParts
<1>. HIDE DEF gs, f, e, n
<1>4. Good(heap, blocks, gs, varnames, Nothing)
  <2>1. f.op # "next"
    BY <1>2 DEF Waiting
  <2>2. Good(heap, blocks, gs, varnames, ret)
    BY <1>2, <1>3, <2>1, FramePopped
  <2>. QED
    BY <2>2, GoodValue, ValueFacts
<1>5. \A k \in 1..Len(gs) : /\ k \in 1..Len(frames) - 1 /\ k \in 1..Len(frames) /\ gs[k] = frames[k]
                            /\ gs[k].base \in Seq(Ids) /\ Holds(heap, gs[k], f.base)
  <2>1. frames \in Seq(FrameRecs) /\ Len(frames) \in Nat
    BY <1>3 DEF FramesFine
  <2>2. \A k \in 1..Len(gs) : k \in 1..Len(frames) - 1 /\ k \in 1..Len(frames) /\ gs[k] = frames[k]
    BY <1>2, <2>1 DEF Pops
  <2>3. \A k \in 1..Len(frames) - 1 : Holds(heap, frames[k], f.base)
    BY Zenon, <1>2, <1>3 DEF FramesFine
  <2>. QED
    BY <1>3, <2>2, <2>3, FrameType
<1>6. \A k \in 1..Len(gs) : gs[k].op \in Waiting => gs[k].block # f.block
  <2> SUFFICES ASSUME NEW k \in 1..Len(gs), gs[k].op \in Waiting, gs[k].block = f.block
               PROVE  FALSE
    OBVIOUS
  <2>1. gs[k].base # <<>> /\ gs[k].block = gs[k].base[Len(gs[k].base)] /\ gs[k].base \in Seq(Ids)
    BY <1>3, <1>5, FrameType DEF FrameFine
  <2>2. Len(gs[k].base) \in 1..Len(gs[k].base)
    BY <2>1
  <2>3. Starts(gs[k].base, f.base)
    BY <1>5 DEF Holds
  <2>4. Len(gs[k].base) \in 1..Len(blocks) /\ blocks[Len(gs[k].base)] = f.block
    <3> DEFINE j == Len(gs[k].base)
    <3>1. j \in 1..j /\ j <= Len(f.base) /\ gs[k].base[j] = f.base[j]
      BY Zenon, <2>2, <2>3 DEF Starts
    <3>2. Len(f.base) <= Len(blocks) /\ Len(f.base) \in Nat /\ Len(blocks) \in Nat
          /\ \A m \in 1..Len(f.base) : blocks[m] = f.base[m]
      BY <1>2, <1>3 DEF Starts
    <3>3. j \in 1..Len(f.base) /\ j \in 1..Len(blocks)
      <4>. HIDE DEF j
      <4>. QED
        BY <3>1, <3>2
    <3>. QED
      BY <2>1, <3>1, <3>2, <3>3
  <2>5. Len(gs[k].base) = n
    BY <1>2, <1>3, <2>4 DEF Once
  <2>6. k # Len(gs)
    BY <1>2 DEF Waiting, Looping
  <2>7. k \in 1..Len(gs) - 1 /\ k + 1 \in 1..Len(gs)
    BY <1>2, <2>6 DEF Pops
  <2>8. gs[k + 1].op \in {"next", "function"} /\ Starts(gs[k].base, gs[k + 1].base)
    <3>1. FramesFine(heap, gs)
      BY <1>4 DEF Good
    <3>2. Above(gs[k], gs[k + 1])
      BY <2>7, <3>1 DEF FramesFine
    <3>3. k \in 1..(k + 1) - 1
      BY <2>7
    <3>4. Holds(heap, gs[k], gs[k + 1].base)
      BY <2>7, <3>1, <3>3 DEF FramesFine
    <3>. QED
      BY <3>2, <3>4 DEF Above, Asking, Waiting, Holds
  <2>9. Len(gs[k + 1].base) < n
    BY <1>5, <2>7, <2>8 DEF Holds, Level, n
  <2>10. Len(gs[k + 1].base) \in Nat /\ Len(gs[k].base) \in Nat /\ n \in Nat
    <3>1. \A u \in Seq(Ids) : Len(u) \in Nat
      OBVIOUS
    <3>. QED
      BY Zenon, <1>2, <1>5, <2>7, <3>1 DEF n
  <2>. QED
    BY <2>5, <2>8, <2>9, <2>10 DEF Starts
<1>7. Suits(heap, gs, f.block, q, t)
  BY <1>6 DEF Suits
<1>8. CanMove(heap, blocks, gs, n, q, t)
  BY <1>2, <1>7 DEF CanMove, SafeStack, f, n
<1>9. Good(g, blocks, gs, varnames, Nothing)
  BY <1>2, <1>4, <1>8, MovedGood DEF f
<1>10. Level(g, e, blocks)
  <2>1. Level(heap, e, blocks)
    BY <1>2, <1>3, LongerLevel
  <2>. QED
    BY <1>2, <1>3, <2>1, MovedLevel DEF f
<1>11. AtCheck(g, blocks, gs, Nothing)
  BY <1>2, <1>10 DEF AtCheck
<1>. QED
  BY <1>9, <1>11, CheckEnds DEF gs

(* The block that waits, as it is. *)
LEMMA WaitingBlock ==
  ASSUME Ready, phase = "got"
  PROVE  LET b == Caller.block
         IN  /\ MovedTo(heap, heap, b, heap[b].ip, heap[b].stack) /\ b \in Ids
             /\ SafeStack(heap, heap[b].stack) /\ PlacedAt(heap[b], heap[b].ip)
             /\ heap[b].ip \in Nat /\ heap[b].code \in DOMAIN Code
             /\ ret \in Values /\ Safe(heap, ret)
<1> DEFINE b == Caller.block
<1>1. MachineInv /\ b \in Ids /\ heap[b].type = "block"
  BY GotFacts DEF Ready, GotFrom
<1>2. HeapFine(heap) /\ heap \in [Ids -> Objects] /\ ret \in Values /\ Safe(heap, ret)
  BY <1>1, InvParts DEF HeapFine
<1>. HIDE DEF b
<1>3. /\ PlacedAt(heap[b], heap[b].ip) /\ BlockSees(heap, heap[b])
      /\ heap[b].ip \in Nat /\ heap[b].code \in DOMAIN Code
      /\ heap[b].stack \in Seq(Values \ {Nothing})
  BY <1>1, <1>2, BlockType
<1>4. MovedTo(heap, heap, b, heap[b].ip, heap[b].stack)
  BY <1>1, <1>2 DEF MovedTo
<1>5. SafeStack(heap, heap[b].stack)
  BY <1>3 DEF SafeStack, BlockSees
<1>. QED
  BY <1>1, <1>2, <1>3, <1>4, <1>5 DEF b

LEMMA ValueGiven ==
  ASSUME Ready, phase = "got",
         Ends([heap EXCEPT ![Caller.block].stack = Pushed(@, ret)],
              blocks, Popped(frames, 1), Nothing)
  PROVE  MachineInv'
<1> DEFINE b == Caller.block
           t == Pushed(heap[b].stack, ret)
<1>1. /\ MovedTo(heap, heap, b, heap[b].ip, heap[b].stack) /\ PlacedAt(heap[b], heap[b].ip)
      /\ SafeStack(heap, t)
  BY WaitingBlock, SafePushed
<1>2. Ends([heap EXCEPT ![b].stack = t], blocks, Popped(frames, 1), Nothing)
  OBVIOUS
<1>. HIDE DEF t
<1>3. MovedTo(heap, [heap EXCEPT ![b].stack = t], b, heap[b].ip, t)
  BY Zenon, <1>1, StackIs DEF SafeStack
<1>. QED
  BY <1>1, <1>2, <1>3, CallOver

LEMMA StepAnswered ==
  ASSUME Ready, Answered
  PROVE  MachineInv'
BY ValueGiven DEF Answered

LEMMA StepForIterNext ==
  ASSUME Ready, ForIterNext
  PROVE  MachineInv'
BY ValueGiven DEF ForIterNext

LEMMA StepMapEnd ==
  ASSUME Ready, MapEnd
  PROVE  MachineInv'
<1> DEFINE b == Caller.block
           t == Append(heap[b].stack, Item)
<1>1. phase = "got" /\ Ends([heap EXCEPT ![b].stack = t], blocks, Popped(frames, 1), Nothing)
  BY DEF MapEnd
<1>2. /\ MovedTo(heap, heap, b, heap[b].ip, heap[b].stack) /\ PlacedAt(heap[b], heap[b].ip)
      /\ SafeStack(heap, t)
  BY <1>1, WaitingBlock, SafeAppend, ValueFacts
<1>. HIDE DEF t
<1>3. MovedTo(heap, [heap EXCEPT ![b].stack = t], b, heap[b].ip, t)
  BY <1>2, StackIs DEF SafeStack
<1>. QED
  BY <1>1, <1>2, <1>3, CallOver

LEMMA StepForIterEnd ==
  ASSUME Ready, ForIterEnd
  PROVE  MachineInv'
<1> DEFINE b == Caller.block
           r == heap[b]
           t == Popped(r.stack, 1)
           q == r.ip + Caller.arg
           p == r.ip - 1
           g == [[heap EXCEPT ![b].stack = t] EXCEPT ![b].ip = q]
           r0 == [r EXCEPT !.ip = p]
<1>1. /\ phase = "got" /\ Caller.op = "for_iter"
      /\ Ends([heap EXCEPT ![b].stack = Popped(@, 1), ![b].ip = @ + Caller.arg],
              blocks, Popped(frames, 1), Nothing)
  BY DEF ForIterEnd
<1>2. /\ MovedTo(heap, heap, b, r.ip, r.stack) /\ PlacedAt(r, r.ip) /\ b \in Ids
      /\ SafeStack(heap, t) /\ r.ip \in Nat /\ r.code \in DOMAIN Code
  BY <1>1, WaitingBlock, SafePopped
<1>3. MachineInv /\ FrameFine(heap, Caller) /\ Caller \in FrameRecs
  BY <1>1, GotFacts DEF Ready, GotFrom
<1>4. /\ p \in Places(r.code) /\ r.start <= p /\ p < r.len
      /\ r.start = 0 => p \in Outside(r.code)
      /\ At(r.code, p).op = "for_iter" /\ At(r.code, p).arg = Caller.arg
  BY <1>1, <1>3 DEF FrameFine, AtForIter, Waiting
<1>5. Caller.arg \in Nat
  BY Zenon, <1>1, <1>3 DEF FrameRecs, CallRecs, BuildRecs
<1>6. heap[b] \in BlockRecs /\ r.start \in Nat /\ r.len \in Nat
  BY <1>2, <1>3, InvParts, BlockType DEF MovedTo
<1>7. /\ r0.code = r.code /\ r0.ip = p /\ r0.start = r.start /\ r0.len = r.len
  BY <1>6 DEF BlockRecs
<1>8. p \in Nat /\ p <= r.len
  <2>1. p \in 0..End(r.code) - 1 /\ End(r.code) \in Nat
    BY Zenon, <1>2, <1>4, CodeFine
  <2>. QED
    BY <1>4, <1>6, <2>1
<1>. HIDE DEF r0
<1>9. PlacedAt(r0, r0.ip)
  BY <1>2, <1>4, <1>7, <1>8 DEF PlacedAt
<1>10. q \in GoesTo(r.code, p)
  <2>1. q = p + 1 + Caller.arg
    BY <1>2, <1>5
  <2>. QED
    BY <1>4, <2>1 DEF GoesTo
<1>11. PlacedAt(r0, q) /\ (r0.start = 0 => q \in Outside(r0.code))
  <2>1. /\ r0.code \in DOMAIN Code /\ r0.ip \in Nat /\ r0.ip < r0.len
        /\ At(r0.code, r0.ip).op \notin {"return", "raise"} /\ q \in GoesTo(r0.code, r0.ip)
    BY <1>2, <1>4, <1>7, <1>8, <1>10
  <2>. QED
    BY <1>9, <2>1, Placing
<1>12. PlacedAt(r, q) /\ (r.start = 0 => q \in Outside(r.code)) /\ q \in Nat
  BY <1>2, <1>5, <1>7, <1>11 DEF PlacedAt
<1>13. [heap EXCEPT ![b].stack = Popped(@, 1), ![b].ip = @ + Caller.arg] = g
  <2>1. heap \in [Ids -> Objects] /\ heap[b] \in BlockRecs
    BY <1>3, <1>6, InvParts DEF HeapFine
  <2>. QED
    BY <1>2, <2>1 DEF BlockRecs
<1>. HIDE DEF t, q
<1>14. MovedTo(heap, [heap EXCEPT ![b].stack = t], b, r.ip, t)
  BY <1>2, StackIs DEF SafeStack
<1>15. MovedTo(heap, g, b, q, t)
  BY Zenon, <1>12, <1>14, PlaceIs
<1>. HIDE DEF g
<1>. QED
  BY Zenon, <1>1, <1>2, <1>12, <1>13, <1>15, CallOver DEF Asking

(***************************************************************************)
(* What BUILD_TUPLE does with it, and the call that map makes.             *)
(***************************************************************************)
LEMMA StepBuildNext ==
  ASSUME Ready, BuildNext
  PROVE  MachineInv'
<1>1. /\ phase = "got" /\ heap' = heap /\ frames' = frames /\ phase' = "next" /\ ret' = Nothing
      /\ blocks' = blocks /\ shared' = shared /\ globals' = globals /\ varnames' = varnames
  BY DEF BuildNext, Waits, statics
<1>2. MachineInv /\ AtNext(blocks, Caller)
  BY <1>1 DEF Ready, MachineInv
<1>3. Good(heap, blocks, frames, varnames, Nothing)
  BY <1>2, InvParts, GoodValue, ValueFacts
<1>4. Caller' = Caller
  BY <1>1 DEF Caller
<1>. QED
  BY <1>1, <1>2, <1>3, <1>4, InvParts DEF MachineInv

(* BUILD_TUPLE asks the next of its iterators. *)
LEMMA StepBuildEnd ==
  ASSUME Ready, BuildEnd
  PROVE  MachineInv'
<1> DEFINE f == Caller
           b == f.block
           e == frames[Len(frames) - 1]
           gs == Popped(frames, 1)
           more == f.arg.rest
<1>1. /\ phase = "got" /\ f.op = "build"
      /\ more = <<>> => Ends(Built(heap, b, f.arg.takes), blocks, gs, Nothing)
      /\ more # <<>> => Waits(heap, [frames EXCEPT ![Len(frames)].iter = Head(more),
                                                   ![Len(frames)].arg.rest = Tail(more)])
  BY DEF BuildEnd
<1>2. MachineInv /\ GotFrom(e, f)
  BY <1>1, GotFacts DEF Ready
<1>3. /\ f = frames[Len(frames)] /\ Len(frames) \in 1..Len(frames) /\ f \in FrameRecs
      /\ e.op \in Looping /\ e.base \in Seq(Ids) /\ gs[Len(gs)] = e /\ Pops(frames, gs)
      /\ f.base \in Seq(Ids) /\ Starts(f.base, blocks) /\ Level(heap, e, f.base)
      /\ b \in Ids /\ blocks = f.base /\ FrameFine(heap, f)
  BY <1>1, <1>2 DEF GotFrom, Asking
<1>4. /\ MovedTo(heap, heap, b, heap[b].ip, heap[b].stack) /\ PlacedAt(heap[b], heap[b].ip)
      /\ SafeStack(heap, heap[b].stack)
  BY <1>1, WaitingBlock
<1>5. /\ f \in BuildRecs /\ f.arg \in Rests /\ f.arg.takes \in Nat /\ more \in Seq(Ids)
  BY Zenon, <1>1, <1>3 DEF FrameRecs, CallRecs, BuildRecs, Rests
<1>6. frames \in Seq(FrameRecs) /\ FramesFine(heap, frames)
      /\ Good(heap, blocks, frames, varnames, ret)
      /\ shared \subseteq DOMAIN Code /\ globals \subseteq Modules
  BY <1>2, InvParts
<1>7. CASE more = <<>>
  <2> DEFINE t == Append(Popped(heap[b].stack, f.arg.takes), Item)
  <2>1. SafeStack(heap, t)
    BY <1>4, <1>5, SafePopped, SafeAppend, ValueFacts
  <2>2. Ends([heap EXCEPT ![b].stack = t], blocks, Popped(frames, 1), Nothing)
    BY <1>1, <1>7 DEF Built
  <2>. HIDE DEF t
  <2>3. MovedTo(heap, [heap EXCEPT ![b].stack = t], b, heap[b].ip, t)
    BY <1>4, <2>1, StackIs DEF SafeStack
  <2>. QED
    BY <1>1, <1>4, <2>1, <2>2, <2>3, CallOver
<1>8. CASE more # <<>>
  <2> DEFINE d == [[f EXCEPT !.iter = Head(more)] EXCEPT !.arg.rest = Tail(more)]
             hs == [frames EXCEPT ![Len(frames)].iter = Head(more),
                                  ![Len(frames)].arg.rest = Tail(more)]
  <2>1. /\ heap' = heap /\ frames' = hs /\ phase' = "next" /\ ret' = Nothing
        /\ blocks' = blocks /\ shared' = shared /\ globals' = globals /\ varnames' = varnames
    BY <1>1, <1>8 DEF Waits, statics
  <2>2. /\ Head(more) = more[1] /\ Head(more) \in Ids /\ Tail(more) \in Seq(Ids)
        /\ 1 \in 1..Len(more)
        /\ \A k \in 1..Len(Tail(more)) : Tail(more)[k] = more[k + 1] /\ k + 1 \in 1..Len(more)
    <3>1. \A k \in 2..Len(more) : k \in 1..Len(more)
      BY <1>5
    <3>. QED
      BY <1>5, <1>8, <3>1, HeadTailAre
  <2>3. /\ d.op = "build" /\ d.block = b /\ d.base = f.base /\ d.iter = Head(more)
        /\ d.arg.rest = Tail(more) /\ d \in FrameRecs
    BY Zenon, <1>1, <1>5, <2>2 DEF FrameRecs, BuildRecs, Rests
  <2>4. hs = [frames EXCEPT ![Len(frames)] = d]
    BY Zenon, <1>3, <1>6
  <2>. HIDE DEF d, hs
  <2>5. /\ hs \in Seq(FrameRecs) /\ Len(hs) = Len(frames) /\ hs[Len(hs)] = d
        /\ \A k \in 1..Len(frames) - 1 : hs[k] = frames[k]
    BY <1>3, <1>6, <2>3, <2>4
  <2>6. Pushes(gs, hs, d)
    <3>1. Len(gs) = Len(frames) - 1 /\ \A k \in 1..Len(gs) : gs[k] = frames[k]
      BY <1>3 DEF Pops
    <3>. HIDE DEF gs
    <3>2. Len(frames) \in Nat
      BY <1>6
    <3>. QED
      BY <2>5, <3>1, <3>2 DEF Pushes
  <2>7. Good(heap, blocks, gs, varnames, Nothing)
    <3>1. Good(heap, blocks, gs, varnames, ret)
      BY <1>1, <1>3, <1>6, FramePopped
    <3>. QED
      BY <3>1, GoodValue, ValueFacts
  <2>8. /\ RestThere(heap, f, 0) /\ f.base # <<>> /\ b = f.base[Len(f.base)]
    BY <1>1, <1>3 DEF FrameFine, Waiting
  <2> DEFINE u == heap[b].stack
  <2>9. Len(u) \in Nat /\ Len(u) - 0 = Len(u)
    BY <1>4 DEF SafeStack
  <2>10. \A k \in 1..Len(more) : \E j \in 1..Len(u) : u[j] = more[k]
    BY <1>1, <2>8, <2>9 DEF RestThere
  <2>11. Safe(heap, Head(more))
    BY <1>4, <2>2, <2>10 DEF SafeStack
  <2>12. FrameFine(heap, d)
    <3>1. RestThere(heap, d, 0)
      <4>1. \A k \in 1..Len(Tail(more)) : \E j \in 1..Len(u) : u[j] = Tail(more)[k]
        BY <2>2, <2>10
      <4>. QED
        BY <2>3, <2>9, <4>1 DEF RestThere
    <3>. QED
      BY <2>2, <2>3, <2>8, <2>11, <3>1 DEF FrameFine, Waiting, AtForIter
  <2>13. Above(gs[Len(gs)], d)
    <3>1. e.op \in Looping /\ d.op \in Waiting
      BY <1>3, <2>3 DEF Waiting
    <3>. QED
      BY <1>3, <3>1 DEF Above, Looping, Asking
  <2>14. \A k \in 1..Len(gs) : Starts(gs[k].base, d.base)
    BY <1>3, <2>3, <2>7 DEF Good
  <2>15. Level(heap, gs[Len(gs)], d.base)
    BY <1>3, <2>3
  <2>. HIDE DEF gs
  <2>16. Good(heap, blocks, hs, varnames, Nothing)
    BY <1>3, <2>3, <2>6, <2>7, <2>12, <2>13, <2>14, <2>15, FramePushed
  <2>17. Caller' = d
    BY <2>1, <2>5 DEF Caller, Last
  <2>18. AtNext(blocks, d)
    BY <1>3, <2>3 DEF AtNext, Waiting
  <2>. QED
    BY <1>6, <2>1, <2>16, <2>17, <2>18 DEF MachineInv
<1>. QED
  BY <1>7, <1>8

LEMMA StepMapCall ==
  ASSUME Ready, MapCall
  PROVE  MachineInv'
<1> DEFINE c == Caller
           e == frames[Len(frames) - 1]
           f == c.name
           b == Unused[1]
           args == <<ret>>
           m == [heap EXCEPT ![b] = Started(f, b, args, Nothing)]
           t == Append(blocks, b)
           held == [varnames EXCEPT ![f] = WithArguments(f, b, args, @)]
           d == Frame("function", Nothing, Nothing, Len(blocks) + 1, f)
           gs == Append(frames, d)
<1>1. phase = "got" /\ c.op = "map" /\ Runs(f, Len(blocks) + 1)
  BY DEF MapCall
<1>2. MachineInv /\ GotFrom(e, c)
  BY <1>1, GotFacts DEF Ready
<1>3. /\ c = frames[Len(frames)] /\ Len(frames) \in 1..Len(frames) /\ FrameFine(heap, c)
      /\ c.base \in Seq(Ids) /\ Starts(c.base, blocks)
  BY <1>2 DEF GotFrom
<1>4. f \in DOMAIN Code /\ Kind(f) = "function"
  BY <1>1, <1>3 DEF FrameFine
<1>5. /\ Available(1) /\ heap' = m /\ blocks' = t /\ frames' = gs /\ phase' = "step"
      /\ ret' = Nothing /\ Assigns(f, b, args, Nothing)
  BY <1>1, <1>4 DEF Runs
<1>6. /\ frames \in Seq(FrameRecs) /\ FramesFine(heap, frames) /\ blocks \in Seq(Ids)
      /\ Len(blocks) \in Nat
      /\ Good(heap, blocks, frames, varnames, ret) /\ ret \in Values /\ Safe(heap, ret)
      /\ shared \subseteq DOMAIN Code /\ globals \subseteq Modules
  BY <1>2, InvParts
<1>7. b \in Ids /\ heap[b] = Free
  BY <1>5, UnusedIs
<1>8. varnames' = held /\ shared' = shared /\ globals' = globals
  BY <1>5 DEF Assigns
<1>9. SafeArgs(heap, args)
  BY <1>6 DEF SafeArgs
<1>10. Appended(blocks, b, t)
  BY <1>6, <1>7, AppendedIs
<1>. HIDE DEF c, b, args, t, held, m
<1>11. Original(heap, blocks, f, b, args, m, t, held)
  BY <1>4, <1>7, <1>9, <1>10 DEF Original, m, held
<1>12. /\ Good(m, t, frames, held, Nothing) /\ Same(heap, m, blocks)
       /\ m[b].start = 0 /\ m[b].ip \in Outside(f) /\ m[b].code = f /\ m[b].flag = "none"
  <2>1. Alike(heap, heap)
    BY DEF Alike
  <2>2. Good(heap, blocks, frames, varnames, Nothing)
    BY <1>6, GoodValue, ValueFacts
  <2>. HIDE DEF f
  <2>. QED
    BY <1>2, <1>11, <2>1, <2>2, RunsOriginal
<1>13. /\ d.op = "function" /\ d.arg = Len(blocks) + 1 /\ d.base = blocks
  BY DEF Frame
<1>14. d \in FrameRecs
  <2>1. d \in [op : {"function"}, block : {Nothing}, iter : {Nothing}, arg : Nat,
               name : DOMAIN Code, base : Seq(Ids)]
    BY <1>4, <1>6 DEF Frame
  <2>. HIDE DEF d
  <2>. QED
    BY Zenon, <2>1 DEF FrameRecs, CallRecs, Waiting, Looping
<1>. HIDE DEF d
<1>15. FrameFine(m, d) /\ d.op # "object"
  BY <1>13 DEF FrameFine, Waiting
<1>16. Above(frames[Len(frames)], d)
  BY <1>1, <1>3, <1>13 DEF Above, Asking, Looping
<1>17. Starts(blocks, t) /\ t \in Seq(Ids) /\ Len(t) = Len(blocks) + 1 /\ t[Len(blocks) + 1] = b
  BY <1>10 DEF Appended
<1>18. \A k \in 1..Len(frames) : Starts(frames[k].base, blocks)
  BY <1>6 DEF Good
<1>19. Level(m, frames[Len(frames)], blocks)
  BY <1>1, <1>3 DEF Level
<1>20. Pushes(frames, gs, d)
  BY <1>6, <1>14, PushesIs
<1>. HIDE DEF gs
<1>21. Good(m, t, gs, held, Nothing)
  BY <1>12, <1>13, <1>14, <1>15, <1>16, <1>17, <1>18, <1>19, <1>20, FramePushed
<1>22. AtStep(m, t, d)
  BY <1>4, <1>6, <1>12, <1>13, <1>17 DEF AtStep, Level, Looping
<1>23. gs[Len(gs)] = d /\ gs # <<>>
  BY <1>3, <1>6, <1>20 DEF Pushes
<1>24. Caller' = d
  BY <1>5, <1>23 DEF Caller, Last
<1>. QED
  BY <1>5, <1>6, <1>8, <1>21, <1>22, <1>24 DEF MachineInv

(***************************************************************************)
(* An iterator is asked.                                                   *)
(***************************************************************************)
LEMMA NextFacts ==
  ASSUME MachineInv, phase = "next"
  PROVE  /\ Caller.op \in Waiting /\ (Caller.op \in Asking => blocks = Caller.base)
         /\ Asked \in Ids /\ heap[Asked].type \in {"sequence", "iteration", "generator"}
         /\ Caller = frames[Len(frames)] /\ Len(frames) \in 1..Len(frames)
         /\ heap[Asked] \in SequenceRecs \cup IterationRecs \cup GeneratorRecs /\ Fine(heap, heap[Asked])
<1>1. Caller.op \in Waiting /\ (Caller.op \in Asking => blocks = Caller.base)
  BY DEF MachineInv, AtNext
<1>2. Caller = frames[Len(frames)] /\ Len(frames) \in 1..Len(frames)
      /\ FramesFine(heap, frames) /\ HeapFine(heap)
  BY InvParts
<1>3. FrameFine(heap, Caller)
  BY <1>2, FrameType
<1>4. Asked \in Ids /\ heap[Asked].type \in {"sequence", "iteration", "generator"}
  BY <1>1, <1>3 DEF FrameFine, Asked, Safe
<1>5. heap[Asked] \in Objects /\ Fine(heap, heap[Asked])
  BY <1>2, <1>4 DEF HeapFine
<1>6. heap[Asked] \in SequenceRecs \cup IterationRecs \cup GeneratorRecs
  BY <1>4, <1>5 DEF Objects, BlockRecs, Free
<1>. QED
  BY <1>1, <1>2, <1>4, <1>5, <1>6

LEMMA AnswerAfter ==
  ASSUME MachineInv, phase = "next", NEW g, Good(g, blocks, frames, varnames, ret),
         NEW x \in Values \ Ids, UNCHANGED <<shared, globals, varnames>>,
         GivesAfter(g, blocks, frames, x)
  PROVE  MachineInv'
<1>1. /\ heap' = g /\ blocks' = blocks /\ frames' = frames /\ ret' = x /\ phase' = "got"
      /\ shared' = shared /\ globals' = globals /\ varnames' = varnames
  BY DEF GivesAfter
<1>2. Good(g, blocks, frames, varnames, x)
  BY GoodValue DEF Safe
<1>3. AtNext(blocks, Caller) /\ Caller' = Caller
  BY <1>1 DEF MachineInv, Caller
<1>. QED
  BY <1>1, <1>2, <1>3, InvParts DEF MachineInv

LEMMA AnswerFine ==
  ASSUME MachineInv, phase = "next", NEW g, Good(g, blocks, frames, varnames, ret),
         NEW x \in Values \ Ids, Gives(g, blocks, frames, x)
  PROVE  MachineInv'
<1>1. UNCHANGED <<shared, globals, varnames>> /\ GivesAfter(g, blocks, frames, x)
  BY DEF Gives, statics
<1>. QED
  BY <1>1, AnswerAfter

LEMMA StepNextOfTuple ==
  ASSUME Ready, NextOfTuple
  PROVE  MachineInv'
<1>1. /\ phase = "next" /\ UNCHANGED <<shared, globals, varnames>>
      /\ \E x \in {Item, None} : GivesAfter(heap, blocks, frames, x)
  BY DEF NextOfTuple
<1>2. MachineInv /\ Good(heap, blocks, frames, varnames, ret)
  BY InvParts DEF Ready
<1>. QED
  BY <1>1, <1>2, AnswerAfter, ValueFacts

LEMMA StepNextOfSequence ==
  ASSUME Ready, NextOfSequence
  PROVE  MachineInv'
<1> DEFINE a == Asked
           s == heap[a]
<1>1. /\ phase = "next" /\ s.type = "sequence"
      /\ s.pos < s.len => Gives([heap EXCEPT ![a].pos = @ + 1], blocks, frames, Item)
      /\ ~(s.pos < s.len) => Gives([heap EXCEPT ![a].pos = 0], blocks, frames, None)
  BY DEF NextOfSequence
<1>2. MachineInv
  BY DEF Ready
<1>3. a \in Ids /\ s \in SequenceRecs /\ s.pos <= s.len
  BY <1>1, <1>2, NextFacts DEF Fine, IterationRecs, GeneratorRecs
<1>4. HeapFine(heap) /\ heap \in [Ids -> Objects] /\ Good(heap, blocks, frames, varnames, ret)
  BY <1>2, InvParts DEF HeapFine
<1>. HIDE DEF a
<1>5. ASSUME NEW p \in Nat, p <= s.len
      PROVE  Good([heap EXCEPT ![a].pos = p], blocks, frames, varnames, ret)
  <2> DEFINE g == [heap EXCEPT ![a].pos = p]
             r == [s EXCEPT !.pos = p]
  <2>1. g = [heap EXCEPT ![a] = r]
    OBVIOUS
  <2>2. r \in SequenceRecs /\ r.pos = p /\ r.len = s.len /\ r.type = "sequence"
    BY <1>3 DEF SequenceRecs, IterationRecs
  <2>. HIDE DEF r, g
  <2>3. r \in Objects
    BY <2>2 DEF Objects
  <2>4. g \in [Ids -> Objects] /\ g[a] = r /\ \A i \in Ids \ {a} : g[i] = heap[i]
    BY <1>3, <1>4, <2>1, <2>3
  <2>5. Alike(heap, g) /\ Settled(heap, g)
    BY <1>1, <1>3, <2>2, <2>4 DEF Alike, Settled
  <2>6. \A i \in Ids \ {a} : Fine(g, g[i])
    BY <1>4, <2>4, <2>5, AlikeFine
  <2>7. Fine(g, g[a])
    BY <1>3, <1>5, <2>2, <2>4 DEF Fine
  <2>8. HeapFine(g)
    BY <2>4, <2>6, <2>7 DEF HeapFine
  <2>. QED
    BY <1>4, <2>5, <2>8, SettledGood DEF g
<1>6. CASE s.pos < s.len
  <2>1. Gives([heap EXCEPT ![a].pos = s.pos + 1], blocks, frames, Item)
    BY <1>1, <1>6 DEF a
  <2>2. s.pos + 1 \in Nat /\ s.pos + 1 <= s.len
    BY <1>3, <1>6 DEF SequenceRecs, IterationRecs
  <2>3. Good([heap EXCEPT ![a].pos = s.pos + 1], blocks, frames, varnames, ret)
    BY <1>5, <2>2
  <2>. QED
    BY <1>1, <1>2, <2>1, <2>3, AnswerFine, ValueFacts
<1>7. CASE ~(s.pos < s.len)
  <2>1. Gives([heap EXCEPT ![a].pos = 0], blocks, frames, None)
    BY <1>1, <1>7 DEF a
  <2>2. 0 <= s.len
    BY <1>3 DEF SequenceRecs, IterationRecs
  <2>3. Good([heap EXCEPT ![a].pos = 0], blocks, frames, varnames, ret)
    BY <1>5, <2>2
  <2>. QED
    BY <1>1, <1>2, <2>1, <2>3, AnswerFine, ValueFacts
<1>. QED
  BY <1>6, <1>7

(***************************************************************************)
(* The block of a generator that sleeps.                                   *)
(***************************************************************************)
LEMMA MovedAside ==
  ASSUME NEW h, NEW bs, NEW fs, NEW held, NEW x, Good(h, bs, fs, held, x),
         NEW g, NEW b, NEW p, NEW s, MovedTo(h, g, b, p, s), PlacedAt(h[b], p), ~Occurs(b, bs),
         \A k \in 1..Len(s) : Safe(h, s[k]),
         \A i \in Ids : IsGenerator(h, i) => Laid(g, Asleep(h, i))
  PROVE  Good(g, bs, fs, held, x)
<1>1. /\ HeapFine(h) /\ VarsFine(h, held) /\ Laid(h, bs) /\ Apart(h, bs) /\ FramesFine(h, fs)
      /\ AllRun(h, bs, fs) /\ bs \in Seq(Ids) /\ AreBlocks(h, bs)
      /\ \A k \in 1..Len(fs) : Starts(fs[k].base, bs)
      /\ x \in Values /\ Safe(h, x)
  BY DEF Good, Laid, AreBlocks
<1>2. Alike(h, g) /\ HeapFine(g)
  BY <1>1, MovedAlike, MovedFine
<1>3. VarsFine(g, held) /\ Safe(g, x)
  BY <1>1, <1>2, AlikeVars, AlikeSafe
<1>4. \A k \in 1..Len(bs) : bs[k] # b
  BY DEF Occurs
<1>5. Laid(g, bs)
  <2>1. \A k \in 1..Len(bs) - 1 : k \in 1..Len(bs)
    BY <1>1
  <2>. QED
    BY <1>1, <1>4, <2>1, MovedLaid
<1>6. \A i : (IsGenerator(g, i) <=> IsGenerator(h, i))
             /\ (IsGenerator(h, i) => g[i] = h[i] /\ Asleep(g, i) = Asleep(h, i))
  BY MovedGenerator
<1>7. Apart(g, bs)
  BY <1>1, <1>6 DEF Apart
<1>8. AllRun(g, bs, fs)
  BY <1>1, <1>6 DEF AllRun
<1>9. \A k \in 1..Len(fs) : fs[k].base \in Seq(Ids) /\ AreBlocks(h, fs[k].base)
                            /\ \A j \in 1..Len(fs[k].base) : fs[k].base[j] # b
  <2> SUFFICES ASSUME NEW k \in 1..Len(fs)
               PROVE  /\ fs[k].base \in Seq(Ids) /\ AreBlocks(h, fs[k].base)
                      /\ \A j \in 1..Len(fs[k].base) : fs[k].base[j] # b
    OBVIOUS
  <2>1. fs[k].base \in Seq(Ids) /\ Starts(fs[k].base, bs)
    BY <1>1, FrameType
  <2>2. \A j \in 1..Len(fs[k].base) : j \in 1..Len(bs) /\ fs[k].base[j] = bs[j]
    BY <1>1, <2>1 DEF Starts
  <2>. QED
    BY Zenon, <1>1, <1>4, <2>1, <2>2, PrefixBlocks
<1>10. Suits(h, fs, b, p, s)
  <2> SUFFICES ASSUME NEW k \in 1..Len(fs), fs[k].op \in Waiting, fs[k].block = b PROVE FALSE
    BY DEF Suits
  <2>1. fs[k].base # <<>> /\ fs[k].block = fs[k].base[Len(fs[k].base)]
    BY <1>1, FrameType DEF FrameFine
  <2>2. Len(fs[k].base) \in 1..Len(fs[k].base)
    BY <1>9, <2>1
  <2>. QED
    BY Zenon, <1>9, <2>1, <2>2
<1>11. FramesFine(g, fs)
  <2>1. \A k \in 1..Len(fs) : FrameFine(g, fs[k])
    BY <1>1, <1>10, MovedFrame
  <2>2. ASSUME NEW k \in 1..Len(fs), NEW j \in 1..k - 1 PROVE Holds(g, fs[j], fs[k].base)
    <3>1. Holds(h, fs[j], fs[k].base)
      BY <1>1 DEF FramesFine
    <3>2. j \in 1..Len(fs)
      BY <1>1 DEF FramesFine
    <3>3. fs[j].base \in Seq(Ids) /\ AreBlocks(h, fs[k].base)
          /\ \A m \in 1..Len(fs[k].base) : fs[k].base[m] # b
      BY <1>9, <3>2
    <3>4. Level(g, fs[j], fs[k].base)
      BY <3>1, <3>3, MovedLevel DEF Holds
    <3>. QED
      BY <3>1, <3>4 DEF Holds
  <2>. QED
    BY <1>1, <2>1, <2>2 DEF FramesFine
<1>. QED
  BY <1>1, <1>2, <1>3, <1>5, <1>7, <1>8, <1>11 DEF Good

(***************************************************************************)
(* A generator that has ended, and the blocks that one which yields saves. *)
(***************************************************************************)
LEMMA StepExhausted ==
  ASSUME Ready, Exhausted
  PROVE  MachineInv'
<1> DEFINE a == Asked
           b == heap[a].tag
           q == heap[b].start
           s == heap[b].stack
           g == [heap EXCEPT ![b].ip = q]
<1>1. /\ phase = "next" /\ heap[a].type = "generator" /\ heap[b].ip >= heap[b].len
      /\ Gives(g, blocks, frames, None)
  BY DEF Exhausted
<1>2. MachineInv
  BY DEF Ready
<1>3. a \in Ids /\ a = Caller.iter /\ IsGenerator(heap, a)
  BY <1>1, <1>2, NextFacts DEF Asked, IsGenerator
<1>. HIDE DEF a
<1>4. HeapFine(heap) /\ heap \in [Ids -> Objects] /\ Apart(heap, blocks) /\ blocks \in Seq(Ids)
      /\ Good(heap, blocks, frames, varnames, ret)
  BY <1>2, InvParts DEF HeapFine
<1>5. b \in Ids /\ IsTag(heap, b) /\ Asleep(heap, a)[1] = b
      /\ Asleep(heap, a) \in Seq(Ids) /\ Len(Asleep(heap, a)) \in 1..Len(Asleep(heap, a))
  BY <1>3, <1>4, AsleepIn
<1>6. heap[b].type = "block" /\ q = 0
  BY <1>5 DEF IsTag
<1>7. ~Occurs(b, blocks)
  <2>1. b \notin ToSet(blocks)
    BY <1>1, <1>3 DEF Ready, Orderly, NotReentered
  <2>. QED
    BY <1>4, <2>1 DEF Occurs, ToSet
<1>. HIDE DEF b
<1>8. /\ PlacedAt(heap[b], heap[b].ip) /\ heap[b].code \in DOMAIN Code /\ heap[b] \in BlockRecs
      /\ heap[b].ip \in Nat /\ heap[b].len \in Nat /\ heap[b].start \in Nat
      /\ s \in Seq(Values \ {Nothing}) /\ BlockSees(heap, heap[b])
  BY <1>4, <1>5, <1>6, BlockType
<1>9. heap[b].len = End(heap[b].code) /\ End(heap[b].code) \in Nat /\ 0 \in Outside(heap[b].code)
  <2>1. ASSUME NEW e \in Setups(heap[b].code) PROVE e + 1 # 0
    <3>1. e \in 0..End(heap[b].code) - 1 /\ End(heap[b].code) \in Nat
      BY Zenon, <1>8, CodeFine
    <3>. QED
      BY <3>1
  <2>. QED
    BY Zenon, <1>6, <1>8, <2>1, CodeFine DEF PlacedAt
<1>10. PlacedAt(heap[b], q)
  BY <1>6, <1>8, <1>9 DEF PlacedAt
<1>. HIDE DEF s
<1>11. MovedTo(heap, g, b, q, s)
  <2>1. MovedTo(heap, heap, b, heap[b].ip, s)
    BY <1>4, <1>5, <1>6 DEF MovedTo, s
  <2>2. q \in Nat
    BY <1>6
  <2>. HIDE DEF q
  <2>. QED
    BY <2>1, <2>2, PlaceIs
<1>. HIDE DEF g
<1>12. ASSUME NEW i \in Ids, IsGenerator(heap, i) PROVE Laid(g, Asleep(heap, i))
  <2> DEFINE t == Asleep(heap, i)
  <2>1. Laid(heap, t) /\ t \in Seq(Ids) /\ Len(t) \in Nat
    BY <1>4, <1>12, AsleepIn DEF Apart
  <2>2. CASE i # a
    <3>1. Disjoint(Asleep(heap, a), t)
      BY <1>3, <1>4, <1>12, <2>2 DEF Apart
    <3>2. \A k \in 1..Len(t) : t[k] # b
      <4>1. 1 \in 1..Len(Asleep(heap, a))
        BY <1>5
      <4>. QED
        BY <1>5, <3>1, <4>1 DEF Disjoint
    <3>3. \A k \in 1..Len(t) - 1 : k \in 1..Len(t)
      BY <2>1
    <3>. HIDE DEF t
    <3>4. Laid(g, t)
      BY <1>11, <2>1, <3>2, <3>3, MovedLaid
    <3>. QED
      BY <3>4 DEF t
  <2>3. CASE i = a
    <3>1. t[1] = b
      BY <1>5, <2>3
    <3>. HIDE DEF t
    <3>2. \A k \in 1..Len(t) : g[t[k]].type = "block" /\ g[t[k]].start = heap[t[k]].start
                               /\ g[t[k]].code = heap[t[k]].code /\ g[t[k]].len = heap[t[k]].len
                               /\ (t[k] # b => g[t[k]].ip = heap[t[k]].ip)
      BY <1>11, <2>1 DEF MovedTo, Laid, AreBlocks
    <3>3. NestedOn(heap, t)
      BY <2>1 DEF Laid
    <3>4. ASSUME NEW k \in 1..Len(t) - 1, heap[t[k + 1]].start # 0 PROVE t[k] # b
      <4>1. heap[t[k]].code = heap[t[k + 1]].code /\ heap[t[k]].ip = heap[t[k + 1]].len
        BY Zenon, <3>3, <3>4 DEF NestedOn
      <4>2. t[k + 1] \in Ids /\ heap[t[k + 1]].type = "block"
        <5>1. k + 1 \in 1..Len(t)
          BY <2>1
        <5>. QED
          BY <2>1, <5>1 DEF Laid, AreBlocks
      <4>3. PlacedAt(heap[t[k + 1]], heap[t[k + 1]].ip) /\ heap[t[k + 1]].code \in DOMAIN Code
        BY <1>4, <4>2, BlockType
      <4>4. PICK e \in Setups(heap[t[k + 1]].code) :
               heap[t[k + 1]].len = Behind(heap[t[k + 1]].code, e)
        BY <3>4, <4>3 DEF PlacedAt
      <4>5. Behind(heap[t[k + 1]].code, e) < End(heap[t[k + 1]].code)
        <5>1. /\ Behind(heap[t[k + 1]].code, e) \in 0..End(heap[t[k + 1]].code) - 1
              /\ End(heap[t[k + 1]].code) \in Nat
          BY Zenon, <4>3, <4>4, CodeFine
        <5>. QED
          BY <5>1
      <4>6. t[k] = b => heap[t[k]].ip >= End(heap[t[k]].code)
        BY <1>1, <1>9 DEF b
      <4>7. heap[t[k]].ip < End(heap[t[k]].code)
        BY <4>1, <4>4, <4>5
      <4>8. t[k] = b => heap[t[k]].ip \in Nat /\ End(heap[t[k]].code) \in Nat
        BY <1>8, <1>9
      <4>. QED
        BY <4>6, <4>7, <4>8
    <3>5. NestedOn(g, t)
      <4>1. t # <<>> => 1 \in 1..Len(t)
        BY <2>1
      <4>2. \A k \in 1..Len(t) - 1 : k \in 1..Len(t) /\ k + 1 \in 1..Len(t)
        BY <2>1
      <4>. QED
        BY Zenon, <3>2, <3>3, <3>4, <4>1, <4>2 DEF NestedOn
    <3>6. Laid(g, t)
      BY <2>1, <3>2, <3>5 DEF Laid, AreBlocks
    <3>. QED
      BY <3>6 DEF t
  <2>. QED
    BY <2>2, <2>3
<1>13. \A k \in 1..Len(s) : Safe(heap, s[k])
  BY <1>8 DEF BlockSees, s
<1>. HIDE DEF q
<1>14. Good(g, blocks, frames, varnames, ret)
  BY <1>4, <1>7, <1>10, <1>11, <1>12, <1>13, MovedAside
<1>. QED
  BY <1>1, <1>2, <1>14, AnswerFine, ValueFacts

(***************************************************************************)
(* What an iterator keeps.                                                 *)
(***************************************************************************)
SavedTo(h, g, a, s) ==
  /\ a \in Ids /\ h[a].type = "generator" /\ s \in Seq(Ids)
  /\ g \in [Ids -> Objects] /\ \A i \in Ids \ {a} : g[i] = h[i]
  /\ g[a].type = "generator" /\ g[a].tag = h[a].tag /\ g[a].saved = s

LEMMA SavedIs ==
  ASSUME NEW h, h \in [Ids -> Objects], NEW a \in Ids, h[a].type = "generator", NEW s \in Seq(Ids)
  PROVE  SavedTo(h, [h EXCEPT ![a].saved = s], a, s)
<1> DEFINE r == [h[a] EXCEPT !.saved = s]
<1>1. h[a] \in GeneratorRecs
  BY DEF Objects, Free, BlockRecs, SequenceRecs, IterationRecs
<1>2. r \in GeneratorRecs /\ r.type = "generator" /\ r.tag = h[a].tag /\ r.saved = s
  BY <1>1 DEF GeneratorRecs
<1>3. [h EXCEPT ![a].saved = s] = [h EXCEPT ![a] = r]
  OBVIOUS
<1>. HIDE DEF r
<1>4. r \in Objects
  BY <1>2 DEF Objects
<1>. QED
  BY Zenon, <1>2, <1>3, <1>4 DEF SavedTo

LEMMA SavedGood ==
  ASSUME NEW h, NEW bs, NEW fs, NEW held, NEW x, Good(h, bs, fs, held, x),
         NEW g, NEW a, NEW s, SavedTo(h, g, a, s),
         Laid(h, Asleep(g, a)), Disjoint(s, bs),
         Occurs(h[a].tag, bs) => s = <<>>,
         \A j \in Ids : IsGenerator(h, j) /\ j # a => Disjoint(Asleep(g, a), Asleep(h, j)),
         \A k \in 1..Len(fs) : fs[k].op = "next" /\ fs[k].iter = a => s = <<>>
  PROVE  Good(g, bs, fs, held, x)
<1>1. /\ HeapFine(h) /\ VarsFine(h, held) /\ Laid(h, bs) /\ Apart(h, bs) /\ FramesFine(h, fs)
      /\ AllRun(h, bs, fs) /\ bs \in Seq(Ids) /\ AreBlocks(h, bs)
      /\ \A k \in 1..Len(fs) : Starts(fs[k].base, bs)
      /\ x \in Values /\ Safe(h, x)
  BY DEF Good, Laid, AreBlocks
<1>2. /\ a \in Ids /\ h[a].type = "generator" /\ s \in Seq(Ids)
      /\ g \in [Ids -> Objects] /\ \A i \in Ids \ {a} : g[i] = h[i]
      /\ g[a].type = "generator" /\ g[a].tag = h[a].tag /\ g[a].saved = s
  BY DEF SavedTo
<1>3. Alike(h, g)
  BY <1>2 DEF Alike
<1>4. \A i : h[i].type = "block" /\ i \in Ids => g[i] = h[i]
  BY <1>2
<1>5. \A t : Laid(h, t) => Laid(g, t)
  <2> SUFFICES ASSUME NEW t, Laid(h, t) PROVE Laid(g, t)
    OBVIOUS
  <2>1. \A k \in 1..Len(t) : g[t[k]] = h[t[k]]
    BY <1>4 DEF Laid, AreBlocks
  <2>. QED
    BY <2>1, SpareLaid
<1>6. Len(Asleep(g, a)) = Len(s) + 1 /\ \A k \in 1..Len(s) + 1 :
        Asleep(g, a)[k] = IF k = 1 THEN h[a].tag ELSE s[Len(s) + 2 - k]
  BY <1>2 DEF Asleep
<1>7. HeapFine(g)
  <2>1. \A i \in Ids \ {a} : Fine(g, g[i])
    BY <1>1, <1>2, <1>3, AlikeFine
  <2>2. GeneratorSees(g, g[a])
    <3>1. GeneratorSees(h, h[a])
      BY <1>1, <1>2 DEF HeapFine, Fine
    <3>2. h[a].tag \in Ids
      BY <1>1, <1>2, AsleepIn DEF IsGenerator
    <3>3. IsTag(g, h[a].tag)
      BY <1>4, <3>1, <3>2 DEF GeneratorSees, IsTag
    <3>4. ASSUME NEW k \in 1..Len(s) PROVE g[s[k]].type = "block"
      <4> DEFINE j == Len(s) + 2 - k
      <4>1. j \in 1..Len(s) + 1 /\ j # 1 /\ Len(s) + 2 - j = k
        BY <1>2
      <4>2. Asleep(g, a)[j] = s[k] /\ j \in 1..Len(Asleep(g, a))
        <5>. HIDE DEF j
        <5>. QED
          BY <1>6, <4>1
      <4>3. h[s[k]].type = "block"
        BY <4>2 DEF Laid, AreBlocks
      <4>. QED
        BY <1>2, <1>4, <4>3
    <3>. QED
      BY <1>2, <3>3, <3>4 DEF GeneratorSees
  <2>3. Fine(g, g[a])
    BY <1>2, <2>2 DEF Fine
  <2>. QED
    BY <1>2, <2>1, <2>3 DEF HeapFine
<1>8. \A i : (IsGenerator(g, i) <=> IsGenerator(h, i)) /\ (i \in Ids => g[i].tag = h[i].tag \/ i # a)
  BY <1>2 DEF IsGenerator
<1>9. \A i \in Ids \ {a} : g[i] = h[i] /\ Asleep(g, i) = Asleep(h, i)
  BY <1>2 DEF Asleep
<1>10. Apart(g, bs)
  <2> SUFFICES ASSUME NEW i \in Ids, IsGenerator(g, i)
               PROVE  /\ Laid(g, Asleep(g, i))
                      /\ Occurs(g[i].tag, bs) => g[i].saved = <<>>
                      /\ Disjoint(g[i].saved, bs)
                      /\ \A j \in Ids : IsGenerator(g, j) /\ j # i =>
                           Disjoint(Asleep(g, i), Asleep(g, j))
    BY DEF Apart
  <2>1. CASE i = a
    <3>1. \A j \in Ids : IsGenerator(g, j) /\ j # i => Disjoint(Asleep(g, i), Asleep(g, j))
      BY <1>8, <1>9, <2>1
    <3>. QED
      BY <1>2, <1>5, <2>1, <3>1
  <2>2. CASE i # a
    <3>1. /\ IsGenerator(h, i) /\ g[i] = h[i] /\ Asleep(g, i) = Asleep(h, i)
          /\ Laid(h, Asleep(h, i)) /\ (Occurs(h[i].tag, bs) => h[i].saved = <<>>)
          /\ Disjoint(h[i].saved, bs)
          /\ \A j \in Ids : IsGenerator(h, j) /\ j # i => Disjoint(Asleep(h, i), Asleep(h, j))
      BY <1>1, <1>8, <1>9, <2>2 DEF Apart
    <3>2. ASSUME NEW j \in Ids, IsGenerator(g, j), j # i
          PROVE  Disjoint(Asleep(g, i), Asleep(g, j))
      <4>1. CASE j = a
        <5>1. Disjoint(Asleep(g, a), Asleep(h, i))
          BY <2>2, <3>1
        <5>. QED
          BY <3>1, <4>1, <5>1, DisjointIs
      <4>2. CASE j # a
        BY <1>8, <1>9, <3>1, <3>2, <4>2
      <4>. QED
        BY <4>1, <4>2
    <3>. QED
      BY <1>5, <3>1, <3>2
  <2>. QED
    BY <2>1, <2>2
<1>11. AllRun(g, bs, fs)
  <2>1. \A i \in Ids : g[i].tag = h[i].tag
    BY <1>2
  <2>. QED
    BY <1>1, <1>8, <2>1 DEF AllRun
<1>12. Same(h, g, bs)
  BY <1>1, <1>4 DEF Same, AreBlocks
<1>13. FramesFine(g, fs)
  <2>1. ASSUME NEW k \in 1..Len(fs) PROVE FrameFine(g, fs[k])
    <3>1. FrameFine(h, fs[k]) /\ fs[k].base \in Seq(Ids) /\ Starts(fs[k].base, bs)
          /\ fs[k] \in FrameRecs
      BY <1>1, FrameType
    <3>2. CASE fs[k].iter # a
      <4>1. fs[k].iter \in Ids => g[fs[k].iter] = h[fs[k].iter]
        BY <1>2, <3>2
      <4>. QED
        BY <1>1, <1>12, <3>1, <4>1, SameFrame
    <3>3. CASE fs[k].iter = a
      <4>1. fs[k].op = "next" => s = <<>>
        BY <3>3
      <4>2. Safe(g, a)
        BY <1>2 DEF Safe
      <4>3. CASE fs[k].op \in Waiting
        <5>1. fs[k].base # <<>> /\ fs[k].block = fs[k].base[Len(fs[k].base)]
          BY <3>1, <4>3 DEF FrameFine
        <5>2. g[fs[k].block] = h[fs[k].block]
          <6>1. Len(fs[k].base) \in 1..Len(fs[k].base)
            BY <3>1, <5>1
          <6>2. \A j \in 1..Len(fs[k].base) : j \in 1..Len(bs) /\ fs[k].base[j] = bs[j]
            BY <1>1, <3>1 DEF Starts
          <6>. QED
            BY <1>12, <5>1, <6>1, <6>2 DEF Same
        <5>. QED
          BY <3>1, <3>3, <4>2, <4>3, <5>2 DEF FrameFine, AtForIter, RestThere, Waiting
      <4>4. CASE fs[k].op \notin Waiting
        <5>1. fs[k].op = "next" => g[a].tag = fs[k].block /\ g[a].saved = <<>> /\ IsGenerator(g, a)
          BY <1>2, <3>1, <3>3, <4>1 DEF FrameFine, IsGenerator
        <5>. QED
          BY <3>1, <3>3, <4>4, <5>1 DEF FrameFine, Waiting
      <4>. QED
        BY <4>3, <4>4
    <3>. QED
      BY <3>2, <3>3
  <2>2. ASSUME NEW k \in 1..Len(fs), NEW j \in 1..k - 1 PROVE Holds(g, fs[j], fs[k].base)
    <3>1. Holds(h, fs[j], fs[k].base)
      BY <1>1 DEF FramesFine
    <3>2. j \in 1..Len(fs)
      BY <1>1 DEF FramesFine
    <3>3. fs[j].base \in Seq(Ids) /\ fs[k].base \in Seq(Ids) /\ Starts(fs[k].base, bs)
      BY <1>1, <3>2, FrameType
    <3>4. Same(h, g, fs[k].base)
      <4>1. \A m \in 1..Len(fs[k].base) : m \in 1..Len(bs) /\ fs[k].base[m] = bs[m]
        BY <1>1, <3>3 DEF Starts
      <4>. QED
        BY <1>12, <4>1 DEF Same
    <3>5. Level(g, fs[j], fs[k].base)
      BY <3>1, <3>3, <3>4, SameLevel DEF Holds
    <3>. QED
      BY <3>1, <3>5 DEF Holds
  <2>. QED
    BY Zenon, <1>1, <2>1, <2>2 DEF FramesFine
<1>14. VarsFine(g, held) /\ Safe(g, x) /\ Laid(g, bs)
  BY <1>1, <1>3, <1>5, AlikeVars, AlikeSafe
<1>. QED
  BY <1>1, <1>7, <1>10, <1>11, <1>13, <1>14 DEF Good

(***************************************************************************)
(* A generator is resumed.                                                 *)
(***************************************************************************)
LEMMA ReverseIs ==
  ASSUME NEW s \in Seq(Ids)
  PROVE  /\ Reverse(s) \in Seq(Ids) /\ Len(Reverse(s)) = Len(s) /\ Len(s) \in Nat
         /\ \A j \in 1..Len(s) : Reverse(s)[j] = s[Len(s) - j + 1]
                                 /\ Len(s) - j + 1 \in 1..Len(s)
<1> DEFINE n == Len(s)
           t == Reverse(s)
<1>1. n \in Nat /\ \A j \in 1..n : n - j + 1 \in 1..n /\ s[n - j + 1] \in Ids
  OBVIOUS
<1>2. t = [i \in 1..n |-> s[(n - i) + 1]]
  BY DEF Reverse
<1>. HIDE DEF n, t
<1>3. DOMAIN t = 1..n /\ \A j \in 1..n : t[j] = s[n - j + 1]
  BY <1>2
<1>4. t \in [1..n -> Ids]
  BY <1>1, <1>2
<1>5. t \in Seq(Ids) /\ Len(t) = n
  BY <1>1, <1>3, <1>4
<1>. QED
  BY Zenon, <1>1, <1>3, <1>5 DEF n, t

Woken(bs, b, s, t) == t = Append(bs, b) \o Reverse(s)

LEMMA WokenIs ==
  ASSUME NEW bs \in Seq(Ids), NEW b \in Ids, NEW s \in Seq(Ids),
         NEW t, Woken(bs, b, s, t)
  PROVE  /\ t \in Seq(Ids) /\ Len(t) = Len(bs) + 1 + Len(s) /\ Starts(bs, t)
         /\ t[Len(bs) + 1] = b
         /\ \A j \in 1..Len(s) : t[Len(bs) + 1 + j] = s[Len(s) - j + 1]
<1> DEFINE u == Append(bs, b)
           v == Reverse(s)
<1>1. /\ u \in Seq(Ids) /\ Len(u) = Len(bs) + 1 /\ Len(bs) \in Nat
      /\ u[Len(bs) + 1] = b /\ \A k \in 1..Len(bs) : u[k] = bs[k]
  OBVIOUS
<1>2. v \in Seq(Ids) /\ Len(v) = Len(s) /\ Len(s) \in Nat
      /\ \A j \in 1..Len(s) : v[j] = s[Len(s) - j + 1]
  BY ReverseIs
<1>3. t = u \o v
  BY DEF Woken
<1>. HIDE DEF u, v
<1>9. u \in Seq(Ids) /\ v \in Seq(Ids)
  BY <1>1, <1>2
<1>10. /\ u \o v \in Seq(Ids) /\ Len(u \o v) = Len(u) + Len(v)
       /\ \A i \in 1..Len(u) + Len(v) : (u \o v)[i] = IF i <= Len(u) THEN u[i] ELSE v[i - Len(u)]
  BY <1>9, ConcatProperties
<1>4. /\ t \in Seq(Ids) /\ Len(t) = Len(u) + Len(v)
      /\ \A i \in 1..Len(u) + Len(v) : t[i] = IF i <= Len(u) THEN u[i] ELSE v[i - Len(u)]
  BY <1>3, <1>10
<1>5. \A k \in 1..Len(bs) : t[k] = bs[k]
  BY <1>1, <1>2, <1>4
<1>6. t[Len(bs) + 1] = b
  BY <1>1, <1>2, <1>4
<1>7. ASSUME NEW j \in 1..Len(s) PROVE t[Len(bs) + 1 + j] = s[Len(s) - j + 1]
  <2> DEFINE i == Len(bs) + 1 + j
  <2>1. i \in 1..Len(u) + Len(v) /\ ~(i <= Len(u)) /\ i - Len(u) = j
    BY <1>1, <1>2
  <2>. HIDE DEF i
  <2>2. t[i] = v[j]
    BY <1>4, <2>1
  <2>3. v[j] = s[Len(s) - j + 1]
    BY <1>2
  <2>. QED
    BY <2>2, <2>3 DEF i
<1>8. Starts(bs, t)
  BY <1>1, <1>2, <1>4, <1>5 DEF Starts
<1>. QED
  BY <1>1, <1>2, <1>4, <1>6, <1>7, <1>8

(* The blocks that a generator puts on the stack, from the top of what     *)
(* runs: its own and those within it.                                      *)
LEMMA WokenLaying ==
  ASSUME NEW h, HeapFine(h), NEW bs \in Seq(Ids), Apart(h, bs),
         NEW a, IsGenerator(h, a), ~Occurs(h[a].tag, bs),
         NEW t, Woken(bs, h[a].tag, h[a].saved, t)
  PROVE  /\ Laying(h, bs, t) /\ t[Len(bs) + 1] = h[a].tag /\ Len(bs) + 1 \in 1..Len(t)
         /\ \A k \in Len(bs) + 1 .. Len(t) :
              k - Len(bs) \in 1..Len(Asleep(h, a)) /\ t[k] = Asleep(h, a)[k - Len(bs)]
<1> DEFINE s == h[a].saved
           b == h[a].tag
           w == Asleep(h, a)
           n == Len(bs)
<1>1. /\ a \in Ids /\ b \in Ids /\ s \in Seq(Ids) /\ IsTag(h, b)
      /\ Len(w) = Len(s) + 1 /\ w \in Seq(Ids) /\ w[1] = b
      /\ \A k \in 1..Len(w) : w[k] = b \/ Occurs(w[k], s)
  BY AsleepIn DEF IsGenerator
<1>13. Woken(bs, b, s, t)
  OBVIOUS
<1>3. n \in Nat /\ Len(s) \in Nat
  BY <1>1
<1>4. \A k \in 1..Len(s) + 1 : w[k] = IF k = 1 THEN b ELSE s[Len(s) + 2 - k]
  BY Zenon DEF Asleep
<1>5. Laid(h, w) /\ Disjoint(s, bs)
  BY <1>1 DEF Apart
<1>. HIDE DEF w, s, b, n
<1>2. /\ t \in Seq(Ids) /\ Len(t) = n + 1 + Len(s) /\ Starts(bs, t) /\ t[n + 1] = b
      /\ \A j \in 1..Len(s) : t[n + 1 + j] = s[Len(s) - j + 1]
  <2>1. /\ t \in Seq(Ids) /\ Len(t) = Len(bs) + 1 + Len(s) /\ Starts(bs, t) /\ t[Len(bs) + 1] = b
        /\ \A j \in 1..Len(s) : t[Len(bs) + 1 + j] = s[Len(s) - j + 1]
    <3>1. b \in Ids /\ s \in Seq(Ids)
      BY <1>1
    <3>. QED
      BY <1>13, <3>1, WokenIs
  <2>. QED
    BY Zenon, <2>1 DEF n
<1>6. ASSUME NEW k \in n + 1 .. Len(t)
      PROVE  k - n \in 1..Len(w) /\ t[k] = w[k - n] /\ k \in 1..Len(t)
  <2>1. k - n \in 1..Len(w) /\ k \in 1..Len(t)
    BY <1>1, <1>2, <1>3
  <2>2. CASE k = n + 1
    BY <1>1, <1>2, <1>3, <2>2
  <2>3. CASE k # n + 1
    <3> DEFINE j == k - n - 1
    <3>1. j \in 1..Len(s) /\ n + 1 + j = k /\ k - n \in 1..Len(s) + 1 /\ k - n # 1
          /\ Len(s) + 2 - (k - n) = Len(s) - j + 1
      BY <1>1, <1>2, <1>3, <2>3
    <3>2. t[n + 1 + j] = s[Len(s) - j + 1]
      BY Zenon, <1>2, <3>1
    <3>. QED
      BY Zenon, <1>4, <2>1, <3>1, <3>2
  <2>. QED
    BY <2>1, <2>2, <2>3
<1>7. \A k \in 1..Len(w) : ~Occurs(w[k], bs)
  <2> SUFFICES ASSUME NEW k \in 1..Len(w), Occurs(w[k], bs) PROVE FALSE
    OBVIOUS
  <2>1. ~Occurs(b, bs)
    BY DEF b
  <2>. QED
    BY <1>1, <1>5, <2>1 DEF Occurs, Disjoint
<1>8. \A j, k \in n + 1 .. Len(t) : t[j] = t[k] => j = k
  <2> SUFFICES ASSUME NEW j \in n + 1 .. Len(t), NEW k \in n + 1 .. Len(t), t[j] = t[k]
               PROVE  j = k
    OBVIOUS
  <2>1. j - n \in 1..Len(w) /\ k - n \in 1..Len(w) /\ w[j - n] = w[k - n]
    BY <1>6
  <2>2. j - n = k - n
    BY <1>5, <2>1 DEF Laid, Once
  <2>. QED
    BY <1>3, <2>2
<1>9. ASSUME NEW k \in n + 1 .. Len(t), h[t[k]].start # 0
      PROVE  k > 1 /\ h[t[k - 1]].code = h[t[k]].code /\ h[t[k - 1]].ip = h[t[k]].len
  <2>1. k # n + 1
    BY <1>1, <1>2, <1>9 DEF IsTag
  <2> DEFINE j == k - n - 1
  <2>2. /\ j \in 1..Len(w) - 1 /\ j + 1 = k - n /\ k - 1 \in n + 1 .. Len(t) /\ (k - 1) - n = j
        /\ k > 1
    BY <1>1, <1>2, <1>3, <2>1
  <2>. HIDE DEF j
  <2>3. t[k] = w[j + 1]
    BY <1>6, <2>2
  <2>4. t[k - 1] = w[j]
    BY <1>6, <2>2
  <2>. QED
    BY <1>5, <1>9, <2>2, <2>3, <2>4 DEF Laid, NestedOn
<1>10. \A k \in n + 1 .. Len(t) : h[t[k]].type = "block" /\ ~Occurs(t[k], bs)
  BY <1>5, <1>6, <1>7 DEF Laid, AreBlocks
<1>11. Laying(h, bs, t)
  BY <1>2, <1>8, <1>9, <1>10 DEF Laying, n
<1>12. n + 1 \in 1..Len(t)
  BY <1>2, <1>3
<1>. QED
  BY <1>2, <1>6, <1>11, <1>12 DEF n, b, w

LEMMA StepResume ==
  ASSUME Ready, Resume
  PROVE  MachineInv'
<1> DEFINE a == Asked
           b == heap[a].tag
           s == heap[a].saved
           m == [heap EXCEPT ![a].saved = <<>>]
           t == Append(blocks, b) \o Reverse(s)
           d == Frame("next", b, a, 0, "")
           gs == Append(frames, d)
<1>1. /\ phase = "next" /\ heap[a].type = "generator" /\ heap[b].ip < heap[b].len
      /\ heap' = m /\ blocks' = t /\ frames' = gs /\ phase' = "step" /\ ret' = ret
      /\ shared' = shared /\ globals' = globals /\ varnames' = varnames
  BY Zenon DEF Resume, statics
<1>2. MachineInv
  BY DEF Ready
<1>3. a \in Ids /\ a = Caller.iter /\ IsGenerator(heap, a)
  BY Zenon, <1>1, <1>2, NextFacts DEF Asked, IsGenerator
<1>. HIDE DEF a
<1>4. /\ HeapFine(heap) /\ heap \in [Ids -> Objects] /\ Apart(heap, blocks) /\ blocks \in Seq(Ids)
      /\ Good(heap, blocks, frames, varnames, ret) /\ AreBlocks(heap, blocks)
      /\ shared \subseteq DOMAIN Code /\ globals \subseteq Modules
      /\ frames \in Seq(FrameRecs) /\ FramesFine(heap, frames)
      /\ \A k \in 1..Len(frames) : Starts(frames[k].base, blocks)
      /\ Caller = frames[Len(frames)] /\ Len(frames) \in 1..Len(frames)
  BY <1>2, InvParts DEF HeapFine
<1>5. b \in Ids /\ IsTag(heap, b) /\ s \in Seq(Ids)
  BY <1>3, <1>4, AsleepIn
<1>6. ~Occurs(b, blocks)
  <2>1. b \notin ToSet(blocks)
    BY Zenon, <1>1, <1>3 DEF Ready, Orderly, NotReentered
  <2>. QED
    BY <1>4, <2>1 DEF Occurs, ToSet
<1>7. Woken(blocks, b, s, t)
  BY DEF Woken
<1>8. SavedTo(heap, m, a, <<>>)
  <2>1. <<>> \in Seq(Ids)
    OBVIOUS
  <2>. QED
    BY Zenon, <1>3, <1>4, <2>1, SavedIs DEF IsGenerator
<1>. HIDE DEF m, t
<1>9. /\ Laying(heap, blocks, t) /\ t[Len(blocks) + 1] = b /\ Len(blocks) + 1 \in 1..Len(t)
      /\ \A k \in Len(blocks) + 1 .. Len(t) :
           /\ k - Len(blocks) \in 1..Len(Asleep(heap, a))
           /\ t[k] = Asleep(heap, a)[k - Len(blocks)]
  BY <1>3, <1>4, <1>6, <1>7, WokenLaying
<1>10. /\ \A i \in Ids \ {a} : m[i] = heap[i]
       /\ m[a].type = "generator" /\ m[a].tag = b /\ m[a].saved = <<>> /\ m \in [Ids -> Objects]
  BY <1>8 DEF SavedTo
<1>11. \A i \in Ids : heap[i].type = "block" => m[i] = heap[i]
  BY Zenon, <1>1, <1>10
<1>12. Asleep(m, a) = <<b>>
  BY <1>10 DEF Asleep
<1>. HIDE DEF b
<1>13. Good(m, blocks, frames, varnames, ret)
  <2>1. Laid(heap, <<b>>)
    BY <1>5 DEF Laid, AreBlocks, Once, NestedOn, IsTag
  <2>2. Disjoint(<<>>, blocks)
    BY DEF Disjoint
  <2>3. ASSUME NEW j \in Ids, IsGenerator(heap, j), j # a PROVE Disjoint(<<b>>, Asleep(heap, j))
    <3>1. Disjoint(Asleep(heap, a), Asleep(heap, j))
      BY <1>3, <1>4, <2>3 DEF Apart
    <3>2. 1 \in 1..Len(Asleep(heap, a)) /\ Asleep(heap, a)[1] = b
      BY <1>3, <1>4, AsleepIn DEF b
    <3>. QED
      BY <3>1, <3>2 DEF Disjoint
  <2>. QED
    BY <1>4, <1>8, <1>12, <2>1, <2>2, <2>3, SavedGood
<1>14. Starts(blocks, t) /\ t \in Seq(Ids)
  BY <1>9 DEF Laying
<1>15. Laying(m, blocks, t)
  <2>1. \A k \in Len(blocks) + 1 .. Len(t) : t[k] \in Ids
    BY <1>4, <1>14
  <2>2. \A k \in 1..Len(blocks) : t[k] = blocks[k] /\ heap[t[k]].type = "block" /\ t[k] \in Ids
    BY <1>4, <1>14 DEF Starts, AreBlocks
  <2>3. \A k \in Len(blocks) + 1 .. Len(t) : heap[t[k]].type = "block" /\ m[t[k]] = heap[t[k]]
    BY <1>9, <1>11, <2>1 DEF Laying
  <2>4. ASSUME NEW k \in Len(blocks) + 1 .. Len(t), k > 1 PROVE m[t[k - 1]] = heap[t[k - 1]]
    <3>1. k - 1 \in 1..Len(blocks) \/ k - 1 \in Len(blocks) + 1 .. Len(t)
      BY <1>4, <2>4
    <3>. QED
      BY <1>11, <2>2, <2>3, <3>1
  <2>. QED
    BY Zenon, <1>9, <2>3, <2>4 DEF Laying
<1>16. d.op = "next" /\ d.block = b /\ d.iter = a /\ d.base = blocks
  BY DEF Frame
<1>17. d \in FrameRecs
  <2>1. d \in [op : {"next"}, block : Ids, iter : Ids, arg : Nat, name : {""}, base : Seq(Ids)]
    BY <1>3, <1>4, <1>5 DEF Frame
  <2>. HIDE DEF d
  <2>. QED
    BY Zenon, <2>1 DEF FrameRecs, CallRecs, Waiting, Looping
<1>. HIDE DEF d
<1>18. FrameFine(m, d) /\ d.op # "object"
  BY <1>3, <1>10, <1>16 DEF FrameFine, Waiting, IsGenerator
<1>19. Caller.op \in Waiting /\ (Caller.op \in Asking => blocks = Caller.base)
  BY <1>1, <1>2, NextFacts
<1>20. Above(frames[Len(frames)], d) /\ Level(m, frames[Len(frames)], blocks)
  BY <1>4, <1>16, <1>19 DEF Above, Level, Looping, Waiting
<1>21. Starts(blocks, blocks)
  BY DEF Starts
<1>22. Pushes(frames, gs, d)
  BY <1>4, <1>17, PushesIs
<1>. HIDE DEF gs
<1>23. Good(m, blocks, gs, varnames, ret)
  BY <1>4, <1>13, <1>16, <1>17, <1>18, <1>20, <1>21, <1>22, FramePushed
<1>24. Len(gs) \in 1..Len(gs) /\ gs[Len(gs)] = d /\ gs # <<>>
  BY <1>4, <1>22 DEF Pushes
<1>25. Owned(m, blocks, gs, t)
  <2> SUFFICES ASSUME NEW i \in Ids, IsGenerator(m, i), NEW k \in Len(blocks) + 1 .. Len(t)
               PROVE  /\ ~Occurs(t[k], m[i].saved)
                      /\ t[k] = m[i].tag =>
                           /\ m[i].saved = <<>>
                           /\ \E j \in 1..Len(gs) : gs[j].op = "next" /\ gs[j].block = t[k]
    BY DEF Owned
  <2>1. CASE i = a
    <3>1. ~Occurs(t[k], <<>>)
      BY DEF Occurs
    <3>. QED
      BY <1>10, <1>16, <1>24, <2>1, <3>1
  <2>2. CASE i # a
    <3>1. IsGenerator(heap, i) /\ m[i] = heap[i]
      BY <1>10, <2>2 DEF IsGenerator
    <3>2. Disjoint(Asleep(heap, a), Asleep(heap, i))
      BY <1>3, <1>4, <2>2, <3>1 DEF Apart
    <3>3. ~Occurs(t[k], Asleep(heap, i))
      BY Zenon, <1>9, <3>2 DEF Disjoint, Occurs
    <3>4. t[k] # heap[i].tag /\ ~Occurs(t[k], heap[i].saved)
      BY <1>4, <3>1, <3>3, AsleepIn
    <3>. QED
      BY <3>1, <3>4
  <2>. QED
    BY <2>1, <2>2
<1>26. Good(m, t, gs, varnames, ret)
  BY <1>15, <1>23, <1>25, LongerGood
<1>27. AtStep(m, t, d)
  <2>1. m[b] = heap[b] /\ heap[b].start = 0
    BY <1>5, <1>11 DEF IsTag
  <2>2. heap[b].ip \in Outside(heap[b].code)
    <3>1. /\ PlacedAt(heap[b], heap[b].ip) /\ heap[b].code \in DOMAIN Code
          /\ heap[b].ip \in Nat /\ heap[b].len \in Nat
      BY <1>4, <1>5, BlockType DEF IsTag
    <3>2. heap[b].ip < heap[b].len
      BY <1>1 DEF b
    <3>. QED
      BY <2>1, <3>1, <3>2, Placing
  <2>3. Len(blocks) < Len(t)
    BY <1>4, <1>9, <1>14
  <2>. QED
    BY <1>9, <1>16, <2>1, <2>2, <2>3 DEF AtStep, Level, Looping
<1>28. Caller' = d
  BY <1>1, <1>24 DEF Caller, Last
<1>29. phase' \notin {"check", "next", "got"} /\ ret' = ret /\ heap' = m /\ blocks' = t
       /\ frames' = gs /\ phase' = "step"
  BY <1>1 DEF m, t, gs
<1>. QED
  BY <1>1, <1>4, <1>26, <1>27, <1>28, <1>29 DEF MachineInv

(***************************************************************************)
(* A generator that was resumed gives the machine back.                    *)
(***************************************************************************)
RanFrom(e, f) ==
  /\ f = Caller /\ f = frames[Len(frames)] /\ f.op = "next"
  /\ f.base \in Seq(Ids) /\ Starts(f.base, blocks) /\ Len(f.base) \in 1..Len(f.base)
  /\ IsGenerator(heap, f.iter) /\ heap[f.iter].tag = f.block /\ heap[f.iter].saved = <<>>
  /\ e = frames[Len(frames) - 1] /\ e.op \in Waiting /\ (e.op \in Asking => e.base = f.base)
  /\ Popped(frames, 1)[Len(Popped(frames, 1))] = e /\ Pops(frames, Popped(frames, 1))
  /\ Popped(frames, 1) # <<>>
  /\ \A k \in 1..Len(frames) - 1 : Starts(frames[k].base, f.base)
  /\ \A k \in 1..Len(frames) - 2 :
       frames[k].op \in Waiting => frames[k].block # f.base[Len(f.base)]

LEMMA RanFacts ==
  ASSUME MachineInv, Caller.op = "next"
  PROVE  RanFrom(frames[Len(frames) - 1], Caller)
<1> DEFINE f == Caller
           e == frames[Len(frames) - 1]
           n == Len(frames)
<1>1. /\ f = frames[n] /\ n \in 1..n /\ n \in Nat /\ FramesFine(heap, frames)
      /\ frames \in Seq(FrameRecs) /\ f.op = "next"
      /\ blocks \in Seq(Ids) /\ Once(blocks) /\ Len(blocks) \in Nat
      /\ \A k \in 1..n : Starts(frames[k].base, blocks)
  BY InvParts
<1>. HIDE DEF f
<1>2. f \in FrameRecs /\ f.base \in Seq(Ids) /\ FrameFine(heap, f)
  BY <1>1, FrameType
<1>3. /\ Pops(frames, Popped(frames, 1)) /\ n - 1 \in 1..n /\ n - 1 \in 1..n - 1
      /\ Above(e, f) /\ Popped(frames, 1)[Len(Popped(frames, 1))] = e
      /\ Holds(heap, e, f.base)
  <2>1. f.op # "object"
    BY <1>1
  <2>. QED
    BY <1>1, <2>1, PopsIs
<1>4. e.base \in Seq(Ids) /\ e.op \in Waiting /\ FrameFine(heap, e)
  <2>1. e.base \in Seq(Ids) /\ e.op \in Waiting \cup Looping /\ FrameFine(heap, e)
    BY <1>1, <1>3, FrameType
  <2>2. e.op \notin Looping
    BY <1>1, <1>3 DEF Above, Waiting
  <2>. QED
    BY <2>1, <2>2
<1>5. e.op \in Asking => e.base = f.base
  BY <1>3 DEF Above
<1>6. Len(f.base) \in 1..Len(f.base)
  <2>1. Len(e.base) > 0 /\ Len(e.base) <= Len(f.base)
    BY <1>3, <1>4 DEF FrameFine, Holds, Starts
  <2>. QED
    BY <1>2, <1>4, <2>1
<1>7. ASSUME NEW k \in 1..n - 1 PROVE Starts(frames[k].base, f.base) /\ k \in 1..n
  BY <1>1 DEF FramesFine, Holds
<1>8. ASSUME NEW k \in 1..n - 2, frames[k].op \in Waiting
      PROVE  frames[k].block # f.base[Len(f.base)]
  <2> DEFINE c == frames[k]
             d == frames[k + 1]
  <2>1. k \in 1..n /\ k + 1 \in 1..n /\ k \in 1..n - 1 /\ k + 1 \in 1..n - 1 /\ k \in 1..(k + 1) - 1
    BY <1>1
  <2>2. /\ Above(c, d) /\ Holds(heap, d, f.base) /\ Holds(heap, c, d.base)
        /\ c.base \in Seq(Ids) /\ d.base \in Seq(Ids) /\ FrameFine(heap, c)
    BY Zenon, <1>1, <2>1, FrameType DEF FramesFine
  <2>. HIDE DEF c, d
  <2>3. d.op \in {"next", "function"}
    BY <1>8, <2>2 DEF Above, Waiting, Asking, c
  <2>4. Len(d.base) < Len(f.base)
    BY <2>2, <2>3 DEF Holds, Level
  <2>5. Len(c.base) <= Len(d.base)
    BY <2>2 DEF Holds, Starts
  <2>6. c.base # <<>> /\ c.block = c.base[Len(c.base)]
    BY <1>8, <2>2 DEF FrameFine, c
  <2>7. Starts(c.base, f.base) /\ Starts(f.base, blocks)
    BY <1>1, <1>7, <2>1 DEF c
  <2>8. Len(c.base) \in 1..Len(c.base) /\ Len(c.base) \in 1..Len(blocks)
        /\ Len(f.base) \in 1..Len(blocks) /\ Len(c.base) # Len(f.base)
    BY <1>1, <1>2, <1>6, <2>2, <2>4, <2>5, <2>6, <2>7 DEF Starts
  <2>9. c.block = blocks[Len(c.base)]
    <3>1. c.base[Len(c.base)] = f.base[Len(c.base)] /\ Len(c.base) \in 1..Len(f.base)
      BY <1>2, <2>2, <2>7, <2>8 DEF Starts
    <3>2. f.base[Len(c.base)] = blocks[Len(c.base)]
      BY <2>7, <3>1 DEF Starts
    <3>. QED
      BY <2>6, <3>1, <3>2
  <2>10. f.base[Len(f.base)] = blocks[Len(f.base)]
    BY <1>6, <2>7 DEF Starts
  <2>11. blocks[Len(c.base)] # blocks[Len(f.base)]
    BY Zenon, <1>1, <2>8 DEF Once
  <2>. QED
    BY <2>9, <2>10, <2>11 DEF c
<1>9. IsGenerator(heap, f.iter) /\ heap[f.iter].tag = f.block /\ heap[f.iter].saved = <<>>
  BY <1>1, <1>2 DEF FrameFine
<1>10. Popped(frames, 1) # <<>>
  BY <1>1, <1>3 DEF Pops
<1>. QED
  BY <1>1, <1>2, <1>3, <1>4, <1>5, <1>6, <1>7, <1>8, <1>9, <1>10 DEF RanFrom, f

LEMMA StartsAll ==
  ASSUME NEW s \in Seq(Ids), NEW t \in Seq(Ids), Starts(s, t), Len(s) = Len(t)
  PROVE  s = t
BY DEF Starts

LEMMA StepGeneratorEnded ==
  ASSUME Ready, GeneratorEnded
  PROVE  MachineInv'
<1> DEFINE f == Caller
           e == frames[Len(frames) - 1]
           gs == Popped(frames, 1)
           l == blocks[Len(blocks)]
           p == heap[l].ip
           s == Popped(heap[l].stack, 1)
           v == stack_Top(heap[l].stack)
           m == [heap EXCEPT ![l].stack = s]
<1>1. phase = "check" /\ f.op = "next" /\ f.block \notin ToSet(blocks)
  BY DEF GeneratorEnded
<1>2. MachineInv /\ RanFrom(e, f)
  BY <1>1, RanFacts DEF Ready
<1>3. /\ HeapFine(heap) /\ heap \in [Ids -> Objects] /\ blocks \in Seq(Ids)
      /\ Good(heap, blocks, frames, varnames, ret) /\ AreBlocks(heap, blocks)
      /\ shared \subseteq DOMAIN Code /\ globals \subseteq Modules
      /\ Len(blocks) \in Nat /\ Len(frames) \in Nat
  BY <1>2, InvParts DEF HeapFine
<1>4. /\ f = frames[Len(frames)] /\ f.base \in Seq(Ids) /\ Starts(f.base, blocks)
      /\ Len(f.base) \in 1..Len(f.base)
      /\ IsGenerator(heap, f.iter) /\ heap[f.iter].saved = <<>>
      /\ e.op \in Waiting /\ (e.op \in Asking => e.base = f.base)
      /\ gs[Len(gs)] = e /\ Pops(frames, gs) /\ gs # <<>>
      /\ \A k \in 1..Len(frames) - 2 :
           frames[k].op \in Waiting => frames[k].block # f.base[Len(f.base)]
  BY <1>2 DEF RanFrom
<1>. HIDE DEF f
<1>5. ~Occurs(f.block, blocks)
  BY <1>1, <1>3 DEF Occurs, ToSet
<1>6. Len(blocks) = Len(f.base) /\ RestThere(heap, e, 1)
  <2>1. AtCheck(heap, blocks, frames, ret)
    BY <1>1, <1>2 DEF MachineInv
  <2>2. ~Level(heap, f, blocks)
    <3> SUFFICES ASSUME Level(heap, f, blocks) PROVE FALSE
      OBVIOUS
    <3>1. Len(f.base) < Len(blocks) /\ blocks[Len(f.base) + 1] = f.block
      BY <1>1 DEF Level
    <3>2. Len(f.base) + 1 \in 1..Len(blocks)
      BY <1>3, <1>4, <3>1
    <3>. QED
      BY <1>5, <3>1, <3>2 DEF Occurs
  <2>. QED
    BY <1>1, <1>4, <2>1, <2>2 DEF AtCheck
<1>7. f.base = blocks
  BY <1>3, <1>4, <1>6, StartsAll
<1>8. blocks # <<>> /\ Len(blocks) \in 1..Len(blocks) /\ Last(blocks) = l
  BY <1>3, <1>4, <1>7 DEF Last
<1>9. l \in Ids /\ heap[l].type = "block"
  BY <1>3, <1>8 DEF AreBlocks
<1>10. Gives(m, blocks, gs, v)
  <2> DEFINE below == [heap EXCEPT ![l].stack = Popped(@, 1)]
  <2>1. Gives([below EXCEPT ![f.iter].saved = <<>>], blocks, gs, v)
    BY <1>8 DEF GeneratorEnded, f
  <2>2. below = m
    OBVIOUS
  <2>3. [m EXCEPT ![f.iter].saved = <<>>] = m
    <3>1. f.iter # l /\ f.iter \in Ids /\ heap[f.iter] \in GeneratorRecs
      BY <1>3, <1>4, <1>9, AsleepIn DEF IsGenerator
    <3>2. m[f.iter] = heap[f.iter] /\ m \in [Ids -> Objects \cup {m[l]}]
      BY Zenon, <1>3, <3>1
    <3>3. [m[f.iter] EXCEPT !.saved = <<>>] = m[f.iter]
      BY Zenon, <1>4, <3>1, <3>2 DEF GeneratorRecs
    <3>. HIDE DEF m
    <3>4. [m EXCEPT ![f.iter].saved = <<>>] = [m EXCEPT ![f.iter] = [m[f.iter] EXCEPT !.saved = <<>>]]
      OBVIOUS
    <3>. QED
      BY <3>2, <3>3, <3>4
  <2>. HIDE DEF below, m
  <2>. QED
    BY <2>1, <2>2, <2>3
<1>11. SafeStack(heap, heap[l].stack) /\ p \in Nat /\ PlacedAt(heap[l], p)
  BY <1>3, <1>9, BlockType DEF SafeStack, BlockSees
<1>12. SafeStack(heap, s)
  BY <1>11, SafePopped
<1>13. MovedTo(heap, m, l, p, s)
  <2>1. MovedTo(heap, heap, l, p, heap[l].stack)
    BY <1>3, <1>9 DEF MovedTo
  <2>. HIDE DEF s, p
  <2>. QED
    BY <1>12, <2>1, StackIs DEF SafeStack
<1>14. v \in Values /\ Safe(heap, v)
  BY <1>11, SafeTop
<1>15. Good(heap, blocks, gs, varnames, v)
  <2>1. Good(heap, blocks, gs, varnames, ret)
    BY <1>3, <1>4, <1>5, FramePopped
  <2>. HIDE DEF gs, v
  <2>. QED
    BY <1>14, <2>1, GoodValue
<1>16. Suits(heap, gs, l, p, s)
  <2> SUFFICES ASSUME NEW k \in 1..Len(gs), gs[k].op = "build", gs[k].block = l,
                      NEW i \in 1..Len(gs[k].arg.rest)
               PROVE  \E j \in 1..Len(s) : s[j] = gs[k].arg.rest[i]
    BY DEF Suits
  <2>1. k \in 1..Len(frames) - 1 /\ gs[k] = frames[k]
    BY <1>4 DEF Pops
  <2>2. CASE k = Len(frames) - 1
    <3>1. gs[k] = e
      BY <2>1, <2>2
    <3>2. PICK j \in 1..Len(heap[l].stack) - 1 : heap[l].stack[j] = gs[k].arg.rest[i]
      BY Zenon, <1>6, <3>1 DEF RestThere
    <3>3. j \in 1..Len(s) /\ s[j] = heap[l].stack[j]
      BY <1>11, <3>2, PoppedHas DEF SafeStack
    <3>. QED
      BY <3>2, <3>3
  <2>3. CASE k # Len(frames) - 1
    <3>1. k \in 1..Len(frames) - 2
      BY <1>3, <2>1, <2>3
    <3>. QED
      BY <1>4, <1>7, <2>1, <3>1 DEF Waiting
  <2>. QED
    BY <2>2, <2>3
<1>17. Good(m, blocks, gs, varnames, v)
  <2>1. CanMove(heap, blocks, gs, Len(blocks), p, s)
    BY <1>8, <1>11, <1>12, <1>16 DEF CanMove, SafeStack
  <2>. HIDE DEF m, p, s, gs, v
  <2>. QED
    BY <1>13, <1>15, <2>1, MovedGood
<1>18. /\ heap' = m /\ blocks' = blocks /\ frames' = gs /\ ret' = v /\ phase' = "got"
       /\ shared' = shared /\ globals' = globals /\ varnames' = varnames
  BY <1>10 DEF Gives, GivesAfter, statics
<1>19. Caller' = e
  BY <1>4, <1>18 DEF Caller, Last
<1>20. AtNext(blocks, e)
  BY <1>4, <1>7 DEF AtNext
<1>. QED
  BY <1>3, <1>17, <1>18, <1>19, <1>20 DEF MachineInv

(***************************************************************************)
(* A generator that yields.                                                *)
(***************************************************************************)
(* What an iterator is given to keep: the blocks above its own, the top    *)
(* one first.                                                              *)
Cut(bs, at, s) == s = <<>> \o Reverse(SubSeq(bs, at + 1, Len(bs)))

LEMMA CutIs ==
  ASSUME NEW bs \in Seq(Ids), NEW at \in 1..Len(bs), NEW s, Cut(bs, at, s)
  PROVE  /\ s \in Seq(Ids) /\ Len(s) = Len(bs) - at
         /\ \A j \in 1..Len(s) : s[j] = bs[Len(bs) - j + 1]
<1> DEFINE u == SubSeq(bs, at + 1, Len(bs))
<1>1. Len(bs) \in Nat /\ at \in Nat /\ at <= Len(bs)
  OBVIOUS
<1>2. u \in Seq(Ids) /\ Len(u) = Len(bs) - at
  BY <1>1
<1>3. \A k \in 1..Len(u) : u[k] = bs[at + k]
  BY <1>1, <1>2
<1>4. s = <<>> \o Reverse(u)
  BY DEF Cut
<1>. HIDE DEF u
<1>5. /\ Reverse(u) \in Seq(Ids) /\ Len(Reverse(u)) = Len(u)
      /\ \A j \in 1..Len(u) : Reverse(u)[j] = u[Len(u) - j + 1] /\ Len(u) - j + 1 \in 1..Len(u)
  BY Zenon, <1>2, ReverseIs
<1>6. s = Reverse(u)
  BY <1>4, <1>5
<1>7. ASSUME NEW j \in 1..Len(s) PROVE s[j] = bs[Len(bs) - j + 1]
  <2> DEFINE k == Len(u) - j + 1
  <2>1. s[j] = u[k] /\ k \in 1..Len(u)
    BY <1>5, <1>6
  <2>2. at + k = Len(bs) - j + 1
    BY <1>1, <1>2, <1>5, <1>6
  <2>. HIDE DEF k
  <2>. QED
    BY Zenon, <1>3, <2>1, <2>2
<1>. QED
  BY Zenon, <1>2, <1>5, <1>6, <1>7

(* The last place of what occurs once. *)
PlacesOf(bs, b) == {i \in 1..Len(bs) : bs[i] = b}

LEMMA OnlyPlace ==
  ASSUME NEW bs \in Seq(Ids), Once(bs), NEW n \in 1..Len(bs), NEW b, bs[n] = b
  PROVE  PlacesOf(bs, b) # {} /\ Max(PlacesOf(bs, b)) = n
<1> DEFINE S == PlacesOf(bs, b)
<1>1. n \in S /\ Len(bs) \in Nat /\ S # {} /\ \A i \in S : i \in 1..Len(bs)
  BY DEF PlacesOf
<1>2. \A i \in S : i = n
  BY DEF Once, PlacesOf
<1>. HIDE DEF S
<1>3. Max(S) \in S
  BY Zenon, <1>1, GreatestOf
<1>. QED
  BY Zenon, <1>1, <1>2, <1>3 DEF S

(* The blocks from the generator's own to the top are what it keeps, and   *)
(* those of no other generator are among them.                             *)
LEMMA KeptApart ==
  ASSUME MachineInv, Caller.op = "next", Level(heap, Caller, blocks),
         NEW w \in Seq(Ids), Len(w) = Len(blocks) - Len(Caller.base),
         \A k \in 1..Len(w) : w[k] = blocks[Len(Caller.base) + k],
         NEW j, IsGenerator(heap, j), j # Caller.iter
  PROVE  Disjoint(w, Asleep(heap, j))
<1> DEFINE f == Caller
           n == Len(f.base)
           b == heap[j].tag
<1>1. RanFrom(frames[Len(frames) - 1], f)
  BY RanFacts
<1>2. /\ HeapFine(heap) /\ blocks \in Seq(Ids) /\ Once(blocks) /\ Apart(heap, blocks)
      /\ AllRun(heap, blocks, frames) /\ FramesFine(heap, frames) /\ Len(blocks) \in Nat
      /\ Len(frames) \in Nat
  BY InvParts
<1>3. /\ f = frames[Len(frames)] /\ f.base \in Seq(Ids) /\ Starts(f.base, blocks)
      /\ IsGenerator(heap, f.iter) /\ heap[f.iter].tag = f.block
  BY <1>1 DEF RanFrom
<1>. HIDE DEF f
<1>4. Len(w) = Len(blocks) - n /\ (\A k \in 1..Len(w) : w[k] = blocks[n + k])
      /\ j # f.iter /\ n \in Nat
  <2>1. j # f.iter /\ Len(w) = Len(blocks) - n
    BY DEF f
  <2>2. n \in Nat
    BY <1>3
  <2>3. \A k \in 1..Len(w) : w[k] = blocks[n + k]
    BY DEF f
  <2>. QED
    BY Zenon, <2>1, <2>2, <2>3
<1>. HIDE DEF n
<1>5. \A k \in 1..Len(w) : n + k \in 1..Len(blocks)
  BY <1>2, <1>4
<1>6. Disjoint(heap[j].saved, blocks)
  BY <1>2 DEF Apart, IsGenerator
<1>7. ASSUME Occurs(b, blocks)
      PROVE  \E i \in 1..n : blocks[i] = b
  <2>1. PICK k \in 1..Len(frames) : frames[k].op = "next" /\ frames[k].block = b
    BY <1>2, <1>7 DEF AllRun, IsGenerator
  <2>2. k # Len(frames)
    <3> SUFFICES ASSUME k = Len(frames) PROVE FALSE
      OBVIOUS
    <3>1. heap[f.iter].tag = b
      BY <1>3, <2>1
    <3>2. Disjoint(Asleep(heap, f.iter), Asleep(heap, j))
      BY <1>2, <1>3, <1>4 DEF Apart, IsGenerator
    <3>3. Occurs(b, Asleep(heap, f.iter)) /\ Occurs(b, Asleep(heap, j))
      BY <1>2, <1>3, <3>1, AsleepIn
    <3>. QED
      BY <3>2, <3>3, DisjointIs
  <2>3. k \in 1..Len(frames) - 1 /\ Len(frames) \in 1..Len(frames)
    BY <1>2, <2>1, <2>2
  <2>4. Holds(heap, frames[k], f.base) /\ frames[k].base \in Seq(Ids)
    BY Zenon, <1>2, <1>3, <2>1, <2>3, FrameType DEF FramesFine
  <2> DEFINE i == Len(frames[k].base) + 1
  <2>5. i <= n /\ f.base[i] = b /\ i \in Nat /\ i > 0
    BY <2>1, <2>4 DEF Holds, Level, n
  <2>. HIDE DEF i
  <2>6. i \in 1..Len(f.base)
    BY <1>4, <2>5 DEF n
  <2>7. blocks[i] = b
    BY <1>3, <2>5, <2>6 DEF Starts
  <2>8. i \in 1..n
    BY <1>4, <2>5
  <2>. QED
    BY <2>7, <2>8
<1>8. \A k \in 1..Len(w) : w[k] # b
  <2> SUFFICES ASSUME NEW k \in 1..Len(w), w[k] = b PROVE FALSE
    OBVIOUS
  <2>1. n + k \in 1..Len(blocks) /\ blocks[n + k] = b
    BY <1>4, <1>5
  <2>2. PICK i \in 1..n : blocks[i] = b
    BY <1>7, <2>1 DEF Occurs
  <2>3. i \in 1..Len(blocks) /\ i # n + k
    BY <1>2, <1>4, <1>5, <2>1, <2>2
  <2>. QED
    BY <1>2, <2>1, <2>2, <2>3 DEF Once
<1>9. \A k \in 1..Len(w) : ~Occurs(w[k], heap[j].saved)
  BY <1>4, <1>5, <1>6 DEF Disjoint, Occurs
<1>10. \A k \in 1..Len(w) : ~Occurs(w[k], Asleep(heap, j))
  BY Zenon, <1>2, <1>8, <1>9, AsleepIn
<1>. QED
  BY <1>10 DEF Disjoint, Occurs

LEMMA StepYielded ==
  ASSUME Ready, Yielded
  PROVE  MachineInv'
<1> DEFINE f == Caller
           e == frames[Len(frames) - 1]
           gs == Popped(frames, 1)
           a == f.iter
           n == Len(f.base)
           at == SelectLastInSeq(blocks, LAMBDA b : b = f.block)
           s == heap[a].saved \o Reverse(SubSeq(blocks, at + 1, Len(blocks)))
           m == [heap EXCEPT ![a].saved = s]
           w == Asleep(m, a)
<1>1. phase = "check" /\ f.op = "next" /\ at # 0
      /\ Gives(m, SubSeq(blocks, 1, at - 1), gs, ret)
  BY DEF Yielded
<1>2. MachineInv /\ RanFrom(e, f)
  BY <1>1, RanFacts DEF Ready
<1>3. /\ HeapFine(heap) /\ heap \in [Ids -> Objects] /\ blocks \in Seq(Ids) /\ Once(blocks)
      /\ Good(heap, blocks, frames, varnames, ret) /\ AreBlocks(heap, blocks)
      /\ Laid(heap, blocks) /\ FramesFine(heap, frames)
      /\ shared \subseteq DOMAIN Code /\ globals \subseteq Modules
      /\ Len(blocks) \in Nat /\ Len(frames) \in Nat /\ Len(frames) \in 1..Len(frames)
  BY <1>2, InvParts DEF HeapFine
<1>4. /\ f = frames[Len(frames)] /\ f.base \in Seq(Ids) /\ Starts(f.base, blocks)
      /\ IsGenerator(heap, a) /\ heap[a].saved = <<>> /\ heap[a].tag = f.block
      /\ e.op \in Waiting /\ (e.op \in Asking => e.base = f.base)
      /\ gs[Len(gs)] = e /\ Pops(frames, gs) /\ gs # <<>>
      /\ \A k \in 1..Len(frames) - 1 : Starts(frames[k].base, f.base)
  BY <1>2 DEF RanFrom
<1>5. Level(heap, f, blocks)
  <2>1. Occurs(f.block, blocks)
    <3> SUFFICES ASSUME ~Occurs(f.block, blocks) PROVE FALSE
      OBVIOUS
    <3>1. {i \in 1..Len(blocks) : blocks[i] = f.block} = {}
      BY DEF Occurs
    <3>. QED
      BY <1>1, <3>1 DEF SelectLastInSeq
  <2>2. AtCheck(heap, blocks, frames, ret)
    BY <1>1, <1>2 DEF MachineInv
  <2>. QED
    BY <1>1, <1>4, <2>1, <2>2 DEF AtCheck
<1>. HIDE DEF f
<1>6. n \in Nat /\ n + 1 \in 1..Len(blocks) /\ blocks[n + 1] = f.block
  BY <1>1, <1>3, <1>4, <1>5 DEF Level
<1>. HIDE DEF n
<1>7. at = n + 1
  <2>1. at = IF PlacesOf(blocks, f.block) # {} THEN Max(PlacesOf(blocks, f.block)) ELSE 0
    BY DEF SelectLastInSeq, PlacesOf
  <2>. HIDE DEF at
  <2>. QED
    BY <1>3, <1>6, <2>1, OnlyPlace
<1>8. Cut(blocks, n + 1, s)
  BY <1>4, <1>7 DEF Cut
<1>. HIDE DEF s, at
<1>9. /\ s \in Seq(Ids) /\ Len(s) = Len(blocks) - (n + 1)
      /\ \A j \in 1..Len(s) : s[j] = blocks[Len(blocks) - j + 1]
  BY Zenon, <1>3, <1>6, <1>8, CutIs
<1>10. SubSeq(blocks, 1, at - 1) = f.base
  <2>1. at - 1 = n /\ n <= Len(blocks)
    BY <1>6, <1>7
  <2> DEFINE t == SubSeq(blocks, 1, n)
  <2>2. t \in Seq(Ids) /\ Len(t) = n /\ \A k \in 1..n : t[k] = blocks[k]
    BY <1>3, <1>6, <2>1
  <2>. HIDE DEF t
  <2>3. Starts(t, f.base)
    BY <1>4, <1>6, <2>2 DEF Starts, n
  <2>4. t = f.base
    BY <1>4, <2>2, <2>3, StartsAll DEF n
  <2>. QED
    BY <2>1, <2>4 DEF t
<1>11. SavedTo(heap, m, a, s)
  BY Zenon, <1>3, <1>4, <1>9, SavedIs DEF IsGenerator
<1>12. m[a].saved = s /\ m[a].tag = blocks[n + 1]
  BY <1>4, <1>6, <1>11 DEF SavedTo
<1>13. Len(w) = Len(s) + 1 /\ \A k \in 1..Len(s) + 1 :
         w[k] = IF k = 1 THEN blocks[n + 1] ELSE s[Len(s) + 2 - k]
  BY <1>12 DEF Asleep
<1>. HIDE DEF w, m
<1>14. Len(w) = Len(blocks) - n /\ Len(w) \in Nat
  BY <1>3, <1>6, <1>9, <1>13
<1>15. ASSUME NEW k \in 1..Len(w)
       PROVE  w[k] = blocks[n + k] /\ n + k \in 1..Len(blocks) /\ w[k] \in Ids
  <2>1. n + k \in 1..Len(blocks)
    BY <1>3, <1>6, <1>14
  <2>2. CASE k = 1
    BY <1>3, <1>13, <2>1, <2>2
  <2>3. CASE k # 1
    <3> DEFINE i == Len(s) + 2 - k
    <3>1. i \in 1..Len(s) /\ Len(blocks) - i + 1 = n + k /\ k \in 1..Len(s) + 1
      BY <1>3, <1>6, <1>9, <1>14, <2>3
    <3>2. w[k] = s[i]
      BY <1>13, <2>3, <3>1
    <3>. HIDE DEF i
    <3>3. s[i] = blocks[n + k]
      BY <1>9, <3>1
    <3>. QED
      BY <1>3, <2>1, <3>2, <3>3
  <2>. QED
    BY <2>2, <2>3
<1>16. w \in Seq(Ids)
  <2>1. DOMAIN w = 1..Len(s) + 1 /\ w = [k \in 1..Len(s) + 1 |-> w[k]]
    BY <1>12 DEF w, Asleep
  <2>2. Len(s) + 1 = Len(w)
    BY <1>13
  <2>3. w \in [1..Len(w) -> Ids]
    BY <1>15, <2>1, <2>2
  <2>. QED
    BY <1>14, <2>3
<1>17. Laid(heap, w)
  <2>1. AreBlocks(heap, w)
    BY <1>3, <1>15, <1>16 DEF AreBlocks
  <2>2. Once(w)
    <3> SUFFICES ASSUME NEW j \in 1..Len(w), NEW k \in 1..Len(w), w[j] = w[k] PROVE j = k
      BY DEF Once
    <3>1. n + j = n + k
      BY Zenon, <1>3, <1>15 DEF Once
    <3>. QED
      BY <1>6, <1>14, <3>1
  <2>3. NestedOn(heap, w)
    <3>1. heap[blocks[n + 1]].start = 0
      BY <1>1, <1>5 DEF Level, n
    <3>2. w[1] = blocks[n + 1]
      BY <1>9, <1>13
    <3>3. ASSUME NEW k \in 1..Len(w) - 1, heap[w[k + 1]].start # 0
          PROVE  heap[w[k]].code = heap[w[k + 1]].code /\ heap[w[k]].ip = heap[w[k + 1]].len
      <4>1. k \in 1..Len(w) /\ k + 1 \in 1..Len(w) /\ n + (k + 1) = (n + k) + 1
        BY <1>6, <1>14
      <4>2. w[k] = blocks[n + k] /\ w[k + 1] = blocks[(n + k) + 1]
        <5>1. w[k + 1] = blocks[n + (k + 1)]
          BY <1>15, <4>1
        <5>. QED
          BY <1>15, <4>1, <5>1
      <4>4. n + k \in 1..Len(blocks) - 1
        BY <1>3, <1>6, <1>14, <4>1
      <4>. QED
        BY Zenon, <1>3, <3>3, <4>2, <4>4 DEF Laid, NestedOn
    <3>. QED
      BY <3>1, <3>2, <3>3 DEF NestedOn
  <2>. QED
    BY <2>1, <2>2, <2>3 DEF Laid
<1>18. \A k \in 1..Len(blocks) : k > n => ~Occurs(blocks[k], f.base)
  <2> SUFFICES ASSUME NEW k \in 1..Len(blocks), k > n, NEW j \in 1..Len(f.base), f.base[j] = blocks[k]
               PROVE  FALSE
    BY DEF Occurs
  <2>1. j \in 1..Len(blocks) /\ blocks[j] = blocks[k] /\ j <= n
    BY <1>3, <1>4, <1>6 DEF Starts, n
  <2>. QED
    BY <1>3, <1>6, <2>1 DEF Once
<1>19. ~Occurs(f.block, f.base)
  BY <1>6, <1>18
<1>20. Disjoint(s, f.base)
  <2> SUFFICES ASSUME NEW j \in 1..Len(s) PROVE ~Occurs(s[j], f.base)
    BY DEF Disjoint, Occurs
  <2>1. Len(blocks) - j + 1 \in 1..Len(blocks) /\ Len(blocks) - j + 1 > n
    BY <1>3, <1>6, <1>9
  <2>. QED
    BY Zenon, <1>9, <1>18, <2>1
<1>21. Good(heap, f.base, gs, varnames, ret)
  <2>1. \A k \in 1..Len(frames) : Starts(frames[k].base, f.base)
    <3>1. Starts(f.base, f.base)
      BY DEF Starts
    <3>2. \A k \in 1..Len(frames) : k = Len(frames) \/ k \in 1..Len(frames) - 1
      BY <1>3
    <3>. QED
      BY <1>4, <3>1, <3>2
  <2>2. Good(heap, f.base, frames, varnames, ret)
    BY <1>3, <1>4, <2>1, ShorterGood
  <2>3. frames[Len(frames)].block = f.block
    BY <1>4
  <2>. HIDE DEF gs
  <2>. QED
    BY <1>4, <1>19, <2>2, <2>3, FramePopped
<1>22. \A j \in Ids : IsGenerator(heap, j) /\ j # a => Disjoint(w, Asleep(heap, j))
  <2>1. Caller.op = "next" /\ Level(heap, Caller, blocks) /\ Len(w) = Len(blocks) - Len(Caller.base)
        /\ a = Caller.iter
    BY <1>1, <1>5, <1>14 DEF f, n
  <2>2. \A k \in 1..Len(w) : w[k] = blocks[Len(Caller.base) + k]
    BY <1>15 DEF f, n
  <2>. HIDE DEF a
  <2>. QED
    BY <1>2, <1>16, <2>1, <2>2, KeptApart
<1>23. ASSUME NEW k \in 1..Len(gs), gs[k].op = "next" PROVE gs[k].iter # a
  <2>1. k \in 1..Len(frames) - 1 /\ k \in 1..Len(frames) /\ gs[k] = frames[k]
    BY <1>3, <1>4 DEF Pops
  <2>2. /\ FrameFine(heap, frames[k]) /\ frames[k].base \in Seq(Ids)
        /\ Holds(heap, frames[k], f.base)
    BY Zenon, <1>3, <1>4, <2>1, FrameType DEF FramesFine
  <2>3. frames[k].iter = a => frames[k].block = f.block
    BY <1>4, <1>23, <2>1, <2>2 DEF FrameFine
  <2>4. Occurs(frames[k].block, f.base)
    <3>1. /\ Len(frames[k].base) < Len(f.base) /\ f.base[Len(frames[k].base) + 1] = frames[k].block
          /\ Len(frames[k].base) \in Nat /\ Len(f.base) \in Nat
      BY <1>4, <1>23, <2>1, <2>2 DEF Holds, Level
    <3>2. Len(frames[k].base) + 1 \in 1..Len(f.base)
      BY <3>1
    <3>. QED
      BY <3>1, <3>2 DEF Occurs
  <2>. QED
    BY <1>19, <2>1, <2>3, <2>4
<1>24. Good(m, f.base, gs, varnames, ret)
  <2>1. ~Occurs(heap[a].tag, f.base)
    BY <1>4, <1>19
  <2>2. \A k \in 1..Len(gs) : gs[k].op = "next" /\ gs[k].iter = a => s = <<>>
    BY <1>23
  <2>3. Laid(heap, Asleep(m, a))
    BY <1>17 DEF w
  <2>4. \A j \in Ids : IsGenerator(heap, j) /\ j # a => Disjoint(Asleep(m, a), Asleep(heap, j))
    BY <1>22 DEF w
  <2>. HIDE DEF gs, a
  <2>. QED
    BY <1>11, <1>20, <1>21, <2>1, <2>2, <2>3, <2>4, SavedGood
<1>25. /\ heap' = m /\ blocks' = f.base /\ frames' = gs /\ ret' = ret /\ phase' = "got"
       /\ shared' = shared /\ globals' = globals /\ varnames' = varnames
  BY Zenon, <1>1, <1>10 DEF Gives, GivesAfter, statics, m, at, s
<1>26. Caller' = e
  BY <1>4, <1>25 DEF Caller, Last
<1>27. AtNext(f.base, e)
  BY <1>4 DEF AtNext
<1>. QED
  BY <1>3, <1>24, <1>25, <1>26, <1>27 DEF MachineInv

(***************************************************************************)
(* The loops around vm_Step.                                               *)
(***************************************************************************)
LEMMA StepStepAgain ==
  ASSUME Ready, StepAgain
  PROVE  MachineInv'
<1>1. /\ MachineInv /\ phase = "check" /\ ret = Nothing /\ phase' = "step"
      /\ heap' = heap /\ blocks' = blocks /\ frames' = frames /\ ret' = ret
      /\ shared' = shared /\ globals' = globals /\ varnames' = varnames
      /\ \/ Caller.op \in {"object", "function"}
         \/ Caller.op = "next" /\ Caller.block \in ToSet(blocks)
         \/ Caller.op = "method" /\ Len(blocks) # Caller.arg
  BY DEF StepAgain, Ready, statics
<1>2. /\ Caller = frames[Len(frames)] /\ Len(frames) \in 1..Len(frames) /\ blocks \in Seq(Ids)
      /\ FramesFine(heap, frames) /\ Starts(Caller.base, blocks) /\ Len(blocks) \in Nat
      /\ Good(heap, blocks, frames, varnames, ret)
      /\ shared \subseteq DOMAIN Code /\ globals \subseteq Modules
  BY <1>1, InvParts
<1>3. FrameFine(heap, Caller) /\ Caller.base \in Seq(Ids)
  BY <1>2, FrameType
<1>4. AtCheck(heap, blocks, frames, ret)
  BY <1>1 DEF MachineInv
<1>5. Caller.op = "next" => Occurs(Caller.block, blocks)
  BY <1>1, <1>2 DEF Occurs, ToSet
<1>6. Level(heap, Caller, blocks)
  BY <1>1, <1>2, <1>4, <1>5 DEF AtCheck, Level
<1>7. Caller.op = "method" => Len(Caller.base) < Len(blocks)
  BY <1>1, <1>2, <1>3 DEF FrameFine, Starts
<1>8. AtStep(heap, blocks, Caller)
  BY <1>2, <1>4, <1>6, <1>7 DEF AtStep, AtCheck
<1>9. Caller' = Caller
  BY <1>1 DEF Caller
<1>. QED
  BY <1>1, <1>2, <1>8, <1>9 DEF MachineInv

LEMMA StepFunctionDone ==
  ASSUME Ready, FunctionDone
  PROVE  MachineInv'
<1> DEFINE e == frames[Len(frames) - 1]
           gs == Popped(frames, 1)
<1>1. /\ MachineInv /\ Caller.op = "function" /\ phase' = "next"
      /\ heap' = heap /\ blocks' = blocks /\ frames' = gs /\ ret' = Nothing
      /\ shared' = shared /\ globals' = globals /\ varnames' = varnames
  BY DEF FunctionDone, Waits, Ready, statics
<1>2. /\ Caller = frames[Len(frames)] /\ Len(frames) \in 1..Len(frames) /\ blocks \in Seq(Ids)
      /\ FramesFine(heap, frames) /\ Good(heap, blocks, frames, varnames, ret)
      /\ shared \subseteq DOMAIN Code /\ globals \subseteq Modules
  BY <1>1, InvParts
<1>3. /\ Pops(frames, gs) /\ Len(frames) - 1 \in 1..Len(frames)
      /\ Above(e, frames[Len(frames)]) /\ gs[Len(gs)] = e
  <2>1. frames[Len(frames)].op # "object"
    BY <1>1, <1>2
  <2>. QED
    BY <1>2, <2>1, PopsIs
<1>4. e.op \in Waiting \cup Looping
  BY Zenon, <1>2, <1>3, FrameType
<1>5. e.op = "map"
  BY <1>1, <1>2, <1>3, <1>4 DEF Above, Asking, Waiting
<1>6. AtNext(blocks, e)
  BY <1>5 DEF AtNext, Waiting, Asking
<1>7. gs # <<>>
  BY <1>2, <1>3 DEF Pops
<1>. HIDE DEF gs, e
<1>8. Good(heap, blocks, gs, varnames, ret)
  <2>1. frames[Len(frames)].op # "next"
    BY <1>1, <1>2
  <2>. QED
    BY <1>2, <1>3, <2>1, FramePopped
<1>9. Good(heap, blocks, gs, varnames, Nothing)
  BY <1>8, GoodValue, ValueFacts
<1>10. Caller' = e
  BY <1>1, <1>3, <1>7 DEF Caller, Last
<1>. QED
  BY <1>1, <1>2, <1>6, <1>9, <1>10 DEF MachineInv

LEMMA StepObjectDone ==
  ASSUME Ready, ObjectDone
  PROVE  MachineInv'
<1>1. /\ MachineInv /\ phase' = "done"
      /\ heap' = heap /\ blocks' = blocks /\ frames' = frames /\ ret' = ret
      /\ shared' = shared /\ globals' = globals /\ varnames' = varnames
  BY DEF ObjectDone, Ready, statics
<1>. QED
  BY <1>1 DEF MachineInv

LEMMA Stutters ==
  ASSUME MachineInv, UNCHANGED vars
  PROVE  MachineInv'
<1>1. /\ heap' = heap /\ blocks' = blocks /\ frames' = frames /\ ret' = ret /\ phase' = phase
      /\ shared' = shared /\ globals' = globals /\ varnames' = varnames
  BY DEF vars, statics
<1>2. Caller' = Caller
  BY <1>1 DEF Caller
<1>. QED
  BY <1>1, <1>2 DEF MachineInv

(* The blocks of the calls that wait lie below what the innermost call     *)
(* found.                                                                  *)
LEMMA WaitersBelow ==
  ASSUME MachineInv, NEW k \in 1..Len(frames) - 2, frames[k].op \in Waiting
  PROVE  /\ Len(frames[k].base) \in 1..Len(blocks) /\ Len(frames[k].base) < Len(blocks)
         /\ frames[k].block = blocks[Len(frames[k].base)]
<1> DEFINE f == Caller
           n == Len(frames)
           c == frames[k]
           d == frames[k + 1]
<1>1. /\ f = frames[n] /\ n \in 1..n /\ n \in Nat /\ FramesFine(heap, frames)
      /\ blocks \in Seq(Ids) /\ Len(blocks) \in Nat
      /\ \A j \in 1..n : Starts(frames[j].base, blocks)
  BY InvParts
<1>. HIDE DEF f
<1>2. f.base \in Seq(Ids) /\ Starts(f.base, blocks)
  BY <1>1, FrameType
<1>3. k \in 1..n /\ k + 1 \in 1..n /\ k \in 1..n - 1 /\ k + 1 \in 1..n - 1 /\ k \in 1..(k + 1) - 1
  BY <1>1
<1>4. /\ Above(c, d) /\ Holds(heap, d, f.base) /\ Holds(heap, c, d.base)
      /\ c.base \in Seq(Ids) /\ d.base \in Seq(Ids) /\ FrameFine(heap, c)
      /\ Starts(c.base, blocks) /\ c.op \in Waiting
  BY Zenon, <1>1, <1>3, FrameType DEF FramesFine
<1>. HIDE DEF c, d
<1>5. d.op \in {"next", "function"}
  BY <1>4 DEF Above, Waiting, Asking
<1>6. Len(d.base) < Len(f.base)
  BY <1>4, <1>5 DEF Holds, Level
<1>7. Len(c.base) <= Len(d.base) /\ Len(f.base) <= Len(blocks)
  BY <1>2, <1>4 DEF Holds, Starts
<1>8. c.base # <<>> /\ c.block = c.base[Len(c.base)]
  BY <1>4 DEF FrameFine
<1>9. Len(c.base) \in 1..Len(c.base) /\ Len(c.base) \in 1..Len(blocks) /\ Len(c.base) < Len(blocks)
  BY <1>1, <1>2, <1>4, <1>6, <1>7, <1>8
<1>10. c.block = blocks[Len(c.base)]
  BY <1>4, <1>8, <1>9 DEF Starts
<1>. QED
  BY <1>9, <1>10 DEF c

Cleared(held, f) == [held EXCEPT ![f][1] = Variable(Nothing, Nothing)]

LEMMA ClearedFine ==
  ASSUME NEW h, NEW held, VarsFine(h, held), NEW f
  PROVE  VarsFine(h, Cleared(held, f))
<1> DEFINE v == Variable(Nothing, Nothing)
<1>1. v \in Slots /\ Safe(h, v.value)
  BY ValueFacts DEF Variable, Slots
<1>2. held \in [DOMAIN Code -> Seq(Slots)]
  BY DEF VarsFine
<1>3. Cleared(held, f) = [held EXCEPT ![f][1] = v]
  BY DEF Cleared
<1>. HIDE DEF v
<1>4. CASE f \notin DOMAIN Code
  <2>1. [held EXCEPT ![f][1] = v] = held
    BY <1>2, <1>4
  <2>. QED
    BY Zenon, <1>3, <2>1
<1>5. CASE f \in DOMAIN Code /\ Code[f].vars = 0
  <2>1. Len(held[f]) = 0 /\ held[f] \in Seq(Slots)
    BY <1>2, <1>5 DEF VarsFine
  <2>2. [held[f] EXCEPT ![1] = v] = held[f]
    BY <2>1
  <2>3. [held EXCEPT ![f][1] = v] = [held EXCEPT ![f] = [held[f] EXCEPT ![1] = v]]
    OBVIOUS
  <2>4. [held EXCEPT ![f] = held[f]] = held
    BY <1>2, <1>5
  <2>. QED
    BY Zenon, <1>3, <2>2, <2>3, <2>4
<1>6. CASE f \in DOMAIN Code /\ Code[f].vars # 0
  <2>1. Code[f].vars \in Nat
    BY Zenon, <1>6, CodeFine
  <2>2. 1 \in 1..Code[f].vars
    BY <1>6, <2>1
  <2>3. VarsFine(h, [held EXCEPT ![f][1] = v])
    BY <1>1, <1>6, <2>2, StoreFastStatic
  <2>. QED
    BY <1>3, <2>3
<1>. QED
  BY <1>4, <1>5, <1>6

LEMMA StepMethodDone ==
  ASSUME Ready, MethodDone
  PROVE  MachineInv'
<1> DEFINE f == Caller
           e == frames[Len(frames) - 1]
           gs == Popped(frames, 1)
           l == Last(blocks)
           p == heap[l].ip
           s == Popped(heap[l].stack, 1)
           m == [heap EXCEPT ![l].stack = s]
           g == IF blocks = <<>> THEN heap ELSE m
<1>1. /\ phase = "check" /\ f.op = "method" /\ shared' = shared /\ globals' = globals
      /\ varnames' = Cleared(varnames, f.name) /\ EndsAfter(g, blocks, gs, Nothing)
  BY DEF MethodDone, Cleared
<1>2. MachineInv
  BY DEF Ready
<1>3. /\ HeapFine(heap) /\ heap \in [Ids -> Objects] /\ blocks \in Seq(Ids) /\ Once(blocks)
      /\ Good(heap, blocks, frames, varnames, ret) /\ AreBlocks(heap, blocks)
      /\ FramesFine(heap, frames) /\ VarsFine(heap, varnames)
      /\ shared \subseteq DOMAIN Code /\ globals \subseteq Modules
      /\ Len(blocks) \in Nat /\ Len(frames) \in Nat /\ Len(frames) \in 1..Len(frames)
      /\ f = frames[Len(frames)] /\ Starts(f.base, blocks)
  BY <1>2, InvParts DEF HeapFine
<1>4. /\ Pops(frames, gs) /\ Len(frames) - 1 \in 1..Len(frames)
      /\ Above(e, f) /\ gs[Len(gs)] = e /\ Holds(heap, e, f.base)
  <2>1. frames[Len(frames)].op # "object"
    BY <1>1, <1>3
  <2>. QED
    BY <1>3, <2>1, PopsIs
<1>5. e.op \in Looping /\ e.base \in Seq(Ids) /\ f.base \in Seq(Ids)
  <2>1. e.op \in Waiting \cup Looping /\ e.base \in Seq(Ids) /\ f.base \in Seq(Ids)
    BY <1>3, <1>4, FrameType
  <2>. QED
    BY <1>1, <1>4, <2>1 DEF Above, Asking, Waiting
<1>6. Level(heap, e, blocks)
  BY <1>3, <1>4, <1>5, LongerLevel DEF Holds
<1>7. Good(heap, blocks, gs, varnames, Nothing)
  <2>1. frames[Len(frames)].op # "next"
    BY <1>1, <1>3
  <2>. HIDE DEF gs
  <2>2. Good(heap, blocks, gs, varnames, ret)
    BY <1>3, <1>4, <2>1, FramePopped
  <2>. QED
    BY <2>2, GoodValue, ValueFacts
<1>8. VarsFine(heap, varnames')
  BY <1>1, <1>3, ClearedFine
<1>. HIDE DEF f, gs, e
<1>9. Good(g, blocks, gs, varnames, Nothing) /\ Level(g, e, blocks) /\ Alike(heap, g)
  <2>1. CASE blocks = <<>>
    BY <1>6, <1>7, <2>1 DEF Alike
  <2>2. CASE blocks # <<>>
    <3>1. Len(blocks) \in 1..Len(blocks) /\ l = blocks[Len(blocks)]
      BY <1>3, <2>2 DEF Last
    <3>2. l \in Ids /\ heap[l].type = "block"
      BY <1>3, <3>1 DEF AreBlocks
    <3>. HIDE DEF l
    <3>3. SafeStack(heap, heap[l].stack) /\ p \in Nat /\ PlacedAt(heap[l], p)
      BY <1>3, <3>2, BlockType DEF SafeStack, BlockSees
    <3>4. SafeStack(heap, s)
      BY <3>3, SafePopped
    <3>5. MovedTo(heap, m, l, p, s)
      <4>1. MovedTo(heap, heap, l, p, heap[l].stack)
        BY <1>3, <3>2 DEF MovedTo
      <4>. HIDE DEF s, p
      <4>. QED
        BY <3>4, <4>1, StackIs DEF SafeStack
    <3>6. ASSUME NEW k \in 1..Len(gs), gs[k].op \in Waiting PROVE gs[k].block # l
      <4>1. k \in 1..Len(frames) - 1 /\ gs[k] = frames[k] /\ Len(gs) = Len(frames) - 1
        BY <1>4 DEF Pops
      <4>2. k # Len(frames) - 1
        BY <1>4, <1>5, <3>6, <4>1 DEF Waiting, Looping
      <4>3. k \in 1..Len(frames) - 2
        BY <1>3, <4>1, <4>2
      <4>4. /\ Len(frames[k].base) \in 1..Len(blocks) /\ Len(frames[k].base) < Len(blocks)
            /\ frames[k].block = blocks[Len(frames[k].base)]
        BY <1>2, <3>6, <4>1, <4>3, WaitersBelow
      <4>. QED
        BY <1>3, <3>1, <4>1, <4>4 DEF Once
    <3>7. Suits(heap, gs, l, p, s)
      BY <3>6 DEF Suits
    <3>8. CanMove(heap, blocks, gs, Len(blocks), p, s)
      BY <3>1, <3>3, <3>4, <3>7 DEF CanMove, SafeStack
    <3>9. p = heap[l].ip
      OBVIOUS
    <3>. HIDE DEF m, p, s
    <3>10. Good(m, blocks, gs, varnames, Nothing)
      BY <1>7, <3>1, <3>5, <3>8, MovedGood
    <3>11. Level(m, e, blocks)
      BY <1>3, <1>5, <1>6, <3>5, <3>9, MovedLevel
    <3>12. Alike(heap, m)
      BY <3>5, MovedAlike
    <3>. QED
      BY <2>2, <3>10, <3>11, <3>12
  <2>. QED
    BY <2>1, <2>2
<1>. HIDE DEF g
<1>11. Good(g, blocks, gs, varnames', Nothing)
  <2>1. VarsFine(g, varnames')
    BY <1>8, <1>9, AlikeVars
  <2>. QED
    BY <1>9, <2>1, GoodVars
<1>12. AtCheck(g, blocks, gs, Nothing)
  BY <1>4, <1>5, <1>9 DEF AtCheck
<1>13. InvBut(g, blocks, gs, varnames', Nothing, shared', globals')
  BY <1>1, <1>3, <1>11 DEF InvBut
<1>. QED
  BY <1>1, <1>12, <1>13, EndsFine

(***************************************************************************)
(* The machine starts so, and every step keeps it.                         *)
(***************************************************************************)
LEMMA Starting ==
  ASSUME Init
  PROVE  MachineInv
<1>1. PICK c \in Main :
        /\ heap = [i \in Ids |->
                     IF i = 1 THEN NewBlock(c, <<>>, "none", Nothing, <<>>) ELSE Free]
        /\ blocks = <<1>> /\ shared = {} /\ globals = {}
        /\ varnames = [f \in DOMAIN Code |-> [k \in 1..Code[f].vars |-> Unassigned]]
        /\ frames = <<[op |-> "object", block |-> Nothing, iter |-> Nothing,
                       arg |-> 0, name |-> "", base |-> <<>>]>>
        /\ phase = "step" /\ ret = Nothing
  BY Zenon DEF Init
<1> DEFINE r == NewBlock(c, <<>>, "none", Nothing, <<>>)
           f == [op |-> "object", block |-> Nothing, iter |-> Nothing,
                 arg |-> 0, name |-> "", base |-> <<>>]
<1>2. c \in DOMAIN Code /\ 1 \in Ids
  BY VMAssumption DEF Ids
<1>3. Made(r, c, <<>>, "none", Nothing, <<>>)
  BY <1>2 DEF Made
<1>. HIDE DEF r
<1>4. /\ r \in Objects /\ r.type = "block" /\ r.start = 0 /\ r.stack = <<>>
      /\ r.scope = Nothing /\ r.varnames = <<>> /\ PlacedAt(r, r.ip)
  BY <1>3, NewBlockIs
<1>5. heap = [i \in Ids |-> IF i = 1 THEN r ELSE Free]
  BY Zenon, <1>1 DEF r
<1>6. /\ heap[1] = r /\ \A i \in Ids \ {1} : heap[i] = Free /\ heap[i].type = "free"
      /\ heap \in [Ids -> Objects]
  BY <1>2, <1>4, <1>5 DEF Objects, Free
<1>7. HeapFine(heap)
  <2>1. BlockSees(heap, r)
    BY <1>4, ValueFacts DEF BlockSees
  <2>2. \A i \in Ids : Fine(heap, heap[i])
    BY <1>4, <1>6, <2>1 DEF Fine, Free
  <2>. QED
    BY <1>6, <2>2 DEF HeapFine
<1>8. \A i : ~IsGenerator(heap, i)
  BY <1>4, <1>6 DEF IsGenerator
<1>9. VarsFine(heap, varnames)
  <2>1. Unassigned \in Slots /\ Safe(heap, Unassigned.value)
    BY ValueFacts DEF Unassigned, Variable, Slots
  <2>2. ASSUME NEW d \in DOMAIN Code
        PROVE  /\ varnames[d] \in Seq(Slots) /\ Len(varnames[d]) = Code[d].vars
               /\ \A k \in 1..Len(varnames[d]) : Safe(heap, varnames[d][k].value)
    <3> DEFINE n == Code[d].vars
               w == [k \in 1..n |-> Unassigned]
    <3>1. n \in Nat
      BY Zenon, CodeFine
    <3>. HIDE DEF n
    <3>2. w \in Seq(Slots) /\ Len(w) = n /\ \A k \in 1..Len(w) : w[k] = Unassigned
      BY <2>1, <3>1
    <3>3. varnames[d] = w
      BY Zenon, <1>1 DEF n
    <3>. HIDE DEF w
    <3>. QED
      BY <2>1, <3>2, <3>3 DEF n
  <2>3. varnames = [d \in DOMAIN Code |-> varnames[d]]
    BY Zenon, <1>1
  <2>. QED
    BY <2>2, <2>3 DEF VarsFine
<1>10. Laid(heap, blocks)
  <2>2. blocks = <<1>>
    BY Zenon, <1>1
  <2>1. blocks \in Seq(Ids) /\ Len(blocks) = 1 /\ blocks[1] = 1
    BY <1>2, <2>2
  <2>. QED
    BY <1>4, <1>6, <2>1 DEF Laid, AreBlocks, Once, NestedOn
<1>11. Apart(heap, blocks) /\ AllRun(heap, blocks, frames)
  BY <1>8 DEF Apart, AllRun
<1>12. f \in FrameRecs /\ f.op = "object" /\ f.base = <<>>
  <2>1. f \in [op : {"object"}, block : Ids \cup {Nothing}, iter : Ids \cup {Nothing},
               arg : Nat, name : {""}, base : Seq(Ids)]
    OBVIOUS
  <2>2. f.op = "object" /\ f.base = <<>>
    OBVIOUS
  <2>. HIDE DEF f
  <2>. QED
    BY Zenon, <2>1, <2>2 DEF FrameRecs, CallRecs, Waiting, Looping
<1>13. frames = <<f>>
  BY Zenon, <1>1
<1>. HIDE DEF f
<1>14. FramesFine(heap, frames)
  <2>1. FrameFine(heap, f)
    BY <1>12 DEF FrameFine, Waiting
  <2>2. Len(frames) = 1 /\ frames[1] = f /\ frames \in Seq(FrameRecs) /\ frames # <<>>
    BY <1>12, <1>13
  <2>. QED
    BY <1>12, <2>1, <2>2 DEF FramesFine
<1>15. \A k \in 1..Len(frames) : Starts(frames[k].base, blocks)
  <2>1. Len(frames) = 1 /\ frames[1] = f
    BY <1>13
  <2>2. Starts(<<>>, blocks)
    <3>1. blocks = <<1>>
      BY Zenon, <1>1
    <3>2. Len(blocks) = 1
      BY <3>1
    <3>. QED
      BY <3>2 DEF Starts
  <2>. QED
    BY <1>12, <2>1, <2>2
<1>16. Good(heap, blocks, frames, varnames, ret)
  BY Zenon, <1>1, <1>7, <1>9, <1>10, <1>11, <1>14, <1>15, ValueFacts DEF Good
<1>17. AtStep(heap, blocks, Caller)
  BY <1>12, <1>13 DEF AtStep, Level, Looping, Caller, Last
<1>. QED
  BY Zenon, <1>1, <1>16, <1>17 DEF MachineInv

LEMMA StepCall ==
  ASSUME Ready, Call
  PROVE  MachineInv'
<1>1. PICK f \in Arg.callees :
        \/ Kind(f) = "function" /\ CallFunction(f, Arg.takes)
        \/ Kind(f) = "generator" /\ CallGenerator(f, Arg.takes)
        \/ Kind(f) = "class" /\ CallClass(f, Arg.takes)
  BY DEF Call
<1>2. Executing("call")
  BY DEF Call
<1>. QED
  BY <1>1, <1>2, StepCallFunction, StepCallGenerator, StepCallClass

LEMMA EveryStep ==
  ASSUME MachineInv, Orderly, [Next]_vars
  PROVE  MachineInv'
<1>1. Ready
  BY DEF Ready
<1>2. CASE Stays
  BY <1>1, <1>2, StepLoad, StepDupTop, StepRotate, StepCompute, StepStore, StepListAppend,
     StepLoadFast, StepStoreFast, StepGetIter, StepMakeRange, StepJump, StepBranch,
     StepJumpIf, StepWithCleanup DEF Stays
<1>3. CASE Nests
  BY <1>1, <1>3, StepSetupLoop, StepSetupWith, StepPopBlock, StepCodeThru DEF Nests
<1>4. CASE Call \/ ImportName \/ Yield \/ Raise
  BY <1>1, <1>4, StepCall, StepImportName, StepYield, StepRaise
<1>5. CASE Returns
  BY <1>1, <1>5, StepReturnToLevel, StepReturnFromBase, StepReturnFromClass,
     StepReturnFromModule, StepReturnFromFunction DEF Returns
<1>6. CASE Iterates
  BY <1>1, <1>6, StepForIter, StepForIterNext, StepForIterEnd, StepMap, StepMapCall,
     StepMapEnd, StepBuild, StepDrain, StepBuildNext, StepBuildEnd, StepAsk, StepAnswered
     DEF Iterates
<1>7. CASE iter_NextNow
  BY <1>1, <1>7, StepNextOfSequence, StepNextOfTuple, StepResume, StepExhausted, StepGeneratorEnded,
     StepYielded DEF iter_NextNow
<1>8. CASE Loops
  BY <1>1, <1>8, StepStepAgain, StepFunctionDone, StepMethodDone, StepObjectDone DEF Loops
<1>9. CASE Terminated \/ UNCHANGED vars
  BY <1>9, Stutters DEF Terminated
<1>. QED
  BY <1>2, <1>3, <1>4, <1>5, <1>6, <1>7, <1>8, <1>9 DEF Next, vm_Step

(***************************************************************************)
(* The positions of the tuples, an invariant of its own.                   *)
(***************************************************************************)
TuplesFine ==
  /\ tuples \in [Tuples -> [pos : Nat, len : Nat]]
  /\ \A t \in Tuples : tuples[t].pos <= tuples[t].len

LEMMA TuplesStart ==
  ASSUME Init
  PROVE  TuplesFine
<1>1. tuples \in [Tuples -> [pos : {0}, len : 0..MaxItems]]
  BY DEF Init
<1>. QED
  BY <1>1, VMAssumption DEF TuplesFine

(* Only GET_ITER and the next item of a tuple move a position. *)
LEMMA TuplesLeft ==
  ASSUME [Next]_vars, ~GetIter, ~NextOfTuple
  PROVE  tuples' = tuples
<1>1. CASE Stays
  BY <1>1 DEF Stays, Load, DupTop, Rotate, Compute, Store, ListAppend, LoadFast, StoreFast,
     MakeRange, Jump, Branch, JumpIf, WithCleanup, Ends, statics
<1>2. CASE Nests
  BY <1>2 DEF Nests, SetupLoop, SetupWith, Setup, PopBlock, CodeThru, Ends, statics
<1>3. CASE Call
  BY <1>3 DEF Call, CallFunction, CallGenerator, CallClass, Assigns
<1>4. CASE ImportName \/ Yield \/ Raise
  BY <1>4 DEF ImportName, Yield, Raise, Ends, statics
<1>5. CASE Returns
  BY <1>5 DEF Returns, ReturnToLevel, ReturnFromBase, ReturnFromClass, ReturnFromModule,
     ReturnFromFunction, Assigns, Ends, statics
<1>6. CASE Iterates
  BY <1>6 DEF Iterates, ForIter, ForIterNext, ForIterEnd, Map, MapCall, MapEnd, Build, Drain,
     Expands, BuildNext, BuildEnd, Ask, Answered, Runs, Assigns, Waits, Ends, statics
<1>7. CASE iter_NextNow
  BY <1>7 DEF iter_NextNow, NextOfSequence, Resume, Exhausted, GeneratorEnded, Yielded,
     Gives, statics
<1>8. CASE Loops
  BY <1>8 DEF Loops, StepAgain, FunctionDone, MethodDone, ObjectDone, Waits, statics
<1>9. CASE Terminated \/ UNCHANGED vars
  BY <1>9 DEF Terminated, vars, statics
<1>. QED
  BY <1>1, <1>2, <1>3, <1>4, <1>5, <1>6, <1>7, <1>8, <1>9 DEF Next, vm_Step

LEMMA TuplesStep ==
  ASSUME MachineInv, TuplesFine, [Next]_vars
  PROVE  TuplesFine'
<1>1. ASSUME NEW t \in Tuples, tuple_ResetIteration(t) PROVE TuplesFine'
  BY <1>1 DEF TuplesFine, tuple_ResetIteration
<1>2. CASE GetIter
  <2>1. tuples' = tuples \/ \E t \in Tuples : tuple_ResetIteration(t)
    BY <1>2 DEF GetIter, Ends, statics
  <2>. QED
    BY <1>1, <2>1 DEF TuplesFine
<1>3. CASE NextOfTuple
  <2> DEFINE t == heap[Asked].tag
  <2>0. heap[Asked].type = "iteration"
    BY <1>3 DEF NextOfTuple
  <2>9. t \in Tuples
    BY <2>0, NextFacts, <1>3 DEF NextOfTuple, IterationRecs, SequenceRecs, GeneratorRecs
  <2>1. CASE tuples[t].pos < tuples[t].len
    <3>1. tuples' = [tuples EXCEPT ![t].pos = @ + 1]
      BY <1>3, <2>1 DEF NextOfTuple
    <3>. HIDE DEF t
    <3>. QED
      BY <2>9, <2>1, <3>1 DEF TuplesFine
  <2>2. CASE ~(tuples[t].pos < tuples[t].len)
    <3>1. tuples' = [tuples EXCEPT ![t].pos = 0]
      BY <1>3, <2>2 DEF NextOfTuple, tuple_ResetIteration
    <3>. HIDE DEF t
    <3>. QED
      BY <2>9, <3>1 DEF TuplesFine
  <2>. QED
    BY <2>1, <2>2
<1>4. CASE ~GetIter /\ ~NextOfTuple
  BY <1>4, TuplesLeft DEF TuplesFine
<1>. QED
  BY <1>2, <1>3, <1>4

(***************************************************************************)
(* What the runs check of the machine follows.                             *)
(***************************************************************************)
LEMMA Typed ==
  ASSUME MachineInv, TuplesFine
  PROVE  TypeOK
<1>1. /\ HeapFine(heap) /\ heap \in [Ids -> Objects] /\ blocks \in Seq(Ids)
      /\ shared \subseteq DOMAIN Code /\ globals \subseteq Modules /\ ret \in Values
  BY InvParts DEF HeapFine
<1>2. ASSUME NEW i \in Ids, heap[i].type = "block" PROVE WellPlaced(heap[i])
  <2> DEFINE b == heap[i]
  <2>1. /\ b \in BlockRecs /\ PlacedAt(b, b.ip) /\ b.code \in DOMAIN Code
        /\ b.start \in Nat /\ b.ip \in Nat /\ b.len \in Nat /\ b.stack \in Seq(Values \ {Nothing})
    BY <1>1, <1>2, BlockType
  <2>. HIDE DEF b
  <2>2. b.start <= b.ip /\ b.ip <= b.len
    BY <2>1 DEF PlacedAt
  <2>3. b.len <= End(b.code)
    <3>1. End(b.code) \in Nat
      BY Zenon, <2>1, CodeFine
    <3>2. ASSUME NEW q \in Setups(b.code) PROVE Behind(b.code, q) <= End(b.code)
      <4>1. Behind(b.code, q) \in 0..End(b.code) - 1
        BY Zenon, <2>1, CodeFine
      <4>. QED
        BY <3>1, <4>1
    <3>. QED
      BY <2>1, <3>1, <3>2 DEF PlacedAt
  <2>4. ToSet(b.stack) \subseteq Values \ {Nothing}
    BY <2>1 DEF ToSet
  <2>. QED
    BY <2>1, <2>2, <2>3, <2>4 DEF WellPlaced, End, b
<1>3. ASSUME NEW i \in Ids, heap[i].type = "sequence" PROVE heap[i].pos \in 0..heap[i].len
  <2>1. heap[i] \in SequenceRecs /\ Fine(heap, heap[i])
    BY <1>1, <1>3 DEF HeapFine, Objects, Free, BlockRecs, IterationRecs, GeneratorRecs
  <2>. QED
    BY <1>3, <2>1 DEF SequenceRecs, IterationRecs, Fine
<1>4. ASSUME NEW i \in Ids, heap[i].type = "generator" PROVE IsBlock(heap[i].tag)
  BY <1>1, <1>4, AsleepIn DEF IsGenerator, IsBlock, IsTag
<1>5. ASSUME NEW i \in Ids, heap[i].type \notin {"block", "sequence", "iteration", "generator"}
      PROVE  heap[i] = Free
  BY <1>1, <1>5 DEF Objects, BlockRecs, SequenceRecs, IterationRecs, GeneratorRecs
<1>6. ToSet(blocks) \subseteq Ids /\ DOMAIN heap = Ids
  BY <1>1 DEF ToSet
<1>7. phase \in {"step", "check", "next", "got", "done"}
  BY DEF MachineInv
<1>8. ASSUME NEW i \in Ids, heap[i].type = "iteration" PROVE heap[i].tag \in Tuples
  BY <1>1, <1>8 DEF Objects, Free, BlockRecs, SequenceRecs, IterationRecs, GeneratorRecs
<1>9. \A t \in Tuples : tuples[t].pos \in 0..tuples[t].len
  BY DEF TuplesFine
<1>. QED
  BY <1>1, <1>2, <1>3, <1>4, <1>5, <1>6, <1>7, <1>8, <1>9 DEF TypeOK

LEMMA StartsPrefix ==
  ASSUME NEW s \in Seq(Ids), NEW t \in Seq(Ids), Starts(s, t)
  PROVE  IsPrefix(s, t)
<1>1. Len(s) \in Nat /\ Len(t) \in Nat /\ Len(s) <= Len(t)
  BY DEF Starts
<1> DEFINE u == SubSeq(s, 1, Len(s))
           v == SubSeq(t, 1, Len(s))
<1>2. u \in Seq(Ids) /\ Len(u) = Len(s) /\ \A k \in 1..Len(s) : u[k] = s[k]
  BY <1>1
<1>3. v \in Seq(Ids) /\ Len(v) = Len(s) /\ \A k \in 1..Len(s) : v[k] = t[k]
  BY <1>1
<1>. HIDE DEF u, v
<1>4. Starts(u, v)
  BY <1>1, <1>2, <1>3 DEF Starts
<1>5. u = v
  BY <1>2, <1>3, <1>4, StartsAll
<1>. QED
  BY <1>1, <1>5 DEF IsPrefix, u, v

LEMMA Undisturbing ==
  ASSUME MachineInv
  PROVE  Undisturbed
<1>1. /\ FramesFine(heap, frames) /\ frames \in Seq(FrameRecs) /\ blocks \in Seq(Ids)
      /\ \A k \in 1..Len(frames) : Starts(frames[k].base, blocks)
  BY InvParts
<1>2. ASSUME NEW k \in DOMAIN frames PROVE IsPrefix(frames[k].base, blocks)
  <2>1. k \in 1..Len(frames)
    BY <1>1
  <2>2. frames[k].base \in Seq(Ids) /\ Starts(frames[k].base, blocks)
    BY <1>1, <2>1, FrameType
  <2>. QED
    BY <1>1, <2>2, StartsPrefix
<1>3. phase = "got" /\ Caller.op \in {"for_iter", "build", "ask"} => blocks = Caller.base
  BY DEF MachineInv, AtNext, Asking
<1>. QED
  BY <1>2, <1>3 DEF Undisturbed

LEMMA SuspendedIs ==
  ASSUME MachineInv, NEW i \in Generators
  PROVE  /\ IsGenerator(heap, i) /\ Suspended(i) \in Seq(Ids)
         /\ Suspended(i) = Asleep(heap, i)
<1> DEFINE u == <<heap[i].tag>>
           s == heap[i].saved
           v == Reverse(s)
           w == Asleep(heap, i)
<1>1. IsGenerator(heap, i) /\ HeapFine(heap)
  BY InvParts DEF Generators, IsGenerator
<1>2. s \in Seq(Ids) /\ heap[i].tag \in Ids /\ w \in Seq(Ids) /\ Len(w) = Len(s) + 1
  BY <1>1, AsleepIn
<1>3. \A k \in 1..Len(s) + 1 : w[k] = IF k = 1 THEN heap[i].tag ELSE s[Len(s) + 2 - k]
  BY DEF Asleep
<1>4. u \in Seq(Ids) /\ Len(u) = 1 /\ u[1] = heap[i].tag
  BY <1>2
<1>. HIDE DEF s
<1>5. v \in Seq(Ids) /\ Len(v) = Len(s) /\ Len(s) \in Nat
      /\ \A j \in 1..Len(s) : v[j] = s[Len(s) - j + 1]
  BY <1>2, ReverseIs
<1>6. Suspended(i) = u \o v
  BY DEF Suspended, s
<1>. HIDE DEF u, v, w
<1>7. u \in Seq(Ids) /\ v \in Seq(Ids)
  BY <1>4, <1>5
<1>8. /\ u \o v \in Seq(Ids) /\ Len(u \o v) = Len(u) + Len(v)
      /\ \A k \in 1..Len(u) + Len(v) : (u \o v)[k] = IF k <= Len(u) THEN u[k] ELSE v[k - Len(u)]
  BY <1>7, ConcatProperties
<1>9. ASSUME NEW k \in 1..Len(s) + 1 PROVE (u \o v)[k] = w[k]
  <2>1. k \in 1..Len(u) + Len(v)
    BY <1>4, <1>5
  <2>2. CASE k = 1
    BY <1>3, <1>4, <1>8, <2>1, <2>2
  <2>3. CASE k # 1
    <3> DEFINE j == k - 1
    <3>1. j \in 1..Len(s) /\ Len(s) - j + 1 = Len(s) + 2 - k /\ ~(k <= 1) /\ k - Len(u) = j
      BY <1>4, <1>5, <2>3
    <3>2. (u \o v)[k] = v[j]
      BY <1>4, <1>8, <2>1, <3>1
    <3>. HIDE DEF j
    <3>3. v[j] = s[Len(s) + 2 - k]
      BY Zenon, <1>5, <3>1
    <3>. QED
      BY <1>3, <2>3, <3>2, <3>3
  <2>. QED
    BY Zenon, <2>2, <2>3
<1>10. Starts(u \o v, w) /\ Len(u \o v) = Len(w)
  BY <1>2, <1>4, <1>5, <1>8, <1>9 DEF Starts
<1>11. u \o v = w
  BY Zenon, <1>2, <1>8, <1>10, StartsAll
<1>. QED
  BY <1>1, <1>6, <1>8, <1>11 DEF w

LEMMA OnceInjective ==
  ASSUME NEW s \in Seq(Ids), Once(s)
  PROVE  IsInjective(s)
<1>1. DOMAIN s = 1..Len(s)
  OBVIOUS
<1>. QED
  BY <1>1 DEF Once, IsInjective

LEMMA DisjointSets ==
  ASSUME NEW s \in Seq(Ids), NEW t \in Seq(Ids), Disjoint(s, t)
  PROVE  ToSet(s) \cap ToSet(t) = {}
<1>1. DOMAIN s = 1..Len(s) /\ DOMAIN t = 1..Len(t)
  OBVIOUS
<1>. QED
  BY <1>1 DEF Disjoint, ToSet

LEMMA KeepingApart ==
  ASSUME MachineInv
  PROVE  GeneratorsApart
<1>1. blocks \in Seq(Ids) /\ Once(blocks) /\ Apart(heap, blocks) /\ HeapFine(heap)
  BY InvParts
<1>2. IsInjective(blocks)
  BY <1>1, OnceInjective
<1>3. ASSUME NEW i \in Generators
      PROVE  /\ IsGenerator(heap, i) /\ i \in Ids /\ Suspended(i) \in Seq(Ids)
             /\ Suspended(i) = Asleep(heap, i) /\ heap[i].saved \in Seq(Ids)
             /\ Once(Suspended(i)) /\ Disjoint(heap[i].saved, blocks)
             /\ Occurs(heap[i].tag, blocks) => heap[i].saved = <<>>
  <2>1. IsGenerator(heap, i) /\ Suspended(i) \in Seq(Ids) /\ Suspended(i) = Asleep(heap, i)
    BY SuspendedIs
  <2>2. heap[i].saved \in Seq(Ids)
    BY <1>1, <2>1, AsleepIn
  <2>3. i \in Ids
    BY <2>1 DEF IsGenerator
  <2>. QED
    BY <1>1, <2>1, <2>2, <2>3 DEF Apart, Laid
<1>4. ASSUME NEW i \in Generators
      PROVE  /\ heap[i].tag \in ToSet(blocks) => heap[i].saved = <<>>
             /\ IsInjective(Suspended(i))
             /\ ToSet(heap[i].saved) \cap ToSet(blocks) = {}
  <2>1. heap[i].tag \in ToSet(blocks) => Occurs(heap[i].tag, blocks)
    BY <1>1 DEF ToSet, Occurs
  <2>2. IsInjective(Suspended(i))
    BY <1>3, OnceInjective
  <2>3. ToSet(heap[i].saved) \cap ToSet(blocks) = {}
    BY <1>1, <1>3, DisjointSets
  <2>. QED
    BY <1>3, <2>1, <2>2, <2>3
<1>5. ASSUME NEW i \in Generators, NEW j \in Generators \ {i}
      PROVE  ToSet(Suspended(i)) \cap ToSet(Suspended(j)) = {}
  <2>1. Disjoint(Suspended(i), Suspended(j))
    BY <1>1, <1>3 DEF Apart
  <2>. QED
    BY <1>3, <2>1, DisjointSets
<1>. QED
  BY <1>2, <1>4, <1>5 DEF GeneratorsApart

LEMMA KeepingAlive ==
  ASSUME MachineInv
  PROVE  CallsAlive
<1>1. /\ FramesFine(heap, frames) /\ frames \in Seq(FrameRecs) /\ AreBlocks(heap, blocks)
      /\ blocks \in Seq(Ids) /\ HeapFine(heap)
      /\ \A k \in 1..Len(frames) : Starts(frames[k].base, blocks)
  BY InvParts
<1> SUFFICES ASSUME NEW k \in DOMAIN frames
             PROVE  /\ frames[k].op \in {"for_iter", "map", "build", "ask", "next"} =>
                         /\ IsBlock(frames[k].block)
                         /\ heap[frames[k].iter].type \in {"sequence", "iteration", "generator"}
                    /\ frames[k].op = "next" => /\ heap[frames[k].iter].type = "generator"
                                                /\ heap[frames[k].iter].tag = frames[k].block
  BY DEF CallsAlive
<1> DEFINE f == frames[k]
<1>2. k \in 1..Len(frames)
  BY <1>1
<1>3. FrameFine(heap, f) /\ f.base \in Seq(Ids) /\ Starts(f.base, blocks)
  BY <1>1, <1>2, FrameType
<1>. HIDE DEF f
<1>4. ASSUME f.op \in Waiting
      PROVE  IsBlock(f.block) /\ heap[f.iter].type \in {"sequence", "iteration", "generator"}
  <2>1. f.base # <<>> /\ f.block = f.base[Len(f.base)] /\ f.iter \in Ids /\ Safe(heap, f.iter)
    BY <1>3, <1>4 DEF FrameFine
  <2>2. Len(f.base) \in 1..Len(f.base) /\ Len(f.base) \in 1..Len(blocks)
    BY <1>1, <1>3, <2>1 DEF Starts
  <2>3. f.block = blocks[Len(f.base)]
    BY <1>3, <2>1, <2>2 DEF Starts
  <2>. QED
    BY <1>1, <2>1, <2>2, <2>3 DEF AreBlocks, IsBlock, Safe
<1>5. ASSUME f.op = "next"
      PROVE  /\ IsBlock(f.block) /\ heap[f.iter].type = "generator"
             /\ heap[f.iter].tag = f.block
  <2>1. IsGenerator(heap, f.iter) /\ heap[f.iter].tag = f.block
    BY <1>3, <1>5 DEF FrameFine
  <2>2. IsTag(heap, f.block) /\ f.block \in Ids
    BY <1>1, <2>1, AsleepIn
  <2>. QED
    BY <2>1, <2>2 DEF IsGenerator, IsTag, IsBlock
<1>. QED
  BY <1>4, <1>5 DEF Waiting, f

LEMMA Nesting ==
  ASSUME MachineInv
  PROVE  Nested
<1>1. Laid(heap, blocks) /\ Apart(heap, blocks)
  BY InvParts
<1>2. \A t : Laid(heap, t) => NestedIn(t)
  BY DEF Laid, NestedOn, NestedIn
<1>3. ASSUME NEW i \in Generators PROVE NestedIn(Suspended(i))
  <2>1. IsGenerator(heap, i) /\ Suspended(i) = Asleep(heap, i)
    BY SuspendedIs
  <2>2. Laid(heap, Asleep(heap, i))
    BY <1>1, <2>1 DEF Apart, IsGenerator
  <2>. QED
    BY <1>2, <2>1, <2>2
<1>. QED
  BY <1>1, <1>2, <1>3 DEF Nested

(***************************************************************************)
(* The theorems.                                                           *)
(***************************************************************************)

(* As long as the programs are orderly, the objects, the block stack, the  *)
(* generators and the C calls around vm_Step stay in order: after every    *)
(* instruction, call, return, yield, raise and sweep, and at every place   *)
(* at which one of the loops around vm_Step goes on.                       *)
THEOREM MachineInOrder == Spec /\ []Orderly => []MachineInv
<1>1. Init => MachineInv
  BY Starting
<1>2. MachineInv /\ Orderly /\ [Next]_vars => MachineInv'
  BY EveryStep
<1>. QED
  BY <1>1, <1>2, PTL DEF Spec

(* Every object is one of its type, every place is one in its code, and    *)
(* what refers to a block or a generator refers to one that is there: no   *)
(* step leaves a reference to what obj_ClearGC has freed.                  *)
THEOREM TypesKept == Spec /\ []Orderly => []TypeOK
<1>1. Init => TuplesFine
  BY TuplesStart
<1>2. MachineInv /\ TuplesFine /\ [Next]_vars => TuplesFine'
  BY TuplesStep
<1>3. MachineInv /\ TuplesFine => TypeOK
  BY Typed
<1>. QED
  BY <1>1, <1>2, <1>3, MachineInOrder, PTL DEF Spec

(* No step that runs within FOR_ITER, map, list, next or a constructor     *)
(* pops a block that this C call found on the stack, and who asked an      *)
(* iterator gets the answer on the block stack that it asked with, however *)
(* many blocks the generator put there meanwhile.                          *)
THEOREM StackUndisturbed == Spec /\ []Orderly => []Undisturbed
<1>1. MachineInv => Undisturbed
  BY Undisturbing
<1>. QED
  BY <1>1, MachineInOrder, PTL

(* A block is in one place: iter_SaveBlockStack and iter_RestoreBlockStack *)
(* neither lose a block, nor leave one on the stack and in a generator, or *)
(* in two generators.                                                      *)
THEOREM GeneratorsStayApart == Spec /\ []Orderly => []GeneratorsApart
<1>1. MachineInv => GeneratorsApart
  BY KeepingApart
<1>. QED
  BY <1>1, MachineInOrder, PTL

(* The block and the iterator that a C call captured before it ran         *)
(* vm_Step are still there when it goes on, whatever the steps in between  *)
(* released and swept.                                                     *)
THEOREM CallsStayAlive == Spec /\ []Orderly => []CallsAlive
<1>1. MachineInv => CallsAlive
  BY KeepingAlive
<1>. QED
  BY <1>1, MachineInOrder, PTL

(* A loop's block lies on the block that set it up, which waits behind the *)
(* loop; on the stack and in every generator that sleeps, so that a        *)
(* generator resumes with its loops in the order in which they lay.        *)
THEOREM LoopsStayNested == Spec /\ []Orderly => []Nested
<1>1. MachineInv => Nested
  BY Nesting
<1>. QED
  BY <1>1, MachineInOrder, PTL
=============================================================================
