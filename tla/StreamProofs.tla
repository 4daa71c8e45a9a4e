---------------------------- MODULE StreamProofs ----------------------------
(***************************************************************************)
(* Streams, for every size of a long, every base of the bytes, every       *)
(* object that is written and every file that is read.                     *)
(*                                                                         *)
(* What a long gives back (LongRead) is a fact about the digits of a       *)
(* number, proved by the least counterexample: the definitions of Power,   *)
(* Value, Generations and Restored are recursive functions.                *)
(*                                                                         *)
(* The reader stays in the file (ReadsWithin).  The induction carries      *)
(* TInv, which has the stack of the reader: each frame has a script of     *)
(* known words, and below the innermost one the next word of a frame asks  *)
(* for an object.                                                          *)
(*                                                                         *)
(* What was written is read again (ReadsWhatWasWritten).  The induction    *)
(* carries the way of the writer through the file (WInv): the places it    *)
(* came by, each with the agenda it had there, the bytes it wrote there    *)
(* and the place after them.  The way is still in the file when the writer *)
(* is gone, and the reader is always at a place of it (RInv): the agenda   *)
(* there is what its frames still ask for, the innermost first.  For that, *)
(* each frame stands for an object of its generation and has read so much  *)
(* of it (Matched), and the rest of what follows the type of the object is *)
(* to be read before the rest of the object around it (Linked).  Each word *)
(* of a script then meets the task that was written for it (ScriptStep),   *)
(* and a frame that is complete is what is left of its object (CompleteIs).*)
(***************************************************************************)
EXTENDS Stream, SequenceTheorems, WellFoundedInduction, TLAPS

(* A set of numbers has a least one. *)
LEMMA Least ==
  ASSUME NEW T, T \subseteq Nat, T # {}
  PROVE  \E n \in T : \A m \in T : n <= m
<1>1. PICK n \in T : \A m \in T : ~(<<m, n>> \in OpToRel(<, Nat))
  BY WFMin, NatLessThanWellFounded
<1>2. ASSUME NEW m \in T, m < n PROVE <<m, n>> \in OpToRel(<, Nat)
  BY <1>2 DEF OpToRel
<1>3. ASSUME NEW m \in T PROVE n <= m
  <2>1. m \in Nat /\ n \in Nat
    OBVIOUS
  <2>2. ~(m < n)
    BY <1>1, <1>2
  <2>. QED
    BY <2>1, <2>2
<1> QED
  BY <1>3

-----------------------------------------------------------------------------
(* Longs.                                                                  *)

(* Power is defined for the sizes a long may have. *)
LEMMA PowerIs ==
  Power = [n \in 0..LongSize |-> IF n = 0 THEN 1 ELSE Base * Power[n - 1]]
<1> DEFINE Is(f, m) == f = [n \in 0..m |-> IF n = 0 THEN 1 ELSE Base * f[n - 1]]
           T == {m \in 0..LongSize : ~ \E f : Is(f, m)}
<1>1. LongSize \in Nat
  BY SizesAssumption
<1>2. ASSUME T # {} PROVE FALSE
  <2>0. T \subseteq Nat
    BY <1>1
  <2> HIDE DEF T
  <2>1. PICK m \in T : \A k \in T : m <= k
    BY <1>2, <2>0, Least
  <2> USE DEF T
  <2>2. CASE m = 0
    <3>1. Is([n \in 0..0 |-> 1], 0)
      OBVIOUS
    <3>. QED
      BY <2>1, <2>2, <3>1
  <2>3. CASE m # 0
    <3>1. m - 1 \in 0..LongSize /\ m - 1 \notin T /\ m \in 0..LongSize
      BY <1>1, <2>1, <2>3
    <3>2. PICK f : Is(f, m - 1)
      BY <3>1
    <3> DEFINE g == [n \in 0..m |-> IF n = 0 THEN 1 ELSE Base * f[n - 1]]
    <3>3. ASSUME NEW n \in 0..(m - 1) PROVE g[n] = f[n]
      <4>1. f[n] = IF n = 0 THEN 1 ELSE Base * f[n - 1]
        BY <3>2
      <4>2. n \in 0..m
        BY <3>1
      <4>. QED
        BY <4>1, <4>2
    <3>4. ASSUME NEW n \in 0..m, n # 0 PROVE g[n] = Base * g[n - 1]
      <4>1. n - 1 \in 0..(m - 1)
        BY <3>1, <3>4
      <4>. QED
        BY <3>3, <3>4, <4>1
    <3>5. g = [n \in 0..m |-> IF n = 0 THEN 1 ELSE Base * g[n - 1]]
      BY <3>4
    <3>. QED
      BY <2>1, <3>5
  <2>. QED
    BY <2>2, <2>3
<1>3. \E f : Is(f, LongSize)
  BY <1>1, <1>2
<1> QED
  BY <1>3 DEF Power

LEMMA PowerValues ==
  /\ Power[0] = 1
  /\ \A n \in 1..LongSize : Power[n] = Base * Power[n - 1]
  /\ \A n \in 0..LongSize : Power[n] \in Nat \ {0}
<1> DEFINE T == {n \in 0..LongSize : ~(Power[n] \in Nat \ {0})}
<1>1. LongSize \in Nat /\ Base \in Nat \ {0}
  BY SizesAssumption
<1>2. Power[0] = 1
  BY <1>1, PowerIs
<1>3. ASSUME NEW n \in 1..LongSize PROVE Power[n] = Base * Power[n - 1]
  BY <1>1, PowerIs
<1>4. ASSUME T # {} PROVE FALSE
  <2>0. T \subseteq Nat
    BY <1>1
  <2> HIDE DEF T
  <2>1. PICK n \in T : \A k \in T : n <= k
    BY <1>4, <2>0, Least
  <2> USE DEF T
  <2>2. n # 0 /\ n \in 1..LongSize /\ n - 1 \in 0..LongSize /\ n - 1 \notin T
    BY <1>1, <1>2, <2>1
  <2>3. Power[n - 1] \in Nat \ {0}
    BY <2>2
  <2>4. \A p \in Nat \ {0} : Base * p \in Nat \ {0}
    BY <1>1
  <2>. QED
    BY <1>3, <2>1, <2>2, <2>3, <2>4
<1> QED
  BY <1>2, <1>3, <1>4

LEMMA DivMod ==
  ASSUME NEW a \in Int, NEW b \in Nat \ {0}, NEW q \in Int, NEW r \in 0..(b - 1), a = q * b + r
  PROVE  a % b = r /\ a \div b = q
  BY Z3T(30)

LEMMA DivModIs ==
  ASSUME NEW a \in Int, NEW b \in Nat \ {0}
  PROVE  /\ a = (a \div b) * b + (a % b)
         /\ a \div b \in Int /\ a % b \in 0..(b - 1) /\ a % b \in Nat /\ a % b < b
         /\ a \in Nat => a \div b \in Nat
  BY Z3T(30)

(* One digit more. *)
LEMMA DigitMore ==
  ASSUME NEW m \in Nat, NEW p \in Nat \ {0}, NEW b \in Nat \ {0}
  PROVE  m % (b * p) = (m % p) + ((m \div p) % b) * p
<1> DEFINE d == m \div p
           r == m % p
           e == d \div b
           c == d % b
<1>1. m = d * p + r /\ d \in Nat /\ r \in 0..(p - 1)
  <2>1. m \in Int
    OBVIOUS
  <2>. QED
    BY Zenon, <2>1, DivModIs
<1> HIDE DEF d, r
<1>2. d = e * b + c /\ e \in Nat /\ c \in 0..(b - 1)
  <2>1. d \in Int
    BY <1>1
  <2>. QED
    BY Zenon, <1>1, <2>1, DivModIs
<1> HIDE DEF e, c
<1>3. b * p \in Nat \ {0}
  BY ONLY p \in Nat \ {0}, b \in Nat \ {0}
<1>4. m = e * (b * p) + (c * p + r)
  <2>1. d * p = (e * b) * p + c * p
    BY ONLY <1>1, <1>2, p \in Nat \ {0}, b \in Nat \ {0}
  <2>2. (e * b) * p = e * (b * p)
    BY ONLY <1>2, p \in Nat \ {0}, b \in Nat \ {0}
  <2>3. (e * b) * p \in Int /\ c * p \in Int
    BY ONLY <1>2, p \in Nat \ {0}, b \in Nat \ {0}
  <2>. QED
    BY <1>1, <2>1, <2>2, <2>3
<1>5. c * p + r \in 0..(b * p - 1)
  <2>1. c * p >= 0 /\ c * p <= (b - 1) * p /\ c * p \in Int
    BY ONLY <1>2, p \in Nat \ {0}, b \in Nat \ {0}
  <2>2. (b - 1) * p = b * p - p
    BY ONLY p \in Nat \ {0}, b \in Nat \ {0}
  <2>. QED
    BY <1>1, <1>3, <2>1, <2>2
<1>6. m % (b * p) = c * p + r
  <2>1. m \in Int /\ e \in Int
    BY <1>2
  <2>. QED
    BY Zenon, <1>3, <1>4, <1>5, <2>1, DivMod
<1>7. c * p \in Int
  BY ONLY <1>2, p \in Nat \ {0}, b \in Nat \ {0}
<1> QED
  BY <1>1, <1>6, <1>7 DEF c, d, r

LEMMA LongBytesType ==
  ASSUME NEW n \in Int
  PROVE  /\ LongBytes(n) \in [1..LongSize -> Nat]
         /\ LongBytes(n) \in Seq(Int) /\ Len(LongBytes(n)) = LongSize
<1>1. LongSize \in Nat \ {0} /\ Base \in Nat \ {0} /\ Power[LongSize] \in Nat \ {0}
  BY SizesAssumption, PowerValues
<1>2. n % Power[LongSize] \in Nat
  BY Zenon, <1>1, DivModIs
<1>3. ASSUME NEW i \in 1..LongSize
      PROVE  ((n % Power[LongSize]) \div Power[i - 1]) % Base \in Nat
  <2>1. Power[i - 1] \in Nat \ {0}
    BY <1>1, PowerValues
  <2>2. n % Power[LongSize] \in Int
    BY <1>2
  <2>3. (n % Power[LongSize]) \div Power[i - 1] \in Nat
    BY Zenon, <1>2, <2>1, <2>2, DivModIs
  <2>4. (n % Power[LongSize]) \div Power[i - 1] \in Int
    BY <2>3
  <2>. QED
    BY Zenon, <1>1, <2>4, DivModIs
<1>4. LongBytes(n) \in [1..LongSize -> Nat]
  BY <1>3 DEF LongBytes
<1> QED
  BY <1>1, <1>4

(* The bytes of a number have its value, up to the size of a long. *)
LEMMA ValueOfBytes ==
  ASSUME NEW n \in Int
  PROVE  Value(LongBytes(n)) = n % Power[LongSize]
<1> DEFINE m == n % Power[LongSize]
           bytes == LongBytes(n)
           v == [k \in 0..LongSize |-> m % Power[k]]
           Is(f) == f = [k \in 0..LongSize |->
                          IF k = 0 THEN 0 ELSE f[k - 1] + bytes[k] * Power[k - 1]]
           u == CHOOSE f : Is(f)
<1>1. /\ LongSize \in Nat \ {0} /\ Base \in Nat \ {0}
      /\ \A k \in 0..LongSize : Power[k] \in Nat \ {0}
      /\ m \in Nat /\ m < Power[LongSize]
  <2>1. LongSize \in Nat \ {0} /\ Base \in Nat \ {0}
    BY SizesAssumption
  <2>2. \A k \in 0..LongSize : Power[k] \in Nat \ {0}
    BY PowerValues
  <2>3. Power[LongSize] \in Nat \ {0}
    BY <2>1, <2>2
  <2>. QED
    BY Zenon, <2>1, <2>2, <2>3, DivModIs
<1>2. \A k \in 1..LongSize : bytes[k] = (m \div Power[k - 1]) % Base
  BY DEF LongBytes
<1> HIDE DEF m, bytes
<1>3. Is(v)
  <2>1. v[0] = 0
    <3>1. m = m * 1 + 0
      BY <1>1
    <3>2. m % 1 = 0
      BY <1>1, <3>1, DivMod
    <3>. QED
      BY <1>1, <3>2, PowerValues
  <2>2. ASSUME NEW k \in 1..LongSize PROVE v[k] = v[k - 1] + bytes[k] * Power[k - 1]
    <3>1. k - 1 \in 0..LongSize /\ k \in 0..LongSize
      BY <1>1
    <3>2. m % (Base * Power[k - 1])
          = (m % Power[k - 1]) + ((m \div Power[k - 1]) % Base) * Power[k - 1]
      BY <1>1, <3>1, DigitMore
    <3>3. Power[k] = Base * Power[k - 1]
      BY PowerValues
    <3>. QED
      BY <1>2, <3>1, <3>2, <3>3
  <2> HIDE DEF v
  <2>3. ASSUME NEW k \in 0..LongSize
        PROVE  v[k] = IF k = 0 THEN 0 ELSE v[k - 1] + bytes[k] * Power[k - 1]
    BY <1>1, <2>1, <2>2
  <2>4. v = [k \in 0..LongSize |-> v[k]]
    BY DEF v
  <2>. QED
    BY <2>3, <2>4
<1>4. Is(u)
  BY <1>3
<1> DEFINE D == {k \in 0..LongSize : u[k] # v[k]}
<1>5. ASSUME D # {} PROVE FALSE
  <2>1. D \subseteq Nat
    BY <1>1
  <2> HIDE DEF D
  <2>2. PICK k \in D : \A j \in D : k <= j
    BY <1>5, <2>1, Least
  <2> USE DEF D
  <2> HIDE DEF u, v
  <2>3. k \in 0..LongSize /\ u[k] # v[k]
    BY <2>2
  <2>4. k = 0 => u[k] = 0 /\ v[k] = 0
    BY <1>3, <1>4, <2>3
  <2>5. k # 0 => u[k] = u[k - 1] + bytes[k] * Power[k - 1] /\ v[k] = v[k - 1] + bytes[k] * Power[k - 1]
    BY <1>3, <1>4, <2>3
  <2>6. k # 0 => u[k - 1] = v[k - 1]
    <3>1. k # 0 => k - 1 \in 0..LongSize /\ ~(k <= k - 1)
      BY <1>1, <2>3
    <3>. QED
      BY <2>2, <3>1
  <2>. QED
    BY <2>3, <2>4, <2>5, <2>6
<1>6. u[LongSize] = v[LongSize]
  <2>1. LongSize \in 0..LongSize
    BY <1>1
  <2> HIDE DEF u, v
  <2>. QED
    BY <1>5, <2>1
<1>7. v[LongSize] = m
  <2>1. m = 0 * Power[LongSize] + m /\ m \in 0..(Power[LongSize] - 1)
    BY <1>1
  <2>2. m % Power[LongSize] = m
    BY <1>1, <2>1, DivMod
  <2>. QED
    BY <1>1, <2>2
<1>8. Value(bytes) = u[LongSize]
  BY DEF Value
<1> QED
  BY <1>6, <1>7, <1>8 DEF m, bytes

(* A number that a long can hold is read back. *)
LEMMA LongRead ==
  ASSUME NEW n \in Int, Fits(n)
  PROVE  Long(LongBytes(n)) = n
<1> DEFINE P == Power[LongSize]
<1>1. P \in Nat \ {0}
  BY SizesAssumption, PowerValues
<1> HIDE DEF P
<1>2. CASE n >= 0
  <2>1. n < P
    BY <1>1, <1>2 DEF Fits, P
  <2>2. n = 0 * P + n /\ n \in 0..(P - 1)
    BY <1>1, <1>2, <2>1
  <2>3. n % P = n
    BY <1>1, <2>2, DivMod
  <2>4. Value(LongBytes(n)) = n
    BY <2>3, ValueOfBytes DEF P
  <2>. QED
    BY <1>1, <2>1, <2>4 DEF Long, Fits, P
<1>3. CASE n < 0
  <2>1. ~Wide /\ -P <= 2 * n
    BY <1>1, <1>3 DEF Fits, P
  <2>2. n = (-1) * P + (n + P) /\ n + P \in 0..(P - 1)
    BY <1>1, <1>3, <2>1
  <2>3. n % P = n + P
    BY <1>1, <2>2, DivMod
  <2>4. Value(LongBytes(n)) = n + P
    BY <2>3, ValueOfBytes DEF P
  <2>. QED
    BY <1>1, <2>1, <2>4 DEF Long, P
<1> QED
  BY <1>2, <1>3

-----------------------------------------------------------------------------
(* Objects.                                                                *)

LEMMA GenerationsIs ==
  ASSUME NEW o
  PROVE  /\ Generations(o)[0] = {o}
         /\ \A n \in 1..Depth :
              Generations(o)[n] = UNION {Children(x) : x \in Generations(o)[n - 1]}
<1> DEFINE Is(f, m) == f = [n \in 0..m |-> IF n = 0 THEN {o}
                                           ELSE UNION {Children(x) : x \in f[n - 1]}]
           T == {m \in 0..Depth : ~ \E f : Is(f, m)}
<1> HIDE DEF Is
<1>1. Depth \in Nat
  BY SizesAssumption
<1>2. ASSUME T # {} PROVE FALSE
  <2>0. T \subseteq Nat
    BY <1>1
  <2> HIDE DEF T
  <2>1. PICK m \in T : \A k \in T : m <= k
    BY <1>2, <2>0, Least
  <2> USE DEF T
  <2>2. CASE m = 0
    <3>1. Is([n \in 0..0 |-> {o}], 0)
      BY DEF Is
    <3>. QED
      BY <2>1, <2>2, <3>1
  <2>3. CASE m # 0
    <3>1. m - 1 \in 0..Depth /\ m - 1 \notin T /\ m \in 0..Depth
      BY <1>1, <2>1, <2>3
    <3>2. PICK f : Is(f, m - 1)
      BY <3>1
    <3> DEFINE g == [n \in 0..m |-> IF n = 0 THEN {o} ELSE UNION {Children(x) : x \in f[n - 1]}]
    <3>3. ASSUME NEW n \in 0..(m - 1) PROVE g[n] = f[n]
      <4>1. f[n] = IF n = 0 THEN {o} ELSE UNION {Children(x) : x \in f[n - 1]}
        BY <3>2 DEF Is
      <4>2. n \in 0..m
        BY <3>1
      <4>. QED
        BY <4>1, <4>2
    <3>4. ASSUME NEW n \in 0..m, n # 0 PROVE g[n] = UNION {Children(x) : x \in g[n - 1]}
      <4>1. n - 1 \in 0..(m - 1)
        BY <3>1, <3>4
      <4>2. g[n] = UNION {Children(x) : x \in f[n - 1]}
        BY <3>4
      <4>. QED
        BY <3>3, <4>1, <4>2
    <3>5. g = [n \in 0..m |-> IF n = 0 THEN {o} ELSE UNION {Children(x) : x \in g[n - 1]}]
      BY <3>4
    <3>. QED
      BY <2>1, <3>1, <3>5 DEF Is
  <2>. QED
    BY <2>2, <2>3
<1>3. \E f : Is(f, Depth)
  BY <1>1, <1>2
<1>4. Is(Generations(o), Depth)
  BY <1>3 DEF Generations, Is
<1> QED
  BY <1>1, <1>4 DEF Is

LEMMA RestoredIs ==
  ASSUME NEW o, NEW n \in 0..Depth, NEW x \in Generations(o)[Depth - n]
  PROVE  Restored(o)[n][x]
           = Kept(x, IF n = 0 THEN << >>
                     ELSE [i \in DOMAIN x.parts |-> Restored(o)[n - 1][x.parts[i]]])
<1> DEFINE Row(k, r) == [y \in Generations(o)[Depth - k] |->
                           Kept(y, IF k = 0 THEN << >>
                                   ELSE [i \in DOMAIN y.parts |-> r[y.parts[i]]])]
           Is(f, m) == f = [k \in 0..m |-> Row(k, f[k - 1])]
           T == {m \in 0..Depth : ~ \E f : Is(f, m)}
<1>1. Depth \in Nat
  BY SizesAssumption
<1>2. \A r, q : Row(0, r) = Row(0, q)
  OBVIOUS
<1> HIDE DEF Row, Is
<1>3. ASSUME T # {} PROVE FALSE
  <2>0. T \subseteq Nat
    BY <1>1
  <2> HIDE DEF T
  <2>1. PICK m \in T : \A k \in T : m <= k
    BY <1>3, <2>0, Least
  <2> USE DEF T
  <2>2. CASE m = 0
    <3> DEFINE g == [k \in 0..0 |-> Row(0, << >>)]
    <3>1. \A k \in 0..0 : g[k] = Row(k, g[k - 1])
      BY <1>2
    <3>2. Is(g, 0)
      BY <3>1 DEF Is
    <3>. QED
      BY <2>1, <2>2, <3>2
  <2>3. CASE m # 0
    <3>1. m - 1 \in 0..Depth /\ m - 1 \notin T /\ m \in 0..Depth
      BY <1>1, <2>1, <2>3
    <3>2. PICK f : Is(f, m - 1)
      BY <3>1
    <3> DEFINE g == [k \in 0..m |-> Row(k, f[k - 1])]
    <3>3. ASSUME NEW k \in 0..(m - 1) PROVE g[k] = f[k]
      <4>1. f[k] = Row(k, f[k - 1])
        BY <3>2 DEF Is
      <4>2. k \in 0..m
        BY <3>1
      <4>. QED
        BY <4>1, <4>2
    <3>4. ASSUME NEW k \in 0..m PROVE g[k] = Row(k, g[k - 1])
      <4>1. CASE k = 0
        BY <1>2, <4>1
      <4>2. CASE k # 0
        <5>1. k - 1 \in 0..(m - 1)
          BY <3>1, <4>2
        <5>. QED
          BY <3>3, <5>1
      <4>. QED
        BY <4>1, <4>2
    <3>5. g = [k \in 0..m |-> Row(k, g[k - 1])]
      BY <3>4
    <3>. QED
      BY <2>1, <3>1, <3>5 DEF Is
  <2>. QED
    BY <2>2, <2>3
<1>4. \E f : Is(f, Depth)
  BY <1>1, <1>3
<1>5. Is(Restored(o), Depth)
  BY <1>4 DEF Restored, Row, Is
<1>6. Restored(o)[n] = Row(n, Restored(o)[n - 1])
  BY <1>5 DEF Is
<1> QED
  BY <1>6 DEF Row

-----------------------------------------------------------------------------
(* What is left of a sequence behind its first d elements, with a sequence *)
(* that follows it.                                                        *)
Rest(s, d) == [i \in 1..(Len(s) - d) |-> s[i + d]]
Ahead(s, d, a) == Rest(s, d) \o a

LEMMA RestOf ==
  ASSUME NEW S, NEW s \in Seq(S), NEW d \in 0..Len(s)
  PROVE  /\ Rest(s, d) \in Seq(S)
         /\ Rest(s, 0) = s
         /\ d = Len(s) => Rest(s, d) = << >>
         /\ d < Len(s) => /\ Rest(s, d) # << >>
                          /\ Head(Rest(s, d)) = s[d + 1]
                          /\ Tail(Rest(s, d)) = Rest(s, d + 1)
<1>1. Len(s) \in Nat /\ \A i \in 1..Len(s) : s[i] \in S
  OBVIOUS
<1>2. \A e \in 0..Len(s) :
        /\ Rest(s, e) \in Seq(S) /\ Len(Rest(s, e)) = Len(s) - e
        /\ \A i \in 1..(Len(s) - e) : Rest(s, e)[i] = s[i + e]
  <2> TAKE e \in 0..Len(s)
  <2>1. \A i \in 1..(Len(s) - e) : s[i + e] \in S
    BY <1>1
  <2>2. Rest(s, e) \in [1..(Len(s) - e) -> S] /\ Len(s) - e \in Nat
    BY <1>1, <2>1 DEF Rest
  <2>. QED
    BY <2>2 DEF Rest
<1>3. Rest(s, 0) = s
  BY <1>1, <1>2
<1>4. ASSUME d = Len(s) PROVE Rest(s, d) = << >>
  BY <1>1, <1>2, <1>4
<1>5. ASSUME d < Len(s)
      PROVE  Rest(s, d) # << >> /\ Head(Rest(s, d)) = s[d + 1] /\ Tail(Rest(s, d)) = Rest(s, d + 1)
  <2>1. Rest(s, d) \in Seq(S) /\ Len(Rest(s, d)) = Len(s) - d /\ Len(s) - d > 0
    BY <1>1, <1>2, <1>5
  <2>0. Len(Rest(s, d)) > 0 /\ 1 \in 1..(Len(s) - d) /\ 1 + d = d + 1
    BY <1>1, <2>1
  <2>2. Rest(s, d) # << >> /\ Head(Rest(s, d)) = s[d + 1]
    <3>1. Rest(s, d) # << >>
      BY <2>0
    <3>2. Rest(s, d)[1] = s[d + 1]
      BY <1>2, <2>0
    <3>3. Head(Rest(s, d)) = Rest(s, d)[1]
      BY <2>1, <3>1
    <3>. QED
      BY <3>1, <3>2, <3>3
  <2>3. /\ Tail(Rest(s, d)) \in Seq(S) /\ Len(Tail(Rest(s, d))) = Len(s) - d - 1
        /\ \A i \in 1..(Len(s) - d - 1) : Tail(Rest(s, d))[i] = Rest(s, d)[i + 1]
    BY <2>1, <2>2, HeadTailProperties
  <2>4. d + 1 \in 0..Len(s)
    BY <1>1, <1>5
  <2>5. /\ Rest(s, d + 1) \in Seq(S) /\ Len(Rest(s, d + 1)) = Len(s) - d - 1
        /\ \A i \in 1..(Len(s) - d - 1) : Rest(s, d + 1)[i] = Tail(Rest(s, d))[i]
    BY <1>1, <1>2, <2>3, <2>4
  <2>6. Tail(Rest(s, d)) = Rest(s, d + 1)
    BY <2>3, <2>5, SeqEqual
  <2>. QED
    BY <2>2, <2>6
<1> QED
  BY <1>2, <1>3, <1>4, <1>5

LEMMA AheadOf ==
  ASSUME NEW S, NEW s \in Seq(S), NEW d \in 0..Len(s), NEW a \in Seq(S)
  PROVE  /\ Ahead(s, d, a) \in Seq(S)
         /\ d = Len(s) => Ahead(s, d, a) = a
         /\ d < Len(s) => /\ Ahead(s, d, a) # << >>
                          /\ Head(Ahead(s, d, a)) = s[d + 1]
                          /\ Tail(Ahead(s, d, a)) = Ahead(s, d + 1, a)
<1>1. Rest(s, d) \in Seq(S)
  BY RestOf
<1>2. Ahead(s, d, a) \in Seq(S)
  BY <1>1, ConcatProperties DEF Ahead
<1>3. ASSUME d = Len(s) PROVE Ahead(s, d, a) = a
  <2>1. Rest(s, d) = << >>
    BY <1>3, RestOf
  <2>. QED
    BY <2>1, ConcatEmptySeq DEF Ahead
<1>4. ASSUME d < Len(s)
      PROVE  /\ Ahead(s, d, a) # << >> /\ Head(Ahead(s, d, a)) = s[d + 1]
             /\ Tail(Ahead(s, d, a)) = Ahead(s, d + 1, a)
  <2> DEFINE r == Rest(s, d)
             q == Rest(s, d + 1)
  <2>1. /\ r \in Seq(S) /\ r # << >> /\ Head(r) = s[d + 1] /\ Tail(r) = q
    BY <1>4, RestOf
  <2> HIDE DEF r, q
  <2>2. /\ r \o a \in Seq(S) /\ Len(r \o a) = Len(r) + Len(a) /\ Len(r) > 0 /\ Len(r) \in Nat
        /\ Len(a) \in Nat
        /\ \A i \in 1..(Len(r) + Len(a)) : (r \o a)[i] = IF i <= Len(r) THEN r[i] ELSE a[i - Len(r)]
    BY <2>1, ConcatProperties, EmptySeq
  <2>3. r \o a # << >> /\ Head(r \o a) = Head(r)
    BY <2>1, <2>2
  <2>4. /\ Tail(r \o a) \in Seq(S) /\ Len(Tail(r \o a)) = Len(r) + Len(a) - 1
        /\ \A i \in 1..(Len(r) + Len(a) - 1) : Tail(r \o a)[i] = (r \o a)[i + 1]
    BY <2>2, <2>3, HeadTailProperties
  <2>5. q \in Seq(S) /\ Len(q) = Len(r) - 1 /\ \A i \in 1..(Len(r) - 1) : q[i] = r[i + 1]
    BY <2>1, HeadTailProperties
  <2>6. /\ q \o a \in Seq(S) /\ Len(q \o a) = Len(r) - 1 + Len(a)
        /\ \A i \in 1..(Len(r) - 1 + Len(a)) :
             (q \o a)[i] = IF i <= Len(r) - 1 THEN q[i] ELSE a[i - (Len(r) - 1)]
    <3>1. /\ q \o a \in Seq(S) /\ Len(q \o a) = Len(q) + Len(a)
          /\ \A i \in 1..(Len(q) + Len(a)) :
               (q \o a)[i] = IF i <= Len(q) THEN q[i] ELSE a[i - Len(q)]
      BY <2>5, ConcatProperties
    <3>2. Len(q) = Len(r) - 1
      BY <2>5
    <3>. QED
      BY ONLY <3>1, <3>2
  <2>7. ASSUME NEW i \in 1..(Len(r) + Len(a) - 1) PROVE Tail(r \o a)[i] = (q \o a)[i]
    <3>1. i + 1 \in 1..(Len(r) + Len(a)) /\ i + 1 - Len(r) = i - (Len(r) - 1)
      BY <2>2
    <3>2. Tail(r \o a)[i] = IF i + 1 <= Len(r) THEN r[i + 1] ELSE a[i - (Len(r) - 1)]
      BY <2>2, <2>4, <3>1
    <3>. QED
      BY <2>2, <2>5, <2>6, <3>2
  <2>8. Tail(r \o a) = q \o a
    BY <2>4, <2>6, <2>7, <2>2, SeqEqual
  <2>. QED
    BY <2>1, <2>3, <2>8 DEF Ahead, r, q
<1> QED
  BY <1>2, <1>3, <1>4

-----------------------------------------------------------------------------
(* The frames as a stack: one more, the innermost one changed, the         *)
(* innermost one gone and the next one changed.                            *)
IsSeq(s) == \E S : s \in Seq(S)

Pushed(f, s) == <<f>> \o s
Topped(f, s) == <<f>> \o Tail(s)
Popped(f, s) == <<f>> \o SubSeq(s, 3, Len(s))

LEMMA SeqOf ==
  ASSUME NEW s, IsSeq(s), NEW f
  PROVE  \E S : s \in Seq(S) /\ <<f>> \in Seq(S)
<1>1. PICK S : s \in Seq(S)
  BY DEF IsSeq
<1>2. s \in Seq(S \cup {f})
  BY <1>1, SeqMonotonic
<1>3. <<f>> \in Seq(S \cup {f})
  OBVIOUS
<1> QED
  BY <1>2, <1>3

LEMMA PushOf ==
  ASSUME NEW s, IsSeq(s), NEW f
  PROVE  /\ IsSeq(Pushed(f, s)) /\ Len(s) \in Nat /\ Len(Pushed(f, s)) = Len(s) + 1
         /\ Pushed(f, s) # << >> /\ Pushed(f, s)[1] = f
         /\ \A i \in 2..(Len(s) + 1) : Pushed(f, s)[i] = s[i - 1]
<1>1. PICK S : s \in Seq(S) /\ <<f>> \in Seq(S)
  BY SeqOf
<1>2. Len(<<f>>) = 1 /\ <<f>>[1] = f
  OBVIOUS
<1>3. Len(s) \in Nat
  BY <1>1
<1>4. /\ Pushed(f, s) \in Seq(S) /\ Len(Pushed(f, s)) = Len(<<f>>) + Len(s)
      /\ \A i \in 1..(Len(<<f>>) + Len(s)) :
           Pushed(f, s)[i] = IF i <= Len(<<f>>) THEN <<f>>[i] ELSE s[i - Len(<<f>>)]
  BY <1>1, ConcatProperties DEF Pushed
<1>5. Len(Pushed(f, s)) = Len(s) + 1 /\ Pushed(f, s)[1] = f
  BY <1>2, <1>3, <1>4
<1>6. \A i \in 2..(Len(s) + 1) : Pushed(f, s)[i] = s[i - 1]
  BY <1>2, <1>3, <1>4
<1>7. Pushed(f, s) # << >>
  BY <1>3, <1>5
<1> QED
  BY <1>3, <1>4, <1>5, <1>6, <1>7 DEF IsSeq

LEMMA TopOf ==
  ASSUME NEW s, IsSeq(s), s # << >>, NEW f
  PROVE  /\ IsSeq(Topped(f, s)) /\ Len(s) \in Nat \ {0} /\ Len(Topped(f, s)) = Len(s)
         /\ Topped(f, s) # << >> /\ Topped(f, s)[1] = f
         /\ \A i \in 2..Len(s) : Topped(f, s)[i] = s[i]
<1>1. PICK S : s \in Seq(S) /\ <<f>> \in Seq(S)
  BY SeqOf
<1>2. Len(s) \in Nat \ {0}
  BY <1>1, EmptySeq
<1>3. /\ Tail(s) \in Seq(S) /\ Len(Tail(s)) = Len(s) - 1
      /\ \A i \in 1..Len(Tail(s)) : Tail(s)[i] = s[i + 1]
  BY <1>1, HeadTailProperties
<1>4. IsSeq(Tail(s))
  BY <1>3 DEF IsSeq
<1> DEFINE t == Tail(s)
<1>5. Topped(f, s) = Pushed(f, t)
  BY DEF Topped, Pushed
<1> HIDE DEF t
<1>6. /\ IsSeq(Pushed(f, t)) /\ Len(Pushed(f, t)) = Len(t) + 1
      /\ Pushed(f, t) # << >> /\ Pushed(f, t)[1] = f
      /\ \A i \in 2..(Len(t) + 1) : Pushed(f, t)[i] = t[i - 1]
  BY <1>4, PushOf DEF t
<1>7. Len(t) = Len(s) - 1 /\ \A i \in 1..(Len(s) - 1) : t[i] = s[i + 1]
  BY <1>3 DEF t
<1>8. ASSUME NEW i \in 2..Len(s) PROVE Pushed(f, t)[i] = s[i]
  <2>1. i \in 2..(Len(t) + 1) /\ i - 1 \in 1..(Len(s) - 1) /\ i - 1 + 1 = i
    BY <1>2, <1>7
  <2>. QED
    BY <1>6, <1>7, <2>1
<1> QED
  BY <1>2, <1>5, <1>6, <1>7, <1>8

LEMMA PopOf ==
  ASSUME NEW s, IsSeq(s), s # << >>, Len(s) # 1, NEW f
  PROVE  /\ IsSeq(Popped(f, s)) /\ Len(s) \in Nat /\ Len(s) >= 2
         /\ Len(Popped(f, s)) = Len(s) - 1
         /\ Popped(f, s) # << >> /\ Popped(f, s)[1] = f
         /\ \A i \in 2..(Len(s) - 1) : Popped(f, s)[i] = s[i + 1]
<1>1. PICK S : s \in Seq(S) /\ <<f>> \in Seq(S)
  BY SeqOf
<1>2. Len(s) \in Nat /\ Len(s) >= 2
  <2>1. Len(s) \in Nat \ {0}
    BY <1>1, EmptySeq
  <2>2. \A k \in Nat \ {0} : k # 1 => k \in Nat /\ k >= 2
    OBVIOUS
  <2>. QED
    BY Zenon, <2>1, <2>2
<1>3. \A i \in 3..Len(s) : s[i] \in S
  BY <1>1, <1>2
<1> DEFINE t == SubSeq(s, 3, Len(s))
<1>4. /\ t \in Seq(S) /\ Len(t) = (IF 3 <= Len(s) THEN Len(s) - 3 + 1 ELSE 0)
      /\ \A i \in 1..(Len(s) - 3 + 1) : t[i] = s[3 + i - 1]
  BY <1>2, <1>3, SubSeqProperties
<1>5. Popped(f, s) = Pushed(f, t)
  BY DEF Popped, Pushed
<1> HIDE DEF t
<1>6. IsSeq(t)
  BY <1>4 DEF IsSeq
<1>7. /\ IsSeq(Pushed(f, t)) /\ Len(Pushed(f, t)) = Len(t) + 1
      /\ Pushed(f, t) # << >> /\ Pushed(f, t)[1] = f
      /\ \A i \in 2..(Len(t) + 1) : Pushed(f, t)[i] = t[i - 1]
  BY <1>6, PushOf
<1>8. Len(t) = Len(s) - 2 /\ \A i \in 1..(Len(s) - 2) : t[i] = s[i + 2]
  <2>1. Len(t) = Len(s) - 2
    <3>1. \A k \in Nat : k >= 2 => (IF 3 <= k THEN k - 3 + 1 ELSE 0) = k - 2
      OBVIOUS
    <3>. QED
      BY Zenon, <1>2, <1>4, <3>1
  <2>2. ASSUME NEW i \in 1..(Len(s) - 2) PROVE t[i] = s[i + 2]
    <3>1. i \in 1..(Len(s) - 3 + 1) /\ 3 + i - 1 = i + 2
      BY <1>2
    <3>. QED
      BY <1>4, <3>1
  <2>. QED
    BY <2>1, <2>2
<1>9. ASSUME NEW i \in 2..(Len(s) - 1) PROVE Pushed(f, t)[i] = s[i + 1]
  <2>1. i \in 2..(Len(t) + 1) /\ i - 1 \in 1..(Len(s) - 2) /\ i - 1 + 2 = i + 1
    BY <1>2, <1>8
  <2>. QED
    BY <1>7, <1>8, <2>1
<1> QED
  BY <1>2, <1>5, <1>7, <1>8, <1>9

-----------------------------------------------------------------------------
(* Bytes.                                                                  *)

(* The value of bytes is a number. *)
LEMMA LongType ==
  ASSUME NEW b \in Seq(Int), Len(b) = LongSize
  PROVE  Long(b) \in Int
<1> DEFINE Is(f, m) == f = [n \in 0..m |-> IF n = 0 THEN 0 ELSE f[n - 1] + b[n] * Power[n - 1]]
           T == {m \in 0..LongSize : ~ \E f : Is(f, m) /\ \A n \in 0..m : f[n] \in Int}
<1>1. LongSize \in Nat /\ (\A n \in 1..LongSize : b[n] \in Int)
      /\ \A n \in 0..LongSize : Power[n] \in Int
  BY SizesAssumption, PowerValues
<1> HIDE DEF Is
<1>2. ASSUME T # {} PROVE FALSE
  <2>0. T \subseteq Nat
    BY <1>1
  <2> HIDE DEF T
  <2>1. PICK m \in T : \A k \in T : m <= k
    BY <1>2, <2>0, Least
  <2> USE DEF T
  <2>2. CASE m = 0
    <3>1. Is([n \in 0..0 |-> 0], 0)
      BY DEF Is
    <3>2. \A n \in 0..0 : [k \in 0..0 |-> 0][n] \in Int
      OBVIOUS
    <3>. QED
      BY <2>1, <2>2, <3>1, <3>2
  <2>3. CASE m # 0
    <3>1. m - 1 \in 0..LongSize /\ m - 1 \notin T /\ m \in 1..LongSize
      BY <1>1, <2>1, <2>3
    <3>2. PICK f : Is(f, m - 1) /\ \A n \in 0..(m - 1) : f[n] \in Int
      BY <3>1
    <3> DEFINE g == [n \in 0..m |-> IF n = 0 THEN 0 ELSE f[n - 1] + b[n] * Power[n - 1]]
    <3>3. ASSUME NEW n \in 0..(m - 1) PROVE g[n] = f[n]
      <4>1. f[n] = IF n = 0 THEN 0 ELSE f[n - 1] + b[n] * Power[n - 1]
        BY <3>2 DEF Is
      <4>2. n \in 0..m
        BY <3>1
      <4>. QED
        BY <4>1, <4>2
    <3>4. ASSUME NEW n \in 0..m, n # 0 PROVE g[n] = g[n - 1] + b[n] * Power[n - 1]
      <4>1. n - 1 \in 0..(m - 1)
        BY <3>1, <3>4
      <4>2. g[n] = f[n - 1] + b[n] * Power[n - 1]
        BY <3>4
      <4>. QED
        BY <3>3, <4>1, <4>2
    <3>5. g = [n \in 0..m |-> IF n = 0 THEN 0 ELSE g[n - 1] + b[n] * Power[n - 1]]
      BY <3>4
    <3>6. ASSUME NEW n \in 0..m PROVE g[n] \in Int
      <4>1. CASE n = 0
        BY <4>1
      <4>2. CASE n # 0
        <5>1. n - 1 \in 0..(m - 1) /\ n \in 1..LongSize /\ n - 1 \in 0..LongSize
          BY <1>1, <3>1, <4>2
        <5>2. f[n - 1] \in Int /\ b[n] \in Int /\ Power[n - 1] \in Int
          BY <1>1, <3>2, <5>1
        <5>3. g[n] = f[n - 1] + b[n] * Power[n - 1]
          BY <4>2
        <5>. QED
          BY ONLY <5>2, <5>3
      <4>. QED
        BY <4>1, <4>2
    <3>7. Is(g, m) /\ \A n \in 0..m : g[n] \in Int
      BY <3>5, <3>6 DEF Is
    <3> HIDE DEF g
    <3>8. \E h : Is(h, m) /\ \A n \in 0..m : h[n] \in Int
      BY <3>7
    <3>. QED
      BY <2>1, <3>8
  <2>. QED
    BY <2>2, <2>3
<1>3. PICK f : Is(f, LongSize) /\ \A n \in 0..LongSize : f[n] \in Int
  <2>1. LongSize \in 0..LongSize
    BY <1>1
  <2> HIDE DEF T
  <2>2. LongSize \notin T
    BY <1>2
  <2> USE DEF T
  <2>. QED
    BY <2>1, <2>2
<1> DEFINE u == CHOOSE h : Is(h, LongSize)
           D == {k \in 0..LongSize : u[k] # f[k]}
<1>4. Is(u, LongSize)
  BY <1>3
<1>5. ASSUME D # {} PROVE FALSE
  <2>1. D \subseteq Nat
    BY <1>1
  <2> HIDE DEF D
  <2>2. PICK k \in D : \A j \in D : k <= j
    BY <1>5, <2>1, Least
  <2> USE DEF D
  <2> HIDE DEF u
  <2>3. k \in 0..LongSize /\ u[k] # f[k]
    BY <2>2
  <2>4. k = 0 => u[k] = 0 /\ f[k] = 0
    BY <1>3, <1>4, <2>3 DEF Is
  <2>5. k # 0 => u[k] = u[k - 1] + b[k] * Power[k - 1] /\ f[k] = f[k - 1] + b[k] * Power[k - 1]
    BY <1>3, <1>4, <2>3 DEF Is
  <2>6. k # 0 => u[k - 1] = f[k - 1]
    <3>1. k # 0 => k - 1 \in 0..LongSize /\ ~(k <= k - 1)
      BY <1>1, <2>3
    <3>. QED
      BY <2>2, <3>1
  <2>. QED
    BY <2>3, <2>4, <2>5, <2>6
<1>6. u[LongSize] \in Int
  <2>1. LongSize \in 0..LongSize
    BY <1>1
  <2> HIDE DEF u
  <2>. QED
    BY <1>3, <1>5, <2>1
<1>7. Value(b) = u[LongSize]
  BY DEF Value, Is
<1>8. Value(b) \in Int /\ Power[LongSize] \in Int
  BY <1>1, <1>6, <1>7
<1> QED
  BY <1>8 DEF Long

-----------------------------------------------------------------------------
(* What is written for an object.                                          *)

LEMMA ChildOf ==
  ASSUME object \in Objects, NEW g \in 0..Depth, NEW x \in Generations(object)[g]
  PROVE  /\ x \in Nodes(object) /\ Sound(x)
         /\ \A c \in Children(x) :
              /\ g < Depth /\ g + 1 \in 0..Depth /\ c \in Generations(object)[g + 1]
              /\ c \in Nodes(object) /\ Sound(c)
<1>1. Depth \in Nat
  BY SizesAssumption
<1>2. \A k \in 0..Depth : \A y \in Generations(object)[k] : y \in Nodes(object) /\ Sound(y)
  BY ObjectsAssumption DEF Nodes
<1>3. ASSUME NEW c \in Children(x)
      PROVE  g < Depth /\ g + 1 \in 0..Depth /\ c \in Generations(object)[g + 1]
  <2>1. g # Depth
    BY <1>3, ObjectsAssumption
  <2>2. g < Depth /\ g + 1 \in 1..Depth /\ g + 1 \in 0..Depth /\ g + 1 - 1 = g
    BY <1>1, <2>1
  <2>3. Generations(object)[g + 1] = UNION {Children(y) : y \in Generations(object)[g + 1 - 1]}
    BY <2>2, GenerationsIs
  <2>. QED
    BY <1>3, <2>2, <2>3
<1> QED
  BY <1>2, <1>3

Writes(o) == {ObjectTask(x) : x \in Nodes(o)} \cup {LongTask(n) : n \in Int}

LEMMA WritesOf ==
  ASSUME NEW o
  PROVE  /\ \A x \in Nodes(o) : ObjectTask(x) \in Writes(o)
         /\ \A n \in Int : LongTask(n) \in Writes(o)
BY DEF Writes

LEMMA NodeOf ==
  ASSUME object \in Objects, NEW x \in Nodes(object)
  PROVE  Sound(x) /\ \A c \in Children(x) : c \in Nodes(object)
<1>1. PICK g \in 0..Depth : x \in Generations(object)[g]
  BY DEF Nodes
<1> QED
  BY <1>1, ChildOf

LEMMA TasksType ==
  ASSUME NEW s, NEW n \in Nat, DOMAIN s = 1..n, \A i \in 1..n : s[i] \in Nodes(object)
  PROVE  /\ Tasks(s) \in Seq(Writes(object)) /\ Len(Tasks(s)) = n
         /\ \A i \in 1..n : Tasks(s)[i] = ObjectTask(s[i])
<1>1. Tasks(s) = [i \in 1..n |-> ObjectTask(s[i])]
  BY DEF Tasks
<1>2. Tasks(s) \in [1..n -> Writes(object)]
  BY <1>1, WritesOf
<1> QED
  BY <1>1, <1>2

LEMMA LongTasksType ==
  ASSUME NEW s \in Seq(Int)
  PROVE  /\ LongTasks(s) \in Seq(Writes(object)) /\ Len(LongTasks(s)) = Len(s)
         /\ \A i \in 1..Len(s) : LongTasks(s)[i] = LongTask(s[i])
<1>1. Len(s) \in Nat /\ DOMAIN s = 1..Len(s) /\ \A i \in 1..Len(s) : s[i] \in Int
  OBVIOUS
<1>2. LongTasks(s) = [i \in 1..Len(s) |-> LongTask(s[i])]
  BY <1>1 DEF LongTasks
<1>3. LongTasks(s) \in [1..Len(s) -> Writes(object)]
  BY <1>1, <1>2, WritesOf
<1> QED
  BY <1>1, <1>2, <1>3

(* The parts and the longs of a code object. *)
LEMMA CodeOf ==
  ASSUME object \in Objects, NEW x \in Nodes(object), x.type = "code"
  PROVE  /\ x.parts \in Seq({x.parts[i] : i \in DOMAIN x.parts}) /\ DOMAIN x.parts = 1..7
         /\ \A i \in 1..7 : x.parts[i] \in Nodes(object) /\ x.parts[i] \in Children(x)
         /\ Empty \in Nodes(object) /\ NoneObject \in Nodes(object)
         /\ Empty \in Children(x) /\ NoneObject \in Children(x)
         /\ x.data \in Seq(Int) /\ Len(x.data) = 5
         /\ \A i \in 1..5 : x.data[i] \in Int
         /\ x.parts[7].type = "unicode"
<1>1. Sound(x) /\ \A c \in Children(x) : c \in Nodes(object)
  BY NodeOf
<1>2. Len(x.parts) = 7 /\ x.parts \in Seq({x.parts[i] : i \in DOMAIN x.parts})
      /\ x.data \in Seq(Int) /\ Len(x.data) = 5 /\ x.parts[7].type = "unicode"
  BY <1>1 DEF Sound
<1>3. DOMAIN x.parts = 1..7
  BY <1>2, LenProperties
<1>4. Children(x) = {x.parts[i] : i \in DOMAIN x.parts} \cup {Empty, NoneObject}
  BY DEF Children
<1>5. \A i \in 1..5 : x.data[i] \in Int
  BY <1>2
<1> QED
  BY <1>1, <1>2, <1>3, <1>4, <1>5

FirstSix(x) == Tasks(SubSeq(x.parts, 1, 6))

More(s, e) == s \o <<e>>

LEMMA MoreOf ==
  ASSUME NEW S, NEW s \in Seq(S), NEW e \in S
  PROVE  /\ More(s, e) \in Seq(S) /\ Len(More(s, e)) = Len(s) + 1
         /\ (\A i \in 1..Len(s) : More(s, e)[i] = s[i]) /\ More(s, e)[Len(s) + 1] = e
<1> DEFINE t == <<e>>
           n == Len(s)
<1>1. t \in Seq(S) /\ Len(t) = 1 /\ t[1] = e
  OBVIOUS
<1>2. More(s, e) = s \o t
  BY DEF More
<1> HIDE DEF t
<1>3. /\ s \o t \in Seq(S) /\ Len(s \o t) = Len(s) + Len(t)
      /\ \A i \in 1..(Len(s) + Len(t)) : (s \o t)[i] = IF i <= Len(s) THEN s[i] ELSE t[i - Len(s)]
  BY <1>1, ConcatProperties
<1>4. n \in Nat /\ Len(s) + Len(t) = n + 1 /\ n + 1 \in 1..(n + 1) /\ n + 1 - n = 1
      /\ 1..n \subseteq 1..(n + 1)
  BY <1>1
<1>5. ASSUME NEW i \in 1..n PROVE (s \o t)[i] = s[i]
  BY <1>3, <1>4
<1>6. (s \o t)[n + 1] = t[1]
  <2>1. ~(n + 1 <= n)
    BY <1>4
  <2>. QED
    BY <1>3, <1>4, <2>1
<1> QED
  BY <1>1, <1>2, <1>3, <1>4, <1>5, <1>6

LEMMA FirstSixType ==
  ASSUME object \in Objects, NEW x \in Nodes(object), x.type = "code"
  PROVE  /\ FirstSix(x) \in Seq(Writes(object)) /\ Len(FirstSix(x)) = 6
         /\ \A i \in 1..6 : FirstSix(x)[i] = ObjectTask(x.parts[i])
<1> DEFINE S == {x.parts[i] : i \in DOMAIN x.parts}
           s == SubSeq(x.parts, 1, 6)
<1>1. ASSUME NEW i \in 1..6 PROVE x.parts[i] \in S /\ x.parts[i] \in Nodes(object)
  <2>1. i \in 1..7
    OBVIOUS
  <2>2. DOMAIN x.parts = 1..7 /\ x.parts[i] \in Nodes(object)
    BY <2>1, CodeOf
  <2>. QED
    BY <2>1, <2>2
<1> HIDE DEF S
<1>2. /\ s \in Seq(S) /\ Len(s) = 6
      /\ \A i \in 1..6 : s[i] = x.parts[i]
  <2>1. /\ s \in Seq(S) /\ Len(s) = (IF 1 <= 6 THEN 6 - 1 + 1 ELSE 0)
        /\ \A i \in 1..(6 - 1 + 1) : s[i] = x.parts[1 + i - 1]
    BY <1>1, SubSeqProperties
  <2>2. ASSUME NEW i \in 1..6 PROVE s[i] = x.parts[i]
    <3>1. i \in 1..(6 - 1 + 1) /\ 1 + i - 1 = i
      OBVIOUS
    <3>. QED
      BY <2>1, <3>1
  <2>. QED
    BY <2>1, <2>2
<1> HIDE DEF s
<1>3. DOMAIN s = 1..6
  BY <1>2, LenProperties
<1>4. ASSUME NEW i \in 1..6 PROVE s[i] \in Nodes(object)
  <2>1. s[i] = x.parts[i] /\ x.parts[i] \in Nodes(object)
    BY <1>1, <1>2
  <2>. QED
    BY ONLY <2>1
<1>5. /\ Tasks(s) \in Seq(Writes(object)) /\ Len(Tasks(s)) = 6
      /\ \A i \in 1..6 : Tasks(s)[i] = ObjectTask(s[i])
  BY <1>3, <1>4, TasksType
<1> QED
  BY <1>2, <1>5 DEF FirstSix, s

(* The code objects of the two layouts. *)
LEMMA CodePyc ==
  ASSUME object \in Objects, NEW x \in Nodes(object), x.type = "code", layout = "pyc"
  PROVE  /\ Follows(x) \in Seq(Writes(object)) /\ Len(Follows(x)) = 15
         /\ \A i \in 1..5 : Follows(x)[i] = LongTask(x.data[i])
         /\ \A i \in 6..11 : Follows(x)[i] = ObjectTask(x.parts[i - 5])
         /\ Follows(x)[12] = ObjectTask(Empty) /\ Follows(x)[13] = ObjectTask(x.parts[7])
         /\ Follows(x)[14] = LongTask(0) /\ Follows(x)[15] = ObjectTask(NoneObject)
<1> DEFINE A == Writes(object)
           L == LongTasks(x.data)
           P == FirstSix(x)
           e == ObjectTask(Empty)
           n == ObjectTask(x.parts[7])
           z == LongTask(0)
           o == ObjectTask(NoneObject)
<1>1. L \in Seq(A) /\ Len(L) = 5 /\ \A i \in 1..5 : L[i] = LongTask(x.data[i])
  <2>1. x.data \in Seq(Int) /\ Len(x.data) = 5
    BY CodeOf
  <2>. QED
    BY <2>1, LongTasksType
<1>2. P \in Seq(A) /\ Len(P) = 6 /\ \A i \in 1..6 : P[i] = ObjectTask(x.parts[i])
  BY FirstSixType
<1>3. e \in A /\ n \in A /\ z \in A /\ o \in A
  <2>1. Empty \in Nodes(object) /\ x.parts[7] \in Nodes(object) /\ NoneObject \in Nodes(object)
    <3>1. 7 \in 1..7
      OBVIOUS
    <3>. QED
      BY Zenon, <3>1, CodeOf
  <2>2. 0 \in Int
    OBVIOUS
  <2>. QED
    BY <2>1, <2>2, WritesOf
<1>4. Follows(x) = L \o (((P \o <<e>>) \o <<n>>) \o <<z, o>>)
  BY DEF Follows, CodeLongs, CodeTasks, FirstSix
<1> HIDE DEF A, L, P, e, n, z, o
<1>5. <<e>> \in Seq(A) /\ <<n>> \in Seq(A) /\ <<z, o>> \in Seq(A)
  BY <1>3
<1> DEFINE a == More(P, e)
           b == More(a, n)
           c == b \o <<z, o>>
           f == L \o c
<1>6. a \in Seq(A) /\ Len(a) = 7 /\ (\A i \in 1..6 : a[i] = P[i]) /\ a[7] = e
  <2>1. /\ a \in Seq(A) /\ Len(a) = Len(P) + 1
        /\ (\A i \in 1..Len(P) : a[i] = P[i]) /\ a[Len(P) + 1] = e
    BY <1>2, <1>3, MoreOf
  <2> HIDE DEF a
  <2>. QED
    BY <1>2, <2>1
<1> HIDE DEF a
<1>7. b \in Seq(A) /\ Len(b) = 8 /\ (\A i \in 1..7 : b[i] = a[i]) /\ b[8] = n
  <2>0. a \in Seq(A) /\ n \in A
    BY <1>6, <1>3
  <2>1. /\ b \in Seq(A) /\ Len(b) = Len(a) + 1
        /\ (\A i \in 1..Len(a) : b[i] = a[i]) /\ b[Len(a) + 1] = n
    BY <2>0, MoreOf
  <2> HIDE DEF b
  <2>. QED
    BY <1>6, <2>1
<1> HIDE DEF b
<1>8. c \in Seq(A) /\ Len(c) = 10 /\ (\A i \in 1..8 : c[i] = b[i]) /\ c[9] = z /\ c[10] = o
  <2>1. /\ c \in Seq(A) /\ Len(c) = Len(b) + Len(<<z, o>>)
        /\ \A i \in 1..(Len(b) + Len(<<z, o>>)) :
             c[i] = IF i <= Len(b) THEN b[i] ELSE <<z, o>>[i - Len(b)]
    BY <1>7, <1>5, ConcatProperties
  <2>2. Len(<<z, o>>) = 2 /\ <<z, o>>[1] = z /\ <<z, o>>[2] = o
    OBVIOUS
  <2> HIDE DEF c
  <2>. QED
    BY <1>7, <2>1, <2>2
<1> HIDE DEF c
<1>9. f \in Seq(A) /\ Len(f) = 15 /\ (\A i \in 1..5 : f[i] = L[i]) /\ \A i \in 6..15 : f[i] = c[i - 5]
  <2>1. /\ f \in Seq(A) /\ Len(f) = Len(L) + Len(c)
        /\ \A i \in 1..(Len(L) + Len(c)) : f[i] = IF i <= Len(L) THEN L[i] ELSE c[i - Len(L)]
    BY <1>1, <1>8, ConcatProperties
  <2> HIDE DEF f
  <2>. QED
    BY <1>1, <1>8, <2>1
<1>10. Follows(x) = f
  BY <1>4 DEF a, b, c, More
<1> HIDE DEF f
<1>11. ASSUME NEW i \in 6..11 PROVE f[i] = ObjectTask(x.parts[i - 5])
  <2>1. i \in 6..15 /\ i - 5 \in 1..6 /\ i - 5 \in 1..7 /\ i - 5 \in 1..8
    OBVIOUS
  <2>2. f[i] = c[i - 5] /\ c[i - 5] = b[i - 5]
    BY <1>8, <1>9, <2>1
  <2>3. b[i - 5] = a[i - 5] /\ a[i - 5] = P[i - 5] /\ P[i - 5] = ObjectTask(x.parts[i - 5])
    BY <1>2, <1>6, <1>7, <2>1
  <2>. QED
    BY <2>2, <2>3
<1>12. f[12] = c[7] /\ f[13] = c[8] /\ f[14] = c[9] /\ f[15] = c[10]
  BY <1>9
<1>13. f[12] = e /\ f[13] = n /\ f[14] = z /\ f[15] = o
  BY <1>6, <1>7, <1>8, <1>12
<1> QED
  BY <1>1, <1>9, <1>10, <1>11, <1>13 DEF A, e, n, z, o

LEMMA CodePlus ==
  ASSUME object \in Objects, NEW x \in Nodes(object), x.type = "code", layout = "plus"
  PROVE  /\ Follows(x) \in Seq(Writes(object)) /\ Len(Follows(x)) = 11
         /\ \A i \in 1..3 : Follows(x)[i] = LongTask(x.data[i])
         /\ Follows(x)[4] = LongTask(x.data[5])
         /\ \A i \in 5..10 : Follows(x)[i] = ObjectTask(x.parts[i - 4])
         /\ Follows(x)[11] = ObjectTask(x.parts[7])
<1> DEFINE A == Writes(object)
           d == <<x.data[1], x.data[2], x.data[3], x.data[5]>>
           L == LongTasks(d)
           P == FirstSix(x)
           n == ObjectTask(x.parts[7])
<1>1. /\ L \in Seq(A) /\ Len(L) = 4
      /\ L[1] = LongTask(x.data[1]) /\ L[2] = LongTask(x.data[2])
      /\ L[3] = LongTask(x.data[3]) /\ L[4] = LongTask(x.data[5])
  <2>1. d \in Seq(Int) /\ Len(d) = 4
    <3>1. \A i \in 1..5 : x.data[i] \in Int
      BY CodeOf
    <3>2. x.data[1] \in Int /\ x.data[2] \in Int /\ x.data[3] \in Int /\ x.data[5] \in Int
      BY <3>1
    <3>. QED
      BY <3>2
  <2>2. L \in Seq(A) /\ Len(L) = 4 /\ \A i \in 1..4 : L[i] = LongTask(d[i])
    BY <2>1, LongTasksType
  <2>. QED
    BY <2>2
<1>2. P \in Seq(A) /\ Len(P) = 6 /\ \A i \in 1..6 : P[i] = ObjectTask(x.parts[i])
  BY FirstSixType
<1>3. n \in A
  <2>1. x.parts[7] \in Nodes(object)
    <3>1. 7 \in 1..7
      OBVIOUS
    <3>. QED
      BY Zenon, <3>1, CodeOf
  <2>. QED
    BY <2>1, WritesOf
<1>4. Follows(x) = L \o (((P \o << >>) \o <<n>>) \o << >>)
  BY DEF Follows, CodeLongs, CodeTasks, FirstSix
<1> HIDE DEF A, L, P, n
<1>5. <<n>> \in Seq(A)
  BY <1>3
<1> DEFINE b == More(P, n)
           f == L \o b
<1>6. b \in Seq(A) /\ Len(b) = 7 /\ (\A i \in 1..6 : b[i] = P[i]) /\ b[7] = n
  <2>1. /\ b \in Seq(A) /\ Len(b) = Len(P) + 1
        /\ (\A i \in 1..Len(P) : b[i] = P[i]) /\ b[Len(P) + 1] = n
    BY <1>2, <1>3, MoreOf
  <2> HIDE DEF b
  <2>. QED
    BY <1>2, <2>1
<1>7. P \o << >> = P /\ b \o << >> = b
  BY <1>2, <1>6, ConcatEmptySeq
<1> HIDE DEF b
<1>8. f \in Seq(A) /\ Len(f) = 11 /\ (\A i \in 1..4 : f[i] = L[i]) /\ \A i \in 5..11 : f[i] = b[i - 4]
  <2>1. /\ f \in Seq(A) /\ Len(f) = Len(L) + Len(b)
        /\ \A i \in 1..(Len(L) + Len(b)) : f[i] = IF i <= Len(L) THEN L[i] ELSE b[i - Len(L)]
    BY <1>1, <1>6, ConcatProperties
  <2> HIDE DEF f
  <2>. QED
    BY <1>1, <1>6, <2>1
<1>9. Follows(x) = f
  BY <1>4, <1>7 DEF b, More
<1> HIDE DEF f
<1>10. ASSUME NEW i \in 5..10 PROVE f[i] = ObjectTask(x.parts[i - 4])
  <2>1. i \in 5..11 /\ i - 4 \in 1..6
    OBVIOUS
  <2>. QED
    BY <1>2, <1>6, <1>8, <2>1
<1>11. f[11] = b[7]
  BY <1>8
<1>12. \A i \in 1..3 : L[i] = LongTask(x.data[i])
  BY <1>1
<1> QED
  BY <1>1, <1>6, <1>8, <1>9, <1>10, <1>11, <1>12 DEF A, n

(* The items of a tuple. *)
LEMMA TupleOf ==
  ASSUME object \in Objects, NEW x \in Nodes(object), x.type = "tuple"
  PROVE  /\ x.parts \in Seq({x.parts[i] : i \in DOMAIN x.parts}) /\ Len(x.parts) \in Nat
         /\ DOMAIN x.parts = 1..Len(x.parts)
         /\ \A i \in 1..Len(x.parts) : x.parts[i] \in Nodes(object) /\ x.parts[i] \in Children(x)
<1>1. Sound(x) /\ \A c \in Children(x) : c \in Nodes(object)
  BY NodeOf
<1>2. x.parts \in Seq({x.parts[i] : i \in DOMAIN x.parts})
  BY <1>1 DEF Sound
<1>3. Len(x.parts) \in Nat /\ DOMAIN x.parts = 1..Len(x.parts)
  BY <1>2, LenProperties
<1>4. Children(x) = {x.parts[i] : i \in DOMAIN x.parts}
  BY DEF Children
<1> QED
  BY <1>1, <1>2, <1>3, <1>4

LEMMA TupleFollows ==
  ASSUME object \in Objects, NEW x \in Nodes(object), x.type = "tuple"
  PROVE  /\ Follows(x) \in Seq(Writes(object))
         /\ x.parts # << >> =>
              /\ Len(Follows(x)) = Len(x.parts) + 1
              /\ Follows(x)[1] = LongTask(Len(x.parts))
              /\ \A i \in 2..(Len(x.parts) + 1) : Follows(x)[i] = ObjectTask(x.parts[i - 1])
<1> DEFINE A == Writes(object)
           l == LongTask(Len(x.parts))
           z == LongTask(0)
           t == Tasks(x.parts)
<1>1. Len(x.parts) \in Nat /\ DOMAIN x.parts = 1..Len(x.parts)
      /\ \A i \in 1..Len(x.parts) : x.parts[i] \in Nodes(object)
  BY TupleOf
<1>2. /\ t \in Seq(A) /\ Len(t) = Len(x.parts)
      /\ \A i \in 1..Len(x.parts) : t[i] = ObjectTask(x.parts[i])
  BY <1>1, TasksType
<1>3. l \in A /\ z \in A
  BY <1>1, WritesOf
<1>4. Follows(x) = Pushed(l, IF x.parts = << >> THEN <<z>> ELSE t)
  BY DEF Follows, Pushed
<1> HIDE DEF A, l, z, t
<1>5. <<l>> \in Seq(A) /\ <<z>> \in Seq(A)
  BY <1>3
<1>6. Pushed(l, <<z>>) \in Seq(A) /\ Pushed(l, t) \in Seq(A)
  BY <1>2, <1>5, ConcatProperties DEF Pushed
<1>7. IsSeq(t)
  BY <1>2 DEF IsSeq
<1>8. /\ Len(Pushed(l, t)) = Len(t) + 1 /\ Pushed(l, t)[1] = l
      /\ \A i \in 2..(Len(t) + 1) : Pushed(l, t)[i] = t[i - 1]
  BY <1>7, PushOf
<1>9. ASSUME NEW i \in 2..(Len(x.parts) + 1) PROVE Pushed(l, t)[i] = ObjectTask(x.parts[i - 1])
  <2>1. i \in 2..(Len(t) + 1) /\ i - 1 \in 1..Len(x.parts)
    BY <1>1, <1>2
  <2>. QED
    BY <1>2, <1>8, <2>1
<1> QED
  BY <1>2, <1>4, <1>6, <1>8, <1>9 DEF A, l

LEMMA FollowsType ==
  ASSUME object \in Objects, layout \in Layouts, NEW x \in Nodes(object)
  PROVE  Follows(x) \in Seq(Writes(object))
<1>1. Sound(x)
  BY NodeOf
<1>2. CASE x.type = "int"
  <2>1. x.data \in Seq(Int)
    BY <1>1 DEF Sound
  <2>2. LongTasks(x.data) \in Seq(Writes(object))
    BY <2>1, LongTasksType
  <2>3. Follows(x) = LongTasks(x.data)
    BY <1>2 DEF Follows
  <2>. QED
    BY <2>2, <2>3
<1>3. CASE x.type = "tuple"
  BY <1>3, TupleFollows
<1>4. CASE x.type = "code"
  <2>1. layout = "pyc" \/ layout = "plus"
    BY DEF Layouts
  <2>. QED
    BY <1>4, <2>1, CodePyc, CodePlus
<1>5. CASE x.type \notin {"int", "tuple", "code"}
  <2>1. Follows(x) = << >>
    BY <1>5 DEF Follows
  <2>. QED
    BY <2>1
<1> QED
  BY <1>2, <1>3, <1>4, <1>5

LEMMA TextType ==
  ASSUME NEW d \in Seq(Int)
  PROVE  /\ Text(d) \in Seq(Int)
         /\ (\A i \in DOMAIN d : d[i] # 0) => Text(d) = d
<1>1. Len(d) \in Nat /\ DOMAIN d = 1..Len(d) /\ \A i \in 1..Len(d) : d[i] \in Int
  OBVIOUS
<1>2. ASSUME \E i \in DOMAIN d : d[i] = 0 PROVE Text(d) \in Seq(Int)
  <2> DEFINE Z == {i \in 1..Len(d) : d[i] = 0}
             c == CHOOSE i \in DOMAIN d : d[i] = 0 /\ \A j \in 1..(i - 1) : d[j] # 0
  <2>1. Z \subseteq Nat /\ Z # {}
    BY <1>1, <1>2
  <2> HIDE DEF Z
  <2>2. PICK k \in Z : \A m \in Z : k <= m
    BY <2>1, Least
  <2> USE DEF Z
  <2>3. \A j \in 1..(k - 1) : d[j] # 0
    BY <1>1, <2>2
  <2>4. c \in DOMAIN d
    BY <1>1, <2>2, <2>3
  <2> HIDE DEF c
  <2>5. c \in Int /\ c - 1 \in Int /\ \A i \in 1..(c - 1) : d[i] \in Int
    BY <1>1, <2>4
  <2>6. SubSeq(d, 1, c - 1) \in Seq(Int)
    BY <2>5, SubSeqProperties
  <2>. QED
    BY <1>2, <2>6 DEF Text, c
<1>3. ASSUME ~ \E i \in DOMAIN d : d[i] = 0 PROVE Text(d) = d
  BY <1>3 DEF Text
<1> QED
  BY <1>2, <1>3

LEMMA CharType ==
  ASSUME NEW t \in {Types[c] : c \in DOMAIN Types}
  PROVE  /\ Char(t) \in 1..8
         /\ TypeOf(Char(t)) = IF t = "kv" THEN "unknown" ELSE t
<1>1. DOMAIN Types = 1..8
  BY DEF Types
<1>2. Char(t) \in 1..8 /\ Types[Char(t)] = t
  BY <1>1 DEF Char
<1> HIDE DEF Char
<1> QED
  BY <1>1, <1>2 DEF TypeOf

LEMMA PayloadType ==
  ASSUME NEW x, Sound(x)
  PROVE  Payload(x) \in Seq(Int)
<1>1. x.data \in Seq(Int)
  BY DEF Sound
<1>2. Text(x.data) \in Seq(Int)
  BY <1>1, TextType
<1>3. \A d \in Seq(Int) : LongBytes(Len(d)) \in Seq(Int)
  <2> TAKE d \in Seq(Int)
  <2>1. Len(d) \in Int
    OBVIOUS
  <2>. QED
    BY <2>1, LongBytesType
<1>4. \A d \in Seq(Int) : LongBytes(Len(d)) \o d \in Seq(Int)
  BY <1>3, ConcatProperties
<1>5. << >> \in Seq(Int)
  OBVIOUS
<1> QED
  BY <1>1, <1>2, <1>4, <1>5 DEF Payload

(* What stream_WriteObject writes itself. *)
Bytes(t) == IF t.do = "object" THEN <<Char(t.node.type)>> \o Payload(t.node) ELSE LongBytes(t.n)

After(a) == IF Head(a).do = "object" THEN Follows(Head(a).node) \o Tail(a) ELSE Tail(a)

LEMMA BytesType ==
  ASSUME object \in Objects, layout \in Layouts, NEW t \in Writes(object)
  PROVE  /\ t.do \in {"object", "long"} /\ Bytes(t) \in Seq(Int)
         /\ t.do = "object" => t.node \in Nodes(object) /\ t = ObjectTask(t.node)
         /\ t.do = "long" => t.n \in Int /\ t = LongTask(t.n)
<1>1. CASE \E x \in Nodes(object) : t = ObjectTask(x)
  <2>1. PICK x \in Nodes(object) : t = ObjectTask(x)
    BY <1>1
  <2>2. t.do = "object" /\ t.node = x
    BY <2>1 DEF ObjectTask
  <2>3. Sound(x)
    BY NodeOf
  <2>4. x.type \in {Types[c] : c \in DOMAIN Types}
    BY <2>3 DEF Sound
  <2>5. Char(x.type) \in Int
    <3>1. Char(x.type) \in 1..8
      BY <2>4, CharType
    <3>. QED
      BY <3>1
  <2> DEFINE c == Char(x.type)
             p == Payload(x)
  <2>6. p \in Seq(Int)
    BY <2>3, PayloadType
  <2>7. Bytes(t) = <<c>> \o p
    BY <2>2 DEF Bytes
  <2> HIDE DEF c, p
  <2>8. <<c>> \in Seq(Int)
    BY <2>5 DEF c
  <2>9. <<c>> \o p \in Seq(Int)
    BY <2>6, <2>8, ConcatProperties
  <2>. QED
    BY <2>1, <2>2, <2>7, <2>9
<1>2. CASE \E n \in Int : t = LongTask(n)
  <2>1. PICK n \in Int : t = LongTask(n)
    BY <1>2
  <2>2. t.do = "long" /\ t.n = n
    BY <2>1 DEF LongTask
  <2>3. Bytes(t) = LongBytes(n)
    BY <2>2 DEF Bytes
  <2>. QED
    BY <2>1, <2>2, <2>3, LongBytesType
<1> QED
  BY <1>1, <1>2 DEF Writes

LEMMA AfterType ==
  ASSUME object \in Objects, layout \in Layouts, NEW a \in Seq(Writes(object)), a # << >>
  PROVE  Head(a) \in Writes(object) /\ After(a) \in Seq(Writes(object))
<1>1. Head(a) \in Writes(object) /\ Tail(a) \in Seq(Writes(object))
  BY HeadTailProperties
<1>2. CASE Head(a).do = "object"
  <2>1. Head(a).node \in Nodes(object)
    BY <1>1, <1>2, BytesType
  <2>2. Follows(Head(a).node) \in Seq(Writes(object))
    BY <2>1, FollowsType
  <2>. QED
    BY <1>1, <1>2, <2>2, ConcatProperties DEF After
<1>3. CASE Head(a).do # "object"
  BY <1>1, <1>3 DEF After
<1> QED
  BY <1>1, <1>2, <1>3

-----------------------------------------------------------------------------
(* What is read.                                                           *)

LEMMA GotType ==
  ASSUME file \in Seq(Int), pos \in 0..Len(file), NEW n \in Nat
  PROVE  Got(n) \in Seq(Int) /\ Len(Got(n)) = n
<1>1. Len(file) \in Nat /\ (\A i \in 1..Len(file) : file[i] \in Int) /\ pos \in Nat
  OBVIOUS
<1>2. \A m \in Nat : Zeros(m) \in Seq(Int) /\ Len(Zeros(m)) = m
  <2> TAKE m \in Nat
  <2>1. Zeros(m) = [i \in 1..m |-> 0]
    BY DEF Zeros
  <2>2. Zeros(m) \in [1..m -> Int]
    BY <2>1
  <2>. QED
    BY <2>1, <2>2
<1>3. CASE ~Short(n)
  <2>1. \A i \in (pos + 1)..(pos + n) : file[i] \in Int
    BY <1>1, <1>3 DEF Short
  <2>2. /\ SubSeq(file, pos + 1, pos + n) \in Seq(Int)
        /\ Len(SubSeq(file, pos + 1, pos + n))
             = (IF pos + 1 <= pos + n THEN pos + n - (pos + 1) + 1 ELSE 0)
    BY <1>1, <2>1, SubSeqProperties
  <2>3. (IF pos + 1 <= pos + n THEN pos + n - (pos + 1) + 1 ELSE 0) = n
    BY <1>1
  <2>. QED
    BY <1>3, <2>2, <2>3 DEF Got
<1>4. CASE Short(n) /\ source = "memory"
  BY <1>2, <1>4 DEF Got
<1>5. CASE Short(n) /\ source # "memory"
  <2> DEFINE s == SubSeq(file, pos + 1, Len(file))
             m == pos + n - Len(file)
  <2>1. m \in Nat
    BY <1>1, <1>5 DEF Short
  <2>2. \A i \in (pos + 1)..Len(file) : file[i] \in Int
    BY <1>1
  <2>3. s \in Seq(Int) /\ Len(s) = (IF pos + 1 <= Len(file) THEN Len(file) - (pos + 1) + 1 ELSE 0)
    BY <1>1, <2>2, SubSeqProperties
  <2>4. Got(n) = s \o Zeros(m)
    BY <1>5 DEF Got
  <2>5. (IF pos + 1 <= Len(file) THEN Len(file) - (pos + 1) + 1 ELSE 0) + m = n
    <3>1. \A l, q \in Nat : q \in 0..l =>
            (IF q + 1 <= l THEN l - (q + 1) + 1 ELSE 0) + (q + n - l) = n
      OBVIOUS
    <3>2. Len(file) \in Nat /\ pos \in Nat
      BY <1>1
    <3>. QED
      BY Zenon, <3>1, <3>2
  <2> HIDE DEF s, m
  <2>6. s \o Zeros(m) \in Seq(Int) /\ Len(s \o Zeros(m)) = Len(s) + Len(Zeros(m))
    BY <1>2, <2>1, <2>3, ConcatProperties
  <2>7. Len(s) + Len(Zeros(m)) = n
    BY <1>2, <2>1, <2>3, <2>5
  <2>. QED
    BY <2>4, <2>6, <2>7
<1> QED
  BY <1>3, <1>4, <1>5

LEMMA LongGot ==
  ASSUME file \in Seq(Int), pos \in 0..Len(file)
  PROVE  Long(Got(LongSize)) \in Int
<1>1. LongSize \in Nat
  BY SizesAssumption
<1> QED
  BY <1>1, GotType, LongType

(* The words of a script that can stand anywhere in it; the bytes of a     *)
(* string are read last, when their number is known.                       *)
Words == {"long", "skipped", "object", "dropped", "name", "count", "bytes", "float"}
Asks == {"object", "dropped", "name"}

FrameOk(f) ==
  /\ f = [type |-> f.type, layout |-> f.layout, data |-> f.data, parts |-> f.parts,
          script |-> f.script]
  /\ \/ f.script \in Seq(Words)
     \/ f.script = <<"content">> /\ Head(f.data) \in Nat

(* The frames below the innermost one wait for an object. *)
Stack(s) ==
  /\ IsSeq(s)
  /\ \A i \in 1..Len(s) : FrameOk(s[i])
  /\ \A i \in 2..Len(s) : s[i].script # << >> /\ Head(s[i].script) \in Asks

TInv ==
  /\ layout \in Layouts
  /\ written => object \in Objects
  /\ phase = "write" => written /\ agenda \in Seq(Writes(object))
  /\ file \in Seq(Int)
  /\ pos \in 0..Len(file)
  /\ phase \in {"write", "written"} => pos = 0 /\ ~left
  /\ left => source = "memory"
  /\ left \in BOOLEAN
  /\ Stack(frames)
  /\ frames # << >> => phase \in {"read", "undefined"}

LEMMA ScriptType ==
  ASSUME NEW t, NEW l
  PROVE  FrameOk(Frame(t, l))
<1>1. CodeScript(l) \in Seq(Words)
  <2>1. CASE l = "pyc"
    <3>1. CodeScript(l) = <<"long", "long", "long", "long", "long",
                            "object", "object", "object", "object", "object", "object",
                            "dropped", "name", "skipped", "dropped">>
      BY <2>1 DEF CodeScript
    <3>. QED
      BY <3>1 DEF Words
  <2>2. CASE l # "pyc"
    <3>1. CodeScript(l) = <<"long", "long", "long", "long",
                            "object", "object", "object", "object", "object", "object", "name">>
      BY <2>2 DEF CodeScript
    <3>. QED
      BY <3>1 DEF Words
  <2>. QED
    BY <2>1, <2>2
<1>2. /\ <<"long">> \in Seq(Words) /\ <<"bytes">> \in Seq(Words) /\ <<"float">> \in Seq(Words)
      /\ <<"count">> \in Seq(Words) /\ << >> \in Seq(Words)
  BY DEF Words
<1>3. Script(t, l) \in Seq(Words)
  BY <1>1, <1>2 DEF Script
<1> QED
  BY <1>3 DEF Frame, FrameOk

(* A frame with other data, parts and script. *)
With(f, d, p, s) ==
  [type |-> f.type, layout |-> f.layout, data |-> d, parts |-> p, script |-> s]

LEMMA WithIs ==
  ASSUME NEW f, FrameOk(f)
  PROVE  /\ [f EXCEPT !.script = Tail(@)] = With(f, f.data, f.parts, Tail(f.script))
         /\ \A d : [[f EXCEPT !.data = d] EXCEPT !.script = Tail(@)]
                     = With(f, d, f.parts, Tail(f.script))
         /\ \A p : [f EXCEPT !.script = Tail(@), !.parts = p]
                     = With(f, f.data, p, Tail(f.script))
<1>1. f = With(f, f.data, f.parts, f.script)
  BY DEF FrameOk, With
<1>2. ASSUME NEW d PROVE [f EXCEPT !.data = d] = With(f, d, f.parts, f.script)
  BY <1>1 DEF With
<1>3. ASSUME NEW s PROVE [f EXCEPT !.script = s] = With(f, f.data, f.parts, s)
  BY <1>1 DEF With
<1>6. ASSUME NEW d, NEW p, NEW q, NEW s
      PROVE  [With(f, d, p, s) EXCEPT !.parts = q] = With(f, d, q, s)
  BY DEF With
<1>7. \A d, p, s : With(f, d, p, s).script = s
  BY DEF With
<1>8. ASSUME NEW d PROVE [[f EXCEPT !.data = d] EXCEPT !.script = Tail(@)]
                           = With(f, d, f.parts, Tail(f.script))
  <2> DEFINE a == With(f, d, f.parts, f.script)
  <2>1. [f EXCEPT !.data = d] = a
    BY <1>2
  <2>2. a.script = f.script
    BY <1>7
  <2>3. ASSUME NEW s PROVE [a EXCEPT !.script = s] = With(f, d, f.parts, s)
    BY DEF With
  <2> HIDE DEF a
  <2>4. [a EXCEPT !.script = Tail(@)] = [a EXCEPT !.script = Tail(f.script)]
    BY <2>2
  <2>. QED
    BY <2>1, <2>3, <2>4
<1>9. ASSUME NEW p
      PROVE  [f EXCEPT !.script = Tail(@), !.parts = p] = With(f, f.data, p, Tail(f.script))
  <2>1. [f EXCEPT !.script = Tail(@), !.parts = p]
        = [[f EXCEPT !.script = Tail(f.script)] EXCEPT !.parts = p]
    OBVIOUS
  <2> DEFINE a == With(f, f.data, f.parts, Tail(f.script))
  <2>2. [f EXCEPT !.script = Tail(f.script)] = a
    BY <1>3
  <2>3. [a EXCEPT !.parts = p] = With(f, f.data, p, Tail(f.script))
    BY <1>6
  <2> HIDE DEF a
  <2>. QED
    BY <2>1, <2>2, <2>3
<1> QED
  BY <1>3, <1>8, <1>9

Sized(f, s, d) == [f EXCEPT !.script = s, !.data = d]

LEMMA SizedIs ==
  ASSUME NEW f, FrameOk(f), NEW s, NEW d
  PROVE  Sized(f, s, d) = With(f, d, f.parts, s)
<1> DEFINE a == With(f, f.data, f.parts, s)
<1>1. [f EXCEPT !.script = s] = a
  <2>1. f = With(f, f.data, f.parts, f.script)
    BY DEF FrameOk, With
  <2>. QED
    BY <2>1 DEF With
<1>2. [a EXCEPT !.data = d] = With(f, d, f.parts, s)
  BY DEF With
<1> HIDE DEF a
<1>3. Sized(f, s, d) = [[f EXCEPT !.script = s] EXCEPT !.data = d]
  BY DEF Sized
<1> QED
  BY <1>1, <1>2, <1>3

LEMMA WithOk ==
  ASSUME NEW f, NEW d, NEW p, NEW s, \/ s \in Seq(Words)
                                     \/ s = <<"content">> /\ Head(d) \in Nat
  PROVE  FrameOk(With(f, d, p, s))
<1> DEFINE g == With(f, d, p, s)
<1>1. g.type = f.type /\ g.layout = f.layout /\ g.data = d /\ g.parts = p /\ g.script = s
  BY DEF With
<1>2. g = [type |-> f.type, layout |-> f.layout, data |-> d, parts |-> p, script |-> s]
  BY DEF With
<1> HIDE DEF g
<1>3. FrameOk(g)
  BY <1>1, <1>2 DEF FrameOk
<1> QED
  BY <1>3 DEF g

LEMMA StackEmpty == Stack(<< >>)
<1>1. << >> \in Seq({})
  OBVIOUS
<1>2. IsSeq(<< >>)
  BY <1>1 DEF IsSeq
<1>3. Len(<< >>) = 0
  OBVIOUS
<1>4. 1..0 = {} /\ 2..0 = {}
  OBVIOUS
<1> QED
  BY <1>2, <1>3, <1>4 DEF Stack

LEMMA StackTop ==
  ASSUME NEW s, Stack(s), s # << >>, NEW f, FrameOk(f)
  PROVE  Stack(Topped(f, s)) /\ Topped(f, s) # << >> /\ FrameOk(s[1])
<1>1. IsSeq(s)
  BY DEF Stack
<1>2. /\ IsSeq(Topped(f, s)) /\ Len(s) \in Nat \ {0} /\ Len(Topped(f, s)) = Len(s)
      /\ Topped(f, s) # << >> /\ Topped(f, s)[1] = f
      /\ \A i \in 2..Len(s) : Topped(f, s)[i] = s[i]
  BY <1>1, TopOf
<1>3. \A i \in 2..Len(s) : i \in 1..Len(s)
  BY <1>2
<1>4. \A i \in 1..Len(s) : i = 1 \/ i \in 2..Len(s)
  BY <1>2
<1>5. FrameOk(s[1])
  BY <1>2 DEF Stack
<1>6. \A i \in 2..Len(s) : FrameOk(s[i]) /\ s[i].script # << >> /\ Head(s[i].script) \in Asks
  BY <1>3 DEF Stack
<1>7. ASSUME NEW i \in 1..Len(s) PROVE FrameOk(Topped(f, s)[i])
  BY <1>2, <1>4, <1>6
<1> QED
  BY <1>2, <1>5, <1>6, <1>7 DEF Stack

LEMMA StackPush ==
  ASSUME NEW s, Stack(s), NEW f, FrameOk(f),
         s # << >> => s[1].script # << >> /\ Head(s[1].script) \in Asks
  PROVE  Stack(Pushed(f, s)) /\ Pushed(f, s) # << >>
<1>1. IsSeq(s)
  BY DEF Stack
<1>2. /\ IsSeq(Pushed(f, s)) /\ Len(s) \in Nat /\ Len(Pushed(f, s)) = Len(s) + 1
      /\ Pushed(f, s) # << >> /\ Pushed(f, s)[1] = f
      /\ \A i \in 2..(Len(s) + 1) : Pushed(f, s)[i] = s[i - 1]
  BY <1>1, PushOf
<1>3. ASSUME NEW i \in 2..(Len(s) + 1)
      PROVE  /\ FrameOk(Pushed(f, s)[i]) /\ Pushed(f, s)[i].script # << >>
             /\ Head(Pushed(f, s)[i].script) \in Asks
  <2>1. i - 1 \in 1..Len(s) /\ (i - 1 = 1 \/ i - 1 \in 2..Len(s)) /\ Len(s) # 0
    BY <1>2
  <2>2. s # << >>
    BY <2>1
  <2>3. FrameOk(s[i - 1]) /\ s[i - 1].script # << >> /\ Head(s[i - 1].script) \in Asks
    BY <2>1, <2>2 DEF Stack
  <2>. QED
    BY <1>2, <2>3
<1>4. \A i \in 1..(Len(s) + 1) : i = 1 \/ i \in 2..(Len(s) + 1)
  BY <1>2
<1>5. ASSUME NEW i \in 1..(Len(s) + 1) PROVE FrameOk(Pushed(f, s)[i])
  BY <1>2, <1>3, <1>4
<1> QED
  BY <1>2, <1>3, <1>5 DEF Stack

LEMMA StackPop ==
  ASSUME NEW s, Stack(s), s # << >>, Len(s) # 1, NEW f, FrameOk(f)
  PROVE  Stack(Popped(f, s)) /\ Popped(f, s) # << >>
<1>1. IsSeq(s)
  BY DEF Stack
<1>2. /\ IsSeq(Popped(f, s)) /\ Len(s) \in Nat /\ Len(s) >= 2
      /\ Len(Popped(f, s)) = Len(s) - 1
      /\ Popped(f, s) # << >> /\ Popped(f, s)[1] = f
      /\ \A i \in 2..(Len(s) - 1) : Popped(f, s)[i] = s[i + 1]
  BY <1>1, PopOf
<1>3. ASSUME NEW i \in 2..(Len(s) - 1)
      PROVE  /\ FrameOk(Popped(f, s)[i]) /\ Popped(f, s)[i].script # << >>
             /\ Head(Popped(f, s)[i].script) \in Asks
  <2>1. i + 1 \in 1..Len(s) /\ i + 1 \in 2..Len(s)
    BY <1>2
  <2>2. FrameOk(s[i + 1]) /\ s[i + 1].script # << >> /\ Head(s[i + 1].script) \in Asks
    BY <2>1 DEF Stack
  <2>. QED
    BY <1>2, <2>2
<1>4. \A i \in 1..(Len(s) - 1) : i = 1 \/ i \in 2..(Len(s) - 1)
  BY <1>2
<1>5. ASSUME NEW i \in 1..(Len(s) - 1) PROVE FrameOk(Popped(f, s)[i])
  BY <1>2, <1>3, <1>4
<1> QED
  BY <1>2, <1>3, <1>5 DEF Stack

(* The frame that waits for the object on top. *)
LEMMA StackNext ==
  ASSUME NEW s, Stack(s), s # << >>, Len(s) # 1
  PROVE  FrameOk(s[2]) /\ s[2].script # << >> /\ Head(s[2].script) \in Asks
<1>1. IsSeq(s)
  BY DEF Stack
<1>2. Len(s) \in Nat /\ Len(s) >= 2
  BY <1>1, PopOf
<1>3. 2 \in 1..Len(s) /\ 2 \in 2..Len(s)
  BY <1>2
<1> QED
  BY <1>3 DEF Stack

(* A script without its first word. *)
LEMMA ScriptTail ==
  ASSUME NEW f, FrameOk(f), f.script # << >>
  PROVE  /\ Tail(f.script) \in Seq(Words)
         /\ Head(f.script) = "content" => Head(f.data) \in Nat
<1>1. CASE f.script \in Seq(Words)
  <2>1. Head(f.script) \in Words /\ Tail(f.script) \in Seq(Words)
    BY <1>1, HeadTailProperties
  <2>2. Head(f.script) # "content"
    BY <2>1 DEF Words
  <2>. QED
    BY <2>1, <2>2
<1>2. CASE f.script = <<"content">> /\ Head(f.data) \in Nat
  <2>1. Tail(<<"content">>) = << >>
    OBVIOUS
  <2>. QED
    BY <1>2, <2>1
<1> QED
  BY <1>1, <1>2 DEF FrameOk

-----------------------------------------------------------------------------
(* Every step keeps the types.                                             *)

LEMMA ReadOk ==
  ASSUME TInv, NEW n \in Nat, Read(n)
  PROVE  pos' \in 0..Len(file) /\ left' \in BOOLEAN /\ (left' => source = "memory")
<1>1. Len(file) \in Nat /\ pos \in 0..Len(file) /\ left \in BOOLEAN /\ (left => source = "memory")
  BY DEF TInv
<1>2. pos' \in 0..Len(file)
  BY <1>1 DEF Read, Short
<1> QED
  BY <1>1, <1>2 DEF Read

(* The variables that no step of the reader changes. *)
LEMMA ReaderOk ==
  ASSUME TInv, UNCHANGED writer, pos' \in 0..Len(file), left' \in BOOLEAN,
         left' => source = "memory", Stack(frames'), phase \notin {"write", "written"},
         phase' \notin {"write", "written"},
         frames' # << >> => phase' \in {"read", "undefined"}
  PROVE  TInv'
BY DEF TInv, writer

LEMMA WantsOk ==
  ASSUME TInv, NEW w, Wants(w)
  PROVE  /\ phase = "read" /\ frames # << >> /\ Stack(frames) /\ FrameOk(Top)
         /\ Top.script # << >> /\ Head(Top.script) = w /\ Tail(Top.script) \in Seq(Words)
         /\ w = "content" => Head(Top.data) \in Nat
<1>1. phase = "read" /\ frames # << >> /\ Stack(frames) /\ Top.script # << >> /\ Head(Top.script) = w
  BY DEF Wants, TInv
<1>2. Len(frames) \in Nat \ {0}
  <2>1. PICK S : frames \in Seq(S)
    BY <1>1 DEF Stack, IsSeq
  <2>. QED
    BY <1>1, <2>1, EmptySeq
<1>3. FrameOk(Top)
  <2>1. 1 \in 1..Len(frames)
    BY <1>2
  <2>. QED
    BY <1>1, <2>1 DEF Stack, Top
<1> QED
  BY <1>1, <1>3, ScriptTail

LEMMA SizesOk == LongSize \in Nat /\ FloatSize \in Nat /\ 1 \in Nat
BY SizesAssumption

(* A frame is replaced by one that has another script. *)
LEMMA ChangeOk ==
  ASSUME TInv, UNCHANGED writer, phase = "read", phase' = "read", frames # << >>,
         NEW f, FrameOk(f), frames' = Topped(f, frames), NEW n \in Nat, Read(n)
  PROVE  TInv'
<1>1. pos' \in 0..Len(file) /\ left' \in BOOLEAN /\ (left' => source = "memory")
  BY ReadOk
<1>2. Stack(frames)
  BY DEF TInv
<1>3. Stack(frames')
  BY <1>2, StackTop
<1> QED
  BY <1>1, <1>3, ReaderOk

LEMMA ReadLongOk == ASSUME TInv, ReadLong PROVE TInv'
<1>1. /\ phase = "read" /\ frames # << >> /\ FrameOk(Top) /\ Tail(Top.script) \in Seq(Words)
  BY WantsOk DEF ReadLong
<1> DEFINE d == Append(Top.data, Long(Got(LongSize)))
           f == With(Top, d, Top.parts, Tail(Top.script))
<1>2. frames' = Topped(f, frames)
  <2>1. frames' = <<[[Top EXCEPT !.data = d] EXCEPT !.script = Tail(@)]>> \o Tail(frames)
    BY DEF ReadLong, Replace
  <2> HIDE DEF d
  <2>2. [[Top EXCEPT !.data = d] EXCEPT !.script = Tail(@)] = f
    BY <1>1, WithIs
  <2>. QED
    BY <2>1, <2>2 DEF Topped
<1>3. FrameOk(f)
  BY <1>1, WithOk
<1> HIDE DEF f
<1> QED
  BY <1>1, <1>2, <1>3, ChangeOk, SizesOk DEF ReadLong

LEMMA SkipLongOk == ASSUME TInv, SkipLong PROVE TInv'
<1>1. /\ phase = "read" /\ frames # << >> /\ FrameOk(Top) /\ Tail(Top.script) \in Seq(Words)
  BY WantsOk DEF SkipLong
<1> DEFINE f == With(Top, Top.data, Top.parts, Tail(Top.script))
<1>2. frames' = Topped(f, frames)
  <2>1. frames' = <<[Top EXCEPT !.script = Tail(@)]>> \o Tail(frames)
    BY DEF SkipLong, Replace
  <2>2. [Top EXCEPT !.script = Tail(@)] = f
    BY <1>1, WithIs
  <2>. QED
    BY <2>1, <2>2 DEF Topped
<1>3. FrameOk(f)
  BY <1>1, WithOk
<1> HIDE DEF f
<1> QED
  BY <1>1, <1>2, <1>3, ChangeOk, SizesOk DEF SkipLong

LEMMA ReadFloatOk == ASSUME TInv, ReadFloat PROVE TInv'
<1>1. /\ phase = "read" /\ frames # << >> /\ FrameOk(Top) /\ Tail(Top.script) \in Seq(Words)
  BY WantsOk DEF ReadFloat
<1> DEFINE d == Narrow(Got(FloatSize))
           f == With(Top, d, Top.parts, Tail(Top.script))
<1>2. frames' = Topped(f, frames)
  <2>1. frames' = <<[[Top EXCEPT !.data = d] EXCEPT !.script = Tail(@)]>> \o Tail(frames)
    BY DEF ReadFloat, Replace
  <2> HIDE DEF d
  <2>2. [[Top EXCEPT !.data = d] EXCEPT !.script = Tail(@)] = f
    BY <1>1, WithIs
  <2>. QED
    BY <2>1, <2>2 DEF Topped
<1>3. FrameOk(f)
  BY <1>1, WithOk
<1> HIDE DEF f
<1> QED
  BY <1>1, <1>2, <1>3, ChangeOk, SizesOk DEF ReadFloat

LEMMA ReadContentOk == ASSUME TInv, ReadContent PROVE TInv'
<1> DEFINE n == Head(Top.data)
<1>1. /\ phase = "read" /\ frames # << >> /\ FrameOk(Top) /\ Tail(Top.script) \in Seq(Words)
      /\ n \in Nat
  BY WantsOk DEF ReadContent
<1> DEFINE d == Got(n)
           f == With(Top, d, Top.parts, Tail(Top.script))
<1>2. frames' = Topped(f, frames)
  <2>1. frames' = <<[[Top EXCEPT !.data = d] EXCEPT !.script = Tail(@)]>> \o Tail(frames)
    BY DEF ReadContent, Replace
  <2> HIDE DEF d
  <2>2. [[Top EXCEPT !.data = d] EXCEPT !.script = Tail(@)] = f
    BY <1>1, WithIs
  <2>. QED
    BY <2>1, <2>2 DEF Topped
<1>3. FrameOk(f)
  BY <1>1, WithOk
<1>4. Read(n) /\ UNCHANGED <<phase, writer, result>>
  BY DEF ReadContent
<1> HIDE DEF f, n
<1> QED
  BY <1>1, <1>2, <1>3, <1>4, ChangeOk

LEMMA BeginOk ==
  ASSUME TInv, phase = "read", NEW l, Begin(l),
         frames # << >> => Top.script # << >> /\ Head(Top.script) \in Asks
  PROVE  TInv'
<1> DEFINE f == Frame(TypeOf(Got(1)[1]), l)
<1>1. frames' = Pushed(f, frames)
  BY DEF Begin, Pushed
<1>2. FrameOk(f)
  BY ScriptType
<1> HIDE DEF f
<1>3. Stack(frames')
  <2>1. Stack(frames)
    BY DEF TInv
  <2>. QED
    BY <1>1, <1>2, <2>1, StackPush DEF Top
<1>4. pos' \in 0..Len(file) /\ left' \in BOOLEAN /\ (left' => source = "memory")
  BY ReadOk, SizesOk DEF Begin
<1> QED
  BY <1>3, <1>4, ReaderOk DEF Begin

LEMMA ReadRootOk == ASSUME TInv, ReadRoot PROVE TInv'
BY BeginOk DEF ReadRoot

LEMMA ReadPartOk == ASSUME TInv, ReadPart PROVE TInv'
<1>1. PICK w \in {"object", "dropped", "name"} : Wants(w)
  BY DEF ReadPart
<1>2. phase = "read" /\ Top.script # << >> /\ Head(Top.script) \in Asks
  BY <1>1, WantsOk DEF Asks
<1> QED
  BY <1>2, BeginOk DEF ReadPart

LEMMA ReturnOk == ASSUME TInv, Return PROVE TInv'
<1>1. phase = "read" /\ frames # << >> /\ UNCHANGED <<writer, pos, left>>
  BY DEF Return
<1>2. pos' \in 0..Len(file) /\ left' \in BOOLEAN /\ (left' => source = "memory") /\ Stack(frames)
  BY <1>1 DEF TInv
<1>3. CASE Len(frames) = 1
  <2>1. phase' = "done" /\ frames' = << >>
    BY <1>3 DEF Return
  <2>2. Stack(frames')
    BY <2>1, StackEmpty
  <2>. QED
    BY <1>1, <1>2, <2>1, <2>2, ReaderOk
<1>4. CASE Len(frames) # 1
  <2> DEFINE f == frames[2]
             p == IF Head(f.script) = "dropped" THEN f.parts ELSE Append(f.parts, Complete(Top))
             g == With(f, f.data, p, Tail(f.script))
  <2>1. FrameOk(f) /\ f.script # << >>
    BY <1>1, <1>2, <1>4, StackNext
  <2>2. Tail(f.script) \in Seq(Words)
    BY <2>1, ScriptTail
  <2>3. frames' = Popped(g, frames)
    <3>1. frames' = <<[f EXCEPT !.script = Tail(@), !.parts = p]>> \o SubSeq(frames, 3, Len(frames))
      BY <1>4 DEF Return
    <3> HIDE DEF p
    <3>2. [f EXCEPT !.script = Tail(@), !.parts = p] = g
      BY <2>1, WithIs
    <3>. QED
      BY <3>1, <3>2 DEF Popped
  <2>4. FrameOk(g)
    BY <2>2, WithOk
  <2> HIDE DEF g
  <2>5. Stack(frames')
    BY <1>1, <1>2, <1>4, <2>3, <2>4, StackPop
  <2>6. phase' \in {"read", "undefined"}
    BY <1>1, <1>4 DEF Return
  <2>. QED
    BY <1>1, <1>2, <2>5, <2>6, ReaderOk
<1> QED
  BY <1>3, <1>4

LEMMA ReadLengthOk == ASSUME TInv, ReadLength PROVE TInv'
<1> DEFINE n == Long(Got(LongSize))
           more == IF Head(Top.script) = "count" THEN [i \in 1..n |-> "object"]
                   ELSE IF n = 0 THEN << >> ELSE <<"content">>
           s == IF n <= 0 THEN << >> ELSE more
           d == IF more = <<"content">> THEN <<n>> ELSE << >>
           f == With(Top, d, Top.parts, s)
<1>1. /\ phase = "read" /\ frames # << >> /\ FrameOk(Top) /\ Stack(frames)
  BY WantsOk DEF ReadLength
<1>2. n \in Int
  BY LongGot DEF TInv
<1>3. /\ UNCHANGED <<writer, result>>
      /\ pos' \in 0..Len(file) /\ left' \in BOOLEAN /\ (left' => source = "memory")
  <2>1. Read(LongSize) /\ UNCHANGED <<writer, result>>
    BY DEF ReadLength
  <2>. QED
    BY <2>1, ReadOk, SizesOk
<1>4. CASE n < 0 /\ Top.type = "unicode"
  <2>1. phase' = "undefined" /\ frames' = frames
    BY <1>4 DEF ReadLength
  <2>. QED
    BY <1>1, <1>3, <2>1, ReaderOk
<1>5. CASE ~(n < 0 /\ Top.type = "unicode")
  <2>1. phase' = "read"
    BY <1>1, <1>5 DEF ReadLength
  <2>2. frames' = Topped(f, frames)
    <3>1. frames' = <<[Top EXCEPT !.script = s, !.data = d]>> \o Tail(frames)
      BY <1>5 DEF ReadLength
    <3> HIDE DEF s, d
    <3>2. FrameOk(Top)
      BY <1>1
    <3>3. Sized(Top, s, d) = f
      BY <3>2, SizedIs
    <3>. QED
      BY <3>1, <3>3 DEF Topped, Sized
  <2>3. s \in Seq(Words) \/ (s = <<"content">> /\ Head(d) \in Nat)
    <3> HIDE DEF n
    <3>1. CASE n <= 0
      BY <3>1
    <3>2. CASE n > 0 /\ Head(Top.script) = "count"
      <4>1. s = [i \in 1..n |-> "object"]
        BY <1>2, <3>2
      <4>2. s \in [1..n -> Words] /\ n \in Nat
        BY <1>2, <3>2, <4>1 DEF Words
      <4> HIDE DEF s
      <4>. QED
        BY <4>2
    <3>3. CASE n > 0 /\ Head(Top.script) # "count"
      <4>1. more = <<"content">>
        BY <1>2, <3>3
      <4>2. s = <<"content">> /\ d = <<n>>
        BY <1>2, <3>3, <4>1
      <4>3. Head(d) = n /\ n \in Nat
        BY <1>2, <3>3, <4>2
      <4>. QED
        BY <4>2, <4>3
    <3>. QED
      BY <1>2, <3>1, <3>2, <3>3
  <2> HIDE DEF n, s, d
  <2>4. FrameOk(f)
    BY <2>3, WithOk
  <2> HIDE DEF f
  <2>5. Stack(frames')
    BY <1>1, <2>2, <2>4, StackTop
  <2>. QED
    BY <1>1, <1>3, <2>1, <2>5, ReaderOk
<1> QED
  BY <1>4, <1>5

LEMMA WriteOk ==
  ASSUME TInv, phase = "write", phase' \in {"write", "undefined"}, object \in Objects,
         UNCHANGED <<object, written, layout, cut, source, pos, frames, result, left>>,
         agenda' \in Seq(Writes(object)), file' \in Seq(Int)
  PROVE  TInv'
<1>1. pos = 0 /\ Len(file') \in Nat
  BY DEF TInv
<1>2. pos' \in 0..Len(file')
  BY <1>1
<1> QED
  BY <1>2 DEF TInv

(* The head of the agenda. *)
LEMMA AgendaOk ==
  ASSUME TInv, phase = "write", agenda # << >>
  PROVE  /\ object \in Objects /\ layout \in Layouts /\ agenda \in Seq(Writes(object))
         /\ Head(agenda) \in Writes(object)
         /\ After(agenda) \in Seq(Writes(object)) /\ Bytes(Head(agenda)) \in Seq(Int)
         /\ file \in Seq(Int)
<1>1. object \in Objects /\ layout \in Layouts /\ agenda \in Seq(Writes(object)) /\ file \in Seq(Int)
  BY DEF TInv
<1> QED
  BY <1>1, AfterType, BytesType

(* A step of the writer. *)
Puts ==
  /\ phase = "write" /\ agenda # << >>
  /\ \/ phase' = "write"
     \/ phase' = "undefined" /\ Head(agenda).do = "object" /\ Overruns(Head(agenda).node)
  /\ file' = file \o Bytes(Head(agenda))
  /\ agenda' = After(agenda)
  /\ UNCHANGED <<object, written, layout, cut, source, pos, frames, result, left>>

LEMMA WriterPuts ==
  ASSUME TInv, WriteObject \/ WriteLong
  PROVE  Puts
<1>1. CASE WriteObject
  <2> DEFINE o == Head(agenda).node
             c == <<Char(o.type)>>
             p == Payload(o)
  <2>1. phase = "write" /\ agenda # << >> /\ Head(agenda).do = "object"
    BY <1>1 DEF WriteObject
  <2>2. o \in Nodes(object) /\ object \in Objects
    BY <2>1, AgendaOk, BytesType
  <2>3. Sound(o)
    BY <2>2, NodeOf
  <2>4. p \in Seq(Int)
    BY <2>3, PayloadType
  <2>5. c \in Seq(Int)
    <3>1. o.type \in {Types[k] : k \in DOMAIN Types}
      BY <2>3 DEF Sound
    <3> DEFINE i == Char(o.type)
    <3>2. i \in 1..8
      BY <3>1, CharType
    <3> HIDE DEF i
    <3>3. <<i>> \in Seq(Int)
      BY <3>2
    <3>. QED
      BY <3>3 DEF i
  <2>6. file' = (file \o c) \o p
    BY <1>1 DEF WriteObject
  <2>7. Bytes(Head(agenda)) = c \o p
    BY <2>1 DEF Bytes
  <2>8. file \in Seq(Int)
    BY DEF TInv
  <2>9. file' = file \o (c \o p)
    <3> HIDE DEF c, p
    <3>. QED
      BY <2>4, <2>5, <2>6, <2>8, ConcatAssociative
  <2>10. agenda' = After(agenda)
    BY <1>1, <2>1 DEF WriteObject, After
  <2>11. phase' = "write" \/ (phase' = "undefined" /\ Overruns(o))
    BY <1>1, <2>1 DEF WriteObject
  <2>. QED
    BY <1>1, <2>1, <2>7, <2>9, <2>10, <2>11 DEF WriteObject, Puts
<1>2. CASE WriteLong
  <2>1. phase = "write" /\ agenda # << >> /\ Head(agenda).do = "long"
    BY <1>2 DEF WriteLong
  <2>2. Bytes(Head(agenda)) = LongBytes(Head(agenda).n) /\ After(agenda) = Tail(agenda)
    BY <2>1 DEF Bytes, After
  <2>. QED
    BY <1>2, <2>1, <2>2 DEF WriteLong, Puts
<1> QED
  BY <1>1, <1>2

LEMMA PutsOk == ASSUME TInv, Puts PROVE TInv'
<1>1. /\ object \in Objects /\ After(agenda) \in Seq(Writes(object))
      /\ Bytes(Head(agenda)) \in Seq(Int) /\ file \in Seq(Int)
  BY AgendaOk DEF Puts
<1> DEFINE b == Bytes(Head(agenda))
<1>2. file \o b \in Seq(Int)
  BY <1>1, ConcatProperties
<1> QED
  BY <1>1, <1>2, WriteOk DEF Puts

LEMMA WrittenOk == ASSUME TInv, Written PROVE TInv'
BY DEF TInv, Written, writer

LEMMA OpenOk ==
  ASSUME TInv, NEW n \in 0..Len(file), NEW s \in {"file", "memory"}, Open(n, s)
  PROVE  TInv'
<1>1. file \in Seq(Int) /\ Len(file) \in Nat
  BY DEF TInv
<1>2. \A i \in 1..n : file[i] \in Int
  BY <1>1
<1>3. n \in Int
  BY <1>1
<1>4. file' \in Seq(Int)
  <2>1. SubSeq(file, 1, n) \in Seq(Int)
    BY <1>2, <1>3, SubSeqProperties
  <2>. QED
    BY <2>1 DEF Open
<1>5. pos = 0 /\ ~left /\ phase = "written" /\ phase' = "read"
  BY DEF TInv, Open
<1>6. pos' \in 0..Len(file')
  BY <1>4, <1>5 DEF Open
<1> QED
  BY <1>4, <1>5, <1>6 DEF TInv, Open

LEMMA InitOk == Init => TInv
<1> SUFFICES ASSUME Init PROVE TInv
  OBVIOUS
<1>1. pos = 0 /\ frames = << >> /\ left = FALSE
  BY DEF Init
<1>2. Stack(frames)
  BY <1>1, StackEmpty
<1>3. CASE /\ phase = "write" /\ written = TRUE
           /\ object \in Objects /\ layout \in Layouts
           /\ agenda = <<ObjectTask(object)>> /\ file = << >>
  <2>1. object \in Nodes(object)
    <3>1. 0 \in 0..Depth
      BY SizesAssumption
    <3>2. object \in Generations(object)[0]
      BY GenerationsIs
    <3>. QED
      BY <3>1, <3>2 DEF Nodes
  <2> DEFINE t == ObjectTask(object)
  <2>2. t \in Writes(object)
    BY <2>1, WritesOf
  <2> HIDE DEF t
  <2>3. <<t>> \in Seq(Writes(object))
    BY <2>2
  <2>4. agenda \in Seq(Writes(object))
    BY <1>3, <2>3 DEF t
  <2>5. file \in Seq(Int) /\ pos \in 0..Len(file)
    BY <1>1, <1>3
  <2>. QED
    BY <1>1, <1>2, <1>3, <2>4, <2>5 DEF TInv
<1>4. CASE /\ phase = "written" /\ agenda = << >> /\ written = FALSE
           /\ \E f \in Files : object = f.object /\ layout = f.layout /\ file = f.bytes
  <2>1. PICK f \in Files : layout = f.layout /\ file = f.bytes
    BY <1>4
  <2>2. file \in Seq(Int)
    BY <2>1, FilesAssumption
  <2>3. layout \in Layouts
    BY <2>1, FilesAssumption
  <2>4. pos \in 0..Len(file)
    BY <1>1, <2>2
  <2>. QED
    BY <1>1, <1>2, <1>4, <2>2, <2>3, <2>4 DEF TInv
<1> QED
  BY <1>3, <1>4 DEF Init

LEMMA TypesKept == TInv /\ [Next]_vars => TInv'
<1> SUFFICES ASSUME TInv, [Next]_vars PROVE TInv'
  OBVIOUS
<1>1. CASE WriteObject \/ WriteLong
  BY <1>1, WriterPuts, PutsOk
<1>2. CASE Written
  BY <1>2, WrittenOk
<1>3. CASE \E n \in 0..Len(file), s \in {"file", "memory"} : Open(n, s)
  BY <1>3, OpenOk
<1>4. CASE ReadRoot
  BY <1>4, ReadRootOk
<1>5. CASE ReadPart
  BY <1>5, ReadPartOk
<1>6. CASE ReadLong
  BY <1>6, ReadLongOk
<1>7. CASE SkipLong
  BY <1>7, SkipLongOk
<1>8. CASE ReadFloat
  BY <1>8, ReadFloatOk
<1>9. CASE ReadLength
  BY <1>9, ReadLengthOk
<1>10. CASE ReadContent
  BY <1>10, ReadContentOk
<1>11. CASE Return
  BY <1>11, ReturnOk
<1>12. CASE UNCHANGED vars
  BY <1>12 DEF vars, TInv
<1> QED
  BY <1>1, <1>2, <1>3, <1>4, <1>5, <1>6, <1>7, <1>8, <1>9, <1>10, <1>11, <1>12 DEF Next

LEMMA TypesHold == Spec => []TInv
BY InitOk, TypesKept, PTL DEF Spec

(* Whatever the file holds and wherever it ends, the reader stays in it,   *)
(* and locks are left only by a short read of memory.                      *)
THEOREM ReadsWithin == Spec => []Within
<1>1. TInv => Within
  BY DEF TInv, Within
<1> QED
  BY <1>1, TypesHold, PTL

-----------------------------------------------------------------------------
(* What is left of an object, by its generation.                           *)

Image(g, x) == Restored(object)[Depth - g][x]
Images(g, x) == [i \in DOMAIN x.parts |-> Image(g + 1, x.parts[i])]

LEMMA ImageIs ==
  ASSUME object \in Objects, NEW g \in 0..Depth, NEW x \in Generations(object)[g]
  PROVE  Image(g, x) = Kept(x, Images(g, x))
<1> DEFINE n == Depth - g
<1>1. Depth \in Nat
  BY SizesAssumption
<1>2. n \in 0..Depth /\ Depth - n = g
  BY <1>1
<1>3. Image(g, x) = Kept(x, IF n = 0 THEN << >>
                            ELSE [i \in DOMAIN x.parts |-> Restored(object)[n - 1][x.parts[i]]])
  <2>1. x \in Generations(object)[Depth - n]
    BY <1>2
  <2> HIDE DEF n
  <2>2. Restored(object)[n][x]
          = Kept(x, IF n = 0 THEN << >>
                    ELSE [i \in DOMAIN x.parts |-> Restored(object)[n - 1][x.parts[i]]])
    BY <1>2, <2>1, RestoredIs
  <2>. QED
    BY <2>2 DEF Image, n
<1>4. CASE n # 0
  <2>1. n - 1 = Depth - (g + 1)
    BY <1>1
  <2>2. Images(g, x) = [i \in DOMAIN x.parts |-> Restored(object)[n - 1][x.parts[i]]]
    BY <2>1 DEF Images, Image
  <2>. QED
    BY <1>3, <1>4, <2>2
<1>5. CASE n = 0
  <2>1. Image(g, x) = Kept(x, << >>)
    BY <1>3, <1>5
  <2>2. Sound(x) /\ Children(x) = {}
    <3>1. g = Depth
      BY <1>1, <1>5
    <3>. QED
      BY <3>1, ChildOf, ObjectsAssumption
  <2>3. CASE x.type = "kv"
    BY <2>1, <2>3 DEF Kept
  <2>4. CASE x.type # "kv"
    <3>1. x.type # "code"
      BY <2>2 DEF Children
    <3>2. x.parts = << >>
      <4>1. CASE x.type = "tuple"
        <5>1. DOMAIN x.parts = {}
          BY <2>2, <4>1 DEF Children
        <5>2. x.parts \in Seq({x.parts[i] : i \in DOMAIN x.parts})
          BY <2>2 DEF Sound
        <5>3. DOMAIN x.parts = 1..Len(x.parts) /\ Len(x.parts) \in Nat
          BY <5>2, LenProperties
        <5>4. Len(x.parts) = 0
          <6>1. 1 \notin 1..Len(x.parts)
            BY <5>1, <5>3
          <6>2. \A k \in Nat : 1 \notin 1..k => k = 0
            OBVIOUS
          <6>. QED
            BY Zenon, <5>3, <6>1, <6>2
        <5>. QED
          BY <5>2, <5>4, EmptySeq
      <4>2. CASE x.type # "tuple"
        BY <2>2, <2>4, <3>1, <4>2 DEF Sound
      <4>. QED
        BY <4>1, <4>2
    <3>3. Images(g, x) = << >>
      BY <3>2 DEF Images
    <3>. QED
      BY <2>1, <3>3
  <2>. QED
    BY <2>3, <2>4
<1> QED
  BY <1>4, <1>5

(* The first k elements of a sequence. *)
First(s, k) == [i \in 1..k |-> s[i]]
Grown(s, e) == Append(s, e)

LEMMA FirstOf ==
  ASSUME NEW s, NEW k \in Nat
  PROVE  /\ First(s, 0) = << >>
         /\ Grown(First(s, k), s[k + 1]) = First(s, k + 1)
<1> DEFINE S == {s[i] : i \in 1..(k + 1)}
           f == First(s, k)
           h == First(s, k + 1)
           e == s[k + 1]
<1>1. f \in Seq(S) /\ Len(f) = k /\ \A i \in 1..k : f[i] = s[i]
  <2>1. f \in [1..k -> S]
    BY DEF First
  <2>2. \A i \in 1..k : f[i] = s[i]
    BY DEF First
  <2> HIDE DEF f, S
  <2>. QED
    BY <2>1, <2>2
<1>2. h \in Seq(S) /\ Len(h) = k + 1 /\ \A i \in 1..(k + 1) : h[i] = s[i]
  <2>1. h \in [1..(k + 1) -> S]
    BY DEF First
  <2>2. \A i \in 1..(k + 1) : h[i] = s[i]
    BY DEF First
  <2> HIDE DEF h, S
  <2>. QED
    BY <2>1, <2>2
<1>3. e \in S
  OBVIOUS
<1> HIDE DEF S, f, h, e
<1>4. /\ Append(f, e) \in Seq(S) /\ Len(Append(f, e)) = k + 1
      /\ \A i \in 1..k : Append(f, e)[i] = f[i]
      /\ Append(f, e)[k + 1] = e
  BY <1>1, <1>3, AppendProperties
<1>5. ASSUME NEW i \in 1..(k + 1) PROVE Append(f, e)[i] = h[i]
  <2>1. CASE i = k + 1
    BY <1>2, <1>4, <2>1 DEF e
  <2>2. CASE i # k + 1
    <3>1. i \in 1..k
      BY <2>2
    <3>. QED
      BY <1>1, <1>2, <1>4, <3>1
  <2>. QED
    BY <2>1, <2>2
<1>6. Append(f, e) = h
  BY <1>2, <1>4, <1>5, SeqEqual
<1>7. First(s, 0) = << >>
  BY DEF First
<1> QED
  BY <1>6, <1>7 DEF Grown, f, h, e

LEMMA FirstAll ==
  ASSUME NEW S, NEW s \in Seq(S), NEW n, n = Len(s)
  PROVE  First(s, n) = s
BY DEF First

-----------------------------------------------------------------------------
(* How far the reader has come with an object, by the number d of what     *)
(* follows the type that it has read: what is left of its script, and how  *)
(* many longs and parts it has.                                            *)

Plan(x) == IF x.type = "int" THEN <<"long">> ELSE IF x.type = "code" THEN CodeScript(layout) ELSE << >>

ScriptAt(x, d) ==
  IF x.type # "tuple" THEN Rest(Plan(x), d)
  ELSE IF d = 0 THEN <<"count">> ELSE [i \in 1..(Len(x.parts) + 1 - d) |-> "object"]

Longs(x) == IF x.type = "int" THEN x.data ELSE CodeLongs(x)

LongsDone(x, d) ==
  IF x.type = "int" THEN d
  ELSE IF layout = "pyc" THEN IF d <= 5 THEN d ELSE 5
  ELSE IF d <= 4 THEN d ELSE 4

PartsDone(x, d) ==
  CASE x.type = "tuple" -> IF d = 0 THEN 0 ELSE d - 1
    [] x.type = "code"  -> IF layout = "pyc"
                           THEN IF d <= 5 THEN 0 ELSE IF d <= 11 THEN d - 5
                                ELSE IF d = 12 THEN 6 ELSE 7
                           ELSE IF d <= 4 THEN 0 ELSE d - 4
    [] OTHER -> 0

Matched(f, g, x, d) ==
  /\ f.type = TypeOf(Char(x.type))
  /\ x.type = "code" => f.layout = layout
  /\ f.script = ScriptAt(x, d)
  /\ x.type # "kv" => f.data = IF x.type \in {"int", "code"} THEN First(Longs(x), LongsDone(x, d))
                               ELSE x.data
  /\ f.parts = First(Images(g, x), PartsDone(x, d))

(* What reading the next word does with it. *)
StepLong(x, d) ==
  /\ x.type \in {"int", "code"}
  /\ Longs(x)[LongsDone(x, d) + 1] \in Int /\ Fits(Longs(x)[LongsDone(x, d) + 1])
  /\ Follows(x)[d + 1] = LongTask(Longs(x)[LongsDone(x, d) + 1])
  /\ LongsDone(x, d + 1) = LongsDone(x, d) + 1
  /\ PartsDone(x, d + 1) = PartsDone(x, d)

StepSkipped(x, d) ==
  /\ x.type = "code"
  /\ Follows(x)[d + 1] = LongTask(0)
  /\ LongsDone(x, d + 1) = LongsDone(x, d)
  /\ PartsDone(x, d + 1) = PartsDone(x, d)

StepPart(x, d) ==
  /\ PartsDone(x, d) + 1 \in DOMAIN x.parts
  /\ x.parts[PartsDone(x, d) + 1] \in Children(x)
  /\ Follows(x)[d + 1] = ObjectTask(x.parts[PartsDone(x, d) + 1])
  /\ x.type \in {"tuple", "code"}
  /\ x.type = "code" => LongsDone(x, d + 1) = LongsDone(x, d)
  /\ PartsDone(x, d + 1) = PartsDone(x, d) + 1

StepDropped(x, d) ==
  /\ x.type = "code"
  /\ \E c \in Children(x) : Follows(x)[d + 1] = ObjectTask(c)
  /\ LongsDone(x, d + 1) = LongsDone(x, d)
  /\ PartsDone(x, d + 1) = PartsDone(x, d)

Step(x, d, w) ==
  \/ w = "long" /\ StepLong(x, d)
  \/ w = "skipped" /\ StepSkipped(x, d)
  \/ w = "object" /\ StepPart(x, d)
  \/ w = "name" /\ StepPart(x, d) /\ x.parts[PartsDone(x, d) + 1].type = "unicode"
  \/ w = "dropped" /\ StepDropped(x, d)

LEMMA CodeStepPyc ==
  ASSUME object \in Objects, Writable(object), NEW x \in Nodes(object), x.type = "code",
         layout = "pyc", NEW d \in 0..14
  PROVE  Step(x, d, CodeScript(layout)[d + 1])
<1>1. /\ DOMAIN x.parts = 1..7
      /\ \A i \in 1..7 : x.parts[i] \in Children(x)
      /\ Empty \in Children(x) /\ NoneObject \in Children(x)
      /\ x.data \in Seq(Int) /\ Len(x.data) = 5
      /\ \A i \in 1..5 : x.data[i] \in Int
      /\ x.parts[7].type = "unicode"
  BY CodeOf
<1>2. \A i \in 1..5 : Fits(x.data[i])
  BY <1>1, LenProperties DEF Writable
<1>3. CodeScript(layout) = <<"long", "long", "long", "long", "long",
                             "object", "object", "object", "object", "object", "object",
                             "dropped", "name", "skipped", "dropped">>
  BY DEF CodeScript
<1>4. Longs(x) = x.data
  BY DEF Longs, CodeLongs
<1>5. /\ \A i \in 1..5 : Follows(x)[i] = LongTask(x.data[i])
      /\ \A i \in 6..11 : Follows(x)[i] = ObjectTask(x.parts[i - 5])
      /\ Follows(x)[12] = ObjectTask(Empty) /\ Follows(x)[13] = ObjectTask(x.parts[7])
      /\ Follows(x)[14] = LongTask(0) /\ Follows(x)[15] = ObjectTask(NoneObject)
  BY CodePyc
<1>6. \A i \in 0..15 : /\ LongsDone(x, i) = IF i <= 5 THEN i ELSE 5
                       /\ PartsDone(x, i) = IF i <= 5 THEN 0 ELSE IF i <= 11 THEN i - 5
                                            ELSE IF i = 12 THEN 6 ELSE 7
  BY DEF LongsDone, PartsDone
<1>7. d \in 0..15 /\ d + 1 \in 0..15
  OBVIOUS
<1>8. CASE d \in 0..4
  <2>1. CodeScript(layout)[d + 1] = "long"
    BY <1>3, <1>8
  <2>2. LongsDone(x, d) = d /\ LongsDone(x, d + 1) = d + 1 /\ PartsDone(x, d) = 0
        /\ PartsDone(x, d + 1) = 0 /\ d + 1 \in 1..5
    BY <1>6, <1>7, <1>8
  <2>3. StepLong(x, d)
    BY <1>1, <1>2, <1>4, <1>5, <2>2 DEF StepLong
  <2>. QED
    BY <2>1, <2>3 DEF Step
<1>9. CASE d \in 5..10
  <2>1. CodeScript(layout)[d + 1] = "object"
    BY <1>3, <1>9
  <2>2. LongsDone(x, d) = 5 /\ LongsDone(x, d + 1) = 5 /\ PartsDone(x, d) = d - 5
        /\ PartsDone(x, d + 1) = d - 4 /\ d + 1 \in 6..11 /\ d - 4 \in 1..7
        /\ d + 1 - 5 = d - 4 /\ d - 5 + 1 = d - 4
    BY <1>6, <1>7, <1>9
  <2>3. StepPart(x, d)
    <3> DEFINE k == d - 4
    <3>1. k \in 1..7 /\ PartsDone(x, d) + 1 = k /\ PartsDone(x, d + 1) = PartsDone(x, d) + 1
      BY <2>2
    <3>2. Follows(x)[d + 1] = ObjectTask(x.parts[k])
      BY <1>5, <2>2
    <3> HIDE DEF k
    <3>3. x.parts[k] \in Children(x) /\ k \in DOMAIN x.parts
      BY <1>1, <3>1
    <3>4. /\ PartsDone(x, d) + 1 \in DOMAIN x.parts
          /\ x.parts[PartsDone(x, d) + 1] \in Children(x)
          /\ Follows(x)[d + 1] = ObjectTask(x.parts[PartsDone(x, d) + 1])
      BY <3>1, <3>2, <3>3
    <3>. QED
      BY <2>2, <3>1, <3>4 DEF StepPart
  <2>. QED
    BY <2>1, <2>3 DEF Step
<1>10. CASE d = 11
  <2>1. CodeScript(layout)[d + 1] = "dropped"
    BY <1>3, <1>10
  <2>2. LongsDone(x, d) = 5 /\ LongsDone(x, d + 1) = 5 /\ PartsDone(x, d) = 6 /\ PartsDone(x, d + 1) = 6
    BY <1>6, <1>7, <1>10
  <2>3. StepDropped(x, d)
    BY <1>1, <1>5, <1>10, <2>2 DEF StepDropped
  <2>. QED
    BY <2>1, <2>3 DEF Step
<1>11. CASE d = 12
  <2>1. CodeScript(layout)[d + 1] = "name"
    BY <1>3, <1>11
  <2>2. LongsDone(x, d) = 5 /\ LongsDone(x, d + 1) = 5 /\ PartsDone(x, d) = 6 /\ PartsDone(x, d + 1) = 7
    BY <1>6, <1>7, <1>11
  <2>3. PartsDone(x, d) + 1 = 7 /\ 7 \in 1..7
    BY <2>2
  <2>4. StepPart(x, d)
    <3>1. d + 1 = 13 /\ Follows(x)[d + 1] = ObjectTask(x.parts[7])
      BY <1>5, <1>11
    <3>2. x.parts[7] \in Children(x) /\ 7 \in DOMAIN x.parts
      BY <1>1, <2>3
    <3>3. /\ PartsDone(x, d) + 1 \in DOMAIN x.parts
          /\ x.parts[PartsDone(x, d) + 1] \in Children(x)
          /\ Follows(x)[d + 1] = ObjectTask(x.parts[PartsDone(x, d) + 1])
      BY <2>3, <3>1, <3>2
    <3>. QED
      BY <2>2, <3>3 DEF StepPart
  <2>. QED
    BY <1>1, <2>1, <2>3, <2>4 DEF Step
<1>12. CASE d = 13
  <2>1. CodeScript(layout)[d + 1] = "skipped"
    BY <1>3, <1>12
  <2>2. LongsDone(x, d) = 5 /\ LongsDone(x, d + 1) = 5 /\ PartsDone(x, d) = 7 /\ PartsDone(x, d + 1) = 7
    BY <1>6, <1>7, <1>12
  <2>3. StepSkipped(x, d)
    BY <1>5, <1>12, <2>2 DEF StepSkipped
  <2>. QED
    BY <2>1, <2>3 DEF Step
<1>13. CASE d = 14
  <2>1. CodeScript(layout)[d + 1] = "dropped"
    BY <1>3, <1>13
  <2>2. LongsDone(x, d) = 5 /\ LongsDone(x, d + 1) = 5 /\ PartsDone(x, d) = 7 /\ PartsDone(x, d + 1) = 7
    BY <1>6, <1>7, <1>13
  <2>3. StepDropped(x, d)
    BY <1>1, <1>5, <1>13, <2>2 DEF StepDropped
  <2>. QED
    BY <2>1, <2>3 DEF Step
<1> QED
  BY <1>8, <1>9, <1>10, <1>11, <1>12, <1>13

LEMMA CodeStepPlus ==
  ASSUME object \in Objects, Writable(object), NEW x \in Nodes(object), x.type = "code",
         layout = "plus", NEW d \in 0..10
  PROVE  Step(x, d, CodeScript(layout)[d + 1])
<1>1. /\ DOMAIN x.parts = 1..7
      /\ \A i \in 1..7 : x.parts[i] \in Children(x)
      /\ x.data \in Seq(Int) /\ Len(x.data) = 5
      /\ \A i \in 1..5 : x.data[i] \in Int
      /\ x.parts[7].type = "unicode"
  BY CodeOf
<1>2. \A i \in 1..5 : Fits(x.data[i])
  BY <1>1, LenProperties DEF Writable
<1>3. CodeScript(layout) = <<"long", "long", "long", "long",
                             "object", "object", "object", "object", "object", "object", "name">>
  BY DEF CodeScript
<1>4. Longs(x) = <<x.data[1], x.data[2], x.data[3], x.data[5]>>
  BY DEF Longs, CodeLongs
<1>5. /\ \A i \in 1..3 : Follows(x)[i] = LongTask(x.data[i])
      /\ Follows(x)[4] = LongTask(x.data[5])
      /\ \A i \in 5..10 : Follows(x)[i] = ObjectTask(x.parts[i - 4])
      /\ Follows(x)[11] = ObjectTask(x.parts[7])
  BY CodePlus
<1>6. \A i \in 0..11 : /\ LongsDone(x, i) = IF i <= 4 THEN i ELSE 4
                       /\ PartsDone(x, i) = IF i <= 4 THEN 0 ELSE i - 4
  BY DEF LongsDone, PartsDone
<1>7. d \in 0..11 /\ d + 1 \in 0..11
  OBVIOUS
<1>8. CASE d \in 0..3
  <2>1. CodeScript(layout)[d + 1] = "long"
    BY <1>3, <1>8
  <2>2. LongsDone(x, d) = d /\ LongsDone(x, d + 1) = d + 1 /\ PartsDone(x, d) = 0
        /\ PartsDone(x, d + 1) = 0 /\ (d + 1 \in 1..3 \/ d + 1 = 4)
    BY <1>6, <1>7, <1>8
  <2>3. /\ Longs(x)[d + 1] \in Int /\ Fits(Longs(x)[d + 1])
        /\ Follows(x)[d + 1] = LongTask(Longs(x)[d + 1])
    <3>1. CASE d = 0
      BY <1>1, <1>2, <1>4, <1>5, <3>1
    <3>2. CASE d = 1
      BY <1>1, <1>2, <1>4, <1>5, <3>2
    <3>3. CASE d = 2
      BY <1>1, <1>2, <1>4, <1>5, <3>3
    <3>4. CASE d = 3
      BY <1>1, <1>2, <1>4, <1>5, <3>4
    <3>. QED
      BY <1>8, <3>1, <3>2, <3>3, <3>4
  <2>4. StepLong(x, d)
    BY <2>2, <2>3 DEF StepLong
  <2>. QED
    BY <2>1, <2>4 DEF Step
<1>9. CASE d \in 4..9
  <2>1. CodeScript(layout)[d + 1] = "object"
    BY <1>3, <1>9
  <2>2. LongsDone(x, d) = 4 /\ LongsDone(x, d + 1) = 4 /\ PartsDone(x, d) = d - 4
        /\ PartsDone(x, d + 1) = d - 3 /\ d + 1 \in 5..10 /\ d - 3 \in 1..7
        /\ d + 1 - 4 = d - 3 /\ d - 4 + 1 = d - 3
    BY <1>6, <1>7, <1>9
  <2>3. StepPart(x, d)
    <3> DEFINE k == d - 3
    <3>1. k \in 1..7 /\ PartsDone(x, d) + 1 = k /\ PartsDone(x, d + 1) = PartsDone(x, d) + 1
      BY <2>2
    <3>2. Follows(x)[d + 1] = ObjectTask(x.parts[k])
      BY <1>5, <2>2
    <3> HIDE DEF k
    <3>3. x.parts[k] \in Children(x) /\ k \in DOMAIN x.parts
      BY <1>1, <3>1
    <3>4. /\ PartsDone(x, d) + 1 \in DOMAIN x.parts
          /\ x.parts[PartsDone(x, d) + 1] \in Children(x)
          /\ Follows(x)[d + 1] = ObjectTask(x.parts[PartsDone(x, d) + 1])
      BY <3>1, <3>2, <3>3
    <3>. QED
      BY <2>2, <3>1, <3>4 DEF StepPart
  <2>. QED
    BY <2>1, <2>3 DEF Step
<1>10. CASE d = 10
  <2>1. CodeScript(layout)[d + 1] = "name"
    BY <1>3, <1>10
  <2>2. LongsDone(x, d) = 4 /\ LongsDone(x, d + 1) = 4 /\ PartsDone(x, d) = 6 /\ PartsDone(x, d + 1) = 7
    BY <1>6, <1>7, <1>10
  <2>3. PartsDone(x, d) + 1 = 7 /\ 7 \in 1..7
    BY <2>2
  <2>4. StepPart(x, d)
    <3>1. d + 1 = 11 /\ Follows(x)[d + 1] = ObjectTask(x.parts[7])
      BY <1>5, <1>10
    <3>2. x.parts[7] \in Children(x) /\ 7 \in DOMAIN x.parts
      BY <1>1, <2>3
    <3>3. /\ PartsDone(x, d) + 1 \in DOMAIN x.parts
          /\ x.parts[PartsDone(x, d) + 1] \in Children(x)
          /\ Follows(x)[d + 1] = ObjectTask(x.parts[PartsDone(x, d) + 1])
      BY <2>3, <3>1, <3>2
    <3>. QED
      BY <2>2, <3>3 DEF StepPart
  <2>. QED
    BY <1>1, <2>1, <2>3, <2>4 DEF Step
<1> QED
  BY <1>8, <1>9, <1>10

LEMMA PlanIs ==
  ASSUME object \in Objects, Writable(object), layout \in Layouts,
         NEW x \in Nodes(object), x.type # "tuple"
  PROVE  /\ \E S : Plan(x) \in Seq(S)
         /\ Len(Plan(x)) = Len(Follows(x)) /\ Len(Plan(x)) \in Nat
         /\ \A d \in 0..(Len(Plan(x)) - 1) : Step(x, d, Plan(x)[d + 1])
<1>1. CASE x.type = "int"
  <2>1. Sound(x)
    BY NodeOf
  <2>2. x.data \in Seq(Int) /\ Len(x.data) = 1
    BY <1>1, <2>1 DEF Sound
  <2>3. Plan(x) = <<"long">> /\ Longs(x) = x.data /\ Follows(x) = LongTasks(x.data)
    BY <1>1 DEF Plan, Longs, Follows
  <2>4. /\ Len(Follows(x)) = 1 /\ Follows(x)[1] = LongTask(x.data[1])
    <3>1. Len(LongTasks(x.data)) = Len(x.data)
          /\ \A i \in 1..Len(x.data) : LongTasks(x.data)[i] = LongTask(x.data[i])
      BY <2>2, LongTasksType
    <3>. QED
      BY <2>2, <2>3, <3>1
  <2>5. x.data[1] \in Int /\ Fits(x.data[1])
    <3>1. 1 \in DOMAIN x.data
      BY <2>2, LenProperties
    <3>. QED
      BY <1>1, <2>2, <3>1 DEF Writable
  <2>6. /\ LongsDone(x, 0) = 0 /\ LongsDone(x, 1) = 1
        /\ PartsDone(x, 0) = 0 /\ PartsDone(x, 1) = 0
    BY <1>1 DEF LongsDone, PartsDone
  <2>7. Step(x, 0, "long")
    BY <1>1, <2>3, <2>4, <2>5, <2>6 DEF Step, StepLong
  <2>8. Plan(x) \in Seq(Words) /\ Len(Plan(x)) = 1 /\ Plan(x)[1] = "long"
    BY <2>3 DEF Words
  <2>9. \A d \in 0..0 : Step(x, d, Plan(x)[d + 1])
    BY <2>7, <2>8
  <2>. QED
    BY <2>4, <2>8, <2>9
<1>2. CASE x.type = "code" /\ layout = "pyc"
  <2>1. Plan(x) = CodeScript(layout)
    BY <1>2 DEF Plan
  <2>2. CodeScript(layout) \in Seq(Words) /\ Len(CodeScript(layout)) = 15
    <3>1. CodeScript(layout) = <<"long", "long", "long", "long", "long",
                                 "object", "object", "object", "object", "object", "object",
                                 "dropped", "name", "skipped", "dropped">>
      BY <1>2 DEF CodeScript
    <3>. QED
      BY <3>1 DEF Words
  <2>3. Len(Follows(x)) = 15
    BY <1>2, CodePyc
  <2>4. \A d \in 0..14 : Step(x, d, CodeScript(layout)[d + 1])
    BY <1>2, CodeStepPyc
  <2>. QED
    BY <2>1, <2>2, <2>3, <2>4
<1>3. CASE x.type = "code" /\ layout # "pyc"
  <2>0. layout = "plus"
    BY <1>3 DEF Layouts
  <2>1. Plan(x) = CodeScript(layout)
    BY <1>3 DEF Plan
  <2>2. CodeScript(layout) \in Seq(Words) /\ Len(CodeScript(layout)) = 11
    <3>1. CodeScript(layout)
            = <<"long", "long", "long", "long",
                "object", "object", "object", "object", "object", "object", "name">>
      BY <1>3 DEF CodeScript
    <3>. QED
      BY <3>1 DEF Words
  <2>3. Len(Follows(x)) = 11
    BY <1>3, <2>0, CodePlus
  <2>4. \A d \in 0..10 : Step(x, d, CodeScript(layout)[d + 1])
    BY <1>3, <2>0, CodeStepPlus
  <2>. QED
    BY <2>1, <2>2, <2>3, <2>4
<1>4. CASE x.type \notin {"int", "code"}
  <2>1. Plan(x) = << >> /\ Follows(x) = << >>
    BY <1>4 DEF Plan, Follows
  <2>2. << >> \in Seq(Words) /\ Len(<< >>) = 0
    OBVIOUS
  <2>. QED
    BY <2>1, <2>2
<1> QED
  BY <1>1, <1>2, <1>3, <1>4

(* The script of a tuple, when its length has been read. *)
LEMMA TupleScript ==
  ASSUME object \in Objects, Writable(object), NEW x \in Nodes(object), x.type = "tuple",
         NEW d \in 1..Len(Follows(x))
  PROVE  /\ ScriptAt(x, d) = << >> <=> d = Len(Follows(x))
         /\ d < Len(Follows(x)) =>
              /\ Tail(ScriptAt(x, d)) = ScriptAt(x, d + 1)
              /\ Step(x, d, Head(ScriptAt(x, d)))
<1> DEFINE n == Len(x.parts)
           s == ScriptAt(x, d)
           t == ScriptAt(x, d + 1)
<1>1. /\ DOMAIN x.parts = 1..n /\ n \in Nat /\ n # 0
      /\ \A i \in 1..n : x.parts[i] \in Children(x)
  <2>1. /\ x.parts \in Seq({x.parts[i] : i \in DOMAIN x.parts}) /\ n \in Nat /\ DOMAIN x.parts = 1..n
        /\ \A i \in 1..n : x.parts[i] \in Children(x)
    BY TupleOf
  <2>2. x.parts # << >>
    BY DEF Writable
  <2>3. n \in Nat \ {0}
    BY <2>1, <2>2, EmptySeq
  <2>. QED
    BY <2>1, <2>3
<1>2. /\ Len(Follows(x)) = n + 1
      /\ \A i \in 2..(n + 1) : Follows(x)[i] = ObjectTask(x.parts[i - 1])
  <2>1. x.parts # << >>
    BY DEF Writable
  <2>. QED
    BY <2>1, TupleFollows
<1> HIDE DEF n
<1>3. d \in 1..(n + 1)
  BY <1>2
<1>4. s = [i \in 1..(n + 1 - d) |-> "object"]
  BY <1>3 DEF ScriptAt, n
<1>5. d < n + 1 => t = [i \in 1..(n - d) |-> "object"]
  <2>1. n + 1 - (d + 1) = n - d /\ d + 1 # 0
    BY <1>1, <1>3
  <2>. QED
    BY <2>1 DEF ScriptAt, n
<1> HIDE DEF s, t
<1>6. s \in Seq({"object"}) /\ Len(s) = n + 1 - d
  <2>1. s \in [1..(n + 1 - d) -> {"object"}] /\ n + 1 - d \in Nat
    BY <1>1, <1>3, <1>4
  <2>. QED
    BY <1>4, <2>1
<1>7. s = << >> <=> d = n + 1
  <2>1. s = << >> <=> Len(s) = 0
    BY <1>6, EmptySeq
  <2>2. n + 1 - d = 0 <=> d = n + 1
    BY <1>1, <1>3
  <2>. QED
    BY <1>6, <2>1, <2>2
<1>8. ASSUME d < n + 1 PROVE Tail(s) = t /\ Step(x, d, Head(s))
  <2>1. s # << >> /\ Head(s) = "object"
    <3>1. s # << >>
      BY <1>7, <1>3, <1>8
    <3>2. Head(s) \in {"object"}
      BY <1>6, <3>1, HeadTailProperties
    <3>. QED
      BY <3>1, <3>2
  <2>2. Tail(s) \in Seq({"object"}) /\ Len(Tail(s)) = Len(s) - 1
    BY <1>6, <2>1, HeadTailProperties
  <2>3. t \in Seq({"object"}) /\ Len(t) = n - d
    <3>1. t \in [1..(n - d) -> {"object"}] /\ n - d \in Nat
      BY <1>1, <1>3, <1>5, <1>8
    <3>. QED
      BY <1>5, <1>8, <3>1
  <2>4. Len(Tail(s)) = n - d /\ n - d \in Nat
    BY <1>1, <1>3, <1>6, <1>8, <2>2
  <2>5. \A i \in 1..(n - d) : Tail(s)[i] = t[i]
    BY <2>2, <2>3, <2>4, ElementOfSeq
  <2>6. Tail(s) = t
    BY <2>2, <2>3, <2>4, <2>5, SeqEqual
  <2>7. PartsDone(x, d) = d - 1 /\ PartsDone(x, d + 1) = d
    BY <1>3 DEF PartsDone
  <2>8. d \in 1..n /\ d - 1 + 1 = d /\ d + 1 \in 2..(n + 1) /\ d + 1 - 1 = d
    BY <1>1, <1>3, <1>8
  <2>9. StepPart(x, d)
    <3>1. PartsDone(x, d) + 1 = d /\ PartsDone(x, d + 1) = PartsDone(x, d) + 1
      BY <2>7, <2>8
    <3>2. Follows(x)[d + 1] = ObjectTask(x.parts[d])
      BY <1>2, <2>8
    <3>. QED
      BY <1>1, <2>8, <3>1, <3>2 DEF StepPart
  <2>. QED
    BY <2>1, <2>6, <2>9 DEF Step
<1> QED
  BY <1>2, <1>7, <1>8 DEF s, t

LEMMA CountIs ==
  ASSUME object \in Objects, Writable(object), NEW x \in Nodes(object), x.type = "tuple"
  PROVE  /\ ScriptAt(x, 0) = <<"count">> /\ 1 \in 1..Len(Follows(x))
         /\ Follows(x)[1] = LongTask(Len(x.parts)) /\ Fits(Len(x.parts))
         /\ Len(x.parts) \in Nat /\ Len(x.parts) # 0
         /\ ScriptAt(x, 1) = [i \in 1..Len(x.parts) |-> "object"]
         /\ PartsDone(x, 0) = 0 /\ PartsDone(x, 1) = 0
<1>1. x.parts # << >> /\ Fits(Len(x.parts))
  BY DEF Writable
<1>2. x.parts \in Seq({x.parts[i] : i \in DOMAIN x.parts}) /\ Len(x.parts) \in Nat
  BY TupleOf
<1>3. Len(x.parts) \in Nat \ {0}
  BY <1>1, <1>2, EmptySeq
<1>4. Len(Follows(x)) = Len(x.parts) + 1 /\ Follows(x)[1] = LongTask(Len(x.parts))
  BY <1>1, TupleFollows
<1>5. 1 \in 1..Len(Follows(x))
  BY <1>3, <1>4
<1>6. Len(x.parts) + 1 - 1 = Len(x.parts)
  BY <1>3
<1>7. ScriptAt(x, 1) = [i \in 1..Len(x.parts) |-> "object"]
  BY <1>6 DEF ScriptAt
<1>8. ScriptAt(x, 0) = <<"count">>
  BY DEF ScriptAt
<1>9. PartsDone(x, 0) = 0 /\ PartsDone(x, 1) = 0
  BY DEF PartsDone
<1> QED
  BY <1>1, <1>3, <1>4, <1>5, <1>7, <1>8, <1>9

LEMMA ScriptStep ==
  ASSUME object \in Objects, Writable(object), layout \in Layouts,
         NEW x \in Nodes(object), NEW d \in 0..Len(Follows(x))
  PROVE  /\ ScriptAt(x, d) = << >> <=> d = Len(Follows(x))
         /\ d < Len(Follows(x)) /\ Head(ScriptAt(x, d)) # "count" =>
              /\ Tail(ScriptAt(x, d)) = ScriptAt(x, d + 1)
              /\ Step(x, d, Head(ScriptAt(x, d)))
         /\ d < Len(Follows(x)) /\ Head(ScriptAt(x, d)) = "count" => x.type = "tuple" /\ d = 0
<1>1. CASE x.type = "tuple" /\ d = 0
  <2>1. ScriptAt(x, d) = <<"count">> /\ 1 \in 1..Len(Follows(x))
    BY <1>1, CountIs
  <2>2. Head(<<"count">>) = "count" /\ <<"count">> # << >>
    OBVIOUS
  <2>3. d # Len(Follows(x))
    BY <1>1, <2>1
  <2>. QED
    BY <1>1, <2>1, <2>2, <2>3
<1>2. CASE x.type = "tuple" /\ d # 0
  <2>1. d \in 1..Len(Follows(x))
    BY <1>2
  <2>2. /\ ScriptAt(x, d) = << >> <=> d = Len(Follows(x))
        /\ d < Len(Follows(x)) =>
              /\ Tail(ScriptAt(x, d)) = ScriptAt(x, d + 1)
              /\ Step(x, d, Head(ScriptAt(x, d)))
    BY <1>2, <2>1, TupleScript
  <2>3. ~Step(x, d, "count")
    BY DEF Step
  <2>. QED
    BY <2>2, <2>3
<1>3. CASE x.type # "tuple"
  <2>1. PICK S : Plan(x) \in Seq(S)
    BY <1>3, PlanIs
  <2>2. /\ Len(Plan(x)) = Len(Follows(x)) /\ Len(Plan(x)) \in Nat
        /\ \A e \in 0..(Len(Plan(x)) - 1) : Step(x, e, Plan(x)[e + 1])
    BY <1>3, PlanIs
  <2>3. \A e : ScriptAt(x, e) = Rest(Plan(x), e)
    BY <1>3 DEF ScriptAt
  <2>4. d \in 0..Len(Plan(x))
    BY <2>2
  <2>5. /\ d = Len(Plan(x)) => Rest(Plan(x), d) = << >>
        /\ d < Len(Plan(x)) => /\ Rest(Plan(x), d) # << >>
                               /\ Head(Rest(Plan(x), d)) = Plan(x)[d + 1]
                               /\ Tail(Rest(Plan(x), d)) = Rest(Plan(x), d + 1)
    BY <2>1, <2>4, RestOf
  <2>6. d = Len(Plan(x)) \/ (d < Len(Plan(x)) /\ d \in 0..(Len(Plan(x)) - 1))
    BY <2>2, <2>4
  <2>7. ~Step(x, d, "count")
    BY DEF Step
  <2>. QED
    BY <2>2, <2>3, <2>5, <2>6, <2>7
<1> QED
  BY <1>1, <1>2, <1>3

(* An object that has been read is what is left of the one written. *)
LEMMA CompleteIs ==
  ASSUME object \in Objects, Writable(object), layout \in Layouts, NEW g \in 0..Depth,
         NEW x \in Generations(object)[g], NEW f, Matched(f, g, x, Len(Follows(x)))
  PROVE  Complete(f) = Image(g, x) /\ (x.type = "unicode" => Complete(f).type = "unicode")
<1>1. x \in Nodes(object) /\ Sound(x)
  BY ChildOf
<1>2. f.type = IF x.type = "kv" THEN "unknown" ELSE x.type
  BY <1>1, CharType DEF Sound, Matched
<1>3. Image(g, x) = Kept(x, Images(g, x)) /\ DOMAIN Images(g, x) = DOMAIN x.parts
  BY ImageIs DEF Images
<1> DEFINE p == Images(g, x)
<1> HIDE DEF p
<1>4. CASE x.type = "kv"
  <2>1. Complete(f) = Unknown
    BY <1>2, <1>4 DEF Complete
  <2>. QED
    BY <1>3, <1>4, <2>1 DEF Kept
<1>5. CASE x.type = "code"
  <2>1. f.type = "code" /\ f.layout = layout
    BY <1>2, <1>5 DEF Matched
  <2>2. x.data \in Seq(Int) /\ Len(x.data) = 5 /\ DOMAIN x.parts = 1..7
    BY <1>1, <1>5, CodeOf
  <2>3. f.parts = p
    <3>1. PartsDone(x, Len(Follows(x))) = 7
      <4>1. CASE layout = "pyc"
        <5>1. Len(Follows(x)) = 15
          BY <1>1, <1>5, <4>1, CodePyc
        <5>. QED
          BY <1>5, <4>1, <5>1 DEF PartsDone
      <4>2. CASE layout = "plus"
        <5>1. Len(Follows(x)) = 11
          BY <1>1, <1>5, <4>2, CodePlus
        <5>. QED
          BY <1>5, <4>2, <5>1 DEF PartsDone
      <4>. QED
        BY <4>1, <4>2 DEF Layouts
    <3>2. f.parts = First(p, 7)
      BY <3>1 DEF Matched, p
    <3>3. p = [i \in 1..7 |-> p[i]]
      BY <2>2 DEF p, Images
    <3>. QED
      BY <3>2, <3>3 DEF First
  <2>4. CASE layout = "pyc"
    <3>1. LongsDone(x, Len(Follows(x))) = 5
      <4>1. Len(Follows(x)) = 15
        BY <1>1, <1>5, <2>4, CodePyc
      <4>. QED
        BY <1>5, <2>4, <4>1 DEF LongsDone
    <3>2. Longs(x) = x.data
      BY <1>5, <2>4 DEF Longs, CodeLongs
    <3>3. f.data = x.data
      <4>1. f.data = First(x.data, 5)
        BY <1>5, <3>1, <3>2 DEF Matched
      <4>. QED
        BY <2>2, <4>1, FirstAll
    <3>. QED
      BY <1>3, <1>5, <2>1, <2>3, <2>4, <3>3 DEF Complete, Kept, p
  <2>5. CASE layout = "plus"
    <3>1. LongsDone(x, Len(Follows(x))) = 4
      <4>1. Len(Follows(x)) = 11
        BY <1>1, <1>5, <2>5, CodePlus
      <4>. QED
        BY <1>5, <2>5, <4>1 DEF LongsDone
    <3>2. Longs(x) = <<x.data[1], x.data[2], x.data[3], x.data[5]>>
      BY <1>5, <2>5 DEF Longs, CodeLongs
    <3>3. f.data = First(Longs(x), 4)
      BY <1>5, <3>1 DEF Matched
    <3>4. /\ f.data[1] = x.data[1] /\ f.data[2] = x.data[2]
          /\ f.data[3] = x.data[3] /\ f.data[4] = x.data[5]
      BY <3>2, <3>3 DEF First
    <3>5. <<f.data[1], f.data[2], f.data[3], 0, f.data[4]>> = [x.data EXCEPT ![4] = 0]
      <4>1. [x.data EXCEPT ![4] = 0] \in Seq(Int) /\ Len([x.data EXCEPT ![4] = 0]) = 5
            /\ \A j \in 1..5 : [x.data EXCEPT ![4] = 0][j] = IF j = 4 THEN 0 ELSE x.data[j]
        BY <2>2
      <4> DEFINE a == [x.data EXCEPT ![4] = 0]
                 b == <<x.data[1], x.data[2], x.data[3], 0, x.data[5]>>
      <4>2. b \in Seq(Int) /\ Len(b) = 5 /\ \A j \in 1..5 : b[j] = IF j = 4 THEN 0 ELSE x.data[j]
        BY <2>2
      <4>3. a \in Seq(Int) /\ Len(a) = 5 /\ \A j \in 1..5 : a[j] = IF j = 4 THEN 0 ELSE x.data[j]
        BY <4>1
      <4> HIDE DEF a, b
      <4>4. Len(a) = Len(b) /\ \A j \in 1..Len(a) : a[j] = b[j]
        BY <4>2, <4>3
      <4>5. a = b
        BY <4>2, <4>3, <4>4, SeqEqual
      <4>. QED
        BY <3>4, <4>5 DEF a, b
    <3>. QED
      BY <1>3, <1>5, <2>1, <2>3, <2>5, <3>5 DEF Complete, Kept, p
  <2>. QED
    BY <1>5, <2>4, <2>5 DEF Layouts
<1>6. CASE x.type \notin {"kv", "code"}
  <2>1. f.type = x.type /\ f.type # "unknown"
    <3>1. x.type \in {Types[c] : c \in DOMAIN Types}
      BY <1>1 DEF Sound
    <3>2. \A c \in DOMAIN Types : Types[c] # "unknown"
      BY DEF Types
    <3>. QED
      BY <1>2, <1>6, <3>1, <3>2
  <2>2. f.data = x.data
    <3>1. CASE x.type = "int"
      <4>1. x.data \in Seq(Int) /\ Len(x.data) = 1
        BY <1>1, <3>1 DEF Sound
      <4>2. Len(Follows(x)) = 1
        <5>1. Len(LongTasks(x.data)) = 1
          BY <4>1, LongTasksType
        <5>. QED
          BY <3>1, <5>1 DEF Follows
      <4>3. f.data = First(x.data, 1)
        BY <3>1, <4>2 DEF Matched, Longs, LongsDone
      <4>. QED
        BY <4>1, <4>3, FirstAll
    <3>2. CASE x.type # "int"
      BY <1>6, <3>2 DEF Matched
    <3>. QED
      BY <3>1, <3>2
  <2>3. f.parts = p
    <3>1. CASE x.type = "tuple"
      <4>1. Len(Follows(x)) = Len(x.parts) + 1 /\ DOMAIN x.parts = 1..Len(x.parts)
            /\ Len(x.parts) \in Nat
        <5>1. x.parts # << >>
          BY <1>1, <3>1 DEF Writable
        <5>. QED
          BY <1>1, <3>1, <5>1, TupleFollows, TupleOf
      <4>2. PartsDone(x, Len(Follows(x))) = Len(x.parts)
        BY <3>1, <4>1 DEF PartsDone
      <4>3. f.parts = First(p, Len(x.parts))
        BY <4>2 DEF Matched, p
      <4>4. p = [i \in 1..Len(x.parts) |-> p[i]]
        BY <4>1 DEF p, Images
      <4>. QED
        BY <4>3, <4>4 DEF First
    <3>2. CASE x.type # "tuple"
      <4>1. PartsDone(x, Len(Follows(x))) = 0
        BY <1>6, <3>2 DEF PartsDone
      <4>2. f.parts = << >>
        BY <4>1, FirstOf DEF Matched
      <4>3. x.parts = << >>
        BY <1>1, <1>6, <3>2 DEF Sound
      <4>4. p = << >>
        BY <4>3 DEF p, Images
      <4>. QED
        BY <4>2, <4>4
    <3>. QED
      BY <3>1, <3>2
  <2>4. Complete(f) = Node(x.type, x.data, p)
    BY <1>6, <2>1, <2>2, <2>3 DEF Complete
  <2>5. Kept(x, p) = Node(x.type, x.data, p)
    BY <1>6 DEF Kept
  <2>. QED
    BY <1>3, <2>4, <2>5 DEF p, Node
<1> QED
  BY <1>4, <1>5, <1>6

-----------------------------------------------------------------------------
(* The bytes b are in s behind the first p.                                *)
Holds(s, p, b) == p + Len(b) <= Len(s) /\ \A i \in 1..Len(b) : s[p + i] = b[i]
Joined(a, b) == a \o b

LEMMA HoldsJoined ==
  ASSUME NEW s \in Seq(Int), NEW b \in Seq(Int)
  PROVE  /\ Joined(s, b) \in Seq(Int) /\ Len(Joined(s, b)) = Len(s) + Len(b)
         /\ Holds(Joined(s, b), Len(s), b)
         /\ \A p \in Nat, c \in Seq(Int) : Holds(s, p, c) => Holds(Joined(s, b), p, c)
<1> DEFINE t == s \o b
<1>1. Len(s) \in Nat /\ Len(b) \in Nat
  OBVIOUS
<1>2. /\ t \in Seq(Int) /\ Len(t) = Len(s) + Len(b)
      /\ \A i \in 1..(Len(s) + Len(b)) : t[i] = IF i <= Len(s) THEN s[i] ELSE b[i - Len(s)]
  BY ConcatProperties
<1>3. Joined(s, b) = t
  BY DEF Joined
<1> HIDE DEF t
<1>4. ASSUME NEW i \in 1..Len(b) PROVE t[Len(s) + i] = b[i]
  <2>1. Len(s) + i \in 1..(Len(s) + Len(b)) /\ ~(Len(s) + i <= Len(s)) /\ Len(s) + i - Len(s) = i
    BY <1>1
  <2>. QED
    BY <1>2, <2>1
<1>5. Holds(t, Len(s), b)
  BY <1>1, <1>2, <1>4 DEF Holds
<1>6. ASSUME NEW p \in Nat, NEW c \in Seq(Int), Holds(s, p, c) PROVE Holds(t, p, c)
  <2>1. Len(c) \in Nat /\ p + Len(c) <= Len(s) /\ \A i \in 1..Len(c) : s[p + i] = c[i]
    BY <1>6 DEF Holds
  <2>2. ASSUME NEW i \in 1..Len(c) PROVE t[p + i] = c[i]
    <3>1. p + i \in 1..(Len(s) + Len(b)) /\ p + i <= Len(s)
      BY <1>1, <2>1
    <3>. QED
      BY <1>2, <2>1, <3>1
  <2>3. p + Len(c) <= Len(t)
    BY <1>1, <1>2, <2>1
  <2>. QED
    BY <2>2, <2>3 DEF Holds
<1> QED
  BY <1>2, <1>3, <1>5, <1>6

LEMMA HoldsParts ==
  ASSUME NEW s \in Seq(Int), NEW p \in Nat, NEW a \in Seq(Int), NEW b \in Seq(Int),
         Holds(s, p, Joined(a, b))
  PROVE  Holds(s, p, a) /\ Holds(s, p + Len(a), b)
<1> DEFINE t == a \o b
<1>1. Len(a) \in Nat /\ Len(b) \in Nat /\ Len(s) \in Nat
  OBVIOUS
<1>2. /\ t \in Seq(Int) /\ Len(t) = Len(a) + Len(b)
      /\ \A i \in 1..(Len(a) + Len(b)) : t[i] = IF i <= Len(a) THEN a[i] ELSE b[i - Len(a)]
  BY ConcatProperties
<1>3. p + Len(t) <= Len(s) /\ \A i \in 1..Len(t) : s[p + i] = t[i]
  BY DEF Joined, Holds
<1> HIDE DEF t
<1>4. ASSUME NEW i \in 1..Len(a) PROVE s[p + i] = a[i]
  <2>1. i \in 1..(Len(a) + Len(b)) /\ i <= Len(a) /\ i \in 1..Len(t)
    BY <1>1, <1>2
  <2>. QED
    BY <1>2, <1>3, <2>1
<1>5. ASSUME NEW i \in 1..Len(b) PROVE s[p + Len(a) + i] = b[i]
  <2> DEFINE j == Len(a) + i
  <2>1. j \in 1..(Len(a) + Len(b)) /\ ~(j <= Len(a)) /\ j \in 1..Len(t) /\ j - Len(a) = i
        /\ p + j = p + Len(a) + i
    BY <1>1, <1>2
  <2> HIDE DEF j
  <2>. QED
    BY <1>2, <1>3, <2>1
<1>6. p + Len(a) <= Len(s) /\ p + Len(a) + Len(b) <= Len(s)
  BY <1>1, <1>2, <1>3
<1> QED
  BY <1>4, <1>5, <1>6 DEF Holds

(* What the reader gets where bytes are. *)
LEMMA GotIs ==
  ASSUME file \in Seq(Int), pos \in Nat, NEW b \in Seq(Int), Holds(file, pos, b)
  PROVE  /\ ~Short(Len(b)) /\ Got(Len(b)) = b
         /\ Read(Len(b)) => pos' = pos + Len(b) /\ (~left => ~left')
<1> DEFINE n == Len(b)
           s == SubSeq(file, pos + 1, pos + n)
<1>1. n \in Nat /\ Len(file) \in Nat /\ pos + n <= Len(file) /\ \A i \in 1..n : file[pos + i] = b[i]
  BY DEF Holds
<1>2. ~Short(n)
  BY <1>1 DEF Short
<1>3. \A i \in (pos + 1)..(pos + n) : file[i] \in Int
  BY <1>1
<1>4. /\ s \in Seq(Int) /\ Len(s) = (IF pos + 1 <= pos + n THEN pos + n - (pos + 1) + 1 ELSE 0)
      /\ \A i \in 1..(pos + n - (pos + 1) + 1) : s[i] = file[pos + 1 + i - 1]
  BY <1>1, <1>3, SubSeqProperties
<1> HIDE DEF s
<1>5. Len(s) = n
  <2>1. (IF pos + 1 <= pos + n THEN pos + n - (pos + 1) + 1 ELSE 0) = n
    BY <1>1
  <2>. QED
    BY <1>4, <2>1
<1>6. ASSUME NEW i \in 1..n PROVE s[i] = b[i]
  <2>1. i \in 1..(pos + n - (pos + 1) + 1) /\ pos + 1 + i - 1 = pos + i
    BY <1>1
  <2>. QED
    BY <1>1, <1>4, <2>1
<1>7. s = b
  BY <1>4, <1>5, <1>6, SeqEqual
<1>8. Got(n) = b
  BY <1>2, <1>7 DEF Got, s
<1>9. Read(n) => pos' = pos + n /\ (~left => ~left')
  BY <1>2 DEF Read
<1> QED
  BY <1>2, <1>8, <1>9

-----------------------------------------------------------------------------
(* The way of the writer through the file: the places it came by, each     *)
(* with what was left to write there.                                      *)

Place(a, p) == [agenda |-> a, at |-> p]

Next_Place(w) == Place(After(w.agenda), w.at + Len(Bytes(Head(w.agenda))))

Way(W, s, last) ==
  /\ W \subseteq [agenda : Seq(Writes(object)), at : Nat]
  /\ Place(<<ObjectTask(object)>>, 0) \in W
  /\ \A w \in W : \/ w = last
                  \/ /\ w.agenda # << >> /\ Holds(s, w.at, Bytes(Head(w.agenda)))
                     /\ Next_Place(w) \in W

LEMMA SamePlaces ==
  ASSUME layout' = layout, NEW CONSTANT w
  PROVE  Next_Place(w)' = Next_Place(w)
BY DEF Next_Place, After, Follows, CodeLongs, CodeTasks

WInv ==
  /\ phase \in {"write", "written"} => ~cut
  /\ written /\ ~cut => /\ phase \notin {"write", "undefined"} => agenda = << >>
                        /\ \E W : Way(W, file, Place(agenda, Len(file)))

LEMMA WayInit == Init /\ TInv => WInv
<1> SUFFICES ASSUME Init, TInv PROVE WInv
  OBVIOUS
<1>1. cut = FALSE
  BY DEF Init
<1>2. CASE written
  <2>1. phase = "write" /\ agenda = <<ObjectTask(object)>> /\ file = << >>
    BY <1>2 DEF Init
  <2> DEFINE w == Place(<<ObjectTask(object)>>, 0)
             W == {w}
  <2>2. agenda \in Seq(Writes(object))
    BY <2>1 DEF TInv
  <2>3. W \subseteq [agenda : Seq(Writes(object)), at : Nat]
    BY <2>1, <2>2 DEF Place
  <2>4. Len(file) = 0
    BY <2>1
  <2>5. w = Place(agenda, Len(file))
    BY <2>1, <2>4
  <2>6. Way(W, file, Place(agenda, Len(file)))
    BY <2>3, <2>5 DEF Way
  <2>. QED
    BY <1>1, <2>1, <2>6 DEF WInv
<1>3. CASE ~written
  BY <1>1, <1>3 DEF WInv
<1> QED
  BY <1>2, <1>3

LEMMA WayPuts == ASSUME TInv, WInv, Puts PROVE WInv'
<1>1. /\ object \in Objects /\ agenda \in Seq(Writes(object)) /\ agenda # << >>
      /\ After(agenda) \in Seq(Writes(object)) /\ Bytes(Head(agenda)) \in Seq(Int)
      /\ file \in Seq(Int) /\ layout \in Layouts
  BY AgendaOk DEF Puts
<1>2. /\ phase = "write" /\ phase' \in {"write", "undefined"} /\ written /\ ~cut
      /\ UNCHANGED <<object, layout, written, cut>>
  BY DEF Puts, TInv, WInv
<1>3. PICK W : Way(W, file, Place(agenda, Len(file)))
  BY <1>2 DEF WInv
<1> DEFINE b == Bytes(Head(agenda))
           last == Place(agenda, Len(file))
           new == Place(agenda', Len(file'))
           V == W \cup {new}
<1>4. file' = Joined(file, b) /\ agenda' = After(agenda)
  BY DEF Puts, Joined
<1>5. /\ Len(file') = Len(file) + Len(b) /\ Holds(file', Len(file), b)
      /\ \A p \in Nat, c \in Seq(Int) : Holds(file, p, c) => Holds(file', p, c)
  BY <1>1, <1>4, HoldsJoined
<1>6. Len(file) \in Nat /\ Len(b) \in Nat
  BY <1>1
<1>7. Next_Place(last) = new
  BY <1>4, <1>5 DEF Next_Place, Place
<1>8. new \in [agenda : Seq(Writes(object)), at : Nat]
  BY <1>1, <1>4, <1>5, <1>6 DEF Place
<1>9. last.agenda = agenda /\ last.at = Len(file)
  BY DEF Place
<1>10. \A t \in Writes(object) : Bytes(t) \in Seq(Int)
  BY <1>1, BytesType
<1> HIDE DEF last, new, b
<1>11. ASSUME NEW w \in V
       PROVE  \/ w = new
              \/ /\ w.agenda # << >> /\ Holds(file', w.at, Bytes(Head(w.agenda)))
                 /\ Next_Place(w) \in V
  <2>1. CASE w = new
    BY <2>1
  <2>2. CASE w = last
    BY <1>1, <1>5, <1>7, <1>9, <2>2 DEF b
  <2>3. CASE w # new /\ w # last
    <3>1. w \in W
      BY <2>3
    <3>2. w.agenda # << >> /\ Holds(file, w.at, Bytes(Head(w.agenda))) /\ Next_Place(w) \in W
      BY <1>3, <2>3, <3>1 DEF Way, last
    <3>3. w.agenda \in Seq(Writes(object)) /\ w.at \in Nat
      BY <1>3, <3>1 DEF Way
    <3>4. Bytes(Head(w.agenda)) \in Seq(Int)
      BY <1>10, <3>2, <3>3, HeadTailProperties
    <3>. QED
      BY <1>5, <3>2, <3>3, <3>4
  <2>. QED
    BY <2>1, <2>2, <2>3
<1>12. V \subseteq [agenda : Seq(Writes(object)), at : Nat] /\ Place(<<ObjectTask(object)>>, 0) \in V
  BY <1>3, <1>8 DEF Way
<1>13. \A w \in V : Next_Place(w)' = Next_Place(w)
  BY <1>2, SamePlaces
<1> HIDE DEF V
<1>14. PICK U : U = V
  OBVIOUS
<1>15. Way(U, file, Place(agenda, Len(file)))'
  BY <1>2, <1>11, <1>12, <1>13, <1>14 DEF Way, new
<1> QED
  BY <1>2, <1>15 DEF WInv

LEMMA WayKept ==
  ASSUME WInv, UNCHANGED writer,
         phase' \notin {"write", "undefined"} => agenda = << >> \/ phase \notin {"write", "undefined"},
         phase' \in {"write", "written"} => phase \in {"write", "written"}
  PROVE  WInv'
<1>1. UNCHANGED <<object, written, layout, agenda, file, cut>>
  BY DEF writer
<1>2. CASE written /\ ~cut
  <2>1. PICK W : Way(W, file, Place(agenda, Len(file)))
    BY <1>2 DEF WInv
  <2>2. \A w \in W : Next_Place(w)' = Next_Place(w)
    BY <1>1, SamePlaces
  <2>3. Way(W, file, Place(agenda, Len(file)))'
    BY <1>1, <2>1, <2>2 DEF Way
  <2>. QED
    BY <1>1, <1>2, <2>3 DEF WInv
<1>3. CASE ~(written /\ ~cut)
  BY <1>1, <1>3 DEF WInv
<1> QED
  BY <1>2, <1>3

LEMMA WayOpen ==
  ASSUME TInv, WInv, NEW n \in 0..Len(file), NEW s \in {"file", "memory"}, Open(n, s)
  PROVE  WInv'
<1>1. phase = "written" /\ phase' = "read" /\ UNCHANGED <<object, written, layout, agenda>>
      /\ file' = SubSeq(file, 1, n) /\ cut' = (n < Len(file)) /\ file \in Seq(Int)
  BY DEF Open, TInv
<1>2. CASE n < Len(file)
  BY <1>1, <1>2 DEF WInv
<1>3. CASE n = Len(file) /\ written
  <2>1. file' = file
    BY <1>1, <1>3, SubSeqFull
  <2>2. ~cut /\ agenda = << >>
    BY <1>1, <1>3 DEF WInv
  <2>3. PICK W : Way(W, file, Place(agenda, Len(file)))
    BY <1>3, <2>2 DEF WInv
  <2>4. \A w \in W : Next_Place(w)' = Next_Place(w)
    BY <1>1, SamePlaces
  <2>5. Way(W, file, Place(agenda, Len(file)))'
    BY <1>1, <2>1, <2>3, <2>4 DEF Way
  <2>. QED
    BY <1>1, <2>2, <2>5 DEF WInv
<1>4. CASE ~written
  BY <1>1, <1>4 DEF WInv
<1>5. n < Len(file) \/ n = Len(file)
  <2>1. Len(file) \in Nat
    BY <1>1
  <2>. QED
    BY <2>1
<1> QED
  BY <1>2, <1>3, <1>4, <1>5

(* The next place on the way. *)
LEMMA WayNext ==
  ASSUME object \in Objects, layout \in Layouts, NEW W, NEW b,
         Way(W, b, Place(<< >>, Len(b))), NEW a, NEW p, Place(a, p) \in W
  PROVE  /\ a \in Seq(Writes(object)) /\ p \in Nat
         /\ a # << >> => /\ Head(a) \in Writes(object)
                         /\ Holds(b, p, Bytes(Head(a))) /\ Bytes(Head(a)) \in Seq(Int)
                         /\ Place(After(a), p + Len(Bytes(Head(a)))) \in W
         /\ a = << >> => p = Len(b)
<1> DEFINE w == Place(a, p)
<1>1. w.agenda = a /\ w.at = p
  BY DEF Place
<1>2. Place(<< >>, Len(b)).agenda = << >> /\ Place(<< >>, Len(b)).at = Len(b)
  BY DEF Place
<1> HIDE DEF w
<1>3. w \in W
  BY DEF w
<1>4. a \in Seq(Writes(object)) /\ p \in Nat
  BY <1>1, <1>3 DEF Way
<1>5. \/ w = Place(<< >>, Len(b))
      \/ /\ w.agenda # << >> /\ Holds(b, w.at, Bytes(Head(w.agenda)))
         /\ Next_Place(w) \in W
  BY <1>3 DEF Way
<1>6. a = << >> => p = Len(b)
  BY <1>1, <1>2, <1>5
<1>7. ASSUME a # << >>
      PROVE  /\ Head(a) \in Writes(object)
             /\ Holds(b, p, Bytes(Head(a))) /\ Bytes(Head(a)) \in Seq(Int)
             /\ Place(After(a), p + Len(Bytes(Head(a)))) \in W
  <2>1. Holds(b, p, Bytes(Head(a))) /\ Next_Place(w) \in W
    BY <1>1, <1>2, <1>5, <1>7
  <2>2. Head(a) \in Writes(object)
    BY <1>4, <1>7, HeadTailProperties
  <2>3. Bytes(Head(a)) \in Seq(Int)
    BY <2>2, BytesType
  <2>4. Next_Place(w) = Place(After(a), p + Len(Bytes(Head(a))))
    BY <1>1 DEF Next_Place
  <2>. QED
    BY <2>1, <2>2, <2>3, <2>4
<1> QED
  BY <1>4, <1>6, <1>7

-----------------------------------------------------------------------------
(* The reader on the way of the writer: the frame of generation g, counted *)
(* from the outermost one, has read dn[g] of what follows the type of      *)
(* ob[g], and ag[g] is to be read when ob[g] is complete.  The innermost   *)
(* frame has still to read r of what the object itself has written.        *)

AtTop(f, g, x, d, r) ==
  \/ Matched(f, g, x, d) /\ r = << >>
  \/ /\ d = 0 /\ f.type = x.type /\ f.parts = << >>
     /\ \/ /\ x.type \in {"string", "unicode"} /\ f.script = <<"bytes">>
           /\ r = Joined(LongBytes(Len(x.data)), x.data)
        \/ /\ x.type \in {"string", "unicode"} /\ f.script = <<"content">>
           /\ f.data = <<Len(x.data)>> /\ r = x.data /\ x.data # << >>

Linked(F, ob, dn, ag) ==
  /\ Len(F) \in 1..(Depth + 1) /\ ob[0] = object /\ ag[0] = << >>
  /\ \A g \in 0..(Len(F) - 1) : /\ ob[g] \in Generations(object)[g]
                                /\ dn[g] \in 0..Len(Follows(ob[g]))
                                /\ ag[g] \in Seq(Writes(object))
  /\ \A g \in 0..(Len(F) - 2) : /\ dn[g] < Len(Follows(ob[g]))
                                /\ Matched(F[Len(F) - g], g, ob[g], dn[g])
                                /\ Follows(ob[g])[dn[g] + 1] = ObjectTask(ob[g + 1])
                                /\ ag[g + 1] = Ahead(Follows(ob[g]), dn[g] + 1, ag[g])

Leads(W, b, p, f, g, x, d, a, r) ==
  /\ AtTop(f, g, x, d, r)
  /\ r \in Seq(Int) /\ p \in Nat /\ Holds(b, p, r)
  /\ Place(Ahead(Follows(x), d, a), p + Len(r)) \in W

Reading(W, b, F, p, ob, dn, ag, r) ==
  /\ Way(W, b, Place(<< >>, Len(b)))
  /\ Linked(F, ob, dn, ag)
  /\ Leads(W, b, p, F[1], Len(F) - 1, ob[Len(F) - 1], dn[Len(F) - 1], ag[Len(F) - 1], r)

Goes(b, F, p) == \E W, ob, dn, ag, r : Reading(W, b, F, p, ob, dn, ag, r)

Aims == written /\ ~cut /\ Writable(object)

RInv ==
  Aims =>
    /\ phase # "undefined" /\ ~left
    /\ phase = "done" => pos = Len(file) /\ \E o : o = object /\ result = Image(0, o)
    /\ phase = "read" /\ frames = << >> => pos = 0
    /\ phase = "read" /\ frames # << >> =>
         \E b, F, p : b = file /\ F = frames /\ p = pos /\ Goes(b, F, p)

LEMMA SameRestored ==
  ASSUME layout' = layout, NEW CONSTANT o
  PROVE  Restored(o)' = Restored(o)
<1>1. \A x, p : Kept(x, p)' = Kept(x, p)
  BY DEF Kept
<1> QED
  BY <1>1 DEF Restored

LEMMA SameImage ==
  ASSUME layout' = layout, object' = object, NEW CONSTANT g, NEW CONSTANT x
  PROVE  Image(g, x)' = Image(g, x)
BY SameRestored DEF Image

LEMMA SameWritable ==
  ASSUME layout' = layout, object' = object
  PROVE  Writable(object)' <=> Writable(object)
BY DEF Writable

LEMMA SameReading ==
  ASSUME layout' = layout, object' = object,
         NEW CONSTANT W, NEW CONSTANT b, NEW CONSTANT F, NEW CONSTANT p, NEW CONSTANT ob,
         NEW CONSTANT dn, NEW CONSTANT ag, NEW CONSTANT r
  PROVE  Reading(W, b, F, p, ob, dn, ag, r)' <=> Reading(W, b, F, p, ob, dn, ag, r)
<1>1. \A w : Next_Place(w)' = Next_Place(w)
  BY SamePlaces
<1>2. Way(W, b, Place(<< >>, Len(b)))' <=> Way(W, b, Place(<< >>, Len(b)))
  BY <1>1 DEF Way
<1>3. ASSUME NEW CONSTANT x PROVE Follows(x)' = Follows(x)
  BY DEF Follows, CodeLongs, CodeTasks
<1>4. ASSUME NEW CONSTANT f, NEW CONSTANT g, NEW CONSTANT x, NEW CONSTANT d
      PROVE  Matched(f, g, x, d)' <=> Matched(f, g, x, d)
  <2>1. Plan(x)' = Plan(x)
    BY DEF Plan
  <2>2. ScriptAt(x, d)' = ScriptAt(x, d)
    BY <2>1 DEF ScriptAt
  <2>3. Longs(x)' = Longs(x)
    BY DEF Longs, CodeLongs
  <2>4. LongsDone(x, d)' = LongsDone(x, d)
    BY DEF LongsDone
  <2>5. PartsDone(x, d)' = PartsDone(x, d)
    BY DEF PartsDone
  <2>6. Images(g, x)' = Images(g, x)
    BY SameImage DEF Images
  <2>. QED
    BY <2>2, <2>3, <2>4, <2>5, <2>6 DEF Matched
<1>5. Linked(F, ob, dn, ag)' <=> Linked(F, ob, dn, ag)
  BY <1>3, <1>4 DEF Linked
<1>6. ASSUME NEW CONSTANT f, NEW CONSTANT g, NEW CONSTANT x, NEW CONSTANT d, NEW CONSTANT a
      PROVE  Leads(W, b, p, f, g, x, d, a, r)' <=> Leads(W, b, p, f, g, x, d, a, r)
  <2>1. AtTop(f, g, x, d, r)' <=> AtTop(f, g, x, d, r)
    BY <1>4 DEF AtTop
  <2>. QED
    BY <1>3, <2>1 DEF Leads
<1> QED
  BY <1>2, <1>5, <1>6 DEF Reading

LEMMA WayHolds == TInv /\ WInv /\ [Next]_vars => WInv'
<1> SUFFICES ASSUME TInv, WInv, [Next]_vars PROVE WInv'
  OBVIOUS
<1>1. CASE WriteObject \/ WriteLong
  BY <1>1, WriterPuts, WayPuts
<1>2. CASE Written
  BY <1>2, WayKept DEF Written
<1>3. CASE \E n \in 0..Len(file), s \in {"file", "memory"} : Open(n, s)
  BY <1>3, WayOpen
<1>4. CASE ReadRoot \/ ReadPart
  <2>1. phase = "read" /\ UNCHANGED <<phase, writer>>
    BY <1>4 DEF ReadRoot, ReadPart, Begin, Wants
  <2>. QED
    BY <2>1, WayKept
<1>5. CASE ReadLong \/ SkipLong \/ ReadFloat \/ ReadContent
  <2>1. phase = "read" /\ UNCHANGED <<phase, writer>>
    BY <1>5 DEF ReadLong, SkipLong, ReadFloat, ReadContent, Wants
  <2>. QED
    BY <2>1, WayKept
<1>6. CASE ReadLength
  <2>1. phase = "read" /\ phase' \in {"read", "undefined"} /\ UNCHANGED writer
    BY <1>6 DEF ReadLength, Wants
  <2>. QED
    BY <2>1, WayKept
<1>7. CASE Return
  <2>1. phase = "read" /\ phase' \in {"read", "done", "undefined"} /\ UNCHANGED writer
    <3>1. phase = "read" /\ UNCHANGED writer
      BY <1>7 DEF Return
    <3>2. phase' \in {"read", "done", "undefined"}
      BY <1>7 DEF Return
    <3>. QED
      BY <3>1, <3>2
  <2>. QED
    BY <2>1, WayKept
<1>8. CASE UNCHANGED vars
  <2>1. UNCHANGED writer /\ phase' = phase
    BY <1>8 DEF vars, writer
  <2>2. CASE phase = "write"
    BY <2>1, <2>2, WayKept
  <2>3. CASE phase # "write"
    BY <2>1, <2>3, WayKept
  <2>. QED
    BY <2>2, <2>3
<1> QED
  BY <1>1, <1>2, <1>3, <1>4, <1>5, <1>6, <1>7, <1>8 DEF Next

-----------------------------------------------------------------------------
(* One level of the reader: the frame f of an object x of generation g.    *)

At(W, b, g, x, d, a) ==
  /\ Way(W, b, Place(<< >>, Len(b)))
  /\ g \in 0..Depth /\ x \in Generations(object)[g]
  /\ d \in 0..Len(Follows(x)) /\ a \in Seq(Writes(object))

LEMMA TopIs ==
  ASSUME object \in Objects, layout \in Layouts, NEW W, NEW b, NEW F, NEW p, NEW ob, NEW dn,
         NEW ag, NEW r, Reading(W, b, F, p, ob, dn, ag, r), NEW g, g = Len(F) - 1
  PROVE  /\ At(W, b, g, ob[g], dn[g], ag[g])
         /\ Leads(W, b, p, F[1], g, ob[g], dn[g], ag[g], r)
<1>1. Len(F) \in 1..(Depth + 1) /\ Depth \in Nat
  BY SizesAssumption DEF Reading, Linked
<1>2. g \in 0..Depth /\ g \in 0..(Len(F) - 1)
  BY <1>1
<1>3. /\ ob[g] \in Generations(object)[g] /\ dn[g] \in 0..Len(Follows(ob[g]))
      /\ ag[g] \in Seq(Writes(object))
  BY <1>2 DEF Reading, Linked
<1> QED
  BY <1>2, <1>3 DEF Reading, At

LEMMA AtIs ==
  ASSUME object \in Objects, layout \in Layouts, NEW W, NEW b, NEW g, NEW x, NEW d, NEW a,
         At(W, b, g, x, d, a)
  PROVE  /\ x \in Nodes(object) /\ Sound(x) /\ d \in 0..Len(Follows(x)) /\ d \in Nat
         /\ Follows(x) \in Seq(Writes(object)) /\ Len(Follows(x)) \in Nat
<1>1. x \in Nodes(object) /\ Sound(x)
  BY ChildOf DEF At
<1>2. Follows(x) \in Seq(Writes(object))
  BY <1>1, FollowsType
<1>3. Len(Follows(x)) \in Nat
  BY <1>2, LenProperties
<1>4. d \in 0..Len(Follows(x))
  BY DEF At
<1> QED
  BY <1>1, <1>2, <1>3, <1>4

(* The innermost frame goes on. *)
LEMMA TopMoves ==
  ASSUME object \in Objects, layout \in Layouts, NEW W, NEW b, NEW F, NEW p, NEW ob, NEW dn,
         NEW ag, NEW r, Reading(W, b, F, p, ob, dn, ag, r), NEW g, g = Len(F) - 1,
         IsSeq(F), F # << >>, NEW f, NEW d \in 0..Len(Follows(ob[g])), NEW q, NEW s,
         Leads(W, b, q, f, g, ob[g], d, ag[g], s)
  PROVE  Goes(b, Topped(f, F), q)
<1> DEFINE G == Topped(f, F)
           en == [h \in 0..g |-> IF h = g THEN d ELSE dn[h]]
<1>1. Len(F) \in 1..(Depth + 1) /\ Depth \in Nat
  BY SizesAssumption DEF Reading, Linked
<1>2. Len(G) = Len(F) /\ G[1] = f /\ \A i \in 2..Len(F) : G[i] = F[i]
  BY TopOf
<1>3. g \in Nat /\ en[g] = d /\ \A h \in 0..(g - 1) : en[h] = dn[h]
  BY <1>1
<1> HIDE DEF G, en
<1>4. ASSUME NEW h \in 0..(Len(F) - 1)
      PROVE  /\ ob[h] \in Generations(object)[h]
             /\ en[h] \in 0..Len(Follows(ob[h])) /\ ag[h] \in Seq(Writes(object))
  <2>1. /\ ob[h] \in Generations(object)[h] /\ dn[h] \in 0..Len(Follows(ob[h]))
        /\ ag[h] \in Seq(Writes(object))
    BY DEF Reading, Linked
  <2>2. h = g \/ h \in 0..(g - 1)
    BY <1>1
  <2>. QED
    BY <1>3, <2>1, <2>2
<1>5. ASSUME NEW h \in 0..(Len(F) - 2)
      PROVE  /\ en[h] < Len(Follows(ob[h]))
             /\ Matched(G[Len(F) - h], h, ob[h], en[h])
             /\ Follows(ob[h])[en[h] + 1] = ObjectTask(ob[h + 1])
             /\ ag[h + 1] = Ahead(Follows(ob[h]), en[h] + 1, ag[h])
  <2>1. h \in 0..(g - 1) /\ Len(F) - h \in 2..Len(F)
    BY <1>1
  <2>2. en[h] = dn[h] /\ G[Len(F) - h] = F[Len(F) - h]
    BY <1>2, <1>3, <2>1
  <2>. QED
    BY <2>2 DEF Reading, Linked
<1>6. Linked(G, ob, en, ag)
  BY <1>1, <1>2, <1>4, <1>5 DEF Reading, Linked
<1>7. Leads(W, b, q, G[1], Len(G) - 1, ob[Len(G) - 1], en[Len(G) - 1], ag[Len(G) - 1], s)
  BY <1>2, <1>3
<1>8. Reading(W, b, G, q, ob, en, ag, s)
  BY <1>6, <1>7 DEF Reading
<1> QED
  BY <1>8 DEF Goes, G

(* A frame is put on it, for the object that is read next. *)
LEMMA Pushes ==
  ASSUME object \in Objects, layout \in Layouts, NEW W, NEW b, NEW F, NEW p, NEW ob, NEW dn,
         NEW ag, NEW r, Reading(W, b, F, p, ob, dn, ag, r), NEW g, g = Len(F) - 1,
         IsSeq(F), NEW x, x = ob[g], NEW d, d = dn[g], d < Len(Follows(x)),
         Matched(F[1], g, x, d), NEW y \in Children(x), Follows(x)[d + 1] = ObjectTask(y),
         NEW a \in Seq(Writes(object)), a = Ahead(Follows(x), d + 1, ag[g]),
         NEW f, NEW e \in 0..Len(Follows(y)), NEW q, NEW s,
         Leads(W, b, q, f, g + 1, y, e, a, s)
  PROVE  Goes(b, Pushed(f, F), q)
<1> DEFINE G == Pushed(f, F)
           oc == [h \in 0..(g + 1) |-> IF h = g + 1 THEN y ELSE ob[h]]
           en == [h \in 0..(g + 1) |-> IF h = g + 1 THEN e ELSE dn[h]]
           ah == [h \in 0..(g + 1) |-> IF h = g + 1 THEN a ELSE ag[h]]
<1>1. Len(F) \in 1..(Depth + 1) /\ Depth \in Nat
  BY SizesAssumption DEF Reading, Linked
<1>2. Len(G) = Len(F) + 1 /\ G[1] = f /\ \A i \in 2..(Len(F) + 1) : G[i] = F[i - 1]
  BY PushOf
<1>3. /\ g \in Nat /\ g \in 0..Depth /\ g \in 0..(Len(F) - 1)
      /\ oc[g + 1] = y /\ en[g + 1] = e /\ ah[g + 1] = a
      /\ \A h \in 0..g : oc[h] = ob[h] /\ en[h] = dn[h] /\ ah[h] = ag[h]
  BY <1>1
<1> HIDE DEF G, oc, en, ah
<1>4. x \in Generations(object)[g]
  BY <1>3 DEF Reading, Linked
<1>5. g < Depth /\ y \in Generations(object)[g + 1]
  BY <1>3, <1>4, ChildOf
<1>6. ASSUME NEW h \in 0..(Len(G) - 1)
      PROVE  /\ oc[h] \in Generations(object)[h]
             /\ en[h] \in 0..Len(Follows(oc[h])) /\ ah[h] \in Seq(Writes(object))
  <2>1. h = g + 1 \/ (h \in 0..g /\ h \in 0..(Len(F) - 1))
    BY <1>1, <1>2
  <2>2. CASE h = g + 1
    BY <1>3, <1>5, <2>2
  <2>3. CASE h \in 0..g /\ h \in 0..(Len(F) - 1)
    BY <1>3, <2>3 DEF Reading, Linked
  <2>. QED
    BY <2>1, <2>2, <2>3
<1>7. ASSUME NEW h \in 0..(Len(G) - 2)
      PROVE  /\ en[h] < Len(Follows(oc[h]))
             /\ Matched(G[Len(G) - h], h, oc[h], en[h])
             /\ Follows(oc[h])[en[h] + 1] = ObjectTask(oc[h + 1])
             /\ ah[h + 1] = Ahead(Follows(oc[h]), en[h] + 1, ah[h])
  <2> DEFINE m == Len(F)
             l == Len(G)
  <2>1. /\ h = g \/ h \in 0..(g - 1)
        /\ h \in 0..g /\ Len(G) - h \in 2..(Len(F) + 1) /\ Len(G) - h - 1 = Len(F) - h
    <3>1. m \in Nat /\ l = m + 1 /\ g = m - 1 /\ h \in 0..(l - 2)
      BY <1>1, <1>2
    <3> HIDE DEF m, l
    <3>2. /\ h = g \/ h \in 0..(g - 1)
          /\ h \in 0..g /\ l - h \in 2..(m + 1) /\ l - h - 1 = m - h
      BY <3>1
    <3>. QED
      BY <3>2 DEF m, l
  <2>2. oc[h] = ob[h] /\ en[h] = dn[h] /\ ah[h] = ag[h] /\ G[Len(G) - h] = F[Len(F) - h]
    BY <1>2, <1>3, <2>1
  <2>3. CASE h = g
    <3>1. Len(F) - h = 1
      BY <1>1, <2>3
    <3>. QED
      BY <1>3, <2>2, <2>3, <3>1
  <2>4. CASE h \in 0..(g - 1)
    <3>1. h \in 0..(Len(F) - 2) /\ h + 1 \in 0..g
      BY <1>1, <2>4
    <3>2. oc[h + 1] = ob[h + 1] /\ ah[h + 1] = ag[h + 1]
      BY <1>3, <3>1
    <3>. QED
      BY <2>2, <3>1, <3>2 DEF Reading, Linked
  <2>. QED
    BY <2>1, <2>3, <2>4
<1>8. Linked(G, oc, en, ah)
  <2>1. Len(G) \in 1..(Depth + 1)
    BY <1>1, <1>2, <1>5
  <2>2. oc[0] = object /\ ah[0] = << >>
    BY <1>3 DEF Reading, Linked
  <2>. QED
    BY <1>6, <1>7, <2>1, <2>2 DEF Linked
<1>9. Leads(W, b, q, G[1], Len(G) - 1, oc[Len(G) - 1], en[Len(G) - 1], ah[Len(G) - 1], s)
  <2>1. Len(G) - 1 = g + 1
    BY <1>1, <1>2
  <2>. QED
    BY <1>2, <1>3, <2>1
<1>10. Reading(W, b, G, q, oc, en, ah, s)
  BY <1>8, <1>9 DEF Reading
<1> QED
  BY <1>10 DEF Goes, G

(* The innermost object is complete, and the one it is part of goes on. *)
LEMMA Pops ==
  ASSUME object \in Objects, layout \in Layouts, NEW W, NEW b, NEW F, NEW p, NEW ob, NEW dn,
         NEW ag, NEW r, Reading(W, b, F, p, ob, dn, ag, r), IsSeq(F), Len(F) # 1,
         b \in Seq(Int), NEW g, g = Len(F) - 1,
         dn[g] = Len(Follows(ob[g])), r = << >>,
         NEW f, Matched(f, g - 1, ob[g - 1], dn[g - 1] + 1)
  PROVE  Goes(b, Popped(f, F), p)
<1> DEFINE G == Popped(f, F)
           k == g - 1
           en == [h \in 0..k |-> IF h = k THEN dn[k] + 1 ELSE dn[h]]
<1>1. Len(F) \in 1..(Depth + 1) /\ Depth \in Nat
  BY SizesAssumption DEF Reading, Linked
<1>2. F # << >>
  BY <1>1
<1>3. Len(G) = Len(F) - 1 /\ G[1] = f /\ \A i \in 2..(Len(F) - 1) : G[i] = F[i + 1]
  BY <1>2, PopOf
<1>4. /\ k \in Nat /\ k + 1 = g /\ g \in 0..(Len(F) - 1) /\ k \in 0..(Len(F) - 2)
      /\ k \in 0..(Len(F) - 1) /\ g \in 0..Depth
      /\ en[k] = dn[k] + 1 /\ \A h \in 0..(k - 1) : en[h] = dn[h]
  BY <1>1
<1>5. /\ ob[k] \in Generations(object)[k] /\ dn[k] \in 0..Len(Follows(ob[k]))
      /\ ag[k] \in Seq(Writes(object)) /\ dn[k] < Len(Follows(ob[k]))
      /\ ag[k + 1] = Ahead(Follows(ob[k]), dn[k] + 1, ag[k])
  BY <1>4 DEF Reading, Linked
<1> HIDE DEF G, k, en
<1>6. Len(Follows(ob[k])) \in Nat
  <2>1. k \in 0..Depth
    BY <1>1, <1>4
  <2>2. ob[k] \in Nodes(object)
    BY <1>5, <2>1, ChildOf
  <2>. QED
    BY <2>2, FollowsType, LenProperties
<1>7. dn[k] + 1 \in 0..Len(Follows(ob[k]))
  BY <1>5, <1>6
<1>8. ASSUME NEW h \in 0..(Len(G) - 1)
      PROVE  /\ ob[h] \in Generations(object)[h]
             /\ en[h] \in 0..Len(Follows(ob[h])) /\ ag[h] \in Seq(Writes(object))
  <2>1. h \in 0..(Len(F) - 1) /\ (h = k \/ h \in 0..(k - 1))
    BY <1>1, <1>3, <1>4
  <2>2. /\ ob[h] \in Generations(object)[h] /\ dn[h] \in 0..Len(Follows(ob[h]))
        /\ ag[h] \in Seq(Writes(object))
    BY <2>1 DEF Reading, Linked
  <2>. QED
    BY <1>4, <1>7, <2>1, <2>2
<1>9. ASSUME NEW h \in 0..(Len(G) - 2)
      PROVE  /\ en[h] < Len(Follows(ob[h]))
             /\ Matched(G[Len(G) - h], h, ob[h], en[h])
             /\ Follows(ob[h])[en[h] + 1] = ObjectTask(ob[h + 1])
             /\ ag[h + 1] = Ahead(Follows(ob[h]), en[h] + 1, ag[h])
  <2>1. /\ h \in 0..(k - 1) /\ h \in 0..(Len(F) - 2) /\ Len(G) - h \in 2..(Len(F) - 1)
        /\ Len(G) - h + 1 = Len(F) - h
    BY <1>1, <1>3, <1>4
  <2>2. en[h] = dn[h] /\ G[Len(G) - h] = F[Len(F) - h]
    BY <1>3, <1>4, <2>1
  <2>. QED
    BY <2>1, <2>2 DEF Reading, Linked
<1>10. Linked(G, ob, en, ag)
  <2>1. Len(G) \in 1..(Depth + 1)
    BY <1>1, <1>3
  <2>. QED
    BY <1>8, <1>9, <2>1 DEF Reading, Linked
<1>11. Leads(W, b, p, f, k, ob[k], dn[k] + 1, ag[k], << >>)
  <2>1. At(W, b, g, ob[g], dn[g], ag[g]) /\ Leads(W, b, p, F[1], g, ob[g], dn[g], ag[g], r)
    BY TopIs
  <2>2. Follows(ob[g]) \in Seq(Writes(object)) /\ dn[g] \in 0..Len(Follows(ob[g]))
    BY <2>1, AtIs
  <2>3. ag[g] \in Seq(Writes(object))
    BY <2>1 DEF At
  <2>4. Ahead(Follows(ob[g]), dn[g], ag[g]) = ag[g]
    BY <2>2, <2>3, AheadOf
  <2>5. p \in Nat /\ Holds(b, p, << >>) /\ Place(ag[g], p + Len(r)) \in W
    BY <2>1, <2>4 DEF Leads
  <2>6. Len(r) = 0 /\ << >> \in Seq(Int) /\ p + Len(r) = p
    BY <2>5
  <2>7. Place(Ahead(Follows(ob[k]), dn[k] + 1, ag[k]), p + Len(r)) \in W
    BY <1>4, <1>5, <2>5
  <2>8. AtTop(f, k, ob[k], dn[k] + 1, << >>)
    BY DEF AtTop, k
  <2>. QED
    BY <2>5, <2>6, <2>7, <2>8 DEF Leads
<1>12. Leads(W, b, p, G[1], Len(G) - 1, ob[Len(G) - 1], en[Len(G) - 1], ag[Len(G) - 1], << >>)
  <2>1. Len(G) - 1 = k
    BY <1>1, <1>3, <1>4
  <2>. QED
    BY <1>3, <1>4, <1>11, <2>1
<1>13. Reading(W, b, G, p, ob, en, ag, << >>)
  BY <1>10, <1>12 DEF Reading
<1> QED
  BY <1>13 DEF Goes, G

(* The outermost frame. *)
LEMMA Starts ==
  ASSUME object \in Objects, layout \in Layouts, NEW W, NEW b, NEW f, NEW q, NEW s,
         Way(W, b, Place(<< >>, Len(b))), Leads(W, b, q, f, 0, object, 0, << >>, s)
  PROVE  Goes(b, Pushed(f, << >>), q)
<1> DEFINE G == Pushed(f, << >>)
           ob == [h \in {0} |-> object]
           dn == [h \in {0} |-> 0]
           ag == [h \in {0} |-> << >>]
<1>1. Depth \in Nat
  BY SizesAssumption
<1>2. Len(G) = 1 /\ G[1] = f
  <2>1. IsSeq(<< >>) /\ Len(<< >>) = 0
    BY StackEmpty DEF Stack
  <2>2. Len(G) = 0 + 1 /\ G[1] = f
    BY <2>1, PushOf
  <2>. QED
    BY <2>2
<1>3. ob[0] = object /\ dn[0] = 0 /\ ag[0] = << >>
  OBVIOUS
<1>4. Generations(object)[0] = {object}
  BY GenerationsIs
<1>5. 0 \in 0..Len(Follows(object))
  <2>1. object \in Nodes(object)
    BY <1>1, <1>4, ChildOf
  <2>2. Len(Follows(object)) \in Nat
    BY <2>1, FollowsType, LenProperties
  <2>. QED
    BY <2>2
<1> HIDE DEF G, ob, dn, ag
<1>6. Linked(G, ob, dn, ag)
  <2>1. Len(G) \in 1..(Depth + 1)
    BY <1>1, <1>2
  <2>2. 0..(Len(G) - 1) = {0} /\ 0..(Len(G) - 2) = {}
    BY <1>2
  <2>3. << >> \in Seq(Writes(object))
    OBVIOUS
  <2>. QED
    BY <1>3, <1>4, <1>5, <2>1, <2>2, <2>3 DEF Linked
<1>7. Leads(W, b, q, G[1], Len(G) - 1, ob[Len(G) - 1], dn[Len(G) - 1], ag[Len(G) - 1], s)
  <2>1. Len(G) - 1 = 0
    BY <1>2
  <2>. QED
    BY <1>2, <1>3, <2>1
<1>8. Reading(W, b, G, q, ob, dn, ag, s)
  BY <1>6, <1>7 DEF Reading
<1> QED
  BY <1>8 DEF Goes, G

-----------------------------------------------------------------------------
(* What the reader finds when it goes on with an object. *)
LEMMA NextTask ==
  ASSUME object \in Objects, layout \in Layouts, NEW W, NEW b, NEW g, NEW x, NEW d, NEW a,
         At(W, b, g, x, d, a), NEW p, NEW f, Leads(W, b, p, f, g, x, d, a, << >>),
         d < Len(Follows(x)), NEW t, t = Follows(x)[d + 1]
  PROVE  /\ Holds(b, p, Bytes(t)) /\ Bytes(t) \in Seq(Int) /\ p \in Nat
         /\ d + 1 \in 0..Len(Follows(x)) /\ Ahead(Follows(x), d + 1, a) \in Seq(Writes(object))
         /\ t.do = "long" =>
              Place(Ahead(Follows(x), d + 1, a), p + Len(Bytes(t))) \in W
         /\ t.do = "object" =>
              Place(Ahead(Follows(t.node), 0, Ahead(Follows(x), d + 1, a)), p + Len(Bytes(t))) \in W
<1> DEFINE s == Follows(x)
           A == Ahead(s, d, a)
           B == Ahead(s, d + 1, a)
           T == Writes(object)
<1>1. s \in Seq(T) /\ d \in 0..Len(s) /\ Len(s) \in Nat
  BY AtIs
<1>2. a \in Seq(T) /\ Way(W, b, Place(<< >>, Len(b)))
  BY DEF At
<1>3. Place(A, p) \in W
  <2>1. Place(A, p + Len(<< >>)) \in W /\ p \in Nat
    BY DEF Leads
  <2>2. Len(<< >>) = 0
    OBVIOUS
  <2>3. p + Len(<< >>) = p
    BY <2>1, <2>2
  <2>. QED
    BY <2>1, <2>3
<1>4. d + 1 \in 0..Len(s) /\ d < Len(s)
  BY <1>1
<1> HIDE DEF s, A, B, T
<1>5. A # << >> /\ Head(A) = s[d + 1] /\ Tail(A) = B /\ B \in Seq(T)
  <2>1. Ahead(s, d, a) # << >> /\ Head(Ahead(s, d, a)) = s[d + 1]
        /\ Tail(Ahead(s, d, a)) = Ahead(s, d + 1, a)
    BY <1>1, <1>2, <1>4, AheadOf
  <2>2. Ahead(s, d + 1, a) \in Seq(T)
    BY <1>1, <1>2, <1>4, AheadOf
  <2>. QED
    BY <2>1, <2>2 DEF A, B
<1>6. Head(A) = t
  BY <1>5 DEF s
<1>7. /\ Head(A) \in T /\ p \in Nat
      /\ Holds(b, p, Bytes(Head(A))) /\ Bytes(Head(A)) \in Seq(Int)
      /\ Place(After(A), p + Len(Bytes(Head(A)))) \in W
  BY <1>2, <1>3, <1>5, WayNext DEF T
<1>8. t.do = "long" => After(A) = B
  BY <1>5, <1>6 DEF After
<1>9. ASSUME t.do = "object" PROVE After(A) = Ahead(Follows(t.node), 0, B)
  <2>1. After(A) = Follows(t.node) \o B
    BY <1>5, <1>6, <1>9 DEF After
  <2>2. t.node \in Nodes(object)
    BY <1>6, <1>7, <1>9, BytesType DEF T
  <2>3. Follows(t.node) \in Seq(T)
    BY <2>2, FollowsType DEF T
  <2>4. Rest(Follows(t.node), 0) = Follows(t.node)
    <3>1. 0 \in 0..Len(Follows(t.node))
      BY <2>3, LenProperties
    <3>. QED
      BY <2>3, <3>1, RestOf
  <2>. QED
    BY <2>1, <2>4 DEF Ahead
<1> QED
  BY <1>4, <1>5, <1>6, <1>7, <1>8, <1>9 DEF s, B, T

(* The frame of an object that begins. *)
LEMMA FrameIs ==
  ASSUME object \in Objects, layout \in Layouts, Writable(object), NEW y \in Nodes(object),
         NEW l, y.type = "code" => l = layout, NEW f, f = Frame(TypeOf(Char(y.type)), l), NEW g
  PROVE  AtTop(f, g, y, 0, Payload(y))
<1>1. Sound(y)
  BY NodeOf
<1>2. /\ f.type = TypeOf(Char(y.type)) /\ f.layout = l /\ f.data = << >> /\ f.parts = << >>
      /\ f.script = Script(TypeOf(Char(y.type)), l)
  BY DEF Frame
<1>3. /\ y.type \in {Types[c] : c \in DOMAIN Types} /\ y.data \in Seq(Int)
      /\ y.type \in {"none", "tuple"} => y.data = << >>
  BY <1>1 DEF Sound
<1>4. TypeOf(Char(y.type)) = IF y.type = "kv" THEN "unknown" ELSE y.type
  BY <1>3, CharType
<1>5. y.type \in {"none", "int", "float", "string", "unicode", "tuple", "code", "kv"}
  <2>1. DOMAIN Types = 1..8
    BY DEF Types
  <2>. QED
    BY <1>3, <2>1 DEF Types
<1>6. First(Longs(y), 0) = << >> /\ First(Images(g, y), 0) = << >>
  BY FirstOf
<1>7. LongsDone(y, 0) = 0 /\ PartsDone(y, 0) = 0
  BY DEF LongsDone, PartsDone
<1>8. CASE y.type = "float"
  BY <1>8 DEF Writable, Overruns
<1>9. CASE y.type \in {"string", "unicode"}
  <2>1. Payload(y) = Joined(LongBytes(Len(y.data)), y.data)
    <3>1. CASE y.type = "string"
      BY <3>1 DEF Payload, Joined
    <3>2. CASE y.type = "unicode"
      <4>1. Text(y.data) = y.data
        BY <1>3, <3>2, TextType DEF Writable
      <4>. QED
        BY <3>2, <4>1 DEF Payload, Joined
    <3>. QED
      BY <1>9, <3>1, <3>2
  <2>2. f.script = <<"bytes">> /\ f.type = y.type
    BY <1>2, <1>4, <1>9 DEF Script
  <2>. QED
    BY <1>2, <1>9, <2>1, <2>2 DEF AtTop
<1>10. CASE y.type \in {"none", "kv", "int", "code"}
  <2>1. Payload(y) = << >>
    BY <1>10 DEF Payload
  <2>2. f.script = Plan(y)
    BY <1>2, <1>4, <1>10 DEF Script, Plan
  <2>3. Rest(Plan(y), 0) = Plan(y)
    <3>1. PICK S : Plan(y) \in Seq(S)
      BY <1>10, PlanIs
    <3>2. 0 \in 0..Len(Plan(y))
      BY <3>1, LenProperties
    <3>. QED
      BY <3>1, <3>2, RestOf
  <2>4. Matched(f, g, y, 0)
    <3>1. f.script = ScriptAt(y, 0)
      BY <1>10, <2>2, <2>3 DEF ScriptAt
    <3>2. y.type = "code" => f.layout = layout
      BY <1>2
    <3>3. y.type # "kv" => f.data = IF y.type \in {"int", "code"} THEN First(Longs(y), LongsDone(y, 0))
                                    ELSE y.data
      BY <1>2, <1>3, <1>6, <1>7, <1>10
    <3>. QED
      BY <1>2, <1>6, <1>7, <3>1, <3>2, <3>3 DEF Matched
  <2>. QED
    BY <2>1, <2>4 DEF AtTop
<1>11. CASE y.type = "tuple"
  <2>1. Payload(y) = << >>
    BY <1>11 DEF Payload
  <2>2. f.script = ScriptAt(y, 0)
    BY <1>2, <1>4, <1>11 DEF Script, ScriptAt
  <2>3. f.data = y.data
    BY <1>2, <1>3, <1>11
  <2>4. Matched(f, g, y, 0)
    BY <1>2, <1>6, <1>7, <1>11, <2>2, <2>3 DEF Matched
  <2>. QED
    BY <2>1, <2>4 DEF AtTop
<1> QED
  BY <1>5, <1>8, <1>9, <1>10, <1>11

LEMMA BeginIs ==
  ASSUME object \in Objects, layout \in Layouts, Writable(object), NEW b \in Seq(Int), NEW W,
         NEW y \in Nodes(object), NEW a, NEW p \in Nat, Holds(b, p, Bytes(ObjectTask(y))),
         Place(Ahead(Follows(y), 0, a), p + Len(Bytes(ObjectTask(y)))) \in W,
         NEW l, y.type = "code" => l = layout, NEW f, f = Frame(TypeOf(Char(y.type)), l), NEW g
  PROVE  /\ <<Char(y.type)>> \in Seq(Int) /\ Holds(b, p, <<Char(y.type)>>)
         /\ Leads(W, b, p + 1, f, g, y, 0, a, Payload(y))
<1> DEFINE c == <<Char(y.type)>>
           r == Payload(y)
<1>1. Sound(y)
  BY NodeOf
<1>2. c \in Seq(Int) /\ Len(c) = 1
  <2>1. y.type \in {Types[e] : e \in DOMAIN Types}
    BY <1>1 DEF Sound
  <2>2. Char(y.type) \in Int
    BY <2>1, CharType
  <2>. QED
    BY <2>2
<1>3. r \in Seq(Int) /\ Len(r) \in Nat
  BY <1>1, PayloadType, LenProperties
<1>4. Bytes(ObjectTask(y)) = Joined(c, r)
  BY DEF Bytes, ObjectTask, Joined
<1> HIDE DEF c, r
<1>5. Len(Joined(c, r)) = Len(c) + Len(r)
  BY <1>2, <1>3, HoldsJoined
<1>6. Holds(b, p, c) /\ Holds(b, p + Len(c), r)
  BY <1>2, <1>3, <1>4, HoldsParts
<1>7. p + Len(Bytes(ObjectTask(y))) = p + 1 + Len(r) /\ p + Len(c) = p + 1 /\ p + 1 \in Nat
  BY <1>2, <1>3, <1>4, <1>5
<1>8. AtTop(f, g, y, 0, r)
  BY FrameIs DEF r
<1>9. Leads(W, b, p + 1, f, g, y, 0, a, r)
  BY <1>3, <1>6, <1>7, <1>8 DEF Leads
<1> QED
  BY <1>2, <1>6, <1>9 DEF c, r

LEMMA LeadsOn ==
  ASSUME NEW W, NEW b \in Seq(Int), NEW p \in Nat, NEW c \in Seq(Int), Holds(b, p, c),
         NEW f, NEW g, NEW x, NEW d, NEW a, Matched(f, g, x, d),
         Place(Ahead(Follows(x), d, a), p + Len(c)) \in W, NEW q, q = p + Len(c)
  PROVE  Leads(W, b, q, f, g, x, d, a, << >>)
<1>1. Len(c) \in Nat /\ Len(b) \in Nat /\ q \in Nat /\ q <= Len(b)
  BY DEF Holds
<1>2. Len(<< >>) = 0 /\ << >> \in Seq(Int)
  OBVIOUS
<1>3. q + Len(<< >>) = q
  BY <1>1, <1>2
<1>4. Holds(b, q, << >>)
  BY <1>1, <1>2 DEF Holds
<1>5. AtTop(f, g, x, d, << >>)
  BY DEF AtTop
<1>6. Place(Ahead(Follows(x), d, a), q + Len(<< >>)) \in W
  BY <1>3
<1> QED
  BY <1>1, <1>2, <1>4, <1>5, <1>6 DEF Leads

LEMMA DoneType ==
  ASSUME NEW x, NEW d \in Nat
  PROVE  /\ x.type \in {"int", "code"} => LongsDone(x, d) \in Nat
         /\ PartsDone(x, d) \in Nat
<1>1. x.type = "int" => LongsDone(x, d) \in Nat
  BY DEF LongsDone
<1>2. x.type = "code" => LongsDone(x, d) \in Nat
  BY DEF LongsDone
<1>3. CASE x.type = "tuple"
  <2>1. PartsDone(x, d) = IF d = 0 THEN 0 ELSE d - 1
    BY <1>3 DEF PartsDone
  <2>. QED
    BY <1>1, <1>2, <2>1
<1>4. CASE x.type = "code"
  <2>1. PartsDone(x, d) = IF layout = "pyc"
                           THEN IF d <= 5 THEN 0 ELSE IF d <= 11 THEN d - 5
                                ELSE IF d = 12 THEN 6 ELSE 7
                           ELSE IF d <= 4 THEN 0 ELSE d - 4
    BY <1>4 DEF PartsDone
  <2>2. PartsDone(x, d) \in Nat
    BY <2>1
  <2>. QED
    BY <1>1, <1>2, <2>2
<1>5. CASE x.type \notin {"tuple", "code"}
  <2>1. PartsDone(x, d) = 0
    BY <1>5 DEF PartsDone
  <2>. QED
    BY <1>1, <1>2, <2>1
<1> QED
  BY <1>3, <1>4, <1>5

LEMMA AsksIs ==
  ASSUME object \in Objects, layout \in Layouts, Writable(object), NEW W, NEW b, NEW g, NEW x,
         NEW d, NEW a, At(W, b, g, x, d, a), NEW p, NEW f, NEW r,
         Leads(W, b, p, f, g, x, d, a, r), NEW w, f.script # << >>, w = Head(f.script),
         w \in {"long", "skipped", "object", "dropped", "name", "count"}
  PROVE  /\ Matched(f, g, x, d) /\ r = << >> /\ d < Len(Follows(x))
         /\ w # "count" => Tail(f.script) = ScriptAt(x, d + 1) /\ Step(x, d, w)
         /\ w = "count" => x.type = "tuple" /\ d = 0
<1>1. Matched(f, g, x, d) /\ r = << >>
  BY DEF Leads, AtTop
<1>2. f.script = ScriptAt(x, d)
  BY <1>1 DEF Matched
<1>3. x \in Nodes(object) /\ d \in 0..Len(Follows(x)) /\ Len(Follows(x)) \in Nat
  BY AtIs
<1>4. d < Len(Follows(x))
  <2>1. d # Len(Follows(x))
    BY <1>2, <1>3, ScriptStep
  <2>. QED
    BY <1>3, <2>1
<1> QED
  BY <1>1, <1>2, <1>3, <1>4, ScriptStep

LEMMA LongGoes ==
  ASSUME object \in Objects, layout \in Layouts, Writable(object), NEW W, NEW b \in Seq(Int),
         NEW g, NEW x, NEW d, NEW a, At(W, b, g, x, d, a), NEW p, NEW f, NEW r,
         Leads(W, b, p, f, g, x, d, a, r), f.script # << >>, Head(f.script) = "long"
  PROVE  /\ d + 1 \in 0..Len(Follows(x))
         /\ \E n \in Int :
              /\ Holds(b, p, LongBytes(n)) /\ Long(LongBytes(n)) = n
              /\ Leads(W, b, p + LongSize, With(f, Grown(f.data, n), f.parts, Tail(f.script)),
                       g, x, d + 1, a, << >>)
<1> DEFINE k == LongsDone(x, d)
           n == Longs(x)[k + 1]
           h == With(f, Grown(f.data, n), f.parts, Tail(f.script))
<1>1. Matched(f, g, x, d) /\ r = << >> /\ d < Len(Follows(x))
      /\ Tail(f.script) = ScriptAt(x, d + 1) /\ Step(x, d, "long")
  BY AsksIs
<1>2. StepLong(x, d)
  BY <1>1 DEF Step
<1>3. x.type \in {"int", "code"} /\ n \in Int /\ Fits(n) /\ Follows(x)[d + 1] = LongTask(n)
      /\ LongsDone(x, d + 1) = k + 1 /\ PartsDone(x, d + 1) = PartsDone(x, d)
  BY <1>2 DEF StepLong
<1>4. k \in Nat
  BY <1>3, AtIs, DoneType
<1>5. LongTask(n).do = "long" /\ Bytes(LongTask(n)) = LongBytes(n)
  BY DEF LongTask, Bytes
<1> HIDE DEF n, k
<1>6. /\ Holds(b, p, LongBytes(n)) /\ p \in Nat /\ d + 1 \in 0..Len(Follows(x))
      /\ Place(Ahead(Follows(x), d + 1, a), p + Len(LongBytes(n))) \in W
  BY <1>1, <1>3, <1>5, NextTask
<1>7. LongBytes(n) \in Seq(Int) /\ Len(LongBytes(n)) = LongSize /\ Long(LongBytes(n)) = n
  BY <1>3, LongBytesType, LongRead
<1>8. Grown(First(Longs(x), k), n) = First(Longs(x), k + 1)
  BY <1>4, FirstOf DEF n
<1>9. f.data = First(Longs(x), k) /\ f.type = TypeOf(Char(x.type))
      /\ (x.type = "code" => f.layout = layout)
      /\ f.parts = First(Images(g, x), PartsDone(x, d))
  BY <1>1, <1>3 DEF Matched, k
<1>10. h.type = f.type /\ h.layout = f.layout /\ h.data = Grown(f.data, n) /\ h.parts = f.parts
       /\ h.script = Tail(f.script)
  BY DEF With
<1> HIDE DEF h
<1>11. h.data = First(Longs(x), LongsDone(x, d + 1))
  BY <1>3, <1>8, <1>9, <1>10
<1>12. Matched(h, g, x, d + 1)
  BY <1>1, <1>3, <1>9, <1>10, <1>11 DEF Matched
<1>13. Leads(W, b, p + LongSize, h, g, x, d + 1, a, << >>)
  BY <1>6, <1>7, <1>12, LeadsOn
<1> QED
  BY <1>3, <1>6, <1>7, <1>13 DEF h

LEMMA SkipGoes ==
  ASSUME object \in Objects, layout \in Layouts, Writable(object), NEW W, NEW b \in Seq(Int),
         NEW g, NEW x, NEW d, NEW a, At(W, b, g, x, d, a), NEW p, NEW f, NEW r,
         Leads(W, b, p, f, g, x, d, a, r), f.script # << >>, Head(f.script) = "skipped"
  PROVE  /\ d + 1 \in 0..Len(Follows(x)) /\ Holds(b, p, LongBytes(0))
         /\ Leads(W, b, p + LongSize, With(f, f.data, f.parts, Tail(f.script)),
                  g, x, d + 1, a, << >>)
<1> DEFINE h == With(f, f.data, f.parts, Tail(f.script))
<1>1. Matched(f, g, x, d) /\ r = << >> /\ d < Len(Follows(x))
      /\ Tail(f.script) = ScriptAt(x, d + 1) /\ Step(x, d, "skipped")
  BY AsksIs
<1>2. StepSkipped(x, d)
  BY <1>1 DEF Step
<1>3. LongTask(0).do = "long" /\ Bytes(LongTask(0)) = LongBytes(0)
  BY DEF LongTask, Bytes
<1>4. Follows(x)[d + 1] = LongTask(0)
  BY <1>2 DEF StepSkipped
<1>5. /\ Holds(b, p, LongBytes(0)) /\ p \in Nat /\ d + 1 \in 0..Len(Follows(x))
      /\ Place(Ahead(Follows(x), d + 1, a), p + Len(LongBytes(0))) \in W
  BY <1>1, <1>3, <1>4, NextTask
<1>6. LongBytes(0) \in Seq(Int) /\ Len(LongBytes(0)) = LongSize
  BY LongBytesType
<1>7. h.type = f.type /\ h.layout = f.layout /\ h.data = f.data /\ h.parts = f.parts
      /\ h.script = Tail(f.script)
  BY DEF With
<1> HIDE DEF h
<1>8. Matched(h, g, x, d + 1)
  BY <1>1, <1>2, <1>7 DEF Matched, StepSkipped
<1>9. Leads(W, b, p + LongSize, h, g, x, d + 1, a, << >>)
  BY <1>5, <1>6, <1>8, LeadsOn
<1> QED
  BY <1>5, <1>9 DEF h

(* There is no float to be read. *)
LEMMA NoFloat ==
  ASSUME object \in Objects, layout \in Layouts, Writable(object), NEW W, NEW b \in Seq(Int),
         NEW g, NEW x, NEW d, NEW a, At(W, b, g, x, d, a), NEW p, NEW f, NEW r,
         Leads(W, b, p, f, g, x, d, a, r), f.script # << >>
  PROVE  Head(f.script) # "float"
<1> SUFFICES ASSUME Head(f.script) = "float" PROVE FALSE
  OBVIOUS
<1>1. x \in Nodes(object) /\ Sound(x) /\ d \in 0..Len(Follows(x)) /\ Len(Follows(x)) \in Nat
  BY AtIs
<1>2. ~Matched(f, g, x, d)
  <2> SUFFICES ASSUME Matched(f, g, x, d) PROVE FALSE
    OBVIOUS
  <2>1. f.script = ScriptAt(x, d)
    BY DEF Matched
  <2>2. d < Len(Follows(x))
    <3>1. d # Len(Follows(x))
      BY <1>1, <2>1, ScriptStep
    <3>. QED
      BY <1>1, <3>1
  <2>3. Step(x, d, "float")
    BY <1>1, <2>1, <2>2, ScriptStep
  <2>. QED
    BY <2>3 DEF Step
<1> QED
  BY <1>2 DEF Leads, AtTop

LEMMA NotMatched ==
  ASSUME object \in Objects, layout \in Layouts, Writable(object), NEW W, NEW b, NEW g, NEW x,
         NEW d, NEW a, At(W, b, g, x, d, a), NEW f, f.script # << >>,
         Head(f.script) \in {"bytes", "content", "float"}
  PROVE  ~Matched(f, g, x, d)
<1> SUFFICES ASSUME Matched(f, g, x, d) PROVE FALSE
  OBVIOUS
<1>1. x \in Nodes(object) /\ d \in 0..Len(Follows(x)) /\ Len(Follows(x)) \in Nat
  BY AtIs
<1>2. f.script = ScriptAt(x, d)
  BY DEF Matched
<1>3. d < Len(Follows(x))
  <2>1. d # Len(Follows(x))
    BY <1>1, <1>2, ScriptStep
  <2>. QED
    BY <1>1, <2>1
<1>4. Head(ScriptAt(x, d)) # "count"
  BY <1>2
<1>5. Step(x, d, Head(f.script))
  BY <1>1, <1>2, <1>3, <1>4, ScriptStep
<1> QED
  BY <1>5 DEF Step

(* A string or a text without bytes is complete when its length is read. *)
Sizing(n) == IF n = 0 THEN << >> ELSE <<"content">>
Sizes(n) == IF n = 0 THEN << >> ELSE <<n>>
Items(n) == [i \in 1..n |-> "object"]

LEMMA TextMatched ==
  ASSUME object \in Objects, layout \in Layouts, Writable(object), NEW x \in Nodes(object),
         x.type \in {"string", "unicode"}, NEW g, NEW h, h.type = x.type, h.parts = << >>,
         h.script = << >>, h.data = x.data
  PROVE  Matched(h, g, x, 0)
<1>1. TypeOf(Char(x.type)) = x.type
  <2>1. x.type \in {Types[c] : c \in DOMAIN Types}
    BY NodeOf DEF Sound
  <2>. QED
    BY <2>1, CharType
<1>2. Len(Follows(x)) = 0
  <2>1. Follows(x) = << >>
    BY DEF Follows
  <2>. QED
    BY <2>1
<1>3. 0 \in 0..Len(Follows(x))
  BY <1>2
<1>4. ScriptAt(x, 0) = << >>
  BY <1>2, <1>3, ScriptStep
<1>5. First(Images(g, x), 0) = << >> /\ PartsDone(x, 0) = 0
  BY FirstOf DEF PartsDone
<1> QED
  BY <1>1, <1>4, <1>5 DEF Matched

LEMMA BytesGoes ==
  ASSUME object \in Objects, layout \in Layouts, Writable(object), NEW W, NEW b \in Seq(Int),
         NEW g, NEW x, NEW d, NEW a, At(W, b, g, x, d, a), NEW p, NEW f, NEW r,
         Leads(W, b, p, f, g, x, d, a, r), f.script # << >>, Head(f.script) = "bytes"
  PROVE  \E n \in Nat : \E s :
           /\ Holds(b, p, LongBytes(n)) /\ Long(LongBytes(n)) = n
           /\ Leads(W, b, p + LongSize, With(f, Sizes(n), f.parts, Sizing(n)), g, x, d, a, s)
<1> DEFINE n == Len(x.data)
           h == With(f, Sizes(n), f.parts, Sizing(n))
<1>1. x \in Nodes(object) /\ Sound(x)
  BY AtIs
<1>2. ~Matched(f, g, x, d)
  BY NotMatched
<1>3. /\ d = 0 /\ f.type = x.type /\ f.parts = << >> /\ x.type \in {"string", "unicode"}
      /\ r = Joined(LongBytes(n), x.data)
  BY <1>2 DEF Leads, AtTop
<1>4. x.data \in Seq(Int) /\ n \in Nat /\ (n = 0 <=> x.data = << >>)
  <2>1. x.data \in Seq(Int)
    BY <1>1 DEF Sound
  <2>. QED
    BY <2>1, EmptySeq, LenProperties
<1>5. Fits(n)
  BY <1>1, <1>3 DEF Writable
<1> HIDE DEF n
<1>6. LongBytes(n) \in Seq(Int) /\ Len(LongBytes(n)) = LongSize /\ Long(LongBytes(n)) = n
      /\ LongSize \in Nat
  BY <1>4, <1>5, LongBytesType, LongRead, SizesAssumption
<1>7. /\ r \in Seq(Int) /\ p \in Nat /\ Holds(b, p, r)
      /\ Place(Ahead(Follows(x), d, a), p + Len(r)) \in W
  BY DEF Leads
<1>8. Holds(b, p, LongBytes(n)) /\ Holds(b, p + LongSize, x.data)
  BY <1>3, <1>4, <1>6, <1>7, HoldsParts
<1>9. Len(r) = LongSize + n
  BY <1>3, <1>4, <1>6, HoldsJoined DEF n
<1>10. p + Len(r) = (p + LongSize) + n /\ p + LongSize \in Nat
  BY <1>4, <1>6, <1>7, <1>9
<1>11. h.type = f.type /\ h.layout = f.layout /\ h.data = Sizes(n) /\ h.parts = f.parts
       /\ h.script = Sizing(n)
  BY DEF With
<1> HIDE DEF h
<1>12. AtTop(h, g, x, d, x.data)
  <2> USE DEF n
  <2>1. CASE n = 0
    <3>1. h.script = << >> /\ h.data = x.data /\ x.data = << >>
      BY <1>4, <1>11, <2>1 DEF Sizes, Sizing
    <3>2. Matched(h, g, x, 0)
      BY <1>1, <1>3, <1>11, <3>1, TextMatched
    <3>. QED
      BY <1>3, <3>1, <3>2 DEF AtTop
  <2>2. CASE n # 0
    <3>1. h.script = <<"content">> /\ h.data = <<n>> /\ x.data # << >>
      BY <1>4, <1>11, <2>2 DEF Sizes, Sizing
    <3>. QED
      BY <1>3, <1>11, <3>1 DEF AtTop
  <2>. QED
    BY <2>1, <2>2
<1>13. Leads(W, b, p + LongSize, h, g, x, d, a, x.data)
  <2> DEFINE q == p + LongSize
  <2>1. Place(Ahead(Follows(x), d, a), q + Len(x.data)) \in W
    BY <1>7, <1>10 DEF n
  <2>2. q \in Nat /\ Holds(b, q, x.data)
    BY <1>8, <1>10
  <2> HIDE DEF q
  <2>3. Leads(W, b, q, h, g, x, d, a, x.data)
    BY <1>4, <1>12, <2>1, <2>2 DEF Leads
  <2>. QED
    BY <2>3 DEF q
<1> QED
  BY <1>4, <1>6, <1>8, <1>13 DEF h

LEMMA ContentGoes ==
  ASSUME object \in Objects, layout \in Layouts, Writable(object), NEW W, NEW b \in Seq(Int),
         NEW g, NEW x, NEW d, NEW a, At(W, b, g, x, d, a), NEW p, NEW f, NEW r,
         Leads(W, b, p, f, g, x, d, a, r), f.script # << >>, Head(f.script) = "content"
  PROVE  /\ x.data \in Seq(Int) /\ Head(f.data) = Len(x.data) /\ Holds(b, p, x.data)
         /\ Leads(W, b, p + Len(x.data), With(f, x.data, f.parts, Tail(f.script)),
                  g, x, d, a, << >>)
<1> DEFINE h == With(f, x.data, f.parts, Tail(f.script))
<1>1. x \in Nodes(object) /\ Sound(x)
  BY AtIs
<1>2. ~Matched(f, g, x, d)
  BY NotMatched
<1>3. /\ d = 0 /\ f.type = x.type /\ f.parts = << >> /\ x.type \in {"string", "unicode"}
      /\ f.script = <<"content">> /\ f.data = <<Len(x.data)>> /\ r = x.data
  BY <1>2 DEF Leads, AtTop
<1>4. x.data \in Seq(Int)
  BY <1>1 DEF Sound
<1>5. /\ Holds(b, p, x.data) /\ p \in Nat
      /\ Place(Ahead(Follows(x), d, a), p + Len(x.data)) \in W
  BY <1>3 DEF Leads
<1>6. h.type = f.type /\ h.layout = f.layout /\ h.data = x.data /\ h.parts = f.parts
      /\ h.script = Tail(f.script)
  BY DEF With
<1> HIDE DEF h
<1>7. h.script = << >> /\ Head(f.data) = Len(x.data)
  BY <1>3, <1>6
<1>8. Matched(h, g, x, d)
  BY <1>1, <1>3, <1>6, <1>7, TextMatched
<1>9. Leads(W, b, p + Len(x.data), h, g, x, d, a, << >>)
  BY <1>4, <1>5, <1>8, LeadsOn
<1> QED
  BY <1>4, <1>5, <1>7, <1>9 DEF h

LEMMA CountGoes ==
  ASSUME object \in Objects, layout \in Layouts, Writable(object), NEW W, NEW b \in Seq(Int),
         NEW g, NEW x, NEW d, NEW a, At(W, b, g, x, d, a), NEW p, NEW f, NEW r,
         Leads(W, b, p, f, g, x, d, a, r), f.script # << >>, Head(f.script) = "count"
  PROVE  /\ d + 1 \in 0..Len(Follows(x))
         /\ \E n \in Nat \ {0} :
              /\ Holds(b, p, LongBytes(n)) /\ Long(LongBytes(n)) = n
              /\ Leads(W, b, p + LongSize, With(f, << >>, f.parts, Items(n)),
                       g, x, d + 1, a, << >>)
<1> DEFINE n == Len(x.parts)
           h == With(f, << >>, f.parts, Items(n))
<1>1. Matched(f, g, x, d) /\ r = << >> /\ d < Len(Follows(x)) /\ x.type = "tuple" /\ d = 0
  BY AsksIs
<1>2. x \in Nodes(object) /\ Sound(x)
  BY AtIs
<1>3. /\ Follows(x)[1] = LongTask(n) /\ Fits(n) /\ n \in Nat /\ n # 0
      /\ ScriptAt(x, 1) = Items(n) /\ PartsDone(x, 0) = 0 /\ PartsDone(x, 1) = 0
  BY <1>1, <1>2, CountIs DEF Items
<1>4. LongTask(n).do = "long" /\ Bytes(LongTask(n)) = LongBytes(n)
  BY DEF LongTask, Bytes
<1> HIDE DEF n
<1>5. d + 1 = 1 /\ Follows(x)[d + 1] = LongTask(n)
  BY <1>1, <1>3
<1>6. /\ Holds(b, p, LongBytes(n)) /\ p \in Nat /\ d + 1 \in 0..Len(Follows(x))
      /\ Place(Ahead(Follows(x), d + 1, a), p + Len(LongBytes(n))) \in W
  BY <1>1, <1>4, <1>5, NextTask
<1>7. LongBytes(n) \in Seq(Int) /\ Len(LongBytes(n)) = LongSize /\ Long(LongBytes(n)) = n
  BY <1>3, LongBytesType, LongRead
<1>8. h.type = f.type /\ h.layout = f.layout /\ h.data = << >> /\ h.parts = f.parts
      /\ h.script = Items(n)
  BY DEF With
<1> HIDE DEF h
<1>9. x.data = << >>
  BY <1>1, <1>2 DEF Sound
<1>10. Matched(h, g, x, d + 1)
  BY <1>1, <1>3, <1>5, <1>8, <1>9 DEF Matched
<1>11. Leads(W, b, p + LongSize, h, g, x, d + 1, a, << >>)
  BY <1>6, <1>7, <1>10, LeadsOn
<1> QED
  BY <1>3, <1>6, <1>7, <1>11 DEF h

(* The part y of x is next, and begins at p. *)
Begins(W, b, g, x, d, a, p, l, y) ==
  /\ Follows(x)[d + 1] = ObjectTask(y) /\ 0 \in 0..Len(Follows(y))
  /\ <<Char(y.type)>> \in Seq(Int) /\ Holds(b, p, <<Char(y.type)>>)
  /\ Leads(W, b, p + 1, Frame(TypeOf(Char(y.type)), l), g + 1, y, 0,
           Ahead(Follows(x), d + 1, a), Payload(y))

LEMMA PartGoes ==
  ASSUME object \in Objects, layout \in Layouts, Writable(object), NEW W, NEW b \in Seq(Int),
         NEW g, NEW x, NEW d, NEW a, At(W, b, g, x, d, a), NEW p, NEW f, NEW r,
         Leads(W, b, p, f, g, x, d, a, r), f.script # << >>, Head(f.script) \in Asks,
         NEW l, l = IF f.type = "tuple" THEN "pyc" ELSE f.layout
  PROVE  /\ d < Len(Follows(x)) /\ Matched(f, g, x, d)
         /\ Ahead(Follows(x), d + 1, a) \in Seq(Writes(object))
         /\ \E y \in Children(x) : Begins(W, b, g, x, d, a, p, l, y)
<1>1. /\ Matched(f, g, x, d) /\ r = << >> /\ d < Len(Follows(x))
      /\ Step(x, d, Head(f.script))
  BY AsksIs DEF Asks
<1>2. x \in Nodes(object) /\ Sound(x) /\ x.type \in {Types[c] : c \in DOMAIN Types}
  <2>1. x \in Nodes(object) /\ Sound(x)
    BY AtIs
  <2>. QED
    BY <2>1 DEF Sound
<1>3. \/ StepPart(x, d)
      \/ StepDropped(x, d)
  BY <1>1 DEF Step, Asks
<1>4. PICK y \in Children(x) :
        /\ Follows(x)[d + 1] = ObjectTask(y)
        /\ \/ x.type = "code"
           \/ x.type = "tuple" /\ \E i \in DOMAIN x.parts : y = x.parts[i]
  <2>1. CASE StepPart(x, d)
    BY <2>1 DEF StepPart
  <2>2. CASE StepDropped(x, d)
    BY <2>2 DEF StepDropped
  <2>. QED
    BY <1>3, <2>1, <2>2
<1>5. y \in Nodes(object)
  BY <1>2, NodeOf
<1>6. f.type = x.type
  <2>1. TypeOf(Char(x.type)) = IF x.type = "kv" THEN "unknown" ELSE x.type
    BY <1>2, CharType
  <2>2. x.type # "kv"
    BY <1>4
  <2>. QED
    BY <1>1, <2>1, <2>2 DEF Matched
<1>7. ASSUME y.type = "code" PROVE l = layout
  <2>1. CASE x.type = "code"
    BY <1>1, <1>6, <2>1 DEF Matched
  <2>2. CASE x.type = "tuple"
    <3>1. HasCode(x)
      BY <1>4, <1>7, <2>2 DEF HasCode
    <3>2. layout # "plus"
      BY <1>2, <3>1 DEF Writable
    <3>. QED
      BY <1>6, <2>2, <3>2 DEF Layouts
  <2>. QED
    BY <1>4, <2>1, <2>2
<1>8. ObjectTask(y).do = "object" /\ ObjectTask(y).node = y
  BY DEF ObjectTask
<1>9. /\ Holds(b, p, Bytes(ObjectTask(y))) /\ p \in Nat
      /\ Ahead(Follows(x), d + 1, a) \in Seq(Writes(object))
      /\ Place(Ahead(Follows(y), 0, Ahead(Follows(x), d + 1, a)), p + Len(Bytes(ObjectTask(y)))) \in W
  <2> DEFINE t == ObjectTask(y)
             B == Ahead(Follows(x), d + 1, a)
  <2>1. t = Follows(x)[d + 1] /\ t.do = "object" /\ t.node = y
    BY <1>4, <1>8
  <2> HIDE DEF t, B
  <2>2. /\ Holds(b, p, Bytes(t)) /\ p \in Nat /\ B \in Seq(Writes(object))
        /\ Place(Ahead(Follows(t.node), 0, B), p + Len(Bytes(t))) \in W
    BY <1>1, <2>1, NextTask DEF B
  <2>. QED
    BY <2>1, <2>2 DEF t, B
<1>10. /\ <<Char(y.type)>> \in Seq(Int) /\ Holds(b, p, <<Char(y.type)>>)
       /\ Leads(W, b, p + 1, Frame(TypeOf(Char(y.type)), l), g + 1, y, 0,
                Ahead(Follows(x), d + 1, a), Payload(y))
  BY <1>5, <1>7, <1>9, BeginIs
<1>11. 0 \in 0..Len(Follows(y))
  <2>1. Len(Follows(y)) \in Nat
    BY <1>5, FollowsType, LenProperties
  <2>. QED
    BY <2>1
<1> QED
  BY <1>1, <1>4, <1>9, <1>10, <1>11 DEF Begins

(* A complete object is put in the one it is part of. *)
LEMMA DoneIs ==
  ASSUME object \in Objects, layout \in Layouts, Writable(object), NEW W, NEW b, NEW g, NEW x,
         NEW d, NEW a, At(W, b, g, x, d, a), NEW p, NEW f, NEW r,
         Leads(W, b, p, f, g, x, d, a, r), f.script = << >>
  PROVE  /\ d = Len(Follows(x)) /\ r = << >>
         /\ Complete(f) = Image(g, x)
         /\ x.type = "unicode" => Complete(f).type = "unicode"
<1>1. Matched(f, g, x, d) /\ r = << >>
  BY DEF Leads, AtTop
<1>2. x \in Nodes(object) /\ d \in 0..Len(Follows(x))
  BY AtIs
<1>3. d = Len(Follows(x))
  BY <1>1, <1>2, ScriptStep DEF Matched
<1>4. g \in 0..Depth /\ x \in Generations(object)[g]
  BY DEF At
<1>5. Matched(f, g, x, Len(Follows(x)))
  BY <1>1, <1>3
<1> QED
  BY <1>1, <1>3, <1>4, <1>5, CompleteIs

LEMMA ParentGoes ==
  ASSUME object \in Objects, layout \in Layouts, Writable(object), NEW k,
         NEW z \in Nodes(object), NEW e \in 0..Len(Follows(z)), e < Len(Follows(z)), NEW f,
         Matched(f, k, z, e), Head(f.script) \in Asks, NEW x, Follows(z)[e + 1] = ObjectTask(x),
         NEW o, o = Image(k + 1, x)
  PROVE  /\ Head(f.script) = "dropped" =>
              Matched(With(f, f.data, f.parts, Tail(f.script)), k, z, e + 1)
         /\ Head(f.script) # "dropped" =>
              Matched(With(f, f.data, Grown(f.parts, o), Tail(f.script)), k, z, e + 1)
         /\ Head(f.script) = "name" => x.type = "unicode"
<1> DEFINE w == Head(f.script)
           j == PartsDone(z, e)
<1>1. f.script = ScriptAt(z, e) /\ w # "count"
  BY DEF Matched, Asks
<1>2. Tail(f.script) = ScriptAt(z, e + 1) /\ Step(z, e, w)
  BY <1>1, ScriptStep
<1>3. e \in Nat /\ j \in Nat
  <2>1. e \in Nat
    BY FollowsType, LenProperties
  <2>. QED
    BY <2>1, DoneType
<1> HIDE DEF w, j
<1>4. CASE w = "dropped"
  <2> DEFINE h == With(f, f.data, f.parts, Tail(f.script))
  <2>1. StepDropped(z, e)
    BY <1>2, <1>4 DEF Step
  <2>2. h.type = f.type /\ h.layout = f.layout /\ h.data = f.data /\ h.parts = f.parts
        /\ h.script = Tail(f.script)
    BY DEF With
  <2> HIDE DEF h
  <2>3. Matched(h, k, z, e + 1)
    BY <1>2, <2>1, <2>2 DEF Matched, StepDropped
  <2>. QED
    BY <1>4, <2>3 DEF h, w
<1>5. CASE w # "dropped"
  <2> DEFINE h == With(f, f.data, Grown(f.parts, o), Tail(f.script))
             S == Images(k, z)
  <2>1. StepPart(z, e) /\ (w = "name" => z.parts[j + 1].type = "unicode")
    BY <1>2, <1>5 DEF Step, Asks, w, j
  <2>2. z.parts[j + 1] = x
    <3>1. ObjectTask(z.parts[j + 1]) = ObjectTask(x)
      BY <2>1 DEF StepPart, j
    <3>2. ObjectTask(z.parts[j + 1]).node = z.parts[j + 1] /\ ObjectTask(x).node = x
      BY DEF ObjectTask
    <3>. QED
      BY Zenon, <3>1, <3>2
  <2>3. S[j + 1] = o
    BY <2>1, <2>2 DEF StepPart, Images, j
  <2>4. h.type = f.type /\ h.layout = f.layout /\ h.data = f.data
        /\ h.parts = Grown(f.parts, o) /\ h.script = Tail(f.script)
    BY DEF With
  <2> HIDE DEF h, S
  <2>5. Grown(First(S, j), S[j + 1]) = First(S, j + 1)
    BY <1>3, FirstOf
  <2>6. f.parts = First(S, j) /\ PartsDone(z, e + 1) = j + 1
    BY <2>1 DEF Matched, StepPart, S, j
  <2>7. h.parts = First(S, PartsDone(z, e + 1))
    BY <2>3, <2>4, <2>5, <2>6
  <2>8. z.type \in {"tuple", "code"} /\ (z.type = "code" => LongsDone(z, e + 1) = LongsDone(z, e))
    BY <2>1 DEF StepPart
  <2>9. Matched(h, k, z, e + 1)
    BY <1>2, <2>4, <2>7, <2>8 DEF Matched, S
  <2>. QED
    BY <1>5, <2>1, <2>2, <2>9 DEF h, w
<1> QED
  BY <1>4, <1>5

-----------------------------------------------------------------------------
(* Each step of the reader keeps it on the way. *)

LEMMA SameGoes ==
  ASSUME layout' = layout, object' = object, NEW CONSTANT b, NEW CONSTANT F, NEW CONSTANT p,
         Goes(b, F, p)
  PROVE  Goes(b, F, p)'
<1>1. PICK W, ob, dn, ag, r : Reading(W, b, F, p, ob, dn, ag, r)
  BY DEF Goes
<1>2. Reading(W, b, F, p, ob, dn, ag, r)'
  BY <1>1, SameReading
<1> QED
  BY <1>2 DEF Goes

LEMMA SameAims ==
  ASSUME UNCHANGED writer
  PROVE  Aims' <=> Aims
<1>1. UNCHANGED <<object, written, layout, cut>>
  BY DEF writer
<1>2. Writable(object)' <=> Writable(object)
  BY <1>1, SameWritable
<1> QED
  BY <1>1, <1>2 DEF Aims

LEMMA NoAim ==
  ASSUME UNCHANGED writer, ~Aims
  PROVE  RInv'
BY SameAims DEF RInv

LEMMA GoesOn ==
  ASSUME UNCHANGED writer, phase' = "read", ~left', NEW F, NEW p, frames' = F, F # << >>,
         pos' = p, Goes(file, F, p)
  PROVE  RInv'
<1>1. UNCHANGED <<object, layout, file>>
  BY DEF writer
<1>2. PICK b : b = file
  OBVIOUS
<1>3. PICK G : G = F
  OBVIOUS
<1>4. PICK q : q = p
  OBVIOUS
<1>5. Goes(b, G, q)
  BY <1>2, <1>3, <1>4
<1>6. Goes(b, G, q)'
  BY <1>1, <1>5, SameGoes
<1>7. b = file' /\ G = frames' /\ q = pos'
  BY <1>1, <1>2, <1>3, <1>4
<1>8. (\E c, H, k : c = file /\ H = frames /\ k = pos /\ Goes(c, H, k))'
  BY <1>6, <1>7
<1> QED
  BY <1>8 DEF RInv

LEMMA ReadOn ==
  ASSUME TInv, RInv, Aims, phase = "read"
  PROVE  /\ object \in Objects /\ layout \in Layouts /\ Writable(object) /\ file \in Seq(Int)
         /\ pos \in Nat /\ IsSeq(frames) /\ Stack(frames) /\ ~left
         /\ frames # << >> =>
              /\ FrameOk(frames[1])
              /\ \E W, ob, dn, ag, r : Reading(W, file, frames, pos, ob, dn, ag, r)
<1>1. /\ object \in Objects /\ layout \in Layouts /\ Writable(object) /\ file \in Seq(Int)
      /\ pos \in 0..Len(file) /\ Stack(frames)
  BY DEF TInv, Aims
<1>2. pos \in Nat
  BY <1>1
<1>3. IsSeq(frames)
  BY <1>1 DEF Stack
<1>4. ~left
  BY DEF RInv
<1>5. ASSUME frames # << >>
      PROVE  /\ FrameOk(frames[1])
             /\ \E W, ob, dn, ag, r : Reading(W, file, frames, pos, ob, dn, ag, r)
  <2>1. Goes(file, frames, pos)
    BY <1>5 DEF RInv
  <2>2. FrameOk(frames[1])
    <3>1. Len(frames) \in Nat \ {0}
      BY <1>3, <1>5, TopOf
    <3>2. 1 \in 1..Len(frames)
      BY <3>1
    <3>. QED
      BY <1>1, <3>2 DEF Stack
  <2>. QED
    BY <2>1, <2>2 DEF Goes
<1> QED
  BY <1>1, <1>2, <1>3, <1>4, <1>5

LEMMA Changes ==
  ASSUME TInv, RInv, Aims, phase = "read", phase' = "read", UNCHANGED writer, frames # << >>,
         NEW W, NEW ob, NEW dn, NEW ag, NEW r, Reading(W, file, frames, pos, ob, dn, ag, r),
         NEW g, g = Len(frames) - 1, NEW c \in Seq(Int), Holds(file, pos, c), NEW n, n = Len(c),
         NEW f, NEW d \in 0..Len(Follows(ob[g])), NEW s,
         Leads(W, file, pos + n, f, g, ob[g], d, ag[g], s),
         frames' = Topped(f, frames), Read(n)
  PROVE  RInv'
<1>1. /\ object \in Objects /\ layout \in Layouts /\ file \in Seq(Int)
      /\ pos \in Nat /\ IsSeq(frames) /\ ~left
  BY ReadOn
<1>2. pos' = pos + n /\ (~left => ~left')
  BY <1>1, GotIs
<1>3. Goes(file, Topped(f, frames), pos + n)
  BY <1>1, TopMoves
<1>4. Topped(f, frames) # << >>
  BY <1>1, TopOf
<1> QED
  BY <1>1, <1>2, <1>3, <1>4, GoesOn

LEMMA ReadLongGoes ==
  ASSUME TInv, RInv, Aims, ReadLong
  PROVE  RInv'
<1>1. phase = "read" /\ frames # << >> /\ Top.script # << >> /\ Head(Top.script) = "long"
  BY DEF ReadLong, Wants
<1>2. /\ object \in Objects /\ layout \in Layouts /\ Writable(object) /\ file \in Seq(Int)
      /\ pos \in Nat /\ FrameOk(Top)
  BY <1>1, ReadOn DEF Top
<1>3. PICK W, ob, dn, ag, r : Reading(W, file, frames, pos, ob, dn, ag, r)
  BY <1>1, ReadOn
<1>4. PICK g : g = Len(frames) - 1
  OBVIOUS
<1>5. /\ At(W, file, g, ob[g], dn[g], ag[g])
      /\ Leads(W, file, pos, Top, g, ob[g], dn[g], ag[g], r)
  BY <1>2, <1>3, <1>4, TopIs DEF Top
<1>6. dn[g] + 1 \in 0..Len(Follows(ob[g]))
  BY <1>1, <1>2, <1>5, LongGoes
<1>7. PICK n \in Int :
        /\ Holds(file, pos, LongBytes(n)) /\ Long(LongBytes(n)) = n
        /\ Leads(W, file, pos + LongSize,
                 With(Top, Grown(Top.data, n), Top.parts, Tail(Top.script)),
                 g, ob[g], dn[g] + 1, ag[g], << >>)
  BY <1>1, <1>2, <1>5, LongGoes
<1> DEFINE f == With(Top, Grown(Top.data, n), Top.parts, Tail(Top.script))
<1>8. LongBytes(n) \in Seq(Int) /\ Len(LongBytes(n)) = LongSize
  BY LongBytesType
<1>9. Got(LongSize) = LongBytes(n)
  BY <1>2, <1>7, <1>8, GotIs
<1>10. frames' = Topped(f, frames)
  <2> DEFINE e == Append(Top.data, Long(Got(LongSize)))
  <2>1. frames' = <<[[Top EXCEPT !.data = e] EXCEPT !.script = Tail(@)]>> \o Tail(frames)
    BY DEF ReadLong, Replace
  <2>2. e = Grown(Top.data, n)
    BY <1>7, <1>9 DEF Grown
  <2> HIDE DEF e
  <2>3. [[Top EXCEPT !.data = e] EXCEPT !.script = Tail(@)] = With(Top, e, Top.parts, Tail(Top.script))
    BY <1>2, WithIs
  <2>. QED
    BY <2>1, <2>2, <2>3 DEF Topped
<1> HIDE DEF f
<1>11. phase' = "read" /\ UNCHANGED writer /\ Read(LongSize)
  BY <1>1 DEF ReadLong
<1>12. Leads(W, file, pos + LongSize, f, g, ob[g], dn[g] + 1, ag[g], << >>)
  BY <1>7 DEF f
<1> QED
  BY <1>1, <1>3, <1>4, <1>6, <1>7, <1>8, <1>10, <1>11, <1>12, Changes

LEMMA SkipLongGoes ==
  ASSUME TInv, RInv, Aims, SkipLong
  PROVE  RInv'
<1>1. phase = "read" /\ frames # << >> /\ Top.script # << >> /\ Head(Top.script) = "skipped"
  BY DEF SkipLong, Wants
<1>2. /\ object \in Objects /\ layout \in Layouts /\ Writable(object) /\ file \in Seq(Int)
      /\ pos \in Nat /\ FrameOk(Top)
  BY <1>1, ReadOn DEF Top
<1>3. PICK W, ob, dn, ag, r : Reading(W, file, frames, pos, ob, dn, ag, r)
  BY <1>1, ReadOn
<1>4. PICK g : g = Len(frames) - 1
  OBVIOUS
<1>5. /\ At(W, file, g, ob[g], dn[g], ag[g])
      /\ Leads(W, file, pos, Top, g, ob[g], dn[g], ag[g], r)
  BY <1>2, <1>3, <1>4, TopIs DEF Top
<1> DEFINE f == With(Top, Top.data, Top.parts, Tail(Top.script))
<1>6. /\ dn[g] + 1 \in 0..Len(Follows(ob[g])) /\ Holds(file, pos, LongBytes(0))
      /\ Leads(W, file, pos + LongSize, f, g, ob[g], dn[g] + 1, ag[g], << >>)
  BY <1>1, <1>2, <1>5, SkipGoes
<1>7. LongBytes(0) \in Seq(Int) /\ Len(LongBytes(0)) = LongSize
  BY LongBytesType
<1>8. frames' = Topped(f, frames)
  <2>1. frames' = <<[Top EXCEPT !.script = Tail(@)]>> \o Tail(frames)
    BY DEF SkipLong, Replace
  <2>2. [Top EXCEPT !.script = Tail(@)] = f
    BY <1>2, WithIs
  <2>. QED
    BY <2>1, <2>2 DEF Topped
<1> HIDE DEF f
<1>9. phase' = "read" /\ UNCHANGED writer /\ Read(LongSize)
  BY <1>1 DEF SkipLong
<1> QED
  BY <1>1, <1>3, <1>4, <1>6, <1>7, <1>8, <1>9, Changes

LEMMA ReadFloatGoes ==
  ASSUME TInv, RInv, Aims, ReadFloat
  PROVE  RInv'
<1>1. phase = "read" /\ frames # << >> /\ Top.script # << >> /\ Head(Top.script) = "float"
  BY DEF ReadFloat, Wants
<1>2. /\ object \in Objects /\ layout \in Layouts /\ Writable(object) /\ file \in Seq(Int)
      /\ pos \in Nat /\ FrameOk(Top)
  BY <1>1, ReadOn DEF Top
<1>3. PICK W, ob, dn, ag, r : Reading(W, file, frames, pos, ob, dn, ag, r)
  BY <1>1, ReadOn
<1>4. PICK g : g = Len(frames) - 1
  OBVIOUS
<1>5. /\ At(W, file, g, ob[g], dn[g], ag[g])
      /\ Leads(W, file, pos, Top, g, ob[g], dn[g], ag[g], r)
  BY <1>2, <1>3, <1>4, TopIs DEF Top
<1> QED
  BY <1>1, <1>2, <1>5, NoFloat

LEMMA ReadContentGoes ==
  ASSUME TInv, RInv, Aims, ReadContent
  PROVE  RInv'
<1>1. phase = "read" /\ frames # << >> /\ Top.script # << >> /\ Head(Top.script) = "content"
  BY DEF ReadContent, Wants
<1>2. /\ object \in Objects /\ layout \in Layouts /\ Writable(object) /\ file \in Seq(Int)
      /\ pos \in Nat /\ FrameOk(Top)
  BY <1>1, ReadOn DEF Top
<1>3. PICK W, ob, dn, ag, r : Reading(W, file, frames, pos, ob, dn, ag, r)
  BY <1>1, ReadOn
<1>4. PICK g : g = Len(frames) - 1
  OBVIOUS
<1>5. /\ At(W, file, g, ob[g], dn[g], ag[g])
      /\ Leads(W, file, pos, Top, g, ob[g], dn[g], ag[g], r)
  BY <1>2, <1>3, <1>4, TopIs DEF Top
<1>6. dn[g] \in 0..Len(Follows(ob[g]))
  BY <1>5 DEF At
<1>7. PICK c : c = ob[g].data
  OBVIOUS
<1>8. PICK n : n = Len(c)
  OBVIOUS
<1> DEFINE f == With(Top, c, Top.parts, Tail(Top.script))
<1>9. /\ c \in Seq(Int) /\ Head(Top.data) = n /\ Holds(file, pos, c)
      /\ Leads(W, file, pos + n, f, g, ob[g], dn[g], ag[g], << >>)
  <2>1. /\ ob[g].data \in Seq(Int) /\ Head(Top.data) = Len(ob[g].data)
        /\ Holds(file, pos, ob[g].data)
        /\ Leads(W, file, pos + Len(ob[g].data),
                 With(Top, ob[g].data, Top.parts, Tail(Top.script)),
                 g, ob[g], dn[g], ag[g], << >>)
    <3>1. PICK x, d, a : x = ob[g] /\ d = dn[g] /\ a = ag[g]
      OBVIOUS
    <3>2. At(W, file, g, x, d, a) /\ Leads(W, file, pos, Top, g, x, d, a, r)
      BY <1>5, <3>1
    <3>3. /\ x.data \in Seq(Int) /\ Head(Top.data) = Len(x.data)
          /\ Holds(file, pos, x.data)
          /\ Leads(W, file, pos + Len(x.data), With(Top, x.data, Top.parts, Tail(Top.script)),
                   g, x, d, a, << >>)
      BY <1>1, <1>2, <3>2, ContentGoes
    <3>. QED
      BY <3>1, <3>3
  <2>. QED
    BY Zenon, <1>7, <1>8, <2>1
<1>10. Got(n) = c
  BY <1>2, <1>8, <1>9, GotIs
<1>11. frames' = Topped(f, frames)
  <2>1. frames' = <<[[Top EXCEPT !.data = c] EXCEPT !.script = Tail(@)]>> \o Tail(frames)
    BY <1>9, <1>10 DEF ReadContent, Replace
  <2>2. [[Top EXCEPT !.data = c] EXCEPT !.script = Tail(@)] = f
    BY <1>2, WithIs
  <2>. QED
    BY <2>1, <2>2 DEF Topped
<1> HIDE DEF f
<1>12. phase' = "read" /\ UNCHANGED writer /\ Read(n)
  BY <1>1, <1>9 DEF ReadContent
<1> QED
  BY <1>1, <1>3, <1>4, <1>6, <1>8, <1>9, <1>11, <1>12, Changes

LEMMA ReadLengthGoes ==
  ASSUME TInv, RInv, Aims, ReadLength
  PROVE  RInv'
<1>1. phase = "read" /\ frames # << >> /\ Top.script # << >> /\ Head(Top.script) \in {"bytes", "count"}
  BY DEF ReadLength, Wants
<1>2. /\ object \in Objects /\ layout \in Layouts /\ Writable(object) /\ file \in Seq(Int)
      /\ pos \in Nat /\ FrameOk(Top)
  BY <1>1, ReadOn DEF Top
<1>3. PICK W, ob, dn, ag, r : Reading(W, file, frames, pos, ob, dn, ag, r)
  BY <1>1, ReadOn
<1>4. PICK g : g = Len(frames) - 1
  OBVIOUS
<1>5. /\ At(W, file, g, ob[g], dn[g], ag[g])
      /\ Leads(W, file, pos, Top, g, ob[g], dn[g], ag[g], r)
  BY <1>2, <1>3, <1>4, TopIs DEF Top
<1>6. Read(LongSize) /\ UNCHANGED writer
  BY DEF ReadLength
<1>7. ASSUME NEW n \in Nat, Holds(file, pos, LongBytes(n)), Long(LongBytes(n)) = n
      PROVE  /\ LongBytes(n) \in Seq(Int) /\ LongSize = Len(LongBytes(n)) /\ phase' = "read"
             /\ Head(Top.script) = "bytes" =>
                  frames' = Topped(With(Top, Sizes(n), Top.parts, Sizing(n)), frames)
             /\ Head(Top.script) = "count" /\ n # 0 =>
                  frames' = Topped(With(Top, << >>, Top.parts, Items(n)), frames)
  <2>1. LongBytes(n) \in Seq(Int) /\ LongSize = Len(LongBytes(n))
    BY LongBytesType
  <2>2. Got(LongSize) = LongBytes(n)
    BY <1>2, <1>7, <2>1, GotIs
  <2>3. Long(Got(LongSize)) = n /\ ~(n < 0)
    BY <1>7, <2>2
  <2> DEFINE more == IF Head(Top.script) = "count" THEN Items(n)
                     ELSE IF n = 0 THEN << >> ELSE <<"content">>
             s == IF n <= 0 THEN << >> ELSE more
             d == IF more = <<"content">> THEN <<n>> ELSE << >>
  <2>4. phase' = "read" /\ frames' = <<[Top EXCEPT !.script = s, !.data = d]>> \o Tail(frames)
    BY <1>1, <2>3 DEF ReadLength, Items
  <2>5. frames' = Topped(With(Top, d, Top.parts, s), frames)
    <3> HIDE DEF s, d
    <3>1. Sized(Top, s, d) = With(Top, d, Top.parts, s)
      BY <1>2, SizedIs
    <3>. QED
      BY <2>4, <3>1 DEF Topped, Sized
  <2>6. CASE Head(Top.script) = "bytes"
    <3>1. more = Sizing(n)
      BY <2>6 DEF Sizing
    <3>2. s = Sizing(n)
      BY <3>1 DEF Sizing
    <3>3. d = Sizes(n)
      BY <3>1 DEF Sizing, Sizes
    <3> HIDE DEF s, d
    <3>. QED
      BY <2>1, <2>4, <2>5, <2>6, <3>2, <3>3
  <2>7. CASE Head(Top.script) = "count" /\ n # 0
    <3>1. more = Items(n)
      BY <2>7
    <3>2. Items(n)[1] = "object" /\ <<"content">>[1] = "content"
      BY <2>7 DEF Items
    <3>3. Items(n) # <<"content">>
      BY Zenon, <3>2, "object" # "content"
    <3>4. s = Items(n) /\ d = << >>
      BY <2>7, <3>1, <3>3
    <3> HIDE DEF s, d
    <3>. QED
      BY <2>1, <2>4, <2>5, <2>7, <3>4
  <2>. QED
    BY <1>1, <2>1, <2>4, <2>6, <2>7
<1>8. CASE Head(Top.script) = "bytes"
  <2>0. PICK n \in Nat : \E s :
          /\ Holds(file, pos, LongBytes(n)) /\ Long(LongBytes(n)) = n
          /\ Leads(W, file, pos + LongSize, With(Top, Sizes(n), Top.parts, Sizing(n)),
                   g, ob[g], dn[g], ag[g], s)
    BY <1>1, <1>2, <1>5, <1>8, BytesGoes
  <2>1. PICK s :
          /\ Holds(file, pos, LongBytes(n)) /\ Long(LongBytes(n)) = n
          /\ Leads(W, file, pos + LongSize, With(Top, Sizes(n), Top.parts, Sizing(n)),
                   g, ob[g], dn[g], ag[g], s)
    BY <2>0
  <2> DEFINE f == With(Top, Sizes(n), Top.parts, Sizing(n))
  <2>2. dn[g] \in 0..Len(Follows(ob[g]))
    BY <1>5 DEF At
  <2>3. /\ LongBytes(n) \in Seq(Int) /\ LongSize = Len(LongBytes(n)) /\ phase' = "read"
        /\ frames' = Topped(f, frames)
    BY <1>7, <1>8, <2>1
  <2> HIDE DEF f
  <2>4. Leads(W, file, pos + LongSize, f, g, ob[g], dn[g], ag[g], s)
    BY <2>1 DEF f
  <2>. QED
    BY <1>1, <1>3, <1>4, <1>6, <2>1, <2>2, <2>3, <2>4, Changes
<1>9. CASE Head(Top.script) = "count"
  <2>1. dn[g] + 1 \in 0..Len(Follows(ob[g]))
    BY <1>1, <1>2, <1>5, <1>9, CountGoes
  <2>2. PICK n \in Nat \ {0} :
          /\ Holds(file, pos, LongBytes(n)) /\ Long(LongBytes(n)) = n
          /\ Leads(W, file, pos + LongSize, With(Top, << >>, Top.parts, Items(n)),
                   g, ob[g], dn[g] + 1, ag[g], << >>)
    BY <1>1, <1>2, <1>5, <1>9, CountGoes
  <2> DEFINE f == With(Top, << >>, Top.parts, Items(n))
  <2>3. n \in Nat /\ n # 0
    OBVIOUS
  <2>4. /\ LongBytes(n) \in Seq(Int) /\ LongSize = Len(LongBytes(n)) /\ phase' = "read"
        /\ frames' = Topped(f, frames)
    BY <1>7, <1>9, <2>2, <2>3
  <2> HIDE DEF f
  <2>5. Leads(W, file, pos + LongSize, f, g, ob[g], dn[g] + 1, ag[g], << >>)
    BY <2>2 DEF f
  <2>. QED
    BY <1>1, <1>3, <1>4, <1>6, <2>1, <2>2, <2>4, <2>5, Changes
<1> QED
  BY <1>1, <1>8, <1>9

LEMMA ReadPartGoes ==
  ASSUME TInv, RInv, Aims, ReadPart
  PROVE  RInv'
<1>1. phase = "read" /\ frames # << >> /\ Top.script # << >> /\ Head(Top.script) \in Asks
  BY DEF ReadPart, Wants, Asks
<1>2. /\ object \in Objects /\ layout \in Layouts /\ Writable(object) /\ file \in Seq(Int)
      /\ pos \in Nat /\ IsSeq(frames) /\ ~left
  BY <1>1, ReadOn
<1>3. PICK W, ob, dn, ag, r : Reading(W, file, frames, pos, ob, dn, ag, r)
  BY <1>1, ReadOn
<1>4. PICK g, x, d, a : g = Len(frames) - 1 /\ x = ob[g] /\ d = dn[g] /\ a = ag[g]
  OBVIOUS
<1>5. At(W, file, g, x, d, a) /\ Leads(W, file, pos, Top, g, x, d, a, r)
  BY <1>2, <1>3, <1>4, TopIs DEF Top
<1>6. PICK l : l = ItemLayout
  OBVIOUS
<1>7. l = IF Top.type = "tuple" THEN "pyc" ELSE Top.layout
  BY <1>6 DEF ItemLayout
<1>8. /\ d < Len(Follows(x)) /\ Matched(Top, g, x, d)
      /\ Ahead(Follows(x), d + 1, a) \in Seq(Writes(object))
  BY <1>1, <1>2, <1>5, <1>7, PartGoes
<1>9. PICK y \in Children(x) : Begins(W, file, g, x, d, a, pos, l, y)
  BY <1>1, <1>2, <1>5, <1>7, PartGoes
<1> USE DEF Begins
<1> DEFINE c == <<Char(y.type)>>
           f == Frame(TypeOf(Char(y.type)), l)
<1>10. Len(c) = 1 /\ c[1] = Char(y.type)
  OBVIOUS
<1>11. Got(1) = c /\ (Read(1) => pos' = pos + 1 /\ (~left => ~left'))
  <2> HIDE DEF c
  <2>1. c \in Seq(Int) /\ Holds(file, pos, c)
    BY <1>9 DEF c
  <2>. QED
    BY <1>2, <1>10, <2>1, GotIs
<1>12. frames' = Pushed(f, frames)
  BY <1>6, <1>10, <1>11 DEF ReadPart, Begin, Pushed
<1> HIDE DEF f, c
<1>13. Leads(W, file, pos + 1, f, g + 1, y, 0, Ahead(Follows(x), d + 1, a), Payload(y))
  BY <1>9 DEF f
<1>14. Goes(file, Pushed(f, frames), pos + 1)
  BY <1>2, <1>3, <1>4, <1>8, <1>9, <1>13, Pushes DEF Top
<1>15. Pushed(f, frames) # << >>
  BY <1>2, PushOf
<1>16. UNCHANGED writer /\ phase' = "read" /\ pos' = pos + 1 /\ ~left'
  BY <1>1, <1>2, <1>11 DEF ReadPart, Begin
<1> QED
  BY <1>12, <1>14, <1>15, <1>16, GoesOn

LEMMA ReadRootGoes ==
  ASSUME TInv, WInv, RInv, Aims, ReadRoot
  PROVE  RInv'
<1>1. phase = "read" /\ frames = << >>
  BY DEF ReadRoot
<1>2. /\ object \in Objects /\ layout \in Layouts /\ Writable(object) /\ file \in Seq(Int)
      /\ pos \in Nat /\ IsSeq(frames) /\ ~left
  BY <1>1, ReadOn
<1>3. pos = 0
  BY <1>1 DEF RInv
<1>4. PICK W : Way(W, file, Place(<< >>, Len(file)))
  BY <1>1 DEF WInv, Aims
<1> DEFINE t == ObjectTask(object)
           a == <<t>>
           f == Frame(TypeOf(Char(object.type)), layout)
<1>5. object \in Nodes(object)
  <2>1. Generations(object)[0] = {object} /\ 0 \in 0..Depth
    BY GenerationsIs, SizesAssumption
  <2>. QED
    BY <1>2, <2>1, ChildOf
<1>6. a # << >> /\ Head(a) = t /\ Tail(a) = << >> /\ t.do = "object" /\ t.node = object
  BY DEF ObjectTask
<1>7. Place(a, 0) \in W
  BY <1>4 DEF Way
<1> HIDE DEF t, a
<1>8. Holds(file, 0, Bytes(t)) /\ Place(After(a), 0 + Len(Bytes(t))) \in W
  BY <1>2, <1>4, <1>6, <1>7, WayNext
<1>9. After(a) = Ahead(Follows(object), 0, << >>)
  <2>1. After(a) = Follows(object) \o << >>
    BY <1>6 DEF After
  <2>2. Follows(object) \in Seq(Writes(object))
    BY <1>2, <1>5, FollowsType
  <2>3. 0 \in 0..Len(Follows(object))
    BY <2>2, LenProperties
  <2>4. Rest(Follows(object), 0) = Follows(object)
    BY <2>2, <2>3, RestOf
  <2>. QED
    BY <2>1, <2>4 DEF Ahead
<1>10. /\ <<Char(object.type)>> \in Seq(Int) /\ Holds(file, 0, <<Char(object.type)>>)
       /\ Leads(W, file, 0 + 1, f, 0, object, 0, << >>, Payload(object))
  <2>1. Holds(file, 0, Bytes(ObjectTask(object)))
        /\ Place(Ahead(Follows(object), 0, << >>), 0 + Len(Bytes(ObjectTask(object)))) \in W
    BY <1>8, <1>9 DEF t
  <2>2. 0 \in Nat
    OBVIOUS
  <2>. QED
    BY <1>2, <1>5, <2>1, <2>2, BeginIs
<1> DEFINE c == <<Char(object.type)>>
<1>11. Len(c) = 1 /\ c[1] = Char(object.type)
  OBVIOUS
<1>12. Got(1) = c /\ (Read(1) => pos' = pos + 1 /\ (~left => ~left'))
  <2> HIDE DEF c
  <2>1. c \in Seq(Int) /\ Holds(file, pos, c)
    BY <1>3, <1>10 DEF c
  <2>. QED
    BY <1>2, <1>11, <2>1, GotIs
<1>13. frames' = Pushed(f, << >>)
  BY <1>1, <1>11, <1>12 DEF ReadRoot, Begin, Pushed
<1> HIDE DEF f, c
<1>14. 0 + 1 = 1 /\ pos + 1 = 1
  BY <1>3
<1>15. Goes(file, Pushed(f, << >>), 1)
  BY <1>2, <1>4, <1>10, <1>14, Starts
<1>16. Pushed(f, << >>) # << >>
  BY <1>1, <1>2, PushOf
<1>17. UNCHANGED writer /\ phase' = "read" /\ pos' = 1 /\ ~left'
  BY <1>1, <1>2, <1>12, <1>14 DEF ReadRoot, Begin
<1> QED
  BY <1>13, <1>15, <1>16, <1>17, GoesOn

LEMMA ReturnLast ==
  ASSUME TInv, RInv, Aims, Return, Len(frames) = 1
  PROVE  RInv'
<1>1. phase = "read" /\ frames # << >> /\ Top.script = << >> /\ UNCHANGED <<writer, pos, left>>
      /\ phase' = "done" /\ result' = Complete(Top) /\ frames' = << >>
  BY DEF Return
<1>2. /\ object \in Objects /\ layout \in Layouts /\ Writable(object) /\ file \in Seq(Int)
      /\ pos \in Nat /\ ~left
  BY <1>1, ReadOn
<1>3. PICK W, ob, dn, ag, r : Reading(W, file, frames, pos, ob, dn, ag, r)
  BY <1>1, ReadOn
<1>4. PICK g, x, d, a : g = Len(frames) - 1 /\ x = ob[g] /\ d = dn[g] /\ a = ag[g]
  OBVIOUS
<1>5. At(W, file, g, x, d, a) /\ Leads(W, file, pos, Top, g, x, d, a, r)
  BY <1>2, <1>3, <1>4, TopIs DEF Top
<1>6. g = 0 /\ x = object /\ a = << >>
  <2>1. g = 0
    BY <1>4
  <2>. QED
    BY <1>3, <1>4, <2>1 DEF Reading, Linked
<1>7. d = Len(Follows(x)) /\ r = << >> /\ Complete(Top) = Image(g, x)
  BY <1>1, <1>2, <1>5, DoneIs
<1>8. pos = Len(file)
  <2>1. Follows(x) \in Seq(Writes(object)) /\ d \in 0..Len(Follows(x))
    BY <1>2, <1>5, AtIs
  <2>2. a \in Seq(Writes(object)) /\ Way(W, file, Place(<< >>, Len(file)))
    BY <1>5 DEF At
  <2>3. Ahead(Follows(x), d, a) = a
    BY <1>7, <2>1, <2>2, AheadOf
  <2>4. Place(a, pos + Len(r)) \in W
    BY <1>5, <2>3 DEF Leads
  <2>5. Len(r) = 0 /\ pos + Len(r) = pos
    BY <1>2, <1>7
  <2>6. Place(a, pos) \in W
    BY <2>4, <2>5
  <2>. QED
    BY <1>2, <1>6, <2>2, <2>6, WayNext
<1>9. PICK o, v : o = object /\ v = Complete(Top)
  OBVIOUS
<1>10. v = Image(0, o)
  BY <1>6, <1>7, <1>9
<1>11. UNCHANGED <<object, layout, file>>
  BY <1>1 DEF writer
<1>12. Image(0, o)' = Image(0, o)
  BY <1>11, SameImage
<1>13. o = object' /\ result' = v /\ pos' = Len(file')
  BY <1>1, <1>8, <1>9, <1>11
<1>14. (\E e : e = object /\ result = Image(0, e))'
  BY <1>10, <1>12, <1>13
<1> QED
  BY <1>1, <1>2, <1>13, <1>14 DEF RInv

LEMMA ReturnPart ==
  ASSUME TInv, RInv, Aims, Return, Len(frames) # 1
  PROVE  RInv'
<1>1. phase = "read" /\ frames # << >> /\ Top.script = << >> /\ UNCHANGED <<writer, pos, left>>
  BY DEF Return
<1>2. /\ object \in Objects /\ layout \in Layouts /\ Writable(object) /\ file \in Seq(Int)
      /\ pos \in Nat /\ ~left /\ IsSeq(frames) /\ Stack(frames)
  BY <1>1, ReadOn
<1>3. PICK W, ob, dn, ag, r : Reading(W, file, frames, pos, ob, dn, ag, r)
  BY <1>1, ReadOn
<1>4. PICK g, x, d, a : g = Len(frames) - 1 /\ x = ob[g] /\ d = dn[g] /\ a = ag[g]
  OBVIOUS
<1>5. At(W, file, g, x, d, a) /\ Leads(W, file, pos, Top, g, x, d, a, r)
  BY <1>2, <1>3, <1>4, TopIs DEF Top
<1>6. /\ d = Len(Follows(x)) /\ r = << >> /\ Complete(Top) = Image(g, x)
      /\ x.type = "unicode" => Complete(Top).type = "unicode"
  BY <1>1, <1>2, <1>5, DoneIs
<1>7. PICK k, z, e, v : k = g - 1 /\ z = ob[k] /\ e = dn[k] /\ v = Complete(Top)
  OBVIOUS
<1> DEFINE f == frames[2]
           w == Head(f.script)
<1>8. FrameOk(f) /\ f.script # << >> /\ w \in Asks
  BY <1>1, <1>2, StackNext
<1>9. /\ z \in Generations(object)[k] /\ e \in 0..Len(Follows(z)) /\ e < Len(Follows(z))
      /\ Matched(f, k, z, e) /\ Follows(z)[e + 1] = ObjectTask(x)
      /\ k \in 0..Depth /\ k + 1 = g
  <2>1. Len(frames) \in 1..(Depth + 1) /\ Depth \in Nat
    BY <1>3, SizesAssumption DEF Reading, Linked
  <2>2. /\ k \in 0..(Len(frames) - 1) /\ k \in 0..(Len(frames) - 2) /\ k \in 0..Depth
        /\ k + 1 = g /\ Len(frames) - k = 2
    BY <1>4, <1>7, <2>1
  <2>. QED
    BY <1>3, <1>4, <1>7, <2>2 DEF Reading, Linked
<1>10. z \in Nodes(object)
  BY <1>2, <1>9, ChildOf
<1> DEFINE q == IF w = "dropped" THEN f.parts ELSE Grown(f.parts, v)
           h == With(f, f.data, q, Tail(f.script))
<1>11. v = Image(k + 1, x)
  BY <1>6, <1>7, <1>9
<1>12. Matched(h, k, z, e + 1) /\ (w = "name" => x.type = "unicode")
  <2> HIDE DEF f
  <2>1. /\ w = "dropped" => Matched(With(f, f.data, f.parts, Tail(f.script)), k, z, e + 1)
        /\ w # "dropped" => Matched(With(f, f.data, Grown(f.parts, v), Tail(f.script)), k, z, e + 1)
        /\ w = "name" => x.type = "unicode"
    BY <1>2, <1>8, <1>9, <1>10, <1>11, ParentGoes
  <2>2. CASE w = "dropped"
    BY <2>1, <2>2
  <2>3. CASE w # "dropped"
    BY <2>1, <2>3
  <2>. QED
    BY <2>2, <2>3
<1>13. frames' = Popped(h, frames)
  <2>1. frames' = <<[f EXCEPT !.script = Tail(@), !.parts = q]>> \o SubSeq(frames, 3, Len(frames))
    BY <1>7 DEF Return, Grown
  <2> HIDE DEF q, f
  <2>2. [f EXCEPT !.script = Tail(@), !.parts = q] = h
    BY <1>8, WithIs
  <2>. QED
    BY <2>1, <2>2 DEF Popped
<1>14. phase' = "read"
  <2>1. phase' = IF w = "name" /\ Complete(Top).type # "unicode" THEN "undefined" ELSE phase
    BY DEF Return
  <2>. QED
    BY <1>1, <1>6, <1>12, <2>1
<1> HIDE DEF h, w, f
<1>15. Goes(file, Popped(h, frames), pos)
  <2>1. dn[g] = Len(Follows(ob[g])) /\ Matched(h, g - 1, ob[g - 1], dn[g - 1] + 1)
    BY <1>4, <1>6, <1>7, <1>12
  <2>. QED
    BY <1>2, <1>3, <1>4, <1>6, <2>1, Pops
<1>16. Popped(h, frames) # << >>
  BY <1>1, <1>2, PopOf
<1>17. UNCHANGED writer /\ pos' = pos /\ ~left'
  BY <1>1, <1>2
<1> QED
  BY <1>13, <1>14, <1>15, <1>16, <1>17, GoesOn

LEMMA RInvInit == Init => RInv
<1> SUFFICES ASSUME Init PROVE RInv
  OBVIOUS
<1>1. phase \in {"write", "written"} /\ left = FALSE
  BY DEF Init
<1> QED
  BY <1>1 DEF RInv

LEMMA RInvOpen ==
  ASSUME TInv, NEW n \in 0..Len(file), NEW s \in {"file", "memory"}, Open(n, s)
  PROVE  RInv'
<1>1. phase = "written" /\ phase' = "read" /\ UNCHANGED <<pos, frames, left>>
  BY DEF Open
<1>2. pos = 0 /\ ~left /\ frames = << >>
  BY <1>1 DEF TInv
<1> QED
  BY <1>1, <1>2 DEF RInv

LEMMA RInvWriter ==
  ASSUME TInv, phase \in {"write", "written"}, phase' \in {"write", "written"}, UNCHANGED left
  PROVE  RInv'
<1>1. ~left
  BY DEF TInv
<1> QED
  BY <1>1 DEF RInv

LEMMA RInvStutter ==
  ASSUME RInv, UNCHANGED vars
  PROVE  RInv'
<1>1. UNCHANGED writer /\ UNCHANGED <<object, layout, file, phase, pos, frames, result, left>>
  BY DEF vars, writer
<1>2. CASE ~Aims
  BY <1>1, <1>2, NoAim
<1>3. CASE Aims
  <2>1. phase' # "undefined" /\ ~left'
    BY <1>1, <1>3 DEF RInv
  <2>2. CASE phase = "done"
    <3>1. PICK o : o = object /\ result = Image(0, o)
      BY <1>3, <2>2 DEF RInv
    <3>2. Image(0, o)' = Image(0, o) /\ o = object'
      BY <1>1, <3>1, SameImage
    <3>3. (\E e : e = object /\ result = Image(0, e))'
      BY <1>1, <3>1, <3>2
    <3>4. pos' = Len(file')
      BY <1>1, <1>3, <2>2 DEF RInv
    <3>. QED
      BY <1>1, <2>1, <2>2, <3>3, <3>4 DEF RInv
  <2>3. CASE phase = "read" /\ frames # << >>
    <3>1. Goes(file, frames, pos)
      BY <1>3, <2>3 DEF RInv
    <3>2. PICK F, p : F = frames /\ p = pos
      OBVIOUS
    <3>. QED
      BY <1>1, <2>1, <2>3, <3>1, <3>2, GoesOn
  <2>4. CASE phase = "read" /\ frames = << >>
    <3>1. pos' = 0
      BY <1>1, <1>3, <2>4 DEF RInv
    <3>. QED
      BY <1>1, <2>1, <2>4, <3>1 DEF RInv
  <2>5. CASE phase \notin {"done", "read"}
    BY <1>1, <2>1, <2>5 DEF RInv
  <2>. QED
    BY <2>2, <2>3, <2>4, <2>5
<1> QED
  BY <1>2, <1>3

LEMMA RInvKept == TInv /\ WInv /\ RInv /\ [Next]_vars => RInv'
<1> SUFFICES ASSUME TInv, WInv, RInv, [Next]_vars PROVE RInv'
  OBVIOUS
<1>1. CASE WriteObject \/ WriteLong
  <2>1. phase = "write" /\ UNCHANGED left /\ Puts
    BY <1>1, WriterPuts DEF Puts
  <2>2. CASE phase' = "write"
    BY <2>1, <2>2, RInvWriter
  <2>3. CASE phase' = "undefined" /\ Head(agenda).do = "object" /\ Overruns(Head(agenda).node)
    <3>1. Head(agenda).node \in Nodes(object)
      BY <2>1, <2>3, AgendaOk, BytesType DEF Puts
    <3>2. ~Writable(object)
      BY <2>3, <3>1 DEF Writable
    <3>3. ~Writable(object)'
      BY <2>1, <3>2, SameWritable DEF Puts
    <3>. QED
      BY <3>3 DEF RInv, Aims
  <2>. QED
    BY <2>1, <2>2, <2>3 DEF Puts
<1>2. CASE Written
  <2>1. phase = "write" /\ phase' = "written" /\ UNCHANGED left
    BY <1>2 DEF Written
  <2>. QED
    BY <2>1, RInvWriter
<1>3. CASE \E n \in 0..Len(file), s \in {"file", "memory"} : Open(n, s)
  BY <1>3, RInvOpen
<1>4. CASE ReadRoot
  <2>1. UNCHANGED writer
    BY <1>4 DEF ReadRoot, Begin
  <2>. QED
    BY <1>4, <2>1, NoAim, ReadRootGoes
<1>5. CASE ReadPart
  <2>1. UNCHANGED writer
    BY <1>5 DEF ReadPart, Begin
  <2>. QED
    BY <1>5, <2>1, NoAim, ReadPartGoes
<1>6. CASE ReadLong
  <2>1. UNCHANGED writer
    BY <1>6 DEF ReadLong
  <2>. QED
    BY <1>6, <2>1, NoAim, ReadLongGoes
<1>7. CASE SkipLong
  <2>1. UNCHANGED writer
    BY <1>7 DEF SkipLong
  <2>. QED
    BY <1>7, <2>1, NoAim, SkipLongGoes
<1>8. CASE ReadFloat
  <2>1. UNCHANGED writer
    BY <1>8 DEF ReadFloat
  <2>. QED
    BY <1>8, <2>1, NoAim, ReadFloatGoes
<1>9. CASE ReadLength
  <2>1. UNCHANGED writer
    BY <1>9 DEF ReadLength
  <2>. QED
    BY <1>9, <2>1, NoAim, ReadLengthGoes
<1>10. CASE ReadContent
  <2>1. UNCHANGED writer
    BY <1>10 DEF ReadContent
  <2>. QED
    BY <1>10, <2>1, NoAim, ReadContentGoes
<1>11. CASE Return
  <2>1. UNCHANGED writer
    BY <1>11 DEF Return
  <2>. QED
    BY <1>11, <2>1, NoAim, ReturnLast, ReturnPart
<1>12. CASE UNCHANGED vars
  BY <1>12, RInvStutter
<1> QED
  BY <1>1, <1>2, <1>3, <1>4, <1>5, <1>6, <1>7, <1>8, <1>9, <1>10, <1>11, <1>12 DEF Next

(* What the program writes it reads again: all of it, in both layouts, with *)
(* nothing left locked and without a read beyond the end, if the end of the *)
(* file was not lost and what was written is Writable.                      *)
THEOREM ReadsWhatWasWritten == Spec => []Restores
<1>1. Init => TInv /\ WInv /\ RInv
  BY InitOk, WayInit, RInvInit
<1>2. TInv /\ WInv /\ RInv /\ [Next]_vars => (TInv /\ WInv /\ RInv)'
  BY TypesKept, WayHolds, RInvKept
<1>3. RInv => Restores
  <2> SUFFICES ASSUME RInv, Aims PROVE Gives(Restored(object)[Depth][object])
    BY DEF Restores, Aims
  <2>1. phase # "undefined" /\ ~left
    BY DEF RInv
  <2>2. ASSUME phase = "done"
        PROVE  pos = Len(file) /\ result = Restored(object)[Depth][object]
    <3>1. pos = Len(file) /\ result = Image(0, object)
      BY <2>2 DEF RInv
    <3>2. Depth - 0 = Depth
      BY SizesAssumption
    <3>. QED
      BY <3>1, <3>2 DEF Image
  <2>. QED
    BY <2>1, <2>2 DEF Gives
<1> QED
  BY <1>1, <1>2, <1>3, PTL DEF Spec
=============================================================================
