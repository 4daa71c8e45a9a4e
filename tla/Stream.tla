------------------------------- MODULE Stream -------------------------------
(***************************************************************************)
(* Reading and writing objects (stream.c): a program is written into a     *)
(* file, in the layout of pyc files or in the shorter one of rpyc+, and is *)
(* read again, from a file or from memory (compress_pyc, vm_RunRPYC); or   *)
(* it is read from a file that was there (vm_RunPYC).  The file may end    *)
(* too soon: no result of stream_Read and stream_Write is looked at.       *)
(*                                                                         *)
(* An object is a tree: its type, its data (the longs of a code object,    *)
(* the value of an int, the bytes of a string, of a name, of a float), and *)
(* its parts (the items of a tuple, the key of a pair, the objects of a    *)
(* code object: code, consts, names, varnames, freevars, cellvars, name).  *)
(* The recursion of the reader is a stack of frames, one for each object   *)
(* that is not complete; that of the writer an agenda.  Bytes are digits   *)
(* of base Base; a long is LongSize of them, the lowest one first.  The    *)
(* FloatSize bytes of a float are those of a double, as in the file; the   *)
(* program keeps a float, which has fewer.                                 *)
(***************************************************************************)
EXTENDS Integers, Sequences

CONSTANTS
  Base, LongSize, FloatSize,
  Wide,      \* a long of the program has more bytes than one of a file
  Objects,   \* what is written
  Depth,     \* bound: no object of them is nested deeper
  Files      \* files to be read: [object, layout, bytes]

ASSUME SizesAssumption ==
  /\ Base \in Nat /\ Base > 10
  /\ LongSize \in Nat \ {0} /\ FloatSize \in Nat \ {0}
  /\ Wide \in BOOLEAN /\ Depth \in Nat

VARIABLES
  phase,     \* "write", "written", "read", "done", "undefined"
  object,    \* what was written or should be read
  written,   \* the file was written by the program
  layout,    \* "pyc" or "plus"
  agenda,    \* what is left to write
  file,
  cut,       \* the file has lost its end
  source,    \* the reader's stream: "file" or "memory"
  pos,
  frames,    \* the innermost object first
  result,
  left       \* a short read of memory left its locks

vars == <<phase, object, written, layout, agenda, file, cut, source, pos, frames,
          result, left>>
writer == <<object, written, layout, agenda, file, cut, source>>

Layouts == {"pyc", "plus"}

Types == <<"none", "int", "float", "string", "unicode", "tuple", "code", "kv">>

Char(t) == CHOOSE c \in DOMAIN Types : Types[c] = t
TypeOf(c) == IF c \in DOMAIN Types /\ Types[c] # "kv" THEN Types[c] ELSE "unknown"

Node(t, d, p) == [type |-> t, data |-> d, parts |-> p]
Unknown == Node("unknown", << >>, << >>)

-----------------------------------------------------------------------------
(* Longs, as the program keeps them (stream_ReadLong, stream_WriteLong).   *)

Power[n \in 0..LongSize] == IF n = 0 THEN 1 ELSE Base * Power[n - 1]

LongBytes(n) == [i \in 1..LongSize |-> ((n % Power[LongSize]) \div Power[i - 1]) % Base]

(* The value of the first n bytes. *)
Value(bytes) ==
  LET upTo[n \in 0..LongSize] == IF n = 0 THEN 0 ELSE upTo[n - 1] + bytes[n] * Power[n - 1]
  IN  upTo[LongSize]

(* The bytes are copied into a long that is 0: on a machine whose longs    *)
(* are wider no number is negative.                                        *)
Long(bytes) ==
  IF ~Wide /\ 2 * Value(bytes) >= Power[LongSize]
  THEN Value(bytes) - Power[LongSize] ELSE Value(bytes)

-----------------------------------------------------------------------------
(* The writer.                                                             *)

ObjectTask(o) == [do |-> "object", node |-> o, n |-> 0]
LongTask(n) == [do |-> "long", node |-> Unknown, n |-> n]

Tasks(s) == [i \in DOMAIN s |-> ObjectTask(s[i])]

Empty == Node("unicode", << >>, << >>)
NoneObject == Node("none", << >>, << >>)

(* The longs and the objects of a code object in the two layouts. *)
CodeLongs(o) ==
  IF layout = "pyc" THEN o.data ELSE <<o.data[1], o.data[2], o.data[3], o.data[5]>>

CodeTasks_NoLines(o) ==
  Tasks(SubSeq(o.parts, 1, 6))
  \o (IF layout = "pyc" THEN <<ObjectTask(Empty)>> ELSE << >>)
  \o <<ObjectTask(o.parts[7])>>
  \o (IF layout = "pyc" THEN <<ObjectTask(NoneObject)>> ELSE << >>)

CodeTasks(o) ==
  Tasks(SubSeq(o.parts, 1, 6))
  \o (IF layout = "pyc" THEN <<ObjectTask(Empty)>> ELSE << >>)
  \o <<ObjectTask(o.parts[7])>>
  \o (IF layout = "pyc" THEN <<LongTask(0), ObjectTask(NoneObject)>> ELSE << >>)

LongTasks(s) == [i \in DOMAIN s |-> LongTask(s[i])]

(* What follows the type of an object: a tuple without items writes its    *)
(* length twice, a pair nothing.                                           *)
Follows(o) ==
  CASE o.type = "int"   -> LongTasks(o.data)
    [] o.type = "tuple" -> <<LongTask(Len(o.parts))>>
                           \o (IF o.parts = << >> THEN <<LongTask(0)>> ELSE Tasks(o.parts))
    [] o.type = "code"  -> LongTasks(CodeLongs(o)) \o CodeTasks(o)
    [] OTHER            -> << >>

(* obj_GetUnicodeLen is strlen. *)
Text(d) ==
  IF \E i \in DOMAIN d : d[i] = 0
  THEN SubSeq(d, 1, (CHOOSE i \in DOMAIN d : d[i] = 0 /\ \A j \in 1..(i - 1) : d[j] # 0) - 1)
  ELSE d

Payload(o) ==
  CASE o.type = "string"  -> LongBytes(Len(o.data)) \o o.data
    [] o.type = "unicode" -> LongBytes(Len(Text(o.data))) \o Text(o.data)
    [] o.type = "float"   -> o.data
    [] OTHER              -> << >>

(* stream_WriteFloat puts the bytes of a double into the memory of half as *)
(* many, and takes them from there.                                        *)
Overruns(o) == o.type = "float"

(* stream_WriteObject, stream_WriteObjectPlus *)
WriteObject ==
  /\ phase = "write" /\ agenda # << >>
  /\ Head(agenda).do = "object"
  /\ LET o == Head(agenda).node
     IN  /\ file' = file \o <<Char(o.type)>> \o Payload(o)
         /\ agenda' = Follows(o) \o Tail(agenda)
         /\ phase' \in IF Overruns(o) THEN {phase, "undefined"} ELSE {phase}
  /\ UNCHANGED <<object, written, layout, cut, source, pos, frames, result, left>>

WriteLong ==
  /\ phase = "write" /\ agenda # << >>
  /\ Head(agenda).do = "long"
  /\ file' = file \o LongBytes(Head(agenda).n)
  /\ agenda' = Tail(agenda)
  /\ UNCHANGED <<phase, object, written, layout, cut, source, pos, frames, result, left>>

Written ==
  /\ phase = "write" /\ agenda = << >>
  /\ phase' = "written"
  /\ UNCHANGED <<writer, pos, frames, result, left>>

(* The file is opened.  Its end may be lost: the disk was full, the file   *)
(* or the array of its bytes is not whole.                                 *)
Open(n, s) ==
  /\ phase = "written"
  /\ phase' = "read"
  /\ file' = SubSeq(file, 1, n)
  /\ cut' = (n < Len(file))
  /\ source' = s
  /\ UNCHANGED <<object, written, layout, agenda, pos, frames, result, left>>

-----------------------------------------------------------------------------
(* The reader.  stream_Read of n bytes into a cleared buffer.  A short     *)
(* read of a file gets what is there; one of memory gets nothing, does not *)
(* move, and leaves its three locks.                                       *)
Short(n) == pos + n > Len(file)

Zeros(n) == [i \in 1..n |-> 0]

Got(n) ==
  IF ~Short(n) THEN SubSeq(file, pos + 1, pos + n)
  ELSE IF source = "memory" THEN Zeros(n)
  ELSE SubSeq(file, pos + 1, Len(file)) \o Zeros(pos + n - Len(file))

Read_PastEnd(n) ==
  /\ pos' = pos + n
  /\ left' = left

Read(n) ==
  /\ pos' = IF ~Short(n) THEN pos + n ELSE IF source = "memory" THEN pos ELSE Len(file)
  /\ left' = (left \/ (Short(n) /\ source = "memory"))

(* What is to be read after the type of an object. *)
CodeScript_NoLines(l) ==
  IF l = "pyc"
  THEN <<"long", "long", "long", "long", "long",
         "object", "object", "object", "object", "object", "object",
         "dropped", "name", "dropped">>
  ELSE <<"long", "long", "long", "long",
         "object", "object", "object", "object", "object", "object", "name">>

CodeScript(l) ==
  IF l = "pyc"
  THEN <<"long", "long", "long", "long", "long",
         "object", "object", "object", "object", "object", "object",
         "dropped", "name", "skipped", "dropped">>
  ELSE <<"long", "long", "long", "long",
         "object", "object", "object", "object", "object", "object", "name">>

Script(t, l) ==
  CASE t = "int"                   -> <<"long">>
    [] t \in {"string", "unicode"} -> <<"bytes">>
    [] t = "float"                 -> <<"float">>
    [] t = "tuple"                 -> <<"count">>
    [] t = "code"                  -> CodeScript(l)
    [] OTHER                       -> << >>

Frame(t, l) ==
  [type |-> t, layout |-> l, data |-> << >>, parts |-> << >>, script |-> Script(t, l)]

Top == frames[1]

Wants(what) == phase = "read" /\ frames # << >> /\ Top.script # << >> /\ Head(Top.script) = what

(* The items of a tuple are always read by stream_ReadObject. *)
ItemLayout == IF Top.type = "tuple" THEN "pyc" ELSE Top.layout

Begin_Waits(l) ==
  /\ ~Short(1)
  /\ frames' = <<Frame(TypeOf(Got(1)[1]), l)>> \o frames
  /\ Read(1)
  /\ UNCHANGED <<phase, writer, result>>

Begin(l) ==
  /\ frames' = <<Frame(TypeOf(Got(1)[1]), l)>> \o frames
  /\ Read(1)
  /\ UNCHANGED <<phase, writer, result>>

ReadRoot ==
  /\ phase = "read" /\ frames = << >>
  /\ Begin(layout)

ReadPart ==
  /\ \E w \in {"object", "dropped", "name"} : Wants(w)
  /\ Begin(ItemLayout)

Replace(f) == frames' = <<[f EXCEPT !.script = Tail(@)]>> \o Tail(frames)

ReadLong ==
  /\ Wants("long")
  /\ Replace([Top EXCEPT !.data = Append(@, Long(Got(LongSize)))])
  /\ Read(LongSize)
  /\ UNCHANGED <<phase, writer, result>>

SkipLong ==
  /\ Wants("skipped")
  /\ Replace(Top)
  /\ Read(LongSize)
  /\ UNCHANGED <<phase, writer, result>>

(* The double becomes a float: its lower digits are lost.                  *)
Narrow(d) == [i \in DOMAIN d |-> IF 2 * i <= FloatSize THEN 0 ELSE d[i]]

ReadFloat ==
  /\ Wants("float")
  /\ Replace([Top EXCEPT !.data = Narrow(Got(FloatSize))])
  /\ Read(FloatSize)
  /\ UNCHANGED <<phase, writer, result>>

(* The length of a string or of a tuple, and then its bytes or items. *)
ReadLength ==
  /\ Wants("bytes") \/ Wants("count")
  /\ LET n    == Long(Got(LongSize))
         more == IF Head(Top.script) = "count" THEN [i \in 1..n |-> "object"]
                 ELSE IF n = 0 THEN << >> ELSE <<"content">>
     IN  IF n < 0 /\ Top.type = "unicode"
         THEN phase' = "undefined" /\ UNCHANGED frames
         ELSE /\ frames' = <<[Top EXCEPT !.script = IF n <= 0 THEN << >> ELSE more,
                                          !.data = IF more = <<"content">> THEN <<n>> ELSE << >>]>>
                           \o Tail(frames)
              /\ UNCHANGED phase
  /\ Read(LongSize)
  /\ UNCHANGED <<writer, result>>

(* (What is not read of a string is what the memory held.) *)
ReadContent ==
  /\ Wants("content")
  /\ LET n == Head(Top.data)
     IN  Replace([Top EXCEPT !.data = Got(n)]) /\ Read(n)
  /\ UNCHANGED <<phase, writer, result>>

(* tuple_ConvertToDict: the names of the cells become pairs. *)
Cells(o) ==
  IF o.type # "tuple" THEN o
  ELSE [o EXCEPT !.parts = [i \in DOMAIN @ |-> Node("kv", << >>, <<@[i]>>)]]

(* rpyc+ has no stack size. *)
Complete(f) ==
  CASE f.type = "unknown" -> Unknown
    [] f.type = "code" ->
         Node("code",
              IF f.layout = "pyc" THEN f.data
              ELSE <<f.data[1], f.data[2], f.data[3], 0, f.data[4]>>,
              [f.parts EXCEPT ![5] = Cells(@), ![6] = Cells(@)])
    [] OTHER -> Node(f.type, f.data, f.parts)

(* An object is complete, and is returned to the one it is part of.  The   *)
(* name of a code object is taken for a text whatever it is.               *)
Return ==
  /\ phase = "read" /\ frames # << >> /\ Top.script = << >>
  /\ LET o == Complete(Top) IN
       IF Len(frames) = 1
       THEN phase' = "done" /\ result' = o /\ frames' = << >>
       ELSE LET f    == frames[2]
                what == Head(f.script)
                next == [f EXCEPT !.script = Tail(@),
                                  !.parts = IF what = "dropped" THEN @ ELSE Append(@, o)]
            IN  /\ phase' = IF what = "name" /\ o.type # "unicode" THEN "undefined" ELSE phase
                /\ frames' = <<next>> \o SubSeq(frames, 3, Len(frames))
                /\ UNCHANGED result
  /\ UNCHANGED <<writer, pos, left>>

-----------------------------------------------------------------------------
Init ==
  /\ pos = 0 /\ frames = << >> /\ result = Unknown /\ left = FALSE /\ cut = FALSE
  /\ source = "file"
  /\ \/ /\ phase = "write" /\ written = TRUE
        /\ object \in Objects /\ layout \in Layouts
        /\ agenda = <<ObjectTask(object)>> /\ file = << >>
     \/ /\ phase = "written" /\ agenda = << >> /\ written = FALSE
        /\ \E f \in Files : object = f.object /\ layout = f.layout /\ file = f.bytes

Next ==
  \/ WriteObject \/ WriteLong \/ Written
  \/ \E n \in 0..Len(file), s \in {"file", "memory"} : Open(n, s)
  \/ ReadRoot \/ ReadPart \/ ReadLong \/ SkipLong \/ ReadFloat \/ ReadLength
  \/ ReadContent \/ Return

Spec == Init /\ [][Next]_vars /\ WF_vars(Next)
-----------------------------------------------------------------------------
(* The objects that writing o comes to, each generation those that are     *)
(* written for one of the generation before.                               *)
Children(o) ==
  CASE o.type = "tuple" -> {o.parts[i] : i \in DOMAIN o.parts}
    [] o.type = "code"  -> {o.parts[i] : i \in DOMAIN o.parts} \cup {Empty, NoneObject}
    [] OTHER            -> {}

Generations(o) ==
  LET of[n \in 0..Depth] == IF n = 0 THEN {o} ELSE UNION {Children(x) : x \in of[n - 1]}
  IN  of

Nodes(o) == UNION {Generations(o)[n] : n \in 0..Depth}

(* What an object of each type is made of. *)
Sound(o) ==
  /\ o = Node(o.type, o.data, o.parts)
  /\ o.type \in {Types[c] : c \in DOMAIN Types}
  /\ o.data \in Seq(Int) /\ o.parts \in Seq({o.parts[i] : i \in DOMAIN o.parts})
  /\ o.type \notin {"tuple", "code", "kv"} => o.parts = << >>
  /\ o.type \in {"none", "tuple"} => o.data = << >>
  /\ o.type = "int" => Len(o.data) = 1
  /\ o.type = "float" => Len(o.data) = FloatSize
  /\ o.type = "code" => Len(o.data) = 5 /\ Len(o.parts) = 7 /\ o.parts[7].type = "unicode"

ASSUME ObjectsAssumption ==
  \A o \in Objects : /\ \A x \in Nodes(o) : Sound(x)
                     /\ \A x \in Generations(o)[Depth] : Children(x) = {}

ASSUME FilesAssumption == \A f \in Files : f.layout \in Layouts /\ f.bytes \in Seq(Int)

(* The numbers that a long of a file gives back. *)
Fits(n) ==
  IF Wide THEN n \in 0..(Power[LongSize] - 1)
  ELSE -Power[LongSize] <= 2 * n /\ 2 * n < Power[LongSize]

(* A tuple that has a code object among its items, as the constants of a   *)
(* program with functions. *)
HasCode(o) == o.type = "tuple" /\ \E i \in DOMAIN o.parts : o.parts[i].type = "code"

(* Objects without empty tuples, floats, texts with a zero in them,        *)
(* numbers and lengths that no long has, and, in rpyc+, code objects in    *)
(* tuples.                                                                 *)
Writable(o) ==
  \A x \in Nodes(o) :
    /\ x.type = "tuple" => x.parts # << >> /\ Fits(Len(x.parts))
    /\ ~Overruns(x)
    /\ x.type = "unicode" => \A i \in DOMAIN x.data : x.data[i] # 0
    /\ x.type \in {"string", "unicode"} => Fits(Len(x.data))
    /\ x.type \in {"int", "code"} => \A i \in DOMAIN x.data : Fits(x.data[i])
    /\ layout = "plus" => ~HasCode(x)

(* What is left of an object, when it has been written and read again, and *)
(* of its parts: the cells are pairs without their names, and rpyc+ knows  *)
(* no stack size.                                                          *)
Kept(o, parts) ==
  CASE o.type = "kv"   -> Unknown
    [] o.type = "code" ->
         Node("code", IF layout = "plus" THEN [o.data EXCEPT ![4] = 0] ELSE o.data,
              [parts EXCEPT ![5] = Cells(@), ![6] = Cells(@)])
    [] OTHER -> Node(o.type, o.data, parts)

Restored(o) ==
  LET of[n \in 0..Depth] ==
        [x \in Generations(o)[Depth - n] |->
           Kept(x, IF n = 0 THEN << >>
                   ELSE [i \in DOMAIN x.parts |-> of[n - 1][x.parts[i]]])]
  IN  of

Gives(o) ==
  /\ phase # "undefined" /\ ~left
  /\ phase = "done" => result = o /\ pos = Len(file)

(* Reading ends, wherever the file ends: a read beyond it gives zeros, and *)
(* no object begins with one.                                              *)
Ends == <>(phase \in {"done", "undefined"})

(* Reading follows the file to its end, and no further, whatever the file  *)
(* holds and wherever it ends; only a short read of memory leaves locks.   *)
Within ==
  /\ pos \in 0..Len(file)
  /\ left => source = "memory"

(* What the program writes it reads again, all of it, and nothing stays    *)
(* locked.                                                                 *)
Restores == ~cut /\ written /\ Writable(object) => Gives(Restored(object)[Depth][object])
=============================================================================
