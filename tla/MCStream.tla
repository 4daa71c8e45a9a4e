------------------------------ MODULE MCStream ------------------------------
(***************************************************************************)
(* Small programs for module Stream, and what reading them should give.    *)
(***************************************************************************)
EXTENDS Stream

None == NoneObject
IntObject(n) == Node("int", <<n>>, << >>)
Float(d) == Node("float", d, << >>)
Str(d) == Node("string", d, << >>)
Name(d) == Node("unicode", d, << >>)
Tup(s) == Node("tuple", << >>, s)

-----------------------------------------------------------------------------
(* The layouts of the files, as CPython writes them and the reader expects *)
(* them.  (marshal; a file has a name and a table of lines as well.)       *)
RECURSIVE Encode(_, _), EncodeAll(_, _)

EncodeAll(s, l) == IF s = << >> THEN << >> ELSE Encode(Head(s), l) \o EncodeAll(Tail(s), l)

Longs(s) == IF Len(s) = 5
            THEN LongBytes(s[1]) \o LongBytes(s[2]) \o LongBytes(s[3]) \o LongBytes(s[4])
                 \o LongBytes(s[5])
            ELSE LongBytes(s[1]) \o LongBytes(s[2]) \o LongBytes(s[3]) \o LongBytes(s[4])

Encode(o, l) ==
  <<Char(o.type)>> \o
  CASE o.type = "none"                 -> << >>
    [] o.type = "int"                  -> LongBytes(o.data[1])
    [] o.type = "float"                -> o.data
    [] o.type \in {"string", "unicode"} -> LongBytes(Len(o.data)) \o o.data
    [] o.type = "tuple"                -> LongBytes(Len(o.parts)) \o EncodeAll(o.parts, l)
    [] o.type = "code" ->
         IF l = "pyc"
         THEN Longs(o.data) \o EncodeAll(SubSeq(o.parts, 1, 6) \o <<Name(<<3>>), o.parts[7]>>, l)
              \o LongBytes(1) \o Encode(Str(<<1, 2>>), l)
         ELSE Longs(<<o.data[1], o.data[2], o.data[3], o.data[5]>>) \o EncodeAll(o.parts, l)

(* An object as it is after it was read: the cells are pairs, a float has  *)
(* lost its lower digits, and rpyc+ knows no stack size.                   *)
RECURSIVE Loaded(_, _)
Loaded(o, l) ==
  LET parts == [i \in DOMAIN o.parts |-> Loaded(o.parts[i], l)] IN
  IF o.type = "float" THEN [o EXCEPT !.data = Narrow(@)]
  ELSE IF o.type # "code" THEN [o EXCEPT !.parts = parts]
  ELSE [o EXCEPT !.parts = [parts EXCEPT ![5] = Cells(@), ![6] = Cells(@)],
                 !.data[4] = IF l = "plus" THEN 0 ELSE @]

-----------------------------------------------------------------------------
Code(data, code, consts, names, varnames, free, cell, name) ==
  Node("code", data, <<Str(code), Tup(consts), Tup(names), Tup(varnames), Tup(free),
                       Tup(cell), Name(name)>>)

Module == Code(<<0, 0, 0, 2, 1>>, <<1, 0>>, <<IntObject(-1), None>>, <<Name(<<5>>)>>, << >>, << >>,
               << >>, <<7>>)
Inner == Code(<<1, 0, 1, 1, 3>>, <<2>>, <<Float(<<1, 2>>)>>, << >>, <<Name(<<5>>)>>,
              <<Name(<<6>>)>>, << >>, <<8>>)
Outer == Code(<<0, 0, 1, 3, 3>>, <<4, 5>>, <<Inner, Str(<< >>)>>, << >>, << >>, << >>,
              <<Name(<<6>>)>>, <<9>>)

(* Nothing in it is empty. *)
Full(consts) ==
  Code(<<1, 0, 1, 2, 3>>, <<1>>, consts, <<Name(<<5>>)>>, <<Name(<<6>>)>>,
       <<Node("kv", << >>, <<Name(<<7>>)>>)>>, <<Node("kv", << >>, <<Name(<<4>>)>>)>>, <<8>>)

SomeFiles ==
  {[object |-> Loaded(o, "pyc"), layout |-> "pyc", bytes |-> Encode(o, "pyc")] :
     o \in {Module, Outer, Tup(<<Tup(<< >>), Name(<<0, 1>>)>>)}}
  \cup
  {[object |-> Loaded(o, "plus"), layout |-> "plus", bytes |-> Encode(o, "plus")] :
     o \in {Module, Inner}}

SomeObjects ==
  {Tup(<<IntObject(-1), Tup(<<None, Name(<<5>>)>>), Str(<<0, 1>>)>>), Name(<<5, 0>>), Tup(<< >>),
   Full(<<IntObject(3), None>>), Full(<<Full(<<None>>)>>), Loaded(Module, "pyc"),
   Tup(<<Float(<<0, 2>>), None>>)}
SomePrograms == {Loaded(Module, "pyc")}

-----------------------------------------------------------------------------
(* A whole pyc file gives the object that is in it, with nested functions, *)
(* empty tuples and all, its floats as precise as a float is; an rpyc+     *)
(* file, that of a program without functions.  Everything is read, and     *)
(* nothing stays locked.                                                   *)
ReadsFormat == ~cut /\ ~written => Gives(object)

(* What compress_pyc is for: a program that was read can be written, and   *)
(* can be read again.                                                      *)
RoundTrip == ~cut /\ written => phase # "undefined"
=============================================================================
