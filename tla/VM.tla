--------------------------------- MODULE VM ---------------------------------
(***************************************************************************)
(* The machine of vm.c with its iterators (iterators.c).  The machine has  *)
(* one stack of blocks: a called function is a block, and so is every loop *)
(* and every `with' in it, each with a value stack of its own.  A step     *)
(* interprets the instruction of the top block.  Some instructions run the *)
(* machine from within: FOR_ITER resumes a generator, map calls a function *)
(* and returning from a class calls __init__.  These are C calls, kept in  *)
(* `frames'; each has its own loop around vm_Step and its own idea of when *)
(* to stop, and all of them share the one stack of blocks.                 *)
(*                                                                         *)
(* An instruction counts as one place of the code, whatever its length.    *)
(* Values are an item, None, a tuple that is a constant of the code, or    *)
(* the id of an iterator; the other values and the counts that free them   *)
(* are module RefCount's.  Items hold no iterators and are not looped      *)
(* over.  A loop over a tuple keeps its position in the tuple, and every   *)
(* loop over this tuple, in whatever call, has that position (module       *)
(* Tuples).  A variable of a function knows which activation stored it.    *)
(***************************************************************************)
EXTENDS Ascending, SequencesExt

CONSTANTS
  Code,         \* name -> kind, ops, the stack before each op, the number of
                \* variables and how many of them are arguments, and, for a
                \* class, its bases and the function that is its __init__
  Main,         \* names of the programs vm_RunObject may be given
  MaxIds,       \* bound on the ids of blocks and iterators
  MaxItems,     \* bound on the length of a tuple or range
  Tuples,       \* the constants of the code that are tuples, of items
  LevelWidth,   \* values of a BOOL, an unsigned char: 256
  Nothing,      \* the id 0
  Item, None    \* any value but None, and None

ASSUME VMAssumption ==
  /\ Main \subseteq DOMAIN Code
  /\ MaxIds \in Nat \ {0} /\ MaxItems \in Nat
  /\ LevelWidth \in Nat /\ LevelWidth > 0
  /\ {Nothing, Item, None} \cap 1..MaxIds = {}
  /\ Nothing # Item /\ Nothing # None /\ Item # None
  /\ Tuples \cap (1..MaxIds \cup {Nothing, Item, None}) = {}

-----------------------------------------------------------------------------
(* The code as the compiler of Python lays it out: places are counted from *)
(* 0, as the machine's ip.                                                 *)
Kind(name) == Code[name].kind

Places(f) == 0..Len(Code[f].ops) - 1

At(f, p) == Code[f].ops[p + 1]

\* The loops and withs, and the places of the block that each sets up.
Setups(f) == {p \in Places(f) : At(f, p).op \in {"setup_loop", "setup_with"}}

Behind(f, q) == q + 1 + At(f, q).arg

Inner(f, q) == q + 1 .. Behind(f, q) - 1

Outside(f) == {p \in Places(f) : \A q \in Setups(f) : p \notin Inner(f, q)}

GoesTo(f, p) ==
  LET l == At(f, p)
  IN  CASE l.op = "jump" -> {l.arg}
        [] l.op \in {"branch", "jump_if"} -> {p + 1, l.arg}
        [] l.op = "for_iter" -> {p + 1, p + 1 + l.arg}
        [] l.op \in {"setup_loop", "setup_with"} -> {Behind(f, p)}
        [] l.op = "yield" -> {p + 2}
        [] OTHER -> {p + 1}

\* How many operands an instruction takes or moves.
Needs(l) ==
  CASE l.op \in {"dup_top", "rotate", "compute", "store", "raise", "build"} -> l.arg
    [] l.op = "list_append" -> l.arg + 1
    [] l.op = "call" -> l.arg.takes
    [] l.op = "map" -> 3
    [] l.op \in {"ask", "drain", "import", "range"} -> 2
    [] l.op \in {"store_fast", "get_iter", "for_iter", "branch", "jump_if",
                 "setup_with", "return", "yield"} -> 1
    [] OTHER -> 0

\* No jump leaves a loop or enters one, and a function ends with a return.
Nestable(f) ==
  /\ 0 \in Outside(f)
  /\ \A p \in Places(f) : GoesTo(f, p) \subseteq 0..Len(Code[f].ops)
  /\ \A q \in Setups(f) :
       /\ Behind(f, q) \in Places(f)
       /\ \A p \in Inner(f, q) : GoesTo(f, p) \subseteq q + 1 .. Behind(f, q)
  /\ \A p \in Outside(f) :
       /\ At(f, p).op \notin {"pop_block", "break"}
       /\ At(f, p).op \in {"return", "raise"} \/ GoesTo(f, p) \subseteq Outside(f)

\* The operands of an instruction are on the stack.
Supplied(f, p) ==
  LET l == At(f, p)
      s == Code[f].shape[p + 1]
  IN  /\ s \in Seq({"iter", "value"})
      /\ Needs(l) \in 0..Len(s)
      /\ l.op = "load" => l.arg \in {Item, None} \cup Tuples
      /\ l.op \in {"load_fast", "store_fast"} => l.arg \in 1..Code[f].vars
      /\ l.op \in {"for_iter", "setup_loop", "setup_with"} => l.arg \in Nat
      /\ l.op \in {"rotate", "call"} => Needs(l) > 0
      /\ l.op = "call" => l.arg.callees \subseteq DOMAIN Code
      /\ l.op = "map" => /\ \A g \in l.arg : g \in DOMAIN Code /\ Kind(g) = "function"
                        /\ s[Len(s)] = "iter"

VARIABLES
  heap,     \* what each id is: a block, an iterator, or free
  blocks,   \* vm->blocks
  shared,   \* classes whose code is flagged CO_SUB_CLASS_ROOT
  globals,  \* modules that were imported, in vm->globals
  varnames, \* the variables of each code object that is not copied
  tuples,   \* the position and the length of each tuple
  frames,   \* the C calls that are running the machine
  phase,    \* where the innermost of them is
  ret       \* the value that a step or an iterator gave it

statics == <<shared, globals, varnames, tuples>>
vars == <<heap, blocks, statics, frames, phase, ret>>

-----------------------------------------------------------------------------
Ids == 1..MaxIds

Free == [type |-> "free"]

\* `scope' is the block that holds the variables, or 0 for a code object
\* that was not copied.
Block(name, at, end, items, flag, scope, held) ==
  [type |-> "block", code |-> name, start |-> at, ip |-> at, len |-> end,
   stack |-> items, flag |-> flag, scope |-> scope, varnames |-> held]

NewBlock(name, items, flag, scope, held) ==
  Block(name, 0, Len(Code[name].ops), items, flag, scope, held)

Sequence(n) == [type |-> "sequence", pos |-> 0, len |-> n]

Iteration(t) == [type |-> "iteration", tag |-> t]

Generator(b) == [type |-> "generator", tag |-> b, saved |-> <<>>]

\* stack_Top and stack_Pop give 0 for an empty stack, which has no top;
\* stack_Push ignores 0.
stack_Top(s) == IF s = <<>> THEN Nothing ELSE Last(s)
Popped(s, n) == SubSeq(s, 1, Len(s) - n)
Pushed(s, x) == IF x = Nothing THEN s ELSE Append(s, x)

\* What obj_Alloc gives, one after the other.
FreeIds == {i \in Ids : heap[i] = Free}

Unused == Ascending(FreeIds)

Available(n) == Cardinality(FreeIds) >= n

\* A variable: the activation that stored it and what it stored.
Variable(b, x) == [by |-> b, value |-> x]

\* One that was not assigned yet is its name.
Unassigned == Variable(Nothing, Item)

ValuesIn(vs) == {v.value : v \in ToSet(vs)}

\* What an object keeps alive.
Refs(h, i) ==
  CASE h[i].type = "block" ->
         (ToSet(h[i].stack) \cup {h[i].scope} \cup ValuesIn(h[i].varnames)) \cap Ids
    [] h[i].type = "generator" -> {h[i].tag} \cup ToSet(h[i].saved)
    [] OTHER -> {}

Roots_Blocks(bs, fs, held, x) == ToSet(bs) \cup (Ids \cap {x})

Roots(bs, fs, held, x) ==
  ToSet(bs) \cup
    (Ids \cap ({x} \cup {fs[k].iter : k \in DOMAIN fs}
               \cup UNION {ValuesIn(held[f]) : f \in DOMAIN held}))

\* obj_ClearGC at the end of a step: what is in use stays, from the roots
\* along every chain of references.
Near(h, s) == s \cup UNION {Refs(h, i) : i \in s}

Kept(h, roots) ==
  LET reach[s \in SUBSET Ids] == IF Near(h, s) = s THEN s ELSE reach[Near(h, s)]
  IN  reach[roots]

Swept(h, kept) == [i \in Ids |-> IF i \in kept THEN h[i] ELSE Free]

\* A step ends: it swept the garbage and gives x to the loop around it.
EndsAfter(h, bs, fs, x) ==
  /\ heap' \in {Swept(h, kept) : kept \in {Kept(h, Roots(bs, fs, varnames', x))}}
  /\ blocks' = bs
  /\ frames' = fs
  /\ ret' = x
  /\ phase' = "check"

Ends(h, bs, fs, x) == UNCHANGED statics /\ EndsAfter(h, bs, fs, x)

\* A C call with a loop of its own, or an instruction that waits for one.
\* `base' is the block stack it found.
Frame(op, b, it, n, name) ==
  [op |-> op, block |-> b, iter |-> it, arg |-> n, name |-> name, base |-> blocks]

Caller == Last(frames)

-----------------------------------------------------------------------------
(* Fetching: the instruction at the top block's ip, which moves on.        *)
Current == Last(blocks)

Instruction == Code[heap[Current].code].ops[heap[Current].ip + 1]

Executing(op) ==
  /\ phase = "step"
  /\ blocks # <<>>
  /\ heap[Current].ip < heap[Current].len
  /\ Instruction.op = op

Fetched == [heap EXCEPT ![Current].ip = @ + 1]

Arg == Instruction.arg
Operands == heap[Current].stack
Taken(n) == [Fetched EXCEPT ![Current].stack = Popped(@, n)]

Init ==
  \E m \in Main :
    /\ heap = [i \in Ids |->
                 IF i = 1 THEN NewBlock(m, <<>>, "none", Nothing, <<>>) ELSE Free]
    /\ blocks = <<1>>
    /\ shared = {} /\ globals = {}
    /\ varnames = [f \in DOMAIN Code |-> [k \in 1..Code[f].vars |-> Unassigned]]
    /\ tuples \in [Tuples -> [pos : {0}, len : 0..MaxItems]]
    /\ frames = <<[op |-> "object", block |-> Nothing, iter |-> Nothing,
                   arg |-> 0, name |-> "", base |-> <<>>]>>
    /\ phase = "step"
    /\ ret = Nothing

-----------------------------------------------------------------------------
(* Instructions that stay within their block.                              *)
Load ==
  /\ Executing("load")
  /\ Ends([Fetched EXCEPT ![Current].stack = Append(@, Arg)],
          blocks, frames, Nothing)

\* DUP_TOP and DUP_TOP_TWO.
Uppermost(n) == SubSeq(Operands, Len(Operands) - n + 1, Len(Operands))

DupTop ==
  /\ Executing("dup_top")
  /\ Ends([Fetched EXCEPT ![Current].stack = @ \o Uppermost(Arg)],
          blocks, frames, Nothing)

\* ROT_TWO and ROT_THREE: the top goes below the others.
Rotate ==
  /\ Executing("rotate")
  /\ Ends([Fetched EXCEPT ![Current].stack =
              Popped(@, Arg) \o <<Last(@)>> \o Front(Uppermost(Arg))],
          blocks, frames, Nothing)

\* Arithmetic, comparisons, attributes: operands go, a result comes.
Compute ==
  /\ Executing("compute")
  /\ Ends([Taken(Arg) EXCEPT ![Current].stack = Append(@, Item)],
          blocks, frames, Nothing)

\* POP_TOP, STORE_NAME; STORE_ATTR and STORE_SUBSCR store into an item.
Store ==
  /\ Executing("store")
  /\ Ends(Taken(Arg), blocks, frames, Nothing)

\* LIST_APPEND: the list of a comprehension lies below its iterator.
ListAppend ==
  /\ Executing("list_append")
  /\ Operands[Len(Operands) - Arg] = Item
  /\ Ends(Taken(1), blocks, frames, Nothing)

-----------------------------------------------------------------------------
(* Variables of functions.  The blocks of the loops of a function are on   *)
(* the same code object and so on the same variables.                      *)
Activation == SelectLastInSeq(blocks, LAMBDA b : heap[b].start = 0)

Running == IF Activation = 0 THEN Nothing ELSE blocks[Activation]

Scope == heap[Current].scope
Variables == IF Scope = Nothing THEN varnames[heap[Current].code] ELSE heap[Scope].varnames

LoadFast ==
  /\ Executing("load_fast")
  /\ Ends([Fetched EXCEPT ![Current].stack = Pushed(@, Variables[Arg].value)],
          blocks, frames, Nothing)

StoreFast ==
  LET stored == Variable(Running, stack_Top(Operands))
  IN  /\ Executing("store_fast")
      /\ IF Scope = Nothing
         THEN /\ varnames' = [varnames EXCEPT ![heap[Current].code][Arg] = stored]
              /\ UNCHANGED <<shared, globals, tuples>>
              /\ EndsAfter(Taken(1), blocks, frames, Nothing)
         ELSE Ends([Taken(1) EXCEPT ![Scope].varnames[Arg] = stored],
                   blocks, frames, Nothing)

-----------------------------------------------------------------------------
\* tuple_ResetIteration.  (The position of an empty tuple is always 0.)
tuple_ResetIteration(t) == tuples' = [tuples EXCEPT ![t].pos = 0]

\* GET_ITER: an iterator is its own, an item has none.
GetIter ==
  LET x == stack_Top(Operands)
  IN  /\ Executing("get_iter")
      /\ \/ x \in Ids /\ Ends(Fetched, blocks, frames, Nothing)
         \/ /\ x \in Tuples
            /\ Available(1)
            /\ tuple_ResetIteration(x)
            /\ UNCHANGED <<shared, globals, varnames>>
            /\ EndsAfter([Taken(1) EXCEPT ![Current].stack = Append(@, Unused[1]),
                                          ![Unused[1]] = Iteration(x)],
                         blocks, frames, Nothing)
         \/ x \notin Ids \cup Tuples /\ Ends(Taken(1), blocks, frames, Nothing)

\* range of a number.
MakeRange ==
  /\ Executing("range")
  /\ Available(1)
  /\ \E n \in 0..MaxItems :
       Ends([Taken(2) EXCEPT ![Current].stack = Append(@, Unused[1]),
                             ![Unused[1]] = Sequence(n)],
            blocks, frames, Nothing)

Jump_Forward ==
  /\ Executing("jump")
  /\ Ends([Fetched EXCEPT ![Current].ip = @ + Arg], blocks, frames, Nothing)

Jump ==
  /\ Executing("jump")
  /\ Ends([heap EXCEPT ![Current].ip = Arg], blocks, frames, Nothing)

\* POP_JUMP_IF_FALSE and POP_JUMP_IF_TRUE on a value of either kind.
Branch ==
  /\ Executing("branch")
  /\ \E at \in {heap[Current].ip + 1, Arg} :
       Ends([Taken(1) EXCEPT ![Current].ip = at], blocks, frames, Nothing)

\* JUMP_IF_FALSE and JUMP_IF_TRUE keep the value when they jump.
JumpIf ==
  /\ Executing("jump_if")
  /\ \/ Ends([Fetched EXCEPT ![Current].ip = Arg], blocks, frames, Nothing)
     \/ Ends(Taken(1), blocks, frames, Nothing)

\* RAISE_VARARGS with the handler CatchException, which exits: there is no
\* block any more, and None is what the loop around vm_Step gets.
Raise ==
  /\ Executing("raise")
  /\ heap' = Taken(Arg)
  /\ blocks' = <<>>
  /\ ret' = None
  /\ phase' = "check"
  /\ UNCHANGED <<statics, frames>>

Setup_Waiting(items, n) ==
  LET at  == heap[Current].ip + 1
      new == Unused[1]
  IN  /\ Available(1)
      /\ Ends([Taken(n) EXCEPT
                 ![new] = Block(heap[Current].code, at, at + Arg, items,
                                heap[Current].flag, heap[Current].scope, <<>>)],
              Append(blocks, new), frames, Nothing)

-----------------------------------------------------------------------------
(* Blocks within a function.  The block that sets one up goes on behind it *)
(* at once; it is not the top block until the new one is gone.             *)
Setup(items, n) ==
  LET at  == heap[Current].ip + 1
      new == Unused[1]
  IN  /\ Available(1)
      /\ Ends([Taken(n) EXCEPT
                 ![new] = Block(heap[Current].code, at, at + Arg, items,
                                heap[Current].flag, heap[Current].scope, <<>>),
                 ![Current].ip = at + Arg],
              Append(blocks, new), frames, Nothing)

SetupLoop == Executing("setup_loop") /\ Setup(<<>>, 0)

SetupWith == Executing("setup_with") /\ Setup(<<stack_Top(Operands)>>, 1)

\* POP_BLOCK and BREAK_LOOP.
PopBlock ==
  /\ Executing("pop_block") \/ Executing("break")
  /\ Ends(Fetched, Popped(blocks, 1), frames, Nothing)

WithCleanup ==
  /\ Executing("with_cleanup")
  /\ Ends([Fetched EXCEPT ![Current].stack = <<>>], blocks, frames, Nothing)

\* The code of the block is through: its value, if it left one, ends the
\* loop around vm_Step.
CodeThru ==
  /\ phase = "step"
  /\ blocks # <<>>
  /\ heap[Current].ip >= heap[Current].len
  /\ Ends([heap EXCEPT ![Current].stack = Popped(@, IF @ = <<>> THEN 0 ELSE 1)],
          Popped(blocks, 1), frames, stack_Top(Operands))

-----------------------------------------------------------------------------
(* Calls.  vm_StartObjectCopy makes the callee's block.  A function's goes *)
(* on the block stack; a generator's is the tag of a new iterator, which   *)
(* is the result of the call; a class's, with the class as its value, and  *)
(* then those of its bases, which share their code objects and so their    *)
(* flags, while the class itself was copied with the flag it had.          *)
\* Those that import_module_handler finds.
Modules == {m \in DOMAIN Code : Kind(m) = "module"}

\* The bases of a class, in the order in which vm_StartClassObject starts them.
Bases(c) ==
  LET bases[d \in DOMAIN Code] ==
        FoldLeft(LAMBDA s, e : s \o <<e>> \o bases[e], <<>>, Code[d].bases)
  IN  bases[c]

\* CALL_FUNCTION runs a copy of the function, with variables of its own,
\* which are at first what those of the original are; vm_RunMethod and
\* vm_RunFunctionObject run the original.
CopyScope_Shared(b) == Nothing

CopyScope(b) == b

WithArguments(f, b, args, held) ==
  [k \in DOMAIN held |->
     IF k <= Code[f].args /\ k <= Len(args) THEN Variable(b, args[k]) ELSE held[k]]

\* obj_Copy makes nothing of an iterator, and a tuple of its own of a tuple.
Copied(held) ==
  [k \in DOMAIN held |->
     CASE held[k].value \in Ids    -> Variable(held[k].by, Nothing)
       [] held[k].value \in Tuples -> Variable(held[k].by, Item)
       [] OTHER                    -> held[k]]

Started(f, b, args, scope) ==
  NewBlock(f, <<>>, "none", scope,
           IF scope = Nothing THEN <<>>
           ELSE WithArguments(f, b, args, Copied(varnames[f])))

Assigns(f, b, args, scope) ==
  /\ varnames' = IF scope = Nothing
                 THEN [varnames EXCEPT ![f] = WithArguments(f, b, args, @)] ELSE varnames
  /\ UNCHANGED <<shared, globals, tuples>>

\* The operands above the function, which is one itself.
Arguments(n) == SubSeq(Operands, Len(Operands) - n + 2, Len(Operands))

CallFunction(f, n) ==
  LET b == Unused[1]
  IN  /\ Available(1)
      /\ Assigns(f, b, Arguments(n), CopyScope(b))
      /\ EndsAfter([Taken(n) EXCEPT ![b] = Started(f, b, Arguments(n), CopyScope(b))],
                   Append(blocks, b), frames, Nothing)

\* The heap and the iterator of a generator that has not begun.
WithGenerator(h, f, args, scope) ==
  [h EXCEPT ![Unused[1]] = Started(f, Unused[1], args, scope),
            ![Unused[2]] = Generator(Unused[1])]

CallGenerator(f, n) ==
  LET b == Unused[1]
  IN  /\ Available(2)
      /\ Assigns(f, b, Arguments(n), CopyScope(b))
      /\ EndsAfter([WithGenerator(Taken(n), f, Arguments(n), CopyScope(b)) EXCEPT
                      ![Current].stack = Append(@, Unused[2])],
                   blocks, frames, Nothing)

CallClass(c, n) ==
  LET bs  == Bases(c)
      new == SubSeq(Unused, 1, 1 + Len(bs))
  IN  /\ Available(1 + Len(bs))
      /\ shared' = shared \cup ToSet(bs)
      /\ UNCHANGED <<globals, varnames, tuples>>
      /\ EndsAfter([i \in Ids |->
                      CASE i = new[1] ->
                             NewBlock(c, <<Item>>,
                                      IF c \in shared THEN "sub" ELSE "root",
                                      Nothing, <<>>)
                        [] \E k \in DOMAIN bs : i = new[k + 1] ->
                             NewBlock(bs[CHOOSE k \in DOMAIN bs : i = new[k + 1]],
                                      <<Item>>, "shared", Nothing, <<>>)
                        [] OTHER -> Taken(n)[i]],
                   blocks \o new, frames, Nothing)

Call ==
  /\ Executing("call")
  /\ \E f \in Arg.callees :
       \/ Kind(f) = "function" /\ CallFunction(f, Arg.takes)
       \/ Kind(f) = "generator" /\ CallGenerator(f, Arg.takes)
       \/ Kind(f) = "class" /\ CallClass(f, Arg.takes)

\* IMPORT_NAME: a module that is in vm->globals is not run again, whether it
\* is through or not; what import_module_handler finds no module for leaves
\* nothing on the stack.
ImportName ==
  LET found == IF Arg \in globals \cup Modules THEN <<Item>> ELSE <<>>
      after == [Taken(2) EXCEPT ![Current].stack = @ \o found]
  IN  /\ Executing("import")
      /\ globals' = globals \cup (Modules \cap {Arg})
      /\ UNCHANGED <<shared, varnames, tuples>>
      /\ IF Arg \in Modules \ globals
         THEN /\ Available(1)
              /\ EndsAfter([after EXCEPT ![Unused[1]] =
                              NewBlock(Arg, <<>>, "none", Nothing, <<>>)],
                           Append(blocks, Unused[1]), frames, Nothing)
         ELSE EndsAfter(after, blocks, frames, Nothing)

-----------------------------------------------------------------------------
(* RETURN_VALUE.  What it pops is one block, the top one.                  *)
Result == stack_Top(Operands)

\* The level is compared first: vm_RunFunctionObject gets its result from
\* a block that stays.
ExitLevel == IF Caller.op = "function" THEN Caller.arg % LevelWidth ELSE 0
Exits == ExitLevel = Len(blocks)

IsSub_Never == FALSE

IsSub ==
  \/ heap[Current].flag = "sub"
  \/ heap[Current].flag = "shared" /\ heap[Current].code \in shared
IsRoot == heap[Current].flag \in {"root", "shared"}
IsModule == Kind(heap[Current].code) = "module"
Plainly == ~Exits /\ ~IsSub /\ ~IsRoot /\ ~IsModule

ReturnToLevel ==
  /\ Executing("return")
  /\ Exits
  /\ Ends(Taken(1), blocks, frames, Result)

ReturnFromBase ==
  /\ Executing("return")
  /\ ~Exits /\ IsSub
  /\ shared' = shared \ {heap[Current].code}
  /\ UNCHANGED <<globals, varnames, tuples>>
  /\ EndsAfter([Taken(1) EXCEPT ![Current].flag = IF @ = "sub" THEN "root" ELSE @],
               Popped(blocks, 1), frames, Nothing)

\* The block below gets x; there may be none.
Given(h, bs, x) ==
  IF bs = <<>> THEN h ELSE [h EXCEPT ![Last(bs)].stack = Pushed(@, x)]

\* The instance goes to the caller and __init__ is run from within, with the
\* instance and what the class was called with, none of them an iterator.
ReturnFromClass ==
  LET below == Popped(blocks, 1)
      init  == Code[heap[Current].code].init
      given == Given(Taken(2), below, Item)
  IN  /\ Executing("return")
      /\ ~Exits /\ ~IsSub /\ IsRoot
      /\ IF init = ""
         THEN Ends(given, below, frames, Nothing)
         ELSE /\ Available(1)
              /\ heap' = [given EXCEPT
                            ![Unused[1]] = Started(init, Unused[1], <<>>, Nothing)]
              /\ Assigns(init, Unused[1], [k \in 1..Code[init].args |-> Item], Nothing)
              /\ blocks' = Append(below, Unused[1])
              /\ frames' = Append(frames,
                             [Frame("method", Current, Nothing, Len(below), init)
                                EXCEPT !.base = below])
              /\ phase' = "step"
              /\ ret' = Nothing

\* The name of a module's code object is no key of vm->globals, so that
\* vm_RemoveGlobal removes nothing.
ReturnFromModule ==
  /\ Executing("return")
  /\ ~Exits /\ ~IsSub /\ ~IsRoot /\ IsModule
  /\ Ends(Taken(1), Popped(blocks, 1), frames, Nothing)

ReturnFromFunction ==
  LET below == Popped(blocks, 1)
  IN  /\ Executing("return")
      /\ Plainly
      /\ Ends(Given(Taken(1), below, Result), below, frames,
              IF below = <<>> THEN Result ELSE Nothing)

\* YIELD_VALUE skips the POP_TOP behind it as well.
Yield ==
  /\ Executing("yield")
  /\ Ends([Taken(1) EXCEPT ![Current].ip = @ + 1], blocks, frames, Result)

-----------------------------------------------------------------------------
(* Instructions that run the machine from within: a C call per level, and  *)
(* the iterator of the innermost one.                                      *)
Waits(h, fs) ==
  /\ heap' = h
  /\ frames' = fs
  /\ phase' = "next"
  /\ ret' = Nothing
  /\ UNCHANGED <<blocks, statics>>

\* The operand below FOR_ITER's values is its iterator.
ForIter ==
  /\ Executing("for_iter")
  /\ IF stack_Top(Operands) \in Ids
     THEN Waits(Fetched, Append(frames,
                  Frame("for_iter", Current, stack_Top(Operands), Arg, "")))
     ELSE Ends(Fetched, blocks, frames, Nothing)

\* map(function, iterator): the C function takes its operands and keeps both.
Map ==
  /\ Executing("map")
  /\ \E f \in Arg :
       Waits(Taken(3),
             Append(frames, Frame("map", Current, stack_Top(Operands), 0, f)))

\* BUILD_TUPLE and BUILD_LIST put the values of an iterator in its place.
\* The operands stay on the stack meanwhile.
Iterators(s) ==
  LET places == Ascending({k \in DOMAIN s : s[k] \in Ids})
  IN  [n \in DOMAIN places |-> s[places[n]]]

Built(h, b, n) == [h EXCEPT ![b].stack = Append(Popped(@, n), Item)]

Expands(h, n, iters) ==
  IF iters = <<>>
  THEN Ends(Built(h, Current, n), blocks, frames, Nothing)
  ELSE Waits(h, Append(frames,
         Frame("build", Current, Head(iters), [takes |-> n, rest |-> Tail(iters)], "")))

Build == Executing("build") /\ Expands(Fetched, Arg, Iterators(Uppermost(Arg)))

\* list, sum, min and max of an iterator: the C function took its operands.
Drain == Executing("drain") /\ Expands(Taken(2), 0, Iterators(Uppermost(1)))

BuildNext ==
  /\ phase = "got" /\ Caller.op = "build"
  /\ ret # None
  /\ Waits(heap, frames)

BuildEnd ==
  LET more == Caller.arg.rest
  IN  /\ phase = "got" /\ Caller.op = "build"
      /\ ret = None
      /\ IF more = <<>>
         THEN Ends(Built(heap, Caller.block, Caller.arg.takes),
                   blocks, Popped(frames, 1), Nothing)
         ELSE Waits(heap, [frames EXCEPT ![Len(frames)].iter = Head(more),
                                         ![Len(frames)].arg.rest = Tail(more)])

\* next(iterator)
Ask ==
  /\ Executing("ask")
  /\ stack_Top(Operands) \in Ids
  /\ Waits(Taken(2),
           Append(frames, Frame("ask", Current, stack_Top(Operands), 0, "")))

Answered ==
  /\ phase = "got" /\ Caller.op = "ask"
  /\ Ends([heap EXCEPT ![Caller.block].stack = Pushed(@, ret)],
          blocks, Popped(frames, 1), Nothing)

\* FOR_ITER's next value, or the end of the loop.
ForIterNext ==
  /\ phase = "got" /\ Caller.op = "for_iter"
  /\ ret # None
  /\ Ends([heap EXCEPT ![Caller.block].stack = Pushed(@, ret)],
          blocks, Popped(frames, 1), Nothing)

ForIterEnd ==
  /\ phase = "got" /\ Caller.op = "for_iter"
  /\ ret = None
  /\ Ends([heap EXCEPT ![Caller.block].stack = Popped(@, 1),
                       ![Caller.block].ip = @ + Caller.arg],
          blocks, Popped(frames, 1), Nothing)

\* vm_RunFunctionObject.  (What it makes of a generator function it drops.)
Runs(f, level) ==
  LET b == Unused[1]
  IN  /\ frames' = Append(frames, Frame("function", Nothing, Nothing, level, f))
      /\ IF Kind(f) = "generator"
         THEN /\ Available(2)
              /\ heap' = WithGenerator(heap, f, <<ret>>, Nothing)
              /\ UNCHANGED blocks
         ELSE /\ Available(1)
              /\ heap' = [heap EXCEPT ![b] = Started(f, b, <<ret>>, Nothing)]
              /\ blocks' = Append(blocks, b)
      /\ Assigns(f, b, <<ret>>, Nothing)
      /\ phase' = "step"
      /\ ret' = Nothing

MapCall_SameLevel ==
  /\ phase = "got" /\ Caller.op = "map"
  /\ ret # None
  /\ Runs(Caller.name, Len(blocks))

\* map runs the function on a value and sets the level at which it expects
\* the function to return.
MapCall ==
  /\ phase = "got" /\ Caller.op = "map"
  /\ ret # None
  /\ Runs(Caller.name, Len(blocks) + 1)

MapEnd ==
  /\ phase = "got" /\ Caller.op = "map"
  /\ ret = None
  /\ Ends([heap EXCEPT ![Caller.block].stack = Append(@, Item)],
          blocks, Popped(frames, 1), Nothing)

-----------------------------------------------------------------------------
(* iter_NextNow: an item, None at the end, or a run of the generator.      *)
Asked == Caller.iter

GivesAfter(h, bs, fs, x) ==
  /\ heap' = h
  /\ blocks' = bs
  /\ frames' = fs
  /\ ret' = x
  /\ phase' = "got"

Gives(h, bs, fs, x) == UNCHANGED statics /\ GivesAfter(h, bs, fs, x)

\* iter_Sequence; at the end the iterator starts anew.
NextOfSequence ==
  LET s == heap[Asked]
  IN  /\ phase = "next" /\ s.type = "sequence"
      /\ IF s.pos < s.len
         THEN Gives([heap EXCEPT ![Asked].pos = @ + 1], blocks, frames, Item)
         ELSE Gives([heap EXCEPT ![Asked].pos = 0], blocks, frames, None)

NextOfTuple_Still ==
  /\ phase = "next" /\ heap[Asked].type = "iteration"
  /\ LET t == heap[Asked].tag
     IN  IF tuples[t].pos < tuples[t].len
         THEN Gives(heap, blocks, frames, Item)
         ELSE Gives(heap, blocks, frames, None)

\* iter_Iteration, with tuple_GetNextItem: at the end the tuple starts anew.
NextOfTuple ==
  /\ phase = "next" /\ heap[Asked].type = "iteration"
  /\ UNCHANGED <<shared, globals, varnames>>
  /\ LET t == heap[Asked].tag
     IN  IF tuples[t].pos < tuples[t].len
         THEN /\ tuples' = [tuples EXCEPT ![t].pos = @ + 1]
              /\ GivesAfter(heap, blocks, frames, Item)
         ELSE /\ tuple_ResetIteration(t)
              /\ GivesAfter(heap, blocks, frames, None)

Resume_Kept ==
  LET g == heap[Asked]
  IN  /\ phase = "next" /\ g.type = "generator"
      /\ heap[g.tag].ip < heap[g.tag].len
      /\ blocks' = Append(blocks, g.tag) \o Reverse(g.saved)
      /\ frames' = Append(frames, Frame("next", g.tag, Asked, 0, ""))
      /\ phase' = "step"
      /\ UNCHANGED <<heap, statics, ret>>

Resume_Bare ==
  LET g == heap[Asked]
  IN  /\ phase = "next" /\ g.type = "generator"
      /\ heap[g.tag].ip < heap[g.tag].len
      /\ heap' = [heap EXCEPT ![Asked].saved = <<>>]
      /\ blocks' = Append(blocks, g.tag)
      /\ frames' = Append(frames, Frame("next", g.tag, Asked, 0, ""))
      /\ phase' = "step"
      /\ UNCHANGED <<statics, ret>>

\* The generator's blocks go on top of whatever runs.
Resume ==
  LET g == heap[Asked]
  IN  /\ phase = "next" /\ g.type = "generator"
      /\ heap[g.tag].ip < heap[g.tag].len
      /\ heap' = [heap EXCEPT ![Asked].saved = <<>>]
      /\ blocks' = Append(blocks, g.tag) \o Reverse(g.saved)
      /\ frames' = Append(frames, Frame("next", g.tag, Asked, 0, ""))
      /\ phase' = "step"
      /\ UNCHANGED <<statics, ret>>

Exhausted ==
  LET g == heap[Asked]
  IN  /\ phase = "next" /\ g.type = "generator"
      /\ heap[g.tag].ip >= heap[g.tag].len
      /\ Gives([heap EXCEPT ![g.tag].ip = heap[g.tag].start], blocks, frames, None)

-----------------------------------------------------------------------------
(* The loops around vm_Step, after each of its steps.                      *)
\* iter_NextNow's: the generator's block is gone, so it returned, and the
\* value it left on the stack below is taken from there.
GeneratorEnded ==
  /\ phase = "check" /\ Caller.op = "next"
  /\ Caller.block \notin ToSet(blocks)
  /\ LET given == IF blocks = <<>> THEN ret ELSE stack_Top(heap[Last(blocks)].stack)
         below == IF blocks = <<>> THEN heap
                  ELSE [heap EXCEPT ![Last(blocks)].stack = Popped(@, 1)]
     IN  Gives([below EXCEPT ![Caller.iter].saved = <<>>],
               blocks, Popped(frames, 1), given)

\* A value came and the block is still there: a yield.  The blocks above the
\* generator's go back to the iterator, the top one first.
Yielded ==
  LET at == SelectLastInSeq(blocks, LAMBDA b : b = Caller.block)
  IN  /\ phase = "check" /\ Caller.op = "next"
      /\ at # 0 /\ ret # Nothing
      /\ Gives([heap EXCEPT ![Caller.iter].saved =
                  @ \o Reverse(SubSeq(blocks, at + 1, Len(blocks)))],
               SubSeq(blocks, 1, at - 1), Popped(frames, 1), ret)

StepAgain ==
  /\ phase = "check" /\ ret = Nothing
  /\ \/ Caller.op \in {"object", "function"}
     \/ Caller.op = "next" /\ Caller.block \in ToSet(blocks)
     \/ Caller.op = "method" /\ Len(blocks) # Caller.arg
  /\ phase' = "step"
  /\ UNCHANGED <<heap, blocks, statics, frames, ret>>

\* vm_RunFunctionObject's: the result is appended to what map returns.
FunctionDone ==
  /\ phase = "check" /\ Caller.op = "function"
  /\ ret # Nothing
  /\ Waits(heap, Popped(frames, 1))

\* vm_RunMethod's: its result is taken from the stack of the block below,
\* its first variable is cleared, and the RETURN_VALUE that ran it ends.
MethodDone ==
  /\ phase = "check" /\ Caller.op = "method"
  /\ ret # Nothing \/ Len(blocks) = Caller.arg
  /\ varnames' = [varnames EXCEPT ![Caller.name][1] = Variable(Nothing, Nothing)]
  /\ UNCHANGED <<shared, globals, tuples>>
  /\ EndsAfter(IF blocks = <<>> THEN heap
               ELSE [heap EXCEPT ![Last(blocks)].stack = Popped(@, 1)],
               blocks, Popped(frames, 1), Nothing)

ObjectDone ==
  /\ phase = "check" /\ Caller.op = "object"
  /\ ret # Nothing
  /\ phase' = "done"
  /\ UNCHANGED <<heap, blocks, statics, frames, ret>>

Terminated == phase = "done" /\ UNCHANGED vars

-----------------------------------------------------------------------------
Stays ==
  Load \/ DupTop \/ Rotate \/ Compute \/ Store \/ ListAppend \/ LoadFast
    \/ StoreFast \/ GetIter \/ MakeRange \/ Jump \/ Branch \/ JumpIf \/ WithCleanup

Nests == SetupLoop \/ SetupWith \/ PopBlock \/ CodeThru

Returns ==
  ReturnToLevel \/ ReturnFromBase \/ ReturnFromClass \/ ReturnFromModule
    \/ ReturnFromFunction

Iterates ==
  ForIter \/ ForIterNext \/ ForIterEnd \/ Map \/ MapCall \/ MapEnd \/ Build
    \/ Drain \/ BuildNext \/ BuildEnd \/ Ask \/ Answered

vm_Step ==
  Stays \/ Nests \/ Call \/ ImportName \/ Returns \/ Yield \/ Raise \/ Iterates

iter_NextNow ==
  NextOfSequence \/ NextOfTuple \/ Resume \/ Exhausted \/ GeneratorEnded \/ Yielded

Loops == StepAgain \/ FunctionDone \/ MethodDone \/ ObjectDone

Next == vm_Step \/ iter_NextNow \/ Loops \/ Terminated

\* One thread, which nothing stops.
Spec == Init /\ [][Next]_vars /\ WF_vars(vm_Step \/ iter_NextNow \/ Loops)

-----------------------------------------------------------------------------
ASSUME CodeAssumption ==
  \A f \in DOMAIN Code :
    /\ Len(Code[f].ops) \in Nat /\ Code[f].vars \in Nat /\ Code[f].args \in Nat
    /\ Bases(f) \in Seq(DOMAIN Code)
    /\ Code[f].init # "" => Code[f].init \in DOMAIN Code
    /\ Nestable(f)
    /\ \A p \in Places(f) : Supplied(f, p)

Values == Ids \cup Tuples \cup {Item, None, Nothing}

IsBlock(b) == b \in Ids /\ heap[b].type = "block"

\* A block stays within the code of its function.
WellPlaced(b) ==
  /\ b.code \in DOMAIN Code
  /\ b.start <= b.ip /\ b.ip <= b.len /\ b.len <= Len(Code[b.code].ops)
  /\ ToSet(b.stack) \subseteq Values \ {Nothing}

TypeOK ==
  /\ DOMAIN heap = Ids
  /\ \A i \in Ids :
       CASE heap[i].type = "block" -> WellPlaced(heap[i])
         [] heap[i].type = "sequence" -> heap[i].pos \in 0..heap[i].len
         [] heap[i].type = "iteration" -> heap[i].tag \in Tuples
         [] heap[i].type = "generator" -> IsBlock(heap[i].tag)
         [] OTHER -> heap[i] = Free
  /\ ToSet(blocks) \subseteq Ids
  /\ shared \subseteq DOMAIN Code /\ globals \subseteq Modules
  /\ \A t \in Tuples : tuples[t].pos \in 0..tuples[t].len
  /\ phase \in {"step", "check", "next", "got", "done"}
  /\ ret \in Values

\* The blocks of an iterator in the order in which they run.
Suspended(i) == <<heap[i].tag>> \o Reverse(heap[i].saved)

Generators == {i \in Ids : heap[i].type = "generator"}

(* An instruction finds on its block's stack what the compiler put there   *)
(* for it: the loops of a function and the calls, generators and           *)
(* constructors that were run meanwhile took and left what they should,    *)
(* and a block that is through has nothing left that CodeThru would take   *)
(* for the result of the program.                                          *)
KindOf(x) == IF x \in Ids THEN "iter" ELSE "value"

StackShape ==
  phase = "step" /\ blocks # <<>> =>
    LET b == heap[Current]
    IN  [k \in DOMAIN b.stack |-> KindOf(b.stack[k])] =
          IF b.ip < b.len THEN Code[b.code].shape[b.ip + 1] ELSE <<>>

(* A loop's block lies on the block that set it up, on the block stack and *)
(* in a suspended generator alike, and that one waits behind the loop.     *)
NestedIn(s) ==
  /\ s # <<>> => heap[s[1]].start = 0
  /\ \A k \in 1..Len(s) - 1 :
       heap[s[k + 1]].start # 0 =>
         /\ heap[s[k]].code = heap[s[k + 1]].code
         /\ heap[s[k]].ip = heap[s[k + 1]].len

Nested ==
  /\ NestedIn(blocks)
  /\ \A i \in Generators : i \notin {frames[k].iter : k \in {j \in DOMAIN frames : frames[j].op = "next"}}
                             => NestedIn(Suspended(i))

(* The loops around vm_Step share one block stack, and none of them eats   *)
(* into what it found there; who asks an iterator gets its value with the  *)
(* block stack as it was, although the generator that ran put its own      *)
(* blocks there.                                                           *)
Undisturbed ==
  /\ \A k \in DOMAIN frames : IsPrefix(frames[k].base, blocks)
  /\ phase = "got" /\ Caller.op \in {"for_iter", "build", "ask"} => blocks = Caller.base

(* A block is in one place: on the block stack once, or saved in one       *)
(* generator; a generator that runs has nothing saved.                     *)
GeneratorsApart ==
  /\ IsInjective(blocks)
  /\ \A i \in Generators :
       /\ heap[i].tag \in ToSet(blocks) => heap[i].saved = <<>>
       /\ IsInjective(Suspended(i))
       /\ ToSet(heap[i].saved) \cap ToSet(blocks) = {}
       /\ \A j \in Generators \ {i} :
            ToSet(Suspended(i)) \cap ToSet(Suspended(j)) = {}

(* What the C calls will still use has not been freed by the steps that    *)
(* ran within: the block of a FOR_ITER or a map, the iterator it asks.     *)
CallsAlive ==
  \A k \in DOMAIN frames :
    LET f == frames[k]
    IN  /\ f.op \in {"for_iter", "map", "build", "ask", "next"} =>
             /\ IsBlock(f.block)
             /\ heap[f.iter].type \in {"sequence", "iteration", "generator"}
        /\ f.op = "next" => heap[f.iter].type = "generator" /\ heap[f.iter].tag = f.block

(* What the theorems of VMProofs take from the programs, which the machine *)
(* does not look at itself: the operands an instruction finds, no          *)
(* generator that asks for its own next value while it is being run (for   *)
(* CPython a ValueError, iterators.c:72 puts its block on the stack once   *)
(* more), an exception only where no generator, map or __init__ runs       *)
(* around it (vm.c:1957 clears the block stack under those), and fewer     *)
(* blocks than the unsigned char of vm.c:1358 counts.                      *)
NotReentered ==
  phase = "next" /\ heap[Caller.iter].type = "generator" =>
    heap[Caller.iter].tag \notin ToSet(blocks)

NotEscaped == Executing("raise") => Len(frames) = 1

Shallow == Len(blocks) < LevelWidth

Orderly == StackShape /\ NotReentered /\ NotEscaped /\ Shallow

(* The machine implements Calls.  A call is the block of its code and the  *)
(* blocks of its loops; one that is through and still lies on the stack,   *)
(* as vm_RunFunctionObject leaves it, is no call any more.  A generator    *)
(* sleeps in its iterator.                                                 *)
Through(b) == heap[b].start = 0 /\ heap[b].ip >= heap[b].len

Joined(calls, b) ==
  IF heap[b].start = 0
  THEN Append(calls, [call |-> b, at |-> <<heap[b].ip>>])
  ELSE [calls EXCEPT ![Len(calls)].at = Append(@, heap[b].ip)]

CallsOf(s) == FoldLeft(Joined, <<>>, SelectSeq(s, LAMBDA b : ~Through(b)))

Sleepers ==
  {i \in Generators : heap[i].tag \notin ToSet(blocks) /\ ~Through(heap[i].tag)}

AsleepAt ==
  [b \in {heap[i].tag : i \in Sleepers} |->
     CallsOf(Suspended(CHOOSE i \in Sleepers : heap[i].tag = b))[1].at]

AnyPlace == UNION {0..Len(Code[f].ops) : f \in DOMAIN Code}

C == INSTANCE Calls
       WITH Call <- Ids, Place <- AnyPlace,
            running <- CallsOf(blocks), asleep <- AsleepAt

(* What runs and what sleeps is what Python promises: a step moves the     *)
(* innermost call only, a call that ends leaves the one below where it     *)
(* was, and a generator goes on with every loop at the place where it was  *)
(* when it yielded, whoever asks it.                                       *)
IsCalls == C!Spec

(* opcodes.c on LOAD_FAST: "Pushes a reference to the local                *)
(* co_varnames[/var_num/] onto the stack", and a variable is local to a    *)
(* call: what an activation of a function loads, this activation stored,   *)
(* or it was its argument, whatever other activations of the same function *)
(* stored while it was suspended or waited for a call.                     *)
OwnVariables ==
  Executing("load_fast") => Variables[Arg].by = Running

(* opcodes.c on RETURN_VALUE: "Returns with TOS to the caller of the       *)
(* function."  No block of the function is left to run on, except for one  *)
(* that vm_RunFunctionObject is waiting for.                               *)
ReturnLeaves ==
  [][Executing("return") /\ ~Exits =>
       IsPrefix(SubSeq(blocks, 1, Activation - 1), blocks')
       /\ \A k \in Activation..Len(blocks) : blocks[k] \notin ToSet(blocks')]_vars

(* Every program comes to its end: a generator is exhausted when it has    *)
(* returned, a tuple when its items have been given.  Then no block of the *)
(* program or of what it called is left.                                   *)
Finishes == <>(phase = "done" /\ blocks = <<>>)
=============================================================================
