# A TLA+ model of sVimPy

sVimPy is a small virtual machine for Python 3 byte code, written in C for a
PC and for an Arduino.  It loads a `.pyc` or `.pos` file, rebuilds the objects
in it and executes code objects with block stacks, call frames, generators,
classes and a garbage collector of its own.  All memory goes through a memory
manager that is chosen when the program is built and that can move what is not
locked to a file.

Everything here is translated from the C sources under `src/src`; line numbers
in comments and below are those of these files.

## 1. The system

| component | files | state it keeps | operations |
|---|---|---|---|
| memory interface | `memory.h` | what each chunk holds | `mem_malloc`, `mem_create*`, `mem_copy`, `mem_lock`, `mem_unlock`, `mem_realloc`, `mem_free`, `mem_copy_to/from`, `mem_compare`, `mem_Close` |
| caching manager | `memory.c` 987-1380 | table of chunks, free chain, stack of locks | the same |
| debugging managers | `memory.c` 173-987 | table of chunks with lock counters and marks, stack of locks | the same, and a report at the end |
| pass-through manager (the default) | `memory.c`, `USE_MEMORY_MANAGER_PASS` | a header before each chunk | the same; locking does nothing |
| pool managers | `memory.c`, rest | pools | unfinished |
| store interface | `memory_store.c` | the known store types | open, close, free, read, write |
| file store | `cache_file.c` | a file per blob, end of each file's log | open, close, free, read, write |
| other stores | `cache_minfile.c`, `cache_sd.c` | as the file store | as the file store |
| objects | `object.c`, `types.c` | type, flags and reference count of every object | `obj_IncRefCount`, `obj_DecRefCount`, `obj_Free`, `obj_ClearGC`, copies and conversions |
| garbage list | `garbage.c`, `object.c` | the objects that await `obj_ClearGC` | queue, remove, sweep |
| lists | `lists.c` | a growing array of ids | push, pop, insert, remove, queue, dequeue, set |
| stacks | `stack.c` | lists of objects that hold references | push, pop, top, clear |
| tuples and dictionaries | `tuples.c` | arrays of objects, of key-value pairs, and a cursor | append, insert, set, delete, lookup by name, clear, iterate |
| iterators | `iterators.c` | position in a tuple, a sequence or a generator | next, expand |
| virtual machine | `vm.c`, `opcodes.c` | the stack of blocks, globals, the state of each block | one step per byte code, calls, classes, generators, methods |
| internal functions and classes | `internal_functions.c`, `internal_classes.c` | none | built-in functions, operators, file and sys classes |
| streams | `stream.c` | position in a file or in memory | read and write of scalars and of marshalled objects |
| numbers and strings | `numops.c`, `strops.c` | none | conversions |
| main program | `svimpy.c`, `debug.c`, `unit_tests.c` | none | options, running a file |

How they interact.  A step of the virtual machine takes objects off the stack
of the current block, each of which is a chunk of the memory manager, locks
them to reach their fields, calls an internal function or pushes a new block,
and ends with `obj_ClearGC`.  Every copy of an id that is kept counts as a
reference; an object whose count falls to nothing is queued in the garbage
list and freed by the next sweep, so that an id which a step has just popped
stays good until the step's end.  The sweep may call a `__del__` method, which
runs the virtual machine from within the sweep.  `mem_lock` may read a chunk
back from the store and `mem_unlock` may write it there and free it, so a
pointer is good only between the two.  There is one thread.

What is hard.  The program is sequential; its difficulties are long sequences
of legal calls whose effects meet in shared tables: chunk ids that are freed,
evicted, and handed out again; nested locks on one chunk; reference counts that
are raised and lowered in different functions; garbage that is swept inside a
nested run of the machine while an outer step still uses it; a store that is
closed twice; errors of the file system that nobody looks at.  The list is
`hazards` in PROJECT.json, one entry for each place in the code.

What makes each part correct.  The memory interface: who reads a chunk sees the
bytes last written, and an id names one chunk.  The caching manager: a locked
chunk stays where it is, the free chain holds each free entry once, and behind
its interface nothing of the cache shows.  The store: it returns what was
written and closes its files once.  Objects and garbage: counts are exact,
nothing dangles, what a step holds is not freed, what nothing refers to is.
The machine: loops, calls, generators and constructors leave the block stack
and the value stacks as the code around them expects.  Tuples: a lookup finds
the value last set, the cursor gives every item once.  Streams: what was
written reads back the same.  Lists: an operation changes what it names and
keeps the order of the rest.

## 2. Modules

| module | models | state and how it corresponds |
|---|---|---|
| `Chunks` | sizes and bytes of chunks | the values that the memory modules share |
| `Memory` | `memory.h`, abstractly | `mem[i]`, the bytes behind an id; `call`, what the last call showed |
| `MemCache` | `memory.c` with `USE_MEMORY_MANAGER_CACHE` | `entry` is `mem_chunks` (an address, 0 for an evicted chunk, or the next free id), `chunks_top`, `chain` the free chain's head, `locks` the lock stack, `buf` the bytes in memory, `saved` those in the store; `stale`, the locks whose chunk was freed or resized since `mem_lock` |
| `MemDebug` | `memory.c` with `USE_MEMORY_MANAGER_DEBUG` or `_CACHE_DEBUG` | `ptr`, `is_freed`, `lock_count` and `permanent` are fields of each `mem_chunk`, `locks` the lock stack, `cache` whether there is a store; `stale` as in `MemCache`; `phase` the session, which `mem_Close` ends with its report, or "undefined" when it has freed a description (`described`) that is a string literal |
| `MemPass` | `memory.c` with `USE_MEMORY_MANAGER_PASS` | `allocated` addresses, `size` the header, `bytes`; `crashed` after an access outside of a chunk |
| `CacheStore` | `memory_store.c`, abstractly | `kept[i]`, the bytes last written |
| `CacheFile` | `cache_file.c` | the files with their tables and logs, `blobs_num`, which files are open |
| `Lists` | `lists.c` | operators on sequences, among them `list_Remove`, which is right only at the end of a list |
| `RefCount` | counting in `object.c`, `stack.c`, `tuples.c`, the garbage list, destructors | `ref[p]`, the id in a place; `ref_count`; `garbage`; `hand`, what the step has popped or made and goes on reading, writing or storing; `locked`, what it only unlocks any more; `mode`, step or sweep or destructor |
| `Ascending` | the order in which `tuple_GetDictItemIndex` finds positions | the operator `Ascending(S)`, the numbers of a set in their order |
| `Dict` | what the machine expects of a tuple it uses as a dictionary | `bindings[k]`, the values of a name, the one that is found first |
| `Tuples` | `tuples.c`, the tuple's side of `iterators.c` | `use` (list, dictionary, names of a code object, or "lost" after an index before the items), `items`, `pair` and `count` of the key-value pairs, `ptr` the position that loops share, `locked` the locks that lookups leave |
| `Stream` | `stream.c`, as `compress_pyc`, `vm_RunPYC` and `vm_RunRPYC` use it | `file`, `pos`, `layout`; the recursion of the writer is `agenda`, that of the reader `frames`; `cut`, the file lost its end; `left`, locks that a short read left; `phase`, "undefined" where the C code has no outcome, as once a float was written |
| `VM` | `vm.c`, `iterators.c`, the functions of `internal_functions.c` that run the machine | `blocks`, the blocks and iterators in `heap`, `varnames` of the code objects that are run without a copy, `globals` the imported modules, `tuples` the length of each tuple and the position that all loops over it share, and `frames`, the C calls that run the machine from within |
| `Calls` | what Python promises of functions and generators, which the machine is to keep | `running`, the calls under way, each with its place and those of its loops; `asleep`, the generators that wait |
| `MCVM`, `MCStream` | | programs for `VM`, as the compiler lays them out, and for `Stream` |
| `MCMemDebug`, `MCMemPass`, `MCTuples` | | symmetry sets and constants |
| `MemCacheProofs`, `MemDebugProofs`, `MemPassProofs`, `CacheFileProofs`, `RefCountProofs`, `TuplesProofs`, `StreamProofs`, `VMProofs` | | theorems |

How they fit together.  `MemCache`, `MemDebug` and, while every chunk is small,
`MemPass` implement `Memory`.  The first two use their store as `CacheStore`
describes; `CacheFile` implements `CacheStore` (`IsStore`).  `CacheFile` assumes
that the program reads only ids it has written; `TableOK` in `MemCache` (part of
`IInv`, proved) is what discharges that: an evicted entry has bytes in the
store.  `RefCount` takes the memory for granted, as `Memory` states it: an
object is allocated or it is not.  `Tuples` takes over the sweep from
`RefCount`: a pair without a reference is gone at the end of an operation; as a
dictionary it implements `Dict` (`IsDict`).  `VM` takes the counts for granted,
as `RefCount` states them: at the end of a step what can be reached stays and
the rest goes.  It implements `Calls` (`IsCalls`): a call is the block of its
code with the blocks of its loops, and the blocks that `vm_RunFunctionObject`
leaves behind are none.  `Stream` yields the code objects that `VM` runs.

An action is a whole C function of the interface, or a byte code.  In `VM` a
byte code that runs the machine from within is cut where the inner run begins,
because the steps in between change what it will find; `phase` says where the
innermost C call is (`step` before `vm_Step`, `check` behind it, `next` before
`iter_Next`, `got` behind `iter_NextNow`), and `frames[k].base` remembers the
block stack that call found.  `base` is read by properties only.  In `Stream` an
action reads or writes one field or begins or ends one object.  In `Tuples` the
variables `alone`, `given` and `deleted`, and in every module `call`, only record
what happened, for the properties.  Each definition with a mutated copy
(`Put_Uncounted` beside `Put`) shows which mistake in the code the property would
notice; no action uses the copies.

Variables of functions.  `CALL_FUNCTION` copies the function and its variables;
`vm_RunMethod` (constructors) and `vm_RunFunctionObject` (`map`) run the
original.  A block has `scope`, the block whose copy it runs on, or 0; a
variable knows the activation that stored it, which is what `OwnVariables` is
about.

Loops.  `GET_ITER` makes an iterator for a tuple (`iteration`) that keeps no
position: the position is in the tuple, and `GET_ITER` and the end of the items
set it back (`tuple_ResetIteration`).  The iterator of a range (`sequence`) has
its own.

Frees under a lock.  When `vm_Step` ends the body of a class, it has the block
it popped locked; the sweeps within it free that block, and `mem_free` does not
look at locks (`vm.c` 1519-1551).  `MemCache` and `MemDebug` therefore free and
resize what is locked; the lock is then `stale`, and all that may still come of
it is a clean `mem_unlock`.  In `RefCount` such a block moves from `hand` to
`locked` when the sweep begins.

Imports.  `IMPORT_NAME` makes the module a global before its code has run;
`globals` is what keeps two modules that import each other from running for
ever.

## 3. What the runs check

| run | bounds | what it shows |
|---|---|---|
| `cache_ids` | 3 ids, 2 nested locks, one-cell chunks | ids reused through the free chain while chunks are locked, evicted, read back, freed and resized under their locks: `LockedResident`, `ChainOK`, `GrowsOnlyWhenNeeded`, and the refinement `IsMemory` |
| `debug` | 2 ids, 3 nested locks, chunks of one cell, with and without a store | `LocksAgree`: the counters and the lock stack agree, also of chunks freed under their locks; `LeaksFound`: what `mem_Close` reports is true; `IsMemory` |
| `pass` | 2 addresses, a char of 6 values, chunks of up to 4 cells | `MemoryWhileSmall`: every call is one of `Memory` while all sizes are below half a char's values |
| `file_store` | 2 files of 2 ids, 3 cells behind each table, `fopen` may fail | chunks written and written again: `Layout`, `ClosedOnce` over the two closings in `mem_Close`, refinement `IsStore` |
| `refs` | 3 objects of one field, 2 outer places, one destructor in C | counts, garbage list, `HandAlive` over nested sweeps, `ZeroQueued`; a sweep ends |
| `refs_del` | 2 objects, a destructor in Python | *violated*: an instance is freed while a reference is left |
| `tuples` | up to 3 items, 2 objects, 2 pairs, 2 loops, a code object of 2 names, six indexes from -4 to 3, before, among and behind the items | `CountsExact`, `LoneLoop` and `LoopsWhole` (a loop that has the tuple to itself gives every item), `NamesKept`, refinement `IsDict` |
| `vm` | 6 programs, 2 tuples and ranges up to 2 items, 16 ids | see below |
| `vm_return` | a function that returns within a loop | *violated*: it runs on behind the loop |
| `vm_local` | an `__init__` that makes another instance of its class | *violated*: two activations share their variables |
| `stream` | 12 programs and tuples nested up to 5 deep, both layouts, longs of 2 digits of base 16, floats of 2, cut at every byte | `ReadsFormat`, `Restores` (what was written reads back the same), `Within`, `Ends` |
| `stream_write` | a module whose code object has empty tuples | *violated*: what `compress_pyc` writes cannot be read |

Why the bounds are enough.  Three ids are the fewest for a chain of two free
entries beside one in use; two locks the fewest for a nested lock of another
chunk.  The debugging managers have no free chain, so two ids suffice for one
that is locked while the other is evicted; the third lock is for a chunk that is
locked twice below another.  The run spans whole sessions.  Six values of a char
are the fewest with two positive sizes, one size that reads as negative, and one
behind it.  Three objects make a chain of objects that a sweep frees one after
the other, with one that survives; the two outer places let an object be held
twice.  Three items are one before, at and behind a loop's position; two pairs
let one be replaced by another while a third place holds it. The indexes have
one on each side that no list of three items has. In `stream` each program has
what the others lack: every type of object, nested functions, cells, empty
tuples, a zero within a text, a number with its highest bit set; one is a float,
whose writing is undefined.  `Depth` bounds how deep the objects are nested
(`ObjectsAssumption`), and 5 is as deep as these are.  In `vm` the tuples and
ranges have 0, 1 and 2 items, so a loop is not entered, ended at once, and
repeated; there are two tuples, so that a loop over one runs within a loop over
the other; the programs nest a generator in a generator, a loop in a loop, a
comprehension over a generator that an argument brought in, `map` in a
generator, and constructors that run loops, and ask a generator again that has
ended (it rewinds).  16 ids are never used up (a step that needs one would
deadlock, and the run checks for deadlock).  `LevelWidth` is 256, as in the
code, which these programs do not reach.  The runs that do not check for
deadlock may really stop: a closed session, a crash, a file that was read, a
step that is undefined.

The properties of `vm`: `Orderly` - what the machine relies on without looking:
each instruction finds on its block's stack what the compiler left for it, after
whatever loops, calls, generators and constructors ran in between (its part
`StackShape`), no generator asks for its own next value (`NotReentered`), no
exception is raised where a loop of C code would lose its blocks (`NotEscaped`),
and the stack has fewer blocks than an unsigned char counts (`Shallow`);
`Nested` - a loop's block lies on the block that set it up, which waits behind
it, also in a suspended generator; `Undisturbed` - the loops around `vm_Step`
share one block stack, none eats into what it found, and who asked an iterator
goes on with the stack it left; `GeneratorsApart` - a block is in one place;
`CallsAlive` - no sweep of an inner run frees what an outer C call still uses;
`OwnVariables` - what a function loads it stored itself or was given; `IsCalls` -
a step moves the innermost call only, the one below goes on where it was, and
a generator resumes with every loop at the place where it yielded, whoever asks
it; `ReturnLeaves` - a return leaves no block of its function; `Finishes` - with
no block left.

What the properties are conditional on.  `LoneLoop` and `LoopsWhole` speak of
loops that no other loop on the same tuple overlaps: the position is the
tuple's, so overlapping loops do disturb each other.  `NamesKept` speaks of code
in which no name is deleted.  `IsDict` speaks of steps by key: a key of
`TYPE_INT` between brackets is an index (`vm.c` 2865, 2903), so that `d[1] = v`
replaces the second pair, and once `d[i] = d[j]` has put a pair in two places
the tuple is no dictionary.  `Restores` speaks of objects that are `Writable`
(no empty tuple, no float, no zero within a text, no functions in the rpyc+
layout), and the runs of `Stream` have `Wide = FALSE`, a long of the program
that is as wide as one of the file.  The programs of `vm` return and use `with`
outside of loops, return from a generator at the end of its code, pass all
arguments, raise where only the loop of `vm_RunObject` runs, import modules that
exist, have no constructor that makes another instance of its class, and do not
loop over a tuple within a loop over the same tuple, which never ends; they loop
over tuples and ranges, not over what they compute.  Of these conditions the
theorems about `VM` need only those that `Orderly` states.

Hazards that no run reaches.  The list has four places of the machine and one of
the streams that the modules follow but no run comes to: the depth of the block
stack as an unsigned char (`vm.c` 1358), a class that is inherited twice
(`vm.c` 1503), a `with` within a loop (`vm.c` 2360), an exception raised within
a loop of C code (`vm.c` 1957), and a long of the program that is wider than one
of the file (`stream.c` 669).  The runs say nothing about them.

Fairness.  There is one thread, and nothing in the program waits: weak
fairness of the machine (`VM`), of reading and writing (`Stream`), and of the
sweep in `RefCount`, says only that the C code goes on.  The liveness properties
are `SweepEnds`, `Ends` and `Finishes`.

## 4. Findings

Four runs contradict what a comment, the table of op-codes or the readme says.

- `refs_del`: an instance with a Python `__del__` is freed while the pair of its
  method's variable refers to it.
- `vm_return`: a `return` within a loop or a `with` pops the loop's block only;
  the function runs on.
- `vm_local`: `vm_RunMethod` runs the method itself, not a copy; an `__init__`
  that is entered again overwrites the variables of the one that waits.
- `stream_write`: an empty tuple is written with its length twice.

While the modules were written, more came up that no run shows; the models do
what the code does, and the conditions above keep clear of it.

- Memory.  A chunk that its last unlock evicted keeps its table entry for good
  when it is freed (`memory.c` 1187).  `mem_get_size` of the pass-through manager
  reads one signed char of the size (`memory.c` 79).  `cf_open` reports success
  without its file (`cache_file.c` 54).  A chunk freed or resized while it is
  locked is unlocked all the same (`vm.c` 1550, `memory.c` 1166-1210).  The
  debugging managers give the descriptions of the chunks to `free` in
  `mem_Close`, though callers pass string literals (`memory.c` 388, 814).
- Tuples.  A lookup by name leaves a lock behind for every item that is 0
  (`tuples.c` 376).  `d[1]` is the second pair of a dictionary, whatever its keys;
  `del d[k]` of another key deletes the first; an index below `-len` reaches out
  of the list's memory (`tuples.c` 417).  Loops over one tuple share its position
  (`iterators.c` 340-369): the inner one of two sets the outer one back, for ever.
- Streams.  The items of a tuple in an rpyc+ file are read in the pyc layout
  (`stream.c` 1073); the cells of a function are written without their names;
  texts end at their first zero; a float of eight bytes is copied into a chunk
  of four (`stream.c` 708), which is undefined; a float that is read loses what
  a double has more (`stream.c` 687); writing an object frees the text of its
  name; the tests of the file in `stream_file_seek` and `stream_file_getpos` are
  the wrong way round; a tuple that is read empty has no list.
- Machine.  `IMPORT_FROM` pops the module, so that the second name of
  `from m import a, b` finds none.  Arguments beyond those declared overwrite the
  first local.  The cells of an enclosing function are shared by its calls.
  A generator that asks for its own next value puts its block on the stack a
  second time (`iterators.c` 72).  A generator that returned before the end of
  its code counts as unfinished (`iterators.c` 275): asked again, it goes on
  behind the `return`.
  `list` and its like append the None that ends an iterator.  An exception that
  is raised within a generator, `map` or a constructor clears the block stack
  under the loops that run it (hazard at `vm.c` 1957); without a handler the
  innermost loop takes the None of the step for a value.  `eval` runs the rest of
  the program from within.  `YIELD_VALUE` skips one byte, so that in
  `y = yield x` the next instruction is read from its middle.
  `UNPACK_SEQUENCE` takes texts only.
- Functions in C.  `all` is always false and `any` always true; `pow` with
  three arguments takes the modulus the wrong way round, and `x` to the power 0
  is 0; `max` and `min` leave locks.

## 5. What is proved

TLAPS checks, for every value of the constants that their assumptions allow:

- `MemCacheProofs`: `Invariance` (`IInv`), and from it `TypeCorrect`,
  `LockedStaysResident`, `ChainCorrect`, `CacheIsMemory`, the refinement, and
  `GrowsWhenFull`.
  `LockedStaysResident` says that a pointer stays good until its `mem_unlock`
  unless its own chunk is freed or resized in between, and that no chunk in use is
  evicted while its id is locked, though the lock be one of a chunk before it: so
  a stale lock does no harm to the next owner of the id.
  The three properties are not inductive.  `IInv` adds `TableOK`: an entry that
  is in use holds an address with the chunk's bytes behind it or is evicted
  with the bytes in the store, an entry that is not in use holds no address,
  and id 0 is never freed nor evicted.  That the chain meets every entry once is
  what keeps `Alloc` from handing out an id in use.  For `GrowsWhenFull` it is
  not enough that the chain meets free entries only; it must also meet all of
  them.  `Reached` says so without following the chain: there is a numbering of
  the entries in which every free entry but the head is linked from a free entry
  with a lesser number, so that a chain without a head leaves no free entry.
- `MemDebugProofs`: `Invariance`, `CountersAgree`, `LeaksReported`,
  `DebugIsMemory`, with and without a store, up to a `mem_Close` that goes
  wrong.  `IInv` ties the mark `is_freed`, which means freed or evicted, to what
  the interpreter owns and the store has.
- `MemPassProofs`: `Invariance` (the header tells the size) and
  `SmallIsMemory`, the refinement as an action property under its condition.
- `CacheFileProofs`: `Invariance`, `LayoutCorrect`, `FilesClosedOnce`,
  `FileIsStore`.  `Layout` puts the bytes of every chunk behind the table and
  before the end of the log, which is why neither a table entry nor the next
  bytes of the log are written over them; `IInv` adds that nothing counts as
  written in a store that is not open.
- `RefCountProofs`: `Invariance`, and from it `TypeCorrect`, `CountsCorrect`,
  `NothingDangles`, `GarbageCorrect`, `HandStaysAlive`, `NothingLost`,
  `FreesUnreferenced`.  They assume `Scripted = {}`, destructors in C only: with
  Python destructors the last fails (`refs_del`).  `HandStaysAlive` is about
  what the step goes on reading, writing or storing; a block that it only
  unlocks behind a nested run is left out, because the sweep there does free it.
  A count is the cardinality of a set of places, so each operation has a lemma
  about what it adds to that set or takes from it.  `IInv` adds what a
  destructor call keeps: the instance is counted once, by the arguments, and is
  the last of the garbage list, so that `list_Remove`, wrong elsewhere, is right
  where it is called.
- `TuplesProofs`: `LonePosition` and `WholeLoops`, for tuples of any length and
  any number of loops, from `Cursor`: the position lies within the items, and is
  what the iterators that are alone have given.  `CountsStayExact`, `NamesStay`
  and the refinement `TupleIsDict` come from `TupleInv`, which adds that a pair
  is at one place of the tuple at most: only then does an operation on an item
  change one binding of one name.  An operation is shown to count the difference
  it makes (`Exactly`), and to bind or unset one place (`Bound`, `Unset`), which
  is then a step of the dictionary.  `TupleIsDict` has the conditions of `IsDict`:
  the step goes by key, and no pair is in two places before it.
- `VMProofs`: `MachineInOrder`, and from it `TypesKept`, `LoopsStayNested`,
  `StackUndisturbed`, `GeneratorsStayApart` and `CallsStayAlive`: for every set
  of code objects, every program and any depth of calls, loops, generators and C
  calls.  `CodeAssumption` (`VM.tla`) is how the compiler lays out byte code: a
  jump stays within its loop, a place behind a loop is one of the code, the
  operands and names of an instruction exist; TLC evaluates it for the programs
  of `MCVM`.  The theorems have the form `Spec /\ []Orderly => []...`.  The
  machine does not look at what `Orderly` says; a program that breaks it makes
  the code do what the properties deny (a generator that asks itself puts its
  block on the stack twice; an exception within `map` clears the blocks `map`
  found), so no invariant can do without it.  The run `vm` checks `Orderly`
  together with the properties: its programs satisfy the theorems' hypothesis.
  None of the five is inductive.  `MachineInv` joins them: every object is one of
  its type whose place, operands, scope and tag are of use (`HeapFine`); the
  blocks of the stack and those of each generator are there once, in one place,
  and nested as the loops of the code (`Laid`, `Apart`); every C call waits on
  the blocks it found, asks an iterator that is there, and is above one that
  makes such calls (`FramesFine`); a generator whose blocks are on the stack is
  being run by one of them (`AllRun`); and `AtStep`, `AtCheck`, `AtNext` say what
  the innermost C call relies on.  The sweep at the end of a step is one lemma
  (`SweptGood`): what it keeps holds the roots and is closed under references,
  so none of this is lost.  `TypesKept` takes a second invariant, `TuplesFine`: the
  position of a tuple lies within its items, whoever loops over it.
  The module takes tlapm about a quarter of an hour.
- `StreamProofs`: `ReadsWithin` and `ReadsWhatWasWritten`, for every base and
  size of a long, every set of objects nested to any depth (`Depth`), and, of
  the first, every file whatever its bytes.  `ReadsWithin` comes from `TInv`,
  which has the stack of the reader: every frame has a script of known words,
  and below the innermost one the next word asks for an object.
  `ReadsWhatWasWritten` has the hypothesis of `Restores`: an object that is
  `Writable`, so without floats, and a file that is not cut.  The writer works
  off an agenda and the reader a stack, so no state of the one is a state of the
  other; what they share is the file.  `WInv` therefore keeps the way of the
  writer: the places it came by, each with the agenda it had there, the bytes it
  put there, and the place behind them.  `RInv` puts the reader on that way:
  what its frames still ask for, the innermost first, is the agenda of the place
  it is at (`Linked`, `Leads`), and each frame has the longs and parts of the
  object it stands for, as far as it has come (`Matched`).  The lemmas below are
  about data: `LongRead` (the digits of a number that `Fits` give it back),
  `ScriptStep` (the n-th word of a script asks for what the n-th task of the
  same object wrote, in both layouts), `CompleteIs`.

Each proof has one step per action and shows `Init => IInv`,
`IInv /\ [Next]_vars => IInv'`; the refinements map every step to one of the
abstract specification or to a stutter.

Definitions that recur are recursive functions over 0..n (`Power`, `Generations`,
`Restored`); the prover cannot instantiate an induction over data, so a lemma for
each says that the function is there, by the least n for which it would not be.

Model-checked only: the liveness properties; of `VM`, `Orderly`, `OwnVariables`,
which holds of the programs of `vm` but not of all (`vm_local`), and `IsCalls`,
which needs generators that return at the end of their code and whose calls are
a fold over the block stack; of `Stream`, `ReadsFormat`.  The prover has no rule
here for liveness under fairness or for ENABLED, and cannot use RECURSIVE
operators, with which `MCStream` states the formats of CPython's files.

## 6. What is not modelled

Of `VM`: from-imports, exceptions with a `try`, closures and their cells, the
lookup of globals through the scopes, keyword arguments and argument lists,
`eval`, iterators over methods and functions in C, bound methods (a call of one
is a call of the function with the instance as an argument), and what an
operation computes.  Of `Stream`: opening, closing and the table of stream
types.  Not at all: arithmetic, comparison and text (`numops.c`, `strops.c`,
`BinaryOp`, `CompareOp`), which are functions of values that the other models
know only as values; the pool managers, which do not work (`mem_AddChunk` returns
before its code, the debugging variant names undeclared variables); the stores
for small files and for SD cards, which repeat `cache_file.c`; the file and sys
classes; the command line.  The Arduino libraries and the FMOD headers are
vendored and the greater part of the repository's lines.  PROJECT.json gives the
reason for each component, and under `hazards` the places in the code that no
property reaches yet, with a note.

## 7. Plan

In the order of importance.

1. Done: `Memory`, `MemCache`, `MemDebug`, `MemPass`, `CacheStore`, `CacheFile`,
   `RefCount`, `Dict`, `Tuples`, `Stream`, `VM` with variables and imports,
   `Calls` and that the programs of `MCVM` implement it.
   The proofs, those of `Tuples`, its refinement of `Dict`, of `Stream` and of
   `VM` among them.
2. A proof that `VM` implements `Calls`, from `MachineInv` and lemmas about the
   fold that makes calls of blocks.
3. The format of pyc files as a relation between bytes and objects, so that
   `ReadsFormat` can be proved along the lines of `ReadsWhatWasWritten`.
4. Values in `Calls`: a return gives a value to the call below, a yield to
   whoever asked.
5. Closures and the scopes of `LOAD_GLOBAL` in `VM`, and exceptions within
   nested loops once their outcome is defined.
6. `LockDiscipline`: the paths in `tuples.c`, `object.c` and `vm.c` that lock
   and unlock, composed with `MemCache`: what a lock that is never released
   does to the eviction of its chunk.
