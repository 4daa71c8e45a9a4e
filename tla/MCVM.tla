-------------------------------- MODULE MCVM --------------------------------
(***************************************************************************)
(* Programs for VM, as the compiler of Python 3.2 lays them out: each line *)
(* is the stack of its block, the instruction and its argument.            *)
(***************************************************************************)
EXTENDS VM

CONSTANTS t1, t2

E == <<>>
V == <<"value">>
I == <<"iter">>
VV == <<"value", "value">>
IV == <<"iter", "value">>
VVV == <<"value", "value", "value">>
IVV == <<"iter", "value", "value">>
IVVV == <<"iter", "value", "value", "value">>
IVVVV == <<"iter", "value", "value", "value", "value">>
IVVI == <<"iter", "value", "value", "iter">>
VVVV == <<"value", "value", "value", "value">>
VI == <<"value", "iter">>
VIV == <<"value", "iter", "value">>
VVI == <<"value", "value", "iter">>

Coded(kind, args, names, bases, init, lines) ==
  [kind |-> kind, args |-> args, vars |-> names, bases |-> bases, init |-> init,
   shape |-> [k \in DOMAIN lines |-> lines[k][1]],
   ops |-> [k \in DOMAIN lines |-> [op |-> lines[k][2], arg |-> lines[k][3]]]]

\* With a number of arguments and of variables in all; a program has none.
Function(args, names, lines) == Coded("function", args, names, <<>>, "", lines)
Generating(args, names, lines) == Coded("generator", args, names, <<>>, "", lines)
Program(lines) == Function(0, 0, lines)
Module(lines) == Coded("module", 0, 0, <<>>, "", lines)

Calls(fs, n) == [callees |-> fs, takes |-> n]

\* def plain(x):  return x
Plain == Function(1, 1, <<
  <<E, "load_fast", 1>>,
  <<V, "return", 0>> >>)

\* def search(n):
\*   for x in range(n):  if x: break
\*   return n
Search == Function(1, 2, <<
  <<E, "setup_loop", 12>>,
  <<E, "load", Item>>,
  <<V, "load_fast", 1>>,
  <<VV, "range", 0>>,
  <<I, "get_iter", 0>>,
  <<I, "for_iter", 6>>,
  <<IV, "store_fast", 2>>,
  <<I, "load_fast", 2>>,
  <<IV, "branch", 11>>,
  <<I, "break", 0>>,
  <<I, "jump", 5>>,
  <<I, "jump", 5>>,
  <<E, "pop_block", 0>>,
  <<E, "load_fast", 1>>,
  <<V, "return", 0>> >>)

\* def each(t):
\*   for x in t:
\*     yield x
\*     x
Each == Generating(1, 2, <<
  <<E, "setup_loop", 11>>,
  <<E, "load_fast", 1>>,
  <<V, "get_iter", 0>>,
  <<I, "for_iter", 7>>,
  <<IV, "store_fast", 2>>,
  <<I, "load_fast", 2>>,
  <<IV, "yield", 0>>,
  <<IV, "store", 1>>,
  <<I, "load_fast", 2>>,
  <<IV, "store", 1>>,
  <<I, "jump", 3>>,
  <<E, "pop_block", 0>>,
  <<E, "load", None>>,
  <<V, "return", 0>> >>)

\* def chain(t):
\*   for x in each(t):  yield x + 1
Chain == Generating(1, 2, <<
  <<E, "setup_loop", 13>>,
  <<E, "load", Item>>,
  <<V, "load_fast", 1>>,
  <<VV, "call", Calls({"each"}, 2)>>,
  <<I, "get_iter", 0>>,
  <<I, "for_iter", 7>>,
  <<IV, "store_fast", 2>>,
  <<I, "load_fast", 2>>,
  <<IV, "load", Item>>,
  <<IVV, "compute", 2>>,
  <<IV, "yield", 0>>,
  <<IV, "store", 1>>,
  <<I, "jump", 5>>,
  <<E, "pop_block", 0>>,
  <<E, "load", None>>,
  <<V, "return", 0>> >>)

\* def batch(t):
\*   for x in t:
\*     a = list(map(plain, range(x)))
\*     yield a
Batch == Generating(1, 2, <<
  <<E, "setup_loop", 16>>,
  <<E, "load_fast", 1>>,
  <<V, "get_iter", 0>>,
  <<I, "for_iter", 12>>,
  <<IV, "store_fast", 2>>,
  <<I, "load", Item>>,
  <<IV, "load", Item>>,
  <<IVV, "load", Item>>,
  <<IVVV, "load_fast", 2>>,
  <<IVVVV, "range", 0>>,
  <<IVVI, "map", {"plain"}>>,
  <<IV, "load", None>>,
  <<IVV, "compute", 2>>,
  <<IV, "yield", 0>>,
  <<IV, "store", 1>>,
  <<I, "jump", 3>>,
  <<E, "pop_block", 0>>,
  <<E, "load", None>>,
  <<V, "return", 0>> >>)

\* for x in each(t1):
\*   for y in chain(t2) or batch(t2):
\*     if y: break
Grid == Program(<<
  <<E, "setup_loop", 17>>,
  <<E, "load", Item>>,
  <<V, "load", t1>>,
  <<VV, "call", Calls({"each"}, 2)>>,
  <<I, "for_iter", 12>>,
  <<IV, "store", 1>>,
  <<I, "setup_loop", 9>>,
  <<E, "load", Item>>,
  <<V, "load", t2>>,
  <<VV, "call", Calls({"chain", "batch"}, 2)>>,
  <<I, "for_iter", 4>>,
  <<IV, "branch", 14>>,
  <<I, "break", 0>>,
  <<I, "jump", 10>>,
  <<I, "jump", 10>>,
  <<E, "pop_block", 0>>,
  <<I, "jump", 4>>,
  <<E, "pop_block", 0>>,
  <<E, "load", None>>,
  <<V, "return", 0>> >>)

\* class base:  a = 1
Body(bases, init) == Coded("class", 0, 0, bases, init, <<
  <<V, "load", Item>>,
  <<VV, "store", 1>>,
  <<V, "load", None>>,
  <<VV, "return", 0>> >>)

\* def __init__(self, n):
\*   for x in range(n):  self.a = x
Initializer == Function(2, 3, <<
  <<E, "setup_loop", 11>>,
  <<E, "load", Item>>,
  <<V, "load_fast", 2>>,
  <<VV, "range", 0>>,
  <<I, "get_iter", 0>>,
  <<I, "for_iter", 5>>,
  <<IV, "store_fast", 3>>,
  <<I, "load_fast", 3>>,
  <<IV, "load_fast", 1>>,
  <<IVV, "store", 2>>,
  <<I, "jump", 5>>,
  <<E, "pop_block", 0>>,
  <<E, "load", None>>,
  <<V, "return", 0>> >>)

\* def __init__(self, n):
\*   if n:  node(n - 1)
\*   self.n = n
NodeInitializer == Function(2, 2, <<
  <<E, "load_fast", 2>>,
  <<V, "branch", 6>>,
  <<E, "load", Item>>,
  <<V, "load_fast", 2>>,
  <<VV, "call", Calls({"node"}, 2)>>,
  <<V, "store", 1>>,
  <<E, "load_fast", 2>>,
  <<V, "load_fast", 1>>,
  <<VV, "store", 2>>,
  <<E, "load", None>>,
  <<V, "return", 0>> >>)

\* node(2)
Grow == Program(<<
  <<E, "load", Item>>,
  <<V, "load", Item>>,
  <<VV, "call", Calls({"node"}, 2)>>,
  <<V, "store", 1>>,
  <<E, "load", None>>,
  <<V, "return", 0>> >>)

\* import m, a module that imports another, which imports it
Imports(m) == Module(<<
  <<E, "load", Item>>,
  <<V, "load", Item>>,
  <<VV, "import", m>>,
  <<V, "store", 1>>,
  <<E, "load", None>>,
  <<V, "return", 0>> >>)

\* def lazy(x):
\*   import util
\*   return x
Lazy == Function(1, 2, <<
  <<E, "load", Item>>,
  <<V, "load", Item>>,
  <<VV, "import", "util">>,
  <<V, "store_fast", 2>>,
  <<E, "load_fast", 1>>,
  <<V, "return", 0>> >>)

\* for x in each(t1) or chain(t1):
\*   plain(1), search(1), lazy(1), base(1) or derived(1)
Loop == Program(<<
  <<E, "setup_loop", 12>>,
  <<E, "load", Item>>,
  <<V, "load", t1>>,
  <<VV, "call", Calls({"each", "chain"}, 2)>>,
  <<I, "get_iter", 0>>,
  <<I, "for_iter", 6>>,
  <<IV, "store", 1>>,
  <<I, "load", Item>>,
  <<IV, "load", Item>>,
  <<IVV, "call", Calls({"plain", "search", "lazy", "base", "derived"}, 2)>>,
  <<IV, "store", 1>>,
  <<I, "jump", 5>>,
  <<E, "pop_block", 0>>,
  <<E, "load", None>>,
  <<V, "return", 0>> >>)

\* with open() as f:  a = list(map(plain or search, t1))
Within == Program(<<
  <<E, "load", Item>>,
  <<V, "setup_with", 9>>,
  <<V, "store", 1>>,
  <<E, "load", Item>>,
  <<V, "load", Item>>,
  <<VV, "load", t1>>,
  <<VVV, "get_iter", 0>>,
  <<VVI, "map", {"plain", "search"}>>,
  <<V, "store", 1>>,
  <<E, "pop_block", 0>>,
  <<E, "load", None>>,
  <<E, "with_cleanup", 0>>,
  <<E, "load", None>>,
  <<V, "return", 0>> >>)

\* a = list(map(plain or search or lazy, each(t1) or chain(t1)))
Mapped == Program(<<
  <<E, "load", Item>>,
  <<V, "load", Item>>,
  <<VV, "load", Item>>,
  <<VVV, "load", t1>>,
  <<VVVV, "call", Calls({"each", "chain"}, 2)>>,
  <<VVI, "map", {"plain", "search", "lazy"}>>,
  <<V, "store", 1>>,
  <<E, "load", None>>,
  <<V, "return", 0>> >>)

\* g = each(t1) or batch(t1), kept on the value stack as three references
\* for x in g:  pass
\* for x in g:  pass
\* for x in g:  pass
Again == Program(<<
  <<E, "load", Item>>,
  <<V, "load", t1>>,
  <<VV, "call", Calls({"each", "batch"}, 2)>>,
  <<I, "dup_top", 1>>,
  <<<<"iter", "iter">>, "dup_top", 1>>,
  <<<<"iter", "iter", "iter">>, "for_iter", 2>>,
  <<<<"iter", "iter", "iter", "value">>, "store", 1>>,
  <<<<"iter", "iter", "iter">>, "jump", 5>>,
  <<<<"iter", "iter">>, "for_iter", 2>>,
  <<<<"iter", "iter", "value">>, "store", 1>>,
  <<<<"iter", "iter">>, "jump", 8>>,
  <<I, "for_iter", 2>>,
  <<IV, "store", 1>>,
  <<I, "jump", 11>>,
  <<E, "load", None>>,
  <<V, "return", 0>> >>)

\* [x for x in it]
Comprehension == Function(1, 2, <<
  <<E, "build", 0>>,
  <<V, "load_fast", 1>>,
  <<VI, "for_iter", 4>>,
  <<VIV, "store_fast", 2>>,
  <<VI, "load_fast", 2>>,
  <<VIV, "list_append", 2>>,
  <<VI, "jump", 2>>,
  <<V, "return", 0>> >>)

\* (x for x in it)
Expression == Generating(1, 2, <<
  <<E, "load_fast", 1>>,
  <<I, "for_iter", 5>>,
  <<IV, "store_fast", 2>>,
  <<I, "load_fast", 2>>,
  <<IV, "yield", 0>>,
  <<IV, "store", 1>>,
  <<I, "jump", 1>>,
  <<E, "load", None>>,
  <<V, "return", 0>> >>)

\* def picked(t):
\*   a = [x for x in each(t)]
\*   return (a, (x for x in chain(t)), iter(t))
Picked == Function(1, 2, <<
  <<E, "load", Item>>,
  <<V, "load", Item>>,
  <<VV, "load_fast", 1>>,
  <<VVV, "call", Calls({"each"}, 2)>>,
  <<VI, "get_iter", 0>>,
  <<VI, "call", Calls({"listcomp"}, 2)>>,
  <<V, "store_fast", 2>>,
  <<E, "load_fast", 2>>,
  <<V, "load", Item>>,
  <<VV, "load", Item>>,
  <<VVV, "load_fast", 1>>,
  <<VVVV, "call", Calls({"chain"}, 2)>>,
  <<VVI, "call", Calls({"genexpr"}, 2)>>,
  <<VI, "load_fast", 1>>,
  <<VIV, "get_iter", 0>>,
  <<<<"value", "iter", "iter">>, "build", 3>>,
  <<V, "return", 0>> >>)

\* def sampled(t):
\*   g = each(t)
\*   a, b = next(g), t
\*   b[0] += a
\*   return list(g) or a
Sampled == Function(1, 4, <<
  <<E, "load", Item>>,
  <<V, "load_fast", 1>>,
  <<VV, "call", Calls({"each", "chain"}, 2)>>,
  <<I, "store_fast", 2>>,
  <<E, "load", Item>>,
  <<V, "load_fast", 2>>,
  <<VI, "ask", 0>>,
  <<V, "load_fast", 1>>,
  <<VV, "rotate", 2>>,
  <<VV, "store_fast", 3>>,
  <<V, "store_fast", 4>>,
  <<E, "load_fast", 4>>,
  <<V, "load", Item>>,
  <<VV, "dup_top", 2>>,
  <<VVVV, "compute", 2>>,
  <<VVV, "load_fast", 3>>,
  <<VVVV, "compute", 2>>,
  <<VVV, "rotate", 3>>,
  <<VVV, "store", 3>>,
  <<E, "load", Item>>,
  <<V, "load_fast", 2>>,
  <<VI, "drain", 0>>,
  <<V, "jump_if", 24>>,
  <<E, "load_fast", 3>>,
  <<V, "return", 0>> >>)

\* def checked(t):
\*   for x in t:
\*     if x: raise x
\*   return t
Checked == Function(1, 2, <<
  <<E, "setup_loop", 10>>,
  <<E, "load_fast", 1>>,
  <<V, "get_iter", 0>>,
  <<I, "for_iter", 6>>,
  <<IV, "store_fast", 2>>,
  <<I, "load_fast", 2>>,
  <<IV, "branch", 3>>,
  <<I, "load_fast", 2>>,
  <<IV, "raise", 1>>,
  <<I, "jump", 3>>,
  <<E, "pop_block", 0>>,
  <<E, "load_fast", 1>>,
  <<V, "return", 0>> >>)

\* for x in t1:  picked(t2), sampled(t2) or checked(t2)
Careful == Program(<<
  <<E, "setup_loop", 10>>,
  <<E, "load", t1>>,
  <<V, "get_iter", 0>>,
  <<I, "for_iter", 6>>,
  <<IV, "store", 1>>,
  <<I, "load", Item>>,
  <<IV, "load", t2>>,
  <<IVV, "call", Calls({"picked", "sampled", "checked"}, 2)>>,
  <<IV, "store", 1>>,
  <<I, "jump", 3>>,
  <<E, "pop_block", 0>>,
  <<E, "load", None>>,
  <<V, "return", 0>> >>)

\* def early(t):
\*   for x in t:  return x
\*   return None
Early == Function(1, 1, <<
  <<E, "setup_loop", 6>>,
  <<E, "load_fast", 1>>,
  <<V, "get_iter", 0>>,
  <<I, "for_iter", 2>>,
  <<IV, "return", 0>>,
  <<I, "jump", 3>>,
  <<E, "pop_block", 0>>,
  <<E, "load", None>>,
  <<V, "return", 0>> >>)

\* early(t1)
Asks == Program(<<
  <<E, "load", Item>>,
  <<V, "load", t1>>,
  <<VV, "call", Calls({"early"}, 2)>>,
  <<V, "store", 1>>,
  <<E, "load", None>>,
  <<V, "return", 0>> >>)

Library ==
  [plain |-> Plain, search |-> Search, each |-> Each, chain |-> Chain,
   base |-> Body(<<>>, ""), derived |-> Body(<<"base">>, "init"),
   init |-> Initializer, node |-> Body(<<>>, "node_init"),
   node_init |-> NodeInitializer, grow |-> Grow, lazy |-> Lazy,
   util |-> Imports("helper"), helper |-> Imports("util"),
   batch |-> Batch, grid |-> Grid, loop |-> Loop, within |-> Within,
   mapped |-> Mapped, again |-> Again, early |-> Early, asks |-> Asks,
   listcomp |-> Comprehension, genexpr |-> Expression, picked |-> Picked,
   sampled |-> Sampled, checked |-> Checked, careful |-> Careful]
=============================================================================
