---------------------------- MODULE MCSymbolTable ----------------------------
EXTENDS SymbolTable

E(op, name, alias, selection, size) ==
  [op |-> op, name |-> name, alias |-> alias, selection |-> selection, size |-> size]
Undef(n) == E("undef", n, None, None, 0)
Weak(n, alias) == E("weak", n, alias, None, 0)
Reg(n) == E("regular", n, None, None, 0)
Comdat(n, selection, size) == E("comdat", n, None, selection, size)
Common(n, size) == E("common", n, None, None, size)
Absolute(n, value) == E("absolute", n, None, None, value)
Import(n) == E("import", n, None, None, 0)

Obj(entries) == [type |-> "object", entries |-> entries]
LazyObj(entries) == [type |-> "lazy", entries |-> entries]
Lib(entries) == [type |-> "archive", entries |-> entries]

\* Objects that define x, or refer to it, in every way
Definers ==
  [reg |-> Obj(<<Reg("x")>>), reg2 |-> Obj(<<Reg("x")>>),
   any4 |-> Obj(<<Comdat("x", "any", 4)>>), any8 |-> Obj(<<Comdat("x", "any", 8)>>),
   largest2 |-> Obj(<<Comdat("x", "largest", 2)>>), largest8 |-> Obj(<<Comdat("x", "largest", 8)>>),
   same4 |-> Obj(<<Comdat("x", "same size", 4)>>), same8 |-> Obj(<<Comdat("x", "same size", 8)>>),
   again4 |-> Obj(<<Comdat("x", "same size", 4)>>),
   exact4 |-> Obj(<<Comdat("x", "exact match", 4)>>), exact8 |-> Obj(<<Comdat("x", "exact match", 8)>>),
   nodup |-> Obj(<<Comdat("x", "noduplicates", 4)>>), nodup2 |-> Obj(<<Comdat("x", "noduplicates", 4)>>),
   common4 |-> Obj(<<Common("x", 4)>>), common8 |-> Obj(<<Common("x", 8)>>),
   abs1 |-> Obj(<<Absolute("x", 1)>>), abs2 |-> Obj(<<Absolute("x", 2)>>),
   import |-> Obj(<<Import("x")>>), uses |-> Obj(<<Undef("x")>>),
   weak |-> Obj(<<Weak("x", "d"), Undef("d")>>)]

\* Archives whose members need one another, lazy objects that need one another and an
\* archive, weak externals with different defaults, an import library
Loaders ==
  [main |-> Obj(<<Undef("a"), Undef("b"), Reg("m")>>),
   libA |-> Lib(<<<<"a", "memberA">>, <<"c", "memberC">>, <<"r", "memberR">>>>),
   libB |-> Lib(<<<<"a", "memberB">>, <<"b", "memberB">>>>),
   libI |-> Lib(<<<<"b", "memberI">>>>),
   lazyD |-> LazyObj(<<Undef("e"), Reg("d"), Comdat("a", "any", 4)>>),
   lazyE |-> LazyObj(<<Reg("e"), Undef("d"), Undef("b")>>),
   lazyI |-> LazyObj(<<Weak("a", "i"), Reg("i"), Undef("c")>>),
   weakE |-> Obj(<<Weak("a", "e"), Undef("e")>>),
   weakD |-> Obj(<<Undef("d"), Weak("a", "d")>>)]

MemberFiles ==
  [memberA |-> Obj(<<Reg("a"), Undef("c"), Undef("d")>>),
   memberB |-> Obj(<<Undef("c"), Reg("b"), Comdat("a", "any", 4)>>),
   memberC |-> Obj(<<Undef("b"), Reg("c")>>),
   libC |-> Lib(<<<<"c", "memberC2">>, <<"e", "memberE">>>>),
   memberC2 |-> Obj(<<Reg("c")>>), memberE |-> Obj(<<Reg("e"), Undef("a")>>),
   memberI |-> Obj(<<Import("b")>>),
   memberR |-> Obj(<<Reg("r"), Weak("b", "e"), Undef("e")>>)]

MCFile == Definers @@ Loaders @@ MemberFiles

\* All orders of up to 3 definers and of up to 5 loaders
Orders(files, n) == UNION {{s \in [1..k -> files] : IsInjective(s)} : k \in 1..n}
MCCommandLines == Orders(DOMAIN Definers, 3) \cup Orders(DOMAIN Loaders, 5)
MCDefaultLibs == <<"libC">>
MCRoots == <<"d", "r", "x">>
=============================================================================
