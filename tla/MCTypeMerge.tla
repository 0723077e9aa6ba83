----------------------------- MODULE MCTypeMerge -----------------------------
EXTENDS TypeMerge

Rec(hash, item, refs) == [hash |-> hash, item |-> item, refs |-> refs]
Ref(at, item) == [at |-> at, item |-> item]
Src(kind, recs, dep, count) == [kind |-> kind, recs |-> recs, dep |-> dep, count |-> count]

\* Types a, c and h, type b that refers to a, function id f of type a, function id g of
\* type b in the scope of f; e ends a precompiled header.
A == Rec("a", 0, <<>>)
B(a) == Rec("b", 0, <<Ref(a, 0)>>)
C == Rec("c", 0, <<>>)
H == Rec("h", 0, <<>>)
E == Rec("e", 0, <<>>)
F(a) == Rec("f", 1, <<Ref(a, 0)>>)
G(f, b) == Rec("g", 1, <<Ref(b, 0), Ref(f, 1)>>)
Plain(recs) == Src("Regular", recs, 0, 0)

\* Objects alone; a precompiled header given after its user, one that does not match,
\* one that is missing; a type server with and without an IPI stream, and a missing one;
\* more records than cells.
MCInputs ==
  { <<Plain(<<A, B(0), F(0)>>), Plain(<<C, A, F(1)>>), Plain(<<A, F(0), B(0), G(1, 2)>>)>>,
    <<Plain(<<A, F(0), B(0)>>), Src("UsingPCH", <<F(0), G(2, 1)>>, 3, 2),
      Src("PCH", <<A, B(0), E, C>>, 0, 0), Src("UsingPCH", <<C>>, 3, 1),
      Src("UsingPCH", <<C>>, 0, 2)>>,
    <<Src("UsingPDB", <<>>, 2, 0), Src("PDB", <<C, A, B(1)>>, 3, 0),
      Src("PDBIpi", <<F(1), G(0, 2)>>, 0, 0), Plain(<<A, F(0), B(0), G(1, 2)>>),
      Src("UsingPDB", <<>>, 0, 0)>>,
    <<Src("UsingPDB", <<>>, 2, 0), Src("PDB", <<A, C>>, 0, 0), Plain(<<C, A, B(1), F(1)>>)>>,
    <<Plain(<<A, B(0), C, F(0)>>), Plain(<<H, A, F(1), B(1), G(2, 3)>>)>> }

\* a, b and f start at one cell of the table, the probes of b and f run on.
MCHashWord == [a |-> 4, b |-> 4, c |-> 5, e |-> 0, f |-> 4, g |-> 2, h |-> 1]
=============================================================================
