------------------------------- MODULE MCICF -------------------------------
EXTENDS ICF

AnImport == CHOOSE f \in Imports : TRUE
To(s) == <<ToSection(s, 0)>>
Each(x) == [s \in Sections |-> x]
Base ==
  [doGC |-> FALSE, roots |-> <<>>, exitThunk |-> [f \in Imports |-> 0],
   kind |-> [Each("comdat") EXCEPT ![5] = "plain"], relocs |-> Each(<<>>),
   children |-> Each(<<>>), entryThunk |-> Each(0), content |-> Each(1),
   writable |-> {}, keepUnique |-> {}, align |-> [s \in Sections |-> s % 3]]

\* Four foldable sections of two contents that refer to one another or to a section that
\* cannot be folded, cycles and self references among them
Folding ==
  {[Base EXCEPT !.content = 1 :> 1 @@ c @@ 5 :> 1, !.relocs = r @@ 5 :> <<>>] :
     c \in [2..4 -> {1, 2}],
     r \in [1..4 -> {<<>>, To(1), To(2), To(3), To(5)}]}

\* Sections of every kind, roots, imports with an exit thunk
Marking ==
  {[Base EXCEPT !.doGC = TRUE, !.roots = root, !.exitThunk = [f \in Imports |-> 4],
      !.kind = k, !.relocs = r @@ 4 :> <<>> @@ 5 :> <<>>] :
     root \in {<<>>, To(1), To(2) \o <<Nowhere>> \o To(2)},
     k \in {<<"comdat", "comdat", "comdat", "comdat", "comdat">>,
            <<"plain", "comdat", "comdat", "comdat", "dwarf">>,
            <<"dwarf", "comdat", "string", "comdat", "plain">>,
            <<"comdat", "comdat dwarf", "comdat", "string", "codeview">>,
            <<"plain metadata", "comdat", "comdat", "metadata", "plain">>},
     r \in [1..3 -> {<<>>, To(2), To(3) \o To(1), <<ToImport("import data", AnImport)>>,
                     To(4) \o <<ToImport("import thunk", AnImport)>>}]}

\* Functions 1 and 2 with associated sections and ARM64EC entry thunks 3 and 4
Attached ==
  {[Base EXCEPT !.doGC = gc, !.roots = To(1) \o To(2), !.children = ch @@ 3 :> <<>> @@ 4 :> <<>> @@ 5 :> <<>>,
      !.entryThunk = e @@ 3 :> 0 @@ 4 :> 0 @@ 5 :> 0, !.kind = [Base.kind EXCEPT ![5] = five],
      !.content = 1 :> 1 @@ 2 :> 1 @@ 3 :> 2 @@ 4 :> four @@ 5 :> 1, !.relocs = Each(<<>>),
      !.writable = w, !.keepUnique = u] :
     gc \in BOOLEAN, four \in {2, 3}, w \in {{}, {1}}, u \in {{}, {2}},
     five \in {"comdat", "codeview", "metadata"},
     ch \in [1..2 -> {<<>>, <<3>>, <<4>>, <<5>>, <<3, 5>>}], e \in [1..2 -> {0, 3, 4}]}

\* The symbols of a section at different offsets
Offsets ==
  {[Base EXCEPT !.relocs = <<r, <<ToSection(3, 0)>>, q, <<>>, <<>> >>] :
     r \in {<<ToSection(3, 4)>>, <<ToSection(4, 0)>>}, q \in {<<>>, To(4)}}

MCGraphs == Folding \cup Marking \cup Attached \cup Offsets

\* Contents 1 and 3 have one hash.
MCHash == <<5, 6, 5>>
=============================================================================
