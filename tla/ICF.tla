--------------------------------- MODULE ICF ---------------------------------
(***************************************************************************)
(* Identical COMDAT folding (lld/COFF/ICF.cpp) on the sections that garbage *)
(* collection left alive.  Classes start from hashes and are split until   *)
(* nothing splits: each round reads one half of eqClass and writes the     *)
(* other, over shards of the section list that run in parallel.            *)
(*                                                                         *)
(* graph.content[s] stands for what equalsConstant compares outside        *)
(* relocation targets, graph.writable and graph.keepUnique for the         *)
(* conditions of isEligible, graph.align for p2Align.                      *)
(***************************************************************************)
EXTENDS MarkLive, FiniteSetsExt

CONSTANTS
  Hash,         \* xxh3_64bits of the contents
  MSB,          \* 1U << 31; classes are numbers below 2 * MSB
  MinParallel,  \* 1024: fewer sections are handled by one thread
  NumShards     \* 256

ASSUME ShardsAssumption ==
  NumShards \in Nat \ {0} /\ MinParallel \in Nat /\ MinParallel >= NumShards
ASSUME MsbAssumption == MSB \in Nat \ {0} /\ \A s \in Sections : s < MSB
ASSUME AlignAssumption == \A g \in Graphs : g.align \in [Sections -> Nat]
ASSUME HashAssumption == \A g \in Graphs : \A s \in Sections : Hash[g.content[s]] \in Nat

VARIABLES
  chunks,   \* the eligible sections, those of a class side by side
  eqClass,  \* the two halves: eqClass[h][s]
  cnt,      \* rounds so far, of which only the parity matters; hash passes before
  repeat,
  inRound,  \* forEachClass is running
  shards,   \* its unfinished shards: <<begin, end of the class there, end of the shard>>
  repl,     \* SectionChunk::repl
  align     \* SectionChunk::p2Align

icfVars == <<chunks, eqClass, cnt, repeat, inRound, shards, repl, align>>
vars == <<graph, phase, markVars, icfVars>>

Half(n) == eqClass[n % 2]

Init ==
  /\ MarkInit
  /\ chunks = <<>>
  /\ eqClass = [h \in 0..1 |-> [s \in Sections |-> 0]]
  /\ cnt = 0
  /\ repeat = FALSE
  /\ inRound = FALSE
  /\ shards = {}
  /\ repl = [s \in Sections |-> s]
  /\ align = graph.align

----------------------------------------------------------------------------
(* The initial classes *)

\* Mutant: dead sections are folded too.
IsEligibleThoughDead(s) ==
  s \in Are(Comdat \cap Listed) \ (graph.writable \cup graph.keepUnique)

IsEligible(s) ==
  /\ s \in live \cap Are(Comdat \cap Listed)
  /\ s \notin graph.writable
  /\ s \notin graph.keepUnique

\* Eligible sections are collected; the other listed sections and then the tail-merged
\* strings get numbers of their own, in the first half only.
NumberedBefore(s) ==
  {t \in Are(Listed \cup {"string"}) :
     /\ ~IsEligible(t)
     /\ IF graph.kind[s] = "string" THEN t < s \/ graph.kind[t] # "string"
                                    ELSE t < s /\ graph.kind[t] # "string"}

Collect ==
  /\ phase = "icf"
  /\ chunks' = Ascending({s \in Sections : IsEligible(s)})
  /\ eqClass' = [eqClass EXCEPT ![0] = [s \in Sections |->
       CASE IsEligible(s) -> Hash[graph.content[s]]
         [] ~IsEligible(s) /\ s \in Are(Listed \cup {"string"}) ->
              Cardinality(NumberedBefore(s)) + 1
         [] OTHER -> 0]]
  /\ phase' = "hash"
  /\ UNCHANGED <<graph, markVars, cnt, repeat, inRound, shards, repl, align>>

\* One pass that adds the classes of the sections referred to: half n to half n + 1
Combined(n, s) ==
  LET added(x) == IF x.to = "section" THEN Half(n)[x.at] ELSE 0
      sum[i \in 0..Len(graph.relocs[s])] ==
        IF i = 0 THEN Half(n)[s] ELSE sum[i - 1] + added(graph.relocs[s][i])
  IN IF s \in Range(chunks)
       THEN (sum[Len(graph.relocs[s])] % MSB) + MSB
       ELSE Half(n + 1)[s]

CombineHashes(n) ==
  /\ phase = "hash"
  /\ cnt = n
  /\ eqClass' = [eqClass EXCEPT ![(n + 1) % 2] = [s \in Sections |-> Combined(n, s)]]
  /\ cnt' = n + 1
  /\ UNCHANGED <<graph, phase, markVars, chunks, repeat, inRound, shards, repl, align>>

\* stable_sort: sections of one hash stay in the order of the input.
SortedBefore(a, b) == Half(0)[a] < Half(0)[b] \/ (Half(0)[a] = Half(0)[b] /\ a < b)

SortByHash ==
  /\ phase = "hash"
  /\ cnt = 2
  /\ chunks' = [n \in DOMAIN chunks |-> CHOOSE s \in Range(chunks) :
       Cardinality({t \in Range(chunks) : SortedBefore(t, s)}) = n - 1]
  /\ cnt' = 0
  /\ phase' = "constant"
  /\ UNCHANGED <<graph, markVars, eqClass, repeat, inRound, shards, repl, align>>

----------------------------------------------------------------------------
(* Comparing two sections with the classes of the current round *)

SameClass(a, b) == Half(cnt)[a] = Half(cnt)[b]

SameTarget(x, y) ==
  x = y \/ (x.to = "section" /\ y.to = "section" /\ SameClass(x.at, y.at))

\* Mutant: a section with more children than the other passes.
AssocEqualsByPrefix(a, b) ==
  \A i \in DOMAIN graph.children[a] \cap DOMAIN graph.children[b] :
    SameClass(graph.children[a][i], graph.children[b][i])

\* considerForICF: debug information and guard tables among the children do not count.
Considered(s) ==
  LET kept == {i \in DOMAIN graph.children[s] :
                 graph.kind[graph.children[s][i]] \notin {"codeview", "comdat dwarf"}}
  IN [n \in 1..Cardinality(kept) |-> graph.children[s][Ascending(kept)[n]]]

AssocEquals(a, b) ==
  /\ Len(Considered(a)) = Len(Considered(b))
  /\ \A i \in DOMAIN Considered(a) : SameClass(Considered(a)[i], Considered(b)[i])

EqualsConstant(a, b) ==
  LET ra == graph.relocs[a]
      rb == graph.relocs[b]
  IN /\ Len(ra) = Len(rb)
     /\ \A i \in DOMAIN ra :
          SameTarget(ra[i], rb[i]) /\ (ra[i].to = "section" => ra[i].value = rb[i].value)
     /\ graph.content[a] = graph.content[b]
     /\ AssocEquals(a, b)

EqualsVariable(a, b) ==
  LET ea == graph.entryThunk[a]
      eb == graph.entryThunk[b]
  IN /\ ea = eb \/ (ea # 0 /\ eb # 0 /\ SameClass(ea, eb))
     /\ \A i \in DOMAIN graph.relocs[a] : SameTarget(graph.relocs[a][i], graph.relocs[b][i])
     /\ AssocEquals(a, b)

----------------------------------------------------------------------------
(* A round: forEachClass *)

\* Positions count from 0, as in the code.
At(i) == chunks[i + 1]

FindBoundary(begin, end) ==
  LET other == {i \in (begin + 1)..(end - 1) : ~SameClass(At(begin), At(i))}
  IN IF other = {} THEN end ELSE CHOOSE i \in other : \A j \in other : i <= j

\* The boundaries are all computed before any class is touched.
Boundary(i) ==
  CASE i = 0 -> 0
    [] i = NumShards -> Len(chunks)
    [] OTHER -> FindBoundary((i - 1) * (Len(chunks) \div NumShards), Len(chunks))

\* One range below 1024 sections, else shards; each with its first class
Shards ==
  LET range == IF Len(chunks) < MinParallel THEN {<<0, Len(chunks)>>}
                 ELSE {<<Boundary(i - 1), Boundary(i)>> : i \in 1..NumShards}
  IN {<<r[1], FindBoundary(r[1], r[2]), r[2]>> : r \in {q \in range : q[1] < q[2]}}

\* Mutant: repeat is reset before the loop only.
BeginRoundOnce ==
  /\ phase \in {"constant", "variable", "merge"}
  /\ ~inRound
  /\ inRound' = TRUE
  /\ shards' = Shards
  /\ UNCHANGED <<graph, phase, markVars, chunks, eqClass, cnt, repeat, repl, align>>

BeginRound ==
  /\ phase \in {"constant", "variable", "merge"}
  /\ ~inRound
  /\ inRound' = TRUE
  /\ shards' = Shards
  /\ repeat' = (repeat /\ phase # "variable")
  /\ UNCHANGED <<graph, phase, markVars, chunks, eqClass, cnt, repl, align>>

\* The shard goes on at mid: in the same class, in the next one, or not at all.
Advance(r, mid) ==
  shards' = (shards \ {r}) \cup
    (CASE mid < r[2] -> {<<mid, r[2], r[3]>>}
       [] mid = r[2] /\ mid < r[3] -> {<<mid, FindBoundary(mid, r[3]), r[3]>>}
       [] OTHER -> {})

\* The rest of the class
Others(r) == (r[1] + 1)..(r[2] - 1)

\* One iteration of segregate: what equals the first section is moved to the front of the
\* class in its order (stable_partition) and gets its end as the class.
Segregate(r, equal) ==
  LET begin == r[1]
      same == {begin} \cup equal
      mid == begin + Cardinality(same)
      moved == Ascending(same) \o Ascending((begin..(r[2] - 1)) \ same)
  IN /\ chunks' = [p \in DOMAIN chunks |->
                    IF p - 1 \in begin..(r[2] - 1) THEN At(moved[p - begin]) ELSE chunks[p]]
     /\ eqClass' = [eqClass EXCEPT ![(cnt + 1) % 2] = [s \in Sections |->
                      IF s \in {At(i) : i \in same} THEN mid ELSE @[s]]]
     /\ repeat' = (repeat \/ mid # r[2])
     /\ Advance(r, mid)
     /\ UNCHANGED <<graph, phase, markVars, cnt, inRound, repl, align>>

SegregateConstant(r) ==
  phase = "constant" /\ Segregate(r, {i \in Others(r) : EqualsConstant(At(r[1]), At(i))})
SegregateVariable(r) ==
  phase = "variable" /\ Segregate(r, {i \in Others(r) : EqualsVariable(At(r[1]), At(i))})

\* SectionChunk::replace, for every section of the class but the first
MergeClass(r) ==
  /\ phase = "merge"
  /\ LET leader == At(r[1])
         others == {At(i) : i \in Others(r)}
     IN /\ repl' = [s \in Sections |-> IF s \in others THEN repl[leader] ELSE repl[s]]
        /\ live' = live \ others
        /\ align' = [align EXCEPT ![leader] = Max({@} \cup {align[s] : s \in others})]
  /\ Advance(r, r[2])
  /\ UNCHANGED <<graph, phase, worklist, liveImports, liveThunks, chunks, eqClass, cnt, repeat,
                 inRound>>

EndRound ==
  /\ inRound
  /\ shards = {}
  /\ inRound' = FALSE
  /\ cnt' = (cnt + 1) % 2
  /\ phase' = CASE phase = "constant" -> "variable"
                [] phase = "variable" -> IF repeat THEN "variable" ELSE "merge"
                [] phase = "merge" -> "done"
  /\ UNCHANGED <<graph, markVars, chunks, eqClass, repeat, shards, repl, align>>

Next ==
  \/ MarkStep /\ UNCHANGED icfVars
  \/ Collect \/ SortByHash \/ BeginRound \/ EndRound
  \/ \E n \in 0..1 : CombineHashes(n)
  \/ \E r \in shards : SegregateConstant(r) \/ SegregateVariable(r) \/ MergeClass(r)

Spec == Init /\ [][Next]_vars

\* The shards are bodies of parallelFor, which returns (module ParallelFor).
FairSpec == Spec /\ WF_vars(Next)

----------------------------------------------------------------------------
(* Properties *)

Eligible == Range(chunks)

\* f folds only sections that agree in everything when what f folds is taken as equal:
\* contents, relocations and their targets, children and entry thunks.
Congruent(f) ==
  LET same(a, b) == a = b \/ (a \in Eligible /\ b \in Eligible /\ f[a] = f[b])
  IN \A s, t \in Eligible : f[s] = f[t] =>
       /\ graph.content[s] = graph.content[t]
       /\ Len(graph.relocs[s]) = Len(graph.relocs[t])
       /\ \A i \in DOMAIN graph.relocs[s] :
            LET x == graph.relocs[s][i]
                y == graph.relocs[t][i]
            IN x = y \/ (x.to = "section" /\ y.to = "section" /\ x.value = y.value /\ same(x.at, y.at))
       /\ Len(Considered(s)) = Len(Considered(t))
       /\ \A i \in DOMAIN Considered(s) : same(Considered(s)[i], Considered(t)[i])
       /\ same(graph.entryThunk[s], graph.entryThunk[t])

\* h tells apart no sections that could be folded.
Coarse(h) ==
  \A f \in [Eligible -> Eligible] :
    Congruent(f) => \A s, t \in Eligible : f[s] = f[t] => h[s] = h[t]

\* Of the sections folded with s the first is kept, with the strictest alignment.
FirstIsKept(s) ==
  LET class == {t \in Eligible : repl[t] = repl[s]}
  IN /\ repl[s] = Min(class)
     /\ s \in live <=> s = repl[s]
     /\ align[repl[s]] = Max({graph.align[t] : t \in class})

\* What is folded is the greatest congruence, neither two sections that differ nor less
\* than could be folded, whatever the shards, the hashes and the order in which the rounds
\* ran (ICF.cpp:103, ICF.cpp:234).  Of the folded sections the first of the input is kept,
\* with the strictest alignment, and only the others die (ICF.cpp:315).
FoldIsExact ==
  phase = "done" =>
    /\ Congruent(repl)
    /\ Coarse(repl)
    /\ \A s \in Eligible : FirstIsKept(s)

\* After both passes no live section refers to one that is left out of the image, apart
\* from the DWARF and unlisted sections that markLive does not traverse.
TargetsStayLive ==
  phase = "done" /\ graph.doGC =>
    \A s \in live \ NotTraversed : \A t \in KeepsAlive(s) : repl[t] \in live

\* Both passes end.
IcfConverges == <>(phase = "done")
=============================================================================
