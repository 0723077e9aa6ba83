------------------------------ MODULE MarkLive ------------------------------
(***************************************************************************)
(* Garbage collection of sections (lld/COFF/MarkLive.cpp).  Sections that  *)
(* are not COMDAT are live from the start, the others when a root, a       *)
(* relocation, an association or an ARM64EC thunk of a live section leads  *)
(* to them.  The worklist is a stack, and a section is marked when it is   *)
(* pushed.                                                                 *)
(***************************************************************************)
EXTENDS Integers, Sequences, FiniteSets, SequencesExt

CONSTANTS
  Sections,  \* section numbers, in the order of driver.getChunks()
  Imports,   \* import files
  Graphs     \* the inputs

ASSUME SectionsAssumption == IsFiniteSet(Sections) /\ Sections \subseteq Nat \ {0}

\* A symbol is where it is defined: a section and an offset in it, the data or the thunk
\* of an import file, or nowhere that getDefined would return.
ToSection(s, value) == [to |-> "section", at |-> s, value |-> value]
ToImport(kind, f) == [to |-> kind, at |-> f, value |-> 0]
Nowhere == [to |-> "undefined", at |-> 0, value |-> 0]

\* A graph has doGC, roots (symbols), exitThunk (of each import file: a section or 0) and,
\* of each section, relocs (symbols), children (associated sections), entryThunk (a
\* section or 0) and a kind.  getChunks() leaves out string literals to be tail merged and
\* what goes into lists of its own: "codeview" stands for CodeView, .gfids$y, .giats$y and
\* .gljmp$y, "metadata" for .gehcont$y, .sxdata, .rsrc and LNK_INFO sections, "plain
\* metadata" for all of these when they are not COMDAT.
Comdat == {"comdat", "comdat dwarf", "string", "codeview", "metadata"}
Dwarf == {"dwarf", "comdat dwarf"}
Unlisted == {"codeview", "metadata", "plain metadata"}
Kinds == Comdat \cup Dwarf \cup Unlisted \cup {"plain"}
Listed == Kinds \ (Unlisted \cup {"string"})

Symbol ==
  [to : {"section"}, at : Sections, value : Nat]
    \cup [to : {"import data", "import thunk"}, at : Imports, value : {0}] \cup {Nowhere}

ASSUME GraphsAssumption ==
  \A g \in Graphs :
    /\ g.roots \in Seq(Symbol)
    /\ g.relocs \in [Sections -> Seq(Symbol)]
    /\ g.children \in [Sections -> Seq(Sections)]
    /\ g.kind \in [Sections -> Kinds]

VARIABLES
  graph,
  phase,      \* "roots", "mark", then what module ICF does
  live,       \* SectionChunk::live
  worklist,
  liveImports, liveThunks  \* ImportFile::live, ImportThunkChunk::live

markVars == <<live, worklist, liveImports, liveThunks>>

Are(kinds) == {s \in Sections : graph.kind[s] \in kinds}

\* SectionChunk::SectionChunk
InitiallyLive == IF graph.doGC THEN Sections \ Are(Comdat) ELSE Sections

MarkInit ==
  /\ graph \in Graphs
  /\ phase = "roots"
  /\ live = InitiallyLive
  /\ worklist = <<>>
  /\ liveImports = {}
  /\ liveThunks = {}

----------------------------------------------------------------------------
(* addSym, addImportFile and enqueue *)

ImportsOf(syms) == {x.at : x \in {y \in syms : y.to \in {"import data", "import thunk"}}}
ThunksOf(syms) == {x.at : x \in {y \in syms : y.to = "import thunk"}}

\* The section addSym enqueues: the one of a regular symbol, the exit thunk of an import
SectionOf(sym) ==
  CASE sym.to = "section" -> sym.at
    [] sym.to \in {"import data", "import thunk"} -> graph.exitThunk[sym.at]
    [] OTHER -> 0

\* A finite set of numbers in ascending order
Ascending(set) ==
  [n \in 1..Cardinality(set) |-> CHOOSE x \in set : Cardinality({y \in set : y < x}) = n - 1]

\* enqueue, applied to a list: what is not live yet is marked and pushed.
Enqueue(stack, seq) ==
  LET new == {i \in DOMAIN seq :
                seq[i] \in Sections \ live /\ \A j \in 1..(i - 1) : seq[j] # seq[i]}
  IN /\ worklist' = stack \o [n \in 1..Cardinality(new) |-> seq[Ascending(new)[n]]]
     /\ live' = live \cup {seq[i] : i \in new}

Add(stack, syms, others) ==
  /\ Enqueue(stack, [i \in DOMAIN syms |-> SectionOf(syms[i])] \o others)
  /\ liveImports' = liveImports \cup ImportsOf(Range(syms))
  /\ liveThunks' = liveThunks \cup ThunksOf(Range(syms))

\* The live sections, DWARF excepted, and the roots of the driver
AddRoots ==
  /\ phase = "roots"
  /\ graph.doGC
  /\ phase' = "mark"
  /\ Add(Ascending((live \cap Are(Listed)) \ Are(Dwarf)), graph.roots, <<>>)
  /\ UNCHANGED graph

\* Without /opt:ref markLive is not called.
SkipMark ==
  /\ phase = "roots"
  /\ ~graph.doGC
  /\ phase' = "icf"
  /\ UNCHANGED <<graph, markVars>>

\* Mutant: the children of a section are left out.
MarkNextNoChildren ==
  /\ phase = "mark"
  /\ worklist # <<>>
  /\ LET sc == Last(worklist)
     IN Add(Front(worklist), graph.relocs[sc], <<graph.entryThunk[sc]>>)
  /\ UNCHANGED <<graph, phase>>

MarkNext ==
  /\ phase = "mark"
  /\ worklist # <<>>
  /\ LET sc == Last(worklist)
     IN Add(Front(worklist), graph.relocs[sc], Append(graph.children[sc], graph.entryThunk[sc]))
  /\ UNCHANGED <<graph, phase>>

Marked ==
  /\ phase = "mark"
  /\ worklist = <<>>
  /\ phase' = "icf"
  /\ UNCHANGED <<graph, markVars>>

MarkStep == AddRoots \/ SkipMark \/ MarkNext \/ Marked

----------------------------------------------------------------------------
(* What is reachable *)

\* DWARF and unlisted sections that are live from the start keep nothing alive.
NotTraversed == InitiallyLive \cap Are(Dwarf \cup {"plain metadata"})

KeepsAlive(s) ==
  IF s \in NotTraversed THEN {}
    ELSE ({SectionOf(x) : x \in Range(graph.relocs[s])} \cup Range(graph.children[s])
            \cup {graph.entryThunk[s]}) \cap Sections

RootSections == {SectionOf(x) : x \in Range(graph.roots)} \cap Sections

Closed(set) ==
  /\ InitiallyLive \cup RootSections \subseteq set
  /\ \A s \in set : KeepsAlive(s) \subseteq set

Symbols(set) == Range(graph.roots) \cup UNION {Range(graph.relocs[s]) : s \in set}

\* When marking ends the live sections are the least set that has the roots and what its
\* members keep alive, and the imports kept are those that roots or traversed live
\* sections use (MarkLive.cpp:24, "sections never appear twice in the list").
LiveIsReachable ==
  phase = "icf" =>
    IF graph.doGC
      THEN /\ Closed(live)
           /\ \A set \in SUBSET live : Closed(set) => set = live
           /\ LET used == Symbols(live \ NotTraversed)
              IN liveImports = ImportsOf(used) /\ liveThunks = ThunksOf(used)
      ELSE live = Sections
=============================================================================
