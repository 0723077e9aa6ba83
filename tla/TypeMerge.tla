------------------------------ MODULE TypeMerge ------------------------------
(***************************************************************************)
(* The parallel merge of CodeView types (lld/COFF/DebugTypes.cpp,          *)
(* TypeMerger::mergeTypesWithGHash).  Every input has a list of type and   *)
(* item records; equal records, recognised by their global hash, are       *)
(* written once.  Threads insert the hashes into a lock-free table that    *)
(* prefers the earliest record; the sorted table gives the indices in the  *)
(* PDB; the records are then copied with their references rewritten.       *)
(*                                                                         *)
(* A record is its hash, the stream it belongs to and its references.  An  *)
(* index is the array index of the code (TypeIndex::toArrayIndex).         *)
(***************************************************************************)
EXTENDS Integers, Sequences, FiniteSets, SequencesExt, FiniteSetsExt

CONSTANTS
  Inputs,     \* lists of sources, in the order they were added to tpiSourceList
  HashWord,   \* the 64-bit word of a hash from which the probe starts
  FuncIds,    \* the hashes of LF_FUNC_ID and LF_MFUNC_ID records
  EndPrecomp, \* the hash of an LF_ENDPRECOMP record
  MaxTable    \* the cap of the table: INT32_MAX - FirstNonSimpleIndex

NotTranslated == -1

\* A source is [kind, recs, dep, count]: dep is the precompiled header or type server it
\* finds (0 if none) and, of a type server, the source of its IPI stream; count is the
\* TypesCount of an LF_PRECOMP record.  A record is [hash, item, refs].

\* The records the indices of source s of input in stand for, in types or in items: an
\* object that uses a precompiled header starts with the records of the header, one that
\* uses a type server has the records of the server.
IndexSpace(in, s, item) ==
  LET d == in[s].dep
      server == IF in[s].kind = "PDB" THEN s ELSE d
      records(r) == IF r = 0 THEN <<>> ELSE in[r].recs
  IN CASE in[s].kind = "UsingPCH" ->
            IF /\ d # 0
               /\ in[s].count < Len(in[d].recs)
               /\ in[d].recs[in[s].count + 1].hash = EndPrecomp
              THEN SubSeq(in[d].recs, 1, in[s].count) \o in[s].recs ELSE <<>>
       [] in[s].kind \in {"PDB", "UsingPDB"} /\ server # 0 ->
            records(IF item = 1 THEN in[server].dep ELSE server)
       [] OTHER -> in[s].recs

\* Global hashes are deep: records of one hash are of one stream and refer to records of
\* equal hashes, and references go to records of the stream they name.
ASSUME HashesAreDeep ==
  \A in \in Inputs : \A s, r \in DOMAIN in : \A item \in 0..1 :
    \A i \in DOMAIN IndexSpace(in, s, item), j \in DOMAIN IndexSpace(in, r, item) :
      LET a == IndexSpace(in, s, item)[i]
          b == IndexSpace(in, r, item)[j]
          target(t, ref) == IndexSpace(in, t, ref.item)[ref.at + 1]
      IN (a.hash = b.hash /\ in[s].kind # "PDBIpi" /\ in[r].kind # "PDBIpi") =>
           /\ a.item = b.item
           /\ Len(a.refs) = Len(b.refs)
           /\ \A k \in DOMAIN a.refs :
                /\ target(s, a.refs[k]).hash = target(r, b.refs[k]).hash
                /\ target(s, a.refs[k]).item = a.refs[k].item

Kinds == {"Regular", "PCH", "UsingPCH", "PDB", "PDBIpi", "UsingPDB"}

ASSUME InputsAssumption ==
  LET Rec == [hash : DOMAIN HashWord, item : 0..1, refs : Seq([at : Nat, item : 0..1])]
  IN /\ \A h \in DOMAIN HashWord : HashWord[h] \in Nat
     /\ \A in \in Inputs : in \in Seq([kind : Kinds, recs : Seq(Rec), dep : Nat, count : Nat])

ASSUME MaxTableAssumption == MaxTable \in Nat \ {0}

Dependency(s) == s.kind \in {"PCH", "PDB", "PDBIpi"}

VARIABLES
  src,      \* the sources, in the order they were added
  order,    \* ctx.tpiSourceList; the position in it is tpiSrcIdx
  phase,    \* "sort", "load", "insert", "remap", "done", "full"
  pending,  \* the sources the current parallel loop has not finished
  ghashes,  \* TpiSource::ghashes
  table,    \* GHashTable::table
  work,     \* the record each source is inserting, its probe and the cell it compares with
  imap,     \* indexMapStorage: cells of the table, later indices in the PDB
  uniq,     \* uniqueTypes
  tpiMap, ipiMap,        \* the maps from the indices of a source to the ones of the PDB
  mergedTpi, mergedIpi,  \* the records a source contributes to each stream
  funcs,                 \* TpiSource::funcIdToType
  funcIdToType           \* TypeMerger::funcIdToType, filled at the end

inserting == <<table, work, imap>>
results == <<tpiMap, ipiMap, mergedTpi, mergedIpi, funcs, funcIdToType>>
vars == <<src, order, phase, pending, ghashes, table, work, imap, uniq, results>>

Sources == DOMAIN src
Deps == {s \in Sources : Dependency(src[s])}
Hashes(recs) == [i \in DOMAIN recs |-> recs[i].hash]

\* GHashCell: most to least significant, all zeros when empty.
Cell(item, pos, idx) == [item |-> item, src |-> pos, idx |-> idx]
Empty == Cell(0, 0, 0)
Before(l, r) ==
  \/ l.item < r.item
  \/ l.item = r.item /\ l.src < r.src
  \/ l.item = r.item /\ l.src = r.src /\ l.idx < r.idx
GHash(c) == ghashes[order[c.src]][c.idx + 1]

Position(s) == CHOOSE p \in DOMAIN order : order[p] = s
CellOf(s, i) == Cell(src[s].recs[i + 1].item, Position(s), i)

\* endPrecompIdx, set when the hashes of a precompiled header are loaded
EndPrecompIdx(s) ==
  IF src[s].kind = "PCH" /\ \E i \in DOMAIN src[s].recs : src[s].recs[i].hash = EndPrecomp
    THEN (CHOOSE i \in DOMAIN src[s].recs : src[s].recs[i].hash = EndPrecomp) - 1
    ELSE -1
ShouldOmitFromPdb(s, i) == i = EndPrecompIdx(s)

\* findPrecompMap, getTypeServerSource: the lookup by signature or name is src[s].dep.
FindPrecompMap(s) == src[s].dep # 0 /\ EndPrecompIdx(src[s].dep) = src[s].count

Init ==
  /\ src \in Inputs
  /\ order = [i \in DOMAIN src |-> i]
  /\ phase = "sort"
  /\ pending = {}
  /\ ghashes = [s \in Sources |-> <<>>]
  /\ table = <<>>
  /\ work = [s \in Sources |-> [i |-> 0, idx |-> 0, old |-> Empty, cas |-> FALSE]]
  /\ imap = [s \in Sources |-> <<>>]
  /\ uniq = [s \in Sources |-> {}]
  /\ tpiMap = [s \in Sources |-> <<>>]
  /\ ipiMap = tpiMap
  /\ mergedTpi = tpiMap
  /\ mergedIpi = tpiMap
  /\ funcs = [s \in Sources |-> {}]
  /\ funcIdToType = {}

----------------------------------------------------------------------------
(* The hashes: dependencies first, then the objects that build on them *)

\* Dependencies come before objects; apart from that the order they were added in is kept.
GoesBefore(r, s) ==
  IF (r \in Deps) = (s \in Deps) THEN Position(r) < Position(s) ELSE r \in Deps

SortDependencies ==
  /\ phase = "sort"
  /\ order' = [p \in DOMAIN order |->
       CHOOSE s \in Sources : Cardinality({r \in Sources : GoesBefore(r, s)}) = p - 1]
  /\ phase' = "load"
  /\ pending' = Sources
  /\ UNCHANGED <<src, ghashes, inserting, uniq, results>>

\* A type server loads the hashes of its IPI source too.
LoadTypeServer(s) ==
  /\ src[s].kind = "PDB"
  /\ ghashes' = [r \in Sources |->
       IF r \in {s, src[s].dep} THEN Hashes(src[r].recs) ELSE ghashes[r]]

LoadOwn(s) ==
  /\ src[s].kind \in {"Regular", "PCH"}
  /\ ghashes' = [ghashes EXCEPT ![s] = Hashes(src[s].recs)]

\* An object whose precompiled header does not match gets no hashes.
LoadPrecompUser(s) ==
  /\ src[s].kind = "UsingPCH"
  /\ ghashes' = IF FindPrecompMap(s) THEN [ghashes EXCEPT ![s] = Hashes(src[s].recs)]
                                     ELSE ghashes

\* The IPI source is loaded by its server, and an object that uses a type server has no
\* hashes of its own.
LoadNothing(s) == src[s].kind \in {"PDBIpi", "UsingPDB"} /\ UNCHANGED ghashes

LoadGHashes(s) ==
  /\ phase = "load"
  /\ s \in pending
  /\ s \in Deps \/ pending \cap Deps = {}
  /\ pending' = pending \ {s}
  /\ LoadTypeServer(s) \/ LoadOwn(s) \/ LoadPrecompUser(s) \/ LoadNothing(s)
  /\ UNCHANGED <<src, order, phase, inserting, uniq, results>>

----------------------------------------------------------------------------
(* Insertion: one body of the parallel loop per source *)

RecordsOf(set) == UNION {{s} \X DOMAIN ghashes[s] : s \in set}

\* Mutant: the table is sized for the objects alone.
TableSizeOfObjects == Min({MaxTable, Cardinality(RecordsOf(Sources \ Deps))})

\* The number of records of all sources, capped
TableSize == Min({MaxTable, Cardinality(RecordsOf(Sources))})

StartIdx(s, i) ==
  IF i < Len(ghashes[s]) THEN HashWord[ghashes[s][i + 1]] % TableSize ELSE 0

At(s, i) == [i |-> i, idx |-> StartIdx(s, i), old |-> Empty, cas |-> FALSE]

StartInsert ==
  /\ phase = "load"
  /\ pending = {}
  /\ phase' = "insert"
  /\ pending' = Sources
  /\ table' = [c \in 0..(TableSize - 1) |-> Empty]
  /\ work' = [s \in Sources |-> At(s, 0)]
  /\ imap' = [s \in Sources |-> [i \in DOMAIN ghashes[s] |-> NotTranslated]]
  /\ UNCHANGED <<src, order, ghashes, uniq, results>>

Inserting(s) ==
  /\ phase = "insert"
  /\ s \in pending
  /\ work[s].i < Len(ghashes[s])

\* insert returns idx, and the loop goes on with the next record.
Return(s) ==
  /\ imap' = [imap EXCEPT ![s][work[s].i + 1] = work[s].idx]
  /\ work' = [work EXCEPT ![s] = At(s, @.i + 1)]

Omit(s) ==
  /\ Inserting(s)
  /\ ShouldOmitFromPdb(s, work[s].i)
  /\ work' = [work EXCEPT ![s] = At(s, @.i + 1)]
  /\ UNCHANGED <<src, order, phase, pending, ghashes, table, imap, uniq, results>>

\* What follows a load of the cell, or a compare-and-swap that found another value
\* there: the cell is another hash's, it holds an earlier record, or it is to be swapped.
Examine(s) ==
  LET cell == table[work[s].idx]
      mine == cell = Empty \/ GHash(cell) = ghashes[s][work[s].i + 1]
      next == IF work[s].idx + 1 = TableSize THEN 0 ELSE work[s].idx + 1
  IN CASE ~mine /\ next # StartIdx(s, work[s].i) ->
            /\ work' = [work EXCEPT ![s].idx = next, ![s].cas = FALSE]
            /\ UNCHANGED <<phase, imap>>
       [] ~mine /\ next = StartIdx(s, work[s].i) ->
            /\ phase' = "full"
            /\ UNCHANGED <<work, imap>>
       [] mine /\ cell # Empty /\ Before(cell, CellOf(s, work[s].i)) ->
            Return(s) /\ UNCHANGED phase
       [] OTHER ->
            /\ work' = [work EXCEPT ![s].old = cell, ![s].cas = TRUE]
            /\ UNCHANGED <<phase, imap>>

Load(s) ==
  /\ Inserting(s)
  /\ ~ShouldOmitFromPdb(s, work[s].i)
  /\ ~work[s].cas
  /\ Examine(s)
  /\ UNCHANGED <<src, order, pending, ghashes, table, uniq, results>>

\* Mutant: a plain store after the check, for the compare-and-swap.
StoreBlindly(s) ==
  /\ Inserting(s)
  /\ work[s].cas
  /\ table' = [table EXCEPT ![work[s].idx] = CellOf(s, work[s].i)]
  /\ Return(s)
  /\ UNCHANGED <<src, order, phase, pending, ghashes, uniq, results>>

\* Mutant: a cell some other thread has filled with the same hash is left as it is.
KeepFirstArrival(s) ==
  /\ Inserting(s)
  /\ work[s].cas
  /\ Return(s)
  /\ table' = IF table[work[s].idx] = Empty
                THEN [table EXCEPT ![work[s].idx] = CellOf(s, work[s].i)] ELSE table
  /\ UNCHANGED <<src, order, phase, pending, ghashes, uniq, results>>

\* compare_exchange_weak: a spurious failure reloads the same value and changes nothing.
CompareAndSwap(s) ==
  /\ Inserting(s)
  /\ work[s].cas
  /\ IF table[work[s].idx] = work[s].old
       THEN /\ table' = [table EXCEPT ![work[s].idx] = CellOf(s, work[s].i)]
            /\ Return(s)
            /\ UNCHANGED phase
       ELSE Examine(s) /\ UNCHANGED table
  /\ UNCHANGED <<src, order, pending, ghashes, uniq, results>>

InsertedAll(s) ==
  /\ phase = "insert"
  /\ s \in pending
  /\ work[s].i = Len(ghashes[s])
  /\ pending' = pending \ {s}
  /\ UNCHANGED <<src, order, phase, ghashes, inserting, uniq, results>>

----------------------------------------------------------------------------
(* The sorted cells are the records of the two streams *)

Cells == {table[c] : c \in DOMAIN table} \ {Empty}
Entries(item) == SetToSortSeq({c \in Cells : c.item = item}, Before)

\* The table is rewritten through the map of the source that won each cell.
AssignIndices ==
  /\ phase = "insert"
  /\ pending = {}
  /\ uniq' = [s \in Sources |-> {c.idx : c \in {d \in Cells : order[d.src] = s}}]
  /\ LET home(c) == imap[order[c.src]][c.idx + 1]
         index(c) == CHOOSE n \in 1..Cardinality(Cells) :
                       n \in DOMAIN Entries(c.item) /\ Entries(c.item)[n] = c
     IN table' = [h \in DOMAIN table |->
          IF \E c \in Cells : home(c) = h
            THEN LET c == CHOOSE c \in Cells : home(c) = h
                 IN [c EXCEPT !.idx = index(c) - 1]
            ELSE table[h]]
  /\ phase' = "remap"
  /\ pending' = Sources
  /\ UNCHANGED <<src, order, ghashes, work, imap, results>>

FillMapFromGHashes(s) ==
  [i \in DOMAIN imap[s] |->
     IF imap[s][i] = NotTranslated THEN NotTranslated ELSE table[imap[s][i]].idx]

\* remapTypeIndex: an index the map does not have is not translated.
RemapTypeIndex(ref, tmap, imap_) ==
  LET m == IF ref.item = 1 THEN imap_ ELSE tmap
  IN IF ref.at < Len(m) THEN m[ref.at + 1] ELSE NotTranslated

\* mergeTypeRecord: the copy of a record, its references rewritten
Remapped(rec, tmap, imap_) ==
  [hash |-> rec.hash,
   refs |-> [k \in DOMAIN rec.refs |-> RemapTypeIndex(rec.refs[k], tmap, imap_)]]

\* mergeUniqueTypeRecords: the unique records of one stream in the order of the source
MergeUnique(s, item, tmap, imap_) ==
  LET mine == SetToSortSeq({i \in uniq[s] : src[s].recs[i + 1].item = item}, <)
  IN [n \in DOMAIN mine |-> Remapped(src[s].recs[mine[n] + 1], tmap, imap_)]

\* The function ids among them with their type (refs[1]), both as indices in the PDB; begin is the
\* index of the first record of the source.
FuncsOf(s, begin, tmap, imap_) ==
  {<<RemapTypeIndex([at |-> begin + i, item |-> 1], tmap, imap_),
     Remapped(src[s].recs[i + 1], tmap, imap_).refs[1]>> :
       i \in {j \in uniq[s] : src[s].recs[j + 1].hash \in FuncIds}}

\* mergeInPrecompHeaderObj
FillWithPrefix(s) ==
  LET pch == tpiMap[src[s].dep]
  IN (IF pch = <<>> THEN <<>> ELSE SubSeq(pch, 1, src[s].count)) \o FillMapFromGHashes(s)

\* The unique records of both streams are copied with the map of the source.
UseMap(s, begin, m) ==
  /\ tpiMap' = [tpiMap EXCEPT ![s] = m]
  /\ ipiMap' = [ipiMap EXCEPT ![s] = m]
  /\ mergedTpi' = [mergedTpi EXCEPT ![s] = MergeUnique(s, 0, m, m)]
  /\ mergedIpi' = [mergedIpi EXCEPT ![s] = MergeUnique(s, 1, m, m)]
  /\ funcs' = [funcs EXCEPT ![s] = FuncsOf(s, begin, m, m)]
  /\ UNCHANGED funcIdToType

\* Objects and precompiled headers have one index space for both streams.
RemapOwn(s) ==
  /\ src[s].kind \in {"Regular", "PCH"}
  /\ UseMap(s, 0, FillMapFromGHashes(s))

\* An object whose precompiled header does not match keeps empty maps.
RemapPrecompUser(s) ==
  /\ src[s].kind = "UsingPCH"
  /\ IF FindPrecompMap(s) THEN UseMap(s, src[s].count, FillWithPrefix(s))
                          ELSE UNCHANGED results

\* A type server remaps its TPI stream and then, for its IPI source, the IPI stream.
RemapTypeServer(s) ==
  /\ src[s].kind = "PDB"
  /\ LET d == src[s].dep
         t == FillMapFromGHashes(s)
         i == IF d = 0 THEN <<>> ELSE FillMapFromGHashes(d)
     IN /\ tpiMap' = [r \in Sources |-> IF r \in {s, d} THEN t ELSE tpiMap[r]]
        /\ ipiMap' = [r \in Sources |-> IF r \in {s, d} THEN i ELSE ipiMap[r]]
        /\ mergedTpi' = [mergedTpi EXCEPT ![s] = MergeUnique(s, 0, t, <<>>)]
        /\ mergedIpi' = [r \in Sources |-> IF r = d THEN MergeUnique(d, 1, t, i) ELSE mergedIpi[r]]
        /\ funcs' = [r \in Sources |-> IF r = d THEN FuncsOf(d, 0, t, i) ELSE funcs[r]]
        /\ UNCHANGED funcIdToType

\* The objects of a type server use its maps; without one they have none.
RemapServerUser(s) ==
  /\ src[s].kind = "UsingPDB"
  /\ tpiMap' = [tpiMap EXCEPT ![s] = IF src[s].dep = 0 THEN @ ELSE tpiMap[src[s].dep]]
  /\ ipiMap' = [ipiMap EXCEPT ![s] = IF src[s].dep = 0 THEN @ ELSE ipiMap[src[s].dep]]
  /\ UNCHANGED <<mergedTpi, mergedIpi, funcs, funcIdToType>>

RemapIpi(s) == src[s].kind = "PDBIpi" /\ UNCHANGED results

RemapTpiWithGHashes(s) ==
  RemapOwn(s) \/ RemapPrecompUser(s) \/ RemapTypeServer(s) \/ RemapServerUser(s) \/ RemapIpi(s)

\* Mutant: dependencies and objects are remapped by one parallel loop.
RemapInAnyOrder(s) ==
  /\ phase = "remap"
  /\ s \in pending
  /\ pending' = pending \ {s}
  /\ RemapTpiWithGHashes(s)
  /\ UNCHANGED <<src, order, phase, ghashes, inserting, uniq>>

\* Dependencies one after the other, then the objects in parallel
Remap(s) ==
  /\ phase = "remap"
  /\ s \in pending
  /\ \A r \in pending \cap Deps : s \in Deps /\ Position(s) <= Position(r)
  /\ pending' = pending \ {s}
  /\ RemapTpiWithGHashes(s)
  /\ UNCHANGED <<src, order, phase, ghashes, inserting, uniq>>

Finish ==
  /\ phase = "remap"
  /\ pending = {}
  /\ phase' = "done"
  /\ funcIdToType' = UNION {funcs[s] : s \in Sources}
  /\ funcs' = [s \in Sources |-> {}]
  /\ ghashes' = [s \in Sources |-> <<>>]
  /\ uniq' = [s \in Sources |-> {}]
  /\ UNCHANGED <<src, order, pending, inserting, tpiMap, ipiMap, mergedTpi, mergedIpi>>

Step(s) ==
  \/ LoadGHashes(s) \/ Omit(s) \/ Load(s) \/ CompareAndSwap(s) \/ InsertedAll(s) \/ Remap(s)

Next ==
  \/ SortDependencies \/ StartInsert \/ AssignIndices \/ Finish
  \/ \E s \in Sources : Step(s)

Spec == Init /\ [][Next]_vars

\* Every loop body runs to its end once the pool has a thread for it, and parallelFor
\* returns (module ParallelFor).
FairSpec == Spec /\ WF_vars(Next)

----------------------------------------------------------------------------
(* Properties *)

Inserted(s, i) == imap[s][i + 1] # NotTranslated

\* A position insert has returned keeps holding the hash it was returned for, and a
\* record at least as early, while other threads go on inserting: the loop stores the
\* position and reads the cell only after all insertions (DebugTypes.cpp:1115).
PositionsHold ==
  phase = "insert" =>
    \A s \in Sources : \A i \in 0..(Len(imap[s]) - 1) :
      Inserted(s, i) =>
        /\ table[imap[s][i + 1]] # Empty
        /\ GHash(table[imap[s][i + 1]]) = ghashes[s][i + 1]
        /\ ~Before(CellOf(s, i), table[imap[s][i + 1]])

\* The records of the two streams are those of a sequential merge: of each hash the
\* first in the order of the cells, whatever the threads did (DebugTypes.cpp:932,
\* "This ensures that the output is deterministic").
WinnersAreFirst ==
  phase = "remap" =>
    \A s \in Sources : uniq[s] =
      {i \in 0..(Len(ghashes[s]) - 1) :
         /\ ~ShouldOmitFromPdb(s, i)
         /\ \A r \in Sources : \A j \in 0..(Len(ghashes[r]) - 1) :
              /\ ~ShouldOmitFromPdb(r, j)
              /\ ghashes[r][j + 1] = ghashes[s][i + 1]
              => ~Before(CellOf(r, j), CellOf(s, i))}

\* The streams addGHashTypeInfo writes
Stream(merged) == FlattenSeq([p \in DOMAIN order |-> merged[order[p]]])

\* In the PDB that is written every index of an input's map names the record it named in
\* the input, and the references of that record are the images of its own references:
\* the indices taken from the sorted table agree with the positions at which the sources'
\* records are appended (DebugTypes.cpp:1155, PDB.cpp:349).  The map of function ids has
\* exactly the written function ids, each with the type it refers to.
IndicesResolve ==
  phase = "done" =>
    /\ LET items == Stream(mergedIpi)
       IN funcIdToType = {<<n - 1, items[n].refs[1]>> :
                            n \in {k \in DOMAIN items : items[k].hash \in FuncIds}}
    /\ \A s \in {r \in Sources : src[r].kind # "PDBIpi"}, item \in 0..1 :
        LET space == IndexSpace(src, s, item)
            map == IF item = 1 THEN ipiMap[s] ELSE tpiMap[s]
            stream == Stream(IF item = 1 THEN mergedIpi ELSE mergedTpi)
        IN /\ DOMAIN map = DOMAIN space
           /\ \A k \in DOMAIN space :
                space[k].item = item =>
                  IF space[k].hash = EndPrecomp THEN map[k] = NotTranslated
                  ELSE /\ map[k] + 1 \in DOMAIN stream
                       /\ stream[map[k] + 1] = Remapped(space[k], tpiMap[s], ipiMap[s])

DistinctHashes == UNION {Range(ghashes[s]) : s \in Sources} \ {EndPrecomp}

\* The merge ends, and it dies of a full table (report_fatal_error) only when the inputs
\* have more distinct records than the capped table has cells.
MergeFinishes ==
  <>(phase = "done" \/ (phase = "full" /\ Cardinality(DistinctHashes) > MaxTable))
=============================================================================
