----------------------------- MODULE PdbProofs ------------------------------
(***************************************************************************)
(* parallelFor runs every index exactly once before it returns, for any    *)
(* number of indices and threads.  The parallel analysis of symbols, which *)
(* is such a loop, implements the serial one, and the shared allocator is  *)
(* never used by two threads, for any number of sources, threads and any   *)
(* contents of the sources.  And of one source: the walk that lays its     *)
(* symbols out and the walk that writes them agree, record by record, for  *)
(* any number of records and subsections and any nesting of scopes.        *)
(***************************************************************************)
EXTENDS PdbMerge, PdbSymbols, FiniteSetTheorems, SequenceTheorems, TLAPS

(* The loop: ParallelFor *)

InChunk == {"loop", "fn"}
Active == {w \in Tasks : task[w] \notin {"none", "done"}}

\* Index i belongs to the chunk of task w and has not been run yet.
Owes(w, i) ==
  /\ task[w] \in InChunk
  /\ i < end[w]
  /\ at[w] < i \/ (at[w] = i /\ task[w] = "loop")

\* Tasks exist as they are spawned.
SpawnInv ==
  /\ caller \in {"start", "serial"} => \A w \in Tasks : task[w] = "none"
  /\ caller = "start" => spawned = 0
  /\ caller = "spawn" => spawned \in 0..NumWorkers /\ NumItems # 0
  /\ caller = "sync" => spawned = NumWorkers /\ NumItems # 0
  /\ caller \in {"spawn", "sync"} => \A w \in Tasks : task[w] = "none" <=> w > spawned

\* Chunks lie below the counter and do not overlap; a task ends when none is left.
ChunkInv ==
  /\ \A w \in Tasks : task[w] \in InChunk =>
       at[w] <= end[w] /\ end[w] <= NumItems /\ end[w] <= idx
  /\ \A w \in Tasks : task[w] = "fn" => at[w] < end[w]
  /\ \A v, w \in Tasks :
       v # w /\ task[v] \in InChunk /\ task[w] \in InChunk
         => end[v] <= at[w] \/ end[w] <= at[v]
  /\ \A w \in Tasks : task[w] \in {"ended", "done"} => idx >= NumItems

\* An index has been run once the counter is past it and no task still owes it.
RanInv ==
  /\ caller \in {"start", "spawn", "sync"} =>
       \A i \in Items :
         ran[i] = IF i < idx /\ (\A w \in Tasks : ~Owes(w, i)) THEN 1 ELSE 0
  /\ caller = "start" => idx = 0
  /\ caller = "serial" => spawned <= NumItems
                          /\ \A i \in Items : ran[i] = IF i < spawned THEN 1 ELSE 0

LatchInv == latch = Cardinality(Active)

IInv ==
  PForTypeOK /\ SpawnInv /\ ChunkInv /\ RanInv /\ LatchInv /\ JoinIsComplete

----------------------------------------------------------------------------
\* The work is divided into at least one task, in chunks of at least one index.
LEMMA Sizes ==
  /\ NumWorkers \in Nat
  /\ NumItems # 0 => NumWorkers >= 1
  /\ NumWorkers # 0 => ChunkSize \in Nat /\ ChunkSize >= 1
  <1>1. NumWorkers \in Nat /\ (NumItems # 0 => NumWorkers >= 1)
    BY ItemsAssumption, ThreadsAssumption DEF NumWorkers
  <1>2. ASSUME NumWorkers # 0 PROVE ChunkSize \in Nat /\ ChunkSize >= 1
    <2>1. NumWorkers * 4 \in Nat /\ NumWorkers * 4 > 0
      BY <1>1, <1>2
    <2>2. NumItems \div (NumWorkers * 4) \in Int
      BY <2>1, ItemsAssumption
    <2> QED BY <2>2 DEF ChunkSize
  <1> QED BY <1>1, <1>2

\* A task exists only if there is something to do.
LEMMA TaskSizes ==
  ASSUME NEW w \in Tasks
  PROVE  w \in Nat /\ w >= 1 /\ w <= NumWorkers /\ ChunkSize \in Nat /\ ChunkSize >= 1
  BY Sizes DEF Tasks

LEMMA InitInv == PForInit => IInv
  <1> SUFFICES ASSUME PForInit PROVE IInv
    OBVIOUS
  <1> USE DEF PForInit
  <1>1. PForTypeOK
    BY ThreadsAssumption DEF PForTypeOK
  <1>2. SpawnInv /\ ChunkInv
    BY DEF SpawnInv, ChunkInv, InChunk
  <1>3. RanInv
    BY ItemsAssumption DEF RanInv, Items
  <1>4. LatchInv
    <2>1. Active = {}
      BY DEF Active
    <2> QED BY <2>1, FS_EmptySet DEF LatchInv
  <1>5. JoinIsComplete
    BY DEF JoinIsComplete
  <1> QED BY <1>1, <1>2, <1>3, <1>4, <1>5 DEF IInv

\* The latch follows the tasks: one more when a task appears, one less when it is done.
LEMMA ActiveFinite == IsFiniteSet(Tasks) /\ IsFiniteSet(Active)
  <1>1. IsFiniteSet(Tasks)
    BY Sizes, FS_Interval DEF Tasks
  <1>2. Active \subseteq Tasks
    BY DEF Active
  <1> QED BY <1>1, <1>2, FS_Subset

LEMMA LatchUnchanged ==
  ASSUME LatchInv, UNCHANGED latch,
         \A w \in Tasks : task'[w] \in {"none", "done"} <=> task[w] \in {"none", "done"}
  PROVE  LatchInv'
  <1>1. Active' = Active
    BY DEF Active
  <1> QED BY <1>1 DEF LatchInv

\* The steps of the caller.
LEMMA CallerStep == IInv /\ Caller => IInv'
  <1> SUFFICES ASSUME IInv, Caller PROVE IInv'
    OBVIOUS
  <1> USE Sizes, ItemsAssumption DEF IInv
  <1>1. CASE Enter
    <2> USE <1>1 DEF Enter
    <2>1. PForTypeOK'
      BY DEF PForTypeOK
    <2>2. SpawnInv'
      BY DEF SpawnInv, Tasks
    <2>3. ChunkInv'
      BY DEF ChunkInv, InChunk
    <2>4. RanInv'
      BY DEF RanInv, Owes, Items, SpawnInv, PForTypeOK
    <2>5. LatchInv'
      BY LatchUnchanged
    <2>6. JoinIsComplete'
      BY DEF JoinIsComplete, Items, SpawnInv
    <2> QED BY <2>1, <2>2, <2>3, <2>4, <2>5, <2>6
  <1>2. CASE Spawn
    <2> USE <1>2 DEF Spawn, GoTask
    <2> DEFINE w == spawned + 1
    <2>1. w \in Tasks /\ task[w] = "none"
      BY DEF SpawnInv, Tasks
    <2>2. PForTypeOK'
      BY <2>1 DEF PForTypeOK
    <2>3. SpawnInv'
      BY <2>1 DEF SpawnInv, Tasks, PForTypeOK
    <2>4. ChunkInv'
      BY <2>1 DEF ChunkInv, InChunk, PForTypeOK
    <2>5. RanInv'
      <3>1. \A v \in Tasks, i \in Items : Owes(v, i)' <=> Owes(v, i)
        BY <2>1 DEF Owes, InChunk, PForTypeOK
      <3> QED BY <3>1 DEF RanInv
    <2>6. LatchInv'
      <3>1. Active' = Active \cup {w} /\ w \notin Active
        BY <2>1 DEF Active, PForTypeOK
      <3> QED BY <3>1, ActiveFinite, FS_AddElement DEF LatchInv
    <2>7. JoinIsComplete'
      BY DEF JoinIsComplete
    <2> QED BY <2>2, <2>3, <2>4, <2>5, <2>6, <2>7
  <1>3. CASE EndSpawn
    <2> USE <1>3 DEF EndSpawn
    <2>1. PForTypeOK' /\ SpawnInv' /\ ChunkInv' /\ JoinIsComplete'
      BY DEF PForTypeOK, SpawnInv, ChunkInv, InChunk, JoinIsComplete
    <2>2. RanInv'
      BY DEF RanInv, Owes
    <2>3. LatchInv'
      BY LatchUnchanged
    <2> QED BY <2>1, <2>2, <2>3
  <1>4. CASE Sync
    <2> USE <1>4 DEF Sync
    <2>1. PForTypeOK' /\ SpawnInv' /\ ChunkInv' /\ RanInv'
      BY DEF PForTypeOK, SpawnInv, ChunkInv, InChunk, RanInv
    <2>2. LatchInv'
      BY LatchUnchanged
    <2>3. Active = {}
      BY ActiveFinite, FS_EmptySet DEF LatchInv
    <2>4. \A w \in Tasks : task[w] = "done"
      BY <2>3 DEF Active, SpawnInv, Tasks
    <2>5. 1 \in Tasks
      BY DEF SpawnInv, Tasks
    <2>6. idx >= NumItems
      BY <2>4, <2>5 DEF ChunkInv
    <2>7. ASSUME NEW i \in Items PROVE ran[i] = 1
      <3>1. i < idx
        BY <2>6 DEF Items, PForTypeOK
      <3>2. \A w \in Tasks : ~Owes(w, i)
        BY <2>4 DEF Owes, InChunk
      <3> QED BY <3>1, <3>2 DEF RanInv
    <2>8. JoinIsComplete'
      BY <2>4, <2>7 DEF JoinIsComplete
    <2> QED BY <2>1, <2>2, <2>8
  <1>5. CASE SerialItem
    <2> USE <1>5 DEF SerialItem
    <2>1. spawned \in Items
      BY DEF Items, PForTypeOK
    <2>2. PForTypeOK' /\ SpawnInv' /\ ChunkInv' /\ JoinIsComplete'
      BY <2>1 DEF PForTypeOK, SpawnInv, ChunkInv, InChunk, JoinIsComplete
    <2>3. RanInv'
      BY <2>1 DEF RanInv, Items, PForTypeOK
    <2>4. LatchInv'
      BY LatchUnchanged
    <2> QED BY <2>2, <2>3, <2>4
  <1>6. CASE SerialReturn
    <2> USE <1>6 DEF SerialReturn
    <2>1. PForTypeOK' /\ SpawnInv' /\ ChunkInv' /\ RanInv'
      BY DEF PForTypeOK, SpawnInv, ChunkInv, InChunk, RanInv
    <2>2. LatchInv'
      BY LatchUnchanged
    <2>3. JoinIsComplete'
      BY DEF JoinIsComplete, RanInv, SpawnInv, Items
    <2> QED BY <2>1, <2>2, <2>3
  <1> QED BY <1>1, <1>2, <1>3, <1>4, <1>5, <1>6 DEF Caller

\* The steps of a task.
LEMMA TaskStep == ASSUME IInv, NEW w \in Tasks, Task(w) PROVE IInv'
  <1> USE ItemsAssumption, TaskSizes DEF IInv
  <1>0. caller \in {"spawn", "sync"} /\ task[w] \notin {"none", "done"}
    BY DEF Task, FetchAdd, BeginItem, EndItem, EndChunk, Dec, SpawnInv, JoinIsComplete,
           PForTypeOK
  <1>1. CASE FetchAdd(w)
    <2> USE <1>1 DEF FetchAdd, GoTask
    <2>1. PForTypeOK'
      BY DEF PForTypeOK
    <2>2. SpawnInv'
      BY <1>0 DEF SpawnInv, PForTypeOK
    <2>3. ChunkInv'
      <3>1. CASE idx >= NumItems
        BY <3>1 DEF ChunkInv, InChunk, PForTypeOK
      <3>2. CASE ~(idx >= NumItems)
        BY <3>2 DEF ChunkInv, InChunk, PForTypeOK
      <3> QED BY <3>1, <3>2
    <2>4. RanInv'
      <3> SUFFICES ASSUME NEW i \in Items
                   PROVE  ran[i] = IF i < idx' /\ (\A v \in Tasks : ~Owes(v, i)')
                                   THEN 1 ELSE 0
        BY <1>0 DEF RanInv
      <3>1. ran[i] = IF i < idx /\ (\A v \in Tasks : ~Owes(v, i)) THEN 1 ELSE 0
        BY <1>0 DEF RanInv
      <3>2. \A v \in Tasks : v # w => (Owes(v, i)' <=> Owes(v, i))
        BY DEF Owes, InChunk, PForTypeOK
      <3>3. ~Owes(w, i)
        BY DEF Owes, InChunk
      <3>4. i \in Nat /\ i < NumItems
        BY DEF Items
      <3>5. CASE idx >= NumItems
        <4>1. ~Owes(w, i)'
          BY <3>5 DEF Owes, InChunk, PForTypeOK
        <4> QED BY <3>1, <3>2, <3>3, <3>4, <3>5, <4>1 DEF PForTypeOK
      <3>6. CASE ~(idx >= NumItems)
        <4>1. Owes(w, i)' <=> idx <= i /\ i < idx + ChunkSize
          BY <3>4, <3>6 DEF Owes, InChunk, PForTypeOK
        <4>2. \A v \in Tasks : Owes(v, i) => i < idx
          BY <3>4 DEF Owes, InChunk, ChunkInv, PForTypeOK
        <4> QED BY <3>1, <3>2, <3>3, <3>4, <4>1, <4>2 DEF PForTypeOK
      <3> QED BY <3>5, <3>6
    <2>5. LatchInv'
      BY LatchUnchanged DEF PForTypeOK
    <2>6. JoinIsComplete'
      BY <1>0 DEF JoinIsComplete
    <2> QED BY <2>1, <2>2, <2>3, <2>4, <2>5, <2>6
  <1>2. CASE BeginItem(w)
    <2> USE <1>2 DEF BeginItem, GoTask
    <2>1. at[w] \in Items
      BY DEF ChunkInv, InChunk, Items, PForTypeOK
    <2>2. PForTypeOK'
      BY <2>1 DEF PForTypeOK
    <2>3. SpawnInv'
      BY <1>0 DEF SpawnInv, PForTypeOK
    <2>4. ChunkInv'
      BY DEF ChunkInv, InChunk, PForTypeOK
    <2>5. RanInv'
      <3> SUFFICES ASSUME NEW i \in Items
                   PROVE  ran'[i] = IF i < idx /\ (\A v \in Tasks : ~Owes(v, i)')
                                    THEN 1 ELSE 0
        BY <1>0 DEF RanInv
      <3>1. ran[i] = IF i < idx /\ (\A v \in Tasks : ~Owes(v, i)) THEN 1 ELSE 0
        BY <1>0 DEF RanInv
      <3>2. \A v \in Tasks : v # w => (Owes(v, i)' <=> Owes(v, i))
        BY DEF Owes, InChunk, PForTypeOK
      <3>3. CASE i = at[w]
        <4>1. Owes(w, i) /\ ~Owes(w, i)' /\ i < idx
          BY <3>3 DEF Owes, InChunk, ChunkInv, PForTypeOK
        <4>2. \A v \in Tasks : v # w => ~Owes(v, i)
          BY <3>3 DEF Owes, InChunk, ChunkInv, PForTypeOK
        <4> QED BY <2>1, <3>1, <3>2, <3>3, <4>1, <4>2 DEF PForTypeOK
      <3>4. CASE i # at[w]
        <4>1. Owes(w, i)' <=> Owes(w, i)
          BY <3>4 DEF Owes, InChunk, PForTypeOK
        <4> QED BY <3>1, <3>2, <3>4, <4>1 DEF PForTypeOK
      <3> QED BY <3>3, <3>4
    <2>6. LatchInv'
      BY LatchUnchanged DEF PForTypeOK
    <2>7. JoinIsComplete'
      BY <1>0 DEF JoinIsComplete
    <2> QED BY <2>2, <2>3, <2>4, <2>5, <2>6, <2>7
  <1>3. CASE EndItem(w) \/ EndChunk(w)
    <2> USE <1>3 DEF EndItem, EndChunk, GoTask
    <2>1. PForTypeOK'
      BY DEF PForTypeOK
    <2>2. SpawnInv'
      BY <1>0 DEF SpawnInv, PForTypeOK
    <2>3. ChunkInv'
      BY DEF ChunkInv, InChunk, PForTypeOK
    <2>4. \A v \in Tasks, i \in Items : Owes(v, i)' <=> Owes(v, i)
      <3>1. \A v \in Tasks, i \in Items : v # w => (Owes(v, i)' <=> Owes(v, i))
        BY DEF Owes, InChunk, PForTypeOK
      <3>2. \A i \in Items : i \in Nat
        BY DEF Items
      <3>3. \A i \in Items : Owes(w, i)' <=> Owes(w, i)
        BY <3>2 DEF Owes, InChunk, PForTypeOK
      <3> QED BY <3>1, <3>3
    <2>5. RanInv'
      BY <1>0, <2>4 DEF RanInv
    <2>6. LatchInv'
      BY LatchUnchanged DEF PForTypeOK
    <2>7. JoinIsComplete'
      BY <1>0 DEF JoinIsComplete
    <2> QED BY <2>1, <2>2, <2>3, <2>5, <2>6, <2>7
  <1>4. CASE Dec(w)
    <2> USE <1>4 DEF Dec, GoTask
    <2>1. LatchInv' /\ latch' \in Nat
      <3>1. w \in Active /\ Active' = Active \ {w}
        BY DEF Active, PForTypeOK
      <3>2. IsFiniteSet(Active) /\ Cardinality(Active \ {w}) = Cardinality(Active) - 1
        BY <3>1, ActiveFinite, FS_RemoveElement
      <3>3. Cardinality(Active \ {w}) \in Nat
        BY <3>2, ActiveFinite, FS_RemoveElement, FS_CardinalityType
      <3> QED BY <3>1, <3>2, <3>3 DEF LatchInv
    <2>2. PForTypeOK'
      BY <2>1 DEF PForTypeOK
    <2>3. SpawnInv'
      BY <1>0 DEF SpawnInv, PForTypeOK
    <2>4. ChunkInv'
      BY DEF ChunkInv, InChunk, PForTypeOK
    <2>5. \A v \in Tasks, i \in Items : Owes(v, i)' <=> Owes(v, i)
      BY DEF Owes, InChunk, PForTypeOK
    <2>6. RanInv'
      BY <1>0, <2>5 DEF RanInv
    <2>7. JoinIsComplete'
      BY <1>0 DEF JoinIsComplete
    <2> QED BY <2>1, <2>2, <2>3, <2>4, <2>6, <2>7
  <1> QED BY <1>1, <1>2, <1>3, <1>4 DEF Task

----------------------------------------------------------------------------
\* Every step of the loop keeps the invariant, on its own or inside another module.
LEMMA PForStep == IInv /\ [PForNext]_pforVars => IInv'
  <1>1. IInv /\ UNCHANGED pforVars => IInv'
    BY DEF pforVars, IInv, PForTypeOK, SpawnInv, ChunkInv, InChunk, RanInv, Owes,
           LatchInv, Active, JoinIsComplete
  <1> QED BY <1>1, CallerStep, TaskStep DEF PForNext

\* The invariant is inductive.
THEOREM PForInvariance == PForSpec => []IInv
  BY InitInv, PForStep, PTL DEF PForSpec

\* Every variable keeps its type; in particular the latch never drops below zero.
THEOREM PForTypeCorrect == PForSpec => []PForTypeOK
  <1>1. IInv => PForTypeOK
    BY DEF IInv
  <1> QED BY <1>1, PForInvariance, PTL

\* No index is run twice.
THEOREM AtMostOnceHolds == PForSpec => []AtMostOnce
  <1>1. IInv => AtMostOnce
    BY DEF IInv, AtMostOnce, RanInv, JoinIsComplete, PForTypeOK
  <1> QED BY <1>1, PForInvariance, PTL

\* When parallelFor returns, every index has been run exactly once and no task runs.
THEOREM JoinIsCompleteHolds == PForSpec => []JoinIsComplete
  <1>1. IInv => JoinIsComplete
    BY DEF IInv
  <1> QED BY <1>1, PForInvariance, PTL

----------------------------------------------------------------------------
(* The bodies of the loop: PdbMerge *)

Steps == {"idle", "read", "sort", "alloc", "stage", "left", "publish", "fill"}
Symbols == Items \X STRING

MergeTypeOK ==
  /\ objs \in [Items -> ObjectKinds]
  /\ doing \in [Actors -> [step : Steps, obj : Items \cup {NoObject}]]
  /\ staged \in [Items -> Seq(Symbols)]
  /\ deferred \in [Items -> BOOLEAN]
  /\ arena \subseteq Actors
  /\ finished \in 0..NumItems
  /\ files \in Seq(Symbols)
  /\ exited \in BOOLEAN

Busy(a) == doing[a].step # "idle"
Object(a) == objs[doing[a].obj]
Deferrable(i) == objs[i].usable /\ ~objs[i].sorted

\* All globals of object i are staged.
Full(i) == objs[i].readable /\ Len(staged[i]) = Len(objs[i].globals)

\* A task works on the index the loop has given it, and so does the caller in the serial
\* loop; neither ever reaches the allocator.
Analysing(a, i) ==
  /\ doing[a].obj = i
  /\ doing[a].step \in {"read", "sort", "stage", "left"}
  /\ doing[a].step # "left" => objs[i].usable /\ objs[i].sorted

TaskInv ==
  \A w \in Tasks :
    IF task[w] = "fn" THEN Analysing(w, at[w]) ELSE doing[w] = Idle

\* Once the loop has returned the caller finishes the objects in order, and analyses only
\* those that were deferred.
Finishing ==
  /\ caller = "returned"
  /\ doing[Main].obj = finished
  /\ doing[Main].step \in {"read", "sort", "alloc", "stage", "publish", "fill"}
  /\ objs[finished].usable
  /\ doing[Main].step \notin {"publish", "fill"} => ~objs[finished].sorted

MainInv ==
  \/ doing[Main] = Idle
  \/ caller = "serial" /\ spawned < NumItems /\ Analysing(Main, spawned)
  \/ finished < NumItems /\ Finishing

\* The staged globals of an object are the first of its globals, each with its object.
StagedInv ==
  \A i \in Items :
    /\ Len(staged[i]) <= Len(objs[i].globals)
    /\ \A k \in 1..Len(staged[i]) : staged[i][k] = <<i, objs[i].globals[k]>>

\* What is known of the object of a busy thread.
BusyInv ==
  \A a \in Actors : Busy(a) =>
    LET i == doing[a].obj IN
    /\ i \in Items
    /\ deferred[i] = Deferrable(i)
    /\ doing[a].step \in {"sort", "alloc", "stage", "publish", "fill"} => objs[i].readable
    /\ doing[a].step = "left" /\ objs[i].usable /\ objs[i].sorted => Full(i)
    /\ doing[a].step \in {"publish", "fill"} /\ ~exited => Full(i)

\* An object that has been through the loop is staged or deferred, until it is finished.
AnalysedInv ==
  \A i \in Items :
    ran[i] = 1 /\ i >= finished /\ (\A a \in Actors : doing[a].obj # i) =>
      /\ deferred[i] = Deferrable(i)
      /\ objs[i].usable /\ objs[i].sorted => Full(i)

\* Nothing is finished before the loop returns, and only the caller allocates.
OrderInv ==
  /\ caller # "returned" => finished = 0
  /\ arena \subseteq {Main}
  /\ arena # {} => doing[Main].step \in {"alloc", "fill"}

BodyInv ==
  MergeTypeOK /\ TaskInv /\ MainInv /\ StagedInv /\ BusyInv /\ AnalysedInv /\ OrderInv

MergeInv == IInv /\ BodyInv

----------------------------------------------------------------------------
\* Indices are numbers, and the caller is not a task.
LEMMA ItemFacts ==
  /\ \A i \in Items : i \in Nat /\ i < NumItems
  /\ NoObject \notin Items
  /\ Main \notin Tasks /\ Main \in Actors
  /\ \A w \in Tasks : w \in Actors /\ w # Main
  BY ItemsAssumption, Sizes DEF Items, NoObject, Main, Tasks, Actors

LEMMA MergeInit == Init => MergeInv
  <1> SUFFICES ASSUME Init PROVE MergeInv
    OBVIOUS
  <1>1. IInv
    BY InitInv DEF Init
  <1>2. MergeTypeOK
    <2>1. <<>> \in Seq(Symbols)
      BY EmptySeq
    <2>2. staged \in [Items -> Seq(Symbols)] /\ files \in Seq(Symbols)
      BY <2>1 DEF Init
    <2>3. Idle \in [step : Steps, obj : Items \cup {NoObject}]
      BY DEF Idle, Steps
    <2>4. doing \in [Actors -> [step : Steps, obj : Items \cup {NoObject}]]
      BY <2>3 DEF Init
    <2>5. objs \in [Items -> ObjectKinds] /\ deferred \in [Items -> BOOLEAN]
      BY DEF Init
    <2>6. arena = {} /\ finished = 0 /\ exited = FALSE
      BY DEF Init
    <2>7. finished \in 0..NumItems
      BY <2>6, ItemsAssumption
    <2> QED BY <2>2, <2>4, <2>5, <2>6, <2>7 DEF MergeTypeOK
  <1>3. TaskInv /\ MainInv
    BY ItemFacts DEF TaskInv, MainInv, Init, PForInit
  <1>4. StagedInv
    <2> SUFFICES ASSUME NEW i \in Items
                 PROVE  Len(staged[i]) <= Len(objs[i].globals) /\ Len(staged[i]) = 0
      BY DEF StagedInv
    <2>1. objs[i] \in ObjectKinds /\ staged[i] = <<>>
      BY DEF Init
    <2>2. Len(objs[i].globals) \in Nat
      BY <2>1, KindsAssumption, LenProperties
    <2>3. Len(staged[i]) = 0
      BY <2>1
    <2> QED BY <2>2, <2>3
  <1>5. BusyInv
    BY DEF Init, BusyInv, Busy, Idle
  <1>6. AnalysedInv
    <2>1. \A i \in Items : ran[i] = 0
      BY DEF Init, PForInit
    <2> QED BY <2>1 DEF AnalysedInv
  <1>7. OrderInv
    BY ItemFacts DEF Init, OrderInv, Idle
  <1> QED BY <1>1, <1>2, <1>3, <1>4, <1>5, <1>6, <1>7 DEF MergeInv, BodyInv

----------------------------------------------------------------------------
(* The loop *)

\* Every step of the merge is a step of parallelFor, or leaves the loop where it is.
LEMMA LoopRefined == [Next]_vars => [PForNext]_pforVars
  <1> SUFFICES ASSUME [Next]_vars PROVE [PForNext]_pforVars
    OBVIOUS
  <1>1. CASE UNCHANGED vars
    BY <1>1 DEF vars
  <1>2. CASE LoopStep
    BY <1>2 DEF LoopStep, PForNext, Caller, Task
  <1>3. ASSUME NEW w \in Tasks, TaskBegins(w) PROVE PForNext
    BY <1>3 DEF TaskBegins, PForNext, Task
  <1>4. CASE SerialBegins
    BY <1>4 DEF SerialBegins
  <1>5. ASSUME NEW a \in Actors, Analyze(a) PROVE [PForNext]_pforVars
    <2>1. CASE LeaveBody(a)
      BY <2>1 DEF LeaveBody, PForNext, Caller, Task, Actors
    <2> QED BY <1>5, <2>1 DEF Analyze, ReadSections, SortRelocations, EndAllocate,
                StageGlobal, EndAnalyze
  <1>6. CASE StartFinish \/ CopyRecords \/ Publish
    BY <1>6 DEF StartFinish, CopyRecords, Publish
  <1> QED BY <1>1, <1>2, <1>3, <1>4, <1>5, <1>6 DEF Next

\* The bookkeeping of the loop does not disturb the bodies.
LEMMA LoopKeepsBodies == ASSUME MergeInv, LoopStep PROVE BodyInv'
  <1> USE ItemFacts DEF MergeInv, BodyInv, LoopStep, pdbVars
  <1>0. caller' # "returned" => caller # "returned"
    BY DEF Enter, Spawn, EndSpawn, Sync, SerialReturn, FetchAdd, EndChunk, Dec
  <1>1. MergeTypeOK' /\ StagedInv'
    BY DEF MergeTypeOK, StagedInv
  <1>2. BusyInv'
    BY DEF BusyInv, Busy, Full, Deferrable
  <1>3. ran' = ran
    BY DEF Enter, Spawn, EndSpawn, Sync, SerialReturn, FetchAdd, EndChunk, Dec
  <1>4. AnalysedInv'
    BY <1>3 DEF AnalysedInv, Full, Deferrable
  <1>5. TaskInv'
    <2>1. CASE Enter \/ EndSpawn \/ Sync \/ SerialReturn
      BY <2>1 DEF TaskInv, Analysing, Enter, EndSpawn, Sync, SerialReturn
    <2>2. CASE Spawn
      BY <2>2 DEF TaskInv, Analysing, Spawn, GoTask, IInv, PForTypeOK, SpawnInv, Tasks
    <2>3. ASSUME NEW w \in Tasks, FetchAdd(w) \/ EndChunk(w) \/ Dec(w) PROVE TaskInv'
      <3>1. task[w] # "fn" /\ task'[w] # "fn"
        BY <2>3 DEF FetchAdd, EndChunk, Dec, GoTask, IInv, PForTypeOK
      <3>2. \A v \in Tasks : v # w => task'[v] = task[v] /\ at'[v] = at[v]
        BY <2>3 DEF FetchAdd, EndChunk, Dec, GoTask, IInv, PForTypeOK
      <3> QED BY <3>1, <3>2 DEF TaskInv, Analysing
    <2> QED BY <2>1, <2>2, <2>3
  <1>6. MainInv'
    <2>1. CASE doing[Main] = Idle
      BY <2>1 DEF MainInv
    <2>2. CASE caller = "serial" /\ spawned < NumItems /\ Analysing(Main, spawned)
      <3>1. caller' = caller /\ spawned' = spawned
        <4>1. ~Enter /\ ~Spawn /\ ~EndSpawn /\ ~Sync
          BY <2>2 DEF Enter, Spawn, EndSpawn, Sync
        <4>2. ~SerialReturn
          BY <2>2, ItemsAssumption DEF SerialReturn, IInv, PForTypeOK
        <4> QED BY <4>1, <4>2 DEF FetchAdd, EndChunk, Dec
      <3> QED BY <2>2, <3>1 DEF MainInv, Analysing
    <2>3. CASE finished < NumItems /\ Finishing
      <3>1. caller' = caller
        BY <2>3 DEF Finishing, Enter, Spawn, EndSpawn, Sync, SerialReturn, FetchAdd, EndChunk,
                    Dec
      <3> QED BY <2>3, <3>1 DEF MainInv, Finishing
    <2> QED BY <2>1, <2>2, <2>3 DEF MainInv
  <1>7. OrderInv'
    BY <1>0 DEF OrderInv
  <1> QED BY <1>1, <1>2, <1>4, <1>5, <1>6, <1>7

----------------------------------------------------------------------------
(* The bodies *)

\* What a step on object i of thread a leaves alone.
LEMMA Frames ==
  ASSUME MergeInv, NEW a \in Actors, UNCHANGED <<objs, finished, files, exited>>,
         NEW s \in Steps, NEW i \in Items, Do(a, s, i)
  PROVE  /\ doing' \in [Actors -> [step : Steps, obj : Items \cup {NoObject}]]
         /\ doing'[a] = [step |-> s, obj |-> i]
         /\ \A b \in Actors : b # a => doing'[b] = doing[b]
  BY DEF MergeInv, BodyInv, MergeTypeOK, Do

\* A body is entered: by a task, or by the caller in the serial loop.
LEMMA TaskBeginsKeeps == ASSUME MergeInv, NEW w \in Tasks, TaskBegins(w) PROVE BodyInv'
  <1> USE ItemFacts DEF MergeInv, BodyInv
  <1> DEFINE i == at[w]
             s == IF objs[i].usable /\ objs[i].sorted THEN "read" ELSE "left"
  <1>1. i \in Items /\ w \in Actors /\ s \in Steps
    BY ItemsAssumption DEF TaskBegins, BeginItem, IInv, ChunkInv, InChunk, PForTypeOK, Items, Steps
  <1>2. /\ doing' \in [Actors -> [step : Steps, obj : Items \cup {NoObject}]]
        /\ doing'[w] = [step |-> s, obj |-> i]
        /\ \A b \in Actors : b # w => doing'[b] = doing[b]
    BY <1>1, Frames DEF TaskBegins, BeginAnalyze, builders
  <1>3. deferred' = [deferred EXCEPT ![i] = Deferrable(i)]
    BY DEF TaskBegins, BeginAnalyze, Deferrable
  <1>4. /\ UNCHANGED <<objs, staged, arena, finished, files, exited>>
        /\ UNCHANGED <<caller, spawned, at>>
        /\ task[w] = "loop" /\ task' = [task EXCEPT ![w] = "fn"]
        /\ ran' = [ran EXCEPT ![i] = @ + 1]
    BY DEF TaskBegins, BeginAnalyze, BeginItem, GoTask, builders
  <1>5. MergeTypeOK'
    <2>1. Deferrable(i) \in BOOLEAN
      BY DEF Deferrable
    <2> QED BY <1>2, <1>3, <1>4, <2>1 DEF MergeTypeOK
  <1>6. TaskInv'
    BY <1>1, <1>2, <1>4 DEF TaskInv, Analysing, IInv, PForTypeOK
  <1>7. MainInv' /\ StagedInv' /\ OrderInv'
    BY <1>1, <1>2, <1>4 DEF MainInv, Analysing, Finishing, StagedInv, OrderInv
  <1>8. BusyInv'
    <2> SUFFICES ASSUME NEW a \in Actors, Busy(a)'
                 PROVE  LET j == doing[a].obj IN
                        (/\ j \in Items
                         /\ deferred[j] = Deferrable(j)
                         /\ doing[a].step \in {"sort", "alloc", "stage", "publish", "fill"} => objs[j].readable
                         /\ doing[a].step = "left" /\ objs[j].usable /\ objs[j].sorted => Full(j)
                         /\ doing[a].step \in {"publish", "fill"} /\ ~exited => Full(j))'
      BY DEF BusyInv
    <2>1. CASE a = w
      BY <1>1, <1>2, <1>3, <1>4, <2>1 DEF MergeTypeOK, Full, Deferrable
    <2>2. CASE a # w
      BY <1>1, <1>2, <1>3, <1>4, <2>2 DEF MergeTypeOK, Full, Deferrable, BusyInv, Busy
    <2> QED BY <2>1, <2>2
  <1>9. AnalysedInv'
    <2>1. doing[w].obj = NoObject
      BY <1>4 DEF TaskInv, Idle
    <2>2. ASSUME NEW j \in Items, j # i PROVE ran'[j] = ran[j] /\ deferred'[j] = deferred[j]
      BY <1>1, <1>3, <1>4, <2>2 DEF MergeTypeOK, IInv, PForTypeOK
    <2> QED BY <1>1, <1>2, <1>4, <2>1, <2>2 DEF AnalysedInv, Full, Deferrable
  <1> QED BY <1>5, <1>6, <1>7, <1>8, <1>9

LEMMA SerialBeginsKeeps == ASSUME MergeInv, SerialBegins PROVE BodyInv'
  <1> USE ItemFacts DEF MergeInv, BodyInv
  <1> DEFINE i == spawned
             s == IF objs[i].usable /\ objs[i].sorted THEN "read" ELSE "left"
  <1>1. i \in Items /\ s \in Steps
    BY ItemsAssumption DEF SerialBegins, IInv, PForTypeOK, Items, Steps
  <1>2. /\ doing' \in [Actors -> [step : Steps, obj : Items \cup {NoObject}]]
        /\ doing'[Main] = [step |-> s, obj |-> i]
        /\ \A b \in Actors : b # Main => doing'[b] = doing[b]
    BY <1>1, Frames DEF SerialBegins, BeginAnalyze, builders
  <1>3. deferred' = [deferred EXCEPT ![i] = Deferrable(i)]
    BY DEF SerialBegins, BeginAnalyze, Deferrable
  <1>4. /\ UNCHANGED <<objs, staged, arena, finished, files, exited>>
        /\ UNCHANGED <<caller, spawned, at, task, ran>>
        /\ caller = "serial" /\ spawned < NumItems
        /\ doing[Main].step = "idle"
    BY DEF SerialBegins, BeginAnalyze, At, builders, pforVars
  <1>5. MergeTypeOK'
    <2>1. Deferrable(i) \in BOOLEAN
      BY DEF Deferrable
    <2> QED BY <1>2, <1>3, <1>4, <2>1 DEF MergeTypeOK
  <1>6. TaskInv' /\ StagedInv' /\ OrderInv'
    BY <1>1, <1>2, <1>4 DEF TaskInv, Analysing, StagedInv, OrderInv
  <1>7. MainInv'
    BY <1>1, <1>2, <1>4 DEF MainInv, Analysing
  <1>8. BusyInv'
    <2> SUFFICES ASSUME NEW a \in Actors, Busy(a)'
                 PROVE  LET j == doing[a].obj IN
                        (/\ j \in Items
                         /\ deferred[j] = Deferrable(j)
                         /\ doing[a].step \in {"sort", "alloc", "stage", "publish", "fill"} => objs[j].readable
                         /\ doing[a].step = "left" /\ objs[j].usable /\ objs[j].sorted => Full(j)
                         /\ doing[a].step \in {"publish", "fill"} /\ ~exited => Full(j))'
      BY DEF BusyInv
    <2>1. CASE a = Main
      BY <1>1, <1>2, <1>3, <1>4, <2>1 DEF MergeTypeOK, Full, Deferrable
    <2>2. CASE a # Main
      BY <1>1, <1>2, <1>3, <1>4, <2>2 DEF MergeTypeOK, Full, Deferrable, BusyInv, Busy
    <2> QED BY <2>1, <2>2
  <1>9. AnalysedInv'
    <2>1. doing[Main].obj = NoObject
      BY <1>4 DEF MainInv, Idle, Analysing, Finishing
    <2>2. ASSUME NEW j \in Items, j # i PROVE deferred'[j] = deferred[j]
      BY <1>1, <1>3, <2>2 DEF MergeTypeOK
    <2> QED BY <1>1, <1>2, <1>4, <2>1, <2>2 DEF AnalysedInv, Full, Deferrable
  <1> QED BY <1>5, <1>6, <1>7, <1>8, <1>9

\* The steps thread a may be in: the ones of finish once the loop has returned, else the
\* ones of the loop body.
Permitted(a, s) ==
  IF a = Main /\ caller = "returned"
    THEN /\ s \in {"read", "sort", "alloc", "stage", "publish", "fill"}
         /\ Object(a).usable
         /\ s \notin {"publish", "fill"} => ~Object(a).sorted
    ELSE /\ s \in {"read", "sort", "stage", "left"}
         /\ s # "left" => Object(a).usable /\ Object(a).sorted

LEMMA BusyMode ==
  ASSUME MergeInv, NEW a \in Actors, Busy(a)
  PROVE  /\ doing[a].obj \in Items
         /\ Permitted(a, doing[a].step)
         /\ doing[a].obj >= finished
         /\ a # Main => a \in Tasks /\ task[a] = "fn" /\ at[a] = doing[a].obj
                        /\ caller # "returned"
         /\ a = Main => \/ caller = "serial" /\ spawned < NumItems /\ spawned = doing[a].obj
                        \/ caller = "returned" /\ finished < NumItems /\ finished = doing[a].obj
  <1> USE ItemFacts DEF MergeInv, BodyInv
  <1>1. doing[a].obj \in Items
    BY DEF BusyInv
  <1>2. CASE a = Main
    <2>1. doing[Main] # Idle
      BY <1>2 DEF Busy, Idle
    <2>2. CASE caller = "serial" /\ spawned < NumItems /\ Analysing(Main, spawned)
      BY <1>1, <1>2, <2>2 DEF Analysing, Permitted, Object, OrderInv
    <2>3. CASE finished < NumItems /\ Finishing
      BY <1>1, <1>2, <2>3 DEF Finishing, Permitted, Object
    <2> QED BY <2>1, <2>2, <2>3 DEF MainInv
  <1>3. CASE a # Main
    <2>1. a \in Tasks
      BY <1>3 DEF Actors
    <2>2. task[a] = "fn" /\ Analysing(a, at[a])
      BY <2>1 DEF TaskInv, Busy, Idle
    <2>3. caller # "returned"
      BY <2>1, <2>2 DEF IInv, JoinIsComplete
    <2> QED BY <1>1, <1>3, <2>1, <2>2, <2>3 DEF Analysing, Permitted, Object, OrderInv
  <1> QED BY <1>2, <1>3

\* A thread goes on to another step for the same object.
LEMMA AdvanceKeeps ==
  ASSUME MergeInv, NEW a \in Actors, Busy(a), NEW s \in Steps, s # "idle",
         Do(a, s, doing[a].obj), Permitted(a, s),
         UNCHANGED <<pforVars, objs, staged, deferred, finished, files, exited>>,
         s \in {"sort", "alloc", "stage", "publish", "fill"} => Object(a).readable,
         s = "left" /\ Object(a).usable /\ Object(a).sorted => Full(doing[a].obj),
         s \in {"publish", "fill"} => Full(doing[a].obj),
         arena' \subseteq {Main},
         IF a = Main THEN arena' # {} => s \in {"alloc", "fill"} ELSE arena' = arena
  PROVE  BodyInv'
  <1> USE ItemFacts DEF MergeInv, BodyInv
  <1> DEFINE i == doing[a].obj
  <1>1. i \in Items
    BY BusyMode
  <1>2. /\ doing' \in [Actors -> [step : Steps, obj : Items \cup {NoObject}]]
        /\ doing'[a] = [step |-> s, obj |-> i]
        /\ \A b \in Actors : b # a => doing'[b] = doing[b]
    BY <1>1, Frames
  <1>3. \A b \in Actors : doing'[b].obj = doing[b].obj
    BY <1>2
  <1>4. MergeTypeOK'
    BY <1>2 DEF MergeTypeOK
  <1>5. StagedInv' /\ AnalysedInv'
    BY <1>3 DEF StagedInv, AnalysedInv, Full, Deferrable, pforVars
  <1>6. TaskInv'
    <2> SUFFICES ASSUME NEW w \in Tasks
                 PROVE  IF task[w] = "fn" THEN Analysing(w, at[w])' ELSE doing'[w] = Idle
      BY DEF TaskInv, pforVars
    <2>1. CASE w = a
      BY <1>2, <2>1, BusyMode DEF Permitted, Object, Analysing, pforVars
    <2>2. CASE w # a
      BY <1>2, <2>2 DEF TaskInv, Analysing, pforVars
    <2> QED BY <2>1, <2>2
  <1>7. MainInv'
    <2>1. CASE a = Main
      BY <1>2, <2>1, BusyMode DEF Permitted, Object, Analysing, MainInv, Finishing, pforVars
    <2>2. CASE a # Main
      BY <1>2, <2>2 DEF MainInv, Analysing, Finishing, pforVars
    <2> QED BY <2>1, <2>2
  <1>8. BusyInv'
    BY <1>1, <1>2 DEF BusyInv, Busy, Full, Deferrable, Object
  <1>9. OrderInv'
    BY <1>2 DEF OrderInv, pforVars
  <1> QED BY <1>4, <1>5, <1>6, <1>7, <1>8, <1>9

\* The process ends on a section that does not parse.
LEMMA DeathKeeps ==
  ASSUME MergeInv, exited' = TRUE, UNCHANGED doing,
         UNCHANGED <<pforVars, objs, staged, deferred, arena, finished, builders>>
  PROVE  BodyInv'
  <1> USE DEF MergeInv, BodyInv, pforVars, builders
  <1>1. MergeTypeOK' /\ StagedInv' /\ OrderInv'
    BY DEF MergeTypeOK, StagedInv, OrderInv
  <1>2. TaskInv' /\ MainInv'
    BY DEF TaskInv, MainInv, Analysing, Finishing
  <1>3. BusyInv' /\ AnalysedInv'
    BY DEF BusyInv, Busy, AnalysedInv, Full, Deferrable
  <1> QED BY <1>1, <1>2, <1>3

LEMMA AnalysisKeeps ==
  ASSUME MergeInv, NEW a \in Actors,
         ReadSections(a) \/ SortRelocations(a) \/ EndAllocate(a) \/ EndAnalyze(a)
  PROVE  BodyInv'
  <1> DEFINE i == doing[a].obj
  <1>0. Busy(a)
    BY DEF Busy, ReadSections, SortRelocations, EndAllocate, EndAnalyze, At
  <1>1. i \in Items /\ Permitted(a, doing[a].step)
    BY <1>0, BusyMode
  <1>2. /\ doing[a].step \in {"sort", "alloc", "stage", "publish", "fill"} => objs[i].readable
        /\ arena \subseteq {Main} /\ (arena # {} => doing[Main].step \in {"alloc", "fill"})
    BY <1>0 DEF MergeInv, BodyInv, BusyInv, OrderInv
  <1>3. CASE ReadSections(a)
    <2>1. CASE objs[i].readable
      <3> USE <1>3, <2>1 DEF ReadSections, At
      <3>1. Permitted(a, "sort")
        BY <1>1 DEF Permitted
      <3>2. arena' \subseteq {Main} /\ IF a = Main THEN arena' = {} ELSE arena' = arena
        BY <1>2
      <3> QED BY <1>0, <3>1, <3>2, AdvanceKeeps DEF Object, Steps, builders
    <2>2. CASE ~objs[i].readable
      BY <1>3, <2>2, DeathKeeps DEF ReadSections, builders
    <2> QED BY <2>1, <2>2
  <1>4. CASE SortRelocations(a)
    <2> USE <1>4 DEF SortRelocations, At
    <2>1. CASE objs[i].sorted
      <3> USE <2>1
      <3>1. Permitted(a, "stage")
        BY <1>1 DEF Permitted, Object
      <3>2. arena' \subseteq {Main} /\ IF a = Main THEN arena' = {} ELSE arena' = arena
        BY <1>2
      <3> QED BY <1>0, <1>2, <3>1, <3>2, AdvanceKeeps DEF Object, Steps, builders
    <2>2. CASE ~objs[i].sorted
      <3> USE <2>2
      <3>1. Permitted(a, "alloc") /\ a = Main
        BY <1>1 DEF Permitted, Object
      <3>2. arena' \subseteq {Main}
        BY <1>2, <3>1
      <3> QED BY <1>0, <1>2, <3>1, <3>2, AdvanceKeeps DEF Object, Steps, builders
    <2> QED BY <2>1, <2>2
  <1>5. CASE EndAllocate(a)
    <2> USE <1>5 DEF EndAllocate, At
    <2>1. Permitted(a, "stage") /\ a = Main
      BY <1>1 DEF Permitted
    <2>2. arena' \subseteq {Main} /\ IF a = Main THEN arena' = {} ELSE arena' = arena
      BY <1>2, <2>1
    <2> QED BY <1>0, <1>2, <2>1, <2>2, AdvanceKeeps DEF Object, Steps, builders
  <1>6. CASE EndAnalyze(a)
    <2> USE <1>6 DEF EndAnalyze, At
    <2> DEFINE s == IF caller = "returned" THEN "publish" ELSE "left"
    <2>1. Permitted(a, s)
      <3>1. a # Main => caller # "returned"
        BY <1>0, BusyMode
      <3> QED BY <1>1, <3>1 DEF Permitted
    <2>2. Full(i)
      BY <1>2 DEF Full
    <2>3. arena' \subseteq {Main} /\ IF a = Main THEN arena' = {} ELSE arena' = arena
      BY <1>2
    <2>4. s \in Steps /\ s # "idle" /\ Do(a, s, i)
      BY DEF Steps
    <2>5. UNCHANGED <<pforVars, objs, staged, deferred, finished, files, exited>>
      BY DEF builders
    <2>6. Object(a).readable
      BY <1>2 DEF Object
    <2> HIDE DEF s
    <2> QED BY <1>0, <2>1, <2>2, <2>3, <2>4, <2>5, <2>6, AdvanceKeeps
  <1> QED BY <1>3, <1>4, <1>5, <1>6

\* Another global is staged.
LEMMA StageKeeps == ASSUME MergeInv, NEW a \in Actors, StageGlobal(a) PROVE BodyInv'
  <1> USE ItemFacts DEF MergeInv, BodyInv
  <1> DEFINE i == doing[a].obj
             old == staged[i]
             record == <<i, objs[i].globals[Len(old) + 1]>>
  <1>1. i \in Items /\ Busy(a)
    BY BusyMode DEF Busy, StageGlobal, At
  <1>2. /\ staged' = [staged EXCEPT ![i] = Append(old, record)]
        /\ UNCHANGED <<pforVars, objs, doing, deferred, arena, finished, files, exited>>
        /\ Len(old) < Len(objs[i].globals)
    BY <1>1 DEF StageGlobal, builders, MergeTypeOK
  <1>3. objs[i].globals \in Seq(STRING) /\ old \in Seq(Symbols)
    BY <1>1, KindsAssumption DEF MergeTypeOK
  <1>4. record \in Symbols
    <2>1. Len(old) \in Nat /\ Len(objs[i].globals) \in Nat
      BY <1>3, LenProperties
    <2>2. Len(old) + 1 \in 1..Len(objs[i].globals)
      BY <1>2, <2>1
    <2>3. objs[i].globals[Len(old) + 1] \in STRING
      BY <1>3, <2>2, ElementOfSeq
    <2> QED BY <1>1, <2>3 DEF Symbols
  <1>5. /\ Append(old, record) \in Seq(Symbols)
        /\ Len(Append(old, record)) = Len(old) + 1
        /\ \A k \in 1..Len(old) : Append(old, record)[k] = old[k]
        /\ Append(old, record)[Len(old) + 1] = record
    <2> HIDE DEF old, record
    <2> QED BY <1>3, <1>4, AppendProperties
  <1>6. MergeTypeOK'
    BY <1>1, <1>2, <1>5 DEF MergeTypeOK
  <1>7. \A j \in Items : j # i => staged'[j] = staged[j]
    BY <1>1, <1>2 DEF MergeTypeOK
  <1>8. staged'[i] = Append(old, record)
    BY <1>1, <1>2 DEF MergeTypeOK
  <1>9. StagedInv'
    <2> SUFFICES ASSUME NEW j \in Items
                 PROVE  /\ Len(staged'[j]) <= Len(objs[j].globals)
                        /\ \A k \in 1..Len(staged'[j]) : staged'[j][k] = <<j, objs[j].globals[k]>>
      BY <1>2 DEF StagedInv
    <2>1. CASE j # i
      BY <1>7, <2>1 DEF StagedInv
    <2>2. CASE j = i
      <3>1. Len(old) \in Nat /\ Len(objs[i].globals) \in Nat
        BY <1>3, LenProperties
      <3>2. Len(staged'[i]) = Len(old) + 1
        BY <1>5, <1>8
      <3>3. Len(staged'[i]) <= Len(objs[i].globals)
        BY <1>2, <3>1, <3>2
      <3>4. ASSUME NEW k \in 1..Len(staged'[i])
            PROVE  staged'[i][k] = <<i, objs[i].globals[k]>>
        <4>1. k \in 1..Len(old) \/ k = Len(old) + 1
          BY <3>1, <3>2
        <4>2. CASE k \in 1..Len(old)
          <5>1. staged'[i][k] = old[k]
            BY <1>5, <1>8, <4>2
          <5> QED BY <1>1, <4>2, <5>1 DEF StagedInv
        <4>3. CASE k = Len(old) + 1
          BY <1>5, <1>8, <4>3
        <4> QED BY <4>1, <4>2, <4>3
      <3> QED BY <2>2, <3>3, <3>4
    <2> QED BY <2>1, <2>2
  <1>10. ~Full(i)
    BY <1>2, <1>3, LenProperties DEF Full
  <1>11. \A j \in Items : Full(j) => Full(j)'
    BY <1>2, <1>7, <1>10 DEF Full
  <1>12. TaskInv' /\ MainInv' /\ OrderInv'
    BY <1>2 DEF TaskInv, MainInv, Analysing, Finishing, OrderInv, pforVars
  <1>13. BusyInv'
    BY <1>2, <1>11 DEF BusyInv, Busy, Deferrable
  <1>14. AnalysedInv'
    BY <1>2, <1>11 DEF AnalysedInv, Deferrable, pforVars
  <1> QED BY <1>6, <1>9, <1>12, <1>13, <1>14

\* A body is left: its object has been analysed.
LEMMA LeaveKeeps == ASSUME MergeInv, NEW a \in Actors, LeaveBody(a) PROVE BodyInv'
  <1> USE ItemFacts DEF MergeInv, BodyInv
  <1> DEFINE i == doing[a].obj
  <1>1. /\ doing[a].step = "left" /\ doing' = [doing EXCEPT ![a] = Idle]
        /\ UNCHANGED <<objs, staged, deferred, arena, finished, files, exited>>
        /\ IF a = Main THEN SerialItem ELSE EndItem(a)
    BY DEF LeaveBody, At, builders
  <1>2. Busy(a) /\ i \in Items
    BY <1>1, BusyMode DEF Busy
  <1>3. /\ doing'[a] = Idle /\ \A b \in Actors : b # a => doing'[b] = doing[b]
        /\ Idle \in [step : Steps, obj : Items \cup {NoObject}]
    BY <1>1 DEF MergeTypeOK, Idle, Steps
  <1>4. caller' = caller
    BY <1>1 DEF SerialItem, EndItem
  <1>5. \A j \in Items : j # i => ran'[j] = ran[j]
    <2>1. CASE a = Main
      <3>1. spawned = i
        BY <1>1, <1>2, <2>1, BusyMode DEF SerialItem
      <3> QED BY <1>1, <1>2, <2>1, <3>1 DEF SerialItem, IInv, PForTypeOK
    <2>2. CASE a # Main
      BY <1>1, <2>2 DEF EndItem
    <2> QED BY <2>1, <2>2
  <1>6. MergeTypeOK'
    BY <1>1, <1>3 DEF MergeTypeOK
  <1>7. TaskInv'
    <2> SUFFICES ASSUME NEW w \in Tasks
                 PROVE  IF task'[w] = "fn" THEN Analysing(w, at[w])' ELSE doing'[w] = Idle
      BY DEF TaskInv
    <2>1. CASE w = a
      BY <1>1, <1>3, <2>1 DEF EndItem, GoTask, IInv, PForTypeOK
    <2>2. CASE w # a
      <3>1. task'[w] = task[w] /\ at'[w] = at[w]
        BY <1>1, <2>2 DEF SerialItem, EndItem, GoTask, IInv, PForTypeOK
      <3> QED BY <1>1, <1>3, <2>2, <3>1 DEF TaskInv, Analysing
    <2> QED BY <2>1, <2>2
  <1>8. MainInv'
    <2>1. CASE a = Main
      BY <1>3, <2>1 DEF MainInv
    <2>2. CASE a # Main
      <3>1. spawned' = spawned
        BY <1>1, <2>2 DEF EndItem
      <3> QED BY <1>1, <1>3, <1>4, <2>2, <3>1 DEF MainInv, Analysing, Finishing
    <2> QED BY <2>1, <2>2
  <1>9. StagedInv'
    BY <1>1 DEF StagedInv
  <1>10. BusyInv'
    BY <1>1, <1>3 DEF BusyInv, Busy, Full, Deferrable, Idle
  <1>11. AnalysedInv'
    <2> SUFFICES ASSUME NEW j \in Items, ran'[j] = 1, j >= finished,
                        \A b \in Actors : doing'[b].obj # j
                 PROVE  /\ deferred[j] = Deferrable(j)
                        /\ objs[j].usable /\ objs[j].sorted => Full(j)
      BY <1>1 DEF AnalysedInv, Full, Deferrable
    <2>1. CASE j = i
      BY <1>1, <1>2, <2>1 DEF BusyInv
    <2>2. CASE j # i
      <3>1. \A b \in Actors : doing[b].obj # j
        BY <1>3, <2>2
      <3> QED BY <1>5, <2>2, <3>1 DEF AnalysedInv
    <2> QED BY <2>1, <2>2
  <1>12. OrderInv'
    BY <1>1, <1>3, <1>4 DEF OrderInv, Idle
  <1> QED BY <1>6, <1>7, <1>8, <1>9, <1>10, <1>11, <1>12

----------------------------------------------------------------------------
(* finish *)

\* Once the loop has returned and the caller is between two objects, the next object has
\* been analysed, or deferred.
LEMMA NextIsAnalysed ==
  ASSUME MergeInv, caller = "returned", doing[Main].step = "idle", finished < NumItems
  PROVE  /\ finished \in Items
         /\ \A b \in Actors : doing[b] = Idle
         /\ deferred[finished] = Deferrable(finished)
         /\ objs[finished].usable /\ objs[finished].sorted => Full(finished)
  <1> USE ItemFacts DEF MergeInv, BodyInv
  <1>1. finished \in Items /\ finished >= finished
    BY ItemsAssumption DEF MergeTypeOK, Items
  <1>2. doing[Main] = Idle
    BY DEF MainInv, Analysing, Finishing
  <1>3. \A w \in Tasks : doing[w] = Idle
    BY DEF IInv, JoinIsComplete, TaskInv
  <1>4. \A b \in Actors : doing[b] = Idle
    BY <1>2, <1>3 DEF Actors
  <1>5. \A b \in Actors : doing[b].obj # finished
    BY <1>1, <1>4 DEF Idle
  <1>6. ran[finished] = 1
    BY <1>1 DEF IInv, JoinIsComplete
  <1> QED BY <1>1, <1>4, <1>5, <1>6 DEF AnalysedInv

LEMMA StartFinishKeeps == ASSUME MergeInv, StartFinish PROVE BodyInv'
  <1> USE ItemFacts DEF MergeInv, BodyInv
  <1>1. /\ caller = "returned" /\ doing[Main].step = "idle" /\ finished < NumItems
        /\ UNCHANGED <<pforVars, objs, staged, deferred, arena, files, exited>>
    BY DEF StartFinish, At, builders
  <1>2. /\ finished \in Items
        /\ \A b \in Actors : doing[b] = Idle
        /\ deferred[finished] = Deferrable(finished)
        /\ objs[finished].usable /\ objs[finished].sorted => Full(finished)
    BY <1>1, NextIsAnalysed
  <1>3. CASE objs[finished].usable
    <2> DEFINE s == IF deferred[finished] THEN "read" ELSE "publish"
    <2>1. Do(Main, s, finished) /\ finished' = finished /\ s \in Steps
      BY <1>3 DEF StartFinish, Steps
    <2>2. /\ doing' \in [Actors -> [step : Steps, obj : Items \cup {NoObject}]]
          /\ doing'[Main] = [step |-> s, obj |-> finished]
          /\ \A b \in Actors : b # Main => doing'[b] = doing[b]
      BY <1>1, <1>2, <2>1, Frames
    <2>3. /\ s = "read" => ~objs[finished].sorted
          /\ s = "publish" => Full(finished)
      BY <1>2, <1>3 DEF Deferrable
    <2>4. s \in {"read", "publish"}
      OBVIOUS
    <2> HIDE DEF s
    <2>5. MergeTypeOK' /\ StagedInv'
      BY <1>1, <2>1, <2>2 DEF MergeTypeOK, StagedInv
    <2>6. TaskInv'
      BY <1>1, <2>2 DEF TaskInv, Analysing, pforVars
    <2>7. MainInv'
      BY <1>1, <1>3, <2>1, <2>2, <2>3, <2>4 DEF MainInv, Finishing, pforVars
    <2>8. BusyInv'
      BY <1>1, <1>2, <2>2, <2>3, <2>4 DEF BusyInv, Busy, Full, Deferrable, Idle
    <2>9. AnalysedInv'
      BY <1>1, <1>2, <2>1, <2>2 DEF AnalysedInv, Full, Deferrable, Idle, pforVars
    <2>10. OrderInv'
      BY <1>1, <2>1, <2>2, <2>4 DEF OrderInv, pforVars
    <2> QED BY <2>5, <2>6, <2>7, <2>8, <2>9, <2>10
  <1>4. CASE ~objs[finished].usable
    <2>1. finished' = finished + 1 /\ doing' = doing
      BY <1>4 DEF StartFinish
    <2>2. MergeTypeOK' /\ StagedInv'
      BY <1>1, <2>1, ItemsAssumption DEF MergeTypeOK, StagedInv
    <2>3. TaskInv' /\ MainInv'
      BY <1>1, <1>2, <2>1 DEF TaskInv, MainInv, Analysing, pforVars
    <2>4. BusyInv'
      BY <1>1, <2>1 DEF BusyInv, Busy, Full, Deferrable
    <2>5. AnalysedInv'
      <3>1. \A j \in Items : j >= finished' => j >= finished
        BY <1>2, <2>1
      <3> QED BY <1>1, <2>1, <3>1 DEF AnalysedInv, Full, Deferrable, pforVars
    <2>6. OrderInv'
      BY <1>1, <2>1 DEF OrderInv, pforVars
    <2> QED BY <2>2, <2>3, <2>4, <2>5, <2>6
  <1> QED BY <1>3, <1>4

\* Labelled names are a sequence, and what is staged in full is all the globals, labelled.
LEMMA LabelType ==
  ASSUME NEW i \in Items, NEW names \in Seq(STRING)
  PROVE  Serial!Label(i, names) \in Seq(Symbols)
  <1>1. DOMAIN names = 1..Len(names) /\ Len(names) \in Nat
    BY LenProperties
  <1>2. \A k \in 1..Len(names) : names[k] \in STRING
    BY ElementOfSeq
  <1>3. Serial!Label(i, names) = [k \in 1..Len(names) |-> <<i, names[k]>>]
    BY <1>1 DEF Serial!Label
  <1>4. [k \in 1..Len(names) |-> <<i, names[k]>>] \in [1..Len(names) -> Symbols]
    BY <1>2 DEF Symbols
  <1> QED BY <1>1, <1>3, <1>4, IsASeq

LEMMA FullIsLabelled ==
  ASSUME MergeInv, NEW i \in Items, Full(i)
  PROVE  staged[i] = Serial!Label(i, objs[i].globals)
  <1> USE DEF MergeInv, BodyInv
  <1>1. staged[i] \in Seq(Symbols) /\ objs[i].globals \in Seq(STRING)
    BY KindsAssumption DEF MergeTypeOK
  <1>2. DOMAIN objs[i].globals = 1..Len(objs[i].globals)
    BY <1>1, LenProperties
  <1>3. staged[i] \in [1..Len(objs[i].globals) -> Symbols]
    BY <1>1, LenProperties DEF Full
  <1>4. \A k \in 1..Len(objs[i].globals) : staged[i][k] = <<i, objs[i].globals[k]>>
    BY DEF Full, StagedInv
  <1> QED BY <1>2, <1>3, <1>4 DEF Serial!Label

\* What holds when the caller publishes an object.
LEMMA Publishing ==
  ASSUME MergeInv, NEW s \in {"publish", "fill"}, At(Main, s)
  PROVE  /\ finished \in Items /\ doing[Main].obj = finished /\ caller = "returned"
         /\ objs[finished].usable /\ objs[finished].readable
         /\ staged[finished] = Serial!Label(finished, objs[finished].globals)
         /\ objs[finished].globals \in Seq(STRING) /\ objs[finished].files \in Seq(STRING)
         /\ \A w \in Tasks : doing[w] = Idle
  <1> USE ItemFacts DEF MergeInv, BodyInv
  <1>1. Busy(Main) /\ doing[Main].step = s
    BY DEF Busy, At
  <1>2. doing[Main].obj = finished /\ caller = "returned" /\ finished \in Items
    BY <1>1, BusyMode DEF Permitted
  <1>3. Full(finished)
    BY <1>1, <1>2 DEF BusyInv, At
  <1>4. objs[finished].usable
    BY <1>1, <1>2, BusyMode DEF Permitted, Object
  <1>5. \A w \in Tasks : doing[w] = Idle
    BY <1>2 DEF IInv, JoinIsComplete, TaskInv
  <1>6. objs[finished] \in ObjectKinds
    BY <1>2 DEF MergeTypeOK
  <1> QED BY <1>2, <1>3, <1>4, <1>5, <1>6, FullIsLabelled, KindsAssumption DEF Full

\* The records of the object are copied into the shared arena.
LEMMA CopyRecordsKeeps == ASSUME MergeInv, CopyRecords PROVE BodyInv'
  <1>1. Busy(Main) /\ Main \in Actors /\ At(Main, "publish")
    BY ItemFacts DEF Busy, At, CopyRecords
  <1>2. /\ doing[Main].obj = finished /\ caller = "returned" /\ Object(Main).usable
        /\ Object(Main).readable
    BY <1>1, Publishing DEF Object
  <1>3. Permitted(Main, "fill")
    BY <1>2 DEF Permitted
  <1>4. Full(doing[Main].obj)
    BY <1>1 DEF MergeInv, BodyInv, BusyInv, At
  <1>5. arena' \subseteq {Main}
    BY DEF CopyRecords, MergeInv, BodyInv, OrderInv
  <1>6. Do(Main, "fill", doing[Main].obj) /\ "fill" \in Steps
    BY <1>2 DEF CopyRecords, Steps
  <1>7. UNCHANGED <<pforVars, objs, staged, deferred, finished, files, exited>>
    BY DEF CopyRecords, builders
  <1> QED BY <1>1, <1>2, <1>3, <1>4, <1>5, <1>6, <1>7, AdvanceKeeps

LEMMA PublishKeeps == ASSUME MergeInv, Publish PROVE BodyInv'
  <1> USE ItemFacts DEF MergeInv, BodyInv
  <1> DEFINE i == finished
             o == objs[i]
  <1>1. /\ At(Main, "fill")
        /\ staged' = [staged EXCEPT ![i] = <<>>]
        /\ arena' = arena \ {Main}
        /\ UNCHANGED <<pforVars, objs, deferred>>
        /\ files' = IF Serial!Publishes(o) THEN files \o Serial!Label(i, o.files) ELSE files
        /\ \/ exited' = TRUE /\ UNCHANGED <<finished, doing>>
           \/ /\ finished' = finished + 1 /\ UNCHANGED exited
              /\ doing' = [doing EXCEPT ![Main] = Idle]
    BY DEF Publish, Serial!FilesWith
  <1>2. /\ i \in Items /\ doing[Main].obj = i /\ caller = "returned"
        /\ o.files \in Seq(STRING)
        /\ \A w \in Tasks : doing[w] = Idle
    BY <1>1, Publishing
  <1>3. files' \in Seq(Symbols)
    <2>1. Serial!Label(i, o.files) \in Seq(Symbols) /\ files \in Seq(Symbols)
      BY <1>2, LabelType DEF MergeTypeOK
    <2> QED BY <1>1, <2>1, ConcatProperties
  <1>4. staged' \in [Items -> Seq(Symbols)]
    <2>1. <<>> \in Seq(Symbols)
      BY EmptySeq
    <2> QED BY <1>1, <2>1 DEF MergeTypeOK
  <1>5. staged'[i] = <<>> /\ \A j \in Items : j # i => staged'[j] = staged[j]
    BY <1>1, <1>2 DEF MergeTypeOK
  <1>6. StagedInv'
    <2> SUFFICES ASSUME NEW j \in Items
                 PROVE  /\ Len(staged'[j]) <= Len(objs[j].globals)
                        /\ \A k \in 1..Len(staged'[j]) : staged'[j][k] = <<j, objs[j].globals[k]>>
      BY <1>1 DEF StagedInv
    <2>1. CASE j # i
      BY <1>5, <2>1 DEF StagedInv
    <2>2. CASE j = i
      <3>1. Len(staged'[j]) = 0
        BY <1>5, <2>2
      <3>2. objs[j] \in ObjectKinds
        BY DEF MergeTypeOK
      <3>3. Len(objs[j].globals) \in Nat
        BY <3>2, KindsAssumption, LenProperties
      <3> QED BY <3>1, <3>3
    <2> QED BY <2>1, <2>2
  <1>7. \A j \in Items : j # i /\ Full(j) => Full(j)'
    BY <1>1, <1>5 DEF Full
  <1>8. OrderInv'
    BY <1>1, <1>2 DEF OrderInv, pforVars
  <1>9. CASE finished' = finished + 1 /\ UNCHANGED exited
             /\ doing' = [doing EXCEPT ![Main] = Idle]
    <2>1. \A b \in Actors : doing'[b] = Idle
      BY <1>2, <1>9 DEF MergeTypeOK, Actors
    <2>2. MergeTypeOK'
      <3>1. Idle \in [step : Steps, obj : Items \cup {NoObject}]
        BY DEF Idle, Steps
      <3>2. finished' \in 0..NumItems
        BY <1>2, <1>9, ItemsAssumption
      <3>3. doing' \in [Actors -> [step : Steps, obj : Items \cup {NoObject}]]
        BY <1>9, <3>1 DEF MergeTypeOK
      <3> QED BY <1>1, <1>3, <1>4, <1>9, <3>2, <3>3 DEF MergeTypeOK
    <2>3. TaskInv' /\ MainInv'
      BY <1>1, <1>2, <2>1 DEF TaskInv, MainInv, IInv, JoinIsComplete, pforVars
    <2>4. BusyInv'
      BY <2>1 DEF BusyInv, Busy, Idle
    <2>5. AnalysedInv'
      <3> SUFFICES ASSUME NEW j \in Items, ran[j] = 1, j >= finished'
                   PROVE  /\ deferred[j] = Deferrable(j)
                          /\ objs[j].usable /\ objs[j].sorted => Full(j)'
        BY <1>1 DEF AnalysedInv, Deferrable, pforVars
      <3>1. j >= finished /\ j # i
        BY <1>2, <1>9
      <3>2. \A b \in Actors : doing[b].obj # j
        BY <1>2, <3>1 DEF Actors, Idle
      <3> QED BY <1>7, <3>1, <3>2 DEF AnalysedInv
    <2> QED BY <1>6, <1>8, <2>2, <2>3, <2>4, <2>5
  <1>10. CASE exited' = TRUE /\ UNCHANGED <<finished, doing>>
    <2>1. MergeTypeOK'
      BY <1>1, <1>3, <1>4, <1>10 DEF MergeTypeOK
    <2>2. TaskInv' /\ MainInv'
      BY <1>1, <1>10 DEF TaskInv, MainInv, Analysing, Finishing, pforVars
    <2>3. BusyInv'
      <3>1. \A w \in Tasks : ~Busy(w)
        BY <1>2 DEF Busy, Idle
      <3>2. doing[Main].step = "fill"
        BY <1>1 DEF At
      <3> QED BY <1>1, <1>10, <3>1, <3>2 DEF BusyInv, Busy, Deferrable, Actors
    <2>4. AnalysedInv'
      BY <1>1, <1>2, <1>7, <1>10 DEF AnalysedInv, Deferrable, pforVars
    <2> QED BY <1>6, <1>8, <2>1, <2>2, <2>3, <2>4
  <1> QED BY <1>1, <1>9, <1>10

----------------------------------------------------------------------------
LEMMA MergeStep == MergeInv /\ [Next]_vars => MergeInv'
  <1> SUFFICES ASSUME MergeInv, [Next]_vars PROVE MergeInv'
    OBVIOUS
  <1>1. IInv'
    BY LoopRefined, PForStep DEF MergeInv
  <1>2. CASE UNCHANGED vars
    BY <1>1, <1>2, SMTT(30) DEF vars, pforVars, pdbVars, MergeInv, BodyInv, MergeTypeOK, TaskInv, MainInv,
                      Analysing, Finishing, StagedInv, BusyInv, Busy, AnalysedInv, Full,
                      Deferrable, OrderInv
  <1>3. CASE Next
    <2>1. ASSUME NEW a \in Actors, Analyze(a) PROVE BodyInv'
      BY <2>1, AnalysisKeeps, StageKeeps, LeaveKeeps DEF Analyze
    <2> QED BY <1>1, <1>3, <2>1, LoopKeepsBodies, TaskBeginsKeeps, SerialBeginsKeeps,
               StartFinishKeeps, CopyRecordsKeeps, PublishKeeps DEF Next, MergeInv
  <1> QED BY <1>2, <1>3

\* The invariant is inductive.
THEOREM MergeInvariance == Spec => []MergeInv
  BY MergeInit, MergeStep, PTL DEF Spec

\* The loop of the merge is parallelFor: what is proved of it holds here.
THEOREM MergeUsesParallelFor == Spec => PForSpec
  <1>1. Init => PForInit
    BY DEF Init
  <1> QED BY <1>1, LoopRefined, PTL DEF Spec, PForSpec

\* The shared allocator is only used by the calling thread, when no task is analysing.
THEOREM ArenaIsSerialHolds == Spec => []ArenaIsSerial
  <1>1. MergeInv => ArenaIsSerial
    <2> SUFFICES ASSUME MergeInv, arena # {}
                 PROVE  arena = {Main} /\ \A w \in Tasks : doing[w] = Idle
      BY DEF ArenaIsSerial
    <2>1. arena = {Main} /\ doing[Main].step \in {"alloc", "fill"}
      BY DEF MergeInv, BodyInv, OrderInv
    <2>2. caller = "returned"
      BY <2>1 DEF MergeInv, BodyInv, MainInv, Idle, Analysing, Finishing
    <2> QED BY <2>1, <2>2 DEF MergeInv, BodyInv, IInv, JoinIsComplete, TaskInv
  <1> QED BY <1>1, MergeInvariance, PTL

----------------------------------------------------------------------------
(* The refinement *)

LEMMA SerialInitHolds == Init => Serial!SerialInit
  BY DEF Init, Serial!SerialInit, Items, Serial!Items

\* A publication is one step of the serial linker, or its death.
LEMMA PublishIsSerial == ASSUME MergeInv, Publish PROVE Serial!SerialNext
  <1> DEFINE o == objs[finished]
  <1>1. /\ At(Main, "fill") /\ ~exited
        /\ globals' = globals \o staged[finished]
        /\ strings' = Serial!StringsWith(o, strings)
        /\ files' = Serial!FilesWith(finished, o, files)
        /\ fpo' = Serial!FpoWith(finished, o, fpo)
        /\ UNCHANGED objs
    BY DEF Publish, At
  <1>2. /\ finished \in Items /\ o.usable /\ o.readable
        /\ staged[finished] = Serial!Label(finished, o.globals)
    BY <1>1, Publishing
  <1>3. CASE Serial!EndsFinish(o)
    <2>1. exited' = TRUE /\ UNCHANGED finished
      BY <1>3 DEF Publish
    <2>2. finished \in Serial!Items /\ finished >= finished /\ Serial!Malformed(o)
      BY <1>2, <1>3, ItemFacts DEF Serial!Malformed, Items, Serial!Items
    <2>3. ~Serial!Publishes(o)
      BY <1>3 DEF Serial!EndsFinish, Serial!Publishes
    <2>4. UNCHANGED <<strings, files>>
      BY <1>1, <2>3 DEF Serial!StringsWith, Serial!FilesWith
    <2> QED BY <1>1, <1>2, <1>3, <2>1, <2>2, <2>4 DEF Serial!SerialNext, Serial!Die
  <1>4. CASE ~Serial!EndsFinish(o)
    <2>1. finished' = finished + 1 /\ UNCHANGED exited
      BY <1>4 DEF Publish
    <2>2. ~Serial!Malformed(o) /\ finished < NumItems
      BY <1>2, <1>4, ItemFacts DEF Serial!Malformed
    <2> QED BY <1>1, <1>2, <2>1, <2>2 DEF Serial!SerialNext, Serial!PublishNext
  <1> QED BY <1>3, <1>4

\* A thread that meets a section that does not parse ends the serial linker too; every
\* other step of the analysis is none of the serial linker.
LEMMA AnalysisIsSerial ==
  ASSUME MergeInv, NEW a \in Actors, Analyze(a)
  PROVE  [Serial!SerialNext]_(Serial!serialVars)
  <1>1. CASE ReadSections(a) /\ ~objs[doing[a].obj].readable
    <2> DEFINE i == doing[a].obj
    <2>1. Busy(a) /\ ~exited /\ doing[a].step = "read"
      BY <1>1 DEF ReadSections, At, Busy
    <2>2. i \in Items /\ i >= finished /\ objs[i].usable
      BY <2>1, BusyMode DEF Permitted, Object
    <2>3. i \in Serial!Items /\ Serial!Malformed(objs[i])
      BY <1>1, <2>2 DEF Serial!Malformed, Items, Serial!Items
    <2>4. exited' = TRUE /\ UNCHANGED <<objs, finished, strings, files, globals, fpo>>
      BY <1>1 DEF ReadSections, builders
    <2> QED BY <2>1, <2>2, <2>3, <2>4 DEF Serial!SerialNext, Serial!Die
  <1>2. CASE ~(ReadSections(a) /\ ~objs[doing[a].obj].readable)
    <2>1. UNCHANGED <<objs, finished, globals, strings, files, fpo, exited>>
      BY <1>2 DEF Analyze, ReadSections, SortRelocations, EndAllocate, StageGlobal, EndAnalyze,
                  LeaveBody, builders
    <2> QED BY <2>1 DEF Serial!serialVars
  <1> QED BY <1>1, <1>2

LEMMA StepIsSerial ==
  ASSUME MergeInv, [Next]_vars PROVE [Serial!SerialNext]_(Serial!serialVars)
  <1>1. CASE StartFinish
    <2>1. CASE objs[finished].usable
      BY <1>1, <2>1 DEF StartFinish, builders, Serial!serialVars
    <2>2. CASE ~objs[finished].usable
      BY <1>1, <2>2 DEF StartFinish, At, builders, Serial!SerialNext, Serial!PublishNext,
                        Serial!Malformed
    <2> QED BY <2>1, <2>2
  <1>2. CASE \/ UNCHANGED vars \/ LoopStep \/ SerialBegins \/ CopyRecords
             \/ \E w \in Tasks : TaskBegins(w)
    BY <1>2 DEF vars, pdbVars, LoopStep, SerialBegins, CopyRecords, TaskBegins, BeginAnalyze, builders,
                Serial!serialVars
  <1> QED BY <1>1, <1>2, PublishIsSerial, AnalysisIsSerial DEF Next

\* Whatever the scheduling, the shared builders are filled as by the serial linker.
THEOREM MergeImplementsSerial == Spec => ImplementsSerial
  <1>1. MergeInv /\ [Next]_vars => [Serial!SerialNext]_(Serial!serialVars)
    BY StepIsSerial
  <1> QED BY <1>1, SerialInitHolds, MergeInvariance, PTL
          DEF Spec, ImplementsSerial, Serial!SerialSpec

----------------------------------------------------------------------------
(* The two walks over the records of an object: PdbSymbols *)

Subsection == [recs : Seq(Kinds), corrupt : BOOLEAN]
PlaceOf == Nat \X Nat
Noted == [rec : PlaceOf, off : Nat]
WrittenRecord == [rec : PlaceOf, ptrEnd : Nat, ptrParent : Nat]

\* The record at <<i, j>> goes into the module stream.
InModule(S, i, j) == SymbolGoesInModuleStream(S[i].recs[j], Depth(S[i].recs, 1, j))

\* The records in the module stream ahead of <<i, j>>: those of earlier subsections that
\* can be read, and those before it in its own.
Before(S, i, j) ==
  {p \in Places :
     /\ p[1] \in DOMAIN S /\ p[2] \in DOMAIN S[p[1]].recs
     /\ InModule(S, p[1], p[2])
     /\ \/ p[1] < i /\ ~S[p[1]].corrupt
        \/ p[1] = i /\ p[2] < j}

Offset(S, i, j) == kSymbolStreamMagicSize + Cardinality(Before(S, i, j))

Good(S, i) == S[i].corrupt \/ Balanced(S[i].recs)
GoodBefore(S, i) == \A m \in DOMAIN S : m < i => Good(S, m)

WalkTypeOK ==
  /\ phase \in {"analyze", "write", "fixup", "done", "failed"}
  /\ subs \in Seq(Subsection)
  /\ Len(subs) \in 1..MaxSubsections
  /\ \A i \in DOMAIN subs : Len(subs[i].recs) <= MaxRecords
  /\ sub \in Nat \ {0} /\ next \in Nat \ {0}
  /\ scopeLevel \in Nat /\ symOffset \in Nat /\ symStart \in Nat
  /\ pendingGlobals \in Seq(Noted) /\ fixups \in Seq(Noted)
  /\ scopes \in Seq(Nat) /\ storage \in Seq(WrittenRecord) /\ stream \in Seq(WrittenRecord)

\* Where the walks are.
WhereInv ==
  /\ phase = "analyze" =>
       /\ sub = Len(subs) /\ next = Len(subs[sub].recs) + 1 /\ ~subs[sub].corrupt
       /\ scopes = <<>> /\ storage = <<>> /\ stream = <<>>
  /\ phase = "write" =>
       /\ sub <= Len(subs) + 1
       /\ sub <= Len(subs) => next <= Len(subs[sub].recs) + 1
       /\ sub > Len(subs) => storage = <<>> /\ scopes = <<>>

\* The first walk counts what is ahead, as long as scopes were balanced.
OffsetInv ==
  IF phase = "analyze"
    THEN /\ GoodBefore(subs, sub) => symStart = Offset(subs, sub, 1)
         /\ Balanced(subs[sub].recs) =>
              /\ scopeLevel = Depth(subs[sub].recs, 1, next - 1)
              /\ GoodBefore(subs, sub) => symOffset = Offset(subs, sub, next)
    ELSE WellFormed => symOffset = Offset(subs, Len(subs) + 1, 1)

\* The noted records are where they are said to be.
NotedRight(x) ==
  /\ x.rec \in Records
  /\ GoodBefore(subs, x.rec[1]) /\ Balanced(subs[x.rec[1]].recs)
       => x.off = Offset(subs, x.rec[1], x.rec[2])

PendingInv ==
  /\ \A i \in DOMAIN pendingGlobals : NotedRight(pendingGlobals[i])
  /\ \A i \in DOMAIN fixups : NotedRight(fixups[i]) /\ KindAt(fixups[i].rec) = "static"

\* What does not go into the module stream is staged.
KeptInv ==
  \A p \in Records : Balanced(subs[p[1]].recs) =>
    InModule(subs, p[1], p[2]) \/ \E i \in DOMAIN pendingGlobals : pendingGlobals[i].rec = p

\* Record p is in the stream as many places from its start as there are records ahead.
Rank(p) == Cardinality(Before(subs, p[1], p[2])) + 1

WalkReached == IF phase = "write" THEN sub ELSE Len(subs) + 1

StreamInv ==
  WellFormed /\ phase # "analyze" =>
    /\ Len(stream) = Cardinality(Before(subs, WalkReached, 1))
    /\ \A p \in Before(subs, WalkReached, 1) :
         Rank(p) \in DOMAIN stream /\ stream[Rank(p)].rec = p

StorageInv ==
  WellFormed /\ phase = "write" /\ sub <= Len(subs) /\ ~subs[sub].corrupt =>
    /\ Len(scopes) = Depth(subs[sub].recs, 1, next - 1)
    /\ Len(stream) + Len(storage) = Cardinality(Before(subs, sub, next))
    /\ \A p \in Before(subs, sub, next) : p[1] = sub =>
         /\ Rank(p) - Len(stream) \in DOMAIN storage
         /\ storage[Rank(p) - Len(stream)].rec = p

\* The scope opened at m has not ended at n.
Open(recs, m, n) == SymbolOpensScope(recs[m]) /\ \A j \in m..n : Depth(recs, m, j) > 0

\* The stack holds the scopes that are open, the innermost last.
Opener(k) == storage[scopes[k]].rec[2]

ScopeInv ==
  phase = "write" /\ sub <= Len(subs) =>
    /\ \A i \in DOMAIN storage :
         storage[i].rec[1] = sub /\ storage[i].rec[2] \in 1..(next - 1)
    /\ \A i, j \in DOMAIN storage : i < j => storage[i].rec[2] < storage[j].rec[2]
    /\ \A k \in DOMAIN scopes :
         /\ scopes[k] \in DOMAIN storage
         /\ Open(subs[sub].recs, Opener(k), next - 1)
         /\ Depth(subs[sub].recs, Opener(k), next - 1) = Len(scopes) - k + 1
    /\ \A k, l \in DOMAIN scopes : k < l => scopes[k] < scopes[l]
    /\ \A m \in 1..(next - 1) :
         Open(subs[sub].recs, m, next - 1) => \E k \in DOMAIN scopes : Opener(k) = m

\* Record p is at offset off of a sequence of records that starts at base.
WrittenIn(out, base, p, off) == off - base + 1 \in DOMAIN out /\ out[off - base + 1].rec = p

\* The scope of x, if it has one that ends by record n, is linked.
Ends(recs, m, n) == {j \in 1..n : SymbolOpensScope(recs[m]) /\ Closes(recs, m, j)}
Around(recs, m) == {k \in 1..(m - 1) : Open(recs, k, m)}

LinkRight(x, recs, n, out, base) ==
  /\ \A j \in Ends(recs, x.rec[2], n) : WrittenIn(out, base, <<x.rec[1], j>>, x.ptrEnd)
  /\ Ends(recs, x.rec[2], n) = {} => x.ptrEnd = NoOffset
  /\ Ends(recs, x.rec[2], n) # {} /\ Around(recs, x.rec[2]) = {} => x.ptrParent = NoOffset
  /\ Ends(recs, x.rec[2], n) # {} /\ Around(recs, x.rec[2]) # {} =>
       \E k \in Around(recs, x.rec[2]) :
         /\ \A l \in Around(recs, x.rec[2]) : l <= k
         /\ WrittenIn(out, base, <<x.rec[1], k>>, x.ptrParent)

StorageLinked(out, recs, n, base) == \A i \in DOMAIN out : LinkRight(out[i], recs, n, out, base)

StreamLinked(out, S) ==
  \A i \in DOMAIN out :
    LET recs == S[out[i].rec[1]].recs
    IN  LinkRight(out[i], recs, Len(recs), out, kSymbolStreamMagicSize)

LinksInv ==
  /\ \A i \in DOMAIN stream : stream[i].rec \in Records
  /\ StreamLinked(stream, subs)
  /\ phase = "write" /\ sub <= Len(subs) => StorageLinked(storage, subs[sub].recs, next - 1, Written)

WalkInv ==
  /\ WalkTypeOK /\ WhereInv /\ OffsetInv /\ PendingInv /\ KeptInv
  /\ StreamInv /\ StorageInv /\ ScopeInv /\ LinksInv

----------------------------------------------------------------------------
\* Depth is a sum over the records of a range.
LEMMA DepthParts ==
  ASSUME NEW recs, NEW i \in Int, NEW j \in Int
  PROVE  /\ IsFiniteSet({m \in i..j : SymbolOpensScope(recs[m])})
         /\ IsFiniteSet({m \in i..j : SymbolEndsScope(recs[m])})
         /\ Cardinality({m \in i..j : SymbolOpensScope(recs[m])}) \in Nat
         /\ Cardinality({m \in i..j : SymbolEndsScope(recs[m])}) \in Nat
         /\ Depth(recs, i, j) \in Int
  <1>1. IsFiniteSet(i..j)
    BY FS_Interval
  <1>2. {m \in i..j : SymbolOpensScope(recs[m])} \in SUBSET (i..j)
    OBVIOUS
  <1>3. {m \in i..j : SymbolEndsScope(recs[m])} \in SUBSET (i..j)
    OBVIOUS
  <1>4. IsFiniteSet({m \in i..j : SymbolOpensScope(recs[m])})
        /\ IsFiniteSet({m \in i..j : SymbolEndsScope(recs[m])})
    BY <1>1, <1>2, <1>3, FS_Subset
  <1>5. Cardinality({m \in i..j : SymbolOpensScope(recs[m])}) \in Nat
        /\ Cardinality({m \in i..j : SymbolEndsScope(recs[m])}) \in Nat
    BY <1>4, FS_CardinalityType
  <1> QED
    BY <1>4, <1>5 DEF Depth

LEMMA DepthSplit ==
  ASSUME NEW recs, NEW i \in Int, NEW j \in Int, NEW m \in Int, i <= m, m <= j + 1
  PROVE  Depth(recs, i, j) = Depth(recs, i, m - 1) + Depth(recs, m, j)
  <1> DEFINE opens(a, b) == {k \in a..b : SymbolOpensScope(recs[k])}
             ends(a, b) == {k \in a..b : SymbolEndsScope(recs[k])}
  <1>1. opens(i, j) = opens(i, m - 1) \cup opens(m, j) /\ opens(i, m - 1) \cap opens(m, j) = {}
    OBVIOUS
  <1>2. ends(i, j) = ends(i, m - 1) \cup ends(m, j) /\ ends(i, m - 1) \cap ends(m, j) = {}
    OBVIOUS
  <1>3. /\ IsFiniteSet(opens(i, m - 1)) /\ IsFiniteSet(opens(m, j))
        /\ IsFiniteSet(ends(i, m - 1)) /\ IsFiniteSet(ends(m, j))
        /\ Cardinality(opens(i, m - 1)) \in Nat /\ Cardinality(opens(m, j)) \in Nat
        /\ Cardinality(ends(i, m - 1)) \in Nat /\ Cardinality(ends(m, j)) \in Nat
    <2>1. m - 1 \in Int
      OBVIOUS
    <2>2. /\ IsFiniteSet(opens(i, m - 1)) /\ IsFiniteSet(ends(i, m - 1))
          /\ Cardinality(opens(i, m - 1)) \in Nat /\ Cardinality(ends(i, m - 1)) \in Nat
      BY <2>1, DepthParts
    <2>3. /\ IsFiniteSet(opens(m, j)) /\ IsFiniteSet(ends(m, j))
          /\ Cardinality(opens(m, j)) \in Nat /\ Cardinality(ends(m, j)) \in Nat
      BY DepthParts
    <2> QED
      BY <2>2, <2>3
  <1>4. /\ Depth(recs, i, j) = Cardinality(opens(i, j)) - Cardinality(ends(i, j))
        /\ Depth(recs, i, m - 1) = Cardinality(opens(i, m - 1)) - Cardinality(ends(i, m - 1))
        /\ Depth(recs, m, j) = Cardinality(opens(m, j)) - Cardinality(ends(m, j))
    BY DEF Depth
  <1> HIDE DEF opens, ends
  <1>5. Cardinality(opens(i, j)) = Cardinality(opens(i, m - 1)) + Cardinality(opens(m, j))
    <2>1. Cardinality(opens(i, j)) = Cardinality(opens(i, m - 1)) + Cardinality(opens(m, j))
            - Cardinality(opens(i, m - 1) \cap opens(m, j))
      BY <1>1, <1>3, FS_Union
    <2>2. Cardinality(opens(i, m - 1) \cap opens(m, j)) = 0
      BY <1>1, FS_EmptySet
    <2> QED
      BY <2>1, <2>2, <1>3
  <1>6. Cardinality(ends(i, j)) = Cardinality(ends(i, m - 1)) + Cardinality(ends(m, j))
    <2>1. Cardinality(ends(i, j)) = Cardinality(ends(i, m - 1)) + Cardinality(ends(m, j))
            - Cardinality(ends(i, m - 1) \cap ends(m, j))
      BY <1>2, <1>3, FS_Union
    <2>2. Cardinality(ends(i, m - 1) \cap ends(m, j)) = 0
      BY <1>2, FS_EmptySet
    <2> QED
      BY <2>1, <2>2, <1>3
  <1> QED
    BY <1>3, <1>4, <1>5, <1>6

\* What one record does to the depth.
LEMMA DepthOne ==
  ASSUME NEW recs, NEW i \in Int
  PROVE  /\ Depth(recs, i, i - 1) = 0
         /\ Depth(recs, i, i) = IF SymbolOpensScope(recs[i]) THEN 1
                                ELSE IF SymbolEndsScope(recs[i]) THEN -1 ELSE 0
  <1>1. /\ {m \in i..(i - 1) : SymbolOpensScope(recs[m])} = {}
        /\ {m \in i..(i - 1) : SymbolEndsScope(recs[m])} = {}
    OBVIOUS
  <1>2. Depth(recs, i, i - 1) = 0
    BY <1>1, FS_EmptySet DEF Depth
  <1>3. ~(SymbolOpensScope(recs[i]) /\ SymbolEndsScope(recs[i]))
    BY DEF SymbolOpensScope, SymbolEndsScope
  <1>4. {m \in i..i : SymbolOpensScope(recs[m])} = IF SymbolOpensScope(recs[i]) THEN {i} ELSE {}
    OBVIOUS
  <1>5. {m \in i..i : SymbolEndsScope(recs[m])} = IF SymbolEndsScope(recs[i]) THEN {i} ELSE {}
    OBVIOUS
  <1>6. Cardinality({i}) = 1 /\ Cardinality({}) = 0
    BY FS_EmptySet, FS_Singleton
  <1> QED
    BY <1>2, <1>3, <1>4, <1>5, <1>6 DEF Depth

LEMMA DepthNext ==
  ASSUME NEW recs, NEW i \in Int, NEW j \in Int, i <= j + 1
  PROVE  Depth(recs, i, j + 1) = Depth(recs, i, j)
           + (IF SymbolOpensScope(recs[j + 1]) THEN 1
              ELSE IF SymbolEndsScope(recs[j + 1]) THEN -1 ELSE 0)
  <1>1. Depth(recs, i, j + 1) = Depth(recs, i, (j + 1) - 1) + Depth(recs, j + 1, j + 1)
    BY DepthSplit
  <1>2. (j + 1) - 1 = j
    OBVIOUS
  <1> QED
    BY <1>1, <1>2, DepthOne

\* Depth looks at the records of its range only.
LEMMA DepthSame ==
  ASSUME NEW recs, NEW others, NEW i \in Int, NEW j \in Int,
         \A m \in i..j : recs[m] = others[m]
  PROVE  Depth(recs, i, j) = Depth(others, i, j)
  <1>1. {m \in i..j : SymbolOpensScope(recs[m])} = {m \in i..j : SymbolOpensScope(others[m])}
    OBVIOUS
  <1>2. {m \in i..j : SymbolEndsScope(recs[m])} = {m \in i..j : SymbolEndsScope(others[m])}
    OBVIOUS
  <1> QED
    BY <1>1, <1>2 DEF Depth

LEMMA DepthBounded ==
  ASSUME NEW recs, NEW n \in Nat
  PROVE  Depth(recs, 1, n) <= n
  <1>1. IsFiniteSet(1..n) /\ Cardinality(1..n) = n
    BY FS_Interval
  <1>2. {m \in 1..n : SymbolOpensScope(recs[m])} \in SUBSET (1..n)
    OBVIOUS
  <1>3. Cardinality({m \in 1..n : SymbolOpensScope(recs[m])}) <= n
    BY <1>1, <1>2, FS_Subset
  <1> QED
    BY <1>3, DepthParts DEF Depth

----------------------------------------------------------------------------
\* The records ahead of a place.
LEMMA BeforeFinite ==
  ASSUME NEW S, NEW i, NEW j
  PROVE  IsFiniteSet(Before(S, i, j)) /\ Cardinality(Before(S, i, j)) \in Nat
  <1>1. IsFiniteSet(1..MaxSubsections) /\ IsFiniteSet(1..MaxRecords)
    BY FS_Interval, BoundsAssumption
  <1>2. IsFiniteSet(Places)
    BY <1>1, FS_Product DEF Places
  <1>3. Before(S, i, j) \in SUBSET Places
    BY DEF Before
  <1>4. IsFiniteSet(Before(S, i, j))
    BY <1>2, <1>3, FS_Subset
  <1> QED
    BY <1>4, FS_CardinalityType

LEMMA OffsetType ==
  ASSUME NEW S, NEW i, NEW j
  PROVE  Offset(S, i, j) \in Nat
  BY BeforeFinite DEF Offset, kSymbolStreamMagicSize

LEMMA SubsectionFacts ==
  ASSUME NEW S \in Seq(Subsection), NEW i \in DOMAIN S
  PROVE  /\ i \in Nat /\ i >= 1 /\ i <= Len(S)
         /\ S[i] \in Subsection /\ S[i].recs \in Seq(Kinds) /\ S[i].corrupt \in BOOLEAN
         /\ DOMAIN S[i].recs = 1..Len(S[i].recs) /\ Len(S[i].recs) \in Nat
  <1>1. S[i] \in Subsection /\ i \in 1..Len(S)
    OBVIOUS
  <1>2. S[i].recs \in Seq(Kinds) /\ S[i].corrupt \in BOOLEAN
    BY <1>1 DEF Subsection
  <1> QED
    BY <1>1, <1>2

\* They do not depend on the records that follow.
LEMMA BeforeSame ==
  ASSUME NEW S \in Seq(Subsection), NEW T \in Seq(Subsection), NEW i \in Nat, NEW j \in Nat,
         \A m \in Nat : m < i =>
           /\ m \in DOMAIN S <=> m \in DOMAIN T
           /\ m \in DOMAIN S => S[m] = T[m],
         \A m \in Nat : m < j =>
           ((i \in DOMAIN S /\ m \in DOMAIN S[i].recs) <=> (i \in DOMAIN T /\ m \in DOMAIN T[i].recs)),
         i \in DOMAIN S /\ i \in DOMAIN T =>
           \A m \in DOMAIN S[i].recs : m < j => S[i].recs[m] = T[i].recs[m]
  PROVE  Before(S, i, j) = Before(T, i, j)
  <1>1. SUFFICES ASSUME NEW p \in Places
                 PROVE  p \in Before(S, i, j) <=> p \in Before(T, i, j)
    BY DEF Before
  <1>2. p[1] \in Nat /\ p[2] \in Nat
    BY BoundsAssumption DEF Places
  <1>3. CASE p[1] < i
    <2>1. (p[1] \in DOMAIN S <=> p[1] \in DOMAIN T) /\ (p[1] \in DOMAIN S => S[p[1]] = T[p[1]])
      BY <1>2, <1>3
    <2>2. p[1] # i
      BY <1>2, <1>3
    <2> QED
      BY <2>1, <2>2 DEF Before, InModule
  <1>4. CASE p[1] = i /\ p[2] < j
    <2>1. (p[1] \in DOMAIN S /\ p[2] \in DOMAIN S[p[1]].recs)
            <=> (p[1] \in DOMAIN T /\ p[2] \in DOMAIN T[p[1]].recs)
      BY <1>2, <1>4
    <2>2. ASSUME p[1] \in DOMAIN S, p[2] \in DOMAIN S[p[1]].recs
          PROVE  InModule(S, p[1], p[2]) <=> InModule(T, p[1], p[2])
      <3>1. S[i].recs \in Seq(Kinds) /\ T[i].recs \in Seq(Kinds)
        BY <2>1, <2>2, <1>4, SubsectionFacts
      <3>2. \A m \in 1..p[2] : m \in DOMAIN S[i].recs /\ m < j
        BY <2>2, <1>2, <1>4, <3>1
      <3>3. \A m \in 1..p[2] : S[i].recs[m] = T[i].recs[m]
        BY <3>2, <2>1, <2>2, <1>4
      <3>4. Depth(S[i].recs, 1, p[2]) = Depth(T[i].recs, 1, p[2])
        BY <3>3, <1>2, DepthSame
      <3>5. S[i].recs[p[2]] = T[i].recs[p[2]]
        BY <3>3, <2>2, <1>2, <3>1, <1>4
      <3> QED
        BY <3>4, <3>5, <1>4 DEF InModule
    <2> QED
      BY <2>1, <2>2, <1>4, <1>2 DEF Before
  <1> QED
    BY <1>3, <1>4 DEF Before

\* One record further.
LEMMA BeforeNext ==
  ASSUME NEW S, NEW i \in Nat, NEW j \in Nat, <<i, j>> \in Places,
         i \in DOMAIN S, j \in DOMAIN S[i].recs
  PROVE  /\ Before(S, i, j + 1) =
              IF InModule(S, i, j) THEN Before(S, i, j) \cup {<<i, j>>} ELSE Before(S, i, j)
         /\ <<i, j>> \notin Before(S, i, j)
         /\ Cardinality(Before(S, i, j + 1)) =
              Cardinality(Before(S, i, j)) + (IF InModule(S, i, j) THEN 1 ELSE 0)
  <1>1. \A p \in Places : p[1] \in Nat /\ p[2] \in Nat /\ p = <<p[1], p[2]>>
    BY BoundsAssumption DEF Places
  <1>2. <<i, j>> \notin Before(S, i, j)
    BY DEF Before
  <1>3. ASSUME NEW p \in Places
        PROVE  p \in Before(S, i, j + 1)
                 <=> p \in Before(S, i, j) \/ (p = <<i, j>> /\ InModule(S, i, j))
    <2>1. p[1] \in Nat /\ p[2] \in Nat /\ p = <<p[1], p[2]>>
      BY <1>1
    <2>2. p[2] < j + 1 <=> p[2] < j \/ p[2] = j
      BY <2>1
    <2>3. CASE p = <<i, j>>
      BY <2>3, <1>2 DEF Before
    <2>4. CASE p # <<i, j>>
      <3>1. p[1] = i => p[2] # j
        BY <2>4, <2>1
      <3> QED
        BY <3>1, <2>2, <2>4 DEF Before
    <2> QED
      BY <2>3, <2>4
  <1>4. Before(S, i, j) \subseteq Places /\ Before(S, i, j + 1) \subseteq Places
    BY DEF Before
  <1>5. Before(S, i, j + 1) =
          IF InModule(S, i, j) THEN Before(S, i, j) \cup {<<i, j>>} ELSE Before(S, i, j)
    <2>1. CASE InModule(S, i, j)
      BY <2>1, <1>3, <1>4
    <2>2. CASE ~InModule(S, i, j)
      BY <2>2, <1>3, <1>4
    <2> QED
      BY <2>1, <2>2
  <1>6. Cardinality(Before(S, i, j) \cup {<<i, j>>}) = Cardinality(Before(S, i, j)) + 1
    BY <1>2, BeforeFinite, FS_AddElement
  <1>7. Cardinality(Before(S, i, j)) \in Nat
    BY BeforeFinite
  <1> QED
    BY <1>2, <1>5, <1>6, <1>7

\* One subsection further.
LEMMA BeforeNextSubsection ==
  ASSUME NEW S \in Seq(Subsection), NEW i \in DOMAIN S
  PROVE  Before(S, i + 1, 1) =
           IF S[i].corrupt THEN Before(S, i, 1) ELSE Before(S, i, Len(S[i].recs) + 1)
  <1>1. \A p \in Places : p[1] \in Nat /\ p[2] \in Nat /\ p[2] >= 1
    BY BoundsAssumption DEF Places
  <1>2. i \in Nat /\ S[i] \in Subsection /\ S[i].recs \in Seq(Kinds)
    BY SubsectionFacts
  <1>3. SUFFICES ASSUME NEW p \in Places
                 PROVE  p \in Before(S, i + 1, 1) <=>
                          IF S[i].corrupt THEN p \in Before(S, i, 1)
                          ELSE p \in Before(S, i, Len(S[i].recs) + 1)
    BY DEF Before
  <1>4. p[1] \in Nat /\ p[2] \in Nat /\ p[2] >= 1
    BY <1>1
  <1>5. ~(p[2] < 1)
    BY <1>4
  <1>6. p[1] < i + 1 <=> p[1] < i \/ p[1] = i
    BY <1>4, <1>2
  <1>7. p[1] = i /\ p[2] \in DOMAIN S[p[1]].recs => p[2] < Len(S[i].recs) + 1
    BY <1>2, <1>4
  <1>8. p[1] < i => p[1] # i
    BY <1>4, <1>2
  <1> QED
    BY <1>5, <1>6, <1>7, <1>8 DEF Before

\* Balance is a matter of every prefix.
LEMMA BalancedAppend ==
  ASSUME NEW recs \in Seq(Kinds), NEW k \in Kinds, Balanced(Append(recs, k))
  PROVE  /\ Balanced(recs)
         /\ Depth(Append(recs, k), 1, Len(recs) + 1) >= 0
         /\ Depth(recs, 1, Len(recs)) >= 0
  <1> DEFINE longer == Append(recs, k)
  <1>1. /\ longer \in Seq(Kinds) /\ Len(longer) = Len(recs) + 1
        /\ \A m \in 1..Len(recs) : longer[m] = recs[m]
    OBVIOUS
  <1>2. \A j \in 1..Len(longer) : Depth(longer, 1, j) >= 0
    BY <1>1 DEF Balanced
  <1>3. ASSUME NEW j \in 1..Len(recs)
        PROVE  Depth(recs, 1, j) >= 0
    <2> HIDE DEF longer
    <2>1. Depth(recs, 1, j) = Depth(longer, 1, j)
      <3>1. \A m \in 1..j : recs[m] = longer[m]
        BY <1>1
      <3> QED
        BY <3>1, DepthSame
    <2> QED
      BY <2>1, <1>1, <1>2
  <1>4. Balanced(recs)
    BY <1>3 DEF Balanced
  <1>5. Depth(longer, 1, Len(recs) + 1) >= 0
    BY <1>1, <1>2
  <1>6. Depth(recs, 1, Len(recs)) >= 0
    <2>1. CASE Len(recs) = 0
      <3>1. Depth(recs, 1, 1 - 1) = 0
        BY DepthOne
      <3> QED
        BY <3>1, <2>1
    <2>2. CASE Len(recs) # 0
      BY <2>2, <1>3
    <2> QED
      BY <2>1, <2>2
  <1> QED
    BY <1>4, <1>5, <1>6

----------------------------------------------------------------------------
(* The first walk *)

\* At the start nothing is ahead.
LEMMA BeforeFirst ==
  ASSUME NEW S
  PROVE  Before(S, 1, 1) = {}
  <1>1. \A p \in Places : p[1] \in Nat /\ p[2] \in Nat /\ p[1] >= 1 /\ p[2] >= 1
    BY BoundsAssumption DEF Places
  <1>2. \A p \in Places : ~(p[1] < 1) /\ ~(p[2] < 1)
    BY <1>1
  <1> QED
    BY <1>2 DEF Before

LEMMA WalkInitInv == WalkInit => WalkInv
  <1> SUFFICES ASSUME WalkInit PROVE WalkInv
    OBVIOUS
  <1>1. /\ phase = "analyze" /\ subs = <<[recs |-> <<>>, corrupt |-> FALSE]>>
        /\ sub = 1 /\ next = 1 /\ scopeLevel = 0 /\ symOffset = 1 /\ symStart = 1
        /\ pendingGlobals = <<>> /\ fixups = <<>>
        /\ scopes = <<>> /\ storage = <<>> /\ stream = <<>>
    BY DEF WalkInit, kSymbolStreamMagicSize
  <1>2. [recs |-> <<>>, corrupt |-> FALSE] \in Subsection
    BY DEF Subsection
  <1>3. /\ subs \in Seq(Subsection) /\ Len(subs) = 1 /\ DOMAIN subs = {1}
        /\ subs[1].recs = <<>> /\ subs[1].corrupt = FALSE
    BY <1>1, <1>2
  <1>4. WalkTypeOK
    BY <1>1, <1>3, BoundsAssumption DEF WalkTypeOK
  <1>5. WhereInv
    BY <1>1, <1>3 DEF WhereInv
  <1>6. OffsetInv
    <2>1. Depth(subs[1].recs, 1, 1 - 1) = 0
      BY DepthOne
    <2>2. Offset(subs, 1, 1) = 1
      BY BeforeFirst, FS_EmptySet DEF Offset, kSymbolStreamMagicSize
    <2> QED
      BY <1>1, <2>1, <2>2 DEF OffsetInv
  <1>7. Records = {}
    BY <1>3 DEF Records
  <1>8. PendingInv /\ KeptInv
    BY <1>1, <1>7 DEF PendingInv, KeptInv
  <1>9. StreamInv /\ StorageInv /\ ScopeInv /\ LinksInv
    BY <1>1 DEF StreamInv, StorageInv, ScopeInv, LinksInv, StreamLinked, StorageLinked
  <1> QED
    BY <1>4, <1>5, <1>6, <1>8, <1>9 DEF WalkInv

\* T is S with one more record in subsection n.
Grown(S, T, n, k) ==
  /\ Len(T) = Len(S)
  /\ \A i \in DOMAIN S : i # n => T[i] = S[i]
  /\ T[n].recs = Append(S[n].recs, k)
  /\ T[n].corrupt = S[n].corrupt

LEMMA GrowKeeps ==
  ASSUME NEW S \in Seq(Subsection), NEW T \in Seq(Subsection), NEW n \in DOMAIN S, NEW k \in Kinds,
         Grown(S, T, n, k)
  PROVE  /\ \A i \in DOMAIN S : \A j \in DOMAIN S[i].recs :
              /\ j \in DOMAIN T[i].recs /\ T[i].recs[j] = S[i].recs[j]
              /\ InModule(T, i, j) <=> InModule(S, i, j)
         /\ \A i \in DOMAIN S : Balanced(T[i].recs) => Balanced(S[i].recs)
         /\ \A i \in 1..n : GoodBefore(T, i) <=> GoodBefore(S, i)
         /\ \A i \in 1..n : \A j \in Nat : (i = n => j <= Len(S[n].recs) + 1) =>
              Before(T, i, j) = Before(S, i, j)
  <1> USE DEF Grown
  <1>1. /\ \A i \in DOMAIN S : S[i].recs \in Seq(Kinds) /\ T[i].recs \in Seq(Kinds)
        /\ DOMAIN T = DOMAIN S /\ DOMAIN S = 1..Len(S) /\ n \in 1..Len(S) /\ n \in Nat
    <2>1. DOMAIN T = DOMAIN S /\ DOMAIN S = 1..Len(S)
      OBVIOUS
    <2> QED
      BY <2>1, SubsectionFacts
  <1>2. ASSUME NEW i \in DOMAIN S, NEW j \in DOMAIN S[i].recs
        PROVE  /\ j \in DOMAIN T[i].recs
               /\ \A m \in 1..j : T[i].recs[m] = S[i].recs[m]
    <2>1. CASE i # n
      BY <2>1
    <2>2. CASE i = n
      <3>1. PICK recs \in Seq(Kinds) : recs = S[i].recs /\ T[i].recs = Append(recs, k)
        BY <2>2, <1>1
      <3>2. Len(Append(recs, k)) = Len(recs) + 1 /\ \A m \in 1..Len(recs) : Append(recs, k)[m] = recs[m]
        BY <3>1, AppendProperties
      <3>3. j \in 1..Len(recs) /\ DOMAIN T[i].recs = 1..(Len(recs) + 1)
        BY <3>1, <3>2
      <3>4. \A m \in 1..j : m \in 1..Len(recs)
        BY <3>3
      <3> QED
        BY <3>1, <3>2, <3>3, <3>4
    <2> QED
      BY <2>1, <2>2
  <1>3. ASSUME NEW i \in DOMAIN S, NEW j \in DOMAIN S[i].recs
        PROVE  /\ j \in DOMAIN T[i].recs /\ T[i].recs[j] = S[i].recs[j]
               /\ InModule(T, i, j) <=> InModule(S, i, j)
    <2>1. j \in Int /\ j \in 1..j
      BY <1>1
    <2>2. Depth(T[i].recs, 1, j) = Depth(S[i].recs, 1, j)
      <3>1. \A m \in 1..j : T[i].recs[m] = S[i].recs[m]
        BY <1>2
      <3> QED
        BY <3>1, <2>1, DepthSame
    <2> QED
      BY <1>2, <2>1, <2>2 DEF InModule
  <1>4. ASSUME NEW i \in DOMAIN S, Balanced(T[i].recs)
        PROVE  Balanced(S[i].recs)
    <2>1. CASE i # n
      BY <2>1, <1>4
    <2>2. CASE i = n
      <3>1. PICK recs \in Seq(Kinds) : recs = S[i].recs /\ T[i].recs = Append(recs, k)
        BY <2>2, <1>1
      <3>2. Balanced(Append(recs, k))
        BY <3>1, <1>4, Zenon
      <3>3. Balanced(recs)
        BY <3>2, BalancedAppend, Zenon
      <3> QED
        BY <3>1, <3>3, Zenon
    <2> QED
      BY <2>1, <2>2
  <1>5. ASSUME NEW i \in 1..n
        PROVE  GoodBefore(T, i) <=> GoodBefore(S, i)
    <2>1. \A m \in DOMAIN S : m < i => T[m] = S[m]
      BY <1>1
    <2> QED
      BY <2>1, <1>1 DEF GoodBefore, Good
  <1>6. ASSUME NEW i \in 1..n, NEW j \in Nat, i = n => j <= Len(S[n].recs) + 1
        PROVE  Before(T, i, j) = Before(S, i, j)
    <2>1. i \in DOMAIN S /\ i \in DOMAIN T /\ i \in Nat
      BY <1>1
    <2>2. \A m \in Nat : m < i => (m \in DOMAIN S <=> m \in DOMAIN T) /\ (m \in DOMAIN S => S[m] = T[m])
      BY <1>1
    <2>3. \A m \in Nat : m < j => (m \in DOMAIN S[i].recs <=> m \in DOMAIN T[i].recs)
      <3>1. CASE i # n
        BY <3>1, <2>1
      <3>2. CASE i = n
        <4>1. /\ DOMAIN S[n].recs = 1..Len(S[n].recs) /\ Len(S[n].recs) \in Nat
              /\ DOMAIN T[n].recs = 1..(Len(S[n].recs) + 1)
          BY <1>1
        <4> QED
          BY <4>1, <1>6, <3>2
      <3> QED
        BY <3>1, <3>2
    <2>4. \A m \in DOMAIN S[i].recs : S[i].recs[m] = T[i].recs[m]
      BY <1>3, <2>1
    <2> QED
      BY <2>1, <2>2, <2>3, <2>4, BeforeSame
  <1> QED
    BY <1>3, <1>4, <1>5, <1>6

\* While there is room for records the subsection being read has room.
LEMMA RoomLeft ==
  ASSUME WalkTypeOK, phase = "analyze", WhereInv, Cardinality(Records) < MaxRecords
  PROVE  Len(subs[sub].recs) < MaxRecords
  <1>1. sub \in DOMAIN subs /\ sub \in 1..MaxSubsections
    BY DEF WalkTypeOK, WhereInv
  <1>2. /\ subs[sub].recs \in Seq(Kinds) /\ Len(subs[sub].recs) \in Nat
        /\ DOMAIN subs[sub].recs = 1..Len(subs[sub].recs) /\ Len(subs[sub].recs) <= MaxRecords
    BY <1>1, SubsectionFacts DEF WalkTypeOK
  <1>3. SUFFICES ASSUME Len(subs[sub].recs) = MaxRecords
                 PROVE  FALSE
    BY <1>2, BoundsAssumption
  <1> DEFINE f == [m \in 1..MaxRecords |-> <<sub, m>>]
  <1>4. f \in Injection(1..MaxRecords, Records)
    <2>1. \A m \in 1..MaxRecords : <<sub, m>> \in Records
      BY <1>1, <1>2, <1>3 DEF Records, Places
    <2>2. f \in [1..MaxRecords -> Records]
      BY <2>1
    <2>3. \A a, b \in 1..MaxRecords : f[a] = f[b] => a = b
      OBVIOUS
    <2> QED
      BY <2>2, <2>3 DEF Injection, IsInjective
  <1>5. IsFiniteSet(Records)
    <2>1. IsFiniteSet(1..MaxSubsections) /\ IsFiniteSet(1..MaxRecords)
      BY FS_Interval, BoundsAssumption
    <2>2. IsFiniteSet(Places)
      BY <2>1, FS_Product DEF Places
    <2>3. Records \in SUBSET Places
      BY DEF Records
    <2> QED
      BY <2>2, <2>3, FS_Subset
  <1>6. Cardinality(1..MaxRecords) = MaxRecords
    BY FS_Interval, BoundsAssumption
  <1>7. Cardinality(1..MaxRecords) <= Cardinality(Records)
    BY <1>4, <1>5, FS_Injection
  <1>8. Cardinality(Records) \in Nat
    BY <1>5, FS_CardinalityType
  <1> QED
    BY <1>6, <1>7, <1>8, BoundsAssumption

\* scopeLevel does not wrap while it stays below its modulus and scopes are balanced.
LEMMA TrackFacts ==
  ASSUME NEW level \in Nat, NEW k \in Kinds
  PROVE  /\ Track(level, k) \in Nat
         /\ level + 1 < DepthModulus /\ SymbolOpensScope(k) => Track(level, k) = level + 1
         /\ level >= 1 /\ level < DepthModulus /\ SymbolEndsScope(k) => Track(level, k) = level - 1
         /\ ~SymbolOpensScope(k) /\ ~SymbolEndsScope(k) => Track(level, k) = level
  <1>1. DepthModulus \in Nat /\ DepthModulus > 0
    BY BoundsAssumption
  <1>2. \A a, b \in Nat : b > 0 => a % b \in Nat
    OBVIOUS
  <1>3. \A a, b \in Nat : a < b => a % b = a
    OBVIOUS
  <1>4. \A a, b \in Nat : a < b => (a + b) % b = a
    OBVIOUS
  <1>5. ~(SymbolOpensScope(k) /\ SymbolEndsScope(k))
    BY DEF SymbolOpensScope, SymbolEndsScope
  <1>6. level + 1 \in Nat /\ level + DepthModulus - 1 \in Nat
    BY <1>1
  <1>7. (level + 1) % DepthModulus \in Nat /\ (level + DepthModulus - 1) % DepthModulus \in Nat
    BY <1>1, <1>2, <1>6
  <1>8. level + 1 < DepthModulus => (level + 1) % DepthModulus = level + 1
    BY <1>1, <1>3, <1>6
  <1>9. level >= 1 /\ level < DepthModulus => (level + DepthModulus - 1) % DepthModulus = level - 1
    <2>1. SUFFICES ASSUME level >= 1, level < DepthModulus
                   PROVE  (level + DepthModulus - 1) % DepthModulus = level - 1
      OBVIOUS
    <2>2. level - 1 \in Nat /\ level - 1 < DepthModulus
          /\ level + DepthModulus - 1 = (level - 1) + DepthModulus
      BY <1>1, <2>1
    <2> QED
      BY <1>1, <1>4, <2>2
  <1> QED
    BY <1>5, <1>7, <1>8, <1>9 DEF Track

\* What is known of the first walk at the record it meets.
LEMMA AnalyzeRecordFacts ==
  ASSUME WalkInv, NEW k \in Kinds, AnalyzeRecord(k)
  PROVE  /\ subs' \in Seq(Subsection) /\ Len(subs') = Len(subs) /\ DOMAIN subs' = DOMAIN subs
         /\ \A i \in DOMAIN subs : i # sub => subs'[i] = subs[i]
         /\ subs'[sub].recs = Append(subs[sub].recs, k) /\ subs'[sub].corrupt = subs[sub].corrupt
         /\ sub \in DOMAIN subs /\ sub = Len(subs) /\ subs[sub].recs \in Seq(Kinds)
         /\ next = Len(subs[sub].recs) + 1 /\ next <= MaxRecords
         /\ <<sub, next>> \in Places
         /\ Records' = Records \cup {<<sub, next>>}
         /\ phase = "analyze" /\ phase' = "analyze" /\ sub' = sub /\ next' = next + 1
         /\ scopes' = <<>> /\ storage' = <<>> /\ stream' = <<>>
  <1>1. WalkTypeOK /\ WhereInv
    BY DEF WalkInv
  <1>2. /\ phase = "analyze" /\ Cardinality(Records) < MaxRecords
        /\ subs' = [subs EXCEPT ![sub].recs = Append(@, k)]
        /\ phase' = phase /\ sub' = sub /\ next' = next + 1
        /\ scopes' = scopes /\ storage' = storage /\ stream' = stream
    BY DEF AnalyzeRecord, VisitRecord, writing
  <1>3. /\ subs \in Seq(Subsection) /\ sub = Len(subs) /\ next = Len(subs[sub].recs) + 1
        /\ sub \in DOMAIN subs /\ sub \in 1..MaxSubsections
        /\ scopes = <<>> /\ storage = <<>> /\ stream = <<>>
    BY <1>1, <1>2 DEF WalkTypeOK, WhereInv
  <1>4. /\ subs' \in Seq(Subsection) /\ Len(subs') = Len(subs) /\ DOMAIN subs' = DOMAIN subs
        /\ \A i \in DOMAIN subs : i # sub => subs'[i] = subs[i]
        /\ subs'[sub].recs = Append(subs[sub].recs, k) /\ subs'[sub].corrupt = subs[sub].corrupt
    <2>1. subs' = [subs EXCEPT ![sub] = [subs[sub] EXCEPT !.recs = Append(subs[sub].recs, k)]]
      BY <1>2
    <2>2. PICK S \in Seq(Subsection) : S = subs
      BY <1>3
    <2>3. PICK T : T = subs'
      OBVIOUS
    <2>4. PICK n \in DOMAIN S : n = sub
      BY <1>3, <2>2
    <2>5. S[n] \in Subsection /\ S[n].recs \in Seq(Kinds)
      BY SubsectionFacts
    <2>6. PICK longer \in Seq(Kinds) : longer = Append(S[n].recs, k)
      BY <2>5, AppendProperties, Zenon
    <2>7. PICK x : x = [S[n] EXCEPT !.recs = longer]
      OBVIOUS
    <2>8. x \in Subsection /\ x.recs = longer /\ x.corrupt = S[n].corrupt
      BY <2>5, <2>7 DEF Subsection
    <2>9. T = [S EXCEPT ![n] = x]
      BY <2>1, <2>2, <2>3, <2>4, <2>6, <2>7
    <2>10. /\ T \in Seq(Subsection) /\ Len(T) = Len(S) /\ DOMAIN T = DOMAIN S
           /\ T[n] = x /\ \A i \in DOMAIN S : i # n => T[i] = S[i]
      BY <2>8, <2>9
    <2> QED
      BY <2>2, <2>3, <2>4, <2>6, <2>8, <2>10
  <1>5. subs[sub].recs \in Seq(Kinds) /\ Len(subs[sub].recs) \in Nat
    BY <1>3, SubsectionFacts
  <1>6. next <= MaxRecords
    <2>1. Len(subs[sub].recs) < MaxRecords
      BY <1>1, <1>2, RoomLeft
    <2> QED
      BY <2>1, <1>3, <1>5, BoundsAssumption
  <1>7. <<sub, next>> \in Places
    BY <1>3, <1>5, <1>6, BoundsAssumption DEF Places
  <1>8. ASSUME NEW p \in Places
        PROVE  p \in Records' <=> p \in Records \/ p = <<sub, next>>
    <2>1. p = <<p[1], p[2]>> /\ p[1] \in Nat /\ p[2] \in Nat /\ p[2] >= 1
      BY BoundsAssumption DEF Places
    <2>2. CASE p[1] # sub
      BY <2>1, <2>2, <1>4 DEF Records
    <2>3. CASE p[1] = sub
      <3>1. DOMAIN subs'[sub].recs = 1..next /\ DOMAIN subs[sub].recs = 1..(next - 1)
        BY <1>3, <1>4, <1>5
      <3>2. p \in Records' <=> p[2] \in 1..next
        BY <3>1, <2>3, <1>3, <1>4 DEF Records
      <3>3. p \in Records <=> p[2] \in 1..(next - 1)
        BY <3>1, <2>3, <1>3 DEF Records
      <3>4. p = <<sub, next>> <=> p[2] = next
        BY <2>1, <2>3
      <3> QED
        BY <3>2, <3>3, <3>4, <2>1, <1>3, <1>5
    <2> QED
      BY <2>2, <2>3
  <1>9. Records' = Records \cup {<<sub, next>>}
    <2>1. Records \subseteq Places /\ Records' \subseteq Places
      BY DEF Records
    <2> QED
      BY <2>1, <1>7, <1>8
  <1> QED
    BY <1>2, <1>3, <1>4, <1>5, <1>6, <1>7, <1>9

\* The depth and the place in the stream of the record that is met.
LEMMA AnalyzeRecordDepth ==
  ASSUME WalkInv, NEW k \in Kinds, AnalyzeRecord(k), Balanced(subs'[sub].recs)
  PROVE  /\ Balanced(subs[sub].recs)
         /\ scopeLevel' = Depth(subs'[sub].recs, 1, next)
         /\ scopeLevel' = Track(scopeLevel, k)
         /\ subs'[sub].recs[next] = k
  <1>1. WalkTypeOK /\ WhereInv /\ OffsetInv
    BY DEF WalkInv
  <1>2. /\ subs'[sub].recs = Append(subs[sub].recs, k) /\ sub \in DOMAIN subs
        /\ subs[sub].recs \in Seq(Kinds) /\ next = Len(subs[sub].recs) + 1 /\ next <= MaxRecords
        /\ phase = "analyze"
    BY AnalyzeRecordFacts
  <1>3. scopeLevel' = Track(scopeLevel, k)
    BY DEF AnalyzeRecord, VisitRecord
  <1>4. PICK recs \in Seq(Kinds) : recs = subs[sub].recs
    BY <1>2
  <1>5. PICK longer \in Seq(Kinds) : longer = subs'[sub].recs
    BY <1>2, <1>4, AppendProperties, Zenon
  <1>6. /\ longer = Append(recs, k) /\ Len(recs) \in Nat /\ next = Len(recs) + 1 /\ next - 1 = Len(recs)
        /\ longer[next] = k /\ \A m \in 1..Len(recs) : longer[m] = recs[m]
    BY <1>2, <1>4, <1>5
  <1>7. /\ Balanced(recs) /\ Depth(longer, 1, next) >= 0 /\ Depth(recs, 1, next - 1) >= 0
    BY <1>5, <1>6, BalancedAppend
  <1>8. scopeLevel = Depth(recs, 1, next - 1)
    BY <1>1, <1>2, <1>4, <1>7 DEF OffsetInv
  <1>9. Depth(longer, 1, next - 1) = Depth(recs, 1, next - 1)
    <2>1. next - 1 \in Int /\ \A m \in 1..(next - 1) : longer[m] = recs[m]
      BY <1>6
    <2> QED
      BY <2>1, DepthSame
  <1>10. Depth(longer, 1, next) = Depth(longer, 1, next - 1)
           + (IF SymbolOpensScope(k) THEN 1 ELSE IF SymbolEndsScope(k) THEN -1 ELSE 0)
    <2>1. next - 1 \in Int /\ 1 <= (next - 1) + 1 /\ (next - 1) + 1 = next
      BY <1>6
    <2>2. Depth(longer, 1, (next - 1) + 1) = Depth(longer, 1, next - 1)
            + (IF SymbolOpensScope(longer[(next - 1) + 1]) THEN 1
               ELSE IF SymbolEndsScope(longer[(next - 1) + 1]) THEN -1 ELSE 0)
      BY <2>1, DepthNext
    <2> QED
      BY <2>1, <2>2, <1>6
  <1>11. scopeLevel \in Nat /\ scopeLevel + 1 < DepthModulus
    <2>1. Depth(recs, 1, Len(recs)) <= Len(recs)
      BY <1>6, DepthBounded
    <2>2. scopeLevel \in Nat
      BY <1>1 DEF WalkTypeOK
    <2> QED
      BY <2>1, <2>2, <1>2, <1>6, <1>8, BoundsAssumption
  <1>12. Track(scopeLevel, k) = Depth(longer, 1, next)
    <2>1. CASE SymbolOpensScope(k)
      BY <2>1, <1>8, <1>9, <1>10, <1>11, TrackFacts
    <2>2. CASE SymbolEndsScope(k)
      <3>1. ~SymbolOpensScope(k)
        BY <2>2 DEF SymbolEndsScope, SymbolOpensScope
      <3>2. scopeLevel >= 1 /\ Depth(longer, 1, next) = scopeLevel - 1
        BY <3>1, <2>2, <1>7, <1>8, <1>9, <1>10, <1>11
      <3> QED
        BY <3>2, <2>2, <1>11, TrackFacts, BoundsAssumption
    <2>3. CASE ~SymbolOpensScope(k) /\ ~SymbolEndsScope(k)
      BY <2>3, <1>8, <1>9, <1>10, <1>11, TrackFacts
    <2> QED
      BY <2>1, <2>2, <2>3
  <1> QED
    BY <1>3, <1>4, <1>5, <1>6, <1>7, <1>12

LEMMA AnalyzeRecordInv ==
  ASSUME WalkInv, NEW k \in Kinds, AnalyzeRecord(k)
  PROVE  WalkInv'
  <1>a. PICK here : here = [rec |-> <<sub, next>>, off |-> symOffset]
    OBVIOUS
  <1>b. PICK depth : depth = Track(scopeLevel, k)
    OBVIOUS
  <1>1. WalkTypeOK /\ WhereInv /\ OffsetInv /\ PendingInv /\ KeptInv
    BY DEF WalkInv
  <1>2. /\ subs \in Seq(Subsection) /\ subs' \in Seq(Subsection)
        /\ Len(subs') = Len(subs) /\ DOMAIN subs' = DOMAIN subs
        /\ \A i \in DOMAIN subs : i # sub => subs'[i] = subs[i]
        /\ subs'[sub].recs = Append(subs[sub].recs, k) /\ subs'[sub].corrupt = subs[sub].corrupt
        /\ sub \in DOMAIN subs /\ sub = Len(subs) /\ sub \in Nat /\ subs[sub].recs \in Seq(Kinds)
        /\ next = Len(subs[sub].recs) + 1 /\ next <= MaxRecords /\ next \in Nat
        /\ <<sub, next>> \in Places
        /\ phase = "analyze" /\ phase' = "analyze" /\ sub' = sub /\ next' = next + 1
        /\ scopes' = <<>> /\ storage' = <<>> /\ stream' = <<>>
    BY <1>1, AnalyzeRecordFacts DEF WalkTypeOK
  <1>3. Records' = Records \cup {<<sub, next>>}
    BY AnalyzeRecordFacts
  <1>4. /\ scopeLevel' = depth /\ symStart' = symStart
        /\ pendingGlobals' = IF SymbolGoesInGlobalsStream(k, depth)
                               THEN Append(pendingGlobals, here) ELSE pendingGlobals
        /\ symOffset' = IF SymbolGoesInModuleStream(k, depth) THEN symOffset + 1 ELSE symOffset
        /\ fixups' = IF SymbolGoesInModuleStream(k, depth) /\ k = "static"
                       THEN Append(fixups, here) ELSE fixups
    BY <1>a, <1>b DEF AnalyzeRecord, VisitRecord, Place
  <1>5. here \in Noted
    BY <1>a, <1>1, <1>2 DEF WalkTypeOK, Noted, PlaceOf
  <1>6. /\ subs'[sub].recs \in Seq(Kinds) /\ Len(subs'[sub].recs) = next
        /\ subs'[sub].recs[next] = k
    BY <1>2
  <1>7. /\ pendingGlobals \in Seq(Noted) /\ fixups \in Seq(Noted)
        /\ scopeLevel \in Nat /\ symOffset \in Nat /\ symStart \in Nat
        /\ \A i \in DOMAIN subs : Len(subs[i].recs) <= MaxRecords
    BY <1>1 DEF WalkTypeOK
  <1>8. WalkTypeOK'
    <2>1. \A i \in DOMAIN subs' : Len(subs'[i].recs) <= MaxRecords
      BY <1>2, <1>6, <1>7
    <2>2. pendingGlobals' \in Seq(Noted) /\ fixups' \in Seq(Noted)
      BY <1>4, <1>5, <1>7
    <2>3. scopeLevel' \in Nat
      BY <1>4, <1>7, <1>b, TrackFacts
    <2>4. symOffset' \in Nat /\ symStart' \in Nat
      BY <1>4, <1>7
    <2>5. sub' \in Nat \ {0} /\ next' \in Nat \ {0} /\ Len(subs') \in 1..MaxSubsections
      BY <1>1, <1>2 DEF WalkTypeOK
    <2>6. /\ scopes' \in Seq(Nat) /\ storage' \in Seq(WrittenRecord) /\ stream' \in Seq(WrittenRecord)
      BY <1>2
    <2> QED
      BY <2>1, <2>2, <2>3, <2>4, <2>5, <2>6, <1>2 DEF WalkTypeOK
  <1>9. WhereInv'
    <2>1. ~subs[sub].corrupt
      BY <1>1, <1>2 DEF WhereInv
    <2> QED
      BY <2>1, <1>2, <1>6 DEF WhereInv
  <1>10. /\ \A i \in DOMAIN subs : \A j \in DOMAIN subs[i].recs :
              /\ j \in DOMAIN subs'[i].recs /\ subs'[i].recs[j] = subs[i].recs[j]
              /\ InModule(subs', i, j) <=> InModule(subs, i, j)
         /\ \A i \in DOMAIN subs : Balanced(subs'[i].recs) => Balanced(subs[i].recs)
         /\ \A i \in 1..sub : GoodBefore(subs', i) <=> GoodBefore(subs, i)
         /\ \A i \in 1..sub : \A j \in Nat : (i = sub => j <= Len(subs[sub].recs) + 1) =>
              Before(subs', i, j) = Before(subs, i, j)
    <2>1. PICK S \in Seq(Subsection) : S = subs
      BY <1>2
    <2>2. PICK T \in Seq(Subsection) : T = subs'
      BY <1>2
    <2>3. PICK n \in DOMAIN S : n = sub
      BY <1>2, <2>1
    <2>4. Grown(S, T, n, k)
      BY <1>2, <2>1, <2>2, <2>3 DEF Grown
    <2>5. /\ \A i \in DOMAIN S : \A j \in DOMAIN S[i].recs :
               /\ j \in DOMAIN T[i].recs /\ T[i].recs[j] = S[i].recs[j]
               /\ InModule(T, i, j) <=> InModule(S, i, j)
          /\ \A i \in DOMAIN S : Balanced(T[i].recs) => Balanced(S[i].recs)
          /\ \A i \in 1..n : GoodBefore(T, i) <=> GoodBefore(S, i)
          /\ \A i \in 1..n : \A j \in Nat : (i = n => j <= Len(S[n].recs) + 1) =>
               Before(T, i, j) = Before(S, i, j)
      BY <2>4, GrowKeeps
    <2> QED
      BY <2>1, <2>2, <2>3, <2>5
  <1>11. sub \in 1..sub /\ 1 <= Len(subs[sub].recs) + 1 /\ next <= Len(subs[sub].recs) + 1
    BY <1>2
  <1>12. ASSUME Balanced(subs'[sub].recs)
         PROVE  /\ Balanced(subs[sub].recs)
                /\ scopeLevel' = Depth(subs'[sub].recs, 1, next)
                /\ InModule(subs', sub, next) <=> SymbolGoesInModuleStream(k, depth)
                /\ GoodBefore(subs, sub) => symOffset = Offset(subs', sub, next)
    <2>1. /\ Balanced(subs[sub].recs)
          /\ scopeLevel' = Depth(subs'[sub].recs, 1, next)
      BY <1>12, AnalyzeRecordDepth
    <2>2. InModule(subs', sub, next) <=> SymbolGoesInModuleStream(k, depth)
      BY <2>1, <1>4, <1>6 DEF InModule
    <2>3. Before(subs', sub, next) = Before(subs, sub, next)
      BY <1>2, <1>10, <1>11
    <2>4. GoodBefore(subs, sub) => symOffset = Offset(subs, sub, next)
      BY <2>1, <1>1, <1>2 DEF OffsetInv
    <2> QED
      BY <2>1, <2>2, <2>3, <2>4 DEF Offset
  <1>13. OffsetInv'
    <2>1. GoodBefore(subs', sub) => symStart' = Offset(subs', sub, 1)
      <3>1. GoodBefore(subs', sub) => symStart = Offset(subs, sub, 1)
        BY <1>1, <1>2, <1>10, <1>11 DEF OffsetInv
      <3>2. Before(subs', sub, 1) = Before(subs, sub, 1)
        BY <1>10, <1>11
      <3> QED
        BY <3>1, <3>2, <1>4 DEF Offset
    <2>2. ASSUME Balanced(subs'[sub].recs)
          PROVE  /\ scopeLevel' = Depth(subs'[sub].recs, 1, (next + 1) - 1)
                 /\ GoodBefore(subs', sub) => symOffset' = Offset(subs', sub, next + 1)
      <3>1. (next + 1) - 1 = next
        BY <1>2
      <3>2. ASSUME GoodBefore(subs', sub)
            PROVE  symOffset' = Offset(subs', sub, next + 1)
        <4>1. symOffset = Offset(subs', sub, next)
          BY <3>2, <2>2, <1>10, <1>11, <1>12
        <4>2. next \in DOMAIN subs'[sub].recs /\ sub \in DOMAIN subs'
          BY <1>2, <1>6
        <4>3. Cardinality(Before(subs', sub, next + 1)) =
                Cardinality(Before(subs', sub, next)) + (IF InModule(subs', sub, next) THEN 1 ELSE 0)
          BY <4>2, <1>2, BeforeNext
        <4>4. Cardinality(Before(subs', sub, next)) \in Nat
          BY BeforeFinite
        <4> QED
          BY <4>1, <4>3, <4>4, <2>2, <1>4, <1>12 DEF Offset, kSymbolStreamMagicSize
      <3> QED
        BY <3>1, <3>2, <2>2, <1>12
    <2> QED
      BY <2>1, <2>2, <1>2 DEF OffsetInv
  <1>14. ASSUME NEW x, NotedRight(x)
         PROVE  NotedRight(x)' /\ KindAt(x.rec)' = KindAt(x.rec)
    <2>1. x.rec \in Records
      BY <1>14 DEF NotedRight
    <2>a. PICK i \in DOMAIN subs : x.rec[1] = i /\ x.rec[2] \in DOMAIN subs[i].recs
      BY <2>1 DEF Records
    <2>b. PICK j \in DOMAIN subs[i].recs : x.rec[2] = j
      BY <2>a
    <2>2. x.rec[1] = i /\ x.rec[2] = j
      BY <2>a, <2>b
    <2>3. i \in 1..sub /\ j \in Nat /\ (i = sub => j <= Len(subs[sub].recs) + 1)
      BY <1>2, SubsectionFacts
    <2>4. Before(subs', i, j) = Before(subs, i, j)
      BY <2>3, <1>10
    <2>5. GoodBefore(subs', i) /\ Balanced(subs'[i].recs) => GoodBefore(subs, i) /\ Balanced(subs[i].recs)
      BY <2>3, <1>10
    <2>6. GoodBefore(subs, i) /\ Balanced(subs[i].recs) => x.off = Offset(subs, i, j)
      BY <1>14, <2>2 DEF NotedRight
    <2>7. GoodBefore(subs', i) /\ Balanced(subs'[i].recs) => x.off = Offset(subs', i, j)
      BY <2>4, <2>5, <2>6 DEF Offset
    <2>8. x.rec \in Records'
      BY <2>1, <1>3
    <2>9. subs'[i].recs[j] = subs[i].recs[j]
      BY <1>10
    <2> QED
      BY <2>2, <2>7, <2>8, <2>9 DEF NotedRight, KindAt
  <1>15. NotedRight(here)' /\ KindAt(here.rec)' = k
    <2>1. here.rec = <<sub, next>> /\ here.off = symOffset /\ here.rec[1] = sub /\ here.rec[2] = next
      BY <1>a
    <2>2. GoodBefore(subs', sub) /\ Balanced(subs'[sub].recs) => symOffset = Offset(subs', sub, next)
      BY <1>10, <1>11, <1>12
    <2>3. <<sub, next>> \in Records'
      BY <1>3
    <2> QED
      BY <2>1, <2>2, <2>3, <1>6 DEF NotedRight, KindAt
  <1>16. PendingInv'
    <2>1. \A i \in DOMAIN pendingGlobals : NotedRight(pendingGlobals[i])
      BY <1>1 DEF PendingInv
    <2>2. \A i \in DOMAIN fixups : NotedRight(fixups[i]) /\ KindAt(fixups[i].rec) = "static"
      BY <1>1 DEF PendingInv
    <2>3. ASSUME NEW i \in DOMAIN pendingGlobals'
          PROVE  NotedRight(pendingGlobals[i])'
      <3>1. CASE i \in DOMAIN pendingGlobals
        <4>1. PICK x : x = pendingGlobals[i]
          OBVIOUS
        <4>2. pendingGlobals'[i] = x
          BY <4>1, <3>1, <1>4, <1>7
        <4>3. NotedRight(x)
          BY <4>1, <3>1, <2>1
        <4>4. NotedRight(x)'
          BY <4>3, <1>14
        <4> QED
          BY <4>2, <4>4 DEF NotedRight
      <3>2. CASE i \notin DOMAIN pendingGlobals
        <4>1. pendingGlobals'[i] = here
          BY <3>2, <1>4, <1>5, <1>7
        <4> QED
          BY <4>1, <1>15 DEF NotedRight
      <3> QED
        BY <3>1, <3>2
    <2>4. ASSUME NEW i \in DOMAIN fixups'
          PROVE  NotedRight(fixups[i])' /\ KindAt(fixups[i].rec)' = "static"
      <3>1. CASE i \in DOMAIN fixups
        <4>1. PICK x : x = fixups[i]
          OBVIOUS
        <4>2. fixups'[i] = x
          BY <4>1, <3>1, <1>4, <1>7
        <4>3. NotedRight(x) /\ KindAt(x.rec) = "static"
          BY <4>1, <3>1, <2>2
        <4>4. NotedRight(x)' /\ KindAt(x.rec)' = "static"
          BY <4>3, <1>14
        <4> QED
          BY <4>2, <4>4 DEF NotedRight, KindAt
      <3>2. CASE i \notin DOMAIN fixups
        <4>1. fixups'[i] = here /\ k = "static"
          BY <3>2, <1>4, <1>5, <1>7
        <4> QED
          BY <4>1, <1>15 DEF NotedRight, KindAt
      <3> QED
        BY <3>1, <3>2
    <2> QED
      BY <2>3, <2>4 DEF PendingInv
  <1>17. KeptInv'
    <2>1. ASSUME NEW p \in Records', Balanced(subs'[p[1]].recs)
          PROVE  \/ InModule(subs', p[1], p[2])
                 \/ \E i \in DOMAIN pendingGlobals' : pendingGlobals'[i].rec = p
      <3>1. CASE p \in Records
        <4>1. p[1] \in DOMAIN subs /\ p[2] \in DOMAIN subs[p[1]].recs
          BY <3>1 DEF Records
        <4>2. Balanced(subs[p[1]].recs) /\ (InModule(subs', p[1], p[2]) <=> InModule(subs, p[1], p[2]))
          BY <4>1, <2>1, <1>10
        <4>3. CASE InModule(subs, p[1], p[2])
          BY <4>2, <4>3
        <4>4. CASE \E i \in DOMAIN pendingGlobals : pendingGlobals[i].rec = p
          <5>1. PICK i \in DOMAIN pendingGlobals : pendingGlobals[i].rec = p
            BY <4>4
          <5>2. i \in DOMAIN pendingGlobals' /\ pendingGlobals'[i] = pendingGlobals[i]
            BY <1>4, <1>5, <1>7
          <5> QED
            BY <5>1, <5>2
        <4> QED
          BY <4>2, <4>3, <4>4, <3>1, <1>1 DEF KeptInv
      <3>2. CASE p = <<sub, next>>
        <4>1. p[1] = sub /\ p[2] = next
          BY <3>2
        <4>2. InModule(subs', sub, next) <=> SymbolGoesInModuleStream(k, depth)
          BY <4>1, <2>1, <1>12
        <4>3. ~SymbolGoesInModuleStream(k, depth) => SymbolGoesInGlobalsStream(k, depth)
          <5>1. depth \in Nat
            BY <1>b, <1>7, TrackFacts
          <5> QED
            BY <5>1 DEF SymbolGoesInModuleStream, SymbolGoesInGlobalsStream
        <4>4. CASE SymbolGoesInGlobalsStream(k, depth)
          <5>1. Len(pendingGlobals) + 1 \in DOMAIN pendingGlobals'
                /\ pendingGlobals'[Len(pendingGlobals) + 1] = here
            BY <4>4, <1>4, <1>5, <1>7
          <5> QED
            BY <5>1, <3>2, <1>a
        <4> QED
          BY <4>1, <4>2, <4>3, <4>4
      <3> QED
        BY <3>1, <3>2, <2>1, <1>3
    <2> QED
      BY <2>1 DEF KeptInv
  <1>18. StreamInv' /\ StorageInv' /\ ScopeInv' /\ LinksInv'
    BY <1>2 DEF StreamInv, StorageInv, ScopeInv, LinksInv, StreamLinked, StorageLinked
  <1> QED
    BY <1>8, <1>9, <1>13, <1>16, <1>17, <1>18 DEF WalkInv

\* T is S after its last subsection n has ended, with another one if there are more.
Closed(S, T, n, corrupt, more) ==
  /\ Len(T) = IF more THEN n + 1 ELSE n
  /\ \A i \in DOMAIN S : i # n => T[i] = S[i]
  /\ T[n].recs = S[n].recs
  /\ T[n].corrupt = corrupt
  /\ more => T[n + 1].recs = <<>> /\ T[n + 1].corrupt = FALSE

LEMMA CloseKeeps ==
  ASSUME NEW S \in Seq(Subsection), NEW T \in Seq(Subsection), NEW n \in DOMAIN S, n = Len(S),
         NEW corrupt \in BOOLEAN, NEW more \in BOOLEAN, Closed(S, T, n, corrupt, more)
  PROVE  /\ \A i \in DOMAIN S : i \in DOMAIN T /\ T[i].recs = S[i].recs
         /\ \A i \in 1..n : GoodBefore(T, i) <=> GoodBefore(S, i)
         /\ GoodBefore(T, n + 1) <=> GoodBefore(S, n) /\ (corrupt \/ Balanced(S[n].recs))
         /\ \A i \in 1..n : \A j \in Nat : Before(T, i, j) = Before(S, i, j)
         /\ Before(T, n + 1, 1) =
              IF corrupt THEN Before(S, n, 1) ELSE Before(S, n, Len(S[n].recs) + 1)
         /\ \A p \in Places : (p[1] \in DOMAIN T /\ p[2] \in DOMAIN T[p[1]].recs)
                                <=> (p[1] \in DOMAIN S /\ p[2] \in DOMAIN S[p[1]].recs)
  <1> USE DEF Closed
  <1>1. /\ n \in Nat /\ n >= 1 /\ DOMAIN S = 1..n
        /\ DOMAIN T = 1..(IF more THEN n + 1 ELSE n) /\ n \in DOMAIN T
        /\ \A i \in DOMAIN S : S[i].recs \in Seq(Kinds)
    BY SubsectionFacts
  <1>2. \A i \in DOMAIN S : i \in DOMAIN T /\ T[i].recs = S[i].recs
    BY <1>1
  <1>3. \A i \in 1..n : GoodBefore(T, i) <=> GoodBefore(S, i)
    <2>1. ASSUME NEW i \in 1..n
          PROVE  \A m \in Nat : m < i => (m \in DOMAIN T <=> m \in DOMAIN S)
                                         /\ (m \in DOMAIN S => T[m] = S[m])
      BY <1>1
    <2> QED
      BY <2>1, <1>1 DEF GoodBefore, Good
  <1>4. GoodBefore(T, n + 1) <=> GoodBefore(S, n) /\ (corrupt \/ Balanced(S[n].recs))
    <2>1. Good(T, n) <=> corrupt \/ Balanced(S[n].recs)
      BY DEF Good
    <2>2. GoodBefore(T, n + 1) <=> GoodBefore(T, n) /\ Good(T, n)
      BY <1>1 DEF GoodBefore
    <2> QED
      BY <2>1, <2>2, <1>1, <1>3
  <1>5. ASSUME NEW i \in 1..n, NEW j \in Nat
        PROVE  Before(T, i, j) = Before(S, i, j)
    <2>1. \A m \in Nat : m < i => (m \in DOMAIN S <=> m \in DOMAIN T) /\ (m \in DOMAIN S => S[m] = T[m])
      BY <1>1, SMTT(30)
    <2>2. i \in DOMAIN S /\ i \in DOMAIN T /\ S[i].recs = T[i].recs /\ i \in Nat
      BY <1>1, <1>2
    <2> QED
      BY <2>1, <2>2, BeforeSame
  <1>6. Before(T, n + 1, 1) =
          IF corrupt THEN Before(S, n, 1) ELSE Before(S, n, Len(S[n].recs) + 1)
    <2>1. Before(T, n + 1, 1) =
            IF T[n].corrupt THEN Before(T, n, 1) ELSE Before(T, n, Len(T[n].recs) + 1)
      BY <1>1, BeforeNextSubsection
    <2>2. n \in 1..n /\ Len(S[n].recs) + 1 \in Nat /\ 1 \in Nat
      BY <1>1
    <2> QED
      BY <2>1, <2>2, <1>5
  <1>7. ASSUME NEW p \in Places
        PROVE  (p[1] \in DOMAIN T /\ p[2] \in DOMAIN T[p[1]].recs)
                 <=> (p[1] \in DOMAIN S /\ p[2] \in DOMAIN S[p[1]].recs)
    <2>1. CASE p[1] \in DOMAIN S
      BY <2>1, <1>2
    <2>2. CASE p[1] \notin DOMAIN S
      <3>1. p[1] \in DOMAIN T => p[1] = n + 1 /\ more
        BY <2>2, <1>1
      <3>2. more => DOMAIN T[n + 1].recs = {}
        OBVIOUS
      <3> QED
        BY <3>1, <3>2, <2>2
    <2> QED
      BY <2>1, <2>2
  <1> QED
    BY <1>2, <1>3, <1>4, <1>5, <1>6, <1>7

LEMMA AnalyzeEndFacts ==
  ASSUME WalkInv, NEW corrupt \in BOOLEAN, NEW more \in BOOLEAN, AnalyzeEnd(corrupt, more)
  PROVE  /\ subs' \in Seq(Subsection) /\ Closed(subs, subs', sub, corrupt, more)
         /\ sub \in DOMAIN subs /\ sub = Len(subs) /\ next = Len(subs[sub].recs) + 1
         /\ Len(subs') \in 1..MaxSubsections
  <1>1. WalkTypeOK /\ WhereInv
    BY DEF WalkInv
  <1>2. /\ phase = "analyze" /\ (more => sub < MaxSubsections)
        /\ subs' = IF more THEN Append([subs EXCEPT ![sub].corrupt = corrupt],
                                       [recs |-> <<>>, corrupt |-> FALSE])
                   ELSE [subs EXCEPT ![sub].corrupt = corrupt]
    BY DEF AnalyzeEnd, EndSubsection
  <1>3. /\ subs \in Seq(Subsection) /\ sub = Len(subs) /\ next = Len(subs[sub].recs) + 1
        /\ sub \in DOMAIN subs /\ sub \in 1..MaxSubsections
    BY <1>1, <1>2 DEF WalkTypeOK, WhereInv
  <1>4. PICK S \in Seq(Subsection) : S = subs
    BY <1>3
  <1>5. PICK n \in DOMAIN S : n = sub
    BY <1>3, <1>4
  <1>6. PICK x : x = [S[n] EXCEPT !.corrupt = corrupt]
    OBVIOUS
  <1>7. x \in Subsection /\ x.recs = S[n].recs /\ x.corrupt = corrupt
    BY <1>6, SubsectionFacts DEF Subsection
  <1>8. PICK E : E = [S EXCEPT ![n] = x]
    OBVIOUS
  <1>9. /\ E \in Seq(Subsection) /\ Len(E) = n /\ E[n] = x
        /\ \A i \in DOMAIN S : i # n => E[i] = S[i]
    BY <1>3, <1>4, <1>5, <1>7, <1>8
  <1>10. PICK e \in Subsection : e = [recs |-> <<>>, corrupt |-> FALSE]
    <2>1. [recs |-> <<>>, corrupt |-> FALSE] \in Subsection
      BY DEF Subsection
    <2> QED
      BY <2>1
  <1>11. e.recs = <<>> /\ e.corrupt = FALSE
    BY <1>10
  <1>12. subs' = IF more THEN Append(E, e) ELSE E
    BY <1>2, <1>4, <1>5, <1>6, <1>8, <1>10
  <1>13. n \in Nat /\ n >= 1 /\ DOMAIN S = 1..n
    BY <1>3, <1>4, <1>5, SubsectionFacts
  <1>14. CASE more
    <2>1. PICK T \in Seq(Subsection) : T = Append(E, e)
      BY <1>9, AppendProperties, Zenon
    <2>2. Len(T) = n + 1 /\ T[n + 1] = e /\ \A i \in 1..n : T[i] = E[i]
      BY <2>1, <1>9
    <2>3. Closed(S, T, n, corrupt, more)
      BY <2>2, <1>7, <1>9, <1>11, <1>13, <1>14 DEF Closed
    <2>4. n + 1 \in 1..MaxSubsections
      BY <1>2, <1>3, <1>5, <1>13, <1>14, BoundsAssumption
    <2> QED
      BY <2>1, <2>2, <2>3, <2>4, <1>3, <1>4, <1>5, <1>12, <1>14
  <1>15. CASE ~more
    <2>1. Closed(S, E, n, corrupt, more)
      BY <1>7, <1>9, <1>13, <1>15 DEF Closed
    <2> QED
      BY <2>1, <1>3, <1>4, <1>5, <1>9, <1>12, <1>15
  <1> QED
    BY <1>14, <1>15

LEMMA AnalyzeEndInv ==
  ASSUME WalkInv, NEW corrupt \in BOOLEAN, NEW more \in BOOLEAN, AnalyzeEnd(corrupt, more)
  PROVE  WalkInv'
  <1>1. WalkTypeOK /\ WhereInv /\ OffsetInv /\ PendingInv /\ KeptInv
    BY DEF WalkInv
  <1>2. /\ phase = "analyze" /\ next' = 1 /\ scopeLevel' = 0
        /\ symOffset' = Kept(corrupt) /\ symStart' = Kept(corrupt)
        /\ pendingGlobals' = pendingGlobals /\ fixups' = fixups
        /\ scopes' = scopes /\ storage' = storage /\ stream' = stream
        /\ more => sub' = sub + 1 /\ phase' = phase
        /\ ~more => sub' = 1 /\ phase' = IF Kept(corrupt) > kSymbolStreamMagicSize THEN "write" ELSE "fixup"
    BY DEF AnalyzeEnd, EndSubsection, writing
  <1>3. scopes' = <<>> /\ storage' = <<>> /\ stream' = <<>>
    BY <1>1, <1>2 DEF WhereInv
  <1>4. /\ subs \in Seq(Subsection) /\ subs' \in Seq(Subsection)
        /\ Closed(subs, subs', sub, corrupt, more)
        /\ sub \in DOMAIN subs /\ sub = Len(subs) /\ next = Len(subs[sub].recs) + 1
        /\ Len(subs') \in 1..MaxSubsections
    BY <1>1, AnalyzeEndFacts DEF WalkTypeOK
  <1>5. /\ sub \in Nat /\ sub >= 1 /\ DOMAIN subs = 1..sub
        /\ Len(subs') = (IF more THEN sub + 1 ELSE sub) /\ DOMAIN subs' = 1..Len(subs')
        /\ more => subs'[sub + 1].recs = <<>> /\ subs'[sub + 1].corrupt = FALSE
    BY <1>4, SubsectionFacts DEF Closed
  <1>6. /\ \A i \in DOMAIN subs : i \in DOMAIN subs' /\ subs'[i].recs = subs[i].recs
        /\ \A i \in 1..sub : GoodBefore(subs', i) <=> GoodBefore(subs, i)
        /\ GoodBefore(subs', sub + 1) <=> GoodBefore(subs, sub) /\ (corrupt \/ Balanced(subs[sub].recs))
        /\ \A i \in 1..sub : \A j \in Nat : Before(subs', i, j) = Before(subs, i, j)
        /\ Before(subs', sub + 1, 1) =
             IF corrupt THEN Before(subs, sub, 1) ELSE Before(subs, sub, Len(subs[sub].recs) + 1)
        /\ \A p \in Places : (p[1] \in DOMAIN subs' /\ p[2] \in DOMAIN subs'[p[1]].recs)
                               <=> (p[1] \in DOMAIN subs /\ p[2] \in DOMAIN subs[p[1]].recs)
    BY <1>4, CloseKeeps, SMTT(30)
  <1>7. Records' = Records
    BY <1>6 DEF Records
  <1>8. Kept(corrupt) \in Nat
    BY <1>1 DEF Kept, WalkTypeOK
  <1>9. WalkTypeOK'
    <2>1. \A i \in DOMAIN subs' : Len(subs'[i].recs) <= MaxRecords
      <3>1. ASSUME NEW i \in DOMAIN subs'
            PROVE  Len(subs'[i].recs) <= MaxRecords
        <4>1. CASE i \in DOMAIN subs
          BY <4>1, <1>1, <1>6 DEF WalkTypeOK
        <4>2. CASE i \notin DOMAIN subs
          <5>1. more /\ i = sub + 1
            BY <4>2, <1>5
          <5> QED
            BY <5>1, <1>5, BoundsAssumption
        <4> QED
          BY <4>1, <4>2
      <3> QED
        BY <3>1
    <2>2. sub' \in Nat \ {0} /\ next' \in Nat \ {0}
      BY <1>2, <1>5
    <2>3. phase' \in {"analyze", "write", "fixup", "done", "failed"}
      BY <1>2
    <2>4. scopeLevel' \in Nat /\ symOffset' \in Nat /\ symStart' \in Nat
      BY <1>2, <1>8
    <2>5. pendingGlobals' \in Seq(Noted) /\ fixups' \in Seq(Noted)
      BY <1>1, <1>2 DEF WalkTypeOK
    <2>6. /\ scopes' \in Seq(Nat) /\ storage' \in Seq(WrittenRecord) /\ stream' \in Seq(WrittenRecord)
      BY <1>3
    <2> QED
      BY <2>1, <2>2, <2>3, <2>4, <2>5, <2>6, <1>4 DEF WalkTypeOK
  <1>10. WhereInv'
    <2>1. CASE more
      BY <2>1, <1>2, <1>3, <1>5 DEF WhereInv
    <2>2. CASE ~more
      <3>1. phase' # "analyze" /\ sub' = 1 /\ next' = 1 /\ Len(subs') \in Nat /\ Len(subs') >= 1
        BY <2>2, <1>2, <1>5
      <3>2. subs'[1].recs \in Seq(Kinds)
        BY <1>4, <1>5, <3>1, SubsectionFacts
      <3> QED
        BY <3>1, <3>2, <1>3 DEF WhereInv
    <2> QED
      BY <2>1, <2>2
  <1>11. GoodBefore(subs', sub + 1) => Kept(corrupt) = Offset(subs', sub + 1, 1)
    <2>1. SUFFICES ASSUME GoodBefore(subs', sub + 1)
                   PROVE  Kept(corrupt) = Offset(subs', sub + 1, 1)
      OBVIOUS
    <2>2. GoodBefore(subs, sub) /\ (corrupt \/ Balanced(subs[sub].recs))
      BY <2>1, <1>6
    <2>3. CASE corrupt
      BY <2>2, <2>3, <1>1, <1>2, <1>6 DEF OffsetInv, Kept, Offset
    <2>4. CASE ~corrupt
      BY <2>2, <2>4, <1>1, <1>2, <1>4, <1>6 DEF OffsetInv, Kept, Offset
    <2> QED
      BY <2>3, <2>4
  <1>12. WellFormed' => GoodBefore(subs', sub + 1)
    BY DEF WellFormed, GoodBefore, Good
  <1>13. OffsetInv'
    <2>1. CASE more
      <3>1. Depth(subs'[sub + 1].recs, 1, 1 - 1) = 0
        BY DepthOne
      <3>2. /\ phase' = "analyze" /\ sub' = sub + 1 /\ next' = 1
            /\ scopeLevel' = 0 /\ symStart' = Kept(corrupt) /\ symOffset' = Kept(corrupt)
        BY <2>1, <1>2
      <3> QED
        BY <3>1, <3>2, <1>11 DEF OffsetInv
    <2>2. CASE ~more
      <3>1. phase' # "analyze" /\ Len(subs') + 1 = sub + 1 /\ symOffset' = Kept(corrupt)
        BY <2>2, <1>2, <1>5
      <3> QED
        BY <3>1, <1>11, <1>12 DEF OffsetInv
    <2> QED
      BY <2>1, <2>2
  <1>14. ASSUME NEW x, NotedRight(x)
         PROVE  NotedRight(x)' /\ KindAt(x.rec)' = KindAt(x.rec)
    <2>1. x.rec \in Records
      BY <1>14 DEF NotedRight
    <2>2. x.rec[1] \in DOMAIN subs /\ x.rec[2] \in DOMAIN subs[x.rec[1]].recs
      BY <2>1 DEF Records
    <2>3. x.rec[1] \in 1..sub /\ x.rec[2] \in Nat
      <3>1. x.rec[1] \in 1..sub
        BY <2>2, <1>5
      <3>2. PICK i \in DOMAIN subs : i = x.rec[1]
        BY <2>2
      <3>3. DOMAIN subs[i].recs = 1..Len(subs[i].recs) /\ Len(subs[i].recs) \in Nat
        BY <1>4, SubsectionFacts
      <3> QED
        BY <3>1, <3>2, <3>3, <2>2
    <2>4. Before(subs', x.rec[1], x.rec[2]) = Before(subs, x.rec[1], x.rec[2])
      BY <2>3, <1>6
    <2>5. /\ GoodBefore(subs', x.rec[1]) <=> GoodBefore(subs, x.rec[1])
          /\ subs'[x.rec[1]].recs = subs[x.rec[1]].recs
      BY <2>2, <2>3, <1>6
    <2> QED
      BY <2>4, <2>5, <1>7, <1>14 DEF NotedRight, KindAt, Offset
  <1>15. PendingInv'
    <2>1. ASSUME NEW i \in DOMAIN pendingGlobals'
          PROVE  NotedRight(pendingGlobals[i])'
      <3>1. PICK x : x = pendingGlobals[i]
        OBVIOUS
      <3>2. NotedRight(x)'
        BY <3>1, <1>1, <1>2, <1>14 DEF PendingInv
      <3> QED
        BY <3>1, <3>2, <1>2 DEF NotedRight
    <2>2. ASSUME NEW i \in DOMAIN fixups'
          PROVE  NotedRight(fixups[i])' /\ KindAt(fixups[i].rec)' = "static"
      <3>1. PICK x : x = fixups[i]
        OBVIOUS
      <3>2. NotedRight(x)' /\ KindAt(x.rec)' = "static"
        BY <3>1, <1>1, <1>2, <1>14 DEF PendingInv
      <3> QED
        BY <3>1, <3>2, <1>2 DEF NotedRight, KindAt
    <2> QED
      BY <2>1, <2>2 DEF PendingInv
  <1>16. KeptInv'
    <2>1. ASSUME NEW p \in Records'
          PROVE  subs'[p[1]].recs = subs[p[1]].recs
                 /\ (InModule(subs', p[1], p[2]) <=> InModule(subs, p[1], p[2]))
      <3>1. p[1] \in DOMAIN subs
        BY <2>1, <1>7 DEF Records
      <3> QED
        BY <3>1, <1>6 DEF InModule
    <2> QED
      BY <2>1, <1>1, <1>2, <1>7 DEF KeptInv
  <1>17. StreamInv'
    <2>1. SUFFICES ASSUME WellFormed', phase' # "analyze"
                   PROVE  Before(subs', WalkReached', 1) = {}
      <3>1. Cardinality({}) = 0 /\ Len(<<>>) = 0
        BY FS_EmptySet
      <3> QED
        BY <2>1, <3>1, <1>3 DEF StreamInv
    <2>2. ~more
      BY <2>1, <1>2
    <2>3. CASE phase' = "write"
      BY <2>2, <2>3, <1>2, BeforeFirst DEF WalkReached
    <2>4. CASE phase' = "fixup"
      <3>1. Kept(corrupt) <= kSymbolStreamMagicSize
        BY <2>2, <2>4, <1>2, <1>8 DEF kSymbolStreamMagicSize
      <3>2. Kept(corrupt) = Offset(subs', sub + 1, 1)
        BY <2>1, <1>11, <1>12
      <3>3. /\ IsFiniteSet(Before(subs', sub + 1, 1))
            /\ Cardinality(Before(subs', sub + 1, 1)) \in Nat
        BY BeforeFinite
      <3>4. Cardinality(Before(subs', sub + 1, 1)) = 0
        BY <3>1, <3>2, <3>3 DEF Offset, kSymbolStreamMagicSize
      <3>5. Before(subs', sub + 1, 1) = {}
        BY <3>3, <3>4, FS_EmptySet
      <3>6. WalkReached' = sub + 1
        BY <2>2, <2>4, <1>5 DEF WalkReached
      <3> QED
        BY <3>5, <3>6
    <2> QED
      BY <2>2, <2>3, <2>4, <1>2
  <1>18. StorageInv'
    <2>1. SUFFICES ASSUME phase' = "write"
                   PROVE  /\ Len(<<>>) = Depth(subs'[1].recs, 1, 1 - 1)
                          /\ Len(<<>>) + Len(<<>>) = Cardinality(Before(subs', 1, 1))
                          /\ Before(subs', 1, 1) = {}
      <3>1. phase' = "write" => sub' = 1 /\ next' = 1
        BY <1>2
      <3> QED
        BY <2>1, <3>1, <1>3 DEF StorageInv
    <2>2. Before(subs', 1, 1) = {} /\ Cardinality({}) = 0 /\ Len(<<>>) = 0
      BY BeforeFirst, FS_EmptySet
    <2>3. Depth(subs'[1].recs, 1, 1 - 1) = 0
      BY DepthOne
    <2> QED
      BY <2>2, <2>3
  <1>19. ScopeInv'
    <2>1. phase' = "write" => next' - 1 = 0
      BY <1>2
    <2> QED
      BY <2>1, <1>3 DEF ScopeInv
  <1>20. LinksInv'
    BY <1>3 DEF LinksInv, StreamLinked, StorageLinked
  <1> QED
    BY <1>9, <1>10, <1>13, <1>15, <1>16, <1>17, <1>18, <1>19, <1>20 DEF WalkInv

----------------------------------------------------------------------------
(* The second walk *)

\* It leaves alone what the first one found.
LEMMA WriteKeeps ==
  ASSUME WalkInv, phase # "analyze", phase' # "analyze", UNCHANGED <<subs, analysis>>
  PROVE  OffsetInv' /\ PendingInv' /\ KeptInv'
  <1>1. OffsetInv /\ PendingInv /\ KeptInv
    BY DEF WalkInv
  <1>2. /\ subs' = subs /\ symOffset' = symOffset
        /\ pendingGlobals' = pendingGlobals /\ fixups' = fixups
    BY DEF analysis
  <1>3. Records' = Records /\ (WellFormed' <=> WellFormed)
    BY <1>2 DEF Records, WellFormed
  <1>4. OffsetInv'
    BY <1>1, <1>2, <1>3 DEF OffsetInv
  <1>5. PendingInv'
    BY <1>1, <1>2, <1>3 DEF PendingInv, NotedRight, KindAt
  <1>6. KeptInv'
    BY <1>1, <1>2, <1>3 DEF KeptInv
  <1> QED
    BY <1>4, <1>5, <1>6

\* Links do not move records.
SameRecords(old, new) ==
  /\ Len(new) = Len(old)
  /\ \A i \in DOMAIN old : new[i].rec = old[i].rec

LEMMA LinkedFacts ==
  ASSUME WalkInv, phase = "write", sub <= Len(subs)
  PROVE  /\ Linked \in Seq(WrittenRecord) /\ SameRecords(storage, Linked)
         /\ scopes = <<>> => Linked = storage
         /\ scopes # <<>> =>
              /\ scopes[Len(scopes)] \in DOMAIN storage
              /\ \A i \in DOMAIN storage : i # scopes[Len(scopes)] => Linked[i] = storage[i]
              /\ Linked[scopes[Len(scopes)]].ptrEnd = Written + Len(storage)
              /\ Linked[scopes[Len(scopes)]].ptrParent =
                   IF Len(scopes) = 1 THEN NoOffset ELSE scopes[Len(scopes) - 1] - 1 + Written
  <1>1. /\ storage \in Seq(WrittenRecord) /\ scopes \in Seq(Nat) /\ stream \in Seq(WrittenRecord)
        /\ \A k \in DOMAIN scopes : scopes[k] \in DOMAIN storage
    BY DEF WalkInv, WalkTypeOK, ScopeInv
  <1>2. CASE scopes = <<>>
    BY <1>1, <1>2 DEF Linked, SameRecords
  <1>3. CASE scopes # <<>>
    <2>1. PICK n \in Nat : n = Len(scopes) /\ n >= 1
      BY <1>1, <1>3
    <2>2. PICK top \in DOMAIN storage : top = scopes[n] /\ Last(scopes) = top
      BY <2>1, <1>1 DEF Last
    <2>3. /\ Front(scopes) \in Seq(Nat) /\ Len(Front(scopes)) = n - 1
          /\ \A i \in 1..(n - 1) : Front(scopes)[i] = scopes[i]
      BY <2>1, <1>1 DEF Front
    <2>4. PICK parent : parent = IF Front(scopes) = <<>> THEN NoOffset ELSE Last(Front(scopes)) - 1 + Written
      OBVIOUS
    <2>5. Written \in Nat
      BY <1>1 DEF Written, kSymbolStreamMagicSize
    <2>6. /\ parent \in Nat
          /\ parent = IF n = 1 THEN NoOffset ELSE scopes[n - 1] - 1 + Written
      <3>1. CASE n = 1
        BY <3>1, <2>3, <2>4 DEF NoOffset
      <3>2. CASE n # 1
        <4>1. Front(scopes) # <<>> /\ Last(Front(scopes)) = scopes[n - 1]
          BY <3>2, <2>1, <2>3 DEF Last
        <4>2. scopes[n - 1] \in DOMAIN storage
          <5>1. n - 1 \in DOMAIN scopes
            BY <3>2, <2>1, <1>1
          <5> QED
            BY <5>1, <1>1
        <4>3. scopes[n - 1] \in Nat /\ scopes[n - 1] >= 1
          BY <4>2, <1>1
        <4> QED
          BY <4>1, <4>3, <3>2, <2>4, <2>5
      <3> QED
        BY <3>1, <3>2
    <2>7. PICK ending \in Nat : ending = Written + Len(storage)
      BY <2>5, <1>1
    <2>8. PICK x : x = [storage[top] EXCEPT !.ptrEnd = ending, !.ptrParent = parent]
      OBVIOUS
    <2>9. /\ x \in WrittenRecord /\ x.rec = storage[top].rec
          /\ x.ptrEnd = ending /\ x.ptrParent = parent
      <3>1. storage[top] \in WrittenRecord
        BY <1>1
      <3> QED
        BY <3>1, <2>6, <2>8 DEF WrittenRecord
    <2>10. Linked = [storage EXCEPT ![top] = x]
      <3>1. Linked = [storage EXCEPT ![top].ptrEnd = ending, ![top].ptrParent = parent]
        BY <1>3, <2>2, <2>4, <2>7 DEF Linked
      <3> QED
        BY <3>1, <2>8
    <2>11. /\ Linked \in Seq(WrittenRecord) /\ Len(Linked) = Len(storage) /\ Linked[top] = x
           /\ \A i \in DOMAIN storage : i # top => Linked[i] = storage[i]
      BY <2>9, <2>10, <1>1
    <2>12. SameRecords(storage, Linked)
      BY <2>9, <2>11 DEF SameRecords
    <2> QED
      BY <1>3, <2>1, <2>2, <2>6, <2>7, <2>9, <2>11, <2>12
  <1> QED
    BY <1>2, <1>3

\* A record that the second walk meets: the open scope is linked if it ends here, and
\* the record is added if it is for the module stream.
LEMMA WriteRecordFacts ==
  ASSUME WalkInv, WriteRecord
  PROVE  \E k \in Kinds, linked \in Seq(WrittenRecord), w \in WrittenRecord :
           /\ k = subs[sub].recs[next]
           /\ w = [rec |-> <<sub, next>>, ptrEnd |-> NoOffset, ptrParent |-> NoOffset]
           /\ linked = (IF SymbolEndsScope(k) THEN Linked ELSE storage)
           /\ SameRecords(storage, linked)
           /\ storage' = IF SymbolGoesInModuleStream(k, Len(scopes')) THEN Append(linked, w) ELSE linked
           /\ scopes' = CASE SymbolOpensScope(k) -> Append(scopes, Len(storage) + 1)
                          [] SymbolEndsScope(k) -> IF scopes = <<>> THEN <<>> ELSE Front(scopes)
                          [] OTHER -> scopes
  <1>1. WalkTypeOK /\ WhereInv
    BY DEF WalkInv
  <1>2. /\ phase = "write" /\ sub <= Len(subs) /\ next <= Len(subs[sub].recs)
    BY DEF WriteRecord
  <1>3. sub \in DOMAIN subs /\ subs \in Seq(Subsection) /\ next \in Nat /\ next >= 1 /\ sub \in Nat
    BY <1>1, <1>2 DEF WalkTypeOK
  <1>4. PICK recs \in Seq(Kinds) : recs = subs[sub].recs
    BY <1>3, SubsectionFacts
  <1>5. PICK k \in Kinds : k = subs[sub].recs[next]
    <2>1. next \in 1..Len(recs)
      BY <1>2, <1>3, <1>4
    <2>2. recs[next] \in Kinds
      BY <2>1
    <2> QED
      BY <2>2, <1>4
  <1>6. PICK linked \in Seq(WrittenRecord) : linked = IF SymbolEndsScope(k) THEN Linked ELSE storage
    <2>1. Linked \in Seq(WrittenRecord) /\ storage \in Seq(WrittenRecord)
      BY <1>1, <1>2, LinkedFacts DEF WalkTypeOK
    <2> QED
      BY <2>1
  <1>7. SameRecords(storage, linked)
    BY <1>2, <1>6, LinkedFacts DEF SameRecords
  <1>8. PICK w : w = [rec |-> <<sub, next>>, ptrEnd |-> NoOffset, ptrParent |-> NoOffset]
    OBVIOUS
  <1>9. w \in WrittenRecord
    BY <1>3, <1>8 DEF WrittenRecord, PlaceOf, NoOffset
  <1>10. /\ \/ SymbolOpensScope(k) /\ scopes' = Append(scopes, Len(storage) + 1)
            \/ SymbolEndsScope(k) /\ scopes' = IF scopes = <<>> THEN <<>> ELSE Front(scopes)
            \/ ~SymbolOpensScope(k) /\ ~SymbolEndsScope(k) /\ scopes' = scopes
         /\ storage' = IF SymbolGoesInModuleStream(k, Len(scopes')) THEN Append(linked, w) ELSE linked
    BY <1>5, <1>6, <1>8 DEF WriteRecord, ScopeStackOpen
  <1>11. ~(SymbolOpensScope(k) /\ SymbolEndsScope(k))
    BY DEF SymbolOpensScope, SymbolEndsScope
  <1>12. scopes' = CASE SymbolOpensScope(k) -> Append(scopes, Len(storage) + 1)
                     [] SymbolEndsScope(k) -> IF scopes = <<>> THEN <<>> ELSE Front(scopes)
                     [] OTHER -> scopes
    BY <1>10, <1>11
  <1> QED
    BY <1>5, <1>6, <1>7, <1>8, <1>9, <1>10, <1>12

LEMMA WriteRecordShape ==
  ASSUME WalkInv, WriteRecord, NEW k, k = subs[sub].recs[next],
         NEW goes, goes = SymbolGoesInModuleStream(k, Len(scopes'))
  PROVE  /\ k \in Kinds /\ goes \in BOOLEAN
         /\ SymbolOpensScope(k) \/ SymbolEndsScope(k) => goes
         /\ storage' \in Seq(WrittenRecord) /\ scopes' \in Seq(Nat)
         /\ Len(storage') = Len(storage) + (IF goes THEN 1 ELSE 0)
         /\ \A i \in DOMAIN storage : i \in DOMAIN storage' /\ storage'[i].rec = storage[i].rec
         /\ goes => storage'[Len(storage) + 1] =
                      [rec |-> <<sub, next>>, ptrEnd |-> NoOffset, ptrParent |-> NoOffset]
         /\ ~SymbolEndsScope(k) \/ scopes = <<>> => \A i \in DOMAIN storage : storage'[i] = storage[i]
         /\ SymbolEndsScope(k) /\ scopes # <<>> =>
              /\ scopes[Len(scopes)] \in DOMAIN storage
              /\ \A i \in DOMAIN storage : i # scopes[Len(scopes)] => storage'[i] = storage[i]
              /\ storage'[scopes[Len(scopes)]].ptrEnd = Written + Len(storage)
              /\ storage'[scopes[Len(scopes)]].ptrParent =
                   IF Len(scopes) = 1 THEN NoOffset ELSE scopes[Len(scopes) - 1] - 1 + Written
         /\ SymbolOpensScope(k) =>
              /\ Len(scopes') = Len(scopes) + 1 /\ scopes'[Len(scopes) + 1] = Len(storage) + 1
              /\ \A i \in DOMAIN scopes : scopes'[i] = scopes[i]
         /\ SymbolEndsScope(k) =>
              /\ Len(scopes') = IF scopes = <<>> THEN 0 ELSE Len(scopes) - 1
              /\ \A i \in DOMAIN scopes' : i \in DOMAIN scopes /\ scopes'[i] = scopes[i]
         /\ ~SymbolOpensScope(k) /\ ~SymbolEndsScope(k) => scopes' = scopes
  <1>1. /\ storage \in Seq(WrittenRecord) /\ scopes \in Seq(Nat)
        /\ phase = "write" /\ sub <= Len(subs)
    BY DEF WalkInv, WalkTypeOK, WriteRecord
  <1>2. PICK linked \in Seq(WrittenRecord), w \in WrittenRecord :
          /\ k \in Kinds
          /\ w = [rec |-> <<sub, next>>, ptrEnd |-> NoOffset, ptrParent |-> NoOffset]
          /\ linked = (IF SymbolEndsScope(k) THEN Linked ELSE storage)
          /\ SameRecords(storage, linked)
          /\ storage' = IF goes THEN Append(linked, w) ELSE linked
          /\ scopes' = CASE SymbolOpensScope(k) -> Append(scopes, Len(storage) + 1)
                         [] SymbolEndsScope(k) -> IF scopes = <<>> THEN <<>> ELSE Front(scopes)
                         [] OTHER -> scopes
    BY WriteRecordFacts
  <1>3. Len(linked) = Len(storage) /\ \A i \in DOMAIN storage : linked[i].rec = storage[i].rec
    BY <1>2 DEF SameRecords
  <1>4. /\ storage' \in Seq(WrittenRecord)
        /\ Len(storage') = Len(storage) + (IF goes THEN 1 ELSE 0)
        /\ \A i \in DOMAIN storage : i \in DOMAIN storage' /\ storage'[i] = linked[i]
        /\ goes => storage'[Len(storage) + 1] = w
    <2>1. goes \in BOOLEAN
      BY DEF SymbolGoesInModuleStream
    <2>2. CASE goes
      BY <2>2, <1>1, <1>2, <1>3
    <2>3. CASE ~goes
      BY <2>3, <1>1, <1>2, <1>3
    <2> QED
      BY <2>1, <2>2, <2>3
  <1>5. SymbolOpensScope(k) \/ SymbolEndsScope(k) => goes
    BY DEF SymbolOpensScope, SymbolEndsScope, SymbolGoesInModuleStream
  <1>6. ~(SymbolOpensScope(k) /\ SymbolEndsScope(k))
    BY DEF SymbolOpensScope, SymbolEndsScope
  <1>7. ~SymbolEndsScope(k) \/ scopes = <<>> => \A i \in DOMAIN storage : storage'[i] = storage[i]
    <2>1. scopes = <<>> => Linked = storage
      BY <1>1, LinkedFacts
    <2> QED
      BY <2>1, <1>2, <1>4
  <1>8. SymbolEndsScope(k) /\ scopes # <<>> =>
          /\ scopes[Len(scopes)] \in DOMAIN storage
          /\ \A i \in DOMAIN storage : i # scopes[Len(scopes)] => storage'[i] = storage[i]
          /\ storage'[scopes[Len(scopes)]].ptrEnd = Written + Len(storage)
          /\ storage'[scopes[Len(scopes)]].ptrParent =
               IF Len(scopes) = 1 THEN NoOffset ELSE scopes[Len(scopes) - 1] - 1 + Written
    <2>1. SUFFICES ASSUME SymbolEndsScope(k), scopes # <<>>
                   PROVE  /\ scopes[Len(scopes)] \in DOMAIN storage
                          /\ \A i \in DOMAIN storage : i # scopes[Len(scopes)] => storage'[i] = storage[i]
                          /\ storage'[scopes[Len(scopes)]].ptrEnd = Written + Len(storage)
                          /\ storage'[scopes[Len(scopes)]].ptrParent =
                               IF Len(scopes) = 1 THEN NoOffset ELSE scopes[Len(scopes) - 1] - 1 + Written
      OBVIOUS
    <2>2. /\ scopes[Len(scopes)] \in DOMAIN storage
          /\ \A i \in DOMAIN storage : i # scopes[Len(scopes)] => Linked[i] = storage[i]
          /\ Linked[scopes[Len(scopes)]].ptrEnd = Written + Len(storage)
          /\ Linked[scopes[Len(scopes)]].ptrParent =
               IF Len(scopes) = 1 THEN NoOffset ELSE scopes[Len(scopes) - 1] - 1 + Written
      BY <2>1, <1>1, LinkedFacts
    <2>3. linked = Linked
      BY <2>1, <1>2
    <2> QED
      BY <2>2, <2>3, <1>4
  <1>9. scopes' \in Seq(Nat)
        /\ (SymbolOpensScope(k) =>
              /\ Len(scopes') = Len(scopes) + 1 /\ scopes'[Len(scopes) + 1] = Len(storage) + 1
              /\ \A i \in DOMAIN scopes : scopes'[i] = scopes[i])
        /\ (SymbolEndsScope(k) =>
              /\ Len(scopes') = IF scopes = <<>> THEN 0 ELSE Len(scopes) - 1
              /\ \A i \in DOMAIN scopes' : i \in DOMAIN scopes /\ scopes'[i] = scopes[i])
        /\ (~SymbolOpensScope(k) /\ ~SymbolEndsScope(k) => scopes' = scopes)
    <2>1. CASE SymbolOpensScope(k)
      <3>1. scopes' = Append(scopes, Len(storage) + 1)
        BY <2>1, <1>2, <1>6
      <3>2. PICK i \in Nat : i = Len(storage) + 1
        BY <1>1
      <3> QED
        BY <3>1, <3>2, <2>1, <1>1, <1>6
    <2>2. CASE SymbolEndsScope(k)
      <3>1. scopes' = IF scopes = <<>> THEN <<>> ELSE Front(scopes)
        BY <2>2, <1>2, <1>6
      <3>2. CASE scopes = <<>>
        BY <3>1, <3>2, <2>2, <1>6
      <3>3. CASE scopes # <<>>
        <4>1. Len(scopes) \in Nat /\ Len(scopes) >= 1
          BY <3>3, <1>1
        <4>2. /\ Front(scopes) \in Seq(Nat) /\ Len(Front(scopes)) = Len(scopes) - 1
              /\ \A i \in 1..(Len(scopes) - 1) : Front(scopes)[i] = scopes[i]
          <5>1. PICK n \in Nat : n = Len(scopes) /\ n >= 1
            BY <4>1
          <5>2. /\ Front(scopes) \in Seq(Nat) /\ Len(Front(scopes)) = n - 1
                /\ \A i \in 1..(n - 1) : Front(scopes)[i] = scopes[i]
            BY <5>1, <1>1 DEF Front
          <5> QED
            BY <5>1, <5>2
        <4>3. \A i \in 1..(Len(scopes) - 1) : i \in DOMAIN scopes
          BY <4>1, <1>1
        <4> QED
          BY <4>1, <4>2, <4>3, <3>1, <3>3, <2>2, <1>6
      <3> QED
        BY <3>2, <3>3
    <2>3. CASE ~SymbolOpensScope(k) /\ ~SymbolEndsScope(k)
      BY <2>3, <1>1, <1>2
    <2> QED
      BY <2>1, <2>2, <2>3
  <1>10. goes \in BOOLEAN
    BY DEF SymbolGoesInModuleStream
  <1>11. \A i \in DOMAIN storage : i \in DOMAIN storage' /\ storage'[i].rec = storage[i].rec
    BY <1>3, <1>4
  <1>12. goes => storage'[Len(storage) + 1] =
                   [rec |-> <<sub, next>>, ptrEnd |-> NoOffset, ptrParent |-> NoOffset]
    BY <1>2, <1>4
  <1>13. k \in Kinds /\ storage' \in Seq(WrittenRecord)
         /\ Len(storage') = Len(storage) + (IF goes THEN 1 ELSE 0)
    BY <1>2, <1>4
  <1> HIDE DEF Written
  <1> QED
    BY <1>5, <1>7, <1>8, <1>9, <1>10, <1>11, <1>12, <1>13

\* The place the second walk is at.
LEMMA WriteRecordPlace ==
  ASSUME WalkInv, WriteRecord
  PROVE  /\ phase = "write" /\ phase' = "write" /\ sub' = sub /\ next' = next + 1 /\ next \in Nat
         /\ subs' = subs /\ stream' = stream /\ Written' = Written
         /\ UNCHANGED <<subs, analysis>>
         /\ subs \in Seq(Subsection) /\ sub \in DOMAIN subs /\ sub \in Nat /\ sub <= Len(subs)
         /\ subs[sub].recs \in Seq(Kinds) /\ next \in DOMAIN subs[sub].recs /\ next >= 1
         /\ <<sub, next>> \in Places /\ next <= Len(subs[sub].recs)
  <1>1. /\ WalkTypeOK /\ phase = "write" /\ sub <= Len(subs) /\ next <= Len(subs[sub].recs)
        /\ phase' = phase /\ sub' = sub /\ next' = next + 1 /\ subs' = subs /\ stream' = stream
        /\ UNCHANGED <<subs, analysis>>
    BY DEF WalkInv, WriteRecord, writing
  <1>2. /\ subs \in Seq(Subsection) /\ sub \in DOMAIN subs /\ sub \in Nat /\ sub \in 1..MaxSubsections
        /\ next \in Nat /\ next >= 1 /\ Len(subs[sub].recs) <= MaxRecords
    BY <1>1, BoundsAssumption DEF WalkTypeOK
  <1>3. PICK recs \in Seq(Kinds) : recs = subs[sub].recs
    BY <1>2, SubsectionFacts
  <1>4. next \in DOMAIN recs /\ next \in 1..MaxRecords
    BY <1>1, <1>2, <1>3, BoundsAssumption
  <1>5. <<sub, next>> \in Places
    BY <1>2, <1>4 DEF Places
  <1>6. Written' = Written
    BY <1>1 DEF Written
  <1> QED
    BY <1>1, <1>2, <1>3, <1>4, <1>5, <1>6

LEMMA WriteRecordStorage ==
  ASSUME WalkInv, WriteRecord
  PROVE  StorageInv'
  <1>1. PICK k : k = subs[sub].recs[next]
    OBVIOUS
  <1>2. PICK goes : goes = SymbolGoesInModuleStream(k, Len(scopes'))
    OBVIOUS
  <1>3. /\ phase = "write" /\ phase' = "write" /\ sub' = sub /\ next' = next + 1 /\ next \in Nat
        /\ subs' = subs /\ stream' = stream
        /\ subs \in Seq(Subsection) /\ sub \in DOMAIN subs /\ sub \in Nat /\ sub <= Len(subs)
        /\ subs[sub].recs \in Seq(Kinds) /\ next \in DOMAIN subs[sub].recs /\ next >= 1
        /\ <<sub, next>> \in Places
    BY WriteRecordPlace
  <1>4. SUFFICES ASSUME WellFormed, ~subs[sub].corrupt
                 PROVE  /\ Len(scopes') = Depth(subs[sub].recs, 1, (next + 1) - 1)
                        /\ Len(stream) + Len(storage') = Cardinality(Before(subs, sub, next + 1))
                        /\ \A p \in Before(subs, sub, next + 1) : p[1] = sub =>
                             /\ Rank(p) - Len(stream) \in DOMAIN storage'
                             /\ storage'[Rank(p) - Len(stream)].rec = p
    <2>1. WellFormed' <=> WellFormed
      BY <1>3 DEF WellFormed
    <2>2. \A p : Rank(p)' = Rank(p)
      BY <1>3 DEF Rank
    <2> QED
      BY <2>1, <2>2, <1>3, <1>4 DEF StorageInv
  <1>5. /\ Len(scopes) = Depth(subs[sub].recs, 1, next - 1)
        /\ Len(stream) + Len(storage) = Cardinality(Before(subs, sub, next))
        /\ \A p \in Before(subs, sub, next) : p[1] = sub =>
             Rank(p) - Len(stream) \in DOMAIN storage /\ storage[Rank(p) - Len(stream)].rec = p
    BY <1>3, <1>4 DEF WalkInv, StorageInv
  <1>6. /\ scopes \in Seq(Nat) /\ storage \in Seq(WrittenRecord) /\ stream \in Seq(WrittenRecord)
        /\ Len(scopes) \in Nat /\ Len(storage) \in Nat /\ Len(stream) \in Nat
    BY DEF WalkInv, WalkTypeOK
  <1>7. /\ goes \in BOOLEAN
        /\ storage' \in Seq(WrittenRecord)
        /\ Len(storage') = Len(storage) + (IF goes THEN 1 ELSE 0)
        /\ \A i \in DOMAIN storage : i \in DOMAIN storage' /\ storage'[i].rec = storage[i].rec
        /\ goes => storage'[Len(storage) + 1].rec = <<sub, next>>
    BY <1>1, <1>2, WriteRecordShape
  <1>8. /\ SymbolOpensScope(k) => Len(scopes') = Len(scopes) + 1
        /\ SymbolEndsScope(k) => Len(scopes') = IF scopes = <<>> THEN 0 ELSE Len(scopes) - 1
        /\ ~SymbolOpensScope(k) /\ ~SymbolEndsScope(k) => scopes' = scopes
    BY <1>1, <1>2, WriteRecordShape
  <1>9. Depth(subs[sub].recs, 1, next) = Depth(subs[sub].recs, 1, next - 1)
          + (IF SymbolOpensScope(k) THEN 1 ELSE IF SymbolEndsScope(k) THEN -1 ELSE 0)
    <2>1. next - 1 \in Int /\ 1 <= (next - 1) + 1 /\ (next - 1) + 1 = next
      BY <1>3
    <2>2. Depth(subs[sub].recs, 1, (next - 1) + 1) = Depth(subs[sub].recs, 1, next - 1)
            + (IF SymbolOpensScope(subs[sub].recs[(next - 1) + 1]) THEN 1
               ELSE IF SymbolEndsScope(subs[sub].recs[(next - 1) + 1]) THEN -1 ELSE 0)
      BY <2>1, DepthNext
    <2> QED
      BY <2>1, <2>2, <1>1
  <1>10. Depth(subs[sub].recs, 1, next) >= 0
    <2>1. Balanced(subs[sub].recs)
      BY <1>3, <1>4 DEF WellFormed
    <2> QED
      BY <2>1, <1>3 DEF Balanced
  <1>11. Len(scopes') = Depth(subs[sub].recs, 1, next)
    <2>1. CASE SymbolOpensScope(k)
      BY <2>1, <1>5, <1>6, <1>8, <1>9
    <2>2. CASE SymbolEndsScope(k)
      <3>1. ~SymbolOpensScope(k)
        BY <2>2 DEF SymbolOpensScope, SymbolEndsScope
      <3>2. Depth(subs[sub].recs, 1, next) = Len(scopes) - 1
        BY <3>1, <2>2, <1>5, <1>6, <1>9
      <3>3. scopes # <<>>
        BY <3>2, <1>6, <1>10
      <3> QED
        BY <3>2, <3>3, <2>2, <1>8
    <2>3. CASE ~SymbolOpensScope(k) /\ ~SymbolEndsScope(k)
      BY <2>3, <1>5, <1>6, <1>8, <1>9
    <2> QED
      BY <2>1, <2>2, <2>3
  <1>12. InModule(subs, sub, next) <=> goes
    BY <1>1, <1>2, <1>7, <1>11 DEF InModule
  <1>13. /\ Before(subs, sub, next + 1) =
              IF goes THEN Before(subs, sub, next) \cup {<<sub, next>>} ELSE Before(subs, sub, next)
         /\ Cardinality(Before(subs, sub, next + 1)) =
              Cardinality(Before(subs, sub, next)) + (IF goes THEN 1 ELSE 0)
    <2>1. /\ Before(subs, sub, next + 1) =
               IF InModule(subs, sub, next) THEN Before(subs, sub, next) \cup {<<sub, next>>}
               ELSE Before(subs, sub, next)
          /\ Cardinality(Before(subs, sub, next + 1)) =
               Cardinality(Before(subs, sub, next)) + (IF InModule(subs, sub, next) THEN 1 ELSE 0)
      BY <1>3, BeforeNext
    <2> QED
      BY <2>1, <1>12
  <1>14. Len(stream) + Len(storage') = Cardinality(Before(subs, sub, next + 1))
    BY <1>5, <1>6, <1>7, <1>13
  <1>15. ASSUME NEW p \in Before(subs, sub, next + 1), p[1] = sub
         PROVE  /\ Rank(p) - Len(stream) \in DOMAIN storage'
                /\ storage'[Rank(p) - Len(stream)].rec = p
    <2>1. CASE p \in Before(subs, sub, next)
      BY <2>1, <1>5, <1>7, <1>15
    <2>2. CASE goes /\ p = <<sub, next>>
      <3>1. Rank(p) = Len(stream) + Len(storage) + 1
        BY <2>2, <1>5 DEF Rank
      <3>2. Rank(p) - Len(stream) = Len(storage) + 1
        BY <3>1, <1>6
      <3>3. Len(storage) + 1 \in DOMAIN storage'
        BY <2>2, <1>6, <1>7
      <3> QED
        BY <3>2, <3>3, <2>2, <1>7
    <2> QED
      BY <2>1, <2>2, <1>13, <1>15
  <1>16. (next + 1) - 1 = next
    BY <1>3
  <1> QED
    BY <1>11, <1>14, <1>15, <1>16

\* What record n does to the scopes opened before it.
LEMMA OpenNext ==
  ASSUME NEW recs, NEW n \in Nat, n >= 1, NEW m \in 1..(n - 1)
  PROVE  /\ Depth(recs, m, n) = Depth(recs, m, n - 1)
              + (IF SymbolOpensScope(recs[n]) THEN 1 ELSE IF SymbolEndsScope(recs[n]) THEN -1 ELSE 0)
         /\ Depth(recs, m, n) \in Int /\ Depth(recs, m, n - 1) \in Int
         /\ Open(recs, m, n) <=> Open(recs, m, n - 1) /\ Depth(recs, m, n) > 0
         /\ SymbolOpensScope(recs[m]) =>
              (Closes(recs, m, n) <=> Open(recs, m, n - 1) /\ Depth(recs, m, n) = 0)
  <1>1. m \in Int /\ n - 1 \in Int /\ m <= (n - 1) + 1 /\ (n - 1) + 1 = n /\ n \in Int
    OBVIOUS
  <1>2. Depth(recs, m, (n - 1) + 1) = Depth(recs, m, n - 1)
          + (IF SymbolOpensScope(recs[(n - 1) + 1]) THEN 1
             ELSE IF SymbolEndsScope(recs[(n - 1) + 1]) THEN -1 ELSE 0)
    BY <1>1, DepthNext
  <1>3. Depth(recs, m, n) \in Int /\ Depth(recs, m, n - 1) \in Int
    BY <1>1, DepthParts
  <1>4. Open(recs, m, n) <=> Open(recs, m, n - 1) /\ Depth(recs, m, n) > 0
    <2>1. \A j : j \in m..n <=> j \in m..(n - 1) \/ j = n
      OBVIOUS
    <2> QED
      BY <2>1 DEF Open
  <1>5. SymbolOpensScope(recs[m]) =>
          (Closes(recs, m, n) <=> Open(recs, m, n - 1) /\ Depth(recs, m, n) = 0)
    BY DEF Closes, Open
  <1> QED
    BY <1>1, <1>2, <1>3, <1>4, <1>5

LEMMA WriteRecordScopes ==
  ASSUME WalkInv, WriteRecord
  PROVE  ScopeInv'
  <1>1. PICK k : k = subs[sub].recs[next]
    OBVIOUS
  <1>2. PICK goes : goes = SymbolGoesInModuleStream(k, Len(scopes'))
    OBVIOUS
  <1>3. PICK recs : recs = subs[sub].recs
    OBVIOUS
  <1>4. /\ phase = "write" /\ phase' = "write" /\ sub' = sub /\ next' = next + 1
        /\ next \in Nat /\ next >= 1 /\ subs' = subs /\ sub \in Nat /\ sub <= Len(subs)
    BY WriteRecordPlace
  <1>5. /\ scopes \in Seq(Nat) /\ storage \in Seq(WrittenRecord)
        /\ Len(scopes) \in Nat /\ Len(storage) \in Nat
        /\ DOMAIN scopes = 1..Len(scopes) /\ DOMAIN storage = 1..Len(storage)
    BY DEF WalkInv, WalkTypeOK
  <1>6. /\ \A i \in DOMAIN storage :
             storage[i].rec[1] = sub /\ storage[i].rec[2] \in 1..(next - 1)
        /\ \A i, j \in DOMAIN storage : i < j => storage[i].rec[2] < storage[j].rec[2]
        /\ \A l \in DOMAIN scopes :
             /\ scopes[l] \in DOMAIN storage
             /\ Open(recs, Opener(l), next - 1)
             /\ Depth(recs, Opener(l), next - 1) = Len(scopes) - l + 1
        /\ \A l, m \in DOMAIN scopes : l < m => scopes[l] < scopes[m]
        /\ \A m \in 1..(next - 1) :
             Open(recs, m, next - 1) => \E l \in DOMAIN scopes : Opener(l) = m
    BY <1>3, <1>4 DEF WalkInv, ScopeInv
  <1>7. /\ k \in Kinds /\ goes \in BOOLEAN
        /\ SymbolOpensScope(k) \/ SymbolEndsScope(k) => goes
        /\ storage' \in Seq(WrittenRecord) /\ scopes' \in Seq(Nat)
        /\ Len(storage') = Len(storage) + (IF goes THEN 1 ELSE 0)
        /\ \A i \in DOMAIN storage : i \in DOMAIN storage' /\ storage'[i].rec = storage[i].rec
        /\ goes => storage'[Len(storage) + 1].rec = <<sub, next>>
    BY <1>1, <1>2, WriteRecordShape
  <1>a. SymbolOpensScope(k) => Len(scopes') = Len(scopes) + 1
    BY <1>1, <1>2, WriteRecordShape
  <1>b. SymbolOpensScope(k) => scopes'[Len(scopes) + 1] = Len(storage) + 1
    BY <1>1, <1>2, WriteRecordShape
  <1>c. SymbolOpensScope(k) => \A i \in DOMAIN scopes : scopes'[i] = scopes[i]
    BY <1>1, <1>2, WriteRecordShape
  <1>d. SymbolEndsScope(k) => Len(scopes') = IF scopes = <<>> THEN 0 ELSE Len(scopes) - 1
    BY <1>1, <1>2, WriteRecordShape
  <1>e. SymbolEndsScope(k) => \A i \in DOMAIN scopes' : i \in DOMAIN scopes /\ scopes'[i] = scopes[i]
    BY <1>1, <1>2, WriteRecordShape
  <1>f. ~SymbolOpensScope(k) /\ ~SymbolEndsScope(k) => scopes' = scopes
    BY <1>1, <1>2, WriteRecordShape
  <1>9. /\ DOMAIN scopes' = 1..Len(scopes') /\ Len(scopes') \in Nat
        /\ DOMAIN storage' = 1..Len(storage')
        /\ \A i \in DOMAIN storage' : i \in DOMAIN storage \/ (goes /\ i = Len(storage) + 1)
    BY <1>5, <1>7
  <1>10. (next + 1) - 1 = next
    BY <1>4
  <1>11. \A i \in DOMAIN storage' :
           storage'[i].rec[1] = sub /\ storage'[i].rec[2] \in 1..next
    <2>1. ASSUME NEW i \in DOMAIN storage'
          PROVE  storage'[i].rec[1] = sub /\ storage'[i].rec[2] \in 1..next
      <3>1. CASE i \in DOMAIN storage
        <4>1. storage'[i].rec = storage[i].rec
          BY <3>1, <1>7
        <4>2. storage[i].rec[1] = sub /\ storage[i].rec[2] \in 1..(next - 1)
          BY <3>1, <1>6
        <4> QED
          BY <4>1, <4>2, <1>4
      <3>2. CASE goes /\ i = Len(storage) + 1
        <4>1. storage'[i].rec = <<sub, next>>
          BY <3>2, <1>7
        <4> QED
          BY <4>1, <1>4
      <3> QED
        BY <3>1, <3>2, <1>9
    <2> QED
      BY <2>1
  <1>12. \A i, j \in DOMAIN storage' : i < j => storage'[i].rec[2] < storage'[j].rec[2]
    <2>1. ASSUME NEW i \in DOMAIN storage', NEW j \in DOMAIN storage', i < j
          PROVE  storage'[i].rec[2] < storage'[j].rec[2]
      <3>1. i \in DOMAIN storage
        BY <2>1, <1>5, <1>9
      <3>2. CASE j \in DOMAIN storage
        BY <3>1, <3>2, <2>1, <1>6, <1>7
      <3>3. CASE goes /\ j = Len(storage) + 1
        BY <3>1, <3>3, <1>4, <1>6, <1>7, SMTT(30)
      <3> QED
        BY <3>2, <3>3, <1>9
    <2> QED
      BY <2>1
  <1>13. ASSUME NEW l \in DOMAIN scopes
         PROVE  /\ Opener(l) \in 1..(next - 1)
                /\ Depth(recs, Opener(l), next) = Depth(recs, Opener(l), next - 1)
                     + (IF SymbolOpensScope(k) THEN 1 ELSE IF SymbolEndsScope(k) THEN -1 ELSE 0)
                /\ Open(recs, Opener(l), next) <=> Depth(recs, Opener(l), next) > 0
                /\ l \in DOMAIN scopes' /\ scopes'[l] = scopes[l] => Opener(l)' = Opener(l)
    <2>1. Opener(l) \in 1..(next - 1)
      BY <1>6 DEF Opener
    <2>2. /\ Depth(recs, Opener(l), next) = Depth(recs, Opener(l), next - 1)
               + (IF SymbolOpensScope(recs[next]) THEN 1 ELSE IF SymbolEndsScope(recs[next]) THEN -1 ELSE 0)
          /\ Open(recs, Opener(l), next)
               <=> Open(recs, Opener(l), next - 1) /\ Depth(recs, Opener(l), next) > 0
      BY <2>1, <1>4, OpenNext
    <2>3. l \in DOMAIN scopes' /\ scopes'[l] = scopes[l] => Opener(l)' = Opener(l)
      BY <1>6, <1>7 DEF Opener
    <2> QED
      BY <2>1, <2>2, <2>3, <1>1, <1>3, <1>6
  <1>14. ASSUME NEW l \in DOMAIN scopes'
         PROVE  /\ scopes'[l] \in DOMAIN storage'
                /\ Open(recs, Opener(l)', next)
                /\ Depth(recs, Opener(l)', next) = Len(scopes') - l + 1
    <2>1. CASE l \in DOMAIN scopes /\ scopes'[l] = scopes[l]
      <3>1. scopes'[l] \in DOMAIN storage'
        BY <2>1, <1>6, <1>7
      <3>2. Opener(l)' = Opener(l) /\ l \in Nat
        BY <2>1, <1>5, <1>13
      <3>3. Depth(recs, Opener(l), next) = Len(scopes') - l + 1
        <4>1. Depth(recs, Opener(l), next - 1) = Len(scopes) - l + 1
          BY <2>1, <1>6
        <4>2. Depth(recs, Opener(l), next) = Len(scopes) - l + 1
                + (IF SymbolOpensScope(k) THEN 1 ELSE IF SymbolEndsScope(k) THEN -1 ELSE 0)
          BY <4>1, <2>1, <1>13
        <4>3. scopes # <<>>
          BY <2>1
        <4>4. CASE SymbolOpensScope(k)
          BY <4>2, <4>4, <3>2, <1>5, <1>a
        <4>5. CASE SymbolEndsScope(k)
          <5>1. ~SymbolOpensScope(k)
            BY <4>5 DEF SymbolOpensScope, SymbolEndsScope
          <5> QED
            BY <5>1, <4>2, <4>3, <4>5, <3>2, <1>5, <1>d
        <4>6. CASE ~SymbolOpensScope(k) /\ ~SymbolEndsScope(k)
          BY <4>2, <4>6, <3>2, <1>5, <1>f
        <4> QED
          BY <4>4, <4>5, <4>6
      <3>4. Depth(recs, Opener(l), next) > 0
        BY <3>3, <1>9
      <3> QED
        BY <3>1, <3>2, <3>3, <3>4, <2>1, <1>13
    <2>2. CASE SymbolOpensScope(k) /\ l = Len(scopes) + 1
      <3>1. goes /\ scopes'[l] = Len(storage) + 1
        BY <2>2, <1>7, <1>b
      <3>2. scopes'[l] \in DOMAIN storage'
        BY <3>1, <1>5, <1>7, <1>9
      <3>3. Opener(l)' = next
        BY <3>1, <1>7 DEF Opener
      <3>4. Depth(recs, next, next) = 1
        BY <2>2, <1>1, <1>3, <1>4, DepthOne
      <3>5. Open(recs, next, next)
        <4>1. \A j \in next..next : j = next
          BY <1>4
        <4> QED
          BY <4>1, <3>4, <2>2, <1>1, <1>3 DEF Open
      <3>6. Len(scopes') - l + 1 = 1
        BY <2>2, <1>5, <1>a
      <3> QED
        BY <3>2, <3>3, <3>4, <3>5, <3>6
    <2> QED
      <3>1. CASE SymbolOpensScope(k)
        <4>1. l \in DOMAIN scopes \/ l = Len(scopes) + 1
          BY <3>1, <1>5, <1>9, <1>a
        <4> QED
          BY <4>1, <3>1, <2>1, <2>2, <1>c
      <3>2. CASE SymbolEndsScope(k)
        BY <3>2, <2>1, <1>e
      <3>3. CASE ~SymbolOpensScope(k) /\ ~SymbolEndsScope(k)
        BY <3>3, <2>1, <1>f
      <3> QED
        BY <3>1, <3>2, <3>3
  <1>15. \A l, m \in DOMAIN scopes' : l < m => scopes'[l] < scopes'[m]
    <2>1. ASSUME NEW l \in DOMAIN scopes', NEW m \in DOMAIN scopes', l < m
          PROVE  scopes'[l] < scopes'[m]
      <3>1. CASE SymbolOpensScope(k)
        <4>1. l \in DOMAIN scopes /\ scopes'[l] = scopes[l] /\ scopes[l] \in 1..Len(storage)
          BY <3>1, <2>1, <1>5, <1>6, <1>a, <1>c, <1>9
        <4>2. CASE m \in DOMAIN scopes
          BY <4>1, <4>2, <3>1, <2>1, <1>6, <1>c
        <4>3. CASE m = Len(scopes) + 1
          BY <4>1, <4>3, <3>1, <1>5, <1>b
        <4> QED
          BY <4>2, <4>3, <3>1, <1>5, <1>a, <1>9
      <3>2. CASE SymbolEndsScope(k)
        BY <3>2, <2>1, <1>6, <1>e
      <3>3. CASE ~SymbolOpensScope(k) /\ ~SymbolEndsScope(k)
        BY <3>3, <2>1, <1>6, <1>f
      <3> QED
        BY <3>1, <3>2, <3>3
    <2> QED
      BY <2>1
  <1>16. ASSUME NEW m \in 1..next, Open(recs, m, next)
         PROVE  \E l \in DOMAIN scopes' : Opener(l)' = m
    <2>1. CASE m = next
      <3>1. SymbolOpensScope(k) /\ goes
        BY <2>1, <1>1, <1>3, <1>7, <1>16 DEF Open
      <3>2. Len(scopes) + 1 \in DOMAIN scopes' /\ scopes'[Len(scopes) + 1] = Len(storage) + 1
        BY <3>1, <1>5, <1>a, <1>b, <1>9
      <3> QED
        BY <3>1, <3>2, <2>1, <1>7 DEF Opener
    <2>2. CASE m # next
      <3>1. m \in 1..(next - 1)
        BY <2>2, <1>4
      <3>2. Open(recs, m, next - 1) /\ Depth(recs, m, next) > 0
        BY <3>1, <1>4, <1>16, OpenNext
      <3>3. PICK l \in DOMAIN scopes : Opener(l) = m
        BY <3>1, <3>2, <1>6
      <3>4. Len(scopes) - l + 1
              + (IF SymbolOpensScope(k) THEN 1 ELSE IF SymbolEndsScope(k) THEN -1 ELSE 0) > 0
        BY <3>2, <3>3, <1>6, <1>13
      <3>5. l \in DOMAIN scopes' /\ scopes'[l] = scopes[l]
        <4>1. l \in Nat /\ l >= 1 /\ l <= Len(scopes) /\ scopes # <<>>
          BY <1>5
        <4>2. CASE SymbolOpensScope(k)
          BY <4>1, <4>2, <1>5, <1>a, <1>c, <1>9
        <4>3. CASE SymbolEndsScope(k)
          <5>1. ~SymbolOpensScope(k)
            BY <4>3 DEF SymbolOpensScope, SymbolEndsScope
          <5>2. Len(scopes) - l > 0 /\ Len(scopes') = Len(scopes) - 1
            <6>1. Len(scopes') = Len(scopes) - 1
              BY <4>1, <4>3, <1>d
            <6>2. Len(scopes) - l + 1 + -1 > 0
              BY <5>1, <4>3, <3>4
            <6> QED
              BY <6>1, <6>2, <4>1, <1>5
          <5>3. l \in DOMAIN scopes'
            BY <5>2, <4>1, <1>5, <1>9
          <5> QED
            BY <5>3, <4>3, <1>e
        <4>4. CASE ~SymbolOpensScope(k) /\ ~SymbolEndsScope(k)
          BY <4>4, <1>f
        <4> QED
          BY <4>2, <4>3, <4>4
      <3> QED
        BY <3>3, <3>5, <1>13
    <2> QED
      BY <2>1, <2>2
  <1> QED
    BY <1>3, <1>4, <1>10, <1>11, <1>12, <1>14, <1>15, <1>16 DEF ScopeInv

\* A scope lasts as long as one inside it.
LEMMA OpenExtends ==
  ASSUME NEW recs, NEW q \in Nat, NEW m \in Nat, NEW n \in Nat, q < m, m <= n,
         Open(recs, q, m), Open(recs, m, n)
  PROVE  Open(recs, q, n)
  <1>1. ASSUME NEW j \in q..n
        PROVE  Depth(recs, q, j) > 0
    <2>1. CASE j <= m
      <3>1. j \in q..m
        BY <2>1
      <3> QED
        BY <3>1 DEF Open
    <2>2. CASE j > m
      <3>1. Depth(recs, q, j) = Depth(recs, q, m - 1) + Depth(recs, m, j)
        BY <2>2, DepthSplit
      <3>2. Depth(recs, q, m - 1) > 0
        <4>1. m - 1 \in q..m
          OBVIOUS
        <4> QED
          BY <4>1 DEF Open
      <3>3. Depth(recs, m, j) > 0
        <4>1. j \in m..n
          BY <2>2
        <4> QED
          BY <4>1 DEF Open
      <3>4. Depth(recs, q, m - 1) \in Int /\ Depth(recs, m, j) \in Int
        <4>1. m - 1 \in Int /\ q \in Int /\ m \in Int /\ j \in Int
          OBVIOUS
        <4> QED
          BY <4>1, DepthParts
      <3> QED
        BY <3>1, <3>2, <3>3, <3>4
    <2> QED
      BY <2>1, <2>2
  <1> QED
    BY <1>1 DEF Open

\* A scope ends once.
LEMMA EndsNext ==
  ASSUME NEW recs, NEW n \in Nat, n >= 1, NEW m \in 1..(n - 1)
  PROVE  /\ ~(SymbolOpensScope(recs[m]) /\ Closes(recs, m, n)) => Ends(recs, m, n) = Ends(recs, m, n - 1)
         /\ SymbolOpensScope(recs[m]) /\ Closes(recs, m, n) => Ends(recs, m, n) = {n}
  <1>1. \A j : j \in 1..n <=> j \in 1..(n - 1) \/ j = n
    OBVIOUS
  <1>2. ~(SymbolOpensScope(recs[m]) /\ Closes(recs, m, n)) => Ends(recs, m, n) = Ends(recs, m, n - 1)
    BY <1>1 DEF Ends
  <1>3. ASSUME SymbolOpensScope(recs[m]), Closes(recs, m, n)
        PROVE  Ends(recs, m, n) = {n}
    <2>1. \A j \in 1..(n - 1) : ~Closes(recs, m, j)
      <3>1. SUFFICES ASSUME NEW j \in 1..(n - 1), Closes(recs, m, j)
                     PROVE  FALSE
        OBVIOUS
      <3>2. Depth(recs, m, j) = 0 /\ m < j
        BY <3>1 DEF Closes
      <3>3. j \in m..(n - 1)
        BY <3>1, <3>2
      <3> QED
        BY <3>2, <3>3, <1>3 DEF Closes
    <2> QED
      BY <2>1, <1>1, <1>3 DEF Ends
  <1> QED
    BY <1>2, <1>3

LEMMA EndsNone ==
  ASSUME NEW recs, NEW n \in Nat
  PROVE  Ends(recs, n, n) = {}
  <1>1. \A j \in 1..n : ~(n < j)
    OBVIOUS
  <1> QED
    BY <1>1 DEF Ends, Closes

\* Links survive records that are added.
LEMMA LinkKept ==
  ASSUME NEW x, NEW recs, NEW n, NEW old, NEW new, NEW base, NEW m,
         LinkRight(x, recs, n, old, base), Ends(recs, x.rec[2], m) = Ends(recs, x.rec[2], n),
         \A i \in DOMAIN old : i \in DOMAIN new /\ new[i].rec = old[i].rec
  PROVE  LinkRight(x, recs, m, new, base)
  <1>1. \A p, off : WrittenIn(old, base, p, off) => WrittenIn(new, base, p, off)
    BY DEF WrittenIn
  <1>2. \A j \in Ends(recs, x.rec[2], m) : WrittenIn(new, base, <<x.rec[1], j>>, x.ptrEnd)
    BY <1>1 DEF LinkRight
  <1>3. Ends(recs, x.rec[2], m) = {} => x.ptrEnd = NoOffset
    BY DEF LinkRight
  <1>4. Ends(recs, x.rec[2], m) # {} /\ Around(recs, x.rec[2]) = {} => x.ptrParent = NoOffset
    BY DEF LinkRight
  <1>5. ASSUME Ends(recs, x.rec[2], m) # {}, Around(recs, x.rec[2]) # {}
        PROVE  \E k \in Around(recs, x.rec[2]) :
                 /\ \A l \in Around(recs, x.rec[2]) : l <= k
                 /\ WrittenIn(new, base, <<x.rec[1], k>>, x.ptrParent)
    <2>1. \E k \in Around(recs, x.rec[2]) :
            /\ \A l \in Around(recs, x.rec[2]) : l <= k
            /\ WrittenIn(old, base, <<x.rec[1], k>>, x.ptrParent)
      BY <1>5 DEF LinkRight
    <2> QED
      BY <2>1, <1>1
  <1> QED
    BY <1>2, <1>3, <1>4, <1>5 DEF LinkRight

\* The scope stack is that of the scopes which are open.
LEMMA StackFacts ==
  ASSUME WalkInv, phase = "write", sub <= Len(subs), NEW recs, recs = subs[sub].recs
  PROVE  /\ scopes \in Seq(Nat) /\ Len(scopes) \in Nat /\ DOMAIN scopes = 1..Len(scopes)
         /\ storage \in Seq(WrittenRecord) /\ DOMAIN storage = 1..Len(storage) /\ Len(storage) \in Nat
         /\ next \in Nat /\ next >= 1
         /\ \A i \in DOMAIN storage :
              storage[i].rec[1] = sub /\ storage[i].rec[2] \in 1..(next - 1)
         /\ \A i, j \in DOMAIN storage : i < j => storage[i].rec[2] < storage[j].rec[2]
         /\ \A k \in DOMAIN scopes :
              /\ scopes[k] \in DOMAIN storage
              /\ Open(recs, Opener(k), next - 1)
              /\ Depth(recs, Opener(k), next - 1) = Len(scopes) - k + 1
         /\ \A k, l \in DOMAIN scopes : k < l => scopes[k] < scopes[l]
         /\ \A m \in 1..(next - 1) :
              Open(recs, m, next - 1) => \E k \in DOMAIN scopes : Opener(k) = m
  <1>1. WalkTypeOK /\ ScopeInv
    BY DEF WalkInv
  <1>2. /\ scopes \in Seq(Nat) /\ storage \in Seq(WrittenRecord) /\ next \in Nat /\ next >= 1
    BY <1>1 DEF WalkTypeOK
  <1> QED
    BY <1>1, <1>2 DEF ScopeInv

\* A scope that ends at the next record is the innermost one.
LEMMA ClosedIsTop ==
  ASSUME WalkInv, phase = "write", sub <= Len(subs), NEW recs, recs = subs[sub].recs,
         NEW i \in DOMAIN storage, NEW m, m = storage[i].rec[2],
         SymbolOpensScope(recs[m]), Closes(recs, m, next)
  PROVE  scopes # <<>> /\ i = scopes[Len(scopes)] /\ SymbolEndsScope(recs[next])
  <1>1. /\ scopes \in Seq(Nat) /\ storage \in Seq(WrittenRecord)
        /\ Len(scopes) \in Nat /\ DOMAIN scopes = 1..Len(scopes)
        /\ DOMAIN storage = 1..Len(storage) /\ Len(storage) \in Nat
        /\ next \in Nat /\ next >= 1 /\ m \in 1..(next - 1)
    BY StackFacts
  <1>2. /\ Open(recs, m, next - 1) /\ Depth(recs, m, next) = 0
        /\ Depth(recs, m, next - 1) \in Int
        /\ Depth(recs, m, next) = Depth(recs, m, next - 1)
              + (IF SymbolOpensScope(recs[next]) THEN 1
                 ELSE IF SymbolEndsScope(recs[next]) THEN -1 ELSE 0)
    BY <1>1, OpenNext
  <1>3. Depth(recs, m, next - 1) > 0
    <2>1. next - 1 \in m..(next - 1)
      BY <1>1
    <2> QED
      BY <2>1, <1>2 DEF Open
  <1>4. SymbolEndsScope(recs[next]) /\ Depth(recs, m, next - 1) = 1
    BY <1>2, <1>3
  <1>5. PICK l \in DOMAIN scopes : Opener(l) = m
    BY <1>1, <1>2, StackFacts
  <1>6. scopes[l] \in DOMAIN storage /\ Depth(recs, m, next - 1) = Len(scopes) - l + 1
    BY <1>5, StackFacts
  <1>7. l = Len(scopes)
    <2>1. PICK n \in Nat : n = Len(scopes) /\ l \in 1..n
      BY <1>1, <1>5
    <2>2. 1 = n - l + 1
      BY <2>1, <1>4, <1>6
    <2> QED
      BY <2>1, <2>2
  <1>8. PICK t \in DOMAIN storage : t = scopes[l] /\ storage[t].rec[2] = m
    BY <1>5, <1>6 DEF Opener
  <1>9. t = i
    <2>1. t < i => storage[t].rec[2] < storage[i].rec[2]
      BY StackFacts
    <2>2. i < t => storage[i].rec[2] < storage[t].rec[2]
      BY StackFacts
    <2>3. i \in Nat /\ t \in Nat /\ m \in Nat
      BY <1>1, <1>8
    <2>4. ~(t < i) /\ ~(i < t)
      BY <2>1, <2>2, <2>3, <1>8
    <2> QED
      BY <2>3, <2>4
  <1> QED
    BY <1>1, <1>4, <1>7, <1>8, <1>9

\* An end closes the innermost scope.
LEMMA TopIsClosed ==
  ASSUME WalkInv, phase = "write", sub <= Len(subs), NEW recs, recs = subs[sub].recs,
         scopes # <<>>, SymbolEndsScope(recs[next])
  PROVE  LET m == Opener(Len(scopes)) IN SymbolOpensScope(recs[m]) /\ Closes(recs, m, next)
  <1>1. PICK n \in Nat : n = Len(scopes) /\ n \in DOMAIN scopes
    <2>1. scopes \in Seq(Nat)
      BY StackFacts
    <2> QED
      BY <2>1
  <1>2. PICK m : m = Opener(n)
    OBVIOUS
  <1>3. /\ Open(recs, m, next - 1) /\ Depth(recs, m, next - 1) = n - n + 1 /\ scopes[n] \in DOMAIN storage
    BY <1>1, <1>2, StackFacts
  <1>4. m \in 1..(next - 1) /\ next \in Nat /\ next >= 1
    BY <1>2, <1>3, StackFacts DEF Opener
  <1>5. ~SymbolOpensScope(recs[next])
    BY DEF SymbolOpensScope, SymbolEndsScope
  <1>6. Depth(recs, m, next) = 0
    BY <1>1, <1>3, <1>4, <1>5, OpenNext
  <1>7. SymbolOpensScope(recs[m])
    BY <1>3 DEF Open
  <1>8. Closes(recs, m, next)
    BY <1>3, <1>4, <1>6, <1>7, OpenNext
  <1> QED
    BY <1>1, <1>2, <1>7, <1>8

\* The scope below the innermost one on the stack is the innermost one around it.
LEMMA StackAround ==
  ASSUME WalkInv, phase = "write", sub <= Len(subs), NEW recs, recs = subs[sub].recs,
         NEW n \in Nat, n = Len(scopes), n >= 1
  PROVE  /\ n = 1 => Around(recs, Opener(n)) = {}
         /\ n > 1 => /\ Opener(n - 1) \in Around(recs, Opener(n))
                     /\ \A q \in Around(recs, Opener(n)) : q <= Opener(n - 1)
  <1>1. /\ DOMAIN scopes = 1..n /\ DOMAIN storage = 1..Len(storage) /\ Len(storage) \in Nat
        /\ next \in Nat /\ next >= 1 /\ n \in DOMAIN scopes
    BY StackFacts
  <1>2. \A k \in DOMAIN scopes : Opener(k) \in 1..(next - 1) /\ Open(recs, Opener(k), next - 1)
    BY StackFacts DEF Opener
  <1>3. \A k, l \in DOMAIN scopes : k < l => Opener(k) < Opener(l)
    <2>1. ASSUME NEW k \in DOMAIN scopes, NEW l \in DOMAIN scopes, k < l
          PROVE  Opener(k) < Opener(l)
      <3>1. scopes[k] < scopes[l] /\ scopes[k] \in DOMAIN storage /\ scopes[l] \in DOMAIN storage
        BY <2>1, StackFacts
      <3>2. \A i, j \in DOMAIN storage : i < j => storage[i].rec[2] < storage[j].rec[2]
        BY StackFacts
      <3> QED
        BY <3>1, <3>2 DEF Opener
    <2> QED
      BY <2>1
  <1>4. ASSUME NEW q \in Around(recs, Opener(n))
        PROVE  n > 1 /\ q <= Opener(n - 1)
    <2>1. PICK m \in 1..(next - 1) : m = Opener(n) /\ Open(recs, m, next - 1)
      BY <1>1, <1>2
    <2>2. q \in 1..(m - 1) /\ Open(recs, q, m)
      BY <2>1 DEF Around
    <2>3. q \in Nat /\ m \in Nat /\ next - 1 \in Nat /\ q < m /\ m <= next - 1
      BY <2>1, <2>2, <1>1
    <2>4. Open(recs, q, next - 1)
      BY <2>1, <2>2, <2>3, OpenExtends
    <2>5. q \in 1..(next - 1)
      BY <2>2, <2>3
    <2>6. PICK l \in DOMAIN scopes : Opener(l) = q
      BY <2>4, <2>5, StackFacts
    <2>7. l < n
      <3>1. l # n
        BY <2>1, <2>3, <2>6
      <3> QED
        BY <3>1, <1>1
    <2>8. n - 1 \in DOMAIN scopes /\ n > 1
      BY <2>7, <1>1
    <2>9. CASE l = n - 1
      BY <2>6, <2>8, <2>9, <2>3
    <2>10. CASE l < n - 1
      <3>1. Opener(l) < Opener(n - 1)
        BY <2>8, <2>10, <1>3
      <3>2. Opener(n - 1) \in 1..(next - 1)
        BY <2>8, <1>2
      <3> QED
        BY <3>1, <3>2, <2>3, <2>6, <2>8, <1>1
    <2> QED
      BY <2>7, <2>9, <2>10, <1>1
  <1>5. ASSUME n > 1
        PROVE  Opener(n - 1) \in Around(recs, Opener(n))
    <2>1. n - 1 \in DOMAIN scopes /\ n - 1 < n
      BY <1>1, <1>5
    <2>2. PICK m \in 1..(next - 1) : m = Opener(n)
      BY <1>1, <1>2
    <2>3. PICK q \in 1..(next - 1) : q = Opener(n - 1) /\ q < m /\ Open(recs, q, next - 1)
      BY <2>1, <2>2, <1>1, <1>2, <1>3
    <2>4. \A j \in q..m : j \in q..(next - 1)
      BY <1>1
    <2>5. Open(recs, q, m) /\ q \in 1..(m - 1)
      BY <2>3, <2>4, <1>1 DEF Open
    <2> QED
      BY <2>2, <2>3, <2>5 DEF Around
  <1> QED
    BY <1>4, <1>5

LEMMA WriteRecordLinks ==
  ASSUME WalkInv, WriteRecord
  PROVE  LinksInv'
  <1>1. PICK k : k = subs[sub].recs[next]
    OBVIOUS
  <1>2. PICK goes : goes = SymbolGoesInModuleStream(k, Len(scopes'))
    OBVIOUS
  <1>3. PICK recs : recs = subs[sub].recs
    OBVIOUS
  <1>4. /\ phase = "write" /\ phase' = "write" /\ sub' = sub /\ next' = next + 1
        /\ next \in Nat /\ next >= 1 /\ subs' = subs /\ sub \in Nat /\ sub <= Len(subs)
        /\ stream' = stream /\ Written' = Written
    BY WriteRecordPlace
  <1>5. PICK base \in Nat : base = Written
    BY DEF WalkInv, WalkTypeOK, Written, kSymbolStreamMagicSize
  <1>6. /\ scopes \in Seq(Nat) /\ storage \in Seq(WrittenRecord)
        /\ Len(scopes) \in Nat /\ Len(storage) \in Nat
        /\ DOMAIN scopes = 1..Len(scopes) /\ DOMAIN storage = 1..Len(storage)
        /\ \A i \in DOMAIN storage :
             storage[i].rec[1] = sub /\ storage[i].rec[2] \in 1..(next - 1)
    BY <1>3, <1>4, StackFacts
  <1>a. goes \in BOOLEAN /\ (SymbolEndsScope(k) => goes)
    BY <1>1, <1>2, WriteRecordShape
  <1>b. /\ storage' \in Seq(WrittenRecord)
        /\ Len(storage') = Len(storage) + (IF goes THEN 1 ELSE 0)
    BY <1>1, <1>2, WriteRecordShape
  <1>c. \A i \in DOMAIN storage : i \in DOMAIN storage' /\ storage'[i].rec = storage[i].rec
    BY <1>1, <1>2, WriteRecordShape
  <1>7. goes => storage'[Len(storage) + 1] =
                     [rec |-> <<sub, next>>, ptrEnd |-> NoOffset, ptrParent |-> NoOffset]
    BY <1>1, <1>2, WriteRecordShape
  <1>8. ~SymbolEndsScope(k) \/ scopes = <<>> => \A i \in DOMAIN storage : storage'[i] = storage[i]
    BY <1>1, <1>2, WriteRecordShape
  <1>9. \A i \in DOMAIN storage : LinkRight(storage[i], recs, next - 1, storage, base)
    BY <1>3, <1>4, <1>5 DEF WalkInv, LinksInv, StorageLinked
  <1>10. \A i \in DOMAIN storage' : i \in DOMAIN storage \/ (goes /\ i = Len(storage) + 1)
    BY <1>6, <1>a, <1>b
  <1>11. ASSUME NEW i \in DOMAIN storage'
         PROVE  LinkRight(storage'[i], recs, next, storage', base)
    <2>1. CASE goes /\ i = Len(storage) + 1
      <3>1. PICK x : x = storage'[i] /\ x.rec[2] = next /\ x.ptrEnd = NoOffset
        BY <2>1, <1>7
      <3>2. Ends(recs, x.rec[2], next) = {}
        BY <3>1, <1>4, EndsNone
      <3> QED
        BY <3>1, <3>2 DEF LinkRight
    <2>2. CASE i \in DOMAIN storage
      <3>1. PICK m \in 1..(next - 1) : m = storage[i].rec[2]
        BY <2>2, <1>6
      <3>2. CASE ~(SymbolOpensScope(recs[m]) /\ Closes(recs, m, next))
        <4>1. storage'[i] = storage[i]
          <5>1. CASE ~SymbolEndsScope(k) \/ scopes = <<>>
            BY <5>1, <2>2, <1>8
          <5>2. CASE SymbolEndsScope(k) /\ scopes # <<>>
            <6>1. \A j \in DOMAIN storage : j # scopes[Len(scopes)] => storage'[j] = storage[j]
              BY <5>2, <1>1, <1>2, WriteRecordShape
            <6>2. LET q == Opener(Len(scopes)) IN SymbolOpensScope(recs[q]) /\ Closes(recs, q, next)
              BY <5>2, <1>1, <1>3, <1>4, TopIsClosed
            <6>3. i # scopes[Len(scopes)]
              BY <6>2, <3>1, <3>2 DEF Opener
            <6> QED
              BY <6>1, <6>3, <2>2
          <5> QED
            BY <5>1, <5>2
        <4>2. PICK x : x = storage[i] /\ x.rec[2] = m
          BY <3>1
        <4>3. Ends(recs, x.rec[2], next) = Ends(recs, x.rec[2], next - 1)
          BY <3>2, <4>2, <1>4, EndsNext
        <4>4. LinkRight(x, recs, next - 1, storage, base)
          BY <4>2, <2>2, <1>9
        <4>5. LinkRight(x, recs, next, storage', base)
          BY <4>3, <4>4, <1>c, LinkKept
        <4> QED
          BY <4>1, <4>2, <4>5
      <3>3. CASE SymbolOpensScope(recs[m]) /\ Closes(recs, m, next)
        <4>1. scopes # <<>> /\ i = scopes[Len(scopes)] /\ SymbolEndsScope(k)
          BY <3>1, <3>3, <2>2, <1>1, <1>3, <1>4, ClosedIsTop
        <4>2. PICK n \in Nat : n = Len(scopes) /\ n >= 1 /\ i = scopes[n] /\ m = Opener(n) /\ n \in DOMAIN scopes
          BY <4>1, <3>1, <1>6 DEF Opener
        <4>3. PICK x : x = storage'[i]
          OBVIOUS
        <4>4. /\ x.ptrEnd = base + Len(storage)
              /\ x.ptrParent = IF n = 1 THEN NoOffset ELSE scopes[n - 1] - 1 + base
          BY <4>1, <4>2, <4>3, <1>1, <1>2, <1>5, WriteRecordShape
        <4>5. x.rec[1] = sub /\ x.rec[2] = m
          BY <4>3, <3>1, <2>2, <1>6, <1>c
        <4>6. Ends(recs, m, next) = {next}
          BY <3>3, <1>4, EndsNext
        <4>7. WrittenIn(storage', base, <<sub, next>>, base + Len(storage))
          <5>1. base + Len(storage) - base + 1 = Len(storage) + 1
            BY <1>6
          <5>2. Len(storage) + 1 \in DOMAIN storage' /\ storage'[Len(storage) + 1].rec = <<sub, next>>
            BY <4>1, <1>6, <1>7, <1>a, <1>b
          <5> QED
            BY <5>1, <5>2 DEF WrittenIn
        <4>8. Around(recs, m) = {} => x.ptrParent = NoOffset
          <5>1. CASE n = 1
            BY <5>1, <4>4
          <5>2. CASE n > 1
            BY <5>2, <4>2, <1>3, <1>4, StackAround
          <5> QED
            BY <5>1, <5>2, <4>2
        <4>9. ASSUME Around(recs, m) # {}
              PROVE  \E q \in Around(recs, m) :
                       /\ \A l \in Around(recs, m) : l <= q
                       /\ WrittenIn(storage', base, <<sub, q>>, x.ptrParent)
          <5>1. n > 1
            BY <4>2, <4>9, <1>3, <1>4, StackAround
          <5>2. Opener(n - 1) \in Around(recs, m) /\ \A q \in Around(recs, m) : q <= Opener(n - 1)
            BY <5>1, <4>2, <1>3, <1>4, StackAround
          <5>3. n - 1 \in DOMAIN scopes
            BY <5>1, <4>2, <1>6
          <5>4. PICK t \in DOMAIN storage : t = scopes[n - 1]
            BY <5>3, <1>3, <1>4, StackFacts
          <5>5. storage[t].rec = <<sub, Opener(n - 1)>> /\ storage'[t].rec = storage[t].rec /\ t \in DOMAIN storage'
            <6>1. storage[t] \in WrittenRecord
              BY <5>4, <1>6
            <6>2. storage[t].rec \in PlaceOf
              BY <6>1 DEF WrittenRecord
            <6>3. storage[t].rec = <<storage[t].rec[1], storage[t].rec[2]>>
              BY <6>2 DEF PlaceOf
            <6>4. storage[t].rec[1] = sub /\ Opener(n - 1) = storage[t].rec[2]
              BY <5>4, <1>6 DEF Opener
            <6> QED
              BY <6>3, <6>4, <1>c
          <5>6. x.ptrParent = t - 1 + base /\ t \in Nat
            <6>1. x.ptrParent = scopes[n - 1] - 1 + base
              BY <5>1, <4>4
            <6>2. t \in Nat
              BY <5>4, <1>6
            <6> QED
              BY <6>1, <6>2, <5>4
          <5>7. x.ptrParent - base + 1 = t
            BY <5>6
          <5>8. WrittenIn(storage', base, <<sub, Opener(n - 1)>>, x.ptrParent)
            BY <5>5, <5>7 DEF WrittenIn
          <5>9. PICK o \in Around(recs, m) : o = Opener(n - 1)
            BY <5>2
          <5>10. \A l \in Around(recs, m) : l <= o
            BY <5>2, <5>9
          <5>11. WrittenIn(storage', base, <<sub, o>>, x.ptrParent)
            BY <5>8, <5>9
          <5> QED
            BY <5>9, <5>10, <5>11
        <4> QED
          BY <4>3, <4>4, <4>5, <4>6, <4>7, <4>8, <4>9 DEF LinkRight
      <3> QED
        BY <3>2, <3>3
    <2> QED
      BY <2>1, <2>2, <1>10
  <1>12. StorageLinked(storage', recs, next, base)
    BY <1>11 DEF StorageLinked
  <1>13. next' - 1 = next /\ subs'[sub'].recs = recs /\ Written' = base /\ Records' = Records
    BY <1>3, <1>4, <1>5 DEF Records
  <1>14. StreamLinked(stream', subs') /\ \A i \in DOMAIN stream' : stream'[i].rec \in Records
    BY <1>4 DEF WalkInv, LinksInv
  <1> QED
    BY <1>12, <1>13, <1>14 DEF LinksInv

LEMMA WriteRecordInv ==
  ASSUME WalkInv, WriteRecord
  PROVE  WalkInv'
  <1>1. WalkTypeOK /\ WhereInv /\ OffsetInv /\ PendingInv /\ KeptInv /\ StreamInv
    BY DEF WalkInv
  <1>2. /\ phase = "write" /\ phase' = "write" /\ sub' = sub /\ next' = next + 1 /\ next \in Nat
        /\ subs' = subs /\ stream' = stream /\ sub <= Len(subs) /\ next <= Len(subs[sub].recs)
        /\ UNCHANGED <<subs, analysis>>
    BY WriteRecordPlace
  <1>3. storage' \in Seq(WrittenRecord) /\ scopes' \in Seq(Nat)
    BY WriteRecordShape
  <1>4. WalkTypeOK'
    <2>1. /\ subs' = subs /\ scopeLevel' = scopeLevel /\ symOffset' = symOffset /\ symStart' = symStart
          /\ pendingGlobals' = pendingGlobals /\ fixups' = fixups
      BY <1>2 DEF analysis
    <2> QED
      BY <2>1, <1>1, <1>2, <1>3 DEF WalkTypeOK
  <1>5. WhereInv'
    <2>1. Len(subs[sub].recs) \in Nat /\ Len(subs) \in Nat /\ sub \in Nat
      <3>1. sub \in DOMAIN subs /\ subs \in Seq(Subsection)
        BY WriteRecordPlace
      <3> QED
        BY <3>1, SubsectionFacts
    <2>2. sub <= Len(subs) + 1 /\ next + 1 <= Len(subs[sub].recs) + 1 /\ ~(sub > Len(subs))
      BY <2>1, <1>2
    <2> QED
      BY <2>2, <1>2 DEF WhereInv
  <1>6. OffsetInv' /\ PendingInv' /\ KeptInv'
    BY <1>2, WriteKeeps
  <1>7. StreamInv'
    <2>1. WalkReached' = WalkReached
      BY <1>2 DEF WalkReached
    <2>2. WellFormed' <=> WellFormed
      BY <1>2 DEF WellFormed
    <2>3. \A p : Rank(p)' = Rank(p)
      BY <1>2 DEF Rank
    <2> QED
      BY <2>1, <2>2, <2>3, <1>1, <1>2 DEF StreamInv
  <1> QED
    BY <1>4, <1>5, <1>6, <1>7, WriteRecordStorage, WriteRecordScopes, WriteRecordLinks DEF WalkInv

\* Links survive when the records are moved behind others.
LEMMA LinkShifted ==
  ASSUME NEW x \in WrittenRecord, NEW recs, NEW n, NEW old, NEW new, NEW base \in Int, NEW shift \in Int,
         LinkRight(x, recs, n, old, base + shift),
         \A i \in DOMAIN old : shift + i \in DOMAIN new /\ new[shift + i].rec = old[i].rec
  PROVE  LinkRight(x, recs, n, new, base)
  <1>1. x.ptrEnd \in Int /\ x.ptrParent \in Int
    BY DEF WrittenRecord
  <1>2. ASSUME NEW p, NEW off \in Int, WrittenIn(old, base + shift, p, off)
        PROVE  WrittenIn(new, base, p, off)
    <2>1. PICK i : i = off - (base + shift) + 1 /\ i \in DOMAIN old /\ old[i].rec = p /\ i \in Int
      BY <1>2 DEF WrittenIn
    <2>2. off - base + 1 = shift + i
      BY <2>1
    <2>3. shift + i \in DOMAIN new /\ new[shift + i].rec = p
      BY <2>1
    <2> QED
      BY <2>2, <2>3 DEF WrittenIn
  <1>3. \A j \in Ends(recs, x.rec[2], n) : WrittenIn(new, base, <<x.rec[1], j>>, x.ptrEnd)
    <2>1. \A j \in Ends(recs, x.rec[2], n) : WrittenIn(old, base + shift, <<x.rec[1], j>>, x.ptrEnd)
      BY DEF LinkRight
    <2> QED
      BY <2>1, <1>1, <1>2
  <1>4. Ends(recs, x.rec[2], n) = {} => x.ptrEnd = NoOffset
    BY DEF LinkRight
  <1>5. Ends(recs, x.rec[2], n) # {} /\ Around(recs, x.rec[2]) = {} => x.ptrParent = NoOffset
    BY DEF LinkRight
  <1>6. ASSUME Ends(recs, x.rec[2], n) # {}, Around(recs, x.rec[2]) # {}
        PROVE  \E k \in Around(recs, x.rec[2]) :
                 /\ \A l \in Around(recs, x.rec[2]) : l <= k
                 /\ WrittenIn(new, base, <<x.rec[1], k>>, x.ptrParent)
    <2>1. \E k \in Around(recs, x.rec[2]) :
            /\ \A l \in Around(recs, x.rec[2]) : l <= k
            /\ WrittenIn(old, base + shift, <<x.rec[1], k>>, x.ptrParent)
      BY <1>6 DEF LinkRight
    <2> QED
      BY <2>1, <1>1, <1>2
  <1> QED
    BY <1>3, <1>4, <1>5, <1>6 DEF LinkRight

\* Where the second walk is at the end of a subsection.
LEMMA WriteEndPlace ==
  ASSUME WalkInv, WriteEnd
  PROVE  /\ phase = "write" /\ phase' = "write" /\ sub' = sub + 1 /\ next' = 1
         /\ subs' = subs /\ scopes' = <<>> /\ storage' = <<>> /\ UNCHANGED <<subs, analysis>>
         /\ stream' = IF subs[sub].corrupt THEN stream ELSE stream \o storage
         /\ subs \in Seq(Subsection) /\ sub \in DOMAIN subs /\ sub \in Nat /\ sub <= Len(subs)
         /\ Len(subs) \in Nat /\ Len(subs) <= MaxSubsections
         /\ subs[sub].recs \in Seq(Kinds) /\ Len(subs[sub].recs) \in Nat
         /\ Len(subs[sub].recs) <= MaxRecords /\ next = Len(subs[sub].recs) + 1
         /\ stream \in Seq(WrittenRecord) /\ storage \in Seq(WrittenRecord)
  <1>1. WalkTypeOK /\ WhereInv
    BY DEF WalkInv
  <1>2. /\ phase = "write" /\ phase' = "write" /\ sub' = sub + 1 /\ next' = 1
        /\ subs' = subs /\ scopes' = <<>> /\ storage' = <<>> /\ UNCHANGED <<subs, analysis>>
        /\ stream' = IF subs[sub].corrupt THEN stream ELSE stream \o storage
        /\ sub <= Len(subs) /\ next > Len(subs[sub].recs)
    BY DEF WriteEnd
  <1>3. /\ subs \in Seq(Subsection) /\ sub \in DOMAIN subs /\ sub \in Nat /\ next \in Nat
        /\ Len(subs) \in Nat /\ Len(subs) <= MaxSubsections
        /\ Len(subs[sub].recs) <= MaxRecords
        /\ stream \in Seq(WrittenRecord) /\ storage \in Seq(WrittenRecord)
    BY <1>1, <1>2 DEF WalkTypeOK
  <1>4. subs[sub].recs \in Seq(Kinds) /\ Len(subs[sub].recs) \in Nat
    BY <1>3, SubsectionFacts
  <1>5. next <= Len(subs[sub].recs) + 1
    BY <1>1, <1>2 DEF WhereInv
  <1>6. next = Len(subs[sub].recs) + 1
    BY <1>2, <1>3, <1>4, <1>5
  <1> QED
    BY <1>2, <1>3, <1>4, <1>6

\* What a subsection adds to the stream.
LEMMA WriteEndStream ==
  ASSUME WalkInv, WriteEnd
  PROVE  /\ stream' \in Seq(WrittenRecord)
         /\ \A i \in DOMAIN stream : i \in DOMAIN stream' /\ stream'[i] = stream[i]
         /\ subs[sub].corrupt => stream' = stream
         /\ ~subs[sub].corrupt =>
              /\ Len(stream') = Len(stream) + Len(storage)
              /\ \A i \in DOMAIN storage :
                   Len(stream) + i \in DOMAIN stream' /\ stream'[Len(stream) + i] = storage[i]
              /\ \A i \in DOMAIN stream' :
                   i \notin DOMAIN stream => \E j \in DOMAIN storage : i = Len(stream) + j
  <1>1. /\ stream \in Seq(WrittenRecord) /\ storage \in Seq(WrittenRecord)
        /\ Len(stream) \in Nat /\ Len(storage) \in Nat
        /\ DOMAIN stream = 1..Len(stream) /\ DOMAIN storage = 1..Len(storage)
        /\ stream' = IF subs[sub].corrupt THEN stream ELSE stream \o storage
    BY WriteEndPlace
  <1>2. CASE subs[sub].corrupt
    BY <1>1, <1>2
  <1>3. CASE ~subs[sub].corrupt
    <2>1. PICK out : out = stream \o storage /\ out = stream'
      BY <1>1, <1>3
    <2>2. out \in Seq(WrittenRecord) /\ Len(out) = Len(stream) + Len(storage)
      BY <2>1, <1>1, ConcatProperties
    <2>3. \A i \in 1..Len(stream) : i \in DOMAIN out /\ out[i] = stream[i]
      BY <2>1, <2>2, <1>1
    <2>4. \A i \in 1..Len(storage) : Len(stream) + i \in DOMAIN out /\ out[Len(stream) + i] = storage[i]
      BY <2>1, <2>2, <1>1
    <2>5. ASSUME NEW i \in DOMAIN out, i \notin DOMAIN stream
          PROVE  \E j \in DOMAIN storage : i = Len(stream) + j
      <3>1. i \in Nat /\ i > Len(stream) /\ i <= Len(stream) + Len(storage)
        BY <2>2, <2>5, <1>1
      <3>2. PICK j \in Nat : j = i - Len(stream) /\ j \in 1..Len(storage)
        BY <3>1, <1>1
      <3>3. i = Len(stream) + j
        BY <3>1, <3>2, <1>1
      <3> QED
        BY <3>2, <3>3, <1>1
    <2> QED
      BY <2>1, <2>2, <2>3, <2>4, <2>5, <1>1, <1>3
  <1> QED
    BY <1>2, <1>3

LEMMA WriteEndStreamInv ==
  ASSUME WalkInv, WriteEnd
  PROVE  StreamInv' /\ StorageInv'
  <1>1. /\ phase = "write" /\ phase' = "write" /\ sub' = sub + 1 /\ next' = 1
        /\ subs' = subs /\ scopes' = <<>> /\ storage' = <<>>
        /\ subs \in Seq(Subsection) /\ sub \in DOMAIN subs /\ sub \in Nat /\ sub <= Len(subs)
        /\ subs[sub].recs \in Seq(Kinds) /\ next = Len(subs[sub].recs) + 1
    BY WriteEndPlace
  <1>2. WellFormed' <=> WellFormed
    BY <1>1 DEF WellFormed
  <1>3. \A p : Rank(p)' = Rank(p)
    BY <1>1 DEF Rank
  <1>4. Before(subs, sub + 1, 1) =
          IF subs[sub].corrupt THEN Before(subs, sub, 1) ELSE Before(subs, sub, next)
    BY <1>1, BeforeNextSubsection
  <1>5. \A p \in Places : p[1] \in Nat /\ p[2] \in Nat /\ p[2] >= 1
    BY BoundsAssumption DEF Places
  <1>6. ASSUME WellFormed
        PROVE  /\ Len(stream') = Cardinality(Before(subs, sub + 1, 1))
               /\ \A p \in Before(subs, sub + 1, 1) :
                    Rank(p) \in DOMAIN stream' /\ stream'[Rank(p)].rec = p
    <2>1. /\ Len(stream) = Cardinality(Before(subs, sub, 1))
          /\ \A p \in Before(subs, sub, 1) : Rank(p) \in DOMAIN stream /\ stream[Rank(p)].rec = p
      BY <1>1, <1>6 DEF WalkInv, StreamInv, WalkReached
    <2>2. CASE subs[sub].corrupt
      <3>1. stream' = stream
        BY <2>2, WriteEndStream
      <3> QED
        BY <3>1, <2>1, <2>2, <1>4
    <2>3. CASE ~subs[sub].corrupt
      <3>1. /\ Len(stream) + Len(storage) = Cardinality(Before(subs, sub, next))
            /\ \A p \in Before(subs, sub, next) : p[1] = sub =>
                 /\ Rank(p) - Len(stream) \in DOMAIN storage
                 /\ storage[Rank(p) - Len(stream)].rec = p
        BY <2>3, <1>1, <1>6 DEF WalkInv, StorageInv
      <3>2. Len(stream') = Cardinality(Before(subs, sub + 1, 1))
        BY <3>1, <2>3, <1>4, WriteEndStream
      <3>3. ASSUME NEW p \in Before(subs, sub, next)
            PROVE  Rank(p) \in DOMAIN stream' /\ stream'[Rank(p)].rec = p
        <4>1. PICK r \in Nat : r = Rank(p)
          BY BeforeFinite DEF Rank
        <4>2. CASE p[1] = sub
          <5>1. PICK n \in Nat : n = Len(stream)
            BY WriteEndPlace
          <5>2. PICK i : i = r - n /\ i \in DOMAIN storage /\ storage[i].rec = p
            BY <5>1, <4>1, <4>2, <3>1, <3>3
          <5>3. n + i \in DOMAIN stream' /\ stream'[n + i] = storage[i]
            BY <5>1, <5>2, <2>3, WriteEndStream
          <5>4. n + i = r
            BY <5>1, <5>2, <4>1
          <5> QED
            BY <5>2, <5>3, <5>4, <4>1
        <4>3. CASE p[1] # sub
          <5>1. p \in Before(subs, sub, 1)
            BY <4>3, <3>3 DEF Before
          <5>2. r \in DOMAIN stream /\ stream[r].rec = p
            BY <5>1, <4>1, <2>1
          <5>3. r \in DOMAIN stream' /\ stream'[r] = stream[r]
            BY <5>2, WriteEndStream
          <5> QED
            BY <5>2, <5>3, <4>1
        <4> QED
          BY <4>2, <4>3
      <3> QED
        BY <3>2, <3>3, <2>3, <1>4
    <2> QED
      BY <2>2, <2>3
  <1>7. StreamInv'
    <2>1. WalkReached' = sub + 1
      BY <1>1 DEF WalkReached
    <2> QED
      BY <2>1, <1>1, <1>2, <1>3, <1>6 DEF StreamInv
  <1>8. StorageInv'
    <2>1. SUFFICES ASSUME WellFormed
                   PROVE  /\ Len(scopes') = Depth(subs[sub + 1].recs, 1, next' - 1)
                          /\ Len(stream') + Len(storage') = Cardinality(Before(subs, sub + 1, 1))
                          /\ \A p \in Before(subs, sub + 1, 1) : p[1] # sub + 1
      BY <1>1, <1>2 DEF StorageInv
    <2>2. Len(scopes') = 0 /\ Len(storage') = 0
      BY <1>1
    <2>3. Depth(subs[sub + 1].recs, 1, 1 - 1) = 0
      BY DepthOne
    <2>4. Depth(subs[sub + 1].recs, 1, next' - 1) = 0
      BY <2>3, <1>1
    <2>5. Len(stream') = Cardinality(Before(subs, sub + 1, 1)) /\ Len(stream') \in Nat
      BY <2>1, <1>6, BeforeFinite
    <2>6. \A p \in Before(subs, sub + 1, 1) : p[1] # sub + 1
      <3>1. SUFFICES ASSUME NEW p \in Before(subs, sub + 1, 1), p[1] = sub + 1
                     PROVE  FALSE
        OBVIOUS
      <3>2. p \in Places /\ (p[1] < sub + 1 \/ p[2] < 1)
        BY <3>1 DEF Before
      <3> QED
        BY <3>1, <3>2, <1>1, <1>5
    <2> QED
      BY <2>2, <2>4, <2>5, <2>6
  <1> QED
    BY <1>7, <1>8

LEMMA WriteEndLinks ==
  ASSUME WalkInv, WriteEnd
  PROVE  LinksInv'
  <1>1. /\ phase = "write" /\ phase' = "write" /\ storage' = <<>> /\ subs' = subs
        /\ subs \in Seq(Subsection) /\ sub \in DOMAIN subs /\ sub \in Nat /\ sub <= Len(subs)
        /\ Len(subs) \in Nat /\ Len(subs) <= MaxSubsections /\ sub >= 1
        /\ subs[sub].recs \in Seq(Kinds) /\ Len(subs[sub].recs) \in Nat
        /\ Len(subs[sub].recs) <= MaxRecords /\ next = Len(subs[sub].recs) + 1
        /\ stream \in Seq(WrittenRecord) /\ storage \in Seq(WrittenRecord)
    BY WriteEndPlace
  <1>2. PICK recs \in Seq(Kinds) : recs = subs[sub].recs
    BY <1>1
  <1>3. next - 1 = Len(recs) /\ Len(recs) \in Nat /\ Len(recs) <= MaxRecords
    BY <1>1, <1>2
  <1>4. PICK shift \in Nat : shift = Len(stream) /\ Written = kSymbolStreamMagicSize + shift
    BY <1>1 DEF Written
  <1>5. /\ \A i \in DOMAIN stream : stream[i].rec \in Records
        /\ StreamLinked(stream, subs)
        /\ StorageLinked(storage, recs, Len(recs), kSymbolStreamMagicSize + shift)
    BY <1>1, <1>2, <1>3, <1>4 DEF WalkInv, LinksInv
  <1>6. \A i \in DOMAIN storage :
          /\ storage[i].rec[1] = sub /\ storage[i].rec[2] \in 1..Len(recs)
          /\ storage[i].rec \in Records
    <2>1. ASSUME NEW i \in DOMAIN storage
          PROVE  /\ storage[i].rec[1] = sub /\ storage[i].rec[2] \in 1..Len(recs)
                 /\ storage[i].rec \in Records
      <3>1. storage[i].rec[1] = sub /\ storage[i].rec[2] \in 1..Len(recs)
        BY <1>1, <1>3 DEF WalkInv, ScopeInv
      <3>2. storage[i] \in WrittenRecord
        BY <1>1
      <3>3. storage[i].rec \in PlaceOf
        BY <3>2 DEF WrittenRecord
      <3>4. PICK p \in PlaceOf : p = storage[i].rec /\ p = <<p[1], p[2]>>
        BY <3>3 DEF PlaceOf
      <3>5. p[1] = sub /\ p[2] \in DOMAIN subs[sub].recs /\ p[2] \in Nat /\ p[2] >= 1 /\ p[2] <= Len(recs)
        BY <3>1, <3>4, <1>2, <1>3
      <3>6. p \in Places
        <4>1. p[1] \in 1..MaxSubsections
          BY <3>5, <1>1, BoundsAssumption
        <4>2. p[2] \in 1..MaxRecords
          BY <3>5, <1>3, BoundsAssumption
        <4> QED
          BY <4>1, <4>2, <3>4 DEF Places
      <3> QED
        BY <3>1, <3>4, <3>5, <3>6, <1>1 DEF Records
    <2> QED
      BY <2>1
  <1>7. \A i \in DOMAIN stream : i \in DOMAIN stream' /\ stream'[i].rec = stream[i].rec /\ stream'[i] = stream[i]
    BY WriteEndStream
  <1>8. ASSUME NEW i \in DOMAIN stream', i \notin DOMAIN stream
        PROVE  ~subs[sub].corrupt /\ \E j \in DOMAIN storage : stream'[i] = storage[j]
    <2>1. ~subs[sub].corrupt
      BY <1>8, WriteEndStream
    <2>2. PICK j \in DOMAIN storage : i = Len(stream) + j
      BY <2>1, <1>8, WriteEndStream
    <2>3. stream'[i] = storage[j]
      BY <2>1, <2>2, WriteEndStream
    <2> QED
      BY <2>1, <2>2, <2>3
  <1>9. \A i \in DOMAIN stream' : stream'[i].rec \in Records
    BY <1>5, <1>6, <1>7, <1>8
  <1>10. StreamLinked(stream', subs)
    <2>1. SUFFICES ASSUME NEW i \in DOMAIN stream', NEW rs, rs = subs[stream'[i].rec[1]].recs
                   PROVE  LinkRight(stream'[i], rs, Len(rs), stream', kSymbolStreamMagicSize)
      BY DEF StreamLinked
    <2>2. CASE i \in DOMAIN stream
      <3>1. PICK x : x = stream[i] /\ x = stream'[i]
        BY <2>2, <1>7
      <3>2. LinkRight(x, rs, Len(rs), stream, kSymbolStreamMagicSize)
        BY <3>1, <2>1, <2>2, <1>5 DEF StreamLinked
      <3>3. \A j \in DOMAIN stream : j \in DOMAIN stream' /\ stream'[j].rec = stream[j].rec
        BY <1>7
      <3>4. LinkRight(x, rs, Len(rs), stream', kSymbolStreamMagicSize)
        BY <3>2, <3>3, LinkKept
      <3> QED
        BY <3>1, <3>4
    <2>3. CASE i \notin DOMAIN stream
      <3>1. ~subs[sub].corrupt
        BY <2>3, <1>8
      <3>2. PICK j \in DOMAIN storage : stream'[i] = storage[j]
        BY <2>3, <1>8
      <3>3. PICK x \in WrittenRecord : x = storage[j] /\ x = stream'[i]
        BY <3>2, <1>1
      <3>4. rs = recs
        BY <3>2, <2>1, <1>2, <1>6
      <3>5. LinkRight(x, recs, Len(recs), storage, kSymbolStreamMagicSize + shift)
        BY <3>2, <3>3, <1>5 DEF StorageLinked
      <3>6. \A l \in DOMAIN storage : shift + l \in DOMAIN stream' /\ stream'[shift + l].rec = storage[l].rec
        BY <3>1, <1>4, WriteEndStream
      <3>7. kSymbolStreamMagicSize \in Int
        BY DEF kSymbolStreamMagicSize
      <3>8. LinkRight(x, recs, Len(recs), stream', kSymbolStreamMagicSize)
        BY <3>5, <3>6, <3>7, LinkShifted
      <3> QED
        BY <3>3, <3>4, <3>8
    <2> QED
      BY <2>2, <2>3
  <1>11. Records' = Records /\ DOMAIN storage' = {}
    BY <1>1 DEF Records
  <1>12. StorageLinked(storage', subs'[sub'].recs, next' - 1, Written')
    BY <1>11 DEF StorageLinked
  <1>13. StreamLinked(stream', subs')
    BY <1>1, <1>10
  <1> QED
    BY <1>9, <1>11, <1>12, <1>13 DEF LinksInv

LEMMA WriteEndInv ==
  ASSUME WalkInv, WriteEnd
  PROVE  WalkInv'
  <1>1. WalkTypeOK /\ WhereInv
    BY DEF WalkInv
  <1>2. /\ phase = "write" /\ phase' = "write" /\ sub' = sub + 1 /\ next' = 1
        /\ subs' = subs /\ scopes' = <<>> /\ storage' = <<>> /\ UNCHANGED <<subs, analysis>>
        /\ subs \in Seq(Subsection) /\ sub \in Nat /\ sub <= Len(subs) /\ Len(subs) \in Nat
    BY WriteEndPlace
  <1>3. stream' \in Seq(WrittenRecord)
    BY WriteEndStream
  <1>4. WalkTypeOK'
    <2>1. /\ subs' = subs /\ scopeLevel' = scopeLevel /\ symOffset' = symOffset /\ symStart' = symStart
          /\ pendingGlobals' = pendingGlobals /\ fixups' = fixups
      BY <1>2 DEF analysis
    <2>2. scopes' \in Seq(Nat) /\ storage' \in Seq(WrittenRecord)
      BY <1>2
    <2>3. sub' \in Nat \ {0} /\ next' \in Nat \ {0}
      BY <1>2
    <2> QED
      BY <2>1, <2>2, <2>3, <1>1, <1>2, <1>3 DEF WalkTypeOK
  <1>5. WhereInv'
    <2>1. sub + 1 <= Len(subs) + 1
      BY <1>2
    <2>2. sub + 1 <= Len(subs) => 1 <= Len(subs[sub + 1].recs) + 1
      <3>1. ASSUME sub + 1 <= Len(subs)
            PROVE  Len(subs[sub + 1].recs) \in Nat
        <4>1. sub + 1 \in DOMAIN subs
          BY <3>1, <1>2
        <4> QED
          BY <4>1, <1>2, SubsectionFacts
      <3> QED
        BY <3>1
    <2> QED
      BY <2>1, <2>2, <1>2 DEF WhereInv
  <1>6. OffsetInv' /\ PendingInv' /\ KeptInv'
    BY <1>2, WriteKeeps
  <1>7. ScopeInv'
    <2>1. DOMAIN scopes' = {} /\ DOMAIN storage' = {} /\ next' - 1 = 0
      BY <1>2
    <2>2. 1..(next' - 1) = {}
      BY <2>1
    <2> QED
      BY <2>1, <2>2 DEF ScopeInv
  <1> QED
    BY <1>4, <1>5, <1>6, <1>7, WriteEndStreamInv, WriteEndLinks DEF WalkInv

\* The stream is complete: nothing that the first walk or the second one left changes.
LEMMA FinishInv ==
  ASSUME WalkInv, phase' \in {"fixup", "done", "failed"},
         (phase = "write" /\ sub > Len(subs)) \/ phase = "fixup",
         UNCHANGED <<sub, next, subs, analysis, writing>>
  PROVE  WalkInv'
  <1>1. /\ WalkTypeOK /\ WhereInv /\ StreamInv /\ LinksInv
    BY DEF WalkInv
  <1>2. /\ subs' = subs /\ sub' = sub /\ next' = next /\ scopes' = scopes /\ storage' = storage /\ stream' = stream
        /\ scopeLevel' = scopeLevel /\ symOffset' = symOffset /\ symStart' = symStart
        /\ pendingGlobals' = pendingGlobals /\ fixups' = fixups
    BY DEF analysis, writing
  <1>3. WalkTypeOK'
    BY <1>1, <1>2 DEF WalkTypeOK
  <1>4. WhereInv' /\ StorageInv' /\ ScopeInv'
    BY DEF WhereInv, StorageInv, ScopeInv
  <1>5. OffsetInv' /\ PendingInv' /\ KeptInv'
    <2>1. phase # "analyze" /\ phase' # "analyze" /\ UNCHANGED <<subs, analysis>>
      OBVIOUS
    <2> QED
      BY <2>1, WriteKeeps
  <1>6. StreamInv'
    <2>1. WalkReached' = Len(subs) + 1
      BY <1>2 DEF WalkReached
    <2>2. WalkReached = Len(subs) + 1
      <3>1. sub \in Nat /\ Len(subs) \in Nat
        BY <1>1 DEF WalkTypeOK
      <3>2. phase = "write" => sub <= Len(subs) + 1
        BY <1>1 DEF WhereInv
      <3>3. phase = "write" => sub = Len(subs) + 1
        BY <3>1, <3>2
      <3> QED
        BY <3>3 DEF WalkReached
    <2>3. (WellFormed' <=> WellFormed) /\ (\A p : Rank(p)' = Rank(p)) /\ phase # "analyze"
      BY <1>2 DEF WellFormed, Rank
    <2> QED
      BY <2>1, <2>2, <2>3, <1>1, <1>2 DEF StreamInv
  <1>7. LinksInv'
    <2>1. Records' = Records
      BY <1>2 DEF Records
    <2> QED
      BY <2>1, <1>1, <1>2 DEF LinksInv
  <1> QED
    BY <1>3, <1>4, <1>5, <1>6, <1>7 DEF WalkInv

LEMMA WalkStutter ==
  ASSUME WalkInv, UNCHANGED walkVars
  PROVE  WalkInv'
  <1>1. /\ phase' = phase
        /\ subs' = subs /\ sub' = sub /\ next' = next /\ scopes' = scopes /\ storage' = storage /\ stream' = stream
        /\ scopeLevel' = scopeLevel /\ symOffset' = symOffset /\ symStart' = symStart
        /\ pendingGlobals' = pendingGlobals /\ fixups' = fixups
    BY DEF walkVars, walk, analysis, writing
  <1>2. Records' = Records /\ (WellFormed' <=> WellFormed) /\ (\A p : Rank(p)' = Rank(p))
        /\ WalkReached' = WalkReached /\ (\A k : Opener(k)' = Opener(k)) /\ Written' = Written
    BY <1>1 DEF Records, WellFormed, Rank, WalkReached, Opener, Written
  <1>3. WalkTypeOK' /\ WhereInv' /\ OffsetInv'
    BY <1>1, <1>2 DEF WalkInv, WalkTypeOK, WhereInv, OffsetInv
  <1>4. PendingInv' /\ KeptInv'
    BY <1>1, <1>2 DEF WalkInv, PendingInv, KeptInv, NotedRight, KindAt
  <1>5. StreamInv' /\ StorageInv'
    BY <1>1, <1>2 DEF WalkInv, StreamInv, StorageInv
  <1>6. ScopeInv' /\ LinksInv'
    BY <1>1, <1>2 DEF WalkInv, ScopeInv, LinksInv
  <1> QED
    BY <1>3, <1>4, <1>5, <1>6 DEF WalkInv

\* The invariant the two walks share: the first one's offsets count the records ahead of a
\* place, and the second one, whose stack holds the scopes that are open, puts each record
\* where it was counted to be (analyzeSymbolSubsection, writeAllModuleSymbolRecords).
THEOREM WalkInvariance == WalkSpec => []WalkInv
  <1>1. WalkInit => WalkInv
    BY WalkInitInv
  <1>2. WalkInv /\ [WalkNext]_walkVars => WalkInv'
    <2>1. SUFFICES ASSUME WalkInv, [WalkNext]_walkVars PROVE WalkInv'
      OBVIOUS
    <2>2. ASSUME NEW k \in Kinds, AnalyzeRecord(k) PROVE WalkInv'
      BY <2>1, <2>2, AnalyzeRecordInv
    <2>3. ASSUME NEW corrupt \in BOOLEAN, NEW more \in BOOLEAN, AnalyzeEnd(corrupt, more) PROVE WalkInv'
      BY <2>1, <2>3, AnalyzeEndInv
    <2>4. CASE WriteRecord
      BY <2>1, <2>4, WriteRecordInv
    <2>5. CASE WriteEnd
      BY <2>1, <2>5, WriteEndInv
    <2>6. CASE WriteDone
      <3>1. /\ phase = "write" /\ sub > Len(subs) /\ phase' \in {"fixup", "done", "failed"}
            /\ UNCHANGED <<sub, next, subs, analysis, writing>>
        BY <2>6 DEF WriteDone
      <3> QED
        BY <3>1, <2>1, FinishInv
    <2>7. CASE Commit
      <3>1. /\ phase = "fixup" /\ phase' \in {"fixup", "done", "failed"}
            /\ UNCHANGED <<sub, next, subs, analysis, writing>>
        BY <2>7 DEF Commit
      <3> QED
        BY <3>1, <2>1, FinishInv
    <2>8. CASE UNCHANGED walkVars
      BY <2>1, <2>8, WalkStutter
    <2> QED
      BY <2>1, <2>2, <2>3, <2>4, <2>5, <2>6, <2>7, <2>8 DEF WalkNext
  <1> QED
    BY <1>1, <1>2, PTL DEF WalkSpec

\* A record for the module stream, of a subsection that can be read, is where the first
\* walk counted it to be.
LEMMA FoundWhereCounted ==
  ASSUME WalkInv, Finished, WellFormed, NEW p \in Records, ~Corrupt(p), InModule(subs, p[1], p[2])
  PROVE  WrittenAt(p, Offset(subs, p[1], p[2]))
  <1>1. /\ phase # "analyze" /\ WalkReached = Len(subs) + 1
    BY DEF Finished, WalkReached
  <1>2. p \in Places /\ p[1] \in DOMAIN subs /\ p[2] \in DOMAIN subs[p[1]].recs
    BY DEF Records
  <1>3. p[1] < Len(subs) + 1
    <2>1. subs \in Seq(Subsection)
      BY DEF WalkInv, WalkTypeOK
    <2> QED
      BY <2>1, <1>2
  <1>4. p \in Before(subs, Len(subs) + 1, 1)
    BY <1>2, <1>3 DEF Before, Corrupt
  <1>5. Rank(p) \in DOMAIN stream /\ stream[Rank(p)].rec = p
    BY <1>1, <1>4 DEF WalkInv, StreamInv
  <1>6. PICK n \in Nat : n = Cardinality(Before(subs, p[1], p[2]))
    BY BeforeFinite
  <1>7. Rank(p) = n + 1 /\ Offset(subs, p[1], p[2]) - kSymbolStreamMagicSize + 1 = n + 1
    BY <1>6 DEF Rank, Offset, kSymbolStreamMagicSize
  <1> QED
    BY <1>5, <1>7 DEF WrittenAt

LEMMA NotedIsFound ==
  ASSUME WalkInv, Finished, WellFormed, NEW x, NotedRight(x), ~Corrupt(x.rec),
         KindAt(x.rec) \in {"proc", "static"}
  PROVE  WrittenAt(x.rec, x.off)
  <1>1. PICK p \in Records : p = x.rec
    BY DEF NotedRight
  <1>2. p[1] \in DOMAIN subs
    BY <1>1 DEF Records
  <1>3. Balanced(subs[p[1]].recs) /\ GoodBefore(subs, p[1])
    BY <1>1, <1>2 DEF WellFormed, GoodBefore, Good, Corrupt
  <1>4. x.off = Offset(subs, p[1], p[2])
    BY <1>1, <1>3 DEF NotedRight
  <1>5. InModule(subs, p[1], p[2])
    BY <1>1 DEF InModule, KindAt, SymbolGoesInModuleStream
  <1>6. WrittenAt(p, Offset(subs, p[1], p[2]))
    BY <1>1, <1>5, FoundWhereCounted
  <1> QED
    BY <1>1, <1>4, <1>6

\* Both walks come to the same size: what finish reserves for the module stream is what
\* writeAllModuleSymbolRecords writes, for every object whose readable subsections are
\* balanced.
THEOREM SizesAgreeHolds == WalkSpec => []SizesAgree
  <1>1. WalkInv => SizesAgree
    <2>1. SUFFICES ASSUME WalkInv, Finished, WellFormed PROVE Written = symOffset
      BY DEF SizesAgree
    <2>2. phase # "analyze" /\ WalkReached = Len(subs) + 1
      BY <2>1 DEF Finished, WalkReached
    <2>3. symOffset = Offset(subs, Len(subs) + 1, 1)
      BY <2>1, <2>2 DEF WalkInv, OffsetInv
    <2>4. Len(stream) = Cardinality(Before(subs, Len(subs) + 1, 1))
      BY <2>1, <2>2 DEF WalkInv, StreamInv
    <2> QED
      BY <2>3, <2>4 DEF Written, Offset
  <1> QED
    BY <1>1, WalkInvariance, PTL

\* A reference to a procedure, and a string table fixup, carry the offset at which the
\* second walk writes that very record, whatever corrupt subsections were dropped before.
THEOREM ProcRefsResolveHolds == WalkSpec => []ProcRefsResolve
  <1>1. WalkInv => ProcRefsResolve
    <2>1. SUFFICES ASSUME WalkInv, Finished, WellFormed
                   PROVE  /\ \A i \in DOMAIN pendingGlobals :
                               KindAt(pendingGlobals[i].rec) = "proc" /\ ~Corrupt(pendingGlobals[i].rec)
                                 => WrittenAt(pendingGlobals[i].rec, pendingGlobals[i].off)
                          /\ \A i \in DOMAIN fixups :
                               ~Corrupt(fixups[i].rec) => WrittenAt(fixups[i].rec, fixups[i].off)
      BY DEF ProcRefsResolve
    <2>2. PendingInv
      BY <2>1 DEF WalkInv
    <2>3. ASSUME NEW i \in DOMAIN pendingGlobals,
                 KindAt(pendingGlobals[i].rec) = "proc", ~Corrupt(pendingGlobals[i].rec)
          PROVE  WrittenAt(pendingGlobals[i].rec, pendingGlobals[i].off)
      BY <2>1, <2>2, <2>3, NotedIsFound DEF PendingInv
    <2>4. ASSUME NEW i \in DOMAIN fixups, ~Corrupt(fixups[i].rec)
          PROVE  WrittenAt(fixups[i].rec, fixups[i].off)
      BY <2>1, <2>2, <2>4, NotedIsFound DEF PendingInv
    <2> QED
      BY <2>3, <2>4
  <1> QED
    BY <1>1, WalkInvariance, PTL

\* Every record of a readable subsection is staged as a global or written to the module
\* stream: none falls between the two tests of analyzeSymbolSubsection.
THEOREM NothingLostHolds == WalkSpec => []NothingLost
  <1>1. WalkInv => NothingLost
    <2>1. SUFFICES ASSUME WalkInv, Finished, WellFormed, NEW p \in Records, ~Corrupt(p)
                   PROVE  \/ \E i \in DOMAIN pendingGlobals : pendingGlobals[i].rec = p
                          \/ \E i \in DOMAIN stream : stream[i].rec = p
      BY DEF NothingLost
    <2>2. p[1] \in DOMAIN subs
      BY <2>1 DEF Records
    <2>3. Balanced(subs[p[1]].recs)
      BY <2>1, <2>2 DEF WellFormed, Corrupt
    <2>4. InModule(subs, p[1], p[2]) \/ \E i \in DOMAIN pendingGlobals : pendingGlobals[i].rec = p
      BY <2>1, <2>3 DEF WalkInv, KeptInv
    <2>5. InModule(subs, p[1], p[2]) => WrittenAt(p, Offset(subs, p[1], p[2]))
      BY <2>1, FoundWhereCounted
    <2> QED
      BY <2>4, <2>5 DEF WrittenAt
  <1> QED
    BY <1>1, WalkInvariance, PTL

\* Every scope that ends is linked to its end and to the scope around it, for every nesting
\* of scopes, unbalanced and corrupt subsections included (scopeStackOpen, scopeStackClose).
THEOREM ScopesLinkedHolds == WalkSpec => []ScopesLinked
  <1>1. WalkInv => ScopesLinked
    <2> DEFINE linked(x, p, recs, ends, around) ==
                 /\ \A j \in ends : WrittenAt(<<p[1], j>>, x.ptrEnd)
                 /\ ends = {} => x.ptrEnd = NoOffset
                 /\ ends # {} => IF around = {} THEN x.ptrParent = NoOffset
                                 ELSE \E m \in around :
                                        /\ \A n \in around : n <= m
                                        /\ WrittenAt(<<p[1], m>>, x.ptrParent)
    <2>1. SUFFICES ASSUME WalkInv, NEW i \in DOMAIN stream,
                          NEW p, p = stream[i].rec, NEW recs, recs = subs[p[1]].recs,
                          NEW ends, ends = {j \in DOMAIN recs : SymbolOpensScope(KindAt(p)) /\ Closes(recs, p[2], j)},
                          NEW around, around = {m \in 1..(p[2] - 1) :
                                                  /\ SymbolOpensScope(recs[m])
                                                  /\ \A j \in m..p[2] : Depth(recs, m, j) > 0}
                   PROVE  linked(stream[i], p, recs, ends, around)
      <3>1. ASSUME WalkInv, NEW i \in DOMAIN stream
            PROVE  LET p == stream[i].rec
                       recs == subs[p[1]].recs
                       ends == {j \in DOMAIN recs : SymbolOpensScope(KindAt(p)) /\ Closes(recs, p[2], j)}
                       around == {m \in 1..(p[2] - 1) :
                                    /\ SymbolOpensScope(recs[m])
                                    /\ \A j \in m..p[2] : Depth(recs, m, j) > 0}
                   IN  linked(stream[i], p, recs, ends, around)
        <4> HIDE DEF linked
        <4> QED
          BY <2>1, <3>1
      <3> QED
        BY <3>1 DEF ScopesLinked
    <2>2. p \in Records /\ subs \in Seq(Subsection)
      BY <2>1 DEF WalkInv, LinksInv, WalkTypeOK
    <2>3. DOMAIN recs = 1..Len(recs)
      BY <2>1, <2>2, SubsectionFacts DEF Records
    <2>4. ends = Ends(recs, p[2], Len(recs))
      BY <2>1, <2>3 DEF Ends, KindAt
    <2>5. around = Around(recs, p[2])
      BY <2>1 DEF Around, Open
    <2>6. PICK x : x = stream[i] /\ x.rec = p
      BY <2>1
    <2>7. LinkRight(x, recs, Len(recs), stream, kSymbolStreamMagicSize)
      BY <2>1, <2>6 DEF WalkInv, LinksInv, StreamLinked
    <2>8. \A q, off : WrittenIn(stream, kSymbolStreamMagicSize, q, off) <=> WrittenAt(q, off)
      BY DEF WrittenIn, WrittenAt
    <2>9. \A j \in ends : WrittenAt(<<p[1], j>>, x.ptrEnd)
      BY <2>4, <2>6, <2>7, <2>8 DEF LinkRight
    <2>10. ends = {} => x.ptrEnd = NoOffset
      BY <2>4, <2>6, <2>7 DEF LinkRight
    <2>11. ends # {} /\ around = {} => x.ptrParent = NoOffset
      BY <2>4, <2>5, <2>6, <2>7 DEF LinkRight
    <2>12. ASSUME ends # {}, around # {}
           PROVE  \E m \in around : (\A n \in around : n <= m) /\ WrittenAt(<<p[1], m>>, x.ptrParent)
      BY <2>4, <2>5, <2>6, <2>7, <2>8, <2>12 DEF LinkRight
    <2> QED
      BY <2>6, <2>9, <2>10, <2>11, <2>12
  <1> QED
    BY <1>1, WalkInvariance, PTL
=============================================================================
