---------------------------- MODULE ParallelFor ----------------------------
(***************************************************************************)
(* llvm::parallelFor over the indices 0..NumItems-1 (Parallel.cpp): the    *)
(* caller spawns NumWorkers tasks into a TaskGroup, the tasks take chunks  *)
(* of indices from an atomic counter, and the destructor of the group      *)
(* waits on its latch.  With one requested thread the caller runs every    *)
(* index itself.  Which pool thread runs a task, and when, is left open    *)
(* here; module ThreadPool has the pool.  The body Fn(i) is a begin and an *)
(* end, so that the bodies of different tasks overlap.                     *)
(***************************************************************************)
EXTENDS Integers, FiniteSets

CONSTANTS
  NumItems,         \* End - Begin
  ThreadCount,      \* threads of the pool
  Requests          \* values of /threads: 0 (all hardware threads), 1, 2, ...

ASSUME ItemsAssumption == NumItems \in Nat
ASSUME ThreadsAssumption == ThreadCount \in Nat \ {0} /\ Requests \subseteq Nat

Items == 0..(NumItems - 1)

\* std::min(NumItems, getThreadCount()), std::max(1, NumItems / (NumWorkers * 4))
NumWorkers == IF NumItems < ThreadCount THEN NumItems ELSE ThreadCount
ChunkSize ==
  LET share == NumItems \div (NumWorkers * 4) IN IF share > 1 THEN share ELSE 1

Tasks == 1..NumWorkers

VARIABLES
  requested, \* strategy.ThreadsRequested
  caller,  \* "start", "spawn", "serial", "sync", "returned"
  spawned, \* tasks spawned so far; the next index in the serial loop
  latch,   \* Latch::Count
  idx,     \* std::atomic<size_t> Idx
  task,    \* where each task is: "none", "fetch", "loop", "fn", "ended", "done"
  at, end, \* I and IEnd of each task
  ran      \* how often Fn has been called on each index

pforVars == <<requested, caller, spawned, latch, idx, task, at, end, ran>>

PForInit ==
  /\ requested \in Requests
  /\ caller = "start"
  /\ spawned = 0
  /\ latch = 0
  /\ idx = 0
  /\ task = [w \in Tasks |-> "none"]
  /\ at = [w \in Tasks |-> 0]
  /\ end = [w \in Tasks |-> 0]
  /\ ran = [i \in Items |-> 0]

GoTask(w, place) == task' = [task EXCEPT ![w] = place]

----------------------------------------------------------------------------
(* The caller *)

Enter ==
  /\ caller = "start"
  /\ caller' = CASE requested = 1 -> "serial"
                 [] requested # 1 /\ NumItems = 0 -> "returned"
                 [] OTHER -> "spawn"
  /\ UNCHANGED <<requested, spawned, latch, idx, task, at, end, ran>>

\* TG.spawn: the latch is counted up before the task can run.
Spawn ==
  /\ caller = "spawn"
  /\ spawned < NumWorkers
  /\ spawned' = spawned + 1
  /\ latch' = latch + 1
  /\ GoTask(spawned + 1, "fetch")
  /\ UNCHANGED <<requested, caller, idx, at, end, ran>>

EndSpawn ==
  /\ caller = "spawn"
  /\ spawned = NumWorkers
  /\ caller' = "sync"
  /\ UNCHANGED <<requested, spawned, latch, idx, task, at, end, ran>>

\* ~TaskGroup: L.sync()
Sync ==
  /\ caller = "sync"
  /\ latch = 0
  /\ caller' = "returned"
  /\ UNCHANGED <<requested, spawned, latch, idx, task, at, end, ran>>

\* for (; Begin != End; ++Begin) Fn(Begin)
SerialItem ==
  /\ caller = "serial"
  /\ spawned < NumItems
  /\ ran' = [ran EXCEPT ![spawned] = @ + 1]
  /\ spawned' = spawned + 1
  /\ UNCHANGED <<requested, caller, latch, idx, task, at, end>>

SerialReturn ==
  /\ caller = "serial"
  /\ spawned = NumItems
  /\ caller' = "returned"
  /\ UNCHANGED <<requested, spawned, latch, idx, task, at, end, ran>>

----------------------------------------------------------------------------
(* A worker task *)

\* Mutant: the counter advances by one index, the task takes a whole chunk.
FetchAddOne(w) ==
  /\ task[w] = "fetch"
  /\ idx' = idx + 1
  /\ IF idx >= NumItems
       THEN GoTask(w, "ended") /\ UNCHANGED <<at, end>>
       ELSE /\ GoTask(w, "loop")
            /\ at' = [at EXCEPT ![w] = idx]
            /\ end' = [end EXCEPT ![w] =
                         IF idx + ChunkSize < NumItems THEN idx + ChunkSize ELSE NumItems]
  /\ UNCHANGED <<requested, caller, spawned, latch, ran>>

\* Mutant: a partial last chunk is dropped.
FetchAddWholeChunks(w) ==
  /\ task[w] = "fetch"
  /\ idx' = idx + ChunkSize
  /\ IF idx + ChunkSize > NumItems
       THEN GoTask(w, "ended") /\ UNCHANGED <<at, end>>
       ELSE /\ GoTask(w, "loop")
            /\ at' = [at EXCEPT ![w] = idx]
            /\ end' = [end EXCEPT ![w] = idx + ChunkSize]
  /\ UNCHANGED <<requested, caller, spawned, latch, ran>>

\* I = Idx.fetch_add(ChunkSize); IEnd = min(I + ChunkSize, End), or the task is over.
FetchAdd(w) ==
  /\ task[w] = "fetch"
  /\ idx' = idx + ChunkSize
  /\ IF idx >= NumItems
       THEN GoTask(w, "ended") /\ UNCHANGED <<requested, at, end>>
       ELSE /\ GoTask(w, "loop")
            /\ at' = [at EXCEPT ![w] = idx]
            /\ end' = [end EXCEPT ![w] =
                         IF idx + ChunkSize < NumItems THEN idx + ChunkSize ELSE NumItems]
  /\ UNCHANGED <<requested, caller, spawned, latch, ran>>

\* Fn(I) is entered and left; in between the task is in the body.
BeginItem(w) ==
  /\ task[w] = "loop"
  /\ at[w] < end[w]
  /\ GoTask(w, "fn")
  /\ ran' = [ran EXCEPT ![at[w]] = @ + 1]
  /\ UNCHANGED <<requested, caller, spawned, latch, idx, at, end>>

EndItem(w) ==
  /\ task[w] = "fn"
  /\ GoTask(w, "loop")
  /\ at' = [at EXCEPT ![w] = @ + 1]
  /\ UNCHANGED <<requested, caller, spawned, latch, idx, end, ran>>

EndChunk(w) ==
  /\ task[w] = "loop"
  /\ at[w] = end[w]
  /\ GoTask(w, "fetch")
  /\ UNCHANGED <<requested, caller, spawned, latch, idx, at, end, ran>>

\* Mutant: the latch is not counted down.
NoDec(w) ==
  /\ task[w] = "ended"
  /\ GoTask(w, "done")
  /\ UNCHANGED <<requested, caller, spawned, latch, idx, at, end, ran>>

\* WorkItem::operator(): L.dec() once the closure has returned.
Dec(w) ==
  /\ task[w] = "ended"
  /\ GoTask(w, "done")
  /\ latch' = latch - 1
  /\ UNCHANGED <<requested, caller, spawned, idx, at, end, ran>>

----------------------------------------------------------------------------
Caller == Enter \/ Spawn \/ EndSpawn \/ Sync \/ SerialItem \/ SerialReturn
Task(w) == FetchAdd(w) \/ BeginItem(w) \/ EndItem(w) \/ EndChunk(w) \/ Dec(w)

PForNext == Caller \/ \E w \in Tasks : Task(w)

PForSpec == PForInit /\ [][PForNext]_pforVars

\* The caller is a running thread and the pool runs every task it is given.
PForFairness == WF_pforVars(Caller) /\ \A w \in Tasks : WF_pforVars(Task(w))

PForFairSpec == PForSpec /\ PForFairness

PForTypeOK ==
  /\ requested \in Nat
  /\ caller \in {"start", "spawn", "serial", "sync", "returned"}
  /\ spawned \in Nat
  /\ latch \in Nat
  /\ idx \in Nat
  /\ task \in [Tasks -> {"none", "fetch", "loop", "fn", "ended", "done"}]
  /\ at \in [Tasks -> Nat]
  /\ end \in [Tasks -> Nat]
  /\ ran \in [Items -> Nat]
----------------------------------------------------------------------------
\* No index is run twice, however the tasks interleave on the counter.
AtMostOnce == \A i \in Items : ran[i] <= 1

\* parallelFor returns only when every index has been run, and no body is running.
JoinIsComplete ==
  caller = "returned" =>
    /\ \A i \in Items : ran[i] = 1
    /\ \A w \in Tasks : task[w] \in {"none", "done"}

\* The call returns.
Returns == <>(caller = "returned")
=============================================================================
