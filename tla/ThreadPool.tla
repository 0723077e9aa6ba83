----------------------------- MODULE ThreadPool -----------------------------
(***************************************************************************)
(* ThreadPoolExecutor and TaskGroup (llvm/lib/Support/Parallel.cpp,        *)
(* Parallel.h): a stack of work items served by worker threads, and groups *)
(* whose destructor waits on a latch until all their tasks have run.  A    *)
(* task may add siblings to its own group (parallel_quick_sort), open a    *)
(* nested group, or end the process (fatal, which on Windows stops the     *)
(* pool first).  A worker whose nested group is not done runs other tasks  *)
(* on top of its own (helpSync), so every thread has a stack of frames.    *)
(*                                                                         *)
(* A step is one critical section or one atomic operation.  There are no   *)
(* spurious wakeups, so a lost notification is a wait forever.  The job    *)
(* server is left out: COFF never asks for it.                             *)
(***************************************************************************)
EXTENDS Integers, Sequences, SequencesExt, FiniteSets

CONSTANTS
  ThreadCount,  \* worker threads
  MaxGroups,    \* bound on the groups opened
  MaxTasks,     \* bound on the tasks spawned
  Links         \* what tasks do in the links checked: "nested" groups, or "fatal" calls

ASSUME PoolAssumption ==
  /\ ThreadCount \in Nat \ {0}
  /\ MaxGroups \in Nat /\ MaxTasks \in Nat
  /\ Links \subseteq {"nested", "fatal"}

Workers == 0..(ThreadCount - 1)
Main == ThreadCount
Threads == Workers \cup {Main}
Groups == 1..MaxGroups

VARIABLES
  worker,    \* "unborn", "creating" (thread 0 only), "loop", "asleep", "exited"
  born,      \* the next thread that thread 0 creates
  created,   \* ThreadsCreated is set
  frames,    \* the stack of tasks each thread is in, the innermost last
  workStack, \* WorkStack: the groups of the queued tasks
  count,     \* Latch::Count of each group
  mutex,     \* Latch::Mutex of each group: is it held
  alive,     \* the groups, and their latches, that exist
  opened,    \* groups opened so far
  spawned,   \* tasks spawned so far
  stop,      \* Stop
  over,      \* the process has ended
  link       \* what the tasks of this link do

pool == <<worker, born, created, workStack, stop>>
latches == <<count, mutex, alive>>
budget == <<opened, spawned>>
vars == <<pool, latches, budget, frames, over, link>>

NoGroup == 0

\* A frame: the group its task belongs to, the group it has open, and where it is.
Frame(of, own, pc) == [of |-> of, own |-> own, pc |-> pc]

Init ==
  /\ worker = [w \in Workers |-> IF w = 0 THEN "creating" ELSE "unborn"]
  /\ born = 1
  /\ created = FALSE
  /\ frames = [t \in Threads |->
                 IF t = Main THEN <<Frame(NoGroup, NoGroup, "body")>> ELSE <<>>]
  /\ workStack = <<>>
  /\ count = [g \in Groups |-> 0]
  /\ mutex = [g \in Groups |-> FALSE]
  /\ alive = {}
  /\ opened = 0
  /\ spawned = 0
  /\ stop = FALSE
  /\ over = FALSE
  /\ link \in Links

Top(t) == Last(frames[t])

\* Thread t runs the code at pc.
At(t, pc) == ~over /\ frames[t] # <<>> /\ Top(t).pc = pc

SetTop(t, frame) == frames' = [frames EXCEPT ![t] = Append(Front(@), frame)]
Go(t, pc) == SetTop(t, [Top(t) EXCEPT !.pc = pc])

----------------------------------------------------------------------------
(* The worker threads *)

\* Thread 0 starts the others, unless the pool is stopped meanwhile.
CreateThread ==
  /\ ~over
  /\ worker[0] = "creating"
  /\ IF born < ThreadCount
       THEN /\ worker' = [worker EXCEPT ![born] = "loop"]
            /\ born' = IF stop THEN ThreadCount ELSE born + 1
            /\ UNCHANGED created
       ELSE /\ worker' = [worker EXCEPT ![0] = "loop"]
            /\ created' = TRUE
            /\ UNCHANGED born
  /\ UNCHANGED <<frames, workStack, latches, budget, stop, over, link>>

\* The item on top of the stack becomes the innermost task of thread t.
PopAndRun(t) ==
  /\ workStack # <<>>
  /\ workStack' = Front(workStack)
  /\ frames' = [frames EXCEPT ![t] = Append(@, Frame(Last(workStack), NoGroup, "body"))]

Idle(w) == ~over /\ worker[w] = "loop" /\ frames[w] = <<>>

\* work: Cond.wait for an item or Stop, which comes first.
Take(w) ==
  /\ Idle(w)
  /\ ~stop
  /\ PopAndRun(w)
  /\ UNCHANGED <<worker, born, created, latches, budget, stop, over, link>>

Sleep(w) ==
  /\ Idle(w)
  /\ ~stop /\ workStack = <<>>
  /\ worker' = [worker EXCEPT ![w] = "asleep"]
  /\ UNCHANGED <<born, created, frames, workStack, latches, budget, stop, over, link>>

ExitLoop(w) ==
  /\ Idle(w)
  /\ stop
  /\ worker' = [worker EXCEPT ![w] = "exited"]
  /\ UNCHANGED <<born, created, frames, workStack, latches, budget, stop, over, link>>

----------------------------------------------------------------------------
(* Task groups *)

\* TaskGroup TG
OpenGroup(t) ==
  /\ At(t, "body")
  /\ t = Main \/ link = "nested"
  /\ opened < MaxGroups
  /\ opened' = opened + 1
  /\ alive' = alive \cup {opened + 1}
  /\ SetTop(t, [Top(t) EXCEPT !.own = opened + 1, !.pc = "group"])
  /\ UNCHANGED <<pool, count, mutex, spawned, over, link>>

\* The group thread t spawns into: the one it has open, or the group of its task.
Target(t) == IF Top(t).own # NoGroup THEN Top(t).own ELSE Top(t).of

\* TG.spawn: L.inc(), then add pushes the item, then notifies one sleeping worker.
SpawnInc(t) ==
  /\ At(t, "group") \/ (At(t, "body") /\ t # Main)
  /\ spawned < MaxTasks
  /\ spawned' = spawned + 1
  /\ count' = [count EXCEPT ![Target(t)] = @ + 1]
  /\ Go(t, "push")
  /\ UNCHANGED <<pool, mutex, alive, opened, over, link>>

\* Mutant: the item is pushed and nobody is notified.
PushQuietly(t) ==
  /\ At(t, "push")
  /\ workStack' = Append(workStack, Target(t))
  /\ Go(t, IF Top(t).own = NoGroup THEN "body" ELSE "group")
  /\ UNCHANGED <<worker, born, created, latches, budget, stop, over, link>>

SpawnPush(t) ==
  /\ At(t, "push")
  /\ workStack' = Append(workStack, Target(t))
  /\ Go(t, "notify")
  /\ UNCHANGED <<worker, born, created, latches, budget, stop, over, link>>

SpawnNotify(t) ==
  LET asleep == {w \in Workers : worker[w] = "asleep"}
  IN  /\ At(t, "notify")
      /\ IF asleep = {} THEN UNCHANGED worker
         ELSE \E w \in asleep : worker' = [worker EXCEPT ![w] = "loop"]
      /\ Go(t, IF Top(t).own = NoGroup THEN "body" ELSE "group")
      /\ UNCHANGED <<born, created, workStack, latches, budget, stop, over, link>>

\* Mutant: a nested group is waited for without helping.
CloseWithoutHelp(t) ==
  /\ At(t, "group")
  /\ Go(t, "sync")
  /\ UNCHANGED <<pool, latches, budget, over, link>>

\* ~TaskGroup: a worker helps first.
CloseGroup(t) ==
  /\ At(t, "group")
  /\ Go(t, IF t = Main THEN "sync" ELSE "help")
  /\ UNCHANGED <<pool, latches, budget, over, link>>

\* helpSync: while (L.getCount() != 0) ...
HelpCheck(t) ==
  /\ At(t, "help")
  /\ Go(t, IF count[Top(t).own] = 0 THEN "sync" ELSE "steal")
  /\ UNCHANGED <<pool, latches, budget, over, link>>

\* ... pop an item and run it, unless there is none or the pool is stopping.
HelpRun(t) ==
  /\ At(t, "steal")
  /\ IF stop \/ workStack = <<>>
       THEN Go(t, "sync") /\ UNCHANGED workStack
       ELSE /\ workStack' = Front(workStack)
            /\ frames' = [frames EXCEPT ![t] =
                            Append(Append(Front(@), [Last(@) EXCEPT !.pc = "help"]),
                                   Frame(Last(workStack), NoGroup, "body"))]
  /\ UNCHANGED <<worker, born, created, latches, budget, stop, over, link>>

\* L.sync() under the mutex of the latch: wait, or destroy the latch and go on.
SyncWait(t) ==
  /\ At(t, "sync")
  /\ ~mutex[Top(t).own]
  /\ count[Top(t).own] # 0
  /\ Go(t, "waiting")
  /\ UNCHANGED <<pool, latches, budget, over, link>>

SyncDone(t) ==
  /\ At(t, "sync")
  /\ ~mutex[Top(t).own]
  /\ count[Top(t).own] = 0
  /\ alive' = alive \ {Top(t).own}
  /\ SetTop(t, [Top(t) EXCEPT !.own = NoGroup, !.pc = "body"])
  /\ UNCHANGED <<pool, count, mutex, budget, over, link>>

----------------------------------------------------------------------------
(* A task *)

\* F() returns.
EndTask(t) ==
  /\ At(t, "body")
  /\ t # Main
  /\ Go(t, "dec")
  /\ UNCHANGED <<pool, latches, budget, over, link>>

\* The owner of group g, if it sleeps in Cond.wait, goes back to check the count.
Woken(g) ==
  [u \in Threads |->
     [i \in DOMAIN frames[u] |->
        IF frames[u][i].own = g /\ frames[u][i].pc = "waiting"
          THEN [frames[u][i] EXCEPT !.pc = "sync"] ELSE frames[u][i]]]

\* Mutant: the count is taken down without the mutex.
DecWithoutLock(t) ==
  LET g == Top(t).of
      woken == IF count[g] = 1 THEN Woken(g) ELSE frames
  IN  /\ At(t, "dec")
      /\ count' = [count EXCEPT ![g] = @ - 1]
      /\ frames' = [woken EXCEPT ![t] = Append(Front(@), [Last(@) EXCEPT !.pc = "unlock"])]
      /\ UNCHANGED <<pool, mutex, alive, budget, over, link>>

\* L.dec(): lock, count down, and at zero notify; then unlock.
Dec(t) ==
  LET g == Top(t).of
      woken == IF count[g] = 1 THEN Woken(g) ELSE frames
  IN  /\ At(t, "dec")
      /\ ~mutex[g]
      /\ mutex' = [mutex EXCEPT ![g] = TRUE]
      /\ count' = [count EXCEPT ![g] = @ - 1]
      /\ frames' = [woken EXCEPT ![t] = Append(Front(@), [Last(@) EXCEPT !.pc = "unlock"])]
      /\ UNCHANGED <<pool, alive, budget, over, link>>

DecUnlock(t) ==
  /\ At(t, "unlock")
  /\ mutex' = [mutex EXCEPT ![Top(t).of] = FALSE]
  /\ frames' = [frames EXCEPT ![t] = Front(@)]
  /\ UNCHANGED <<pool, count, alive, budget, over, link>>

----------------------------------------------------------------------------
(* stop: at process exit by the main thread, or by a task that calls fatal *)

MayStop(t) == At(t, "body") /\ (t = Main \/ link = "fatal")

\* Only the first to stop the pool waits for it; exitLld then ends the process.
Stop(t) ==
  /\ MayStop(t)
  /\ IF stop
       THEN over' = TRUE /\ UNCHANGED <<stop, frames>>
       ELSE stop' = TRUE /\ Go(t, "stopping") /\ UNCHANGED over
  /\ UNCHANGED <<worker, born, created, workStack, latches, budget, link>>

\* Mutant: the sleeping workers are not told.
NotifyNobody(t) ==
  /\ At(t, "stopping")
  /\ Go(t, "join")
  /\ UNCHANGED <<pool, latches, budget, over, link>>

NotifyAll(t) ==
  /\ At(t, "stopping")
  /\ worker' = [w \in Workers |-> IF worker[w] = "asleep" THEN "loop" ELSE worker[w]]
  /\ Go(t, "join")
  /\ UNCHANGED <<born, created, workStack, latches, budget, stop, over, link>>

\* The threads are joined once all are created; the caller's own is detached.
Join(t) ==
  /\ At(t, "join")
  /\ created
  /\ \A w \in Workers : w = t \/ worker[w] \in {"unborn", "exited"}
  /\ over' = TRUE
  /\ UNCHANGED <<pool, latches, budget, frames, link>>

----------------------------------------------------------------------------
WorkerLoop(w) == Take(w) \/ Sleep(w) \/ ExitLoop(w)

Run(t) ==
  \/ OpenGroup(t) \/ SpawnInc(t) \/ SpawnPush(t) \/ SpawnNotify(t) \/ CloseGroup(t)
  \/ HelpCheck(t) \/ HelpRun(t) \/ SyncWait(t) \/ SyncDone(t)
  \/ EndTask(t) \/ Dec(t) \/ DecUnlock(t)
  \/ Stop(t) \/ NotifyAll(t) \/ Join(t)

Next ==
  \/ CreateThread
  \/ \E w \in Workers : WorkerLoop(w)
  \/ \E t \in Threads : Run(t)

Spec == Init /\ [][Next]_vars

\* Threads are scheduled and mutexes are handed over; the choices of a task (to spawn,
\* to open a group, to be fatal) are bounded, so that it returns.
Fairness ==
  /\ WF_vars(CreateThread)
  /\ \A w \in Workers : WF_vars(WorkerLoop(w))
  /\ \A t \in Threads : WF_vars(Run(t))

FairSpec == Spec /\ Fairness

----------------------------------------------------------------------------
\* A latch outlives everything that refers to it: the queued tasks of its group, the
\* running ones and a dec() that is still on its way out (the comment on Latch::dec).
LatchOutlivesTasks ==
  /\ ToSet(workStack) \subseteq alive
  /\ \A t \in Threads : \A i \in DOMAIN frames[t] :
       {frames[t][i].of, frames[t][i].own} \subseteq alive \cup {NoGroup}

\* No wakeup is lost: while an item is queued, a thread of the pool that is not waiting
\* for a latch is awake, or one is about to be notified (add, work).
NoLostWakeup ==
  workStack # <<>> /\ ~over =>
    \/ \E w \in Workers : worker[w] \in {"creating", "loop"} /\ ~At(w, "waiting")
    \/ \E t \in Threads : At(t, "notify")

\* The destructor of every group returns, nested groups included, with all workers
\* possibly inside one (helpSync: "to prevent deadlock"); unless the process ends.
GroupsJoin == \A g \in Groups : g \in alive ~> (g \notin alive \/ over)

\* stop() returns, and the process ends.
StopReturns == stop ~> over
=============================================================================
