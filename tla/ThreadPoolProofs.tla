-------------------------- MODULE ThreadPoolProofs --------------------------
(***************************************************************************)
(* A latch outlives the tasks of its group, and no wakeup is lost, for any *)
(* number of threads, groups and tasks and any nesting of groups.  The     *)
(* count of a latch is the number of references to it; and among workers   *)
(* that wait for groups the one with the group opened last waits for a     *)
(* task that somebody runs or will take.                                   *)
(***************************************************************************)
EXTENDS ThreadPool, FiniteSetTheorems, SequenceTheorems, TLAPS

Pcs == {"body", "group", "push", "notify", "help", "steal", "sync", "waiting",
        "dec", "unlock", "stopping", "join"}
FrameType == [of : 0..MaxGroups, own : 0..MaxGroups, pc : Pcs]

PoolTypeOK ==
  /\ worker \in [Workers -> {"unborn", "creating", "loop", "asleep", "exited"}]
  /\ born \in 1..ThreadCount
  /\ created \in BOOLEAN
  /\ frames \in [Threads -> Seq(FrameType)]
  /\ workStack \in Seq(Groups)
  /\ count \in [Groups -> Int]
  /\ mutex \in [Groups -> BOOLEAN]
  /\ alive \subseteq Groups
  /\ opened \in 0..MaxGroups
  /\ stop \in BOOLEAN
  /\ over \in BOOLEAN

\* A frame has a group open where its code is between the two ends of one; the main
\* thread runs no task.
Sound(t, f) ==
  /\ t # Main => f.of \in Groups
  /\ t = Main => f.of = NoGroup /\ f.pc \notin {"dec", "unlock", "help", "steal"}
  /\ f.pc \in {"group", "help", "steal", "sync", "waiting"} => f.own # NoGroup
  /\ f.pc \in {"body", "dec", "unlock", "stopping", "join"} => f.own = NoGroup
  /\ t = Main /\ f.pc \in {"push", "notify"} => f.own # NoGroup

\* Only a thread that helps has a frame on top of another.
FrameInv ==
  /\ Len(frames[Main]) = 1
  /\ \A t \in Threads : \A i \in DOMAIN frames[t] :
       /\ Sound(t, frames[t][i])
       /\ i < Len(frames[t]) => frames[t][i].pc = "help"

\* A group that is open is alive, and one frame has it open.
OwnerInv ==
  /\ \A g \in alive : g <= opened
  /\ \A t \in Threads : \A i \in DOMAIN frames[t] :
       frames[t][i].own # NoGroup => frames[t][i].own \in alive
  /\ \A t, u \in Threads : \A i \in DOMAIN frames[t], j \in DOMAIN frames[u] :
       frames[t][i].own # NoGroup /\ frames[t][i].own = frames[u][j].own => t = u /\ i = j

\* What refers to the latch of group g and is counted by it: its queued tasks, the ones
\* that run and have not yet counted down, and a spawn between its two halves.
Queued(g, k) == k \in DOMAIN workStack /\ workStack[k] = g
Running(g, t, i) ==
  /\ t \in Threads
  /\ i \in DOMAIN frames[t]
  /\ frames[t][i].of = g
  /\ frames[t][i].pc # "unlock"
Pushing(g, t) ==
  /\ t \in Threads
  /\ frames[t] # <<>>
  /\ Top(t).pc = "push"
  /\ Target(t) = g

Queue == -1
Refs(g) ==
  {r \in (Threads \cup {Queue}) \X Nat :
     \/ r[1] = Queue /\ Queued(g, r[2])
     \/ Running(g, r[1], r[2])
     \/ r[2] = 0 /\ Pushing(g, r[1])}

\* The count is the number of references, and a dead latch has none.
LatchInv ==
  \A g \in Groups :
    /\ IsFiniteSet(Refs(g))
    /\ count[g] = Cardinality(Refs(g))
    /\ g \notin alive => Refs(g) = {} /\ ~mutex[g]

\* A dec() that has counted down holds the mutex, and one only does.
MutexInv ==
  /\ \A t \in Threads : \A i \in DOMAIN frames[t] :
       frames[t][i].pc = "unlock" => mutex[frames[t][i].of]
  /\ \A t, u \in Threads : \A i \in DOMAIN frames[t], j \in DOMAIN frames[u] :
       frames[t][i].pc = "unlock" /\ frames[u][j].pc = "unlock"
         /\ frames[t][i].of = frames[u][j].of => t = u /\ i = j

PoolInv == PoolTypeOK /\ FrameInv /\ OwnerInv /\ LatchInv /\ MutexInv

----------------------------------------------------------------------------
LEMMA ThreadFacts ==
  /\ Main \in Threads /\ Main \in Nat /\ Main \notin Workers
  /\ \A t \in Threads : t \in Nat /\ t # Queue /\ (t # Main => t \in Workers)
  /\ Queue \notin Threads
  BY PoolAssumption DEF Main, Threads, Workers, Queue

LEMMA FrontFacts ==
  ASSUME NEW S, NEW s \in Seq(S), s # <<>>
  PROVE  /\ Len(s) \in Nat \ {0} /\ DOMAIN s = 1..Len(s)
         /\ Front(s) \in Seq(S)
         /\ Len(Front(s)) = Len(s) - 1
         /\ DOMAIN Front(s) = 1..(Len(s) - 1)
         /\ \A i \in 1..(Len(s) - 1) : Front(s)[i] = s[i]
         /\ Last(s) = s[Len(s)] /\ Last(s) \in S
  <1>1. Len(s) \in Nat /\ DOMAIN s = 1..Len(s) /\ Len(s) # 0
    BY LenProperties, EmptySeq
  <1>2. \A i \in 1..(Len(s) - 1) : s[i] \in S
    BY <1>1, ElementOfSeq
  <1>3. /\ SubSeq(s, 1, Len(s) - 1) \in Seq(S)
        /\ Len(SubSeq(s, 1, Len(s) - 1)) = (IF 1 <= Len(s) - 1 THEN Len(s) - 1 - 1 + 1 ELSE 0)
        /\ \A i \in 1..(Len(s) - 1 - 1 + 1) : SubSeq(s, 1, Len(s) - 1)[i] = s[1 + i - 1]
    BY <1>1, <1>2, SubSeqProperties
  <1>4. Len(Front(s)) = Len(s) - 1 /\ \A i \in 1..(Len(s) - 1) : Front(s)[i] = s[i]
    BY <1>1, <1>3 DEF Front
  <1>5. DOMAIN Front(s) = 1..(Len(s) - 1)
    BY <1>3, <1>4, LenProperties DEF Front
  <1>6. Last(s) = s[Len(s)] /\ Last(s) \in S
    BY <1>1, ElementOfSeq DEF Last
  <1> QED
    BY <1>1, <1>3, <1>4, <1>5, <1>6 DEF Front

\* Where the top frame is
LEMMA TopFacts ==
  ASSUME PoolTypeOK, NEW t \in Threads, frames[t] # <<>>
  PROVE  /\ Len(frames[t]) \in Nat \ {0}
         /\ DOMAIN frames[t] = 1..Len(frames[t])
         /\ Len(frames[t]) \in DOMAIN frames[t]
         /\ Top(t) = frames[t][Len(frames[t])]
         /\ Top(t) \in FrameType
  <1>1. frames[t] \in Seq(FrameType)
    BY DEF PoolTypeOK
  <1>2. Len(frames[t]) \in Nat /\ DOMAIN frames[t] = 1..Len(frames[t]) /\ Len(frames[t]) # 0
    BY <1>1, LenProperties, EmptySeq
  <1>3. Top(t) = frames[t][Len(frames[t])]
    BY DEF Top, Last
  <1> QED
    BY <1>1, <1>2, <1>3, ElementOfSeq

\* A step that replaces the top frame of thread t by f leaves all others as they are.
Replaces(t, f) ==
  /\ frames' \in [Threads -> Seq(FrameType)]
  /\ \A u \in Threads : Len(frames'[u]) = Len(frames[u]) /\ DOMAIN frames'[u] = DOMAIN frames[u]
  /\ \A u \in Threads : u # t => frames'[u] = frames[u]
  /\ frames'[t] # <<>>
  /\ Top(t)' = f
  /\ frames'[t][Len(frames[t])] = f
  /\ \A i \in DOMAIN frames[t] : i # Len(frames[t]) => frames'[t][i] = frames[t][i]

LEMMA TopReplaced ==
  ASSUME PoolTypeOK, NEW t \in Threads, frames[t] # <<>>, NEW f \in FrameType, SetTop(t, f)
  PROVE  Replaces(t, f)
  <1> DEFINE s == frames[t]
             n == Len(s)
             r == Append(Front(s), f)
  <1>1. s \in Seq(FrameType) /\ n \in Nat \ {0} /\ DOMAIN s = 1..n
    BY TopFacts DEF PoolTypeOK
  <1>2. /\ Front(s) \in Seq(FrameType)
        /\ Len(Front(s)) = n - 1
        /\ \A i \in 1..(n - 1) : Front(s)[i] = s[i]
    BY <1>1, FrontFacts
  <1>3. /\ r \in Seq(FrameType)
        /\ Len(r) = n
        /\ \A i \in 1..(n - 1) : r[i] = s[i]
        /\ r[n] = f
    <2> HIDE DEF s, n
    <2>1. /\ Append(Front(s), f) \in Seq(FrameType)
          /\ Len(Append(Front(s), f)) = Len(Front(s)) + 1
          /\ \A i \in 1..Len(Front(s)) : Append(Front(s), f)[i] = Front(s)[i]
          /\ Append(Front(s), f)[Len(Front(s)) + 1] = f
      BY <1>2, AppendProperties
    <2> QED
      BY <1>1, <1>2, <2>1
  <1>4. frames \in [Threads -> Seq(FrameType)] /\ frames' = [frames EXCEPT ![t] = r]
    BY DEF SetTop, PoolTypeOK
  <1> HIDE DEF r
  <1>5. /\ frames' \in [Threads -> Seq(FrameType)]
        /\ frames'[t] = r
        /\ \A u \in Threads : u # t => frames'[u] = frames[u]
    BY <1>3, <1>4
  <1>6. DOMAIN r = 1..n /\ r # <<>>
    BY <1>1, <1>3, LenProperties, EmptySeq
  <1>7. Top(t)' = f
    BY <1>3, <1>5 DEF Top, Last
  <1> QED
    BY <1>1, <1>3, <1>5, <1>6, <1>7 DEF Replaces

----------------------------------------------------------------------------
(* What steps do to the references *)

LEMMA RefsDef ==
  ASSUME NEW g
  PROVE  \A a, k : <<a, k>> \in Refs(g) <=>
            /\ a \in Threads \cup {Queue} /\ k \in Nat
            /\ \/ a = Queue /\ Queued(g, k)
               \/ Running(g, a, k)
               \/ k = 0 /\ Pushing(g, a)
  BY DEF Refs

\* References are pairs.
LEMMA RefsArePairs ==
  ASSUME NEW g, NEW r \in Refs(g)
  PROVE  r = <<r[1], r[2]>>
  BY DEF Refs

LEMMA RefsUnchanged ==
  ASSUME \A g, k : Queued(g, k)' <=> Queued(g, k),
         \A g, t, i : Running(g, t, i)' <=> Running(g, t, i),
         \A g, t : Pushing(g, t)' <=> Pushing(g, t)
  PROVE  \A g : Refs(g)' = Refs(g)
  BY DEF Refs

\* A step of the top frame of a thread that leaves it counted, or not, as it was
LEMMA QuietRefs ==
  ASSUME PoolTypeOK, NEW t \in Threads, frames[t] # <<>>, NEW f, Replaces(t, f),
         f.of = Top(t).of, f.pc \notin {"push", "unlock"}, Top(t).pc \notin {"push", "unlock"},
         workStack' = workStack
  PROVE  \A g : Refs(g)' = Refs(g)
  <1>1. \A g, k : Queued(g, k)' <=> Queued(g, k)
    BY DEF Queued
  <1>2. \A g, u, i : Running(g, u, i)' <=> Running(g, u, i)
    <2> TAKE g, u, i
    <2>1. CASE u = t /\ i = Len(frames[t])
      BY <2>1, TopFacts DEF Running, Replaces
    <2>2. CASE ~(u = t /\ i = Len(frames[t]))
      BY <2>2, TopFacts DEF Running, Replaces
    <2> QED
      BY <2>1, <2>2
  <1>3. \A g, u : Pushing(g, u)' <=> Pushing(g, u)
    BY DEF Pushing, Replaces, Target, Top
  <1> QED
    BY <1>1, <1>2, <1>3, RefsUnchanged

----------------------------------------------------------------------------
(* What a step of a top frame preserves *)

LEMMA ReplaceFrames ==
  ASSUME PoolTypeOK, FrameInv, NEW t \in Threads, frames[t] # <<>>, NEW f, Replaces(t, f),
         Sound(t, f)
  PROVE  FrameInv'
  <1>1. Len(frames'[Main]) = 1
    BY ThreadFacts DEF FrameInv, Replaces
  <1>2. ASSUME NEW u \in Threads, NEW i \in DOMAIN frames'[u]
        PROVE  /\ Sound(u, frames'[u][i])
               /\ i < Len(frames'[u]) => frames'[u][i].pc = "help"
    <2>1. i \in DOMAIN frames[u] /\ Len(frames'[u]) = Len(frames[u])
      BY <1>2 DEF Replaces
    <2>2. CASE u = t /\ i = Len(frames[t])
      BY <2>1, <2>2, TopFacts DEF Replaces
    <2>3. CASE ~(u = t /\ i = Len(frames[t]))
      BY <2>1, <2>3 DEF FrameInv, Replaces
    <2> QED
      BY <2>2, <2>3
  <1> QED
    BY <1>1, <1>2 DEF FrameInv, Sound

LEMMA ReplaceOwners ==
  ASSUME PoolTypeOK, OwnerInv, NEW t \in Threads, frames[t] # <<>>, NEW f, Replaces(t, f),
         f.own = Top(t).own, alive' = alive, opened' = opened
  PROVE  OwnerInv'
  <1>1. \A u \in Threads : \A i \in DOMAIN frames[u] : frames'[u][i].own = frames[u][i].own
    <2> TAKE u \in Threads
    <2> TAKE i \in DOMAIN frames[u]
    <2>1. CASE u = t /\ i = Len(frames[t])
      BY <2>1, TopFacts DEF Replaces
    <2>2. CASE ~(u = t /\ i = Len(frames[t]))
      BY <2>2 DEF Replaces
    <2> QED
      BY <2>1, <2>2
  <1>2. \A u \in Threads : DOMAIN frames'[u] = DOMAIN frames[u]
    BY DEF Replaces
  <1> QED
    BY <1>1, <1>2 DEF OwnerInv

LEMMA ReplaceMutex ==
  ASSUME PoolTypeOK, MutexInv, NEW t \in Threads, frames[t] # <<>>, NEW f, Replaces(t, f),
         f.pc # "unlock", mutex' = mutex
  PROVE  MutexInv'
  <1>1. \A u \in Threads : \A i \in DOMAIN frames[u] :
          frames'[u][i].pc = "unlock" => frames'[u][i] = frames[u][i]
    <2> TAKE u \in Threads
    <2> TAKE i \in DOMAIN frames[u]
    <2>1. CASE u = t /\ i = Len(frames[t])
      BY <2>1, TopFacts DEF Replaces
    <2>2. CASE ~(u = t /\ i = Len(frames[t]))
      BY <2>2 DEF Replaces
    <2> QED
      BY <2>1, <2>2
  <1>2. \A u \in Threads : DOMAIN frames'[u] = DOMAIN frames[u]
    BY DEF Replaces
  <1> QED
    BY <1>1, <1>2 DEF MutexInv

LEMMA SameLatches ==
  ASSUME LatchInv, \A g : Refs(g)' = Refs(g), UNCHANGED latches
  PROVE  LatchInv'
  BY DEF LatchInv, latches

\* The steps that only move a thread on, between program counters that are counted alike
LEMMA QuietStep ==
  ASSUME PoolInv, NEW t \in Threads, frames[t] # <<>>, NEW p \in Pcs \ {"push", "unlock"},
         Go(t, p), Top(t).pc \notin {"push", "unlock"}, Sound(t, [Top(t) EXCEPT !.pc = p]),
         UNCHANGED <<workStack, latches, opened>>
  PROVE  Replaces(t, [Top(t) EXCEPT !.pc = p]) /\ FrameInv' /\ OwnerInv' /\ LatchInv' /\ MutexInv'
  <1> DEFINE f == [Top(t) EXCEPT !.pc = p]
  <1>1. Top(t) \in FrameType /\ f \in FrameType
    BY TopFacts DEF PoolInv, FrameType
  <1>2. f.of = Top(t).of /\ f.own = Top(t).own /\ f.pc = p
    BY <1>1 DEF FrameType
  <1>3. SetTop(t, f) /\ Sound(t, f)
    BY DEF Go
  <1> HIDE DEF f
  <1>4. Replaces(t, f)
    BY <1>1, <1>3, TopReplaced DEF PoolInv
  <1>5. FrameInv'
    BY <1>3, <1>4, ReplaceFrames DEF PoolInv
  <1>6. OwnerInv'
    BY <1>2, <1>4, ReplaceOwners DEF PoolInv, latches
  <1>7. MutexInv'
    BY <1>2, <1>4, ReplaceMutex DEF PoolInv, latches
  <1>8. LatchInv'
    BY <1>2, <1>4, QuietRefs, SameLatches DEF PoolInv
  <1> QED
    BY <1>4, <1>5, <1>6, <1>7, <1>8 DEF f

\* The steps that touch neither the tasks nor the latches
LEMMA IdleStep ==
  ASSUME PoolInv, UNCHANGED <<frames, workStack, latches, opened>>
  PROVE  FrameInv' /\ OwnerInv' /\ LatchInv' /\ MutexInv'
  <1>1. FrameInv' /\ OwnerInv' /\ MutexInv'
    BY DEF PoolInv, FrameInv, Sound, OwnerInv, MutexInv, latches
  <1>2. \A g : Refs(g)' = Refs(g)
    BY DEF Refs, Queued, Running, Pushing, Target, Top
  <1> QED
    BY <1>1, <1>2, SameLatches DEF PoolInv

----------------------------------------------------------------------------
(* The actions *)

\* What a thread at pc knows of its frame
LEMMA AtFacts ==
  ASSUME PoolInv, NEW t \in Threads, NEW p, At(t, p)
  PROVE  frames[t] # <<>> /\ Top(t).pc = p /\ Top(t) \in FrameType /\ Sound(t, Top(t)) /\ ~over
  BY TopFacts DEF PoolInv, FrameInv, At

LEMMA GoType ==
  ASSUME PoolInv, NEW t \in Threads, frames[t] # <<>>, NEW p \in Pcs, Go(t, p)
  PROVE  /\ [Top(t) EXCEPT !.pc = p] \in FrameType
         /\ Replaces(t, [Top(t) EXCEPT !.pc = p])
         /\ frames' \in [Threads -> Seq(FrameType)]
  <1>1. [Top(t) EXCEPT !.pc = p] \in FrameType
    BY TopFacts DEF PoolInv, FrameType
  <1>2. Replaces(t, [Top(t) EXCEPT !.pc = p])
    BY <1>1, TopReplaced DEF PoolInv, Go
  <1> QED
    BY <1>1, <1>2 DEF Replaces

LEMMA SpawnNotifyInv ==
  ASSUME PoolInv, NEW t \in Threads, SpawnNotify(t)
  PROVE  PoolInv'
  <1> DEFINE p == IF Top(t).own = NoGroup THEN "body" ELSE "group"
  <1>1. frames[t] # <<>> /\ Top(t).pc = "notify" /\ Top(t) \in FrameType /\ Sound(t, Top(t))
    BY AtFacts DEF SpawnNotify
  <1>2. Go(t, p) /\ UNCHANGED <<workStack, latches, opened>>
    BY DEF SpawnNotify, budget
  <1>3. Sound(t, [Top(t) EXCEPT !.pc = p])
    BY <1>1 DEF Sound, FrameType, NoGroup
  <1>4. p \in Pcs \ {"push", "unlock"}
    BY DEF Pcs
  <1>5. worker' \in [Workers -> {"unborn", "creating", "loop", "asleep", "exited"}]
    BY DEF SpawnNotify, PoolInv, PoolTypeOK
  <1>6. UNCHANGED <<born, created, stop, over>>
    BY DEF SpawnNotify
  <1> HIDE DEF p
  <1>7. frames' \in [Threads -> Seq(FrameType)]
    BY <1>1, <1>2, <1>4, GoType
  <1>8. PoolTypeOK'
    BY <1>2, <1>5, <1>6, <1>7 DEF PoolInv, PoolTypeOK, latches
  <1> QED
    BY <1>1, <1>2, <1>3, <1>4, <1>8, QuietStep DEF PoolInv

LEMMA MoveInv ==
  ASSUME PoolInv, NEW t \in Threads,
         CloseGroup(t) \/ HelpCheck(t) \/ SyncWait(t) \/ EndTask(t)
  PROVE  PoolInv'
  <1> DEFINE From == {"group", "help", "sync", "body"}
             To == {"sync", "help", "steal", "waiting", "dec"}
  <1>1. PICK p \in To :
          /\ Go(t, p)
          /\ frames[t] # <<>>
          /\ Top(t).pc \in From
          /\ p = "dec" <=> Top(t).pc = "body"
          /\ t = Main => p \notin {"help", "steal", "dec"}
    <2>1. CASE CloseGroup(t)
      BY <2>1, AtFacts DEF CloseGroup
    <2>2. CASE HelpCheck(t)
      BY <2>2, AtFacts DEF HelpCheck, Sound
    <2>3. CASE SyncWait(t)
      BY <2>3, AtFacts DEF SyncWait
    <2>4. CASE EndTask(t)
      BY <2>4, AtFacts DEF EndTask
    <2> QED
      BY <2>1, <2>2, <2>3, <2>4
  <1>2. UNCHANGED <<pool, latches, budget, over, link>>
    BY DEF CloseGroup, HelpCheck, SyncWait, EndTask
  <1>3. Top(t) \in FrameType /\ Sound(t, Top(t))
    BY <1>1, TopFacts DEF PoolInv, FrameInv
  <1>4. Sound(t, [Top(t) EXCEPT !.pc = p])
    BY <1>1, <1>3 DEF Sound, FrameType
  <1>5. p \in Pcs \ {"push", "unlock"}
    BY DEF Pcs
  <1>6. frames' \in [Threads -> Seq(FrameType)]
    BY <1>1, <1>5, GoType
  <1>7. PoolTypeOK'
    BY <1>2, <1>6 DEF PoolInv, PoolTypeOK, pool, latches, budget
  <1> QED
    BY <1>1, <1>2, <1>4, <1>5, <1>7, QuietStep DEF PoolInv, pool, budget

LEMMA StopStepInv ==
  ASSUME PoolInv, NEW t \in Threads, Stop(t) \/ NotifyAll(t) \/ Join(t)
  PROVE  PoolInv'
  <1> DEFINE same == UNCHANGED <<frames, workStack, latches, opened>>
             moved == \E p \in {"stopping", "join"} :
                        /\ Go(t, p)
                        /\ frames[t] # <<>> /\ Top(t).pc \in {"body", "stopping"}
                        /\ UNCHANGED <<workStack, latches, opened>>
  <1>1. same \/ moved
    BY AtFacts DEF Stop, MayStop, NotifyAll, Join, pool, budget
  <1>2. worker' \in [Workers -> {"unborn", "creating", "loop", "asleep", "exited"}]
    BY DEF Stop, NotifyAll, Join, PoolInv, PoolTypeOK, pool
  <1>3. UNCHANGED <<born, created>> /\ stop' \in BOOLEAN /\ over' \in BOOLEAN
    BY DEF Stop, NotifyAll, Join, PoolInv, PoolTypeOK, pool
  <1>4. CASE same
    BY <1>2, <1>3, <1>4, IdleStep DEF PoolInv, PoolTypeOK, latches
  <1>5. CASE moved
    <2>1. PICK p \in {"stopping", "join"} :
                        /\ Go(t, p)
                        /\ frames[t] # <<>> /\ Top(t).pc \in {"body", "stopping"}
                        /\ UNCHANGED <<workStack, latches, opened>>
      BY <1>5
    <2>2. p \in Pcs \ {"push", "unlock"}
      BY DEF Pcs
    <2>3. Top(t) \in FrameType /\ Sound(t, Top(t))
      BY <2>1, TopFacts DEF PoolInv, FrameInv
    <2>4. Sound(t, [Top(t) EXCEPT !.pc = p])
      BY <2>1, <2>3 DEF Sound, FrameType
    <2>5. frames' \in [Threads -> Seq(FrameType)]
      BY <2>1, <2>2, GoType
    <2>6. PoolTypeOK'
      BY <1>2, <1>3, <2>1, <2>5 DEF PoolInv, PoolTypeOK, latches
    <2> QED
      BY <2>1, <2>2, <2>4, <2>6, QuietStep DEF PoolInv
  <1> QED
    BY <1>1, <1>4, <1>5

LEMMA LoopInv ==
  ASSUME PoolInv, CreateThread \/ \E w \in Workers : Sleep(w) \/ ExitLoop(w)
  PROVE  PoolInv'
  <1>1. UNCHANGED <<frames, workStack, latches, opened, stop, over>>
    BY DEF CreateThread, Sleep, ExitLoop, budget
  <1>2. worker' \in [Workers -> {"unborn", "creating", "loop", "asleep", "exited"}]
    BY DEF CreateThread, Sleep, ExitLoop, PoolInv, PoolTypeOK
  <1>3. born' \in 1..ThreadCount
    BY PoolAssumption DEF CreateThread, Sleep, ExitLoop, PoolInv, PoolTypeOK
  <1>4. created' \in BOOLEAN
    BY DEF CreateThread, Sleep, ExitLoop, PoolInv, PoolTypeOK
  <1> QED
    BY <1>1, <1>2, <1>3, <1>4, IdleStep DEF PoolInv, PoolTypeOK, latches

\* A live reference: the group of a task that has not counted down is alive.
LEMMA RunningIsAlive ==
  ASSUME PoolInv, NEW t \in Threads, NEW i \in DOMAIN frames[t],
         frames[t][i].of \in Groups, frames[t][i].pc # "unlock"
  PROVE  frames[t][i].of \in alive /\ count[frames[t][i].of] # 0
  <1> DEFINE g == frames[t][i].of
  <1>1. i \in Nat
    BY LenProperties DEF PoolInv, PoolTypeOK
  <1>2. <<t, i>> \in Refs(g)
    BY <1>1, RefsDef DEF Running
  <1>3. Cardinality(Refs(g)) # 0
    BY <1>2, FS_EmptySet DEF PoolInv, LatchInv
  <1> QED
    BY <1>2, <1>3 DEF PoolInv, LatchInv

LEMMA QueuedIsAlive ==
  ASSUME PoolInv, NEW k \in DOMAIN workStack
  PROVE  workStack[k] \in Groups /\ workStack[k] \in alive /\ count[workStack[k]] # 0
  <1> DEFINE g == workStack[k]
  <1>1. k \in Nat /\ g \in Groups
    BY LenProperties, ElementOfSeq DEF PoolInv, PoolTypeOK
  <1>2. <<Queue, k>> \in Refs(g)
    BY <1>1, RefsDef DEF Queued
  <1>3. Cardinality(Refs(g)) # 0
    BY <1>1, <1>2, FS_EmptySet DEF PoolInv, LatchInv
  <1> QED
    BY <1>1, <1>2, <1>3 DEF PoolInv, LatchInv

\* Every frame's task belongs to a live group: what LatchOutlivesTasks says.
LEMMA OfIsAlive ==
  ASSUME PoolInv, NEW t \in Threads, NEW i \in DOMAIN frames[t], frames[t][i].of # NoGroup
  PROVE  frames[t][i].of \in Groups /\ frames[t][i].of \in alive
  <1>1. frames[t][i].of \in Groups
    BY DEF PoolInv, FrameInv, Sound
  <1>2. CASE frames[t][i].pc = "unlock"
    BY <1>1, <1>2 DEF PoolInv, MutexInv, LatchInv
  <1> QED
    BY <1>1, <1>2, RunningIsAlive

LEMMA OpenGroupInv ==
  ASSUME PoolInv, NEW t \in Threads, OpenGroup(t)
  PROVE  PoolInv' /\ Replaces(t, [Top(t) EXCEPT !.own = opened + 1, !.pc = "group"])
  <1> DEFINE g == opened + 1
             f == [Top(t) EXCEPT !.own = g, !.pc = "group"]
             n == Len(frames[t])
  <1>1. frames[t] # <<>> /\ Top(t).pc = "body" /\ Top(t) \in FrameType /\ Sound(t, Top(t))
    BY AtFacts DEF OpenGroup
  <1>2. g \in Groups /\ g \in 0..MaxGroups /\ g # NoGroup /\ g \notin alive
    BY PoolAssumption DEF OpenGroup, PoolInv, PoolTypeOK, OwnerInv, Groups, NoGroup
  <1>3. f \in FrameType /\ f.of = Top(t).of /\ f.own = g /\ f.pc = "group"
    BY <1>1, <1>2 DEF FrameType, Pcs
  <1>4. Sound(t, f)
    BY <1>1, <1>2, <1>3 DEF Sound
  <1>5. SetTop(t, f) /\ alive' = alive \cup {g} /\ opened' = g
        /\ UNCHANGED <<worker, born, created, workStack, stop, count, mutex, over>>
    BY DEF OpenGroup, pool
  <1> HIDE DEF f
  <1>6. Replaces(t, f)
    BY <1>1, <1>3, <1>5, TopReplaced DEF PoolInv
  <1>7. PoolTypeOK'
    BY <1>2, <1>5, <1>6 DEF PoolInv, PoolTypeOK, Replaces
  <1>8. FrameInv'
    BY <1>1, <1>4, <1>6, ReplaceFrames DEF PoolInv
  <1>9. OwnerInv'
    <2>1. \A u \in Threads : \A i \in DOMAIN frames'[u] :
            IF u = t /\ i = n THEN frames'[u][i].own = g
                              ELSE i \in DOMAIN frames[u] /\ frames'[u][i].own = frames[u][i].own
      BY <1>3, <1>6 DEF Replaces
    <2>2. \A u \in Threads : \A i \in DOMAIN frames[u] : frames[u][i].own # g
      BY <1>2 DEF PoolInv, OwnerInv
    <2>3. \A h \in alive' : h <= opened'
      BY <1>5, <1>2 DEF PoolInv, OwnerInv, PoolTypeOK, Groups
    <2>4. \A u \in Threads : \A i \in DOMAIN frames'[u] :
            frames'[u][i].own # NoGroup => frames'[u][i].own \in alive'
      BY <2>1, <1>5 DEF PoolInv, OwnerInv
    <2>5. \A u, v \in Threads : \A i \in DOMAIN frames'[u], j \in DOMAIN frames'[v] :
            frames'[u][i].own # NoGroup /\ frames'[u][i].own = frames'[v][j].own => u = v /\ i = j
      <3> SUFFICES ASSUME NEW u \in Threads, NEW v \in Threads,
                          NEW i \in DOMAIN frames'[u], NEW j \in DOMAIN frames'[v],
                          frames'[u][i].own # NoGroup, frames'[u][i].own = frames'[v][j].own
                   PROVE  u = v /\ i = j
        OBVIOUS
      <3> QED
        BY <2>1, <2>2 DEF PoolInv, OwnerInv
    <2> QED
      BY <2>3, <2>4, <2>5 DEF OwnerInv
  <1>10. MutexInv'
    BY <1>1, <1>3, <1>5, <1>6, ReplaceMutex DEF PoolInv
  <1>11. LatchInv'
    <2>1. \A h : Refs(h)' = Refs(h)
      BY <1>1, <1>3, <1>5, <1>6, QuietRefs DEF PoolInv
    <2> QED
      BY <2>1, <1>5 DEF PoolInv, LatchInv
  <1> QED
    BY <1>6, <1>7, <1>8, <1>9, <1>10, <1>11 DEF PoolInv, f

LEMMA SyncDoneInv ==
  ASSUME PoolInv, NEW t \in Threads, SyncDone(t)
  PROVE  PoolInv' /\ Replaces(t, [Top(t) EXCEPT !.own = NoGroup, !.pc = "body"])
  <1> DEFINE g == Top(t).own
             f == [Top(t) EXCEPT !.own = NoGroup, !.pc = "body"]
             n == Len(frames[t])
  <1>1. frames[t] # <<>> /\ Top(t).pc = "sync" /\ Top(t) \in FrameType /\ Sound(t, Top(t))
    BY AtFacts DEF SyncDone
  <1>2. g # NoGroup /\ g \in Groups /\ ~mutex[g] /\ count[g] = 0
    BY <1>1 DEF SyncDone, Sound, FrameType, NoGroup, Groups
  <1>3. f \in FrameType /\ f.of = Top(t).of /\ f.own = NoGroup /\ f.pc = "body"
    <2>1. NoGroup \in 0..MaxGroups /\ "body" \in Pcs
      BY PoolAssumption DEF NoGroup, Pcs
    <2> QED
      BY <1>1, <2>1 DEF FrameType
  <1>4. Sound(t, f)
    BY <1>1, <1>3 DEF Sound
  <1>5. SetTop(t, f) /\ alive' = alive \ {g}
        /\ UNCHANGED <<worker, born, created, workStack, stop, count, mutex, over, opened>>
    BY DEF SyncDone, pool, budget
  <1> HIDE DEF f
  <1>6. Replaces(t, f)
    BY <1>1, <1>3, <1>5, TopReplaced DEF PoolInv
  <1>7. PoolTypeOK'
    BY <1>5, <1>6 DEF PoolInv, PoolTypeOK, Replaces
  <1>8. FrameInv'
    BY <1>1, <1>4, <1>6, ReplaceFrames DEF PoolInv
  <1>9. OwnerInv'
    <2>1. \A u \in Threads : \A i \in DOMAIN frames'[u] :
            IF u = t /\ i = n THEN frames'[u][i].own = NoGroup
                              ELSE i \in DOMAIN frames[u] /\ frames'[u][i].own = frames[u][i].own
      BY <1>3, <1>6 DEF Replaces
    <2>2. \A u \in Threads : \A i \in DOMAIN frames[u] :
            ~(u = t /\ i = n) => frames[u][i].own # g
      BY <1>1, <1>2, TopFacts DEF PoolInv, OwnerInv
    <2>3. \A h \in alive' : h <= opened'
      BY <1>5 DEF PoolInv, OwnerInv
    <2>4. \A u \in Threads : \A i \in DOMAIN frames'[u] :
            frames'[u][i].own # NoGroup => frames'[u][i].own \in alive'
      BY <2>1, <2>2, <1>5 DEF PoolInv, OwnerInv
    <2>5. \A u, v \in Threads : \A i \in DOMAIN frames'[u], j \in DOMAIN frames'[v] :
            frames'[u][i].own # NoGroup /\ frames'[u][i].own = frames'[v][j].own => u = v /\ i = j
      BY <2>1 DEF PoolInv, OwnerInv
    <2> QED
      BY <2>3, <2>4, <2>5 DEF OwnerInv
  <1>10. MutexInv'
    BY <1>1, <1>3, <1>5, <1>6, ReplaceMutex DEF PoolInv
  <1>11. LatchInv'
    <2>1. \A h : Refs(h)' = Refs(h)
      BY <1>1, <1>3, <1>5, <1>6, QuietRefs DEF PoolInv
    <2>2. Refs(g) = {}
      BY <1>2, FS_EmptySet DEF PoolInv, LatchInv
    <2> QED
      BY <2>1, <2>2, <1>2, <1>5 DEF PoolInv, LatchInv
  <1> QED
    BY <1>6, <1>7, <1>8, <1>9, <1>10, <1>11 DEF PoolInv, f

LEMMA TargetFacts ==
  ASSUME PoolInv, NEW t \in Threads, frames[t] # <<>>, Top(t).pc \in {"body", "group", "push"},
         Top(t).pc = "body" => t # Main
  PROVE  Target(t) \in Groups /\ Target(t) \in alive
  <1>1. Top(t) \in FrameType /\ Sound(t, Top(t)) /\ Len(frames[t]) \in DOMAIN frames[t]
        /\ Top(t) = frames[t][Len(frames[t])]
    BY TopFacts DEF PoolInv, FrameInv
  <1>2. CASE Top(t).own # NoGroup
    BY <1>1, <1>2 DEF Target, PoolInv, OwnerInv, PoolTypeOK
  <1>3. CASE Top(t).own = NoGroup
    <2>1. t # Main /\ Top(t).of \in Groups
      BY <1>1, <1>3 DEF Sound
    <2> QED
      BY <1>1, <1>3, <2>1, RunningIsAlive DEF Target
  <1> QED
    BY <1>2, <1>3

\* A reference more, and a reference in place of another
LEMMA CountAdded ==
  ASSUME NEW S, IsFiniteSet(S), NEW x, x \notin S
  PROVE  IsFiniteSet(S \cup {x}) /\ Cardinality(S \cup {x}) = Cardinality(S) + 1
  BY FS_AddElement

LEMMA CountMoved ==
  ASSUME NEW S, IsFiniteSet(S), NEW x \in S, NEW y, y \notin S
  PROVE  /\ IsFiniteSet((S \ {x}) \cup {y})
         /\ Cardinality((S \ {x}) \cup {y}) = Cardinality(S)
  <1> DEFINE T == S \ {x}
  <1>1. IsFiniteSet(T) /\ Cardinality(T) = Cardinality(S) - 1
    BY FS_RemoveElement
  <1>2. Cardinality(S) \in Nat /\ y \notin T
    BY FS_CardinalityType
  <1> HIDE DEF T
  <1>3. IsFiniteSet(T \cup {y}) /\ Cardinality(T \cup {y}) = Cardinality(T) + 1
    BY <1>1, <1>2, CountAdded
  <1>4. IsFiniteSet(T \cup {y}) /\ Cardinality(T \cup {y}) = Cardinality(S)
    BY <1>1, <1>2, <1>3
  <1> QED
    BY <1>4 DEF T

LEMMA SpawnIncInv ==
  ASSUME PoolInv, NEW t \in Threads, SpawnInc(t)
  PROVE  PoolInv' /\ Replaces(t, [Top(t) EXCEPT !.pc = "push"])
  <1> DEFINE f == [Top(t) EXCEPT !.pc = "push"]
  <1>1. /\ frames[t] # <<>> /\ Top(t) \in FrameType /\ Sound(t, Top(t))
        /\ Top(t).pc \in {"body", "group"} /\ (Top(t).pc = "body" => t # Main)
    BY AtFacts DEF SpawnInc
  <1>2. PICK G \in Groups : G = Target(t) /\ G \in alive
    BY <1>1, TargetFacts
  <1>3. f \in FrameType /\ f.of = Top(t).of /\ f.own = Top(t).own /\ f.pc = "push"
    BY <1>1 DEF FrameType, Pcs
  <1>4. Sound(t, f)
    BY <1>1, <1>3 DEF Sound
  <1>5. SetTop(t, f) /\ count' = [count EXCEPT ![G] = @ + 1]
        /\ UNCHANGED <<worker, born, created, workStack, stop, mutex, alive, opened, over>>
    BY <1>2 DEF SpawnInc, Go, pool
  <1>6. 0 \notin DOMAIN frames[t]
    BY <1>1, TopFacts DEF PoolInv
  <1> HIDE DEF f
  <1>7. Replaces(t, f)
    BY <1>1, <1>3, <1>5, TopReplaced DEF PoolInv
  <1>8. PoolTypeOK'
    BY <1>2, <1>5, <1>7 DEF PoolInv, PoolTypeOK, Replaces
  <1>9. FrameInv'
    BY <1>1, <1>4, <1>7, ReplaceFrames DEF PoolInv
  <1>10. OwnerInv'
    BY <1>1, <1>3, <1>5, <1>7, ReplaceOwners DEF PoolInv
  <1>11. MutexInv'
    BY <1>1, <1>3, <1>5, <1>7, ReplaceMutex DEF PoolInv
  <1>12. LatchInv'
    <2>1. \A g, k : Queued(g, k)' <=> Queued(g, k)
      BY <1>5 DEF Queued
    <2>2. \A g, u, i : Running(g, u, i)' <=> Running(g, u, i)
      <3> TAKE g, u, i
      <3>1. CASE u = t /\ i = Len(frames[t])
        BY <1>1, <1>3, <1>7, <3>1, TopFacts DEF Running, Replaces, PoolInv
      <3>2. CASE ~(u = t /\ i = Len(frames[t]))
        BY <1>7, <3>2 DEF Running, Replaces
      <3> QED
        BY <3>1, <3>2
    <2>3. \A g, u : Pushing(g, u)' <=> Pushing(g, u) \/ (u = t /\ g = G)
      <3>1. Target(t)' = G
        BY <1>2, <1>3, <1>7 DEF Target, Replaces
      <3> QED
        BY <1>1, <1>3, <1>7, <3>1 DEF Pushing, Replaces, Target, Top
    <2>4. \A g : Refs(g)' = IF g = G THEN Refs(g) \cup {<<t, 0>>} ELSE Refs(g)
      BY <2>1, <2>2, <2>3 DEF Refs
    <2>5. <<t, 0>> \notin Refs(G)
      BY <1>1, <1>6, RefsDef, ThreadFacts DEF Running, Pushing
    <2>6. IsFiniteSet(Refs(G)) /\ count[G] = Cardinality(Refs(G)) /\ count'[G] = count[G] + 1
      BY <1>2, <1>5 DEF PoolInv, LatchInv, PoolTypeOK
    <2>7. IsFiniteSet(Refs(G)') /\ count'[G] = Cardinality(Refs(G)')
      BY <2>4, <2>5, <2>6, CountAdded
    <2>8. \A g \in Groups : g # G => count'[g] = count[g] /\ Refs(g)' = Refs(g)
      BY <1>5, <2>4 DEF PoolInv, PoolTypeOK
    <2> QED
      BY <1>2, <1>5, <2>7, <2>8 DEF PoolInv, LatchInv
  <1> QED
    BY <1>7, <1>8, <1>9, <1>10, <1>11, <1>12 DEF PoolInv, f

LEMMA SpawnPushInv ==
  ASSUME PoolInv, NEW t \in Threads, SpawnPush(t)
  PROVE  PoolInv' /\ Replaces(t, [Top(t) EXCEPT !.pc = "notify"])
  <1> DEFINE f == [Top(t) EXCEPT !.pc = "notify"]
             n == Len(workStack)
  <1>1. frames[t] # <<>> /\ Top(t) \in FrameType /\ Sound(t, Top(t)) /\ Top(t).pc = "push"
    BY AtFacts DEF SpawnPush
  <1>2. PICK G \in Groups : G = Target(t) /\ G \in alive
    BY <1>1, TargetFacts
  <1>3. f \in FrameType /\ f.of = Top(t).of /\ f.own = Top(t).own /\ f.pc = "notify"
    BY <1>1 DEF FrameType, Pcs
  <1>4. Sound(t, f)
    BY <1>1, <1>3 DEF Sound
  <1>5. SetTop(t, f) /\ workStack' = Append(workStack, G)
        /\ UNCHANGED <<worker, born, created, stop, latches, opened, over>>
    BY <1>2 DEF SpawnPush, Go, budget
  <1>6. n \in Nat /\ DOMAIN workStack = 1..n /\ workStack \in Seq(Groups)
    BY LenProperties DEF PoolInv, PoolTypeOK
  <1>7. /\ workStack' \in Seq(Groups) /\ DOMAIN workStack' = 1..(n + 1)
        /\ \A k \in 1..n : workStack'[k] = workStack[k]
        /\ workStack'[n + 1] = G
    BY <1>2, <1>5, <1>6, AppendProperties, LenProperties
  <1> HIDE DEF f
  <1>8. Replaces(t, f)
    BY <1>1, <1>3, <1>5, TopReplaced DEF PoolInv
  <1>9. PoolTypeOK'
    BY <1>5, <1>7, <1>8 DEF PoolInv, PoolTypeOK, Replaces, latches
  <1>10. FrameInv'
    BY <1>1, <1>4, <1>8, ReplaceFrames DEF PoolInv
  <1>11. OwnerInv'
    BY <1>1, <1>3, <1>5, <1>8, ReplaceOwners DEF PoolInv, latches
  <1>12. MutexInv'
    BY <1>1, <1>3, <1>5, <1>8, ReplaceMutex DEF PoolInv, latches
  <1>13. LatchInv'
    <2>1. \A g, k : Queued(g, k)' <=> Queued(g, k) \/ (k = n + 1 /\ g = G)
      BY <1>6, <1>7 DEF Queued
    <2>2. \A g, u, i : Running(g, u, i)' <=> Running(g, u, i)
      <3> TAKE g, u, i
      <3>1. CASE u = t /\ i = Len(frames[t])
        BY <1>1, <1>3, <1>8, <3>1, TopFacts DEF Running, Replaces, PoolInv
      <3>2. CASE ~(u = t /\ i = Len(frames[t]))
        BY <1>8, <3>2 DEF Running, Replaces
      <3> QED
        BY <3>1, <3>2
    <2>3. \A g, u : Pushing(g, u)' <=> Pushing(g, u) /\ u # t
      BY <1>1, <1>3, <1>8 DEF Pushing, Replaces, Target, Top
    <2>4. \A g : Pushing(g, t) <=> g = G
      BY <1>1, <1>2 DEF Pushing
    <2>5. /\ <<t, 0>> \in Refs(G)
          /\ <<Queue, n + 1>> \notin Refs(G)
      BY <1>1, <1>6, <2>4, RefsDef, ThreadFacts, SMTT(30) DEF Running, Pushing, Queued
    <2>6. \A g : g # G => Refs(g)' = Refs(g)
      BY <2>1, <2>2, <2>3, <2>4 DEF Refs
    <2>7. Refs(G)' = (Refs(G) \ {<<t, 0>>}) \cup {<<Queue, n + 1>>}
      <3>1. ~Running(G, t, 0)
        BY <1>1, TopFacts DEF Running, PoolInv
      <3>2. \A a, k : <<a, k>> \in Refs(G)' <=>
              (<<a, k>> \in Refs(G) /\ ~(a = t /\ k = 0)) \/ (a = Queue /\ k = n + 1)
        <4>1. \A a, k : <<a, k>> \in Refs(G)' <=>
                 /\ a \in Threads \cup {Queue} /\ k \in Nat
                 /\ \/ a = Queue /\ (Queued(G, k) \/ k = n + 1)
                    \/ Running(G, a, k)
                    \/ k = 0 /\ Pushing(G, a) /\ a # t
          BY <2>1, <2>2, <2>3 DEF Refs
        <4>2. t # Queue /\ n + 1 \in Nat
          BY <1>6, ThreadFacts
        <4>3. \A a, k : <<a, k>> \in Refs(G) <=>
                 /\ a \in Threads \cup {Queue} /\ k \in Nat
                 /\ \/ a = Queue /\ Queued(G, k)
                    \/ Running(G, a, k)
                    \/ k = 0 /\ Pushing(G, a)
          BY RefsDef
        <4> HIDE DEF n
        <4> TAKE a, k
        <4>4. CASE a = t /\ k = 0
          BY <3>1, <4>1, <4>2, <4>4
        <4>5. CASE a = Queue /\ k = n + 1
          BY <4>1, <4>2, <4>5
        <4>6. CASE ~(a = t /\ k = 0) /\ ~(a = Queue /\ k = n + 1)
          BY <4>1, <4>3, <4>6
        <4> QED
          BY <4>4, <4>5, <4>6
      <3>3. \A r : r \in Refs(G)' => r = <<r[1], r[2]>>
        BY DEF Refs
      <3> QED
        BY <3>2, <3>3, RefsArePairs
    <2>8. IsFiniteSet(Refs(G)') /\ Cardinality(Refs(G)') = Cardinality(Refs(G))
      BY <1>2, <2>5, <2>7, CountMoved DEF PoolInv, LatchInv
    <2> QED
      BY <1>2, <1>5, <2>6, <2>8 DEF PoolInv, LatchInv, latches
  <1> QED
    BY <1>8, <1>9, <1>10, <1>11, <1>12, <1>13 DEF PoolInv, f

----------------------------------------------------------------------------
(* A queued task becomes a frame: Take and HelpRun *)

\* Frame f is put on top of those of thread t, which all help.
Pushes(t, f) ==
  /\ frames' \in [Threads -> Seq(FrameType)]
  /\ \A u \in Threads : u # t => frames'[u] = frames[u]
  /\ Len(frames'[t]) = Len(frames[t]) + 1
  /\ DOMAIN frames'[t] = DOMAIN frames[t] \cup {Len(frames[t]) + 1}
  /\ frames'[t] # <<>>
  /\ Top(t)' = f
  /\ frames'[t][Len(frames[t]) + 1] = f
  /\ \A i \in DOMAIN frames[t] :
       /\ frames'[t][i].of = frames[t][i].of
       /\ frames'[t][i].own = frames[t][i].own
       /\ frames'[t][i].pc = "help"
       /\ frames[t][i].pc \in {"help", "steal"}

Popped == Frame(Last(workStack), NoGroup, "body")

LEMMA PoppedFacts ==
  ASSUME PoolInv, workStack # <<>>
  PROVE  /\ Popped \in FrameType
         /\ Popped.of = workStack[Len(workStack)] /\ Popped.of \in Groups /\ Popped.of \in alive
         /\ Popped.own = NoGroup /\ Popped.pc = "body"
         /\ Len(workStack) \in DOMAIN workStack
  <1>1. workStack \in Seq(Groups)
    BY DEF PoolInv, PoolTypeOK
  <1>2. /\ Last(workStack) = workStack[Len(workStack)] /\ Last(workStack) \in Groups
        /\ Len(workStack) \in DOMAIN workStack
    BY <1>1, FrontFacts
  <1>3. Last(workStack) \in 0..MaxGroups /\ NoGroup \in 0..MaxGroups /\ "body" \in Pcs
    BY <1>2, PoolAssumption DEF Groups, NoGroup, Pcs
  <1>4. Last(workStack) \in alive
    BY <1>2, QueuedIsAlive
  <1> QED
    BY <1>2, <1>3, <1>4 DEF Popped, Frame, FrameType

LEMMA TakePushes ==
  ASSUME PoolInv, NEW w \in Workers, Take(w)
  PROVE  Pushes(w, Popped)
  <1> DEFINE s == frames[w]
             f == Popped
  <1>1. w \in Threads /\ s = <<>> /\ s \in Seq(FrameType) /\ workStack # <<>> /\ f \in FrameType
    BY PoppedFacts DEF Take, Idle, PopAndRun, PoolInv, PoolTypeOK, Threads
  <1>2. Len(s) = 0 /\ DOMAIN s = {}
    <2>1. Len(s) = 0 /\ DOMAIN s = 1..Len(s)
      BY <1>1, EmptySeq, LenProperties
    <2> QED
      BY <2>1
  <1>3. frames' = [frames EXCEPT ![w] = Append(s, f)] /\ frames \in [Threads -> Seq(FrameType)]
    BY DEF Take, PopAndRun, Popped, PoolInv, PoolTypeOK
  <1> HIDE DEF f
  <1>4. /\ Append(s, f) \in Seq(FrameType)
        /\ Len(Append(s, f)) = Len(s) + 1
        /\ Append(s, f)[Len(s) + 1] = f
    BY <1>1, AppendProperties
  <1> DEFINE r == Append(s, f)
  <1>5. DOMAIN r = 1..1 /\ r # <<>>
    <2>1. r \in Seq(FrameType) /\ Len(r) = 1
      BY <1>2, <1>4
    <2> HIDE DEF r
    <2>2. DOMAIN r = 1..Len(r)
      BY <2>1, LenProperties
    <2>3. r # <<>>
      BY <2>1, EmptySeq, SMTT(30)
    <2> QED
      BY <2>1, <2>2, <2>3
  <1> HIDE DEF r
  <1>6. frames' \in [Threads -> Seq(FrameType)] /\ frames'[w] = r
        /\ \A u \in Threads : u # w => frames'[u] = frames[u]
    BY <1>1, <1>3, <1>4 DEF r
  <1>7. Len(r) = 1 /\ r[1] = f /\ DOMAIN r = {1} /\ r # <<>>
    BY <1>2, <1>4, <1>5 DEF r
  <1>8. Top(w)' = f
    BY <1>6, <1>7 DEF Top, Last
  <1> QED
    BY <1>2, <1>6, <1>7, <1>8 DEF Pushes, f

LEMMA HelpPushes ==
  ASSUME PoolInv, NEW t \in Threads, HelpRun(t), ~(stop \/ workStack = <<>>)
  PROVE  Pushes(t, Popped) /\ t \in Workers
  <1> DEFINE s == frames[t]
             n == Len(s)
             h == [Last(s) EXCEPT !.pc = "help"]
             q == Append(Front(s), h)
             r == Append(q, Popped)
  <1>1. s # <<>> /\ Top(t) \in FrameType /\ Sound(t, Top(t)) /\ Top(t).pc = "steal"
    BY AtFacts DEF HelpRun
  <1>2. t \in Workers
    BY <1>1, ThreadFacts DEF Sound
  <1>3. s \in Seq(FrameType) /\ Popped \in FrameType
    BY PoppedFacts DEF PoolInv, PoolTypeOK
  <1>4. /\ n \in Nat \ {0} /\ DOMAIN s = 1..n
        /\ Front(s) \in Seq(FrameType) /\ Len(Front(s)) = n - 1
        /\ \A i \in 1..(n - 1) : Front(s)[i] = s[i]
        /\ Last(s) = s[n]
    BY <1>1, <1>3, FrontFacts
  <1>5. /\ h \in FrameType /\ h.of = s[n].of /\ h.own = s[n].own /\ h.pc = "help"
        /\ s[n].pc = "steal"
    BY <1>1, <1>4 DEF Top, FrameType, Pcs
  <1>6. frames' = [frames EXCEPT ![t] = r] /\ frames \in [Threads -> Seq(FrameType)]
    BY DEF HelpRun, Popped, PoolInv, PoolTypeOK
  <1> HIDE DEF h
  <1>7. /\ q \in Seq(FrameType) /\ Len(q) = n
        /\ \A i \in 1..(n - 1) : q[i] = s[i]
        /\ q[n] = h
    <2>1. /\ Append(Front(s), h) \in Seq(FrameType)
          /\ Len(Append(Front(s), h)) = Len(Front(s)) + 1
          /\ \A i \in 1..Len(Front(s)) : Append(Front(s), h)[i] = Front(s)[i]
          /\ Append(Front(s), h)[Len(Front(s)) + 1] = h
      BY <1>4, <1>5, AppendProperties
    <2> HIDE DEF s, n
    <2> QED
      BY <1>4, <2>1
  <1> HIDE DEF q
  <1>8. /\ r \in Seq(FrameType) /\ Len(r) = n + 1
        /\ \A i \in 1..n : r[i] = q[i]
        /\ r[n + 1] = Popped
    BY <1>3, <1>7, AppendProperties
  <1>9. DOMAIN r = 1..(n + 1) /\ r # <<>>
    BY <1>4, <1>8, LenProperties, EmptySeq
  <1> HIDE DEF r
  <1>10. frames' \in [Threads -> Seq(FrameType)] /\ frames'[t] = r
         /\ \A u \in Threads : u # t => frames'[u] = frames[u]
    BY <1>6, <1>8
  <1>11. Top(t)' = Popped
    BY <1>8, <1>10 DEF Top, Last
  <1>12. DOMAIN r = DOMAIN s \cup {n + 1}
    BY <1>4, <1>9
  <1>13. \A i \in 1..(n - 1) : s[i].pc = "help"
    BY <1>4 DEF PoolInv, FrameInv
  <1>14. \A i \in DOMAIN s : /\ r[i].of = s[i].of /\ r[i].own = s[i].own
                             /\ r[i].pc = "help" /\ s[i].pc \in {"help", "steal"}
    <2> TAKE i \in DOMAIN s
    <2>1. CASE i = n
      BY <1>4, <1>5, <1>7, <1>8, <2>1
    <2>2. CASE i # n
      <3>1. i \in 1..(n - 1) /\ i \in 1..n
        BY <1>4, <2>2
      <3> QED
        BY <1>7, <1>8, <1>13, <3>1
    <2> QED
      BY <2>1, <2>2
  <1> QED
    BY <1>2, <1>8, <1>9, <1>10, <1>11, <1>12, <1>14 DEF Pushes

LEMMA PushInv ==
  ASSUME PoolInv, NEW t \in Workers, workStack # <<>>, workStack' = Front(workStack),
         Pushes(t, Popped),
         UNCHANGED <<worker, born, created, latches, opened, stop, over>>
  PROVE  PoolInv'
  <1> DEFINE n == Len(workStack)
             m == Len(frames[t])
  <1>1. PICK G \in Groups : G = workStack[n] /\ G \in alive /\ G = Popped.of
    BY PoppedFacts
  <1>2. Popped.own = NoGroup /\ Popped.pc = "body" /\ Popped \in FrameType
    BY PoppedFacts
  <1>3. t \in Threads /\ t # Main
    BY ThreadFacts DEF Threads
  <1>4. workStack \in Seq(Groups) /\ frames[t] \in Seq(FrameType)
    BY <1>3 DEF PoolInv, PoolTypeOK
  <1>5. m \in Nat /\ DOMAIN frames[t] = 1..m
    BY <1>4, LenProperties
  <1>6. /\ n \in Nat \ {0} /\ DOMAIN workStack = 1..n
        /\ workStack' \in Seq(Groups) /\ DOMAIN workStack' = 1..(n - 1)
        /\ \A k \in 1..(n - 1) : workStack'[k] = workStack[k]
    BY <1>4, FrontFacts
  <1>7. PoolTypeOK'
    BY <1>6 DEF PoolInv, PoolTypeOK, Pushes, latches
  <1>8. \A u \in Threads : \A i \in DOMAIN frames'[u] :
          \/ u = t /\ i = m + 1 /\ frames'[u][i] = Popped
          \/ /\ i \in DOMAIN frames[u] /\ (u = t => i # m + 1)
             /\ frames'[u][i].of = frames[u][i].of /\ frames'[u][i].own = frames[u][i].own
             /\ \/ frames'[u][i] = frames[u][i] /\ u # t
                \/ u = t /\ frames'[u][i].pc = "help" /\ frames[u][i].pc \in {"help", "steal"}
    BY <1>3, <1>5 DEF Pushes
  <1>9. FrameInv'
    <2>1. Len(frames'[Main]) = 1
      BY <1>3, ThreadFacts DEF PoolInv, FrameInv, Pushes
    <2>2. Sound(t, Popped)
      BY <1>1, <1>2, <1>3 DEF Sound
    <2>3. ASSUME NEW u \in Threads, NEW i \in DOMAIN frames'[u]
          PROVE  /\ Sound(u, frames'[u][i])
                 /\ i < Len(frames'[u]) => frames'[u][i].pc = "help"
      <3>1. CASE u = t /\ i = m + 1 /\ frames'[u][i] = Popped
        BY <1>5, <2>2, <3>1 DEF Pushes
      <3>2. CASE i \in DOMAIN frames[u] /\ frames'[u][i] = frames[u][i] /\ u # t
        BY <3>2 DEF PoolInv, FrameInv, Pushes
      <3>3. CASE /\ i \in DOMAIN frames[u] /\ u = t
                 /\ frames'[u][i].of = frames[u][i].of /\ frames'[u][i].own = frames[u][i].own
                 /\ frames'[u][i].pc = "help" /\ frames[u][i].pc \in {"help", "steal"}
        <4>1. Sound(u, frames[u][i])
          BY <3>3 DEF PoolInv, FrameInv
        <4> QED
          BY <1>3, <3>3, <4>1 DEF Sound
      <3> QED
        BY <2>3, <1>8, <3>1, <3>2, <3>3
    <2> QED
      BY <2>1, <2>3 DEF FrameInv, Sound
  <1>10. OwnerInv'
    <2>1. \A u \in Threads : \A i \in DOMAIN frames'[u] :
            frames'[u][i].own # NoGroup =>
              i \in DOMAIN frames[u] /\ frames'[u][i].own = frames[u][i].own
      BY <1>2, <1>8
    <2> QED
      BY <2>1 DEF PoolInv, OwnerInv, latches
  <1>11. MutexInv'
    <2>1. \A u \in Threads : \A i \in DOMAIN frames'[u] :
            frames'[u][i].pc = "unlock" =>
              i \in DOMAIN frames[u] /\ frames'[u][i] = frames[u][i]
      BY <1>2, <1>8
    <2> QED
      BY <2>1 DEF PoolInv, MutexInv, latches
  <1>12. LatchInv'
    <2>1. \A g, k : Queued(g, k)' <=> Queued(g, k) /\ k # n
      BY <1>6 DEF Queued
    <2>2. \A g, u, i : Running(g, u, i)' <=> Running(g, u, i) \/ (u = t /\ i = m + 1 /\ g = G)
      <3> TAKE g, u, i
      <3>1. CASE u # t
        BY <3>1 DEF Running, Pushes
      <3>2. CASE u = t /\ i = m + 1
        BY <1>1, <1>2, <1>3, <3>2 DEF Running, Pushes
      <3>3. CASE u = t /\ i # m + 1
        BY <1>3, <3>3 DEF Running, Pushes
      <3> QED
        BY <3>1, <3>2, <3>3
    <2>3. \A g, u : Pushing(g, u)' <=> Pushing(g, u)
      <3>1. ~(frames[t] # <<>> /\ Top(t).pc = "push")
        BY <1>3, TopFacts DEF PoolInv, Pushes
      <3>2. Top(t)'.pc = "body"
        BY <1>2 DEF Pushes
      <3> QED
        BY <3>1, <3>2, <1>3 DEF Pushing, Pushes, Target, Top
    <2>4. /\ <<Queue, n>> \in Refs(G)
          /\ <<t, m + 1>> \notin Refs(G)
      <3>1. Queued(G, n) /\ n \in Nat
        BY <1>1, <1>6 DEF Queued
      <3>2. ~Running(G, t, m + 1) /\ t # Queue /\ m + 1 # 0
        BY <1>3, <1>5, ThreadFacts DEF Running
      <3> HIDE DEF n, m
      <3> QED
        BY <3>1, <3>2, RefsDef
    <2>5. \A g : g # G => Refs(g)' = Refs(g)
      <3>1. \A g, k : g # G => (Queued(g, k)' <=> Queued(g, k))
        BY <1>1, <2>1 DEF Queued
      <3> QED
        BY <2>2, <2>3, <3>1 DEF Refs
    <2>6. Refs(G)' = (Refs(G) \ {<<Queue, n>>}) \cup {<<t, m + 1>>}
      <3>1. \A a, k : <<a, k>> \in Refs(G)' <=>
               /\ a \in Threads \cup {Queue} /\ k \in Nat
               /\ \/ a = Queue /\ Queued(G, k) /\ k # n
                  \/ Running(G, a, k)
                  \/ a = t /\ k = m + 1
                  \/ k = 0 /\ Pushing(G, a)
        BY <2>1, <2>2, <2>3 DEF Refs
      <3>2. t # Queue /\ t \in Threads /\ m + 1 \in Nat /\ Queue \notin Threads
        BY <1>3, <1>5, ThreadFacts
      <3>3. \A a, k : <<a, k>> \in Refs(G) <=>
               /\ a \in Threads \cup {Queue} /\ k \in Nat
               /\ \/ a = Queue /\ Queued(G, k)
                  \/ Running(G, a, k)
                  \/ k = 0 /\ Pushing(G, a)
        BY RefsDef
      <3>4. \A k : ~Running(G, Queue, k) /\ ~Pushing(G, Queue)
        BY <3>2 DEF Running, Pushing
      <3> HIDE DEF n, m
      <3>5. \A a, k : <<a, k>> \in Refs(G)' <=>
              (<<a, k>> \in Refs(G) /\ ~(a = Queue /\ k = n)) \/ (a = t /\ k = m + 1)
        <4> TAKE a, k
        <4>1. CASE a = Queue /\ k = n
          BY <3>1, <3>2, <3>4, <4>1
        <4>2. CASE a = t /\ k = m + 1
          BY <3>1, <3>2, <4>2
        <4>3. CASE ~(a = Queue /\ k = n) /\ ~(a = t /\ k = m + 1)
          BY <3>1, <3>3, <4>3
        <4> QED
          BY <4>1, <4>2, <4>3
      <3>6. \A r : r \in Refs(G)' => r = <<r[1], r[2]>>
        BY DEF Refs
      <3> QED
        BY <3>5, <3>6, RefsArePairs
    <2>7. IsFiniteSet(Refs(G)') /\ Cardinality(Refs(G)') = Cardinality(Refs(G))
      BY <2>4, <2>6, CountMoved DEF PoolInv, LatchInv
    <2> QED
      BY <1>1, <2>5, <2>7 DEF PoolInv, LatchInv, latches
  <1> QED
    BY <1>7, <1>9, <1>10, <1>11, <1>12 DEF PoolInv

LEMMA TakeInv ==
  ASSUME PoolInv, NEW w \in Workers, Take(w)
  PROVE  PoolInv'
  BY TakePushes, PushInv DEF Take, PopAndRun, budget

LEMMA HelpRunInv ==
  ASSUME PoolInv, NEW t \in Threads, HelpRun(t)
  PROVE  PoolInv'
  <1>1. CASE stop \/ workStack = <<>>
    <2>1. /\ frames[t] # <<>> /\ Top(t).pc = "steal" /\ Top(t) \in FrameType /\ Sound(t, Top(t))
      BY AtFacts DEF HelpRun
    <2>2. /\ Go(t, "sync")
          /\ UNCHANGED <<worker, born, created, workStack, latches, opened, stop, over>>
      BY <1>1 DEF HelpRun, budget
    <2>3. Sound(t, [Top(t) EXCEPT !.pc = "sync"])
      BY <2>1 DEF Sound, FrameType
    <2>4. "sync" \in Pcs \ {"push", "unlock"}
      BY DEF Pcs
    <2>5. PoolTypeOK'
      BY <2>1, <2>2, <2>4, GoType DEF PoolInv, PoolTypeOK, latches
    <2> QED
      BY <2>1, <2>2, <2>3, <2>4, <2>5, QuietStep DEF PoolInv
  <1>2. CASE ~(stop \/ workStack = <<>>)
    BY <1>2, HelpPushes, PushInv DEF HelpRun, budget
  <1> QED
    BY <1>1, <1>2

----------------------------------------------------------------------------
(* The end of a task: Dec and DecUnlock *)

\* The top frame of thread t goes to unlock, and who waits for its group may be woken.
CountsDown(t, g) ==
  LET n == Len(frames[t])
  IN /\ frames' \in [Threads -> Seq(FrameType)]
     /\ \A u \in Threads : Len(frames'[u]) = Len(frames[u]) /\ DOMAIN frames'[u] = DOMAIN frames[u]
     /\ frames'[t] # <<>>
     /\ frames'[t][n] = [frames[t][n] EXCEPT !.pc = "unlock"]
     /\ \A u \in Threads : \A i \in DOMAIN frames[u] :
          ~(u = t /\ i = n) =>
            IF count[g] = 1 /\ frames[u][i].own = g /\ frames[u][i].pc = "waiting"
              THEN frames'[u][i] = [frames[u][i] EXCEPT !.pc = "sync"]
              ELSE frames'[u][i] = frames[u][i]

LEMMA DecCountsDown ==
  ASSUME PoolInv, NEW t \in Threads, Dec(t)
  PROVE  CountsDown(t, Top(t).of)
  <1> DEFINE n == Len(frames[t])
             woke(u, i) == IF /\ count[Top(t).of] = 1
                              /\ frames[u][i].own = Top(t).of /\ frames[u][i].pc = "waiting"
                             THEN [frames[u][i] EXCEPT !.pc = "sync"] ELSE frames[u][i]
             woken == IF count[Top(t).of] = 1 THEN Woken(Top(t).of) ELSE frames
             f == [Top(t) EXCEPT !.pc = "unlock"]
             r == Append(Front(woken[t]), [Last(woken[t]) EXCEPT !.pc = "unlock"])
  <1>1. frames[t] # <<>> /\ Top(t).pc = "dec" /\ Top(t) \in FrameType
    BY AtFacts DEF Dec
  <1>2. frames \in [Threads -> Seq(FrameType)]
    BY DEF PoolInv, PoolTypeOK
  <1>3. \A u \in Threads : /\ Len(frames[u]) \in Nat /\ DOMAIN frames[u] = 1..Len(frames[u])
                           /\ \A i \in DOMAIN frames[u] : frames[u][i] \in FrameType
    BY <1>2, LenProperties, ElementOfSeq
  <1>4. n \in Nat \ {0} /\ n \in DOMAIN frames[t] /\ Top(t) = frames[t][n]
    BY <1>1, TopFacts DEF PoolInv
  <1>5. /\ DOMAIN woken = Threads
        /\ \A u \in Threads : /\ DOMAIN woken[u] = DOMAIN frames[u]
                              /\ woken[u] \in Seq(FrameType)
                              /\ \A i \in DOMAIN frames[u] : woken[u][i] = woke(u, i)
    <2>1. CASE count[Top(t).of] # 1
      BY <1>2, <2>1
    <2>2. CASE count[Top(t).of] = 1
      <3>1. woken = [u \in Threads |-> [i \in DOMAIN frames[u] |-> woke(u, i)]]
        BY <2>2 DEF Woken
      <3>2. \A u \in Threads : \A i \in DOMAIN frames[u] : woke(u, i) \in FrameType
        BY <1>3 DEF FrameType, Pcs
      <3> HIDE DEF woke, woken
      <3>3. \A u \in Threads : woken[u] \in [1..Len(frames[u]) -> FrameType]
        BY <1>3, <3>1, <3>2
      <3>4. \A u \in Threads : woken[u] \in Seq(FrameType)
        BY <1>3, <3>3, SeqDef
      <3> QED
        BY <3>1, <3>4
    <2> QED
      BY <2>1, <2>2
  <1>6. frames' = [woken EXCEPT ![t] = r]
    BY DEF Dec
  <1>7. \A u \in Threads : Len(woken[u]) = Len(frames[u])
    <2> TAKE u \in Threads
    <2>1. Len(woken[u]) \in Nat /\ DOMAIN woken[u] = 1..Len(woken[u])
      BY <1>5, LenProperties
    <2> QED
      BY <1>3, <1>5, <2>1
  <1>8. woken[t] # <<>> /\ Last(woken[t]) = Top(t)
    <2>1. woken[t] # <<>>
      BY <1>4, <1>5, <1>7, EmptySeq
    <2>2. woke(t, n) = Top(t)
      BY <1>1, <1>4
    <2> HIDE DEF woke, woken
    <2>3. woken[t][n] = Top(t) /\ Len(woken[t]) = n
      BY <1>4, <1>5, <1>7, <2>2
    <2> QED
      BY <2>1, <2>3 DEF Last
  <1>9. f \in FrameType
    BY <1>1 DEF FrameType, Pcs
  <1> HIDE DEF f, woken, woke
  <1>10. r = Append(Front(woken[t]), f)
    BY <1>8 DEF f
  <1>11. /\ Front(woken[t]) \in Seq(FrameType) /\ Len(Front(woken[t])) = n - 1
         /\ \A i \in 1..(n - 1) : Front(woken[t])[i] = woken[t][i]
    <2>1. PICK w : w = woken[t]
      OBVIOUS
    <2>2. w \in Seq(FrameType) /\ w # <<>> /\ Len(w) = n
      BY <1>5, <1>7, <1>8, <2>1
    <2> HIDE DEF n
    <2>3. /\ Front(w) \in Seq(FrameType) /\ Len(Front(w)) = Len(w) - 1
          /\ \A i \in 1..(Len(w) - 1) : Front(w)[i] = w[i]
      BY <2>2, FrontFacts
    <2> QED
      BY <2>1, <2>2, <2>3
  <1> HIDE DEF r, n
  <1>12. /\ r \in Seq(FrameType) /\ Len(r) = Len(Front(woken[t])) + 1
         /\ \A i \in 1..Len(Front(woken[t])) : r[i] = Front(woken[t])[i]
         /\ r[Len(Front(woken[t])) + 1] = f
    BY <1>9, <1>10, <1>11, AppendProperties
  <1>13. Len(r) = n /\ r[n] = f /\ \A i \in 1..(n - 1) : r[i] = woken[t][i]
    BY <1>4, <1>11, <1>12
  <1>14. DOMAIN r = 1..n /\ r # <<>>
    BY <1>4, <1>12, <1>13, LenProperties, EmptySeq
  <1>15. /\ frames' \in [Threads -> Seq(FrameType)] /\ frames'[t] = r
         /\ \A u \in Threads : u # t => frames'[u] = woken[u]
    BY <1>5, <1>6, <1>12
  <1>16. \A u \in Threads : Len(frames'[u]) = Len(frames[u]) /\ DOMAIN frames'[u] = DOMAIN frames[u]
    BY <1>3, <1>5, <1>7, <1>13, <1>14, <1>15 DEF n
  <1>17. \A u \in Threads : \A i \in DOMAIN frames[u] :
           ~(u = t /\ i = n) => frames'[u][i] = woke(u, i)
    <2> TAKE u \in Threads
    <2> TAKE i \in DOMAIN frames[u]
    <2>1. CASE u # t
      BY <1>5, <1>15, <2>1
    <2>2. CASE u = t /\ i # n
      <3>1. i \in 1..(n - 1)
        BY <1>3, <1>4, <2>2 DEF n
      <3> QED
        BY <1>5, <1>13, <1>15, <2>2, <3>1
    <2> QED
      BY <2>1, <2>2
  <1> QED
    BY <1>4, <1>13, <1>14, <1>15, <1>16, <1>17, ZenonT(30) DEF CountsDown, n, f, woke

LEMMA DecInv ==
  ASSUME PoolInv, NEW t \in Threads, Dec(t)
  PROVE  PoolInv'
  <1> DEFINE n == Len(frames[t])
  <1>1. /\ frames[t] # <<>> /\ Top(t).pc = "dec" /\ Top(t) \in FrameType /\ Sound(t, Top(t))
        /\ n \in Nat \ {0} /\ n \in DOMAIN frames[t] /\ Top(t) = frames[t][n]
    BY AtFacts, TopFacts DEF Dec, PoolInv
  <1>2. PICK G \in Groups : G = Top(t).of /\ G = frames[t][n].of
    BY <1>1, ThreadFacts DEF Sound
  <1>3. CountsDown(t, G)
    BY <1>2, DecCountsDown
  <1>4. /\ ~mutex[G] /\ mutex' = [mutex EXCEPT ![G] = TRUE]
        /\ count' = [count EXCEPT ![G] = @ - 1]
        /\ UNCHANGED <<worker, born, created, workStack, stop, alive, opened, over>>
    BY <1>2 DEF Dec, pool, budget
  <1>5. \A u \in Threads : \A i \in DOMAIN frames'[u] :
          /\ i \in DOMAIN frames[u]
          /\ frames[u][i] \in FrameType
          /\ frames'[u][i].of = frames[u][i].of /\ frames'[u][i].own = frames[u][i].own
          /\ \/ u = t /\ i = n /\ frames'[u][i].pc = "unlock"
             \/ ~(u = t /\ i = n) /\ frames'[u][i] = frames[u][i]
             \/ /\ ~(u = t /\ i = n) /\ frames[u][i].pc = "waiting"
                /\ frames'[u][i].pc = "sync"
    <2> TAKE u \in Threads
    <2> TAKE i \in DOMAIN frames'[u]
    <2>1. i \in DOMAIN frames[u] /\ frames[u][i] \in FrameType
      BY <1>3, ElementOfSeq, LenProperties DEF CountsDown, PoolInv, PoolTypeOK
    <2>2. CASE u = t /\ i = n
      BY <1>3, <2>1, <2>2 DEF CountsDown, FrameType
    <2>3. CASE ~(u = t /\ i = n) /\ frames'[u][i] = frames[u][i]
      BY <2>1, <2>3
    <2>4. CASE /\ ~(u = t /\ i = n) /\ frames[u][i].pc = "waiting"
               /\ frames'[u][i] = [frames[u][i] EXCEPT !.pc = "sync"]
      BY <2>1, <2>4 DEF FrameType
    <2>5. \/ u = t /\ i = n
          \/ ~(u = t /\ i = n) /\ frames'[u][i] = frames[u][i]
          \/ /\ ~(u = t /\ i = n) /\ frames[u][i].pc = "waiting"
             /\ frames'[u][i] = [frames[u][i] EXCEPT !.pc = "sync"]
      BY <1>3, <2>1 DEF CountsDown
    <2> QED
      BY <2>2, <2>3, <2>4, <2>5
  <1>6. \A u \in Threads : Len(frames'[u]) = Len(frames[u]) /\ DOMAIN frames'[u] = DOMAIN frames[u]
    BY <1>3 DEF CountsDown
  <1>7. PoolTypeOK'
    BY <1>2, <1>3, <1>4 DEF PoolInv, PoolTypeOK, CountsDown
  <1>8. FrameInv'
    <2>1. Len(frames'[Main]) = 1
      BY <1>6, ThreadFacts DEF PoolInv, FrameInv
    <2>2. t # Main
      BY <1>1 DEF Sound
    <2>3. ASSUME NEW u \in Threads, NEW i \in DOMAIN frames'[u]
          PROVE  /\ Sound(u, frames'[u][i])
                 /\ i < Len(frames'[u]) => frames'[u][i].pc = "help"
      <3>1. Sound(u, frames[u][i]) /\ (i < Len(frames[u]) => frames[u][i].pc = "help")
        BY <1>5 DEF PoolInv, FrameInv
      <3>2. CASE u = t /\ i = n
        BY <1>1, <1>5, <1>6, <2>2, <3>1, <3>2 DEF Sound
      <3>3. CASE ~(u = t /\ i = n) /\ frames'[u][i] = frames[u][i]
        BY <1>6, <3>1, <3>3
      <3>4. CASE ~(u = t /\ i = n) /\ frames[u][i].pc = "waiting" /\ frames'[u][i].pc = "sync"
        BY <1>5, <1>6, <3>1, <3>4 DEF Sound
      <3> QED
        BY <1>5, <3>2, <3>3, <3>4
    <2> QED
      BY <2>1, <2>3 DEF FrameInv, Sound
  <1>9. OwnerInv'
    BY <1>4, <1>5 DEF PoolInv, OwnerInv
  <1>10. MutexInv'
    <2>1. \A u \in Threads : \A i \in DOMAIN frames'[u] :
            frames'[u][i].pc = "unlock" =>
              \/ u = t /\ i = n /\ frames'[u][i].of = G
              \/ i \in DOMAIN frames[u] /\ frames'[u][i] = frames[u][i] /\ frames[u][i].of # G
      BY <1>2, <1>4, <1>5 DEF PoolInv, MutexInv
    <2>2. \A u \in Threads : \A i \in DOMAIN frames'[u] :
            frames'[u][i].pc = "unlock" => mutex'[frames'[u][i].of]
      <3> SUFFICES ASSUME NEW u \in Threads, NEW i \in DOMAIN frames'[u],
                          frames'[u][i].pc = "unlock"
                   PROVE  mutex'[frames'[u][i].of]
        OBVIOUS
      <3>1. mutex'[G]
        BY <1>4 DEF PoolInv, PoolTypeOK
      <3>2. CASE frames'[u][i].of = G
        BY <3>1, <3>2
      <3>3. CASE i \in DOMAIN frames[u] /\ frames'[u][i] = frames[u][i] /\ frames[u][i].of # G
        <4>1. frames[u][i].of \in Groups
          BY <3>3, ThreadFacts DEF PoolInv, FrameInv, Sound
        <4>2. mutex[frames[u][i].of]
          BY <3>3 DEF PoolInv, MutexInv
        <4> QED
          BY <1>4, <3>3, <4>1, <4>2 DEF PoolInv, PoolTypeOK
      <3> QED
        BY <2>1, <3>2, <3>3
    <2>3. \A u, v \in Threads : \A i \in DOMAIN frames'[u], j \in DOMAIN frames'[v] :
            frames'[u][i].pc = "unlock" /\ frames'[v][j].pc = "unlock"
              /\ frames'[u][i].of = frames'[v][j].of => u = v /\ i = j
      <3> SUFFICES ASSUME NEW u \in Threads, NEW v \in Threads,
                          NEW i \in DOMAIN frames'[u], NEW j \in DOMAIN frames'[v],
                          frames'[u][i].pc = "unlock", frames'[v][j].pc = "unlock",
                          frames'[u][i].of = frames'[v][j].of
                   PROVE  u = v /\ i = j
        OBVIOUS
      <3> QED
        BY <2>1 DEF PoolInv, MutexInv
    <2> QED
      BY <2>2, <2>3 DEF MutexInv
  <1>11. LatchInv'
    <2>1. \A g, k : Queued(g, k)' <=> Queued(g, k)
      BY <1>4 DEF Queued
    <2>2. \A g, u, i : Running(g, u, i)' <=> Running(g, u, i) /\ ~(u = t /\ i = n)
      <3> TAKE g, u, i
      <3>1. CASE u \in Threads /\ i \in DOMAIN frames[u]
        BY <1>5, <1>6, <3>1 DEF Running
      <3>2. CASE ~(u \in Threads /\ i \in DOMAIN frames[u])
        BY <1>6, <3>2 DEF Running
      <3> QED
        BY <3>1, <3>2
    <2>3. \A g, u : Pushing(g, u)' <=> Pushing(g, u)
      <3> SUFFICES ASSUME NEW g, NEW u \in Threads
                   PROVE  Pushing(g, u)' <=> Pushing(g, u)
        BY DEF Pushing
      <3>1. frames'[u] \in Seq(FrameType) /\ frames[u] \in Seq(FrameType)
        BY <1>7 DEF PoolInv, PoolTypeOK
      <3>2. frames'[u] = <<>> <=> frames[u] = <<>>
        BY <1>6, <3>1, EmptySeq
      <3>3. CASE frames[u] = <<>>
        BY <3>2, <3>3 DEF Pushing
      <3>4. CASE frames[u] # <<>>
        <4>1. Len(frames[u]) \in DOMAIN frames[u] /\ Top(u) = frames[u][Len(frames[u])]
          BY <3>4, TopFacts DEF PoolInv
        <4>2. Top(u)' = frames'[u][Len(frames[u])]
          BY <1>6 DEF Top, Last
        <4>3. Top(u)'.of = Top(u).of /\ Top(u)'.own = Top(u).own
              /\ (Top(u)'.pc = "push" <=> Top(u).pc = "push")
          BY <1>1, <1>5, <1>6, <4>1, <4>2
        <4> QED
          BY <3>2, <4>3 DEF Pushing, Target
      <3> QED
        BY <3>3, <3>4
    <2>4. \A g : Running(g, t, n) <=> g = G
      BY <1>1, <1>2 DEF Running
    <2>5. <<t, n>> \in Refs(G)
      BY <1>1, <2>4, RefsDef
    <2>6. \A g : g # G => Refs(g)' = Refs(g)
      <3>1. \A g, u, i : g # G => (Running(g, u, i)' <=> Running(g, u, i))
        BY <2>2, <2>4
      <3> QED
        BY <2>1, <2>3, <3>1 DEF Refs
    <2>7. Refs(G)' = Refs(G) \ {<<t, n>>}
      <3>1. \A a, k : <<a, k>> \in Refs(G)' <=>
               /\ a \in Threads \cup {Queue} /\ k \in Nat
               /\ \/ a = Queue /\ Queued(G, k)
                  \/ Running(G, a, k) /\ ~(a = t /\ k = n)
                  \/ k = 0 /\ Pushing(G, a)
        BY <2>1, <2>2, <2>3 DEF Refs
      <3>2. t # Queue /\ n # 0
        BY <1>1, ThreadFacts
      <3>3. \A a, k : <<a, k>> \in Refs(G) <=>
               /\ a \in Threads \cup {Queue} /\ k \in Nat
               /\ \/ a = Queue /\ Queued(G, k)
                  \/ Running(G, a, k)
                  \/ k = 0 /\ Pushing(G, a)
        BY RefsDef
      <3> HIDE DEF n
      <3>4. \A a, k : <<a, k>> \in Refs(G)' <=> <<a, k>> \in Refs(G) /\ ~(a = t /\ k = n)
        <4> TAKE a, k
        <4>1. CASE a = t /\ k = n
          BY <3>1, <3>2, <4>1
        <4>2. CASE ~(a = t /\ k = n)
          BY <3>1, <3>3, <4>2
        <4> QED
          BY <4>1, <4>2
      <3>5. \A r : r \in Refs(G)' => r = <<r[1], r[2]>>
        BY DEF Refs
      <3> QED
        BY <3>4, <3>5, RefsArePairs
    <2>8. IsFiniteSet(Refs(G)) /\ count[G] = Cardinality(Refs(G)) /\ count'[G] = count[G] - 1
      BY <1>4 DEF PoolInv, LatchInv, PoolTypeOK
    <2>9. IsFiniteSet(Refs(G)') /\ count'[G] = Cardinality(Refs(G)')
      BY <2>5, <2>7, <2>8, FS_RemoveElement
    <2>10. \A g \in Groups : g # G => count'[g] = count[g] /\ mutex'[g] = mutex[g]
      BY <1>4 DEF PoolInv, PoolTypeOK
    <2>11. G \in alive
      BY <2>5 DEF PoolInv, LatchInv
    <2> QED
      BY <1>4, <2>6, <2>9, <2>10, <2>11 DEF PoolInv, LatchInv
  <1> QED
    BY <1>7, <1>8, <1>9, <1>10, <1>11 DEF PoolInv

\* The top frame of thread t is popped.
Pops(t) ==
  /\ frames' \in [Threads -> Seq(FrameType)]
  /\ \A u \in Threads : u # t => frames'[u] = frames[u]
  /\ Len(frames'[t]) = Len(frames[t]) - 1
  /\ DOMAIN frames'[t] = DOMAIN frames[t] \ {Len(frames[t])}
  /\ \A i \in DOMAIN frames'[t] : i < Len(frames[t]) /\ frames'[t][i] = frames[t][i]

LEMMA UnlockPops ==
  ASSUME PoolInv, NEW t \in Threads, DecUnlock(t)
  PROVE  Pops(t)
  <1>1. frames[t] # <<>> /\ frames[t] \in Seq(FrameType) /\ frames \in [Threads -> Seq(FrameType)]
    BY AtFacts DEF DecUnlock, PoolInv, PoolTypeOK
  <1>2. /\ Len(frames[t]) \in Nat \ {0} /\ DOMAIN frames[t] = 1..Len(frames[t])
        /\ Front(frames[t]) \in Seq(FrameType)
        /\ Len(Front(frames[t])) = Len(frames[t]) - 1
        /\ DOMAIN Front(frames[t]) = 1..(Len(frames[t]) - 1)
        /\ \A i \in 1..(Len(frames[t]) - 1) : Front(frames[t])[i] = frames[t][i]
    BY <1>1, FrontFacts
  <1>3. /\ frames' \in [Threads -> Seq(FrameType)] /\ frames'[t] = Front(frames[t])
        /\ \A u \in Threads : u # t => frames'[u] = frames[u]
    BY <1>1, <1>2 DEF DecUnlock
  <1>4. DOMAIN frames'[t] = DOMAIN frames[t] \ {Len(frames[t])}
    <2>1. \A m \in Nat \ {0} : 1..(m - 1) = (1..m) \ {m}
      OBVIOUS
    <2> QED
      BY <1>2, <1>3, <2>1
  <1>5. \A i \in DOMAIN frames'[t] : i < Len(frames[t]) /\ frames'[t][i] = frames[t][i]
    BY <1>2, <1>3
  <1> QED
    BY <1>2, <1>3, <1>4, <1>5 DEF Pops

LEMMA DecUnlockInv ==
  ASSUME PoolInv, NEW t \in Threads, DecUnlock(t)
  PROVE  PoolInv'
  <1> DEFINE n == Len(frames[t])
  <1>1. /\ frames[t] # <<>> /\ Top(t).pc = "unlock" /\ Top(t) \in FrameType /\ Sound(t, Top(t))
        /\ n \in Nat \ {0} /\ n \in DOMAIN frames[t] /\ Top(t) = frames[t][n]
        /\ DOMAIN frames[t] = 1..n
    BY AtFacts, TopFacts DEF DecUnlock, PoolInv
  <1>2. PICK G \in Groups : G = Top(t).of /\ G = frames[t][n].of
    BY <1>1, ThreadFacts DEF Sound
  <1>3. Pops(t)
    BY UnlockPops
  <1>4. /\ mutex' = [mutex EXCEPT ![G] = FALSE]
        /\ UNCHANGED <<worker, born, created, workStack, stop, count, alive, opened, over>>
    BY <1>2 DEF DecUnlock, pool, budget
  <1>5. \A u \in Threads : \A i \in DOMAIN frames'[u] :
          i \in DOMAIN frames[u] /\ ~(u = t /\ i = n) /\ frames'[u][i] = frames[u][i]
    BY <1>1, <1>3 DEF Pops
  <1>6. PoolTypeOK'
    BY <1>3, <1>4 DEF PoolInv, PoolTypeOK, Pops
  <1>7. t # Main
    BY <1>1 DEF Sound
  <1>8. FrameInv'
    <2>1. Len(frames'[Main]) = 1
      BY <1>3, <1>7, ThreadFacts DEF PoolInv, FrameInv, Pops
    <2>2. \A u \in Threads : \A i \in DOMAIN frames'[u] :
            i < Len(frames'[u]) => i < Len(frames[u])
      BY <1>1, <1>3 DEF Pops
    <2> QED
      BY <1>5, <2>1, <2>2 DEF PoolInv, FrameInv, Sound
  <1>9. OwnerInv'
    BY <1>4, <1>5 DEF PoolInv, OwnerInv
  <1>10. MutexInv'
    <2>1. \A u \in Threads : \A i \in DOMAIN frames'[u] :
            frames'[u][i].pc = "unlock" =>
              /\ frames[u][i].of # G /\ frames[u][i].of \in Groups /\ mutex[frames[u][i].of]
      <3> TAKE u \in Threads
      <3> TAKE i \in DOMAIN frames'[u]
      <3> HAVE frames'[u][i].pc = "unlock"
      <3>1. i \in DOMAIN frames[u] /\ ~(u = t /\ i = n) /\ frames[u][i].pc = "unlock"
        BY <1>5
      <3>2. Sound(u, frames[u][i]) /\ mutex[frames[u][i].of]
        BY <3>1 DEF PoolInv, MutexInv, FrameInv
      <3>3. frames[u][i].of \in Groups
        BY <3>1, <3>2 DEF Sound
      <3>4. frames[u][i].of # frames[t][n].of
        BY <1>1, <3>1 DEF PoolInv, MutexInv
      <3> QED
        BY <1>2, <3>2, <3>3, <3>4
    <2>2. \A g \in Groups : g # G => mutex'[g] = mutex[g]
      BY <1>4 DEF PoolInv, PoolTypeOK
    <2> QED
      BY <1>5, <2>1, <2>2 DEF PoolInv, MutexInv
  <1>11. LatchInv'
    <2>1. \A g, k : Queued(g, k)' <=> Queued(g, k)
      BY <1>4 DEF Queued
    <2>2. \A g, u, i : Running(g, u, i)' <=> Running(g, u, i)
      <3> TAKE g, u, i
      <3>1. CASE u = t /\ i = n
        BY <1>1, <1>3, <3>1 DEF Running, Pops
      <3>2. CASE ~(u = t /\ i = n)
        BY <1>3, <3>2 DEF Running, Pops
      <3> QED
        BY <3>1, <3>2
    <2>3. \A g : ~Pushing(g, t)' /\ ~Pushing(g, t)
      <3>1. ASSUME frames'[t] # <<>> PROVE Top(t)'.pc = "help"
        <4>1. frames'[t] \in Seq(FrameType)
          BY <1>3 DEF Pops
        <4>2. Len(frames'[t]) \in DOMAIN frames'[t]
          BY <3>1, <4>1, LenProperties, EmptySeq
        <4>3. Top(t)' = frames'[t][Len(frames'[t])]
          BY DEF Top, Last
        <4> QED
          BY <1>3, <1>5, <4>2, <4>3 DEF Pops, PoolInv, FrameInv
      <3> QED
        BY <1>1, <3>1 DEF Pushing
    <2>4. \A g, u : Pushing(g, u)' <=> Pushing(g, u)
      BY <1>3, <2>3 DEF Pops, Pushing, Target, Top
    <2>5. \A g : Refs(g)' = Refs(g)
      BY <2>1, <2>2, <2>4, RefsUnchanged
    <2>6. \A g \in Groups : ~mutex[g] => ~mutex'[g]
      BY <1>4 DEF PoolInv, PoolTypeOK
    <2> QED
      BY <1>4, <2>5, <2>6 DEF PoolInv, LatchInv
  <1> QED
    BY <1>6, <1>8, <1>9, <1>10, <1>11 DEF PoolInv

----------------------------------------------------------------------------
(* The latches *)

LEMMA PoolInit == Init => PoolInv
  <1> SUFFICES ASSUME Init PROVE PoolInv
    OBVIOUS
  <1> DEFINE f == Frame(NoGroup, NoGroup, "body")
  <1>1. /\ f \in FrameType /\ f.of = NoGroup /\ f.own = NoGroup /\ f.pc = "body"
    <2>1. NoGroup \in 0..MaxGroups /\ "body" \in Pcs
      BY PoolAssumption DEF NoGroup, Pcs
    <2> QED
      BY <2>1 DEF Frame, FrameType
  <1> HIDE DEF f
  <1>2. frames = [t \in Threads |-> IF t = Main THEN <<f>> ELSE <<>>] /\ workStack = <<>>
    BY DEF Init, f
  <1>3. /\ <<f>> \in Seq(FrameType) /\ Len(<<f>>) = 1 /\ <<f>>[1] = f /\ DOMAIN <<f>> = {1}
        /\ <<f>> # <<>>
    BY <1>1
  <1>4. <<>> \in Seq(FrameType) /\ <<>> \in Seq(Groups) /\ DOMAIN <<>> = {}
    OBVIOUS
  <1> DEFINE one == <<f>>
             none == <<>>
  <1> HIDE DEF one, none
  <1>5. /\ frames \in [Threads -> Seq(FrameType)]
        /\ \A t \in Threads : frames[t] = IF t = Main THEN one ELSE none
    BY <1>2, <1>3, <1>4 DEF one, none
  <1>6. \A t \in Threads : \A i \in DOMAIN frames[t] :
          t = Main /\ i = 1 /\ frames[t][i] = f /\ Len(frames[t]) = 1
    BY <1>3, <1>4, <1>5 DEF one, none
  <1>7. PoolTypeOK
    <2>1. worker \in [Workers -> {"unborn", "creating", "loop", "asleep", "exited"}]
      BY DEF Init
    <2>2. born \in 1..ThreadCount /\ opened \in 0..MaxGroups
      BY PoolAssumption DEF Init
    <2>3. created \in BOOLEAN /\ stop \in BOOLEAN /\ over \in BOOLEAN /\ alive \subseteq Groups
      BY DEF Init
    <2>4. count \in [Groups -> Int] /\ mutex \in [Groups -> BOOLEAN]
      BY DEF Init
    <2> QED
      BY <1>2, <1>4, <1>5, <2>1, <2>2, <2>3, <2>4 DEF PoolTypeOK
  <1>8. FrameInv
    <2>1. Len(frames[Main]) = 1
      BY <1>3, <1>5, ThreadFacts DEF one
    <2>2. Sound(Main, f)
      BY <1>1 DEF Sound
    <2> QED
      BY <1>6, <2>1, <2>2, SMTT(30) DEF FrameInv
  <1>9. OwnerInv
    BY <1>1, <1>6 DEF OwnerInv, Init
  <1>10. MutexInv
    BY <1>1, <1>6 DEF MutexInv
  <1>11. LatchInv
    <2>1. \A g, k : ~Queued(g, k)
      BY <1>2, <1>4 DEF Queued
    <2>2. \A g \in Groups : \A t, i : ~Running(g, t, i)
      BY <1>1, <1>6 DEF Running, Groups, NoGroup
    <2>3. \A g, t : ~Pushing(g, t)
      <3>1. Top(Main).pc = "body"
        BY <1>1, <1>3, <1>5, ThreadFacts DEF Top, Last, one
      <3>2. \A t \in Threads : t # Main => frames[t] = <<>>
        BY <1>5 DEF none
      <3> QED
        BY <3>1, <3>2 DEF Pushing
    <2>4. \A g \in Groups : Refs(g) = {}
      BY <2>1, <2>2, <2>3 DEF Refs
    <2>5. \A g \in Groups : count[g] = 0 /\ mutex[g] = FALSE
      BY DEF Init
    <2> QED
      BY <2>4, <2>5, FS_EmptySet DEF LatchInv
  <1> QED
    BY <1>7, <1>8, <1>9, <1>10, <1>11 DEF PoolInv

LEMMA PoolStep == PoolInv /\ [Next]_vars => PoolInv'
  <1> SUFFICES ASSUME PoolInv, [Next]_vars PROVE PoolInv'
    OBVIOUS
  <1>1. CASE CreateThread
    BY <1>1, LoopInv
  <1>2. CASE \E w \in Workers : WorkerLoop(w)
    BY <1>2, LoopInv, TakeInv DEF WorkerLoop
  <1>3. CASE \E t \in Threads : Run(t)
    <2>1. PICK t \in Threads : Run(t)
      BY <1>3
    <2>2. CASE OpenGroup(t) \/ SpawnInc(t) \/ SpawnPush(t) \/ SpawnNotify(t)
      BY <2>2, OpenGroupInv, SpawnIncInv, SpawnPushInv, SpawnNotifyInv
    <2>3. CASE CloseGroup(t) \/ HelpCheck(t) \/ SyncWait(t) \/ EndTask(t)
      BY <2>3, MoveInv
    <2>4. CASE HelpRun(t) \/ SyncDone(t) \/ Dec(t) \/ DecUnlock(t)
      BY <2>4, HelpRunInv, SyncDoneInv, DecInv, DecUnlockInv
    <2>5. CASE Stop(t) \/ NotifyAll(t) \/ Join(t)
      BY <2>5, StopStepInv
    <2> QED
      BY <2>1, <2>2, <2>3, <2>4, <2>5 DEF Run
  <1>4. CASE UNCHANGED vars
    BY <1>4, IdleStep DEF vars, pool, latches, budget, PoolInv, PoolTypeOK
  <1> QED
    BY <1>1, <1>2, <1>3, <1>4 DEF Next

\* The accounting of frames, groups, latches and their mutexes holds in every reachable
\* state (TaskGroup, Latch and ThreadPoolExecutor).
THEOREM PoolInvariance == Spec => []PoolInv
  BY PoolInit, PoolStep, PTL DEF Spec

LEMMA LatchFollows == PoolInv => LatchOutlivesTasks
  <1> SUFFICES ASSUME PoolInv PROVE LatchOutlivesTasks
    OBVIOUS
  <1>1. ToSet(workStack) \subseteq alive
    BY QueuedIsAlive DEF ToSet
  <1>2. \A t \in Threads : \A i \in DOMAIN frames[t] :
          /\ frames[t][i].of \in alive \cup {NoGroup}
          /\ frames[t][i].own \in alive \cup {NoGroup}
    BY OfIsAlive DEF PoolInv, OwnerInv
  <1> QED
    BY <1>1, <1>2 DEF LatchOutlivesTasks

\* A latch outlives everything that refers to it, with any number of threads, groups and
\* tasks, however deep groups nest and wherever a task is fatal (Latch::dec, Parallel.h).
THEOREM LatchOutlivesTasksHolds == Spec => []LatchOutlivesTasks
  BY PoolInvariance, LatchFollows, PTL

----------------------------------------------------------------------------
(* Wakeups *)

\* The worker waits, or is about to, for a group that is not done.
Blocked(w) ==
  /\ frames[w] # <<>>
  /\ Top(w).pc \in {"sync", "waiting"}
  /\ count[Top(w).own] # 0

Active(w) == worker[w] \in {"creating", "loop"} /\ ~Blocked(w)
SomeActive == \E w \in Workers : Active(w)

AboutToNotify(t) == frames[t] # <<>> /\ Top(t).pc = "notify"
Ending(t) == frames[t] # <<>> /\ Top(t).pc \in {"stopping", "join"}
OpenedBy(t, g) == \E i \in DOMAIN frames[t] : frames[t][i].own = g

\* A thread with a task is in its loop, and thread 0 leaves it only when the pool stops.
StageInv ==
  /\ \A w \in Workers : frames[w] # <<>> => worker[w] = "loop"
  /\ ~stop => worker[0] \in {"creating", "loop", "asleep"}

\* Nobody sleeps at a latch that has come down to zero.
WaitInv ==
  \A t \in Threads : frames[t] # <<>> /\ Top(t).pc = "waiting" => count[Top(t).own] # 0

\* A group is opened after the groups of the tasks it is opened under.
NestInv ==
  \A w \in Workers : \A i, j \in DOMAIN frames[w] :
    i <= j /\ frames[w][j].own # NoGroup => frames[w][i].of < frames[w][j].own

OpenInv == \A g \in alive : \E t \in Threads : OpenedBy(t, g)

FatalInv ==
  link # "nested" =>
    \A w \in Workers : \A i \in DOMAIN frames[w] : frames[w][i].own = NoGroup

\* The pool is stopped by a worker in a fatal task, or by the main thread when all is done.
StopInv ==
  stop =>
    \/ link # "nested" /\ \E w \in Workers : Ending(w)
    \/ workStack = <<>> /\ (\A w \in Workers : frames[w] = <<>>) /\ Ending(Main)

\* Some worker serves the queue when a worker may wait for what is in it, and in any case
\* once the notifications are out.
QueueInv ==
  \A k \in DOMAIN workStack : \A w \in Workers : OpenedBy(w, workStack[k]) => SomeActive

NotifyInv == workStack # <<>> => SomeActive \/ \E t \in Threads : AboutToNotify(t)

WakeInv ==
  /\ StageInv /\ WaitInv /\ NestInv /\ OpenInv /\ FatalInv /\ StopInv
  /\ QueueInv /\ NotifyInv

\* A non-empty set of naturals has a least element, and a bounded one a greatest.
LEMMA LeastExists ==
  ASSUME NEW S \in SUBSET Nat, S # {}
  PROVE  \E x \in S : \A y \in S : x <= y
  <1> DEFINE R == OpToRel(<, Nat)
  <1>1. IsWellFoundedOn(R, Nat)
    BY NatLessThanWellFounded
  <1>2. \A x, y \in Nat : <<y, x>> \in R <=> y < x
    BY DEF OpToRel
  <1> HIDE DEF R
  <1>3. PICK x \in S : \A y \in S : ~(<<y, x>> \in R)
    BY <1>1, WFMin
  <1>4. \A y \in S : ~(y < x)
    BY <1>2, <1>3
  <1> QED
    BY <1>4

LEMMA GreatestExists ==
  ASSUME NEW n \in Nat, NEW S \in SUBSET (0..n), S # {}
  PROVE  \E x \in S : \A y \in S : y <= x
  <1> DEFINE T == {k \in Nat : n - k \in S}
  <1>1. T \in SUBSET Nat /\ T # {}
    <2>1. PICK s \in S : TRUE
      OBVIOUS
    <2>2. n - s \in T
      BY <2>1
    <2> QED
      BY <2>2
  <1>2. PICK k \in T : \A j \in T : k <= j
    BY <1>1, LeastExists
  <1>3. \A y \in S : n - y \in T
    OBVIOUS
  <1> QED
    BY <1>2, <1>3

\* A main thread with no group open is alone: every task belongs to a group that is alive,
\* a worker has it open only under a task of an earlier group, and so on down.
LEMMA MainAlone ==
  ASSUME PoolInv, NestInv, OpenInv, Top(Main).own = NoGroup
  PROVE  workStack = <<>> /\ \A w \in Workers : frames[w] = <<>>
  <1>1. frames[Main] # <<>> /\ DOMAIN frames[Main] = {1} /\ frames[Main][1] = Top(Main)
    <2>1. Len(frames[Main]) = 1 /\ frames[Main] \in Seq(FrameType)
      BY ThreadFacts DEF PoolInv, FrameInv, PoolTypeOK
    <2>2. frames[Main] # <<>>
      <3>1. Len(<<>>) = 0
        OBVIOUS
      <3>2. 0 # 1
        OBVIOUS
      <3> QED
        BY <2>1, <3>1, <3>2, Zenon
    <2>3. DOMAIN frames[Main] = 1..Len(frames[Main]) /\ Top(Main) = frames[Main][Len(frames[Main])]
      BY <2>2, TopFacts, ThreadFacts DEF PoolInv
    <2> QED
      BY <2>1, <2>2, <2>3
  <1>2. alive = {}
    <2> SUFFICES ASSUME alive # {} PROVE FALSE
      OBVIOUS
    <2>1. alive \in SUBSET Nat /\ NoGroup \notin alive
      BY PoolAssumption DEF PoolInv, PoolTypeOK, Groups, NoGroup
    <2>2. PICK g \in alive : \A h \in alive : g <= h
      BY <2>1, LeastExists
    <2>3. PICK t \in Threads : \E i \in DOMAIN frames[t] : frames[t][i].own = g
      BY <2>2 DEF OpenInv, OpenedBy
    <2>4. PICK i \in DOMAIN frames[t] : frames[t][i].own = g
      BY <2>3
    <2>5. t \in Workers /\ t # Main
      BY <1>1, <2>1, <2>4, ThreadFacts
    <2>6. frames[t][i].of \in Groups /\ frames[t][i].of # NoGroup
      BY <2>5 DEF PoolInv, FrameInv, Sound, Groups, NoGroup
    <2>7. frames[t][i].of \in alive
      BY <2>6, OfIsAlive
    <2>8. i <= i
      BY LenProperties DEF PoolInv, PoolTypeOK
    <2>9. frames[t][i].of < g
      BY <2>1, <2>2, <2>4, <2>5, <2>8 DEF NestInv
    <2> QED
      BY <2>1, <2>2, <2>7, <2>9
  <1>3. workStack = <<>>
    <2>1. DOMAIN workStack = {}
      BY <1>2, QueuedIsAlive
    <2>2. workStack \in Seq(Groups)
      BY DEF PoolInv, PoolTypeOK
    <2>3. Len(workStack) \in Nat /\ DOMAIN workStack = 1..Len(workStack)
      BY <2>2, LenProperties
    <2>4. Len(workStack) = 0
      BY <2>1, <2>3
    <2> QED
      BY <2>2, <2>4, EmptySeq
  <1>4. ASSUME NEW w \in Workers, frames[w] # <<>> PROVE FALSE
    <2>1. w \in Threads /\ w # Main
      BY ThreadFacts DEF Threads
    <2>2. PICK i : i \in DOMAIN frames[w]
      BY <1>4, <2>1, TopFacts DEF PoolInv
    <2>3. frames[w][i].of \in Groups /\ frames[w][i].of # NoGroup
      BY <2>1, <2>2 DEF PoolInv, FrameInv, Sound, Groups, NoGroup
    <2> QED
      BY <1>2, <2>1, <2>2, <2>3, OfIsAlive
  <1> QED
    BY <1>3, <1>4

\* Of the blocked workers the one whose group was opened last waits for a task that an
\* active worker runs or serves.
LEMMA BlockedIsServed ==
  ASSUME PoolInv, StageInv, NestInv, QueueInv, NEW b \in Workers, Blocked(b)
  PROVE  SomeActive
  <1> DEFINE S == {Top(w).own : w \in {v \in Workers : Blocked(v)}}
  <1>1. \A w \in Workers : w \in Threads /\ w # Main
    BY ThreadFacts DEF Threads
  <1>2. ASSUME NEW w \in Workers, Blocked(w)
        PROVE  /\ Top(w).own \in Groups /\ Top(w).own # NoGroup
               /\ Len(frames[w]) \in DOMAIN frames[w] /\ Top(w) = frames[w][Len(frames[w])]
               /\ DOMAIN frames[w] = 1..Len(frames[w]) /\ Len(frames[w]) \in Nat
    BY <1>1, <1>2, TopFacts DEF Blocked, PoolInv, FrameInv, Sound, FrameType, Groups, NoGroup
  <1>3. S \in SUBSET (0..MaxGroups) /\ S # {}
    BY <1>2 DEF Groups
  <1>4. PICK g \in S : \A h \in S : h <= g
    <2> HIDE DEF S
    <2> QED
      BY <1>3, GreatestExists, PoolAssumption
  <1>5. PICK w \in Workers : Blocked(w) /\ Top(w).own = g
    OBVIOUS
  <1>6. g \in Groups /\ g # NoGroup /\ count[g] # 0
    BY <1>2, <1>5 DEF Blocked
  <1>7. Refs(g) # {}
    BY <1>6, FS_EmptySet DEF PoolInv, LatchInv
  <1>8. PICK a, k : <<a, k>> \in Refs(g)
    <2>1. PICK r : r \in Refs(g)
      BY <1>7
    <2>2. r = <<r[1], r[2]>>
      BY <2>1, RefsArePairs
    <2>3. <<r[1], r[2]>> \in Refs(g)
      BY <2>1, <2>2, Zenon
    <2> QED
      BY <2>3, Zenon
  <1>9. CASE a = Queue /\ Queued(g, k)
    <2>1. OpenedBy(w, g)
      BY <1>2, <1>5 DEF OpenedBy
    <2> QED
      BY <1>9, <2>1 DEF QueueInv, Queued
  <1>10. CASE Running(g, a, k)
    <2>1. a \in Threads /\ k \in DOMAIN frames[a] /\ frames[a][k].of = g
      BY <1>10 DEF Running
    <2>2. a \in Workers
      BY <1>6, <2>1, ThreadFacts DEF PoolInv, FrameInv, Sound
    <2>3. frames[a] # <<>> /\ worker[a] = "loop"
      <3>1. DOMAIN <<>> = {}
        OBVIOUS
      <3>2. frames[a] # <<>>
        BY <2>1, <3>1
      <3> QED
        BY <2>2, <3>2 DEF StageInv
    <2>4. CASE Blocked(a)
      <3>1. Top(a).own \in S
        BY <2>2, <2>4
      <3>2. Top(a).own <= g
        BY <1>4, <3>1
      <3>3. k <= Len(frames[a])
        BY <1>2, <2>1, <2>2, <2>4
      <3>4. frames[a][k].of < frames[a][Len(frames[a])].own
        BY <1>2, <2>1, <2>2, <2>4, <3>3 DEF NestInv
      <3>5. Top(a).own \in Int /\ g \in Int
        BY <1>2, <1>6, <2>2, <2>4 DEF Groups
      <3> QED
        BY <1>2, <2>1, <2>2, <2>4, <3>2, <3>4, <3>5
    <2>5. CASE ~Blocked(a)
      BY <2>2, <2>3, <2>5 DEF SomeActive, Active
    <2> QED
      BY <2>4, <2>5
  <1>11. CASE Pushing(g, a)
    <2>1. a \in Threads /\ frames[a] # <<>> /\ Top(a).pc = "push" /\ Target(a) = g
      BY <1>11 DEF Pushing
    <2>2. CASE a = Main
      <3>1. Top(a).own = g /\ Len(frames[a]) \in DOMAIN frames[a] /\ Top(a) = frames[a][Len(frames[a])]
        BY <2>1, <2>2, TopFacts DEF Target, PoolInv, FrameInv, Sound
      <3> QED
        BY <1>1, <1>2, <1>5, <1>6, <2>1, <2>2, <3>1 DEF PoolInv, OwnerInv
    <2>3. CASE a # Main
      BY <2>1, <2>3, ThreadFacts DEF StageInv, SomeActive, Active, Blocked
    <2> QED
      BY <2>2, <2>3
  <1> QED
    BY <1>8, <1>9, <1>10, <1>11, RefsDef

----------------------------------------------------------------------------
(* What a step of a top frame leaves to the waiting threads *)

\* A worker in a task, at a place where it does not wait, is active and serves the queue.
LEMMA TaskServes ==
  ASSUME StageInv', NEW t \in Workers, frames'[t] # <<>>, Top(t)'.pc \notin {"sync", "waiting"}
  PROVE  SomeActive'
  <1>1. worker'[t] = "loop"
    BY DEF StageInv
  <1>2. ~Blocked(t)'
    BY DEF Blocked
  <1> QED
    BY <1>1, <1>2 DEF SomeActive, Active

LEMMA ActiveServes ==
  ASSUME SomeActive'
  PROVE  QueueInv' /\ NotifyInv'
  BY DEF QueueInv, NotifyInv

\* The tasks and the groups they have open are the same.
Kept ==
  /\ \A u \in Threads : /\ DOMAIN frames'[u] = DOMAIN frames[u]
                        /\ frames'[u] = <<>> <=> frames[u] = <<>>
  /\ \A u \in Threads : \A i \in DOMAIN frames[u] :
       frames'[u][i].of = frames[u][i].of /\ frames'[u][i].own = frames[u][i].own

LEMMA KeptNesting ==
  ASSUME Kept, NestInv, OpenInv, FatalInv, alive' = alive, link' = link
  PROVE  NestInv' /\ OpenInv' /\ FatalInv' /\ \A u \in Threads : \A g : OpenedBy(u, g)' <=> OpenedBy(u, g)
  <1>1. \A w \in Workers : w \in Threads
    BY DEF Threads
  <1>2. NestInv'
    BY <1>1 DEF NestInv, Kept
  <1>3. \A u \in Threads : \A g : OpenedBy(u, g)' <=> OpenedBy(u, g)
    BY DEF OpenedBy, Kept
  <1>4. OpenInv'
    BY <1>3 DEF OpenInv
  <1>5. FatalInv'
    BY <1>1 DEF FatalInv, Kept
  <1> QED
    BY <1>2, <1>3, <1>4, <1>5

LEMMA ReplaceKept ==
  ASSUME PoolTypeOK, NEW t \in Threads, frames[t] # <<>>, NEW f, Replaces(t, f),
         f.of = Top(t).of, f.own = Top(t).own
  PROVE  Kept
  <1>1. \A u \in Threads : \A i \in DOMAIN frames[u] :
          frames'[u][i].of = frames[u][i].of /\ frames'[u][i].own = frames[u][i].own
    <2> TAKE u \in Threads
    <2> TAKE i \in DOMAIN frames[u]
    <2>1. CASE u = t /\ i = Len(frames[t])
      BY <2>1, TopFacts DEF Replaces
    <2>2. CASE ~(u = t /\ i = Len(frames[t]))
      BY <2>2 DEF Replaces
    <2> QED
      BY <2>1, <2>2
  <1> QED
    BY <1>1 DEF Kept, Replaces

\* The pool gets no smaller.
WorkersStay ==
  /\ \A w \in Workers : worker'[w] = worker[w] \/ (worker[w] # "loop" /\ worker'[w] = "loop")
  /\ stop => stop'

LEMMA StageKept ==
  ASSUME StageInv, WorkersStay, \A w \in Workers : frames'[w] = <<>> <=> frames[w] = <<>>
  PROVE  StageInv'
  <1>1. 0 \in Workers
    BY PoolAssumption DEF Workers
  <1> QED
    BY <1>1 DEF StageInv, WorkersStay

\* Another thread's step that raises no count from zero leaves a worker active.
LEMMA ActiveKept ==
  ASSUME WorkersStay, NEW w \in Workers, Active(w), frames'[w] = frames[w],
         Blocked(w)' => Blocked(w)
  PROVE  SomeActive'
  BY DEF WorkersStay, SomeActive, Active

LEMMA GoWake ==
  ASSUME PoolInv, WakeInv, NEW t \in Threads, frames[t] # <<>>, NEW p \in Pcs, Go(t, p),
         WorkersStay, UNCHANGED <<alive, link>>,
         \A g \in Groups : count[g] # 0 => count'[g] # 0,
         p = "waiting" => count'[Top(t).own] # 0
  PROVE  /\ Replaces(t, [Top(t) EXCEPT !.pc = p])
         /\ Top(t)'.pc = p /\ Top(t)'.own = Top(t).own /\ frames'[t] # <<>>
         /\ Kept
         /\ StageInv' /\ WaitInv' /\ NestInv' /\ OpenInv' /\ FatalInv'
         /\ (stop' = stop /\ p \in {"stopping", "join"} /\ UNCHANGED workStack => StopInv')
         /\ (stop' = stop /\ Top(t).pc \notin {"stopping", "join"} => StopInv')
  <1> DEFINE f == [Top(t) EXCEPT !.pc = p]
  <1>1. Replaces(t, f) /\ Top(t) \in FrameType
    BY GoType, TopFacts DEF PoolInv
  <1>2. f.of = Top(t).of /\ f.own = Top(t).own /\ f.pc = p
    BY <1>1 DEF FrameType
  <1> HIDE DEF f
  <1>3. Top(t)' = f /\ frames'[t] # <<>> /\ \A u \in Threads : u # t => frames'[u] = frames[u]
    BY <1>1 DEF Replaces
  <1>4. Kept
    BY <1>1, <1>2, ReplaceKept DEF PoolInv
  <1>5. NestInv' /\ OpenInv' /\ FatalInv'
    BY <1>4, KeptNesting DEF WakeInv
  <1>6. \A w \in Workers : w \in Threads
    BY DEF Threads
  <1>7. StageInv'
    BY <1>4, <1>6, StageKept DEF WakeInv, Kept
  <1>8. \A u \in Threads : u # t => Top(u)' = Top(u)
    BY <1>3 DEF Top
  <1>9. WaitInv'
    <2> SUFFICES ASSUME NEW u \in Threads, frames'[u] # <<>>, Top(u)'.pc = "waiting"
                 PROVE  count'[Top(u)'.own] # 0
      BY DEF WaitInv
    <2>1. CASE u = t
      BY <1>2, <1>3, <2>1
    <2>2. CASE u # t
      <3>1. frames[u] # <<>> /\ Top(u).pc = "waiting" /\ Top(u)'.own = Top(u).own
        BY <1>3, <1>8, <2>2
      <3>2. Top(u).own \in Groups
        BY <3>1, TopFacts DEF PoolInv, FrameInv, Sound, FrameType, Groups, NoGroup
      <3> QED
        BY <3>1, <3>2 DEF WakeInv, WaitInv
    <2> QED
      BY <2>1, <2>2
  <1>10. ASSUME stop' = stop,
                \/ p \in {"stopping", "join"} /\ UNCHANGED workStack
                \/ Top(t).pc \notin {"stopping", "join"}
         PROVE  StopInv'
    <2> SUFFICES ASSUME stop PROVE StopInv'
      BY <1>10 DEF StopInv
    <2>1. \A u \in Threads : Ending(u) => Ending(u)'
      <3> TAKE u \in Threads
      <3>1. CASE u = t
        BY <1>2, <1>3, <1>10, <3>1 DEF Ending
      <3>2. CASE u # t
        BY <1>3, <1>8, <3>2 DEF Ending
      <3> QED
        BY <3>1, <3>2
    <2>2. CASE link # "nested" /\ \E w \in Workers : Ending(w)
      BY <1>6, <2>1, <2>2 DEF StopInv
    <2>3. CASE workStack = <<>> /\ (\A w \in Workers : frames[w] = <<>>) /\ Ending(Main)
      <3>1. t = Main
        BY <2>3, ThreadFacts
      <3>2. workStack' = workStack
        BY <1>10, <2>3, <3>1 DEF Ending
      <3> QED
        BY <1>4, <1>6, <2>1, <2>3, <3>2, ThreadFacts DEF StopInv, Kept
    <2> QED
      BY <2>2, <2>3 DEF WakeInv, StopInv
  <1> QED
    BY <1>1, <1>2, <1>3, <1>4, <1>5, <1>7, <1>9, <1>10 DEF f

LEMMA QueueKept ==
  ASSUME WakeInv, workStack' = workStack, SomeActive => SomeActive',
         \A w \in Workers : \A g \in Groups : OpenedBy(w, g)' => OpenedBy(w, g),
         \A k \in DOMAIN workStack : workStack[k] \in Groups
  PROVE  /\ QueueInv'
         /\ (\A u \in Threads : AboutToNotify(u) => AboutToNotify(u)') => NotifyInv'
  <1>1. QueueInv'
    <2> SUFFICES ASSUME NEW k \in DOMAIN workStack', NEW w \in Workers, OpenedBy(w, workStack[k])'
                 PROVE  SomeActive'
      BY DEF QueueInv
    <2>1. k \in DOMAIN workStack /\ OpenedBy(w, workStack[k])
      BY DEF OpenedBy
    <2> QED
      BY <2>1 DEF WakeInv, QueueInv
  <1> QED
    BY <1>1 DEF WakeInv, NotifyInv

\* A thread that moves on to where it does not wait leaves the pool as active as it was.
LEMMA GoActive ==
  ASSUME PoolInv, WakeInv, NEW t \in Threads, frames[t] # <<>>, NEW f, Replaces(t, f),
         StageInv', WorkersStay, count' = count,
         t \in Workers => f.pc \notin {"sync", "waiting"} \/ count[f.own] = 0
  PROVE  SomeActive => SomeActive'
  <1> SUFFICES ASSUME NEW w \in Workers, Active(w) PROVE SomeActive'
    BY DEF SomeActive
  <1>1. w \in Threads
    BY DEF Threads
  <1>2. CASE w = t
    <2>1. Top(t)' = f /\ frames'[t] # <<>>
      BY DEF Replaces
    <2>2. worker'[t] = "loop"
      BY <1>2, <2>1 DEF StageInv
    <2>3. ~Blocked(t)'
      BY <1>2, <2>1 DEF Blocked
    <2> QED
      BY <1>2, <2>2, <2>3 DEF SomeActive, Active
  <1>3. CASE w # t
    <2>1. frames'[w] = frames[w]
      BY <1>1, <1>3 DEF Replaces
    <2>2. Blocked(w)' => Blocked(w)
      BY <2>1 DEF Blocked, Top
    <2> QED
      BY <2>1, <2>2, ActiveKept
  <1> QED
    BY <1>2, <1>3

LEMMA NotifyKept ==
  ASSUME NEW t \in Threads, frames[t] # <<>>, NEW f, Replaces(t, f), Top(t).pc # "notify"
  PROVE  \A u \in Threads : AboutToNotify(u) => AboutToNotify(u)'
  BY DEF AboutToNotify, Replaces, Top

LEMMA MoveWake ==
  ASSUME PoolInv, WakeInv, NEW t \in Threads,
         CloseGroup(t) \/ HelpCheck(t) \/ SyncWait(t) \/ EndTask(t)
  PROVE  WakeInv'
  <1>1. UNCHANGED <<worker, workStack, stop, count, alive, link>>
    BY DEF CloseGroup, HelpCheck, SyncWait, EndTask, pool, latches
  <1>2. PICK p \in Pcs \ {"notify"} :
          /\ Go(t, p) /\ frames[t] # <<>>
          /\ Top(t).pc \in {"group", "help", "sync", "body"}
          /\ p = "waiting" => count[Top(t).own] # 0
          /\ \/ t \in Workers => p \notin {"sync", "waiting"} \/ count[Top(t).own] = 0
             \/ Top(t).pc = "sync" /\ count[Top(t).own] # 0
    <2>1. CASE CloseGroup(t)
      BY <2>1, AtFacts, ThreadFacts DEF CloseGroup, Pcs
    <2>2. CASE HelpCheck(t)
      BY <2>2, AtFacts DEF HelpCheck, Pcs
    <2>3. CASE SyncWait(t)
      BY <2>3, AtFacts DEF SyncWait, Pcs
    <2>4. CASE EndTask(t)
      BY <2>4, AtFacts DEF EndTask, Pcs
    <2> QED
      BY <2>1, <2>2, <2>3, <2>4
  <1> DEFINE f == [Top(t) EXCEPT !.pc = p]
  <1>3. WorkersStay
    BY <1>1 DEF WorkersStay
  <1>4. /\ Replaces(t, f) /\ Kept /\ Top(t)' = f /\ f.pc = p /\ f.own = Top(t).own
        /\ StageInv' /\ WaitInv' /\ NestInv' /\ OpenInv' /\ FatalInv' /\ StopInv'
    <2>1. /\ Replaces(t, f) /\ Kept
          /\ StageInv' /\ WaitInv' /\ NestInv' /\ OpenInv' /\ FatalInv' /\ StopInv'
      BY <1>1, <1>2, <1>3, GoWake
    <2>2. Top(t) \in FrameType
      BY <1>2, TopFacts DEF PoolInv
    <2> QED
      BY <2>1, <2>2 DEF FrameType, Replaces
  <1> HIDE DEF f
  <1>5. SomeActive => SomeActive'
    <2>1. CASE t \in Workers => p \notin {"sync", "waiting"} \/ count[Top(t).own] = 0
      BY <1>1, <1>2, <1>3, <1>4, <2>1, GoActive
    <2>2. CASE Top(t).pc = "sync" /\ count[Top(t).own] # 0
      <3> SUFFICES ASSUME NEW w \in Workers, Active(w) PROVE SomeActive'
        BY DEF SomeActive
      <3>1. w # t
        BY <1>2, <2>2 DEF Active, Blocked
      <3>2. frames'[w] = frames[w]
        BY <1>4, <3>1 DEF Replaces, Threads
      <3>3. Blocked(w)' => Blocked(w)
        BY <1>1, <3>2 DEF Blocked, Top
      <3> QED
        BY <1>3, <3>2, <3>3, ActiveKept
    <2> QED
      BY <1>2, <2>1, <2>2
  <1>6. \A u \in Threads : AboutToNotify(u) => AboutToNotify(u)'
    BY <1>2, <1>4, NotifyKept
  <1>7. \A w \in Workers : \A g \in Groups : OpenedBy(w, g)' => OpenedBy(w, g)
    BY <1>1, <1>4, KeptNesting DEF WakeInv, Threads
  <1>8. \A k \in DOMAIN workStack : workStack[k] \in Groups
    BY QueuedIsAlive
  <1> QED
    BY <1>1, <1>4, <1>5, <1>6, <1>7, <1>8, QueueKept DEF WakeInv

\* A count is a natural number.
LEMMA CountIsNat ==
  ASSUME PoolInv, NEW g \in Groups
  PROVE  count[g] \in Nat
  BY FS_CardinalityType DEF PoolInv, LatchInv

LEMMA SpawnIncWake ==
  ASSUME PoolInv, WakeInv, NEW t \in Threads, SpawnInc(t)
  PROVE  WakeInv'
  <1> DEFINE f == [Top(t) EXCEPT !.pc = "push"]
  <1>1. /\ frames[t] # <<>> /\ Top(t) \in FrameType /\ Sound(t, Top(t))
        /\ Top(t).pc \in {"body", "group"} /\ (Top(t).pc = "body" => t # Main)
    BY AtFacts DEF SpawnInc
  <1>2. Target(t) \in Groups /\ Target(t) \in alive
    BY <1>1, TargetFacts
  <1>3. /\ UNCHANGED <<worker, workStack, stop, alive, link>>
        /\ count' = [count EXCEPT ![Target(t)] = @ + 1] /\ Go(t, "push")
    BY DEF SpawnInc, pool
  <1>4. "push" \in Pcs
    BY DEF Pcs
  <1>5. WorkersStay
    BY <1>3 DEF WorkersStay
  <1>6. \A g \in Groups : /\ count'[g] = IF g = Target(t) THEN count[g] + 1 ELSE count[g]
                          /\ count[g] \in Nat
    BY <1>3, CountIsNat DEF PoolInv, PoolTypeOK
  <1>7. \A g \in Groups : count[g] # 0 => count'[g] # 0
    BY <1>6
  <1>8. /\ Replaces(t, f) /\ Kept /\ frames'[t] # <<>> /\ Top(t)'.pc = "push"
        /\ StageInv' /\ WaitInv' /\ NestInv' /\ OpenInv' /\ FatalInv' /\ StopInv'
    BY <1>1, <1>3, <1>4, <1>5, <1>7, GoWake
  <1> HIDE DEF f
  <1>9. SomeActive => SomeActive'
    <2>1. CASE t \in Workers
      BY <1>8, <2>1, TaskServes
    <2>2. CASE t \notin Workers
      <3> SUFFICES ASSUME NEW w \in Workers, Active(w) PROVE SomeActive'
        BY DEF SomeActive
      <3>1. t = Main /\ w # t /\ w \in Threads
        BY <2>2, ThreadFacts DEF Threads
      <3>2. frames'[w] = frames[w] /\ Top(w)' = Top(w)
        BY <1>8, <3>1 DEF Replaces, Top
      <3>3. Target(t) = Top(t).own /\ Top(t).own # NoGroup
        BY <1>1, <3>1 DEF Sound, Target
      <3>4. ASSUME Blocked(w)' PROVE Blocked(w)
        <4>1. frames[w] # <<>> /\ Top(w).pc \in {"sync", "waiting"} /\ count'[Top(w).own] # 0
          BY <3>2, <3>4 DEF Blocked
        <4>2. Top(w).own \in Groups
          BY <3>1, <4>1, TopFacts DEF PoolInv, FrameInv, Sound, FrameType, Groups, NoGroup
        <4>3. Top(w).own # Top(t).own
          BY <1>1, <3>1, <3>3, <4>1, TopFacts DEF PoolInv, OwnerInv
        <4> QED
          BY <1>6, <3>3, <4>1, <4>2, <4>3 DEF Blocked
      <3> QED
        BY <1>5, <3>2, <3>4, ActiveKept
    <2> QED
      BY <2>1, <2>2
  <1>10. \A u \in Threads : AboutToNotify(u) => AboutToNotify(u)'
    BY <1>1, <1>8, NotifyKept
  <1>11. \A w \in Workers : \A g \in Groups : OpenedBy(w, g)' => OpenedBy(w, g)
    BY <1>3, <1>8, KeptNesting DEF WakeInv, Threads
  <1>12. \A k \in DOMAIN workStack : workStack[k] \in Groups
    BY QueuedIsAlive
  <1> QED
    BY <1>3, <1>8, <1>9, <1>10, <1>11, <1>12, QueueKept DEF WakeInv

LEMMA SpawnPushWake ==
  ASSUME PoolInv, WakeInv, NEW t \in Threads, SpawnPush(t)
  PROVE  WakeInv'
  <1> DEFINE f == [Top(t) EXCEPT !.pc = "notify"]
  <1>1. /\ frames[t] # <<>> /\ Top(t) \in FrameType /\ Sound(t, Top(t)) /\ Top(t).pc = "push"
    BY AtFacts DEF SpawnPush
  <1>2. Target(t) \in Groups
    BY <1>1, TargetFacts
  <1>3. /\ UNCHANGED <<worker, stop, count, alive, link>>
        /\ workStack' = Append(workStack, Target(t)) /\ Go(t, "notify")
    BY DEF SpawnPush, latches
  <1>4. "notify" \in Pcs
    BY DEF Pcs
  <1>5. WorkersStay
    BY <1>3 DEF WorkersStay
  <1>6. /\ Replaces(t, f) /\ Kept /\ frames'[t] # <<>> /\ Top(t)'.pc = "notify"
        /\ StageInv' /\ WaitInv' /\ NestInv' /\ OpenInv' /\ FatalInv' /\ StopInv'
    BY <1>1, <1>3, <1>4, <1>5, GoWake
  <1> HIDE DEF f
  <1>7. CASE t \in Workers
    BY <1>6, <1>7, TaskServes, ActiveServes DEF WakeInv
  <1>8. CASE t = Main
    <2>1. NotifyInv'
      BY <1>6 DEF NotifyInv, AboutToNotify
    <2>2. QueueInv'
      <3> SUFFICES ASSUME NEW k \in DOMAIN workStack', NEW w \in Workers,
                          OpenedBy(w, workStack[k])'
                   PROVE  SomeActive'
        BY DEF QueueInv
      <3>1. workStack \in Seq(Groups) /\ w \in Threads /\ w # t
        BY <1>8, ThreadFacts DEF PoolInv, PoolTypeOK, Threads
      <3>2. \/ k \in DOMAIN workStack /\ workStack'[k] = workStack[k]
            \/ workStack'[k] = Target(t)
        BY <1>2, <1>3, <3>1, AppendProperties, LenProperties
      <3>3. OpenedBy(w, workStack'[k])
        BY <1>3, <1>6, <3>1, KeptNesting DEF WakeInv, OpenedBy, Kept
      <3>4. workStack'[k] # Target(t)
        <4>1. Target(t) = Top(t).own /\ Top(t).own # NoGroup
          BY <1>1, <1>8 DEF Sound, Target
        <4> QED
          BY <1>1, <3>1, <3>3, <4>1, TopFacts DEF OpenedBy, PoolInv, OwnerInv
      <3>5. SomeActive
        BY <3>2, <3>3, <3>4 DEF WakeInv, QueueInv
      <3> QED
        BY <1>1, <1>3, <1>5, <1>6, <1>8, <3>5, GoActive, ThreadFacts
    <2> QED
      BY <1>6, <2>1, <2>2 DEF WakeInv
  <1> QED
    BY <1>7, <1>8, ThreadFacts

LEMMA SpawnNotifyWake ==
  ASSUME PoolInv, WakeInv, NEW t \in Threads, SpawnNotify(t)
  PROVE  WakeInv'
  <1> DEFINE p == IF Top(t).own = NoGroup THEN "body" ELSE "group"
             f == [Top(t) EXCEPT !.pc = p]
             asleep == {w \in Workers : worker[w] = "asleep"}
  <1>1. /\ frames[t] # <<>> /\ Top(t) \in FrameType /\ Top(t).pc = "notify"
    BY AtFacts DEF SpawnNotify
  <1>2. /\ UNCHANGED <<workStack, stop, count, alive, link>> /\ Go(t, p)
    BY DEF SpawnNotify, latches
  <1>3. p \in Pcs /\ p \in {"body", "group"}
    BY DEF Pcs
  <1>4. \/ asleep = {} /\ worker' = worker
        \/ \E w \in asleep : worker' = [worker EXCEPT ![w] = "loop"]
    BY DEF SpawnNotify
  <1>5. WorkersStay
    BY <1>2, <1>4 DEF WorkersStay, PoolInv, PoolTypeOK
  <1> HIDE DEF p
  <1>6. /\ Replaces(t, f) /\ Kept /\ frames'[t] # <<>> /\ Top(t)'.pc = p
        /\ StageInv' /\ WaitInv' /\ NestInv' /\ OpenInv' /\ FatalInv' /\ StopInv'
    BY <1>1, <1>2, <1>3, <1>5, GoWake
  <1> HIDE DEF f
  <1>7. CASE t \in Workers
    BY <1>3, <1>6, <1>7, TaskServes, ActiveServes DEF WakeInv
  <1>8. CASE workStack = <<>>
    <2>1. DOMAIN workStack' = {}
      BY <1>2, <1>8
    <2> QED
      BY <1>2, <1>6, <1>8, <2>1 DEF WakeInv, QueueInv, NotifyInv
  <1>9. CASE t \notin Workers /\ workStack # <<>>
    <2>1. SomeActive => SomeActive'
      BY <1>1, <1>2, <1>5, <1>6, <1>9, GoActive
    <2>2. SomeActive'
      <3>1. CASE \E w \in asleep : worker' = [worker EXCEPT ![w] = "loop"]
        <4>1. PICK w \in asleep : worker' = [worker EXCEPT ![w] = "loop"]
          BY <3>1
        <4>2. frames[w] = <<>> /\ w \in Threads /\ w # t
          BY <1>9 DEF WakeInv, StageInv, Threads
        <4>3. frames'[w] = <<>> /\ worker'[w] = "loop"
          BY <1>6, <4>1, <4>2 DEF Replaces, PoolInv, PoolTypeOK
        <4> QED
          BY <4>3 DEF SomeActive, Active, Blocked
      <3>2. CASE stop
        <4>1. PICK w \in Workers : Ending(w)
          BY <1>9, <3>2 DEF WakeInv, StopInv
        <4>2. Active(w)
          BY <4>1 DEF Ending, Active, Blocked, WakeInv, StageInv
        <4> QED
          BY <2>1, <4>2 DEF SomeActive
      <3>3. CASE asleep = {} /\ ~stop
        <4>1. 0 \in Workers
          BY PoolAssumption DEF Workers
        <4>2. worker[0] \in {"creating", "loop"}
          BY <3>3, <4>1 DEF WakeInv, StageInv
        <4>3. SomeActive
          BY <4>1, <4>2, BlockedIsServed DEF SomeActive, Active, WakeInv
        <4> QED
          BY <2>1, <4>3
      <3> QED
        BY <1>4, <3>1, <3>2, <3>3
    <2> QED
      BY <1>6, <2>2, ActiveServes DEF WakeInv
  <1> QED
    BY <1>7, <1>8, <1>9

LEMMA EmptyQueueServed ==
  ASSUME workStack' = <<>>
  PROVE  QueueInv' /\ NotifyInv'
  <1>1. DOMAIN workStack' = {}
    OBVIOUS
  <1> QED
    BY <1>1 DEF QueueInv, NotifyInv

\* Take and HelpRun: the thread that has got a task is active.
LEMMA PushWake ==
  ASSUME PoolInv, WakeInv, NEW t \in Workers, worker[t] = "loop", workStack # <<>>, ~stop,
         Pushes(t, Popped), UNCHANGED <<worker, count, alive, stop, link>>
  PROVE  WakeInv'
  <1> DEFINE m == Len(frames[t])
  <1>1. t \in Threads /\ t # Main /\ \A w \in Workers : w \in Threads
    BY ThreadFacts DEF Threads
  <1>2. Popped.own = NoGroup /\ Popped.pc = "body"
    BY PoppedFacts
  <1>3. m \in Nat /\ DOMAIN frames[t] = 1..m
    BY <1>1, LenProperties DEF PoolInv, PoolTypeOK
  <1>4. \A u \in Threads : \A i \in DOMAIN frames'[u] :
          \/ u = t /\ i = m + 1 /\ frames'[u][i] = Popped
          \/ /\ i \in DOMAIN frames[u] /\ (u = t => i <= m)
             /\ frames'[u][i].of = frames[u][i].of /\ frames'[u][i].own = frames[u][i].own
    BY <1>1, <1>3 DEF Pushes
  <1>5. \A u \in Threads : \A i \in DOMAIN frames[u] :
          i \in DOMAIN frames'[u] /\ frames'[u][i].own = frames[u][i].own
    BY <1>1 DEF Pushes
  <1>6. StageInv'
    BY <1>1 DEF Pushes, WakeInv, StageInv
  <1>7. WaitInv'
    <2> SUFFICES ASSUME NEW u \in Threads, frames'[u] # <<>>, Top(u)'.pc = "waiting"
                 PROVE  count'[Top(u)'.own] # 0
      BY DEF WaitInv
    <2>1. u # t
      BY <1>2 DEF Pushes
    <2> QED
      BY <2>1 DEF Pushes, Top, WakeInv, WaitInv
  <1>8. NestInv'
    <2> SUFFICES ASSUME NEW w \in Workers, NEW i \in DOMAIN frames'[w], NEW j \in DOMAIN frames'[w],
                        i <= j, frames'[w][j].own # NoGroup
                 PROVE  frames'[w][i].of < frames'[w][j].own
      BY DEF NestInv
    <2>1. j \in DOMAIN frames[w] /\ frames'[w][j].own = frames[w][j].own /\ (w = t => j <= m)
      BY <1>1, <1>2, <1>4
    <2>2. i \in DOMAIN frames[w] /\ frames'[w][i].of = frames[w][i].of
      <3>1. ~(w = t /\ i = m + 1)
        BY <1>3, <2>1
      <3> QED
        BY <1>1, <1>4, <3>1
    <2> QED
      BY <2>1, <2>2 DEF WakeInv, NestInv
  <1>9. OpenInv'
    BY <1>5 DEF WakeInv, OpenInv, OpenedBy
  <1>10. FatalInv'
    BY <1>1, <1>2, <1>4 DEF WakeInv, FatalInv
  <1>11. StopInv'
    BY DEF StopInv
  <1>12. SomeActive'
    BY <1>2, <1>6, TaskServes DEF Pushes
  <1> QED
    BY <1>6, <1>7, <1>8, <1>9, <1>10, <1>11, <1>12, ActiveServes DEF WakeInv

LEMMA HelpRunWake ==
  ASSUME PoolInv, WakeInv, NEW t \in Threads, HelpRun(t)
  PROVE  WakeInv'
  <1>1. /\ frames[t] # <<>> /\ Top(t).pc = "steal" /\ Top(t) \in FrameType /\ Sound(t, Top(t))
    BY AtFacts DEF HelpRun
  <1>2. UNCHANGED <<worker, count, alive, stop, link>>
    BY DEF HelpRun, latches
  <1>3. t \in Workers
    BY <1>1, ThreadFacts DEF Sound
  <1>4. CASE stop \/ workStack = <<>>
    <2>1. workStack = <<>>
      <3> SUFFICES ASSUME stop, workStack # <<>> PROVE FALSE
        BY <1>4
      <3>1. link # "nested"
        BY DEF WakeInv, StopInv
      <3>2. Top(t).own = NoGroup
        BY <1>1, <1>3, <3>1, TopFacts DEF WakeInv, FatalInv, PoolInv
      <3> QED
        BY <1>1, <3>2 DEF Sound
    <2>2. Go(t, "sync") /\ workStack' = workStack
      BY <1>4 DEF HelpRun
    <2>3. "sync" \in Pcs
      BY DEF Pcs
    <2>4. WorkersStay
      BY <1>2 DEF WorkersStay
    <2>5. StageInv' /\ WaitInv' /\ NestInv' /\ OpenInv' /\ FatalInv' /\ StopInv'
      BY <1>1, <1>2, <2>2, <2>3, <2>4, GoWake
    <2> QED
      BY <2>1, <2>2, <2>5, EmptyQueueServed DEF WakeInv
  <1>5. CASE ~(stop \/ workStack = <<>>)
    BY <1>1, <1>2, <1>3, <1>5, HelpPushes, PushWake DEF WakeInv, StageInv
  <1> QED
    BY <1>4, <1>5

LEMMA TakeWake ==
  ASSUME PoolInv, WakeInv, NEW w \in Workers, Take(w)
  PROVE  WakeInv'
  BY TakePushes, PushWake DEF Take, Idle, PopAndRun, latches

LEMMA OpenGroupWake ==
  ASSUME PoolInv, WakeInv, NEW t \in Threads, OpenGroup(t)
  PROVE  WakeInv'
  <1> DEFINE f == [Top(t) EXCEPT !.own = opened + 1, !.pc = "group"]
             n == Len(frames[t])
  <1>1. /\ frames[t] # <<>> /\ Top(t).pc = "body" /\ Top(t) \in FrameType /\ Sound(t, Top(t))
        /\ n \in DOMAIN frames[t] /\ Top(t) = frames[t][n] /\ DOMAIN frames[t] = 1..n
        /\ n \in Nat \ {0}
    BY AtFacts, TopFacts DEF OpenGroup, PoolInv
  <1>2. PICK g \in Groups : g = opened + 1
    BY PoolAssumption DEF OpenGroup, PoolInv, PoolTypeOK, Groups
  <1>3. /\ UNCHANGED <<worker, workStack, stop, count, link>> /\ alive' = alive \cup {g}
        /\ t \in Workers => link = "nested"
    BY <1>2, ThreadFacts DEF OpenGroup, pool
  <1>4. Replaces(t, f)
    BY OpenGroupInv
  <1>5. f.own = g /\ f.pc = "group" /\ f.of = Top(t).of
    BY <1>1, <1>2 DEF FrameType
  <1> HIDE DEF f
  <1>6. g \notin alive /\ g # NoGroup /\ \A h \in alive : h < g /\ h \in Groups
    <2>1. \A h \in alive : h \in Groups /\ h <= opened
      BY DEF PoolInv, OwnerInv, PoolTypeOK
    <2>2. opened \in Int /\ \A h \in Groups : h \in Int /\ h # NoGroup
      BY DEF PoolInv, PoolTypeOK, Groups, NoGroup
    <2>3. \A h \in alive : h < g /\ h \in Groups
      <3> TAKE h \in alive
      <3>1. h \in Int /\ h \in Groups /\ h <= opened
        BY <2>1, <2>2
      <3>2. h < opened + 1
        BY <2>2, <3>1
      <3> QED
        BY <1>2, <3>1, <3>2
    <2> QED
      BY <2>2, <2>3
  <1>7. \A w \in Workers : w \in Threads /\ w # Main
    BY ThreadFacts DEF Threads
  <1>8. \A u \in Threads : \A i \in DOMAIN frames[u] :
          /\ i \in DOMAIN frames'[u] /\ frames'[u][i].of = frames[u][i].of
          /\ IF u = t /\ i = n THEN frames'[u][i].own = g
                               ELSE frames'[u][i].own = frames[u][i].own
    <2> TAKE u \in Threads
    <2> TAKE i \in DOMAIN frames[u]
    <2>1. CASE u = t /\ i = n
      BY <1>1, <1>4, <1>5, <2>1 DEF Replaces
    <2>2. CASE ~(u = t /\ i = n)
      BY <1>4, <2>2 DEF Replaces
    <2> QED
      BY <2>1, <2>2
  <1>9. WorkersStay
    BY <1>3 DEF WorkersStay
  <1>10. \A u \in Threads : /\ DOMAIN frames'[u] = DOMAIN frames[u]
                            /\ frames'[u] = <<>> <=> frames[u] = <<>>
    BY <1>1, <1>4 DEF Replaces
  <1>11. StageInv'
    BY <1>7, <1>9, <1>10, StageKept DEF WakeInv
  <1>12. WaitInv'
    <2> SUFFICES ASSUME NEW u \in Threads, frames'[u] # <<>>, Top(u)'.pc = "waiting"
                 PROVE  count'[Top(u)'.own] # 0
      BY DEF WaitInv
    <2>1. u # t
      BY <1>4, <1>5 DEF Replaces
    <2> QED
      BY <1>3, <1>4, <2>1 DEF Replaces, Top, WakeInv, WaitInv
  <1>13. NestInv'
    <2> SUFFICES ASSUME NEW w \in Workers, NEW i \in DOMAIN frames'[w], NEW j \in DOMAIN frames'[w],
                        i <= j, frames'[w][j].own # NoGroup
                 PROVE  frames'[w][i].of < frames'[w][j].own
      BY DEF NestInv
    <2>1. w \in Threads /\ i \in DOMAIN frames[w] /\ j \in DOMAIN frames[w]
      BY <1>7, <1>10
    <2>2. CASE w = t /\ j = n
      <3>1. frames[w][i].of \in alive
        BY <1>7, <2>1, OfIsAlive DEF PoolInv, FrameInv, Sound, Groups, NoGroup
      <3> QED
        BY <1>6, <1>8, <2>1, <2>2, <3>1
    <2>3. CASE ~(w = t /\ j = n)
      BY <1>8, <2>1, <2>3 DEF WakeInv, NestInv
    <2> QED
      BY <2>2, <2>3
  <1>14. OpenInv'
    <2>1. \A h \in alive : \E u \in Threads : OpenedBy(u, h)'
      <3> TAKE h \in alive
      <3>1. PICK u \in Threads : OpenedBy(u, h)
        BY DEF WakeInv, OpenInv
      <3>2. PICK i \in DOMAIN frames[u] : frames[u][i].own = h
        BY <3>1 DEF OpenedBy
      <3>3. ~(u = t /\ i = n)
        BY <1>1, <1>6, <3>2 DEF Sound, NoGroup, Groups
      <3> QED
        BY <1>8, <3>2, <3>3 DEF OpenedBy
    <2>2. OpenedBy(t, g)'
      BY <1>1, <1>8 DEF OpenedBy
    <2> QED
      BY <1>3, <2>1, <2>2 DEF OpenInv
  <1>15. FatalInv'
    BY <1>3, <1>7, <1>8, <1>10 DEF WakeInv, FatalInv
  <1>16. StopInv'
    <2> SUFFICES ASSUME stop PROVE StopInv'
      BY <1>3 DEF StopInv
    <2>1. \A u \in Threads : Ending(u) => Ending(u)'
      BY <1>1, <1>4 DEF Ending, Replaces, Top
    <2>2. CASE link # "nested" /\ \E w \in Workers : Ending(w)
      BY <1>3, <1>7, <2>1, <2>2 DEF StopInv
    <2>3. CASE workStack = <<>> /\ (\A w \in Workers : frames[w] = <<>>) /\ Ending(Main)
      BY <1>3, <1>7, <1>10, <2>1, <2>3, ThreadFacts DEF StopInv
    <2> QED
      BY <2>2, <2>3 DEF WakeInv, StopInv
  <1>17. SomeActive => SomeActive'
    BY <1>1, <1>3, <1>4, <1>5, <1>9, <1>11, GoActive
  <1>18. \A u \in Threads : AboutToNotify(u) => AboutToNotify(u)'
    BY <1>1, <1>4, NotifyKept
  <1>19. QueueInv' /\ NotifyInv'
    <2>1. CASE t \in Workers
      BY <1>4, <1>5, <1>11, <2>1, TaskServes, ActiveServes DEF Replaces
    <2>2. CASE t \notin Workers
      <3>1. \A w \in Workers : \A h \in Groups : OpenedBy(w, h)' => OpenedBy(w, h)
        BY <1>4, <1>7, <2>2 DEF Replaces, OpenedBy
      <3>2. \A k \in DOMAIN workStack : workStack[k] \in Groups
        BY QueuedIsAlive
      <3> QED
        BY <1>3, <1>17, <1>18, <3>1, <3>2, QueueKept
    <2> QED
      BY <2>1, <2>2
  <1> QED
    BY <1>11, <1>12, <1>13, <1>14, <1>15, <1>16, <1>19 DEF WakeInv

LEMMA SyncDoneWake ==
  ASSUME PoolInv, WakeInv, NEW t \in Threads, SyncDone(t)
  PROVE  WakeInv'
  <1> DEFINE f == [Top(t) EXCEPT !.own = NoGroup, !.pc = "body"]
             n == Len(frames[t])
  <1>1. /\ frames[t] # <<>> /\ Top(t).pc = "sync" /\ Top(t) \in FrameType
        /\ n \in DOMAIN frames[t] /\ Top(t) = frames[t][n]
    BY AtFacts, TopFacts DEF SyncDone, PoolInv
  <1>2. UNCHANGED <<worker, workStack, stop, count, link>> /\ alive' = alive \ {Top(t).own}
    BY DEF SyncDone, pool
  <1>3. Replaces(t, f)
    BY SyncDoneInv
  <1>4. f.own = NoGroup /\ f.pc = "body" /\ f.of = Top(t).of
    BY <1>1 DEF FrameType
  <1> HIDE DEF f
  <1>5. \A w \in Workers : w \in Threads /\ w # Main
    BY ThreadFacts DEF Threads
  <1>6. \A u \in Threads : \A i \in DOMAIN frames[u] :
          /\ i \in DOMAIN frames'[u] /\ frames'[u][i].of = frames[u][i].of
          /\ IF u = t /\ i = n THEN frames'[u][i].own = NoGroup
                               ELSE frames'[u][i].own = frames[u][i].own
    <2> TAKE u \in Threads
    <2> TAKE i \in DOMAIN frames[u]
    <2>1. CASE u = t /\ i = n
      BY <1>1, <1>3, <1>4, <2>1 DEF Replaces
    <2>2. CASE ~(u = t /\ i = n)
      BY <1>3, <2>2 DEF Replaces
    <2> QED
      BY <2>1, <2>2
  <1>7. WorkersStay
    BY <1>2 DEF WorkersStay
  <1>8. \A u \in Threads : /\ DOMAIN frames'[u] = DOMAIN frames[u]
                           /\ frames'[u] = <<>> <=> frames[u] = <<>>
    BY <1>1, <1>3 DEF Replaces
  <1>9. StageInv'
    BY <1>5, <1>7, <1>8, StageKept DEF WakeInv
  <1>10. WaitInv'
    <2> SUFFICES ASSUME NEW u \in Threads, frames'[u] # <<>>, Top(u)'.pc = "waiting"
                 PROVE  count'[Top(u)'.own] # 0
      BY DEF WaitInv
    <2>1. u # t
      BY <1>3, <1>4 DEF Replaces
    <2> QED
      BY <1>2, <1>3, <2>1 DEF Replaces, Top, WakeInv, WaitInv
  <1>11. NestInv'
    BY <1>5, <1>6, <1>8 DEF WakeInv, NestInv
  <1>12. OpenInv'
    <2> SUFFICES ASSUME NEW h \in alive' PROVE \E u \in Threads : OpenedBy(u, h)'
      BY DEF OpenInv
    <2>1. PICK u \in Threads : OpenedBy(u, h)
      BY <1>2 DEF WakeInv, OpenInv
    <2>2. PICK i \in DOMAIN frames[u] : frames[u][i].own = h
      BY <2>1 DEF OpenedBy
    <2>3. ~(u = t /\ i = n)
      BY <1>1, <1>2, <2>2
    <2> QED
      BY <1>6, <2>2, <2>3 DEF OpenedBy
  <1>13. FatalInv'
    BY <1>2, <1>5, <1>6, <1>8 DEF WakeInv, FatalInv
  <1>14. StopInv'
    <2> SUFFICES ASSUME stop PROVE StopInv'
      BY <1>2 DEF StopInv
    <2>1. \A u \in Threads : Ending(u) => Ending(u)'
      BY <1>1, <1>3 DEF Ending, Replaces, Top
    <2>2. CASE link # "nested" /\ \E w \in Workers : Ending(w)
      BY <1>2, <1>5, <2>1, <2>2 DEF StopInv
    <2>3. CASE workStack = <<>> /\ (\A w \in Workers : frames[w] = <<>>) /\ Ending(Main)
      BY <1>2, <1>5, <1>8, <2>1, <2>3, ThreadFacts DEF StopInv
    <2> QED
      BY <2>2, <2>3 DEF WakeInv, StopInv
  <1>15. SomeActive => SomeActive'
    BY <1>1, <1>2, <1>3, <1>4, <1>7, <1>9, GoActive
  <1>16. \A u \in Threads : AboutToNotify(u) => AboutToNotify(u)'
    BY <1>1, <1>3, NotifyKept
  <1>17. \A w \in Workers : \A h \in Groups : OpenedBy(w, h)' => OpenedBy(w, h)
    <2> TAKE w \in Workers
    <2> TAKE h \in Groups
    <2> HAVE OpenedBy(w, h)'
    <2>1. PICK i \in DOMAIN frames'[w] : frames'[w][i].own = h
      BY DEF OpenedBy
    <2>2. h # NoGroup
      BY DEF Groups, NoGroup
    <2> QED
      BY <1>5, <1>6, <1>8, <2>1, <2>2 DEF OpenedBy
  <1>18. \A k \in DOMAIN workStack : workStack[k] \in Groups
    BY QueuedIsAlive
  <1>19. QueueInv' /\ NotifyInv'
    BY <1>2, <1>15, <1>16, <1>17, <1>18, QueueKept
  <1> QED
    BY <1>9, <1>10, <1>11, <1>12, <1>13, <1>14, <1>19 DEF WakeInv

LEMMA DecWake ==
  ASSUME PoolInv, WakeInv, PoolInv', NEW t \in Threads, Dec(t)
  PROVE  WakeInv'
  <1> DEFINE n == Len(frames[t])
  <1>1. /\ frames[t] # <<>> /\ Top(t).pc = "dec" /\ Top(t) \in FrameType /\ Sound(t, Top(t))
        /\ n \in DOMAIN frames[t] /\ Top(t) = frames[t][n]
    BY AtFacts, TopFacts DEF Dec, PoolInv
  <1>2. PICK G \in Groups : G = Top(t).of
    BY <1>1, ThreadFacts DEF Sound
  <1>3. CountsDown(t, G)
    BY <1>2, DecCountsDown
  <1>4. /\ count' = [count EXCEPT ![G] = @ - 1]
        /\ UNCHANGED <<worker, workStack, stop, alive, link>>
    BY <1>2 DEF Dec, pool
  <1>5. t \in Workers /\ \A w \in Workers : w \in Threads
    BY <1>1, ThreadFacts DEF Sound, Threads
  <1>6. \A u \in Threads : /\ DOMAIN frames'[u] = DOMAIN frames[u]
                           /\ Len(frames'[u]) = Len(frames[u])
                           /\ frames'[u] = <<>> <=> frames[u] = <<>>
    <2>1. \A u \in Threads : /\ DOMAIN frames'[u] = DOMAIN frames[u]
                             /\ Len(frames'[u]) = Len(frames[u])
      BY <1>3 DEF CountsDown
    <2>2. \A u \in Threads : frames'[u] \in Seq(FrameType) /\ frames[u] \in Seq(FrameType)
      BY DEF PoolInv, PoolTypeOK
    <2> QED
      BY <2>1, <2>2, EmptySeq
  <1>7. \A u \in Threads : \A i \in DOMAIN frames[u] :
          /\ frames'[u][i].of = frames[u][i].of /\ frames'[u][i].own = frames[u][i].own
          /\ u = t /\ i = n => frames'[u][i].pc = "unlock"
          /\ ~(u = t /\ i = n) =>
               IF count[G] = 1 /\ frames[u][i].own = G /\ frames[u][i].pc = "waiting"
                 THEN frames'[u][i].pc = "sync" ELSE frames'[u][i] = frames[u][i]
    <2> TAKE u \in Threads
    <2> TAKE i \in DOMAIN frames[u]
    <2>1. frames[u][i] \in FrameType
      BY ElementOfSeq, LenProperties DEF PoolInv, PoolTypeOK
    <2>2. CASE u = t /\ i = n
      BY <1>3, <2>1, <2>2 DEF CountsDown, FrameType
    <2>3. CASE ~(u = t /\ i = n)
      <3>1. CASE count[G] = 1 /\ frames[u][i].own = G /\ frames[u][i].pc = "waiting"
        <4>1. frames'[u][i] = [frames[u][i] EXCEPT !.pc = "sync"]
          BY <1>3, <2>3, <3>1 DEF CountsDown
        <4> QED
          BY <2>1, <2>3, <3>1, <4>1 DEF FrameType
      <3>2. CASE ~(count[G] = 1 /\ frames[u][i].own = G /\ frames[u][i].pc = "waiting")
        <4>1. frames'[u][i] = frames[u][i]
          BY <1>3, <2>3, <3>2 DEF CountsDown
        <4> QED
          BY <2>3, <3>2, <4>1
      <3> QED
        BY <3>1, <3>2
    <2> QED
      BY <2>2, <2>3
  <1>8. Kept
    BY <1>6, <1>7 DEF Kept
  <1>9. NestInv' /\ OpenInv' /\ FatalInv'
    BY <1>4, <1>8, KeptNesting DEF WakeInv
  <1>10. WorkersStay
    BY <1>4 DEF WorkersStay
  <1>11. StageInv'
    BY <1>5, <1>6, <1>10, StageKept DEF WakeInv
  <1>12. \A u \in Threads : frames[u] # <<>> =>
           /\ Len(frames[u]) \in DOMAIN frames[u] /\ Top(u) = frames[u][Len(frames[u])]
           /\ Top(u)' = frames'[u][Len(frames[u])]
    BY <1>6, TopFacts DEF PoolInv, Top, Last
  <1>13. WaitInv'
    <2> SUFFICES ASSUME NEW u \in Threads, frames'[u] # <<>>, Top(u)'.pc = "waiting"
                 PROVE  count'[Top(u)'.own] # 0
      BY DEF WaitInv
    <2> DEFINE k == Len(frames[u])
    <2>1. frames[u] # <<>> /\ k \in DOMAIN frames[u] /\ Top(u) = frames[u][k] /\ Top(u)' = frames'[u][k]
      BY <1>6, <1>12
    <2>2. ~(u = t /\ k = n)
      BY <1>7, <2>1
    <2>3. Top(u)' = Top(u) /\ ~(count[G] = 1 /\ Top(u).own = G)
      BY <1>7, <2>1, <2>2
    <2>4. Top(u).own \in Groups /\ count[Top(u).own] # 0
      BY <2>1, <2>3, TopFacts DEF PoolInv, FrameInv, Sound, FrameType, Groups, NoGroup, WakeInv, WaitInv
    <2>5. count[Top(u).own] \in Nat /\ count[G] \in Nat
      BY <2>4, CountIsNat
    <2>6. count'[Top(u).own] # 0
      BY <1>4, <2>3, <2>4, <2>5 DEF PoolInv, PoolTypeOK
    <2> QED
      BY <2>3, <2>6
  <1>14. StopInv'
    <2> SUFFICES ASSUME stop PROVE StopInv'
      BY <1>4 DEF StopInv
    <2>1. PICK w \in Workers : link # "nested" /\ Ending(w)
      BY <1>1, <1>5 DEF WakeInv, StopInv
    <2>2. w # t /\ frames[w] # <<>> /\ w \in Threads /\ Top(w).pc \in {"stopping", "join"}
      BY <1>1, <1>5, <2>1 DEF Ending
    <2>3. Top(w)' = Top(w)
      BY <1>7, <1>12, <2>2
    <2> QED
      BY <1>4, <1>6, <2>1, <2>2, <2>3 DEF StopInv, Ending
  <1>15. SomeActive'
    BY <1>1, <1>5, <1>6, <1>7, <1>11, <1>12, TaskServes
  <1> QED
    BY <1>9, <1>11, <1>13, <1>14, <1>15, ActiveServes DEF WakeInv

LEMMA DecUnlockWake ==
  ASSUME PoolInv, WakeInv, PoolInv', NEW t \in Threads, DecUnlock(t)
  PROVE  WakeInv'
  <1> DEFINE n == Len(frames[t])
  <1>1. /\ frames[t] # <<>> /\ Top(t).pc = "unlock" /\ Sound(t, Top(t))
        /\ n \in DOMAIN frames[t] /\ Top(t) = frames[t][n] /\ n \in Nat
    BY AtFacts, TopFacts DEF DecUnlock, PoolInv
  <1>2. Pops(t)
    BY UnlockPops
  <1>3. UNCHANGED <<worker, workStack, stop, count, alive, link>>
    BY DEF DecUnlock, pool
  <1>4. t \in Workers /\ \A w \in Workers : w \in Threads /\ w # Main
    BY <1>1, ThreadFacts DEF Sound, Threads
  <1>5. \A u \in Threads : \A i \in DOMAIN frames'[u] :
          i \in DOMAIN frames[u] /\ frames'[u][i] = frames[u][i]
    BY <1>2 DEF Pops
  <1>6. worker[t] = "loop"
    BY <1>1, <1>4 DEF WakeInv, StageInv
  <1>7. StageInv'
    BY <1>2, <1>3, <1>4, <1>6 DEF Pops, WakeInv, StageInv
  <1>8. ASSUME frames'[t] # <<>> PROVE Top(t)'.pc = "help"
    <2>1. frames'[t] \in Seq(FrameType)
      BY <1>2 DEF Pops
    <2>2. Len(frames'[t]) \in DOMAIN frames'[t]
      BY <1>8, <2>1, LenProperties, EmptySeq
    <2>3. Top(t)' = frames'[t][Len(frames'[t])]
      BY DEF Top, Last
    <2> QED
      BY <1>2, <1>5, <2>2, <2>3 DEF Pops, PoolInv, FrameInv
  <1>9. WaitInv'
    <2> SUFFICES ASSUME NEW u \in Threads, frames'[u] # <<>>, Top(u)'.pc = "waiting"
                 PROVE  count'[Top(u)'.own] # 0
      BY DEF WaitInv
    <2>1. u # t
      BY <1>8
    <2> QED
      BY <1>2, <1>3, <2>1 DEF Pops, Top, WakeInv, WaitInv
  <1>10. NestInv'
    BY <1>4, <1>5 DEF WakeInv, NestInv
  <1>11. OpenInv'
    <2> SUFFICES ASSUME NEW h \in alive PROVE \E u \in Threads : OpenedBy(u, h)'
      BY <1>3 DEF OpenInv
    <2>1. PICK u \in Threads : OpenedBy(u, h)
      BY DEF WakeInv, OpenInv
    <2>2. PICK i \in DOMAIN frames[u] : frames[u][i].own = h
      BY <2>1 DEF OpenedBy
    <2>3. h # NoGroup
      BY DEF PoolInv, PoolTypeOK, Groups, NoGroup
    <2>4. ~(u = t /\ i = n)
      BY <1>1, <2>2, <2>3 DEF Sound
    <2>5. i \in DOMAIN frames'[u]
      BY <1>2, <2>2, <2>4 DEF Pops
    <2> QED
      BY <1>5, <2>2, <2>5 DEF OpenedBy
  <1>12. FatalInv'
    BY <1>3, <1>4, <1>5 DEF WakeInv, FatalInv
  <1>13. StopInv'
    <2> SUFFICES ASSUME stop PROVE StopInv'
      BY <1>3 DEF StopInv
    <2>1. PICK w \in Workers : link # "nested" /\ Ending(w)
      BY <1>1, <1>4 DEF WakeInv, StopInv
    <2>2. w # t
      BY <1>1, <2>1 DEF Ending
    <2> QED
      BY <1>2, <1>3, <1>4, <2>1, <2>2 DEF StopInv, Ending, Pops, Top
  <1>14. SomeActive'
    BY <1>3, <1>4, <1>6, <1>8 DEF SomeActive, Active, Blocked
  <1> QED
    BY <1>7, <1>9, <1>10, <1>11, <1>12, <1>13, <1>14, ActiveServes DEF WakeInv

LEMMA StopWake ==
  ASSUME PoolInv, WakeInv, NEW t \in Threads, Stop(t)
  PROVE  WakeInv'
  <1>1. /\ frames[t] # <<>> /\ Top(t).pc = "body" /\ Sound(t, Top(t))
        /\ (t \in Workers => link # "nested")
    BY AtFacts, ThreadFacts DEF Stop, MayStop
  <1>2. UNCHANGED <<worker, workStack, count, alive, link>>
    BY DEF Stop, latches
  <1>3. CASE stop
    <2>1. UNCHANGED <<frames, stop>>
      BY <1>3 DEF Stop
    <2> QED
      BY <1>2, <2>1 DEF WakeInv, StageInv, WaitInv, NestInv, OpenInv, FatalInv, StopInv, QueueInv,
           NotifyInv, SomeActive, Active, Blocked, AboutToNotify, Ending, OpenedBy, Top
  <1>4. CASE ~stop
    <2> DEFINE f == [Top(t) EXCEPT !.pc = "stopping"]
    <2>1. stop' = TRUE /\ Go(t, "stopping") /\ "stopping" \in Pcs
      BY <1>4 DEF Stop, Pcs
    <2>2. WorkersStay
      BY <1>2, <2>1 DEF WorkersStay
    <2>3. /\ Replaces(t, f) /\ Kept /\ frames'[t] # <<>> /\ Top(t)'.pc = "stopping"
          /\ StageInv' /\ WaitInv' /\ NestInv' /\ OpenInv' /\ FatalInv'
      BY <1>1, <1>2, <2>1, <2>2, GoWake
    <2> HIDE DEF f
    <2>4. Ending(t)'
      BY <2>3 DEF Ending
    <2>5. CASE t \in Workers
      <3>1. StopInv'
        BY <1>1, <1>2, <2>4, <2>5 DEF StopInv
      <3> QED
        BY <2>3, <2>5, <3>1, TaskServes, ActiveServes DEF WakeInv
    <2>6. CASE t = Main
      <3>1. workStack = <<>> /\ \A w \in Workers : frames[w] = <<>>
        BY <1>1, <2>6, MainAlone DEF WakeInv, Sound
      <3>2. \A w \in Workers : frames'[w] = <<>>
        BY <2>3, <3>1 DEF Kept, Threads
      <3>3. StopInv'
        BY <1>2, <2>4, <2>6, <3>1, <3>2 DEF StopInv
      <3> QED
        BY <1>2, <2>3, <3>1, <3>3, EmptyQueueServed DEF WakeInv
    <2> QED
      BY <2>5, <2>6, ThreadFacts
  <1> QED
    BY <1>3, <1>4

LEMMA NotifyAllWake ==
  ASSUME PoolInv, WakeInv, NEW t \in Threads, NotifyAll(t)
  PROVE  WakeInv'
  <1> DEFINE f == [Top(t) EXCEPT !.pc = "join"]
  <1>1. /\ frames[t] # <<>> /\ Top(t).pc = "stopping" /\ Top(t) \in FrameType
    BY AtFacts DEF NotifyAll
  <1>2. UNCHANGED <<workStack, count, alive, stop, link>> /\ Go(t, "join") /\ "join" \in Pcs
    BY DEF NotifyAll, latches, Pcs
  <1>3. WorkersStay
    BY <1>2 DEF NotifyAll, WorkersStay
  <1>4. /\ Replaces(t, f) /\ Kept /\ frames'[t] # <<>> /\ Top(t)'.pc = "join"
        /\ StageInv' /\ WaitInv' /\ NestInv' /\ OpenInv' /\ FatalInv' /\ StopInv'
    BY <1>1, <1>2, <1>3, GoWake
  <1>5. f.pc = "join"
    BY <1>1 DEF FrameType
  <1> HIDE DEF f
  <1>6. SomeActive => SomeActive'
    BY <1>1, <1>2, <1>3, <1>4, <1>5, GoActive
  <1>7. \A u \in Threads : AboutToNotify(u) => AboutToNotify(u)'
    BY <1>1, <1>4, NotifyKept
  <1>8. \A w \in Workers : \A g \in Groups : OpenedBy(w, g)' => OpenedBy(w, g)
    BY <1>2, <1>4, KeptNesting DEF WakeInv, Threads
  <1>9. \A k \in DOMAIN workStack : workStack[k] \in Groups
    BY QueuedIsAlive
  <1> QED
    BY <1>2, <1>4, <1>6, <1>7, <1>8, <1>9, QueueKept DEF WakeInv

\* The steps of the loops: only the state of a worker changes.
LEMMA LoopWake ==
  ASSUME PoolInv, WakeInv, UNCHANGED <<frames, workStack, latches, stop, link>>,
         CreateThread \/ (\E w \in Workers : Sleep(w) \/ ExitLoop(w)) \/ UNCHANGED worker
  PROVE  WakeInv'
  <1>1. WaitInv' /\ NestInv' /\ OpenInv' /\ FatalInv' /\ StopInv'
    BY DEF WakeInv, WaitInv, NestInv, OpenInv, FatalInv, StopInv, Ending, OpenedBy, Top, latches
  <1>2. \A w \in Workers : Blocked(w)' <=> Blocked(w)
    BY DEF Blocked, Top, latches
  <1>3. /\ \A u \in Threads : AboutToNotify(u)' <=> AboutToNotify(u)
        /\ \A w \in Workers : \A g \in Groups : OpenedBy(w, g)' => OpenedBy(w, g)
    BY DEF AboutToNotify, OpenedBy, Top
  <1>4. \A k \in DOMAIN workStack : workStack[k] \in Groups
    BY QueuedIsAlive
  <1>5. CASE CreateThread \/ UNCHANGED worker
    <2>1. \A w \in Workers : worker'[w] = worker[w] \/ worker'[w] = "loop"
      BY <1>5 DEF CreateThread, PoolInv, PoolTypeOK
    <2>2. StageInv'
      <3>1. 0 \in Workers
        BY PoolAssumption DEF Workers
      <3> QED
        BY <2>1, <3>1 DEF WakeInv, StageInv
    <2>3. SomeActive => SomeActive'
      BY <1>2, <2>1 DEF SomeActive, Active
    <2> QED
      BY <1>1, <1>3, <1>4, <2>2, <2>3, QueueKept DEF WakeInv
  <1>6. CASE \E w \in Workers : Sleep(w)
    <2>1. PICK w \in Workers : Sleep(w)
      BY <1>6
    <2>2. workStack = <<>> /\ frames[w] = <<>> /\ worker' = [worker EXCEPT ![w] = "asleep"]
      BY <2>1 DEF Sleep, Idle
    <2>3. StageInv'
      BY <2>2 DEF WakeInv, StageInv, PoolInv, PoolTypeOK
    <2> QED
      BY <1>1, <2>2, <2>3, EmptyQueueServed DEF WakeInv
  <1>7. CASE \E w \in Workers : ExitLoop(w)
    <2>1. PICK w \in Workers : ExitLoop(w)
      BY <1>7
    <2>2. stop /\ frames[w] = <<>> /\ worker' = [worker EXCEPT ![w] = "exited"]
      BY <2>1 DEF ExitLoop, Idle
    <2>3. StageInv'
      BY <2>2 DEF WakeInv, StageInv, PoolInv, PoolTypeOK
    <2>4. CASE workStack = <<>>
      BY <1>1, <2>3, <2>4, EmptyQueueServed DEF WakeInv
    <2>5. CASE workStack # <<>>
      <3>1. PICK v \in Workers : Ending(v)
        BY <2>2, <2>5 DEF WakeInv, StopInv
      <3>2. frames'[v] # <<>> /\ Top(v)'.pc \notin {"sync", "waiting"}
        BY <3>1 DEF Ending, Top
      <3> QED
        BY <1>1, <2>3, <3>2, TaskServes, ActiveServes DEF WakeInv
    <2> QED
      BY <2>4, <2>5
  <1> QED
    BY <1>5, <1>6, <1>7

LEMMA WakeInit == Init => WakeInv
  <1> SUFFICES ASSUME Init PROVE WakeInv
    OBVIOUS
  <1> DEFINE f == Frame(NoGroup, NoGroup, "body")
  <1>1. workStack = <<>> /\ stop = FALSE /\ alive = {} /\ worker[0] = "creating"
    BY PoolAssumption DEF Init, Workers
  <1>2. \A w \in Workers : frames[w] = <<>>
    BY ThreadFacts DEF Init, Threads
  <1>3. Top(Main).pc = "body"
    <2>1. frames[Main] = <<f>>
      BY ThreadFacts DEF Init
    <2>2. f.pc = "body"
      BY DEF Frame
    <2> HIDE DEF f
    <2>3. Last(<<f>>) = f
      BY DEF Last
    <2> QED
      BY <2>1, <2>2, <2>3 DEF Top
  <1>4. \A w \in Workers : DOMAIN frames[w] = {}
    BY <1>2
  <1>5. DOMAIN workStack = {}
    BY <1>1
  <1>6. WaitInv
    BY <1>2, <1>3, ThreadFacts DEF WaitInv
  <1> QED
    BY <1>1, <1>2, <1>4, <1>5, <1>6 DEF WakeInv, StageInv, NestInv, OpenInv, FatalInv, StopInv,
         QueueInv, NotifyInv

LEMMA WakeStep == PoolInv /\ PoolInv' /\ WakeInv /\ [Next]_vars => WakeInv'
  <1> SUFFICES ASSUME PoolInv, PoolInv', WakeInv, [Next]_vars PROVE WakeInv'
    OBVIOUS
  <1>1. CASE CreateThread
    BY <1>1, LoopWake DEF CreateThread
  <1>2. CASE \E w \in Workers : WorkerLoop(w)
    <2>1. PICK w \in Workers : Take(w) \/ Sleep(w) \/ ExitLoop(w)
      BY <1>2 DEF WorkerLoop
    <2>2. CASE Take(w)
      BY <2>2, TakeWake
    <2>3. CASE Sleep(w) \/ ExitLoop(w)
      <3>1. UNCHANGED <<frames, workStack, latches, stop, link>>
        BY <2>3 DEF Sleep, ExitLoop
      <3> QED
        BY <2>3, <3>1, LoopWake
    <2> QED
      BY <2>1, <2>2, <2>3
  <1>3. CASE \E t \in Threads : Run(t)
    <2>1. PICK t \in Threads : Run(t)
      BY <1>3
    <2>2. CASE OpenGroup(t) \/ SpawnInc(t) \/ SpawnPush(t) \/ SpawnNotify(t)
      BY <2>2, OpenGroupWake, SpawnIncWake, SpawnPushWake, SpawnNotifyWake
    <2>3. CASE CloseGroup(t) \/ HelpCheck(t) \/ SyncWait(t) \/ EndTask(t)
      BY <2>3, MoveWake
    <2>4. CASE HelpRun(t) \/ SyncDone(t) \/ Dec(t) \/ DecUnlock(t)
      BY <2>4, HelpRunWake, SyncDoneWake, DecWake, DecUnlockWake
    <2>5. CASE Stop(t) \/ NotifyAll(t)
      BY <2>5, StopWake, NotifyAllWake
    <2>6. CASE Join(t)
      BY <2>6, LoopWake DEF Join, pool
    <2> QED
      BY <2>1, <2>2, <2>3, <2>4, <2>5, <2>6 DEF Run
  <1>4. CASE UNCHANGED vars
    BY <1>4, LoopWake DEF vars, pool
  <1> QED
    BY <1>1, <1>2, <1>3, <1>4 DEF Next

\* What the waiting threads rely on holds in every reachable state.
THEOREM WakeInvariance == Spec => []WakeInv
  BY PoolInvariance, WakeInit, WakeStep, PTL DEF Spec

\* While an item is queued a worker is awake that does not wait at a latch, or a thread is
\* about to notify one, with any number of threads, groups and tasks (add, work, helpSync).
THEOREM NoLostWakeupHolds == Spec => []NoLostWakeup
  <1>1. WakeInv => NoLostWakeup
    <2> SUFFICES ASSUME WakeInv, workStack # <<>>, ~over PROVE NoLostWakeup
      BY DEF NoLostWakeup
    <2>1. CASE \E t \in Threads : AboutToNotify(t)
      BY <2>1 DEF AboutToNotify, NoLostWakeup, At
    <2>2. CASE SomeActive
      <3>1. PICK w \in Workers : worker[w] \in {"creating", "loop"} /\ ~Blocked(w)
        BY <2>2 DEF SomeActive, Active
      <3>2. ~At(w, "waiting")
        BY <3>1 DEF At, Blocked, WakeInv, WaitInv, Threads
      <3> QED
        BY <3>1, <3>2 DEF NoLostWakeup
    <2> QED
      BY <2>1, <2>2 DEF WakeInv, NotifyInv
  <1> QED
    BY <1>1, WakeInvariance, PTL
=============================================================================
