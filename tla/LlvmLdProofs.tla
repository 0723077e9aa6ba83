---------------------------- MODULE LlvmLdProofs ----------------------------
(***************************************************************************)
(* Proofs about the C ABI for any number of threads, any nesting depth and *)
(* both settings of crash recovery.                                        *)
(***************************************************************************)
EXTENDS LlvmLd, TLAPS

\* A frame is inside lldMain exactly when its ABI call is at the lldMain call.
InLldIsInside == \A f \in Frames : rpc[f] # "out" <=> pc[f] = "lld"

\* A nested call exists only inside a callback of the call around it.
NestedInside ==
  \A f \in Frames : f[2] > 1 /\ pc[f] # "idle" => InCallback(Outer(f))

\* f has a context to dispose of, or is on its way to poison the library.
Dirty(f) ==
  \/ rpc[f] \in {"mingw", "coff", "destroy", "thrown"}
  \/ rpc[f] = "done" /\ ~result[f].canRunAgain
  \/ pc[f] = "poison"

\* A context outlives the call that built it only if the library is poisoned.
ContextAccounted ==
  poisoned \/ lctx = NoCtx \/ \E f \in Frames : Dirty(f)

LateIsPoisoned == \A f \in Frames : late[f] => poisoned

\* The statuses that announce an unusable linker are set after the poison flag.
UnsafeStatusIsPoisoned ==
  \A f \in Frames :
    (/\ pc[f] \in {"unlock", "returned"}
     /\ request[f] \notin ProfilerCalls
     /\ ret[f] = "EXCEPTION" \/ (ret[f] = "OK" /\ ~result[f].canRunAgain))
    => poisoned

ProfilerRequests ==
  \A f \in Frames :
    pc[f] \in {"profAcquire", "profiler"} => request[f] \in ProfilerCalls

\* The inductive invariant.
LockInv == MutualExclusion /\ InLldIsInside /\ NestedInside
ContextInv == OwnsContext /\ ContextAccounted
PoisonInv ==
  LateIsPoisoned /\ UnsafeStatusIsPoisoned /\ ProfilerRequests /\ RejectsLateCalls
IInv == TypeOK /\ LockInv /\ ContextInv /\ PoisonInv

----------------------------------------------------------------------------
\* Frames nest: the frame a nested frame runs inside is a frame, and its inner one.
LEMMA FrameNesting ==
  \A f \in Frames : f[2] > 1 => Outer(f) \in Frames /\ Inner(Outer(f)) = f
  BY DepthAssumption DEF Frames, Inner, Outer

\* The initial state satisfies the invariant.
LEMMA InitInv == Init => IInv
  <1> SUFFICES ASSUME Init PROVE IInv
    OBVIOUS
  <1> USE DEF Init, LldInit
  <1>1. TypeOK
    BY DEF TypeOK, LldTypeOK, Places, Results, ExitCauses, PCs
  <1>2. LockInv
    BY DEF LockInv, MutualExclusion, InLldIsInside, NestedInside, Holding
  <1>3. ContextInv
    BY DEF ContextInv, OwnsContext, ContextAccounted, InCallback
  <1>4. PoisonInv
    BY DEF PoisonInv, LateIsPoisoned, UnsafeStatusIsPoisoned, ProfilerRequests,
           RejectsLateCalls
  <1> QED BY <1>1, <1>2, <1>3, <1>4 DEF IInv

----------------------------------------------------------------------------
\* A nested frame is not the frame around it, and depth 1 is the outermost.
LEMMA FrameDepth ==
  \A f \in Frames : f[2] >= 1 /\ Outer(f) # f /\ (f[2] # 1 => f[2] > 1)
  BY DepthAssumption DEF Frames, Outer

\* While f runs, no activation nested in f is inside the library.
LEMMA NoInnerActive ==
  ASSUME NEW f \in Frames, Running(f), NEW g \in Frames, g[2] > 1, pc[g] # "idle"
  PROVE  Outer(g) # f
  BY FrameNesting DEF Running

\* What the linker reports is a result.
LEMMA ReportType ==
  ASSUME NEW f \in Frames, result \in [Frames -> Results],
         NEW code \in {0, 1}, NEW again \in BOOLEAN, Report(f, code, again)
  PROVE  result' \in [Frames -> Results]
  <1>1. [retCode |-> code, canRunAgain |-> again] \in Results
    BY DEF Results
  <1> QED BY <1>1 DEF Report

\* Leaving abnormally, and returning from a driver, keep the linker's types.
LEMMA AbortType ==
  ASSUME LldTypeOK, NEW f \in Frames, NEW why \in ExitCauses, Abort(f, why)
  PROVE  LldTypeOK'
  <1>1. CASE CrashRecoveryEnabled
    BY <1>1, ReportType DEF LldTypeOK, Abort, GoTo, Places
  <1>2. CASE ~CrashRecoveryEnabled
    BY <1>2 DEF LldTypeOK, Abort
  <1> QED BY <1>1, <1>2

LEMMA DriverReturnsType ==
  ASSUME LldTypeOK, NEW f \in Frames, NEW r \in {0, 1}, DriverReturns(f, r), UNCHANGED lctx
  PROVE  LldTypeOK'
  BY ReportType DEF LldTypeOK, DriverReturns, GoTo, Places

\* Every step of the linker keeps its types.
LEMMA LldStepType ==
  ASSUME LldTypeOK, NEW f \in Frames, LldStep(f)
  PROVE  LldTypeOK'
  <1>1. CASE WhichDriver(f, DriversOf(request[f]), request[f] = "noArgs")
    <2>1. ASSUME NEW d \in DriversOf(request[f]), GoTo(f, d), lctx' = f,
                 UNCHANGED <<result, exited>>
          PROVE  LldTypeOK'
      BY <2>1 DEF DriversOf, LldTypeOK, GoTo, Places
    <2>2. CASE DriverReturns(f, 1) /\ UNCHANGED lctx
      BY <2>2, DriverReturnsType
    <2>3. CASE Abort(f, "crash")
      BY <2>3, AbortType DEF ExitCauses
    <2> QED BY <1>1, <2>1, <2>2, <2>3 DEF WhichDriver
  <1>2. CASE MinGWLink(f) \/ CoffLink(f)
    <2>1. ASSUME NEW r \in {0, 1}, DriverReturns(f, r), UNCHANGED lctx
          PROVE  LldTypeOK'
      BY <2>1, DriverReturnsType
    <2>2. CASE GoTo(f, "coff") /\ lctx' = f /\ UNCHANGED <<result, exited>>
      BY <2>2 DEF LldTypeOK, GoTo, Places
    <2>3. CASE Abort(f, "fatal")
      BY <2>3, AbortType DEF ExitCauses
    <2>4. CASE AbortOnWorker \/ Throw(f)
      BY <2>4 DEF LldTypeOK, AbortOnWorker, Throw, GoTo, Places, ExitCauses
    <2> QED BY <1>2, <2>1, <2>2, <2>3, <2>4 DEF MinGWLink, CoffLink
  <1>3. CASE UnsafeDestroy(f) \/ FinalDestroy(f)
    <2>1. CASE Abort(f, "crash")
      BY <2>1, AbortType DEF ExitCauses
    <2>2. CASE lctx' = NoCtx /\ UNCHANGED <<result, exited>>
               /\ (GoTo(f, "recheck") \/ GoTo(f, "done"))
      BY <2>2 DEF LldTypeOK, GoTo, Places
    <2> QED BY <1>3, <2>1, <2>2 DEF UnsafeDestroy, FinalDestroy, DestroyContext
  <1> QED BY <1>1, <1>2, <1>3 DEF LldStep

\* Steps and calls keep every variable in its type.
LEMMA TypeStep == TypeOK /\ [Next]_vars => TypeOK'
  <1> SUFFICES ASSUME TypeOK, [Next]_vars PROVE TypeOK'
    OBVIOUS
  <1> USE DEF TypeOK, LldTypeOK
  <1>1. CASE UNCHANGED vars
    BY <1>1 DEF vars, lldVars, abiVars
  <1>2. ASSUME NEW f \in Frames, Call(f) PROVE TypeOK'
    <2>1. ASSUME NEW q \in Requests, Invoke(f, q) PROVE TypeOK'
      BY <2>1 DEF Invoke, Return, Go, Status, PCs, Codes, lldVars
    <2>2. ASSUME NEW q \in ProfilerCalls, CallProfiler(f, q) PROVE TypeOK'
      BY <2>2 DEF CallProfiler, Go, PCs, lldVars
    <2> QED BY <1>2, <2>1, <2>2 DEF Call
  <1>3. ASSUME NEW f \in Frames, Step(f) PROVE TypeOK'
    <2>1. CASE LoadPoisoned(f)
      BY <2>1 DEF LoadPoisoned, Return, Go, Status, PCs, Codes, lldVars
    <2>2. CASE TestAndSet(f)
      BY <2>2 DEF TestAndSet, Return, Go, Status, PCs, Codes, lldVars
    <2>3. CASE CopyArgs(f)
      BY <2>3 DEF CopyArgs, EnterLldMain, GoTo, Go, Status, PCs, Codes, Places, lldVars
    <2>4. CASE LldStep(f)
      BY <2>4, LldStepType DEF LldStep, abiVars
    <2>5. CASE FinishInvoke(f)
      BY <2>5 DEF FinishInvoke, LeaveLldMain, GoTo, Go, Status, PCs, Codes, Places
    <2>6. CASE StorePoisoned(f) \/ Unlock(f)
      BY <2>6 DEF StorePoisoned, Unlock, Go, PCs, lldVars
    <2>7. CASE Collect(f)
      BY <2>7, ReportType DEF Collect, Go, Status, PCs
    <2>8. CASE ProfilerTestAndSet(f) \/ ToggleProfiler(f)
      BY <2>8, ZenonT(30)
      DEF ProfilerTestAndSet, ToggleProfiler, Return, Go, Status, PCs, Codes, lldVars
    <2> QED
      BY <1>3, <2>1, <2>2, <2>3, <2>4, <2>5, <2>6, <2>7, <2>8 DEF Step
  <1> QED BY <1>1, <1>2, <1>3 DEF Next

----------------------------------------------------------------------------
\* A step of the linker moves one frame inside lldMain, which stays inside.
LEMMA LldStepFrame ==
  ASSUME TypeOK, NEW f \in Frames, LldStep(f)
  PROVE  /\ UNCHANGED abiVars
         /\ Running(f)
         /\ pc[f] = "lld"
         /\ \A g \in Frames : g # f => rpc'[g] = rpc[g] /\ result'[g] = result[g]
         /\ rpc[f] # "out" /\ rpc'[f] # "out"
  <1> USE DEF TypeOK, LldTypeOK
  <1>1. UNCHANGED abiVars /\ Running(f) /\ pc[f] = "lld"
    BY DEF LldStep, At
  <1>2. CASE WhichDriver(f, DriversOf(request[f]), request[f] = "noArgs")
    BY <1>1, <1>2 DEF WhichDriver, DriversOf, DriverReturns, Abort, GoTo, Report
  <1>3. CASE MinGWLink(f)
    BY <1>1, <1>3 DEF MinGWLink, DriverReturns, Abort, Throw, GoTo, Report
  <1>4. CASE CoffLink(f)
    BY <1>1, <1>4 DEF CoffLink, DriverReturns, Abort, AbortOnWorker, Throw, GoTo, Report
  <1>5. CASE UnsafeDestroy(f) \/ FinalDestroy(f)
    BY <1>1, <1>5 DEF UnsafeDestroy, FinalDestroy, DestroyContext, Abort, GoTo, Report
  <1> QED BY <1>2, <1>3, <1>4, <1>5 DEF LldStep

\* A frame that holds the flag is the only one, so no other is inside lldMain.
LEMMA HolderIsAlone ==
  ASSUME LockInv, NEW f \in Frames, pc[f] \in Holding
  PROVE  /\ invoking
         /\ \A g \in Frames : g # f => pc[g] \notin Holding /\ rpc[g] = "out"
  BY DEF LockInv, MutualExclusion, InLldIsInside, Holding

\* Without a holder nobody is inside lldMain.
LEMMA OpenIsEmpty ==
  ASSUME LockInv, ~invoking
  PROVE  \A g \in Frames : pc[g] \notin Holding /\ rpc[g] = "out"
  BY DEF LockInv, MutualExclusion, InLldIsInside, Holding

\* The flag, the frames inside lldMain and the nesting of calls stay consistent.
LEMMA LockStep == TypeOK /\ LockInv /\ [Next]_vars => LockInv'
  <1> SUFFICES ASSUME TypeOK, LockInv, [Next]_vars PROVE LockInv'
    OBVIOUS
  <1>1. CASE UNCHANGED vars
    BY <1>1 DEF vars, lldVars, abiVars, LockInv, MutualExclusion, InLldIsInside,
                NestedInside, InCallback
  <1>2. ASSUME NEW f \in Frames, Call(f) PROVE LockInv'
    <2>1. /\ UNCHANGED <<rpc, invoking>>
          /\ \E place \in {"load", "profAcquire", "returned"} :
               pc' = [pc EXCEPT ![f] = place]
          /\ pc[f] = "idle"
          /\ f[2] # 1 => InCallback(Outer(f))
      BY <1>2 DEF Call, Invoke, CallProfiler, Callable, Go, Return, lldVars
    <2>2. MutualExclusion'
      BY <2>1 DEF TypeOK, LockInv, MutualExclusion, Holding
    <2>3. InLldIsInside'
      BY <2>1 DEF TypeOK, LockInv, InLldIsInside
    <2>4. NestedInside'
      BY <2>1, FrameDepth DEF TypeOK, LockInv, NestedInside, InCallback
    <2> QED BY <2>2, <2>3, <2>4 DEF LockInv
  <1>3. ASSUME NEW f \in Frames, Step(f) PROVE LockInv'
    <2>1. Running(f)
      BY <1>3 DEF Step, LoadPoisoned, TestAndSet, CopyArgs, LldStep, FinishInvoke,
                  StorePoisoned, Unlock, Collect, ProfilerTestAndSet, ToggleProfiler, At
    <2>2. \A g \in Frames : g[2] > 1 /\ pc[g] # "idle" => Outer(g) \in Frames /\ Outer(g) # f
      BY <2>1, NoInnerActive, FrameNesting
    \* It is enough that only f moves, and to look at f.
    <2>3. ASSUME NEW place \in PCs, pc' = [pc EXCEPT ![f] = place],
                 \A g \in Frames : g # f => rpc'[g] = rpc[g],
                 pc[f] # "idle",
                 rpc'[f] # "out" <=> place = "lld",
                 \/ place \notin Holding /\ pc[f] \notin Holding /\ invoking' = invoking
                 \/ place \in Holding /\ pc[f] \in Holding /\ invoking' = invoking
                 \/ place \in Holding /\ ~invoking /\ invoking'
                 \/ place \notin Holding /\ pc[f] \in Holding /\ ~invoking'
          PROVE  LockInv'
      <3>1. MutualExclusion'
        <4>1. \A g \in Frames : g # f => pc'[g] = pc[g]
          BY <2>3 DEF TypeOK
        <4>2. pc'[f] = place
          BY <2>3 DEF TypeOK
        <4>3. CASE place \notin Holding /\ pc[f] \notin Holding /\ invoking' = invoking
          BY <4>1, <4>2, <4>3 DEF LockInv, MutualExclusion
        <4>4. CASE place \in Holding /\ pc[f] \in Holding /\ invoking' = invoking
          BY <4>1, <4>2, <4>4, HolderIsAlone DEF MutualExclusion
        <4>5. CASE place \in Holding /\ ~invoking /\ invoking'
          BY <4>1, <4>2, <4>5, OpenIsEmpty DEF MutualExclusion
        <4>6. CASE place \notin Holding /\ pc[f] \in Holding /\ ~invoking'
          BY <4>1, <4>2, <4>6, HolderIsAlone DEF MutualExclusion
        <4> QED BY <2>3, <4>3, <4>4, <4>5, <4>6
      <3>2. InLldIsInside'
        BY <2>3 DEF TypeOK, LockInv, InLldIsInside
      <3>3. NestedInside'
        BY <2>2, <2>3, FrameDepth DEF TypeOK, LockInv, NestedInside, InCallback
      <3> QED BY <3>1, <3>2, <3>3 DEF LockInv
    <2>4. rpc[f] # "out" <=> pc[f] = "lld"
      BY DEF LockInv, InLldIsInside
    <2> USE <2>3, <2>4 DEF At, PCs, Holding, lldVars
    <2>5. CASE LoadPoisoned(f)
      BY <2>5 DEF LoadPoisoned, Return, Go
    <2>6. CASE TestAndSet(f)
      BY <2>6 DEF TestAndSet, Return, Go
    <2>7. CASE CopyArgs(f)
      BY <2>7 DEF CopyArgs, EnterLldMain, GoTo, Go, TypeOK, LldTypeOK
    <2>8. CASE LldStep(f)
      <3>1. pc' = [pc EXCEPT ![f] = "lld"]
        BY <2>8, LldStepFrame DEF abiVars, TypeOK
      <3> QED BY <2>8, <3>1, LldStepFrame DEF abiVars
    <2>9. CASE FinishInvoke(f)
      BY <2>9 DEF FinishInvoke, LeaveLldMain, GoTo, Go, TypeOK, LldTypeOK
    <2>10. CASE StorePoisoned(f) \/ Unlock(f)
      BY <2>10 DEF StorePoisoned, Unlock, Go
    <2>11. CASE Collect(f)
      BY <2>11 DEF Collect, Go
    <2>12. CASE ProfilerTestAndSet(f) \/ ToggleProfiler(f)
      BY <2>12 DEF ProfilerTestAndSet, ToggleProfiler, Return, Go
    <2> QED
      BY <1>3, <2>5, <2>6, <2>7, <2>8, <2>9, <2>10, <2>11, <2>12 DEF Step
  <1> QED BY <1>1, <1>2, <1>3 DEF Next

----------------------------------------------------------------------------
\* How a step of the linker treats the context: a driver that runs afterwards owns
\* it, and a context that is not destroyed leaves the frame dirty.
LEMMA LldStepContext ==
  ASSUME TypeOK, NEW f \in Frames, LldStep(f), OwnsContext
  PROVE  /\ InCallback(f)' => lctx' = f
         /\ \/ lctx' = NoCtx
            \/ Dirty(f)'
            \/ lctx' = lctx /\ ~Dirty(f)
            \/ UNCHANGED <<lctx, rpc, result, pc>>
  <1> USE DEF TypeOK, LldTypeOK, InCallback, OwnsContext, Dirty
  <1>1. pc[f] = "lld" /\ UNCHANGED pc
    BY DEF LldStep, At, abiVars
  <1>2. CASE WhichDriver(f, DriversOf(request[f]), request[f] = "noArgs")
    BY <1>1, <1>2 DEF WhichDriver, DriversOf, DriverReturns, Abort, GoTo, Report
  <1>3. CASE MinGWLink(f)
    BY <1>1, <1>3 DEF MinGWLink, DriverReturns, Abort, Throw, GoTo, Report
  <1>4. CASE CoffLink(f)
    BY <1>1, <1>4 DEF CoffLink, DriverReturns, Abort, AbortOnWorker, Throw, GoTo, Report
  <1>5. CASE UnsafeDestroy(f) \/ FinalDestroy(f)
    BY <1>1, <1>5 DEF UnsafeDestroy, FinalDestroy, DestroyContext, Abort, GoTo, Report
  <1> QED BY <1>2, <1>3, <1>4, <1>5 DEF LldStep

\* The context is owned while it is used and accounted for when it is left behind.
LEMMA ContextStep == TypeOK /\ LockInv /\ ContextInv /\ [Next]_vars => ContextInv'
  <1> SUFFICES ASSUME TypeOK, LockInv, ContextInv, [Next]_vars PROVE ContextInv'
    OBVIOUS
  <1>1. CASE UNCHANGED vars
    BY <1>1 DEF vars, lldVars, abiVars, ContextInv, OwnsContext, ContextAccounted,
                Dirty, InCallback
  \* Enough where the linker is untouched: f becomes dirty, or was not dirty, or poisons.
  <1>2. ASSUME NEW f \in Frames, NEW place \in PCs, pc' = [pc EXCEPT ![f] = place],
               UNCHANGED <<lctx, rpc>>, rpc[f] # "done",
               \A g \in Frames : g # f => result'[g] = result[g],
               pc[f] # "poison" \/ poisoned', poisoned => poisoned'
        PROVE  ContextInv'
    <2>1. \A g \in Frames : Dirty(g) => Dirty(g)' \/ poisoned'
      BY <1>2 DEF Dirty, TypeOK
    <2> QED BY <1>2, <2>1 DEF ContextInv, OwnsContext, ContextAccounted, InCallback
  <1>3. ASSUME NEW f \in Frames, Call(f) PROVE ContextInv'
    <2>1. rpc[f] # "done"
      BY <1>3 DEF Call, Invoke, CallProfiler, Callable, LockInv, InLldIsInside
    <2> QED
      BY <1>2, <1>3, <2>1
      DEF Call, Invoke, CallProfiler, Callable, Go, Return, lldVars, PCs
  <1>4. ASSUME NEW f \in Frames, Step(f) PROVE ContextInv'
    <2>1. pc[f] # "lld" => rpc[f] = "out"
      BY DEF LockInv, InLldIsInside
    <2>2. CASE LoadPoisoned(f) \/ TestAndSet(f)
      BY <1>2, <2>1, <2>2 DEF LoadPoisoned, TestAndSet, At, Return, Go, PCs, lldVars
    <2>3. CASE CopyArgs(f)
      <3>1. CASE UNCHANGED lldVars
        BY <1>2, <2>1, <2>3, <3>1 DEF CopyArgs, At, Go, PCs, lldVars
      <3>2. CASE EnterLldMain(f)
        <4>1. pc[f] = "args" /\ rpc[f] = "out"
          BY <2>1, <2>3 DEF CopyArgs, At
        <4>2. \A g \in Frames : g # f => rpc'[g] = rpc[g] /\ pc'[g] = pc[g]
          BY <2>3, <3>2
          DEF CopyArgs, EnterLldMain, GoTo, Go, TypeOK, LldTypeOK
        <4>3. \A g \in Frames : Dirty(g) => Dirty(g)'
          BY <3>2, <4>1, <4>2 DEF EnterLldMain, Dirty
        <4>4. \A g \in Frames : InCallback(g)' => InCallback(g)
          BY <3>2, <4>2 DEF EnterLldMain, GoTo, InCallback, TypeOK, LldTypeOK
        <4> QED
          BY <2>3, <3>2, <4>3, <4>4
          DEF CopyArgs, EnterLldMain, ContextInv, OwnsContext, ContextAccounted
      <3> QED BY <2>3, <3>1, <3>2 DEF CopyArgs
    <2>4. CASE LldStep(f)
      <3>1. pc[f] \in Holding /\ UNCHANGED <<pc, poisoned>>
        BY <2>4, LldStepFrame DEF Holding, abiVars
      <3>2. \A g \in Frames : g # f => ~Dirty(g) /\ rpc'[g] = "out"
        BY <2>4, <3>1, HolderIsAlone, LldStepFrame DEF Dirty, Holding
      <3>3. OwnsContext'
        BY <2>4, <3>2, LldStepContext DEF ContextInv, OwnsContext, InCallback
      <3>4. ContextAccounted'
        BY <2>4, <3>1, <3>2, LldStepContext DEF ContextInv, ContextAccounted, Dirty, lldVars
      <3> QED BY <3>3, <3>4 DEF ContextInv
    <2>5. CASE FinishInvoke(f)
      <3>1. pc[f] \in Holding
        BY <2>5 DEF FinishInvoke, At, Holding
      <3>2. \A g \in Frames : g # f => ~Dirty(g) /\ rpc[g] = "out"
        BY <3>1, HolderIsAlone DEF Dirty, Holding
      <3>3. OwnsContext'
        BY <2>5, <3>2
        DEF FinishInvoke, LeaveLldMain, GoTo, OwnsContext, InCallback, TypeOK, LldTypeOK
      <3>4. CASE pc'[f] = "poison"
        BY <3>3, <3>4 DEF ContextInv, ContextAccounted, Dirty
      <3>5. CASE rpc[f] = "done" /\ result[f].canRunAgain
        BY <2>5, <3>2, <3>3, <3>5
        DEF FinishInvoke, LeaveLldMain, At, ContextInv, ContextAccounted, Dirty
      <3> QED
        BY <2>5, <3>4, <3>5 DEF FinishInvoke, Go, TypeOK
    <2>6. CASE StorePoisoned(f) \/ Unlock(f)
      BY <1>2, <2>1, <2>6 DEF StorePoisoned, Unlock, At, Go, PCs, lldVars
    <2>7. CASE Collect(f)
      BY <1>2, <2>1, <2>7 DEF Collect, Report, At, Go, PCs, TypeOK, LldTypeOK
    <2>8. CASE ProfilerTestAndSet(f) \/ ToggleProfiler(f)
      BY <1>2, <2>1, <2>8
      DEF ProfilerTestAndSet, ToggleProfiler, At, Return, Go, PCs, lldVars
    <2> QED BY <1>4, <2>2, <2>3, <2>4, <2>5, <2>6, <2>7, <2>8 DEF Step
  <1> QED BY <1>1, <1>3, <1>4 DEF Next

----------------------------------------------------------------------------
\* The poison flag is never taken back, and is set before it is announced.
LEMMA PoisonStep == TypeOK /\ LockInv /\ PoisonInv /\ [Next]_vars => PoisonInv'
  <1> SUFFICES ASSUME TypeOK, LockInv, PoisonInv, [Next]_vars PROVE PoisonInv'
    OBVIOUS
  <1>1. CASE UNCHANGED vars
    BY <1>1 DEF vars, lldVars, abiVars, PoisonInv, LateIsPoisoned,
                UnsafeStatusIsPoisoned, ProfilerRequests, RejectsLateCalls
  \* Only f moves, so it is enough to look at f.
  <1>2. ASSUME NEW f \in Frames,
               \A g \in Frames \ {f} :
                 /\ pc'[g] = pc[g] /\ request'[g] = request[g] /\ ret'[g] = ret[g]
                 /\ late'[g] = late[g] /\ result'[g] = result[g],
               poisoned => poisoned',
               late'[f] => poisoned' /\ pc'[f] \notin {"acquire", "args", "lld", "poison"},
               (/\ pc'[f] \in {"unlock", "returned"}
                /\ request'[f] \notin ProfilerCalls
                /\ ret'[f] = "EXCEPTION" \/ (ret'[f] = "OK" /\ ~result'[f].canRunAgain))
               => poisoned',
               pc'[f] \in {"profAcquire", "profiler"} => request'[f] \in ProfilerCalls
        PROVE  PoisonInv'
    <2>1. LateIsPoisoned' /\ RejectsLateCalls'
      BY <1>2 DEF PoisonInv, LateIsPoisoned, RejectsLateCalls
    <2>2. UnsafeStatusIsPoisoned'
      BY <1>2 DEF PoisonInv, UnsafeStatusIsPoisoned
    <2>3. ProfilerRequests'
      BY <1>2 DEF PoisonInv, ProfilerRequests
    <2> QED BY <2>1, <2>2, <2>3 DEF PoisonInv
  <1> USE DEF TypeOK, LldTypeOK
  <1>3. ASSUME NEW f \in Frames, Call(f) PROVE PoisonInv'
    <2>1. ASSUME NEW q \in Requests, Invoke(f, q) PROVE PoisonInv'
      BY <1>2, <2>1 DEF Invoke, Callable, Return, Go, Status, lldVars
    <2>2. ASSUME NEW q \in ProfilerCalls, CallProfiler(f, q) PROVE PoisonInv'
      BY <1>2, <2>2 DEF CallProfiler, Callable, Go, lldVars
    <2> QED BY <1>3, <2>1, <2>2 DEF Call
  <1>4. ASSUME NEW f \in Frames, Step(f) PROVE PoisonInv'
    <2>1. late[f] => poisoned /\ pc[f] \notin {"acquire", "args", "lld", "poison"}
      BY DEF PoisonInv, LateIsPoisoned, RejectsLateCalls
    <2>2. (/\ pc[f] \in {"unlock", "returned"}
           /\ request[f] \notin ProfilerCalls
           /\ ret[f] = "EXCEPTION" \/ (ret[f] = "OK" /\ ~result[f].canRunAgain))
          => poisoned
      BY DEF PoisonInv, UnsafeStatusIsPoisoned
    <2>3. pc[f] \in {"profAcquire", "profiler"} => request[f] \in ProfilerCalls
      BY DEF PoisonInv, ProfilerRequests
    <2> USE <1>2, <2>1 DEF At, Go, Status, Return, lldVars
    <2>4. CASE LoadPoisoned(f)
      BY <2>4 DEF LoadPoisoned
    <2>5. CASE TestAndSet(f)
      BY <2>5 DEF TestAndSet
    <2>6. CASE CopyArgs(f)
      BY <2>6 DEF CopyArgs, EnterLldMain
    <2>7. CASE LldStep(f)
      BY <2>7, LldStepFrame DEF abiVars
    <2>8. CASE FinishInvoke(f)
      BY <2>8 DEF FinishInvoke, LeaveLldMain
    <2>9. CASE StorePoisoned(f)
      BY <2>9 DEF StorePoisoned
    <2>10. CASE Unlock(f)
      BY <2>2, <2>10 DEF Unlock
    <2>11. CASE Collect(f)
      BY <2>11 DEF Collect, Report
    <2>12. CASE ProfilerTestAndSet(f)
      BY <2>3, <2>12 DEF ProfilerTestAndSet
    <2>13. CASE ToggleProfiler(f)
      BY <2>3, <2>13 DEF ToggleProfiler
    <2> QED
      BY <1>4, <2>4, <2>5, <2>6, <2>7, <2>8, <2>9, <2>10, <2>11, <2>12, <2>13 DEF Step
  <1> QED BY <1>1, <1>3, <1>4 DEF Next

----------------------------------------------------------------------------
\* The invariant is inductive, so it holds of every behaviour.
THEOREM Invariance == Spec => []IInv
  <1>1. IInv /\ [Next]_vars => IInv'
    BY TypeStep, LockStep, ContextStep, PoisonStep DEF IInv
  <1> QED BY <1>1, InitInv, PTL DEF Spec

\* Every variable of the ABI and of the linker keeps its type.
THEOREM TypeCorrect == Spec => []TypeOK
  <1>1. IInv => TypeOK
    BY DEF IInv
  <1> QED BY <1>1, Invariance, PTL

\* The atomic flag of llvm_ld.cpp admits one caller at a time, with any number of
\* threads and nested calls.
THEOREM MutualExclusionHolds == Spec => []MutualExclusion
  <1>1. IInv => MutualExclusion
    BY DEF IInv, LockInv
  <1> QED BY <1>1, Invariance, PTL

\* A call from a diagnostic callback finds the flag taken by the call around it.
THEOREM NestedNeverHoldsHolds == Spec => []NestedNeverHolds
  <1>1. IInv => NestedNeverHolds
    <2> SUFFICES ASSUME IInv, NEW f \in Frames, f[2] > 1, pc[f] \in Holding
                 PROVE  FALSE
      BY DEF NestedNeverHolds
    <2>1. Outer(f) \in Frames /\ Outer(f) # f
      BY FrameNesting, FrameDepth
    <2>2. InCallback(Outer(f))
      BY DEF IInv, LockInv, NestedInside, Holding
    <2>3. pc[Outer(f)] \in Holding
      BY <2>1, <2>2 DEF IInv, LockInv, InLldIsInside, InCallback, Holding
    <2> QED BY <2>1, <2>3 DEF IInv, LockInv, MutualExclusion
  <1> QED BY <1>1, Invariance, PTL

\* A running driver uses the context its own call built.
THEOREM OwnsContextHolds == Spec => []OwnsContext
  <1>1. IInv => OwnsContext
    BY DEF IInv, ContextInv
  <1> QED BY <1>1, Invariance, PTL

\* Whenever a call could be admitted and go on, LLD's global state is pristine.
THEOREM PristineWhenOpenHolds == Spec => []PristineWhenOpen
  <1>1. IInv => PristineWhenOpen
    <2> SUFFICES ASSUME IInv, ~invoking, ~poisoned PROVE lctx = NoCtx
      BY DEF PristineWhenOpen
    <2>1. \A g \in Frames : ~Dirty(g)
      BY OpenIsEmpty DEF IInv, Dirty, Holding
    <2> QED BY <2>1 DEF IInv, ContextInv, ContextAccounted
  <1> QED BY <1>1, Invariance, PTL

\* A call made after poisoning never reaches the flag or the linker.
THEOREM RejectsLateCallsHolds == Spec => []RejectsLateCalls
  <1>1. IInv => RejectsLateCalls
    BY DEF IInv, PoisonInv
  <1> QED BY <1>1, Invariance, PTL

\* A caller that is told the linker is unusable finds the library poisoned.
THEOREM ToldUnsafeIsPoisonedHolds == Spec => []ToldUnsafeIsPoisoned
  <1>1. IInv => ToldUnsafeIsPoisoned
    BY DEF IInv, PoisonInv, UnsafeStatusIsPoisoned, ToldUnsafeIsPoisoned
  <1> QED BY <1>1, Invariance, PTL

\* A profiler is only switched while nobody is inside lldMain.
THEOREM ProfilerQuiescentHolds == Spec => ProfilerQuiescent
  <1>1. IInv /\ [Next]_vars => [dhat' # dhat => \A f \in Frames : rpc[f] = "out"]_vars
    <2> SUFFICES ASSUME IInv, [Next]_vars, dhat' # dhat, NEW g \in Frames
                 PROVE  rpc[g] = "out"
      OBVIOUS
    <2>1. PICK f \in Frames : ToggleProfiler(f)
      BY DEF Next, Call, Step, Invoke, CallProfiler, LoadPoisoned, TestAndSet, CopyArgs,
             LldStep, FinishInvoke, StorePoisoned, Unlock, Collect, ProfilerTestAndSet,
             vars, abiVars
    <2>2. pc[f] = "profiler"
      BY <2>1 DEF ToggleProfiler, At
    <2> QED BY <2>2, HolderIsAlone DEF IInv, LockInv, InLldIsInside, Holding
  <1> QED BY <1>1, Invariance, PTL DEF Spec, ProfilerQuiescent
=============================================================================
