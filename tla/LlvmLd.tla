------------------------------- MODULE LlvmLd -------------------------------
(***************************************************************************)
(* The C ABI of llvm-ld (src/llvm_ld.cpp): llvm_ld_invoke and the profiler *)
(* entry points, called by any number of host threads, with the            *)
(* atomic_flag `invoking` that admits one caller at a time and the         *)
(* `poisoned` flag that closes the library once LLD's state is unsafe.     *)
(* One action per atomic operation, so that calls interleave as they do in *)
(* the code.  The linker behind the ABI is module LldMain.                 *)
(***************************************************************************)
EXTENDS LldMain

VARIABLES
  invoking,  \* std::atomic_flag invoking
  poisoned,  \* std::atomic<bool> poisoned
  pc,        \* where each frame is inside an ABI function
  request,   \* the request a frame was called with
  ret,       \* the status a frame returned, or is about to return; "none" before
  dhat,      \* the DHAT profiler of the allocator is collecting
  late       \* history: poisoned was already set when the frame was called

abiVars == <<invoking, poisoned, pc, request, ret, dhat, late>>
vars == <<lldVars, abiVars>>

\* What of a request decides the control flow of llvm_ld_invoke.
Requests == {"malformed", "badArgv", "badDriver", "noArgs", "winlink", "mingw"}
ProfilerCalls == {"start", "stop", "badProfiler"}

Codes == {"OK", "INVALID", "BUSY", "POISONED", "EXCEPTION", "UNSUPPORTED"}

PCs == {"idle", "load", "acquire", "args", "lld", "poison", "unlock",
        "profAcquire", "profiler", "returned"}

\* A frame between test_and_set and the destructor of Unlock.
Holding == {"args", "lld", "poison", "unlock", "profiler"}

Init ==
  /\ LldInit
  /\ invoking = FALSE
  /\ poisoned = FALSE
  /\ pc = [f \in Frames |-> "idle"]
  /\ request = [f \in Frames |-> "none"]
  /\ ret = [f \in Frames |-> "none"]
  /\ dhat = FALSE
  /\ late = [f \in Frames |-> FALSE]

\* The activation that a callback of f would start, and the one f runs inside.
Inner(f) == <<f[1], f[2] + 1>>
Outer(f) == <<f[1], f[2] - 1>>

\* A thread starts its outermost call when it likes, a nested one from a callback.
Callable(f) ==
  /\ exited = "no"
  /\ pc[f] = "idle"
  /\ f[2] # 1 => InCallback(Outer(f))

\* A frame runs only while no callback of it is inside the library.
Running(f) ==
  /\ exited = "no"
  /\ Inner(f) \in Frames => pc[Inner(f)] = "idle"

At(f, place) == Running(f) /\ pc[f] = place
Go(f, place) == pc' = [pc EXCEPT ![f] = place]
Status(f, code) == ret' = [ret EXCEPT ![f] = code]
Return(f, code) == Go(f, "returned") /\ Status(f, code)

----------------------------------------------------------------------------
(* llvm_ld_invoke *)

\* The argument checks before any shared state is read.
Invoke(f, q) ==
  /\ Callable(f)
  /\ request' = [request EXCEPT ![f] = q]
  /\ late' = [late EXCEPT ![f] = poisoned]
  /\ \/ q = "malformed" /\ Return(f, "INVALID")
     \/ q # "malformed" /\ Go(f, "load") /\ UNCHANGED ret
  /\ UNCHANGED <<lldVars, invoking, poisoned, dhat>>

\* Mutant: the poison flag is not consulted.
LoadWithoutCheck(f) ==
  /\ At(f, "load")
  /\ Go(f, "acquire")
  /\ UNCHANGED <<lldVars, invoking, poisoned, request, ret, dhat, late>>

\* if (poisoned.load(acquire)) return LLVM_LD_E_POISONED
LoadPoisoned(f) ==
  /\ At(f, "load")
  /\ \/ poisoned /\ Return(f, "POISONED")
     \/ ~poisoned /\ Go(f, "acquire") /\ UNCHANGED ret
  /\ UNCHANGED <<lldVars, invoking, poisoned, request, dhat, late>>

\* Mutant: the flag is set, but its old value is not looked at.
SetWithoutTest(f) ==
  /\ At(f, "acquire")
  /\ invoking' = TRUE
  /\ Go(f, "args")
  /\ UNCHANGED <<lldVars, poisoned, request, ret, dhat, late>>

\* Mutant: the caller waits for the flag instead of returning LLVM_LD_E_BUSY.
SpinLock(f) ==
  /\ At(f, "acquire")
  /\ ~invoking
  /\ invoking' = TRUE
  /\ Go(f, "args")
  /\ UNCHANGED <<lldVars, poisoned, request, ret, dhat, late>>

\* if (invoking.test_and_set(acquire)) return LLVM_LD_E_BUSY
TestAndSet(f) ==
  /\ At(f, "acquire")
  /\ invoking' = TRUE
  /\ \/ invoking /\ Return(f, "BUSY")
     \/ ~invoking /\ Go(f, "args") /\ UNCHANGED ret
  /\ UNCHANGED <<lldVars, poisoned, request, dhat, late>>

\* The try block up to lldMain: copying may throw, an argument may be invalid
\* UTF-8, the driver may be unknown.
CopyArgs(f) ==
  /\ At(f, "args")
  /\ \/ /\ request[f] \in {"badArgv", "badDriver"}
        /\ Go(f, "unlock")
        /\ Status(f, "INVALID")
        /\ UNCHANGED lldVars
     \/ /\ Go(f, "poison")
        /\ Status(f, "EXCEPTION")
        /\ UNCHANGED lldVars
     \/ /\ request[f] \in {"noArgs", "winlink", "mingw"}
        /\ Go(f, "lld")
        /\ EnterLldMain(f)
        /\ UNCHANGED ret
  /\ UNCHANGED <<invoking, poisoned, request, dhat, late>>

\* The drivers the request registers with lldMain.
DriversOf(q) == {d \in {"coff", "mingw"} : q = "noArgs" \/ <<q, d>> \in
                                          {<<"winlink", "coff">>, <<"mingw", "mingw">>}}

\* A step of lldMain on behalf of f.
LldStep(f) ==
  /\ At(f, "lld")
  /\ \/ WhichDriver(f, DriversOf(request[f]), request[f] = "noArgs")
     \/ MinGWLink(f)
     \/ CoffLink(f)
     \/ UnsafeDestroy(f)
     \/ FinalDestroy(f)
  /\ UNCHANGED abiVars

\* Mutant: the catch clause does not poison.
CatchWithoutPoison(f) ==
  /\ At(f, "lld")
  /\ LeaveLldMain(f)
  /\ Status(f, IF rpc[f] = "done" THEN "OK" ELSE "EXCEPTION")
  /\ Go(f, "unlock")
  /\ UNCHANGED <<invoking, poisoned, request, dhat, late>>

\* lldMain is left: by a result, whose canRunAgain decides, or by an exception.
FinishInvoke(f) ==
  /\ At(f, "lld")
  /\ LeaveLldMain(f)
  /\ \/ /\ rpc[f] = "done"
        /\ Status(f, "OK")
        /\ Go(f, IF result[f].canRunAgain THEN "unlock" ELSE "poison")
     \/ /\ rpc[f] = "thrown"
        /\ Status(f, "EXCEPTION")
        /\ Go(f, "poison")
  /\ UNCHANGED <<invoking, poisoned, request, dhat, late>>

\* poisoned.store(true, release)
StorePoisoned(f) ==
  /\ At(f, "poison")
  /\ poisoned' = TRUE
  /\ Go(f, "unlock")
  /\ UNCHANGED <<lldVars, invoking, request, ret, dhat, late>>

\* ~Unlock(): invoking.clear(release), and the function returns.
Unlock(f) ==
  /\ At(f, "unlock")
  /\ invoking' = FALSE
  /\ Go(f, "returned")
  /\ UNCHANGED <<lldVars, poisoned, request, ret, dhat, late>>

\* The caller has read the status and the result; the frame is gone.
Collect(f) ==
  /\ At(f, "returned")
  /\ Go(f, "idle")
  /\ request' = [request EXCEPT ![f] = "none"]
  /\ Status(f, "none")
  /\ late' = [late EXCEPT ![f] = FALSE]
  /\ Report(f, 0, TRUE)
  /\ UNCHANGED <<lctx, rpc, exited, invoking, poisoned, dhat>>

----------------------------------------------------------------------------
(* llvm_ld_profiler_start and llvm_ld_profiler_stop *)

CallProfiler(f, q) ==
  /\ Callable(f)
  /\ request' = [request EXCEPT ![f] = q]
  /\ late' = [late EXCEPT ![f] = poisoned]
  /\ Go(f, "profAcquire")
  /\ UNCHANGED <<lldVars, invoking, poisoned, ret, dhat>>

\* Mutant: the profiler entry points do not take the flag.
ProfilerWithoutFlag(f) ==
  /\ At(f, "profAcquire")
  /\ Go(f, "profiler")
  /\ UNCHANGED <<lldVars, invoking, poisoned, request, ret, dhat, late>>

ProfilerTestAndSet(f) ==
  /\ At(f, "profAcquire")
  /\ invoking' = TRUE
  /\ \/ invoking /\ Return(f, "BUSY")
     \/ ~invoking /\ Go(f, "profiler") /\ UNCHANGED ret
  /\ UNCHANGED <<lldVars, poisoned, request, dhat, late>>

\* mi_dhat_start may fail; the sampled profiler is compiled out by default.
ToggleProfiler(f) ==
  /\ At(f, "profiler")
  /\ Go(f, "unlock")
  /\ \/ /\ request[f] = "start"
        /\ \/ dhat' = TRUE /\ Status(f, "OK")
           \/ UNCHANGED dhat /\ Status(f, "EXCEPTION")
     \/ /\ request[f] = "stop"
        /\ dhat' = FALSE
        /\ Status(f, "OK")
     \/ /\ request[f] = "badProfiler"
        /\ UNCHANGED dhat
        /\ \E code \in {"INVALID", "UNSUPPORTED"} : Status(f, code)
  /\ UNCHANGED <<lldVars, invoking, poisoned, request, late>>

----------------------------------------------------------------------------
Step(f) ==
  \/ LoadPoisoned(f)
  \/ TestAndSet(f)
  \/ CopyArgs(f)
  \/ LldStep(f)
  \/ FinishInvoke(f)
  \/ StorePoisoned(f)
  \/ Unlock(f)
  \/ Collect(f)
  \/ ProfilerTestAndSet(f)
  \/ ToggleProfiler(f)

Call(f) ==
  \/ \E q \in Requests : Invoke(f, q)
  \/ \E q \in ProfilerCalls : CallProfiler(f, q)

Next == \E f \in Frames : Call(f) \/ Step(f)

Spec == Init /\ [][Next]_vars

(***************************************************************************)
(* Threads are scheduled, so a frame that can always step does.  Strong    *)
(* fairness for the linker: a link writes finitely many diagnostics, so    *)
(* its callbacks cannot keep it from going on forever.                     *)
(***************************************************************************)
Fairness == \A f \in Frames : WF_vars(Step(f)) /\ SF_vars(LldStep(f))

FairSpec == Spec /\ Fairness

TypeOK ==
  /\ LldTypeOK
  /\ invoking \in BOOLEAN
  /\ poisoned \in BOOLEAN
  /\ pc \in [Frames -> PCs]
  /\ request \in [Frames -> Requests \cup ProfilerCalls \cup {"none"}]
  /\ ret \in [Frames -> Codes \cup {"none"}]
  /\ dhat \in BOOLEAN
  /\ late \in [Frames -> BOOLEAN]
----------------------------------------------------------------------------
\* One caller at a time: the flag is set exactly while one frame is between
\* test_and_set and the destructor of Unlock (llvm_ld.cpp, struct Unlock).
MutualExclusion ==
  /\ \A f, g \in Frames : pc[f] \in Holding /\ pc[g] \in Holding => f = g
  /\ invoking <=> \E f \in Frames : pc[f] \in Holding

\* The process-wide context that a running driver uses is the one its own call
\* built: no other call replaces or destroys it (CommonLinkerContext.cpp, lctx).
OwnsContext == \A f \in Frames : InCallback(f) => lctx = f

\* While the library admits calls (flag clear, not poisoned) LLD's global state is
\* pristine: every call that leaves a context behind also poisons.
PristineWhenOpen == ~invoking /\ ~poisoned => lctx = NoCtx

\* A call made after the library is poisoned never reaches the flag or the linker.
RejectsLateCalls ==
  \A f \in Frames :
    late[f] => pc[f] \notin {"acquire", "args", "lld", "poison"}

\* A call made from a diagnostic callback never gets hold of the library, so it
\* cannot corrupt the link it interrupts.
NestedNeverHolds == \A f \in Frames : f[2] > 1 => pc[f] \notin Holding

\* A caller that was told the linker is unusable (can_run_again = 0, or
\* LLVM_LD_E_EXCEPTION from llvm_ld_invoke) finds the library already poisoned.
ToldUnsafeIsPoisoned ==
  \A f \in Frames :
    (/\ pc[f] = "returned"
     /\ request[f] \notin ProfilerCalls
     /\ ret[f] = "EXCEPTION" \/ (ret[f] = "OK" /\ ~result[f].canRunAgain))
    => poisoned

\* A profiler is never switched while a link is allocating.
ProfilerQuiescent ==
  [][dhat' # dhat => \A f \in Frames : rpc[f] = "out"]_vars

\* Every call returns to its caller; a nested call cannot deadlock on the outer one.
CallsReturn ==
  \A f \in Frames : pc[f] # "idle" ~> (pc[f] = "returned" \/ exited # "no")

\* What README.md promises: once LLD reported unsafe state, no call enters it again.
NoEntryOncePoisoned ==
  [][\A f \in Frames : rpc[f] = "out" /\ rpc'[f] # "out" => ~poisoned]_vars
=============================================================================
