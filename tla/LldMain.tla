------------------------------ MODULE LldMain ------------------------------
(***************************************************************************)
(* lld::lldMain as a library call: driver dispatch, the process-wide       *)
(* CommonLinkerContext, the two drivers llvm-ld ships (WinLink and MinGW), *)
(* the error paths out of them (fatal, signal, C++ exception) and crash    *)
(* recovery.  A frame is one activation of the library: <<t, d>> is the    *)
(* d-th nested activation on thread t (a diagnostic callback may call the  *)
(* library again from inside lldMain).                                     *)
(*                                                                         *)
(* lctx is the static pointer of CommonLinkerContext.cpp: NoCtx (null) or  *)
(* the frame that constructed the context.  What a link computes is        *)
(* abstracted to how it ends.                                              *)
(***************************************************************************)
EXTENDS Naturals

CONSTANTS
  Threads,              \* host threads that call the library
  MaxDepth,             \* bound on nested activations of one thread
  CrashRecoveryEnabled, \* gCrashRecoveryEnabled; nothing in the repository sets it
  NoCtx                 \* lctx == nullptr

ASSUME DepthAssumption == MaxDepth \in Nat \ {0}
ASSUME RecoveryAssumption == CrashRecoveryEnabled \in BOOLEAN

Frames == Threads \X (1..MaxDepth)

ASSUME NoCtxAssumption == NoCtx \notin Frames

VARIABLES
  lctx,     \* static CommonLinkerContext *lctx
  rpc,      \* where each frame is inside lldMain
  result,   \* lld::Result of the last lldMain of each frame
  exited    \* "no", or why the host process was terminated from inside the library

lldVars == <<lctx, rpc, result, exited>>

\* Places inside lldMain; "out" means not inside.
Places == {"out", "dispatch", "mingw", "coff", "destroy", "recheck", "done", "thrown"}

ExitCauses == {"no", "fatal", "crash", "workerFatal"}

Results == [retCode : {0, 1}, canRunAgain : BOOLEAN]

LldInit ==
  /\ lctx = NoCtx
  /\ rpc = [f \in Frames |-> "out"]
  /\ result = [f \in Frames |-> [retCode |-> 0, canRunAgain |-> TRUE]]
  /\ exited = "no"

GoTo(f, place) == rpc' = [rpc EXCEPT ![f] = place]

Report(f, code, again) ==
  result' = [result EXCEPT ![f] = [retCode |-> code, canRunAgain |-> again]]

(***************************************************************************)
(* Leaving abnormally.  RunSafely catches a fatal() or a signal only while *)
(* recovery is enabled; it then returns {RetCode, false} and leaves lctx   *)
(* as it is.  Otherwise exitLld reaches ExitNoCleanup and the host dies.   *)
(***************************************************************************)
Abort(f, why) ==
  /\ IF CrashRecoveryEnabled
       THEN /\ GoTo(f, "done")
            /\ Report(f, 1, FALSE)
            /\ UNCHANGED exited
       ELSE /\ exited' = why
            /\ UNCHANGED <<rpc, result>>
  /\ UNCHANGED lctx

\* The recovery context is thread-local: fatal() on a pool thread finds none.
AbortOnWorker ==
  /\ exited' = "workerFatal"
  /\ UNCHANGED <<lctx, rpc, result>>

\* A C++ exception (thrown by a callback, or bad_alloc) passes through lldMain.
Throw(f) ==
  /\ GoTo(f, "thrown")
  /\ UNCHANGED <<lctx, result, exited>>

\* CommonLinkerContext::destroy(): a null context is left alone.
DestroyContext == lctx' = NoCtx

\* The driver returned; r is 1 for an error and 0 for none.
DriverReturns(f, r) ==
  /\ GoTo(f, "destroy")
  /\ Report(f, r, TRUE)
  /\ UNCHANGED exited

----------------------------------------------------------------------------
\* A call of lldMain enters RunSafely and unsafeLldMain.
EnterLldMain(f) ==
  /\ rpc[f] = "out"
  /\ GoTo(f, "dispatch")
  /\ UNCHANGED <<lctx, result, exited>>

(***************************************************************************)
(* whichDriver: argv[0] or -flavor names a driver.  If it is not the one   *)
(* the caller registered, a stub that returns false runs and no context is *)
(* built.  With no arguments at all argsV[0] is read out of bounds, which  *)
(* either crashes or yields some name.                                     *)
(***************************************************************************)
WhichDriver(f, drivers, noArgs) ==
  /\ rpc[f] = "dispatch"
  /\ \/ \E d \in drivers :
          /\ GoTo(f, d)
          /\ lctx' = f
          /\ UNCHANGED <<result, exited>>
     \/ /\ DriverReturns(f, 1)
        /\ UNCHANGED lctx
     \/ /\ noArgs
        /\ Abort(f, "crash")

\* mingw::link: report and return, or hand translated arguments to coff::link,
\* which builds a context of its own after the first one is destroyed.
MinGWLink(f) ==
  /\ rpc[f] = "mingw"
  /\ \/ /\ \E r \in {0, 1} : DriverReturns(f, r)
        /\ UNCHANGED lctx
     \/ /\ GoTo(f, "coff")
        /\ lctx' = f
        /\ UNCHANGED <<result, exited>>
     \/ Abort(f, "fatal")
     \/ Throw(f)

\* coff::link: the result is errorCount == 0 once linkerMain returns.
CoffLink(f) ==
  /\ rpc[f] = "coff"
  /\ \/ /\ \E r \in {0, 1} : DriverReturns(f, r)
        /\ UNCHANGED lctx
     \/ Abort(f, "fatal")
     \/ AbortOnWorker
     \/ Throw(f)

\* The destroy at the end of unsafeLldMain; a crash in a destructor aborts.
UnsafeDestroy(f) ==
  /\ rpc[f] = "destroy"
  /\ \/ /\ DestroyContext
        /\ GoTo(f, "recheck")
        /\ UNCHANGED <<result, exited>>
     \/ /\ lctx # NoCtx
        /\ Abort(f, "crash")

\* lldMain destroys once more under a recovery context of its own.
FinalDestroy(f) ==
  /\ rpc[f] = "recheck"
  /\ DestroyContext
  /\ GoTo(f, "done")
  /\ UNCHANGED <<result, exited>>

\* Control is back in the caller, by return or by exception.
LeaveLldMain(f) ==
  /\ rpc[f] \in {"done", "thrown"}
  /\ GoTo(f, "out")
  /\ UNCHANGED <<lctx, result, exited>>

\* Diagnostics are written, so callbacks can run, while a driver is running.
InCallback(f) == rpc[f] \in {"mingw", "coff"}

LldTypeOK ==
  /\ lctx \in Frames \cup {NoCtx}
  /\ rpc \in [Frames -> Places]
  /\ result \in [Frames -> Results]
  /\ exited \in ExitCauses
=============================================================================
