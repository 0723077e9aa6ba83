------------------------------ MODULE PdbMerge ------------------------------
(***************************************************************************)
(* The symbol part of PDBLinker::addObjectsToPDB as patched for speed: one *)
(* DebugSHandler per source, analyze() on all of them with parallelFor,    *)
(* then finish() on each, serially and in input order.  analyze() must not *)
(* touch shared state; an object whose relocations have to be sorted would *)
(* allocate from the shared arena, so it is analysed in finish() instead.  *)
(* The tasks of parallelFor are module ParallelFor; index i of the loop is *)
(* handler i.                                                              *)
(***************************************************************************)
EXTENDS ParallelFor, Sequences, SequencesExt

CONSTANT ObjectKinds  \* see PdbSerial

\* The frame data, the file checksums and the string table of a source need not be there.
ASSUME KindsAssumption ==
  \A o \in ObjectKinds :
    /\ {o.usable, o.sorted, o.readable, o.broken} \subseteq BOOLEAN
    /\ o.globals \in Seq(STRING)
    /\ o.files \in Seq(STRING)

VARIABLES
  objs,      \* the sources
  doing,     \* what each thread of control does: a step of analyze or finish, for an object
  staged,    \* pendingGlobals of each handler
  deferred,  \* analysisDeferred of each handler
  arena,     \* threads that are inside an allocation from bAlloc()
  finished,  \* handlers finished so far
  globals, strings, files, fpo,  \* the shared builders, as in PdbSerial
  exited     \* the process was terminated: by nobody, by fatal or exitOnErr

pdbVars ==
  <<objs, doing, staged, deferred, arena, finished, globals, strings, files, fpo, exited>>
vars == <<pforVars, pdbVars>>

\* The thread that called addObjectsToPDB, and the tasks.
Main == 0
Actors == {Main} \cup Tasks

Serial == INSTANCE PdbSerial WITH next <- finished, dead <- exited

NoObject == -1
Idle == [step |-> "idle", obj |-> NoObject]

Init ==
  /\ PForInit
  /\ objs \in [Items -> ObjectKinds]
  /\ doing = [a \in Actors |-> Idle]
  /\ staged = [i \in Items |-> <<>>]
  /\ deferred = [i \in Items |-> FALSE]
  /\ arena = {}
  /\ finished = 0
  /\ globals = <<>>
  /\ strings = <<"">>
  /\ files = <<>>
  /\ fpo = [old |-> <<>>, new |-> <<>>]
  /\ exited = FALSE

Do(a, step, i) == doing' = [doing EXCEPT ![a] = [step |-> step, obj |-> i]]
At(a, step) == ~exited /\ doing[a].step = step

builders == <<globals, strings, files, fpo>>

----------------------------------------------------------------------------
(* DebugSHandler::analyze *)

\* Mutant: unsorted relocations do not defer the analysis.
BeginWithoutDeferring(a, i) ==
  /\ At(a, "idle")
  /\ Do(a, IF objs[i].usable THEN "read" ELSE "left", i)
  /\ UNCHANGED <<objs, staged, deferred, arena, finished, builders, exited>>

\* The handler may be null; unsorted relocations defer the analysis to finish().
BeginAnalyze(a, i) ==
  /\ At(a, "idle")
  /\ Do(a, IF objs[i].usable /\ objs[i].sorted THEN "read" ELSE "left", i)
  /\ deferred' = [deferred EXCEPT ![i] = objs[i].usable /\ ~objs[i].sorted]
  /\ UNCHANGED <<objs, staged, arena, finished, builders, exited>>

\* A body of the parallel loop, and of the serial one.
TaskBegins(w) == BeginItem(w) /\ BeginAnalyze(w, at[w])

SerialBegins ==
  /\ caller = "serial"
  /\ spawned < NumItems
  /\ BeginAnalyze(Main, spawned)
  /\ UNCHANGED pforVars

\* handleDebugS: exitOnErr(readArray) ends the process, on whichever thread.
ReadSections(a) ==
  /\ At(a, "read")
  /\ IF objs[doing[a].obj].readable
       THEN Do(a, "sort", doing[a].obj) /\ UNCHANGED exited
       ELSE exited' = TRUE /\ UNCHANGED doing
  /\ UNCHANGED <<pforVars, objs, staged, deferred, arena, finished, builders>>

\* sortRelocations: only unsorted relocations are copied, into the shared arena.
SortRelocations(a) ==
  /\ At(a, "sort")
  /\ IF objs[doing[a].obj].sorted
       THEN Do(a, "stage", doing[a].obj) /\ UNCHANGED arena
       ELSE Do(a, "alloc", doing[a].obj) /\ arena' = arena \cup {a}
  /\ UNCHANGED <<pforVars, objs, staged, deferred, finished, builders, exited>>

EndAllocate(a) ==
  /\ At(a, "alloc")
  /\ arena' = arena \ {a}
  /\ Do(a, "stage", doing[a].obj)
  /\ UNCHANGED <<pforVars, objs, staged, deferred, finished, builders, exited>>

\* Mutant: a task adds the record to the GSI builder itself.
StagePublishes(a) ==
  LET i == doing[a].obj IN
  /\ At(a, "stage")
  /\ Len(staged[i]) < Len(objs[i].globals)
  /\ staged' = [staged EXCEPT ![i] = Append(@, <<i, objs[i].globals[Len(@) + 1]>>)]
  /\ globals' = Append(globals, <<i, objs[i].globals[Len(staged[i]) + 1]>>)
  /\ UNCHANGED <<pforVars, objs, doing, deferred, arena, finished, strings, files, fpo, exited>>

\* analyzeSymbolSubsection: the next global record is staged in the handler.
StageGlobal(a) ==
  LET i == doing[a].obj IN
  /\ At(a, "stage")
  /\ Len(staged[i]) < Len(objs[i].globals)
  /\ staged' = [staged EXCEPT ![i] = Append(@, <<i, objs[i].globals[Len(@) + 1]>>)]
  /\ UNCHANGED <<pforVars, objs, doing, deferred, arena, finished, builders, exited>>

\* The end of analyzeChunks: back to the loop, or, in finish(), on to publishing.
EndAnalyze(a) ==
  LET i == doing[a].obj IN
  /\ At(a, "stage")
  /\ Len(staged[i]) = Len(objs[i].globals)
  /\ Do(a, IF caller = "returned" THEN "publish" ELSE "left", i)
  /\ UNCHANGED <<pforVars, objs, staged, deferred, arena, finished, builders, exited>>

\* The body of the loop is left.
LeaveBody(a) ==
  /\ At(a, "left")
  /\ doing' = [doing EXCEPT ![a] = Idle]
  /\ IF a = Main THEN SerialItem ELSE EndItem(a)
  /\ UNCHANGED <<objs, staged, deferred, arena, finished, builders, exited>>

----------------------------------------------------------------------------
(* DebugSHandler::finish, for each handler in input order *)

StartFinish ==
  /\ caller = "returned"
  /\ At(Main, "idle")
  /\ finished < NumItems
  /\ IF objs[finished].usable
       THEN /\ Do(Main, IF deferred[finished] THEN "read" ELSE "publish", finished)
            /\ UNCHANGED finished
       ELSE finished' = finished + 1 /\ UNCHANGED doing
  /\ UNCHANGED <<pforVars, objs, staged, deferred, arena, builders, exited>>

\* The staged records and the contents of .debug$F sections are copied into the shared
\* arena, when there are any.
CopyRecords ==
  /\ At(Main, "publish")
  /\ Do(Main, "fill", finished)
  /\ arena' = IF staged[finished] # <<>> \/ objs[finished].fpo # <<>>
                THEN arena \cup {Main} ELSE arena
  /\ UNCHANGED <<pforVars, objs, staged, deferred, finished, builders, exited>>

\* Mutant: the handler is left where it is.
PublishStays ==
  /\ At(Main, "fill")
  /\ arena' = arena \ {Main}
  /\ doing' = [doing EXCEPT ![Main] = Idle]
  /\ UNCHANGED <<pforVars, objs, staged, deferred, finished, builders, exited>>

\* The staged globals go to the GSI builder and old frame data to the DBI builder; then
\* come new frame data, strings and files, or the end of the process.
Publish ==
  LET i == finished
      o == objs[i]
  IN  /\ At(Main, "fill")
      /\ globals' = globals \o staged[i]
      /\ staged' = [staged EXCEPT ![i] = <<>>]
      /\ arena' = arena \ {Main}
      /\ strings' = Serial!StringsWith(o, strings)
      /\ files' = Serial!FilesWith(i, o, files)
      /\ fpo' = Serial!FpoWith(i, o, fpo)
      /\ IF Serial!EndsFinish(o)
           THEN exited' = TRUE /\ UNCHANGED <<finished, doing>>
           ELSE /\ finished' = finished + 1
                /\ doing' = [doing EXCEPT ![Main] = Idle]
                /\ UNCHANGED exited
      /\ UNCHANGED <<pforVars, objs, deferred>>

----------------------------------------------------------------------------
\* The steps of the loop that are not the body.
LoopStep ==
  /\ ~exited
  /\ \/ Enter \/ Spawn \/ EndSpawn \/ Sync \/ SerialReturn
     \/ \E w \in Tasks : FetchAdd(w) \/ EndChunk(w) \/ Dec(w)
  /\ UNCHANGED pdbVars

Analyze(a) ==
  \/ ReadSections(a) \/ SortRelocations(a) \/ EndAllocate(a)
  \/ StageGlobal(a) \/ EndAnalyze(a) \/ LeaveBody(a)

Next ==
  \/ LoopStep
  \/ \E w \in Tasks : TaskBegins(w)
  \/ SerialBegins
  \/ \E a \in Actors : Analyze(a)
  \/ StartFinish
  \/ CopyRecords
  \/ Publish

Spec == Init /\ [][Next]_vars

\* Every thread that can run does; nothing here waits except on the latch.
FairSpec == Spec /\ WF_vars(Next)

----------------------------------------------------------------------------
\* The linker with parallel analysis implements the serial one: whatever the scheduling,
\* the shared builders are filled object by object, in input order, with the same
\* contents (README.md: "the linker produces byte-identical output").
ImplementsSerial == Serial!SerialSpec

\* The shared bump allocator is not thread-safe: it is only used by the calling
\* thread, and only when no task is analysing (DebugSHandler::analyze, finish).
ArenaIsSerial ==
  arena # {} => arena = {Main} /\ \A w \in Tasks : doing[w] = Idle

\* Merging comes to an end: everything is published, or a malformed object ended it.
Completes == <>(exited \/ finished = NumItems)
=============================================================================
