# llvm-ld: a TLA+ verification project

llvm-ld is a C library around LLD's WinLink and MinGW drivers, with patches that make the COFF
linker faster without changing a byte of its output, and a set of Python tools that keep the
vendored LLVM payload honest and its builds cached. This directory models the parts of it that are
hard to test: what concurrent callers can do to the library, what a parallel PDB merge, a lock-free
type table and a sharded fold may and may not change, which files and symbols a link ends up with,
what survives a tool that is killed half way, and when a restored build tree may be
trusted. TLC checks the models on small instances; TLAPS proves the main results for every
instance.

Paths below are relative to the repository root.

## 1. Inventory

| Component | State | Operations | Interacts with |
|---|---|---|---|
| C ABI, `src/llvm_ld.cpp` | atomic flag `invoking`, atomic bool `poisoned`, the allocator's profilers | `llvm_ld_invoke`, `llvm_ld_profiler_start/stop`, `llvm_ld_allocator_get_info` | host threads; host callbacks that may call back in; `lldMain` |
| Driver dispatch, `lld/Common/DriverDispatcher.cpp`, `CommonLinkerContext.cpp`, `ErrorHandler.cpp`, `lld/MinGW/Driver.cpp` | static `lctx`, crash-recovery setting | `lldMain`, `unsafeLldMain`, `destroy`, `exitLld`, `mingw::link`, `coff::link` | the ABI above, the COFF linker below |
| Symbol resolution, `lld/COFF/Driver.cpp`, `InputFiles.cpp`, `SymbolTable.cpp` | task queue, symbol map, lazy files, members already loaded | read archives, objects and lazy objects; add undefined, lazy and defined symbols; add roots until nothing is queued | each file it reads may load others |
| Garbage collection and ICF, `MarkLive.cpp`, `ICF.cpp` | live bits, worklist; section list, two copies of the class of a section | mark; hash, split classes in rounds, merge | symbol table, pool |
| COFF writer, `Writer.cpp` | chunks, output sections | lay out, relocate, write | pool, PDB writer |
| Pool and parallel loops, `llvm/lib/Support/Parallel.cpp`, `Parallel.h` | work stack, threads, `Stop`, latches, chunk counter | `TaskGroup`, `spawn`, `parallelFor`, `parallelSort`, `stop` | every parallel phase of the linker |
| PDB symbols, `lld/COFF/PDB.cpp` | per-object staging, shared string table, GSI builder, module streams | `analyze`, `finish`, `writeAllModuleSymbolRecords`, `commitSymbolStream` | pool, type merging |
| PDB types and hash streams, `DebugTypes.cpp`, `GSIStreamBuilder.cpp` | lock-free GHash table, publics and buckets | insert, remap, sort, layout | pool |
| Payload tools, `tools/materialize_llvm_payload.py`, `refresh_patched_closure.py`, `prepare_discovery_tree.py`, `merge_llvm_closures.py`, `verify.py` | `llvm-project/`, its staging tree, the closure file | materialize, refresh, discover, merge, verify | developers' edits, an upstream checkout |
| Build-tree cache, `tools/ci_build.py` | build directory, mtime manifest | key, replay, build, snapshot, all | Ninja, zccache, `ci_jobs.py` |
| CI jobs, `tools/ci_jobs.py`, `.github/actions/ci-job` | caches (compile, artifact, build tree), timing records | prepare, run, post, floor, prune | all the tools |
| Release and PGO, `tools/release_build.py`, `pgo_build.py` | build trees, profile, stamp | instrument, train, merge, optimize, package | `ci_jobs.py` |
| Benchmarks, `tools/bench_report.py`, `bench_ci.py` | reports, site, floors | render, seal, publish | `ci_jobs.py` |
| Import, audit, compare, triage tools | files | one sequential pass each | |

What is hard in each, and what makes it correct:

* **ABI.** Any thread calls at any time and a diagnostic callback may call again on the same
  thread. LLD keeps one process-wide context. Correct means: one link at a time, nothing left over
  from a link that ended badly while the library still admits calls, callers that are told the
  truth, a flag that is always released.
* **Parallel loops and pool.** State on the caller's stack is shared with tasks; workers wait for
  groups only workers can finish; the pool is stopped while it is still being created. Correct
  means: every index once, nothing used after the join, no lost wakeup, no deadlock, stop returns.
* **Symbol resolution.** What a file brings in depends on everything read before it, a lazy object
  is read in the middle of another file, and roots load files after all inputs have been read.
  Correct means: nothing that could be loaded is missing, no file is read twice, the order of the
  inputs decides neither which kind of definition prevails nor whether a conflict is reported, and
  it ends.
* **Garbage collection and ICF.** Sections keep each other alive along several kinds of edges;
  equality of sections depends on the equality of what they refer to, cycles included, and is
  computed by shards that read one copy of the classes and write the other. Correct means: exactly
  what is reachable stays, exactly what cannot be told apart is folded, into the first one, and
  nothing that stays refers to something that went.
* **Type merging.** Threads insert into one table without locks and come back to their cells after
  it was sorted. Correct means: a hash stays where it was put, the earliest record wins whatever the
  schedule, and every index in the PDB leads to the record it led to in the object.
* **PDB symbols.** Two walks over the same records must agree on sizes and offsets although records
  can be corrupt and scopes unbalanced; objects are analysed in any order and the file must come
  out as if they had not been.
* **Payload.** Tools are killed, trees are edited, the upstream tree is not what it claims. Correct
  means: no run of a tool, however it ends, costs the last copy of a patch, and what `verify.py`
  accepts is upstream except for what is declared. The code achieves both only with conditions,
  which the properties state and section 5 explains.
* **Build tree.** Ninja trusts times, and times come from a cache. Correct means: no object of
  another content is ever linked, and what replay verified is not compiled again.

PROJECT.json lists the components with their status and the hazards, line by line.

## 2. Modules

| Module | Models | Uses |
|---|---|---|
| `LldMain` | `lldMain` as a call: dispatch, context, MinGW to COFF, every way out | |
| `LlvmLd` | the ABI entry points, one action per atomic operation | `LldMain` |
| `LlvmLdProofs` | proofs about `LlvmLd` | |
| `ParallelFor` | `llvm::parallelFor` with chunk counter and latch | |
| `ThreadPool`, `ThreadPoolProofs` | `ThreadPoolExecutor`, `TaskGroup`, `Latch`, and the proofs | |
| `PdbSymbols` | the two walks over one object's symbol records | |
| `PdbSerial` | what the symbol merge promises: object by object, in order | |
| `PdbMerge` | the patched merge: parallel `analyze`, serial `finish` | `ParallelFor`, implements `PdbSerial` |
| `PdbProofs` | proofs about `ParallelFor`, `PdbMerge` (the refinement included) and `PdbSymbols` | |
| `SymbolTable`, `SymbolTableProofs` | the driver's queue, reading of files, symbol replacement and loading, and the proofs | |
| `MarkLive` | `markLive` | |
| `ICF` | `ICF::run` on what `MarkLive` left | `MarkLive` |
| `ICFProofs` | proofs about `MarkLive` and `ICF` | |
| `TypeMerge`, `TypeMergeProofs` | `TypeMerger::mergeTypesWithGHash`, and the proofs | |
| `Payload`, `PayloadProofs` | the payload tools and their proofs | |
| `BuildTree`, `BuildTreeProofs` | `ci_build.py` and the ci-linux job, and the proofs | |
| `MCPdbMerge`, `MCPayload`, `MCSymbolTable`, `MCICF`, `MCTypeMerge` | constants of the runs that need more than a .cfg | |

### LldMain and LlvmLd

A *frame* `<<t, d>>` is the d-th nested activation of the library on thread t. `pc` places a frame
in an ABI function between two atomic operations: `load` (`poisoned.load`), `acquire`
(`test_and_set`), `args`, `lld` (inside `lldMain`), `poison`, `unlock`. `rpc` places it inside
`lldMain`. `lctx` is the static pointer of CommonLinkerContext.cpp. `exited` records that the host
process was ended from inside the library. What a link computes is reduced to how it ends: success,
an error, `fatal()`, a crash, `fatal()` on a pool thread, an exception. A request is the class the
code distinguishes (malformed, bad arguments, unknown driver, no arguments, a driver); the
undefined read of `argsV[0]` for an empty argument list is a choice between a crash and any name.

`CrashRecoveryEnabled` is `gCrashRecoveryEnabled`. Nothing in the repository calls
`CrashRecoveryContext::Enable`, so the shipped value is FALSE, and then `fatal()` ends the process.
The run uses TRUE, which has strictly more to get wrong: every state of FALSE in which the process
lives is also a state of TRUE. The proofs cover both.

### ParallelFor and ThreadPool

`ParallelFor` leaves open which thread runs a task; a body is a begin and an end, so bodies
overlap. `ThreadPool` has the threads: the work stack, the condition variable (no spurious wakeup,
so that a lost notification shows), the latch with its mutex, nested groups with `helpSync`, thread
0 creating the others, `stop` by the main thread at exit or by a task that calls `fatal` (on
Windows `exitLld` reaches `llvm_shutdown`). `Links` chooses between links whose tasks open nested
groups and links whose tasks may be fatal; COFF has no task that does both. (With both, `stop()`
can wait for a worker that waits for a nested group nobody will run: worth knowing before nested
groups are used in a phase that can fail.)

### PdbSymbols, PdbSerial and PdbMerge

`PdbSymbols` takes the records of one object as the walk meets them: seven kinds, one unit long
each, in subsections whose tail may be corrupt. The first walk is `AnalyzeRecord`/`AnalyzeEnd`, the
second `WriteRecord`/`WriteEnd`, and `Commit` applies the string-table fixups. `scopeLevel` is
unsigned, modulo `DepthModulus`. A record is known by its place, the subsection and the position in
it.

`PdbSerial` is the abstract merge: globals, old and new frame data, the string table and the source
files of the modules, object by object. `PdbMerge` runs `analyze` as the body of `ParallelFor`,
defers objects whose relocations have to be sorted (sorting allocates from the shared arena), and
finishes in input order: `Publish` adds to the builders, then `CopyRecords` copies the records into
the arena. Its refinement mapping is the identity on the builders with `next` the number of finished
handlers. An object that does not parse ends the process in `analyze`, one whose checksums have no
string table, or whose frame data or file names cannot be read, in `finish`; how much of such an
object has been published by then is not told apart. Two of the `exitOnErr` calls of `finish`
(PDB.cpp:1070, :1156) are not ends: the array they read is as long as the section divided by the
size of a record, and adding a source file always succeeds.

### SymbolTable

A file is a sequence of symbols in the order of its symbol table; an archive is its index, pairs of
a name and a member. `queue` is `taskQueue`; `stack` holds the files being read, several when a
lazy object was needed in the middle of a file (`forceLazy` calls `addFile` at once, whereas an
archive member is only queued). One step per symbol. `syms` is the symbol map; replacing a symbol
forgets everything about it, the pending load included, as `replaceSymbol` does. The phases are
those of `linkerMain`: the command line, the default libraries, then the roots and what they
queued, in turn, until `run()` had nothing to do; a duplicate symbol after either of the first two
ends the link. Weak aliases are set when the file has been read, so between a weak external and
the end of its file the symbol is plainly undefined. The inputs are assumed to be what the driver
makes of its command line: no file is added twice (`findFileIfNew`, `findLibIfNew`), and the index
of an archive names what its members define. An import library's `DllMain`, which the code skips
when it reads an archive index, is thereby not in one. A root is an undefined symbol: the decorated
alias that `mangleMaybe` may give it is left out, and so are `_load_config_used`,
`/includeoptional`, the library calls of LTO, `/force`, MinGW and ARM64EC rules, `/alternatename`
and directives. Sections are not modelled, so neither is that the other external symbols of a
discarded COMDAT section become undefined, nor the `fatal` ends on malformed symbols.

### MarkLive and ICF

An input is a graph of numbered sections with the edges `markLive` follows (relocations,
associated children, entry thunks, imports and their exit thunks) and what `equalsConstant` and
`isEligible` look at. The kind of a section says whether it is COMDAT, DWARF, a string literal or
one of those that `getChunks()` does not list (`Unlisted`): CodeView and the guard tables that ICF
does not compare ("codeview"), the others such as `.gehcont$y` and `.sxdata`, which it does
("metadata"), and either when it is not COMDAT, so live from the start and never traversed ("plain
metadata"). ICF starts in the state garbage collection ends in. Classes are numbers as in
the code: the hash with the top bit `MSB`, then the end position of the class. A round is a set of
shards `<<begin, end of class, end of shard>>`, one iteration of `segregate` a step, so shards
interleave; each reads half `cnt` of `eqClass` and writes the other. Lists that the code makes by
pushing or sorting are given by rank: the n-th element is the one with n - 1 before it
(`Ascending`, `SortByHash`, and `SortDependencies` of `TypeMerge`), a form that TLC evaluates and
TLAPS can reason about.

### TypeMerge

A source is a list of records; a record is its hash, its stream and its references. Every
source inserts its records on a thread of its own: one step loads a cell and decides, another is
the compare-and-swap, which fails if the cell has changed since. `AssignIndices` is the serial part
(collect, sort, rewrite the table). Remapping is a step per source, dependencies first and in
order, the objects in any order. Precompiled headers that match, do not match or are missing, type
servers with and without an IPI stream, and a table that is full are among the inputs. The
assumption `HashesAreDeep` is what makes a global hash one: equal hashes, equal trees.

### Payload

Trees are functions from paths to contents: `up`, `bad` (a drifted upstream file), `stray` (an
undeclared edit), a version of a patched file, or none. `source` is the tree at hand as upstream,
which materialize, discovery and merge all read and none is obliged to check; `reviewed` is the
closure as it was committed. Tools run one at a time, file by file, both removals of materialize
(`Clear`, `Remove`) included; `Kill` stops any of them anywhere, and patched files may be saved
while a tool runs. `--patched-source` is the payload, the staging tree of an earlier run, or a
checkout with some version of the patches. The closure is written in place and may be left torn.
Outside the model: `--output` to a scratch directory, which touches no tree here, and the layout of
the discovery tree (prepare_discovery_tree.py:85 on), which is built and thrown away in a workspace
of its own.

### BuildTree

A file is a content and a time. One object per source. Stamping, replay and compilation visit files
one at a time, so a run can stop between any two. With `ci` each job starts from a checkout of any
commit and a restored tree (the exact key, or any other through the restore prefix, or none),
saves, builds the baseline objects, prunes; a failed job goes straight to the steps that always
run. Without it the workspace persists, files are edited, added and deleted, and `ci_build.py all`
is run again. `ci` is chosen at the start, so one run covers both. The constant `Local` says which
mishaps a local workspace meets: an edit with an old time (`"backdate"`), one of a file that no
readable manifest lists (`"backdated add"`), a file that `os.utime` cannot stamp
(`"unstamped"`), a run that stops half way (`"stop"`). A CI job may always stop and fail to stamp;
its files always have the time of the checkout. What zccache and Ninja do (`Apply`, `OpenManifest`,
`Dirty`) is external to the repository.

## 3. Runs

| Run | Instance | Shows |
|---|---|---|
| `abi` | 2 threads, nesting 2, fair | The flag admits one frame (`MutualExclusion`); a driver uses the context it built (`OwnsContext`); an open library has no left-over context (`PristineWhenOpen`); calls after poisoning get nowhere (`RejectsLateCalls`); who is told the linker is unusable finds it poisoned (`ToldUnsafeIsPoisoned`); profilers switch only between links (`ProfilerQuiescent`); calls return (`CallsReturn`) |
| `abi_reentry` | 2 threads | Violation of README.md's "permanently rejects re-entry": `poisoned` is loaded before the flag is taken |
| `parallel_for` | 17 indices, 2 threads, parallel and serial | No index runs twice (`AtMostOnce`), none is left at the join (`JoinIsComplete`), the loop ends (`Returns`) |
| `pool` | 2 workers, 3 groups, 4 tasks, nested or fatal | No task uses a latch after its group is gone (`LatchOutlivesTasks`); `NoLostWakeup`; `GroupsJoin`; `StopReturns` |
| `pdb_symbols` | up to 5 records in 2 subsections | Both walks agree (`SizesAgree`), references and fixups hit their records (`ProcRefsResolve`), `NothingLost`, `ScopesLinked` |
| `pdb_merge` | 3 objects of 7 kinds, 2 threads | `ImplementsSerial` (refinement), `ArenaIsSerial`, `Completes` |
| `type_merge` | 5 inputs of up to 5 sources and 9 records, up to 5 cells | A hash stays in its cell (`PositionsHold`), the earliest record wins (`WinnersAreFirst`), indices lead to the record they led to (`IndicesResolve`), the merge ends, and only a table that is too small stops it (`MergeFinishes`) |
| `gc_icf` | 17679 graphs of 5 sections, 2 shards from 3 sections on | `LiveIsReachable`, `FoldIsExact` (the greatest congruence, first section kept), `TargetsStayLive`, `IcfConverges` |
| `resolve` | 25969 command lines | Nothing that could be loaded is missing (`ResolutionIsComplete`), `StrongestPrevails`, `DuplicateIffConflict`, `ResolutionEnds` |
| `payload` | 3 paths (patched, plain, pruned), 2 versions of the patches, one stray edit and one drifted file at a time | A reviewed file stays upstream's in whatever `verify.py` accepts (`VerifiedIsUpstream`); a patch is only lost by a run that took its patches from another tree, or before the last save (`PatchesSurvive`); nothing is removed before its replacement is complete (`StagedIsComplete`) |
| `build` | 2 files, 2 contents, 5 ticks; CI jobs that fail anywhere, at stamping too, and a workspace with deletions, backdated edits and complete runs | `ReplayedIsSafeToSkip`, `OthersAreRebuilt`, `CachedTreesAgree`, `ReplayedStaysWarm` |
| `build_interrupted` | 6 ticks, `Local = {"stop"}` | Violation of "content-verified unchanged - safe to skip" |

Type invariants are not part of the runs: where a module has one it is proved (section 4). Deadlock
is not checked: every system here may come to rest (a host that makes no more calls, a loop that has
returned, a clock at its bound).

### Why the bounds are enough

* `abi`: two threads and one nested call give every pair of frames (other thread, same thread,
  caller and callback). The invariants relate at most two frames.
* `parallel_for`: 17 indices and 2 tasks give chunks of 2, a last chunk that is cut short, and a
  counter that runs past the end.
* `pool`: with 2 workers and 3 groups both workers can be inside nested groups while the main
  thread waits; 4 tasks leave one queued when both workers are busy and one is being pushed.
* `pdb_symbols`: two subsections and five records hold an opener, an inner record, an end and a
  neighbour before and after a dropped subsection. `DepthModulus` only has to be larger than any
  legal depth.
* `pdb_merge`: three objects give a deferred or malformed object with a neighbour on each side.
* `type_merge`: three hashes start at one cell and probe on past each other; three threads meet
  there; a table exactly as large as the number of hashes, and one too small; each kind of source
  with one it depends on.
* `gc_icf`: with 5 sections there are cycles of two and three, self references, pairs of pairs that
  are equal only because the others are, classes that split only once others have, hashes that
  collide, and with 2 shards a boundary inside what becomes two classes.
* `resolve`: all orders of up to 3 of 20 objects that define or use one name, each kind of definition
  with each other and with a weak external or a reference between; all orders of up to 5 of 9
  objects, lazy objects and archives in which members need members of the other archive, lazy
  objects need each other in the middle, weak externals override what archives offered, and roots
  and default libraries load what no object asked for.
* `payload`: one path per treatment a file can get from materialize; stray edits and drift one at a
  time, since the tools look at files one by one; two versions, so that a run can carry another one
  than was saved last. A fourth path for `--extra` of the merge, which is hashed from the tree at
  hand like what discovery adds, is beyond five minutes: `Extras` is empty here, and arbitrary in
  the proofs.
* `build`: three jobs, the third of which can bring back a file the second deleted.

### Fairness

Threads are scheduled, so a frame, task or worker that can step does: weak fairness, per thread. In
`LlvmLd` the linker's own steps get strong fairness, because a callback disables them while it runs
and a link writes finitely many diagnostics. `PdbMerge` needs only that something runs, since
nothing in it waits except for the latch, and so do `TypeMerge` and `ICF`, whose loops are
`parallelFor` (which returns, by `Returns`): a thread that lost a compare-and-swap lost it to one
that advanced. `SymbolTable` is one thread. No fairness is assumed of the tools or of CI.

## 4. Proofs

| Module | Theorems | Assumptions |
|---|---|---|
| `LlvmLdProofs` | types, `MutualExclusion`, `NestedNeverHolds`, `OwnsContext`, `PristineWhenOpen`, `RejectsLateCalls`, `ToldUnsafeIsPoisoned`, `ProfilerQuiescent` | any threads, depth at least 1, either crash-recovery setting |
| `PdbProofs` | of `ParallelFor`: types, `AtMostOnce`, `JoinIsComplete` | any number of indices, at least one pool thread |
| | of `PdbMerge`: it implements `ParallelFor` and `PdbSerial` (`ImplementsSerial`), `ArenaIsSerial` | the fields of an object have their types (`KindsAssumption`) |
| | of `PdbSymbols`: `SizesAgree`, `ProcRefsResolve`, `NothingLost`, `ScopesLinked` | any numbers of records and subsections, fewer records than `scopeLevel` has values (`BoundsAssumption`) |
| `SymbolTableProofs` | `ResolutionIsComplete`, `StrongestPrevails`, `DuplicateIffConflict` | any files, archives, command lines, default libraries and roots, with the types, archive indices and distinct inputs of section 2 (`FilesAssumption`, `EntriesAssumption`, `IndexAssumption`, `InputsAssumption`) |
| `ThreadPoolProofs` | types and accounting, `LatchOutlivesTasks`, `NoLostWakeup` | at least one worker; any groups, tasks and depth of nesting |
| `TypeMergeProofs` | `PositionsHold`, `WinnersAreFirst`, a full table only when capped (`FullOnlyWhenCapped`) | the inputs have their types (`InputsAssumption`), a table may have a cell (`MaxTableAssumption`) |
| `ICFProofs` | `LiveIsReachable`, `TargetsStayLive`, `FoldIsExact` under `Comparable`; without it that nothing foldable is left apart and the first section is kept | finitely many sections, the edges of a graph lead to sections or imports (`GraphsAssumption`), hashes and alignments are numbers, at least one shard and no more of them than `MinParallel` |
| `PayloadProofs` | types, `VerifiedIsUpstream`, `PatchesSurvive`, `StagedIsComplete` | any paths, extras and versions; no path is both patched and pruned |
| `BuildTreeProofs` | types; in CI, or locally under `Spared`, `ReplayedIsSafeToSkip`, `OthersAreRebuilt`, `CachedTreesAgree`, `ReplayedStaysWarm` | a bounded clock of any length |

**LlvmLd.** `PristineWhenOpen` is not inductive: between a failed link and the store of `poisoned`
a context is left over while the flag is still held. `ContextAccounted` says that a context that
exists has a frame that will dispose of it or poison the library, `InLldIsInside` ties `rpc` to
`pc`, and `NestedInside` says that a nested call exists only inside a callback, which is why it
finds the flag taken.

**ParallelFor.** The chunks of tasks are disjoint and below the counter (`ChunkInv`); an index has
been run exactly if it is below the counter and no task still owes it (`RanInv`); the latch is the
number of active tasks (`LatchInv`, with FiniteSetTheorems). A task ends only when the counter is
past the end, so an empty latch means no index is owed.

**PdbMerge.** A thread that analyses has as its object an index it owns in the loop (`TaskInv`,
`MainInv`), so no two threads stage for one object; what is staged is a prefix of the globals of
the object (`StagedInv`); an index that has run is deferred if it has to be, and otherwise wholly
staged (`AnalysedInv`); nothing is finished before the loop returns (`OrderInv`). With
`JoinIsComplete` every object has been analysed when `finish` starts, so publishing object after
object is what the serial linker does. That the staging of the current object is complete holds
only as long as the process lives: a malformed object ends it in the middle. The arena is used by
the calling thread alone, and only once the loop has returned: for the analysis of a deferred
object, and for the copy of the records of each.

**PdbSymbols.** The two walks never meet, so each is tied to the same count: the records of the
module stream ahead of a place, which are those of earlier readable subsections and those before it
in its own (`Before`). The first walk's offset is that count at the place it has reached, and at the
place of everything it noted (`OffsetInv`, `PendingInv`); the second walk has written that many
records, and put each where its own count says (`StreamInv`, `StorageInv`). That the walks sort
records alike needs the depth: `scopeLevel` and the height of the stack are both the openers minus
the ends so far. This fails after an end without an opener, so these parts hold for balanced
subsections, up to the first that is not. The links need no balance: the stack holds the openers of
the scopes still open, the k-th from the top at depth k (`ScopeInv`), so what an end finds on top is
the opener it closes, and what is below is the innermost scope around it (`LinksInv`).

**SymbolTable.** Each file is in one place: queued, on the stack, offered, or read (`FilesInv`), so
none is read twice. Completeness needs to know what a state still owes. A name that
is asked for is in the table, with its load pending if the symbol is lazy (`AskedInv`); a pending
load has a file that provides the name, queued, being read or read (`LazyInv`), and once it is read
`StrongInv` has the definition; and what an archive or lazy object has offered is in the table and
has been taken if it was wanted (`OfferInv`). The exception is a weak external: it puts an undefined symbol
back in the place of an offer until the end of its file sets the alias. When resolution is over,
queue and stack are empty (`OverInv`), so nothing is owed. For the order of definitions, each symbol
is described by the set of definitions met so far, those of the files read and of the part read of
each file on the stack: it is one of them and none is stronger (`StrongInv`), and a duplicate has
been reported exactly if two of them conflict (`DupsInv`).

**ThreadPool.** The count of a latch is the number of its references: queued tasks, tasks on some
thread's stack that have not counted down, and the spawn between its increment and its push
(`LatchInv`, by the cardinality theorems, with a set of tagged references). A dead latch has none
and nobody holds its mutex (`MutexInv`), which is the case that makes `Latch::dec` notify under the
lock. For `NoLostWakeup` the danger is that all workers wait at latches for what is queued. The
group a worker waits for is later than the group of the task it waits in (`NestInv`), and a latch
that is not down has a task somewhere (`WaitInv`, `LatchInv`). Take the latest group anyone waits
for: its tasks are not in a thread that waits, and the case that they are queued is the one
`QueueInv` excludes.

**TypeMerge.** From the cell a hash starts at to the cell that holds it, and to the cell where a
thread is still looking for it, every cell is occupied by another hash (`PathInv`, with the distance
taken around the table); so a hash is never in two cells, and a cell, once taken, keeps its hash and
only gets earlier records (`PlacedInv`). When all threads have returned each hash has its earliest record,
which is what a sequential merge keeps. A thread gives up only when it has been around the table:
then every cell holds another hash, and there are more hashes than cells (a count by an injection).

**MarkLive and ICF.** A live section is on the worklist, once, or what it keeps alive is live;
and every closed set has all live sections (`MarkingInv`). When the worklist is empty the live set
is closed itself, hence the least. For folding, the list of sections stays a permutation of the
sections that were eligible (`ChunksInv`), the unfinished shards are separate ranges of it
(`ShardsInv`: boundaries grow with the index because the end of a class grows with the position it
is sought from), and a section in an unfinished shard is live and stands for itself alone
(`ReplInv`). So a merge never redirects to a section that another merge removes, and what live
sections refer to stays live (`TargetsInv`). None of this depends on what the comparisons say.

`FoldIsExact` does (`ExactInv`). Sections of one class lie side by side in the list, in the order of
the input (`OrderInv`), so a boundary is where a class ends and a stable partition keeps the first of
each class in front. Within a round the part of the list that is done has, in the other copy of the
classes, the groups of the pairs that compare equal and had one class (`Joined`, `GroupsInv`); the
shards not done have not been written. Comparison is an equivalence on a class, so it does not matter
that each section is compared with the first only. Two sections that could be folded are in one class
throughout (`CoarseInv`): this is why the result is the greatest congruence and not just some. Two
sections in one class agree in content, relocation kinds and number of children from the constant
round on (`AlikeInv`). The last round split nothing, so sections of one class have targets of one
class. The merge then redirects each class to its first section (`MergeInv`, `AlignInv`). A class
number means equality only between sections that have one: those that are not foldable get theirs in
the first copy of the classes alone, and sections that `getChunks()` does not list get none.
`AlikeInv` therefore needs that the constant round has already separated the targets that are not
foldable. It does so for relocations and children, whose classes it reads from the first copy; it
cannot for unlisted ones, all of class 0, whether they are relocation targets or children that are
compared, and does not look at entry thunks. `Comparable` excludes these.

**Payload.** The closure, and what a tool is about to write there, has upstream's hash for every
reviewed file that is neither patched nor an extra (`HashesInv`): refresh only rehashes declared
files, and merge refuses a hash that disagrees with the closure. Nothing of the kind holds of a
discovered manifest, which is why the property is about reviewed files. A materialize run holds
every patched file in memory and in the staging tree what it has seen (`MatInv`, `CopyInv`); if it
took them from the payload, then the payload has what it holds until the removal starts, unless
they were saved again. So a step that removes a patch from the payload or from the staging tree
leaves it in the other, except in the two cases `PatchesSurvive` names.

**BuildTree.** At any time a local file is either right, its object of its content and not older, or
Ninja will find it out of date, or replay will stamp it (`IdleInv`). After the stamps every file
that was stamped carries the time of this run, which is later than every object (`StampInv`,
`ReplayInv`); replay moves it back only to a time recorded together with an object of that content
(`Agree`). So at the start of the build a file is right or dirty (`BuildInv`). In CI a file that
could not be stamped has the time of the checkout, which is as good, and the tree and its manifest
come from the cache together (`CacheInv`). A local run that stops breaks the agreement of manifest
and objects, an old time on a file that is not stamped makes it look built: the theorems assume
`Spared`, that `Local` has neither `"stop"` nor `"backdated add"`, nor `"backdate"` together with
`"unstamped"`.

Each inductive invariant was checked with TLC on the run's instance before it was proved. Where an
argument needs induction it takes the least element of a set of naturals (`LeastExists`, from the
well-foundedness of <); ranks, sums and longest waits are reasoned about in this way.

Only model-checked:

* liveness (`CallsReturn`, `Returns`, `GroupsJoin`, `StopReturns`, `Completes`, `MergeFinishes`,
  `IcfConverges`, `ResolutionEnds`): liveness and ENABLED are out of reach of this prover. Of
  `MergeFinishes` the part about a full table is proved;
* `IndicesResolve` of `TypeMerge`: it compares the place of a cell in the sorted table with the
  place of its record in the concatenation of what all sources contribute; both are folds over the
  data, and the proof would be an induction over them. `WinnersAreFirst`, that the records are the
  right ones, is proved.

## 5. What the models found

Two runs reproduce a disagreement between the code and what the repository says of it; PROJECT.json
quotes the lines.

* `abi_reentry`: a call that loaded `poisoned` and then lost the processor enters LLD after another
  call has poisoned it. Checking `poisoned` again after `test_and_set` closes it.
* `build_interrupted`: edit a file, let `ci_build.py all` compile it and stop before the snapshot,
  undo the edit: the next replay verifies the old content, restores the old time, and Ninja keeps
  the object of the edit.

Further divergences met on the way, each a one-line change of a run away:

* String-table fixups noted in a corrupt subsection stay and are applied to whatever record is later
  written at their offset, although the comment says "If we wrote any partial records, undo that"
  (PDB.cpp:698). `ProcRefsResolve` without `~Corrupt` for the fixups is violated with 3 records.
* Discovery takes the tree it is given for upstream: `prepare` copies every file of `--upstream`, and
  the workflow that fetches it (closure-discovery.yml:47, a plain curl) compares it with no hash,
  although "Every added file stays byte-identical to upstream" (prepare_discovery_tree.py:14).
  `Verified => \A p \in Paths \ (Patched \cup Extras) : payload[p] \in {"up", None}` is violated in
  Payload by `Drift`, `Discover`, `Merge` and materialize from the same tree. Hashes that were
  reviewed before are safe (`VerifiedIsUpstream`).
* A patch can be lost in two ways, which `PatchesSurvive` leaves open and without which it fails.
  After a kill in `rmtree(output)` the patches are in the staging tree only; the default run refuses
  to start, and one with `--patched-source` set to the staging tree reads them into memory and
  clears it (materialize_llvm_payload.py:44), so that a drift exit or a kill leaves them nowhere.
  And a patched file that is saved while the run copies is replaced by what was read at its start.
* `rmtree(output)` of materialize runs file by file before the rename, although "a mid-run failure
  cannot destroy an existing payload" (materialize_llvm_payload.py:41). The replacement is complete
  in the staging directory at that time (`StagedIsComplete`), but no tool looks for it there:
  `At("idle") => Patched \subseteq Present(payload)` is violated by `Kill` after the first removal.
* ICF compares entry thunks only by class and only in the variable rounds (ICF.cpp:199). The copy of
  the classes the first of these reads has 0 for every section that is not eligible, so two
  functions whose entry thunks differ and may not be folded are taken for equal and stay in one
  class. The graphs of `gc_icf` have foldable entry thunks only. Likewise two different children
  that are compared but not listed, such as `.gehcont$y`, both have class 0; no graph has two.
* A COMDAT DWARF section that is a child of a live section is traversed, although "Do not traverse
  DWARF sections ... they should not keep other sections alive" (MarkLive.cpp:29) is true of those
  that are not COMDAT. The model follows the code.
* Of COMDATs any(4), largest(2) and any(8) of one name the last or the first prevails depending on
  the order: a leader that "any" and "largest" are merged into keeps its own selection unless it is
  replaced (InputFiles.cpp:747). `StrongestPrevails` asks for the largest where all say "largest".
* An absolute or import definition after a regular one is a duplicate or is ignored depending on
  which comes first (SymbolTable.cpp:876, 950); `DuplicateIffConflict` is about regular and COMDAT
  definitions.
* `PrecompSource::loadGHashes` runs in `parallelForEach` and may insert into the `std::map`
  `precompSourceMappings` (DebugTypes.cpp:575): two precompiled headers that carry their signature
  only in LF_ENDPRECOMP race on it.
* When `os.utime` fails, `stamp_fresh` goes on with the next file, and the comment says that this
  costs build time, "not correctness: nothing downstream trusts an mtime this function did not
  itself just set" (tools/ci_build.py:477-483). Ninja does: with `Local = {"backdate", "unstamped"}`
  `OthersAreRebuilt` is violated in BuildTree, by an edit with an old time to a file that is not
  stamped, whose object of the former content is kept.
* A file that is not in the manifest is not stamped either (tools/ci_build.py:463). If it was
  deleted and its object left behind, and it comes back with other content and an old time, the
  object is kept: `Local = {"backdate", "backdated add"}` violates `OthersAreRebuilt`. With
  `"stop"` this is any file: after a snapshot that was cut off there is no readable manifest,
  `cmd_replay` stamps nothing, and a backdated edit is taken for built, although the warning says
  "costs build time, not correctness" (tools/ci_build.py:630).
* In BuildTree a CI job that fails before its save still prunes, and deletes the last tree without
  replacing it, although `prune` is to delete what "this run replaced" (tools/ci_jobs.py:23).
* With `CrashRecoveryEnabled = FALSE`, as shipped, `exited = "fatal"` is reachable in LlvmLd:
  `fatal()` ends the host process, although lldMain has its recovery context "to be able to recover
  from arbitrary control flow when fatal() is called" (DriverDispatcher.cpp:183).
* Without `WellFormed`, `SizesAgree` fails in PdbSymbols: an S_END without an opener wraps
  `scopeLevel`, and the first walk reserves room for a record the second one leaves out
  (PDB.cpp:672).

## 6. Not modelled, and why

* The COFF writer; the hash streams of the PDB, which are sorted by name, and for the publics the
  symbol table keeps names distinct, so that no tie is left to the schedule; of the driver, options and directives; of the symbol table, ARM64EC, LTO and
  MinGW rules and what section 2 names; of type merging, the serial merge that is used without ghashes.
* The vendored LLVM libraries (code generation, analyses, support code), which are nearly all of
  the repository's lines: llvm-ld uses them as they are, and they carry none of its own logic.
* Bytes: UTF-8 validation, CodeView record contents, CRC32, PE layout. The models keep what decides
  control flow.
* The job server branch of the pool, which COFF never enables.
* The allocator report and the allocator itself.
* Import, audit, comparison, triage, benchmark rendering: sequential tools without shared state;
  where they write files that others rely on, they are in the plan.
* Memory orders: `invoking` and `poisoned` use acquire/release, and the counter of `parallelFor` is
  relaxed but only read through `fetch_add`; the models are sequentially consistent.

## 7. Plan

In this order:

1. `ReleaseBuild`: the stages of `release_build.py`/`pgo_build.py` and the profile stamp, with a
   removal that fails part way (release_build.py:310).
2. `Import`: `import.py` and the import step of `cmd_replay`, with kills.
3. `CiJobs`: artifact caches, `prepare`, skips, timing records and floors; composed with
   `BuildTree`.
4. `LinkerGate`, an abstract specification of the ABI (open, busy, closed) refined by `LlvmLd`.
