----------------------------- MODULE BuildTree -----------------------------
(***************************************************************************)
(* The build-tree cache of tools/ci_build.py.  Ninja decides by            *)
(* modification times, and a restored tree or checkout has the wrong ones: *)
(* replay stamps every file of the manifest to now and then lets zccache   *)
(* put the recorded time back on the files whose content is the recorded   *)
(* one; build runs Ninja; snapshot records contents and times again.       *)
(*                                                                         *)
(* With ci each job starts from a fresh checkout and a build tree restored *)
(* from the cache (tools/ci_jobs.py, ci-linux), builds, saves the tree,    *)
(* then dirties it with baseline objects and prunes the cache.  Without ci *)
(* the workspace stays and `ci_build.py all` is run in it again and again. *)
(*                                                                         *)
(* One object per source file.  Times are ticks: whatever stamps a file    *)
(* after a compilation has a later one.                                    *)
(***************************************************************************)
EXTENDS Naturals

CONSTANTS
  Sources,  \* files that are compiled
  Contents, \* what they can contain
  Local,    \* what may happen in a local workspace, of Mishaps
  MaxTime   \* bound on the clock

Absent == "absent"

\* What a CI job, which starts from a fresh checkout, is never or always exposed to, and
\* a workspace that stays may be:
\*   "backdate"      an edit leaves an old time (a tar, rsync or patch that preserves it)
\*   "backdated add" so does one of a file that no readable manifest lists
\*   "unstamped"     os.utime fails on a file
\*   "stop"          a run fails or is killed
Mishaps == {"backdate", "backdated add", "unstamped", "stop"}

ASSUME BuildTreeAssumption ==
  /\ Absent \notin Contents
  /\ Local \subseteq Mishaps
  /\ MaxTime \in Nat \ {0}

VARIABLES
  ci,       \* CI jobs, or a local workspace
  now,      \* the clock
  src,      \* source files: content and modification time
  objs,     \* objects: the content they were compiled from and modification time
  manifest, \* zccache-mtimes.json in the build directory, and whether it can be read
  cache,    \* saved build trees
  pc,       \* where the run is
  todo,     \* files the current phase has still to visit
  applied   \* files whose time replay has restored

vars == <<ci, now, src, objs, manifest, cache, pc, todo, applied>>

File(c, t) == [content |-> c, mtime |-> t]
NoFiles == [s \in Sources |-> File(Absent, 0)]
NoManifest == [state |-> "none", files |-> NoFiles]

ContentsOf(tree) == [s \in Sources |-> tree[s].content]
Present(tree) == {s \in Sources : tree[s].content # Absent}

Touched(s, t) == [src EXCEPT ![s] = File(src[s].content, t)]

Init ==
  /\ ci \in BOOLEAN
  /\ now = 1
  /\ IF ci THEN src = NoFiles
     ELSE \E c \in [Sources -> Contents] : src = [s \in Sources |-> File(c[s], 1)]
  /\ objs = NoFiles
  /\ manifest = NoManifest
  /\ cache = {}
  /\ pc = "idle"
  /\ todo = {}
  /\ applied = {}

----------------------------------------------------------------------------
(* Before a run *)

\* Where replay begins: without a manifest that can be read there is nothing to replay.
Begin(m) ==
  /\ pc' = IF m.state = "ok" THEN "stamp" ELSE "build"
  /\ todo' = IF m.state = "ok" THEN Present(m.files) ELSE Sources
  /\ applied' = {}

\* A CI job starts: a checkout of some commit, and a build tree from the cache, the one
\* of exactly these contents if there is one, or none if none fits.
Checkout(c) ==
  /\ ci
  /\ pc = "idle"
  /\ now < MaxTime
  /\ now' = now + 1
  /\ src' = [s \in Sources |-> File(c[s], now')]
  /\ UNCHANGED cache
  /\ \/ \E tree \in cache :
          /\ (\E other \in cache : other.key = c) => tree.key = c
          /\ objs' = tree.objs /\ manifest' = tree.manifest
          /\ Begin(tree.manifest)
     \/ /\ objs' = NoFiles /\ manifest' = NoManifest
        /\ Begin(NoManifest)

\* The manifest lists s, so that replay will stamp it.
Listed(s) == manifest.state = "ok" /\ s \in Present(manifest.files)

\* A file of the local workspace is edited or added.
Edit(s, c, t) ==
  /\ ~ci
  /\ pc = "idle"
  /\ now < MaxTime
  /\ now' = now + 1
  /\ \/ t = now'
     \/ /\ t <= now
        /\ "backdate" \in Local
        /\ Listed(s) \/ objs[s].content = Absent \/ "backdated add" \in Local
  /\ src' = [src EXCEPT ![s] = File(c, t)]
  /\ UNCHANGED <<objs, manifest, cache, pc, todo, applied>>

\* A file of the local workspace is deleted; its object stays.
Delete(s) ==
  /\ ~ci
  /\ pc = "idle"
  /\ src' = [src EXCEPT ![s] = File(Absent, 0)]
  /\ UNCHANGED <<now, objs, manifest, cache, pc, todo, applied>>

\* `ci_build.py all` in the local workspace
RunAll ==
  /\ ~ci
  /\ pc = "idle"
  /\ now < MaxTime
  /\ now' = now + 1
  /\ Begin(manifest)
  /\ UNCHANGED <<src, objs, manifest, cache>>

----------------------------------------------------------------------------
(* replay *)

\* Mutant: no file is stamped.
StampNothing(s) ==
  /\ pc = "stamp"
  /\ s \in todo
  /\ todo' = todo \ {s}
  /\ UNCHANGED <<now, src, objs, manifest, cache, pc, applied>>

\* stamp_fresh: a file of the manifest that is there gets the time of this run.
Stamp(s) ==
  /\ pc = "stamp"
  /\ s \in todo
  /\ todo' = todo \ {s}
  /\ src' = IF src[s].content = Absent THEN src ELSE Touched(s, now)
  /\ UNCHANGED <<now, objs, manifest, cache, pc, applied>>

\* stamp_fresh: os.utime fails, the file keeps its time and the run goes on.
StampFails(s) ==
  /\ ci \/ "unstamped" \in Local
  /\ pc = "stamp"
  /\ s \in todo
  /\ src[s].content # Absent
  /\ todo' = todo \ {s}
  /\ UNCHANGED <<now, src, objs, manifest, cache, pc, applied>>

EndStamp ==
  /\ pc = "stamp"
  /\ todo = {}
  /\ pc' = "apply"
  /\ todo' = Present(manifest.files)
  /\ UNCHANGED <<now, src, objs, manifest, cache, applied>>

\* Mutant: the content is not compared.
ApplyUnverified(s) ==
  /\ pc = "apply"
  /\ s \in todo
  /\ todo' = todo \ {s}
  /\ IF src[s].content # Absent
       THEN /\ src' = Touched(s, manifest.files[s].mtime)
            /\ applied' = applied \cup {s}
       ELSE UNCHANGED <<src, applied>>
  /\ UNCHANGED <<now, objs, manifest, cache, pc>>

\* zccache replay: a file of the recorded content gets the recorded time.
Apply(s) ==
  /\ pc = "apply"
  /\ s \in todo
  /\ todo' = todo \ {s}
  /\ IF src[s].content = manifest.files[s].content
       THEN /\ src' = Touched(s, manifest.files[s].mtime)
            /\ applied' = applied \cup {s}
       ELSE UNCHANGED <<src, applied>>
  /\ UNCHANGED <<now, objs, manifest, cache, pc>>

\* zccache is done, or has failed part way: the run goes on either way.
EndReplay ==
  /\ pc = "apply"
  /\ pc' = "build"
  /\ todo' = Sources
  /\ UNCHANGED <<now, src, objs, manifest, cache, applied>>

----------------------------------------------------------------------------
(* build *)

\* What Ninja compiles: an object that is missing or older than its source.
Dirty(s) ==
  /\ src[s].content # Absent
  /\ objs[s].content = Absent \/ objs[s].mtime < src[s].mtime

Compile(s) ==
  /\ pc = "build"
  /\ s \in todo
  /\ todo' = todo \ {s}
  /\ objs' = IF Dirty(s) THEN [objs EXCEPT ![s] = File(src[s].content, now)] ELSE objs
  /\ UNCHANGED <<now, src, manifest, cache, pc, applied>>

EndBuild ==
  /\ pc = "build"
  /\ todo = {}
  /\ pc' = "built"
  /\ UNCHANGED <<now, src, objs, manifest, cache, todo, applied>>

----------------------------------------------------------------------------
(* snapshot, and what a CI job does with the tree *)

\* zccache snapshot opens the manifest and writes it.  A CI job only takes a snapshot if
\* it may save caches.
OpenManifest ==
  /\ pc = "built"
  /\ manifest' = [state |-> "torn", files |-> NoFiles]
  /\ pc' = "snapshot"
  /\ UNCHANGED <<now, src, objs, cache, todo, applied>>

\* Mutant: the manifest records every file under the time of the snapshot.
WriteManifestNow ==
  /\ pc = "snapshot"
  /\ now < MaxTime
  /\ now' = now + 1
  /\ manifest' = [state |-> "ok", files |-> [s \in Sources |-> File(src[s].content, now')]]
  /\ pc' = IF ci THEN "save" ELSE "idle"
  /\ UNCHANGED <<src, objs, cache, todo, applied>>

WriteManifest ==
  /\ pc = "snapshot"
  /\ manifest' = [state |-> "ok", files |-> src]
  /\ pc' = IF ci THEN "save" ELSE "idle"
  /\ UNCHANGED <<now, src, objs, cache, todo, applied>>

Entry == [key |-> ContentsOf(src), objs |-> objs, manifest |-> manifest]

\* Mutant: the tree is saved at the end of the job.
SaveAfterPost ==
  /\ pc \in {"save", "prune"}
  /\ cache' = IF pc = "prune" THEN cache \cup {Entry} ELSE cache
  /\ pc' = IF pc = "save" THEN "post" ELSE "idle"
  /\ UNCHANGED <<now, src, objs, manifest, todo, applied>>

OwnEntry == \E tree \in cache : tree.key = ContentsOf(src)

\* actions/cache/save: an entry is not written twice.
SaveTree ==
  /\ pc = "save"
  /\ cache' = IF OwnEntry THEN cache ELSE cache \cup {Entry}
  /\ pc' = "post"
  /\ UNCHANGED <<now, src, objs, manifest, todo, applied>>

\* The baseline linker: a file is replaced, compiled and restored; its object stays.
BuildBaseline(s, c) ==
  /\ pc = "post"
  /\ now + 2 <= MaxTime
  /\ objs' = [objs EXCEPT ![s] = File(c, now + 1)]
  /\ src' = Touched(s, now + 2)
  /\ now' = now + 2
  /\ pc' = "prune"
  /\ UNCHANGED <<manifest, cache, todo, applied>>

\* prune: every other entry goes, whether this run saved its own or not.
Prune ==
  /\ pc \in {"post", "prune"}
  /\ cache' = {tree \in cache : tree.key = ContentsOf(src)}
  /\ pc' = "idle"
  /\ UNCHANGED <<now, src, objs, manifest, todo, applied>>

\* A CI job that saves nothing ends with its tests.
EndJob ==
  /\ ci
  /\ pc = "built"
  /\ pc' = "idle"
  /\ UNCHANGED <<now, src, objs, manifest, cache, todo, applied>>

\* A step fails or the run is killed; the steps of a CI job that always run still do.
Stop ==
  /\ ci \/ "stop" \in Local
  /\ pc \notin {"idle", "prune"}
  /\ \/ pc' = "idle"
     \/ ci /\ pc' = "prune"
  /\ UNCHANGED <<now, src, objs, manifest, cache, todo, applied>>

Next ==
  /\ UNCHANGED ci
  /\ \/ \E c \in [Sources -> Contents \cup {Absent}] : Checkout(c)
     \/ \E s \in Sources, c \in Contents, t \in 0..MaxTime : Edit(s, c, t)
     \/ RunAll
     \/ \E s \in Sources : Delete(s) \/ Stamp(s) \/ StampFails(s) \/ Apply(s) \/ Compile(s)
     \/ EndStamp
     \/ EndReplay
     \/ EndBuild
     \/ OpenManifest
     \/ WriteManifest
     \/ SaveTree
     \/ \E s \in Sources, c \in Contents : BuildBaseline(s, c)
     \/ Prune
     \/ EndJob
     \/ Stop

Spec == Init /\ [][Next]_vars

Trees == [Sources -> [content : Contents \cup {Absent}, mtime : 0..MaxTime]]
Manifests == [state : {"none", "ok", "torn"}, files : Trees]

TypeOK ==
  /\ ci \in BOOLEAN
  /\ now \in 1..MaxTime
  /\ src \in Trees /\ objs \in Trees
  /\ manifest \in Manifests
  /\ cache \subseteq [key : [Sources -> Contents \cup {Absent}], objs : Trees,
                      manifest : Manifests]
  /\ pc \in {"idle", "stamp", "apply", "build", "built", "snapshot", "save", "post", "prune"}
  /\ todo \subseteq Sources /\ applied \subseteq Sources
----------------------------------------------------------------------------
UpToDate(s) == src[s].content # Absent => objs[s].content = src[s].content

\* A file whose time replay restored is safe to skip: after the build its object is
\* compiled from what the file contains (module docstring of ci_build.py).
ReplayedIsSafeToSkip == pc = "built" => \A s \in applied : UpToDate(s)

\* A file replay did not touch is rebuilt if it has to be: after the build its object is
\* compiled from what the file contains.  In CI this holds even of files that could not
\* be stamped, as they have the time of the checkout; in a workspace with backdated edits
\* it rests on every file having been stamped (stamp_fresh).
OthersAreRebuilt == pc = "built" => \A s \in Sources \ applied : UpToDate(s)

\* A cached tree and the manifest in it belong together: every recorded file has an object
\* of the recorded content that is not older (job_ci_linux saves the tree before the
\* baseline objects are built).
CachedTreesAgree ==
  \A tree \in cache : \A s \in Present(tree.manifest.files) :
    /\ tree.objs[s].content = tree.manifest.files[s].content
    /\ tree.manifest.files[s].mtime <= tree.objs[s].mtime

\* What replay verified is not compiled again: a restored tree is warm.
ReplayedStaysWarm == [][\A s \in applied : objs'[s] = objs[s] \/ pc # "build"]_vars
=============================================================================
