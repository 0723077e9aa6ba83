------------------------------ MODULE Payload ------------------------------
(***************************************************************************)
(* The vendored LLVM payload and its tools: llvm-project/ must be the      *)
(* upstream tree at the pinned commit, minus pruned paths, with only the   *)
(* declared files patched, and provenance/llvm-source-closure.json lists   *)
(* the hash of every file of it.                                           *)
(*   materialize_llvm_payload.py  reproduces the payload from upstream     *)
(*   refresh_patched_closure.py   rehashes the declared patched files      *)
(*   prepare_discovery_tree.py, audit_build.py, normalize_closure.py       *)
(*                                find the files a new host's build reads  *)
(*   merge_llvm_closures.py       adds them to the closure                 *)
(*   verify.py                    compares payload and closure             *)
(* A hash stands for its content.  A tool is killed, or fails on the file  *)
(* system, at any of its steps; tools are run one at a time, and a patched *)
(* file may be saved while one runs.                                       *)
(***************************************************************************)
EXTENDS Naturals, FiniteSets

CONSTANTS
  Paths,    \* files of the upstream tree
  Patched,  \* payload-prune.json: patched
  Pruned,   \* payload-prune.json: prune, without keep_exceptions
  Extras,   \* --extra arguments of merge_llvm_closures.py
  Versions, \* contents of patched files
  MaxStray, \* bound on the stray edits at a time
  MaxDrift  \* bound on the drifted files of the source tree

ASSUME PayloadAssumption ==
  /\ Patched \subseteq Paths /\ Pruned \subseteq Paths /\ Extras \subseteq Paths
  /\ Patched \cap Pruned = {}
  /\ Versions # {}
  /\ Versions \cap {"up", "bad", "stray", "none", "payload", "staging"} = {}
  /\ MaxStray \in Nat /\ MaxDrift \in Nat

VARIABLES
  source,   \* the tree at hand as upstream (--source, --upstream): "up" where it is genuine
  payload,  \* llvm-project/
  staging,  \* llvm-project.materialize-tmp/
  closure,  \* llvm-source-closure.json: the hash of each file
  reviewed, \* the closure as it was committed
  torn,     \* the closure file was truncated and not written again
  manifest, \* what a discovery build read, with hashes
  edited,   \* the content last saved in each patched file
  job       \* the tool that runs

vars == <<source, payload, staging, closure, reviewed, torn, manifest, edited, job>>

None == "none"
Empty == [p \in Paths |-> None]
Contents == {"up", "bad", "stray", None} \cup Versions
Present(tree) == {p \in Paths : tree[p] # None}

\* A tool: where it is, the hashes it works with, the tree it took the patched files
\* from and what it read there, the paths it has still to visit and the ones it has put
\* into the staging tree.
Job(pc, files, from, preserved, todo) ==
  [pc |-> pc, files |-> files, from |-> from, preserved |-> preserved, todo |-> todo,
   seen |-> {}]
Idle == Job("idle", Empty, "payload", Empty, {})

At(pc) == job.pc = pc

\* The checkout as committed: verified, and of the first patches.
Init ==
  /\ source = [p \in Paths |-> "up"]
  /\ \E v \in Versions, locked \in SUBSET (Paths \ (Pruned \cup Patched)) :
       payload = [p \in Paths |-> IF p \in Patched THEN v
                                  ELSE IF p \in locked THEN "up" ELSE None]
  /\ staging = Empty
  /\ closure = payload
  /\ reviewed = payload
  /\ torn = FALSE
  /\ manifest = Empty
  /\ edited = payload
  /\ job = Idle

----------------------------------------------------------------------------
(* The developer *)

\* A declared patched file is edited, whether or not a tool runs.
EditPatched(p, v) ==
  /\ p \in Patched \cap Present(payload)
  /\ payload' = [payload EXCEPT ![p] = v]
  /\ edited' = [edited EXCEPT ![p] = v]
  /\ UNCHANGED <<source, staging, closure, reviewed, torn, manifest, job>>

\* Any other file of the payload is edited, or one appears.
EditStray(p) ==
  /\ At("idle")
  /\ p \notin Patched
  /\ Cardinality({q \in Paths : payload[q] = "stray"}) < MaxStray
  /\ payload' = [payload EXCEPT ![p] = "stray"]
  /\ UNCHANGED <<source, staging, closure, reviewed, torn, manifest, edited, job>>

\* Another tree is at hand: a file of it is not, or is again, that of the pinned commit.
Drift(p, c) ==
  /\ At("idle")
  /\ source' = [source EXCEPT ![p] = c]
  /\ Cardinality({q \in Paths : source'[q] # "up"}) <= MaxDrift
  /\ UNCHANGED <<payload, staging, closure, reviewed, torn, manifest, edited, job>>

----------------------------------------------------------------------------
(* materialize_llvm_payload.py *)

Start(pc, files, from, preserved) == job' = Job(pc, files, from, preserved, {})
Fail == job' = Idle
ReadClosure == At("idle") /\ ~torn

\* --patched-source: the committed payload by default, or any other tree, such as what
\* an earlier run left as staging tree or a checkout elsewhere with some version of the
\* patches.
PatchedSource(from) ==
  IF from = "payload" THEN payload
  ELSE IF from = "staging" THEN staging ELSE [p \in Paths |-> from]

\* The patched files as they are read into memory.
Preserved(from) ==
  [p \in Paths |-> IF p \in Patched THEN PatchedSource(from)[p] ELSE None]

\* Mutant: the staging tree is removed before the patched files are looked for.
MaterializeClearsFirst(from) ==
  /\ ReadClosure
  /\ staging' = Empty
  /\ IF Patched \subseteq Present(PatchedSource(from))
       THEN Start("clear", closure, from, Preserved(from))
       ELSE Fail
  /\ UNCHANGED <<source, payload, closure, reviewed, torn, manifest, edited>>

\* The patched files are read, or the run is refused.
Materialize(from) ==
  /\ ReadClosure
  /\ IF Patched \subseteq Present(PatchedSource(from))
       THEN Start("clear", closure, from, Preserved(from))
       ELSE Fail
  /\ UNCHANGED <<source, payload, staging, closure, reviewed, torn, manifest, edited>>

\* shutil.rmtree(staging) of what an earlier run left, a file at a time
Clear(p) ==
  /\ At("clear")
  /\ p \in Present(staging)
  /\ staging' = [staging EXCEPT ![p] = None]
  /\ UNCHANGED <<source, payload, closure, reviewed, torn, manifest, edited, job>>

\* The files of the source tree are listed.
ListSource ==
  /\ At("clear")
  /\ Present(staging) = {}
  /\ job' = [job EXCEPT !.pc = "copy", !.todo = Present(source)]
  /\ UNCHANGED <<source, payload, staging, closure, reviewed, torn, manifest, edited>>

Staged(p, c) ==
  /\ staging' = [staging EXCEPT ![p] = c]
  /\ job' = [job EXCEPT !.todo = @ \ {p}, !.seen = @ \cup {p}]
Skipped(p) == job' = [job EXCEPT !.todo = @ \ {p}] /\ UNCHANGED staging

\* Mutant: what is copied is not compared with the closure.
CopyUnchecked(p) ==
  /\ At("copy")
  /\ p \in job.todo
  /\ IF p \in Pruned \/ job.files[p] = None THEN Skipped(p)
     ELSE IF p \in Patched THEN Staged(p, job.preserved[p])
     ELSE Staged(p, source[p])
  /\ UNCHANGED <<source, payload, closure, reviewed, torn, manifest, edited>>

\* A file of the source tree: pruned, not in the closure, patched, drifted or copied.
Copy(p) ==
  /\ At("copy")
  /\ p \in job.todo
  /\ IF p \in Pruned \/ job.files[p] = None THEN Skipped(p)
     ELSE IF p \in Patched THEN Staged(p, job.preserved[p])
     ELSE IF source[p] # job.files[p] THEN Fail /\ UNCHANGED staging
     ELSE Staged(p, source[p])
  /\ UNCHANGED <<source, payload, closure, reviewed, torn, manifest, edited>>

\* Nothing of the closure may be missing, and every prune prefix must match something.
CheckComplete ==
  /\ At("copy")
  /\ job.todo = {}
  /\ IF Present(job.files) \subseteq job.seen
          /\ (Pruned # {} => Pruned \cap Present(source) # {})
       THEN job' = [job EXCEPT !.pc = "remove"]
       ELSE Fail
  /\ UNCHANGED <<source, payload, staging, closure, reviewed, torn, manifest, edited>>

\* shutil.rmtree(output), a file at a time
Remove(p) ==
  /\ At("remove")
  /\ p \in Present(payload)
  /\ payload' = [payload EXCEPT ![p] = None]
  /\ UNCHANGED <<source, staging, closure, reviewed, torn, manifest, edited, job>>

\* staging.replace(output)
Swap ==
  /\ At("remove")
  /\ Present(payload) = {}
  /\ payload' = staging
  /\ staging' = Empty
  /\ job' = Idle
  /\ UNCHANGED <<source, closure, reviewed, torn, manifest, edited>>

----------------------------------------------------------------------------
(* refresh_patched_closure.py *)

Refreshed == [p \in Paths |-> IF p \in Patched THEN payload[p] ELSE closure[p]]
Undeclared == {p \in Present(closure) \ Patched : payload[p] # closure[p]}

\* Mutant: undeclared edits are rehashed too.
RefreshAll ==
  /\ ReadClosure
  /\ Patched \subseteq Present(closure) \cap Present(payload)
  /\ Start("write", [p \in Paths |-> IF closure[p] = None THEN None ELSE payload[p]], "payload", Empty)
  /\ UNCHANGED <<source, payload, staging, closure, reviewed, torn, manifest, edited>>

\* Refused if a patched file is unknown or missing, or another file was edited.
Refresh ==
  /\ ReadClosure
  /\ IF Patched \subseteq Present(closure) \cap Present(payload)
          /\ Undeclared = {} /\ Refreshed # closure
       THEN Start("write", Refreshed, "payload", Empty)
       ELSE Fail
  /\ UNCHANGED <<source, payload, staging, closure, reviewed, torn, manifest, edited>>

\* write_text: the file is truncated, then written.
Truncate ==
  /\ At("write")
  /\ ~torn
  /\ torn' = TRUE
  /\ UNCHANGED <<source, payload, staging, closure, reviewed, manifest, edited, job>>

WriteClosure ==
  /\ At("write")
  /\ torn
  /\ torn' = FALSE
  /\ closure' = job.files
  /\ job' = Idle
  /\ UNCHANGED <<source, payload, staging, reviewed, manifest, edited>>

----------------------------------------------------------------------------
(* Closure discovery *)

\* The tree at hand without pruned paths and with the patched files of the committed
\* payload is built; the audit lists what the build read.  Neither the tool nor the
\* workflow compares the tree with the pinned commit.  The discovery tree is laid out in
\* a workspace of its own, which is thrown away, so that no tree of this model changes.
Discover(reads) ==
  /\ At("idle")
  /\ Patched \subseteq Present(payload)
  /\ reads \cap Pruned = {}
  /\ reads \ Patched \subseteq Present(source)
  /\ manifest' = [p \in Paths |-> IF p \notin reads THEN None
                                  ELSE IF p \in Patched THEN payload[p] ELSE source[p]]
  /\ UNCHANGED <<source, payload, staging, closure, reviewed, torn, edited, job>>

Conflict == \E p \in Present(manifest) \cap Present(closure) : manifest[p] # closure[p]

Union ==
  [p \in Paths |-> IF p \in Extras THEN source[p]
                   ELSE IF manifest[p] # None THEN manifest[p] ELSE closure[p]]

\* Refused if two closures disagree or an extra resource does not exist.
Merge ==
  /\ ReadClosure
  /\ IF ~Conflict /\ Extras \subseteq Present(source)
       THEN Start("write", Union, "payload", Empty)
       ELSE Fail
  /\ UNCHANGED <<source, payload, staging, closure, reviewed, torn, manifest, edited>>

----------------------------------------------------------------------------
\* The tool is killed, or an operation on the file system raises.
Kill ==
  /\ ~At("idle")
  /\ job' = Idle
  /\ UNCHANGED <<source, payload, staging, closure, reviewed, torn, manifest, edited>>

\* verify.py: no pruned path is back, payload and closure agree, patched files exist.
Verified ==
  /\ ~torn
  /\ Pruned \cap Present(payload) = {}
  /\ payload = closure
  /\ Patched \subseteq Present(payload)

PatchedSources == {"payload", "staging"} \cup Versions

Next ==
  \/ \E p \in Paths, v \in Versions : EditPatched(p, v)
  \/ \E p \in Paths : EditStray(p)
  \/ \E p \in Paths, c \in {"up", "bad", None} : Drift(p, c)
  \/ \E from \in PatchedSources : Materialize(from)
  \/ \E p \in Paths : Clear(p) \/ Copy(p) \/ Remove(p)
  \/ ListSource
  \/ CheckComplete
  \/ Swap
  \/ Refresh
  \/ Truncate
  \/ WriteClosure
  \/ \E reads \in SUBSET Paths : Discover(reads)
  \/ Merge
  \/ Kill

Spec == Init /\ [][Next]_vars

Trees == [Paths -> Contents]

TypeOK ==
  /\ source \in Trees /\ payload \in Trees /\ staging \in Trees
  /\ closure \in Trees /\ reviewed \in Trees /\ manifest \in Trees /\ edited \in Trees
  /\ torn \in BOOLEAN
  /\ job \in [pc : {"idle", "clear", "copy", "remove", "write"}, files : Trees,
              from : PatchedSources, preserved : Trees,
              todo : SUBSET Paths, seen : SUBSET Paths]
----------------------------------------------------------------------------
\* The review of a closure is never undone: whatever was edited, drifted, discovered,
\* merged or aborted since, a file of the closure as it was committed that is not
\* declared as patched (nor hashed again with --extra) has its upstream content in every
\* payload that verify.py accepts (refresh_patched_closure.py refuses undeclared edits,
\* merge_llvm_closures.py conflicting hashes, materialize_llvm_payload.py drifted files).
VerifiedIsUpstream ==
  Verified => \A p \in Present(reviewed) \ (Patched \cup Extras) : payload[p] = "up"

\* The last saved content of a patched file is in no tree of the repository.
Lost(p) == edited[p] \notin {payload[p], staging[p]}

\* The content of a patched file, which exists nowhere upstream, is only lost by a
\* materialize run that was given another tree than the payload as --patched-source, or
\* that does not carry this content because the file was saved after it was read.  No
\* kill, failure or refusal, and no run that follows one, loses it otherwise
\* (materialize_llvm_payload.py).
PatchesSurvive ==
  [][\A p \in Patched : Lost(p)' =>
       \/ Lost(p)
       \/ /\ job.pc \in {"clear", "copy", "remove"}
          /\ job.from # "payload" \/ job.preserved[p] # edited[p]]_vars

\* Before the payload is touched, its replacement is complete: every file of the closure,
\* with the locked content unless it is patched, and every patched file as it was read.
StagedIsComplete ==
  At("remove") =>
    \A p \in Paths : IF p \in Patched
                       THEN staging[p] = job.preserved[p] /\ staging[p] # None
                       ELSE staging[p] = job.files[p]

=============================================================================
