-------------------------- MODULE BuildTreeProofs --------------------------
(***************************************************************************)
(* Proofs about module BuildTree: with CI jobs, interrupted or not, and in *)
(* a local workspace without certain mishaps, a build never keeps an       *)
(* object of another content, for any files, contents and times.           *)
(***************************************************************************)
EXTENDS BuildTree, TLAPS

\* What a local workspace must be spared: runs that stop, old times on files replay will
\* not stamp, because the manifest does not list them or because stamping fails.  CI jobs
\* are exposed to none of it but failing stamps and stops, which do them no harm.
Spared ==
  /\ "stop" \notin Local
  /\ "backdated add" \notin Local
  /\ ~({"backdate", "unstamped"} \subseteq Local)

\* The object of s is compiled from its content and is not older.
Good(s) ==
  /\ src[s].content # Absent => /\ objs[s].content = src[s].content
                                /\ src[s].mtime <= objs[s].mtime

\* What Ninja makes of s is right.
Sound(s) == Good(s) \/ Dirty(s)

MayBeUnstamped == ci \/ "unstamped" \in Local

\* Every recorded file has an object of the recorded content that is not older.
Agree(files, tree) ==
  \A s \in Present(files) : /\ tree[s].content = files[s].content
                            /\ files[s].mtime <= tree[s].mtime

NotLater(tree, t) == \A s \in Sources : tree[s].mtime <= t

\* Between runs of a local workspace manifest and objects agree, and Ninja is right about
\* the files the manifest does not list, and about all if they may stay unstamped; only
\* CI jobs save, and go on from there.
IdleInv ==
  /\ ~ci /\ pc = "idle" =>
       /\ \/ manifest = NoManifest /\ objs = NoFiles
          \/ manifest.state = "ok" /\ Agree(manifest.files, objs)
       /\ \A s \in Sources : ~Listed(s) \/ "unstamped" \in Local => Sound(s)
  /\ pc \in {"save", "post", "prune"} => ci

\* What replay works with.
ReplayInv ==
  pc \in {"stamp", "apply"} =>
    /\ Agree(manifest.files, objs)
    /\ \A s \in Sources : objs[s].mtime < now
    /\ todo \subseteq Present(manifest.files)

\* Ninja is right about the files replay is done with.
StampInv ==
  /\ pc = "stamp" => /\ applied = {}
                     /\ \A s \in Sources : s \notin todo \/ MayBeUnstamped => Sound(s)
  /\ pc = "apply" =>
       /\ \A s \in Sources \ applied : Sound(s)
       /\ \A s \in applied : s \in Present(manifest.files) /\ src[s] = manifest.files[s]

\* What the build has compiled, and what Ninja will decide for the rest.
BuildInv ==
  /\ pc = "build" =>
       /\ \A s \in Sources \ todo : Good(s)
       /\ \A s \in applied : Good(s)
       /\ \A s \in Sources : Sound(s)
  /\ pc \in {"built", "snapshot"} => \A s \in Sources : Good(s)
  /\ pc = "save" => manifest.state = "ok" /\ Agree(manifest.files, objs)

CacheInv ==
  \A tree \in cache : /\ tree.manifest.state = "ok"
                      /\ Agree(tree.manifest.files, tree.objs)
                      /\ NotLater(tree.objs, now)

\* Nothing is of the future.
TimeInv == NotLater(src, now) /\ NotLater(objs, now)

IInv == TypeOK /\ IdleInv /\ ReplayInv /\ StampInv /\ BuildInv /\ CacheInv /\ TimeInv

\* A file that is given another time is a file.
LEMMA FileTypes ==
  ASSUME NEW c \in Contents \cup {Absent}, NEW t \in 0..MaxTime
  PROVE  File(c, t) \in [content : Contents \cup {Absent}, mtime : 0..MaxTime]
BY DEF File

\* Touching a file changes its time and nothing else.
LEMMA TouchedFields ==
  ASSUME src \in Trees, NEW s \in Sources, NEW t
  PROVE  \A x \in Sources : /\ Touched(s, t)[x].content = src[x].content
                            /\ Touched(s, t)[x].mtime = IF x = s THEN t ELSE src[x].mtime
BY DEF Touched, Trees, File

\* The start of a job or workspace satisfies the invariant.
LEMMA InitIInv == Init => IInv
<1> SUFFICES ASSUME Init PROVE IInv
  OBVIOUS
<1> USE BuildTreeAssumption
<1>1. NoFiles \in Trees
  BY DEF NoFiles, Trees, File
<1>2. /\ src \in Trees
      /\ \A s \in Sources : src[s].mtime <= 1
  <2>1. CASE ci
    BY <1>1, <2>1 DEF Init, NoFiles, File
  <2>2. CASE ~ci
    <3>1. PICK c \in [Sources -> Contents] : src = [s \in Sources |-> File(c[s], 1)]
      BY <2>2 DEF Init
    <3> QED
      BY <3>1 DEF Trees, File
  <2> QED
    BY <2>1, <2>2
<1>3. TypeOK
  <2>1. objs \in Trees /\ manifest \in Manifests
    BY <1>1 DEF Init, Manifests, NoManifest
  <2>2. ci \in BOOLEAN /\ now \in 1..MaxTime /\ cache = {} /\ pc = "idle" /\ todo = {} /\ applied = {}
    BY DEF Init
  <2> QED
    BY <1>2, <2>1, <2>2 DEF TypeOK
<1>4. IdleInv /\ ReplayInv /\ StampInv /\ BuildInv /\ CacheInv
  <2>1. \A s \in Sources : Sound(s)
    BY DEF Init, NoFiles, File, Sound, Good, Dirty
  <2> QED
    BY <2>1 DEF Init, IdleInv, ReplayInv, StampInv, BuildInv, CacheInv
<1>5. TimeInv
  BY <1>2 DEF Init, TimeInv, NotLater, NoFiles, File
<1> QED
  BY <1>3, <1>4, <1>5 DEF IInv

\* Every action keeps the types.
LEMMA StepTypeOK == TypeOK /\ [Next]_vars => TypeOK'
<1> SUFFICES ASSUME TypeOK, [Next]_vars PROVE TypeOK'
  OBVIOUS
<1>0. UNCHANGED ci
  BY DEF Next, vars
<1> USE <1>0
<1> USE BuildTreeAssumption
<1>1. NoFiles \in Trees /\ NoManifest \in Manifests
  BY DEF NoFiles, NoManifest, Trees, Manifests, File
<1>2. ASSUME NEW m, Begin(m)
      PROVE  /\ pc' \in {"stamp", "build"} /\ todo' \subseteq Sources
             /\ applied' \subseteq Sources
  BY <1>2 DEF Begin, Present
<1>3. ASSUME NEW s \in Sources, NEW t \in 0..MaxTime PROVE Touched(s, t) \in Trees
  BY <1>3, FileTypes DEF Touched, TypeOK, Trees
<1>4. ASSUME NEW c \in [Sources -> Contents \cup {Absent}], Checkout(c) PROVE TypeOK'
  <2>1. now' \in 1..MaxTime /\ cache' = cache
    BY <1>4 DEF Checkout, TypeOK
  <2>2. src' \in Trees
    <3>1. src' = [s \in Sources |-> File(c[s], now')]
      BY <1>4 DEF Checkout
    <3> QED
      BY <2>1, <3>1, FileTypes DEF Trees
  <2>3. CASE \E tree \in cache : /\ objs' = tree.objs /\ manifest' = tree.manifest
                                 /\ Begin(tree.manifest)
    BY <1>2, <2>1, <2>2, <2>3 DEF TypeOK
  <2>4. CASE objs' = NoFiles /\ manifest' = NoManifest /\ Begin(NoManifest)
    BY <1>1, <1>2, <2>1, <2>2, <2>4 DEF TypeOK
  <2> QED
    BY <1>4, <2>3, <2>4 DEF Checkout
<1>5. ASSUME NEW s \in Sources, NEW c \in Contents, NEW t \in 0..MaxTime, Edit(s, c, t)
      PROVE  TypeOK'
  <2>1. src' \in Trees
    <3>1. File(c, t) \in [content : Contents \cup {Absent}, mtime : 0..MaxTime]
      BY FileTypes
    <3>2. src' = [src EXCEPT ![s] = File(c, t)]
      BY <1>5 DEF Edit
    <3> QED
      BY <3>1, <3>2 DEF TypeOK, Trees
  <2>2. /\ now < MaxTime /\ now' = now + 1
        /\ UNCHANGED <<objs, manifest, cache, pc, todo, applied>>
    BY <1>5 DEF Edit
  <2>3. now' \in 1..MaxTime
    BY <2>2 DEF TypeOK
  <2> QED
    BY <2>1, <2>2, <2>3 DEF TypeOK
<1>16. ASSUME NEW s \in Sources, Delete(s) PROVE TypeOK'
  <2>1. File(Absent, 0) \in [content : Contents \cup {Absent}, mtime : 0..MaxTime]
    BY DEF File
  <2>2. src' \in Trees
    BY <1>16, <2>1 DEF Delete, TypeOK, Trees
  <2> QED
    BY <1>16, <2>2 DEF Delete, TypeOK
<1>6. CASE RunAll
  BY <1>2, <1>6 DEF RunAll, TypeOK
<1>7. ASSUME NEW s \in Sources, Stamp(s) \/ StampFails(s) PROVE TypeOK'
  BY <1>3, <1>7 DEF Stamp, StampFails, TypeOK
<1>8. ASSUME NEW s \in Sources, Apply(s) PROVE TypeOK'
  <2>1. manifest.files[s].mtime \in 0..MaxTime
    BY DEF TypeOK, Manifests, Trees
  <2> QED
    BY <1>3, <1>8, <2>1 DEF Apply, TypeOK
<1>9. ASSUME NEW s \in Sources, Compile(s) PROVE TypeOK'
  <2>1. src[s].content \in Contents \cup {Absent} /\ now \in 0..MaxTime
    BY DEF TypeOK, Trees
  <2>2. File(src[s].content, now) \in [content : Contents \cup {Absent}, mtime : 0..MaxTime]
    BY <2>1, FileTypes
  <2>3. objs' \in Trees
    BY <1>9, <2>2 DEF Compile, TypeOK, Trees
  <2> QED
    BY <1>9, <2>3 DEF Compile, TypeOK
<1>10. CASE EndStamp \/ EndReplay \/ EndBuild \/ EndJob \/ Stop
  BY <1>10 DEF EndStamp, EndReplay, EndBuild, EndJob, Stop, TypeOK, Present
<1>11. CASE OpenManifest \/ WriteManifest
  BY <1>1, <1>11 DEF OpenManifest, WriteManifest, TypeOK, Manifests
<1>12. CASE SaveTree
  <2>1. Entry \in [key : [Sources -> Contents \cup {Absent}], objs : Trees,
                   manifest : Manifests]
    BY DEF Entry, ContentsOf, TypeOK, Trees
  <2> QED
    BY <1>12, <2>1 DEF SaveTree, TypeOK
<1>13. ASSUME NEW s \in Sources, NEW c \in Contents, BuildBaseline(s, c) PROVE TypeOK'
  <2>1. now + 1 \in 0..MaxTime /\ now + 2 \in 1..MaxTime
    BY <1>13 DEF BuildBaseline, TypeOK
  <2>2. objs' \in Trees
    BY <1>13, <2>1, FileTypes DEF BuildBaseline, TypeOK, Trees
  <2>3. src' \in Trees
    BY <1>3, <1>13, <2>1 DEF BuildBaseline
  <2> QED
    BY <1>13, <2>1, <2>2, <2>3 DEF BuildBaseline, TypeOK
<1>14. CASE Prune
  BY <1>14 DEF Prune, TypeOK
<1>15. CASE UNCHANGED vars
  BY <1>15 DEF vars, TypeOK
<1> QED
  BY <1>4, <1>5, <1>6, <1>7, <1>8, <1>9, <1>10, <1>11, <1>12, <1>13, <1>14, <1>15,
     <1>16 DEF Next

\* The times and the cache.
LEMMA StepTimes == IInv /\ [Next]_vars => (TimeInv /\ CacheInv)'
<1> SUFFICES ASSUME IInv, [Next]_vars PROVE TimeInv' /\ CacheInv'
  OBVIOUS
<1>0. UNCHANGED ci
  BY DEF Next, vars
<1> USE <1>0
<1> USE BuildTreeAssumption DEF IInv, TimeInv, CacheInv, NotLater
<1>1. CASE UNCHANGED <<now, src, objs, cache>>
  BY <1>1
<1>2. now \in Nat /\ src \in Trees /\ objs \in Trees
  BY DEF TypeOK
<1>3. \A tree \in cache : tree.objs \in Trees
  BY DEF TypeOK
<1>4. \A s \in Sources : src[s].mtime \in Nat /\ objs[s].mtime \in Nat
  BY <1>2 DEF Trees
<1>5. \A tree \in cache, s \in Sources : tree.objs[s].mtime \in Nat
  BY <1>3 DEF Trees
<1>6. ASSUME NEW c \in [Sources -> Contents \cup {Absent}], Checkout(c)
      PROVE  TimeInv' /\ CacheInv'
  <2>1. now' = now + 1 /\ src' = [s \in Sources |-> File(c[s], now')] /\ cache' = cache /\ ci
    BY <1>6 DEF Checkout
  <2>2. CASE \E tree \in cache : objs' = tree.objs
    BY <1>2, <1>5, <2>1, <2>2 DEF File
  <2>3. CASE objs' = NoFiles
    BY <1>2, <1>5, <2>1, <2>3 DEF File, NoFiles
  <2> QED
    BY <1>6, <2>2, <2>3 DEF Checkout
<1>7. ASSUME NEW s \in Sources, NEW c \in Contents, NEW t \in 0..MaxTime, Edit(s, c, t)
      PROVE  TimeInv' /\ CacheInv'
  <2>1. /\ now' = now + 1 /\ t <= now' /\ src' = [src EXCEPT ![s] = File(c, t)]
        /\ objs' = objs /\ cache' = cache
    <3>1. now' = now + 1 /\ (t = now' \/ t <= now)
      BY <1>7 DEF Edit
    <3>2. t \in Nat /\ t <= now'
      BY <1>2, <3>1
    <3> QED
      BY <1>7, <3>2 DEF Edit
  <2> QED
    BY <1>2, <1>4, <1>5, <2>1 DEF File, Trees
<1>17. ASSUME NEW s \in Sources, Delete(s) PROVE TimeInv' /\ CacheInv'
  <2>1. /\ now' = now /\ src' = [src EXCEPT ![s] = File(Absent, 0)]
        /\ objs' = objs /\ cache' = cache
    BY <1>17 DEF Delete
  <2> QED
    BY <1>2, <1>4, <2>1 DEF File, Trees
<1>8. CASE RunAll
  BY <1>2, <1>4, <1>5, <1>8 DEF RunAll
<1>9. ASSUME NEW s \in Sources, Stamp(s) \/ StampFails(s) PROVE TimeInv' /\ CacheInv'
  <2>1. now' = now /\ objs' = objs /\ cache' = cache /\ (src' = src \/ src' = Touched(s, now))
    BY <1>9 DEF Stamp, StampFails
  <2> QED
    BY <1>2, <2>1, SMTT(30) DEF Touched, File, Trees
<1>10. ASSUME NEW s \in Sources, Apply(s) PROVE TimeInv' /\ CacheInv'
  <2>1. /\ now' = now /\ objs' = objs /\ cache' = cache
        /\ src' = src \/ src' = Touched(s, manifest.files[s].mtime)
    BY <1>10 DEF Apply
  <2>2. manifest.files[s].mtime <= now
    <3>1. s \in Present(manifest.files) /\ manifest.files[s].mtime <= objs[s].mtime
      BY <1>10 DEF Apply, ReplayInv, Agree
    <3>2. manifest.files[s].mtime \in Nat
      BY DEF TypeOK, Manifests, Trees
    <3> QED
      BY <1>2, <1>4, <3>1, <3>2
  <2>3. CASE src' = Touched(s, manifest.files[s].mtime)
    <3>1. \A x \in Sources : /\ src'[x].content = src[x].content
                             /\ src'[x].mtime = IF x = s THEN manifest.files[s].mtime
                                                ELSE src[x].mtime
      BY <1>2, <2>3, TouchedFields
    <3> QED
      BY <2>1, <2>2, <3>1
  <2> QED
    BY <1>1, <2>1, <2>3
<1>11. ASSUME NEW s \in Sources, Compile(s) PROVE TimeInv' /\ CacheInv'
  <2>1. /\ now' = now /\ src' = src /\ cache' = cache
        /\ objs' = objs \/ objs' = [objs EXCEPT ![s] = File(src[s].content, now)]
    BY <1>11 DEF Compile
  <2> QED
    BY <1>2, <2>1 DEF File, Trees
<1>12. CASE SaveTree
  <2>1. CASE UNCHANGED cache
    BY <1>1, <1>12, <2>1 DEF SaveTree
  <2>2. CASE cache' = cache \cup {Entry}
    <3>1. manifest.state = "ok" /\ Agree(manifest.files, objs)
      BY <1>12 DEF SaveTree, BuildInv
    <3>2. UNCHANGED <<now, src, objs>>
      BY <1>12 DEF SaveTree
    <3>3. Entry.manifest = manifest /\ Entry.objs = objs
      BY DEF Entry
    <3> QED
      BY <2>2, <3>1, <3>2, <3>3
  <2> QED
    BY <1>12, <2>1, <2>2 DEF SaveTree
<1>13. ASSUME NEW s \in Sources, NEW c \in Contents, BuildBaseline(s, c)
       PROVE  TimeInv' /\ CacheInv'
  <2>1. /\ now' = now + 2 /\ src' = Touched(s, now + 2) /\ cache' = cache
        /\ objs' = [objs EXCEPT ![s] = File(c, now + 1)]
    BY <1>13 DEF BuildBaseline
  <2> QED
    BY <1>2, <1>4, <1>5, <2>1 DEF Touched, File, Trees
<1>14. CASE Prune
  BY <1>14 DEF Prune
<1>15. CASE EndStamp \/ EndReplay \/ EndBuild \/ OpenManifest \/ WriteManifest \/ EndJob \/ Stop
  BY <1>1, <1>15 DEF EndStamp, EndReplay, EndBuild, OpenManifest, WriteManifest, EndJob, Stop
<1>16. CASE UNCHANGED vars
  BY <1>1, <1>16 DEF vars
<1> QED
  BY <1>6, <1>7, <1>8, <1>9, <1>10, <1>11, <1>12, <1>13, <1>14, <1>15, <1>16, <1>17 DEF Next

RunInv == IdleInv /\ ReplayInv /\ StampInv /\ BuildInv

\* Replay starts on a tree that agrees with its manifest, or the build on no tree at all.
LEMMA BeginRun ==
  ASSUME IInv, NEW m, Begin(m), manifest' = m,
         now' = now + 1, ci' = ci,
         \/ m.state = "ok" /\ Agree(m.files, objs') /\ \A s \in Sources : objs'[s].mtime < now'
         \/ m = NoManifest /\ objs' = NoFiles,
         \A s \in Sources : ~Listed(s)' \/ MayBeUnstamped => Sound(s)'
  PROVE  RunInv'
<1>1. CASE m.state = "ok"
  <2>1. pc' = "stamp" /\ todo' = Present(m.files) /\ applied' = {}
    BY <1>1 DEF Begin
  <2>2. Agree(m.files, objs') /\ \A s \in Sources : objs'[s].mtime < now'
    BY <1>1 DEF NoManifest
  <2>3. \A s \in Sources : s \notin todo' => ~Listed(s)'
    BY <2>1 DEF Listed, Present
  <2>4. MayBeUnstamped' = MayBeUnstamped
    BY DEF MayBeUnstamped
  <2>5. StampInv'
    BY <2>1, <2>3, <2>4 DEF StampInv
  <2> QED
    BY <1>1, <2>1, <2>2, <2>5 DEF RunInv, IdleInv, ReplayInv, BuildInv, Agree, Present
<1>2. CASE m = NoManifest /\ objs' = NoFiles
  <2>1. pc' = "build" /\ todo' = Sources /\ applied' = {}
    BY <1>2 DEF Begin, NoManifest
  <2>2. \A s \in Sources : objs'[s].content = Absent
    BY <1>2 DEF NoFiles, File
  <2>3. \A s \in Sources : Sound(s)'
    BY <2>2 DEF Sound, Good, Dirty
  <2> QED
    BY <2>1, <2>3 DEF RunInv, IdleInv, ReplayInv, StampInv, BuildInv
<1> QED
  BY <1>1, <1>2

\* Every step of a run keeps the invariant of the run, in a workspace that is spared.
LEMMA StepRun == IInv /\ [Next]_vars /\ Spared => RunInv'
<1> SUFFICES ASSUME IInv, [Next]_vars, Spared PROVE RunInv'
  OBVIOUS
<1>0. UNCHANGED ci
  BY DEF Next, vars
<1> USE <1>0
<1> USE BuildTreeAssumption
<1>1. now \in Nat /\ src \in Trees /\ objs \in Trees /\ manifest \in Manifests
  BY DEF IInv, TypeOK
<1>2. \A s \in Sources : /\ src[s].mtime \in Nat /\ objs[s].mtime \in Nat
                         /\ manifest.files[s].mtime \in Nat
                         /\ src[s].mtime <= now /\ objs[s].mtime <= now
  BY <1>1 DEF Trees, Manifests, IInv, TimeInv, NotLater
<1>3. RunInv
  BY DEF IInv, RunInv
<1>4. ASSUME NEW c \in [Sources -> Contents \cup {Absent}], Checkout(c) PROVE RunInv'
  <2>1. now' = now + 1 /\ src' = [s \in Sources |-> File(c[s], now')]
    BY <1>4 DEF Checkout
  <2>2. \A s \in Sources : src'[s].mtime = now'
    BY <2>1 DEF File
  <2>3. ASSUME NEW tree \in cache, objs' = tree.objs, manifest' = tree.manifest,
               Begin(tree.manifest)
        PROVE  RunInv'
    <3>1. tree.manifest.state = "ok" /\ Agree(tree.manifest.files, tree.objs)
      BY DEF IInv, CacheInv
    <3>2. \A s \in Sources : tree.objs[s].mtime \in Nat /\ tree.objs[s].mtime <= now
      BY DEF IInv, CacheInv, NotLater, TypeOK, Trees
    <3>3. \A s \in Sources : objs'[s].mtime < now'
      BY <1>1, <2>1, <2>3, <3>2
    <3>4. \A s \in Sources : Sound(s)'
      BY <2>2, <3>3 DEF Sound, Good, Dirty
    <3> QED
      BY <2>1, <2>3, <3>1, <3>3, <3>4, BeginRun
  <2>4. CASE objs' = NoFiles /\ manifest' = NoManifest /\ Begin(NoManifest)
    <3>1. \A s \in Sources : Sound(s)'
      BY <2>4 DEF Sound, Good, Dirty, NoFiles, File
    <3> QED
      BY <2>1, <2>4, <3>1, BeginRun
  <2> QED
    BY <1>4, <2>3, <2>4 DEF Checkout
<1>5. ASSUME NEW s \in Sources, NEW c \in Contents, NEW t \in 0..MaxTime, Edit(s, c, t)
      PROVE  RunInv'
  <2>1. /\ ~ci /\ pc' = "idle" /\ UNCHANGED <<manifest, objs>> /\ pc = "idle"
        /\ now' = now + 1 /\ src' = [src EXCEPT ![s] = File(c, t)]
    BY <1>5 DEF Edit
  <2>2. src'[s] = File(c, t) /\ \A x \in Sources : x # s => src'[x] = src[x]
    BY <1>1, <2>1 DEF Trees
  <2>3. \A x \in Sources : Listed(x)' = Listed(x)
    BY <2>1 DEF Listed, Present
  <2>4. \A x \in Sources : x # s => Sound(x)' = Sound(x)
    BY <2>1, <2>2 DEF Sound, Good, Dirty
  <2>5. \/ t = now'
        \/ "unstamped" \notin Local /\ (Listed(s) \/ objs[s].content = Absent)
    BY <1>5 DEF Edit, Spared
  <2>6. t = now' => Sound(s)'
    BY <1>1, <1>2, <2>1, <2>2 DEF Sound, Good, Dirty, File
  <2>7. objs[s].content = Absent => Sound(s)'
    BY <2>1, <2>2 DEF Sound, Good, Dirty, File
  <2>8. ~Listed(s)' \/ "unstamped" \in Local => Sound(s)'
    BY <2>3, <2>5, <2>6, <2>7
  <2>9. \A x \in Sources : ~Listed(x)' \/ "unstamped" \in Local => Sound(x)'
    BY <1>3, <2>1, <2>3, <2>4, <2>8 DEF RunInv, IdleInv
  <2> QED
    BY <1>3, <2>1, <2>9 DEF RunInv, IdleInv, ReplayInv, StampInv, BuildInv
<1>18. ASSUME NEW s \in Sources, Delete(s) PROVE RunInv'
  <2>1. /\ ~ci /\ pc' = "idle" /\ UNCHANGED <<manifest, objs>> /\ pc = "idle"
        /\ src' = [src EXCEPT ![s] = File(Absent, 0)]
    BY <1>18 DEF Delete
  <2>2. src'[s].content = Absent /\ \A x \in Sources : x # s => src'[x] = src[x]
    BY <1>1, <2>1 DEF Trees, File
  <2>3. \A x \in Sources : Listed(x)' = Listed(x)
    BY <2>1 DEF Listed, Present
  <2>4. \A x \in Sources : Sound(x) => Sound(x)'
    BY <2>1, <2>2 DEF Sound, Good, Dirty
  <2> QED
    BY <1>3, <2>1, <2>3, <2>4 DEF RunInv, IdleInv, ReplayInv, StampInv, BuildInv
<1>6. CASE RunAll
  <2>1. /\ ~ci /\ pc = "idle" /\ now' = now + 1 /\ Begin(manifest)
        /\ UNCHANGED <<src, objs, manifest>>
    BY <1>6 DEF RunAll
  <2>2. /\ \/ manifest = NoManifest /\ objs = NoFiles
           \/ manifest.state = "ok" /\ Agree(manifest.files, objs)
        /\ \A s \in Sources : ~Listed(s) \/ "unstamped" \in Local => Sound(s)
    BY <1>3, <2>1 DEF RunInv, IdleInv
  <2>3. \A s \in Sources : objs'[s].mtime < now'
    BY <1>1, <1>2, <2>1
  <2>4. \A s \in Sources : Sound(s)' = Sound(s) /\ Listed(s)' = Listed(s)
    BY <2>1 DEF Sound, Good, Dirty, Listed, Present
  <2>5. \A s \in Sources : ~Listed(s)' \/ MayBeUnstamped => Sound(s)'
    BY <2>1, <2>2, <2>4 DEF MayBeUnstamped
  <2> QED
    BY <2>1, <2>2, <2>3, <2>5, BeginRun
<1>7. ASSUME NEW s \in Sources, Stamp(s) PROVE RunInv'
  <2>1. /\ pc = "stamp" /\ pc' = "stamp" /\ s \in todo /\ todo' = todo \ {s}
        /\ UNCHANGED <<now, objs, manifest, applied>>
        /\ src' = IF src[s].content = Absent THEN src ELSE Touched(s, now)
    BY <1>7 DEF Stamp
  <2>2. \A x \in Sources : /\ src'[x].content = src[x].content
                           /\ src'[x].mtime = IF x = s /\ src[s].content # Absent
                                                THEN now ELSE src[x].mtime
    BY <1>1, <2>1, TouchedFields
  <2>3. Sound(s)'
    BY <1>1, <1>2, <1>3, <2>1, <2>2 DEF RunInv, ReplayInv, Sound, Good, Dirty
  <2>4. \A x \in Sources : x # s => Sound(x)' = Sound(x)
    BY <2>1, <2>2 DEF Sound, Good, Dirty
  <2>5. StampInv'
    BY <1>3, <2>1, <2>3, <2>4 DEF RunInv, StampInv, MayBeUnstamped
  <2> QED
    BY <1>3, <2>1, <2>2, <2>5 DEF RunInv, IdleInv, ReplayInv, BuildInv, Agree, Present
<1>19. ASSUME NEW s \in Sources, StampFails(s) PROVE RunInv'
  <2>1. /\ pc = "stamp" /\ pc' = "stamp" /\ s \in todo /\ todo' = todo \ {s} /\ MayBeUnstamped
        /\ UNCHANGED <<now, src, objs, manifest, applied>>
    BY <1>19 DEF StampFails, MayBeUnstamped
  <2>2. \A x \in Sources : Sound(x)' = Sound(x)
    BY <2>1 DEF Sound, Good, Dirty
  <2>3. StampInv'
    BY <1>3, <2>1, <2>2 DEF RunInv, StampInv
  <2> QED
    BY <1>3, <2>1, <2>3 DEF RunInv, IdleInv, ReplayInv, BuildInv, Agree, Present
<1>8. CASE EndStamp
  <2>1. /\ pc = "stamp" /\ pc' = "apply" /\ todo = {} /\ todo' = Present(manifest.files)
        /\ UNCHANGED <<now, src, objs, manifest, applied>>
    BY <1>8 DEF EndStamp
  <2>2. \A s \in Sources : Sound(s)' = Sound(s)
    BY <2>1 DEF Sound, Good, Dirty
  <2> QED
    BY <1>3, <2>1, <2>2 DEF RunInv, IdleInv, ReplayInv, StampInv, BuildInv, Agree, Present
<1>9. ASSUME NEW s \in Sources, Apply(s) PROVE RunInv'
  <2>1. /\ pc = "apply" /\ pc' = "apply" /\ s \in todo /\ todo' = todo \ {s}
        /\ UNCHANGED <<now, objs, manifest>>
    BY <1>9 DEF Apply
  <2>2. CASE UNCHANGED <<src, applied>>
    <3>1. \A x \in Sources : Sound(x)' = Sound(x)
      BY <2>1, <2>2 DEF Sound, Good, Dirty
    <3> QED
      BY <1>3, <2>1, <2>2, <3>1 DEF RunInv, IdleInv, ReplayInv, StampInv, BuildInv, Agree,
                                    Present
  <2>3. CASE /\ src[s].content = manifest.files[s].content
             /\ src' = Touched(s, manifest.files[s].mtime)
             /\ applied' = applied \cup {s}
    <3>1. src'[s] = manifest.files[s] /\ \A x \in Sources : x # s => src'[x] = src[x]
      BY <1>1, <2>3 DEF Touched, File, Trees, Manifests
    <3>2. s \in Present(manifest.files) /\ applied \subseteq Sources
      BY <1>3, <2>1 DEF RunInv, ReplayInv, IInv, TypeOK
    <3>3. \A x \in Sources : x # s => Sound(x)' = Sound(x)
      BY <2>1, <3>1 DEF Sound, Good, Dirty
    <3> QED
      BY <1>3, <2>1, <2>3, <3>1, <3>2, <3>3 DEF RunInv, IdleInv, ReplayInv, StampInv, BuildInv,
                                          Agree, Present
  <2> QED
    BY <1>9, <2>2, <2>3 DEF Apply
<1>10. CASE EndReplay
  <2>1. /\ pc = "apply" /\ pc' = "build" /\ todo' = Sources
        /\ UNCHANGED <<now, src, objs, manifest, applied>>
    BY <1>10 DEF EndReplay
  <2>2. \A s \in applied : Good(s)
    <3> SUFFICES ASSUME NEW s \in applied PROVE Good(s)
      OBVIOUS
    <3>1. s \in Present(manifest.files) /\ src[s] = manifest.files[s]
      BY <1>3, <2>1 DEF RunInv, StampInv
    <3> QED
      BY <1>3, <2>1, <3>1 DEF RunInv, ReplayInv, Agree, Good
  <2>3. \A s \in Sources : Sound(s)
    BY <1>3, <2>1, <2>2 DEF RunInv, StampInv, Sound
  <2> QED
    BY <2>1, <2>2, <2>3 DEF RunInv, IdleInv, ReplayInv, StampInv, BuildInv, Sound, Good, Dirty
<1>11. ASSUME NEW s \in Sources, Compile(s) PROVE RunInv'
  <2>1. /\ pc = "build" /\ pc' = "build" /\ s \in todo /\ todo' = todo \ {s}
        /\ UNCHANGED <<now, src, manifest, applied>>
        /\ objs' = IF Dirty(s) THEN [objs EXCEPT ![s] = File(src[s].content, now)] ELSE objs
    BY <1>11 DEF Compile
  <2>2. \A x \in Sources : x # s => objs'[x] = objs[x]
    BY <1>1, <2>1 DEF Trees
  <2>3. Good(s)'
    <3>1. CASE Dirty(s)
      <4>1. objs'[s] = File(src[s].content, now)
        BY <1>1, <2>1, <3>1 DEF Trees
      <4> QED
        BY <1>2, <2>1, <4>1 DEF Good, File
    <3>2. CASE ~Dirty(s)
      BY <1>3, <2>1, <3>2 DEF RunInv, BuildInv, Sound, Good
    <3> QED
      BY <3>1, <3>2
  <2>4. applied \subseteq Sources /\ todo \subseteq Sources
    BY DEF IInv, TypeOK
  <2>5. \A x \in Sources : x # s => Good(x)' = Good(x) /\ Sound(x)' = Sound(x)
    BY <2>1, <2>2 DEF Sound, Good, Dirty
  <2>6. Sound(s)'
    BY <2>3 DEF Sound
  <2> QED
    BY <1>3, <2>1, <2>3, <2>4, <2>5, <2>6 DEF RunInv, IdleInv, ReplayInv, StampInv, BuildInv
<1>12. CASE EndBuild
  <2>1. pc = "build" /\ pc' = "built" /\ todo = {} /\ UNCHANGED <<src, objs, manifest>>
    BY <1>12 DEF EndBuild
  <2> QED
    BY <1>3, <2>1 DEF RunInv, IdleInv, ReplayInv, StampInv, BuildInv, Good
<1>13. CASE OpenManifest
  <2>1. pc = "built" /\ pc' = "snapshot" /\ UNCHANGED <<src, objs>>
    BY <1>13 DEF OpenManifest
  <2> QED
    BY <1>3, <2>1 DEF RunInv, IdleInv, ReplayInv, StampInv, BuildInv, Good
<1>14. CASE WriteManifest
  <2>1. /\ pc = "snapshot" /\ pc' = IF ci THEN "save" ELSE "idle"
        /\ manifest' = [state |-> "ok", files |-> src] /\ UNCHANGED <<src, objs>>
    BY <1>14 DEF WriteManifest
  <2>2. manifest'.state = "ok" /\ manifest'.files = src
    BY <2>1
  <2>3. Agree(src, objs)
    BY <1>3, <2>1 DEF RunInv, BuildInv, Good, Agree, Present
  <2>4. \A s \in Sources : Sound(s)'
    BY <1>3, <2>1 DEF RunInv, BuildInv, Sound, Good
  <2> QED
    BY <2>1, <2>2, <2>3, <2>4 DEF RunInv, IdleInv, ReplayInv, StampInv, BuildInv
<1>15. CASE SaveTree \/ Prune \/ Stop \/ EndJob
  <2>1. pc' \in {"idle", "post", "prune"}
    BY <1>15 DEF SaveTree, Prune, Stop, EndJob
  <2>2. ci
    <3>1. CASE Stop \/ EndJob
      BY <3>1 DEF Stop, EndJob, Spared
    <3>2. CASE SaveTree \/ Prune
      BY <1>3, <3>2 DEF SaveTree, Prune, RunInv, IdleInv
    <3> QED
      BY <1>15, <3>1, <3>2
  <2> QED
    BY <2>1, <2>2 DEF RunInv, IdleInv, ReplayInv, StampInv, BuildInv
<1>16. ASSUME NEW s \in Sources, NEW c \in Contents, BuildBaseline(s, c) PROVE RunInv'
  BY <1>3, <1>16 DEF BuildBaseline, RunInv, IdleInv, ReplayInv, StampInv, BuildInv
<1>17. CASE UNCHANGED vars
  <2>1. \A s \in Sources : /\ Sound(s)' = Sound(s) /\ Good(s)' = Good(s)
                           /\ Listed(s)' = Listed(s)
    BY <1>17 DEF vars, Sound, Good, Dirty, Listed, Present
  <2>2. applied \subseteq Sources
    BY DEF IInv, TypeOK
  <2> QED
    BY <1>3, <1>17, <2>1, <2>2 DEF vars, RunInv, IdleInv, ReplayInv, StampInv, BuildInv, Agree,
                                   MayBeUnstamped
<1> QED
  BY <1>4, <1>5, <1>6, <1>7, <1>8, <1>9, <1>10, <1>11, <1>12, <1>13, <1>14, <1>15, <1>16,
     <1>17, <1>18, <1>19 DEF Next

\* The inductive invariant holds of CI jobs and of a local workspace that is spared.
THEOREM BuildTreeInvariance ==
  ASSUME Spared
  PROVE  Spec => []IInv
<1>1. IInv /\ [Next]_vars => IInv'
  BY StepTypeOK, StepTimes, StepRun DEF IInv, RunInv
<1> QED
  BY InitIInv, <1>1, PTL DEF Spec

\* The types hold without any assumption on how runs end.
THEOREM BuildTreeTypeCorrect == Spec => []TypeOK
<1>1. Init => TypeOK
  BY InitIInv DEF IInv
<1> QED
  BY <1>1, StepTypeOK, PTL DEF Spec

\* A file whose time replay restored is safe to skip, in CI whatever fails, and in local
\* runs that complete.
THEOREM ReplayedIsSafeToSkipHolds ==
  ASSUME Spared
  PROVE  Spec => []ReplayedIsSafeToSkip
<1>1. IInv => ReplayedIsSafeToSkip
  BY DEF IInv, TypeOK, BuildInv, Good, ReplayedIsSafeToSkip, UpToDate
<1> QED
  BY BuildTreeInvariance, <1>1, PTL

\* Every other file is rebuilt if its object is of another content: in CI whether or not
\* it could be stamped, and locally if either no edit is backdated or every file is stamped.
THEOREM OthersAreRebuiltHolds ==
  ASSUME Spared
  PROVE  Spec => []OthersAreRebuilt
<1>1. IInv => OthersAreRebuilt
  BY DEF IInv, BuildInv, Good, OthersAreRebuilt, UpToDate
<1> QED
  BY BuildTreeInvariance, <1>1, PTL

\* Cached trees agree with the manifests in them.
THEOREM CachedTreesAgreeHolds ==
  ASSUME Spared
  PROVE  Spec => []CachedTreesAgree
<1>1. IInv => CachedTreesAgree
  BY DEF IInv, CacheInv, Agree, CachedTreesAgree
<1> QED
  BY BuildTreeInvariance, <1>1, PTL

\* What replay verified is not compiled again.
THEOREM ReplayedStaysWarmHolds ==
  ASSUME Spared
  PROVE  Spec => ReplayedStaysWarm
<1>1. IInv /\ [Next]_vars => [\A s \in applied : objs'[s] = objs[s] \/ pc # "build"]_vars
  <2> SUFFICES ASSUME IInv, Next, pc = "build", NEW s \in applied
               PROVE  objs'[s] = objs[s]
    BY DEF vars
  <2>1. ASSUME NEW x \in Sources, Compile(x) PROVE objs'[s] = objs[s]
    <3>1. Good(s) /\ s \in Sources /\ objs \in Trees
      BY DEF IInv, BuildInv, TypeOK
    <3>2. CASE x = s
      <4>1. src[s].mtime \in Nat /\ objs[s].mtime \in Nat
        BY <3>1 DEF IInv, TypeOK, Trees
      <4>2. ~Dirty(s)
        BY <3>1, <4>1, BuildTreeAssumption DEF Good, Dirty
      <4> QED
        BY <2>1, <3>2, <4>2 DEF Compile
    <3>3. CASE x # s
      BY <2>1, <3>1, <3>3 DEF Compile, Trees
    <3> QED
      BY <3>2, <3>3
  <2>2. CASE ~(\E x \in Sources : Compile(x))
    BY <2>2 DEF Next, Checkout, Edit, Delete, RunAll, Stamp, StampFails, Apply, EndStamp, EndReplay, EndBuild,
                OpenManifest, WriteManifest, SaveTree, BuildBaseline, Prune, EndJob, Stop
  <2> QED
    BY <2>1, <2>2
<1> QED
  BY BuildTreeInvariance, <1>1, PTL DEF ReplayedStaysWarm, Spec
=============================================================================
