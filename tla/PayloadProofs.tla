--------------------------- MODULE PayloadProofs ---------------------------
(***************************************************************************)
(* Proofs about module Payload, for any set of paths and any declaration   *)
(* of patched, pruned and extra ones.                                      *)
(***************************************************************************)
EXTENDS Payload, TLAPS

Reviewed == Present(reviewed) \ (Patched \cup Extras)
Jobs == [pc : {"idle", "clear", "copy", "remove", "write"}, files : Trees,
         from : PatchedSources, preserved : Trees,
         todo : SUBSET Paths, seen : SUBSET Paths]

\* The hash of a reviewed file that the closure has, or will have, is that of upstream.
\* Nothing of the kind holds of the hashes in a discovered manifest.
HashesInv ==
  /\ \A p \in Reviewed : closure[p] = "up"
  /\ At("write") => \A p \in Reviewed : job.files[p] = "up"

\* Patched files are always in the closure.
DeclaredInv ==
  /\ Patched \subseteq Present(closure)
  /\ ~At("idle") => Patched \subseteq Present(job.files)

\* A materialize run holds every patched file.  As long as it has not touched the
\* payload, what it took from there and is still the last saved content is there.
MatInv ==
  /\ job.pc \in {"clear", "copy", "remove"} => \A p \in Patched : job.preserved[p] # None
  /\ job.pc \in {"clear", "copy"} /\ job.from = "payload" =>
       \A p \in Patched : job.preserved[p] = edited[p] => payload[p] = edited[p]

\* What the copy loop has staged so far.
CopyInv ==
  At("copy") =>
    /\ \A p \in Paths \ job.seen : staging[p] = None
    /\ \A p \in job.seen :
         /\ job.files[p] # None
         /\ staging[p] = IF p \in Patched THEN job.preserved[p] ELSE job.files[p]

ClearInv == At("clear") => job.seen = {}

TreeInv == MatInv /\ ClearInv /\ CopyInv /\ StagedIsComplete

IInv == TypeOK /\ HashesInv /\ DeclaredInv /\ TreeInv

\* The initial checkout satisfies the invariant.
LEMMA InitIInv == Init => IInv
<1> SUFFICES ASSUME Init PROVE IInv
  OBVIOUS
<1> USE PayloadAssumption
<1>1. PICK v \in Versions, locked \in SUBSET (Paths \ (Pruned \cup Patched)) :
        payload = [p \in Paths |-> IF p \in Patched THEN v
                                   ELSE IF p \in locked THEN "up" ELSE None]
  BY DEF Init
<1>2. payload \in Trees
  BY <1>1 DEF Trees, Contents
<1>3. TypeOK
  BY <1>2 DEF Init, TypeOK, Trees, Contents, Idle, Job, Empty, None, PatchedSources
<1>4. HashesInv
  BY <1>1 DEF Init, HashesInv, Reviewed, Present, At, Idle, Job, Empty
<1>5. DeclaredInv
  BY <1>1 DEF Init, DeclaredInv, Present, At, Idle, Job, None
<1>6. TreeInv
  BY DEF Init, TreeInv, MatInv, ClearInv, CopyInv, StagedIsComplete, At, Idle, Job
<1> QED
  BY <1>3, <1>4, <1>5, <1>6 DEF IInv

\* What each action keeps of the type invariant.
LEMMA StepTypeOK == TypeOK /\ [Next]_vars => TypeOK'
<1> SUFFICES ASSUME TypeOK, [Next]_vars PROVE TypeOK'
  OBVIOUS
<1> USE PayloadAssumption DEF TypeOK, Trees, Present
<1>1. ASSUME NEW p \in Paths, NEW v \in Versions, EditPatched(p, v) PROVE TypeOK'
  BY <1>1 DEF EditPatched, Contents
<1>2. ASSUME NEW p \in Paths, EditStray(p) PROVE TypeOK'
  BY <1>2 DEF EditStray, Contents
<1>3. ASSUME NEW p \in Paths, NEW c \in {"up", "bad", None}, Drift(p, c)
      PROVE TypeOK'
  BY <1>3 DEF Drift, Contents
<1>4. Empty \in Trees /\ Refreshed \in Trees /\ Union \in Trees
  BY DEF Empty, Refreshed, Union, Contents
<1>5. Idle \in Jobs
  BY <1>4 DEF Idle, Job, Jobs, PatchedSources
<1>6. ASSUME NEW from \in PatchedSources, Materialize(from) PROVE TypeOK'
  <2>1. PatchedSource(from) \in Trees
    BY DEF PatchedSource, PatchedSources, Contents
  <2>2. Preserved(from) \in Trees
    BY <2>1 DEF Preserved, Contents
  <2>3. job' \in Jobs
    BY <1>5, <1>6, <2>2 DEF Materialize, Start, Fail, Job, Jobs
  <2> QED
    BY <1>6, <2>3 DEF Materialize, Jobs
<1>19. ASSUME NEW p \in Paths, Clear(p) PROVE TypeOK'
  BY <1>19 DEF Clear, Contents
<1>18. CASE ListSource
  BY <1>18 DEF ListSource
<1>7. ASSUME NEW p \in Paths, Copy(p) PROVE TypeOK'
  <2>1. CASE Skipped(p)
    BY <1>7, <2>1 DEF Copy, Skipped
  <2>2. CASE Fail /\ UNCHANGED staging
    BY <1>5, <1>7, <2>2 DEF Copy, Fail, Jobs
  <2>3. ASSUME NEW c \in Contents, Staged(p, c) PROVE TypeOK'
    <3>1. job' = [job EXCEPT !.todo = job.todo \ {p}, !.seen = job.seen \cup {p}]
      BY <2>3 DEF Staged
    <3>2. job' \in Jobs
      BY <3>1 DEF Jobs
    <3>3. staging' \in Trees
      BY <2>3 DEF Staged
    <3> QED
      BY <1>7, <3>2, <3>3 DEF Copy, Jobs
  <2>4. job.preserved[p] \in Contents /\ source[p] \in Contents
    OBVIOUS
  <2> QED
    BY <1>7, <2>1, <2>2, <2>3, <2>4 DEF Copy
<1>8. ASSUME NEW p \in Paths, Remove(p) PROVE TypeOK'
  BY <1>8 DEF Remove, Contents
<1>9. CASE CheckComplete
  BY <1>5, <1>9 DEF CheckComplete, Fail, Jobs
<1>10. CASE Swap
  BY <1>4, <1>5, <1>10 DEF Swap, Jobs
<1>11. ASSUME NEW files \in Trees, Start("write", files, "payload", Empty)
       PROVE  job' \in Jobs
  BY <1>4, <1>11 DEF Start, Job, Jobs, PatchedSources
<1>12. CASE Refresh
  BY <1>4, <1>5, <1>11, <1>12 DEF Refresh, Fail, Jobs
<1>13. CASE Truncate \/ WriteClosure
  BY <1>5, <1>13 DEF Truncate, WriteClosure, Jobs
<1>14. ASSUME NEW reads \in SUBSET Paths, Discover(reads) PROVE TypeOK'
  BY <1>14 DEF Discover, Contents
<1>15. CASE Merge
  BY <1>4, <1>5, <1>11, <1>15 DEF Merge, Fail, Jobs
<1>16. CASE Kill
  BY <1>5, <1>16 DEF Kill, Jobs
<1>17. CASE UNCHANGED vars
  BY <1>17 DEF vars
<1> QED
  BY <1>1, <1>2, <1>3, <1>6, <1>7, <1>8, <1>9, <1>10, <1>12, <1>13, <1>14, <1>15, <1>16,
     <1>17, <1>18, <1>19 DEF Next

\* Undeclared files keep their upstream hashes.
LEMMA StepHashes == TypeOK /\ HashesInv /\ [Next]_vars => HashesInv'
<1> SUFFICES ASSUME TypeOK, HashesInv, [Next]_vars PROVE HashesInv'
  OBVIOUS
<1> USE DEF HashesInv, Reviewed, Present, At
<1>0. reviewed' = reviewed
  BY DEF Next, vars, EditPatched, EditStray, Drift, Materialize, Clear, ListSource, Copy, Remove,
         CheckComplete, Swap, Refresh, Truncate, WriteClosure, Discover, Merge, Kill
<1>1. CASE UNCHANGED closure /\ job'.pc # "write"
  BY <1>0, <1>1
<1>2. CASE UNCHANGED <<closure, job>>
  BY <1>0, <1>2
<1>3. CASE Refresh
  <2>1. CASE Start("write", Refreshed, "payload", Empty)
    <3>1. job'.files = Refreshed
      BY <2>1 DEF Start, Job
    <3>2. \A p \in Reviewed : Refreshed[p] = "up"
      BY DEF Refreshed
    <3> QED
      BY <1>0, <1>3, <3>1, <3>2 DEF Refresh
  <2>2. CASE Fail
    BY <1>0, <1>3, <2>2 DEF Refresh, Fail, Idle, Job
  <2> QED
    BY <1>3, <2>1, <2>2 DEF Refresh
<1>4. CASE Merge
  <2>3. Start("write", Union, "payload", Empty) => ~Fail
    BY DEF Start, Fail, Idle, Job
  <2>1. CASE Start("write", Union, "payload", Empty)
    <3>1. job'.files = Union
      BY <2>1 DEF Start, Job
    <3>2. ~Conflict
      BY <1>4, <2>1, <2>3 DEF Merge
    <3>3. \A p \in Reviewed : Union[p] = "up"
      BY <3>2 DEF Union, Conflict, None
    <3> QED
      BY <1>0, <1>4, <3>1, <3>3 DEF Merge
  <2>2. CASE Fail
    BY <1>0, <1>4, <2>2 DEF Merge, Fail, Idle, Job
  <2> QED
    BY <1>4, <2>1, <2>2 DEF Merge
<1>5. CASE WriteClosure
  BY <1>0, <1>5 DEF WriteClosure, Idle, Job
<1>6. ASSUME NEW reads \in SUBSET Paths, Discover(reads) PROVE HashesInv'
  BY <1>2, <1>6 DEF Discover
<1>7. CASE Truncate
  BY <1>2, <1>7 DEF Truncate
<1>13. ASSUME NEW from \in PatchedSources, Materialize(from) PROVE HashesInv'
  BY <1>1, <1>13 DEF Materialize, Start, Fail, Idle, Job
<1>14. ASSUME NEW p \in Paths, Clear(p) PROVE HashesInv'
  BY <1>2, <1>14 DEF Clear
<1>15. CASE ListSource
  <2>1. job.pc = "clear" /\ job'.pc = "copy" /\ job'.files = job.files /\ closure' = closure
    BY <1>15 DEF ListSource, TypeOK
  <2> QED
    BY <1>1, <2>1
<1>8. CASE CheckComplete \/ Swap \/ Kill
  BY <1>1, <1>8 DEF CheckComplete, Swap, Kill, Start, Fail, Idle, Job, TypeOK
<1>9. ASSUME NEW p \in Paths, Copy(p) PROVE HashesInv'
  <2>1. CASE Fail
    BY <1>1, <1>9, <2>1 DEF Copy, Fail, Idle, Job
  <2>2. CASE Skipped(p) \/ (\E c : Staged(p, c))
    <3>1. job'.pc = job.pc /\ job'.files = job.files
      BY <2>2 DEF Skipped, Staged, TypeOK
    <3> QED
      BY <1>1, <1>9, <3>1 DEF Copy
  <2> QED
    BY <1>9, <2>1, <2>2 DEF Copy
<1>10. ASSUME NEW p \in Paths, Remove(p) PROVE HashesInv'
  BY <1>2, <1>10 DEF Remove
<1>11. ASSUME NEW p \in Paths, EditStray(p) \/ (\E v \in Versions : EditPatched(p, v))
              \/ (\E c \in {"up", "bad", None} : Drift(p, c))
       PROVE HashesInv'
  BY <1>2, <1>11 DEF EditStray, EditPatched, Drift
<1>12. CASE UNCHANGED vars
  BY <1>2, <1>12 DEF vars
<1> QED
  BY <1>3, <1>4, <1>5, <1>6, <1>7, <1>8, <1>9, <1>10, <1>11, <1>12, <1>13,
     <1>14, <1>15 DEF Next

\* Patched files stay in the closure.
LEMMA StepDeclared == TypeOK /\ DeclaredInv /\ [Next]_vars => DeclaredInv'
<1> SUFFICES ASSUME TypeOK, DeclaredInv, [Next]_vars PROVE DeclaredInv'
  OBVIOUS
<1> USE PayloadAssumption DEF DeclaredInv, At, Present
<1>1. CASE /\ UNCHANGED closure
           /\ job'.pc = "idle" \/ (job'.files = job.files /\ job.pc # "idle")
  BY <1>1
<1>2. CASE UNCHANGED <<closure, job>>
  BY <1>2
<1>3. ASSUME NEW from \in PatchedSources, Materialize(from) PROVE DeclaredInv'
  BY <1>3 DEF Materialize, Start, Fail, Idle, Job
<1>4. CASE Refresh
  <2>1. CASE Patched \subseteq Present(closure) \cap Present(payload)
             /\ Start("write", Refreshed, "payload", Empty)
    <3>1. job'.files = Refreshed /\ closure' = closure
      BY <1>4, <2>1 DEF Start, Job, Refresh
    <3>2. \A p \in Patched : Refreshed[p] # None
      BY <2>1 DEF Refreshed
    <3> QED
      BY <3>1, <3>2
  <2>2. CASE Fail
    BY <1>4, <2>2 DEF Refresh, Fail, Idle, Job
  <2> QED
    BY <1>4, <2>1, <2>2 DEF Refresh
<1>5. CASE Merge
  <2>1. CASE Extras \subseteq Present(source) /\ Start("write", Union, "payload", Empty)
    <3>1. job'.files = Union /\ closure' = closure
      BY <1>5, <2>1 DEF Start, Job, Merge
    <3>2. \A p \in Patched : Union[p] # None
      BY <2>1 DEF Union
    <3> QED
      BY <3>1, <3>2
  <2>2. CASE Fail
    BY <1>5, <2>2 DEF Merge, Fail, Idle, Job
  <2> QED
    BY <1>5, <2>1, <2>2 DEF Merge
<1>6. CASE WriteClosure
  BY <1>6 DEF WriteClosure, Idle, Job
<1>7. CASE Truncate
  BY <1>7 DEF Truncate
<1>14. ASSUME NEW p \in Paths, Clear(p) PROVE DeclaredInv'
  BY <1>2, <1>14 DEF Clear
<1>15. CASE ListSource
  <2>1. job.pc = "clear" /\ job'.pc = "copy" /\ job'.files = job.files /\ closure' = closure
    BY <1>15 DEF ListSource, TypeOK
  <2> QED
    BY <1>1, <2>1
<1>8. CASE CheckComplete \/ Swap \/ Kill
  BY <1>1, <1>8 DEF CheckComplete, Swap, Kill, Fail, Idle, Job, TypeOK
<1>9. ASSUME NEW p \in Paths, Copy(p) PROVE DeclaredInv'
  <2>1. CASE Fail
    BY <1>1, <1>9, <2>1 DEF Copy, Fail, Idle, Job
  <2>2. CASE Skipped(p) \/ (\E c : Staged(p, c))
    <3>1. job'.pc = job.pc /\ job'.files = job.files
      BY <2>2 DEF Skipped, Staged, TypeOK
    <3> QED
      BY <1>1, <1>9, <3>1 DEF Copy
  <2> QED
    BY <1>9, <2>1, <2>2 DEF Copy
<1>10. ASSUME NEW p \in Paths, Remove(p) PROVE DeclaredInv'
  BY <1>2, <1>10 DEF Remove
<1>11. ASSUME NEW p \in Paths, EditStray(p) \/ (\E v \in Versions : EditPatched(p, v))
              \/ (\E c \in {"up", "bad", None} : Drift(p, c))
       PROVE DeclaredInv'
  BY <1>2, <1>11 DEF EditStray, EditPatched, Drift
<1>12. ASSUME NEW reads \in SUBSET Paths, Discover(reads) PROVE DeclaredInv'
  BY <1>2, <1>12 DEF Discover
<1>13. CASE UNCHANGED vars
  BY <1>2, <1>13 DEF vars
<1> QED
  BY <1>3, <1>4, <1>5, <1>6, <1>7, <1>8, <1>9, <1>10, <1>11, <1>12, <1>13,
     <1>14, <1>15 DEF Next

\* The trees: what is staged is complete before the payload goes.
LEMMA StepTrees == TypeOK /\ DeclaredInv /\ TreeInv /\ [Next]_vars => TreeInv'
<1> SUFFICES ASSUME TypeOK, DeclaredInv, TreeInv, [Next]_vars PROVE TreeInv'
  OBVIOUS
<1> USE PayloadAssumption DEF TreeInv, MatInv, ClearInv, CopyInv, StagedIsComplete, At
<1>1. CASE job'.pc \in {"idle", "write"}
  BY <1>1
<1>2. CASE UNCHANGED <<payload, staging, edited, job>>
  BY <1>2
<1>3. ASSUME NEW p \in Paths, NEW v \in Versions, EditPatched(p, v) PROVE TreeInv'
  <2>1. /\ payload' = [payload EXCEPT ![p] = v] /\ edited' = [edited EXCEPT ![p] = v]
        /\ UNCHANGED <<staging, job>>
    BY <1>3 DEF EditPatched
  <2>2. \A q \in Paths : payload'[q] = edited'[q] \/ UNCHANGED <<payload[q], edited[q]>>
    BY <2>1 DEF TypeOK, Trees
  <2>3. MatInv'
    BY <2>1, <2>2
  <2> QED
    BY <2>1, <2>3
<1>4. ASSUME NEW p \in Paths, EditStray(p) PROVE TreeInv'
  BY <1>4 DEF EditStray, TypeOK, Trees
<1>5. ASSUME NEW from \in PatchedSources, Materialize(from) PROVE TreeInv'
  <2>1. CASE Patched \subseteq Present(PatchedSource(from))
    <3>1. /\ job'.pc = "clear" /\ job'.from = from
          /\ job'.preserved = Preserved(from) /\ job'.seen = {}
      BY <1>5, <2>1 DEF Materialize, Start, Job
    <3>2. \A p \in Patched : Preserved(from)[p] # None
      BY <2>1 DEF Preserved, Present
    <3>3. from = "payload" => \A p \in Patched : Preserved(from)[p] = payload[p]
      BY DEF Preserved, PatchedSource
    <3>4. UNCHANGED <<payload, staging, edited>>
      BY <1>5 DEF Materialize
    <3> QED
      BY <3>1, <3>2, <3>3, <3>4
  <2>2. CASE ~(Patched \subseteq Present(PatchedSource(from)))
    BY <1>1, <1>5, <2>2 DEF Materialize, Fail, Idle, Job
  <2> QED
    BY <2>1, <2>2
<1>16. ASSUME NEW p \in Paths, Clear(p) PROVE TreeInv'
  BY <1>16 DEF Clear
<1>17. CASE ListSource
  <2>1. /\ job'.pc = "copy" /\ job'.seen = job.seen /\ job'.from = job.from
        /\ job'.preserved = job.preserved
    BY <1>17 DEF ListSource, TypeOK
  <2>2. job.pc = "clear" /\ UNCHANGED <<payload, staging, edited>>
    BY <1>17 DEF ListSource
  <2>3. \A p \in Paths : staging[p] = None
    BY <1>17 DEF ListSource, Present
  <2> QED
    BY <2>1, <2>2, <2>3
<1>6. ASSUME NEW p \in Paths, Copy(p) PROVE TreeInv'
  <2>1. CASE Fail
    BY <1>1, <2>1 DEF Fail, Idle, Job
  <2>2. CASE Skipped(p)
    BY <1>6, <2>2 DEF Copy, Skipped, TypeOK
  <2>3. ASSUME NEW c, Staged(p, c), job.files[p] # None,
               c = IF p \in Patched THEN job.preserved[p] ELSE job.files[p]
        PROVE TreeInv'
    <3>1. /\ job.pc = "copy" /\ job'.pc = "copy" /\ job'.seen = job.seen \cup {p}
          /\ job'.files = job.files /\ job'.preserved = job.preserved /\ job'.from = job.from
      BY <1>6, <2>3 DEF Copy, Staged, TypeOK
    <3>2. UNCHANGED <<payload, edited>> /\ staging' = [staging EXCEPT ![p] = c]
      BY <1>6, <2>3 DEF Copy, Staged
    <3> QED
      BY <2>3, <3>1, <3>2 DEF TypeOK, Trees
  <2> QED
    BY <1>6, <2>1, <2>2, <2>3 DEF Copy
<1>7. CASE CheckComplete
  <2>1. CASE Fail
    BY <1>1, <2>1 DEF Fail, Idle, Job
  <2>2. CASE /\ Present(job.files) \subseteq job.seen
             /\ job' = [job EXCEPT !.pc = "remove"]
    <3>1. job'.pc = "remove" /\ job'.files = job.files /\ job'.preserved = job.preserved
      BY <2>2 DEF TypeOK
    <3>2. UNCHANGED <<payload, staging, edited>> /\ job.pc = "copy"
      BY <1>7 DEF CheckComplete
    <3>3. \A p \in Patched : p \in job.seen
      BY <2>2, <3>2 DEF DeclaredInv, Present
    <3>4. \A p \in Paths \ job.seen : job.files[p] = None
      BY <2>2 DEF Present
    <3> QED
      BY <3>1, <3>2, <3>3, <3>4 DEF TypeOK
  <2> QED
    BY <1>7, <2>1, <2>2 DEF CheckComplete
<1>8. ASSUME NEW p \in Paths, Remove(p) PROVE TreeInv'
  BY <1>8 DEF Remove
<1>9. CASE Swap \/ WriteClosure \/ Kill
  BY <1>1, <1>9 DEF Swap, WriteClosure, Kill, Idle, Job
<1>10. CASE Refresh \/ Merge
  BY <1>1, <1>10 DEF Refresh, Merge, Start, Fail, Idle, Job
<1>12. CASE Truncate
  BY <1>2, <1>12 DEF Truncate
<1>13. ASSUME NEW reads \in SUBSET Paths, Discover(reads) PROVE TreeInv'
  BY <1>2, <1>13 DEF Discover
<1>14. ASSUME NEW p \in Paths, NEW c \in {"up", "bad", None}, Drift(p, c) PROVE TreeInv'
  BY <1>2, <1>14 DEF Drift
<1>15. CASE UNCHANGED vars
  BY <1>2, <1>15 DEF vars
<1> QED
  BY <1>3, <1>4, <1>5, <1>6, <1>7, <1>8, <1>9, <1>10, <1>12, <1>13, <1>14, <1>15, <1>16,
     <1>17 DEF Next

\* A materialize run that may lose the patched file p.
MayLose(p) ==
  /\ job.pc \in {"clear", "copy", "remove"}
  /\ job.from # "payload" \/ job.preserved[p] # edited[p]

\* No step loses a patched file but one of a run that may.
LEMMA StepKeepsPatches ==
  ASSUME TypeOK, TreeInv, [Next]_vars, NEW p \in Patched
  PROVE  Lost(p)' => Lost(p) \/ MayLose(p)
<1> SUFFICES ASSUME ~Lost(p), ~MayLose(p) PROVE ~Lost(p)'
  OBVIOUS
<1>0. p \in Paths
  BY PayloadAssumption
<1>1. CASE UNCHANGED <<payload, staging, edited>>
  BY <1>1 DEF Lost
<1>2. ASSUME NEW q \in Paths, NEW v \in Versions, EditPatched(q, v) PROVE ~Lost(p)'
  <2>1. /\ payload' = [payload EXCEPT ![q] = v] /\ edited' = [edited EXCEPT ![q] = v]
        /\ UNCHANGED staging
    BY <1>2 DEF EditPatched
  <2> QED
    BY <1>0, <2>1 DEF Lost, TypeOK, Trees
<1>3. ASSUME NEW q \in Paths, EditStray(q) PROVE ~Lost(p)'
  BY <1>0, <1>3 DEF EditStray, Lost, TypeOK, Trees
<1>4. ASSUME job.pc \in {"clear", "copy"}, UNCHANGED <<payload, edited>> PROVE ~Lost(p)'
  BY <1>4 DEF Lost, MayLose, TreeInv, MatInv
<1>5. ASSUME NEW q \in Paths, Clear(q) \/ Copy(q) PROVE ~Lost(p)'
  BY <1>4, <1>5 DEF Clear, Copy, At
<1>6. ASSUME NEW q \in Paths, Remove(q) PROVE ~Lost(p)'
  <2>1. staging[p] = edited[p]
    BY <1>0, <1>6 DEF Remove, At, MayLose, TreeInv, StagedIsComplete
  <2> QED
    BY <1>6, <2>1 DEF Remove, Lost
<1>7. CASE Swap
  <2>1. staging[p] = edited[p]
    BY <1>0, <1>7 DEF Swap, At, MayLose, TreeInv, StagedIsComplete
  <2> QED
    BY <1>7, <2>1 DEF Swap, Lost
<1>8. ASSUME NEW from \in PatchedSources, Materialize(from) PROVE ~Lost(p)'
  BY <1>1, <1>8 DEF Materialize
<1>9. CASE ListSource \/ CheckComplete \/ Refresh \/ Truncate \/ WriteClosure \/ Merge \/ Kill
  BY <1>1, <1>9 DEF ListSource, CheckComplete, Refresh, Truncate, WriteClosure, Merge, Kill
<1>10. ASSUME NEW reads \in SUBSET Paths, Discover(reads) PROVE ~Lost(p)'
  BY <1>1, <1>10 DEF Discover
<1>11. ASSUME NEW q \in Paths, NEW c \in {"up", "bad", None}, Drift(q, c) PROVE ~Lost(p)'
  BY <1>1, <1>11 DEF Drift
<1>12. CASE UNCHANGED vars
  BY <1>1, <1>12 DEF vars
<1> QED
  BY <1>2, <1>3, <1>5, <1>6, <1>7, <1>8, <1>9, <1>10, <1>11, <1>12 DEF Next

\* The inductive invariant of the payload tools holds whatever is run, edited or killed.
THEOREM PayloadInvariance == Spec => []IInv
<1>1. IInv /\ [Next]_vars => IInv'
  BY StepTypeOK, StepHashes, StepDeclared, StepTrees DEF IInv
<1> QED
  BY InitIInv, <1>1, PTL DEF Spec

\* Every variable keeps its type.
THEOREM PayloadTypeCorrect == Spec => []TypeOK
BY PayloadInvariance, PTL DEF IInv

\* In what verify.py accepts, the reviewed files are upstream's, whatever was drifted,
\* discovered and merged since the review.
THEOREM VerifiedIsUpstreamHolds == Spec => []VerifiedIsUpstream
<1>1. IInv => VerifiedIsUpstream
  BY DEF IInv, HashesInv, Reviewed, VerifiedIsUpstream, Verified
<1> QED
  BY PayloadInvariance, <1>1, PTL

\* A patch is only lost by a materialize run that took its patches from elsewhere, or
\* from the payload before the patch was saved.
THEOREM PatchesSurviveHolds == Spec => PatchesSurvive
<1>1. IInv /\ [Next]_vars =>
        [\A p \in Patched : Lost(p)' =>
           \/ Lost(p)
           \/ /\ job.pc \in {"clear", "copy", "remove"}
              /\ job.from # "payload" \/ job.preserved[p] # edited[p]]_vars
  BY StepKeepsPatches DEF IInv, MayLose
<1> QED
  BY PayloadInvariance, <1>1, PTL DEF Spec, PatchesSurvive

\* The payload is only removed once its replacement is complete.
THEOREM StagedIsCompleteHolds == Spec => []StagedIsComplete
BY PayloadInvariance, PTL DEF IInv, TreeInv
=============================================================================
