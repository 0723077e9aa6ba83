----------------------------- MODULE PdbSerial -----------------------------
(***************************************************************************)
(* What the symbol part of addObjectsToPDB promises: object by object, in  *)
(* input order, the global symbols, frame data, strings and source files   *)
(* of every source with usable debug info go into the shared PDB builders, *)
(* which lay their streams out by insertion order.  A link may die on a    *)
(* malformed object that is still to be published.                         *)
(***************************************************************************)
EXTENDS Naturals, Sequences, SequencesExt

CONSTANTS
  NumItems,    \* type sources: dependencies, then objects
  ObjectKinds  \* what of a source decides its treatment, a set of records:
               \*   usable    types were merged and there is an object file
               \*   sorted    the relocations of .debug$S are sorted
               \*   readable  .debug$S parses
               \*   globals   the names of its global symbols, a sequence
               \*   fpo       the old FPO records of its .debug$F sections, a sequence
               \*   frames    the programs its new frame data names, a sequence
               \*   broken    the frame data or the checksums cannot be read
               \*   strings   the strings it refers to, or NoTable
               \*   files     the source files of its checksum table, a sequence

Items == 0..(NumItems - 1)
NoTable == "no string table"

VARIABLES
  objs,     \* the input
  next,     \* the next source to publish
  globals,  \* symbols of the GSI builder
  strings,  \* pdbStrTab
  files,    \* source files of the module descriptors
  fpo,      \* old and new frame data of the DBI builder
  dead      \* the process was terminated by a malformed object

serialVars == <<objs, next, globals, strings, files, fpo, dead>>

HasTable(o) == o.strings # NoTable

\* What makes finish end the process: checksums without a string table to name the files
\* (fatal); with one, frame data or a file name that cannot be read (exitOnErr).
EndsFinish(o) == IF HasTable(o) THEN o.broken ELSE o.files # <<>>

\* What ends it in analyze or in finish: also a section that does not parse.
Malformed(o) == o.usable /\ (~o.readable \/ EndsFinish(o))

\* DebugStringTableSubsection::insert of each string: known strings are not repeated.
InsertAll(table, names) ==
  FoldLeft(LAMBDA t, n : IF n \in ToSet(t) THEN t ELSE Append(t, n), table, names)

Label(i, names) == [k \in DOMAIN names |-> <<i, names[k]>>]

\* New frame data, strings and files are only published with a string table.  What of them
\* a source that cannot be read has published when the process ends does not matter.
Publishes(o) == HasTable(o) /\ ~o.broken

StringsWith(o, table) ==
  IF Publishes(o) THEN InsertAll(table, o.frames \o o.strings \o o.files) ELSE table

FilesWith(i, o, table) == IF Publishes(o) THEN table \o Label(i, o.files) ELSE table

FpoWith(i, o, table) ==
  [old |-> table.old \o Label(i, o.fpo),
   new |-> IF Publishes(o) THEN table.new \o Label(i, o.frames) ELSE table.new]

SerialInit ==
  /\ objs \in [Items -> ObjectKinds]
  /\ next = 0
  /\ globals = <<>>
  /\ strings = <<"">>
  /\ files = <<>>
  /\ fpo = [old |-> <<>>, new |-> <<>>]
  /\ dead = FALSE

PublishNext ==
  /\ ~dead
  /\ next < NumItems
  /\ LET o == objs[next]
     IN  /\ ~Malformed(o)
         /\ globals' = IF o.usable THEN globals \o Label(next, o.globals) ELSE globals
         /\ strings' = IF o.usable THEN StringsWith(o, strings) ELSE strings
         /\ files' = IF o.usable THEN FilesWith(next, o, files) ELSE files
         /\ fpo' = IF o.usable THEN FpoWith(next, o, fpo) ELSE fpo
  /\ next' = next + 1
  /\ UNCHANGED <<objs, dead>>

Die ==
  /\ ~dead
  /\ \E i \in Items : i >= next /\ Malformed(objs[i])
  /\ dead' = TRUE
  /\ UNCHANGED <<objs, next, strings, files>>
  /\ \/ UNCHANGED <<globals, fpo>>
     \/ /\ EndsFinish(objs[next])
        /\ globals' = globals \o Label(next, objs[next].globals)
        /\ fpo' = FpoWith(next, objs[next], fpo)

SerialNext == PublishNext \/ Die

SerialSpec == SerialInit /\ [][SerialNext]_serialVars
=============================================================================
