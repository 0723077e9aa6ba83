----------------------------- MODULE SymbolTable -----------------------------
(***************************************************************************)
(* Symbol resolution of the COFF linker: the driver's task queue           *)
(* (Driver.cpp), the parsing of objects, lazy objects and archives         *)
(* (InputFiles.cpp) and the symbol table they fill (SymbolTable.cpp).      *)
(*                                                                         *)
(* Archive members are queued and parsed after the files already queued;   *)
(* a lazy object (between /start-lib and /end-lib) is parsed on the spot,  *)
(* in the middle of the file that needed it: hence the stack of files.     *)
(***************************************************************************)
EXTENDS Integers, Sequences, FiniteSets, SequencesExt, FiniteSetsExt

CONSTANTS
  Names,
  File,          \* of each file: [type, entries]; an archive lists <<name, member>>
  CommandLines,  \* sequences of files
  DefaultLibs,   \* /defaultlib archives, not on the command lines, a sequence
  Includes,      \* /include names: undefined before any file is read
  Roots          \* the entry point and the exported names, a sequence

\* An entry of an object is [op, name, alias, selection, size]: "undef", "weak" (a weak
\* external with its default), "regular", "comdat", "common", "absolute" or "import".  The
\* size stands for the value of an absolute symbol, and for the contents of a COMDAT that
\* must match exactly.  A file type is "object", "lazy" or "archive".
Entries(f) == File[f].entries

None == "none"
Ops == {"undef", "weak", "regular", "comdat", "common", "absolute", "import"}
Selections == {None, "any", "largest", "same size", "exact match", "noduplicates"}
Entry == [op : Ops, name : Names, alias : Names \cup {None}, selection : Selections, size : Nat]

Offers(e) == e.op \notin {"undef", "weak"}
Provides(f, n) == \E e \in Range(Entries(f)) : e.name = n /\ Offers(e)

Files == DOMAIN File
ArchiveFiles == {f \in Files : File[f].type = "archive"}
LazyFiles == {f \in Files : File[f].type = "lazy"}
Members == UNION {{e[2] : e \in Range(Entries(f))} : f \in ArchiveFiles}

ASSUME FilesAssumption ==
  \A f \in Files : IF f \in ArchiveFiles
    THEN Entries(f) \in Seq(Names \X Files)
    ELSE File[f].type \in {"object", "lazy"} /\ Entries(f) \in Seq(Entry)

\* A weak external has a default, and only a COMDAT has a selection.
ASSUME EntriesAssumption ==
  \A f \in Files \ ArchiveFiles : \A e \in Range(Entries(f)) :
    /\ e.op = "weak" => e.alias # None
    /\ e.op # "comdat" => e.selection = None

\* The index of an archive says of its members what they define.
ASSUME IndexAssumption ==
  \A f \in ArchiveFiles : \A e \in Range(Entries(f)) :
    File[e[2]].type = "object" /\ Provides(e[2], e[1])

\* A file is added once (findFileIfNew), a default library only if it is new
\* (findLibIfNew), and a member is no file of its own.
ASSUME InputsAssumption ==
  /\ DefaultLibs \in Seq(ArchiveFiles) /\ IsInjective(DefaultLibs)
  /\ \A files \in CommandLines :
       /\ files \in Seq(Files) /\ IsInjective(files)
       /\ Range(files) \cap (Members \cup Range(DefaultLibs)) = {}
  /\ Includes \subseteq Names /\ Roots \in Seq(Names)

VARIABLES
  queue,   \* taskQueue: files to add
  stack,   \* files being read: [file, lazily, next], the innermost last
  syms,    \* symMap
  lazy,    \* lazy objects not linked in
  seen,    \* ArchiveFile::seen: members handed to the driver
  parsed,  \* files read in full, in order
  dups,    \* names reported as duplicate
  phase,   \* "inputs", "default libs", then "roots" and "read" in turn; "stopped", "done"
  root     \* the next root to add

vars == <<queue, stack, syms, lazy, seen, parsed, dups, phase, root>>

Fresh == [kind |-> None, file |-> None, selection |-> None, size |-> 0, alias |-> None, pending |-> FALSE]
Undefined == [Fresh EXCEPT !.kind = "undef"]
Lazy == {"lazy archive", "lazy object"}
DefinedRegular == {"regular", "comdat"}
DefinedCOFF == DefinedRegular \cup {"common"}

Init ==
  /\ queue \in CommandLines
  /\ stack = <<>>
  /\ syms = [n \in Names |-> IF n \in Includes THEN Undefined ELSE Fresh]
  /\ lazy = Range(queue) \cap LazyFiles
  /\ seen = {}
  /\ parsed = <<>>
  /\ dups = {}
  /\ phase = "inputs"
  /\ root = 1

Kind(n) == syms[n].kind
Is(n, kinds) == Kind(n) \in kinds

\* replaceSymbol: what the symbol was is forgotten.
Replace(n, new) == syms' = [syms EXCEPT ![n] = new]
Reported(n) == dups' = dups \cup {n}
NoLoad == UNCHANGED <<queue, lazy, seen>>

----------------------------------------------------------------------------
(* Loading what defines a symbol; rest is the stack without the step just taken *)

\* ArchiveFile::addMember, enqueueArchiveMember: a member is queued once.
AddMember(m, rest) ==
  /\ stack' = rest
  /\ seen' = seen \cup {m}
  /\ queue' = IF m \in seen THEN queue ELSE Append(queue, m)
  /\ UNCHANGED lazy

\* driver.addFile of a lazy object, which is read at once
LinkLazyObject(f, rest) ==
  /\ lazy' = lazy \ {f}
  /\ stack' = IF f \in lazy THEN Append(rest, [file |-> f, lazily |-> FALSE, next |-> 1]) ELSE rest
  /\ UNCHANGED <<queue, seen>>

ForceLazy(n, rest) ==
  /\ syms' = [syms EXCEPT ![n].pending = TRUE]
  /\ IF Kind(n) = "lazy archive" THEN AddMember(syms[n].file, rest)
                                 ELSE LinkLazyObject(syms[n].file, rest)

AddUndefined(n, overrideLazy, rest) ==
  CASE Kind(n) = None \/ (Is(n, Lazy) /\ overrideLazy) ->
         Replace(n, Undefined) /\ stack' = rest /\ NoLoad
    [] Is(n, Lazy) /\ ~overrideLazy -> ForceLazy(n, rest)
    [] OTHER -> stack' = rest /\ NoLoad /\ UNCHANGED syms

\* addLazyArchive and addLazyObject load for an undefined symbol that has neither a weak
\* alias nor a load under way.
Wanted(n) == Kind(n) = "undef" /\ syms[n].alias = None /\ ~syms[n].pending

\* Mutant: the undefined symbol is not looked at when an archive offers it.
AddLazyIfNew(n, kind, f, rest) ==
  /\ IF Kind(n) = None THEN Replace(n, [Fresh EXCEPT !.kind = kind, !.file = f]) ELSE UNCHANGED syms
  /\ stack' = rest
  /\ NoLoad

AddLazy(n, kind, f, rest) ==
  CASE Kind(n) = None ->
         Replace(n, [Fresh EXCEPT !.kind = kind, !.file = f]) /\ stack' = rest /\ NoLoad
    [] Wanted(n) ->
         /\ syms' = [syms EXCEPT ![n].pending = TRUE]
         /\ IF kind = "lazy archive" THEN AddMember(f, rest) ELSE LinkLazyObject(f, rest)
    [] OTHER -> stack' = rest /\ NoLoad /\ UNCHANGED syms

----------------------------------------------------------------------------
(* Definitions: what they replace and what they report *)

Keep(n) == UNCHANGED <<syms, dups>>
Complain(n) == Reported(n) /\ UNCHANGED syms
Take(n, f, e) ==
  /\ Replace(n, [Fresh EXCEPT !.kind = e.op, !.file = f, !.selection = e.selection, !.size = e.size])
  /\ UNCHANGED dups

AddAbsolute(f, e) ==
  LET n == e.name
  IN CASE Is(n, {None, "undef"} \cup Lazy) -> Take(n, f, e)
       [] Kind(n) = "absolute" -> IF syms[n].size = e.size THEN Keep(n) ELSE Complain(n)
       [] Kind(n) = "import" -> Complain(n)
       [] OTHER -> Keep(n)

AddImport(f, e) ==
  IF Is(e.name, {None, "undef"} \cup Lazy) THEN Take(e.name, f, e) ELSE Complain(e.name)

\* Mutant: a common symbol gives way to nothing but a larger one.
AddRegularKeepsCommon(f, e) ==
  CASE Kind(e.name) = "common" -> Keep(e.name)
    [] Is(e.name, DefinedRegular) -> Complain(e.name)
    [] OTHER -> Take(e.name, f, e)

AddRegular(f, e) == IF Is(e.name, DefinedRegular) THEN Complain(e.name) ELSE Take(e.name, f, e)

AddCommon(f, e) ==
  LET n == e.name
  IN IF ~Is(n, DefinedCOFF) \/ (Kind(n) = "common" /\ e.size > syms[n].size)
       THEN Take(n, f, e) ELSE Keep(n)

\* handleComdatSelection: "any" and "largest" merge as "largest".
MergedSelection(a, b) ==
  CASE a = b -> a
    [] {a, b} = {"any", "largest"} -> "largest"
    [] OTHER -> "conflict"

\* Mutant: a second definition that may not be there is not reported.
HandleComdatSelectionQuietly(f, e) ==
  IF MergedSelection(e.selection, syms[e.name].selection) = "largest" /\ e.size > syms[e.name].size
    THEN Take(e.name, f, [e EXCEPT !.selection = "largest"]) ELSE Keep(e.name)

HandleComdatSelection(f, e) ==
  LET n == e.name
      selection == MergedSelection(e.selection, syms[n].selection)
  IN CASE selection \in {"conflict", "noduplicates"} -> Complain(n)
       [] selection \in {"same size", "exact match"} -> IF e.size # syms[n].size THEN Complain(n) ELSE Keep(n)
       [] selection = "largest" /\ e.size > syms[n].size ->
            Take(n, f, [e EXCEPT !.selection = "largest"])
       [] OTHER -> Keep(n)

AddComdat(f, e) ==
  CASE ~Is(e.name, DefinedRegular) -> Take(e.name, f, e)
    [] Kind(e.name) = "regular" -> Complain(e.name)
    [] OTHER -> HandleComdatSelection(f, e)

\* Entries are what adds a name: malformed symbols, which are fatal, and symbols that are
\* local or ignored are not among them.  Of a COMDAT section only the leader is; its other
\* external symbols, undefined once the section is discarded, are left out.
CreateDefined(f, e) ==
  CASE e.op = "regular" -> AddRegular(f, e)
    [] e.op = "comdat" -> AddComdat(f, e)
    [] e.op = "common" -> AddCommon(f, e)
    [] e.op = "absolute" -> AddAbsolute(f, e)
    [] e.op = "import" -> AddImport(f, e)

----------------------------------------------------------------------------
(* Reading files *)

Top == Last(stack)
TopEntry == Entries(Top.file)[Top.next]
Unread == Top.next <= Len(Entries(Top.file))

\* The stack with the innermost file one entry further
Onward == Append(Front(stack), [Top EXCEPT !.next = @ + 1])
Reading(type) == stack # <<>> /\ (File[Top.file].type = "archive") = (type = "archive") /\ Unread

\* LinkerDriver::run
StartTask ==
  /\ stack = <<>>
  /\ queue # <<>>
  /\ stack' = <<[file |-> Head(queue), lazily |-> Head(queue) \in lazy, next |-> 1]>>
  /\ queue' = Tail(queue)
  /\ UNCHANGED <<syms, lazy, seen, parsed, dups, phase, root>>

\* ArchiveFile::parse; the DllMain of an import library, which it skips, is no entry.
ReadArchiveSymbol ==
  /\ Reading("archive")
  /\ AddLazy(TopEntry[1], "lazy archive", TopEntry[2], Onward)
  /\ UNCHANGED <<parsed, dups, phase, root>>

\* ObjFile::parseLazy, which stops when the file has been linked in
ReadLazySymbol ==
  /\ Reading("object")
  /\ Top.lazily
  /\ Top.file \in lazy
  /\ IF Offers(TopEntry) THEN AddLazy(TopEntry.name, "lazy object", Top.file, Onward)
                         ELSE stack' = Onward /\ NoLoad /\ UNCHANGED syms
  /\ UNCHANGED <<parsed, dups, phase, root>>

\* ObjFile::initializeSymbols, for an undefined symbol or a weak external
ReadUndefined ==
  /\ Reading("object")
  /\ ~Top.lazily
  /\ ~Offers(TopEntry)
  /\ AddUndefined(TopEntry.name, TopEntry.op = "weak", Onward)
  /\ UNCHANGED <<parsed, dups, phase, root>>

ReadDefined ==
  /\ Reading("object")
  /\ ~Top.lazily
  /\ Offers(TopEntry)
  /\ CreateDefined(Top.file, TopEntry)
  /\ stack' = Onward
  /\ NoLoad
  /\ UNCHANGED <<parsed, phase, root>>

WeakOf(f) == {e \in Range(Entries(f)) : e.op = "weak"}

\* checkAndSetWeakAlias, for all weak externals of the file: a symbol that is still
\* undefined gets the alias; one that has another is reported.
SetWeakAliases(f) ==
  LET aliased(n) == Kind(n) = "undef" /\ \E e \in WeakOf(f) : e.name = n
      target(n) == (CHOOSE e \in WeakOf(f) : e.name = n).alias
  IN /\ syms' = [n \in Names |-> IF aliased(n) THEN [syms[n] EXCEPT !.alias = target(n)] ELSE syms[n]]
     /\ dups' = dups \cup {n \in Names : aliased(n) /\ syms[n].alias \notin {None, target(n)}}

\* The file has been read: the aliases are set, and the file that needed it goes on.
EndFile ==
  /\ stack # <<>>
  /\ ~Unread \/ (Top.lazily /\ Top.file \notin lazy)
  /\ stack' = Front(stack)
  /\ parsed' = IF Top.lazily THEN parsed ELSE Append(parsed, Top.file)
  /\ IF Top.lazily \/ File[Top.file].type = "archive"
       THEN UNCHANGED <<syms, dups>>
       ELSE SetWeakAliases(Top.file)
  /\ UNCHANGED <<queue, lazy, seen, phase, root>>

----------------------------------------------------------------------------
(* The driver: read the inputs, then the default libraries, add the roots and read what  *)
(* they queued until they queue nothing                                                  *)

Idle == stack = <<>> /\ queue = <<>>

\* if (errorCount()) return;
InputsRead ==
  /\ phase = "inputs"
  /\ Idle
  /\ phase' = IF dups # {} THEN "stopped" ELSE "default libs"
  /\ queue' = IF dups # {} THEN queue ELSE DefaultLibs
  /\ UNCHANGED <<stack, syms, lazy, seen, parsed, dups, root>>

DefaultLibsRead ==
  /\ phase = "default libs"
  /\ Idle
  /\ phase' = IF dups # {} THEN "stopped" ELSE "roots"
  /\ UNCHANGED <<queue, stack, syms, lazy, seen, parsed, dups, root>>

QueueRead ==
  /\ phase = "read"
  /\ Idle
  /\ phase' = "roots"
  /\ root' = 1
  /\ UNCHANGED <<queue, stack, syms, lazy, seen, parsed, dups>>

\* addGCRoot of an export; a lazy object it forces is read before the next root.  The alias
\* that mangleMaybe gives a root of which only a decorated form exists is left out.
AddRoot ==
  /\ phase = "roots"
  /\ stack = <<>>
  /\ root <= Len(Roots)
  /\ AddUndefined(Roots[root], FALSE, <<>>)
  /\ root' = root + 1
  /\ UNCHANGED <<parsed, dups, phase>>

\* Mutant: run() says that there was work when the queue was empty.
RootsAddedAgain ==
  /\ phase = "roots"
  /\ stack = <<>>
  /\ root > Len(Roots)
  /\ phase' = "read"
  /\ UNCHANGED <<queue, stack, syms, lazy, seen, parsed, dups, root>>

\* do ... while (run())
RootsAdded ==
  /\ phase = "roots"
  /\ stack = <<>>
  /\ root > Len(Roots)
  /\ phase' = IF queue = <<>> THEN "done" ELSE "read"
  /\ UNCHANGED <<queue, stack, syms, lazy, seen, parsed, dups, root>>

Read == ReadArchiveSymbol \/ ReadLazySymbol \/ ReadUndefined \/ ReadDefined \/ EndFile

Next ==
  \/ phase # "roots" /\ StartTask
  \/ Read
  \/ InputsRead \/ DefaultLibsRead \/ QueueRead \/ AddRoot \/ RootsAdded

Spec == Init /\ [][Next]_vars

\* One thread reads the inputs, and every step of it ends.
FairSpec == Spec /\ WF_vars(Next)

----------------------------------------------------------------------------
(* Properties *)

Over == phase \in {"stopped", "done"}
Linked == {f \in Range(parsed) : File[f].type # "archive"}
Archives == Range(parsed) \ Linked

Definitions(n) ==
  UNION {{<<f, i>> : i \in {j \in DOMAIN Entries(f) : Entries(f)[j].name = n /\ Offers(Entries(f)[j])}} :
           f \in Linked}
Def(d) == Entries(d[1])[d[2]]
Defs(n, ops) == {d \in Definitions(n) : Def(d).op \in ops}
Referred(n) == \E f \in Linked : \E e \in Range(Entries(f)) : e.name = n /\ e.op # "weak"
Offered(n) ==
  \/ \E f \in lazy : Provides(f, n)
  \/ \E f \in Archives : \E e \in Range(Entries(f)) : e[1] = n

\* No file is read twice, and when resolution ends nothing that could still be loaded is
\* missing: a symbol left undefined without a weak alias is offered by no archive and no
\* lazy object of the command line, and a symbol left lazy is referred to, if at all, by
\* weak externals only (Driver.cpp:2690, "so we need to continue executing tasks until we
\* converge").
ResolutionIsComplete ==
  /\ \A i, j \in DOMAIN parsed : parsed[i] = parsed[j] => i = j
  /\ phase = "done" => \A n \in Names :
       /\ Kind(n) = "undef" /\ syms[n].alias = None => ~Offered(n) /\ Definitions(n) = {}
       /\ Is(n, Lazy) => ~Referred(n) /\ n \notin Range(Roots) \cup Includes

\* The definition that prevails is the strongest of those linked, in whatever order they
\* came: a regular or COMDAT one, then the largest common one, then an absolute one or an
\* import; of COMDATs selected by size the largest.
StrongestPrevails ==
  Over => \A n \in Names :
    /\ Defs(n, DefinedRegular) # {} => Is(n, DefinedRegular)
    /\ Defs(n, DefinedRegular) = {} /\ Defs(n, {"common"}) # {} =>
         /\ Kind(n) = "common"
         /\ syms[n].size = Max({Def(d).size : d \in Defs(n, {"common"})})
    /\ Definitions(n) # {} => Kind(n) \in {Def(d).op : d \in Definitions(n)}
    /\ Definitions(n) # {} /\ (\A d \in Definitions(n) : Def(d).selection = "largest") =>
         syms[n].size = Max({Def(d).size : d \in Definitions(n)})

Conflict(d, e) ==
  \/ "regular" \in {Def(d).op, Def(e).op}
  \/ LET selection == MergedSelection(Def(d).selection, Def(e).selection)
     IN \/ selection \in {"conflict", "noduplicates"}
        \/ selection \in {"same size", "exact match"} /\ Def(d).size # Def(e).size

\* A name defined by regular and COMDAT symbols alone is reported as duplicate exactly
\* when two of the linked definitions conflict, whichever was seen first
\* (InputFiles.cpp:750, "Making this symmetric").
DuplicateIffConflict ==
  Over => \A n \in Names :
    Definitions(n) = Defs(n, DefinedRegular) /\ (\A f \in Linked : \A e \in WeakOf(f) : e.name # n) =>
      (n \in dups <=> \E d, e \in Definitions(n) : d # e /\ Conflict(d, e))

\* Reading ends, although each file may bring in others.
ResolutionEnds == <>Over
=============================================================================
