----------------------------- MODULE PdbSymbols -----------------------------
(***************************************************************************)
(* The symbol records of one object file on their way into the PDB         *)
(* (lld/COFF/PDB.cpp).  analyzeSymbolSubsection walks the records once, to *)
(* stage the global ones, to note string table references and to compute   *)
(* how large the module symbol stream will be; much later                  *)
(* writeAllModuleSymbolRecords walks them again and writes that stream.    *)
(* Offsets handed out by the first walk are only right if both walks agree.*)
(*                                                                         *)
(* Records are their kinds, every record is one unit long, and an offset   *)
(* counts units.  A corrupt subsection is one whose tail cannot be parsed, *)
(* after the records that can.  The walks are deterministic: the records   *)
(* are chosen as the first walk meets them.  The object has a string table *)
(* (without one its fixups are not applied).                               *)
(***************************************************************************)
EXTENDS Integers, Sequences, FiniteSets, SequencesExt

CONSTANTS
  MaxRecords,      \* bound on the records of the object
  MaxSubsections,  \* bound on its DEBUG_S_SYMBOLS subsections
  DepthModulus     \* values of the unsigned scopeLevel (2^32 in the code)

ASSUME BoundsAssumption ==
  /\ MaxRecords \in Nat /\ MaxSubsections \in Nat \ {0}
  /\ DepthModulus \in Nat /\ DepthModulus > MaxRecords + 1

VARIABLES
  phase,           \* "analyze", "write", "fixup", "done", "failed"
  subs,            \* the subsections: records and whether the tail is corrupt
  sub, next,       \* next subsection and record of the walk
  scopeLevel,      \* uint32_t scopeLevel of the first walk
  symOffset,       \* moduleSymOffset, which becomes moduleStreamSize
  symStart,        \* moduleSymStart of the subsection
  pendingGlobals,  \* staged globals: the record and the module offset noted with it
  fixups,          \* stringTableFixups: the record and the offset to patch
  scopes,          \* the scope stack of the second walk: indices into storage
  storage,         \* records of the subsection being written
  stream           \* records written to the module symbol stream

walk == <<phase, sub, next>>
analysis == <<scopeLevel, symOffset, symStart, pendingGlobals, fixups>>
writing == <<scopes, storage, stream>>
walkVars == <<walk, subs, analysis, writing>>

\* gdata: S_GDATA32, S_GTHREAD32, S_PROCREF; ldata: S_LDATA32, S_LTHREAD32; udt: S_UDT,
\* S_CONSTANT; proc: S_[GL]PROC32[_ID]; block: S_BLOCK32 and the other openers;
\* end: S_END, S_PROC_ID_END, S_INLINESITE_END; static: S_FILESTATIC.
Kinds == {"gdata", "ldata", "udt", "proc", "block", "end", "static"}

SymbolOpensScope(k) == k \in {"proc", "block"}
SymbolEndsScope(k) == k = "end"

SymbolGoesInModuleStream(k, depth) == k # "gdata" /\ (k = "udt" => depth > 0)

SymbolGoesInGlobalsStream(k, depth) ==
  \/ k \in {"gdata", "proc"}
  \/ k \in {"udt", "ldata"} /\ depth = 0

\* The signature that precedes the symbol records of a module.
kSymbolStreamMagicSize == 1

NoOffset == 0

WalkInit ==
  /\ phase = "analyze"
  /\ subs = <<[recs |-> <<>>, corrupt |-> FALSE]>>
  /\ sub = 1 /\ next = 1
  /\ scopeLevel = 0
  /\ symOffset = kSymbolStreamMagicSize
  /\ symStart = kSymbolStreamMagicSize
  /\ pendingGlobals = <<>>
  /\ fixups = <<>>
  /\ scopes = <<>> /\ storage = <<>> /\ stream = <<>>

\* The places of the records met: the subsection and the position in it.
Places == (1..MaxSubsections) \X (1..MaxRecords)
Records == {p \in Places : p[1] \in DOMAIN subs /\ p[2] \in DOMAIN subs[p[1]].recs}

----------------------------------------------------------------------------
(* The first walk: analyzeSymbolSubsection *)

\* ++scopeLevel, --scopeLevel on a uint32_t
Track(level, k) ==
  CASE SymbolOpensScope(k) -> (level + 1) % DepthModulus
    [] SymbolEndsScope(k)  -> (level + DepthModulus - 1) % DepthModulus
    [] OTHER               -> level

\* A record of kind k at nesting depth: staged if it is global, counted if it is for
\* the module stream.
Place(k, depth) ==
  LET here == [rec |-> <<sub, next>>, off |-> symOffset]
  IN  /\ pendingGlobals' = IF SymbolGoesInGlobalsStream(k, depth)
                             THEN Append(pendingGlobals, here) ELSE pendingGlobals
      /\ IF SymbolGoesInModuleStream(k, depth)
           THEN /\ symOffset' = symOffset + 1
                /\ fixups' = IF k = "static" THEN Append(fixups, here) ELSE fixups
           ELSE UNCHANGED <<symOffset, fixups>>

VisitRecord(k) ==
  /\ phase = "analyze"
  /\ Cardinality(Records) < MaxRecords
  /\ subs' = [subs EXCEPT ![sub].recs = Append(@, k)]
  /\ next' = next + 1
  /\ scopeLevel' = Track(scopeLevel, k)
  /\ UNCHANGED <<phase, sub, symStart, writing>>

AnalyzeRecord(k) == VisitRecord(k) /\ Place(k, Track(scopeLevel, k))

\* The next subsection starts, or, after the last one, finish lays the stream out:
\* symbols are only written later (addUnmergedSymbols) if there are any.
EndSubsection(corrupt, more, offset) ==
  LET ended == [subs EXCEPT ![sub].corrupt = corrupt]
  IN  /\ phase = "analyze"
      /\ more => sub < MaxSubsections
      /\ symOffset' = offset
      /\ symStart' = offset
      /\ next' = 1
      /\ IF more
           THEN /\ subs' = Append(ended, [recs |-> <<>>, corrupt |-> FALSE])
                /\ sub' = sub + 1
                /\ UNCHANGED phase
           ELSE /\ subs' = ended
                /\ sub' = 1
                /\ phase' = IF offset > kSymbolStreamMagicSize THEN "write" ELSE "fixup"
      /\ UNCHANGED <<pendingGlobals, fixups, writing>>

Kept(corrupt) == IF corrupt THEN symStart ELSE symOffset

\* Mutant: the offset is not put back after a corrupt tail.
AnalyzeEndWithoutUndo(corrupt, more) ==
  EndSubsection(corrupt, more, symOffset) /\ scopeLevel' = 0

\* Mutant: the scope level is carried over into the next subsection.
AnalyzeEndKeepsScope(corrupt, more) ==
  EndSubsection(corrupt, more, Kept(corrupt)) /\ UNCHANGED scopeLevel

\* The end of a subsection; after a corrupt tail the offset is put back.
AnalyzeEnd(corrupt, more) ==
  EndSubsection(corrupt, more, Kept(corrupt)) /\ scopeLevel' = 0

----------------------------------------------------------------------------
(* The second walk: writeAllModuleSymbolRecords *)

\* writer.getOffset()
Written == kSymbolStreamMagicSize + Len(stream)

ScopeStackOpen == scopes' = Append(scopes, Len(storage) + 1)

\* Mutant: the base offset of the subsection is left out of the links.
LinkedWithoutBase ==
  IF scopes = <<>> THEN storage
  ELSE [storage EXCEPT ![Last(scopes)].ptrEnd = kSymbolStreamMagicSize + Len(storage)]

\* The record that opened the scope learns where its scope ends and who encloses it;
\* an end without an opener is only warned about.
Linked ==
  IF scopes = <<>> THEN storage
  ELSE LET outer == Front(scopes)
       IN  [storage EXCEPT ![Last(scopes)].ptrEnd = Written + Len(storage),
                           ![Last(scopes)].ptrParent =
                              IF outer = <<>> THEN NoOffset ELSE Last(outer) - 1 + Written]

WriteRecord ==
  /\ phase = "write"
  /\ sub <= Len(subs)
  /\ next <= Len(subs[sub].recs)
  /\ LET k == subs[sub].recs[next]
         linked == IF SymbolEndsScope(k) THEN Linked ELSE storage
         written == [rec |-> <<sub, next>>, ptrEnd |-> NoOffset, ptrParent |-> NoOffset]
     IN  /\ \/ SymbolOpensScope(k) /\ ScopeStackOpen
            \/ SymbolEndsScope(k) /\ scopes' = IF scopes = <<>> THEN <<>> ELSE Front(scopes)
            \/ ~SymbolOpensScope(k) /\ ~SymbolEndsScope(k) /\ UNCHANGED scopes
         /\ storage' = IF SymbolGoesInModuleStream(k, Len(scopes'))
                         THEN Append(linked, written) ELSE linked
  /\ next' = next + 1
  /\ UNCHANGED <<phase, subs, sub, analysis, stream>>

\* Mutant: the second walk writes what it could parse of a corrupt subsection.
WriteEndKeepsCorrupt ==
  /\ phase = "write"
  /\ sub <= Len(subs)
  /\ next > Len(subs[sub].recs)
  /\ stream' = stream \o storage
  /\ storage' = <<>>
  /\ scopes' = <<>>
  /\ sub' = sub + 1
  /\ next' = 1
  /\ UNCHANGED <<phase, subs, analysis>>

\* What was parsed of a corrupt subsection is dropped.
WriteEnd ==
  /\ phase = "write"
  /\ sub <= Len(subs)
  /\ next > Len(subs[sub].recs)
  /\ stream' = IF subs[sub].corrupt THEN stream ELSE stream \o storage
  /\ storage' = <<>>
  /\ scopes' = <<>>
  /\ sub' = sub + 1
  /\ next' = 1
  /\ UNCHANGED <<phase, subs, analysis>>

WriteDone ==
  /\ phase = "write"
  /\ sub > Len(subs)
  /\ phase' = "fixup"
  /\ UNCHANGED <<sub, next, subs, analysis, writing>>

\* commitSymbolStream: the fixups are patched in; one past the symbols hits the room of
\* the line tables, which are written after it, or the end of the stream, an error.
\* Every reserved byte must have been written, or it is an error (stream_too_long).
Commit ==
  LET astray == \E i \in DOMAIN fixups : fixups[i].off >= symOffset
  IN  /\ phase = "fixup"
      /\ phase' \in IF Written # symOffset THEN {"failed"}
                    ELSE IF astray THEN {"done", "failed"}
                    ELSE {"done"}
      /\ UNCHANGED <<sub, next, subs, analysis, writing>>

WalkNext ==
  \/ \E k \in Kinds : AnalyzeRecord(k)
  \/ \E corrupt, more \in BOOLEAN : AnalyzeEnd(corrupt, more)
  \/ WriteRecord
  \/ WriteEnd
  \/ WriteDone
  \/ Commit

WalkSpec == WalkInit /\ [][WalkNext]_walkVars
----------------------------------------------------------------------------
KindAt(p) == subs[p[1]].recs[p[2]]
Corrupt(p) == subs[p[1]].corrupt

\* Openers minus ends among records i..j of a sequence of kinds.
Depth(recs, i, j) ==
  Cardinality({m \in i..j : SymbolOpensScope(recs[m])})
    - Cardinality({m \in i..j : SymbolEndsScope(recs[m])})

\* No end without an opener before it.
Balanced(recs) == \A j \in DOMAIN recs : Depth(recs, 1, j) >= 0
WellFormed == \A i \in DOMAIN subs : subs[i].corrupt \/ Balanced(subs[i].recs)
Finished == phase \in {"done", "failed"}

\* Where the record at place p is in the written stream.
WrittenAt(p, off) ==
  /\ off - kSymbolStreamMagicSize + 1 \in DOMAIN stream
  /\ stream[off - kSymbolStreamMagicSize + 1].rec = p

\* Both walks agree on how large the stream is, corrupt subsections included, as long
\* as scopes are balanced (analyzeSymbolSubsection, writeAllModuleSymbolRecords).
SizesAgree == Finished /\ WellFormed => Written = symOffset

\* A global that refers back into the module stream (S_PROCREF) refers to its own
\* procedure, and a string table fixup patches the record it was noted for, wherever
\* corrupt subsections were dropped in between.  (The fixups of a corrupt subsection
\* itself are not undone, PDB.cpp:703, and patch whatever is written at their offset.)
ProcRefsResolve ==
  Finished /\ WellFormed =>
    /\ \A i \in DOMAIN pendingGlobals :
         KindAt(pendingGlobals[i].rec) = "proc" /\ ~Corrupt(pendingGlobals[i].rec)
           => WrittenAt(pendingGlobals[i].rec, pendingGlobals[i].off)
    /\ \A i \in DOMAIN fixups :
         ~Corrupt(fixups[i].rec) => WrittenAt(fixups[i].rec, fixups[i].off)

\* Every record of a readable subsection ends up in the globals or the module stream.
NothingLost ==
  Finished /\ WellFormed =>
    \A p \in Records :
      ~Corrupt(p) =>
        \/ \E i \in DOMAIN pendingGlobals : pendingGlobals[i].rec = p
        \/ \E i \in DOMAIN stream : stream[i].rec = p

\* The record that ends the scope opened at i, if there is one.
Closes(recs, i, j) ==
  /\ i < j
  /\ Depth(recs, i, j) = 0
  /\ \A m \in i..(j - 1) : Depth(recs, i, m) > 0

\* Scopes are linked as they nest: ptrEnd is the offset of the record that ends the
\* scope, ptrParent that of the innermost scope around it (scopeStackClose).
ScopesLinked ==
  Finished =>
    \A i \in DOMAIN stream :
      LET p == stream[i].rec
          recs == subs[p[1]].recs
          ends == {j \in DOMAIN recs : SymbolOpensScope(KindAt(p)) /\ Closes(recs, p[2], j)}
          around == {m \in 1..(p[2] - 1) :
                       /\ SymbolOpensScope(recs[m])
                       /\ \A j \in m..p[2] : Depth(recs, m, j) > 0}
      IN  /\ \A j \in ends : WrittenAt(<<p[1], j>>, stream[i].ptrEnd)
          /\ ends = {} => stream[i].ptrEnd = NoOffset
          /\ ends # {} => IF around = {} THEN stream[i].ptrParent = NoOffset
                          ELSE \E m \in around :
                                 /\ \A n \in around : n <= m
                                 /\ WrittenAt(<<p[1], m>>, stream[i].ptrParent)
=============================================================================
