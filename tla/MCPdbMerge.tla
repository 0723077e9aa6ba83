----------------------------- MODULE MCPdbMerge -----------------------------
EXTENDS PdbMerge

\* Sorted relocations, everything readable, nothing in it.
Plain ==
  [usable |-> TRUE, sorted |-> TRUE, readable |-> TRUE, globals |-> <<>>, fpo |-> <<>>,
   frames |-> <<>>, broken |-> FALSE, strings |-> <<>>, files |-> <<>>]

NoStrings == [Plain EXCEPT !.strings = "no string table"]

\* A clean object, one to be deferred, both with frame data; one without debug info, one
\* with symbols but no string table; one that does not parse, one with checksums but no
\* string table, one whose frame data cannot be read.
MCObjectKinds ==
  { [Plain EXCEPT !.globals = <<"f", "g">>, !.frames = <<"p">>, !.strings = <<"x">>,
                  !.files = <<"a.c", "a.h">>],
    [Plain EXCEPT !.sorted = FALSE, !.globals = <<"h">>, !.fpo = <<"q">>, !.frames = <<"p", "x">>,
                  !.strings = <<"y", "x">>, !.files = <<"a.h">>],
    [Plain EXCEPT !.usable = FALSE],
    [NoStrings EXCEPT !.globals = <<"k">>, !.frames = <<"r">>],
    [Plain EXCEPT !.readable = FALSE, !.globals = <<"f">>],
    [NoStrings EXCEPT !.sorted = FALSE, !.globals = <<"m">>, !.files = <<"b.c">>],
    [Plain EXCEPT !.broken = TRUE, !.fpo = <<"s">>, !.frames = <<"t">>] }
=============================================================================
