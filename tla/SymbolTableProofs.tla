-------------------------- MODULE SymbolTableProofs --------------------------
(***************************************************************************)
(* Resolution loads all that can be loaded, each file once; the strongest  *)
(* definition prevails, and conflicts are reported, for any files in any   *)
(* order.                                                                  *)
(***************************************************************************)
EXTENDS SymbolTable, SequenceTheorems, TLAPS

Frame == [file : Files, lazily : BOOLEAN, next : Nat \ {0}]
Undef == {None, "undef"} \cup Lazy
Kinds == Undef \cup DefinedCOFF \cup {"absolute", "import"}
Symbol == [kind : Kinds, file : Files \cup {None}, selection : Selections, size : Nat,
           alias : Names \cup {None}, pending : BOOLEAN]
Phases == {"inputs", "default libs", "roots", "read", "stopped", "done"}

TableTypeOK ==
  /\ queue \in Seq(Files)
  /\ stack \in Seq(Frame)
  /\ syms \in [Names -> Symbol]
  /\ lazy \in SUBSET LazyFiles
  /\ seen \in SUBSET Members
  /\ parsed \in Seq(Files)
  /\ dups \in SUBSET Names
  /\ phase \in Phases
  /\ root \in Nat \ {0}

----------------------------------------------------------------------------
(* Where a file is *)

In(s, f) == \E k \in DOMAIN s : s[k] = f
Once(s) == \A j, k \in DOMAIN s : s[j] = s[k] => j = k

\* Entry i of file f has been read by a frame of stack s that links f in; entry 0 is read
\* when the frame is there.
OpenAt(s, f, i) == \E k \in DOMAIN s : s[k].file = f /\ s[k].lazily = FALSE /\ i < s[k].next

\* No frame of stack s that looks at f as a lazy object has entry i still to come.
PastAt(s, f, i) == \A k \in DOMAIN s : s[k].file = f /\ s[k].lazily = TRUE => i < s[k].next

Scans(s, f) == \E k \in DOMAIN s : s[k].file = f /\ s[k].lazily = TRUE

\* No file is linked in by two frames.
Distinct(s) ==
  \A j, k \in DOMAIN s :
    s[j].file = s[k].file /\ s[j].lazily = FALSE /\ s[k].lazily = FALSE => j = k

Loaded(s, p, f) == In(p, f) \/ OpenAt(s, f, 0)

\* A file is in one place: to be read, being read, or read; lazy objects are none of the
\* last two until they are linked in.
FilesInv(q, s, l, sn, p, ph) ==
  /\ Once(q) /\ Once(p) /\ Distinct(s)
  /\ \A f \in Files : In(q, f) => ~Loaded(s, p, f) /\ ~Scans(s, f)
  /\ \A f \in Files : Scans(s, f) => f \in LazyFiles
  /\ \A f \in Files : In(p, f) => ~OpenAt(s, f, 0)
  /\ \A f \in l : ~Loaded(s, p, f)
  /\ \A f \in LazyFiles : In(q, f) => f \in l
  /\ \A m \in Members : m \in sn <=> In(q, m) \/ Loaded(s, p, m)
  /\ ph = "inputs" => \A f \in Files : In(DefaultLibs, f) => ~In(q, f) /\ ~Loaded(s, p, f)

----------------------------------------------------------------------------
(* What the symbols say of the files *)

\* Entry i of object f has been read, as one of a file that is linked in.
Met(f, i) ==
  /\ f \in Files \ ArchiveFiles
  /\ i \in DOMAIN Entries(f)
  /\ In(parsed, f) \/ OpenAt(stack, f, i)

\* The definition of n at d has been read.
Defines(d, n) == Def(d).name = n /\ Offers(Def(d))
MetDef(f, i, n) == Met(f, i) /\ Defines(<<f, i>>, n)

Coming(f) == f \notin lazy /\ (In(queue, f) \/ Loaded(stack, parsed, f))

\* A lazy symbol names a file that defines it; a load under way ends in a definition.
LazyAt(n) ==
  /\ Kind(n) = "lazy archive" => syms[n].file \in Members /\ Provides(syms[n].file, n)
  /\ Kind(n) = "lazy object" =>
       /\ syms[n].file \in LazyFiles /\ Provides(syms[n].file, n) /\ ~In(queue, syms[n].file)
       /\ syms[n].file \in lazy \/ Loaded(stack, parsed, syms[n].file)
  /\ Kind(n) \in Undef /\ syms[n].pending =>
       \E f \in Files \ ArchiveFiles : Coming(f) /\ Provides(f, n)

LazyInv == \A n \in Names : LazyAt(n)

\* A symbol that was asked for is known, and loaded if it can be.
Asked(n) == Kind(n) # None /\ (Kind(n) \in Lazy => syms[n].pending)

AskedInv ==
  /\ \A f \in Files : \A i \in Nat :
       Met(f, i) /\ Entries(f)[i].op = "undef" => Asked(Entries(f)[i].name)
  /\ \A n \in Includes : Asked(n)
  /\ \A r \in DOMAIN Roots : r < root => Asked(Roots[r])
  /\ phase = "done" => root > Len(Roots)

\* The archive or lazy object f has shown the driver its entry i, which is about n.
Shown(f, i, n) ==
  \/ /\ f \in ArchiveFiles
     /\ i \in DOMAIN Entries(f) /\ Entries(f)[i][1] = n
     /\ In(parsed, f) \/ OpenAt(stack, f, i)
  \/ /\ f \in lazy
     /\ i \in DOMAIN Entries(f) /\ Entries(f)[i].name = n /\ Offers(Entries(f)[i])
     /\ ~In(queue, f) /\ PastAt(stack, f, i)

\* A file that is being read has made n a weak external; its alias is set at the end.
Weakened(n) ==
  \E f \in Files \ ArchiveFiles : \E i \in DOMAIN Entries(f) :
    OpenAt(stack, f, i) /\ Entries(f)[i].op = "weak" /\ Entries(f)[i].name = n

\* What has been offered is known, and taken if it is wanted.
OfferInv ==
  \A n \in Names : \A f \in Files : \A i \in Nat :
    Shown(f, i, n) => Kind(n) # None /\ (Wanted(n) => Weakened(n))

----------------------------------------------------------------------------
(* What the symbols say of the definitions *)

\* The symbol is one of the definitions met, and none is stronger.
Leads(n, f, i) ==
  /\ MetDef(f, i, n)
  /\ Kind(n) = Def(<<f, i>>).op
  /\ syms[n].size = Def(<<f, i>>).size
  /\ \/ syms[n].selection = Def(<<f, i>>).selection
     \/ {syms[n].selection, Def(<<f, i>>).selection} \subseteq {"any", "largest"}

StrongAt(n) ==
  /\ Kind(n) \notin Undef => \E f \in Files : \E i \in Nat : Leads(n, f, i)
  /\ \A f \in Files : \A i \in Nat : MetDef(f, i, n) =>
       /\ Kind(n) \notin Undef
       /\ Def(<<f, i>>).op \in DefinedRegular => Kind(n) \in DefinedRegular
       /\ Def(<<f, i>>).op = "common" =>
            \/ Kind(n) \in DefinedRegular
            \/ Kind(n) = "common" /\ syms[n].size >= Def(<<f, i>>).size
  /\ (\A f \in Files : \A i \in Nat : MetDef(f, i, n) => Def(<<f, i>>).selection = "largest") =>
       \A f \in Files : \A i \in Nat : MetDef(f, i, n) =>
         syms[n].selection = "largest" /\ syms[n].size >= Def(<<f, i>>).size

StrongInv == \A n \in Names : StrongAt(n)

\* The definitions of n met so far are regular and COMDAT ones, and no file that was read
\* has n as a weak external.
Plain(n) ==
  /\ \A f \in Files : \A i \in Nat : MetDef(f, i, n) => Def(<<f, i>>).op \in DefinedRegular
  /\ \A f \in Files \ ArchiveFiles : In(parsed, f) => \A e \in WeakOf(f) : e.name # n

Clash(n) ==
  \E f, g \in Files : \E i, j \in Nat :
    MetDef(f, i, n) /\ MetDef(g, j, n) /\ <<f, i>> # <<g, j>> /\ Conflict(<<f, i>>, <<g, j>>)

DupsInv == \A n \in Names : Plain(n) => (n \in dups <=> Clash(n))

OverInv == phase \in {"stopped", "done"} => stack = <<>> /\ queue = <<>>

TableInv ==
  /\ TableTypeOK
  /\ FilesInv(queue, stack, lazy, seen, parsed, phase)
  /\ LazyInv /\ AskedInv /\ OfferInv
  /\ StrongInv /\ DupsInv
  /\ OverInv

----------------------------------------------------------------------------
(* Facts about sequences *)

\* Append adds one element at the end.
LEMMA AppendIn ==
  ASSUME NEW S, NEW s \in Seq(S), NEW x \in S
  PROVE  /\ Append(s, x) \in Seq(S)
         /\ \A f : In(Append(s, x), f) <=> In(s, f) \/ f = x
         /\ Once(Append(s, x)) <=> Once(s) /\ ~In(s, x)
  <1>1. Append(s, x) \in Seq(S) /\ Len(Append(s, x)) = Len(s) + 1
        /\ (\A k \in 1..Len(s) : Append(s, x)[k] = s[k])
        /\ Append(s, x)[Len(s) + 1] = x
    OBVIOUS
  <1> DEFINE t == Append(s, x)
  <1>2. PICK n \in Nat : n = Len(s)
    OBVIOUS
  <1>3. DOMAIN s = 1..n /\ DOMAIN t = 1..(n + 1)
    BY <1>1, <1>2
  <1>4. (\A k \in 1..n : t[k] = s[k]) /\ t[n + 1] = x /\ t \in Seq(S)
    BY <1>1, <1>2
  <1> HIDE DEF t
  <1>5. \A f : In(t, f) <=> In(s, f) \/ f = x
    BY <1>3, <1>4 DEF In
  <1>6. ASSUME Once(s), ~In(s, x) PROVE Once(t)
    BY <1>3, <1>4, <1>6 DEF Once, In
  <1>7. ASSUME Once(t) PROVE Once(s) /\ ~In(s, x)
    <2>1. Once(s)
      BY <1>3, <1>4, <1>7 DEF Once
    <2>2. ASSUME NEW k \in 1..n, s[k] = x PROVE FALSE
      <3>1. t[k] = t[n + 1] /\ k \in DOMAIN t /\ n + 1 \in DOMAIN t
        BY <1>3, <1>4, <2>2
      <3>2. k = n + 1
        BY <3>1, <1>7 DEF Once
      <3> QED BY <3>2
    <2> QED BY <2>1, <2>2, <1>3 DEF In
  <1>8. t \in Seq(S) /\ (\A f : In(t, f) <=> In(s, f) \/ f = x) /\ (Once(t) <=> Once(s) /\ ~In(s, x))
    BY <1>4, <1>5, <1>6, <1>7
  <1> QED BY <1>8 DEF t

\* A queue is its head and its tail.
LEMMA TailIn ==
  ASSUME NEW S, NEW s \in Seq(S), s # <<>>, Once(s)
  PROVE  /\ Head(s) \in S /\ Tail(s) \in Seq(S) /\ Once(Tail(s))
         /\ \A f : In(Tail(s), f) <=> In(s, f) /\ f # Head(s)
         /\ In(s, Head(s))
  <1>1. Head(s) \in S /\ Tail(s) \in Seq(S) /\ Len(Tail(s)) = Len(s) - 1 /\ Len(s) \in Nat \ {0}
        /\ (\A k \in 1..(Len(s) - 1) : Tail(s)[k] = s[k + 1]) /\ Head(s) = s[1]
    OBVIOUS
  <1> DEFINE t == Tail(s)
  <1> DEFINE h == Head(s)
  <1>2. PICK n : n = Len(s) - 1
    OBVIOUS
  <1>c. n \in Nat /\ Len(s) = n + 1 /\ Len(t) = n
    BY <1>1, <1>2
  <1>d. n \in Nat
    BY <1>c
  <1>3. DOMAIN s = 1..(n + 1) /\ DOMAIN t = 1..n
    BY <1>1, <1>c
  <1>4. (\A k \in 1..n : t[k] = s[k + 1]) /\ s[1] = h /\ h \in S /\ t \in Seq(S)
    BY <1>1, <1>2
  <1> HIDE DEF t, h
  <1>5. ASSUME NEW j \in DOMAIN t, NEW k \in DOMAIN t, t[j] = t[k] PROVE j = k
    <2>1. j + 1 \in DOMAIN s /\ k + 1 \in DOMAIN s /\ s[j + 1] = s[k + 1] /\ j \in Nat /\ k \in Nat
      BY <1>d, <1>3, <1>4, <1>5
    <2>2. j + 1 = k + 1
      BY <2>1 DEF Once
    <2> QED BY <2>1, <2>2
  <1>6. ASSUME NEW f, In(t, f) PROVE In(s, f) /\ f # h
    <2>1. PICK k \in 1..n : t[k] = f
      BY <1>3, <1>6 DEF In
    <2>2. s[k + 1] = f /\ k + 1 \in DOMAIN s /\ 1 \in DOMAIN s /\ k + 1 # 1
      BY <1>d, <1>3, <1>4, <2>1
    <2> QED BY <2>2, <1>4 DEF In, Once
  <1>7. ASSUME NEW f, In(s, f), f # h PROVE In(t, f)
    <2>1. PICK k \in 1..(n + 1) : s[k] = f
      BY <1>3, <1>7 DEF In
    <2>2. k # 1
      BY <2>1, <1>4, <1>7
    <2>3. k - 1 \in 1..n
      BY <1>d, <2>2
    <2>4. t[k - 1] = s[(k - 1) + 1]
      BY <2>3, <1>4
    <2>5. t[k - 1] = f
      BY <2>4, <2>1
    <2> QED BY <2>5, <2>3, <1>3 DEF In
  <1>8. In(s, h)
    BY <1>d, <1>3, <1>4 DEF In
  <1>9. Once(t)
    BY <1>5 DEF Once
  <1>10. h \in S /\ t \in Seq(S) /\ Once(t) /\ (\A f : In(t, f) <=> In(s, f) /\ f # h) /\ In(s, h)
    BY <1>4, <1>6, <1>7, <1>8, <1>9
  <1> QED BY <1>10 DEF t, h

\* Range, for the sequences and the entries of files.
LEMMA RangeIn == ASSUME NEW s, NEW f PROVE f \in Range(s) <=> In(s, f)
  BY DEF Range, In

\* A frame on top of a stack.
LEMMA AppendFrame ==
  ASSUME NEW s \in Seq(Frame), NEW x \in Frame
  PROVE  /\ Append(s, x) \in Seq(Frame)
         /\ \A f, i : OpenAt(Append(s, x), f, i) <=>
              OpenAt(s, f, i) \/ (x.file = f /\ x.lazily = FALSE /\ i < x.next)
         /\ \A f, i : PastAt(Append(s, x), f, i) <=>
              PastAt(s, f, i) /\ (x.file = f /\ x.lazily = TRUE => i < x.next)
         /\ \A f : Scans(Append(s, x), f) <=> Scans(s, f) \/ (x.file = f /\ x.lazily = TRUE)
         /\ Distinct(Append(s, x)) <=>
              Distinct(s) /\ (x.lazily = FALSE => ~OpenAt(s, x.file, 0))
  <1>1. Append(s, x) \in Seq(Frame) /\ Len(Append(s, x)) = Len(s) + 1
        /\ (\A k \in 1..Len(s) : Append(s, x)[k] = s[k])
        /\ Append(s, x)[Len(s) + 1] = x
    OBVIOUS
  <1> DEFINE t == Append(s, x)
  <1>2. PICK n \in Nat : n = Len(s)
    OBVIOUS
  <1>3. DOMAIN s = 1..n /\ DOMAIN t = 1..(n + 1)
    BY <1>1, <1>2
  <1>4. (\A k \in 1..n : t[k] = s[k]) /\ t[n + 1] = x /\ t \in Seq(Frame)
    BY <1>1, <1>2
  <1>5. ASSUME NEW k \in 1..n PROVE s[k].next \in Nat /\ 0 < s[k].next
    <2>1. s[k] \in Frame
      BY <1>2, <1>5
    <2>2. s[k].next \in Nat \ {0}
      BY <2>1 DEF Frame
    <2> QED BY <2>2
  <1> HIDE DEF t
  <1>6. ASSUME NEW f, NEW i
        PROVE  OpenAt(t, f, i) <=> OpenAt(s, f, i) \/ (x.file = f /\ x.lazily = FALSE /\ i < x.next)
    BY <1>3, <1>4 DEF OpenAt
  <1>7. ASSUME NEW f, NEW i
        PROVE  PastAt(t, f, i) <=> PastAt(s, f, i) /\ (x.file = f /\ x.lazily = TRUE => i < x.next)
    BY <1>3, <1>4 DEF PastAt
  <1>11. ASSUME NEW f PROVE Scans(t, f) <=> Scans(s, f) \/ (x.file = f /\ x.lazily = TRUE)
    BY <1>3, <1>4 DEF Scans
  <1>8. ASSUME Distinct(s), x.lazily = FALSE => ~OpenAt(s, x.file, 0) PROVE Distinct(t)
    BY <1>3, <1>4, <1>5, <1>8 DEF Distinct, OpenAt
  <1>9. ASSUME Distinct(t) PROVE Distinct(s) /\ (x.lazily = FALSE => ~OpenAt(s, x.file, 0))
    <2>1. Distinct(s)
      BY <1>3, <1>4, <1>9 DEF Distinct
    <2>2. ASSUME x.lazily = FALSE, NEW k \in 1..n, s[k].file = x.file, s[k].lazily = FALSE PROVE FALSE
      <3>1. k \in DOMAIN t /\ n + 1 \in DOMAIN t /\ t[k] = s[k] /\ t[n + 1] = x
        BY <1>3, <1>4
      <3>2. k = n + 1
        BY <3>1, <2>2, <1>9 DEF Distinct
      <3> QED BY <3>2
    <2> QED BY <2>1, <2>2, <1>3 DEF OpenAt
  <1>10. /\ t \in Seq(Frame)
         /\ \A f, i : OpenAt(t, f, i) <=>
              OpenAt(s, f, i) \/ (x.file = f /\ x.lazily = FALSE /\ i < x.next)
         /\ \A f, i : PastAt(t, f, i) <=>
              PastAt(s, f, i) /\ (x.file = f /\ x.lazily = TRUE => i < x.next)
         /\ \A f : Scans(t, f) <=> Scans(s, f) \/ (x.file = f /\ x.lazily = TRUE)
         /\ Distinct(t) <=> Distinct(s) /\ (x.lazily = FALSE => ~OpenAt(s, x.file, 0))
    BY <1>4, <1>6, <1>7, <1>8, <1>9, <1>11
  <1> QED BY <1>10 DEF t

\* A stack is its top on the rest.
LEMMA FrontLast ==
  ASSUME NEW s \in Seq(Frame), s # <<>>
  PROVE  Front(s) \in Seq(Frame) /\ Last(s) \in Frame /\ s = Append(Front(s), Last(s))
  <1>1. Len(s) \in Nat \ {0}
    OBVIOUS
  <1>2. Front(s) \in Seq(Frame) /\ Last(s) \in Frame
    BY <1>1 DEF Front, Last
  <1>3. Len(Front(s)) = Len(s) - 1 /\ \A k \in 1..(Len(s) - 1) : Front(s)[k] = s[k]
    <2>1. PICK n : n = Len(s) - 1
      OBVIOUS
    <2>2. n \in Nat /\ \A k \in 1..n : s[k] \in Frame
      BY <1>1, <2>1
    <2>3. Len(SubSeq(s, 1, n)) = n /\ \A k \in 1..n : SubSeq(s, 1, n)[k] = s[k]
      BY <2>2
    <2> QED BY <2>1, <2>3 DEF Front
  <1>4. Len(Append(Front(s), Last(s))) = Len(s)
    BY <1>1, <1>2, <1>3
  <1>5. ASSUME NEW k \in 1..Len(s) PROVE Append(Front(s), Last(s))[k] = s[k]
    BY <1>1, <1>2, <1>3, <1>5 DEF Last
  <1> QED BY <1>2, <1>4, <1>5

\* What a stack says in terms of its top and the rest.
LEMMA PopFrame ==
  ASSUME NEW s \in Seq(Frame), s # <<>>
  PROVE  /\ Front(s) \in Seq(Frame) /\ Last(s) \in Frame
         /\ \A f, i : OpenAt(s, f, i) <=>
              OpenAt(Front(s), f, i) \/ (Last(s).file = f /\ Last(s).lazily = FALSE /\ i < Last(s).next)
         /\ \A f, i : PastAt(s, f, i) <=>
              PastAt(Front(s), f, i) /\ (Last(s).file = f /\ Last(s).lazily = TRUE => i < Last(s).next)
         /\ \A f : Scans(s, f) <=>
              Scans(Front(s), f) \/ (Last(s).file = f /\ Last(s).lazily = TRUE)
         /\ Distinct(s) <=>
              Distinct(Front(s)) /\ (Last(s).lazily = FALSE => ~OpenAt(Front(s), Last(s).file, 0))
  <1>1. PICK b \in Seq(Frame) : b = Front(s)
    BY FrontLast
  <1>2. PICK x \in Frame : x = Last(s)
    BY FrontLast
  <1>3. s = Append(b, x)
    BY <1>1, <1>2, FrontLast
  <1>4. /\ \A f, i : OpenAt(s, f, i) <=>
             OpenAt(b, f, i) \/ (x.file = f /\ x.lazily = FALSE /\ i < x.next)
        /\ \A f, i : PastAt(s, f, i) <=>
             PastAt(b, f, i) /\ (x.file = f /\ x.lazily = TRUE => i < x.next)
        /\ \A f : Scans(s, f) <=> Scans(b, f) \/ (x.file = f /\ x.lazily = TRUE)
        /\ Distinct(s) <=> Distinct(b) /\ (x.lazily = FALSE => ~OpenAt(b, x.file, 0))
    BY <1>3, AppendFrame
  <1> QED BY <1>1, <1>2, <1>4

\* The empty stack.
LEMMA EmptyStack ==
  /\ <<>> \in Seq(Frame) /\ Distinct(<<>>)
  /\ \A f, i : ~OpenAt(<<>>, f, i) /\ PastAt(<<>>, f, i)
  /\ \A f : ~Scans(<<>>, f) /\ ~In(<<>>, f)
  BY DEF Distinct, OpenAt, PastAt, Scans, In

\* Only objects are members, only archives default libraries.
LEMMA FileFacts ==
  /\ Members \subseteq Files \ (ArchiveFiles \cup LazyFiles)
  /\ ArchiveFiles \subseteq Files \ LazyFiles /\ LazyFiles \subseteq Files
  /\ \A f : In(DefaultLibs, f) => f \in ArchiveFiles
  <1>1. ASSUME NEW m \in Members PROVE m \in Files \ (ArchiveFiles \cup LazyFiles)
    <2>1. PICK f \in ArchiveFiles : \E e \in Range(Entries(f)) : m = e[2]
      BY DEF Members
    <2>2. PICK e \in Range(Entries(f)) : m = e[2]
      BY <2>1
    <2>3. Entries(f) \in Seq(Names \X Files)
      BY FilesAssumption DEF ArchiveFiles
    <2>4. m \in Files
      BY <2>2, <2>3 DEF Range
    <2>5. File[m].type = "object"
      BY <2>2, IndexAssumption
    <2> QED BY <2>4, <2>5 DEF ArchiveFiles, LazyFiles
  <1>2. ArchiveFiles \subseteq Files \ LazyFiles /\ LazyFiles \subseteq Files
    BY DEF ArchiveFiles, LazyFiles
  <1>3. \A f : In(DefaultLibs, f) => f \in ArchiveFiles
    BY InputsAssumption DEF In
  <1> QED BY <1>1, <1>2, <1>3

\* The entries of an object
LEMMA EntryFacts ==
  ASSUME NEW f \in Files \ ArchiveFiles
  PROVE  /\ Entries(f) \in Seq(Entry) /\ DOMAIN Entries(f) = 1..Len(Entries(f))
         /\ \A i \in DOMAIN Entries(f) :
              /\ i \in Nat /\ i >= 1
              /\ Entries(f)[i] \in Entry /\ Entries(f)[i] \in Range(Entries(f))
              /\ Entries(f)[i].op = "weak" => Entries(f)[i].alias # None
              /\ Entries(f)[i].op # "comdat" => Entries(f)[i].selection = None
  <1>1. Entries(f) \in Seq(Entry)
    BY FilesAssumption
  <1>2. DOMAIN Entries(f) = 1..Len(Entries(f)) /\ Len(Entries(f)) \in Nat
    BY <1>1
  <1>3. ASSUME NEW i \in DOMAIN Entries(f)
        PROVE  Entries(f)[i] \in Entry /\ Entries(f)[i] \in Range(Entries(f)) /\ i \in Nat /\ i >= 1
    BY <1>1, <1>2 DEF Range
  <1> QED BY <1>1, <1>2, <1>3, EntriesAssumption

\* The index of an archive
LEMMA ArchiveFacts ==
  ASSUME NEW f \in ArchiveFiles
  PROVE  /\ Entries(f) \in Seq(Names \X Files) /\ DOMAIN Entries(f) = 1..Len(Entries(f))
         /\ \A i \in DOMAIN Entries(f) :
              /\ i \in Nat /\ i >= 1
              /\ Entries(f)[i][1] \in Names /\ Entries(f)[i][2] \in Members
              /\ Provides(Entries(f)[i][2], Entries(f)[i][1])
  <1>1. Entries(f) \in Seq(Names \X Files)
    BY FilesAssumption DEF ArchiveFiles
  <1>2. DOMAIN Entries(f) = 1..Len(Entries(f)) /\ Len(Entries(f)) \in Nat
    BY <1>1
  <1>3. ASSUME NEW i \in DOMAIN Entries(f)
        PROVE  /\ i \in Nat /\ i >= 1
               /\ Entries(f)[i][1] \in Names /\ Entries(f)[i][2] \in Members
               /\ Provides(Entries(f)[i][2], Entries(f)[i][1])
    <2>1. Entries(f)[i] \in Range(Entries(f)) /\ Entries(f)[i] \in Names \X Files
      BY <1>1, <1>2 DEF Range
    <2>2. Entries(f)[i][2] \in Members
      BY <2>1 DEF Members
    <2>3. i \in Nat /\ i >= 1
      BY <1>2
    <2> QED BY <2>1, <2>2, <2>3, IndexAssumption
  <1> QED BY <1>1, <1>2, <1>3

\* The innermost file one entry further
LEMMA OnwardFacts ==
  ASSUME TableTypeOK, stack # <<>>
  PROVE  /\ Top \in Frame /\ Onward \in Seq(Frame)
         /\ OpenAt(stack, Top.file, 0) \/ Top.lazily
         /\ \A f : \A i \in Nat : OpenAt(Onward, f, i) <=>
              OpenAt(stack, f, i) \/ (f = Top.file /\ Top.lazily = FALSE /\ i = Top.next)
         /\ \A f : \A i \in Nat : PastAt(Onward, f, i) =>
              PastAt(stack, f, i) \/ (f = Top.file /\ Top.lazily = TRUE /\ i = Top.next)
         /\ \A f : Scans(Onward, f) <=> Scans(stack, f)
         /\ Top.lazily => Scans(stack, Top.file)
         /\ Distinct(Onward) <=> Distinct(stack)
  <1>11. stack \in Seq(Frame)
    BY DEF TableTypeOK
  <1>1. Front(stack) \in Seq(Frame) /\ Top \in Frame
    BY <1>11, PopFrame DEF Top
  <1> DEFINE x == [Top EXCEPT !.next = @ + 1]
  <1>2. /\ Top.next \in Nat /\ Top.next >= 1 /\ Top.file \in Files /\ Top.lazily \in BOOLEAN
    BY <1>1 DEF Frame
  <1>3. x \in Frame /\ x.file = Top.file /\ x.lazily = Top.lazily /\ x.next = Top.next + 1
    BY <1>1, <1>2 DEF Frame
  <1>4. Onward = Append(Front(stack), x)
    BY DEF Onward
  <1> HIDE DEF x
  <1>5. Onward \in Seq(Frame)
    BY <1>1, <1>3, <1>4, AppendFrame
  <1>6. ASSUME NEW f, NEW i \in Nat
        PROVE  /\ OpenAt(Onward, f, i) <=>
                    OpenAt(stack, f, i) \/ (f = Top.file /\ Top.lazily = FALSE /\ i = Top.next)
               /\ PastAt(Onward, f, i) =>
                    PastAt(stack, f, i) \/ (f = Top.file /\ Top.lazily = TRUE /\ i = Top.next)
    <2>1. /\ OpenAt(stack, f, i) <=>
               OpenAt(Front(stack), f, i) \/ (Top.file = f /\ Top.lazily = FALSE /\ i < Top.next)
          /\ PastAt(stack, f, i) <=>
               PastAt(Front(stack), f, i) /\ (Top.file = f /\ Top.lazily = TRUE => i < Top.next)
      BY <1>11, PopFrame DEF Top
    <2>2. /\ OpenAt(Onward, f, i) <=>
               OpenAt(Front(stack), f, i) \/ (x.file = f /\ x.lazily = FALSE /\ i < x.next)
          /\ PastAt(Onward, f, i) <=>
               PastAt(Front(stack), f, i) /\ (x.file = f /\ x.lazily = TRUE => i < x.next)
      BY <1>1, <1>3, <1>4, AppendFrame
    <2>3. i < x.next <=> i < Top.next \/ i = Top.next
      BY <1>2, <1>3
    <2> QED BY <2>1, <2>2, <2>3, <1>3
  <1>7. \A f : Scans(Onward, f) <=> Scans(stack, f)
    <2>1. \A f : Scans(stack, f) <=> Scans(Front(stack), f) \/ (Top.file = f /\ Top.lazily = TRUE)
      BY <1>11, PopFrame DEF Top
    <2>2. \A f : Scans(Onward, f) <=> Scans(Front(stack), f) \/ (x.file = f /\ x.lazily = TRUE)
      BY <1>1, <1>3, <1>4, AppendFrame
    <2> QED BY <2>1, <2>2, <1>3
  <1>8. Distinct(Onward) <=> Distinct(stack)
    <2>1. Distinct(stack) <=>
            Distinct(Front(stack)) /\ (Top.lazily = FALSE => ~OpenAt(Front(stack), Top.file, 0))
      BY <1>11, PopFrame DEF Top
    <2>2. Distinct(Onward) <=>
            Distinct(Front(stack)) /\ (x.lazily = FALSE => ~OpenAt(Front(stack), x.file, 0))
      BY <1>1, <1>3, <1>4, AppendFrame
    <2> QED BY <2>1, <2>2, <1>3
  <1>9. OpenAt(stack, Top.file, 0) \/ Top.lazily
    <2>1. OpenAt(stack, Top.file, 0) <=>
            OpenAt(Front(stack), Top.file, 0)
              \/ (Top.file = Top.file /\ Top.lazily = FALSE /\ 0 < Top.next)
      BY <1>11, PopFrame DEF Top
    <2>2. 0 < Top.next
      BY <1>2
    <2> QED BY <2>1, <2>2, <1>2
  <1>10. Top.lazily => Scans(stack, Top.file)
    BY <1>11, <1>2, PopFrame DEF Top
  <1> QED BY <1>1, <1>5, <1>6, <1>7, <1>8, <1>9, <1>10

----------------------------------------------------------------------------
(* Loading a file *)

\* What a step may load once it has left the stack as rest.
Loads(rest) ==
  \/ stack' = rest /\ NoLoad
  \/ \E m \in Members : AddMember(m, rest)
  \/ \E f \in LazyFiles :
       ~In(queue, f) /\ (f \in lazy \/ Loaded(rest, parsed, f)) /\ LinkLazyObject(f, rest)

\* What holds of the files after a load, compared with the stack as it was left.
LoadedFrom(rest) ==
  /\ queue' \in Seq(Files) /\ stack' \in Seq(Frame)
  /\ lazy' \in SUBSET LazyFiles /\ seen' \in SUBSET Members
  /\ FilesInv(queue', stack', lazy', seen', parsed', phase')
  /\ lazy' \subseteq lazy
  /\ \A f : In(queue, f) => In(queue', f)
  /\ \A f \in LazyFiles : In(queue', f) => In(queue, f)
  /\ \A f \in lazy : f \in lazy' \/ Loaded(stack', parsed', f)
  /\ \A f : \A i \in Nat : OpenAt(rest, f, i) => OpenAt(stack', f, i)
  /\ \A f : \A i \in Nat \ {0} : OpenAt(stack', f, i) => OpenAt(rest, f, i)
  /\ \A f, i : PastAt(stack', f, i) <=> PastAt(rest, f, i)

\* A member is queued once, a lazy object is linked in once.
LEMMA LoadKeeps ==
  ASSUME TableTypeOK, NEW rest \in Seq(Frame),
         FilesInv(queue, rest, lazy, seen, parsed, phase),
         UNCHANGED <<parsed, phase>>, Loads(rest)
  PROVE  LoadedFrom(rest)
  <1> USE DEF TableTypeOK
  <1>1. CASE stack' = rest /\ NoLoad
    BY <1>1 DEF NoLoad, LoadedFrom
  <1>2. ASSUME NEW m \in Members, AddMember(m, rest) PROVE LoadedFrom(rest)
    <2>1. m \in Files /\ m \notin ArchiveFiles /\ m \notin LazyFiles
      BY FileFacts
    <2>2. CASE m \in seen
      <3>1. seen' = seen /\ queue' = queue /\ lazy' = lazy /\ stack' = rest
        BY <1>2, <2>2 DEF AddMember
      <3> QED BY <3>1 DEF LoadedFrom
    <2>3. CASE m \notin seen
      <3>1. seen' = seen \cup {m} /\ queue' = Append(queue, m) /\ lazy' = lazy /\ stack' = rest
        BY <1>2, <2>3 DEF AddMember
      <3>2. ~In(queue, m) /\ ~Loaded(rest, parsed, m)
        BY <2>3 DEF FilesInv
      <3>3. /\ queue' \in Seq(Files)
            /\ \A f : In(queue', f) <=> In(queue, f) \/ f = m
            /\ Once(queue') <=> Once(queue) /\ ~In(queue, m)
        BY <3>1, <2>1, AppendIn
      <3>4. ~Scans(rest, m)
        BY <2>1 DEF FilesInv
      <3>5. phase = "inputs" => ~In(DefaultLibs, m)
        BY <2>1, FileFacts
      <3>6. FilesInv(queue', stack', lazy', seen', parsed', phase')
        BY <3>1, <3>2, <3>3, <3>4, <3>5, <2>1 DEF FilesInv
      <3> QED BY <3>1, <3>3, <3>6, <2>1 DEF LoadedFrom
    <2> QED BY <2>2, <2>3
  <1>3. ASSUME NEW f \in LazyFiles, ~In(queue, f), f \in lazy \/ Loaded(rest, parsed, f),
               LinkLazyObject(f, rest)
        PROVE  LoadedFrom(rest)
    <2>1. CASE f \notin lazy
      <3>1. lazy' = lazy /\ stack' = rest /\ queue' = queue /\ seen' = seen
        BY <1>3, <2>1 DEF LinkLazyObject
      <3> QED BY <3>1 DEF LoadedFrom
    <2>2. CASE f \in lazy
      <3> DEFINE x == [file |-> f, lazily |-> FALSE, next |-> 1]
      <3>1. lazy' = lazy \ {f} /\ stack' = Append(rest, x) /\ queue' = queue /\ seen' = seen
        BY <1>3, <2>2 DEF LinkLazyObject
      <3>2. f \in Files /\ f \notin Members /\ f \notin ArchiveFiles
        BY FileFacts
      <3>3. x \in Frame /\ x.file = f /\ x.lazily = FALSE /\ x.next = 1
        BY <3>2 DEF Frame
      <3> HIDE DEF x
      <3>4. /\ stack' \in Seq(Frame)
            /\ \A g, i : OpenAt(stack', g, i) <=> OpenAt(rest, g, i) \/ (f = g /\ i < 1)
            /\ \A g, i : PastAt(stack', g, i) <=> PastAt(rest, g, i)
            /\ \A g : Scans(stack', g) <=> Scans(rest, g)
            /\ Distinct(stack') <=> Distinct(rest) /\ ~OpenAt(rest, f, 0)
        BY <3>1, <3>3, AppendFrame
      <3>5. ~Loaded(rest, parsed, f)
        BY <2>2 DEF FilesInv
      <3>6. \A g : OpenAt(stack', g, 0) <=> OpenAt(rest, g, 0) \/ g = f
        BY <3>4
      <3>7. \A g : Loaded(stack', parsed', g) <=> Loaded(rest, parsed, g) \/ g = f
        BY <3>6 DEF Loaded
      <3>8. ~In(parsed, f) /\ ~OpenAt(rest, f, 0)
        BY <3>5 DEF Loaded
      <3>9. phase = "inputs" => ~In(DefaultLibs, f)
        BY <3>2, FileFacts
      <3>10. FilesInv(queue', stack', lazy', seen', parsed', phase')
        <4>1. Once(queue') /\ Once(parsed') /\ Distinct(stack')
          BY <3>1, <3>4, <3>8 DEF FilesInv
        <4>2. \A g \in Files : In(queue', g) => ~Loaded(stack', parsed', g) /\ ~Scans(stack', g)
          BY <3>1, <3>4, <3>7, <1>3 DEF FilesInv
        <4>3. \A g \in Files : Scans(stack', g) => g \in LazyFiles
          BY <3>4 DEF FilesInv
        <4>4. \A g \in Files : In(parsed', g) => ~OpenAt(stack', g, 0)
          BY <3>6, <3>8 DEF FilesInv
        <4>5. \A g \in lazy' : ~Loaded(stack', parsed', g)
          BY <3>1, <3>7 DEF FilesInv
        <4>6. \A g \in LazyFiles : In(queue', g) => g \in lazy'
          BY <3>1, <1>3 DEF FilesInv
        <4>7. \A m \in Members : m \in seen' <=> In(queue', m) \/ Loaded(stack', parsed', m)
          BY <3>1, <3>2, <3>7 DEF FilesInv
        <4>8. phase' = "inputs" => \A g \in Files :
                In(DefaultLibs, g) => ~In(queue', g) /\ ~Loaded(stack', parsed', g)
          BY <3>1, <3>7, <3>9 DEF FilesInv
        <4> QED BY <4>1, <4>2, <4>3, <4>4, <4>5, <4>6, <4>7, <4>8 DEF FilesInv
      <3>11. \A g : \A i \in Nat \ {0} : OpenAt(stack', g, i) => OpenAt(rest, g, i)
        BY <3>4
      <3> QED BY <3>1, <3>4, <3>7, <3>10, <3>11 DEF LoadedFrom
    <2> QED BY <2>1, <2>2
  <1> QED BY <1>1, <1>2, <1>3 DEF Loads

\* What a symbol asks for comes.
LEMMA LoadComes ==
  ASSUME TableTypeOK, NEW rest \in Seq(Frame),
         FilesInv(queue, rest, lazy, seen, parsed, phase),
         UNCHANGED <<parsed, phase>>
  PROVE  /\ \A m \in Members : AddMember(m, rest) => Coming(m)'
         /\ \A f \in LazyFiles :
              (f \in lazy \/ Loaded(rest, parsed, f)) /\ LinkLazyObject(f, rest) => Coming(f)'
  <1>1. ASSUME NEW m \in Members, AddMember(m, rest) PROVE Coming(m)'
    <2>1. m \in Files /\ m \notin LazyFiles /\ lazy' = lazy /\ stack' = rest
      BY <1>1, FileFacts DEF AddMember
    <2>2. CASE m \in seen
      <3>1. queue' = queue
        BY <1>1, <2>2 DEF AddMember
      <3> QED BY <2>1, <2>2, <3>1 DEF Coming, FilesInv, TableTypeOK
    <2>3. CASE m \notin seen
      <3>1. In(queue', m)
        BY <1>1, <2>1, <2>3, AppendIn DEF AddMember, TableTypeOK
      <3> QED BY <2>1, <3>1 DEF Coming, TableTypeOK
    <2> QED BY <2>2, <2>3
  <1>2. ASSUME NEW f \in LazyFiles, f \in lazy \/ Loaded(rest, parsed, f), LinkLazyObject(f, rest)
        PROVE  Coming(f)'
    <2>1. CASE f \notin lazy
      BY <1>2, <2>1 DEF LinkLazyObject, Coming
    <2>2. CASE f \in lazy
      <3> DEFINE x == [file |-> f, lazily |-> FALSE, next |-> 1]
      <3>1. lazy' = lazy \ {f} /\ stack' = Append(rest, x)
        BY <1>2, <2>2 DEF LinkLazyObject
      <3>2. x \in Frame /\ x.file = f /\ x.lazily = FALSE /\ 0 < x.next
        BY FileFacts DEF Frame
      <3> HIDE DEF x
      <3>3. OpenAt(stack', f, 0)
        BY <3>1, <3>2, AppendFrame
      <3> QED BY <3>1, <3>3 DEF Coming, Loaded
    <2> QED BY <2>1, <2>2
  <1> QED BY <1>1, <1>2

----------------------------------------------------------------------------
(* Reading one entry *)

\* The entry that is read next.
NextPos(f, i) == stack # <<>> /\ f = Top.file /\ i = Top.next

\* rest is the stack with that entry read.
RestOf(rest) ==
  /\ rest \in Seq(Frame)
  /\ FilesInv(queue, rest, lazy, seen, parsed, phase)
  /\ \A f : \A i \in Nat : OpenAt(stack, f, i) => OpenAt(rest, f, i)
  /\ \A f : \A i \in Nat : OpenAt(rest, f, i) =>
       OpenAt(stack, f, i) \/ (NextPos(f, i) /\ Top.lazily = FALSE)
  /\ \A f : \A i \in Nat : PastAt(rest, f, i) =>
       PastAt(stack, f, i) \/ (NextPos(f, i) /\ Top.lazily = TRUE)
  /\ \A f : Loaded(rest, parsed, f) <=> Loaded(stack, parsed, f)

LEMMA OnwardRest ==
  ASSUME TableInv, stack # <<>>
  PROVE  RestOf(Onward) /\ (Top.lazily = FALSE => OpenAt(Onward, Top.file, Top.next))
  <1>1. TableTypeOK /\ FilesInv(queue, stack, lazy, seen, parsed, phase)
    BY DEF TableInv
  <1>2. Top.next \in Nat /\ 0 # Top.next
    BY <1>1, OnwardFacts DEF Frame
  <1>3. \A f : OpenAt(Onward, f, 0) <=> OpenAt(stack, f, 0)
    BY <1>1, <1>2, OnwardFacts
  <1>4. \A f : Loaded(Onward, parsed, f) <=> Loaded(stack, parsed, f)
    BY <1>3 DEF Loaded
  <1>5. (\A f : Scans(Onward, f) <=> Scans(stack, f)) /\ (Distinct(Onward) <=> Distinct(stack))
    BY <1>1, OnwardFacts
  <1>6. FilesInv(queue, Onward, lazy, seen, parsed, phase)
    BY <1>1, <1>3, <1>4, <1>5 DEF FilesInv
  <1> QED BY <1>1, <1>2, <1>4, <1>6, OnwardFacts DEF RestOf, NextPos

LEMMA EmptyRest == ASSUME TableInv, stack = <<>> PROVE RestOf(<<>>)
  BY DEF TableInv, TableTypeOK, RestOf

\* What no step takes back.
Onwards ==
  /\ \A f \in Files : Coming(f) => Coming(f)'
  /\ \A f \in LazyFiles : ~In(queue, f) => ~In(queue', f)
  /\ \A f \in LazyFiles : f \in lazy \/ Loaded(stack, parsed, f) =>
                          f \in lazy' \/ Loaded(stack', parsed', f)
  /\ \A f \in Files : \A i \in Nat : Met(f, i) => Met(f, i)'
  /\ \A f \in Files : In(parsed, f) => In(parsed', f)

NewMet(f, i) == NextPos(f, i) /\ Top.lazily = FALSE /\ f \notin ArchiveFiles
NewShown(f, i, n) ==
  /\ NextPos(f, i)
  /\ \/ f \in ArchiveFiles /\ i \in DOMAIN Entries(f) /\ Entries(f)[i][1] = n
     \/ /\ f \in lazy /\ Top.lazily = TRUE
        /\ i \in DOMAIN Entries(f) /\ Entries(f)[i].name = n /\ Offers(Entries(f)[i])

\* A step that reads an entry, or a root, and loads what it asks for.
ReadsOne ==
  /\ Onwards
  /\ \A f \in Files : \A i \in Nat : Met(f, i)' => Met(f, i) \/ NewMet(f, i)
  /\ \A n \in Names : \A f \in Files : \A i \in Nat :
       Shown(f, i, n)' => Shown(f, i, n) \/ NewShown(f, i, n)
  /\ \A n \in Names : Weakened(n) => Weakened(n)'

LEMMA ReadsOneEntry ==
  ASSUME TableInv, NEW rest, RestOf(rest), LoadedFrom(rest), UNCHANGED <<parsed, phase>>
  PROVE  ReadsOne
  <1>1. \A f : \A i \in Nat : OpenAt(stack, f, i) => OpenAt(stack', f, i)
    BY DEF RestOf, LoadedFrom
  <1>2. \A f : Loaded(stack, parsed, f) => Loaded(stack', parsed', f)
    BY <1>1 DEF Loaded
  <1>3. \A f : \A i \in Nat \ {0} : OpenAt(stack', f, i) =>
          OpenAt(stack, f, i) \/ (NextPos(f, i) /\ Top.lazily = FALSE)
    BY DEF RestOf, LoadedFrom
  <1>4. \A f : \A i \in Nat : PastAt(stack', f, i) =>
          PastAt(stack, f, i) \/ (NextPos(f, i) /\ Top.lazily = TRUE)
    BY DEF RestOf, LoadedFrom
  <1>5. \A f \in Files : Coming(f) => Coming(f)'
    BY <1>2 DEF Coming, LoadedFrom
  <1>6. \A f \in LazyFiles : ~In(queue, f) => ~In(queue', f)
    BY DEF LoadedFrom
  <1>7. ASSUME NEW f \in LazyFiles, f \in lazy \/ Loaded(stack, parsed, f)
        PROVE  f \in lazy' \/ Loaded(stack', parsed', f)
    BY <1>2, <1>7 DEF LoadedFrom
  <1>8. \A f \in Files : \A i \in Nat : Met(f, i) => Met(f, i)'
    BY <1>1 DEF Met
  <1>9. ASSUME NEW f \in Files, NEW i \in Nat, Met(f, i)' PROVE Met(f, i) \/ NewMet(f, i)
    <2>1. f \in Files \ ArchiveFiles /\ i \in DOMAIN Entries(f)
      BY <1>9 DEF Met
    <2>2. i # 0
      BY <2>1, EntryFacts
    <2> QED BY <1>3, <1>9, <2>1, <2>2 DEF Met, NewMet
  <1>10. ASSUME NEW n \in Names, NEW f \in Files, NEW i \in Nat, Shown(f, i, n)'
         PROVE  Shown(f, i, n) \/ NewShown(f, i, n)
    <2>1. CASE f \in ArchiveFiles /\ i \in DOMAIN Entries(f) /\ Entries(f)[i][1] = n
               /\ (In(parsed', f) \/ OpenAt(stack', f, i))
      <3>1. i # 0
        BY <2>1, ArchiveFacts
      <3> QED BY <1>3, <2>1, <3>1 DEF Shown, NewShown
    <2>2. CASE f \in lazy' /\ i \in DOMAIN Entries(f) /\ Entries(f)[i].name = n
               /\ Offers(Entries(f)[i]) /\ ~In(queue', f) /\ PastAt(stack', f, i)
      <3>1. f \in lazy /\ ~In(queue, f)
        BY <2>2 DEF LoadedFrom
      <3> QED BY <1>4, <2>2, <3>1 DEF Shown, NewShown
    <2> QED BY <1>10, <2>1, <2>2 DEF Shown
  <1>11. ASSUME NEW n \in Names, Weakened(n) PROVE Weakened(n)'
    <2>1. PICK f \in Files \ ArchiveFiles : \E i \in DOMAIN Entries(f) :
            OpenAt(stack, f, i) /\ Entries(f)[i].op = "weak" /\ Entries(f)[i].name = n
      BY <1>11 DEF Weakened
    <2>2. PICK i \in DOMAIN Entries(f) :
            OpenAt(stack, f, i) /\ Entries(f)[i].op = "weak" /\ Entries(f)[i].name = n
      BY <2>1
    <2>3. OpenAt(stack', f, i)
      BY <1>1, <2>2, EntryFacts
    <2> QED BY <2>2, <2>3 DEF Weakened
  <1> QED BY <1>5, <1>6, <1>7, <1>8, <1>9, <1>10, <1>11 DEF ReadsOne, Onwards

----------------------------------------------------------------------------
(* What a step does to the symbols *)

\* addLazyArchive and addLazyObject
LazyChange(n, kind, f) ==
  \/ Kind(n) = None /\ syms'[n] = [Fresh EXCEPT !.kind = kind, !.file = f]
  \/ Wanted(n) /\ syms'[n] = [syms[n] EXCEPT !.pending = TRUE] /\ Coming(f)'
  \/ Kind(n) # None /\ ~Wanted(n) /\ syms'[n] = syms[n]

\* addUndefined
UndefChange(n, overrideLazy) ==
  \/ (Kind(n) = None \/ (Kind(n) \in Lazy /\ overrideLazy)) /\ syms'[n] = Undefined
  \/ /\ Kind(n) \in Lazy /\ ~overrideLazy
     /\ syms'[n] = [syms[n] EXCEPT !.pending = TRUE]
     /\ \E f : f = syms[n].file /\ Coming(f)'
  \/ Kind(n) \notin {None} \cup Lazy /\ syms'[n] = syms[n]

OnlyChanges(n) == syms' \in [Names -> Symbol] /\ \A m \in Names \ {n} : syms'[m] = syms[m]

\* A file that provides a lazy symbol; f is what addLazy is given.
Given(n, kind, f) ==
  \/ kind = "lazy archive" /\ f \in Members /\ Provides(f, n)
  \/ kind = "lazy object" /\ f \in lazy /\ Provides(f, n) /\ ~In(queue, f)

\* A symbol nothing is known of, and one a lazy file has offered
LEMMA FreshSymbol == Fresh \in Symbol
  <1>1. None \in Kinds /\ None \in Names \cup {None} /\ None \in Files \cup {None}
    BY DEF Kinds, Undef
  <1>2. None \in Selections
    BY DEF Selections
  <1> QED BY <1>1, <1>2 DEF Fresh, Symbol

LEMMA LazySymbol ==
  ASSUME NEW kind \in Lazy, NEW f \in Files, NEW s, s = [Fresh EXCEPT !.kind = kind, !.file = f]
  PROVE  s \in Symbol /\ s.kind = kind /\ s.file = f /\ s.pending = FALSE
  <1>1. kind \in Kinds
    BY DEF Kinds, Undef
  <1> QED BY <1>1, FreshSymbol DEF Symbol, Fresh

LEMMA SymbolFacts ==
  ASSUME TableTypeOK, NEW n \in Names
  PROVE  /\ syms[n] \in Symbol
         /\ [syms[n] EXCEPT !.pending = TRUE] \in Symbol
         /\ Undefined \in Symbol /\ Undefined.kind = "undef" /\ Undefined.pending = FALSE
         /\ Undefined.alias = None
         /\ [syms[n] EXCEPT !.pending = TRUE].kind = Kind(n)
         /\ [syms[n] EXCEPT !.pending = TRUE].file = syms[n].file
         /\ [syms[n] EXCEPT !.pending = TRUE].alias = syms[n].alias
         /\ [syms[n] EXCEPT !.pending = TRUE].pending = TRUE
  <1>1. syms[n] \in Symbol
    BY DEF TableTypeOK
  <1>2. Fresh \in Symbol
    BY FreshSymbol
  <1> QED BY <1>1, <1>2 DEF Symbol, Undefined, Fresh, Kinds, Undef, Lazy, Kind

LEMMA AddLazyStep ==
  ASSUME TableInv, NEW rest, RestOf(rest), NEW n \in Names, NEW kind \in Lazy, NEW f,
         Given(n, kind, f), AddLazy(n, kind, f, rest), UNCHANGED <<parsed, phase>>
  PROVE  LoadedFrom(rest) /\ OnlyChanges(n) /\ LazyChange(n, kind, f)
  <1>1. TableTypeOK /\ rest \in Seq(Frame) /\ FilesInv(queue, rest, lazy, seen, parsed, phase)
        /\ syms \in [Names -> Symbol] /\ lazy \subseteq LazyFiles
    BY DEF TableInv, TableTypeOK, RestOf
  <1>2. f \in Files /\ (kind = "lazy object" => f \in LazyFiles)
    BY <1>1, FileFacts DEF Given
  <1>3. CASE Kind(n) = None
    <2>1. syms' = [syms EXCEPT ![n] = [Fresh EXCEPT !.kind = kind, !.file = f]]
          /\ stack' = rest /\ NoLoad
      BY <1>3 DEF AddLazy, Wanted, Replace, None
    <2>2. OnlyChanges(n) /\ LazyChange(n, kind, f)
      BY <1>1, <1>2, <1>3, <2>1, LazySymbol DEF OnlyChanges, LazyChange
    <2>3. LoadedFrom(rest)
      BY <1>1, <2>1, LoadKeeps DEF Loads
    <2> QED BY <2>2, <2>3
  <1>4. CASE Wanted(n)
    <2>1. Kind(n) # None
      BY <1>4 DEF Wanted, None
    <2>2. /\ syms' = [syms EXCEPT ![n].pending = TRUE]
          /\ IF kind = "lazy archive" THEN AddMember(f, rest) ELSE LinkLazyObject(f, rest)
      BY <1>4, <2>1 DEF AddLazy
    <2>3. syms' = [syms EXCEPT ![n] = [syms[n] EXCEPT !.pending = TRUE]]
      BY <2>2, <1>1
    <2>4. OnlyChanges(n) /\ syms'[n] = [syms[n] EXCEPT !.pending = TRUE]
      BY <1>1, <2>3, SymbolFacts DEF OnlyChanges
    <2>5. CASE kind = "lazy archive"
      <3>1. f \in Members /\ AddMember(f, rest)
        BY <2>2, <2>5 DEF Given
      <3>2. Coming(f)'
        BY <3>1, <1>1, LoadComes
      <3>3. LoadedFrom(rest)
        BY <3>1, <1>1, LoadKeeps DEF Loads
      <3> QED BY <2>4, <3>2, <3>3, <1>4 DEF LazyChange
    <2>6. CASE kind = "lazy object"
      <3>1. f \in LazyFiles /\ f \in lazy /\ ~In(queue, f) /\ LinkLazyObject(f, rest)
        BY <2>2, <2>6, <1>2 DEF Given
      <3>2. Coming(f)'
        BY <3>1, <1>1, LoadComes
      <3>3. LoadedFrom(rest)
        BY <3>1, <1>1, LoadKeeps DEF Loads
      <3> QED BY <2>4, <3>2, <3>3, <1>4 DEF LazyChange
    <2> QED BY <2>5, <2>6 DEF Lazy
  <1>5. CASE Kind(n) # None /\ ~Wanted(n)
    <2>1. stack' = rest /\ NoLoad /\ syms' = syms
      BY <1>5 DEF AddLazy
    <2>2. LoadedFrom(rest)
      BY <1>1, <2>1, LoadKeeps DEF Loads
    <2> QED BY <1>1, <1>5, <2>1, <2>2 DEF OnlyChanges, LazyChange
  <1> QED BY <1>3, <1>4, <1>5

LEMMA AddUndefinedStep ==
  ASSUME TableInv, NEW rest, RestOf(rest), NEW n \in Names, NEW overrideLazy \in BOOLEAN,
         AddUndefined(n, overrideLazy, rest), UNCHANGED <<parsed, phase>>
  PROVE  LoadedFrom(rest) /\ OnlyChanges(n) /\ UndefChange(n, overrideLazy)
  <1>1. TableTypeOK /\ rest \in Seq(Frame) /\ FilesInv(queue, rest, lazy, seen, parsed, phase)
        /\ syms \in [Names -> Symbol] /\ lazy \subseteq LazyFiles
    BY DEF TableInv, TableTypeOK, RestOf
  <1>2. CASE Kind(n) = None \/ (Is(n, Lazy) /\ overrideLazy)
    <2>1. syms' = [syms EXCEPT ![n] = Undefined] /\ stack' = rest /\ NoLoad
      BY <1>2 DEF AddUndefined, Is, Replace, None, Lazy
    <2>2. LoadedFrom(rest)
      BY <1>1, <2>1, LoadKeeps DEF Loads
    <2> QED BY <1>1, <1>2, <2>1, <2>2, SymbolFacts DEF OnlyChanges, UndefChange, Is
  <1>3. CASE Is(n, Lazy) /\ ~overrideLazy
    <2>1. ForceLazy(n, rest) /\ Kind(n) \in Lazy
      BY <1>3 DEF AddUndefined, Is, None, Lazy
    <2>2. syms' = [syms EXCEPT ![n] = [syms[n] EXCEPT !.pending = TRUE]]
      BY <2>1, <1>1 DEF ForceLazy
    <2>3. OnlyChanges(n) /\ syms'[n] = [syms[n] EXCEPT !.pending = TRUE]
      BY <1>1, <2>2, SymbolFacts DEF OnlyChanges
    <2>4. PICK f : f = syms[n].file
      OBVIOUS
    <2>5. LazyAt(n)
      BY DEF TableInv, LazyInv
    <2>6. CASE Kind(n) = "lazy archive"
      <3>1. f \in Members /\ AddMember(f, rest)
        BY <2>1, <2>4, <2>5, <2>6 DEF ForceLazy, LazyAt
      <3>2. Coming(f)'
        BY <3>1, <1>1, LoadComes
      <3>3. LoadedFrom(rest)
        BY <3>1, <1>1, LoadKeeps DEF Loads
      <3> QED BY <2>3, <2>4, <3>2, <3>3, <1>3 DEF UndefChange, Is
    <2>7. CASE Kind(n) = "lazy object"
      <3>1. /\ f \in LazyFiles /\ ~In(queue, f) /\ LinkLazyObject(f, rest)
            /\ f \in lazy \/ Loaded(stack, parsed, f)
        BY <2>1, <2>4, <2>5, <2>7 DEF ForceLazy, LazyAt
      <3>2. f \in lazy \/ Loaded(rest, parsed, f)
        BY <3>1 DEF RestOf
      <3>3. Coming(f)'
        BY <3>1, <3>2, <1>1, LoadComes
      <3>4. LoadedFrom(rest)
        BY <3>1, <3>2, <1>1, LoadKeeps DEF Loads
      <3> QED BY <2>3, <2>4, <3>3, <3>4, <1>3 DEF UndefChange, Is
    <2> QED BY <2>1, <2>6, <2>7 DEF Lazy
  <1>4. CASE Kind(n) \notin {None} \cup Lazy
    <2>1. stack' = rest /\ NoLoad /\ syms' = syms
      BY <1>4 DEF AddUndefined, Is
    <2>2. LoadedFrom(rest)
      BY <1>1, <2>1, LoadKeeps DEF Loads
    <2> QED BY <1>1, <1>4, <2>1, <2>2 DEF OnlyChanges, UndefChange
  <1> QED BY <1>2, <1>3, <1>4 DEF Is

\* A definition is not lost, and nothing becomes one.
Mild == \A n \in Names :
  syms'[n] = syms[n] \/ (syms[n].kind \in Undef /\ syms'[n].kind \in Undef)

StaysAsked == \A n \in Names : Asked(n) => Asked(n)'

\* The symbols that had been offered are still known, and taken if they are wanted.
StaysOffered ==
  \A n \in Names : \A f \in Files : \A i \in Nat :
    Shown(f, i, n) => Kind(n)' # None /\ (Wanted(n)' => Weakened(n)')

LEMMA LazyStable ==
  ASSUME TableTypeOK, Onwards, NEW n \in Names, LazyAt(n), syms'[n] = syms[n]
  PROVE  LazyAt(n)'
  <1>1. Kind(n) = "lazy archive" => syms'[n].file \in Members /\ Provides(syms'[n].file, n)
    BY DEF LazyAt
  <1>2. ASSUME Kind(n) = "lazy object"
        PROVE  /\ syms'[n].file \in LazyFiles /\ Provides(syms'[n].file, n)
               /\ ~In(queue', syms'[n].file)
               /\ syms'[n].file \in lazy' \/ Loaded(stack', parsed', syms'[n].file)
    BY <1>2 DEF LazyAt, Onwards
  <1>3. ASSUME Kind(n) \in Undef, syms[n].pending
        PROVE  \E f \in Files \ ArchiveFiles : Coming(f)' /\ Provides(f, n)
    BY <1>3 DEF LazyAt, Onwards
  <1> QED BY <1>1, <1>2, <1>3 DEF LazyAt, Kind

LEMMA LazyChangeKeeps ==
  ASSUME TableInv, ReadsOne, NEW n \in Names, NEW kind \in Lazy, NEW f,
         Given(n, kind, f), OnlyChanges(n), LazyChange(n, kind, f)
  PROVE  /\ LazyInv' /\ Mild /\ StaysAsked /\ StaysOffered
         /\ Kind(n)' # None /\ ~Wanted(n)'
  <1>1. TableTypeOK /\ LazyInv /\ OfferInv /\ Onwards /\ lazy \subseteq LazyFiles
    BY DEF TableInv, TableTypeOK, ReadsOne
  <1>2. f \in Files \ ArchiveFiles /\ (kind = "lazy object" => f \in LazyFiles)
    BY <1>1, FileFacts DEF Given
  <1>8. \/ Kind(n) = None /\ syms'[n].kind = kind
        \/ Kind(n) = "undef" /\ syms'[n].kind = "undef" /\ syms'[n].pending = TRUE
        \/ Kind(n) # None /\ ~Wanted(n) /\ syms'[n] = syms[n]
    <2>1. CASE Kind(n) = None /\ syms'[n] = [Fresh EXCEPT !.kind = kind, !.file = f]
      <3>1. PICK s : s = syms'[n]
        OBVIOUS
      <3>2. f \in Files /\ s = [Fresh EXCEPT !.kind = kind, !.file = f]
        BY <1>2, <2>1, <3>1
      <3>3. s.kind = kind
        BY <3>2 DEF Fresh
      <3> QED BY <2>1, <3>1, <3>3
    <2>2. CASE Wanted(n) /\ syms'[n] = [syms[n] EXCEPT !.pending = TRUE]
      BY <1>1, <2>2, SymbolFacts DEF Wanted
    <2> QED BY <2>1, <2>2 DEF LazyChange
  <1>3. Kind(n)' # None /\ ~Wanted(n)'
    BY <1>8 DEF Kind, Wanted, Lazy, None
  <1>4. Mild
    BY <1>8 DEF Mild, OnlyChanges, Kind, Undef
  <1>5. ASSUME NEW m \in Names, Asked(m) PROVE Asked(m)'
    BY <1>8, <1>5 DEF OnlyChanges, Asked, Kind, Lazy, None
  <1>6. ASSUME NEW m \in Names, NEW g \in Files, NEW i \in Nat, Shown(g, i, m)
        PROVE  Kind(m)' # None /\ (Wanted(m)' => Weakened(m)')
    <2>1. CASE m = n
      BY <1>3, <2>1
    <2>2. CASE m # n
      <3>1. Kind(m)' = Kind(m) /\ (Wanted(m)' <=> Wanted(m))
        BY <2>2 DEF OnlyChanges, Kind, Wanted
      <3> QED BY <1>1, <1>6, <3>1 DEF OfferInv, ReadsOne
    <2> QED BY <2>1, <2>2
  <1>7. ASSUME NEW m \in Names PROVE LazyAt(m)'
    <2>1. LazyAt(m)
      BY <1>1 DEF LazyInv
    <2>2. CASE m # n \/ syms'[m] = syms[m]
      BY <1>1, <2>1, <2>2, LazyStable DEF OnlyChanges
    <2>3. CASE m = n /\ syms'[n] = [Fresh EXCEPT !.kind = kind, !.file = f]
      <3>1. syms'[n].kind = kind /\ syms'[n].file = f /\ syms'[n].pending = FALSE
        <4>1. PICK s : s = syms'[n]
          OBVIOUS
        <4>2. f \in Files /\ s = [Fresh EXCEPT !.kind = kind, !.file = f]
          BY <1>2, <2>3, <4>1
        <4>3. s.kind = kind /\ s.file = f /\ s.pending = FALSE
          BY <4>2 DEF Fresh
        <4> QED BY <4>1, <4>3
      <3>2. kind = "lazy archive" => f \in Members /\ Provides(f, n)
        BY DEF Given
      <3>3. kind = "lazy object" => /\ f \in LazyFiles /\ Provides(f, n) /\ ~In(queue', f)
                                    /\ f \in lazy' \/ Loaded(stack', parsed', f)
        BY <1>1, <1>2 DEF Given, Onwards
      <3> QED BY <2>3, <3>1, <3>2, <3>3 DEF LazyAt, Kind
    <2>4. CASE m = n /\ Wanted(n) /\ syms'[n] = [syms[n] EXCEPT !.pending = TRUE] /\ Coming(f)'
      <3>1. syms'[n].kind = "undef"
        BY <1>1, <2>4, SymbolFacts DEF Wanted, Kind
      <3>2. Provides(f, n)
        BY DEF Given
      <3> QED BY <1>2, <2>4, <3>1, <3>2 DEF LazyAt, Kind
    <2> QED BY <2>2, <2>3, <2>4 DEF LazyChange
  <1> QED BY <1>3, <1>4, <1>5, <1>6, <1>7 DEF StaysAsked, StaysOffered, LazyInv

LEMMA UndefChangeKeeps ==
  ASSUME TableInv, ReadsOne, NEW n \in Names, NEW overrideLazy \in BOOLEAN,
         OnlyChanges(n), UndefChange(n, overrideLazy), overrideLazy => Weakened(n)'
  PROVE  /\ LazyInv' /\ Mild /\ StaysAsked /\ StaysOffered
         /\ ~overrideLazy => Asked(n)'
  <1>1. TableTypeOK /\ LazyInv /\ OfferInv /\ Onwards /\ lazy \subseteq LazyFiles
    BY DEF TableInv, TableTypeOK, ReadsOne
  <1>7. \/ /\ Kind(n) = None \/ (Kind(n) \in Lazy /\ overrideLazy)
           /\ syms'[n].kind = "undef"
        \/ Kind(n) \in Lazy /\ ~overrideLazy /\ syms'[n].kind = Kind(n) /\ syms'[n].pending = TRUE
        \/ Kind(n) \notin {None} \cup Lazy /\ syms'[n] = syms[n]
    <2>1. CASE (Kind(n) = None \/ (Kind(n) \in Lazy /\ overrideLazy)) /\ syms'[n] = Undefined
      BY <1>1, <2>1, SymbolFacts
    <2>2. CASE Kind(n) \in Lazy /\ ~overrideLazy /\ syms'[n] = [syms[n] EXCEPT !.pending = TRUE]
      BY <1>1, <2>2, SymbolFacts
    <2> QED BY <2>1, <2>2 DEF UndefChange
  <1>2. ~overrideLazy => Asked(n)'
    BY <1>7 DEF Asked, Kind, None, Lazy
  <1>3. Mild
    BY <1>7 DEF Mild, OnlyChanges, Kind, Undef
  <1>4. ASSUME NEW m \in Names, Asked(m) PROVE Asked(m)'
    BY <1>7, <1>4 DEF OnlyChanges, Asked, Kind, Lazy, None
  <1>5. ASSUME NEW m \in Names, NEW g \in Files, NEW i \in Nat, Shown(g, i, m)
        PROVE  Kind(m)' # None /\ (Wanted(m)' => Weakened(m)')
    <2>1. Kind(m) # None /\ (Wanted(m) => Weakened(m))
      BY <1>1, <1>5 DEF OfferInv
    <2>2. CASE syms'[m] = syms[m]
      <3>1. Kind(m)' = Kind(m) /\ (Wanted(m)' <=> Wanted(m))
        BY <2>2 DEF Kind, Wanted
      <3> QED BY <2>1, <3>1 DEF ReadsOne
    <2>3. CASE m = n /\ overrideLazy /\ syms'[n] = Undefined
      <3>1. Kind(n)' # None
        BY <1>1, <2>3, SymbolFacts DEF Kind, None
      <3> QED BY <2>3, <3>1
    <2>4. CASE m = n /\ Kind(n) \in Lazy /\ syms'[n] = [syms[n] EXCEPT !.pending = TRUE]
      <3>1. Kind(n)' = Kind(n)
        BY <1>1, <2>4, SymbolFacts DEF Kind
      <3>2. Kind(n) # "undef"
        BY <2>4 DEF Lazy
      <3> QED BY <2>1, <2>4, <3>1, <3>2 DEF Wanted
    <2> QED BY <2>1, <2>2, <2>3, <2>4 DEF UndefChange, OnlyChanges
  <1>6. ASSUME NEW m \in Names PROVE LazyAt(m)'
    <2>1. LazyAt(m)
      BY <1>1 DEF LazyInv
    <2>2. CASE m # n \/ syms'[m] = syms[m]
      BY <1>1, <2>1, <2>2, LazyStable DEF OnlyChanges
    <2>3. CASE m = n /\ syms'[n] = Undefined
      <3>1. syms'[n].kind = "undef" /\ syms'[n].pending = FALSE
        BY <1>1, <2>3, SymbolFacts
      <3> QED BY <2>3, <3>1 DEF LazyAt, Kind
    <2>4. ASSUME m = n, Kind(n) \in Lazy, syms'[n] = [syms[n] EXCEPT !.pending = TRUE],
                 \E f : f = syms[n].file /\ Coming(f)'
          PROVE  LazyAt(m)'
      <3>1. PICK f : f = syms[n].file /\ Coming(f)'
        BY <2>4
      <3>2. syms'[n].kind = Kind(n) /\ syms'[n].file = f
        BY <1>1, <2>4, <3>1, SymbolFacts
      <3>3. f \in Files \ ArchiveFiles /\ Provides(f, n)
        BY <2>1, <2>4, <3>1, FileFacts DEF LazyAt, Lazy
      <3>4. Kind(n) = "lazy archive" => f \in Members
        BY <2>1, <2>4, <3>1 DEF LazyAt
      <3>5. Kind(n) = "lazy object" => /\ f \in LazyFiles /\ ~In(queue', f)
                                       /\ f \in lazy' \/ Loaded(stack', parsed', f)
        BY <1>1, <2>1, <2>4, <3>1 DEF LazyAt, Onwards
      <3> QED BY <2>4, <3>1, <3>2, <3>3, <3>4, <3>5 DEF LazyAt, Kind
    <2> QED BY <2>2, <2>3, <2>4 DEF UndefChange
  <1> QED BY <1>2, <1>3, <1>4, <1>5, <1>6 DEF StaysAsked, StaysOffered, LazyInv

----------------------------------------------------------------------------
(* Definitions *)

\* The definitions met stay the same, and so do the symbols they made.
LEMMA MildKeeps ==
  ASSUME TableInv, Mild,
         \A f \in Files : \A i \in Nat : \A n \in Names : MetDef(f, i, n)' <=> MetDef(f, i, n),
         \A f \in Files : In(parsed, f) => In(parsed', f),
         \A n \in Names : Plain(n)' => (n \in dups' <=> n \in dups)
  PROVE  StrongInv' /\ DupsInv'
  <1>1. StrongInv /\ DupsInv
    BY DEF TableInv
  <1>2. ASSUME NEW n \in Names PROVE StrongAt(n)'
    <2>1. StrongAt(n)
      BY <1>1 DEF StrongInv
    <2>2. CASE syms'[n] = syms[n]
      <3>1. Kind(n)' = Kind(n)
        BY <2>2 DEF Kind
      <3>2. \A f \in Files : \A i \in Nat : Leads(n, f, i) => Leads(n, f, i)'
        BY <2>2, <3>1 DEF Leads
      <3> QED BY <2>1, <2>2, <3>1, <3>2 DEF StrongAt
    <2>3. CASE syms[n].kind \in Undef /\ syms'[n].kind \in Undef
      <3>1. \A f \in Files : \A i \in Nat : ~MetDef(f, i, n)'
        BY <2>1, <2>3 DEF StrongAt, Kind
      <3> QED BY <2>3, <3>1 DEF StrongAt, Kind
    <2> QED BY <2>2, <2>3 DEF Mild
  <1>3. ASSUME NEW n \in Names, Plain(n)' PROVE n \in dups' <=> Clash(n)'
    <2>1. Plain(n)
      BY <1>3 DEF Plain
    <2>2. Clash(n)' <=> Clash(n)
      BY DEF Clash
    <2> QED BY <1>1, <1>3, <2>1, <2>2 DEF DupsInv
  <1> QED BY <1>2, <1>3 DEF StrongInv, DupsInv

\* The symbol n is the definition e now, with this selection.
Took(n, e, selection) ==
  /\ syms'[n].kind = e.op /\ syms'[n].size = e.size
  /\ syms'[n].selection = selection
  /\ dups' = dups

\* Definition e and the symbol n may not both be there.
Clashes(n, e) ==
  LET merged == MergedSelection(e.selection, syms[n].selection)
  IN \/ "regular" \in {e.op, Kind(n)}
     \/ merged \in {"conflict", "noduplicates"}
     \/ merged \in {"same size", "exact match"} /\ e.size # syms[n].size

\* A definition takes the place of what is weaker, or of a smaller common symbol.
Stronger(n, e) ==
  \/ e.op \in DefinedRegular /\ Kind(n) \notin DefinedRegular
  \/ /\ e.op = "common"
     /\ Kind(n) \notin DefinedCOFF \/ (Kind(n) = "common" /\ e.size > syms[n].size)
  \/ e.op \in {"absolute", "import"} /\ Kind(n) \in Undef

MergesLargest(n, e) ==
  /\ e.op = "comdat" /\ Kind(n) = "comdat"
  /\ MergedSelection(e.selection, syms[n].selection) = "largest"

DefChange(n, e) ==
  /\ OnlyChanges(n)
  /\ dups' \in SUBSET Names
  /\ \A m \in Names \ {n} : m \in dups' <=> m \in dups
  /\ \/ Stronger(n, e) /\ Took(n, e, e.selection)
     \/ MergesLargest(n, e) /\ e.size > syms[n].size /\ Took(n, e, "largest")
     \/ /\ Kind(n) \notin Undef /\ syms'[n] = syms[n]
        /\ ~Stronger(n, e)
        /\ MergesLargest(n, e) => e.size <= syms[n].size
        /\ dups' \in {dups, dups \cup {n}}
        /\ e.op \in DefinedRegular /\ Kind(n) \in DefinedRegular =>
             (dups' = dups \cup {n} <=> Clashes(n, e) \/ n \in dups)

LEMMA TakeStep ==
  ASSUME TableTypeOK, NEW f \in Files, NEW e \in Entry, Offers(e), NEW d \in Entry,
         d.op = e.op, d.name = e.name, d.size = e.size, Take(e.name, f, d)
  PROVE  OnlyChanges(e.name) /\ Took(e.name, e, d.selection)
  <1> DEFINE s == [Fresh EXCEPT !.kind = d.op, !.file = f, !.selection = d.selection, !.size = d.size]
  <1>1. syms' = [syms EXCEPT ![e.name] = s] /\ dups' = dups
    BY DEF Take, Replace
  <1>2. e.name \in Names /\ d.selection \in Selections /\ d.size \in Nat /\ d.op \in Kinds
    BY DEF Entry, Offers, Ops, Kinds, DefinedCOFF, DefinedRegular
  <1>3. s \in Symbol /\ s.kind = d.op /\ s.size = d.size /\ s.selection = d.selection
    BY <1>2, FreshSymbol DEF Symbol, Fresh
  <1> HIDE DEF s
  <1>4. syms \in [Names -> Symbol]
    BY DEF TableTypeOK
  <1> QED BY <1>1, <1>2, <1>3, <1>4 DEF OnlyChanges, Took

LEMMA MergedOf ==
  ASSUME NEW a \in Selections, NEW b \in Selections
  PROVE  /\ a = b => MergedSelection(a, b) = a
         /\ a # b /\ {a, b} \subseteq {"any", "largest"} => MergedSelection(a, b) = "largest"
         /\ a # b /\ ~({a, b} \subseteq {"any", "largest"}) => MergedSelection(a, b) = "conflict"
  <1>1. CASE a = b
    BY <1>1 DEF MergedSelection
  <1>2. CASE a # b /\ {a, b} \subseteq {"any", "largest"}
    <2>1. {a, b} = {"any", "largest"}
      BY <1>2
    <2> QED BY <1>2, <2>1 DEF MergedSelection
  <1>3. CASE a # b /\ ~({a, b} \subseteq {"any", "largest"})
    <2>1. {a, b} # {"any", "largest"}
      BY <1>3
    <2> QED BY <1>3, <2>1 DEF MergedSelection
  <1> QED BY <1>1, <1>2, <1>3

LEMMA CreateDefinedStep ==
  ASSUME TableTypeOK, NEW f \in Files, NEW e \in Entry, Offers(e), CreateDefined(f, e)
  PROVE  DefChange(e.name, e)
  <1> DEFINE n == e.name
  <1>1. /\ n \in Names /\ e.size \in Nat /\ e.selection \in Selections
        /\ e.op \in {"regular", "comdat", "common", "absolute", "import"}
    BY DEF Entry, Offers, Ops
  <1>2. /\ syms \in [Names -> Symbol] /\ dups \in SUBSET Names
        /\ Kind(n) \in Kinds /\ syms[n].size \in Nat /\ syms[n].selection \in Selections
    BY <1>1 DEF TableTypeOK, Symbol, Kind
  <1>3. Take(n, f, e) => OnlyChanges(n) /\ Took(n, e, e.selection)
    BY TakeStep
  <1>4. Take(n, f, e) /\ Stronger(n, e) => DefChange(n, e)
    BY <1>2, <1>3 DEF DefChange, Took
  <1>5. Keep(n) => syms' = syms /\ dups' = dups
    BY DEF Keep
  <1>6. Complain(n) => syms' = syms /\ dups' = dups \cup {n}
    BY DEF Complain, Reported
  <1>7. ASSUME syms' = syms, dups' \in {dups, dups \cup {n}}, Kind(n) \notin Undef, ~Stronger(n, e),
               MergesLargest(n, e) => e.size <= syms[n].size,
               e.op \in DefinedRegular /\ Kind(n) \in DefinedRegular =>
                 (dups' = dups \cup {n} <=> Clashes(n, e) \/ n \in dups)
        PROVE  DefChange(n, e)
    <2>1. OnlyChanges(n)
      BY <1>2, <1>7 DEF OnlyChanges
    <2>2. dups' \in SUBSET Names /\ \A m \in Names \ {n} : m \in dups' <=> m \in dups
      BY <1>1, <1>2, <1>7
    <2> QED BY <1>7, <2>1, <2>2 DEF DefChange
  <1>8. CASE e.op = "regular"
    <2>1. IF Kind(n) \in DefinedRegular THEN Complain(n) ELSE Take(n, f, e)
      BY <1>8 DEF CreateDefined, AddRegular, Is
    <2>2. CASE Kind(n) \notin DefinedRegular
      BY <1>4, <1>8, <2>1, <2>2 DEF Stronger, DefinedRegular
    <2>3. CASE Kind(n) \in DefinedRegular
      <3>1. syms' = syms /\ dups' = dups \cup {n}
        BY <1>6, <2>1, <2>3
      <3>2. Kind(n) \notin Undef /\ ~Stronger(n, e) /\ ~MergesLargest(n, e) /\ Clashes(n, e)
        BY <1>8, <2>3 DEF Undef, DefinedRegular, Stronger, MergesLargest, Clashes, Lazy, None
      <3> QED BY <1>7, <3>1, <3>2
    <2> QED BY <2>2, <2>3
  <1>9. CASE e.op = "comdat"
    <2>1. AddComdat(f, e)
      BY <1>9 DEF CreateDefined
    <2>2. CASE Kind(n) \notin DefinedRegular
      <3>1. Take(n, f, e)
        BY <2>1, <2>2 DEF AddComdat, Is, DefinedRegular
      <3> QED BY <1>4, <1>9, <2>2, <3>1 DEF Stronger, DefinedRegular
    <2>3. CASE Kind(n) = "regular"
      <3>1. Complain(n)
        BY <2>1, <2>3 DEF AddComdat, Is, DefinedRegular
      <3>2. syms' = syms /\ dups' = dups \cup {n}
        BY <1>6, <3>1
      <3>3. Kind(n) \notin Undef /\ ~Stronger(n, e) /\ ~MergesLargest(n, e) /\ Clashes(n, e)
        BY <1>9, <2>3 DEF Undef, DefinedRegular, Stronger, MergesLargest, Clashes, Lazy, None
      <3> QED BY <1>7, <3>2, <3>3
    <2>4. CASE Kind(n) = "comdat"
      <3> DEFINE merged == MergedSelection(e.selection, syms[n].selection)
      <3>1. HandleComdatSelection(f, e)
        BY <2>1, <2>4 DEF AddComdat, Is, DefinedRegular
      <3>2. Kind(n) \notin Undef /\ ~Stronger(n, e) /\ (MergesLargest(n, e) <=> merged = "largest")
        BY <1>9, <2>4 DEF Undef, DefinedRegular, Stronger, MergesLargest, Lazy, None
      <3>3. Clashes(n, e) <=> \/ merged \in {"conflict", "noduplicates"}
                              \/ merged \in {"same size", "exact match"} /\ e.size # syms[n].size
        BY <1>9, <2>4 DEF Clashes
      <3>4. CASE merged \in {"conflict", "noduplicates"}
        <4>1. Complain(n)
          BY <3>1, <3>4 DEF HandleComdatSelection
        <4>2. syms' = syms /\ dups' = dups \cup {n}
          BY <1>6, <4>1
        <4> QED BY <1>7, <3>2, <3>3, <3>4, <4>2
      <3>5. CASE merged \in {"same size", "exact match"}
        <4>1. IF e.size # syms[n].size THEN Complain(n) ELSE Keep(n)
          BY <3>1, <3>5 DEF HandleComdatSelection
        <4>2. syms' = syms /\ dups' = IF e.size # syms[n].size THEN dups \cup {n} ELSE dups
          BY <1>5, <1>6, <4>1
        <4>3. (e.size = syms[n].size) => (dups' = dups \cup {n} <=> n \in dups)
          BY <4>2
        <4> QED BY <1>7, <3>2, <3>3, <3>5, <4>2, <4>3
      <3>6. CASE merged = "largest" /\ e.size > syms[n].size
        <4>1. Take(n, f, [e EXCEPT !.selection = "largest"])
          BY <3>1, <3>6 DEF HandleComdatSelection
        <4>2. PICK d : d = [e EXCEPT !.selection = "largest"]
          OBVIOUS
        <4>3. d \in Entry /\ d.op = e.op /\ d.name = e.name /\ d.size = e.size /\ d.selection = "largest"
          BY <4>2 DEF Entry, Selections
        <4>4. OnlyChanges(n) /\ Took(n, e, "largest")
          BY <4>1, <4>2, <4>3, TakeStep
        <4> QED BY <1>2, <3>2, <3>6, <4>4 DEF DefChange, Took
      <3>7. CASE merged \notin {"conflict", "noduplicates", "same size", "exact match"}
                 /\ ~(merged = "largest" /\ e.size > syms[n].size)
        <4>1. Keep(n)
          BY <3>1, <3>7 DEF HandleComdatSelection
        <4>2. syms' = syms /\ dups' = dups
          BY <1>5, <4>1
        <4>3. MergesLargest(n, e) => e.size <= syms[n].size
          <5>1. e.size > syms[n].size \/ e.size <= syms[n].size
            BY <1>1, <1>2
          <5> QED BY <5>1, <3>2, <3>7
        <4>4. ~Clashes(n, e)
          BY <3>3, <3>7
        <4>5. dups' = dups \cup {n} <=> n \in dups
          BY <4>2
        <4> QED BY <1>7, <3>2, <4>2, <4>3, <4>4, <4>5
      <3> QED BY <3>4, <3>5, <3>6, <3>7
    <2> QED BY <2>2, <2>3, <2>4 DEF DefinedRegular
  <1>10. CASE e.op = "common"
    <2>1. IF Kind(n) \notin DefinedCOFF \/ (Kind(n) = "common" /\ e.size > syms[n].size)
            THEN Take(n, f, e) ELSE Keep(n)
      BY <1>10 DEF CreateDefined, AddCommon, Is
    <2>2. CASE Kind(n) \notin DefinedCOFF \/ (Kind(n) = "common" /\ e.size > syms[n].size)
      BY <1>4, <1>10, <2>1, <2>2 DEF Stronger
    <2>3. CASE ~(Kind(n) \notin DefinedCOFF \/ (Kind(n) = "common" /\ e.size > syms[n].size))
      <3>1. syms' = syms /\ dups' = dups
        BY <1>5, <2>1, <2>3
      <3>2. Kind(n) \notin Undef /\ ~Stronger(n, e) /\ ~MergesLargest(n, e) /\ e.op \notin DefinedRegular
        BY <1>10, <2>3 DEF Undef, DefinedRegular, DefinedCOFF, Stronger, MergesLargest, Lazy, None
      <3> QED BY <1>7, <3>1, <3>2
    <2> QED BY <2>2, <2>3
  <1>11. CASE e.op \in {"absolute", "import"}
    <2>1. CASE Kind(n) \in Undef
      <3>1. Take(n, f, e)
        BY <1>11, <2>1 DEF CreateDefined, AddAbsolute, AddImport, Is, Undef, Lazy, None
      <3> QED BY <1>4, <1>11, <2>1, <3>1 DEF Stronger
    <2>2. CASE Kind(n) \notin Undef
      <3>1. Keep(n) \/ Complain(n)
        BY <1>11, <2>2 DEF CreateDefined, AddAbsolute, AddImport, Is, Undef
      <3>2. syms' = syms /\ dups' \in {dups, dups \cup {n}}
        BY <1>5, <1>6, <3>1
      <3>3. ~Stronger(n, e) /\ ~MergesLargest(n, e) /\ e.op \notin DefinedRegular
        BY <1>11, <2>2 DEF DefinedRegular, Stronger, MergesLargest
      <3> QED BY <1>7, <2>2, <3>2, <3>3
    <2> QED BY <2>1, <2>2
  <1> QED BY <1>1, <1>8, <1>9, <1>10, <1>11

LEMMA MetDefType ==
  ASSUME NEW f \in Files, NEW i \in Nat, NEW n, MetDef(f, i, n)
  PROVE  /\ Def(<<f, i>>) \in Entry
         /\ Def(<<f, i>>).size \in Nat /\ Def(<<f, i>>).selection \in Selections
         /\ Def(<<f, i>>).op \in {"regular", "comdat", "common", "absolute", "import"}
         /\ Def(<<f, i>>).op # "comdat" => Def(<<f, i>>).selection = None
         /\ Def(<<f, i>>).name = n
  <1>1. f \in Files \ ArchiveFiles /\ i \in DOMAIN Entries(f) /\ Def(<<f, i>>) = Entries(f)[i]
        /\ Offers(Def(<<f, i>>)) /\ Def(<<f, i>>).name = n
    BY DEF MetDef, Met, Def, Defines
  <1>2. Def(<<f, i>>) \in Entry
    BY <1>1, EntryFacts
  <1>3. Def(<<f, i>>).op # "comdat" => Def(<<f, i>>).selection = None
    BY <1>1, EntryFacts
  <1> QED BY <1>1, <1>2, <1>3 DEF Entry, Ops, Offers

\* One definition more: it prevails if it is the strongest.
LEMMA StrongestKept ==
  ASSUME TableInv, NEW f0 \in Files, NEW i0 \in Nat, NEW n, NEW e,
         e = Def(<<f0, i0>>), n = e.name, n \in Names, DefChange(n, e), MetDef(f0, i0, n)',
         \A f \in Files : \A i \in Nat : \A m \in Names :
           MetDef(f, i, m)' <=> MetDef(f, i, m) \/ (f = f0 /\ i = i0 /\ m = n)
  PROVE  StrongInv'
  <1>1. StrongInv /\ TableTypeOK
    BY DEF TableInv
  <1>2. ASSUME NEW m \in Names, m # n PROVE StrongAt(m)'
    <2>1. StrongAt(m) /\ syms'[m] = syms[m] /\ Kind(m)' = Kind(m)
      BY <1>1, <1>2 DEF StrongInv, DefChange, OnlyChanges, Kind
    <2>2. \A f \in Files : \A i \in Nat : MetDef(f, i, m)' <=> MetDef(f, i, m)
      BY <1>2
    <2>3. \A f \in Files : \A i \in Nat : Leads(m, f, i) => Leads(m, f, i)'
      BY <2>1, <2>2 DEF Leads
    <2> QED BY <2>1, <2>2, <2>3 DEF StrongAt
  <1>3. StrongAt(n)'
    <2>1. StrongAt(n)
      BY <1>1 DEF StrongInv
    <2>2. \A f \in Files : \A i \in Nat : MetDef(f, i, n)' <=> MetDef(f, i, n) \/ (f = f0 /\ i = i0)
      OBVIOUS
    <2>3. /\ e.size \in Nat /\ e.selection \in Selections
          /\ e.op \in {"regular", "comdat", "common", "absolute", "import"}
          /\ e.op # "comdat" => e.selection = None
      <3>1. f0 \in Files \ ArchiveFiles /\ i0 \in DOMAIN Entries(f0) /\ e = Entries(f0)[i0] /\ Offers(e)
        BY DEF MetDef, Met, Def, Defines
      <3>2. e \in Entry
        BY <3>1, EntryFacts
      <3>3. e.op # "comdat" => e.selection = None
        BY <3>1, EntryFacts
      <3> QED BY <3>1, <3>2, <3>3 DEF Entry, Ops, Offers
    <2>4. syms[n] \in Symbol /\ syms[n].size \in Nat /\ syms[n].selection \in Selections /\ Kind(n) \in Kinds
      BY <1>1 DEF TableTypeOK, Symbol, Kind
    <2>5. \A f \in Files : \A i \in Nat : MetDef(f, i, n) =>
            /\ Def(<<f, i>>).size \in Nat
            /\ Def(<<f, i>>).op \in {"regular", "comdat", "common", "absolute", "import"}
            /\ Def(<<f, i>>).op # "comdat" => Def(<<f, i>>).selection = None
      BY MetDefType
    <2>6. e.op \notin Undef
      BY <2>3 DEF Undef, Lazy, None
    <2>7. CASE Took(n, e, e.selection) /\ Stronger(n, e)
      <3>1. Kind(n)' = e.op /\ syms'[n].size = e.size /\ syms'[n].selection = e.selection
        BY <2>7 DEF Took, Kind
      <3>2. Leads(n, f0, i0)'
        BY <3>1 DEF Leads
      <3>3. ASSUME NEW f \in Files, NEW i \in Nat, MetDef(f, i, n)'
            PROVE  /\ Kind(n)' \notin Undef
                   /\ Def(<<f, i>>).op \in DefinedRegular => Kind(n)' \in DefinedRegular
                   /\ Def(<<f, i>>).op = "common" =>
                        \/ Kind(n)' \in DefinedRegular
                        \/ Kind(n)' = "common" /\ syms'[n].size >= Def(<<f, i>>).size
        <4>1. CASE f = f0 /\ i = i0
          BY <2>3, <2>6, <3>1, <4>1
        <4>2. CASE MetDef(f, i, n)
          <5>1. /\ Kind(n) \notin Undef
                /\ Def(<<f, i>>).op \in DefinedRegular => Kind(n) \in DefinedRegular
                /\ Def(<<f, i>>).op = "common" =>
                        \/ Kind(n) \in DefinedRegular
                        \/ Kind(n) = "common" /\ syms[n].size >= Def(<<f, i>>).size
            BY <2>1, <4>2 DEF StrongAt
          <5>2. Def(<<f, i>>).size \in Nat
            BY <2>5, <4>2
          <5>3. CASE e.op \in DefinedRegular /\ Kind(n) \notin DefinedRegular
            BY <5>3, <3>1, <2>6
          <5>4. CASE e.op = "common" /\ Kind(n) \notin DefinedCOFF
            BY <5>1, <5>4, <3>1, <2>6 DEF DefinedCOFF
          <5>5. CASE e.op = "common" /\ Kind(n) = "common" /\ e.size > syms[n].size
            <6>1. Def(<<f, i>>).op = "common" => e.size >= Def(<<f, i>>).size
              BY <5>1, <5>2, <5>5, <2>3, <2>4 DEF DefinedRegular
            <6>2. Kind(n) \notin DefinedRegular
              BY <5>5 DEF DefinedRegular
            <6> QED BY <5>1, <5>5, <6>1, <6>2, <3>1, <2>6
          <5> QED BY <5>1, <5>3, <5>4, <5>5, <2>7 DEF Stronger
        <4> QED BY <2>2, <3>3, <4>1, <4>2
      <3>4. ASSUME \A f \in Files : \A i \in Nat : MetDef(f, i, n)' => Def(<<f, i>>).selection = "largest",
                   NEW f \in Files, NEW i \in Nat, MetDef(f, i, n)'
            PROVE  syms'[n].selection = "largest" /\ syms'[n].size >= Def(<<f, i>>).size
        <4>1. e.selection = "largest" /\ e.op = "comdat"
          BY <2>3, <3>4 DEF None
        <4>2. CASE f = f0 /\ i = i0
          BY <3>1, <4>1, <4>2, <2>3
        <4>3. ASSUME MetDef(f, i, n) PROVE FALSE
          <5>1. Def(<<f, i>>).selection = "largest"
            BY <3>4
          <5>2. Def(<<f, i>>).op = "comdat"
            BY <5>1, <4>3, <2>5 DEF None
          <5>3. Kind(n) \in DefinedRegular
            BY <5>2, <4>3, <2>1 DEF StrongAt, DefinedRegular
          <5> QED BY <5>3, <4>1, <2>7 DEF Stronger, DefinedRegular
        <4> QED BY <2>2, <3>4, <4>2, <4>3
      <3> QED BY <3>2, <3>3, <3>4 DEF StrongAt
    <2>8. CASE MergesLargest(n, e) /\ e.size > syms[n].size /\ Took(n, e, "largest")
      <3>1. Kind(n)' = "comdat" /\ syms'[n].size = e.size /\ syms'[n].selection = "largest"
            /\ e.op = "comdat" /\ Kind(n) = "comdat"
        BY <2>8 DEF Took, Kind, MergesLargest
      <3>2. e.selection \in {"any", "largest"}
        BY <2>8, <2>3, <2>4, MergedOf DEF MergesLargest
      <3>3. Leads(n, f0, i0)'
        BY <3>1, <3>2 DEF Leads
      <3>4. Kind(n)' \in DefinedRegular /\ Kind(n)' \notin Undef
        BY <3>1 DEF DefinedRegular, Undef, Lazy, None
      <3>5. ASSUME \A f \in Files : \A i \in Nat : MetDef(f, i, n)' => Def(<<f, i>>).selection = "largest",
                   NEW f \in Files, NEW i \in Nat, MetDef(f, i, n)'
            PROVE  syms'[n].selection = "largest" /\ syms'[n].size >= Def(<<f, i>>).size
        <4>1. CASE f = f0 /\ i = i0
          BY <3>1, <4>1, <2>3
        <4>2. CASE MetDef(f, i, n)
          <5>1. \A g \in Files : \A j \in Nat : MetDef(g, j, n) => Def(<<g, j>>).selection = "largest"
            BY <2>2, <3>5
          <5>2. syms[n].size >= Def(<<f, i>>).size /\ Def(<<f, i>>).size \in Nat
            BY <5>1, <2>1, <2>5, <4>2 DEF StrongAt
          <5> QED BY <5>2, <3>1, <2>3, <2>4, <2>8
        <4> QED BY <2>2, <3>5, <4>1, <4>2
      <3> QED BY <3>3, <3>4, <3>5 DEF StrongAt
    <2>9. CASE /\ Kind(n) \notin Undef /\ syms'[n] = syms[n] /\ ~Stronger(n, e)
               /\ MergesLargest(n, e) => e.size <= syms[n].size
      <3>1. Kind(n)' = Kind(n)
        BY <2>9 DEF Kind
      <3>2. \E f \in Files : \E i \in Nat : Leads(n, f, i)'
        <4>1. PICK f \in Files, i \in Nat : Leads(n, f, i)
          BY <2>1, <2>9 DEF StrongAt
        <4>2. Leads(n, f, i)'
          BY <4>1, <3>1, <2>2, <2>9 DEF Leads
        <4> QED BY <4>2
      <3>3. ASSUME NEW f \in Files, NEW i \in Nat, MetDef(f, i, n)'
            PROVE  /\ Kind(n) \notin Undef
                   /\ Def(<<f, i>>).op \in DefinedRegular => Kind(n) \in DefinedRegular
                   /\ Def(<<f, i>>).op = "common" =>
                        \/ Kind(n) \in DefinedRegular
                        \/ Kind(n) = "common" /\ syms[n].size >= Def(<<f, i>>).size
        <4>1. CASE f = f0 /\ i = i0
          <5>1. e.op = "common" => Kind(n) \in DefinedCOFF /\ (Kind(n) = "common" => ~(e.size > syms[n].size))
            BY <2>9 DEF Stronger
          <5>2. ~(e.size > syms[n].size) => syms[n].size >= e.size
            BY <2>3, <2>4
          <5> QED BY <2>9, <4>1, <5>1, <5>2 DEF Stronger, DefinedCOFF
        <4>2. CASE MetDef(f, i, n)
          BY <2>1, <4>2 DEF StrongAt
        <4> QED BY <2>2, <3>3, <4>1, <4>2
      <3>4. ASSUME \A f \in Files : \A i \in Nat : MetDef(f, i, n)' => Def(<<f, i>>).selection = "largest",
                   NEW f \in Files, NEW i \in Nat, MetDef(f, i, n)'
            PROVE  syms[n].selection = "largest" /\ syms[n].size >= Def(<<f, i>>).size
        <4>1. \A g \in Files : \A j \in Nat : MetDef(g, j, n) => Def(<<g, j>>).selection = "largest"
          BY <2>2, <3>4
        <4>2. PICK g \in Files, j \in Nat : Leads(n, g, j)
          BY <2>1, <2>9 DEF StrongAt
        <4>3. MetDef(g, j, n) /\ Kind(n) = Def(<<g, j>>).op
          BY <4>2 DEF Leads
        <4>4. syms[n].selection = "largest"
          BY <4>1, <4>3, <2>1 DEF StrongAt
        <4>5. Kind(n) = "comdat"
          BY <4>1, <4>3, <2>5 DEF None
        <4>6. CASE f = f0 /\ i = i0
          <5>1. e.selection = "largest" /\ e.op = "comdat"
            BY <2>3, <3>4 DEF None
          <5>2. MergesLargest(n, e)
            BY <5>1, <4>4, <4>5 DEF MergesLargest, MergedSelection
          <5> QED BY <5>2, <4>4, <4>6, <2>3, <2>4, <2>9
        <4>7. CASE MetDef(f, i, n)
          BY <4>1, <4>7, <2>1 DEF StrongAt
        <4> QED BY <2>2, <3>4, <4>6, <4>7
      <3> QED BY <2>9, <3>1, <3>2, <3>3, <3>4 DEF StrongAt
    <2> QED BY <2>7, <2>8, <2>9 DEF DefChange
  <1> QED BY <1>2, <1>3 DEF StrongInv

\* Two COMDATs of one name, with their selections and sizes, may not both be there.
BadPair(a, b, x, y) ==
  \/ MergedSelection(a, b) \in {"conflict", "noduplicates"}
  \/ MergedSelection(a, b) \in {"same size", "exact match"} /\ x # y

\* Whether a third one may join two that may be together does not depend on which of
\* them it is compared with.
LEMMA BadPairs ==
  ASSUME NEW a \in Selections, NEW b \in Selections, NEW c \in Selections, NEW s \in Selections,
         NEW xa, NEW xb, NEW xc,
         ~BadPair(b, c, xb, xc) \/ (b = c /\ xb = xc),
         s = c \/ {s, c} \subseteq {"any", "largest"}
  PROVE  /\ BadPair(a, b, xa, xb) <=> BadPair(a, s, xa, xc)
         /\ BadPair(b, a, xb, xa) <=> BadPair(a, s, xa, xc)
  <1> DEFINE AL == {"any", "largest"}
  <1>1. ASSUME NEW p \in Selections, NEW q \in Selections, NEW x, NEW y
        PROVE  BadPair(p, q, x, y) <=>
                 \/ p # q /\ ~(p \in AL /\ q \in AL)
                 \/ p = q /\ p = "noduplicates"
                 \/ p = q /\ p \in {"same size", "exact match"} /\ x # y
    <2>1. CASE p = q
      <3>1. MergedSelection(p, q) = p
        BY <2>1, MergedOf
      <3> QED BY <2>1, <3>1 DEF BadPair, Selections, None
    <2>2. CASE p # q /\ p \in AL /\ q \in AL
      <3>1. MergedSelection(p, q) = "largest"
        BY <2>2, MergedOf
      <3> QED BY <2>2, <3>1 DEF BadPair
    <2>3. CASE p # q /\ ~(p \in AL /\ q \in AL)
      <3>1. MergedSelection(p, q) = "conflict"
        BY <2>3, MergedOf
      <3> QED BY <2>3, <3>1 DEF BadPair
    <2> QED BY <2>1, <2>2, <2>3
  <1>2. /\ BadPair(a, b, xa, xb) <=>
             \/ a # b /\ ~(a \in AL /\ b \in AL)
             \/ a = b /\ a = "noduplicates"
             \/ a = b /\ a \in {"same size", "exact match"} /\ xa # xb
        /\ BadPair(b, a, xb, xa) <=>
             \/ b # a /\ ~(b \in AL /\ a \in AL)
             \/ b = a /\ b = "noduplicates"
             \/ b = a /\ b \in {"same size", "exact match"} /\ xb # xa
        /\ BadPair(a, s, xa, xc) <=>
             \/ a # s /\ ~(a \in AL /\ s \in AL)
             \/ a = s /\ a = "noduplicates"
             \/ a = s /\ a \in {"same size", "exact match"} /\ xa # xc
        /\ BadPair(b, c, xb, xc) <=>
             \/ b # c /\ ~(b \in AL /\ c \in AL)
             \/ b = c /\ b = "noduplicates"
             \/ b = c /\ b \in {"same size", "exact match"} /\ xb # xc
    BY <1>1
  <1>3. s = c \/ (s \in AL /\ c \in AL)
    OBVIOUS
  <1>4. CASE c \in AL
    <2>1. b \in AL /\ s \in AL
      BY <1>2, <1>3, <1>4
    <2> QED BY <1>2, <2>1
  <1>5. CASE c \notin AL
    <2>1. b = c /\ s = c
      BY <1>2, <1>3, <1>5
    <2>2. b \in {"same size", "exact match"} => xb = xc
      BY <1>2, <2>1
    <2> QED BY <1>2, <2>1, <2>2
  <1> QED BY <1>4, <1>5

\* One definition more: it is reported if it conflicts with any, since the symbol stands
\* for all that do not conflict.
LEMMA DuplicatesKept ==
  ASSUME TableInv, NEW f0 \in Files, NEW i0 \in Nat, NEW n, NEW e,
         e = Def(<<f0, i0>>), n = e.name, n \in Names, DefChange(n, e), MetDef(f0, i0, n)',
         ~MetDef(f0, i0, n), parsed' = parsed,
         \A f \in Files : \A i \in Nat : \A m \in Names :
           MetDef(f, i, m)' <=> MetDef(f, i, m) \/ (f = f0 /\ i = i0 /\ m = n)
  PROVE  DupsInv'
  <1>1. StrongInv /\ DupsInv /\ TableTypeOK /\ dups \subseteq Names
    BY DEF TableInv, TableTypeOK
  <1>2. ASSUME NEW m \in Names, m # n, Plain(m)' PROVE m \in dups' <=> Clash(m)'
    <2>1. \A f \in Files : \A i \in Nat : MetDef(f, i, m)' <=> MetDef(f, i, m)
      BY <1>2
    <2>2. Plain(m)
      BY <1>2, <2>1 DEF Plain
    <2>3. Clash(m)' <=> Clash(m)
      BY <2>1 DEF Clash
    <2>4. m \in dups' <=> m \in dups
      BY <1>2 DEF DefChange
    <2> QED BY <1>1, <2>2, <2>3, <2>4 DEF DupsInv
  <1>3. ASSUME Plain(n)' PROVE n \in dups' <=> Clash(n)'
    <2>1. \A f \in Files : \A i \in Nat : MetDef(f, i, n)' <=> MetDef(f, i, n) \/ (f = f0 /\ i = i0)
      OBVIOUS
    <2>2. Plain(n) /\ e.op \in DefinedRegular
      BY <1>3, <2>1 DEF Plain
    <2>3. n \in dups <=> Clash(n)
      BY <1>1, <2>2 DEF DupsInv
    <2>4. Clash(n) => Clash(n)'
      BY <2>1 DEF Clash
    <2>5. n \in dups => n \in dups'
      BY DEF DefChange, Took
    <2>6. StrongAt(n)
      BY <1>1 DEF StrongInv
    <2>7. \A f \in Files : \A i \in Nat : MetDef(f, i, n) =>
            Def(<<f, i>>).op \in DefinedRegular /\ Kind(n) \in DefinedRegular
      BY <2>2, <2>6 DEF Plain, StrongAt
    <2>8. /\ e.size \in Nat /\ e.selection \in Selections
      <3>1. f0 \in Files \ ArchiveFiles /\ i0 \in DOMAIN Entries(f0) /\ e = Entries(f0)[i0]
        BY DEF MetDef, Met, Def, Defines
      <3>2. e \in Entry
        BY <3>1, EntryFacts
      <3> QED BY <3>2 DEF Entry
    <2>9. syms[n].selection \in Selections
      BY <1>1 DEF TableTypeOK, Symbol
    <2>10. CASE n \in dups
      BY <2>3, <2>4, <2>5, <2>10
    <2>11. ASSUME n \notin dups, Kind(n) \in DefinedRegular, NEW f \in Files, NEW i \in Nat, MetDef(f, i, n)
           PROVE  /\ Conflict(<<f, i>>, <<f0, i0>>) <=> Clashes(n, e)
                  /\ Conflict(<<f0, i0>>, <<f, i>>) <=> Clashes(n, e)
      <3>1. Kind(n) \notin Undef
        BY <2>11 DEF DefinedRegular, Undef, Lazy, None
      <3>2. PICK g \in Files, j \in Nat : Leads(n, g, j)
        BY <2>6, <3>1 DEF StrongAt
      <3>3. PICK b : b = Def(<<f, i>>)
        OBVIOUS
      <3>4. PICK c : c = Def(<<g, j>>)
        OBVIOUS
      <3>5. /\ MetDef(g, j, n) /\ Kind(n) = c.op /\ syms[n].size = c.size
            /\ syms[n].selection = c.selection \/ {syms[n].selection, c.selection} \subseteq {"any", "largest"}
        BY <3>2, <3>4 DEF Leads
      <3>6. /\ b.selection \in Selections /\ c.selection \in Selections
            /\ b.op \in DefinedRegular /\ c.op \in DefinedRegular
        BY <2>7, <2>11, <3>3, <3>4, <3>5, MetDefType
      <3>7. <<f, i>> = <<g, j>> \/ ~Conflict(<<f, i>>, <<g, j>>)
        BY <2>3, <2>11, <3>5 DEF Clash
      <3>8. Conflict(<<f, i>>, <<g, j>>) <=>
              "regular" \in {b.op, c.op} \/ BadPair(b.selection, c.selection, b.size, c.size)
        BY <3>3, <3>4 DEF Conflict, BadPair
      <3>9. Conflict(<<f, i>>, <<f0, i0>>) <=>
              "regular" \in {b.op, e.op} \/ BadPair(b.selection, e.selection, b.size, e.size)
        BY <3>3 DEF Conflict, BadPair
      <3>10. Conflict(<<f0, i0>>, <<f, i>>) <=>
              "regular" \in {e.op, b.op} \/ BadPair(e.selection, b.selection, e.size, b.size)
        BY <3>3 DEF Conflict, BadPair
      <3>11. Clashes(n, e) <=>
              "regular" \in {e.op, c.op} \/ BadPair(e.selection, syms[n].selection, e.size, c.size)
        BY <3>5 DEF Clashes, BadPair
      <3>12. CASE e.op = "regular" \/ c.op = "regular"
        <4>1. e.op = "regular" \/ b.op = "regular"
          BY <3>3, <3>4, <3>7, <3>8, <3>12
        <4> QED BY <3>9, <3>10, <3>11, <3>12, <4>1
      <3>13. CASE e.op # "regular" /\ c.op # "regular"
        <4>1. b.op # "regular" /\ (~BadPair(b.selection, c.selection, b.size, c.size)
                                   \/ (b.selection = c.selection /\ b.size = c.size))
          BY <3>3, <3>4, <3>7, <3>8, <3>13
        <4>2. /\ BadPair(e.selection, b.selection, e.size, b.size) <=>
                   BadPair(e.selection, syms[n].selection, e.size, c.size)
              /\ BadPair(b.selection, e.selection, b.size, e.size) <=>
                   BadPair(e.selection, syms[n].selection, e.size, c.size)
          BY <4>1, <3>5, <3>6, <2>8, <2>9, BadPairs
        <4> QED BY <3>9, <3>10, <3>11, <3>13, <4>1, <4>2
      <3> QED BY <3>12, <3>13
    <2>12. ASSUME n \notin dups, Kind(n) \in DefinedRegular PROVE Clash(n)' <=> Clashes(n, e)
      <3>1. Kind(n) \notin Undef
        BY <2>12 DEF DefinedRegular, Undef, Lazy, None
      <3>2. PICK g \in Files, j \in Nat : Leads(n, g, j)
        BY <2>6, <3>1 DEF StrongAt
      <3>3. MetDef(g, j, n) /\ <<g, j>> # <<f0, i0>>
        BY <3>2 DEF Leads
      <3>4. ASSUME Clashes(n, e) PROVE Clash(n)'
        <4>1. Conflict(<<g, j>>, <<f0, i0>>)
          BY <2>11, <2>12, <3>3, <3>4
        <4>2. MetDef(g, j, n)' /\ MetDef(f0, i0, n)'
          BY <2>1, <3>3
        <4> QED BY <3>3, <4>1, <4>2 DEF Clash
      <3>5. ASSUME Clash(n)' PROVE Clashes(n, e)
        <4>1. PICK f \in Files, h \in Files, i \in Nat, k \in Nat :
                /\ MetDef(f, i, n)' /\ MetDef(h, k, n)'
                /\ <<f, i>> # <<h, k>> /\ Conflict(<<f, i>>, <<h, k>>)
          BY <3>5 DEF Clash
        <4>2. CASE f = f0 /\ i = i0
          <5>1. MetDef(h, k, n)
            BY <2>1, <4>1, <4>2
          <5> QED BY <2>11, <2>12, <4>1, <4>2, <5>1
        <4>3. CASE h = f0 /\ k = i0
          <5>1. MetDef(f, i, n)
            BY <2>1, <4>1, <4>3
          <5> QED BY <2>11, <2>12, <4>1, <4>3, <5>1
        <4>4. CASE MetDef(f, i, n) /\ MetDef(h, k, n)
          BY <2>3, <2>12, <4>1, <4>4 DEF Clash
        <4> QED BY <2>1, <4>1, <4>2, <4>3, <4>4
      <3> QED BY <3>4, <3>5
    <2>13. CASE n \notin dups /\ Kind(n) \notin DefinedRegular
      <3>1. \A f \in Files : \A i \in Nat : ~MetDef(f, i, n)
        BY <2>7, <2>13
      <3>2. ~Clash(n)'
        BY <2>1, <3>1 DEF Clash
      <3>3. Stronger(n, e)
        BY <2>2, <2>13 DEF Stronger
      <3>4. dups' = dups
        BY <3>3, <2>13 DEF DefChange, Took
      <3> QED BY <2>13, <3>2, <3>4
    <2>14. CASE n \notin dups /\ Kind(n) \in DefinedRegular
      <3>1. ~Stronger(n, e)
        BY <2>2, <2>14 DEF Stronger, DefinedRegular
      <3>2. CASE MergesLargest(n, e) /\ Took(n, e, "largest")
        <4>1. ~Clashes(n, e)
          BY <3>2 DEF MergesLargest, Clashes
        <4>2. dups' = dups
          BY <3>2 DEF Took
        <4> QED BY <2>12, <2>14, <4>1, <4>2
      <3>3. CASE /\ dups' \in {dups, dups \cup {n}}
                 /\ dups' = dups \cup {n} <=> Clashes(n, e) \/ n \in dups
        <4>1. n \in dups' <=> Clashes(n, e)
          BY <2>14, <3>3
        <4> QED BY <2>12, <2>14, <4>1
      <3> QED BY <2>2, <2>14, <3>1, <3>2, <3>3 DEF DefChange
    <2> QED BY <2>10, <2>13, <2>14
  <1> QED BY <1>2, <1>3 DEF DupsInv

----------------------------------------------------------------------------
(* The steps that read an entry *)

\* A step that defines nothing: what it meets is asked for, what it is shown is known.
ReadsMildly ==
  /\ LazyInv' /\ Mild /\ StaysAsked /\ StaysOffered
  /\ \A f \in Files : \A i \in DOMAIN Entries(f) : NewMet(f, i) =>
       /\ ~Offers(Entries(f)[i])
       /\ Entries(f)[i].op = "undef" => Asked(Entries(f)[i].name)'
  /\ \A n \in Names : \A f \in Files : \A i \in Nat :
       NewShown(f, i, n) => Kind(n)' # None /\ ~Wanted(n)'
  /\ \A r \in DOMAIN Roots : r < root' => r < root \/ Asked(Roots[r])'

LEMMA MildStep ==
  ASSUME TableInv, NEW rest, RestOf(rest), LoadedFrom(rest), ReadsMildly,
         UNCHANGED <<parsed, dups, phase>>, ~Over,
         syms' \in [Names -> Symbol], root' \in Nat \ {0}
  PROVE  TableInv'
  <1>1. ReadsOne
    BY ReadsOneEntry
  <1>2. TableTypeOK' /\ FilesInv(queue, stack, lazy, seen, parsed, phase)'
    BY DEF TableInv, TableTypeOK, LoadedFrom
  <1>3. OverInv'
    BY DEF OverInv, Over
  <1>4. AskedInv'
    <2>1. ASSUME NEW f \in Files, NEW i \in Nat, Met(f, i)', Entries(f)[i].op = "undef"
          PROVE  Asked(Entries(f)[i].name)'
      <3>1. PICK n : n = Entries(f)[i].name
        OBVIOUS
      <3>2. i \in DOMAIN Entries(f) /\ f \in Files \ ArchiveFiles
        BY <2>1 DEF Met
      <3>3. n \in Names
        BY <3>1, <3>2, EntryFacts DEF Entry
      <3>4. CASE Met(f, i)
        <4>1. Asked(n)
          BY <2>1, <3>1, <3>4 DEF TableInv, AskedInv
        <4>2. Asked(n)'
          BY <4>1, <3>3 DEF ReadsMildly, StaysAsked
        <4> QED BY <4>2, <3>1
      <3>5. CASE NewMet(f, i)
        BY <2>1, <3>2, <3>5 DEF ReadsMildly
      <3> QED BY <1>1, <2>1, <3>4, <3>5 DEF ReadsOne
    <2>2. ASSUME NEW n \in Includes PROVE Asked(n)'
      BY InputsAssumption DEF TableInv, AskedInv, ReadsMildly, StaysAsked
    <2>3. ASSUME NEW r \in DOMAIN Roots, r < root' PROVE Asked(Roots[r])'
      <3>1. Roots[r] \in Names
        BY InputsAssumption
      <3>2. CASE r < root
        BY <3>1, <3>2 DEF TableInv, AskedInv, ReadsMildly, StaysAsked
      <3> QED BY <2>3, <3>2 DEF ReadsMildly
    <2> QED BY <2>1, <2>2, <2>3 DEF AskedInv, Over
  <1>5. OfferInv'
    <2>1. ASSUME NEW n \in Names, NEW f \in Files, NEW i \in Nat, Shown(f, i, n)'
          PROVE  Kind(n)' # None /\ (Wanted(n)' => Weakened(n)')
      <3>1. CASE Shown(f, i, n)
        BY <3>1 DEF ReadsMildly, StaysOffered
      <3>2. CASE NewShown(f, i, n)
        BY <3>2 DEF ReadsMildly
      <3> QED BY <1>1, <2>1, <3>1, <3>2 DEF ReadsOne
    <2> QED BY <2>1 DEF OfferInv
  <1>6. StrongInv' /\ DupsInv'
    <2>1. ASSUME NEW f \in Files, NEW i \in Nat, NEW n \in Names
          PROVE  MetDef(f, i, n)' <=> MetDef(f, i, n)
      <3>1. Met(f, i) => Met(f, i)'
        BY <1>1 DEF ReadsOne, Onwards
      <3>2. ASSUME Met(f, i)', ~Met(f, i) PROVE ~Defines(<<f, i>>, n)
        <4>1. NewMet(f, i) /\ i \in DOMAIN Entries(f)
          BY <1>1, <3>2 DEF ReadsOne, Met
        <4>2. ~Offers(Entries(f)[i])
          BY <4>1 DEF ReadsMildly
        <4> QED BY <4>2 DEF Defines, Def
      <3> QED BY <3>1, <3>2 DEF MetDef
    <2>2. \A f \in Files : In(parsed, f) => In(parsed', f)
      OBVIOUS
    <2>3. Mild
      BY DEF ReadsMildly
    <2>4. \A n \in Names : Plain(n)' => (n \in dups' <=> n \in dups)
      OBVIOUS
    <2> QED BY <2>1, <2>2, <2>3, <2>4, MildKeeps
  <1>7. LazyInv'
    BY DEF ReadsMildly
  <1> QED BY <1>2, <1>3, <1>4, <1>5, <1>6, <1>7 DEF TableInv

\* The frame on top and its next entry.
LEMMA ReadingFacts ==
  ASSUME TableInv, stack # <<>>, Unread
  PROVE  /\ Top.file \in Files /\ Top.next \in DOMAIN Entries(Top.file) /\ Top.next \in Nat
         /\ Top.lazily \in BOOLEAN /\ ~Over
         /\ Top.file \in ArchiveFiles => Top.lazily = FALSE
         /\ Top.lazily = TRUE => ~In(queue, Top.file)
         /\ Top.lazily = FALSE => ~In(parsed, Top.file) /\ ~OpenAt(stack, Top.file, Top.next)
  <1>1. TableTypeOK /\ FilesInv(queue, stack, lazy, seen, parsed, phase) /\ OverInv
    BY DEF TableInv
  <1>2. Top.file \in Files /\ Top.next \in Nat \ {0} /\ Top.lazily \in BOOLEAN
    BY <1>1, OnwardFacts DEF Frame
  <1>3. Top.next <= Len(Entries(Top.file))
    BY DEF Unread
  <1>4. \E n \in Nat : Len(Entries(Top.file)) = n /\ DOMAIN Entries(Top.file) = 1..n
    BY <1>2, EntryFacts, ArchiveFacts
  <1>5. Top.next \in DOMAIN Entries(Top.file)
    BY <1>2, <1>3, <1>4
  <1>6. Top.lazily = TRUE => Scans(stack, Top.file)
    BY <1>1, OnwardFacts
  <1>7. Top.lazily = TRUE => Top.file \in LazyFiles /\ ~In(queue, Top.file)
    BY <1>1, <1>2, <1>6 DEF FilesInv
  <1>8. ~Over
    BY <1>1 DEF OverInv, Over
  <1>9. Top.file \in ArchiveFiles => Top.lazily = FALSE
    BY <1>2, <1>7, FileFacts
  <1>10. ASSUME Top.lazily = FALSE PROVE ~In(parsed, Top.file) /\ ~OpenAt(stack, Top.file, Top.next)
    <2>1. OpenAt(stack, Top.file, 0)
      BY <1>1, <1>10, OnwardFacts
    <2>2. ~In(parsed, Top.file)
      BY <1>1, <1>2, <2>1 DEF FilesInv
    <2>3. stack \in Seq(Frame) /\ Distinct(stack)
      BY <1>1 DEF FilesInv, TableTypeOK
    <2>4. ~OpenAt(Front(stack), Top.file, 0) /\ Front(stack) \in Seq(Frame)
      BY <2>3, <1>10, PopFrame DEF Top
    <2>5. ASSUME OpenAt(Front(stack), Top.file, Top.next) PROVE FALSE
      <3>1. PICK b \in Seq(Frame) : b = Front(stack)
        BY <2>4
      <3>2. PICK k \in DOMAIN b : b[k].file = Top.file /\ b[k].lazily = FALSE
        BY <2>5, <3>1 DEF OpenAt
      <3>3. b[k] \in Frame
        BY <3>1, <3>2
      <3>4. 0 < b[k].next
        BY <3>3 DEF Frame
      <3> QED BY <2>4, <3>1, <3>2, <3>4 DEF OpenAt
    <2>6. OpenAt(stack, Top.file, Top.next) <=>
            OpenAt(Front(stack), Top.file, Top.next)
              \/ (Top.file = Top.file /\ Top.lazily = FALSE /\ Top.next < Top.next)
      BY <2>3, PopFrame DEF Top
    <2>7. ~(Top.next < Top.next)
      BY <1>2
    <2> QED BY <2>2, <2>5, <2>6, <2>7
  <1> QED BY <1>2, <1>5, <1>7, <1>8, <1>9, <1>10

\* ArchiveFile::parse: a name of the index is known, or its member is on its way.
LEMMA ReadArchiveSymbolKeeps == ASSUME TableInv, ReadArchiveSymbol PROVE TableInv'
  <1>1. stack # <<>> /\ Unread /\ File[Top.file].type = "archive"
        /\ UNCHANGED <<parsed, dups, phase, root>>
    BY DEF ReadArchiveSymbol, Reading
  <1>2. PICK f : f = Top.file
    OBVIOUS
  <1>3. PICK i : i = Top.next
    OBVIOUS
  <1>4. f \in ArchiveFiles /\ i \in DOMAIN Entries(f) /\ Top.lazily = FALSE /\ ~Over
    BY <1>1, <1>2, <1>3, ReadingFacts DEF ArchiveFiles
  <1>5. PICK n : n = Entries(f)[i][1]
    OBVIOUS
  <1>6. PICK m : m = Entries(f)[i][2]
    OBVIOUS
  <1>7. n \in Names /\ m \in Members /\ Provides(m, n)
    BY <1>4, <1>5, <1>6, ArchiveFacts
  <1>8. Given(n, "lazy archive", m) /\ "lazy archive" \in Lazy
    BY <1>7 DEF Given, Lazy
  <1>9. PICK rest : rest = Onward
    OBVIOUS
  <1>10. RestOf(rest)
    BY <1>1, <1>9, OnwardRest
  <1>11. AddLazy(n, "lazy archive", m, rest)
    BY <1>2, <1>3, <1>5, <1>6, <1>9 DEF ReadArchiveSymbol, TopEntry
  <1>12. LoadedFrom(rest) /\ OnlyChanges(n) /\ LazyChange(n, "lazy archive", m)
    BY <1>1, <1>7, <1>8, <1>10, <1>11, AddLazyStep
  <1>13. ReadsOne
    BY <1>1, <1>10, <1>12, ReadsOneEntry
  <1>14. /\ LazyInv' /\ Mild /\ StaysAsked /\ StaysOffered
         /\ Kind(n)' # None /\ ~Wanted(n)'
    BY <1>7, <1>8, <1>12, <1>13, LazyChangeKeeps
  <1>15. \A g \in Files : \A j \in DOMAIN Entries(g) : ~NewMet(g, j)
    BY <1>2, <1>4 DEF NewMet, NextPos
  <1>16. ASSUME NEW p \in Names, NEW g \in Files, NEW j \in Nat, NewShown(g, j, p)
         PROVE  Kind(p)' # None /\ ~Wanted(p)'
    <2>1. g = f /\ j = i
      BY <1>2, <1>3, <1>16 DEF NewShown, NextPos
    <2>2. p = n
      BY <2>1, <1>4, <1>5, <1>16 DEF NewShown
    <2> QED BY <2>2, <1>14
  <1>17. ReadsMildly
    BY <1>1, <1>14, <1>15, <1>16 DEF ReadsMildly
  <1>18. syms' \in [Names -> Symbol] /\ root' \in Nat \ {0}
    BY <1>1, <1>12 DEF OnlyChanges, TableInv, TableTypeOK
  <1> QED BY <1>1, <1>4, <1>10, <1>12, <1>17, <1>18, MildStep

\* ObjFile::parseLazy: a name the lazy object defines is known, or the object is linked in.
LEMMA ReadLazySymbolKeeps == ASSUME TableInv, ReadLazySymbol PROVE TableInv'
  <1>1. /\ stack # <<>> /\ Unread /\ File[Top.file].type # "archive"
        /\ Top.lazily /\ Top.file \in lazy
        /\ UNCHANGED <<parsed, dups, phase, root>>
    BY DEF ReadLazySymbol, Reading
  <1>2. PICK f : f = Top.file
    OBVIOUS
  <1>3. PICK i : i = Top.next
    OBVIOUS
  <1>4. f \in Files \ ArchiveFiles /\ i \in DOMAIN Entries(f) /\ Top.lazily = TRUE /\ ~Over
        /\ f \in lazy /\ ~In(queue, f)
    BY <1>1, <1>2, <1>3, ReadingFacts DEF ArchiveFiles
  <1>5. PICK e : e = Entries(f)[i]
    OBVIOUS
  <1>6. e \in Entry /\ e \in Range(Entries(f)) /\ e.name \in Names
    BY <1>4, <1>5, EntryFacts DEF Entry
  <1>7. PICK rest : rest = Onward
    OBVIOUS
  <1>8. RestOf(rest) /\ TableTypeOK /\ TableInv
    BY <1>1, <1>7, OnwardRest DEF TableInv
  <1>9. \A g \in Files : \A j \in DOMAIN Entries(g) : ~NewMet(g, j)
    BY <1>4 DEF NewMet
  <1>10. root' \in Nat \ {0} /\ \A r \in DOMAIN Roots : r < root' => r < root
    BY <1>1 DEF TableInv, TableTypeOK
  <1>11. ASSUME NEW p \in Names, NEW g \in Files, NEW j \in Nat, NewShown(g, j, p)
         PROVE  p = e.name /\ Offers(e)
    BY <1>2, <1>3, <1>4, <1>5, <1>11 DEF NewShown, NextPos
  <1>12. CASE Offers(e)
    <2>1. PICK n : n = e.name
      OBVIOUS
    <2>2. AddLazy(n, "lazy object", f, rest)
      BY <1>2, <1>3, <1>5, <1>7, <1>12, <2>1 DEF ReadLazySymbol, TopEntry
    <2>3. Given(n, "lazy object", f) /\ "lazy object" \in Lazy /\ n \in Names
      BY <1>4, <1>6, <1>12, <2>1 DEF Given, Lazy, Provides
    <2>4. LoadedFrom(rest) /\ OnlyChanges(n) /\ LazyChange(n, "lazy object", f)
      BY <1>1, <1>8, <2>2, <2>3, AddLazyStep
    <2>5. ReadsOne
      BY <1>1, <1>8, <2>4, ReadsOneEntry
    <2>6. /\ LazyInv' /\ Mild /\ StaysAsked /\ StaysOffered
          /\ Kind(n)' # None /\ ~Wanted(n)'
      BY <2>3, <2>4, <2>5, LazyChangeKeeps
    <2>7. ReadsMildly
      BY <1>9, <1>10, <1>11, <2>1, <2>6 DEF ReadsMildly
    <2>8. syms' \in [Names -> Symbol]
      BY <2>4 DEF OnlyChanges
    <2> QED BY <1>1, <1>4, <1>8, <1>10, <2>4, <2>7, <2>8, MildStep
  <1>13. CASE ~Offers(e)
    <2>1. stack' = rest /\ NoLoad /\ UNCHANGED syms
      BY <1>2, <1>3, <1>5, <1>7, <1>13 DEF ReadLazySymbol, TopEntry
    <2>2. rest \in Seq(Frame) /\ FilesInv(queue, rest, lazy, seen, parsed, phase)
      BY <1>8 DEF RestOf
    <2>3. LoadedFrom(rest)
      BY <1>1, <1>8, <2>1, <2>2, LoadKeeps DEF Loads
    <2>4. ReadsOne
      BY <1>1, <1>8, <2>3, ReadsOneEntry
    <2>5. ReadsMildly
      <3>1. LazyInv'
        BY <1>8, <2>1, <2>4, LazyStable DEF TableInv, LazyInv, ReadsOne
      <3>2. Mild /\ StaysAsked
        BY <2>1 DEF Mild, StaysAsked, Asked, Kind
      <3>3. \A n \in Names : Kind(n)' = Kind(n) /\ (Wanted(n)' <=> Wanted(n))
        BY <2>1 DEF Kind, Wanted
      <3>4. StaysOffered
        BY <2>4, <3>3 DEF StaysOffered, TableInv, OfferInv, ReadsOne
      <3> QED BY <1>9, <1>10, <1>11, <1>13, <3>1, <3>2, <3>4 DEF ReadsMildly
    <2>6. syms' \in [Names -> Symbol]
      BY <1>8, <2>1 DEF TableTypeOK
    <2> QED BY <1>1, <1>4, <1>8, <1>10, <2>3, <2>5, <2>6, MildStep
  <1> QED BY <1>12, <1>13

\* ObjFile::initializeSymbols, for an undefined symbol or a weak external.
LEMMA ReadUndefinedKeeps == ASSUME TableInv, ReadUndefined PROVE TableInv'
  <1>1. /\ stack # <<>> /\ Unread /\ File[Top.file].type # "archive"
        /\ ~Top.lazily /\ ~Offers(TopEntry)
        /\ UNCHANGED <<parsed, dups, phase, root>>
    BY DEF ReadUndefined, Reading
  <1>2. PICK f : f = Top.file
    OBVIOUS
  <1>3. PICK i : i = Top.next
    OBVIOUS
  <1>4. f \in Files \ ArchiveFiles /\ i \in DOMAIN Entries(f) /\ Top.lazily = FALSE /\ ~Over
    BY <1>1, <1>2, <1>3, ReadingFacts DEF ArchiveFiles
  <1>5. PICK e : e = Entries(f)[i]
    OBVIOUS
  <1>6. e \in Entry /\ e.name \in Names /\ ~Offers(e) /\ e.op \in {"undef", "weak"}
    BY <1>1, <1>2, <1>3, <1>4, <1>5, EntryFacts DEF Entry, TopEntry, Offers
  <1>7. PICK rest : rest = Onward
    OBVIOUS
  <1>8. RestOf(rest) /\ OpenAt(rest, f, i)
    BY <1>1, <1>2, <1>3, <1>4, <1>7, OnwardRest
  <1>9. PICK n : n = e.name
    OBVIOUS
  <1>10. PICK overrideLazy \in BOOLEAN : overrideLazy = (e.op = "weak")
    OBVIOUS
  <1>11. AddUndefined(n, overrideLazy, rest)
    BY <1>2, <1>3, <1>5, <1>7, <1>9, <1>10 DEF ReadUndefined, TopEntry
  <1>12. LoadedFrom(rest) /\ OnlyChanges(n) /\ UndefChange(n, overrideLazy)
    BY <1>1, <1>6, <1>8, <1>9, <1>11, AddUndefinedStep
  <1>13. ReadsOne
    BY <1>1, <1>8, <1>12, ReadsOneEntry
  <1>14. overrideLazy => Weakened(n)'
    <2>1. OpenAt(stack', f, i)
      BY <1>4, <1>8, <1>12, EntryFacts DEF LoadedFrom
    <2> QED BY <1>4, <1>5, <1>9, <1>10, <2>1 DEF Weakened
  <1>15. /\ LazyInv' /\ Mild /\ StaysAsked /\ StaysOffered
         /\ ~overrideLazy => Asked(n)'
    BY <1>6, <1>9, <1>12, <1>13, <1>14, UndefChangeKeeps
  <1>16. ASSUME NEW g \in Files, NEW j \in DOMAIN Entries(g), NewMet(g, j)
         PROVE  /\ ~Offers(Entries(g)[j])
                /\ Entries(g)[j].op = "undef" => Asked(Entries(g)[j].name)'
    <2>1. g = f /\ j = i
      BY <1>2, <1>3, <1>16 DEF NewMet, NextPos
    <2>2. Entries(g)[j] = e
      BY <2>1, <1>5
    <2>3. Entries(g)[j].op = "undef" => ~overrideLazy
      BY <1>10, <2>2
    <2> QED BY <1>6, <1>9, <1>15, <2>2, <2>3
  <1>17. \A p \in Names : \A g \in Files : \A j \in Nat : ~NewShown(g, j, p)
    BY <1>2, <1>4 DEF NewShown, NextPos
  <1>18. syms' \in [Names -> Symbol] /\ root' \in Nat \ {0} /\ root' = root
    BY <1>1, <1>12 DEF OnlyChanges, TableInv, TableTypeOK
  <1>19. ReadsMildly
    BY <1>15, <1>16, <1>17, <1>18 DEF ReadsMildly
  <1> QED BY <1>1, <1>4, <1>8, <1>12, <1>18, <1>19, MildStep

\* addGCRoot: the root is known, and what it asks for is on its way.
LEMMA AddRootKeeps == ASSUME TableInv, AddRoot PROVE TableInv'
  <1>1. /\ phase = "roots" /\ stack = <<>> /\ root <= Len(Roots)
        /\ AddUndefined(Roots[root], FALSE, <<>>) /\ root' = root + 1
        /\ UNCHANGED <<parsed, dups, phase>>
    BY DEF AddRoot
  <1>2. root \in Nat \ {0} /\ TableTypeOK
    BY DEF TableInv, TableTypeOK
  <1>3. root \in DOMAIN Roots /\ \A r \in DOMAIN Roots : r \in Nat
    BY <1>1, <1>2, InputsAssumption
  <1>4. PICK n \in Names : n = Roots[root]
    BY <1>3, InputsAssumption
  <1>5. PICK rest : rest = <<>> /\ RestOf(rest)
    BY <1>1, EmptyRest
  <1>6. AddUndefined(n, FALSE, rest)
    BY <1>1, <1>4, <1>5
  <1>7. LoadedFrom(rest) /\ OnlyChanges(n) /\ UndefChange(n, FALSE)
    BY <1>1, <1>5, <1>6, AddUndefinedStep
  <1>8. ReadsOne
    BY <1>1, <1>5, <1>7, ReadsOneEntry
  <1>9. LazyInv' /\ Mild /\ StaysAsked /\ StaysOffered /\ Asked(n)'
    BY <1>7, <1>8, UndefChangeKeeps
  <1>10. \A f \in Files : \A i : ~NextPos(f, i)
    BY <1>1 DEF NextPos
  <1>11. ASSUME NEW r \in DOMAIN Roots, r < root' PROVE r < root \/ Asked(Roots[r])'
    <2>1. r < root \/ r = root
      BY <1>1, <1>2, <1>3, <1>11
    <2>2. CASE r = root
      <3>1. Roots[r] = n
        BY <1>4, <2>2
      <3> QED BY <1>9, <3>1
    <2> QED BY <2>1, <2>2
  <1>12. ReadsMildly
    BY <1>9, <1>10, <1>11 DEF ReadsMildly, NewMet, NewShown
  <1>13. syms' \in [Names -> Symbol] /\ root' \in Nat \ {0} /\ ~Over
    BY <1>1, <1>2, <1>7 DEF OnlyChanges, Over
  <1> QED BY <1>1, <1>5, <1>7, <1>12, <1>13, MildStep

\* ObjFile::createDefined: the definition takes its place among those met.
LEMMA ReadDefinedKeeps == ASSUME TableInv, ReadDefined PROVE TableInv'
  <1>1. /\ stack # <<>> /\ Unread /\ File[Top.file].type # "archive"
        /\ ~Top.lazily /\ Offers(TopEntry) /\ CreateDefined(Top.file, TopEntry)
        /\ stack' = Onward /\ NoLoad /\ UNCHANGED <<parsed, phase, root>>
    BY DEF ReadDefined, Reading
  <1>2. PICK f0 : f0 = Top.file
    OBVIOUS
  <1>3. PICK i0 : i0 = Top.next
    OBVIOUS
  <1>4. /\ f0 \in Files \ ArchiveFiles /\ i0 \in DOMAIN Entries(f0) /\ i0 \in Nat
        /\ Top.lazily = FALSE /\ ~Over /\ ~In(parsed, f0) /\ ~OpenAt(stack, f0, i0)
    BY <1>1, <1>2, <1>3, ReadingFacts DEF ArchiveFiles
  <1>5. PICK e : e = Entries(f0)[i0]
    OBVIOUS
  <1>6. PICK n : n = e.name
    OBVIOUS
  <1>7. e \in Entry /\ n \in Names /\ Offers(e) /\ e = Def(<<f0, i0>>) /\ CreateDefined(f0, e)
    BY <1>1, <1>2, <1>3, <1>4, <1>5, <1>6, EntryFacts DEF Entry, TopEntry, Def
  <1>8. PICK rest : rest = Onward
    OBVIOUS
  <1>9. RestOf(rest) /\ OpenAt(rest, f0, i0) /\ TableTypeOK
    BY <1>1, <1>2, <1>3, <1>4, <1>8, OnwardRest DEF TableInv
  <1>10. LoadedFrom(rest)
    BY <1>1, <1>8, <1>9, LoadKeeps DEF Loads, RestOf
  <1>11. ReadsOne
    BY <1>1, <1>9, <1>10, ReadsOneEntry
  <1>12. DefChange(n, e)
    BY <1>4, <1>6, <1>7, <1>9, CreateDefinedStep
  <1>13. ~MetDef(f0, i0, n) /\ MetDef(f0, i0, n)'
    <2>1. Met(f0, i0)'
      BY <1>1, <1>4, <1>8, <1>9 DEF Met
    <2>2. ~Met(f0, i0)
      BY <1>4 DEF Met
    <2>3. Defines(<<f0, i0>>, n)
      BY <1>6, <1>7 DEF Defines
    <2> QED BY <2>1, <2>2, <2>3 DEF MetDef
  <1>14. ASSUME NEW f \in Files, NEW i \in Nat, NEW m \in Names
         PROVE  MetDef(f, i, m)' <=> MetDef(f, i, m) \/ (f = f0 /\ i = i0 /\ m = n)
    <2>1. Met(f, i) => Met(f, i)'
      BY <1>11 DEF ReadsOne, Onwards
    <2>2. ASSUME Met(f, i)', ~Met(f, i) PROVE f = f0 /\ i = i0
      BY <1>2, <1>3, <1>11, <2>2 DEF ReadsOne, NewMet, NextPos
    <2>3. Defines(<<f0, i0>>, m) => m = n
      BY <1>6, <1>7 DEF Defines
    <2> QED BY <1>13, <2>1, <2>2, <2>3 DEF MetDef
  <1>15. StrongInv'
    BY <1>4, <1>6, <1>7, <1>12, <1>13, <1>14, StrongestKept
  <1>16. DupsInv'
    <2>1. parsed' = parsed /\ f0 \in Files /\ i0 \in Nat
      BY <1>1, <1>4
    <2> QED BY <2>1, <1>6, <1>7, <1>12, <1>13, <1>14, DuplicatesKept
  <1>17. Kind(n)' \notin Undef /\ \A m \in Names \ {n} : syms'[m] = syms[m]
    <2>1. e.op \notin Undef
      BY <1>7 DEF Entry, Offers, Ops, Undef, Lazy, None
    <2> QED BY <1>12, <2>1 DEF DefChange, Took, Kind, OnlyChanges
  <1>18. \A m \in Names : Asked(m) => Asked(m)'
    BY <1>17 DEF Asked, Kind, Undef
  <1>19. AskedInv'
    <2>1. ASSUME NEW f \in Files, NEW i \in Nat, Met(f, i)', Entries(f)[i].op = "undef"
          PROVE  Asked(Entries(f)[i].name)'
      <3>1. PICK m : m = Entries(f)[i].name
        OBVIOUS
      <3>2. i \in DOMAIN Entries(f) /\ f \in Files \ ArchiveFiles
        BY <2>1 DEF Met
      <3>3. m \in Names
        BY <3>1, <3>2, EntryFacts DEF Entry
      <3>4. ~(f = f0 /\ i = i0)
        BY <2>1, <1>5, <1>7 DEF Offers
      <3>5. Met(f, i)
        BY <1>2, <1>3, <1>11, <2>1, <3>4 DEF ReadsOne, NewMet, NextPos
      <3>6. Asked(m)
        BY <2>1, <3>1, <3>5 DEF TableInv, AskedInv
      <3>7. Asked(m)'
        BY <1>18, <3>3, <3>6
      <3> QED BY <3>7, <3>1
    <2>2. ASSUME NEW m \in Includes PROVE Asked(m)'
      BY <1>18, InputsAssumption DEF TableInv, AskedInv
    <2>3. ASSUME NEW r \in DOMAIN Roots, r < root' PROVE Asked(Roots[r])'
      BY <1>1, <1>18, <2>3, InputsAssumption DEF TableInv, AskedInv
    <2> QED BY <1>1, <1>4, <2>1, <2>2, <2>3 DEF AskedInv, Over
  <1>20. OfferInv'
    <2>1. ASSUME NEW m \in Names, NEW f \in Files, NEW i \in Nat, Shown(f, i, m)'
          PROVE  Kind(m)' # None /\ (Wanted(m)' => Weakened(m)')
      <3>1. Shown(f, i, m)
        BY <1>2, <1>4, <1>11, <2>1 DEF ReadsOne, NewShown, NextPos
      <3>2. Kind(m) # None /\ (Wanted(m) => Weakened(m))
        BY <3>1 DEF TableInv, OfferInv
      <3>3. CASE m = n
        BY <1>17, <3>3 DEF Undef, Wanted
      <3>4. CASE m # n
        <4>1. Kind(m)' = Kind(m) /\ (Wanted(m)' <=> Wanted(m))
          BY <1>17, <3>4 DEF Kind, Wanted
        <4> QED BY <1>11, <3>2, <4>1 DEF ReadsOne
      <3> QED BY <3>3, <3>4
    <2> QED BY <2>1 DEF OfferInv
  <1>21. LazyInv'
    <2>1. ASSUME NEW m \in Names PROVE LazyAt(m)'
      <3>1. CASE m # n
        BY <1>9, <1>11, <1>17, <3>1, LazyStable DEF TableInv, LazyInv, ReadsOne
      <3>2. CASE m = n
        BY <1>17, <3>2 DEF LazyAt, Undef, Lazy
      <3> QED BY <3>1, <3>2
    <2> QED BY <2>1 DEF LazyInv
  <1>22. TableTypeOK' /\ FilesInv(queue, stack, lazy, seen, parsed, phase)'
    BY <1>1, <1>9, <1>10, <1>12 DEF TableTypeOK, LoadedFrom, DefChange, OnlyChanges
  <1>23. OverInv'
    BY <1>1, <1>4 DEF OverInv, Over
  <1> QED BY <1>15, <1>16, <1>19, <1>20, <1>21, <1>22, <1>23 DEF TableInv

----------------------------------------------------------------------------
(* The steps between two entries *)

\* A step that reads no entry and only sets aliases.
Settles ==
  /\ Onwards
  /\ \A f \in Files : \A i \in Nat : Met(f, i)' => Met(f, i)
  /\ \A n \in Names : \A f \in Files : \A i \in Nat : Shown(f, i, n)' => Shown(f, i, n)
  /\ \A n \in Names : Wanted(n)' => Wanted(n) /\ (Weakened(n) => Weakened(n)')
  /\ \A n \in Names : /\ syms'[n].kind = syms[n].kind /\ syms'[n].pending = syms[n].pending
                      /\ syms'[n] = syms[n] \/ syms[n].kind = "undef"
  /\ \A n \in Names : Plain(n)' => (n \in dups' <=> n \in dups)
  /\ \A r \in DOMAIN Roots : r < root' => r < root
  /\ phase' = "done" => root' > Len(Roots)

LEMMA SettledStep ==
  ASSUME TableInv, Settles, TableTypeOK', FilesInv(queue, stack, lazy, seen, parsed, phase)', OverInv'
  PROVE  TableInv'
  <1>1. \A n \in Names : Asked(n) => Asked(n)'
    BY DEF Settles, Asked, Kind
  <1>2. AskedInv'
    <2>1. ASSUME NEW f \in Files, NEW i \in Nat, Met(f, i)', Entries(f)[i].op = "undef"
          PROVE  Asked(Entries(f)[i].name)'
      <3>1. PICK m : m = Entries(f)[i].name
        OBVIOUS
      <3>2. i \in DOMAIN Entries(f) /\ f \in Files \ ArchiveFiles
        BY <2>1 DEF Met
      <3>3. m \in Names
        BY <3>1, <3>2, EntryFacts DEF Entry
      <3>4. Met(f, i)
        BY <2>1 DEF Settles
      <3>5. Asked(m)
        BY <2>1, <3>1, <3>4 DEF TableInv, AskedInv
      <3>6. Asked(m)'
        BY <1>1, <3>3, <3>5
      <3> QED BY <3>6, <3>1
    <2>2. ASSUME NEW m \in Includes PROVE Asked(m)'
      BY <1>1, InputsAssumption DEF TableInv, AskedInv
    <2>3. ASSUME NEW r \in DOMAIN Roots, r < root' PROVE Asked(Roots[r])'
      BY <1>1, <2>3, InputsAssumption DEF TableInv, AskedInv, Settles
    <2> QED BY <2>1, <2>2, <2>3 DEF AskedInv, Settles
  <1>3. OfferInv'
    <2>1. ASSUME NEW n \in Names, NEW f \in Files, NEW i \in Nat, Shown(f, i, n)'
          PROVE  Kind(n)' # None /\ (Wanted(n)' => Weakened(n)')
      <3>1. Shown(f, i, n)
        BY <2>1 DEF Settles
      <3>2. Kind(n) # None /\ (Wanted(n) => Weakened(n))
        BY <3>1 DEF TableInv, OfferInv
      <3>3. Kind(n)' = Kind(n)
        BY DEF Settles, Kind
      <3> QED BY <3>2, <3>3 DEF Settles
    <2> QED BY <2>1 DEF OfferInv
  <1>4. LazyInv'
    <2>1. ASSUME NEW n \in Names PROVE LazyAt(n)'
      <3>1. LazyAt(n) /\ Onwards /\ TableTypeOK
        BY DEF TableInv, LazyInv, Settles
      <3>2. CASE syms'[n] = syms[n]
        BY <3>1, <3>2, LazyStable
      <3>3. CASE syms[n].kind = "undef"
        <4>1. syms'[n].kind = "undef" /\ syms'[n].pending = syms[n].pending
          BY <3>3 DEF Settles
        <4>2. syms[n].pending => \E f \in Files \ ArchiveFiles : Coming(f) /\ Provides(f, n)
          BY <3>1, <3>3 DEF LazyAt, Kind, Undef
        <4>3. syms[n].pending => \E f \in Files \ ArchiveFiles : Coming(f)' /\ Provides(f, n)
          BY <3>1, <4>2 DEF Onwards
        <4> QED BY <4>1, <4>3 DEF LazyAt, Kind
      <3> QED BY <3>2, <3>3 DEF Settles
    <2> QED BY <2>1 DEF LazyInv
  <1>5. StrongInv' /\ DupsInv'
    <2>1. Mild
      BY DEF Settles, Mild, Undef
    <2>2. \A f \in Files : \A i \in Nat : \A n \in Names : MetDef(f, i, n)' <=> MetDef(f, i, n)
      BY DEF Settles, Onwards, MetDef
    <2>3. \A f \in Files : In(parsed, f) => In(parsed', f)
      BY DEF Settles, Onwards
    <2>4. \A n \in Names : Plain(n)' => (n \in dups' <=> n \in dups)
      BY DEF Settles
    <2> QED BY <2>1, <2>2, <2>3, <2>4, MildKeeps
  <1> QED BY <1>2, <1>3, <1>4, <1>5 DEF TableInv

\* LinkerDriver::run: the next file of the queue is opened.
LEMMA StartTaskKeeps == ASSUME TableInv, StartTask PROVE TableInv'
  <1>1. /\ stack = <<>> /\ queue # <<>> /\ queue' = Tail(queue)
        /\ stack' = <<[file |-> Head(queue), lazily |-> Head(queue) \in lazy, next |-> 1]>>
        /\ UNCHANGED <<syms, lazy, seen, parsed, dups, phase, root>>
    BY DEF StartTask
  <1>2. TableTypeOK /\ FilesInv(queue, stack, lazy, seen, parsed, phase) /\ queue \in Seq(Files)
        /\ Once(queue) /\ lazy \subseteq LazyFiles
    BY DEF TableInv, TableTypeOK, FilesInv
  <1>3. PICK h : h = Head(queue)
    OBVIOUS
  <1>4. /\ h \in Files /\ queue' \in Seq(Files) /\ Once(queue') /\ In(queue, h)
        /\ \A f : In(queue', f) <=> In(queue, f) /\ f # h
    BY <1>1, <1>2, <1>3, TailIn
  <1>5. PICK x : x = [file |-> h, lazily |-> h \in lazy, next |-> 1]
    OBVIOUS
  <1>6. x \in Frame /\ x.file = h /\ x.lazily = (h \in lazy) /\ x.next = 1
    BY <1>4, <1>5 DEF Frame
  <1>7. stack' = Append(<<>>, x)
    BY <1>1, <1>3, <1>5
  <1>8. /\ stack' \in Seq(Frame) /\ Distinct(stack')
        /\ \A f, i : OpenAt(stack', f, i) <=> f = h /\ h \notin lazy /\ i < 1
        /\ \A f, i : PastAt(stack', f, i) <=> (f = h /\ h \in lazy => i < 1)
        /\ \A f : Scans(stack', f) <=> f = h /\ h \in lazy
    <2>1. PICK b \in Seq(Frame) : b = <<>>
      BY EmptyStack
    <2>2. stack' = Append(b, x)
      BY <1>7, <2>1
    <2>3. Distinct(b) /\ (\A f, i : ~OpenAt(b, f, i) /\ PastAt(b, f, i)) /\ \A f : ~Scans(b, f)
      BY <2>1, EmptyStack
    <2>4. /\ stack' \in Seq(Frame) /\ Distinct(stack')
          /\ \A f, i : OpenAt(stack', f, i) <=> x.file = f /\ x.lazily = FALSE /\ i < x.next
          /\ \A f, i : PastAt(stack', f, i) <=> (x.file = f /\ x.lazily = TRUE => i < x.next)
          /\ \A f : Scans(stack', f) <=> x.file = f /\ x.lazily = TRUE
      BY <1>6, <2>2, <2>3, AppendFrame
    <2>5. (x.lazily = TRUE <=> h \in lazy) /\ (x.lazily = FALSE <=> h \notin lazy)
      <3>1. x.lazily <=> h \in lazy
        BY <1>6
      <3>2. x.lazily \in BOOLEAN
        BY <1>6 DEF Frame
      <3> QED BY <3>1, <3>2
    <2> QED BY <1>6, <2>4, <2>5
  <1>9. \A f : OpenAt(stack', f, 0) <=> f = h /\ h \notin lazy
    BY <1>8
  <1>10. \A f, i : ~OpenAt(stack, f, i) /\ PastAt(stack, f, i)
    BY <1>1, EmptyStack
  <1>11. \A f : Loaded(stack', parsed', f) <=> Loaded(stack, parsed, f) \/ (f = h /\ h \notin lazy)
    BY <1>1, <1>9, <1>10 DEF Loaded
  <1>12. TableTypeOK'
    BY <1>1, <1>2, <1>4, <1>8 DEF TableTypeOK
  <1>13. ~Loaded(stack, parsed, h) /\ ~In(parsed, h)
    BY <1>2, <1>4 DEF FilesInv, Loaded
  <1>14. FilesInv(queue, stack, lazy, seen, parsed, phase)'
    <2>1. Once(queue') /\ Once(parsed') /\ Distinct(stack')
      BY <1>1, <1>2, <1>4, <1>8 DEF FilesInv
    <2>2. \A g \in Files : In(queue', g) => ~Loaded(stack', parsed', g) /\ ~Scans(stack', g)
      BY <1>2, <1>4, <1>8, <1>11 DEF FilesInv
    <2>3. \A g \in Files : Scans(stack', g) => g \in LazyFiles
      BY <1>2, <1>8
    <2>4. \A g \in Files : In(parsed', g) => ~OpenAt(stack', g, 0)
      BY <1>1, <1>9, <1>13
    <2>5. \A g \in lazy' : ~Loaded(stack', parsed', g)
      BY <1>1, <1>2, <1>11 DEF FilesInv
    <2>6. \A g \in LazyFiles : In(queue', g) => g \in lazy'
      BY <1>1, <1>2, <1>4 DEF FilesInv
    <2>7. \A m \in Members : m \in seen' <=> In(queue', m) \/ Loaded(stack', parsed', m)
      <3>1. \A m \in Members : m \notin lazy
        BY <1>2, FileFacts
      <3>2. seen' = seen
        BY <1>1
      <3> QED BY <1>2, <1>4, <1>11, <3>1, <3>2 DEF FilesInv
    <2>8. phase' = "inputs" => \A g \in Files :
            In(DefaultLibs, g) => ~In(queue', g) /\ ~Loaded(stack', parsed', g)
      BY <1>1, <1>2, <1>4, <1>11 DEF FilesInv
    <2> QED BY <2>1, <2>2, <2>3, <2>4, <2>5, <2>6, <2>7, <2>8 DEF FilesInv
  <1>15. OverInv'
    BY <1>1 DEF TableInv, OverInv
  <1>16. Onwards
    <2>1. \A f \in Files : Coming(f) => Coming(f)'
      BY <1>1, <1>4, <1>11 DEF Coming
    <2>2. \A f \in Files : \A i \in Nat : Met(f, i) => Met(f, i)'
      BY <1>1, <1>10 DEF Met
    <2> QED BY <1>1, <1>4, <1>11, <2>1, <2>2 DEF Onwards
  <1>17. ASSUME NEW f \in Files, NEW i \in Nat, Met(f, i)' PROVE Met(f, i)
    <2>1. ~(i < 1)
      BY <1>17, EntryFacts DEF Met
    <2> QED BY <1>1, <1>8, <1>17, <2>1 DEF Met
  <1>18. ASSUME NEW n \in Names, NEW f \in Files, NEW i \in Nat, Shown(f, i, n)' PROVE Shown(f, i, n)
    <2>1. i \in DOMAIN Entries(f)
      BY <1>18 DEF Shown
    <2>2. ~(i < 1)
      BY <2>1, EntryFacts, ArchiveFacts
    <2>3. CASE f \in ArchiveFiles /\ Entries(f)[i][1] = n /\ (In(parsed', f) \/ OpenAt(stack', f, i))
      BY <1>1, <1>8, <2>1, <2>2, <2>3 DEF Shown
    <2>4. CASE /\ f \in lazy' /\ Entries(f)[i].name = n /\ Offers(Entries(f)[i])
               /\ ~In(queue', f) /\ PastAt(stack', f, i)
      <3>1. f \in lazy /\ f # h
        BY <1>1, <1>8, <2>2, <2>4
      <3> QED BY <1>4, <1>10, <2>1, <2>4, <3>1 DEF Shown
    <2> QED BY <1>18, <2>3, <2>4 DEF Shown
  <1>19. \A n \in Names : ~Weakened(n) /\ (Wanted(n)' <=> Wanted(n))
    BY <1>1, <1>10 DEF Weakened, Wanted, Kind
  <1>20. Settles
    BY <1>1, <1>16, <1>17, <1>18, <1>19 DEF Settles, TableInv, AskedInv
  <1> QED BY <1>12, <1>14, <1>15, <1>20, SettledStep

\* The frame on top goes; what it has read stays read.
LEMMA EndFacts ==
  ASSUME TableInv, EndFile
  PROVE  /\ Onwards /\ ~Over
         /\ stack' \in Seq(Frame) /\ parsed' \in Seq(Files)
         /\ FilesInv(queue', stack', lazy', seen', parsed', phase')
         /\ \A f \in Files : \A i \in Nat : Met(f, i)' => Met(f, i)
         /\ \A n \in Names : \A f \in Files : \A i \in Nat : Shown(f, i, n)' => Shown(f, i, n)
         /\ Top.lazily = FALSE => In(parsed', Top.file)
         /\ Top.file \in Files
         /\ \A n \in Names : Weakened(n) =>
              \/ Weakened(n)'
              \/ /\ Top.lazily = FALSE /\ Top.file \notin ArchiveFiles
                 /\ \E e \in WeakOf(Top.file) : e.name = n
  <1>1. /\ stack # <<>> /\ stack' = Front(stack)
        /\ ~Unread \/ (Top.lazily /\ Top.file \notin lazy)
        /\ parsed' = IF Top.lazily THEN parsed ELSE Append(parsed, Top.file)
        /\ UNCHANGED <<queue, lazy, seen, phase, root>>
    BY DEF EndFile
  <1>2. TableTypeOK /\ FilesInv(queue, stack, lazy, seen, parsed, phase) /\ OverInv
        /\ stack \in Seq(Frame) /\ parsed \in Seq(Files) /\ lazy \subseteq LazyFiles
    BY DEF TableInv, TableTypeOK
  <1>3. PICK x \in Frame : x = Top
    BY <1>1, <1>2, OnwardFacts
  <1>4. PICK f0 : f0 = x.file
    OBVIOUS
  <1>5. f0 \in Files /\ x.next \in Nat /\ 0 < x.next /\ x.lazily \in BOOLEAN
    BY <1>3, <1>4 DEF Frame
  <1>6. \E n \in Nat : Len(Entries(f0)) = n /\ DOMAIN Entries(f0) = 1..n
    BY <1>5, EntryFacts, ArchiveFacts
  <1>7. ASSUME ~Unread, NEW i \in DOMAIN Entries(f0) PROVE i < x.next /\ i \in Nat
    <2>1. ~(x.next <= Len(Entries(f0)))
      BY <1>3, <1>4, <1>7 DEF Unread
    <2> QED BY <1>5, <1>6, <1>7, <2>1
  <1>8. /\ stack' \in Seq(Frame)
        /\ \A f, i : OpenAt(stack, f, i) <=>
             OpenAt(stack', f, i) \/ (f0 = f /\ x.lazily = FALSE /\ i < x.next)
        /\ \A f, i : PastAt(stack, f, i) <=>
             PastAt(stack', f, i) /\ (f0 = f /\ x.lazily = TRUE => i < x.next)
        /\ \A f : Scans(stack, f) <=> Scans(stack', f) \/ (f0 = f /\ x.lazily = TRUE)
        /\ Distinct(stack) <=> Distinct(stack') /\ (x.lazily = FALSE => ~OpenAt(stack', f0, 0))
    BY <1>1, <1>2, <1>3, <1>4, PopFrame DEF Top
  <1>9. ~Over
    BY <1>1, <1>2 DEF OverInv, Over
  <1>10. \A f : OpenAt(stack, f, 0) <=> OpenAt(stack', f, 0) \/ (f0 = f /\ x.lazily = FALSE)
    BY <1>5, <1>8
  <1>11. x.lazily = FALSE => ~In(parsed, f0) /\ ~OpenAt(stack', f0, 0)
    BY <1>2, <1>5, <1>8, <1>10 DEF FilesInv
  <1>12. /\ parsed' \in Seq(Files) /\ Once(parsed')
         /\ \A f : In(parsed', f) <=> In(parsed, f) \/ (f = f0 /\ x.lazily = FALSE)
    <2>1. CASE x.lazily = TRUE
      BY <1>1, <1>2, <1>3, <2>1 DEF FilesInv
    <2>2. CASE x.lazily = FALSE
      <3>1. parsed' = Append(parsed, f0)
        BY <1>1, <1>3, <1>4, <2>2
      <3> QED BY <1>2, <1>5, <1>11, <2>2, <3>1, AppendIn DEF FilesInv
    <2> QED BY <1>5, <2>1, <2>2
  <1>13. \A f : Loaded(stack', parsed', f) <=> Loaded(stack, parsed, f)
    BY <1>10, <1>12 DEF Loaded
  <1>14. FilesInv(queue', stack', lazy', seen', parsed', phase')
    <2>1. queue' = queue /\ lazy' = lazy /\ seen' = seen /\ phase' = phase
      BY <1>1
    <2>2. Once(queue') /\ Once(parsed') /\ Distinct(stack')
      BY <1>2, <1>8, <1>12, <2>1 DEF FilesInv
    <2>3. \A g \in Files : In(parsed', g) => ~OpenAt(stack', g, 0)
      BY <1>2, <1>10, <1>11, <1>12 DEF FilesInv
    <2>4. \A g \in Files : Scans(stack', g) => Scans(stack, g)
      BY <1>8
    <2> QED BY <1>2, <1>13, <2>1, <2>2, <2>3, <2>4 DEF FilesInv
  <1>15. ASSUME NEW f \in Files, NEW i \in DOMAIN Entries(f)
         PROVE  In(parsed, f) \/ OpenAt(stack, f, i) <=> In(parsed', f) \/ OpenAt(stack', f, i)
    <2>1. x.lazily = FALSE => ~Unread
      BY <1>1, <1>3
    <2>2. f = f0 /\ x.lazily = FALSE => i < x.next
      BY <1>7, <2>1
    <2> QED BY <1>8, <1>12, <2>2
  <1>16. \A f \in Files : \A i \in Nat : Met(f, i) <=> Met(f, i)'
    BY <1>15 DEF Met
  <1>17. Onwards
    <2>1. \A f \in Files : Coming(f) => Coming(f)'
      BY <1>1, <1>13 DEF Coming
    <2> QED BY <1>1, <1>12, <1>13, <1>16, <2>1 DEF Onwards
  <1>18. ASSUME NEW n \in Names, NEW f \in Files, NEW i \in Nat, Shown(f, i, n)' PROVE Shown(f, i, n)
    <2>1. i \in DOMAIN Entries(f)
      BY <1>18 DEF Shown
    <2>2. CASE f \in ArchiveFiles /\ Entries(f)[i][1] = n /\ (In(parsed', f) \/ OpenAt(stack', f, i))
      BY <1>15, <2>1, <2>2 DEF Shown
    <2>3. CASE /\ f \in lazy' /\ Entries(f)[i].name = n /\ Offers(Entries(f)[i])
               /\ ~In(queue', f) /\ PastAt(stack', f, i)
      <3>1. f \in lazy /\ ~In(queue, f)
        BY <1>1, <2>3
      <3>2. f = f0 => i < x.next
        BY <1>1, <1>3, <1>4, <1>7, <2>1, <3>1
      <3> QED BY <1>8, <2>1, <2>3, <3>1, <3>2 DEF Shown
    <2> QED BY <1>18, <2>2, <2>3 DEF Shown
  <1>19. ASSUME NEW n \in Names, Weakened(n), ~Weakened(n)'
         PROVE  x.lazily = FALSE /\ f0 \notin ArchiveFiles /\ \E e \in WeakOf(f0) : e.name = n
    <2>1. PICK f \in Files \ ArchiveFiles : \E i \in DOMAIN Entries(f) :
            OpenAt(stack, f, i) /\ Entries(f)[i].op = "weak" /\ Entries(f)[i].name = n
      BY <1>19 DEF Weakened
    <2>2. PICK i \in DOMAIN Entries(f) :
            OpenAt(stack, f, i) /\ Entries(f)[i].op = "weak" /\ Entries(f)[i].name = n
      BY <2>1
    <2>3. ~OpenAt(stack', f, i)
      BY <1>19, <2>2 DEF Weakened
    <2>4. f = f0 /\ x.lazily = FALSE
      BY <1>8, <2>2, <2>3
    <2>5. Entries(f)[i] \in WeakOf(f)
      BY <2>2, EntryFacts DEF WeakOf
    <2> QED BY <2>2, <2>4, <2>5
  <1> QED BY <1>3, <1>4, <1>5, <1>8, <1>9, <1>12, <1>14, <1>16, <1>17, <1>18, <1>19

\* What checkAndSetWeakAlias does to the symbols of a file.
LEMMA SetWeakAliasesStep ==
  ASSUME TableTypeOK, NEW f \in Files \ ArchiveFiles, SetWeakAliases(f)
  PROVE  /\ syms' \in [Names -> Symbol] /\ dups' \in SUBSET Names
         /\ \A n \in Names :
              /\ syms'[n].kind = syms[n].kind /\ syms'[n].pending = syms[n].pending
              /\ syms'[n] = syms[n] \/ (syms[n].kind = "undef" /\ syms'[n].alias # None)
              /\ (\E e \in WeakOf(f) : e.name = n) /\ syms[n].kind = "undef" => syms'[n].alias # None
              /\ (\A e \in WeakOf(f) : e.name # n) => (n \in dups' <=> n \in dups)
  <1> DEFINE aliased(n) == Kind(n) = "undef" /\ \E e \in WeakOf(f) : e.name = n
  <1> DEFINE target(n) == (CHOOSE e \in WeakOf(f) : e.name = n).alias
  <1>1. /\ syms' = [n \in Names |-> IF aliased(n) THEN [syms[n] EXCEPT !.alias = target(n)] ELSE syms[n]]
        /\ dups' = dups \cup {n \in Names : aliased(n) /\ syms[n].alias \notin {None, target(n)}}
    BY DEF SetWeakAliases
  <1>2. ASSUME NEW n, aliased(n) PROVE target(n) \in Names
    <2>1. PICK d : d = CHOOSE e \in WeakOf(f) : e.name = n
      OBVIOUS
    <2>2. d \in WeakOf(f)
      BY <1>2, <2>1
    <2>3. PICK i \in DOMAIN Entries(f) : d = Entries(f)[i]
      BY <2>2 DEF WeakOf, Range
    <2>4. d.alias \in Names \cup {None} /\ d.alias # None
      BY <2>2, <2>3, EntryFacts DEF WeakOf, Entry
    <2> QED BY <2>1, <2>4
  <1>3. ASSUME NEW n, aliased(n) PROVE target(n) # None
    <2>1. PICK d : d = CHOOSE e \in WeakOf(f) : e.name = n
      OBVIOUS
    <2>2. d \in WeakOf(f)
      BY <1>3, <2>1
    <2>3. PICK i \in DOMAIN Entries(f) : d = Entries(f)[i]
      BY <2>2 DEF WeakOf, Range
    <2>4. d.alias # None
      BY <2>2, <2>3, EntryFacts DEF WeakOf, Entry
    <2> QED BY <2>1, <2>4
  <1> HIDE DEF target
  <1>4. syms \in [Names -> Symbol] /\ dups \in SUBSET Names
    BY DEF TableTypeOK
  <1>5. ASSUME NEW n \in Names, aliased(n)
        PROVE  /\ syms'[n] \in Symbol /\ syms'[n].kind = syms[n].kind
               /\ syms'[n].pending = syms[n].pending /\ syms'[n].alias = target(n)
               /\ syms[n].kind = "undef"
    <2>1. syms'[n] = [syms[n] EXCEPT !.alias = target(n)]
      BY <1>1, <1>5
    <2>2. syms[n] \in Symbol /\ target(n) \in Names \cup {None}
      BY <1>2, <1>4, <1>5
    <2>3. syms[n].kind = "undef"
      BY <1>5 DEF Kind
    <2> HIDE DEF aliased
    <2> QED BY <2>1, <2>2, <2>3 DEF Symbol
  <1>6. ASSUME NEW n \in Names, ~aliased(n) PROVE syms'[n] = syms[n]
    BY <1>1, <1>6
  <1>7. syms' \in [Names -> Symbol]
    <2>1. ASSUME NEW n \in Names PROVE syms'[n] \in Symbol
      BY <1>4, <1>5, <1>6
    <2>2. syms' = [n \in Names |-> syms'[n]]
      BY <1>1
    <2> QED BY <2>1, <2>2
  <1>8. dups' \in SUBSET Names
    BY <1>1, <1>4
  <1>9. ASSUME NEW n \in Names
        PROVE  /\ syms'[n].kind = syms[n].kind /\ syms'[n].pending = syms[n].pending
               /\ syms'[n] = syms[n] \/ (syms[n].kind = "undef" /\ syms'[n].alias # None)
    BY <1>3, <1>5, <1>6
  <1>10. ASSUME NEW n \in Names, \E e \in WeakOf(f) : e.name = n, syms[n].kind = "undef"
         PROVE  syms'[n].alias # None
    <2>1. aliased(n)
      BY <1>10 DEF Kind
    <2> QED BY <1>3, <1>5, <2>1
  <1>11. ASSUME NEW n \in Names, \A e \in WeakOf(f) : e.name # n PROVE n \in dups' <=> n \in dups
    BY <1>1, <1>11
  <1> QED BY <1>7, <1>8, <1>9, <1>10, <1>11

\* The file has been read: its weak externals have their aliases.
LEMMA EndFileKeeps == ASSUME TableInv, EndFile PROVE TableInv'
  <1>1. /\ UNCHANGED <<queue, lazy, seen, phase, root>>
        /\ IF Top.lazily \/ File[Top.file].type = "archive" THEN UNCHANGED <<syms, dups>>
                                                             ELSE SetWeakAliases(Top.file)
    BY DEF EndFile
  <1>2. PICK f0 : f0 = Top.file
    OBVIOUS
  <1>3. /\ Onwards /\ ~Over
        /\ stack' \in Seq(Frame) /\ parsed' \in Seq(Files)
        /\ FilesInv(queue', stack', lazy', seen', parsed', phase')
        /\ \A f \in Files : \A i \in Nat : Met(f, i)' => Met(f, i)
        /\ \A n \in Names : \A f \in Files : \A i \in Nat : Shown(f, i, n)' => Shown(f, i, n)
        /\ Top.lazily = FALSE => In(parsed', f0)
        /\ f0 \in Files
        /\ \A n \in Names : Weakened(n) =>
             \/ Weakened(n)'
             \/ Top.lazily = FALSE /\ f0 \notin ArchiveFiles /\ \E e \in WeakOf(f0) : e.name = n
    BY <1>2, EndFacts
  <1>4. TableTypeOK
    BY DEF TableInv
  <1>5. \A r \in DOMAIN Roots : r < root' => r < root
    BY <1>1
  <1>6. phase' # "done" /\ OverInv'
    BY <1>1, <1>3 DEF Over, OverInv
  <1>7. CASE Top.lazily = FALSE /\ f0 \notin ArchiveFiles
    <2>1. f0 \in Files \ ArchiveFiles /\ SetWeakAliases(f0)
      BY <1>1, <1>2, <1>3, <1>7 DEF ArchiveFiles
    <2>2. /\ syms' \in [Names -> Symbol] /\ dups' \in SUBSET Names
          /\ \A n \in Names :
               /\ syms'[n].kind = syms[n].kind /\ syms'[n].pending = syms[n].pending
               /\ syms'[n] = syms[n] \/ (syms[n].kind = "undef" /\ syms'[n].alias # None)
               /\ (\E e \in WeakOf(f0) : e.name = n) /\ syms[n].kind = "undef" => syms'[n].alias # None
               /\ (\A e \in WeakOf(f0) : e.name # n) => (n \in dups' <=> n \in dups)
      BY <1>4, <2>1, SetWeakAliasesStep
    <2>3. TableTypeOK'
      BY <1>1, <1>3, <1>4, <2>2 DEF TableTypeOK
    <2>4. ASSUME NEW n \in Names, Wanted(n)' PROVE Wanted(n) /\ (Weakened(n) => Weakened(n)')
      <3>1. syms'[n].kind = "undef" /\ syms'[n].alias = None /\ ~syms'[n].pending
        BY <2>4 DEF Wanted, Kind
      <3>2. syms'[n] = syms[n] /\ ~\E e \in WeakOf(f0) : e.name = n
        BY <2>2, <3>1
      <3> QED BY <1>3, <3>1, <3>2 DEF Wanted, Kind
    <2>5. ASSUME NEW n \in Names, Plain(n)' PROVE n \in dups' <=> n \in dups
      <3>1. \A e \in WeakOf(f0) : e.name # n
        BY <1>3, <1>7, <2>1, <2>5 DEF Plain
      <3> QED BY <2>2, <3>1
    <2>6. Settles
      BY <1>3, <1>5, <1>6, <2>2, <2>4, <2>5 DEF Settles
    <2> QED BY <1>3, <1>6, <2>3, <2>6, SettledStep
  <1>8. CASE ~(Top.lazily = FALSE /\ f0 \notin ArchiveFiles)
    <2>1. syms' = syms /\ dups' = dups
      <3>1. stack # <<>>
        BY DEF EndFile
      <3>2. Top.lazily \in BOOLEAN
        BY <1>4, <3>1, OnwardFacts DEF Frame
      <3> QED BY <1>1, <1>2, <1>8, <3>2 DEF ArchiveFiles
    <2>2. TableTypeOK'
      BY <1>1, <1>3, <1>4, <2>1 DEF TableTypeOK
    <2>3. \A n \in Names : Wanted(n)' <=> Wanted(n)
      BY <2>1 DEF Wanted, Kind
    <2>4. Settles
      BY <1>3, <1>5, <1>6, <1>8, <2>1, <2>3 DEF Settles
    <2> QED BY <1>3, <1>6, <2>2, <2>4, SettledStep
  <1> QED BY <1>7, <1>8

\* The driver's steps that read nothing and queue nothing.
LEMMA PhaseStep ==
  ASSUME TableInv, UNCHANGED <<queue, stack, syms, lazy, seen, parsed, dups>>,
         phase' \in Phases, phase' # "inputs", root' \in Nat \ {0}, OverInv',
         \A r \in DOMAIN Roots : r < root' => r < root,
         phase' = "done" => root' > Len(Roots)
  PROVE  TableInv'
  <1>1. TableTypeOK'
    BY DEF TableInv, TableTypeOK
  <1>2. FilesInv(queue, stack, lazy, seen, parsed, phase)'
    BY DEF TableInv, FilesInv
  <1>3. Onwards /\ \A f \in Files : \A i \in Nat : Met(f, i)' => Met(f, i)
    BY DEF Onwards, Coming, Met
  <1>4. \A n \in Names : \A f \in Files : \A i \in Nat : Shown(f, i, n)' => Shown(f, i, n)
    BY DEF Shown
  <1>5. \A n \in Names : Wanted(n)' => Wanted(n) /\ (Weakened(n) => Weakened(n)')
    BY DEF Wanted, Kind, Weakened
  <1>6. Settles
    BY <1>3, <1>4, <1>5 DEF Settles
  <1> QED BY <1>1, <1>2, <1>6, SettledStep

\* The inputs have been read: the default libraries are next, unless there were errors.
LEMMA InputsReadKeeps == ASSUME TableInv, InputsRead PROVE TableInv'
  <1>1. /\ phase = "inputs" /\ stack = <<>> /\ queue = <<>>
        /\ phase' = IF dups # {} THEN "stopped" ELSE "default libs"
        /\ queue' = IF dups # {} THEN queue ELSE DefaultLibs
        /\ UNCHANGED <<stack, syms, lazy, seen, parsed, dups, root>>
    BY DEF InputsRead, Idle
  <1>2. TableTypeOK /\ FilesInv(queue, stack, lazy, seen, parsed, phase) /\ root' \in Nat \ {0}
        /\ root' = root /\ lazy \subseteq LazyFiles
    BY <1>1 DEF TableInv, TableTypeOK
  <1>3. CASE dups # {}
    <2>1. phase' = "stopped" /\ UNCHANGED <<queue, stack, syms, lazy, seen, parsed, dups>>
      BY <1>1, <1>3
    <2>2. OverInv'
      BY <1>1, <2>1 DEF OverInv
    <2>3. phase' \in Phases /\ phase' # "inputs" /\ phase' # "done"
      BY <2>1 DEF Phases
    <2> QED BY <1>2, <2>1, <2>2, <2>3, PhaseStep
  <1>4. CASE dups = {}
    <2>1. phase' = "default libs" /\ queue' = DefaultLibs
      BY <1>1, <1>4
    <2>2. queue' \in Seq(Files) /\ Once(queue')
      <3>1. DefaultLibs \in Seq(ArchiveFiles) /\ ArchiveFiles \subseteq Files /\ Once(DefaultLibs)
        BY InputsAssumption, FileFacts DEF IsInjective, Once
      <3>2. DefaultLibs \in Seq(Files)
        BY <3>1
      <3> QED BY <2>1, <3>1, <3>2
    <2>3. TableTypeOK'
      BY <1>1, <1>2, <2>1, <2>2 DEF TableTypeOK, Phases
    <2>4. \A f : In(queue', f) => f \in ArchiveFiles
      BY <2>1, FileFacts
    <2>5. \A f : ~In(queue, f) /\ ~Scans(stack, f)
      BY <1>1, EmptyStack
    <2>6. FilesInv(queue, stack, lazy, seen, parsed, phase)'
      <3>1. stack' = stack /\ lazy' = lazy /\ seen' = seen /\ parsed' = parsed
        BY <1>1
      <3>2. \A f \in Files : In(queue', f) => ~Loaded(stack, parsed, f)
        BY <1>1, <1>2, <2>1 DEF FilesInv
      <3>3. \A f : In(queue', f) => f \notin Members /\ f \notin LazyFiles
        BY <2>4, FileFacts
      <3> QED BY <1>2, <2>1, <2>2, <2>5, <3>1, <3>2, <3>3 DEF FilesInv
    <2>7. OverInv'
      BY <2>1 DEF OverInv
    <2>8. Onwards /\ \A f \in Files : \A i \in Nat : Met(f, i)' => Met(f, i)
      <3>1. \A f \in Files : Coming(f) => Coming(f)'
        BY <1>1, <2>5 DEF Coming
      <3>2. \A f \in LazyFiles : ~In(queue', f)
        BY <2>4, FileFacts
      <3> QED BY <1>1, <3>1, <3>2 DEF Onwards, Met
    <2>9. ASSUME NEW n \in Names, NEW f \in Files, NEW i \in Nat, Shown(f, i, n)' PROVE Shown(f, i, n)
      BY <1>1, <2>5, <2>9 DEF Shown
    <2>10. \A n \in Names : Wanted(n)' => Wanted(n) /\ (Weakened(n) => Weakened(n)')
      BY <1>1 DEF Wanted, Kind, Weakened
    <2>11. Settles
      BY <1>1, <2>1, <2>8, <2>9, <2>10 DEF Settles
    <2> QED BY <2>3, <2>6, <2>7, <2>11, SettledStep
  <1> QED BY <1>3, <1>4

LEMMA InitInv == Init => TableInv
  <1> SUFFICES ASSUME Init PROVE TableInv
    OBVIOUS
  <1>1. /\ queue \in Seq(Files) /\ Once(queue)
        /\ \A f : In(queue, f) => f \notin Members /\ ~In(DefaultLibs, f)
    <2>1. queue \in CommandLines
      BY DEF Init
    <2>2. queue \in Seq(Files) /\ IsInjective(queue)
          /\ Range(queue) \cap (Members \cup Range(DefaultLibs)) = {}
      BY <2>1, InputsAssumption
    <2> QED BY <2>2, RangeIn DEF IsInjective, Once
  <1>2. stack = <<>> /\ parsed = <<>> /\ seen = {} /\ dups = {} /\ phase = "inputs" /\ root = 1
        /\ syms = [n \in Names |-> IF n \in Includes THEN Undefined ELSE Fresh]
    BY DEF Init
  <1>3. \A f : f \in lazy <=> In(queue, f) /\ f \in LazyFiles
    BY RangeIn DEF Init
  <1>4. (\A f, i : ~OpenAt(stack, f, i)) /\ (\A f : ~Scans(stack, f) /\ ~In(parsed, f))
    BY <1>2, EmptyStack
  <1>5. \A f : ~Loaded(stack, parsed, f)
    BY <1>4 DEF Loaded
  <1>6. ASSUME NEW n \in Names
        PROVE  /\ syms[n] \in Symbol /\ syms[n].kind \in {None, "undef"} /\ syms[n].pending = FALSE
               /\ n \in Includes => syms[n].kind = "undef"
    <2>1. Fresh \in Symbol /\ Fresh.kind = None /\ Fresh.pending = FALSE
      BY FreshSymbol DEF Fresh
    <2>2. Undefined \in Symbol /\ Undefined.kind = "undef" /\ Undefined.pending = FALSE
      BY <2>1 DEF Undefined, Fresh, Symbol, Kinds, Undef
    <2>3. syms[n] = IF n \in Includes THEN Undefined ELSE Fresh
      BY <1>2
    <2> QED BY <2>1, <2>2, <2>3
  <1>7. TableTypeOK
    <2>1. syms \in [Names -> Symbol]
      BY <1>2, <1>6
    <2>2. stack \in Seq(Frame) /\ parsed \in Seq(Files)
      BY <1>2
    <2> QED BY <1>1, <1>2, <1>3, <2>1, <2>2 DEF TableTypeOK, Phases
  <1>8. FilesInv(queue, stack, lazy, seen, parsed, phase)
    <2>1. Once(parsed) /\ Distinct(stack)
      BY <1>2, EmptyStack DEF Once
    <2> QED BY <1>1, <1>2, <1>3, <1>4, <1>5, <2>1 DEF FilesInv
  <1>9. \A f \in Files : \A i \in Nat : ~Met(f, i)
    BY <1>4 DEF Met
  <1>10. LazyInv
    BY <1>6 DEF LazyInv, LazyAt, Kind, None
  <1>11. AskedInv
    <2>1. \A n \in Includes : Asked(n)
      BY <1>6, InputsAssumption DEF Asked, Kind, None, Lazy
    <2>2. \A r \in DOMAIN Roots : ~(r < root)
      BY <1>2, InputsAssumption
    <2> QED BY <1>2, <1>9, <2>1, <2>2 DEF AskedInv
  <1>12. OfferInv
    BY <1>3, <1>4 DEF OfferInv, Shown
  <1>13. StrongInv
    <2>1. \A n \in Names : Kind(n) \in Undef
      BY <1>6 DEF Kind, Undef
    <2> QED BY <1>9, <2>1 DEF StrongInv, StrongAt, MetDef
  <1>14. DupsInv
    BY <1>2, <1>9 DEF DupsInv, Clash, MetDef
  <1>15. OverInv
    BY <1>2 DEF OverInv
  <1> QED BY <1>7, <1>8, <1>10, <1>11, <1>12, <1>13, <1>14, <1>15 DEF TableInv

----------------------------------------------------------------------------
(* The theorems *)

\* Every step of the reader and of the driver keeps the invariant: where each file is,
\* what the symbols say of the files, and what they say of the definitions read.
LEMMA NextInv == TableInv /\ [Next]_vars => TableInv'
  <1> SUFFICES ASSUME TableInv, [Next]_vars PROVE TableInv'
    OBVIOUS
  <1>1. CASE phase # "roots" /\ StartTask
    BY <1>1, StartTaskKeeps
  <1>2. CASE Read
    BY <1>2, ReadArchiveSymbolKeeps, ReadLazySymbolKeeps, ReadUndefinedKeeps, ReadDefinedKeeps,
       EndFileKeeps DEF Read
  <1>3. CASE InputsRead
    BY <1>3, InputsReadKeeps
  <1>4. CASE DefaultLibsRead
    <2>1. /\ UNCHANGED <<queue, stack, syms, lazy, seen, parsed, dups>> /\ root' = root
          /\ phase' \in {"stopped", "roots"} /\ stack = <<>> /\ queue = <<>>
      BY <1>4 DEF DefaultLibsRead, Idle
    <2>2. OverInv' /\ phase' \in Phases /\ phase' # "inputs" /\ phase' # "done"
      BY <2>1 DEF OverInv, Phases
    <2>3. root' \in Nat \ {0} /\ \A r \in DOMAIN Roots : r < root' => r < root
      BY <2>1 DEF TableInv, TableTypeOK
    <2> QED BY <2>1, <2>2, <2>3, PhaseStep
  <1>5. CASE QueueRead
    <2>1. /\ UNCHANGED <<queue, stack, syms, lazy, seen, parsed, dups>> /\ root' = 1
          /\ phase' = "roots"
      BY <1>5 DEF QueueRead
    <2>2. OverInv' /\ phase' \in Phases /\ phase' # "inputs" /\ phase' # "done"
      BY <2>1 DEF OverInv, Phases
    <2>3. root' \in Nat \ {0} /\ \A r \in DOMAIN Roots : r < root' => r < root
      BY <2>1, InputsAssumption
    <2> QED BY <2>1, <2>2, <2>3, PhaseStep
  <1>6. CASE AddRoot
    BY <1>6, AddRootKeeps
  <1>7. CASE RootsAdded
    <2>1. /\ UNCHANGED <<queue, stack, syms, lazy, seen, parsed, dups>> /\ root' = root
          /\ stack = <<>> /\ root > Len(Roots)
          /\ phase' = IF queue = <<>> THEN "done" ELSE "read"
      BY <1>7 DEF RootsAdded
    <2>2. OverInv' /\ phase' \in Phases /\ phase' # "inputs"
      BY <2>1 DEF OverInv, Phases
    <2>3. root' \in Nat \ {0} /\ \A r \in DOMAIN Roots : r < root' => r < root
      BY <2>1 DEF TableInv, TableTypeOK
    <2>4. root' > Len(Roots)
      BY <2>1
    <2> QED BY <2>1, <2>2, <2>3, <2>4, PhaseStep
  <1>8. CASE UNCHANGED vars
    <2>1. UNCHANGED <<queue, stack, syms, lazy, seen, parsed, dups, phase, root>>
      BY <1>8 DEF vars
    <2>2. TableTypeOK' /\ FilesInv(queue, stack, lazy, seen, parsed, phase)' /\ OverInv'
      BY <2>1 DEF TableInv, TableTypeOK, FilesInv, OverInv
    <2>3. Onwards /\ \A f \in Files : \A i \in Nat : Met(f, i)' => Met(f, i)
      BY <2>1 DEF Onwards, Coming, Met
    <2>4. \A n \in Names : \A f \in Files : \A i \in Nat : Shown(f, i, n)' => Shown(f, i, n)
      BY <2>1 DEF Shown
    <2>5. \A n \in Names : Wanted(n)' => Wanted(n) /\ (Weakened(n) => Weakened(n)')
      BY <2>1 DEF Wanted, Kind, Weakened
    <2>6. Settles
      BY <2>1, <2>3, <2>4, <2>5 DEF Settles, TableInv, AskedInv
    <2> QED BY <2>2, <2>6, SettledStep
  <1> QED BY <1>1, <1>2, <1>3, <1>4, <1>5, <1>6, <1>7, <1>8 DEF Next

\* In every run of the linker, for any files, command lines, default libraries and roots,
\* each file is in one place, a load under way ends in a definition, what is referred to
\* is asked for, what is offered is taken if it is wanted, and the symbol is the strongest
\* of the definitions read so far.
THEOREM TableInvariance == Spec => []TableInv
  BY InitInv, NextInv, PTL DEF Spec

\* When nothing is being read, the definitions met are those of the files linked.
LEMMA DefinitionsMet ==
  ASSUME TableInv, stack = <<>>, NEW n \in Names
  PROVE  /\ \A f \in Files : \A i \in Nat : MetDef(f, i, n) <=> <<f, i>> \in Definitions(n)
         /\ \A d \in Definitions(n) : \E f \in Files : \E i \in Nat : d = <<f, i>>
  <1>1. \A f, i : ~OpenAt(stack, f, i)
    BY EmptyStack
  <1>2. parsed \in Seq(Files)
    BY DEF TableInv, TableTypeOK
  <1>3. ASSUME NEW f PROVE f \in Linked <=> f \in Files \ ArchiveFiles /\ In(parsed, f)
    <2>1. In(parsed, f) => f \in Files
      BY <1>2 DEF In
    <2>2. f \in Range(parsed) <=> In(parsed, f)
      BY RangeIn
    <2> QED BY <2>1, <2>2 DEF Linked, ArchiveFiles
  <1>4. ASSUME NEW f, NEW i
        PROVE  <<f, i>> \in Definitions(n) <=>
                 f \in Linked /\ i \in DOMAIN Entries(f) /\ Defines(<<f, i>>, n)
    <2>1. Def(<<f, i>>) = Entries(f)[i]
      BY DEF Def
    <2>2. <<f, i>> \in Definitions(n) <=>
            \E g \in Linked : \E j \in DOMAIN Entries(g) :
              Entries(g)[j].name = n /\ Offers(Entries(g)[j]) /\ <<f, i>> = <<g, j>>
      BY DEF Definitions
    <2> QED BY <2>1, <2>2 DEF Defines
  <1>5. \A f \in Files : \A i \in Nat : MetDef(f, i, n) <=> <<f, i>> \in Definitions(n)
    BY <1>1, <1>3, <1>4 DEF MetDef, Met
  <1>6. ASSUME NEW d \in Definitions(n) PROVE \E f \in Files : \E i \in Nat : d = <<f, i>>
    <2>1. PICK f \in Linked : \E j \in DOMAIN Entries(f) : d = <<f, j>>
      BY DEF Definitions
    <2>2. f \in Files \ ArchiveFiles
      BY <1>3
    <2> QED BY <2>1, <2>2, EntryFacts
  <1> QED BY <1>5, <1>6

\* When resolution is over, what was on its way has been read: a symbol that is still
\* undefined or lazy has no load under way.
LEMMA NothingComing ==
  ASSUME TableInv, stack = <<>>, queue = <<>>, NEW n \in Names, Kind(n) \in Undef
  PROVE  ~syms[n].pending /\ \A f \in Files : \A i \in Nat : ~MetDef(f, i, n)
  <1>1. \A f \in Files : \A i \in Nat : ~MetDef(f, i, n)
    BY DEF TableInv, StrongInv, StrongAt
  <1>2. ASSUME syms[n].pending PROVE FALSE
    <2>1. PICK f \in Files \ ArchiveFiles : Coming(f) /\ Provides(f, n)
      BY <1>2 DEF TableInv, LazyInv, LazyAt
    <2>2. In(parsed, f)
      BY <2>1, EmptyStack DEF Coming, Loaded
    <2>3. PICK e \in Range(Entries(f)) : e.name = n /\ Offers(e)
      BY <2>1 DEF Provides
    <2>4. PICK i \in DOMAIN Entries(f) : e = Entries(f)[i]
      BY <2>3 DEF Range
    <2>5. i \in Nat
      BY EntryFacts
    <2>6. MetDef(f, i, n)
      BY <2>2, <2>3, <2>4 DEF MetDef, Met, Defines, Def
    <2> QED BY <1>1, <2>5, <2>6
  <1> QED BY <1>1, <1>2

\* A symbol left undefined without an alias is offered by nothing.
LEMMA UndefinedNotOffered ==
  ASSUME TableInv, stack = <<>>, queue = <<>>, NEW n \in Names, Kind(n) = "undef", syms[n].alias = None
  PROVE  ~Offered(n) /\ Definitions(n) = {}
  <1>1. ~syms[n].pending /\ \A f \in Files : \A i \in Nat : ~MetDef(f, i, n)
    BY NothingComing DEF Undef
  <1>2. Definitions(n) = {}
    BY <1>1, DefinitionsMet
  <1>3. Wanted(n) /\ ~Weakened(n)
    BY <1>1, EmptyStack DEF Wanted, Weakened
  <1>4. \A f \in Files : \A i \in Nat : ~Shown(f, i, n)
    BY <1>3 DEF TableInv, OfferInv
  <1>5. parsed \in Seq(Files) /\ lazy \subseteq LazyFiles
    BY DEF TableInv, TableTypeOK
  <1>6. ASSUME NEW f \in lazy, Provides(f, n) PROVE FALSE
    <2>1. f \in Files \ ArchiveFiles
      BY <1>5, FileFacts
    <2>2. PICK i \in DOMAIN Entries(f) : Entries(f)[i].name = n /\ Offers(Entries(f)[i])
      BY <1>6 DEF Provides, Range
    <2>3. i \in Nat
      BY <2>1, EntryFacts
    <2>4. ~In(queue, f) /\ PastAt(stack, f, i)
      BY EmptyStack
    <2> QED BY <1>4, <2>1, <2>2, <2>3, <2>4 DEF Shown
  <1>7. ASSUME NEW f \in Archives, NEW e \in Range(Entries(f)), e[1] = n PROVE FALSE
    <2>1. In(parsed, f)
      BY RangeIn DEF Archives
    <2>2. f \in Files
      BY <1>5, <2>1 DEF In
    <2>3. f \in ArchiveFiles
      BY <2>2 DEF Archives, Linked, ArchiveFiles
    <2>4. PICK i \in DOMAIN Entries(f) : e = Entries(f)[i]
      BY DEF Range
    <2>5. i \in Nat
      BY <2>3, ArchiveFacts
    <2> QED BY <1>4, <1>7, <2>1, <2>2, <2>3, <2>4, <2>5 DEF Shown
  <1> QED BY <1>2, <1>6, <1>7 DEF Offered

\* A symbol left lazy is asked for by nothing.
LEMMA LazyNotAsked ==
  ASSUME TableInv, stack = <<>>, queue = <<>>, root > Len(Roots), NEW n \in Names, Kind(n) \in Lazy
  PROVE  ~Referred(n) /\ n \notin Range(Roots) \cup Includes
  <1>1. ~syms[n].pending /\ \A f \in Files : \A i \in Nat : ~MetDef(f, i, n)
    BY NothingComing DEF Undef
  <1>2. ~Asked(n)
    BY <1>1 DEF Asked
  <1>3. n \notin Includes
    BY <1>2 DEF TableInv, AskedInv
  <1>4. n \notin Range(Roots)
    <2>1. ASSUME NEW r \in DOMAIN Roots PROVE r < root
      BY InputsAssumption DEF TableInv, TableTypeOK
    <2> QED BY <1>2, <2>1 DEF TableInv, AskedInv, Range
  <1>5. ASSUME NEW f \in Linked, NEW e \in Range(Entries(f)), e.name = n, e.op # "weak" PROVE FALSE
    <2>1. In(parsed, f)
      BY RangeIn DEF Linked
    <2>2. f \in Files \ ArchiveFiles
      BY <2>1 DEF In, TableInv, TableTypeOK, Linked, ArchiveFiles
    <2>3. PICK i \in DOMAIN Entries(f) : e = Entries(f)[i]
      BY DEF Range
    <2>4. i \in Nat /\ Met(f, i)
      BY <2>1, <2>2, <2>3, EntryFacts DEF Met
    <2>5. CASE e.op = "undef"
      BY <1>2, <1>5, <2>2, <2>3, <2>4, <2>5 DEF TableInv, AskedInv
    <2>6. CASE e.op # "undef"
      BY <1>1, <1>5, <2>2, <2>3, <2>4, <2>6 DEF MetDef, Defines, Def, Offers
    <2> QED BY <2>5, <2>6
  <1> QED BY <1>3, <1>4, <1>5 DEF Referred

\* Resolution is complete (LinkerDriver::run and the loop that adds the roots,
\* Driver.cpp:2690): no file is read twice, and when it ends nothing that could still be
\* loaded is missing.
THEOREM ResolutionIsCompleteHolds == Spec => []ResolutionIsComplete
  <1>1. TableInv => ResolutionIsComplete
    <2> SUFFICES ASSUME TableInv PROVE ResolutionIsComplete
      OBVIOUS
    <2>1. \A i, j \in DOMAIN parsed : parsed[i] = parsed[j] => i = j
      BY DEF TableInv, FilesInv, Once
    <2>2. ASSUME phase = "done" PROVE stack = <<>> /\ queue = <<>> /\ root > Len(Roots)
      BY <2>2 DEF TableInv, OverInv, AskedInv
    <2>3. ASSUME phase = "done", NEW n \in Names
          PROVE  /\ Kind(n) = "undef" /\ syms[n].alias = None => ~Offered(n) /\ Definitions(n) = {}
                 /\ Is(n, Lazy) => ~Referred(n) /\ n \notin Range(Roots) \cup Includes
      BY <2>2, <2>3, UndefinedNotOffered, LazyNotAsked DEF Is
    <2> QED BY <2>1, <2>3 DEF ResolutionIsComplete
  <1> QED BY <1>1, TableInvariance, PTL

\* The maximum of a set of numbers.
LEMMA MaxIs ==
  ASSUME NEW S \in SUBSET Nat, NEW x \in S, \A y \in S : x >= y
  PROVE  Max(S) = x
  <1>1. PICK m : m = Max(S)
    OBVIOUS
  <1>2. m \in S /\ \A y \in S : m >= y
    BY <1>1 DEF Max
  <1>3. m >= x /\ x >= m /\ m \in Nat /\ x \in Nat
    BY <1>2
  <1>4. m = x
    BY <1>3
  <1> QED BY <1>1, <1>4

\* The symbol of a name is the strongest of its definitions in the files linked.
LEMMA StrongestAt ==
  ASSUME TableInv, stack = <<>>, NEW n \in Names
  PROVE  /\ Defs(n, DefinedRegular) # {} => Is(n, DefinedRegular)
         /\ Defs(n, DefinedRegular) = {} /\ Defs(n, {"common"}) # {} =>
              /\ Kind(n) = "common"
              /\ syms[n].size = Max({Def(d).size : d \in Defs(n, {"common"})})
         /\ Definitions(n) # {} => Kind(n) \in {Def(d).op : d \in Definitions(n)}
         /\ Definitions(n) # {} /\ (\A d \in Definitions(n) : Def(d).selection = "largest") =>
              syms[n].size = Max({Def(d).size : d \in Definitions(n)})
  <1>1. StrongAt(n)
    BY DEF TableInv, StrongInv
  <1>2. \A f \in Files : \A i \in Nat : MetDef(f, i, n) <=> <<f, i>> \in Definitions(n)
    BY DefinitionsMet
  <1>3. ASSUME NEW d \in Definitions(n)
        PROVE  /\ Def(d).size \in Nat
               /\ Kind(n) \notin Undef
               /\ Def(d).op \in DefinedRegular => Kind(n) \in DefinedRegular
               /\ Def(d).op = "common" =>
                    \/ Kind(n) \in DefinedRegular
                    \/ Kind(n) = "common" /\ syms[n].size >= Def(d).size
               /\ (\A c \in Definitions(n) : Def(c).selection = "largest") => syms[n].size >= Def(d).size
    <2>1. PICK f \in Files, i \in Nat : d = <<f, i>>
      BY DefinitionsMet
    <2>2. MetDef(f, i, n)
      BY <1>2, <2>1
    <2>3. Def(d).size \in Nat
      BY <2>1, <2>2, MetDefType
    <2>4. (\A c \in Definitions(n) : Def(c).selection = "largest") =>
            \A g \in Files : \A j \in Nat : MetDef(g, j, n) => Def(<<g, j>>).selection = "largest"
      BY <1>2
    <2> QED BY <1>1, <2>1, <2>2, <2>3, <2>4 DEF StrongAt
  <1>4. ASSUME Kind(n) \notin Undef
        PROVE  \E d \in Definitions(n) : Def(d).op = Kind(n) /\ Def(d).size = syms[n].size
    <2>1. PICK f \in Files, i \in Nat : Leads(n, f, i)
      BY <1>1, <1>4 DEF StrongAt
    <2> QED BY <1>2, <2>1 DEF Leads
  <1>5. ASSUME Defs(n, DefinedRegular) # {} PROVE Is(n, DefinedRegular)
    BY <1>3, <1>5 DEF Defs, Is
  <1>6. ASSUME Defs(n, DefinedRegular) = {}, Defs(n, {"common"}) # {}
        PROVE  /\ Kind(n) = "common"
               /\ syms[n].size = Max({Def(d).size : d \in Defs(n, {"common"})})
    <2>1. PICK c \in Definitions(n) : Def(c).op = "common"
      BY <1>6 DEF Defs
    <2>2. PICK d \in Definitions(n) : Def(d).op = Kind(n) /\ Def(d).size = syms[n].size
      BY <1>3, <1>4, <2>1
    <2>3. Kind(n) \notin DefinedRegular
      BY <1>6, <2>2 DEF Defs
    <2>4. Kind(n) = "common"
      BY <1>3, <2>1, <2>3
    <2> DEFINE S == {Def(b).size : b \in Defs(n, {"common"})}
    <2>5. S \in SUBSET Nat /\ syms[n].size \in S
      BY <1>3, <2>2, <2>4 DEF Defs
    <2>6. \A y \in S : syms[n].size >= y
      BY <1>3, <2>3 DEF Defs
    <2> HIDE DEF S
    <2>7. Max(S) = syms[n].size
      BY <2>5, <2>6, MaxIs
    <2> QED BY <2>4, <2>7 DEF S
  <1>7. ASSUME Definitions(n) # {} PROVE Kind(n) \in {Def(d).op : d \in Definitions(n)}
    BY <1>3, <1>4, <1>7
  <1>8. ASSUME Definitions(n) # {}, \A d \in Definitions(n) : Def(d).selection = "largest"
        PROVE  syms[n].size = Max({Def(d).size : d \in Definitions(n)})
    <2> DEFINE S == {Def(b).size : b \in Definitions(n)}
    <2>1. S \in SUBSET Nat /\ syms[n].size \in S
      BY <1>3, <1>4, <1>8
    <2>2. \A y \in S : syms[n].size >= y
      BY <1>3, <1>8
    <2> HIDE DEF S
    <2>3. Max(S) = syms[n].size
      BY <2>1, <2>2, MaxIs
    <2> QED BY <2>3 DEF S
  <1> QED BY <1>5, <1>6, <1>7, <1>8

\* The strongest definition prevails (addRegular, addComdat, addCommon, addAbsolute and
\* addImport of SymbolTable.cpp, handleComdatSelection of InputFiles.cpp), in whatever
\* order the files came.
THEOREM StrongestPrevailsHolds == Spec => []StrongestPrevails
  <1>1. TableInv => StrongestPrevails
    <2> SUFFICES ASSUME TableInv, Over PROVE StrongestPrevails
      BY DEF StrongestPrevails
    <2>1. stack = <<>>
      BY DEF TableInv, OverInv, Over
    <2> QED BY <2>1, StrongestAt DEF StrongestPrevails
  <1> QED BY <1>1, TableInvariance, PTL

\* Duplicates are reported exactly when two linked definitions conflict
\* (handleComdatSelection, InputFiles.cpp:750, and reportDuplicate), whichever of them the
\* linker met first.
THEOREM DuplicateIffConflictHolds == Spec => []DuplicateIffConflict
  <1>1. TableInv => DuplicateIffConflict
    <2> SUFFICES ASSUME TableInv, Over, NEW n \in Names,
                        Definitions(n) = Defs(n, DefinedRegular),
                        \A f \in Linked : \A e \in WeakOf(f) : e.name # n
                 PROVE  n \in dups <=> \E d, e \in Definitions(n) : d # e /\ Conflict(d, e)
      BY DEF DuplicateIffConflict
    <2>1. stack = <<>>
      BY DEF TableInv, OverInv, Over
    <2>2. /\ \A f \in Files : \A i \in Nat : MetDef(f, i, n) <=> <<f, i>> \in Definitions(n)
          /\ \A d \in Definitions(n) : \E f \in Files : \E i \in Nat : d = <<f, i>>
      BY <2>1, DefinitionsMet
    <2>3. Plain(n)
      <3>1. \A f \in Files : \A i \in Nat : MetDef(f, i, n) => Def(<<f, i>>).op \in DefinedRegular
        BY <2>2 DEF Defs
      <3>2. ASSUME NEW f \in Files \ ArchiveFiles, In(parsed, f) PROVE f \in Linked
        BY <3>2, RangeIn DEF Linked, ArchiveFiles
      <3> QED BY <3>1, <3>2 DEF Plain
    <2>4. n \in dups <=> Clash(n)
      BY <2>3 DEF TableInv, DupsInv
    <2>5. Clash(n) => \E d, e \in Definitions(n) : d # e /\ Conflict(d, e)
      BY <2>2 DEF Clash
    <2>6. ASSUME NEW d \in Definitions(n), NEW e \in Definitions(n), d # e, Conflict(d, e) PROVE Clash(n)
      <3>1. PICK f \in Files, i \in Nat : d = <<f, i>>
        BY <2>2
      <3>2. PICK g \in Files, j \in Nat : e = <<g, j>>
        BY <2>2
      <3>3. MetDef(f, i, n) /\ MetDef(g, j, n)
        BY <2>2, <3>1, <3>2
      <3> QED BY <2>6, <3>1, <3>2, <3>3 DEF Clash
    <2> QED BY <2>4, <2>5, <2>6
  <1> QED BY <1>1, TableInvariance, PTL
=============================================================================
