--------------------------- MODULE TypeMergeProofs ---------------------------
(***************************************************************************)
(* What the threads that insert into the hash table rely on, whatever the  *)
(* inputs, the hashes and the interleaving: a position stays the position  *)
(* of its hash, a hash has one position, and the cells that are left are   *)
(* the first records of their hashes.                                      *)
(***************************************************************************)
EXTENDS TypeMerge, FiniteSetTheorems, TLAPS

----------------------------------------------------------------------------
(* The invariant *)

\* Record i of source s is one the loop inserts.
Enters(s, i) == i \in 0..(Len(ghashes[s]) - 1) /\ ~ShouldOmitFromPdb(s, i)

\* The hashes are those of the records or not there at all, and every source is listed.
SourceInv ==
  /\ src \in Inputs
  /\ DOMAIN order = Sources
  /\ \A s \in Sources : \E p \in Sources : order[p] = s
  /\ ghashes \in [Sources -> Seq(DOMAIN HashWord)]
  /\ \A s \in Sources : ghashes[s] = <<>> \/ ghashes[s] = Hashes(src[s].recs)

Slots == 0..(TableSize - 1)

\* A cell is empty or that of a record.
TableInv ==
  /\ DOMAIN table = Slots
  /\ \A q \in Slots : table[q] # Empty =>
       \E s \in Sources : \E i \in 0..(Len(ghashes[s]) - 1) :
         Enters(s, i) /\ table[q] = CellOf(s, i)

Steps == [i : Nat, idx : Nat, old : [item : Nat, src : Nat, idx : Nat], cas : BOOLEAN]

\* A thread between its load and its compare-and-swap remembers an empty cell, or one of
\* its own hash that is no earlier than its record.
WorkInv ==
  /\ work \in [Sources -> Steps]
  /\ \A s \in Sources :
       /\ work[s].i <= Len(ghashes[s])
       /\ s \notin pending => work[s].i = Len(ghashes[s])
       /\ work[s].i < Len(ghashes[s]) =>
            /\ work[s].idx \in Slots
            /\ work[s].cas =>
                 /\ Enters(s, work[s].i)
                 /\ work[s].old # Empty =>
                      /\ GHash(work[s].old) = ghashes[s][work[s].i + 1]
                      /\ ~Before(work[s].old, CellOf(s, work[s].i))

\* What the loop has passed is in the table, at the position it remembers.
PlacedInv ==
  /\ DOMAIN imap = Sources
  /\ \A s \in Sources : imap[s] \in [1..Len(ghashes[s]) -> Slots \cup {NotTranslated}]
  /\ \A s \in Sources : \A i \in 0..(Len(ghashes[s]) - 1) :
       /\ Inserted(s, i) =>
            /\ table[imap[s][i + 1]] # Empty
            /\ GHash(table[imap[s][i + 1]]) = ghashes[s][i + 1]
            /\ ~Before(CellOf(s, i), table[imap[s][i + 1]])
       /\ Enters(s, i) /\ i < work[s].i => Inserted(s, i)

\* How many cells the probe for hash h looks at before cell q
Dist(h, q) ==
  LET start == HashWord[h] % TableSize
  IN IF start <= q THEN q - start ELSE q + TableSize - start

\* The probe for h goes past every cell before q.
PassesTo(h, q) ==
  \A p \in Slots : Dist(h, p) < Dist(h, q) => table[p] # Empty /\ GHash(table[p]) # h

\* Linear probing: a cell, and the place a thread has got to, is the first on the probe of
\* its hash that other hashes leave.
PathInv ==
  /\ \A q \in Slots : table[q] # Empty => PassesTo(GHash(table[q]), q)
  /\ \A s \in Sources : Enters(s, work[s].i) => PassesTo(ghashes[s][work[s].i + 1], work[s].idx)

InsertInv == TableInv /\ WorkInv /\ PlacedInv /\ PathInv

\* A thread that gave up found a table full of other hashes.
FullInv ==
  \E s \in Sources : Enters(s, work[s].i) /\
    \A q \in Slots : table[q] # Empty /\ GHash(table[q]) # ghashes[s][work[s].i + 1]

MergeInv ==
  /\ phase \in {"sort", "load", "insert", "remap", "done", "full"}
  /\ SourceInv
  /\ phase \in {"insert", "full"} => InsertInv
  /\ phase = "full" => FullInv
  /\ WinnersAreFirst

----------------------------------------------------------------------------
(* The inputs *)

\* What the assumption on the inputs says of the sources of a state.
LEMMA SourceFacts ==
  ASSUME src \in Inputs
  PROVE  /\ Len(src) \in Nat
         /\ Sources = 1..Len(src)
         /\ IsFiniteSet(Sources)
         /\ Cardinality(Sources) = Len(src)
         /\ \A s \in Sources :
              /\ Len(src[s].recs) \in Nat
              /\ DOMAIN src[s].recs = 1..Len(src[s].recs)
              /\ Hashes(src[s].recs) \in Seq(DOMAIN HashWord)
              /\ Len(Hashes(src[s].recs)) = Len(src[s].recs)
              /\ \A i \in 1..Len(src[s].recs) : src[s].recs[i].item \in 0..1
  <1> DEFINE Rec == [hash : DOMAIN HashWord, item : 0..1, refs : Seq([at : Nat, item : 0..1])]
             Src == [kind : Kinds, recs : Seq(Rec), dep : Nat, count : Nat]
  <1>1. src \in Seq(Src)
    BY InputsAssumption
  <1> HIDE DEF Src
  <1>2. Len(src) \in Nat /\ Sources = 1..Len(src) /\ \A s \in Sources : src[s] \in Src
    BY <1>1 DEF Sources
  <1>3. IsFiniteSet(Sources) /\ Cardinality(Sources) = Len(src)
    <2>1. 1 \in Int /\ Len(src) \in Int
      BY <1>2
    <2>2. IsFiniteSet(1..Len(src))
          /\ Cardinality(1..Len(src)) = IF 1 > Len(src) THEN 0 ELSE Len(src) - 1 + 1
      BY <2>1, FS_Interval
    <2> QED
      BY <2>2, <1>2
  <1>4. ASSUME NEW s \in Sources
        PROVE  /\ Len(src[s].recs) \in Nat
               /\ DOMAIN src[s].recs = 1..Len(src[s].recs)
               /\ Hashes(src[s].recs) \in Seq(DOMAIN HashWord)
               /\ Len(Hashes(src[s].recs)) = Len(src[s].recs)
               /\ \A i \in 1..Len(src[s].recs) : src[s].recs[i].item \in 0..1
    <2> DEFINE r == src[s].recs
    <2>1. r \in Seq(Rec)
      BY <1>2 DEF Src
    <2> HIDE DEF r, Rec
    <2>2. Len(r) \in Nat /\ DOMAIN r = 1..Len(r) /\ \A i \in 1..Len(r) : r[i] \in Rec
      BY <2>1
    <2>3. \A i \in 1..Len(r) : r[i].item \in 0..1 /\ r[i].hash \in DOMAIN HashWord
      BY <2>2 DEF Rec
    <2> DEFINE h == Hashes(r)
    <2>4. h = [i \in 1..Len(r) |-> r[i].hash]
      BY <2>2 DEF Hashes
    <2>5. h \in Seq(DOMAIN HashWord) /\ Len(h) = Len(r)
      <3> HIDE DEF h
      <3> QED
        BY <2>2, <2>3, <2>4
    <2> QED
      BY <2>2, <2>3, <2>5 DEF r
  <1> QED
    BY <1>2, <1>3, <1>4

\* Every source has its position in the list, and its hashes are those of its records.
LEMMA RecordFacts ==
  ASSUME SourceInv, NEW s \in Sources
  PROVE  /\ Position(s) \in Sources
         /\ order[Position(s)] = s
         /\ Len(ghashes[s]) \in Nat
         /\ DOMAIN ghashes[s] = 1..Len(ghashes[s])
         /\ \A i \in 0..(Len(ghashes[s]) - 1) :
              /\ ghashes[s][i + 1] \in DOMAIN HashWord
              /\ CellOf(s, i) \in [item : 0..1, src : Sources, idx : Nat]
              /\ CellOf(s, i).src = Position(s)
              /\ CellOf(s, i).idx = i
              /\ CellOf(s, i) # Empty
              /\ GHash(CellOf(s, i)) = ghashes[s][i + 1]
  <1>1. src \in Inputs
    BY DEF SourceInv
  <1>2. Position(s) \in Sources /\ order[Position(s)] = s
    BY DEF SourceInv, Position
  <1>3. Len(ghashes[s]) \in Nat /\ DOMAIN ghashes[s] = 1..Len(ghashes[s])
        /\ \A i \in 1..Len(ghashes[s]) : ghashes[s][i] \in DOMAIN HashWord
    BY DEF SourceInv
  <1>4. \A i \in 1..Len(ghashes[s]) : src[s].recs[i].item \in 0..1
    <2>1. CASE ghashes[s] = <<>>
      BY <2>1
    <2>2. CASE ghashes[s] = Hashes(src[s].recs)
      BY <2>2, <1>1, SourceFacts
    <2> QED
      BY <2>1, <2>2 DEF SourceInv
  <1>5. ASSUME NEW i \in 0..(Len(ghashes[s]) - 1)
        PROVE  /\ ghashes[s][i + 1] \in DOMAIN HashWord
               /\ CellOf(s, i) \in [item : 0..1, src : Sources, idx : Nat]
               /\ CellOf(s, i).src = Position(s)
               /\ CellOf(s, i).idx = i
               /\ CellOf(s, i) # Empty
               /\ GHash(CellOf(s, i)) = ghashes[s][i + 1]
    <2>1. i + 1 \in 1..Len(ghashes[s]) /\ i \in Nat
      BY <1>3
    <2>2. CellOf(s, i) = [item |-> src[s].recs[i + 1].item, src |-> Position(s), idx |-> i]
      BY DEF CellOf, Cell
    <2>3. CellOf(s, i) \in [item : 0..1, src : Sources, idx : Nat]
      BY <2>1, <2>2, <1>2, <1>4
    <2>4. CellOf(s, i).src = Position(s) /\ CellOf(s, i).idx = i
      BY <2>2
    <2>5. Position(s) # 0
      BY <1>1, <1>2, SourceFacts
    <2>6. CellOf(s, i) # Empty
      BY <2>4, <2>5 DEF Empty, Cell
    <2> QED
      BY <2>1, <2>3, <2>4, <2>6, <1>2, <1>3 DEF GHash
  <1> QED
    BY <1>2, <1>3, <1>5

\* The records are finitely many, and the table has a cell when there is one.
LEMMA RecordsFinite ==
  ASSUME SourceInv
  PROVE  /\ IsFiniteSet(RecordsOf(Sources))
         /\ Cardinality(RecordsOf(Sources)) \in Nat
         /\ \A s \in Sources : \A i \in 1..Len(ghashes[s]) : <<s, i>> \in RecordsOf(Sources)
  <1>1. ASSUME NEW s \in Sources PROVE IsFiniteSet({s} \X DOMAIN ghashes[s])
    <2>1. IsFiniteSet({s})
      BY FS_Singleton
    <2>2. Len(ghashes[s]) \in Int /\ 1 \in Int /\ DOMAIN ghashes[s] = 1..Len(ghashes[s])
      BY RecordFacts
    <2>3. IsFiniteSet(DOMAIN ghashes[s])
      BY <2>2, FS_Interval
    <2> QED
      BY <2>1, <2>3, FS_Product
  <1> DEFINE f == [s \in Sources |-> {s} \X DOMAIN ghashes[s]]
             parts == {f[s] : s \in Sources}
  <1>2. IsFiniteSet(Sources)
    BY SourceFacts DEF SourceInv
  <1>3. IsFiniteSet(parts)
    <2>1. f \in Surjection(Sources, parts)
      BY DEF Surjection
    <2> QED
      BY <1>2, <2>1, FS_Surjection
  <1>4. \A x \in parts : IsFiniteSet(x)
    BY <1>1
  <1>5. RecordsOf(Sources) = UNION parts
    BY DEF RecordsOf
  <1>6. IsFiniteSet(RecordsOf(Sources))
    BY <1>3, <1>4, <1>5, FS_UNION
  <1>7. \A s \in Sources : \A i \in 1..Len(ghashes[s]) : <<s, i>> \in RecordsOf(Sources)
    BY RecordFacts DEF RecordsOf
  <1> QED
    BY <1>6, <1>7, FS_CardinalityType

LEMMA TableSizeFacts ==
  ASSUME SourceInv
  PROVE  /\ TableSize \in Nat
         /\ TableSize \in {MaxTable, Cardinality(RecordsOf(Sources))}
         /\ TableSize <= MaxTable /\ TableSize <= Cardinality(RecordsOf(Sources))
         /\ (\E s \in Sources : Len(ghashes[s]) > 0) => TableSize > 0
  <1> DEFINE n == Cardinality(RecordsOf(Sources))
  <1>1. n \in Nat /\ MaxTable \in Nat \ {0}
    BY RecordsFinite, MaxTableAssumption
  <1> HIDE DEF n
  <1>2. TableSize = CHOOSE x \in {MaxTable, n} : \A y \in {MaxTable, n} : x =< y
    BY DEF TableSize, Min, n
  <1>3. TableSize \in {MaxTable, n} /\ \A y \in {MaxTable, n} : TableSize <= y
    <2>1. \E x \in {MaxTable, n} : \A y \in {MaxTable, n} : x =< y
      BY <1>1
    <2> QED
      BY <2>1, <1>2
  <1>4. ASSUME NEW s \in Sources, Len(ghashes[s]) > 0 PROVE n > 0
    <2>1. Len(ghashes[s]) \in Nat
      BY RecordFacts
    <2>2. 1 \in 1..Len(ghashes[s])
      BY <2>1, <1>4
    <2>3. <<s, 1>> \in RecordsOf(Sources)
      BY <2>2, RecordsFinite
    <2>4. n # 0
      BY <2>3, RecordsFinite, FS_EmptySet DEF n
    <2> QED
      BY <2>4, <1>1
  <1> QED
    BY <1>1, <1>3, <1>4 DEF n

----------------------------------------------------------------------------
(* Sorting the sources *)

\* A sorted list has every source: sources that come at different places have different
\* numbers of sources before them.
LEMMA SortKeepsSources ==
  ASSUME SourceInv,
         NEW new, new = [p \in DOMAIN order |->
           CHOOSE s \in Sources : Cardinality({r \in Sources : GoesBefore(r, s)}) = p - 1]
  PROVE  DOMAIN new = Sources /\ \A s \in Sources : \E p \in Sources : new[p] = s
  <1> DEFINE before(s) == {r \in Sources : GoesBefore(r, s)}
             rank(s) == Cardinality(before(s))
  <1>1. /\ Len(src) \in Nat
        /\ Sources = 1..Len(src)
        /\ IsFiniteSet(Sources)
        /\ Cardinality(Sources) = Len(src)
    BY SourceFacts DEF SourceInv
  <1>2. \A r \in Sources : Position(r) \in Nat /\ order[Position(r)] = r
    BY RecordFacts, <1>1
  <1>3. \A r, s \in Sources : r # s => GoesBefore(r, s) \/ GoesBefore(s, r)
    BY <1>2 DEF GoesBefore
  <1>4. \A r, s, t \in Sources : GoesBefore(r, s) /\ GoesBefore(s, t) => GoesBefore(r, t)
    BY <1>2 DEF GoesBefore
  <1>5. \A s \in Sources : ~GoesBefore(s, s)
    BY <1>2 DEF GoesBefore
  <1>6. \A s \in Sources : IsFiniteSet(before(s)) /\ rank(s) \in Nat
    <2> TAKE s \in Sources
    <2>1. before(s) \subseteq Sources
      OBVIOUS
    <2> QED
      BY <2>1, <1>1, FS_Subset, FS_CardinalityType
  <1>7. ASSUME NEW r \in Sources, NEW s \in Sources, GoesBefore(r, s) PROVE rank(r) < rank(s)
    <2>1. before(r) \subseteq before(s) /\ r \in before(s) /\ r \notin before(r)
      BY <1>4, <1>5, <1>7
    <2>2. before(r) # before(s)
      BY <2>1
    <2>3. rank(r) <= rank(s) /\ (rank(r) = rank(s) => before(r) = before(s))
      BY <2>1, <1>6, FS_Subset
    <2> HIDE DEF rank, before
    <2> QED
      BY <2>2, <2>3, <1>6
  <1>8. \A s \in Sources : rank(s) < Len(src)
    <2> TAKE s \in Sources
    <2>1. before(s) \subseteq Sources /\ before(s) # Sources
      BY <1>5
    <2>2. rank(s) <= Len(src) /\ rank(s) # Len(src)
      BY <2>1, <1>1, FS_Subset
    <2> HIDE DEF rank, before
    <2> QED
      BY <2>2, <1>1, <1>6
  <1>9. ASSUME NEW s \in Sources PROVE \E p \in Sources : new[p] = s
    <2>1. rank(s) + 1 \in Sources /\ (rank(s) + 1) - 1 = rank(s)
      <3> HIDE DEF rank, before
      <3> QED
        BY <1>1, <1>6, <1>8
    <2>2. \A r \in Sources : rank(r) = rank(s) => r = s
      <3> HIDE DEF rank, before
      <3> QED
        BY <1>3, <1>6, <1>7
    <2>3. new[rank(s) + 1] = CHOOSE r \in Sources : rank(r) = rank(s)
      BY <2>1, ZenonT(30) DEF SourceInv
    <2> HIDE DEF rank, before
    <2>4. new[rank(s) + 1] = s
      BY <2>2, <2>3
    <2> QED
      BY <2>1, <2>4
  <1> QED
    BY <1>9 DEF SourceInv

----------------------------------------------------------------------------
(* Cells and probes *)

CellType == [item : Nat, src : Nat, idx : Nat]

\* The cells are totally ordered.
LEMMA BeforeIsTotal ==
  ASSUME NEW a \in CellType, NEW b \in CellType
  PROVE  /\ ~Before(a, a)
         /\ Before(a, b) \/ Before(b, a) \/ a = b
         /\ \A c \in CellType : ~Before(a, b) /\ ~Before(b, c) => ~Before(a, c)
  BY DEF CellType, Before

Start(h) == HashWord[h] % TableSize
NextSlot(q) == IF q + 1 = TableSize THEN 0 ELSE q + 1

LEMMA StartFacts ==
  ASSUME TableSize \in Nat \ {0}, NEW h \in DOMAIN HashWord
  PROVE  Start(h) \in Slots
  <1>1. HashWord[h] \in Nat
    BY InputsAssumption
  <1> QED
    BY <1>1 DEF Start, Slots

\* The probe of a hash starts at distance 0, goes on one further at a time, and visits
\* each cell once before it is back.
LEMMA DistFacts ==
  ASSUME TableSize \in Nat \ {0}, NEW h \in DOMAIN HashWord
  PROVE  /\ Start(h) \in Slots
         /\ Dist(h, Start(h)) = 0
         /\ \A q \in Slots : Dist(h, q) \in 0..(TableSize - 1)
         /\ \A p, q \in Slots : Dist(h, p) = Dist(h, q) => p = q
         /\ \A q \in Slots : NextSlot(q) \in Slots
         /\ \A q \in Slots : NextSlot(q) # Start(h) => Dist(h, NextSlot(q)) = Dist(h, q) + 1
         /\ \A q \in Slots : NextSlot(q) = Start(h) => Dist(h, q) = TableSize - 1
  <1> DEFINE T == TableSize
             a == Start(h)
  <1>1. T \in Nat \ {0} /\ a \in 0..(T - 1)
    BY StartFacts DEF Slots
  <1>2. Slots = 0..(T - 1)
    BY DEF Slots
  <1>3. \A q : Dist(h, q) = IF a <= q THEN q - a ELSE q + T - a
    BY DEF Dist, Start
  <1>4. \A q : NextSlot(q) = IF q + 1 = T THEN 0 ELSE q + 1
    BY DEF NextSlot
  <1> HIDE DEF T, a
  <1>5. Dist(h, a) = 0
    BY <1>1, <1>3
  <1>6. \A q \in Slots : Dist(h, q) \in 0..(T - 1)
    BY <1>1, <1>2, <1>3
  <1>7. \A p, q \in Slots : Dist(h, p) = Dist(h, q) => p = q
    BY <1>1, <1>2, <1>3
  <1>8. \A q \in Slots : NextSlot(q) \in Slots
    BY <1>1, <1>2, <1>4
  <1>9. \A q \in Slots : NextSlot(q) # a => Dist(h, NextSlot(q)) = Dist(h, q) + 1
    BY <1>1, <1>2, <1>3, <1>4
  <1>10. \A q \in Slots : NextSlot(q) = a => Dist(h, q) = T - 1
    BY <1>1, <1>2, <1>3, <1>4
  <1> QED
    BY <1>1, <1>2, <1>5, <1>6, <1>7, <1>8, <1>9, <1>10 DEF T, a

\* The probe of a hash goes past nothing to its start.
LEMMA StartIdxFacts ==
  ASSUME SourceInv, NEW s \in Sources, NEW i \in 0..(Len(ghashes[s]) - 1)
  PROVE  /\ TableSize \in Nat \ {0}
         /\ ghashes[s][i + 1] \in DOMAIN HashWord
         /\ StartIdx(s, i) = Start(ghashes[s][i + 1])
         /\ StartIdx(s, i) \in Slots
  <1>1. Len(ghashes[s]) \in Nat /\ ghashes[s][i + 1] \in DOMAIN HashWord
    BY RecordFacts
  <1>2. i < Len(ghashes[s]) /\ Len(ghashes[s]) > 0
    BY <1>1
  <1>3. TableSize \in Nat \ {0}
    BY <1>2, TableSizeFacts
  <1>4. StartIdx(s, i) = Start(ghashes[s][i + 1])
    BY <1>2 DEF StartIdx, Start
  <1> QED
    BY <1>1, <1>3, <1>4, StartFacts

\* A hash is at one place of the table.
LEMMA OnePlace ==
  ASSUME SourceInv, InsertInv,
         NEW p \in Slots, NEW q \in Slots, table[p] # Empty, table[q] # Empty,
         GHash(table[p]) = GHash(table[q])
  PROVE  p = q
  <1> DEFINE h == GHash(table[p])
  <1>0. PICK s \in Sources : \E i \in 0..(Len(ghashes[s]) - 1) : table[p] = CellOf(s, i)
    BY DEF InsertInv, TableInv
  <1>1. PICK i \in 0..(Len(ghashes[s]) - 1) : table[p] = CellOf(s, i)
    BY <1>0
  <1>2. TableSize \in Nat \ {0} /\ h \in DOMAIN HashWord
    BY <1>1, StartIdxFacts, RecordFacts
  <1>3. PassesTo(h, p) /\ PassesTo(h, q)
    BY DEF InsertInv, PathInv
  <1>4. ~(Dist(h, p) < Dist(h, q)) /\ ~(Dist(h, q) < Dist(h, p))
    BY <1>3 DEF PassesTo
  <1> HIDE DEF h
  <1>5. Dist(h, p) \in Int /\ Dist(h, q) \in Int /\ (Dist(h, p) = Dist(h, q) => p = q)
    BY <1>2, DistFacts
  <1> QED
    BY <1>4, <1>5

----------------------------------------------------------------------------
(* Steps of the insertion *)

Same == UNCHANGED <<src, order, ghashes>>

\* What depends on the inputs alone stays.
LEMMA SameFacts ==
  ASSUME Same
  PROVE  /\ Sources' = Sources
         /\ Slots' = Slots
         /\ SourceInv => SourceInv'
         /\ \A s, i : /\ Enters(s, i)' = Enters(s, i)
                      /\ CellOf(s, i)' = CellOf(s, i)
         /\ \A c : GHash(c)' = GHash(c)
         /\ \A h, q : Dist(h, q)' = Dist(h, q)
  <1>1. Sources' = Sources
    BY DEF Same, Sources
  <1>2. TableSize' = TableSize
    BY <1>1 DEF Same, TableSize, RecordsOf
  <1>3. Slots' = Slots /\ \A h, q : Dist(h, q)' = Dist(h, q)
    BY <1>2 DEF Slots, Dist
  <1>4. SourceInv => SourceInv'
    BY <1>1 DEF Same, SourceInv
  <1>5. \A s, i : CellOf(s, i)' = CellOf(s, i)
    BY DEF Same, CellOf, Position
  <1>6. \A s, i : Enters(s, i)' = Enters(s, i)
    BY DEF Same, Enters, ShouldOmitFromPdb, EndPrecompIdx
  <1>7. \A c : GHash(c)' = GHash(c)
    BY DEF Same, GHash
  <1> QED
    BY <1>1, <1>3, <1>4, <1>5, <1>6, <1>7

\* A cell that is filled keeps its hash and never takes a later record.
Grows ==
  /\ Same
  /\ TableInv'
  /\ \A q \in Slots : table[q] # Empty =>
       /\ table'[q] # Empty
       /\ GHash(table'[q]) = GHash(table[q])
       /\ ~Before(table[q], table'[q])

LEMMA CellsTyped ==
  ASSUME SourceInv, TableInv, NEW q \in Slots
  PROVE  table[q] \in CellType
  <1>1. CASE table[q] = Empty
    BY <1>1 DEF Empty, Cell, CellType
  <1>2. CASE table[q] # Empty
    <2>0. PICK s \in Sources : \E i \in 0..(Len(ghashes[s]) - 1) : table[q] = CellOf(s, i)
      BY <1>2 DEF TableInv
    <2>1. PICK i \in 0..(Len(ghashes[s]) - 1) : table[q] = CellOf(s, i)
      BY <2>0
    <2>2. table[q] \in [item : 0..1, src : Sources, idx : Nat]
      BY <2>1, RecordFacts
    <2>3. src \in Inputs
      BY DEF SourceInv
    <2>4. Sources \subseteq Nat /\ 0..1 \subseteq Nat
      BY <2>3, SourceFacts
    <2> QED
      BY <2>2, <2>4 DEF CellType
  <1> QED
    BY <1>1, <1>2

\* The table after a step, in terms of the records before it.
LEMMA NewTable ==
  ASSUME Same,
         DOMAIN table' = Slots,
         \A q \in Slots : table'[q] # Empty =>
           \E s \in Sources : \E i \in 0..(Len(ghashes[s]) - 1) :
             Enters(s, i) /\ table'[q] = CellOf(s, i)
  PROVE  TableInv'
  <1>1. /\ Sources' = Sources /\ Slots' = Slots
        /\ \A s, i : Enters(s, i)' = Enters(s, i) /\ CellOf(s, i)' = CellOf(s, i)
    BY SameFacts
  <1>2. ghashes' = ghashes /\ Empty' = Empty
    BY DEF Same, Empty, Cell
  <1> QED
    BY <1>1, <1>2 DEF TableInv

LEMMA StandingStill ==
  ASSUME Same, TableInv, SourceInv, UNCHANGED table
  PROVE  Grows
  <1>1. TableInv'
    BY NewTable DEF TableInv
  <1>2. \A q \in Slots : ~Before(table[q], table'[q])
    BY CellsTyped, BeforeIsTotal
  <1> QED
    BY <1>1, <1>2 DEF Grows

\* What a probe went past, it went past.
LEMMA PassedStays ==
  ASSUME SourceInv, Grows, NEW h, NEW q, PassesTo(h, q)
  PROVE  PassesTo(h, q)'
  <1>1. Slots' = Slots /\ (\A g, p : Dist(g, p)' = Dist(g, p)) /\ \A c : GHash(c)' = GHash(c)
    BY SameFacts DEF Grows
  <1> SUFFICES ASSUME NEW p \in Slots, Dist(h, p) < Dist(h, q)
               PROVE  table'[p] # Empty /\ GHash(table'[p]) # h
    BY <1>1 DEF PassesTo, Empty, Cell, GHash, Grows, Same
  <1> QED
    BY DEF PassesTo, Grows

LEMMA NewCellsTyped ==
  ASSUME SourceInv, Same, TableInv', NEW q \in Slots
  PROVE  table'[q] \in CellType
  <1>1. SourceInv' /\ Slots' = Slots
    BY SameFacts
  <1>2. CASE table'[q] = Empty
    BY <1>2 DEF Empty, Cell, CellType
  <1>3. CASE table'[q] # Empty
    <2>1. /\ Sources' = Sources
          /\ \A s, i : CellOf(s, i)' = CellOf(s, i)
      BY SameFacts
    <2>2. ghashes' = ghashes /\ Empty' = Empty
      BY DEF Same, Empty, Cell
    <2>3. PICK s \in Sources : \E i \in 0..(Len(ghashes[s]) - 1) : table'[q] = CellOf(s, i)
      BY <1>1, <1>3, <2>1, <2>2 DEF TableInv
    <2>4. PICK i \in 0..(Len(ghashes[s]) - 1) : table'[q] = CellOf(s, i)
      BY <2>3
    <2>5. table'[q] \in [item : 0..1, src : Sources, idx : Nat]
      BY <2>4, RecordFacts
    <2>6. src \in Inputs
      BY DEF SourceInv
    <2>7. Sources \subseteq Nat /\ 0..1 \subseteq Nat
      BY <2>6, SourceFacts
    <2> QED
      BY <2>5, <2>7 DEF CellType
  <1> QED
    BY <1>2, <1>3

LEMMA MineTyped ==
  ASSUME SourceInv, NEW s \in Sources, NEW i \in 0..(Len(ghashes[s]) - 1)
  PROVE  CellOf(s, i) \in CellType
  <1>1. CellOf(s, i) \in [item : 0..1, src : Sources, idx : Nat]
    BY RecordFacts
  <1>2. src \in Inputs
    BY DEF SourceInv
  <1>3. Sources \subseteq Nat /\ 0..1 \subseteq Nat
    BY <1>2, SourceFacts
  <1> QED
    BY <1>1, <1>3 DEF CellType

\* Record i of s is at q in the table after the step.
PlacedAt(s, i, q) ==
  /\ table'[q] # Empty
  /\ GHash(table'[q]) = ghashes[s][i + 1]
  /\ ~Before(CellOf(s, i), table'[q])

\* A position that was returned goes on holding its hash.
LEMMA PlacedStays ==
  ASSUME SourceInv, InsertInv, Grows,
         NEW s \in Sources, NEW i \in 0..(Len(ghashes[s]) - 1), Inserted(s, i)
  PROVE  imap[s][i + 1] \in Slots /\ PlacedAt(s, i, imap[s][i + 1])
  <1> DEFINE q == imap[s][i + 1]
  <1>1. Len(ghashes[s]) \in Nat
    BY RecordFacts
  <1>2. i + 1 \in 1..Len(ghashes[s])
    BY <1>1
  <1>3. q \in Slots
    BY <1>2 DEF InsertInv, PlacedInv, Inserted
  <1>4. table[q] # Empty /\ GHash(table[q]) = ghashes[s][i + 1] /\ ~Before(CellOf(s, i), table[q])
    BY DEF InsertInv, PlacedInv
  <1> HIDE DEF q
  <1>5. table'[q] # Empty /\ GHash(table'[q]) = ghashes[s][i + 1] /\ ~Before(table[q], table'[q])
    BY <1>3, <1>4 DEF Grows
  <1>6. CellOf(s, i) \in CellType /\ table[q] \in CellType /\ table'[q] \in CellType
    BY <1>3, MineTyped, CellsTyped, NewCellsTyped DEF InsertInv, Grows
  <1>7. ~Before(CellOf(s, i), table'[q])
    BY <1>4, <1>5, <1>6, BeforeIsTotal
  <1> QED
    BY <1>3, <1>5, <1>7 DEF PlacedAt, q

\* What WorkInv and PathInv ask of the thread of s when its state is w.
WorkFine(s, w) ==
  /\ w \in Steps
  /\ w.i <= Len(ghashes[s])
  /\ w.i < Len(ghashes[s]) =>
       /\ w.idx \in Slots
       /\ w.cas =>
            /\ Enters(s, w.i)
            /\ w.old # Empty =>
                 GHash(w.old) = ghashes[s][w.i + 1] /\ ~Before(w.old, CellOf(s, w.i))
  /\ Enters(s, w.i) => PassesTo(ghashes[s][w.i + 1], w.idx)

\* imap has what the thread of s, now at record n, passed; new marks the record whose
\* position it has just stored.
MapFine(s, n, new) ==
  \/ UNCHANGED imap /\ \A i \in 0..(Len(ghashes[s]) - 1) : Enters(s, i) /\ i < n => i < work[s].i
  \/ /\ imap' = [imap EXCEPT ![s][work[s].i + 1] = new]
     /\ n = work[s].i + 1
     /\ work[s].i < Len(ghashes[s])
     /\ new \in Slots
     /\ PlacedAt(s, work[s].i, new)

\* The positions after a step of the thread of s.
LEMMA MovePlaced ==
  ASSUME SourceInv, InsertInv, Grows, NEW s \in Sources, NEW w, WorkFine(s, w),
         work' = [work EXCEPT ![s] = w],
         NEW new, MapFine(s, w.i, new)
  PROVE  PlacedInv'
  <1>1. /\ Sources' = Sources /\ Slots' = Slots
        /\ \A r, i : Enters(r, i)' = Enters(r, i) /\ CellOf(r, i)' = CellOf(r, i)
        /\ \A c : GHash(c)' = GHash(c)
    BY SameFacts DEF Grows
  <1>2. ghashes' = ghashes /\ Empty' = Empty /\ NotTranslated' = NotTranslated
    BY DEF Grows, Same, Empty, Cell, NotTranslated
  <1>3. \A r \in Sources : Len(ghashes[r]) \in Nat
    BY RecordFacts
  <1>4. /\ DOMAIN imap = Sources
        /\ \A r \in Sources : imap[r] \in [1..Len(ghashes[r]) -> Slots \cup {NotTranslated}]
    BY DEF InsertInv, PlacedInv
  <1>5. work[s].i \in Nat /\ w.i \in Nat
    BY DEF InsertInv, WorkInv, WorkFine, Steps
  <1>6. /\ DOMAIN imap' = Sources
        /\ \A r \in Sources : imap'[r] \in [1..Len(ghashes[r]) -> Slots \cup {NotTranslated}]
    <2>1. CASE UNCHANGED imap
      BY <2>1, <1>4
    <2>2. CASE /\ imap' = [imap EXCEPT ![s][work[s].i + 1] = new]
               /\ work[s].i < Len(ghashes[s]) /\ new \in Slots
      <3>1. work[s].i + 1 \in 1..Len(ghashes[s])
        BY <2>2, <1>3, <1>5
      <3> QED
        BY <2>2, <3>1, <1>4
    <2> QED
      BY <2>1, <2>2 DEF MapFine
  <1>7. new \in Slots => new # NotTranslated
    BY DEF NotTranslated, Slots
  <1>8. ASSUME NEW r \in Sources, NEW i \in 0..(Len(ghashes[r]) - 1), imap'[r][i + 1] # NotTranslated
        PROVE  PlacedAt(r, i, imap'[r][i + 1])
    <2>1. CASE imap'[r][i + 1] = imap[r][i + 1]
      BY <2>1, <1>8, PlacedStays DEF Inserted
    <2>2. CASE imap'[r][i + 1] # imap[r][i + 1]
      <3>1. /\ imap' = [imap EXCEPT ![s][work[s].i + 1] = new]
            /\ PlacedAt(s, work[s].i, new)
        BY <2>2 DEF MapFine
      <3>2. r = s /\ i + 1 = work[s].i + 1 /\ imap'[r][i + 1] = new
        BY <2>2, <3>1, <1>4
      <3>3. i = work[s].i
        BY <3>2, <1>3, <1>5
      <3> QED
        BY <3>1, <3>2, <3>3
    <2> QED
      BY <2>1, <2>2
  <1>9. ASSUME NEW r \in Sources, NEW i \in 0..(Len(ghashes[r]) - 1), Enters(r, i), i < work'[r].i
        PROVE  imap'[r][i + 1] # NotTranslated
    <2>1. i < work[r].i => imap[r][i + 1] # NotTranslated
      BY <1>9 DEF InsertInv, PlacedInv, Inserted
    <2>2. work'[r] = IF r = s THEN w ELSE work[r]
      BY DEF InsertInv, WorkInv
    <2>3. CASE UNCHANGED imap /\ \A j \in 0..(Len(ghashes[s]) - 1) : Enters(s, j) /\ j < w.i => j < work[s].i
      BY <2>1, <2>2, <2>3, <1>9
    <2>4. CASE /\ imap' = [imap EXCEPT ![s][work[s].i + 1] = new]
               /\ w.i = work[s].i + 1
               /\ work[s].i < Len(ghashes[s])
               /\ new \in Slots
      <3>1. CASE r = s /\ i = work[s].i
        <4>1. work[s].i + 1 \in 1..Len(ghashes[s])
          BY <2>4, <1>3, <1>5
        <4>2. imap'[r][i + 1] = new
          BY <3>1, <4>1, <2>4, <1>4
        <4> QED
          BY <4>2, <2>4, <1>7
      <3>2. CASE ~(r = s /\ i = work[s].i)
        <4>1. i < work[r].i
          BY <3>2, <2>2, <2>4, <1>3, <1>5, <1>9
        <4>2. r # s \/ i + 1 # work[s].i + 1
          BY <3>2, <1>3, <1>5
        <4>3. imap'[r][i + 1] = imap[r][i + 1]
          BY <4>2, <2>4, <1>4
        <4> QED
          BY <4>1, <4>3, <2>1
      <3> QED
        BY <3>1, <3>2
    <2> QED
      BY <2>3, <2>4 DEF MapFine
  <1>10. ASSUME NEW r \in Sources, NEW i \in 0..(Len(ghashes[r]) - 1)
         PROVE  /\ Inserted(r, i)' => PlacedAt(r, i, imap'[r][i + 1])
                /\ Enters(r, i) /\ i < work'[r].i => Inserted(r, i)'
    BY <1>2, <1>8, <1>9 DEF Inserted
  <1> QED
    BY <1>1, <1>2, <1>6, <1>10 DEF PlacedInv, PlacedAt

\* A step of the thread of s keeps the invariant when a cell it fills is one its probe
\* had got to.
LEMMA MoveInv ==
  ASSUME SourceInv, InsertInv, Grows, NEW s \in Sources, NEW w, WorkFine(s, w),
         work' = [work EXCEPT ![s] = w],
         s \in pending, UNCHANGED pending,
         NEW new, MapFine(s, w.i, new),
         \A q \in Slots : table[q] = Empty /\ table'[q] # Empty => PassesTo(GHash(table'[q]), q)
  PROVE  InsertInv'
  <1>1. /\ Sources' = Sources /\ Slots' = Slots
        /\ \A r, i : Enters(r, i)' = Enters(r, i) /\ CellOf(r, i)' = CellOf(r, i)
        /\ \A c : GHash(c)' = GHash(c)
    BY SameFacts DEF Grows
  <1>2. ghashes' = ghashes /\ Empty' = Empty
    BY DEF Grows, Same, Empty, Cell
  <1>3. work \in [Sources -> Steps] /\ work' = [work EXCEPT ![s] = w] /\ w \in Steps
    BY DEF InsertInv, WorkInv, WorkFine
  <1>4. work' \in [Sources -> Steps] /\ \A r \in Sources : work'[r] = IF r = s THEN w ELSE work[r]
    BY <1>3
  <1>5. \A r \in Sources : WorkFine(r, work'[r])
    <2>1. \A r \in Sources : WorkFine(r, work[r])
      BY DEF InsertInv, WorkInv, PathInv, WorkFine
    <2> QED
      BY <2>1, <1>4
  <1>6. \A r \in Sources : r \notin pending => work'[r].i = Len(ghashes[r])
    BY <1>4 DEF InsertInv, WorkInv
  <1>7. WorkInv'
    BY <1>1, <1>2, <1>4, <1>5, <1>6 DEF WorkInv, WorkFine, Steps
  <1>8. ASSUME NEW r \in Sources, Enters(r, work'[r].i)
        PROVE  PassesTo(ghashes[r][work[r].i + 1], work[r].idx)'
    <2>1. PICK h : h = ghashes[r][work'[r].i + 1]
      OBVIOUS
    <2>2. PICK q : q = work'[r].idx
      OBVIOUS
    <2>3. PassesTo(h, q)
      BY <1>5, <1>8, <2>1, <2>2 DEF WorkFine
    <2>4. PassesTo(h, q)'
      BY <2>3, PassedStays
    <2>5. ghashes'[r][work'[r].i + 1] = h /\ work'[r].idx = q
      BY <2>1, <2>2, <1>2
    <2> QED
      BY <2>4, <2>5 DEF PassesTo, Dist
  <1>9. ASSUME NEW q \in Slots, table'[q] # Empty
        PROVE  PassesTo(GHash(table[q]), q)'
    <2>1. PICK h : h = GHash(table'[q])
      OBVIOUS
    <2>2. PassesTo(h, q)
      BY <2>1, <1>9 DEF InsertInv, PathInv, Grows
    <2>3. PassesTo(h, q)'
      BY <2>2, PassedStays
    <2>4. GHash(table[q])' = h
      BY <2>1, <1>2 DEF GHash, Grows, Same
    <2> QED
      BY <2>3, <2>4 DEF PassesTo, Dist
  <1>10. PathInv'
    BY <1>1, <1>2, <1>8, <1>9 DEF PathInv
  <1>11. PlacedInv' /\ TableInv'
    BY MovePlaced DEF Grows
  <1> QED
    BY <1>7, <1>10, <1>11 DEF InsertInv

\* A thread that starts with a record has passed nothing.
LEMMA AtFine ==
  ASSUME SourceInv, NEW s \in Sources, NEW i \in 0..Len(ghashes[s])
  PROVE  WorkFine(s, At(s, i)) /\ At(s, i).i = i
  <1>1. Len(ghashes[s]) \in Nat /\ i \in Nat
    BY RecordFacts
  <1>2. At(s, i) = [i |-> i, idx |-> StartIdx(s, i), old |-> Empty, cas |-> FALSE]
    BY DEF At
  <1>3. At(s, i).i = i /\ At(s, i).idx = StartIdx(s, i) /\ ~At(s, i).cas
    BY <1>2
  <1>4. CASE i < Len(ghashes[s])
    <2>1. i \in 0..(Len(ghashes[s]) - 1)
      BY <1>1, <1>4
    <2> DEFINE h == ghashes[s][i + 1]
    <2>2. /\ TableSize \in Nat \ {0} /\ h \in DOMAIN HashWord
          /\ StartIdx(s, i) = Start(h) /\ StartIdx(s, i) \in Slots
      BY <2>1, StartIdxFacts
    <2>3. StartIdx(s, i) \in Nat
      BY <2>2 DEF Slots
    <2>4. At(s, i) \in Steps
      BY <1>1, <1>2, <2>3 DEF Steps, Empty, Cell
    <2> HIDE DEF h
    <2>5. Dist(h, Start(h)) = 0 /\ \A p \in Slots : Dist(h, p) \in Nat
      BY <2>2, DistFacts
    <2>6. PassesTo(h, Start(h))
      BY <2>5 DEF PassesTo
    <2> QED
      BY <1>1, <1>3, <1>4, <2>2, <2>4, <2>6 DEF WorkFine, h
  <1>5. CASE ~(i < Len(ghashes[s]))
    <2>1. StartIdx(s, i) = 0 /\ ~Enters(s, i)
      BY <1>1, <1>5 DEF StartIdx, Enters
    <2>2. At(s, i) \in Steps
      BY <1>1, <1>2, <2>1 DEF Steps, Empty, Cell
    <2> QED
      BY <1>1, <1>3, <1>5, <2>1, <2>2 DEF WorkFine
  <1> QED
    BY <1>4, <1>5

\* What an inserting thread is at.
LEMMA InsertingFacts ==
  ASSUME SourceInv, InsertInv, NEW s \in Sources, Inserting(s)
  PROVE  /\ work[s].i \in 0..(Len(ghashes[s]) - 1)
         /\ work[s].i + 1 \in 0..Len(ghashes[s])
         /\ work[s].idx \in Slots
         /\ WorkFine(s, work[s])
  <1>1. Len(ghashes[s]) \in Nat /\ work[s].i \in Nat
    BY RecordFacts DEF InsertInv, WorkInv, Steps
  <1>2. work[s].i < Len(ghashes[s])
    BY DEF Inserting
  <1> QED
    BY <1>1, <1>2 DEF InsertInv, WorkInv, PathInv, WorkFine

\* insert returns a position that holds the record's hash.
LEMMA ReturnInv ==
  ASSUME SourceInv, InsertInv, Grows, NEW s \in Sources, Inserting(s), Return(s),
         UNCHANGED pending,
         PlacedAt(s, work[s].i, work[s].idx),
         \A q \in Slots : table[q] = Empty /\ table'[q] # Empty => PassesTo(GHash(table'[q]), q)
  PROVE  InsertInv'
  <1> DEFINE w == At(s, work[s].i + 1)
  <1>1. work[s].idx \in Slots /\ work[s].i < Len(ghashes[s]) /\ work[s].i + 1 \in 0..Len(ghashes[s])
    BY InsertingFacts DEF Inserting
  <1>2. WorkFine(s, w) /\ w.i = work[s].i + 1
    BY <1>1, AtFine
  <1>3. work' = [work EXCEPT ![s] = w]
    BY DEF Return
  <1>4. MapFine(s, w.i, work[s].idx)
    BY <1>1, <1>2 DEF MapFine, Return
  <1> HIDE DEF w
  <1> QED
    BY <1>2, <1>3, <1>4, MoveInv DEF Inserting

LEMMA OmitInv ==
  ASSUME SourceInv, InsertInv, NEW s \in Sources, Omit(s)
  PROVE  InsertInv'
  <1> DEFINE w == At(s, work[s].i + 1)
  <1>1. Inserting(s) /\ Same /\ UNCHANGED <<table, imap, pending>> /\ work' = [work EXCEPT ![s] = w]
    BY DEF Omit, Same
  <1>2. /\ work[s].i \in 0..(Len(ghashes[s]) - 1)
        /\ work[s].i + 1 \in 0..Len(ghashes[s])
    BY <1>1, InsertingFacts
  <1>3. WorkFine(s, w) /\ w.i = work[s].i + 1
    BY <1>2, AtFine
  <1>4. Grows
    BY <1>1, StandingStill DEF InsertInv
  <1>5. ~Enters(s, work[s].i)
    BY DEF Omit, Enters
  <1>6. \A i \in 0..(Len(ghashes[s]) - 1) : Enters(s, i) /\ i < w.i => i < work[s].i
    <2>1. Len(ghashes[s]) \in Nat
      BY RecordFacts
    <2> HIDE DEF w
    <2> QED
      BY <1>2, <1>3, <1>5, <2>1
  <1>7. MapFine(s, w.i, 0)
    BY <1>1, <1>6 DEF MapFine
  <1> HIDE DEF w
  <1> QED
    BY <1>1, <1>3, <1>4, <1>7, MoveInv DEF Inserting

\* Examining a cell: the probe goes on past another hash, the thread gives up at a full
\* table, returns, or gets ready to swap.
LEMMA ExamineInv ==
  ASSUME SourceInv, InsertInv, NEW s \in Sources, Inserting(s), Enters(s, work[s].i),
         Examine(s), Same, UNCHANGED <<table, pending>>
  PROVE  InsertInv' /\ (phase' = phase \/ (phase' = "full" /\ FullInv'))
  <1> DEFINE i == work[s].i
             idx == work[s].idx
             cell == table[idx]
             h == ghashes[s][i + 1]
             mine == cell = Empty \/ GHash(cell) = h
             next == NextSlot(idx)
  <1>1. /\ i \in 0..(Len(ghashes[s]) - 1)
        /\ idx \in Slots
        /\ WorkFine(s, work[s])
    BY InsertingFacts
  <1>2. Grows
    BY StandingStill DEF InsertInv
  <1>3. /\ TableSize \in Nat \ {0} /\ h \in DOMAIN HashWord
        /\ StartIdx(s, i) = Start(h)
    BY <1>1, StartIdxFacts
  <1>4. work \in [Sources -> Steps] /\ work[s] \in Steps
    BY DEF InsertInv, WorkInv
  <1>5. \A q \in Slots : table[q] = Empty /\ table'[q] # Empty => PassesTo(GHash(table'[q]), q)
    OBVIOUS
  <1>6. PassesTo(h, idx)
    BY <1>1 DEF WorkFine
  <1>7. next \in Slots
    BY <1>1, <1>3, DistFacts
  <1>8. CASE /\ ~mine /\ next # Start(h)
             /\ work' = [work EXCEPT ![s].idx = next, ![s].cas = FALSE]
             /\ UNCHANGED <<phase, imap>>
    <2> DEFINE w == [work[s] EXCEPT !.idx = next, !.cas = FALSE]
    <2>1. work' = [work EXCEPT ![s] = w]
      BY <1>4, <1>8
    <2>2. next \in Nat
      BY <1>7 DEF Slots
    <2>3. w.i = i /\ w.idx = next /\ ~w.cas /\ w \in Steps
      BY <1>4, <2>2 DEF Steps
    <2>4. PassesTo(h, next)
      <3>1. Dist(h, next) = Dist(h, idx) + 1
        BY <1>1, <1>3, <1>8, DistFacts
      <3>2. ASSUME NEW p \in Slots, Dist(h, p) < Dist(h, next)
            PROVE  table[p] # Empty /\ GHash(table[p]) # h
        <4>1. CASE p = idx
          BY <4>1, <1>8
        <4>2. CASE p # idx
          <5> HIDE DEF h, idx, next
          <5>1. Dist(h, p) \in Int /\ Dist(h, idx) \in Int /\ Dist(h, p) # Dist(h, idx)
            BY <1>1, <1>3, <4>2, DistFacts
          <5>2. Dist(h, p) < Dist(h, idx)
            BY <5>1, <3>1, <3>2
          <5> QED
            BY <5>2, <1>6 DEF PassesTo
        <4> QED
          BY <4>1, <4>2
      <3> QED
        BY <3>2 DEF PassesTo
    <2>5. WorkFine(s, w)
      <3> HIDE DEF w, next
      <3> QED
        BY <1>1, <1>7, <2>3, <2>4 DEF WorkFine
    <2>6. MapFine(s, w.i, 0)
      BY <1>8, <2>3 DEF MapFine
    <2> HIDE DEF w
    <2> QED
      BY <1>2, <1>5, <1>8, <2>1, <2>5, <2>6, MoveInv DEF Inserting
  <1>9. CASE ~mine /\ next = Start(h) /\ phase' = "full" /\ UNCHANGED <<work, imap>>
    <2>1. work' = [work EXCEPT ![s] = work[s]]
      BY <1>4, <1>9
    <2>2. MapFine(s, work[s].i, 0)
      BY <1>9 DEF MapFine
    <2>3. InsertInv'
      BY <1>1, <1>2, <1>5, <2>1, <2>2, MoveInv DEF Inserting
    <2>4. ASSUME NEW p \in Slots PROVE table[p] # Empty /\ GHash(table[p]) # h
      <3>1. CASE p = idx
        BY <3>1, <1>9
      <3>2. CASE p # idx
        <4> HIDE DEF h, idx, next
        <4>1. Dist(h, idx) = TableSize - 1
          BY <1>1, <1>3, <1>9, DistFacts DEF next
        <4>2. Dist(h, p) \in 0..(TableSize - 1) /\ Dist(h, p) # Dist(h, idx)
          BY <1>1, <1>3, <3>2, DistFacts
        <4>3. Dist(h, p) < Dist(h, idx)
          BY <4>1, <4>2, <1>3
        <4> QED
          BY <4>3, <1>6 DEF PassesTo
      <3> QED
        BY <3>1, <3>2
    <2>5. FullInv
      BY <2>4 DEF FullInv
    <2>6. /\ Sources' = Sources /\ Slots' = Slots
          /\ \A r, j : Enters(r, j)' = Enters(r, j)
          /\ \A c : GHash(c)' = GHash(c)
      BY SameFacts
    <2>7. FullInv'
      BY <2>5, <2>6, <1>9 DEF FullInv, Same, Empty, Cell
    <2> QED
      BY <2>3, <2>7, <1>9
  <1>10. CASE /\ mine /\ cell # Empty /\ Before(cell, CellOf(s, i))
              /\ Return(s) /\ UNCHANGED phase
    <2>1. cell \in CellType /\ CellOf(s, i) \in CellType
      BY <1>1, CellsTyped, MineTyped DEF InsertInv
    <2>2. ~Before(CellOf(s, i), cell)
      <3> HIDE DEF cell
      <3>1. CellOf(s, i) \in CellType /\ cell \in CellType /\ Before(cell, CellOf(s, i))
        BY <2>1, <1>10
      <3> QED
        BY <3>1 DEF Before, CellType
    <2>3. PlacedAt(s, work[s].i, work[s].idx)
      BY <2>2, <1>10 DEF PlacedAt
    <2> QED
      BY <2>3, <1>2, <1>5, <1>10, ReturnInv
  <1>11. CASE /\ mine /\ ~(cell # Empty /\ Before(cell, CellOf(s, i)))
              /\ work' = [work EXCEPT ![s].old = cell, ![s].cas = TRUE]
              /\ UNCHANGED <<phase, imap>>
    <2> DEFINE w == [work[s] EXCEPT !.old = cell, !.cas = TRUE]
    <2>1. work' = [work EXCEPT ![s] = w]
      BY <1>4, <1>11
    <2>2. cell \in CellType
      BY <1>1, CellsTyped DEF InsertInv
    <2>3. w.i = i /\ w.idx = idx /\ w.old = cell /\ w \in Steps
      BY <1>4, <2>2 DEF Steps, CellType
    <2>4. WorkFine(s, w)
      <3> HIDE DEF w
      <3> QED
        BY <1>1, <1>11, <2>3 DEF WorkFine
    <2>5. MapFine(s, w.i, 0)
      BY <1>11, <2>3 DEF MapFine
    <2> HIDE DEF w
    <2> QED
      BY <1>2, <1>5, <1>11, <2>1, <2>4, <2>5, MoveInv DEF Inserting
  <1> QED
    BY <1>3, <1>8, <1>9, <1>10, <1>11 DEF Examine, NextSlot

LEMMA LoadInv ==
  ASSUME SourceInv, InsertInv, NEW s \in Sources, Load(s)
  PROVE  InsertInv' /\ (phase' = phase \/ (phase' = "full" /\ FullInv'))
  <1>1. Inserting(s) /\ Examine(s) /\ Same /\ UNCHANGED <<table, pending>>
    BY DEF Load, Same
  <1>2. Enters(s, work[s].i)
    BY <1>1, InsertingFacts DEF Load, Enters
  <1> QED
    BY <1>1, <1>2, ExamineInv

\* A swap that succeeds puts a record into an empty cell its probe had got to, or in the
\* place of a later record of its hash.
LEMMA SwapInv ==
  ASSUME SourceInv, InsertInv, NEW s \in Sources, CompareAndSwap(s),
         table[work[s].idx] = work[s].old
  PROVE  InsertInv' /\ phase' = phase
  <1> DEFINE i == work[s].i
             idx == work[s].idx
             h == ghashes[s][i + 1]
             new == CellOf(s, i)
  <1>1. /\ Inserting(s) /\ work[s].cas /\ Same /\ Return(s) /\ UNCHANGED <<phase, pending>>
        /\ table' = [table EXCEPT ![idx] = new]
    BY DEF CompareAndSwap, Same
  <1>2. i \in 0..(Len(ghashes[s]) - 1) /\ idx \in Slots /\ WorkFine(s, work[s])
    BY <1>1, InsertingFacts
  <1>3. Len(ghashes[s]) \in Nat
    BY RecordFacts
  <1>4. i < Len(ghashes[s])
    BY <1>2, <1>3
  <1>5. /\ Enters(s, i)
        /\ PassesTo(h, idx)
        /\ table[idx] # Empty => GHash(table[idx]) = h /\ ~Before(table[idx], new)
    BY <1>1, <1>2, <1>4 DEF WorkFine
  <1>6. new \in CellType /\ new # Empty /\ GHash(new) = h
    BY <1>2, RecordFacts, MineTyped
  <1>7. DOMAIN table = Slots
    BY DEF InsertInv, TableInv
  <1>8. DOMAIN table' = Slots /\ \A q \in Slots : table'[q] = IF q = idx THEN new ELSE table[q]
    BY <1>1, <1>7
  <1>9. TableInv'
    <2>1. \A q \in Slots : table'[q] # Empty =>
            \E r \in Sources : \E j \in 0..(Len(ghashes[r]) - 1) :
              Enters(r, j) /\ table'[q] = CellOf(r, j)
      BY <1>2, <1>5, <1>8 DEF InsertInv, TableInv
    <2> QED
      BY <2>1, <1>1, <1>8, NewTable
  <1>10. Grows
    <2> SUFFICES ASSUME NEW q \in Slots, table[q] # Empty
                 PROVE  /\ table'[q] # Empty
                        /\ GHash(table'[q]) = GHash(table[q])
                        /\ ~Before(table[q], table'[q])
      BY <1>1, <1>9 DEF Grows
    <2>1. CASE q = idx
      BY <2>1, <1>5, <1>6, <1>8
    <2>2. CASE q # idx
      <3>1. table'[q] = table[q]
        BY <2>2, <1>8
      <3>2. ~Before(table[q], table[q])
        BY CellsTyped, BeforeIsTotal DEF InsertInv
      <3> QED
        BY <3>1, <3>2
    <2> QED
      BY <2>1, <2>2
  <1>11. PlacedAt(s, work[s].i, work[s].idx)
    <2>1. ~Before(new, new)
      BY <1>6, BeforeIsTotal
    <2> QED
      BY <2>1, <1>2, <1>6, <1>8 DEF PlacedAt
  <1>12. \A q \in Slots : table[q] = Empty /\ table'[q] # Empty => PassesTo(GHash(table'[q]), q)
    BY <1>5, <1>6, <1>8
  <1> QED
    BY <1>1, <1>10, <1>11, <1>12, ReturnInv

LEMMA CompareAndSwapInv ==
  ASSUME SourceInv, InsertInv, NEW s \in Sources, CompareAndSwap(s)
  PROVE  InsertInv' /\ (phase' = phase \/ (phase' = "full" /\ FullInv'))
  <1>1. CASE table[work[s].idx] = work[s].old
    BY <1>1, SwapInv
  <1>2. CASE table[work[s].idx] # work[s].old
    <2>1. Inserting(s) /\ Examine(s) /\ Same /\ UNCHANGED <<table, pending>> /\ work[s].cas
      BY <1>2 DEF CompareAndSwap, Same
    <2>2. Enters(s, work[s].i)
      BY <2>1, InsertingFacts DEF WorkFine, Inserting
    <2> QED
      BY <2>1, <2>2, ExamineInv
  <1> QED
    BY <1>1, <1>2

\* Nothing moves but a source that is through.
LEMMA StillInv ==
  ASSUME SourceInv, InsertInv, Same, UNCHANGED <<table, work, imap>>,
         \A s \in Sources : s \notin pending' => work[s].i = Len(ghashes[s])
  PROVE  InsertInv'
  <1>1. Grows
    BY StandingStill DEF InsertInv
  <1>2. /\ Sources' = Sources /\ Slots' = Slots
        /\ \A r, i : Enters(r, i)' = Enters(r, i) /\ CellOf(r, i)' = CellOf(r, i)
        /\ \A c : GHash(c)' = GHash(c)
        /\ \A h, q : Dist(h, q)' = Dist(h, q)
    BY SameFacts
  <1>3. ghashes' = ghashes /\ Empty' = Empty /\ NotTranslated' = NotTranslated
    BY DEF Same, Empty, Cell, NotTranslated
  <1>4. TableInv'
    BY <1>1 DEF Grows
  <1>5. WorkInv'
    BY <1>2, <1>3 DEF InsertInv, WorkInv, Steps
  <1>6. PlacedInv'
    BY <1>2, <1>3 DEF InsertInv, PlacedInv, Inserted
  <1>7. PathInv'
    BY <1>2, <1>3 DEF InsertInv, PathInv, PassesTo
  <1> QED
    BY <1>4, <1>5, <1>6, <1>7 DEF InsertInv

LEMMA InsertedAllInv ==
  ASSUME SourceInv, InsertInv, NEW s \in Sources, InsertedAll(s)
  PROVE  InsertInv'
  <1>1. Same /\ UNCHANGED <<table, work, imap>> /\ pending' = pending \ {s}
        /\ work[s].i = Len(ghashes[s])
    BY DEF InsertedAll, Same, inserting
  <1>2. \A r \in Sources : r \notin pending' => work[r].i = Len(ghashes[r])
    BY <1>1 DEF InsertInv, WorkInv
  <1> QED
    BY <1>1, <1>2, StillInv

LEMMA StartInsertInv ==
  ASSUME SourceInv, StartInsert
  PROVE  InsertInv'
  <1>1. Same /\ pending' = Sources
        /\ table' = [c \in Slots |-> Empty]
        /\ work' = [s \in Sources |-> At(s, 0)]
        /\ imap' = [s \in Sources |-> [i \in DOMAIN ghashes[s] |-> NotTranslated]]
    BY DEF StartInsert, Same, Slots
  <1>2. /\ Sources' = Sources /\ Slots' = Slots
        /\ \A r, i : Enters(r, i)' = Enters(r, i) /\ CellOf(r, i)' = CellOf(r, i)
        /\ \A c : GHash(c)' = GHash(c)
        /\ \A h, q : Dist(h, q)' = Dist(h, q)
    BY <1>1, SameFacts
  <1>3. ghashes' = ghashes /\ Empty' = Empty /\ NotTranslated' = NotTranslated
    BY <1>1 DEF Same, Empty, Cell, NotTranslated
  <1>4. \A s \in Sources : Len(ghashes[s]) \in Nat /\ DOMAIN ghashes[s] = 1..Len(ghashes[s])
    BY RecordFacts
  <1>5. \A s \in Sources : WorkFine(s, At(s, 0)) /\ At(s, 0).i = 0
    <2> TAKE s \in Sources
    <2>1. 0 \in 0..Len(ghashes[s])
      BY <1>4
    <2> QED
      BY <2>1, AtFine
  <1>6. TableInv'
    BY <1>1, <1>2, <1>3 DEF TableInv
  <1>7. \A s \in Sources : work'[s] = At(s, 0)
    BY <1>1
  <1>8. WorkInv'
    <2>1. work' \in [Sources -> Steps]
      BY <1>1, <1>5 DEF WorkFine
    <2> QED
      BY <2>1, <1>1, <1>2, <1>3, <1>5, <1>7 DEF WorkInv, WorkFine, Steps
  <1>9. PlacedInv'
    <2>1. \A s \in Sources : imap'[s] = [i \in 1..Len(ghashes[s]) |-> NotTranslated]
      BY <1>1, <1>4
    <2>2. DOMAIN imap' = Sources
      BY <1>1
    <2>3. \A s \in Sources : imap'[s] \in [1..Len(ghashes[s]) -> Slots \cup {NotTranslated}]
      BY <2>1
    <2>4. ASSUME NEW s \in Sources, NEW i \in 0..(Len(ghashes[s]) - 1)
          PROVE  imap'[s][i + 1] = NotTranslated /\ ~(i < work'[s].i)
      <3>1. i + 1 \in 1..Len(ghashes[s]) /\ ~(i < 0)
        BY <1>4
      <3> QED
        BY <3>1, <2>1, <1>5, <1>7
    <2> QED
      BY <2>2, <2>3, <2>4, <1>2, <1>3 DEF PlacedInv, Inserted
  <1>10. PathInv'
    <2>1. \A q \in Slots : table'[q] = Empty
      BY <1>1
    <2>2. ASSUME NEW s \in Sources, Enters(s, work'[s].i), NEW p \in Slots
          PROVE  ~(Dist(ghashes[s][work'[s].i + 1], p) < Dist(ghashes[s][work'[s].i + 1], work'[s].idx))
      <3> DEFINE h == ghashes[s][0 + 1]
      <3>0. work'[s] = [i |-> 0, idx |-> StartIdx(s, 0), old |-> Empty, cas |-> FALSE]
        BY <1>7 DEF At
      <3>1. work'[s].i = 0 /\ work'[s].idx = StartIdx(s, 0)
        BY <3>0
      <3>2. 0 \in 0..(Len(ghashes[s]) - 1)
        BY <2>2, <3>1 DEF Enters
      <3>3. TableSize \in Nat \ {0} /\ h \in DOMAIN HashWord /\ StartIdx(s, 0) = Start(h)
        BY <3>2, StartIdxFacts
      <3> HIDE DEF h
      <3>4. Dist(h, Start(h)) = 0 /\ Dist(h, p) \in Nat
        BY <3>3, DistFacts
      <3>5. ~(Dist(h, p) < Dist(h, StartIdx(s, 0)))
        BY <3>3, <3>4
      <3> QED
        BY <3>1, <3>5 DEF h
    <2> QED
      BY <2>1, <2>2, <1>2, <1>3 DEF PathInv, PassesTo
  <1> QED
    BY <1>6, <1>8, <1>9, <1>10 DEF InsertInv

----------------------------------------------------------------------------
(* The winners *)

\* Of all records of a hash the first is the one left in the table.
LEMMA FirstWins ==
  ASSUME SourceInv, InsertInv, pending = {}, NEW s \in Sources
  PROVE  {c.idx : c \in {d \in Cells : order[d.src] = s}} =
           {i \in 0..(Len(ghashes[s]) - 1) :
              /\ ~ShouldOmitFromPdb(s, i)
              /\ \A r \in Sources : \A j \in 0..(Len(ghashes[r]) - 1) :
                   /\ ~ShouldOmitFromPdb(r, j)
                   /\ ghashes[r][j + 1] = ghashes[s][i + 1]
                   => ~Before(CellOf(r, j), CellOf(s, i))}
  <1> DEFINE First(i) == \A r \in Sources : \A j \in 0..(Len(ghashes[r]) - 1) :
               ~ShouldOmitFromPdb(r, j) /\ ghashes[r][j + 1] = ghashes[s][i + 1]
                 => ~Before(CellOf(r, j), CellOf(s, i))
             left == {c.idx : c \in {d \in Cells : order[d.src] = s}}
  <1>1. DOMAIN table = Slots
    BY DEF InsertInv, TableInv
  <1>2. \A r \in Sources : Len(ghashes[r]) \in Nat /\ work[r].i = Len(ghashes[r])
    BY RecordFacts DEF InsertInv, WorkInv
  <1>3. ASSUME NEW r \in Sources, NEW j \in 0..(Len(ghashes[r]) - 1), ~ShouldOmitFromPdb(r, j)
        PROVE  \E q \in Slots : /\ table[q] # Empty
                                /\ GHash(table[q]) = ghashes[r][j + 1]
                                /\ ~Before(CellOf(r, j), table[q])
    <2>1. j < work[r].i /\ j + 1 \in 1..Len(ghashes[r])
      BY <1>2
    <2>2. Enters(r, j)
      BY <1>3 DEF Enters
    <2>3. Inserted(r, j)
      BY <2>1, <2>2 DEF InsertInv, PlacedInv
    <2>4. imap[r][j + 1] \in Slots
      BY <2>1, <2>3 DEF InsertInv, PlacedInv, Inserted
    <2> QED
      BY <2>3, <2>4 DEF InsertInv, PlacedInv
  <1>4. ASSUME NEW q \in Slots, table[q] # Empty, order[table[q].src] = s
        PROVE  /\ table[q].idx \in 0..(Len(ghashes[s]) - 1)
               /\ ~ShouldOmitFromPdb(s, table[q].idx)
               /\ First(table[q].idx)
    <2>1. PICK r \in Sources : \E i \in 0..(Len(ghashes[r]) - 1) :
            Enters(r, i) /\ table[q] = CellOf(r, i)
      BY <1>4 DEF InsertInv, TableInv
    <2>2. PICK i \in 0..(Len(ghashes[r]) - 1) : Enters(r, i) /\ table[q] = CellOf(r, i)
      BY <2>1
    <2>3. /\ table[q].src = Position(r) /\ order[Position(r)] = r
          /\ table[q].idx = i /\ GHash(table[q]) = ghashes[r][i + 1]
      BY <2>2, RecordFacts
    <2>4. r = s /\ table[q] = CellOf(s, i)
      BY <2>2, <2>3, <1>4
    <2>5. ASSUME NEW t \in Sources, NEW j \in 0..(Len(ghashes[t]) - 1),
                 ~ShouldOmitFromPdb(t, j), ghashes[t][j + 1] = ghashes[s][i + 1]
          PROVE  ~Before(CellOf(t, j), CellOf(s, i))
      <3>1. PICK p \in Slots : /\ table[p] # Empty
                               /\ GHash(table[p]) = ghashes[t][j + 1]
                               /\ ~Before(CellOf(t, j), table[p])
        BY <2>5, <1>3
      <3>2. GHash(table[p]) = GHash(table[q])
        BY <3>1, <2>3, <2>4, <2>5
      <3>3. p = q
        BY <3>1, <3>2, <1>4, OnePlace
      <3> QED
        BY <3>1, <3>3, <2>4
    <2> QED
      BY <2>2, <2>3, <2>4, <2>5 DEF Enters
  <1>5. ASSUME NEW i \in 0..(Len(ghashes[s]) - 1), ~ShouldOmitFromPdb(s, i), First(i)
        PROVE  i \in left
    <2>1. PICK q \in Slots : /\ table[q] # Empty
                             /\ GHash(table[q]) = ghashes[s][i + 1]
                             /\ ~Before(CellOf(s, i), table[q])
      BY <1>3, <1>5
    <2>2. PICK r \in Sources : \E j \in 0..(Len(ghashes[r]) - 1) :
            Enters(r, j) /\ table[q] = CellOf(r, j)
      BY <2>1 DEF InsertInv, TableInv
    <2>3. PICK j \in 0..(Len(ghashes[r]) - 1) : Enters(r, j) /\ table[q] = CellOf(r, j)
      BY <2>2
    <2>4. GHash(table[q]) = ghashes[r][j + 1]
      BY <2>3, RecordFacts
    <2>5. ~Before(table[q], CellOf(s, i))
      BY <2>1, <2>3, <2>4, <1>5 DEF Enters
    <2>6. table[q] \in CellType /\ CellOf(s, i) \in CellType
      BY CellsTyped, MineTyped DEF InsertInv
    <2>7. table[q] = CellOf(s, i)
      BY <2>1, <2>5, <2>6, BeforeIsTotal
    <2>8. table[q].src = Position(s) /\ order[Position(s)] = s /\ table[q].idx = i
      BY <2>7, RecordFacts
    <2>9. table[q] \in Cells
      BY <2>1, <1>1 DEF Cells
    <2> QED
      BY <2>8, <2>9
  <1>6. ASSUME NEW i \in left
        PROVE  i \in 0..(Len(ghashes[s]) - 1) /\ ~ShouldOmitFromPdb(s, i) /\ First(i)
    <2>1. PICK c \in Cells : order[c.src] = s /\ i = c.idx
      OBVIOUS
    <2>2. PICK q \in Slots : c = table[q] /\ table[q] # Empty
      BY <1>1 DEF Cells
    <2> QED
      BY <2>1, <2>2, <1>4
  <1> QED
    BY <1>5, <1>6

----------------------------------------------------------------------------
(* The other steps *)

LEMMA MergeInit == Init => MergeInv
  <1> SUFFICES ASSUME Init PROVE MergeInv
    OBVIOUS
  <1>1. src \in Inputs /\ phase = "sort" /\ DOMAIN order = Sources /\ \A s \in Sources : order[s] = s
    BY DEF Init, Sources
  <1>2. ghashes = [s \in Sources |-> <<>>]
    BY DEF Init
  <1>3. ghashes \in [Sources -> Seq(DOMAIN HashWord)] /\ \A s \in Sources : ghashes[s] = <<>>
    BY <1>2
  <1>4. SourceInv
    BY <1>1, <1>3 DEF SourceInv
  <1> QED
    BY <1>1, <1>4 DEF MergeInv, WinnersAreFirst

LEMMA SortInv ==
  ASSUME SourceInv, SortDependencies
  PROVE  SourceInv'
  <1>1. order' = [p \in DOMAIN order |->
           CHOOSE s \in Sources : Cardinality({r \in Sources : GoesBefore(r, s)}) = p - 1]
    BY DEF SortDependencies
  <1>2. UNCHANGED <<src, ghashes>> /\ Sources' = Sources
    BY DEF SortDependencies, Sources
  <1>3. DOMAIN order' = Sources /\ \A s \in Sources : \E p \in Sources : order'[p] = s
    BY <1>1, SortKeepsSources
  <1> QED
    BY <1>2, <1>3 DEF SourceInv

LEMMA LoadGHashesInv ==
  ASSUME SourceInv, NEW s \in Sources, LoadGHashes(s)
  PROVE  SourceInv'
  <1>1. UNCHANGED <<src, order>> /\ Sources' = Sources
    BY DEF LoadGHashes, Sources
  <1>2. \A r \in Sources : Hashes(src[r].recs) \in Seq(DOMAIN HashWord)
    BY SourceFacts DEF SourceInv
  <1>3. ghashes \in [Sources -> Seq(DOMAIN HashWord)]
    BY DEF SourceInv
  <1>4. /\ ghashes' \in [Sources -> Seq(DOMAIN HashWord)]
        /\ \A r \in Sources : ghashes'[r] \in {ghashes[r], Hashes(src[r].recs)}
    <2>1. CASE LoadTypeServer(s)
      BY <2>1, <1>2, <1>3 DEF LoadTypeServer
    <2>2. CASE LoadOwn(s) \/ LoadPrecompUser(s)
      <3>1. ghashes' = ghashes \/ ghashes' = [ghashes EXCEPT ![s] = Hashes(src[s].recs)]
        BY <2>2 DEF LoadOwn, LoadPrecompUser
      <3> QED
        BY <3>1, <1>2, <1>3
    <2>3. CASE LoadNothing(s)
      BY <2>3, <1>3 DEF LoadNothing
    <2> QED
      BY <2>1, <2>2, <2>3 DEF LoadGHashes
  <1> QED
    BY <1>1, <1>4 DEF SourceInv

LEMMA MergeStep == MergeInv /\ [Next]_vars => MergeInv'
  <1> SUFFICES ASSUME MergeInv, [Next]_vars PROVE MergeInv'
    OBVIOUS
  <1>1. SourceInv /\ (phase \in {"insert", "full"} => InsertInv)
    BY DEF MergeInv
  <1>2. CASE SortDependencies
    BY <1>1, <1>2, SortInv DEF MergeInv, SortDependencies, WinnersAreFirst
  <1>3. CASE StartInsert
    <2>1. Same /\ phase' = "insert"
      BY <1>3 DEF StartInsert, Same
    <2> QED
      BY <2>1, <1>1, <1>3, SameFacts, StartInsertInv DEF MergeInv, WinnersAreFirst
  <1>4. CASE AssignIndices
    <2>1. Same /\ phase = "insert" /\ phase' = "remap" /\ pending = {}
          /\ uniq' = [s \in Sources |-> {c.idx : c \in {d \in Cells : order[d.src] = s}}]
      BY <1>4 DEF AssignIndices, Same
    <2>2. /\ Sources' = Sources /\ SourceInv'
          /\ \A s, i : CellOf(s, i)' = CellOf(s, i)
      BY <2>1, <1>1, SameFacts
    <2>3. \A s, i : ShouldOmitFromPdb(s, i)' = ShouldOmitFromPdb(s, i)
      BY <2>1 DEF Same, ShouldOmitFromPdb, EndPrecompIdx
    <2>4. ASSUME NEW s \in Sources
          PROVE  uniq'[s] =
           {i \in 0..(Len(ghashes[s]) - 1) :
              /\ ~ShouldOmitFromPdb(s, i)
              /\ \A r \in Sources : \A j \in 0..(Len(ghashes[r]) - 1) :
                   /\ ~ShouldOmitFromPdb(r, j)
                   /\ ghashes[r][j + 1] = ghashes[s][i + 1]
                   => ~Before(CellOf(r, j), CellOf(s, i))}
      BY <2>1, <1>1, FirstWins
    <2>5. WinnersAreFirst'
      BY <2>1, <2>2, <2>3, <2>4 DEF WinnersAreFirst, Same, Before
    <2> QED
      BY <2>1, <2>2, <2>5 DEF MergeInv
  <1>5. CASE Finish
    <2>1. /\ phase' = "done" /\ UNCHANGED <<src, order>> /\ Sources' = Sources
          /\ ghashes' = [s \in Sources |-> <<>>]
      BY <1>5 DEF Finish, Sources
    <2>2. SourceInv'
      BY <2>1, <1>1 DEF SourceInv
    <2> QED
      BY <2>1, <2>2 DEF MergeInv, WinnersAreFirst
  <1>6. ASSUME NEW s \in Sources, Step(s) PROVE MergeInv'
    <2>1. CASE LoadGHashes(s)
      BY <2>1, <1>1, LoadGHashesInv DEF MergeInv, WinnersAreFirst, LoadGHashes
    <2>2. CASE Omit(s) \/ InsertedAll(s)
      <3>1. Same /\ phase = "insert" /\ phase' = "insert"
        BY <2>2 DEF Omit, InsertedAll, Inserting, Same
      <3> QED
        BY <2>2, <3>1, <1>1, SameFacts, OmitInv, InsertedAllInv DEF MergeInv, WinnersAreFirst
    <2>3. CASE Load(s) \/ CompareAndSwap(s)
      <3>1. Same /\ phase = "insert"
        BY <2>3 DEF Load, CompareAndSwap, Inserting, Same
      <3>2. InsertInv' /\ (phase' = phase \/ (phase' = "full" /\ FullInv'))
        BY <2>3, <3>1, <1>1, LoadInv, CompareAndSwapInv
      <3> QED
        BY <3>1, <3>2, <1>1, SameFacts DEF MergeInv, WinnersAreFirst
    <2>4. CASE Remap(s)
      <3>1. Same /\ phase = "remap" /\ phase' = "remap" /\ UNCHANGED uniq
        BY <2>4 DEF Remap, Same
      <3>2. /\ Sources' = Sources /\ SourceInv'
            /\ \A r, i : CellOf(r, i)' = CellOf(r, i)
        BY <3>1, <1>1, SameFacts
      <3>3. \A r, i : ShouldOmitFromPdb(r, i)' = ShouldOmitFromPdb(r, i)
        BY <3>1 DEF Same, ShouldOmitFromPdb, EndPrecompIdx
      <3>4. WinnersAreFirst'
        BY <3>1, <3>2, <3>3 DEF MergeInv, WinnersAreFirst, Same, Before
      <3> QED
        BY <3>1, <3>2, <3>4 DEF MergeInv
    <2> QED
      BY <1>6, <2>1, <2>2, <2>3, <2>4 DEF Step
  <1>7. CASE UNCHANGED vars
    <2>1. Same /\ UNCHANGED <<table, work, imap, pending, phase, uniq>>
      BY <1>7 DEF vars, Same
    <2>2. /\ Sources' = Sources /\ SourceInv' /\ Slots' = Slots
          /\ \A r, i : CellOf(r, i)' = CellOf(r, i) /\ Enters(r, i)' = Enters(r, i)
          /\ \A c : GHash(c)' = GHash(c)
      BY <2>1, <1>1, SameFacts
    <2>3. \A r, i : ShouldOmitFromPdb(r, i)' = ShouldOmitFromPdb(r, i)
      BY <2>1 DEF Same, ShouldOmitFromPdb, EndPrecompIdx
    <2>4. WinnersAreFirst'
      BY <2>1, <2>2, <2>3 DEF MergeInv, WinnersAreFirst, Same, Before
    <2>5. phase \in {"insert", "full"} => InsertInv'
      BY <2>1, <1>1, StillInv DEF InsertInv, WorkInv
    <2>6. FullInv => FullInv'
      BY <2>1, <2>2 DEF FullInv, Same, Empty, Cell
    <2> QED
      BY <2>1, <2>2, <2>4, <2>5, <2>6 DEF MergeInv
  <1> QED
    BY <1>2, <1>3, <1>4, <1>5, <1>6, <1>7 DEF Next

\* The invariant of the table holds in every reachable state.
THEOREM MergeInvariance == Spec => []MergeInv
  BY MergeInit, MergeStep, PTL DEF Spec

\* Whatever the inputs, the hashes and the interleaving, a position that insert returned
\* keeps holding its hash and a record at least as early (GHashTable::insert).
THEOREM PositionsHoldHolds == Spec => []PositionsHold
  <1>1. MergeInv => PositionsHold
    <2> SUFFICES ASSUME MergeInv, phase = "insert" PROVE PositionsHold
      BY DEF PositionsHold
    <2>1. SourceInv /\ InsertInv
      BY DEF MergeInv
    <2>2. ASSUME NEW s \in Sources PROVE Len(imap[s]) = Len(ghashes[s])
      <3>1. Len(ghashes[s]) \in Nat /\ DOMAIN imap[s] = 1..Len(ghashes[s])
        BY <2>1, RecordFacts DEF InsertInv, PlacedInv
      <3> QED
        BY <3>1
    <2> QED
      BY <2>1, <2>2 DEF PositionsHold, InsertInv, PlacedInv
  <1> QED
    BY <1>1, MergeInvariance, PTL

\* The records written are those of a sequential merge, for every input and interleaving
\* (TypeMerger::mergeTypesWithGHash).
THEOREM WinnersAreFirstHolds == Spec => []WinnersAreFirst
  BY MergeInvariance, PTL DEF MergeInv

----------------------------------------------------------------------------
(* The table is full only when it was capped *)

Distinct ==
  UNION {{ghashes[s][i + 1] : i \in {j \in 0..(Len(ghashes[s]) - 1) : Enters(s, j)}} : s \in Sources}

LEMMA DistinctBounded ==
  ASSUME SourceInv
  PROVE  /\ IsFiniteSet(Distinct)
         /\ Cardinality(Distinct) \in Nat
         /\ Cardinality(Distinct) <= Cardinality(RecordsOf(Sources))
  <1> DEFINE R == RecordsOf(Sources)
             D == {x \in R : Enters(x[1], x[2] - 1)}
             f == [x \in D |-> ghashes[x[1]][x[2]]]
  <1>1. IsFiniteSet(R) /\ Cardinality(R) \in Nat
    BY RecordsFinite
  <1>2. IsFiniteSet(D) /\ Cardinality(D) <= Cardinality(R) /\ Cardinality(D) \in Nat
    <2>1. D \subseteq R
      OBVIOUS
    <2> QED
      BY <2>1, <1>1, FS_Subset, FS_CardinalityType
  <1>3. \A s \in Sources : Len(ghashes[s]) \in Nat /\ DOMAIN ghashes[s] = 1..Len(ghashes[s])
    BY RecordFacts
  <1>4. ASSUME NEW x \in D PROVE f[x] \in Distinct
    <2>1. PICK s \in Sources : x \in {s} \X DOMAIN ghashes[s]
      BY DEF RecordsOf
    <2>2. x[1] = s /\ x[2] \in 1..Len(ghashes[s]) /\ Enters(s, x[2] - 1)
      BY <2>1, <1>3
    <2>3. x[2] - 1 \in 0..(Len(ghashes[s]) - 1) /\ (x[2] - 1) + 1 = x[2]
      BY <2>2, <1>3
    <2>4. f[x] = ghashes[s][(x[2] - 1) + 1]
      BY <2>2, <2>3
    <2> QED
      BY <2>2, <2>3, <2>4 DEF Distinct
  <1>5. ASSUME NEW h \in Distinct PROVE \E x \in D : f[x] = h
    <2>1. PICK s \in Sources : h \in {ghashes[s][i + 1] : i \in {j \in 0..(Len(ghashes[s]) - 1) : Enters(s, j)}}
      BY DEF Distinct
    <2>2. PICK i \in 0..(Len(ghashes[s]) - 1) : Enters(s, i) /\ h = ghashes[s][i + 1]
      BY <2>1
    <2>3. i + 1 \in 1..Len(ghashes[s]) /\ (i + 1) - 1 = i
      BY <1>3
    <2>4. <<s, i + 1>> \in R
      BY <2>3, RecordsFinite
    <2>5. <<s, i + 1>> \in D
      BY <2>2, <2>3, <2>4
    <2>6. f[<<s, i + 1>>] = h
      BY <2>2, <2>5
    <2> QED
      BY <2>5, <2>6
  <1> HIDE DEF R, D
  <1>6. f \in Surjection(D, Distinct)
    BY <1>4, <1>5 DEF Surjection
  <1> HIDE DEF f
  <1>7. IsFiniteSet(Distinct) /\ Cardinality(Distinct) <= Cardinality(D)
    BY <1>6, <1>2, FS_Surjection
  <1>8. Cardinality(Distinct) \in Nat
    BY <1>7, FS_CardinalityType
  <1>9. Cardinality(Distinct) <= Cardinality(R)
    BY <1>1, <1>2, <1>7, <1>8
  <1> QED
    BY <1>7, <1>8, <1>9 DEF R

\* insert dies of a full table only when the inputs have more distinct records than the
\* cap on the table: otherwise a cell is free for every hash, however the threads probe
\* (mergeTypesWithGHash, "Summing the input types guarantees this").
THEOREM FullOnlyWhenCapped == Spec => [](phase = "full" => Cardinality(Distinct) > MaxTable)
  <1>1. MergeInv => (phase = "full" => Cardinality(Distinct) > MaxTable)
    <2> SUFFICES ASSUME MergeInv, phase = "full" PROVE Cardinality(Distinct) > MaxTable
      OBVIOUS
    <2>1. SourceInv /\ InsertInv /\ FullInv
      BY DEF MergeInv
    <2>2. PICK s \in Sources : /\ Enters(s, work[s].i)
                               /\ \A q \in Slots : /\ table[q] # Empty
                                                   /\ GHash(table[q]) # ghashes[s][work[s].i + 1]
      BY <2>1 DEF FullInv
    <2> DEFINE h == ghashes[s][work[s].i + 1]
               others == Distinct \ {h}
               g == [q \in Slots |-> GHash(table[q])]
    <2>3. h \in Distinct
      BY <2>2 DEF Distinct, Enters
    <2>4. ASSUME NEW q \in Slots PROVE GHash(table[q]) \in others
      <3>1. PICK r \in Sources : \E i \in 0..(Len(ghashes[r]) - 1) :
              Enters(r, i) /\ table[q] = CellOf(r, i)
        BY <2>1, <2>2 DEF InsertInv, TableInv
      <3>2. PICK i \in 0..(Len(ghashes[r]) - 1) : Enters(r, i) /\ table[q] = CellOf(r, i)
        BY <3>1
      <3>3. GHash(table[q]) = ghashes[r][i + 1]
        BY <3>2, <2>1, RecordFacts
      <3>4. GHash(table[q]) \in Distinct
        BY <3>2, <3>3 DEF Distinct
      <3> QED
        BY <3>4, <2>2
    <2>5. \A p, q \in Slots : GHash(table[p]) = GHash(table[q]) => p = q
      BY <2>1, <2>2, OnePlace
    <2>6. g \in Injection(Slots, others)
      <3>1. g \in [Slots -> others]
        BY <2>4
      <3>2. \A p, q \in Slots : g[p] = g[q] => p = q
        BY <2>5
      <3> QED
        BY <3>1, <3>2, Zenon DEF Injection, IsInjective
    <2>7. IsFiniteSet(Distinct) /\ Cardinality(Distinct) \in Nat
          /\ Cardinality(Distinct) <= Cardinality(RecordsOf(Sources))
      BY <2>1, DistinctBounded
    <2>8. IsFiniteSet(others) /\ Cardinality(others) = Cardinality(Distinct) - 1
      BY <2>3, <2>7, FS_RemoveElement
    <2>9. Cardinality(Slots) <= Cardinality(others)
      <3> HIDE DEF g, others
      <3> QED
        BY <2>6, <2>8, FS_Injection
    <2>10. TableSize \in Nat
           /\ TableSize \in {MaxTable, Cardinality(RecordsOf(Sources))}
      BY <2>1, TableSizeFacts
    <2>11. Cardinality(Slots) = TableSize
      <3>1. 0 \in Int /\ TableSize - 1 \in Int
        BY <2>10
      <3>2. Cardinality(0..(TableSize - 1)) = IF 0 > TableSize - 1 THEN 0 ELSE TableSize - 1 - 0 + 1
        BY <3>1, FS_Interval
      <3> QED
        BY <3>2, <2>10 DEF Slots
    <2>12. MaxTable \in Nat /\ Cardinality(RecordsOf(Sources)) \in Nat
      BY <2>1, RecordsFinite, MaxTableAssumption
    <2> HIDE DEF others
    <2> QED
      BY <2>7, <2>8, <2>9, <2>10, <2>11, <2>12
  <1> QED
    BY <1>1, MergeInvariance, PTL
=============================================================================
