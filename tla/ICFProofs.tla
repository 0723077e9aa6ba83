------------------------------ MODULE ICFProofs ------------------------------
(***************************************************************************)
(* Garbage collection marks exactly what is reachable, and folding leaves  *)
(* nothing dangling and folds exactly what can be folded: for every graph  *)
(* of sections, every hash, every number of shards and every interleaving  *)
(* of them.                                                                *)
(***************************************************************************)
EXTENDS ICF, FiniteSetTheorems, SequenceTheorems, TLAPS

----------------------------------------------------------------------------
(* The invariant of marking *)

Injective(seq) == \A i, j \in DOMAIN seq : seq[i] = seq[j] => i = j

\* The sections that have been traversed
Traversed == (live \ NotTraversed) \ Range(worklist)

\* Everything live is waiting to be traversed or keeps nothing alive that is not live, it
\* has been reached, and the imports are those the traversed sections use.
MarkingInv ==
  /\ graph.doGC
  /\ worklist \in Seq(Sections)
  /\ Injective(worklist)
  /\ Range(worklist) \subseteq live \ NotTraversed
  /\ InitiallyLive \cup RootSections \subseteq live
  /\ \A s \in live \ Range(worklist) : KeepsAlive(s) \subseteq live
  /\ \A set \in SUBSET Sections : Closed(set) => live \subseteq set
  /\ liveImports = ImportsOf(Symbols(Traversed))
  /\ liveThunks = ThunksOf(Symbols(Traversed))

MarkInv ==
  /\ graph \in Graphs
  /\ live \subseteq Sections
  /\ phase = "roots" =>
       live = InitiallyLive /\ worklist = <<>> /\ liveImports = {} /\ liveThunks = {}
  /\ phase = "mark" => MarkingInv
  /\ LiveIsReachable

----------------------------------------------------------------------------
(* The invariant of folding *)

Rounds == {"constant", "variable", "merge"}

\* No section has been folded yet.
Unfolded == phase \notin {"merge", "done"} \/ (phase = "merge" /\ ~inRound)

\* The sections to be folded are listed once, and they are live until they are folded.
ChunksInv ==
  phase \in {"hash"} \cup Rounds =>
    /\ chunks \in Seq(Sections)
    /\ Injective(chunks)
    /\ Unfolded => Range(chunks) \subseteq live

\* Each shard has a class at its start, and no two overlap.
Separate(set, len) ==
  /\ set \subseteq Nat \X Nat \X Nat
  /\ \A r \in set : r[1] < r[2] /\ r[2] <= r[3] /\ r[3] <= len
  /\ \A r, q \in set : r # q => r[3] <= q[1] \/ q[3] <= r[1]

\* The unfinished shards are separate ranges of the list.
ShardsInv ==
  /\ inRound \in BOOLEAN
  /\ inRound => phase \in Rounds
  /\ ~inRound => shards = {}
  /\ Separate(shards, Len(chunks))

\* A section in an unfinished shard has neither been folded nor has another folded into it.
ReplInv ==
  /\ repl \in [Sections -> Sections]
  /\ Unfolded => \A s \in Sections : repl[s] = s
  /\ phase = "merge" => \A r \in shards : \A p \in r[1]..(r[3] - 1) :
       /\ At(p) \in live
       /\ \A s \in Sections : repl[s] = At(p) <=> s = At(p)

\* What a live section refers to is live where it has been folded into.
TargetsInv ==
  phase \notin {"roots", "mark"} /\ graph.doGC =>
    \A s \in live \ NotTraversed : \A t \in KeepsAlive(s) : repl[t] \in live

\* Classes are numbers.
ClassInv ==
  /\ cnt \in Nat
  /\ eqClass \in [0..1 -> [Sections -> Nat]]

FoldInv ==
  /\ phase \in {"roots", "mark", "icf", "hash", "done"} \cup Rounds
  /\ ChunksInv
  /\ ShardsInv
  /\ ReplInv
  /\ TargetsInv
  /\ ClassInv

IInv == MarkInv /\ FoldInv

----------------------------------------------------------------------------
(* Sorting *)

\* B[x] are the elements of S before x.
Orders(B, S) ==
  /\ \A x \in S : B[x] \subseteq S /\ x \notin B[x]
  /\ \A a, b \in S : a # b => a \in B[b] \/ b \in B[a]
  /\ \A a, b, c \in S : a \in B[b] /\ b \in B[c] => a \in B[c]

\* f[n] is an element with n - 1 before it, if there is one.
Ranks(f, B, S) ==
  \A n \in 1..Cardinality(S) : \A x \in S :
    Cardinality(B[x]) = n - 1 => f[n] \in S /\ Cardinality(B[f[n]]) = n - 1

\* f lists each element of S once.
Lists(f, S) ==
  /\ \A n \in 1..Cardinality(S) : f[n] \in S
  /\ \A m, n \in 1..Cardinality(S) : f[m] = f[n] => m = n
  /\ \A x \in S : \E n \in 1..Cardinality(S) : f[n] = x

\* Sorting a finite set by the number of elements before each lists the set.
LEMMA RankSeq ==
  ASSUME NEW S, IsFiniteSet(S), NEW B, Orders(B, S), NEW f, Ranks(f, B, S)
  PROVE  /\ Lists(f, S)
         /\ \A m, n \in 1..Cardinality(S) : m < n => f[m] \in B[f[n]]
  <1> USE DEF Orders, Ranks, Lists
  <1> DEFINE N == Cardinality(S)
             before(x) == B[x]
             rank(x) == Cardinality(before(x))
             g == [x \in S |-> rank(x) + 1]
  <1>1. N \in Nat
    BY FS_CardinalityType
  <1>2. \A x \in S : IsFiniteSet(before(x)) /\ rank(x) \in Nat
    <2> TAKE x \in S
    <2>1. before(x) \subseteq S
      OBVIOUS
    <2> QED
      BY <2>1, FS_Subset, FS_CardinalityType
  <1>3. \A x \in S : rank(x) < N
    <2> TAKE x \in S
    <2>1. before(x) \subseteq S /\ before(x) # S
      OBVIOUS
    <2>2. rank(x) <= N /\ rank(x) # N
      BY <2>1, FS_Subset
    <2> HIDE DEF rank, before, N
    <2> QED
      BY <2>2, <1>1, <1>2
  <1>4. ASSUME NEW a \in S, NEW b \in S, a \in B[b] PROVE rank(a) < rank(b)
    <2>1. before(a) \subseteq before(b) /\ a \in before(b) /\ a \notin before(a)
      BY <1>4
    <2>2. rank(a) <= rank(b) /\ (rank(a) = rank(b) => before(a) = before(b))
      BY <2>1, <1>2, FS_Subset
    <2>3. before(a) # before(b)
      BY <2>1
    <2> HIDE DEF rank, before
    <2> QED
      BY <2>2, <2>3, <1>2
  <1>5. \A a, b \in S : rank(a) = rank(b) => a = b
    <2> TAKE a, b \in S
    <2>1. a # b => rank(a) < rank(b) \/ rank(b) < rank(a)
      BY <1>4
    <2>2. rank(a) \in Nat /\ rank(b) \in Nat
      BY <1>2
    <2> HIDE DEF rank, before
    <2> QED
      BY <2>1, <2>2
  <1>6. g \in Injection(S, 1..N)
    <2> HIDE DEF rank, before, N
    <2>1. \A x \in S : rank(x) + 1 \in 1..N
      BY <1>1, <1>2, <1>3
    <2>2. g \in [S -> 1..N]
      BY <2>1
    <2>3. \A a, b \in S : g[a] = g[b] => a = b
      BY <1>2, <1>5
    <2> QED
      BY <2>2, <2>3, Zenon DEF Injection, IsInjective
  <1>7. IsFiniteSet(1..N) /\ Cardinality(1..N) = N
    <2>1. 1 \in Int /\ N \in Int
      BY <1>1
    <2>2. IsFiniteSet(1..N) /\ Cardinality(1..N) = IF 1 > N THEN 0 ELSE N - 1 + 1
      BY <2>1, FS_Interval
    <2> HIDE DEF N
    <2> QED
      BY <2>2, <1>1
  <1>8. g \in Surjection(S, 1..N)
    <2> HIDE DEF g
    <2> QED
      BY <1>6, <1>7, FS_Injection
  <1>9. \A n \in 1..N : \E x \in S : rank(x) = n - 1
    <2> TAKE n \in 1..N
    <2>1. PICK x \in S : g[x] = n
      BY <1>8 DEF Surjection
    <2> HIDE DEF rank, before, N
    <2>2. rank(x) + 1 = n /\ rank(x) \in Nat
      BY <2>1, <1>2
    <2> QED
      BY <2>2
  <1>10. \A n \in 1..N : f[n] \in S /\ rank(f[n]) = n - 1
    <2> TAKE n \in 1..N
    <2>1. PICK x \in S : rank(x) = n - 1
      BY <1>9
    <2> QED
      BY <2>1
  <1>11. \A m, n \in 1..N : f[m] = f[n] => m = n
    <2> HIDE DEF rank, before, N
    <2> TAKE m, n \in 1..N
    <2>1. rank(f[m]) = m - 1 /\ rank(f[n]) = n - 1
      BY <1>10, Zenon
    <2>2. m \in Int /\ n \in Int
      BY <1>1
    <2> QED
      BY <2>1, <2>2
  <1>12. \A x \in S : \E n \in 1..N : f[n] = x
    <2> HIDE DEF rank, before
    <2> TAKE x \in S
    <2>1. rank(x) + 1 \in 1..N /\ (rank(x) + 1) - 1 = rank(x)
      <3> HIDE DEF N
      <3> QED
        BY <1>1, <1>2, <1>3
    <2>2. f[rank(x) + 1] \in S /\ rank(f[rank(x) + 1]) = rank(x)
      BY <2>1, <1>10
    <2>3. f[rank(x) + 1] = x
      BY <2>2, <1>5
    <2> QED
      BY <2>1, <2>3
  <1>13. ASSUME NEW m \in 1..N, NEW n \in 1..N, m < n PROVE f[m] \in B[f[n]]
    <2> HIDE DEF rank, before, N
    <2>1. f[m] \in S /\ f[n] \in S /\ rank(f[m]) = m - 1 /\ rank(f[n]) = n - 1
      BY <1>10, Zenon
    <2>2. m \in Int /\ n \in Int
      BY <1>1
    <2>3. f[m] # f[n]
      BY <1>11, <1>13, <2>2
    <2>4. f[n] \in B[f[m]] => rank(f[n]) < rank(f[m])
      BY <1>4, <2>1
    <2>5. ~(rank(f[n]) < rank(f[m]))
      BY <1>13, <2>1, <2>2
    <2> QED
      BY <2>1, <2>3, <2>4, <2>5
  <1> QED
    BY <1>1, <1>10, <1>11, <1>12, <1>13

LEMMA AscendingFacts ==
  ASSUME NEW S, IsFiniteSet(S), S \subseteq Nat
  PROVE  /\ Cardinality(S) \in Nat
         /\ Ascending(S) \in [1..Cardinality(S) -> S]
         /\ Lists(Ascending(S), S)
         /\ \A m, n \in 1..Cardinality(S) : m < n => Ascending(S)[m] < Ascending(S)[n]
  <1> DEFINE B == [x \in S |-> {y \in S : y < x}]
             f == Ascending(S)
  <1>1. \A x \in S : B[x] = {y \in S : y < x}
    OBVIOUS
  <1>2. \A x \in S : B[x] \subseteq S /\ x \notin B[x]
    OBVIOUS
  <1>3. \A a, b \in S : a # b => a \in B[b] \/ b \in B[a]
    OBVIOUS
  <1>4. \A a, b, c \in S : a \in B[b] /\ b \in B[c] => a \in B[c]
    OBVIOUS
  <1>5. ASSUME NEW n \in 1..Cardinality(S), NEW x \in S, Cardinality(B[x]) = n - 1
        PROVE  f[n] \in S /\ Cardinality(B[f[n]]) = n - 1
    <2>1. f[n] = CHOOSE z \in S : Cardinality({y \in S : y < z}) = n - 1
      BY DEF Ascending
    <2>2. f[n] \in S /\ Cardinality({y \in S : y < f[n]}) = n - 1
      BY <1>5, <2>1
    <2> QED
      BY <2>2
  <1>6. f = [n \in 1..Cardinality(S) |-> f[n]]
    BY SMTT(30) DEF Ascending
  <1>7. Orders(B, S)
    <2> HIDE DEF B
    <2> QED
      BY <1>2, <1>3, <1>4 DEF Orders
  <1>8. Ranks(f, B, S)
    <2> HIDE DEF B, f
    <2> QED
      BY <1>5 DEF Ranks
  <1> HIDE DEF B, f
  <1>9. Lists(f, S) /\ \A m, n \in 1..Cardinality(S) : m < n => f[m] \in B[f[n]]
    BY <1>7, <1>8, RankSeq
  <1>10. f \in [1..Cardinality(S) -> S]
    BY <1>6, <1>9 DEF Lists
  <1>11. Cardinality(S) \in Nat
    BY FS_CardinalityType
  <1>12. \A m, n \in 1..Cardinality(S) : m < n => f[m] < f[n]
    BY <1>1, <1>9, <1>10
  <1> QED
    BY <1>9, <1>10, <1>11, <1>12 DEF f

----------------------------------------------------------------------------
(* Sequences *)

LEMMA LeastExists ==
  ASSUME NEW S \in SUBSET Nat, S # {}
  PROVE  \E x \in S : \A y \in S : x <= y
  <1> DEFINE R == OpToRel(<, Nat)
  <1>1. IsWellFoundedOn(R, Nat)
    BY NatLessThanWellFounded
  <1>2. \A x, y \in Nat : <<y, x>> \in R <=> y < x
    BY DEF OpToRel
  <1> HIDE DEF R
  <1>3. PICK x \in S : \A y \in S : ~(<<y, x>> \in R)
    BY <1>1, WFMin
  <1>4. \A y \in S : ~(y < x)
    BY <1>2, <1>3
  <1> QED
    BY <1>4

\* What a sequence is without its last element
LEMMA FrontFacts ==
  ASSUME NEW S, NEW s \in Seq(S), s # <<>>, Injective(s)
  PROVE  /\ Front(s) \in Seq(S)
         /\ Injective(Front(s))
         /\ Last(s) \in Range(s)
         /\ Last(s) \notin Range(Front(s))
         /\ Range(s) = Range(Front(s)) \cup {Last(s)}
  <1> DEFINE f == Front(s)
  <1>1. Len(s) \in Nat \ {0} /\ DOMAIN s = 1..Len(s)
    BY LenProperties, EmptySeq
  <1>2. \A i \in 1..(Len(s) - 1) : s[i] \in S
    BY <1>1, ElementOfSeq
  <1>3. /\ SubSeq(s, 1, Len(s) - 1) \in Seq(S)
        /\ Len(SubSeq(s, 1, Len(s) - 1)) = (IF 1 <= Len(s) - 1 THEN Len(s) - 1 - 1 + 1 ELSE 0)
        /\ \A i \in 1..(Len(s) - 1 - 1 + 1) : SubSeq(s, 1, Len(s) - 1)[i] = s[1 + i - 1]
    BY <1>1, <1>2, SubSeqProperties
  <1>4. f \in Seq(S) /\ Len(f) = Len(s) - 1 /\ \A i \in 1..(Len(s) - 1) : f[i] = s[i]
    BY <1>1, <1>3 DEF Front
  <1>5. DOMAIN f = 1..(Len(s) - 1)
    BY <1>4, LenProperties
  <1>6. Last(s) = s[Len(s)]
    BY DEF Last
  <1> HIDE DEF f
  <1>7. Injective(f)
    BY <1>1, <1>4, <1>5 DEF Injective
  <1>8. Last(s) \notin Range(f)
    BY <1>1, <1>4, <1>5, <1>6 DEF Injective, Range
  <1>9. Range(s) = Range(f) \cup {Last(s)}
    <2>1. ASSUME NEW x \in Range(s) PROVE x \in Range(f) \cup {Last(s)}
      <3>1. PICK i \in 1..Len(s) : x = s[i]
        BY <1>1 DEF Range
      <3>2. CASE i = Len(s)
        BY <3>1, <3>2, <1>6
      <3>3. CASE i # Len(s)
        <4>1. i \in 1..(Len(s) - 1)
          <5>1. PICK n \in Nat \ {0} : n = Len(s)
            BY <1>1
          <5>2. i \in 1..n /\ i # n
            BY <5>1, <3>3
          <5>3. i \in 1..(n - 1)
            BY <5>2
          <5> QED
            BY <5>1, <5>3
        <4> QED
          BY <4>1, <3>1, <1>4, <1>5 DEF Range
      <3> QED
        BY <3>2, <3>3
    <2>2. ASSUME NEW x \in Range(f) \cup {Last(s)} PROVE x \in Range(s)
      <3>1. CASE x = Last(s)
        BY <3>1, <1>1, <1>6 DEF Range
      <3>2. CASE x \in Range(f)
        <4>1. PICK i \in 1..(Len(s) - 1) : x = f[i]
          BY <3>2, <1>5 DEF Range
        <4>2. i \in 1..Len(s)
          BY <1>1
        <4> QED
          BY <4>1, <4>2, <1>1, <1>4 DEF Range
      <3> QED
        BY <2>2, <3>1, <3>2
    <2> QED
      BY <2>1, <2>2
  <1>10. Last(s) \in Range(s)
    BY <1>9
  <1> QED
    BY <1>4, <1>7, <1>8, <1>9, <1>10 DEF f

\* One sequence after another
LEMMA ConcatFacts ==
  ASSUME NEW S, NEW s \in Seq(S), NEW t \in Seq(S)
  PROVE  /\ s \o t \in Seq(S)
         /\ Range(s \o t) = Range(s) \cup Range(t)
         /\ Injective(s) /\ Injective(t) /\ Range(s) \cap Range(t) = {} => Injective(s \o t)
  <1> DEFINE u == s \o t
  <1>1. /\ Len(s) \in Nat /\ DOMAIN s = 1..Len(s)
        /\ Len(t) \in Nat /\ DOMAIN t = 1..Len(t)
    BY LenProperties
  <1>2. /\ u \in Seq(S)
        /\ Len(u) = Len(s) + Len(t)
        /\ \A i \in 1..(Len(s) + Len(t)) : u[i] = IF i <= Len(s) THEN s[i] ELSE t[i - Len(s)]
    BY ConcatProperties
  <1>3. DOMAIN u = 1..(Len(s) + Len(t))
    BY <1>2, LenProperties
  <1> HIDE DEF u
  <1>4. \A i \in 1..Len(s) : i \in DOMAIN u /\ u[i] = s[i]
    BY <1>1, <1>2, <1>3
  <1>5. \A i \in 1..Len(t) : Len(s) + i \in DOMAIN u /\ u[Len(s) + i] = t[i]
    <2> TAKE i \in 1..Len(t)
    <2>1. Len(s) + i \in 1..(Len(s) + Len(t)) /\ ~(Len(s) + i <= Len(s)) /\ (Len(s) + i) - Len(s) = i
      BY <1>1
    <2>2. u[Len(s) + i] = t[(Len(s) + i) - Len(s)]
      BY <2>1, <1>2
    <2> QED
      BY <2>1, <2>2, <1>3
  <1>6. \A k \in DOMAIN u : (k \in 1..Len(s)) \/ \E i \in 1..Len(t) : k = Len(s) + i
    <2> TAKE k \in DOMAIN u
    <2>1. k \in 1..(Len(s) + Len(t))
      BY <1>3
    <2>2. CASE k > Len(s)
      <3>1. k - Len(s) \in 1..Len(t) /\ k = Len(s) + (k - Len(s))
        BY <2>1, <2>2, <1>1
      <3> QED
        BY <3>1
    <2> QED
      BY <2>1, <2>2, <1>1
  <1>7. Range(u) = Range(s) \cup Range(t)
    BY <1>1, <1>4, <1>5, <1>6, SMTT(30) DEF Range
  <1>8. ASSUME Injective(s), Injective(t), Range(s) \cap Range(t) = {},
               NEW i \in DOMAIN u, NEW j \in DOMAIN u, u[i] = u[j]
        PROVE  i = j
    <2>1. CASE i \in 1..Len(s) /\ j \in 1..Len(s)
      BY <2>1, <1>1, <1>4, <1>8 DEF Injective
    <2>2. CASE \E a, b \in 1..Len(t) : i = Len(s) + a /\ j = Len(s) + b
      BY <2>2, <1>1, <1>5, <1>8 DEF Injective
    <2>3. CASE i \in 1..Len(s) /\ \E b \in 1..Len(t) : j = Len(s) + b
      BY <2>3, <1>1, <1>4, <1>5, <1>8 DEF Range
    <2>4. CASE j \in 1..Len(s) /\ \E a \in 1..Len(t) : i = Len(s) + a
      BY <2>4, <1>1, <1>4, <1>5, <1>8 DEF Range
    <2> QED
      BY <2>1, <2>2, <2>3, <2>4, <1>6
  <1> QED
    BY <1>2, <1>7, <1>8 DEF Injective, u

----------------------------------------------------------------------------
(* Marking *)

\* What enqueue pushes is what it marks, each section once.
LEMMA EnqueueFacts ==
  ASSUME NEW stack \in Seq(Sections), Injective(stack), Range(stack) \subseteq live,
         live \subseteq Sections, NEW T, NEW seq \in Seq(T), Enqueue(stack, seq)
  PROVE  /\ live' = live \cup (Range(seq) \cap Sections)
         /\ worklist' \in Seq(Sections)
         /\ Injective(worklist')
         /\ Range(worklist') = Range(stack) \cup (live' \ live)
  <1> DEFINE new == {i \in DOMAIN seq :
                seq[i] \in Sections \ live /\ \A j \in 1..(i - 1) : seq[j] # seq[i]}
             A == Ascending(new)
             pushed == [n \in 1..Cardinality(new) |-> seq[A[n]]]
  <1>1. worklist' = stack \o pushed /\ live' = live \cup {seq[i] : i \in new}
    BY DEF Enqueue
  <1>2. Len(seq) \in Nat /\ DOMAIN seq = 1..Len(seq)
    BY LenProperties
  <1>3. new \subseteq 1..Len(seq) /\ new \subseteq Nat
    BY <1>2
  <1>4. IsFiniteSet(new)
    <2>1. IsFiniteSet(1..Len(seq))
      BY <1>2, FS_Interval
    <2> QED
      BY <2>1, <1>3, FS_Subset
  <1>5. /\ Cardinality(new) \in Nat
        /\ A \in [1..Cardinality(new) -> new]
        /\ Lists(A, new)
    <2> HIDE DEF new
    <2> QED
      BY <1>3, <1>4, AscendingFacts
  <1>6. \A i \in new : seq[i] \in Sections \ live
    OBVIOUS
  <1>7. \A i, k \in new : seq[i] = seq[k] => i = k
    <2> TAKE i, k \in new
    <2>1. i \in Nat /\ k \in Nat /\ i >= 1 /\ k >= 1
      BY <1>2
    <2>2. i < k => seq[i] # seq[k]
      BY <2>1
    <2>3. k < i => seq[i] # seq[k]
      BY <2>1
    <2> QED
      BY <2>1, <2>2, <2>3
  <1>8. \A x \in Range(seq) : x \in Sections \ live => \E i \in new : seq[i] = x
    <2> TAKE x \in Range(seq)
    <2> HAVE x \in Sections \ live
    <2> DEFINE places == {i \in DOMAIN seq : seq[i] = x}
    <2>1. places # {} /\ places \in SUBSET Nat
      BY <1>2 DEF Range
    <2>2. PICK i \in places : \A j \in places : i <= j
      BY <2>1, LeastExists
    <2>3. \A j \in 1..(i - 1) : j \in DOMAIN seq /\ ~(i <= j)
      BY <1>2
    <2>4. \A j \in 1..(i - 1) : seq[j] # seq[i]
      BY <2>2, <2>3
    <2>5. i \in new
      BY <2>4
    <2> QED
      BY <2>5
  <1> HIDE DEF new, A
  <1>9. {seq[i] : i \in new} = (Range(seq) \cap Sections) \ live
    BY <1>2, <1>3, <1>6, <1>8 DEF Range
  <1>10. live' = live \cup (Range(seq) \cap Sections)
    BY <1>1, <1>9
  <1>11. pushed \in [1..Cardinality(new) -> Sections]
    BY <1>5, <1>6
  <1>12. pushed \in Seq(Sections)
    BY <1>5, <1>11, SeqDef
  <1>13. Injective(pushed)
    <2> SUFFICES ASSUME NEW m \in 1..Cardinality(new), NEW n \in 1..Cardinality(new),
                        seq[A[m]] = seq[A[n]]
                 PROVE  m = n
      BY DEF Injective
    <2>1. A[m] = A[n]
      BY <1>5, <1>7
    <2> QED
      BY <2>1, <1>5 DEF Lists
  <1>14. Range(pushed) = {seq[i] : i \in new}
    <2>1. \A n \in 1..Cardinality(new) : pushed[n] = seq[A[n]] /\ A[n] \in new
      BY <1>5
    <2>2. \A i \in new : \E n \in 1..Cardinality(new) : A[n] = i
      BY <1>5 DEF Lists
    <2>3. DOMAIN pushed = 1..Cardinality(new)
      OBVIOUS
    <2> HIDE DEF pushed
    <2> QED
      BY <2>1, <2>2, <2>3 DEF Range
  <1> HIDE DEF pushed
  <1>15. Range(stack) \cap Range(pushed) = {}
    BY <1>9, <1>14
  <1>16. /\ stack \o pushed \in Seq(Sections)
         /\ Range(stack \o pushed) = Range(stack) \cup Range(pushed)
         /\ Injective(stack \o pushed)
    BY <1>12, <1>13, <1>15, ConcatFacts
  <1>17. live' \ live = Range(pushed)
    BY <1>9, <1>10, <1>14
  <1> QED
    BY <1>1, <1>10, <1>16, <1>17

\* What depends on the graph alone does not change.
LEMMA GraphFixed ==
  ASSUME graph' = graph
  PROVE  /\ InitiallyLive' = InitiallyLive
         /\ NotTraversed' = NotTraversed
         /\ RootSections' = RootSections
         /\ \A s : KeepsAlive(s)' = KeepsAlive(s)
         /\ \A set : Closed(set)' <=> Closed(set)
         /\ \A set : Symbols(set)' = Symbols(set)
  <1>1. \A kinds : Are(kinds)' = Are(kinds)
    BY DEF Are
  <1>2. InitiallyLive' = InitiallyLive
    BY <1>1 DEF InitiallyLive
  <1>3. NotTraversed' = NotTraversed
    BY <1>1, <1>2 DEF NotTraversed
  <1>4. \A x : SectionOf(x)' = SectionOf(x)
    BY DEF SectionOf
  <1>5. RootSections' = RootSections
    BY <1>4 DEF RootSections
  <1>6. \A s : KeepsAlive(s)' = KeepsAlive(s)
    BY <1>3, <1>4 DEF KeepsAlive
  <1>7. \A set : Closed(set)' <=> Closed(set)
    BY <1>2, <1>5, <1>6 DEF Closed
  <1>8. \A set : Symbols(set)' = Symbols(set)
    BY DEF Symbols
  <1> QED
    BY <1>2, <1>3, <1>5, <1>6, <1>7, <1>8

\* addSym on a list of symbols, and enqueue on a list of sections
LEMMA AddFacts ==
  ASSUME NEW stack \in Seq(Sections), Injective(stack), Range(stack) \subseteq live,
         live \subseteq Sections, NEW syms \in Seq(Symbol), NEW T, NEW others \in Seq(T),
         Add(stack, syms, others)
  PROVE  /\ live' = live \cup (({SectionOf(x) : x \in Range(syms)} \cup Range(others))
                                 \cap Sections)
         /\ worklist' \in Seq(Sections)
         /\ Injective(worklist')
         /\ Range(worklist') = Range(stack) \cup (live' \ live)
         /\ liveImports' = liveImports \cup ImportsOf(Range(syms))
         /\ liveThunks' = liveThunks \cup ThunksOf(Range(syms))
  <1> DEFINE V == {SectionOf(x) : x \in Range(syms)} \cup Range(others)
             first == [i \in DOMAIN syms |-> SectionOf(syms[i])]
  <1>1. /\ Enqueue(stack, first \o others)
        /\ liveImports' = liveImports \cup ImportsOf(Range(syms))
        /\ liveThunks' = liveThunks \cup ThunksOf(Range(syms))
    BY DEF Add
  <1>2. Len(syms) \in Nat /\ DOMAIN syms = 1..Len(syms)
    BY LenProperties
  <1>3. first \in [1..Len(syms) -> V]
    BY <1>2 DEF Range
  <1>4. first \in Seq(V)
    <2> HIDE DEF first
    <2> QED
      BY <1>2, <1>3, SeqDef
  <1>5. Range(first) = {SectionOf(x) : x \in Range(syms)}
    BY DEF Range
  <1>6. others \in Seq(V)
    <2>1. Len(others) \in Nat /\ others \in [1..Len(others) -> T]
      BY LenProperties
    <2>2. others \in [1..Len(others) -> V]
      BY <2>1 DEF Range
    <2> HIDE DEF V
    <2> QED
      BY <2>1, <2>2, SeqDef
  <1> HIDE DEF first
  <1>7. first \o others \in Seq(V) /\ Range(first \o others) = V
    <2>1. first \o others \in Seq(V) /\ Range(first \o others) = Range(first) \cup Range(others)
      <3> HIDE DEF V
      <3> QED
        BY <1>4, <1>6, ConcatFacts
    <2> QED
      BY <2>1, <1>5
  <1>8. /\ live' = live \cup (Range(first \o others) \cap Sections)
        /\ worklist' \in Seq(Sections)
        /\ Injective(worklist')
        /\ Range(worklist') = Range(stack) \cup (live' \ live)
    <2> HIDE DEF V
    <2> QED
      BY <1>1, <1>7, EnqueueFacts
  <1> QED
    BY <1>1, <1>7, <1>8

LEMMA AddRootsInv ==
  ASSUME MarkInv, AddRoots
  PROVE  MarkInv'
  <1> DEFINE start == (live \cap Are(Listed)) \ Are(Dwarf)
  <1>1. /\ graph \in Graphs /\ graph.doGC /\ graph' = graph
        /\ phase' = "mark"
        /\ live = InitiallyLive /\ liveImports = {} /\ liveThunks = {}
        /\ live \subseteq Sections
        /\ Add(Ascending(start), graph.roots, <<>>)
    BY DEF MarkInv, AddRoots
  <1>2. graph.roots \in Seq(Symbol) /\ graph.kind \in [Sections -> Kinds]
    BY <1>1, GraphsAssumption
  <1>3. start = live \ NotTraversed
    <2>1. live = Sections \ Are(Comdat)
      BY <1>1 DEF InitiallyLive
    <2>2. \A s \in live : s \in Are(Listed) \/ s \in Are({"plain metadata"})
      BY <2>1, <1>2 DEF Are, Kinds, Listed, Unlisted, Comdat, Dwarf
    <2>3. Are(Listed) \cap Are({"plain metadata"}) = {}
      BY DEF Are, Listed, Unlisted
    <2>4. Are(Dwarf \cup {"plain metadata"}) = Are(Dwarf) \cup Are({"plain metadata"})
      BY DEF Are
    <2> QED
      BY <2>2, <2>3, <2>4, <1>1 DEF NotTraversed
  <1> HIDE DEF start
  <1>4. IsFiniteSet(start) /\ start \subseteq Nat /\ start \subseteq Sections
    BY <1>1, <1>3, SectionsAssumption, FS_Subset
  <1>5. PICK stack : stack = Ascending(start)
    OBVIOUS
  <1>6. stack \in Seq(Sections) /\ Injective(stack) /\ Range(stack) = start
    <2>1. PICK n \in Nat : n = Cardinality(start)
      BY <1>4, FS_CardinalityType
    <2>2. stack \in [1..n -> start] /\ Lists(stack, start)
      BY <1>4, <1>5, <2>1, AscendingFacts
    <2>3. stack \in [1..n -> Sections]
      BY <2>2, <1>4
    <2>4. stack \in Seq(Sections)
      BY <2>3, SeqDef
    <2>5. DOMAIN stack = 1..n
      BY <2>2
    <2>6. Injective(stack)
      BY <2>1, <2>2, <2>5 DEF Injective, Lists
    <2>7. Range(stack) = start
      BY <2>1, <2>2, <2>5 DEF Range, Lists
    <2> QED
      BY <2>4, <2>6, <2>7
  <1>7. <<>> \in Seq(Sections) /\ Range(<<>>) = {}
    BY DEF Range
  <1>8. /\ live' = live \cup (({SectionOf(x) : x \in Range(graph.roots)} \cup Range(<<>>))
                                 \cap Sections)
        /\ worklist' \in Seq(Sections)
        /\ Injective(worklist')
        /\ Range(worklist') = Range(stack) \cup (live' \ live)
        /\ liveImports' = liveImports \cup ImportsOf(Range(graph.roots))
        /\ liveThunks' = liveThunks \cup ThunksOf(Range(graph.roots))
    <2>1. Range(stack) \subseteq live
      BY <1>3, <1>6
    <2>2. Add(stack, graph.roots, <<>>)
      BY <1>1, <1>5
    <2> QED
      BY <2>1, <2>2, <1>1, <1>2, <1>6, <1>7, AddFacts
  <1>9. live' = live \cup RootSections
    BY <1>7, <1>8 DEF RootSections
  <1>10. /\ InitiallyLive' = InitiallyLive
         /\ NotTraversed' = NotTraversed
         /\ RootSections' = RootSections
         /\ \A s : KeepsAlive(s)' = KeepsAlive(s)
         /\ \A set : Closed(set)' <=> Closed(set)
         /\ \A set : Symbols(set)' = Symbols(set)
    BY <1>1, GraphFixed
  <1>11. NotTraversed \subseteq live
    BY <1>1 DEF NotTraversed
  <1>12. Range(worklist') = live' \ NotTraversed
    BY <1>3, <1>6, <1>8, <1>9, <1>11
  <1>13. \A s \in live' \ Range(worklist') : KeepsAlive(s) \subseteq live'
    BY <1>12 DEF KeepsAlive
  <1>14. \A set \in SUBSET Sections : Closed(set) => live' \subseteq set
    BY <1>1, <1>9 DEF Closed
  <1>15. Traversed' = {}
    BY <1>10, <1>12 DEF Traversed
  <1>16. Symbols({}) = Range(graph.roots)
    BY DEF Symbols
  <1>17. /\ liveImports' = ImportsOf(Symbols(Traversed'))
         /\ liveThunks' = ThunksOf(Symbols(Traversed'))
    BY <1>1, <1>8, <1>15, <1>16
  <1>18. MarkingInv'
    <2>1. graph.doGC'
      BY <1>1
    <2>2. (InitiallyLive \cup RootSections \subseteq live)'
      BY <1>1, <1>9, <1>10
    <2>3. (Range(worklist) \subseteq live \ NotTraversed)'
      BY <1>10, <1>12
    <2>4. (\A s \in live \ Range(worklist) : KeepsAlive(s) \subseteq live)'
      BY <1>10, <1>13
    <2>5. (\A set \in SUBSET Sections : Closed(set) => live \subseteq set)'
      BY <1>10, <1>14
    <2>6. (liveImports = ImportsOf(Symbols(Traversed)))' /\ (liveThunks = ThunksOf(Symbols(Traversed)))'
      BY <1>10, <1>17 DEF ImportsOf, ThunksOf
    <2> QED
      BY <1>8, <2>1, <2>2, <2>3, <2>4, <2>5, <2>6 DEF MarkingInv
  <1>19. live' \subseteq Sections
    BY <1>1, <1>9 DEF RootSections
  <1> QED
    BY <1>1, <1>18, <1>19 DEF MarkInv, LiveIsReachable

LEMMA MarkNextInv ==
  ASSUME MarkInv, MarkNext
  PROVE  MarkInv'
  <1> DEFINE keeps(sc) == Append(graph.children[sc], graph.entryThunk[sc])
  <1>1. /\ graph \in Graphs /\ graph.doGC /\ graph' = graph
        /\ phase' = "mark"
        /\ live \subseteq Sections
        /\ MarkingInv /\ worklist # <<>>
    BY DEF MarkInv, MarkNext, MarkingInv
  <1>2. PICK sc : sc = Last(worklist)
    OBVIOUS
  <1>3. PICK stack : stack = Front(worklist)
    OBVIOUS
  <1>4. Add(stack, graph.relocs[sc], keeps(sc))
    BY <1>2, <1>3 DEF MarkNext
  <1>5. /\ stack \in Seq(Sections) /\ Injective(stack)
        /\ sc \in Range(worklist) /\ sc \notin Range(stack)
        /\ Range(worklist) = Range(stack) \cup {sc}
    BY <1>1, <1>2, <1>3, FrontFacts DEF MarkingInv
  <1>6. sc \in live /\ sc \in Sections /\ sc \notin NotTraversed /\ Range(stack) \subseteq live
    BY <1>1, <1>5 DEF MarkingInv
  <1>7. graph.relocs[sc] \in Seq(Symbol) /\ graph.children[sc] \in Seq(Sections)
    BY <1>1, <1>6, GraphsAssumption
  <1>8. /\ keeps(sc) \in Seq(Sections \cup {graph.entryThunk[sc]})
        /\ Range(keeps(sc)) = Range(graph.children[sc]) \cup {graph.entryThunk[sc]}
    <2> DEFINE c == graph.children[sc]
               e == graph.entryThunk[sc]
               U == Sections \cup {e}
    <2> HIDE DEF e
    <2>1. Len(c) \in Nat /\ DOMAIN c = 1..Len(c) /\ c \in [1..Len(c) -> Sections]
      BY <1>7, LenProperties
    <2>2. c \in [1..Len(c) -> U]
      BY <2>1
    <2>3. c \in Seq(U)
      <3> HIDE DEF U, c
      <3> QED
        BY <2>1, <2>2, SeqDef
    <2>4. e \in U
      OBVIOUS
    <2> HIDE DEF U, c
    <2>5. /\ Append(c, e) \in Seq(U)
          /\ Len(Append(c, e)) = Len(c) + 1
          /\ \A i \in 1..Len(c) : Append(c, e)[i] = c[i]
          /\ Append(c, e)[Len(c) + 1] = e
      BY <2>3, <2>4, AppendProperties
    <2>6. DOMAIN Append(c, e) = 1..(Len(c) + 1)
      BY <2>5, LenProperties
    <2>7. PICK n \in Nat : n = Len(c)
      BY <2>1
    <2>8. Range(Append(c, e)) = Range(c) \cup {e}
      <3>1. \A x \in Range(Append(c, e)) : x \in Range(c) \cup {e}
        <4> TAKE x \in Range(Append(c, e))
        <4>1. PICK i \in 1..(n + 1) : x = Append(c, e)[i]
          BY <2>6, <2>7 DEF Range
        <4>2. i \in 1..n \/ i = n + 1
          BY <4>1
        <4> QED
          BY <4>1, <4>2, <2>1, <2>5, <2>7 DEF Range
      <3>2. \A i \in 1..n : i \in 1..(n + 1)
        OBVIOUS
      <3>3. n + 1 \in 1..(n + 1)
        OBVIOUS
      <3>4. Range(c) \cup {e} \subseteq Range(Append(c, e))
        BY <3>2, <3>3, <2>1, <2>5, <2>6, <2>7 DEF Range
      <3> QED
        BY <3>1, <3>4
    <2> QED
      BY <2>5, <2>8 DEF U, c, e
  <1> HIDE DEF keeps
  <1>9. /\ live' = live \cup (({SectionOf(x) : x \in Range(graph.relocs[sc])} \cup Range(keeps(sc)))
                                 \cap Sections)
        /\ worklist' \in Seq(Sections)
        /\ Injective(worklist')
        /\ Range(worklist') = Range(stack) \cup (live' \ live)
        /\ liveImports' = liveImports \cup ImportsOf(Range(graph.relocs[sc]))
        /\ liveThunks' = liveThunks \cup ThunksOf(Range(graph.relocs[sc]))
    BY <1>1, <1>4, <1>5, <1>6, <1>7, <1>8, AddFacts
  <1>10. live' = live \cup KeepsAlive(sc)
    BY <1>6, <1>8, <1>9 DEF KeepsAlive
  <1>11. /\ InitiallyLive' = InitiallyLive
         /\ NotTraversed' = NotTraversed
         /\ RootSections' = RootSections
         /\ \A s : KeepsAlive(s)' = KeepsAlive(s)
         /\ \A set : Closed(set)' <=> Closed(set)
         /\ \A set : Symbols(set)' = Symbols(set)
    BY <1>1, GraphFixed
  <1>12. NotTraversed \subseteq live
    BY <1>1 DEF MarkingInv, NotTraversed
  <1>13. Range(worklist') \subseteq live' \ NotTraversed
    BY <1>1, <1>5, <1>9, <1>10, <1>12 DEF MarkingInv
  <1>14. live' \ Range(worklist') = (live \ Range(worklist)) \cup {sc}
    BY <1>5, <1>6, <1>9, <1>10
  <1>15. \A s \in live' \ Range(worklist') : KeepsAlive(s) \subseteq live'
    BY <1>1, <1>10, <1>14 DEF MarkingInv
  <1>16. \A set \in SUBSET Sections : Closed(set) => live' \subseteq set
    BY <1>1, <1>6, <1>10 DEF MarkingInv, Closed
  <1>17. Traversed' = Traversed \cup {sc}
    BY <1>6, <1>11, <1>14 DEF Traversed
  <1>18. Symbols(Traversed \cup {sc}) = Symbols(Traversed) \cup Range(graph.relocs[sc])
    BY DEF Symbols
  <1>19. /\ liveImports' = ImportsOf(Symbols(Traversed \cup {sc}))
         /\ liveThunks' = ThunksOf(Symbols(Traversed \cup {sc}))
    BY <1>1, <1>9, <1>18 DEF MarkingInv, ImportsOf, ThunksOf
  <1>20. MarkingInv'
    <2>1. graph.doGC'
      BY <1>1
    <2>2. (InitiallyLive \cup RootSections \subseteq live)'
      BY <1>1, <1>10, <1>11 DEF MarkingInv
    <2>3. (Range(worklist) \subseteq live \ NotTraversed)'
      BY <1>11, <1>13
    <2>4. (\A s \in live \ Range(worklist) : KeepsAlive(s) \subseteq live)'
      BY <1>11, <1>15
    <2>5. (\A set \in SUBSET Sections : Closed(set) => live \subseteq set)'
      BY <1>11, <1>16
    <2>6. (liveImports = ImportsOf(Symbols(Traversed)))' /\ (liveThunks = ThunksOf(Symbols(Traversed)))'
      BY <1>11, <1>17, <1>19 DEF ImportsOf, ThunksOf
    <2> QED
      BY <1>9, <2>1, <2>2, <2>3, <2>4, <2>5, <2>6 DEF MarkingInv
  <1>21. live' \subseteq Sections
    BY <1>1, <1>10 DEF KeepsAlive
  <1> QED
    BY <1>1, <1>20, <1>21 DEF MarkInv, LiveIsReachable

LEMMA MarkedInv ==
  ASSUME MarkInv, Marked \/ SkipMark
  PROVE  MarkInv'
  <1>1. /\ graph' = graph /\ live' = live /\ phase' = "icf"
        /\ liveImports' = liveImports /\ liveThunks' = liveThunks
    BY DEF Marked, SkipMark, markVars
  <1>2. /\ InitiallyLive' = InitiallyLive
        /\ NotTraversed' = NotTraversed
        /\ \A s : KeepsAlive(s)' = KeepsAlive(s)
        /\ \A set : Closed(set)' <=> Closed(set)
        /\ \A set : Symbols(set)' = Symbols(set)
    BY <1>1, GraphFixed
  <1>3. CASE SkipMark
    BY <1>1, <1>3 DEF MarkInv, SkipMark, LiveIsReachable, InitiallyLive
  <1>4. CASE Marked
    <2>1. MarkingInv /\ worklist = <<>> /\ live \subseteq Sections /\ graph \in Graphs
      BY <1>4 DEF Marked, MarkInv
    <2>2. Range(worklist) = {}
      BY <2>1 DEF Range
    <2>3. Closed(live)
      BY <2>1, <2>2 DEF MarkingInv, Closed
    <2>4. \A set \in SUBSET live : Closed(set) => set = live
      BY <2>1 DEF MarkingInv
    <2>5. Traversed = live \ NotTraversed
      BY <2>2 DEF Traversed
    <2>6. /\ liveImports = ImportsOf(Symbols(live \ NotTraversed))
          /\ liveThunks = ThunksOf(Symbols(live \ NotTraversed))
      BY <2>1, <2>5 DEF MarkingInv
    <2>7. Closed(live)'
      <3>1. PICK set : set = live
        OBVIOUS
      <3>2. Closed(set)'
        BY <3>1, <2>3, <1>2
      <3> QED
        BY <3>1, <3>2, <1>1 DEF Closed
    <2>8. (\A set \in SUBSET live : Closed(set) => set = live)'
      BY <2>4, <1>1, <1>2
    <2>9. (LET used == Symbols(live \ NotTraversed)
           IN liveImports = ImportsOf(used) /\ liveThunks = ThunksOf(used))'
      BY <2>6, <1>1, <1>2 DEF Symbols, ImportsOf, ThunksOf
    <2>10. graph.doGC'
      BY <2>1, <1>1 DEF MarkingInv
    <2>11. LiveIsReachable'
      BY <2>7, <2>8, <2>9, <2>10 DEF LiveIsReachable
    <2> QED
      BY <2>1, <2>11, <1>1 DEF MarkInv
  <1> QED
    BY <1>3, <1>4

----------------------------------------------------------------------------
(* Classes *)

\* The running sums of what g gives, from a
Sums(f, g, a, N) == f = [i \in 0..N |-> IF i = 0 THEN a ELSE f[i - 1] + g[i]]

LEMMA SumsExist ==
  ASSUME NEW N \in Nat, NEW a \in Nat, NEW g \in [1..N -> Nat]
  PROVE  \E f : Sums(f, g, a, N)
  <1> DEFINE good(n) == \E f : Sums(f, g, a, n) /\ f \in [0..n -> Nat]
             bad == {n \in 0..N : ~good(n)}
  <1>1. good(0)
    <2> DEFINE f == [i \in 0..0 |-> a]
    <2>1. Sums(f, g, a, 0) /\ f \in [0..0 -> Nat]
      BY DEF Sums
    <2> QED
      BY <2>1
  <1>2. ASSUME NEW n \in 1..N, good(n - 1) PROVE good(n)
    <2>1. PICK f : Sums(f, g, a, n - 1) /\ f \in [0..(n - 1) -> Nat]
      BY <1>2
    <2> DEFINE h == [i \in 0..n |-> IF i = n THEN f[n - 1] + g[n] ELSE f[i]]
    <2>2. f[n - 1] \in Nat /\ g[n] \in Nat
      BY <2>1
    <2>3. h \in [0..n -> Nat]
      BY <2>1, <2>2
    <2>4. \A i \in 0..n : h[i] = IF i = 0 THEN a ELSE h[i - 1] + g[i]
      <3> TAKE i \in 0..n
      <3>1. CASE i = n
        BY <3>1
      <3>2. CASE i # n
        BY <3>2, <2>1, SMTT(30) DEF Sums
      <3> QED
        BY <3>1, <3>2
    <2>5. DOMAIN h = 0..n
      OBVIOUS
    <2>6. Sums(h, g, a, n)
      <3> HIDE DEF h
      <3> QED
        BY <2>3, <2>4 DEF Sums
    <2> QED
      BY <2>3, <2>6
  <1> HIDE DEF good
  <1>3. bad = {}
    <2> SUFFICES ASSUME bad # {} PROVE FALSE
      OBVIOUS
    <2>1. PICK n \in bad : \A m \in bad : n <= m
      <3>1. bad \in SUBSET Nat
        OBVIOUS
      <3> HIDE DEF bad
      <3> QED
        BY <3>1, LeastExists
    <2>2. n # 0
      BY <1>1
    <2>3. n \in 1..N /\ n - 1 \in 0..N /\ ~(n <= n - 1)
      BY <2>2
    <2>4. good(n - 1)
      BY <2>1, <2>3
    <2> QED
      BY <1>2, <2>3, <2>4
  <1>4. good(N)
    BY <1>3
  <1> QED
    BY <1>4 DEF good

LEMMA SumsType ==
  ASSUME NEW N \in Nat, NEW a \in Nat, NEW g \in [1..N -> Nat], NEW f, Sums(f, g, a, N)
  PROVE  f[N] \in Nat
  <1> DEFINE bad == {n \in 0..N : f[n] \notin Nat}
  <1>1. \A i \in 0..N : f[i] = IF i = 0 THEN a ELSE f[i - 1] + g[i]
    BY DEF Sums
  <1>2. bad = {}
    <2> SUFFICES ASSUME bad # {} PROVE FALSE
      OBVIOUS
    <2>1. bad \in SUBSET Nat
      OBVIOUS
    <2>2. PICK n \in bad : \A m \in bad : n <= m
      <3> HIDE DEF bad
      <3> QED
        BY <2>1, LeastExists
    <2>3. n # 0
      BY <1>1
    <2>4. n \in 1..N /\ n - 1 \in 0..N /\ ~(n <= n - 1)
      BY <2>3
    <2>5. f[n - 1] \in Nat /\ g[n] \in Nat
      BY <2>2, <2>4
    <2>6. f[n] = f[n - 1] + g[n]
      BY <1>1, <2>3, <2>4
    <2> QED
      BY <2>5, <2>6
  <1> QED
    BY <1>2

\* What the relocations of a section add to its class
Added(n, x) == IF x.to = "section" THEN Half(n)[x.at] ELSE 0
AddedTo(n, s) == [i \in 1..Len(graph.relocs[s]) |-> Added(n, graph.relocs[s][i])]

\* The class of a section that is folded comes from the sum of those it refers to.
LEMMA CombinedSums ==
  ASSUME graph \in Graphs, NEW n \in 0..1, NEW s \in Sections,
         eqClass \in [0..1 -> [Sections -> Nat]], NEW N, N = Len(graph.relocs[s])
  PROVE  \E f : /\ Sums(f, AddedTo(n, s), Half(n)[s], N) /\ f[N] \in Nat
                /\ Combined(n, s) = IF s \in Range(chunks) THEN (f[N] % MSB) + MSB
                                                            ELSE Half(n + 1)[s]
  <1>1. PICK rel : rel = graph.relocs[s]
    OBVIOUS
  <1>2. PICK g : g = AddedTo(n, s)
    OBVIOUS
  <1>3. N = Len(rel) /\ g = [i \in 1..N |-> Added(n, rel[i])]
    BY <1>1, <1>2 DEF AddedTo
  <1> DEFINE sum == CHOOSE f : f = [i \in 0..N |->
                      IF i = 0 THEN Half(n)[s] ELSE f[i - 1] + Added(n, rel[i])]
  <1>4. Combined(n, s) = IF s \in Range(chunks) THEN (sum[N] % MSB) + MSB ELSE Half(n + 1)[s]
    BY <1>1 DEF Combined, Added
  <1>5. Half(n) \in [Sections -> Nat]
    BY DEF Half
  <1>6. rel \in Seq(Symbol) /\ N \in Nat
    BY <1>1, <1>3, GraphsAssumption, LenProperties
  <1>7. \A i \in 1..N : Added(n, rel[i]) \in Nat
    <2> TAKE i \in 1..N
    <2>1. rel[i] \in Symbol
      BY <1>6, <1>3, ElementOfSeq
    <2>2. rel[i].to = "section" => rel[i].at \in Sections
      <3>1. CASE rel[i] \in [to : {"section"}, at : Sections, value : Nat]
        BY <3>1
      <3>2. CASE rel[i] \in [to : {"import data", "import thunk"}, at : Imports, value : {0}]
        BY <3>2
      <3>3. CASE rel[i] = Nowhere
        BY <3>3 DEF Nowhere
      <3> QED
        BY <2>1, <3>1, <3>2, <3>3 DEF Symbol
    <2> QED
      BY <2>2, <1>5 DEF Added
  <1>8. g \in [1..N -> Nat]
    BY <1>7, <1>3
  <1>9. Half(n)[s] \in Nat
    BY <1>5
  <1>10. \A f : Sums(f, g, Half(n)[s], N) <=>
                 f = [i \in 0..N |-> IF i = 0 THEN Half(n)[s] ELSE f[i - 1] + Added(n, rel[i])]
    <2> TAKE f
    <2>1. \A i \in 0..N : i # 0 => g[i] = Added(n, rel[i])
      BY <1>6, <1>3
    <2>2. [i \in 0..N |-> IF i = 0 THEN Half(n)[s] ELSE f[i - 1] + Added(n, rel[i])]
            = [i \in 0..N |-> IF i = 0 THEN Half(n)[s] ELSE f[i - 1] + g[i]]
      BY <2>1
    <2> QED
      BY <2>2 DEF Sums
  <1>11. PICK f : Sums(f, g, Half(n)[s], N)
    BY <1>6, <1>8, <1>9, SumsExist
  <1>12. Sums(sum, g, Half(n)[s], N)
    BY <1>10, <1>11
  <1> HIDE DEF sum
  <1>13. sum[N] \in Nat
    BY <1>6, <1>8, <1>9, <1>12, SumsType
  <1> QED
    BY <1>4, <1>12, <1>13, <1>2

LEMMA CombinedType ==
  ASSUME graph \in Graphs, NEW n \in 0..1, NEW s \in Sections,
         eqClass \in [0..1 -> [Sections -> Nat]]
  PROVE  Combined(n, s) \in Nat
  <1>1. PICK f : /\ f[Len(graph.relocs[s])] \in Nat
                 /\ Combined(n, s) = IF s \in Range(chunks)
                                       THEN (f[Len(graph.relocs[s])] % MSB) + MSB
                                       ELSE Half(n + 1)[s]
    BY CombinedSums
  <1>2. (f[Len(graph.relocs[s])] % MSB) + MSB \in Nat
    BY <1>1, MsbAssumption
  <1>3. Half(n + 1)[s] \in Nat
    BY DEF Half
  <1> QED
    BY <1>1, <1>2, <1>3

----------------------------------------------------------------------------
(* Shards *)

\* A class ends after it begins, and its sections are of one class.
LEMMA FindBoundaryFacts ==
  ASSUME NEW begin \in Nat, NEW end \in Nat, begin < end
  PROVE  /\ FindBoundary(begin, end) \in (begin + 1)..end
         /\ \A i \in begin..(FindBoundary(begin, end) - 1) : SameClass(At(begin), At(i))
         /\ FindBoundary(begin, end) # end =>
              ~SameClass(At(begin), At(FindBoundary(begin, end)))
  <1> DEFINE other == {i \in (begin + 1)..(end - 1) : ~SameClass(At(begin), At(i))}
  <1>1. FindBoundary(begin, end) =
          IF other = {} THEN end ELSE CHOOSE i \in other : \A j \in other : i <= j
    BY DEF FindBoundary
  <1>2. SameClass(At(begin), At(begin))
    BY DEF SameClass
  <1>3. other \in SUBSET Nat
    OBVIOUS
  <1>4. CASE other = {}
    <2>1. \A i \in begin..(end - 1) : i = begin \/ i \in (begin + 1)..(end - 1)
      OBVIOUS
    <2>2. \A i \in begin..(end - 1) : SameClass(At(begin), At(i))
      BY <2>1, <1>2, <1>4
    <2>3. end \in (begin + 1)..end
      OBVIOUS
    <2> QED
      BY <1>1, <1>4, <2>2, <2>3
  <1>5. CASE other # {}
    <2> DEFINE b == CHOOSE i \in other : \A j \in other : i <= j
    <2>1. \E i \in other : \A j \in other : i <= j
      <3> HIDE DEF other
      <3> QED
        BY <1>3, <1>5, LeastExists
    <2>2. b \in other /\ \A j \in other : b <= j
      BY <2>1
    <2> HIDE DEF b
    <2>3. b \in (begin + 1)..(end - 1) /\ ~SameClass(At(begin), At(b))
      BY <2>2
    <2>4. \A i \in begin..(b - 1) : i = begin \/ (i \in (begin + 1)..(end - 1) /\ ~(b <= i))
      BY <2>3
    <2>5. \A i \in begin..(b - 1) : SameClass(At(begin), At(i))
      BY <2>2, <2>4, <1>2
    <2>6. b \in (begin + 1)..end
      BY <2>3
    <2>7. FindBoundary(begin, end) = b
      BY <1>1, <1>5 DEF b
    <2> HIDE DEF other
    <2> QED
      BY <2>3, <2>5, <2>6, <2>7
  <1> QED
    BY <1>4, <1>5

\* Later positions have later ends of class.
LEMMA FindBoundaryGrows ==
  ASSUME NEW a \in Nat, NEW b \in Nat, NEW end \in Nat, a <= b, b < end
  PROVE  FindBoundary(a, end) <= FindBoundary(b, end)
  <1>1. PICK x : x = FindBoundary(a, end)
    OBVIOUS
  <1>2. PICK y : y = FindBoundary(b, end)
    OBVIOUS
  <1>3. /\ x \in (a + 1)..end
        /\ \A i \in a..(x - 1) : SameClass(At(a), At(i))
    BY <1>1, FindBoundaryFacts
  <1>4. /\ y \in (b + 1)..end
        /\ y # end => ~SameClass(At(b), At(y))
    BY <1>2, FindBoundaryFacts
  <1>5. CASE x <= b
    BY <1>1, <1>2, <1>3, <1>4, <1>5
  <1>6. CASE b < x
    <2> SUFFICES ASSUME y < x PROVE FALSE
      BY <1>1, <1>2, <1>3, <1>4
    <2>1. b \in a..(x - 1) /\ y \in a..(x - 1) /\ y # end
      BY <1>3, <1>4, <1>6
    <2>2. SameClass(At(a), At(b)) /\ SameClass(At(a), At(y)) /\ ~SameClass(At(b), At(y))
      BY <2>1, <1>3, <1>4
    <2> QED
      BY <2>2 DEF SameClass
  <1> QED
    BY <1>3, <1>5, <1>6

\* The boundaries are positions of the list, in order.
LEMMA BoundariesGrow ==
  ASSUME Len(chunks) \in Nat, Len(chunks) >= NumShards
  PROVE  /\ \A i \in 0..NumShards : Boundary(i) \in 0..Len(chunks)
         /\ \A i, j \in 0..NumShards : i <= j => Boundary(i) <= Boundary(j)
  <1>1. PICK L \in Nat : L = Len(chunks)
    OBVIOUS
  <1>2. PICK N \in Nat \ {0} : N = NumShards
    BY ShardsAssumption
  <1>3. PICK step : step = L \div N
    OBVIOUS
  <1>4. step \in Nat /\ N * step <= L /\ L >= N
    BY <1>1, <1>2, <1>3
  <1>5. step >= 1
    BY <1>1, <1>2, <1>3, <1>4
  <1>6. \A a, b \in Nat : a <= b => a * step <= b * step /\ a * step \in Nat
    BY <1>4
  <1>7. \A i \in 1..(N - 1) : (i - 1) * step \in Nat /\ (i - 1) * step < L
    <2> TAKE i \in 1..(N - 1)
    <2>1. (i - 1) * step \in Nat /\ (i - 1) * step <= (N - 1) * step
      BY <1>2, <1>6
    <2>2. (N - 1) * step = N * step - step
      BY <1>2, <1>4
    <2> QED
      BY <2>1, <2>2, <1>4, <1>5, <1>2
  <1>8. Boundary(0) = 0 /\ Boundary(N) = L
    BY <1>1, <1>2 DEF Boundary
  <1>9. \A i \in 1..(N - 1) : Boundary(i) = FindBoundary((i - 1) * step, L)
    BY <1>1, <1>2, <1>3 DEF Boundary
  <1>10. \A i \in 1..(N - 1) : Boundary(i) \in 0..L
    <2> TAKE i \in 1..(N - 1)
    <2>1. FindBoundary((i - 1) * step, L) \in ((i - 1) * step + 1)..L
      BY <1>7, FindBoundaryFacts
    <2> QED
      BY <2>1, <1>7, <1>9
  <1>11. \A i \in 0..N : i = 0 \/ i = N \/ i \in 1..(N - 1)
    BY <1>2
  <1>12. \A i \in 0..N : Boundary(i) \in 0..L
    BY <1>8, <1>10, <1>11
  <1>13. ASSUME NEW i \in 0..N, NEW j \in 0..N, i <= j PROVE Boundary(i) <= Boundary(j)
    <2>1. CASE i = 0
      BY <2>1, <1>8, <1>12
    <2>2. CASE j = N
      BY <2>2, <1>8, <1>12
    <2>3. CASE i # 0 /\ j # N
      <3>1. i \in 1..(N - 1) /\ j \in 1..(N - 1)
        BY <2>3, <1>13
      <3>2. (i - 1) * step <= (j - 1) * step
        BY <3>1, <1>6, <1>13
      <3>3. /\ (i - 1) * step \in Nat /\ (j - 1) * step \in Nat
            /\ (j - 1) * step < L
        BY <3>1, <1>7
      <3>4. FindBoundary((i - 1) * step, L) <= FindBoundary((j - 1) * step, L)
        BY <3>2, <3>3, FindBoundaryGrows
      <3> QED
        BY <3>1, <3>4, <1>9
    <2> QED
      BY <2>1, <2>2, <2>3
  <1> QED
    BY <1>1, <1>2, <1>12, <1>13

\* A round starts with separate shards.
LEMMA ShardsFacts ==
  ASSUME Len(chunks) \in Nat
  PROVE  Separate(Shards, Len(chunks))
  <1> DEFINE L == Len(chunks)
             range == IF L < MinParallel THEN {<<0, L>>}
                        ELSE {<<Boundary(i - 1), Boundary(i)>> : i \in 1..NumShards}
             proper == {q \in range : q[1] < q[2]}
             start(r) == <<r[1], FindBoundary(r[1], r[2]), r[2]>>
  <1>1. Shards = {start(r) : r \in proper}
    BY DEF Shards
  <1>2. /\ \A r \in range : r \in Nat \X Nat /\ r[2] <= L
        /\ \A r, q \in range : r # q => r[2] <= q[1] \/ q[2] <= r[1]
    <2>1. CASE L < MinParallel
      BY <2>1
    <2>2. CASE ~(L < MinParallel)
      <3>1. L >= NumShards /\ NumShards \in Nat
        <4>1. MinParallel >= NumShards /\ NumShards \in Nat /\ MinParallel \in Nat
          BY ShardsAssumption
        <4> QED
          BY <4>1, <2>2
      <3>2. /\ \A i \in 0..NumShards : Boundary(i) \in 0..L
            /\ \A i, j \in 0..NumShards : i <= j => Boundary(i) <= Boundary(j)
        BY <3>1, BoundariesGrow
      <3>3. \A r \in range : \E i \in 1..NumShards : r = <<Boundary(i - 1), Boundary(i)>>
        BY <2>2
      <3>4. \A i \in 1..NumShards : i - 1 \in 0..NumShards /\ i \in 0..NumShards
        BY <3>1
      <3> HIDE DEF range, L
      <3>5. \A r \in range : r \in Nat \X Nat /\ r[2] <= L
        <4> TAKE r \in range
        <4>1. PICK i \in 1..NumShards : r = <<Boundary(i - 1), Boundary(i)>>
          BY <3>3
        <4>2. Boundary(i - 1) \in 0..L /\ Boundary(i) \in 0..L
          BY <3>2, <3>4
        <4> QED
          BY <4>1, <4>2
      <3>6. \A r, q \in range : r # q => r[2] <= q[1] \/ q[2] <= r[1]
        <4> TAKE r, q \in range
        <4>1. PICK i \in 1..NumShards : r = <<Boundary(i - 1), Boundary(i)>>
          BY <3>3
        <4>2. PICK j \in 1..NumShards : q = <<Boundary(j - 1), Boundary(j)>>
          BY <3>3
        <4>3. i < j => Boundary(i) <= Boundary(j - 1)
          BY <3>1, <3>2, <3>4
        <4>4. j < i => Boundary(j) <= Boundary(i - 1)
          BY <3>1, <3>2, <3>4
        <4>5. i = j \/ i < j \/ j < i
          BY <3>1
        <4> QED
          BY <4>1, <4>2, <4>3, <4>4, <4>5
      <3> QED
        BY <3>5, <3>6
    <2> QED
      BY <2>1, <2>2
  <1> HIDE DEF range, L
  <1>3. \A r \in proper : /\ r[1] \in Nat /\ r[2] \in Nat /\ r[1] < r[2] /\ r[2] <= L
                          /\ FindBoundary(r[1], r[2]) \in (r[1] + 1)..r[2]
    <2> TAKE r \in proper
    <2>1. r[1] \in Nat /\ r[2] \in Nat /\ r[1] < r[2] /\ r[2] <= L
      BY <1>2
    <2>2. FindBoundary(r[1], r[2]) \in (r[1] + 1)..r[2]
      BY <2>1, FindBoundaryFacts
    <2> QED
      BY <2>1, <2>2
  <1>4. \A z \in Shards : \E r \in proper : z = start(r)
    BY <1>1
  <1>5. \A z \in Shards : /\ z \in Nat \X Nat \X Nat
                          /\ z[1] < z[2] /\ z[2] <= z[3] /\ z[3] <= L
    <2> TAKE z \in Shards
    <2>1. PICK r \in proper : z = start(r)
      BY <1>4
    <2>2. PICK b : b = FindBoundary(r[1], r[2])
      OBVIOUS
    <2>3. /\ r[1] \in Nat /\ r[2] \in Nat /\ r[1] < r[2] /\ r[2] <= L
          /\ b \in (r[1] + 1)..r[2]
      BY <1>3, <2>2
    <2>4. z = <<r[1], b, r[2]>>
      BY <2>1, <2>2
    <2> HIDE DEF proper
    <2> QED
      BY <2>3, <2>4
  <1>6. \A z, w \in Shards : z # w => z[3] <= w[1] \/ w[3] <= z[1]
    <2> TAKE z, w \in Shards
    <2>1. PICK r \in proper : z = start(r)
      BY <1>4
    <2>2. PICK q \in proper : w = start(q)
      BY <1>4
    <2>3. r # q => r[2] <= q[1] \/ q[2] <= r[1]
      BY <1>2
    <2>4. z[1] = r[1] /\ z[3] = r[2] /\ w[1] = q[1] /\ w[3] = q[2]
      BY <2>1, <2>2
    <2> QED
      BY <2>1, <2>2, <2>3, <2>4
  <1> QED
    BY <1>5, <1>6 DEF Separate, L

\* A shard that goes on at mid stays within itself.
LEMMA AdvanceFacts ==
  ASSUME Separate(shards, Len(chunks)), Len(chunks) \in Nat, NEW r \in shards,
         NEW mid \in (r[1] + 1)..r[2], Advance(r, mid)
  PROVE  /\ Separate(shards', Len(chunks))
         /\ \A q \in shards' : (q \in shards /\ q # r) \/ (mid <= q[1] /\ q[3] = r[3])
  <1> DEFINE rest == CASE mid < r[2] -> {<<mid, r[2], r[3]>>}
                       [] mid = r[2] /\ mid < r[3] -> {<<mid, FindBoundary(mid, r[3]), r[3]>>}
                       [] OTHER -> {}
  <1>1. shards' = (shards \ {r}) \cup rest
    BY DEF Advance
  <1>2. /\ r[1] \in Nat /\ r[2] \in Nat /\ r[3] \in Nat
        /\ r[1] < r[2] /\ r[2] <= r[3] /\ r[3] <= Len(chunks)
    BY DEF Separate
  <1>3. mid \in Nat /\ r[1] < mid /\ mid <= r[2]
    BY <1>2
  <1>4. \A q \in rest : \E e \in Nat : q = <<mid, e, r[3]>> /\ mid < e /\ e <= r[3]
    <2>1. CASE mid < r[2]
      BY <2>1, <1>2, <1>3
    <2>2. CASE mid = r[2] /\ mid < r[3]
      <3>1. PICK e : e = FindBoundary(mid, r[3])
        OBVIOUS
      <3>2. e \in (mid + 1)..r[3]
        BY <3>1, <2>2, <1>2, <1>3, FindBoundaryFacts
      <3>3. e \in Nat /\ mid < e /\ e <= r[3]
        BY <3>2, <1>2, <1>3
      <3>4. rest = {<<mid, e, r[3]>>}
        BY <3>1, <2>2, <1>2
      <3> QED
        BY <3>3, <3>4
    <2>3. CASE ~(mid < r[2]) /\ ~(mid = r[2] /\ mid < r[3])
      BY <2>3
    <2> QED
      BY <2>1, <2>2, <2>3
  <1>5. \A p, q \in rest : p = q
    OBVIOUS
  <1> HIDE DEF rest
  <1>6. \A q \in rest : /\ q \in Nat \X Nat \X Nat
                        /\ q[1] < q[2] /\ q[2] <= q[3] /\ q[3] <= Len(chunks)
                        /\ q[1] = mid /\ q[3] = r[3]
    <2> TAKE q \in rest
    <2>1. PICK e \in Nat : q = <<mid, e, r[3]>> /\ mid < e /\ e <= r[3]
      BY <1>4
    <2> QED
      BY <2>1, <1>2, <1>3
  <1>7. \A q \in shards' : (q \in shards /\ q # r) \/ q \in rest
    BY <1>1
  <1>8. \A q \in shards : q # r => r[3] <= q[1] \/ q[3] <= r[1]
    BY DEF Separate
  <1>9. \A q \in shards : q \in Nat \X Nat \X Nat
    BY DEF Separate
  <1>10. \A p, q \in shards' : p # q => p[3] <= q[1] \/ q[3] <= p[1]
    <2> TAKE p, q \in shards'
    <2> HAVE p # q
    <2>1. CASE p \in shards /\ q \in shards
      BY <2>1 DEF Separate
    <2>2. CASE p \in shards /\ p # r /\ q \in rest
      <3>1. r[3] <= p[1] \/ p[3] <= r[1]
        BY <2>2, <1>8
      <3>2. q[1] = mid /\ q[3] = r[3] /\ p[1] \in Nat /\ p[3] \in Nat
        BY <2>2, <1>6, <1>9
      <3> QED
        BY <3>1, <3>2, <1>2, <1>3
    <2>3. CASE q \in shards /\ q # r /\ p \in rest
      <3>1. r[3] <= q[1] \/ q[3] <= r[1]
        BY <2>3, <1>8
      <3>2. p[1] = mid /\ p[3] = r[3] /\ q[1] \in Nat /\ q[3] \in Nat
        BY <2>3, <1>6, <1>9
      <3> QED
        BY <3>1, <3>2, <1>2, <1>3
    <2> QED
      BY <2>1, <2>2, <2>3, <1>5, <1>7
  <1>11. \A q \in shards' : /\ q \in Nat \X Nat \X Nat
                            /\ q[1] < q[2] /\ q[2] <= q[3] /\ q[3] <= Len(chunks)
    <2> TAKE q \in shards'
    <2>1. CASE q \in shards
      BY <2>1 DEF Separate
    <2> QED
      BY <2>1, <1>6, <1>7
  <1>12. \A q \in shards' : (q \in shards /\ q # r) \/ (mid <= q[1] /\ q[3] = r[3])
    BY <1>3, <1>6, <1>7
  <1> QED
    BY <1>10, <1>11, <1>12 DEF Separate

----------------------------------------------------------------------------
(* Folding *)

\* t has at p what s has at at[p].
Permutes(t, s, at) ==
  /\ t = [p \in DOMAIN s |-> s[at[p]]]
  /\ \A p \in DOMAIN s : at[p] \in DOMAIN s
  /\ \A p, q \in DOMAIN s : at[p] = at[q] => p = q

\* Picking the elements of an injective sequence in another order
LEMMA PermutedFacts ==
  ASSUME NEW S, NEW s \in Seq(S), Injective(s), NEW t, NEW at, Permutes(t, s, at)
  PROVE  t \in Seq(S) /\ Len(t) = Len(s) /\ Injective(t) /\ Range(t) \subseteq Range(s)
  <1>1. Len(s) \in Nat /\ DOMAIN s = 1..Len(s) /\ \A i \in DOMAIN s : s[i] \in S
    BY LenProperties
  <1> USE DEF Permutes
  <1>2. \A p \in DOMAIN s : t[p] = s[at[p]]
    OBVIOUS
  <1>3. t \in [1..Len(s) -> S]
    BY <1>1
  <1>4. t \in Seq(S)
    BY <1>1, <1>3, SeqDef
  <1>5. Len(t) = Len(s)
    BY <1>1, <1>4, LenProperties
  <1>6. Injective(t)
    BY <1>2, SMTT(30) DEF Injective
  <1>7. Range(t) \subseteq Range(s)
    BY <1>2 DEF Range
  <1> QED
    BY <1>4, <1>5, <1>6, <1>7

\* A separation of the numbers from begin to end: one part in order, then the others
LEMMA PartitionFacts ==
  ASSUME NEW begin \in Nat, NEW end \in Nat, NEW same, begin \in same,
         same \subseteq begin..(end - 1)
  PROVE  /\ begin + Cardinality(same) \in (begin + 1)..end
         /\ \A k \in 1..(end - begin) :
              (Ascending(same) \o Ascending((begin..(end - 1)) \ same))[k] \in begin..(end - 1)
         /\ Injective(Ascending(same) \o Ascending((begin..(end - 1)) \ same))
         /\ DOMAIN (Ascending(same) \o Ascending((begin..(end - 1)) \ same)) = 1..(end - begin)
  <1> DEFINE all == begin..(end - 1)
             other == all \ same
             s == Ascending(same)
             t == Ascending(other)
  <1>1. IsFiniteSet(all) /\ Cardinality(all) = end - begin
    <2>1. /\ IsFiniteSet(all)
          /\ Cardinality(all) = IF begin > end - 1 THEN 0 ELSE (end - 1) - begin + 1
      BY FS_Interval
    <2>2. begin < end
      OBVIOUS
    <2> QED
      BY <2>1, <2>2
  <1>2. IsFiniteSet(same) /\ IsFiniteSet(other) /\ same \subseteq Nat /\ other \subseteq Nat
    <2>1. all \subseteq Nat
      OBVIOUS
    <2> QED
      BY <2>1, <1>1, FS_Subset
  <1>3. Cardinality(same) \in Nat /\ Cardinality(other) \in Nat
    BY <1>2, FS_CardinalityType
  <1>4. Cardinality(same) + Cardinality(other) = end - begin
    <2>1. all \cap same = same
      OBVIOUS
    <2>2. Cardinality(other) = Cardinality(all) - Cardinality(same)
      <3> HIDE DEF all
      <3>1. Cardinality(all \ same) = Cardinality(all) - Cardinality(all \cap same)
        BY <1>1, FS_Difference
      <3> QED
        BY <2>1, <3>1
    <2> QED
      BY <2>2, <1>1, <1>3
  <1>5. Cardinality(same) >= 1
    <2>1. Cardinality(same) # 0
      BY <1>2, FS_EmptySet
    <2> QED
      BY <2>1, <1>3
  <1>6. s \in [1..Cardinality(same) -> same] /\ Lists(s, same)
    BY <1>2, AscendingFacts
  <1>7. t \in [1..Cardinality(other) -> other] /\ Lists(t, other)
    BY <1>2, AscendingFacts
  <1>8. s \in [1..Cardinality(same) -> all] /\ t \in [1..Cardinality(other) -> all]
    BY <1>6, <1>7
  <1> HIDE DEF s, t, other, all
  <1>9. s \in Seq(all) /\ t \in Seq(all)
    BY <1>3, <1>8, SeqDef
  <1>10. Injective(s) /\ Injective(t)
    BY <1>6, <1>7 DEF Injective, Lists
  <1>11. Range(s) \cap Range(t) = {}
    BY <1>6, <1>7 DEF Range, other
  <1>12. s \o t \in Seq(all) /\ Injective(s \o t)
    BY <1>9, <1>10, <1>11, ConcatFacts
  <1>13. Len(s) = Cardinality(same) /\ Len(t) = Cardinality(other)
    BY <1>3, <1>6, <1>7, <1>9, LenProperties
  <1>14. Len(s \o t) = end - begin
    BY <1>4, <1>9, <1>13, ConcatProperties
  <1>15. DOMAIN (s \o t) = 1..(end - begin) /\ \A k \in 1..(end - begin) : (s \o t)[k] \in all
    BY <1>12, <1>14, LenProperties, ElementOfSeq
  <1>16. begin + Cardinality(same) \in (begin + 1)..end
    BY <1>3, <1>4, <1>5
  <1> QED
    BY <1>12, <1>15, <1>16 DEF s, t, other, all

\* After marking its invariant needs no more than that live sections are sections.
LEMMA MarkKept ==
  ASSUME MarkInv, graph' = graph, live' \subseteq Sections, phase' \notin {"roots", "mark", "icf"}
  PROVE  MarkInv'
  BY DEF MarkInv, LiveIsReachable

LEMMA TargetsKept ==
  ASSUME TargetsInv, phase \notin {"roots", "mark"}, graph' = graph, live' = live, repl' = repl
  PROVE  TargetsInv'
  <1>1. NotTraversed' = NotTraversed /\ \A s : KeepsAlive(s)' = KeepsAlive(s)
    BY GraphFixed
  <1> QED
    BY <1>1 DEF TargetsInv

LEMMA MarkStepInv ==
  ASSUME IInv, MarkStep, UNCHANGED icfVars
  PROVE  IInv'
  <1>1. MarkInv'
    BY AddRootsInv, MarkNextInv, MarkedInv DEF IInv, MarkStep
  <1>2. /\ phase \in {"roots", "mark"} /\ phase' \in {"mark", "icf"} /\ graph' = graph
        /\ UNCHANGED <<chunks, eqClass, cnt, repeat, inRound, shards, repl, align>>
    BY DEF MarkStep, AddRoots, SkipMark, MarkNext, Marked, icfVars
  <1>3. \A s \in Sections : repl[s] = s
    BY <1>2 DEF IInv, FoldInv, ReplInv, Unfolded
  <1>4. ChunksInv'
    BY <1>2 DEF ChunksInv, Rounds
  <1>5. inRound = FALSE /\ shards = {}
    BY <1>2 DEF IInv, FoldInv, ShardsInv, Rounds
  <1>6. ShardsInv'
    BY <1>2, <1>5 DEF ShardsInv, Separate
  <1>7. ReplInv'
    BY <1>2, <1>3 DEF ReplInv, IInv, FoldInv
  <1>8. TargetsInv'
    <2> SUFFICES ASSUME phase' = "icf", graph'.doGC,
                        NEW s \in live' \ NotTraversed', NEW t \in KeepsAlive(s)'
                 PROVE  repl'[t] \in live'
      BY <1>2 DEF TargetsInv
    <2>1. Closed(live)'
      BY <1>1 DEF MarkInv, LiveIsReachable
    <2>2. t \in live' /\ t \in Sections
      BY <2>1 DEF Closed, KeepsAlive
    <2> QED
      BY <2>2, <1>2, <1>3
  <1>9. ClassInv'
    BY <1>2 DEF ClassInv, IInv, FoldInv
  <1> QED
    BY <1>1, <1>2, <1>4, <1>6, <1>7, <1>8, <1>9 DEF IInv, FoldInv

LEMMA CollectInv ==
  ASSUME IInv, Collect
  PROVE  IInv'
  <1> DEFINE E == {s \in Sections : IsEligible(s)}
  <1>1. /\ phase = "icf" /\ phase' = "hash" /\ graph' = graph /\ live' = live
        /\ chunks' = Ascending(E)
        /\ UNCHANGED <<cnt, repeat, inRound, shards, repl, align>>
    BY DEF Collect, markVars
  <1>2. MarkInv'
    BY <1>1, MarkKept DEF IInv, MarkInv
  <1>3. E \subseteq live /\ E \subseteq Sections
    BY DEF IsEligible
  <1> HIDE DEF E
  <1>4. IsFiniteSet(E) /\ E \subseteq Nat
    BY <1>3, SectionsAssumption, FS_Subset
  <1>5. PICK n \in Nat : n = Cardinality(E)
    BY <1>4, FS_CardinalityType
  <1>6. chunks' \in [1..n -> E] /\ Lists(chunks', E)
    BY <1>1, <1>4, <1>5, AscendingFacts
  <1>7. chunks' \in Seq(Sections)
    <2>1. chunks' \in [1..n -> Sections]
      BY <1>3, <1>6
    <2> QED
      BY <2>1, SeqDef
  <1>8. Injective(chunks') /\ Range(chunks') \subseteq live
    BY <1>3, <1>5, <1>6 DEF Injective, Range, Lists
  <1>9. ChunksInv'
    BY <1>1, <1>7, <1>8 DEF ChunksInv
  <1>10. inRound = FALSE /\ shards = {}
    BY <1>1 DEF IInv, FoldInv, ShardsInv, Rounds
  <1>11. ShardsInv'
    BY <1>1, <1>10 DEF ShardsInv, Separate
  <1>12. ReplInv'
    BY <1>1 DEF ReplInv, Unfolded, IInv, FoldInv
  <1>13. TargetsInv'
    BY <1>1, TargetsKept DEF IInv, FoldInv
  <1>14. ClassInv'
    <2>1. cnt \in Nat /\ eqClass \in [0..1 -> [Sections -> Nat]] /\ graph \in Graphs
      BY DEF IInv, FoldInv, ClassInv, MarkInv
    <2> DEFINE class == [s \in Sections |->
                 CASE IsEligible(s) -> Hash[graph.content[s]]
                   [] ~IsEligible(s) /\ s \in Are(Listed \cup {"string"}) ->
                        Cardinality(NumberedBefore(s)) + 1
                   [] OTHER -> 0]
    <2>2. eqClass' = [eqClass EXCEPT ![0] = class]
      BY DEF Collect
    <2>3. \A s \in Sections : Hash[graph.content[s]] \in Nat
      BY <2>1, HashAssumption
    <2>4. \A s : Cardinality(NumberedBefore(s)) \in Nat
      <3> TAKE s
      <3>1. NumberedBefore(s) \subseteq Sections
        BY DEF NumberedBefore, Are
      <3>2. IsFiniteSet(NumberedBefore(s))
        BY <3>1, SectionsAssumption, FS_Subset
      <3> QED
        BY <3>2, FS_CardinalityType
    <2>5. \A s \in Sections : class[s] \in Nat
      <3> TAKE s \in Sections
      <3>1. PICK m \in Nat : m = Cardinality(NumberedBefore(s))
        BY <2>4
      <3>2. PICK h \in Nat : h = Hash[graph.content[s]]
        BY <2>3
      <3>3. m + 1 \in Nat
        OBVIOUS
      <3> QED
        BY <3>1, <3>2, <3>3
    <2>6. class \in [Sections -> Nat]
      BY <2>5
    <2> HIDE DEF class
    <2> QED
      BY <2>1, <2>2, <2>6, <1>1 DEF ClassInv
  <1> QED
    BY <1>1, <1>2, <1>9, <1>11, <1>12, <1>13, <1>14 DEF IInv, FoldInv

LEMMA CombineHashesInv ==
  ASSUME IInv, NEW n \in 0..1, CombineHashes(n)
  PROVE  IInv'
  <1>1. /\ phase = "hash" /\ phase' = "hash" /\ graph' = graph /\ live' = live
        /\ cnt' = n + 1
        /\ UNCHANGED <<chunks, repeat, inRound, shards, repl, align>>
    BY DEF CombineHashes, markVars
  <1>2. MarkInv'
    BY <1>1, MarkKept DEF IInv, MarkInv
  <1>3. ChunksInv'
    BY <1>1 DEF ChunksInv, IInv, FoldInv, Unfolded
  <1>4. ShardsInv'
    BY <1>1 DEF ShardsInv, IInv, FoldInv
  <1>5. ReplInv'
    BY <1>1 DEF ReplInv, Unfolded, IInv, FoldInv
  <1>6. TargetsInv'
    BY <1>1, TargetsKept DEF IInv, FoldInv
  <1>7. ClassInv'
    <2>1. eqClass \in [0..1 -> [Sections -> Nat]] /\ graph \in Graphs
      BY DEF IInv, FoldInv, ClassInv, MarkInv
    <2>2. \A s \in Sections : Combined(n, s) \in Nat
      BY <2>1, CombinedType
    <2> DEFINE class == [s \in Sections |-> Combined(n, s)]
    <2>3. eqClass' = [eqClass EXCEPT ![(n + 1) % 2] = class]
      BY DEF CombineHashes
    <2>4. class \in [Sections -> Nat]
      BY <2>2
    <2> HIDE DEF class
    <2>5. (n + 1) % 2 \in 0..1
      OBVIOUS
    <2>6. eqClass' \in [0..1 -> [Sections -> Nat]]
      BY <2>1, <2>3, <2>4, <2>5
    <2> QED
      BY <2>6, <1>1 DEF ClassInv
  <1> QED
    BY <1>1, <1>2, <1>3, <1>4, <1>5, <1>6, <1>7 DEF IInv, FoldInv

\* Sorting lists the same sections, in the order of their hashes.
LEMMA SortByHashFacts ==
  ASSUME IInv, SortByHash
  PROVE  /\ chunks' \in Seq(Sections) /\ Injective(chunks') /\ Len(chunks') = Len(chunks)
         /\ Range(chunks') = Range(chunks) /\ Range(chunks') \subseteq live
         /\ \A m, n \in 1..Len(chunks) : m < n => SortedBefore(chunks'[m], chunks'[n])
  <1> DEFINE S == Range(chunks)
             B == [x \in S |-> {t \in S : SortedBefore(t, x)}]
             f == [n \in DOMAIN chunks |-> CHOOSE s \in S :
                     Cardinality({t \in S : SortedBefore(t, s)}) = n - 1]
  <1>1. phase = "hash" /\ chunks' = f
    BY DEF SortByHash
  <1>2. chunks \in Seq(Sections) /\ Injective(chunks) /\ S \subseteq live /\ S \subseteq Sections
    <2>1. chunks \in Seq(Sections) /\ Injective(chunks) /\ S \subseteq live
      BY <1>1 DEF IInv, FoldInv, ChunksInv, Unfolded
    <2>2. live \subseteq Sections
      BY DEF IInv, MarkInv
    <2> QED
      BY <2>1, <2>2
  <1>3. PICK L \in Nat : L = Len(chunks) /\ DOMAIN chunks = 1..L
    BY <1>2, LenProperties
  <1>4. IsFiniteSet(S)
    BY <1>2, SectionsAssumption, FS_Subset
  <1>5. Cardinality(S) = L
    <2>1. chunks \in [1..L -> S]
      <3>1. chunks \in [1..L -> Sections]
        BY <1>2, <1>3, LenProperties
      <3> QED
        BY <3>1 DEF Range
    <2>2. chunks \in Bijection(1..L, S)
      <3>1. \A x \in S : \E i \in 1..L : chunks[i] = x
        BY <1>3 DEF Range
      <3>2. \A i, j \in 1..L : chunks[i] = chunks[j] => i = j
        BY <1>2, <1>3 DEF Injective
      <3> HIDE DEF S
      <3> QED
        BY <2>1, <3>1, <3>2, Zenon DEF Bijection, Injection, Surjection, IsInjective
    <2>3. IsFiniteSet(1..L) /\ Cardinality(1..L) = IF 1 > L THEN 0 ELSE L - 1 + 1
      BY FS_Interval
    <2>4. Cardinality(1..L) = L
      BY <2>3
    <2> HIDE DEF S
    <2> QED
      BY <2>2, <2>3, <2>4, FS_Bijection DEF ExistsBijection
  <1>6. Orders(B, S)
    <2>1. PICK h : h = Half(0)
      OBVIOUS
    <2>2. h \in [Sections -> Nat]
      BY <2>1 DEF Half, IInv, FoldInv, ClassInv
    <2>3. \A x \in S : x \in Nat /\ h[x] \in Nat
      BY <1>2, <2>2, SectionsAssumption
    <2>4. \A x, y \in S : x \in B[y] <=> (h[x] < h[y] \/ (h[x] = h[y] /\ x < y))
      BY <2>1 DEF SortedBefore
    <2>5. \A x \in S : B[x] \subseteq S
      OBVIOUS
    <2> HIDE DEF B, S
    <2>6. \A x \in S : x \notin B[x]
      BY <2>3, <2>4
    <2>7. \A a, b \in S : a # b => a \in B[b] \/ b \in B[a]
      BY <2>3, <2>4
    <2>8. \A a, b, c \in S : a \in B[b] /\ b \in B[c] => a \in B[c]
      BY <2>3, <2>4
    <2> QED
      BY <2>5, <2>6, <2>7, <2>8 DEF Orders
  <1>7. Ranks(f, B, S)
    <2>1. ASSUME NEW n \in 1..L, NEW x \in S, Cardinality(B[x]) = n - 1
          PROVE  f[n] \in S /\ Cardinality(B[f[n]]) = n - 1
      <3>1. f[n] = CHOOSE s \in S : Cardinality({t \in S : SortedBefore(t, s)}) = n - 1
        BY <1>3
      <3>2. Cardinality({t \in S : SortedBefore(t, x)}) = n - 1
        BY <2>1
      <3>3. f[n] \in S /\ Cardinality({t \in S : SortedBefore(t, f[n])}) = n - 1
        BY <3>1, <3>2
      <3> QED
        BY <3>3
    <2> HIDE DEF B, f, S
    <2> QED
      BY <2>1, <1>5 DEF Ranks
  <1>8. DOMAIN f = 1..L
    BY <1>3
  <1>9. PICK c : f \in [1..L -> c]
    <2> DEFINE e(n) == CHOOSE s \in S : Cardinality({t \in S : SortedBefore(t, s)}) = n - 1
               c == {e(n) : n \in 1..L}
    <2>1. f = [n \in 1..L |-> e(n)]
      BY <1>3
    <2> HIDE DEF f, e
    <2>2. f \in [1..L -> c]
      BY <2>1
    <2> QED
      BY <2>2
  <1>10. \A x, y \in S : x \in B[y] => SortedBefore(x, y)
    OBVIOUS
  <1> HIDE DEF B, f, S
  <1>11. Lists(f, S) /\ \A m, n \in 1..L : m < n => f[m] \in B[f[n]]
    BY <1>4, <1>5, <1>6, <1>7, RankSeq
  <1>12. f \in Seq(Sections) /\ Injective(f) /\ Range(f) \subseteq live
    <2>1. \A n \in 1..L : f[n] \in Sections /\ f[n] \in live
      BY <1>2, <1>5, <1>11 DEF Lists
    <2>2. f \in [1..L -> Sections]
      BY <2>1, <1>8, <1>9
    <2>3. f \in Seq(Sections)
      BY <2>2, SeqDef
    <2>4. Injective(f)
      BY <1>5, <1>8, <1>11 DEF Injective, Lists
    <2>5. Range(f) \subseteq live
      BY <2>1, <1>8 DEF Range
    <2> QED
      BY <2>3, <2>4, <2>5
  <1>13. Len(f) = L
    BY <1>8, <1>12, LenProperties
  <1>14. Range(f) = S
    BY <1>5, <1>8, <1>11 DEF Range, Lists
  <1>15. \A m, n \in 1..L : m < n => SortedBefore(f[m], f[n])
    BY <1>5, <1>11, <1>10 DEF Lists
  <1> QED
    BY <1>1, <1>3, <1>12, <1>13, <1>14, <1>15 DEF S

LEMMA SortByHashInv ==
  ASSUME IInv, SortByHash
  PROVE  IInv'
  <1>1. /\ phase = "hash" /\ phase' = "constant" /\ graph' = graph /\ live' = live
        /\ cnt' = 0 /\ eqClass' = eqClass
        /\ UNCHANGED <<repeat, inRound, shards, repl, align>>
    BY DEF SortByHash, markVars
  <1>2. MarkInv'
    BY <1>1, MarkKept DEF IInv, MarkInv
  <1>3. ChunksInv'
    BY <1>1, SortByHashFacts DEF ChunksInv
  <1>4. inRound = FALSE /\ shards = {}
    BY <1>1 DEF IInv, FoldInv, ShardsInv, Rounds
  <1>5. ShardsInv'
    BY <1>1, <1>4 DEF ShardsInv, Separate
  <1>6. ReplInv'
    BY <1>1 DEF ReplInv, Unfolded, IInv, FoldInv
  <1>7. TargetsInv'
    BY <1>1, TargetsKept DEF IInv, FoldInv
  <1>8. ClassInv'
    BY <1>1 DEF ClassInv, IInv, FoldInv
  <1> QED
    BY <1>1, <1>2, <1>3, <1>5, <1>6, <1>7, <1>8 DEF IInv, FoldInv, Rounds

LEMMA BeginRoundInv ==
  ASSUME IInv, BeginRound
  PROVE  IInv'
  <1>1. /\ phase \in Rounds /\ phase' = phase /\ graph' = graph /\ live' = live
        /\ ~inRound /\ inRound' = TRUE /\ shards' = Shards
        /\ UNCHANGED <<chunks, eqClass, cnt, repl, align>>
    BY DEF BeginRound, markVars, Rounds
  <1>2. MarkInv'
    BY <1>1, MarkKept DEF IInv, MarkInv, Rounds
  <1>3. Unfolded
    BY <1>1 DEF Unfolded, Rounds
  <1>4. chunks \in Seq(Sections) /\ Injective(chunks) /\ Range(chunks) \subseteq live
    BY <1>1, <1>3 DEF IInv, FoldInv, ChunksInv
  <1>5. ChunksInv'
    BY <1>1, <1>4 DEF ChunksInv
  <1>6. PICK L \in Nat : L = Len(chunks) /\ DOMAIN chunks = 1..L
    BY <1>4, LenProperties
  <1>7. Separate(shards', L)
    BY <1>1, <1>6, ShardsFacts
  <1>8. ShardsInv'
    BY <1>1, <1>6, <1>7 DEF ShardsInv
  <1>9. repl \in [Sections -> Sections] /\ \A s \in Sections : repl[s] = s
    BY <1>3 DEF IInv, FoldInv, ReplInv
  <1>10. \A r \in shards' : \A p \in r[1]..(r[3] - 1) : At(p) \in live
    <2> TAKE r \in shards'
    <2> TAKE p \in r[1]..(r[3] - 1)
    <2>1. r[1] \in Nat /\ r[3] \in Nat /\ r[3] <= L
      BY <1>7 DEF Separate
    <2>2. p + 1 \in 1..L
      BY <2>1
    <2> QED
      BY <2>2, <1>4, <1>6 DEF At, Range
  <1>11. ReplInv'
    <2>1. (\A r \in shards : \A p \in r[1]..(r[3] - 1) :
            /\ At(p) \in live
            /\ \A s \in Sections : repl[s] = At(p) <=> s = At(p))'
      BY <1>1, <1>9, <1>10 DEF At
    <2> QED
      BY <1>1, <1>9, <2>1 DEF ReplInv
  <1>12. TargetsInv'
    BY <1>1, TargetsKept DEF IInv, FoldInv, Rounds
  <1>13. ClassInv'
    BY <1>1 DEF ClassInv, IInv, FoldInv
  <1> QED
    BY <1>1, <1>2, <1>5, <1>8, <1>11, <1>12, <1>13 DEF IInv, FoldInv

LEMMA EndRoundInv ==
  ASSUME IInv, EndRound
  PROVE  IInv'
  <1>1. /\ inRound /\ shards = {} /\ inRound' = FALSE /\ cnt' = (cnt + 1) % 2
        /\ graph' = graph /\ live' = live
        /\ UNCHANGED <<chunks, eqClass, repeat, shards, repl, align>>
    BY DEF EndRound, markVars
  <1>2. phase \in Rounds
    BY <1>1 DEF IInv, FoldInv, ShardsInv
  <1>3. /\ phase # "merge" => phase' \in {"variable", "merge"}
        /\ phase = "merge" => phase' = "done"
    BY <1>2 DEF EndRound, Rounds
  <1>4. MarkInv'
    BY <1>1, <1>2, <1>3, MarkKept DEF IInv, MarkInv
  <1>5. ChunksInv'
    BY <1>1, <1>2, <1>3 DEF ChunksInv, IInv, FoldInv, Unfolded, Rounds
  <1>6. ShardsInv'
    BY <1>1 DEF ShardsInv, Separate
  <1>7. ReplInv'
    BY <1>1, <1>2, <1>3 DEF ReplInv, IInv, FoldInv, Unfolded, Rounds
  <1>8. TargetsInv'
    BY <1>1, <1>2, TargetsKept DEF IInv, FoldInv, Rounds
  <1>9. ClassInv'
    BY <1>1 DEF ClassInv, IInv, FoldInv
  <1> QED
    BY <1>2, <1>3, <1>4, <1>5, <1>6, <1>7, <1>8, <1>9 DEF IInv, FoldInv, Rounds

LEMMA SegregateInv ==
  ASSUME IInv, phase \in {"constant", "variable"}, NEW r \in shards,
         NEW equal \in SUBSET Others(r), Segregate(r, equal)
  PROVE  IInv'
  <1>1. /\ phase' = phase /\ graph' = graph /\ live' = live /\ cnt' = cnt
        /\ UNCHANGED <<inRound, repl, align>>
    BY DEF Segregate, markVars
  <1>2. MarkInv'
    BY <1>1, MarkKept DEF IInv, MarkInv
  <1>3. Unfolded /\ phase \in Rounds
    BY DEF Unfolded, Rounds
  <1>4. chunks \in Seq(Sections) /\ Injective(chunks) /\ Range(chunks) \subseteq live
    BY <1>3 DEF IInv, FoldInv, ChunksInv
  <1>5. PICK L \in Nat : L = Len(chunks) /\ DOMAIN chunks = 1..L
    BY <1>4, LenProperties
  <1>6. Separate(shards, L)
    BY <1>5 DEF IInv, FoldInv, ShardsInv
  <1>7. PICK begin : begin = r[1]
    OBVIOUS
  <1>8. PICK end : end = r[2]
    OBVIOUS
  <1>9. begin \in Nat /\ end \in Nat /\ begin < end /\ end <= L
    BY <1>5, <1>6, <1>7, <1>8 DEF Separate
  <1>10. PICK same : same = {begin} \cup equal
    OBVIOUS
  <1>11. begin \in same /\ same \subseteq begin..(end - 1)
    <2>1. Others(r) = (begin + 1)..(end - 1)
      BY <1>7, <1>8 DEF Others
    <2>2. Others(r) \subseteq begin..(end - 1) /\ begin \in begin..(end - 1)
      BY <2>1, <1>9
    <2> QED
      BY <2>2, <1>10
  <1>12. PICK mid : mid = begin + Cardinality(same)
    OBVIOUS
  <1>13. PICK moved : moved = Ascending(same) \o Ascending((begin..(end - 1)) \ same)
    OBVIOUS
  <1>14. /\ mid \in (begin + 1)..end
         /\ \A k \in 1..(end - begin) : moved[k] \in begin..(end - 1)
         /\ Injective(moved)
         /\ DOMAIN moved = 1..(end - begin)
    BY <1>9, <1>11, <1>12, <1>13, PartitionFacts
  <1>15. /\ chunks' = [p \in DOMAIN chunks |->
                    IF p - 1 \in begin..(end - 1) THEN At(moved[p - begin]) ELSE chunks[p]]
         /\ eqClass' = [eqClass EXCEPT ![(cnt + 1) % 2] = [s \in Sections |->
                      IF s \in {At(i) : i \in same} THEN mid ELSE @[s]]]
         /\ Advance(r, mid)
    BY <1>7, <1>8, <1>10, <1>12, <1>13 DEF Segregate
  <1> DEFINE at == [p \in DOMAIN chunks |->
                 IF p - 1 \in begin..(end - 1) THEN moved[p - begin] + 1 ELSE p]
  <1>16. \A p \in 1..L : p - 1 \in begin..(end - 1) =>
            p - begin \in 1..(end - begin) /\ moved[p - begin] \in begin..(end - 1)
    <2> TAKE p \in 1..L
    <2> HAVE p - 1 \in begin..(end - 1)
    <2>1. p - begin \in 1..(end - begin)
      BY <1>9
    <2> QED
      BY <2>1, <1>14
  <1>17. \A p \in DOMAIN chunks : at[p] \in DOMAIN chunks
    BY <1>5, <1>9, <1>16
  <1>18. \A p, q \in DOMAIN chunks : at[p] = at[q] => p = q
    <2>1. \A p \in 1..L : \/ p - 1 \in begin..(end - 1) /\ at[p] = moved[p - begin] + 1
                          \/ p - 1 \notin begin..(end - 1) /\ at[p] = p
      BY <1>5
    <2> HIDE DEF at
    <2> SUFFICES ASSUME NEW p \in 1..L, NEW q \in 1..L, at[p] = at[q] PROVE p = q
      BY <1>5
    <2>2. CASE p - 1 \in begin..(end - 1) /\ q - 1 \in begin..(end - 1)
      <3>1. at[p] = moved[p - begin] + 1 /\ at[q] = moved[q - begin] + 1
        BY <2>1, <2>2
      <3>2. /\ p - begin \in 1..(end - begin) /\ moved[p - begin] \in Int
            /\ q - begin \in 1..(end - begin) /\ moved[q - begin] \in Int
        BY <2>2, <1>9, <1>16
      <3>3. moved[p - begin] = moved[q - begin]
        <4>1. PICK a \in Int : a = moved[p - begin]
          BY <3>2
        <4>2. PICK b \in Int : b = moved[q - begin]
          BY <3>2
        <4>3. a + 1 = b + 1
          BY <3>1, <4>1, <4>2
        <4> QED
          BY <4>1, <4>2, <4>3
      <3>4. p - begin = q - begin
        BY <3>2, <3>3, <1>14 DEF Injective
      <3> QED
        BY <3>4, <1>9
    <2>3. CASE p - 1 \in begin..(end - 1) /\ q - 1 \notin begin..(end - 1)
      <3>1. at[p] = moved[p - begin] + 1 /\ at[q] = q /\ moved[p - begin] \in begin..(end - 1)
        BY <2>1, <2>3, <1>16
      <3>2. q - 1 \in begin..(end - 1)
        <4>1. PICK a \in begin..(end - 1) : a = moved[p - begin]
          BY <3>1
        <4>2. q = a + 1
          BY <3>1, <4>1
        <4> QED
          BY <4>2, <1>9
      <3> QED
        BY <3>2, <2>3
    <2>4. CASE q - 1 \in begin..(end - 1) /\ p - 1 \notin begin..(end - 1)
      <3>1. at[q] = moved[q - begin] + 1 /\ at[p] = p /\ moved[q - begin] \in begin..(end - 1)
        BY <2>1, <2>4, <1>16
      <3>2. p - 1 \in begin..(end - 1)
        <4>1. PICK a \in begin..(end - 1) : a = moved[q - begin]
          BY <3>1
        <4>2. p = a + 1
          BY <3>1, <4>1
        <4> QED
          BY <4>2, <1>9
      <3> QED
        BY <3>2, <2>4
    <2>5. CASE p - 1 \notin begin..(end - 1) /\ q - 1 \notin begin..(end - 1)
      BY <2>1, <2>5
    <2> QED
      BY <2>2, <2>3, <2>4, <2>5
  <1>19. chunks' = [p \in DOMAIN chunks |-> chunks[at[p]]]
    BY <1>15 DEF At
  <1> HIDE DEF at
  <1>20. /\ chunks' \in Seq(Sections) /\ Len(chunks') = L
         /\ Injective(chunks') /\ Range(chunks') \subseteq Range(chunks)
    <2>1. Permutes(chunks', chunks, at)
      BY <1>17, <1>18, <1>19 DEF Permutes
    <2> QED
      BY <2>1, <1>4, <1>5, PermutedFacts
  <1>21. ChunksInv'
    BY <1>1, <1>4, <1>20 DEF ChunksInv
  <1>22. Separate(shards', L)
    BY <1>5, <1>6, <1>7, <1>8, <1>14, <1>15, AdvanceFacts
  <1>23. inRound = TRUE
    BY DEF IInv, FoldInv, ShardsInv
  <1>24. ShardsInv'
    BY <1>1, <1>3, <1>20, <1>22, <1>23 DEF ShardsInv
  <1>25. ReplInv'
    BY <1>1, <1>3 DEF ReplInv, Unfolded, IInv, FoldInv
  <1>26. TargetsInv'
    BY <1>1, TargetsKept DEF IInv, FoldInv
  <1>27. ClassInv'
    <2>1. cnt \in Nat /\ eqClass \in [0..1 -> [Sections -> Nat]] /\ mid \in Nat
      BY <1>9, <1>14 DEF IInv, FoldInv, ClassInv
    <2>2. PICK h : h = (cnt + 1) % 2
      OBVIOUS
    <2>3. h \in 0..1
      BY <2>1, <2>2
    <2>4. PICK new : new = [s \in Sections |->
                        IF s \in {At(i) : i \in same} THEN mid ELSE eqClass[h][s]]
      OBVIOUS
    <2>5. eqClass' = [eqClass EXCEPT ![h] = new]
      BY <1>15, <2>2, <2>3, <2>4, <2>1
    <2>6. new \in [Sections -> Nat]
      BY <2>1, <2>3, <2>4
    <2> QED
      BY <1>1, <2>1, <2>3, <2>5, <2>6 DEF ClassInv
  <1> QED
    BY <1>1, <1>2, <1>21, <1>24, <1>25, <1>26, <1>27 DEF IInv, FoldInv

LEMMA MergeClassInv ==
  ASSUME IInv, NEW r \in shards, MergeClass(r)
  PROVE  IInv'
  <1>1. PICK leader : leader = At(r[1])
    OBVIOUS
  <1>2. PICK others : others = {At(i) : i \in Others(r)}
    OBVIOUS
  <1>3. /\ phase = "merge" /\ phase' = phase /\ graph' = graph
        /\ repl' = [s \in Sections |-> IF s \in others THEN repl[leader] ELSE repl[s]]
        /\ live' = live \ others
        /\ Advance(r, r[2])
        /\ UNCHANGED <<chunks, eqClass, cnt, inRound>>
    BY <1>1, <1>2 DEF MergeClass
  <1>4. MarkInv'
    BY <1>3, MarkKept DEF IInv, MarkInv
  <1>5. inRound = TRUE /\ ~Unfolded /\ phase \in Rounds
    BY <1>3 DEF IInv, FoldInv, ShardsInv, Unfolded, Rounds
  <1>6. chunks \in Seq(Sections) /\ Injective(chunks)
    BY <1>5 DEF IInv, FoldInv, ChunksInv
  <1>7. ChunksInv'
    BY <1>3, <1>5, <1>6 DEF ChunksInv, Unfolded
  <1>8. PICK L \in Nat : L = Len(chunks) /\ DOMAIN chunks = 1..L
    BY <1>6, LenProperties
  <1>9. Separate(shards, L)
    BY <1>8 DEF IInv, FoldInv, ShardsInv
  <1>10. PICK begin : begin = r[1]
    OBVIOUS
  <1>11. PICK end : end = r[2]
    OBVIOUS
  <1>12. PICK last : last = r[3]
    OBVIOUS
  <1>13. /\ begin \in Nat /\ end \in Nat /\ last \in Nat
         /\ begin < end /\ end <= last /\ last <= L
    BY <1>8, <1>9, <1>10, <1>11, <1>12 DEF Separate
  <1>14. /\ Separate(shards', L)
         /\ \A q \in shards' : (q \in shards /\ q # r) \/ (end <= q[1] /\ q[3] = last)
    <2>1. r[2] \in (r[1] + 1)..r[2]
      BY <1>10, <1>11, <1>13
    <2> QED
      BY <2>1, <1>3, <1>8, <1>9, <1>11, <1>12, AdvanceFacts
  <1>15. ShardsInv'
    BY <1>3, <1>5, <1>8, <1>14 DEF ShardsInv
  <1>16. \A i, j \in 0..(L - 1) : At(i) \in Sections /\ (At(i) = At(j) => i = j)
    <2> TAKE i, j \in 0..(L - 1)
    <2>1. i + 1 \in 1..L /\ j + 1 \in 1..L /\ (i + 1 = j + 1 => i = j)
      BY <1>8
    <2>2. chunks[i + 1] \in Sections
      BY <2>1, <1>6, <1>8, ElementOfSeq
    <2> QED
      BY <2>1, <2>2, <1>6, <1>8 DEF At, Injective
  <1>17. \A q \in shards : \A p \in q[1]..(q[3] - 1) :
           p \in 0..(L - 1) /\ At(p) \in live /\ \A s \in Sections : repl[s] = At(p) <=> s = At(p)
    <2> TAKE q \in shards
    <2> TAKE p \in q[1]..(q[3] - 1)
    <2>1. q[1] \in Nat /\ q[3] \in Nat /\ q[3] <= L
      BY <1>9 DEF Separate
    <2>2. p \in 0..(L - 1)
      BY <2>1, <1>8
    <2>3. At(p) \in live /\ \A s \in Sections : repl[s] = At(p) <=> s = At(p)
      BY <1>3 DEF IInv, FoldInv, ReplInv
    <2> QED
      BY <2>2, <2>3
  <1>18. Others(r) = (begin + 1)..(end - 1)
    BY <1>10, <1>11 DEF Others
  <1>19. \A i \in Others(r) : i \in r[1]..(r[3] - 1) /\ i # begin
    BY <1>10, <1>12, <1>13, <1>18
  <1>20. begin \in r[1]..(r[3] - 1)
    BY <1>10, <1>12, <1>13
  <1>21. leader \in Sections /\ leader \in live /\ repl[leader] = leader /\ leader \notin others
    <2>1. leader \in Sections /\ leader \in live /\ repl[leader] = leader
      BY <1>1, <1>10, <1>16, <1>17, <1>20
    <2>2. leader \notin others
      BY <1>1, <1>2, <1>10, <1>16, <1>17, <1>19, <1>20
    <2> QED
      BY <2>1, <2>2
  <1>22. \A x \in others : x \in Sections /\ x \in live /\ \A s \in Sections : repl[s] = x <=> s = x
    BY <1>2, <1>16, <1>17, <1>19
  <1>23. repl \in [Sections -> Sections]
    BY DEF IInv, FoldInv, ReplInv
  <1>24. repl' \in [Sections -> Sections]
    BY <1>3, <1>21, <1>23
  <1>25. \A s \in Sections : repl'[s] = IF s \in others THEN leader ELSE repl[s]
    BY <1>3, <1>21
  <1>26. \A q \in shards' : \A p \in q[1]..(q[3] - 1) :
           /\ p \in 0..(L - 1) /\ At(p) \in live /\ p # begin /\ p \notin Others(r)
           /\ \A s \in Sections : repl[s] = At(p) <=> s = At(p)
    <2> TAKE q \in shards'
    <2> TAKE p \in q[1]..(q[3] - 1)
    <2>1. CASE q \in shards /\ q # r
      <3>1. q[1] \in Nat /\ q[3] \in Nat
        BY <2>1, <1>9 DEF Separate
      <3>2. last <= q[1] \/ q[3] <= begin
        BY <2>1, <1>9, <1>10, <1>12 DEF Separate
      <3>3. p # begin /\ p \notin (begin + 1)..(end - 1)
        BY <3>1, <3>2, <1>13
      <3> QED
        BY <3>3, <2>1, <1>17, <1>18
    <2>2. CASE end <= q[1] /\ q[3] = last
      <3>1. q[1] \in Nat
        BY <1>14 DEF Separate
      <3>2. p \in begin..(last - 1) /\ p # begin /\ p \notin (begin + 1)..(end - 1)
        BY <3>1, <2>2, <1>13
      <3>3. p \in r[1]..(r[3] - 1)
        BY <3>2, <1>10, <1>12
      <3> QED
        BY <3>2, <3>3, <1>17, <1>18
    <2> QED
      BY <2>1, <2>2, <1>14
  <1>27. \A q \in shards' : \A p \in q[1]..(q[3] - 1) :
           /\ At(p) \in live'
           /\ \A s \in Sections : repl'[s] = At(p) <=> s = At(p)
    <2> TAKE q \in shards'
    <2> TAKE p \in q[1]..(q[3] - 1)
    <2>1. PICK x : x = At(p)
      OBVIOUS
    <2>2. x \in live /\ \A s \in Sections : repl[s] = x <=> s = x
      BY <2>1, <1>26
    <2>3. x \notin others
      BY <2>1, <1>2, <1>16, <1>17, <1>19, <1>26
    <2>4. x # leader
      BY <2>1, <1>1, <1>10, <1>16, <1>17, <1>20, <1>26
    <2> QED
      BY <2>1, <2>2, <2>3, <2>4, <1>3, <1>25
  <1>28. ReplInv'
    <2>1. (\A q \in shards : \A p \in q[1]..(q[3] - 1) :
            /\ At(p) \in live
            /\ \A s \in Sections : repl[s] = At(p) <=> s = At(p))'
      BY <1>27, <1>3 DEF At
    <2> QED
      BY <2>1, <1>3, <1>5, <1>24 DEF ReplInv, Unfolded
  <1>29. TargetsInv'
    <2>1. NotTraversed' = NotTraversed /\ \A s : KeepsAlive(s)' = KeepsAlive(s)
      BY <1>3, GraphFixed
    <2> SUFFICES ASSUME graph.doGC, NEW s \in live' \ NotTraversed, NEW t \in KeepsAlive(s)
                 PROVE  repl'[t] \in live'
      BY <2>1, <1>3 DEF TargetsInv
    <2>2. t \in Sections
      BY DEF KeepsAlive
    <2>3. repl[t] \in live
      BY <1>3 DEF IInv, FoldInv, TargetsInv
    <2>4. CASE t \in others
      BY <2>2, <2>4, <1>3, <1>21, <1>25
    <2>5. CASE t \notin others
      <3>1. repl[t] \notin others
        BY <2>2, <2>5, <1>22
      <3> QED
        BY <2>2, <2>3, <2>5, <3>1, <1>3, <1>25
    <2> QED
      BY <2>4, <2>5
  <1>30. ClassInv'
    BY <1>3 DEF ClassInv, IInv, FoldInv
  <1> QED
    BY <1>3, <1>4, <1>5, <1>7, <1>15, <1>28, <1>29, <1>30 DEF IInv, FoldInv, Rounds

----------------------------------------------------------------------------
(* Theorems *)

LEMMA InitInv ==
  ASSUME Init
  PROVE  IInv
  <1>1. /\ graph \in Graphs /\ phase = "roots" /\ live = InitiallyLive /\ worklist = <<>>
        /\ liveImports = {} /\ liveThunks = {} /\ chunks = <<>>
        /\ eqClass = [h \in 0..1 |-> [s \in Sections |-> 0]]
        /\ cnt = 0 /\ inRound = FALSE /\ shards = {} /\ repl = [s \in Sections |-> s]
    BY DEF Init, MarkInit
  <1>2. live \subseteq Sections
    BY <1>1 DEF InitiallyLive
  <1>3. MarkInv
    BY <1>1, <1>2 DEF MarkInv, LiveIsReachable
  <1>4. ChunksInv /\ TargetsInv
    BY <1>1 DEF ChunksInv, TargetsInv, Rounds
  <1>5. ShardsInv
    BY <1>1 DEF ShardsInv, Separate
  <1>6. ReplInv
    BY <1>1 DEF ReplInv
  <1>7. ClassInv
    BY <1>1 DEF ClassInv
  <1> QED
    BY <1>1, <1>3, <1>4, <1>5, <1>6, <1>7 DEF IInv, FoldInv

LEMMA StutterInv ==
  ASSUME IInv, UNCHANGED vars
  PROVE  IInv'
  <1>1. /\ graph' = graph /\ phase' = phase /\ live' = live /\ worklist' = worklist
        /\ liveImports' = liveImports /\ liveThunks' = liveThunks /\ chunks' = chunks
        /\ eqClass' = eqClass /\ cnt' = cnt /\ inRound' = inRound /\ shards' = shards
        /\ repl' = repl
    BY DEF vars, markVars, icfVars
  <1>2. /\ InitiallyLive' = InitiallyLive /\ NotTraversed' = NotTraversed
        /\ RootSections' = RootSections
        /\ \A s : KeepsAlive(s)' = KeepsAlive(s)
        /\ \A set : Closed(set)' <=> Closed(set)
        /\ \A set : Symbols(set)' = Symbols(set)
    BY <1>1, GraphFixed
  <1>3. MarkingInv' <=> MarkingInv
    BY <1>1 DEF MarkingInv, Traversed, InitiallyLive, NotTraversed, RootSections, KeepsAlive,
                Closed, Symbols, Are, SectionOf, ImportsOf, ThunksOf
  <1>4. LiveIsReachable' <=> LiveIsReachable
    BY <1>1 DEF LiveIsReachable, InitiallyLive, NotTraversed, RootSections, KeepsAlive,
                Closed, Symbols, Are, SectionOf, ImportsOf, ThunksOf
  <1>5. MarkInv'
    BY <1>1, <1>2, <1>3, <1>4 DEF IInv, MarkInv
  <1>6. ChunksInv' /\ ShardsInv' /\ ReplInv' /\ ClassInv'
    BY <1>1 DEF IInv, FoldInv, ChunksInv, ShardsInv, ReplInv, ClassInv, Unfolded, At
  <1>7. TargetsInv'
    BY <1>1, <1>2 DEF IInv, FoldInv, TargetsInv
  <1> QED
    BY <1>1, <1>5, <1>6, <1>7 DEF IInv, FoldInv

\* Every step of markLive and of ICF, whichever shard takes it, preserves the invariant of
\* both passes.
THEOREM Invariance == Spec => []IInv
  <1>1. Init => IInv
    BY InitInv
  <1>2. IInv /\ [Next]_vars => IInv'
    <2> SUFFICES ASSUME IInv, [Next]_vars PROVE IInv'
      OBVIOUS
    <2>1. CASE MarkStep /\ UNCHANGED icfVars
      BY <2>1, MarkStepInv
    <2>2. CASE Collect
      BY <2>2, CollectInv
    <2>3. CASE SortByHash
      BY <2>3, SortByHashInv
    <2>4. CASE BeginRound
      BY <2>4, BeginRoundInv
    <2>5. CASE EndRound
      BY <2>5, EndRoundInv
    <2>6. CASE \E n \in 0..1 : CombineHashes(n)
      BY <2>6, CombineHashesInv
    <2>7. ASSUME NEW r \in shards, SegregateConstant(r) PROVE IInv'
      <3>1. PICK equal \in SUBSET Others(r) : phase = "constant" /\ Segregate(r, equal)
        BY <2>7 DEF SegregateConstant
      <3> QED
        BY <3>1, SegregateInv
    <2>8. ASSUME NEW r \in shards, SegregateVariable(r) PROVE IInv'
      <3>1. PICK equal \in SUBSET Others(r) : phase = "variable" /\ Segregate(r, equal)
        BY <2>8 DEF SegregateVariable
      <3> QED
        BY <3>1, SegregateInv
    <2>9. ASSUME NEW r \in shards, MergeClass(r) PROVE IInv'
      BY <2>9, MergeClassInv
    <2>10. CASE UNCHANGED vars
      BY <2>10, StutterInv
    <2> QED
      BY <2>1, <2>2, <2>3, <2>4, <2>5, <2>6, <2>7, <2>8, <2>9, <2>10 DEF Next
  <1> QED
    BY <1>1, <1>2, PTL DEF Spec

\* Garbage collection leaves alive exactly what the roots and the sections that are not
\* COMDAT reach, and the imports these use, in whatever order the worklist is handled
\* (MarkLive.cpp:20).
THEOREM LiveIsReachableHolds == Spec => []LiveIsReachable
  <1>1. IInv => LiveIsReachable
    BY DEF IInv, MarkInv
  <1> QED
    BY <1>1, Invariance, PTL

\* Folding keeps alive the section that stands for what a live section refers to, however
\* the sections are sharded and whatever the hashes are (ICF.cpp:315).
THEOREM TargetsStayLiveHolds == Spec => []TargetsStayLive
  <1>1. IInv => TargetsStayLive
    BY DEF IInv, FoldInv, TargetsInv, TargetsStayLive
  <1> QED
    BY <1>1, Invariance, PTL

----------------------------------------------------------------------------
(* The invariant of the rounds *)

\* The sections by position, counted from 0
Row(c) == [p \in 0..(Len(c) - 1) |-> c[p + 1]]

\* Sections of one class are side by side.
SideBySide(A, h) ==
  \A i, j, k \in DOMAIN A : i <= j /\ j <= k /\ h[A[i]] = h[A[k]] => h[A[j]] = h[A[i]]

\* Sections of one class are in the order of the input.
InOrder(A, h, S) == \A i, j \in S : i < j /\ h[A[i]] = h[A[j]] => A[i] < A[j]

\* The positions a round has not come to
Undone(set) == UNION {r[1]..(r[3] - 1) : r \in set}

\* Each shard is at a class, or at the rest of one, and ends where a class ends.
Ranges(A, h, set, len) ==
  \A r \in set :
    /\ \A i \in r[1]..(r[2] - 1) : h[A[i]] = h[A[r[1]]]
    /\ r[2] < len => h[A[r[2]]] # h[A[r[1]]]
    /\ r[3] < len => h[A[r[3]]] # h[A[r[3] - 1]]

\* The pairs of sections that stay in one class
Joined ==
  {x \in Eligible \X Eligible :
     /\ SameClass(x[1], x[2])
     /\ IF phase = "constant" THEN EqualsConstant(x[1], x[2]) ELSE EqualsVariable(x[1], x[2])}

\* The new classes of what is done: the pairs in J have one class, the end of their group.
Groups(A, h, n, J, U, len) ==
  /\ \A p, q \in DOMAIN A \ U : n[A[p]] = n[A[q]] <=> <<A[p], A[q]>> \in J
  /\ \A p \in DOMAIN A \ U : \A q \in U : <<A[p], A[q]>> \notin J
  /\ \A p \in DOMAIN A \ U :
       /\ p < n[A[p]] /\ n[A[p]] <= len
       /\ \A j \in p..(n[A[p]] - 1) : j \notin U /\ n[A[j]] = n[A[p]]
  /\ InOrder(A, h, U)
  /\ InOrder(A, n, DOMAIN A \ U)

\* No class has been split.
Whole(A, h, n, U) ==
  \A p \in DOMAIN A \ U :
    /\ \A q \in DOMAIN A \ U : h[A[p]] = h[A[q]] => n[A[p]] = n[A[q]]
    /\ \A q \in U : h[A[p]] # h[A[q]]

\* What equalsConstant compares besides classes
Alike(a, b) ==
  /\ Len(graph.relocs[a]) = Len(graph.relocs[b])
  /\ \A i \in DOMAIN graph.relocs[a] :
       LET x == graph.relocs[a][i]
           y == graph.relocs[b][i]
       IN x = y \/ (x.to = "section" /\ y.to = "section" /\ x.value = y.value)
  /\ graph.content[a] = graph.content[b]
  /\ Len(Considered(a)) = Len(Considered(b))

\* Sections that are not folded are equal to themselves only.
Firm(a, b) == a = b \/ (a \in Eligible /\ b \in Eligible)
FirmTargets(a, b) ==
  /\ \A i \in DOMAIN graph.relocs[a] :
       graph.relocs[a][i].to = "section" => Firm(graph.relocs[a][i].at, graph.relocs[b][i].at)
  /\ \A i \in DOMAIN Considered(a) : Firm(Considered(a)[i], Considered(b)[i])

\* Every target that is compared has a class of its own or one that the rounds refine: no
\* relocation leads to an unlisted section, no child that counts is one, and entry thunks
\* are folded too.
Comparable ==
  \A s \in Eligible :
    /\ \A i \in DOMAIN graph.relocs[s] :
         graph.relocs[s][i].to = "section" => graph.kind[graph.relocs[s][i].at] \notin Unlisted
    /\ \A i \in DOMAIN Considered(s) : graph.kind[Considered(s)[i]] \notin Unlisted
    /\ graph.entryThunk[s] \in Eligible \cup {0}

CntInv ==
  /\ phase \in {"roots", "mark", "icf", "constant"} => cnt = 0
  /\ phase = "hash" => cnt \in 0..2
  /\ phase \in Rounds => cnt \in 0..1

Numbered == Are(Listed \cup {"string"})

\* The sections that are not folded have numbers that no other has.
NumbersInv ==
  phase \in {"hash", "constant"} =>
    /\ \A a, b \in Numbered \ Eligible : eqClass[0][a] = eqClass[0][b] => a = b
    /\ \A a \in Sections \ Eligible : eqClass[0][a] < MSB
    /\ phase = "constant" \/ cnt = 2 => \A a \in Eligible : eqClass[0][a] >= MSB

\* What could be folded has one class.
CoarseInv == phase \in {"hash"} \cup Rounds => Coarse(Half(cnt))

\* The sections of a class are side by side and, between rounds, in the order of the input.
OrderInv ==
  phase \in Rounds =>
    /\ SideBySide(Row(chunks), Half(cnt))
    /\ Ranges(Row(chunks), Half(cnt), shards, Len(chunks))
    /\ ~inRound => InOrder(Row(chunks), Half(cnt), DOMAIN Row(chunks))

\* After the constant round sections of one class agree in all but what their targets are
\* folded into.
AlikeInv ==
  phase \in {"variable", "merge"} =>
    \A a, b \in Eligible : SameClass(a, b) => Alike(a, b) /\ (Comparable => FirmTargets(a, b))

\* In a round the positions done have new classes: the old ones, split by the comparison.
GroupsInv ==
  phase \in {"constant", "variable"} /\ inRound =>
    /\ Groups(Row(chunks), Half(cnt), Half(cnt + 1), Joined, Undone(shards), Len(chunks))
    /\ phase = "variable" /\ ~repeat =>
         Whole(Row(chunks), Half(cnt), Half(cnt + 1), Undone(shards))

\* Alignments change only when sections are folded.
AlignInv ==
  /\ align \in [Sections -> Nat]
  /\ Unfolded => align = graph.align

\* The classes are folded one after the other.
MergeInv ==
  phase = "merge" =>
    /\ Comparable => Congruent(Half(cnt))
    /\ inRound =>
         /\ InOrder(Row(chunks), Half(cnt), Undone(shards))
         /\ \A p \in Undone(shards) : align[Row(chunks)[p]] = graph.align[Row(chunks)[p]]
         /\ \A p \in DOMAIN Row(chunks) \ Undone(shards) :
              /\ FirstIsKept(Row(chunks)[p])
              /\ \A q \in DOMAIN Row(chunks) \ Undone(shards) :
                   repl[Row(chunks)[p]] = repl[Row(chunks)[q]] <=>
                     SameClass(Row(chunks)[p], Row(chunks)[q])
              /\ \A q \in Undone(shards) : ~SameClass(Row(chunks)[p], Row(chunks)[q])

DoneInv ==
  phase = "done" =>
    /\ Comparable => Congruent(repl)
    /\ Coarse(repl)
    /\ \A s \in Eligible : FirstIsKept(s)

ExactInv ==
  /\ CntInv /\ NumbersInv /\ CoarseInv
  /\ OrderInv /\ AlikeInv /\ GroupsInv
  /\ AlignInv /\ MergeInv /\ DoneInv

----------------------------------------------------------------------------
(* Segregation by position *)

\* stable_partition of the positions from begin to end: each gets what was at another.
Source(begin, end, same) ==
  [p \in begin..(end - 1) |->
     (Ascending(same) \o Ascending((begin..(end - 1)) \ same))[p + 1 - begin]]

\* The positions in same come first, and the order is kept otherwise.
Partitions(m, begin, end, mid, same) ==
  /\ \A p \in begin..(end - 1) : m[p] \in begin..(end - 1) /\ (p < mid <=> m[p] \in same)
  /\ \A p, q \in begin..(end - 1) : p < q /\ (q < mid \/ mid <= p) => m[p] < m[q]

LEMMA StablePartition ==
  ASSUME NEW begin \in Nat, NEW end \in Nat, NEW same, begin \in same,
         same \subseteq begin..(end - 1), NEW mid, mid = begin + Cardinality(same)
  PROVE  /\ mid \in (begin + 1)..end
         /\ Partitions(Source(begin, end, same), begin, end, mid, same)
  <1>1. PICK moved : moved = Ascending(same) \o Ascending((begin..(end - 1)) \ same)
    OBVIOUS
  <1>2. PICK m : m = [p \in begin..(end - 1) |-> moved[p + 1 - begin]]
    OBVIOUS
  <1> DEFINE all == begin..(end - 1)
             other == all \ same
             s == Ascending(same)
             t == Ascending(other)
             a == Cardinality(same)
             b == Cardinality(other)
  <1>3. /\ mid \in (begin + 1)..end
        /\ \A k \in 1..(end - begin) : moved[k] \in all
        /\ Injective(moved)
        /\ DOMAIN moved = 1..(end - begin)
    BY <1>1, PartitionFacts
  <1>4. IsFiniteSet(same) /\ IsFiniteSet(other) /\ same \subseteq Nat /\ other \subseteq Nat
    <2>1. all \subseteq Nat
      OBVIOUS
    <2>2. IsFiniteSet(all)
      BY FS_Interval
    <2> QED
      BY <2>1, <2>2, FS_Subset
  <1>5. /\ a \in Nat /\ s \in [1..a -> same] /\ \A i, j \in 1..a : i < j => s[i] < s[j]
    BY <1>4, AscendingFacts
  <1>6. /\ b \in Nat /\ t \in [1..b -> other] /\ \A i, j \in 1..b : i < j => t[i] < t[j]
    BY <1>4, AscendingFacts
  <1>7. moved = s \o t
    BY <1>1
  <1> HIDE DEF s, t, a, b
  <1>8. s \in Seq(Nat) /\ t \in Seq(Nat) /\ Len(s) = a /\ Len(t) = b
    <2>1. s \in [1..a -> Nat] /\ t \in [1..b -> Nat]
      BY <1>4, <1>5, <1>6
    <2>2. s \in Seq(Nat) /\ t \in Seq(Nat)
      BY <2>1, <1>5, <1>6, SeqDef
    <2> QED
      BY <2>1, <2>2, <1>5, <1>6, LenProperties
  <1>9. /\ a + b = end - begin
        /\ \A k \in 1..(end - begin) : moved[k] = IF k <= a THEN s[k] ELSE t[k - a]
    <2>1. /\ Len(s \o t) = a + b
          /\ \A k \in 1..(a + b) : (s \o t)[k] = IF k <= a THEN s[k] ELSE t[k - a]
      BY <1>8, ConcatProperties
    <2>2. Len(moved) = a + b /\ moved \in Seq(Nat)
      BY <2>1, <1>7, <1>8, ConcatProperties
    <2>3. 1..(end - begin) = 1..(a + b)
      BY <2>2, <1>3, LenProperties
    <2>4. end - begin \in Nat
      BY <1>3
    <2>5. a + b = end - begin
      <3>1. PICK x \in Nat : x = a + b
        BY <1>5, <1>6
      <3>2. PICK y \in Nat : y = end - begin
        BY <2>4
      <3>3. (x \in 1..x \/ x = 0) /\ (y \in 1..y \/ y = 0)
        OBVIOUS
      <3>4. 1..x = 1..y
        BY <2>3, <3>1, <3>2
      <3>5. x <= y
        BY <3>3, <3>4
      <3>6. y <= x
        BY <3>3, <3>4
      <3>7. x = y
        BY <3>5, <3>6
      <3> QED
        BY <3>1, <3>2, <3>7, Zenon
    <2> QED
      BY <2>1, <2>5, <1>7
  <1>10. mid = begin + a
    BY DEF a
  <1> DEFINE k(p) == p + 1 - begin
  <1>11. \A p \in all : /\ k(p) \in 1..(end - begin)
                        /\ k(p) <= a => m[p] = s[k(p)] /\ k(p) \in 1..a
                        /\ k(p) > a => m[p] = t[k(p) - a] /\ k(p) - a \in 1..b
    <2> TAKE p \in all
    <2>1. k(p) \in Int
      OBVIOUS
    <2>2. k(p) \in 1..(end - begin) /\ m[p] = moved[k(p)]
      <3>1. m[p] = moved[p + 1 - begin]
        BY <1>2
      <3>2. k(p) \in 1..(end - begin)
        OBVIOUS
      <3> QED
        BY <3>1, <3>2
    <2> HIDE DEF k
    <2>3. k(p) <= a => k(p) \in 1..a
      BY <2>1, <2>2, <1>5
    <2>4. k(p) > a => k(p) - a \in 1..b
      BY <2>1, <2>2, <1>5, <1>6, <1>9
    <2>5. k(p) <= a => m[p] = s[k(p)]
      BY <2>2, <1>9
    <2>6. k(p) > a => m[p] = t[k(p) - a]
      <3> HAVE k(p) > a
      <3>1. ~(k(p) <= a)
        BY <2>1, <1>5
      <3> QED
        BY <3>1, <2>2, <1>9
    <2> QED
      BY <2>2, <2>3, <2>4, <2>5, <2>6, Zenon
  <1>12. \A p \in all : p < mid <=> p + 1 - begin <= a
    BY <1>5, <1>10
  <1>13. ASSUME NEW p \in all PROVE m[p] \in all /\ (p < mid <=> m[p] \in same)
    <2>1. CASE p < mid
      BY <2>1, <1>5, <1>11, <1>12
    <2>2. CASE ~(p < mid)
      <3>1. p + 1 - begin > a
        BY <2>2, <1>5, <1>12
      <3>2. m[p] \in other
        BY <3>1, <1>6, <1>11
      <3> QED
        BY <2>2, <3>2
    <2> QED
      BY <2>1, <2>2
  <1>14. ASSUME NEW p \in all, NEW q \in all, p < q, q < mid \/ mid <= p
         PROVE  m[p] < m[q]
    <2>1. CASE q < mid
      <3>1. p < mid
        BY <2>1, <1>14, <1>3
      <3>2. p + 1 - begin < q + 1 - begin
        BY <1>14
      <3>3. /\ m[p] = s[p + 1 - begin] /\ p + 1 - begin \in 1..a
            /\ m[q] = s[q + 1 - begin] /\ q + 1 - begin \in 1..a
        BY <2>1, <3>1, <1>11, <1>12
      <3>4. s[p + 1 - begin] < s[q + 1 - begin]
        BY <3>2, <3>3, <1>5
      <3> QED
        BY <3>3, <3>4, Zenon
    <2>2. CASE mid <= p
      <3>1. ~(p < mid) /\ ~(q < mid)
        BY <2>2, <1>14, <1>3
      <3>2. p + 1 - begin > a /\ q + 1 - begin > a
        BY <3>1, <1>5, <1>12
      <3>3. /\ m[p] = t[k(p) - a] /\ k(p) - a \in 1..b
            /\ m[q] = t[k(q) - a] /\ k(q) - a \in 1..b
        BY <3>2, <1>11
      <3>4. k(p) - a < k(q) - a
        BY <1>14, <1>5
      <3> HIDE DEF k
      <3>5. t[k(p) - a] < t[k(q) - a]
        BY <3>3, <3>4, <1>6
      <3> QED
        BY <3>3, <3>5
    <2> QED
      BY <2>1, <2>2, <1>14
  <1>15. Partitions(m, begin, end, mid, same)
    BY <1>13, <1>14 DEF Partitions
  <1>16. Source(begin, end, same) = m
    BY <1>1, <1>2 DEF Source
  <1> QED
    BY <1>3, <1>15, <1>16

LEMMA UndoneFacts ==
  ASSUME NEW L \in Nat, NEW set, Separate(set, L)
  PROVE  /\ Undone(set) \subseteq 0..(L - 1)
         /\ \A p : p \in Undone(set) <=> \E r \in set : p \in r[1]..(r[3] - 1)
  <1>1. \A p : p \in Undone(set) <=> \E r \in set : p \in r[1]..(r[3] - 1)
    BY DEF Undone
  <1>2. \A r \in set : r[1] \in Nat /\ r[3] \in Nat /\ r[3] <= L
    BY DEF Separate
  <1>3. \A r \in set : r[1]..(r[3] - 1) \subseteq 0..(L - 1)
    BY <1>2
  <1> QED
    BY <1>1, <1>3

\* Of the positions a round has not come to, those in the class of a shard are side by side.
LEMMA Apart ==
  ASSUME NEW L \in Nat, NEW A, DOMAIN A = 0..(L - 1), NEW h, SideBySide(A, h),
         NEW set, Separate(set, L), Ranges(A, h, set, L),
         NEW r \in set, NEW p \in r[1]..(r[2] - 1),
         NEW q \in Undone(set), q \notin r[1]..(r[2] - 1)
  PROVE  h[A[q]] # h[A[p]]
  <1>1. PICK s \in set : q \in s[1]..(s[3] - 1)
    BY UndoneFacts
  <1>2. /\ r[1] \in Nat /\ r[2] \in Nat /\ r[3] \in Nat
        /\ r[1] < r[2] /\ r[2] <= r[3] /\ r[3] <= L
    BY DEF Separate
  <1>3. s[1] \in Nat /\ s[3] \in Nat /\ s[3] <= L
    BY DEF Separate
  <1>4. s # r => r[3] <= s[1] \/ s[3] <= r[1]
    BY DEF Separate
  <1>5. h[A[p]] = h[A[r[1]]]
    BY DEF Ranges
  <1>6. CASE r[2] <= q
    <2>1. p \in 0..(L - 1) /\ r[2] \in 0..(L - 1) /\ q \in 0..(L - 1) /\ p <= r[2] /\ r[2] < L
      BY <1>1, <1>2, <1>3, <1>6
    <2>2. h[A[r[2]]] # h[A[r[1]]]
      BY <2>1 DEF Ranges
    <2> QED
      BY <2>1, <2>2, <1>5, <1>6 DEF SideBySide
  <1>7. CASE q < r[1]
    <2>1. s[3] <= r[1]
      BY <1>1, <1>2, <1>3, <1>4, <1>7
    <2>2. /\ q \in 0..(L - 1) /\ s[3] \in 0..(L - 1) /\ s[3] - 1 \in 0..(L - 1) /\ p \in 0..(L - 1)
          /\ q <= s[3] - 1 /\ s[3] - 1 <= p /\ q <= s[3] /\ s[3] <= p /\ s[3] < L
      <3>1. PICK a \in Nat : a = s[1]
        BY <1>3
      <3>2. PICK e \in Nat : e = s[3]
        BY <1>3
      <3>3. PICK b \in Nat : b = r[1]
        BY <1>2
      <3>4. p \in Int /\ b <= p /\ p < L
        BY <3>3, <1>2
      <3>5. q \in a..(e - 1) /\ e <= b
        BY <3>1, <3>2, <3>3, <1>1, <2>1
      <3>6. /\ q \in 0..(L - 1) /\ e \in 0..(L - 1) /\ e - 1 \in 0..(L - 1) /\ p \in 0..(L - 1)
            /\ q <= e - 1 /\ e - 1 <= p /\ q <= e /\ e <= p /\ e < L
        BY <3>4, <3>5
      <3> QED
        BY <3>2, <3>6
    <2>3. h[A[s[3]]] # h[A[s[3] - 1]]
      BY <2>2 DEF Ranges
    <2> SUFFICES ASSUME h[A[q]] = h[A[p]] PROVE FALSE
      OBVIOUS
    <2>4. h[A[s[3]]] = h[A[q]]
      BY <2>2 DEF SideBySide
    <2>5. h[A[s[3] - 1]] = h[A[q]]
      BY <2>2 DEF SideBySide
    <2> QED
      BY <2>3, <2>4, <2>5
  <1> QED
    BY <1>1, <1>2, <1>3, <1>6, <1>7

\* A shard goes on after what it has done, at a class.
LEMMA AdvanceRanges ==
  ASSUME NEW L \in Nat, L = Len(chunks), Separate(shards, L),
         Ranges(Row(chunks), Half(cnt), shards, L), NEW r \in shards,
         NEW mid \in (r[1] + 1)..r[2], Advance(r, mid)
  PROVE  /\ Ranges(Row(chunks), Half(cnt), shards', L)
         /\ Undone(shards') = Undone(shards) \ (r[1]..(mid - 1))
  <1> DEFINE rest == CASE mid < r[2] -> {<<mid, r[2], r[3]>>}
                       [] mid = r[2] /\ mid < r[3] -> {<<mid, FindBoundary(mid, r[3]), r[3]>>}
                       [] OTHER -> {}
             A == Row(chunks)
             h == Half(cnt)
  <1>1. shards' = (shards \ {r}) \cup rest
    BY DEF Advance
  <1>2. /\ r[1] \in Nat /\ r[2] \in Nat /\ r[3] \in Nat
        /\ r[1] < r[2] /\ r[2] <= r[3] /\ r[3] <= L
    BY DEF Separate
  <1>3. mid \in Nat /\ r[1] < mid /\ mid <= r[2]
    BY <1>2
  <1>4. /\ \A i \in r[1]..(r[2] - 1) : h[A[i]] = h[A[r[1]]]
        /\ r[2] < L => h[A[r[2]]] # h[A[r[1]]]
        /\ r[3] < L => h[A[r[3]]] # h[A[r[3] - 1]]
    BY DEF Ranges
  <1>5. \A i, j \in 0..(L - 1) : SameClass(At(i), At(j)) <=> h[A[i]] = h[A[j]]
    BY DEF SameClass, At, Row
  <1>6. \A q \in rest : \E e \in Nat :
          /\ q = <<mid, e, r[3]>> /\ mid < r[3]
          /\ \A i \in mid..(e - 1) : h[A[i]] = h[A[mid]]
          /\ e < L => h[A[e]] # h[A[mid]]
    <2>1. CASE mid < r[2]
      <3>1. mid \in r[1]..(r[2] - 1) /\ \A i \in mid..(r[2] - 1) : i \in r[1]..(r[2] - 1)
        BY <2>1, <1>2, <1>3
      <3>2. /\ \A i \in mid..(r[2] - 1) : h[A[i]] = h[A[mid]]
            /\ r[2] < L => h[A[r[2]]] # h[A[mid]]
        BY <3>1, <1>4
      <3>3. rest = {<<mid, r[2], r[3]>>} /\ mid < r[3]
        BY <2>1, <1>2, <1>3
      <3> QED
        BY <3>2, <3>3, <1>2
    <2>2. CASE mid = r[2] /\ mid < r[3]
      <3>1. PICK e : e = FindBoundary(mid, r[3])
        OBVIOUS
      <3>2. /\ e \in (mid + 1)..r[3]
            /\ \A i \in mid..(e - 1) : SameClass(At(mid), At(i))
            /\ e # r[3] => ~SameClass(At(mid), At(e))
        BY <3>1, <2>2, <1>2, <1>3, FindBoundaryFacts
      <3>3. e \in Nat /\ mid < e /\ e <= r[3] /\ mid \in 0..(L - 1)
        BY <3>2, <2>2, <1>2, <1>3
      <3>4. rest = {<<mid, e, r[3]>>}
        BY <3>1, <2>2, <1>2
      <3>5. \A i \in mid..(e - 1) : h[A[i]] = h[A[mid]]
        <4> TAKE i \in mid..(e - 1)
        <4>1. i \in 0..(L - 1) /\ SameClass(At(mid), At(i))
          BY <3>2, <3>3, <1>2
        <4> QED
          BY <4>1, <3>3, <1>5
      <3>6. e < L => h[A[e]] # h[A[mid]]
        <4> HAVE e < L
        <4>1. e \in 0..(L - 1)
          BY <3>3
        <4>2. CASE e # r[3]
          BY <4>1, <4>2, <3>2, <3>3, <1>5
        <4>3. CASE e = r[3]
          <5>1. r[3] - 1 \in mid..(e - 1)
            BY <4>3, <3>3
          <5>2. h[A[r[3] - 1]] = h[A[mid]]
            BY <5>1, <3>5
          <5> QED
            BY <5>2, <4>3, <1>4
        <4> QED
          BY <4>2, <4>3
      <3> HIDE DEF rest, A, h
      <3> QED
        BY <3>3, <3>4, <3>5, <3>6, <2>2
    <2>3. CASE ~(mid < r[2]) /\ ~(mid = r[2] /\ mid < r[3])
      BY <2>3
    <2> QED
      BY <2>1, <2>2, <2>3
  <1>7. mid < r[3] => \E e : <<mid, e, r[3]>> \in rest
    <2>1. CASE mid < r[2]
      <3>1. rest = {<<mid, r[2], r[3]>>}
        BY <2>1
      <3> HIDE DEF rest
      <3> QED
        BY <3>1
    <2>2. CASE mid = r[2] /\ mid < r[3]
      <3>1. ~(mid < r[2])
        BY <2>2, <1>2
      <3>2. rest = {<<mid, FindBoundary(mid, r[3]), r[3]>>}
        BY <2>2, <3>1
      <3> HIDE DEF rest
      <3> QED
        BY <3>2
    <2>3. mid < r[2] \/ mid = r[2]
      BY <1>2, <1>3
    <2> HIDE DEF rest
    <2> QED
      BY <2>1, <2>2, <2>3, Zenon
  <1> HIDE DEF rest, A, h
  <1>8. Ranges(A, h, shards', L)
    <2> SUFFICES ASSUME NEW q \in shards'
                 PROVE  /\ \A i \in q[1]..(q[2] - 1) : h[A[i]] = h[A[q[1]]]
                        /\ q[2] < L => h[A[q[2]]] # h[A[q[1]]]
                        /\ q[3] < L => h[A[q[3]]] # h[A[q[3] - 1]]
      BY DEF Ranges
    <2>1. CASE q \in shards
      BY <2>1 DEF Ranges, A, h
    <2>2. CASE q \in rest
      <3>1. PICK e \in Nat :
              /\ q = <<mid, e, r[3]>> /\ mid < r[3]
              /\ \A i \in mid..(e - 1) : h[A[i]] = h[A[mid]]
              /\ e < L => h[A[e]] # h[A[mid]]
        BY <2>2, <1>6
      <3>2. q[1] = mid /\ q[2] = e /\ q[3] = r[3]
        BY <3>1
      <3> QED
        BY <3>1, <3>2, <1>4
    <2> QED
      BY <2>1, <2>2, <1>1
  <1>9. Undone(shards') = Undone(shards) \ (r[1]..(mid - 1))
    <2>1. ASSUME NEW p \in Undone(shards') PROVE p \in Undone(shards) \ (r[1]..(mid - 1))
      <3>1. PICK q \in shards' : p \in q[1]..(q[3] - 1)
        BY DEF Undone
      <3>2. CASE q \in shards /\ q # r
        <4>1. q[1] \in Nat /\ q[3] \in Nat /\ (r[3] <= q[1] \/ q[3] <= r[1])
          BY <3>2 DEF Separate
        <4>2. p \notin r[1]..(mid - 1)
          BY <3>1, <4>1, <1>2, <1>3
        <4> QED
          BY <3>1, <3>2, <4>2 DEF Undone
      <3>3. CASE q \in rest
        <4>1. q[1] = mid /\ q[3] = r[3]
          BY <3>3, <1>6
        <4>2. p \in r[1]..(r[3] - 1) /\ p \notin r[1]..(mid - 1)
          BY <3>1, <4>1, <1>2, <1>3
        <4> QED
          BY <4>2 DEF Undone
      <3> QED
        BY <3>2, <3>3, <1>1
    <2>2. ASSUME NEW p \in Undone(shards), p \notin r[1]..(mid - 1) PROVE p \in Undone(shards')
      <3>1. PICK q \in shards : p \in q[1]..(q[3] - 1)
        BY DEF Undone
      <3>2. CASE q # r
        BY <3>1, <3>2, <1>1 DEF Undone
      <3>3. CASE q = r
        <4>1. mid < r[3] /\ p \in mid..(r[3] - 1)
          BY <2>2, <3>1, <3>3, <1>2, <1>3
        <4>2. PICK e : <<mid, e, r[3]>> \in rest
          BY <4>1, <1>7
        <4>3. PICK z : z = <<mid, e, r[3]>>
          OBVIOUS
        <4>4. z \in shards' /\ p \in z[1]..(z[3] - 1)
          BY <4>1, <4>2, <4>3, <1>1
        <4> QED
          BY <4>4 DEF Undone
      <3> QED
        BY <3>2, <3>3
    <2> QED
      BY <2>1, <2>2
  <1> QED
    BY <1>8, <1>9 DEF A, h

\* Every boundary between shards is one between classes, and the shards are all there is.
LEMMA ShardsRanges ==
  ASSUME NEW L \in Nat, L = Len(chunks)
  PROVE  /\ Ranges(Row(chunks), Half(cnt), Shards, L)
         /\ Undone(Shards) = 0..(L - 1)
  <1> DEFINE range == IF L < MinParallel THEN {<<0, L>>}
                        ELSE {<<Boundary(i - 1), Boundary(i)>> : i \in 1..NumShards}
             proper == {q \in range : q[1] < q[2]}
             start(r) == <<r[1], FindBoundary(r[1], r[2]), r[2]>>
             A == Row(chunks)
             h == Half(cnt)
  <1>1. Shards = {start(r) : r \in proper}
    BY DEF Shards
  <1>2. \A i, j \in 0..(L - 1) : SameClass(At(i), At(j)) <=> h[A[i]] = h[A[j]]
    BY DEF SameClass, At, Row
  <1>3. /\ \A r \in range : /\ r[1] \in Nat /\ r[2] \in Nat /\ r[2] <= L
                            /\ r[2] < L /\ r[1] < r[2] => h[A[r[2]]] # h[A[r[2] - 1]]
        /\ \A p \in 0..(L - 1) : \E r \in range : r[1] <= p /\ p < r[2]
    <2>1. CASE L < MinParallel
      <3>1. range = {<<0, L>>}
        BY <2>1
      <3>2. PICK z : z = <<0, L>>
        OBVIOUS
      <3>3. z[1] = 0 /\ z[2] = L /\ range = {z}
        BY <3>1, <3>2
      <3>4. \A p \in 0..(L - 1) : 0 <= p /\ p < L
        OBVIOUS
      <3> HIDE DEF range, A, h
      <3> QED
        BY <3>3, <3>4
    <2>2. CASE ~(L < MinParallel)
      <3>1. L >= NumShards /\ NumShards \in Nat /\ NumShards >= 1
        <4>1. MinParallel >= NumShards /\ NumShards \in Nat /\ NumShards # 0 /\ MinParallel \in Nat
          BY ShardsAssumption
        <4> QED
          BY <4>1, <2>2
      <3>2. /\ \A i \in 0..NumShards : Boundary(i) \in 0..L
            /\ \A i, j \in 0..NumShards : i <= j => Boundary(i) <= Boundary(j)
        BY <3>1, BoundariesGrow
      <3>3. range = {<<Boundary(i - 1), Boundary(i)>> : i \in 1..NumShards}
        BY <2>2
      <3>4. \A i \in 1..NumShards : i - 1 \in 0..NumShards /\ i \in 0..NumShards
        BY <3>1
      <3> HIDE DEF range, A, h
      <3>5. ASSUME NEW i \in 1..NumShards, Boundary(i) < L
            PROVE  h[A[Boundary(i)]] # h[A[Boundary(i) - 1]]
        <4>1. i # 0 /\ i # NumShards
          BY <3>1, <3>5 DEF Boundary
        <4>2. PICK x : x = (i - 1) * (Len(chunks) \div NumShards)
          OBVIOUS
        <4>3. Boundary(i) = FindBoundary(x, L)
          BY <4>1, <4>2 DEF Boundary
        <4>4. x \in Nat /\ x < L
          <5>1. PICK k \in Nat : k = L \div NumShards
            BY <3>1
          <5>2. NumShards * k <= L /\ k >= 1
            BY <5>1, <3>1, SMTT(30)
          <5>3. i - 1 \in Nat /\ i - 1 <= NumShards - 1
            BY <3>1
          <5>4. (i - 1) * k \in Nat /\ (i - 1) * k <= (NumShards - 1) * k
            BY <5>1, <5>3, <3>1, SMTT(30)
          <5>5. (NumShards - 1) * k < NumShards * k
            BY <5>1, <5>2, <3>1, SMTT(30)
          <5>6. (i - 1) * k < L
            <6>1. PICK u \in Nat : u = (i - 1) * k
              BY <5>4
            <6>2. PICK v \in Int : v = (NumShards - 1) * k
              BY <5>1, <3>1
            <6>3. PICK w \in Int : w = NumShards * k
              BY <5>1, <3>1
            <6> QED
              BY <6>1, <6>2, <6>3, <5>2, <5>4, <5>5
          <5> QED
            BY <5>1, <5>4, <5>6, <4>2
        <4>5. PICK b : b = Boundary(i)
          OBVIOUS
        <4>6. /\ b \in (x + 1)..L
              /\ \A j \in x..(b - 1) : SameClass(At(x), At(j))
              /\ b # L => ~SameClass(At(x), At(b))
          BY <4>3, <4>4, <4>5, FindBoundaryFacts
        <4>7. b < L /\ b \in 0..(L - 1) /\ b - 1 \in x..(b - 1) /\ b - 1 \in 0..(L - 1) /\ x \in 0..(L - 1)
          BY <4>4, <4>5, <4>6, <3>5
        <4>8. h[A[x]] = h[A[b - 1]]
          BY <4>6, <4>7, <1>2
        <4>9. h[A[x]] # h[A[b]]
          BY <4>6, <4>7, <1>2
        <4> QED
          BY <4>5, <4>8, <4>9
      <3>6. ASSUME NEW r \in range
            PROVE  /\ r[1] \in Nat /\ r[2] \in Nat /\ r[2] <= L
                   /\ r[2] < L /\ r[1] < r[2] => h[A[r[2]]] # h[A[r[2] - 1]]
        <4>1. PICK i \in 1..NumShards : r = <<Boundary(i - 1), Boundary(i)>>
          BY <3>3
        <4>2. r[1] = Boundary(i - 1) /\ r[2] = Boundary(i)
          BY <4>1
        <4>3. Boundary(i - 1) \in 0..L /\ Boundary(i) \in 0..L
          BY <3>2, <3>4
        <4> QED
          BY <4>2, <4>3, <3>5
      <3>7. ASSUME NEW p \in 0..(L - 1)
            PROVE  \E r \in range : r[1] <= p /\ p < r[2]
        <4> DEFINE above == {i \in 0..NumShards : p < Boundary(i)}
        <4>1. above \in SUBSET Nat /\ NumShards \in above
          BY <3>1 DEF Boundary
        <4>2. PICK i \in above : \A j \in above : i <= j
          <5> HIDE DEF above
          <5> QED
            BY <4>1, LeastExists
        <4>3. i # 0
          <5>1. Boundary(0) = 0
            BY <3>1 DEF Boundary
          <5>2. p < Boundary(i)
            OBVIOUS
          <5> QED
            BY <5>1, <5>2
        <4>4. i \in 1..NumShards /\ i - 1 \in 0..NumShards /\ i - 1 \notin above
          BY <3>1, <4>2, <4>3
        <4>5. Boundary(i - 1) <= p
          BY <4>4, <3>2
        <4>6. PICK r : r = <<Boundary(i - 1), Boundary(i)>>
          OBVIOUS
        <4>7. r \in range /\ r[1] <= p /\ p < r[2]
          BY <4>4, <4>5, <4>6, <3>3
        <4> QED
          BY <4>7
      <3> QED
        BY <3>6, <3>7
    <2> QED
      BY <2>1, <2>2
  <1> HIDE DEF range, A, h
  <1>4. ASSUME NEW z \in Shards
        PROVE  /\ z[1] \in Nat /\ z[3] \in Nat /\ z[3] <= L
               /\ \A i \in z[1]..(z[2] - 1) : h[A[i]] = h[A[z[1]]]
               /\ z[2] < L => h[A[z[2]]] # h[A[z[1]]]
               /\ z[3] < L => h[A[z[3]]] # h[A[z[3] - 1]]
    <2>1. PICK r \in range : r[1] < r[2] /\ z = start(r)
      BY <1>1
    <2>2. /\ r[1] \in Nat /\ r[2] \in Nat /\ r[2] <= L
          /\ r[2] < L => h[A[r[2]]] # h[A[r[2] - 1]]
      BY <1>3, <2>1
    <2>3. PICK b : b = FindBoundary(r[1], r[2])
      OBVIOUS
    <2>4. /\ b \in (r[1] + 1)..r[2]
          /\ \A i \in r[1]..(b - 1) : SameClass(At(r[1]), At(i))
          /\ b # r[2] => ~SameClass(At(r[1]), At(b))
      BY <2>1, <2>2, <2>3, FindBoundaryFacts
    <2>5. z[1] = r[1] /\ z[2] = b /\ z[3] = r[2]
      BY <2>1, <2>3
    <2>6. r[1] \in 0..(L - 1) /\ \A i \in r[1]..(b - 1) : i \in 0..(L - 1)
      BY <2>1, <2>2, <2>4
    <2>7. \A i \in r[1]..(b - 1) : h[A[i]] = h[A[r[1]]]
      BY <2>4, <2>6, <1>2
    <2>8. b < L => h[A[b]] # h[A[r[1]]]
      <3> HAVE b < L
      <3>1. CASE b # r[2]
        <4>1. b \in 0..(L - 1)
          BY <2>2, <2>4
        <4> QED
          BY <3>1, <4>1, <2>4, <2>6, <1>2
      <3>2. CASE b = r[2]
        <4>1. r[2] - 1 \in r[1]..(b - 1)
          BY <3>2, <2>1, <2>2
        <4>2. h[A[r[2] - 1]] = h[A[r[1]]]
          BY <4>1, <2>7
        <4> QED
          BY <3>2, <4>2, <2>2
      <3> QED
        BY <3>1, <3>2
    <2> QED
      BY <2>2, <2>5, <2>7, <2>8
  <1>5. Ranges(A, h, Shards, L)
    BY <1>4 DEF Ranges
  <1>6. Undone(Shards) \subseteq 0..(L - 1)
    <2>1. \A z \in Shards : z[1]..(z[3] - 1) \subseteq 0..(L - 1)
      BY <1>4
    <2> QED
      BY <2>1 DEF Undone
  <1>7. ASSUME NEW p \in 0..(L - 1) PROVE p \in Undone(Shards)
    <2>1. PICK r \in range : r[1] <= p /\ p < r[2]
      BY <1>3, <1>7
    <2>2. r[1] \in Nat /\ r[2] \in Nat /\ r[1] < r[2]
      BY <2>1, <1>3
    <2>3. start(r) \in Shards
      BY <2>2, <1>1
    <2>4. PICK z \in Shards : z[1] = r[1] /\ z[3] = r[2]
      BY <2>3
    <2>5. p \in z[1]..(z[3] - 1)
      BY <2>1, <2>2, <2>4
    <2> QED
      BY <2>5 DEF Undone
  <1> QED
    BY <1>5, <1>6, <1>7 DEF A, h

Equivalence(J, E) ==
  /\ \A a \in E : <<a, a>> \in J
  /\ \A a, b \in E : <<a, b>> \in J => <<b, a>> \in J
  /\ \A a, b, c \in E : <<a, b>> \in J /\ <<b, c>> \in J => <<a, c>> \in J

\* A lists elements of E.
Listing(A, L, E) ==
  /\ DOMAIN A = 0..(L - 1)
  /\ Injective(A)
  /\ \A p \in 0..(L - 1) : A[p] \in E

\* What belongs with the first section of the class is moved to the front.
Moved(B, A, L, begin, end, mid, same) ==
  \E m : /\ Partitions(m, begin, end, mid, same)
         /\ B = [p \in 0..(L - 1) |-> IF p \in begin..(end - 1) THEN A[m[p]] ELSE A[p]]

\* These sections get a new class.
Reclassed(k, n, A, E, mid, same) ==
  \A s \in E : n[s] \in Nat /\ k[s] = IF s \in {A[i] : i \in same} THEN mid ELSE n[s]

\* The positions of what belongs with the first section of the class
Chosen(same, A, J, begin, end) ==
  /\ same \subseteq begin..(end - 1) /\ begin \in same
  /\ \A i \in begin..(end - 1) : i \in same <=> <<A[begin], A[i]>> \in J

Within(J, E, h) ==
  /\ Equivalence(J, E)
  /\ \A a, b \in E : <<a, b>> \in J => h[a] = h[b]

\* One iteration of segregate: A, n become B, k.
Iteration(A, B, n, k, L, E, h, J, set, r, same, mid) ==
  /\ L \in Nat /\ E \subseteq Nat /\ Listing(A, L, E) /\ Within(J, E, h)
  /\ SideBySide(A, h) /\ Separate(set, L) /\ Ranges(A, h, set, L) /\ r \in set
  /\ Chosen(same, A, J, r[1], r[2]) /\ mid \in (r[1] + 1)..r[2]
  /\ Moved(B, A, L, r[1], r[2], mid, same) /\ Reclassed(k, n, A, E, mid, same)
  /\ Groups(A, h, n, J, Undone(set), L)

LEMMA GroupsStep ==
  ASSUME NEW A, NEW B, NEW n, NEW k, NEW L, NEW E, NEW h, NEW J, NEW set, NEW r, NEW same, NEW mid,
         Iteration(A, B, n, k, L, E, h, J, set, r, same, mid)
  PROVE  /\ Groups(B, h, k, J, Undone(set) \ (r[1]..(mid - 1)), L)
         /\ \A p \in 0..(L - 1) : h[B[p]] = h[A[p]]
         /\ Whole(A, h, n, Undone(set)) /\ mid = r[2] =>
              Whole(B, h, k, Undone(set) \ (r[1]..(mid - 1)))
  <1>1. PICK begin : begin = r[1]
    OBVIOUS
  <1>2. PICK end : end = r[2]
    OBVIOUS
  <1>3. PICK U : U = Undone(set)
    OBVIOUS
  <1>4. PICK V : V = U \ (begin..(mid - 1))
    OBVIOUS
  <1>5. /\ L \in Nat /\ E \subseteq Nat /\ Listing(A, L, E) /\ Within(J, E, h)
        /\ SideBySide(A, h) /\ Separate(set, L) /\ Ranges(A, h, set, L) /\ r \in set
        /\ Chosen(same, A, J, begin, end) /\ mid \in (begin + 1)..end
        /\ Moved(B, A, L, begin, end, mid, same) /\ Reclassed(k, n, A, E, mid, same)
        /\ Groups(A, h, n, J, U, L)
    BY <1>1, <1>2, <1>3 DEF Iteration
  <1> USE <1>1, <1>2, <1>3, <1>4, <1>5
  <1> DEFINE class == begin..(end - 1)
             group == begin..(mid - 1)
             D == (0..(L - 1)) \ U
  <1>6. \A s \in E : n[s] \in Nat /\ k[s] = IF s \in {A[i] : i \in same} THEN mid ELSE n[s]
    BY DEF Reclassed
  <1>7. /\ same \subseteq begin..(end - 1) /\ begin \in same
        /\ \A i \in begin..(end - 1) : i \in same <=> <<A[begin], A[i]>> \in J
    BY DEF Chosen
  <1> USE <1>6, <1>7
  <1>8. begin \in Nat /\ end \in Nat /\ mid \in Nat /\ begin < mid /\ mid <= end /\ end <= L
    BY DEF Separate
  <1>9. /\ class \subseteq U /\ U \subseteq 0..(L - 1) /\ group \subseteq class
    <2>1. /\ U \subseteq 0..(L - 1) /\ \A p \in r[1]..(r[3] - 1) : p \in U
      BY UndoneFacts
    <2>2. r[2] <= r[3] /\ r[3] \in Nat
      BY DEF Separate
    <2>3. class \subseteq r[1]..(r[3] - 1) /\ group \subseteq class
      BY <2>2, <1>8
    <2> QED
      BY <2>1, <2>3
  <1>10. PICK m :
           /\ Partitions(m, begin, end, mid, same)
           /\ B = [p \in 0..(L - 1) |-> IF p \in begin..(end - 1) THEN A[m[p]] ELSE A[p]]
    BY DEF Moved
  <1>11. /\ DOMAIN B = 0..(L - 1)
         /\ \A p \in class : m[p] \in class /\ B[p] = A[m[p]] /\ p \in 0..(L - 1)
         /\ \A p \in 0..(L - 1) : p \notin class => B[p] = A[p]
    BY <1>10, <1>9 DEF Partitions
  <1>12. \A i \in class : h[A[i]] = h[A[begin]]
    BY DEF Ranges
  <1>13. \A i, j \in 0..(L - 1) : A[i] \in E /\ (A[i] = A[j] => i = j)
    BY DEF Listing, Injective
  <1>14. begin \in class /\ begin \in 0..(L - 1) /\ A[begin] \in E
    BY <1>8, <1>13
  <1>15. Equivalence(J, E) /\ \A a, b \in E : <<a, b>> \in J => h[a] = h[b]
    BY DEF Within
  <1>16. /\ DOMAIN A = 0..(L - 1)
         /\ \A p, q \in D : n[A[p]] = n[A[q]] <=> <<A[p], A[q]>> \in J
         /\ \A p \in D : \A q \in U : <<A[p], A[q]>> \notin J
         /\ \A p \in D : /\ p < n[A[p]] /\ n[A[p]] <= L
                          /\ \A j \in p..(n[A[p]] - 1) : j \notin U /\ n[A[j]] = n[A[p]]
         /\ InOrder(A, h, U) /\ InOrder(A, n, D)
    BY DEF Groups, Listing
  <1>17. (0..(L - 1)) \ V = D \cup group /\ V \subseteq U /\ V \cap group = {}
    BY <1>9
  <1>18. \A p \in D : p \in 0..(L - 1) /\ p \notin class /\ p \notin U
    BY <1>9
  <1>19. \A p \in class : p \in group <=> p < mid
    BY <1>8
  <1>20. /\ \A p \in class : p < mid <=> m[p] \in same
         /\ \A p, q \in class : p < q /\ (q < mid \/ mid <= p) => m[p] < m[q]
    BY <1>10 DEF Partitions
  <1>21. \A p \in 0..(L - 1) : p \in U \/ p \in D
    OBVIOUS
  <1> HIDE DEF class, group, D
  <1>22. \A p \in 0..(L - 1) : h[B[p]] = h[A[p]] /\ B[p] \in E
    <2> TAKE p \in 0..(L - 1)
    <2>1. CASE p \in class
      <3>1. m[p] \in class /\ B[p] = A[m[p]] /\ m[p] \in 0..(L - 1)
        BY <2>1, <1>9, <1>11
      <3> QED
        BY <2>1, <3>1, <1>12, <1>13
    <2>2. CASE p \notin class
      BY <2>2, <1>11, <1>13
    <2> QED
      BY <2>1, <2>2
  <1>23. \A i \in class : i \in same <=> <<A[begin], A[i]>> \in J
    BY DEF class
  <1>24. same \subseteq class
    BY DEF class
  <1>25. \A i \in D : B[i] = A[i] /\ k[B[i]] = n[A[i]] /\ A[i] \in E
    <2> TAKE i \in D
    <2>1. i \in 0..(L - 1) /\ i \notin class
      BY <1>18
    <2>2. \A x \in same : A[i] # A[x]
      BY <2>1, <1>9, <1>13, <1>24
    <2>3. k[A[i]] = n[A[i]]
      BY <2>1, <2>2, <1>13 DEF Reclassed
    <2> QED
      BY <2>1, <2>3, <1>11, <1>13
  <1>26. \A p \in group : /\ p \in class /\ m[p] \in same /\ k[B[p]] = mid
                          /\ <<A[begin], B[p]>> \in J /\ B[p] \in E /\ p < mid
    <2> TAKE p \in group
    <2>1. p \in class /\ p < mid
      BY <1>9, <1>19
    <2>2. m[p] \in same
      BY <2>1, <1>20
    <2>3. B[p] = A[m[p]] /\ B[p] \in E
      BY <2>1, <1>11, <1>22
    <2>4. k[B[p]] = mid
      BY <2>2, <2>3 DEF Reclassed
    <2>5. <<A[begin], B[p]>> \in J
      BY <2>2, <2>3, <1>23, <1>24
    <2> QED
      BY <2>1, <2>2, <2>3, <2>4, <2>5
  <1>27. \A q \in V : q \notin class => h[B[q]] # h[A[begin]]
    <2> TAKE q \in V
    <2> HAVE q \notin class
    <2>1. q \in U /\ B[q] = A[q]
      BY <1>9, <1>11, <1>17
    <2>2. h[A[q]] # h[A[begin]]
      BY <2>1, <1>14, <1>16, Apart DEF class
    <2> QED
      BY <2>1, <2>2
  <1>28. \A q \in V : q \in class => mid <= q /\ m[q] \in class /\ m[q] \notin same
    <2> TAKE q \in V
    <2> HAVE q \in class
    <2>1. ~(q < mid)
      BY <1>17, <1>19
    <2>2. q \in Int
      BY DEF class
    <2> QED
      BY <2>1, <2>2, <1>8, <1>11, <1>20
  <1>29. \A q \in V : <<A[begin], B[q]>> \notin J
    <2> TAKE q \in V
    <2>1. CASE q \in class
      BY <2>1, <1>11, <1>23, <1>28
    <2>2. CASE q \notin class
      BY <2>2, <1>9, <1>14, <1>22, <1>17, <1>27, <1>15
    <2> QED
      BY <2>1, <2>2
  <1>30. \A p \in D : n[A[p]] # mid
    <2> SUFFICES ASSUME NEW p \in D, n[A[p]] = mid PROVE FALSE
      OBVIOUS
    <2>1. p < mid /\ \A j \in p..(mid - 1) : j \notin U
      BY <1>16
    <2>2. p \in Int /\ p \notin class
      BY <1>18
    <2>3. p < begin
      BY <2>1, <2>2, <1>8 DEF class
    <2>4. begin \in p..(mid - 1)
      BY <2>2, <2>3, <1>8
    <2> QED
      BY <2>1, <2>4, <1>9, <1>14
  <1>31. \A q \in U : \E x \in U : B[q] = A[x]
    <2> TAKE q \in U
    <2>1. CASE q \in class
      BY <2>1, <1>9, <1>11
    <2>2. CASE q \notin class
      BY <2>2, <1>9, <1>11
    <2> QED
      BY <2>1, <2>2
  <1>32. \A p \in D : \A q \in U : <<B[p], B[q]>> \notin J
    BY <1>25, <1>31, <1>16
  <1>33. \A p, q \in D \cup group : k[B[p]] = k[B[q]] <=> <<B[p], B[q]>> \in J
    <2> TAKE p, q \in D \cup group
    <2>1. CASE p \in D /\ q \in D
      BY <2>1, <1>25, <1>16
    <2>2. CASE p \in group /\ q \in group
      <3>1. <<B[p], A[begin]>> \in J
        BY <2>2, <1>14, <1>26, <1>15 DEF Equivalence
      <3>2. <<B[p], B[q]>> \in J
        BY <2>2, <3>1, <1>14, <1>26, <1>15 DEF Equivalence
      <3> QED
        BY <2>2, <3>2, <1>26
    <2>3. CASE p \in D /\ q \in group
      <3>1. <<B[p], B[q]>> \notin J
        BY <2>3, <1>9, <1>26, <1>32
      <3> QED
        BY <2>3, <3>1, <1>25, <1>26, <1>30
    <2>4. CASE p \in group /\ q \in D
      <3>1. <<B[q], B[p]>> \notin J
        BY <2>4, <1>9, <1>26, <1>32
      <3>2. B[q] \in E /\ B[p] \in E
        BY <2>4, <1>25, <1>26
      <3>3. <<B[p], B[q]>> \notin J
        BY <3>1, <3>2, <1>15 DEF Equivalence
      <3> QED
        BY <2>4, <3>3, <1>25, <1>26, <1>30
    <2> QED
      BY <2>1, <2>2, <2>3, <2>4
  <1>34. \A p \in D \cup group : \A q \in V : <<B[p], B[q]>> \notin J
    <2> TAKE p \in D \cup group
    <2> TAKE q \in V
    <2>1. CASE p \in D
      BY <2>1, <1>17, <1>32
    <2>2. CASE p \in group
      <3>1. <<A[begin], B[p]>> \in J /\ <<A[begin], B[q]>> \notin J
        BY <2>2, <1>26, <1>29
      <3>2. B[p] \in E /\ B[q] \in E
        BY <2>2, <1>9, <1>22, <1>26, <1>17
      <3> QED
        BY <3>1, <3>2, <1>14, <1>15 DEF Equivalence
    <2> QED
      BY <2>1, <2>2
  <1>35. \A p \in D \cup group :
           /\ p < k[B[p]] /\ k[B[p]] <= L
           /\ \A j \in p..(k[B[p]] - 1) : j \notin V /\ k[B[j]] = k[B[p]]
    <2> TAKE p \in D \cup group
    <2>1. CASE p \in D
      <3>1. PICK e \in Nat : e = n[A[p]]
        BY <2>1, <1>25
      <3>2. k[B[p]] = e /\ p \in Nat
        BY <2>1, <3>1, <1>25, <1>18
      <3>3. p < e /\ e <= L /\ \A j \in p..(e - 1) : j \notin U /\ n[A[j]] = e
        BY <2>1, <3>1, <1>16
      <3>4. \A j \in p..(e - 1) : j \in 0..(L - 1)
        BY <3>2, <3>3
      <3>5. \A j \in p..(e - 1) : j \in D
        BY <3>3, <3>4, <1>21
      <3>6. \A j \in p..(e - 1) : j \notin V /\ k[B[j]] = e
        BY <3>3, <3>5, <1>25, <1>17
      <3> QED
        BY <3>2, <3>3, <3>6
    <2>2. CASE p \in group
      <3>1. k[B[p]] = mid /\ p < mid
        BY <2>2, <1>26
      <3>2. \A j \in p..(mid - 1) : j \in group
        BY <2>2, <1>8 DEF group
      <3>3. \A j \in p..(mid - 1) : j \notin V /\ k[B[j]] = mid
        BY <3>2, <1>26, <1>17
      <3>4. mid <= L
        BY <1>8
      <3> QED
        BY <3>1, <3>3, <3>4
    <2> QED
      BY <2>1, <2>2
  <1>36. ASSUME NEW i \in class, NEW j \in class, i < j, j < mid \/ mid <= i
         PROVE  B[i] < B[j]
    <2>1. m[i] < m[j]
      BY <1>36, <1>20
    <2>2. m[i] \in class /\ m[j] \in class /\ B[i] = A[m[i]] /\ B[j] = A[m[j]]
      BY <1>11
    <2>3. m[i] \in U /\ m[j] \in U /\ h[A[m[i]]] = h[A[m[j]]]
      BY <2>2, <1>9, <1>12
    <2>4. A[m[i]] < A[m[j]]
      BY <2>1, <2>3, <1>16 DEF InOrder
    <2> QED
      BY <2>2, <2>4
  <1>37. InOrder(B, h, V)
    <2> SUFFICES ASSUME NEW i \in V, NEW j \in V, i < j, h[B[i]] = h[B[j]]
                 PROVE  B[i] < B[j]
      BY DEF InOrder
    <2>1. i \in 0..(L - 1) /\ j \in 0..(L - 1)
      BY <1>9, <1>17
    <2>2. CASE i \in class /\ j \in class
      <3>1. mid <= i
        BY <2>2, <1>28
      <3> QED
        BY <2>2, <3>1, <1>36
    <2>3. CASE i \notin class /\ j \notin class
      <3>1. B[i] = A[i] /\ B[j] = A[j] /\ i \in U /\ j \in U
        BY <2>1, <2>3, <1>11, <1>17
      <3> QED
        BY <3>1, <1>16 DEF InOrder
    <2>4. CASE i \in class /\ j \notin class
      <3>1. h[B[i]] = h[A[begin]] /\ h[B[j]] # h[A[begin]]
        BY <2>1, <2>4, <1>12, <1>22, <1>27
      <3> QED
        BY <3>1
    <2>5. CASE i \notin class /\ j \in class
      <3>1. h[B[j]] = h[A[begin]] /\ h[B[i]] # h[A[begin]]
        BY <2>1, <2>5, <1>12, <1>22, <1>27
      <3> QED
        BY <3>1
    <2> QED
      BY <2>2, <2>3, <2>4, <2>5
  <1>38. InOrder(B, k, D \cup group)
    <2> SUFFICES ASSUME NEW i \in D \cup group, NEW j \in D \cup group, i < j, k[B[i]] = k[B[j]]
                 PROVE  B[i] < B[j]
      BY DEF InOrder
    <2>1. CASE i \in D /\ j \in D
      <3>1. n[A[i]] = n[A[j]] /\ B[i] = A[i] /\ B[j] = A[j]
        BY <2>1, <1>25
      <3> QED
        BY <2>1, <3>1, <1>16 DEF InOrder
    <2>2. CASE i \in group /\ j \in group
      BY <2>2, <1>26, <1>36
    <2>3. CASE i \in D /\ j \in group
      BY <2>3, <1>25, <1>26, <1>30
    <2>4. CASE i \in group /\ j \in D
      BY <2>4, <1>25, <1>26, <1>30
    <2> QED
      BY <2>1, <2>2, <2>3, <2>4
  <1>39. DOMAIN B \ V = D \cup group
    BY <1>11, <1>17
  <1>40. Groups(B, h, k, J, V, L)
    <2>1. \A p, q \in DOMAIN B \ V : k[B[p]] = k[B[q]] <=> <<B[p], B[q]>> \in J
      BY <1>39, <1>33
    <2>2. \A p \in DOMAIN B \ V : \A q \in V : <<B[p], B[q]>> \notin J
      BY <1>39, <1>34
    <2>3. \A p \in DOMAIN B \ V :
            /\ p < k[B[p]] /\ k[B[p]] <= L
            /\ \A j \in p..(k[B[p]] - 1) : j \notin V /\ k[B[j]] = k[B[p]]
      BY <1>39, <1>35
    <2>4. InOrder(B, k, DOMAIN B \ V)
      BY <1>39, <1>38
    <2> QED
      BY <2>1, <2>2, <2>3, <2>4, <1>37, Zenon DEF Groups
  <1>41. ASSUME Whole(A, h, n, U), mid = end PROVE Whole(B, h, k, V)
    <2>1. group = class
      BY <1>41 DEF group, class
    <2>2. \A p \in D : /\ \A q \in D : h[A[p]] = h[A[q]] => n[A[p]] = n[A[q]]
                      /\ \A q \in U : h[A[p]] # h[A[q]]
      BY <1>41, <1>16 DEF Whole, D
    <2>3. \A p, q \in D \cup group : h[B[p]] = h[B[q]] => k[B[p]] = k[B[q]]
      <3> TAKE p, q \in D \cup group
      <3>1. CASE p \in D /\ q \in D
        BY <3>1, <1>25, <2>2
      <3>2. CASE p \in group /\ q \in group
        BY <3>2, <1>26
      <3>3. CASE p \in D /\ q \in group
        <4>1. q \in U /\ p \in 0..(L - 1) /\ q \in 0..(L - 1)
          BY <3>3, <1>9, <1>26, <1>18
        <4> QED
          BY <3>3, <4>1, <2>2, <1>22
      <3>4. CASE p \in group /\ q \in D
        <4>1. p \in U /\ p \in 0..(L - 1) /\ q \in 0..(L - 1)
          BY <3>4, <1>9, <1>26, <1>18
        <4> QED
          BY <3>4, <4>1, <2>2, <1>22
      <3> QED
        BY <3>1, <3>2, <3>3, <3>4
    <2>4. \A p \in D \cup group : \A q \in V : h[B[p]] # h[B[q]]
      <3> TAKE p \in D \cup group
      <3> TAKE q \in V
      <3>1. q \in U /\ q \in 0..(L - 1)
        BY <1>9, <1>17
      <3>2. CASE p \in D
        BY <3>1, <3>2, <1>22, <1>18, <2>2
      <3>3. CASE p \in group
        <4>1. q \notin class /\ p \in class
          BY <3>3, <2>1, <1>17
        <4>2. p \in 0..(L - 1)
          BY <4>1, <1>9
        <4> QED
          BY <4>1, <4>2, <1>12, <1>22, <1>27
      <3> QED
        BY <3>2, <3>3
    <2> QED
      BY <2>3, <2>4, <1>39 DEF Whole
  <1> QED
    BY <1>22, <1>40, <1>41

----------------------------------------------------------------------------
(* Comparing sections *)

LEMMA ConsideredFacts ==
  ASSUME graph \in Graphs, NEW s \in Sections
  PROVE  /\ Considered(s) \in Seq(Sections)
         /\ DOMAIN Considered(s) = 1..Len(Considered(s)) /\ Len(Considered(s)) \in Nat
         /\ \A i \in DOMAIN Considered(s) : Considered(s)[i] \in Sections
  <1> DEFINE list == graph.children[s]
             kept == {i \in DOMAIN list : graph.kind[list[i]] \notin {"codeview", "comdat dwarf"}}
             c == Cardinality(kept)
             f == [n \in 1..c |-> list[Ascending(kept)[n]]]
  <1>1. Considered(s) = f
    BY DEF Considered
  <1>2. list \in Seq(Sections) /\ DOMAIN list = 1..Len(list) /\ Len(list) \in Nat
    BY GraphsAssumption, LenProperties
  <1>3. IsFiniteSet(kept) /\ kept \subseteq Nat
    <2>1. IsFiniteSet(DOMAIN list) /\ DOMAIN list \subseteq Nat
      BY <1>2, FS_Interval
    <2> QED
      BY <2>1, FS_Subset
  <1>4. c \in Nat /\ Ascending(kept) \in [1..c -> kept]
    BY <1>3, AscendingFacts
  <1>5. \A i \in kept : list[i] \in Sections
    BY <1>2, ElementOfSeq
  <1> HIDE DEF kept, c, list
  <1>6. \A i \in 1..c : f[i] \in Sections
    BY <1>4, <1>5
  <1>7. f \in [1..c -> Sections]
    BY <1>6
  <1>8. f \in Seq(Sections)
    BY <1>4, <1>7, SeqDef
  <1>9. DOMAIN f = 1..c
    OBVIOUS
  <1> HIDE DEF f
  <1> QED
    BY <1>1, <1>4, <1>6, <1>8, <1>9, LenProperties

LEMMA RelocFacts ==
  ASSUME graph \in Graphs, NEW s \in Sections
  PROVE  /\ graph.relocs[s] \in Seq(Symbol)
         /\ DOMAIN graph.relocs[s] = 1..Len(graph.relocs[s]) /\ Len(graph.relocs[s]) \in Nat
         /\ \A i \in DOMAIN graph.relocs[s] :
              graph.relocs[s][i].to = "section" => graph.relocs[s][i].at \in Sections
  <1> DEFINE rel == graph.relocs[s]
  <1>1. rel \in Seq(Symbol) /\ DOMAIN rel = 1..Len(rel) /\ Len(rel) \in Nat
    BY GraphsAssumption, LenProperties
  <1>2. \A x \in Symbol : x.to = "section" => x.at \in Sections
    <2> TAKE x \in Symbol
    <2>1. CASE x \in [to : {"section"}, at : Sections, value : Nat]
      BY <2>1
    <2>2. CASE x \in [to : {"import data", "import thunk"}, at : Imports, value : {0}]
      BY <2>2
    <2>3. CASE x = Nowhere
      BY <2>3 DEF Nowhere
    <2> QED
      BY <2>1, <2>2, <2>3 DEF Symbol
  <1>3. \A i \in DOMAIN rel : rel[i] \in Symbol
    BY <1>1, ElementOfSeq
  <1> HIDE DEF rel
  <1>4. \A i \in DOMAIN rel : rel[i].to = "section" => rel[i].at \in Sections
    BY <1>2, <1>3
  <1> QED
    BY <1>1, <1>4 DEF rel

LEMMA TargetFacts ==
  /\ \A x : SameTarget(x, x)
  /\ \A x, y : SameTarget(x, y) => SameTarget(y, x)
  /\ \A x, y, z : SameTarget(x, y) /\ SameTarget(y, z) => SameTarget(x, z)
  BY DEF SameTarget, SameClass

LEMMA AssocFacts ==
  ASSUME graph \in Graphs
  PROVE  /\ \A a \in Sections : AssocEquals(a, a)
         /\ \A a, b \in Sections : AssocEquals(a, b) => AssocEquals(b, a)
         /\ \A a, b, c \in Sections : AssocEquals(a, b) /\ AssocEquals(b, c) => AssocEquals(a, c)
  <1>1. \A s \in Sections : DOMAIN Considered(s) = 1..Len(Considered(s))
    BY ConsideredFacts
  <1>2. \A a, b \in Sections : AssocEquals(a, b) <=>
          /\ Len(Considered(a)) = Len(Considered(b))
          /\ \A i \in 1..Len(Considered(a)) :
               Half(cnt)[Considered(a)[i]] = Half(cnt)[Considered(b)[i]]
    BY <1>1 DEF AssocEquals, SameClass
  <1> QED
    BY <1>2

\* Only sections that are alike are equal for equalsConstant.
LEMMA ConstantIsAlike ==
  ASSUME NEW a, NEW b, EqualsConstant(a, b)
  PROVE  Alike(a, b)
  BY DEF EqualsConstant, Alike, AssocEquals, SameTarget

LEMMA ConstantFacts ==
  ASSUME graph \in Graphs
  PROVE  /\ \A a \in Sections : EqualsConstant(a, a)
         /\ \A a, b \in Sections : EqualsConstant(a, b) => EqualsConstant(b, a)
         /\ \A a, b, c \in Sections :
              EqualsConstant(a, b) /\ EqualsConstant(b, c) => EqualsConstant(a, c)
  <1> DEFINE R(a) == graph.relocs[a]
             same(x, y) == SameTarget(x, y) /\ (x.to = "section" => x.value = y.value)
  <1>1. \A s \in Sections : DOMAIN R(s) = 1..Len(R(s))
    BY RelocFacts
  <1>2. \A a, b \in Sections : EqualsConstant(a, b) <=>
          /\ Len(R(a)) = Len(R(b)) /\ graph.content[a] = graph.content[b] /\ AssocEquals(a, b)
          /\ \A i \in 1..Len(R(a)) : same(R(a)[i], R(b)[i])
    BY <1>1 DEF EqualsConstant
  <1>3. /\ \A x : same(x, x)
        /\ \A x, y : same(x, y) => same(y, x)
        /\ \A x, y, z : same(x, y) /\ same(y, z) => same(x, z)
    BY DEF SameTarget, SameClass
  <1> HIDE DEF same, R
  <1>4. \A a \in Sections : EqualsConstant(a, a)
    BY <1>2, <1>3, AssocFacts
  <1>5. \A a, b \in Sections : EqualsConstant(a, b) => EqualsConstant(b, a)
    BY <1>2, <1>3, AssocFacts
  <1>6. ASSUME NEW a \in Sections, NEW b \in Sections, NEW c \in Sections,
               EqualsConstant(a, b), EqualsConstant(b, c)
        PROVE  EqualsConstant(a, c)
    <2>1. \A i \in 1..Len(R(a)) : same(R(a)[i], R(b)[i]) /\ same(R(b)[i], R(c)[i])
      BY <1>2, <1>6
    <2>2. \A i \in 1..Len(R(a)) : same(R(a)[i], R(c)[i])
      BY <2>1, <1>3
    <2> QED
      BY <2>2, <1>2, <1>6, AssocFacts
  <1> QED
    BY <1>4, <1>5, <1>6

LEMMA VariableFacts ==
  ASSUME graph \in Graphs
  PROVE  /\ \A a \in Sections : EqualsVariable(a, a)
         /\ \A a, b \in Sections : Alike(a, b) /\ EqualsVariable(a, b) => EqualsVariable(b, a)
         /\ \A a, b, c \in Sections : Alike(a, b) /\ EqualsVariable(a, b) /\ EqualsVariable(b, c)
              => EqualsVariable(a, c)
  <1> DEFINE R(a) == graph.relocs[a]
             T(a) == graph.entryThunk[a]
             same(x, y) == x = y \/ (x # 0 /\ y # 0 /\ SameClass(x, y))
  <1>1. \A s \in Sections : DOMAIN R(s) = 1..Len(R(s))
    BY RelocFacts
  <1>2. \A a, b \in Sections : EqualsVariable(a, b) <=>
          /\ same(T(a), T(b)) /\ AssocEquals(a, b)
          /\ \A i \in 1..Len(R(a)) : SameTarget(R(a)[i], R(b)[i])
    BY <1>1 DEF EqualsVariable
  <1>3. /\ \A x : same(x, x)
        /\ \A x, y : same(x, y) => same(y, x)
        /\ \A x, y, z : same(x, y) /\ same(y, z) => same(x, z)
    BY DEF SameClass
  <1>4. \A a, b : Alike(a, b) => Len(R(a)) = Len(R(b))
    BY DEF Alike
  <1> HIDE DEF same, R, T
  <1>5. \A a \in Sections : EqualsVariable(a, a)
    BY <1>2, <1>3, AssocFacts, TargetFacts
  <1>6. \A a, b \in Sections : Alike(a, b) /\ EqualsVariable(a, b) => EqualsVariable(b, a)
    BY <1>2, <1>3, <1>4, AssocFacts, TargetFacts
  <1>7. ASSUME NEW a \in Sections, NEW b \in Sections, NEW c \in Sections,
               Alike(a, b), EqualsVariable(a, b), EqualsVariable(b, c)
        PROVE  EqualsVariable(a, c)
    <2>1. \A i \in 1..Len(R(a)) : SameTarget(R(a)[i], R(b)[i]) /\ SameTarget(R(b)[i], R(c)[i])
      BY <1>2, <1>4, <1>7
    <2>2. \A i \in 1..Len(R(a)) : SameTarget(R(a)[i], R(c)[i])
      BY <2>1, TargetFacts
    <2>3. same(T(a), T(c)) /\ AssocEquals(a, c)
      BY <1>2, <1>3, <1>7, AssocFacts
    <2> QED
      BY <2>2, <2>3, <1>2
  <1> QED
    BY <1>5, <1>6, <1>7

\* Staying in one class is an equivalence.
LEMMA JoinedWithin ==
  ASSUME graph \in Graphs, Eligible \subseteq Sections,
         phase # "constant" => \A a, b \in Eligible : SameClass(a, b) => Alike(a, b)
  PROVE  Within(Joined, Eligible, Half(cnt))
  <1> DEFINE J == Joined
  <1>1. \A a, b \in Eligible : <<a, b>> \in J <=>
          /\ SameClass(a, b)
          /\ IF phase = "constant" THEN EqualsConstant(a, b) ELSE EqualsVariable(a, b)
    <2> TAKE a, b \in Eligible
    <2>1. PICK x : x = <<a, b>>
      OBVIOUS
    <2>2. x[1] = a /\ x[2] = b /\ x \in Eligible \X Eligible
      BY <2>1
    <2>3. x \in J <=> /\ SameClass(x[1], x[2])
                      /\ IF phase = "constant" THEN EqualsConstant(x[1], x[2]) ELSE EqualsVariable(x[1], x[2])
      BY <2>2 DEF Joined
    <2> QED
      BY <2>1, <2>2, <2>3
  <1> HIDE DEF J
  <1>2. \A a, b, c : /\ SameClass(a, a)
                     /\ SameClass(a, b) => SameClass(b, a)
                     /\ SameClass(a, b) /\ SameClass(b, c) => SameClass(a, c)
    BY DEF SameClass
  <1>3. \A a, b \in Eligible : <<a, b>> \in J => Half(cnt)[a] = Half(cnt)[b]
    BY <1>1 DEF SameClass
  <1>4. CASE phase = "constant"
    <2>1. Equivalence(J, Eligible)
      BY <1>1, <1>2, <1>4, ConstantFacts DEF Equivalence
    <2> QED
      BY <2>1, <1>3 DEF Within, J
  <1>5. CASE phase # "constant"
    <2>1. \A a, b \in Eligible : <<a, b>> \in J <=> SameClass(a, b) /\ EqualsVariable(a, b)
      BY <1>1, <1>5
    <2>2. \A a, b \in Eligible : SameClass(a, b) => Alike(a, b)
      BY <1>5
    <2>3. Equivalence(J, Eligible)
      BY <2>1, <2>2, <1>2, VariableFacts DEF Equivalence
    <2> QED
      BY <2>3, <1>3 DEF Within, J
  <1> QED
    BY <1>4, <1>5

\* What depends on the graph and on what is folded only
LEMMA StaticFixed ==
  ASSUME graph' = graph, Eligible' = Eligible
  PROVE  /\ \A s : Considered(s)' = Considered(s)
         /\ \A f : Congruent(f)' <=> Congruent(f)
         /\ \A h : Coarse(h)' <=> Coarse(h)
         /\ \A a, b : Alike(a, b)' <=> Alike(a, b)
         /\ \A a, b : FirmTargets(a, b)' <=> FirmTargets(a, b)
         /\ Comparable' <=> Comparable
         /\ Numbered' = Numbered
  <1>1. \A s : Considered(s)' = Considered(s)
    BY DEF Considered
  <1>2. \A f : Congruent(f)' <=> Congruent(f)
    BY <1>1 DEF Congruent
  <1>3. \A h : Coarse(h)' <=> Coarse(h)
    BY <1>2 DEF Coarse
  <1>4. \A a, b : Alike(a, b)' <=> Alike(a, b)
    BY <1>1 DEF Alike
  <1>5. \A a, b : FirmTargets(a, b)' <=> FirmTargets(a, b)
    BY <1>1 DEF FirmTargets, Firm
  <1>6. Comparable' <=> Comparable
    BY <1>1 DEF Comparable
  <1>7. Numbered' = Numbered
    BY DEF Numbered, Are
  <1> QED
    BY <1>1, <1>2, <1>3, <1>4, <1>5, <1>6, <1>7

LEMMA CongruentFacts ==
  ASSUME NEW f, Congruent(f), NEW s \in Eligible, NEW t \in Eligible, f[s] = f[t],
         NEW h, \A a, b \in Eligible : f[a] = f[b] => h[a] = h[b]
  PROVE  /\ graph.content[s] = graph.content[t]
         /\ Len(graph.relocs[s]) = Len(graph.relocs[t])
         /\ \A i \in DOMAIN graph.relocs[s] :
              \/ graph.relocs[s][i] = graph.relocs[t][i]
              \/ /\ graph.relocs[s][i].to = "section" /\ graph.relocs[t][i].to = "section"
                 /\ graph.relocs[s][i].value = graph.relocs[t][i].value
                 /\ h[graph.relocs[s][i].at] = h[graph.relocs[t][i].at]
         /\ Len(Considered(s)) = Len(Considered(t))
         /\ \A i \in DOMAIN Considered(s) : h[Considered(s)[i]] = h[Considered(t)[i]]
         /\ \/ graph.entryThunk[s] = graph.entryThunk[t]
            \/ /\ graph.entryThunk[s] \in Eligible /\ graph.entryThunk[t] \in Eligible
               /\ h[graph.entryThunk[s]] = h[graph.entryThunk[t]]
  <1> DEFINE same(a, b) == a = b \/ (a \in Eligible /\ b \in Eligible /\ f[a] = f[b])
  <1>1. /\ graph.content[s] = graph.content[t]
        /\ Len(graph.relocs[s]) = Len(graph.relocs[t])
        /\ \A i \in DOMAIN graph.relocs[s] :
             \/ graph.relocs[s][i] = graph.relocs[t][i]
             \/ /\ graph.relocs[s][i].to = "section" /\ graph.relocs[t][i].to = "section"
                /\ graph.relocs[s][i].value = graph.relocs[t][i].value
                /\ same(graph.relocs[s][i].at, graph.relocs[t][i].at)
        /\ Len(Considered(s)) = Len(Considered(t))
        /\ \A i \in DOMAIN Considered(s) : same(Considered(s)[i], Considered(t)[i])
        /\ same(graph.entryThunk[s], graph.entryThunk[t])
    BY DEF Congruent
  <1>2. \A a, b : same(a, b) => h[a] = h[b]
    OBVIOUS
  <1>3. \/ graph.entryThunk[s] = graph.entryThunk[t]
        \/ /\ graph.entryThunk[s] \in Eligible /\ graph.entryThunk[t] \in Eligible
           /\ h[graph.entryThunk[s]] = h[graph.entryThunk[t]]
    BY <1>1
  <1> HIDE DEF same
  <1> QED
    BY <1>1, <1>2, <1>3

\* No comparison tells apart what could be folded.
LEMMA CongruentJoined ==
  ASSUME Eligible \subseteq Sections, Coarse(Half(cnt)),
         NEW f \in [Eligible -> Eligible], Congruent(f),
         NEW s \in Eligible, NEW t \in Eligible, f[s] = f[t]
  PROVE  SameClass(s, t) /\ EqualsConstant(s, t) /\ EqualsVariable(s, t)
  <1>1. PICK h : h = Half(cnt)
    OBVIOUS
  <1>2. \A a, b \in Eligible : f[a] = f[b] => h[a] = h[b]
    BY <1>1 DEF Coarse
  <1>3. \A a, b : SameClass(a, b) <=> h[a] = h[b]
    BY <1>1 DEF SameClass
  <1>4. 0 \notin Eligible
    BY SectionsAssumption
  <1>5. /\ graph.content[s] = graph.content[t]
        /\ Len(graph.relocs[s]) = Len(graph.relocs[t])
        /\ \A i \in DOMAIN graph.relocs[s] :
             \/ graph.relocs[s][i] = graph.relocs[t][i]
             \/ /\ graph.relocs[s][i].to = "section" /\ graph.relocs[t][i].to = "section"
                /\ graph.relocs[s][i].value = graph.relocs[t][i].value
                /\ h[graph.relocs[s][i].at] = h[graph.relocs[t][i].at]
        /\ Len(Considered(s)) = Len(Considered(t))
        /\ \A i \in DOMAIN Considered(s) : h[Considered(s)[i]] = h[Considered(t)[i]]
        /\ \/ graph.entryThunk[s] = graph.entryThunk[t]
           \/ /\ graph.entryThunk[s] \in Eligible /\ graph.entryThunk[t] \in Eligible
              /\ h[graph.entryThunk[s]] = h[graph.entryThunk[t]]
    BY <1>2, CongruentFacts
  <1>6. AssocEquals(s, t)
    <2>1. \A i \in DOMAIN Considered(s) : SameClass(Considered(s)[i], Considered(t)[i])
      BY <1>3, <1>5, Zenon
    <2> QED
      BY <2>1, <1>5, Zenon DEF AssocEquals
  <1>7. \A i \in DOMAIN graph.relocs[s] :
          /\ SameTarget(graph.relocs[s][i], graph.relocs[t][i])
          /\ graph.relocs[s][i].to = "section" => graph.relocs[s][i].value = graph.relocs[t][i].value
    BY <1>3, <1>5 DEF SameTarget
  <1>8. EqualsConstant(s, t)
    BY <1>5, <1>6, <1>7 DEF EqualsConstant
  <1>9. EqualsVariable(s, t)
    <2>1. \/ graph.entryThunk[s] = graph.entryThunk[t]
          \/ /\ graph.entryThunk[s] # 0 /\ graph.entryThunk[t] # 0
             /\ SameClass(graph.entryThunk[s], graph.entryThunk[t])
      BY <1>3, <1>4, <1>5, Zenon
    <2> QED
      BY <2>1, <1>6, <1>7, Zenon DEF EqualsVariable
  <1> QED
    BY <1>2, <1>3, <1>8, <1>9

\* In the first round a section that is not folded is equal to itself only.
LEMMA ConstantIsFirm ==
  ASSUME graph \in Graphs, Eligible \subseteq Sections, ClassInv, NumbersInv, Comparable,
         phase = "constant", cnt = 0, NEW a \in Eligible, NEW b \in Eligible, EqualsConstant(a, b)
  PROVE  FirmTargets(a, b)
  <1>1. PICK h \in [Sections -> Nat] : h = Half(cnt) /\ h = eqClass[0]
    BY DEF Half, ClassInv
  <1>2. /\ \A u, v \in Numbered \ Eligible : h[u] = h[v] => u = v
        /\ \A u \in Sections \ Eligible : h[u] < MSB
        /\ \A u \in Eligible : h[u] >= MSB
    BY <1>1 DEF NumbersInv
  <1>3. MSB \in Nat
    BY MsbAssumption
  <1>4. \A u \in Sections : graph.kind[u] \notin Unlisted => u \in Numbered
    BY GraphsAssumption DEF Numbered, Are, Listed, Kinds
  <1>5. ASSUME NEW u \in Sections, NEW v \in Sections, SameClass(u, v),
               graph.kind[u] \notin Unlisted, graph.kind[v] \notin Unlisted
        PROVE  Firm(u, v)
    <2>1. h[u] = h[v] /\ h[u] \in Nat /\ h[v] \in Nat
      BY <1>1, <1>5 DEF SameClass
    <2>2. CASE u \in Eligible /\ v \in Eligible
      BY <2>2 DEF Firm
    <2>3. CASE u \notin Eligible /\ v \notin Eligible
      BY <2>1, <2>3, <1>2, <1>4, <1>5 DEF Firm
    <2>4. CASE u \in Eligible /\ v \notin Eligible
      BY <2>1, <2>4, <1>2, <1>3
    <2>5. CASE u \notin Eligible /\ v \in Eligible
      BY <2>1, <2>5, <1>2, <1>3
    <2> QED
      BY <2>2, <2>3, <2>4, <2>5
  <1>6. ASSUME NEW i \in DOMAIN graph.relocs[a], graph.relocs[a][i].to = "section"
        PROVE  Firm(graph.relocs[a][i].at, graph.relocs[b][i].at)
    <2>1. PICK x : x = graph.relocs[a][i]
      OBVIOUS
    <2>2. PICK y : y = graph.relocs[b][i]
      OBVIOUS
    <2>3. SameTarget(x, y) /\ x.to = "section"
      BY <2>1, <2>2, <1>6 DEF EqualsConstant
    <2>4. i \in DOMAIN graph.relocs[b]
      BY RelocFacts DEF EqualsConstant
    <2>5. x.at \in Sections /\ graph.kind[x.at] \notin Unlisted
      BY <2>1, <2>3, RelocFacts DEF Comparable
    <2>6. CASE x = y
      BY <2>1, <2>2, <2>6 DEF Firm
    <2>7. CASE x # y
      <3>1. y.to = "section" /\ SameClass(x.at, y.at)
        BY <2>3, <2>7 DEF SameTarget
      <3>2. y.at \in Sections /\ graph.kind[y.at] \notin Unlisted
        BY <2>2, <2>4, <3>1, RelocFacts DEF Comparable
      <3>3. Firm(x.at, y.at)
        BY <2>5, <3>1, <3>2, <1>5
      <3> QED
        BY <2>1, <2>2, <3>3
    <2> QED
      BY <2>6, <2>7
  <1>7. ASSUME NEW i \in DOMAIN Considered(a)
        PROVE  Firm(Considered(a)[i], Considered(b)[i])
    <2>1. Len(Considered(a)) = Len(Considered(b)) /\ SameClass(Considered(a)[i], Considered(b)[i])
      BY DEF EqualsConstant, AssocEquals
    <2>2. i \in DOMAIN Considered(b)
      BY <2>1, ConsideredFacts
    <2>3. /\ Considered(a)[i] \in Sections /\ graph.kind[Considered(a)[i]] \notin Unlisted
          /\ Considered(b)[i] \in Sections /\ graph.kind[Considered(b)[i]] \notin Unlisted
      BY <2>2, ConsideredFacts DEF Comparable
    <2> QED
      BY <2>1, <2>3, <1>5
  <1> QED
    BY <1>6, <1>7 DEF FirmTargets

\* When a round splits nothing, what it compared is a congruence.
LEMMA VariableCongruent ==
  ASSUME Comparable, NEW n,
         \A a, b \in Eligible : SameClass(a, b) => Alike(a, b) /\ FirmTargets(a, b),
         \A a, b \in Eligible : SameClass(a, b) => n[a] = n[b],
         \A a, b \in Eligible : n[a] = n[b] => SameClass(a, b) /\ EqualsVariable(a, b)
  PROVE  Congruent(n)
  <1> DEFINE same(a, b) == a = b \/ (a \in Eligible /\ b \in Eligible /\ n[a] = n[b])
  <1>1. \A u, v : Firm(u, v) /\ SameClass(u, v) => same(u, v)
    BY DEF Firm
  <1>2. ASSUME NEW s \in Eligible, NEW t \in Eligible, n[s] = n[t]
        PROVE  /\ graph.content[s] = graph.content[t]
               /\ Len(graph.relocs[s]) = Len(graph.relocs[t])
               /\ \A i \in DOMAIN graph.relocs[s] :
                    \/ graph.relocs[s][i] = graph.relocs[t][i]
                    \/ /\ graph.relocs[s][i].to = "section" /\ graph.relocs[t][i].to = "section"
                       /\ graph.relocs[s][i].value = graph.relocs[t][i].value
                       /\ same(graph.relocs[s][i].at, graph.relocs[t][i].at)
               /\ Len(Considered(s)) = Len(Considered(t))
               /\ \A i \in DOMAIN Considered(s) : same(Considered(s)[i], Considered(t)[i])
               /\ same(graph.entryThunk[s], graph.entryThunk[t])
    <2>1. Alike(s, t) /\ FirmTargets(s, t) /\ EqualsVariable(s, t)
      BY <1>2
    <2>2. /\ graph.content[s] = graph.content[t]
          /\ Len(graph.relocs[s]) = Len(graph.relocs[t])
          /\ Len(Considered(s)) = Len(Considered(t))
      BY <2>1 DEF Alike
    <2>3. ASSUME NEW i \in DOMAIN graph.relocs[s], graph.relocs[s][i] # graph.relocs[t][i]
          PROVE  /\ graph.relocs[s][i].to = "section" /\ graph.relocs[t][i].to = "section"
                 /\ graph.relocs[s][i].value = graph.relocs[t][i].value
                 /\ same(graph.relocs[s][i].at, graph.relocs[t][i].at)
      <3>1. PICK x : x = graph.relocs[s][i]
        OBVIOUS
      <3>2. PICK y : y = graph.relocs[t][i]
        OBVIOUS
      <3>3. x # y /\ x.to = "section" /\ y.to = "section" /\ x.value = y.value
        BY <2>1, <2>3, <3>1, <3>2 DEF Alike
      <3>4. SameClass(x.at, y.at)
        <4>1. SameTarget(x, y)
          BY <2>1, <3>1, <3>2 DEF EqualsVariable
        <4> QED
          BY <4>1, <3>3 DEF SameTarget
      <3>5. Firm(x.at, y.at)
        BY <2>1, <3>1, <3>2, <3>3 DEF FirmTargets
      <3>6. same(x.at, y.at)
        BY <3>4, <3>5, <1>1
      <3> HIDE DEF same
      <3> QED
        BY <3>1, <3>2, <3>3, <3>6
    <2>4. \A i \in DOMAIN Considered(s) : same(Considered(s)[i], Considered(t)[i])
      <3> HIDE DEF same
      <3> QED
        BY <2>1, <1>1 DEF FirmTargets, EqualsVariable, AssocEquals
    <2>5. same(graph.entryThunk[s], graph.entryThunk[t])
      <3>1. PICK x : x = graph.entryThunk[s]
        OBVIOUS
      <3>2. PICK y : y = graph.entryThunk[t]
        OBVIOUS
      <3>3. x \in Eligible \cup {0} /\ y \in Eligible \cup {0}
        BY <3>1, <3>2 DEF Comparable
      <3>4. x = y \/ (x # 0 /\ y # 0 /\ SameClass(x, y))
        BY <2>1, <3>1, <3>2 DEF EqualsVariable
      <3>5. same(x, y)
        BY <3>3, <3>4
      <3> HIDE DEF same
      <3> QED
        BY <3>1, <3>2, <3>5
    <2> HIDE DEF same
    <2> QED
      BY <2>2, <2>3, <2>4, <2>5
  <1> QED
    BY <1>2 DEF Congruent

----------------------------------------------------------------------------
(* The list of the sections that are folded *)

LEMMA RangeCardinality ==
  ASSUME NEW S, IsFiniteSet(S), NEW s \in Seq(S), Injective(s)
  PROVE  IsFiniteSet(Range(s)) /\ Cardinality(Range(s)) = Len(s)
  <1>1. PICK L \in Nat : L = Len(s) /\ DOMAIN s = 1..L
    BY LenProperties
  <1>2. PICK R : R = Range(s)
    OBVIOUS
  <1>3. s \in [1..L -> R] /\ \A x \in R : \E i \in 1..L : s[i] = x
    <2>1. s \in [1..L -> S]
      BY <1>1, LenProperties
    <2> QED
      BY <2>1, <1>1, <1>2 DEF Range
  <1>4. \A i, j \in 1..L : s[i] = s[j] => i = j
    BY <1>1 DEF Injective
  <1>5. s \in Bijection(1..L, R)
    BY <1>3, <1>4, Zenon DEF Bijection, Injection, Surjection, IsInjective
  <1>6. IsFiniteSet(1..L) /\ Cardinality(1..L) = IF 1 > L THEN 0 ELSE L - 1 + 1
    BY FS_Interval
  <1>7. Cardinality(1..L) = L
    BY <1>6
  <1>8. R \subseteq S
    <2>1. \A i \in 1..L : s[i] \in S
      BY <1>1, ElementOfSeq
    <2> QED
      BY <2>1, <1>3
  <1>9. IsFiniteSet(R)
    BY <1>8, FS_Subset
  <1> QED
    BY <1>1, <1>2, <1>5, <1>6, <1>7, <1>9, FS_Bijection DEF ExistsBijection

\* A sequence that lists as many elements of another as there are lists them all.
LEMMA SameRange ==
  ASSUME NEW S, IsFiniteSet(S), NEW s \in Seq(S), Injective(s), NEW t \in Seq(S), Injective(t),
         Len(t) = Len(s), Range(t) \subseteq Range(s)
  PROVE  Range(t) = Range(s)
  BY RangeCardinality, FS_Subset

LEMMA ChunkFacts ==
  ASSUME IInv, phase \in {"hash"} \cup Rounds
  PROVE  /\ chunks \in Seq(Sections) /\ Injective(chunks)
         /\ Len(chunks) \in Nat /\ DOMAIN chunks = 1..Len(chunks)
         /\ Eligible \subseteq Sections /\ Eligible \subseteq Nat /\ IsFiniteSet(Eligible)
         /\ DOMAIN Row(chunks) = 0..(Len(chunks) - 1)
         /\ \A p \in 0..(Len(chunks) - 1) : Row(chunks)[p] = At(p)
         /\ Listing(Row(chunks), Len(chunks), Eligible)
         /\ \A s \in Eligible : \E p \in 0..(Len(chunks) - 1) : Row(chunks)[p] = s
  <1>1. chunks \in Seq(Sections) /\ Injective(chunks)
    BY DEF IInv, FoldInv, ChunksInv
  <1>2. PICK L \in Nat : L = Len(chunks) /\ DOMAIN chunks = 1..L
    BY <1>1, LenProperties
  <1>3. \A i \in 1..L : chunks[i] \in Sections
    BY <1>1, <1>2, ElementOfSeq
  <1>4. Eligible \subseteq Sections
    BY <1>2, <1>3 DEF Eligible, Range
  <1>5. Eligible \subseteq Nat /\ IsFiniteSet(Eligible)
    BY <1>4, SectionsAssumption, FS_Subset
  <1>6. PICK A : A = Row(chunks)
    OBVIOUS
  <1>7. DOMAIN A = 0..(L - 1) /\ \A p \in 0..(L - 1) : A[p] = chunks[p + 1] /\ p + 1 \in 1..L
    BY <1>2, <1>6 DEF Row
  <1>8. \A p \in 0..(L - 1) : A[p] \in Eligible
    BY <1>2, <1>7 DEF Eligible, Range
  <1>9. \A s \in Eligible : \E p \in 0..(L - 1) : A[p] = s
    <2> TAKE s \in Eligible
    <2>1. PICK i \in 1..L : chunks[i] = s
      BY <1>2 DEF Eligible, Range
    <2>2. i - 1 \in 0..(L - 1) /\ (i - 1) + 1 = i
      OBVIOUS
    <2> QED
      BY <2>1, <2>2, <1>7
  <1>10. Injective(A)
    <2> SUFFICES ASSUME NEW p \in 0..(L - 1), NEW q \in 0..(L - 1), A[p] = A[q] PROVE p = q
      BY <1>7 DEF Injective
    <2>1. p + 1 = q + 1
      BY <1>1, <1>2, <1>7 DEF Injective
    <2> QED
      BY <2>1
  <1>11. Listing(A, L, Eligible)
    BY <1>7, <1>8, <1>10 DEF Listing
  <1>12. \A p \in 0..(L - 1) : A[p] = At(p)
    BY <1>7 DEF At
  <1> QED
    BY <1>1, <1>2, <1>4, <1>5, <1>6, <1>7, <1>9, <1>11, <1>12

----------------------------------------------------------------------------
(* Each step keeps the invariant of folding *)

LEMMA InitExact ==
  ASSUME Init
  PROVE  ExactInv
  <1>1. phase = "roots" /\ graph \in Graphs /\ cnt = 0 /\ align = graph.align
    BY DEF Init, MarkInit
  <1>2. CntInv /\ NumbersInv /\ CoarseInv /\ OrderInv /\ AlikeInv /\ GroupsInv /\ MergeInv /\ DoneInv
    BY <1>1 DEF CntInv, NumbersInv, CoarseInv, OrderInv, AlikeInv, GroupsInv, MergeInv, DoneInv,
                Rounds
  <1>3. AlignInv
    BY <1>1, AlignAssumption DEF AlignInv
  <1> QED
    BY <1>2, <1>3 DEF ExactInv

LEMMA MarkStepExact ==
  ASSUME IInv, ExactInv, MarkStep, UNCHANGED icfVars
  PROVE  ExactInv'
  <1>1. /\ phase \in {"roots", "mark"} /\ phase' \in {"mark", "icf"} /\ graph' = graph
        /\ UNCHANGED <<chunks, eqClass, cnt, repeat, inRound, shards, repl, align>>
    BY DEF MarkStep, AddRoots, SkipMark, MarkNext, Marked, icfVars
  <1>2. NumbersInv' /\ CoarseInv' /\ OrderInv' /\ AlikeInv' /\ GroupsInv' /\ MergeInv' /\ DoneInv'
    BY <1>1 DEF NumbersInv, CoarseInv, OrderInv, AlikeInv, GroupsInv, MergeInv, DoneInv, Rounds
  <1>3. CntInv'
    BY <1>1 DEF ExactInv, CntInv, Rounds
  <1>4. AlignInv'
    BY <1>1 DEF ExactInv, AlignInv, Unfolded
  <1> QED
    BY <1>2, <1>3, <1>4 DEF ExactInv

LEMMA StutterExact ==
  ASSUME ExactInv, UNCHANGED vars
  PROVE  ExactInv'
  <1>1. /\ graph' = graph /\ phase' = phase /\ live' = live /\ chunks' = chunks
        /\ eqClass' = eqClass /\ cnt' = cnt /\ inRound' = inRound /\ shards' = shards
        /\ repl' = repl /\ align' = align /\ repeat' = repeat
    BY DEF vars, markVars, icfVars
  <1>2. Eligible' = Eligible
    BY <1>1 DEF Eligible
  <1>3. /\ \A s : Considered(s)' = Considered(s)
        /\ \A f : Congruent(f)' <=> Congruent(f)
        /\ \A h : Coarse(h)' <=> Coarse(h)
        /\ \A a, b : Alike(a, b)' <=> Alike(a, b)
        /\ \A a, b : FirmTargets(a, b)' <=> FirmTargets(a, b)
        /\ Comparable' <=> Comparable
        /\ Numbered' = Numbered
    BY <1>1, <1>2, StaticFixed
  <1>4. Half(cnt)' = Half(cnt) /\ Half(cnt + 1)' = Half(cnt + 1)
    BY <1>1 DEF Half
  <1>5. \A a, b : SameClass(a, b)' <=> SameClass(a, b)
    BY <1>4 DEF SameClass
  <1>6. Joined' = Joined
    BY <1>1, <1>2, <1>3, <1>5 DEF Joined, EqualsConstant, EqualsVariable, SameTarget, AssocEquals
  <1>7. \A s : FirstIsKept(s)' <=> FirstIsKept(s)
    BY <1>1, <1>2 DEF FirstIsKept
  <1>8. CntInv' /\ NumbersInv' /\ CoarseInv'
    BY <1>1, <1>2, <1>3, <1>4 DEF ExactInv, CntInv, NumbersInv, CoarseInv
  <1>9. OrderInv' /\ AlikeInv'
    BY <1>1, <1>2, <1>3, <1>4, <1>5 DEF ExactInv, OrderInv, AlikeInv
  <1>10. GroupsInv'
    BY <1>1, <1>4, <1>6 DEF ExactInv, GroupsInv
  <1>11. MergeInv'
    BY <1>1, <1>3, <1>4, <1>5, <1>7 DEF ExactInv, MergeInv
  <1>12. AlignInv' /\ DoneInv'
    BY <1>1, <1>2, <1>3, <1>7 DEF ExactInv, AlignInv, Unfolded, DoneInv
  <1> QED
    BY <1>8, <1>9, <1>10, <1>11, <1>12 DEF ExactInv

\* The numbers of the sections that are not folded are counted up.
LEMMA NumberedFacts ==
  ASSUME graph \in Graphs
  PROVE  /\ \A s \in Sections : Cardinality(NumberedBefore(s)) \in Nat
         /\ \A s \in Sections : s \notin NumberedBefore(s) /\ Cardinality(NumberedBefore(s)) + 1 < MSB
         /\ \A a, b \in Numbered : ~IsEligible(a) /\ ~IsEligible(b) /\ a # b =>
              Cardinality(NumberedBefore(a)) # Cardinality(NumberedBefore(b))
  <1>1. \A s \in Sections : NumberedBefore(s) \subseteq Sections /\ IsFiniteSet(NumberedBefore(s))
    <2> TAKE s \in Sections
    <2>1. NumberedBefore(s) \subseteq Sections
      BY DEF NumberedBefore, Are
    <2> QED
      BY <2>1, SectionsAssumption, FS_Subset
  <1>2. \A s \in Sections : Cardinality(NumberedBefore(s)) \in Nat
    BY <1>1, FS_CardinalityType
  <1>3. \A s \in Sections : s \notin NumberedBefore(s)
    BY SectionsAssumption DEF NumberedBefore
  <1>4. \A s \in Sections : Cardinality(NumberedBefore(s)) + 1 < MSB
    <2> TAKE s \in Sections
    <2>1. PICK B : B = NumberedBefore(s)
      OBVIOUS
    <2>2. B \subseteq Sections /\ IsFiniteSet(B) /\ s \notin B
      BY <2>1, <1>1, <1>3
    <2>3. IsFiniteSet(B \cup {s}) /\ Cardinality(B \cup {s}) = Cardinality(B) + 1
      BY <2>2, FS_AddElement
    <2>4. B \cup {s} \subseteq 1..(MSB - 1)
      BY <2>2, SectionsAssumption, MsbAssumption
    <2>5. IsFiniteSet(1..(MSB - 1))
          /\ Cardinality(1..(MSB - 1)) = IF 1 > MSB - 1 THEN 0 ELSE MSB - 1 - 1 + 1
      BY MsbAssumption, FS_Interval
    <2>6. Cardinality(B \cup {s}) <= Cardinality(1..(MSB - 1))
      BY <2>4, <2>5, FS_Subset
    <2>7. PICK n \in Nat : n = Cardinality(B)
      BY <2>2, FS_CardinalityType
    <2>8. PICK m \in Nat : m = Cardinality(1..(MSB - 1))
      BY <2>5, FS_CardinalityType
    <2>9. n + 1 <= m /\ m = IF 1 > MSB - 1 THEN 0 ELSE MSB - 1 - 1 + 1
      BY <2>3, <2>5, <2>6, <2>7, <2>8
    <2> QED
      BY <2>1, <2>7, <2>9, MsbAssumption
  <1>5. ASSUME NEW a \in Numbered, NEW b \in Numbered, ~IsEligible(a), ~IsEligible(b),
               a \in NumberedBefore(b)
        PROVE  Cardinality(NumberedBefore(a)) # Cardinality(NumberedBefore(b))
    <2>1. a \in Sections /\ b \in Sections
      BY DEF Numbered, Are
    <2>2. NumberedBefore(a) \subseteq NumberedBefore(b)
      <3> SUFFICES ASSUME NEW t \in NumberedBefore(a) PROVE t \in NumberedBefore(b)
        OBVIOUS
      <3>1. t \in Sections
        BY DEF NumberedBefore, Are
      <3>2. a \in Nat /\ b \in Nat /\ t \in Nat
        BY <2>1, <3>1, SectionsAssumption
      <3> QED
        BY <3>2, <1>5 DEF NumberedBefore
    <2>3. a \notin NumberedBefore(a)
      BY <2>1, <1>3
    <2> QED
      BY <1>1, <1>5, <2>1, <2>2, <2>3, FS_Subset
  <1>6. ASSUME NEW a \in Numbered, NEW b \in Numbered, ~IsEligible(a), ~IsEligible(b), a # b
        PROVE  a \in NumberedBefore(b) \/ b \in NumberedBefore(a)
    <2>1. a \in Nat /\ b \in Nat
      BY SectionsAssumption DEF Numbered, Are
    <2>2. a < b \/ b < a
      BY <2>1, <1>6
    <2> QED
      BY <2>2, <1>6 DEF NumberedBefore, Numbered
  <1> QED
    BY <1>2, <1>3, <1>4, <1>5, <1>6

LEMMA CollectExact ==
  ASSUME IInv, ExactInv, Collect
  PROVE  ExactInv'
  <1>1. PICK E : E = {s \in Sections : IsEligible(s)}
    OBVIOUS
  <1>2. PICK class : class = [s \in Sections |->
          CASE IsEligible(s) -> Hash[graph.content[s]]
            [] ~IsEligible(s) /\ s \in Are(Listed \cup {"string"}) ->
                 Cardinality(NumberedBefore(s)) + 1
            [] OTHER -> 0]
    OBVIOUS
  <1>3. /\ phase = "icf" /\ phase' = "hash" /\ graph' = graph /\ cnt' = cnt /\ align' = align
        /\ chunks' = Ascending(E) /\ eqClass' = [eqClass EXCEPT ![0] = class]
    BY <1>1, <1>2 DEF Collect
  <1>4. graph \in Graphs /\ eqClass \in [0..1 -> [Sections -> Nat]]
    BY DEF IInv, MarkInv, FoldInv, ClassInv
  <1>5. cnt = 0
    BY <1>3 DEF ExactInv, CntInv
  <1>6. Eligible' = E
    <2>1. IsFiniteSet(E) /\ E \subseteq Nat
      BY <1>1, SectionsAssumption, FS_Subset
    <2>2. PICK n \in Nat : n = Cardinality(E)
      BY <2>1, FS_CardinalityType
    <2>3. chunks' \in [1..n -> E] /\ Lists(chunks', E)
      BY <1>3, <2>1, <2>2, AscendingFacts
    <2> QED
      BY <2>2, <2>3 DEF Eligible, Range, Lists
  <1>7. \A s \in E : class[s] = Hash[graph.content[s]]
    BY <1>1, <1>2
  <1>8. \A s \in Numbered \ E : class[s] = Cardinality(NumberedBefore(s)) + 1
    BY <1>1, <1>2 DEF Numbered, Are
  <1>9. \A s \in Sections \ (E \cup Numbered) : class[s] = 0
    BY <1>1, <1>2 DEF Numbered
  <1>10. eqClass'[0] = class
    BY <1>3, <1>4
  <1>11. Half(cnt)' = class
    BY <1>3, <1>5, <1>10 DEF Half
  <1>12. Numbered' = Numbered /\ Numbered \subseteq Sections
    BY <1>3 DEF Numbered, Are
  <1>13. NumbersInv'
    <2>1. ASSUME NEW a \in Numbered \ E, NEW b \in Numbered \ E, class[a] = class[b]
          PROVE  a = b
      <3>1. PICK m \in Nat : m = Cardinality(NumberedBefore(a))
        BY <1>4, <1>12, NumberedFacts
      <3>2. PICK n \in Nat : n = Cardinality(NumberedBefore(b))
        BY <1>4, <1>12, NumberedFacts
      <3>3. m = n
        BY <2>1, <3>1, <3>2, <1>8
      <3>4. ~IsEligible(a) /\ ~IsEligible(b)
        BY <1>1, <1>12
      <3> QED
        BY <3>1, <3>2, <3>3, <3>4, <1>4, NumberedFacts
    <2>2. ASSUME NEW a \in Sections \ E PROVE class[a] < MSB
      <3>1. CASE a \in Numbered
        BY <3>1, <1>4, <1>8, NumberedFacts
      <3>2. CASE a \notin Numbered
        BY <3>2, <1>9, MsbAssumption
      <3> QED
        BY <3>1, <3>2
    <2> QED
      BY <2>1, <2>2, <1>3, <1>5, <1>6, <1>10, <1>12 DEF NumbersInv
  <1>14. CoarseInv'
    <2> SUFFICES Coarse(class)'
      BY <1>3, <1>11 DEF CoarseInv
    <2> SUFFICES ASSUME NEW f \in [E -> E], Congruent(f)', NEW s \in E, NEW t \in E, f[s] = f[t]
                 PROVE  class[s] = class[t]
      BY <1>6 DEF Coarse
    <2>1. graph'.content[s] = graph'.content[t]
      BY <1>6 DEF Congruent
    <2> QED
      BY <2>1, <1>3, <1>7
  <1>15. CntInv'
    BY <1>3, <1>5 DEF CntInv, Rounds
  <1>16. AlignInv'
    BY <1>3 DEF AlignInv, ExactInv, Unfolded
  <1>17. OrderInv' /\ AlikeInv' /\ GroupsInv' /\ MergeInv' /\ DoneInv'
    BY <1>3 DEF OrderInv, AlikeInv, GroupsInv, MergeInv, DoneInv, Rounds
  <1> QED
    BY <1>13, <1>14, <1>15, <1>16, <1>17 DEF ExactInv

LEMMA SumsUnique ==
  ASSUME NEW N \in Nat, NEW a, NEW g, NEW f, Sums(f, g, a, N), NEW k, Sums(k, g, a, N)
  PROVE  f[N] = k[N]
  <1> DEFINE bad == {n \in 0..N : f[n] # k[n]}
  <1>1. \A i \in 0..N : /\ f[i] = IF i = 0 THEN a ELSE f[i - 1] + g[i]
                        /\ k[i] = IF i = 0 THEN a ELSE k[i - 1] + g[i]
    BY DEF Sums
  <1>2. bad = {}
    <2> SUFFICES ASSUME bad # {} PROVE FALSE
      OBVIOUS
    <2>1. bad \in SUBSET Nat
      OBVIOUS
    <2>2. PICK n \in bad : \A m \in bad : n <= m
      <3> HIDE DEF bad
      <3> QED
        BY <2>1, LeastExists
    <2>3. n # 0
      BY <1>1
    <2>4. n \in 0..N /\ n - 1 \in 0..N /\ ~(n <= n - 1)
      BY <2>3
    <2>5. f[n - 1] = k[n - 1]
      BY <2>2, <2>4
    <2>6. f[n] = f[n - 1] + g[n] /\ k[n] = k[n - 1] + g[n]
      BY <1>1, <2>3, <2>4
    <2> QED
      BY <2>5, <2>6
  <1> QED
    BY <1>2

LEMMA CombinedFacts ==
  ASSUME graph \in Graphs, NEW n \in 0..1, eqClass \in [0..1 -> [Sections -> Nat]],
         Eligible \subseteq Sections
  PROVE  /\ \A s \in Eligible : Combined(n, s) >= MSB
         /\ \A s \in Sections \ Eligible : Combined(n, s) = Half(n + 1)[s]
         /\ \A s, t \in Eligible :
              /\ Half(n)[s] = Half(n)[t]
              /\ Len(graph.relocs[s]) = Len(graph.relocs[t])
              /\ \A i \in DOMAIN graph.relocs[s] :
                   Added(n, graph.relocs[s][i]) = Added(n, graph.relocs[t][i])
              => Combined(n, s) = Combined(n, t)
  <1>1. ASSUME NEW s \in Eligible PROVE Combined(n, s) >= MSB
    <2>1. PICK f : /\ f[Len(graph.relocs[s])] \in Nat
                   /\ Combined(n, s) = IF s \in Range(chunks)
                                         THEN (f[Len(graph.relocs[s])] % MSB) + MSB
                                         ELSE Half(n + 1)[s]
      BY CombinedSums
    <2>2. PICK x \in Nat : x = f[Len(graph.relocs[s])]
      BY <2>1
    <2>3. Combined(n, s) = (x % MSB) + MSB
      BY <2>1, <2>2 DEF Eligible
    <2> QED
      BY <2>3, MsbAssumption
  <1>2. ASSUME NEW s \in Sections \ Eligible PROVE Combined(n, s) = Half(n + 1)[s]
    BY CombinedSums DEF Eligible
  <1>3. ASSUME NEW s \in Eligible, NEW t \in Eligible, Half(n)[s] = Half(n)[t],
               Len(graph.relocs[s]) = Len(graph.relocs[t]),
               \A i \in DOMAIN graph.relocs[s] :
                 Added(n, graph.relocs[s][i]) = Added(n, graph.relocs[t][i])
        PROVE  Combined(n, s) = Combined(n, t)
    <2>1. PICK N \in Nat : N = Len(graph.relocs[s]) /\ DOMAIN graph.relocs[s] = 1..N
      BY RelocFacts
    <2>2. N = Len(graph.relocs[t])
      BY <2>1, <1>3
    <2>3. AddedTo(n, s) = AddedTo(n, t)
      BY <2>1, <2>2, <1>3 DEF AddedTo
    <2>4. \A x \in {s, t} : x \in Sections /\ x \in Range(chunks)
      BY DEF Eligible
    <2>5. PICK f : Sums(f, AddedTo(n, s), Half(n)[s], N) /\ Combined(n, s) = (f[N] % MSB) + MSB
      BY <2>1, <2>4, CombinedSums
    <2>6. PICK k : Sums(k, AddedTo(n, t), Half(n)[t], N) /\ Combined(n, t) = (k[N] % MSB) + MSB
      BY <2>2, <2>4, CombinedSums
    <2>7. f[N] = k[N]
      BY <2>3, <2>5, <2>6, <1>3, SumsUnique
    <2> QED
      BY <2>5, <2>6, <2>7
  <1> QED
    BY <1>1, <1>2, <1>3

LEMMA CombineHashesExact ==
  ASSUME IInv, ExactInv, NEW n \in 0..1, CombineHashes(n)
  PROVE  ExactInv'
  <1>1. PICK class : class = [s \in Sections |-> Combined(n, s)]
    OBVIOUS
  <1>2. PICK new : new = (n + 1) % 2
    OBVIOUS
  <1>3. /\ phase = "hash" /\ phase' = "hash" /\ graph' = graph /\ cnt = n /\ cnt' = n + 1
        /\ align' = align /\ chunks' = chunks /\ eqClass' = [eqClass EXCEPT ![new] = class]
    BY <1>1, <1>2 DEF CombineHashes
  <1>4. graph \in Graphs /\ eqClass \in [0..1 -> [Sections -> Nat]]
    BY DEF IInv, MarkInv, FoldInv, ClassInv
  <1>5. Eligible' = Eligible /\ Eligible \subseteq Sections
    BY <1>3, ChunkFacts DEF Eligible
  <1>6. new \in 0..1 /\ (n = 0 => new = 1) /\ (n = 1 => new = 0)
    BY <1>2
  <1>7. eqClass'[new] = class /\ \A i \in 0..1 : i # new => eqClass'[i] = eqClass[i]
    BY <1>3, <1>4, <1>6
  <1>8. Half(cnt)' = class
    BY <1>2, <1>3, <1>7 DEF Half
  <1>9. Numbered' = Numbered
    BY <1>3 DEF Numbered, Are
  <1>10. NumbersInv'
    <2>1. CASE n = 0
      <3>1. eqClass'[0] = eqClass[0] /\ cnt' = 1
        BY <2>1, <1>3, <1>6, <1>7
      <3> QED
        BY <3>1, <1>3, <1>5, <1>9 DEF ExactInv, NumbersInv
    <2>2. CASE n = 1
      <3>1. eqClass'[0] = class
        BY <2>2, <1>6, <1>7
      <3>2. \A s \in Sections \ Eligible : class[s] = eqClass[0][s]
        <4>1. \A s \in Sections \ Eligible : Combined(n, s) = Half(n + 1)[s]
          BY <1>4, <1>5, CombinedFacts
        <4>2. Half(n + 1) = eqClass[0]
          BY <1>2, <1>6, <2>2 DEF Half
        <4> QED
          BY <4>1, <4>2, <1>1
      <3>3. \A s \in Eligible : class[s] >= MSB
        BY <1>1, <1>4, <1>5, CombinedFacts
      <3>4. Numbered \subseteq Sections
        BY DEF Numbered, Are
      <3>5. /\ \A a, b \in Numbered \ Eligible : eqClass[0][a] = eqClass[0][b] => a = b
            /\ \A a \in Sections \ Eligible : eqClass[0][a] < MSB
        BY <1>3 DEF ExactInv, NumbersInv
      <3>6. /\ \A a, b \in Numbered \ Eligible : class[a] = class[b] => a = b
            /\ \A a \in Sections \ Eligible : class[a] < MSB
        BY <3>2, <3>4, <3>5
      <3> QED
        BY <3>1, <3>3, <3>6, <1>5, <1>9 DEF NumbersInv
    <2> QED
      BY <2>1, <2>2
  <1>11. CoarseInv'
    <2>1. Coarse(Half(n))
      BY <1>3 DEF ExactInv, CoarseInv
    <2>2. Coarse(class)
      <3> SUFFICES ASSUME NEW f \in [Eligible -> Eligible], Congruent(f),
                          NEW s \in Eligible, NEW t \in Eligible, f[s] = f[t]
                   PROVE  class[s] = class[t]
        BY DEF Coarse
      <3>1. \A a, b \in Eligible : f[a] = f[b] => Half(n)[a] = Half(n)[b]
        BY <2>1 DEF Coarse
      <3>2. PICK h : h = Half(n)
        OBVIOUS
      <3>3. \A a, b \in Eligible : f[a] = f[b] => h[a] = h[b]
        BY <3>1, <3>2
      <3>4. /\ graph.content[s] = graph.content[t]
            /\ Len(graph.relocs[s]) = Len(graph.relocs[t])
            /\ \A i \in DOMAIN graph.relocs[s] :
                 \/ graph.relocs[s][i] = graph.relocs[t][i]
                 \/ /\ graph.relocs[s][i].to = "section" /\ graph.relocs[t][i].to = "section"
                    /\ graph.relocs[s][i].value = graph.relocs[t][i].value
                    /\ h[graph.relocs[s][i].at] = h[graph.relocs[t][i].at]
            /\ Len(Considered(s)) = Len(Considered(t))
            /\ \A i \in DOMAIN Considered(s) : h[Considered(s)[i]] = h[Considered(t)[i]]
            /\ \/ graph.entryThunk[s] = graph.entryThunk[t]
               \/ /\ graph.entryThunk[s] \in Eligible /\ graph.entryThunk[t] \in Eligible
                  /\ h[graph.entryThunk[s]] = h[graph.entryThunk[t]]
        BY <3>3, CongruentFacts
      <3>5. /\ Len(graph.relocs[s]) = Len(graph.relocs[t])
            /\ \A i \in DOMAIN graph.relocs[s] :
                 \/ graph.relocs[s][i] = graph.relocs[t][i]
                 \/ /\ graph.relocs[s][i].to = "section" /\ graph.relocs[t][i].to = "section"
                    /\ Half(n)[graph.relocs[s][i].at] = Half(n)[graph.relocs[t][i].at]
        BY <3>2, <3>4
      <3>6. \A i \in DOMAIN graph.relocs[s] :
              Added(n, graph.relocs[s][i]) = Added(n, graph.relocs[t][i])
        BY <3>5 DEF Added
      <3>7. Combined(n, s) = Combined(n, t)
        BY <3>1, <3>5, <3>6, <1>4, <1>5, CombinedFacts
      <3> QED
        BY <3>7, <1>1, <1>5
    <2>3. Coarse(class)'
      BY <2>2, <1>3, <1>5, StaticFixed
    <2> QED
      BY <2>3, <1>8 DEF CoarseInv
  <1>12. CntInv'
    BY <1>3 DEF CntInv, Rounds
  <1>13. AlignInv'
    BY <1>3 DEF AlignInv, ExactInv, Unfolded
  <1>14. OrderInv' /\ AlikeInv' /\ GroupsInv' /\ MergeInv' /\ DoneInv'
    BY <1>3 DEF OrderInv, AlikeInv, GroupsInv, MergeInv, DoneInv, Rounds
  <1> QED
    BY <1>10, <1>11, <1>12, <1>13, <1>14 DEF ExactInv

LEMMA SortByHashExact ==
  ASSUME IInv, ExactInv, SortByHash
  PROVE  ExactInv'
  <1>1. /\ phase = "hash" /\ phase' = "constant" /\ graph' = graph /\ cnt = 2 /\ cnt' = 0
        /\ eqClass' = eqClass /\ align' = align /\ shards' = shards /\ inRound' = inRound
    BY DEF SortByHash
  <1>2. PICK h : h = eqClass[0]
    OBVIOUS
  <1>3. Half(cnt) = h /\ Half(cnt)' = h /\ Half(0) = h
    BY <1>1, <1>2 DEF Half
  <1>4. Eligible' = Eligible
    BY SortByHashFacts DEF Eligible
  <1>5. inRound = FALSE /\ shards = {}
    BY <1>1 DEF IInv, FoldInv, ShardsInv, Rounds
  <1>6. NumbersInv'
    <2>1. Numbered' = Numbered
      BY <1>1 DEF Numbered, Are
    <2> QED
      BY <2>1, <1>1, <1>4 DEF ExactInv, NumbersInv
  <1>7. CoarseInv'
    <2>1. Coarse(h)
      BY <1>1, <1>3 DEF ExactInv, CoarseInv
    <2>2. Coarse(h)'
      BY <2>1, <1>1, <1>4, StaticFixed
    <2> QED
      BY <2>2, <1>3 DEF CoarseInv
  <1>8. OrderInv'
    <2>1. PICK A : A = Row(chunks')
      OBVIOUS
    <2>2. PICK L \in Nat : L = Len(chunks) /\ L = Len(chunks')
      BY <1>1, ChunkFacts, SortByHashFacts
    <2>3. DOMAIN A = 0..(L - 1) /\ \A p \in 0..(L - 1) : A[p] = chunks'[p + 1] /\ p + 1 \in 1..L
      BY <2>1, <2>2 DEF Row
    <2>4. \A p \in 0..(L - 1) : A[p] \in Nat /\ h[A[p]] \in Nat
      <3>1. h \in [Sections -> Nat]
        BY <1>2 DEF IInv, FoldInv, ClassInv
      <3>2. \A i \in 1..L : chunks'[i] \in Sections
        BY <2>2, SortByHashFacts, ElementOfSeq
      <3> QED
        BY <3>1, <3>2, <2>3, SectionsAssumption
    <2>5. \A p, q \in 0..(L - 1) : p < q =>
            h[A[p]] < h[A[q]] \/ (h[A[p]] = h[A[q]] /\ A[p] < A[q])
      <3> TAKE p, q \in 0..(L - 1)
      <3> HAVE p < q
      <3>1. p + 1 < q + 1 /\ p + 1 \in 1..L /\ q + 1 \in 1..L
        BY <2>3
      <3>2. SortedBefore(chunks'[p + 1], chunks'[q + 1])
        BY <3>1, <2>2, SortByHashFacts
      <3> QED
        BY <3>2, <2>3, <1>3 DEF SortedBefore
    <2>6. SideBySide(A, h)
      <3> SUFFICES ASSUME NEW i \in 0..(L - 1), NEW j \in 0..(L - 1), NEW k \in 0..(L - 1),
                          i <= j, j <= k, h[A[i]] = h[A[k]]
                   PROVE  h[A[j]] = h[A[i]]
        BY <2>3 DEF SideBySide
      <3>1. h[A[i]] <= h[A[j]]
        BY <2>4, <2>5
      <3>2. h[A[j]] <= h[A[k]]
        BY <2>4, <2>5
      <3> QED
        BY <3>1, <3>2, <2>4
    <2>7. InOrder(A, h, DOMAIN A)
      BY <2>3, <2>4, <2>5 DEF InOrder
    <2>8. Ranges(A, h, shards', L)
      BY <1>1, <1>5 DEF Ranges
    <2> QED
      BY <2>1, <2>2, <2>6, <2>7, <2>8, <1>3 DEF OrderInv
  <1>9. CntInv'
    BY <1>1 DEF CntInv, Rounds
  <1>10. AlignInv'
    BY <1>1 DEF AlignInv, ExactInv, Unfolded
  <1>11. AlikeInv' /\ GroupsInv' /\ MergeInv' /\ DoneInv'
    BY <1>1, <1>5 DEF AlikeInv, GroupsInv, MergeInv, DoneInv
  <1> QED
    BY <1>6, <1>7, <1>8, <1>9, <1>10, <1>11 DEF ExactInv

LEMMA BeginRoundExact ==
  ASSUME IInv, ExactInv, BeginRound
  PROVE  ExactInv'
  <1>1. /\ phase \in Rounds /\ phase' = phase /\ graph' = graph /\ live' = live
        /\ ~inRound /\ inRound' = TRUE /\ shards' = Shards
        /\ chunks' = chunks /\ eqClass' = eqClass /\ cnt' = cnt /\ repl' = repl /\ align' = align
    BY DEF BeginRound, markVars, Rounds
  <1>2. Eligible' = Eligible
    BY <1>1 DEF Eligible
  <1>3. /\ \A f : Congruent(f)' <=> Congruent(f)
        /\ \A h : Coarse(h)' <=> Coarse(h)
        /\ \A a, b : Alike(a, b)' <=> Alike(a, b)
        /\ \A a, b : FirmTargets(a, b)' <=> FirmTargets(a, b)
        /\ Comparable' <=> Comparable
        /\ Numbered' = Numbered
    BY <1>1, <1>2, StaticFixed
  <1>4. Half(cnt)' = Half(cnt) /\ Half(cnt + 1)' = Half(cnt + 1)
    BY <1>1 DEF Half
  <1>5. \A a, b : SameClass(a, b)' <=> SameClass(a, b)
    BY <1>4 DEF SameClass
  <1>6. CntInv' /\ NumbersInv' /\ CoarseInv'
    BY <1>1, <1>2, <1>3, <1>4 DEF ExactInv, CntInv, NumbersInv, CoarseInv
  <1>7. AlikeInv'
    BY <1>1, <1>2, <1>3, <1>5 DEF ExactInv, AlikeInv
  <1>8. AlignInv' /\ DoneInv' /\ align = graph.align
    BY <1>1 DEF ExactInv, AlignInv, Unfolded, DoneInv, Rounds
  <1>9. PICK L \in Nat : /\ L = Len(chunks) /\ DOMAIN Row(chunks) = 0..(L - 1)
    BY <1>1, ChunkFacts
  <1>10. Ranges(Row(chunks), Half(cnt), Shards, L) /\ Undone(Shards) = 0..(L - 1)
    BY <1>9, ShardsRanges
  <1>11. /\ SideBySide(Row(chunks), Half(cnt))
         /\ InOrder(Row(chunks), Half(cnt), DOMAIN Row(chunks))
    BY <1>1 DEF ExactInv, OrderInv
  <1>12. OrderInv'
    BY <1>1, <1>4, <1>9, <1>10, <1>11 DEF OrderInv
  <1>13. DOMAIN Row(chunks) \ Undone(Shards) = {}
    BY <1>9, <1>10
  <1>14. GroupsInv'
    <2>1. \A h, n, J : Groups(Row(chunks), Half(cnt), n, J, Undone(Shards), L)
      <3> TAKE h, n, J
      <3>1. InOrder(Row(chunks), Half(cnt), Undone(Shards))
        BY <1>9, <1>10, <1>11
      <3>2. InOrder(Row(chunks), n, DOMAIN Row(chunks) \ Undone(Shards))
        BY <1>13 DEF InOrder
      <3> QED
        BY <3>1, <3>2, <1>13 DEF Groups
    <2>2. \A n : Whole(Row(chunks), Half(cnt), n, Undone(Shards))
      BY <1>13 DEF Whole
    <2> QED
      BY <2>1, <2>2, <1>1, <1>4, <1>9 DEF GroupsInv
  <1>15. MergeInv'
    <2>1. InOrder(Row(chunks), Half(cnt), Undone(Shards))
      BY <1>9, <1>10, <1>11
    <2>2. phase = "merge" /\ Comparable => Congruent(Half(cnt))
      BY DEF ExactInv, MergeInv
    <2> QED
      BY <2>1, <2>2, <1>1, <1>3, <1>4, <1>8, <1>13 DEF MergeInv
  <1> QED
    BY <1>6, <1>7, <1>8, <1>12, <1>14, <1>15 DEF ExactInv

\* What depends on the classes of the positions only
LEMMA SamePositions ==
  ASSUME NEW L \in Nat, NEW A, DOMAIN A = 0..(L - 1), NEW B, DOMAIN B = 0..(L - 1), NEW h,
         \A p \in 0..(L - 1) : h[B[p]] = h[A[p]], NEW set, Separate(set, L)
  PROVE  /\ SideBySide(A, h) => SideBySide(B, h)
         /\ Ranges(A, h, set, L) => Ranges(B, h, set, L)
  <1>1. SideBySide(A, h) => SideBySide(B, h)
    <2> SUFFICES ASSUME SideBySide(A, h),
                        NEW i \in 0..(L - 1), NEW j \in 0..(L - 1), NEW k \in 0..(L - 1),
                        i <= j, j <= k, h[B[i]] = h[B[k]]
                 PROVE  h[B[j]] = h[B[i]]
      BY DEF SideBySide
    <2>1. h[A[i]] = h[A[k]]
      OBVIOUS
    <2>2. h[A[j]] = h[A[i]]
      BY <2>1 DEF SideBySide
    <2> QED
      BY <2>2
  <1>2. Ranges(A, h, set, L) => Ranges(B, h, set, L)
    <2> SUFFICES ASSUME Ranges(A, h, set, L), NEW r \in set
                 PROVE  /\ \A i \in r[1]..(r[2] - 1) : h[B[i]] = h[B[r[1]]]
                        /\ r[2] < L => h[B[r[2]]] # h[B[r[1]]]
                        /\ r[3] < L => h[B[r[3]]] # h[B[r[3] - 1]]
      BY DEF Ranges
    <2>1. PICK a \in Nat : a = r[1]
      BY DEF Separate
    <2>2. PICK b \in Nat : b = r[2]
      BY DEF Separate
    <2>3. PICK c \in Nat : c = r[3]
      BY DEF Separate
    <2>4. a < b /\ b <= c /\ c <= L
      BY <2>1, <2>2, <2>3 DEF Separate
    <2>5. /\ \A i \in a..(b - 1) : h[A[i]] = h[A[a]]
          /\ b < L => h[A[b]] # h[A[a]]
          /\ c < L => h[A[c]] # h[A[c - 1]]
      BY <2>1, <2>2, <2>3 DEF Ranges
    <2>6. /\ a \in 0..(L - 1) /\ \A i \in a..(b - 1) : i \in 0..(L - 1)
          /\ b < L => b \in 0..(L - 1)
          /\ c < L => c \in 0..(L - 1)
          /\ c - 1 \in 0..(L - 1)
      BY <2>4
    <2>7. /\ \A i \in a..(b - 1) : h[B[i]] = h[B[a]]
          /\ b < L => h[B[b]] # h[B[a]]
          /\ c < L => h[B[c]] # h[B[c - 1]]
      BY <2>5, <2>6
    <2> QED
      BY <2>1, <2>2, <2>3, <2>7
  <1> QED
    BY <1>1, <1>2

\* One iteration of segregate moves sections within a class and gives some of them a new one.
Segregated(r, equal, begin, end, same, mid) ==
  /\ begin = r[1] /\ end = r[2]
  /\ same = {begin} \cup equal /\ mid = begin + Cardinality(same)
  /\ begin \in Nat /\ end \in Nat /\ begin < end /\ end <= Len(chunks)
  /\ same \subseteq begin..(end - 1) /\ mid \in (begin + 1)..end
  /\ Moved(Row(chunks'), Row(chunks), Len(chunks), begin, end, mid, same)
  /\ Advance(r, mid)
  /\ eqClass' = [eqClass EXCEPT ![(cnt + 1) % 2] = [s \in Sections |->
                   IF s \in {At(i) : i \in same} THEN mid ELSE @[s]]]

LEMMA SegregateFacts ==
  ASSUME IInv, phase \in {"constant", "variable"}, NEW r \in shards,
         NEW equal \in SUBSET Others(r), Segregate(r, equal)
  PROVE  /\ Len(chunks') = Len(chunks) /\ Eligible' = Eligible
         /\ \E begin, end, same, mid : Segregated(r, equal, begin, end, same, mid)
  <1>1. PICK begin : begin = r[1]
    OBVIOUS
  <1>2. PICK end : end = r[2]
    OBVIOUS
  <1>3. PICK same : same = {begin} \cup equal
    OBVIOUS
  <1>4. PICK mid : mid = begin + Cardinality(same)
    OBVIOUS
  <1> USE <1>1, <1>2, <1>3, <1>4
  <1>5. phase \in Rounds
    BY DEF Rounds
  <1>6. chunks \in Seq(Sections) /\ Injective(chunks)
    BY <1>5, ChunkFacts
  <1>7. PICK L \in Nat : L = Len(chunks) /\ DOMAIN chunks = 1..L
    BY <1>6, LenProperties
  <1>8. begin \in Nat /\ end \in Nat /\ begin < end /\ end <= L
    BY <1>7 DEF IInv, FoldInv, ShardsInv, Separate
  <1>9. begin \in same /\ same \subseteq begin..(end - 1)
    <2>1. Others(r) = (begin + 1)..(end - 1)
      BY DEF Others
    <2>2. Others(r) \subseteq begin..(end - 1) /\ begin \in begin..(end - 1)
      BY <2>1, <1>8
    <2> QED
      BY <2>2
  <1>10. PICK moved : moved = Ascending(same) \o Ascending((begin..(end - 1)) \ same)
    OBVIOUS
  <1>11. PICK m : m = Source(begin, end, same)
    OBVIOUS
  <1>12. mid \in (begin + 1)..end /\ Partitions(m, begin, end, mid, same)
    BY <1>8, <1>9, <1>11, StablePartition
  <1>13. /\ chunks' = [p \in DOMAIN chunks |->
                     IF p - 1 \in begin..(end - 1) THEN At(moved[p - begin]) ELSE chunks[p]]
         /\ eqClass' = [eqClass EXCEPT ![(cnt + 1) % 2] = [s \in Sections |->
                       IF s \in {At(i) : i \in same} THEN mid ELSE @[s]]]
         /\ Advance(r, mid)
    BY <1>10 DEF Segregate
  <1>14. IInv' /\ phase' = phase
    BY SegregateInv DEF Segregate
  <1>15. chunks' \in Seq(Sections) /\ Injective(chunks')
    BY <1>5, <1>14 DEF IInv, FoldInv, ChunksInv
  <1>16. Len(chunks') = L
    <2>1. DOMAIN chunks' = 1..L
      BY <1>7, <1>13
    <2>2. PICK M \in Nat : M = Len(chunks') /\ DOMAIN chunks' = 1..M
      BY <1>15, LenProperties
    <2>3. 1..M = 1..L
      BY <2>1, <2>2
    <2>4. (M \in 1..M \/ M = 0) /\ (L \in 1..L \/ L = 0)
      OBVIOUS
    <2>5. M <= L
      BY <2>3, <2>4
    <2>6. L <= M
      BY <2>3, <2>4
    <2> QED
      BY <2>2, <2>5, <2>6
  <1>17. PICK A : A = Row(chunks)
    OBVIOUS
  <1>18. PICK B : B = Row(chunks')
    OBVIOUS
  <1>19. /\ DOMAIN A = 0..(L - 1) /\ \A p \in 0..(L - 1) : A[p] = chunks[p + 1] /\ A[p] = At(p)
    BY <1>7, <1>17 DEF Row, At
  <1>20. B = [p \in 0..(L - 1) |-> chunks'[p + 1]]
    BY <1>16, <1>18 DEF Row
  <1>21. \A p \in 0..(L - 1) :
           chunks'[p + 1] = IF p \in begin..(end - 1) THEN A[m[p]] ELSE A[p]
    <2> TAKE p \in 0..(L - 1)
    <2>1. p + 1 \in 1..L /\ (p + 1) - 1 = p
      OBVIOUS
    <2>2. chunks'[p + 1] = IF p \in begin..(end - 1) THEN At(moved[(p + 1) - begin])
                                                     ELSE chunks[p + 1]
      BY <2>1, <1>7, <1>13
    <2>3. CASE p \in begin..(end - 1)
      <3>1. m[p] = moved[p + 1 - begin] /\ m[p] \in 0..(L - 1)
        <4>1. m[p] \in begin..(end - 1)
          BY <2>3, <1>12 DEF Partitions
        <4>2. m[p] \in 0..(L - 1)
          BY <4>1, <1>8
        <4>3. m[p] = moved[p + 1 - begin]
          BY <2>3, <1>10, <1>11 DEF Source
        <4> QED
          BY <4>2, <4>3
      <3>2. chunks'[p + 1] = At(m[p])
        <4>1. chunks'[p + 1] = At(moved[(p + 1) - begin])
          BY <2>2, <2>3
        <4>2. (p + 1) - begin = p + 1 - begin
          BY <1>8
        <4> QED
          BY <4>1, <4>2, <3>1, Zenon
      <3>3. A[m[p]] = At(m[p])
        BY <3>1, <1>19
      <3> QED
        BY <3>2, <3>3, <2>3
    <2>4. CASE p \notin begin..(end - 1)
      BY <2>2, <2>4, <1>19
    <2> QED
      BY <2>3, <2>4
  <1>22. B = [p \in 0..(L - 1) |-> IF p \in begin..(end - 1) THEN A[m[p]] ELSE A[p]]
    BY <1>20, <1>21
  <1>23. Moved(B, A, L, begin, end, mid, same)
    BY <1>12, <1>22 DEF Moved
  <1>24. Eligible' = Eligible
    <2>1. \A p \in begin..(end - 1) : m[p] \in 0..(L - 1)
      <3> TAKE p \in begin..(end - 1)
      <3>1. m[p] \in begin..(end - 1)
        BY <1>12 DEF Partitions
      <3> QED
        BY <3>1, <1>8
    <2>2. \A p \in 0..(L - 1) : A[p] \in Range(chunks)
      <3> TAKE p \in 0..(L - 1)
      <3>1. p + 1 \in 1..L
        OBVIOUS
      <3> QED
        BY <3>1, <1>7, <1>19 DEF Range
    <2>3. \A p \in 0..(L - 1) : chunks'[p + 1] \in Range(chunks)
      BY <2>1, <2>2, <1>21
    <2>4. \A i \in 1..L : i - 1 \in 0..(L - 1) /\ (i - 1) + 1 = i
      OBVIOUS
    <2>5. \A i \in 1..L : chunks'[i] \in Range(chunks)
      BY <2>3, <2>4
    <2>6. Range(chunks') \subseteq Range(chunks)
      BY <2>5, <1>7, <1>13 DEF Range
    <2>7. Range(chunks') = Range(chunks)
      BY <2>6, <1>6, <1>7, <1>15, <1>16, SectionsAssumption, SameRange
    <2> QED
      BY <2>7 DEF Eligible
  <1>25. Segregated(r, equal, begin, end, same, mid)
    BY <1>7, <1>8, <1>9, <1>12, <1>13, <1>17, <1>18, <1>23 DEF Segregated
  <1>26. Len(chunks') = Len(chunks) /\ Eligible' = Eligible
    BY <1>7, <1>16, <1>24
  <1> QED
    BY ONLY <1>25, <1>26, Zenon

LEMMA SegregateExact ==
  ASSUME IInv, ExactInv, phase \in {"constant", "variable"}, NEW r \in shards,
         NEW equal \in SUBSET Others(r), Segregate(r, equal),
         \A i \in Others(r) : i \in equal <=> <<At(r[1]), At(i)>> \in Joined
  PROVE  ExactInv'
  <1>1. /\ phase' = phase /\ graph' = graph /\ live' = live /\ cnt' = cnt /\ inRound' = inRound
        /\ repl' = repl /\ align' = align /\ phase \in Rounds
    BY DEF Segregate, markVars, Rounds
  <1>2. /\ Len(chunks') = Len(chunks) /\ Eligible' = Eligible
        /\ \E begin, end, same, mid : Segregated(r, equal, begin, end, same, mid)
    BY SegregateFacts
  <1>3. PICK begin, end, same, mid : Segregated(r, equal, begin, end, same, mid)
    BY <1>2, Zenon
  <1>4. begin = r[1] /\ end = r[2]
    BY <1>3 DEF Segregated
  <1>5. same = {begin} \cup equal /\ mid = begin + Cardinality(same)
    BY <1>3 DEF Segregated
  <1>6. PICK A : A = Row(chunks)
    OBVIOUS
  <1>7. PICK B : B = Row(chunks')
    OBVIOUS
  <1>8. PICK L \in Nat : L = Len(chunks)
    BY <1>1, ChunkFacts
  <1>9. /\ begin \in Nat /\ end \in Nat /\ begin < end /\ end <= L
        /\ same \subseteq begin..(end - 1) /\ mid \in (begin + 1)..end
        /\ Moved(B, A, L, begin, end, mid, same)
        /\ Len(chunks') = L /\ Eligible' = Eligible
        /\ Advance(r, mid)
        /\ eqClass' = [eqClass EXCEPT ![(cnt + 1) % 2] = [s \in Sections |->
                         IF s \in {At(i) : i \in same} THEN mid ELSE @[s]]]
    BY <1>2, <1>3, <1>6, <1>7, <1>8 DEF Segregated
  <1>10. PICK h : h = Half(cnt)
    OBVIOUS
  <1>11. PICK n : n = Half(cnt + 1)
    OBVIOUS
  <1>12. PICK k : k = [s \in Sections |-> IF s \in {At(i) : i \in same} THEN mid ELSE n[s]]
    OBVIOUS
  <1>13. eqClass \in [0..1 -> [Sections -> Nat]] /\ cnt \in 0..1
    BY <1>1 DEF IInv, FoldInv, ClassInv, ExactInv, CntInv
  <1>14. Half(cnt)' = h /\ Half(cnt + 1)' = k
    <2>1. (cnt + 1) % 2 \in 0..1 /\ cnt % 2 \in 0..1 /\ cnt % 2 # (cnt + 1) % 2
      BY <1>13
    <2>2. PICK y : y = (cnt + 1) % 2
      OBVIOUS
    <2>3. n = eqClass[y] /\ y \in 0..1
      BY <2>1, <2>2, <1>11 DEF Half
    <2>4. eqClass' = [eqClass EXCEPT ![y] = k]
      BY <2>2, <2>3, <1>9, <1>12, <1>13
    <2>5. eqClass'[y] = k /\ eqClass'[cnt % 2] = eqClass[cnt % 2]
      BY <2>1, <2>2, <2>3, <2>4, <1>13
    <2> QED
      BY <2>2, <2>5, <1>1, <1>10 DEF Half
  <1>15. \A a, b : SameClass(a, b)' <=> SameClass(a, b)
    BY <1>10, <1>14 DEF SameClass
  <1>16. /\ \A s : Considered(s)' = Considered(s)
         /\ \A f : Congruent(f)' <=> Congruent(f)
         /\ \A f : Coarse(f)' <=> Coarse(f)
         /\ \A a, b : Alike(a, b)' <=> Alike(a, b)
         /\ \A a, b : FirmTargets(a, b)' <=> FirmTargets(a, b)
         /\ Comparable' <=> Comparable
         /\ Numbered' = Numbered
    BY <1>1, <1>9, StaticFixed
  <1>17. Joined' = Joined
    BY <1>1, <1>9, <1>15, <1>16 DEF Joined, EqualsConstant, EqualsVariable, SameTarget, AssocEquals
  <1>18. /\ Listing(A, L, Eligible) /\ Eligible \subseteq Nat /\ Eligible \subseteq Sections
         /\ DOMAIN A = 0..(L - 1) /\ \A p \in 0..(L - 1) : A[p] = At(p)
    BY <1>1, <1>6, <1>8, ChunkFacts
  <1>19. /\ SideBySide(A, h) /\ Ranges(A, h, shards, L) /\ Separate(shards, L) /\ inRound
    <2>1. inRound
      BY DEF IInv, FoldInv, ShardsInv
    <2> QED
      BY <2>1, <1>1, <1>6, <1>8, <1>10 DEF ExactInv, OrderInv, IInv, FoldInv, ShardsInv
  <1>20. PICK U : U = Undone(shards)
    OBVIOUS
  <1>21. Groups(A, h, n, Joined, U, L)
    BY <1>6, <1>8, <1>10, <1>11, <1>19, <1>20 DEF ExactInv, GroupsInv
  <1>22. Within(Joined, Eligible, h)
    <2>1. graph \in Graphs
      BY DEF IInv, MarkInv
    <2>2. phase # "constant" => \A a, b \in Eligible : SameClass(a, b) => Alike(a, b)
      BY DEF ExactInv, AlikeInv
    <2> QED
      BY <2>1, <2>2, <1>10, <1>18, JoinedWithin
  <1>23. \A i \in begin..(end - 1) : i \in same <=> <<A[begin], A[i]>> \in Joined
    <2> TAKE i \in begin..(end - 1)
    <2>1. i \in 0..(L - 1) /\ begin \in 0..(L - 1)
      BY <1>9
    <2>2. A[i] = At(i) /\ A[begin] = At(begin) /\ A[i] \in Eligible
      BY <2>1, <1>18 DEF Listing
    <2>3. CASE i = begin
      BY <2>2, <2>3, <1>5, <1>22 DEF Within, Equivalence
    <2>4. CASE i # begin
      <3>1. i \in Others(r)
        BY <2>4, <1>4, <1>9 DEF Others
      <3> QED
        BY <3>1, <2>2, <2>4, <1>4, <1>5
    <2> QED
      BY <2>3, <2>4
  <1>24. \A s \in Eligible : n[s] \in Nat
    BY <1>11, <1>13, <1>18 DEF Half
  <1>25. Reclassed(k, n, A, Eligible, mid, same)
    <2>1. {A[i] : i \in same} = {At(i) : i \in same}
      <3>1. \A i \in same : i \in 0..(L - 1)
        BY <1>9
      <3> QED
        BY <3>1, <1>18
    <2> QED
      BY <2>1, <1>12, <1>18, <1>24 DEF Reclassed
  <1>26. PICK V : V = U \ (begin..(mid - 1))
    OBVIOUS
  <1>27. /\ Groups(B, h, k, Joined, V, L)
         /\ \A p \in 0..(L - 1) : h[B[p]] = h[A[p]]
         /\ Whole(A, h, n, U) /\ mid = end => Whole(B, h, k, V)
    <2>1. Chosen(same, A, Joined, begin, end)
      BY <1>5, <1>9, <1>23 DEF Chosen
    <2>2. Iteration(A, B, n, k, L, Eligible, h, Joined, shards, r, same, mid)
      BY <2>1, <1>4, <1>9, <1>18, <1>19, <1>20, <1>21, <1>22, <1>25 DEF Iteration
    <2>3. /\ Groups(B, h, k, Joined, Undone(shards) \ (r[1]..(mid - 1)), L)
          /\ \A p \in 0..(L - 1) : h[B[p]] = h[A[p]]
          /\ Whole(A, h, n, Undone(shards)) /\ mid = r[2] =>
               Whole(B, h, k, Undone(shards) \ (r[1]..(mid - 1)))
      BY ONLY <2>2, GroupsStep, Zenon
    <2>4. V = Undone(shards) \ (r[1]..(mid - 1))
      BY <1>4, <1>20, <1>26
    <2> QED
      BY <2>3, <2>4, <1>4, <1>20, Zenon
  <1>28. Ranges(A, h, shards', L) /\ Undone(shards') = V
    <2>1. mid \in (r[1] + 1)..r[2]
      BY <1>4, <1>9
    <2> QED
      BY <2>1, <1>4, <1>6, <1>8, <1>9, <1>10, <1>19, <1>20, <1>26, AdvanceRanges
  <1>29. Separate(shards', L)
    <2>1. IInv'
      BY SegregateInv
    <2> QED
      BY <2>1, <1>9 DEF IInv, FoldInv, ShardsInv
  <1>30. DOMAIN B = 0..(L - 1)
    BY <1>9 DEF Moved
  <1>31. SideBySide(B, h) /\ Ranges(B, h, shards', L)
    BY <1>18, <1>19, <1>27, <1>28, <1>29, <1>30, SamePositions
  <1>32. OrderInv'
    BY <1>1, <1>7, <1>9, <1>14, <1>19, <1>31 DEF OrderInv
  <1>33. GroupsInv'
    <2>1. Groups(B, h, k, Joined, V, L)'
      BY <1>17, <1>27
    <2>2. ~repeat' => ~repeat /\ mid = end
      BY <1>4, <1>5 DEF Segregate
    <2>3. phase = "variable" /\ ~repeat' => Whole(B, h, k, V)
      BY <2>2, <1>6, <1>10, <1>11, <1>19, <1>20, <1>27 DEF ExactInv, GroupsInv
    <2> QED
      BY <1>1, <1>7, <1>9, <1>14, <1>17, <1>27, <1>28, <2>3 DEF GroupsInv
  <1>34. NumbersInv'
    <2>1. phase = "constant" => eqClass'[0] = eqClass[0]
      <3> HAVE phase = "constant"
      <3>1. cnt = 0
        BY DEF ExactInv, CntInv
      <3> QED
        BY <3>1, <1>1, <1>10, <1>14 DEF Half
    <2> QED
      BY <2>1, <1>1, <1>9, <1>16 DEF ExactInv, NumbersInv
  <1>35. CoarseInv' /\ AlikeInv'
    BY <1>1, <1>9, <1>10, <1>14, <1>15, <1>16 DEF ExactInv, CoarseInv, AlikeInv
  <1>36. CntInv' /\ AlignInv' /\ MergeInv' /\ DoneInv'
    BY <1>1 DEF ExactInv, CntInv, AlignInv, Unfolded, MergeInv, DoneInv
  <1> QED
    BY <1>32, <1>33, <1>34, <1>35, <1>36 DEF ExactInv

\* The sections that segregate finds equal are those that stay in one class.
LEMMA EqualIsJoined ==
  ASSUME IInv, ExactInv, phase \in {"constant", "variable"}, NEW r \in shards,
         NEW i \in Others(r)
  PROVE  <<At(r[1]), At(i)>> \in Joined <=>
           IF phase = "constant" THEN EqualsConstant(At(r[1]), At(i))
                                 ELSE EqualsVariable(At(r[1]), At(i))
  <1>1. phase \in Rounds
    BY DEF Rounds
  <1>2. PICK L \in Nat : L = Len(chunks)
    BY <1>1, ChunkFacts
  <1>3. PICK begin \in Nat : begin = r[1]
    BY DEF IInv, FoldInv, ShardsInv, Separate
  <1>4. PICK end \in Nat : end = r[2]
    BY DEF IInv, FoldInv, ShardsInv, Separate
  <1>5. end <= L /\ i \in begin..(end - 1) /\ i \in 0..(L - 1) /\ begin \in 0..(L - 1)
    <2>1. r[2] <= r[3] /\ r[3] <= L /\ r[3] \in Nat
      BY <1>2 DEF IInv, FoldInv, ShardsInv, Separate
    <2>2. end <= L
      BY <2>1, <1>4
    <2>3. i \in (begin + 1)..(end - 1)
      BY <1>3, <1>4 DEF Others
    <2> QED
      BY <2>2, <2>3
  <1>6. PICK A : A = Row(chunks)
    OBVIOUS
  <1>7. /\ A[i] = At(i) /\ A[begin] = At(begin) /\ A[i] \in Eligible /\ A[begin] \in Eligible
    BY <1>1, <1>2, <1>5, <1>6, ChunkFacts DEF Listing
  <1>8. Half(cnt)[A[i]] = Half(cnt)[A[begin]]
    BY <1>1, <1>3, <1>4, <1>5, <1>6 DEF ExactInv, OrderInv, Ranges
  <1>9. SameClass(At(begin), At(i))
    BY <1>7, <1>8 DEF SameClass
  <1> QED
    BY <1>3, <1>7, <1>9 DEF Joined

LEMMA SegregateConstantExact ==
  ASSUME IInv, ExactInv, NEW r \in shards, SegregateConstant(r)
  PROVE  ExactInv'
  <1>1. PICK equal \in SUBSET Others(r) :
          equal = {i \in Others(r) : EqualsConstant(At(r[1]), At(i))}
    OBVIOUS
  <1>2. phase = "constant" /\ Segregate(r, equal)
    BY <1>1 DEF SegregateConstant
  <1>3. \A i \in Others(r) : i \in equal <=> <<At(r[1]), At(i)>> \in Joined
    BY <1>1, <1>2, EqualIsJoined
  <1> QED
    BY <1>2, <1>3, SegregateExact

LEMMA SegregateVariableExact ==
  ASSUME IInv, ExactInv, NEW r \in shards, SegregateVariable(r)
  PROVE  ExactInv'
  <1>1. PICK equal \in SUBSET Others(r) :
          equal = {i \in Others(r) : EqualsVariable(At(r[1]), At(i))}
    OBVIOUS
  <1>2. phase = "variable" /\ Segregate(r, equal)
    BY <1>1 DEF SegregateVariable
  <1>3. \A i \in Others(r) : i \in equal <=> <<At(r[1]), At(i)>> \in Joined
    BY <1>1, <1>2, EqualIsJoined
  <1> QED
    BY <1>2, <1>3, SegregateExact

\* What is folded together is all that matters.
LEMMA SameKernel ==
  ASSUME NEW f, NEW g, \A a, b \in Eligible : f[a] = f[b] <=> g[a] = g[b]
  PROVE  (Congruent(f) => Congruent(g)) /\ (Coarse(f) => Coarse(g))
  <1>1. Congruent(f) => Congruent(g)
    <2> DEFINE same(k, a, b) == a = b \/ (a \in Eligible /\ b \in Eligible /\ k[a] = k[b])
               agree(k, s, t) ==
                 /\ graph.content[s] = graph.content[t]
                 /\ Len(graph.relocs[s]) = Len(graph.relocs[t])
                 /\ \A i \in DOMAIN graph.relocs[s] :
                      LET x == graph.relocs[s][i]
                          y == graph.relocs[t][i]
                      IN \/ x = y
                         \/ /\ x.to = "section" /\ y.to = "section" /\ x.value = y.value
                            /\ same(k, x.at, y.at)
                 /\ Len(Considered(s)) = Len(Considered(t))
                 /\ \A i \in DOMAIN Considered(s) : same(k, Considered(s)[i], Considered(t)[i])
                 /\ same(k, graph.entryThunk[s], graph.entryThunk[t])
    <2>1. \A k : Congruent(k) <=> \A s, t \in Eligible : k[s] = k[t] => agree(k, s, t)
      BY DEF Congruent
    <2>2. \A a, b : same(f, a, b) => same(g, a, b)
      OBVIOUS
    <2> HIDE DEF same
    <2>3. \A s, t : agree(f, s, t) => agree(g, s, t)
      BY <2>2
    <2> HIDE DEF agree
    <2> QED
      BY <2>1, <2>3
  <1>2. Coarse(f) => Coarse(g)
    BY DEF Coarse
  <1> QED
    BY <1>1, <1>2

\* A round has come to all positions.
Completed(A, h, n, J, L) ==
  /\ L \in Nat /\ DOMAIN A = 0..(L - 1)
  /\ \A p \in 0..(L - 1) : n[A[p]] \in Nat
  /\ Groups(A, h, n, J, {}, L)

\* After a round the classes are those it wrote: all pairs that stay together.
LEMMA RoundDone ==
  ASSUME NEW A, NEW h, NEW n, NEW J, NEW L, Completed(A, h, n, J, L)
  PROVE  /\ SideBySide(A, n)
         /\ InOrder(A, n, DOMAIN A)
         /\ \A p, q \in 0..(L - 1) : n[A[p]] = n[A[q]] <=> <<A[p], A[q]>> \in J
  <1>1. DOMAIN A \ {} = DOMAIN A
    OBVIOUS
  <1>2. /\ L \in Nat /\ DOMAIN A = 0..(L - 1)
        /\ \A p \in 0..(L - 1) : n[A[p]] \in Nat
        /\ Groups(A, h, n, J, {}, L)
    BY DEF Completed
  <1> USE <1>2
  <1>3. /\ \A p, q \in DOMAIN A : n[A[p]] = n[A[q]] <=> <<A[p], A[q]>> \in J
        /\ \A p \in DOMAIN A :
             /\ p < n[A[p]] /\ n[A[p]] <= L
             /\ \A j \in p..(n[A[p]] - 1) : n[A[j]] = n[A[p]]
        /\ InOrder(A, n, DOMAIN A)
    BY <1>1 DEF Groups
  <1>4. SideBySide(A, n)
    <2> SUFFICES ASSUME NEW i \in 0..(L - 1), NEW j \in 0..(L - 1), NEW k \in 0..(L - 1),
                        i <= j, j <= k, n[A[i]] = n[A[k]]
                 PROVE  n[A[j]] = n[A[i]]
      BY DEF SideBySide
    <2>1. PICK e \in Nat : e = n[A[i]]
      OBVIOUS
    <2>2. k < e /\ \A m \in i..(e - 1) : n[A[m]] = e
      BY <2>1, <1>3
    <2>3. j \in i..(e - 1)
      BY <2>2
    <2> QED
      BY <2>1, <2>2, <2>3
  <1> QED
    BY <1>3, <1>4

LEMMA EndRoundExact ==
  ASSUME IInv, ExactInv, EndRound
  PROVE  ExactInv'
  <1>1. /\ inRound /\ shards = {} /\ inRound' = FALSE /\ cnt' = (cnt + 1) % 2
        /\ graph' = graph /\ live' = live /\ chunks' = chunks /\ eqClass' = eqClass
        /\ repeat' = repeat /\ shards' = shards /\ repl' = repl /\ align' = align
    BY DEF EndRound, markVars
  <1>2. phase \in Rounds
    BY <1>1 DEF IInv, FoldInv, ShardsInv
  <1>3. /\ phase = "constant" => phase' = "variable"
        /\ phase = "variable" => phase' \in {"variable", "merge"} /\ (phase' = "merge" => ~repeat)
        /\ phase = "merge" => phase' = "done"
    BY <1>2 DEF EndRound, Rounds
  <1>4. Eligible' = Eligible
    BY <1>1 DEF Eligible
  <1>5. /\ \A f : Congruent(f)' <=> Congruent(f)
        /\ \A f : Coarse(f)' <=> Coarse(f)
        /\ \A a, b : Alike(a, b)' <=> Alike(a, b)
        /\ \A a, b : FirmTargets(a, b)' <=> FirmTargets(a, b)
        /\ Comparable' <=> Comparable
    BY <1>1, <1>4, StaticFixed
  <1>6. PICK n : n = Half(cnt + 1)
    OBVIOUS
  <1>7. cnt \in 0..1 /\ eqClass \in [0..1 -> [Sections -> Nat]] /\ graph \in Graphs
    BY <1>2 DEF IInv, MarkInv, FoldInv, ClassInv, ExactInv, CntInv
  <1>8. cnt' \in 0..1 /\ Half(cnt)' = n
    <2>1. (cnt + 1) % 2 \in 0..1 /\ ((cnt + 1) % 2) % 2 = (cnt + 1) % 2
      BY <1>7
    <2> QED
      BY <2>1, <1>1, <1>6 DEF Half
  <1>9. PICK A : A = Row(chunks)
    OBVIOUS
  <1>10. PICK L \in Nat : L = Len(chunks)
    BY <1>2, ChunkFacts
  <1>11. /\ DOMAIN A = 0..(L - 1) /\ Eligible \subseteq Sections
         /\ \A p \in 0..(L - 1) : A[p] \in Eligible
         /\ \A s \in Eligible : \E p \in 0..(L - 1) : A[p] = s
    BY <1>2, <1>9, <1>10, ChunkFacts DEF Listing
  <1>12. Undone(shards) = {}
    BY <1>1 DEF Undone
  <1>13. CASE phase = "merge"
    <2>1. phase' = "done"
      BY <1>3, <1>13
    <2>2. /\ \A s \in Eligible : FirstIsKept(s)
          /\ \A a, b \in Eligible : repl[a] = repl[b] <=> SameClass(a, b)
      <3>1. \A p \in DOMAIN A :
              /\ FirstIsKept(A[p])
              /\ \A q \in DOMAIN A : repl[A[p]] = repl[A[q]] <=> SameClass(A[p], A[q])
        <4>1. DOMAIN A \ Undone(shards) = DOMAIN A
          BY <1>12
        <4> QED
          BY <4>1, <1>1, <1>9, <1>13 DEF ExactInv, MergeInv
      <3> QED
        BY <3>1, <1>11
    <2>3. \A s : FirstIsKept(s)' <=> FirstIsKept(s)
      BY <1>1, <1>4 DEF FirstIsKept
    <2>4. PICK h : h = Half(cnt)
      OBVIOUS
    <2>5. \A a, b \in Eligible : h[a] = h[b] <=> repl[a] = repl[b]
      BY <2>2, <2>4 DEF SameClass
    <2>6. (Congruent(h) => Congruent(repl)) /\ (Coarse(h) => Coarse(repl))
      BY <2>5, SameKernel
    <2>7. Coarse(h) /\ (Comparable => Congruent(h))
      BY <2>4, <1>2, <1>13 DEF ExactInv, CoarseInv, MergeInv
    <2>8. DoneInv'
      BY <2>2, <2>3, <2>6, <2>7, <1>1, <1>4, <1>5 DEF DoneInv
    <2>9. CntInv' /\ NumbersInv' /\ CoarseInv' /\ OrderInv' /\ AlikeInv' /\ GroupsInv' /\ MergeInv'
      BY <2>1 DEF CntInv, NumbersInv, CoarseInv, OrderInv, AlikeInv, GroupsInv, MergeInv, Rounds
    <2>10. AlignInv'
      BY <2>1, <1>1 DEF AlignInv, Unfolded, ExactInv
    <2> QED
      BY <2>8, <2>9, <2>10 DEF ExactInv
  <1>14. CASE phase \in {"constant", "variable"}
    <2>1. phase' \in {"variable", "merge"} /\ (phase' = "merge" => phase = "variable" /\ ~repeat)
      BY <1>3, <1>14
    <2>2. PICK h : h = Half(cnt)
      OBVIOUS
    <2>3. Groups(A, h, n, Joined, {}, L)
      BY <2>2, <1>1, <1>6, <1>9, <1>10, <1>12, <1>14 DEF ExactInv, GroupsInv
    <2>4. \A p \in 0..(L - 1) : n[A[p]] \in Nat
      <3>1. (cnt + 1) % 2 \in 0..1
        BY <1>7
      <3>2. n \in [Sections -> Nat]
        BY <3>1, <1>6, <1>7 DEF Half
      <3> QED
        BY <3>2, <1>11
    <2>5. /\ SideBySide(A, n)
          /\ InOrder(A, n, DOMAIN A)
          /\ \A p, q \in 0..(L - 1) : n[A[p]] = n[A[q]] <=> <<A[p], A[q]>> \in Joined
      <3>1. Completed(A, h, n, Joined, L)
        BY <2>3, <2>4, <1>11 DEF Completed
      <3> QED
        BY <3>1, RoundDone
    <2>6. \A a, b \in Eligible : n[a] = n[b] <=> <<a, b>> \in Joined
      BY <2>5, <1>11
    <2>7. \A a, b \in Eligible : <<a, b>> \in Joined <=>
            /\ SameClass(a, b)
            /\ IF phase = "constant" THEN EqualsConstant(a, b) ELSE EqualsVariable(a, b)
      BY DEF Joined
    <2>8. OrderInv'
      <3>1. Ranges(A, n, {}, L)
        BY DEF Ranges
      <3> QED
        BY <3>1, <2>5, <1>1, <1>8, <1>9, <1>10 DEF OrderInv
    <2>9. CoarseInv'
      <3>1. Coarse(Half(cnt))
        BY <1>2 DEF ExactInv, CoarseInv
      <3>2. Coarse(n)
        <4> SUFFICES ASSUME NEW f \in [Eligible -> Eligible], Congruent(f),
                            NEW s \in Eligible, NEW t \in Eligible, f[s] = f[t]
                     PROVE  n[s] = n[t]
          BY DEF Coarse
        <4>1. SameClass(s, t) /\ EqualsConstant(s, t) /\ EqualsVariable(s, t)
          BY <3>1, <1>11, CongruentJoined
        <4> QED
          BY <4>1, <2>6, <2>7
      <3> QED
        BY <3>2, <1>5, <1>8 DEF CoarseInv
    <2>10. \A a, b \in Eligible : n[a] = n[b] =>
             Alike(a, b) /\ (Comparable => FirmTargets(a, b))
      <3> SUFFICES ASSUME NEW a \in Eligible, NEW b \in Eligible, n[a] = n[b]
                   PROVE  Alike(a, b) /\ (Comparable => FirmTargets(a, b))
        OBVIOUS
      <3>1. CASE phase = "constant"
        <4>1. EqualsConstant(a, b) /\ cnt = 0
          BY <3>1, <2>6, <2>7 DEF ExactInv, CntInv
        <4>2. ClassInv /\ NumbersInv
          BY DEF IInv, FoldInv, ExactInv
        <4>3. Alike(a, b)
          BY <4>1, ConstantIsAlike
        <4>4. Comparable => FirmTargets(a, b)
          BY <4>1, <4>2, <3>1, <1>7, <1>11, ConstantIsFirm
        <4> QED
          BY <4>3, <4>4
      <3>2. CASE phase = "variable"
        BY <3>2, <2>6, <2>7 DEF ExactInv, AlikeInv
      <3> QED
        BY <3>1, <3>2, <1>14
    <2>11. AlikeInv'
      <3>1. \A a, b : SameClass(a, b)' <=> n[a] = n[b]
        BY <1>8 DEF SameClass
      <3> QED
        BY <3>1, <2>10, <1>4, <1>5 DEF AlikeInv
    <2>12. MergeInv'
      <3> SUFFICES ASSUME phase' = "merge", Comparable PROVE Congruent(n)
        BY <1>1, <1>5, <1>8 DEF MergeInv
      <3>1. phase = "variable" /\ ~repeat
        BY <2>1
      <3>2. Whole(A, h, n, {})
        BY <3>1, <2>2, <1>1, <1>6, <1>9, <1>12 DEF ExactInv, GroupsInv
      <3>3. \A a, b \in Eligible : SameClass(a, b) => n[a] = n[b]
        <4>1. \A p, q \in 0..(L - 1) : h[A[p]] = h[A[q]] => n[A[p]] = n[A[q]]
          BY <3>2, <1>11 DEF Whole
        <4> QED
          BY <4>1, <2>2, <1>11 DEF SameClass
      <3>4. \A a, b \in Eligible : SameClass(a, b) => Alike(a, b) /\ FirmTargets(a, b)
        BY <3>1 DEF ExactInv, AlikeInv
      <3>5. \A a, b \in Eligible : n[a] = n[b] => SameClass(a, b) /\ EqualsVariable(a, b)
        BY <3>1, <2>6, <2>7
      <3> QED
        BY <3>3, <3>4, <3>5, VariableCongruent
    <2>13. CntInv' /\ NumbersInv' /\ GroupsInv' /\ DoneInv'
      BY <2>1, <1>1, <1>8 DEF CntInv, NumbersInv, GroupsInv, DoneInv, Rounds
    <2>14. AlignInv'
      BY <1>1, <1>14 DEF AlignInv, Unfolded, ExactInv
    <2> QED
      BY <2>8, <2>9, <2>11, <2>12, <2>13, <2>14 DEF ExactInv
  <1> QED
    BY <1>2, <1>13, <1>14 DEF Rounds

LEMMA MaxFacts ==
  ASSUME NEW S, IsFiniteSet(S), S \subseteq Nat, S # {}
  PROVE  Max(S) \in S
  <1>1. PICK n \in Nat : n = Cardinality(S)
    BY FS_CardinalityType
  <1>2. n # 0
    BY <1>1, FS_EmptySet
  <1>3. PICK f : /\ \A i \in 1..n : f[i] \in S
                 /\ \A x \in S : \E i \in 1..n : f[i] = x
                 /\ \A i, j \in 1..n : i < j => f[i] < f[j]
    BY <1>1, AscendingFacts DEF Lists
  <1>4. n \in 1..n
    BY <1>2
  <1>5. \A x \in S : f[n] >= x
    <2> TAKE x \in S
    <2>1. PICK i \in 1..n : f[i] = x
      BY <1>3
    <2>2. i < n \/ i = n
      OBVIOUS
    <2>3. i < n => f[i] < f[n]
      BY <1>3, <1>4
    <2>4. f[n] \in Nat /\ x \in Nat
      BY <1>3, <1>4
    <2> QED
      BY <2>1, <2>2, <2>3, <2>4
  <1>6. f[n] \in S
    BY <1>3, <1>4
  <1> QED
    BY <1>5, <1>6 DEF Max

LEMMA MinFacts ==
  ASSUME NEW S, S \subseteq Nat, NEW x \in S, \A y \in S : x <= y
  PROVE  Min(S) = x
  <1>1. \A z \in S : (\A y \in S : z <= y) => z = x
    OBVIOUS
  <1> QED
    BY <1>1 DEF Min

LEMMA MergeClassExact ==
  ASSUME IInv, ExactInv, NEW r \in shards, MergeClass(r)
  PROVE  ExactInv'
  <1>1. PICK leader : leader = At(r[1])
    OBVIOUS
  <1>2. PICK others : others = {At(i) : i \in Others(r)}
    OBVIOUS
  <1>3. /\ phase = "merge" /\ phase' = phase /\ graph' = graph /\ chunks' = chunks
        /\ eqClass' = eqClass /\ cnt' = cnt /\ inRound' = inRound
        /\ repl' = [s \in Sections |-> IF s \in others THEN repl[leader] ELSE repl[s]]
        /\ live' = live \ others
        /\ align' = [align EXCEPT ![leader] = Max({@} \cup {align[s] : s \in others})]
        /\ Advance(r, r[2])
    BY <1>1, <1>2 DEF MergeClass
  <1>4. inRound /\ phase \in Rounds
    BY <1>3 DEF IInv, FoldInv, ShardsInv, Rounds
  <1>5. PICK A : A = Row(chunks)
    OBVIOUS
  <1>6. PICK L \in Nat : L = Len(chunks)
    BY <1>4, ChunkFacts
  <1>7. PICK P : P = 0..(L - 1)
    OBVIOUS
  <1>8. /\ DOMAIN A = P /\ Eligible \subseteq Sections /\ Eligible \subseteq Nat
        /\ \A p \in P : A[p] = At(p) /\ A[p] \in Eligible
        /\ \A p, q \in P : A[p] = A[q] => p = q
        /\ \A s \in Eligible : \E p \in P : A[p] = s
    BY <1>4, <1>5, <1>6, <1>7, ChunkFacts DEF Listing, Injective
  <1>9. PICK begin \in Nat : begin = r[1]
    BY DEF IInv, FoldInv, ShardsInv, Separate
  <1>10. PICK end \in Nat : end = r[2]
    BY DEF IInv, FoldInv, ShardsInv, Separate
  <1>11. Separate(shards, L)
    BY <1>6 DEF IInv, FoldInv, ShardsInv
  <1>12. PICK U : U = Undone(shards)
    OBVIOUS
  <1>13. PICK C : C = begin..(end - 1)
    OBVIOUS
  <1>14. U \subseteq P /\ C \subseteq U /\ begin \in C /\ end \in (begin + 1)..end
    <2>1. U \subseteq P /\ \A p \in r[1]..(r[3] - 1) : p \in U
      BY <1>7, <1>11, <1>12, UndoneFacts
    <2>2. r[1] < r[2] /\ r[2] <= r[3] /\ r[3] \in Nat
      BY <1>11 DEF Separate
    <2>3. C \subseteq r[1]..(r[3] - 1) /\ begin \in C /\ begin < end
      BY <2>2, <1>9, <1>10, <1>13
    <2> QED
      BY <2>1, <2>3
  <1>15. leader = A[begin] /\ others = {A[i] : i \in C \ {begin}}
    <2>1. Others(r) = C \ {begin}
      BY <1>9, <1>10, <1>13 DEF Others
    <2>2. \A i \in C \ {begin} : A[i] = At(i)
      BY <1>8, <1>14
    <2>3. others = {At(i) : i \in C \ {begin}}
      BY <2>1, <1>2
    <2>4. others = {A[i] : i \in C \ {begin}}
      BY <2>2, <2>3
    <2>5. leader = A[begin]
      BY <1>1, <1>8, <1>9, <1>14
    <2> QED
      BY <2>4, <2>5
  <1>16. \A p \in U : A[p] \in live /\ \A s \in Sections : repl[s] = A[p] <=> s = A[p]
    <2> TAKE p \in U
    <2>1. PICK q \in shards : p \in q[1]..(q[3] - 1)
      BY <1>11, <1>12, UndoneFacts
    <2>2. At(p) \in live /\ \A s \in Sections : repl[s] = At(p) <=> s = At(p)
      BY <2>1, <1>3 DEF IInv, FoldInv, ReplInv
    <2> QED
      BY <2>2, <1>8, <1>14
  <1>17. \A p \in P : A[p] \in others <=> p \in C \ {begin}
    BY <1>8, <1>14, <1>15
  <1>18. \A p \in P : A[p] \in Sections /\ repl'[A[p]] = IF p \in C THEN leader ELSE repl[A[p]]
    <2> TAKE p \in P
    <2>1. A[p] \in Sections /\ leader \in Sections /\ repl[leader] = leader
      BY <1>8, <1>14, <1>15, <1>16
    <2>2. repl'[A[p]] = IF A[p] \in others THEN leader ELSE repl[A[p]]
      BY <2>1, <1>3
    <2>3. CASE p = begin
      BY <2>1, <2>2, <2>3, <1>14, <1>15, <1>17
    <2>4. CASE p # begin
      BY <2>1, <2>2, <2>4, <1>17
    <2> QED
      BY <2>3, <2>4
  <1>19. \A p \in P \ U : \A q \in U : repl[A[p]] # A[q]
    BY <1>8, <1>14, <1>16
  <1>20. \A p \in P : repl'[A[p]] = leader <=> p \in C
    <2> TAKE p \in P
    <2>1. CASE p \in C
      BY <2>1, <1>18
    <2>2. CASE p \notin C
      <3>1. repl'[A[p]] = repl[A[p]] /\ p # begin
        BY <2>2, <1>14, <1>18
      <3>2. repl[A[p]] # leader
        BY <3>1, <1>8, <1>14, <1>15, <1>16, <1>18
      <3> QED
        BY <2>2, <3>1, <3>2
    <2> QED
      BY <2>1, <2>2
  <1>21. PICK h : h = Half(cnt)
    OBVIOUS
  <1>22. Half(cnt)' = h /\ \A a, b : SameClass(a, b) <=> h[a] = h[b]
    BY <1>3, <1>21 DEF Half, SameClass
  <1>23. \A a, b : SameClass(a, b)' <=> h[a] = h[b]
    BY <1>22 DEF SameClass
  <1>24. Eligible' = Eligible
    BY <1>3 DEF Eligible
  <1>25. /\ \A f : Congruent(f)' <=> Congruent(f)
         /\ \A f : Coarse(f)' <=> Coarse(f)
         /\ \A a, b : Alike(a, b)' <=> Alike(a, b)
         /\ \A a, b : FirmTargets(a, b)' <=> FirmTargets(a, b)
         /\ Comparable' <=> Comparable
    BY <1>3, <1>24, StaticFixed
  <1>26. SideBySide(A, h) /\ Ranges(A, h, shards, L)
    BY <1>4, <1>5, <1>6, <1>21 DEF ExactInv, OrderInv
  <1>27. PICK V : V = U \ C
    OBVIOUS
  <1>28. Ranges(A, h, shards', L) /\ Undone(shards') = V
    <2>1. r[2] \in (r[1] + 1)..r[2]
      BY <1>9, <1>10, <1>14
    <2> QED
      BY <2>1, <1>3, <1>5, <1>6, <1>9, <1>10, <1>11, <1>12, <1>13, <1>21, <1>26, <1>27,
         AdvanceRanges
  <1>29. \A p \in C : h[A[p]] = h[A[begin]] /\ \A q \in U \ C : h[A[q]] # h[A[p]]
    <2> TAKE p \in C
    <2>1. h[A[p]] = h[A[begin]]
      BY <1>9, <1>10, <1>13, <1>26 DEF Ranges
    <2>2. \A q \in U \ C : h[A[q]] # h[A[p]]
      BY <1>7, <1>8, <1>9, <1>10, <1>11, <1>12, <1>13, <1>26, Apart
    <2> QED
      BY <2>1, <2>2
  <1>30. /\ InOrder(A, h, U)
         /\ \A p \in U : align[A[p]] = graph.align[A[p]]
         /\ \A p \in P \ U : /\ FirstIsKept(A[p])
                             /\ \A q \in P \ U : repl[A[p]] = repl[A[q]] <=> h[A[p]] = h[A[q]]
                             /\ \A q \in U : h[A[p]] # h[A[q]]
    BY <1>3, <1>4, <1>5, <1>8, <1>12, <1>21, <1>22 DEF ExactInv, MergeInv
  <1>31. align \in [Sections -> Nat]
    BY DEF ExactInv, AlignInv
  <1>32. PICK most : most = Max({align[leader]} \cup {align[s] : s \in others})
    OBVIOUS
  <1>33. align' = [align EXCEPT ![leader] = most]
    BY <1>3, <1>32
  <1>34. leader \in Sections /\ others \subseteq Sections
    BY <1>8, <1>14, <1>15
  <1>35. AlignInv'
    <2>1. PICK S : S = {align[leader]} \cup {align[s] : s \in others}
      OBVIOUS
    <2>2. S \subseteq Nat /\ S # {}
      BY <2>1, <1>31, <1>34
    <2>3. IsFiniteSet(S)
      <3>1. IsFiniteSet(others)
        BY <1>34, SectionsAssumption, FS_Subset
      <3>2. IsFiniteSet({align[s] : s \in others})
        <4>1. PICK T : T = {align[s] : s \in others}
          OBVIOUS
        <4>2. PICK f : f = [s \in others |-> align[s]]
          OBVIOUS
        <4>3. f \in [others -> T] /\ \A t \in T : \E s \in others : f[s] = t
          BY <4>1, <4>2
        <4>4. f \in Surjection(others, T)
          BY <4>3, Zenon DEF Surjection
        <4> QED
          BY <4>1, <4>4, <3>1, FS_Surjection
      <3>3. IsFiniteSet({align[leader]})
        BY FS_Singleton
      <3> QED
        BY <2>1, <3>2, <3>3, FS_Union
    <2>4. most \in Nat
      BY <2>1, <2>2, <2>3, <1>32, MaxFacts
    <2>5. align' \in [Sections -> Nat]
      BY <2>4, <1>31, <1>33
    <2> QED
      BY <2>5, <1>3, <1>4 DEF AlignInv, Unfolded
  <1>36. most = Max({graph.align[A[i]] : i \in C})
    <2>1. {align[leader]} \cup {align[s] : s \in others} = {graph.align[A[i]] : i \in C}
      <3>1. \A i \in C : align[A[i]] = graph.align[A[i]]
        BY <1>14, <1>30
      <3> QED
        BY <3>1, <1>14, <1>15
    <2> QED
      BY <2>1, <1>32
  <1>37. \A s \in Sections : align'[s] = IF s = leader THEN most ELSE align[s]
    BY <1>31, <1>33
  <1> DEFINE Class(s) == {t \in Eligible : repl[t] = repl[s]}
             Class1(s) == {t \in Eligible : repl'[t] = repl'[s]}
  <1>38. \A s : FirstIsKept(s) <=> /\ repl[s] = Min(Class(s))
                                   /\ s \in live <=> s = repl[s]
                                   /\ align[repl[s]] = Max({graph.align[t] : t \in Class(s)})
    BY DEF FirstIsKept
  <1>39. \A s : FirstIsKept(s)' <=> /\ repl'[s] = Min(Class1(s))
                                    /\ s \in live' <=> s = repl'[s]
                                    /\ align'[repl'[s]] = Max({graph.align[t] : t \in Class1(s)})
    BY <1>3, <1>24 DEF FirstIsKept
  <1>40. ASSUME NEW p \in P \ U PROVE FirstIsKept(A[p])'
    <2>1. repl'[A[p]] = repl[A[p]] /\ \A q \in C : repl[A[p]] # A[q]
      BY <1>14, <1>18, <1>19
    <2>2. \A q \in P : repl'[A[q]] = repl'[A[p]] <=> repl[A[q]] = repl[A[p]]
      <3> TAKE q \in P
      <3>1. CASE q \in C
        <4>1. repl'[A[q]] = leader /\ repl[A[q]] = A[q]
          BY <3>1, <1>8, <1>14, <1>16, <1>18
        <4> QED
          BY <4>1, <3>1, <2>1, <1>14, <1>15
      <3>2. CASE q \notin C
        BY <3>2, <2>1, <1>18
      <3> QED
        BY <3>1, <3>2
    <2>3. Class1(A[p]) = Class(A[p])
      <3>1. \A t \in Eligible : repl'[t] = repl'[A[p]] <=> repl[t] = repl[A[p]]
        BY <2>2, <1>8
      <3> QED
        BY <3>1
    <2>4. A[p] \in live' <=> A[p] \in live
      BY <1>3, <1>14, <1>17
    <2>5. repl[A[p]] # leader
      BY <2>1, <1>14, <1>15
    <2>6. align'[repl[A[p]]] = align[repl[A[p]]]
      <3>1. repl[A[p]] \in Sections
        BY <1>18 DEF IInv, FoldInv, ReplInv
      <3> QED
        BY <3>1, <2>5, <1>37
    <2> HIDE DEF Class, Class1
    <2> QED
      BY <2>1, <2>3, <2>4, <2>6, <1>30, <1>38, <1>39
  <1>41. ASSUME NEW p \in C PROVE FirstIsKept(A[p])'
    <2>1. repl'[A[p]] = leader
      BY <1>14, <1>20
    <2>2. Class1(A[p]) = {A[i] : i \in C}
      <3>1. \A t \in Eligible : repl'[t] = repl'[A[p]] <=> \E i \in C : t = A[i]
        <4> TAKE t \in Eligible
        <4>1. PICK q \in P : A[q] = t
          BY <1>8
        <4>2. repl'[t] = repl'[A[p]] <=> q \in C
          BY <4>1, <2>1, <1>20
        <4>3. (\E i \in C : t = A[i]) <=> q \in C
          BY <4>1, <1>8, <1>14
        <4> QED
          BY <4>2, <4>3
      <3>2. \A i \in C : A[i] \in Eligible
        BY <1>8, <1>14
      <3> QED
        BY <3>1, <3>2
    <2>3. Min({A[i] : i \in C}) = leader
      <3>1. \A i \in C : A[begin] <= A[i] /\ A[i] \in Nat
        <4> TAKE i \in C
        <4>1. A[i] \in Nat /\ A[begin] \in Nat
          BY <1>8, <1>14
        <4>2. i = begin \/ begin < i
          BY <1>13
        <4>3. begin < i => A[begin] < A[i]
          BY <1>14, <1>29, <1>30 DEF InOrder
        <4> QED
          BY <4>1, <4>2, <4>3
      <3>2. PICK S : S = {A[i] : i \in C}
        OBVIOUS
      <3>3. S \subseteq Nat /\ leader \in S /\ \A y \in S : leader <= y
        BY <3>1, <3>2, <1>14, <1>15
      <3> QED
        BY <3>2, <3>3, MinFacts
    <2>4. A[p] \in live' <=> A[p] = leader
      <3>1. A[p] \in live /\ (A[p] \in others <=> p # begin) /\ (A[p] = leader <=> p = begin)
        BY <1>8, <1>14, <1>15, <1>16, <1>17
      <3> QED
        BY <3>1, <1>3
    <2>5. align'[leader] = most
      BY <1>34, <1>37
    <2>6. {graph.align[t] : t \in Class1(A[p])} = {graph.align[A[i]] : i \in C}
      BY <2>2
    <2> HIDE DEF Class, Class1
    <2> QED
      BY <2>1, <2>2, <2>3, <2>4, <2>5, <2>6, <1>36, <1>39
  <1>42. P \ V = (P \ U) \cup C
    BY <1>14, <1>27
  <1>43. ASSUME NEW p \in P \ V, NEW q \in P \ V
         PROVE  repl'[A[p]] = repl'[A[q]] <=> h[A[p]] = h[A[q]]
    <2>1. CASE p \in C /\ q \in C
      BY <2>1, <1>14, <1>18, <1>29
    <2>2. CASE p \in P \ U /\ q \in P \ U
      <3>1. repl'[A[p]] = repl[A[p]] /\ repl'[A[q]] = repl[A[q]]
        BY <2>2, <1>14, <1>18
      <3> QED
        BY <3>1, <2>2, <1>30
    <2>3. CASE p \in C /\ q \in P \ U
      <3>1. repl'[A[p]] = leader /\ repl'[A[q]] # leader
        BY <2>3, <1>14, <1>20
      <3>2. h[A[q]] # h[A[p]]
        BY <2>3, <1>14, <1>30
      <3> QED
        BY <3>1, <3>2
    <2>4. CASE q \in C /\ p \in P \ U
      <3>1. repl'[A[q]] = leader /\ repl'[A[p]] # leader
        BY <2>4, <1>14, <1>20
      <3>2. h[A[p]] # h[A[q]]
        BY <2>4, <1>14, <1>30
      <3> QED
        BY <3>1, <3>2
    <2> QED
      BY <2>1, <2>2, <2>3, <2>4, <1>42
  <1>44. ASSUME NEW p \in P \ V, NEW q \in V PROVE h[A[p]] # h[A[q]]
    BY <1>27, <1>29, <1>30, <1>42
  <1>45. MergeInv'
    <2>1. InOrder(A, h, V)
      BY <1>27, <1>30 DEF InOrder
    <2>2. \A p \in V : align'[A[p]] = graph.align[A[p]]
      <3> TAKE p \in V
      <3>1. p \in P /\ p \in U /\ p # begin
        BY <1>14, <1>27
      <3>2. A[p] # leader /\ A[p] \in Sections
        BY <3>1, <1>8, <1>14, <1>15
      <3> QED
        BY <3>1, <3>2, <1>30, <1>37
    <2>3. \A p \in P \ V : FirstIsKept(A[p])'
      BY <1>40, <1>41, <1>42
    <2>4. Comparable => Congruent(h)
      BY <1>3, <1>21 DEF ExactInv, MergeInv
    <2>5. Row(chunks)' = A /\ Undone(shards)' = V
      BY <1>3, <1>5, <1>28
    <2> QED
      BY <2>1, <2>2, <2>3, <2>4, <2>5, <1>3, <1>8, <1>22, <1>23, <1>25, <1>43, <1>44 DEF MergeInv
  <1>46. OrderInv'
    BY <1>3, <1>4, <1>5, <1>6, <1>22, <1>26, <1>28 DEF OrderInv
  <1>47. CoarseInv' /\ AlikeInv'
    BY <1>3, <1>21, <1>22, <1>23, <1>24, <1>25 DEF ExactInv, CoarseInv, AlikeInv
  <1>48. CntInv' /\ NumbersInv' /\ GroupsInv' /\ DoneInv'
    BY <1>3 DEF ExactInv, CntInv, NumbersInv, GroupsInv, DoneInv
  <1> QED
    BY <1>35, <1>45, <1>46, <1>47, <1>48 DEF ExactInv

----------------------------------------------------------------------------
(* Theorems on folding *)

\* The inductive invariant of the rounds: classes are side by side in the order of the
\* input, what has been segregated has the classes of the pairs that stay together, no
\* class tells apart what could be folded, and what has been folded is folded into the
\* first of its class.
THEOREM ExactInvariance == Spec => []ExactInv
  <1>1. Init => ExactInv
    BY InitExact
  <1>2. IInv /\ ExactInv /\ [Next]_vars => ExactInv'
    <2> SUFFICES ASSUME IInv, ExactInv, [Next]_vars PROVE ExactInv'
      OBVIOUS
    <2>1. CASE MarkStep /\ UNCHANGED icfVars
      BY <2>1, MarkStepExact
    <2>2. CASE Collect
      BY <2>2, CollectExact
    <2>3. CASE SortByHash
      BY <2>3, SortByHashExact
    <2>4. CASE BeginRound
      BY <2>4, BeginRoundExact
    <2>5. CASE EndRound
      BY <2>5, EndRoundExact
    <2>6. ASSUME NEW n \in 0..1, CombineHashes(n) PROVE ExactInv'
      BY <2>6, CombineHashesExact
    <2>7. ASSUME NEW r \in shards, SegregateConstant(r) \/ SegregateVariable(r) \/ MergeClass(r)
          PROVE  ExactInv'
      BY <2>7, SegregateConstantExact, SegregateVariableExact, MergeClassExact
    <2>8. CASE UNCHANGED vars
      BY <2>8, StutterExact
    <2> QED
      BY <2>1, <2>2, <2>3, <2>4, <2>5, <2>6, <2>7, <2>8 DEF Next
  <1> QED
    BY <1>1, <1>2, Invariance, PTL DEF Spec

\* For every graph, hash, number of shards and interleaving of them, what ICF folds is the
\* greatest congruence and the first of each class is kept with the strictest alignment,
\* when every target that is compared has a class of its own or one that the rounds refine
\* (ICF.cpp:103, ICF.cpp:234, ICF.cpp:315).
THEOREM FoldIsExactHolds == Spec => [](Comparable => FoldIsExact)
  <1>1. ExactInv => (Comparable => FoldIsExact)
    BY DEF ExactInv, DoneInv, FoldIsExact
  <1> QED
    BY <1>1, ExactInvariance, PTL

\* Without that condition too, no two sections are left apart that could be folded, and of
\* the folded sections the first of the input is kept with the strictest alignment
\* (ICF.cpp:103, ICF.cpp:315).
THEOREM FirstIsKeptHolds ==
  Spec => [](phase = "done" => Coarse(repl) /\ \A s \in Eligible : FirstIsKept(s))
  <1>1. ExactInv => (phase = "done" => Coarse(repl) /\ \A s \in Eligible : FirstIsKept(s))
    BY DEF ExactInv, DoneInv
  <1> QED
    BY <1>1, ExactInvariance, PTL
=============================================================================
