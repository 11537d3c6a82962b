--------------------------- MODULE SequenceLemmas ---------------------------
(***************************************************************************)
(* Lemmas about the operators on sequences the modules are built from.     *)
(***************************************************************************)
EXTENDS Selections, SequencesExt, FiniteSetTheorems, NaturalsInduction, TLAPS

-----------------------------------------------------------------------------
(* Least numbers.                                                          *)

\* A set of natural numbers that is not empty has a least one.  An induction
\* over numbers is put as the search for a least counterexample.
LEMMA LeastNumber ==
  ASSUME NEW S \in SUBSET Nat, S # {}
  PROVE  \E n \in S : \A m \in S : n <= m
<1> DEFINE Smaller == {pair \in Nat \X Nat : pair[1] < pair[2]}
<1>1. PICK n \in S : \A m \in S : <<m, n>> \notin Smaller
  <2>1. IsWellFoundedOn(Smaller, Nat)
    BY NatLessThanWellFounded DEF OpToRel
  <2> HIDE DEF Smaller
  <2>2. QED
    BY <2>1, WFMin
<1>2. ASSUME NEW m \in S PROVE n <= m
  <2>1. m \in Nat /\ n \in Nat
    OBVIOUS
  <2>2. ~(m < n)
    BY <1>1, <2>1
  <2>3. QED
    BY <2>1, <2>2
<1>3. QED
  BY <1>2

-----------------------------------------------------------------------------
(* Places and their ranks.                                                 *)

\* Places of a sequence are numbers, and finitely many.
LEMMA PlacesAreFinite ==
  ASSUME NEW n \in Nat, NEW places \in SUBSET (1 .. n)
  PROVE  places \in SUBSET Nat /\ IsFiniteSet(places) /\ Cardinality(places) \in Nat
<1>1. IsFiniteSet(1 .. n)
  BY FS_Interval
<1>2. IsFiniteSet(places)
  BY <1>1, FS_Subset
<1>3. QED
  BY <1>2, FS_CardinalityType

\* A place that is among them has a rank from 1 to their number.
LEMMA RankIsANumber ==
  ASSUME NEW places \in SUBSET Nat, IsFiniteSet(places), NEW i \in places
  PROVE  Rank(places, i) \in 1 .. Cardinality(places) /\ Rank(places, i) \in Nat
<1> DEFINE upTo == {j \in places : j <= i}
<1>1. Cardinality(places) \in Nat
  BY FS_CardinalityType
<1>2. IsFiniteSet(upTo) /\ Cardinality(upTo) <= Cardinality(places)
  BY <1>1, FS_Subset
<1>3. i \in upTo
  OBVIOUS
<1>4. Cardinality(upTo) \in Nat /\ Cardinality(upTo) # 0
  BY <1>2, <1>3, FS_EmptySet, FS_CardinalityType
<1>5. QED
  BY <1>1, <1>2, <1>4 DEF Rank

\* Of two places the later has the greater rank.
LEMMA RankIncreases ==
  ASSUME NEW places \in SUBSET Nat, IsFiniteSet(places),
         NEW i \in places, NEW j \in places, i < j
  PROVE  Rank(places, i) < Rank(places, j)
<1> DEFINE upTo(k) == {l \in places : l <= k}
<1>1. IsFiniteSet(upTo(j))
  BY FS_Subset
<1>2. upTo(i) \subseteq upTo(j) /\ j \in upTo(j) /\ j \notin upTo(i)
  <2>1. \A l \in places : l \in Nat
    OBVIOUS
  <2>2. \A l \in places : l <= i => l <= j
    BY <2>1
  <2>3. j <= j /\ ~(j <= i)
    BY <2>1
  <2>4. QED
    BY <2>2, <2>3
<1>3. upTo(i) # upTo(j)
  BY <1>2
<1>4. /\ IsFiniteSet(upTo(i))
      /\ Cardinality(upTo(i)) <= Cardinality(upTo(j))
      /\ Cardinality(upTo(i)) # Cardinality(upTo(j))
  <2> HIDE DEF upTo
  <2>1. QED
    BY <1>1, <1>2, <1>3, FS_Subset
<1>5. Cardinality(upTo(i)) \in Nat /\ Cardinality(upTo(j)) \in Nat
  BY <1>1, <1>4, FS_CardinalityType
<1>6. QED
  BY <1>4, <1>5 DEF Rank

\* No two places have the same rank.
LEMMA RankIsItsOwn ==
  ASSUME NEW places \in SUBSET Nat, IsFiniteSet(places),
         NEW i \in places, NEW j \in places, Rank(places, i) = Rank(places, j)
  PROVE  i = j
<1>1. i \in Nat /\ j \in Nat
  OBVIOUS
<1>2. Rank(places, i) \in Nat
  BY RankIsANumber
<1>3. i < j => Rank(places, i) < Rank(places, j)
  BY RankIncreases
<1>4. j < i => Rank(places, j) < Rank(places, i)
  BY RankIncreases
<1>5. QED
  BY <1>1, <1>2, <1>3, <1>4

\* Every number up to the number of places is the rank of one.
LEMMA RankIsOnto ==
  ASSUME NEW places \in SUBSET Nat, IsFiniteSet(places), NEW k \in 1 .. Cardinality(places)
  PROVE  \E i \in places : Rank(places, i) = k
<1> DEFINE count == Cardinality(places)
           rank == [i \in places |-> Rank(places, i)]
<1>1. count \in Nat
  BY FS_CardinalityType
<1>2. rank \in [places -> 1 .. count]
  BY RankIsANumber
<1>3. \A i, j \in places : rank[i] = rank[j] => i = j
  BY RankIsItsOwn
<1>4. rank \in Injection(places, 1 .. count)
  BY <1>2, <1>3 DEF Injection, IsInjective
<1>5. IsFiniteSet(1 .. count) /\ Cardinality(1 .. count) = count
  BY <1>1, FS_Interval
<1>6. rank \in Surjection(places, 1 .. count)
  BY <1>4, <1>5, FS_Injection
<1>7. QED
  BY <1>6 DEF Surjection

\* A set of places that is not empty has a first and a last one.
LEMMA EndsOfPlaces ==
  ASSUME NEW n \in Nat, NEW places \in SUBSET (0 .. n), places # {}
  PROVE  /\ Min(places) \in places /\ \A i \in places : Min(places) <= i
         /\ Max(places) \in places /\ \A i \in places : i <= Max(places)
<1>1. places \in SUBSET Nat
  OBVIOUS
<1>2. \E x \in places : \A y \in places : x <= y
  BY <1>1, LeastNumber
<1>3. \E x \in places : \A y \in places : x >= y
  <2> DEFINE mirrored == {n - i : i \in places}
  <2>1. mirrored \in SUBSET Nat /\ mirrored # {}
    <3>1. \A i \in places : n - i \in Nat
      OBVIOUS
    <3>2. PICK i \in places : TRUE
      OBVIOUS
    <3>3. n - i \in mirrored
      BY <3>2
    <3>4. QED
      BY <3>1, <3>3
  <2>2. \E m \in mirrored : \A k \in mirrored : m <= k
    <3> HIDE DEF mirrored
    <3>1. QED
      BY <2>1, LeastNumber
  <2>3. PICK x \in places : \A k \in mirrored : n - x <= k
    BY <2>2
  <2>4. ASSUME NEW y \in places PROVE x >= y
    <3>1. n - x <= n - y
      BY <2>3
    <3>2. x \in Nat /\ y \in Nat
      BY <1>1
    <3>3. QED
      BY <3>1, <3>2
  <2>5. QED
    BY <2>4
<1>4. Min(places) \in places /\ \A y \in places : Min(places) <= y
  BY <1>2, Zenon DEF Min
<1>5. Max(places) \in places /\ \A y \in places : Max(places) >= y
  BY <1>3, Zenon DEF Max
<1>6. ASSUME NEW i \in places PROVE i <= Max(places)
  <2>1. Max(places) >= i /\ Max(places) \in Nat /\ i \in Nat
    BY <1>1, <1>5
  <2>2. QED
    BY <2>1
<1>7. QED
  BY <1>4, <1>5, <1>6

\* Places that follow each other have ranks that do.
LEMMA RankOfTheNext ==
  ASSUME NEW places \in SUBSET Nat, IsFiniteSet(places), NEW a \in places, NEW b \in places
  PROVE  Rank(places, b) = Rank(places, a) + 1 <=>
           a < b /\ \A c \in places : ~(a < c /\ c < b)
<1>1. a \in Nat /\ b \in Nat /\ \A c \in places : c \in Nat
  OBVIOUS
<1>2. \A c \in places : Rank(places, c) \in Nat
  BY RankIsANumber
<1>3. ASSUME a < b, \A c \in places : ~(a < c /\ c < b)
      PROVE  Rank(places, b) = Rank(places, a) + 1
  <2> DEFINE upTo(i) == {j \in places : j <= i}
  <2>1. upTo(b) = upTo(a) \cup {b}
    <3>1. \A c \in places : c <= b <=> c <= a \/ c = b
      BY <1>1, <1>3
    <3>2. QED
      BY <3>1
  <2>2. IsFiniteSet(upTo(a)) /\ b \notin upTo(a)
    <3>1. b \notin upTo(a)
      BY <1>1, <1>3
    <3>2. IsFiniteSet(upTo(a))
      BY FS_Subset
    <3>3. QED
      BY <3>1, <3>2
  <2> HIDE DEF upTo
  <2>3. Cardinality(upTo(b)) = Cardinality(upTo(a)) + 1
    BY <2>1, <2>2, FS_AddElement
  <2>4. QED
    BY <2>3 DEF Rank, upTo
<1>4. ASSUME Rank(places, b) = Rank(places, a) + 1
      PROVE  a < b /\ \A c \in places : ~(a < c /\ c < b)
  <2>1. a < b
    <3>1. a = b => Rank(places, b) = Rank(places, a)
      OBVIOUS
    <3>2. b < a => Rank(places, b) < Rank(places, a)
      BY RankIncreases
    <3>3. QED
      BY <1>1, <1>2, <1>4, <3>1, <3>2
  <2>2. ASSUME NEW c \in places, a < c, c < b PROVE FALSE
    <3>1. Rank(places, a) < Rank(places, c) /\ Rank(places, c) < Rank(places, b)
      BY <2>2, RankIncreases
    <3>2. QED
      BY <1>2, <1>4, <3>1
  <2>3. QED
    BY <2>1, <2>2
<1>5. QED
  BY <1>3, <1>4

-----------------------------------------------------------------------------
(* Keep.                                                                   *)

\* What is kept is a sequence, as long as there are places.
LEMMA KeepIsASequence ==
  ASSUME NEW s, NEW places \in SUBSET Nat, IsFiniteSet(places)
  PROVE  /\ DOMAIN Keep(s, places) = 1 .. Cardinality(places)
         /\ Len(Keep(s, places)) = Cardinality(places)
         /\ Cardinality(places) \in Nat
<1>1. Cardinality(places) \in Nat
  BY FS_CardinalityType
<1>2. DOMAIN Keep(s, places) = 1 .. Cardinality(places)
  BY DEF Keep
<1>3. QED
  BY <1>1, <1>2

\* The element of a place that is kept stands at the rank of the place.
LEMMA KeepAtRank ==
  ASSUME NEW s, NEW places \in SUBSET Nat, IsFiniteSet(places), NEW i \in places
  PROVE  Keep(s, places)[Rank(places, i)] = s[i]
<1> DEFINE k == Rank(places, i)
<1>1. k \in 1 .. Cardinality(places)
  BY RankIsANumber
<1>2. \A j \in places : Rank(places, j) = k => j = i
  BY RankIsItsOwn
<1>3. (CHOOSE j \in places : Rank(places, j) = k) = i
  BY <1>2
<1>4. QED
  BY <1>1, <1>3 DEF Keep

\* Whatever is kept comes from one of the places.
LEMMA KeepComesFrom ==
  ASSUME NEW s, NEW places \in SUBSET Nat, IsFiniteSet(places),
         NEW k \in 1 .. Cardinality(places)
  PROVE  \E i \in places : Rank(places, i) = k /\ Keep(s, places)[k] = s[i]
<1>1. PICK i \in places : Rank(places, i) = k
  BY RankIsOnto
<1>2. QED
  BY <1>1, KeepAtRank

\* What is kept is of the kind of what is at the places.
LEMMA KeepType ==
  ASSUME NEW s, NEW places \in SUBSET Nat, IsFiniteSet(places), NEW S,
         \A i \in places : s[i] \in S
  PROVE  Keep(s, places) \in Seq(S)
<1> DEFINE kept == Keep(s, places)
           c == Cardinality(places)
<1>1. c \in Nat /\ DOMAIN kept = 1 .. c
  BY KeepIsASequence
<1>2. ASSUME NEW k \in 1 .. c PROVE kept[k] \in S
  BY KeepComesFrom
<1>3. kept = [k \in 1 .. c |-> kept[k]]
  BY DEF Keep
<1>4. QED
  BY <1>1, <1>2, <1>3

\* Nothing is kept of no places, and something of some.
LEMMA KeepNothing ==
  ASSUME NEW s, NEW places \in SUBSET Nat, IsFiniteSet(places)
  PROVE  Keep(s, places) = <<>> <=> places = {}
<1>1. Cardinality(places) \in Nat
  BY FS_CardinalityType
<1>2. Cardinality(places) = 0 <=> places = {}
  BY <1>1, FS_EmptySet
<1>3. Keep(s, places) = <<>> => Len(Keep(s, places)) = 0
  OBVIOUS
<1>4. Cardinality(places) = 0 => Keep(s, places) = <<>>
  BY DEF Keep
<1>5. QED
  BY <1>2, <1>3, <1>4, KeepIsASequence

-----------------------------------------------------------------------------
(* FlattenSeq.                                                             *)

\* The sequences are appended one after the other, which is to say that the
\* function FlattenSeq is defined by does exist.
LEMMA FlattenGrows ==
  ASSUME NEW S, NEW seqs \in Seq(Seq(S)), seqs # <<>>
  PROVE  \E upTo \in [1 .. Len(seqs) -> Seq(S)] :
           /\ upTo[1] = seqs[1]
           /\ \A i \in 2 .. Len(seqs) : upTo[i] = upTo[i - 1] \o seqs[i]
           /\ FlattenSeq(seqs) = upTo[Len(seqs)]
<1> DEFINE n == Len(seqs)
           Step(f, m) == [i \in 1 .. m |-> IF i = 1 THEN seqs[i] ELSE f[i - 1] \o seqs[i]]
           built == {m \in 1 .. n : \E f \in [1 .. m -> Seq(S)] : f = Step(f, m)}
<1>1. n \in Nat /\ n >= 1 /\ \A i \in 1 .. n : seqs[i] \in Seq(S)
  OBVIOUS
<1>2. 1 \in built
  <2> DEFINE one == [i \in 1 .. 1 |-> seqs[1]]
  <2>1. one \in [1 .. 1 -> Seq(S)]
    BY <1>1
  <2>2. one = Step(one, 1)
    OBVIOUS
  <2>3. 1 \in 1 .. n
    BY <1>1
  <2> HIDE DEF one, Step, n
  <2>4. QED
    BY <2>1, <2>2, <2>3
<1>3. ASSUME NEW m \in 1 .. n, m - 1 \in built PROVE m \in built
  <2>1. PICK f \in [1 .. m - 1 -> Seq(S)] : f = Step(f, m - 1)
    BY <1>3
  <2> DEFINE next == [i \in 1 .. m |-> IF i = m THEN f[m - 1] \o seqs[m] ELSE f[i]]
  <2>2. m \in Nat /\ m - 1 \in 1 .. m - 1 /\ f[m - 1] \in Seq(S)
    BY <1>1, <1>3
  <2>3. next \in [1 .. m -> Seq(S)]
    BY <1>1, <2>2
  <2>4. ASSUME NEW i \in 1 .. m
        PROVE  next[i] = IF i = 1 THEN seqs[i] ELSE next[i - 1] \o seqs[i]
    <3>1. CASE i = m
      <4>1. m # 1 /\ m \in 1 .. m /\ m - 1 \in 1 .. m /\ m - 1 # m
        BY <2>2
      <4>2. next[m - 1] = f[m - 1] /\ next[m] = f[m - 1] \o seqs[m]
        BY <4>1, Zenon
      <4>3. QED
        BY <3>1, <4>1, <4>2
    <3>2. CASE i # m
      <4>1. i \in 1 .. m - 1 /\ i - 1 # m
        BY <2>2, <3>2
      <4>2. f[i] = IF i = 1 THEN seqs[i] ELSE f[i - 1] \o seqs[i]
        BY <2>1, <4>1
      <4>3. i # 1 => next[i - 1] = f[i - 1]
        BY <2>2, <4>1
      <4>4. QED
        BY <3>2, <4>2, <4>3
    <3>3. QED
      BY <3>1, <3>2
  <2>5. next = Step(next, m)
    BY <2>4
  <2>6. QED
    BY <2>3, <2>5
<1>4. n \in built
  <2> SUFFICES ASSUME n \notin built PROVE FALSE
    OBVIOUS
  <2> HIDE DEF built
  <2>1. (1 .. n) \ built \in SUBSET Nat /\ (1 .. n) \ built # {}
    BY <1>1
  <2>2. PICK m \in (1 .. n) \ built : \A k \in (1 .. n) \ built : m <= k
    BY <2>1, LeastNumber
  <2>3. m # 1
    BY <1>2, <2>2
  <2>4. m - 1 \in built
    BY <1>1, <2>2, <2>3
  <2>5. QED
    BY <1>3, <2>2, <2>4
<1>5. \E f : f = Step(f, n)
  BY <1>4
<1> DEFINE upTo == CHOOSE f : f = Step(f, n)
<1>6. upTo = Step(upTo, n)
  BY <1>5
<1>7. FlattenSeq(seqs) = upTo[n]
  BY <1>1 DEF FlattenSeq
<1> HIDE DEF upTo
<1>8. upTo[1] = seqs[1] /\ \A i \in 2 .. n : upTo[i] = upTo[i - 1] \o seqs[i]
  <2>1. \A i \in 1 .. n : upTo[i] = Step(upTo, n)[i]
    BY <1>6
  <2>2. \A i \in 1 .. n : upTo[i] = IF i = 1 THEN seqs[i] ELSE upTo[i - 1] \o seqs[i]
    BY <2>1
  <2>3. 1 \in 1 .. n /\ \A i \in 2 .. n : i \in 1 .. n /\ i # 1
    BY <1>1
  <2>4. QED
    BY <2>2, <2>3
<1>9. \A i \in 1 .. n : upTo[i] \in Seq(S)
  <2> DEFINE bad == {i \in 1 .. n : upTo[i] \notin Seq(S)}
  <2> SUFFICES ASSUME bad # {} PROVE FALSE
    OBVIOUS
  <2>1. bad \in SUBSET Nat
    BY <1>1
  <2> HIDE DEF bad
  <2>2. PICK i \in bad : \A k \in bad : i <= k
    BY <2>1, LeastNumber
  <2>3. i # 1
    BY <1>1, <1>8 DEF bad
  <2>4. i \in 2 .. n /\ i - 1 \in 1 .. n /\ i - 1 \notin bad
    BY <1>1, <2>1, <2>2, <2>3 DEF bad
  <2>5. upTo[i - 1] \in Seq(S) /\ seqs[i] \in Seq(S)
    BY <1>1, <2>4 DEF bad
  <2>6. upTo[i] = upTo[i - 1] \o seqs[i]
    BY <1>8, <2>4
  <2>7. upTo[i] \in Seq(S)
    BY <2>5, <2>6
  <2>8. QED
    BY <2>7 DEF bad
<1>10. upTo \in [1 .. n -> Seq(S)]
  BY <1>6, <1>9
<1>11. QED
  BY <1>7, <1>8, <1>10

\* A row of places is as long as it says.
LEMMA RowCount ==
  ASSUME NEW i, NEW c \in Nat
  PROVE  IsFiniteSet({<<i, j>> : j \in 1 .. c}) /\ Cardinality({<<i, j>> : j \in 1 .. c}) = c
<1> DEFINE row == {<<i, j>> : j \in 1 .. c}
           place == [j \in 1 .. c |-> <<i, j>>]
<1>1. place \in [1 .. c -> row]
  OBVIOUS
<1>2. \A j, k \in 1 .. c : place[j] = place[k] => j = k
  OBVIOUS
<1>3. \A p \in row : \E j \in 1 .. c : place[j] = p
  OBVIOUS
<1>4. place \in Bijection(1 .. c, row)
  BY <1>1, <1>2, <1>3 DEF Bijection, Injection, Surjection, IsInjective
<1> HIDE DEF row
<1>5. ExistsBijection(1 .. c, row)
  BY <1>4 DEF ExistsBijection
<1>6. QED
  BY <1>5, FS_NatBijection, FS_CountingElements DEF row

\* The places of a sequence.
LEMMA SequencePlaces ==
  ASSUME NEW S
  PROVE  /\ <<>> \in Seq(S)
         /\ \A s \in Seq(S) : /\ Len(s) \in Nat /\ DOMAIN s = 1 .. Len(s)
                              /\ s # <<>> => 1 \in 1 .. Len(s)
                              /\ \A i \in 1 .. Len(s) : s[i] \in S
<1>1. \A s \in Seq(S) : /\ Len(s) \in Nat /\ DOMAIN s = 1 .. Len(s)
                        /\ \A i \in 1 .. Len(s) : s[i] \in S
  OBVIOUS
<1>2. ASSUME NEW s \in Seq(S), s # <<>> PROVE 1 \in 1 .. Len(s)
  BY <1>1, <1>2
<1>3. <<>> \in Seq(S)
  OBVIOUS
<1>4. QED
  BY <1>1, <1>2, <1>3

\* Where the elements of two sequences stand when one follows the other.
LEMMA Joined ==
  ASSUME NEW S, NEW s \in Seq(S), NEW t \in Seq(S)
  PROVE  /\ s \o t \in Seq(S) /\ Len(s \o t) = Len(s) + Len(t)
         /\ \A k \in 1 .. Len(s) : k \in 1 .. Len(s \o t) /\ (s \o t)[k] = s[k]
         /\ \A k \in 1 .. Len(t) :
              Len(s) + k \in 1 .. Len(s \o t) /\ (s \o t)[Len(s) + k] = t[k]
OBVIOUS

\* Every element stands in the flat sequence behind those of the slots before its
\* own, and nothing else does.
LEMMA FlattenAt ==
  ASSUME NEW S, NEW seqs \in Seq(Seq(S))
  PROVE  LET flat == FlattenSeq(seqs)
         IN  /\ flat \in Seq(S)
             /\ IsFiniteSet(Slots(seqs)) /\ Len(flat) = Cardinality(Slots(seqs))
             /\ \A p \in Slots(seqs) :
                  /\ Ordinal(Slots(seqs), p) \in 1 .. Len(flat)
                  /\ flat[Ordinal(Slots(seqs), p)] = seqs[p[1]][p[2]]
<1> DEFINE n == Len(seqs)
           flat == FlattenSeq(seqs)
           slots == Slots(seqs)
           before(p) == {q \in slots : Before(q, p)}
           row(i) == {<<i, j>> : j \in 1 .. Len(seqs[i])}
           rows(i) == {p \in slots : p[1] <= i}
<1>1. /\ n \in Nat /\ DOMAIN seqs = 1 .. n
      /\ \A i \in 1 .. n : /\ seqs[i] \in Seq(S) /\ Len(seqs[i]) \in Nat
                           /\ DOMAIN seqs[i] = 1 .. Len(seqs[i])
  OBVIOUS
<1>2. \A p : p \in slots <=> \E i \in 1 .. n : \E j \in 1 .. Len(seqs[i]) : p = <<i, j>>
  BY <1>1 DEF Slots
<1> HIDE DEF slots
<1>3. CASE seqs = <<>>
  <2>1. flat = <<>>
    BY <1>3 DEF FlattenSeq
  <2>2. slots = {}
    BY <1>1, <1>2, <1>3
  <2>3. QED
    BY <2>1, <2>2, FS_EmptySet DEF slots
<1>4. CASE seqs # <<>>
  <2>1. PICK upTo \in [1 .. n -> Seq(S)] :
          /\ upTo[1] = seqs[1]
          /\ \A i \in 2 .. n : upTo[i] = upTo[i - 1] \o seqs[i]
          /\ flat = upTo[n]
    BY <1>4, FlattenGrows
  <2> HIDE DEF flat, n
  <2>2. n \in Nat /\ n >= 1
    BY <1>1, <1>4 DEF n
  <2>3. ASSUME NEW i \in 2 .. n
        PROVE  /\ i - 1 \in 1 .. n /\ i \in 1 .. n
               /\ upTo[i - 1] \in Seq(S) /\ seqs[i] \in Seq(S)
               /\ upTo[i] = upTo[i - 1] \o seqs[i]
    <3>1. i - 1 \in 1 .. n /\ i \in 1 .. n
      BY <2>2
    <3>2. QED
      BY <1>1, <2>1, <3>1
  <2>4. \A i \in 1 .. n : upTo[i] \in Seq(S) /\ Len(upTo[i]) \in Nat
    BY <2>1, SMTT(30)
  <2> DEFINE counted(i) == IsFiniteSet(rows(i)) /\ Cardinality(rows(i)) = Len(upTo[i])
  <2>5. \A i \in 1 .. n : IsFiniteSet(row(i)) /\ Cardinality(row(i)) = Len(seqs[i])
    BY <1>1, RowCount
  <2>6. rows(1) = row(1)
    BY <1>2, <2>2
  <2>7. \A i \in 2 .. n : rows(i) = rows(i - 1) \cup row(i) /\ rows(i - 1) \cap row(i) = {}
    BY <1>2, <2>2
  <2>8. \A i \in 2 .. n : Len(upTo[i]) = Len(upTo[i - 1]) + Len(seqs[i])
    <3> SUFFICES ASSUME NEW i \in 2 .. n
                 PROVE  Len(upTo[i]) = Len(upTo[i - 1]) + Len(seqs[i])
      OBVIOUS
    <3>1. upTo[i - 1] \in Seq(S) /\ seqs[i] \in Seq(S) /\ upTo[i] = upTo[i - 1] \o seqs[i]
      BY <2>3
    <3>2. QED
      BY <3>1, Joined
  <2> HIDE DEF rows, row
  <2>9. \A i \in 1 .. n : counted(i)
    <3> DEFINE bad == {i \in 1 .. n : ~counted(i)}
    <3> SUFFICES ASSUME bad # {} PROVE FALSE
      OBVIOUS
    <3>1. bad \in SUBSET Nat
      BY <2>2
    <3> HIDE DEF bad
    <3>2. PICK i \in bad : \A k \in bad : i <= k
      BY <3>1, LeastNumber
    <3>3. counted(1)
      BY <2>1, <2>2, <2>5, <2>6
    <3>4. i \in 2 .. n /\ i - 1 \in 1 .. n /\ i - 1 \notin bad
      BY <2>2, <3>2, <3>3 DEF bad
    <3>5. counted(i - 1)
      BY <3>4 DEF bad
    <3>6. i \in 1 .. n /\ Len(seqs[i]) \in Nat /\ Len(upTo[i - 1]) \in Nat
      BY <1>1, <2>2, <2>4, <3>4
    <3>7. /\ IsFiniteSet(rows(i))
          /\ Cardinality(rows(i)) =
               Cardinality(rows(i - 1)) + Cardinality(row(i)) - Cardinality({})
      <4>1. IsFiniteSet(rows(i - 1)) /\ IsFiniteSet(row(i))
        BY <2>5, <3>5, <3>6
      <4>2. rows(i) = rows(i - 1) \cup row(i) /\ rows(i - 1) \cap row(i) = {}
        BY <2>7, <3>4
      <4>3. QED
        BY <4>1, <4>2, FS_Union
    <3>8. Cardinality(rows(i)) = Len(upTo[i - 1]) + Len(seqs[i])
      <4>1. /\ Cardinality(rows(i - 1)) = Len(upTo[i - 1])
            /\ Cardinality(row(i)) = Len(seqs[i])
            /\ Cardinality({}) = 0
        BY <2>5, <3>5, <3>6, FS_EmptySet
      <4>2. QED
        <5> DEFINE a == Len(upTo[i - 1])
                   b == Len(seqs[i])
        <5>1. a \in Nat /\ b \in Nat /\ Cardinality(rows(i)) = a + b - 0
          BY <3>6, <3>7, <4>1
        <5> HIDE DEF a, b
        <5>2. Cardinality(rows(i)) = a + b
          BY <5>1
        <5>3. QED
          BY <5>2 DEF a, b
    <3>9. QED
      BY <2>8, <3>2, <3>4, <3>7, <3>8 DEF bad
  <2>10. ASSUME NEW i \in 1 .. n, NEW k \in 1 .. Len(upTo[i])
        PROVE  k \in 1 .. Len(flat) /\ flat[k] = upTo[i][k]
    <3> DEFINE same(m) == k \in 1 .. Len(upTo[m]) /\ upTo[m][k] = upTo[i][k]
               bad == {m \in i .. n : ~same(m)}
    <3>1. ASSUME bad # {} PROVE FALSE
      <4>1. bad \in SUBSET Nat
        BY <2>2
      <4> HIDE DEF bad
      <4>2. PICK m \in bad : \A l \in bad : m <= l
        BY <3>1, <4>1, LeastNumber
      <4>3. m \in 2 .. n /\ m - 1 \in i .. n /\ m - 1 \in 1 .. n /\ m - 1 \notin bad
        BY <2>2, <4>2 DEF bad
      <4>4. same(m - 1)
        BY <4>3 DEF bad
      <4>5. /\ upTo[m] = upTo[m - 1] \o seqs[m]
            /\ upTo[m - 1] \in Seq(S) /\ seqs[m] \in Seq(S)
        BY <2>3, <4>3
      <4>6. same(m)
        <5>1. k \in 1 .. Len(upTo[m]) /\ upTo[m][k] = upTo[m - 1][k]
          <6> DEFINE s == upTo[m - 1]
                     t == seqs[m]
          <6>1. s \in Seq(S) /\ t \in Seq(S) /\ upTo[m] = s \o t /\ k \in 1 .. Len(s)
            BY <4>4, <4>5
          <6> HIDE DEF s, t
          <6>2. k \in 1 .. Len(s \o t) /\ (s \o t)[k] = s[k]
            BY <6>1, Joined
          <6>3. QED
            BY <6>1, <6>2 DEF s
        <5>2. QED
          BY <4>4, <5>1
      <4>7. QED
        BY <4>2, <4>6 DEF bad
    <3>2. same(n)
      <4>1. n \in i .. n /\ n \notin bad
        <5>1. n \in i .. n
          BY <2>2
        <5>2. bad = {}
          BY <3>1
        <5>3. QED
          BY <5>1, <5>2
      <4>2. QED
        BY <4>1
    <3>3. QED
      BY <2>1, <3>2
  <2>11. rows(n) = slots
    BY <1>2, <2>2 DEF rows
  <2>12. flat \in Seq(S) /\ IsFiniteSet(slots) /\ Len(flat) = Cardinality(slots)
    BY <2>1, <2>2, <2>4, <2>9, <2>11
  <2>13. ASSUME NEW p \in slots
         PROVE  /\ 1 + Cardinality(before(p)) \in 1 .. Len(flat)
                /\ flat[1 + Cardinality(before(p))] = seqs[p[1]][p[2]]
    <3>1. PICK i \in 1 .. n : \E j \in 1 .. Len(seqs[i]) : p = <<i, j>>
      BY <1>2
    <3>2. PICK j \in 1 .. Len(seqs[i]) : p = <<i, j>>
      BY <3>1
    <3> DEFINE left == {<<i, k>> : k \in 1 .. j - 1}
               above == {q \in slots : q[1] < i}
    <3>3. /\ i \in Nat /\ j \in Nat /\ j >= 1 /\ j <= Len(seqs[i]) /\ Len(seqs[i]) \in Nat
          /\ seqs[i] \in Seq(S)
      BY <1>1, <2>2
    <3>4. before(p) = above \cup left /\ above \cap left = {}
      BY <1>2, <2>2, <3>2, <3>3 DEF Before
    <3>5. IsFiniteSet(left) /\ Cardinality(left) = j - 1
      <4>1. j - 1 \in Nat
        BY <3>3
      <4>2. QED
        BY <4>1, RowCount
    <3>6. CASE i = 1
      <4>1. above = {}
        BY <1>2, <2>2, <3>6
      <4>2. Cardinality(before(p)) = j - 1
        BY <3>4, <3>5, <4>1
      <4>3. j \in 1 .. Len(upTo[1]) /\ upTo[1][j] = seqs[i][j] /\ 1 \in 1 .. n
        BY <2>1, <2>2, <3>3, <3>6
      <4>4. j \in 1 .. Len(flat) /\ flat[j] = seqs[i][j]
        BY <2>10, <4>3
      <4>5. QED
        BY <3>2, <3>3, <4>2, <4>4
    <3>7. CASE i # 1
      <4>1. i \in 2 .. n /\ i - 1 \in 1 .. n
        BY <2>2, <3>3, <3>7
      <4>2. above = rows(i - 1)
        <5>1. \A q \in slots : q[1] \in Nat
          BY <1>2, <2>2, SMTT(30)
        <5>2. \A q \in slots : q[1] < i <=> q[1] <= i - 1
          BY <3>3, <5>1
        <5>3. QED
          BY <5>2 DEF rows
      <4>3. IsFiniteSet(above) /\ Cardinality(above) = Len(upTo[i - 1])
        BY <2>9, <4>1, <4>2
      <4>4. Len(upTo[i - 1]) \in Nat /\ upTo[i - 1] \in Seq(S)
        BY <2>4, <4>1
      <4>5. Cardinality(before(p)) = Len(upTo[i - 1]) + (j - 1)
        <5> HIDE DEF above, left, before
        <5>1. Cardinality(above \cup left)
                = Cardinality(above) + Cardinality(left) - Cardinality({})
          BY <3>4, <3>5, <4>3, FS_Union, SMTT(30)
        <5>2. QED
          BY <3>3, <3>4, <3>5, <4>3, <4>4, <5>1, FS_EmptySet
      <4>6. upTo[i] = upTo[i - 1] \o seqs[i]
        BY <2>1, <4>1
      <4>7. /\ Len(upTo[i - 1]) + j \in 1 .. Len(upTo[i])
            /\ upTo[i][Len(upTo[i - 1]) + j] = seqs[i][j]
        BY <2>3, <3>3, <4>1, <4>6, Joined, SMTT(30)
      <4>8. /\ Len(upTo[i - 1]) + j \in 1 .. Len(flat)
            /\ flat[Len(upTo[i - 1]) + j] = seqs[i][j]
        BY <2>10, <4>7
      <4>9. 1 + Cardinality(before(p)) = Len(upTo[i - 1]) + j
        BY <3>3, <4>4, <4>5
      <4>10. QED
        BY <3>2, <4>8, <4>9
    <3>8. QED
      BY <3>6, <3>7
  <2>14. QED
    BY <2>12, <2>13 DEF slots, flat, Ordinal
<1>5. QED
  BY <1>3, <1>4

\* What is numbered anew, one by one, is as many as before.
LEMMA Renumbered ==
  ASSUME NEW S, NEW T, IsFiniteSet(T), NEW to \in [S -> T],
         \A p, q \in S : to[p] = to[q] => p = q,
         \A t \in T : \E p \in S : to[p] = t
  PROVE  IsFiniteSet(S) /\ Cardinality(S) = Cardinality(T)
<1> DEFINE from == [t \in T |-> CHOOSE p \in S : to[p] = t]
<1>1. \A t \in T : from[t] \in S /\ to[from[t]] = t
  OBVIOUS
<1>2. \A p \in S : from[to[p]] = p
  BY <1>1
<1>3. from \in [T -> S]
  BY <1>1
<1> HIDE DEF from
<1>4. \A t, u \in T : from[t] = from[u] => t = u
  BY <1>1
<1>5. \A p \in S : \E t \in T : from[t] = p
  BY <1>2
<1>6. from \in Bijection(T, S)
  BY <1>3, <1>4, <1>5 DEF Bijection, Injection, Surjection, IsInjective
<1>7. ExistsBijection(T, S)
  BY <1>6 DEF ExistsBijection
<1>8. QED
  BY <1>7, FS_Bijection

\* Some of the slots of a sequence of sequences are chosen, some of the rows and
\* some of the places in each; the slots of what is chosen correspond to them, one
\* by one and in order.
AreChosen(rows, chosen) ==
  /\ rows \in SUBSET Nat /\ IsFiniteSet(rows)
  /\ \A a \in rows : chosen[a] \in SUBSET Nat /\ IsFiniteSet(chosen[a])
AreThePlaces(held, rows, chosen) ==
  \A p : p \in held <=> \E a \in rows : \E b \in chosen[a] : p = <<a, b>>
AreTheSlots(slots, rows, chosen) ==
  /\ IsFiniteSet(slots)
  /\ \A p : p \in slots <=>
       \E a \in rows : \E l \in 1 .. Cardinality(chosen[a]) : p = <<Rank(rows, a), l>>
Moved(rows, chosen, p) == <<Rank(rows, p[1]), Rank(chosen[p[1]], p[2])>>

LEMMA ChosenSlots ==
  ASSUME NEW rows, NEW chosen, AreChosen(rows, chosen),
         NEW held, AreThePlaces(held, rows, chosen),
         NEW slots, AreTheSlots(slots, rows, chosen)
  PROVE  /\ IsFiniteSet(held) /\ Cardinality(held) = Cardinality(slots)
         /\ \A p \in held : /\ Moved(rows, chosen, p) \in slots
                            /\ Ordinal(held, p) = Ordinal(slots, Moved(rows, chosen, p))
<1> DEFINE to(p) == Moved(rows, chosen, p)
           map == [p \in held |-> to(p)]
           before(p) == {q \in held : Before(q, p)}
           ahead(p) == {q \in slots : Before(q, p)}
<1>1. /\ rows \in SUBSET Nat /\ IsFiniteSet(rows) /\ IsFiniteSet(slots)
      /\ \A a \in rows : chosen[a] \in SUBSET Nat /\ IsFiniteSet(chosen[a])
  BY DEF AreChosen, AreTheSlots
<1> USE DEF Moved
<1>2. \A p \in held : /\ p = <<p[1], p[2]>> /\ p[1] \in rows /\ p[2] \in chosen[p[1]]
                      /\ p[1] \in Nat /\ p[2] \in Nat
  BY <1>1 DEF AreThePlaces
<1>3. \A p \in held : /\ Rank(rows, p[1]) \in Nat
                      /\ Rank(chosen[p[1]], p[2]) \in 1 .. Cardinality(chosen[p[1]])
                      /\ Rank(chosen[p[1]], p[2]) \in Nat
  BY <1>1, <1>2, RankIsANumber
<1>4. \A p \in held : to(p) \in slots
  BY <1>2, <1>3 DEF AreTheSlots
<1>5. ASSUME NEW p \in held, NEW q \in held, Before(q, p) PROVE Before(to(q), to(p))
  <2>1. CASE q[1] < p[1]
    <3>1. Rank(rows, q[1]) < Rank(rows, p[1])
      BY <1>1, <1>2, <2>1, RankIncreases
    <3>2. QED
      BY <3>1 DEF Before
  <2>2. CASE q[1] = p[1] /\ q[2] < p[2]
    <3>1. Rank(chosen[p[1]], q[2]) < Rank(chosen[p[1]], p[2])
      BY <1>1, <1>2, <2>2, RankIncreases
    <3>2. QED
      BY <2>2, <3>1 DEF Before
  <2>3. QED
    BY <1>5, <2>1, <2>2 DEF Before
<1>6. ASSUME NEW p \in held, NEW q \in held
      PROVE  p = q \/ Before(q, p) \/ Before(p, q)
  BY <1>2 DEF Before
<1>7. ASSUME NEW p \in held, NEW q \in held PROVE ~(Before(to(p), to(q)) /\ Before(to(q), to(p)))
  BY <1>3 DEF Before
<1>8. ASSUME NEW p \in held PROVE ~Before(to(p), to(p))
  BY <1>3 DEF Before
<1>9. \A p, q \in held : to(p) = to(q) => p = q
  <2> SUFFICES ASSUME NEW p \in held, NEW q \in held, to(p) = to(q) PROVE p = q
    OBVIOUS
  <2>1. ~Before(to(p), to(q)) /\ ~Before(to(q), to(p))
    BY <1>8
  <2> HIDE DEF to
  <2>2. QED
    BY <1>5, <1>6, <2>1
<1>10. ASSUME NEW t \in slots PROVE \E p \in held : to(p) = t
  <2>1. PICK a \in rows : \E l \in 1 .. Cardinality(chosen[a]) : t = <<Rank(rows, a), l>>
    BY DEF AreTheSlots
  <2>2. PICK l \in 1 .. Cardinality(chosen[a]) : t = <<Rank(rows, a), l>>
    BY <2>1
  <2>3. PICK b \in chosen[a] : Rank(chosen[a], b) = l
    BY <1>1, RankIsOnto
  <2>4. <<a, b>> \in held /\ to(<<a, b>>) = t
    BY <2>2, <2>3 DEF AreThePlaces
  <2> HIDE DEF to
  <2>5. QED
    BY <2>4
<1> HIDE DEF to
<1>11. IsFiniteSet(held) /\ Cardinality(held) = Cardinality(slots)
  <2>1. map \in [held -> slots]
    BY <1>4
  <2>2. /\ \A p, q \in held : map[p] = map[q] => p = q
        /\ \A t \in slots : \E p \in held : map[p] = t
    BY <1>9, <1>10
  <2> HIDE DEF map
  <2>3. QED
    BY <1>1, <2>1, <2>2, Renumbered
<1>12. ASSUME NEW p \in held
       PROVE  Cardinality(before(p)) = Cardinality(ahead(to(p)))
  <2> DEFINE S == before(p)
             T == ahead(to(p))
             part == [q \in S |-> to(q)]
  <2>1. part \in [S -> T]
    BY <1>4, <1>5
  <2>2. \A q, r \in S : part[q] = part[r] => q = r
    BY <1>9
  <2>3. \A t \in T : \E q \in S : part[q] = t
    <3> SUFFICES ASSUME NEW t \in T PROVE \E q \in S : part[q] = t
      OBVIOUS
    <3>1. PICK q \in held : to(q) = t
      BY <1>10
    <3>2. Before(to(q), to(p))
      BY <3>1
    <3>3. q # p /\ ~Before(p, q)
      BY <1>5, <1>7, <1>8, <3>2
    <3>4. QED
      BY <1>6, <3>1, <3>3
  <2>4. IsFiniteSet(T)
    BY <1>1, FS_Subset
  <2> HIDE DEF S, T, part
  <2>5. Cardinality(S) = Cardinality(T)
    BY <2>1, <2>2, <2>3, <2>4, Renumbered
  <2>6. QED
    BY <2>5 DEF S, T
<1>13. QED
  BY <1>4, <1>11, <1>12 DEF to, Ordinal

-----------------------------------------------------------------------------
(* Short lists.                                                            *)

\* A list is a pair, or a triple, just when it is as long and has the same elements.
LEMMA IsPair ==
  ASSUME NEW m \in Nat, NEW s, s = [i \in 1 .. m |-> s[i]], NEW a, NEW b
  PROVE  s = <<a, b>> <=> m = 2 /\ s[1] = a /\ s[2] = b
<1> DEFINE t == <<a, b>>
<1>1. t = [i \in 1 .. 2 |-> t[i]] /\ t[1] = a /\ t[2] = b /\ DOMAIN t = 1 .. 2 /\ Len(t) = 2
  OBVIOUS
<1>2. DOMAIN s = 1 .. m /\ Len(s) = m
  OBVIOUS
<1> HIDE DEF t
<1>3. s = t => m = 2 /\ s[1] = a /\ s[2] = b
  BY <1>1, <1>2
<1>4. ASSUME m = 2, s[1] = a, s[2] = b PROVE s = t
  <2>1. \A i \in 1 .. 2 : s[i] = t[i]
    BY <1>1, <1>4
  <2>2. QED
    BY <1>1, <1>4, <2>1
<1>5. QED
  BY <1>3, <1>4 DEF t

LEMMA IsTriple ==
  ASSUME NEW m \in Nat, NEW s, s = [i \in 1 .. m |-> s[i]], NEW a, NEW b, NEW c
  PROVE  s = <<a, b, c>> <=> m = 3 /\ s[1] = a /\ s[2] = b /\ s[3] = c
<1> DEFINE t == <<a, b, c>>
<1>1. /\ t = [i \in 1 .. 3 |-> t[i]] /\ t[1] = a /\ t[2] = b /\ t[3] = c
      /\ DOMAIN t = 1 .. 3 /\ Len(t) = 3
  OBVIOUS
<1>2. DOMAIN s = 1 .. m /\ Len(s) = m
  OBVIOUS
<1> HIDE DEF t
<1>3. s = t => m = 3 /\ s[1] = a /\ s[2] = b /\ s[3] = c
  BY <1>1, <1>2
<1>4. ASSUME m = 3, s[1] = a, s[2] = b, s[3] = c PROVE s = t
  <2>1. \A i \in 1 .. 3 : s[i] = t[i]
    BY <1>1, <1>4
  <2>2. QED
    BY <1>1, <1>4, <2>1
<1>5. QED
  BY <1>3, <1>4 DEF t

-----------------------------------------------------------------------------
(* Pieces of sequences.                                                    *)

\* A piece of a sequence.
LEMMA Piece ==
  ASSUME NEW S, NEW s \in Seq(S), NEW x \in Nat, NEW y \in Nat, 1 <= x, y <= Len(s)
  PROVE  /\ SubSeq(s, x, y) \in Seq(S)
         /\ DOMAIN SubSeq(s, x, y) = 1 .. y - x + 1
         /\ \A i \in 1 .. y - x + 1 : SubSeq(s, x, y)[i] = s[x + i - 1]
<1>1. \A i \in x .. y : i \in 1 .. Len(s)
  OBVIOUS
<1>2. SubSeq(s, x, y) = [i \in 1 .. y - x + 1 |-> s[x + i - 1]]
  OBVIOUS
<1>3. QED
  BY <1>1, <1>2

\* What a sequence has from one place to another.
IsPiece(p, s, x, y) ==
  DOMAIN p = 1 .. y - x + 1 /\ \A i \in 1 .. y - x + 1 : p[i] = s[x + i - 1]

\* Where the elements of a piece stand: in order, and at all places from the first
\* to the last.
Placed(up, p, s, x, y) ==
  /\ up \in [DOMAIN p -> DOMAIN s]
  /\ \A j \in DOMAIN p : p[j] = s[up[j]]
  /\ \A i \in DOMAIN s : x <= i /\ i <= y <=> \E j \in DOMAIN p : up[j] = i
  /\ \A i, j \in DOMAIN p : i < j <=> up[i] < up[j]

LEMMA PiecePlaces ==
  ASSUME NEW S, NEW s \in Seq(S), NEW p \in Seq(S),
         NEW x \in Nat, NEW y \in Nat, 1 <= x, y <= Len(s), IsPiece(p, s, x, y)
  PROVE  \E up : Placed(up, p, s, x, y)
<1>1. /\ Len(s) \in Nat /\ DOMAIN s = 1 .. Len(s)
      /\ DOMAIN p = 1 .. y - x + 1 /\ \A j \in DOMAIN p : p[j] = s[x + j - 1]
  BY DEF IsPiece
<1> DEFINE up == [j \in DOMAIN p |-> x + j - 1]
<1>2. \A j \in 1 .. y - x + 1 : /\ x + j - 1 \in 1 .. Len(s)
                                /\ x <= x + j - 1 /\ x + j - 1 <= y
  BY <1>1
<1>3. \A i \in 1 .. Len(s) : x <= i /\ i <= y =>
         i - x + 1 \in 1 .. y - x + 1 /\ x + (i - x + 1) - 1 = i
  BY <1>1
<1>4. \A i, j \in 1 .. y - x + 1 : i < j <=> x + i - 1 < x + j - 1
  OBVIOUS
<1>5. up \in [DOMAIN p -> DOMAIN s]
  BY <1>1, <1>2
<1>6. \A i \in DOMAIN s : x <= i /\ i <= y => \E j \in DOMAIN p : up[j] = i
  BY <1>1, <1>3
<1>7. \A j \in DOMAIN p : x <= up[j] /\ up[j] <= y
  BY <1>1, <1>2
<1>8. \A i, j \in DOMAIN p : i < j <=> up[i] < up[j]
  BY <1>1, <1>4
<1>9. \A j \in DOMAIN p : p[j] = s[up[j]]
  BY <1>1
<1>10. Placed(up, p, s, x, y)
  <2> HIDE DEF up
  <2>1. QED
    BY <1>5, <1>6, <1>7, <1>8, <1>9 DEF Placed
<1>11. QED
  BY <1>10

\* A piece without its ends is a piece as well.
LEMMA PieceWithoutEnds ==
  ASSUME NEW S, NEW s \in Seq(S), NEW x \in DOMAIN s, NEW y \in DOMAIN s, x < y,
         NEW piece \in Seq(S), IsPiece(piece, s, x, y)
  PROVE  /\ SubSeq(piece, 2, Len(piece) - 1) \in Seq(S)
         /\ IsPiece(SubSeq(piece, 2, Len(piece) - 1), s, x + 1, y - 1)
<1> DEFINE two == 2
           last == Len(piece) - 1
           inner == SubSeq(piece, two, last)
           length == y - x - 1
<1>1. x \in Nat /\ y \in Nat /\ y - x \in Nat
  OBVIOUS
<1>2. Len(piece) = y - x + 1
  BY <1>1 DEF IsPiece
<1>3. /\ two \in Nat /\ last \in Nat /\ 1 <= two /\ last <= Len(piece)
      /\ last - two + 1 = length /\ length \in Nat /\ y - 1 - (x + 1) + 1 = length
  <2>1. last = y - x /\ last \in Nat /\ 1 <= last
    BY <1>1, <1>2
  <2>2. last <= Len(piece)
    BY <1>1, <1>2, <2>1
  <2>3. last - two + 1 = length /\ length \in Nat
    BY <1>1, <2>1
  <2>4. y - 1 - (x + 1) + 1 = length
    BY <1>1
  <2>5. QED
    BY <2>1, <2>2, <2>3, <2>4
<1>4. ASSUME NEW i \in 1 .. length
      PROVE  two + i - 1 \in 1 .. y - x + 1 /\ x + (two + i - 1) - 1 = x + 1 + i - 1
  <2>1. i \in Nat /\ 1 <= i /\ i <= y - x - 1
    BY <1>1
  <2>2. two + i - 1 = i + 1 /\ i + 1 \in 1 .. y - x + 1
    BY <1>1, <2>1
  <2>3. x + (i + 1) - 1 = x + 1 + i - 1
    BY <1>1, <2>1
  <2>4. QED
    BY <2>2, <2>3
<1> HIDE DEF two, last, inner, length
<1>5. /\ inner \in Seq(S)
      /\ DOMAIN inner = 1 .. last - two + 1
      /\ \A i \in 1 .. last - two + 1 : inner[i] = piece[two + i - 1]
  BY <1>3, Piece DEF inner
<1>6. ASSUME NEW i \in 1 .. length PROVE inner[i] = s[x + 1 + i - 1]
  <2>1. inner[i] = piece[two + i - 1]
    BY <1>3, <1>5
  <2>2. piece[two + i - 1] = s[x + (two + i - 1) - 1]
    BY <1>4 DEF IsPiece
  <2>3. QED
    BY <1>4, <2>1, <2>2
<1>7. IsPiece(inner, s, x + 1, y - 1)
  BY <1>3, <1>5, <1>6 DEF IsPiece
<1>8. QED
  BY <1>5, <1>7 DEF inner, two, last

\* A piece of one element.
LEMMA PieceOfOne ==
  ASSUME NEW S, NEW t \in Seq(S), NEW k \in DOMAIN t
  PROVE  SubSeq(t, k, k) = <<t[k]>>
<1> DEFINE piece == SubSeq(t, k, k)
<1>1. k \in Nat /\ 1 <= k /\ k <= Len(t) /\ k - k + 1 = 1 /\ k + 1 - 1 = k
  OBVIOUS
<1>2. /\ piece \in Seq(S)
      /\ DOMAIN piece = 1 .. k - k + 1
      /\ \A j \in 1 .. k - k + 1 : piece[j] = t[k + j - 1]
  BY <1>1, Piece
<1> HIDE DEF piece
<1>3. DOMAIN piece = 1 .. 1
  BY <1>1, <1>2
<1>4. 1 \in 1 .. k - k + 1
  BY <1>1
<1>5. piece[1] = t[k]
  BY <1>1, <1>2, <1>4
<1>6. Len(piece) = 1
  BY <1>2, <1>3
<1>7. piece = <<t[k]>>
  BY <1>2, <1>5, <1>6
<1>8. QED
  BY <1>7 DEF piece
=============================================================================
