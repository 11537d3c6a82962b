----------------------------- MODULE Selections -----------------------------
(***************************************************************************)
(* Filtering a sequence: what a loop makes of a slice when it appends the  *)
(* elements that pass a test to another.  It is said by the places of the  *)
(* elements that are kept, which are numbered from the first; SelectSeq    *)
(* says the same by recursion, and could only be reasoned about by         *)
(* induction.                                                              *)
(***************************************************************************)
EXTENDS Naturals, Sequences, FiniteSets

\* How many of places there are up to place i.
Rank(places, i) == Cardinality({j \in places : j <= i})

\* The elements of s at some of its places, in the order they have in s.
Keep(s, places) ==
  [k \in 1 .. Cardinality(places) |-> s[CHOOSE i \in places : Rank(places, i) = k]]

\* The places <<i, j>> of a sequence of sequences, and their order.
Slots(seqs) == UNION {{<<i, j>> : j \in DOMAIN seqs[i]} : i \in DOMAIN seqs}
Before(p, q) == p[1] < q[1] \/ (p[1] = q[1] /\ p[2] < q[2])

\* The number of a place among some of them.
Ordinal(slots, p) == 1 + Cardinality({q \in slots : Before(q, p)})
=============================================================================
