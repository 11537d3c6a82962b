--------------------------- MODULE AssemblyProofs ---------------------------
(* Theorems of Assembly. *)
EXTENDS Assembly, SequenceLemmas

-----------------------------------------------------------------------------
(* Lists.                                                                  *)

\* The places of a list are finitely many, numbered from 1.
LEMMA ListPlaces ==
  ASSUME NEW s, IsList(s)
  PROVE  Len(s) \in Nat /\ DOMAIN s = 1 .. Len(s)
BY DEF IsList

LEMMA PlacesOfList ==
  ASSUME NEW s, IsList(s), NEW places \in SUBSET (DOMAIN s)
  PROVE  /\ places \in SUBSET (1 .. Len(s)) /\ places \in SUBSET Nat
         /\ IsFiniteSet(places) /\ Cardinality(places) \in Nat
<1>1. Len(s) \in Nat /\ places \in SUBSET (1 .. Len(s))
  BY ListPlaces
<1>2. QED
  BY <1>1, PlacesAreFinite

\* What has the places of a list and the form of a function is a list.
LEMMA ListOf ==
  ASSUME NEW n \in Nat, NEW s, s = [i \in 1 .. n |-> s[i]]
  PROVE  IsList(s) /\ Len(s) = n
<1>1. s \in [1 .. n -> ToSet(s)]
  BY DEF ToSet
<1> HIDE DEF IsList
<1>2. s \in Seq(ToSet(s))
  BY <1>1
<1>3. QED
  BY <1>1, <1>2 DEF IsList

LEMMA ListType ==
  ASSUME NEW n \in Nat, NEW S, NEW s, DOMAIN s = 1 .. n, s = [i \in DOMAIN s |-> s[i]],
         \A i \in 1 .. n : s[i] \in S
  PROVE  s \in Seq(S)
<1>1. s \in [1 .. n -> S]
  OBVIOUS
<1>2. QED
  BY <1>1

-----------------------------------------------------------------------------
(* The graph.                                                              *)

\* The graph of a response finds an entity by its urn just when it has one and can
\* be read, and then it is the one the response has.
LEMMA GraphFinds ==
  ASSUME NEW body, IsResponse(body)
  PROVE  LET g == NewGraph(body)
             all == body.included
         IN  /\ \A i \in DOMAIN all : all[i].shape # "unreadable" /\ all[i].urn # NoUrn =>
                  all[i].urn \in DOMAIN g.byUrn /\ g.byUrn[all[i].urn] = all[i]
             /\ \A u \in DOMAIN g.byUrn : u # NoUrn /\ \E i \in DOMAIN all :
                  all[i].urn = u /\ all[i].shape # "unreadable" /\ g.byUrn[u] = all[i]
<1> DEFINE g == NewGraph(body)
           all == body.included
           urns == [i \in DOMAIN all |-> all[i].urn]
           readable == {i \in DOMAIN all : all[i].shape # "unreadable" /\ all[i].urn # NoUrn}
<1>1. /\ DOMAIN g.byUrn = {urns[i] : i \in readable}
      /\ \A u \in DOMAIN g.byUrn : g.byUrn[u] = all[Max({i \in readable : urns[i] = u})]
  BY DEF NewGraph
<1>2. ASSUME NEW i \in readable
      PROVE  Max({j \in readable : urns[j] = all[i].urn}) = i
  <2>1. i \in Nat
    BY ListPlaces DEF IsResponse
  <2>2. {j \in readable : urns[j] = all[i].urn} = {i}
    BY DEF IsResponse
  <2>3. Max({i}) = i
    BY <2>1 DEF Max
  <2>4. QED
    BY <2>2, <2>3
<1>3. \A i \in readable : all[i].urn \in DOMAIN g.byUrn /\ g.byUrn[all[i].urn] = all[i]
  BY <1>1, <1>2
<1>4. \A u \in DOMAIN g.byUrn : \E i \in readable : all[i].urn = u
  BY <1>1
<1>5. QED
  BY <1>3, <1>4

\* A urn resolves to the entity that has it, if there is one and it is good.
LEMMA Resolving ==
  ASSUME NEW body, IsResponse(body)
  PROVE  LET g == NewGraph(body)
             all == body.included
         IN  /\ \A i \in DOMAIN all : all[i].shape = "good" /\ all[i].urn # NoUrn =>
                  Resolves(g, all[i].urn) /\ g.byUrn[all[i].urn] = all[i]
             /\ \A u : Resolves(g, u) => u # NoUrn /\ \E i \in DOMAIN all :
                  all[i].urn = u /\ all[i].shape = "good" /\ g.byUrn[u] = all[i]
<1>1. "good" # "unreadable"
  OBVIOUS
<1>2. QED
  BY <1>1, GraphFinds DEF Resolves

\* The entities a list of urns leads to are those that resolve, in the order of
\* the list.
LEMMA ResolvingAll ==
  ASSUME NEW g, NEW urns, IsList(urns)
  PROVE  LET places == Resolved(g, urns)
             found == ResolveAll(g, urns)
         IN  /\ places \in SUBSET (1 .. Len(urns))
             /\ Cardinality(places) \in Nat
             /\ found = [k \in 1 .. Cardinality(places) |-> found[k]]
             /\ \A k \in 1 .. Cardinality(places) : \E i \in places :
                  Rank(places, i) = k /\ found[k] = g.byUrn[urns[i]]
             /\ \A i \in places :
                  /\ Rank(places, i) \in 1 .. Cardinality(places)
                  /\ found[Rank(places, i)] = g.byUrn[urns[i]]
<1> DEFINE places == Resolved(g, urns)
           kept == Keep(urns, places)
           found == ResolveAll(g, urns)
           c == Cardinality(places)
<1>1. places \in SUBSET (DOMAIN urns)
  BY DEF Resolved
<1>2. found = [k \in DOMAIN kept |-> g.byUrn[kept[k]]]
  BY DEF ResolveAll
<1> HIDE DEF places
<1>3. places \in SUBSET (1 .. Len(urns)) /\ places \in SUBSET Nat /\ IsFiniteSet(places)
  BY <1>1, PlacesOfList
<1>4. c \in Nat /\ DOMAIN kept = 1 .. c
  BY <1>3, KeepIsASequence
<1>5. \A k \in 1 .. c : \E i \in places : Rank(places, i) = k /\ kept[k] = urns[i]
  BY <1>3, KeepComesFrom
<1>6. \A i \in places : Rank(places, i) \in 1 .. c /\ kept[Rank(places, i)] = urns[i]
  BY <1>3, RankIsANumber, KeepAtRank
<1> HIDE DEF kept, found, c
<1>7. /\ found = [k \in 1 .. c |-> found[k]]
      /\ \A k \in 1 .. c : found[k] = g.byUrn[kept[k]]
  BY <1>2, <1>4
<1>8. \A k \in 1 .. c : \E i \in places : Rank(places, i) = k /\ found[k] = g.byUrn[urns[i]]
  BY <1>5, <1>7
<1>9. \A i \in places : Rank(places, i) \in 1 .. c /\ found[Rank(places, i)] = g.byUrn[urns[i]]
  BY <1>6, <1>7
<1>10. QED
  BY <1>3, <1>4, <1>7, <1>8, <1>9 DEF places, found, c

\* The entities of a type are those of the response that are good and have a urn.
LEMMA FindingByType ==
  ASSUME NEW body, IsResponse(body), NEW kind
  PROVE  LET all == body.included
             found == ByType(NewGraph(body), kind)
         IN  /\ Len(found) \in Nat /\ DOMAIN found = 1 .. Len(found)
             /\ \A k \in DOMAIN found : \E i \in DOMAIN all :
                  all[i].kind = kind /\ all[i].shape = "good" /\ found[k] = all[i]
             /\ \A i \in DOMAIN all :
                  all[i].kind = kind /\ all[i].shape = "good" /\ all[i].urn # NoUrn =>
                    \E k \in DOMAIN found : found[k] = all[i]
<1> DEFINE g == NewGraph(body)
           all == body.included
           urns == [i \in DOMAIN all |-> all[i].urn]
           readable == {i \in DOMAIN all : all[i].shape # "unreadable" /\ all[i].urn # NoUrn}
           c == Cardinality(readable)
           listed == [k \in DOMAIN g.order |-> g.byUrn[g.order[k]]]
           places == {k \in DOMAIN listed : listed[k].kind = kind /\ listed[k].shape = "good"}
           found == ByType(g, kind)
<1>1. readable \in SUBSET Nat /\ IsFiniteSet(readable)
  <2>1. readable \in SUBSET (DOMAIN all) /\ IsList(all)
    BY DEF IsResponse
  <2> HIDE DEF readable
  <2>2. QED
    BY <2>1, PlacesOfList
<1>2. g.order = Keep(urns, readable)
  BY DEF NewGraph
<1>3. c \in Nat /\ DOMAIN g.order = 1 .. c
  BY <1>1, <1>2, KeepIsASequence
<1>4. \A k \in 1 .. c : \E i \in readable : listed[k] = all[i]
  <2>1. ASSUME NEW k \in 1 .. c PROVE \E i \in readable : g.order[k] = all[i].urn
    <3> HIDE DEF readable
    <3>1. \E i \in readable : Rank(readable, i) = k /\ Keep(urns, readable)[k] = urns[i]
      BY <1>1, KeepComesFrom
    <3> USE DEF readable
    <3>2. QED
      BY <1>2, <3>1
  <2>2. \A i \in readable : g.byUrn[all[i].urn] = all[i]
    BY GraphFinds
  <2>3. QED
    BY <1>3, <2>1, <2>2
<1>5. \A i \in readable : \E k \in 1 .. c : listed[k] = all[i]
  <2>1. ASSUME NEW i \in readable PROVE \E k \in 1 .. c : g.order[k] = all[i].urn
    <3>1. Rank(readable, i) \in 1 .. c /\ Keep(urns, readable)[Rank(readable, i)] = urns[i]
      BY <1>1, RankIsANumber, KeepAtRank
    <3>2. QED
      BY <1>2, <3>1
  <2>2. \A i \in readable : g.byUrn[all[i].urn] = all[i]
    BY GraphFinds
  <2>3. QED
    BY <1>3, <2>1, <2>2
<1>6. DOMAIN listed = 1 .. c
  BY <1>3
<1>7. found = Keep(listed, places)
  BY DEF ByType
<1> HIDE DEF listed, c
<1>8. places \in SUBSET (1 .. c) /\ places \in SUBSET Nat /\ IsFiniteSet(places)
  BY <1>3, <1>6, PlacesAreFinite
<1>9. /\ DOMAIN found = 1 .. Cardinality(places) /\ Len(found) = Cardinality(places)
      /\ Cardinality(places) \in Nat
  BY <1>3, <1>7, <1>8, KeepIsASequence
<1>10. ASSUME NEW k \in DOMAIN found
       PROVE  \E i \in DOMAIN all :
                all[i].kind = kind /\ all[i].shape = "good" /\ found[k] = all[i]
  <2> HIDE DEF places
  <2>1. PICK j \in places : Rank(places, j) = k /\ Keep(listed, places)[k] = listed[j]
    BY <1>3, <1>8, <1>9, KeepComesFrom
  <2> USE DEF places
  <2>2. PICK i \in readable : listed[j] = all[i]
    BY <1>4, <1>8
  <2>3. QED
    BY <1>7, <2>1, <2>2
<1>11. ASSUME NEW i \in DOMAIN all, all[i].kind = kind, all[i].shape = "good",
              all[i].urn # NoUrn
       PROVE  \E k \in DOMAIN found : found[k] = all[i]
  <2>1. i \in readable
    BY <1>11
  <2>2. PICK j \in 1 .. c : listed[j] = all[i]
    BY <1>5, <2>1
  <2>3. j \in places
    BY <1>6, <1>11, <2>2
  <2>4. /\ Rank(places, j) \in 1 .. Cardinality(places)
        /\ Keep(listed, places)[Rank(places, j)] = listed[j]
    BY <1>3, <1>8, <2>3, RankIsANumber, KeepAtRank
  <2>5. QED
    BY <1>7, <1>9, <2>2, <2>4
<1>12. QED
  BY <1>9, <1>10, <1>11

\* Of the profiles that came along, the member's own is taken and no other: by
\* what data names, or by the slug.  Nobody is, when neither leads to an entity
\* that can be read.
LEMMA SubjectIsTheMember ==
  ASSUME NEW body, IsResponse(body), IsAboutMember(body), NEW slug \in Slugs
  PROVE  LET core == SubjectProfile(NewGraph(body), slug)
             all == body.included
             led(i) == /\ all[i].urn = Subject /\ all[i].shape = "good"
                       /\ \/ Subject \in ToSet(body.elements)
                          \/ Folded[all[i].slug] = Folded[slug]
         IN  /\ \A i \in DOMAIN all : led(i) => core = all[i]
             /\ (\A i \in DOMAIN all : ~led(i)) => core = NoMember
<1> DEFINE g == NewGraph(body)
           core == SubjectProfile(g, slug)
           all == body.included
           led(i) == /\ all[i].urn = Subject /\ all[i].shape = "good"
                     /\ \/ Subject \in ToSet(body.elements)
                        \/ Folded[all[i].slug] = Folded[slug]
           named == ResolveAll(g, body.elements)
           profiles == ByType(g, "Profile")
           similar == {i \in DOMAIN profiles :
                         profiles[i].slug \in Slugs /\ Folded[profiles[i].slug] = Folded[slug]}
           alike == Keep(profiles, similar)
<1>1. g.elements = body.elements /\ IsList(body.elements)
  BY DEF NewGraph, IsResponse
<1>2. core = IF named # <<>> THEN named[1]
             ELSE IF alike # <<>> THEN alike[1]
             ELSE NoMember
  BY <1>1 DEF SubjectProfile
<1>3. \A i, j \in DOMAIN all : all[i].urn = Subject /\ all[j].urn = Subject => i = j
  BY DEF IsResponse
<1>4. \A u : Resolves(g, u) => u # NoUrn /\ \E i \in DOMAIN all :
        all[i].urn = u /\ all[i].shape = "good" /\ g.byUrn[u] = all[i]
  BY Resolving
<1>5. \A i \in DOMAIN all :
        all[i].shape = "good" /\ all[i].urn # NoUrn => Resolves(g, all[i].urn)
  BY Resolving
<1>6. named # <<>> => \E i \in DOMAIN all : led(i) /\ named[1] = all[i]
  <2> SUFFICES ASSUME named # <<>>
               PROVE  \E i \in DOMAIN all : led(i) /\ named[1] = all[i]
    OBVIOUS
  <2> DEFINE places == Resolved(g, body.elements)
  <2>1. /\ named = [k \in 1 .. Cardinality(places) |-> named[k]]
        /\ Cardinality(places) \in Nat
        /\ \A k \in 1 .. Cardinality(places) : \E j \in places :
             named[k] = g.byUrn[body.elements[j]]
    <3> HIDE DEF g
    <3>1. QED
      BY <1>1, ResolvingAll
  <2> HIDE DEF places, named
  <2>2. 1 \in 1 .. Cardinality(places)
    BY <2>1
  <2>3. PICK j \in places : named[1] = g.byUrn[body.elements[j]]
    BY <2>1, <2>2
  <2>4. Resolves(g, body.elements[j]) /\ body.elements[j] \in ToSet(body.elements)
    BY DEF places, ToSet, Resolved
  <2>5. PICK i \in DOMAIN all :
          all[i].urn = body.elements[j] /\ all[i].shape = "good" /\ named[1] = all[i]
    BY <1>4, <2>3, <2>4
  <2>6. all[i].urn = Subject
    BY <2>4, <2>5 DEF IsAboutMember
  <2>7. QED
    BY <2>4, <2>5, <2>6
<1>7. ASSUME NEW i \in DOMAIN all, all[i].urn = Subject, all[i].shape = "good",
             Subject \in ToSet(body.elements)
      PROVE  named # <<>>
  <2> DEFINE places == Resolved(g, body.elements)
  <2>1. PICK j \in DOMAIN body.elements : body.elements[j] = Subject
    BY <1>7 DEF ToSet
  <2>2. j \in places
    BY <1>1, <1>5, <1>7, <2>1, MemberAssumption DEF Resolved
  <2>3. /\ named = [k \in 1 .. Cardinality(places) |-> named[k]]
        /\ \A l \in places : Rank(places, l) \in 1 .. Cardinality(places)
    <3> HIDE DEF g
    <3>1. QED
      BY <1>1, ResolvingAll
  <2> HIDE DEF places, named
  <2>4. DOMAIN named # {}
    BY <2>2, <2>3
  <2>5. QED
    BY <2>4
<1>8. /\ Len(profiles) \in Nat /\ DOMAIN profiles = 1 .. Len(profiles)
      /\ \A k \in DOMAIN profiles : \E i \in DOMAIN all :
           all[i].kind = "Profile" /\ all[i].shape = "good" /\ profiles[k] = all[i]
      /\ \A i \in DOMAIN all :
           all[i].kind = "Profile" /\ all[i].shape = "good" /\ all[i].urn # NoUrn =>
           \E k \in DOMAIN profiles : profiles[k] = all[i]
  BY FindingByType
<1> HIDE DEF profiles
<1>9. /\ IsFiniteSet(similar) /\ similar \in SUBSET Nat
      /\ DOMAIN alike = 1 .. Cardinality(similar) /\ Cardinality(similar) \in Nat
      /\ alike = <<>> <=> similar = {}
  <2>1. similar \in SUBSET (1 .. Len(profiles))
    BY <1>8
  <2> HIDE DEF similar
  <2>2. similar \in SUBSET Nat /\ IsFiniteSet(similar)
    BY <1>8, <2>1, PlacesAreFinite
  <2>3. QED
    BY <2>2, KeepIsASequence, KeepNothing
<1>10. alike # <<>> => \E i \in DOMAIN all : led(i) /\ alike[1] = all[i]
  <2> SUFFICES ASSUME alike # <<>>
               PROVE  \E i \in DOMAIN all : led(i) /\ alike[1] = all[i]
    OBVIOUS
  <2>1. 1 \in 1 .. Cardinality(similar)
    BY <1>9, FS_EmptySet
  <2>2. PICK k \in similar : alike[1] = profiles[k]
    <3> HIDE DEF similar
    <3>1. QED
      BY <1>9, <2>1, KeepComesFrom
  <2>3. PICK i \in DOMAIN all :
          all[i].kind = "Profile" /\ all[i].shape = "good" /\ profiles[k] = all[i]
    BY <1>8, <2>2
  <2>4. all[i].slug \in Slugs /\ Folded[all[i].slug] = Folded[slug]
    BY <2>2, <2>3
  <2>5. all[i].urn = Subject
    BY <2>3, <2>4 DEF IsAboutMember
  <2>6. QED
    BY <2>2, <2>3, <2>4, <2>5
<1>11. ASSUME NEW i \in DOMAIN all, all[i].urn = Subject, all[i].shape = "good",
              Folded[all[i].slug] = Folded[slug]
       PROVE  alike # <<>>
  <2>1. all[i].kind = "Profile" /\ all[i].slug \in Slugs
    BY <1>11 DEF IsAboutMember
  <2>2. PICK k \in DOMAIN profiles : profiles[k] = all[i]
    BY <1>8, <1>11, <2>1, MemberAssumption
  <2>3. k \in similar
    BY <1>11, <2>1, <2>2
  <2>4. QED
    BY <1>9, <2>3
<1> HIDE DEF core, named, alike, led, g, all
<1>12. CASE named # <<>>
  <2>1. PICK i \in DOMAIN all : led(i) /\ named[1] = all[i]
    BY <1>6, <1>12
  <2>2. core = all[i]
    BY <1>2, <1>12, <2>1
  <2>3. \A j \in DOMAIN all : led(j) => j = i
    BY <1>3, <2>1 DEF led
  <2>4. QED
    BY <2>1, <2>2, <2>3 DEF core, all, led, g
<1>13. CASE named = <<>> /\ alike # <<>>
  <2>1. PICK i \in DOMAIN all : led(i) /\ alike[1] = all[i]
    BY <1>10, <1>13
  <2>2. core = all[i]
    BY <1>2, <1>13, <2>1
  <2>3. \A j \in DOMAIN all : led(j) => j = i
    BY <1>3, <2>1 DEF led
  <2>4. QED
    BY <2>1, <2>2, <2>3 DEF core, all, led, g
<1>14. CASE named = <<>> /\ alike = <<>>
  <2>1. core = NoMember
    BY <1>2, <1>14
  <2>2. \A i \in DOMAIN all : ~led(i)
    BY <1>7, <1>11, <1>14 DEF led
  <2>3. QED
    BY <2>1, <2>2 DEF core, all, led, g
<1>15. QED
  BY <1>12, <1>13, <1>14
-----------------------------------------------------------------------------
(* What a step leaves of a response.                                       *)

\* One entity of a response is replaced by another.
Replaced(body, i, e, new) ==
  /\ DOMAIN new = {"elements", "included"} /\ new.elements = body.elements
  /\ IsList(new.included) /\ DOMAIN new.included = DOMAIN body.included
  /\ new.included[i] = e
  /\ \A j \in DOMAIN body.included : j # i => new.included[j] = body.included[j]

LEMMA EntityReplaced ==
  ASSUME NEW body, IsResponse(body), NEW i \in DOMAIN body.included, NEW e
  PROVE  Replaced(body, i, e, [body EXCEPT !.included[i] = e])
<1> DEFINE all == [body.included EXCEPT ![i] = e]
           new == [body EXCEPT !.included[i] = e]
<1>1. DOMAIN body = {"elements", "included"} /\ IsList(body.included)
  BY DEF IsResponse
<1>2. DOMAIN new = {"elements", "included"} /\ new.elements = body.elements /\ new.included = all
  BY <1>1
<1>3. Len(body.included) \in Nat /\ DOMAIN body.included = 1 .. Len(body.included)
  BY <1>1, ListPlaces
<1>4. /\ all = [j \in 1 .. Len(body.included) |-> all[j]] /\ all[i] = e
      /\ DOMAIN all = DOMAIN body.included
      /\ \A j \in DOMAIN body.included : j # i => all[j] = body.included[j]
  BY <1>3
<1> HIDE DEF all, new
<1>5. IsList(all)
  BY <1>3, <1>4, ListOf
<1>6. QED
  BY <1>2, <1>4, <1>5 DEF Replaced, new

\* An entity says no more than another one with the same urn.
Weakened(e, of) ==
  /\ IsEntity(e) /\ e.urn = of.urn /\ e.kind = of.kind /\ e.slug = of.slug
  /\ e.name \in {of.name, ""} /\ e.label = of.label /\ e.people = of.people

\* So it is when its shape changes, or it loses its name or a pointer.
LEMMA FieldReplaced ==
  ASSUME NEW e, IsEntity(e)
  PROVE  /\ \A shape : Weakened([e EXCEPT !.shape = shape], e)
         /\ Weakened([e EXCEPT !.name = ""], e)
         /\ \A s \in SectionNames : Weakened([e EXCEPT !.sections[s] = ""], e)
<1>1. ASSUME NEW shape PROVE Weakened([e EXCEPT !.shape = shape], e)
  BY DEF IsEntity, Weakened
<1>2. Weakened([e EXCEPT !.name = ""], e)
  BY DEF IsEntity, Weakened
<1>3. ASSUME NEW s \in SectionNames PROVE Weakened([e EXCEPT !.sections[s] = ""], e)
  <2>1. DOMAIN [e.sections EXCEPT ![s] = ""] = DOMAIN e.sections
    OBVIOUS
  <2>2. QED
    BY <2>1 DEF IsEntity, Weakened
<1>4. QED
  BY <1>1, <1>2, <1>3

\* The texts of a response are those of its entities.
LEMMA TextsOfAll ==
  ASSUME NEW response, NEW known
  PROVE  Texts(response) \subseteq known <=>
           \A i \in DOMAIN response.included :
             LET e == response.included[i]
             IN  e.name \in known /\ e.label \in known /\ \A x \in ToSet(e.people) : x.name \in known
BY DEF Texts, ToSet

\* A response about the member stays one when an entity is replaced by one of
\* the same urn, kind and slug that has no other texts.
LEMMA ResponseReplaced ==
  ASSUME NEW body, IsResponse(body), NEW known, Texts(body) \subseteq known, "" \in known,
         NEW i \in DOMAIN body.included, NEW e, Weakened(e, body.included[i]),
         NEW new, Replaced(body, i, e, new)
  PROVE  /\ IsResponse(new) /\ Texts(new) \subseteq known
         /\ IsAboutMember(body) => IsAboutMember(new)
<1>1. \A j \in DOMAIN new.included :
        IsEntity(new.included[j]) /\ new.included[j].urn = body.included[j].urn
  BY DEF IsResponse, Replaced, Weakened
<1>2. IsResponse(new)
  BY <1>1 DEF IsResponse, Replaced
<1>3. Texts(new) \subseteq known
  <2>1. \A j \in DOMAIN body.included :
          LET o == body.included[j]
          IN  o.name \in known /\ o.label \in known /\ \A x \in ToSet(o.people) : x.name \in known
    BY TextsOfAll
  <2>2. \A j \in DOMAIN new.included :
          LET o == new.included[j]
          IN  o.name \in known /\ o.label \in known /\ \A x \in ToSet(o.people) : x.name \in known
    BY <2>1 DEF Replaced, Weakened
  <2>3. QED
    BY <2>2, TextsOfAll
<1>4. IsAboutMember(body) => IsAboutMember(new)
  <2>1. \A j \in DOMAIN new.included :
          /\ new.included[j].urn = body.included[j].urn
          /\ new.included[j].kind = body.included[j].kind
          /\ new.included[j].slug = body.included[j].slug
    BY DEF Replaced, Weakened
  <2>2. QED
    BY <2>1 DEF IsAboutMember, Replaced
<1>5. QED
  BY <1>2, <1>3, <1>4

LEMMA ShortLists ==
  ASSUME NEW a, NEW b, NEW s \in {<<>>, <<a>>, <<a, b>>}
  PROVE  IsList(s) /\ ToSet(s) \subseteq {a, b} /\ (s = <<>> => DOMAIN s = {})
<1>1. CASE s = <<>>
  BY <1>1 DEF IsList, ToSet
<1>2. CASE s = <<a>>
  <2>1. ToSet(s) = {a}
    BY <1>2 DEF ToSet
  <2>2. QED
    BY <1>2, <2>1 DEF IsList
<1>3. CASE s = <<a, b>>
  <2>1. ToSet(s) = {a, b}
    BY <1>3 DEF ToSet
  <2>2. QED
    BY <1>3, <2>1 DEF IsList
<1>4. QED
  BY <1>1, <1>2, <1>3

LEMMA EmptyResponse ==
  ASSUME NEW body \in {Garbage, NoBody}
  PROVE  /\ IsResponse(body) /\ IsAboutMember(body) /\ Texts(body) = {}
         /\ DOMAIN body.included = {}
<1>1. /\ DOMAIN body = {"elements", "included"} /\ body.included = <<>>
      /\ body.elements = <<>> \/ body.elements = <<"not JSON">>
  <2>1. CASE body = Garbage
    BY <2>1 DEF Garbage
  <2>2. CASE body = NoBody
    BY <2>2 DEF NoBody
  <2>3. QED
    BY <2>1, <2>2
<1>2. \A s : s = <<>> => IsList(s) /\ DOMAIN s = {}
  BY ShortLists
<1>3. \A s : s = <<"not JSON">> => IsList(s)
  BY ShortLists
<1>4. IsList(body.elements) /\ IsList(body.included)
  BY <1>1, <1>2, <1>3
<1>5. DOMAIN body.included = {} /\ ToSet(body.included) = {}
  BY <1>1, <1>2 DEF ToSet
<1>6. QED
  BY <1>1, <1>4, <1>5 DEF IsResponse, IsAboutMember, Texts

LEMMA ElementsReplaced ==
  ASSUME NEW body, IsResponse(body), IsAboutMember(body),
         NEW elements \in {<<>>, <<"gone">>, <<"gone", Subject>>},
         NEW new, DOMAIN new = {"elements", "included"},
         new.elements = elements, new.included = body.included
  PROVE  IsResponse(new) /\ IsAboutMember(new) /\ Texts(new) = Texts(body)
<1>1. IsList(elements) /\ ToSet(elements) \subseteq {"gone", Subject}
  <2>1. CASE elements = <<>>
    BY <2>1, ShortLists
  <2>2. CASE elements = <<"gone">>
    BY <2>2, ShortLists
  <2>3. CASE elements = <<"gone", Subject>>
    <3>1. ASSUME NEW a, NEW b, NEW s, s = <<a, b>>
          PROVE  IsList(s) /\ ToSet(s) \subseteq {a, b}
      BY <3>1, ShortLists
    <3>2. QED
      BY <2>3, <3>1, Zenon
  <2>4. QED
    BY <2>1, <2>2, <2>3
<1>2. IsResponse(new)
  BY <1>1 DEF IsResponse
<1>3. IsAboutMember(new)
  BY <1>1 DEF IsAboutMember
<1>4. QED
  BY <1>2, <1>3 DEF Texts

LEMMA OrderReversed ==
  ASSUME NEW body, IsResponse(body), IsAboutMember(body),
         NEW new, DOMAIN new = {"elements", "included"},
         new.elements = body.elements, new.included = Reverse(body.included)
  PROVE  IsResponse(new) /\ IsAboutMember(new) /\ Texts(new) = Texts(body)
<1> DEFINE n == Len(body.included)
<1>1. n \in Nat /\ DOMAIN body.included = 1 .. n
  BY ListPlaces DEF IsResponse
<1>2. new.included = [i \in 1 .. n |-> body.included[n - i + 1]]
  BY DEF Reverse
<1> HIDE DEF n
<1>3. /\ IsList(new.included) /\ DOMAIN new.included = 1 .. n
      /\ \A i \in 1 .. n : new.included[i] = body.included[n - i + 1]
  BY <1>1, <1>2, ListOf
<1>4. /\ \A i \in 1 .. n : n - i + 1 \in 1 .. n /\ n - (n - i + 1) + 1 = i
      /\ \A i, j \in 1 .. n : n - i + 1 = n - j + 1 => i = j
  BY <1>1
<1>5. IsResponse(new)
  <2>1. \A i \in DOMAIN new.included : IsEntity(new.included[i])
    BY <1>1, <1>3, <1>4 DEF IsResponse
  <2>2. ASSUME NEW i \in 1 .. n, NEW j \in 1 .. n, new.included[i].urn = new.included[j].urn
        PROVE  i = j
    <3>1. body.included[n - i + 1].urn = body.included[n - j + 1].urn
      BY <1>3, <2>2
    <3>2. n - i + 1 = n - j + 1
      BY <1>1, <1>4, <3>1 DEF IsResponse
    <3>3. QED
      BY <1>4, <3>2
  <2>3. IsList(new.elements)
    BY DEF IsResponse
  <2>4. QED
    BY <1>3, <2>1, <2>2, <2>3 DEF IsResponse
<1>6. IsAboutMember(new)
  BY <1>1, <1>3, <1>4 DEF IsAboutMember
<1>7. ToSet(new.included) = ToSet(body.included)
  <2>1. ASSUME NEW i \in 1 .. n
        PROVE  \E j \in 1 .. n : new.included[j] = body.included[i]
    BY <1>3, <1>4
  <2>2. ASSUME NEW i \in 1 .. n
        PROVE  \E j \in 1 .. n : new.included[i] = body.included[j]
    BY <1>3, <1>4
  <2>3. QED
    <3>1. \A x : x \in ToSet(new.included) <=> \E i \in 1 .. n : x = new.included[i]
      BY <1>3 DEF ToSet
    <3>2. \A x : x \in ToSet(body.included) <=> \E i \in 1 .. n : x = body.included[i]
      BY <1>1 DEF ToSet
    <3>3. \A x : x \in ToSet(new.included) <=> x \in ToSet(body.included)
      BY <2>1, <2>2, <3>1, <3>2
    <3>4. QED
      BY <3>3
<1>8. QED
  BY <1>5, <1>6, <1>7 DEF Texts

\* Each step leaves a response about the member, without a text of its own.
LEMMA StepKeepsResponses ==
  ASSUME ResponsesOK, Next
  PROVE  ResponsesOK'
<1>1. /\ IsResponse(dash) /\ IsAboutMember(dash) /\ IsResponse(recs)
      /\ Texts(dash) \subseteq Known /\ Texts(recs) \subseteq Known /\ "" \in Known
  BY DEF ResponsesOK, Known
<1> SUFFICES /\ IsResponse(dash') /\ IsAboutMember(dash') /\ IsResponse(recs')
             /\ Texts(dash') \subseteq Known /\ Texts(recs') \subseteq Known
  BY DEF ResponsesOK, Known
<1> HIDE DEF Known
<1>2. CASE EntityBreaks
  <2>1. PICK i \in DOMAIN dash.included, shape \in {"unreadable", "misshapen"} :
          dash' = [dash EXCEPT !.included[i].shape = shape]
    BY <1>2, Zenon DEF EntityBreaks
  <2>2. IsEntity(dash.included[i])
    BY <1>1 DEF IsResponse
  <2> DEFINE e == [dash.included[i] EXCEPT !.shape = shape]
  <2>3. Weakened(e, dash.included[i])
    BY <2>2, FieldReplaced, Zenon
  <2>4. Replaced(dash, i, e, dash')
    BY <1>1, <2>1, EntityReplaced, Zenon
  <2> HIDE DEF e
  <2>5. IsResponse(dash') /\ Texts(dash') \subseteq Known /\ IsAboutMember(dash')
    BY <1>1, <2>3, <2>4, ResponseReplaced
  <2>6. recs' = recs
    BY <1>2, Zenon DEF EntityBreaks
  <2>7. QED
    BY <1>1, <2>5, <2>6
<1>3. CASE NameOmitted
  <2>1. PICK i \in DOMAIN dash.included : dash' = [dash EXCEPT !.included[i].name = ""]
    BY <1>3, Zenon DEF NameOmitted
  <2>2. IsEntity(dash.included[i])
    BY <1>1 DEF IsResponse
  <2> DEFINE e == [dash.included[i] EXCEPT !.name = ""]
  <2>3. Weakened(e, dash.included[i])
    BY <2>2, FieldReplaced, Zenon
  <2>4. Replaced(dash, i, e, dash')
    BY <1>1, <2>1, EntityReplaced, Zenon
  <2> HIDE DEF e
  <2>5. IsResponse(dash') /\ Texts(dash') \subseteq Known /\ IsAboutMember(dash')
    BY <1>1, <2>3, <2>4, ResponseReplaced
  <2>6. recs' = recs
    BY <1>3, Zenon DEF NameOmitted
  <2>7. QED
    BY <1>1, <2>5, <2>6
<1>4. CASE PointerDropped
  <2>1. PICK i \in DOMAIN dash.included, s \in SectionNames :
          dash' = [dash EXCEPT !.included[i].sections[s] = ""]
    BY <1>4, Zenon DEF PointerDropped
  <2>2. IsEntity(dash.included[i])
    BY <1>1 DEF IsResponse
  <2> DEFINE e == [dash.included[i] EXCEPT !.sections[s] = ""]
  <2>3. Weakened(e, dash.included[i])
    BY <2>2, FieldReplaced, Zenon
  <2>4. Replaced(dash, i, e, dash')
    BY <1>1, <2>1, EntityReplaced, Zenon
  <2> HIDE DEF e
  <2>5. IsResponse(dash') /\ Texts(dash') \subseteq Known /\ IsAboutMember(dash')
    BY <1>1, <2>3, <2>4, ResponseReplaced
  <2>6. recs' = recs
    BY <1>4, Zenon DEF PointerDropped
  <2>7. QED
    BY <1>1, <2>5, <2>6
<1>5. CASE DataChanges
  <2>1. PICK elements \in {<<>>, <<"gone">>, <<"gone", Subject>>} :
          dash' = [dash EXCEPT !.elements = elements]
    BY <1>5, Zenon DEF DataChanges
  <2>2. DOMAIN dash' = {"elements", "included"} /\ dash'.elements = elements
          /\ dash'.included = dash.included
    BY <1>1, <2>1, Zenon DEF IsResponse
  <2>3. IsResponse(dash') /\ IsAboutMember(dash') /\ Texts(dash') = Texts(dash)
    BY <1>1, <2>2, ElementsReplaced, Zenon
  <2>4. recs' = recs
    BY <1>5, Zenon DEF DataChanges
  <2>5. QED
    BY <1>1, <2>3, <2>4
<1>6. CASE Reordered
  <2>1. DOMAIN dash' = {"elements", "included"} /\ dash'.elements = dash.elements
          /\ dash'.included = Reverse(dash.included)
    BY <1>1, <1>6, Zenon DEF IsResponse, Reordered
  <2>2. IsResponse(dash') /\ IsAboutMember(dash') /\ Texts(dash') = Texts(dash)
    BY <1>1, <2>1, OrderReversed, Zenon
  <2>3. recs' = recs
    BY <1>6, Zenon DEF Reordered
  <2>4. QED
    BY <1>1, <2>2, <2>3
<1>7. CASE BodyIsGarbage
  BY <1>1, <1>7, EmptyResponse DEF BodyIsGarbage
<1>8. CASE RecommendationsChange
  <2>1. dash' = dash
    BY <1>8, Zenon DEF RecommendationsChange
  <2>2. CASE recs' \in {Garbage, NoBody}
    BY <1>1, <2>1, <2>2, EmptyResponse
  <2>3. CASE recs' \notin {Garbage, NoBody}
    <3>1. PICK i \in DOMAIN recs.included, shape \in {"unreadable", "misshapen"} :
            recs' = [recs EXCEPT !.included[i].shape = shape]
      BY <1>8, <2>3, Zenon DEF RecommendationsChange
    <3>2. IsEntity(recs.included[i])
      BY <1>1 DEF IsResponse
    <3> DEFINE e == [recs.included[i] EXCEPT !.shape = shape]
    <3>3. Weakened(e, recs.included[i])
      BY <3>2, FieldReplaced, Zenon
    <3>4. Replaced(recs, i, e, recs')
      BY <1>1, <3>1, EntityReplaced, Zenon
    <3> HIDE DEF e
    <3>5. IsResponse(recs') /\ Texts(recs') \subseteq Known
      BY <1>1, <3>3, <3>4, ResponseReplaced
    <3>6. QED
      BY <1>1, <2>1, <3>5
  <2>4. QED
    BY <2>2, <2>3
<1>9. QED
  BY <1>2, <1>3, <1>4, <1>5, <1>6, <1>7, <1>8 DEF Next

-----------------------------------------------------------------------------
(* The texts of a profile are texts of the response.                       *)

\* An entity that has no texts but known ones.
SaysOnly(e, known) ==
  /\ IsEntity(e)
  /\ e.name \in known /\ e.label \in known
  /\ \A x \in ToSet(e.people) : x.name \in known

LEMMA EntitySays ==
  ASSUME NEW body, IsResponse(body), NEW known, Texts(body) \subseteq known,
         NEW i \in DOMAIN body.included
  PROVE  SaysOnly(body.included[i], known)
BY TextsOfAll DEF SaysOnly, IsResponse

\* What a pointer leads to are entities of the response.
LEMMA CollectionIsOfResponse ==
  ASSUME NEW body, IsResponse(body), NEW pointer
  PROVE  LET all == body.included
             found == Collection(NewGraph(body), pointer)
         IN  /\ Len(found) \in Nat /\ found = [k \in 1 .. Len(found) |-> found[k]]
             /\ DOMAIN found = 1 .. Len(found)
             /\ \A k \in 1 .. Len(found) : \E i \in DOMAIN all :
                  all[i].shape = "good" /\ found[k] = all[i]
<1> DEFINE g == NewGraph(body)
           all == body.included
           found == Collection(g, pointer)
<1>1. \A u : Resolves(g, u) => u # NoUrn /\ \E i \in DOMAIN all :
        all[i].urn = u /\ all[i].shape = "good" /\ g.byUrn[u] = all[i]
  BY Resolving
<1>2. CASE Resolves(g, pointer)
  <2> DEFINE urns == g.byUrn[pointer].elements
             places == Resolved(g, urns)
             c == Cardinality(places)
  <2>1. IsList(urns)
    BY <1>1, <1>2 DEF IsResponse, IsEntity
  <2>2. found = ResolveAll(g, urns)
    BY <1>2 DEF Collection
  <2> HIDE DEF g, urns
  <2>3. /\ c \in Nat /\ found = [k \in 1 .. c |-> found[k]]
        /\ \A k \in 1 .. c : \E i \in places : found[k] = g.byUrn[urns[i]]
    BY <2>1, <2>2, ResolvingAll
  <2>4. \A i \in places : Resolves(g, urns[i])
    BY DEF Resolved
  <2> HIDE DEF places, c, found
  <2>5. Len(found) = c
    BY <2>3
  <2>6. QED
    BY <1>1, <2>3, <2>4, <2>5 DEF found, g
<1>3. CASE ~Resolves(g, pointer)
  <2>1. found = <<>>
    BY <1>3 DEF Collection
  <2> HIDE DEF found
  <2>2. QED
    BY <2>1 DEF found
<1>4. QED
  BY <1>2, <1>3

LEMMA NameIsKnown ==
  ASSUME NEW body, IsResponse(body), NEW known, "" \in known, Texts(body) \subseteq known,
         NEW urn
  PROVE  NameAt(NewGraph(body), urn) \in known
<1> DEFINE g == NewGraph(body)
           all == body.included
<1>1. \A u : Resolves(g, u) => u # NoUrn /\ \E i \in DOMAIN all :
        all[i].urn = u /\ all[i].shape = "good" /\ g.byUrn[u] = all[i]
  BY Resolving
<1>2. CASE Resolves(g, urn)
  <2>1. PICK i \in DOMAIN all : g.byUrn[urn] = all[i]
    BY <1>1, <1>2
  <2>2. all[i].name \in known
    BY EntitySays DEF SaysOnly
  <2>3. QED
    BY <1>2, <2>1, <2>2 DEF NameAt
<1>3. CASE ~Resolves(g, urn)
  BY <1>3 DEF NameAt
<1>4. QED
  BY <1>2, <1>3

LEMMA CollectionSays ==
  ASSUME NEW body, IsResponse(body), NEW known, Texts(body) \subseteq known, NEW pointer
  PROVE  LET found == Collection(NewGraph(body), pointer)
         IN  /\ Len(found) \in Nat /\ DOMAIN found = 1 .. Len(found)
             /\ \A k \in 1 .. Len(found) : SaysOnly(found[k], known)
<1> DEFINE found == Collection(NewGraph(body), pointer)
<1>1. /\ Len(found) \in Nat /\ DOMAIN found = 1 .. Len(found)
      /\ \A k \in 1 .. Len(found) : \E i \in DOMAIN body.included : found[k] = body.included[i]
  BY CollectionIsOfResponse
<1>2. \A i \in DOMAIN body.included : SaysOnly(body.included[i], known)
  BY EntitySays
<1> HIDE DEF found
<1>3. \A k \in 1 .. Len(found) : SaysOnly(found[k], known)
  BY <1>1, <1>2
<1>4. QED
  BY <1>1, <1>3 DEF found

LEMMA ByTypeSays ==
  ASSUME NEW body, IsResponse(body), NEW known, Texts(body) \subseteq known, NEW kind
  PROVE  LET found == ByType(NewGraph(body), kind)
         IN  /\ Len(found) \in Nat /\ DOMAIN found = 1 .. Len(found)
             /\ \A k \in 1 .. Len(found) : SaysOnly(found[k], known)
<1> DEFINE found == ByType(NewGraph(body), kind)
<1>1. /\ Len(found) \in Nat /\ DOMAIN found = 1 .. Len(found)
      /\ \A k \in DOMAIN found : \E i \in DOMAIN body.included : found[k] = body.included[i]
  BY FindingByType
<1>2. \A i \in DOMAIN body.included : SaysOnly(body.included[i], known)
  BY EntitySays
<1> HIDE DEF found
<1>3. \A k \in 1 .. Len(found) : SaysOnly(found[k], known)
  BY <1>1, <1>2
<1>4. QED
  BY <1>1, <1>3 DEF found

LEMMA RoleIsKnown ==
  ASSUME NEW body, IsResponse(body), NEW known, "" \in known, Texts(body) \subseteq known,
         NEW group, group.label \in known, NEW role, SaysOnly(role, known)
  PROVE  Role(NewGraph(body), group, role) \in [title : known, company : known]
BY NameIsKnown DEF Role, FirstNonEmpty, SaysOnly

\* The roles of the groups behind a pointer, group by group.
RolesOf(g, group) ==
  LET roles == Collection(g, group.roles) IN [j \in DOMAIN roles |-> Role(g, group, roles[j])]
Grouped(g, core) ==
  LET groups == Collection(g, core.sections["experience"])
  IN  [i \in DOMAIN groups |-> RolesOf(g, groups[i])]

LEMMA PositionsAre ==
  ASSUME NEW g, NEW core
  PROVE  LET listed == FlattenSeq(Grouped(g, core))
             loose == ByType(g, "Position")
         IN  Positions(g, core) =
               IF listed # <<>> THEN listed
               ELSE [i \in DOMAIN loose |-> Role(g, NoGroup, loose[i])]
BY DEF Positions, Grouped, RolesOf

LEMMA GroupedIsTyped ==
  ASSUME NEW body, IsResponse(body), NEW known, "" \in known, Texts(body) \subseteq known,
         NEW core
  PROVE  Grouped(NewGraph(body), core) \in Seq(Seq([title : known, company : known]))
<1> DEFINE g == NewGraph(body)
           groups == Collection(g, core.sections["experience"])
           Shown == [title : known, company : known]
<1>1. /\ Len(groups) \in Nat /\ DOMAIN groups = 1 .. Len(groups)
      /\ \A i \in 1 .. Len(groups) : SaysOnly(groups[i], known)
  BY CollectionSays
<1>2. ASSUME NEW group, SaysOnly(group, known)
      PROVE  RolesOf(g, group) \in Seq(Shown)
  <2> DEFINE roles == Collection(g, group.roles)
  <2>1. /\ Len(roles) \in Nat /\ DOMAIN roles = 1 .. Len(roles)
        /\ \A j \in 1 .. Len(roles) : SaysOnly(roles[j], known)
    BY CollectionSays
  <2>2. \A j \in 1 .. Len(roles) : Role(g, group, roles[j]) \in Shown
    BY <1>2, <2>1, RoleIsKnown DEF SaysOnly
  <2>3. RolesOf(g, group) = [j \in 1 .. Len(roles) |-> Role(g, group, roles[j])]
    BY <2>1 DEF RolesOf
  <2> HIDE DEF roles, Shown, g
  <2>4. QED
    BY <2>1, <2>2, <2>3, ListType
<1>3. Grouped(g, core) = [i \in 1 .. Len(groups) |-> RolesOf(g, groups[i])]
  BY <1>1 DEF Grouped
<1> HIDE DEF groups, Shown, g
<1>4. \A i \in 1 .. Len(groups) : RolesOf(g, groups[i]) \in Seq(Shown)
  BY <1>1, <1>2
<1>5. Grouped(g, core) \in Seq(Seq(Shown))
  <2> DEFINE Rows == Seq(Shown)
  <2>1. \A i \in 1 .. Len(groups) : RolesOf(g, groups[i]) \in Rows
    BY <1>4
  <2> HIDE DEF Rows
  <2>2. Grouped(g, core) \in Seq(Rows)
    BY <1>1, <1>3, <2>1, ListType
  <2>3. QED
    BY <2>2 DEF Rows
<1>6. QED
  BY <1>5 DEF Shown, g

LEMMA PositionsAreTyped ==
  ASSUME NEW body, IsResponse(body), NEW known, "" \in known, Texts(body) \subseteq known,
         NEW core
  PROVE  Positions(NewGraph(body), core) \in Seq([title : known, company : known])
<1> DEFINE g == NewGraph(body)
           Shown == [title : known, company : known]
           loose == ByType(g, "Position")
           alone == [i \in DOMAIN loose |-> Role(g, NoGroup, loose[i])]
<1>1. FlattenSeq(Grouped(g, core)) \in Seq(Shown)
  <2>1. Grouped(g, core) \in Seq(Seq(Shown))
    BY GroupedIsTyped
  <2> HIDE DEF Shown, g
  <2>2. QED
    BY <2>1, FlattenAt
<1>2. /\ Len(loose) \in Nat /\ DOMAIN loose = 1 .. Len(loose)
      /\ \A i \in 1 .. Len(loose) : SaysOnly(loose[i], known)
  BY ByTypeSays
<1>3. NoGroup.label \in known
  BY DEF NoGroup
<1>4. \A i \in 1 .. Len(loose) : Role(g, NoGroup, loose[i]) \in Shown
  BY <1>2, <1>3, RoleIsKnown
<1> HIDE DEF loose, Shown
<1>5. alone \in Seq(Shown)
  BY <1>2, <1>4, ListType
<1>6. QED
  BY <1>1, <1>5, PositionsAre DEF loose, Shown

LEMMA SkillsAreTyped ==
  ASSUME NEW body, IsResponse(body), NEW known, Texts(body) \subseteq known, NEW core
  PROVE  Skills(NewGraph(body), core) \in Seq(known)
<1> DEFINE g == NewGraph(body)
           all == Collection(g, core.sections["skills"])
           names == [i \in DOMAIN all |-> all[i].name]
           new(i) == \A j \in DOMAIN names : j < i => names[j] # names[i]
           places == {i \in DOMAIN names : names[i] # "" /\ new(i)}
<1>1. /\ Len(all) \in Nat /\ DOMAIN all = 1 .. Len(all)
      /\ \A k \in 1 .. Len(all) : all[k].name \in known
  BY CollectionSays DEF SaysOnly
<1>2. DOMAIN names = 1 .. Len(all) /\ \A i \in 1 .. Len(all) : names[i] \in known
  BY <1>1
<1>3. Skills(g, core) = Keep(names, places)
  BY DEF Skills
<1>4. places \in SUBSET (1 .. Len(all))
  BY <1>2
<1> HIDE DEF names, places, all
<1>5. places \in SUBSET Nat /\ IsFiniteSet(places)
  BY <1>1, <1>4, PlacesAreFinite
<1>6. \A i \in places : names[i] \in known
  BY <1>2, <1>4
<1>7. QED
  BY <1>3, <1>5, <1>6, KeepType

LEMMA ContributorsAreTyped ==
  ASSUME NEW body, IsResponse(body), NEW known, "" \in known, Texts(body) \subseteq known,
         NEW people, IsList(people), \A x \in ToSet(people) : x.name \in known
  PROVE  ContributorNames(NewGraph(body), people) \in Seq(known)
<1> DEFINE g == NewGraph(body)
           name(i) == IF people[i].custom THEN people[i].name ELSE NameAt(g, people[i].profile)
           names == [i \in DOMAIN people |-> name(i)]
           places == {i \in DOMAIN names : names[i] # ""}
<1>1. Len(people) \in Nat /\ DOMAIN people = 1 .. Len(people)
  BY ListPlaces
<1>2. ASSUME NEW i \in 1 .. Len(people) PROVE name(i) \in known
  <2>1. people[i].name \in known
    BY <1>1 DEF ToSet
  <2>2. NameAt(g, people[i].profile) \in known
    BY NameIsKnown
  <2>3. QED
    BY <2>1, <2>2
<1>3. DOMAIN names = 1 .. Len(people) /\ \A i \in 1 .. Len(people) : names[i] \in known
  BY <1>1, <1>2
<1>4. ContributorNames(g, people) = Keep(names, places)
  BY DEF ContributorNames
<1>5. places \in SUBSET (1 .. Len(people))
  BY <1>3
<1> HIDE DEF names, places
<1>6. places \in SUBSET Nat /\ IsFiniteSet(places)
  BY <1>1, <1>5, PlacesAreFinite
<1>7. \A i \in places : names[i] \in known
  BY <1>3, <1>5
<1>8. QED
  BY <1>4, <1>6, <1>7, KeepType

LEMMA EntriesAreTyped ==
  ASSUME NEW body, IsResponse(body), NEW known, "" \in known, Texts(body) \subseteq known,
         NEW core, NEW s
  PROVE  Entries(NewGraph(body), core, s)
           \in Seq([name : known, organisation : known, people : Seq(known)])
<1> DEFINE g == NewGraph(body)
           all == Collection(g, core.sections[s])
           Names == Seq(known)
           Shown == [name : known, organisation : known, people : Names]
           organisation(e) ==
             IF s \in JoinedSections THEN FirstNonEmpty(e.label, NameAt(g, e.org)) ELSE ""
           people(e) == IF s \in CreditedSections THEN ContributorNames(g, e.people) ELSE <<>>
           shown(e) == [name |-> e.name, organisation |-> organisation(e), people |-> people(e)]
<1>1. /\ Len(all) \in Nat /\ DOMAIN all = 1 .. Len(all)
      /\ \A k \in 1 .. Len(all) : SaysOnly(all[k], known)
  BY CollectionSays
<1>2. \A k \in 1 .. Len(all) : IsList(all[k].people)
  BY <1>1 DEF SaysOnly, IsEntity
<1>3. ASSUME NEW e, SaysOnly(e, known), IsList(e.people)
      PROVE  shown(e) \in Shown
  <2>1. organisation(e) \in known
    <3>1. e.label \in known /\ NameAt(g, e.org) \in known
      BY <1>3, NameIsKnown DEF SaysOnly
    <3> HIDE DEF g
    <3>2. QED
      BY <3>1 DEF FirstNonEmpty
  <2>2. people(e) \in Names
    <3>1. ContributorNames(g, e.people) \in Names
      BY <1>3, ContributorsAreTyped DEF SaysOnly
    <3>2. <<>> \in Names
      BY SequencePlaces
    <3> HIDE DEF g, Names
    <3>3. QED
      BY <3>1, <3>2
  <2>3. e.name \in known
    BY <1>3 DEF SaysOnly
  <2> HIDE DEF organisation, people, Names
  <2>4. QED
    BY <2>1, <2>2, <2>3
<1>4. Entries(g, core, s) = [i \in DOMAIN all |-> shown(all[i])]
  BY DEF Entries
<1>5. \A k \in 1 .. Len(all) : shown(all[k]) \in Shown
  BY <1>1, <1>2, <1>3
<1> HIDE DEF all, shown, Shown
<1>6. Entries(g, core, s) \in Seq(Shown)
  BY <1>1, <1>4, <1>5, ListType
<1>7. QED
  BY <1>6 DEF Shown

LEMMA RecommendsAreTyped ==
  ASSUME NEW body, IsResponse(body), NEW known, "" \in known, Texts(body) \subseteq known
  PROVE  Recommends(body) \in Seq([text : known, by : known])
<1> DEFINE g == NewGraph(body)
           all == ByType(g, "Recommendation")
           places == {i \in DOMAIN all : all[i].label # ""}
           kept == Keep(all, places)
           by(e) == IF e.people # <<>> THEN e.people[1].name ELSE NameAt(g, e.org)
           shown(e) == [text |-> e.label, by |-> by(e)]
           Shown == [text : known, by : known]
           Fit == {e \in ToSet(all) : SaysOnly(e, known)}
<1>1. /\ Len(all) \in Nat /\ DOMAIN all = 1 .. Len(all)
      /\ \A k \in 1 .. Len(all) : SaysOnly(all[k], known)
  BY ByTypeSays
<1>2. ASSUME NEW e \in Fit PROVE shown(e) \in Shown
  <2>1. e.people # <<>> => e.people[1].name \in known
    <3> HIDE DEF all
    <3>1. /\ SaysOnly(e, known) /\ IsList(e.people)
          /\ Len(e.people) \in Nat /\ DOMAIN e.people = 1 .. Len(e.people)
      BY ListPlaces DEF SaysOnly, IsEntity
    <3>2. e.people # <<>> => 1 \in DOMAIN e.people
      BY <3>1, SequencePlaces DEF IsList
    <3>3. QED
      BY <3>1, <3>2 DEF SaysOnly, ToSet
  <2>2. NameAt(g, e.org) \in known /\ e.label \in known
    BY NameIsKnown DEF SaysOnly
  <2> HIDE DEF g, all
  <2>3. QED
    BY <2>1, <2>2
<1>3. Recommends(body) = [i \in DOMAIN kept |-> shown(kept[i])]
  BY DEF Recommends
<1> HIDE DEF all
<1>4. places \in SUBSET (1 .. Len(all)) /\ \A i \in places : all[i] \in Fit
  BY <1>1 DEF ToSet
<1> HIDE DEF places, Fit
<1>5. places \in SUBSET Nat /\ IsFiniteSet(places)
  BY <1>1, <1>4, PlacesAreFinite
<1>6. kept \in Seq(Fit)
  BY <1>4, <1>5, KeepType
<1> HIDE DEF kept, shown, Shown
<1>7. Recommends(body) \in Seq(Shown)
  <2>1. Len(kept) \in Nat /\ DOMAIN kept = 1 .. Len(kept)
    BY <1>6, SequencePlaces
  <2>2. \A k \in 1 .. Len(kept) : shown(kept[k]) \in Shown
    BY <1>2, <1>6, <2>1, SequencePlaces
  <2>3. QED
    BY <1>3, <2>1, <2>2, ListType
<1>8. QED
  BY <1>7 DEF Shown

-----------------------------------------------------------------------------
(* The outcome.                                                            *)

\* A profile comes from the member's own entity, good and with a name, and from
\* nothing else, and it comes whenever data or the slug leads to it.
LEMMA ProfileIsTheMembers ==
  ASSUME NEW body, IsResponse(body), IsAboutMember(body), NEW slug \in Slugs, NEW praise
  PROVE  LET o == FetchProfile(slug, body, praise)
             all == body.included
             led(i) == /\ all[i].urn = Subject /\ all[i].shape = "good"
                       /\ \/ Subject \in ToSet(body.elements)
                          \/ Folded[all[i].slug] = Folded[slug]
         IN  /\ o.code \in {"ok", "PRF02", "PRF03"}
             /\ o.code = "PRF03" <=> body = Garbage
             /\ \A i \in DOMAIN all : body # Garbage /\ led(i) /\ all[i].name # "" =>
                  o = Assemble(NewGraph(body), all[i], slug, praise)
             /\ o.code = "ok" =>
                  body # Garbage /\ \E i \in DOMAIN all : led(i) /\ all[i].name # ""
<1> DEFINE g == NewGraph(body)
           core == SubjectProfile(g, slug)
           o == FetchProfile(slug, body, praise)
           all == body.included
           led(i) == /\ all[i].urn = Subject /\ all[i].shape = "good"
                     /\ \/ Subject \in ToSet(body.elements)
                        \/ Folded[all[i].slug] = Folded[slug]
<1>1. /\ \A i \in DOMAIN all : led(i) => core = all[i]
      /\ (\A i \in DOMAIN all : ~led(i)) => core = NoMember
  BY SubjectIsTheMember
<1>2. o = IF body = Garbage THEN [code |-> "PRF03"]
          ELSE IF core = NoMember \/ core.name = "" THEN [code |-> "PRF02"]
          ELSE Assemble(g, core, slug, praise)
  BY DEF FetchProfile
<1>3. \A i \in DOMAIN all : led(i) => all[i].urn # NoMember.urn
  BY MemberAssumption DEF NoMember
<1>4. Assemble(g, core, slug, praise).code = "ok"
  BY DEF Assemble
<1> HIDE DEF g, core, o, led, all
<1>5. /\ o.code \in {"ok", "PRF02", "PRF03"}
      /\ o.code = "PRF03" <=> body = Garbage
      /\ o.code = "ok" <=> body # Garbage /\ core # NoMember /\ core.name # ""
  BY <1>2, <1>4
<1>6. ASSUME NEW i \in DOMAIN all, body # Garbage, led(i), all[i].name # ""
      PROVE  o = Assemble(g, all[i], slug, praise)
  BY <1>1, <1>2, <1>3, <1>6
<1>7. ASSUME o.code = "ok"
      PROVE  body # Garbage /\ \E i \in DOMAIN all : led(i) /\ all[i].name # ""
  BY <1>1, <1>5, <1>7
<1>8. QED
  BY <1>5, <1>6, <1>7 DEF g, o, led, all

\* The fields of a profile that has been assembled.
HasFields(o, g, core, slug, praise) ==
  /\ o.publicID = FirstNonEmpty(core.slug, slug)
  /\ o.name = core.name
  /\ o.location = FirstNonEmpty(NameAt(g, core.org), core.label)
  /\ o.sections = SectionsOf(g, core)
  /\ o.recommends = Recommends(praise)

LEMMA AssembledFields ==
  ASSUME NEW g, NEW core, NEW slug, NEW praise
  PROVE  HasFields(Assemble(g, core, slug, praise), g, core, slug, praise)
BY DEF Assemble, HasFields

\* A profile with texts from a set of known ones.
IsProfile(o, known) ==
  /\ o.publicID \in Slugs
  /\ o.name \in known /\ o.location \in known
  /\ o.sections["experience"] \in Seq([title : known, company : known])
  /\ o.sections["skills"] \in Seq(known)
  /\ \A s \in SectionNames \ {"experience", "skills"} :
       o.sections[s] \in Seq([name : known, organisation : known, people : Seq(known)])
  /\ o.recommends \in Seq([text : known, by : known])

LEMMA AssembledIsTyped ==
  ASSUME NEW body, IsResponse(body), NEW slug,
         NEW praise, IsResponse(praise), NEW known, "" \in known,
         Texts(body) \subseteq known, Texts(praise) \subseteq known,
         NEW core, SaysOnly(core, known), core.slug \in Slugs
  PROVE  IsProfile(Assemble(NewGraph(body), core, slug, praise), known)
<1> DEFINE g == NewGraph(body)
           made == Assemble(g, core, slug, praise)
<1>1. HasFields(made, g, core, slug, praise)
  BY AssembledFields
<1>2. NameAt(g, core.org) \in known
  BY NameIsKnown
<1>3. Positions(g, core) \in Seq([title : known, company : known])
  BY PositionsAreTyped
<1>4. Skills(g, core) \in Seq(known)
  BY SkillsAreTyped
<1>5. \A s \in SectionNames \ {"experience", "skills"} :
         Entries(g, core, s) \in Seq([name : known, organisation : known, people : Seq(known)])
  BY EntriesAreTyped
<1>6. Recommends(praise) \in Seq([text : known, by : known])
  BY RecommendsAreTyped
<1> HIDE DEF g, made
<1>7. /\ made.publicID = FirstNonEmpty(core.slug, slug)
      /\ made.name = core.name
      /\ made.location = FirstNonEmpty(NameAt(g, core.org), core.label)
      /\ made.sections = SectionsOf(g, core)
      /\ made.recommends = Recommends(praise)
  BY <1>1 DEF HasFields
<1>8. /\ made.sections["experience"] = Positions(g, core)
      /\ made.sections["skills"] = Skills(g, core)
      /\ \A s \in SectionNames \ {"experience", "skills"} :
           made.sections[s] = Entries(g, core, s)
  BY <1>7 DEF SectionsOf, SectionNames
<1>9. made.publicID \in Slugs
  BY <1>7, SlugAssumption DEF FirstNonEmpty
<1>10. made.name \in known /\ made.location \in known
  BY <1>7, <1>2 DEF FirstNonEmpty, SaysOnly
<1>11. IsProfile(made, known)
  BY <1>7, <1>3, <1>4, <1>5, <1>6, <1>8, <1>9, <1>10 DEF IsProfile
<1>12. QED
  BY <1>11 DEF made, g

LEMMA OutcomeIsTyped ==
  ASSUME NEW body, IsResponse(body), IsAboutMember(body), NEW slug \in Slugs,
         NEW praise, IsResponse(praise), NEW known, "" \in known,
         Texts(body) \subseteq known, Texts(praise) \subseteq known,
         FetchProfile(slug, body, praise).code = "ok"
  PROVE  IsProfile(FetchProfile(slug, body, praise), known)
<1> DEFINE all == body.included
           made == FetchProfile(slug, body, praise)
<1>1. PICK i \in DOMAIN all :
        /\ all[i].urn = Subject
        /\ made = Assemble(NewGraph(body), all[i], slug, praise)
  BY ProfileIsTheMembers
<1> HIDE DEF made
<1>2. SaysOnly(all[i], known)
  BY EntitySays
<1>3. all[i].slug \in Slugs
  BY <1>1 DEF IsAboutMember
<1> HIDE DEF all
<1>4. IsProfile(made, known)
  BY <1>1, <1>2, <1>3, AssembledIsTyped
<1>5. QED
  BY <1>4 DEF made

\* What a scrape leaves is well typed.
Fetched ==
  /\ asked \in Slugs /\ changes \in 0 .. MaxChanges
  /\ ResponsesOK /\ outcome = FetchProfile(asked, dash, recs)

LEMMA FetchingIsTyped ==
  Fetched => TypeOK
<1> SUFFICES ASSUME Fetched PROVE TypeOK
  OBVIOUS
<1> USE DEF Fetched
<1>1. /\ IsResponse(dash) /\ IsAboutMember(dash) /\ IsResponse(recs) /\ "" \in Known
      /\ Texts(dash) \subseteq Known /\ Texts(recs) \subseteq Known
  BY DEF ResponsesOK, Known
<1> HIDE DEF Known
<1>2. outcome.code \in {"ok", "PRF02", "PRF03"}
  BY <1>1, ProfileIsTheMembers
<1>3. Ok => IsProfile(outcome, Known)
  BY <1>1, OutcomeIsTyped DEF Ok
<1>4. ASSUME Ok
      PROVE  /\ outcome.publicID \in Slugs
             /\ {outcome.name, outcome.location} \subseteq Known
             /\ \A x \in ToSet(outcome.sections["experience"]) : {x.title, x.company} \subseteq Known
             /\ ToSet(outcome.sections["skills"]) \subseteq Known
             /\ \A s \in SectionNames \ {"experience", "skills"} :
                  \A x \in ToSet(outcome.sections[s]) :
                    {x.name, x.organisation} \cup ToSet(x.people) \subseteq Known
             /\ \A x \in ToSet(outcome.recommends) : {x.text, x.by} \subseteq Known
  <2>1. /\ outcome.publicID \in Slugs
        /\ outcome.name \in Known /\ outcome.location \in Known
        /\ outcome.sections["experience"] \in Seq([title : Known, company : Known])
        /\ outcome.sections["skills"] \in Seq(Known)
        /\ \A s \in SectionNames \ {"experience", "skills"} :
             outcome.sections[s] \in Seq([name : Known, organisation : Known, people : Seq(Known)])
        /\ outcome.recommends \in Seq([text : Known, by : Known])
    BY <1>4, <1>3 DEF IsProfile
  <2>2. ASSUME NEW S, NEW s \in Seq(S) PROVE ToSet(s) \subseteq S
    BY SequencePlaces DEF ToSet
  <2>3. \A x \in ToSet(outcome.sections["experience"]) : {x.title, x.company} \subseteq Known
    <3> DEFINE Shown == [title : Known, company : Known]
    <3>1. outcome.sections["experience"] \in Seq(Shown)
      BY <2>1
    <3>2. \A x \in Shown : {x.title, x.company} \subseteq Known
      OBVIOUS
    <3> HIDE DEF Shown
    <3>3. QED
      BY <2>2, <3>1, <3>2
  <2>4. \A x \in ToSet(outcome.recommends) : {x.text, x.by} \subseteq Known
    <3> DEFINE Shown == [text : Known, by : Known]
    <3>1. outcome.recommends \in Seq(Shown)
      BY <2>1
    <3>2. \A x \in Shown : {x.text, x.by} \subseteq Known
      OBVIOUS
    <3> HIDE DEF Shown
    <3>3. QED
      BY <2>2, <3>1, <3>2
  <2>5. \A s \in SectionNames \ {"experience", "skills"} :
          \A x \in ToSet(outcome.sections[s]) :
            {x.name, x.organisation} \cup ToSet(x.people) \subseteq Known
    <3> DEFINE Names == Seq(Known)
               Shown == [name : Known, organisation : Known, people : Names]
    <3>1. \A s \in SectionNames \ {"experience", "skills"} : outcome.sections[s] \in Seq(Shown)
      BY <2>1
    <3>2. \A p \in Names : ToSet(p) \subseteq Known
      BY <2>2
    <3> HIDE DEF Names
    <3>3. \A x \in Shown : {x.name, x.organisation} \cup ToSet(x.people) \subseteq Known
      BY <3>2
    <3> HIDE DEF Shown
    <3>4. QED
      BY <2>2, <3>1, <3>3
  <2>6. QED
    BY <2>1, <2>2, <2>3, <2>4, <2>5
<1>5. QED
  BY <1>2, <1>4 DEF TypeOK

-----------------------------------------------------------------------------
(* The invariant.                                                          *)

LEMMA InitInv == Init => IInv
<1> SUFFICES ASSUME Init PROVE IInv
  OBVIOUS
<1>1. /\ asked \in Slugs /\ changes = 0 /\ dash = Complete /\ recs = Praise
      /\ outcome = FetchProfile(asked, dash, recs)
  BY DEF Init
<1>2. ResponsesOK
  BY <1>1, ResponseAssumption DEF ResponsesOK, Known
<1>3. changes \in 0 .. MaxChanges
  BY <1>1, BoundAssumption
<1>4. QED
  BY <1>1, <1>2, <1>3, FetchingIsTyped DEF IInv, Fetched

LEMMA NextInv == IInv /\ [Next]_vars => IInv'
<1> SUFFICES ASSUME IInv, [Next]_vars PROVE IInv'
  OBVIOUS
<1>1. /\ asked \in Slugs /\ changes \in 0 .. MaxChanges
      /\ ResponsesOK /\ outcome = FetchProfile(asked, dash, recs)
  BY DEF IInv, TypeOK
<1>2. CASE Next
  <2>1. ResponsesOK'
    BY <1>1, <1>2, StepKeepsResponses
  <2>2. Scrape
    BY <1>2 DEF Next, EntityBreaks, NameOmitted, PointerDropped, DataChanges, Reordered,
                BodyIsGarbage, RecommendationsChange
  <2>3. /\ asked' \in Slugs /\ outcome' = FetchProfile(asked', dash', recs')
        /\ changes' \in 0 .. MaxChanges
    BY <1>1, <2>2, BoundAssumption DEF Scrape
  <2>4. Fetched'
    BY <2>1, <2>3 DEF Fetched
  <2>5. TypeOK'
    BY <2>4, FetchingIsTyped, PTL
  <2>6. QED
    BY <2>1, <2>3, <2>5 DEF IInv
<1>3. CASE UNCHANGED vars
  BY <1>3 DEF vars, IInv, TypeOK, ResponsesOK, Ok
<1>4. QED
  BY <1>2, <1>3

\* However LinkedIn changes its answers, what a scrape returns is what
\* FetchProfile makes of them, has the form a profile has, and contains no text
\* that LinkedIn did not send (client_linkedin.go, assemble.go).
THEOREM Inductive == Spec => []IInv
<1>1. Init => IInv
  BY InitInv
<1>2. IInv /\ [Next]_vars => IInv'
  BY NextInv
<1>3. QED
  BY <1>1, <1>2, PTL DEF Spec

\* So it is well typed whatever happens.
THEOREM TypesOK == Spec => []TypeOK
<1>1. IInv => TypeOK
  BY DEF IInv
<1>2. QED
  BY <1>1, Inductive, PTL

-----------------------------------------------------------------------------
(* The response, looked up without the index.                              *)

\* What the index finds is what there is.
LEMMA LookedUp ==
  ASSUME IsResponse(dash)
  PROVE  /\ \A i \in DOMAIN dash.included :
              dash.included[i].shape = "good" /\ dash.included[i].urn # NoUrn =>
                Good(dash.included[i].urn) /\ At(dash.included[i].urn) = dash.included[i]
         /\ \A urn : Good(urn) => urn # NoUrn /\ \E i \in DOMAIN dash.included :
              /\ dash.included[i].urn = urn /\ dash.included[i].shape = "good"
              /\ At(urn) = dash.included[i]
         /\ \A urn : Good(urn) <=> Resolves(NewGraph(dash), urn)
         /\ \A urn : Good(urn) => NewGraph(dash).byUrn[urn] = At(urn)
<1> DEFINE g == NewGraph(dash)
           all == dash.included
<1>1. \A i, j \in DOMAIN all : all[i].urn = all[j].urn => i = j
  BY DEF IsResponse
<1>2. ASSUME NEW i \in DOMAIN all, all[i].shape = "good", all[i].urn # NoUrn
      PROVE  Good(all[i].urn) /\ At(all[i].urn) = all[i]
  <2>1. Good(all[i].urn)
    BY <1>2 DEF Good
  <2>2. (CHOOSE j \in DOMAIN all : all[j].urn = all[i].urn /\ all[j].shape = "good") = i
    BY <1>1, <1>2
  <2>3. QED
    BY <2>1, <2>2 DEF At
<1>3. ASSUME NEW urn, Good(urn)
      PROVE  urn # NoUrn /\ \E i \in DOMAIN all :
               all[i].urn = urn /\ all[i].shape = "good" /\ At(urn) = all[i]
  BY <1>2, <1>3 DEF Good
<1>4. \A i \in DOMAIN all : all[i].shape = "good" /\ all[i].urn # NoUrn =>
        Resolves(g, all[i].urn) /\ g.byUrn[all[i].urn] = all[i]
  BY Resolving
<1>5. \A u : Resolves(g, u) => u # NoUrn /\ \E i \in DOMAIN all :
        all[i].urn = u /\ all[i].shape = "good" /\ g.byUrn[u] = all[i]
  BY Resolving
<1> HIDE DEF g, all
<1>6. \A urn : Good(urn) => Resolves(g, urn) /\ g.byUrn[urn] = At(urn)
  BY <1>3, <1>4
<1>7. \A urn : Resolves(g, urn) => Good(urn)
  BY <1>2, <1>5
<1>8. QED
  BY <1>2, <1>3, <1>6, <1>7 DEF g, all

\* Of a profile that has been found.
LEMMA FoundIsTheMember ==
  ASSUME IInv
  PROVE  /\ outcome.code = "PRF03" <=> dash = Garbage
         /\ Ok <=> /\ Good(Subject) /\ At(Subject).name # ""
                   /\ \/ Subject \in ToSet(dash.elements)
                      \/ Folded[At(Subject).slug] = Folded[asked]
         /\ Ok => /\ outcome = Assemble(NewGraph(dash), At(Subject), asked, recs)
                  /\ At(Subject).slug \in Slugs
<1> DEFINE all == dash.included
           led(i) == /\ all[i].urn = Subject /\ all[i].shape = "good"
                     /\ \/ Subject \in ToSet(dash.elements)
                        \/ Folded[all[i].slug] = Folded[asked]
           at == At(Subject)
           reached == \/ Subject \in ToSet(dash.elements)
                      \/ Folded[at.slug] = Folded[asked]
           made == Assemble(NewGraph(dash), at, asked, recs)
<1>1. /\ IsResponse(dash) /\ IsAboutMember(dash) /\ asked \in Slugs
      /\ outcome = FetchProfile(asked, dash, recs)
  BY DEF IInv, TypeOK, ResponsesOK
<1>2. /\ outcome.code = "PRF03" <=> dash = Garbage
      /\ \A i \in DOMAIN all : dash # Garbage /\ led(i) /\ all[i].name # "" =>
           outcome = Assemble(NewGraph(dash), all[i], asked, recs)
      /\ outcome.code = "ok" => dash # Garbage /\ \E i \in DOMAIN all : led(i) /\ all[i].name # ""
  BY <1>1, ProfileIsTheMembers
<1>3. /\ \A i \in DOMAIN all : all[i].shape = "good" /\ all[i].urn # NoUrn =>
           Good(all[i].urn) /\ At(all[i].urn) = all[i]
      /\ Good(Subject) => \E i \in DOMAIN all :
           all[i].urn = Subject /\ all[i].shape = "good" /\ at = all[i]
  BY <1>1, LookedUp
<1>4. DOMAIN all = {} \/ dash # Garbage
  BY EmptyResponse
<1>5. made.code = "ok"
  BY DEF Assemble
<1>6. \A i \in DOMAIN all : all[i].urn = Subject => all[i].slug \in Slugs
  BY <1>1 DEF IsAboutMember
<1> HIDE DEF all, made, at
<1>7. Ok => Good(Subject) /\ at.name # "" /\ reached /\ at.slug \in Slugs
  BY <1>2, <1>3, <1>6, MemberAssumption DEF Ok, at
<1>8. Good(Subject) /\ at.name # "" /\ reached => outcome = made
  BY <1>2, <1>3, <1>4 DEF made
<1>9. QED
  BY <1>2, <1>5, <1>7, <1>8 DEF at, made, Ok

\* A profile is the member's, under the member's own slug, and there is none just
\* when the member's entity cannot be read, has no name or is not led to.
THEOREM RightMemberHolds == Spec => []RightMember
<1>1. IInv => RightMember
  <2> SUFFICES ASSUME IInv PROVE RightMember
    OBVIOUS
  <2>1. Ok => /\ HasFields(outcome, NewGraph(dash), At(Subject), asked, recs)
              /\ At(Subject).slug \in Slugs
    BY FoundIsTheMember, AssembledFields
  <2>2. Ok => outcome.name = At(Subject).name /\ outcome.publicID = At(Subject).slug
    BY <2>1, SlugAssumption DEF HasFields, FirstNonEmpty
  <2>3. QED
    BY <2>2, FoundIsTheMember DEF RightMember
<1>2. QED
  BY <1>1, Inductive, PTL

-----------------------------------------------------------------------------
(* Experience.                                                             *)

\* The places of a list of urns at which there is something to read.
Read(urns) == {i \in DOMAIN urns : Good(urns[i])}

\* The collection behind a pointer is what the response lists there and has.
LEMMA CollectionAsListed ==
  ASSUME IsResponse(dash), NEW pointer
  PROVE  LET urns == Listed(pointer)
             places == Read(urns)
             found == Collection(NewGraph(dash), pointer)
         IN  /\ places \in SUBSET Nat /\ IsFiniteSet(places) /\ places \subseteq DOMAIN urns
             /\ Cardinality(places) \in Nat /\ DOMAIN found = 1 .. Cardinality(places)
             /\ \A k \in 1 .. Cardinality(places) : \E i \in places :
                  Rank(places, i) = k /\ found[k] = At(urns[i])
             /\ \A i \in places :
                  /\ Rank(places, i) \in 1 .. Cardinality(places)
                  /\ found[Rank(places, i)] = At(urns[i])
<1> DEFINE g == NewGraph(dash)
           urns == Listed(pointer)
           places == Read(urns)
           found == Collection(g, pointer)
<1>1. /\ \A urn : Good(urn) => \E i \in DOMAIN dash.included : At(urn) = dash.included[i]
      /\ \A urn : Good(urn) <=> Resolves(g, urn)
      /\ \A urn : Good(urn) => g.byUrn[urn] = At(urn)
  BY LookedUp
<1>2. CASE Good(pointer)
  <2>1. urns = At(pointer).elements /\ IsList(urns)
    BY <1>1, <1>2 DEF Listed, IsResponse, IsEntity
  <2> HIDE DEF g
  <2>2. found = ResolveAll(g, urns)
    BY <1>1, <1>2, <2>1 DEF Collection
  <2>3. places = Resolved(g, urns)
    BY <1>1 DEF Read, Resolved
  <2> HIDE DEF urns, places, found
  <2>4. places \subseteq DOMAIN urns
    BY <2>3 DEF Resolved
  <2>5. places \in SUBSET Nat /\ IsFiniteSet(places) /\ Cardinality(places) \in Nat
    BY <2>1, <2>4, PlacesOfList
  <2>6. /\ found = [k \in 1 .. Cardinality(places) |-> found[k]]
        /\ \A k \in 1 .. Cardinality(places) : \E i \in places :
             Rank(places, i) = k /\ found[k] = g.byUrn[urns[i]]
        /\ \A i \in places :
             /\ Rank(places, i) \in 1 .. Cardinality(places)
             /\ found[Rank(places, i)] = g.byUrn[urns[i]]
    <3> DEFINE P == Resolved(g, urns)
               F == ResolveAll(g, urns)
    <3>1. /\ F = [k \in 1 .. Cardinality(P) |-> F[k]]
          /\ \A k \in 1 .. Cardinality(P) : \E i \in P :
               Rank(P, i) = k /\ F[k] = g.byUrn[urns[i]]
          /\ \A i \in P :
               Rank(P, i) \in 1 .. Cardinality(P) /\ F[Rank(P, i)] = g.byUrn[urns[i]]
      BY <2>1, ResolvingAll, SMTT(60)
    <3> HIDE DEF P, F
    <3>2. P = places /\ F = found
      BY <2>2, <2>3 DEF P, F
    <3>3. QED
      BY <3>1, <3>2
  <2>7. \A i \in places : g.byUrn[urns[i]] = At(urns[i])
    BY <1>1 DEF places, Read
  <2>8. QED
    BY <2>4, <2>5, <2>6, <2>7 DEF urns, places, found, g
<1>3. CASE ~Good(pointer)
  <2>1. urns = <<>>
    BY <1>3 DEF Listed
  <2>2. found = <<>>
    BY <1>1, <1>3 DEF Collection
  <2>3. \A s : s = <<>> => DOMAIN s = {}
    BY ShortLists
  <2> HIDE DEF urns, found, g
  <2>4. places = {}
    BY <2>1, <2>3 DEF Read
  <2> HIDE DEF places
  <2>5. IsFiniteSet(places) /\ Cardinality(places) = 0 /\ places \in SUBSET Nat
    BY <2>4, FS_EmptySet
  <2>6. 1 .. Cardinality(places) = {}
    BY <2>5
  <2>7. QED
    BY <2>2, <2>3, <2>4, <2>5, <2>6 DEF urns, places, found, g
<1>4. QED
  BY <1>2, <1>3

\* The group at a place of Groups, and the places of its roles that can be read.
Chosen == [a \in Read(Groups) |-> Read(Roles[a])]

LEMMA HeldIs ==
  ASSUME IsResponse(dash), Good(Subject)
  PROVE  /\ \A p : p \in Held <=>
              \E a \in Read(Groups) : \E b \in Chosen[a] : p = <<a, b>>
         /\ \A a \in Read(Groups) : Good(Groups[a]) /\ Roles[a] = Listed(At(Groups[a]).roles)
         /\ Groups = Listed(At(Subject).sections["experience"])
<1>1. \A p : p \in Held <=>
        \E a \in DOMAIN Roles : \E b \in DOMAIN Roles[a] : p = <<a, b>> /\ Good(Roles[a][b])
  <2> HIDE DEF Roles
  <2>1. \A p : p \in Slots(Roles) <=>
          \E a \in DOMAIN Roles : \E b \in DOMAIN Roles[a] : p = <<a, b>>
    BY DEF Slots
  <2>2. QED
    BY <2>1 DEF Held, RoleAt
<1>2. DOMAIN Roles = DOMAIN Groups /\ \A a \in DOMAIN Groups : Roles[a] = RolesIn(Groups[a])
  BY DEF Roles
<1>3. \A a \in DOMAIN Groups : ~Good(Groups[a]) => DOMAIN Roles[a] = {}
  BY <1>2, ShortLists DEF RolesIn
<1>4. \A p : p \in Held <=> \E a \in Read(Groups) : \E b \in Chosen[a] : p = <<a, b>>
  <2>1. \A a : a \in Read(Groups) <=> a \in DOMAIN Groups /\ Good(Groups[a])
    BY DEF Read
  <2>2. \A a \in Read(Groups) : \A b :
          b \in Chosen[a] <=> b \in DOMAIN Roles[a] /\ Good(Roles[a][b])
    BY DEF Chosen, Read
  <2> HIDE DEF Roles, Groups
  <2>3. ASSUME NEW p \in Held
        PROVE  \E a \in Read(Groups) : \E b \in Chosen[a] : p = <<a, b>>
    <3>1. PICK a \in DOMAIN Roles :
            \E b \in DOMAIN Roles[a] : p = <<a, b>> /\ Good(Roles[a][b])
      BY <1>1
    <3>2. a \in Read(Groups)
      BY <1>2, <1>3, <2>1, <3>1
    <3>3. QED
      BY <2>2, <3>1, <3>2
  <2>4. ASSUME NEW p, \E a \in Read(Groups) : \E b \in Chosen[a] : p = <<a, b>>
        PROVE  p \in Held
    BY <1>1, <1>2, <2>1, <2>2, <2>4
  <2>5. QED
    BY <2>3, <2>4
<1>5. \A a \in Read(Groups) : Good(Groups[a]) /\ Roles[a] = Listed(At(Groups[a]).roles)
  BY <1>2 DEF Read, RolesIn
<1>6. Groups = Listed(At(Subject).sections["experience"])
  BY DEF Groups
<1>7. QED
  BY <1>4, <1>5, <1>6

\* Group by group, every role that can be read is listed, in order.
LEMMA ListedInOrder ==
  ASSUME ResponsesOK, Good(Subject)
  PROVE  LET g == NewGraph(dash)
             flat == FlattenSeq(Grouped(g, At(Subject)))
         IN  /\ Len(flat) = Cardinality(Held) /\ IsFiniteSet(Held)
             /\ \A p \in Held :
                  /\ Ordinal(Held, p) \in 1 .. Len(flat)
                  /\ flat[Ordinal(Held, p)] = Role(g, At(Groups[p[1]]), At(RoleAt(p)))
<1> DEFINE g == NewGraph(dash)
           rows == Read(Groups)
           groups == Collection(g, At(Subject).sections["experience"])
           seqs == Grouped(g, At(Subject))
           flat == FlattenSeq(seqs)
           slots == Slots(seqs)
           held == Held
           to(p) == Moved(rows, Chosen, p)
<1>1. IsResponse(dash) /\ Texts(dash) \subseteq Known /\ "" \in Known
  BY DEF ResponsesOK, Known
<1>2. /\ \A p : p \in held <=> \E a \in rows : \E b \in Chosen[a] : p = <<a, b>>
      /\ \A a \in rows : Good(Groups[a]) /\ Roles[a] = Listed(At(Groups[a]).roles)
      /\ Groups = Listed(At(Subject).sections["experience"])
  BY <1>1, HeldIs
<1>3. /\ rows \in SUBSET Nat /\ IsFiniteSet(rows)
      /\ DOMAIN groups = 1 .. Cardinality(rows)
      /\ \A k \in 1 .. Cardinality(rows) : \E a \in rows :
           Rank(rows, a) = k /\ groups[k] = At(Groups[a])
      /\ \A a \in rows : /\ Rank(rows, a) \in 1 .. Cardinality(rows)
                         /\ groups[Rank(rows, a)] = At(Groups[a])
  BY <1>1, <1>2, CollectionAsListed
<1>4. ASSUME NEW a \in rows
      PROVE  LET shown == RolesOf(g, At(Groups[a]))
             IN  /\ Chosen[a] \in SUBSET Nat /\ IsFiniteSet(Chosen[a])
                 /\ DOMAIN shown = 1 .. Cardinality(Chosen[a])
                 /\ \A b \in Chosen[a] :
                      /\ Rank(Chosen[a], b) \in 1 .. Cardinality(Chosen[a])
                      /\ shown[Rank(Chosen[a], b)] = Role(g, At(Groups[a]), At(Roles[a][b]))
  <2> DEFINE roles == Collection(g, At(Groups[a]).roles)
             places == Read(Roles[a])
  <2>1. Chosen[a] = places
    BY DEF Chosen
  <2>2. /\ places \in SUBSET Nat /\ IsFiniteSet(places)
        /\ DOMAIN roles = 1 .. Cardinality(places)
        /\ \A b \in places : /\ Rank(places, b) \in 1 .. Cardinality(places)
                             /\ roles[Rank(places, b)] = At(Roles[a][b])
    <3> DEFINE urns == Listed(At(Groups[a]).roles)
    <3>1. /\ Read(urns) \in SUBSET Nat /\ IsFiniteSet(Read(urns))
          /\ DOMAIN roles = 1 .. Cardinality(Read(urns))
          /\ \A b \in Read(urns) : /\ Rank(Read(urns), b) \in 1 .. Cardinality(Read(urns))
                                   /\ roles[Rank(Read(urns), b)] = At(urns[b])
      BY <1>1, CollectionAsListed
    <3>2. urns = Roles[a]
      BY <1>2
    <3> HIDE DEF urns, roles
    <3>3. QED
      BY <3>1, <3>2
  <2>3. RolesOf(g, At(Groups[a]))
          = [j \in DOMAIN roles |-> Role(g, At(Groups[a]), roles[j])]
    BY DEF RolesOf
  <2> HIDE DEF roles, places, g
  <2>4. QED
    BY <2>1, <2>2, <2>3
<1>5. seqs \in Seq(Seq([title : Known, company : Known]))
  <2> HIDE DEF Known
  <2>1. QED
    BY <1>1, GroupedIsTyped
<1>6. DOMAIN seqs = DOMAIN groups /\ \A k \in DOMAIN groups : seqs[k] = RolesOf(g, groups[k])
  BY DEF Grouped
<1> HIDE DEF g, seqs, groups, rows, held
<1>7. /\ flat \in Seq([title : Known, company : Known])
      /\ IsFiniteSet(slots) /\ Len(flat) = Cardinality(slots)
      /\ \A p \in slots : /\ Ordinal(slots, p) \in 1 .. Len(flat)
                          /\ flat[Ordinal(slots, p)] = seqs[p[1]][p[2]]
  <2> DEFINE Shown == [title : Known, company : Known]
  <2>1. seqs \in Seq(Seq(Shown))
    BY <1>5
  <2> HIDE DEF Shown
  <2>2. /\ flat \in Seq(Shown)
        /\ IsFiniteSet(slots) /\ Len(flat) = Cardinality(slots)
        /\ \A p \in slots : /\ Ordinal(slots, p) \in 1 .. Len(flat)
                            /\ flat[Ordinal(slots, p)] = seqs[p[1]][p[2]]
    BY <2>1, FlattenAt
  <2>3. QED
    BY <2>2 DEF Shown
<1>8. \A p : p \in slots <=>
        \E a \in rows : \E l \in 1 .. Cardinality(Chosen[a]) : p = <<Rank(rows, a), l>>
  <2>1. \A p : p \in slots <=> \E k \in DOMAIN seqs : \E l \in DOMAIN seqs[k] : p = <<k, l>>
    BY DEF Slots
  <2>2. \A a \in rows : /\ Rank(rows, a) \in DOMAIN seqs
                        /\ DOMAIN seqs[Rank(rows, a)] = 1 .. Cardinality(Chosen[a])
    BY <1>3, <1>4, <1>6
  <2>3. \A k \in DOMAIN seqs : \E a \in rows : Rank(rows, a) = k
    BY <1>3, <1>6
  <2> HIDE DEF slots
  <2>4. QED
    <3>1. ASSUME NEW p \in slots
          PROVE  \E a \in rows : \E l \in 1 .. Cardinality(Chosen[a]) : p = <<Rank(rows, a), l>>
      <4>1. PICK k \in DOMAIN seqs : \E l \in DOMAIN seqs[k] : p = <<k, l>>
        BY <2>1
      <4>2. PICK a \in rows : Rank(rows, a) = k
        BY <2>3
      <4>3. QED
        BY <2>2, <4>1, <4>2
    <3>2. ASSUME NEW a \in rows, NEW l \in 1 .. Cardinality(Chosen[a])
          PROVE  <<Rank(rows, a), l>> \in slots
      BY <2>1, <2>2
    <3>3. QED
      BY <3>1, <3>2
<1>9. /\ IsFiniteSet(held) /\ Cardinality(held) = Cardinality(slots)
      /\ \A p \in held :
           to(p) \in slots /\ Ordinal(held, p) = Ordinal(slots, to(p))
  <2>1. \A a \in rows : Chosen[a] \in SUBSET Nat /\ IsFiniteSet(Chosen[a])
    BY <1>4
  <2> HIDE DEF slots
  <2>2. QED
    <3>1. AreChosen(rows, Chosen)
      BY <1>3, <2>1 DEF AreChosen
    <3>2. AreThePlaces(held, rows, Chosen)
      BY <1>2 DEF AreThePlaces
    <3>3. AreTheSlots(slots, rows, Chosen)
      BY <1>7, <1>8 DEF AreTheSlots
    <3>4. QED
      BY <3>1, <3>2, <3>3, ChosenSlots
<1>10. ASSUME NEW p \in held
       PROVE  /\ Ordinal(held, p) \in 1 .. Len(flat)
              /\ flat[Ordinal(held, p)] = Role(g, At(Groups[p[1]]), At(RoleAt(p)))
  <2>1. PICK a \in rows : \E b \in Chosen[a] : p = <<a, b>>
    BY <1>2
  <2>2. PICK b \in Chosen[a] : p = <<a, b>>
    BY <2>1
  <2>3. /\ Ordinal(held, p) \in 1 .. Len(flat)
        /\ flat[Ordinal(held, p)] = seqs[to(p)[1]][to(p)[2]]
    <3> HIDE DEF to
    <3>1. QED
      BY <1>7, <1>9
  <2>4. seqs[Rank(rows, a)] = RolesOf(g, At(Groups[a]))
    BY <1>3, <1>6
  <2>5. seqs[to(p)[1]][to(p)[2]] = Role(g, At(Groups[a]), At(Roles[a][b]))
    BY <1>4, <2>2, <2>4 DEF Moved
  <2>6. RoleAt(p) = Roles[a][b] /\ p[1] = a
    BY <2>2 DEF RoleAt
  <2>7. QED
    BY <2>3, <2>5, <2>6
<1>11. QED
  BY <1>7, <1>9, <1>10 DEF g, seqs, held

\* Experience is that list, when there is a role of the member that can be read.
LEMMA ShownInOrder ==
  ASSUME IInv, Ok, Held # {}
  PROVE  LET shown == outcome.sections["experience"]
         IN  /\ Len(shown) = Cardinality(Held)
             /\ \A p \in Held :
                  shown[Ordinal(Held, p)]
                    = Role(NewGraph(dash), At(Groups[p[1]]), At(RoleAt(p)))
<1> DEFINE g == NewGraph(dash)
           core == At(Subject)
           flat == FlattenSeq(Grouped(g, core))
<1>1. ResponsesOK /\ Good(Subject) /\ outcome = Assemble(g, core, asked, recs)
  BY FoundIsTheMember DEF IInv
<1>2. /\ Len(flat) = Cardinality(Held) /\ IsFiniteSet(Held)
      /\ \A p \in Held :
           /\ Ordinal(Held, p) \in 1 .. Len(flat)
           /\ flat[Ordinal(Held, p)] = Role(g, At(Groups[p[1]]), At(RoleAt(p)))
  BY <1>1, ListedInOrder
<1>3. HasFields(outcome, g, core, asked, recs)
  BY <1>1, AssembledFields
<1> HIDE DEF core, g
<1>4. outcome.sections["experience"] = Positions(g, core)
  BY <1>3 DEF HasFields, SectionsOf, SectionNames
<1>5. flat # <<>>
  <2>1. Cardinality(Held) # 0
    BY <1>2, FS_EmptySet
  <2>2. \A s : s = <<>> => Len(s) = 0
    OBVIOUS
  <2>3. QED
    BY <1>2, <2>1, <2>2
<1>6. Positions(g, core) = flat
  <2>1. LET loose == ByType(g, "Position")
        IN  Positions(g, core) = IF flat # <<>> THEN flat
                                 ELSE [i \in DOMAIN loose |-> Role(g, NoGroup, loose[i])]
    BY PositionsAre
  <2>2. QED
    BY <1>5, <2>1
<1> HIDE DEF flat
<1>7. QED
  BY <1>2, <1>4, <1>6 DEF g

\* Every role that can be read is shown, in order, and no other.
THEOREM ExperienceIsComplete == Spec => []ExperienceComplete
<1>1. ASSUME IInv, Ok, Held # {}
      PROVE  LET shown == outcome.sections["experience"]
             IN  /\ Len(shown) = Cardinality(Held)
                 /\ \A p \in Held : shown[Ordinal(Held, p)].title = At(RoleAt(p)).name
  <2>1. \A group, role : Role(NewGraph(dash), group, role).title = role.name
    BY DEF Role
  <2>2. QED
    BY <1>1, <2>1, ShownInOrder
<1>2. IInv => ExperienceComplete
  BY <1>1 DEF ExperienceComplete
<1>3. QED
  BY <1>2, Inductive, PTL

\* The first of the texts that are there.
LEMMA FirstOfThree ==
  ASSUME NEW texts, DOMAIN texts = 1 .. 3
  PROVE  FirstGiven(texts) = FirstNonEmpty(FirstNonEmpty(texts[1], texts[2]), texts[3])
<1> DEFINE given == {n \in DOMAIN texts : texts[n] # ""}
<1>1. given \in SUBSET (1 .. 3)
  BY Zenon
<1>2. /\ 1 \in given <=> texts[1] # ""
      /\ 2 \in given <=> texts[2] # ""
      /\ 3 \in given <=> texts[3] # ""
  <2>1. 1 \in 1 .. 3 /\ 2 \in 1 .. 3 /\ 3 \in 1 .. 3
    OBVIOUS
  <2>2. QED
    BY <2>1, Zenon
<1>3. FirstGiven(texts) = IF given = {} THEN "" ELSE texts[Min(given)]
  BY Zenon DEF FirstGiven
<1> HIDE DEF given
<1>4. ASSUME NEW m \in 1 .. 3, m \in given, \A n \in given : m <= n
      PROVE  FirstGiven(texts) = texts[m]
  <2>1. ASSUME NEW n \in given, \A k \in given : n <= k PROVE n = m
    BY <1>1, <1>4, <2>1
  <2>2. Min(given) = m
    BY <1>4, <2>1 DEF Min
  <2>3. QED
    BY <1>3, <1>4, <2>2, Zenon
<1>5. CASE texts[1] # ""
  <2>1. 1 \in 1 .. 3 /\ 1 \in given
    <3>1. 1 \in 1 .. 3
      OBVIOUS
    <3>2. QED
      BY <1>2, <1>5, <3>1, Zenon
  <2>2. \A k \in given : 1 <= k
    BY <1>1
  <2>3. QED
    BY <1>4, <1>5, <2>1, <2>2, Zenon DEF FirstNonEmpty
<1>6. CASE texts[1] = "" /\ texts[2] # ""
  <2>1. 2 \in 1 .. 3 /\ 2 \in given /\ 1 \notin given
    <3>1. 2 \in 1 .. 3
      OBVIOUS
    <3>2. QED
      BY <1>2, <1>6, <3>1, Zenon
  <2>2. \A k \in given : 2 <= k
    BY <1>1, <2>1
  <2>3. QED
    BY <1>4, <1>6, <2>1, <2>2, Zenon DEF FirstNonEmpty
<1>7. CASE texts[1] = "" /\ texts[2] = "" /\ texts[3] # ""
  <2>1. 3 \in 1 .. 3 /\ 3 \in given /\ 1 \notin given /\ 2 \notin given
    <3>1. 3 \in 1 .. 3
      OBVIOUS
    <3>2. QED
      BY <1>2, <1>7, <3>1, Zenon
  <2>2. \A k \in given : 3 <= k
    BY <1>1, <2>1
  <2>3. QED
    BY <1>4, <1>7, <2>1, <2>2, Zenon DEF FirstNonEmpty
<1>8. CASE texts[1] = "" /\ texts[2] = "" /\ texts[3] = ""
  <2>1. 1 \notin given /\ 2 \notin given /\ 3 \notin given
    BY <1>2, <1>8, Zenon
  <2>2. given = {}
    BY <1>1, <2>1
  <2>3. QED
    BY <1>3, <1>8, <2>2, Zenon DEF FirstNonEmpty
<1>9. QED
  BY <1>5, <1>6, <1>7, <1>8, Zenon

\* The company of a role is what it says, or its group, or the company entity
\* that the role, or else the group, refers to.
THEOREM CompanyIsFound == Spec => []CompanyFound
<1>1. ASSUME IInv, Ok, NEW p \in Held
      PROVE  LET role == At(RoleAt(p))
                 group == At(Groups[p[1]])
                 company == IF Good(role.org) THEN role.org ELSE group.org
                 name == IF Good(company) THEN At(company).name ELSE ""
                 shown == outcome.sections["experience"][Ordinal(Held, p)]
             IN  shown.company = FirstGiven(<<role.label, group.label, name>>)
  <2> DEFINE g == NewGraph(dash)
             role == At(RoleAt(p))
             group == At(Groups[p[1]])
             company == IF Good(role.org) THEN role.org ELSE group.org
             name == IF Good(company) THEN At(company).name ELSE ""
             shown == outcome.sections["experience"][Ordinal(Held, p)]
  <2>1. shown = Role(g, group, role)
    BY <1>1, ShownInOrder
  <2>2. \A urn : NameAt(g, urn) = IF Good(urn) THEN At(urn).name ELSE ""
    BY <1>1, LookedUp DEF NameAt, IInv, ResponsesOK
  <2>3. \A urn : Good(urn) <=> Resolves(g, urn)
    BY <1>1, LookedUp DEF IInv, ResponsesOK
  <2> HIDE DEF g, role, group, shown
  <2>4. shown.company = FirstNonEmpty(FirstNonEmpty(role.label, group.label), name)
    BY <2>1, <2>2, <2>3 DEF Role
  <2> HIDE DEF name
  <2>5. shown.company = FirstGiven(<<role.label, group.label, name>>)
    <3> DEFINE texts == <<role.label, group.label, name>>
    <3>1. FirstGiven(texts) = FirstNonEmpty(FirstNonEmpty(role.label, group.label), name)
      <4>1. /\ DOMAIN texts = 1 .. 3
            /\ texts[1] = role.label /\ texts[2] = group.label /\ texts[3] = name
        OBVIOUS
      <4> HIDE DEF texts
      <4>2. QED
        BY <4>1, FirstOfThree
    <3>2. QED
      BY <2>4, <3>1
  <2>6. QED
    BY <2>5 DEF role, group, shown, name
<1>2. IInv => CompanyFound
  BY <1>1 DEF CompanyFound
<1>3. QED
  BY <1>2, Inductive, PTL

-----------------------------------------------------------------------------
(* A section rests on what can be reached from its pointer.                *)

\* Two graphs that lead to the same from each of some urns.
Agree(g, h, urns) ==
  \A u \in urns : /\ Resolves(g, u) <=> Resolves(h, u)
                  /\ Resolves(g, u) => g.byUrn[u] = h.byUrn[u]

\* All that is mentioned where some urns lead to is among others.
Leads(g, urns, next) ==
  \A u \in urns : Resolves(g, u) => Mentions(g.byUrn[u]) \subseteq next

\* What a urn leads to is an entity.
LeadsToEntities(g) == \A u : Resolves(g, u) => IsEntity(g.byUrn[u])

\* One hop more is the same in two responses that have the same behind what the
\* hop stays in.
LEMMA SameHop ==
  ASSUME NEW A, NEW B, NEW all, NEW more, Behind(A, all) = Behind(B, more),
         NEW urns, urns \subseteq all, urns \subseteq more
  PROVE  Hop(A, urns) = Hop(B, urns)
<1>1. Behind(A, urns) = {e \in Behind(A, all) : e.urn \in urns}
  BY DEF Behind
<1>2. Behind(B, urns) = {e \in Behind(B, more) : e.urn \in urns}
  BY DEF Behind
<1>3. Behind(A, urns) = Behind(B, urns)
  BY <1>1, <1>2
<1>4. QED
  BY <1>3 DEF Hop

LEMMA HopGrows ==
  ASSUME NEW A, NEW urns
  PROVE  urns \subseteq Hop(A, urns)
BY DEF Hop

\* So what can be reached in four hops is the same.
LEMMA SameReach ==
  ASSUME NEW A, NEW B, NEW pointer,
         Behind(A, Reach(A, pointer)) = Behind(B, Reach(B, pointer))
  PROVE  Reach(A, pointer) = Reach(B, pointer)
<1> DEFINE a1 == Hop(A, {pointer})  a2 == Hop(A, a1)  a3 == Hop(A, a2)
           b1 == Hop(B, {pointer})  b2 == Hop(B, b1)  b3 == Hop(B, b2)
           all == Reach(A, pointer)
           more == Reach(B, pointer)
<1>1. /\ {pointer} \subseteq a1 /\ a1 \subseteq a2 /\ a2 \subseteq a3 /\ a3 \subseteq all
      /\ all = Hop(A, a3)
  BY HopGrows DEF Reach
<1>2. /\ {pointer} \subseteq b1 /\ b1 \subseteq b2 /\ b2 \subseteq b3 /\ b3 \subseteq more
      /\ more = Hop(B, b3)
  BY HopGrows DEF Reach
<1>3. ASSUME NEW urns, urns \subseteq all, urns \subseteq more
      PROVE  Hop(A, urns) = Hop(B, urns)
  BY <1>3, SameHop
<1>4. a1 = b1
  <2>1. {pointer} \subseteq all /\ {pointer} \subseteq more
    BY <1>1, <1>2, Zenon
  <2>2. QED
    BY <1>3, <2>1
<1>5. a2 = b2
  <2>1. a1 \subseteq all /\ a1 \subseteq more
    BY <1>1, <1>2, <1>4, Zenon
  <2>2. Hop(A, a1) = Hop(B, a1)
    BY <1>3, <2>1
  <2>3. QED
    BY <1>4, <2>2
<1>6. a3 = b3
  <2>1. a2 \subseteq all /\ a2 \subseteq more
    BY <1>1, <1>2, <1>5, Zenon
  <2>2. Hop(A, a2) = Hop(B, a2)
    BY <1>3, <2>1
  <2>3. QED
    BY <1>5, <2>2
<1>7. QED
  <2>1. a3 \subseteq all /\ a3 \subseteq more
    BY <1>1, <1>2, <1>6, Zenon
  <2>2. Hop(A, a3) = Hop(B, a3)
    BY <1>3, <2>1
  <2>3. QED
    BY <1>1, <1>2, <1>6, <2>2

\* Two responses that have the same entities with some urns have graphs that
\* lead to the same from those.
LEMMA SameEntities ==
  ASSUME NEW A, IsResponse(A), NEW B, IsResponse(B), NEW urns, Behind(A, urns) = Behind(B, urns)
  PROVE  Agree(NewGraph(A), NewGraph(B), urns)
<1> DEFINE g == NewGraph(A)
           h == NewGraph(B)
<1>1. ASSUME NEW C, IsResponse(C), NEW D, IsResponse(D), Behind(C, urns) = Behind(D, urns),
             NEW u \in urns, Resolves(NewGraph(C), u)
      PROVE  Resolves(NewGraph(D), u) /\ NewGraph(C).byUrn[u] = NewGraph(D).byUrn[u]
  <2> DEFINE gC == NewGraph(C)
  <2>1. u # NoUrn /\ \E i \in DOMAIN C.included :
          C.included[i].urn = u /\ C.included[i].shape = "good" /\ gC.byUrn[u] = C.included[i]
    BY <1>1, Resolving
  <2>2. PICK i \in DOMAIN C.included :
          C.included[i].urn = u /\ C.included[i].shape = "good" /\ gC.byUrn[u] = C.included[i]
    BY <2>1
  <2>3. C.included[i] \in Behind(C, urns)
    BY <1>1, <2>2, <2>1 DEF Behind, ToSet
  <2>4. PICK j \in DOMAIN D.included : D.included[j] = C.included[i]
    BY <1>1, <2>3 DEF Behind, ToSet
  <2>5. Resolves(NewGraph(D), D.included[j].urn)
        /\ NewGraph(D).byUrn[D.included[j].urn] = D.included[j]
    BY <1>1, <2>2, <2>4, <2>1, Resolving
  <2>6. QED
    BY <2>2, <2>4, <2>5
<1>2. \A u \in urns : Resolves(g, u) => Resolves(h, u) /\ g.byUrn[u] = h.byUrn[u]
  BY <1>1
<1>3. \A u \in urns : Resolves(h, u) => Resolves(g, u)
  BY <1>1
<1>4. QED
  BY <1>2, <1>3 DEF Agree

\* A hop has what is mentioned where the urns before it lead.
LEMMA HopsLead ==
  ASSUME NEW A, IsResponse(A), NEW urns
  PROVE  Leads(NewGraph(A), urns, Hop(A, urns)) /\ LeadsToEntities(NewGraph(A))
<1> DEFINE g == NewGraph(A)
<1>1. \A u : Resolves(g, u) => u # NoUrn /\ \E i \in DOMAIN A.included :
        A.included[i].urn = u /\ A.included[i].shape = "good" /\ g.byUrn[u] = A.included[i]
  BY Resolving
<1> HIDE DEF g
<1>2. ASSUME NEW u \in urns, Resolves(g, u)
      PROVE  Mentions(g.byUrn[u]) \subseteq Hop(A, urns)
  <2>1. g.byUrn[u] \in Behind(A, urns)
    BY <1>1, <1>2 DEF Behind, ToSet
  <2>2. QED
    BY <2>1 DEF Hop
<1>3. LeadsToEntities(g)
  BY <1>1 DEF LeadsToEntities, IsResponse
<1>4. QED
  BY <1>2, <1>3 DEF Leads, g

\* The same urns lead to the same entities.
LEMMA SameResolved ==
  ASSUME NEW g, NEW h, NEW urns, IsList(urns), Agree(g, h, ToSet(urns))
  PROVE  /\ ResolveAll(g, urns) = ResolveAll(h, urns)
         /\ \A k \in DOMAIN ResolveAll(g, urns) : \E u \in ToSet(urns) :
              Resolves(g, u) /\ ResolveAll(g, urns)[k] = g.byUrn[u]
<1> DEFINE places == Resolved(g, urns)
           kept == Keep(urns, places)
<1>1. \A i \in DOMAIN urns : urns[i] \in ToSet(urns)
  BY DEF ToSet
<1>2. Resolved(h, urns) = places
  BY <1>1 DEF Resolved, Agree
<1>3. /\ ResolveAll(g, urns) = [k \in DOMAIN kept |-> g.byUrn[kept[k]]]
      /\ ResolveAll(h, urns) = [k \in DOMAIN kept |-> h.byUrn[kept[k]]]
  BY <1>2 DEF ResolveAll
<1>4. ASSUME NEW k \in DOMAIN kept
      PROVE  \E u \in ToSet(urns) : Resolves(g, u) /\ kept[k] = u
  <2>1. places \in SUBSET (DOMAIN urns)
    BY DEF Resolved
  <2>2. places \in SUBSET Nat /\ IsFiniteSet(places)
    <3> HIDE DEF places
    <3>1. QED
      BY <2>1, PlacesOfList
  <2>3. \A i \in places : Resolves(g, urns[i])
    BY DEF Resolved
  <2> HIDE DEF places
  <2>4. DOMAIN kept = 1 .. Cardinality(places)
    BY <2>2, KeepIsASequence
  <2>5. k \in 1 .. Cardinality(places)
    BY <1>4, <2>4
  <2>6. \E i \in places : Rank(places, i) = k /\ kept[k] = urns[i]
    BY <2>2, <2>5, KeepComesFrom
  <2>7. PICK i \in places : kept[k] = urns[i]
    BY <2>6
  <2>8. QED
    BY <1>1, <2>1, <2>3, <2>7
<1> HIDE DEF kept
<1>5. \A k \in DOMAIN kept : g.byUrn[kept[k]] = h.byUrn[kept[k]]
  BY <1>4 DEF Agree
<1>6. QED
  BY <1>3, <1>4, <1>5

\* A pointer leads to the same collection, whose entries are led to by what is
\* mentioned there.
LEMMA SameCollection ==
  ASSUME NEW g, LeadsToEntities(g), NEW h, NEW urns, NEW next, Leads(g, urns, next),
         Agree(g, h, urns), Agree(g, h, next), NEW pointer \in urns
  PROVE  /\ Collection(g, pointer) = Collection(h, pointer)
         /\ \A k \in DOMAIN Collection(g, pointer) : \E u \in next :
              Resolves(g, u) /\ Collection(g, pointer)[k] = g.byUrn[u]
<1>1. CASE Resolves(g, pointer)
  <2> DEFINE listed == g.byUrn[pointer].elements
  <2>1. IsList(listed) /\ ToSet(listed) \subseteq next
    BY <1>1 DEF LeadsToEntities, IsEntity, Leads, Mentions
  <2>2. /\ Collection(g, pointer) = ResolveAll(g, listed)
        /\ Collection(h, pointer) = ResolveAll(h, listed)
    BY <1>1 DEF Collection, Agree
  <2> HIDE DEF listed
  <2>3. Agree(g, h, ToSet(listed))
    BY <2>1 DEF Agree
  <2>4. QED
    BY <2>1, <2>2, <2>3, SameResolved
<1>2. CASE ~Resolves(g, pointer)
  <2>1. Collection(g, pointer) = <<>> /\ Collection(h, pointer) = <<>>
    BY <1>2 DEF Collection, Agree
  <2>2. \A s : s = <<>> => DOMAIN s = {}
    BY ShortLists
  <2>3. QED
    BY <2>1, <2>2
<1>3. QED
  BY <1>1, <1>2

LEMMA SameName ==
  ASSUME NEW g, NEW h, NEW urns, Agree(g, h, urns), NEW u \in urns
  PROVE  NameAt(g, u) = NameAt(h, u)
BY DEF NameAt, Agree

\* The roles of a group are the same.
LEMMA SameRoles ==
  ASSUME NEW g, LeadsToEntities(g), NEW h, NEW s2, NEW s3, NEW s4,
         Leads(g, s2, s3), Leads(g, s3, s4),
         Agree(g, h, s2), Agree(g, h, s3), Agree(g, h, s4),
         NEW group, group.roles \in s2, group.org \in s2
  PROVE  RolesOf(g, group) = RolesOf(h, group)
<1> DEFINE roles == Collection(g, group.roles)
<1>1. /\ Collection(h, group.roles) = roles
      /\ \A j \in DOMAIN roles : \E u \in s3 : Resolves(g, u) /\ roles[j] = g.byUrn[u]
  BY SameCollection
<1>2. /\ RolesOf(g, group) = [j \in DOMAIN roles |-> Role(g, group, roles[j])]
      /\ RolesOf(h, group) = [j \in DOMAIN roles |-> Role(h, group, roles[j])]
  BY <1>1 DEF RolesOf
<1> HIDE DEF roles
<1>3. ASSUME NEW j \in DOMAIN roles
      PROVE  Role(g, group, roles[j]) = Role(h, group, roles[j])
  <2>1. roles[j].org \in s4
    BY <1>1 DEF Leads, Mentions
  <2>2. Resolves(g, roles[j].org) <=> Resolves(h, roles[j].org)
    BY <2>1 DEF Agree
  <2>3. /\ NameAt(g, roles[j].org) = NameAt(h, roles[j].org)
        /\ NameAt(g, group.org) = NameAt(h, group.org)
    BY <2>1, SameName
  <2>4. QED
    BY <2>2, <2>3 DEF Role
<1>4. QED
  BY <1>2, <1>3

\* Those credited are the same.
LEMMA SameContributors ==
  ASSUME NEW g, NEW h, NEW urns, Agree(g, h, urns),
         NEW people, \A x \in ToSet(people) : x.profile \in urns
  PROVE  ContributorNames(g, people) = ContributorNames(h, people)
<1>1. \A i \in DOMAIN people : NameAt(g, people[i].profile) = NameAt(h, people[i].profile)
  BY SameName DEF ToSet
<1> DEFINE named(r) == [i \in DOMAIN people |->
                          IF people[i].custom THEN people[i].name ELSE NameAt(r, people[i].profile)]
<1>2. named(g) = named(h)
  BY <1>1
<1>3. QED
  BY <1>2 DEF ContributorNames

\* What is shown of the entries of a section is the same.
LEMMA SameEntries ==
  ASSUME NEW g, LeadsToEntities(g), NEW h, NEW s0, NEW s1, NEW s2,
         Leads(g, s0, s1), Leads(g, s1, s2),
         Agree(g, h, s0), Agree(g, h, s1), Agree(g, h, s2),
         NEW a, NEW b, NEW s, a.sections[s] = b.sections[s], a.sections[s] \in s0
  PROVE  Entries(g, a, s) = Entries(h, b, s)
<1> DEFINE all == Collection(g, a.sections[s])
           shown(r, e) ==
             [ name |-> e.name,
               organisation |-> IF s \in JoinedSections
                                THEN FirstNonEmpty(e.label, NameAt(r, e.org)) ELSE "",
               people |-> IF s \in CreditedSections THEN ContributorNames(r, e.people) ELSE <<>> ]
<1>1. /\ Collection(h, b.sections[s]) = all
      /\ \A i \in DOMAIN all : \E u \in s1 : Resolves(g, u) /\ all[i] = g.byUrn[u]
  BY SameCollection
<1>2. /\ Entries(g, a, s) = [i \in DOMAIN all |-> shown(g, all[i])]
      /\ Entries(h, b, s) = [i \in DOMAIN all |-> shown(h, all[i])]
  BY <1>1 DEF Entries
<1> HIDE DEF all
<1>3. ASSUME NEW i \in DOMAIN all
      PROVE  shown(g, all[i]) = shown(h, all[i])
  <2>1. Mentions(all[i]) \subseteq s2
    BY <1>1 DEF Leads
  <2>2. NameAt(g, all[i].org) = NameAt(h, all[i].org)
    BY <2>1, SameName DEF Mentions
  <2>3. \A x \in ToSet(all[i].people) : x.profile \in s2
    BY <2>1 DEF Mentions
  <2>4. ContributorNames(g, all[i].people) = ContributorNames(h, all[i].people)
    BY <2>3, SameContributors
  <2>5. QED
    BY <2>2, <2>4
<1> HIDE DEF shown
<1>4. QED
  BY <1>2, <1>3

LEMMA SameSkills ==
  ASSUME NEW g, LeadsToEntities(g), NEW h, NEW s0, NEW s1, Leads(g, s0, s1),
         Agree(g, h, s0), Agree(g, h, s1),
         NEW a, NEW b, a.sections["skills"] = b.sections["skills"], a.sections["skills"] \in s0
  PROVE  Skills(g, a) = Skills(h, b)
<1>1. Collection(g, a.sections["skills"]) = Collection(h, b.sections["skills"])
  BY SameCollection
<1>2. QED
  BY <1>1 DEF Skills

\* The roles are the same, group by group.
LEMMA SameGroups ==
  ASSUME NEW g, LeadsToEntities(g), NEW h, NEW s0, NEW s1, NEW s2, NEW s3, NEW s4,
         Leads(g, s0, s1), Leads(g, s1, s2), Leads(g, s2, s3), Leads(g, s3, s4),
         Agree(g, h, s0), Agree(g, h, s1), Agree(g, h, s2), Agree(g, h, s3), Agree(g, h, s4),
         NEW a, NEW b, a.sections["experience"] = b.sections["experience"],
         a.sections["experience"] \in s0
  PROVE  Grouped(g, a) = Grouped(h, b)
<1> DEFINE groups == Collection(g, a.sections["experience"])
<1>1. /\ Collection(h, b.sections["experience"]) = groups
      /\ \A i \in DOMAIN groups : \E u \in s1 : Resolves(g, u) /\ groups[i] = g.byUrn[u]
  BY SameCollection
<1>2. /\ Grouped(g, a) = [i \in DOMAIN groups |-> RolesOf(g, groups[i])]
      /\ Grouped(h, b) = [i \in DOMAIN groups |-> RolesOf(h, groups[i])]
  BY <1>1 DEF Grouped
<1> HIDE DEF groups
<1>3. ASSUME NEW i \in DOMAIN groups
      PROVE  RolesOf(g, groups[i]) = RolesOf(h, groups[i])
  <2>1. groups[i].roles \in s2 /\ groups[i].org \in s2
    BY <1>1 DEF Leads, Mentions
  <2>2. QED
    BY <2>1, SameRoles
<1>4. QED
  BY <1>2, <1>3

\* The entity with a urn is the only one.
LEMMA OnlyOne ==
  ASSUME NEW body, IsResponse(body), NEW e \in ToSet(body.included), e.urn # NoUrn
  PROVE  Behind(body, {e.urn}) = {e}
<1>1. PICK i \in DOMAIN body.included : body.included[i] = e
  BY DEF ToSet
<1>2. \A j \in DOMAIN body.included : body.included[j].urn = e.urn => body.included[j] = e
  BY <1>1 DEF IsResponse
<1>3. QED
  BY <1>2 DEF Behind, ToSet

\* Two responses that have the same pointer to a section and the same entities
\* to be reached from it give the same section.
LEMMA SameSection ==
  ASSUME NEW A, IsResponse(A), NEW B, IsResponse(B), NEW s \in SectionNames,
         NEW a \in ToSet(A.included), NEW b \in ToSet(B.included), a.urn = Subject, b.urn = Subject,
         PointersTo(A, s) = PointersTo(B, s), Basis(A, s) = Basis(B, s),
         s = "experience" => FlattenSeq(Grouped(NewGraph(A), a)) # <<>>
  PROVE  SectionsOf(NewGraph(A), a)[s] = SectionsOf(NewGraph(B), b)[s]
<1> DEFINE g == NewGraph(A)
           h == NewGraph(B)
           pointer == a.sections[s]
           s0 == {pointer}
           s1 == Hop(A, s0)  s2 == Hop(A, s1)  s3 == Hop(A, s2)
           s4 == Reach(A, pointer)
<1>1. /\ PointersTo(A, s) = {pointer} /\ PointersTo(B, s) = {pointer}
      /\ pointer = b.sections[s]
  <2>1. Behind(A, {Subject}) = {a} /\ Behind(B, {Subject}) = {b}
    BY OnlyOne, MemberAssumption
  <2>2. PointersTo(A, s) = {a.sections[s]} /\ PointersTo(B, s) = {b.sections[s]}
    BY <2>1 DEF PointersTo
  <2>3. QED
    BY <2>2
<1>2. Behind(A, Reach(A, pointer)) = Behind(B, Reach(B, pointer))
  <2>1. ASSUME NEW C PROVE UNION {Reach(C, u) : u \in {pointer}} = Reach(C, pointer)
    OBVIOUS
  <2> HIDE DEF pointer
  <2>2. QED
    BY <1>1, <2>1 DEF Basis
<1>3. Agree(g, h, s4)
  BY <1>2, SameReach, SameEntities
<1>4. s0 \subseteq s1 /\ s1 \subseteq s2 /\ s2 \subseteq s3 /\ s3 \subseteq s4 /\ s4 = Hop(A, s3)
  BY HopGrows DEF Reach
<1>5. /\ Leads(g, s0, s1) /\ Leads(g, s1, s2) /\ Leads(g, s2, s3) /\ Leads(g, s3, s4)
      /\ LeadsToEntities(g)
  BY <1>4, HopsLead
<1>6. pointer \in s0
  OBVIOUS
<1> HIDE DEF g, h, s0, s1, s2, s3, s4
<1>7. Agree(g, h, s0) /\ Agree(g, h, s1) /\ Agree(g, h, s2) /\ Agree(g, h, s3)
  BY <1>3, <1>4 DEF Agree
<1>8. CASE s = "experience"
  <2>1. Grouped(g, a) = Grouped(h, b)
    BY <1>1, <1>3, <1>5, <1>6, <1>7, <1>8, SameGroups
  <2>2. Positions(g, a) = Positions(h, b)
    BY <1>8, <2>1, PositionsAre DEF g
  <2>3. QED
    BY <1>8, <2>2 DEF SectionsOf, g, h
<1>9. CASE s = "skills"
  <2>1. Skills(g, a) = Skills(h, b)
    BY <1>1, <1>5, <1>6, <1>7, <1>9, SameSkills
  <2>2. QED
    BY <1>9, <2>1 DEF SectionsOf, g, h
<1>10. CASE s # "experience" /\ s # "skills"
  <2>1. Entries(g, a, s) = Entries(h, b, s)
    BY <1>1, <1>5, <1>6, <1>7, SameEntries
  <2>2. QED
    BY <1>10, <2>1 DEF SectionsOf, g, h
<1>11. QED
  BY <1>8, <1>9, <1>10

\* The sections of a profile are those of the member's entity.
LEMMA SectionsAreTheMembers ==
  ASSUME NEW body, IsResponse(body), IsAboutMember(body), NEW slug \in Slugs, NEW praise,
         FetchProfile(slug, body, praise).code = "ok"
  PROVE  \E a \in ToSet(body.included) :
           /\ a.urn = Subject /\ a.shape = "good"
           /\ FetchProfile(slug, body, praise).sections = SectionsOf(NewGraph(body), a)
<1> DEFINE o == FetchProfile(slug, body, praise)
           all == body.included
<1>1. PICK i \in DOMAIN all :
        /\ all[i].urn = Subject /\ all[i].shape = "good"
        /\ o = Assemble(NewGraph(body), all[i], slug, praise)
  <2> DEFINE led(i) == /\ all[i].urn = Subject /\ all[i].shape = "good"
                       /\ \/ Subject \in ToSet(body.elements)
                          \/ Folded[all[i].slug] = Folded[slug]
  <2>1. /\ body # Garbage /\ \E i \in DOMAIN all : led(i) /\ all[i].name # ""
        /\ \A i \in DOMAIN all : body # Garbage /\ led(i) /\ all[i].name # "" =>
             o = Assemble(NewGraph(body), all[i], slug, praise)
    BY ProfileIsTheMembers
  <2> HIDE DEF o
  <2>2. QED
    BY <2>1
<1> HIDE DEF o
<1>2. HasFields(o, NewGraph(body), all[i], slug, praise)
  BY <1>1, AssembledFields
<1>3. all[i] \in ToSet(all)
  BY DEF ToSet
<1>4. QED
  BY <1>1, <1>2, <1>3 DEF HasFields, o

\* "One weak section cannot fail it": a change of the response leaves a section
\* as it was unless it changes what can be reached from the pointer to it.
THEOREM WeakSectionsDoNotSpread == Spec => SectionsAreIndependent
<1>1. ASSUME IInv, IInv', NEW s \in SectionNames PROVE SectionStands(s)
  <2> SUFFICES ASSUME Ok, Ok', PointersTo(dash, s) = PointersTo(dash', s),
                      Basis(dash, s) = Basis(dash', s), s = "experience" => Held # {}
               PROVE  outcome'.sections[s] = outcome.sections[s]
    BY DEF SectionStands
  <2>1. /\ IsResponse(dash) /\ IsAboutMember(dash) /\ asked \in Slugs /\ ResponsesOK
        /\ outcome = FetchProfile(asked, dash, recs) /\ outcome.code = "ok"
    BY <1>1 DEF IInv, TypeOK, ResponsesOK, Ok
  <2>2. /\ IsResponse(dash') /\ IsAboutMember(dash') /\ asked' \in Slugs
        /\ outcome' = FetchProfile(asked', dash', recs') /\ outcome'.code = "ok"
    BY <1>1 DEF IInv, TypeOK, ResponsesOK, Ok
  <2>3. PICK a \in ToSet(dash.included) :
          /\ a.urn = Subject /\ a.shape = "good"
          /\ outcome.sections = SectionsOf(NewGraph(dash), a)
    BY <2>1, SectionsAreTheMembers
  <2>4. PICK b \in ToSet(dash'.included) :
          b.urn = Subject /\ outcome'.sections = SectionsOf(NewGraph(dash'), b)
    BY <2>2, SectionsAreTheMembers
  <2>5. s = "experience" => FlattenSeq(Grouped(NewGraph(dash), a)) # <<>>
    <3> SUFFICES ASSUME Held # {} PROVE FlattenSeq(Grouped(NewGraph(dash), a)) # <<>>
      OBVIOUS
    <3> DEFINE flat == FlattenSeq(Grouped(NewGraph(dash), a))
    <3>1. Good(Subject) /\ At(Subject) = a
      BY <2>1, <2>3, LookedUp, MemberAssumption DEF ToSet
    <3>2. Len(flat) = Cardinality(Held) /\ IsFiniteSet(Held)
      BY <2>1, <3>1, ListedInOrder
    <3>3. Cardinality(Held) # 0
      BY <3>2, FS_EmptySet
    <3>4. \A t : t = <<>> => Len(t) = 0
      OBVIOUS
    <3> HIDE DEF flat
    <3>5. flat # <<>>
      BY <3>2, <3>3, <3>4
    <3>6. QED
      BY <3>5 DEF flat
  <2>6. SectionsOf(NewGraph(dash), a)[s] = SectionsOf(NewGraph(dash'), b)[s]
    BY <2>1, <2>2, <2>3, <2>4, <2>5, SameSection
  <2>7. QED
    BY <2>3, <2>4, <2>6
<1>2. IInv /\ IInv' => [\A s \in SectionNames : SectionStands(s)]_vars
  BY <1>1
<1>3. QED
  BY <1>2, Inductive, PTL DEF SectionsAreIndependent
=============================================================================
