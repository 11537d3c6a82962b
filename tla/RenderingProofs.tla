-------------------------- MODULE RenderingProofs ---------------------------
(***************************************************************************)
(* Proofs about Rendering, for any sections, config files, overrides and   *)
(* profiles: the cache and the defaults pass from request to request       *)
(* unharmed, and what an answer leaves empty is explained by it.           *)
(***************************************************************************)
EXTENDS Rendering, SequenceLemmas

-----------------------------------------------------------------------------
(* What the operators return.                                              *)

\* A rendering names what is on and what of it is blank: a list is shown empty,
\* and a value under "profile" not at all, just when it is called unavailable.
LEMMA RenderingExplainsItself ==
  ASSUME NEW set, NEW profile, NEW cached, NEW s \in Sections
  PROVE  LET doc == ToProfileResult(set, profile, cached)
             returned == s \in doc.sectionsReturned.names
             unavailable == s \in doc.sectionsUnavailable
         IN  /\ returned = Enabled(set, s)
             /\ unavailable <=> returned /\ profile[s] # "data"
             /\ s \in DOMAIN doc.values <=> returned /\ s \in TopLevel
             /\ s \in DOMAIN doc.values => (doc.values[s] = "[]" <=> unavailable)
             /\ s \in DOMAIN doc.profile <=> returned /\ s \in ProfileLevel /\ ~unavailable
<1> DEFINE doc == ToProfileResult(set, profile, cached)
           on == {t \in Sections : Enabled(set, t)}
<1>1. /\ doc.sectionsUnavailable = {t \in on : profile[t] # "data"}
      /\ doc.sectionsReturned.names = on
      /\ doc.values = [t \in on \cap TopLevel |-> List(profile[t])]
      /\ doc.profile = ProfileCore(set, profile)
  BY DEF ToProfileResult, Appended
<1> HIDE DEF doc
<1>2. (s \in on) = Enabled(set, s)
  BY DEF Enabled
<1>3. s \in doc.sectionsUnavailable <=> s \in on /\ profile[s] # "data"
  BY <1>1
<1>4. s \in DOMAIN doc.values => (doc.values[s] = "[]" <=> s \in doc.sectionsUnavailable)
  BY <1>1, <1>3 DEF List
<1>5. s \in DOMAIN doc.profile <=> s \in on /\ s \in ProfileLevel /\ profile[s] = "data"
  <2>1. s \in DOMAIN doc.profile <=>
          s \in ProfileLevel /\ Enabled(set, s) /\ CoreValue(s, profile[s]) = "data"
    BY <1>1 DEF ProfileCore
  <2>2. CoreValue(s, profile[s]) = "data" <=> profile[s] = "data"
    BY DEF CoreValue, List, Optional
  <2>3. QED
    BY <2>1, <2>2
<1>6. QED
  BY <1>1, <1>2, <1>3, <1>4, <1>5 DEF doc

\* The keys are those of the sections that are on and the two around them, each
\* once, in the order of AllSections.
LEMMA KeysInOrder ==
  ASSUME NEW on \in SUBSET Sections
  PROVE  LET top == TopLevelKeys(on)
         IN  /\ IsInjective(top)
             /\ ToSet(top) = on \cup {"profile", "meta"}
             /\ \A i, j \in DOMAIN AllSections :
                  i < j /\ {AllSections[i], AllSections[j]} \subseteq on
                    => \E k, l \in DOMAIN top :
                         k < l /\ top[k] = AllSections[i] /\ top[l] = AllSections[j]
<1> DEFINE places == {i \in DOMAIN AllSections : AllSections[i] \in on}
           kept == Keep(AllSections, places)
           c == Cardinality(places)
           top == TopLevelKeys(on)
<1>1. /\ DOMAIN AllSections = 1 .. Len(AllSections)
      /\ places \in SUBSET Nat /\ IsFiniteSet(places)
  <2>1. /\ Len(AllSections) \in Nat /\ DOMAIN AllSections = 1 .. Len(AllSections)
        /\ places \in SUBSET (1 .. Len(AllSections))
    BY SectionsAssumption
  <2>2. QED
    BY <2>1, PlacesAreFinite
<1> HIDE DEF places
<1>2. c \in Nat /\ DOMAIN kept = 1 .. c /\ Len(kept) = c
  BY <1>1, KeepIsASequence
<1>3. ASSUME NEW k \in 1 .. c
      PROVE  \E i \in places : Rank(places, i) = k /\ kept[k] = AllSections[i]
  BY <1>1, KeepComesFrom
<1>4. \A i \in places : Rank(places, i) \in 1 .. c /\ kept[Rank(places, i)] = AllSections[i]
  BY <1>1, RankIsANumber, KeepAtRank
<1>5. \A k \in 1 .. c : kept[k] \in on
  BY <1>3 DEF places
<1>6. \A k, l \in 1 .. c : kept[k] = kept[l] => k = l
  BY <1>3, SectionsAssumption DEF IsInjective, places
<1>7. kept \in Seq(Sections)
  <2>1. \A i \in places : AllSections[i] \in Sections
    BY DEF places
  <2>2. QED
    BY <1>1, <2>1, KeepType
<1> HIDE DEF kept, c
<1>8. /\ DOMAIN top = 1 .. c + 2
      /\ top[1] = "profile" /\ top[c + 2] = "meta"
      /\ \A k \in 1 .. c : top[k + 1] = kept[k]
  <2> DEFINE S == Sections \cup {"profile", "meta"}
             front == <<"profile">> \o kept
  <2>1. kept \in Seq(S)
    BY <1>7
  <2>2. /\ front \in Seq(S) /\ Len(front) = c + 1
        /\ front[1] = "profile" /\ \A k \in 1 .. c : front[k + 1] = kept[k]
    BY <1>2, <2>1
  <2>3. top = front \o <<"meta">>
    BY DEF TopLevelKeys, kept, places
  <2> HIDE DEF front
  <2>4. QED
    BY <1>2, <2>2, <2>3
<1> HIDE DEF top
<1>9. \A k \in DOMAIN top : k = 1 \/ k = c + 2 \/ (k - 1 \in 1 .. c /\ top[k] = kept[k - 1])
  BY <1>2, <1>8
<1>10. {"profile", "meta"} \cap on = {}
  BY SectionsAssumption
<1>11. IsInjective(top)
  <2>1. ASSUME NEW k \in DOMAIN top, NEW l \in DOMAIN top, top[k] = top[l] PROVE k = l
    BY <1>2, <1>5, <1>6, <1>8, <1>9, <1>10, <2>1
  <2>2. QED
    BY <2>1 DEF IsInjective
<1>12. ToSet(top) = on \cup {"profile", "meta"}
  <2>1. ASSUME NEW s \in on PROVE \E k \in DOMAIN top : top[k] = s
    <3>1. PICK i \in DOMAIN AllSections : AllSections[i] = s
      BY DEF Sections, ToSet
    <3>2. i \in places
      BY <3>1 DEF places
    <3>3. /\ Rank(places, i) + 1 \in DOMAIN top
          /\ top[Rank(places, i) + 1] = s
      BY <1>2, <1>4, <1>8, <3>1, <3>2
    <3>4. QED
      BY <3>3
  <2>2. \A k \in DOMAIN top : top[k] \in on \cup {"profile", "meta"}
    BY <1>5, <1>8, <1>9
  <2>3. 1 \in DOMAIN top /\ c + 2 \in DOMAIN top
    BY <1>2, <1>8
  <2>4. QED
    BY <1>8, <2>1, <2>2, <2>3 DEF ToSet
<1>13. ASSUME NEW i \in DOMAIN AllSections, NEW j \in DOMAIN AllSections, i < j,
              {AllSections[i], AllSections[j]} \subseteq on
       PROVE  \E k, l \in DOMAIN top :
                k < l /\ top[k] = AllSections[i] /\ top[l] = AllSections[j]
  <2>1. i \in places /\ j \in places
    BY <1>13 DEF places
  <2>2. Rank(places, i) < Rank(places, j)
    BY <1>1, <1>13, <2>1, RankIncreases
  <2>3. /\ Rank(places, i) + 1 \in DOMAIN top /\ Rank(places, j) + 1 \in DOMAIN top
        /\ top[Rank(places, i) + 1] = AllSections[i]
        /\ top[Rank(places, j) + 1] = AllSections[j]
    BY <1>2, <1>4, <1>8, <2>1
  <2>4. Rank(places, i) + 1 < Rank(places, j) + 1
    BY <1>2, <1>4, <2>1, <2>2
  <2>5. QED
    BY <2>3, <2>4
<1>14. QED
  BY <1>11, <1>12, <1>13 DEF top

\* A copy with changes applied is a section set again.
LEMMA MergeIsASet ==
  ASSUME NEW set, NEW changes,
         DOMAIN set \subseteq Sections, DOMAIN changes \subseteq Sections
  PROVE  DOMAIN Merge(set, changes) \subseteq Sections
BY DEF Merge

\* Whether a section is on after a merge is what a key of the override says or,
\* if no key names it, what the defaults say.
LEMMA MergeIsAskedFor ==
  ASSUME NEW set, NEW o, NEW wanted \in Requested(o), NEW s
  PROVE  \/ \E k \in DOMAIN o : k.name = s /\ Enabled(Merge(set, wanted), s) = o[k]
         \/ /\ \A k \in DOMAIN o : k.name # s
            /\ Enabled(Merge(set, wanted), s) = Enabled(set, s)
<1> DEFINE named == {k.name : k \in DOMAIN o}
<1>1. /\ wanted \in [named -> BOOLEAN]
      /\ \A n \in named : \E k \in DOMAIN o : k.name = n /\ wanted[n] = o[k]
  BY DEF Requested
<1>2. CASE s \in named
  <2>1. Enabled(Merge(set, wanted), s) = wanted[s]
    BY <1>1, <1>2 DEF Enabled, Merge
  <2>2. QED
    BY <1>1, <1>2, <2>1
<1>3. CASE s \notin named
  BY <1>1, <1>3 DEF Enabled, Merge
<1>4. QED
  BY <1>2, <1>3

\* What is asked for is said by the keys: of a section that no key names, nothing.
LEMMA RequestedIsSaid ==
  ASSUME NEW o, NEW set \in Requested(o), NEW s
  PROVE  /\ set \in [DOMAIN set -> BOOLEAN]
         /\ s \in DOMAIN set <=> Said(o, s) # {}
         /\ s \in DOMAIN set => Enabled(set, s) \in Said(o, s)
         /\ DOMAIN set = {} <=> DOMAIN o = {}
<1> DEFINE named == {k.name : k \in DOMAIN o}
<1>1. /\ set \in [named -> BOOLEAN] /\ DOMAIN set = named
      /\ \A n \in named : \E k \in DOMAIN o : k.name = n /\ set[n] = o[k]
  BY DEF Requested
<1>2. Said(o, s) # {} <=> s \in named
  BY DEF Said
<1>3. ASSUME s \in named PROVE Enabled(set, s) \in Said(o, s)
  <2>1. PICK k \in DOMAIN o : k.name = s /\ set[s] = o[k]
    BY <1>1, <1>3
  <2>2. Enabled(set, s) = set[s]
    BY <1>1, <1>3 DEF Enabled
  <2>3. QED
    BY <2>1, <2>2 DEF Said
<1>4. named = {} <=> DOMAIN o = {}
  OBVIOUS
<1>5. QED
  BY <1>1, <1>2, <1>3, <1>4

\* No set of sections is taken for a process that has not started.
LEMMA SetsAreNotRefused ==
  ASSUME NEW set, DOMAIN set \subseteq Sections
  PROVE  set # Refused
BY SectionsAssumption DEF Refused

\* A config file without unknown names gives a set of sections, in which a section
\* is on as the file says.
LEMMA LoadedIsSaid ==
  ASSUME NEW raw \in Configs, NEW set \in Loaded(raw)
  PROVE  \/ set = Refused
         \/ /\ \A k \in DOMAIN raw : k.name # Unknown
            /\ set \in [DOMAIN set -> BOOLEAN] /\ DOMAIN set \subseteq Sections
            /\ \A s \in Sections :
                 Enabled(set, s) \in IF Said(raw, s) # {} THEN Said(raw, s) ELSE {DOMAIN raw = {}}
<1> SUFFICES ASSUME \A k \in DOMAIN raw : k.name # Unknown
             PROVE  /\ set \in [DOMAIN set -> BOOLEAN] /\ DOMAIN set \subseteq Sections
                    /\ \A s \in Sections :
                         Enabled(set, s) \in IF Said(raw, s) # {} THEN Said(raw, s)
                                            ELSE {DOMAIN raw = {}}
  BY DEF Loaded
<1>1. PICK asked \in Requested(raw) : set = ApplyDefaults(asked)
  BY DEF Loaded
<1>2. \A s : /\ asked \in [DOMAIN asked -> BOOLEAN]
             /\ s \in DOMAIN asked <=> Said(raw, s) # {}
             /\ s \in DOMAIN asked => Enabled(asked, s) \in Said(raw, s)
             /\ DOMAIN asked = {} <=> DOMAIN raw = {}
  BY RequestedIsSaid
<1>3. CASE DOMAIN raw = {}
  <2>1. set = [s \in Sections |-> TRUE]
    BY <1>1, <1>2, <1>3 DEF ApplyDefaults, AllEnabled
  <2>2. \A s \in Sections : Said(raw, s) = {} /\ Enabled(set, s) = TRUE
    BY <1>3, <2>1 DEF Said, Enabled
  <2>3. set \in [DOMAIN set -> BOOLEAN] /\ DOMAIN set \subseteq Sections
    BY <2>1
  <2>4. QED
    BY <1>3, <2>2, <2>3
<1>4. CASE DOMAIN raw # {}
  <2>1. set = asked
    BY <1>1, <1>2, <1>4 DEF ApplyDefaults
  <2>2. DOMAIN set \subseteq Sections
    <3>1. \A k \in DOMAIN raw : k.name \in Sections
      BY InputsAssumption DEF Keys
    <3>2. QED
      BY <2>1, <3>1 DEF Requested
  <2>3. ASSUME NEW s \in Sections
        PROVE  Enabled(set, s) \in IF Said(raw, s) # {} THEN Said(raw, s) ELSE {DOMAIN raw = {}}
    <3>1. CASE s \in DOMAIN asked
      BY <1>2, <2>1, <3>1, Zenon
    <3>2. CASE s \notin DOMAIN asked
      <4>1. Said(raw, s) = {} /\ Enabled(set, s) = FALSE /\ (DOMAIN raw = {}) = FALSE
        BY <1>2, <1>4, <2>1, <3>2 DEF Enabled
      <4>2. QED
        BY <4>1
    <3>3. QED
      BY <3>1, <3>2
  <2>4. QED
    BY <1>2, <2>1, <2>2, <2>3
<1>5. QED
  BY <1>3, <1>4

-----------------------------------------------------------------------------
(* The inductive invariant.                                                *)

\* Nobody has been answered when the process starts, and the defaults are a
\* section set whatever the config file holds.
LEMMA InitInv == Init => IInv
<1> SUFFICES ASSUME Init PROVE IInv
  OBVIOUS
<1> USE DEF Init
<1>1. defaults \in {Refused} \cup UNION {[names -> BOOLEAN] : names \in SUBSET Sections}
  BY LoadedIsSaid
<1>2. TypeOK
  <2>1. \A r \in Requests : sections[r] = SharedDefaults
                             /\ DOMAIN sections[r].own \subseteq Sections
    BY DEF SharedDefaults, NoSections
  <2>2. override \in [Requests -> Overrides \cup {NoSections}]
    BY Zenon
  <2>3. QED
    BY <1>1, <2>1, <2>2 DEF TypeOK
<1>3. defaults \in Loaded(file) /\ MergedOK /\ CacheWhole /\ CachedRendersAsLive
  BY DEF MergedOK, CacheWhole, CachedRendersAsLive, Answered
<1>4. QED
  BY <1>2, <1>3 DEF IInv

\* MergeSections lets through what it understands and touches nothing shared.
LEMMA MergeSectionsInv ==
  ASSUME IInv, NEW r \in Requests, MergeSections(r)
  PROVE  IInv'
<1>1. PICK o \in Overrides :
        /\ override' = [override EXCEPT ![r] = o]
        /\ \/ /\ DOMAIN o = {}
              /\ sections' = [sections EXCEPT ![r] = SharedDefaults]
              /\ at' = [at EXCEPT ![r] = "merged"]
           \/ /\ DOMAIN o # {}
              /\ \A k \in DOMAIN o : k.name # Unknown
              /\ \E wanted \in Requested(o) :
                   sections' = [sections EXCEPT ![r] = OwnCopy(Merge(defaults, wanted))]
              /\ at' = [at EXCEPT ![r] = "merged"]
           \/ /\ \E k \in DOMAIN o : k.name = Unknown
              /\ at' = [at EXCEPT ![r] = "rejected"]
              /\ UNCHANGED sections
  BY DEF MergeSections
<1>2. UNCHANGED <<file, defaults, content, cache, document>> /\ defaults # Refused
  BY DEF MergeSections
<1>3. /\ at \in [Requests -> {"idle", "merged", "rejected", "answered"}]
      /\ override \in [Requests -> Overrides \cup {NoSections}]
      /\ DOMAIN defaults \subseteq Sections
      /\ DOMAIN sections = Requests
  BY <1>2 DEF IInv, TypeOK
<1>4. \A q \in Requests :
        /\ sections'[q].shared => sections'[q] = SharedDefaults
        /\ DOMAIN sections'[q].own \subseteq Sections
  <2> SUFFICES ASSUME NEW q \in Requests
               PROVE  /\ sections'[q].shared => sections'[q] = SharedDefaults
                      /\ DOMAIN sections'[q].own \subseteq Sections
    OBVIOUS
  <2>1. sections'[q] = sections[q] \/ sections'[q] = SharedDefaults
          \/ \E wanted \in Requested(o) :
               /\ \A k \in DOMAIN o : k.name # Unknown
               /\ sections'[q] = OwnCopy(Merge(defaults, wanted))
    BY <1>1, <1>3
  <2>2. ASSUME NEW wanted \in Requested(o), \A k \in DOMAIN o : k.name # Unknown
        PROVE  DOMAIN Merge(defaults, wanted) \subseteq Sections
    <3>1. \A k \in DOMAIN o : k.name \in Sections
      BY <2>2, InputsAssumption DEF Keys
    <3>2. DOMAIN wanted \subseteq Sections
      BY <3>1 DEF Requested
    <3>3. QED
      BY <1>3, <3>2, MergeIsASet
  <2>3. ASSUME NEW set PROVE ~OwnCopy(set).shared /\ OwnCopy(set).own = set
    BY DEF OwnCopy
  <2>4. SharedDefaults.own = NoSections /\ DOMAIN NoSections = {}
    BY DEF SharedDefaults, NoSections
  <2>5. CASE sections'[q] \in {sections[q], SharedDefaults}
    BY <2>4, <2>5 DEF IInv, TypeOK
  <2>6. CASE sections'[q] \notin {sections[q], SharedDefaults}
    BY <2>1, <2>2, <2>3, <2>6
  <2>7. QED
    BY <2>5, <2>6
<1>5. TypeOK'
  BY <1>1, <1>2, <1>3, <1>4 DEF IInv, TypeOK
<1>6. MergedOK'
  <2> SUFFICES ASSUME NEW q \in Requests, at'[q] \in {"merged", "answered"}
               PROVE  /\ \A k \in DOMAIN override'[q] : k.name # Unknown
                      /\ \/ DOMAIN override'[q] = {} /\ sections'[q] = SharedDefaults
                         \/ \E wanted \in Requested(override'[q]) :
                              sections'[q] = OwnCopy(Merge(defaults, wanted))
    BY <1>2 DEF MergedOK
  <2>1. CASE q = r
    BY <1>1, <1>3, <2>1
  <2>2. CASE q # r
    <3>1. at'[q] = at[q] /\ override'[q] = override[q] /\ sections'[q] = sections[q]
      BY <1>1, <1>3, <2>2
    <3>2. QED
      BY <3>1 DEF IInv, MergedOK
  <2>3. QED
    BY <2>1, <2>2
<1>7. CacheWhole' /\ CachedRendersAsLive'
  <2>1. Answered' \subseteq Answered /\ r \notin Answered'
    BY <1>1, <1>3 DEF Answered
  <2>2. \A q \in Answered' : SectionsOf(q)' = SectionsOf(q)
    BY <1>1, <1>2, <1>3, <2>1 DEF SectionsOf, Answered
  <2>3. QED
    BY <1>2, <2>1, <2>2 DEF IInv, CacheWhole, CachedRendersAsLive
<1>8. QED
  BY <1>2, <1>5, <1>6, <1>7 DEF IInv

\* An answer is made of the whole profile, and leaves a whole one in the cache.
LEMMA RespondInv ==
  ASSUME IInv, NEW r \in Requests, NEW cached \in BOOLEAN, at[r] = "merged",
         Respond(r, content, cached), cache' \in {cache, content}
  PROVE  IInv'
<1>1. /\ at' = [at EXCEPT ![r] = "answered"]
      /\ document' = [document EXCEPT ![r] =
                        ToProfileResult(SectionsOf(r), content, cached)]
      /\ UNCHANGED <<file, defaults, content, override, sections>>
  BY DEF Respond
<1>2. TypeOK'
  BY <1>1 DEF IInv, TypeOK
<1>3. MergedOK' /\ CacheWhole'
  BY <1>1 DEF IInv, TypeOK, MergedOK, CacheWhole
<1>4. CachedRendersAsLive'
  <2> SUFFICES ASSUME NEW q \in Answered'
               PROVE  document'[q] =
                        ToProfileResult(SectionsOf(q), content, document'[q].cached)
    BY <1>1 DEF CachedRendersAsLive, SectionsOf
  <2>1. CASE q = r
    <3>1. document'[q] = ToProfileResult(SectionsOf(q), content, cached)
      BY <1>1, <2>1 DEF IInv, TypeOK
    <3>2. document'[q].cached = cached
      BY <3>1 DEF ToProfileResult
    <3>3. QED
      BY <3>1, <3>2
  <2>2. CASE q # r
    <3>1. q \in Answered /\ document'[q] = document[q]
      BY <1>1, <2>2 DEF Answered
    <3>2. QED
      BY <3>1 DEF IInv, CachedRendersAsLive
  <2>3. QED
    BY <2>1, <2>2
<1>5. QED
  BY <1>1, <1>2, <1>3, <1>4 DEF IInv

\* Every step keeps the inductive invariant.
LEMMA StepInv == IInv /\ [Next]_vars => IInv'
<1> SUFFICES ASSUME IInv, [Next]_vars PROVE IInv'
  OBVIOUS
<1>1. ASSUME NEW r \in Requests, MergeSections(r) PROVE IInv'
  BY <1>1, MergeSectionsInv
<1>2. ASSUME NEW r \in Requests, FromCache(r) PROVE IInv'
  <2>1. cache = content
    BY <1>2 DEF FromCache, IInv, CacheWhole
  <2>2. QED
    BY <1>2, <2>1, RespondInv DEF FromCache
<1>3. ASSUME NEW r \in Requests, FromLinkedIn(r) PROVE IInv'
  BY <1>3, RespondInv DEF FromLinkedIn
<1>4. CASE UNCHANGED vars
  BY <1>4 DEF vars, IInv, TypeOK, MergedOK, CacheWhole, CachedRendersAsLive,
             Answered, SectionsOf
<1>5. QED
  BY <1>1, <1>2, <1>3, <1>4 DEF Next

\* The inductive invariant holds in every reachable state: the cache holds
\* whole profiles, and answers are made of whole profiles.
THEOREM Inductive == Spec => []IInv
BY InitInv, StepInv, PTL DEF Spec

-----------------------------------------------------------------------------
(* What follows from it.                                                   *)

\* A cached profile renders as a live one would with the sections of the caller.
THEOREM CachedIsLive == Spec => []CachedRendersAsLive
<1>1. IInv => CachedRendersAsLive
  BY DEF IInv
<1>2. QED
  BY <1>1, Inductive, PTL

\* What is on for a request, and what is off, is what its caller may expect.
LEMMA OnIsWanted ==
  ASSUME IInv, NEW r \in Answered, NEW s \in Sections
  PROVE  Enabled(SectionsOf(r), s) \in Wanted(r, s)
<1> DEFINE said == Said(override[r], s)
           byFile == IF Said(file, s) # {} THEN Said(file, s) ELSE {DOMAIN file = {}}
<1>1. Wanted(r, s) = IF said # {} THEN said ELSE byFile
  BY DEF Wanted
<1>2. Enabled(defaults, s) \in byFile
  <2>1. file \in Configs /\ defaults \in Loaded(file) /\ defaults # Refused
    BY DEF IInv, TypeOK, MergedOK, Answered
  <2>2. QED
    BY <2>1, LoadedIsSaid
<1>3. CASE DOMAIN override[r] = {} /\ sections[r] = SharedDefaults
  <2>1. said = {} /\ SectionsOf(r) = defaults
    BY <1>3 DEF Said, SectionsOf, SharedDefaults
  <2>2. QED
    BY <1>1, <1>2, <2>1
<1>4. ASSUME NEW wanted \in Requested(override[r]),
             sections[r] = OwnCopy(Merge(defaults, wanted))
      PROVE  Enabled(SectionsOf(r), s) \in Wanted(r, s)
  <2>1. SectionsOf(r) = Merge(defaults, wanted)
    BY <1>4 DEF SectionsOf, OwnCopy
  <2>2. CASE \E k \in DOMAIN override[r] :
               k.name = s /\ Enabled(SectionsOf(r), s) = override[r][k]
    <3>1. Enabled(SectionsOf(r), s) \in said
      BY <2>2 DEF Said
    <3>2. QED
      BY <1>1, <3>1
  <2>3. CASE /\ \A k \in DOMAIN override[r] : k.name # s
             /\ Enabled(SectionsOf(r), s) = Enabled(defaults, s)
    <3>1. said = {}
      BY <2>3 DEF Said
    <3>2. QED
      BY <1>1, <1>2, <2>3, <3>1
  <2>4. QED
    BY <2>1, <2>2, <2>3, MergeIsAskedFor
<1>5. QED
  BY <1>3, <1>4 DEF IInv, MergedOK, Answered

\* Nobody is answered where a name is misspelt.
LEMMA NamesAreKnown ==
  ASSUME IInv, NEW r \in Answered
  PROVE  \A k \in DOMAIN file \cup DOMAIN override[r] : k.name # Unknown
<1>1. file \in Configs /\ defaults \in Loaded(file) /\ defaults # Refused
  BY DEF IInv, TypeOK, MergedOK, Answered
<1>2. \A k \in DOMAIN file : k.name # Unknown
  BY <1>1, LoadedIsSaid
<1>3. \A k \in DOMAIN override[r] : k.name # Unknown
  BY DEF IInv, MergedOK, Answered
<1>4. QED
  BY <1>2, <1>3

\* The lists of an answer follow the three rules.
LEMMA ListsAreRight == IInv => ListsFollowRules
<1>1. IInv => ListsFollowRules
  <2> SUFFICES ASSUME IInv, NEW r \in Answered, NEW s \in TopLevel
               PROVE  LET values == document[r].values
                      IN  /\ s \in DOMAIN values =>
                               /\ TRUE \in Wanted(r, s)
                               /\ values[s] = IF content[s] = "data" THEN "data" ELSE "[]"
                          /\ s \notin DOMAIN values => FALSE \in Wanted(r, s)
    BY DEF ListsFollowRules
  <2>1. document[r] = ToProfileResult(SectionsOf(r), content, document[r].cached)
    BY DEF IInv, CachedRendersAsLive
  <2>2. document[r].values =
          [t \in {u \in Sections : Enabled(SectionsOf(r), u)} \cap TopLevel |->
             List(content[t])]
    BY <2>1 DEF ToProfileResult
  <2>3. Enabled(SectionsOf(r), s) = (s \in DOMAIN document[r].values)
    BY <2>2 DEF TopLevel, Enabled
  <2>4. Enabled(SectionsOf(r), s) \in Wanted(r, s)
    BY OnIsWanted DEF TopLevel
  <2>5. s \in DOMAIN document[r].values => document[r].values[s] = List(content[s])
    BY <2>2
  <2>6. CASE s \in DOMAIN document[r].values
    <3>1. TRUE \in Wanted(r, s)
      BY <2>3, <2>4, <2>6, Zenon
    <3>2. QED
      BY <2>5, <2>6, <3>1 DEF List
  <2>7. CASE s \notin DOMAIN document[r].values
    <3>1. Enabled(SectionsOf(r), s) = FALSE
      BY <2>2, <2>7 DEF Enabled, TopLevel
    <3>2. FALSE \in Wanted(r, s)
      BY <2>4, <3>1
    <3>3. QED
      BY <2>7, <3>2
  <2>8. QED
    BY <2>6, <2>7
<1>2. QED
  BY <1>1

\* The lists of an answer follow the three rules, and its keys come once each, in
\* the order of the sections, whatever was switched on.
THEOREM RulesHold == Spec => []ThreeRules
<1>1. ASSUME IInv, NEW r \in Answered
      PROVE  LET doc == document[r]
             IN  /\ IsInjective(doc.top)
                 /\ ToSet(doc.top) = DOMAIN doc.values \cup {"profile", "meta"}
                 /\ \A i, j \in DOMAIN AllSections :
                      i < j /\ {AllSections[i], AllSections[j]} \subseteq DOMAIN doc.values
                        => \E k, l \in DOMAIN doc.top :
                             /\ k < l
                             /\ doc.top[k] = AllSections[i] /\ doc.top[l] = AllSections[j]
                 /\ \A k \in DOMAIN file \cup DOMAIN override[r] : k.name # Unknown
  <2> DEFINE on == {s \in Sections : Enabled(SectionsOf(r), s)} \cap TopLevel
  <2>1. document[r] = ToProfileResult(SectionsOf(r), content, document[r].cached)
    BY <1>1 DEF IInv, CachedRendersAsLive
  <2>2. document[r].top = TopLevelKeys(on) /\ DOMAIN document[r].values = on
    BY <2>1 DEF ToProfileResult
  <2>3. on \in SUBSET Sections
    OBVIOUS
  <2> HIDE DEF on
  <2>4. \A k \in DOMAIN file \cup DOMAIN override[r] : k.name # Unknown
    BY <1>1, NamesAreKnown
  <2>5. QED
    BY <2>2, <2>3, <2>4, KeysInOrder
<1>2. IInv => ThreeRules
  BY <1>1, ListsAreRight DEF ThreeRules
<1>3. QED
  BY <1>2, Inductive, PTL

\* An answer names what is on for its caller and what of it is blank, at the top
\* level and under "profile", and shows the rest.
THEOREM EmptyIsExplained == Spec => []UnavailableExplainsEmpty
<1>1. IInv => UnavailableExplainsEmpty
  <2> SUFFICES ASSUME IInv, NEW r \in Answered, NEW s \in Sections
               PROVE  LET doc == document[r]
                          returned == s \in doc.sectionsReturned.names
                          unavailable == s \in doc.sectionsUnavailable
                      IN  /\ returned \in Wanted(r, s)
                          /\ unavailable <=> returned /\ content[s] # "data"
                          /\ s \in DOMAIN doc.values <=> returned /\ s \in TopLevel
                          /\ s \in DOMAIN doc.values => (doc.values[s] = "[]" <=> unavailable)
                          /\ s \in DOMAIN doc.profile <=>
                               returned /\ s \in ProfileLevel /\ ~unavailable
    BY DEF UnavailableExplainsEmpty
  <2>1. document[r] = ToProfileResult(SectionsOf(r), content, document[r].cached)
    BY DEF IInv, CachedRendersAsLive
  <2>2. Enabled(SectionsOf(r), s) \in Wanted(r, s)
    BY OnIsWanted
  <2> DEFINE doc == document[r]
  <2>3. /\ (s \in doc.sectionsReturned.names) = Enabled(SectionsOf(r), s)
        /\ s \in doc.sectionsUnavailable <=>
             s \in doc.sectionsReturned.names /\ content[s] # "data"
        /\ s \in DOMAIN doc.values <=> s \in doc.sectionsReturned.names /\ s \in TopLevel
        /\ s \in DOMAIN doc.values =>
             (doc.values[s] = "[]" <=> s \in doc.sectionsUnavailable)
        /\ s \in DOMAIN doc.profile <=>
             /\ s \in doc.sectionsReturned.names /\ s \in ProfileLevel
             /\ s \notin doc.sectionsUnavailable
    <3> DEFINE cached == document[r].cached
    <3>1. doc = ToProfileResult(SectionsOf(r), content, cached)
      BY <2>1
    <3> HIDE DEF cached, doc
    <3>2. QED
      BY <3>1, RenderingExplainsItself
  <2>4. QED
    BY <2>2, <2>3, Zenon
<1>2. QED
  BY <1>1, Inductive, PTL

\* No request writes through to the defaults that all of them share.
THEOREM DefaultsAreShared == Spec => DefaultsStay
<1>1. [Next]_vars => [defaults' = defaults]_vars
  BY DEF Next, vars, MergeSections, FromCache, FromLinkedIn, Respond
<1>2. QED
  BY <1>1, PTL DEF Spec, DefaultsStay
=============================================================================
