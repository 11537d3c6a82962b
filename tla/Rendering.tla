----------------------------- MODULE Rendering ------------------------------
(***************************************************************************)
(* Which keys a response carries, and with what in them: the section       *)
(* config (internal/config, Load and SectionSet), the override of one      *)
(* request (pkg/validation, MergeSections), the rendering of a profile     *)
(* (pkg/mapper, ToProfileResult) and its JSON (internal/response,          *)
(* MarshalJSON), for requests about one person that run at once and share  *)
(* the section defaults and the cached profile.                            *)
(*                                                                         *)
(* The content of a section is "data", or nothing, which Go tells apart as *)
(* "empty" and "nil"; a JSON value is "data", "[]" or "null".              *)
(***************************************************************************)
EXTENDS Selections, SequencesExt

CONSTANTS
  Requests,
  AllSections,    \* the sections, in the order of the response: a sequence
  ProfileLevel,   \* those that nest under "profile"
  Unknown,        \* a section name nobody supports
  Configs,        \* the "Sections" of the config files considered
  Overrides,      \* the "sections" objects callers send
  Contents        \* the profiles considered: section -> content

Sections == ToSet(AllSections)
TopLevel == Sections \ ProfileLevel

\* The keys of an override or a config file, as typed: a name, perhaps with
\* blanks around it.
Keys == [name : Sections \cup {Unknown}, blanks : BOOLEAN]

ASSUME SectionsAssumption ==
  /\ AllSections \in Seq(Sections)
  /\ IsInjective(AllSections)
  /\ {"profile", "meta"} \cap Sections = {}
  /\ ProfileLevel \subseteq Sections
  /\ Unknown \notin Sections
ASSUME InputsAssumption ==
  /\ \A o \in Overrides : DOMAIN o \subseteq Keys
  /\ \A c \in Configs : DOMAIN c \subseteq Keys
  /\ \A c \in Contents : DOMAIN c = Sections

VARIABLES
  file,       \* the "Sections" of the config file
  defaults,   \* Cfg.Sections: shared by every request; or Refused
  content,    \* external: the profile on LinkedIn
  cache,      \* the cached profile, or NoProfile
  at,         \* request -> where it stands
  override,   \* request -> the "sections" object it sent
  sections,   \* request -> the section set it is rendered with
  document    \* request -> the JSON it is answered with

vars == <<file, defaults, content, cache, at, override, sections, document>>

NoProfile == [s \in {} |-> "nil"]
NoSections == [s \in {} |-> FALSE]
NoDocument == [top |-> <<>>]
Refused == [s \in {Unknown} |-> FALSE]   \* no set: the process has not started

\* A request holds the shared map itself, or a map of its own.
SharedDefaults == [shared |-> TRUE, own |-> NoSections]
OwnCopy(set) == [shared |-> FALSE, own |-> set]

-----------------------------------------------------------------------------
(* Section sets: partial functions to BOOLEAN, where absent means off.     *)

Enabled(set, s) == s \in DOMAIN set /\ set[s]

AllEnabled == [s \in Sections |-> TRUE]

\* Faulty variant of Merge: what the changes leave open is off.
MergeForgets(set, changes) == changes

\* A copy of set with changes applied.
Merge(set, changes) ==
  [s \in DOMAIN set \cup DOMAIN changes |->
     IF s \in DOMAIN changes THEN changes[s] ELSE set[s]]

\* applyDefaults: only a config file that names no section gets all of them.
ApplyDefaults(set) == IF DOMAIN set = {} THEN AllEnabled ELSE set

\* What an override or a config file asks for.  Two of its keys may name one
\* section, and the Go map is walked in any order, so either of them may win.
Requested(o) ==
  LET named == {k.name : k \in DOMAIN o}
  IN  {f \in [named -> BOOLEAN] :
         \A s \in named : \E k \in DOMAIN o : k.name = s /\ f[s] = o[k]}

\* Faulty variant of Loaded: unknown names are no error.
LoadedUnchecked(raw) == {ApplyDefaults(set) : set \in Requested(raw)}

\* What Load makes of the config file: with an unknown name the process stops.
Loaded(raw) ==
  IF \E k \in DOMAIN raw : k.name = Unknown THEN {Refused}
  ELSE {ApplyDefaults(set) : set \in Requested(raw)}

\* The sections r is rendered with.
SectionsOf(r) == IF sections[r].shared THEN defaults ELSE sections[r].own

-----------------------------------------------------------------------------
(* Rendering.                                                              *)

\* The converters and nonNil: a list is never null.
List(c) == IF c = "data" THEN "data" ELSE "[]"

\* optional and toContactInfo: a blank value is nil.
Optional(c) == IF c = "data" THEN "data" ELSE "null"

\* The togglable fields of ProfileCore before marshalling.
CoreValue(s, c) == IF s = "openTo" THEN List(c) ELSE Optional(c)

\* toProfileCore and the "omitempty" of ProfileCore: a togglable field that
\* holds nothing is left out.
ProfileCore(set, profile) ==
  [s \in {t \in ProfileLevel :
            Enabled(set, t) /\ CoreValue(t, profile[t]) = "data"} |->
     CoreValue(s, profile[s])]

\* A slice that only append has touched is null when nothing was appended.
Appended(names) == [nil |-> names = {}, names |-> names]

\* Faulty variant of ToProfileResult: a section is unavailable only when nil.
ToProfileResultNilOnly(set, profile, cached) ==
  LET on == {s \in Sections : Enabled(set, s)}
  IN  [ profile |-> ProfileCore(set, profile),
        top |-> <<"profile">>
                  \o Keep(AllSections,
                          {i \in DOMAIN AllSections : AllSections[i] \in on \cap TopLevel})
                  \o <<"meta">>,
        values |-> [s \in on \cap TopLevel |-> List(profile[s])],
        sectionsReturned |-> Appended(on),
        sectionsUnavailable |-> {s \in on : profile[s] = "nil"},
        cached |-> cached ]

\* Faulty variant of ToProfileResult: what nests under "profile" reports nothing.
ToProfileResultTopOnly(set, profile, cached) ==
  LET on == {s \in TopLevel : Enabled(set, s)}
  IN  [ profile |-> ProfileCore(set, profile),
        top |-> <<"profile">>
                  \o Keep(AllSections, {i \in DOMAIN AllSections : AllSections[i] \in on})
                  \o <<"meta">>,
        values |-> [s \in on |-> List(profile[s])],
        sectionsReturned |-> Appended(on),
        sectionsUnavailable |-> {s \in on : profile[s] # "data"},
        cached |-> cached ]

\* MarshalJSON: profile first, the sections in order, meta last.
TopLevelKeys(enabled) ==
  <<"profile">>
    \o Keep(AllSections, {i \in DOMAIN AllSections : AllSections[i] \in enabled})
    \o <<"meta">>

ToProfileResult(set, profile, cached) ==
  LET on == {s \in Sections : Enabled(set, s)}
      blank == {s \in on : profile[s] # "data"}
  IN  [ profile |-> ProfileCore(set, profile),
        top |-> TopLevelKeys(on \cap TopLevel),
        values |-> [s \in on \cap TopLevel |-> List(profile[s])],
        sectionsReturned |-> Appended(on),
        sectionsUnavailable |-> blank,
        cached |-> cached ]

-----------------------------------------------------------------------------
Init ==
  /\ file \in Configs
  /\ defaults \in Loaded(file)
  /\ content \in Contents
  /\ cache = NoProfile
  /\ at = [r \in Requests |-> "idle"]
  /\ override = [r \in Requests |-> NoSections]
  /\ sections = [r \in Requests |-> SharedDefaults]
  /\ document = [r \in Requests |-> NoDocument]

\* Faulty variants of MergeSections: the override is written into the
\* defaults; an unknown name is let through.
MergeSectionsInPlace(r) ==
  /\ at[r] = "idle" /\ defaults # Refused
  /\ \E o \in Overrides :
       /\ \A k \in DOMAIN o : k.name # Unknown
       /\ override' = [override EXCEPT ![r] = o]
       /\ \E wanted \in Requested(o) : defaults' = Merge(defaults, wanted)
       /\ sections' = [sections EXCEPT ![r] = SharedDefaults]
       /\ at' = [at EXCEPT ![r] = "merged"]
  /\ UNCHANGED <<file, content, cache, document>>

MergeSectionsUnchecked(r) ==
  /\ at[r] = "idle" /\ defaults # Refused
  /\ \E o \in Overrides :
       /\ override' = [override EXCEPT ![r] = o]
       /\ \E wanted \in Requested(o) :
            sections' = [sections EXCEPT ![r] = OwnCopy(Merge(defaults, wanted))]
       /\ at' = [at EXCEPT ![r] = "merged"]
  /\ UNCHANGED <<file, defaults, content, cache, document>>

\* MergeSections, once the process has started, rejects an unknown name; without
\* an override it returns the defaults themselves, not a copy.
MergeSections(r) ==
  /\ at[r] = "idle" /\ defaults # Refused
  /\ \E o \in Overrides :
       /\ override' = [override EXCEPT ![r] = o]
       /\ \/ /\ DOMAIN o = {}
             /\ sections' = [sections EXCEPT ![r] = SharedDefaults]
             /\ at' = [at EXCEPT ![r] = "merged"]
          \/ /\ DOMAIN o # {}
             /\ \A k \in DOMAIN o : k.name # Unknown
             /\ \E wanted \in Requested(o) :
                  sections' = [sections EXCEPT ![r] = OwnCopy(Merge(defaults, wanted))]
             /\ at' = [at EXCEPT ![r] = "merged"]
          \/ /\ \E k \in DOMAIN o : k.name = Unknown
             /\ at' = [at EXCEPT ![r] = "rejected"]
             /\ UNCHANGED sections
  /\ UNCHANGED <<file, defaults, content, cache, document>>

Respond(r, profile, cached) ==
  /\ at' = [at EXCEPT ![r] = "answered"]
  /\ document' = [document EXCEPT ![r] = ToProfileResult(SectionsOf(r), profile, cached)]
  /\ UNCHANGED <<file, defaults, content, override, sections>>

\* The cached profile is rendered.
FromCache(r) ==
  /\ at[r] = "merged"
  /\ cache # NoProfile
  /\ Respond(r, cache, TRUE)
  /\ UNCHANGED cache

\* Faulty variant of FromLinkedIn: what is cached is what this caller asked
\* for.
FromLinkedInFiltered(r) ==
  /\ at[r] = "merged"
  /\ cache' = [s \in Sections |->
                 IF Enabled(SectionsOf(r), s) THEN content[s] ELSE "empty"]
  /\ Respond(r, content, FALSE)

\* The profile is fetched, cached whole, and rendered.
FromLinkedIn(r) ==
  /\ at[r] = "merged"
  /\ cache' = content
  /\ Respond(r, content, FALSE)

Next == \E r \in Requests : MergeSections(r) \/ FromCache(r) \/ FromLinkedIn(r)

Spec == Init /\ [][Next]_vars

-----------------------------------------------------------------------------
TypeOK ==
  /\ file \in Configs
  /\ defaults \in {Refused} \cup UNION {[names -> BOOLEAN] : names \in SUBSET Sections}
  /\ content \in Contents
  /\ cache \in Contents \cup {NoProfile}
  /\ at \in [Requests -> {"idle", "merged", "rejected", "answered"}]
  /\ override \in [Requests -> Overrides \cup {NoSections}]
  /\ DOMAIN sections = Requests /\ DOMAIN document = Requests
  /\ \A r \in Requests :
       /\ sections[r].shared => sections[r] = SharedDefaults
       /\ DOMAIN sections[r].own \subseteq Sections

Answered == {r \in Requests : at[r] = "answered"}

\* What a map says of a section, by any of the keys that name it.
Said(map, s) == {map[k] : k \in {j \in DOMAIN map : j.name = s}}

\* Whether the caller of r may expect a section to be on: as its override says,
\* or else the config file, where one that names other sections only has this
\* one off, and one that names none has all of them on.
Wanted(r, s) ==
  IF Said(override[r], s) # {} THEN Said(override[r], s)
  ELSE IF Said(file, s) # {} THEN Said(file, s)
  ELSE {DOMAIN file = {}}

\* A list that is on with data is the data, on without is [], and one that is
\* off is no key at all.
ListsFollowRules ==
  \A r \in Answered : \A s \in TopLevel :
    LET values == document[r].values
    IN /\ s \in DOMAIN values =>
            /\ TRUE \in Wanted(r, s)
            /\ values[s] = IF content[s] = "data" THEN "data" ELSE "[]"
       /\ s \notin DOMAIN values => FALSE \in Wanted(r, s)

\* The three rules of README.md:221-225, for the lists at the top level; and
\* every key appears once, in the order of AllSections, between profile and meta.
\* Nobody is answered where a name is misspelt: neither by a process with such a
\* config file (README.md:130-131), nor on such a request.
ThreeRules ==
  /\ ListsFollowRules
  /\ \A r \in Answered :
       LET doc == document[r]
       IN /\ IsInjective(doc.top)
          /\ ToSet(doc.top) = DOMAIN doc.values \cup {"profile", "meta"}
          /\ \A i, j \in DOMAIN AllSections :
               i < j /\ {AllSections[i], AllSections[j]} \subseteq DOMAIN doc.values
                 => \E k, l \in DOMAIN doc.top :
                      k < l /\ doc.top[k] = AllSections[i] /\ doc.top[l] = AllSections[j]
          /\ \A k \in DOMAIN file \cup DOMAIN override[r] : k.name # Unknown

\* sectionsReturned has what is on, "meta.sectionsUnavailable names every section
\* that was enabled but came back empty" (README.md:227-228, 263), and no other,
\* those under "profile" included; what is off is nowhere.  A list at the top
\* level is [] just when it is called unavailable.  What nests under "profile" is
\* left out just when it is called unavailable: the rule of README.md:224, null or
\* [] there, is not kept (omitempty, response_profile.go:23-25), so the name in
\* meta is all that tells it from a section that is off.
UnavailableExplainsEmpty ==
  \A r \in Answered : \A s \in Sections :
    LET doc == document[r]
        returned == s \in doc.sectionsReturned.names
        unavailable == s \in doc.sectionsUnavailable
    IN /\ returned \in Wanted(r, s)
       /\ unavailable <=> returned /\ content[s] # "data"
       /\ s \in DOMAIN doc.values <=> returned /\ s \in TopLevel
       /\ s \in DOMAIN doc.values => (doc.values[s] = "[]" <=> unavailable)
       /\ s \in DOMAIN doc.profile <=> returned /\ s \in ProfileLevel /\ ~unavailable

\* The full profile is cached, then filtered (README.md:313): what a caller is
\* shown from the cache is what LinkedIn would have shown it with its sections,
\* whoever filled the cache with which sections, but for the flag that says so.
CachedRendersAsLive ==
  \A r \in Answered :
    document[r] = ToProfileResult(SectionsOf(r), content, document[r].cached)

\* A request that was let through, by a process that started, has no misspelt name
\* and is rendered with the defaults themselves, when it overrides nothing, and
\* else with a copy that has all it asked for.
MergedOK ==
  \A r \in Requests : at[r] \in {"merged", "answered"} =>
    /\ defaults # Refused
    /\ \A k \in DOMAIN override[r] : k.name # Unknown
    /\ \/ DOMAIN override[r] = {} /\ sections[r] = SharedDefaults
       \/ \E wanted \in Requested(override[r]) :
            sections[r] = OwnCopy(Merge(defaults, wanted))

\* The cache holds the whole profile or none, whoever filled it.
CacheWhole == cache \in {NoProfile, content}

\* The inductive invariant behind what an answer says.
IInv ==
  /\ TypeOK
  /\ defaults \in Loaded(file)
  /\ MergedOK
  /\ CacheWhole
  /\ CachedRendersAsLive

\* The defaults are shared by every request and hold what the config says for
\* as long as the process runs: no request writes through to them.
DefaultsStay == [][defaults' = defaults]_vars

\* README.md:133, "All 21 sections default to on", with an example that turns
\* one of them off: a caller that overrides nothing is given every list that
\* the config file does not mention.
DefaultOn ==
  \A r \in Answered :
    DOMAIN override[r] = {} =>
      \A s \in TopLevel \ {k.name : k \in DOMAIN file} : s \in DOMAIN document[r].values
=============================================================================
