------------------------------ MODULE Assembly ------------------------------
(***************************************************************************)
(* From the bodies LinkedIn answers with to a profile: the entity graph of *)
(* pkg/linkedin/voyager/resolver.go, Assemble and what it calls in         *)
(* assemble.go and convert.go, and the checks of FetchProfile in           *)
(* internal/clients/client_linkedin.go.                                    *)
(*                                                                         *)
(* A response is a flat list of entities that refer to each other by urn.  *)
(* Decoding is permissive: a field that is absent has its zero value, so   *)
(* here every entity has all fields.  An entity is good, or unreadable (no *)
(* JSON object with a urn), or misshapen (it has a urn, but some field is  *)
(* not of the type the struct wants).                                      *)
(*                                                                         *)
(* The behaviours are a series of scrapes of one member, each against a    *)
(* response that has changed in one more place, as LinkedIn changes its    *)
(* format.                                                                 *)
(***************************************************************************)
EXTENDS Selections, SequencesExt, FiniteSetsExt

CONSTANTS
  Slugs,        \* the slugs the member is asked for by
  Folded,       \* slug -> the slug in lower case
  Subject,      \* urn of the member's own entity
  Complete,     \* the response of the dashProfile call when all is well
  Praise,       \* the response of the recommendations call when all is well
  JoinedSections,   \* whose entries name an organisation by text or by urn
  CreditedSections, \* whose entries credit people
  PlainSections,    \* the others that hang off the profile by a pointer
  MaxChanges    \* bound: in how many places a response is changed

SectionNames ==
  {"experience", "skills"} \cup JoinedSections \cup CreditedSections \cup PlainSections

\* What an entity without a urn, or a pointer to none, has for one.
NoUrn == ""

ASSUME SlugAssumption == Folded \in [Slugs -> Slugs] /\ "" \notin Slugs
ASSUME MemberAssumption == Subject # NoUrn

IsList(s) == s \in Seq(ToSet(s))

\* An entity, with all fields.
IsEntity(e) ==
  /\ DOMAIN e = { "urn", "kind", "shape", "name", "label", "org", "roles", "slug",
                  "elements", "people", "sections" }
  /\ DOMAIN e.sections = SectionNames
  /\ IsList(e.elements) /\ IsList(e.people)

\* A response has at most one entity with a urn.
IsResponse(body) ==
  /\ DOMAIN body = {"elements", "included"}
  /\ IsList(body.elements) /\ IsList(body.included)
  /\ \A i \in DOMAIN body.included : IsEntity(body.included[i])
  /\ \A i, j \in DOMAIN body.included : body.included[i].urn = body.included[j].urn => i = j

\* What LinkedIn answers about the member: of the profiles that come along none
\* has a slug the member is asked for by, and data names no other entity.
IsAboutMember(body) ==
  \A i \in DOMAIN body.included :
    LET e == body.included[i]
    IN  /\ e.urn = Subject <=> e.kind = "Profile" /\ e.slug \in Slugs
        /\ e.urn \in ToSet(body.elements) \cup {"gone"} => e.urn = Subject

ASSUME BoundAssumption == MaxChanges \in Nat

ASSUME ResponseAssumption ==
  IsResponse(Complete) /\ IsAboutMember(Complete) /\ IsResponse(Praise)

VARIABLES
  asked,        \* the slug in the query
  dash,         \* external: the answer to the dashProfile call, or Garbage
  recs,         \* external: the answer to the recommendations call
  changes,      \* bound: in how many places they have been changed
  outcome       \* what FetchProfile returned

vars == <<asked, dash, recs, changes, outcome>>

Garbage == [elements |-> <<"not JSON">>, included |-> <<>>]
NoBody == [elements |-> <<>>, included |-> <<>>]

-----------------------------------------------------------------------------
(* The graph.                                                              *)

\* Faulty variant of NewGraph: indexing stops at an entity it cannot read.
NewGraphStrict(body) ==
  LET bad == {i \in DOMAIN body.included : body.included[i].shape = "unreadable"}
      kept == SelectInSeq(body.included, LAMBDA e : e.shape = "unreadable")
      read == IF bad = {} THEN body.included ELSE SubSeq(body.included, 1, kept - 1)
  IN  [ elements |-> body.elements,
        order |-> [i \in DOMAIN read |-> read[i].urn],
        byUrn |-> [u \in {e.urn : e \in ToSet(read)} |->
                     CHOOSE e \in ToSet(read) : e.urn = u] ]

\* Entities without a urn are skipped; of two with the same urn the later is
\* kept, and both places in the order lead to it.
NewGraph(body) ==
  LET urns == [i \in DOMAIN body.included |-> body.included[i].urn]
      readable == {i \in DOMAIN body.included :
                     body.included[i].shape # "unreadable" /\ body.included[i].urn # NoUrn}
  IN  [ elements |-> body.elements,
        order |-> Keep(urns, readable),
        byUrn |-> [u \in {urns[i] : i \in readable} |->
                     body.included[Max({i \in readable : urns[i] = u})]] ]

Resolves(g, urn) == urn \in DOMAIN g.byUrn /\ g.byUrn[urn].shape = "good"

\* The places of a list of urns that lead somewhere, and what they lead to.
Resolved(g, urns) == {i \in DOMAIN urns : Resolves(g, urns[i])}

ResolveAll(g, urns) ==
  LET found == Keep(urns, Resolved(g, urns))
  IN  [i \in DOMAIN found |-> g.byUrn[found[i]]]

\* The entities a section pointer leads to, one collection further on.
Collection(g, pointer) ==
  IF Resolves(g, pointer) THEN ResolveAll(g, g.byUrn[pointer].elements) ELSE <<>>

\* Every entity of a type, in LinkedIn's order.
ByType(g, kind) ==
  LET all == [i \in DOMAIN g.order |-> g.byUrn[g.order[i]]]
  IN  Keep(all, {i \in DOMAIN all : all[i].kind = kind /\ all[i].shape = "good"})

\* Faulty variant of NameAt: the urn stands in for the name.
NameAtUrn(g, urn) == IF Resolves(g, urn) THEN urn ELSE ""

\* company, school, geo, or a profile that is credited: the name, if it is there.
NameAt(g, urn) == IF Resolves(g, urn) THEN g.byUrn[urn].name ELSE ""

FirstNonEmpty(a, b) == IF a # "" THEN a ELSE b

-----------------------------------------------------------------------------
(* Who, and the sections.                                                  *)

NoMember == [urn |-> NoUrn]

\* Faulty variant of SubjectProfile: the first profile is taken.
SubjectProfileFirst(g, slug) ==
  LET all == ByType(g, "Profile") IN IF all = <<>> THEN NoMember ELSE all[1]

\* The member that data names, or else the one with the slug asked for.
SubjectProfile(g, slug) ==
  LET named == ResolveAll(g, g.elements)
      profiles == ByType(g, "Profile")
      alike == Keep(profiles, {i \in DOMAIN profiles :
                 profiles[i].slug \in Slugs /\ Folded[profiles[i].slug] = Folded[slug]})
  IN  IF named # <<>> THEN named[1]
      ELSE IF alike # <<>> THEN alike[1]
      ELSE NoMember

\* One role, with the company it names, or its group names, or its own company
\* entity does, or that of the group.
Role(g, group, role) ==
  LET company == IF Resolves(g, role.org) THEN NameAt(g, role.org) ELSE NameAt(g, group.org)
  IN  [ title |-> role.name,
        company |-> FirstNonEmpty(FirstNonEmpty(role.label, group.label), company) ]

NoGroup == [label |-> "", org |-> ""]

\* Faulty variant of Positions: a group's company is not passed on to its roles.
PositionsUngrouped(g, core) ==
  LET groups == Collection(g, core.sections["experience"])
      rolesOf(group) ==
        LET roles == Collection(g, group.roles)
        IN  [j \in DOMAIN roles |-> Role(g, NoGroup, roles[j])]
  IN  FlattenSeq([i \in DOMAIN groups |-> rolesOf(groups[i])])

\* Group by group; and when that gives nothing, every position there is.
Positions(g, core) ==
  LET groups == Collection(g, core.sections["experience"])
      rolesOf(group) ==
        LET roles == Collection(g, group.roles)
        IN  [j \in DOMAIN roles |-> Role(g, group, roles[j])]
      listed == FlattenSeq([i \in DOMAIN groups |-> rolesOf(groups[i])])
      loose == ByType(g, "Position")
  IN  IF listed # <<>> THEN listed
      ELSE [i \in DOMAIN loose |-> Role(g, NoGroup, loose[i])]

\* Faulty variant of Skills: every skill there is.
SkillsByType(g, core) ==
  LET all == ByType(g, "Skill") IN [i \in DOMAIN all |-> all[i].name]

\* Each name once, blank ones left out.
Skills(g, core) ==
  LET all == Collection(g, core.sections["skills"])
      names == [i \in DOMAIN all |-> all[i].name]
      new(i) == \A j \in DOMAIN names : j < i => names[j] # names[i]
  IN  Keep(names, {i \in DOMAIN names : names[i] # "" /\ new(i)})

\* contributorNames: free text first, and else the name on the profile.
ContributorNames(g, people) ==
  LET names == [i \in DOMAIN people |->
                  IF people[i].custom THEN people[i].name ELSE NameAt(g, people[i].profile)]
  IN  Keep(names, {i \in DOMAIN names : names[i] # ""})

\* A section other than experience and skills: what is shown of each entry.
Entries(g, core, s) ==
  LET all == Collection(g, core.sections[s])
      shown(e) ==
        [ name |-> e.name,
          organisation |-> IF s \in JoinedSections
                           THEN FirstNonEmpty(e.label, NameAt(g, e.org)) ELSE "",
          people |-> IF s \in CreditedSections THEN ContributorNames(g, e.people) ELSE <<>> ]
  IN  [i \in DOMAIN all |-> shown(all[i])]

\* applyDashProfile, without the name.
SectionsOf(g, core) ==
  [s \in SectionNames |->
     IF s = "experience" THEN Positions(g, core)
     ELSE IF s = "skills" THEN Skills(g, core)
     ELSE Entries(g, core, s)]

\* applyRecommendations: those with a text, with whoever is known to have
\* written them; a body that is absent or cannot be read gives none.
Recommends(body) ==
  LET g == NewGraph(body)
      all == ByType(g, "Recommendation")
      kept == Keep(all, {i \in DOMAIN all : all[i].label # ""})
  IN  [i \in DOMAIN kept |->
         [ text |-> kept[i].label,
           by |-> IF kept[i].people # <<>> THEN kept[i].people[1].name
                  ELSE NameAt(g, kept[i].org) ]]

\* The profile of a member that was found: LinkedIn's own slug replaces the one
\* asked for, when it is there, and the resolved place name the written one.
Assemble(g, core, slug, praise) ==
  [ code |-> "ok",
    publicID |-> FirstNonEmpty(core.slug, slug),
    name |-> core.name,
    location |-> FirstNonEmpty(NameAt(g, core.org), core.label),
    sections |-> SectionsOf(g, core),
    recommends |-> Recommends(praise) ]

\* FetchProfile from the bodies on: a body that is no JSON and a profile
\* without a name are errors, anything else is a profile.
FetchProfile(slug, body, praise) ==
  LET g == NewGraph(body)
      core == SubjectProfile(g, slug)
  IN  IF body = Garbage THEN [code |-> "PRF03"]
      ELSE IF core = NoMember \/ core.name = "" THEN [code |-> "PRF02"]
      ELSE Assemble(g, core, slug, praise)

-----------------------------------------------------------------------------
Init ==
  /\ asked \in Slugs
  /\ dash = Complete
  /\ recs = Praise
  /\ changes = 0
  /\ outcome = FetchProfile(asked, dash, recs)

\* A scrape against changed responses.
Scrape ==
  /\ changes < MaxChanges
  /\ changes' = changes + 1
  /\ outcome' = FetchProfile(asked, dash', recs')
  /\ UNCHANGED asked

\* An entity is gone, or not what it used to be.
EntityBreaks ==
  /\ \E i \in DOMAIN dash.included, shape \in {"unreadable", "misshapen"} :
       /\ dash.included[i].shape = "good"
       /\ dash' = [dash EXCEPT !.included[i].shape = shape]
  /\ UNCHANGED recs
  /\ Scrape

\* A field is omitted.
NameOmitted ==
  /\ \E i \in DOMAIN dash.included :
       /\ dash.included[i].name # ""
       /\ dash' = [dash EXCEPT !.included[i].name = ""]
  /\ UNCHANGED recs
  /\ Scrape

\* The profile does not point to a section any more.
PointerDropped ==
  /\ \E i \in DOMAIN dash.included, s \in SectionNames :
       /\ dash.included[i].urn = Subject
       /\ dash.included[i].sections[s] # ""
       /\ dash' = [dash EXCEPT !.included[i].sections[s] = ""]
  /\ UNCHANGED recs
  /\ Scrape

\* data does not name the member any more, or names one that is not there.
DataChanges ==
  /\ dash # Garbage
  /\ \E elements \in {<<>>, <<"gone">>, <<"gone", Subject>>} :
       /\ elements # dash.elements
       /\ dash' = [dash EXCEPT !.elements = elements]
  /\ UNCHANGED recs
  /\ Scrape

\* The entities come in another order.
Reordered ==
  /\ dash # Garbage
  /\ dash' = [dash EXCEPT !.included = Reverse(@)]
  /\ UNCHANGED recs
  /\ Scrape

BodyIsGarbage ==
  /\ dash # Garbage
  /\ dash' = Garbage
  /\ UNCHANGED recs
  /\ Scrape

RecommendationsChange ==
  /\ \/ recs # Garbage /\ recs' = Garbage
     \/ recs # NoBody /\ recs' = NoBody
     \/ \E i \in DOMAIN recs.included, shape \in {"unreadable", "misshapen"} :
          /\ recs.included[i].shape = "good"
          /\ recs' = [recs EXCEPT !.included[i].shape = shape]
  /\ UNCHANGED dash
  /\ Scrape

Next ==
  \/ EntityBreaks \/ NameOmitted \/ PointerDropped \/ DataChanges \/ Reordered \/ BodyIsGarbage
  \/ RecommendationsChange

Spec == Init /\ [][Next]_vars

-----------------------------------------------------------------------------
(* The response as it is, without the code's index.                        *)

\* An entity that can be read and referred to.
Good(urn) ==
  /\ urn # NoUrn
  /\ \E i \in DOMAIN dash.included :
       dash.included[i].urn = urn /\ dash.included[i].shape = "good"

\* The good entity with a urn.
At(urn) ==
  dash.included[CHOOSE i \in DOMAIN dash.included :
    dash.included[i].urn = urn /\ dash.included[i].shape = "good"]

\* What the collection behind a pointer lists.
Listed(pointer) == IF Good(pointer) THEN At(pointer).elements ELSE <<>>

\* The groups the response gives the member, and the roles it gives a group.
Groups == IF Good(Subject) THEN Listed(At(Subject).sections["experience"]) ELSE <<>>
RolesIn(group) == IF Good(group) THEN Listed(At(group).roles) ELSE <<>>

\* The places <<i, j>>, group and role, at which a role can be read.
Roles == [i \in DOMAIN Groups |-> RolesIn(Groups[i])]
RoleAt(place) == Roles[place[1]][place[2]]
Held == {place \in Slots(Roles) : Good(RoleAt(place))}

\* The urns an entity mentions.
Mentions(e) ==
  {e.roles, e.org} \cup ToSet(e.elements) \cup {x.profile : x \in ToSet(e.people)}

\* The entities that have one of the urns, and what one hop more leads to.
Behind(response, urns) == {e \in ToSet(response.included) : e.urn \in urns \ {NoUrn}}
Hop(response, urns) == urns \cup UNION {Mentions(e) : e \in Behind(response, urns)}

\* What can be reached from a urn in four hops: from a collection to a group, its
\* own collection, a role and the company of the role.
Reach(response, urn) ==
  Hop(response, Hop(response, Hop(response, Hop(response, {urn}))))

\* The pointers of the member to a section, and the entities behind them.
PointersTo(response, s) ==
  {e.sections[s] : e \in Behind(response, {Subject})}
Basis(response, s) ==
  Behind(response, UNION {Reach(response, u) : u \in PointersTo(response, s)})

Ok == outcome.code = "ok"

\* The texts of a response.
Texts(response) ==
  UNION {{e.name, e.label} \cup {x.name : x \in ToSet(e.people)} : e \in ToSet(response.included)}
Known == Texts(Complete) \cup Texts(Praise) \cup {""}

TypeOK ==
  /\ asked \in Slugs
  /\ changes \in 0 .. MaxChanges
  /\ outcome.code \in {"ok", "PRF02", "PRF03"}
  /\ Ok =>
       /\ outcome.publicID \in Slugs
       /\ {outcome.name, outcome.location} \subseteq Known
       /\ \A x \in ToSet(outcome.sections["experience"]) : {x.title, x.company} \subseteq Known
       /\ ToSet(outcome.sections["skills"]) \subseteq Known
       /\ \A s \in SectionNames \ {"experience", "skills"} :
            \A x \in ToSet(outcome.sections[s]) :
              {x.name, x.organisation} \cup ToSet(x.people) \subseteq Known
       /\ \A x \in ToSet(outcome.recommends) : {x.text, x.by} \subseteq Known

\* The profile is the member's, never a connection's or a recommender's that
\* came along in the response (assemble.go:62-65), and it is missing only when
\* the member's entity cannot be read or has no name, or neither data nor the
\* slug leads to it.
RightMember ==
  LET found == /\ Good(Subject)
               /\ At(Subject).name # ""
               /\ \/ Subject \in ToSet(dash.elements)
                  \/ Folded[At(Subject).slug] = Folded[asked]
  IN  /\ outcome.code = "PRF03" <=> dash = Garbage
      /\ Ok <=> found
      /\ Ok => outcome.name = At(Subject).name /\ outcome.publicID = At(Subject).slug

\* Experience shows every role that can be read in a group that can be read,
\* in the order of the groups and of the roles in them, and no role of anybody
\* else, unless none of the member's can be read (assemble.go:109-140).
ExperienceComplete ==
  Ok /\ Held # {} =>
    LET shown == outcome.sections["experience"]
    IN  /\ Len(shown) = Cardinality(Held)
        /\ \A p \in Held :
             shown[Ordinal(Held, p)].title = At(RoleAt(p)).name

\* The first text that is there.
FirstGiven(texts) ==
  LET given == {n \in DOMAIN texts : texts[n] # ""}
  IN  IF given = {} THEN "" ELSE texts[Min(given)]

\* A role that does not say where it was held was held where its group says:
\* by name, or else by reference, the role's own first (assemble.go:118-125).
CompanyFound ==
  Ok => \A p \in Held :
    LET role == At(RoleAt(p))
        group == At(Groups[p[1]])
        company == IF Good(role.org) THEN role.org ELSE group.org
        name == IF Good(company) THEN At(company).name ELSE ""
        shown == outcome.sections["experience"][Ordinal(Held, p)]
    IN  shown.company = FirstGiven(<<role.label, group.label, name>>)

\* "One weak section cannot fail it" (assemble.go:11-12): a section rests on
\* what can be reached from its pointer and nothing else in the response, so
\* what breaks elsewhere, or comes in another order, leaves it as it was.
\* Experience is excepted when no role of the member can be read.
SectionStands(s) ==
  /\ Ok /\ Ok'
  /\ PointersTo(dash, s) = PointersTo(dash', s)
  /\ Basis(dash, s) = Basis(dash', s)
  /\ s = "experience" => Held # {}
  => outcome'.sections[s] = outcome.sections[s]

SectionsAreIndependent == [][\A s \in SectionNames : SectionStands(s)]_vars

\* A response that has changed is still a response about the member, and has no
\* text of its own.
ResponsesOK ==
  /\ IsResponse(dash) /\ IsAboutMember(dash) /\ IsResponse(recs)
  /\ Texts(dash) \cup Texts(recs) \subseteq Known

\* The inductive invariant behind all that is said of an outcome.
IInv ==
  /\ TypeOK
  /\ ResponsesOK
  /\ outcome = FetchProfile(asked, dash, recs)

\* "If `data` omits a section whose entities sit in `included` anyway, the
\* parser falls back to scanning by type" (README.md:282-285).
FallsBackByType ==
  Ok /\ (\E i \in DOMAIN dash.included :
           dash.included[i].kind = "Skill" /\ dash.included[i].shape = "good")
    => outcome.sections["skills"] # <<>>
=============================================================================
