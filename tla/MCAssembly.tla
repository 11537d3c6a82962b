---------------------------- MODULE MCAssembly -----------------------------
(* Model checking Assembly: one member with a connection, as LinkedIn answers. *)
EXTENDS Assembly, TLC

TwoSlugs == {"asha", "Asha"}
Lower == [s \in TwoSlugs |-> "asha"]

Joined == {"education"}
Credited == {"projects"}
Plain == {"courses"}

NoPointers == [s \in SectionNames |-> ""]

Blank == [ urn |-> "", kind |-> "", shape |-> "good", name |-> "", label |-> "",
           org |-> "", roles |-> "", slug |-> "", elements |-> <<>>,
           people |-> <<>>, sections |-> NoPointers ]

Entity(kind, urn, name) == [Blank EXCEPT !.kind = kind, !.urn = urn, !.name = name]
List(urn, elements) == [Entity("Collection", urn, "") EXCEPT !.elements = elements]
Placed(e, label, org) == [e EXCEPT !.label = label, !.org = org]

Pointers == [s \in SectionNames |->
  CASE s = "experience" -> "asha:groups" [] s = "skills" -> "asha:skills"
    [] s = "education" -> "asha:educations" [] s = "projects" -> "asha:projects"
    [] OTHER -> "asha:courses"]

\* The connection comes first, with a role and a skill that are not the member's, and
\* an entity without a urn.
MemberResponse ==
  [ elements |-> <<"asha">>,
    included |->
      << [Entity("Profile", "ravi", "Ravi") EXCEPT !.slug = "ravi"],
         Entity("Position", "q1", "Pilot"),
         Entity("Skill", "t1", "Flying"),
         Entity("Company", "", "Nobody"),
         [Placed(Entity("Profile", "asha", "Asha"), "Pune", "geo")
            EXCEPT !.slug = "asha", !.sections = Pointers],
         Entity("Geo", "geo", "Pune, India"),
         List("asha:groups", <<"g1", "g2">>),
         [Placed(Entity("PositionGroup", "g1", ""), "", "acme") EXCEPT !.roles = "g1:roles"],
         List("g1:roles", <<"p2", "p1">>),
         [Placed(Entity("PositionGroup", "g2", ""), "Initech", "globex") EXCEPT !.roles = "g2:roles"],
         List("g2:roles", <<"p3">>),
         Placed(Entity("Position", "p1", "Engineer"), "", ""),
         Placed(Entity("Position", "p2", "Lead"), "", "globex"),
         Placed(Entity("Position", "p3", "Intern"), "", ""),
         Entity("Company", "acme", "Acme"),
         Entity("Company", "globex", "Globex"),
         List("asha:skills", <<"s1", "s2", "s3">>),
         Entity("Skill", "s1", "Go"),
         Entity("Skill", "s2", "TLA"),
         Entity("Skill", "s3", "Go"),
         List("asha:educations", <<"e1">>),
         Placed(Entity("Education", "e1", "MSc"), "", "iit"),
         Entity("School", "iit", "IIT"),
         List("asha:projects", <<"j1">>),
         [Entity("Project", "j1", "Scraper") EXCEPT !.people =
            << [custom |-> FALSE, name |-> "", profile |-> "ravi"],
               [custom |-> TRUE, name |-> "Guest", profile |-> ""],
               [custom |-> TRUE, name |-> "", profile |-> ""] >>],
         List("asha:courses", <<"c1", "lost", "c2">>),
         Entity("Course", "c1", "Logic"),
         Entity("Course", "c2", "Sets") >> ]

Recommended ==
  [ elements |-> <<>>,
    included |->
      << Placed(Entity("Recommendation", "m1", ""), "Good", "mina"),
         [Placed(Entity("Recommendation", "m2", ""), "Great", "mina")
            EXCEPT !.people = <<[custom |-> TRUE, name |-> "Noor", profile |-> ""]>>],
         Placed(Entity("Recommendation", "m3", ""), "", "mina"),
         Entity("MiniProfile", "mina", "Mina") >> ]
=============================================================================
