---------------------------- MODULE MCRendering -----------------------------
(* Model checking Rendering: two requests, five sections of the 21.         *)
EXTENDS Rendering, TLC

CONSTANTS r1, r2

TwoRequests == {r1, r2}

\* One optional text and one list under "profile"; three lists at the top
\* level, one of which comes through nonNil.
FiveSections == <<"about", "openTo", "experience", "patents", "services">>
Nested == {"about", "openTo"}

Key(name) == [name |-> name, blanks |-> FALSE]
Blank(name) == [name |-> name, blanks |-> TRUE]

\* Config files that name no section, one, several, one of them twice, and a typo.
Silent == [k \in {} |-> TRUE]
PatentsOff == [k \in {Key("patents")} |-> FALSE]
SomeOn == [k \in {Key(s) : s \in {"about", "openTo", "patents", "services"}} |->
             k.name # "services"]
AboutTwice == [k \in {Key("about"), Blank("about"), Key("patents")} |-> ~k.blanks]
Typo == [k \in {Key("patents"), Key("experiance")} |-> TRUE]
TypicalConfigs == {Silent, PatentsOff, SomeOn, AboutTwice, Typo}

\* No override, one that flips sections, one whose keys name a section twice,
\* one that turns everything off, and a typo.
TypicalOverrides ==
  { [k \in {} |-> TRUE],
    [k \in {Key("patents"), Key("services")} |-> k.name = "services"],
    [k \in {Key("experience"), Blank("experience")} |-> k.blanks],
    [k \in {Key(s) : s \in Sections} |-> FALSE],
    [k \in {Key("about"), Key("experiance")} |-> TRUE] }

\* The text is there or not, and one of the lists is never nil.
TypicalContents ==
  { c \in [Sections -> {"data", "empty", "nil"}] :
      c["about"] # "nil" /\ c["patents"] # "nil" }

Symmetric == Permutations(Requests)
=============================================================================
