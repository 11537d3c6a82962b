-------------------------- MODULE MCScrapeService ---------------------------
(* Model checking ScrapeService: the constants of the runs.                 *)
EXTENDS ScrapeService, TLC

CONSTANTS r1, r2

TwoRequests == {r1, r2}

OneSlug == {"asha"}
\* "Asha" reaches the person LinkedIn calls "asha".
WithAlias == {"asha", "Asha"}
TwoPeople == {"asha", "ravi"}
CanonicalOne == [s \in OneSlug |-> s]
CanonicalAlias == [s \in WithAlias |-> "asha"]
CanonicalTwo == [s \in TwoPeople |-> s]

Never == {FALSE}
Either == BOOLEAN

\* A caller who leaves is in the other run.
SafetyFaults == FaultKinds \ {"disconnect"}
AnswerFaults == {"upstream", "disconnect"}

Symmetric == Permutations(Requests)
=============================================================================
