--------------------------- MODULE MCScrapeBudget ---------------------------
(* Model checking ScrapeBudget: the constants of the runs.  *)
EXTENDS ScrapeBudget, TLC

CONSTANTS r1, r2, r3

ThreeCalls == {r1, r2, r3}

Outages == {"incrFails"}
AllFaults == FaultKinds

Symmetric == Permutations(Requests)
=============================================================================
