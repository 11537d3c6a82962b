---------------------------- MODULE MCLifecycle -----------------------------
(* Model checking Lifecycle: the requests of the runs.                      *)
EXTENDS Lifecycle

CONSTANTS r1, r2, r3

ThreeRequests == {r1, r2, r3}
=============================================================================
