---------------------------- MODULE ScrapeLedger ----------------------------
(***************************************************************************)
(* What the daily scrape budget promises, with no counter, no clock and no *)
(* Redis: a ledger of books, one per life of a day's counter.  A caller is *)
(* admitted into a book that still has room, admitted outside every book   *)
(* when the counter cannot be consulted, or refused by a book whose room   *)
(* is used up.  A unit may also be spent on nobody (a charge whose caller  *)
(* never learnt of it), which is the only way a book turns callers away    *)
(* before it has admitted Budget of them.                                  *)
(*                                                                         *)
(* ScrapeBudget implements this specification; a book is a pair            *)
(* <<UTC day, life of the Redis instance>>.                                *)
(***************************************************************************)
EXTENDS Integers, FiniteSets

CONSTANTS
  Requests,   \* the calls of ConsumeScrapeBudget
  Budget,     \* LinkedIn.DailyScrapeBudget; zero or less is unlimited
  Books       \* the counters the calls are charged to

VARIABLES
  admitted,   \* book -> the calls it admitted
  refused,    \* book -> the calls it refused
  uncounted,  \* the calls admitted outside every book
  orphans     \* book -> units spent on nobody

ledgerVars == <<admitted, refused, uncounted, orphans>>

Fresh(r) ==
  /\ r \notin uncounted
  /\ \A b \in Books : r \notin admitted[b] \cup refused[b]

Init ==
  /\ admitted = [b \in Books |-> {}]
  /\ refused = [b \in Books |-> {}]
  /\ uncounted = {}
  /\ orphans = [b \in Books |-> 0]

Admit(r, b) ==
  /\ Fresh(r)
  /\ Cardinality(admitted[b]) < Budget
  /\ admitted' = [admitted EXCEPT ![b] = @ \cup {r}]
  /\ UNCHANGED <<refused, uncounted, orphans>>

Refuse(r, b) ==
  /\ Fresh(r)
  /\ Budget > 0
  /\ Cardinality(admitted[b]) + orphans[b] >= Budget
  /\ refused' = [refused EXCEPT ![b] = @ \cup {r}]
  /\ UNCHANGED <<admitted, uncounted, orphans>>

AdmitUncounted(r) ==
  /\ Fresh(r)
  /\ uncounted' = uncounted \cup {r}
  /\ UNCHANGED <<admitted, refused, orphans>>

Orphan(b) ==
  /\ orphans' = [orphans EXCEPT ![b] = @ + 1]
  /\ UNCHANGED <<admitted, refused, uncounted>>

Next ==
  \/ \E r \in Requests : AdmitUncounted(r)
  \/ \E b \in Books : Orphan(b)
  \/ \E r \in Requests, b \in Books : Admit(r, b) \/ Refuse(r, b)

Spec == Init /\ [][Next]_ledgerVars
=============================================================================
