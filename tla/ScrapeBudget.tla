---------------------------- MODULE ScrapeBudget ----------------------------
(***************************************************************************)
(* The daily scrape budget: RepositoryProfile.ConsumeScrapeBudget of       *)
(* internal/repositories/repo_profile.go, run by many requests at once,    *)
(* over the two Redis commands it issues (pkg/db/redis.go, Incr and        *)
(* Expire).  One element of Requests is one call; the call reads the UTC   *)
(* day, increments that day's counter, gives a counter it created a        *)
(* lifetime, and compares the value it drew with the budget.               *)
(*                                                                         *)
(* The granularity is the Redis command: INCR and EXPIRE are atomic on the *)
(* server, everything else interleaves.  Time is counted in UTC days.      *)
(***************************************************************************)
EXTENDS Integers, FiniteSets

CONSTANTS
  Requests,     \* the calls of ConsumeScrapeBudget
  Budget,       \* the budget argument; zero or less is unlimited
  LastDay,      \* bound: the calendar stops at this UTC day
  MaxAttempts,  \* bound: how often go-redis sends one INCR (1 + MaxRetries)
  MaxRestarts,  \* bound: how often Redis loses its memory
  Faults        \* the kinds of fault the environment may exhibit

FaultKinds ==
  {"incrFails", "lostReply", "expireFails", "redisRestart", "crash"}

ASSUME RequestsAssumption == IsFiniteSet(Requests)
ASSUME BudgetAssumption == Budget \in Int
ASSUME BoundsAssumption ==
  LastDay \in Nat /\ MaxAttempts \in Nat \ {0} /\ MaxRestarts \in Nat
ASSUME FaultsAssumption == Faults \subseteq FaultKinds

Days == 0 .. LastDay
Lives == 0 .. MaxRestarts
Books == Days \X Lives

\* Faulty variant of KeyLifetime: the counter is given 24 hours.
KeyLifetimeOneDay == 1

KeyLifetime == 2    \* 48 * time.Hour, in days
NoExpiry == 0       \* a key that exists and carries no lifetime

VARIABLES
  today,      \* the UTC day of the wall clock
  counter,    \* day -> value at "scrape-budget:<day>", 0 when there is no key
  expiresOn,  \* day -> the day from which Redis may drop the key, or NoExpiry
  restarts,   \* how often Redis has come back empty
  pc,         \* call -> where it stands
  keyDay,     \* call -> the day in the key it formatted
  used,       \* call -> the value INCR returned to it, 0 if none did
  attempts,   \* call -> how many of its INCRs lost their reply
  life,       \* history: call -> the Redis life its value was drawn in
  orphans     \* history: book -> increments whose reply reached nobody

redisVars == <<counter, expiresOn, restarts>>
callVars == <<pc, keyDay, used, attempts, life>>
vars == <<today, redisVars, callVars, orphans>>

InFlight == {r \in Requests : pc[r] \in {"incr", "expire"}}
Returned == {r \in Requests : pc[r] \in {"allowed", "denied", "lost"}}

\* Faulty variants of Verdict: one scrape too many, one too few.
VerdictOneTooMany(n) == IF n - 1 <= Budget THEN "allowed" ELSE "denied"
VerdictOneTooFew(n) == IF n < Budget THEN "allowed" ELSE "denied"

\* The comparison the function returns: used <= int64(budget).
Verdict(n) == IF n <= Budget THEN "allowed" ELSE "denied"

Init ==
  /\ today = 0
  /\ counter = [d \in Days |-> 0]
  /\ expiresOn = [d \in Days |-> NoExpiry]
  /\ restarts = 0
  /\ pc = [r \in Requests |-> "idle"]
  /\ keyDay = [r \in Requests |-> 0]
  /\ used = [r \in Requests |-> 0]
  /\ attempts = [r \in Requests |-> 0]
  /\ life = [r \in Requests |-> 0]
  /\ orphans = [b \in Books |-> 0]

-----------------------------------------------------------------------------
(* The call.                                                               *)

\* A budget of zero or less returns at once; otherwise the key is today's.
Begin(r) ==
  /\ pc[r] = "idle"
  /\ pc' = [pc EXCEPT ![r] = IF Budget <= 0 THEN "allowed" ELSE "incr"]
  /\ keyDay' = [keyDay EXCEPT ![r] = today]
  /\ UNCHANGED <<today, redisVars, used, attempts, life, orphans>>

\* The value INCR returns: one more than what the server holds.
NextValue(d) == counter[d] + 1

\* INCR answered.  The call that created the key goes on to EXPIRE.
Incr(r) ==
  LET d == keyDay[r]
      n == NextValue(d)
  IN /\ pc[r] = "incr"
     /\ attempts[r] < MaxAttempts
     /\ counter' = [counter EXCEPT ![d] = @ + 1]
     /\ used' = [used EXCEPT ![r] = n]
     /\ life' = [life EXCEPT ![r] = restarts]
     /\ pc' = [pc EXCEPT ![r] = IF n = 1 THEN "expire" ELSE Verdict(n)]
     /\ UNCHANGED <<today, expiresOn, restarts, keyDay, attempts, orphans>>

\* The server counted, the reply was lost: go-redis sends the INCR again.
LoseReply(r) ==
  LET d == keyDay[r]
  IN /\ "lostReply" \in Faults
     /\ pc[r] = "incr"
     /\ attempts[r] < MaxAttempts
     /\ counter' = [counter EXCEPT ![d] = @ + 1]
     /\ attempts' = [attempts EXCEPT ![r] = @ + 1]
     /\ orphans' = [orphans EXCEPT ![<<d, restarts>>] = @ + 1]
     /\ UNCHANGED <<today, expiresOn, restarts, pc, keyDay, used, life>>

\* INCR reported an error, at once or after its last attempt: the call is
\* allowed and nothing is counted.
IncrFails(r) ==
  /\ pc[r] = "incr"
  /\ "incrFails" \in Faults \/ attempts[r] = MaxAttempts
  /\ pc' = [pc EXCEPT ![r] = "allowed"]
  /\ UNCHANGED <<today, redisVars, keyDay, used, attempts, life, orphans>>

\* EXPIRE on a key that is gone does nothing and is no error.
ExpireKey(d) ==
  expiresOn' = [expiresOn EXCEPT
                  ![d] = IF counter[d] > 0 THEN today + KeyLifetime ELSE @]

Expire(r) ==
  /\ pc[r] = "expire"
  /\ ExpireKey(keyDay[r])
  /\ pc' = [pc EXCEPT ![r] = Verdict(used[r])]
  /\ UNCHANGED <<today, counter, restarts, keyDay, used, attempts, life, orphans>>

\* An error from EXPIRE is logged and otherwise ignored.
ExpireFails(r) ==
  /\ "expireFails" \in Faults
  /\ pc[r] = "expire"
  /\ pc' = [pc EXCEPT ![r] = Verdict(used[r])]
  /\ UNCHANGED <<today, redisVars, keyDay, used, attempts, life, orphans>>

-----------------------------------------------------------------------------
(* The environment.                                                        *)

\* Redis drops a key whose lifetime is over, at any moment after that.
DropKey(d) ==
  /\ counter[d] > 0
  /\ expiresOn[d] # NoExpiry
  /\ today >= expiresOn[d]
  /\ counter' = [counter EXCEPT ![d] = 0]
  /\ expiresOn' = [expiresOn EXCEPT ![d] = NoExpiry]
  /\ UNCHANGED <<today, restarts, callVars, orphans>>

\* Midnight UTC.  A call takes seconds (the client's timeouts are 3 s and
\* 5 s), so one that read the old day is finished before the day after.
NextDay ==
  /\ today < LastDay
  /\ \A r \in InFlight : keyDay[r] = today
  /\ today' = today + 1
  /\ UNCHANGED <<redisVars, callVars, orphans>>

\* Redis keeps nothing on disk, so a restart forgets every key.
RedisRestart ==
  /\ "redisRestart" \in Faults
  /\ restarts < MaxRestarts
  /\ restarts' = restarts + 1
  /\ counter' = [d \in Days |-> 0]
  /\ expiresOn' = [d \in Days |-> NoExpiry]
  /\ UNCHANGED <<today, callVars, orphans>>

\* The service dies with the calls it is running; Redis stays.
Crash ==
  /\ "crash" \in Faults
  /\ InFlight # {}
  /\ pc' = [r \in Requests |-> IF r \in InFlight THEN "lost" ELSE pc[r]]
  /\ UNCHANGED <<today, redisVars, keyDay, used, attempts, life, orphans>>

-----------------------------------------------------------------------------
Step(r) ==
  \/ Incr(r) \/ LoseReply(r) \/ IncrFails(r)
  \/ Expire(r) \/ ExpireFails(r)

Environment ==
  \/ \E d \in Days : DropKey(d)
  \/ NextDay
  \/ RedisRestart
  \/ Crash

Next == (\E r \in Requests : Begin(r) \/ Step(r)) \/ Environment

Spec == Init /\ [][Next]_vars

-----------------------------------------------------------------------------
TypeOK ==
  /\ today \in Days
  /\ counter \in [Days -> Nat]
  /\ expiresOn \in [Days -> Nat]
  /\ restarts \in Lives
  /\ pc \in [Requests -> {"idle", "incr", "expire", "allowed", "denied", "lost"}]
  /\ keyDay \in [Requests -> Days]
  /\ used \in [Requests -> Nat]
  /\ attempts \in [Requests -> 0 .. MaxAttempts]
  /\ life \in [Requests -> Lives]
  /\ orphans \in [Books -> Nat]

\* The calls that drew a value from the counter behind book b, those of them
\* that were turned away, and the others, each of which holds a unit of the
\* budget (it was let through, or is setting the lifetime, or died doing so).
Drawn(b) == {r \in Requests : used[r] > 0 /\ <<keyDay[r], life[r]>> = b}
Refused(b) == {r \in Drawn(b) : pc[r] = "denied"}
Admitted(b) == Drawn(b) \ Refused(b)

\* No two calls are ever handed the same value of one counter: neither an
\* expiry, nor a retry, nor a crash makes the counter count twice.
TicketsDistinct ==
  \A b \in Books : \A r, s \in Drawn(b) : used[r] = used[s] => r = s

\* However calls interleave, one life of a day's counter admits at most Budget
\* of them (repo_profile.go:82).
Ceiling ==
  Budget > 0 => \A b \in Books : Cardinality(Admitted(b)) <= Budget

\* A call is turned away only when the day's budget has really been handed
\* out, to calls or to increments whose reply was lost: nothing else spends it.
RefusalJustified ==
  \A b \in Books :
    Refused(b) # {} => Cardinality(Admitted(b)) + orphans[b] >= Budget

\* The ceiling as README.md:307 and README.md:152 put it: on no day are more
\* than Budget calls let through to LinkedIn.
HardCeiling ==
  Budget > 0 =>
    \A d \in Days :
      Cardinality({r \in Requests : pc[r] = "allowed" /\ keyDay[r] = d}) <= Budget

\* The lifetime of a counter never runs out while its day lasts or while a
\* call that read that day has still to charge it (repo_profile.go:66-77).
NoRefund ==
  \A d \in Days :
    counter[d] > 0 /\ counter'[d] = 0 /\ restarts' = restarts =>
      /\ today > d
      /\ \A r \in InFlight : keyDay[r] # d

ExpiryNeverRefunds == [][NoRefund]_vars

\* The abstract ledger this counter keeps: a unit is held from the moment the
\* INCR that drew it is answered.
Ledger == INSTANCE ScrapeLedger WITH
  admitted  <- [b \in Books |-> Admitted(b)],
  refused   <- [b \in Books |-> Refused(b)],
  uncounted <- {r \in Requests : pc[r] = "allowed" /\ used[r] = 0}

\* ConsumeScrapeBudget implements the ledger: every INCR that is answered
\* admits into a book with room or refuses from a full one, an INCR that fails
\* admits outside the books, and no other step touches them.
ImplementsLedger == Ledger!Spec

-----------------------------------------------------------------------------
(* The inductive invariant: what ties the calls to the counter.            *)

\* No call is charged to a day that has not come, or is still running a day
\* after the one it is charged to.
ClockOK ==
  \A r \in Requests :
    /\ keyDay[r] <= today
    /\ life[r] <= restarts
    /\ r \in InFlight => today <= keyDay[r] + 1

\* A key that has a lifetime keeps it for two days at least.
LifetimeOK ==
  \A d \in Days : expiresOn[d] = NoExpiry \/ expiresOn[d] >= d + KeyLifetime

\* What a call has drawn, by where it stands.
CallOK ==
  \A r \in Requests :
    /\ pc[r] \in {"idle", "incr"} => used[r] = 0
    /\ pc[r] = "expire" => used[r] = 1
    /\ pc[r] = "denied" => used[r] > 0 /\ used[r] > Budget
    /\ pc[r] \in {"allowed", "lost"} => used[r] = 0 \/ used[r] <= Budget
    /\ pc[r] \in {"incr", "expire"} => Budget > 0

\* While a counter can still be charged it is at least every value drawn from it.
CounterCoversTickets ==
  \A r \in Requests :
    used[r] > 0 /\ life[r] = restarts /\ today < keyDay[r] + KeyLifetime
      => used[r] <= counter[keyDay[r]]

\* Each unit on a live counter, up to the budget, is held or orphaned.
UnitsAccountedFor ==
  \A d \in Days :
    LET spent == Cardinality(Admitted(<<d, restarts>>)) + orphans[<<d, restarts>>]
    IN  counter[d] <= spent \/ Budget <= spent

IInv ==
  /\ TypeOK
  /\ ClockOK
  /\ LifetimeOK
  /\ CallOK
  /\ CounterCoversTickets
  /\ TicketsDistinct
  /\ UnitsAccountedFor
  /\ RefusalJustified
=============================================================================
