--------------------------- MODULE ScrapeService ----------------------------
(***************************************************************************)
(* One scrape from the service layer down: ServiceProfile.Scrape and       *)
(* fetchLive (internal/services/service_profile.go), the profile cache of  *)
(* internal/repositories/repo_profile.go, ClientLinkedIn.FetchProfile      *)
(* (internal/clients/client_linkedin.go) and voyager's FetchAll            *)
(* (pkg/linkedin/voyager/endpoints.go), for requests that run at once.     *)
(* The budget is the component ScrapeBudget, whose actions are the steps   *)
(* of a request that is inside ConsumeScrapeBudget.                        *)
(*                                                                         *)
(* A step is one call that leaves the process (a Redis command, a LinkedIn *)
(* call) together with the local code that runs until the next one.  A     *)
(* profile is abstracted to the person it is of, the slug it carries, the  *)
(* version read from LinkedIn and whether its recommendations came along.  *)
(***************************************************************************)
EXTENDS Integers, FiniteSets

CONSTANTS
  Requests,
  Slugs,          \* the public identifiers callers use
  Canonical,      \* slug -> the slug LinkedIn gives that person
  Budget,
  Refreshes,      \* the values of "refresh" callers send
  Faults,         \* what may go wrong, see FaultKinds
  MaxVersion,     \* bound: how often a profile is edited, plus one
  MaxInFlight,    \* bound: how many requests are served at a time
  LastDay, MaxAttempts, MaxRestarts   \* bounds of ScrapeBudget

FaultKinds ==
  { "outage",         \* a Redis command fails
    "lostReply",      \* an INCR takes effect and its reply is lost
    "redisRestart",   \* Redis comes back empty
    "upstream",       \* LinkedIn refuses, fails, or answers nonsense
    "disconnect",     \* a caller goes away: its request context is cancelled
    "ttl",            \* a cached profile reaches the end of its lifetime
    "crash" }         \* the process dies

\* The slug of a request that has not arrived; the empty slug in the code.
Nobody == "nobody"

\* The slug LinkedIn gives a person is a slug of that person.
ASSUME SlugsAssumption ==
  /\ Canonical \in [Slugs -> Slugs]
  /\ \A s \in Slugs : Canonical[Canonical[s]] = Canonical[s]
  /\ Nobody \notin Slugs
ASSUME CountersAssumption ==
  /\ IsFiniteSet(Requests)
  /\ Budget \in Int
  /\ LastDay \in Nat /\ MaxAttempts \in Nat \ {0} /\ MaxRestarts \in Nat
ASSUME EnvironmentAssumption ==
  Faults \subseteq FaultKinds /\ Refreshes \subseteq BOOLEAN
ASSUME ServiceBounds == MaxVersion \in Nat \ {0} /\ MaxInFlight \in Nat \ {0}

VARIABLES
  today, counter, expiresOn, restarts,              \* ScrapeBudget
  pc, keyDay, used, attempts, life, orphans,        \* ScrapeBudget
  configured, \* whether there is a LinkedIn client: decided at boot
  live,       \* external: person -> version of the profile on LinkedIn
  cache,      \* slug -> the profile at "profile:v1:<slug>", or NoProfile
  at,         \* request -> the call it makes next
  asked,      \* request -> [slug, refresh]
  cancelled,  \* the requests whose context is cancelled
  body,       \* request -> what came back from the dashProfile call
  fetched,    \* request -> the profile FetchProfile returned
  answer,     \* request -> what Scrape returned
  arrived,    \* history: request -> version of its person when it came in
  calls       \* history: request -> calls it made to LinkedIn

budgetVars == <<today, counter, expiresOn, restarts,
                pc, keyDay, used, attempts, life, orphans>>
serviceVars == <<live, cache, at, asked, cancelled, body, fetched, answer,
                 arrived, calls>>
vars == <<budgetVars, serviceVars, configured>>

\* A cancelled context makes the Redis client fail a command as an outage does.
BudgetFaults ==
  (Faults \cap {"lostReply", "redisRestart", "crash"})
    \cup (IF Faults \cap {"outage", "disconnect"} # {}
          THEN {"incrFails", "expireFails"} ELSE {})

B == INSTANCE ScrapeBudget WITH Faults <- BudgetFaults

NoProfile == [id |-> Nobody]
NoBody == [quality |-> "none"]
NoAnswer == [code |-> "none"]

Person(r) == Canonical[asked[r].slug]
Served == {r \in Requests : at[r] \notin {"idle", "done", "lost"}}

\* A call fails because the context is cancelled, or because of the outage.
MayFail(r) == r \in cancelled \/ "outage" \in Faults
MaySucceed(r) == r \notin cancelled

Init ==
  /\ B!Init
  /\ configured \in BOOLEAN
  /\ live = [p \in Slugs |-> 1]
  /\ cache = [s \in Slugs |-> NoProfile]
  /\ at = [r \in Requests |-> "idle"]
  /\ asked = [r \in Requests |-> [slug |-> Nobody, refresh |-> FALSE]]
  /\ cancelled = {}
  /\ body = [r \in Requests |-> NoBody]
  /\ fetched = [r \in Requests |-> NoProfile]
  /\ answer = [r \in Requests |-> NoAnswer]
  /\ arrived = [r \in Requests |-> 0]
  /\ calls = [r \in Requests |-> 0]

-----------------------------------------------------------------------------
(* Where a request goes next.                                              *)

Goto(r, place) == at' = [at EXCEPT ![r] = place] /\ UNCHANGED answer

Return(r, result) ==
  /\ at' = [at EXCEPT ![r] = "done"]
  /\ answer' = [answer EXCEPT ![r] = result]

Fail(r, code) == Return(r, [code |-> code])

Serve(r, profile, cached) ==
  Return(r, [code |-> "ok", profile |-> profile, cached |-> cached])

\* fetchLive: without a client there is nothing to ask and nothing to spend.
FetchLive(r) == IF configured THEN Goto(r, "budget") ELSE Fail(r, "PRF04")

\* Faulty variant of ProfileCacheKey: the slug is left out of the key.
ProfileCacheKeyShared(publicID) == CHOOSE s \in Slugs : TRUE

\* The key a profile is cached under, from its slug.
ProfileCacheKey(publicID) == publicID

-----------------------------------------------------------------------------
(* Scrape.                                                                 *)

\* Faulty variant of Arrive: the refresh flag is ignored.
ArriveNoRefresh(r) ==
  /\ at[r] = "idle"
  /\ Cardinality(Served) < MaxInFlight
  /\ \E s \in Slugs, refresh \in Refreshes :
       /\ asked' = [asked EXCEPT ![r] = [slug |-> s, refresh |-> refresh]]
       /\ arrived' = [arrived EXCEPT ![r] = live[Canonical[s]]]
       /\ Goto(r, "lookup")
  /\ UNCHANGED <<budgetVars, live, cache, cancelled, body, fetched, calls>>

Arrive(r) ==
  /\ at[r] = "idle"
  /\ Cardinality(Served) < MaxInFlight
  /\ \E s \in Slugs, refresh \in Refreshes :
       /\ asked' = [asked EXCEPT ![r] = [slug |-> s, refresh |-> refresh]]
       /\ arrived' = [arrived EXCEPT ![r] = live[Canonical[s]]]
       /\ Goto(r, IF refresh THEN "invalidate" ELSE "lookup")
  /\ UNCHANGED <<budgetVars, live, cache, cancelled, body, fetched, calls>>

\* GetCached found a profile: it is served and nothing else happens.
Hit(r) ==
  LET key == ProfileCacheKey(asked[r].slug)
  IN /\ at[r] = "lookup"
     /\ MaySucceed(r)
     /\ cache[key] # NoProfile
     /\ Serve(r, cache[key], TRUE)
     /\ UNCHANGED <<budgetVars, live, cache, asked, cancelled, body, fetched,
                    arrived, calls>>

\* GetCached found nothing, or failed, which counts as finding nothing.
Miss(r) ==
  /\ at[r] = "lookup"
  /\ \/ MayFail(r)
     \/ MaySucceed(r) /\ cache[ProfileCacheKey(asked[r].slug)] = NoProfile
  /\ FetchLive(r)
  /\ UNCHANGED <<budgetVars, live, cache, asked, cancelled, body, fetched,
                 arrived, calls>>

\* Faulty variant of Invalidate: having dropped the entry, look it up again.
InvalidateThenLookup(r) ==
  /\ at[r] = "invalidate"
  /\ \/ /\ MaySucceed(r)
        /\ cache' = [cache EXCEPT ![ProfileCacheKey(asked[r].slug)] = NoProfile]
     \/ /\ MayFail(r)
        /\ UNCHANGED cache
  /\ Goto(r, "lookup")
  /\ UNCHANGED <<budgetVars, live, asked, cancelled, body, fetched, arrived, calls>>

\* A refresh drops the entry under the slug asked for; an error is ignored.
Invalidate(r) ==
  /\ at[r] = "invalidate"
  /\ \/ /\ MaySucceed(r)
        /\ cache' = [cache EXCEPT ![ProfileCacheKey(asked[r].slug)] = NoProfile]
     \/ /\ MayFail(r)
        /\ UNCHANGED cache
  /\ FetchLive(r)
  /\ UNCHANGED <<budgetVars, live, asked, cancelled, body, fetched, arrived, calls>>

\* Faulty variant of ConsumeScrapeBudget: the verdict is not looked at.
ConsumeIgnoringVerdict(r) ==
  /\ at[r] = "budget"
  /\ \/ B!Begin(r)
     \/ MaySucceed(r) /\ (B!Incr(r) \/ B!LoseReply(r) \/ B!Expire(r))
     \/ (MayFail(r) \/ attempts[r] = MaxAttempts) /\ B!IncrFails(r)
     \/ MayFail(r) /\ B!ExpireFails(r)
  /\ Goto(r, IF pc'[r] \in {"allowed", "denied"} THEN "dashProfile" ELSE "budget")
  /\ UNCHANGED <<live, cache, asked, cancelled, body, fetched, arrived, calls>>

\* Inside ConsumeScrapeBudget; its verdict sends the request to LinkedIn or
\* ends it.  A cancelled request reaches no Redis command any more.
ConsumeScrapeBudget(r) ==
  /\ at[r] = "budget"
  /\ \/ B!Begin(r)
     \/ MaySucceed(r) /\ (B!Incr(r) \/ B!LoseReply(r) \/ B!Expire(r))
     \/ (MayFail(r) \/ attempts[r] = MaxAttempts) /\ B!IncrFails(r)
     \/ MayFail(r) /\ B!ExpireFails(r)
  /\ CASE pc'[r] = "allowed" -> Goto(r, "dashProfile")
       [] pc'[r] = "denied"  -> Fail(r, "PRF07")
       [] OTHER              -> Goto(r, "budget")
  /\ UNCHANGED <<live, cache, asked, cancelled, body, fetched, arrived, calls>>

-----------------------------------------------------------------------------
(* FetchProfile: dashProfile, which is essential, then recommendations.    *)

\* Faulty variant of CallLinkedIn: every call is sent a second time.
CallLinkedInTwice(r) == calls' = [calls EXCEPT ![r] = @ + 2]

CallLinkedIn(r) == calls' = [calls EXCEPT ![r] = @ + 1]

\* mapFailure: what an answer other than 2xx, or no answer, is reported as.
MapFailure ==
  [ denied    |-> "PRF04",    \* 3xx, 401, 403
    gone      |-> "PRF02",    \* 404, 410
    throttled |-> "PRF05",    \* 429, 999
    broken    |-> "PRF03" ]   \* any other status, a transport error, a timeout

\* The body is of the person asked for, as it is now; it may turn out not to
\* parse or to carry no name, which nobody notices before the last call.
DashProfile(r) ==
  /\ at[r] = "dashProfile"
  /\ MaySucceed(r)
  /\ CallLinkedIn(r)
  /\ \E quality \in IF "upstream" \in Faults
                    THEN {"good", "unparsable", "nameless"} ELSE {"good"} :
       body' = [body EXCEPT ![r] = [quality |-> quality, version |-> live[Person(r)]]]
  /\ Goto(r, "recommendations")
  /\ UNCHANGED <<budgetVars, live, cache, asked, cancelled, fetched, arrived>>

\* Faulty variants of DashProfileFails: a throttled request falls back on what
\* is cached; a failed request puts its unit of the budget back.
DashProfileFailsServingCache(r) ==
  /\ at[r] = "dashProfile"
  /\ CallLinkedIn(r)
  /\ LET key == ProfileCacheKey(asked[r].slug)
     IN IF cache[key] # NoProfile THEN Serve(r, cache[key], TRUE)
        ELSE Fail(r, MapFailure.throttled)
  /\ UNCHANGED <<budgetVars, live, cache, asked, cancelled, body, fetched, arrived>>

DashProfileFailsWithRefund(r) ==
  /\ at[r] = "dashProfile"
  /\ counter[keyDay[r]] > 0
  /\ counter' = [counter EXCEPT ![keyDay[r]] = @ - 1]
  /\ CallLinkedIn(r)
  /\ Fail(r, MapFailure.broken)
  /\ UNCHANGED <<today, expiresOn, restarts, pc, keyDay, used, attempts, life,
                 orphans, live, cache, asked, cancelled, body, fetched, arrived>>

\* The essential call failed: no other call is made.  The call of a cancelled
\* request ends in an error, whether or not it was sent by then.
DashProfileFails(r) ==
  /\ at[r] = "dashProfile"
  /\ \/ /\ r \in cancelled
        /\ CallLinkedIn(r) \/ UNCHANGED calls
        /\ Fail(r, MapFailure.broken)
     \/ /\ "upstream" \in Faults
        /\ CallLinkedIn(r)
        /\ \E kind \in DOMAIN MapFailure : Fail(r, MapFailure[kind])
  /\ UNCHANGED <<budgetVars, live, cache, asked, cancelled, body, fetched, arrived>>

\* Assemble: LinkedIn's own slug replaces the one asked for, when it is there.
Assemble(r, id, recommendations) ==
  [ id |-> id, person |-> Person(r), version |-> body[r].version,
    recommendations |-> recommendations ]

\* Faulty variant of Recommendations: a body that carries no profile is kept.
RecommendationsUnchecked(r) ==
  /\ at[r] = "recommendations"
  /\ \E got \in BOOLEAN :
       fetched' = [fetched EXCEPT ![r] = Assemble(r, asked[r].slug, got)]
  /\ Goto(r, "store")
  /\ CallLinkedIn(r)
  /\ UNCHANGED <<budgetVars, live, cache, asked, cancelled, body, arrived>>

\* The last call, which may fail, and what FetchProfile makes of the bodies.
Recommendations(r) ==
  /\ at[r] = "recommendations"
  /\ \E got \in BOOLEAN, id \in {Person(r), asked[r].slug} :
       /\ got => MaySucceed(r)
       /\ ~got => r \in cancelled \/ "upstream" \in Faults
       /\ IF body[r].quality = "good"
          THEN /\ fetched' = [fetched EXCEPT ![r] = Assemble(r, id, got)]
               /\ Goto(r, "store")
          ELSE /\ UNCHANGED fetched
               /\ Fail(r, IF body[r].quality = "unparsable" THEN "PRF03" ELSE "PRF02")
  /\ CallLinkedIn(r) \/ (r \in cancelled /\ UNCHANGED calls)
  /\ UNCHANGED <<budgetVars, live, cache, asked, cancelled, body, arrived>>

-----------------------------------------------------------------------------
\* Faulty variant of Store: a write that fails is tried again until it works.
StoreRetrying(r) ==
  /\ at[r] = "store"
  /\ \/ /\ MaySucceed(r)
        /\ cache' = [cache EXCEPT ![ProfileCacheKey(fetched[r].id)] = fetched[r]]
        /\ Serve(r, fetched[r], FALSE)
     \/ /\ MayFail(r)
        /\ Goto(r, "store") /\ UNCHANGED cache
  /\ UNCHANGED <<budgetVars, live, asked, cancelled, body, fetched, arrived, calls>>

\* Cache: the profile goes in under its own slug; an error is ignored.  Either
\* way it is what the caller gets.
Store(r) ==
  /\ at[r] = "store"
  /\ \/ /\ MaySucceed(r)
        /\ cache' = [cache EXCEPT ![ProfileCacheKey(fetched[r].id)] = fetched[r]]
     \/ /\ MayFail(r)
        /\ UNCHANGED cache
  /\ Serve(r, fetched[r], FALSE)
  /\ UNCHANGED <<budgetVars, live, asked, cancelled, body, fetched, arrived, calls>>

-----------------------------------------------------------------------------
(* The environment.                                                        *)

Edit(p) ==
  /\ live[p] < MaxVersion
  /\ live' = [live EXCEPT ![p] = @ + 1]
  /\ UNCHANGED <<budgetVars, cache, at, asked, cancelled, body, fetched, answer,
                 arrived, calls>>

Disconnect(r) ==
  /\ "disconnect" \in Faults
  /\ r \in Served \ cancelled
  /\ cancelled' = cancelled \cup {r}
  /\ UNCHANGED <<budgetVars, live, cache, at, asked, body, fetched, answer,
                 arrived, calls>>

EntryExpires(s) ==
  /\ "ttl" \in Faults
  /\ cache[s] # NoProfile
  /\ cache' = [cache EXCEPT ![s] = NoProfile]
  /\ UNCHANGED <<budgetVars, live, at, asked, cancelled, body, fetched, answer,
                 arrived, calls>>

RedisRestart ==
  /\ B!RedisRestart
  /\ cache' = [s \in Slugs |-> NoProfile]
  /\ UNCHANGED <<live, at, asked, cancelled, body, fetched, answer, arrived, calls>>

Clock ==
  /\ B!NextDay \/ \E d \in B!Days : B!DropKey(d)
  /\ UNCHANGED <<live, cache, at, asked, cancelled, body, fetched, answer,
                 arrived, calls>>

Crash ==
  /\ "crash" \in Faults
  /\ Served # {}
  /\ IF B!InFlight # {} THEN B!Crash ELSE UNCHANGED budgetVars
  /\ at' = [r \in Requests |-> IF r \in Served THEN "lost" ELSE at[r]]
  /\ UNCHANGED <<live, cache, asked, cancelled, body, fetched, answer, arrived, calls>>

-----------------------------------------------------------------------------
Step(r) ==
  \/ Hit(r) \/ Miss(r) \/ Invalidate(r)
  \/ ConsumeScrapeBudget(r)
  \/ DashProfile(r) \/ DashProfileFails(r) \/ Recommendations(r)
  \/ Store(r)

Next ==
  /\ UNCHANGED configured
  /\ \/ \E r \in Requests : Arrive(r) \/ Step(r) \/ Disconnect(r)
     \/ \E p \in Slugs : Edit(p) \/ EntryExpires(p)
     \/ RedisRestart
     \/ Clock
     \/ Crash

\* Every call a request makes ends: Redis commands and LinkedIn calls have
\* timeouts, the jitter is bounded, and nothing waits for another request.
Fairness == \A r \in Requests : WF_vars(Step(r) /\ UNCHANGED configured)

Spec == Init /\ [][Next]_vars /\ Fairness

-----------------------------------------------------------------------------
Places == {"idle", "lookup", "invalidate", "budget", "dashProfile",
           "recommendations", "store", "done", "lost"}

Profiles == [id : Slugs, person : Slugs, version : 1 .. MaxVersion,
             recommendations : BOOLEAN]

Bodies == [quality : {"good", "unparsable", "nameless"}, version : 1 .. MaxVersion]

ErrorCodes == {"PRF02", "PRF03", "PRF04", "PRF05", "PRF07"}

Answers ==
  {NoAnswer} \cup [code : ErrorCodes]
    \cup [code : {"ok"}, profile : Profiles, cached : BOOLEAN]

TypeOK ==
  /\ B!TypeOK
  /\ configured \in BOOLEAN
  /\ live \in [Slugs -> 1 .. MaxVersion]
  /\ cache \in [Slugs -> Profiles \cup {NoProfile}]
  /\ at \in [Requests -> Places]
  /\ asked \in [Requests -> [slug : Slugs \cup {Nobody}, refresh : BOOLEAN]]
  /\ cancelled \subseteq Requests
  /\ body \in [Requests -> Bodies \cup {NoBody}]
  /\ fetched \in [Requests -> Profiles \cup {NoProfile}]
  /\ answer \in [Requests -> Answers]
  /\ arrived \in [Requests -> 0 .. MaxVersion]
  /\ calls \in [Requests -> 0 .. 2]

\* The places before the answer to the first call to LinkedIn.
Early == {"idle", "lookup", "invalidate", "budget", "dashProfile"}

\* The requests that have been answered with a profile.
Answered == {r \in Requests : answer[r].code = "ok"}

\* Whoever asks gets the person asked for, whichever slug they used and
\* whoever filled the cache (repo_profile.go:85, assemble.go:104).
RightPerson ==
  \A r \in Answered : answer[r].profile.person = Person(r)

\* An answer that is not marked as cached shows the profile as it was after
\* the request came in, and a refresh is always answered like that
\* (service_profile.go:41-47, README.md:177).
LiveMeansLive ==
  \A r \in Answered :
    /\ asked[r].refresh => ~answer[r].cached
    /\ ~answer[r].cached => answer[r].profile.version >= arrived[r]

\* "Cached reads stay free" (service_profile.go:74): a cached answer drew no
\* unit of the budget and made no call, however the request got there.
CachedReadsAreFree ==
  \A r \in Answered :
    answer[r].cached => calls[r] = 0 /\ pc[r] = "idle" /\ used[r] = 0

\* LinkedIn hears from a request only after the budget let it through, so at
\* most Budget counted requests per life of a day's counter reach it, and none
\* that was refused does (service_profile.go:74-84).
CallsAreBudgeted ==
  /\ \A r \in Requests : calls[r] > 0 => pc[r] = "allowed"
  /\ Budget > 0 =>
       \A b \in B!Books : Cardinality({r \in B!Drawn(b) : calls[r] > 0}) <= Budget

\* A cached entry is a profile of the person whose slug it is under, at a
\* version LinkedIn has had: nothing nameless, unparsable or foreign gets in.
CacheSound ==
  \A s \in Slugs :
    cache[s] # NoProfile =>
      /\ cache[s].person = Canonical[s]
      /\ cache[s].version <= live[Canonical[s]]
      /\ \E r \in Requests : body[r].quality = "good" /\ fetched[r] = cache[s]

\* How far a request has got says what it has drawn, asked and been told.
PlaceOK ==
  \A r \in Requests :
    /\ at[r] = "idle" <=> asked[r].slug = Nobody
    /\ at[r] = "lookup" => ~asked[r].refresh
    /\ at[r] \in {"idle", "lookup", "invalidate"} => pc[r] = "idle"
    /\ at[r] = "budget" => pc[r] \in {"idle", "incr", "expire"}
    /\ at[r] \in {"dashProfile", "recommendations", "store"} => pc[r] = "allowed"
    /\ at[r] \in Early => calls[r] = 0 /\ body[r] = NoBody
    /\ at[r] = "recommendations" => calls[r] = 1 /\ body[r] # NoBody
    /\ at[r] = "done" <=> answer[r] # NoAnswer

\* What was read for a request is of its person, after it came in.
ReadingOK ==
  \A r \in Requests :
    /\ at[r] # "idle" => arrived[r] <= live[Person(r)]
    /\ body[r] # NoBody =>
         arrived[r] <= body[r].version /\ body[r].version <= live[Person(r)]
    /\ fetched[r] # NoProfile =>
         /\ body[r].quality = "good"
         /\ fetched[r].person = Person(r) /\ fetched[r].version = body[r].version
         /\ fetched[r].id \in {Person(r), asked[r].slug}
    /\ at[r] \in Early \cup {"recommendations"} => fetched[r] = NoProfile
    /\ at[r] = "store" => fetched[r] # NoProfile

\* A profile in an answer was read for its request, or for an earlier one of
\* the same person that left it in the cache.
AnswerOK ==
  \A r \in Answered :
    /\ answer[r].cached =>
         /\ calls[r] = 0 /\ pc[r] = "idle" /\ ~asked[r].refresh
         /\ answer[r].profile.person = Person(r)
         /\ \E q \in Requests :
              fetched[q] # NoProfile /\ fetched[q] = answer[r].profile
    /\ ~answer[r].cached =>
         fetched[r] # NoProfile /\ fetched[r] = answer[r].profile

\* The inductive invariant behind the safety properties.
IInv ==
  /\ TypeOK
  /\ PlaceOK
  /\ ReadingOK
  /\ AnswerOK
  /\ CacheSound
  /\ \A r \in Requests : calls[r] > 0 => pc[r] = "allowed"

\* Every request is answered, unless the process dies.
EveryRequestAnswered ==
  \A r \in Requests : at[r] # "idle" ~> at[r] \in {"done", "lost"}

\* The budget inside the service is the component ScrapeBudget: no path of the
\* service touches the counter in any other way.
BudgetComponent == B!Init /\ [][B!Next]_(B!vars)

\* What the caller of r is told, in the words of ScrapePromise.
Told(r) ==
  CASE at[r] = "lost" -> [kind |-> "lost"]
    [] at[r] # "lost" /\ answer[r].code = "none" -> [kind |-> "pending"]
    [] at[r] # "lost" /\ answer[r].code = "ok" ->
         [kind |-> "profile", person |-> answer[r].profile.person,
          version |-> answer[r].profile.version, cached |-> answer[r].cached]
    [] OTHER -> [kind |-> "error", code |-> answer[r].code]

Snapshots == [r \in Requests |-> IF body[r] = NoBody THEN 0 ELSE body[r].version]
Replies == [r \in Requests |-> Told(r)]

Promise == INSTANCE ScrapePromise WITH snapshot <- Snapshots, reply <- Replies

\* The service implements the promise: the cache, the budget and every failure
\* are invisible but for the age of a cached answer and the error codes.
ImplementsPromise == Promise!Spec
=============================================================================
