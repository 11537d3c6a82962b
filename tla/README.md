# Verification of tross-scraper

TLA+ models of the profile scraping service, TLC runs that check them on small
instances, and TLAPS proofs of the properties that matter most for instances of
any size. Paths below are relative to the repository. `PROJECT.json` maps each
definition to the lines it models and lists runs, mutants, findings, hazards
and theorems.

To check a module: `tlc -config MCScrapeBudget_faults.cfg MCScrapeBudget.tla`;
to check proofs: `tlapm ScrapeBudgetProofs.tla`.

## The system

`POST /public/v1/profile` takes a LinkedIn profile URL and returns the profile
as JSON, from a Redis cache or from LinkedIn itself, through one signed-in
session whose use is limited per day.

| component | code | state | operations |
|---|---|---|---|
| HTTP edge | `internal/controllers`, `internal/exceptions`, `pkg/utils`, `pkg/validation`, `cmd/app/routes*.go` | none | parse, validate, map errors to statuses |
| scrape orchestration | `internal/services/service_profile.go` | one call stack per request | `Scrape`, `fetchLive` |
| profile cache | `internal/repositories/repo_profile.go` over `pkg/db/redis.go` | `profile:v1:<slug>` in Redis, with a lifetime | `GetCached`, `Cache`, `Invalidate` |
| daily budget | `repo_profile.go` | `scrape-budget:<UTC day>` in Redis, with a lifetime | `ConsumeScrapeBudget` |
| LinkedIn client | `internal/clients`, `pkg/linkedin/voyager/{client,endpoints,errors}.go`, `pkg/network` | session cookies | `FetchProfile`, `SessionValid` |
| profile assembly | `voyager/{assemble,resolver,convert,profile_types}.go` | none (a graph of entities per response) | `NewGraph`, `Resolve*`, `Collection`, `Assemble` |
| sections and rendering | `internal/config`, `pkg/mapper`, `internal/response` | the section defaults, shared by all requests | `Merge`, `MergeSections`, `ToProfileResult`, `MarshalJSON` |
| health | `internal/services/service_health.go`, `repo_health.go`, `controller_health.go` | none | `Ready`, `Check`, `SessionValid` |
| process lifecycle | `cmd/server/main.go`, `cmd/app/app.go` | listener, error channel, signal, telemetry, cache client | `New`, `Run`, `shutdown` |
| idempotency, CORS | `cmd/app/middlewares` | replies in Redis / none | `WithIdempotency`, `Handler`; idempotency is mounted on no route |
| configuration | `internal/config`, `config/production.yml` | read once | `Load`, `expandEnv`, `StringList`, `applyDefaults`, `validate` |
| Postgres, telemetry, logging, spike tool | `pkg/db/database.go`, `pkg/telemetry`, `pkg/log`, `cmd/spike` | | not part of the behaviour |

A request runs in a goroutine of its own through controller → service →
repository / client, and shares with the others only Redis, the LinkedIn
session, the section defaults and the process. Nothing is locked: overlapping
requests meet at single Redis commands.

What is hard here, and what correctness means:

- **Budget.** INCR, then EXPIRE by whoever drew 1, over a client that sends an
  INCR again when a reply is lost and a server that persists nothing
  (`docker-compose.yml:10`, `render.yaml:9-11`). Correct: no value is handed out
  twice; at most the budget is admitted per life of a counter; whoever is refused
  finds the budget really spent; a counter never expires while it can be charged.
- **Cache and fetch.** Look-up, budget, two LinkedIn calls and store are separate
  steps. Correct: the answer is about the person asked for; what is not marked
  cached is not older than the request; cached reads cost nothing; LinkedIn is
  reached only through the budget; nothing unusable is cached; every request ends.
- **Rendering.** Three rules (off: no key; on and empty: `[]` or `null`; on: the
  value) over a mapper, a field list, struct tags and a shared default map.
  Correct: the rules hold, cached and live profiles render alike, and no request's
  override is seen by another.
- **Assembly.** Two flat lists of entities that refer to each other over up to five
  hops, with other members' entities among them, and with parts missing. Correct: it
  is the right member; nothing readable is lost; what breaks in one place is not
  missed in another.
- **Edge and session.** A URL is read by several rules that overlap ("in" is a prefix
  and a locale); a session is two cookies and a header, and can be lost in two ways
  that LinkedIn reports in three. Correct: the slug is that of the member whose URL
  was sent; callers are blamed for what they got wrong and for nothing else; a lost
  session shows, in a scrape and in readiness, and never as a success.
- **Lifecycle.** Listener failure, signals, a drain with a timeout, a cache closed
  under requests, and a write deadline that neither the handler nor the drain notices.
  Correct: the process stops when told; exit status 0 means that every request was
  handled to its end, and answered unless its own deadline had passed.
- **Idempotency.** A look-up, a handler and a store, with nothing held in between,
  under the context of a caller who may leave. Correct: a replay is a success of the
  same route and key under the headers of the request at hand; a handler runs again
  after a success only where it is known why.
- **Configuration and CORS.** A text goes through expansion, YAML, trimming and
  splitting before a browser's origin or a session depends on it. Correct: what a
  process runs with is what its deployment says, or it refuses to start.

## Modules

| module | models | over |
|---|---|---|
| `ScrapeLedger` | abstract: what the budget promises | books of admitted and refused calls |
| `ScrapeBudget` | `ConsumeScrapeBudget` as Redis commands, Redis, the calendar, crashes | implements `ScrapeLedger` |
| `ScrapeBudgetProofs` | proofs about it | |
| `ScrapePromise` | abstract: what a caller is promised | snapshots and replies |
| `ScrapeService` | `Scrape`, the cache, `FetchProfile`/`FetchAll`; composes `ScrapeBudget` | implements `ScrapePromise` |
| `ScrapeServiceProofs` | proofs about it, with those of the counter carried over | `ScrapeBudgetProofs` |
| `Selections` | a loop that appends what passes a test: `Keep`, by places | used by `Rendering`, `Assembly`, `ProfileURL`, `Configuration` |
| `SequenceLemmas` | lemmas about `Keep`, ranks of places, `FlattenSeq` and pieces of sequences | used by the proofs about these four |
| `Rendering` | section sets, `MergeSections`, `ToProfileResult`, `MarshalJSON` | |
| `RenderingProofs` | proofs about it | |
| `Assembly` | the entity graph, `Assemble` and its sections, over responses that change | |
| `AssemblyProofs` | proofs about it | |
| `ProfileURL` | `ParseProfileURL` and its helpers, and what a URL denotes | texts of structured parts |
| `Edge` | `Scrape` and `Ready` of the controllers, error catalogue, envelope, `mapFailure`, `Check`, the session | uses `ProfileURL` |
| `EdgeProofs` | proofs about it and about `ProfileURL` | |
| `Configuration` | `Load` and what it calls, `config/production.yml` | texts of tokens |
| `Middlewares` | `Recovery`, CORS and `WithIdempotency` in front of a handler, over processes that start, crash and start again | uses `Configuration` |
| `MiddlewaresProofs` | proofs about it and about `Configuration` | |
| `Lifecycle` | `run`, `New`, `Run`, `shutdown`, signals, requests in flight | |
| `LifecycleProofs` | proofs about it | |
| `MC*` | constants of the runs | |

### How state and actions correspond to the code

`ScrapeBudget`. A call of `ConsumeScrapeBudget` is an element of `Requests`;
`pc` says which Redis command it sends next. `Begin` is lines 61-66 of
`repo_profile.go` (a budget of zero or less returns at once, and the day is read
here and never again), `Incr` line 68, with the comparison of line 82 when the
value is not 1, `IncrFails` 69-73, `Expire` and `ExpireFails` 76-80. `LoseReply`
is go-redis: a command whose reply is lost is sent again, `MaxRetries` times.
`counter` and `expiresOn` are the key on the server; `DropKey` is Redis dropping
it at any time after its lifetime, `RedisRestart` an empty Redis. Time is
counted in UTC days; `NextDay` may not overtake a call that has read the day
before last, because a call lasts seconds. `life` and `orphans` are history: in
which life of Redis a value was drawn, and which increments reached nobody.

`ScrapeService`. `at` is the next call of a request that leaves the process.
`Arrive` to `Store` follow `service_profile.go:37-88`: a refresh invalidates and
does not look up; a failed look-up is a miss; an `Invalidate` or `Cache` that
fails is only logged; a missing client is PRF04 before the budget is touched; a
refused budget is PRF07. `DashProfile` and `Recommendations` are the two calls of
`FetchAll` in order: without the first there is no second, and without the second
there is a profile without recommendations. `mapFailure` is a function on the
four kinds of upstream failure. A body is abstracted to its version and to
whether it parses and names a person; this is looked at after both calls, as in
the code. A stored profile goes under the slug LinkedIn gives it, a look-up under
the slug asked for, which may differ (`Canonical`). `Disconnect` cancels the
request context: from then on each Redis command and LinkedIn call fails.

`Rendering`. A section set is a partial function to BOOLEAN, absent meaning off,
as in the Go map. `sections[r]` keeps whether a request holds the shared default
map itself or a copy, since `MergeSections` returns the defaults when there is no
override. The keys of a config file and of an override carry blanks that are trimmed
before matching, so two keys may name one section, and map order decides: `Requested`
is the set of outcomes. A name that is no section's refuses an override
(`MergeSections`) and keeps a process from starting (`Refused`, `Loaded`, which are
`SectionSet.UnmarshalYAML`).
A value that is absent is "empty" or "nil", since Go renders them differently.

`Assembly`. A response is what the wire format is: a list of entities with urns
(`included`) and the urns in `data`. Decoding is permissive, so every entity has all
fields, with zero values where nothing was sent; an entity is "misshapen" when a field
has another type than the struct, "unreadable" when it is no object with a urn; one
whose urn is empty is skipped (`resolver.go:54`). A pointer is assumed to lead to an
entity of the kind it names. `Graph`, `Resolve`, `ResolveAll`, `Collection` and
`ByType` are operators of the same names. Of the 13 sections each way of reading one
is kept: experience (groups and roles), skills (deduplicated), sections that name an
organisation, sections that credit people, and the plain ones. The steps are scrapes
against a response that has changed in one more place, which is what properties about
damage need.

`ProfileURL`. A text is a record: whether it is blank or has a scheme, the labels of
its host, the segments of its path as written, whether its query has a URL in it.
What `strings.ToLower`, the decoding in `url.Parse` and `url.PathUnescape` do to a
name is a table given as a constant. `Denotes` says what a text means without the
parser, on its decoded path: a LinkedIn host, at most one locale, a prefix, the slug,
whatever scheme and query. `Mistaken` names the texts that the parser gets wrong.

`Edge`. `at` is what a request does next. `Scrape(r)` is `ControllerProfile.Scrape` up
to the call of the service (`controller_profile.go:27-53`); `FromCache`, `Refuse`,
`FetchProfile` and `Recommendations` are what the service can come to, with statuses
where `ScrapeService` has four kinds of failure; `PingCache` and `SessionValid` are
the two halves of `Check`, and `Conclude` the answer that `Ready` makes of them. The
session is `login` (what LinkedIn thinks of li_at) and `jar` (whether the JSESSIONID
in the jar is still the one the csrf-token header was fixed to). `LinkedInAnswers` is
what is assumed of LinkedIn: it serves no session that is not good, and rejects none
that is. `signedIn` is history. No request carries a cookie of its own, so a scrape
and a probe affect each other only through the jar.

`Lifecycle`. `phase` is the main goroutine: loading, dialling, serving (blocked
in `select`), draining (`http.Shutdown`), flushing, closing, returning, exited.
`serveErr` is the channel of the listening goroutine, `listener` that goroutine.
A request reads the cache, may wait for LinkedIn, and writes the cache. Time is
abstracted away: the timeout of the drain may come at any moment of it, and so may
the write deadline of a connection (`WriteTimeout`, `app.go:83`): a request that is in
`late` is handled like any other, but its answer is "dropped" by the connection.

`Configuration`. A text is a sequence of tokens, words and the three characters that
decide (blank, quote, comma). A file gives each key the style of its scalar and a
template; `ExpandEnv` pastes the environment into the template before YAML sees it,
as the code does, so `WellFormed`, which is external, may find the result broken.
`Load` is `Parses`, `ApplyDefaults` and `Valid` in that order. `ProductionFile` is the
committed file. Fields of logging, TLS and the pool are left out: nothing here
depends on them.

`Middlewares`. `given` is what is deployed, `cfg` what `Load` made of it. What a
deployment says is stated without `Load`, by the places of its texts: a word is named
(`NamedIn`), or stands alone (`Only`, `IsPasted`), when the rest of the text is blank,
quotes, or on the far side of a comma that separates. A deployment is `Faulty` when it
lacks a name or a Redis host, names no environment, has a number that is none, or a
text that YAML stumbles over (`Broken`). `Start` is
refused or not, `Crash` ends the requests and leaves Redis as it is. `Preflight` and
`Welcome` are `middleware_cors.go`; `NoKey`, `Admit`, `Replay`, `Miss`, `Handle` and
`Store` are `WithIdempotency`, one Redis command to a step, each of which fails once
the caller has left. `ran`, `before`, `failed` and `lapsed` are history; `failed` has
which command failed, and whether for the sake of Redis or of the caller. No route of this
commit mounts the idempotency middleware; it is modelled as two routes would run it.

## Runs

| run | question | bounds |
|---|---|---|
| `budget` | do the inductive invariant of the proofs and its consequences hold, and does the counter implement the ledger? | 3 calls, budget 2, 3 days, 2 sends per INCR, 1 Redis restart, every fault |
| `scrape_safety` | who is shown what, who pays, who may call LinkedIn, and is the counter used as `ScrapeBudget` only? | 2 requests, 2 persons, budget 1, 1 version, 2 days, no refresh, every fault but a caller who leaves |
| `scrape_answered` | what gets into the cache, what counts as live, and is every request answered with what the caller is promised? | 2 requests, 2 slugs of one person, 2 versions, refreshes, LinkedIn failing, disconnects |
| `rendering` | do the three rules hold, alike for cached and live profiles, without a leak between requests? | 2 requests, 5 of 21 sections (both nested kinds, three lists), 5 overrides, 5 config files, typos in both, all contents |
| `lifecycle` | what does exit status 0 mean, under whom is the cache closed, does the process stop? | 3 requests, listener failing, signal and write deadlines at any time |
| `edge` | whose slug is it, who is blamed, does a lost session show? | 1 scrape, 1 probe, 121 texts over 93 paths and 7 hosts, 62 of which have a slug and 7 of which the code mistakes, 7 statuses, both ways to lose a session, Redis up and down |
| `middlewares` | who is answered for whom, when does a handler run again, which browser is let in, what does a process make of its deployment? | 2 requests, 6 calls, 18 deployments, a status that is stored and one that is not, crashes, expiry, every failure of Redis |
| `assembly` | whose profile is it, is anything readable lost, does damage stay where it is? | 28 entities of one member and a connection, one of them without a urn, every pair of changes |
| `budget_outage`, `assembly_fallback`, `rendering_defaults`, `middlewares_twice` | violations, see below | smallest instance |

Where there are proofs, the run checks the inductive invariant `IInv` itself, whose
first conjunct is the type invariant.

Why the bounds are enough. Three calls with a budget of two reach the last unit, the
first refusal, and a call that sits between INCR and EXPIRE while both happen; three
days let a counter expire, and its day be over before; one restart gives a counter two
lives. Two requests are enough for every race of `Scrape`, whose steps read and write
one entry each; two persons show that entries stay apart, two slugs of one person that
they may not. Sections are independent of each other but for their order, so one of
each kind that the mapper treats differently is enough. `scrape_safety` has two days,
so no counter reaches the end of its lifetime there; `budget` has that case, and the
proofs have all of them. One version is enough for who and what it costs; which
version is the question of `scrape_answered`. Two requests with one key meet in every
order of look-up, handler and store, and a crash or an expiry comes between any two of
these. Two changes to a response are enough because a section depends on a chain of
references: one change cuts it, two cut it in two places or cut two sections at once.
A scrape and a probe share only the session and Redis, so one of each, with an
environment that may change between any two of their steps, shows what each can do to
the other. Symmetry is used only in runs without liveness properties, over requests.

Deadlock is not checked: each request or call runs once and each calendar ends,
so every instance comes to rest.

Fairness. `ScrapeService` assumes weak fairness of each request's own step: Redis
commands and LinkedIn calls have timeouts, the jitter is bounded, and nothing waits
for another request. Nothing is assumed of the environment. `Lifecycle` assumes
weak fairness of the main goroutine alone, for which only `select` can block
forever; `http.Shutdown` is bounded by its context. Neither LinkedIn nor the
requests are assumed to progress there, so `StopsWhenTold` does not rely on them.

## Findings

Each is a place where the documentation and the code disagree, with a run that
finds the violation.

1. `budget_outage`: the README calls the daily budget a hard cap (`README.md:152`,
   `307`); when Redis fails, requests go through uncounted (`repo_profile.go:69-73`).
2. `assembly_fallback`: "if `data` omits a section whose entities sit in `included`
   anyway, the parser falls back to scanning by type" (`README.md:282-285`); only
   experience and the member itself do (`assemble.go:47-58`, `132-138`).
3. `rendering_defaults`: "All 21 sections default to on" (`README.md:133`); the
   default applies only to a config that names no section, so the example config of
   the README turns everything off.
4. `middlewares_twice`: handlers "that must not run twice for the same client-supplied
   key" (`middleware_idempotency.go:19-20`) do, with Redis well, when two requests
   overlap: the entry is looked up before the handler (`:68`) and written after it
   (`:92`). So they do when the first caller has left by the time its response is
   stored, since the store uses the context of the request. No route mounts the
   middleware at this commit.

Three more divergences sit inside properties that are otherwise exact. Each is excepted
by a definition that says which inputs it is, and a repaired program would violate the
property until the exception is dropped:

- `Mistaken` (`SlugIsTheMember`, `BlamesTheRightSide`): a URL without a scheme is
  refused when its query has "://" in it (`profile_validation.go:33`), although the
  parser is to be "forgiving about scheme, subdomain and query" (`:25`) and no scheme
  is needed (`README.md:175`).
- `QuotedTwice` (`SettingsAsGiven`): quotes around a pasted JSESSIONID are said to be
  stripped (`config.go:178`), but in `production.yml:35`, whose scalar is double-quoted,
  they end the scalar and the process refuses to start. `README.md:146` asks for the
  value without quotes.
- `LosesCeiling` (`SettingsAsGiven`): a budget variable that holds only blanks takes the
  ceiling off, where `README.md:152` has a default of 200.

Also seen: an enabled section without data should be `[]` or `null` (`README.md:224`),
but about, contactInfo and openTo are left out (`response_profile.go:23-25`), so that
`sectionsUnavailable` is all that tells them from sections that are off
(`UnavailableExplainsEmpty` says so); "an expired `li_at` gives `PRF04` and `linkedin:
down` on readiness" (`README.md:366`), but Ready builds the body that names the
dependency (`controller_health.go:38`) and `SendApiResponseV2` drops it when there is
an error (`response.go:37-40`), so the 503 does not say which is down; Run "drains and
releases everything" (`app.go:122`), but the drain ends after 15 s while a fetch may
take two calls of 20 s; two overlapping requests for one person both miss and both
fetch, where `README.md:306` has a profile "fetched once, not once per request"; the
fallback of experience takes the positions of other members too; a role whose own
company entity has no name does not fall back on that of its group; a failed EXPIRE
leaves a counter without lifetime (harmless to later days, whose keys differ); a
refresh with no budget left drops the copy that could still be served; a slower fetch
overwrites a newer entry; a profile without recommendations is cached as long as a
complete one; `sectionsReturned` is `null` when no section is on; a second signal is
ignored during the drain.

In the middlewares and the configuration: the same key with another body is answered
with the response to the first; a POST from an origin that is not allowed runs its
handler all the same and only goes without headers; a blank inside the quotes of a
pasted JSESSIONID is kept, since blanks are trimmed first; a file that leaves out
`daily_scrape_budget` has no ceiling, as has one with a negative number; a negative
cache lifetime means none; and `$name` in a literal of the file is taken for a
reference to the environment.

## Proofs

`ScrapeBudgetProofs`, for any finite set of calls, any budget, any calendar,
number of retries and restarts, and any choice of faults:

- `TypeCorrect`, `Inductive`: `TypeOK` and `IInv` are invariants.
- `NoTicketTwice`, `BudgetCeiling`, `RefusalsAreJustified`: the three safety
  properties of the counter; `ExpiryIsHarmless`: its action property
  (`ExpiryNeverRefunds`).
- `CounterImplementsLedger`: every step is a step of `ScrapeLedger` or a stutter.

None of them is inductive. That at most `Budget` calls are admitted follows from
distinct values in 1..Budget (an injection, counted with the theorems on finite
sets). That values are distinct needs that the counter covers every value drawn
from it (`CounterCoversTickets`), which needs that it does not expire while it can
be charged (`LifetimeOK`, with `ClockOK`: no call is a day late). That refusals are
justified needs that each unit of a counter is held or orphaned
(`UnitsAccountedFor`), which is stated only up to the budget, because values above
it are refused and hold nothing. The proof has one lemma per action; the only hard
one is the answered INCR, for which `IncrBooks` says what it does to the books.
Assumed: `Requests` is finite, `Budget` is an integer, the bounds are numbers.

`ScrapeServiceProofs`, for any set of requests and slugs, and any bounds and faults:

- `CounterIsComponent`: `Spec` of the service implies `Spec` of the counter
  (`BudgetComponent`): each action either is one of `ScrapeBudget` or leaves its
  variables alone. `BP` is an instance of `ScrapeBudgetProofs` over the variables of the
  service, so that what is proved there can be cited here.
- `Inductive`: `IInv` is an invariant. Its parts say what a request may rely on at
  each of its steps (`PlaceOK`), what the bodies it has read are (`ReadingOK`: they are
  of the person asked for, and at a version LinkedIn had between arrival and now),
  and what it was answered (`AnswerOK`).
- `PersonIsRight` (`RightPerson`), `LiveIsLive` (`LiveMeansLive`), `CacheIsSound`
  (`CacheSound`) and `CachedReadsCostNothing` (`CachedReadsAreFree`) follow from it.
- `CallsStayInBudget` (`CallsAreBudgeted`) follows from it and from `BudgetCeiling` of
  the component: LinkedIn hears only from requests that were let through, and those
  are at most `Budget` in one life of a counter.
- `ServiceKeepsPromise` (`ImplementsPromise`): every step is one of `ScrapePromise` or
  one that no caller notices.

Assumed beyond what `ScrapeBudget` assumes: a slug belongs to one person and is
canonical for itself, `Nobody` is no slug, and the bounds are numbers.

`RenderingProofs`, for any sections, config files, overrides and profiles:
`Inductive`, `CachedIsLive` (`CachedRendersAsLive`), `RulesHold` (`ThreeRules`, the
order of the keys and of both lists included), `EmptyIsExplained`
(`UnavailableExplainsEmpty`) and `DefaultsAreShared` (`DefaultsStay`). What makes the
invariant inductive is that a request that was let through holds the shared defaults,
having no override, or a copy with all it asked for, in both cases without a misspelt
name (`MergedOK`), and that the cache holds the whole profile (`CacheWhole`).

`SequenceLemmas` is what the proofs about sequences rest on. The code filters and
flattens slices in loops; said by recursion, what comes out could only be reasoned
about by induction over the data. `Selections` says it by places instead: `Keep(s,
places)` has at k the element whose place is the k-th of `places` (its `Rank` is k), so
that what is kept, in which order and how much of it follows from the cardinality of
finite sets of numbers. `FlattenAt` says the same of the community modules' `FlattenSeq`:
an element stands behind those of the slots before its own. Where a step still needs
induction, it is the search for a least counterexample (`LeastNumber`).

`AssemblyProofs`, for any members, urns, slugs asked for, kinds of change, and any
response within the assumptions below: `Inductive`, `TypesOK` (`TypeOK`),
`RightMemberHolds` (`RightMember`), `ExperienceIsComplete` (`ExperienceComplete`),
`CompanyIsFound` (`CompanyFound`) and `WeakSectionsDoNotSpread`
(`SectionsAreIndependent`). `IInv` says that what was scraped is `FetchProfile` of the
response at hand and that the response is one of those the assumptions allow
(`ResponsesOK`); the properties are then facts about `Assemble`. The argument goes
along the references: an urn leads to the one entity that has it (`LookedUp`), a
collection lists what its elements lead to, in their order (`CollectionAsListed`,
`ListedInOrder`), and the independence of sections from two facts: two responses that
agree on what can be reached from a section in four hops (`SameReach`) make the same
of it (`SameSection`). Assumed: what a slug may ask for is a slug, the bound is a
number, the member has a urn, at most one entity of a response has a given urn, and of
the profiles in a response only the member's has the slug asked for. Without the last
two `RightMember` is false of the code, which takes the last of two entities and the
first of two members. They are checked for the instance by TLC.

`EdgeProofs`, for any scrapes, probes, inputs and statuses: `Inductive`, `LiveIsSignedIn`
(`LiveMeansSignedIn`), `LossShows` (`LossIsShown`), `ReadinessIsProbed`
(`ReadyMeansProbed`), `SlugIsRight` (`SlugIsTheMember`) and `BlameIsFair`
(`BlamesTheRightSide`). `FlightOK` is the strengthening for the session: one that was
gone when a request came is gone as long as the process lives, and whoever is past the
first call had one. `ReadOK` is the strengthening for the input: what the checks
refused was answered so and never asked of LinkedIn, and what they let through is
blamed on nobody. That the slug is the right one is a fact about the parser
(`SlugIsRead`), for hosts of any number of labels and paths of any number of segments.
Decoding comes before the path is split, in the parser as in the meaning
(`PathIsDecoded`); what is left is that a locale goes first and a prefix never passes
for one (`StrippedLead`), and that a host ends in the two labels of the site
(`HostIsLinkedIn`). Of the tables nothing is assumed but that no word that introduces
another page, and not "pub", has the shape of a locale (`TablesAssumption`), which the
letters of the words show. So the theorems cover every path a caller can send, prefixes
and locales with escapes in them and slugs behind an encoded slash included
(`/%69n/priya`, `/in/%2Fpriya`).

`MiddlewaresProofs`, for any requests, callers and deployments: `Inductive`,
`ReplaysAreReplays` (`ReplaysAreFaithful`), `SecondRunsAreExplained`
(`SecondRunIsExplained`), `OriginsAreRight` (`OriginsAsConfigured`) and
`SettingsAreRight` (`SettingsAsGiven`). `IInv` is two invariants, one after the other:
`RequestInv`, and `HeadersOK` on top of it. A replay is faithful because what Redis
holds is the success of a request that is over (`StoredOK`), and being over is final.
A second run is explained before the handler starts (`MissExplained`): the store of
the first or the look-up of the second failed, or the entry is gone. That is so
because a success that is over is in Redis or it is known why not (`KeptOK`). The last
two need `HeadersOK`: every process has loaded the same configuration or none, and the
headers of an answer, a replayed one included, are those of its own origin under it.
What remains are facts about `Load`, for texts of any length in any style. A scalar is
a piece of its text, with only what YAML ignores around it (`ScalarIsAPiece`); a
trimmed text is the piece between the first and the last token that is not trimmed
(`TrimmedText`); the items of a split text are the pieces between neighbouring commas
(`SplitPieces`, from the ranks of the commas). So an origin is in the list exactly
when it stands alone in its item (`OriginsAreNamed`), and a pasted cookie comes out
bare (`PastedToOne`); what YAML stumbles over can be told from the text alone
(`BrokenIsRefused`, with `ClosedInPlace` for a quote that opens a plain scalar and
`BarePiece` for what blanks leave of it), so that a deployment is refused for its
faults and for nothing else (`FaultsAreRefused`, with `EnvironmentIsNamed` and
`NumbersAreHeld`), but for the cookie quoted twice. Assumed (`GivensAssumption`,
`CallsAssumption`, `NumeralAssumption`): a scalar has one of the three styles, the
origins are one text when they are a scalar, the Origin a browser sends is one word,
and no numeral is a blank, a quote or a comma.

`LifecycleProofs`, for any set of requests: `TypeCorrect`, `Inductive`,
`ExitZeroIsClean` (`CleanExit`) and `CacheClosesLast` (`CacheOutlivesHandlers`). The
invariant says what each phase of the main goroutine may rely on; `DrainedOK` is
the strengthening: from a drain that succeeded to the exit nothing is in flight
and nothing can come in.

Every safety invariant and action property of the passing runs is proved. Only
model-checked: liveness (`EveryRequestAnswered`, `StopsWhenTold`), which, like
`ENABLED`, is out of the prover's reach.

## Not modelled

Postgres (never used), telemetry and logging (nothing depends on them), the spike
tool, Redis connection handling, HTTP headers other than csrf-token and those of
CORS, and configuration keys of logging, TLS and the pool. LinkedIn is assumed to
answer with the person asked for. Timeouts are modelled as events that may happen,
not with their durations, and the idempotency middleware without the body of the
stored response, which is one with the request that got it.

## Plan

In this order, most important first; what is done is marked.

1. (done) Budget: `ScrapeLedger`, `ScrapeBudget`, proofs.
2. (done) Scrape and cache: `ScrapePromise`, `ScrapeService`, composing 1, proofs.
3. (done) `Rendering` with proofs. 4. (done) `Lifecycle` with proofs. 5. (done) `Assembly`, proofs.
6. (done) `ProfileURL` and `Edge` with readiness and the session, proofs.
7. (done) `Configuration` and `Middlewares`, proofs.
8. Durations: which timeouts fit into which (two fetches of 20 s into a drain of 15 s
   and a write deadline of 60 s), with a clock instead of events.
9. (done) Lemmas about sequences and the graph; proofs for `Assembly` and `ProfileURL`.
10. (done) `Split` and `Trim` by places; proofs of `OriginsAsConfigured` and `SettingsAsGiven`.
