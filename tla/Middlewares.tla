----------------------------- MODULE Middlewares ----------------------------
(***************************************************************************)
(* The HTTP middleware chain in front of a handler, and the configuration  *)
(* it runs with: gin.Recovery, the CORS middleware, and the idempotency    *)
(* middleware, which no route mounts at this commit; it is modelled as a   *)
(* route that mounts it would run it.                                      *)
(*                                                                         *)
(* A process loads its file and its environment, or refuses to start.      *)
(* Each request then makes at most two calls to Redis, one before and one  *)
(* after its handler, and anything may happen between them: other requests *)
(* with the same key, a caller who leaves, an entry that expires, a crash. *)
(* Entries live in Redis and outlast the process.                          *)
(***************************************************************************)
EXTENDS Configuration

CONSTANTS
  Requests,
  Givens,    \* what a deployment may come with: its file and its environment
  Calls,     \* what callers send: method, origin, route and key
  Statuses   \* what the handler behind the middleware answers

ASSUME StatusesAssumption == Statuses \subseteq 200 .. 599

\* What can be deployed: texts, in one of the styles, and one of them in a scalar.
IsText(text) == text \in Seq(ToSet(text))
IsDeployment(d) ==
  LET styles == {"double", "single", "plain"}
      list == d.file.origins
  IN  /\ \A k \in Texts \cup Numbers :
           d.file.style[k] \in styles /\ IsText(ExpandEnv(d.file.template[k], d.env))
      /\ list.style \in styles
      /\ IsText(list.items)
      /\ list.kind = "scalar" => Len(list.items) = 1
      /\ \A n \in DOMAIN list.items : IsText(ExpandEnv(list.items[n], d.env))
ASSUME GivensAssumption == \A d \in Givens : IsDeployment(d)

\* The Origin of a browser is one word.
IsOrigin(text) == text = <<text[1]>> /\ text[1] \notin {Blank, Quote, Comma}
ASSUME CallsAssumption == \A c \in Calls : c.origin = Empty \/ IsOrigin(c.origin)

VARIABLES
  given,      \* the file and the environment, the same for every start
  cfg,        \* what Load made of them, or Refused
  phase,      \* the process: "down", "up" or "refused"
  stored,     \* Redis: cache key -> cachedResponse, or NoEntry
  at,         \* request -> what it does next
  call,       \* request -> what its caller sent
  cancelled,  \* the requests whose context is cancelled
  answer,     \* request -> the answer: status, echoed origin, whose body
  ran,        \* history: request -> the status its handler gave, or 0
  before,     \* history: request -> the requests that were over when it came
  failed,     \* history: which commands failed, of whom, and for whose sake
  lapsed      \* history: the requests that were over when their key expired

process == <<given, cfg, phase>>
vars == <<process, stored, at, call, cancelled, answer, ran, before, failed, lapsed>>

NoEntry == [status |-> 0]
NoCall == [method |-> "none"]
NoAnswer == [status |-> 0, allow |-> Empty, by |-> {}]

\* Faulty variant of CacheKey: one name space for all routes.
CacheKeyShared(route, key) == <<"idmp", key>>

\* keyPrefix is a word of the route's own, so that two routes cannot collide.
CacheKey(route, key) == <<route, key>>

Key(r) == CacheKey(call[r].route, TrimSpace(call[r].key))

CacheKeys == {CacheKey(c.route, TrimSpace(c.key)) : c \in Calls}

Working == {"lookup", "handler", "store"}

Init ==
  /\ given \in Givens
  /\ cfg = Refused
  /\ phase = "down"
  /\ stored = [k \in CacheKeys |-> NoEntry]
  /\ at = [r \in Requests |-> "idle"]
  /\ call = [r \in Requests |-> NoCall]
  /\ cancelled = {}
  /\ answer = [r \in Requests |-> NoAnswer]
  /\ ran = [r \in Requests |-> 0]
  /\ before = [r \in Requests |-> {}]
  /\ failed = {}
  /\ lapsed = {}

-----------------------------------------------------------------------------
(* The process.                                                            *)

\* Faulty variant of Start: the error is dropped.
StartAnyway ==
  /\ phase = "down"
  /\ cfg' = Load(given.file, given.env)
  /\ phase' = "up"
  /\ UNCHANGED <<given, stored, at, call, cancelled, answer, ran, before, failed, lapsed>>

Start ==
  /\ phase = "down"
  /\ cfg' = Load(given.file, given.env)
  /\ phase' = IF cfg' = Refused THEN "refused" ELSE "up"
  /\ UNCHANGED <<given, stored, at, call, cancelled, answer, ran, before, failed, lapsed>>

\* The process dies with its requests.  What Redis was given stays there.
Crash ==
  /\ phase = "up"
  /\ phase' = "down"
  /\ at' = [r \in Requests |-> IF at[r] \in Working THEN "lost" ELSE at[r]]
  /\ UNCHANGED <<given, cfg, stored, call, cancelled, answer, ran, before, failed, lapsed>>

-----------------------------------------------------------------------------
(* CORS.                                                                   *)

\* Without a list of origins the middleware is a no-op, and a request without
\* an Origin is none of its business; "*" allows any.
Welcome(c) ==
  /\ c.origin # Empty
  /\ Range(cfg.origins) \cap {<<"*">>, c.origin} # {}

\* Access-Control-Allow-Origin: the origin itself, also where "*" allows it.
Allow(c) == IF Welcome(c) THEN c.origin ELSE Empty

\* A preflight that is no business of CORS finds no route: OPTIONS has none.
PreflightStatus(c) ==
  CASE Welcome(c) -> 204
    [] ~Welcome(c) /\ c.origin # Empty /\ cfg.origins # Empty -> 403
    [] OTHER -> 404

Come(r, c) ==
  /\ phase = "up"
  /\ at[r] = "idle"
  /\ call' = [call EXCEPT ![r] = c]
  /\ before' = [before EXCEPT ![r] = {q \in Requests : at[q] = "done"}]
  /\ UNCHANGED <<process, stored, cancelled, ran, failed, lapsed>>

\* It is sent on to place, or done with, under the headers of its origin.
Send(r, c, place, status) ==
  /\ at' = [at EXCEPT ![r] = place]
  /\ answer' = [answer EXCEPT ![r] = [status |-> status, allow |-> Allow(c), by |-> {}]]

Preflight(r) ==
  \E c \in Calls :
    /\ c.method = "OPTIONS"
    /\ Come(r, c)
    /\ Send(r, c, "done", PreflightStatus(c))

-----------------------------------------------------------------------------
(* WithIdempotency.                                                        *)

\* RequireNonEmpty: no key, or a blank one, is INV01.
NoKey(r) ==
  \E c \in Calls :
    /\ c.method # "OPTIONS"
    /\ TrimSpace(c.key) = Empty
    /\ Come(r, c)
    /\ Send(r, c, "done", 400)

\* An origin that is not welcome comes through all the same, without headers.
Admit(r) ==
  \E c \in Calls :
    /\ c.method # "OPTIONS"
    /\ TrimSpace(c.key) # Empty
    /\ Come(r, c)
    /\ Send(r, c, "lookup", 0)

\* The command of Redis that r is at.  It fails when the context of r is cancelled,
\* because the caller has left, and Redis itself may fail at any time.
Succeeds(r) == r \notin cancelled /\ UNCHANGED failed
Fails(r) ==
  failed' = failed \cup {<<r, at[r], IF r \in cancelled THEN "caller" ELSE "redis">>}

\* A status and a body, beside the headers that are there already.
Write(r, status, by) ==
  answer' = [answer EXCEPT ![r] =
               [status |-> status, allow |-> answer[r].allow, by |-> by]]

\* GetJSON finds a response: the handler does not run.
Replay(r) ==
  /\ at[r] = "lookup"
  /\ Succeeds(r)
  /\ stored[Key(r)] # NoEntry
  /\ at' = [at EXCEPT ![r] = "done"]
  /\ Write(r, stored[Key(r)].status, {stored[Key(r)].by})
  /\ UNCHANGED <<process, stored, call, cancelled, ran, before, lapsed>>

\* It finds none, or fails, which is only logged.
Miss(r) ==
  /\ at[r] = "lookup"
  /\ \/ Succeeds(r) /\ stored[Key(r)] = NoEntry
     \/ Fails(r)
  /\ at' = [at EXCEPT ![r] = "handler"]
  /\ UNCHANGED <<process, stored, call, cancelled, answer, ran, before, lapsed>>

\* Faulty variant of Replayable: off by one.
ReplayableOffByOne(status) == status > 200 /\ status < 300

\* "Only successes are replayable; a failure stays retryable with the same key."
Replayable(status) == status \in 200 .. 299

\* The handler runs.  One that panics is answered 500 by Recovery.
Handle(r) ==
  /\ at[r] = "handler"
  /\ \E status \in Statuses :
       /\ ran' = [ran EXCEPT ![r] = status]
       /\ Write(r, status, {r})
       /\ at' = [at EXCEPT ![r] = IF Replayable(status) THEN "store" ELSE "done"]
  /\ UNCHANGED <<process, stored, call, cancelled, before, failed, lapsed>>

\* SetJSON, with the context of the request.  An error is only logged, whether
\* the entry got to Redis before it or not.
Store(r) ==
  LET kept == [stored EXCEPT ![Key(r)] = [status |-> answer[r].status, by |-> r]]
  IN
  /\ at[r] = "store"
  /\ \/ Succeeds(r) /\ stored' = kept
     \/ Fails(r) /\ stored' \in {stored, kept}
  /\ at' = [at EXCEPT ![r] = "done"]
  /\ UNCHANGED <<process, call, cancelled, answer, ran, before, lapsed>>

-----------------------------------------------------------------------------
(* The environment.                                                        *)

\* The caller goes away, and the context of its request is cancelled; the
\* handler is not interrupted.
Disconnect(r) ==
  /\ at[r] \in Working
  /\ r \notin cancelled
  /\ cancelled' = cancelled \cup {r}
  /\ UNCHANGED <<process, stored, at, call, answer, ran, before, failed, lapsed>>

\* replayTTL is over, or Redis restarts and forgets.
Expire(k) ==
  /\ stored[k] # NoEntry
  /\ stored' = [stored EXCEPT ![k] = NoEntry]
  /\ lapsed' = lapsed \cup {q \in Requests : at[q] = "done" /\ Key(q) = k}
  /\ UNCHANGED <<process, at, call, cancelled, answer, ran, before, failed>>

Step(r) ==
  \/ Preflight(r) \/ NoKey(r) \/ Admit(r)
  \/ Replay(r) \/ Miss(r) \/ Handle(r) \/ Store(r)
  \/ Disconnect(r)

Next ==
  \/ Start \/ Crash
  \/ \E r \in Requests : Step(r)
  \/ \E k \in CacheKeys : Expire(k)

Spec == Init /\ [][Next]_vars

-----------------------------------------------------------------------------
(* Properties.                                                             *)

Ok(status) == status >= 200 /\ status < 300

Failures == Requests \X {"lookup", "store"} \X {"redis", "caller"}
Failed(r, command) == \E cause \in {"redis", "caller"} : <<r, command, cause>> \in failed

\* What each variable may hold; a running process has a configuration.
TypeOK ==
  /\ given \in Givens
  /\ phase \in {"down", "up", "refused"}
  /\ phase = "up" => cfg # Refused
  /\ stored \in [CacheKeys -> {NoEntry} \cup [status : Statuses, by : Requests]]
  /\ at \in [Requests -> {"idle", "done", "lost"} \cup Working]
  /\ call \in [Requests -> {NoCall} \cup Calls]
  /\ cancelled \subseteq Requests
  /\ answer \in [Requests -> [status : {0, 204, 400, 403, 404} \cup Statuses,
                              allow : {Empty} \cup {c.origin : c \in Calls},
                              by : SUBSET Requests]]
  /\ ran \in [Requests -> {0} \cup Statuses]
  /\ before \in [Requests -> SUBSET Requests]
  /\ failed \subseteq Failures
  /\ lapsed \subseteq Requests

SameKey(q, r) ==
  /\ call[q].route = call[r].route
  /\ TrimSpace(call[q].key) = TrimSpace(call[r].key)

\* What is answered for another request is what that request was answered: it
\* came by the same route with the same key, its handler ran to a success, and
\* the handler of the one that is answered has not run.
ReplaysAreFaithful ==
  \A q, r \in Requests :
    q # r /\ q \in answer[r].by =>
      /\ SameKey(q, r)
      /\ ran[r] = 0
      /\ Ok(ran[q]) /\ answer[r].status = ran[q]

\* Once a request has succeeded and is over, a later one with its key runs the
\* handler again only if the very command failed that would have stopped it, the
\* store of the first or the lookup of the second, or the entry has expired.  This
\* is less than the code says of itself (KeyRunsOnce): a caller who leaves makes a
\* command fail, and requests that overlap are not covered.
SecondRunIsExplained ==
  \A r \in Requests : \A q \in before[r] :
    ran[r] # 0 /\ Ok(ran[q]) /\ SameKey(q, r) =>
      Failed(q, "store") \/ Failed(r, "lookup") \/ q \in lapsed

\* What Redis holds is the success of a request that is over.
StoredOK ==
  \A k \in CacheKeys : stored[k] # NoEntry =>
    LET q == stored[k].by
    IN /\ at[q] = "done"
       /\ Key(q) = k
       /\ ran[q] = stored[k].status /\ Ok(ran[q])

\* How far a request has got says what it has.
RunOK ==
  \A r \in Requests :
    /\ at[r] # "idle" => call[r] \in Calls
    /\ at[r] \in {"idle", "lookup", "handler"} => ran[r] = 0 /\ answer[r].by = {}
    /\ at[r] = "store" => ran[r] = answer[r].status /\ Ok(ran[r])

\* What a request found over when it came stays over.
BeforeOK ==
  \A r \in Requests :
    /\ \A q \in before[r] : at[q] = "done"
    /\ at[r] = "idle" => before[r] = {}

\* A success that is over is in Redis, or it is known why not.
KeptOK ==
  \A q \in Requests :
    at[q] = "done" /\ Ok(ran[q]) =>
      Failed(q, "store") \/ q \in lapsed \/ stored[Key(q)] # NoEntry

\* The explanation is there before the handler runs.
MissExplained ==
  \A r \in Requests : at[r] = "handler" =>
    \A q \in before[r] :
      Ok(ran[q]) /\ SameKey(q, r) =>
        Failed(q, "store") \/ Failed(r, "lookup") \/ q \in lapsed

\* All processes run with the same configuration, and the headers of an answer are
\* those of its origin under it.
HeadersOK ==
  /\ LET loaded == Load(given.file, given.env)
     IN (phase = "refused" => loaded = Refused) /\ (cfg # Refused => cfg = loaded)
  /\ \A r \in Requests : at[r] # "idle" =>
       /\ cfg # Refused
       /\ answer[r].allow = Allow(call[r])
       /\ call[r].method = "OPTIONS" =>
            at[r] = "done" /\ answer[r].status = PreflightStatus(call[r])

\* What stands in Redis, and what each place of a request may rely on.
RequestInv ==
  /\ TypeOK
  /\ StoredOK
  /\ RunOK
  /\ BeforeOK
  /\ KeptOK
  /\ MissExplained
  /\ ReplaysAreFaithful
  /\ SecondRunIsExplained

\* The inductive invariant behind ReplaysAreFaithful, SecondRunIsExplained and
\* OriginsAsConfigured.
IInv == RequestInv /\ HeadersOK

\* A text that YAML takes the quotes from: the first character is one.
IsQuoted(style, text) ==
  style = "plain" /\ \E i \in DOMAIN text :
    text[i] = Quote /\ \A j \in 1 .. i - 1 : text[j] = Blank

\* What stands around an origin without being part of it.
Ignored(style, text) == {Blank} \cup (IF IsQuoted(style, text) THEN {Quote} ELSE {})

\* Place j of a text is a comma, or there is one between it and place i.
Parted(text, i, j) ==
  \E n \in DOMAIN text :
    text[n] = Comma /\ (n = j \/ (i < n /\ n < j) \/ (j < n /\ n < i))

\* The origins a deployment names, read off its texts: what else stands there is
\* blank, or a quote of YAML's, or on the far side of a comma that separates.
NamedIn(list, text, w) ==
  \E i \in DOMAIN text :
    /\ text[i] = w
    /\ \A j \in DOMAIN text \ {i} :
         text[j] \in Ignored(list.style, text) \/ (list.kind = "scalar" /\ Parted(text, i, j))

Named(w) ==
  LET list == given.file.origins
  IN \E n \in DOMAIN list.items : NamedIn(list, ExpandEnv(list.items[n], given.env), w)

\* A browser is let in to an answer, a replayed one included, exactly when the
\* deployment names its origin or any; and whose preflight succeeds is told so.
OriginsAsConfigured ==
  \A r \in Requests : at[r] # "idle" =>
    LET origin == call[r].origin
        welcome == origin # Empty /\ (Named(origin[1]) \/ Named("*"))
    IN /\ answer[r].allow = IF welcome THEN origin ELSE Empty
       /\ call[r].method = "OPTIONS" /\ answer[r].status = 204 => welcome

\* Something stands in a text beside what is ignored.
Stands(style, text) == \E i \in DOMAIN text : text[i] \notin Ignored(style, text)

\* One word stands in a text, with nothing but some tokens around it.
Only(text, w, around) ==
  \E i \in DOMAIN text : text[i] = w /\ \A j \in DOMAIN text \ {i} : text[j] \in around

\* A cookie as it is pasted: one word, in quotes or not, with blanks around it.
IsPasted(text, w) ==
  \E i \in DOMAIN text :
    /\ text[i] = w
    /\ \A j \in DOMAIN text \ {i} :
         \/ text[j] = Blank
         \/ text[j] = Quote /\ \A n \in DOMAIN text :
              (i < n /\ n < j) \/ (j < n /\ n < i) => text[n] = Quote

\* A number, or nothing, in a text that YAML takes no quotes from.
IsBlank(text) == \A i \in DOMAIN text : text[i] = Blank
HoldsNumber(text) == IsBlank(text) \/ \E w \in DOMAIN Numeral : Only(text, w, {Blank})

\* A quote at place i of a text is closed: by the only other one, with blanks after it.
IsClosed(text, i) ==
  \E n \in DOMAIN text :
    /\ i < n /\ text[n] = Quote
    /\ \A j \in DOMAIN text \ {n} : i < j => text[j] # Quote /\ (n < j => text[j] = Blank)

\* YAML stumbles over a text: a quote in it ends it early, or it starts with a comma
\* or with a quote that is not closed.
Broken(style, text) ==
  \/ style = "double" /\ Quote \in Range(text)
  \/ /\ style = "plain"
     /\ \E i \in DOMAIN text :
          /\ \A j \in 1 .. i - 1 : text[j] = Blank
          /\ text[i] = Comma \/ (text[i] = Quote /\ ~IsClosed(text, i))

\* The places of a text that YAML keeps: all, or what is between its quotes, or else
\* what is not blank and what is between.
Kept(style, text) ==
  {i \in DOMAIN text :
     \/ style # "plain"
     \/ /\ IsQuoted(style, text)
        /\ \E j, n \in DOMAIN text : j < i /\ i < n /\ text[j] = Quote /\ text[n] = Quote
     \/ /\ ~IsQuoted(style, text)
        /\ \E j, n \in DOMAIN text : j <= i /\ i <= n /\ text[j] # Blank /\ text[n] # Blank}

\* It holds nothing, or the one word that names an environment.
NamesEnvironment(style, text) ==
  \A i \in Kept(style, text) :
    Kept(style, text) = {i} /\ text[i] \in {"local", "stg", "uat", "prd"}

Says(file, env) == [k \in Texts \cup Numbers |-> ExpandEnv(file.template[k], env)]

\* Here the code and its comment part: JSESSIONID in quotes "people paste verbatim"
\* (config.go:178), but in a file that quotes the key, as production.yml:35 does, YAML
\* gives up before they could be stripped.
QuotedTwice(file, env) ==
  LET text == ExpandEnv(file.template["JSessionID"], env)
  IN /\ file.style["JSessionID"] = "double" /\ Quote \in Range(text)
     /\ \E w \in Range(text) \ {Blank, Quote} : IsPasted(text, w)

\* Here the code and README.md:152 part: the budget is 200 by default, but a variable
\* that holds only blanks is set, keeps the default away and leaves no ceiling.
LosesCeiling(says) == IsBlank(says["DailyScrapeBudget"])

\* What a deployment is at fault for: a name or a Redis host it lacks, an environment
\* there is none of, a number that is none, or what YAML stumbles over.
Faulty(file, env) ==
  LET says == Says(file, env)
      list == file.origins
  IN \/ \E k \in {"AppName", "RedisHost"} : ~Stands(file.style[k], says[k])
     \/ ~NamesEnvironment(file.style["Environment"], says["Environment"])
     \/ \E k \in Numbers : file.style[k] # "plain" \/ ~HoldsNumber(says[k])
     \/ \E k \in Texts : /\ Broken(file.style[k], says[k])
                         /\ ~(k = "JSessionID" /\ QuotedTwice(file, env))
     \/ list.kind \notin {"list", "scalar"}
     \/ \E n \in DOMAIN list.items : Broken(list.style, ExpandEnv(list.items[n], env))

\* What a process that runs may rely on: there is a LinkedIn session when both
\* cookies hold something, JSESSIONID is the bare value client.go puts its own quotes
\* around, and the ceiling is the number that stands there.
RunsAsGiven(file, env, config) ==
  LET says == Says(file, env)
      stands(k) == Stands(file.style[k], says[k])
      cookie == Range(says["JSessionID"]) \ {Blank, Quote}
      ceiling == config.number["DailyScrapeBudget"]
  IN /\ Configured(config) => stands("LiAt") /\ stands("JSessionID")
     /\ stands("LiAt") /\ cookie # {} => Configured(config)
     /\ \A w \in cookie :
          IsPasted(says["JSessionID"], w) => config.text["JSessionID"] = <<w>>
     /\ \/ \E w \in DOMAIN Numeral :
             Only(says["DailyScrapeBudget"], w, {Blank}) /\ ceiling = Numeral[w]
        \/ LosesCeiling(says) /\ ceiling = 0

\* A process refuses to start exactly when its deployment is at fault, and else runs
\* with what that says; the two places where the code parts from its own documents
\* are QuotedTwice and LosesCeiling.
SettingsAsGiven ==
  LET file == given.file
      env == given.env
  IN /\ phase = "refused" => Faulty(file, env) \/ QuotedTwice(file, env)
     /\ phase = "up" =>
          ~Faulty(file, env) /\ ~QuotedTwice(file, env) /\ RunsAsGiven(file, env, cfg)

\* "Handlers that must not run twice for the same client-supplied key"
\* (middleware_idempotency.go:19-20): as long as Redis does its part, executing what
\* it is asked to and keeping its entries, no two requests with one key both succeed
\* by running the handler.
KeyRunsOnce ==
  (\A f \in failed : f[3] # "redis") /\ lapsed = {} =>
    \A q, r \in Requests :
      q # r /\ Ok(ran[q]) /\ Ok(ran[r]) => ~SameKey(q, r)
=============================================================================
