-------------------------------- MODULE Edge --------------------------------
(***************************************************************************)
(* The HTTP edge of the service and the session behind it: the handlers    *)
(* Scrape and Ready (internal/controllers), the error catalogue            *)
(* (internal/exceptions), the envelope (pkg/utils), the readiness check    *)
(* (service_health.go), and how an answer of LinkedIn becomes a status of  *)
(* ours (client_linkedin.go, voyager's client.go and errors.go).           *)
(*                                                                         *)
(* The session is two cookies given at boot.  LinkedIn may end the login,  *)
(* or replace the JSESSIONID cookie in the jar, while the csrf-token       *)
(* header keeps the value from boot; it refuses a pair that differs.       *)
(* What the service does between the handler and LinkedIn is the matter of *)
(* ScrapeService; here it answers from the cache, refuses, or asks.        *)
(***************************************************************************)
EXTENDS ProfileURL

CONSTANTS
  Scrapes,   \* requests to POST /public/v1/profile
  Probes,    \* requests to GET /private/v1/health/ready
  Inputs,    \* what the callers of Scrapes send
  Statuses   \* what LinkedIn answers; 0 when no answer comes

ASSUME RequestsAssumption == Scrapes \cap Probes = {}
ASSUME StatusesAssumption == Statuses \subseteq 0 .. 999
ASSUME InputsAssumption ==
  \A in \in Inputs : in.body \in {"ok", "malformed"} /\ (in.body = "ok" => IsText(in.url))

Requests == Scrapes \cup Probes

VARIABLES
  configured,  \* whether there is a LinkedIn client: decided at boot
  login,       \* external: whether LinkedIn still honours li_at
  jar,         \* the JSESSIONID in the cookie jar: "boot" or "replaced"
  redisUp,     \* external
  at,          \* request -> what it does next
  input,       \* request -> what came in
  publicID,    \* request -> the slug of its URL
  heard,       \* request -> LinkedIn's answer to its essential call, or None
  cacheState,  \* request -> what its ping of Redis found
  answer,      \* request -> the HTTP answer
  signedIn     \* history: request -> was the session good when it came in

sessionVars == <<login, jar>>
vars == <<configured, sessionVars, redisUp, at, input, publicID, heard,
          cacheState, answer, signedIn>>

None == 1000
NoInput == [body |-> "none"]
NoAnswer == [status |-> None]

SessionGood == login /\ jar = "boot"

Init ==
  /\ configured \in BOOLEAN
  /\ login \in BOOLEAN
  /\ jar = "boot"
  /\ redisUp = TRUE
  /\ at = [r \in Requests |-> "idle"]
  /\ input = [r \in Scrapes |-> NoInput]
  /\ publicID = [r \in Scrapes |-> NoSlug]
  /\ heard = [r \in Requests |-> None]
  /\ cacheState = [r \in Probes |-> "none"]
  /\ answer = [r \in Requests |-> NoAnswer]
  /\ signedIn = [r \in Requests |-> FALSE]

-----------------------------------------------------------------------------
(* Answers.                                                                *)

\* errorCatalogue, with what the feature files register: code -> status.
Catalogue ==
  [ EMNF01 |-> 400, SWW01 |-> 500, INV01 |-> 400, IR01 |-> 400, EB01 |-> 400,
    UA01 |-> 401, TMR01 |-> 429, SU01 |-> 503, HLT01 |-> 503,
    PRF01 |-> 400, PRF02 |-> 404, PRF03 |-> 502, PRF04 |-> 503,
    PRF05 |-> 429, PRF06 |-> 400, PRF07 |-> 429 ]

Reply(r, response) ==
  /\ at' = [at EXCEPT ![r] = "done"]
  /\ answer' = [answer EXCEPT ![r] = response]

\* New, then sendError: a code and its status, and nothing else.
SendError(r, code) == Reply(r, [status |-> Catalogue[code], code |-> code])

SendResult(r, result) ==
  Reply(r, [status |-> 200, code |-> "00000", result |-> result])

\* SendApiResponseV2: an error wins over the result that comes with it.
SendApiResponseV2(r, result, code) ==
  IF code = "none" THEN SendResult(r, result) ELSE SendError(r, code)

Goto(r, place) == at' = [at EXCEPT ![r] = place] /\ UNCHANGED answer

-----------------------------------------------------------------------------
(* LinkedIn.                                                               *)

\* StatusError: what an answer says.
SessionExpired(status) == status \in 300 .. 399 \cup {401, 403}
NotFound(status) == status \in {404, 410}
RateLimited(status) == status \in {429, 999}

\* Faulty variant of IsSuccess: a redirect to the login page is followed, and
\* the page counts.
IsSuccessFollowing(status) == status \in 200 .. 399

IsSuccess(status) == status \in 200 .. 299

\* external: a session that is not good is never served; LinkedIn redirects, or
\* says 401 or 403.  It may throttle, fail or stay silent at any time.
LinkedInAnswers(status) ==
  /\ status \in Statuses
  /\ SessionExpired(status) => ~SessionGood
  /\ status \in 200 .. 299 \cup {404, 410} => SessionGood

\* One call with the session.  An answer may bring another JSESSIONID, which
\* the jar keeps.
Get(status) ==
  /\ LinkedInAnswers(status)
  /\ jar' \in {jar} \cup (IF status = 0 THEN {} ELSE {"replaced"})
  /\ UNCHANGED login

Hear(r, status) == Get(status) /\ heard' = [heard EXCEPT ![r] = status]

\* Faulty variant of MapFailure: a redirect is no rejection.
MapFailureStrict(status) ==
  CASE status \in {401, 403} -> "PRF04"
    [] NotFound(status)      -> "PRF02"
    [] RateLimited(status)   -> "PRF05"
    [] OTHER                 -> "PRF03"

MapFailure(status) ==
  CASE SessionExpired(status) -> "PRF04"
    [] NotFound(status)       -> "PRF02"
    [] RateLimited(status)    -> "PRF05"
    [] OTHER                  -> "PRF03"

-----------------------------------------------------------------------------
(* Scrape.                                                                 *)

\* Faulty variant of Rejection: the sections are looked at first.
RejectionSectionsFirst(in) ==
  IF in.body = "malformed" THEN "IR01"
  ELSE IF in.sections = "unknown" THEN "PRF06"
  ELSE IF ParseProfileURL(in.url) = NoSlug THEN "PRF01"
  ELSE "none"

\* What the handler rejects before it calls the service: bind, URL, sections.
\* A body without a URL or with an empty one fails to bind, a blank one binds.
Rejection(in) ==
  IF in.body = "malformed" THEN "IR01"
  ELSE IF ParseProfileURL(in.url) = NoSlug THEN "PRF01"
  ELSE IF in.sections = "unknown" THEN "PRF06"
  ELSE "none"

\* Up to the call of Services.Profile.Scrape nothing leaves the process.
Scrape(r) ==
  /\ at[r] = "idle"
  /\ \E in \in Inputs :
       /\ input' = [input EXCEPT ![r] = in]
       /\ publicID' = [publicID EXCEPT ![r] =
            IF in.body = "malformed" THEN NoSlug ELSE ParseProfileURL(in.url)]
       /\ IF Rejection(in) = "none" THEN Goto(r, "service")
          ELSE SendApiResponseV2(r, "none", Rejection(in))
  /\ signedIn' = [signedIn EXCEPT ![r] = SessionGood]
  /\ UNCHANGED <<configured, sessionVars, redisUp, heard, cacheState>>

FromCache(r) ==
  /\ at[r] = "service"
  /\ redisUp
  /\ SendResult(r, [profile |-> "cached"])
  /\ UNCHANGED <<configured, sessionVars, redisUp, input, publicID, heard,
                 cacheState, signedIn>>

\* fetchLive: there is no client, or no budget left, which takes Redis to know.
Refuse(r) ==
  /\ at[r] = "service"
  /\ configured => redisUp
  /\ SendError(r, IF configured THEN "PRF07" ELSE "PRF04")
  /\ UNCHANGED <<configured, sessionVars, redisUp, input, publicID, heard,
                 cacheState, signedIn>>

\* The essential call.
FetchProfile(r) ==
  /\ at[r] = "service"
  /\ configured
  /\ \E status \in Statuses :
       /\ Hear(r, status)
       /\ IF IsSuccess(status) THEN Goto(r, "recommendations")
          ELSE SendError(r, MapFailure(status))
  /\ UNCHANGED <<configured, redisUp, input, publicID, cacheState, signedIn>>

\* The second call may come to anything; the body of the first one decides.
Recommendations(r) ==
  /\ at[r] = "recommendations"
  /\ \E status \in Statuses : Get(status)
  /\ \/ SendResult(r, [profile |-> "live"])
     \/ \E code \in {"PRF03", "PRF02"} : SendError(r, code)
  /\ UNCHANGED <<configured, redisUp, input, publicID, heard, cacheState, signedIn>>

-----------------------------------------------------------------------------
(* Ready.                                                                  *)

\* Check, and what Ready makes of its findings; there is no database.
Conclude(r, cache, linkedin) ==
  SendApiResponseV2(r,
    [database |-> "disabled", cache |-> cache, linkedin |-> linkedin],
    IF "down" \in {cache, linkedin} THEN "HLT01" ELSE "none")

\* PingCache, in a request of its own; without a client that was all.
PingCache(r) ==
  /\ at[r] = "idle"
  /\ LET found == IF redisUp THEN "up" ELSE "down"
     IN /\ cacheState' = [cacheState EXCEPT ![r] = found]
        /\ IF configured THEN Goto(r, "session") ELSE Conclude(r, found, "disabled")
  /\ signedIn' = [signedIn EXCEPT ![r] = SessionGood]
  /\ UNCHANGED <<configured, sessionVars, redisUp, input, publicID, heard>>

\* Faulty variant of SessionValid: what Redis said is forgotten.
SessionValidForgetting(r) ==
  /\ at[r] = "session"
  /\ \E status \in Statuses :
       /\ Hear(r, status)
       /\ Conclude(r, "up", IF IsSuccess(status) THEN "up" ELSE "down")
  /\ UNCHANGED <<configured, redisUp, input, publicID, cacheState, signedIn>>

\* SessionValid asks for /me; anything but a success counts as down.
SessionValid(r) ==
  /\ at[r] = "session"
  /\ \E status \in Statuses :
       /\ Hear(r, status)
       /\ Conclude(r, cacheState[r], IF IsSuccess(status) THEN "up" ELSE "down")
  /\ UNCHANGED <<configured, redisUp, input, publicID, cacheState, signedIn>>

-----------------------------------------------------------------------------
(* The environment.                                                        *)

LoginExpires ==
  /\ login
  /\ login' = FALSE
  /\ UNCHANGED <<configured, jar, redisUp, at, input, publicID, heard, cacheState,
                 answer, signedIn>>

RedisChanges ==
  /\ redisUp' = ~redisUp
  /\ UNCHANGED <<configured, sessionVars, at, input, publicID, heard, cacheState,
                 answer, signedIn>>

\* The operator puts fresh cookies in and restarts (README.md:366-368).
RefreshCookies ==
  /\ configured /\ ~SessionGood
  /\ login' = TRUE
  /\ jar' = "boot"
  /\ at' = [r \in Requests |-> IF at[r] \in {"idle", "done"} THEN at[r] ELSE "lost"]
  /\ UNCHANGED <<configured, redisUp, input, publicID, heard, cacheState, answer,
                 signedIn>>

-----------------------------------------------------------------------------
Next ==
  \/ \E r \in Scrapes :
       Scrape(r) \/ FromCache(r) \/ Refuse(r) \/ FetchProfile(r) \/ Recommendations(r)
  \/ \E r \in Probes : PingCache(r) \/ SessionValid(r)
  \/ LoginExpires \/ RedisChanges \/ RefreshCookies

Spec == Init /\ [][Next]_vars

-----------------------------------------------------------------------------
Responses ==
  {NoAnswer}
    \cup [status : Nat, code : DOMAIN Catalogue]
    \cup [ status : {200}, code : {"00000"},
           result : [profile : {"cached", "live"}]
             \cup [ database : {"disabled"}, cache : {"up", "down"},
                    linkedin : {"up", "down", "disabled"} ] ]

\* What each variable may hold.
TypeOK ==
  /\ configured \in BOOLEAN /\ login \in BOOLEAN /\ redisUp \in BOOLEAN
  /\ jar \in {"boot", "replaced"}
  /\ at \in [Requests -> {"idle", "service", "recommendations", "session",
                          "done", "lost"}]
  /\ input \in [Scrapes -> Inputs \cup {NoInput}]
  /\ heard \in [Requests -> Statuses \cup {None}]
  /\ cacheState \in [Probes -> {"none", "up", "down"}]
  /\ answer \in [Requests -> Responses]
  /\ signedIn \in [Requests -> BOOLEAN]

Answered == {r \in Requests : answer[r] # NoAnswer}

\* The slug is the member's whose URL was sent, however it is written, and a
\* text that is no member's URL has none (profile_validation.go:24-25, 103),
\* except that the URLs the code mistakes, which are members', have none either.
SlugIsTheMember ==
  \A r \in Scrapes : input[r].body = "ok" =>
    LET url == input[r].url
    IN /\ publicID[r] \in SlugsIn(url) \cup {NoSlug}
       /\ \A m \in SlugsIn(url) :
            publicID[r] = m <=> Denotes(url, m) /\ ~Mistaken(url)

\* The caller is told 400 exactly for what the caller got wrong, and for the URLs
\* the code mistakes, with the code of the first thing wrong in the order body,
\* URL, sections, and before anything is asked of LinkedIn; whatever else goes
\* wrong has another status (README.md:179-190).
BlamesTheRightSide ==
  \A r \in Scrapes \cap Answered :
    LET in == input[r]
        foreign == \A m \in SlugsIn(in.url) : ~Denotes(in.url, m)
        refused == foreign \/ Mistaken(in.url)
        wrong == in.body # "ok" \/ refused \/ in.sections = "unknown"
    IN /\ answer[r].status = 400 <=> wrong
       /\ wrong => heard[r] = None
       /\ answer[r].code = "IR01" <=> in.body # "ok"
       /\ answer[r].code = "PRF06" => in.body = "ok" /\ ~refused

\* A session that was lost stays lost until the cookies are refreshed: a
\* request that came in after the loss is never answered with a live profile,
\* and a probe never with "up" (client.go:118-119).
LiveMeansSignedIn ==
  \A r \in Answered : "result" \in DOMAIN answer[r] =>
    /\ r \in Scrapes /\ answer[r].result.profile = "live" => signedIn[r]
    /\ r \in Probes /\ answer[r].result.linkedin = "up" => signedIn[r]

\* A lost session "must never look like a generic 500" (README.md:192): a
\* scrape LinkedIn rejected says so, and none that came in after the loss
\* takes the profile for missing.
LossIsShown ==
  \A r \in Scrapes \cap Answered :
    /\ heard[r] \in {302, 401, 403} =>
         answer[r].code = "PRF04" /\ answer[r].status = 503
    /\ ~signedIn[r] => answer[r].code # "PRF02"

\* Readiness is 200 exactly when Redis answered its ping and LinkedIn, if it is
\* configured, accepted the session in the same probe (README.md:200).
ReadyMeansProbed ==
  \A r \in Probes \cap Answered :
    answer[r].status = 200 <=>
      cacheState[r] = "up" /\ (configured => heard[r] \in 200 .. 299)

\* What a request that is on its way may rely on.  A session that was lost
\* before it came is lost as long as the process lives, and whoever got past the
\* first call had a good one.
FlightOK ==
  \A r \in Requests :
    /\ at[r] = "done" <=> answer[r] # NoAnswer
    /\ at[r] \in {"idle", "service", "session"} => heard[r] = None
    /\ at[r] \in {"service", "session", "recommendations"} /\ ~signedIn[r] => ~SessionGood
    /\ at[r] = "recommendations" => signedIn[r] /\ IsSuccess(heard[r])
    /\ r \in Probes /\ at[r] = "session" => configured /\ cacheState[r] \in {"up", "down"}

\* What came in is read once: nothing is found out later that Rejection left out,
\* and what it refused is answered so and never asked of LinkedIn.
ReadOK ==
  /\ publicID = [r \in Scrapes |->
       IF input[r].body = "ok" THEN ParseProfileURL(input[r].url) ELSE NoSlug]
  /\ \A r \in Scrapes :
       LET code == Rejection(input[r])
       IN  /\ at[r] = "idle" => input[r] = NoInput
           /\ at[r] # "idle" => input[r] \in Inputs
           /\ at[r] \in {"service", "recommendations"} => code = "none"
           /\ at[r] = "done" =>
                IF code = "none"
                THEN answer[r].status # 400 /\ answer[r].code \notin {"IR01", "PRF06"}
                ELSE /\ answer[r] = [status |-> Catalogue[code], code |-> code]
                     /\ heard[r] = None

\* The inductive invariant behind the properties about the session and the input.
IInv ==
  /\ TypeOK
  /\ FlightOK
  /\ ReadOK
  /\ LiveMeansSignedIn
  /\ LossIsShown
  /\ ReadyMeansProbed
=============================================================================
