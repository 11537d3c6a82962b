----------------------------- MODULE Lifecycle ------------------------------
(***************************************************************************)
(* One process from start to exit: run of cmd/server/main.go, and New, Run *)
(* and shutdown of cmd/app/app.go, with the goroutine that listens, the    *)
(* signal that may come at any time, and the requests being served.        *)
(*                                                                         *)
(* A request is abstracted to the three things it does that the process    *)
(* can take away under it: it reads the cache, it waits for LinkedIn, it   *)
(* writes the cache.  Time is abstracted to the order of events: how long  *)
(* LinkedIn takes is unbounded here, so shutdownTimeout and the write      *)
(* deadline of a connection may run out first.                             *)
(***************************************************************************)
EXTENDS Naturals

CONSTANTS
  Requests

VARIABLES
  phase,      \* where the main goroutine stands
  listener,   \* the listening goroutine: "none", "open", "failed", "closed"
  serveErr,   \* the channel it reports on: "empty", "error" or "nil"
  signalled,  \* whether SIGINT or SIGTERM has come
  runErr,     \* whether Run is going to return an error
  telemetry,  \* "off", "on" or "flushed"
  cache,      \* the Redis client: "none", "open" or "closed"
  exitCode,   \* 0 while the process runs
  req,        \* request -> where it stands
  noCache,    \* history: the requests that found the cache closed under them
  late        \* the requests whose connection has passed its write deadline

mainVars == <<phase, runErr, telemetry, cache, exitCode>>
vars == <<mainVars, listener, serveErr, signalled, req, noCache, late>>

Alive == phase # "exited"
Working == {"reading", "waiting", "writing"}
InFlight == {r \in Requests : req[r] \in Working}

Init ==
  /\ phase = "loading"
  /\ listener = "none"
  /\ serveErr = "empty"
  /\ signalled = FALSE
  /\ runErr = FALSE
  /\ telemetry = "off"
  /\ cache = "none"
  /\ exitCode = 0
  /\ req = [r \in Requests |-> "none"]
  /\ noCache = {}
  /\ late = {}

\* The process ends, and every request it was serving with it.
Exit(code) ==
  /\ phase' = "exited"
  /\ exitCode' = code
  /\ listener' = IF listener = "open" THEN "closed" ELSE listener
  /\ req' = [r \in Requests |-> IF r \in InFlight THEN "lost" ELSE req[r]]

-----------------------------------------------------------------------------
(* Starting.                                                               *)

\* config.Load: a config that does not validate stops the process.
LoadConfig ==
  /\ phase = "loading"
  /\ \/ /\ phase' = "dialling"
        /\ UNCHANGED <<exitCode, listener, req>>
     \/ Exit(1)
  /\ UNCHANGED <<runErr, telemetry, cache, serveErr, signalled, noCache, late>>

\* initCache dials Redis and pings it; the rest of New cannot fail.  A missing
\* LinkedIn client is logged and left nil.
New ==
  /\ phase = "dialling"
  /\ \/ /\ cache' = "open"
        /\ telemetry' = "on"
        /\ phase' = "serving"
        /\ UNCHANGED <<exitCode, listener, req>>
     \/ /\ Exit(1)
        /\ UNCHANGED <<cache, telemetry>>
  /\ UNCHANGED <<runErr, serveErr, signalled, noCache, late>>

-----------------------------------------------------------------------------
(* The listening goroutine, started by Run.                                *)

Started == phase \notin {"loading", "dialling", "exited"}

\* ListenAndServe binds the port, or fails, or finds the server shut down
\* before it got that far.
Listen ==
  /\ Started
  /\ listener = "none"
  /\ serveErr = "empty"
  /\ \/ /\ phase = "serving"
        /\ listener' = "open"
        /\ UNCHANGED serveErr
     \/ /\ phase = "serving"
        /\ listener' = "failed"
        /\ serveErr' = "error"
     \/ /\ phase # "serving"
        /\ listener' = "closed"
        /\ serveErr' = "nil"
  /\ UNCHANGED <<mainVars, signalled, req, noCache, late>>

\* Serving ends in an error; connections that are open stay open.
ServeFails ==
  /\ Alive
  /\ listener = "open"
  /\ listener' = "failed"
  /\ serveErr' = "error"
  /\ UNCHANGED <<mainVars, signalled, req, noCache, late>>

\* Having been shut down, ListenAndServe returns ErrServerClosed.
ServeCloses ==
  /\ Alive
  /\ listener = "closed"
  /\ serveErr = "empty"
  /\ serveErr' = "nil"
  /\ UNCHANGED <<mainVars, listener, signalled, req, noCache, late>>

-----------------------------------------------------------------------------
(* Run.                                                                    *)

\* A signal before Run has asked for signals kills the process; later ones are
\* only noted, a second one included.
Signal ==
  /\ Alive
  /\ signalled' = TRUE
  /\ IF phase \in {"loading", "dialling"}
     THEN Exit(2) /\ UNCHANGED <<runErr, telemetry, cache>>
     ELSE UNCHANGED <<mainVars, listener, req>>
  /\ UNCHANGED <<serveErr, noCache, late>>

\* select, first case: the server failed.  Nothing is drained.
ServerStopped ==
  /\ phase = "serving"
  /\ serveErr # "empty"
  /\ runErr' = (serveErr = "error")
  /\ phase' = "flushing"
  /\ UNCHANGED <<telemetry, cache, exitCode, listener, serveErr, signalled,
                 req, noCache, late>>

\* select, second case: http.Shutdown closes the listener and the connections
\* that are idle, and starts to wait for the others.
BeginDrain ==
  /\ phase = "serving"
  /\ signalled
  /\ phase' = "draining"
  /\ listener' = IF listener = "none" THEN "none" ELSE "closed"
  /\ UNCHANGED <<runErr, telemetry, cache, exitCode, serveErr, signalled, req,
                 noCache, late>>

\* Faulty variants of EndDrain: the error is dropped; there is no timeout.
EndDrainIgnoringError ==
  /\ phase = "draining"
  /\ runErr' = FALSE
  /\ phase' = "flushing"
  /\ UNCHANGED <<telemetry, cache, exitCode, listener, serveErr, signalled,
                 req, noCache, late>>

EndDrainWithoutTimeout ==
  /\ phase = "draining"
  /\ InFlight = {}
  /\ runErr' = FALSE
  /\ phase' = "flushing"
  /\ UNCHANGED <<telemetry, cache, exitCode, listener, serveErr, signalled,
                 req, noCache, late>>

\* http.Shutdown returns: nothing is in flight any more, or the 15 seconds of
\* shutdownTimeout are over, which is an error.  Shutdown polls, so the time
\* may be up before it sees that the last request has ended.
EndDrain ==
  /\ phase = "draining"
  /\ \/ InFlight = {} /\ runErr' = FALSE
     \/ (\E r \in Requests : req[r] # "none") /\ runErr' = TRUE
  /\ phase' = "flushing"
  /\ UNCHANGED <<telemetry, cache, exitCode, listener, serveErr, signalled,
                 req, noCache, late>>

\* shutdown flushes telemetry, whose error is only logged.
FlushTelemetry ==
  /\ phase = "flushing"
  /\ telemetry' = "flushed"
  /\ phase' = "closing"
  /\ UNCHANGED <<runErr, cache, exitCode, listener, serveErr, signalled, req,
                 noCache, late>>

\* Then it closes the cache, under whatever is still in flight.
CloseCache ==
  /\ phase = "closing"
  /\ cache' = "closed"
  /\ phase' = "returning"
  /\ UNCHANGED <<runErr, telemetry, exitCode, listener, serveErr, signalled,
                 req, noCache, late>>

\* main: an error from Run is exit status 1.
ReturnFromRun ==
  /\ phase = "returning"
  /\ Exit(IF runErr THEN 1 ELSE 0)
  /\ UNCHANGED <<runErr, telemetry, cache, serveErr, signalled, noCache, late>>

-----------------------------------------------------------------------------
(* Requests.                                                               *)

\* A request comes in on the listener, or on a connection another one left
\* open when serving failed.
Accept(r) ==
  /\ Alive
  /\ req[r] = "none"
  /\ \/ listener = "open"
     \/ listener = "failed" /\ \E q \in Requests : req[q] = "answered"
  /\ req' = [req EXCEPT ![r] = "reading"]
  /\ UNCHANGED <<mainVars, listener, serveErr, signalled, noCache, late>>

UseCache(r) == noCache' = IF cache = "open" THEN noCache ELSE noCache \cup {r}

\* The handler ends.  Its answer reaches the caller unless the write deadline of
\* the connection has passed: then it is dropped, and the handler never knows.
Answer(r) == IF r \in late THEN "dropped" ELSE "answered"

\* A closed cache reads as a miss and its write is only logged.
ReadCache(r) ==
  /\ Alive
  /\ req[r] = "reading"
  /\ UseCache(r)
  /\ \/ cache = "open" /\ req' = [req EXCEPT ![r] = Answer(r)]
     \/ req' = [req EXCEPT ![r] = "waiting"]
  /\ UNCHANGED <<mainVars, listener, serveErr, signalled, late>>

\* Only a profile is written to the cache; a failure is answered at once.
LinkedInAnswers(r) ==
  /\ Alive
  /\ req[r] = "waiting"
  /\ \E next \in {"writing", Answer(r)} : req' = [req EXCEPT ![r] = next]
  /\ UNCHANGED <<mainVars, listener, serveErr, signalled, noCache, late>>

WriteCache(r) ==
  /\ Alive
  /\ req[r] = "writing"
  /\ UseCache(r)
  /\ req' = [req EXCEPT ![r] = Answer(r)]
  /\ UNCHANGED <<mainVars, listener, serveErr, signalled, late>>

\* WriteTimeout: 60 seconds after a request was read nothing can be written to
\* its connection any more.  The handler is not told and goes on.
WriteDeadline(r) ==
  /\ Alive
  /\ req[r] \in Working
  /\ r \notin late
  /\ late' = late \cup {r}
  /\ UNCHANGED <<mainVars, listener, serveErr, signalled, req, noCache>>

-----------------------------------------------------------------------------
Main == LoadConfig \/ New \/ ServerStopped \/ BeginDrain \/ EndDrain
          \/ FlushTelemetry \/ CloseCache \/ ReturnFromRun

Serving(r) == Accept(r) \/ ReadCache(r) \/ LinkedInAnswers(r) \/ WriteCache(r)
                \/ WriteDeadline(r)

Next ==
  \/ Main
  \/ Listen \/ ServeFails \/ ServeCloses
  \/ Signal
  \/ \E r \in Requests : Serving(r)

\* The main goroutine is never blocked but in its select and, for at most
\* shutdownTimeout, in http.Shutdown and in the flush.  No fairness for the
\* requests: the process may not count on LinkedIn to answer.
Spec == Init /\ [][Next]_vars /\ WF_vars(Main)

-----------------------------------------------------------------------------
TypeOK ==
  /\ phase \in {"loading", "dialling", "serving", "draining", "flushing",
                "closing", "returning", "exited"}
  /\ listener \in {"none", "open", "failed", "closed"}
  /\ serveErr \in {"empty", "error", "nil"}
  /\ signalled \in BOOLEAN
  /\ runErr \in BOOLEAN
  /\ telemetry \in {"off", "on", "flushed"}
  /\ cache \in {"none", "open", "closed"}
  /\ exitCode \in 0 .. 2
  /\ req \in [Requests -> {"none", "answered", "dropped", "lost"} \cup Working]
  /\ noCache \subseteq Requests
  /\ late \subseteq Requests

\* Exit status 0 is only for a stop that was asked for and cut nothing short:
\* every request that came in was handled to its end, with the cache there when
\* it was needed, and was answered unless its own write deadline had passed.
CleanExit ==
  phase = "exited" /\ exitCode = 0 =>
    /\ signalled
    /\ \A r \in Requests : \/ req[r] \in {"none", "answered"}
                           \/ req[r] = "dropped" /\ r \in late
    /\ noCache = {}
    /\ cache = "closed" /\ telemetry = "flushed"

\* The cache is closed under a running request only on the way to a failing
\* exit, never by a drain that succeeded (app.go:148-150).
CacheOutlivesHandlers ==
  cache = "closed" /\ InFlight # {} => runErr

\* A process that has been told to stop, or whose server has failed, exits,
\* even if LinkedIn never answers the requests it is serving.
StopsWhenTold == (signalled \/ serveErr = "error") ~> phase = "exited"

\* What holds while New has still to finish.
NothingBuilt ==
  phase \in {"loading", "dialling"} =>
    /\ listener = "none" /\ serveErr = "empty"
    /\ cache = "none"
    /\ \A r \in Requests : req[r] = "none"

\* The release order: the cache is there until telemetry has been flushed.
ReleaseOrder ==
  /\ phase \in {"serving", "draining", "flushing", "closing"} => cache = "open"
  /\ phase \in {"closing", "returning"} => telemetry = "flushed"
  /\ phase = "returning" => cache = "closed"
  /\ phase \notin {"returning", "exited"} => noCache = {}

\* Until the drain begins only a failed server reports on its channel, and
\* once it has begun nothing comes in any more.
ListenerOK ==
  /\ phase = "serving" => listener # "closed" /\ serveErr # "nil"
  /\ phase = "draining" => signalled /\ listener \in {"none", "closed"}

\* From a drain that succeeded to the exit, nothing is in flight.
DrainedOK ==
  phase \in {"flushing", "closing", "returning"} /\ ~runErr =>
    /\ signalled
    /\ listener \in {"none", "closed"}
    /\ InFlight = {}
    /\ noCache = {}

\* Only the end of the process loses requests, and it leaves none in flight;
\* only a write deadline drops an answer.
LossOK ==
  /\ \A r \in Requests : req[r] = "dropped" => r \in late
  /\ Alive => exitCode = 0 /\ \A r \in Requests : req[r] # "lost"
  /\ ~Alive => InFlight = {}

\* The inductive invariant behind CleanExit and CacheOutlivesHandlers: what
\* each phase of the main goroutine may rely on.
IInv ==
  /\ TypeOK
  /\ NothingBuilt
  /\ ReleaseOrder
  /\ ListenerOK
  /\ DrainedOK
  /\ LossOK
  /\ CleanExit
=============================================================================
