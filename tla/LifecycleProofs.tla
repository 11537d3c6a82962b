-------------------------- MODULE LifecycleProofs ---------------------------
(***************************************************************************)
(* Proofs about Lifecycle, for any set of requests: what exit status 0     *)
(* promises, and under whom the cache is closed.                           *)
(***************************************************************************)
EXTENDS Lifecycle, TLAPS

\* Nothing is built and nobody is served when the process starts.
LEMMA InitInv == Init => IInv
<1> SUFFICES ASSUME Init PROVE IInv
  OBVIOUS
<1> USE DEF Init
<1>1. TypeOK
  <2>1. signalled \in BOOLEAN /\ runErr \in BOOLEAN
    BY Zenon
  <2>2. req \in [Requests -> {"none", "answered", "dropped", "lost"} \cup Working]
    BY DEF Working
  <2>3. /\ phase = "loading" /\ listener = "none" /\ serveErr = "empty"
        /\ telemetry = "off" /\ cache = "none"
        /\ exitCode \in 0 .. 2 /\ noCache \subseteq Requests
        /\ late \subseteq Requests
    OBVIOUS
  <2>4. QED
    BY <2>1, <2>2, <2>3 DEF TypeOK
<1>2. NothingBuilt /\ ReleaseOrder /\ ListenerOK /\ DrainedOK /\ CleanExit
  BY DEF NothingBuilt, ReleaseOrder, ListenerOK, DrainedOK, CleanExit
<1>3. LossOK
  BY DEF LossOK, Alive
<1>4. QED
  BY <1>1, <1>2, <1>3 DEF IInv

\* Every step of the process keeps the inductive invariant.
LEMMA StepInv == IInv /\ [Next]_vars => IInv'
<1> SUFFICES ASSUME IInv, [Next]_vars PROVE IInv'
  OBVIOUS
<1> USE DEF IInv, TypeOK, NothingBuilt, ReleaseOrder, ListenerOK, DrainedOK,
            LossOK, CleanExit, Alive, Working, InFlight
<1>1. CASE LoadConfig
  BY <1>1 DEF LoadConfig, Exit
<1>2. CASE New
  BY <1>2 DEF New, Exit
<1>3. CASE ServerStopped
  BY <1>3 DEF ServerStopped
<1>4. CASE BeginDrain
  BY <1>4 DEF BeginDrain
<1>5. CASE EndDrain
  BY <1>5 DEF EndDrain
<1>6. CASE FlushTelemetry
  BY <1>6 DEF FlushTelemetry
<1>7. CASE CloseCache
  BY <1>7 DEF CloseCache
<1>8. CASE ReturnFromRun
  BY <1>8 DEF ReturnFromRun, Exit
<1>9. CASE Listen
  BY <1>9 DEF Listen, Started, mainVars
<1>10. CASE ServeFails
  BY <1>10 DEF ServeFails, mainVars
<1>11. CASE ServeCloses
  BY <1>11 DEF ServeCloses, mainVars
<1>12. CASE Signal
  BY <1>12 DEF Signal, Exit, mainVars
<1>13. ASSUME NEW r \in Requests, Serving(r) PROVE IInv'
  <2>1. CASE Accept(r)
    BY <2>1 DEF Accept, mainVars
  <2>2. CASE ReadCache(r)
    BY <2>2 DEF ReadCache, Answer, UseCache, mainVars
  <2>3. CASE LinkedInAnswers(r)
    BY <2>3 DEF LinkedInAnswers, Answer, mainVars
  <2>4. CASE WriteCache(r)
    BY <2>4 DEF WriteCache, Answer, UseCache, mainVars
  <2>5. CASE WriteDeadline(r)
    BY <2>5 DEF WriteDeadline, mainVars
  <2>6. QED
    BY <1>13, <2>1, <2>2, <2>3, <2>4, <2>5 DEF Serving
<1>14. CASE UNCHANGED vars
  BY <1>14 DEF vars, mainVars
<1>15. QED
  BY <1>1, <1>2, <1>3, <1>4, <1>5, <1>6, <1>7, <1>8, <1>9, <1>10, <1>11, <1>12,
     <1>13, <1>14 DEF Next, Main

\* Each phase of the main goroutine keeps what the next one relies on.
THEOREM Inductive == Spec => []IInv
  BY InitInv, StepInv, PTL DEF Spec

\* The state of a process has the shape the module says (Lifecycle, TypeOK).
THEOREM TypeCorrect == Spec => []TypeOK
<1>1. IInv => TypeOK
  BY DEF IInv
<1>2. QED
  BY <1>1, Inductive, PTL

\* A process that exits with status 0 was told to stop, and has handled every
\* request it took in to its end, with the cache there whenever one needed it.
THEOREM ExitZeroIsClean == Spec => []CleanExit
<1>1. IInv => CleanExit
  BY DEF IInv
<1>2. QED
  BY <1>1, Inductive, PTL

\* A request sees the cache closed under it only in a process that is about to
\* exit with an error.
THEOREM CacheClosesLast == Spec => []CacheOutlivesHandlers
<1>1. IInv => CacheOutlivesHandlers
  <2> SUFFICES ASSUME IInv, cache = "closed", InFlight # {} PROVE runErr
    BY DEF CacheOutlivesHandlers
  <2>1. phase = "returning"
    BY DEF IInv, TypeOK, NothingBuilt, ReleaseOrder, LossOK, Alive
  <2>2. QED
    BY <2>1 DEF IInv, TypeOK, DrainedOK
<1>2. QED
  BY <1>1, Inductive, PTL
=============================================================================
