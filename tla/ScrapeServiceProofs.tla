------------------------ MODULE ScrapeServiceProofs -------------------------
(***************************************************************************)
(* Proofs about ScrapeService, for any set of requests, slugs and faults.  *)
(*                                                                         *)
(* First, the counter of the service is the component ScrapeBudget, so     *)
(* what ScrapeBudgetProofs shows of that holds here.  Then IInv is         *)
(* inductive, one lemma per action, and the safety properties follow.      *)
(* Last, each step is a step of ScrapePromise or goes unnoticed.           *)
(***************************************************************************)
EXTENDS ScrapeService, FiniteSetTheorems, TLAPS

-----------------------------------------------------------------------------
(* The component.                                                          *)

\* A step of a request that is inside ConsumeScrapeBudget is a step of the
\* component for that request.
LEMMA ConsumeIsComponentStep ==
  ASSUME NEW r \in Requests, ConsumeScrapeBudget(r)
  PROVE  B!Begin(r) \/ B!Step(r)
  BY DEF ConsumeScrapeBudget, B!Step

\* The requests touch the counter in no other way (service_profile.go:76-84).
LEMMA RequestStep ==
  ASSUME NEW r \in Requests, Arrive(r) \/ Step(r) \/ Disconnect(r)
  PROVE  B!Next \/ UNCHANGED B!vars
<1>1. CASE ConsumeScrapeBudget(r)
  BY <1>1, ConsumeIsComponentStep DEF B!Next
<1>2. CASE UNCHANGED budgetVars
  BY <1>2 DEF budgetVars, B!vars, B!redisVars, B!callVars
<1>3. Arrive(r) => UNCHANGED budgetVars
  BY DEF Arrive
<1>4. Step(r) => ConsumeScrapeBudget(r) \/ UNCHANGED budgetVars
  BY DEF Step, Hit, Miss, Invalidate, DashProfile, DashProfileFails,
         Recommendations, Store
<1>5. Disconnect(r) => UNCHANGED budgetVars
  BY DEF Disconnect
<1> QED
  BY <1>1, <1>2, <1>3, <1>4, <1>5

\* Neither does the environment, but for what the component allows for.
LEMMA EnvironmentStep ==
  ASSUME RedisRestart \/ Clock \/ Crash
            \/ (\E p \in Slugs : Edit(p) \/ EntryExpires(p))
  PROVE  B!Next \/ UNCHANGED B!vars
<1>1. CASE UNCHANGED budgetVars
  BY <1>1 DEF budgetVars, B!vars, B!redisVars, B!callVars
<1>2. RedisRestart => B!Next
  BY DEF RedisRestart, B!Next, B!Environment
<1>3. Clock => B!Next
  BY DEF Clock, B!Next, B!Environment
<1>4. Crash => B!Next \/ UNCHANGED budgetVars
  BY DEF Crash, B!Next, B!Environment
<1>5. (\E p \in Slugs : Edit(p) \/ EntryExpires(p)) => UNCHANGED budgetVars
  BY DEF Edit, EntryExpires
<1> QED
  BY <1>1, <1>2, <1>3, <1>4, <1>5

\* However requests, LinkedIn, Redis and the clock interleave, the counter of
\* the service behaves like ScrapeBudget: so what is proved of that holds of
\* the counter here.
THEOREM CounterIsComponent == Spec => BudgetComponent
<1>1. Init => B!Init
  BY DEF Init
<1>2. [Next]_vars => [B!Next]_(B!vars)
  <2>1. CASE Next
    BY <2>1, RequestStep, EnvironmentStep DEF Next
  <2>2. CASE UNCHANGED vars
    BY <2>2 DEF vars, budgetVars, B!vars, B!redisVars, B!callVars
  <2> QED
    BY <2>1, <2>2
<1> QED
  BY <1>1, <1>2, PTL DEF Spec, BudgetComponent

\* The component again, with what is proved of it.
BP == INSTANCE ScrapeBudgetProofs WITH Faults <- BudgetFaults

\* The assumptions of the component hold of its instance here.
LEMMA ComponentAssumptions ==
  /\ BP!IsFiniteSet(Requests)
  /\ BudgetFaults \subseteq BP!FaultKinds
  BY CountersAssumption
     DEF BP!IsFiniteSet, IsFiniteSet, BudgetFaults, BP!FaultKinds

\* BP names the same component as B.
LEMMA SameComponent ==
  /\ B!Init <=> BP!Init
  /\ [B!Next]_(B!vars) <=> [BP!Next]_(BP!vars)
<1> USE DEF B!Days, BP!Days, B!Lives, BP!Lives, B!Books, BP!Books,
            B!redisVars, BP!redisVars, B!callVars, BP!callVars
<1>1. B!Init <=> BP!Init
  BY DEF B!Init, BP!Init, B!NoExpiry, BP!NoExpiry
<1>2. B!vars = BP!vars /\ (B!vars)' = (BP!vars)'
  BY DEF B!vars, BP!vars
<1>3. \A r \in Requests : (B!Begin(r) \/ B!Step(r)) <=> (BP!Begin(r) \/ BP!Step(r))
  <2> SUFFICES ASSUME NEW r \in Requests
               PROVE (B!Begin(r) \/ B!Step(r)) <=> (BP!Begin(r) \/ BP!Step(r))
    OBVIOUS
  <2>1. B!Begin(r) <=> BP!Begin(r)
    BY DEF B!Begin, BP!Begin
  <2>2. B!Incr(r) <=> BP!Incr(r)
    BY DEF B!Incr, BP!Incr, B!NextValue, BP!NextValue, B!Verdict, BP!Verdict
  <2>3. B!LoseReply(r) <=> BP!LoseReply(r)
    BY DEF B!LoseReply, BP!LoseReply
  <2>4. B!IncrFails(r) <=> BP!IncrFails(r)
    BY DEF B!IncrFails, BP!IncrFails
  <2>5. B!Expire(r) <=> BP!Expire(r)
    BY DEF B!Expire, BP!Expire, B!ExpireKey, BP!ExpireKey, B!KeyLifetime,
           BP!KeyLifetime,
           B!Verdict, BP!Verdict
  <2>6. B!ExpireFails(r) <=> BP!ExpireFails(r)
    BY DEF B!ExpireFails, BP!ExpireFails, B!Verdict, BP!Verdict
  <2> QED
    BY <2>1, <2>2, <2>3, <2>4, <2>5, <2>6 DEF B!Step, BP!Step
<1>4. B!Environment <=> BP!Environment
  BY DEF B!Environment, BP!Environment, B!DropKey, BP!DropKey, B!NextDay, BP!NextDay,
         B!RedisRestart, BP!RedisRestart, B!Crash, BP!Crash, B!InFlight, BP!InFlight,
         B!NoExpiry, BP!NoExpiry
<1> QED
  BY <1>1, <1>2, <1>3, <1>4 DEF B!Next, BP!Next

LEMMA SameBooks ==
  /\ BP!TypeOK <=> B!TypeOK
  /\ BP!CallOK => \A r \in Requests : pc[r] = "idle" => used[r] = 0
  /\ BP!Ceiling => (Budget > 0 => \A b \in B!Books : Cardinality(B!Admitted(b)) <= Budget)
<1>1. BP!TypeOK <=> B!TypeOK
  BY DEF BP!TypeOK, B!TypeOK, BP!Days, B!Days, BP!Lives, B!Lives, BP!Books, B!Books
<1>2. BP!CallOK => \A r \in Requests : pc[r] = "idle" => used[r] = 0
  BY DEF BP!CallOK
<1>3. BP!Ceiling => (Budget > 0 => \A b \in B!Books : Cardinality(B!Admitted(b)) <= Budget)
  BY DEF BP!Ceiling, BP!Admitted, B!Admitted, BP!Drawn, B!Drawn, BP!Refused,
         B!Refused,
         BP!Books, B!Books, BP!Days, B!Days, BP!Lives, B!Lives, BP!Cardinality, Cardinality
<1> QED
  BY <1>1, <1>2, <1>3

\* What is proved of the component holds inside the service.
THEOREM ComponentInvariants == Spec => [](B!TypeOK /\ BP!CallOK /\ BP!Ceiling)
<1>1. BudgetComponent => BP!Spec
  BY SameComponent, PTL DEF BudgetComponent, BP!Spec
<1>2. BP!Spec => []BP!IInv
  BY ComponentAssumptions, CountersAssumption, BP!Inductive
<1>3. BP!Spec => []BP!Ceiling
  BY ComponentAssumptions, CountersAssumption, BP!BudgetCeiling
<1>4. BP!IInv => B!TypeOK /\ BP!CallOK
  BY SameBooks DEF BP!IInv
<1> QED
  BY <1>1, <1>2, <1>3, <1>4, CounterIsComponent, PTL

-----------------------------------------------------------------------------
(* The inductive invariant.                                                *)

\* A request that has come in asks for a person.
LEMMA PersonIsSlug ==
  ASSUME TypeOK, PlaceOK, NEW r \in Requests, at[r] # "idle"
  PROVE  asked[r].slug \in Slugs /\ Person(r) \in Slugs
  BY SlugsAssumption DEF TypeOK, PlaceOK, Person

LEMMA ErrorsAreAnswers == \A code \in ErrorCodes : [code |-> code] \in Answers
  BY DEF Answers

\* An action that tells nobody anything new leaves the answers right.
LEMMA AnswersKept ==
  ASSUME AnswerOK, asked' = asked,
         \A q \in Answered' :
           /\ q \in Answered /\ answer'[q] = answer[q]
           /\ calls'[q] = calls[q] \/ ~answer[q].cached
           /\ pc'[q] = pc[q] \/ pc[q] # "idle",
         \A q \in Requests : fetched[q] # NoProfile => fetched'[q] = fetched[q]
  PROVE  AnswerOK'
  BY DEF AnswerOK, Answered, Person

\* An action that stores nothing leaves the cache sound.
LEMMA CacheKept ==
  ASSUME CacheSound, TypeOK,
         \A s \in Slugs : cache'[s] \in {cache[s], NoProfile},
         \A s \in Slugs : live[s] <= live'[s] /\ live'[s] \in Nat,
         \A q \in Requests : fetched[q] # NoProfile /\ body[q].quality = "good" =>
           fetched'[q] = fetched[q] /\ body'[q] = body[q]
  PROVE  CacheSound'
<1> SUFFICES ASSUME NEW s \in Slugs, cache'[s] # NoProfile
             PROVE  (/\ cache[s].person = Canonical[s]
                     /\ cache[s].version <= live[Canonical[s]]
                     /\ \E r \in Requests :
                          body[r].quality = "good" /\ fetched[r] = cache[s])'
  BY DEF CacheSound
<1>1. cache'[s] = cache[s] /\ cache[s] \in Profiles
  BY DEF TypeOK
<1>2. Canonical[s] \in Slugs /\ live[Canonical[s]] \in Nat /\ cache[s].version \in Nat
  BY SlugsAssumption DEF TypeOK, Profiles
<1>3. /\ cache[s].person = Canonical[s]
      /\ cache[s].version <= live[Canonical[s]]
      /\ \E q \in Requests : body[q].quality = "good" /\ fetched[q] = cache[s]
  BY <1>1 DEF CacheSound
<1>4. cache'[s].version <= live'[Canonical[s]]
  BY <1>1, <1>2, <1>3
<1> QED
  BY <1>1, <1>3, <1>4

\* A cached profile was read for somebody and is of the person asked for.
LEMMA HitStep ==
  ASSUME IInv, B!TypeOK', UNCHANGED configured, NEW r \in Requests, Hit(r)
  PROVE  IInv'
<1> USE DEF IInv, Hit, Serve, Return, ProfileCacheKey, budgetVars
<1>0. asked[r].slug \in Slugs /\ Person(r) \in Slugs
  BY PersonIsSlug
<1>1. cache[asked[r].slug] \in Profiles
  BY <1>0 DEF TypeOK, ReadingOK
<1>2. TypeOK'
  BY <1>1 DEF TypeOK, Places, Answers
<1>3. PlaceOK'
  BY DEF TypeOK, PlaceOK, Early, NoAnswer
<1>4. ReadingOK'
  BY DEF ReadingOK, Person, Early
<1>5. CacheSound'
  BY DEF CacheSound
<1>6. AnswerOK'
  BY <1>0 DEF AnswerOK, Answered, PlaceOK, CacheSound, Person, Early
<1>7. (\A q \in Requests : calls[q] > 0 => pc[q] = "allowed")'
  OBVIOUS
<1> QED
  BY <1>2, <1>3, <1>4, <1>5, <1>6, <1>7

LEMMA MissStep ==
  ASSUME IInv, B!TypeOK', UNCHANGED configured, NEW r \in Requests, Miss(r)
  PROVE  IInv'
<1> USE DEF IInv, Miss, FetchLive, Goto, Fail, Return, budgetVars
<1>0. asked[r].slug \in Slugs /\ Person(r) \in Slugs
  BY PersonIsSlug
<1>2. TypeOK'
  BY <1>0 DEF TypeOK, Places, Answers, PlaceOK, ErrorCodes, Profiles
<1>3. PlaceOK'
  BY DEF TypeOK, PlaceOK, Early, NoAnswer
<1>4. ReadingOK'
  BY DEF ReadingOK, TypeOK, Person, Early
<1>5. CacheSound'
  BY DEF CacheSound
<1>6. AnswerOK'
  <2>1. \A q \in Answered' : q \in Answered /\ answer'[q] = answer[q]
    BY DEF Answered, TypeOK
  <2> QED
    BY <2>1, AnswersKept
<1>7. (\A q \in Requests : calls[q] > 0 => pc[q] = "allowed")'
  BY <1>0 DEF PlaceOK, TypeOK
<1> QED
  BY <1>2, <1>3, <1>4, <1>5, <1>6, <1>7

LEMMA InvalidateStep ==
  ASSUME IInv, B!TypeOK', UNCHANGED configured, NEW r \in Requests, Invalidate(r)
  PROVE  IInv'
<1> USE DEF IInv, Invalidate, FetchLive, Goto, Fail, Return, ProfileCacheKey, budgetVars
<1>0. asked[r].slug \in Slugs /\ Person(r) \in Slugs
  BY PersonIsSlug
<1>2. TypeOK'
  <2>1a. at' \in [Requests -> Places]
    BY DEF TypeOK, Places
  <2>2. answer' \in [Requests -> Answers]
    BY ErrorsAreAnswers DEF TypeOK, ErrorCodes
  <2> QED
    BY <2>1a, <2>2 DEF TypeOK
<1>3. PlaceOK'
  BY DEF TypeOK, PlaceOK, Early, NoAnswer
<1>4. ReadingOK'
  BY DEF ReadingOK, TypeOK, Person, Early
<1>5. CacheSound'
  BY CacheKept DEF TypeOK
<1>6. AnswerOK'
  <2>1. \A q \in Answered' : q \in Answered /\ answer'[q] = answer[q]
    BY DEF Answered, TypeOK
  <2> QED
    BY <2>1, AnswersKept
<1>7. (\A q \in Requests : calls[q] > 0 => pc[q] = "allowed")'
  BY <1>0 DEF PlaceOK, TypeOK
<1> QED
  BY <1>2, <1>3, <1>4, <1>5, <1>6, <1>7

\* The first call reads the person as it is now.
LEMMA DashProfileStep ==
  ASSUME IInv, B!TypeOK', UNCHANGED configured, NEW r \in Requests, DashProfile(r)
  PROVE  IInv'
<1> USE DEF IInv, DashProfile, CallLinkedIn, Goto, budgetVars
<1>0. asked[r].slug \in Slugs /\ Person(r) \in Slugs
  BY PersonIsSlug
<1>2. TypeOK'
  BY <1>0 DEF TypeOK, Places, Early, PlaceOK, Bodies
<1>3. PlaceOK'
  BY DEF TypeOK, PlaceOK, Early, NoBody
<1>4. ReadingOK'
  BY <1>0 DEF ReadingOK, TypeOK, Person, Early
<1>5. CacheSound'
  BY DEF CacheSound, ReadingOK, Early
<1>6. AnswerOK'
  BY DEF AnswerOK, Answered, PlaceOK, Person
<1>7. (\A q \in Requests : calls[q] > 0 => pc[q] = "allowed")'
  BY <1>0 DEF PlaceOK, TypeOK
<1> QED
  BY <1>2, <1>3, <1>4, <1>5, <1>6, <1>7

LEMMA DashProfileFailsStep ==
  ASSUME IInv, B!TypeOK', UNCHANGED configured, NEW r \in Requests, DashProfileFails(r)
  PROVE  IInv'
<1> USE DEF IInv, DashProfileFails, CallLinkedIn, Fail, Return, MapFailure, budgetVars
<1>0. asked[r].slug \in Slugs /\ Person(r) \in Slugs
  BY PersonIsSlug
<1>2. TypeOK'
  <2>0. \A kind \in DOMAIN MapFailure : MapFailure[kind] \in ErrorCodes
    BY DEF ErrorCodes
  <2>1a. at' \in [Requests -> Places]
    BY DEF TypeOK, Places
  <2>2. answer' \in [Requests -> Answers]
    BY ErrorsAreAnswers, <2>0 DEF TypeOK
  <2>3. calls' \in [Requests -> 0 .. 2]
    BY DEF TypeOK, PlaceOK, Early
  <2> QED
    BY <2>1a, <2>2, <2>3 DEF TypeOK
<1>3. PlaceOK'
  BY DEF TypeOK, PlaceOK, Early, NoAnswer
<1>4. ReadingOK'
  BY DEF ReadingOK, TypeOK, Person, Early
<1>5. CacheSound'
  BY DEF CacheSound
<1>6. AnswerOK'
  BY AnswersKept DEF Answered, TypeOK
<1>7. (\A q \in Requests : calls[q] > 0 => pc[q] = "allowed")'
  BY <1>0 DEF PlaceOK, TypeOK
<1> QED
  BY <1>2, <1>3, <1>4, <1>5, <1>6, <1>7

\* The second call ends with a profile only where the first body was good.
LEMMA RecommendationsStep ==
  ASSUME IInv, B!TypeOK', UNCHANGED configured, NEW r \in Requests, Recommendations(r)
  PROVE  IInv'
<1> USE DEF IInv, Recommendations, CallLinkedIn, Fail, Return, Goto, Assemble, budgetVars
<1>0. asked[r].slug \in Slugs /\ Person(r) \in Slugs
  BY PersonIsSlug
<1>2. TypeOK'
  <2>1a. at' \in [Requests -> Places]
    BY DEF TypeOK, Places
  <2>2. answer' \in [Requests -> Answers]
    BY ErrorsAreAnswers DEF TypeOK, ErrorCodes
  <2>3. calls' \in [Requests -> 0 .. 2]
    BY DEF TypeOK, PlaceOK, Early
  <2>4. /\ body' \in [Requests -> Bodies \cup {NoBody}]
        /\ fetched' \in [Requests -> Profiles \cup {NoProfile}]
    BY <1>0 DEF TypeOK, Profiles, Bodies, NoBody
  <2> QED
    BY <2>1a, <2>2, <2>3, <2>4 DEF TypeOK
<1>3. PlaceOK'
  BY DEF TypeOK, PlaceOK, Early, NoAnswer
<1>4. ReadingOK'
  BY <1>0, SlugsAssumption DEF ReadingOK, TypeOK, Person, Early, NoProfile
<1>5. CacheSound'
  BY DEF CacheSound, ReadingOK, TypeOK
<1>6. AnswerOK'
  BY AnswersKept DEF Answered, ReadingOK, TypeOK, PlaceOK, NoAnswer
<1>7. (\A q \in Requests : calls[q] > 0 => pc[q] = "allowed")'
  BY <1>0 DEF PlaceOK, TypeOK
<1> QED
  BY <1>2, <1>3, <1>4, <1>5, <1>6, <1>7

\* What is stored is of the person whose slug it is stored under.
LEMMA StoreStep ==
  ASSUME IInv, B!TypeOK', UNCHANGED configured, NEW r \in Requests, Store(r)
  PROVE  IInv'
<1> USE DEF IInv, Store, Serve, Return, ProfileCacheKey, budgetVars
<1>0. asked[r].slug \in Slugs /\ Person(r) \in Slugs
  BY PersonIsSlug
<1>1. fetched[r] \in Profiles
  BY <1>0 DEF TypeOK, ReadingOK
<1>2. TypeOK'
  BY <1>1 DEF TypeOK, Places, Answers
<1>3. PlaceOK'
  BY DEF TypeOK, PlaceOK, Early, NoAnswer
<1>4. ReadingOK'
  BY DEF ReadingOK, Person, Early
<1>5. CacheSound'
  <2>1. /\ fetched[r].id \in Slugs /\ Canonical[fetched[r].id] = Person(r)
        /\ fetched[r].person = Person(r) /\ fetched[r].version <= live[Person(r)]
        /\ body[r].quality = "good"
    BY <1>0, SlugsAssumption DEF ReadingOK, Person, NoBody
  <2> QED
    BY <2>1 DEF CacheSound, TypeOK
<1>6. AnswerOK'
  BY DEF AnswerOK, Answered, Person, ReadingOK
<1>7. (\A q \in Requests : calls[q] > 0 => pc[q] = "allowed")'
  OBVIOUS
<1> QED
  BY <1>2, <1>3, <1>4, <1>5, <1>6, <1>7

LEMMA ArriveStep ==
  ASSUME IInv, B!TypeOK', UNCHANGED configured, NEW r \in Requests, Arrive(r)
  PROVE  IInv'
<1> USE DEF IInv, Arrive, Goto, budgetVars
<1>2. TypeOK'
  <2>1. asked' \in [Requests -> [slug : Slugs \cup {Nobody}, refresh : BOOLEAN]]
    BY EnvironmentAssumption DEF TypeOK
  <2>2. arrived' \in [Requests -> 0 .. MaxVersion]
    BY SlugsAssumption, ServiceBounds DEF TypeOK
  <2> QED
    BY <2>1, <2>2 DEF TypeOK, Places
<1>3. PlaceOK'
  BY SlugsAssumption DEF TypeOK, PlaceOK, Early
<1>4. ReadingOK'
  BY SlugsAssumption DEF ReadingOK, TypeOK, Person, Early, PlaceOK
<1>5. CacheSound'
  BY DEF CacheSound
<1>6. AnswerOK'
  BY DEF AnswerOK, Answered, PlaceOK, Person, NoAnswer
<1>7. (\A q \in Requests : calls[q] > 0 => pc[q] = "allowed")'
  BY DEF PlaceOK, TypeOK
<1> QED
  BY <1>2, <1>3, <1>4, <1>5, <1>6, <1>7

LEMMA DisconnectStep ==
  ASSUME IInv, B!TypeOK', UNCHANGED configured, NEW r \in Requests, Disconnect(r)
  PROVE  IInv'
<1> USE DEF IInv, Disconnect, budgetVars
<1>2. TypeOK'
  BY DEF TypeOK
<1>3. PlaceOK'
  BY DEF PlaceOK
<1>4. ReadingOK'
  BY DEF ReadingOK, Person
<1>5. CacheSound'
  BY DEF CacheSound
<1>6. AnswerOK'
  BY DEF AnswerOK, Answered, Person
<1>7. (\A q \in Requests : calls[q] > 0 => pc[q] = "allowed")'
  BY DEF PlaceOK, TypeOK
<1> QED
  BY <1>2, <1>3, <1>4, <1>5, <1>6, <1>7

\* The budget: the request leaves it allowed, refused, or not at all.
LEMMA ConsumeStep ==
  ASSUME IInv, B!TypeOK', UNCHANGED configured, NEW r \in Requests, ConsumeScrapeBudget(r)
  PROVE  IInv'
<1> USE DEF IInv, ConsumeScrapeBudget, Goto, Fail, Return
<1>1. /\ at[r] = "budget"
      /\ pc[r] \in {"idle", "incr", "expire"}
      /\ pc'[r] \in {"incr", "expire", "allowed", "denied"}
      /\ \A q \in Requests : q # r => pc'[q] = pc[q]
  <2>1. PICK p \in {"incr", "expire", "allowed", "denied"} : pc' = [pc EXCEPT ![r] = p]
    <3>2. pc = [pc EXCEPT ![r] = pc[r]]
      BY DEF TypeOK, B!TypeOK
    <3> QED
      BY <3>2
         DEF B!Begin, B!Incr, B!LoseReply, B!IncrFails, B!Expire, B!ExpireFails,
             B!Verdict
  <2> QED
    BY <2>1 DEF PlaceOK, B!TypeOK
<1>2. /\ at' \in [Requests -> Places] /\ answer' \in [Requests -> Answers]
      /\ \A q \in Requests : q # r => at'[q] = at[q] /\ answer'[q] = answer[q]
      /\ \/ at'[r] = "dashProfile" /\ pc'[r] = "allowed" /\ answer'[r] = NoAnswer
         \/ at'[r] = "done" /\ answer'[r] = [code |-> "PRF07"]
         \/ at'[r] = "budget" /\ pc'[r] \in {"incr", "expire"} /\ answer'[r] = NoAnswer
  BY <1>1, ErrorsAreAnswers DEF TypeOK, PlaceOK, Places, ErrorCodes
<1>3. TypeOK'
  BY <1>2 DEF TypeOK
<1>4. PlaceOK'
  BY <1>1, <1>2 DEF PlaceOK, Early, NoAnswer
<1>5. ReadingOK'
  BY <1>2 DEF ReadingOK, Early, Person
<1>6. AnswerOK'
  <2>1. \A q \in Answered' : q \in Answered /\ answer'[q] = answer[q] /\ pc'[q] = pc[q]
    BY <1>1, <1>2 DEF Answered, NoAnswer
  <2> QED
    BY <2>1, AnswersKept
<1>7. CacheSound'
  BY DEF CacheSound
<1>8. (\A q \in Requests : calls[q] > 0 => pc[q] = "allowed")'
  BY <1>1
<1> QED
  BY <1>3, <1>4, <1>5, <1>6, <1>7, <1>8

\* A profile that is edited only gets newer.
LEMMA EditStep ==
  ASSUME IInv, B!TypeOK', UNCHANGED configured, NEW p \in Slugs, Edit(p)
  PROVE  IInv'
<1> USE DEF IInv, Edit, budgetVars
<1>1. /\ live' \in [Slugs -> 1 .. MaxVersion]
      /\ \A s \in Slugs : live[s] \in Nat /\ live'[s] \in Nat /\ live[s] <= live'[s]
  BY ServiceBounds DEF TypeOK
<1>2. TypeOK'
  BY <1>1 DEF TypeOK
<1>3. PlaceOK'
  BY DEF PlaceOK
<1>4. ReadingOK'
  <2>2. \A r \in Requests : body[r] # NoBody => at[r] # "idle" /\ body[r].version \in Nat
    BY DEF PlaceOK, Early, TypeOK, Bodies
  <2>3. \A r \in Requests : arrived[r] \in Nat
    BY ServiceBounds DEF TypeOK
  <2> QED
    BY <1>1, <2>2, <2>3 DEF ReadingOK, Person
<1>5. AnswerOK'
  BY DEF AnswerOK, Answered, Person
<1>6. CacheSound'
  BY <1>1, CacheKept
<1> QED
  BY <1>2, <1>3, <1>4, <1>5, <1>6

\* Redis loses entries, and the clock moves on.
LEMMA ForgetStep ==
  ASSUME IInv, B!TypeOK', UNCHANGED configured,
         (\E s \in Slugs : EntryExpires(s)) \/ RedisRestart \/ Clock
  PROVE  IInv'
<1> USE DEF IInv
<1>1. /\ UNCHANGED <<pc, live, at, asked, cancelled, body, fetched, answer, arrived, calls>>
      /\ cache' \in [Slugs -> Profiles \cup {NoProfile}]
      /\ \A s \in Slugs : cache'[s] \in {cache[s], NoProfile}
  BY DEF EntryExpires, RedisRestart, Clock, B!RedisRestart, B!NextDay, B!DropKey,
         B!callVars, budgetVars, TypeOK
<1>2. TypeOK'
  BY <1>1 DEF TypeOK
<1>3. PlaceOK' /\ ReadingOK' /\ AnswerOK'
  BY <1>1 DEF PlaceOK, ReadingOK, AnswerOK, Answered, Person
<1>4. CacheSound'
  <2>1. \A s \in Slugs : live[s] \in Nat
    BY ServiceBounds DEF TypeOK
  <2> QED
    BY <1>1, <2>1, CacheKept
<1> QED
  BY <1>1, <1>2, <1>3, <1>4

\* The process dies: what was being served is lost, and nothing else changes.
LEMMA CrashStep ==
  ASSUME IInv, B!TypeOK', UNCHANGED configured, Crash
  PROVE  IInv'
<1> USE DEF IInv, Crash
<1>1. /\ \A r \in Requests :
            /\ pc'[r] = pc[r] \/ pc[r] \in {"incr", "expire"}
            /\ at'[r] = IF at[r] \in {"idle", "done", "lost"} THEN at[r] ELSE "lost"
      /\ at' \in [Requests -> Places]
  BY DEF B!Crash, B!InFlight, budgetVars, Places, Served
<1>2. TypeOK'
  BY <1>1 DEF TypeOK
<1>3. PlaceOK'
  BY <1>1 DEF PlaceOK, Early
<1>4. ReadingOK'
  BY <1>1 DEF ReadingOK, Early, Person
<1>5. AnswerOK'
  BY <1>1, AnswersKept DEF Answered
<1>6. CacheSound'
  BY DEF CacheSound
<1> QED
  BY <1>1, <1>2, <1>3, <1>4, <1>5, <1>6

\* The invariant is inductive, given that the component keeps its types.
LEMMA NextIInv ==
  ASSUME IInv, B!TypeOK', [Next]_vars
  PROVE  IInv'
<1>1. CASE Next
  <2> USE <1>1
  <2>1. UNCHANGED configured
    BY DEF Next
  <2>2. ASSUME NEW r \in Requests, Arrive(r) \/ Step(r) \/ Disconnect(r) PROVE IInv'
    BY <2>1, <2>2, ArriveStep, HitStep, MissStep, InvalidateStep, ConsumeStep,
       DashProfileStep,
       DashProfileFailsStep, RecommendationsStep, StoreStep, DisconnectStep DEF Step
  <2>3. ASSUME NEW p \in Slugs, Edit(p) PROVE IInv'
    BY <2>1, <2>3, EditStep
  <2>4. CASE (\E s \in Slugs : EntryExpires(s)) \/ RedisRestart \/ Clock
    BY <2>1, <2>4, ForgetStep
  <2>5. CASE Crash
    BY <2>1, <2>5, CrashStep
  <2> QED
    BY <2>2, <2>3, <2>4, <2>5 DEF Next
<1>2. CASE UNCHANGED vars
  BY <1>2
     DEF vars, budgetVars, serviceVars, IInv, TypeOK, PlaceOK, ReadingOK, AnswerOK,
              CacheSound, Answered, Person
<1> QED
  BY <1>1, <1>2

\* At first everybody is idle and the cache empty.
LEMMA InitIInv == Init /\ B!TypeOK => IInv
<1> SUFFICES ASSUME Init, B!TypeOK PROVE IInv
  OBVIOUS
<1> USE DEF Init
<1>1. TypeOK
  BY ServiceBounds DEF TypeOK, Places, Answers, Bodies
<1>2. PlaceOK
  BY SlugsAssumption DEF PlaceOK, Early, B!Init
<1>3. ReadingOK
  BY DEF ReadingOK, Early
<1>4. AnswerOK /\ CacheSound
  BY DEF AnswerOK, Answered, CacheSound, NoAnswer
<1> QED
  BY <1>1, <1>2, <1>3, <1>4 DEF IInv

\* IInv, which ties places, readings, answers and the cache together, always holds.
THEOREM Inductive == Spec => []IInv
<1>1. Init /\ B!TypeOK => IInv
  BY InitIInv
<1>2. IInv /\ B!TypeOK' /\ [Next]_vars => IInv'
  BY NextIInv
<1> QED
  BY <1>1, <1>2, ComponentInvariants, PTL DEF Spec

\* Whoever asks gets the person asked for, whichever slug they used and whoever
\* filled the cache (repo_profile.go:85, assemble.go:104).
THEOREM PersonIsRight == Spec => []RightPerson
<1>1. IInv => RightPerson
  BY DEF IInv, RightPerson, AnswerOK, ReadingOK, Answered
<1> QED
  BY <1>1, Inductive, PTL

\* What is not marked as cached was read after the request came in, and a refresh
\* is always answered like that (service_profile.go:41-47).
THEOREM LiveIsLive == Spec => []LiveMeansLive
<1>1. IInv => LiveMeansLive
  <2> SUFFICES ASSUME IInv, NEW r \in Answered
               PROVE  /\ asked[r].refresh => ~answer[r].cached
                      /\ ~answer[r].cached => answer[r].profile.version >= arrived[r]
    BY DEF LiveMeansLive
  <2> USE DEF IInv
  <2>1. asked[r].refresh => ~answer[r].cached
    BY DEF AnswerOK, Answered
  <2>2. ASSUME ~answer[r].cached PROVE answer[r].profile.version >= arrived[r]
    <3>1. fetched[r] # NoProfile /\ fetched[r] = answer[r].profile
      BY <2>2 DEF AnswerOK, Answered
    <3>2. body[r] # NoBody /\ fetched[r].version = body[r].version
      BY <3>1 DEF ReadingOK, NoBody, Answered
    <3>3. body[r].version \in Nat /\ arrived[r] \in Nat /\ arrived[r] <= body[r].version
      BY <3>2, ServiceBounds DEF ReadingOK, TypeOK, Bodies, Answered
    <3> QED
      BY <3>1, <3>2, <3>3
  <2> QED
    BY <2>1, <2>2
<1> QED
  BY <1>1, Inductive, PTL

\* A cached answer drew no unit and made no call (service_profile.go:74).
THEOREM CachedReadsCostNothing == Spec => []CachedReadsAreFree
<1>1. IInv /\ BP!CallOK => CachedReadsAreFree
  BY SameBooks DEF IInv, CachedReadsAreFree, AnswerOK, Answered
<1> QED
  BY <1>1, Inductive, ComponentInvariants, PTL

\* Nothing nameless, unparsable or foreign gets into the cache
\* (service_profile.go:62-64, repo_profile.go:52).
THEOREM CacheIsSound == Spec => []CacheSound
<1>1. IInv => CacheSound
  BY DEF IInv
<1> QED
  BY <1>1, Inductive, PTL

\* LinkedIn hears only from requests the budget let through, of which there are at
\* most Budget in one life of a day's counter (service_profile.go:74-84).
THEOREM CallsStayInBudget == Spec => []CallsAreBudgeted
<1>1. IInv /\ BP!Ceiling => CallsAreBudgeted
  <2> SUFFICES ASSUME IInv, BP!Ceiling PROVE CallsAreBudgeted
    OBVIOUS
  <2>1. \A r \in Requests : calls[r] > 0 => pc[r] = "allowed"
    BY DEF IInv
  <2>2. ASSUME Budget > 0, NEW b \in B!Books
        PROVE  Cardinality({r \in B!Drawn(b) : calls[r] > 0}) <= Budget
    <3> DEFINE Callers == {r \in B!Drawn(b) : calls[r] > 0}
    <3>1. Callers \subseteq B!Admitted(b)
      BY <2>1 DEF B!Admitted, B!Refused, B!Drawn
    <3>2. IsFiniteSet(B!Admitted(b))
      BY CountersAssumption, FS_Subset DEF B!Admitted, B!Drawn
    <3>3. /\ Cardinality(Callers) <= Cardinality(B!Admitted(b))
          /\ IsFiniteSet(Callers)
      BY <3>1, <3>2, FS_Subset
    <3>4. Cardinality(B!Admitted(b)) <= Budget
      BY <2>2, SameBooks
    <3>5. Cardinality(Callers) \in Nat /\ Cardinality(B!Admitted(b)) \in Nat
      BY <3>2, <3>3, FS_CardinalityType
    <3> QED
      BY <3>3, <3>4, <3>5, CountersAssumption
  <2> QED
    BY <2>1, <2>2 DEF CallsAreBudgeted
<1> QED
  BY <1>1, Inductive, ComponentInvariants, PTL

-----------------------------------------------------------------------------
(* The promise.                                                            *)

\* What a caller is told, place by place.
LEMMA ToldByPlace ==
  ASSUME IInv, NEW r \in Requests
  PROVE  /\ at[r] \notin {"done", "lost"} => Told(r) = Promise!Pending
         /\ at[r] = "lost" => Told(r) = Promise!Lost
         /\ at[r] = "done" => Told(r) # Promise!Pending
         /\ Promise!Open(r) <=> r \in Served
<1> USE DEF IInv, Promise!Pending, Promise!Lost
<1>1. answer[r] # NoAnswer => answer[r].code # "none"
  BY DEF TypeOK, Answers, NoAnswer, ErrorCodes
<1>2. /\ at[r] \notin {"done", "lost"} => Told(r) = Promise!Pending
      /\ at[r] = "lost" => Told(r) = Promise!Lost
  BY DEF Told, PlaceOK, NoAnswer
<1>3. at[r] = "done" => Told(r) # Promise!Pending
  BY <1>1 DEF Told, PlaceOK
<1>4. Promise!Open(r) <=> r \in Served
  BY <1>2, <1>3 DEF Promise!Open, Replies, Served, PlaceOK, Promise!Lost
<1> QED
  BY <1>2, <1>3, <1>4

\* A request that is told nothing new is a stutter for its caller.
LEMMA SilentStep ==
  ASSUME UNCHANGED <<live, asked, answer, body>>,
         \A q \in Requests : at'[q] = "lost" <=> at[q] = "lost"
  PROVE  UNCHANGED Promise!promiseVars
<1>1. \A q \in Requests : Told(q)' = Told(q)
  BY DEF Told
<1>2. Replies' = Replies
  BY <1>1 DEF Replies
<1>3. Snapshots' = Snapshots
  BY DEF Snapshots
<1> QED
  BY <1>2, <1>3 DEF Promise!promiseVars

\* Whoever returns changes one reply.
LEMMA ReturnStep ==
  ASSUME IInv, NEW r \in Served, NEW result \in Answers, Return(r, result),
         UNCHANGED <<live, asked, body>>
  PROVE  /\ Replies' = [Replies EXCEPT ![r] = Told(r)']
         /\ at'[r] = "done" /\ answer'[r] = result
         /\ UNCHANGED <<live, asked, Snapshots>>
<1> USE DEF Return, IInv, Served
<1>1. /\ at'[r] = "done" /\ answer'[r] = result
      /\ \A q \in Requests : q # r => at'[q] = at[q] /\ answer'[q] = answer[q]
  BY DEF TypeOK
<1>2. \A q \in Requests : q # r => Told(q)' = Told(q)
  BY <1>1 DEF Told
<1>3. Replies' = [Replies EXCEPT ![r] = Told(r)']
  BY <1>2 DEF Replies
<1> QED
  BY <1>1, <1>3 DEF Snapshots

LEMMA FailStep ==
  ASSUME IInv, NEW r \in Served, NEW code \in ErrorCodes, Fail(r, code),
         UNCHANGED <<live, asked, body>>
  PROVE  Promise!AnswerError(r)
<1>1. [code |-> code] \in Answers
  BY ErrorsAreAnswers
<1>2. /\ Replies' = [Replies EXCEPT ![r] = Told(r)']
      /\ at'[r] = "done" /\ answer'[r] = [code |-> code]
      /\ UNCHANGED <<live, asked, Snapshots>>
  BY <1>1, ReturnStep DEF Fail
<1>3. Told(r)' = Promise!Error(code)
  BY <1>2 DEF Told, Promise!Error, ErrorCodes
<1>4. r \in Requests /\ Promise!Open(r)
  BY ToldByPlace DEF Served
<1> QED
  BY <1>2, <1>3, <1>4 DEF Promise!AnswerError

LEMMA ServeStep ==
  ASSUME IInv, NEW r \in Served, NEW profile \in Profiles, NEW cached \in BOOLEAN,
         Serve(r, profile, cached), UNCHANGED <<live, asked, body>>
  PROVE  /\ Replies' = [Replies EXCEPT ![r] =
              Promise!Profile(profile.person, profile.version, cached)]
         /\ UNCHANGED <<live, asked, Snapshots>>
         /\ Promise!Open(r)
<1> DEFINE result == [code |-> "ok", profile |-> profile, cached |-> cached]
<1>1. result \in Answers
  BY DEF Answers
<1>2. /\ Replies' = [Replies EXCEPT ![r] = Told(r)']
      /\ at'[r] = "done" /\ answer'[r] = result
      /\ UNCHANGED <<live, asked, Snapshots>>
  <2> HIDE DEF result
  <2> QED
    BY <1>1, ReturnStep DEF Serve, result
<1>3. Told(r)' = Promise!Profile(profile.person, profile.version, cached)
  BY <1>2 DEF Told, Promise!Profile
<1>4. r \in Requests /\ Promise!Open(r)
  BY ToldByPlace DEF Served
<1> QED
  BY <1>2, <1>3, <1>4

\* Each step of the service is one its caller was promised, or goes unnoticed.
LEMMA RequestKeepsPromise ==
  ASSUME IInv, NEW r \in Requests, Arrive(r) \/ Step(r) \/ Disconnect(r)
  PROVE  Promise!Next \/ UNCHANGED Promise!promiseVars
<1> USE DEF IInv
<1>1. CASE Arrive(r)
  <2>1. PICK s \in Slugs, refresh \in Refreshes :
          /\ asked' = [asked EXCEPT ![r] = [slug |-> s, refresh |-> refresh]]
          /\ Goto(r, IF refresh THEN "invalidate" ELSE "lookup")
    BY <1>1 DEF Arrive
  <2>2. \A q \in Requests : at'[q] = "lost" <=> at[q] = "lost"
    BY <1>1, <2>1 DEF Arrive, Goto, TypeOK
  <2>3. \A q \in Requests : Told(q)' = Told(q)
    BY <2>1, <2>2 DEF Told, Goto
  <2>4. UNCHANGED <<live, Snapshots, Replies>>
    BY <1>1, <2>3 DEF Arrive, Snapshots, Replies
  <2>5. asked[r].slug = Nobody /\ refresh \in BOOLEAN
    BY <1>1, EnvironmentAssumption DEF Arrive, PlaceOK
  <2>6. Promise!Ask(r)
    BY <2>1, <2>4, <2>5 DEF Promise!Ask
  <2> QED
    BY <2>6 DEF Promise!Next
<1>2. CASE Hit(r)
  <2> DEFINE profile == cache[asked[r].slug]
  <2>1. r \in Served /\ asked[r].slug \in Slugs /\ profile \in Profiles
    BY <1>2, PersonIsSlug DEF Hit, ProfileCacheKey, Served, TypeOK
  <2>2. /\ Replies' = [Replies EXCEPT ![r] =
             Promise!Profile(profile.person, profile.version, TRUE)]
        /\ UNCHANGED <<live, asked, Snapshots>>
        /\ Promise!Open(r)
    <3> HIDE DEF profile
    <3> QED
      BY <1>2, <2>1, ServeStep DEF Hit, ProfileCacheKey, profile
  <2>3. ~asked[r].refresh
    BY <1>2 DEF Hit, PlaceOK
  <2>4. PICK q \in Requests : body[q].quality = "good" /\ fetched[q] = profile
    BY <1>2, <2>1 DEF Hit, ProfileCacheKey, CacheSound
  <2>5. /\ fetched[q] # NoProfile /\ fetched[q].person = Person(q)
        /\ fetched[q].version = body[q].version /\ body[q] # NoBody
    BY <1>2, <2>4 DEF Hit, ProfileCacheKey, ReadingOK, NoBody
  <2>6. asked[q].slug # Nobody
    BY <2>5 DEF PlaceOK, Early
  <2>7. Snapshots[q] = profile.version /\ Snapshots[q] > 0
    BY <2>1, <2>4, <2>5, ServiceBounds DEF Snapshots, Profiles
  <2>8. Promise!Subject(q) = profile.person /\ Promise!Subject(r) = profile.person
    BY <2>1, <2>4, <2>5, <1>2
       DEF Promise!Subject, Person, CacheSound, Hit, ProfileCacheKey
  <2>9. Promise!AnswerCached(r)
    BY <2>2, <2>3, <2>6, <2>7, <2>8 DEF Promise!AnswerCached
  <2> QED
    BY <2>9 DEF Promise!Next
<1>3. CASE Miss(r) \/ Invalidate(r)
  <2>1. r \in Served /\ FetchLive(r) /\ UNCHANGED <<live, asked, body>>
    BY <1>3 DEF Miss, Invalidate, Served
  <2>2. CASE configured
    BY <2>1, <2>2, SilentStep DEF FetchLive, Goto, Served, TypeOK
  <2>3. CASE ~configured
    BY <2>1, <2>3, FailStep DEF FetchLive, ErrorCodes, Promise!Next
  <2> QED
    BY <2>2, <2>3
<1>4. CASE ConsumeScrapeBudget(r)
  <2>1. r \in Served /\ UNCHANGED <<live, asked, body>>
    BY <1>4 DEF ConsumeScrapeBudget, Served
  <2>2. Goto(r, "dashProfile") \/ Fail(r, "PRF07") \/ Goto(r, "budget")
    BY <1>4 DEF ConsumeScrapeBudget
  <2>3. CASE Goto(r, "dashProfile") \/ Goto(r, "budget")
    BY <2>1, <2>3, SilentStep DEF Goto, Served, TypeOK
  <2>4. CASE Fail(r, "PRF07")
    BY <2>1, <2>4, FailStep DEF ErrorCodes, Promise!Next
  <2> QED
    BY <2>2, <2>3, <2>4
<1>5. CASE DashProfile(r)
  <2>1. r \in Served /\ Person(r) \in Slugs
    BY <1>5, PersonIsSlug DEF DashProfile, Served
  <2>2. PICK quality \in {"good", "unparsable", "nameless"} :
          body' = [body EXCEPT ![r] = [quality |-> quality, version |-> live[Person(r)]]]
    BY <1>5 DEF DashProfile
  <2>3. Snapshots' = [Snapshots EXCEPT ![r] = live[Person(r)]]
    BY <2>2 DEF Snapshots, NoBody, TypeOK
  <2>4. Snapshots[r] = 0
    BY <1>5 DEF DashProfile, PlaceOK, Early, Snapshots
  <2>5. \A q \in Requests : Told(q)' = Told(q)
    BY <1>5 DEF DashProfile, Goto, Told, TypeOK
  <2>6. UNCHANGED <<live, asked, Replies>>
    BY <1>5, <2>5 DEF DashProfile, Replies
  <2>7. Promise!TakeSnapshot(r)
    BY <2>1, <2>3, <2>4, <2>6, ToldByPlace
       DEF Promise!TakeSnapshot, Promise!Subject, Person
  <2> QED
    BY <2>7 DEF Promise!Next
<1>6. CASE DashProfileFails(r)
  <2>1. r \in Served /\ UNCHANGED <<live, asked, body>>
    BY <1>6 DEF DashProfileFails, Served
  <2>2. \A kind \in DOMAIN MapFailure : MapFailure[kind] \in ErrorCodes
    BY DEF MapFailure, ErrorCodes
  <2>3. PICK code \in ErrorCodes : Fail(r, code)
    BY <1>6, <2>2 DEF DashProfileFails, MapFailure
  <2> QED
    BY <2>1, <2>3, FailStep DEF Promise!Next
<1>7. CASE Recommendations(r)
  <2>1. r \in Served /\ UNCHANGED <<live, asked, body>>
    BY <1>7 DEF Recommendations, Served
  <2>2. Goto(r, "store") \/ \E code \in ErrorCodes : Fail(r, code)
    BY <1>7 DEF Recommendations, ErrorCodes
  <2>3. CASE Goto(r, "store")
    BY <2>1, <2>3, SilentStep DEF Goto, Served, TypeOK
  <2>4. CASE \E code \in ErrorCodes : Fail(r, code)
    BY <2>1, <2>4, FailStep DEF Promise!Next
  <2> QED
    BY <2>2, <2>3, <2>4
<1>8. CASE Store(r)
  <2> DEFINE profile == fetched[r]
  <2>1. /\ r \in Served /\ profile \in Profiles
        /\ body[r] # NoBody /\ profile.version = body[r].version
        /\ profile.person = Person(r)
    BY <1>8 DEF Store, Served, ReadingOK, TypeOK, NoBody
  <2>2. /\ Replies' = [Replies EXCEPT ![r] =
             Promise!Profile(profile.person, profile.version, FALSE)]
        /\ UNCHANGED <<live, asked, Snapshots>>
        /\ Promise!Open(r)
    <3> HIDE DEF profile
    <3> QED
      BY <1>8, <2>1, ServeStep DEF Store, profile
  <2>3. Snapshots[r] = profile.version /\ Snapshots[r] > 0
    BY <2>1, ServiceBounds DEF Snapshots, Profiles
  <2>4. Promise!AnswerLive(r)
    BY <2>1, <2>2, <2>3 DEF Promise!AnswerLive, Promise!Subject, Person
  <2> QED
    BY <2>4 DEF Promise!Next
<1>9. CASE Disconnect(r)
  BY <1>9, SilentStep DEF Disconnect
<1> QED
  BY <1>1, <1>2, <1>3, <1>4, <1>5, <1>6, <1>7, <1>8, <1>9 DEF Step

LEMMA EnvironmentKeepsPromise ==
  ASSUME IInv, RedisRestart \/ Clock \/ Crash
                 \/ (\E p \in Slugs : Edit(p) \/ EntryExpires(p))
  PROVE  Promise!Next \/ UNCHANGED Promise!promiseVars
<1>1. CASE RedisRestart \/ Clock \/ \E p \in Slugs : EntryExpires(p)
  BY <1>1, SilentStep DEF RedisRestart, Clock, EntryExpires
<1>2. ASSUME NEW p \in Slugs, Edit(p) PROVE Promise!Next
  <2>1. Promise!Edit(p)
    BY <1>2 DEF Edit, Promise!Edit, Snapshots, Replies, Told
  <2> QED
    BY <2>1 DEF Promise!Next
<1>3. CASE Crash
  <2>1. \A r \in Requests :
          Told(r)' = IF r \in Served THEN Promise!Lost ELSE Told(r)
    <3> SUFFICES ASSUME NEW r \in Requests
                 PROVE  Told(r)' = IF r \in Served THEN Promise!Lost ELSE Told(r)
      OBVIOUS
    <3>1. at'[r] = (IF r \in Served THEN "lost" ELSE at[r]) /\ answer'[r] = answer[r]
      BY <1>3 DEF Crash
    <3>2. CASE r \in Served
      BY <3>1, <3>2 DEF Told, Promise!Lost
    <3>3. CASE r \notin Served
      BY <3>1, <3>3 DEF Told
    <3> QED
      BY <3>2, <3>3
  <2>2. Replies' = [r \in Requests |-> IF Promise!Open(r) THEN Promise!Lost ELSE Replies[r]]
    BY <2>1, ToldByPlace DEF Replies
  <2>3. Promise!LoseAll
    BY <1>3, <2>2 DEF Promise!LoseAll, Crash, Snapshots
  <2> QED
    BY <2>3 DEF Promise!Next
<1> QED
  BY <1>1, <1>2, <1>3

\* Each step is one that ScrapePromise allows, or none that a caller can notice:
\* cache, budget and failures are invisible but for the age of a cached answer and
\* the codes of errors.
THEOREM ServiceKeepsPromise == Spec => ImplementsPromise
<1>1. Init => Promise!Init
  BY SlugsAssumption
     DEF Init, Promise!Init, Snapshots, Replies, Told, Promise!Pending, NoAnswer
<1>2. IInv /\ [Next]_vars => [Promise!Next]_(Promise!promiseVars)
  <2> SUFFICES ASSUME IInv, [Next]_vars
               PROVE  Promise!Next \/ UNCHANGED Promise!promiseVars
    OBVIOUS
  <2>1. CASE Next
    BY <2>1, RequestKeepsPromise, EnvironmentKeepsPromise DEF Next
  <2>2. CASE UNCHANGED vars
    BY <2>2, SilentStep DEF vars, serviceVars
  <2> QED
    BY <2>1, <2>2
<1> QED
  BY <1>1, <1>2, Inductive, PTL DEF Spec, ImplementsPromise, Promise!Spec
=============================================================================
