-------------------------- MODULE MiddlewaresProofs -------------------------
(***************************************************************************)
(* Proofs about Middlewares and Configuration, for any requests, callers,  *)
(* deployments and statuses: what a replay is a replay of, when a handler  *)
(* runs again, which browser is let in, and what a process runs with.      *)
(***************************************************************************)
EXTENDS Middlewares, SequenceLemmas

\* A preflight has one of three answers.
LEMMA PreflightType == ASSUME NEW c PROVE PreflightStatus(c) \in {204, 403, 404}
<1>1. CASE Welcome(c)
  BY <1>1 DEF PreflightStatus
<1>2. CASE ~Welcome(c) /\ c.origin # Empty /\ cfg.origins # Empty
  BY <1>2 DEF PreflightStatus
<1>3. CASE ~Welcome(c) /\ ~(c.origin # Empty /\ cfg.origins # Empty)
  BY <1>3 DEF PreflightStatus
<1>4. QED
  BY <1>1, <1>2, <1>3

\* The origin that is echoed is the caller's.
LEMMA AllowType ==
  ASSUME NEW c \in Calls
  PROVE  Allow(c) \in {Empty} \cup {d.origin : d \in Calls}
  BY DEF Allow

\* A request that has come has its entry among the cache keys.
LEMMA KeyType ==
  ASSUME NEW r \in Requests, call[r] \in Calls
  PROVE  Key(r) \in CacheKeys
  BY DEF Key, CacheKeys

\* What has failed stays on record.
LEMMA FailedStays ==
  ASSUME failed \subseteq failed'
  PROVE  \A q, command : Failed(q, command) => Failed(q, command)'
  BY DEF Failed

\* A command that fails is put on record, for whosesoever sake it failed.
LEMMA FailsInv ==
  ASSUME NEW r \in Requests, NEW command \in {"lookup", "store"},
         failed \subseteq Failures, at[r] = command, Fails(r)
  PROVE  failed' \subseteq Failures /\ Failed(r, command)' /\ failed \subseteq failed'
<1>1. PICK cause \in {"redis", "caller"} : failed' = failed \cup {<<r, command, cause>>}
  BY DEF Fails
<1>2. <<r, command, cause>> \in Failures
  BY DEF Failures
<1>3. Failed(r, command)'
  BY <1>1 DEF Failed
<1>4. QED
  BY <1>1, <1>2, <1>3

\* Nothing has come and nothing is stored at first.
LEMMA InitInv == Init => RequestInv
<1> SUFFICES ASSUME Init PROVE RequestInv
  OBVIOUS
<1> USE DEF Init
<1>1. TypeOK
  BY DEF TypeOK, NoAnswer, Working
<1>2. StoredOK /\ RunOK /\ BeforeOK
  BY DEF StoredOK, RunOK, BeforeOK, NoAnswer, Working
<1>3. KeptOK /\ MissExplained
  BY DEF KeptOK, MissExplained
<1>4. ReplaysAreFaithful /\ SecondRunIsExplained
  BY DEF ReplaysAreFaithful, SecondRunIsExplained, NoAnswer
<1>5. QED
  BY <1>1, <1>2, <1>3, <1>4 DEF RequestInv

-----------------------------------------------------------------------------
\* A new request, whatever its first answer, disturbs no other.
LEMMA ComeInv ==
  ASSUME RequestInv, NEW r \in Requests, NEW c \in Calls, Come(r, c),
         NEW place \in {"done", "lookup"}, NEW status \in {0, 204, 400, 403, 404},
         Send(r, c, place, status)
  PROVE  RequestInv'
<1> USE DEF RequestInv, Come, Send, process
<1>a. /\ at \in [Requests -> {"idle", "done", "lost"} \cup Working]
      /\ call \in [Requests -> {NoCall} \cup Calls]
      /\ before \in [Requests -> SUBSET Requests]
      /\ answer \in [Requests -> [status : {0, 204, 400, 403, 404} \cup Statuses,
                                  allow : {Empty} \cup {d.origin : d \in Calls},
                                  by : SUBSET Requests]]
  BY DEF TypeOK
<1>b. /\ at[r] = "idle" /\ ran[r] = 0 /\ before[r] = {} /\ answer[r].by = {}
  BY DEF RunOK, BeforeOK
<1>c. \A q \in Requests \ {r} :
        /\ at'[q] = at[q] /\ call'[q] = call[q] /\ before'[q] = before[q]
        /\ answer'[q] = answer[q] /\ Key(q)' = Key(q)
  BY <1>a DEF Key
<1>d. /\ at'[r] = place /\ call'[r] = c /\ answer'[r].by = {}
      /\ before'[r] = {q \in Requests : at[q] = "done"}
  BY <1>a
<1>e. ran' = ran /\ stored' = stored /\ failed' = failed /\ lapsed' = lapsed
  OBVIOUS
<1>1. TypeOK'
  <2>1. [status |-> status, allow |-> Allow(c), by |-> {}]
          \in [status : {0, 204, 400, 403, 404} \cup Statuses,
               allow : {Empty} \cup {d.origin : d \in Calls},
               by : SUBSET Requests]
    BY AllowType
  <2>2. answer' \in [Requests -> [status : {0, 204, 400, 403, 404} \cup Statuses,
                                  allow : {Empty} \cup {d.origin : d \in Calls},
                                  by : SUBSET Requests]]
    BY <2>1, <1>a
  <2>3. at' \in [Requests -> {"idle", "done", "lost"} \cup Working]
    BY <1>a DEF Working
  <2>4. call' \in [Requests -> {NoCall} \cup Calls] /\ before' \in [Requests -> SUBSET Requests]
    BY <1>a
  <2>5. QED
    BY <2>2, <2>3, <2>4 DEF TypeOK
<1>2. StoredOK'
  BY <1>b, <1>c, <1>d, <1>e DEF StoredOK, TypeOK, Ok
<1>3. RunOK'
  BY <1>b, <1>c, <1>d, <1>e DEF RunOK
<1>4. BeforeOK'
  BY <1>b, <1>c, <1>d, <1>e DEF BeforeOK
<1>5. KeptOK'
  BY <1>b, <1>c, <1>d, <1>e DEF KeptOK, Ok, Failed
<1>6. MissExplained'
  BY <1>a, <1>b, <1>c, <1>d, <1>e DEF MissExplained, SameKey, BeforeOK, Failed
<1>7. ReplaysAreFaithful'
  BY <1>b, <1>c, <1>d, <1>e DEF ReplaysAreFaithful, SameKey, Ok
<1>8. SecondRunIsExplained'
  BY <1>a, <1>b, <1>c, <1>d, <1>e DEF SecondRunIsExplained, SameKey, BeforeOK, Failed
<1>9. QED
  BY <1>1, <1>2, <1>3, <1>4, <1>5, <1>6, <1>7, <1>8

\* What is replayed is what Redis holds: the success of a request that is over.
LEMMA ReplayInv == ASSUME RequestInv, NEW r \in Requests, Replay(r) PROVE RequestInv'
<1> USE DEF RequestInv, Replay, Succeeds, process, Write
<1>a. /\ at \in [Requests -> {"idle", "done", "lost"} \cup Working]
      /\ answer \in [Requests -> [status : {0, 204, 400, 403, 404} \cup Statuses,
                                  allow : {Empty} \cup {d.origin : d \in Calls},
                                  by : SUBSET Requests]]
      /\ stored \in [CacheKeys -> {NoEntry} \cup [status : Statuses, by : Requests]]
  BY DEF TypeOK
<1> DEFINE p == stored[Key(r)].by
<1>b. /\ Key(r) \in CacheKeys /\ call[r] \in Calls
      /\ ran[r] = 0 /\ answer[r].by = {} /\ at[r] = "lookup"
  BY KeyType DEF RunOK
<1>c. /\ p \in Requests /\ at[p] = "done" /\ Key(p) = Key(r)
      /\ ran[p] = stored[Key(r)].status /\ Ok(ran[p])
      /\ stored[Key(r)].status \in Statuses
  BY <1>a, <1>b DEF StoredOK
<1>d. /\ answer'[r] = [status |-> ran[p], allow |-> answer[r].allow, by |-> {p}]
      /\ at'[r] = "done"
      /\ \A q \in Requests \ {r} : answer'[q] = answer[q] /\ at'[q] = at[q]
      /\ \A q \in Requests : Key(q)' = Key(q)
  <2>1. \A q \in Requests : Key(q)' = Key(q)
    BY DEF Key
  <2>2. /\ answer' = [answer EXCEPT ![r] =
                        [status |-> ran[p], allow |-> answer[r].allow, by |-> {p}]]
        /\ at' = [at EXCEPT ![r] = "done"]
    BY <1>c
  <2>3. at'[r] = "done" /\ \A q \in Requests \ {r} : at'[q] = at[q]
    BY <1>a, <2>2
  <2>4. /\ answer'[r] = [status |-> ran[p], allow |-> answer[r].allow, by |-> {p}]
        /\ \A q \in Requests \ {r} : answer'[q] = answer[q]
    <3> DEFINE copy == [status |-> ran[p], allow |-> answer[r].allow, by |-> {p}]
    <3>1. answer' = [answer EXCEPT ![r] = copy]
      BY <2>2
    <3> HIDE DEF copy
    <3>2. answer'[r] = copy /\ \A q \in Requests \ {r} : answer'[q] = answer[q]
      BY <1>a, <3>1
    <3>3. QED
      BY <3>2 DEF copy
  <2>5. QED
    BY <2>1, <2>3, <2>4
<1>e. answer'[r].by = {p} /\ answer'[r].status = ran[p] /\ SameKey(p, r)
  <2>6. answer'[r].by = {p} /\ answer'[r].status = ran[p]
    BY <1>d
  <2>7. SameKey(p, r)
    BY <1>c DEF Key, CacheKey, SameKey
  <2>8. QED
    BY <2>6, <2>7
<1>f. /\ ran' = ran /\ stored' = stored /\ failed' = failed /\ lapsed' = lapsed
      /\ call' = call /\ before' = before
  OBVIOUS
<1>1. TypeOK'
  <2>1. answer'[r] \in [status : {0, 204, 400, 403, 404} \cup Statuses,
                        allow : {Empty} \cup {d.origin : d \in Calls},
                        by : SUBSET Requests]
    BY <1>a, <1>c, <1>d
  <2>2. answer' \in [Requests -> [status : {0, 204, 400, 403, 404} \cup Statuses,
                                  allow : {Empty} \cup {d.origin : d \in Calls},
                                  by : SUBSET Requests]]
    BY <2>1, <1>a, <1>c
  <2>3. at' \in [Requests -> {"idle", "done", "lost"} \cup Working]
    BY <1>a DEF Working
  <2>4. QED
    BY <2>2, <2>3 DEF TypeOK
<1>2. StoredOK'
  BY <1>b, <1>d, <1>f DEF StoredOK, TypeOK
<1>3. RunOK'
  BY <1>b, <1>d, <1>f DEF RunOK
<1>4. BeforeOK'
  BY <1>b, <1>d, <1>f DEF BeforeOK
<1>5. KeptOK'
  BY <1>b, <1>d, <1>f DEF KeptOK, Ok, Failed
<1>6. MissExplained'
  BY <1>d, <1>f DEF MissExplained, SameKey, Failed
<1>7. ReplaysAreFaithful'
  BY <1>b, <1>c, <1>d, <1>e, <1>f DEF ReplaysAreFaithful, SameKey
<1>8. SecondRunIsExplained'
  BY <1>f DEF SecondRunIsExplained, SameKey, Failed
<1>9. QED
  BY <1>1, <1>2, <1>3, <1>4, <1>5, <1>6, <1>7, <1>8

\* A lookup that finds nothing, or fails, explains a handler that runs again.
LEMMA MissInv == ASSUME RequestInv, NEW r \in Requests, Miss(r) PROVE RequestInv'
<1> USE DEF RequestInv, Miss, Succeeds, process
<1>a. at \in [Requests -> {"idle", "done", "lost"} \cup Working]
  BY DEF TypeOK
<1>b. /\ ran[r] = 0 /\ answer[r].by = {} /\ at[r] = "lookup" /\ call[r] \in Calls
  BY DEF RunOK
<1>c. /\ at'[r] = "handler"
      /\ \A q \in Requests \ {r} : at'[q] = at[q]
      /\ \A q \in Requests : Key(q)' = Key(q)
  BY <1>a DEF Key
<1>d. /\ ran' = ran /\ stored' = stored /\ lapsed' = lapsed /\ answer' = answer
      /\ call' = call /\ before' = before
  OBVIOUS
<1>e. /\ failed' \subseteq Failures /\ failed \subseteq failed'
      /\ Fails(r) => Failed(r, "lookup")'
  <2>1. failed \subseteq Failures
    BY DEF TypeOK
  <2>2. CASE Fails(r)
    BY <1>b, <2>1, <2>2, FailsInv
  <2>3. CASE failed' = failed /\ ~Fails(r)
    BY <2>1, <2>3
  <2>4. QED
    BY <2>2, <2>3
<1>f. \A q, command : Failed(q, command) => Failed(q, command)'
  BY <1>e, FailedStays
<1>1. TypeOK'
  <2>1. at' \in [Requests -> {"idle", "done", "lost"} \cup Working]
    BY <1>a DEF Working
  <2>2. QED
    BY <1>e, <2>1 DEF TypeOK
<1>2. StoredOK'
  BY <1>b, <1>c, <1>d DEF StoredOK, TypeOK
<1>3. RunOK'
  BY <1>b, <1>c, <1>d DEF RunOK
<1>4. BeforeOK'
  BY <1>b, <1>c, <1>d DEF BeforeOK
<1>5. KeptOK'
  BY <1>b, <1>c, <1>d, <1>f DEF KeptOK
<1>6. MissExplained'
  <2>1. ASSUME NEW q \in before[r], Ok(ran[q]), SameKey(q, r)
        PROVE  Failed(q, "store")' \/ Failed(r, "lookup")' \/ q \in lapsed
    <3>1. q \in Requests /\ at[q] = "done" /\ Key(q) = Key(r)
      BY <2>1 DEF TypeOK, BeforeOK, SameKey, Key, CacheKey
    <3>2. CASE stored[Key(r)] = NoEntry
      BY <1>f, <2>1, <3>1, <3>2 DEF KeptOK
    <3>3. CASE Fails(r)
      BY <1>e, <3>3
    <3>4. QED
      BY <3>2, <3>3
  <2>2. QED
    BY <1>c, <1>d, <1>f, <2>1 DEF MissExplained, SameKey, TypeOK
<1>7. ReplaysAreFaithful'
  BY <1>d DEF ReplaysAreFaithful, SameKey
<1>8. SecondRunIsExplained'
  BY <1>d, <1>f DEF SecondRunIsExplained, SameKey, TypeOK
<1>9. QED
  BY <1>1, <1>2, <1>3, <1>4, <1>5, <1>6, <1>7, <1>8

\* The handler runs; whoever was answered for another keeps that answer.
LEMMA HandleInv == ASSUME RequestInv, NEW r \in Requests, Handle(r) PROVE RequestInv'
<1> USE DEF RequestInv, process
<1>1. PICK status \in Statuses :
        /\ ran' = [ran EXCEPT ![r] = status]
        /\ answer' = [answer EXCEPT ![r] =
                       [status |-> status, allow |-> answer[r].allow, by |-> {r}]]
        /\ at' = [at EXCEPT ![r] = IF Replayable(status) THEN "store" ELSE "done"]
  BY DEF Handle, Write
<1>a. /\ at \in [Requests -> {"idle", "done", "lost"} \cup Working]
      /\ ran \in [Requests -> {0} \cup Statuses]
      /\ answer \in [Requests -> [status : {0, 204, 400, 403, 404} \cup Statuses,
                                  allow : {Empty} \cup {d.origin : d \in Calls},
                                  by : SUBSET Requests]]
  BY DEF TypeOK
<1>b. /\ ran[r] = 0 /\ answer[r].by = {} /\ at[r] = "handler" /\ call[r] \in Calls
      /\ ~Ok(ran[r])
  BY DEF RunOK, Handle, Ok
<1>c. /\ at'[r] = (IF Replayable(status) THEN "store" ELSE "done")
      /\ ran'[r] = status /\ answer'[r].status = status /\ answer'[r].by = {r}
      /\ \A q \in Requests \ {r} : at'[q] = at[q] /\ ran'[q] = ran[q] /\ answer'[q] = answer[q]
      /\ \A q \in Requests : Key(q)' = Key(q)
  BY <1>1, <1>a DEF Key, Handle
<1>d. /\ stored' = stored /\ lapsed' = lapsed /\ failed' = failed
      /\ call' = call /\ before' = before
  BY DEF Handle
<1>e. status \in 200 .. 599 /\ (Replayable(status) <=> Ok(status))
  BY StatusesAssumption DEF Replayable, Ok
<1>2. TypeOK'
  <2>1. answer' \in [Requests -> [status : {0, 204, 400, 403, 404} \cup Statuses,
                                  allow : {Empty} \cup {d.origin : d \in Calls},
                                  by : SUBSET Requests]]
    <3>1. answer'[r] = [status |-> status, allow |-> answer[r].allow, by |-> {r}]
      BY <1>1, <1>a
    <3>2. answer'[r] \in [status : {0, 204, 400, 403, 404} \cup Statuses,
                          allow : {Empty} \cup {d.origin : d \in Calls},
                          by : SUBSET Requests]
      BY <3>1, <1>a
    <3>3. QED
      BY <3>2, <1>1, <1>a
  <2>2. at' \in [Requests -> {"idle", "done", "lost"} \cup Working]
    BY <1>1, <1>a DEF Working
  <2>3. ran' \in [Requests -> {0} \cup Statuses]
    BY <1>1, <1>a
  <2>4. QED
    BY <2>1, <2>2, <2>3 DEF TypeOK, Handle
<1>3. StoredOK'
  BY <1>b, <1>c, <1>d DEF StoredOK, TypeOK
<1>4. RunOK'
  BY <1>b, <1>c, <1>d, <1>e DEF RunOK
<1>5. BeforeOK'
  BY <1>b, <1>c, <1>d DEF BeforeOK, TypeOK
<1>6. KeptOK'
  BY <1>b, <1>c, <1>d, <1>e DEF KeptOK, Failed
<1>7. MissExplained'
  <2>1. \A p \in Requests : r \notin before[p]
    BY <1>b DEF BeforeOK
  <2>2. QED
    <3> SUFFICES ASSUME NEW p \in Requests, at'[p] = "handler", NEW q \in before[p],
                        Ok(ran'[q]), SameKey(q, p)
                 PROVE  Failed(q, "store") \/ Failed(p, "lookup") \/ q \in lapsed
      BY <1>d DEF MissExplained, SameKey, Failed, Ok
    <3>1. p # r /\ at[p] = "handler" /\ q # r /\ q \in Requests
      BY <2>1, <1>c DEF TypeOK
    <3>2. QED
      BY <3>1, <1>c DEF MissExplained
<1>8. ReplaysAreFaithful'
  BY <1>b, <1>c, <1>d DEF ReplaysAreFaithful, SameKey, RunOK, Ok
<1>9. SecondRunIsExplained'
  <2>1. \A p \in Requests : r \notin before[p]
    BY <1>b DEF BeforeOK
  <2>2. QED
    BY <2>1, <1>b, <1>c, <1>d DEF SecondRunIsExplained, MissExplained, SameKey, TypeOK, Failed
<1>10. QED
  BY <1>2, <1>3, <1>4, <1>5, <1>6, <1>7, <1>8, <1>9

\* A success is stored, or the command that stores it has failed.
LEMMA StoreInv == ASSUME RequestInv, NEW r \in Requests, Store(r) PROVE RequestInv'
<1> USE DEF RequestInv, process
<1> DEFINE entry == [status |-> answer[r].status, by |-> r]
           kept == [stored EXCEPT ![Key(r)] = entry]
<1>1. /\ at[r] = "store" /\ at' = [at EXCEPT ![r] = "done"]
      /\ \/ stored' = kept /\ failed' = failed
         \/ stored' \in {stored, kept} /\ Fails(r)
  BY DEF Store, Succeeds
<1>a. /\ at \in [Requests -> {"idle", "done", "lost"} \cup Working]
      /\ ran \in [Requests -> {0} \cup Statuses]
      /\ stored \in [CacheKeys -> {NoEntry} \cup [status : Statuses, by : Requests]]
  BY DEF TypeOK
<1>b. /\ ran[r] = answer[r].status /\ Ok(ran[r]) /\ ran[r] \in Statuses
      /\ call[r] \in Calls /\ Key(r) \in CacheKeys
  BY <1>1, <1>a, KeyType DEF RunOK, Ok
<1>c. /\ at'[r] = "done"
      /\ \A q \in Requests \ {r} : at'[q] = at[q]
      /\ \A q \in Requests : Key(q)' = Key(q)
  BY <1>1, <1>a DEF Key, Store
<1>d. /\ ran' = ran /\ lapsed' = lapsed /\ answer' = answer
      /\ call' = call /\ before' = before
      /\ given' = given /\ cfg' = cfg /\ phase' = phase /\ cancelled' = cancelled
  BY DEF Store
<1>e. entry \in [status : Statuses, by : Requests] /\ entry # NoEntry
  <2>1. entry.status \in 200 .. 599 /\ NoEntry.status = 0
    BY <1>b, StatusesAssumption DEF NoEntry
  <2>2. QED
    BY <1>b, <2>1
<1>f. \A k \in CacheKeys : \/ stored'[k] = stored[k]
                           \/ k = Key(r) /\ stored'[k] = entry
  BY <1>1, <1>a, <1>b
<1>g. /\ failed' \subseteq Failures /\ failed \subseteq failed'
      /\ Failed(r, "store")' \/ stored'[Key(r)] = entry
  <2>1. failed \subseteq Failures
    BY DEF TypeOK
  <2>2. CASE Fails(r)
    BY <1>1, <2>1, <2>2, FailsInv
  <2>3. CASE stored' = kept /\ failed' = failed
    BY <1>a, <1>b, <2>1, <2>3
  <2>4. QED
    BY <1>1, <2>2, <2>3
<1>h. \A q, command : Failed(q, command) => Failed(q, command)'
  BY <1>g, FailedStays
<1>2. TypeOK'
  <2>1. stored' \in [CacheKeys -> {NoEntry} \cup [status : Statuses, by : Requests]]
    BY <1>1, <1>a, <1>e
  <2>2. at' \in [Requests -> {"idle", "done", "lost"} \cup Working]
    BY <1>1, <1>a DEF Working
  <2>3. QED
    BY <1>d, <1>g, <2>1, <2>2 DEF TypeOK
<1>3. StoredOK'
  <2>1. ASSUME NEW k \in CacheKeys, stored'[k] # NoEntry
        PROVE  /\ at'[stored'[k].by] = "done"
               /\ Key(stored'[k].by) = k
               /\ ran[stored'[k].by] = stored'[k].status
               /\ Ok(ran[stored'[k].by])
    <3>1. CASE stored'[k] = stored[k]
      <4>1. stored[k].by \in Requests
        BY <2>1, <3>1, <1>a
      <4>2. QED
        BY <2>1, <3>1, <4>1, <1>1, <1>c DEF StoredOK
    <3>2. CASE k = Key(r) /\ stored'[k] = entry
      <4>1. stored'[k].by = r /\ stored'[k].status = answer[r].status
        BY <3>2
      <4>2. QED
        BY <3>2, <4>1, <1>b, <1>c
    <3>3. QED
      BY <2>1, <1>f, <3>1, <3>2
  <2>2. QED
    BY <1>d, <2>1 DEF StoredOK, Key, Ok
<1>4. RunOK'
  BY <1>b, <1>c, <1>d DEF RunOK
<1>5. BeforeOK'
  BY <1>1, <1>c, <1>d DEF BeforeOK, TypeOK
<1>6. KeptOK'
  <2> SUFFICES ASSUME NEW q \in Requests, at'[q] = "done", Ok(ran[q])
               PROVE  Failed(q, "store")' \/ q \in lapsed \/ stored'[Key(q)] # NoEntry
    BY <1>c, <1>d DEF KeptOK, Ok
  <2>1. CASE q = r
    BY <2>1, <1>e, <1>g
  <2>2. CASE q # r
    <3>1. at[q] = "done" /\ Key(q) \in CacheKeys
      BY <2>2, <1>c, KeyType DEF RunOK
    <3>2. QED
      BY <3>1, <1>c, <1>e, <1>f, <1>h DEF KeptOK
  <2>3. QED
    BY <2>1, <2>2
<1>7. MissExplained'
  BY <1>c, <1>d, <1>h DEF MissExplained, SameKey, TypeOK
<1>8. ReplaysAreFaithful'
  BY <1>d DEF ReplaysAreFaithful, SameKey
<1>9. SecondRunIsExplained'
  BY <1>d, <1>h DEF SecondRunIsExplained, SameKey, TypeOK
<1>10. QED
  BY <1>2, <1>3, <1>4, <1>5, <1>6, <1>7, <1>8, <1>9

\* A caller who leaves changes nothing but what its request can still do.
LEMMA DisconnectInv == ASSUME RequestInv, NEW r \in Requests, Disconnect(r) PROVE RequestInv'
<1> USE DEF RequestInv, Disconnect, process
<1>1. TypeOK'
  BY DEF TypeOK
<1>2. StoredOK' /\ RunOK' /\ BeforeOK' /\ KeptOK'
  BY DEF StoredOK, RunOK, BeforeOK, KeptOK, Key, Failed
<1>3. MissExplained' /\ ReplaysAreFaithful' /\ SecondRunIsExplained'
  BY DEF MissExplained, ReplaysAreFaithful, SecondRunIsExplained, SameKey, Failed
<1>4. QED
  BY <1>1, <1>2, <1>3

\* An entry that goes is put down to everyone it was there for.
LEMMA ExpireInv == ASSUME RequestInv, NEW k \in CacheKeys, Expire(k) PROVE RequestInv'
<1> USE DEF RequestInv, Expire, process
<1>a. /\ stored \in [CacheKeys -> {NoEntry} \cup [status : Statuses, by : Requests]]
      /\ \A q \in Requests : Key(q)' = Key(q)
  BY DEF TypeOK, Key
<1>b. /\ stored'[k] = NoEntry
      /\ \A j \in CacheKeys \ {k} : stored'[j] = stored[j]
      /\ \A q \in Requests : at[q] = "done" /\ Key(q) = k => q \in lapsed'
      /\ lapsed \subseteq lapsed'
  BY <1>a
<1>1. TypeOK'
  BY <1>a DEF TypeOK
<1>2. StoredOK'
  BY <1>a, <1>b DEF StoredOK, Key
<1>3. RunOK' /\ BeforeOK'
  BY DEF RunOK, BeforeOK
<1>4. KeptOK'
  <2>1. ASSUME NEW q \in Requests, at[q] = "done", Key(q) # k
        PROVE  stored'[Key(q)] = stored[Key(q)]
    BY <1>b, <2>1, KeyType DEF RunOK
  <2>2. QED
    BY <1>a, <1>b, <2>1 DEF KeptOK, Failed
<1>5. MissExplained' /\ SecondRunIsExplained'
  BY <1>b DEF MissExplained, SecondRunIsExplained, SameKey, Failed
<1>6. ReplaysAreFaithful'
  BY DEF ReplaysAreFaithful, SameKey
<1>7. QED
  BY <1>1, <1>2, <1>3, <1>4, <1>5, <1>6

\* A process that starts has loaded its configuration; one that dies loses its
\* requests and nothing of Redis.
LEMMA ProcessInv == ASSUME RequestInv, Start \/ Crash PROVE RequestInv'
<1> USE DEF RequestInv
<1>a. at \in [Requests -> {"idle", "done", "lost"} \cup Working]
  BY DEF TypeOK
<1>b. /\ stored' = stored /\ call' = call /\ cancelled' = cancelled /\ answer' = answer
      /\ ran' = ran /\ before' = before /\ failed' = failed /\ lapsed' = lapsed
      /\ given' = given
      /\ \A q \in Requests : Key(q)' = Key(q)
  BY DEF Start, Crash, Key
<1>c. \A q \in Requests : \/ at'[q] = at[q]
                          \/ at[q] \in Working /\ at'[q] = "lost"
  BY <1>a DEF Start, Crash
<1>1. TypeOK'
  <2>1. /\ phase' \in {"down", "up", "refused"}
        /\ phase' = "up" => cfg' # Refused
    BY DEF Start, Crash
  <2>2. at' \in [Requests -> {"idle", "done", "lost"} \cup Working]
    BY <1>a DEF Start, Crash
  <2>3. QED
    BY <1>b, <2>1, <2>2 DEF TypeOK
<1>2. StoredOK'
  BY <1>b, <1>c DEF StoredOK, TypeOK, Working
<1>3. RunOK' /\ BeforeOK'
  BY <1>b, <1>c DEF RunOK, BeforeOK, TypeOK, Working
<1>4. KeptOK'
  BY <1>b, <1>c DEF KeptOK, Working, Failed
<1>5. MissExplained' /\ ReplaysAreFaithful' /\ SecondRunIsExplained'
  BY <1>b, <1>c DEF MissExplained, ReplaysAreFaithful, SecondRunIsExplained, SameKey,
                    Working, Failed
<1>6. QED
  BY <1>1, <1>2, <1>3, <1>4, <1>5

-----------------------------------------------------------------------------
\* Every step of the process, a request or Redis keeps that part of the invariant.
LEMMA StepInv == RequestInv /\ [Next]_vars => RequestInv'
<1> SUFFICES ASSUME RequestInv, [Next]_vars PROVE RequestInv'
  OBVIOUS
<1>1. CASE Start \/ Crash
  BY <1>1, ProcessInv
<1>2. ASSUME NEW r \in Requests, Step(r) PROVE RequestInv'
  <2>1. CASE Preflight(r)
    <3>1. PICK c \in Calls : Come(r, c) /\ Send(r, c, "done", PreflightStatus(c))
      BY <2>1 DEF Preflight
    <3>2. PreflightStatus(c) \in {0, 204, 400, 403, 404}
      BY PreflightType
    <3>3. QED
      BY <1>2, <3>1, <3>2, ComeInv
  <2>2. CASE NoKey(r)
    <3>1. PICK c \in Calls : Come(r, c) /\ Send(r, c, "done", 400)
      BY <2>2 DEF NoKey
    <3>2. QED
      BY <1>2, <3>1, ComeInv
  <2>3. CASE Admit(r)
    <3>1. PICK c \in Calls : Come(r, c) /\ Send(r, c, "lookup", 0)
      BY <2>3 DEF Admit
    <3>2. QED
      BY <1>2, <3>1, ComeInv
  <2>4. CASE Replay(r)
    BY <2>4, ReplayInv
  <2>5. CASE Miss(r)
    BY <2>5, MissInv
  <2>6. CASE Handle(r)
    BY <2>6, HandleInv
  <2>7. CASE Store(r)
    BY <2>7, StoreInv
  <2>8. CASE Disconnect(r)
    BY <2>8, DisconnectInv
  <2>9. QED
    BY <1>2, <2>1, <2>2, <2>3, <2>4, <2>5, <2>6, <2>7, <2>8 DEF Step
<1>3. ASSUME NEW k \in CacheKeys, Expire(k) PROVE RequestInv'
  BY <1>3, ExpireInv
<1>4. CASE UNCHANGED vars
  <2>1. TypeOK' /\ StoredOK' /\ RunOK' /\ BeforeOK' /\ KeptOK'
    BY <1>4 DEF RequestInv, vars, process, TypeOK, StoredOK, RunOK, BeforeOK, KeptOK,
                Key, Failed
  <2>2. MissExplained' /\ ReplaysAreFaithful' /\ SecondRunIsExplained'
    BY <1>4 DEF RequestInv, vars, process, MissExplained, ReplaysAreFaithful,
                SecondRunIsExplained, SameKey, Failed
  <2>3. QED
    BY <2>1, <2>2 DEF RequestInv
<1>5. QED
  BY <1>1, <1>2, <1>3, <1>4 DEF Next

\* Whatever happens, an answer keeps the headers its origin has under the one
\* configuration all processes run with.
LEMMA HeadersInv == RequestInv /\ HeadersOK /\ [Next]_vars => HeadersOK'
<1> SUFFICES ASSUME RequestInv, HeadersOK, [Next]_vars PROVE HeadersOK'
  OBVIOUS
<1> USE DEF process
<1>a. /\ at \in [Requests -> {"idle", "done", "lost"} \cup Working]
      /\ answer \in [Requests -> [status : {0, 204, 400, 403, 404} \cup Statuses,
                                  allow : {Empty} \cup {d.origin : d \in Calls},
                                  by : SUBSET Requests]]
      /\ call \in [Requests -> {NoCall} \cup Calls]
      /\ phase = "up" => cfg # Refused
  BY DEF RequestInv, TypeOK
<1> DEFINE loaded == /\ phase = "refused" => Load(given.file, given.env) = Refused
                     /\ cfg # Refused => cfg = Load(given.file, given.env)
<1>b. loaded
  BY DEF HeadersOK
<1> DEFINE right(q) == /\ cfg # Refused
                       /\ answer[q].allow = Allow(call[q])
                       /\ call[q].method = "OPTIONS" =>
                            at[q] = "done" /\ answer[q].status = PreflightStatus(call[q])
<1>c. \A q \in Requests : at[q] # "idle" => right(q)
  BY DEF HeadersOK
\* A request stays right that is done nothing to.
<1>d. ASSUME cfg' = cfg, NEW q \in Requests, right(q),
             answer'[q] = answer[q], call'[q] = call[q], at'[q] = at[q]
      PROVE  right(q)'
  BY <1>d DEF Allow, Welcome, PreflightStatus
<1>1. CASE Start
  <2>1. /\ cfg' = Load(given.file, given.env) /\ given' = given
        /\ at' = at /\ call' = call /\ answer' = answer
        /\ phase' = "refused" => cfg' = Refused
    BY <1>1 DEF Start
  <2>2. ASSUME NEW q \in Requests, at[q] # "idle" PROVE right(q)'
    <3>1. right(q)
      BY <1>c, <2>2
    <3>2. cfg' = cfg
      BY <1>b, <2>1, <3>1
    <3>3. QED
      BY <1>d, <2>1, <3>1, <3>2
  <2>3. QED
    BY <2>1, <2>2 DEF HeadersOK
<1>2. CASE Crash
  <2>1. /\ cfg' = cfg /\ given' = given /\ call' = call /\ answer' = answer
        /\ phase' # "refused"
        /\ \A q \in Requests : \/ at'[q] = at[q]
                               \/ at[q] \in Working /\ at'[q] = "lost"
    BY <1>2, <1>a DEF Crash
  <2>2. ASSUME NEW q \in Requests, at'[q] # "idle" PROVE right(q)'
    <3>1. right(q)
      BY <1>c, <2>1, <2>2 DEF Working
    <3>2. CASE at'[q] = at[q]
      BY <1>d, <2>1, <3>1, <3>2
    <3>3. CASE at[q] \in Working
      BY <2>1, <3>1, <3>3 DEF Working, Allow, Welcome
    <3>4. QED
      BY <2>1, <3>2, <3>3
  <2>3. QED
    BY <1>b, <2>1, <2>2 DEF HeadersOK
\* One that comes is sent on under the headers of its origin.
<1>3. ASSUME NEW r \in Requests, NEW c \in Calls, NEW place, NEW status,
             Come(r, c), Send(r, c, place, status),
             c.method = "OPTIONS" => place = "done" /\ status = PreflightStatus(c)
      PROVE  HeadersOK'
  <2>1. /\ UNCHANGED <<given, cfg, phase>> /\ cfg # Refused
        /\ \A q \in Requests \ {r} :
             at'[q] = at[q] /\ call'[q] = call[q] /\ answer'[q] = answer[q]
        /\ at'[r] = place /\ call'[r] = c
        /\ answer'[r].allow = Allow(c) /\ answer'[r].status = status
    BY <1>3, <1>a DEF Come, Send
  <2>2. right(r)'
    BY <1>3, <2>1 DEF Allow, Welcome, PreflightStatus
  <2>3. ASSUME NEW q \in Requests \ {r}, at'[q] # "idle" PROVE right(q)'
    BY <1>c, <1>d, <2>1, <2>3
  <2>4. QED
    BY <1>b, <2>1, <2>2, <2>3 DEF HeadersOK
\* One that is answered later was let in without being a preflight.
<1>4. ASSUME NEW r \in Requests, at[r] \in Working,
             UNCHANGED <<given, cfg, phase, call>>,
             \A q \in Requests \ {r} : at'[q] = at[q] /\ answer'[q] = answer[q],
             answer'[r].allow = answer[r].allow
      PROVE  HeadersOK'
  <2>1. right(r) /\ call[r].method # "OPTIONS"
    BY <1>c, <1>4 DEF Working
  <2>2. right(r)'
    BY <1>4, <2>1 DEF Allow, Welcome
  <2>3. ASSUME NEW q \in Requests \ {r}, at'[q] # "idle" PROVE right(q)'
    BY <1>c, <1>d, <1>4, <2>3
  <2>4. QED
    BY <1>b, <1>4, <2>2, <2>3 DEF HeadersOK
<1>5. ASSUME NEW r \in Requests, Step(r) PROVE HeadersOK'
  <2>1. CASE Preflight(r)
    BY <1>3, <2>1 DEF Preflight
  <2>2. CASE NoKey(r)
    BY <1>3, <2>2 DEF NoKey
  <2>3. CASE Admit(r)
    BY <1>3, <2>3 DEF Admit
  <2>4. CASE Replay(r)
    BY <1>4, <1>a, <2>4 DEF Replay, Write, Working
  <2>5. CASE Miss(r)
    BY <1>4, <1>a, <2>5 DEF Miss, Working
  <2>6. CASE Handle(r)
    BY <1>4, <1>a, <2>6 DEF Handle, Write, Working
  <2>7. CASE Store(r)
    BY <1>4, <1>a, <2>7 DEF Store, Working
  <2>8. CASE Disconnect(r)
    BY <1>4, <2>8 DEF Disconnect
  <2>9. QED
    BY <1>5, <2>1, <2>2, <2>3, <2>4, <2>5, <2>6, <2>7, <2>8 DEF Step
<1>6. CASE \E k \in CacheKeys : Expire(k)
  <2>1. UNCHANGED <<given, cfg, phase, at, call, answer>>
    BY <1>6 DEF Expire
  <2>2. QED
    BY <1>b, <1>c, <1>d, <2>1 DEF HeadersOK
<1>7. CASE UNCHANGED vars
  <2>1. UNCHANGED <<given, cfg, phase, at, call, answer>>
    BY <1>7 DEF vars
  <2>2. QED
    BY <1>b, <1>c, <1>d, <2>1 DEF HeadersOK
<1>8. QED
  BY <1>1, <1>2, <1>5, <1>6, <1>7 DEF Next

\* What stands in Redis, what a request at each place may rely on, and the headers
\* it has are kept by every step (Middlewares, IInv).
THEOREM Inductive == Spec => []IInv
<1>1. Init => IInv
  <2>1. Init => HeadersOK
    BY DEF Init, HeadersOK
  <2>2. QED
    BY <2>1, InitInv DEF IInv
<1>2. IInv /\ [Next]_vars => IInv'
  BY StepInv, HeadersInv DEF IInv
<1>3. QED
  BY <1>1, <1>2, PTL DEF Spec

\* Nobody is answered with anything but a success of a request with the same
\* route and key, and nobody whose handler ran is answered for another.
THEOREM ReplaysAreReplays == Spec => []ReplaysAreFaithful
<1>1. IInv => ReplaysAreFaithful
  BY DEF IInv, RequestInv
<1>2. QED
  BY <1>1, Inductive, PTL

\* After a success that is over, a handler runs again for the same key only
\* when Redis failed one of the two, or let the entry go.
THEOREM SecondRunsAreExplained == Spec => []SecondRunIsExplained
<1>1. IInv => SecondRunIsExplained
  BY DEF IInv, RequestInv
<1>2. QED
  BY <1>1, Inductive, PTL

-----------------------------------------------------------------------------
(* The origins a deployment names.                                         *)

\* What Trim makes of a text with something else than what it trims: the piece from
\* the first such token to the last.
LEMMA TrimmedText ==
  ASSUME NEW S, NEW t \in Seq(S), NEW cutset, NEW i \in DOMAIN t, t[i] \notin cutset
  PROVE  \E x, y \in DOMAIN t :
           /\ Trim(t, cutset) = SubSeq(t, x, y)
           /\ x <= i /\ i <= y
           /\ t[x] \notin cutset /\ t[y] \notin cutset
           /\ \A j \in DOMAIN t : j < x \/ y < j => t[j] \in cutset
<1> DEFINE kept == {j \in DOMAIN t : t[j] \notin cutset}
<1>1. i \in kept /\ kept \in SUBSET (1 .. Len(t)) /\ Len(t) \in Nat
  OBVIOUS
<1>2. /\ Min(kept) \in kept /\ \A j \in kept : Min(kept) <= j
      /\ Max(kept) \in kept /\ \A j \in kept : j <= Max(kept)
  <2> HIDE DEF kept
  <2>1. kept # {} /\ kept \in SUBSET (0 .. Len(t))
    BY <1>1
  <2>2. QED
    BY <1>1, <2>1, EndsOfPlaces
<1>3. Trim(t, cutset) = SubSeq(t, Min(kept), Max(kept))
  BY <1>1 DEF Trim
<1>4. ASSUME NEW j \in DOMAIN t, j < Min(kept) \/ Max(kept) < j PROVE t[j] \in cutset
  <2>1. j \in Nat /\ Min(kept) \in Nat /\ Max(kept) \in Nat
    BY <1>1, <1>2
  <2>2. j \notin kept
    <3> HIDE DEF kept
    <3>1. QED
      BY <1>2, <1>4, <2>1
  <2>3. QED
    BY <2>2
<1>5. QED
  BY <1>1, <1>2, <1>3, <1>4

\* A text with nothing else is trimmed to nothing.
LEMMA TrimmedAway ==
  ASSUME NEW S, NEW t \in Seq(S), NEW cutset, \A i \in DOMAIN t : t[i] \in cutset
  PROVE  Trim(t, cutset) = Empty
BY DEF Trim

\* A text is trimmed to one word when it holds nothing else but what is trimmed.
LEMMA TrimmedToOne ==
  ASSUME NEW S, NEW t \in Seq(S), NEW cutset, NEW w, w \notin cutset
  PROVE  Trim(t, cutset) = <<w>> <=> Only(t, w, cutset)
<1>1. CASE \A i \in DOMAIN t : t[i] \in cutset
  <2>1. Trim(t, cutset) = Empty
    BY <1>1, TrimmedAway
  <2>2. QED
    BY <1>1, <2>1 DEF Only, Empty
<1>2. CASE \E i \in DOMAIN t : t[i] \notin cutset
  <2>1. PICK i \in DOMAIN t : t[i] \notin cutset
    BY <1>2
  <2>2. PICK x, y \in DOMAIN t :
           /\ Trim(t, cutset) = SubSeq(t, x, y)
           /\ x <= i /\ i <= y
           /\ t[x] \notin cutset /\ t[y] \notin cutset
           /\ \A j \in DOMAIN t : j < x \/ y < j => t[j] \in cutset
    BY <2>1, TrimmedText
  <2>3. x \in Nat /\ y \in Nat /\ i \in Nat /\ 1 <= x /\ y <= Len(t) /\ Len(t) \in Nat
    OBVIOUS
  <2>4. /\ DOMAIN SubSeq(t, x, y) = 1 .. y - x + 1
        /\ \A j \in 1 .. y - x + 1 : SubSeq(t, x, y)[j] = t[x + j - 1]
    BY <2>3, Piece
  <2>5. ASSUME Trim(t, cutset) = <<w>> PROVE Only(t, w, cutset)
    <3>1. DOMAIN <<w>> = 1 .. 1 /\ <<w>>[1] = w
      OBVIOUS
    <3>2. 1 .. y - x + 1 = 1 .. 1
      BY <2>2, <2>4, <2>5, <3>1
    <3>3. x = y
      <4> DEFINE length == y - x + 1
      <4>1. length \in Nat /\ length >= 1
        BY <2>2, <2>3
      <4>2. length \in 1 .. length
        BY <4>1
      <4>3. length \in 1 .. 1
        BY <3>2, <4>2, Zenon
      <4>4. length = 1
        BY <4>3
      <4>5. QED
        BY <2>3, <4>4
    <3>4. t[x] = w
      BY <2>2, <2>3, <2>4, <2>5, <3>1, <3>3
    <3>5. \A j \in DOMAIN t \ {x} : t[j] \in cutset
      BY <2>2, <2>3, <3>3
    <3>6. QED
      BY <3>4, <3>5 DEF Only
  <2>6. ASSUME Only(t, w, cutset) PROVE Trim(t, cutset) = <<w>>
    <3>1. PICK k \in DOMAIN t : t[k] = w /\ \A j \in DOMAIN t \ {k} : t[j] \in cutset
      BY <2>6 DEF Only
    <3>2. x = k /\ y = k
      BY <2>2, <3>1
    <3>3. SubSeq(t, k, k) = <<t[k]>>
      BY PieceOfOne
    <3>4. QED
      BY <2>2, <3>1, <3>2, <3>3
  <2>7. QED
    BY <2>5, <2>6
<1>3. QED
  BY <1>1, <1>2

\* One word stands in a text, among blanks.
Alone(t, w) == Only(t, w, {Blank})

\* The same of TrimSpace.
LEMMA SpaceTrimmed ==
  ASSUME NEW S, NEW t \in Seq(S), NEW w, w # Blank
  PROVE  TrimSpace(t) = <<w>> <=> Alone(t, w)
  BY TrimmedToOne DEF TrimSpace, Alone

\* The items of a text that is split at commas are the pieces between two cuts with
\* none between them.
Cuts(t) == {0, Len(t) + 1} \cup {i \in DOMAIN t : t[i] = Comma}
Adjacent(t, a, b) == a < b /\ \A c \in Cuts(t) : ~(a < c /\ c < b)

LEMMA SplitPieces ==
  ASSUME NEW S, NEW t \in Seq(S)
  PROVE  /\ \A k \in DOMAIN Split(t) : \E a, b \in Cuts(t) :
              Adjacent(t, a, b) /\ Split(t)[k] = SubSeq(t, a + 1, b - 1)
         /\ \A a, b \in Cuts(t) : Adjacent(t, a, b) =>
              \E k \in DOMAIN Split(t) : Split(t)[k] = SubSeq(t, a + 1, b - 1)
         /\ Split(t) \in Seq(Seq(S))
<1> DEFINE cuts == Cuts(t)
           cut == Keep([i \in cuts |-> i], cuts)
           count == Cardinality(cuts)
<1>1. cuts \in SUBSET Nat /\ IsFiniteSet(cuts)
  <2>1. Len(t) \in Nat /\ DOMAIN t = 1 .. Len(t)
    OBVIOUS
  <2>2. cuts \in SUBSET (0 .. Len(t) + 1)
    BY <2>1 DEF Cuts
  <2>3. IsFiniteSet(0 .. Len(t) + 1)
    BY <2>1, FS_Interval
  <2>4. cuts \in SUBSET Nat
    BY <2>1, <2>2
  <2>5. QED
    BY <2>2, <2>3, <2>4, FS_Subset
<1>2. Len(cut) = count /\ count \in Nat
  BY <1>1, KeepIsASequence
<1>3. Split(t) = [k \in 1 .. count - 1 |-> SubSeq(t, cut[k] + 1, cut[k + 1] - 1)]
  BY <1>2 DEF Split, Cuts
<1>4. \A i \in cuts : cut[Rank(cuts, i)] = i /\ Rank(cuts, i) \in 1 .. count
  BY <1>1, KeepAtRank, RankIsANumber
<1>5. \A k \in 1 .. count : \E i \in cuts : Rank(cuts, i) = k /\ cut[k] = i
  <2> DEFINE itself == [i \in cuts |-> i]
  <2>1. ASSUME NEW k \in 1 .. count
        PROVE  \E i \in cuts : Rank(cuts, i) = k /\ Keep(itself, cuts)[k] = itself[i]
    <3> HIDE DEF cuts, itself
    <3>1. QED
      BY <1>1, KeepComesFrom
  <2>2. QED
    BY <2>1
<1>6. \A a, b \in cuts : Rank(cuts, b) = Rank(cuts, a) + 1 <=> Adjacent(t, a, b)
  <2>1. \A a, b \in cuts : Rank(cuts, b) = Rank(cuts, a) + 1 <=>
           a < b /\ \A c \in cuts : ~(a < c /\ c < b)
    <3> HIDE DEF cuts
    <3>1. QED
      BY <1>1, RankOfTheNext
  <2>2. QED
    BY <2>1 DEF Adjacent
<1> HIDE DEF cuts, cut, count
<1>7. DOMAIN Split(t) = 1 .. count - 1
  BY <1>3
<1>8. ASSUME NEW k \in DOMAIN Split(t)
      PROVE  \E a, b \in cuts : Adjacent(t, a, b) /\ Split(t)[k] = SubSeq(t, a + 1, b - 1)
  <2>1. k \in 1 .. count /\ k + 1 \in 1 .. count
    BY <1>2, <1>7
  <2>2. PICK a \in cuts : Rank(cuts, a) = k /\ cut[k] = a
    BY <1>5, <2>1
  <2>3. PICK b \in cuts : Rank(cuts, b) = k + 1 /\ cut[k + 1] = b
    BY <1>5, <2>1
  <2>4. Adjacent(t, a, b)
    BY <1>6, <2>2, <2>3
  <2>5. Split(t)[k] = SubSeq(t, a + 1, b - 1)
    BY <1>3, <1>7, <2>2, <2>3
  <2>6. QED
    BY <2>4, <2>5
<1>9. ASSUME NEW a \in cuts, NEW b \in cuts, Adjacent(t, a, b)
      PROVE  \E k \in DOMAIN Split(t) : Split(t)[k] = SubSeq(t, a + 1, b - 1)
  <2>1. Rank(cuts, b) = Rank(cuts, a) + 1
    BY <1>6, <1>9
  <2>2. Rank(cuts, a) \in 1 .. count /\ Rank(cuts, b) \in 1 .. count
    BY <1>4
  <2>3. Rank(cuts, a) \in DOMAIN Split(t)
    BY <1>2, <1>7, <2>1, <2>2
  <2>4. cut[Rank(cuts, a)] = a /\ cut[Rank(cuts, a) + 1] = b
    BY <1>4, <2>1
  <2>5. Split(t)[Rank(cuts, a)] = SubSeq(t, a + 1, b - 1)
    BY <1>3, <1>7, <2>3, <2>4
  <2>6. QED
    BY <2>3, <2>5
<1>10. \A k \in DOMAIN Split(t) : Split(t)[k] \in Seq(S)
  <2>1. ASSUME NEW a \in cuts, NEW b \in cuts, Adjacent(t, a, b)
        PROVE  SubSeq(t, a + 1, b - 1) \in Seq(S)
    <3>1. a \in Nat /\ b \in Nat /\ a < b /\ b - 1 <= Len(t) /\ Len(t) \in Nat
      BY <2>1, <1>1 DEF Adjacent, cuts, Cuts
    <3>2. QED
      BY <3>1, Piece
  <2>2. QED
    BY <1>8, <2>1
<1>11. Split(t) \in Seq(Seq(S))
  <2>1. 0 \in cuts
    BY DEF cuts, Cuts
  <2>2. count - 1 \in Nat
    BY <1>2, <1>4, <2>1
  <2> DEFINE m == count - 1
             items == Split(t)
  <2>3. m \in Nat /\ DOMAIN items = 1 .. m /\ \A k \in 1 .. m : items[k] \in Seq(S)
    BY <1>7, <1>10, <2>2
  <2>4. items = [k \in 1 .. m |-> items[k]]
    BY <1>3
  <2> HIDE DEF m, items
  <2>5. items \in Seq(Seq(S))
    BY <2>3, <2>4
  <2>6. QED
    BY <2>5 DEF items
<1>12. QED
  BY <1>8, <1>9, <1>11 DEF cuts

\* One word alone in its item.
AloneInItem(t, w) ==
  \E i \in DOMAIN t : t[i] = w /\ \A j \in DOMAIN t \ {i} : t[j] = Blank \/ Parted(t, i, j)

AloneBetween(t, w, a, b) ==
  \E i \in DOMAIN t : /\ a < i /\ i < b
                      /\ t[i] = w
                      /\ \A j \in DOMAIN t \ {i} : a < j /\ j < b => t[j] = Blank

\* One word alone between two cuts is alone in its item.
LEMMA ItemOfOne ==
  ASSUME NEW S, NEW t \in Seq(S), NEW w, w # Blank,
         NEW a \in Cuts(t), NEW b \in Cuts(t), Adjacent(t, a, b)
  PROVE  TrimSpace(SubSeq(t, a + 1, b - 1)) = <<w>> <=>
           AloneBetween(t, w, a, b)
<1> DEFINE x == a + 1
           y == b - 1
           piece == SubSeq(t, x, y)
<1>1. /\ a \in Nat /\ b \in Nat /\ a < b /\ Len(t) \in Nat
      /\ x \in Nat /\ y \in Nat /\ 1 <= x /\ y <= Len(t) /\ DOMAIN t = 1 .. Len(t)
  BY DEF Adjacent, Cuts
<1>2. /\ piece \in Seq(S)
      /\ DOMAIN piece = 1 .. y - x + 1
      /\ \A j \in 1 .. y - x + 1 : piece[j] = t[x + j - 1]
  <2> HIDE DEF x, y
  <2>1. QED
    BY <1>1, Piece
<1>3. TrimSpace(piece) = <<w>> <=> Alone(piece, w)
  BY <1>2, SpaceTrimmed
<1>4. /\ \A j \in 1 .. y - x + 1 : a + j \in DOMAIN t /\ a < a + j /\ a + j < b
                                  /\ piece[j] = t[a + j]
      /\ \A j \in DOMAIN t : a < j /\ j < b => j - a \in 1 .. y - x + 1 /\ piece[j - a] = t[j]
  <2>1. \A j \in 1 .. y - x + 1 : /\ x + j - 1 = a + j /\ a + j \in 1 .. Len(t)
                                   /\ a < a + j /\ a + j < b
    BY <1>1
  <2>2. \A j \in 1 .. Len(t) : a < j /\ j < b =>
           j - a \in 1 .. y - x + 1 /\ x + (j - a) - 1 = j
    BY <1>1
  <2> HIDE DEF piece
  <2>3. QED
    BY <1>1, <1>2, <2>1, <2>2
<1> HIDE DEF piece
<1>5. ASSUME Alone(piece, w)
      PROVE  AloneBetween(t, w, a, b)
  <2>1. PICK k \in DOMAIN piece : piece[k] = w /\ \A j \in DOMAIN piece \ {k} : piece[j] = Blank
    BY <1>5 DEF Alone, Only
  <2>2. a + k \in DOMAIN t /\ a < a + k /\ a + k < b /\ t[a + k] = w
    BY <1>2, <1>4, <2>1
  <2>3. ASSUME NEW j \in DOMAIN t \ {a + k}, a < j, j < b PROVE t[j] = Blank
    <3>1. j - a \in DOMAIN piece /\ piece[j - a] = t[j]
      BY <1>2, <1>4, <2>3
    <3>2. j - a # k
      BY <1>1, <1>2, <2>1, <2>3
    <3>3. QED
      BY <2>1, <3>1, <3>2
  <2>4. QED
    BY <2>2, <2>3 DEF AloneBetween
<1>6. ASSUME NEW i \in DOMAIN t, a < i, i < b, t[i] = w,
             \A j \in DOMAIN t \ {i} : a < j /\ j < b => t[j] = Blank
      PROVE  Alone(piece, w)
  <2>1. i - a \in DOMAIN piece /\ piece[i - a] = w
    BY <1>2, <1>4, <1>6
  <2>2. ASSUME NEW j \in DOMAIN piece \ {i - a} PROVE piece[j] = Blank
    <3>1. a + j \in DOMAIN t /\ a < a + j /\ a + j < b /\ piece[j] = t[a + j]
      BY <1>2, <1>4
    <3>2. a + j # i
      BY <1>1, <1>2, <2>2
    <3>3. QED
      BY <1>6, <3>1, <3>2
  <2>3. QED
    BY <2>1, <2>2 DEF Alone, Only
<1>7. QED
  <2>1. AloneBetween(t, w, a, b) => Alone(piece, w)
    BY <1>6 DEF AloneBetween
  <2>2. QED
    BY <1>3, <1>5, <2>1 DEF piece

\* A split text has an item of one word when the word is alone in its item.
LEMMA SplitHasOne ==
  ASSUME NEW S, NEW t \in Seq(S), NEW w, w # Blank, w # Comma
  PROVE  (\E k \in DOMAIN Split(t) : TrimSpace(Split(t)[k]) = <<w>>) <=> AloneInItem(t, w)
<1>1. (\E k \in DOMAIN Split(t) : TrimSpace(Split(t)[k]) = <<w>>) <=>
        \E a, b \in Cuts(t) : Adjacent(t, a, b) /\ AloneBetween(t, w, a, b)
  <2>1. \A a, b \in Cuts(t) : Adjacent(t, a, b) =>
           (TrimSpace(SubSeq(t, a + 1, b - 1)) = <<w>> <=> AloneBetween(t, w, a, b))
    BY ItemOfOne
  <2>2. ASSUME NEW k \in DOMAIN Split(t), TrimSpace(Split(t)[k]) = <<w>>
        PROVE  \E a, b \in Cuts(t) : Adjacent(t, a, b) /\ AloneBetween(t, w, a, b)
    <3>1. PICK a, b \in Cuts(t) : Adjacent(t, a, b) /\ Split(t)[k] = SubSeq(t, a + 1, b - 1)
      BY SplitPieces
    <3>2. QED
      BY <2>1, <2>2, <3>1
  <2>3. ASSUME NEW a \in Cuts(t), NEW b \in Cuts(t), Adjacent(t, a, b), AloneBetween(t, w, a, b)
        PROVE  \E k \in DOMAIN Split(t) : TrimSpace(Split(t)[k]) = <<w>>
    <3>1. PICK k \in DOMAIN Split(t) : Split(t)[k] = SubSeq(t, a + 1, b - 1)
      BY <2>3, SplitPieces
    <3>2. QED
      BY <2>1, <2>3, <3>1
  <2>4. QED
    BY <2>2, <2>3
<1>2. Len(t) \in Nat /\ DOMAIN t = 1 .. Len(t)
  OBVIOUS
<1>3. ASSUME NEW a \in Cuts(t), NEW b \in Cuts(t), Adjacent(t, a, b), AloneBetween(t, w, a, b)
      PROVE  AloneInItem(t, w)
  <2>1. PICK i \in DOMAIN t : /\ a < i /\ i < b
                              /\ t[i] = w
                              /\ \A j \in DOMAIN t \ {i} : a < j /\ j < b => t[j] = Blank
    BY <1>3 DEF AloneBetween
  <2>2. ASSUME NEW j \in DOMAIN t \ {i} PROVE t[j] = Blank \/ Parted(t, i, j)
    <3>1. i \in Nat /\ j \in Nat /\ a \in Nat /\ b \in Nat /\ 1 <= j /\ j <= Len(t)
      BY <1>2 DEF Cuts
    <3>2. CASE j <= a
      <4>1. a \in DOMAIN t /\ t[a] = Comma
        BY <1>2, <2>1, <3>1, <3>2 DEF Cuts
      <4>2. a = j \/ (j < a /\ a < i)
        BY <2>1, <3>1, <3>2
      <4>3. QED
        BY <4>1, <4>2 DEF Parted
    <3>3. CASE b <= j
      <4>1. b \in DOMAIN t /\ t[b] = Comma
        BY <1>2, <2>1, <3>1, <3>3 DEF Cuts
      <4>2. b = j \/ (i < b /\ b < j)
        BY <2>1, <3>1, <3>3
      <4>3. QED
        BY <4>1, <4>2 DEF Parted
    <3>4. CASE a < j /\ j < b
      BY <2>1, <2>2, <3>4
    <3>5. QED
      BY <3>1, <3>2, <3>3, <3>4
  <2>3. QED
    BY <2>1, <2>2 DEF AloneInItem
<1>4. ASSUME NEW i \in DOMAIN t, t[i] = w,
             \A j \in DOMAIN t \ {i} : t[j] = Blank \/ Parted(t, i, j)
      PROVE  \E a, b \in Cuts(t) : Adjacent(t, a, b) /\ AloneBetween(t, w, a, b)
  <2> DEFINE left == {c \in Cuts(t) : c < i}
             right == {c \in Cuts(t) : i < c}
  <2>1. i \in Nat /\ 1 <= i /\ i <= Len(t) /\ i \notin Cuts(t)
    BY <1>2, <1>4 DEF Cuts
  <2>2. Cuts(t) \in SUBSET Nat /\ \A c \in Cuts(t) : c <= Len(t) + 1
    BY <1>2 DEF Cuts
  <2>3. PICK a \in left : \A c \in left : c <= a
    <3>1. 0 \in left /\ left \in SUBSET (0 .. Len(t))
      BY <1>2, <2>1, <2>2 DEF Cuts
    <3> HIDE DEF left
    <3>2. Max(left) \in left /\ \A c \in left : c <= Max(left)
      BY <1>2, <3>1, EndsOfPlaces
    <3>3. QED
      BY <3>2
  <2>4. PICK b \in right : \A c \in right : b <= c
    <3>1. Len(t) + 1 \in right
      BY <1>2, <2>1 DEF Cuts
    <3>2. right \in SUBSET Nat
      BY <2>2
    <3> HIDE DEF right
    <3>3. QED
      BY <3>1, <3>2, LeastNumber
  <2>5. a \in Cuts(t) /\ b \in Cuts(t) /\ a \in Nat /\ b \in Nat /\ a < i /\ i < b
    BY <2>2
  <2>6. ASSUME NEW c \in Cuts(t), a < c, c < b PROVE FALSE
    <3>1. c \in Nat /\ c # i
      BY <2>1, <2>2
    <3>2. c \notin left /\ c \notin right
      <4> HIDE DEF left, right
      <4>1. c \in left => c <= a
        BY <2>3
      <4>2. c \in right => b <= c
        BY <2>4
      <4>3. QED
        BY <2>5, <2>6, <3>1, <4>1, <4>2
    <3>3. QED
      BY <2>1, <3>1, <3>2
  <2>7. Adjacent(t, a, b)
    BY <2>5, <2>6 DEF Adjacent
  <2>8. ASSUME NEW j \in DOMAIN t \ {i}, a < j, j < b PROVE t[j] = Blank
    <3>1. SUFFICES ASSUME Parted(t, i, j) PROVE FALSE
      BY <1>4, <2>8
    <3>2. PICK n \in DOMAIN t : t[n] = Comma /\ (n = j \/ (i < n /\ n < j) \/ (j < n /\ n < i))
      BY <3>1 DEF Parted
    <3>3. n \in Cuts(t) /\ n \in Nat /\ j \in Nat
      BY <1>2, <3>2 DEF Cuts
    <3>4. a < n /\ n < b
      BY <2>1, <2>5, <2>8, <3>2, <3>3
    <3>5. QED
      BY <2>6, <3>3, <3>4
  <2>9. AloneBetween(t, w, a, b)
    BY <1>4, <2>5, <2>8 DEF AloneBetween
  <2>10. QED
    BY <2>5, <2>7, <2>9
<1>5. QED
  BY <1>1, <1>3, <1>4 DEF AloneInItem

\* What TrimSpace leaves of a text with something in it: the piece from the first
\* token that is not blank to the last.
IsBare(t, x, y) ==
  /\ 1 <= x /\ x <= y /\ y <= Len(t)
  /\ t[x] # Blank /\ t[y] # Blank
  /\ \A j \in DOMAIN t : j < x \/ y < j => t[j] = Blank
  /\ IsPiece(TrimSpace(t), t, x, y)
  /\ TrimSpace(t) # Empty /\ Len(TrimSpace(t)) = y - x + 1 /\ Head(TrimSpace(t)) = t[x]
  /\ \A j \in DOMAIN t : x <= j /\ j <= y =>
       j - x + 1 \in DOMAIN TrimSpace(t) /\ TrimSpace(t)[j - x + 1] = t[j]

LEMMA BarePiece ==
  ASSUME NEW S, NEW t \in Seq(S), NEW i \in DOMAIN t, t[i] # Blank
  PROVE  TrimSpace(t) \in Seq(S) /\ \E x, y \in DOMAIN t : IsBare(t, x, y)
<1> DEFINE bare == TrimSpace(t)
<1>1. Len(t) \in Nat /\ DOMAIN t = 1 .. Len(t)
  OBVIOUS
<1>2. PICK x, y \in DOMAIN t :
         /\ bare = SubSeq(t, x, y)
         /\ x <= i /\ i <= y
         /\ t[x] # Blank /\ t[y] # Blank
         /\ \A j \in DOMAIN t : j < x \/ y < j => t[j] = Blank
  <2>1. t[i] \notin {Blank}
    OBVIOUS
  <2>2. PICK x, y \in DOMAIN t :
           /\ Trim(t, {Blank}) = SubSeq(t, x, y)
           /\ x <= i /\ i <= y
           /\ t[x] \notin {Blank} /\ t[y] \notin {Blank}
           /\ \A j \in DOMAIN t : j < x \/ y < j => t[j] \in {Blank}
    BY <2>1, TrimmedText
  <2>3. QED
    BY <2>2 DEF TrimSpace
<1>3. x \in Nat /\ y \in Nat /\ 1 <= x /\ x <= y /\ y <= Len(t)
  BY <1>1, <1>2
<1> HIDE DEF bare
<1>4. /\ bare \in Seq(S)
      /\ DOMAIN bare = 1 .. y - x + 1
      /\ \A j \in 1 .. y - x + 1 : bare[j] = t[x + j - 1]
  BY <1>2, <1>3, Piece
<1>5. Len(bare) = y - x + 1 /\ bare # Empty /\ Head(bare) = t[x]
  <2>1. y - x + 1 \in Nat /\ 1 \in 1 .. y - x + 1 /\ x + 1 - 1 = x
    BY <1>3
  <2>2. bare[1] = t[x] /\ Len(bare) = y - x + 1
    BY <1>4, <2>1
  <2>3. bare # Empty
    BY <1>4, <2>1 DEF Empty
  <2>4. Head(bare) = bare[1]
    BY <1>4, <2>3 DEF Empty
  <2>5. QED
    BY <2>2, <2>3, <2>4
<1>6. \A j \in DOMAIN t : x <= j /\ j <= y =>
        j - x + 1 \in DOMAIN bare /\ bare[j - x + 1] = t[j]
  <2>1. ASSUME NEW j \in DOMAIN t, x <= j, j <= y
        PROVE  j - x + 1 \in 1 .. y - x + 1 /\ x + (j - x + 1) - 1 = j
    BY <1>1, <1>3, <2>1
  <2>2. QED
    BY <1>4, <2>1
<1>7. IsBare(t, x, y)
  BY <1>2, <1>3, <1>4, <1>5, <1>6 DEF IsBare, IsPiece, bare
<1>8. QED
  BY <1>4, <1>7 DEF bare

\* A scalar is its text from place x to place y, which is what YAML keeps: what stands
\* around it is ignored, and within it only blanks are.
Around(style, t, x, y) ==
  /\ 1 <= x /\ y <= Len(t) /\ IsPiece(Scalar(style, t), t, x, y)
  /\ \A j \in DOMAIN t : j < x \/ y < j => t[j] \in Ignored(style, t)
  /\ \A j \in DOMAIN t : x <= j /\ j <= y => (t[j] \in Ignored(style, t) <=> t[j] = Blank)
  /\ \A j \in DOMAIN t : j \in Kept(style, t) <=> x <= j /\ j <= y

\* Everything that YAML takes off a scalar is around it, and only blanks are left
\* of what stands around an origin.
LEMMA ScalarIsAPiece ==
  ASSUME NEW S, NEW t \in Seq(S), NEW style \in {"double", "single", "plain"},
         WellFormed(style, t)
  PROVE  Scalar(style, t) \in Seq(S) /\ \E x, y \in Nat : Around(style, t, x, y)
<1> USE DEF Around
<1>1. Len(t) \in Nat /\ DOMAIN t = 1 .. Len(t)
  OBVIOUS
<1>2. CASE style # "plain"
  <2>1. Scalar(style, t) = t /\ Ignored(style, t) = {Blank}
    BY <1>2 DEF Scalar, Ignored, IsQuoted
  <2>2. IsPiece(t, t, 1, Len(t))
    BY <1>1 DEF IsPiece
  <2>3. \A j \in DOMAIN t : ~(j < 1) /\ ~(Len(t) < j)
    BY <1>1
  <2>4. 1 \in Nat /\ 1 <= 1 /\ Len(t) <= Len(t)
    BY <1>1
  <2>5. \A j \in DOMAIN t : j \in Kept(style, t) /\ 1 <= j /\ j <= Len(t)
    BY <1>1, <1>2 DEF Kept
  <2>6. QED
    BY <1>1, <2>1, <2>2, <2>3, <2>4, <2>5
<1>3. CASE style = "plain" /\ \A j \in DOMAIN t : t[j] = Blank
  <2>1. TrimSpace(t) = Empty
    BY <1>3, TrimmedAway DEF TrimSpace
  <2>2. Scalar(style, t) = Empty
    BY <1>3, <2>1 DEF Scalar
  <2>3. Empty \in Seq(S) /\ IsPiece(Empty, t, 1, 0)
    BY DEF Empty, IsPiece
  <2>4. \A j \in DOMAIN t : t[j] \in Ignored(style, t) /\ t[j] = Blank
    BY <1>3 DEF Ignored
  <2>5. 1 \in Nat /\ 0 \in Nat /\ 1 <= 1 /\ 0 <= Len(t)
    BY <1>1
  <2>6. \A j \in DOMAIN t : j \notin Kept(style, t) /\ ~(1 <= j /\ j <= 0)
    <3>1. \A j \in DOMAIN t : t[j] # Quote
      BY <1>3 DEF Quote, Blank
    <3>2. \A j \in DOMAIN t : j \notin Kept(style, t)
      BY <1>3, <3>1 DEF Kept
    <3>3. QED
      BY <1>1, <3>2
  <2>7. QED
    BY <2>2, <2>3, <2>4, <2>5, <2>6
<1>4. CASE style = "plain" /\ \E j \in DOMAIN t : t[j] # Blank
  <2> DEFINE bare == TrimSpace(t)
  <2>1. PICK i \in DOMAIN t : t[i] # Blank
    BY <1>4
  <2>2. bare \in Seq(S) /\ \E x, y \in DOMAIN t : IsBare(t, x, y)
    BY <2>1, BarePiece
  <2>3. PICK x, y \in DOMAIN t : IsBare(t, x, y)
    BY <2>2
  <2>4. /\ x \in Nat /\ y \in Nat /\ 1 <= x /\ x <= y /\ y <= Len(t)
        /\ t[x] # Blank /\ t[y] # Blank
        /\ \A j \in DOMAIN t : j < x \/ y < j => t[j] = Blank
    BY <1>1, <2>3 DEF IsBare
  <2>5. /\ IsPiece(bare, t, x, y)
        /\ bare # Empty /\ Len(bare) = y - x + 1 /\ Head(bare) = t[x]
    BY <2>3 DEF IsBare
  <2>6. \A j \in DOMAIN t : x <= j /\ j <= y =>
          j - x + 1 \in DOMAIN bare /\ bare[j - x + 1] = t[j]
    BY <2>3 DEF IsBare
  <2> HIDE DEF bare
  <2>7. CASE t[x] # Quote
    <3>1. Scalar(style, t) = bare
      BY <1>4, <2>5, <2>7 DEF Scalar, bare
    <3>2. ~IsQuoted(style, t)
      <4>1. ASSUME NEW k \in DOMAIN t, t[k] = Quote, \A j \in 1 .. k - 1 : t[j] = Blank
            PROVE  FALSE
        <5>1. k \in Nat /\ 1 <= k /\ t[k] # Blank
          <6>1. Quote # Blank
            BY DEF Quote, Blank
          <6>2. QED
            BY <1>1, <4>1, <6>1
        <5>2. ~(k < x) /\ k # x
          BY <2>4, <2>7, <4>1, <5>1
        <5>3. x \in 1 .. k - 1
          BY <2>4, <5>1, <5>2
        <5>4. QED
          BY <2>4, <4>1, <5>3
      <4>2. QED
        BY <4>1 DEF IsQuoted
    <3>3. Ignored(style, t) = {Blank}
      BY <3>2 DEF Ignored
    <3>4. \A j \in DOMAIN t : j < x \/ y < j => t[j] \in Ignored(style, t)
      BY <2>4, <3>3
    <3>5. \A j \in DOMAIN t : x <= j /\ j <= y => (t[j] \in Ignored(style, t) <=> t[j] = Blank)
      BY <3>3
    <3>6. \A j \in DOMAIN t : j \in Kept(style, t) <=> x <= j /\ j <= y
      <4>1. ASSUME NEW j \in DOMAIN t, j \in Kept(style, t) PROVE x <= j /\ j <= y
        <5>1. PICK a, b \in DOMAIN t : a <= j /\ j <= b /\ t[a] # Blank /\ t[b] # Blank
          BY <1>4, <3>2, <4>1 DEF Kept
        <5>2. j \in Nat /\ a \in Nat /\ b \in Nat /\ ~(a < x) /\ ~(y < b)
          BY <2>4, <5>1
        <5>3. QED
          BY <2>4, <5>1, <5>2
      <4>2. ASSUME NEW j \in DOMAIN t, x <= j, j <= y PROVE j \in Kept(style, t)
        BY <2>4, <3>2, <4>2 DEF Kept
      <4>3. QED
        BY <4>1, <4>2
    <3>7. QED
      BY <2>2, <2>4, <2>5, <3>1, <3>4, <3>5, <3>6 DEF bare
  <2>8. CASE t[x] = Quote
    <3>1. {j \in DOMAIN bare : bare[j] = Quote} = {1, Len(bare)} /\ Len(bare) > 1
      BY <1>4, <2>5, <2>8 DEF WellFormed, bare
    <3>2. Scalar(style, t) = SubSeq(bare, 2, Len(bare) - 1)
      BY <1>4, <2>5, <2>8 DEF Scalar, bare
    <3>3. Scalar(style, t) \in Seq(S) /\ IsPiece(Scalar(style, t), t, x + 1, y - 1)
      <4>1. x < y
        BY <2>4, <2>5, <3>1
      <4>2. QED
        BY <2>2, <2>5, <3>2, <4>1, PieceWithoutEnds
    <3>4. t[y] = Quote
      <4>1. bare[Len(bare)] = Quote
        BY <3>1
      <4>2. y - x + 1 = Len(bare) /\ bare[y - x + 1] = t[y]
        BY <2>4, <2>5, <2>6
      <4>3. QED
        BY <4>1, <4>2
    <3>5. IsQuoted(style, t) /\ Ignored(style, t) = {Blank, Quote}
      <4>1. \A j \in 1 .. x - 1 : t[j] = Blank
        <5>1. \A j \in 1 .. x - 1 : j \in DOMAIN t /\ j < x
          BY <1>1, <2>4
        <5>2. QED
          BY <2>4, <5>1
      <4>2. IsQuoted(style, t)
        BY <1>4, <2>8, <4>1 DEF IsQuoted
      <4>3. QED
        BY <4>2 DEF Ignored
    <3>6. ASSUME NEW j \in DOMAIN t, x + 1 <= j, j <= y - 1 PROVE t[j] # Quote
      <4>1. j \in Nat /\ x <= j /\ j <= y /\ j - x + 1 # 1 /\ j - x + 1 # Len(bare)
        BY <1>1, <2>4, <2>5, <3>6
      <4>2. j - x + 1 \in DOMAIN bare /\ bare[j - x + 1] = t[j]
        BY <2>6, <4>1
      <4>3. QED
        BY <3>1, <4>1, <4>2
    <3>7. ASSUME NEW j \in DOMAIN t, j < x + 1 \/ y - 1 < j PROVE t[j] \in {Blank, Quote}
      <4>1. j < x \/ j = x \/ j = y \/ y < j
        BY <1>1, <2>4, <3>7
      <4>2. QED
        BY <2>4, <2>8, <3>4, <4>1
    <3>8. x + 1 \in Nat /\ y - 1 \in Nat /\ 1 <= x + 1 /\ y - 1 <= Len(t)
      BY <2>4
    <3>9. \A j \in DOMAIN t : j \in Kept(style, t) <=> x + 1 <= j /\ j <= y - 1
      <4>1. ASSUME NEW a \in DOMAIN t, t[a] = Quote PROVE a = x \/ a = y
        <5>1. a \in Nat /\ Quote # Blank
          BY DEF Quote, Blank
        <5>2. ~(a < x) /\ ~(y < a) /\ ~(x + 1 <= a /\ a <= y - 1)
          BY <2>4, <3>6, <4>1, <5>1
        <5>3. QED
          BY <2>4, <5>1, <5>2
      <4>2. ASSUME NEW j \in DOMAIN t, j \in Kept(style, t)
            PROVE  x + 1 <= j /\ j <= y - 1
        <5>1. PICK a, b \in DOMAIN t : a < j /\ j < b /\ t[a] = Quote /\ t[b] = Quote
          BY <1>4, <3>5, <4>2 DEF Kept
        <5>2. j \in Nat /\ (a = x \/ a = y) /\ (b = x \/ b = y)
          BY <4>1, <5>1
        <5>3. QED
          BY <2>4, <5>1, <5>2
      <4>3. ASSUME NEW j \in DOMAIN t, x + 1 <= j, j <= y - 1 PROVE j \in Kept(style, t)
        <5>1. x < j /\ j < y
          BY <2>4, <4>3
        <5>2. QED
          BY <2>8, <3>4, <3>5, <5>1 DEF Kept
      <4>4. QED
        BY <4>2, <4>3
    <3>10. QED
      BY <3>3, <3>5, <3>6, <3>7, <3>8, <3>9
  <2>9. QED
    BY <2>7, <2>8
<1>5. QED
  BY <1>2, <1>3, <1>4

\* A text names what its scalar names: as the only word, or as the only word of an
\* item, where the scalar is split.
LEMMA ScalarNames ==
  ASSUME NEW S, NEW t \in Seq(S), NEW list,
         list.style \in {"double", "single", "plain"}, WellFormed(list.style, t),
         NEW w, w \notin {Blank, Quote, Comma},
         NEW p, p = Scalar(list.style, t)
  PROVE  /\ p \in Seq(S)
         /\ list.kind = "scalar" => (NamedIn(list, t, w) <=> AloneInItem(p, w))
         /\ list.kind # "scalar" => (NamedIn(list, t, w) <=> Alone(p, w))
<1> DEFINE ignored == Ignored(list.style, t)
<1>1. p \in Seq(S) /\ \E x, y \in Nat : Around(list.style, t, x, y)
  BY ScalarIsAPiece
<1>2. PICK x, y \in Nat : Around(list.style, t, x, y)
  BY <1>1
<1>3. /\ 1 <= x /\ y <= Len(t) /\ IsPiece(p, t, x, y)
      /\ \A j \in DOMAIN t : j < x \/ y < j => t[j] \in ignored
      /\ \A j \in DOMAIN t : x <= j /\ j <= y => (t[j] \in ignored <=> t[j] = Blank)
  BY <1>2 DEF Around
<1>4. w \notin ignored /\ Comma \notin ignored
  BY DEF Ignored, Comma, Blank, Quote
<1> HIDE DEF ignored
<1>5. PICK up : Placed(up, p, t, x, y)
  BY <1>1, <1>3, PiecePlaces
<1>6. /\ \A j \in DOMAIN p : up[j] \in DOMAIN t /\ p[j] = t[up[j]] /\ x <= up[j] /\ up[j] <= y
      /\ \A j \in DOMAIN t : x <= j /\ j <= y => \E k \in DOMAIN p : up[k] = j
      /\ \A i, j \in DOMAIN p : (i < j <=> up[i] < up[j]) /\ (up[i] = up[j] => i = j)
  <2>1. ASSUME NEW i \in DOMAIN p, NEW j \in DOMAIN p, up[i] = up[j] PROVE i = j
    <3>1. ~(up[i] < up[j]) /\ ~(up[j] < up[i])
      BY <1>5, <2>1 DEF Placed
    <3>2. i \in Nat /\ j \in Nat /\ ~(i < j) /\ ~(j < i)
      BY <1>1, <1>5, <3>1 DEF Placed
    <3>3. QED
      BY <3>2
  <2>2. QED
    BY <1>5, <2>1 DEF Placed
\* Inside the piece, what is ignored is blank.
<1>7. \A j \in DOMAIN p : p[j] \in ignored <=> p[j] = Blank
  BY <1>3, <1>6
\* A place that holds neither the word nor a comma outside the piece does not exist.
<1>8. \A j \in DOMAIN t : t[j] \notin ignored => \E k \in DOMAIN p : j = up[k]
  <2>1. SUFFICES ASSUME NEW j \in DOMAIN t, t[j] \notin ignored
                 PROVE  \E k \in DOMAIN p : j = up[k]
    OBVIOUS
  <2>2. x <= j /\ j <= y
    <3>1. j \in Nat
      OBVIOUS
    <3>2. ~(j < x) /\ ~(y < j)
      BY <1>3, <2>1
    <3>3. QED
      BY <1>3, <3>1, <3>2
  <2>3. QED
    BY <1>6, <2>2
<1>9. \A i, j \in DOMAIN p : Parted(p, i, j) <=> Parted(t, up[i], up[j])
  <2>1. ASSUME NEW i \in DOMAIN p, NEW j \in DOMAIN p, Parted(p, i, j)
        PROVE  Parted(t, up[i], up[j])
    <3>1. PICK n \in DOMAIN p : p[n] = Comma /\ (n = j \/ (i < n /\ n < j) \/ (j < n /\ n < i))
      BY <2>1 DEF Parted
    <3>2. /\ up[n] \in DOMAIN t /\ t[up[n]] = Comma
          /\ up[n] = up[j] \/ (up[i] < up[n] /\ up[n] < up[j]) \/ (up[j] < up[n] /\ up[n] < up[i])
      BY <1>6, <3>1
    <3>3. QED
      BY <3>2 DEF Parted
  <2>2. ASSUME NEW i \in DOMAIN p, NEW j \in DOMAIN p, Parted(t, up[i], up[j])
        PROVE  Parted(p, i, j)
    <3>1. PICK m \in DOMAIN t :
             /\ t[m] = Comma
             /\ m = up[j] \/ (up[i] < m /\ m < up[j]) \/ (up[j] < m /\ m < up[i])
      BY <2>2 DEF Parted
    <3>2. PICK n \in DOMAIN p : m = up[n]
      BY <1>4, <1>8, <3>1
    <3>3. p[n] = Comma /\ (n = j \/ (i < n /\ n < j) \/ (j < n /\ n < i))
      BY <1>6, <3>1, <3>2
    <3>4. QED
      BY <3>3 DEF Parted
  <2>3. QED
    BY <2>1, <2>2
\* One test on both sides.
<1> DEFINE fine(i, j) == t[j] \in ignored \/ (list.kind = "scalar" /\ Parted(t, i, j))
           kept(i, j) == p[j] = Blank \/ (list.kind = "scalar" /\ Parted(p, i, j))
           Whole == \E i \in DOMAIN t : t[i] = w /\ \A j \in DOMAIN t \ {i} : fine(i, j)
           Within == \E i \in DOMAIN p : p[i] = w /\ \A j \in DOMAIN p \ {i} : kept(i, j)
<1>10. \A i, j \in DOMAIN p : kept(i, j) <=> fine(up[i], up[j])
  <2>1. SUFFICES ASSUME NEW i \in DOMAIN p, NEW j \in DOMAIN p
                 PROVE  kept(i, j) <=> fine(up[i], up[j])
    OBVIOUS
  <2>2. p[j] = Blank <=> t[up[j]] \in ignored
    BY <1>6, <1>7
  <2>3. QED
    BY <1>9, <2>2
<1>11. \A i, j \in DOMAIN t : t[j] \in ignored => fine(i, j)
  OBVIOUS
<1>12. Whole <=> Within
  <2> HIDE DEF fine, kept
  <2>1. ASSUME Whole PROVE Within
    <3>1. PICK i \in DOMAIN t : t[i] = w /\ \A j \in DOMAIN t \ {i} : fine(i, j)
      BY <2>1
    <3>2. PICK k \in DOMAIN p : i = up[k]
      BY <1>4, <1>8, <3>1
    <3>3. p[k] = w
      BY <1>6, <3>1, <3>2
    <3>4. ASSUME NEW j \in DOMAIN p \ {k} PROVE kept(k, j)
      <4>1. up[j] \in DOMAIN t \ {i}
        BY <1>6, <3>2
      <4>2. QED
        BY <1>10, <3>1, <3>2, <4>1
    <3>5. QED
      BY <3>3, <3>4
  <2>2. ASSUME Within PROVE Whole
    <3>1. PICK k \in DOMAIN p : p[k] = w /\ \A j \in DOMAIN p \ {k} : kept(k, j)
      BY <2>2
    <3>2. up[k] \in DOMAIN t /\ t[up[k]] = w
      BY <1>6, <3>1
    <3>3. ASSUME NEW j \in DOMAIN t \ {up[k]} PROVE fine(up[k], j)
      <4>1. CASE t[j] \in ignored
        BY <1>11, <3>2, <4>1
      <4>2. CASE t[j] \notin ignored
        <5>1. PICK n \in DOMAIN p : j = up[n]
          BY <1>8, <4>2
        <5>2. n # k
          BY <3>3, <5>1
        <5>3. QED
          BY <1>10, <3>1, <5>1, <5>2
      <4>3. QED
        BY <4>1, <4>2
    <3>4. QED
      BY <3>2, <3>3
  <2>3. QED
    BY <2>1, <2>2
<1>13. NamedIn(list, t, w) <=> Whole
  BY DEF NamedIn, ignored
<1>14. CASE list.kind = "scalar"
  <2>1. Within <=> AloneInItem(p, w)
    BY <1>14 DEF AloneInItem
  <2>2. QED
    BY <1>1, <1>12, <1>13, <1>14, <2>1
<1>15. CASE list.kind # "scalar"
  <2>1. Within <=> Alone(p, w)
    BY <1>15 DEF Alone, Only
  <2>2. QED
    BY <1>1, <1>12, <1>13, <1>15, <2>1
<1>16. QED
  BY <1>14, <1>15

\* The items that are left after trimming hold a word when an item is trimmed to it.
LEMMA CompactHas ==
  ASSUME NEW m \in Nat, NEW items, DOMAIN items = 1 .. m, NEW w
  PROVE  <<w>> \in Range(TrimAndCompact(items)) <=>
           \E k \in DOMAIN items : TrimSpace(items[k]) = <<w>>
<1> DEFINE trimmed == [i \in DOMAIN items |-> TrimSpace(items[i])]
           full == {i \in DOMAIN items : trimmed[i] # Empty}
           left == Keep(trimmed, full)
<1>1. full \in SUBSET Nat /\ IsFiniteSet(full)
  <2>1. full \in SUBSET (1 .. m)
    OBVIOUS
  <2> HIDE DEF full
  <2>2. QED
    BY <2>1, PlacesAreFinite
<1>2. TrimAndCompact(items) = left
  BY DEF TrimAndCompact
<1>3. <<w>> # Empty
  BY DEF Empty
<1>4. \A i \in full : i \in DOMAIN items /\ trimmed[i] = TrimSpace(items[i])
  OBVIOUS
<1>5. \A i \in DOMAIN items : TrimSpace(items[i]) = <<w>> => i \in full
  BY <1>3
<1> HIDE DEF trimmed, full
<1>6. DOMAIN left = 1 .. Cardinality(full)
  BY <1>1, KeepIsASequence
<1>7. ASSUME NEW k \in DOMAIN left, left[k] = <<w>>
      PROVE  \E i \in DOMAIN items : TrimSpace(items[i]) = <<w>>
  <2>1. PICK i \in full : left[k] = trimmed[i]
    <3>1. k \in 1 .. Cardinality(full)
      BY <1>6
    <3> HIDE DEF left
    <3>2. \E i \in full : Rank(full, i) = k /\ Keep(trimmed, full)[k] = trimmed[i]
      BY <1>1, <3>1, KeepComesFrom
    <3>3. QED
      BY <3>2 DEF left
  <2>2. QED
    BY <1>4, <1>7, <2>1
<1>8. ASSUME NEW i \in DOMAIN items, TrimSpace(items[i]) = <<w>>
      PROVE  \E k \in DOMAIN left : left[k] = <<w>>
  <2>1. i \in full
    BY <1>5, <1>8
  <2>2. left[Rank(full, i)] = trimmed[i] /\ Rank(full, i) \in DOMAIN left
    BY <1>1, <1>6, <2>1, KeepAtRank, RankIsANumber
  <2>3. QED
    BY <1>4, <1>8, <2>1, <2>2
<1>9. <<w>> \in Range(left) <=> \E k \in DOMAIN left : left[k] = <<w>>
  <2> HIDE DEF left
  <2>1. QED
    BY DEF Range
<1>10. QED
  BY <1>2, <1>7, <1>8, <1>9

\* What StringList makes of a list holds a word, as an origin of its own, exactly
\* when the texts name it.
LEMMA OriginsAreNamed ==
  ASSUME NEW d, IsDeployment(d), OriginsAreRead(d.file.origins, d.env),
         NEW w, w \notin {Blank, Quote, Comma}
  PROVE  <<w>> \in Range(StringList(d.file.origins, d.env)) <=>
           \E n \in DOMAIN d.file.origins.items :
             NamedIn(d.file.origins, ExpandEnv(d.file.origins.items[n], d.env), w)
<1> DEFINE list == d.file.origins
           items == list.items
           text(n) == ExpandEnv(items[n], d.env)
           item(n) == Scalar(list.style, text(n))
<1>1. /\ list.style \in {"double", "single", "plain"}
      /\ items \in Seq(ToSet(items))
      /\ list.kind = "scalar" => Len(items) = 1
      /\ \A n \in DOMAIN items : text(n) \in Seq(ToSet(text(n)))
  BY DEF IsDeployment, IsText
<1>2. list.kind \in {"list", "scalar"} /\ \A n \in DOMAIN items : WellFormed(list.style, text(n))
  BY DEF OriginsAreRead
<1>3. Len(items) \in Nat /\ DOMAIN items = 1 .. Len(items)
  BY <1>1
<1>4. StringList(list, d.env) =
        TrimAndCompact(IF list.kind = "scalar" THEN Split(item(1))
                       ELSE [n \in DOMAIN items |-> item(n)])
  BY DEF StringList
<1>5. w # Blank /\ w # Comma
  OBVIOUS
<1> HIDE DEF text, item, items, list
<1>6. ASSUME NEW n \in DOMAIN items
      PROVE  /\ \E S : item(n) \in Seq(S)
             /\ list.kind = "scalar" => (NamedIn(list, text(n), w) <=> AloneInItem(item(n), w))
             /\ list.kind # "scalar" => (NamedIn(list, text(n), w) <=> Alone(item(n), w))
  <2> DEFINE t == text(n)
             p == item(n)
             S == ToSet(t)
  <2>1. t \in Seq(S) /\ WellFormed(list.style, t) /\ p = Scalar(list.style, t)
    BY <1>1, <1>2 DEF item
  <2> HIDE DEF t, p, S
  <2>2. /\ p \in Seq(S)
        /\ list.kind = "scalar" => (NamedIn(list, t, w) <=> AloneInItem(p, w))
        /\ list.kind # "scalar" => (NamedIn(list, t, w) <=> Alone(p, w))
    BY <1>1, <2>1, ScalarNames
  <2>3. QED
    BY <2>2 DEF t, p
<1>7. CASE list.kind = "scalar"
  <2>1. DOMAIN items = {1}
    BY <1>1, <1>3, <1>7
  <2> DEFINE p == item(1)
             parts == Split(p)
  <2>2. PICK S : p \in Seq(S)
    BY <1>6, <2>1
  <2> HIDE DEF p
  <2>3. (\E k \in DOMAIN parts : TrimSpace(parts[k]) = <<w>>) <=> AloneInItem(p, w)
    BY <1>5, <2>2, SplitHasOne
  <2>4. \E m \in Nat : DOMAIN parts = 1 .. m
    <3>1. parts \in Seq(Seq(S))
      BY <2>2, SplitPieces
    <3> HIDE DEF parts
    <3>2. QED
      BY <3>1
  <2>5. StringList(list, d.env) = TrimAndCompact(parts)
    BY <1>4, <1>7 DEF p
  <2> HIDE DEF parts
  <2>6. <<w>> \in Range(StringList(list, d.env)) <=> AloneInItem(p, w)
    BY <2>3, <2>4, <2>5, CompactHas
  <2>7. NamedIn(list, text(1), w) <=> AloneInItem(p, w)
    BY <1>6, <1>7, <2>1 DEF p
  <2>8. QED
    BY <2>1, <2>6, <2>7 DEF text, items, list
<1>8. CASE list.kind # "scalar"
  <2> DEFINE parts == [n \in DOMAIN items |-> item(n)]
  <2>1. DOMAIN parts = DOMAIN items /\ \A n \in DOMAIN items : parts[n] = item(n)
    OBVIOUS
  <2>2. StringList(list, d.env) = TrimAndCompact(parts)
    BY <1>4, <1>8
  <2> HIDE DEF parts
  <2>3. <<w>> \in Range(StringList(list, d.env)) <=>
          \E n \in DOMAIN items : TrimSpace(item(n)) = <<w>>
    BY <1>3, <2>1, <2>2, CompactHas
  <2>4. \A n \in DOMAIN items : TrimSpace(item(n)) = <<w>> <=> NamedIn(list, text(n), w)
    BY <1>5, <1>6, <1>8, SpaceTrimmed
  <2>5. QED
    BY <2>3, <2>4 DEF text, items, list
<1>9. QED
  BY <1>7, <1>8

\* What Load does not refuse has the origins StringList read.
LEMMA LoadKeepsOrigins ==
  ASSUME NEW file, NEW env, Load(file, env) # Refused
  PROVE  /\ Load(file, env).origins = StringList(file.origins, env)
         /\ OriginsAreRead(file.origins, env)
<1> DEFINE value == [k \in Texts \cup Numbers |-> ExpandEnv(file.template[k], env)]
           read == [ text    |-> [k \in Texts |-> Scalar(file.style[k], value[k])],
                     number  |-> [k \in Numbers |-> Number(value[k])],
                     origins |-> StringList(file.origins, env) ]
           made == ApplyDefaults(read)
<1>1. Load(file, env) = IF Parses(file, value, env) /\ Valid(made) THEN made ELSE Refused
  BY DEF Load
<1>2. Parses(file, value, env) /\ Load(file, env) = made
  BY <1>1
<1>3. made.origins = read.origins
  <2> DEFINE text == [k \in Texts |-> Scalar(file.style[k], value[k])]
             number == [k \in Numbers |-> Number(value[k])]
             origins == StringList(file.origins, env)
  <2> HIDE DEF text, number, origins
  <2>1. QED
    BY DEF ApplyDefaults
<1>4. QED
  BY <1>2, <1>3 DEF Parses

\* Who is welcome under what a deployment loads is named by it.
LEMMA WelcomeIsNamed ==
  ASSUME given \in Givens, cfg = Load(given.file, given.env), cfg # Refused, NEW c \in Calls
  PROVE  Welcome(c) <=> c.origin # Empty /\ (Named(c.origin[1]) \/ Named("*"))
<1> DEFINE w == c.origin[1]
<1>1. IsDeployment(given)
  BY GivensAssumption
<1>2. /\ cfg.origins = StringList(given.file.origins, given.env)
      /\ OriginsAreRead(given.file.origins, given.env)
  BY LoadKeepsOrigins
<1>3. ASSUME NEW v, v \notin {Blank, Quote, Comma}
      PROVE  <<v>> \in Range(cfg.origins) <=> Named(v)
  BY <1>1, <1>2, <1>3, OriginsAreNamed DEF Named
<1>4. <<"*">> \in Range(cfg.origins) <=> Named("*")
  <2>1. "*" \notin {Blank, Quote, Comma}
    BY DEF Blank, Quote, Comma
  <2>2. QED
    BY <1>3, <2>1
<1>5. CASE c.origin = Empty
  BY <1>5 DEF Welcome
<1>6. CASE c.origin # Empty
  <2>1. c.origin = <<w>> /\ w \notin {Blank, Quote, Comma}
    BY <1>6, CallsAssumption DEF IsOrigin
  <2>2. <<w>> \in Range(cfg.origins) <=> Named(w)
    BY <1>3, <2>1
  <2> HIDE DEF w
  <2>3. Welcome(c) <=> <<"*">> \in Range(cfg.origins) \/ <<w>> \in Range(cfg.origins)
    BY <1>6, <2>1 DEF Welcome
  <2>4. QED
    BY <1>4, <1>6, <2>2, <2>3 DEF w
<1>7. QED
  BY <1>5, <1>6

\* A browser is let in exactly when the deployment names its origin.
LEMMA HeadersAreAsNamed == IInv => OriginsAsConfigured
<1> SUFFICES ASSUME IInv, NEW r \in Requests, at[r] # "idle"
             PROVE  LET origin == call[r].origin
                        welcome == origin # Empty /\ (Named(origin[1]) \/ Named("*"))
                    IN /\ answer[r].allow = IF welcome THEN origin ELSE Empty
                       /\ call[r].method = "OPTIONS" /\ answer[r].status = 204 => welcome
  BY DEF OriginsAsConfigured
<1>1. call[r] \in Calls /\ given \in Givens
  BY DEF IInv, RequestInv, RunOK, TypeOK
<1>2. /\ cfg = Load(given.file, given.env) /\ cfg # Refused
      /\ answer[r].allow = Allow(call[r])
      /\ call[r].method = "OPTIONS" => answer[r].status = PreflightStatus(call[r])
  BY DEF IInv, HeadersOK
<1>3. Welcome(call[r]) <=> call[r].origin # Empty /\ (Named(call[r].origin[1]) \/ Named("*"))
  BY <1>1, <1>2, WelcomeIsNamed
<1>4. PreflightStatus(call[r]) = 204 => Welcome(call[r])
  BY DEF PreflightStatus
<1>5. QED
  BY <1>2, <1>3, <1>4 DEF Allow

\* What a browser reads an answer by, a replayed one included, is what the texts of
\* the deployment name, however they are quoted, spaced and split.
THEOREM OriginsAreRight == Spec => []OriginsAsConfigured
  BY HeadersAreAsNamed, Inductive, PTL

-----------------------------------------------------------------------------
(* What a process runs with.                                               *)

\* A trimmed text has the tokens that are not trimmed, and no new ones.
LEMMA TrimKeeps ==
  ASSUME NEW S, NEW t \in Seq(S), NEW cutset
  PROVE  /\ Trim(t, cutset) \in Seq(S)
         /\ Range(Trim(t, cutset)) \subseteq Range(t)
         /\ Range(t) \ cutset \subseteq Range(Trim(t, cutset))
         /\ Trim(t, cutset) = Empty <=> Range(t) \subseteq cutset
<1> DEFINE q == Trim(t, cutset)
<1>1. CASE \A i \in DOMAIN t : t[i] \in cutset
  <2>1. q = Empty
    BY <1>1, TrimmedAway
  <2>2. Empty \in Seq(S) /\ Range(Empty) = {} /\ Range(t) \subseteq cutset
    BY <1>1 DEF Empty, Range
  <2>3. QED
    BY <2>1, <2>2
<1>2. CASE \E i \in DOMAIN t : t[i] \notin cutset
  <2>1. PICK i \in DOMAIN t : t[i] \notin cutset
    BY <1>2
  <2>2. PICK x, y \in DOMAIN t :
           /\ q = SubSeq(t, x, y)
           /\ x <= i /\ i <= y
           /\ t[x] \notin cutset /\ t[y] \notin cutset
           /\ \A j \in DOMAIN t : j < x \/ y < j => t[j] \in cutset
    BY <2>1, TrimmedText
  <2> HIDE DEF q
  <2>3. x \in Nat /\ y \in Nat /\ 1 <= x /\ y <= Len(t) /\ Len(t) \in Nat /\ DOMAIN t = 1 .. Len(t)
    OBVIOUS
  <2>4. q \in Seq(S) /\ IsPiece(q, t, x, y)
    BY <2>2, <2>3, Piece DEF IsPiece
  <2>5. PICK up : Placed(up, q, t, x, y)
    BY <2>3, <2>4, PiecePlaces
  <2>6. Range(q) \subseteq Range(t)
    BY <2>5 DEF Placed, Range
  <2>7. ASSUME NEW j \in DOMAIN t, t[j] \notin cutset PROVE t[j] \in Range(q)
    <3>1. x <= j /\ j <= y
      BY <2>2, <2>3, <2>7
    <3>2. PICK k \in DOMAIN q : up[k] = j
      BY <2>5, <3>1 DEF Placed
    <3>3. q[k] = t[j]
      BY <2>5, <3>2 DEF Placed
    <3>4. QED
      BY <3>3 DEF Range
  <2>8. Range(t) \ cutset \subseteq Range(q)
    BY <2>7 DEF Range
  <2>9. t[i] \in Range(q) /\ t[i] \in Range(t) /\ ~(Range(t) \subseteq cutset)
    BY <2>1, <2>7 DEF Range
  <2>10. q # Empty
    BY <2>9 DEF Empty, Range
  <2>11. QED
    BY <2>4, <2>6, <2>8, <2>9, <2>10 DEF q
<1>3. QED
  BY <1>1, <1>2

\* A scalar has the tokens that are not ignored, no new ones, and of those that are
\* ignored only blanks.
LEMMA ScalarKeeps ==
  ASSUME NEW S, NEW t \in Seq(S), NEW style \in {"double", "single", "plain"},
         WellFormed(style, t), NEW p, p = Scalar(style, t)
  PROVE  /\ p \in Seq(S)
         /\ Range(p) \subseteq Range(t)
         /\ Range(t) \ Ignored(style, t) \subseteq Range(p)
         /\ Range(p) \cap Ignored(style, t) \subseteq {Blank}
<1> DEFINE ignored == Ignored(style, t)
<1>1. p \in Seq(S) /\ \E x, y \in Nat : Around(style, t, x, y)
  BY ScalarIsAPiece
<1>2. PICK x, y \in Nat : Around(style, t, x, y)
  BY <1>1
<1>3. /\ 1 <= x /\ y <= Len(t) /\ IsPiece(p, t, x, y)
      /\ \A j \in DOMAIN t : j < x \/ y < j => t[j] \in ignored
      /\ \A j \in DOMAIN t : x <= j /\ j <= y => (t[j] \in ignored <=> t[j] = Blank)
  BY <1>2 DEF Around
<1> HIDE DEF ignored
<1>4. PICK up : Placed(up, p, t, x, y)
  BY <1>1, <1>3, PiecePlaces
<1>5. Range(p) \subseteq Range(t)
  BY <1>4 DEF Placed, Range
<1>6. ASSUME NEW j \in DOMAIN t, t[j] \notin ignored PROVE t[j] \in Range(p)
  <2>1. j \in Nat
    OBVIOUS
  <2>2. x <= j /\ j <= y
    BY <1>3, <1>6, <2>1
  <2>3. PICK k \in DOMAIN p : up[k] = j
    BY <1>4, <2>2 DEF Placed
  <2>4. p[k] = t[j]
    BY <1>4, <2>3 DEF Placed
  <2>5. QED
    BY <2>4 DEF Range
<1>7. ASSUME NEW k \in DOMAIN p, p[k] \in ignored PROVE p[k] = Blank
  <2>1. up[k] \in DOMAIN t /\ p[k] = t[up[k]] /\ x <= up[k] /\ up[k] <= y
    BY <1>4 DEF Placed
  <2>2. QED
    BY <1>3, <1>7, <2>1
<1>8. QED
  BY <1>1, <1>5, <1>6, <1>7 DEF Range, ignored

\* Something is left of a scalar when something stands in its text.
LEMMA ScalarStands ==
  ASSUME NEW S, NEW t \in Seq(S), NEW style \in {"double", "single", "plain"},
         WellFormed(style, t)
  PROVE  TrimSpace(Scalar(style, t)) # Empty <=> Stands(style, t)
<1> DEFINE p == Scalar(style, t)
           ignored == Ignored(style, t)
<1>1. /\ p \in Seq(S)
      /\ Range(p) \subseteq Range(t)
      /\ Range(t) \ ignored \subseteq Range(p)
      /\ Range(p) \cap ignored \subseteq {Blank}
  BY ScalarKeeps
<1>2. Blank \in ignored
  BY DEF Ignored
<1>3. Stands(style, t) <=> ~(Range(t) \subseteq ignored)
  BY DEF Stands, Range
<1> HIDE DEF p, ignored
<1>4. TrimSpace(p) = Empty <=> Range(p) \subseteq {Blank}
  BY <1>1, TrimKeeps DEF TrimSpace
<1>5. QED
  BY <1>1, <1>2, <1>3, <1>4 DEF p

\* A text that is pasted around a word is pasted around it in every piece that has it.
LEMMA PastedPiece ==
  ASSUME NEW S, NEW t \in Seq(S), NEW p \in Seq(S), NEW x, NEW y, NEW up,
         Placed(up, p, t, x, y), NEW i \in DOMAIN p, NEW w, p[i] = w,
         \A j \in DOMAIN t \ {up[i]} :
           \/ t[j] = Blank
           \/ t[j] = Quote /\ \A n \in DOMAIN t :
                (up[i] < n /\ n < j) \/ (j < n /\ n < up[i]) => t[n] = Quote
  PROVE  \A j \in DOMAIN p \ {i} :
           \/ p[j] = Blank
           \/ p[j] = Quote /\ \A n \in DOMAIN p :
                (i < n /\ n < j) \/ (j < n /\ n < i) => p[n] = Quote
<1> SUFFICES ASSUME NEW j \in DOMAIN p \ {i}
             PROVE  \/ p[j] = Blank
                    \/ p[j] = Quote /\ \A n \in DOMAIN p :
                         (i < n /\ n < j) \/ (j < n /\ n < i) => p[n] = Quote
  OBVIOUS
<1>1. i \in Nat /\ j \in Nat /\ (i < j \/ j < i)
  OBVIOUS
<1>2. up[j] \in DOMAIN t \ {up[i]} /\ up[i] \in Nat
  <2>1. up[j] \in DOMAIN t /\ up[i] \in DOMAIN t /\ (up[i] < up[j] \/ up[j] < up[i])
    BY <1>1 DEF Placed
  <2>2. QED
    BY <2>1
<1>3. p[j] = t[up[j]]
  BY DEF Placed
<1>4. CASE t[up[j]] = Blank
  BY <1>3, <1>4
<1>5. CASE /\ t[up[j]] = Quote
           /\ \A n \in DOMAIN t :
                (up[i] < n /\ n < up[j]) \/ (up[j] < n /\ n < up[i]) => t[n] = Quote
  <2>1. ASSUME NEW n \in DOMAIN p, (i < n /\ n < j) \/ (j < n /\ n < i) PROVE p[n] = Quote
    <3>1. /\ up[n] \in DOMAIN t /\ p[n] = t[up[n]]
          /\ (up[i] < up[n] /\ up[n] < up[j]) \/ (up[j] < up[n] /\ up[n] < up[i])
      BY <2>1 DEF Placed
    <3>2. QED
      BY <1>5, <3>1
  <2>2. QED
    BY <1>3, <1>5, <2>1
<1>6. QED
  BY <1>2, <1>4, <1>5

\* A cookie that is pasted into a text is pasted into its scalar.
LEMMA PastedScalar ==
  ASSUME NEW S, NEW t \in Seq(S), NEW style \in {"double", "single", "plain"},
         WellFormed(style, t), NEW p, p = Scalar(style, t),
         NEW w, w \notin {Blank, Quote}, IsPasted(t, w)
  PROVE  IsPasted(p, w)
<1>1. p \in Seq(S) /\ \E x, y \in Nat : Around(style, t, x, y)
  BY ScalarIsAPiece
<1>2. PICK x, y \in Nat : Around(style, t, x, y)
  BY <1>1
<1>3. /\ 1 <= x /\ y <= Len(t) /\ IsPiece(p, t, x, y)
      /\ \A j \in DOMAIN t : j < x \/ y < j => t[j] \in Ignored(style, t)
  BY <1>2 DEF Around
<1>4. PICK up : Placed(up, p, t, x, y)
  BY <1>1, <1>3, PiecePlaces
<1>5. PICK i \in DOMAIN t :
        /\ t[i] = w
        /\ \A j \in DOMAIN t \ {i} :
             \/ t[j] = Blank
             \/ t[j] = Quote /\ \A n \in DOMAIN t :
                  (i < n /\ n < j) \/ (j < n /\ n < i) => t[n] = Quote
  BY DEF IsPasted
<1>6. w \notin Ignored(style, t)
  BY DEF Ignored
<1>7. x <= i /\ i <= y
  <2>1. i \in Nat
    OBVIOUS
  <2>2. QED
    BY <1>3, <1>5, <1>6, <2>1
<1>8. PICK k \in DOMAIN p : up[k] = i
  BY <1>4, <1>7 DEF Placed
<1>9. p[k] = w
  BY <1>4, <1>5, <1>8 DEF Placed
<1>10. \A j \in DOMAIN p \ {k} :
         \/ p[j] = Blank
         \/ p[j] = Quote /\ \A n \in DOMAIN p :
              (k < n /\ n < j) \/ (j < n /\ n < k) => p[n] = Quote
  BY <1>1, <1>4, <1>5, <1>8, <1>9, PastedPiece
<1>11. QED
  BY <1>9, <1>10 DEF IsPasted

\* What applyDefaults makes of JSESSIONID.
Bare(text) == Trim(TrimSpace(text), {Quote})

\* What is left of a pasted cookie without the blanks and the quotes around it is the
\* cookie.
LEMMA PastedToOne ==
  ASSUME NEW S, NEW p \in Seq(S), NEW w, w \notin {Blank, Quote}, IsPasted(p, w)
  PROVE  Bare(p) = <<w>>
<1>1. PICK i \in DOMAIN p :
        /\ p[i] = w
        /\ \A j \in DOMAIN p \ {i} :
             \/ p[j] = Blank
             \/ p[j] = Quote /\ \A n \in DOMAIN p :
                  (i < n /\ n < j) \/ (j < n /\ n < i) => p[n] = Quote
  BY DEF IsPasted
<1> DEFINE q == Trim(p, {Blank})
<1>2. PICK x, y \in DOMAIN p :
        /\ q = SubSeq(p, x, y)
        /\ x <= i /\ i <= y
        /\ p[x] \notin {Blank} /\ p[y] \notin {Blank}
  <2>1. p[i] \notin {Blank}
    BY <1>1
  <2>2. QED
    BY <2>1, TrimmedText
<1> HIDE DEF q
<1>3. /\ x \in Nat /\ y \in Nat /\ i \in Nat /\ 1 <= x /\ y <= Len(p)
      /\ Len(p) \in Nat /\ DOMAIN p = 1 .. Len(p)
  OBVIOUS
<1>4. q \in Seq(S) /\ IsPiece(q, p, x, y)
  BY <1>2, <1>3, Piece DEF IsPiece
<1>5. PICK up : Placed(up, q, p, x, y)
  BY <1>3, <1>4, PiecePlaces
<1>6. PICK k \in DOMAIN q : up[k] = i
  BY <1>2, <1>5 DEF Placed
<1>7. q[k] = w
  BY <1>1, <1>5, <1>6 DEF Placed
\* From the first place to the word there are only quotes, and from there to the last.
<1>8. ASSUME NEW n \in DOMAIN p \ {i}, x <= n, n <= y PROVE p[n] = Quote
  <2>1. n \in Nat /\ (n < i \/ i < n)
    BY <1>3
  <2>2. CASE n < i
    <3>1. p[x] = Quote /\ \A m \in DOMAIN p : x < m /\ m < i => p[m] = Quote
      BY <1>1, <1>2, <1>3, <1>8, <2>1, <2>2
    <3>2. n = x \/ (x < n /\ n < i)
      BY <1>3, <1>8, <2>1, <2>2
    <3>3. QED
      BY <3>1, <3>2
  <2>3. CASE i < n
    <3>1. p[y] = Quote /\ \A m \in DOMAIN p : i < m /\ m < y => p[m] = Quote
      BY <1>1, <1>2, <1>3, <1>8, <2>1, <2>3
    <3>2. n = y \/ (i < n /\ n < y)
      BY <1>3, <1>8, <2>1, <2>3
    <3>3. QED
      BY <3>1, <3>2
  <2>4. QED
    BY <2>1, <2>2, <2>3
<1>9. ASSUME NEW j \in DOMAIN q \ {k} PROVE q[j] = Quote
  <2>1. j \in Nat /\ k \in Nat /\ (j < k \/ k < j)
    BY <1>4
  <2>2. /\ up[j] \in DOMAIN p /\ q[j] = p[up[j]] /\ x <= up[j] /\ up[j] <= y
        /\ up[j] < i \/ i < up[j]
    BY <1>5, <1>6, <2>1 DEF Placed
  <2>3. up[j] # i
    BY <1>3, <2>2
  <2>4. QED
    BY <1>8, <2>2, <2>3
<1>10. Only(q, w, {Quote})
  BY <1>7, <1>9 DEF Only
<1>11. Trim(q, {Quote}) = <<w>>
  BY <1>4, <1>10, TrimmedToOne
<1>12. QED
  BY <1>11 DEF q, TrimSpace, Bare

\* In a text that starts with a quote YAML finds the other one where it is closed.
LEMMA ClosedInPlace ==
  ASSUME NEW S, NEW t \in Seq(S), NEW x \in DOMAIN t, NEW y \in DOMAIN t, IsBare(t, x, y),
         NEW bare \in Seq(S), bare = TrimSpace(t), t[x] = Quote
  PROVE  IsClosed(t, x) <=>
           {j \in DOMAIN bare : bare[j] = Quote} = {1, Len(bare)} /\ Len(bare) > 1
<1>1. /\ x \in Nat /\ y \in Nat /\ 1 <= x /\ x <= y /\ y <= Len(t) /\ DOMAIN t = 1 .. Len(t)
      /\ t[y] # Blank
      /\ \A j \in DOMAIN t : j < x \/ y < j => t[j] = Blank
  BY DEF IsBare
<1>2. /\ DOMAIN bare = 1 .. Len(bare) /\ Len(bare) = y - x + 1
      /\ \A j \in 1 .. Len(bare) : bare[j] = t[x + j - 1]
      /\ \A j \in DOMAIN t : x <= j /\ j <= y =>
           j - x + 1 \in DOMAIN bare /\ bare[j - x + 1] = t[j]
  BY DEF IsBare, IsPiece
<1>3. Quote # Blank
  BY DEF Quote, Blank
<1>4. ASSUME {j \in DOMAIN bare : bare[j] = Quote} = {1, Len(bare)}, Len(bare) > 1
      PROVE  IsClosed(t, x)
  <2>1. x < y
    BY <1>1, <1>2, <1>4
  <2>2. t[y] = Quote
    <3>1. y - x + 1 = Len(bare) /\ bare[y - x + 1] = t[y]
      BY <1>1, <1>2
    <3>2. bare[Len(bare)] = Quote
      BY <1>4
    <3>3. QED
      BY <3>1, <3>2
  <2>3. ASSUME NEW j \in DOMAIN t \ {y}, x < j PROVE t[j] # Quote /\ (y < j => t[j] = Blank)
    <3>1. CASE y < j
      BY <1>1, <1>3, <3>1
    <3>2. CASE j < y
      <4>1. j - x + 1 \in DOMAIN bare /\ bare[j - x + 1] = t[j]
        BY <1>1, <1>2, <2>3, <3>2
      <4>2. j - x + 1 # 1 /\ j - x + 1 # Len(bare)
        BY <1>1, <1>2, <2>3, <3>2
      <4>3. t[j] # Quote
        BY <1>4, <4>1, <4>2
      <4>4. ~(y < j)
        BY <1>1, <3>2
      <4>5. QED
        BY <4>3, <4>4
    <3>3. QED
      BY <1>1, <3>1, <3>2
  <2>4. QED
    BY <2>1, <2>2, <2>3 DEF IsClosed
<1>5. ASSUME IsClosed(t, x)
      PROVE  {j \in DOMAIN bare : bare[j] = Quote} = {1, Len(bare)} /\ Len(bare) > 1
  <2>1. PICK n \in DOMAIN t :
          /\ x < n /\ t[n] = Quote
          /\ \A j \in DOMAIN t \ {n} : x < j => t[j] # Quote /\ (n < j => t[j] = Blank)
    BY <1>5 DEF IsClosed
  <2>2. n = y
    <3>1. n \in Nat /\ ~(y < n)
      BY <1>1, <1>3, <2>1
    <3>2. ~(n < y)
      <4>1. SUFFICES ASSUME n < y PROVE FALSE
        OBVIOUS
      <4>2. y \in DOMAIN t \ {n} /\ x < y
        BY <1>1, <2>1, <3>1, <4>1
      <4>3. QED
        BY <1>1, <2>1, <4>1, <4>2
    <3>3. QED
      BY <1>1, <3>1, <3>2
  <2>3. Len(bare) > 1 /\ bare[1] = Quote /\ bare[Len(bare)] = Quote
    <3>1. x - x + 1 = 1 /\ y - x + 1 = Len(bare)
      BY <1>1, <1>2
    <3>2. bare[x - x + 1] = t[x] /\ bare[y - x + 1] = t[y]
      BY <1>1, <1>2
    <3>3. Len(bare) > 1
      BY <1>1, <1>2, <2>1, <2>2
    <3>4. QED
      BY <2>1, <2>2, <3>1, <3>2, <3>3
  <2>4. ASSUME NEW k \in DOMAIN bare, bare[k] = Quote PROVE k = 1 \/ k = Len(bare)
    <3>1. k \in 1 .. Len(bare) /\ bare[k] = t[x + k - 1]
      BY <1>2
    <3>2. SUFFICES ASSUME k # 1, k # Len(bare) PROVE FALSE
      OBVIOUS
    <3>3. x + k - 1 \in DOMAIN t \ {y} /\ x < x + k - 1
      BY <1>1, <1>2, <3>1, <3>2
    <3>4. QED
      BY <2>1, <2>2, <2>4, <3>1, <3>3
  <2>5. 1 \in DOMAIN bare /\ Len(bare) \in DOMAIN bare
    BY <1>2, <2>3
  <2>6. QED
    BY <2>3, <2>4, <2>5
<1>6. QED
  BY <1>4, <1>5

\* What YAML stumbles over, read off the places of a text.
LEMMA BrokenIsRefused ==
  ASSUME NEW S, NEW t \in Seq(S), NEW style \in {"double", "single", "plain"}
  PROVE  WellFormed(style, t) <=> ~Broken(style, t)
<1>1. CASE style = "double"
  BY <1>1 DEF WellFormed, Broken
<1>2. CASE style = "single"
  BY <1>2 DEF WellFormed, Broken
<1>3. Quote # Blank /\ Comma # Blank /\ Quote # Comma
  BY DEF Quote, Comma, Blank
<1>4. CASE style = "plain" /\ \A i \in DOMAIN t : t[i] = Blank
  <2>1. TrimSpace(t) = Empty
    BY <1>4, TrimmedAway DEF TrimSpace
  <2>2. WellFormed(style, t)
    BY <1>4, <2>1 DEF WellFormed
  <2>3. ~Broken(style, t)
    BY <1>3, <1>4 DEF Broken
  <2>4. QED
    BY <2>2, <2>3
<1>5. CASE style = "plain" /\ \E i \in DOMAIN t : t[i] # Blank
  <2> DEFINE bare == TrimSpace(t)
             quotes == {j \in DOMAIN bare : bare[j] = Quote}
  <2>1. bare \in Seq(S) /\ \E x, y \in DOMAIN t : IsBare(t, x, y)
    BY <1>5, BarePiece
  <2>2. PICK x, y \in DOMAIN t : IsBare(t, x, y)
    BY <2>1
  <2>3. /\ bare # Empty /\ Head(bare) = t[x]
        /\ x \in Nat /\ 1 <= x /\ t[x] # Blank
        /\ \A j \in DOMAIN t : j < x => t[j] = Blank
    BY <2>2 DEF IsBare
  <2>4. WellFormed(style, t) <=>
          t[x] # Comma /\ (t[x] = Quote => quotes = {1, Len(bare)} /\ Len(bare) > 1)
    <3> HIDE DEF quotes
    <3>1. WellFormed(style, t) <=>
            (bare # Empty => /\ Head(bare) # Comma
                             /\ Head(bare) = Quote => quotes = {1, Len(bare)} /\ Len(bare) > 1)
      BY <1>5 DEF WellFormed, quotes
    <3> HIDE DEF bare
    <3>2. QED
      BY <2>3, <3>1
  <2>5. ASSUME NEW i \in DOMAIN t
        PROVE  (\A j \in 1 .. i - 1 : t[j] = Blank) /\ t[i] # Blank <=> i = x
    <3>1. i \in Nat /\ 1 <= i
      OBVIOUS
    <3>2. ASSUME \A j \in 1 .. i - 1 : t[j] = Blank, t[i] # Blank PROVE i = x
      <4>1. ~(i < x)
        BY <2>3, <3>2
      <4>2. ~(x < i)
        <5>1. x < i => x \in 1 .. i - 1
          BY <2>3, <3>1
        <5>2. QED
          BY <2>3, <3>2, <5>1
      <4>3. QED
        BY <2>3, <3>1, <4>1, <4>2
    <3>3. ASSUME i = x PROVE (\A j \in 1 .. i - 1 : t[j] = Blank) /\ t[i] # Blank
      <4>1. \A j \in 1 .. i - 1 : j \in DOMAIN t /\ j < x
        BY <3>1, <3>3
      <4>2. QED
        BY <2>3, <3>3, <4>1
    <3>4. QED
      BY <3>2, <3>3
  <2>6. Broken(style, t) <=> t[x] = Comma \/ (t[x] = Quote /\ ~IsClosed(t, x))
    BY <1>3, <1>5, <2>5 DEF Broken
  <2>7. t[x] = Quote => (IsClosed(t, x) <=> quotes = {1, Len(bare)} /\ Len(bare) > 1)
    BY <2>1, <2>2, ClosedInPlace
  <2> HIDE DEF bare, quotes
  <2>8. QED
    BY <1>3, <2>4, <2>6, <2>7
<1>6. QED
  BY <1>1, <1>2, <1>4, <1>5

\* An environment is named where the scalar is one, or nothing.
LEMMA EnvironmentIsNamed ==
  ASSUME NEW S, NEW t \in Seq(S), NEW style \in {"double", "single", "plain"},
         WellFormed(style, t), NEW p, p = Scalar(style, t)
  PROVE  NamesEnvironment(style, t) <=> p = Empty \/ p \in Environments
<1> DEFINE kept == Kept(style, t)
<1>1. p \in Seq(S) /\ \E x, y \in Nat : Around(style, t, x, y)
  BY ScalarIsAPiece
<1>2. PICK x, y \in Nat : Around(style, t, x, y)
  BY <1>1
<1>3. /\ 1 <= x /\ y <= Len(t) /\ Len(t) \in Nat /\ DOMAIN t = 1 .. Len(t)
      /\ DOMAIN p = 1 .. y - x + 1
      /\ \A j \in 1 .. y - x + 1 : p[j] = t[x + j - 1]
      /\ kept \subseteq DOMAIN t
      /\ \A j \in DOMAIN t : j \in kept <=> x <= j /\ j <= y
  BY <1>2 DEF Around, IsPiece, Kept
<1>4. NamesEnvironment(style, t) <=>
        \A i \in kept : kept = {i} /\ t[i] \in {"local", "stg", "uat", "prd"}
  BY DEF NamesEnvironment
<1> HIDE DEF kept
<1>5. CASE y < x
  <2>1. kept = {}
    BY <1>3, <1>5
  <2>2. p = Empty
    BY <1>1, <1>3, <1>5 DEF Empty
  <2>3. QED
    BY <1>4, <2>1, <2>2
<1>6. CASE x <= y
  <2>1. x \in kept /\ y \in kept /\ x \in DOMAIN t
    BY <1>3, <1>6
  <2>2. p # Empty /\ p[1] = t[x]
    <3>1. 1 \in 1 .. y - x + 1 /\ x + 1 - 1 = x
      BY <1>3, <1>6
    <3>2. 1 \in DOMAIN p /\ p[1] = t[x]
      BY <1>3, <3>1
    <3>3. QED
      BY <3>2 DEF Empty
  <2>3. ASSUME \A i \in kept : kept = {i} /\ t[i] \in {"local", "stg", "uat", "prd"}
        PROVE  p \in Environments
    <3>1. y = x /\ t[x] \in {"local", "stg", "uat", "prd"}
      BY <2>1, <2>3
    <3>2. Len(p) = 1
      BY <1>1, <1>3, <3>1
    <3>3. p = <<p[1]>>
      BY <1>1, <3>2
    <3>4. QED
      BY <2>2, <3>1, <3>3 DEF Environments
  <2>4. ASSUME p \in Environments
        PROVE  \A i \in kept : kept = {i} /\ t[i] \in {"local", "stg", "uat", "prd"}
    <3>1. Len(p) = 1 /\ p[1] \in {"local", "stg", "uat", "prd"}
      BY <2>4 DEF Environments
    <3>2. x = y
      <4>1. 2 \notin DOMAIN p
        BY <1>1, <3>1
      <4>2. x < y => 2 \in 1 .. y - x + 1
        OBVIOUS
      <4>3. QED
        BY <1>3, <1>6, <4>1, <4>2
    <3>3. kept = {x}
      BY <1>3, <2>1, <3>2
    <3>4. QED
      BY <2>2, <3>1, <3>3
  <2>5. QED
    BY <1>4, <2>2, <2>3, <2>4
<1>7. QED
  BY <1>5, <1>6

\* A text is a number to YAML when it holds one, that number, or nothing.
LEMMA NumbersAreHeld ==
  ASSUME NEW S, NEW t \in Seq(S), NEW style
  PROVE  /\ IsNumber(style, t) <=> style = "plain" /\ HoldsNumber(t)
         /\ IsNumber(style, t) =>
              \/ \E w \in DOMAIN Numeral : Only(t, w, {Blank}) /\ Number(t) = Numeral[w]
              \/ IsBlank(t) /\ Number(t) = 0
<1> DEFINE bare == TrimSpace(t)
<1>1. /\ bare \in Seq(S)
      /\ bare = Empty <=> IsBlank(t)
  <2>1. IsBlank(t) <=> Range(t) \subseteq {Blank}
    BY DEF IsBlank, Range
  <2>2. QED
    BY <2>1, TrimKeeps DEF TrimSpace
<1>2. \A w \in DOMAIN Numeral : bare = <<w>> <=> Only(t, w, {Blank})
  BY NumeralAssumption, SpaceTrimmed DEF Alone
<1>3. Number(t) = IF bare = Empty THEN 0 ELSE Numeral[bare[1]]
  BY DEF Number
<1>4. IsNumber(style, t) <=>
        style = "plain" /\ (bare = Empty \/ (Len(bare) = 1 /\ bare[1] \in DOMAIN Numeral))
  BY DEF IsNumber
<1> HIDE DEF bare
<1>5. Len(bare) = 1 => bare = <<bare[1]>>
  BY <1>1
<1>6. \A w : bare = <<w>> => Len(bare) = 1 /\ bare[1] = w /\ bare # Empty
  BY DEF Empty
<1>7. IsNumber(style, t) <=> style = "plain" /\ HoldsNumber(t)
  BY <1>1, <1>2, <1>4, <1>5, <1>6 DEF HoldsNumber
<1>8. ASSUME IsNumber(style, t)
      PROVE  \/ \E w \in DOMAIN Numeral : Only(t, w, {Blank}) /\ Number(t) = Numeral[w]
             \/ IsBlank(t) /\ Number(t) = 0
  <2>1. CASE bare = Empty
    BY <1>1, <1>3, <2>1
  <2>2. CASE Len(bare) = 1 /\ bare[1] \in DOMAIN Numeral
    <3>1. bare # Empty /\ Only(t, bare[1], {Blank})
      BY <1>2, <1>5, <1>6, <2>2
    <3>2. QED
      BY <1>3, <2>2, <3>1
  <2>3. QED
    BY <1>4, <1>8, <2>1, <2>2
<1>9. QED
  BY <1>7, <1>8

\* What YAML reads off a file, and what applyDefaults makes of it.
Made(file, env) ==
  LET value == Says(file, env)
  IN ApplyDefaults(
       [ text    |-> [k \in Texts |-> Scalar(file.style[k], value[k])],
         number  |-> [k \in Numbers |-> Number(value[k])],
         origins |-> StringList(file.origins, env) ])

LEMMA LoadMakes ==
  ASSUME NEW file, NEW env
  PROVE  Load(file, env) = IF Parses(file, Says(file, env), env) /\ Valid(Made(file, env))
                           THEN Made(file, env) ELSE Refused
  BY DEF Load, Made, Says

LEMMA MadeSettings ==
  ASSUME NEW file, NEW env, NEW says, says = Says(file, env), NEW made, made = Made(file, env)
  PROVE  /\ made # Refused
         /\ made.text["AppName"] = Scalar(file.style["AppName"], says["AppName"])
         /\ made.text["RedisHost"] = Scalar(file.style["RedisHost"], says["RedisHost"])
         /\ LET scalar == Scalar(file.style["Environment"], says["Environment"])
            IN made.text["Environment"] = IF scalar = Empty THEN <<"local">> ELSE scalar
         /\ made.text["LiAt"] = TrimSpace(Scalar(file.style["LiAt"], says["LiAt"]))
         /\ made.text["JSessionID"] =
              Bare(Scalar(file.style["JSessionID"], says["JSessionID"]))
         /\ made.number["DailyScrapeBudget"] = Number(says["DailyScrapeBudget"])
<1> DEFINE text == [k \in Texts |-> Scalar(file.style[k], says[k])]
           number == [k \in Numbers |-> Number(says[k])]
           origins == StringList(file.origins, env)
           read == [text |-> text, number |-> number, origins |-> origins]
           settled == [k \in Texts |->
                         CASE k \in DOMAIN DefaultText /\ text[k] = Empty -> DefaultText[k]
                           [] k = "JSessionID" -> Trim(TrimSpace(text[k]), {Quote})
                           [] k = "LiAt" -> TrimSpace(text[k])
                           [] OTHER -> text[k]]
           counted == [k \in Numbers |-> IF k \in DOMAIN DefaultNumber /\ number[k] = 0
                                         THEN DefaultNumber[k] ELSE number[k]]
<1>1. made = ApplyDefaults(read)
  BY DEF Made
<1> HIDE DEF text, number, origins
<1>2. made.text = settled
  BY <1>1 DEF ApplyDefaults
<1>3. made.number = counted
  BY <1>1 DEF ApplyDefaults
<1>4. made # Refused
  <2>1. DOMAIN made = {"text", "number", "origins"}
    BY <1>1 DEF ApplyDefaults
  <2>2. "text" \in DOMAIN made /\ "text" \notin DOMAIN Refused
    BY <2>1 DEF Refused
  <2>3. QED
    BY <2>2
<1> HIDE DEF settled, counted
<1>5. DOMAIN DefaultText = {"Environment", "UserAgent"} /\ DefaultText["Environment"] = <<"local">>
  BY DEF DefaultText
<1>6. /\ settled["AppName"] = text["AppName"]
      /\ settled["RedisHost"] = text["RedisHost"]
      /\ settled["LiAt"] = TrimSpace(text["LiAt"])
      /\ settled["JSessionID"] = Bare(text["JSessionID"])
  BY <1>5 DEF settled, Texts, Bare
<1>7. settled["Environment"] = IF text["Environment"] = Empty THEN <<"local">>
                               ELSE text["Environment"]
  BY <1>5 DEF settled, Texts
<1>8. counted["DailyScrapeBudget"] = number["DailyScrapeBudget"]
  BY DEF counted, Numbers, DefaultNumber
<1>9. /\ \A k \in Texts : text[k] = Scalar(file.style[k], says[k])
      /\ \A k \in Numbers : number[k] = Number(says[k])
  BY DEF text, number
<1>10. QED
  BY <1>2, <1>3, <1>4, <1>6, <1>7, <1>8, <1>9 DEF Texts, Numbers

\* Every text of a deployment is one, in one of the styles.
LEMMA SaysTexts ==
  ASSUME NEW d, IsDeployment(d), NEW k \in Texts \cup Numbers
  PROVE  /\ Says(d.file, d.env)[k] \in Seq(ToSet(Says(d.file, d.env)[k]))
         /\ d.file.style[k] \in {"double", "single", "plain"}
  BY DEF IsDeployment, IsText, Says

\* What YAML reads and validate lets pass has no fault, and is not quoted twice.
LEMMA FaultsAreRefused ==
  ASSUME NEW d, IsDeployment(d)
  PROVE  Load(d.file, d.env) = Refused <=> Faulty(d.file, d.env) \/ QuotedTwice(d.file, d.env)
<1> DEFINE file == d.file
           env == d.env
           says == Says(file, env)
           made == Made(file, env)
           list == file.origins
           text(n) == ExpandEnv(list.items[n], env)
           lacking == \E k \in {"AppName", "RedisHost"} : ~Stands(file.style[k], says[k])
           lost == ~NamesEnvironment(file.style["Environment"], says["Environment"])
           uncounted == \E k \in Numbers : file.style[k] # "plain" \/ ~HoldsNumber(says[k])
           broken == \E k \in Texts : Broken(file.style[k], says[k])
           unlisted == \/ list.kind \notin {"list", "scalar"}
                       \/ \E n \in DOMAIN list.items : Broken(list.style, text(n))
<1>1. /\ \A k \in Texts \cup Numbers :
           says[k] \in Seq(ToSet(says[k])) /\ file.style[k] \in {"double", "single", "plain"}
      /\ list.style \in {"double", "single", "plain"}
      /\ \A n \in DOMAIN list.items : text(n) \in Seq(ToSet(text(n)))
  BY SaysTexts DEF IsDeployment, IsText
<1>2. Load(file, env) = Refused <=> ~Parses(file, says, env) \/ ~Valid(made)
  <2>1. made # Refused
    BY MadeSettings
  <2>2. QED
    BY <2>1, LoadMakes
<1>3. /\ made.text["AppName"] = Scalar(file.style["AppName"], says["AppName"])
      /\ made.text["RedisHost"] = Scalar(file.style["RedisHost"], says["RedisHost"])
      /\ LET scalar == Scalar(file.style["Environment"], says["Environment"])
         IN made.text["Environment"] = IF scalar = Empty THEN <<"local">> ELSE scalar
  BY MadeSettings
<1>4. Faulty(file, env) \/ QuotedTwice(file, env)
        <=> lacking \/ lost \/ uncounted \/ broken \/ unlisted
  <2>1. QuotedTwice(file, env) =>
          "JSessionID" \in Texts /\ Broken(file.style["JSessionID"], says["JSessionID"])
    BY DEF QuotedTwice, Broken, Says, Texts
  <2> DEFINE twice == QuotedTwice(file, env)
             other == \E k \in Texts : /\ Broken(file.style[k], says[k])
                                       /\ ~(k = "JSessionID" /\ twice)
  <2>2. Faulty(file, env) <=> lacking \/ lost \/ uncounted \/ other \/ unlisted
    BY DEF Faulty
  <2>3. other \/ twice <=> broken
    <3> HIDE DEF twice
    <3>1. QED
      BY <2>1 DEF twice
  <2> HIDE DEF twice, other, lacking, lost, uncounted, broken, unlisted
  <2>4. QED
    BY <2>2, <2>3 DEF twice
<1> SUFFICES ~Parses(file, says, env) \/ ~Valid(made)
               <=> lacking \/ lost \/ uncounted \/ broken \/ unlisted
  BY <1>2, <1>4
<1> HIDE DEF file, env, says, made
<1>5. Parses(file, says, env) <=> ~broken /\ ~uncounted /\ ~unlisted
  <2>1. (\A k \in Texts : WellFormed(file.style[k], says[k])) <=> ~broken
    BY <1>1, BrokenIsRefused
  <2>2. (\A k \in Numbers : IsNumber(file.style[k], says[k])) <=> ~uncounted
    BY <1>1, NumbersAreHeld
  <2>3. OriginsAreRead(list, env) <=> ~unlisted
    <3>1. \A n \in DOMAIN list.items :
            WellFormed(list.style, text(n)) <=> ~Broken(list.style, text(n))
      BY <1>1, BrokenIsRefused
    <3> HIDE DEF list
    <3>2. QED
      BY <3>1 DEF OriginsAreRead
  <2>4. Parses(file, says, env) <=>
          /\ \A k \in Texts : WellFormed(file.style[k], says[k])
          /\ \A k \in Numbers : IsNumber(file.style[k], says[k])
          /\ OriginsAreRead(list, env)
    BY DEF Parses
  <2> HIDE DEF broken, uncounted, unlisted
  <2>5. QED
    BY <2>1, <2>2, <2>3, <2>4
<1>6. ~broken => (Valid(made) <=> ~lacking /\ ~lost)
  <2>1. SUFFICES ASSUME ~broken PROVE Valid(made) <=> ~lacking /\ ~lost
    OBVIOUS
  <2>2. \A k \in Texts : WellFormed(file.style[k], says[k])
    BY <1>1, <2>1, BrokenIsRefused
  <2>3. {"AppName", "RedisHost", "Environment"} \subseteq Texts
    BY DEF Texts
  <2>4. \A k \in Texts :
          TrimSpace(Scalar(file.style[k], says[k])) # Empty <=> Stands(file.style[k], says[k])
    BY <1>1, <2>2, ScalarStands
  <2>5. ~lacking <=>
          TrimSpace(made.text["AppName"]) # Empty /\ TrimSpace(made.text["RedisHost"]) # Empty
    BY <1>3, <2>3, <2>4
  <2>6. made.text["Environment"] \in Environments <=> ~lost
    <3> DEFINE style == file.style["Environment"]
               t == says["Environment"]
               scalar == Scalar(style, t)
    <3>1. /\ t \in Seq(ToSet(t)) /\ style \in {"double", "single", "plain"}
          /\ WellFormed(style, t)
      BY <1>1, <2>2, <2>3
    <3>2. made.text["Environment"] = IF scalar = Empty THEN <<"local">> ELSE scalar
      BY <1>3
    <3>3. <<"local">> \in Environments /\ lost <=> ~NamesEnvironment(style, t)
      BY DEF Environments
    <3> HIDE DEF t, style, lost
    <3>4. NamesEnvironment(style, t) <=> scalar = Empty \/ scalar \in Environments
      BY <3>1, EnvironmentIsNamed
    <3> HIDE DEF scalar
    <3>5. <<"local">> \in Environments
      BY DEF Environments
    <3>6. QED
      BY <3>2, <3>3, <3>4, <3>5
  <2> HIDE DEF lacking, lost
  <2>7. QED
    BY <2>5, <2>6 DEF Valid
<1> HIDE DEF lacking, lost, uncounted, broken, unlisted
<1>7. QED
  BY <1>5, <1>6

\* The same of TrimSpace.
LEMMA SpaceKeeps ==
  ASSUME NEW S, NEW t \in Seq(S)
  PROVE  /\ TrimSpace(t) \in Seq(S)
         /\ Range(TrimSpace(t)) \subseteq Range(t)
         /\ Range(t) \ {Blank} \subseteq Range(TrimSpace(t))
         /\ TrimSpace(t) = Empty <=> Range(t) \subseteq {Blank}
  BY TrimKeeps DEF TrimSpace

\* What both cookies come to in a process that runs.
LEMMA CookiesAreRead ==
  ASSUME NEW S, NEW t \in Seq(S), NEW style \in {"double", "single", "plain"},
         WellFormed(style, t),
         NEW js, js = Bare(Scalar(style, t))
  PROVE  /\ TrimSpace(TrimSpace(Scalar(style, t))) # Empty <=> Stands(style, t)
         /\ TrimSpace(js) # Empty => Stands(style, t)
         /\ Range(t) \ {Blank, Quote} # {} => TrimSpace(js) # Empty
         /\ \A w \in Range(t) \ {Blank, Quote} : IsPasted(t, w) => js = <<w>>
<1> DEFINE p == Scalar(style, t)
           li == TrimSpace(p)
<1>1. /\ p \in Seq(S)
      /\ Range(t) \ Ignored(style, t) \subseteq Range(p)
      /\ TrimSpace(p) # Empty <=> Stands(style, t)
  BY ScalarKeeps, ScalarStands
<1>2. Ignored(style, t) \subseteq {Blank, Quote}
  BY DEF Ignored
<1>3. \A w \in Range(t) \ {Blank, Quote} : IsPasted(t, w) => IsPasted(p, w)
  BY PastedScalar
<1>4. li = TrimSpace(p) /\ js = Trim(li, {Quote}) /\ js = Bare(p)
  BY DEF Bare
<1>5. TrimSpace(TrimSpace(Scalar(style, t))) = TrimSpace(li)
  OBVIOUS
<1> HIDE DEF p, li
<1>6. /\ TrimSpace(p) = Empty <=> Range(p) \subseteq {Blank}
      /\ li \in Seq(S) /\ Range(li) \subseteq Range(p) /\ Range(p) \ {Blank} \subseteq Range(li)
  BY <1>1, <1>4, SpaceKeeps
<1>7. TrimSpace(li) = Empty <=> Range(li) \subseteq {Blank}
  BY <1>6, SpaceKeeps
<1>8. /\ js \in Seq(S) /\ Range(js) \subseteq Range(li) /\ Range(li) \ {Quote} \subseteq Range(js)
  <2> DEFINE quotes == {Quote}
  <2>1. js = Trim(li, quotes)
    BY <1>4
  <2> HIDE DEF quotes
  <2>2. li \in Seq(S)
    BY <1>6
  <2>3. /\ Trim(li, quotes) \in Seq(S)
        /\ Range(Trim(li, quotes)) \subseteq Range(li)
        /\ Range(li) \ quotes \subseteq Range(Trim(li, quotes))
    BY <2>2, TrimKeeps
  <2>4. QED
    BY <2>1, <2>3 DEF quotes
<1>9. TrimSpace(js) = Empty <=> Range(js) \subseteq {Blank}
  BY <1>8, SpaceKeeps
<1>10. TrimSpace(li) # Empty <=> Stands(style, t)
  BY <1>1, <1>6, <1>7
<1>11. TrimSpace(js) # Empty => Stands(style, t)
  BY <1>1, <1>6, <1>8, <1>9
<1>12. Range(t) \ {Blank, Quote} # {} => TrimSpace(js) # Empty
  BY <1>1, <1>2, <1>6, <1>8, <1>9
<1>13. \A w \in Range(t) \ {Blank, Quote} : IsPasted(t, w) => js = <<w>>
  BY <1>1, <1>3, <1>4, PastedToOne
<1>14. QED
  BY <1>5, <1>10, <1>11, <1>12, <1>13

\* What is not refused runs with what its texts say.
LEMMA RunsWithWhatItSays ==
  ASSUME NEW d, IsDeployment(d), NEW config, config = Load(d.file, d.env), config # Refused
  PROVE  RunsAsGiven(d.file, d.env, config)
<1> DEFINE file == d.file
           env == d.env
           says == Says(file, env)
           stands(k) == Stands(file.style[k], says[k])
           cookie == Range(says["JSessionID"]) \ {Blank, Quote}
<1> SUFFICES RunsAsGiven(file, env, config)
  OBVIOUS
<1>1. \A k \in Texts \cup Numbers :
        says[k] \in Seq(ToSet(says[k])) /\ file.style[k] \in {"double", "single", "plain"}
  BY SaysTexts
<1>2. config = Made(file, env) /\ Parses(file, says, env) /\ Valid(config)
  BY LoadMakes
<1>3. /\ \A k \in Texts : WellFormed(file.style[k], says[k])
      /\ \A k \in Numbers : IsNumber(file.style[k], says[k])
  BY <1>2 DEF Parses
<1>4. /\ {"LiAt", "JSessionID"} \subseteq Texts
      /\ "DailyScrapeBudget" \in Numbers
  BY DEF Texts, Numbers
<1>5. says = Says(file, env)
  OBVIOUS
<1> HIDE DEF file, env, says
<1>6. /\ config.text["LiAt"] = TrimSpace(Scalar(file.style["LiAt"], says["LiAt"]))
      /\ config.text["JSessionID"] =
           Bare(Scalar(file.style["JSessionID"], says["JSessionID"]))
      /\ config.number["DailyScrapeBudget"] = Number(says["DailyScrapeBudget"])
  BY <1>2, <1>5, MadeSettings
<1>7. \/ \E w \in DOMAIN Numeral :
           /\ Only(says["DailyScrapeBudget"], w, {Blank})
           /\ config.number["DailyScrapeBudget"] = Numeral[w]
      \/ LosesCeiling(says) /\ config.number["DailyScrapeBudget"] = 0
  BY <1>1, <1>3, <1>4, <1>6, NumbersAreHeld DEF LosesCeiling
<1>13. TrimSpace(config.text["LiAt"]) # Empty <=> stands("LiAt")
  <2> DEFINE style == file.style["LiAt"]
             t == says["LiAt"]
             value == config.text["LiAt"]
  <2>1. /\ t \in Seq(ToSet(t)) /\ style \in {"double", "single", "plain"}
        /\ WellFormed(style, t) /\ value = TrimSpace(Scalar(style, t))
    BY <1>1, <1>6, <1>3, <1>4
  <2> HIDE DEF style, t, value
  <2>2. TrimSpace(value) # Empty <=> Stands(style, t)
    BY <2>1, CookiesAreRead
  <2>3. QED
    BY <2>2 DEF style, t, value
<1>14. /\ TrimSpace(config.text["JSessionID"]) # Empty => stands("JSessionID")
       /\ cookie # {} => TrimSpace(config.text["JSessionID"]) # Empty
       /\ \A w \in cookie : IsPasted(says["JSessionID"], w) => config.text["JSessionID"] = <<w>>
  <2> DEFINE style == file.style["JSessionID"]
             t == says["JSessionID"]
             value == config.text["JSessionID"]
  <2>1. /\ t \in Seq(ToSet(t)) /\ style \in {"double", "single", "plain"}
        /\ WellFormed(style, t) /\ value = Bare(Scalar(style, t))
    BY <1>1, <1>6, <1>3, <1>4
  <2> HIDE DEF style, t, value
  <2>2. /\ TrimSpace(value) # Empty => Stands(style, t)
        /\ Range(t) \ {Blank, Quote} # {} => TrimSpace(value) # Empty
        /\ \A w \in Range(t) \ {Blank, Quote} : IsPasted(t, w) => value = <<w>>
    BY <2>1, CookiesAreRead
  <2>3. QED
    BY <2>2 DEF style, t, value
<1>15. /\ Configured(config) => stands("LiAt") /\ stands("JSessionID")
       /\ stands("LiAt") /\ cookie # {} => Configured(config)
  BY <1>13, <1>14 DEF Configured
<1> HIDE DEF stands, cookie
<1>16. QED
  BY <1>7, <1>14, <1>15 DEF RunsAsGiven, says, stands, cookie

\* A process refuses exactly what is at fault, the cookie that is quoted twice beside,
\* and runs with what the rest says.
THEOREM SettingsAreRight == Spec => []SettingsAsGiven
<1>1. IInv => SettingsAsGiven
  <2>1. SUFFICES ASSUME IInv PROVE SettingsAsGiven
    OBVIOUS
  <2>2. IsDeployment(given)
    BY <2>1, GivensAssumption DEF IInv, RequestInv, TypeOK
  <2>3. phase = "refused" => Load(given.file, given.env) = Refused
    BY <2>1 DEF IInv, HeadersOK
  <2>4. phase = "up" => cfg = Load(given.file, given.env) /\ cfg # Refused
    BY <2>1 DEF IInv, RequestInv, TypeOK, HeadersOK
  <2>5. phase = "up" => RunsAsGiven(given.file, given.env, cfg)
    BY <2>2, <2>4, RunsWithWhatItSays
  <2>6. Load(given.file, given.env) = Refused <=>
          Faulty(given.file, given.env) \/ QuotedTwice(given.file, given.env)
    BY <2>2, FaultsAreRefused
  <2>7. QED
    BY <2>3, <2>4, <2>5, <2>6 DEF SettingsAsGiven
<1>2. QED
  BY <1>1, Inductive, PTL
=============================================================================
