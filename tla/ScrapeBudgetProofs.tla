------------------------- MODULE ScrapeBudgetProofs -------------------------
(***************************************************************************)
(* Proofs about ScrapeBudget, for every set of calls, every budget and     *)
(* every combination of faults.  The inductive invariant IInv is preserved *)
(* because only an answered INCR changes which calls have drawn a value;   *)
(* every other step leaves Drawn and Refused as they were.                 *)
(***************************************************************************)
EXTENDS ScrapeBudget, FiniteSetTheorems, FunctionTheorems, TLAPS

LEMMA DrawnFinite ==
  \A b : /\ IsFiniteSet(Drawn(b))
         /\ IsFiniteSet(Refused(b))
         /\ IsFiniteSet(Admitted(b))
         /\ Cardinality(Admitted(b)) \in Nat
<1> TAKE b
<1>1. Drawn(b) \subseteq Requests /\ Refused(b) \subseteq Requests /\ Admitted(b) \subseteq Requests
  BY DEF Drawn, Refused, Admitted
<1>2. IsFiniteSet(Drawn(b)) /\ IsFiniteSet(Refused(b)) /\ IsFiniteSet(Admitted(b))
  BY <1>1, RequestsAssumption, FS_Subset
<1> QED
  BY <1>2, FS_CardinalityType

\* A call that has drawn nothing belongs to no book; one that has, to its own.
LEMMA DrawnBook ==
  ASSUME TypeOK
  PROVE  /\ \A b \in Books : b = <<b[1], b[2]>> /\ b[1] \in Days /\ b[2] \in Lives
         /\ \A d \in Days, l \in Lives : <<d, l>> \in Books
         /\ \A r \in Requests : <<keyDay[r], life[r]>> \in Books
         /\ \A b, r : r \in Drawn(b) <=>
              /\ r \in Requests
              /\ used[r] > 0
              /\ <<keyDay[r], life[r]>> = b
  BY DEF TypeOK, Books, Drawn

LEMMA InitIInv == Init => IInv
<1> SUFFICES ASSUME Init PROVE IInv
  OBVIOUS
<1> USE BoundsAssumption
<1>1. TypeOK
  BY DEF Init, TypeOK, Days, Lives, NoExpiry
<1>2. \A b \in Books : Drawn(b) = {} /\ Refused(b) = {} /\ Admitted(b) = {}
  BY DEF Init, Drawn, Refused, Admitted
<1>3. ClockOK /\ LifetimeOK /\ CallOK /\ CounterCoversTickets
  BY DEF Init, ClockOK, LifetimeOK, CallOK, CounterCoversTickets, InFlight, Days
<1>4. TicketsDistinct /\ RefusalJustified
  BY <1>2 DEF TicketsDistinct, RefusalJustified
<1>5. UnitsAccountedFor
  <2> SUFFICES ASSUME NEW d \in Days
               PROVE  counter[d] <= Cardinality(Admitted(<<d, restarts>>)) + orphans[<<d, restarts>>]
    BY DEF UnitsAccountedFor
  <2>1. <<d, restarts>> \in Books /\ counter[d] = 0 /\ orphans[<<d, restarts>>] = 0
    BY DEF Init, Books, Lives
  <2> QED
    BY <2>1, <1>2, FS_EmptySet
<1> QED
  BY <1>1, <1>3, <1>4, <1>5 DEF IInv

-----------------------------------------------------------------------------
(* Type correctness of each step.                                          *)

LEMMA TypeStep ==
  ASSUME TypeOK, [Next]_vars
  PROVE  TypeOK'
<1> USE DEF TypeOK, redisVars, callVars
<1>1. ASSUME NEW r \in Requests, Begin(r) PROVE TypeOK'
  BY <1>1 DEF Begin
<1>2. ASSUME NEW r \in Requests, Incr(r) PROVE TypeOK'
  <2>1. keyDay[r] \in Days /\ NextValue(keyDay[r]) \in Nat
    BY DEF NextValue
  <2>2. Verdict(NextValue(keyDay[r])) \in {"allowed", "denied"}
    BY DEF Verdict
  <2>3. pc' \in [Requests -> {"idle", "incr", "expire", "allowed", "denied", "lost"}]
    BY <1>2, <2>2 DEF Incr
  <2>4. used' \in [Requests -> Nat] /\ counter' \in [Days -> Nat] /\ life' \in [Requests -> Lives]
    BY <1>2, <2>1 DEF Incr
  <2> QED
    BY <1>2, <2>3, <2>4 DEF Incr
<1>3. ASSUME NEW r \in Requests, LoseReply(r) PROVE TypeOK'
  <2>1. <<keyDay[r], restarts>> \in Books
    BY DEF Books
  <2>2. orphans' \in [Books -> Nat] /\ counter' \in [Days -> Nat]
    BY <1>3, <2>1 DEF LoseReply
  <2>3. attempts' \in [Requests -> 0 .. MaxAttempts]
    BY <1>3, BoundsAssumption DEF LoseReply
  <2> QED
    BY <1>3, <2>2, <2>3 DEF LoseReply
<1>4. ASSUME NEW r \in Requests, IncrFails(r) PROVE TypeOK'
  BY <1>4 DEF IncrFails
<1>5. ASSUME NEW r \in Requests, Expire(r) PROVE TypeOK'
  BY <1>5 DEF Expire, ExpireKey, KeyLifetime, Verdict, Days
<1>6. ASSUME NEW r \in Requests, ExpireFails(r) PROVE TypeOK'
  BY <1>6 DEF ExpireFails, Verdict
<1>7. ASSUME NEW d \in Days, DropKey(d) PROVE TypeOK'
  BY <1>7 DEF DropKey, NoExpiry
<1>8. CASE NextDay
  BY <1>8, BoundsAssumption DEF NextDay, Days
<1>9. CASE RedisRestart
  BY <1>9, BoundsAssumption DEF RedisRestart, NoExpiry, Lives
<1>10. CASE Crash
  BY <1>10 DEF Crash
<1>11. CASE UNCHANGED vars
  BY <1>11 DEF vars
<1> QED
  BY <1>1, <1>2, <1>3, <1>4, <1>5, <1>6, <1>7, <1>8, <1>9, <1>10, <1>11
     DEF Next, Step, Environment

\* ScrapeBudget is type correct.
THEOREM TypeCorrect == Spec => []TypeOK
<1>1. Init => TypeOK
  BY InitIInv DEF IInv
<1>2. TypeOK /\ [Next]_vars => TypeOK'
  BY TypeStep
<1> QED
  BY <1>1, <1>2, PTL DEF Spec

-----------------------------------------------------------------------------
(* The books change only at an answered INCR.                              *)

LEMMA BooksKept ==
  ASSUME used' = used, life' = life,
         \A r \in Requests : used[r] > 0 =>
           /\ keyDay'[r] = keyDay[r]
           /\ pc'[r] = "denied" <=> pc[r] = "denied"
  PROVE  /\ \A b : Drawn(b)' = Drawn(b)
         /\ \A b : Refused(b)' = Refused(b)
         /\ \A b : Admitted(b)' = Admitted(b)
<1>1. \A b : Drawn(b)' = Drawn(b)
  BY DEF Drawn
<1>2. \A b : Refused(b)' = Refused(b)
  BY <1>1 DEF Refused, Drawn
<1> QED
  BY <1>1, <1>2 DEF Admitted

\* The conjuncts of IInv that speak of the books survive a step that keeps the
\* books and takes nothing off an orphan count.
LEMMA BooksKeptInv ==
  ASSUME TypeOK, TypeOK', TicketsDistinct, RefusalJustified,
         used' = used, life' = life,
         \A r \in Requests : used[r] > 0 =>
           /\ keyDay'[r] = keyDay[r]
           /\ pc'[r] = "denied" <=> pc[r] = "denied",
         \A b \in Books : orphans'[b] >= orphans[b]
  PROVE  TicketsDistinct' /\ RefusalJustified'
<1>1. \A b : Drawn(b)' = Drawn(b) /\ Refused(b)' = Refused(b) /\ Admitted(b)' = Admitted(b)
  BY BooksKept
<1>2. TicketsDistinct'
  BY <1>1 DEF TicketsDistinct
<1>3. RefusalJustified'
  <2> SUFFICES ASSUME NEW b \in Books, Refused(b)' # {}
               PROVE  Cardinality(Admitted(b))' + orphans'[b] >= Budget
    BY DEF RefusalJustified
  <2>1. Cardinality(Admitted(b)) + orphans[b] >= Budget
    BY <1>1 DEF RefusalJustified
  <2>2. Cardinality(Admitted(b))' = Cardinality(Admitted(b)) /\ Cardinality(Admitted(b)) \in Nat
    BY <1>1, DrawnFinite
  <2>3. orphans[b] \in Nat /\ orphans'[b] \in Nat /\ orphans'[b] >= orphans[b]
    BY DEF TypeOK
  <2> QED
    BY <2>1, <2>2, <2>3, BudgetAssumption
<1> QED
  BY <1>2, <1>3

\* ... and so does the account of the units, when the counters only shrink.
LEMMA UnitsKept ==
  ASSUME TypeOK, TypeOK', UnitsAccountedFor,
         used' = used, life' = life, restarts' = restarts, orphans' = orphans,
         \A r \in Requests : used[r] > 0 =>
           /\ keyDay'[r] = keyDay[r]
           /\ pc'[r] = "denied" <=> pc[r] = "denied",
         \A d \in Days : counter'[d] <= counter[d]
  PROVE  UnitsAccountedFor'
<1> SUFFICES ASSUME NEW d \in Days
             PROVE  LET spent == Cardinality(Admitted(<<d, restarts>>)') + orphans[<<d, restarts>>]
                    IN  counter'[d] <= spent \/ Budget <= spent
  BY DEF UnitsAccountedFor
<1>1. Admitted(<<d, restarts>>)' = Admitted(<<d, restarts>>)
  BY BooksKept
<1>2. <<d, restarts>> \in Books
  BY DEF TypeOK, Books
<1>3. /\ Cardinality(Admitted(<<d, restarts>>)) \in Nat
      /\ orphans[<<d, restarts>>] \in Nat
      /\ counter[d] \in Nat /\ counter'[d] \in Nat /\ counter'[d] <= counter[d]
  BY <1>2, DrawnFinite DEF TypeOK
<1> QED
  BY <1>1, <1>3, BudgetAssumption DEF UnitsAccountedFor

-----------------------------------------------------------------------------
(* Each action preserves the inductive invariant.                          *)

LEMMA BeginStep ==
  ASSUME IInv, TypeOK', NEW r \in Requests, Begin(r)
  PROVE  IInv'
<1> USE DEF IInv
<1>1. used[r] = 0
  BY DEF Begin, CallOK
<1>2. \A s \in Requests : used[s] > 0 =>
        /\ keyDay'[s] = keyDay[s]
        /\ pc'[s] = "denied" <=> pc[s] = "denied"
  BY <1>1 DEF Begin, TypeOK
<1>3. used' = used /\ life' = life /\ orphans' = orphans /\ counter' = counter
      /\ expiresOn' = expiresOn /\ restarts' = restarts /\ today' = today
  BY DEF Begin, redisVars
<1>4. ClockOK'
  BY <1>3 DEF Begin, ClockOK, InFlight, TypeOK, Days
<1>5. LifetimeOK'
  BY <1>3 DEF LifetimeOK
<1>6. CallOK'
  BY <1>1, <1>3, BudgetAssumption DEF Begin, CallOK, TypeOK
<1>7. CounterCoversTickets'
  BY <1>1, <1>2, <1>3 DEF CounterCoversTickets
<1>8. TicketsDistinct' /\ RefusalJustified'
  BY <1>2, <1>3, BooksKeptInv DEF TypeOK
<1>9. UnitsAccountedFor'
  BY <1>2, <1>3, UnitsKept DEF TypeOK
<1> QED
  BY <1>4, <1>5, <1>6, <1>7, <1>8, <1>9

\* The steps of a call that draw nothing: only pc and perhaps a lifetime change.
LEMMA QuietStep ==
  ASSUME IInv, TypeOK', NEW r \in Requests,
         IncrFails(r) \/ Expire(r) \/ ExpireFails(r)
  PROVE  IInv'
<1> USE DEF IInv
<1>1. /\ used' = used /\ life' = life /\ orphans' = orphans /\ counter' = counter
      /\ keyDay' = keyDay /\ restarts' = restarts /\ today' = today
  BY DEF IncrFails, Expire, ExpireFails, redisVars
<1>2. \A s \in Requests : s # r => pc'[s] = pc[s]
  BY DEF IncrFails, Expire, ExpireFails, TypeOK
<1>3. pc[r] \in {"incr", "expire"} /\ pc'[r] = "allowed"
  <2>1. CASE IncrFails(r)
    BY <2>1 DEF IncrFails, TypeOK
  <2>2. CASE Expire(r) \/ ExpireFails(r)
    <3>1. pc[r] = "expire" /\ pc'[r] = Verdict(used[r])
      BY <2>2 DEF Expire, ExpireFails, TypeOK
    <3>2. used[r] = 1 /\ Budget > 0
      BY <3>1 DEF CallOK
    <3> QED
      BY <3>1, <3>2, BudgetAssumption DEF Verdict
  <2> QED
    BY <2>1, <2>2
<1>4. \A s \in Requests : used[s] > 0 =>
        /\ keyDay'[s] = keyDay[s]
        /\ pc'[s] = "denied" <=> pc[s] = "denied"
  BY <1>1, <1>2, <1>3
<1>5. ClockOK'
  BY <1>1, <1>2, <1>3 DEF ClockOK, InFlight
<1>6. LifetimeOK'
  <2>1. CASE Expire(r)
    <3>1. \A d \in Days : expiresOn'[d] = expiresOn[d]
            \/ (d = keyDay[r] /\ expiresOn'[d] = today + KeyLifetime)
      BY <2>1 DEF Expire, ExpireKey, TypeOK
    <3>2. keyDay[r] <= today /\ today \in Nat /\ keyDay[r] \in Nat
      BY DEF ClockOK, TypeOK, Days
    <3> QED
      BY <3>1, <3>2 DEF LifetimeOK, KeyLifetime
  <2>2. CASE IncrFails(r) \/ ExpireFails(r)
    BY <2>2 DEF IncrFails, ExpireFails, redisVars, LifetimeOK
  <2> QED
    BY <2>1, <2>2
<1>7. CallOK'
  <2>1. used[r] = 0 \/ used[r] <= Budget
    BY <1>3, BudgetAssumption DEF CallOK, TypeOK
  <2> QED
    BY <1>1, <1>2, <1>3, <2>1 DEF CallOK
<1>8. CounterCoversTickets'
  BY <1>1 DEF CounterCoversTickets
<1>9. TicketsDistinct' /\ RefusalJustified'
  BY <1>1, <1>4, BooksKeptInv DEF TypeOK
<1>10. UnitsAccountedFor'
  BY <1>1, <1>4, UnitsKept DEF TypeOK
<1> QED
  BY <1>5, <1>6, <1>7, <1>8, <1>9, <1>10

\* An orphaned increment: the counter and the orphan count both grow by one.
LEMMA LoseReplyStep ==
  ASSUME IInv, TypeOK', NEW r \in Requests, LoseReply(r)
  PROVE  IInv'
<1> USE DEF IInv
<1> DEFINE d == keyDay[r]
           b == <<d, restarts>>
<1>1. /\ used' = used /\ life' = life /\ keyDay' = keyDay /\ pc' = pc
      /\ expiresOn' = expiresOn /\ restarts' = restarts /\ today' = today
  BY DEF LoseReply
<1>2. d \in Days /\ b \in Books
  BY DEF TypeOK, Books
<1>3. counter'[d] = counter[d] + 1 /\ \A e \in Days : e # d => counter'[e] = counter[e]
  BY <1>2 DEF LoseReply, TypeOK
<1>4. orphans'[b] = orphans[b] + 1 /\ \A c \in Books : c # b => orphans'[c] = orphans[c]
  BY <1>2 DEF LoseReply, TypeOK
<1>5. \A c \in Books : orphans'[c] >= orphans[c]
  BY <1>4 DEF TypeOK
<1>6. ClockOK' /\ LifetimeOK' /\ CallOK'
  BY <1>1 DEF ClockOK, InFlight, LifetimeOK, CallOK
<1>7. CounterCoversTickets'
  <2>1. \A e \in Days : counter'[e] >= counter[e] /\ counter'[e] \in Nat /\ counter[e] \in Nat
    BY <1>2, <1>3 DEF TypeOK
  <2> QED
    BY <1>1, <2>1 DEF CounterCoversTickets, TypeOK
<1>8. TicketsDistinct' /\ RefusalJustified'
  BY <1>1, <1>5, BooksKeptInv
<1>9. UnitsAccountedFor'
  <2> SUFFICES ASSUME NEW e \in Days
               PROVE  LET spent == Cardinality(Admitted(<<e, restarts>>)') + orphans'[<<e, restarts>>]
                      IN  counter'[e] <= spent \/ Budget <= spent
    BY <1>1 DEF UnitsAccountedFor
  <2>1. Admitted(<<e, restarts>>)' = Admitted(<<e, restarts>>)
    BY <1>1, BooksKept
  <2>2. <<e, restarts>> \in Books /\ orphans[<<e, restarts>>] \in Nat /\ counter[e] \in Nat
        /\ Cardinality(Admitted(<<e, restarts>>)) \in Nat
    BY DrawnFinite DEF TypeOK, Books
  <2>3. LET spent == Cardinality(Admitted(<<e, restarts>>)) + orphans[<<e, restarts>>]
        IN  counter[e] <= spent \/ Budget <= spent
    BY DEF UnitsAccountedFor
  <2>4. CASE e = d
    BY <2>1, <2>2, <2>3, <2>4, <1>3, <1>4, BudgetAssumption
  <2>5. CASE e # d
    <3>1. <<e, restarts>> # b
      BY <2>5
    <3> QED
      BY <2>1, <2>2, <2>3, <2>5, <3>1, <1>3, <1>4, BudgetAssumption
  <2> QED
    BY <2>4, <2>5
<1> QED
  BY <1>6, <1>7, <1>8, <1>9

\* Redis drops a key no call can be charged to any more.
LEMMA DropKeyStep ==
  ASSUME IInv, TypeOK', NEW d \in Days, DropKey(d)
  PROVE  IInv'
<1> USE DEF IInv
<1>1. /\ used' = used /\ life' = life /\ keyDay' = keyDay /\ pc' = pc
      /\ orphans' = orphans /\ restarts' = restarts /\ today' = today
  BY DEF DropKey, callVars
<1>2. /\ \A e \in Days : e # d => counter'[e] = counter[e] /\ expiresOn'[e] = expiresOn[e]
      /\ counter'[d] = 0 /\ expiresOn'[d] = NoExpiry
  BY DEF DropKey, TypeOK
<1>3. today >= d + KeyLifetime
  <2>1. today >= expiresOn[d] /\ expiresOn[d] # NoExpiry
    BY DEF DropKey
  <2>2. expiresOn[d] >= d + KeyLifetime
    BY <2>1 DEF LifetimeOK
  <2>3. today \in Days /\ expiresOn[d] \in Nat
    BY DEF TypeOK
  <2>4. today \in Nat /\ d \in Nat
    BY <2>3 DEF Days
  <2> QED
    BY <2>1, <2>2, <2>3, <2>4 DEF KeyLifetime
<1>4. ClockOK' /\ CallOK'
  BY <1>1 DEF ClockOK, InFlight, CallOK
<1>8. LifetimeOK'
  BY <1>2 DEF LifetimeOK
<1>5. CounterCoversTickets'
  <2> SUFFICES ASSUME NEW r \in Requests, used[r] > 0, life[r] = restarts,
                      today < keyDay[r] + KeyLifetime
               PROVE  used[r] <= counter'[keyDay[r]]
    BY <1>1 DEF CounterCoversTickets
  <2>1. keyDay[r] \in Days /\ keyDay[r] # d
    BY <1>3 DEF TypeOK, Days, KeyLifetime
  <2> QED
    BY <2>1, <1>2 DEF CounterCoversTickets
<1>6. TicketsDistinct' /\ RefusalJustified'
  BY <1>1, BooksKeptInv DEF TypeOK
<1>7. UnitsAccountedFor'
  <2>1. \A e \in Days : counter'[e] <= counter[e]
    BY <1>2 DEF TypeOK
  <2> QED
    BY <1>1, <2>1, UnitsKept
<1> QED
  BY <1>4, <1>5, <1>6, <1>7, <1>8

LEMMA NextDayStep ==
  ASSUME IInv, TypeOK', NextDay
  PROVE  IInv'
<1> USE DEF IInv
<1>1. /\ used' = used /\ life' = life /\ keyDay' = keyDay /\ pc' = pc
      /\ orphans' = orphans /\ restarts' = restarts
      /\ counter' = counter /\ expiresOn' = expiresOn
      /\ today' = today + 1
  BY DEF NextDay, callVars, redisVars
<1>2. today \in Nat /\ \A r \in Requests : keyDay[r] \in Nat
  BY DEF TypeOK, Days
<1>3. ClockOK'
  <2> SUFFICES ASSUME NEW r \in Requests
               PROVE  /\ keyDay[r] <= today + 1
                      /\ life[r] <= restarts
                      /\ r \in InFlight => today + 1 <= keyDay[r] + 1
    BY <1>1 DEF ClockOK, InFlight
  <2>1. r \in InFlight => keyDay[r] = today
    BY DEF NextDay
  <2> QED
    BY <1>2, <2>1 DEF ClockOK
<1>4. LifetimeOK' /\ CallOK'
  BY <1>1 DEF LifetimeOK, CallOK
<1>5. CounterCoversTickets'
  BY <1>1, <1>2 DEF CounterCoversTickets, KeyLifetime, Days
<1>6. TicketsDistinct' /\ RefusalJustified'
  BY <1>1, BooksKeptInv DEF TypeOK
<1>7. UnitsAccountedFor'
  BY <1>1, UnitsKept DEF TypeOK
<1> QED
  BY <1>3, <1>4, <1>5, <1>6, <1>7

\* An empty Redis opens new books; the old ones are never charged again.
LEMMA RedisRestartStep ==
  ASSUME IInv, TypeOK', RedisRestart
  PROVE  IInv'
<1> USE DEF IInv
<1>1. /\ used' = used /\ life' = life /\ keyDay' = keyDay /\ pc' = pc
      /\ orphans' = orphans /\ today' = today /\ restarts' = restarts + 1
  BY DEF RedisRestart, callVars
<1>2. \A d \in Days : counter'[d] = 0 /\ expiresOn'[d] = NoExpiry
  BY DEF RedisRestart
<1>3. restarts \in Nat /\ \A r \in Requests : life[r] \in Nat /\ life[r] <= restarts
  BY DEF TypeOK, Lives, ClockOK
<1>4. ClockOK'
  BY <1>1, <1>3 DEF ClockOK, InFlight
<1>5. LifetimeOK' /\ CallOK'
  BY <1>1, <1>2 DEF LifetimeOK, CallOK
<1>6. CounterCoversTickets'
  BY <1>1, <1>3 DEF CounterCoversTickets
<1>7. TicketsDistinct' /\ RefusalJustified'
  BY <1>1, BooksKeptInv DEF TypeOK
<1>8. UnitsAccountedFor'
  <2> SUFFICES ASSUME NEW d \in Days
               PROVE  LET spent == Cardinality(Admitted(<<d, restarts>>)) + orphans[<<d, restarts>>]
                      IN  (counter[d] <= spent \/ Budget <= spent)'
    BY DEF UnitsAccountedFor
  <2>1. PICK l \in Lives : l = restarts'
    BY DEF TypeOK
  <2>2. <<d, l>> \in Books /\ orphans'[<<d, l>>] \in Nat
    BY DEF TypeOK, Books
  <2>3. Cardinality(Admitted(<<d, l>>)') \in Nat
    <3>1. Admitted(<<d, l>>)' = Admitted(<<d, l>>)
      BY <1>1, BooksKept
    <3> QED
      BY <3>1, DrawnFinite
  <2> QED
    BY <2>1, <2>2, <2>3, <1>2
<1> QED
  BY <1>4, <1>5, <1>6, <1>7, <1>8

LEMMA CrashStep ==
  ASSUME IInv, TypeOK', Crash
  PROVE  IInv'
<1> USE DEF IInv
<1>1. /\ used' = used /\ life' = life /\ keyDay' = keyDay /\ orphans' = orphans
      /\ restarts' = restarts /\ today' = today
      /\ counter' = counter /\ expiresOn' = expiresOn
  BY DEF Crash, redisVars
<1>2. \A r \in Requests :
        \/ pc'[r] = pc[r] /\ r \notin InFlight
        \/ pc'[r] = "lost" /\ r \in InFlight
  BY DEF Crash
<1>3. \A r \in Requests : used[r] > 0 =>
        /\ keyDay'[r] = keyDay[r]
        /\ pc'[r] = "denied" <=> pc[r] = "denied"
  BY <1>1, <1>2 DEF InFlight
<1>4. ClockOK'
  BY <1>1, <1>2 DEF ClockOK, InFlight
<1>5. LifetimeOK'
  BY <1>1 DEF LifetimeOK
<1>6. CallOK'
  BY <1>1, <1>2, BudgetAssumption DEF CallOK, InFlight, TypeOK
<1>7. CounterCoversTickets'
  BY <1>1 DEF CounterCoversTickets
<1>8. TicketsDistinct' /\ RefusalJustified'
  BY <1>1, <1>3, BooksKeptInv DEF TypeOK
<1>9. UnitsAccountedFor'
  BY <1>1, <1>3, UnitsKept DEF TypeOK
<1> QED
  BY <1>4, <1>5, <1>6, <1>7, <1>8, <1>9

-----------------------------------------------------------------------------
(* The answered INCR.                                                      *)

\* What an answered INCR does to the books: it draws a value no call of that
\* book has, and the caller is admitted exactly when the value is in budget.
LEMMA IncrBooks ==
  ASSUME IInv, TypeOK', NEW r \in Requests, Incr(r)
  PROVE  LET b == <<keyDay[r], restarts>>
             n == NextValue(keyDay[r])
         IN /\ b \in Books
            /\ n \in Nat /\ n > 0 /\ used'[r] = n
            /\ \A c : r \notin Drawn(c)
            /\ \A s \in Drawn(b) : used[s] < n
            /\ \A c : c # b => /\ Drawn(c)' = Drawn(c)
                               /\ Refused(c)' = Refused(c)
                               /\ Admitted(c)' = Admitted(c)
            /\ Drawn(b)' = Drawn(b) \cup {r}
            /\ n <= Budget => /\ pc'[r] \in {"expire", "allowed"}
                              /\ Refused(b)' = Refused(b)
                              /\ Admitted(b)' = Admitted(b) \cup {r}
            /\ n > Budget  => /\ pc'[r] = "denied"
                              /\ Refused(b)' = Refused(b) \cup {r}
                              /\ Admitted(b)' = Admitted(b)
<1> USE DEF IInv
<1> DEFINE d == keyDay[r]
           b == <<d, restarts>>
           n == NextValue(d)
<1>1. d \in Days /\ b \in Books /\ counter[d] \in Nat /\ n = counter[d] + 1
  BY DEF TypeOK, Books, NextValue
<1>2. pc[r] = "incr" /\ used[r] = 0 /\ Budget > 0
  BY DEF Incr, CallOK
<1>3. /\ keyDay' = keyDay /\ restarts' = restarts
      /\ used'[r] = n /\ life'[r] = restarts
      /\ \A s \in Requests : s # r => used'[s] = used[s] /\ life'[s] = life[s] /\ pc'[s] = pc[s]
  BY DEF Incr, TypeOK
<1>4. pc'[r] = IF n = 1 THEN "expire" ELSE Verdict(n)
  BY DEF Incr, TypeOK
<1>5. \A c : r \notin Drawn(c)
  BY <1>2 DEF Drawn
<1>6. \A s \in Drawn(b) : used[s] < n
  <2> SUFFICES ASSUME NEW s \in Drawn(b) PROVE used[s] <= counter[d]
    BY <1>1 DEF Drawn, TypeOK
  <2>1. s \in Requests /\ used[s] > 0 /\ keyDay[s] = d /\ life[s] = restarts
    BY DEF Drawn
  <2>2. today < d + KeyLifetime
    BY <1>2 DEF ClockOK, InFlight, TypeOK, Days, KeyLifetime
  <2> QED
    BY <2>1, <2>2 DEF CounterCoversTickets
<1>7. \A c : c # b => Drawn(c)' = Drawn(c) /\ Refused(c)' = Refused(c) /\ Admitted(c)' = Admitted(c)
  <2> SUFFICES ASSUME NEW c, c # b
               PROVE  Drawn(c)' = Drawn(c) /\ Refused(c)' = Refused(c) /\ Admitted(c)' = Admitted(c)
    OBVIOUS
  <2>1. Drawn(c)' = Drawn(c)
    BY <1>3, <1>5 DEF Drawn
  <2>2. Refused(c)' = Refused(c)
    BY <2>1, <1>3, <1>5 DEF Refused, Drawn
  <2> QED
    BY <2>1, <2>2 DEF Admitted
<1>8. Drawn(b)' = Drawn(b) \cup {r}
  BY <1>1, <1>3, <1>5 DEF Drawn
<1>9. ASSUME n <= Budget
      PROVE  /\ pc'[r] \in {"expire", "allowed"}
             /\ Refused(b)' = Refused(b)
             /\ Admitted(b)' = Admitted(b) \cup {r}
  <2>1. pc'[r] \in {"expire", "allowed"}
    BY <1>4, <1>9 DEF Verdict
  <2>2. Refused(b)' = Refused(b)
    BY <2>1, <1>3, <1>5, <1>8 DEF Refused, Drawn
  <2> QED
    BY <2>1, <2>2, <1>5, <1>8 DEF Admitted, Refused
<1>10. ASSUME n > Budget
       PROVE  /\ pc'[r] = "denied"
              /\ Refused(b)' = Refused(b) \cup {r}
              /\ Admitted(b)' = Admitted(b)
  <2>1. pc'[r] = "denied"
    BY <1>1, <1>2, <1>4, <1>10, BudgetAssumption DEF Verdict
  <2>2. Refused(b)' = Refused(b) \cup {r}
    BY <2>1, <1>3, <1>5, <1>8 DEF Refused, Drawn
  <2> QED
    BY <2>2, <1>5, <1>8 DEF Admitted, Refused
<1> QED
  BY <1>1, <1>3, <1>5, <1>6, <1>7, <1>8, <1>9, <1>10, BudgetAssumption

LEMMA IncrStep ==
  ASSUME IInv, TypeOK', NEW r \in Requests, Incr(r)
  PROVE  IInv'
<1> USE DEF IInv
<1> DEFINE d == keyDay[r]
           b == <<d, restarts>>
           n == NextValue(d)
<1>1. /\ keyDay' = keyDay /\ restarts' = restarts /\ today' = today
      /\ expiresOn' = expiresOn /\ orphans' = orphans
      /\ \A s \in Requests : s # r => used'[s] = used[s] /\ life'[s] = life[s] /\ pc'[s] = pc[s]
      /\ used'[r] = n /\ life'[r] = restarts
  BY DEF Incr, TypeOK
<1>2. d \in Days /\ counter[d] \in Nat /\ n = counter[d] + 1
      /\ counter'[d] = n /\ \A e \in Days : e # d => counter'[e] = counter[e]
  BY DEF Incr, TypeOK, NextValue
<1>3. pc[r] = "incr" /\ Budget > 0
  BY DEF Incr, CallOK
<1>4. /\ b \in Books /\ n \in Nat /\ n > 0
      /\ \A c : r \notin Drawn(c)
      /\ \A s \in Drawn(b) : used[s] < n
      /\ \A c : c # b => /\ Drawn(c)' = Drawn(c)
                         /\ Refused(c)' = Refused(c)
                         /\ Admitted(c)' = Admitted(c)
      /\ Drawn(b)' = Drawn(b) \cup {r}
      /\ n <= Budget => /\ pc'[r] \in {"expire", "allowed"}
                        /\ Refused(b)' = Refused(b)
                        /\ Admitted(b)' = Admitted(b) \cup {r}
      /\ n > Budget  => /\ pc'[r] = "denied"
                        /\ Refused(b)' = Refused(b) \cup {r}
                        /\ Admitted(b)' = Admitted(b)
  BY IncrBooks
<1>5. pc'[r] = "expire" => n = 1
  BY <1>3 DEF Incr, TypeOK, Verdict
<1>6. ClockOK'
  BY <1>1, <1>3 DEF ClockOK, InFlight, TypeOK, Lives
<1>7. LifetimeOK'
  BY <1>1 DEF LifetimeOK
<1>8. CallOK'
  <2> SUFFICES ASSUME NEW s \in Requests
               PROVE  (/\ pc[s] \in {"idle", "incr"} => used[s] = 0
                       /\ pc[s] = "expire" => used[s] = 1
                       /\ pc[s] = "denied" => used[s] > 0 /\ used[s] > Budget
                       /\ pc[s] \in {"allowed", "lost"} => used[s] = 0 \/ used[s] <= Budget
                       /\ pc[s] \in {"incr", "expire"} => Budget > 0)'
    BY DEF CallOK
  <2>1. CASE s = r
    <3>1. CASE n <= Budget
      BY <2>1, <3>1, <1>1, <1>3, <1>4, <1>5
    <3>2. CASE n > Budget
      BY <2>1, <3>2, <1>1, <1>3, <1>4
    <3> QED
      BY <3>1, <3>2, <1>4, BudgetAssumption
  <2>2. CASE s # r
    BY <2>2, <1>1 DEF CallOK
  <2> QED
    BY <2>1, <2>2
<1>9. CounterCoversTickets'
  <2> SUFFICES ASSUME NEW s \in Requests, used'[s] > 0, life'[s] = restarts,
                      today < keyDay[s] + KeyLifetime
               PROVE  used'[s] <= counter'[keyDay[s]]
    BY <1>1 DEF CounterCoversTickets
  <2>1. CASE s = r
    BY <2>1, <1>1, <1>2
  <2>2. CASE s # r
    <3>1. used[s] <= counter[keyDay[s]] /\ used'[s] = used[s] /\ used[s] \in Nat /\ keyDay[s] \in Days
      BY <2>2, <1>1 DEF CounterCoversTickets, TypeOK
    <3>2. counter[keyDay[s]] <= counter'[keyDay[s]] /\ counter[keyDay[s]] \in Nat
          /\ counter'[keyDay[s]] \in Nat
      BY <3>1, <1>2 DEF TypeOK
    <3> QED
      BY <3>1, <3>2
  <2> QED
    BY <2>1, <2>2
<1>10. TicketsDistinct'
  <2> SUFFICES ASSUME NEW c \in Books, NEW s \in Drawn(c)', NEW t \in Drawn(c)',
                      used'[s] = used'[t]
               PROVE  s = t
    BY DEF TicketsDistinct
  <2>1. s \in Requests /\ t \in Requests
    BY DEF Drawn
  <2>2. CASE c # b
    <3>1. s \in Drawn(c) /\ t \in Drawn(c) /\ s # r /\ t # r
      BY <2>2, <1>4
    <3> QED
      BY <3>1, <2>1, <1>1 DEF TicketsDistinct
  <2>3. CASE c = b
    <3>1. (s \in Drawn(b) \/ s = r) /\ (t \in Drawn(b) \/ t = r)
      BY <2>3, <1>1, <1>4
    <3>2. \A u \in Drawn(b) : u # r /\ used'[u] = used[u] /\ used[u] < n /\ used[u] \in Nat
      BY <1>1, <1>4 DEF Drawn, TypeOK
    <3> QED
      BY <3>1, <3>2, <1>1, <1>4 DEF TicketsDistinct
  <2> QED
    BY <2>2, <2>3
<1>11. n <= Budget => Cardinality(Admitted(b)') = Cardinality(Admitted(b)) + 1
  <2>1. r \notin Admitted(b) /\ IsFiniteSet(Admitted(b))
    BY <1>4, DrawnFinite DEF Admitted
  <2> QED
    BY <2>1, <1>4, <1>1, FS_AddElement
<1>12. UnitsAccountedFor'
  <2> SUFFICES ASSUME NEW e \in Days
               PROVE  LET spent == Cardinality(Admitted(<<e, restarts>>)') + orphans[<<e, restarts>>]
                      IN  counter'[e] <= spent \/ Budget <= spent
    BY <1>1 DEF UnitsAccountedFor
  <2>1. /\ <<e, restarts>> \in Books /\ orphans[<<e, restarts>>] \in Nat
        /\ counter[e] \in Nat /\ Cardinality(Admitted(<<e, restarts>>)) \in Nat
    BY DrawnFinite DEF TypeOK, Books
  <2>2. LET spent == Cardinality(Admitted(<<e, restarts>>)) + orphans[<<e, restarts>>]
        IN  counter[e] <= spent \/ Budget <= spent
    BY DEF UnitsAccountedFor
  <2>3. CASE e = d
    <3>1. CASE n <= Budget
      <4>1. Cardinality(Admitted(<<e, restarts>>)') = Cardinality(Admitted(<<e, restarts>>)) + 1
        BY <2>3, <3>1, <1>1, <1>11
      <4> QED
        BY <2>1, <2>2, <2>3, <4>1, <1>2, BudgetAssumption
    <3>2. CASE n > Budget
      <4>1. Cardinality(Admitted(<<e, restarts>>)') = Cardinality(Admitted(<<e, restarts>>))
        BY <2>3, <3>2, <1>1, <1>4
      <4> QED
        BY <2>1, <2>2, <2>3, <3>2, <4>1, <1>2, BudgetAssumption
    <3> QED
      BY <3>1, <3>2, <1>4, BudgetAssumption
  <2>4. CASE e # d
    <3>1. <<e, restarts>> # b
      BY <2>4
    <3>2. Admitted(<<e, restarts>>)' = Admitted(<<e, restarts>>)
      BY <3>1, <1>1, <1>4
    <3> QED
      BY <2>2, <2>4, <3>2, <1>2
  <2> QED
    BY <2>3, <2>4
<1>13. RefusalJustified'
  <2> SUFFICES ASSUME NEW c \in Books, Refused(c)' # {}
               PROVE  Cardinality(Admitted(c)') + orphans[c] >= Budget
    BY <1>1 DEF RefusalJustified
  <2>1. orphans[c] \in Nat /\ Cardinality(Admitted(c)) \in Nat
    BY DrawnFinite DEF TypeOK
  <2>2. CASE c # b
    BY <2>2, <1>4 DEF RefusalJustified
  <2>3. CASE c = b
    <3>1. CASE n <= Budget
      <4>1. Cardinality(Admitted(c)) + orphans[c] >= Budget
        BY <2>3, <3>1, <1>1, <1>4 DEF RefusalJustified
      <4> QED
        BY <2>1, <2>3, <3>1, <4>1, <1>1, <1>11, BudgetAssumption
    <3>2. CASE n > Budget
      <4>1. Admitted(c)' = Admitted(c)
        BY <2>3, <3>2, <1>1, <1>4
      <4>2. counter[d] >= Budget
        BY <3>2, <1>2, BudgetAssumption
      <4>3. LET spent == Cardinality(Admitted(b)) + orphans[b]
            IN  counter[d] <= spent \/ Budget <= spent
        BY <1>2 DEF UnitsAccountedFor
      <4> QED
        BY <2>1, <2>3, <4>1, <4>2, <4>3, <1>2, BudgetAssumption
    <3> QED
      BY <3>1, <3>2, <1>4, BudgetAssumption
  <2> QED
    BY <2>2, <2>3
<1> QED
  BY <1>6, <1>7, <1>8, <1>9, <1>10, <1>12, <1>13

-----------------------------------------------------------------------------
(* The theorems.                                                           *)

LEMMA NextIInv == IInv /\ [Next]_vars => IInv'
<1> SUFFICES ASSUME IInv, [Next]_vars PROVE IInv'
  OBVIOUS
<1>1. TypeOK'
  BY TypeStep DEF IInv
<1>2. CASE \E r \in Requests : Begin(r) \/ Step(r)
  BY <1>1, <1>2, BeginStep, IncrStep, LoseReplyStep, QuietStep DEF Step
<1>3. CASE Environment
  BY <1>1, <1>3, DropKeyStep, NextDayStep, RedisRestartStep, CrashStep DEF Environment
<1>4. CASE UNCHANGED vars
  <2>1. /\ used' = used /\ life' = life /\ keyDay' = keyDay /\ pc' = pc
        /\ orphans' = orphans /\ restarts' = restarts /\ today' = today
        /\ counter' = counter /\ expiresOn' = expiresOn
    BY <1>4 DEF vars, redisVars, callVars
  <2>2. ClockOK' /\ CallOK' /\ LifetimeOK' /\ CounterCoversTickets'
    BY <2>1 DEF IInv, ClockOK, InFlight, CallOK, LifetimeOK, CounterCoversTickets
  <2>3. TicketsDistinct' /\ RefusalJustified'
    BY <2>1, <1>1, BooksKeptInv DEF IInv, TypeOK
  <2>4. UnitsAccountedFor'
    BY <2>1, <1>1, UnitsKept DEF IInv, TypeOK
  <2> QED
    BY <1>1, <2>2, <2>3, <2>4 DEF IInv
<1> QED
  BY <1>2, <1>3, <1>4 DEF Next

\* The inductive invariant holds in every reachable state.
THEOREM Inductive == Spec => []IInv
<1> QED
  BY InitIInv, NextIInv, PTL DEF Spec

\* In a book with distinct values, no more calls are admitted than the budget
\* has units: the values are an injection into 1 .. Budget.
LEMMA AdmittedBounded ==
  ASSUME IInv, NEW b \in Books, NEW k \in Nat, \A r \in Admitted(b) : used[r] <= k
  PROVE  Cardinality(Admitted(b)) <= k
<1> DEFINE f == [r \in Admitted(b) |-> used[r]]
<1>1. \A r \in Admitted(b) : used[r] \in 1 .. k /\ r \in Drawn(b)
  BY DEF IInv, TypeOK, Admitted, Drawn
<1>2. f \in Injection(Admitted(b), 1 .. k)
  BY <1>1, Fun_IsInj DEF IInv, TicketsDistinct
<1>3. IsFiniteSet(1 .. k) /\ Cardinality(1 .. k) = k
  BY FS_Interval
<1> QED
  BY <1>2, <1>3, FS_Injection, FS_CardinalityType

\* However the calls interleave and whatever fails, one life of a day's
\* counter lets at most Budget calls through (repo_profile.go:61-83).
THEOREM BudgetCeiling == Spec => []Ceiling
<1>1. IInv => Ceiling
  <2> SUFFICES ASSUME IInv, Budget > 0, NEW b \in Books
               PROVE  Cardinality(Admitted(b)) <= Budget
    BY DEF Ceiling
  <2>1. \A r \in Admitted(b) : used[r] <= Budget
    BY BudgetAssumption DEF IInv, CallOK, TypeOK, Admitted, Refused, Drawn
  <2> QED
    BY <2>1, AdmittedBounded, BudgetAssumption
<1> QED
  BY <1>1, Inductive, PTL

\* No two calls draw the same value from one life of a day's counter.
THEOREM NoTicketTwice == Spec => []TicketsDistinct
<1>1. IInv => TicketsDistinct
  BY DEF IInv
<1> QED
  BY <1>1, Inductive, PTL

\* A call is turned away only once the day's units are all held or orphaned.
THEOREM RefusalsAreJustified == Spec => []RefusalJustified
<1>1. IInv => RefusalJustified
  BY DEF IInv
<1> QED
  BY <1>1, Inductive, PTL

-----------------------------------------------------------------------------
(* The lifetime of a counter.                                              *)

\* Only an expiry or an empty Redis takes a counter away.
LEMMA OnlyDropKeyForgets ==
  ASSUME IInv, [Next]_vars, NEW d \in Days,
         counter[d] > 0, counter'[d] = 0, restarts' = restarts
  PROVE  DropKey(d)
<1> USE DEF IInv
<1>1. ASSUME NEW r \in Requests, Incr(r) \/ LoseReply(r) PROVE FALSE
  <2>1. counter'[d] \in {counter[d], counter[d] + 1}
    BY <1>1 DEF Incr, LoseReply, TypeOK
  <2> QED
    BY <2>1 DEF TypeOK
<1>2. ASSUME NEW r \in Requests,
             Begin(r) \/ IncrFails(r) \/ Expire(r) \/ ExpireFails(r)
      PROVE  FALSE
  BY <1>2 DEF Begin, IncrFails, Expire, ExpireFails, redisVars
<1>3. ASSUME NEW e \in Days, DropKey(e) PROVE e = d
  BY <1>3 DEF DropKey, TypeOK
<1>4. ~NextDay /\ ~Crash /\ ~UNCHANGED vars
  BY DEF NextDay, Crash, vars, redisVars
<1>5. ~RedisRestart
  BY DEF RedisRestart, TypeOK, Lives
<1> QED
  BY <1>1, <1>2, <1>3, <1>4, <1>5 DEF Next, Step, Environment

\* The 48 hours of repo_profile.go:77 are enough: an expiring counter belongs
\* to a day that is over and that no running call is charged to.
THEOREM ExpiryIsHarmless == Spec => ExpiryNeverRefunds
<1>1. IInv /\ [Next]_vars => [NoRefund]_vars
  <2> SUFFICES ASSUME IInv, [Next]_vars, NEW d \in Days,
                      counter[d] > 0, counter'[d] = 0, restarts' = restarts
               PROVE  today > d /\ \A r \in InFlight : keyDay[r] # d
    BY DEF NoRefund
  <2>1. DropKey(d)
    BY OnlyDropKeyForgets
  <2>2. today >= expiresOn[d] /\ expiresOn[d] >= d + KeyLifetime
    BY <2>1 DEF DropKey, IInv, LifetimeOK
  <2>3. today \in Days /\ expiresOn[d] \in Nat /\ \A r \in Requests : keyDay[r] \in Days
    BY DEF IInv, TypeOK
  <2>4. \A e \in Days : e \in Nat
    BY DEF Days
  <2>5. today >= d + 2
    BY <2>2, <2>3, <2>4 DEF KeyLifetime
  <2>6. \A r \in InFlight : r \in Requests /\ today <= keyDay[r] + 1
    BY DEF IInv, ClockOK, InFlight
  <2> QED
    BY <2>3, <2>4, <2>5, <2>6
<1> QED
  BY <1>1, Inductive, PTL DEF Spec, ExpiryNeverRefunds

-----------------------------------------------------------------------------
(* The counter implements the ledger.                                      *)

LEMMA LedgerFresh ==
  ASSUME IInv, NEW r \in Requests, pc[r] \in {"idle", "incr"}
  PROVE  Ledger!Fresh(r)
<1>1. used[r] = 0
  BY DEF IInv, CallOK
<1>2. \A b : r \notin Admitted(b) /\ r \notin Refused(b)
  BY <1>1 DEF Admitted, Refused, Drawn
<1> QED
  BY <1>2 DEF Ledger!Fresh

\* A step that keeps the books and admits nobody outside them is a stutter.
LEMMA LedgerStutter ==
  ASSUME used' = used, life' = life, orphans' = orphans,
         \A r \in Requests : used[r] > 0 =>
           /\ keyDay'[r] = keyDay[r]
           /\ pc'[r] = "denied" <=> pc[r] = "denied",
         \A r \in Requests : used[r] = 0 => (pc'[r] = "allowed" <=> pc[r] = "allowed")
  PROVE  UNCHANGED Ledger!ledgerVars
<1>1. \A b : Refused(b)' = Refused(b) /\ Admitted(b)' = Admitted(b)
  BY BooksKept
<1>2. {r \in Requests : pc[r] = "allowed" /\ used[r] = 0}'
        = {r \in Requests : pc[r] = "allowed" /\ used[r] = 0}
  OBVIOUS
<1>3. [b \in Books |-> Admitted(b)]' = [b \in Books |-> Admitted(b)]
  BY <1>1
<1>4. [b \in Books |-> Refused(b)]' = [b \in Books |-> Refused(b)]
  BY <1>1
<1> QED
  BY <1>2, <1>3, <1>4 DEF Ledger!ledgerVars

LEMMA LedgerCardinality == \A S : Ledger!Cardinality(S) = Cardinality(S)
BY DEF Ledger!Cardinality, Cardinality

LEMMA LedgerIncr ==
  ASSUME IInv, TypeOK', NEW r \in Requests, Incr(r)
  PROVE  \E b \in Books : Ledger!Admit(r, b) \/ Ledger!Refuse(r, b)
<1>0. PICK d \in Days, b \in Books, n \in Nat :
        d = keyDay[r] /\ b = <<d, restarts>> /\ n = NextValue(d)
  <2>1. keyDay[r] \in Days /\ restarts \in Lives /\ NextValue(keyDay[r]) \in Nat
    BY DEF IInv, TypeOK, NextValue
  <2>2. <<keyDay[r], restarts>> \in Books
    BY <2>1 DEF Books
  <2> QED
    BY <2>1, <2>2
<1>1. /\ counter[d] \in Nat /\ n = counter[d] + 1
      /\ pc[r] = "incr" /\ Budget > 0
  BY <1>0 DEF Incr, IInv, TypeOK, CallOK, NextValue
<1>2. /\ orphans' = orphans /\ keyDay' = keyDay /\ restarts' = restarts
      /\ used'[r] = n /\ n > 0
      /\ \A s \in Requests : s # r => used'[s] = used[s] /\ pc'[s] = pc[s]
  BY <1>0, <1>1 DEF Incr, IInv, TypeOK
<1>3. /\ \A c : r \notin Drawn(c)
      /\ \A s \in Drawn(b) : used[s] < n
      /\ \A c : c # b => Refused(c)' = Refused(c) /\ Admitted(c)' = Admitted(c)
      /\ n <= Budget => Refused(b)' = Refused(b) /\ Admitted(b)' = Admitted(b) \cup {r}
      /\ n > Budget  => Refused(b)' = Refused(b) \cup {r} /\ Admitted(b)' = Admitted(b)
  BY <1>0, <1>2, IncrBooks
<1>4. Ledger!Fresh(r)
  BY <1>1, LedgerFresh
<1>5. {s \in Requests : pc[s] = "allowed" /\ used[s] = 0}'
        = {s \in Requests : pc[s] = "allowed" /\ used[s] = 0}
  BY <1>1, <1>2
<1>6. CASE n <= Budget
  <2>1. \A s \in Admitted(b) : used[s] <= counter[d]
    BY <1>0, <1>1, <1>3 DEF Admitted, Drawn, IInv, TypeOK
  <2>2. Cardinality(Admitted(b)) < Budget
    BY <1>0, <1>1, <1>6, <2>1, AdmittedBounded, DrawnFinite, BudgetAssumption
  <2>3. [c \in Books |-> Admitted(c)]' = [[c \in Books |-> Admitted(c)] EXCEPT ![b] = @ \cup {r}]
    BY <1>3, <1>6
  <2>4. [c \in Books |-> Refused(c)]' = [c \in Books |-> Refused(c)]
    BY <1>3, <1>6
  <2>5. Cardinality([c \in Books |-> Admitted(c)][b]) < Budget
    BY <2>2
  <2>6. UNCHANGED <<[c \in Books |-> Refused(c)],
                    {s \in Requests : pc[s] = "allowed" /\ used[s] = 0}, orphans>>
    BY <1>2, <1>5, <2>4
  <2>7. Ledger!Admit(r, b)
    BY <1>4, <2>3, <2>5, <2>6, LedgerCardinality DEF Ledger!Admit
  <2> QED
    BY <2>7
<1>7. CASE n > Budget
  <2>1. counter[d] >= Budget
    BY <1>0, <1>1, <1>7, BudgetAssumption
  <2>2. Cardinality(Admitted(b)) + orphans[b] >= Budget
    <3>1. LET spent == Cardinality(Admitted(b)) + orphans[b]
          IN  counter[d] <= spent \/ Budget <= spent
      BY <1>0 DEF IInv, UnitsAccountedFor
    <3>2. Cardinality(Admitted(b)) \in Nat /\ orphans[b] \in Nat
      BY <1>3, DrawnFinite DEF IInv, TypeOK
    <3> QED
      BY <1>1, <2>1, <3>1, <3>2, BudgetAssumption
  <2>3. [c \in Books |-> Refused(c)]' = [[c \in Books |-> Refused(c)] EXCEPT ![b] = @ \cup {r}]
    BY <1>3, <1>7
  <2>4. [c \in Books |-> Admitted(c)]' = [c \in Books |-> Admitted(c)]
    BY <1>3, <1>7
  <2>5. Cardinality([c \in Books |-> Admitted(c)][b]) + orphans[b] >= Budget
    BY <2>2
  <2>6. UNCHANGED <<[c \in Books |-> Admitted(c)],
                    {s \in Requests : pc[s] = "allowed" /\ used[s] = 0}, orphans>>
    BY <1>2, <1>5, <2>4
  <2>7. Ledger!Refuse(r, b)
    BY <1>1, <1>4, <2>3, <2>5, <2>6, LedgerCardinality DEF Ledger!Refuse
  <2> QED
    BY <2>7
<1> QED
  BY <1>0, <1>6, <1>7, BudgetAssumption

LEMMA LedgerOrphan ==
  ASSUME IInv, NEW r \in Requests, LoseReply(r)
  PROVE  \E b \in Books : Ledger!Orphan(b)
<1>1. PICK b \in Books : b = <<keyDay[r], restarts>>
  BY DEF IInv, TypeOK, Books
<1>2. used' = used /\ life' = life /\ keyDay' = keyDay /\ pc' = pc
      /\ orphans' = [orphans EXCEPT ![b] = @ + 1]
  BY <1>1 DEF LoseReply
<1>3. \A c : Refused(c)' = Refused(c) /\ Admitted(c)' = Admitted(c)
  BY <1>2, BooksKept
<1> QED
  BY <1>1, <1>2, <1>3 DEF Ledger!Orphan

\* A call let through without a count: the INCR failed, or nothing is limited.
LEMMA LedgerUncounted ==
  ASSUME IInv, NEW r \in Requests, IncrFails(r) \/ (Begin(r) /\ Budget <= 0)
  PROVE  Ledger!AdmitUncounted(r)
<1>1. /\ pc[r] \in {"idle", "incr"} /\ used[r] = 0
      /\ used' = used /\ life' = life /\ orphans' = orphans
      /\ pc' = [pc EXCEPT ![r] = "allowed"]
      /\ \A s \in Requests : s # r => keyDay'[s] = keyDay[s]
  BY DEF IncrFails, Begin, IInv, CallOK, TypeOK
<1>2. Ledger!Fresh(r)
  BY <1>1, LedgerFresh
<1>3. \A s \in Requests : used[s] > 0 =>
        keyDay'[s] = keyDay[s] /\ (pc'[s] = "denied" <=> pc[s] = "denied")
  BY <1>1 DEF IInv, TypeOK
<1>4. \A c : Refused(c)' = Refused(c) /\ Admitted(c)' = Admitted(c)
  BY <1>1, <1>3, BooksKept
<1>5. {s \in Requests : pc[s] = "allowed" /\ used[s] = 0}'
        = {s \in Requests : pc[s] = "allowed" /\ used[s] = 0} \cup {r}
  BY <1>1 DEF IInv, TypeOK
<1> QED
  BY <1>1, <1>2, <1>4, <1>5 DEF Ledger!AdmitUncounted

LEMMA LedgerSilent ==
  ASSUME IInv,
         \/ \E r \in Requests : (Begin(r) /\ Budget > 0) \/ Expire(r) \/ ExpireFails(r)
         \/ Environment
         \/ UNCHANGED vars
  PROVE  UNCHANGED Ledger!ledgerVars
<1>1. used' = used /\ life' = life /\ orphans' = orphans
  BY DEF Begin, Expire, ExpireFails, Environment, DropKey, NextDay, RedisRestart,
         Crash, callVars, vars
<1>2. ASSUME NEW r \in Requests, Begin(r), Budget > 0
      PROVE  UNCHANGED Ledger!ledgerVars
  <2>1. pc[r] = "idle" /\ used[r] = 0
    BY <1>2 DEF Begin, IInv, CallOK
  <2>2. pc' = [pc EXCEPT ![r] = "incr"] /\ keyDay' = [keyDay EXCEPT ![r] = today]
    <3>1. ~(Budget <= 0)
      BY <1>2, BudgetAssumption
    <3> QED
      BY <1>2, <3>1, Zenon DEF Begin
  <2> QED
    <3>1. \A s \in Requests : s # r => pc'[s] = pc[s] /\ keyDay'[s] = keyDay[s]
      BY <2>2 DEF IInv, TypeOK
    <3>2. pc[r] = "idle" /\ pc'[r] = "incr"
      BY <2>1, <2>2 DEF IInv, TypeOK
    <3> QED
      BY <1>1, <2>1, <3>1, <3>2, LedgerStutter
<1>3. ASSUME NEW r \in Requests, Expire(r) \/ ExpireFails(r)
      PROVE  UNCHANGED Ledger!ledgerVars
  <2>1. pc[r] = "expire" /\ used[r] = 1 /\ keyDay' = keyDay
        /\ pc' = [pc EXCEPT ![r] = Verdict(used[r])] /\ Budget > 0
    BY <1>3 DEF Expire, ExpireFails, IInv, CallOK
  <2>2. Verdict(used[r]) = "allowed"
    BY <2>1, BudgetAssumption DEF Verdict
  <2> QED
    BY <1>1, <2>1, <2>2, LedgerStutter DEF IInv, TypeOK
<1>4. CASE Crash
  <2>1. keyDay' = keyDay
        /\ pc' = [r \in Requests |-> IF r \in InFlight THEN "lost" ELSE pc[r]]
    BY <1>4 DEF Crash
  <2> QED
    BY <1>1, <2>1, LedgerStutter DEF InFlight
<1>5. CASE (\E d \in Days : DropKey(d)) \/ NextDay \/ RedisRestart \/ UNCHANGED vars
  <2>1. keyDay' = keyDay /\ pc' = pc
    BY <1>5 DEF DropKey, NextDay, RedisRestart, callVars, vars
  <2> QED
    BY <1>1, <2>1, LedgerStutter
<1> QED
  BY <1>2, <1>3, <1>4, <1>5 DEF Environment

\* ConsumeScrapeBudget, with its Redis, its clock and its faults, is an
\* implementation of the ledger of ScrapeLedger.
THEOREM CounterImplementsLedger == Spec => ImplementsLedger
<1>1. Init => Ledger!Init
  <2> SUFFICES ASSUME Init PROVE Ledger!Init
    OBVIOUS
  <2>1. \A b \in Books : Admitted(b) = {} /\ Refused(b) = {} /\ orphans[b] = 0
    BY DEF Init, Admitted, Refused, Drawn
  <2>2. {r \in Requests : pc[r] = "allowed" /\ used[r] = 0} = {}
    BY DEF Init
  <2> QED
    BY <2>1, <2>2 DEF Ledger!Init, Init
<1>2. IInv /\ [Next]_vars => [Ledger!Next]_(Ledger!ledgerVars)
  <2> SUFFICES ASSUME IInv, [Next]_vars
               PROVE  Ledger!Next \/ UNCHANGED Ledger!ledgerVars
    OBVIOUS
  <2>1. TypeOK'
    BY TypeStep DEF IInv
  <2>2. CASE \E r \in Requests : Incr(r)
    BY <2>1, <2>2, LedgerIncr DEF Ledger!Next
  <2>3. CASE \E r \in Requests : LoseReply(r)
    BY <2>3, LedgerOrphan DEF Ledger!Next
  <2>4. CASE \E r \in Requests : IncrFails(r) \/ (Begin(r) /\ Budget <= 0)
    BY <2>4, LedgerUncounted DEF Ledger!Next
  <2>5. CASE \/ \E r \in Requests : (Begin(r) /\ Budget > 0) \/ Expire(r) \/ ExpireFails(r)
             \/ Environment
             \/ UNCHANGED vars
    BY <2>5, LedgerSilent
  <2> QED
    BY <2>2, <2>3, <2>4, <2>5, BudgetAssumption DEF Next, Step
<1> QED
  BY <1>1, <1>2, Inductive, PTL DEF Spec, ImplementsLedger, Ledger!Spec
=============================================================================
