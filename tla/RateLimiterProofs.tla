-------------------------- MODULE RateLimiterProofs --------------------------
(***************************************************************************)
(* Theorems about the rate limiter, for any number of processes, any limit *)
(* and window, and any faults: its types, that no store lets more than the *)
(* limit through, and that no counter runs ahead of the client.            *)
(***************************************************************************)
EXTENDS RateLimiter, TLAPS

-----------------------------------------------------------------------------
(* The operators on counts and records.                                     *)

Record == [Age -> 0..Cap]

LEMMA AtMostFacts ==
    ASSUME NEW n \in Nat
    PROVE  /\ AtMost(n) \in 0..Cap /\ AtMost(n) <= n
           /\ n <= Limit => AtMost(n) = n
           /\ n > 0 => AtMost(n) > 0
  BY RateAssumption DEF AtMost, Cap

LEMMA AtMostGrows ==
    ASSUME NEW m \in Nat, NEW n \in Nat, m <= n
    PROVE  AtMost(m) <= AtMost(n)
  BY RateAssumption DEF AtMost, Cap

LEMMA AgeFacts ==
    /\ Age \subseteq Nat
    /\ 0 \in Age /\ Window - 1 \in Age
    /\ \A a \in Age : a # 0 => a - 1 \in Age
    /\ \A a \in Age : a <= Window - 1
  BY RateAssumption DEF Age

LEMMA NothingIsRecord == Nothing \in Record /\ \A a \in Age : Nothing[a] = 0
  BY RateAssumption DEF Nothing, Record, Cap

LEMMA OneMoreType ==
    ASSUME NEW r \in Record
    PROVE  /\ OneMore(r) \in Record
           /\ \A a \in Age : OneMore(r)[a] = AtMost(r[a] + 1)
  <1>1. \A a \in Age : r[a] \in Nat
    BY RateAssumption DEF Record, Cap
  <1> QED BY <1>1, AtMostFacts DEF OneMore, Record

LEMMA OlderType ==
    ASSUME NEW r \in Record
    PROVE  /\ Older(r) \in Record
           /\ Older(r)[0] = 0
           /\ \A a \in Age : a # 0 => Older(r)[a] = r[a - 1]
  BY AgeFacts, RateAssumption DEF Older, Record, Cap

-----------------------------------------------------------------------------
(* Types. *)

LEMMA InitTypeOK == Init => TypeOK
  BY NothingIsRecord, RateAssumption DEF Init, TypeOK, Record, Cap

\* What a request does to the record of a store and to the history.
LEMMA AnsweredType ==
    ASSUME TypeOK, NEW s \in Store, NEW n, Answered(s, n)
    PROVE  /\ accepted' \in [Store -> Record]
           /\ silence' \in 0..Window /\ burst' \in 0..Cap
  <1>1. OneMore(accepted[s]) \in Record
    BY OneMoreType DEF TypeOK, Record
  <1>2. accepted' \in [Store -> Record]
    BY <1>1 DEF Answered, TypeOK, Record
  <1>3. burst + 1 \in Nat
    BY RateAssumption DEF TypeOK, Cap
  <1> QED BY <1>2, <1>3, AtMostFacts, RateAssumption DEF Answered

LEMMA CountInRedisType ==
    ASSUME TypeOK, CountInRedis
    PROVE  count' \in 0..Cap /\ count' > 0 /\ ttl' = Window /\ ttl' \in 0..Window
  <1>1. count + 1 \in Nat /\ count + 1 > 0
    BY RateAssumption DEF TypeOK, Cap
  <1> QED BY <1>1, AtMostFacts, RateAssumption DEF CountInRedis

LEMMA CountInMemoryType ==
    ASSUME TypeOK, NEW p \in Pod, CountInMemory(p)
    PROVE  /\ records' \in [Pod -> Record]
           /\ accepted' \in [Store -> Record]
           /\ silence' \in 0..Window /\ burst' \in 0..Cap
  <1>1. OneMore(records[p]) \in Record
    BY OneMoreType DEF TypeOK, Record
  <1>2. records' \in [Pod -> Record]
    BY <1>1 DEF CountInMemory, TypeOK, Record
  <1>3. Answered(p, Counted(records'[p])) /\ p \in Store
    BY DEF CountInMemory, Store
  <1> QED BY <1>2, <1>3, AnsweredType

LEMMA LookType ==
    ASSUME TypeOK, NEW p \in Pod, Look(p)
    PROVE  unchecked' \in [Pod -> 0..CheckEvery]
  BY RateAssumption DEF Look, TypeOK

LEMMA NextTypeOK == TypeOK /\ [Next]_vars => TypeOK'
  <1> SUFFICES ASSUME TypeOK, [Next]_vars PROVE TypeOK'
    OBVIOUS
  <1>1. ASSUME NEW p \in Pod, CheckInRedis(p) PROVE TypeOK'
    <2>1. Answered(Redis, count') /\ Redis \in Store /\ CountInRedis /\ Look(p)
      BY <1>1 DEF CheckInRedis, Store
    <2> QED BY <1>1, <2>1, AnsweredType, CountInRedisType, LookType
            DEF CheckInRedis, TypeOK, Record
  <1>2. ASSUME NEW p \in Pod, CheckFails(p) PROVE TypeOK'
    <2>1. count' \in 0..Cap /\ ttl' \in 0..Window
      BY <1>2, CountInRedisType DEF CheckFails, TypeOK
    <2>2. CountInMemory(p) /\ Look(p)
      BY <1>2 DEF CheckFails
    <2> QED BY <1>2, <2>1, <2>2, CountInMemoryType, LookType DEF CheckFails, TypeOK, Record
  <1>3. ASSUME NEW p \in Pod, CheckInMemory(p) PROVE TypeOK'
    BY <1>3, CountInMemoryType, LookType DEF CheckInMemory, TypeOK, Record
  <1>4. CASE Tick
    <2>1. \A p \in Pod : Older(records[p]) \in Record
      BY OlderType DEF TypeOK, Record
    <2>2. \A s \in Store : Older(accepted[s]) \in Record
      BY OlderType DEF TypeOK, Record
    <2>3. records' \in [Pod -> Record] /\ accepted' \in [Store -> Record]
      BY <1>4, <2>1, <2>2 DEF Tick
    <2>4. unchecked' \in [Pod -> 0..CheckEvery]
      BY <1>4, RateAssumption DEF Tick, TypeOK
    <2> QED BY <1>4, <2>3, <2>4, RateAssumption DEF Tick, TypeOK, Record, Cap
  <1>5. CASE RedisChanges
    BY <1>5 DEF RedisChanges, history, TypeOK
  <1>6. CASE RedisRestarts
    <2>1. accepted' \in [Store -> Record]
      BY <1>6, NothingIsRecord DEF RedisRestarts, TypeOK, Record
    <2>2. count' \in 0..Cap /\ ttl' \in 0..Window
      BY <1>6, RateAssumption DEF RedisRestarts, Cap
    <2> QED BY <1>6, <2>1, <2>2 DEF RedisRestarts, TypeOK, Record
  <1>7. ASSUME NEW p \in Pod, PodRestarts(p) PROVE TypeOK'
    <2>1. accepted' \in [Store -> Record]
      BY <1>7, NothingIsRecord DEF PodRestarts, TypeOK, Record
    <2>2. records' \in [Pod -> Record]
      BY <1>7, NothingIsRecord DEF PodRestarts, TypeOK, Record
    <2>3. unchecked' \in [Pod -> 0..CheckEvery]
      BY <1>7, RateAssumption DEF PodRestarts, TypeOK
    <2> QED BY <1>7, <2>1, <2>2, <2>3 DEF PodRestarts, TypeOK, Record
  <1>8. CASE UNCHANGED vars
    BY <1>8 DEF vars, storeVars, history, TypeOK
  <1> QED BY <1>1, <1>2, <1>3, <1>4, <1>5, <1>6, <1>7, <1>8 DEF Next, CheckRate

\* Counters, times left and records of every store stay in their ranges,
\* whatever happens to Redis and to the processes.
THEOREM TypeCorrect == Spec => []TypeOK
  BY InitTypeOK, NextTypeOK, PTL DEF Spec

-----------------------------------------------------------------------------
(* No store lets more than the limit through.  What a process has let       *)
(* through is among its timestamps.  Redis has counted what it let through: *)
(* a key has counted every request since it began, and what is older than   *)
(* the key was let through more than a window ago.                          *)

\* The younger are among the not much older.
Growing(record) == \A a \in Age, b \in Age : a <= b => record[a] <= record[b]

AcceptedGrow == \A s \in Store : Growing(accepted[s])
MemoryKnows == \A p \in Pod : \A a \in Age : accepted[p][a] <= records[p][a]
KeyCounts == (ttl = 0) <=> (count = 0)
RedisKnows == \A a \in Age : accepted[Redis][a] <= count
KeyIsOldEnough == \A a \in Age : a < Window - ttl => accepted[Redis][a] = 0

LimitInv ==
    /\ AcceptedGrow /\ MemoryKnows /\ KeyCounts /\ RedisKnows /\ KeyIsOldEnough
    /\ LimitPerStore

LEMMA InitLimit == Init => LimitInv
  <1> SUFFICES ASSUME Init PROVE LimitInv
    OBVIOUS
  <1>1. \A s \in Store : \A a \in Age : accepted[s][a] = 0
    BY NothingIsRecord DEF Init
  <1>2. \A p \in Pod : \A a \in Age : records[p][a] = 0
    BY NothingIsRecord DEF Init
  <1>3. Pod \subseteq Store /\ Redis \in Store
    BY DEF Store
  <1> QED BY <1>1, <1>2, <1>3, AgeFacts, RateAssumption
          DEF Init, LimitInv, AcceptedGrow, Growing, MemoryKnows, KeyCounts, RedisKnows,
              KeyIsOldEnough, LimitPerStore

\* One more of every age keeps a record growing, and ageing does.
LEMMA OneMoreGrows ==
    ASSUME NEW r \in Record, Growing(r)
    PROVE  Growing(OneMore(r))
  <1> SUFFICES ASSUME NEW a \in Age, NEW b \in Age, a <= b
               PROVE  OneMore(r)[a] <= OneMore(r)[b]
    BY DEF Growing
  <1>1. r[a] + 1 \in Nat /\ r[b] + 1 \in Nat /\ r[a] + 1 <= r[b] + 1
    BY RateAssumption DEF Growing, Record, Cap
  <1> QED BY <1>1, OneMoreType, AtMostGrows

LEMMA OlderGrows ==
    ASSUME NEW r \in Record, Growing(r)
    PROVE  Growing(Older(r)) /\ Older(r)[Window - 1] <= r[Window - 1]
  <1>1. \A a \in Age : r[a] \in Nat
    BY RateAssumption DEF Record, Cap
  <1>2. ASSUME NEW a \in Age, NEW b \in Age, a <= b PROVE Older(r)[a] <= Older(r)[b]
    <2>1. CASE a = 0
      <3>1. Older(r) \in Record
        BY OlderType
      <3>2. Older(r)[b] >= 0
        BY <3>1, RateAssumption DEF Record, Cap
      <3> QED BY <2>1, <3>2, OlderType
    <2>2. CASE a # 0
      <3>1. b # 0 /\ a - 1 \in Age /\ b - 1 \in Age /\ a - 1 <= b - 1
        BY <1>2, <2>2, AgeFacts
      <3> QED BY <2>2, <3>1, OlderType DEF Growing
    <2> QED BY <2>1, <2>2
  <1>3. Older(r)[Window - 1] <= r[Window - 1]
    <2>1. CASE Window - 1 = 0
      BY <2>1, <1>1, OlderType, AgeFacts
    <2>2. CASE Window - 1 # 0
      <3>1. (Window - 1) - 1 \in Age /\ (Window - 1) - 1 <= Window - 1
        BY <2>2, AgeFacts, RateAssumption
      <3> QED BY <2>2, <3>1, OlderType, AgeFacts DEF Growing
    <2> QED BY <2>1, <2>2
  <1> QED BY <1>2, <1>3 DEF Growing

\* The history after an answer: the store that answered has let one more
\* through if it stayed within the limit, the others have what they had.
LEMMA AnsweredEffect ==
    ASSUME TypeOK, NEW s \in Store, NEW n, Answered(s, n)
    PROVE  /\ \A t \in Store \ {s} : accepted'[t] = accepted[t]
           /\ \/ n > Limit /\ accepted'[s] = accepted[s]
              \/ ~(n > Limit) /\ accepted'[s] = OneMore(accepted[s])
  BY DEF Answered, TypeOK

LEMMA AnsweredGrows ==
    ASSUME TypeOK, AcceptedGrow, NEW s \in Store, NEW n, Answered(s, n)
    PROVE  AcceptedGrow'
  <1>1. \A t \in Store : accepted[t] \in Record /\ Growing(accepted[t])
    BY DEF TypeOK, Record, AcceptedGrow
  <1>2. Growing(OneMore(accepted[s]))
    BY <1>1, OneMoreGrows
  <1>3. \A t \in Store : Growing(accepted'[t])
    BY <1>1, <1>2, AnsweredEffect
  <1> QED BY <1>3 DEF AcceptedGrow, Growing

\* Redis counts a request and lets it through or not.
LEMMA RedisCounts ==
    ASSUME TypeOK, LimitInv, CountInRedis, Answered(Redis, count'), records' = records
    PROVE  LimitInv'
  <1>1. Redis \in Store /\ Pod \subseteq Store \ {Redis}
    BY RedisIsNoPod DEF Store
  <1>2. AcceptedGrow'
    BY <1>1, AnsweredGrows DEF LimitInv
  <1>3. \A t \in Store \ {Redis} : accepted'[t] = accepted[t]
    BY <1>1, AnsweredEffect
  <1>4. MemoryKnows'
    BY <1>1, <1>3 DEF LimitInv, MemoryKnows
  <1>5. KeyCounts'
    BY CountInRedisType, RateAssumption DEF KeyCounts
  <1>6. \A a \in Age : accepted[Redis][a] \in Nat /\ count \in Nat
                       /\ accepted[Redis][a] <= count /\ count <= count'
    BY <1>1, RateAssumption DEF TypeOK, Cap, LimitInv, RedisKnows, CountInRedis, AtMost
  <1>7. ASSUME NEW a \in Age PROVE accepted'[Redis][a] <= count'
    <2>1. CASE accepted'[Redis] = accepted[Redis]
      BY <2>1, <1>6, CountInRedisType DEF Cap
    <2>2. CASE accepted'[Redis] = OneMore(accepted[Redis])
      <3>1. accepted[Redis] \in Record
        BY <1>1 DEF TypeOK, Record
      <3>2. accepted'[Redis][a] = AtMost(accepted[Redis][a] + 1)
        BY <2>2, <3>1, OneMoreType
      <3> QED BY <1>6, <3>2, AtMostGrows DEF CountInRedis
    <2> QED BY <2>1, <2>2, <1>1, AnsweredEffect
  <1>8. RedisKnows'
    BY <1>7 DEF RedisKnows
  <1>9. KeyIsOldEnough'
    BY CountInRedisType, AgeFacts, RateAssumption DEF KeyIsOldEnough
  <1>10. accepted'[Redis][Window - 1] <= Limit
    <2>1. CASE accepted'[Redis] = accepted[Redis]
      BY <2>1, <1>1 DEF LimitInv, LimitPerStore
    <2>2. CASE ~(count' > Limit)
      <3>1. accepted'[Redis][Window - 1] \in Nat
        <4>1. accepted' \in [Store -> Record]
          BY <1>1, AnsweredType
        <4> QED BY <1>1, <4>1, AgeFacts, RateAssumption DEF Record, Cap
      <3> QED BY <2>2, <3>1, <1>7, AgeFacts, CountInRedisType, RateAssumption DEF Cap
    <2> QED BY <2>1, <2>2, <1>1, AnsweredEffect
  <1>11. LimitPerStore'
    BY <1>1, <1>3, <1>10 DEF LimitInv, LimitPerStore, Store
  <1> QED BY <1>2, <1>4, <1>5, <1>8, <1>9, <1>11 DEF LimitInv

\* A process counts a request and lets it through or not; Redis has counted it
\* too or has not.
LEMMA MemoryCounts ==
    ASSUME TypeOK, LimitInv, NEW p \in Pod, CountInMemory(p),
           CountInRedis \/ UNCHANGED <<count, ttl>>
    PROVE  LimitInv'
  <1>1. p \in Store /\ Redis \in Store \ {p} /\ Redis \in Store
    BY RedisIsNoPod DEF Store
  <1>2. Answered(p, Counted(records'[p]))
    BY DEF CountInMemory
  <1>3. AcceptedGrow'
    BY <1>1, <1>2, AnsweredGrows DEF LimitInv
  <1>4. \A t \in Store \ {p} : accepted'[t] = accepted[t]
    BY <1>1, <1>2, AnsweredEffect
  <1>5. records[p] \in Record /\ accepted[p] \in Record
    BY <1>1 DEF TypeOK, Record
  <1>6. /\ \A q \in Pod \ {p} : records'[q] = records[q]
        /\ records'[p] = OneMore(records[p])
    BY DEF CountInMemory, TypeOK
  <1>7. ASSUME NEW a \in Age PROVE accepted'[p][a] <= records'[p][a]
    <2>1. /\ accepted[p][a] \in Nat /\ records[p][a] \in Nat
          /\ records[p][a] <= Cap
          /\ accepted[p][a] <= records[p][a]
      BY <1>5, RateAssumption DEF Record, Cap, LimitInv, MemoryKnows
    <2>2. records'[p][a] = AtMost(records[p][a] + 1)
      BY <1>5, <1>6, OneMoreType
    <2>3. CASE accepted'[p] = accepted[p]
      BY <2>1, <2>2, <2>3, RateAssumption DEF AtMost, Cap
    <2>4. CASE accepted'[p] = OneMore(accepted[p])
      <3>1. accepted'[p][a] = AtMost(accepted[p][a] + 1)
        BY <2>4, <1>5, OneMoreType
      <3> QED BY <2>1, <2>2, <3>1, AtMostGrows
    <2> QED BY <2>3, <2>4, <1>1, <1>2, AnsweredEffect
  <1>8. MemoryKnows'
    <2>1. ASSUME NEW q \in Pod, q # p PROVE accepted'[q] = accepted[q]
      BY <2>1, <1>4 DEF Store
    <2> QED BY <2>1, <1>6, <1>7 DEF LimitInv, MemoryKnows
  <1>9. KeyCounts'
    BY CountInRedisType, RateAssumption DEF KeyCounts, LimitInv
  <1>10. RedisKnows'
    <2>1. accepted'[Redis] = accepted[Redis]
      BY <1>1, <1>4
    <2>2. \A a \in Age : accepted[Redis][a] \in Nat /\ count \in Nat
                         /\ accepted[Redis][a] <= count
      BY <1>1, RateAssumption DEF TypeOK, Cap, LimitInv, RedisKnows
    <2>3. count' \in Nat /\ count <= count'
      BY RateAssumption DEF TypeOK, CountInRedis, AtMost, Cap
    <2>4. \A a \in Age : accepted[Redis][a] <= count'
      BY <2>2, <2>3
    <2> QED BY <2>1, <2>4 DEF RedisKnows
  <1>11. KeyIsOldEnough'
    <2>1. accepted'[Redis] = accepted[Redis]
      BY <1>1, <1>4
    <2>2. CASE CountInRedis
      BY <2>2, CountInRedisType, AgeFacts, RateAssumption DEF KeyIsOldEnough
    <2>3. CASE UNCHANGED <<count, ttl>>
      BY <2>1, <2>3 DEF LimitInv, KeyIsOldEnough
    <2> QED BY <2>2, <2>3
  <1>12. accepted'[p][Window - 1] <= Limit
    <2>1. CASE accepted'[p] = accepted[p]
      BY <2>1, <1>1 DEF LimitInv, LimitPerStore
    <2>2. CASE ~(Counted(records'[p]) > Limit)
      <3>1. accepted'[p] \in Record /\ records'[p] \in Record
        BY <1>1, CountInMemoryType
      <3>2. accepted'[p][Window - 1] \in Nat /\ records'[p][Window - 1] \in Nat
        BY <3>1, AgeFacts, RateAssumption DEF Record, Cap
      <3>3. accepted'[p][Window - 1] <= records'[p][Window - 1]
        BY <1>7, AgeFacts
      <3> QED BY <2>2, <3>2, <3>3, RateAssumption DEF Counted
    <2> QED BY <2>1, <2>2, <1>1, <1>2, AnsweredEffect
  <1>13. LimitPerStore'
    BY <1>4, <1>12 DEF LimitInv, LimitPerStore
  <1> QED BY <1>3, <1>8, <1>9, <1>10, <1>11, <1>13 DEF LimitInv

\* Everything gets a tick older, and the key may expire.
LEMMA TickKeepsLimit == ASSUME TypeOK, LimitInv, Tick PROVE LimitInv'
  <1>1. \A s \in Store : accepted[s] \in Record /\ accepted'[s] = Older(accepted[s])
    BY DEF Tick, TypeOK, Record
  <1>2. \A p \in Pod : records[p] \in Record /\ records'[p] = Older(records[p])
    BY DEF Tick, TypeOK, Record
  <1>3. Pod \subseteq Store /\ Redis \in Store
    BY DEF Store
  <1>4. AcceptedGrow'
    <2>1. \A s \in Store : Growing(accepted'[s])
      BY <1>1, OlderGrows DEF LimitInv, AcceptedGrow
    <2> QED BY <2>1 DEF AcceptedGrow, Growing
  <1>5. MemoryKnows'
    <2> SUFFICES ASSUME NEW p \in Pod, NEW a \in Age
                 PROVE  Older(accepted[p])[a] <= Older(records[p])[a]
      BY <1>1, <1>2, <1>3 DEF MemoryKnows
    <2>1. CASE a = 0
      BY <2>1, <1>1, <1>2, <1>3, OlderType
    <2>2. CASE a # 0
      BY <2>2, <1>1, <1>2, <1>3, OlderType, AgeFacts DEF LimitInv, MemoryKnows
    <2> QED BY <2>1, <2>2
  <1>6. count \in Nat /\ ttl \in Nat /\ ttl <= Window
    BY RateAssumption DEF TypeOK, Cap
  <1>7. KeyCounts'
    BY <1>6 DEF LimitInv, KeyCounts, Tick
  <1>8. \A a \in Age : accepted[Redis][a] \in Nat
    BY <1>1, <1>3, RateAssumption DEF Record, Cap
  <1>9. KeyIsOldEnough'
    <2> SUFFICES ASSUME NEW a \in Age, a < Window - ttl'
                 PROVE  Older(accepted[Redis])[a] = 0
      BY <1>1, <1>3 DEF KeyIsOldEnough
    <2>1. CASE a = 0
      BY <2>1, <1>1, <1>3, OlderType
    <2>2. CASE a # 0
      <3>1. a - 1 \in Age /\ a - 1 < Window - ttl
        BY <2>2, <1>6, AgeFacts, RateAssumption DEF Tick
      <3>2. accepted[Redis][a - 1] = 0
        BY <3>1 DEF LimitInv, KeyIsOldEnough
      <3> QED BY <2>2, <3>2, <1>1, <1>3, OlderType
    <2> QED BY <2>1, <2>2
  <1>10. RedisKnows'
    <2>1. CASE ttl = 1
      <3>1. \A a \in Age : accepted'[Redis][a] = 0
        <4>1. \A a \in Age : a < Window - ttl'
          BY <2>1, AgeFacts, RateAssumption DEF Tick, Age
        <4> QED BY <4>1, <1>9 DEF KeyIsOldEnough
      <3> QED BY <2>1, <3>1 DEF RedisKnows, Tick
    <2>2. CASE ttl # 1
      <3>1. count' = count
        BY <2>2 DEF Tick
      <3> SUFFICES ASSUME NEW a \in Age PROVE Older(accepted[Redis])[a] <= count
        BY <3>1, <1>1, <1>3 DEF RedisKnows
      <3>2. CASE a = 0
        BY <3>2, <1>1, <1>3, <1>6, OlderType
      <3>3. CASE a # 0
        BY <3>3, <1>1, <1>3, OlderType, AgeFacts DEF LimitInv, RedisKnows
      <3> QED BY <3>2, <3>3
    <2> QED BY <2>1, <2>2
  <1>11. LimitPerStore'
    <2> SUFFICES ASSUME NEW s \in Store PROVE accepted'[s][Window - 1] <= Limit
      BY DEF LimitPerStore
    <2>1. Older(accepted[s])[Window - 1] <= accepted[s][Window - 1]
      BY <1>1, OlderGrows DEF LimitInv, AcceptedGrow
    <2>2. accepted[s][Window - 1] <= Limit
      BY DEF LimitInv, LimitPerStore
    <2>3. accepted[s][Window - 1] \in Nat /\ Older(accepted[s])[Window - 1] \in Nat
      BY <1>1, OlderType, AgeFacts, RateAssumption DEF Record, Cap
    <2> QED BY <1>1, <2>1, <2>2, <2>3, RateAssumption
  <1> QED BY <1>4, <1>5, <1>7, <1>9, <1>10, <1>11 DEF LimitInv

\* A store that loses its counters starts again with both.
LEMMA RestartKeepsLimit ==
    ASSUME TypeOK, LimitInv, RedisRestarts \/ \E p \in Pod : PodRestarts(p)
    PROVE  LimitInv'
  <1>1. Growing(Nothing) /\ Nothing[Window - 1] <= Limit
    BY NothingIsRecord, AgeFacts, RateAssumption DEF Growing
  <1>2. CASE RedisRestarts
    <2>1. Redis \in Store /\ Pod \subseteq Store \ {Redis}
      BY RedisIsNoPod DEF Store
    <2>2. /\ accepted'[Redis] = Nothing
          /\ \A s \in Store \ {Redis} : accepted'[s] = accepted[s]
          /\ records' = records /\ count' = 0 /\ ttl' = 0
      BY <1>2, <2>1 DEF RedisRestarts, TypeOK
    <2>3. AcceptedGrow'
      <3>1. \A s \in Store : Growing(accepted'[s])
        BY <1>1, <2>2 DEF LimitInv, AcceptedGrow
      <3> QED BY <3>1 DEF AcceptedGrow, Growing
    <2>4. MemoryKnows'
      BY <2>1, <2>2 DEF LimitInv, MemoryKnows
    <2>5. KeyCounts' /\ RedisKnows' /\ KeyIsOldEnough'
      BY <2>2, NothingIsRecord DEF KeyCounts, RedisKnows, KeyIsOldEnough
    <2>6. LimitPerStore'
      BY <1>1, <2>2 DEF LimitInv, LimitPerStore
    <2> QED BY <2>3, <2>4, <2>5, <2>6 DEF LimitInv
  <1>3. ASSUME NEW p \in Pod, PodRestarts(p) PROVE LimitInv'
    <2>1. p \in Store /\ Redis \in Store \ {p} /\ Pod \subseteq Store
      BY RedisIsNoPod DEF Store
    <2>2. /\ accepted'[p] = Nothing /\ records'[p] = Nothing
          /\ \A s \in Store \ {p} : accepted'[s] = accepted[s]
          /\ \A q \in Pod \ {p} : records'[q] = records[q]
          /\ count' = count /\ ttl' = ttl
      BY <1>3, <2>1 DEF PodRestarts, TypeOK
    <2>3. AcceptedGrow'
      <3>1. \A s \in Store : Growing(accepted'[s])
        BY <1>1, <2>2 DEF LimitInv, AcceptedGrow
      <3> QED BY <3>1 DEF AcceptedGrow, Growing
    <2>4. MemoryKnows'
      <3>1. \A a \in Age : accepted'[p][a] <= records'[p][a]
        BY <2>2, NothingIsRecord
      <3>2. \A q \in Pod \ {p} : accepted'[q] = accepted[q]
        BY <2>1, <2>2
      <3> QED BY <2>2, <3>1, <3>2 DEF LimitInv, MemoryKnows
    <2>5. KeyCounts' /\ RedisKnows' /\ KeyIsOldEnough'
      BY <2>1, <2>2 DEF LimitInv, KeyCounts, RedisKnows, KeyIsOldEnough
    <2>6. LimitPerStore'
      BY <1>1, <2>2 DEF LimitInv, LimitPerStore
    <2> QED BY <2>3, <2>4, <2>5, <2>6 DEF LimitInv
  <1> QED BY <1>2, <1>3

LEMMA NextLimit == TypeOK /\ LimitInv /\ [Next]_vars => LimitInv'
  <1> SUFFICES ASSUME TypeOK, LimitInv, [Next]_vars PROVE LimitInv'
    OBVIOUS
  <1>1. ASSUME NEW p \in Pod, CheckInRedis(p) PROVE LimitInv'
    BY <1>1, RedisCounts DEF CheckInRedis
  <1>2. ASSUME NEW p \in Pod, CheckFails(p) PROVE LimitInv'
    BY <1>2, MemoryCounts DEF CheckFails
  <1>3. ASSUME NEW p \in Pod, CheckInMemory(p) PROVE LimitInv'
    BY <1>3, MemoryCounts DEF CheckInMemory
  <1>4. CASE Tick
    BY <1>4, TickKeepsLimit
  <1>5. CASE RedisRestarts \/ \E p \in Pod : PodRestarts(p)
    BY <1>5, RestartKeepsLimit
  <1>6. CASE RedisChanges \/ UNCHANGED vars
    BY <1>6 DEF RedisChanges, vars, storeVars, history, LimitInv, AcceptedGrow, Growing,
                MemoryKnows, KeyCounts, RedisKnows, KeyIsOldEnough, LimitPerStore
  <1> QED BY <1>1, <1>2, <1>3, <1>4, <1>5, <1>6 DEF Next, CheckRate

\* No store lets more than the limit through in a window, however often the
\* processes change between Redis and their memory (check_rate and the 429 of
\* app.py:890).
THEOREM LimitHolds == Spec => []LimitPerStore
  <1>1. LimitInv => LimitPerStore
    BY DEF LimitInv
  <1> QED BY <1>1, InitLimit, NextLimit, TypeCorrect, PTL DEF Spec

-----------------------------------------------------------------------------
(* No counter runs ahead of the client.  What is not older than the silence *)
(* is counted nowhere, and a key in Redis ends with a window of silence.    *)

SilenceIsEmpty == \A p \in Pod : \A a \in Age : a < silence => records[p][a] = 0
KeyEndsInSilence == ttl <= Window - silence
BurstCounted == count <= burst /\ \A p \in Pod : \A a \in Age : records[p][a] <= burst

BurstInv == KeyCounts /\ SilenceIsEmpty /\ KeyEndsInSilence /\ BurstCounted

LEMMA InitBurst == Init => BurstInv
  <1> SUFFICES ASSUME Init PROVE BurstInv
    OBVIOUS
  <1>1. \A p \in Pod : \A a \in Age : records[p][a] = 0
    BY NothingIsRecord DEF Init
  <1> QED BY <1>1, RateAssumption
          DEF Init, BurstInv, KeyCounts, SilenceIsEmpty, KeyEndsInSilence, BurstCounted

\* A request ends the silence and is counted at most once in each store.
LEMMA RequestKeepsBurst ==
    ASSUME TypeOK, BurstInv,
           CountInRedis \/ UNCHANGED <<count, ttl>>,
           \/ records' = records
           \/ \E p \in Pod : records' = [records EXCEPT ![p] = OneMore(@)],
           silence' = 0, burst' = AtMost(burst + 1)
    PROVE  BurstInv'
  <1>1. /\ count \in Nat /\ burst \in Nat /\ count <= burst /\ burst <= Cap
        /\ count + 1 \in Nat /\ burst + 1 \in Nat /\ ttl <= Window
    BY RateAssumption DEF TypeOK, Cap, BurstInv, BurstCounted
  <1>2. burst <= burst' /\ burst' \in Nat
    BY <1>1, RateAssumption DEF AtMost, Cap
  <1>3. KeyCounts'
    BY CountInRedisType, RateAssumption DEF KeyCounts, BurstInv
  <1>4. SilenceIsEmpty'
    BY AgeFacts DEF SilenceIsEmpty
  <1>5. KeyEndsInSilence'
    BY <1>1, CountInRedisType, RateAssumption DEF KeyEndsInSilence, TypeOK
  <1>6. count' <= burst'
    <2>1. CASE CountInRedis
      BY <2>1, <1>1, AtMostGrows DEF CountInRedis
    <2>2. CASE count' = count
      BY <2>2, <1>1, <1>2
    <2> QED BY <2>1, <2>2
  <1>7. ASSUME NEW q \in Pod, NEW a \in Age PROVE records'[q][a] <= burst'
    <2>1. records[q] \in Record
      BY DEF TypeOK, Record
    <2>2. records[q][a] \in Nat /\ records[q][a] <= burst
      BY <2>1, RateAssumption DEF Record, Cap, BurstInv, BurstCounted
    <2>3. CASE records'[q] = records[q]
      BY <2>2, <2>3, <1>1, <1>2
    <2>4. CASE records'[q] = OneMore(records[q])
      <3>1. records'[q][a] = AtMost(records[q][a] + 1)
        BY <2>1, <2>4, OneMoreType
      <3> QED BY <2>2, <3>1, <1>1, AtMostGrows
    <2> QED BY <2>3, <2>4 DEF TypeOK
  <1> QED BY <1>3, <1>4, <1>5, <1>6, <1>7 DEF BurstInv, BurstCounted

LEMMA TickKeepsBurst == ASSUME TypeOK, BurstInv, Tick PROVE BurstInv'
  <1>1. \A p \in Pod : records[p] \in Record /\ records'[p] = Older(records[p])
    BY DEF Tick, TypeOK, Record
  <1>2. /\ silence \in 0..Window /\ ttl \in 0..Window /\ count \in Nat /\ burst \in Nat
        /\ silence' = IF silence = Window THEN Window ELSE silence + 1
        /\ ttl' = IF ttl = 0 THEN 0 ELSE ttl - 1
        /\ count' = IF ttl = 1 THEN 0 ELSE count
        /\ burst' = IF silence' = Window THEN 0 ELSE burst
        /\ (ttl = 0) <=> (count = 0)
        /\ ttl <= Window - silence /\ count <= burst
    BY RateAssumption DEF Tick, TypeOK, Cap, BurstInv, KeyCounts, KeyEndsInSilence, BurstCounted
  <1>3. KeyCounts' /\ KeyEndsInSilence' /\ count' <= burst'
    BY <1>2, RateAssumption DEF KeyCounts, KeyEndsInSilence
  <1>4. SilenceIsEmpty'
    <2> SUFFICES ASSUME NEW p \in Pod, NEW a \in Age, a < silence'
                 PROVE  Older(records[p])[a] = 0
      BY <1>1 DEF SilenceIsEmpty
    <2>1. CASE a = 0
      BY <2>1, <1>1, OlderType
    <2>2. CASE a # 0
      <3>1. a - 1 \in Age /\ a - 1 < silence
        BY <2>2, <1>2, AgeFacts, RateAssumption
      <3> QED BY <2>2, <3>1, <1>1, OlderType DEF BurstInv, SilenceIsEmpty
    <2> QED BY <2>1, <2>2
  <1>5. ASSUME NEW p \in Pod, NEW a \in Age PROVE records'[p][a] <= burst'
    <2>1. CASE silence' = Window
      <3>1. a < silence'
        BY <2>1, AgeFacts, RateAssumption DEF Age
      <3>2. records'[p][a] = 0
        BY <3>1, <1>4 DEF SilenceIsEmpty
      <3> QED BY <2>1, <3>2, <1>2
    <2>2. CASE silence' # Window /\ a = 0
      BY <2>2, <1>1, <1>2, OlderType
    <2>3. CASE silence' # Window /\ a # 0
      <3>1. a - 1 \in Age /\ records'[p][a] = records[p][a - 1]
        BY <2>3, <1>1, OlderType, AgeFacts
      <3> QED BY <2>3, <3>1, <1>2 DEF BurstInv, BurstCounted
    <2> QED BY <2>1, <2>2, <2>3
  <1> QED BY <1>3, <1>4, <1>5 DEF BurstInv, BurstCounted

LEMMA RestartKeepsBurst ==
    ASSUME TypeOK, BurstInv, RedisRestarts \/ \E p \in Pod : PodRestarts(p)
    PROVE  BurstInv'
  <1>1. burst \in Nat /\ silence \in 0..Window
    BY RateAssumption DEF TypeOK, Cap
  <1>2. CASE RedisRestarts
    BY <1>1, <1>2, RateAssumption
       DEF RedisRestarts, BurstInv, KeyCounts, SilenceIsEmpty, KeyEndsInSilence, BurstCounted
  <1>3. ASSUME NEW p \in Pod, PodRestarts(p) PROVE BurstInv'
    <2>1. /\ records'[p] = Nothing
          /\ \A q \in Pod \ {p} : records'[q] = records[q]
          /\ count' = count /\ ttl' = ttl /\ silence' = silence /\ burst' = burst
      BY <1>3 DEF PodRestarts, TypeOK
    <2>2. ASSUME NEW q \in Pod, NEW a \in Age
          PROVE  records'[q][a] <= burst /\ (a < silence => records'[q][a] = 0)
      <3>1. CASE q = p
        BY <3>1, <2>1, <1>1, NothingIsRecord
      <3>2. CASE q # p
        BY <3>2, <2>1 DEF BurstInv, BurstCounted, SilenceIsEmpty
      <3> QED BY <3>1, <3>2
    <2> QED BY <2>1, <2>2 DEF BurstInv, KeyCounts, SilenceIsEmpty, KeyEndsInSilence, BurstCounted
  <1> QED BY <1>2, <1>3

LEMMA NextBurst == TypeOK /\ BurstInv /\ [Next]_vars => BurstInv'
  <1> SUFFICES ASSUME TypeOK, BurstInv, [Next]_vars PROVE BurstInv'
    OBVIOUS
  <1>1. ASSUME NEW p \in Pod, CheckInRedis(p) PROVE BurstInv'
    BY <1>1, RequestKeepsBurst DEF CheckInRedis, Answered
  <1>2. ASSUME NEW p \in Pod, CheckFails(p) PROVE BurstInv'
    BY <1>2, RequestKeepsBurst DEF CheckFails, CountInMemory, Answered
  <1>3. ASSUME NEW p \in Pod, CheckInMemory(p) PROVE BurstInv'
    BY <1>3, RequestKeepsBurst DEF CheckInMemory, CountInMemory, Answered
  <1>4. CASE Tick
    BY <1>4, TickKeepsBurst
  <1>5. CASE RedisRestarts \/ \E p \in Pod : PodRestarts(p)
    BY <1>5, RestartKeepsBurst
  <1>6. CASE RedisChanges \/ UNCHANGED vars
    BY <1>6 DEF RedisChanges, vars, storeVars, history, BurstInv, KeyCounts, SilenceIsEmpty,
                KeyEndsInSilence, BurstCounted
  <1> QED BY <1>1, <1>2, <1>3, <1>4, <1>5, <1>6 DEF Next, CheckRate

\* A counter, in Redis or in a process, never exceeds the requests since the
\* client's last silence of a window: a client that stays within the limit
\* is never refused, even where a late Redis counts a request a second time.
THEOREM NoneRunsAhead == Spec => []NoCounterRunsAhead
  <1>1. TypeOK /\ BurstInv => NoCounterRunsAhead
    <2> SUFFICES ASSUME TypeOK, BurstInv, NEW s \in Store PROVE InStore(s) <= burst
      BY DEF NoCounterRunsAhead
    <2>1. CASE s = Redis
      BY <2>1 DEF InStore, BurstInv, BurstCounted
    <2>2. CASE s # Redis
      <3>1. s \in Pod
        BY <2>2 DEF Store
      <3> QED BY <2>2, <3>1, AgeFacts DEF InStore, Counted, BurstInv, BurstCounted
    <2> QED BY <2>1, <2>2
  <1> QED BY <1>1, InitBurst, NextBurst, TypeCorrect, PTL DEF Spec

=============================================================================
