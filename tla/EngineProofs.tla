---------------------------- MODULE EngineProofs ----------------------------
(***************************************************************************)
(* What the operations of MitigationEngine do to its types and to single   *)
(* entries, for whoever calls them, and the promises of the engine under   *)
(* any caller (EngineUse): for any processes, entities, ids, durations and *)
(* faults.                                                                 *)
(***************************************************************************)
EXTENDS EngineUse, TLAPS

-----------------------------------------------------------------------------
\* What an action is turned into

LEMMA EntryTypes ==
    ASSUME NEW act \in Action
    PROVE  EntryOf(act) \in Entry /\ EntryOf(act).id = act.id /\ TableOf(act) \in Table
<1>1. act.kind \in Kind /\ act.id \in Id
  BY DEF Action
<1>2. Duration[act.kind] \in -1..Forever /\ Forever \in -1..Forever
  BY <1>1, EngineAssumption DEF Forever
<1>3. TableOf(act) \in Table
  BY DEF TableOf, Table, SharedTable, LocalTable
<1>4. QED
  BY <1>1, <1>2, <1>3 DEF EntryOf, Entry

LEMMA AbsentTypes == Absent \in Entry /\ EmptyTable \in [Entity -> Entry] /\ ~Present(Absent)
<1>1. 0 \in -1..Forever
  BY EngineAssumption DEF Forever
<1>2. QED
  BY <1>1 DEF Absent, EmptyTable, Entry, Present

\* An entry that gets older keeps its type and its action.
LEMMA OlderTypes ==
    ASSUME NEW entry \in Entry
    PROVE  /\ Older(entry) \in Entry
           /\ Older(entry).id = entry.id
BY EngineAssumption DEF Older, Entry, Forever

-----------------------------------------------------------------------------
\* The store

LEMMA StorePutTypes ==
    ASSUME EngineTypeOK, NEW p \in Pod, NEW t \in SharedTable, NEW e \in Entity,
           NEW entry \in Entry, entry.left \in 1..Forever, StorePut(p, t, e, entry)
    PROVE  /\ fallback' \in [Pod -> [SharedTable -> [Entity -> Entry]]]
           /\ redis' \in [SharedTable -> [Entity -> Entry]]
           /\ redisTTL' \in [SharedTable -> 1..Forever]
<1>1. fallback' = [fallback EXCEPT ![p][t][e] = entry]
  BY DEF StorePut
<1>2. redis' = redis \/ redis' = [redis EXCEPT ![t][e] = entry]
  BY DEF StorePut
<1>3. redisTTL' = redisTTL \/ redisTTL' = [redisTTL EXCEPT ![t] = entry.left]
  BY DEF StorePut, Expire
<1>4. fallback' \in [Pod -> [SharedTable -> [Entity -> Entry]]]
  BY <1>1 DEF EngineTypeOK
<1>5. redis' \in [SharedTable -> [Entity -> Entry]]
  <2>1. redis \in [SharedTable -> [Entity -> Entry]]
    BY DEF EngineTypeOK
  <2>2. [redis[t] EXCEPT ![e] = entry] \in [Entity -> Entry]
    BY <2>1
  <2>3. redis' = redis \/ redis' = [redis EXCEPT ![t] = [redis[t] EXCEPT ![e] = entry]]
    BY <1>2
  <2> QED
    BY <2>1, <2>2, <2>3
<1>6. redisTTL' \in [SharedTable -> 1..Forever]
  BY <1>3 DEF EngineTypeOK
<1> QED
  BY <1>4, <1>5, <1>6

LEMMA StoreDeleteTypes ==
    ASSUME EngineTypeOK, NEW p \in Pod, NEW t \in SharedTable, NEW e \in Entity,
           StoreDelete(p, t, e)
    PROVE  /\ fallback' \in [Pod -> [SharedTable -> [Entity -> Entry]]]
           /\ redis' \in [SharedTable -> [Entity -> Entry]]
           /\ redisTTL' \in [SharedTable -> 1..Forever]
<1>1. Forever \in 1..Forever
  BY EngineAssumption DEF Forever
<1>2. fallback' \in [Pod -> [SharedTable -> [Entity -> Entry]]]
  BY AbsentTypes DEF StoreDelete, EngineTypeOK
<1>3. [redis[t] EXCEPT ![e] = Absent] \in [Entity -> Entry]
  BY AbsentTypes DEF EngineTypeOK
<1>4. \A hash : TTLAfterDelete(t, hash) \in 1..Forever
  BY <1>1 DEF TTLAfterDelete, EngineTypeOK
<1>5. CASE Reaches(p)
  <2>1. /\ redis' = [redis EXCEPT ![t] = [redis[t] EXCEPT ![e] = Absent]]
        /\ redisTTL' = [redisTTL EXCEPT
             ![t] = TTLAfterDelete(t, [redis[t] EXCEPT ![e] = Absent])]
    BY <1>5 DEF StoreDelete
  <2>2. QED
    BY <1>2, <1>3, <1>4, <2>1 DEF EngineTypeOK
<1>6. CASE ~Reaches(p)
  BY <1>2, <1>6 DEF StoreDelete, EngineTypeOK
<1>7. QED
  BY <1>5, <1>6

-----------------------------------------------------------------------------
\* apply_action

LEMMA ApplyTypes ==
    ASSUME EngineTypeOK, NEW p \in Pod, NEW acts \in SUBSET Action, NEW st,
           ApplyActions(p, acts, st)
    PROVE  EngineTypeOK'
<1> DEFINE accepted == {act \in acts : Accepts(act, st)}
<1>1. \A t \in Table : AfterApplying(p, t, accepted) \in [Entity -> Entry]
  <2> SUFFICES ASSUME NEW t \in Table, NEW e \in Entity
               PROVE  AfterApplying(p, t, accepted)[e] \in Entry
    BY DEF AfterApplying
  <2> DEFINE hits == {act \in accepted : TableOf(act) = t /\ act.target = e}
  <2>1. CASE hits = {}
    BY <2>1 DEF AfterApplying, EngineTypeOK
  <2>2. CASE hits # {}
    <3>1. (CHOOSE act \in hits : TRUE) \in Action
      BY <2>2
    <3>2. QED
      BY <2>2, <3>1, EntryTypes DEF AfterApplying
  <2>3. QED
    BY <2>1, <2>2
<1>2. local' \in [Pod -> [Table -> [Entity -> Entry]]]
  BY <1>1 DEF ApplyActions, EngineTypeOK
<1>3. registry' \in [Pod -> SUBSET Action]
  BY DEF ApplyActions, EngineTypeOK
<1>4. /\ fallback' \in [Pod -> [SharedTable -> [Entity -> Entry]]]
      /\ redis' \in [SharedTable -> [Entity -> Entry]]
      /\ redisTTL' \in [SharedTable -> 1..Forever]
  <2>1. CASE {act \in accepted : TableOf(act) \in SharedTable} = {}
    BY <2>1 DEF ApplyActions, EngineTypeOK
  <2>2. CASE {act \in accepted : TableOf(act) \in SharedTable} # {}
    <3>1. PICK act \in accepted : /\ TableOf(act) \in SharedTable
                                  /\ StorePut(p, TableOf(act), act.target, EntryOf(act))
      BY <2>2 DEF ApplyActions
    <3>2. act \in Action /\ act.target \in Entity
      BY DEF Action
    <3>3. EntryOf(act).left \in 1..Forever
      BY <3>2, EngineAssumption DEF EntryOf, Action, Forever
    <3>4. QED
      BY <3>1, <3>2, <3>3, EntryTypes, StorePutTypes
  <2>3. QED
    BY <2>1, <2>2
<1>5. QED
  BY <1>2, <1>3, <1>4 DEF ApplyActions, EngineTypeOK

\* apply_action changes an entry only of its process, where an action goes.
LEMMA ApplyElsewhere ==
    ASSUME EngineTypeOK, NEW p \in Pod, NEW acts \in SUBSET Action, NEW st,
           ApplyActions(p, acts, st),
           NEW q \in Pod, NEW t \in Table, NEW e \in Entity,
           \/ q # p
           \/ \A act \in acts :
                ~(Accepts(act, st) /\ TableOf(act) = t /\ act.target = e)
    PROVE  local'[q][t][e] = local[q][t][e]
<1> DEFINE accepted == {act \in acts : Accepts(act, st)}
<1>1. local' = [local EXCEPT ![p] = [u \in Table |-> AfterApplying(p, u, accepted)]]
  BY DEF ApplyActions
<1>2. CASE q # p
  BY <1>1, <1>2 DEF EngineTypeOK
<1>3. CASE q = p /\ \A act \in acts :
               ~(Accepts(act, st) /\ TableOf(act) = t /\ act.target = e)
  <2>1. local'[q][t] = AfterApplying(p, t, accepted)
    BY <1>1, <1>3 DEF EngineTypeOK
  <2>2. {act \in accepted : TableOf(act) = t /\ act.target = e} = {}
    BY <1>3
  <2> HIDE DEF accepted
  <2> QED
    BY <1>3, <2>1, <2>2 DEF AfterApplying
<1> QED
  BY <1>2, <1>3

\* Where an accepted action goes alone, its entry is.
LEMMA ApplyThere ==
    ASSUME EngineTypeOK, NEW p \in Pod, NEW acts \in SUBSET Action, NEW st,
           ApplyActions(p, acts, st), NEW act \in acts, Accepts(act, st),
           \A b \in acts : TableOf(b) = TableOf(act) /\ b.target = act.target => b = act
    PROVE  local'[p][TableOf(act)][act.target] = EntryOf(act)
<1> DEFINE accepted == {a \in acts : Accepts(a, st)}
<1>1. local' = [local EXCEPT ![p] = [u \in Table |-> AfterApplying(p, u, accepted)]]
  BY DEF ApplyActions
<1>2. TableOf(act) \in Table /\ act.target \in Entity
  BY EntryTypes DEF Action
<1>3. local'[p][TableOf(act)] = AfterApplying(p, TableOf(act), accepted)
  BY <1>1, <1>2 DEF EngineTypeOK
<1>4. {a \in accepted : TableOf(a) = TableOf(act) /\ a.target = act.target} = {act}
  OBVIOUS
<1> HIDE DEF accepted
<1> QED
  BY <1>2, <1>3, <1>4 DEF AfterApplying

-----------------------------------------------------------------------------
\* rollback_action

LEMMA RollbackTypes ==
    ASSUME EngineTypeOK, NEW p \in Pod, NEW id \in Id, RollbackAction(p, id)
    PROVE  EngineTypeOK'
<1>1. CASE \E act \in registry[p] : act.id = id
  <2> DEFINE act == CHOOSE a \in registry[p] : a.id = id
  <2>1. act \in registry[p] /\ act \in Action
    BY <1>1 DEF EngineTypeOK
  <2>2. act.target \in Entity /\ TableOf(act) \in Table
    BY <2>1, EntryTypes DEF Action
  <2>r. /\ local' = [local EXCEPT ![p][TableOf(act)][act.target] = Absent]
        /\ registry' = [registry EXCEPT ![p] = @ \ {act}]
        /\ IF TableOf(act) \in SharedTable
             THEN StoreDelete(p, TableOf(act), act.target)
             ELSE UNCHANGED <<fallback, redis, redisTTL>>
        /\ UNCHANGED <<connected, redisUp>>
    BY <1>1 DEF RollbackAction
  <2> HIDE DEF act
  <2>3. local' \in [Pod -> [Table -> [Entity -> Entry]]]
    BY <2>r, <2>2, AbsentTypes DEF EngineTypeOK
  <2>4. registry' \in [Pod -> SUBSET Action]
    BY <2>r DEF EngineTypeOK
  <2>5. /\ fallback' \in [Pod -> [SharedTable -> [Entity -> Entry]]]
        /\ redis' \in [SharedTable -> [Entity -> Entry]]
        /\ redisTTL' \in [SharedTable -> 1..Forever]
    <3>1. CASE TableOf(act) \in SharedTable
      BY <2>r, <2>2, <3>1, StoreDeleteTypes
    <3>2. CASE TableOf(act) \notin SharedTable
      BY <2>r, <3>2 DEF EngineTypeOK
    <3>3. QED
      BY <3>1, <3>2
  <2>6. QED
    BY <2>r, <2>3, <2>4, <2>5 DEF EngineTypeOK
<1>2. CASE ~ \E act \in registry[p] : act.id = id
  BY <1>2 DEF RollbackAction, engineVars, EngineTypeOK
<1>3. QED
  BY <1>1, <1>2

-----------------------------------------------------------------------------
\* evaluate_request

\* The quarantine that is looked at is the first that is present of the four.
LEMMA QuarantineFound ==
    ASSUME NEW p, NEW r
    PROVE  LET q == "quarantined_ips"
               byIp == Look(p, q, r.ip)
               byName == Look(p, q, r.principal)
               sharedByIp == LookShared(p, q, r.ip)
               sharedByName == LookShared(p, q, r.principal)
               For(e, entry) == QuarantineFor(p, r) = [key |-> e, entry |-> entry]
           IN  \/ Present(byIp) /\ For(r.ip, byIp)
               \/ ~Present(byIp) /\ Present(byName) /\ For(r.principal, byName)
               \/ /\ ~Present(byIp) /\ ~Present(byName)
                  /\ Present(sharedByIp) /\ For(r.ip, sharedByIp)
               \/ /\ ~Present(byIp) /\ ~Present(byName) /\ ~Present(sharedByIp)
                  /\ Present(sharedByName) /\ For(r.principal, sharedByName)
               \/ /\ ~Present(byIp) /\ ~Present(byName)
                  /\ ~Present(sharedByIp) /\ ~Present(sharedByName)
                  /\ For(NoId, Absent)
<1> DEFINE q == "quarantined_ips"
           found == <<[key |-> r.ip, entry |-> Look(p, q, r.ip)],
                      [key |-> r.principal, entry |-> Look(p, q, r.principal)],
                      [key |-> r.ip, entry |-> LookShared(p, q, r.ip)],
                      [key |-> r.principal, entry |-> LookShared(p, q, r.principal)]>>
           hits == {n \in 1..4 : Present(found[n].entry)}
           first == CHOOSE n \in hits : \A m \in hits : n <= m
<1>1. QuarantineFor(p, r) = IF hits = {} THEN [key |-> NoId, entry |-> Absent] ELSE found[first]
  BY DEF QuarantineFor
<1>2. /\ found[1] = [key |-> r.ip, entry |-> Look(p, q, r.ip)]
      /\ found[2] = [key |-> r.principal, entry |-> Look(p, q, r.principal)]
      /\ found[3] = [key |-> r.ip, entry |-> LookShared(p, q, r.ip)]
      /\ found[4] = [key |-> r.principal, entry |-> LookShared(p, q, r.principal)]
  OBVIOUS
<1>3. hits \subseteq 1..4 /\ \A n \in 1..4 : n \in hits <=> Present(found[n].entry)
  OBVIOUS
<1> HIDE DEF found, hits
<1>4. ASSUME NEW k \in hits, \A m \in 1..(k - 1) : m \notin hits
      PROVE  QuarantineFor(p, r) = found[k]
  <2>1. \A m \in hits : k <= m
    BY <1>3, <1>4
  <2>2. first \in hits /\ \A m \in hits : first <= m
    BY <2>1
  <2>3. first = k
    <3> HIDE DEF first
    <3> QED
      BY <1>3, <2>1, <2>2
  <2> QED
    BY <1>1, <2>3
<1>5. CASE 1 \in hits
  BY <1>2, <1>3, <1>4, <1>5
<1>6. CASE 1 \notin hits /\ 2 \in hits
  BY <1>2, <1>3, <1>4, <1>6
<1>7. CASE 1 \notin hits /\ 2 \notin hits /\ 3 \in hits
  <2>1. QuarantineFor(p, r) = found[3]
    BY <1>4, <1>7
  <2> QED
    BY <1>2, <1>3, <1>7, <2>1
<1>8. CASE 1 \notin hits /\ 2 \notin hits /\ 3 \notin hits /\ 4 \in hits
  <2>1. QuarantineFor(p, r) = found[4]
    BY <1>4, <1>8
  <2> QED
    BY <1>2, <1>3, <1>8, <2>1
<1>9. CASE hits = {}
  BY <1>1, <1>2, <1>3, <1>9
<1> QED
  BY <1>3, <1>5, <1>6, <1>7, <1>8, <1>9

\* It is of an entity, if there is one.
LEMMA QuarantineKey ==
    ASSUME NEW p \in Pod, NEW r \in Request, Present(QuarantineFor(p, r).entry)
    PROVE  QuarantineFor(p, r).key \in Entity
<1>1. r.ip \in Entity /\ r.principal \in Entity \cup {NoId}
  BY DEF Request
<1>2. ~Present(Absent) /\ \A t : Look(p, t, NoId) = Absent /\ LookShared(p, t, NoId) = Absent
  BY AbsentTypes DEF Look, LookShared
<1> QED
  BY <1>1, <1>2, QuarantineFound

LEMMA EvaluateTypes ==
    ASSUME EngineTypeOK, NEW p \in Pod, NEW r \in Request, EvaluateRequest(p, r)
    PROVE  EngineTypeOK'
<1> DEFINE seen == Consulted(p, r)
           swept == {n \in 1..(AnsweringStep(seen) - 1) : Expired(seen[n])}
           key == QuarantineFor(p, r).key
<1>2. local' \in [Pod -> [Table -> [Entity -> Entry]]]
  <2>1. local' = [local EXCEPT ![p] = [local[p] EXCEPT
           !["quarantined_ips"] = Sweep(@, 2 \in swept, key),
           !["revoked_principals"] = Sweep(@, 4 \in swept, r.principal),
           !["mfa_enforced_principals"] = Sweep(@, 5 \in swept, r.principal),
           !["dynamic_rate_limits"] = Sweep(@, 6 \in swept, ThrottleKey(p, r))]]
    BY DEF EvaluateRequest
  <2> HIDE DEF swept, key
  <2>2. \A n, e : \A table \in [Entity -> Entry] :
          Sweep(table, n \in swept, e) \in [Entity -> Entry]
    BY AbsentTypes DEF Sweep
  <2>3. \A t \in Table : local[p][t] \in [Entity -> Entry]
    BY DEF EngineTypeOK
  <2>4. local'[p] \in [Table -> [Entity -> Entry]]
    BY <2>1, <2>2, <2>3 DEF EngineTypeOK, Table, SharedTable, LocalTable
  <2>5. QED
    BY <2>1, <2>4 DEF EngineTypeOK
<1>3. CASE 2 \in swept
  <2>1. Present(QuarantineFor(p, r).entry)
    BY <1>3 DEF Expired, Consulted
  <2>2. key \in Entity /\ "quarantined_ips" \in SharedTable
    BY <2>1, QuarantineKey DEF SharedTable
  <2>3. StoreDelete(p, "quarantined_ips", key)
    BY <1>3 DEF EvaluateRequest
  <2>4. QED
    BY <1>2, <2>2, <2>3, StoreDeleteTypes DEF EvaluateRequest, EngineTypeOK
<1>4. CASE 2 \notin swept
  BY <1>2, <1>4 DEF EvaluateRequest, EngineTypeOK
<1>5. QED
  BY <1>3, <1>4

\* Evaluating a request removes from the tables of its process only what is over.
LEMMA EvaluateKeeps ==
    ASSUME EngineTypeOK, NEW p \in Pod, NEW r \in Request, EvaluateRequest(p, r),
           NEW q \in Pod, NEW t \in Table, NEW e \in Entity,
           Present(local[q][t][e]), local[q][t][e].left >= 0
    PROVE  local'[q][t][e] = local[q][t][e]
<1> DEFINE seen == Consulted(p, r)
           swept == {n \in 1..(AnsweringStep(seen) - 1) : Expired(seen[n])}
           key == QuarantineFor(p, r).key
<1>1. local' = [local EXCEPT ![p] = [local[p] EXCEPT
         !["quarantined_ips"] = Sweep(@, 2 \in swept, key),
         !["revoked_principals"] = Sweep(@, 4 \in swept, r.principal),
         !["mfa_enforced_principals"] = Sweep(@, 5 \in swept, r.principal),
         !["dynamic_rate_limits"] = Sweep(@, 6 \in swept, ThrottleKey(p, r))]]
  BY DEF EvaluateRequest
<1>2. CASE q # p
  BY <1>1, <1>2 DEF EngineTypeOK
<1>k. q = p => /\ Present(local[p][t][e]) /\ ~Expired(local[p][t][e])
               /\ local[p][t][e] # Absent /\ e # NoId
  <2>1. local[q][t][e] \in Entry
    BY DEF EngineTypeOK
  <2>2. ~Expired(local[q][t][e])
    BY <2>1, EngineAssumption DEF Expired, Entry, Forever
  <2> QED
    BY <2>2, AbsentTypes, EngineAssumption
<1>q. 2 \in swept /\ q = p /\ t = "quarantined_ips" => e # key
  <2> SUFFICES ASSUME 2 \in swept, q = p, t = "quarantined_ips", e = key PROVE FALSE
    OBVIOUS
  <2>1. Expired(QuarantineFor(p, r).entry)
    BY DEF Consulted
  <2>2. /\ Look(p, t, key) = local[p][t][e] /\ Present(Look(p, t, key))
        /\ ~Expired(Look(p, t, key)) /\ ~Expired(Absent)
    BY <1>k, AbsentTypes DEF Look, Expired
  <2> QED
    BY <2>1, <2>2, QuarantineFound
<1>r. 4 \in swept /\ q = p /\ t = "revoked_principals" => e # r.principal
  BY <1>k DEF Consulted, Look
<1>m. 5 \in swept /\ q = p /\ t = "mfa_enforced_principals" => e # r.principal
  BY <1>k DEF Consulted, Look
<1>d. 6 \in swept /\ q = p /\ t = "dynamic_rate_limits" => e # ThrottleKey(p, r)
  BY <1>k DEF Consulted, Look
<1>3. CASE q = p
  <2> HIDE DEF swept, key
  <2>1. \A table \in [Entity -> Entry] : \A n, f :
          (n \in swept => e # f) => Sweep(table, n \in swept, f)[e] = table[e]
    BY DEF Sweep
  <2>2. \A u \in Table : local[p][u] \in [Entity -> Entry]
    BY DEF EngineTypeOK
  <2>3. local'[p] = [local[p] EXCEPT
         !["quarantined_ips"] = Sweep(@, 2 \in swept, key),
         !["revoked_principals"] = Sweep(@, 4 \in swept, r.principal),
         !["mfa_enforced_principals"] = Sweep(@, 5 \in swept, r.principal),
         !["dynamic_rate_limits"] = Sweep(@, 6 \in swept, ThrottleKey(p, r))]
    BY <1>1 DEF EngineTypeOK
  <2>4. DOMAIN local[p] = Table
    BY DEF EngineTypeOK
  <2>5. CASE t = "quarantined_ips"
    BY <1>3, <1>q, <2>1, <2>2, <2>3, <2>4, <2>5
  <2>6. CASE t = "revoked_principals"
    BY <1>3, <1>r, <2>1, <2>2, <2>3, <2>4, <2>6
  <2>7. CASE t = "mfa_enforced_principals"
    BY <1>3, <1>m, <2>1, <2>2, <2>3, <2>4, <2>7
  <2>8. CASE t = "dynamic_rate_limits"
    BY <1>3, <1>d, <2>1, <2>2, <2>3, <2>4, <2>8
  <2>9. CASE t \notin {"quarantined_ips", "revoked_principals",
                       "mfa_enforced_principals", "dynamic_rate_limits"}
    BY <1>3, <2>3, <2>4, <2>9
  <2> QED
    BY <2>5, <2>6, <2>7, <2>8, <2>9
<1> QED
  BY <1>2, <1>3

\* The step that answers is the first whose table shows an entry in force.
LEMMA FirstAnswers ==
    ASSUME NEW p, NEW r
    PROVE  LET seen == Consulted(p, r)
               n == AnsweringStep(seen)
           IN  /\ n \in 1..7 /\ (n = 7 \/ InForce(seen[n]))
               /\ \A m \in 1..(n - 1) : ~InForce(seen[m])
<1> DEFINE seen == Consulted(p, r)
           hits == {k \in 1..6 : InForce(seen[k])}
<1> HIDE DEF seen
<1>1. hits \subseteq {1, 2, 3, 4, 5, 6} /\ \A k \in 1..6 : InForce(seen[k]) <=> k \in hits
  OBVIOUS
<1> HIDE DEF hits
<1>2. \E n \in 1..7 : /\ n = 7 \/ n \in hits
                      /\ \A m \in 1..(n - 1) : m \notin hits
  <2>1. CASE hits = {}
    BY <2>1
  <2>2. CASE hits # {}
    <3>a. hits \subseteq {1, 2, 3, 4, 5, 6} /\ hits # {}
      BY <1>1, <2>2
    <3>b. \/ 1 \in hits
          \/ 1 \notin hits /\ 2 \in hits
          \/ {1, 2} \cap hits = {} /\ 3 \in hits
          \/ {1, 2, 3} \cap hits = {} /\ 4 \in hits
          \/ {1, 2, 3, 4} \cap hits = {} /\ 5 \in hits
          \/ {1, 2, 3, 4, 5} \cap hits = {} /\ 6 \in hits
      BY <3>a
    <3>1. PICK n \in hits : n \in 1..6 /\ \A m \in 1..(n - 1) : m \notin hits
      BY <3>b
    <3> QED
      BY <1>1, <3>1
  <2> QED
    BY <2>1, <2>2
<1>3. \E n \in 1..7 : /\ n = 7 \/ InForce(seen[n])
                      /\ \A m \in 1..(n - 1) : ~InForce(seen[m])
  BY <1>1, <1>2
<1> QED
  BY <1>3 DEF AnsweringStep, seen

\* Whichever table shows an entry in force, the request is mitigated.
LEMMA InForceMitigates ==
    ASSUME NEW p, NEW r, NEW n \in 1..6, InForce(Consulted(p, r)[n])
    PROVE  IsMitigated(p, r)
BY FirstAnswers DEF IsMitigated

-----------------------------------------------------------------------------
\* Time and faults

LEMMA TickTypes ==
    ASSUME EngineTypeOK, EngineTick
    PROVE  EngineTypeOK'
<1>1. \A table \in [Entity -> Entry] : OlderTable(table) \in [Entity -> Entry]
  BY OlderTypes DEF OlderTable
<1>2. local' \in [Pod -> [Table -> [Entity -> Entry]]]
  BY <1>1 DEF EngineTick, EngineTypeOK
<1>3. fallback' \in [Pod -> [SharedTable -> [Entity -> Entry]]]
  BY <1>1 DEF EngineTick, EngineTypeOK
<1>4. redis' \in [SharedTable -> [Entity -> Entry]]
  BY <1>1, AbsentTypes DEF EngineTick, EngineTypeOK
<1>5. redisTTL' \in [SharedTable -> 1..Forever]
  <2>1. \A n \in 1..Forever :
          (CASE n = Forever -> Forever [] n = 1 -> Forever [] OTHER -> n - 1) \in 1..Forever
    BY EngineAssumption DEF Forever
  <2>2. QED
    BY <2>1 DEF EngineTick, EngineTypeOK
<1>6. QED
  BY <1>2, <1>3, <1>4, <1>5 DEF EngineTick, EngineTypeOK

LEMMA RedisFaultTypes ==
    ASSUME EngineTypeOK, RedisToggles \/ RedisRestarts \/ \E p \in Pod : Reconnects(p)
    PROVE  EngineTypeOK'
<1>1. CASE RedisToggles
  BY <1>1 DEF RedisToggles, EngineTypeOK
<1>2. CASE RedisRestarts
  <2>1. Forever \in 1..Forever
    BY EngineAssumption DEF Forever
  <2> QED
    BY <1>2, <2>1, AbsentTypes DEF RedisRestarts, EngineTypeOK
<1>3. CASE \E p \in Pod : Reconnects(p)
  BY <1>3 DEF Reconnects, EngineTypeOK
<1> QED
  BY <1>1, <1>2, <1>3

LEMMA PodRestartTypes ==
    ASSUME EngineTypeOK, NEW p \in Pod, PodRestarts(p)
    PROVE  EngineTypeOK'
BY AbsentTypes DEF PodRestarts, EngineTypeOK

-----------------------------------------------------------------------------
\* Entry by entry

LEMMA PutEffects ==
    ASSUME EngineTypeOK, NEW p \in Pod, NEW t \in SharedTable, NEW e \in Entity,
           NEW entry, StorePut(p, t, e, entry)
    PROVE  /\ \A q \in Pod, u \in SharedTable, f \in Entity :
                fallback'[q][u][f] = IF q = p /\ u = t /\ f = e THEN entry
                                     ELSE fallback[q][u][f]
           /\ \A u \in SharedTable, f \in Entity :
                redis'[u][f] = IF Reaches(p) /\ u = t /\ f = e THEN entry ELSE redis[u][f]
           /\ \A u \in SharedTable :
                \/ redisTTL'[u] = redisTTL[u]
                \/ /\ Reaches(p) /\ u = t /\ entry.left # Forever
                   /\ redisTTL'[u] = entry.left
<1>1. fallback' = [fallback EXCEPT ![p][t][e] = entry]
  BY DEF StorePut
<1>2. CASE Reaches(p)
  <2>1. /\ redis' = [redis EXCEPT ![t][e] = entry]
        /\ \/ redisTTL' = redisTTL
           \/ entry.left # Forever /\ redisTTL' = [redisTTL EXCEPT ![t] = entry.left]
    BY <1>2 DEF StorePut, Expire
  <2> QED
    BY <1>1, <1>2, <2>1 DEF EngineTypeOK
<1>3. CASE ~Reaches(p)
  <2>1. redis' = redis /\ redisTTL' = redisTTL
    BY <1>3 DEF StorePut
  <2> QED
    BY <1>1, <1>3, <2>1 DEF EngineTypeOK
<1> QED
  BY <1>2, <1>3

LEMMA DeleteEffects ==
    ASSUME EngineTypeOK, NEW p \in Pod, NEW t \in SharedTable, NEW e \in Entity,
           StoreDelete(p, t, e)
    PROVE  /\ \A q \in Pod, u \in SharedTable, f \in Entity :
                fallback'[q][u][f] = IF q = p /\ u = t /\ f = e THEN Absent
                                     ELSE fallback[q][u][f]
           /\ \A u \in SharedTable, f \in Entity :
                redis'[u][f] = IF Reaches(p) /\ u = t /\ f = e THEN Absent ELSE redis[u][f]
           /\ \A u \in SharedTable : redisTTL'[u] \in {redisTTL[u], Forever}
<1>1. fallback' = [fallback EXCEPT ![p][t][e] = Absent]
  BY DEF StoreDelete
<1>2. CASE Reaches(p)
  <2>1. /\ redis' = [redis EXCEPT ![t] = [redis[t] EXCEPT ![e] = Absent]]
        /\ \E ttl \in {redisTTL[t], Forever} : redisTTL' = [redisTTL EXCEPT ![t] = ttl]
    BY <1>2 DEF StoreDelete, TTLAfterDelete
  <2> QED
    BY <1>1, <1>2, <2>1 DEF EngineTypeOK
<1>3. CASE ~Reaches(p)
  <2>1. redis' = redis /\ redisTTL' = redisTTL
    BY <1>3 DEF StoreDelete
  <2> QED
    BY <1>1, <1>3, <2>1 DEF EngineTypeOK
<1> QED
  BY <1>2, <1>3

\* apply_action of one action that is accepted
LEMMA ApplyAccepted ==
    ASSUME EngineTypeOK, NEW p \in Pod, NEW act \in Action, NEW st,
           ApplyActions(p, {act}, st), Accepts(act, st)
    PROVE  /\ registry' = [registry EXCEPT ![p] = @ \cup {act}]
           /\ \A q \in Pod, t \in Table, e \in Entity :
                local'[q][t][e] = IF q = p /\ t = TableOf(act) /\ e = act.target
                                  THEN EntryOf(act) ELSE local[q][t][e]
           /\ IF TableOf(act) \in SharedTable
                THEN StorePut(p, TableOf(act), act.target, EntryOf(act))
                ELSE UNCHANGED <<fallback, redis, redisTTL>>
           /\ UNCHANGED <<connected, redisUp>>
<1>1. {a \in {act} : Accepts(a, st)} = {act}
  OBVIOUS
<1>2. ASSUME NEW q \in Pod, NEW t \in Table, NEW e \in Entity
      PROVE  local'[q][t][e] = IF q = p /\ t = TableOf(act) /\ e = act.target
                               THEN EntryOf(act) ELSE local[q][t][e]
  <2>1. CASE q = p /\ t = TableOf(act) /\ e = act.target
    <3>1. local'[p][TableOf(act)][act.target] = EntryOf(act)
      BY ApplyThere
    <3> QED
      BY <2>1, <3>1
  <2>2. CASE ~(q = p /\ t = TableOf(act) /\ e = act.target)
    <3>1. q # p \/ \A a \in {act} : ~(Accepts(a, st) /\ TableOf(a) = t /\ a.target = e)
      BY <2>2
    <3>2. local'[q][t][e] = local[q][t][e]
      BY <3>1, ApplyElsewhere
    <3> QED
      BY <2>2, <3>2
  <2> QED
    BY <2>1, <2>2
<1>3. registry' = [registry EXCEPT ![p] = @ \cup {act}] /\ UNCHANGED <<connected, redisUp>>
  BY <1>1 DEF ApplyActions
<1>4. CASE TableOf(act) \in SharedTable
  <2>1. {a \in {act} : TableOf(a) \in SharedTable} = {act}
    BY <1>4
  <2>2. StorePut(p, TableOf(act), act.target, EntryOf(act))
    BY <1>1, <2>1 DEF ApplyActions
  <2> QED
    BY <1>2, <1>3, <1>4, <2>2
<1>5. CASE TableOf(act) \notin SharedTable
  <2>1. {a \in {act} : TableOf(a) \in SharedTable} = {}
    BY <1>5
  <2>2. UNCHANGED <<fallback, redis, redisTTL>>
    BY <1>1, <2>1 DEF ApplyActions
  <2> QED
    BY <1>2, <1>3, <1>5, <2>2
<1> QED
  BY <1>4, <1>5

\* apply_action of one that is not
LEMMA ApplyRefused ==
    ASSUME EngineTypeOK, NEW p \in Pod, NEW act \in Action, NEW st,
           ApplyActions(p, {act}, st), ~Accepts(act, st)
    PROVE  UNCHANGED engineVars
<1>1. {a \in {act} : Accepts(a, st)} = {}
  OBVIOUS
<1>2. /\ local' = [local EXCEPT ![p] = [t \in Table |-> AfterApplying(p, t, {})]]
      /\ registry' = [registry EXCEPT ![p] = @ \cup {}]
      /\ UNCHANGED <<fallback, redis, redisTTL, connected, redisUp>>
  BY <1>1 DEF ApplyActions
<1>3. \A t \in Table : AfterApplying(p, t, {}) = local[p][t]
  BY DEF AfterApplying, EngineTypeOK
<1>4. local' = local
  BY <1>2, <1>3 DEF EngineTypeOK
<1>5. registry' = registry
  BY <1>2 DEF EngineTypeOK
<1> QED
  BY <1>2, <1>4, <1>5 DEF engineVars

\* rollback_action of an action the process has registered
LEMMA RollbackEffects ==
    ASSUME EngineTypeOK, NEW p \in Pod, NEW act \in registry[p], RollbackAction(p, act.id),
           \A b \in registry[p] : b.id = act.id => b = act
    PROVE  /\ registry' = [registry EXCEPT ![p] = @ \ {act}]
           /\ \A q \in Pod, t \in Table, e \in Entity :
                local'[q][t][e] = IF q = p /\ t = TableOf(act) /\ e = act.target
                                  THEN Absent ELSE local[q][t][e]
           /\ IF TableOf(act) \in SharedTable
                THEN StoreDelete(p, TableOf(act), act.target)
                ELSE UNCHANGED <<fallback, redis, redisTTL>>
           /\ UNCHANGED <<connected, redisUp>>
<1>1. (CHOOSE a \in registry[p] : a.id = act.id) = act
  OBVIOUS
<1>2. /\ local' = [local EXCEPT ![p][TableOf(act)][act.target] = Absent]
      /\ registry' = [registry EXCEPT ![p] = @ \ {act}]
      /\ IF TableOf(act) \in SharedTable
           THEN StoreDelete(p, TableOf(act), act.target)
           ELSE UNCHANGED <<fallback, redis, redisTTL>>
      /\ UNCHANGED <<connected, redisUp>>
  BY <1>1 DEF RollbackAction
<1> QED
  BY <1>2 DEF EngineTypeOK

\* evaluate_request takes from the process what it finds expired, and the quarantine
\* it found expired from the stores.
LEMMA EvaluateEffects ==
    ASSUME EngineTypeOK, NEW p \in Pod, NEW r \in Request, EvaluateRequest(p, r)
    PROVE  /\ \A q \in Pod, t \in Table, e \in Entity :
                \/ local'[q][t][e] = local[q][t][e]
                \/ local'[q][t][e] = Absent /\ ~InForce(local[q][t][e])
           /\ \/ UNCHANGED <<fallback, redis, redisTTL>>
              \/ /\ Expired(QuarantineFor(p, r).entry)
                 /\ QuarantineFor(p, r).key \in Entity
                 /\ StoreDelete(p, "quarantined_ips", QuarantineFor(p, r).key)
           /\ UNCHANGED <<registry, connected, redisUp>>
<1> DEFINE seen == Consulted(p, r)
           swept == {n \in 1..(AnsweringStep(seen) - 1) : Expired(seen[n])}
           key == QuarantineFor(p, r).key
<1>1. 2 \in swept => Expired(QuarantineFor(p, r).entry)
  BY DEF Consulted
<1>2. 2 \in swept => key \in Entity
  BY <1>1, QuarantineKey DEF Expired
<1>3. ASSUME NEW q \in Pod, NEW t \in Table, NEW e \in Entity
      PROVE  \/ local'[q][t][e] = local[q][t][e]
             \/ local'[q][t][e] = Absent
  <2>1. local' = [local EXCEPT ![p] = [local[p] EXCEPT
           !["quarantined_ips"] = Sweep(@, 2 \in swept, key),
           !["revoked_principals"] = Sweep(@, 4 \in swept, r.principal),
           !["mfa_enforced_principals"] = Sweep(@, 5 \in swept, r.principal),
           !["dynamic_rate_limits"] = Sweep(@, 6 \in swept, ThrottleKey(p, r))]]
    BY DEF EvaluateRequest
  <2> HIDE DEF swept, key
  <2>2. \A n, f : \A table \in [Entity -> Entry] :
          Sweep(table, n \in swept, f)[e] \in {table[e], Absent}
    BY DEF Sweep
  <2>3. \A u \in Table : local[p][u] \in [Entity -> Entry]
    BY DEF EngineTypeOK
  <2>4. CASE q # p
    BY <2>1, <2>4 DEF EngineTypeOK
  <2>5. CASE q = p
    <3>1. \/ local'[p][t] = local[p][t]
          \/ \E n, f : local'[p][t] = Sweep(local[p][t], n \in swept, f)
      BY <2>1, <2>3 DEF EngineTypeOK, Table, SharedTable, LocalTable
    <3> QED
      BY <2>2, <2>3, <2>5, <3>1
  <2> QED
    BY <2>4, <2>5
<1>4. ASSUME NEW q \in Pod, NEW t \in Table, NEW e \in Entity,
             local'[q][t][e] # local[q][t][e]
      PROVE  ~InForce(local[q][t][e])
  BY <1>4, EvaluateKeeps DEF InForce
<1>5. IF 2 \in swept
        THEN StoreDelete(p, "quarantined_ips", key)
        ELSE UNCHANGED <<fallback, redis, redisTTL>>
  BY DEF EvaluateRequest
<1>6. UNCHANGED <<registry, connected, redisUp>>
  BY DEF EvaluateRequest
<1> HIDE DEF swept
<1> QED
  BY <1>1, <1>2, <1>3, <1>4, <1>5, <1>6

-----------------------------------------------------------------------------
(* The engine under any caller.  Every entry anywhere is of one action that *)
(* was applied there, in its table, on its target, with the time it has     *)
(* left; the entries of a process are of actions it still has registered,   *)
(* and what Redis was told of an action is gone once it was told of its end.*)

\* The entry is the one of act, which belongs there.
Of(entry, t, e, act) ==
    /\ act.id = entry.id /\ TableOf(act) = t /\ act.target = e
    /\ entry.left = remaining[act.id]

UseTypes ==
    /\ EngineTypeOK
    /\ fate \in [Id -> Fate] /\ remaining \in [Id -> -1..Forever]
    /\ issued \in SUBSET Action /\ heard \in SUBSET Id

IssuedOnce ==
    \A act \in issued :
        /\ fate[act.id] \in {"applied", "rolled back"}
        /\ remaining[act.id] <= EntryOf(act).left
        /\ \A b \in issued : b.id = act.id => b = act

\* A registered action was applied, and is registered in no other process.
RegistryLive ==
    \A p \in Pod : \A act \in registry[p] :
        /\ act \in issued /\ fate[act.id] = "applied"
        /\ \A q \in Pod : act \in registry[q] => q = p

LocalOwned ==
    \A p \in Pod, t \in Table, e \in Entity :
        local[p][t][e] # Absent => \E act \in registry[p] : Of(local[p][t][e], t, e, act)

FallbackOwned ==
    \A p \in Pod, t \in SharedTable, e \in Entity :
        fallback[p][t][e] # Absent =>
            \E act \in registry[p] : Of(fallback[p][t][e], t, e, act)

RedisOwned ==
    \A t \in SharedTable, e \in Entity :
        redis[t][e] # Absent =>
            \E act \in issued : /\ Of(redis[t][e], t, e, act)
                                /\ fate[act.id] = "rolled back" => act.id \notin heard

\* The hashes whose entries have no end are never given one.
EndlessTables ==
    \A t \in {"suspended_accounts", "revoked_tokens"} : redisTTL[t] = Forever

\* An action Redis was told of, not over and alone on its target
Lasting(act) ==
    /\ TableOf(act) \in SharedTable
    /\ act.id \in heard /\ fate[act.id] = "applied" /\ remaining[act.id] > 0
    /\ ~HasRival(act)

SharedKept ==
    \A act \in issued :
        Lasting(act) => /\ redis[TableOf(act)][act.target].id = act.id
                        /\ redisTTL[TableOf(act)] >= remaining[act.id]

Owned == IssuedOnce /\ RegistryLive /\ LocalOwned /\ FallbackOwned /\ RedisOwned
UseInv == UseTypes /\ Owned /\ EndlessTables /\ SharedKept

LEMMA LeftTypes ==
    ASSUME NEW act \in Action
    PROVE  /\ EntryOf(act).left \in 1..Forever /\ EntryOf(act).id = act.id
           /\ EntryOf(act) \in Entry /\ act.id \in Id /\ act.target \in Entity
           /\ TableOf(act) \in Table /\ EntryOf(act) # Absent
           /\ TableOf(act) \in {"suspended_accounts", "revoked_tokens"}
                => EntryOf(act).left = Forever
<1>1. act.kind \in Kind /\ act.id \in Id /\ act.target \in Entity
  BY DEF Action
<1>2. Duration[act.kind] \in 1..Forever /\ Forever \in 1..Forever
  BY <1>1, EngineAssumption DEF Forever
<1>3. EntryOf(act).left \in 1..Forever
  BY <1>2 DEF EntryOf
<1>4. EntryOf(act) # Absent
  BY <1>3, EngineAssumption DEF Absent, Forever
<1> QED
  BY <1>1, <1>3, <1>4, EntryTypes DEF EntryOf

\* All entries of a table are given the same time.
LEMMA SameTableSameLeft ==
    ASSUME NEW a, NEW b, TableOf(a) = TableOf(b), TableOf(a) \in Table
    PROVE  EntryOf(a).left = EntryOf(b).left
<1>1. CASE TableOf(a) \in {"suspended_accounts", "revoked_tokens"}
  BY <1>1 DEF EntryOf
<1>2. CASE TableOf(a) \notin {"suspended_accounts", "revoked_tokens"}
  <2>1. a.kind = b.kind
    BY <1>2 DEF TableOf
  <2> QED
    BY <1>2, <2>1 DEF EntryOf
<1> QED
  BY <1>1, <1>2

LEMMA UseInitially == UseInit => UseInv
<1> SUFFICES ASSUME UseInit PROVE UseInv
  OBVIOUS
<1>1. Forever \in 1..Forever /\ 0 \in -1..Forever
  BY EngineAssumption DEF Forever
<1>2. EngineTypeOK
  BY <1>1, AbsentTypes DEF UseInit, EngineInit, EngineTypeOK
<1>3. UseTypes
  BY <1>1, <1>2 DEF UseInit, UseTypes, Fate
<1>4. issued = {} /\ \A p \in Pod : registry[p] = {}
  BY DEF UseInit, EngineInit
<1>5. /\ \A p \in Pod, t \in Table, e \in Entity : local[p][t][e] = Absent
      /\ \A p \in Pod, t \in SharedTable, e \in Entity : fallback[p][t][e] = Absent
      /\ \A t \in SharedTable, e \in Entity : redis[t][e] = Absent
  BY DEF UseInit, EngineInit, EmptyTable
<1>6. EndlessTables
  BY DEF UseInit, EngineInit, EndlessTables, SharedTable
<1>7. Owned
  BY <1>4, <1>5 DEF Owned, IssuedOnce, RegistryLive, LocalOwned, FallbackOwned, RedisOwned
<1> QED
  BY <1>3, <1>4, <1>6, <1>7 DEF UseInv, SharedKept

\* An action that is new shares its id with none that was applied.
LEMMA NewIds ==
    ASSUME UseInv, NEW b \in Action, fate[b.id] = "new"
    PROVE  /\ \A a \in issued : a.id # b.id
           /\ \A p \in Pod : b \notin registry[p]
BY DEF UseInv, Owned, IssuedOnce, RegistryLive

LEMMA UseApplies ==
    ASSUME UseInv, NEW p \in Pod, NEW b \in Action, NEW st, Apply(p, b, st),
           Accepts(b, st)
    PROVE  UseInv'
<1> DEFINE t == TableOf(b)
<1>t. /\ EngineTypeOK /\ UseTypes /\ Owned
      /\ IssuedOnce /\ RegistryLive /\ LocalOwned /\ FallbackOwned /\ RedisOwned
      /\ EndlessTables /\ SharedKept
  BY DEF UseInv, UseTypes, Owned
<1>a. fate[b.id] = "new" /\ ApplyActions(p, {b}, st)
  BY DEF Apply
<1>e. /\ registry' = [registry EXCEPT ![p] = @ \cup {b}]
      /\ \A q \in Pod, u \in Table, e \in Entity :
           local'[q][u][e] = IF q = p /\ u = t /\ e = b.target
                             THEN EntryOf(b) ELSE local[q][u][e]
      /\ IF t \in SharedTable THEN StorePut(p, t, b.target, EntryOf(b))
         ELSE UNCHANGED <<fallback, redis, redisTTL>>
      /\ UNCHANGED <<connected, redisUp>>
  BY <1>t, <1>a, ApplyAccepted
<1>r. b \in registry'[p]
  BY <1>t, <1>e DEF EngineTypeOK
<1>h. /\ fate' = [fate EXCEPT ![b.id] = "applied"] /\ issued' = issued \cup {b}
      /\ remaining' = [remaining EXCEPT ![b.id] = EntryOf(b).left]
      /\ \/ heard' = heard \ {b.id}
         \/ /\ heard' = heard \cup {b.id} /\ Reaches(p)
            /\ EntryOf(b).left = Forever \/ redisTTL'[t] = EntryOf(b).left
  BY <1>r DEF Apply, Heard
<1>l. /\ EntryOf(b).left \in 1..Forever /\ EntryOf(b).id = b.id /\ EntryOf(b) \in Entry
      /\ b.id \in Id /\ b.target \in Entity /\ t \in Table /\ EntryOf(b) # Absent
      /\ t \in {"suspended_accounts", "revoked_tokens"} => EntryOf(b).left = Forever
  BY LeftTypes
<1> HIDE DEF t
<1>n. /\ \A a \in issued : a.id # b.id /\ a.id \in Id
      /\ \A q \in Pod : b \notin registry[q]
  BY <1>t, <1>a, NewIds DEF UseTypes, Action
<1>o. \A a \in issued : /\ fate'[a.id] = fate[a.id] /\ remaining'[a.id] = remaining[a.id]
                        /\ a.id \in heard' <=> a.id \in heard
  BY <1>n, <1>h, <1>t DEF UseTypes
<1>b. fate'[b.id] = "applied" /\ remaining'[b.id] = EntryOf(b).left
  BY <1>h, <1>l, <1>t DEF UseTypes
<1>s. /\ \A q \in Pod, u \in SharedTable, e \in Entity :
           fallback'[q][u][e] = IF q = p /\ u = t /\ e = b.target /\ t \in SharedTable
                                THEN EntryOf(b) ELSE fallback[q][u][e]
      /\ \A u \in SharedTable, e \in Entity :
           redis'[u][e] = IF Reaches(p) /\ u = t /\ e = b.target /\ t \in SharedTable
                          THEN EntryOf(b) ELSE redis[u][e]
      /\ \A u \in SharedTable :
           \/ redisTTL'[u] = redisTTL[u]
           \/ /\ Reaches(p) /\ u = t /\ EntryOf(b).left # Forever
              /\ redisTTL'[u] = EntryOf(b).left
  <2>1. CASE t \in SharedTable
    <3>1. StorePut(p, t, b.target, EntryOf(b))
      BY <1>e, <2>1
    <3> QED
      BY <1>t, <1>l, <2>1, <3>1, PutEffects
  <2>2. CASE t \notin SharedTable
    BY <1>e, <2>2
  <2> QED
    BY <2>1, <2>2
<1>g. \A q \in Pod : registry'[q] = IF q = p THEN registry[q] \cup {b} ELSE registry[q]
  BY <1>e, <1>t DEF EngineTypeOK
<1>1. UseTypes'
  <2>1. EngineTypeOK'
    BY <1>t, <1>a, ApplyTypes
  <2>2. EntryOf(b).left \in -1..Forever
    BY <1>l, EngineAssumption DEF Forever
  <2> QED
    BY <1>h, <1>l, <1>t, <2>1, <2>2 DEF UseTypes, Fate
<1>2. IssuedOnce'
  <2>2. EntryOf(b).left <= EntryOf(b).left
    BY <1>l, EngineAssumption DEF Forever
  <2> SUFFICES ASSUME NEW act \in issued'
               PROVE  /\ fate'[act.id] \in {"applied", "rolled back"}
                      /\ remaining'[act.id] <= EntryOf(act).left
                      /\ \A a \in issued' : a.id = act.id => a = act
    BY DEF IssuedOnce
  <2>3. CASE act = b
    BY <1>b, <1>h, <1>n, <2>2, <2>3
  <2>4. CASE act \in issued
    BY <1>h, <1>n, <1>o, <1>t, <2>4 DEF IssuedOnce
  <2> QED
    BY <1>h, <2>3, <2>4
<1>3. RegistryLive'
  <2> SUFFICES ASSUME NEW q \in Pod, NEW act \in registry'[q]
               PROVE  /\ act \in issued' /\ fate'[act.id] = "applied"
                      /\ \A q2 \in Pod : act \in registry'[q2] => q2 = q
    BY DEF RegistryLive
  <2>1. CASE act \in registry[q]
    <3>1. act \in issued /\ fate[act.id] = "applied" /\ act # b
      BY <1>n, <1>t, <2>1 DEF RegistryLive
    <3>2. \A q2 \in Pod : act \in registry'[q2] => act \in registry[q2]
      BY <1>g, <3>1
    <3> QED
      BY <1>h, <1>o, <1>t, <2>1, <3>1, <3>2 DEF RegistryLive
  <2>2. CASE act = b /\ q = p
    <3>1. \A q2 \in Pod : b \in registry'[q2] => q2 = p
      BY <1>g, <1>n
    <3> QED
      BY <1>b, <1>h, <2>2, <3>1
  <2> QED
    BY <1>g, <2>1, <2>2
<1>4. LocalOwned'
  <2> SUFFICES ASSUME NEW q \in Pod, NEW u \in Table, NEW e \in Entity,
                      local'[q][u][e] # Absent
               PROVE  \E act \in registry'[q] : Of(local[q][u][e], u, e, act)'
    BY DEF LocalOwned
  <2>1. CASE q = p /\ u = t /\ e = b.target
    BY <1>b, <1>e, <1>l, <1>r, <2>1 DEF Of, t
  <2>2. CASE ~(q = p /\ u = t /\ e = b.target)
    <3>1. local'[q][u][e] = local[q][u][e]
      BY <1>e, <2>2
    <3>2. PICK act \in registry[q] : Of(local[q][u][e], u, e, act)
      BY <3>1, <1>t DEF LocalOwned
    <3>3. act \in issued /\ act \in registry'[q]
      BY <1>t, <1>g DEF RegistryLive
    <3> QED
      BY <1>o, <3>1, <3>2, <3>3 DEF Of
  <2> QED
    BY <2>1, <2>2
<1>5. FallbackOwned'
  <2> SUFFICES ASSUME NEW q \in Pod, NEW u \in SharedTable, NEW e \in Entity,
                      fallback'[q][u][e] # Absent
               PROVE  \E act \in registry'[q] : Of(fallback[q][u][e], u, e, act)'
    BY DEF FallbackOwned
  <2>1. CASE q = p /\ u = t /\ e = b.target
    <3>1. fallback'[q][u][e] = EntryOf(b)
      BY <1>s, <2>1
    <3> QED
      BY <1>b, <1>l, <1>r, <2>1, <3>1 DEF Of, t
  <2>2. CASE ~(q = p /\ u = t /\ e = b.target)
    <3>1. fallback'[q][u][e] = fallback[q][u][e]
      BY <1>s, <2>2
    <3>2. PICK act \in registry[q] : Of(fallback[q][u][e], u, e, act)
      BY <3>1, <1>t DEF FallbackOwned
    <3>3. act \in issued /\ act \in registry'[q]
      BY <1>t, <1>g DEF RegistryLive
    <3> QED
      BY <1>o, <3>1, <3>2, <3>3 DEF Of
  <2> QED
    BY <2>1, <2>2
<1>6. RedisOwned'
  <2> SUFFICES ASSUME NEW u \in SharedTable, NEW e \in Entity, redis'[u][e] # Absent
               PROVE  \E act \in issued' :
                        /\ Of(redis[u][e], u, e, act)'
                        /\ fate'[act.id] = "rolled back" => act.id \notin heard'
    BY DEF RedisOwned
  <2>1. CASE Reaches(p) /\ u = t /\ e = b.target
    <3>1. redis'[u][e] = EntryOf(b) /\ b \in issued'
      BY <1>s, <1>h, <2>1
    <3> QED
      BY <1>b, <1>l, <2>1, <3>1 DEF Of, t
  <2>2. CASE ~(Reaches(p) /\ u = t /\ e = b.target)
    <3>1. redis'[u][e] = redis[u][e]
      BY <1>s, <2>2
    <3>2. PICK act \in issued : /\ Of(redis[u][e], u, e, act)
                                /\ fate[act.id] = "rolled back" => act.id \notin heard
      BY <3>1, <1>t DEF RedisOwned
    <3>3. act \in issued'
      BY <1>h
    <3> QED
      BY <1>o, <3>1, <3>2, <3>3 DEF Of
  <2> QED
    BY <2>1, <2>2
<1>7. EndlessTables'
  BY <1>l, <1>s, <1>t DEF EndlessTables, SharedTable
<1>8. SharedKept'
  <2> SUFFICES ASSUME NEW act \in issued', Lasting(act)'
               PROVE  /\ redis'[TableOf(act)][act.target].id = act.id
                      /\ redisTTL'[TableOf(act)] >= remaining'[act.id]
    BY DEF SharedKept
  <2>l. /\ TableOf(act) \in SharedTable /\ act.id \in heard'
        /\ fate'[act.id] = "applied" /\ remaining'[act.id] > 0 /\ ~HasRival(act)'
    BY DEF Lasting
  <2>1. CASE act = b
    <3>1. /\ Reaches(p)
          /\ EntryOf(b).left = Forever \/ redisTTL'[t] = EntryOf(b).left
      BY <1>h, <2>l, <2>1
    <3>2. redis'[TableOf(act)][act.target] = EntryOf(b)
      BY <1>l, <1>s, <2>l, <2>1, <3>1 DEF t
    <3>3. redisTTL'[t] >= EntryOf(b).left
      <4>1. CASE EntryOf(b).left # Forever
        BY <1>l, <1>s, <2>l, <2>1, <3>1, <4>1, EngineAssumption DEF t, Forever
      <4>2. CASE EntryOf(b).left = Forever
        <5>1. redisTTL'[t] = redisTTL[t] /\ redisTTL[t] \in 1..Forever
          BY <1>s, <1>t, <2>l, <2>1, <4>2 DEF t, EngineTypeOK
        <5>2. t \in {"suspended_accounts", "revoked_tokens"}
          <6>1. CASE t \notin {"suspended_accounts", "revoked_tokens"}
            <7>1. EntryOf(b).left = Duration[b.kind] /\ b.kind \in Kind
              BY <6>1 DEF EntryOf, t, Action
            <7>2. Duration[b.kind] \in 1..MaxDuration
              BY <7>1, EngineAssumption
            <7> QED
              BY <4>2, <7>1, <7>2, EngineAssumption DEF Forever
          <6> QED
            BY <6>1
        <5>3. redisTTL[t] = Forever
          BY <1>t, <5>2 DEF EndlessTables
        <5> QED
          BY <4>2, <5>1, <5>3
      <4> QED
        BY <4>1, <4>2
    <3> QED
      BY <1>b, <1>l, <2>1, <3>2, <3>3 DEF t
  <2>2. CASE act # b
    <3>1. act \in issued /\ act \in Action
      BY <1>h, <1>t, <2>2 DEF UseTypes
    <3>2. ~HasRival(act) /\ ~(t = TableOf(act) /\ b.target = act.target)
      BY <1>h, <2>l, <2>2 DEF HasRival, t
    <3>3. Lasting(act)
      BY <1>o, <2>l, <3>1, <3>2 DEF Lasting
    <3>4. redis[TableOf(act)][act.target].id = act.id
          /\ redisTTL[TableOf(act)] >= remaining[act.id]
      BY <1>t, <3>1, <3>3 DEF SharedKept
    <3>5. redis'[TableOf(act)][act.target] = redis[TableOf(act)][act.target]
      BY <1>s, <2>l, <3>1, <3>2, LeftTypes
    <3>6. CASE redisTTL'[TableOf(act)] = redisTTL[TableOf(act)]
      BY <1>o, <3>1, <3>4, <3>5, <3>6
    <3>7. CASE redisTTL'[TableOf(act)] # redisTTL[TableOf(act)]
      <4>1. t = TableOf(act) /\ redisTTL'[TableOf(act)] = EntryOf(b).left
        BY <1>s, <2>l, <3>7
      <4>2. EntryOf(b).left = EntryOf(act).left
        BY <1>l, <4>1, SameTableSameLeft DEF t
      <4>3. remaining[act.id] <= EntryOf(act).left /\ EntryOf(act).left \in 1..Forever
            /\ remaining[act.id] \in -1..Forever
        BY <1>t, <3>1, LeftTypes DEF IssuedOnce, UseTypes
      <4> QED
        BY <1>o, <3>1, <3>4, <3>5, <4>1, <4>2, <4>3, EngineAssumption DEF Forever
    <3> QED
      BY <3>6, <3>7
  <2> QED
    BY <2>1, <2>2
<1> QED
  BY <1>1, <1>2, <1>3, <1>4, <1>5, <1>6, <1>7, <1>8 DEF UseInv, Owned

-----------------------------------------------------------------------------
\* The entries of a lasting action

LEMMA LastingEntries ==
    ASSUME UseInv, NEW act \in issued, Lasting(act)
    PROVE  LET t == TableOf(act)
               e == act.target
           IN  /\ t \in SharedTable /\ e \in Entity
               /\ InForce(redis[t][e]) /\ redis[t][e].left > 0
               /\ \A p \in Pod : Present(local[p][t][e]) => InForce(local[p][t][e])
<1> DEFINE t == TableOf(act)
           e == act.target
<1>t. /\ EngineTypeOK /\ UseTypes /\ IssuedOnce /\ RegistryLive /\ LocalOwned /\ RedisOwned
      /\ SharedKept
  BY DEF UseInv, UseTypes, Owned
<1>1. t \in SharedTable /\ e \in Entity /\ act.id \in Id /\ t \in Table
  BY <1>t, LeftTypes DEF UseTypes, Lasting
<1>2. /\ remaining[act.id] > 0 /\ remaining[act.id] \in Int
      /\ \A b \in issued : TableOf(b) = t /\ b.target = e => b = act
  BY <1>1, <1>t, EngineAssumption DEF Lasting, HasRival, UseTypes, Forever
<1>3. redis[t][e].id = act.id
  BY <1>t DEF SharedKept
<1>4. redis[t][e] # Absent
  BY <1>1, <1>3, EngineAssumption DEF Absent
<1>5. PICK b \in issued : Of(redis[t][e], t, e, b)
  BY <1>1, <1>4, <1>t DEF RedisOwned
<1>6. redis[t][e].left = remaining[act.id]
  BY <1>2, <1>5 DEF Of
<1>7. InForce(redis[t][e]) /\ redis[t][e].left > 0
  BY <1>1, <1>2, <1>3, <1>6, EngineAssumption DEF InForce, Present
<1>8. ASSUME NEW p \in Pod, Present(local[p][t][e]) PROVE InForce(local[p][t][e])
  <2>1. local[p][t][e] # Absent
    BY <1>8, AbsentTypes
  <2>2. PICK b2 \in registry[p] : Of(local[p][t][e], t, e, b2)
    BY <1>1, <1>t, <2>1 DEF LocalOwned
  <2>3. b2 = act
    BY <1>2, <1>t, <2>2 DEF RegistryLive, Of
  <2> QED
    BY <1>2, <1>8, <2>2, <2>3 DEF Of, InForce
<1> QED
  BY <1>1, <1>7, <1>8

-----------------------------------------------------------------------------
\* The steps that only take entries away

LEMMA QuietStep ==
    ASSUME UseInv, EngineTypeOK', fate' \in [Id -> Fate],
           UNCHANGED <<issued, remaining, heard>>,
           \A act \in issued : fate'[act.id] = fate[act.id],
           \A q \in Pod :
             \/ registry'[q] = registry[q]
             \/ /\ registry'[q] = {}
                /\ \A t \in Table, e \in Entity : local'[q][t][e] = Absent
                /\ \A t \in SharedTable, e \in Entity : fallback'[q][t][e] = Absent,
           \A q \in Pod, t \in Table, e \in Entity :
             local'[q][t][e] \in {local[q][t][e], Absent},
           \A q \in Pod, t \in SharedTable, e \in Entity :
             fallback'[q][t][e] \in {fallback[q][t][e], Absent},
           \A t \in SharedTable, e \in Entity : redis'[t][e] \in {redis[t][e], Absent},
           \A t \in SharedTable : redisTTL'[t] \in {redisTTL[t], Forever},
           \A act \in issued :
             Lasting(act) => redis'[TableOf(act)][act.target] = redis[TableOf(act)][act.target]
    PROVE  UseInv'
<1>t. /\ UseTypes /\ IssuedOnce /\ RegistryLive /\ LocalOwned /\ FallbackOwned /\ RedisOwned
      /\ EndlessTables /\ SharedKept
  BY DEF UseInv, Owned
<1>1. UseTypes'
  BY <1>t DEF UseTypes
<1>2. IssuedOnce' /\ RegistryLive'
  BY <1>t DEF IssuedOnce, RegistryLive
<1>3. LocalOwned'
  <2> SUFFICES ASSUME NEW q \in Pod, NEW t \in Table, NEW e \in Entity,
                      local'[q][t][e] # Absent
               PROVE  \E act \in registry'[q] : Of(local[q][t][e], t, e, act)'
    BY DEF LocalOwned
  <2>1. registry'[q] = registry[q] /\ local'[q][t][e] = local[q][t][e]
    OBVIOUS
  <2> QED
    BY <1>t, <2>1 DEF LocalOwned, Of
<1>4. FallbackOwned'
  <2> SUFFICES ASSUME NEW q \in Pod, NEW t \in SharedTable, NEW e \in Entity,
                      fallback'[q][t][e] # Absent
               PROVE  \E act \in registry'[q] : Of(fallback[q][t][e], t, e, act)'
    BY DEF FallbackOwned
  <2>1. registry'[q] = registry[q] /\ fallback'[q][t][e] = fallback[q][t][e]
    OBVIOUS
  <2> QED
    BY <1>t, <2>1 DEF FallbackOwned, Of
<1>5. RedisOwned'
  <2> SUFFICES ASSUME NEW t \in SharedTable, NEW e \in Entity, redis'[t][e] # Absent
               PROVE  \E act \in issued :
                        /\ Of(redis[t][e], t, e, act)'
                        /\ fate'[act.id] = "rolled back" => act.id \notin heard
    BY DEF RedisOwned
  <2>1. redis'[t][e] = redis[t][e]
    OBVIOUS
  <2>2. PICK act \in issued : /\ Of(redis[t][e], t, e, act)
                              /\ fate[act.id] = "rolled back" => act.id \notin heard
    BY <1>t, <2>1 DEF RedisOwned
  <2>3. Of(redis[t][e], t, e, act)'
    BY <2>1, <2>2 DEF Of
  <2> QED
    BY <2>2, <2>3
<1>6. EndlessTables'
  BY <1>t DEF EndlessTables, SharedTable
<1>7. SharedKept'
  <2> SUFFICES ASSUME NEW act \in issued, Lasting(act)'
               PROVE  /\ redis'[TableOf(act)][act.target].id = act.id
                      /\ redisTTL'[TableOf(act)] >= remaining[act.id]
    BY DEF SharedKept
  <2>1. Lasting(act)
    BY DEF Lasting, HasRival
  <2>2. TableOf(act) \in SharedTable /\ act.id \in Id
    BY <1>t, <2>1, LeftTypes DEF Lasting, UseTypes
  <2>3. remaining[act.id] \in -1..Forever /\ redisTTL[TableOf(act)] \in 1..Forever
    BY <1>t, <2>2 DEF UseTypes, EngineTypeOK
  <2>4. redisTTL[TableOf(act)] >= remaining[act.id]
    BY <1>t, <2>1 DEF SharedKept
  <2>5. redisTTL'[TableOf(act)] >= remaining[act.id]
    BY <2>2, <2>3, <2>4, EngineAssumption DEF Forever
  <2> QED
    BY <1>t, <2>1, <2>5 DEF SharedKept
<1> QED
  BY <1>1, <1>2, <1>3, <1>4, <1>5, <1>6, <1>7 DEF UseInv, Owned

LEMMA UseRefuses ==
    ASSUME UseInv, NEW p \in Pod, NEW b \in Action, NEW st, Apply(p, b, st),
           ~Accepts(b, st)
    PROVE  UseInv'
<1>t. EngineTypeOK /\ UseTypes
  BY DEF UseInv, UseTypes
<1>1. UNCHANGED engineVars /\ fate[b.id] = "new"
  BY <1>t, ApplyRefused DEF Apply
<1>2. b \notin registry'[p]
  BY <1>1, NewIds DEF engineVars
<1>3. fate' = [fate EXCEPT ![b.id] = "refused"] /\ UNCHANGED <<issued, remaining, heard>>
  BY <1>2 DEF Apply
<1>4. \A act \in issued : fate'[act.id] = fate[act.id]
  BY <1>1, <1>3, <1>t, NewIds DEF UseTypes, Action
<1>5. fate' \in [Id -> Fate]
  BY <1>3, <1>t DEF UseTypes, Fate
<1>6. EngineTypeOK'
  BY <1>1, <1>t DEF engineVars, EngineTypeOK
<1> QED
  BY <1>1, <1>3, <1>4, <1>5, <1>6, QuietStep DEF engineVars

LEMMA UseEvaluates ==
    ASSUME UseInv, NEW p \in Pod, NEW r \in Request, EvaluateRequest(p, r),
           UNCHANGED historyVars
    PROVE  UseInv'
<1>t. EngineTypeOK /\ UseTypes
  BY DEF UseInv, UseTypes
<1> DEFINE key == QuarantineFor(p, r).key
           entry == QuarantineFor(p, r).entry
           q == "quarantined_ips"
<1>1. /\ \A w \in Pod, t \in Table, e \in Entity :
           \/ local'[w][t][e] = local[w][t][e]
           \/ local'[w][t][e] = Absent /\ ~InForce(local[w][t][e])
      /\ \/ UNCHANGED <<fallback, redis, redisTTL>>
         \/ Expired(entry) /\ key \in Entity /\ StoreDelete(p, q, key)
      /\ UNCHANGED registry
  BY <1>t, EvaluateEffects
<1>2. EngineTypeOK'
  BY <1>t, EvaluateTypes
<1>3. UNCHANGED <<fate, issued, remaining, heard>>
  BY DEF historyVars
<1>4. CASE UNCHANGED <<fallback, redis, redisTTL>>
  BY <1>1, <1>2, <1>3, <1>4, <1>t, QuietStep DEF UseTypes
<1>5. CASE Expired(entry) /\ key \in Entity /\ StoreDelete(p, q, key)
  <2>1. /\ \A w \in Pod, u \in SharedTable, f \in Entity :
             fallback'[w][u][f] \in {fallback[w][u][f], Absent}
        /\ \A u \in SharedTable, f \in Entity :
             redis'[u][f] = IF Reaches(p) /\ u = q /\ f = key THEN Absent ELSE redis[u][f]
        /\ \A u \in SharedTable : redisTTL'[u] \in {redisTTL[u], Forever}
    BY <1>5, <1>t, DeleteEffects DEF SharedTable
  <2>2. ASSUME NEW act \in issued, Lasting(act), Reaches(p), TableOf(act) = q,
               act.target = key
        PROVE  FALSE
    <3>1. /\ key # NoId /\ InForce(redis[q][key])
          /\ Present(local[p][q][key]) => InForce(local[p][q][key])
      BY <1>5, <2>2, LastingEntries, EngineAssumption
    <3>2. Look(p, q, key) = local[p][q][key] /\ LookShared(p, q, key) = redis[q][key]
      BY <2>2, <3>1 DEF Look, LookShared, StoreGet
    <3>3. Present(entry) /\ entry \in {local[p][q][key], redis[q][key]}
      BY <1>5, <3>2, AbsentTypes, QuarantineFound DEF Expired
    <3>4. \A x : InForce(x) /\ x.left \in Int => ~Expired(x)
      BY DEF InForce, Expired
    <3>5. local[p][q][key].left \in Int /\ redis[q][key].left \in Int
      <4>1. q \in SharedTable /\ q \in Table
        BY DEF SharedTable, Table
      <4>2. local[p][q][key] \in Entry /\ redis[q][key] \in Entry
        BY <1>5, <1>t, <4>1 DEF EngineTypeOK
      <4> QED
        BY <4>2, EngineAssumption DEF Entry, Forever
    <3> QED
      BY <1>5, <3>1, <3>3, <3>4, <3>5
  <2>3. \A act \in issued :
          Lasting(act) => redis'[TableOf(act)][act.target] = redis[TableOf(act)][act.target]
    BY <2>1, <2>2, LastingEntries
  <2> QED
    BY <1>1, <1>2, <1>3, <1>t, <2>1, <2>3, QuietStep DEF UseTypes
<1> QED
  BY <1>1, <1>4, <1>5

LEMMA UseEnvironment ==
    ASSUME UseInv, UNCHANGED historyVars,
           \/ \E p \in Pod : PodRestarts(p) \/ Reconnects(p)
           \/ RedisToggles
    PROVE  UseInv'
<1>t. EngineTypeOK /\ UseTypes
  BY DEF UseInv, UseTypes
<1>1. UNCHANGED <<fate, issued, remaining, heard>>
  BY DEF historyVars
<1>2. ASSUME NEW p \in Pod, PodRestarts(p) PROVE UseInv'
  <2>1. /\ \A w \in Pod \ {p} : /\ registry'[w] = registry[w] /\ local'[w] = local[w]
                                /\ fallback'[w] = fallback[w]
        /\ registry'[p] = {}
        /\ \A t \in Table, e \in Entity : local'[p][t][e] = Absent
        /\ \A t \in SharedTable, e \in Entity : fallback'[p][t][e] = Absent
        /\ UNCHANGED <<redis, redisTTL>>
    BY <1>2, <1>t DEF PodRestarts, EngineTypeOK, EmptyTable
  <2>2. EngineTypeOK'
    BY <1>2, <1>t, PodRestartTypes
  <2>3. \A w \in Pod : w = p \/ w \in Pod \ {p}
    OBVIOUS
  <2>4. /\ \A w \in Pod, t \in Table, e \in Entity :
             local'[w][t][e] \in {local[w][t][e], Absent}
        /\ \A w \in Pod, t \in SharedTable, e \in Entity :
             fallback'[w][t][e] \in {fallback[w][t][e], Absent}
    BY <2>1, <2>3
  <2> QED
    BY <1>1, <1>t, <2>1, <2>2, <2>3, <2>4, QuietStep DEF UseTypes
<1>3. CASE RedisToggles \/ \E p \in Pod : Reconnects(p)
  <2>1. UNCHANGED <<local, registry, fallback, redis, redisTTL>>
    BY <1>3 DEF RedisToggles, Reconnects
  <2>2. EngineTypeOK'
    BY <1>3, <1>t, RedisFaultTypes
  <2> QED
    BY <1>1, <1>t, <2>1, <2>2, QuietStep DEF UseTypes
<1> QED
  BY <1>2, <1>3

\* When Redis starts anew it holds nothing, and no action counts as told to it.
LEMMA UseLosesRedis ==
    ASSUME UseInv, UseRedisRestarts
    PROVE  UseInv'
<1>t. /\ UseTypes /\ EngineTypeOK /\ IssuedOnce /\ RegistryLive
      /\ LocalOwned /\ FallbackOwned
  BY DEF UseInv, UseTypes, Owned
<1>1. /\ redis' = [t \in SharedTable |-> EmptyTable]
      /\ redisTTL' = [t \in SharedTable |-> Forever]
      /\ UNCHANGED <<local, registry, fallback, fate, issued, remaining>>
      /\ heard' = {id \in heard : fate[id] = "rolled back"}
  BY DEF UseRedisRestarts, RedisRestarts
<1>2. UseTypes'
  <2>1. EngineTypeOK'
    BY <1>t, RedisFaultTypes DEF UseRedisRestarts
  <2>2. heard' \in SUBSET Id
    BY <1>1, <1>t DEF UseTypes
  <2> QED
    BY <1>1, <1>t, <2>1, <2>2 DEF UseTypes
<1>3. IssuedOnce'
  BY <1>1, <1>t DEF IssuedOnce
<1>r. RegistryLive'
  BY <1>1, <1>t DEF RegistryLive
<1>4. LocalOwned'
  BY <1>1, <1>t DEF LocalOwned, Of
<1>f. FallbackOwned'
  BY <1>1, <1>t DEF FallbackOwned, Of
<1>5. RedisOwned'
  BY <1>1 DEF RedisOwned, EmptyTable
<1>6. EndlessTables'
  BY <1>1 DEF EndlessTables, SharedTable
<1>7. SharedKept'
  <2>1. \A act \in issued : act.id \in heard' => fate'[act.id] # "applied"
    BY <1>1
  <2> QED
    BY <1>1, <2>1 DEF SharedKept, Lasting
<1> QED
  BY <1>2, <1>3, <1>r, <1>4, <1>f, <1>5, <1>6, <1>7 DEF UseInv, Owned

-----------------------------------------------------------------------------
\* Rolling back

LEMMA UseRollsBack ==
    ASSUME UseInv, NEW p \in Pod, NEW b \in registry[p], Rollback(p, b.id)
    PROVE  UseInv'
<1> DEFINE t == TableOf(b)
<1>t. /\ EngineTypeOK /\ UseTypes /\ IssuedOnce /\ RegistryLive /\ LocalOwned
      /\ FallbackOwned /\ RedisOwned /\ EndlessTables /\ SharedKept
  BY DEF UseInv, UseTypes, Owned
<1>b. /\ b \in issued /\ b \in Action /\ b.id \in Id /\ b.target \in Entity /\ t \in Table
      /\ \A a \in issued : a.id = b.id => a = b
  BY <1>t, LeftTypes DEF RegistryLive, IssuedOnce, UseTypes
<1>r. RollbackAction(p, b.id) /\ \A a \in registry[p] : a.id = b.id => a = b
  BY <1>b, <1>t DEF Rollback, RegistryLive
<1>h. /\ fate' = [fate EXCEPT ![b.id] = "rolled back"]
      /\ heard' = IF Reaches(p) THEN heard \cup {b.id} ELSE heard \ {b.id}
      /\ UNCHANGED <<issued, remaining>>
  BY DEF Rollback, Heard
<1>e. /\ registry' = [registry EXCEPT ![p] = @ \ {b}]
      /\ \A q \in Pod, u \in Table, e \in Entity :
           local'[q][u][e] = IF q = p /\ u = t /\ e = b.target
                             THEN Absent ELSE local[q][u][e]
      /\ IF t \in SharedTable THEN StoreDelete(p, t, b.target)
         ELSE UNCHANGED <<fallback, redis, redisTTL>>
  BY <1>r, <1>t, RollbackEffects
<1>g. \A q \in Pod : registry'[q] = IF q = p THEN registry[q] \ {b} ELSE registry[q]
  BY <1>e, <1>t DEF EngineTypeOK
<1>n. \A a \in issued : a.id \in Id /\ (a # b => a.id # b.id)
  BY <1>b, <1>t DEF UseTypes, Action
<1>o. /\ \A a \in issued \ {b} : fate'[a.id] = fate[a.id] /\ (a.id \in heard' <=> a.id \in heard)
      /\ fate'[b.id] = "rolled back"
  BY <1>b, <1>h, <1>n, <1>t DEF UseTypes
<1> HIDE DEF t
<1>s. /\ \A q \in Pod, u \in SharedTable, e \in Entity :
           fallback'[q][u][e] = IF q = p /\ u = t /\ e = b.target THEN Absent
                                ELSE fallback[q][u][e]
      /\ \A u \in SharedTable, e \in Entity :
           redis'[u][e] = IF Reaches(p) /\ u = t /\ e = b.target THEN Absent
                          ELSE redis[u][e]
      /\ \A u \in SharedTable : redisTTL'[u] \in {redisTTL[u], Forever}
  <2>1. CASE t \in SharedTable
    BY <1>b, <1>e, <1>t, <2>1, DeleteEffects
  <2>2. CASE t \notin SharedTable
    BY <1>e, <2>2
  <2> QED
    BY <2>1, <2>2
<1>1. UseTypes'
  <2>1. EngineTypeOK'
    BY <1>b, <1>r, <1>t, RollbackTypes
  <2> QED
    BY <1>b, <1>h, <1>t, <2>1 DEF UseTypes, Fate
<1>2. IssuedOnce'
  BY <1>h, <1>o, <1>t DEF IssuedOnce
<1>3. RegistryLive'
  <2> SUFFICES ASSUME NEW q \in Pod, NEW act \in registry'[q]
               PROVE  /\ act \in issued /\ fate'[act.id] = "applied"
                      /\ \A q2 \in Pod : act \in registry'[q2] => q2 = q
    BY <1>h DEF RegistryLive
  <2>1. /\ act \in registry[q] /\ \A q2 \in Pod : act \in registry'[q2] => act \in registry[q2]
        /\ q = p => act # b
    BY <1>g
  <2>2. act # b
    BY <1>t, <2>1 DEF RegistryLive
  <2> QED
    BY <1>o, <1>t, <2>1, <2>2 DEF RegistryLive
<1>4. ASSUME NEW q \in Pod, NEW u, NEW e, NEW entry, NEW act \in registry[q],
             Of(entry, u, e, act), ~(q = p /\ u = t /\ e = b.target)
      PROVE  act \in registry'[q] /\ act \in issued /\ remaining'[act.id] = remaining[act.id]
  BY <1>4, <1>g, <1>h, <1>t DEF Of, t, RegistryLive
<1>5. LocalOwned'
  <2> SUFFICES ASSUME NEW q \in Pod, NEW u \in Table, NEW e \in Entity,
                      local'[q][u][e] # Absent
               PROVE  \E act \in registry'[q] : Of(local[q][u][e], u, e, act)'
    BY DEF LocalOwned
  <2>1. local'[q][u][e] = local[q][u][e] /\ ~(q = p /\ u = t /\ e = b.target)
    BY <1>e
  <2>2. PICK act \in registry[q] : Of(local[q][u][e], u, e, act)
    BY <1>t, <2>1 DEF LocalOwned
  <2> QED
    BY <1>4, <2>1, <2>2 DEF Of
<1>6. FallbackOwned'
  <2> SUFFICES ASSUME NEW q \in Pod, NEW u \in SharedTable, NEW e \in Entity,
                      fallback'[q][u][e] # Absent
               PROVE  \E act \in registry'[q] : Of(fallback[q][u][e], u, e, act)'
    BY DEF FallbackOwned
  <2>1. fallback'[q][u][e] = fallback[q][u][e] /\ ~(q = p /\ u = t /\ e = b.target)
    BY <1>s
  <2>2. PICK act \in registry[q] : Of(fallback[q][u][e], u, e, act)
    BY <1>t, <2>1 DEF FallbackOwned
  <2> QED
    BY <1>4, <2>1, <2>2 DEF Of
<1>7. RedisOwned'
  <2> SUFFICES ASSUME NEW u \in SharedTable, NEW e \in Entity, redis'[u][e] # Absent
               PROVE  \E act \in issued :
                        /\ Of(redis[u][e], u, e, act)'
                        /\ fate'[act.id] = "rolled back" => act.id \notin heard'
    BY <1>h DEF RedisOwned
  <2>1. redis'[u][e] = redis[u][e] /\ ~(Reaches(p) /\ u = t /\ e = b.target)
    BY <1>s
  <2>2. PICK act \in issued : /\ Of(redis[u][e], u, e, act)
                              /\ fate[act.id] = "rolled back" => act.id \notin heard
    BY <1>t, <2>1 DEF RedisOwned
  <2>3. Of(redis[u][e], u, e, act)'
    BY <1>h, <2>1, <2>2 DEF Of
  <2>4. CASE act # b
    BY <1>o, <2>2, <2>3, <2>4
  <2>5. CASE act = b
    <3>1. ~Reaches(p)
      BY <2>1, <2>2, <2>5 DEF Of, t
    <3> QED
      BY <1>h, <2>3, <2>5, <3>1
  <2> QED
    BY <2>4, <2>5
<1>8. EndlessTables'
  BY <1>s, <1>t DEF EndlessTables, SharedTable
<1>9. SharedKept'
  <2> SUFFICES ASSUME NEW act \in issued, Lasting(act)'
               PROVE  /\ redis'[TableOf(act)][act.target].id = act.id
                      /\ redisTTL'[TableOf(act)] >= remaining'[act.id]
    BY <1>h DEF SharedKept
  <2>1. /\ TableOf(act) \in SharedTable /\ act.id \in heard'
        /\ fate'[act.id] = "applied" /\ remaining[act.id] > 0 /\ ~HasRival(act)
    BY <1>h DEF Lasting, HasRival
  <2>2. act # b
    BY <1>o, <2>1
  <2>3. Lasting(act) /\ ~(TableOf(b) = TableOf(act) /\ b.target = act.target)
    BY <1>b, <1>o, <2>1, <2>2 DEF Lasting, HasRival
  <2>4. act.target \in Entity /\ act.id \in Id
    BY <1>t, LeftTypes DEF UseTypes
  <2>5. redis'[TableOf(act)][act.target].id = act.id
    BY <1>s, <1>t, <2>1, <2>3, <2>4 DEF SharedKept, t
  <2>6. redisTTL[TableOf(act)] >= remaining[act.id] /\ redisTTL[TableOf(act)] \in 1..Forever
        /\ remaining[act.id] \in -1..Forever
    BY <1>t, <2>1, <2>3, <2>4 DEF SharedKept, EngineTypeOK, UseTypes
  <2>7. redisTTL'[TableOf(act)] >= remaining[act.id]
    BY <1>s, <2>1, <2>6, EngineAssumption DEF Forever
  <2> QED
    BY <1>h, <2>5, <2>7
<1> QED
  BY <1>1, <1>2, <1>3, <1>5, <1>6, <1>7, <1>8, <1>9 DEF UseInv, Owned

\* An id the process has not registered: nothing happens.
LEMMA UseRollsBackNothing ==
    ASSUME UseInv, NEW p \in Pod, NEW id, Rollback(p, id),
           ~ \E act \in registry[p] : act.id = id
    PROVE  UseInv'
<1>t. EngineTypeOK /\ UseTypes
  BY DEF UseInv, UseTypes
<1>1. UNCHANGED engineVars /\ UNCHANGED <<fate, issued, remaining, heard>>
  BY DEF Rollback, RollbackAction
<1>2. EngineTypeOK'
  BY <1>1, <1>t DEF engineVars, EngineTypeOK
<1> QED
  BY <1>1, <1>2, <1>t, QuietStep DEF engineVars, UseTypes

-----------------------------------------------------------------------------
\* Time

LEMMA UseAges ==
    ASSUME UseInv, UseTick
    PROVE  UseInv'
<1>t. /\ EngineTypeOK /\ UseTypes /\ IssuedOnce /\ RegistryLive /\ LocalOwned
      /\ FallbackOwned /\ RedisOwned /\ EndlessTables /\ SharedKept
  BY DEF UseInv, UseTypes, Owned
<1>a. /\ EngineTick /\ UNCHANGED <<fate, issued, heard, registry>>
      /\ remaining' = [id \in Id |->
           IF remaining[id] \in 0..MaxDuration /\ fate[id] # "new"
             THEN remaining[id] - 1 ELSE remaining[id]]
  BY DEF UseTick, EngineTick
<1>m. MaxDuration \in Nat /\ MaxDuration >= 1 /\ Forever = MaxDuration + 1
  <2>1. "rate_limit" \in Kind
    BY DEF Kind
  <2> QED
    BY <2>1, EngineAssumption DEF Forever
<1>b. \A act \in issued : /\ act.id \in Id /\ remaining[act.id] \in -1..Forever
                          /\ remaining'[act.id] = IF remaining[act.id] \in 0..MaxDuration
                                                  THEN remaining[act.id] - 1
                                                  ELSE remaining[act.id]
  BY <1>a, <1>t DEF UseTypes, IssuedOnce, Action
<1>c. \A act \in issued : remaining'[act.id] <= remaining[act.id]
  BY <1>b, <1>m
\* An entry and its action get older together.
<1>o. ASSUME NEW entry \in Entry, NEW u, NEW e, NEW act \in issued, Of(entry, u, e, act)
      PROVE  /\ Older(entry).id = act.id /\ TableOf(act) = u /\ act.target = e
             /\ Older(entry).left = remaining'[act.id]
  <2>1. Present(entry)
    BY <1>b, <1>o, EngineAssumption DEF Of, Present
  <2>2. Older(entry).id = entry.id
    BY OlderTypes
  <2>3. Older(entry).left = remaining'[act.id]
    BY <1>b, <1>o, <2>1 DEF Older, Of, Entry
  <2> QED
    BY <1>o, <2>2, <2>3 DEF Of
<1>p. Older(Absent) = Absent
  BY AbsentTypes DEF Older
<1>e. /\ \A q \in Pod, u \in Table, e \in Entity : local'[q][u][e] = Older(local[q][u][e])
      /\ \A q \in Pod, u \in SharedTable, e \in Entity :
           fallback'[q][u][e] = Older(fallback[q][u][e])
      /\ \A u \in SharedTable, e \in Entity :
           redis'[u][e] = IF redisTTL[u] = 1 THEN Absent ELSE Older(redis[u][e])
  BY <1>a DEF EngineTick, OlderTable, EmptyTable
<1>l. \A u \in SharedTable : /\ redisTTL[u] \in 1..Forever
                             /\ redisTTL[u] = Forever => redisTTL'[u] = Forever
                             /\ redisTTL[u] \notin {1, Forever} => redisTTL'[u] = redisTTL[u] - 1
  BY <1>a, <1>t, <1>m DEF EngineTick, EngineTypeOK
<1>1. UseTypes'
  <2>1. EngineTypeOK'
    BY <1>a, <1>t, TickTypes
  <2>2. remaining' \in [Id -> -1..Forever]
    BY <1>a, <1>m, <1>t DEF UseTypes
  <2> QED
    BY <1>a, <1>t, <2>1, <2>2 DEF UseTypes
<1>2. IssuedOnce'
  <2>1. ASSUME NEW act \in issued PROVE remaining'[act.id] <= EntryOf(act).left
    <3>1. EntryOf(act).left \in 1..Forever /\ remaining[act.id] <= EntryOf(act).left
      BY <1>t, LeftTypes DEF UseTypes, IssuedOnce
    <3>2. remaining'[act.id] \in Int /\ remaining[act.id] \in Int
      BY <1>b, <1>m
    <3> QED
      BY <1>c, <1>m, <3>1, <3>2
  <2> QED
    BY <1>a, <1>t, <2>1 DEF IssuedOnce
<1>3. RegistryLive'
  BY <1>a, <1>t DEF RegistryLive
<1>4. LocalOwned'
  <2> SUFFICES ASSUME NEW q \in Pod, NEW u \in Table, NEW e \in Entity,
                      local'[q][u][e] # Absent
               PROVE  \E act \in registry'[q] : Of(local[q][u][e], u, e, act)'
    BY DEF LocalOwned
  <2>1. local[q][u][e] # Absent /\ local'[q][u][e] = Older(local[q][u][e])
        /\ local[q][u][e] \in Entry
    BY <1>e, <1>p, <1>t DEF EngineTypeOK
  <2>2. PICK act \in registry[q] : Of(local[q][u][e], u, e, act)
    BY <1>t, <2>1 DEF LocalOwned
  <2>3. act \in issued
    BY <1>t, <2>2 DEF RegistryLive
  <2>4. /\ Older(local[q][u][e]).id = act.id /\ TableOf(act) = u /\ act.target = e
        /\ Older(local[q][u][e]).left = remaining'[act.id]
    BY <1>o, <2>1, <2>2, <2>3
  <2> QED
    BY <1>a, <2>1, <2>2, <2>4 DEF Of
<1>5. FallbackOwned'
  <2> SUFFICES ASSUME NEW q \in Pod, NEW u \in SharedTable, NEW e \in Entity,
                      fallback'[q][u][e] # Absent
               PROVE  \E act \in registry'[q] : Of(fallback[q][u][e], u, e, act)'
    BY DEF FallbackOwned
  <2>1. fallback[q][u][e] # Absent /\ fallback'[q][u][e] = Older(fallback[q][u][e])
        /\ fallback[q][u][e] \in Entry
    BY <1>e, <1>p, <1>t DEF EngineTypeOK
  <2>2. PICK act \in registry[q] : Of(fallback[q][u][e], u, e, act)
    BY <1>t, <2>1 DEF FallbackOwned
  <2>3. act \in issued
    BY <1>t, <2>2 DEF RegistryLive
  <2>4. /\ Older(fallback[q][u][e]).id = act.id /\ TableOf(act) = u /\ act.target = e
        /\ Older(fallback[q][u][e]).left = remaining'[act.id]
    BY <1>o, <2>1, <2>2, <2>3
  <2> QED
    BY <1>a, <2>1, <2>2, <2>4 DEF Of
<1>6. RedisOwned'
  <2> SUFFICES ASSUME NEW u \in SharedTable, NEW e \in Entity, redis'[u][e] # Absent
               PROVE  \E act \in issued' :
                        /\ Of(redis[u][e], u, e, act)'
                        /\ fate'[act.id] = "rolled back" => act.id \notin heard'
    BY DEF RedisOwned
  <2>1. redis[u][e] # Absent /\ redis'[u][e] = Older(redis[u][e]) /\ redis[u][e] \in Entry
    BY <1>e, <1>p, <1>t DEF EngineTypeOK
  <2>2. PICK act \in issued : /\ Of(redis[u][e], u, e, act)
                              /\ fate[act.id] = "rolled back" => act.id \notin heard
    BY <1>t, <2>1 DEF RedisOwned
  <2>3. /\ Older(redis[u][e]).id = act.id /\ TableOf(act) = u /\ act.target = e
        /\ Older(redis[u][e]).left = remaining'[act.id]
    BY <1>o, <2>1, <2>2
  <2> QED
    BY <1>a, <2>1, <2>2, <2>3 DEF Of
<1>7. EndlessTables'
  BY <1>l, <1>t DEF EndlessTables, SharedTable
<1>8. SharedKept'
  <2> SUFFICES ASSUME NEW act \in issued, Lasting(act)'
               PROVE  /\ redis'[TableOf(act)][act.target].id = act.id
                      /\ redisTTL'[TableOf(act)] >= remaining'[act.id]
    BY <1>a DEF SharedKept
  <2> DEFINE u == TableOf(act)
             e == act.target
  <2>1. remaining'[act.id] > 0 /\ remaining[act.id] > 0
    BY <1>b, <1>c, <1>m DEF Lasting
  <2>2. Lasting(act)
    BY <1>a, <2>1 DEF Lasting, HasRival
  <2>3. u \in SharedTable /\ e \in Entity
    BY <2>2, LastingEntries
  <2>4. redis[u][e].id = act.id /\ redisTTL[u] >= remaining[act.id]
    BY <1>t, <2>2 DEF SharedKept
  <2>5. redisTTL[u] # 1 /\ redisTTL'[u] >= remaining'[act.id]
    <3>1. CASE remaining[act.id] = Forever
      BY <1>b, <1>l, <1>m, <2>3, <2>4, <3>1
    <3>2. CASE remaining[act.id] # Forever
      <4>1. remaining'[act.id] = remaining[act.id] - 1 /\ remaining[act.id] \in 1..MaxDuration
        BY <1>b, <1>m, <2>1, <3>2
      <4>2. redisTTL[u] # 1
        BY <1>l, <2>1, <2>3, <2>4, <4>1
      <4> HIDE DEF u
      <4> QED
        BY <1>l, <1>m, <2>3, <2>4, <4>1, <4>2
    <3> QED
      BY <3>1, <3>2
  <2>6. redis'[u][e] = Older(redis[u][e]) /\ redis[u][e] \in Entry
    BY <1>e, <1>t, <2>3, <2>5 DEF EngineTypeOK
  <2> QED
    BY <2>4, <2>5, <2>6, OlderTypes
<1> QED
  BY <1>1, <1>2, <1>3, <1>4, <1>5, <1>6, <1>7, <1>8 DEF UseInv, Owned

-----------------------------------------------------------------------------
\* The theorems

LEMMA UseInvariance == UseSpec => []UseInv
<1>1. UseInv /\ [UseNext]_useVars => UseInv'
  <2> SUFFICES ASSUME UseInv, [UseNext]_useVars PROVE UseInv'
    OBVIOUS
  <2>1. ASSUME NEW p \in Pod, NEW act \in Use, NEW st, Apply(p, act, st) PROVE UseInv'
    <3>1. act \in Action
      BY UseAssumption
    <3> QED
      BY <2>1, <3>1, UseApplies, UseRefuses
  <2>2. ASSUME NEW p \in Pod, NEW id \in Id, Rollback(p, id) PROVE UseInv'
    <3>1. CASE \E act \in registry[p] : act.id = id
      <4>1. PICK act \in registry[p] : act.id = id
        BY <3>1
      <4> QED
        BY <2>2, <4>1, UseRollsBack
    <3>2. CASE ~ \E act \in registry[p] : act.id = id
      BY <2>2, <3>2, UseRollsBackNothing
    <3> QED
      BY <3>1, <3>2
  <2>3. CASE Environment /\ UNCHANGED historyVars
    <3>1. ASSUME NEW p \in Pod, NEW r \in Come, EvaluateRequest(p, r) PROVE UseInv'
      <4>1. r \in Request
        BY UseAssumption
      <4> QED
        BY <2>3, <3>1, <4>1, UseEvaluates
    <3> QED
      BY <2>3, <3>1, UseEnvironment DEF Environment
  <2>4. CASE UNCHANGED useVars
    <3>1. UNCHANGED engineVars /\ UNCHANGED <<fate, issued, remaining, heard>>
      BY <2>4 DEF useVars, historyVars
    <3>2. EngineTypeOK' /\ fate' \in [Id -> Fate]
      BY <3>1 DEF engineVars, UseInv, UseTypes, EngineTypeOK
    <3> QED
      BY <3>1, <3>2, QuietStep DEF engineVars
  <2> QED
    BY <2>1, <2>2, <2>3, <2>4, UseAges, UseLosesRedis DEF UseNext
<1> QED
  BY <1>1, UseInitially, PTL DEF UseSpec

\* Whatever a request is refused for is in force in a table of the process or, if the
\* process has it from the shared store, in Redis or in its own fallback.
LEMMA BlockerPlaces ==
    ASSUME NEW p \in Pod, NEW r \in Request, IsMitigated(p, r)
    PROVE  \E e \in Entity :
             \/ \E t \in Table : InForce(local[p][t][e]) /\ Blocker(p, r) = local[p][t][e].id
             \/ \E t \in SharedTable :
                  \E entry \in {redis[t][e], fallback[p][t][e]} :
                     InForce(entry) /\ Blocker(p, r) = entry.id
<1> DEFINE seen == Consulted(p, r)
           n == AnsweringStep(seen)
           At(entry) ==
             \E e \in Entity :
               \/ \E t \in Table : entry = local[p][t][e]
               \/ \E t \in SharedTable : entry \in {redis[t][e], fallback[p][t][e]}
<1>1. n \in 1..6 /\ InForce(seen[n]) /\ Blocker(p, r) = seen[n].id
  <2>1. n # 7 /\ Blocker(p, r) = seen[n].id
    BY DEF IsMitigated, Blocker
  <2> QED
    BY <2>1, FirstAnswers
<1>2. \A t \in Table, e \in Entity \cup {NoId} :
        InForce(Look(p, t, e)) => At(Look(p, t, e))
  BY AbsentTypes DEF Look, InForce
<1>3. \A t \in SharedTable, e \in Entity \cup {NoId} :
        InForce(LookShared(p, t, e)) => At(LookShared(p, t, e))
  BY AbsentTypes DEF LookShared, StoreGet, InForce
<1>4. /\ r.ip \in Entity /\ r.principal \in Entity \cup {NoId}
      /\ r.token \in Entity \cup {NoId}
  BY EngineAssumption DEF Request
<1>5. /\ {"suspended_accounts", "quarantined_ips", "revoked_tokens"} \subseteq SharedTable
      /\ Table = SharedTable \cup LocalTable
      /\ {"revoked_principals"} \subseteq SharedTable
      /\ LocalTable = {"mfa_enforced_principals", "dynamic_rate_limits"}
  BY DEF Table, SharedTable, LocalTable
<1>6. /\ seen[1] = SuspensionFor(p, r) /\ seen[2] = QuarantineFor(p, r).entry
      /\ seen[3] = TokenRevocationFor(p, r)
      /\ seen[4] = Look(p, "revoked_principals", r.principal)
      /\ seen[5] = Look(p, "mfa_enforced_principals", r.principal)
      /\ seen[6] = Look(p, "dynamic_rate_limits", ThrottleKey(p, r))
  BY DEF Consulted
<1>7. At(seen[n])
  <2> HIDE DEF At, seen, n
  <2>1. CASE n = 1
    BY <1>1, <1>2, <1>3, <1>4, <1>5, <1>6, <2>1 DEF SuspensionFor
  <2>2. CASE n = 2
    BY <1>1, <1>2, <1>3, <1>4, <1>5, <1>6, <2>2, QuarantineFound, AbsentTypes DEF InForce
  <2>3. CASE n = 3
    BY <1>1, <1>2, <1>3, <1>4, <1>5, <1>6, <2>3 DEF TokenRevocationFor
  <2>4. CASE n = 4 \/ n = 5
    BY <1>1, <1>2, <1>4, <1>5, <1>6, <2>4
  <2>5. CASE n = 6
    BY <1>1, <1>2, <1>4, <1>5, <1>6, <2>5 DEF ThrottleKey
  <2> QED
    BY <1>1, <2>1, <2>2, <2>3, <2>4, <2>5
<1> QED
  <2> HIDE DEF seen, n
  <2> QED
    BY <1>1, <1>7

\* A request is refused only for an action that has not run its duration and was not
\* rolled back while Redis answered (evaluate_request against apply_action and
\* rollback_action), in every process and under every failure.
THEOREM OnlyLiveActions == UseSpec => []OnlyLiveActionsBlock
<1>1. UseInv => OnlyLiveActionsBlock
  <2> SUFFICES ASSUME UseInv, NEW p \in Pod, NEW r \in Request, IsMitigated(p, r)
               PROVE  LET id == Blocker(p, r)
                      IN  remaining[id] >= 0 /\ (fate[id] = "rolled back" => id \notin heard)
    BY DEF OnlyLiveActionsBlock
  <2>t. /\ RegistryLive /\ LocalOwned /\ FallbackOwned /\ RedisOwned
    BY DEF UseInv, Owned
  <2>1. PICK e \in Entity :
             \/ \E t \in Table : InForce(local[p][t][e]) /\ Blocker(p, r) = local[p][t][e].id
             \/ \E t \in SharedTable :
                  \E entry \in {redis[t][e], fallback[p][t][e]} :
                     InForce(entry) /\ Blocker(p, r) = entry.id
    BY BlockerPlaces
  <2>2. \A x : InForce(x) => x # Absent
    BY AbsentTypes DEF InForce
  <2>3. \A x, t, act : InForce(x) /\ Of(x, t, e, act)
          => act.id = x.id /\ remaining[act.id] >= 0
    BY DEF InForce, Of
  <2>4. ASSUME NEW t \in Table, InForce(local[p][t][e]), Blocker(p, r) = local[p][t][e].id
        PROVE  remaining[Blocker(p, r)] >= 0 /\ fate[Blocker(p, r)] # "rolled back"
    <3>1. PICK act \in registry[p] : Of(local[p][t][e], t, e, act)
      BY <2>t, <2>2, <2>4 DEF LocalOwned
    <3>2. fate[act.id] = "applied"
      BY <2>t, <3>1 DEF RegistryLive
    <3>3. act.id = local[p][t][e].id /\ remaining[act.id] >= 0
      BY <2>3, <2>4, <3>1
    <3> QED
      BY <2>4, <3>2, <3>3
  <2>5. ASSUME NEW t \in SharedTable, InForce(fallback[p][t][e]),
               Blocker(p, r) = fallback[p][t][e].id
        PROVE  remaining[Blocker(p, r)] >= 0 /\ fate[Blocker(p, r)] # "rolled back"
    <3>1. PICK act \in registry[p] : Of(fallback[p][t][e], t, e, act)
      BY <2>t, <2>2, <2>5 DEF FallbackOwned
    <3>2. fate[act.id] = "applied"
      BY <2>t, <3>1 DEF RegistryLive
    <3>3. act.id = fallback[p][t][e].id /\ remaining[act.id] >= 0
      BY <2>3, <2>5, <3>1
    <3> QED
      BY <2>5, <3>2, <3>3
  <2>6. ASSUME NEW t \in SharedTable, InForce(redis[t][e]), Blocker(p, r) = redis[t][e].id
        PROVE  /\ remaining[Blocker(p, r)] >= 0
               /\ fate[Blocker(p, r)] = "rolled back" => Blocker(p, r) \notin heard
    <3>1. PICK act \in issued : /\ Of(redis[t][e], t, e, act)
                                /\ fate[act.id] = "rolled back" => act.id \notin heard
      BY <2>t, <2>2, <2>6 DEF RedisOwned
    <3> QED
      BY <2>3, <2>6, <3>1
  <2> QED
    BY <2>1, <2>4, <2>5, <2>6
<1> QED
  BY <1>1, UseInvariance, PTL

\* What Redis was told, by both commands of a write, keeps the target out of every
\* process that reaches Redis (set_hash_entry and add_to_set of state_store.py against
\* evaluate_request) until it is rolled back, over, or lost with all the rest when Redis
\* itself starts anew, unless the same was done to the target again.
THEOREM SharedActionsReachAll == UseSpec => []SharedReachesAll
<1>1. UseInv => SharedReachesAll
  <2> SUFFICES ASSUME UseInv, NEW act \in issued, NEW p \in Pod,
                      TableOf(act) \in SharedTable \ {"revoked_principals"},
                      act.id \in heard, fate[act.id] = "applied", remaining[act.id] > 0,
                      ~HasRival(act), Reaches(p), NEW r \in RequestsOf(act)
               PROVE  IsMitigated(p, r)
    BY DEF SharedReachesAll
  <2> DEFINE t == TableOf(act)
             e == act.target
  <2>1. Lasting(act)
    BY DEF Lasting
  <2>2. /\ e \in Entity /\ e # NoId /\ InForce(redis[t][e]) /\ Present(redis[t][e])
        /\ Present(local[p][t][e]) => InForce(local[p][t][e])
    BY <2>1, LastingEntries, EngineAssumption DEF InForce
  <2>3. /\ Look(p, t, e) = local[p][t][e] /\ LookShared(p, t, e) = redis[t][e]
    BY <2>2 DEF Look, LookShared, StoreGet
  <2>4. CASE t = "suspended_accounts"
    <3>1. r.principal = e
      BY <2>4 DEF RequestsOf
    <3>2. InForce(SuspensionFor(p, r))
      BY <2>2, <2>3, <2>4, <3>1 DEF SuspensionFor
    <3>3. Consulted(p, r)[1] = SuspensionFor(p, r)
      BY DEF Consulted
    <3> QED
      BY <3>2, <3>3, InForceMitigates
  <2>5. CASE t = "quarantined_ips"
    <3>1. r.ip = e
      BY <2>5 DEF RequestsOf
    <3>2. r.principal = e
      BY <2>5 DEF RequestsOf
    <3>3. InForce(QuarantineFor(p, r).entry)
      BY <2>2, <2>3, <2>5, <3>1, <3>2, QuarantineFound
    <3>4. Consulted(p, r)[2] = QuarantineFor(p, r).entry
      BY DEF Consulted
    <3> QED
      BY <3>3, <3>4, InForceMitigates
  <2>6. CASE t = "revoked_tokens"
    <3>1. r.token = e
      BY <2>6 DEF RequestsOf
    <3>2. InForce(TokenRevocationFor(p, r))
      BY <2>2, <2>3, <2>6, <3>1 DEF TokenRevocationFor
    <3>3. Consulted(p, r)[3] = TokenRevocationFor(p, r)
      BY DEF Consulted
    <3> QED
      BY <3>2, <3>3, InForceMitigates
  <2> QED
    BY <2>4, <2>5, <2>6 DEF SharedTable
<1> QED
  BY <1>1, UseInvariance, PTL

\* Rolling back reverses applying: once all that was applied is rolled back, and Redis
\* heard of it, every table of every process and of Redis is empty (rollback_action
\* against apply_action).
THEOREM RollbackLeavesNothing == UseSpec => []NothingLeftBehind
<1>1. UseInv => NothingLeftBehind
  <2> SUFFICES ASSUME UseInv,
                      \A id \in Id : \/ fate[id] \in {"new", "refused"}
                                     \/ fate[id] = "rolled back" /\ id \in heard
               PROVE  /\ \A p \in Pod : /\ registry[p] = {}
                                        /\ \A t \in Table : local[p][t] = EmptyTable
                      /\ \A t \in SharedTable : redis[t] = EmptyTable
    BY DEF NothingLeftBehind
  <2>t. /\ EngineTypeOK /\ UseTypes /\ IssuedOnce /\ RegistryLive /\ LocalOwned /\ RedisOwned
    BY DEF UseInv, UseTypes, Owned
  <2>1. \A act \in issued : act.id \in Id /\ fate[act.id] = "rolled back" /\ act.id \in heard
    <3>1. \A act \in issued : act.id \in Id /\ fate[act.id] \in {"applied", "rolled back"}
      BY <2>t DEF UseTypes, IssuedOnce, Action
    <3> QED
      BY <3>1
  <2>2. \A p \in Pod : registry[p] = {}
    BY <2>1, <2>t DEF RegistryLive
  <2>3. \A p \in Pod, t \in Table, e \in Entity : local[p][t][e] = Absent
    BY <2>2, <2>t DEF LocalOwned
  <2>4. \A t \in SharedTable, e \in Entity : redis[t][e] = Absent
    BY <2>1, <2>t DEF RedisOwned
  <2>5. \A table \in [Entity -> Entry] :
          (\A e \in Entity : table[e] = Absent) => table = EmptyTable
    BY DEF EmptyTable
  <2>6. /\ \A p \in Pod, t \in Table : local[p][t] \in [Entity -> Entry]
        /\ \A t \in SharedTable : redis[t] \in [Entity -> Entry]
    BY <2>t DEF EngineTypeOK
  <2>7. \A p \in Pod, t \in Table : local[p][t] = EmptyTable
    BY <2>3, <2>5, <2>6
  <2>8. \A t \in SharedTable : redis[t] = EmptyTable
    BY <2>4, <2>5, <2>6
  <2> QED
    BY <2>2, <2>7, <2>8
<1> QED
  BY <1>1, UseInvariance, PTL
=============================================================================
