--------------------------- MODULE TelemetryProofs ---------------------------
(***************************************************************************)
(* The ways of an audit event in Telemetry for any number of events, any   *)
(* capacity of the queues and any of the faults.                           *)
(***************************************************************************)
EXTENDS Telemetry, SequenceTheorems, FiniteSetTheorems, TLAPS

\* The triage is changing the dict of event n.
AtTriage(n) == main.at \in {"marking", "completing"} /\ main.item.event = n

\* What a line or an item for one of the two files of the triage is to be like
Sorted(n, f) ==
    /\ n \in DOMAIN events
    /\ f \in {"baseline", "quarantine"} =>
         ~AtTriage(n) /\ mark[n] = "complete" /\ f = FileOf(events[n])

Ready(item) == Sorted(item.event, item.file)

QueuesInv ==
    /\ \A q \in Queue : \A i \in DOMAIN queue[q] : Ready(queue[q][i])
    /\ \A q \in Queue : hand[q] # Nothing => Ready(hand[q])

MainInv ==
    /\ main.at = "idle" => main = Idle
    /\ main.at = "flushing" /\ main.item # Nothing => Ready(main.item)
    /\ main.at \in {"marking", "completing", "filing"} =>
         /\ main.item \in Item
         /\ main.item.event \in DOMAIN events
         /\ main.item.file = FileOf(events[main.item.event])
    /\ main.at = "filing" => mark[main.item.event] = "complete"

FilesInv ==
    \A f \in {"baseline", "quarantine"} : \A i \in DOMAIN file[f] :
        file[f][i].mark = "complete" /\ Sorted(file[f][i].event, f)

IInv == TypeOK /\ QueuesInv /\ MainInv /\ FilesInv

-----------------------------------------------------------------------------
\* The threat and the score are whole numbers.
LEMMA ScoreIsNumber ==
    ASSUME NEW s \in Signals
    PROVE  Threat(s) \in Nat /\ Overall(s) \in Int
<1>1. /\ s.waf \in Nat /\ s.auth \in Nat /\ s.rate \in Nat /\ s.rule \in Nat
      /\ s.anomaly \in Nat /\ s.trust \in 0..100
  BY DEF Signals
<1>2. Threat(s) \in Nat
  BY <1>1 DEF Threat, Larger, Smaller
<1>3. Composite(s) \in Int
  <2>1. Sensitivity(s.route) \in Int
    BY DEF Sensitivity
  <2> QED
    BY <1>1, <1>2, <2>1 DEF Composite, Smaller
<1>4. Bounded(s) \in Int
  BY <1>3 DEF Bounded, Larger, Smaller
<1> QED
  BY <1>2, <1>4 DEF Overall, Smaller

\* The vetoes of the triage come to this: what it calls pristine is what was allowed and
\* not spoken against.
LEMMA PristineIsUnopposed ==
    ASSUME NEW e \in Event
    PROVE  /\ FileOf(e) \in {"baseline", "quarantine"}
           /\ FileOf(e) = "baseline" <=> Unopposed(e)
<1>1. e \in [signals : Signals, decision : Decision]
  BY TelemetryAssumption
<1> DEFINE s == e.signals
<1>2. s \in Signals /\ s.waf \in Nat /\ s.auth \in Nat /\ s.rule \in Nat
  BY <1>1 DEF Signals
<1>3. Overall(s) \in Int
  BY <1>2, ScoreIsNumber
<1>4. ASSUME Unopposed(e) PROVE FileOf(e) = "baseline"
  <2>1. DecisionOf(s) = "ALLOW"
    BY <1>4, TelemetryAssumption DEF Unopposed
  <2>2. Overall(s) <= 2000
    BY <2>1, <1>3 DEF DecisionOf
  <2> QED
    BY <2>2, <1>2, <1>3, <1>4 DEF Unopposed, FileOf
<1>5. ASSUME FileOf(e) = "baseline" PROVE Unopposed(e)
  BY <1>5, <1>2, <1>3 DEF Unopposed, FileOf
<1> QED
  BY <1>4, <1>5 DEF FileOf

LEMMA PointsLeft ==
    ASSUME NEW threat \in Nat, NEW sensitivity \in 50..100, NEW distrust \in Nat,
           NEW anomaly \in Nat, threat + 25 * sensitivity + distrust + 15 * anomaly <= 2000
    PROVE  threat + 15 * anomaly + distrust <= 750
OBVIOUS

\* The sensitivity of any route takes 12.5 of the 20 points of the pristine tier, so
\* that 7.5 are left for whatever else was found.
LEMMA LittleSuspicion ==
    ASSUME NEW e \in Event, Unopposed(e)
    PROVE  Suspicion(e.signals) <= 750
<1> DEFINE s == e.signals
<1>1. s \in Signals /\ DecisionOf(s) = "ALLOW" /\ s.waf = 0 /\ s.auth = 0 /\ s.rule = 0
  BY TelemetryAssumption DEF Unopposed
<1>2. s.rate \in Nat /\ s.anomaly \in Nat /\ s.trust \in 0..100 /\ s.route \in Route
  BY <1>1 DEF Signals
<1>3. Overall(s) \in Int /\ Overall(s) <= 2000
  BY <1>1, ScoreIsNumber DEF DecisionOf
<1>4. Sensitivity(s.route) \in 50..100
  BY <1>2 DEF Sensitivity, Route
<1>5. Threat(s) = Smaller(4000, 10 * s.rate)
  <2>1. 10 * (0 + 0 + s.rate + 0) = 10 * s.rate /\ 20 * 0 = 0 /\ 10 * s.rate \in Nat
    BY <1>2
  <2> QED
    BY <1>1, <1>2, <2>1 DEF Threat, Larger, Smaller
<1>6. Smaller(100, s.anomaly) \in 0..100 /\ Threat(s) \in Nat
  BY <1>2, <1>5 DEF Smaller
<1>7. Overall(s) = Smaller(10000, Composite(s))
  BY <1>1, <1>2 DEF Overall, Bounded
<1>8. Composite(s) <= 2000
  BY <1>2, <1>3, <1>4, <1>6, <1>7 DEF Composite, Smaller
<1>9. Threat(s) + 15 * Smaller(100, s.anomaly) + 20 * (100 - s.trust) <= 750
  <2> DEFINE distrust == 20 * (100 - s.trust)
             anomaly == Smaller(100, s.anomaly)
  <2>1. distrust \in Nat
    BY <1>2
  <2>2. anomaly \in Nat
    BY <1>6
  <2>3. Composite(s) = Threat(s) + 25 * Sensitivity(s.route) + distrust + 15 * anomaly
    BY DEF Composite
  <2> HIDE DEF distrust, anomaly
  <2>4. Threat(s) + 15 * anomaly + distrust <= 750
    BY <1>4, <1>6, <1>8, <2>1, <2>2, <2>3, PointsLeft
  <2> QED
    BY <2>4 DEF distrust, anomaly
<1>10. Threat(s) = 10 * s.rate
  BY <1>2, <1>5, <1>6, <1>9 DEF Smaller
<1>11. 10 * s.rate + 15 * Smaller(100, s.anomaly) + 20 * (100 - s.trust) <= 750
  BY <1>9, <1>10
<1> QED
  BY <1>11 DEF Suspicion

\* No login and no request for the users of the ERP is ever learned from: the sensitivity
\* of the route alone takes the score over the limit of the pristine tier.
THEOREM SensitiveIsNeverLearned ==
    ASSUME NEW e \in Event, e.signals.route \in {"login"} \cup UserRoute
    PROVE  FileOf(e) = "quarantine"
<1>1. e \in [signals : Signals, decision : Decision]
  BY TelemetryAssumption
<1> DEFINE s == e.signals
<1>2. /\ s \in Signals /\ s.waf \in Nat /\ s.auth \in Nat /\ s.rule \in Nat
      /\ s.trust \in 0..100 /\ s.anomaly \in Nat
  BY <1>1 DEF Signals
<1>3. Threat(s) \in Int /\ Threat(s) >= 0
  BY <1>2, ScoreIsNumber
<1>4. Sensitivity(s.route) \in {85, 90}
  BY DEF Sensitivity, UserRoute
<1>5. Smaller(100, s.anomaly) \in Int /\ Smaller(100, s.anomaly) >= 0
  BY <1>2 DEF Smaller
<1>6. Composite(s) \in Int /\ Composite(s) > 2000
  BY <1>2, <1>3, <1>4, <1>5 DEF Composite
<1>7. Bounded(s) \in Int /\ Bounded(s) > 2000
  BY <1>2, <1>6 DEF Bounded, Larger, Smaller
<1>8. Overall(s) > 2000
  BY <1>7 DEF Overall, Smaller
<1> QED
  BY <1>8 DEF FileOf

-----------------------------------------------------------------------------
LEMMA InitHolds == Init => IInv
  BY TelemetryAssumption
     DEF Init, Idle, IInv, TypeOK, QueuesInv, MainInv, FilesInv, Mark, Queue, File, Line

\* What happens to a file when an item for it is ready to be written
LEMMA PersistKeeps ==
    ASSUME IInv, NEW item \in Item, Persist(item),
           item.file \in {"baseline", "quarantine"} => Ready(item)
    PROVE  /\ file' \in [File -> Seq(Line)] /\ lost' \in SUBSET Item
           /\ \A f \in {"baseline", "quarantine"} : \A i \in DOMAIN file'[f] :
                 file'[f][i].mark = "complete" /\ Sorted(file'[f][i].event, f)
<1>1. CASE file' = [file EXCEPT ![item.file] =
                      Append(@, [event |-> item.event, mark |-> mark[item.event]])]
  <2> DEFINE line == [event |-> item.event, mark |-> mark[item.event]]
  <2>1. item.file \in File /\ item.event \in 1..MaxEvents /\ line \in Line
    BY DEF Item, Line, IInv, TypeOK
  <2>2. file' \in [File -> Seq(Line)]
    BY <1>1, <2>1 DEF IInv, TypeOK
  <2>3. ASSUME NEW f \in {"baseline", "quarantine"}, NEW i \in DOMAIN file'[f]
        PROVE  file'[f][i].mark = "complete" /\ Sorted(file'[f][i].event, f)
    <3>0. f \in File
      BY DEF File
    <3>1. CASE f # item.file
      BY <1>1, <3>0, <3>1 DEF IInv, TypeOK, FilesInv
    <3>2. CASE f = item.file
      <4>1. file[f] \in Seq(Line)
        BY <3>0 DEF IInv, TypeOK
      <4>2. file'[f] = Append(file[f], line)
        BY <1>1, <3>0, <3>2 DEF IInv, TypeOK
      <4>3. CASE i \in DOMAIN file[f]
        BY <4>1, <4>2, <4>3 DEF IInv, FilesInv
      <4>4. CASE i = Len(file[f]) + 1
        <5>1. file'[f][i] = line
          BY <4>1, <4>2, <4>4
        <5> QED
          BY <5>1, <3>2 DEF Ready, Sorted
      <4> QED
        BY <4>1, <4>2, <4>3, <4>4
    <3> QED
      BY <3>1, <3>2
  <2>4. lost' \in SUBSET Item
    BY <1>1 DEF Persist, IInv, TypeOK
  <2> QED
    BY <2>2, <2>3, <2>4
<1>2. CASE lost' = lost \cup {item} /\ UNCHANGED file
  BY <1>2 DEF IInv, TypeOK, FilesInv
<1> QED
  BY <1>1, <1>2 DEF Persist

\* put_nowait keeps the queues, given what it puts is fit for where it goes.
LEMMA PutKeeps ==
    ASSUME IInv, NEW q \in Queue, NEW item \in Item, NEW spilled \in Item,
           Put(q, item, spilled),
           spilled.file \in {"baseline", "quarantine"} => Ready(spilled)
    PROVE  /\ file' \in [File -> Seq(Line)] /\ lost' \in SUBSET Item
           /\ \A f \in {"baseline", "quarantine"} : \A i \in DOMAIN file'[f] :
                 file'[f][i].mark = "complete" /\ Sorted(file'[f][i].event, f)
           /\ queue' \in [Queue -> Seq(Item)]
           /\ \A r \in Queue : Len(queue'[r]) <= Capacity
           /\ \A r \in Queue : \A i \in DOMAIN queue'[r] :
                 Ready(queue'[r][i]) \/ queue'[r][i] = item
<1>1. CASE Len(queue[q]) < Capacity
  <2>1. /\ queue' = [queue EXCEPT ![q] = Append(@, item)]
        /\ UNCHANGED <<file, lost>>
    BY <1>1 DEF Put
  <2>2. queue[q] \in Seq(Item) /\ Len(queue[q]) \in Nat /\ Capacity \in Nat
    BY TelemetryAssumption DEF IInv, TypeOK
  <2>3. /\ queue' \in [Queue -> Seq(Item)]
        /\ \A r \in Queue : Len(queue'[r]) <= Capacity
    BY <1>1, <2>1, <2>2 DEF IInv, TypeOK
  <2>4. ASSUME NEW r \in Queue, NEW i \in DOMAIN queue'[r]
        PROVE  Ready(queue'[r][i]) \/ queue'[r][i] = item
    <3>1. CASE r # q
      BY <2>1, <3>1 DEF IInv, TypeOK, QueuesInv
    <3>2. CASE r = q
      <4>1. queue'[r] = Append(queue[q], item)
        BY <2>1, <3>2 DEF IInv, TypeOK
      <4>2. CASE i \in DOMAIN queue[q]
        BY <2>2, <4>1, <4>2 DEF IInv, QueuesInv
      <4>3. CASE i = Len(queue[q]) + 1
        BY <2>2, <4>1, <4>3
      <4> QED
        BY <2>2, <4>1, <4>2, <4>3
    <3> QED
      BY <3>1, <3>2
  <2> QED
    BY <2>1, <2>3, <2>4 DEF IInv, TypeOK, FilesInv
<1>2. CASE ~(Len(queue[q]) < Capacity)
  <2>1. Persist(spilled) /\ queue' = queue
    BY <1>2 DEF Put
  <2> QED
    BY <2>1, PersistKeeps DEF IInv, TypeOK, QueuesInv
<1> QED
  BY <1>1, <1>2

\* What is sorted stays sorted, in all steps but those of the triage.
LEMMA EmitKeeps ==
    ASSUME IInv, NEW e \in Event, Emit(e)
    PROVE  IInv'
<1>0. PICK n : n = Len(events) + 1
  OBVIOUS
<1> DEFINE written == [event |-> n, file |-> "telemetry"]
           spilled == [event |-> n, file |-> "fallback"]
<1>1. /\ main = Idle /\ Len(events) < MaxEvents
      /\ events' = Append(events, e)
      /\ main' = [at |-> "marking", queue |-> "triage",
                  item |-> [event |-> n, file |-> FileOf(e)]]
      /\ Put("telemetry", written, spilled)
      /\ UNCHANGED <<mark, hand>>
  BY <1>0 DEF Emit
<1>2. events \in Seq(Event) /\ Len(events) \in Nat /\ MaxEvents \in Nat /\ n \in 1..MaxEvents
  BY <1>0, <1>1, TelemetryAssumption DEF IInv, TypeOK
<1>3. /\ events' \in Seq(Event) /\ Len(events') = n
      /\ events'[n] = e
      /\ \A m \in DOMAIN events : m \in DOMAIN events' /\ m # n /\ events'[m] = events[m]
      /\ n \in DOMAIN events'
  BY <1>0, <1>1, <1>2
<1>4. written \in Item /\ spilled \in Item /\ [event |-> n, file |-> FileOf(e)] \in Item
  BY <1>2, PristineIsUnopposed DEF Item, File
<1>5. ASSUME NEW m, NEW f, Sorted(m, f) PROVE Sorted(m, f)'
  BY <1>1, <1>3, <1>5 DEF Sorted, AtTriage
<1>6. ASSUME NEW item, Ready(item) PROVE Ready(item)'
  BY <1>5, <1>6 DEF Ready
<1>7. /\ file' \in [File -> Seq(Line)] /\ lost' \in SUBSET Item
      /\ \A f \in {"baseline", "quarantine"} : \A i \in DOMAIN file'[f] :
            file'[f][i].mark = "complete" /\ Sorted(file'[f][i].event, f)
      /\ queue' \in [Queue -> Seq(Item)]
      /\ \A r \in Queue : Len(queue'[r]) <= Capacity
      /\ \A r \in Queue : \A i \in DOMAIN queue'[r] :
            Ready(queue'[r][i]) \/ queue'[r][i] = written
  BY <1>1, <1>4, PutKeeps, "fallback" \notin {"baseline", "quarantine"} DEF Queue
<1>8. TypeOK'
  BY <1>1, <1>2, <1>3, <1>4, <1>7 DEF IInv, TypeOK, Queue
<1>9. QueuesInv'
  <2>1. Ready(written)'
    BY <1>1, <1>3 DEF Ready, Sorted
  <2> QED
    BY <1>1, <1>6, <1>7, <2>1 DEF IInv, QueuesInv
<1>10. MainInv'
  BY <1>1, <1>3, <1>4 DEF MainInv
<1>11. FilesInv'
  BY <1>5, <1>7 DEF FilesInv
<1> QED
  BY <1>8, <1>9, <1>10, <1>11 DEF IInv

LEMMA MarkAsKeeps ==
    ASSUME IInv, NEW from, NEW m \in Mark, NEW to,
           MarkAs(from, m, to),
           from \in {"marking", "completing"}, to \in {"completing", "filing"},
           to = "filing" => m = "complete"
    PROVE  IInv'
<1> DEFINE n == main.item.event
<1>1. /\ main.at = from
      /\ mark' = [mark EXCEPT ![n] = m]
      /\ main' = [main EXCEPT !.at = to]
      /\ UNCHANGED <<events, queue, hand, file, lost>>
  BY DEF MarkAs
<1>2. /\ main.item \in Item /\ n \in 1..MaxEvents /\ n \in DOMAIN events
      /\ main.item.file = FileOf(events[n])
  BY <1>1 DEF IInv, MainInv, Item
<1>3. /\ main'.at = to /\ main'.item = main.item /\ main'.queue = main.queue
      /\ mark'[n] = m /\ mark' \in [1..MaxEvents -> Mark]
  BY <1>1, <1>2 DEF IInv, TypeOK
<1>4. ASSUME NEW k, NEW f, Sorted(k, f) PROVE Sorted(k, f)'
  <2>1. CASE k = n
    BY <1>1, <1>4, <2>1 DEF Sorted, AtTriage
  <2>2. CASE k # n
    <3>1. ~AtTriage(k)'
      BY <1>3, <2>2 DEF AtTriage
    <3>2. mark'[k] = mark[k] \/ k \notin DOMAIN mark
      BY <1>1, <2>2 DEF IInv, TypeOK
    <3>3. events \in Seq(Event) /\ Len(events) <= MaxEvents /\ MaxEvents \in Nat
      BY TelemetryAssumption DEF IInv, TypeOK
    <3>4. k \in DOMAIN events => k \in DOMAIN mark
      BY <3>3 DEF IInv, TypeOK
    <3> QED
      BY <1>1, <1>4, <3>1, <3>2, <3>4 DEF Sorted
  <2> QED
    BY <2>1, <2>2
<1>5. ASSUME NEW item, Ready(item) PROVE Ready(item)'
  BY <1>4, <1>5 DEF Ready
<1>6. TypeOK'
  BY <1>1, <1>3 DEF IInv, TypeOK
<1>7. QueuesInv'
  BY <1>1, <1>5 DEF IInv, QueuesInv
<1>8. MainInv'
  BY <1>1, <1>2, <1>3 DEF MainInv
<1>9. FilesInv'
  BY <1>1, <1>4 DEF IInv, FilesInv
<1> QED
  BY <1>6, <1>7, <1>8, <1>9 DEF IInv

\* In the steps that leave events and marks as they are and after which the triage changes
\* no dict that it did not before, what is sorted stays sorted.
LEMMA SortedStays ==
    ASSUME NEW m, NEW f, Sorted(m, f), UNCHANGED <<events, mark>>,
           main'.at \in {"idle", "flushing"} \/ main' = main
    PROVE  Sorted(m, f)'
  BY DEF Sorted, AtTriage

LEMMA EnqueueKeeps == IInv /\ Enqueue => IInv'
<1> SUFFICES ASSUME IInv, Enqueue PROVE IInv'
  OBVIOUS
<1>0. PICK item : item = main.item
  OBVIOUS
<1>1. /\ main.at = "filing" /\ main' = Idle
      /\ Put("triage", item, item)
      /\ UNCHANGED <<events, mark, hand>>
  BY <1>0 DEF Enqueue
<1>2. item \in Item /\ Ready(item)
  BY <1>0, <1>1 DEF IInv, MainInv, Ready, Sorted, AtTriage
<1>3. ASSUME NEW m, NEW f, Sorted(m, f) PROVE Sorted(m, f)'
  BY <1>1, <1>3, SortedStays DEF Idle
<1>4. ASSUME NEW i, Ready(i) PROVE Ready(i)'
  BY <1>3, <1>4 DEF Ready
<1>5. /\ file' \in [File -> Seq(Line)] /\ lost' \in SUBSET Item
      /\ \A f \in {"baseline", "quarantine"} : \A i \in DOMAIN file'[f] :
            file'[f][i].mark = "complete" /\ Sorted(file'[f][i].event, f)
      /\ queue' \in [Queue -> Seq(Item)]
      /\ \A r \in Queue : Len(queue'[r]) <= Capacity
      /\ \A r \in Queue : \A i \in DOMAIN queue'[r] :
            Ready(queue'[r][i]) \/ queue'[r][i] = item
  BY <1>1, <1>2, PutKeeps DEF Queue
<1>6. TypeOK'
  BY <1>1, <1>5 DEF IInv, TypeOK, Idle, Queue
<1>7. QueuesInv'
  BY <1>1, <1>2, <1>4, <1>5 DEF IInv, QueuesInv
<1>8. MainInv'
  BY <1>1 DEF MainInv, Idle
<1>9. FilesInv'
  BY <1>3, <1>5 DEF FilesInv
<1> QED
  BY <1>6, <1>7, <1>8, <1>9 DEF IInv

\* The head of a queue is ready, and so is what remains.
LEMMA TakenIsReady ==
    ASSUME IInv, NEW q \in Queue, queue[q] # <<>>,
           queue' = [queue EXCEPT ![q] = Tail(@)]
    PROVE  /\ Head(queue[q]) \in Item /\ Ready(Head(queue[q]))
           /\ queue' \in [Queue -> Seq(Item)]
           /\ \A r \in Queue : Len(queue'[r]) <= Capacity
           /\ \A r \in Queue : \A i \in DOMAIN queue'[r] : Ready(queue'[r][i])
<1>1. queue[q] \in Seq(Item) /\ Len(queue[q]) > 0 /\ Len(queue[q]) <= Capacity
      /\ Capacity \in Nat
  BY TelemetryAssumption DEF IInv, TypeOK
<1>2. /\ Head(queue[q]) = queue[q][1] /\ 1 \in DOMAIN queue[q]
      /\ Tail(queue[q]) \in Seq(Item) /\ Len(Tail(queue[q])) = Len(queue[q]) - 1
      /\ \A i \in DOMAIN Tail(queue[q]) :
            i + 1 \in DOMAIN queue[q] /\ Tail(queue[q])[i] = queue[q][i + 1]
  BY <1>1
<1>3. Head(queue[q]) \in Item /\ Ready(Head(queue[q]))
  BY <1>1, <1>2 DEF IInv, QueuesInv
<1>4. /\ queue' \in [Queue -> Seq(Item)]
      /\ \A r \in Queue : Len(queue'[r]) <= Capacity
  BY <1>1, <1>2 DEF IInv, TypeOK
<1>5. ASSUME NEW r \in Queue, NEW i \in DOMAIN queue'[r] PROVE Ready(queue'[r][i])
  <2>1. CASE r # q
    BY <1>5, <2>1 DEF IInv, TypeOK, QueuesInv
  <2>2. CASE r = q
    <3>1. queue'[r] = Tail(queue[q])
      BY <2>2 DEF IInv, TypeOK
    <3> QED
      BY <1>2, <3>1 DEF IInv, QueuesInv
  <2> QED
    BY <2>1, <2>2
<1> QED
  BY <1>3, <1>4, <1>5

LEMMA TakeKeeps ==
    ASSUME IInv, NEW q \in Queue, Take(q)
    PROVE  IInv'
<1>0. PICK item : item = Head(queue[q])
  OBVIOUS
<1>1. /\ queue[q] # <<>>
      /\ hand' = [hand EXCEPT ![q] = item]
      /\ queue' = [queue EXCEPT ![q] = Tail(@)]
      /\ UNCHANGED <<events, mark, file, main, lost>>
  BY <1>0 DEF Take
<1>2. /\ item \in Item /\ Ready(item)
      /\ queue' \in [Queue -> Seq(Item)]
      /\ \A r \in Queue : Len(queue'[r]) <= Capacity
      /\ \A r \in Queue : \A i \in DOMAIN queue'[r] : Ready(queue'[r][i])
  BY <1>0, <1>1, TakenIsReady
<1>3. ASSUME NEW m, NEW f, Sorted(m, f) PROVE Sorted(m, f)'
  BY <1>1, <1>3, SortedStays
<1>4. ASSUME NEW i, Ready(i) PROVE Ready(i)'
  BY <1>3, <1>4 DEF Ready
<1>5. TypeOK'
  BY <1>1, <1>2 DEF IInv, TypeOK
<1>6. QueuesInv'
  <2>1. \A r \in Queue : hand'[r] = item \/ hand'[r] = hand[r]
    BY <1>1 DEF IInv, TypeOK
  <2> QED
    BY <1>2, <1>4, <2>1 DEF IInv, QueuesInv
<1>7. MainInv'
  BY <1>1, <1>4 DEF IInv, MainInv
<1>8. FilesInv'
  BY <1>1, <1>3 DEF IInv, FilesInv
<1> QED
  BY <1>5, <1>6, <1>7, <1>8 DEF IInv

LEMMA WriteKeeps ==
    ASSUME IInv, NEW q \in Queue, Write(q)
    PROVE  IInv'
<1>1. /\ hand[q] # Nothing /\ Persist(hand[q])
      /\ hand' = [hand EXCEPT ![q] = Nothing]
      /\ UNCHANGED <<events, mark, queue, main>>
  BY DEF Write
<1>2. hand[q] \in Item /\ Ready(hand[q])
  BY <1>1 DEF IInv, TypeOK, QueuesInv
<1>3. ASSUME NEW m, NEW f, Sorted(m, f) PROVE Sorted(m, f)'
  BY <1>1, <1>3, SortedStays
<1>4. ASSUME NEW i, Ready(i) PROVE Ready(i)'
  BY <1>3, <1>4 DEF Ready
<1>5. /\ file' \in [File -> Seq(Line)] /\ lost' \in SUBSET Item
      /\ \A f \in {"baseline", "quarantine"} : \A i \in DOMAIN file'[f] :
            file'[f][i].mark = "complete" /\ Sorted(file'[f][i].event, f)
  BY <1>1, <1>2, PersistKeeps
<1>6. TypeOK'
  BY <1>1, <1>5 DEF IInv, TypeOK
<1>7. QueuesInv'
  <2>1. \A r \in Queue : hand'[r] = Nothing \/ hand'[r] = hand[r]
    BY <1>1 DEF IInv, TypeOK
  <2> QED
    BY <1>1, <1>4, <2>1 DEF IInv, QueuesInv
<1>8. MainInv'
  BY <1>1, <1>4 DEF IInv, MainInv
<1>9. FilesInv'
  BY <1>3, <1>5 DEF FilesInv
<1> QED
  BY <1>6, <1>7, <1>8, <1>9 DEF IInv

LEMMA FlushKeeps ==
    ASSUME IInv, NEW q \in Queue, Flush(q)
    PROVE  IInv'
<1>1. /\ main = Idle
      /\ main' = [main EXCEPT !.at = "flushing", !.queue = q]
      /\ UNCHANGED <<events, mark, queue, hand, file, lost>>
  BY DEF Flush
<1>2. main' = [at |-> "flushing", queue |-> q, item |-> Nothing]
  BY <1>1 DEF Idle
<1>3. ASSUME NEW m, NEW f, Sorted(m, f) PROVE Sorted(m, f)'
  BY <1>1, <1>2, <1>3, SortedStays
<1>4. ASSUME NEW i, Ready(i) PROVE Ready(i)'
  BY <1>3, <1>4 DEF Ready
<1>5. TypeOK'
  BY <1>1, <1>2 DEF IInv, TypeOK
<1>6. QueuesInv'
  BY <1>1, <1>4 DEF IInv, QueuesInv
<1>7. MainInv'
  BY <1>2 DEF MainInv
<1>8. FilesInv'
  BY <1>1, <1>3 DEF IInv, FilesInv
<1> QED
  BY <1>5, <1>6, <1>7, <1>8 DEF IInv

LEMMA DrainKeeps == IInv /\ Drain => IInv'
<1> SUFFICES ASSUME IInv, Drain PROVE IInv'
  OBVIOUS
<1>0. PICK q \in Queue : q = main.queue
  BY DEF IInv, TypeOK
<1>1. /\ main.at = "flushing"
      /\ UNCHANGED <<events, mark, hand>>
      /\ main \in [at : {"idle", "marking", "completing", "filing", "flushing"},
                   queue : Queue, item : Item \cup {Nothing}]
  BY DEF Drain, IInv, TypeOK
<1>2. CASE /\ main.item # Nothing
           /\ Persist(main.item)
           /\ main' = [main EXCEPT !.item = Nothing]
           /\ UNCHANGED queue
  <2>0. PICK item : item = main.item
    OBVIOUS
  <2>1. main' = [at |-> "flushing", queue |-> q, item |-> Nothing]
    BY <1>0, <1>1, <1>2
  <2>2. item \in Item /\ Ready(item)
    BY <1>1, <1>2, <2>0 DEF IInv, MainInv
  <2>3. ASSUME NEW m, NEW f, Sorted(m, f) PROVE Sorted(m, f)'
    BY <1>1, <2>1, <2>3, SortedStays
  <2>4. ASSUME NEW i, Ready(i) PROVE Ready(i)'
    BY <2>3, <2>4 DEF Ready
  <2>5. /\ file' \in [File -> Seq(Line)] /\ lost' \in SUBSET Item
        /\ \A f \in {"baseline", "quarantine"} : \A i \in DOMAIN file'[f] :
              file'[f][i].mark = "complete" /\ Sorted(file'[f][i].event, f)
    BY <1>2, <2>0, <2>2, PersistKeeps
  <2>6. TypeOK'
    BY <1>1, <1>2, <2>1, <2>5 DEF IInv, TypeOK
  <2>7. QueuesInv'
    BY <1>1, <1>2, <2>4 DEF IInv, QueuesInv
  <2>8. MainInv'
    BY <2>1 DEF MainInv
  <2>9. FilesInv'
    BY <2>3, <2>5 DEF FilesInv
  <2> QED
    BY <2>6, <2>7, <2>8, <2>9 DEF IInv
<1>3. CASE /\ queue[main.queue] = <<>> /\ main' = Idle
           /\ UNCHANGED <<queue, file, lost>>
  <2>1. ASSUME NEW m, NEW f, Sorted(m, f) PROVE Sorted(m, f)'
    BY <1>1, <1>3, <2>1, SortedStays DEF Idle
  <2>2. ASSUME NEW i, Ready(i) PROVE Ready(i)'
    BY <2>1, <2>2 DEF Ready
  <2>3. TypeOK'
    BY <1>1, <1>3 DEF IInv, TypeOK, Idle, Queue
  <2>4. QueuesInv'
    BY <1>1, <1>3, <2>2 DEF IInv, QueuesInv
  <2>5. MainInv'
    BY <1>3 DEF MainInv, Idle
  <2>6. FilesInv'
    BY <1>3, <2>1 DEF IInv, FilesInv
  <2> QED
    BY <2>3, <2>4, <2>5, <2>6 DEF IInv
<1>4. CASE /\ queue[main.queue] # <<>>
           /\ main' = [main EXCEPT !.item = Head(queue[main.queue])]
           /\ queue' = [queue EXCEPT ![main.queue] = Tail(@)]
           /\ UNCHANGED <<file, lost>>
  <2>0. PICK item : item = Head(queue[q])
    OBVIOUS
  <2>1. main' = [at |-> "flushing", queue |-> q, item |-> item]
    BY <1>0, <1>1, <1>4, <2>0
  <2>2. /\ item \in Item /\ Ready(item)
        /\ queue' \in [Queue -> Seq(Item)]
        /\ \A r \in Queue : Len(queue'[r]) <= Capacity
        /\ \A r \in Queue : \A i \in DOMAIN queue'[r] : Ready(queue'[r][i])
    BY <1>0, <1>4, <2>0, TakenIsReady
  <2>3. ASSUME NEW m, NEW f, Sorted(m, f) PROVE Sorted(m, f)'
    BY <1>1, <2>1, <2>3, SortedStays
  <2>4. ASSUME NEW i, Ready(i) PROVE Ready(i)'
    BY <2>3, <2>4 DEF Ready
  <2>5. TypeOK'
    BY <1>1, <1>4, <2>1, <2>2 DEF IInv, TypeOK
  <2>6. QueuesInv'
    BY <1>1, <2>2, <2>4 DEF IInv, QueuesInv
  <2>7. MainInv'
    BY <2>1, <2>2, <2>4 DEF MainInv
  <2>8. FilesInv'
    BY <1>4, <2>3 DEF IInv, FilesInv
  <2> QED
    BY <2>5, <2>6, <2>7, <2>8 DEF IInv
<1> QED
  BY <1>1, <1>2, <1>3, <1>4 DEF Drain

LEMMA RestartKeeps == IInv /\ Restart => IInv'
<1> SUFFICES ASSUME IInv, Restart PROVE IInv'
  OBVIOUS
<1>1. /\ queue' = [q \in Queue |-> <<>>] /\ hand' = [q \in Queue |-> Nothing]
      /\ main' = Idle
      /\ UNCHANGED <<events, mark, file>>
  BY DEF Restart
<1>2. lost' \in SUBSET Item
  <2>1. ASSUME NEW q \in Queue, NEW i \in DOMAIN queue[q] PROVE queue[q][i] \in Item
    <3>1. queue[q] \in Seq(Item)
      BY DEF IInv, TypeOK
    <3> QED
      BY <3>1
  <2>2. \A q \in Queue : hand[q] \in Item \cup {Nothing}
    BY DEF IInv, TypeOK
  <2>3. main.item \in Item \cup {Nothing} /\ lost \in SUBSET Item
    BY DEF IInv, TypeOK
  <2> QED
    BY <2>1, <2>2, <2>3 DEF Restart
<1>3. ASSUME NEW m, NEW f, Sorted(m, f) PROVE Sorted(m, f)'
  BY <1>1, <1>3, SortedStays DEF Idle
<1>4. TypeOK'
  BY <1>1, <1>2, TelemetryAssumption DEF IInv, TypeOK, Idle, Queue
<1>5. QueuesInv'
  BY <1>1 DEF QueuesInv
<1>6. MainInv'
  BY <1>1 DEF MainInv, Idle
<1>7. FilesInv'
  BY <1>1, <1>3 DEF IInv, FilesInv
<1> QED
  BY <1>4, <1>5, <1>6, <1>7 DEF IInv

LEMMA NextKeeps == IInv /\ [Next]_vars => IInv'
<1> SUFFICES ASSUME IInv, [Next]_vars PROVE IInv'
  OBVIOUS
<1>1. CASE \E e \in Event : Emit(e)
  BY <1>1, EmitKeeps
<1>2. CASE Triage
  <2>1. CASE MarkAs("marking", "quarantined", "completing")
    BY <2>1, MarkAsKeeps DEF Mark
  <2>2. CASE MarkAs("completing", "complete", "filing")
    BY <2>2, MarkAsKeeps DEF Mark
  <2> QED
    BY <1>2, <2>1, <2>2, EnqueueKeeps DEF Triage
<1>3. CASE \E q \in Queue : Flush(q) \/ Take(q) \/ Write(q)
  BY <1>3, FlushKeeps, TakeKeeps, WriteKeeps
<1>4. CASE UNCHANGED vars
  BY <1>4 DEF vars, IInv, TypeOK, QueuesInv, MainInv, FilesInv, Ready, Sorted, AtTriage
<1> QED
  BY <1>1, <1>2, <1>3, <1>4, DrainKeeps, RestartKeeps DEF Next

LEMMA InvariantHolds == Spec => []IInv
  BY InitHolds, NextKeeps, PTL DEF Spec

-----------------------------------------------------------------------------
\* The queues stay within their capacity, and every variable within its type.
THEOREM TypeCorrect == Spec => []TypeOK
<1>1. IInv => TypeOK
  BY DEF IInv
<1> QED
  BY <1>1, InvariantHolds, PTL

\* What models are trained on is all that was allowed without the WAF, the token check or
\* the rules speaking against it, whatever rate, anomaly and trust of at most 7.5 points
\* it has, in lines that bear their tier, whoever wrote them.
THEOREM AllowedIsLearned == Spec => []OnlyAllowedIsLearned
<1>1. IInv => OnlyAllowedIsLearned
  <2> SUFFICES ASSUME IInv, NEW f \in {"baseline", "quarantine"}, NEW i \in DOMAIN file[f]
               PROVE  /\ file[f][i].mark = "complete"
                      /\ Unopposed(events[file[f][i].event]) <=> f = "baseline"
                      /\ f = "baseline"
                           => Suspicion(events[file[f][i].event].signals) <= 750
    BY DEF OnlyAllowedIsLearned
  <2> DEFINE n == file[f][i].event
  <2>1. file[f][i].mark = "complete" /\ n \in DOMAIN events /\ f = FileOf(events[n])
    BY DEF IInv, FilesInv, Sorted
  <2>2. events[n] \in Event
    BY <2>1 DEF IInv, TypeOK
  <2>3. Unopposed(events[n]) <=> f = "baseline"
    BY <2>1, <2>2, PristineIsUnopposed
  <2>4. f = "baseline" => Suspicion(events[n].signals) <= 750
    BY <2>2, <2>3, LittleSuspicion
  <2> QED
    BY <2>1, <2>3, <2>4
<1> QED
  BY <1>1, InvariantHolds, PTL
-----------------------------------------------------------------------------
(* Where an event is.  On each of its two ways it is in one place from the  *)
(* step that emits it: each step leaves it there or takes it from there to  *)
(* one other place.  An item is for a file of the way it is on, so that no  *)
(* step on the one way touches the other.                                   *)

Nowhere(q, n) ==
    Queued(q, n) = {} /\ Held(q, n) = {} /\ Written(q, n) = {} /\ Missing(q, n) = {}

Somewhere(q, n) ==
    \/ /\ \E x : Queued(q, n) = {x}
       /\ Held(q, n) = {} /\ Written(q, n) = {} /\ Missing(q, n) = {}
    \/ /\ \E x : Held(q, n) = {x}
       /\ Queued(q, n) = {} /\ Written(q, n) = {} /\ Missing(q, n) = {}
    \/ /\ \E x : Written(q, n) = {x}
       /\ Queued(q, n) = {} /\ Held(q, n) = {} /\ Missing(q, n) = {}
    \/ /\ \E x : Missing(q, n) = {x}
       /\ Queued(q, n) = {} /\ Held(q, n) = {} /\ Written(q, n) = {}

WaysInv ==
    /\ \A q \in Queue : \A i \in DOMAIN queue[q] : queue[q][i].file \in FilesOf(q)
    /\ \A q \in Queue : hand[q] # Nothing => hand[q].file \in FilesOf(q)
    /\ main.item # Nothing => main.item.file \in FilesOf(main.queue)

PlacesInv ==
    \A q \in Queue, n \in 1..MaxEvents :
        IF n \in DOMAIN events THEN Somewhere(q, n) ELSE Nowhere(q, n)

\* The step leaves event n where it is on way q, or takes it to one other place of it.
Moves(q, n) == (Nowhere(q, n) => Nowhere(q, n)') /\ (Somewhere(q, n) => Somewhere(q, n)')

LEMMA FilesApart ==
    ASSUME NEW q \in Queue, NEW r \in Queue, NEW f, f \in FilesOf(q), f \in FilesOf(r)
    PROVE  q = r
  BY DEF FilesOf, Queue

\* Being in the hand of the one thread or the other
LEMMA HeldIs ==
    ASSUME NEW q, NEW n
    PROVE  /\ Held(q, n) \subseteq {"thread", "main"}
           /\ "thread" \in Held(q, n) <=> hand[q] # Nothing /\ hand[q].event = n
           /\ "main" \in Held(q, n) <=> /\ main.item # Nothing /\ main.item.event = n
                                        /\ main.item.file \in FilesOf(q)
  BY DEF Held

LEMMA WrittenIs ==
    ASSUME NEW q, NEW n
    PROVE  \A x : x \in Written(q, n) <=>
             \E f \in FilesOf(q) : \E i \in DOMAIN file[f] :
                 file[f][i].event = n /\ x = <<f, i>>
  BY DEF Written

\* What is written or lost of an item that is on no file's way is on no way; otherwise it
\* comes to be in one more place.
LEMMA PersistPlaces ==
    ASSUME TypeOK, NEW item \in Item, Persist(item), NEW q \in Queue, NEW n \in 1..MaxEvents
    PROVE  /\ item.event # n \/ item.file \notin FilesOf(q) =>
                Written(q, n)' = Written(q, n) /\ Missing(q, n)' = Missing(q, n)
           /\ item.event = n /\ item.file \in FilesOf(q)
                /\ Written(q, n) = {} /\ Missing(q, n) = {} =>
                \/ (\E x : Written(q, n)' = {x}) /\ Missing(q, n)' = {}
                \/ (\E x : Missing(q, n)' = {x}) /\ Written(q, n)' = {}
<1>1. CASE /\ file' = [file EXCEPT ![item.file] =
                         Append(@, [event |-> item.event, mark |-> mark[item.event]])]
           /\ lost' = lost
  <2> DEFINE line == [event |-> item.event, mark |-> mark[item.event]]
             g == item.file
             last == Len(file[g]) + 1
  <2>1. /\ g \in File /\ file[g] \in Seq(Line) /\ line \in Line /\ item.event \in 1..MaxEvents
    BY DEF TypeOK, Item, Line
  <2>2. /\ DOMAIN file'[g] = DOMAIN file[g] \cup {last} /\ last \notin DOMAIN file[g]
        /\ file'[g][last] = line
        /\ \A i \in DOMAIN file[g] : file'[g][i] = file[g][i]
    <3>1. file'[g] = Append(file[g], line)
      BY <1>1, <2>1 DEF TypeOK
    <3> HIDE DEF line, g
    <3> QED
      BY <2>1, <3>1
  <2>3. \A f \in FilesOf(q) : f # g => file'[f] = file[f]
    BY <1>1 DEF TypeOK
  <2>4. line.event = item.event
    OBVIOUS
  <2> HIDE DEF line, last
  <2>5. \A x : x \in Written(q, n)' <=>
              x \in Written(q, n) \/ (item.event = n /\ g \in FilesOf(q) /\ x = <<g, last>>)
    <3>1. \A x : x \in Written(q, n)' <=>
             \E f \in FilesOf(q) : \E i \in DOMAIN file'[f] :
                 file'[f][i].event = n /\ x = <<f, i>>
      BY DEF Written
    <3>2. ASSUME NEW x, x \in Written(q, n)'
          PROVE  x \in Written(q, n) \/ (item.event = n /\ g \in FilesOf(q) /\ x = <<g, last>>)
      <4>1. PICK f \in FilesOf(q) : \E i \in DOMAIN file'[f] : file'[f][i].event = n /\ x = <<f, i>>
        BY <3>1, <3>2
      <4>2. CASE f # g
        BY <2>3, <4>1, <4>2, WrittenIs
      <4>3. CASE f = g
        BY <2>2, <2>4, <4>1, <4>3, WrittenIs
      <4> QED
        BY <4>2, <4>3
    <3>3. ASSUME NEW x, x \in Written(q, n) PROVE x \in Written(q, n)'
      <4>1. PICK f \in FilesOf(q) : \E i \in DOMAIN file[f] : file[f][i].event = n /\ x = <<f, i>>
        BY <3>3, WrittenIs
      <4>2. \A i \in DOMAIN file[f] : i \in DOMAIN file'[f] /\ file'[f][i] = file[f][i]
        BY <2>2, <2>3
      <4> QED
        BY <3>1, <4>1, <4>2
    <3>4. ASSUME item.event = n, g \in FilesOf(q) PROVE <<g, last>> \in Written(q, n)'
      BY <2>2, <2>4, <3>1, <3>4
    <3> QED
      BY <3>2, <3>3, <3>4
  <2>6. Missing(q, n)' = Missing(q, n)
    BY <1>1 DEF Missing
  <2>7. ASSUME item.event # n \/ item.file \notin FilesOf(q)
        PROVE  Written(q, n)' = Written(q, n)
    BY <2>5, <2>7
  <2>8. ASSUME item.event = n, item.file \in FilesOf(q), Written(q, n) = {}
        PROVE  Written(q, n)' = {<<g, last>>}
    BY <2>5, <2>8
  <2> QED
    BY <2>6, <2>7, <2>8
<1>2. CASE lost' = lost \cup {item} /\ file' = file
  <2>1. Written(q, n)' = Written(q, n)
    BY <1>2 DEF Written
  <2>2. Missing(q, n)' = Missing(q, n) \cup
          {i \in {item} : i.event = n /\ i.file \in FilesOf(q)}
    BY <1>2 DEF Missing
  <2>3. ASSUME item.event # n \/ item.file \notin FilesOf(q)
        PROVE  Missing(q, n)' = Missing(q, n)
    BY <2>2, <2>3
  <2>4. ASSUME item.event = n, item.file \in FilesOf(q), Missing(q, n) = {}
        PROVE  Missing(q, n)' = {item}
    BY <2>2, <2>4
  <2> QED
    BY <2>1, <2>3, <2>4
<1> QED
  BY <1>1, <1>2 DEF Persist

\* The head of a queue leaves it; the others of it are one place further on.
LEMMA TailPlaces ==
    ASSUME TypeOK, NEW q \in Queue, queue[q] # <<>>,
           queue' = [queue EXCEPT ![q] = Tail(@)],
           NEW r \in Queue, NEW n
    PROVE  /\ r # q \/ Head(queue[q]).event # n =>
                /\ Queued(r, n) = {} => Queued(r, n)' = {}
                /\ (\E x : Queued(r, n) = {x}) => (\E x : Queued(r, n)' = {x})
           /\ r = q /\ Head(queue[q]).event = n =>
                /\ Queued(r, n) # {}
                /\ (\E x : Queued(r, n) = {x}) => Queued(r, n)' = {}
<1>1. CASE r # q
  <2>1. queue'[r] = queue[r]
    BY <1>1 DEF TypeOK
  <2> QED
    BY <1>1, <2>1 DEF Queued
<1>2. CASE r = q
  <2>1. queue'[q] = Tail(queue[q]) /\ queue[q] \in Seq(Item) /\ Len(queue[q]) \in Nat
    BY DEF TypeOK
  <2>2. /\ Head(queue[q]) = queue[q][1] /\ 1 \in DOMAIN queue[q]
        /\ DOMAIN queue[q] \subseteq Int
        /\ \A i \in DOMAIN queue[q] : i # 1 => i - 1 \in DOMAIN queue'[q]
        /\ \A i \in DOMAIN queue'[q] :
              i \in Int /\ i + 1 \in DOMAIN queue[q] /\ i + 1 # 1
              /\ queue'[q][i] = queue[q][i + 1]
    <3>1. Len(queue[q]) > 0
      BY <2>1
    <3>2. /\ Head(queue[q]) = queue[q][1] /\ DOMAIN queue[q] = 1..Len(queue[q])
          /\ DOMAIN Tail(queue[q]) = 1..(Len(queue[q]) - 1)
          /\ \A i \in 1..(Len(queue[q]) - 1) : Tail(queue[q])[i] = queue[q][i + 1]
      BY <2>1, <3>1
    <3>3. /\ Head(queue[q]) = queue[q][1] /\ 1 \in DOMAIN queue[q]
          /\ DOMAIN queue[q] \subseteq Int
      BY <2>1, <3>1, <3>2
    <3>4. ASSUME NEW i \in DOMAIN queue[q], i # 1 PROVE i - 1 \in DOMAIN queue'[q]
      BY <2>1, <3>2, <3>4
    <3>5. ASSUME NEW i \in DOMAIN queue'[q]
          PROVE  i \in Int /\ i + 1 \in DOMAIN queue[q] /\ i + 1 # 1
                 /\ queue'[q][i] = queue[q][i + 1]
      <4>1. i \in 1..(Len(queue[q]) - 1)
        BY <2>1, <3>2
      <4>2. i \in Int /\ i + 1 \in 1..Len(queue[q]) /\ i + 1 # 1
        BY <2>1, <4>1
      <4> QED
        BY <2>1, <3>2, <4>1, <4>2
    <3> QED
      BY <3>3, <3>4, <3>5
  <2>3. \A i \in Queued(q, n)' : i \in Int /\ i + 1 \in Queued(q, n) /\ i + 1 # 1
    BY <2>2 DEF Queued
  <2>4. \A i \in Queued(q, n) : i \in Int /\ (i # 1 => i - 1 \in Queued(q, n)')
    <3> SUFFICES ASSUME NEW i \in Queued(q, n) PROVE i \in Int /\ (i # 1 => i - 1 \in Queued(q, n)')
      OBVIOUS
    <3>1. i \in DOMAIN queue[q] /\ queue[q][i].event = n /\ i \in Int
      BY <2>2 DEF Queued
    <3>2. CASE i # 1
      <4>1. i - 1 \in DOMAIN queue'[q]
        BY <2>2, <3>1, <3>2
      <4>2. queue'[q][i - 1] = queue[q][(i - 1) + 1] /\ (i - 1) + 1 = i
        BY <2>2, <3>1, <4>1
      <4> QED
        BY <3>1, <4>1, <4>2 DEF Queued
    <3> QED
      BY <3>1, <3>2
  <2>5. Head(queue[q]).event = n <=> 1 \in Queued(q, n)
    BY <2>2 DEF Queued
  <2>6. CASE Head(queue[q]).event # n
    <3>1. ASSUME NEW x, Queued(q, n) = {x} PROVE Queued(q, n)' = {x - 1}
      <4>1. x \in Int /\ x - 1 \in Queued(q, n)'
        BY <2>4, <2>5, <2>6, <3>1
      <4>2. \A i \in Queued(q, n)' : i \in Int /\ i + 1 = x
        BY <2>3, <3>1
      <4>3. \A i \in Queued(q, n)' : i = x - 1
        BY <4>1, <4>2
      <4> QED
        BY <4>1, <4>3
    <3> QED
      BY <1>2, <2>3, <2>6, <3>1
  <2>7. CASE Head(queue[q]).event = n
    <3>1. ASSUME NEW x, Queued(q, n) = {x} PROVE Queued(q, n)' = {}
      BY <2>3, <2>5, <2>7, <3>1
    <3> QED
      BY <1>2, <2>5, <2>7, <3>1
  <2> QED
    BY <2>6, <2>7
<1> QED
  BY <1>1, <1>2

\* Event n is in the queue, in a file or lost, in one place only.
Landed(q, n) ==
    \/ (\E x : Queued(q, n) = {x}) /\ Written(q, n) = {} /\ Missing(q, n) = {}
    \/ (\E x : Written(q, n) = {x}) /\ Queued(q, n) = {} /\ Missing(q, n) = {}
    \/ (\E x : Missing(q, n) = {x}) /\ Queued(q, n) = {} /\ Written(q, n) = {}

\* What is put comes to be in one place of its way, and nothing else moves.
LEMMA PutPlaces ==
    ASSUME TypeOK, NEW q \in Queue, NEW item \in Item, NEW spilled \in Item,
           Put(q, item, spilled), spilled.event = item.event,
           spilled.file \in FilesOf(q),
           NEW r \in Queue, NEW n \in 1..MaxEvents
    PROVE  /\ r # q \/ item.event # n =>
                /\ Queued(r, n)' = Queued(r, n)
                /\ Written(r, n)' = Written(r, n) /\ Missing(r, n)' = Missing(r, n)
           /\ r = q /\ item.event = n
                /\ Queued(r, n) = {} /\ Written(r, n) = {} /\ Missing(r, n) = {} =>
                Landed(r, n)'
<1>1. CASE Len(queue[q]) < Capacity
  <2>1. queue' = [queue EXCEPT ![q] = Append(@, item)] /\ UNCHANGED <<file, lost>>
    BY <1>1 DEF Put
  <2>2. Written(r, n)' = Written(r, n) /\ Missing(r, n)' = Missing(r, n)
    BY <2>1 DEF Written, Missing
  <2>3. CASE r # q
    <3>1. queue'[r] = queue[r]
      BY <2>1, <2>3 DEF TypeOK
    <3> QED
      BY <2>2, <2>3, <3>1 DEF Queued
  <2>4. CASE r = q
    <3> USE DEF Landed
    <3> DEFINE last == Len(queue[q]) + 1
    <3>1. queue'[q] = Append(queue[q], item) /\ queue[q] \in Seq(Item)
      BY <2>1 DEF TypeOK
    <3>2. /\ DOMAIN queue'[q] = DOMAIN queue[q] \cup {last} /\ queue'[q][last] = item
          /\ \A i \in DOMAIN queue[q] : queue'[q][i] = queue[q][i]
          /\ last \notin DOMAIN queue[q]
      BY <3>1
    <3> HIDE DEF last
    <3>3. \A i : i \in Queued(q, n)' <=> i \in Queued(q, n) \/ (item.event = n /\ i = last)
      BY <3>2 DEF Queued
    <3>4. item.event # n => Queued(q, n)' = Queued(q, n)
      BY <3>3
    <3>5. item.event = n /\ Queued(q, n) = {} => Queued(q, n)' = {last}
      BY <3>3
    <3> QED
      BY <2>2, <2>4, <3>4, <3>5
  <2> QED
    BY <2>3, <2>4
<1>2. CASE ~(Len(queue[q]) < Capacity)
  <2>1. Persist(spilled) /\ queue' = queue
    BY <1>2 DEF Put
  <2>2. Queued(r, n)' = Queued(r, n)
    BY <2>1 DEF Queued
  <2>3. r # q => spilled.file \notin FilesOf(r)
    BY FilesApart
  <2>4. /\ spilled.event # n \/ spilled.file \notin FilesOf(r) =>
                Written(r, n)' = Written(r, n) /\ Missing(r, n)' = Missing(r, n)
        /\ spilled.event = n /\ spilled.file \in FilesOf(r)
                /\ Written(r, n) = {} /\ Missing(r, n) = {} =>
                \/ (\E x : Written(r, n)' = {x}) /\ Missing(r, n)' = {}
                \/ (\E x : Missing(r, n)' = {x}) /\ Written(r, n)' = {}
    BY <2>1, PersistPlaces
  <2>5. CASE r # q \/ item.event # n
    BY <2>2, <2>3, <2>4, <2>5
  <2>6. CASE r = q /\ item.event = n
    BY <2>2, <2>4, <2>6 DEF Landed
  <2> QED
    BY <2>5, <2>6
<1> QED
  BY <1>1, <1>2

\* The steps that only move an item between places are told apart by the item.
LEMMA EmitPlaces ==
    ASSUME IInv, PlacesInv, NEW e \in Event, Emit(e)
    PROVE  PlacesInv'
<1>0. PICK k : k = Len(events) + 1
  OBVIOUS
<1> DEFINE written == [event |-> k, file |-> "telemetry"]
           spilled == [event |-> k, file |-> "fallback"]
<1>1. /\ main = Idle
      /\ events' = Append(events, e) /\ Len(events) < MaxEvents
      /\ main' = [at |-> "marking", queue |-> "triage",
                  item |-> [event |-> k, file |-> FileOf(e)]]
      /\ Put("telemetry", written, spilled)
      /\ hand' = hand
  BY <1>0 DEF Emit
<1>2. /\ events \in Seq(Event) /\ Len(events) \in Nat /\ MaxEvents \in Nat /\ k \in 1..MaxEvents
  BY <1>0, <1>1, TelemetryAssumption DEF IInv, TypeOK
<1>3. k \notin DOMAIN events /\ DOMAIN events' = DOMAIN events \cup {k}
  BY <1>0, <1>1, <1>2
<1>4. /\ written \in Item /\ spilled \in Item
      /\ [event |-> k, file |-> FileOf(e)] \in Item
      /\ written.event = k /\ spilled.event = k
      /\ spilled.file \in FilesOf("telemetry")
      /\ FileOf(e) \in FilesOf("triage") /\ FileOf(e) \notin FilesOf("telemetry")
  BY <1>2, PristineIsUnopposed DEF Item, File, FilesOf
<1>5. main'.item # Nothing /\ main'.item.event = k /\ main'.item.file = FileOf(e)
      /\ main.item = Nothing
  BY <1>1, <1>4, TelemetryAssumption DEF Idle
<1>6. TypeOK /\ "telemetry" \in Queue
  BY DEF IInv, Queue
<1> SUFFICES ASSUME NEW q \in Queue, NEW n \in 1..MaxEvents
             PROVE  IF n \in DOMAIN events' THEN Somewhere(q, n)' ELSE Nowhere(q, n)'
  BY DEF PlacesInv
<1> HIDE DEF written, spilled
<1>7. /\ Held(q, n) \subseteq {"thread"}
      /\ Held(q, n)' = Held(q, n) \cup
           {h \in {"main"} : n = k /\ FileOf(e) \in FilesOf(q)}
  BY <1>1, <1>5 DEF Held
<1>8. CASE n # k
  <2>1. /\ Queued(q, n)' = Queued(q, n) /\ Written(q, n)' = Written(q, n)
        /\ Missing(q, n)' = Missing(q, n)
    BY <1>1, <1>4, <1>6, <1>8, PutPlaces
  <2>2. Held(q, n)' = Held(q, n)
    BY <1>7, <1>8
  <2> QED
    BY <1>3, <1>8, <2>1, <2>2 DEF PlacesInv, Somewhere, Nowhere
<1>9. CASE n = k
  <2>1. Nowhere(q, n)
    BY <1>3, <1>9 DEF PlacesInv
  <2>2. CASE q = "telemetry"
    <3>1. Held(q, n)' = {}
      BY <1>4, <1>7, <2>1, <2>2 DEF Nowhere
    <3>2. Landed(q, n)'
      BY <1>1, <1>4, <1>6, <1>9, <2>1, <2>2, PutPlaces DEF Nowhere
    <3> QED
      BY <1>3, <1>9, <3>1, <3>2 DEF Somewhere, Landed
  <2>3. CASE q # "telemetry"
    <3>1. q = "triage"
      BY <2>3 DEF Queue
    <3>2. Held(q, n)' = {"main"}
      BY <1>4, <1>7, <1>9, <2>1, <3>1 DEF Nowhere
    <3>3. /\ Queued(q, n)' = {} /\ Written(q, n)' = {} /\ Missing(q, n)' = {}
      BY <1>1, <1>4, <1>6, <2>1, <2>3, PutPlaces DEF Nowhere
    <3> QED
      BY <1>3, <1>9, <3>2, <3>3 DEF Somewhere
  <2> QED
    BY <2>2, <2>3
<1> QED
  BY <1>8, <1>9

\* In all other steps the events are the same, and it is enough that each is moved or not.
LEMMA MovesEnough ==
    ASSUME PlacesInv, events' = events, \A q \in Queue, n \in 1..MaxEvents : Moves(q, n)
    PROVE  PlacesInv'
  BY DEF PlacesInv, Moves

LEMMA NothingMoves ==
    ASSUME UNCHANGED <<queue, hand, file, lost>>, main'.item = main.item, NEW q, NEW n
    PROVE  Moves(q, n)
<1>1. /\ Queued(q, n)' = Queued(q, n) /\ Held(q, n)' = Held(q, n)
      /\ Written(q, n)' = Written(q, n) /\ Missing(q, n)' = Missing(q, n)
  BY DEF Queued, Held, Written, Missing
<1> QED
  BY <1>1 DEF Moves, Somewhere, Nowhere

LEMMA EnqueueMoves ==
    ASSUME IInv, WaysInv, Enqueue, NEW q \in Queue, NEW n \in 1..MaxEvents
    PROVE  Moves(q, n)
<1>0. PICK item : item = main.item
  OBVIOUS
<1>1. /\ main.at = "filing" /\ main' = Idle
      /\ Put("triage", item, item) /\ hand' = hand
  BY <1>0 DEF Enqueue
<1>2. item \in Item /\ item.file \in FilesOf("triage") /\ item # Nothing
  <2>1. item \in Item /\ item.file = FileOf(events[item.event]) /\ item.event \in DOMAIN events
    BY <1>0, <1>1 DEF IInv, MainInv
  <2>2. events[item.event] \in Event
    BY <2>1 DEF IInv, TypeOK
  <2> QED
    BY <2>1, <2>2, PristineIsUnopposed, TelemetryAssumption DEF FilesOf
<1>3. /\ Held(q, n)' = Held(q, n) \ {"main"}
      /\ "main" \in Held(q, n) <=> item.event = n /\ q = "triage"
  <2>1. main'.item = Nothing
    BY <1>1 DEF Idle
  <2>2. item.file \in FilesOf(q) <=> q = "triage"
    BY <1>2, FilesApart DEF Queue
  <2> QED
    BY <1>0, <1>1, <1>2, <2>1, <2>2 DEF Held
<1>4. TypeOK /\ "triage" \in Queue
  BY DEF IInv, Queue
<1>5. CASE q # "triage" \/ item.event # n
  <2>1. /\ Queued(q, n)' = Queued(q, n) /\ Written(q, n)' = Written(q, n)
        /\ Missing(q, n)' = Missing(q, n)
    BY <1>1, <1>2, <1>4, <1>5, PutPlaces
  <2>2. Held(q, n)' = Held(q, n)
    BY <1>3, <1>5
  <2> QED
    BY <2>1, <2>2 DEF Moves, Somewhere, Nowhere
<1>6. CASE q = "triage" /\ item.event = n
  <2>1. "main" \in Held(q, n)
    BY <1>3, <1>6
  <2>2. ASSUME Somewhere(q, n) PROVE Somewhere(q, n)'
    <3>1. /\ Held(q, n) = {"main"}
          /\ Queued(q, n) = {} /\ Written(q, n) = {} /\ Missing(q, n) = {}
      BY <2>1, <2>2 DEF Somewhere
    <3>2. Held(q, n)' = {}
      BY <1>3, <3>1
    <3>3. Landed(q, n)'
      BY <1>1, <1>2, <1>4, <1>6, <3>1, PutPlaces
    <3> QED
      BY <3>2, <3>3 DEF Somewhere, Landed
  <2> QED
    BY <2>1, <2>2 DEF Moves, Nowhere
<1> QED
  BY <1>5, <1>6

\* The head of queue q gets into the hand of a thread.
LEMMA TakingMoves ==
    ASSUME IInv, WaysInv, NEW q \in Queue, queue[q] # <<>>,
           queue' = [queue EXCEPT ![q] = Tail(@)], UNCHANGED <<file, lost>>,
           NEW who \in {"thread", "main"},
           \A r \in Queue, n \in 1..MaxEvents :
              /\ Held(r, n)' = Held(r, n) \cup
                   {h \in {who} : r = q /\ Head(queue[q]).event = n}
              /\ r = q => who \notin Held(r, n),
           NEW r \in Queue, NEW n \in 1..MaxEvents
    PROVE  Moves(r, n)
<1>1. Written(r, n)' = Written(r, n) /\ Missing(r, n)' = Missing(r, n)
  BY DEF Written, Missing
<1>2. TypeOK
  BY DEF IInv
<1>3. CASE r # q \/ Head(queue[q]).event # n
  <2>1. Held(r, n)' = Held(r, n)
    <3>1. {h \in {who} : r = q /\ Head(queue[q]).event = n} = {}
      BY <1>3
    <3> QED
      BY <3>1
  <2>2. /\ Queued(r, n) = {} => Queued(r, n)' = {}
        /\ (\E x : Queued(r, n) = {x}) => (\E x : Queued(r, n)' = {x})
    BY <1>2, <1>3, TailPlaces
  <2> QED
    BY <1>1, <2>1, <2>2 DEF Moves, Somewhere, Nowhere
<1>4. CASE r = q /\ Head(queue[q]).event = n
  <2>1. /\ Queued(r, n) # {}
        /\ (\E x : Queued(r, n) = {x}) => Queued(r, n)' = {}
    BY <1>2, <1>4, TailPlaces
  <2>2. Held(r, n)' = Held(r, n) \cup {who}
    BY <1>4
  <2>3. ASSUME Somewhere(r, n) PROVE Somewhere(r, n)'
    <3>1. /\ Queued(r, n)' = {} /\ Held(r, n) = {} /\ Written(r, n) = {} /\ Missing(r, n) = {}
      BY <2>1, <2>3 DEF Somewhere
    <3>2. Held(r, n)' = {who}
      BY <2>2, <3>1
    <3> QED
      BY <1>1, <3>1, <3>2 DEF Somewhere
  <2> QED
    BY <2>1, <2>3 DEF Moves, Nowhere
<1> QED
  BY <1>3, <1>4

\* What is in the hand of a thread is written or lost.
LEMMA WritingMoves ==
    ASSUME IInv, WaysInv, NEW q \in Queue, NEW item \in Item, Persist(item),
           item.file \in FilesOf(q), queue' = queue,
           NEW who \in {"thread", "main"},
           \A r \in Queue, n \in 1..MaxEvents :
              IF r = q /\ item.event = n
                THEN who \in Held(r, n) /\ Held(r, n)' = Held(r, n) \ {who}
                ELSE Held(r, n)' = Held(r, n),
           NEW r \in Queue, NEW n \in 1..MaxEvents
    PROVE  Moves(r, n)
<1>1. Queued(r, n)' = Queued(r, n)
  BY DEF Queued
<1>2. TypeOK
  BY DEF IInv
<1>3. item.file \in FilesOf(r) <=> r = q
  BY FilesApart
<1>4. CASE r # q \/ item.event # n
  <2>1. Held(r, n)' = Held(r, n)
    BY <1>4
  <2>2. Written(r, n)' = Written(r, n) /\ Missing(r, n)' = Missing(r, n)
    BY <1>2, <1>3, <1>4, PersistPlaces
  <2> QED
    BY <1>1, <2>1, <2>2 DEF Moves, Somewhere, Nowhere
<1>5. CASE r = q /\ item.event = n
  <2>1. who \in Held(r, n) /\ Held(r, n)' = Held(r, n) \ {who}
    BY <1>5
  <2>2. ASSUME Somewhere(r, n) PROVE Somewhere(r, n)'
    <3>1. /\ Held(r, n) = {who}
          /\ Queued(r, n) = {} /\ Written(r, n) = {} /\ Missing(r, n) = {}
      BY <2>1, <2>2 DEF Somewhere
    <3>2. Held(r, n)' = {}
      BY <2>1, <3>1
    <3>3. \/ (\E x : Written(r, n)' = {x}) /\ Missing(r, n)' = {}
          \/ (\E x : Missing(r, n)' = {x}) /\ Written(r, n)' = {}
      BY <1>2, <1>3, <1>5, <3>1, PersistPlaces
    <3> QED
      BY <1>1, <3>1, <3>2, <3>3 DEF Somewhere
  <2> QED
    BY <2>1, <2>2 DEF Moves, Nowhere
<1> QED
  BY <1>4, <1>5

LEMMA TakeMoves ==
    ASSUME IInv, WaysInv, NEW q \in Queue, Take(q), NEW r \in Queue, NEW n \in 1..MaxEvents
    PROVE  Moves(r, n)
<1>1. /\ hand[q] = Nothing /\ queue[q] # <<>>
      /\ hand' = [hand EXCEPT ![q] = Head(queue[q])]
      /\ queue' = [queue EXCEPT ![q] = Tail(@)]
      /\ UNCHANGED <<file, main, lost>>
  BY DEF Take
<1>2. Head(queue[q]) # Nothing
  BY <1>1, TakenIsReady, TelemetryAssumption
<1>3. /\ hand'[q] = Head(queue[q])
      /\ \A s \in Queue \ {q} : hand'[s] = hand[s]
  BY <1>1 DEF IInv, TypeOK
<1>4. ASSUME NEW s \in Queue, NEW m \in 1..MaxEvents
      PROVE  /\ Held(s, m)' = Held(s, m) \cup
                   {h \in {"thread"} : s = q /\ Head(queue[q]).event = m}
             /\ s = q => "thread" \notin Held(s, m)
  <2>1. CASE s = q
    BY <1>1, <1>2, <1>3, <2>1 DEF Held
  <2>2. CASE s # q
    BY <1>1, <1>3, <2>2 DEF Held
  <2> QED
    BY <2>1, <2>2
<1> QED
  BY <1>1, <1>4, TakingMoves

LEMMA WriteMoves ==
    ASSUME IInv, WaysInv, NEW q \in Queue, Write(q), NEW r \in Queue, NEW n \in 1..MaxEvents
    PROVE  Moves(r, n)
<1>1. /\ hand[q] # Nothing /\ Persist(hand[q])
      /\ hand' = [hand EXCEPT ![q] = Nothing]
      /\ UNCHANGED <<queue, main>>
  BY DEF Write
<1>2. hand[q] \in Item /\ hand[q].file \in FilesOf(q)
  BY <1>1 DEF IInv, TypeOK, WaysInv
<1>3. hand'[q] = Nothing /\ \A s \in Queue \ {q} : hand'[s] = hand[s]
  BY <1>1 DEF IInv, TypeOK
<1>4. ASSUME NEW s \in Queue, NEW m \in 1..MaxEvents
      PROVE  IF s = q /\ hand[q].event = m
               THEN "thread" \in Held(s, m) /\ Held(s, m)' = Held(s, m) \ {"thread"}
               ELSE Held(s, m)' = Held(s, m)
  <2>1. CASE s = q
    BY <1>1, <1>3, <2>1 DEF Held
  <2>2. CASE s # q
    BY <1>1, <1>3, <2>2 DEF Held
  <2> QED
    BY <2>1, <2>2
<1> QED
  BY <1>1, <1>2, <1>4, WritingMoves

LEMMA DrainMoves ==
    ASSUME IInv, WaysInv, Drain, NEW r \in Queue, NEW n \in 1..MaxEvents
    PROVE  Moves(r, n)
<1>0. PICK q \in Queue : q = main.queue
  BY DEF IInv, TypeOK
<1>1. hand' = hand
      /\ main \in [at : {"idle", "marking", "completing", "filing", "flushing"},
                   queue : Queue, item : Item \cup {Nothing}]
  BY DEF Drain, IInv, TypeOK
<1>2. CASE /\ main.item # Nothing
           /\ Persist(main.item)
           /\ main' = [main EXCEPT !.item = Nothing]
           /\ UNCHANGED queue
  <2>0. PICK item : item = main.item
    OBVIOUS
  <2>1. item \in Item /\ item.file \in FilesOf(q) /\ item # Nothing /\ main'.item = Nothing
    BY <1>0, <1>1, <1>2, <2>0 DEF WaysInv
  <2>2. ASSUME NEW s \in Queue, NEW m \in 1..MaxEvents
        PROVE  IF s = q /\ item.event = m
                 THEN "main" \in Held(s, m) /\ Held(s, m)' = Held(s, m) \ {"main"}
                 ELSE Held(s, m)' = Held(s, m)
    <3>1. item.file \in FilesOf(s) <=> s = q
      BY <2>1, FilesApart
    <3> QED
      BY <1>1, <2>0, <2>1, <3>1 DEF Held
  <2> QED
    BY <1>2, <2>0, <2>1, <2>2, WritingMoves
<1>3. CASE /\ main.item = Nothing /\ main' = Idle
           /\ UNCHANGED <<queue, file, lost>>
  BY <1>1, <1>3, NothingMoves DEF Idle
<1>4. CASE /\ main.item = Nothing /\ queue[main.queue] # <<>>
           /\ main' = [main EXCEPT !.item = Head(queue[main.queue])]
           /\ queue' = [queue EXCEPT ![main.queue] = Tail(@)]
           /\ UNCHANGED <<file, lost>>
  <2>0. PICK item : item = Head(queue[q])
    OBVIOUS
  <2>1. item \in Item /\ main'.item = item /\ item # Nothing /\ item.file \in FilesOf(q)
    <3>1. item \in Item
      BY <1>0, <1>4, <2>0, TakenIsReady
    <3>2. queue[q] \in Seq(Item) /\ queue[q] # <<>>
      BY <1>0, <1>4 DEF IInv, TypeOK
    <3>3. item = queue[q][1] /\ 1 \in DOMAIN queue[q]
      BY <2>0, <3>2
    <3> QED
      BY <1>0, <1>1, <1>4, <2>0, <3>1, <3>3, TelemetryAssumption DEF WaysInv
  <2>2. ASSUME NEW s \in Queue, NEW m \in 1..MaxEvents
        PROVE  /\ Held(s, m)' = Held(s, m) \cup
                     {h \in {"main"} : s = q /\ Head(queue[q]).event = m}
               /\ s = q => "main" \notin Held(s, m)
    <3>1. item.file \in FilesOf(s) <=> s = q
      BY <2>1, FilesApart
    <3> QED
      BY <1>1, <1>4, <2>0, <2>1, <3>1 DEF Held
  <2> QED
    BY <1>0, <1>4, <2>2, TakingMoves
<1> QED
  BY <1>2, <1>3, <1>4 DEF Drain

\* All that is under way is lost with the process.
LEMMA RestartMoves ==
    ASSUME IInv, WaysInv, Restart, NEW q \in Queue, NEW n \in 1..MaxEvents
    PROVE  Moves(q, n)
<1>1. /\ lost' = lost \cup (UNION {{queue[r][i] : i \in DOMAIN queue[r]} : r \in Queue})
                      \cup (({hand[r] : r \in Queue} \cup {main.item}) \ {Nothing})
      /\ queue' = [r \in Queue |-> <<>>] /\ hand' = [r \in Queue |-> Nothing]
      /\ main' = Idle /\ file' = file
  BY DEF Restart
<1>2. /\ Queued(q, n)' = {} /\ Held(q, n)' = {} /\ Written(q, n)' = Written(q, n)
  BY <1>1 DEF Queued, Held, Written, Idle
<1>3. ASSUME NEW item, item.event = n, item.file \in FilesOf(q)
      PROVE  item \in lost' <=>
               \/ item \in lost
               \/ \E i \in Queued(q, n) : item = queue[q][i]
               \/ "thread" \in Held(q, n) /\ item = hand[q]
               \/ "main" \in Held(q, n) /\ item = main.item
  <2>1. ASSUME NEW r \in Queue, NEW i \in DOMAIN queue[r], item = queue[r][i]
        PROVE  \E j \in Queued(q, n) : item = queue[q][j]
    <3>1. r = q
      BY <1>3, <2>1, FilesApart DEF WaysInv
    <3> QED
      BY <1>3, <2>1, <3>1 DEF Queued
  <2>2. ASSUME NEW r \in Queue, hand[r] # Nothing, item = hand[r]
        PROVE  "thread" \in Held(q, n) /\ item = hand[q]
    <3>1. r = q
      BY <1>3, <2>2, FilesApart DEF WaysInv
    <3> QED
      BY <1>3, <2>2, <3>1 DEF Held
  <2>3. ASSUME main.item # Nothing, item = main.item PROVE "main" \in Held(q, n)
    BY <1>3, <2>3 DEF Held
  <2>4. ASSUME NEW i \in Queued(q, n), item = queue[q][i] PROVE item \in lost'
    BY <1>1, <2>4 DEF Queued
  <2>5. ASSUME "thread" \in Held(q, n), item = hand[q] PROVE item \in lost'
    BY <1>1, <2>5, HeldIs
  <2>6. ASSUME "main" \in Held(q, n), item = main.item PROVE item \in lost'
    BY <1>1, <2>6, HeldIs
  <2>7. ASSUME item \in lost' PROVE \/ item \in lost
                                    \/ \E r \in Queue : \E i \in DOMAIN queue[r] : item = queue[r][i]
                                    \/ \E r \in Queue : hand[r] # Nothing /\ item = hand[r]
                                    \/ main.item # Nothing /\ item = main.item
    BY <1>1, <2>7
  <2>8. item \in lost => item \in lost'
    BY <1>1
  <2> QED
    BY <2>1, <2>2, <2>3, <2>4, <2>5, <2>6, <2>7, <2>8
<1>4. /\ \A i \in Queued(q, n) : queue[q][i].event = n /\ queue[q][i].file \in FilesOf(q)
      /\ "thread" \in Held(q, n) => hand[q].event = n /\ hand[q].file \in FilesOf(q)
      /\ "main" \in Held(q, n) => main.item.event = n /\ main.item.file \in FilesOf(q)
  BY HeldIs DEF WaysInv, Queued
<1>5. \A item : item \in Missing(q, n)' <=>
               \/ item \in Missing(q, n)
               \/ \E i \in Queued(q, n) : item = queue[q][i]
               \/ "thread" \in Held(q, n) /\ item = hand[q]
               \/ "main" \in Held(q, n) /\ item = main.item
  <2>1. \A item : /\ item \in Missing(q, n)' <=>
                       item \in lost' /\ item.event = n /\ item.file \in FilesOf(q)
                  /\ item \in Missing(q, n) <=>
                       item \in lost /\ item.event = n /\ item.file \in FilesOf(q)
    BY DEF Missing
  <2> QED
    BY <1>3, <1>4, <2>1
<1>6. ASSUME Nowhere(q, n) PROVE Nowhere(q, n)'
  <2>1. Missing(q, n)' = {}
    BY <1>5, <1>6 DEF Nowhere
  <2> QED
    BY <1>2, <1>6, <2>1 DEF Nowhere
<1>7. ASSUME Somewhere(q, n) PROVE Somewhere(q, n)'
  <2>1. CASE /\ \E x : Queued(q, n) = {x}
             /\ Held(q, n) = {} /\ Written(q, n) = {} /\ Missing(q, n) = {}
    <3>1. PICK x : Queued(q, n) = {x}
      BY <2>1
    <3>2. Missing(q, n)' = {queue[q][x]}
      BY <1>5, <2>1, <3>1
    <3> QED
      BY <1>2, <2>1, <3>2 DEF Somewhere
  <2>2. CASE /\ \E x : Held(q, n) = {x}
             /\ Queued(q, n) = {} /\ Written(q, n) = {} /\ Missing(q, n) = {}
    <3>1. Held(q, n) = {"thread"} \/ Held(q, n) = {"main"}
      BY <2>2, HeldIs
    <3>2. Missing(q, n)' = {hand[q]} \/ Missing(q, n)' = {main.item}
      BY <1>5, <2>2, <3>1
    <3> QED
      BY <1>2, <2>2, <3>2 DEF Somewhere
  <2>3. CASE Queued(q, n) = {} /\ Held(q, n) = {}
    <3>1. Missing(q, n)' = Missing(q, n)
      BY <1>5, <2>3
    <3> QED
      BY <1>2, <1>7, <2>3, <3>1 DEF Somewhere
  <2> QED
    BY <1>7, <2>1, <2>2, <2>3 DEF Somewhere
<1> QED
  BY <1>6, <1>7 DEF Moves

LEMMA NextPlaces == IInv /\ WaysInv /\ PlacesInv /\ [Next]_vars => PlacesInv'
<1> SUFFICES ASSUME IInv, WaysInv, PlacesInv, [Next]_vars PROVE PlacesInv'
  OBVIOUS
<1>1. CASE \E e \in Event : Emit(e)
  BY <1>1, EmitPlaces
<1>2. ASSUME NEW from, NEW m, NEW to, MarkAs(from, m, to) PROVE PlacesInv'
  <2>1. main'.item = main.item /\ UNCHANGED <<events, queue, hand, file, lost>>
    BY <1>2 DEF MarkAs, IInv, TypeOK
  <2> QED
    BY <2>1, NothingMoves, MovesEnough
<1>3. CASE Enqueue
  <2>1. events' = events
    BY <1>3 DEF Enqueue
  <2> QED
    BY <1>3, <2>1, EnqueueMoves, MovesEnough
<1>4. CASE Drain
  <2>1. events' = events
    BY <1>4 DEF Drain
  <2> QED
    BY <1>4, <2>1, DrainMoves, MovesEnough
<1>5. ASSUME NEW q \in Queue, Flush(q) PROVE PlacesInv'
  <2>1. main'.item = main.item /\ UNCHANGED <<events, queue, hand, file, lost>>
    BY <1>5 DEF Flush, IInv, TypeOK
  <2> QED
    BY <2>1, NothingMoves, MovesEnough
<1>6. ASSUME NEW q \in Queue, Take(q) PROVE PlacesInv'
  <2>1. events' = events
    BY <1>6 DEF Take
  <2> QED
    BY <1>6, <2>1, TakeMoves, MovesEnough
<1>7. ASSUME NEW q \in Queue, Write(q) PROVE PlacesInv'
  <2>1. events' = events
    BY <1>7 DEF Write
  <2> QED
    BY <1>7, <2>1, WriteMoves, MovesEnough
<1>8. CASE Restart
  <2>1. events' = events
    BY <1>8 DEF Restart
  <2> QED
    BY <1>8, <2>1, RestartMoves, MovesEnough
<1>9. CASE UNCHANGED vars
  <2>1. main'.item = main.item /\ UNCHANGED <<events, queue, hand, file, lost>>
    BY <1>9 DEF vars
  <2> QED
    BY <2>1, NothingMoves, MovesEnough
<1> QED
  BY <1>1, <1>2, <1>3, <1>4, <1>5, <1>6, <1>7, <1>8, <1>9 DEF Next, Triage

\* What is put on a way is for a file of it.
LEMMA PutWays ==
    ASSUME IInv, WaysInv, NEW q \in Queue, NEW item, NEW spilled, Put(q, item, spilled),
           item.file \in FilesOf(q), NEW r \in Queue, NEW i \in DOMAIN queue'[r]
    PROVE  queue'[r][i].file \in FilesOf(r)
<1>1. queue[q] \in Seq(Item)
  BY DEF IInv, TypeOK
<1>2. CASE queue' = [queue EXCEPT ![q] = Append(@, item)]
  <2>1. CASE r # q
    BY <1>2, <2>1 DEF IInv, TypeOK, WaysInv
  <2>2. CASE r = q
    <3>1. queue'[q] = Append(queue[q], item)
      BY <1>2 DEF IInv, TypeOK
    <3>2. CASE i \in DOMAIN queue[q]
      BY <1>1, <2>2, <3>1, <3>2 DEF WaysInv
    <3>3. CASE i = Len(queue[q]) + 1
      BY <1>1, <2>2, <3>1, <3>3
    <3> QED
      BY <1>1, <2>2, <3>1, <3>2, <3>3
  <2> QED
    BY <2>1, <2>2
<1>3. CASE queue' = queue
  BY <1>3 DEF WaysInv
<1> QED
  BY <1>2, <1>3 DEF Put

LEMMA TailWays ==
    ASSUME IInv, WaysInv, NEW q \in Queue, queue[q] # <<>>,
           queue' = [queue EXCEPT ![q] = Tail(@)]
    PROVE  /\ Head(queue[q]).file \in FilesOf(q)
           /\ \A r \in Queue : \A i \in DOMAIN queue'[r] : queue'[r][i].file \in FilesOf(r)
<1>1. queue[q] \in Seq(Item) /\ Len(queue[q]) > 0
  BY DEF IInv, TypeOK
<1>2. /\ Head(queue[q]) = queue[q][1] /\ 1 \in DOMAIN queue[q]
      /\ \A i \in DOMAIN Tail(queue[q]) :
            i + 1 \in DOMAIN queue[q] /\ Tail(queue[q])[i] = queue[q][i + 1]
  BY <1>1
<1>3. ASSUME NEW r \in Queue, NEW i \in DOMAIN queue'[r] PROVE queue'[r][i].file \in FilesOf(r)
  <2>1. CASE r # q
    BY <2>1 DEF IInv, TypeOK, WaysInv
  <2>2. CASE r = q
    <3>1. queue'[q] = Tail(queue[q])
      BY DEF IInv, TypeOK
    <3> QED
      BY <1>2, <1>3, <2>2, <3>1 DEF WaysInv
  <2> QED
    BY <2>1, <2>2
<1> QED
  BY <1>2, <1>3 DEF WaysInv

LEMMA NextWays == IInv /\ WaysInv /\ [Next]_vars => WaysInv'
<1> SUFFICES ASSUME IInv, WaysInv, [Next]_vars PROVE WaysInv'
  OBVIOUS
<1> USE DEF WaysInv
<1>1. ASSUME NEW e \in Event, Emit(e) PROVE WaysInv'
  <2>0. PICK k : k = Len(events) + 1
    OBVIOUS
  <2>1. /\ Put("telemetry", [event |-> k, file |-> "telemetry"], [event |-> k, file |-> "fallback"])
        /\ main' = [at |-> "marking", queue |-> "triage",
                    item |-> [event |-> k, file |-> FileOf(e)]]
        /\ hand' = hand
    BY <1>1, <2>0 DEF Emit
  <2>2. main'.item.file = FileOf(e) /\ main'.queue = "triage" /\ FileOf(e) \in FilesOf("triage")
    BY <2>1, PristineIsUnopposed DEF FilesOf
  <2>3. \A r \in Queue : \A i \in DOMAIN queue'[r] : queue'[r][i].file \in FilesOf(r)
    <3>1. [event |-> k, file |-> "telemetry"].file \in FilesOf("telemetry")
      BY DEF FilesOf
    <3> QED
      BY <2>1, <3>1, PutWays DEF Queue
  <2> QED
    BY <2>1, <2>2, <2>3
<1>2. ASSUME NEW from, NEW m, NEW to, MarkAs(from, m, to) PROVE WaysInv'
  <2>1. /\ main'.item = main.item /\ main'.queue = main.queue
        /\ UNCHANGED <<queue, hand>>
    BY <1>2 DEF MarkAs, IInv, TypeOK
  <2> QED
    BY <2>1
<1>3. CASE Enqueue
  <2>0. PICK item : item = main.item
    OBVIOUS
  <2>1. /\ main.at = "filing" /\ main' = Idle /\ Put("triage", item, item) /\ hand' = hand
    BY <1>3, <2>0 DEF Enqueue
  <2>2. item.file \in FilesOf("triage")
    <3>1. item.file = FileOf(events[item.event]) /\ item.event \in DOMAIN events
      BY <2>0, <2>1 DEF IInv, MainInv
    <3>2. events[item.event] \in Event
      BY <3>1 DEF IInv, TypeOK
    <3> QED
      BY <3>1, <3>2, PristineIsUnopposed DEF FilesOf
  <2>3. \A r \in Queue : \A i \in DOMAIN queue'[r] : queue'[r][i].file \in FilesOf(r)
    BY <2>1, <2>2, PutWays DEF Queue
  <2> QED
    BY <2>1, <2>3 DEF Idle
<1>4. CASE Drain
  <2>1. main \in [at : {"idle", "marking", "completing", "filing", "flushing"},
                  queue : Queue, item : Item \cup {Nothing}] /\ hand' = hand
    BY <1>4 DEF Drain, IInv, TypeOK
  <2>2. CASE main'.item = Nothing /\ UNCHANGED queue
    BY <2>1, <2>2
  <2>3. CASE /\ queue[main.queue] # <<>>
             /\ main' = [main EXCEPT !.item = Head(queue[main.queue])]
             /\ queue' = [queue EXCEPT ![main.queue] = Tail(@)]
    <3>1. main'.item = Head(queue[main.queue]) /\ main'.queue = main.queue
          /\ main.queue \in Queue
      BY <2>1, <2>3
    <3> QED
      BY <2>1, <2>3, <3>1, TailWays
  <2>4. ASSUME main' = Idle \/ main' = [main EXCEPT !.item = Nothing] PROVE main'.item = Nothing
    BY <2>1, <2>4 DEF Idle
  <2> QED
    BY <1>4, <2>2, <2>3, <2>4 DEF Drain
<1>5. ASSUME NEW q \in Queue, Flush(q) PROVE WaysInv'
  <2>1. main'.item = Nothing /\ UNCHANGED <<queue, hand>>
    BY <1>5 DEF Flush, Idle
  <2> QED
    BY <2>1
<1>6. ASSUME NEW q \in Queue, Take(q) PROVE WaysInv'
  <2>1. /\ queue[q] # <<>> /\ hand' = [hand EXCEPT ![q] = Head(queue[q])]
        /\ queue' = [queue EXCEPT ![q] = Tail(@)] /\ main' = main
    BY <1>6 DEF Take
  <2>2. hand'[q] = Head(queue[q]) /\ \A r \in Queue \ {q} : hand'[r] = hand[r]
    BY <2>1 DEF IInv, TypeOK
  <2> QED
    BY <2>1, <2>2, TailWays
<1>7. ASSUME NEW q \in Queue, Write(q) PROVE WaysInv'
  <2>1. hand' = [hand EXCEPT ![q] = Nothing] /\ UNCHANGED <<queue, main>>
    BY <1>7 DEF Write
  <2>2. \A r \in Queue : hand'[r] = Nothing \/ hand'[r] = hand[r]
    BY <2>1 DEF IInv, TypeOK
  <2> QED
    BY <2>1, <2>2
<1>8. CASE Restart
  BY <1>8 DEF Restart, Idle
<1>9. CASE UNCHANGED vars
  BY <1>9 DEF vars
<1> QED
  BY <1>1, <1>2, <1>3, <1>4, <1>5, <1>6, <1>7, <1>8, <1>9 DEF Next, Triage

LEMMA InitPlaces == Init => WaysInv /\ PlacesInv
  BY DEF Init, Idle, WaysInv, PlacesInv, Nowhere, Queued, Held, Written, Missing, FilesOf, File,
         Queue

\* Every event is in exactly one place of each of its ways, whichever threads write and
\* drain at the same time and whether a queue was full (event_pipeline.py:16).
THEOREM EveryEventAccountedFor == Spec => []AccountedFor
<1>1. IInv /\ PlacesInv => AccountedFor
  <2> SUFFICES ASSUME IInv, PlacesInv, NEW q \in Queue, NEW n \in DOMAIN events
               PROVE  Cardinality(Queued(q, n)) + Cardinality(Held(q, n))
                        + Cardinality(Written(q, n)) + Cardinality(Missing(q, n)) = 1
    BY DEF AccountedFor
  <2>1. n \in 1..MaxEvents
    <3>1. events \in Seq(Event) /\ Len(events) <= MaxEvents /\ MaxEvents \in Nat
      BY TelemetryAssumption DEF IInv, TypeOK
    <3> QED
      BY <3>1
  <2>2. Somewhere(q, n)
    BY <2>1 DEF PlacesInv
  <2>3. Cardinality({}) = 0 /\ \A x : Cardinality({x}) = 1
    BY FS_EmptySet, FS_Singleton
  <2>4. CASE /\ \E x : Queued(q, n) = {x}
             /\ Held(q, n) = {} /\ Written(q, n) = {} /\ Missing(q, n) = {}
    <3>1. Cardinality(Queued(q, n)) = 1
      BY <2>3, <2>4
    <3>2. /\ Cardinality(Held(q, n)) = 0
          /\ Cardinality(Written(q, n)) = 0
          /\ Cardinality(Missing(q, n)) = 0
      BY <2>3, <2>4
    <3> QED
      BY <3>1, <3>2
  <2>5. CASE /\ \E x : Held(q, n) = {x}
             /\ Queued(q, n) = {} /\ Written(q, n) = {} /\ Missing(q, n) = {}
    <3>1. Cardinality(Held(q, n)) = 1
      BY <2>3, <2>5
    <3>2. /\ Cardinality(Queued(q, n)) = 0
          /\ Cardinality(Written(q, n)) = 0
          /\ Cardinality(Missing(q, n)) = 0
      BY <2>3, <2>5
    <3> QED
      BY <3>1, <3>2
  <2>6. CASE /\ \E x : Written(q, n) = {x}
             /\ Queued(q, n) = {} /\ Held(q, n) = {} /\ Missing(q, n) = {}
    <3>1. Cardinality(Written(q, n)) = 1
      BY <2>3, <2>6
    <3>2. /\ Cardinality(Queued(q, n)) = 0
          /\ Cardinality(Held(q, n)) = 0
          /\ Cardinality(Missing(q, n)) = 0
      BY <2>3, <2>6
    <3> QED
      BY <3>1, <3>2
  <2>7. CASE /\ \E x : Missing(q, n) = {x}
             /\ Queued(q, n) = {} /\ Held(q, n) = {} /\ Written(q, n) = {}
    <3>1. Cardinality(Missing(q, n)) = 1
      BY <2>3, <2>7
    <3>2. /\ Cardinality(Queued(q, n)) = 0
          /\ Cardinality(Held(q, n)) = 0
          /\ Cardinality(Written(q, n)) = 0
      BY <2>3, <2>7
    <3> QED
      BY <3>1, <3>2
  <2> QED
    BY <2>2, <2>4, <2>5, <2>6, <2>7 DEF Somewhere
<1> QED
  BY <1>1, InitPlaces, NextPlaces, NextWays, InvariantHolds, PTL DEF Spec
=============================================================================
