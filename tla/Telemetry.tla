------------------------------ MODULE Telemetry ------------------------------
(***************************************************************************)
(* What becomes of an audit event after emit_audit_event has made it: the  *)
(* pipeline of gateway/telemetry/event_pipeline.py, which is to lose none, *)
(* and the triage of gateway/telemetry/anti_poisoning.py, which decides    *)
(* what the baselines and the models are trained on.  Each has a bounded   *)
(* queue and a thread that empties it into files; both queues hold the     *)
(* same dict, which the triage goes on changing while the pipeline's       *)
(* thread may be writing it.                                               *)
(***************************************************************************)
EXTENDS RiskEngine, Sequences, FiniteSets

CONSTANTS
    Event,      \* audit events, as far as they are told apart
    MaxEvents,  \* events in a behaviour
    Capacity,   \* max_queue_size
    Faults,     \* which faults may happen
    Nothing     \* no item

Queue == {"telemetry", "triage"}
File == {"telemetry", "fallback", "baseline", "quarantine"}
Item == [event : 1..MaxEvents, file : File]

\* The decision of an event is that of its score, or the challenge of a token that does
\* not verify.
ASSUME TelemetryAssumption ==
    /\ Event \subseteq [signals : Signals, decision : Decision]
    /\ \A e \in Event :
          \/ e.decision = DecisionOf(e.signals)
          \/ e.decision = "CHALLENGE" /\ e.signals.auth > 0
    /\ MaxEvents \in Nat
    /\ Capacity \in Nat \ {0}
    /\ Faults \subseteq {"disk_full", "restart"}
    /\ Nothing \notin Item

VARIABLES
    events,  \* the events in the order they were emitted
    mark,    \* mark[n]: how far the triage has come with the dict of event n
    queue,   \* event_queue of the pipeline, queue of the triage
    hand,    \* hand[q]: what the thread of queue q has taken and not written
    file,    \* the lines of the four files
    main,    \* where the event loop's thread stands
    lost     \* history: the items that no file will have

vars == <<events, mark, queue, hand, file, main, lost>>

Mark == {"bare", "quarantined", "complete"}
Line == [event : 1..MaxEvents, mark : Mark]
Idle == [at |-> "idle", queue |-> "triage", item |-> Nothing]

TypeOK ==
    /\ events \in Seq(Event) /\ Len(events) <= MaxEvents
    /\ mark \in [1..MaxEvents -> Mark]
    /\ queue \in [Queue -> Seq(Item)]
    /\ \A q \in Queue : Len(queue[q]) <= Capacity
    /\ hand \in [Queue -> Item \cup {Nothing}]
    /\ file \in [File -> Seq(Line)]
    /\ main \in [at : {"idle", "marking", "completing", "filing", "flushing"},
                 queue : Queue, item : Item \cup {Nothing}]
    /\ lost \in SUBSET Item

Init ==
    /\ events = <<>>
    /\ mark = [n \in 1..MaxEvents |-> "bare"]
    /\ queue = [q \in Queue |-> <<>>]
    /\ hand = [q \in Queue |-> Nothing]
    /\ file = [f \in File |-> <<>>]
    /\ main = Idle
    /\ lost = {}

-----------------------------------------------------------------------------
\* classify_event.  No event carries the age of the account or its incidents.

\* Fault: what was only slowed down is clean.
FileOfUnlessBlocked(e) ==
    IF e.decision \in {"ALLOW", "LIMIT"} THEN "baseline" ELSE "quarantine"
\* The file of the tier: the hard veto, the review, and what is left
FileOf(e) ==
    LET s == e.signals
        veto == e.decision = "BLOCK" \/ s.waf > 0 \/ s.auth > 0 \/ Overall(s) > 5000
        review == e.decision = "LIMIT" \/ Overall(s) > 2000 \/ s.rule > 0
    IN IF ~veto /\ ~review /\ e.decision = "ALLOW" THEN "baseline" ELSE "quarantine"

\* _write_immediate and _append_jsonl: the dict as it is now, or an error in the log
Persist(item) ==
    \/ /\ file' = [file EXCEPT ![item.file] =
                     Append(@, [event |-> item.event, mark |-> mark[item.event]])]
       /\ UNCHANGED lost
    \/ /\ "disk_full" \in Faults
       /\ lost' = lost \cup {item}
       /\ UNCHANGED file

\* put_nowait; with the queue full the caller writes the item itself.
Put(q, item, spilled) ==
    IF Len(queue[q]) < Capacity
      THEN /\ queue' = [queue EXCEPT ![q] = Append(@, item)]
           /\ UNCHANGED <<file, lost>>
      ELSE /\ Persist(spilled)
           /\ UNCHANGED queue

-----------------------------------------------------------------------------
\* The thread of the event loop: emit and process_event, which run one after the other,
\* other threads between any two statements.

\* Fault: an event that finds the queue full is dropped.
EmitOrDrop(e) ==
    /\ main = Idle /\ Len(events) < MaxEvents
    /\ events' = Append(events, e)
    /\ LET n == Len(events) + 1 IN
         /\ main' = [at |-> "marking", queue |-> "triage",
                     item |-> [event |-> n, file |-> FileOf(e)]]
         /\ IF Len(queue["telemetry"]) < Capacity
              THEN queue' = [queue EXCEPT !["telemetry"] =
                               Append(@, [event |-> n, file |-> "telemetry"])]
              ELSE UNCHANGED queue
    /\ UNCHANGED <<mark, hand, file, lost>>
\* emit, and the tier from classify_event
Emit(e) ==
    /\ main = Idle /\ Len(events) < MaxEvents
    /\ events' = Append(events, e)
    /\ LET n == Len(events) + 1 IN
         /\ main' = [at |-> "marking", queue |-> "triage",
                     item |-> [event |-> n, file |-> FileOf(e)]]
         /\ Put("telemetry", [event |-> n, file |-> "telemetry"],
                [event |-> n, file |-> "fallback"])
    /\ UNCHANGED <<mark, hand>>

\* event["quarantined"], then event["tier"] and the reasons
MarkAs(from, m, to) ==
    /\ main.at = from
    /\ mark' = [mark EXCEPT ![main.item.event] = m]
    /\ main' = [main EXCEPT !.at = to]
    /\ UNCHANGED <<events, queue, hand, file, lost>>

\* _enqueue, with the file of the tier
Enqueue ==
    /\ main.at = "filing"
    /\ Put("triage", main.item, main.item)
    /\ main' = Idle
    /\ UNCHANGED <<events, mark, hand>>

\* flush, which the event loop's thread can call when no event is on its way: it takes
\* from the queue what the other thread has not taken.
Flush(q) ==
    /\ main = Idle
    /\ main' = [main EXCEPT !.at = "flushing", !.queue = q]
    /\ UNCHANGED <<events, mark, queue, hand, file, lost>>

Drain ==
    /\ main.at = "flushing"
    /\ IF main.item # Nothing
         THEN /\ Persist(main.item)
              /\ main' = [main EXCEPT !.item = Nothing]
              /\ UNCHANGED queue
         ELSE /\ \/ /\ queue[main.queue] = <<>>
                    /\ main' = Idle
                    /\ UNCHANGED queue
                 \/ /\ queue[main.queue] # <<>>
                    /\ main' = [main EXCEPT !.item = Head(queue[main.queue])]
                    /\ queue' = [queue EXCEPT ![main.queue] = Tail(@)]
              /\ UNCHANGED <<file, lost>>
    /\ UNCHANGED <<events, mark, hand>>

Triage ==
    \/ MarkAs("marking", "quarantined", "completing")
    \/ MarkAs("completing", "complete", "filing")
    \/ Enqueue

-----------------------------------------------------------------------------
\* _process_queue, the thread of queue q

\* Fault: the thread waits until there is more than one item to write.
TakeInBatches(q) ==
    /\ hand[q] = Nothing /\ Len(queue[q]) > 1
    /\ hand' = [hand EXCEPT ![q] = Head(queue[q])]
    /\ queue' = [queue EXCEPT ![q] = Tail(@)]
    /\ UNCHANGED <<events, mark, file, main, lost>>
Take(q) ==
    /\ hand[q] = Nothing /\ queue[q] # <<>>
    /\ hand' = [hand EXCEPT ![q] = Head(queue[q])]
    /\ queue' = [queue EXCEPT ![q] = Tail(@)]
    /\ UNCHANGED <<events, mark, file, main, lost>>

Write(q) ==
    /\ hand[q] # Nothing
    /\ Persist(hand[q])
    /\ hand' = [hand EXCEPT ![q] = Nothing]
    /\ UNCHANGED <<events, mark, queue, main>>

\* The process ends and another starts.  The threads are daemons, and nothing calls flush
\* at shutdown.
Restart ==
    /\ "restart" \in Faults
    /\ lost' = lost \cup (UNION {{queue[q][i] : i \in DOMAIN queue[q]} : q \in Queue})
                    \cup (({hand[q] : q \in Queue} \cup {main.item}) \ {Nothing})
    /\ queue' = [q \in Queue |-> <<>>]
    /\ hand' = [q \in Queue |-> Nothing]
    /\ main' = Idle
    /\ UNCHANGED <<events, mark, file>>

Next ==
    \/ \E e \in Event : Emit(e)
    \/ Triage
    \/ Drain
    \/ \E q \in Queue : Flush(q) \/ Take(q) \/ Write(q)
    \/ Restart

Spec == Init /\ [][Next]_vars

\* Every thread that can go on does.
FairSpec ==
    /\ Spec /\ WF_vars(Triage) /\ WF_vars(Drain)
    /\ \A q \in Queue : WF_vars(Take(q)) /\ WF_vars(Write(q))

-----------------------------------------------------------------------------
\* The files the items of a queue are for
FilesOf(q) ==
    IF q = "telemetry" THEN {"telemetry", "fallback"} ELSE {"baseline", "quarantine"}

\* The places of event n on its way by queue q: in the queue, in the hand of a thread, in
\* a file, and among the lost
Queued(q, n) == {i \in DOMAIN queue[q] : queue[q][i].event = n}
Held(q, n) ==
    {h \in {"thread"} : hand[q] # Nothing /\ hand[q].event = n}
      \cup {h \in {"main"} : /\ main.item # Nothing /\ main.item.event = n
                             /\ main.item.file \in FilesOf(q)}
Written(q, n) ==
    UNION {{<<f, i>> : i \in {j \in DOMAIN file[f] : file[f][j].event = n}} :
             f \in FilesOf(q)}
Missing(q, n) == {item \in lost : item.event = n /\ item.file \in FilesOf(q)}

\* event_pipeline.py:16, "Guaranteed event ingestion": whichever threads write and drain at
\* the same time, and whether a queue was full, every event is in exactly one place of
\* each of the two ways: under way, in one line of one file, or lost to a fault.
AccountedFor ==
    \A q \in Queue, n \in DOMAIN events :
        Cardinality(Queued(q, n)) + Cardinality(Held(q, n))
          + Cardinality(Written(q, n)) + Cardinality(Missing(q, n)) = 1

\* Allowed, and neither the WAF nor the token check nor the rules spoke against it
Unopposed(e) ==
    LET s == e.signals
    IN e.decision = "ALLOW" /\ s.waf = 0 /\ s.auth = 0 /\ s.rule = 0

\* What the traffic limits, the statistics and the trust put into the score
Suspicion(s) == 10 * s.rate + 15 * Smaller(100, s.anomaly) + 20 * (100 - s.trust)

\* anti_poisoning.py:18, "Allowed != Normal": models are trained on all that was allowed
\* with nothing from the WAF, the token check and the rules, and on nothing else, and
\* each line of these files bears its tier, although the dict was shared with a thread
\* that writes it unfinished elsewhere.  What else was found keeps no event out by
\* itself: of it a line may bear at most what 7.5 points of the score are made of, such
\* as a rate of 75 or an anomaly of 50, and any opinion of the advisory model.
OnlyAllowedIsLearned ==
    \A f \in {"baseline", "quarantine"} : \A i \in DOMAIN file[f] :
        LET line == file[f][i]
            event == events[line.event]
        IN /\ line.mark = "complete"
           /\ Unopposed(event) <=> f = "baseline"
           /\ f = "baseline" => Suspicion(event.signals) <= 750

\* Every event reaches a file or is lost to a fault; no event waits for the next one.
WrittenInTheEnd ==
    \A n \in 1..MaxEvents :
        n \in DOMAIN events ~>
            n \in DOMAIN events /\ \A q \in Queue : Queued(q, n) = {} /\ Held(q, n) = {}
=============================================================================
