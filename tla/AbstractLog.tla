----------------------------- MODULE AbstractLog -----------------------------
(***************************************************************************)
(* What a tamper-evident log promises whoever audits it, without blocks    *)
(* and signatures: as long as the log is found intact it only grows, at    *)
(* its end and by what was just offered to it, or loses some of its end;   *)
(* nothing that is offered to a broken log makes it appear intact again.   *)
(***************************************************************************)
EXTENDS Naturals, Sequences

CONSTANTS
    Event,
    Gap       \* stands for what is no event

VARIABLES
    entries,  \* what the log shows
    intact,   \* whether verification confirms it
    offered   \* what was to be logged

logVars == <<entries, intact, offered>>

Init == entries = <<>> /\ intact = TRUE /\ offered = <<>>

\* An event is offered.  The log takes it or not, or is broken by the attempt.
Offer(e) ==
    /\ offered' = Append(offered, e)
    /\ \/ UNCHANGED <<entries, intact>>
       \/ intact /\ entries' = Append(entries, e) /\ UNCHANGED intact
       \/ intact' = FALSE /\ entries' \in Seq(Event \cup {Gap})

\* Some of the end is lost, and what was wrong there with it.
LoseEnd ==
    /\ \E n \in 0..Len(entries) : entries' = SubSeq(entries, 1, n)
    /\ intact' \in BOOLEAN /\ (intact => intact')
    /\ UNCHANGED offered

\* Somebody changes the log from outside: an intact one is not intact afterwards.
Tamper ==
    /\ intact' \in BOOLEAN /\ ~(intact /\ intact')
    /\ entries' \in Seq(Event \cup {Gap})
    /\ UNCHANGED offered

Next == LoseEnd \/ Tamper \/ \E e \in Event : Offer(e)

Spec == Init /\ [][Next]_logVars
=============================================================================
