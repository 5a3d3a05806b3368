--------------------------- MODULE AbstractBreaker ---------------------------
(***************************************************************************)
(* What a circuit breaker promises its caller, without its three states:   *)
(* the upstream is trusted or suspected; it becomes suspected on Threshold *)
(* bad outcomes in a row and rests then for Rest ticks, in which no call   *)
(* begins; it is trusted again on Enough good outcomes in a row.  A call   *)
(* is all that is done for one request, attempts repeated within it        *)
(* included.                                                               *)
(***************************************************************************)
EXTENDS Naturals

CONSTANTS Caller, Threshold, Rest, Enough

VARIABLES
    trusted,  \* whether the upstream is trusted
    rest,     \* how long no call may begin
    bad,      \* while trusted: bad outcomes in a row
    good,     \* while suspected and rested: good outcomes in a row
    busy      \* the callers with a call under way

avars == <<trusted, rest, bad, good, busy>>

Init == trusted = TRUE /\ rest = 0 /\ bad = 0 /\ good = 0 /\ busy = {}

\* A call begins, never while the upstream rests.
Begin(c) ==
    /\ c \notin busy /\ rest = 0
    /\ busy' = busy \cup {c}
    /\ UNCHANGED <<trusted, rest, bad, good>>

Good ==
    \/ trusted /\ bad' = 0 /\ UNCHANGED <<trusted, rest, good>>
    \/ /\ ~trusted /\ rest = 0 /\ good + 1 < Enough
       /\ good' = good + 1
       /\ UNCHANGED <<trusted, rest, bad>>
    \/ /\ ~trusted /\ rest = 0 /\ good + 1 = Enough
       /\ trusted' = TRUE /\ bad' = 0 /\ good' = 0
       /\ UNCHANGED rest

Suspect == trusted' = FALSE /\ rest' = Rest /\ bad' = 0 /\ good' = 0

Bad ==
    \/ /\ trusted /\ bad + 1 < Threshold
       /\ bad' = bad + 1
       /\ UNCHANGED <<trusted, rest, good>>
    \/ trusted /\ bad + 1 = Threshold /\ Suspect
    \/ ~trusted /\ rest = 0 /\ Suspect

\* A call ends.  Its outcome may also be ignored: the promise is when calls may
\* begin and what changes the trust, not that each outcome is counted.
End(c) ==
    /\ c \in busy /\ busy' = busy \ {c}
    /\ Good \/ Bad \/ UNCHANGED <<trusted, rest, bad, good>>

Wait ==
    /\ rest > 0 /\ rest' = rest - 1
    /\ UNCHANGED <<trusted, bad, good, busy>>

Next == Wait \/ \E c \in Caller : Begin(c) \/ End(c)

Spec == Init /\ [][Next]_avars
=============================================================================
