--------------------------- MODULE AbstractGateway ---------------------------
(***************************************************************************)
(* What the gateway promises the ERP behind it and whoever reads the audit *)
(* events, without the checks and the score: a request is examined before  *)
(* it goes to the ERP, goes there once, on a verdict that lets it pass and *)
(* for a client with too few wrong guesses on record, and gets one answer, *)
(* which bears that verdict; nobody else is granted anything.              *)
(***************************************************************************)
EXTENDS Naturals

CONSTANTS
    Handler,
    Client,
    Nobody,
    Threshold   \* recorded wrong guesses after which a client is kept out

VARIABLES
    place,      \* place[h]: "idle", "body" while its request is examined, or "ERP"
    whose,      \* whose[h]: the client of its request
    promised,   \* promised[h]: the verdict its request went to the ERP on
    wrong,      \* wrong[c]: recent wrong guesses of c on record
    last        \* the answer given last

gatewayVars == <<place, whose, promised, wrong, last>>

Unsaid == "no event"
Lenient == {"ALLOW", "LIMIT"}

Init ==
    /\ place = [h \in Handler |-> "idle"]
    /\ whose = [h \in Handler |-> Nobody]
    /\ promised = [h \in Handler |-> Unsaid]
    /\ wrong = [c \in Client |-> 0]
    /\ last = Nobody

Enter(h, c) ==
    /\ place[h] = "idle" /\ place' = [place EXCEPT ![h] = "body"]
    /\ whose' = [whose EXCEPT ![h] = c]
    /\ UNCHANGED <<promised, wrong, last>>

Leave(h, kind, verdict) ==
    /\ place' = [place EXCEPT ![h] = "idle"]
    /\ whose' = [whose EXCEPT ![h] = Nobody]
    /\ promised' = [promised EXCEPT ![h] = Unsaid]
    /\ last' = [kind |-> kind, verdict |-> verdict]

\* At the door or when it was examined, a request is denied, and no verdict in its
\* favour is on record; or it fails, and none against it is.
TurnAway(h) ==
    /\ place[h] # "ERP"
    /\ \/ \E verdict \in {"CHALLENGE", "BLOCK", Unsaid} : Leave(h, "denied", verdict)
       \/ \E verdict \in Lenient \cup {Unsaid} : Leave(h, "failed", verdict)
    /\ UNCHANGED wrong

Forward(h) ==
    /\ place[h] = "body" /\ place' = [place EXCEPT ![h] = "ERP"]
    /\ wrong[whose[h]] < Threshold
    /\ \E verdict \in Lenient : promised' = [promised EXCEPT ![h] = verdict]
    /\ UNCHANGED <<whose, wrong, last>>

\* The ERP has decided; that may have been a wrong guess, and be put on record.
Return(h) ==
    /\ place[h] = "ERP"
    /\ \E kind \in {"granted", "denied", "failed"} :
         /\ Leave(h, kind, promised[h])
         /\ \/ UNCHANGED wrong
            \/ kind = "denied" /\ wrong' = [wrong EXCEPT ![whose[h]] = @ + 1]

Forgive(c) ==
    /\ wrong[c] > 0 /\ wrong' = [wrong EXCEPT ![c] = @ - 1]
    /\ UNCHANGED <<place, whose, promised, last>>

Next ==
    \/ \E h \in Handler :
          TurnAway(h) \/ Forward(h) \/ Return(h) \/ \E c \in Client : Enter(h, c)
    \/ \E c \in Client : Forgive(c)

Spec == Init /\ [][Next]_gatewayVars
=============================================================================
