----------------------------- MODULE AuditChain -----------------------------
(***************************************************************************)
(* TamperEvidentAuditChain of gateway/compliance.py.  Every gateway worker *)
(* process has its own chain object, with the hash and the count of the    *)
(* last block it knows, and all append to one file.  append_event runs     *)
(* under the lock of one process, and a block is one write: it is a step.  *)
(*                                                                         *)
(* A signature is modelled as an injective function of what it covers: the *)
(* sequence of the payloads from the first block to this one.  The index   *)
(* it also covers is the length of the sequence before it.                 *)
(***************************************************************************)
EXTENDS Integers, Sequences

CONSTANTS
    Worker,    \* gateway processes that share events/tamper_evident_audit.jsonl
    Event,     \* audit events
    NoEvent,   \* the payload of a line that is no block
    Faults,    \* which faults may happen
    MaxLines,  \* bound: lines of the file
    MaxCalls   \* bound: calls of append_event

Fault == {"write_error", "torn_write", "tail_lost", "altered"}

ASSUME AuditAssumption ==
    /\ NoEvent \notin Event
    /\ Faults \subseteq Fault
    /\ MaxLines \in Nat /\ MaxCalls \in Nat

VARIABLES
    file,          \* the lines of the audit file
    unterminated,  \* whether its last line lacks the newline
    lastHash,      \* last_hash of each worker
    blockCount,    \* block_count of each worker
    offered,       \* history: the events append_event was called with
    sealed,        \* history: the events it returned a block for
    writers,       \* history: the workers of which something has reached the file
    torn,          \* history: whether a write has reached the file in part
    harm           \* history: what happened behind the chain's back to what it covers

audit == <<file, unterminated>>
memory == <<lastHash, blockCount>>
vars == <<audit, memory, offered, sealed, writers, torn, harm>>

Hash == Seq(Event)
GENESIS_HASH == <<>>
\* Of the timestamp only whether it is still the one append_event wrote: no signature
\* covers it and verify_chain does not look at it.
Block == [index : Nat, time : {"written", "changed"}, prev : Hash, sig : Hash, payload : Event]

\* A line json.loads rejects
Malformed == [index |-> -1, time |-> "written", prev |-> GENESIS_HASH,
              sig |-> GENESIS_HASH, payload |-> NoEvent]

TypeOK ==
    /\ file \in Seq(Block \cup {Malformed})
    /\ unterminated \in BOOLEAN
    /\ lastHash \in [Worker -> Hash]
    /\ blockCount \in [Worker -> Nat]
    /\ offered \in Seq(Event) /\ sealed \in Seq(Event)
    /\ writers \in SUBSET Worker /\ torn \in BOOLEAN
    /\ harm \in {"none", "tail_lost", "altered", "altered broken"}

Init ==
    /\ file = <<>> /\ unterminated = FALSE
    /\ lastHash = [w \in Worker |-> GENESIS_HASH]
    /\ blockCount = [w \in Worker |-> 0]
    /\ offered = <<>> /\ sealed = <<>>
    /\ writers = {} /\ torn = FALSE /\ harm = "none"

-----------------------------------------------------------------------------
\* append_event

\* _compute_signature
Signature(prev, payload) == Append(prev, payload)

NextBlock(w, event) ==
    [index |-> blockCount[w], time |-> "written", prev |-> lastHash[w],
     sig |-> Signature(lastHash[w], event), payload |-> event]

\* Fault: the file is opened for writing rather than for appending.
Overwritten(line) == <<line>>
\* What is written after a line without its newline continues that line, and what
\* json.loads then sees of it is no block.
Written(line) ==
    IF unterminated THEN [file EXCEPT ![Len(file)] = Malformed]
    ELSE Append(file, line)

Called(event) ==
    /\ Len(file) < MaxLines /\ Len(offered) < MaxCalls
    /\ offered' = Append(offered, event)

AppendEvent(w, event) ==
    /\ Called(event)
    /\ file' = Written(NextBlock(w, event))
    /\ unterminated' = FALSE
    /\ lastHash' = [lastHash EXCEPT ![w] = NextBlock(w, event).sig]
    /\ blockCount' = [blockCount EXCEPT ![w] = @ + 1]
    /\ sealed' = Append(sealed, event)
    /\ writers' = writers \cup {w}
    /\ UNCHANGED <<torn, harm>>

\* Fault: the index is advanced before the block is written.
CountedBeforeWriting(w, event) ==
    /\ blockCount' = [blockCount EXCEPT ![w] = @ + 1]
    /\ UNCHANGED lastHash
\* The exception is logged and raised again before last_hash and block_count change.
MemoryAfterFailure(w, event) == UNCHANGED memory

\* Opening or writing raises; nothing reaches the file.
AppendFails(w, event) ==
    /\ "write_error" \in Faults
    /\ Called(event)
    /\ MemoryAfterFailure(w, event)
    /\ UNCHANGED <<audit, sealed, writers, torn, harm>>

\* A part of the line reaches the file before the disk is full or the process dies:
\* less than the block, or all of it but the newline.
AppendTears(w, event) ==
    /\ "torn_write" \in Faults
    /\ Called(event)
    /\ \E line \in {Malformed, NextBlock(w, event)} : file' = Written(line)
    /\ unterminated' = TRUE
    /\ MemoryAfterFailure(w, event)
    /\ writers' = writers \cup {w} /\ torn' = TRUE
    /\ UNCHANGED <<sealed, harm>>

-----------------------------------------------------------------------------
\* verify_chain

PrevIn(f, n) == IF n = 1 THEN GENESIS_HASH ELSE f[n - 1].sig

\* Fault: the signature is not computed again.
LinkedUnsealed(f, n) ==
    /\ f[n] # Malformed
    /\ f[n].index = n - 1
    /\ f[n].prev = PrevIn(f, n)
\* The checks of the loop for line n; a line that is no block fails too.
Linked(f, n) ==
    /\ f[n] # Malformed
    /\ f[n].index = n - 1
    /\ f[n].prev = PrevIn(f, n)
    /\ f[n].sig = Signature(f[n].prev, f[n].payload)

\* verify_chain()[0]
Verifies(f) == \A n \in 1..Len(f) : Linked(f, n)

-----------------------------------------------------------------------------
\* _initialize_from_existing_log: reads up to the first line that is no block.
Readable(f) ==
    CHOOSE n \in 0..Len(f) :
        /\ \A m \in 1..n : f[m] # Malformed
        /\ n = Len(f) \/ f[n + 1] = Malformed

HashIn(f) == IF Readable(f) = 0 THEN GENESIS_HASH ELSE f[Readable(f)].sig

\* Fault: counting resumes with the index of the last block.
CountInWithoutNext(f) == IF Readable(f) = 0 THEN 0 ELSE f[Readable(f)].index
CountIn(f) == IF Readable(f) = 0 THEN 0 ELSE f[Readable(f)].index + 1

Restart(w) ==
    /\ lastHash' = [lastHash EXCEPT ![w] = HashIn(file)]
    /\ blockCount' = [blockCount EXCEPT ![w] = CountIn(file)]
    /\ UNCHANGED <<audit, offered, sealed, writers, torn, harm>>

\* The machine goes down; what was not yet on disk, some lines at the end, is gone.
\* All workers start again.
TailLost ==
    /\ "tail_lost" \in Faults /\ harm = "none" /\ ~unterminated
    /\ \E n \in 0..(Len(file) - 1) :
         /\ file' = SubSeq(file, 1, n)
         /\ lastHash' = [w \in Worker |-> HashIn(SubSeq(file, 1, n))]
         /\ blockCount' = [w \in Worker |-> CountIn(SubSeq(file, 1, n))]
    /\ harm' = "tail_lost"
    /\ UNCHANGED <<unterminated, offered, sealed, writers, torn>>

\* What the signatures cover is altered: the payload of a line is changed, or a line is
\* removed from before the end or swapped with the next.
WithPayload(n, event) == [file EXCEPT ![n].payload = event]
Without(n) == SubSeq(file, 1, n - 1) \o SubSeq(file, n + 1, Len(file))
Swapped(n) == [file EXCEPT ![n] = file[n + 1], ![n + 1] = file[n]]

Altered ==
    /\ "altered" \in Faults /\ harm = "none"
    /\ \/ \E n \in 1..Len(file), event \in Event :
            /\ file[n].payload \notin {event, NoEvent}
            /\ file' = WithPayload(n, event)
       \/ \E n \in 1..(Len(file) - 1) : file' \in {Without(n), Swapped(n)}
    /\ harm' = IF Verifies(file) THEN "altered" ELSE "altered broken"
    /\ UNCHANGED <<unterminated, memory, offered, sealed, writers, torn>>

\* The timestamp of a line is altered.
Redated ==
    /\ "altered" \in Faults
    /\ \E n \in 1..Len(file) :
         /\ file[n] # Malformed /\ file[n].time = "written"
         /\ file' = [file EXCEPT ![n].time = "changed"]
    /\ UNCHANGED <<unterminated, memory, offered, sealed, writers, torn, harm>>

Next ==
    \/ \E w \in Worker :
         \/ \E event \in Event :
              AppendEvent(w, event) \/ AppendFails(w, event) \/ AppendTears(w, event)
         \/ Restart(w)
    \/ TailLost
    \/ Altered
    \/ Redated

Spec == Init /\ [][Next]_vars

-----------------------------------------------------------------------------
Payloads(f) == [n \in 1..Len(f) |-> f[n].payload]

\* Nobody touched what the signatures cover, every write was whole, and they were of one
\* worker.
Undisturbed == harm = "none" /\ ~torn /\ \A v, w \in writers : v = w

\* As long as one worker writes and nobody touches what is signed, verify_chain confirms
\* the file: failed writes and restarts leave no gap in the indices and no broken link.
ChainIntact == Undisturbed => Verifies(file)

\* The worker that has written so far, or any worker if none has, has the hash and the
\* index of the last line in hand, after restarts and failed writes as well, so that
\* its next block continues the chain.
ResumesAtTail ==
    Undisturbed =>
        \A w \in Worker :
            writers \subseteq {w} => /\ lastHash[w] = PrevIn(file, Len(file) + 1)
                                    /\ blockCount[w] = Len(file)

\* The file holds the events append_event has returned a block for, in their order:
\* none is lost or doubled by a failed write or a restart.
RecordsWhatItReturned == harm = "none" /\ ~torn => sealed = Payloads(file)

\* compliance.py:5, for what a signature covers (index, previous hash and payload,
\* compliance.py:60-61): once the payload of a line of a file that verified was changed,
\* or a line before the last was removed or swapped, verify_chain fails, and nothing
\* any worker appends, in whole or in part, nor any restart, ever makes it pass again.
\* A changed timestamp it does not notice.
AlterationIsDetected == harm = "altered" => ~Verifies(file)

\* s comes from t by leaving elements out.
Within(s, t) ==
    \E at \in [1..Len(s) -> 1..Len(t)] :
        /\ \A n \in 1..Len(s) : s[n] = t[at[n]]
        /\ \A n \in 2..Len(s) : at[n - 1] < at[n]

\* A file that verifies shows payloads that were logged, in the order they were logged
\* in, though not when: however many workers wrote it, whatever writes failed or were
\* torn, and whatever was lost or altered.
WhatVerifiesHappened ==
    Verifies(file) => Within(Payloads(file), offered)

\* The file in the terms of AbstractLog: an auditor reads the payloads and asks
\* verify_chain whether to believe them.
Log == INSTANCE AbstractLog WITH
    Gap <- NoEvent,
    entries <- Payloads(file),
    intact <- Verifies(file)

\* compliance.py implements the tamper-evident log: while verify_chain confirms the file
\* it only grows, by the event just offered to it, or loses some of its end, and what
\* is appended to a file that fails never makes it pass, whatever workers, torn writes
\* and restarts do.
ImplementsLog == Log!Spec
=============================================================================
