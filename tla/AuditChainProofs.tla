-------------------------- MODULE AuditChainProofs --------------------------
(***************************************************************************)
(* Theorems about AuditChain for any workers, events, bounds and faults.   *)
(***************************************************************************)
EXTENDS AuditChain, SequenceTheorems, WellFoundedInduction, TLAPS

Line == Block \cup {Malformed}

\* The worker that alone may have written is ready to continue the chain.
AtTail(w) == lastHash[w] = PrevIn(file, Len(file) + 1) /\ blockCount[w] = Len(file)

\* The inductive invariant: before any harm the file holds the blocks that were
\* returned and nothing else; a chain of one worker verifies and that worker knows its
\* end; a chain that was altered does not verify.
Inv ==
    /\ TypeOK
    /\ harm = "none" /\ ~torn =>
         file \in Seq(Block) /\ ~unterminated /\ sealed = Payloads(file)
    /\ Undisturbed =>
         Verifies(file) /\ \A w \in Worker : writers \subseteq {w} => AtTail(w)
    /\ harm = "altered" => ~Verifies(file)

LEMMA BlockIsNotMalformed == Malformed \notin Block
BY DEF Malformed, Block

LEMMA BlockAt ==
    ASSUME NEW f \in Seq(Block), NEW n \in 1..Len(f)
    PROVE  /\ f[n] \in Block /\ f[n].index \in Nat
           /\ f[n].prev \in Seq(Event) /\ f[n].payload \in Event
           /\ \A event \in Event :
                /\ [f[n] EXCEPT !.payload = event] \in Block
                /\ [f[n] EXCEPT !.payload = event].prev = f[n].prev
                /\ [f[n] EXCEPT !.payload = event].sig = f[n].sig
                /\ [f[n] EXCEPT !.payload = event].payload = event
<1>1. f[n] \in Block
  OBVIOUS
<1>2. QED
  BY <1>1 DEF Block, Hash

LEMMA PayloadsOf ==
    ASSUME NEW f \in Seq(Block)
    PROVE  Payloads(f) \in Seq(Event) /\ Len(Payloads(f)) = Len(f)
<1>1. \A n \in 1..Len(f) : f[n].payload \in Event
  BY BlockAt
<1>2. QED
  BY <1>1 DEF Payloads

LEMMA PayloadsAppend ==
    ASSUME NEW f \in Seq(Block), NEW b \in Block
    PROVE  Payloads(Append(f, b)) = Append(Payloads(f), b.payload)
<1> DEFINE s == Payloads(Append(f, b))
           t == Append(Payloads(f), b.payload)
<1>1. Append(f, b) \in Seq(Block) /\ b.payload \in Event
  BY DEF Block
<1>2. s \in Seq(Event) /\ Len(s) = Len(f) + 1
  <2>1. Len(Append(f, b)) = Len(f) + 1
    OBVIOUS
  <2>2. QED
    BY <1>1, <2>1, PayloadsOf
<1>3. t \in Seq(Event) /\ Len(t) = Len(f) + 1
  BY <1>1, PayloadsOf
<1>4. \A n \in 1..(Len(f) + 1) : s[n] = t[n]
  BY PayloadsOf DEF Payloads
<1>5. QED
  BY <1>2, <1>3, <1>4

\* Reading a log always comes to an end.
LEMMA ReadableEnds ==
    ASSUME NEW f \in Seq(Line)
    PROVE  Readable(f) \in 0..Len(f) /\ \A m \in 1..Readable(f) : f[m] # Malformed
<1> DEFINE IsIt(n) == /\ \A m \in 1..n : f[m] # Malformed
                      /\ n = Len(f) \/ f[n + 1] = Malformed
           Ends == {n \in Nat : n \in 0..Len(f) /\ (n = Len(f) \/ f[n + 1] = Malformed)}
<1>1. \E n \in 0..Len(f) : IsIt(n)
  <2>1. Ends \subseteq Nat /\ Len(f) \in Ends
    OBVIOUS
  <2>2. PICK x \in Ends : \A y \in Ends : ~(<<y, x>> \in OpToRel(<, Nat))
    <3> HIDE DEF Ends
    <3>1. QED
      BY <2>1, NatLessThanWellFounded, WFMin
  <2>3. \A y \in Ends : ~(y < x)
    BY <2>1, <2>2 DEF OpToRel
  <2>4. \A m \in 1..x : f[m] # Malformed
    <3> SUFFICES ASSUME NEW m \in 1..x, f[m] = Malformed PROVE FALSE
      OBVIOUS
    <3>1. m - 1 \in Ends
      OBVIOUS
    <3>2. QED
      BY <2>3, <3>1
  <2>5. QED
    BY <2>4
<1>2. QED
  BY <1>1 DEF Readable

\* What it finds has its type.
LEMMA ReadableIn ==
    ASSUME NEW f \in Seq(Line)
    PROVE  HashIn(f) \in Hash /\ CountIn(f) \in Nat
<1>1. Readable(f) \in 0..Len(f) /\ \A m \in 1..Readable(f) : f[m] # Malformed
  BY ReadableEnds
<1>2. Readable(f) # 0 => f[Readable(f)] \in Block
  BY <1>1 DEF Line
<1>3. QED
  BY <1>1, <1>2 DEF HashIn, CountIn, Block, Hash, GENESIS_HASH

\* A file of blocks is readable to its end.
LEMMA AllReadable ==
    ASSUME NEW f \in Seq(Block)
    PROVE  /\ HashIn(f) = PrevIn(f, Len(f) + 1) /\ HashIn(f) \in Hash
           /\ CountIn(f) \in Nat
           /\ Len(f) # 0 => CountIn(f) = f[Len(f)].index + 1
           /\ Len(f) = 0 => CountIn(f) = 0
<1>1. \A n \in 1..Len(f) : f[n] \in Block /\ f[n] # Malformed
  BY BlockIsNotMalformed
<1>2. Readable(f) = Len(f)
  <2> DEFINE IsIt(n) == /\ \A m \in 1..n : f[m] # Malformed
                        /\ n = Len(f) \/ f[n + 1] = Malformed
  <2>1. Len(f) \in 0..Len(f) /\ IsIt(Len(f))
    BY <1>1
  <2>2. \A n \in 0..Len(f) : IsIt(n) => n = Len(f)
    BY <1>1
  <2>3. QED
    BY <2>1, <2>2 DEF Readable
<1>3. QED
  BY <1>1, <1>2 DEF HashIn, CountIn, PrevIn, Block, Hash, GENESIS_HASH

-----------------------------------------------------------------------------
\* A block that is appended leaves what verify_chain finds of the lines before it.
LEMMA AppendKeepsLinks ==
    ASSUME NEW f \in Seq(Block), NEW b \in Block
    PROVE  \A n \in 1..Len(f) : Linked(Append(f, b), n) <=> Linked(f, n)
BY DEF Linked, PrevIn

\* The block that continues a chain is linked.
LEMMA AppendContinues ==
    ASSUME NEW f \in Seq(Block), Verifies(f), NEW b \in Block,
           b.index = Len(f), b.prev = PrevIn(f, Len(f) + 1),
           b.sig = Signature(b.prev, b.payload)
    PROVE  /\ Verifies(Append(f, b))
           /\ PrevIn(Append(f, b), Len(Append(f, b)) + 1) = b.sig
<1>1. Linked(Append(f, b), Len(f) + 1)
  BY BlockIsNotMalformed DEF Linked, PrevIn
<1>2. PrevIn(Append(f, b), Len(f) + 2) = b.sig
  BY DEF PrevIn
<1>3. QED
  BY <1>1, <1>2, AppendKeepsLinks DEF Verifies

\* Changing, removing or swapping lines of a file that verifies is seen at the first
\* line it touches.
LEMMA AlteredIsSeen ==
    ASSUME NEW f \in Seq(Block), Verifies(f), NEW n \in 1..Len(f),
           NEW g \in Seq(Line), n <= Len(g),
           \/ /\ n < Len(f) /\ g[n] = f[n + 1]
           \/ \E event \in Event :
                /\ event # f[n].payload /\ g[n] = [f[n] EXCEPT !.payload = event]
    PROVE  ~Linked(g, n)
<1>1. CASE n < Len(f) /\ g[n] = f[n + 1]
  <2>1. f[n + 1].index = n
    <3>1. n + 1 \in 1..Len(f) /\ (n + 1) - 1 = n
      BY <1>1
    <3>2. Linked(f, n + 1)
      BY <3>1, Zenon DEF Verifies
    <3>3. f[n + 1].index = (n + 1) - 1
      BY <3>2, Zenon DEF Linked
    <3>4. QED
      BY <3>1, <3>3
  <2>2. g[n].index # n - 1
    BY <1>1, <2>1
  <2>3. QED
    BY <2>2 DEF Linked
<1>2. ASSUME NEW event \in Event,
             event # f[n].payload, g[n] = [f[n] EXCEPT !.payload = event]
      PROVE  ~Linked(g, n)
  <2>1. f[n] \in Block /\ f[n].sig = Append(f[n].prev, f[n].payload)
    BY DEF Verifies, Linked, Signature
  <2>2. /\ g[n].prev = f[n].prev /\ g[n].sig = f[n].sig /\ g[n].payload = event
        /\ f[n].prev \in Seq(Event)
    BY <1>2, BlockAt
  <2>3. Append(f[n].prev, event) # Append(f[n].prev, f[n].payload)
    <3> DEFINE s == f[n].prev
    <3>1. /\ Append(s, event)[Len(s) + 1] = event
          /\ Append(s, f[n].payload)[Len(s) + 1] = f[n].payload
      BY <2>1, <2>2, BlockAt
    <3>2. QED
      BY <1>2, <3>1
  <2>4. QED
    BY <2>1, <2>2, <2>3 DEF Linked, Signature
<1>3. QED
  BY <1>1, <1>2

\* A file that does not verify never does again, whatever is written after it.
LEMMA BrokenStays ==
    ASSUME NEW f \in Seq(Line), ~Verifies(f), NEW g, NEW line \in Line,
           g \in {Append(f, line), [f EXCEPT ![Len(f)] = Malformed]}
    PROVE  ~Verifies(g)
<1>1. PICK n \in 1..Len(f) : ~Linked(f, n)
  BY DEF Verifies
<1>2. n \in 1..Len(g)
  BY <1>1
<1>3. g[n] = f[n] \/ g[n] = Malformed
  BY <1>1
<1>4. n # 1 => g[n - 1] = f[n - 1]
  BY <1>1
<1>5. PrevIn(g, n) = PrevIn(f, n)
  BY <1>4 DEF PrevIn
<1>6. ~Linked(g, n)
  BY <1>1, <1>3, <1>5 DEF Linked
<1>7. QED
  BY <1>2, <1>6 DEF Verifies

LEMMA WrittenType ==
    ASSUME TypeOK, NEW line \in Line
    PROVE  /\ Written(line) \in Seq(Line)
           /\ ~Verifies(file) => ~Verifies(Written(line))
<1>1. file \in Seq(Line) /\ Malformed \in Line
  BY DEF TypeOK, Line
<1>2. Append(file, line) \in Seq(Line)
  BY <1>1
<1>3. [file EXCEPT ![Len(file)] = Malformed] \in Seq(Line)
  <2>1. CASE Len(file) = 0
    <3>1. [file EXCEPT ![Len(file)] = Malformed] = file
      BY <1>1, <2>1
    <3>2. QED
      BY <1>1, <3>1
  <2>2. CASE Len(file) # 0
    <3>1. Len(file) \in 1..Len(file)
      BY <1>1, <2>2
    <3>2. QED
      BY <1>1, <3>1, ExceptSeq
  <2>3. QED
    BY <2>1, <2>2
<1>4. Written(line) \in {Append(file, line), [file EXCEPT ![Len(file)] = Malformed]}
  BY DEF Written
<1>5. QED
  BY <1>1, <1>2, <1>3, <1>4, BrokenStays

LEMMA NextBlockType ==
    ASSUME TypeOK, NEW w \in Worker, NEW event \in Event
    PROVE  LET b == NextBlock(w, event)
           IN  /\ b \in Block /\ b.sig = Signature(b.prev, b.payload)
               /\ b.payload = event /\ b.index = blockCount[w] /\ b.prev = lastHash[w]
<1>1. blockCount[w] \in Nat /\ lastHash[w] \in Seq(Event)
  BY DEF TypeOK, Hash
<1>2. QED
  BY <1>1 DEF NextBlock, Signature, Block, Hash

-----------------------------------------------------------------------------
LEMMA AppendStep ==
    ASSUME Inv, NEW w \in Worker, NEW event \in Event, AppendEvent(w, event)
    PROVE  Inv'
<1> DEFINE b == NextBlock(w, event)
<1>1. b \in Block /\ b.sig = Signature(b.prev, b.payload) /\ b.payload = event
      /\ b.index = blockCount[w] /\ b.prev = lastHash[w]
  BY NextBlockType DEF Inv
<1>2. file' = Written(b) /\ ~unterminated' /\ writers' = writers \cup {w}
      /\ torn' = torn /\ harm' = harm
  BY DEF AppendEvent
<1>3. TypeOK'
  <2> TypeOK
    BY DEF Inv
  <2>1. lastHash' \in [Worker -> Hash] /\ blockCount' \in [Worker -> Nat]
    <3>1. b.sig \in Hash
      BY <1>1 DEF Block
    <3>2. lastHash' = [lastHash EXCEPT ![w] = b.sig]
          /\ blockCount' = [blockCount EXCEPT ![w] = @ + 1]
      BY DEF AppendEvent
    <3>3. lastHash \in [Worker -> Hash] /\ blockCount \in [Worker -> Nat]
      BY DEF TypeOK
    <3>4. QED
      BY <3>1, <3>2, <3>3
  <2>2. offered' \in Seq(Event) /\ sealed' \in Seq(Event)
    <3>1. offered' = Append(offered, event) /\ sealed' = Append(sealed, event)
      BY DEF AppendEvent, Called
    <3>2. offered \in Seq(Event) /\ sealed \in Seq(Event)
      BY DEF TypeOK
    <3>3. QED
      BY <3>1, <3>2
  <2>3. file' \in Seq(Line)
    BY <1>1, <1>2, WrittenType DEF Inv, Line
  <2>4. QED
    BY <1>2, <2>1, <2>2, <2>3 DEF AppendEvent, Inv, TypeOK, Line
<1>4. ASSUME harm = "none", ~torn
      PROVE  /\ file' = Append(file, b) /\ file' \in Seq(Block) /\ Len(file') = Len(file) + 1
             /\ sealed' = Payloads(file')
  <2>1. file \in Seq(Block) /\ ~unterminated /\ sealed = Payloads(file)
    BY <1>4 DEF Inv
  <2>2. file' = Append(file, b)
    BY <1>2, <2>1 DEF Written
  <2>3. Payloads(Append(file, b)) = Append(Payloads(file), b.payload)
    BY <1>1, <2>1, PayloadsAppend
  <2>4. sealed' = Append(sealed, event)
    BY DEF AppendEvent
  <2>5. QED
    BY <1>1, <2>1, <2>2, <2>3, <2>4
<1>5. ASSUME Undisturbed'
      PROVE  Verifies(file') /\ \A v \in Worker : writers' \subseteq {v} => AtTail(v)'
  <2>1. Undisturbed /\ writers \subseteq {w} /\ harm = "none" /\ ~torn
    BY <1>2, <1>5 DEF Undisturbed
  <2>2. Verifies(file) /\ AtTail(w) /\ file \in Seq(Block)
    BY <2>1 DEF Inv
  <2>3. Verifies(file') /\ PrevIn(file', Len(file') + 1) = b.sig
    <3>1. Verifies(Append(file, b))
          /\ PrevIn(Append(file, b), Len(Append(file, b)) + 1) = b.sig
      BY <1>1, <2>2, AppendContinues DEF AtTail
    <3>2. QED
      BY <1>4, <2>1, <3>1
  <2>4. lastHash'[w] = b.sig /\ blockCount'[w] = Len(file')
    BY <1>4, <2>1, <2>2 DEF AppendEvent, AtTail, Inv, TypeOK
  <2>5. \A v \in Worker : writers' \subseteq {v} => v = w
    BY <1>2
  <2>6. QED
    BY <2>3, <2>4, <2>5 DEF AtTail
<1>6. harm = "altered" => ~Verifies(file')
  BY <1>1, <1>2, WrittenType DEF Inv, Line
<1>7. QED
  BY <1>2, <1>3, <1>4, <1>5, <1>6 DEF Inv

LEMMA FailureStep ==
    ASSUME Inv, NEW w \in Worker, NEW event \in Event, AppendFails(w, event)
    PROVE  Inv'
<1>1. offered' \in Seq(Event)
  <2>1. offered' = Append(offered, event) /\ offered \in Seq(Event)
    BY DEF AppendFails, Called, Inv, TypeOK
  <2>2. QED
    BY <2>1
<1>2. QED
  BY <1>1 DEF AppendFails, MemoryAfterFailure, audit, memory, Inv, Undisturbed, AtTail, TypeOK

LEMMA TearStep ==
    ASSUME Inv, NEW w \in Worker, NEW event \in Event, AppendTears(w, event)
    PROVE  Inv'
<1>1. PICK line \in {Malformed, NextBlock(w, event)} : file' = Written(line)
  BY DEF AppendTears
<1>2. line \in Line
  BY <1>1, NextBlockType DEF Line, Inv
<1>3. file' \in Seq(Line) /\ (harm = "altered" => ~Verifies(file'))
  BY <1>1, <1>2, WrittenType DEF Inv
<1>4. TypeOK'
  <2>1. offered' \in Seq(Event)
    <3>1. offered' = Append(offered, event) /\ offered \in Seq(Event)
      BY DEF AppendTears, Called, Inv, TypeOK
    <3>2. QED
      BY <3>1
  <2>2. QED
    BY <1>3, <2>1 DEF AppendTears, MemoryAfterFailure, memory, Inv, TypeOK, Line
<1>5. torn' /\ harm' = harm
  BY DEF AppendTears
<1>6. QED
  BY <1>3, <1>4, <1>5 DEF Inv, Undisturbed

LEMMA RestartStep ==
    ASSUME Inv, NEW w \in Worker, Restart(w)
    PROVE  Inv'
<1>1. HashIn(file) \in Hash /\ CountIn(file) \in Nat
  BY ReadableIn DEF Inv, TypeOK, Line
<1>2. TypeOK'
  BY <1>1 DEF Restart, audit, Inv, TypeOK
<1>3. ASSUME Undisturbed, NEW v \in Worker, writers \subseteq {v}
      PROVE  AtTail(v)'
  <2>1. AtTail(v) /\ Verifies(file) /\ file \in Seq(Block)
    BY <1>3 DEF Inv, Undisturbed
  <2>2. HashIn(file) = PrevIn(file, Len(file) + 1) /\ CountIn(file) = Len(file)
    BY <2>1, AllReadable DEF Verifies, Linked
  <2>3. QED
    BY <2>1, <2>2 DEF Restart, AtTail, audit, Inv, TypeOK
<1>4. QED
  BY <1>2, <1>3 DEF Restart, audit, Inv, Undisturbed

LEMMA TailStep ==
    ASSUME Inv, TailLost
    PROVE  Inv'
<1>1. PICK n \in 0..(Len(file) - 1) :
        /\ file' = SubSeq(file, 1, n)
        /\ lastHash' = [w \in Worker |-> HashIn(SubSeq(file, 1, n))]
        /\ blockCount' = [w \in Worker |-> CountIn(SubSeq(file, 1, n))]
  BY DEF TailLost
<1>2. file' \in Seq(Line)
  <2>1. file \in Seq(Line)
    BY DEF Inv, TypeOK, Line
  <2>2. QED
    BY <1>1, <2>1
<1>3. HashIn(file') \in Hash /\ CountIn(file') \in Nat
  BY <1>2, ReadableIn
<1>4. harm' = "tail_lost"
  BY DEF TailLost
<1>5. TypeOK'
  BY <1>1, <1>2, <1>3, <1>4 DEF TailLost, Inv, TypeOK, Line
<1>6. QED
  BY <1>4, <1>5 DEF Inv, Undisturbed

\* One line of f was changed, removed or swapped with the next.
LEMMA AlteredFile ==
    ASSUME TypeOK, Altered
    PROVE  file' \in Seq(Line) /\ (Verifies(file) => ~Verifies(file'))
<1>1. file \in Seq(Line)
  BY DEF TypeOK, Line
<1>2. ASSUME Verifies(file) PROVE file \in Seq(Block)
  <2>1. \A n \in 1..Len(file) : file[n] \in Block
    BY <1>1, <1>2 DEF Verifies, Linked, Line
  <2>2. QED
    BY <1>1, <2>1
<1>3. ASSUME NEW n \in 1..Len(file), NEW event \in Event,
             file[n].payload \notin {event, NoEvent}, file' = WithPayload(n, event)
      PROVE  file' \in Seq(Line) /\ (Verifies(file) => ~Verifies(file'))
  <2>1. file[n] \in Block
    BY <1>1, <1>3 DEF Line, Malformed
  <2>2. [file[n] EXCEPT !.payload = event] \in Block
    BY <2>1 DEF Block
  <2>3. file' = [file EXCEPT ![n] = [file[n] EXCEPT !.payload = event]]
    BY <1>3 DEF WithPayload
  <2>4. file' \in Seq(Line) /\ Len(file') = Len(file)
        /\ file'[n] = [file[n] EXCEPT !.payload = event]
    BY <1>1, <2>2, <2>3 DEF Line
  <2>5. ASSUME Verifies(file) PROVE ~Linked(file', n)
    <3>1. file \in Seq(Block) /\ n <= Len(file') /\ event # file[n].payload
      BY <1>1, <1>2, <1>3, <2>4, <2>5
    <3>2. QED
      BY <2>4, <2>5, <3>1, AlteredIsSeen
  <2>6. QED
    BY <2>4, <2>5 DEF Verifies
<1>4. ASSUME NEW n \in 1..(Len(file) - 1), file' = Without(n)
      PROVE  file' \in Seq(Line) /\ (Verifies(file) => ~Verifies(file'))
  <2>1. file' \in Seq(Line) /\ Len(file') = Len(file) - 1 /\ file'[n] = file[n + 1]
    <3> DEFINE s == SubSeq(file, 1, n - 1)
               t == SubSeq(file, n + 1, Len(file))
    <3>1. s \in Seq(Line) /\ Len(s) = n - 1
      BY <1>1
    <3>2. t \in Seq(Line) /\ Len(t) = Len(file) - n /\ t[1] = file[n + 1]
      BY <1>1
    <3>3. file' = s \o t
      BY <1>4 DEF Without
    <3> HIDE DEF s, t
    <3>4. s \o t \in Seq(Line) /\ Len(s \o t) = Len(s) + Len(t)
      BY <3>1, <3>2
    <3>5. (s \o t)[n] = t[1]
      <4>1. n = Len(s) + 1 /\ n \in 1..(Len(s) + Len(t)) /\ n - Len(s) = 1
        BY <1>1, <3>1, <3>2
      <4> QED
        BY <3>1, <3>2, <4>1
    <3>6. QED
      BY <1>1, <3>1, <3>2, <3>3, <3>4, <3>5
  <2>2. ASSUME Verifies(file) PROVE ~Linked(file', n)
    <3>1. file \in Seq(Block) /\ n \in 1..Len(file) /\ n < Len(file) /\ n <= Len(file')
      BY <1>1, <1>2, <2>1, <2>2
    <3>2. QED
      BY <2>1, <2>2, <3>1, AlteredIsSeen
  <2>3. QED
    BY <2>1, <2>2 DEF Verifies
<1>5. ASSUME NEW n \in 1..(Len(file) - 1), file' = Swapped(n)
      PROVE  file' \in Seq(Line) /\ (Verifies(file) => ~Verifies(file'))
  <2>1. file' \in Seq(Line) /\ Len(file') = Len(file) /\ file'[n] = file[n + 1]
    BY <1>1, <1>5 DEF Swapped
  <2>2. ASSUME Verifies(file) PROVE ~Linked(file', n)
    <3>1. file \in Seq(Block) /\ n \in 1..Len(file) /\ n < Len(file) /\ n <= Len(file')
      BY <1>1, <1>2, <2>1, <2>2
    <3>2. QED
      BY <2>1, <2>2, <3>1, AlteredIsSeen
  <2>3. QED
    BY <2>1, <2>2 DEF Verifies
<1>6. QED
  BY <1>3, <1>4, <1>5 DEF Altered

LEMMA AlteredStep ==
    ASSUME Inv, Altered
    PROVE  Inv'
<1>1. file' \in Seq(Line) /\ (Verifies(file) => ~Verifies(file'))
  BY AlteredFile DEF Inv
<1>2. harm' \in {"altered", "altered broken"} /\ (harm' = "altered" => Verifies(file))
  BY DEF Altered
<1>3. TypeOK'
  BY <1>1, <1>2 DEF Altered, memory, Inv, TypeOK, Line
<1>4. QED
  BY <1>1, <1>2, <1>3 DEF Inv, Undisturbed

\* A changed timestamp changes neither what the file shows nor what verify_chain says.
LEMMA RedatedFile ==
    ASSUME TypeOK, Redated
    PROVE  /\ file' \in Seq(Line) /\ Len(file') = Len(file)
           /\ \A k \in 1..Len(file) : /\ file[k] \in Block => file'[k] \in Block
                                       /\ file'[k].sig = file[k].sig
                                       /\ file'[k].index = file[k].index
           /\ Payloads(file') = Payloads(file)
           /\ PrevIn(file', Len(file') + 1) = PrevIn(file, Len(file) + 1)
           /\ Verifies(file') <=> Verifies(file)
<1>1. file \in Seq(Line)
  BY DEF TypeOK, Line
<1>2. PICK n \in 1..Len(file) :
        file[n] # Malformed /\ file' = [file EXCEPT ![n].time = "changed"]
  BY DEF Redated
<1>3. file[n] \in Block
  BY <1>1, <1>2 DEF Line
<1> DEFINE b == [file[n] EXCEPT !.time = "changed"]
<1>4. /\ b \in Block /\ b.index = file[n].index /\ b.prev = file[n].prev
      /\ b.sig = file[n].sig /\ b.payload = file[n].payload
  BY <1>3 DEF Block
<1>5. file' = [file EXCEPT ![n] = b]
  BY <1>2
<1> HIDE DEF b
<1>6. file' \in Seq(Line) /\ Len(file') = Len(file)
  BY <1>1, <1>4, <1>5 DEF Line
<1>7. ASSUME NEW k \in 1..Len(file)
      PROVE  /\ file[k] \in Block => file'[k] \in Block
             /\ file'[k] = Malformed <=> file[k] = Malformed
             /\ file'[k].index = file[k].index /\ file'[k].prev = file[k].prev
             /\ file'[k].sig = file[k].sig /\ file'[k].payload = file[k].payload
  <2>1. CASE k = n
    <3>1. file'[k] = b
      BY <1>1, <1>5, <2>1
    <3> QED
      BY <1>3, <1>4, <2>1, <3>1, BlockIsNotMalformed
  <2>2. CASE k # n
    <3>1. file'[k] = file[k]
      BY <1>1, <1>5, <2>2
    <3> QED
      BY <3>1
  <2> QED
    BY <2>1, <2>2
<1>8. Payloads(file') = Payloads(file)
  BY <1>6, <1>7 DEF Payloads
<1>9. ASSUME NEW k \in 1..(Len(file) + 1) PROVE PrevIn(file', k) = PrevIn(file, k)
  <2>1. k # 1 => k - 1 \in 1..Len(file)
    BY <1>1
  <2> QED
    BY <1>7, <2>1 DEF PrevIn
<1>10. ASSUME NEW k \in 1..Len(file) PROVE Linked(file', k) <=> Linked(file, k)
  <2>1. PrevIn(file', k) = PrevIn(file, k)
    BY <1>1, <1>9
  <2> QED
    BY <1>7, <2>1 DEF Linked
<1>11. Verifies(file') <=> Verifies(file)
  BY <1>6, <1>10 DEF Verifies
<1>12. PrevIn(file', Len(file') + 1) = PrevIn(file, Len(file) + 1)
  BY <1>1, <1>6, <1>9
<1> QED
  BY <1>6, <1>7, <1>8, <1>11, <1>12

LEMMA RedatedStep ==
    ASSUME Inv, Redated
    PROVE  Inv'
<1>1. /\ file' \in Seq(Line) /\ Len(file') = Len(file)
      /\ Payloads(file') = Payloads(file) /\ (Verifies(file') <=> Verifies(file))
      /\ PrevIn(file', Len(file') + 1) = PrevIn(file, Len(file) + 1)
      /\ \A k \in 1..Len(file) : file[k] \in Block => file'[k] \in Block
  <2>1. TypeOK
    BY DEF Inv
  <2> QED
    BY <2>1, RedatedFile
<1>2. TypeOK'
  BY <1>1 DEF Redated, memory, Inv, TypeOK, Line
<1>3. ASSUME file \in Seq(Block) PROVE file' \in Seq(Block)
  <2>1. \A k \in 1..Len(file') : file'[k] \in Block
    BY <1>1, <1>3
  <2> QED
    BY <1>1, <2>1
<1>4. UNCHANGED <<unterminated, memory, offered, sealed, writers, torn, harm>>
  BY DEF Redated
<1> QED
  BY <1>1, <1>2, <1>3, <1>4 DEF Inv, Undisturbed, AtTail, memory

LEMMA Invariance == Spec => []Inv
<1>1. Init => Inv
  <2> SUFFICES ASSUME Init PROVE Inv
    OBVIOUS
  <2>1. <<>> \in Seq(Block) /\ <<>> \in Seq(Block \cup {Malformed}) /\ <<>> \in Seq(Event)
    OBVIOUS
  <2>2. TypeOK
    BY <2>1 DEF Init, TypeOK, GENESIS_HASH, Hash
  <2>3. Payloads(<<>>) = <<>>
    <3>1. Payloads(<<>>) \in Seq(Event) /\ Len(Payloads(<<>>)) = 0
      BY PayloadsOf, <2>1
    <3>2. QED
      BY <3>1, EmptySeq
  <2>4. Verifies(file) /\ \A w \in Worker : AtTail(w)
    BY DEF Init, Verifies, AtTail, PrevIn
  <2>5. QED
    BY <2>1, <2>2, <2>3, <2>4 DEF Init, Inv
<1>2. Inv /\ [Next]_vars => Inv'
  <2> SUFFICES ASSUME Inv, [Next]_vars PROVE Inv'
    OBVIOUS
  <2>1. CASE UNCHANGED vars
    BY <2>1 DEF vars, audit, memory, Inv, Undisturbed, AtTail, TypeOK
  <2>2. CASE Next
    BY <2>2, AppendStep, FailureStep, TearStep, RestartStep, TailStep, AlteredStep, RedatedStep
       DEF Next
  <2>3. QED
    BY <2>1, <2>2
<1>3. QED
  BY <1>1, <1>2, PTL DEF Spec

\* Type correctness: the reading of a log with broken lines included, a worker always
\* resumes with a signature and a count.
THEOREM TypeCorrect == Spec => []TypeOK
<1>1. Inv => TypeOK
  BY DEF Inv
<1>2. QED
  BY <1>1, Invariance, PTL

\* While one worker writes, whole lines, and nobody touches the file, the chain
\* verifies, through failed writes and restarts.
THEOREM OneWriterKeepsChain == Spec => []ChainIntact
<1>1. Inv => ChainIntact
  BY DEF Inv, ChainIntact
<1>2. QED
  BY <1>1, Invariance, PTL

\* That worker always has the end of the file in hand.
THEOREM OneWriterResumes == Spec => []ResumesAtTail
<1>1. Inv => ResumesAtTail
  BY DEF Inv, ResumesAtTail, AtTail
<1>2. QED
  BY <1>1, Invariance, PTL

\* With any number of workers, the file is exactly what append_event has returned until
\* a write is torn or the file is touched.
THEOREM FileIsWhatWasReturned == Spec => []RecordsWhatItReturned
<1>1. Inv => RecordsWhatItReturned
  BY DEF Inv, RecordsWhatItReturned
<1>2. QED
  BY <1>1, Invariance, PTL

\* Once the payload of a line of a chain that verified was changed, or a line before the
\* last was removed or swapped, the chain never verifies again, whatever timestamps are
\* changed besides.
THEOREM AlterationStaysDetected == Spec => []AlterationIsDetected
<1>1. Inv => AlterationIsDetected
  BY DEF Inv, AlterationIsDetected
<1>2. QED
  BY <1>1, Invariance, PTL

-----------------------------------------------------------------------------
\* A sequence is Within another when it comes from it by leaving elements out.

LEMMA NothingWithin ==
    ASSUME NEW s, NEW t, Len(s) = 0
    PROVE  Within(s, t)
<1>1. 1..Len(s) = {} /\ 2..Len(s) = {}
  OBVIOUS
<1>2. [n \in 1..Len(s) |-> 1] \in [1..Len(s) -> 1..Len(t)]
  BY <1>1
<1> QED
  BY <1>1, <1>2 DEF Within

LEMMA WithinLonger ==
    ASSUME NEW s \in Seq(Event), NEW t \in Seq(Event), NEW x \in Event, Within(s, t)
    PROVE  Within(s, Append(t, x))
<1>1. PICK at \in [1..Len(s) -> 1..Len(t)] :
         /\ \A n \in 1..Len(s) : s[n] = t[at[n]]
         /\ \A n \in 2..Len(s) : at[n - 1] < at[n]
  BY DEF Within
<1>2. /\ Len(Append(t, x)) = Len(t) + 1 /\ Len(t) \in Nat
      /\ \A k \in 1..Len(t) : Append(t, x)[k] = t[k]
  OBVIOUS
<1>3. at \in [1..Len(s) -> 1..Len(Append(t, x))]
  BY <1>2
<1>4. \A n \in 1..Len(s) : s[n] = Append(t, x)[at[n]]
  BY <1>1, <1>2
<1> QED
  BY <1>1, <1>3, <1>4 DEF Within

LEMMA WithinBoth ==
    ASSUME NEW s \in Seq(Event), NEW t \in Seq(Event), NEW x \in Event, Within(s, t)
    PROVE  Within(Append(s, x), Append(t, x))
<1>1. PICK at \in [1..Len(s) -> 1..Len(t)] :
         /\ \A n \in 1..Len(s) : s[n] = t[at[n]]
         /\ \A n \in 2..Len(s) : at[n - 1] < at[n]
  BY DEF Within
<1> DEFINE u == Append(s, x)
           v == Append(t, x)
           to == [n \in 1..Len(u) |-> IF n <= Len(s) THEN at[n] ELSE Len(v)]
<1>2. /\ Len(u) = Len(s) + 1 /\ Len(s) \in Nat /\ u[Len(s) + 1] = x
      /\ \A n \in 1..Len(s) : u[n] = s[n]
  OBVIOUS
<1>3. /\ Len(v) = Len(t) + 1 /\ Len(t) \in Nat /\ v[Len(t) + 1] = x
      /\ \A n \in 1..Len(t) : v[n] = t[n]
  OBVIOUS
<1> HIDE DEF u, v
<1>4. to \in [1..Len(u) -> 1..Len(v)]
  BY <1>2, <1>3
<1>5. (\A n \in 1..Len(s) : to[n] = at[n]) /\ to[Len(u)] = Len(v)
  <2>1. Len(u) \in 1..Len(u) /\ ~(Len(u) <= Len(s))
    BY <1>2
  <2>2. ASSUME NEW n \in 1..Len(s) PROVE n \in 1..Len(u) /\ n <= Len(s)
    BY <1>2
  <2>3. \A n \in 1..Len(u) : to[n] = IF n <= Len(s) THEN at[n] ELSE Len(v)
    OBVIOUS
  <2> HIDE DEF to
  <2> QED
    BY <2>1, <2>2, <2>3
<1> HIDE DEF to
<1>6. \A n \in 1..Len(u) : u[n] = v[to[n]]
  <2> TAKE n \in 1..Len(u)
  <2>1. CASE n = Len(u)
    BY <1>2, <1>3, <1>5, <2>1
  <2>2. CASE n # Len(u)
    <3>1. n \in 1..Len(s)
      BY <1>2, <2>2
    <3>2. u[n] = s[n] /\ s[n] = t[at[n]] /\ at[n] \in 1..Len(t)
      BY <1>1, <1>2, <3>1
    <3>3. v[at[n]] = t[at[n]] /\ to[n] = at[n]
      BY <1>3, <1>5, <3>1, <3>2
    <3> QED
      BY <3>2, <3>3
  <2> QED
    BY <2>1, <2>2
<1>7. \A n \in 2..Len(u) : to[n - 1] < to[n]
  <2> TAKE n \in 2..Len(u)
  <2>1. n - 1 \in 1..Len(s) /\ to[n - 1] = at[n - 1] /\ at[n - 1] \in 1..Len(t)
    <3>1. n - 1 \in 1..Len(s)
      BY <1>2
    <3> QED
      BY <1>1, <1>5, <3>1
  <2>2. CASE n = Len(u)
    BY <1>3, <1>5, <2>1, <2>2
  <2>3. CASE n # Len(u)
    <3>1. n \in 2..Len(s) /\ n \in 1..Len(s)
      BY <1>2, <2>3
    <3> QED
      BY <1>1, <1>5, <2>1, <3>1
  <2> QED
    BY <2>2, <2>3
<1> QED
  BY <1>4, <1>6, <1>7 DEF Within, u, v

\* In a file that verifies a signature is made of the payloads up to its block: the
\* first that were not would follow one that is.
LEMMA SignaturesSpell ==
    ASSUME NEW f \in Seq(Block), Verifies(f)
    PROVE  \A n \in 1..Len(f) :
               /\ f[n].sig \in Seq(Event) /\ Len(f[n].sig) = n
               /\ \A k \in 1..n : f[n].sig[k] = f[k].payload
<1> DEFINE Spells(n) == /\ f[n].sig \in Seq(Event) /\ Len(f[n].sig) = n
                        /\ \A k \in 1..n : f[n].sig[k] = f[k].payload
           bad == {n \in Nat : n \in 1..Len(f) /\ ~Spells(n)}
           less == OpToRel(<, Nat)
<1>1. CASE bad = {}
  BY <1>1
<1>2. CASE bad # {}
  <2>1. \A a, b \in Nat : b < a => <<b, a>> \in less
    BY DEF OpToRel
  <2>2. IsWellFoundedOn(less, Nat)
    BY NatLessThanWellFounded
  <2>3. bad \subseteq Nat
    OBVIOUS
  <2>4. PICK n \in bad : \A m \in bad : ~ (<<m, n>> \in less)
    <3> HIDE DEF bad, less
    <3> QED
      BY <1>2, <2>2, <2>3, WFMin
  <2>5. n \in 1..Len(f) /\ ~Spells(n)
    OBVIOUS
  <2>6. \A m \in 1..Len(f) : m < n => Spells(m)
    <3> SUFFICES ASSUME NEW m \in 1..Len(f), m < n, ~Spells(m) PROVE FALSE
      OBVIOUS
    <3>1. m \in bad
      OBVIOUS
    <3> HIDE DEF bad, less
    <3> QED
      BY <2>1, <2>3, <2>4, <3>1
  <2>7. /\ f[n] \in Block /\ f[n].prev \in Seq(Event) /\ f[n].payload \in Event
        /\ f[n].prev = PrevIn(f, n) /\ f[n].sig = Append(f[n].prev, f[n].payload)
    BY <2>5, BlockAt DEF Verifies, Linked, Signature
  <2> HIDE DEF bad, less
  <2>8. CASE n = 1
    <3>1. Len(f[n].prev) = 0
      BY <2>7, <2>8 DEF PrevIn, GENESIS_HASH
    <3>2. /\ f[n].sig \in Seq(Event) /\ Len(f[n].sig) = 1 /\ f[n].sig[1] = f[n].payload
      BY <2>7, <3>1
    <3> QED
      BY <2>5, <2>8, <3>2
  <2>9. CASE n # 1
    <3>1. n - 1 \in 1..Len(f) /\ n - 1 < n /\ f[n].prev = f[n - 1].sig
      BY <2>5, <2>7, <2>9 DEF PrevIn
    <3>2. Len(f[n].prev) = n - 1 /\ \A k \in 1..(n - 1) : f[n].prev[k] = f[k].payload
      BY <2>6, <3>1
    <3>3. /\ f[n].sig \in Seq(Event) /\ Len(f[n].sig) = n /\ f[n].sig[n] = f[n].payload
          /\ \A k \in 1..(n - 1) : f[n].sig[k] = f[n].prev[k]
      BY <2>5, <2>7, <3>2
    <3>4. \A k \in 1..n : f[n].sig[k] = f[k].payload
      BY <2>5, <3>2, <3>3
    <3> QED
      BY <2>5, <3>3, <3>4
  <2> QED
    BY <2>8, <2>9
<1> QED
  BY <1>1, <1>2

-----------------------------------------------------------------------------
(* What the file shows and what happened.  Every signature, in the file or  *)
(* in the hand of a worker, is made of events that were offered, in their   *)
(* order: no step but append_event makes a new one, of an old one and of    *)
(* the event it is called with.                                             *)

Traced ==
    /\ \A n \in 1..Len(file) : Within(file[n].sig, offered)
    /\ \A w \in Worker : Within(lastHash[w], offered)

LEMMA SignatureTypes ==
    ASSUME TypeOK
    PROVE  /\ file \in Seq(Line) /\ \A n \in 1..Len(file) : file[n].sig \in Seq(Event)
           /\ \A w \in Worker : lastHash[w] \in Seq(Event)
           /\ offered \in Seq(Event) /\ Len(Malformed.sig) = 0 /\ Malformed.sig \in Seq(Event)
<1>1. Malformed.sig = <<>> /\ <<>> \in Seq(Event) /\ Len(<<>>) = 0
  BY EmptySeq DEF Malformed, GENESIS_HASH
<1>2. \A b \in Block : b.sig \in Seq(Event)
  BY DEF Block, Hash
<1>3. file \in Seq(Line)
  BY DEF TypeOK, Line
<1>4. \A n \in 1..Len(file) : file[n] \in Line
  BY <1>3
<1>5. \A n \in 1..Len(file) : file[n].sig \in Seq(Event)
  BY <1>1, <1>2, <1>4 DEF Line
<1>6. (\A w \in Worker : lastHash[w] \in Seq(Event)) /\ offered \in Seq(Event)
  BY DEF TypeOK, Hash
<1> QED
  BY <1>1, <1>3, <1>5, <1>6

\* Each line after writing is an old one, the new one, or no block.
LEMMA WrittenLines ==
    ASSUME NEW line, file \in Seq(Line), line \in Line
    PROVE  \A n \in 1..Len(Written(line)) :
               \/ n \in 1..Len(file) /\ Written(line)[n] = file[n]
               \/ Written(line)[n] \in {line, Malformed}
<1>1. CASE unterminated
  <2>1. Written(line) = [file EXCEPT ![Len(file)] = Malformed]
    BY <1>1 DEF Written
  <2> QED
    BY <2>1
<1>2. CASE ~unterminated
  <2>1. Written(line) = Append(file, line)
    BY <1>2 DEF Written
  <2> QED
    BY <2>1
<1> QED
  BY <1>1, <1>2

\* A call of append_event offers one event more; what is written is an old signature
\* or that of the new block.
LEMMA CalledTraced ==
    ASSUME Inv, Traced, NEW w \in Worker, NEW event \in Event, Called(event),
           \/ file' = file
           \/ \E line \in {Malformed, NextBlock(w, event)} : file' = Written(line)
    PROVE  /\ \A n \in 1..Len(file') : Within(file'[n].sig, offered')
           /\ \A v \in Worker : Within(lastHash[v], offered')
           /\ Within(NextBlock(w, event).sig, offered')
<1>1. /\ file \in Seq(Line) /\ \A n \in 1..Len(file) : file[n].sig \in Seq(Event)
      /\ \A v \in Worker : lastHash[v] \in Seq(Event)
      /\ offered \in Seq(Event) /\ Len(Malformed.sig) = 0
  BY SignatureTypes DEF Inv
<1>2. offered' = Append(offered, event)
  BY DEF Called
<1>3. /\ \A n \in 1..Len(file) : Within(file[n].sig, offered')
      /\ \A v \in Worker : Within(lastHash[v], offered')
  BY <1>1, <1>2, WithinLonger DEF Traced
<1>4. /\ Within(NextBlock(w, event).sig, offered') /\ NextBlock(w, event) \in Line
      /\ Within(Malformed.sig, offered') /\ Malformed \in Line
  <2>1. NextBlock(w, event).sig = Append(lastHash[w], event)
    BY DEF NextBlock, Signature
  <2>2. Within(Append(lastHash[w], event), offered')
    BY <1>1, <1>2, WithinBoth DEF Traced
  <2>3. Within(Malformed.sig, offered')
    BY <1>1, NothingWithin
  <2> QED
    BY <2>1, <2>2, <2>3, NextBlockType DEF Inv, Line
<1>5. \A n \in 1..Len(file') : \/ n \in 1..Len(file) /\ file'[n] = file[n]
                               \/ file'[n] \in {NextBlock(w, event), Malformed}
  BY <1>1, <1>4, WrittenLines
<1> QED
  BY <1>3, <1>4, <1>5

LEMMA CallsTraced ==
    ASSUME Inv, Traced, NEW w \in Worker, NEW event \in Event,
           AppendEvent(w, event) \/ AppendFails(w, event) \/ AppendTears(w, event)
    PROVE  Traced'
<1>1. CASE AppendEvent(w, event)
  <2>1. /\ Called(event) /\ file' = Written(NextBlock(w, event))
        /\ lastHash' = [lastHash EXCEPT ![w] = NextBlock(w, event).sig]
        /\ lastHash \in [Worker -> Hash]
    BY <1>1 DEF AppendEvent, Inv, TypeOK
  <2> QED
    BY <2>1, CalledTraced DEF Traced
<1>2. CASE AppendFails(w, event) \/ AppendTears(w, event)
  <2>1. /\ Called(event) /\ lastHash' = lastHash
        /\ file' = file \/ \E line \in {Malformed, NextBlock(w, event)} : file' = Written(line)
    BY <1>2 DEF AppendFails, AppendTears, MemoryAfterFailure, audit, memory
  <2> QED
    BY <2>1, CalledTraced DEF Traced
<1> QED
  BY <1>1, <1>2

\* What a worker reads when it starts is nothing or a signature of the file.
LEMMA ReadTraced ==
    ASSUME NEW f \in Seq(Line), NEW t, \A n \in 1..Len(f) : Within(f[n].sig, t)
    PROVE  Within(HashIn(f), t)
<1>1. CASE Readable(f) = 0
  BY <1>1, NothingWithin DEF HashIn, GENESIS_HASH
<1>2. CASE Readable(f) # 0
  <2>1. Readable(f) \in 0..Len(f)
    BY ReadableEnds
  <2> QED
    BY <1>2, <2>1 DEF HashIn
<1> QED
  BY <1>1, <1>2

LEMMA RestartTraced ==
    ASSUME Inv, Traced, (\E w \in Worker : Restart(w)) \/ TailLost
    PROVE  Traced'
<1>1. file \in Seq(Line)
  BY SignatureTypes DEF Inv
<1>2. CASE \E w \in Worker : Restart(w)
  <2>1. PICK w \in Worker : Restart(w)
    BY <1>2
  <2>2. Within(HashIn(file), offered)
    BY <1>1, ReadTraced DEF Traced
  <2>3. /\ file' = file /\ offered' = offered
        /\ lastHash' = [lastHash EXCEPT ![w] = HashIn(file)]
        /\ lastHash \in [Worker -> Hash]
    BY <2>1 DEF Restart, audit, Inv, TypeOK
  <2> QED
    BY <2>2, <2>3 DEF Traced
<1>3. CASE TailLost
  <2>1. PICK n \in 0..(Len(file) - 1) :
          /\ file' = SubSeq(file, 1, n)
          /\ lastHash' = [w \in Worker |-> HashIn(SubSeq(file, 1, n))]
    BY <1>3 DEF TailLost
  <2>2. /\ file' \in Seq(Line) /\ offered' = offered
        /\ \A k \in 1..Len(file') : k \in 1..Len(file) /\ file'[k] = file[k]
    BY <1>1, <1>3, <2>1 DEF TailLost
  <2>3. \A k \in 1..Len(file') : Within(file'[k].sig, offered')
    BY <2>2 DEF Traced
  <2>4. Within(HashIn(file'), offered')
    BY <2>2, <2>3, ReadTraced
  <2> QED
    BY <2>1, <2>3, <2>4 DEF Traced
<1> QED
  BY <1>2, <1>3

\* An alteration makes no signature.
LEMMA AlteredTraced ==
    ASSUME Inv, Traced, Altered
    PROVE  Traced'
<1>1. file \in Seq(Line) /\ lastHash' = lastHash /\ offered' = offered
  BY SignatureTypes DEF Inv, Altered, memory
<1>2. \A k \in 1..Len(file') : \E m \in 1..Len(file) : file'[k].sig = file[m].sig
  <2>1. ASSUME NEW n \in 1..Len(file), NEW event \in Event, file' = WithPayload(n, event)
        PROVE  \A k \in 1..Len(file') : \E m \in 1..Len(file) : file'[k].sig = file[m].sig
    <3>1. file' = [file EXCEPT ![n] = [file[n] EXCEPT !.payload = event]]
      BY <2>1 DEF WithPayload
    <3>2. Len(file') = Len(file) /\ \A k \in 1..Len(file) \ {n} : file'[k] = file[k]
      BY <1>1, <3>1
    <3>3. file'[n] = [file[n] EXCEPT !.payload = event] /\ file[n] \in Line
      BY <1>1, <3>1
    <3>4. file'[n].sig = file[n].sig
      BY <3>3 DEF Line, Block, Malformed
    <3> QED
      BY <3>2, <3>4
  <2>2. ASSUME NEW n \in 1..(Len(file) - 1), file' = Without(n)
        PROVE  \A k \in 1..Len(file') : \E m \in 1..Len(file) : file'[k].sig = file[m].sig
    <3> DEFINE s == SubSeq(file, 1, n - 1)
               t == SubSeq(file, n + 1, Len(file))
    <3>1. s \in Seq(Line) /\ Len(s) = n - 1 /\ \A k \in 1..(n - 1) : s[k] = file[k]
      BY <1>1
    <3>2. /\ t \in Seq(Line) /\ Len(t) = Len(file) - n
          /\ \A k \in 1..(Len(file) - n) : t[k] = file[n + k]
      BY <1>1
    <3>3. file' = s \o t
      BY <2>2 DEF Without
    <3> HIDE DEF s, t
    <3>4. /\ Len(s \o t) = Len(file) - 1
          /\ \A k \in 1..(n - 1) : (s \o t)[k] = s[k]
          /\ \A k \in n..(Len(file) - 1) : (s \o t)[k] = t[k - (n - 1)]
      <4>1. /\ Len(s \o t) = Len(s) + Len(t)
            /\ \A k \in 1..(Len(s) + Len(t)) :
                 (s \o t)[k] = IF k <= Len(s) THEN s[k] ELSE t[k - Len(s)]
        BY <3>1, <3>2, ConcatProperties
      <4>2. Len(file) \in Nat /\ n \in 1..(Len(file) - 1)
        BY <1>1
      <4>3. Len(s) = n - 1 /\ Len(t) = Len(file) - n
        BY <3>1, <3>2
      <4>4. ASSUME NEW k \in 1..(n - 1) PROVE (s \o t)[k] = s[k]
        BY <4>1, <4>2, <4>3
      <4>5. ASSUME NEW k \in n..(Len(file) - 1) PROVE (s \o t)[k] = t[k - (n - 1)]
        <5>1. k \in 1..(Len(s) + Len(t)) /\ ~(k <= Len(s))
          BY <4>2, <4>3
        <5> QED
          BY <4>1, <4>3, <5>1
      <4> QED
        BY <4>1, <4>2, <4>3, <4>4, <4>5
    <3>5. /\ \A k \in 1..(n - 1) : file'[k] = file[k]
          /\ \A k \in n..(Len(file) - 1) : file'[k] = file[k + 1]
      <4>1. ASSUME NEW k \in 1..(n - 1) PROVE file'[k] = file[k]
        BY <3>1, <3>3, <3>4
      <4>2. ASSUME NEW k \in n..(Len(file) - 1) PROVE file'[k] = file[k + 1]
        <5>1. Len(file) \in Nat
          BY <1>1
        <5>2. k - (n - 1) \in 1..(Len(file) - n) /\ n + (k - (n - 1)) = k + 1
          BY <5>1
        <5>3. t[k - (n - 1)] = file[n + (k - (n - 1))]
          BY <3>2, <5>2
        <5> QED
          BY <3>3, <3>4, <5>2, <5>3
      <4> QED
        BY <4>1, <4>2
    <3>6. Len(file') = Len(file) - 1 /\ Len(file) \in Nat
      BY <1>1, <3>3, <3>4
    <3>7. \A k \in 1..(Len(file) - 1) :
            \/ k \in 1..Len(file) /\ file'[k] = file[k]
            \/ k + 1 \in 1..Len(file) /\ file'[k] = file[k + 1]
      BY <3>5, <3>6
    <3> QED
      BY <3>6, <3>7
  <2>3. ASSUME NEW n \in 1..(Len(file) - 1), file' = Swapped(n)
        PROVE  \A k \in 1..Len(file') : \E m \in 1..Len(file) : file'[k].sig = file[m].sig
    <3>1. /\ Len(file') = Len(file) /\ file'[n] = file[n + 1] /\ file'[n + 1] = file[n]
          /\ \A k \in 1..Len(file) \ {n, n + 1} : file'[k] = file[k]
      BY <1>1, <2>3 DEF Swapped
    <3> QED
      BY <1>1, <3>1
  <2> QED
    BY <2>1, <2>2, <2>3 DEF Altered
<1> QED
  BY <1>1, <1>2 DEF Traced

LEMMA RedatedTraced ==
    ASSUME Inv, Traced, Redated
    PROVE  Traced'
<1>1. /\ Len(file') = Len(file)
      /\ \A k \in 1..Len(file) : file'[k].sig = file[k].sig
      /\ lastHash' = lastHash /\ offered' = offered
  BY RedatedFile DEF Inv, Redated, memory
<1> QED
  BY <1>1 DEF Traced

LEMMA AlwaysTraced == Spec => [](Inv /\ Traced)
<1>1. Init => Traced
  BY NothingWithin DEF Init, Traced, GENESIS_HASH
<1>2. Inv /\ Traced /\ [Next]_vars => Traced'
  <2> SUFFICES ASSUME Inv, Traced, [Next]_vars PROVE Traced'
    OBVIOUS
  <2>1. CASE UNCHANGED vars
    BY <2>1 DEF vars, audit, memory, Traced
  <2>2. CASE Next
    BY <2>2, CallsTraced, RestartTraced, AlteredTraced, RedatedTraced DEF Next
  <2> QED
    BY <2>1, <2>2
<1> QED
  BY <1>1, <1>2, Invariance, PTL DEF Spec

\* A file that verifies shows payloads that were logged, in their order, for any number of
\* workers, whatever failed, was torn, lost or altered (verify_chain against
\* append_event).
THEOREM NothingInvented == Spec => []WhatVerifiesHappened
<1>1. Inv /\ Traced => WhatVerifiesHappened
  <2> SUFFICES ASSUME Inv, Traced, Verifies(file)
               PROVE  Within(Payloads(file), offered)
    BY DEF WhatVerifiesHappened
  <2>1. file \in Seq(Block)
    <3>1. file \in Seq(Line)
      BY SignatureTypes DEF Inv
    <3>2. \A n \in 1..Len(file) : file[n] \in Block
      BY <3>1 DEF Verifies, Linked, Line
    <3> QED
      BY <3>1, <3>2
  <2>2. Payloads(file) \in Seq(Event) /\ Len(Payloads(file)) = Len(file)
    BY <2>1, PayloadsOf
  <2>3. CASE Len(file) = 0
    BY <2>2, <2>3, NothingWithin
  <2>4. CASE Len(file) # 0
    <3>1. Len(file) \in 1..Len(file)
      BY <2>1, <2>4
    <3>2. /\ file[Len(file)].sig \in Seq(Event) /\ Len(file[Len(file)].sig) = Len(file)
          /\ \A k \in 1..Len(file) : file[Len(file)].sig[k] = file[k].payload
      BY <2>1, <3>1, SignaturesSpell
    <3>3. \A k \in 1..Len(file) : Payloads(file)[k] = file[k].payload
      BY DEF Payloads
    <3>4. file[Len(file)].sig = Payloads(file)
      BY <2>2, <3>2, <3>3
    <3> QED
      BY <3>1, <3>4 DEF Traced
  <2> QED
    BY <2>3, <2>4
<1> QED
  BY <1>1, AlwaysTraced, PTL

-----------------------------------------------------------------------------
\* Refinement: every step is one of the tamper-evident log or changes nothing in it.

\* A file that verifies is blocks only.
LEMMA VerifiedIsBlocks ==
    ASSUME NEW f \in Seq(Line), Verifies(f)
    PROVE  f \in Seq(Block)
<1>1. \A n \in 1..Len(f) : f[n] \in Block
  BY DEF Verifies, Linked, Line
<1> QED
  BY <1>1

LEMMA PayloadsOfLines ==
    ASSUME NEW f \in Seq(Line)
    PROVE  /\ Payloads(f) \in Seq(Event \cup {NoEvent}) /\ Len(Payloads(f)) = Len(f)
           /\ \A n \in 1..Len(f) : Payloads(f)[n] = f[n].payload
<1>1. ASSUME NEW n \in 1..Len(f) PROVE f[n].payload \in Event \cup {NoEvent}
  <2>1. f[n] \in Block \/ f[n] = Malformed
    BY DEF Line
  <2> QED
    BY <2>1 DEF Block, Malformed
<1>2. Len(f) \in Nat
  OBVIOUS
<1> QED
  BY <1>1, <1>2 DEF Payloads

\* The beginning of a file shows the beginning of what the file shows, and verifies
\* if the file does.
LEMMA Beginning ==
    ASSUME NEW f \in Seq(Line), NEW n \in 0..Len(f)
    PROVE  /\ SubSeq(f, 1, n) \in Seq(Line)
           /\ Payloads(SubSeq(f, 1, n)) = SubSeq(Payloads(f), 1, n)
           /\ Verifies(f) => Verifies(SubSeq(f, 1, n))
<1> DEFINE g == SubSeq(f, 1, n)
<1>1. g \in Seq(Line) /\ Len(g) = n /\ \A k \in 1..n : g[k] = f[k]
  OBVIOUS
<1>2. n \in Nat /\ \A k \in 1..n : k \in 1..Len(f)
  OBVIOUS
<1> HIDE DEF g
<1>3. Payloads(g) = SubSeq(Payloads(f), 1, n)
  <2> DEFINE s == SubSeq(Payloads(f), 1, n)
  <2>1. s \in Seq(Event \cup {NoEvent}) /\ Len(s) = n /\ \A k \in 1..n : s[k] = Payloads(f)[k]
    BY PayloadsOfLines
  <2>2. /\ Payloads(g) \in Seq(Event \cup {NoEvent}) /\ Len(Payloads(g)) = n
        /\ \A k \in 1..n : Payloads(g)[k] = g[k].payload
    BY <1>1, PayloadsOfLines
  <2>3. \A k \in 1..n : Payloads(f)[k] = f[k].payload
    BY <1>2, PayloadsOfLines
  <2> HIDE DEF s
  <2>4. \A k \in 1..n : s[k] = Payloads(g)[k]
    BY <1>1, <2>1, <2>2, <2>3
  <2> QED
    BY <2>1, <2>2, <2>4 DEF s
<1>4. ASSUME Verifies(f), NEW k \in 1..n PROVE Linked(g, k)
  <2>1. Linked(f, k) /\ g[k] = f[k]
    BY <1>1, <1>2, <1>4 DEF Verifies
  <2>2. k # 1 => g[k - 1] = f[k - 1]
    BY <1>1, <1>2
  <2>3. PrevIn(g, k) = PrevIn(f, k)
    BY <2>2 DEF PrevIn
  <2> QED
    BY <2>1, <2>3 DEF Linked
<1>5. Verifies(f) => Verifies(g)
  BY <1>1, <1>4 DEF Verifies
<1> QED
  BY <1>1, <1>3, <1>5 DEF g

\* A line that is written adds its event, or breaks the file, or changes nothing.
LEMMA WritingOffers ==
    ASSUME Inv, NEW w \in Worker, NEW event \in Event, Called(event),
           NEW line \in {Malformed, NextBlock(w, event)}, file' = Written(line)
    PROVE  Log!Offer(event)
<1>1. /\ file \in Seq(Line) /\ line \in Line
      /\ NextBlock(w, event) \in Block /\ NextBlock(w, event).payload = event
  BY NextBlockType DEF Inv, TypeOK, Line
<1>2. file' \in Seq(Line) /\ (~Verifies(file) => ~Verifies(file'))
  BY <1>1, WrittenType DEF Inv
<1>3. offered' = Append(offered, event)
  BY DEF Called
<1>4. CASE ~Verifies(file')
  <2>1. Payloads(file') \in Seq(Event \cup {NoEvent})
    BY <1>2, PayloadsOfLines
  <2> QED
    BY <1>3, <1>4, <2>1 DEF Log!Offer
<1>5. CASE Verifies(file')
  <2>1. Verifies(file) /\ file \in Seq(Block) /\ file' \in Seq(Block)
    BY <1>1, <1>2, <1>5, VerifiedIsBlocks
  <2>2. CASE unterminated
    <3>1. file' = [file EXCEPT ![Len(file)] = Malformed]
      BY <2>2 DEF Written
    <3>2. Len(file) = 0
      <4> SUFFICES ASSUME Len(file) # 0 PROVE FALSE
        OBVIOUS
      <4>1. Len(file) \in 1..Len(file) /\ Len(file') = Len(file)
        BY <2>1, <3>1
      <4>2. file'[Len(file)] = Malformed
        BY <2>1, <3>1, <4>1
      <4> QED
        BY <1>5, <4>1, <4>2 DEF Verifies, Linked
    <3>3. file' = file
      BY <2>1, <3>1, <3>2
    <3>4. Payloads(file') = Payloads(file)
      BY <3>3
    <3> QED
      BY <1>3, <1>5, <2>1, <3>4 DEF Log!Offer
  <2>3. CASE ~unterminated
    <3>1. file' = Append(file, line)
      BY <2>3 DEF Written
    <3>2. line = NextBlock(w, event)
      <4> SUFFICES ASSUME line = Malformed PROVE FALSE
        OBVIOUS
      <4>1. Len(file) + 1 \in 1..Len(file') /\ file'[Len(file) + 1] = Malformed
        BY <1>1, <3>1
      <4> QED
        BY <1>5, <4>1 DEF Verifies, Linked
    <3>3. Payloads(file') = Append(Payloads(file), event)
      BY <1>1, <2>1, <3>1, <3>2, PayloadsAppend
    <3> QED
      BY <1>3, <1>5, <2>1, <3>3 DEF Log!Offer
  <2> QED
    BY <2>2, <2>3
<1> QED
  BY <1>4, <1>5

LEMMA StepOfLog ==
    ASSUME Inv, [Next]_vars
    PROVE  [Log!Next]_(Log!logVars)
<1>0. file \in Seq(Line)
  BY DEF Inv, TypeOK, Line
<1>1. ASSUME NEW w \in Worker, NEW event \in Event,
             AppendEvent(w, event) \/ AppendTears(w, event)
      PROVE  Log!Next
  <2>1. Called(event) /\ \E line \in {Malformed, NextBlock(w, event)} : file' = Written(line)
    BY <1>1 DEF AppendEvent, AppendTears
  <2>2. Log!Offer(event)
    BY <2>1, WritingOffers
  <2> QED
    BY <2>2 DEF Log!Next
<1>2. ASSUME NEW w \in Worker, NEW event \in Event, AppendFails(w, event)
      PROVE  Log!Next
  <2>1. file' = file /\ offered' = Append(offered, event)
    BY <1>2 DEF AppendFails, Called, audit
  <2>2. Log!Offer(event)
    BY <2>1 DEF Log!Offer
  <2> QED
    BY <2>2 DEF Log!Next
<1>3. ASSUME file' = file, offered' = offered PROVE UNCHANGED Log!logVars
  BY <1>3 DEF Log!logVars
<1>4. ASSUME NEW w \in Worker, Restart(w) PROVE UNCHANGED Log!logVars
  BY <1>3, <1>4 DEF Restart, audit
<1>5. CASE TailLost
  <2>1. PICK n \in 0..(Len(file) - 1) : file' = SubSeq(file, 1, n)
    BY <1>5 DEF TailLost
  <2>2. n \in 0..Len(file) /\ Len(Payloads(file)) = Len(file)
    BY <1>0, PayloadsOfLines
  <2>3. /\ Payloads(file') = SubSeq(Payloads(file), 1, n)
        /\ Verifies(file) => Verifies(file')
    BY <1>0, <2>1, <2>2, Beginning
  <2>4. offered' = offered
    BY <1>5 DEF TailLost
  <2>5. Verifies(file') \in BOOLEAN
    BY DEF Verifies
  <2>6. Log!LoseEnd
    BY <2>2, <2>3, <2>4, <2>5 DEF Log!LoseEnd
  <2> QED
    BY <2>6 DEF Log!Next
<1>6. CASE Altered
  <2>1. file' \in Seq(Line) /\ (Verifies(file) => ~Verifies(file')) /\ offered' = offered
    BY <1>6, AlteredFile DEF Inv, Altered
  <2>2. Payloads(file') \in Seq(Event \cup {NoEvent}) /\ Verifies(file') \in BOOLEAN
    BY <2>1, PayloadsOfLines DEF Verifies
  <2>3. Log!Tamper
    BY <2>1, <2>2 DEF Log!Tamper
  <2> QED
    BY <2>3 DEF Log!Next
<1>7. CASE Redated
  <2>1. /\ Payloads(file') = Payloads(file) /\ (Verifies(file') <=> Verifies(file))
        /\ offered' = offered
    BY <1>7, RedatedFile DEF Inv, Redated
  <2>2. Verifies(file') = Verifies(file)
    BY <2>1 DEF Verifies
  <2>3. UNCHANGED Log!logVars
    BY <2>1, <2>2 DEF Log!logVars
  <2> QED
    BY <2>3
<1>8. CASE UNCHANGED vars
  BY <1>3, <1>8 DEF vars, audit
<1> QED
  BY <1>1, <1>2, <1>4, <1>5, <1>6, <1>7, <1>8 DEF Next

\* compliance.py is a tamper-evident log: any number of workers, whatever writes fail or
\* are torn, whatever is lost and altered, and for any events.
THEOREM ChainIsALog == Spec => ImplementsLog
<1>1. Init => Log!Init
  <2> SUFFICES ASSUME Init PROVE Log!Init
    OBVIOUS
  <2>1. file = <<>> /\ offered = <<>> /\ <<>> \in Seq(Line) /\ Len(<<>>) = 0
    BY DEF Init
  <2>2. Len(Payloads(file)) = 0 /\ Payloads(file) \in Seq(Event \cup {NoEvent})
    BY <2>1, PayloadsOfLines
  <2>3. Payloads(file) = <<>> /\ Verifies(file)
    BY <2>1, <2>2, EmptySeq DEF Verifies
  <2> QED
    BY <2>1, <2>3 DEF Log!Init
<1> QED
  BY <1>1, StepOfLog, Invariance, PTL DEF Spec, ImplementsLog, Log!Spec
=============================================================================
