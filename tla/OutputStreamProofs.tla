-------------------------- MODULE OutputStreamProofs --------------------------
(***************************************************************************)
(* What the readers of the two streams of MCOutputStreams get, for every   *)
(* log, every cut into entries, every line limit, every schedule of the    *)
(* shell's call and every capacity of the queues.  The pushes of the loop  *)
(* make up the output without a gap; the queue, whose own invariant is     *)
(* reused here, carries them in order and loses none before it closes.     *)
(***************************************************************************)
EXTENDS MCOutputStreams, FiniteSetTheorems, SequenceTheorems, WellFoundedInduction, TLAPS

Q == INSTANCE AsyncQueueProofs WITH
    Producers <- {"loop", "flush"}, Calls <- {"reader"},
    MaxPushes <- MaxLog, call <- next

Pushes == text["loop"]

\* Where the text the loop has pushed ends.
Frontier == IF Pushes = <<>> THEN 0 ELSE Pushes[Len(Pushes)][2]

TextsMatch ==
    /\ \A p \in {"loop", "flush"} : Len(text[p]) = sent[p]
    /\ \A i \in 1..Len(Pushes) : Pushes[i][2] <= Len(log)

\* While no closing flush takes part, the queue carries the loop's pushes in
\* order, all of them until it closes.
InStep ==
    sent["flush"] = 0 =>
        /\ \A i \in 1..Len(Queue!Stream) : Queue!Stream[i] = <<"loop", i>>
        /\ Len(Queue!Stream) <= sent["loop"]
        /\ ~closed => Len(Queue!Stream) = IF producer["loop"] = "idle"
                                          THEN sent["loop"] ELSE sent["loop"] - 1

\* The pushes and what the loop still holds make up the log.
SplitWhole ==
    /\ loop = "lines" => mode = "lines" /\ part[2] = Len(log)
    /\ sent["flush"] = 0 =>
        /\ Gapless(Pushes)
        /\ mode = "raw" => /\ loop \in {"reading", "raw", "settling", "done"}
                           /\ Empty(buffer) /\ Frontier = Len(log)
        /\ mode = "lines" =>
            /\ loop # "raw"
            /\ loop = "reading" =>
                  /\ Frontier = buffer[1] /\ buffer[2] = Len(log)
                  /\ Newlines(buffer, log) = {} /\ Size(buffer) < MaxLineBuffer
            /\ loop = "lines" =>
                  /\ Frontier = part[1] /\ part[2] = Len(log)
                  /\ Size(part) < MaxLineBuffer + MaxEntry
            /\ loop = "long" => Frontier = part[2] /\ part[2] = Len(log)
            /\ loop = "flushing" => Frontier = Len(log)

\* Every push is a line, a part of a line too long, or the last of the log.
PushesAreLines ==
    sent["flush"] = 0 /\ mode = "lines" =>
        \A i \in 1..Len(Pushes) :
            /\ OneLine(Pushes[i])
            /\ \/ Newlines(Pushes[i], log) # {}
               \/ Size(Pushes[i]) >= MaxLineBuffer
               \/ call = "over" /\ loop \in {"flushing", "settling", "done"} /\ i = Len(Pushes)
            /\ Size(Pushes[i]) < MaxLineBuffer + MaxEntry

\* Who ended the stream, and what became of the call and the queue.
EndsAgree ==
    /\ isClosed /\ by = "nobody" => call = "over" /\ loop \in {"flushing", "settling", "done"}
    /\ by # "nobody" => isClosed
    /\ ending # "no" => by # "nobody"
    /\ sent["flush"] # 0 => by # "nobody"
    /\ ending = "flushing" => sent["flush"] # 0
    /\ producer["loop"] # "idle" => loop \in {"raw", "lines", "long", "flushing"}
    /\ loop \in {"flushing", "settling", "done"} => call = "over"
    /\ loop = "flushing" => isClosed
    /\ closed => isClosed
    /\ closed /\ by = "nobody" => loop \in {"settling", "done"}
    /\ error => closed /\ by = "nobody"
    /\ failure # "none" => error
    /\ lease = "discarded" => failure = "unavailable"

WholeAtEnd ==
    closed /\ ~error /\ by = "nobody" =>
        Frontier = Len(log) /\ Len(Queue!Stream) = sent["loop"]

IInv ==
    /\ TypeOK
    /\ TextsMatch
    /\ InStep
    /\ SplitWhole
    /\ PushesAreLines
    /\ EndsAgree
    /\ WholeAtEnd
    /\ Q!IInv

----------------------------------------------------------------------------
(* The queue with these producers and this reader.                          *)

LEMMA QueueAssumptions ==
    /\ Q!Cardinality({"loop", "flush"}) <= Capacity /\ Q!IsFiniteSet({"loop", "flush"})
    /\ Capacity \in Nat \ {0} /\ MaxLog \in Nat
<1>1. IsFiniteSet({"loop", "flush"}) /\ Cardinality({"loop", "flush"}) = 2
  <2>1. IsFiniteSet({"loop"}) /\ Cardinality({"loop"}) = 1
    BY FS_Singleton
  <2>2. {"loop", "flush"} = {"loop"} \cup {"flush"} /\ "flush" \notin {"loop"}
    OBVIOUS
  <2> QED BY <2>1, <2>2, FS_AddElement
<1>2. \A S : Q!Cardinality(S) = Cardinality(S) /\ Q!IsFiniteSet(S) = IsFiniteSet(S)
  BY DEF Cardinality, Q!Cardinality, IsFiniteSet, Q!IsFiniteSet
<1> QED BY <1>1, <1>2, LogAssumption

QueueSteps ==
    \/ \E p \in {"loop", "flush"} : Queue!Push(p) \/ Queue!Resume(p)
    \/ Queue!NextCall("reader")
    \/ \E failed \in BOOLEAN : Queue!End(failed)
    \/ UNCHANGED queueVars

\* The two names of the queue's operators mean the same.
LEMMA SameQueue ==
    /\ \A x : \A p \in {"loop", "flush"} : Queue!PushLoop(p, x) <=> Q!PushLoop(p, x)
    /\ \A p \in {"loop", "flush"} : (Queue!Push(p) <=> Q!Push(p)) /\ (Queue!Resume(p) <=> Q!Resume(p))
    /\ Queue!NextCall("reader") <=> Q!NextCall("reader")
    /\ \A failed \in BOOLEAN : Queue!End(failed) <=> Q!End(failed)
    /\ Queue!Stream = Q!Stream /\ Queue!Stream' = Q!Stream'
    /\ Queue!Full = Q!Full
<1>1. \A x : (Queue!Accept(x) <=> Q!Accept(x)) /\ (Queue!Refuse(x) <=> Q!Refuse(x))
  BY DEF Queue!Accept, Q!Accept, Queue!Refuse, Q!Refuse
<1>2. \A x : \A p \in {"loop", "flush"} : Queue!PushLoop(p, x) <=> Q!PushLoop(p, x)
  BY <1>1 DEF Queue!PushLoop, Q!PushLoop, Queue!Full, Q!Full
<1>3. \A p \in {"loop", "flush"} : (Queue!Push(p) <=> Q!Push(p)) /\ (Queue!Resume(p) <=> Q!Resume(p))
  BY <1>2 DEF Queue!Push, Q!Push, Queue!Resume, Q!Resume, Queue!Current, Q!Current
<1>4. Queue!NextCall("reader") <=> Q!NextCall("reader")
  BY DEF Queue!NextCall, Q!NextCall, Queue!NextTakes, Q!NextTakes, Queue!NextEnds, Q!NextEnds,
         Queue!NextWaits, Q!NextWaits
<1>5. \A failed \in BOOLEAN : Queue!End(failed) <=> Q!End(failed)
  BY DEF Queue!End, Q!End
<1> QED BY <1>2, <1>3, <1>4, <1>5 DEF Queue!Stream, Q!Stream, Queue!Full, Q!Full

LEMMA QueueInv == Q!IInv /\ QueueSteps => Q!IInv'
<1>1. QueueSteps => Q!Next \/ UNCHANGED Q!vars
  BY SameQueue DEF QueueSteps, Q!Next, Q!Close, Q!Fail, Q!vars, queueVars
<1> QED BY <1>1, QueueAssumptions, Q!NextInv

LEMMA QueueTypes == (Q!TypeOK <=> Queue!TypeOK) /\ (Q!TypeOK' <=> Queue!TypeOK')
BY DEF Q!TypeOK, Queue!TypeOK, Q!Items, Queue!Items

\* A push, begun or resumed: the item joins the stream, waits, or is refused
\* by a closed queue.
LEMMA PushLoopMoves ==
    ASSUME Q!IInv, NEW p \in {"loop", "flush"}, NEW n \in 1..MaxLog,
           Queue!PushLoop(p, <<p, n>>)
    PROVE  /\ \A q \in {"loop", "flush"} \ {p} : producer'[q] = producer[q]
           /\ \/ closed /\ Queue!Stream' = Queue!Stream
              \/ /\ ~closed /\ producer'[p] = "idle"
                 /\ Queue!Stream' = Append(Queue!Stream, <<p, n>>)
              \/ ~closed /\ producer'[p] # "idle" /\ Queue!Stream' = Queue!Stream
<1>1. Q!PushLoop(p, <<p, n>>)
  BY SameQueue
<1> QED BY <1>1, QueueAssumptions, Q!PushLoopMoves, SameQueue

\* A next() or the end of the queue leaves the stream and the pushes under way.
LEMMA OtherMoves ==
    ASSUME Q!IInv, Queue!NextCall("reader") \/ \E failed \in BOOLEAN : Queue!End(failed)
    PROVE  /\ Queue!Stream' = Queue!Stream /\ sent' = sent
           /\ \A q \in {"loop", "flush"} : producer'[q] = "idle" <=> producer[q] = "idle"
<1>1. (\E c \in {"reader"} : Q!NextCall(c)) \/ \E failed \in BOOLEAN : Q!End(failed)
  BY SameQueue
<1> QED BY <1>1, QueueAssumptions, Q!OtherMoves, SameQueue

LEMMA InStepNext == Q!IInv /\ InStep /\ QueueSteps => InStep'
<1>1. (InStep <=> Q!InStep("loop")) /\ (InStep' <=> Q!InStep("loop")')
  BY SameQueue DEF InStep, Q!InStep
<1>2. QueueSteps =>
         \/ \E q \in {"loop", "flush"} : Q!Push(q) \/ Q!Resume(q)
         \/ \E c \in {"reader"} : Q!NextCall(c)
         \/ \E failed \in BOOLEAN : Q!End(failed)
         \/ UNCHANGED Q!vars
  BY SameQueue DEF QueueSteps, queueVars, Q!vars
<1> QED BY <1>1, <1>2, QueueAssumptions, Q!InStepNext

\* A push resumed or an item taken begins no push.
LEMMA NoNewPush ==
    ASSUME Q!IInv,
           \/ UNCHANGED queueVars
           \/ \E p \in {"loop", "flush"} : Queue!Resume(p)
           \/ Queue!NextCall("reader")
    PROVE  /\ producer'["loop"] # "idle" => producer["loop"] # "idle"
           /\ UNCHANGED <<sent, closed, error>>
<1>1. ASSUME NEW p \in {"loop", "flush"}, Queue!Resume(p)
      PROVE  /\ producer'["loop"] # "idle" => producer["loop"] # "idle"
             /\ UNCHANGED <<sent, closed, error>>
  <2>1. \A q \in {"loop", "flush"} \ {p} : producer'[q] = producer[q]
    BY <1>1 DEF Queue!Resume, Queue!PushLoop, Q!IInv, Q!TypeOK
  <2> QED BY <1>1, <2>1 DEF Queue!Resume
<1>2. CASE Queue!NextCall("reader")
  <2>1. UNCHANGED <<closed, error>>
    BY <1>2 DEF Queue!NextCall, Queue!NextTakes, Queue!NextEnds, Queue!NextWaits
  <2> QED BY <1>2, <2>1, OtherMoves
<1>3. CASE UNCHANGED queueVars
  BY <1>3 DEF queueVars
<1> QED BY <1>1, <1>2, <1>3

\* A nonempty set of numbers has a least one.
LEMMA Least ==
    ASSUME NEW S \in SUBSET Nat, S # {}
    PROVE  \E i \in S : \A j \in S : i <= j
<1>1. IsWellFoundedOn(OpToRel(<, Nat), Nat)
  BY NatLessThanWellFounded
<1>2. PICK i \in S : \A j \in S : ~(<<j, i>> \in OpToRel(<, Nat))
  BY <1>1, WFMin
<1>3. ASSUME NEW j \in S PROVE i <= j
  <2>1. ~(j < i)
    BY <1>2 DEF OpToRel
  <2> QED BY <2>1
<1> QED BY <1>3

----------------------------------------------------------------------------
(* What the pieces of a step do to the pushes.                              *)

\* The log as it was, or with an entry behind it.
Grows(pieces) == \/ pieces = log
                 \/ \E entry \in Seq({"text", "newline"}) : pieces = log \o entry

LEMMA NewlinesStay ==
    ASSUME TypeOK, NEW pieces, Grows(pieces), NEW r \in Ranges, r[2] <= Len(log)
    PROVE  Newlines(r, pieces) = Newlines(r, log)
<1>1. r[1] \in Nat /\ r[2] \in Nat
  BY LogAssumption DEF Ranges
<1>2. \A i \in (r[1] + 1)..r[2] : pieces[i] = log[i]
  <2>1. CASE pieces = log
    BY <2>1
  <2>2. ASSUME NEW entry \in Seq({"text", "newline"}), pieces = log \o entry
        PROVE  \A i \in (r[1] + 1)..r[2] : pieces[i] = log[i]
    <3>1. log \in Seq({"text", "newline"})
      BY DEF TypeOK
    <3>2. Len(log) \in Nat
      BY <3>1, LenProperties
    <3>3. \A i \in 1..Len(log) : pieces[i] = log[i]
      BY <2>2, <3>1, ConcatProperties
    <3>4. (r[1] + 1)..r[2] \subseteq 1..Len(log)
      BY <1>1, <3>2
    <3> QED BY <3>3, <3>4
  <2> QED BY <2>1, <2>2 DEF Grows
<1> QED BY <1>2 DEF Newlines

\* A push records its range.
LEMMA PushText ==
    ASSUME IInv, NEW p \in {"loop", "flush"}, NEW r \in Ranges, Push(p, r)
    PROVE  /\ text' \in [{"loop", "flush"} -> Seq(Ranges)]
           /\ text'[p] = Append(text[p], r)
           /\ \A q \in {"loop", "flush"} \ {p} : text'[q] = text[q] /\ sent'[q] = sent[q]
           /\ sent'[p] = sent[p] + 1
           /\ \A q \in {"loop", "flush"} : Len(text'[q]) = sent'[q]
           /\ UNCHANGED <<closed, error>>
<1>1. /\ sent' = [sent EXCEPT ![p] = @ + 1] /\ UNCHANGED <<closed, error>>
      /\ text' = [text EXCEPT ![p] = Append(@, r)]
  BY DEF Push, Queue!Push
<1>2. text[p] \in Seq(Ranges) /\ Append(text[p], r) \in Seq(Ranges)
      /\ Len(Append(text[p], r)) = Len(text[p]) + 1
  BY AppendProperties DEF IInv, TypeOK
<1>3. sent \in [{"loop", "flush"} -> 0..MaxLog]
  BY DEF IInv, Q!IInv, Q!TypeOK
<1> QED BY <1>1, <1>2, <1>3 DEF IInv, TypeOK, TextsMatch

\* The loop's pushes go on where they ended.
LEMMA FrontierMoves ==
    ASSUME IInv, NEW r \in Ranges, Push("loop", r)
    PROVE  /\ Frontier' = r[2]
           /\ Len(Pushes) \in Nat /\ Len(Pushes') = Len(Pushes) + 1
           /\ Pushes'[Len(Pushes) + 1] = r
           /\ \A i \in 1..Len(Pushes) : Pushes'[i] = Pushes[i]
           /\ Gapless(Pushes) /\ r[1] = Frontier => Gapless(Pushes')
<1>1. Pushes \in Seq(Ranges) /\ Pushes' = Append(Pushes, r) /\ Len(Pushes) \in Nat
  BY PushText, LenProperties DEF IInv, TypeOK, Pushes
<1>2. /\ Len(Pushes') = Len(Pushes) + 1
      /\ Pushes'[Len(Pushes) + 1] = r
      /\ \A i \in 1..Len(Pushes) : Pushes'[i] = Pushes[i]
  BY <1>1, AppendProperties
<1>3. Pushes' # <<>>
  BY <1>1, <1>2, EmptySeq
<1>4. ASSUME Gapless(Pushes), r[1] = Frontier PROVE Gapless(Pushes')
  <2> SUFFICES ASSUME NEW i \in 1..(Len(Pushes) + 1)
               PROVE  Pushes'[i][1] = IF i = 1 THEN 0 ELSE Pushes'[i - 1][2]
    BY <1>2 DEF Gapless
  <2>1. CASE i \in 1..Len(Pushes)
    <3>1. i # 1 => i - 1 \in 1..Len(Pushes)
      BY <1>1, <2>1
    <3> QED BY <1>2, <1>4, <2>1, <3>1 DEF Gapless
  <2>2. CASE i = Len(Pushes) + 1 /\ i # 1
    <3>1. Pushes # <<>> /\ i - 1 = Len(Pushes) /\ Len(Pushes) \in 1..Len(Pushes)
      BY <1>1, <2>2, EmptySeq
    <3> QED BY <1>2, <1>4, <2>2, <3>1 DEF Frontier
  <2>3. CASE i = 1 /\ i = Len(Pushes) + 1
    <3>1. Pushes = <<>>
      BY <1>1, <2>3, EmptySeq
    <3> QED BY <1>2, <1>4, <2>3, <3>1 DEF Frontier
  <2> QED BY <1>1, <2>1, <2>2, <2>3
<1> QED BY <1>1, <1>2, <1>3, <1>4 DEF Frontier

LEMMA LinesKept ==
    ASSUME IInv, Pushes' = Pushes, Grows(log'), mode' = mode, sent'["flush"] = sent["flush"],
           call = "over" => call' = "over",
           loop \in {"flushing", "settling", "done"} => loop' \in {"flushing", "settling", "done"}
    PROVE  PushesAreLines'
<1> SUFFICES ASSUME sent["flush"] = 0, mode = "lines", NEW i \in 1..Len(Pushes)
             PROVE  /\ Newlines(Pushes[i], log') \subseteq {Pushes[i][2]}
                    /\ \/ Newlines(Pushes[i], log') # {}
                       \/ Size(Pushes[i]) >= MaxLineBuffer
                       \/ /\ call' = "over" /\ loop' \in {"flushing", "settling", "done"}
                          /\ i = Len(Pushes)
                    /\ Size(Pushes[i]) < MaxLineBuffer + MaxEntry
  BY DEF PushesAreLines, OneLine
<1>1. Pushes[i] \in Ranges /\ Pushes[i][2] <= Len(log)
  BY ElementOfSeq DEF IInv, TypeOK, TextsMatch, Pushes
<1>2. Newlines(Pushes[i], log') = Newlines(Pushes[i], log)
  BY <1>1, NewlinesStay DEF IInv
<1> QED BY <1>2 DEF IInv, PushesAreLines, OneLine

LEMMA LinesGrow ==
    ASSUME IInv, NEW r \in Ranges, Push("loop", r), Grows(log'), mode' = mode,
           loop \notin {"flushing", "settling", "done"},
           Newlines(r, log') \subseteq {r[2]},
           sent["flush"] = 0 /\ mode = "lines" => Size(r) < MaxLineBuffer + MaxEntry,
           \/ Newlines(r, log') # {}
           \/ Size(r) >= MaxLineBuffer
           \/ call' = "over" /\ loop' \in {"flushing", "settling", "done"}
    PROVE  PushesAreLines'
<1>1. sent'["flush"] = sent["flush"]
  BY PushText
<1> SUFFICES ASSUME sent["flush"] = 0, mode = "lines", NEW i \in 1..Len(Pushes')
             PROVE  /\ Newlines(Pushes'[i], log') \subseteq {Pushes'[i][2]}
                    /\ \/ Newlines(Pushes'[i], log') # {}
                       \/ Size(Pushes'[i]) >= MaxLineBuffer
                       \/ /\ call' = "over" /\ loop' \in {"flushing", "settling", "done"}
                          /\ i = Len(Pushes')
                    /\ Size(Pushes'[i]) < MaxLineBuffer + MaxEntry
  BY <1>1 DEF PushesAreLines, OneLine
<1>2. /\ Len(Pushes) \in Nat /\ Len(Pushes') = Len(Pushes) + 1
      /\ Pushes'[Len(Pushes) + 1] = r
      /\ \A j \in 1..Len(Pushes) : Pushes'[j] = Pushes[j]
  BY FrontierMoves
<1>3. CASE i = Len(Pushes) + 1
  BY <1>2, <1>3
<1>4. CASE i \in 1..Len(Pushes)
  <2>1. Pushes[i] \in Ranges /\ Pushes[i][2] <= Len(log) /\ Pushes'[i] = Pushes[i]
    BY <1>2, <1>4, ElementOfSeq DEF IInv, TypeOK, TextsMatch, Pushes
  <2>2. Newlines(Pushes[i], log') = Newlines(Pushes[i], log)
    BY <2>1, NewlinesStay DEF IInv
  <2> QED BY <1>4, <2>1, <2>2 DEF IInv, PushesAreLines, OneLine
<1> QED BY <1>2, <1>3, <1>4

\* A step that closes nothing and pushes nothing leaves an ended stream whole.
LEMMA WholeKept ==
    ASSUME IInv, UNCHANGED <<by, text, log>>,
           \/ UNCHANGED queueVars
           \/ \E p \in {"loop", "flush"} : Queue!Resume(p)
           \/ Queue!NextCall("reader")
    PROVE  WholeAtEnd'
<1> SUFFICES ASSUME closed', ~error', by = "nobody"
             PROVE  Frontier = Len(log) /\ Len(Queue!Stream') = sent'["loop"]
  BY DEF WholeAtEnd, Frontier, Pushes
<1>1. CASE UNCHANGED queueVars
  BY <1>1 DEF queueVars, IInv, WholeAtEnd, Queue!Stream
<1>2. ASSUME NEW p \in {"loop", "flush"}, Queue!Resume(p)
      PROVE  Frontier = Len(log) /\ Len(Queue!Stream') = sent'["loop"]
  <2>1. UNCHANGED <<closed, error, sent>> /\ Queue!PushLoop(p, <<p, sent[p]>>)
    BY <1>2 DEF Queue!Resume, Queue!Current
  <2>2. sent[p] \in 1..MaxLog
    BY <1>2, LogAssumption DEF Queue!Resume, IInv, Q!IInv, Q!PendingSent, Q!TypeOK
  <2>3. PICK n \in 1..MaxLog : n = sent[p]
    BY <2>2
  <2>4. Queue!Stream' = Queue!Stream
    BY <2>1, <2>3, PushLoopMoves DEF IInv
  <2> QED BY <2>1, <2>4 DEF IInv, WholeAtEnd
<1>3. CASE Queue!NextCall("reader")
  <2>1. UNCHANGED <<closed, error>>
    BY <1>3 DEF Queue!NextCall, Queue!NextTakes, Queue!NextEnds, Queue!NextWaits
  <2>2. Queue!Stream' = Queue!Stream /\ sent' = sent
    BY <1>3, OtherMoves DEF IInv
  <2> QED BY <2>1, <2>2 DEF IInv, WholeAtEnd
<1> QED BY <1>1, <1>2, <1>3

\* Every step leaves the queue alone or is one of its steps.
LEMMA StepsOfQueue == [Next]_vars => QueueSteps
<1> USE DEF QueueSteps
<1>1. NoPush => QueueSteps
  BY DEF NoPush
<1>2. CloseQueue \/ FailQueue => QueueSteps
  BY DEF CloseQueue, FailQueue, Queue!Close, Queue!Fail
<1>3. ASSUME NEW p \in {"loop", "flush"}, NEW r, Push(p, r) PROVE QueueSteps
  BY <1>3 DEF Push
<1>4. LoopContinues => QueueSteps
  BY <1>1, <1>2, <1>3 DEF LoopContinues, RawPushed, LinePushed, LongPushed, Flushed, Settle, PushLines
<1>5. ReceiveData => QueueSteps
  BY <1>1, <1>3 DEF ReceiveData, PushLines
<1>6. StreamFails \/ StreamEnds => QueueSteps
  BY <1>1, <1>2, <1>3 DEF StreamFails, StreamEnds
<1>7. EndContinues \/ SignalAborts => QueueSteps
  BY <1>1, <1>2, <1>3 DEF EndContinues, CancelEnds, CloseFlushes, CloseEnds, SignalAborts
<1>8. (\E who \in {"reader", "other"} : Cancel(who) \/ Close(who)) => QueueSteps
  BY <1>1 DEF Cancel, Close, EndBegins
<1>9. (\E p \in {"loop", "flush"} : Resume(p)) \/ Read => QueueSteps
  BY DEF Resume, Read
<1>10. UNCHANGED vars => QueueSteps
  BY DEF vars
<1> QED BY <1>4, <1>5, <1>6, <1>7, <1>8, <1>9, <1>10 DEF Next

\* What is left to show of a step, the queue apart.
LEMMA Assembled ==
    ASSUME IInv, QueueSteps,
           mode' \in {"lines", "raw"}, call' \in {"open", "aborted", "over"},
           log' \in Seq({"text", "newline"}), Len(log') <= MaxLog,
           loop' \in {"reading", "raw", "lines", "long", "flushing", "settling", "done"},
           buffer' \in Ranges, part' \in Ranges, isClosed' \in BOOLEAN,
           by' \in {"nobody", "reader", "other"},
           ending' \in {"no", "cancelling", "closing", "flushing", "done"},
           failure' \in {"none", "unavailable", "other"},
           lease' \in {"held", "released", "discarded"},
           text' \in [{"loop", "flush"} -> Seq(Ranges)],
           TextsMatch', SplitWhole', PushesAreLines', EndsAgree', WholeAtEnd'
    PROVE  IInv'
<1>1. Q!IInv' /\ Queue!TypeOK'
  <2>1. Q!IInv'
    BY QueueInv DEF IInv
  <2> QED BY <2>1, QueueTypes DEF Q!IInv
<1>2. InStep'
  BY InStepNext DEF IInv
<1> QED BY <1>1, <1>2 DEF IInv, TypeOK

\* One round of the loop that splits the text.
LEMMA PushLinesInv ==
    ASSUME IInv, NEW r \in Ranges, NEW b \in Ranges, Grows(log'),
           log' \in Seq({"text", "newline"}), Len(log') <= MaxLog,
           mode = "lines", loop \in {"reading", "lines"}, r[2] = Len(log'),
           producer["loop"] = "idle",
           sent["flush"] = 0 => r[1] = Frontier /\ Size(r) < MaxLineBuffer + MaxEntry,
           PushLines(r, log', b),
           UNCHANGED <<mode, by, ending, lease, call, isClosed, failure>>,
           log' = log \/ ~isClosed
    PROVE  IInv'
<1> DEFINE ends == Newlines(r, log')
           first == CHOOSE i \in ends : \A j \in ends : i <= j
<1>1. /\ r[1] \in 0..MaxLog /\ r[2] \in 0..MaxLog /\ r[1] <= r[2]
      /\ ends \in SUBSET ((r[1] + 1)..r[2])
  BY DEF Ranges, Newlines
<1>2. QueueSteps
  BY DEF PushLines, Push, NoPush, QueueSteps
<1>3. Len(log) <= Len(log')
  BY ConcatProperties, LenProperties DEF Grows, IInv, TypeOK
<1>4. text["loop"] \in Seq(Ranges) /\ Len(log) \in Nat /\ Len(log') \in Nat
      /\ \A i \in 1..Len(Pushes) : Pushes[i] \in Ranges /\ Pushes[i][2] <= Len(log)
  BY LenProperties, ElementOfSeq DEF IInv, TypeOK, Pushes, TextsMatch
\* A push within the text.
<1>5. ASSUME NEW q \in Ranges, Push("loop", q), q[2] <= Len(log'), loop' \in {"lines", "long"}
      PROVE  /\ TextsMatch' /\ EndsAgree' /\ WholeAtEnd'
             /\ text' \in [{"loop", "flush"} -> Seq(Ranges)]
             /\ sent'["flush"] = sent["flush"]
  <2>1. sent'["flush"] = sent["flush"] /\ UNCHANGED <<closed, error>>
        /\ text' \in [{"loop", "flush"} -> Seq(Ranges)]
        /\ \A p \in {"loop", "flush"} : Len(text'[p]) = sent'[p]
    BY <1>5, PushText
  <2>2. /\ Len(Pushes') = Len(Pushes) + 1 /\ Len(Pushes) \in Nat
        /\ Pushes'[Len(Pushes) + 1] = q
        /\ \A i \in 1..Len(Pushes) : Pushes'[i] = Pushes[i]
    BY <1>5, FrontierMoves
  <2>3. TextsMatch'
    <3> SUFFICES ASSUME NEW i \in 1..Len(Pushes') PROVE Pushes'[i][2] <= Len(log')
      BY <2>1 DEF TextsMatch
    <3>1. i = Len(Pushes) + 1 \/ i \in 1..Len(Pushes)
      BY <2>2
    <3>2. ASSUME i \in 1..Len(Pushes) PROVE Pushes'[i][2] <= Len(log')
      <4>1. Pushes[i][2] \in Nat /\ Pushes[i][2] <= Len(log)
        BY <1>4, <3>2 DEF Ranges
      <4> QED BY <1>3, <1>4, <2>2, <3>2, <4>1
    <3> QED BY <1>5, <2>2, <3>1, <3>2
  <2>5. EndsAgree'
    BY <1>5, <2>1 DEF IInv, EndsAgree
  <2>6. WholeAtEnd'
    BY <2>1 DEF IInv, EndsAgree, WholeAtEnd
  <2> QED BY <2>1, <2>3, <2>5, <2>6
<1>6. CASE /\ ends # {}
           /\ Push("loop", <<r[1], first>>)
           /\ part' = <<first, r[2]>>
           /\ buffer' = b
           /\ loop' = "lines"
  <2>1. first \in ends /\ \A j \in ends : first <= j
    <3>1. ends \in SUBSET Nat
      BY <1>1, LogAssumption
    <3>2. \E i \in ends : \A j \in ends : i <= j
      BY <1>6, <3>1, Least
    <3> QED BY <3>2
  <2> HIDE DEF first
  <2>2. PICK q \in Ranges : q = <<r[1], first>>
    <3>1. r[1] \in Nat /\ first \in (r[1] + 1)..r[2] /\ first \in 0..MaxLog /\ r[1] <= first
      BY <1>1, <2>1, LogAssumption
    <3> QED BY <1>1, <3>1 DEF Ranges
  <2>3. part' \in Ranges /\ q[1] = r[1] /\ q[2] = first /\ part'[1] = first /\ part'[2] = r[2]
        /\ first \in (r[1] + 1)..r[2]
    BY <1>1, <1>6, <2>1, <2>2 DEF Ranges
  <2>4. Push("loop", q) /\ q[2] <= Len(log')
    BY <1>1, <1>6, <2>2, <2>3
  <2>5. Newlines(q, log') = {q[2]}
    BY <1>1, <2>1, <2>3 DEF Newlines
  <2>6. PushesAreLines'
    <3>1. sent["flush"] = 0 => Size(q) < MaxLineBuffer + MaxEntry
      BY <1>1, <2>3, LogAssumption DEF Size
    <3> QED BY <2>4, <2>5, <3>1, LinesGrow
  <2>7. SplitWhole'
    <3>1. Frontier' = q[2] /\ (Gapless(Pushes) /\ q[1] = Frontier => Gapless(Pushes'))
      BY <2>4, FrontierMoves
    <3>2. sent["flush"] = 0 => Gapless(Pushes')
      BY <2>3, <3>1 DEF IInv, SplitWhole
    <3>3. sent["flush"] = 0 => Size(part') < MaxLineBuffer + MaxEntry
      BY <1>1, <2>3, LogAssumption DEF Size
    <3>4. sent'["flush"] = sent["flush"]
      BY <1>5, <1>6, <2>4
    <3> QED BY <1>6, <2>3, <3>1, <3>2, <3>3, <3>4 DEF SplitWhole
  <2> QED BY <1>2, <1>5, <1>6, <2>3, <2>4, <2>6, <2>7, Assembled DEF IInv, TypeOK
<1>7. CASE /\ ends = {} /\ Size(r) >= MaxLineBuffer
           /\ Push("loop", r)
           /\ part' = r /\ buffer' = r /\ loop' = "long"
  <2>1. PushesAreLines'
    BY <1>7, LinesGrow
  <2>2. Frontier' = r[2] /\ (Gapless(Pushes) /\ r[1] = Frontier => Gapless(Pushes'))
    BY <1>7, FrontierMoves
  <2>3. sent'["flush"] = sent["flush"] /\ TextsMatch' /\ EndsAgree' /\ WholeAtEnd'
        /\ text' \in [{"loop", "flush"} -> Seq(Ranges)]
    BY <1>1, <1>5, <1>7
  <2>4. SplitWhole'
    BY <1>7, <2>2, <2>3 DEF IInv, SplitWhole
  <2> QED BY <1>2, <1>7, <2>1, <2>3, <2>4, Assembled DEF IInv, TypeOK
<1>8. CASE /\ ends = {} /\ Size(r) < MaxLineBuffer
           /\ NoPush
           /\ part' = r /\ buffer' = r /\ loop' = "reading"
  <2>1. UNCHANGED <<text, sent, closed, error, producer>> /\ Queue!Stream' = Queue!Stream
    BY <1>8 DEF NoPush, queueVars, Queue!Stream
  <2>2. Pushes' = Pushes /\ Frontier' = Frontier
    BY <2>1 DEF Pushes, Frontier
  <2>3. TextsMatch'
    <3>1. \A i \in 1..Len(Pushes) : Pushes[i][2] <= Len(log')
      BY <1>3, <1>4 DEF Ranges
    <3> QED BY <2>1, <2>2, <3>1 DEF IInv, TextsMatch
  <2>4. PushesAreLines'
    BY <2>1, <2>2, LinesKept
  <2>5. SplitWhole'
    BY <1>8, <2>1, <2>2 DEF IInv, SplitWhole
  <2>6. EndsAgree' /\ WholeAtEnd'
    BY <1>8, <2>1 DEF IInv, EndsAgree, WholeAtEnd
  <2> QED BY <1>2, <1>8, <2>1, <2>3, <2>4, <2>5, <2>6, Assembled DEF IInv, TypeOK
<1> QED BY <1>6, <1>7, <1>8 DEF PushLines

----------------------------------------------------------------------------
(* The invariant is inductive.                                              *)

LEMMA InitInv == Init => IInv
<1> SUFFICES ASSUME Init PROVE IInv
  OBVIOUS
<1> USE DEF Init
<1>1. Q!IInv
  <2>1. Q!Init
    BY DEF Q!Init, Queue!Init
  <2> QED BY <2>1, Q!InitInv, QueueAssumptions
<1>2. TypeOK
  <2>1. <<0, 0>> \in Ranges
    BY LogAssumption DEF Ranges
  <2>2. text \in [{"loop", "flush"} -> Seq(Ranges)]
    OBVIOUS
  <2>3. Queue!TypeOK
    BY <1>1, QueueTypes DEF Q!IInv
  <2>4. log \in Seq({"text", "newline"}) /\ Len(log) <= MaxLog
    BY LogAssumption
  <2> QED BY <2>1, <2>2, <2>3, <2>4 DEF TypeOK
<1>3. /\ Pushes = <<>> /\ Frontier = 0 /\ Len(Pushes) = 0
      /\ sent = [p \in {"loop", "flush"} |-> 0] /\ producer["loop"] = "idle"
      /\ closed = FALSE /\ error = FALSE
  BY DEF Pushes, Frontier, Queue!Init
<1>4. Len(Queue!Stream) = 0
  BY ConcatProperties DEF Queue!Init, Queue!Stream
<1>5. TextsMatch /\ PushesAreLines
  BY <1>3 DEF TextsMatch, PushesAreLines
<1>6. InStep
  BY <1>3, <1>4 DEF InStep
<1>7. SplitWhole
  BY <1>3, LogAssumption DEF SplitWhole, Gapless, Empty, Size, Newlines
<1>8. EndsAgree /\ WholeAtEnd
  BY <1>3 DEF EndsAgree, WholeAtEnd
<1> QED BY <1>1, <1>2, <1>5, <1>6, <1>7, <1>8 DEF IInv

\* A step that pushes and reads nothing leaves the pushes what they are.
LEMMA PushesStay ==
    ASSUME IInv, UNCHANGED <<text, log, mode, sent>>,
           call = "over" => call' = "over",
           loop \in {"flushing", "settling", "done"} => loop' \in {"flushing", "settling", "done"}
    PROVE  TextsMatch' /\ PushesAreLines' /\ Pushes' = Pushes /\ Frontier' = Frontier
<1>1. Pushes' = Pushes /\ Frontier' = Frontier
  BY DEF Pushes, Frontier
<1>2. PushesAreLines'
  BY <1>1, LinesKept DEF Grows
<1> QED BY <1>1, <1>2 DEF IInv, TextsMatch

LEMMA ReceiveDataInv == ASSUME IInv, ReceiveData PROVE IInv'
<1> USE DEF ReceiveData, LoopOnly
<1>1. PICK n \in 1..MaxEntry : \E entry \in [1..n -> {"text", "newline"}] :
        /\ Len(log) + n <= MaxLog
        /\ \/ isClosed /\ NoPush /\ UNCHANGED <<lineVars, loop>>
           \/ /\ ~isClosed
              /\ log' = log \o entry
              /\ \/ /\ mode = "raw"
                    /\ Push("loop", <<Len(log), Len(log) + n>>)
                    /\ loop' = "raw"
                    /\ UNCHANGED <<buffer, part>>
                 \/ /\ mode = "lines"
                    /\ PushLines(<<buffer[1], Len(log) + n>>, log', <<buffer[1], Len(log) + n>>)
  OBVIOUS
<1>2. PICK entry \in [1..n -> {"text", "newline"}] :
        /\ Len(log) + n <= MaxLog
        /\ \/ isClosed /\ NoPush /\ UNCHANGED <<lineVars, loop>>
           \/ /\ ~isClosed
              /\ log' = log \o entry
              /\ \/ /\ mode = "raw"
                    /\ Push("loop", <<Len(log), Len(log) + n>>)
                    /\ loop' = "raw"
                    /\ UNCHANGED <<buffer, part>>
                 \/ /\ mode = "lines"
                    /\ PushLines(<<buffer[1], Len(log) + n>>, log', <<buffer[1], Len(log) + n>>)
  BY <1>1
<1>3. /\ loop = "reading" /\ call # "over"
      /\ UNCHANGED <<mode, by, ending, lease, call, isClosed, failure>>
  OBVIOUS
<1>4. /\ n \in Nat /\ 1 <= n /\ n <= MaxEntry /\ Len(log) \in Nat
      /\ entry \in Seq({"text", "newline"}) /\ Len(entry) = n
      /\ log \in Seq({"text", "newline"})
  BY LogAssumption, LenProperties DEF IInv, TypeOK
<1>5. CASE isClosed /\ NoPush /\ UNCHANGED <<lineVars, loop>>
  <2>1. UNCHANGED queueVars /\ UNCHANGED <<text, sent, log, buffer, part, closed, error, producer>>
    BY <1>5 DEF NoPush, queueVars, lineVars
  <2>2. TextsMatch' /\ PushesAreLines' /\ Pushes' = Pushes /\ Frontier' = Frontier
    BY <1>3, <1>5, <2>1, PushesStay
  <2>3. WholeAtEnd'
    BY <1>3, <2>1, WholeKept
  <2>4. SplitWhole' /\ EndsAgree'
    BY <1>3, <1>5, <2>1, <2>2 DEF IInv, SplitWhole, EndsAgree
  <2> QED BY <1>3, <1>5, <2>1, <2>2, <2>3, <2>4, Assembled DEF IInv, TypeOK, QueueSteps
<1>6. ASSUME ~isClosed, log' = log \o entry
      PROVE  /\ Len(log') = Len(log) + n /\ log' \in Seq({"text", "newline"}) /\ Grows(log')
  <2>1. Len(log') = Len(log) + n /\ log' \in Seq({"text", "newline"})
    <3>1. log \o entry \in Seq({"text", "newline"}) /\ Len(log \o entry) = Len(log) + Len(entry)
      <4>1. PICK T : T = {"text", "newline"}
        OBVIOUS
      <4>2. log \in Seq(T) /\ entry \in Seq(T)
        BY <1>4, <4>1
      <4> QED BY <4>1, <4>2, ConcatProperties
    <3> QED BY <1>4, <1>6, <3>1
  <2>2. Grows(log')
    BY <1>4, <1>6 DEF Grows
  <2> QED BY <2>1, <2>2
<1>7. CASE /\ ~isClosed /\ log' = log \o entry /\ mode = "raw"
           /\ Push("loop", <<Len(log), Len(log) + n>>)
           /\ loop' = "raw"
           /\ UNCHANGED <<buffer, part>>
  <2>1. PICK r \in Ranges : r = <<Len(log), Len(log) + n>> /\ Push("loop", r)
    <3>1. Len(log) \in 0..MaxLog /\ Len(log) + n \in 0..MaxLog /\ Len(log) <= Len(log) + n
      BY <1>2, <1>4, LogAssumption
    <3> QED BY <1>7, <3>1 DEF Ranges
  <2>2. /\ text' \in [{"loop", "flush"} -> Seq(Ranges)]
        /\ sent'["flush"] = sent["flush"]
        /\ \A q \in {"loop", "flush"} : Len(text'[q]) = sent'[q]
        /\ UNCHANGED <<closed, error>>
    BY <2>1, PushText
  <2>3. /\ Frontier' = r[2] /\ Len(Pushes) \in Nat /\ Len(Pushes') = Len(Pushes) + 1
        /\ Pushes'[Len(Pushes) + 1] = r
        /\ \A i \in 1..Len(Pushes) : Pushes'[i] = Pushes[i]
        /\ Gapless(Pushes) /\ r[1] = Frontier => Gapless(Pushes')
    BY <2>1, FrontierMoves
  <2>4. TextsMatch'
    <3> SUFFICES ASSUME NEW i \in 1..Len(Pushes') PROVE Pushes'[i][2] <= Len(log')
      BY <2>2 DEF TextsMatch
    <3>1. CASE i = Len(Pushes) + 1
      BY <1>4, <1>6, <1>7, <2>1, <2>3, <3>1
    <3>2. CASE i \in 1..Len(Pushes)
      <4>1. Pushes[i] \in Ranges /\ Pushes[i][2] <= Len(log)
        BY <3>2, ElementOfSeq DEF IInv, TypeOK, TextsMatch, Pushes
      <4>2. Pushes[i][2] \in Nat
        BY <4>1, LogAssumption DEF Ranges
      <4> QED BY <1>4, <1>6, <1>7, <2>3, <3>2, <4>1, <4>2
    <3> QED BY <2>3, <3>1, <3>2
  <2>5. PushesAreLines'
    BY <1>3, <1>7 DEF PushesAreLines
  <2>6. SplitWhole'
    BY <1>3, <1>6, <1>7, <2>1, <2>2, <2>3 DEF IInv, SplitWhole
  <2>7. EndsAgree' /\ WholeAtEnd'
    BY <1>3, <1>7, <2>2 DEF IInv, EndsAgree, WholeAtEnd
  <2>8. QueueSteps
    BY <1>7 DEF Push, QueueSteps
  <2> QED BY <1>2, <1>3, <1>6, <1>7, <2>2, <2>4, <2>5, <2>6, <2>7, <2>8, Assembled DEF IInv, TypeOK
<1>8. CASE /\ ~isClosed /\ log' = log \o entry /\ mode = "lines"
           /\ PushLines(<<buffer[1], Len(log) + n>>, log', <<buffer[1], Len(log) + n>>)
  <2>1. buffer[1] \in Nat /\ buffer[2] \in Nat /\ buffer[1] <= buffer[2]
        /\ buffer[2] <= Len(log) /\ buffer[1] \in 0..MaxLog
    <3>1. sent["flush"] = 0
      BY <1>8 DEF IInv, EndsAgree
    <3>2. buffer[2] = Len(log)
      BY <1>3, <1>8, <3>1 DEF IInv, SplitWhole
    <3> QED BY <3>2, LogAssumption DEF IInv, TypeOK, Ranges
  <2>2. PICK r \in Ranges : r = <<buffer[1], Len(log) + n>> /\ PushLines(r, log', r)
    <3>1. Len(log) + n \in 0..MaxLog /\ buffer[1] <= Len(log) + n
      BY <1>2, <1>4, <2>1, LogAssumption
    <3> QED BY <1>8, <2>1, <3>1 DEF Ranges
  <2>3. r[1] = buffer[1] /\ r[2] = Len(log')
    BY <1>6, <1>8, <2>2
  <2>4. sent["flush"] = 0 => r[1] = Frontier /\ Size(r) < MaxLineBuffer + MaxEntry
    BY <1>3, <1>4, <1>8, <2>1, <2>2, LogAssumption DEF IInv, SplitWhole, Size
  <2>5. producer["loop"] = "idle"
    BY <1>3 DEF IInv, EndsAgree
  <2> QED BY <1>2, <1>3, <1>6, <1>8, <2>2, <2>3, <2>4, <2>5, PushLinesInv
<1> QED BY <1>2, <1>5, <1>7, <1>8
\* close() or fail() of the queue: the pushes stay, and the first one decides.
LEMMA EndMoves ==
    ASSUME IInv, CloseQueue \/ FailQueue
    PROVE  /\ UNCHANGED <<text, sent>> /\ Queue!Stream' = Queue!Stream
           /\ closed'
           /\ producer'["loop"] # "idle" => producer["loop"] # "idle"
           /\ closed => error' = error
           /\ ~closed => error' = FailQueue /\ ~error
<1>1. CASE closed
  BY <1>1 DEF CloseQueue, FailQueue, queueVars, Queue!Stream
<1>2. CASE ~closed
  <2>1. PICK failed \in BOOLEAN : Queue!End(failed) /\ failed = FailQueue
    BY <1>2 DEF CloseQueue, FailQueue, Queue!Close, Queue!Fail, Queue!End
  <2>2. closed' /\ error' = FailQueue /\ UNCHANGED text
    BY <2>1, <1>2 DEF CloseQueue, FailQueue, Queue!End
  <2> QED BY <1>2, <2>1, <2>2, OtherMoves DEF IInv, EndsAgree
<1> QED BY <1>1, <1>2

LEMMA LoopPushedInv == ASSUME IInv, RawPushed \/ LongPushed PROVE IInv'
<1> USE DEF RawPushed, LongPushed, LoopOnly
<1>1. /\ UNCHANGED <<mode, by, ending, lease, call, isClosed, failure, log, part, text>>
      /\ UNCHANGED queueVars /\ UNCHANGED <<sent, closed, error, producer>>
      /\ loop \in {"raw", "long"} /\ loop' = "reading" /\ producer["loop"] = "idle"
  BY DEF NoPush, queueVars, lineVars, Pushed
<1>2. TextsMatch' /\ PushesAreLines' /\ Pushes' = Pushes /\ Frontier' = Frontier
  BY <1>1, PushesStay
<1>3. WholeAtEnd'
  BY <1>1, WholeKept
<1>4. EndsAgree'
  BY <1>1 DEF IInv, EndsAgree
<1>5. buffer' \in Ranges /\ SplitWhole'
  <2>1. CASE RawPushed
    <3>1. loop = "raw" /\ buffer' = buffer
      BY <2>1 DEF lineVars
    <3> QED BY <1>1, <1>2, <3>1 DEF IInv, TypeOK, SplitWhole
  <2>2. CASE LongPushed
    <3>1. /\ loop = "long" /\ buffer' = <<part[2], part[2]>> /\ part[2] \in 0..MaxLog
      BY <2>2 DEF IInv, TypeOK, Ranges
    <3>2. buffer' \in Ranges
      BY <3>1 DEF Ranges
    <3>3. Newlines(buffer', log') = {} /\ Size(buffer') < MaxLineBuffer
      BY <3>1, LogAssumption DEF Newlines, Size
    <3> QED BY <1>1, <1>2, <3>1, <3>2, <3>3 DEF IInv, SplitWhole
  <2> QED BY <2>1, <2>2
<1> QED BY <1>1, <1>2, <1>3, <1>4, <1>5, Assembled DEF IInv, TypeOK, QueueSteps

LEMMA LinePushedInv == ASSUME IInv, LinePushed PROVE IInv'
<1> USE DEF LinePushed, LoopOnly
<1>1. /\ UNCHANGED <<mode, by, ending, lease, call, isClosed, failure, log>>
      /\ loop = "lines" /\ mode = "lines" /\ part[2] = Len(log) /\ producer["loop"] = "idle"
      /\ PushLines(part, log', buffer)
  BY DEF Pushed, IInv, SplitWhole
<1>2. /\ part \in Ranges /\ buffer \in Ranges /\ Grows(log')
      /\ log' \in Seq({"text", "newline"}) /\ Len(log') <= MaxLog
  BY <1>1 DEF IInv, TypeOK, Grows
<1>3. sent["flush"] = 0 => part[1] = Frontier /\ Size(part) < MaxLineBuffer + MaxEntry
  BY <1>1 DEF IInv, SplitWhole
<1> QED BY <1>1, <1>2, <1>3, PushLinesInv

LEMMA StreamFailsInv == ASSUME IInv, StreamFails PROVE IInv'
<1> USE DEF StreamFails, LoopOnly
<1>1. /\ UNCHANGED <<mode, by, ending, lease, log, buffer, part>>
      /\ loop = "reading" /\ call # "over" /\ call' = "over" /\ loop' = "settling"
  BY DEF lineVars
<1>2. CASE callerAborted /\ NoPush /\ UNCHANGED <<isClosed, failure>>
  <2>1. UNCHANGED queueVars /\ UNCHANGED <<text, sent, closed, error, producer>>
    BY <1>2 DEF NoPush, queueVars
  <2>2. TextsMatch' /\ PushesAreLines' /\ Pushes' = Pushes /\ Frontier' = Frontier
    BY <1>1, <2>1, PushesStay
  <2>3. WholeAtEnd'
    BY <1>1, <2>1, WholeKept
  <2>4. EndsAgree' /\ SplitWhole'
    BY <1>1, <1>2, <2>1, <2>2 DEF IInv, EndsAgree, SplitWhole, callerAborted
  <2> QED BY <1>1, <1>2, <2>1, <2>2, <2>3, <2>4, Assembled DEF IInv, TypeOK, QueueSteps
<1>3. CASE /\ ~callerAborted
           /\ failure' \in {"other"} \cup IF call = "open" THEN {"unavailable"} ELSE {}
           /\ isClosed' = TRUE
           /\ FailQueue
  <2>1. by = "nobody" /\ ~closed /\ lease # "discarded"
    BY <1>1, <1>3 DEF callerAborted, IInv, EndsAgree
  <2>2. /\ UNCHANGED <<text, sent>> /\ closed' /\ error' /\ FailQueue
        /\ producer'["loop"] # "idle" => producer["loop"] # "idle"
    BY <1>3, <2>1, EndMoves
  <2>3. TextsMatch' /\ PushesAreLines' /\ Pushes' = Pushes /\ Frontier' = Frontier
    BY <1>1, <2>2, PushesStay
  <2>4. SplitWhole'
    BY <1>1, <2>2, <2>3 DEF IInv, SplitWhole
  <2>5. failure' \in {"none", "unavailable", "other"}
    BY <1>3
  <2>6. EndsAgree'
    BY <1>1, <1>3, <2>1, <2>2 DEF IInv, EndsAgree
  <2>7. WholeAtEnd'
    BY <2>2 DEF WholeAtEnd
  <2>8. QueueSteps
    BY StepsOfQueue DEF Next
  <2> QED BY <1>1, <1>3, <2>2, <2>3, <2>4, <2>5, <2>6, <2>7, <2>8, Assembled DEF IInv, TypeOK
<1> QED BY <1>2, <1>3

LEMMA StreamEndsInv == ASSUME IInv, StreamEnds PROVE IInv'
<1> USE DEF StreamEnds, LoopOnly
<1>1. /\ UNCHANGED <<mode, by, ending, lease, failure, log, buffer, part>>
      /\ loop = "reading" /\ call # "over" /\ call' = "over"
  BY DEF lineVars
<1>2. CASE isClosed /\ NoPush /\ loop' = "settling" /\ UNCHANGED isClosed
  <2>1. UNCHANGED queueVars /\ UNCHANGED <<text, sent, closed, error, producer>>
    BY <1>2 DEF NoPush, queueVars
  <2>2. TextsMatch' /\ PushesAreLines' /\ Pushes' = Pushes /\ Frontier' = Frontier
    BY <1>1, <2>1, PushesStay
  <2>3. WholeAtEnd'
    BY <1>1, <2>1, WholeKept
  <2>4. EndsAgree' /\ SplitWhole'
    BY <1>1, <1>2, <2>1, <2>2 DEF IInv, EndsAgree, SplitWhole
  <2> QED BY <1>1, <1>2, <2>1, <2>2, <2>3, <2>4, Assembled DEF IInv, TypeOK, QueueSteps
<1>3. ASSUME ~isClosed, isClosed' = TRUE
      PROVE  /\ ~closed /\ ~error /\ by = "nobody" /\ sent["flush"] = 0 /\ producer["loop"] = "idle"
             /\ failure = "none" /\ lease # "discarded" /\ ending = "no"
  BY <1>1, <1>3 DEF IInv, EndsAgree, TypeOK, Q!IInv, Q!TypeOK
<1>4. CASE ~isClosed /\ isClosed' = TRUE /\ Empty(buffer) /\ CloseQueue /\ loop' = "settling"
  <2>1. /\ ~closed /\ ~error /\ by = "nobody" /\ sent["flush"] = 0 /\ producer["loop"] = "idle"
        /\ failure = "none" /\ lease # "discarded" /\ ending = "no"
    BY <1>3, <1>4
  <2>2. /\ UNCHANGED <<text, sent>> /\ Queue!Stream' = Queue!Stream /\ closed'
        /\ producer'["loop"] = "idle"
    BY <1>4, <2>1, EndMoves
  <2>3. error' = FALSE
    BY <1>4, <2>1 DEF CloseQueue, Queue!Close, Queue!End
  <2>4. TextsMatch' /\ PushesAreLines' /\ Pushes' = Pushes /\ Frontier' = Frontier
    BY <1>1, <1>4, <2>2, PushesStay
  <2>5. SplitWhole' /\ EndsAgree'
    BY <1>1, <1>4, <2>1, <2>2, <2>3, <2>4 DEF IInv, SplitWhole, EndsAgree
  <2>6. Frontier = Len(log) /\ Len(Queue!Stream) = sent["loop"]
    BY <1>1, <1>4, <2>1 DEF IInv, TypeOK, SplitWhole, InStep, Empty
  <2>7. WholeAtEnd'
    BY <1>1, <2>2, <2>4, <2>6 DEF WholeAtEnd
  <2>8. QueueSteps
    BY StepsOfQueue DEF Next
  <2> QED BY <1>1, <1>4, <2>2, <2>4, <2>5, <2>7, <2>8, Assembled DEF IInv, TypeOK
<1>5. CASE ~isClosed /\ isClosed' = TRUE /\ ~Empty(buffer) /\ Push("loop", buffer) /\ loop' = "flushing"
  <2>1. /\ ~closed /\ ~error /\ by = "nobody" /\ sent["flush"] = 0 /\ producer["loop"] = "idle"
        /\ failure = "none" /\ lease # "discarded" /\ ending = "no"
    BY <1>3, <1>5
  <2>2. /\ mode = "lines" /\ Frontier = buffer[1] /\ buffer[2] = Len(log)
        /\ Newlines(buffer, log) = {} /\ Size(buffer) < MaxLineBuffer
        /\ buffer \in Ranges /\ Gapless(Pushes)
    BY <1>1, <1>5, <2>1 DEF IInv, SplitWhole, TypeOK
  <2>3. /\ text' \in [{"loop", "flush"} -> Seq(Ranges)]
        /\ sent'["flush"] = sent["flush"]
        /\ \A q \in {"loop", "flush"} : Len(text'[q]) = sent'[q]
        /\ UNCHANGED <<closed, error>>
    BY <1>5, <2>2, PushText
  <2>4. /\ Frontier' = buffer[2] /\ Len(Pushes) \in Nat /\ Len(Pushes') = Len(Pushes) + 1
        /\ Pushes'[Len(Pushes) + 1] = buffer
        /\ \A i \in 1..Len(Pushes) : Pushes'[i] = Pushes[i]
        /\ Gapless(Pushes')
    BY <1>5, <2>2, FrontierMoves
  <2>5. TextsMatch'
    <3> SUFFICES ASSUME NEW i \in 1..Len(Pushes') PROVE Pushes'[i][2] <= Len(log)
      BY <1>1, <2>3 DEF TextsMatch
    <3>1. buffer[2] <= Len(log)
      BY <2>2, LenProperties DEF IInv, TypeOK
    <3> QED BY <2>4, <3>1 DEF IInv, TextsMatch
  <2>6. PushesAreLines'
    <3>1. Size(buffer) < MaxLineBuffer + MaxEntry
      BY <2>2, LogAssumption DEF Ranges, Size
    <3> QED BY <1>1, <1>5, <2>2, <3>1, LinesGrow DEF Grows
  <2>7. SplitWhole' /\ EndsAgree' /\ WholeAtEnd'
    BY <1>1, <1>5, <2>1, <2>2, <2>3, <2>4 DEF IInv, SplitWhole, EndsAgree, WholeAtEnd
  <2>8. QueueSteps
    BY <1>5 DEF Push, QueueSteps
  <2> QED BY <1>1, <1>5, <2>3, <2>5, <2>6, <2>7, <2>8, Assembled DEF IInv, TypeOK
<1> QED BY <1>2, <1>4, <1>5

LEMMA FlushedInv == ASSUME IInv, Flushed PROVE IInv'
<1> USE DEF Flushed, LoopOnly
<1>1. /\ UNCHANGED <<mode, by, ending, lease, call, isClosed, failure, log, part>>
      /\ loop = "flushing" /\ loop' = "settling" /\ producer["loop"] = "idle"
      /\ call = "over" /\ isClosed
  BY DEF Pushed, IInv, EndsAgree
<1>2. /\ UNCHANGED <<text, sent>> /\ Queue!Stream' = Queue!Stream /\ closed'
      /\ producer'["loop"] = "idle"
  BY <1>1, EndMoves
<1>3. error' = IF closed THEN error ELSE FALSE
  BY DEF CloseQueue, queueVars, Queue!Close, Queue!End
<1>4. TextsMatch' /\ PushesAreLines' /\ Pushes' = Pushes /\ Frontier' = Frontier
  BY <1>1, <1>2, PushesStay
<1>5. buffer' \in Ranges
  BY DEF IInv, TypeOK, Ranges
<1>6. SplitWhole'
  BY <1>1, <1>2, <1>4 DEF IInv, TypeOK, SplitWhole
<1>7. EndsAgree'
  BY <1>1, <1>2, <1>3 DEF IInv, TypeOK, EndsAgree
<1>8. WholeAtEnd'
  <2> SUFFICES ASSUME by = "nobody" PROVE Frontier' = Len(log') /\ Len(Queue!Stream') = sent'["loop"]
    BY <1>1 DEF WholeAtEnd
  <2>1. ~closed /\ sent["flush"] = 0
    BY <1>1 DEF IInv, EndsAgree
  <2>2. Frontier = Len(log) /\ Len(Queue!Stream) = sent["loop"]
    BY <1>1, <2>1 DEF IInv, TypeOK, SplitWhole, InStep
  <2> QED BY <1>1, <1>2, <1>4, <2>2
<1>9. QueueSteps
  BY StepsOfQueue DEF Next, LoopContinues
<1> QED BY <1>1, <1>2, <1>4, <1>5, <1>6, <1>7, <1>8, <1>9, Assembled DEF IInv, TypeOK

LEMMA SettleInv == ASSUME IInv, Settle PROVE IInv'
<1> USE DEF Settle
<1>1. /\ UNCHANGED <<mode, by, ending, call, isClosed, failure, log, buffer, part>>
      /\ UNCHANGED queueVars /\ UNCHANGED <<text, sent, closed, error, producer>>
      /\ loop = "settling" /\ loop' = "done"
      /\ lease' = IF failure = "unavailable" THEN "discarded" ELSE "released"
  BY DEF NoPush, queueVars, lineVars
<1>2. TextsMatch' /\ PushesAreLines' /\ Pushes' = Pushes /\ Frontier' = Frontier
  BY <1>1, PushesStay
<1>3. WholeAtEnd'
  BY <1>1, WholeKept
<1>4. EndsAgree' /\ SplitWhole'
  BY <1>1, <1>2 DEF IInv, EndsAgree, SplitWhole
<1> QED BY <1>1, <1>2, <1>3, <1>4, Assembled DEF IInv, TypeOK, QueueSteps

LEMMA EndBeginsInv ==
    ASSUME IInv, NEW who \in {"reader", "other"}, NEW how \in {"cancelling", "closing"},
           EndBegins(who, how)
    PROVE  IInv'
<1> USE DEF EndBegins, UserOnly
<1>1. /\ UNCHANGED <<mode, failure, lease, loop, log, buffer, part>>
      /\ UNCHANGED queueVars /\ UNCHANGED <<text, sent, closed, error, producer>>
      /\ ~isClosed /\ isClosed' = TRUE /\ by' = who /\ ending' = how
      /\ call' = IF call = "open" THEN "aborted" ELSE call
  BY DEF NoPush, queueVars
<1>2. TextsMatch' /\ PushesAreLines' /\ Pushes' = Pushes /\ Frontier' = Frontier
  BY <1>1, PushesStay
<1>3. ~closed /\ ~error /\ failure = "none"
  BY <1>1 DEF IInv, EndsAgree, TypeOK
<1>4. WholeAtEnd'
  BY <1>1, <1>3 DEF WholeAtEnd
<1>5. EndsAgree' /\ SplitWhole'
  BY <1>1, <1>2, <1>3 DEF IInv, EndsAgree, SplitWhole
<1> QED BY <1>1, <1>2, <1>4, <1>5, Assembled DEF IInv, TypeOK, QueueSteps

LEMMA CancelEndsInv == ASSUME IInv, CancelEnds PROVE IInv'
<1> USE DEF CancelEnds, UserOnly
<1>1. /\ UNCHANGED <<mode, failure, lease, loop, log, buffer, part, call, isClosed, by>>
      /\ ending' = "done" /\ by # "nobody" /\ isClosed
  BY DEF IInv, EndsAgree
<1>2. /\ UNCHANGED <<text, sent>> /\ closed'
      /\ producer'["loop"] # "idle" => producer["loop"] # "idle"
  BY EndMoves
<1>3. error' = IF closed THEN error ELSE FALSE
  BY DEF CloseQueue, queueVars, Queue!Close, Queue!End
<1>4. TextsMatch' /\ PushesAreLines' /\ Pushes' = Pushes /\ Frontier' = Frontier
  BY <1>1, <1>2, PushesStay
<1>5. EndsAgree' /\ SplitWhole' /\ WholeAtEnd'
  BY <1>1, <1>2, <1>3, <1>4 DEF IInv, EndsAgree, SplitWhole, WholeAtEnd
<1>6. QueueSteps
  BY StepsOfQueue DEF Next, EndContinues
<1> QED BY <1>1, <1>2, <1>4, <1>5, <1>6, Assembled DEF IInv, TypeOK

LEMMA CloseFlushesInv == ASSUME IInv, CloseFlushes PROVE IInv'
<1> USE DEF CloseFlushes, UserOnly
<1>1. /\ UNCHANGED <<mode, failure, lease, loop, log, buffer, part, call, isClosed, by>>
      /\ by # "nobody" /\ isClosed
  BY DEF IInv, EndsAgree
<1>2. QueueSteps
  BY StepsOfQueue DEF Next, EndContinues
<1>3. CASE CloseQueue /\ ending' = "done"
  <2>1. /\ UNCHANGED <<text, sent>> /\ closed'
        /\ producer'["loop"] # "idle" => producer["loop"] # "idle"
    BY <1>3, EndMoves
  <2>2. error' = IF closed THEN error ELSE FALSE
    BY <1>3 DEF CloseQueue, queueVars, Queue!Close, Queue!End
  <2>3. TextsMatch' /\ PushesAreLines' /\ Pushes' = Pushes /\ Frontier' = Frontier
    BY <1>1, <2>1, PushesStay
  <2>4. EndsAgree' /\ SplitWhole' /\ WholeAtEnd'
    BY <1>1, <1>3, <2>1, <2>2, <2>3 DEF IInv, EndsAgree, SplitWhole, WholeAtEnd
  <2> QED BY <1>1, <1>2, <1>3, <2>1, <2>3, <2>4, Assembled DEF IInv, TypeOK
<1>4. CASE Push("flush", buffer) /\ ending' = "flushing"
  <2>1. /\ text' \in [{"loop", "flush"} -> Seq(Ranges)]
        /\ text'["loop"] = text["loop"] /\ sent'["loop"] = sent["loop"]
        /\ sent'["flush"] = sent["flush"] + 1
        /\ \A q \in {"loop", "flush"} : Len(text'[q]) = sent'[q]
        /\ UNCHANGED <<closed, error>>
    BY <1>4, PushText DEF IInv, TypeOK
  <2>2. sent'["flush"] # 0
    BY <2>1, LogAssumption DEF IInv, Q!IInv, Q!TypeOK
  <2>3. producer'["loop"] = producer["loop"]
    BY <1>4 DEF Push, Queue!Push, Queue!PushLoop, IInv, Q!IInv, Q!TypeOK
  <2>4. TextsMatch' /\ PushesAreLines'
    BY <1>1, <2>1, <2>2 DEF IInv, TextsMatch, PushesAreLines, Pushes
  <2>5. SplitWhole' /\ WholeAtEnd' /\ EndsAgree'
    BY <1>1, <1>4, <2>1, <2>2, <2>3 DEF IInv, SplitWhole, WholeAtEnd, EndsAgree
  <2> QED BY <1>1, <1>2, <1>4, <2>1, <2>4, <2>5, Assembled DEF IInv, TypeOK
<1> QED BY <1>3, <1>4

LEMMA CloseEndsInv == ASSUME IInv, CloseEnds PROVE IInv'
<1> USE DEF CloseEnds, UserOnly
<1>1. /\ UNCHANGED <<mode, failure, lease, loop, log, part, call, isClosed, by>>
      /\ ending' = "done" /\ by # "nobody" /\ isClosed /\ sent["flush"] # 0
  BY DEF IInv, EndsAgree
<1>2. /\ UNCHANGED <<text, sent>> /\ closed'
      /\ producer'["loop"] # "idle" => producer["loop"] # "idle"
  BY EndMoves
<1>3. error' = IF closed THEN error ELSE FALSE
  BY DEF CloseQueue, queueVars, Queue!Close, Queue!End
<1>4. TextsMatch' /\ PushesAreLines' /\ Pushes' = Pushes /\ Frontier' = Frontier
  BY <1>1, <1>2, PushesStay
<1>5. EndsAgree' /\ SplitWhole' /\ WholeAtEnd'
  BY <1>1, <1>2, <1>3, <1>4 DEF IInv, EndsAgree, SplitWhole, WholeAtEnd
<1>6. QueueSteps
  BY StepsOfQueue DEF Next, EndContinues
<1>7. buffer' \in Ranges
  BY DEF IInv, TypeOK, Ranges
<1> QED BY <1>1, <1>2, <1>4, <1>5, <1>6, <1>7, Assembled DEF IInv, TypeOK

LEMMA SignalAbortsInv == ASSUME IInv, SignalAborts PROVE IInv'
<1> USE DEF SignalAborts, UserOnly
<1>1. /\ UNCHANGED <<mode, by, ending, isClosed, failure, lease, loop, log, buffer, part>>
      /\ UNCHANGED queueVars /\ UNCHANGED <<text, sent, closed, error, producer>>
      /\ call = "open" /\ call' = "aborted"
  BY DEF NoPush, queueVars
<1>2. TextsMatch' /\ PushesAreLines' /\ Pushes' = Pushes /\ Frontier' = Frontier
  BY <1>1, PushesStay
<1>3. WholeAtEnd'
  BY <1>1, WholeKept
<1>4. EndsAgree' /\ SplitWhole'
  BY <1>1, <1>2 DEF IInv, EndsAgree, SplitWhole
<1> QED BY <1>1, <1>2, <1>3, <1>4, Assembled DEF IInv, TypeOK, QueueSteps

\* A push that goes on, or the reader.
LEMMA QueueOnlyInv ==
    ASSUME IInv, QueueOnly,
           \/ UNCHANGED queueVars
           \/ \E p \in {"loop", "flush"} : Queue!Resume(p)
           \/ Queue!NextCall("reader")
    PROVE  IInv'
<1>1. /\ UNCHANGED <<mode, call, log, buffer, part, loop, isClosed, by, ending, failure, lease, text>>
      /\ UNCHANGED <<sent, closed, error>>
      /\ producer'["loop"] # "idle" => producer["loop"] # "idle"
  BY NoNewPush DEF QueueOnly, lineVars, IInv
<1>2. TextsMatch' /\ PushesAreLines' /\ Pushes' = Pushes /\ Frontier' = Frontier
  BY <1>1, PushesStay
<1>3. WholeAtEnd'
  BY <1>1, WholeKept
<1>4. EndsAgree' /\ SplitWhole'
  BY <1>1, <1>2 DEF IInv, EndsAgree, SplitWhole
<1>5. QueueSteps
  BY DEF QueueSteps
<1> QED BY <1>1, <1>2, <1>3, <1>4, <1>5, Assembled DEF IInv, TypeOK

LEMMA NextInv == IInv /\ [Next]_vars => IInv'
<1> SUFFICES ASSUME IInv, [Next]_vars PROVE IInv'
  OBVIOUS
<1>1. CASE ReceiveData
  BY <1>1, ReceiveDataInv
<1>2. CASE StreamFails \/ StreamEnds
  BY <1>2, StreamFailsInv, StreamEndsInv
<1>3. CASE LoopContinues
  BY <1>3, LoopPushedInv, LinePushedInv, FlushedInv, SettleInv DEF LoopContinues
<1>4. ASSUME NEW who \in {"reader", "other"}, Cancel(who) \/ Close(who) PROVE IInv'
  BY <1>4, EndBeginsInv DEF Cancel, Close
<1>5. CASE EndContinues \/ SignalAborts
  BY <1>5, CancelEndsInv, CloseFlushesInv, CloseEndsInv, SignalAbortsInv DEF EndContinues
<1>6. ASSUME NEW p \in {"loop", "flush"}, Resume(p) PROVE IInv'
  BY <1>6, QueueOnlyInv DEF Resume
<1>7. CASE Read
  BY <1>7, QueueOnlyInv DEF Read
<1>8. CASE UNCHANGED vars
  BY <1>8, QueueOnlyInv DEF vars, QueueOnly
<1> QED BY <1>1, <1>2, <1>3, <1>4, <1>5, <1>6, <1>7, <1>8 DEF Next

----------------------------------------------------------------------------
(* What the reader gets.                                                    *)

\* While no closing flush takes part, the reader's items are the first pushes.
LEMMA StreamIsPushes ==
    ASSUME IInv, sent["flush"] = 0
    PROVE  /\ Len(Stream) = Len(Queue!Stream) /\ Len(Stream) \in Nat /\ Len(Pushes) \in Nat
           /\ Len(Stream) <= Len(Pushes)
           /\ \A i \in 1..Len(Stream) : Stream[i] = Pushes[i]
<1>1. Len(Queue!Stream) \in Nat
  BY ConcatProperties, LenProperties DEF Queue!Stream, IInv, Q!IInv, Q!TypeOK
<1>2. Len(Stream) = Len(Queue!Stream)
  BY <1>1 DEF Stream
<1>3. Len(Pushes) = sent["loop"] /\ Len(Pushes) \in Nat
  BY LenProperties DEF IInv, TypeOK, TextsMatch, Pushes
<1> QED BY <1>1, <1>2, <1>3 DEF IInv, InStep, Stream, Pushes

LEMMA LogWholeHolds == IInv => LogWhole
<1> SUFFICES ASSUME IInv PROVE LogWhole
  OBVIOUS
<1>1. LineOriented
  <2> SUFFICES ASSUME sent["flush"] = 0
               PROVE  /\ Gapless(Stream)
                      /\ mode = "lines" => \A i \in 1..Len(Stream) :
                          /\ OneLine(Stream[i])
                          /\ \/ Newlines(Stream[i], log) # {}
                             \/ Size(Stream[i]) >= MaxLineBuffer
                             \/ call = "over" /\ i = Len(Stream)
                          /\ Size(Stream[i]) < MaxLineBuffer + MaxEntry
    BY DEF LineOriented
  <2>1. /\ Len(Stream) \in Nat /\ Len(Pushes) \in Nat /\ Len(Stream) <= Len(Pushes)
        /\ \A i \in 1..Len(Stream) : Stream[i] = Pushes[i]
    BY StreamIsPushes
  <2>2. Gapless(Stream)
    <3> SUFFICES ASSUME NEW i \in 1..Len(Stream)
                 PROVE  Stream[i][1] = IF i = 1 THEN 0 ELSE Stream[i - 1][2]
      BY DEF Gapless
    <3>1. i \in 1..Len(Pushes) /\ (i # 1 => i - 1 \in 1..Len(Stream))
      BY <2>1
    <3> QED BY <2>1, <3>1 DEF IInv, SplitWhole, Gapless
  <2>3. ASSUME mode = "lines", NEW i \in 1..Len(Stream)
        PROVE  /\ OneLine(Stream[i])
               /\ \/ Newlines(Stream[i], log) # {}
                  \/ Size(Stream[i]) >= MaxLineBuffer
                  \/ call = "over" /\ i = Len(Stream)
               /\ Size(Stream[i]) < MaxLineBuffer + MaxEntry
    <3>1. i \in 1..Len(Pushes) /\ (i = Len(Pushes) => i = Len(Stream)) /\ Stream[i] = Pushes[i]
      BY <2>1
    <3> QED BY <2>3, <3>1 DEF IInv, PushesAreLines
  <2> QED BY <2>2, <2>3
<1>2. EndComplete
  <2>1. ASSUME closed, ~error, by = "nobody"
        PROVE  IF Stream = <<>> THEN log = <<>> ELSE Stream[Len(Stream)][2] = Len(log)
    <3>1. sent["flush"] = 0
      BY <2>1 DEF IInv, EndsAgree
    <3>2. Frontier = Len(log) /\ Len(Queue!Stream) = sent["loop"]
      BY <2>1 DEF IInv, WholeAtEnd
    <3>3. /\ Len(Stream) = Len(Queue!Stream) /\ Len(Stream) \in Nat
          /\ \A i \in 1..Len(Stream) : Stream[i] = Pushes[i]
      BY <3>1, StreamIsPushes
    <3>4. Len(Pushes) = Len(Stream) /\ Pushes \in Seq(Ranges)
      BY <3>2, <3>3 DEF IInv, TypeOK, TextsMatch, Pushes
    <3>5. CASE Stream = <<>>
      <4>1. Pushes = <<>>
        BY <3>4, <3>5, EmptySeq
      <4> QED BY <3>2, <3>5, <4>1, EmptySeq DEF Frontier, IInv, TypeOK
    <3>6. CASE Stream # <<>>
      <4>1. Len(Stream) # 0
        BY <3>3, <3>6 DEF Stream
      <4>2. Pushes # <<>> /\ Len(Stream) \in 1..Len(Stream)
        BY <3>3, <3>4, <4>1, EmptySeq
      <4> QED BY <3>2, <3>3, <3>4, <3>6, <4>2 DEF Frontier
    <3> QED BY <3>5, <3>6
  <2>2. /\ by # "nobody" => ~error
        /\ lease = "discarded" => error
    BY DEF IInv, EndsAgree
  <2> QED BY <2>1, <2>2 DEF EndComplete
<1> QED BY <1>1, <1>2 DEF LogWhole

\* The invariant holds in every state of a log stream, however pushes wait
\* (streaming/async-queue.ts), entries are cut (dispatch() of
\* streaming/log-stream.ts) and users cancel or close.
THEOREM Invariance == Spec => []IInv
<1> QED BY InitInv, NextInv, PTL DEF Spec

\* Every variable of the log stream keeps its type.
THEOREM TypeCorrect == Spec => []TypeOK
<1>1. IInv => TypeOK
  BY DEF IInv
<1> QED BY <1>1, Invariance, PTL

\* What the reader of streaming/log-stream.ts gets is the log, one line, a
\* part of a line too long or its end at a time, without a gap; when nobody
\* asked for the end it is the whole log.
THEOREM LogIsWhole == Spec => []LogWhole
<1> QED BY Invariance, LogWholeHolds, PTL

----------------------------------------------------------------------------
(* The shell: its queue, which only the loop pushes into.                   *)

SQ == INSTANCE AsyncQueueProofs WITH
    Producers <- {"loop"}, Calls <- {"reader"}, Capacity <- ShellCapacity,
    MaxPushes <- MaxOutputs, items <- sItems, waitingConsumers <- sConsumers,
    waitingProducers <- sProducers, closed <- sClosed, error <- sError,
    producer <- sProducer, call <- sNext, sent <- sSent, delivered <- sDelivered,
    lost <- sLost, ended <- sEnded

shellQueueVars == <<sItems, sConsumers, sProducers, sClosed, sError, sProducer, sNext,
                    sSent, sDelivered, sLost, sEnded>>

LEMMA ShellAssumptions ==
    /\ SQ!Cardinality({"loop"}) <= ShellCapacity /\ SQ!IsFiniteSet({"loop"})
    /\ ShellCapacity \in Nat \ {0} /\ MaxOutputs \in Nat
<1>1. IsFiniteSet({"loop"}) /\ Cardinality({"loop"}) = 1
  BY FS_Singleton
<1>2. \A S : SQ!Cardinality(S) = Cardinality(S) /\ SQ!IsFiniteSet(S) = IsFiniteSet(S)
  BY DEF Cardinality, SQ!Cardinality, IsFiniteSet, SQ!IsFiniteSet
<1> QED BY <1>1, <1>2, ShellAssumption

\* The two names of the shell's queue mean the same.
LEMMA SameShellQueue ==
    /\ Shell!Queue!Push("loop") <=> SQ!Push("loop")
    /\ Shell!Queue!Resume("loop") <=> SQ!Resume("loop")
    /\ Shell!Queue!NextCall("reader") <=> SQ!NextCall("reader")
    /\ \A failed \in BOOLEAN : Shell!Queue!End(failed) <=> SQ!End(failed)
    /\ Shell!Queue!Stream = SQ!Stream
    /\ (Shell!Queue!TypeOK <=> SQ!TypeOK) /\ (Shell!Queue!Init <=> SQ!Init)
<1>1. \A x : (Shell!Queue!Accept(x) <=> SQ!Accept(x)) /\ (Shell!Queue!Refuse(x) <=> SQ!Refuse(x))
  BY DEF Shell!Queue!Accept, SQ!Accept, Shell!Queue!Refuse, SQ!Refuse
<1>2. \A x : Shell!Queue!PushLoop("loop", x) <=> SQ!PushLoop("loop", x)
  BY <1>1 DEF Shell!Queue!PushLoop, SQ!PushLoop, Shell!Queue!Full, SQ!Full
<1>3. /\ Shell!Queue!Push("loop") <=> SQ!Push("loop")
      /\ Shell!Queue!Resume("loop") <=> SQ!Resume("loop")
  BY <1>2 DEF Shell!Queue!Push, SQ!Push, Shell!Queue!Resume, SQ!Resume,
              Shell!Queue!Current, SQ!Current
<1>4. Shell!Queue!NextCall("reader") <=> SQ!NextCall("reader")
  BY DEF Shell!Queue!NextCall, SQ!NextCall, Shell!Queue!NextTakes, SQ!NextTakes,
         Shell!Queue!NextEnds, SQ!NextEnds, Shell!Queue!NextWaits, SQ!NextWaits
<1>5. \A failed \in BOOLEAN : Shell!Queue!End(failed) <=> SQ!End(failed)
  BY DEF Shell!Queue!End, SQ!End
<1>6. (Shell!Queue!TypeOK <=> SQ!TypeOK) /\ (Shell!Queue!Init <=> SQ!Init)
  BY DEF Shell!Queue!TypeOK, SQ!TypeOK, Shell!Queue!Items, SQ!Items, Shell!Queue!Init, SQ!Init
<1> QED BY <1>3, <1>4, <1>5, <1>6 DEF Shell!Queue!Stream, SQ!Stream

\* The steps of the queue that the shell takes; it never calls tryPush().
ShellQueueSteps ==
    \/ SQ!Push("loop") \/ SQ!Resume("loop")
    \/ SQ!NextCall("reader")
    \/ \E failed \in BOOLEAN : SQ!End(failed)
    \/ UNCHANGED shellQueueVars

\* No next() and no resumed push closes the queue; what is closed stays as it is.
LEMMA ShellQueueKept ==
    ASSUME SQ!IInv, SQ!InStep("loop"), ShellQueueSteps
    PROVE  /\ SQ!IInv' /\ SQ!InStep("loop")'
           /\ sClosed => sClosed' /\ sError' = sError /\ SQ!Stream' = SQ!Stream
<1>1. SQ!IInv' /\ SQ!InStep("loop")'
  <2>1. SQ!Next \/ UNCHANGED SQ!vars
    BY DEF ShellQueueSteps, SQ!Next, SQ!Close, SQ!Fail, SQ!vars, shellQueueVars
  <2>2. \/ \E q \in {"loop"} : SQ!Push(q) \/ SQ!Resume(q)
        \/ \E c \in {"reader"} : SQ!NextCall(c)
        \/ \E failed \in BOOLEAN : SQ!End(failed)
        \/ UNCHANGED SQ!vars
    BY DEF ShellQueueSteps, SQ!vars, shellQueueVars
  <2> QED BY <2>1, <2>2, ShellAssumptions, SQ!NextInv, SQ!InStepNext
<1>2. ASSUME sClosed PROVE sClosed' /\ sError' = sError /\ SQ!Stream' = SQ!Stream
  <2>1. ASSUME SQ!Push("loop") \/ SQ!Resume("loop") PROVE sClosed' /\ sError' = sError /\ SQ!Stream' = SQ!Stream
    BY <1>2, <2>1 DEF SQ!Push, SQ!Resume, SQ!PushLoop, SQ!Refuse, SQ!Stream
  <2>2. CASE SQ!NextCall("reader")
    <3>1. SQ!Stream' = SQ!Stream
      BY <2>2, ShellAssumptions, SQ!OtherMoves
    <3> QED BY <1>2, <2>2, <3>1 DEF SQ!NextCall, SQ!NextTakes, SQ!NextEnds, SQ!NextWaits
  <2>3. ASSUME NEW failed \in BOOLEAN, SQ!End(failed) PROVE FALSE
    BY <1>2, <2>3 DEF SQ!End
  <2>4. CASE UNCHANGED shellQueueVars
    BY <1>2, <2>4 DEF shellQueueVars, SQ!Stream
  <2> QED BY <2>1, <2>2, <2>3, <2>4 DEF ShellQueueSteps
<1> QED BY <1>1, <1>2

----------------------------------------------------------------------------
(* What holds of the shell between its steps.                               *)

\* The operations of stdin: one under way at most, of those that were accepted.
ShellTypes ==
    /\ Shell!TypeOK
    /\ Len(accepted) <= MaxOps /\ done <= Len(accepted)
    /\ head # "idle" => done < Len(accepted)

OutputsOf(responses) == {i \in 1..Len(responses) : responses[i].kind = "output"}
OverKinds == {"end", "failed"}
LastKinds == {"exit", "error"}

\* The responses not yet read: nothing comes behind the status of the call, and
\* nothing but the status behind an exit or an error.  An output frame is one of
\* them, or has been pushed.
ResponsesInv ==
    /\ \A i, j \in 1..Len(inbound) : i < j =>
          /\ inbound[i].kind \notin OverKinds
          /\ inbound[i].kind \in LastKinds => inbound[j].kind \in OverKinds
    /\ terminal => \A i \in 1..Len(inbound) : inbound[i].kind \in OverKinds
    /\ rpc = "open" => \A i \in 1..Len(inbound) : inbound[i].kind \notin OverKinds
    /\ sLoop \in {"settling", "done"} => rpc # "open" /\ inbound = <<>>
    /\ outputs = sSent["loop"] + Cardinality(OutputsOf(inbound))

\* The end: everybody is told of one, and an exit comes behind all output.
ShellEndInv ==
    /\ Shell!settled <=> sClosed
    /\ sError <=> outcome \in {"error", "cancelled"}
    /\ exitCode # Shell!NoCode <=> outcome = "result"
    /\ sEnded = "error" => sError
    /\ terminal \/ sLoop \in {"settling", "done"} => Shell!settled
    /\ outcome = "cancelled" => rpc # "open"
    /\ outcome = "result" => terminal /\ Len(SQ!Stream) = outputs

\* The loop runs in a started shell, and its lease ends with it.
ShellLoopInv ==
    /\ phase # "started" => sLoop = "reading"
    /\ phase # "failed" /\ sLease # "held" => sLoop = "done"
    /\ sLoop = "done" => completed
    /\ sProducer["loop"] # "idle" => sLoop = "pushing"

\* Who is refused by the gate has ended the call.
ShellGateInv ==
    poisoned \/ resizing = "rejected" => gate # "pending" /\ (gate = "failed" => rpc # "open")

ShellInv ==
    /\ ShellTypes /\ ResponsesInv /\ ShellEndInv /\ ShellLoopInv /\ ShellGateInv
    /\ SQ!IInv /\ SQ!InStep("loop")

LEMMA OutputsFinite ==
    ASSUME NEW s \in Seq(Shell!Messages)
    PROVE  IsFiniteSet(OutputsOf(s)) /\ Cardinality(OutputsOf(s)) \in Nat
<1>1. IsFiniteSet(1..Len(s))
  BY LenProperties, FS_Interval
<1>2. IsFiniteSet(OutputsOf(s))
  BY <1>1, FS_Subset DEF OutputsOf
<1> QED BY <1>2, FS_CardinalityType

\* A response that comes in counts if it is output.
LEMMA OutputsAppended ==
    ASSUME NEW s \in Seq(Shell!Messages), NEW m \in Shell!Messages
    PROVE  Cardinality(OutputsOf(Append(s, m))) =
               Cardinality(OutputsOf(s)) + (IF m.kind = "output" THEN 1 ELSE 0)
<1> DEFINE t == Append(s, m)
<1>1. /\ Len(t) = Len(s) + 1 /\ Len(s) \in Nat /\ t[Len(s) + 1] = m
      /\ \A i \in 1..Len(s) : t[i] = s[i]
  BY AppendProperties, LenProperties
<1>2. IsFiniteSet(OutputsOf(s)) /\ Cardinality(OutputsOf(s)) \in Nat
  BY OutputsFinite
<1>3. CASE m.kind = "output"
  <2>1. OutputsOf(t) = OutputsOf(s) \cup {Len(s) + 1} /\ Len(s) + 1 \notin OutputsOf(s)
    BY <1>1, <1>3 DEF OutputsOf
  <2> QED BY <1>2, <1>3, <2>1, FS_AddElement
<1>4. CASE m.kind # "output"
  <2>1. OutputsOf(t) = OutputsOf(s)
    BY <1>1, <1>4 DEF OutputsOf
  <2> QED BY <1>2, <1>4, <2>1
<1> QED BY <1>3, <1>4

\* A response that is read no longer counts.
LEMMA OutputsRead ==
    ASSUME NEW s \in Seq(Shell!Messages), s # <<>>
    PROVE  Cardinality(OutputsOf(s)) =
               Cardinality(OutputsOf(Tail(s))) + (IF Head(s).kind = "output" THEN 1 ELSE 0)
<1> DEFINE t == Tail(s)
           behind == OutputsOf(s) \ {1}
           f == [i \in OutputsOf(t) |-> i + 1]
<1>1. /\ t \in Seq(Shell!Messages) /\ Len(t) = Len(s) - 1 /\ Len(s) \in Nat /\ Len(s) # 0
      /\ Head(s) = s[1] /\ \A i \in 1..Len(t) : t[i] = s[i + 1]
  BY HeadTailProperties, LenProperties, EmptySeq
<1>2. f \in Bijection(OutputsOf(t), behind)
  <2>1. f \in [OutputsOf(t) -> behind]
    BY <1>1 DEF OutputsOf
  <2>2. \A i, j \in OutputsOf(t) : f[i] = f[j] => i = j
    BY <1>1 DEF OutputsOf
  <2>3. ASSUME NEW j \in behind PROVE \E i \in OutputsOf(t) : f[i] = j
    <3>1. j - 1 \in OutputsOf(t)
      BY <1>1, <2>3 DEF OutputsOf
    <3>2. f[j - 1] = j
      BY <3>1, <2>3, <1>1 DEF OutputsOf
    <3> QED BY <3>1, <3>2
  <2> QED BY <2>1, <2>2, <2>3 DEF Bijection, Injection, Surjection, IsInjective
<1>3. IsFiniteSet(OutputsOf(t)) /\ Cardinality(OutputsOf(t)) \in Nat
  BY <1>1, OutputsFinite
<1>4. IsFiniteSet(behind) /\ Cardinality(behind) = Cardinality(OutputsOf(t))
  <2>1. ExistsBijection(OutputsOf(t), behind)
    BY <1>2 DEF ExistsBijection
  <2> QED BY <1>3, <2>1, FS_Bijection
<1>5. CASE Head(s).kind = "output"
  <2>1. OutputsOf(s) = behind \cup {1} /\ 1 \notin behind
    BY <1>1, <1>5 DEF OutputsOf
  <2> QED BY <1>3, <1>4, <1>5, <2>1, FS_AddElement
<1>6. CASE Head(s).kind # "output"
  <2>1. 1 \notin OutputsOf(s)
    BY <1>1, <1>6 DEF OutputsOf
  <2>2. OutputsOf(s) = behind
    BY <2>1
  <2>3. Cardinality(OutputsOf(s)) = Cardinality(OutputsOf(t))
    BY <1>4, <2>2
  <2> QED BY <1>3, <1>6, <2>3
<1> QED BY <1>5, <1>6

LEMMA NoOutputs ==
    ASSUME NEW s \in Seq(Shell!Messages), \A i \in 1..Len(s) : s[i].kind \in OverKinds
    PROVE  Cardinality(OutputsOf(s)) = 0
<1>1. OutputsOf(s) = {}
  BY DEF OutputsOf, OverKinds
<1> QED BY <1>1, FS_EmptySet

\* The kinds tell the messages of TerminalSession apart.
LEMMA MessageKinds ==
    /\ \A m \in Shell!Messages :
          /\ m \in Shell!Status <=> m.kind \in OverKinds
          /\ m \in Shell!Terminal <=> m.kind \in LastKinds
          /\ m.kind = "exit" => m.n \in ExitCodes
    /\ Shell!Message("failed", 0) \in Shell!Messages
    /\ Shell!Message("failed", 0).kind = "failed"
BY DEF Shell!Messages, Shell!Status, Shell!Terminal, Shell!Message, OverKinds, LastKinds

----------------------------------------------------------------------------
(* The steps of the shell.                                                  *)

LEMMA ShellQueueTakesPart == Shell!Next \/ UNCHANGED shellVars => ShellQueueSteps
<1> USE SameShellQueue DEF ShellQueueSteps
<1>1. CASE UNCHANGED shellVars
  BY <1>1 DEF shellVars, shellQueueVars
<1>2. CASE \/ Shell!ServerSends \/ Shell!SignalAborts \/ Shell!StartSucceeds \/ Shell!StartFails
           \/ Shell!PushReturns \/ Shell!Settle \/ Shell!StopReading \/ Shell!ReceiveReady
  BY <1>2 DEF Shell!ServerSends, Shell!SignalAborts, Shell!StartSucceeds, Shell!StartFails,
         Shell!Starting, Shell!PushReturns, Shell!Settle, Shell!StopReading, Shell!ReceiveReady,
         Shell!queueVars, shellQueueVars
<1>3. CASE Shell!Write \/ Shell!CloseStdin \/ Shell!Resize \/ Shell!InputStep
  BY <1>3 DEF Shell!Write, Shell!CloseStdin, Shell!Enqueue, Shell!Resize, Shell!InputStep,
         Shell!BeginOp, Shell!OpRefused, Shell!ResizeRefused, Shell!SendOp, Shell!OpFails,
         Shell!CompleteClose, Shell!SendResize, Shell!ResizeFails, Shell!SendOnly,
         Shell!InputOnly, Shell!queueVars, shellQueueVars
<1>4. CASE \/ Shell!ReceiveOutput \/ Shell!ResumePush \/ Shell!Read
  BY <1>4 DEF Shell!ReceiveOutput, Shell!ResumePush, Shell!Read
<1>5. CASE \/ Shell!ReceiveExit \/ Shell!ReceiveError \/ Shell!ReceiveEnd \/ Shell!ReceiveFailure
           \/ Shell!Cancel
  BY <1>5 DEF Shell!ReceiveExit, Shell!ReceiveError, Shell!ReceiveEnd, Shell!ReceiveFailure,
         Shell!Cancel, Shell!Resolve, Shell!Reject, Shell!Queue!Close, Shell!Queue!Fail,
         Shell!queueVars, shellQueueVars
<1> QED BY <1>1, <1>2, <1>3, <1>4, <1>5 DEF Shell!Next, Shell!LoopStep

LEMMA AbortTypes ==
    ASSUME Shell!TypeOK, Shell!Abort
    PROVE  rpc' \in {"open", "ended", "aborted"} /\ inbound' \in Seq(Shell!Messages)
<1>1. CASE rpc = "open"
  BY <1>1, MessageKinds, AppendProperties DEF Shell!Abort, Shell!TypeOK
<1>2. CASE rpc # "open"
  BY <1>2 DEF Shell!Abort, Shell!TypeOK
<1> QED BY <1>1, <1>2

LEMMA ShellTypesNext ==
    ASSUME ShellInv, Shell!Next \/ UNCHANGED shellVars, Shell!Queue!TypeOK'
    PROVE  ShellTypes'
<1> USE DEF ShellInv, ShellTypes, Shell!TypeOK
<1>1. CASE UNCHANGED shellVars
  BY <1>1 DEF shellVars
<1>2. CASE Shell!ServerSends
  <2>1. PICK m \in Shell!Messages :
          inbound' = Append(inbound, m)
          /\ (m.kind = "output" => outputs < MaxOutputs)
          /\ outputs' = IF m.kind = "output" THEN outputs + 1 ELSE outputs
    BY <1>2 DEF Shell!ServerSends
  <2>2. inbound' \in Seq(Shell!Messages) /\ outputs' \in 0..MaxOutputs
    BY <2>1, AppendProperties, ShellAssumption
  <2>3. rpc' \in {"open", "ended"}
    BY <1>2 DEF Shell!ServerSends
  <2> QED BY <1>2, <2>2, <2>3
          DEF Shell!ServerSends, Shell!loopVars, Shell!procVars, Shell!inputVars
<1>3. CASE Shell!SignalAborts
  BY <1>3, AbortTypes
     DEF Shell!SignalAborts, Shell!loopVars, Shell!procVars, Shell!inputVars
<1>4. CASE Shell!StartSucceeds \/ Shell!StartFails
  BY <1>4 DEF Shell!StartSucceeds, Shell!StartFails, Shell!Starting, Shell!procVars, Shell!inputVars
<1>5. CASE \/ Shell!ReceiveReady \/ Shell!ReceiveOutput \/ Shell!ReceiveExit
           \/ Shell!ReceiveError \/ Shell!ReceiveEnd \/ Shell!ReceiveFailure
  <2>1. /\ inbound # <<>> /\ inbound' = Tail(inbound)
        /\ UNCHANGED <<phase, rpc, outputs, sIsClosed, accepted, done, poisoned,
                       head, resizing, completed, reading, sLease>>
    BY <1>5 DEF Shell!ReceiveReady, Shell!ReceiveOutput, Shell!ReceiveExit,
           Shell!ReceiveError, Shell!ReceiveEnd, Shell!ReceiveFailure, Shell!Receive
  <2>2. inbound' \in Seq(Shell!Messages) /\ Head(inbound) \in Shell!Messages
    BY <2>1, HeadTailProperties
  <2>3. Head(inbound).kind = "exit" => Head(inbound).n \in ExitCodes
    BY <2>2, MessageKinds
  <2>4. /\ gate' \in {"pending", "ready", "failed"} /\ terminal' \in BOOLEAN
        /\ sLoop' \in {"reading", "pushing", "settling", "done"}
        /\ sFailure' \in {"none", "unavailable", "other"}
    BY <1>5 DEF Shell!ReceiveReady, Shell!ReceiveOutput, Shell!ReceiveExit,
           Shell!ReceiveError, Shell!ReceiveEnd, Shell!ReceiveFailure, Shell!FailGate, Shell!ErrorOf
  <2>5. /\ status' \in {"starting", "running", "exited", "failed", "cancelled"}
        /\ exitCode' \in ExitCodes \cup {Shell!NoCode}
        /\ outcome' \in {"pending", "result", "error", "cancelled"}
    <3>1. CASE Shell!ReceiveExit
      BY <3>1, <2>3 DEF Shell!ReceiveExit, Shell!Receive, Shell!Resolve, Shell!procVars
    <3>2. CASE Shell!ReceiveReady \/ Shell!ReceiveOutput
      BY <3>2 DEF Shell!ReceiveReady, Shell!ReceiveOutput, Shell!procVars
    <3>3. CASE Shell!ReceiveError \/ Shell!ReceiveEnd \/ Shell!ReceiveFailure
      BY <3>3 DEF Shell!ReceiveError, Shell!ReceiveEnd, Shell!ReceiveFailure, Shell!Reject,
             Shell!procVars
    <3> QED BY <1>5, <3>1, <3>2, <3>3
  <2> QED BY <2>1, <2>2, <2>4, <2>5
<1>6. CASE Shell!PushReturns \/ Shell!ResumePush \/ Shell!Settle
  BY <1>6 DEF Shell!PushReturns, Shell!ResumePush, Shell!Settle, Shell!callVars, Shell!loopVars,
         Shell!procVars, Shell!inputVars
<1>7. CASE Shell!Cancel
  BY <1>7, AbortTypes DEF Shell!Cancel, Shell!FailGate, Shell!loopVars
<1>8. CASE Shell!Read \/ Shell!StopReading
  BY <1>8 DEF Shell!Read, Shell!StopReading, Shell!callVars, Shell!loopVars, Shell!procVars,
         Shell!inputVars
<1>9. CASE Shell!Write \/ Shell!CloseStdin
  <2>1. PICK op \in {"write", "close"} : Shell!Enqueue(op)
    BY <1>9 DEF Shell!Write, Shell!CloseStdin
  <2>2. accepted' \in Seq({"write", "close"}) /\ Len(accepted') = Len(accepted) + 1
        /\ Len(accepted) \in Nat
    BY <2>1, AppendProperties, LenProperties DEF Shell!Enqueue
  <2>3. sIsClosed' \in BOOLEAN
    BY <1>9 DEF Shell!Write, Shell!CloseStdin
  <2> QED BY <2>1, <2>2, <2>3, ShellAssumption
          DEF Shell!Enqueue, Shell!InputOnly, Shell!loopVars, Shell!procVars
<1>10. CASE Shell!Resize \/ Shell!BeginOp
  BY <1>10 DEF Shell!Resize, Shell!BeginOp, Shell!InputOnly, Shell!loopVars, Shell!procVars
<1>11. CASE Shell!OpRefused \/ Shell!ResizeRefused
  BY <1>11, AbortTypes DEF Shell!OpRefused, Shell!ResizeRefused, Shell!GateFails, Shell!InputOnly,
         Shell!loopVars, Shell!procVars
<1>12. CASE \/ Shell!SendOp \/ Shell!OpFails \/ Shell!CompleteClose
            \/ Shell!SendResize \/ Shell!ResizeFails
  <2> USE DEF Shell!SendOnly, Shell!InputOnly, Shell!loopVars, Shell!procVars
  <2>1. done \in Nat /\ Len(accepted) \in Nat /\ MaxOps \in Nat
    BY ShellAssumption, LenProperties
  <2>2. CASE Shell!SendOp
    <3>1. CASE accepted[done + 1] = "close"
      BY <2>2, <3>1 DEF Shell!SendOp
    <3>2. CASE accepted[done + 1] # "close"
      BY <2>1, <2>2, <3>2 DEF Shell!SendOp
    <3> QED BY <3>1, <3>2
  <2>3. CASE Shell!CompleteClose
    BY <2>1, <2>3 DEF Shell!CompleteClose
  <2>4. CASE Shell!OpFails \/ Shell!SendResize \/ Shell!ResizeFails
    BY <2>4 DEF Shell!OpFails, Shell!SendResize, Shell!ResizeFails
  <2> QED BY <1>12, <2>2, <2>3, <2>4
<1> QED BY <1>1, <1>2, <1>3, <1>4, <1>5, <1>6, <1>7, <1>8, <1>9, <1>10, <1>11, <1>12
        DEF Shell!Next, Shell!LoopStep, Shell!InputStep

\* What the calls into the queue leave, and what they set.
LEMMA QueueCarriesOn ==
    ASSUME ShellInv, SQ!Push("loop") \/ SQ!Resume("loop") \/ SQ!NextCall("reader")
    PROVE  /\ sClosed' = sClosed /\ sError' = sError
           /\ sEnded' = "error" => sEnded = "error" \/ sError
           /\ SQ!Push("loop") => sSent'["loop"] = sSent["loop"] + 1
           /\ SQ!Resume("loop") \/ SQ!NextCall("reader") => sSent' = sSent
           /\ SQ!NextCall("reader") =>
                  (sProducer'["loop"] = "idle" <=> sProducer["loop"] = "idle")
<1> USE DEF ShellInv, SQ!IInv, SQ!TypeOK
<1>1. ASSUME SQ!Push("loop")
      PROVE  /\ sClosed' = sClosed /\ sError' = sError /\ sEnded' = sEnded
             /\ sSent'["loop"] = sSent["loop"] + 1
  BY <1>1, ShellAssumption DEF SQ!Push
<1>2. ASSUME SQ!Resume("loop")
      PROVE  sClosed' = sClosed /\ sError' = sError /\ sEnded' = sEnded /\ sSent' = sSent
  BY <1>2 DEF SQ!Resume
<1>3. ASSUME SQ!NextCall("reader")
      PROVE  /\ sClosed' = sClosed /\ sError' = sError
             /\ sEnded' = "error" => sEnded = "error" \/ sError
             /\ sSent' = sSent
             /\ sProducer'["loop"] = "idle" <=> sProducer["loop"] = "idle"
  <2>1. sSent' = sSent /\ (sProducer'["loop"] = "idle" <=> sProducer["loop"] = "idle")
    BY <1>3, ShellAssumptions, SQ!OtherMoves
  <2>2. sClosed' = sClosed /\ sError' = sError /\ (sEnded' = "error" => sEnded = "error" \/ sError)
    BY <1>3 DEF SQ!NextCall, SQ!NextTakes, SQ!NextEnds, SQ!NextWaits
  <2> QED BY <2>1, <2>2
<1> QED BY <1>1, <1>2, <1>3

LEMMA QueueIsEnded ==
    ASSUME ShellInv, NEW failed \in BOOLEAN, SQ!End(failed)
    PROVE  /\ ~sClosed /\ sClosed' /\ sError' = failed
           /\ sEnded' = "error" => sEnded = "error" \/ failed
           /\ sSent' = sSent /\ SQ!Stream' = SQ!Stream
           /\ sProducer'["loop"] = "idle" <=> sProducer["loop"] = "idle"
<1>1. SQ!Stream' = SQ!Stream /\ sSent' = sSent
      /\ (sProducer'["loop"] = "idle" <=> sProducer["loop"] = "idle")
  BY ShellAssumptions, SQ!OtherMoves DEF ShellInv
<1> QED BY <1>1 DEF SQ!End

\* Aborting puts the failure behind the responses, and ends the call.
LEMMA AbortResponses ==
    ASSUME ShellInv, Shell!Abort, outputs' = outputs, sSent' = sSent, terminal' = terminal,
           sLoop' = sLoop
    PROVE  ResponsesInv' /\ rpc' # "open"
<1> USE DEF ShellInv, ShellTypes, Shell!TypeOK, Shell!Abort
<1>1. CASE rpc # "open"
  BY <1>1 DEF ResponsesInv, OutputsOf
<1>2. CASE rpc = "open"
  <2> DEFINE m == Shell!Message("failed", 0)
  <2>1. inbound' = Append(inbound, m) /\ m \in Shell!Messages /\ m.kind = "failed"
    BY <1>2, MessageKinds
  <2>2. /\ Len(inbound') = Len(inbound) + 1 /\ Len(inbound) \in Nat
        /\ inbound'[Len(inbound) + 1] = m /\ \A i \in 1..Len(inbound) : inbound'[i] = inbound[i]
    BY <2>1, AppendProperties, LenProperties
  <2>3. Cardinality(OutputsOf(inbound')) = Cardinality(OutputsOf(inbound))
    BY <2>1, OutputsAppended, OutputsFinite
  <2> QED BY <1>2, <2>1, <2>2, <2>3 DEF ResponsesInv, OverKinds
<1> QED BY <1>1, <1>2

LEMMA ServerResponses ==
    ASSUME ShellInv, Shell!ServerSends
    PROVE  ResponsesInv' /\ (terminal => outputs' = outputs)
<1> USE DEF ShellInv, ShellTypes, Shell!TypeOK
<1>1. PICK m \in Shell!Messages :
        /\ m \notin Shell!Status => ~Shell!SentTerminal
        /\ inbound' = Append(inbound, m)
        /\ outputs' = IF m.kind = "output" THEN outputs + 1 ELSE outputs
        /\ rpc' = IF m \in Shell!Status THEN "ended" ELSE "open"
  BY DEF Shell!ServerSends
<1>2. /\ rpc = "open" /\ UNCHANGED <<terminal, sLoop, sSent>>
  BY DEF Shell!ServerSends, Shell!loopVars, Shell!queueVars
<1>3. /\ Len(inbound') = Len(inbound) + 1 /\ Len(inbound) \in Nat
      /\ inbound'[Len(inbound) + 1] = m /\ \A i \in 1..Len(inbound) : inbound'[i] = inbound[i]
  BY <1>1, AppendProperties, LenProperties
<1>4. m \in Shell!Status <=> m.kind \in OverKinds
  BY MessageKinds
<1>5. m \notin Shell!Status =>
        ~terminal /\ \A i \in 1..Len(inbound) : inbound[i].kind \notin LastKinds
  <2> SUFFICES ASSUME m \notin Shell!Status, NEW i \in 1..Len(inbound)
               PROVE  ~terminal /\ inbound[i].kind \notin LastKinds
    BY <1>1 DEF Shell!SentTerminal
  <2>1. inbound[i] \in Shell!Messages
    BY ElementOfSeq, LenProperties
  <2>2. ~terminal /\ inbound[i] \notin Shell!Terminal
    BY <1>1 DEF Shell!SentTerminal, Shell!Contains
  <2> QED BY <2>1, <2>2, MessageKinds
<1>6. Cardinality(OutputsOf(inbound')) =
        Cardinality(OutputsOf(inbound)) + (IF m.kind = "output" THEN 1 ELSE 0)
  BY <1>1, OutputsAppended
<1>7. /\ Cardinality(OutputsOf(inbound)) \in Nat /\ sSent["loop"] \in Nat
  BY OutputsFinite, ShellAssumption DEF SQ!IInv, SQ!TypeOK
<1>8. outputs' = sSent'["loop"] + Cardinality(OutputsOf(inbound'))
  BY <1>1, <1>2, <1>6, <1>7 DEF ResponsesInv
<1>9. \A i, j \in 1..Len(inbound') : i < j =>
        /\ inbound'[i].kind \notin OverKinds
        /\ inbound'[i].kind \in LastKinds => inbound'[j].kind \in OverKinds
  BY <1>2, <1>3, <1>4, <1>5 DEF ResponsesInv
<1>10. /\ terminal' => \A i \in 1..Len(inbound') : inbound'[i].kind \in OverKinds
       /\ rpc' = "open" => \A i \in 1..Len(inbound') : inbound'[i].kind \notin OverKinds
       /\ sLoop' \notin {"settling", "done"}
  <2>1. sLoop' \notin {"settling", "done"}
    BY <1>2 DEF ResponsesInv
  <2>2. ASSUME terminal' PROVE \A i \in 1..Len(inbound') : inbound'[i].kind \in OverKinds
    <3>1. m \in Shell!Status /\ \A i \in 1..Len(inbound) : inbound[i].kind \in OverKinds
      BY <1>2, <1>5, <2>2 DEF ResponsesInv
    <3> QED BY <1>3, <1>4, <3>1
  <2>3. ASSUME rpc' = "open" PROVE \A i \in 1..Len(inbound') : inbound'[i].kind \notin OverKinds
    <3>1. m \notin Shell!Status /\ \A i \in 1..Len(inbound) : inbound[i].kind \notin OverKinds
      BY <1>1, <1>2, <2>3 DEF ResponsesInv
    <3> QED BY <1>3, <1>4, <3>1
  <2> QED BY <2>1, <2>2, <2>3
<1>11. terminal => outputs' = outputs
  BY <1>1, <1>4, <1>5 DEF OverKinds
<1> QED BY <1>8, <1>9, <1>10, <1>11 DEF ResponsesInv

\* A response is read: what is behind it, and what it says of the rest.
LEMMA ReadResponses ==
    ASSUME ShellInv, inbound # <<>>, inbound' = Tail(inbound), UNCHANGED <<rpc, outputs>>,
           terminal' => terminal \/ Head(inbound).kind \in LastKinds,
           sLoop' \in {"settling", "done"} => Head(inbound).kind \in OverKinds,
           sSent'["loop"] = sSent["loop"] + (IF Head(inbound).kind = "output" THEN 1 ELSE 0)
    PROVE  /\ ResponsesInv'
           /\ Head(inbound).kind \in LastKinds => outputs = sSent["loop"]
           /\ terminal => Head(inbound).kind \in OverKinds
<1>0. /\ inbound \in Seq(Shell!Messages) /\ sSent["loop"] \in Nat /\ ResponsesInv
  BY ShellAssumption DEF ShellInv, ShellTypes, Shell!TypeOK, SQ!IInv, SQ!TypeOK
<1>1. /\ inbound' \in Seq(Shell!Messages) /\ Len(inbound') = Len(inbound) - 1
      /\ Len(inbound) \in Nat /\ Len(inbound) # 0
      /\ Head(inbound) = inbound[1] /\ \A i \in 1..Len(inbound') : inbound'[i] = inbound[i + 1]
  BY <1>0, HeadTailProperties, LenProperties, EmptySeq
<1>2. Cardinality(OutputsOf(inbound)) =
        Cardinality(OutputsOf(inbound')) + (IF Head(inbound).kind = "output" THEN 1 ELSE 0)
  BY <1>0, OutputsRead
<1>3. Cardinality(OutputsOf(inbound')) \in Nat /\ sSent["loop"] \in Nat
  BY <1>0, <1>1, OutputsFinite
<1>4. /\ outputs' = sSent'["loop"] + Cardinality(OutputsOf(inbound'))
      /\ Head(inbound).kind # "output" => outputs = sSent["loop"] + Cardinality(OutputsOf(inbound'))
  <2>1. outputs' = outputs /\ outputs = sSent["loop"] + Cardinality(OutputsOf(inbound))
    BY <1>0 DEF ResponsesInv
  <2>2. CASE Head(inbound).kind = "output"
    <3>1. /\ sSent'["loop"] = sSent["loop"] + 1
          /\ Cardinality(OutputsOf(inbound)) = Cardinality(OutputsOf(inbound')) + 1
      BY <1>2, <2>2
    <3>2. \A a, b \in Nat : a + (b + 1) = (a + 1) + b
      OBVIOUS
    <3>3. sSent["loop"] + (Cardinality(OutputsOf(inbound')) + 1)
            = (sSent["loop"] + 1) + Cardinality(OutputsOf(inbound'))
      BY <1>0, <1>3, <3>2
    <3> QED BY <2>1, <2>2, <3>1, <3>3
  <2>3. CASE Head(inbound).kind # "output"
    BY <1>2, <1>3, <2>1, <2>3
  <2> QED BY <2>2, <2>3
<1>5. \A i, j \in 1..Len(inbound') : i < j =>
        /\ inbound'[i].kind \notin OverKinds
        /\ inbound'[i].kind \in LastKinds => inbound'[j].kind \in OverKinds
  BY <1>0, <1>1 DEF ResponsesInv
<1>6. Head(inbound).kind \in LastKinds \/ terminal =>
        \A i \in 1..Len(inbound') : inbound'[i].kind \in OverKinds
  BY <1>0, <1>1 DEF ResponsesInv
<1>7. rpc' = "open" => \A i \in 1..Len(inbound') : inbound'[i].kind \notin OverKinds
  BY <1>0, <1>1 DEF ResponsesInv
<1>8. terminal => Head(inbound).kind \in OverKinds
  BY <1>0, <1>1 DEF ResponsesInv
<1>9. Head(inbound).kind \in OverKinds => rpc' # "open" /\ inbound' = <<>>
  <2> SUFFICES ASSUME Head(inbound).kind \in OverKinds PROVE rpc' # "open" /\ Len(inbound') = 0
    BY <1>1, EmptySeq
  <2> QED BY <1>0, <1>1 DEF ResponsesInv
<1>10. Head(inbound).kind \in LastKinds => outputs = sSent["loop"]
  <2> SUFFICES ASSUME Head(inbound).kind \in LastKinds PROVE outputs = sSent["loop"]
    OBVIOUS
  <2>1. Cardinality(OutputsOf(inbound')) = 0
    BY <1>1, <1>6, NoOutputs
  <2>2. Head(inbound).kind # "output"
    BY DEF LastKinds
  <2> QED BY <1>3, <1>4, <2>1, <2>2
<1>11. sLoop' \in {"settling", "done"} => rpc' # "open" /\ inbound' = <<>>
  BY <1>9
<1> QED BY <1>4, <1>5, <1>6, <1>7, <1>8, <1>10, <1>11 DEF ResponsesInv

\* What a step has to keep besides the types and the queue.
ShellRest == ResponsesInv /\ ShellEndInv /\ ShellLoopInv /\ ShellGateInv

\* A step that moves neither the call nor its loop, and rejects input only behind
\* an open gate.
LEMMA QuietRest ==
    ASSUME ShellInv, UNCHANGED shellQueueVars,
           UNCHANGED <<phase, rpc, inbound, outputs, sLoop, terminal, sLease, exitCode, outcome, gate>>,
           completed => completed',
           poisoned' \/ resizing' = "rejected" =>
               poisoned \/ resizing = "rejected" \/ gate = "ready"
    PROVE  ShellRest'
<1> USE DEF ShellInv, ShellRest, shellQueueVars
<1>1. SQ!Stream' = SQ!Stream
  BY DEF SQ!Stream
<1>2. ResponsesInv'
  BY DEF ResponsesInv, OutputsOf
<1>3. ShellEndInv'
  BY <1>1 DEF ShellEndInv, Shell!settled, Shell!NoCode
<1>4. ShellLoopInv' /\ ShellGateInv'
  BY DEF ShellLoopInv, ShellGateInv
<1> QED BY <1>2, <1>3, <1>4

LEMMA EnvironmentRest ==
    ASSUME ShellInv,
           Shell!ServerSends \/ Shell!SignalAborts \/ Shell!StartSucceeds \/ Shell!StartFails
    PROVE  ShellRest'
<1> USE DEF ShellInv, ShellRest, Shell!queueVars, Shell!loopVars, Shell!procVars, Shell!inputVars
<1>1. SQ!Stream' = SQ!Stream /\ sSent' = sSent
  BY DEF SQ!Stream, Shell!ServerSends, Shell!SignalAborts, Shell!StartSucceeds, Shell!StartFails,
         Shell!Starting
<1>2. CASE Shell!ServerSends
  <2>1. ResponsesInv' /\ (terminal => outputs' = outputs) /\ rpc = "open"
    BY <1>2, ServerResponses DEF Shell!ServerSends
  <2>2. ShellEndInv'
    BY <1>1, <1>2, <2>1 DEF ShellEndInv, Shell!ServerSends, Shell!settled, Shell!NoCode
  <2>3. ShellLoopInv' /\ ShellGateInv'
    BY <1>2, <2>1 DEF ShellLoopInv, ShellGateInv, Shell!ServerSends
  <2> QED BY <2>1, <2>2, <2>3
<1>3. CASE Shell!SignalAborts
  <2>1. ResponsesInv' /\ rpc' # "open"
    BY <1>1, <1>3, AbortResponses DEF Shell!SignalAborts
  <2>2. ShellEndInv'
    BY <1>1, <1>3, <2>1 DEF ShellEndInv, Shell!SignalAborts, Shell!settled, Shell!NoCode
  <2>3. ShellLoopInv' /\ ShellGateInv'
    BY <1>3, <2>1 DEF ShellLoopInv, ShellGateInv, Shell!SignalAborts
  <2> QED BY <2>1, <2>2, <2>3
<1>4. CASE Shell!StartSucceeds \/ Shell!StartFails
  <2> USE DEF Shell!StartSucceeds, Shell!StartFails, Shell!Starting
  <2>1. ResponsesInv'
    <3>1. UNCHANGED <<inbound, rpc, outputs, terminal, sLoop>>
      BY <1>4
    <3>2. sSent' = sSent /\ ResponsesInv
      BY <1>1
    <3> HIDE DEF ShellInv
    <3> QED BY <3>1, <3>2 DEF ResponsesInv
  <2>2. ShellEndInv'
    BY <1>1, <1>4 DEF ShellEndInv, Shell!settled, Shell!NoCode
  <2>3. ShellLoopInv' /\ ShellGateInv'
    BY <1>4 DEF ShellLoopInv, ShellGateInv
  <2> QED BY <2>1, <2>2, <2>3
<1> QED BY <1>2, <1>3, <1>4

\* The responses but an output frame: the session settles, or is left as it is.
Settles(outcomeIs, failed) ==
    /\ ~Shell!settled /\ outcome' = outcomeIs /\ SQ!End(failed)
LEMMA ReceivedRest ==
    ASSUME ShellInv, NEW kinds, Shell!Receive(kinds), Head(inbound).kind # "output",
           terminal' => terminal \/ Head(inbound).kind \in LastKinds,
           terminal => terminal',
           sLoop' = IF Head(inbound).kind \in OverKinds THEN "settling" ELSE "reading",
           gate' = gate \/ gate = "pending",
           \/ /\ UNCHANGED <<exitCode, outcome, shellQueueVars>>
              /\ terminal' \/ sLoop' = "settling" => Shell!settled
           \/ Settles("error", TRUE) /\ UNCHANGED exitCode
           \/ /\ Settles("result", FALSE) /\ exitCode' \in ExitCodes
              /\ terminal' /\ Head(inbound).kind \in LastKinds
    PROVE  ShellRest'
<1>1. /\ sLoop = "reading" /\ phase = "started" /\ inbound # <<>> /\ inbound' = Tail(inbound)
      /\ UNCHANGED <<phase, rpc, outputs, poisoned, resizing, completed, sLease>>
  BY DEF Shell!Receive
<1>2. /\ sProducer["loop"] = "idle"
      /\ sProducer'["loop"] = "idle" /\ sSent' = sSent /\ SQ!Stream' = SQ!Stream
  <2>1. sProducer["loop"] = "idle"
    BY <1>1 DEF ShellInv, ShellLoopInv
  <2>2. CASE UNCHANGED shellQueueVars
    BY <2>1, <2>2 DEF shellQueueVars, SQ!Stream
  <2>3. ASSUME NEW failed \in BOOLEAN, SQ!End(failed)
        PROVE  sProducer'["loop"] = "idle" /\ sSent' = sSent /\ SQ!Stream' = SQ!Stream
    BY <2>1, <2>3, QueueIsEnded
  <2> QED BY <2>1, <2>2, <2>3 DEF Settles
<1>3. sSent["loop"] \in Nat
  BY ShellAssumption DEF ShellInv, SQ!IInv, SQ!TypeOK
<1>4. /\ ResponsesInv'
      /\ Head(inbound).kind \in LastKinds => outputs = sSent["loop"]
      /\ terminal => Head(inbound).kind \in OverKinds
  <2>1. sSent'["loop"] = sSent["loop"] + (IF Head(inbound).kind = "output" THEN 1 ELSE 0)
    BY <1>2, <1>3
  <2>2. sLoop' \in {"settling", "done"} => Head(inbound).kind \in OverKinds
    OBVIOUS
  <2> QED BY <1>1, <2>1, <2>2, ReadResponses
<1>5. ShellEndInv'
  <2> USE DEF ShellInv, ShellEndInv, Shell!settled, Shell!NoCode
  <2>1. CASE /\ UNCHANGED <<exitCode, outcome, shellQueueVars>>
             /\ terminal' \/ sLoop' = "settling" => Shell!settled
    BY <1>1, <1>2, <2>1 DEF shellQueueVars
  <2>2. CASE Settles("error", TRUE) /\ UNCHANGED exitCode
    <3>1. sClosed' /\ sError' = TRUE
      BY <2>2, QueueIsEnded DEF Settles
    <3> QED BY <1>1, <1>2, <2>2, <3>1 DEF Settles
  <2>3. CASE /\ Settles("result", FALSE) /\ exitCode' \in ExitCodes
             /\ terminal' /\ Head(inbound).kind \in LastKinds
    <3>1. /\ ~sClosed /\ sClosed' /\ sError' = FALSE
          /\ sEnded' = "error" => sEnded = "error"
      BY <2>3, QueueIsEnded DEF Settles
    <3>2. Len(SQ!Stream) = sSent["loop"]
      BY <1>2, <3>1 DEF SQ!InStep
    <3>3. exitCode' # -1
      BY <2>3, ShellAssumption
    <3>4. sEnded # "error"
      BY <2>3 DEF Settles
    <3> QED BY <1>1, <1>2, <1>4, <2>3, <3>1, <3>2, <3>3, <3>4 DEF Settles
  <2> QED BY <2>1, <2>2, <2>3
<1>6. ShellLoopInv'
  BY <1>1, <1>2 DEF ShellInv, ShellLoopInv
<1>7. ShellGateInv'
  BY <1>1 DEF ShellInv, ShellGateInv
<1> QED BY <1>4, <1>5, <1>6, <1>7 DEF ShellRest

LEMMA ReceiveRest ==
    ASSUME ShellInv,
           \/ Shell!ReceiveReady \/ Shell!ReceiveExit \/ Shell!ReceiveError
           \/ Shell!ReceiveEnd \/ Shell!ReceiveFailure
    PROVE  ShellRest'
<1> DEFINE k == Head(inbound).kind
<1>1. terminal \/ Shell!settled => Shell!settled
  BY DEF ShellInv, ShellEndInv
<1>2. \A failed \in BOOLEAN : Shell!Queue!End(failed) <=> SQ!End(failed)
  BY SameShellQueue
<1>3. ASSUME Shell!Receive({"exit"}) \/ Shell!Receive({"error"}) \/ Shell!Receive({"end"})
                \/ Shell!Receive({"failed"}) \/ Shell!Receive({"ready"})
      PROVE  Head(inbound) \in Shell!Messages /\ sLoop = "reading"
  <2>1. inbound \in Seq(Shell!Messages) /\ inbound # <<>> /\ sLoop = "reading"
    BY <1>3 DEF ShellInv, ShellTypes, Shell!TypeOK, Shell!Receive
  <2> QED BY <2>1, HeadTailProperties
<1>4. ASSUME Shell!Reject PROVE ~Shell!settled => Settles("error", TRUE) /\ UNCHANGED exitCode
  BY <1>2, <1>4 DEF Shell!Reject, Shell!Queue!Fail, Settles
<1>5. ASSUME UNCHANGED <<Shell!procVars, Shell!queueVars>>
      PROVE  UNCHANGED <<exitCode, outcome, shellQueueVars>>
  BY <1>5 DEF Shell!procVars, Shell!queueVars, shellQueueVars
<1> USE DEF OverKinds, LastKinds, Shell!FailGate
<1>6. CASE Shell!ReceiveReady
  <2>1. Shell!Receive({"ready"}) /\ UNCHANGED <<terminal, sLoop, exitCode, outcome, shellQueueVars>>
        /\ (gate' = gate \/ gate = "pending")
    BY <1>6 DEF Shell!ReceiveReady, Shell!queueVars, shellQueueVars
  <2>2. k = "ready"
    BY <2>1 DEF Shell!Receive
  <2> QED BY <1>1, <1>3, <2>1, <2>2, ReceivedRest
<1>7. CASE Shell!ReceiveExit
  <2>1. Shell!Receive({"exit"}) /\ terminal' = TRUE /\ sLoop' = sLoop
        /\ (gate' = gate \/ gate = "pending")
    BY <1>7 DEF Shell!ReceiveExit
  <2>2. k = "exit" /\ Head(inbound).n \in ExitCodes
    BY <1>3, <2>1, MessageKinds DEF Shell!Receive
  <2>3. CASE Shell!settled
    <3>1. UNCHANGED <<exitCode, outcome, shellQueueVars>>
      BY <1>5, <1>7, <2>3 DEF Shell!ReceiveExit
    <3> QED BY <1>3, <2>1, <2>2, <2>3, <3>1, ReceivedRest
  <2>4. CASE ~Shell!settled
    <3>1. Settles("result", FALSE) /\ exitCode' \in ExitCodes
      BY <1>2, <1>7, <2>2, <2>4 DEF Shell!ReceiveExit, Shell!Resolve, Shell!Queue!Close, Settles
    <3> QED BY <1>3, <2>1, <2>2, <3>1, ReceivedRest
  <2> QED BY <2>3, <2>4
<1>8. CASE Shell!ReceiveError
  <2>1. Shell!Receive({"error"}) /\ terminal' = TRUE /\ sLoop' = sLoop
        /\ (gate' = gate \/ gate = "pending")
    BY <1>8 DEF Shell!ReceiveError
  <2>2. k = "error"
    BY <2>1 DEF Shell!Receive
  <2>3. CASE Shell!settled
    <3>1. UNCHANGED <<exitCode, outcome, shellQueueVars>>
      BY <1>5, <1>8, <2>3 DEF Shell!ReceiveError
    <3> QED BY <1>3, <2>1, <2>2, <2>3, <3>1, ReceivedRest
  <2>4. CASE ~Shell!settled
    <3>1. Settles("error", TRUE) /\ UNCHANGED exitCode
      BY <1>4, <1>8, <2>4 DEF Shell!ReceiveError
    <3> QED BY <1>3, <2>1, <2>2, <3>1, ReceivedRest
  <2> QED BY <2>3, <2>4
<1>9. CASE Shell!ReceiveEnd
  <2>1. Shell!Receive({"end"}) /\ terminal' = terminal /\ sLoop' = "settling"
        /\ (gate' = gate \/ gate = "pending")
    BY <1>9 DEF Shell!ReceiveEnd
  <2>2. k = "end"
    BY <2>1 DEF Shell!Receive
  <2>3. CASE terminal \/ Shell!settled
    <3>1. UNCHANGED <<exitCode, outcome, shellQueueVars>>
      BY <1>5, <1>9, <2>3 DEF Shell!ReceiveEnd
    <3> QED BY <1>1, <1>3, <2>1, <2>2, <2>3, <3>1, ReceivedRest
  <2>4. CASE ~(terminal \/ Shell!settled)
    <3>1. Settles("error", TRUE) /\ UNCHANGED exitCode
      BY <1>4, <1>9, <2>4 DEF Shell!ReceiveEnd
    <3> QED BY <1>3, <2>1, <2>2, <3>1, ReceivedRest
  <2> QED BY <2>3, <2>4
<1>10. CASE Shell!ReceiveFailure
  <2>1. Shell!Receive({"failed"}) /\ terminal' = terminal /\ sLoop' = "settling"
        /\ (gate' = gate \/ gate = "pending")
    BY <1>10 DEF Shell!ReceiveFailure
  <2>2. k = "failed"
    BY <2>1 DEF Shell!Receive
  <2>3. CASE Shell!settled
    <3>1. UNCHANGED <<exitCode, outcome, shellQueueVars>>
      BY <1>5, <1>10, <2>3 DEF Shell!ReceiveFailure
    <3> QED BY <1>3, <2>1, <2>2, <2>3, <3>1, ReceivedRest
  <2>4. CASE ~Shell!settled
    <3>1. Settles("error", TRUE) /\ UNCHANGED exitCode
      BY <1>4, <1>10, <2>4 DEF Shell!ReceiveFailure
    <3> QED BY <1>3, <2>1, <2>2, <3>1, ReceivedRest
  <2> QED BY <2>3, <2>4
<1> QED BY <1>6, <1>7, <1>8, <1>9, <1>10

\* The reader takes output, the loop pushes and waits, and after the end it settles.
LEMMA QueueRest ==
    ASSUME ShellInv, ShellQueueSteps,
           Shell!ReceiveOutput \/ Shell!ResumePush \/ Shell!Read \/ Shell!PushReturns \/ Shell!Settle
    PROVE  ShellRest'
<1>1. sClosed => sClosed' /\ sError' = sError /\ SQ!Stream' = SQ!Stream
  BY ShellQueueKept DEF ShellInv
<1>2. CASE Shell!ReceiveOutput
  <2>1. SQ!Push("loop") /\ Shell!Receive({"output"}) /\ sLoop' = "pushing"
        /\ UNCHANGED <<gate, terminal, exitCode, outcome>>
    BY <1>2, SameShellQueue DEF Shell!ReceiveOutput, Shell!procVars
  <2>2. /\ sLoop = "reading" /\ phase = "started" /\ inbound # <<>> /\ inbound' = Tail(inbound)
        /\ Head(inbound).kind = "output"
        /\ UNCHANGED <<phase, rpc, outputs, poisoned, resizing, completed, sLease>>
    BY <2>1 DEF Shell!Receive
  <2>3. /\ sClosed' = sClosed /\ sError' = sError
        /\ sEnded' = "error" => sEnded = "error" \/ sError
        /\ sSent'["loop"] = sSent["loop"] + 1
    BY <2>1, QueueCarriesOn
  <2>4. ResponsesInv'
    BY <2>1, <2>2, <2>3, ReadResponses
  <2>5. ShellEndInv'
    BY <1>1, <2>1, <2>2, <2>3 DEF ShellInv, ShellEndInv, Shell!settled, Shell!NoCode
  <2>6. ShellLoopInv' /\ ShellGateInv'
    BY <2>1, <2>2 DEF ShellInv, ShellLoopInv, ShellGateInv
  <2> QED BY <2>4, <2>5, <2>6 DEF ShellRest
<1>3. CASE Shell!ResumePush \/ Shell!Read
  <2>1. /\ UNCHANGED <<phase, rpc, inbound, outputs, sLoop, terminal, sLease, exitCode, outcome,
                       gate, poisoned, resizing, completed>>
        /\ SQ!Resume("loop") \/ SQ!NextCall("reader")
    BY <1>3, SameShellQueue DEF Shell!ResumePush, Shell!Read, Shell!callVars, Shell!loopVars,
       Shell!procVars, Shell!inputVars
  <2>2. /\ sClosed' = sClosed /\ sError' = sError /\ sSent' = sSent
        /\ sEnded' = "error" => sEnded = "error" \/ sError
        /\ sProducer'["loop"] # "idle" => sProducer["loop"] # "idle"
    <3>1. SQ!Resume("loop") => sProducer["loop"] # "idle"
      BY DEF SQ!Resume
    <3> QED BY <2>1, <3>1, QueueCarriesOn
  <2>3. ResponsesInv'
    BY <2>1, <2>2 DEF ShellInv, ResponsesInv
  <2>4. ShellEndInv'
    BY <1>1, <2>1, <2>2 DEF ShellInv, ShellEndInv, Shell!settled, Shell!NoCode
  <2>5. ShellLoopInv' /\ ShellGateInv'
    BY <2>1, <2>2 DEF ShellInv, ShellLoopInv, ShellGateInv
  <2> QED BY <2>3, <2>4, <2>5 DEF ShellRest
<1>4. CASE Shell!PushReturns \/ Shell!Settle
  <2>1. /\ UNCHANGED <<phase, rpc, inbound, outputs, terminal, exitCode, outcome,
                       gate, poisoned, resizing, shellQueueVars>>
        /\ \/ sLoop = "pushing" /\ sProducer["loop"] = "idle" /\ sLoop' = "reading"
              /\ UNCHANGED <<sLease, completed>>
           \/ sLoop = "settling" /\ sLoop' = "done" /\ completed'
    BY <1>4 DEF Shell!PushReturns, Shell!Settle, Shell!callVars, Shell!loopVars, Shell!procVars,
       Shell!inputVars, Shell!queueVars, shellQueueVars
  <2>2. SQ!Stream' = SQ!Stream
    BY <2>1 DEF shellQueueVars, SQ!Stream
  <2>3. ResponsesInv'
    BY <2>1 DEF ShellInv, ResponsesInv, shellQueueVars
  <2>4. ShellEndInv'
    BY <2>1, <2>2 DEF ShellInv, ShellEndInv, Shell!settled, Shell!NoCode, shellQueueVars
  <2>5. ShellLoopInv' /\ ShellGateInv'
    BY <2>1 DEF ShellInv, ShellLoopInv, ShellGateInv, shellQueueVars
  <2> QED BY <2>3, <2>4, <2>5 DEF ShellRest
<1> QED BY <1>2, <1>3, <1>4

\* cancel(), and input that the gate refuses, abort the call.
LEMMA AbortingRest ==
    ASSUME ShellInv, Shell!Cancel \/ Shell!OpRefused \/ Shell!ResizeRefused
    PROVE  ShellRest'
<1>1. Shell!Abort /\ UNCHANGED <<phase, outputs, sLoop, terminal, sLease, completed, exitCode>>
  BY DEF Shell!Cancel, Shell!OpRefused, Shell!ResizeRefused, Shell!GateFails, Shell!InputOnly,
     Shell!loopVars, Shell!procVars
<1>2. CASE Shell!Cancel
  <2>1. /\ Settles("cancelled", TRUE) /\ UNCHANGED <<poisoned, resizing>>
        /\ (gate' = gate \/ gate = "pending") /\ phase = "started"
    BY <1>2, SameShellQueue DEF Shell!Cancel, Shell!Queue!Fail, Shell!FailGate, Settles
  <2>2. /\ ~sClosed /\ sClosed' /\ sError' = TRUE /\ sSent' = sSent
        /\ sProducer'["loop"] = "idle" <=> sProducer["loop"] = "idle"
    BY <2>1, QueueIsEnded DEF Settles
  <2>3. ResponsesInv' /\ rpc' # "open"
    BY <1>1, <2>2, AbortResponses
  <2>4. ShellEndInv'
    BY <1>1, <2>1, <2>2, <2>3 DEF ShellInv, ShellEndInv, Settles, Shell!settled, Shell!NoCode
  <2>5. ShellLoopInv' /\ ShellGateInv'
    BY <1>1, <2>1, <2>2, <2>3 DEF ShellInv, ShellLoopInv, ShellGateInv
  <2> QED BY <2>3, <2>4, <2>5 DEF ShellRest
<1>3. CASE Shell!OpRefused \/ Shell!ResizeRefused
  <2>1. gate' = "failed" /\ UNCHANGED <<outcome, shellQueueVars>>
    BY <1>3 DEF Shell!OpRefused, Shell!ResizeRefused, Shell!GateFails, Shell!InputOnly,
       Shell!procVars, Shell!queueVars, shellQueueVars
  <2>2. SQ!Stream' = SQ!Stream /\ sSent' = sSent
    BY <2>1 DEF shellQueueVars, SQ!Stream
  <2>3. ResponsesInv' /\ rpc' # "open"
    BY <1>1, <2>2, AbortResponses
  <2>4. ShellEndInv'
    BY <1>1, <2>1, <2>2, <2>3 DEF ShellInv, ShellEndInv, Shell!settled, Shell!NoCode, shellQueueVars
  <2>5. ShellLoopInv' /\ ShellGateInv'
    BY <1>1, <2>1, <2>3 DEF ShellInv, ShellLoopInv, ShellGateInv, shellQueueVars
  <2> QED BY <2>3, <2>4, <2>5 DEF ShellRest
<1> QED BY <1>2, <1>3

LEMMA ShellRestNext ==
    ASSUME ShellInv, Shell!Next \/ UNCHANGED shellVars, ShellQueueSteps
    PROVE  ShellRest'
<1>1. CASE UNCHANGED shellVars
  <2>1. UNCHANGED shellQueueVars /\ UNCHANGED <<phase, rpc, inbound, outputs, sLoop, terminal,
          sLease, exitCode, outcome, gate, completed, poisoned, resizing>>
    BY <1>1 DEF shellVars, shellQueueVars
  <2> QED BY <2>1, QuietRest
<1>2. CASE \/ Shell!ServerSends \/ Shell!SignalAborts \/ Shell!StartSucceeds \/ Shell!StartFails
  BY <1>2, EnvironmentRest
<1>3. CASE \/ Shell!ReceiveReady \/ Shell!ReceiveExit \/ Shell!ReceiveError
           \/ Shell!ReceiveEnd \/ Shell!ReceiveFailure
  BY <1>3, ReceiveRest
<1>4. CASE \/ Shell!ReceiveOutput \/ Shell!ResumePush \/ Shell!Read \/ Shell!PushReturns
           \/ Shell!Settle
  BY <1>4, QueueRest
<1>5. CASE Shell!Cancel \/ Shell!OpRefused \/ Shell!ResizeRefused
  BY <1>5, AbortingRest
<1>6. CASE Shell!StopReading
  <2>1. UNCHANGED shellQueueVars /\ UNCHANGED <<phase, rpc, inbound, outputs, sLoop, terminal,
          sLease, exitCode, outcome, gate, completed, poisoned, resizing>>
    BY <1>6 DEF Shell!StopReading, Shell!callVars, Shell!loopVars, Shell!procVars,
       Shell!inputVars, Shell!queueVars, shellQueueVars
  <2> QED BY <2>1, QuietRest
<1>7. CASE \/ Shell!Write \/ Shell!CloseStdin \/ Shell!Resize \/ Shell!BeginOp \/ Shell!SendOp
           \/ Shell!OpFails \/ Shell!CompleteClose \/ Shell!SendResize \/ Shell!ResizeFails
  <2> USE DEF Shell!SendOnly, Shell!InputOnly
  <2>1. /\ UNCHANGED shellQueueVars
        /\ UNCHANGED <<phase, rpc, inbound, outputs, sLoop, terminal, sLease, exitCode, outcome, gate>>
    BY <1>7 DEF Shell!Write, Shell!CloseStdin, Shell!Enqueue, Shell!Resize, Shell!BeginOp,
       Shell!SendOp, Shell!OpFails, Shell!CompleteClose, Shell!SendResize, Shell!ResizeFails,
       Shell!loopVars, Shell!procVars, Shell!queueVars, shellQueueVars
  <2>2. /\ completed => completed'
        /\ poisoned' \/ resizing' = "rejected" =>
               poisoned \/ resizing = "rejected" \/ gate = "ready"
    BY <1>7 DEF Shell!Write, Shell!CloseStdin, Shell!Enqueue, Shell!Resize, Shell!BeginOp,
       Shell!SendOp, Shell!OpFails, Shell!CompleteClose, Shell!SendResize, Shell!ResizeFails,
       Shell!SendRejected
  <2> QED BY <2>1, <2>2, QuietRest
<1> QED BY <1>1, <1>2, <1>3, <1>4, <1>5, <1>6, <1>7
        DEF Shell!Next, Shell!LoopStep, Shell!InputStep

LEMMA ShellInvNext == ShellInv /\ [MCNext]_both => ShellInv'
<1> SUFFICES ASSUME ShellInv, Shell!Next \/ UNCHANGED shellVars PROVE ShellInv'
  BY DEF MCNext, OnlyLog, OnlyShell, both
<1>1. ShellQueueSteps
  BY ShellQueueTakesPart
<1>2. SQ!IInv' /\ SQ!InStep("loop")'
  BY <1>1, ShellQueueKept DEF ShellInv
<1>3. Shell!Queue!TypeOK'
  <2>1. SQ!TypeOK'
    BY <1>2 DEF SQ!IInv
  <2> QED BY <2>1 DEF Shell!Queue!TypeOK, SQ!TypeOK, Shell!Queue!Items, SQ!Items
<1>4. ShellTypes'
  BY <1>3, ShellTypesNext
<1>5. ShellRest'
  BY <1>1, ShellRestNext
<1> QED BY <1>2, <1>4, <1>5 DEF ShellInv, ShellRest

LEMMA ShellInvInit == MCInit => ShellInv
<1> SUFFICES ASSUME Shell!Init PROVE ShellInv
  BY DEF MCInit
<1>1. SQ!Init
  BY SameShellQueue DEF Shell!Init
<1>2. SQ!IInv
  BY <1>1, ShellAssumptions, SQ!InitInv
<1>3. /\ Len(SQ!Stream) = 0 /\ sProducer["loop"] = "idle" /\ sSent["loop"] = 0
  <2>1. Len(<<>> \o <<>>) = 0
    BY EmptySeq, ConcatProperties
  <2> QED BY <1>1, <2>1 DEF SQ!Init, SQ!Stream
<1>4. SQ!InStep("loop")
  BY <1>3, <1>1 DEF SQ!InStep
<1>5. /\ Len(inbound) = 0 /\ Cardinality(OutputsOf(inbound)) = 0
      /\ Len(accepted) = 0 /\ inbound \in Seq(Shell!Messages) /\ accepted \in Seq({"write", "close"})
  <2>1. /\ Len(inbound) = 0 /\ Len(accepted) = 0 /\ inbound \in Seq(Shell!Messages)
        /\ accepted \in Seq({"write", "close"})
    BY EmptySeq DEF Shell!Init
  <2>2. \A i \in 1..Len(inbound) : inbound[i].kind \in OverKinds
    BY <2>1
  <2>3. Cardinality(OutputsOf(inbound)) = 0
    BY <2>1, <2>2, NoOutputs
  <2> QED BY <2>1, <2>3
<1>6. ShellTypes
  <2>1. Shell!Queue!TypeOK
    BY <1>2, SameShellQueue DEF SQ!IInv
  <2>2. outputs \in 0..MaxOutputs /\ done \in 0..MaxOps /\ exitCode \in ExitCodes \cup {Shell!NoCode}
    BY ShellAssumption DEF Shell!Init
  <2>3. /\ phase = "starting" /\ rpc = "open" /\ sLoop = "reading" /\ ~terminal /\ ~completed
        /\ terminal \in BOOLEAN /\ completed \in BOOLEAN /\ sIsClosed \in BOOLEAN
        /\ poisoned \in BOOLEAN /\ reading \in BOOLEAN /\ head = "idle"
    BY DEF Shell!Init
  <2>4. Len(accepted) <= MaxOps /\ done <= Len(accepted)
    BY <1>5, ShellAssumption DEF Shell!Init
  <2>5. /\ sFailure = "none" /\ sLease = "held" /\ status = "starting" /\ outcome = "pending"
        /\ gate = "pending" /\ resizing = "none"
    BY DEF Shell!Init
  <2> QED BY <1>5, <2>1, <2>2, <2>3, <2>4, <2>5 DEF ShellTypes, Shell!TypeOK
<1>7. ResponsesInv
  BY <1>3, <1>5 DEF ResponsesInv, Shell!Init
<1>8. ShellEndInv
  BY <1>1 DEF ShellEndInv, Shell!Init, SQ!Init, Shell!settled, Shell!NoCode
<1>9. ShellLoopInv /\ ShellGateInv
  BY <1>3 DEF ShellLoopInv, ShellGateInv, Shell!Init
<1> QED BY <1>2, <1>4, <1>6, <1>7, <1>8, <1>9 DEF ShellInv

LEMMA ShellWholeHolds == ShellInv => ShellWhole
<1> SUFFICES ASSUME ShellInv PROVE ShellWhole
  OBVIOUS
<1>1. Shell!OutputComplete
  <2> SUFFICES ASSUME outcome = "result"
               PROVE  SQ!Stream = [i \in 1..outputs |-> <<"loop", i>>]
    BY SameShellQueue DEF Shell!OutputComplete
  <2>1. SQ!Stream \in Seq(SQ!Items)
    BY ConcatProperties DEF ShellInv, SQ!IInv, SQ!TypeOK, SQ!Stream
  <2>2. Len(SQ!Stream) = outputs
    BY DEF ShellInv, ShellEndInv
  <2>3. SQ!Stream \in [1..outputs -> SQ!Items]
    BY <2>1, <2>2, LenProperties
  <2>4. \A i \in 1..outputs : SQ!Stream[i] = <<"loop", i>>
    BY <2>2 DEF ShellInv, SQ!InStep
  <2> QED BY <2>3, <2>4
<1>2. Shell!OneEnd
  <2>1. /\ Shell!settled <=> sClosed
        /\ sError <=> outcome \in {"error", "cancelled"}
        /\ exitCode # Shell!NoCode <=> outcome = "result"
        /\ sEnded = "error" => outcome \in {"error", "cancelled"}
        /\ outcome = "cancelled" => rpc # "open"
    BY DEF ShellInv, ShellEndInv
  <2>2. phase = "started" /\ sLease # "held" => Shell!settled /\ completed /\ rpc # "open"
    BY DEF ShellInv, ShellEndInv, ShellLoopInv, ResponsesInv
  <2>3. gate = "failed" /\ (poisoned \/ resizing = "rejected") => rpc # "open"
    BY DEF ShellInv, ShellGateInv
  <2> QED BY <2>1, <2>2, <2>3 DEF Shell!OneEnd
<1> QED BY <1>1, <1>2 DEF ShellWhole

\* Beside whatever log, the shell of streaming/terminal-session.ts keeps the types of
\* its state, its queue's included.
THEOREM ShellTypeCorrect == MCSpec => []Shell!TypeOK
<1>1. ShellInv => Shell!TypeOK
  BY DEF ShellInv, ShellTypes
<1> QED BY <1>1, ShellInvInit, ShellInvNext, PTL DEF MCSpec

\* A shell that exited gives its reader every output frame the server sent, however
\* far behind the reader is; and its reader, wait() and exitCode hear of one end,
\* with the call over before the lease goes back and behind input that was refused
\* (transports/node-grpc/terminal-stream.ts, streaming/terminal-session.ts).
THEOREM ShellIsWhole == MCSpec => []ShellWhole
<1> QED BY ShellInvInit, ShellInvNext, ShellWholeHolds, PTL DEF MCSpec

=============================================================================
