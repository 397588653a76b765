------------------------------ MODULE LogStream ------------------------------
(***************************************************************************)
(* One log stream: the loop that reads the server's entries                *)
(* (transports/node-grpc/log-stream.ts), the object that cuts them into    *)
(* lines (streaming/log-stream.ts), its queue (module AsyncQueue), the     *)
(* user who reads it in a for-await loop and the one who ends it.          *)
(*                                                                         *)
(* The loop and a closing flush push into the same queue, and each waits   *)
(* for room.  Text is a sequence of one-byte pieces, text or newline, and  *)
(* the string in the line buffer, a line or a chunk is a range of them:    *)
(* pieces at[1] + 1 to at[2] of the log.  An action runs from one await to *)
(* the next.                                                               *)
(***************************************************************************)
EXTENDS Naturals, Sequences

CONSTANTS
    MaxLineBuffer, \* MAX_LINE_BUFFER_BYTES
    Capacity,      \* capacity of the queue
    MaxLog,        \* bound on the pieces the server sends
    MaxEntry       \* bound on the pieces of one entry

ASSUME LogAssumption ==
    /\ MaxLineBuffer \in Nat \ {0} /\ Capacity \in Nat /\ Capacity >= 2
    /\ MaxLog \in Nat /\ MaxEntry \in Nat

VARIABLES
    mode,       \* LogStreamMode; an entry differs from a line by metadata only
    call,       \* the RPC: open, aborted here, over
    log,        \* what the loop has read of the log
    loop,       \* where collectLogStream is
    buffer,     \* the line buffer
    part,       \* what the loop has yet to push of the text it split
    isClosed,
    by,         \* who ends the stream: nobody, the reader, another user
    ending,     \* where that cancel() or close() is
    failure,    \* settledError: none, UNAVAILABLE, another
    lease,      \* the direct lease: held, released, discarded
    text,       \* the range each producer's pushes carry
    items, waitingConsumers, waitingProducers, closed, error, producer,
    next, sent, delivered, lost, ended \* the queue

Queue == INSTANCE AsyncQueue WITH
    Producers <- {"loop", "flush"}, Calls <- {"reader"},
    MaxPushes <- MaxLog, call <- next

queueVars == <<items, waitingConsumers, waitingProducers, closed, error,
               producer, next, sent, delivered, lost, ended>>
lineVars == <<log, buffer, part>>
vars == <<mode, call, lineVars, loop, isClosed, by, ending, failure, lease,
          text, queueVars>>

Ranges == {r \in (0..MaxLog) \X (0..MaxLog) : r[1] <= r[2]}
Empty(r) == r[1] = r[2]
Size(r) == r[2] - r[1]

TypeOK ==
    /\ mode \in {"lines", "raw"}
    /\ call \in {"open", "aborted", "over"}
    /\ log \in Seq({"text", "newline"}) /\ Len(log) <= MaxLog
    /\ loop \in {"reading", "raw", "lines", "long", "flushing", "settling", "done"}
    /\ buffer \in Ranges
    /\ part \in Ranges
    /\ isClosed \in BOOLEAN
    /\ by \in {"nobody", "reader", "other"}
    /\ ending \in {"no", "cancelling", "closing", "flushing", "done"}
    /\ failure \in {"none", "unavailable", "other"}
    /\ lease \in {"held", "released", "discarded"}
    /\ text \in [{"loop", "flush"} -> Seq(Ranges)]
    /\ Queue!TypeOK

Init ==
    /\ mode \in {"lines", "raw"}
    /\ call = "open"
    /\ log = <<>>
    /\ loop = "reading"
    /\ buffer = <<0, 0>>
    /\ part = <<0, 0>>
    /\ isClosed = FALSE
    /\ by = "nobody"
    /\ ending = "no"
    /\ failure = "none"
    /\ lease = "held"
    /\ text = [p \in {"loop", "flush"} |-> <<>>]
    /\ Queue!Init

callerAborted == by # "nobody"

----------------------------------------------------------------------------
(* The queue takes part in steps of AsyncQueue.                            *)

\* p begins to push range r, or finds that its push has returned.
Push(p, r) ==
    /\ Queue!Push(p)
    /\ text' = [text EXCEPT ![p] = Append(@, r)]
Pushed(p) == producer[p] = "idle"

NoPush == UNCHANGED <<queueVars, text>>

\* close() and fail() do nothing on a closed queue.
CloseQueue ==
    /\ IF closed THEN UNCHANGED queueVars ELSE Queue!Close
    /\ UNCHANGED text
FailQueue ==
    /\ IF closed THEN UNCHANGED queueVars ELSE Queue!Fail
    /\ UNCHANGED text

\* Steps of the queue that are not a step of the stream: the continuation of
\* a woken push, and the reader's next(), which the reader does not call
\* while it awaits cancel() or close() in the body of its loop.
QueueOnly ==
    UNCHANGED <<mode, call, lineVars, loop, isClosed, by, ending, failure,
                lease, text>>
Resume(p) == Queue!Resume(p) /\ QueueOnly
Ending == ending \notin {"no", "done"}
Read ==
    /\ ended = "no"
    /\ ~(by = "reader" /\ Ending)
    /\ Queue!NextCall("reader")
    /\ QueueOnly

----------------------------------------------------------------------------
(* The loop that reads the server's entries and cuts them into lines.      *)

LoopOnly == UNCHANGED <<mode, by, ending, lease>>

Newlines(r, pieces) == {i \in (r[1] + 1)..r[2] : pieces[i] = "newline"}

\* From one pushLine() to the next for the text in range r: its first line,
\* or what remains after the last one if that is too long for the buffer,
\* which keeps the text it was split from until then.
PushLines(r, pieces, before) ==
    LET ends == Newlines(r, pieces)
        first == CHOOSE i \in ends : \A j \in ends : i <= j
    IN  \/ /\ ends # {}
           /\ Push("loop", <<r[1], first>>)
           /\ part' = <<first, r[2]>>
           /\ buffer' = before
           /\ loop' = "lines"
        \/ /\ ends = {} /\ Size(r) >= MaxLineBuffer
           /\ Push("loop", r)
           /\ part' = r
           /\ buffer' = r
           /\ loop' = "long"
        \/ /\ ends = {} /\ Size(r) < MaxLineBuffer
           /\ NoPush
           /\ part' = r
           /\ buffer' = r
           /\ loop' = "reading"

\* An entry arrives.  A closed stream drops it; a raw one pushes it whole.
ReceiveData ==
    /\ loop = "reading" /\ call # "over"
    /\ \E n \in 1..MaxEntry : \E entry \in [1..n -> {"text", "newline"}] :
        /\ Len(log) + n <= MaxLog
        /\ \/ isClosed /\ NoPush /\ UNCHANGED <<lineVars, loop>>
           \/ /\ ~isClosed
              /\ log' = log \o entry
              /\ \/ /\ mode = "raw"
                    /\ Push("loop", <<Len(log), Len(log) + n>>)
                    /\ loop' = "raw"
                    /\ UNCHANGED <<buffer, part>>
                 \/ /\ mode = "lines"
                    /\ LET r == <<buffer[1], Len(log) + n>>
                       IN  PushLines(r, log', r)
    /\ LoopOnly /\ UNCHANGED <<call, isClosed, failure>>

\* A push of the loop has returned.
RawPushed ==
    /\ loop = "raw" /\ Pushed("loop")
    /\ loop' = "reading"
    /\ LoopOnly /\ NoPush /\ UNCHANGED <<call, isClosed, failure, lineVars>>
LinePushed ==
    /\ loop = "lines" /\ Pushed("loop")
    /\ PushLines(part, log, buffer)
    /\ LoopOnly /\ UNCHANGED <<call, isClosed, failure, log>>

\* Mutant: the long line stays in the buffer.
LongPushedStays ==
    /\ loop = "long" /\ Pushed("loop")
    /\ buffer' = part
    /\ loop' = "reading"
    /\ LoopOnly /\ NoPush /\ UNCHANGED <<call, isClosed, failure, log, part>>

LongPushed ==
    /\ loop = "long" /\ Pushed("loop")
    /\ buffer' = <<part[2], part[2]>>
    /\ loop' = "reading"
    /\ LoopOnly /\ NoPush /\ UNCHANGED <<call, isClosed, failure, log, part>>

\* An error entry, a failed call or an aborted one.  Who cancelled or closed
\* the stream is told nothing.
StreamFails ==
    /\ loop = "reading" /\ call # "over"
    /\ call' = "over"
    /\ loop' = "settling"
    /\ \/ callerAborted /\ NoPush /\ UNCHANGED <<isClosed, failure>>
       \/ /\ ~callerAborted
          /\ failure' \in {"other"} \cup IF call = "open" THEN {"unavailable"} ELSE {}
          /\ isClosed' = TRUE
          /\ FailQueue
    /\ LoopOnly /\ UNCHANGED lineVars

\* The server's stream ends: dispatch({ type: "complete" }) flushes the buffer.
StreamEnds ==
    /\ loop = "reading" /\ call # "over"
    /\ call' = "over"
    /\ \/ isClosed /\ NoPush /\ loop' = "settling" /\ UNCHANGED isClosed
       \/ /\ ~isClosed
          /\ isClosed' = TRUE
          /\ \/ Empty(buffer) /\ CloseQueue /\ loop' = "settling"
             \/ ~Empty(buffer) /\ Push("loop", buffer) /\ loop' = "flushing"
    /\ LoopOnly /\ UNCHANGED <<failure, lineVars>>

Flushed ==
    /\ loop = "flushing" /\ Pushed("loop")
    /\ buffer' = <<buffer[2], buffer[2]>>
    /\ CloseQueue
    /\ loop' = "settling"
    /\ LoopOnly /\ UNCHANGED <<call, isClosed, failure, log, part>>

\* onSettled: settleDirectLease(lease, settledError).
Settle ==
    /\ loop = "settling"
    /\ lease' = IF failure = "unavailable" THEN "discarded" ELSE "released"
    /\ loop' = "done"
    /\ NoPush
    /\ UNCHANGED <<mode, call, lineVars, isClosed, by, ending, failure>>

LoopContinues == RawPushed \/ LinePushed \/ LongPushed \/ Flushed \/ Settle

----------------------------------------------------------------------------
(* The users: the reader in the body of its loop, and anybody else.        *)

UserOnly == UNCHANGED <<mode, log, part, loop, failure, lease>>

\* cancel() and close() mark the stream and abort the call at once.
EndBegins(who, how) ==
    /\ ~isClosed
    /\ who = "reader" => delivered # <<>> /\ next["reader"] = "idle" /\ ended = "no"
    /\ isClosed' = TRUE
    /\ by' = who
    /\ ending' = how
    /\ call' = IF call = "open" THEN "aborted" ELSE call
    /\ NoPush /\ UserOnly /\ UNCHANGED buffer

Cancel(who) == EndBegins(who, "cancelling")
Close(who) == EndBegins(who, "closing")

\* Mutant: cancel() leaves it to the loop to close the queue.
CancelLeavesOpen ==
    /\ ending = "cancelling"
    /\ ending' = "done"
    /\ NoPush
    /\ UserOnly /\ UNCHANGED <<call, isClosed, by, buffer>>

CancelEnds ==
    /\ ending = "cancelling"
    /\ CloseQueue
    /\ ending' = "done"
    /\ UserOnly /\ UNCHANGED <<call, isClosed, by, buffer>>

\* flushRemainder() of close() pushes what the buffer holds, and waits.
CloseFlushes ==
    /\ ending = "closing"
    /\ \/ Empty(buffer) /\ CloseQueue /\ ending' = "done"
       \/ ~Empty(buffer) /\ Push("flush", buffer) /\ ending' = "flushing"
    /\ UserOnly /\ UNCHANGED <<call, isClosed, by, buffer>>

CloseEnds ==
    /\ ending = "flushing" /\ Pushed("flush")
    /\ buffer' = <<buffer[2], buffer[2]>>
    /\ CloseQueue
    /\ ending' = "done"
    /\ UserOnly /\ UNCHANGED <<call, isClosed, by>>

\* The request's signal aborts the call, not the stream.
SignalAborts ==
    /\ call = "open"
    /\ call' = "aborted"
    /\ NoPush /\ UserOnly /\ UNCHANGED <<isClosed, by, ending, buffer>>

EndContinues == CancelEnds \/ CloseFlushes \/ CloseEnds

----------------------------------------------------------------------------
Next ==
    \/ ReceiveData \/ StreamFails \/ StreamEnds \/ LoopContinues
    \/ \E who \in {"reader", "other"} : Cancel(who) \/ Close(who)
    \/ EndContinues \/ SignalAborts
    \/ \E p \in {"loop", "flush"} : Resume(p)
    \/ Read

\* The event loop runs what is ready, an aborted call fails, and the reader
\* reads on while it can.  The server owes nothing.
Fairness ==
    /\ WF_vars(LoopContinues)
    /\ WF_vars(EndContinues)
    /\ \A p \in {"loop", "flush"} : WF_vars(Resume(p))
    /\ WF_vars(call = "aborted" /\ StreamFails)
    /\ WF_vars(Read)

Spec == Init /\ [][Next]_vars /\ Fairness

----------------------------------------------------------------------------
(* Properties.                                                             *)

\* What the reader got and will get, in order.
Stream == [i \in 1..Len(Queue!Stream) |->
              text[Queue!Stream[i][1]][Queue!Stream[i][2]]]

\* Every piece of the log up to some place, once and in order.
Gapless(ranges) ==
    \A i \in 1..Len(ranges) : ranges[i][1] = IF i = 1 THEN 0 ELSE ranges[i - 1][2]

\* A newline ends a line and is nowhere inside it.
OneLine(r) == Newlines(r, log) \subseteq {r[2]}

\* What the reader gets is the log, without gap or repetition although
\* pushes wait and the stream is cancelled between them; each item is one
\* line, a line longer than the buffer in parts, or the end of the log.
LineOriented ==
    sent["flush"] = 0 =>
        /\ Gapless(Stream)
        /\ mode = "lines" => \A i \in 1..Len(Stream) :
            /\ OneLine(Stream[i])
            /\ \/ Newlines(Stream[i], log) # {}
               \/ Size(Stream[i]) >= MaxLineBuffer
               \/ call = "over" /\ i = Len(Stream)
            /\ Size(Stream[i]) < MaxLineBuffer + MaxEntry

\* A stream that ends by itself without an error ends behind the whole log,
\* its last line included although no newline ends it.  Who cancels or closes
\* the stream never gets the abort as an error, and the channel is discarded
\* only for an error the reader is told.
EndComplete ==
    /\ closed /\ ~error /\ by = "nobody" =>
           IF Stream = <<>> THEN log = <<>>
           ELSE Stream[Len(Stream)][2] = Len(log)
    /\ by # "nobody" => ~error
    /\ lease = "discarded" => error

\* The two together: what the reader has is a part of the log, and at an end
\* that nobody asked for it is all of it.
LogWhole == LineOriented /\ EndComplete

\* Once the call is over or aborted, the reader is told the end and the lease
\* is given back, if the reader reads on and close() does not make it wait.
EndReachesReader ==
    (call # "open") ~> (\/ ended # "no" /\ lease # "held"
                        \/ sent["flush"] # 0)

\* README: log streams are line-oriented, whatever ends them.
LinesOnly ==
    mode = "lines" => Gapless(Stream) /\ \A i \in 1..Len(Stream) : OneLine(Stream[i])

\* close() may be awaited in the body of the loop that reads the stream.
CloseReturns == ending = "closing" ~> ending = "done"
=============================================================================
