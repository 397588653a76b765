---------------------------- MODULE CommandSession ----------------------------
(***************************************************************************)
(* One streaming command from startCommand() to the release of its lease:  *)
(* the frame generator over the duplex RPC (exec-session.ts), the loop     *)
(* that dispatches its frames (command-stream.ts), the process object the  *)
(* user holds (command-process.ts), its queue of stdin writes and the gate *)
(* that holds them back until the server is ready (stdin-ready-gate.ts).   *)
(*                                                                         *)
(* The server and grpc-js are the environment.  An action runs from one    *)
(* await to the next.  stdout and stderr are treated alike by the code and *)
(* are one stream here; a chunk is its size.  The queue of live chunks is  *)
(* module AsyncQueue, of which only the length matters here.  sentBytes,   *)
(* frames and wire are history.                                            *)
(***************************************************************************)
EXTENDS Integers, Sequences

CONSTANTS
    Limit,        \* bytes the result may hold (bufferedMaxKiB)
    Sizes,        \* sizes of an output chunk
    LiveCapacity, \* places in the live queue
    ExitCodes,    \* exit codes of the command
    MaxFrames,    \* bound on the frames before the last one
    MaxOps        \* bound on the writes and closes of stdin

ASSUME SessionAssumption ==
    /\ Limit \in Nat
    /\ Sizes \subseteq Nat
    /\ LiveCapacity \in Nat
    /\ ExitCodes \subseteq Nat
    /\ MaxFrames \in Nat
    /\ MaxOps \in Nat

VARIABLES
    opts,      \* the caller's stdin and check options
    phase,     \* startCommand(): starting, started, failed
    rpc,       \* the duplex call: open, ended by the server, aborted here
    inbound,   \* responses not yet read by the generator
    loop,      \* where dispatchSessionFrames is
    current,   \* the frame it is dispatching, or dispatched last
    completed, \* requestsCompleted: the request side is half-closed
    lease,     \* the direct lease: held, released, discarded
    status,    \* currentStatus
    exitCode,  \* currentExitCode
    outcome,   \* what waitPromise settled to
    output,    \* OutputAccumulator
    result,    \* the ProcessResult built at exit, <<>> before
    live,      \* chunks waiting in the live queue
    liveEnd,   \* the live queue's end
    gate,      \* the stdin gate, "none" for a command without stdin
    isClosed,  \* stdin takes no more
    accepted,  \* writes and closes put on writeQueue
    done,      \* how many of them have resolved
    poisoned,  \* one was rejected, and with it every later one
    head,      \* where the first unresolved one is
    waiter,    \* a wait() with a time limit
    frames,    \* history: frames the server sent before the last one
    sentBytes, \* history: bytes of output the server sent
    wire       \* history: what was sent on the request side

procVars == <<status, exitCode, outcome, output, result, live, liveEnd>>
opVars == <<isClosed, accepted, done, poisoned, head, wire>>
sentVars == <<frames, sentBytes>>
vars == <<opts, phase, rpc, inbound, loop, current, completed, lease,
          procVars, gate, opVars, waiter, sentVars>>

\* The last response of a call: an exit or error message, a status of OK or
\* a failure.  n is a size, an exit code, or 1 for the code UNAVAILABLE.
Output(size) == [kind |-> "output", n |-> size]
Ready == [kind |-> "ready", n |-> 0]
Last == [kind : {"exit"}, n : ExitCodes]
        \cup [kind : {"error", "failed"}, n : {0, 1}]
        \cup {[kind |-> "end", n |-> 0]}
Frames == {Ready} \cup {Output(s) : s \in Sizes} \cup Last
NoFrame == [kind |-> "none", n |-> 0]
Aborted == [kind |-> "failed", n |-> 0]

NoCode == -1
Summary == [kept : Nat, produced : Nat, truncated : BOOLEAN]
settled == outcome # "pending"

TypeOK ==
    /\ opts \in [stdin : BOOLEAN, check : BOOLEAN]
    /\ phase \in {"starting", "started", "failed"}
    /\ rpc \in {"open", "ended", "aborted"}
    /\ inbound \in Seq(Frames)
    /\ loop \in {"reading", "dispatching", "finishing", "settling", "done"}
    /\ current \in Frames \cup {NoFrame}
    /\ completed \in BOOLEAN
    /\ lease \in {"held", "released", "discarded"}
    /\ status \in {"starting", "running", "exited", "failed", "cancelled"}
    /\ exitCode \in ExitCodes \cup {NoCode}
    /\ outcome \in {"pending", "result", "checkError", "error", "cancelled"}
    /\ output \in Summary
    /\ result \in Summary \cup {<<>>}
    /\ live \in 0..LiveCapacity
    /\ liveEnd \in {"no", "closed", "failed"}
    /\ gate \in {"none", "pending", "ready", "failed"}
    /\ isClosed \in BOOLEAN
    /\ accepted \in Seq({"write", "close"})
    /\ done \in Nat
    /\ poisoned \in BOOLEAN
    /\ head \in {"idle", "waiting", "closing"}
    /\ waiter \in {"none", "waiting", "answered", "gaveUp"}
    /\ frames \in Nat
    /\ sentBytes \in Nat
    /\ wire \in Seq({"write", "close"})

Init ==
    /\ opts \in [stdin : BOOLEAN, check : BOOLEAN]
    /\ phase = "starting"
    /\ rpc = "open"
    /\ inbound = <<>>
    /\ loop = "reading"
    /\ current = NoFrame
    /\ completed = FALSE
    /\ lease = "held"
    /\ status = "starting"
    /\ exitCode = NoCode
    /\ outcome = "pending"
    /\ output = [kept |-> 0, produced |-> 0, truncated |-> FALSE]
    /\ result = <<>>
    /\ live = 0
    /\ liveEnd = "no"
    /\ gate = IF opts.stdin THEN "pending" ELSE "none"
    /\ isClosed = FALSE
    /\ accepted = <<>>
    /\ done = 0
    /\ poisoned = FALSE
    /\ head = "idle"
    /\ waiter = "none"
    /\ frames = 0
    /\ sentBytes = 0
    /\ wire = <<>>

----------------------------------------------------------------------------
(* The environment: the server, and the caller's AbortSignal.              *)

\* The server sends a response.  Its last one ends the call: that a server ends
\* it with the exit or error response is assumed, and LeaseOutlivesCall rests on
\* it, as the client gives the lease back when it has read that response.
ServerSends ==
    /\ rpc = "open"
    /\ \E f \in Frames :
        /\ f \in Last \/ frames < MaxFrames
        /\ inbound' = Append(inbound, f)
        /\ rpc' = IF f \in Last THEN "ended" ELSE "open"
        /\ frames' = IF f \in Last THEN frames ELSE frames + 1
        /\ sentBytes' = IF f.kind = "output" THEN sentBytes + f.n ELSE sentBytes
    /\ UNCHANGED <<opts, phase, loop, current, completed, lease, procVars,
                   gate, opVars, waiter>>

\* abortController.abort(): the call fails behind the responses it already has.
Abort ==
    /\ rpc' = IF rpc = "open" THEN "aborted" ELSE rpc
    /\ inbound' = IF rpc = "open" THEN Append(inbound, Aborted) ELSE inbound

\* The caller's signal is linked to the call, not to the process.
SignalAborts ==
    /\ rpc = "open"
    /\ Abort
    /\ UNCHANGED <<opts, phase, loop, current, completed, lease, procVars,
                   gate, opVars, waiter, sentVars>>

----------------------------------------------------------------------------
(* startCommand(): send the init message, and without stdin half-close.    *)

StartSucceeds ==
    /\ phase = "starting"
    /\ phase' = "started"
    /\ completed' = ~opts.stdin
    /\ UNCHANGED <<opts, rpc, inbound, loop, current, lease, procVars, gate,
                   opVars, waiter, sentVars>>

\* The send is rejected because the call is over: the lease is settled with
\* that error, which may be UNAVAILABLE unless the caller aborted.
StartFails ==
    /\ phase = "starting"
    /\ rpc # "open"
    /\ phase' = "failed"
    /\ lease' \in {"released"} \cup IF rpc = "ended" THEN {"discarded"} ELSE {}
    /\ UNCHANGED <<opts, rpc, inbound, loop, current, completed, procVars,
                   gate, opVars, waiter, sentVars>>

----------------------------------------------------------------------------
(* The dispatch loop.                                                      *)

\* collectExecFrames reads a response, signals the gate and yields a frame.
Receive ==
    /\ phase = "started"
    /\ loop = "reading"
    /\ inbound # <<>>
    /\ current' = Head(inbound)
    /\ inbound' = Tail(inbound)
    /\ gate' = IF gate # "pending" THEN gate
               ELSE IF current' = Ready THEN "ready"
               ELSE IF current' \in Last THEN "failed"
               ELSE gate
    /\ loop' = "dispatching"
    /\ UNCHANGED <<opts, phase, rpc, completed, lease, procVars, opVars,
                   waiter, sentVars>>

Dispatching(kinds) ==
    /\ loop = "dispatching"
    /\ current.kind \in kinds
    /\ UNCHANGED <<opts, phase, rpc, inbound, current, completed, lease, gate,
                   opVars, waiter, sentVars>>

\* Nothing asks here whether the process has settled.
DispatchReady ==
    /\ Dispatching({"ready"})
    /\ status' = "running"
    /\ loop' = "reading"
    /\ UNCHANGED <<exitCode, outcome, output, result, live, liveEnd>>

\* Mutant: what arrives after the limit is not counted.
AppendUncounted(size) ==
    LET room == Limit - output.kept
        taken == IF size > room THEN room ELSE size
    IN  [kept      |-> output.kept + taken,
         produced  |-> IF room = 0 THEN output.produced ELSE output.produced + size,
         truncated |-> output.truncated \/ room = 0 \/ taken < size]

\* OutputAccumulator.append()
AppendChunk(size) ==
    LET room == Limit - output.kept
        taken == IF size > room THEN room ELSE size
    IN  [kept      |-> output.kept + taken,
         produced  |-> output.produced + size,
         truncated |-> output.truncated \/ room = 0 \/ taken < size]

\* Mutant: the loop waits until the reader makes room, as push() would.
DispatchOutputBlocks ==
    /\ Dispatching({"output"})
    /\ liveEnd # "no" \/ live < LiveCapacity
    /\ output' = AppendChunk(current.n)
    /\ live' = IF liveEnd = "no" THEN live + 1 ELSE live
    /\ loop' = "reading"
    /\ UNCHANGED <<status, exitCode, outcome, result, liveEnd>>

\* The chunk is accumulated; the live queue takes it if it has room.
DispatchOutput ==
    /\ Dispatching({"output"})
    /\ output' = AppendChunk(current.n)
    /\ live' = IF liveEnd = "no" /\ live < LiveCapacity THEN live + 1 ELSE live
    /\ loop' = "reading"
    /\ UNCHANGED <<status, exitCode, outcome, result, liveEnd>>

\* Mutant: an exit after the process settled is recorded all the same.
DispatchExitAlways ==
    /\ Dispatching({"exit"})
    /\ loop' = "finishing"
    /\ status' = "exited"
    /\ exitCode' = current.n
    /\ result' = output
    /\ liveEnd' = IF liveEnd = "no" THEN "closed" ELSE liveEnd
    /\ outcome' = IF settled THEN outcome
                  ELSE IF opts.check /\ current.n # 0 THEN "checkError" ELSE "result"
    /\ UNCHANGED <<output, live>>

DispatchExit ==
    /\ Dispatching({"exit"})
    /\ loop' = "finishing"
    /\ IF settled
       THEN UNCHANGED <<status, exitCode, result, liveEnd, outcome>>
       ELSE /\ status' = "exited"
            /\ exitCode' = current.n
            /\ result' = output
            /\ liveEnd' = "closed"
            /\ outcome' = IF opts.check /\ current.n # 0 THEN "checkError" ELSE "result"
    /\ UNCHANGED <<output, live>>

\* Mutant: an end without an exit message yields no error event.
DispatchErrorOnlyIfSent ==
    /\ Dispatching({"error", "end", "failed"})
    /\ loop' = "finishing"
    /\ IF settled \/ current.kind = "end"
       THEN UNCHANGED <<status, outcome, liveEnd>>
       ELSE status' = "failed" /\ outcome' = "error" /\ liveEnd' = "failed"
    /\ UNCHANGED <<exitCode, output, result, live>>

\* An error message, a failed call, or a call that ended without an exit.
DispatchError ==
    /\ Dispatching({"error", "end", "failed"})
    /\ loop' = "finishing"
    /\ IF settled
       THEN UNCHANGED <<status, outcome, liveEnd>>
       ELSE status' = "failed" /\ outcome' = "error" /\ liveEnd' = "failed"
    /\ UNCHANGED <<exitCode, output, result, live>>

Dispatch == DispatchReady \/ DispatchOutput \/ DispatchExit \/ DispatchError

\* Leaving the loop returns the generator, whose finally half-closes.
FinishRequests ==
    /\ loop = "finishing"
    /\ completed' = TRUE
    /\ loop' = "settling"
    /\ UNCHANGED <<opts, phase, rpc, inbound, current, lease, procVars, gate,
                   opVars, waiter, sentVars>>

\* settledError: the error of the frame that ended the loop, not the reason
\* the process settled for.
Unavailable == current.kind \in {"error", "failed"} /\ current.n = 1

\* onSettled: settleDirectLease(lease, settledError).
SettleLease ==
    /\ loop = "settling"
    /\ lease' = IF Unavailable THEN "discarded" ELSE "released"
    /\ loop' = "done"
    /\ UNCHANGED <<opts, phase, rpc, inbound, current, completed, procVars,
                   gate, opVars, waiter, sentVars>>

----------------------------------------------------------------------------
(* The process object.                                                     *)

\* cancel(): settle the process; with stdin also close the writer, fail the
\* gate and abort the call.  Without stdin there is no input to cancel.
Cancel ==
    /\ phase = "started"
    /\ ~settled
    /\ status' = "cancelled"
    /\ outcome' = "cancelled"
    /\ liveEnd' = IF liveEnd = "no" THEN "failed" ELSE liveEnd
    /\ isClosed' = (opts.stdin \/ isClosed)
    /\ gate' = IF gate = "pending" THEN "failed" ELSE gate
    /\ IF opts.stdin THEN Abort ELSE UNCHANGED <<rpc, inbound>>
    /\ UNCHANGED <<opts, phase, loop, current, completed, lease, exitCode,
                   output, result, live, accepted, done, poisoned, head, wire,
                   waiter, sentVars>>

\* The reader of stdout takes a chunk.
ConsumerTakes ==
    /\ live > 0
    /\ live' = live - 1
    /\ UNCHANGED <<opts, phase, rpc, inbound, loop, current, completed, lease,
                   status, exitCode, outcome, output, result, liveEnd, gate,
                   opVars, waiter, sentVars>>

\* waitWithRequestOptions(): a time limit bounds this wait only.
Waiting(from, to) ==
    /\ phase = "started"
    /\ waiter = from
    /\ waiter' = to
    /\ UNCHANGED <<opts, phase, rpc, inbound, loop, current, completed, lease,
                   procVars, gate, opVars, sentVars>>

Wait == Waiting("none", "waiting")
WaitGivesUp == Waiting("waiting", "gaveUp")
WaitAnswered == settled /\ Waiting("waiting", "answered")

----------------------------------------------------------------------------
(* stdin.  write() and close() only join writeQueue; its head waits for the *)
(* gate, which is failed by a timer, and then sends.                       *)

StdinOnly == UNCHANGED <<opts, phase, loop, current, lease, procVars, waiter,
                         sentVars>>

Write ==
    /\ phase = "started"
    /\ opts.stdin
    /\ ~isClosed
    /\ status \notin {"cancelled", "exited", "failed"}
    /\ Len(accepted) < MaxOps
    /\ accepted' = Append(accepted, "write")
    /\ UNCHANGED <<rpc, inbound, completed, gate, isClosed, done, poisoned,
                   head, wire>>
    /\ StdinOnly

CloseStdin ==
    /\ phase = "started"
    /\ opts.stdin
    /\ ~isClosed
    /\ Len(accepted) < MaxOps
    /\ isClosed' = TRUE
    /\ accepted' = Append(accepted, "close")
    /\ UNCHANGED <<rpc, inbound, completed, gate, done, poisoned, head, wire>>
    /\ StdinOnly

\* The next operation of the queue calls awaitStdinReadyOrAbort.
BeginOp ==
    /\ head = "idle"
    /\ ~poisoned
    /\ done < Len(accepted)
    /\ head' = "waiting"
    /\ UNCHANGED <<rpc, inbound, completed, gate, isClosed, accepted, done,
                   poisoned, wire>>
    /\ StdinOnly

\* The operation is rejected, and with it the rest of the queue.
RejectOp ==
    /\ poisoned' = TRUE
    /\ head' = "idle"
    /\ UNCHANGED <<isClosed, accepted, done, wire>>

\* Mutant: the failure of the gate is reported and the call left open.
GateTimeoutWithoutAbort ==
    /\ head = "waiting"
    /\ gate = "pending"
    /\ gate' = "failed"
    /\ RejectOp
    /\ UNCHANGED <<rpc, inbound, completed>>
    /\ StdinOnly

\* The timer of wait() fires first: it fails the gate, the call is aborted.
GateTimeout ==
    /\ head = "waiting"
    /\ gate = "pending"
    /\ gate' = "failed"
    /\ RejectOp
    /\ Abort
    /\ UNCHANGED completed
    /\ StdinOnly

GateFailed ==
    /\ head = "waiting"
    /\ gate = "failed"
    /\ RejectOp
    /\ Abort
    /\ UNCHANGED <<completed, gate>>
    /\ StdinOnly

\* A send may still succeed when the server has just ended the call.
SendOp ==
    /\ head = "waiting"
    /\ gate = "ready"
    /\ rpc # "aborted"
    /\ ~completed
    /\ wire' = Append(wire, accepted[done + 1])
    /\ IF accepted[done + 1] = "close"
       THEN head' = "closing" /\ UNCHANGED done
       ELSE head' = "idle" /\ done' = done + 1
    /\ UNCHANGED <<rpc, inbound, completed, gate, isClosed, accepted, poisoned>>
    /\ StdinOnly

SendFails ==
    /\ head = "waiting"
    /\ gate = "ready"
    /\ rpc # "open" \/ completed
    /\ RejectOp
    /\ UNCHANGED <<rpc, inbound, completed, gate>>
    /\ StdinOnly

\* After the close message, completeRequests(), which is assumed not to fail.
CompleteClose ==
    /\ head = "closing"
    /\ completed' = TRUE
    /\ done' = done + 1
    /\ head' = "idle"
    /\ UNCHANGED <<rpc, inbound, gate, isClosed, accepted, poisoned, wire>>
    /\ StdinOnly

GateWait == GateTimeout \/ GateFailed
StdinStep == BeginOp \/ GateWait \/ SendOp \/ SendFails \/ CompleteClose

Next ==
    \/ ServerSends \/ SignalAborts
    \/ StartSucceeds \/ StartFails
    \/ Receive \/ Dispatch \/ FinishRequests \/ SettleLease
    \/ Cancel \/ ConsumerTakes \/ Wait \/ WaitGivesUp \/ WaitAnswered
    \/ Write \/ CloseStdin \/ StdinStep

\* What the event loop runs once it is ready: promise continuations and
\* timers.  The server owes nothing, and a send may stall on flow control.
Fairness ==
    /\ WF_vars(StartSucceeds \/ StartFails)
    /\ WF_vars(Receive)
    /\ WF_vars(Dispatch)
    /\ WF_vars(FinishRequests)
    /\ WF_vars(SettleLease)
    /\ WF_vars(WaitAnswered)
    /\ WF_vars(GateWait)

Spec == Init /\ [][Next]_vars /\ Fairness

----------------------------------------------------------------------------
(* Properties.                                                             *)

\* wait(), status and exitCode tell one story although cancel(), the last
\* frame and a late ready race: a result comes with its exit code and the
\* status exited, and a process that was cancelled or failed never shows the
\* exit code of a frame that arrived afterwards.
OneOutcome ==
    /\ outcome \in {"result", "checkError"} =>
        /\ status = "exited"
        /\ exitCode # NoCode
        /\ result # <<>>
        /\ (outcome = "checkError") <=> (opts.check /\ exitCode # 0)
    /\ outcome = "error" => status = "failed"
    /\ outcome \notin {"result", "checkError"} => exitCode = NoCode /\ result = <<>>

\* The result accounts for every byte the server sent before the exit,
\* keeps as many as its limit allows and says so when it dropped some, even
\* if nobody reads the live stream and its chunks are dropped.
ResultComplete ==
    result # <<>> =>
        /\ result.produced = sentBytes
        /\ result.kept = IF sentBytes < Limit THEN sentBytes ELSE Limit
        /\ result.kept < result.produced => result.truncated

\* What reaches the server is a prefix of the writes the user made, in their
\* order, only after the server was ready, with the close message last; the
\* request side of a live call is half-closed only behind all of it.
StdinInOrder ==
    /\ Len(wire) <= Len(accepted) /\ wire = SubSeq(accepted, 1, Len(wire))
    /\ wire # <<>> => gate = "ready"
    /\ \A i \in 1..Len(wire) : wire[i] = "close" => i = Len(accepted)
    /\ opts.stdin /\ completed /\ rpc = "open" => wire = accepted

\* A write fails, and stdin is cancelled, only with the call: a caller who
\* saw the error does not leave a duplex call open behind it.
StdinFailureEndsCall ==
    opts.stdin /\ (poisoned \/ outcome = "cancelled") => rpc # "open"

\* Both hold of a write queue that waits for a gate its timer, the server, the
\* end of the call and cancel() may settle in any order.
StdinKept == StdinInOrder /\ StdinFailureEndsCall

\* The lease is given back once, when the call is over and wait() has been
\* told, and the channel is discarded exactly when the call itself failed
\* with UNAVAILABLE, whatever the process had settled for before.
LeaseOutlivesCall ==
    lease # "held" =>
        /\ rpc # "open"
        /\ phase = "started" =>
            /\ settled /\ completed /\ loop = "done"
            /\ (lease = "discarded") <=> Unavailable

\* Cancelling a command cancels its call, with or without stdin.
CancelEndsCall == outcome = "cancelled" => rpc # "open"

\* Once the call of a started command is over, wait() is answered and the
\* lease given back, with or without a reader of the live streams; and no write
\* waits for ever for a server that does not become ready.
CallEndSettles ==
    /\ (phase = "started" /\ rpc # "open") ~>
           (settled /\ lease # "held" /\ waiter # "waiting")
    /\ (head = "waiting" /\ gate # "ready") ~> (head # "waiting" \/ gate = "ready")

=============================================================================
