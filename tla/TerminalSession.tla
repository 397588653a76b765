---------------------------- MODULE TerminalSession ----------------------------
(***************************************************************************)
(* One interactive shell from startGrpcShell() to the release of its       *)
(* lease: the loop that reads the responses of the duplex call             *)
(* (transports/node-grpc/terminal-stream.ts), the session the user holds   *)
(* (streaming/terminal-session.ts), its queue of output (AsyncQueue), the  *)
(* writes, close and resize of its input and the gate that holds them back *)
(* (stdin-ready-gate.ts).                                                  *)
(*                                                                         *)
(* A command (module CommandSession) drops live output nobody reads and    *)
(* leaves its loop at the exit; a shell waits for its reader to make room  *)
(* and reads on until the server ends the call.  The server sends no       *)
(* output behind an exit or error message.  An action runs from one await  *)
(* to the next; outputs is history.                                        *)
(***************************************************************************)
EXTENDS Integers, Sequences, SequencesExt

CONSTANTS
    Capacity,   \* places in the output queue
    ExitCodes,  \* exit codes of the shell
    MaxOutputs, \* bound on the output frames
    MaxUnread,  \* bound on the responses that wait to be read
    MaxOps      \* bound on the writes and closes of stdin

VARIABLES
    phase,     \* startGrpcShell(): starting, started, failed
    rpc,       \* the duplex call: open, ended by the server, aborted here
    inbound,   \* responses the loop has not read
    outputs,   \* history: output frames the server sent
    loop,      \* where collectTerminalSession is
    terminal,  \* an exit or error message was dispatched
    failure,   \* settledError: none, UNAVAILABLE, another
    completed, \* requestsCompleted: the request side is half-closed
    lease,     \* the direct lease: held, released, discarded
    status,    \* currentStatus
    exitCode,  \* currentExitCode
    outcome,   \* what waitPromise settled to
    gate,      \* the stdin gate
    isClosed,  \* stdin takes no more
    accepted,  \* writes and closes put on writeQueue
    done,      \* how many of them have resolved
    poisoned,  \* one was rejected, and with it every later one
    head,      \* where the first unresolved one is
    resizing,  \* a resize(): none, waiting for the gate, sent, rejected
    reading,   \* the user reads the output, and has not left the loop
    items, waitingConsumers, waitingProducers, closed, error, producer,
    next, sent, delivered, lost, ended \* the queue

Queue == INSTANCE AsyncQueue WITH
    Producers <- {"loop"}, Calls <- {"reader"},
    MaxPushes <- MaxOutputs, call <- next

queueVars == <<items, waitingConsumers, waitingProducers, closed, error,
               producer, next, sent, delivered, lost, ended>>
callVars == <<phase, rpc, inbound, outputs>>
loopVars == <<loop, terminal, failure, lease>>
procVars == <<status, exitCode, outcome>>
inputVars == <<gate, isClosed, accepted, done, poisoned, head, resizing,
               completed>>
vars == <<callVars, loopVars, procVars, inputVars, reading, queueVars>>

\* The responses of the call.  The last one is its status, OK or a failure;
\* n is an exit code, or 1 for the code UNAVAILABLE.
Message(kind, n) == [kind |-> kind, n |-> n]
Terminal == [kind : {"exit"}, n : ExitCodes] \cup [kind : {"error"}, n : {0, 1}]
Status == {Message("end", 0), Message("failed", 0), Message("failed", 1)}
Messages == {Message("ready", 0), Message("output", 0)} \cup Terminal \cup Status

NoCode == -1
settled == outcome # "pending"

TypeOK ==
    /\ phase \in {"starting", "started", "failed"}
    /\ rpc \in {"open", "ended", "aborted"}
    /\ inbound \in Seq(Messages)
    /\ outputs \in 0..MaxOutputs
    /\ loop \in {"reading", "pushing", "settling", "done"}
    /\ terminal \in BOOLEAN /\ completed \in BOOLEAN
    /\ failure \in {"none", "unavailable", "other"}
    /\ lease \in {"held", "released", "discarded"}
    /\ status \in {"starting", "running", "exited", "failed", "cancelled"}
    /\ exitCode \in ExitCodes \cup {NoCode}
    /\ outcome \in {"pending", "result", "error", "cancelled"}
    /\ gate \in {"pending", "ready", "failed"}
    /\ isClosed \in BOOLEAN /\ poisoned \in BOOLEAN /\ reading \in BOOLEAN
    /\ accepted \in Seq({"write", "close"}) /\ done \in 0..MaxOps
    /\ head \in {"idle", "waiting", "closing"}
    /\ resizing \in {"none", "waiting", "sent", "rejected"}
    /\ Queue!TypeOK

Init ==
    /\ phase = "starting" /\ rpc = "open" /\ inbound = <<>> /\ outputs = 0
    /\ loop = "reading" /\ terminal = FALSE /\ failure = "none"
    /\ completed = FALSE /\ lease = "held"
    /\ status = "starting" /\ exitCode = NoCode /\ outcome = "pending"
    /\ gate = "pending" /\ isClosed = FALSE
    /\ accepted = <<>> /\ done = 0 /\ poisoned = FALSE /\ head = "idle"
    /\ resizing = "none" /\ reading = TRUE
    /\ Queue!Init

----------------------------------------------------------------------------
(* The environment: the server, grpc-js and the caller's AbortSignal.      *)

SentTerminal == terminal \/ \E m \in Terminal : Contains(inbound, m)

ServerSends ==
    /\ rpc = "open" /\ Len(inbound) < MaxUnread
    /\ \E m \in Messages :
        /\ m \notin Status => ~SentTerminal
        /\ m.kind = "ready" => gate # "ready" /\ ~Contains(inbound, m)
        /\ m.kind = "output" => outputs < MaxOutputs
        /\ inbound' = Append(inbound, m)
        /\ outputs' = IF m.kind = "output" THEN outputs + 1 ELSE outputs
        /\ rpc' = IF m \in Status THEN "ended" ELSE "open"
    /\ UNCHANGED <<phase, loopVars, procVars, inputVars, reading, queueVars>>

\* abortController.abort(): the call fails behind the responses it already has.
Abort ==
    /\ rpc' = IF rpc = "open" THEN "aborted" ELSE rpc
    /\ inbound' = IF rpc = "open" THEN Append(inbound, Message("failed", 0)) ELSE inbound

\* The caller's signal is linked to the call, not to the session.
SignalAborts ==
    /\ rpc = "open"
    /\ Abort
    /\ UNCHANGED <<phase, outputs, loopVars, procVars, inputVars, 
                   reading, queueVars>>

----------------------------------------------------------------------------
(* startGrpcShell(): the init message is sent, or the call is over before. *)

Starting ==
    /\ phase = "starting"
    /\ UNCHANGED <<rpc, inbound, outputs, loop, terminal, failure, procVars,
                   inputVars, reading, queueVars>>
StartSucceeds == Starting /\ phase' = "started" /\ UNCHANGED lease
StartFails ==
    /\ Starting
    /\ rpc # "open"
    /\ phase' = "failed"
    /\ lease' \in {"released"} \cup IF rpc = "ended" THEN {"discarded"} ELSE {}

----------------------------------------------------------------------------
(* collectTerminalSession: one response after the other.                   *)

Receive(kinds) ==
    /\ phase = "started" /\ loop = "reading" /\ inbound # <<>>
    /\ Head(inbound).kind \in kinds
    /\ inbound' = Tail(inbound)
    /\ UNCHANGED <<phase, rpc, outputs, isClosed, accepted, done, poisoned,
                   head, resizing, completed, reading, lease>>

FailGate == gate' = IF gate = "pending" THEN "failed" ELSE gate

\* Nothing asks here whether the session has settled.
ReceiveReady ==
    /\ Receive({"ready"})
    /\ gate' = IF gate = "pending" THEN "ready" ELSE gate
    /\ status' = "running"
    /\ UNCHANGED <<loop, terminal, failure, exitCode, outcome, queueVars>>

\* Mutant: output the reader is behind with is dropped, as a command does.
ReceiveOutputDrops ==
    /\ Receive({"output"})
    /\ Queue!TryPush("loop")
    /\ UNCHANGED <<loop, gate, terminal, failure, procVars>>

\* Output is pushed, and the loop waits until the queue has room for it.
ReceiveOutput ==
    /\ Receive({"output"})
    /\ Queue!Push("loop")
    /\ loop' = "pushing"
    /\ UNCHANGED <<gate, terminal, failure, procVars>>

Resolve(code) ==
    /\ status' = "exited" /\ exitCode' = code /\ outcome' = "result"
    /\ Queue!Close
Reject ==
    /\ status' = "failed" /\ outcome' = "error" /\ UNCHANGED exitCode
    /\ Queue!Fail

ReceiveExit ==
    /\ Receive({"exit"})
    /\ FailGate
    /\ terminal' = TRUE
    /\ IF settled THEN UNCHANGED <<procVars, queueVars>> ELSE Resolve(Head(inbound).n)
    /\ UNCHANGED <<loop, failure>>

ErrorOf(m) == IF m.n = 1 THEN "unavailable" ELSE "other"

\* The session fails here, and the loop reads on to the end of the call.
ReceiveError ==
    /\ Receive({"error"})
    /\ FailGate
    /\ terminal' = TRUE
    /\ failure' = ErrorOf(Head(inbound))
    /\ IF settled THEN UNCHANGED <<procVars, queueVars>> ELSE Reject
    /\ UNCHANGED loop

\* Mutant: a call that ends without an exit message tells nobody.
ReceiveEndSilent ==
    /\ Receive({"end"})
    /\ loop' = "settling"
    /\ UNCHANGED <<gate, terminal, failure, procVars, queueVars>>

\* The call ends with OK: an error unless an exit or error came before it.
ReceiveEnd ==
    /\ Receive({"end"})
    /\ IF terminal THEN UNCHANGED gate ELSE FailGate
    /\ IF terminal \/ settled THEN UNCHANGED <<procVars, queueVars>> ELSE Reject
    /\ loop' = "settling"
    /\ UNCHANGED <<terminal, failure>>

ReceiveFailure ==
    /\ Receive({"failed"})
    /\ FailGate
    /\ failure' = ErrorOf(Head(inbound))
    /\ IF settled THEN UNCHANGED <<procVars, queueVars>> ELSE Reject
    /\ loop' = "settling"
    /\ UNCHANGED terminal

\* The push has returned; a closed queue has dropped the chunk.
PushReturns ==
    /\ loop = "pushing" /\ producer["loop"] = "idle"
    /\ loop' = "reading"
    /\ UNCHANGED <<callVars, terminal, failure, lease, procVars, inputVars,
                   reading, queueVars>>

ResumePush ==
    /\ Queue!Resume("loop")
    /\ UNCHANGED <<callVars, loopVars, procVars, inputVars, reading>>

\* completeRequests, then onSettled: settleDirectLease(lease, settledError).
Settle ==
    /\ loop = "settling"
    /\ loop' = "done"
    /\ completed' = TRUE
    /\ lease' = IF failure = "unavailable" THEN "discarded" ELSE "released"
    /\ UNCHANGED <<callVars, terminal, failure, procVars, gate, isClosed,
                   accepted, done, poisoned, head, resizing,
                   reading, queueVars>>

LoopStep ==
    \/ ReceiveReady \/ ReceiveOutput \/ ReceiveExit \/ ReceiveError
    \/ ReceiveEnd \/ ReceiveFailure
    \/ PushReturns \/ ResumePush \/ Settle

----------------------------------------------------------------------------
(* The session object.                                                     *)

\* cancel() settles the session, fails the queue under a waiting push, ends
\* stdin, fails the gate and aborts the call.
Cancel ==
    /\ phase = "started" /\ ~settled
    /\ status' = "cancelled" /\ outcome' = "cancelled"
    /\ Queue!Fail
    /\ isClosed' = TRUE
    /\ FailGate
    /\ Abort
    /\ UNCHANGED <<phase, outputs, loopVars, exitCode, accepted, done,
                   poisoned, head, resizing, completed, reading>>

\* The user iterates over the output, and may leave the loop for good.
Read ==
    /\ phase = "started" /\ reading /\ ended = "no"
    /\ Queue!NextCall("reader")
    /\ UNCHANGED <<callVars, loopVars, procVars, inputVars, reading>>
StopReading ==
    /\ reading /\ next["reader"] = "idle"
    /\ reading' = FALSE
    /\ UNCHANGED <<callVars, loopVars, procVars, inputVars, queueVars>>

----------------------------------------------------------------------------
(* Input.  write() and close() join writeQueue, whose head waits for the   *)
(* gate and sends; resize() waits for the gate on its own.                 *)

InputOnly == UNCHANGED <<phase, outputs, loopVars, procVars, reading, queueVars>>
OverStatus == status \in {"cancelled", "exited", "failed"}

Enqueue(op) ==
    /\ phase = "started" /\ ~isClosed /\ Len(accepted) < MaxOps
    /\ accepted' = Append(accepted, op)
    /\ UNCHANGED <<rpc, inbound, gate, done, poisoned, head, resizing, completed>>
    /\ InputOnly
Write == ~OverStatus /\ Enqueue("write") /\ UNCHANGED isClosed
CloseStdin == Enqueue("close") /\ isClosed' = TRUE

Resize ==
    /\ phase = "started" /\ ~OverStatus /\ resizing = "none"
    /\ resizing' = "waiting"
    /\ UNCHANGED <<rpc, inbound, gate, isClosed, accepted, done, poisoned, head,
                   completed>>
    /\ InputOnly

BeginOp ==
    /\ head = "idle" /\ ~poisoned /\ done < Len(accepted)
    /\ head' = "waiting"
    /\ UNCHANGED <<rpc, inbound, gate, isClosed, accepted, done, poisoned,
                   resizing, completed>>
    /\ InputOnly

\* awaitStdinReadyOrAbort rejects: a timer fired first and failed the gate,
\* or somebody failed it.
GateFails == gate \in {"pending", "failed"} /\ gate' = "failed" /\ Abort

OpRefused ==
    /\ head = "waiting" /\ GateFails
    /\ poisoned' = TRUE /\ head' = "idle"
    /\ UNCHANGED <<isClosed, accepted, done, resizing, completed>>
    /\ InputOnly

\* Mutant: a resize that gets no answer in time leaves the call open.
ResizeGivesUp ==
    /\ resizing = "waiting"
    /\ gate \in {"pending", "failed"} /\ gate' = "failed"
    /\ resizing' = "rejected"
    /\ UNCHANGED <<rpc, inbound, isClosed, accepted, done, poisoned, head, completed>>
    /\ InputOnly
ResizeRefused ==
    /\ resizing = "waiting" /\ GateFails
    /\ resizing' = "rejected"
    /\ UNCHANGED <<isClosed, accepted, done, poisoned, head, completed>>
    /\ InputOnly

\* A send may succeed as long as the call is not aborted and not half-closed.
Sends == gate = "ready" /\ rpc # "aborted" /\ ~completed
SendRejected == gate = "ready" /\ (rpc # "open" \/ completed)
SendOnly == UNCHANGED <<rpc, inbound, gate, isClosed, accepted>> /\ InputOnly

SendOp ==
    /\ head = "waiting" /\ Sends
    /\ IF accepted[done + 1] = "close"
       THEN head' = "closing" /\ UNCHANGED done
       ELSE head' = "idle" /\ done' = done + 1
    /\ UNCHANGED <<poisoned, resizing, completed>> /\ SendOnly
OpFails ==
    /\ head = "waiting" /\ SendRejected
    /\ poisoned' = TRUE /\ head' = "idle"
    /\ UNCHANGED <<done, resizing, completed>> /\ SendOnly
CompleteClose ==
    /\ head = "closing"
    /\ completed' = TRUE /\ done' = done + 1 /\ head' = "idle"
    /\ UNCHANGED <<poisoned, resizing>> /\ SendOnly
SendResize ==
    /\ resizing = "waiting" /\ Sends
    /\ resizing' = "sent"
    /\ UNCHANGED <<done, poisoned, head, completed>> /\ SendOnly
ResizeFails ==
    /\ resizing = "waiting" /\ SendRejected
    /\ resizing' = "rejected"
    /\ UNCHANGED <<done, poisoned, head, completed>> /\ SendOnly

InputStep ==
    \/ BeginOp \/ OpRefused \/ ResizeRefused
    \/ SendOp \/ OpFails \/ CompleteClose \/ SendResize \/ ResizeFails

----------------------------------------------------------------------------
Next ==
    \/ ServerSends \/ SignalAborts \/ StartSucceeds \/ StartFails
    \/ LoopStep
    \/ Cancel \/ Read \/ StopReading
    \/ Write \/ CloseStdin \/ Resize \/ InputStep

\* The event loop runs what is ready and its timers; a reader that has not
\* left the loop reads on.  The server owes nothing.
Fairness ==
    /\ WF_vars(StartSucceeds \/ StartFails)
    /\ WF_vars(LoopStep)
    /\ WF_vars(Read)

Spec == Init /\ [][Next]_vars /\ Fairness

----------------------------------------------------------------------------
(* Properties.                                                             *)

\* A shell that exited lost no output: every chunk the server sent before
\* the exit is delivered or buffered for the reader, however far behind it
\* was, and nothing the user did meanwhile makes it skip one.
OutputComplete ==
    outcome = "result" => Queue!Stream = [i \in 1..outputs |-> <<"loop", i>>]

\* The reader, wait() and exitCode hear of one end although cancel(), the
\* exit, the end of the call and a late ready race, and the lease goes back
\* behind it and behind the end of the call, never in front.  Input that is
\* refused for the gate, and a cancelled session, end the call: no duplex call
\* stays open behind a caller who has seen the error.
OneEnd ==
    /\ settled <=> closed
    /\ error <=> outcome \in {"error", "cancelled"}
    /\ exitCode # NoCode <=> outcome = "result"
    /\ ended = "error" => outcome \in {"error", "cancelled"}
    /\ phase = "started" /\ lease # "held" => settled /\ completed /\ rpc # "open"
    /\ gate = "failed" /\ (poisoned \/ resizing = "rejected") => rpc # "open"
    /\ outcome = "cancelled" => rpc # "open"

\* Once the call is over the session settles and gives its lease back, unless
\* the user left unread output behind which the end of the call waits.  A cancelled
\* session has settled, so cancelling frees everything, a loop that is parked
\* behind unread output included.
CallEndSettles ==
    (phase = "started" /\ rpc # "open") ~>
        \/ settled /\ lease # "held"
        \/ ~settled /\ ~reading /\ waitingProducers # <<>>

=============================================================================
