----------------------------- MODULE FileStreams -----------------------------
(***************************************************************************)
(* The streaming commands that carry a file (grpcReadStreamIterator and    *)
(* grpcWriteStream of file-adapter.ts, over exec-session.ts): a collector  *)
(* of the server's frames runs beside a reader that may stop, or beside a  *)
(* writer that waits for the user's source of chunks.                      *)
(*                                                                         *)
(* A file is a number of chunks.  A chunk may be lost in transit, and the  *)
(* server drops what is written before it has attached the command's       *)
(* stdin.  Which errors an RPC timer, a lost connection or a server report *)
(* raise makes no difference here: each is an error frame.                 *)
(***************************************************************************)
EXTENDS Integers, Sequences

CONSTANTS
    MaxChunks,     \* bound: chunks of a file
    OutCapacity,   \* STREAMING_OUTPUT_QUEUE_SIZE
    CheckMin       \* TRUNCATION_CHECK_MIN_BYTES, in chunks

ASSUME StreamAssumption ==
    MaxChunks \in Nat /\ OutCapacity \in Nat \ {0} /\ CheckMin \in Nat \ {0}

Unknown == -1

VARIABLES
    kind,       \* read or write
    step,       \* where the caller's side is
    call,       \* the streaming call: none, open, ended or aborted
    frames,     \* frames the collector has not taken
    collector,  \* none, frames, push (blocked on the queue), done or rejected
    pending,    \* the chunk of a blocked push
    target,     \* what the path is: file, missing or directory
    size,       \* chunks of the file, or of the source
    progress,   \* read: chunks the server has sent
    received,   \* write: chunks the command's stdin has obtained
    attached,   \* write: the server has attached stdin; "eof" once it is closed
    gate,       \* the stdin gate: wait, ready or failed
    supplied,   \* write: chunks the source has given
    buffer,     \* outputQueue
    queueEnd,   \* open, closed or failed
    expected,   \* size learned before the read, or Unknown
    delivered,  \* chunks counted by the collector
    exitCode,   \* or Unknown
    obtained,   \* chunks the reader has
    aborted,    \* the caller's signal
    result      \* how the operation ended

fileVars == <<kind, target, size>>
serverSide == <<progress, received, attached>>
queueVars == <<buffer, queueEnd, pending>>
streamVars == <<fileVars, step, call, frames, collector, serverSide, gate, supplied,
                queueVars, expected, delivered, exitCode, obtained, aborted, result>>

Over == call \in {"ended", "aborted"}

StreamTypeOK ==
    /\ kind \in {"read", "write"} /\ target \in {"file", "missing", "directory"}
    /\ step \in {"stat", "loop", "held", "source", "write", "close", "collect",
                 "cleanup", "done"}
    /\ call \in {"none", "open", "ended", "aborted"}
    /\ collector \in {"none", "frames", "push", "done", "rejected"}
    /\ gate \in {"wait", "ready", "failed"} /\ attached \in {"no", "yes", "eof"}
    /\ queueEnd \in {"open", "closed", "failed"} /\ aborted \in BOOLEAN
    /\ {size, progress, supplied, delivered} \subseteq Nat
    /\ expected \in Nat \cup {Unknown}
    /\ \A chunks \in {received, buffer, obtained} : chunks \in Seq(1..MaxChunks)

Frame(type, value) == [type |-> type, value |-> value]

StreamInit ==
    /\ kind \in {"read", "write"}
    /\ target \in {"file", "missing", "directory"}
    /\ size \in IF kind = "read" /\ target # "file" THEN {0} ELSE 0..MaxChunks
    /\ step = IF kind = "read" THEN "stat" ELSE "source"
    /\ call = IF kind = "read" THEN "none" ELSE "open"
    /\ collector = IF kind = "read" THEN "none" ELSE "frames"
    /\ frames = <<>> /\ progress = 0 /\ received = <<>> /\ attached = "no"
    /\ gate = "wait" /\ supplied = 0
    /\ buffer = <<>> /\ queueEnd = "open" /\ pending = Unknown
    /\ expected = Unknown /\ delivered = 0 /\ exitCode = Unknown /\ obtained = <<>>
    /\ aborted = FALSE /\ result = "none"

----------------------------------------------------------------------------
(* The server, and the call between.                                       *)

\* The server sends a frame that may be its last.
Emit(frame, last) ==
    /\ frames' = Append(frames, frame)
    /\ call' = IF last THEN "ended" ELSE call
    /\ UNCHANGED <<fileVars, step, collector, gate, supplied, queueVars, expected,
                   delivered, exitCode, obtained, aborted, result>>

\* The next chunk of the file is sent, and may be lost on the way.
ServerSendsChunk ==
    /\ kind = "read" /\ call = "open" /\ target = "file" /\ progress < size
    /\ progress' = progress + 1
    /\ \/ Emit(Frame("stdout", progress + 1), FALSE)
       \/ UNCHANGED <<fileVars, step, call, frames, collector, gate, supplied, queueVars,
                      expected, delivered, exitCode, obtained, aborted, result>>
    /\ UNCHANGED <<received, attached>>

\* The command's stdin is attached.
ServerAttaches ==
    /\ kind = "write" /\ call = "open" /\ attached = "no"
    /\ attached' = "yes"
    /\ Emit(Frame("ready", 0), FALSE)
    /\ UNCHANGED <<progress, received>>

\* The script ends: 2 for a missing file, 3 for a directory, 0 when all is
\* read or written, 1 when reading or writing failed.
ScriptExits(code) ==
    /\ call = "open"
    /\ code = 2 => kind = "read" /\ target = "missing"
    /\ code = 3 => target = "directory"
    /\ code = 0 => /\ target = "file" \/ (kind = "write" /\ target = "missing")
                   /\ IF kind = "read" THEN progress = size ELSE attached = "eof"
    /\ Emit(Frame("exit", code), TRUE)
    /\ UNCHANGED serverSide

\* The call fails: an error of the server, its timer, a lost connection, or an
\* end without an exit.
CallFails ==
    /\ call = "open"
    /\ Emit(Frame("error", 0), TRUE)
    /\ UNCHANGED serverSide

\* ExecSession.cancel, or the signal: the call ends with an error, which may
\* overtake frames that had arrived.
CutCall ==
    IF call # "open" THEN UNCHANGED <<call, frames>>
    ELSE /\ call' = "aborted"
         /\ frames' \in {<<Frame("error", 0)>>, Append(frames, Frame("error", 0))}

\* The caller's signal is aborted.
SignalAborted ==
    /\ ~aborted /\ step # "done"
    /\ aborted' = TRUE
    /\ CutCall
    /\ UNCHANGED <<fileVars, step, collector, serverSide, gate, supplied, queueVars,
                   expected, delivered, exitCode, obtained, result>>

\* The operation settles; a reader or writer that fails cancels the session
\* first and waits for the collector.
Settle(how) == step' = "done" /\ result' = how

----------------------------------------------------------------------------
(* The collector.                                                          *)

\* outputQueue.push: a full queue keeps the collector, a closed one drops.
Push(chunk) ==
    IF queueEnd = "open" /\ Len(buffer) >= OutCapacity
    THEN collector' = "push" /\ pending' = chunk /\ UNCHANGED <<buffer, queueEnd, delivered>>
    ELSE /\ delivered' = delivered + 1 /\ collector' = "frames" /\ pending' = Unknown
         /\ buffer' = IF queueEnd = "open" THEN Append(buffer, chunk) ELSE buffer
         /\ UNCHANGED queueEnd

\* outputQueue.close and fail: the first of them counts.
EndQueue(how) == queueEnd' = IF queueEnd = "open" THEN how ELSE queueEnd

\* signalReady and signalFailed: the first of them counts.
SetGate(how) == gate' = IF gate = "wait" THEN how ELSE gate

\* The collector takes the next frame.
CollectReadFrame(frame) ==
    /\ kind = "read" /\ UNCHANGED gate
    /\ CASE frame.type = "stdout" -> Push(frame.value) /\ UNCHANGED exitCode
         [] frame.type = "exit" ->
              /\ exitCode' = frame.value /\ collector' = "done" /\ EndQueue("closed")
              /\ UNCHANGED <<buffer, pending, delivered>>
         [] frame.type = "error" ->
              /\ collector' = "done" /\ EndQueue("failed")
              /\ UNCHANGED <<buffer, pending, delivered, exitCode>>

CollectWriteFrame(frame) ==
    /\ kind = "write" /\ UNCHANGED <<queueVars, delivered>>
    /\ CASE frame.type = "ready" -> SetGate("ready") /\ UNCHANGED <<collector, exitCode>>
         [] frame.type = "exit" ->
              SetGate("failed") /\ collector' = "done" /\ exitCode' = frame.value
         [] frame.type = "error" ->
              SetGate("failed") /\ collector' = "rejected" /\ UNCHANGED exitCode

Collect ==
    /\ collector = "frames" /\ frames # <<>>
    /\ frames' = Tail(frames)
    /\ CollectReadFrame(Head(frames)) \/ CollectWriteFrame(Head(frames))
    /\ UNCHANGED <<fileVars, step, call, serverSide, supplied, expected, obtained, aborted,
                   result>>

\* A blocked push goes on: there is room, or the queue has ended.
PushGoesOn ==
    /\ collector = "push"
    /\ queueEnd # "open" \/ Len(buffer) < OutCapacity
    /\ Push(pending)
    /\ UNCHANGED <<fileVars, step, call, frames, serverSide, gate, supplied, expected,
                   exitCode, obtained, aborted, result>>

----------------------------------------------------------------------------
(* The reader.                                                             *)

readerRest == <<fileVars, serverSide, gate, supplied, delivered, exitCode, aborted>>

\* The stat before the read ends, with the size or without; then cat starts,
\* unless the signal is aborted or the time is up, or it cannot be started.
StatEnds ==
    /\ kind = "read" /\ step = "stat"
    /\ expected' \in {Unknown} \cup IF target = "file" THEN {size} ELSE {}
    /\ \/ ~aborted /\ step' = "loop" /\ call' = "open" /\ collector' = "frames"
          /\ UNCHANGED result
       \/ /\ Settle(IF aborted THEN "aborted" ELSE "error")
          /\ UNCHANGED <<call, collector>>
    /\ UNCHANGED <<readerRest, frames, queueVars, obtained>>

\* Mutant: a reader that leaves does not close the queue behind it.
LeaveQueueOpen(how) ==
    /\ result' = how /\ step' = "cleanup"
    /\ CutCall
    /\ UNCHANGED <<readerRest, collector, buffer, pending, queueEnd, expected, obtained>>
\* The reader leaves before the end: the queue ends, so that a blocked push
\* goes on, the session is cancelled and the collector waited for.
Leave(how) ==
    /\ result' = how /\ step' = "cleanup"
    /\ EndQueue(IF how = "error" THEN "failed" ELSE "closed")
    /\ CutCall
    /\ UNCHANGED <<readerRest, collector, buffer, pending, expected, obtained>>

\* A queued chunk reaches the reader, unless the signal is aborted.
ReadChunk ==
    /\ kind = "read" /\ step = "loop" /\ buffer # <<>> /\ ~aborted
    /\ buffer' = Tail(buffer)
    /\ obtained' = Append(obtained, Head(buffer))
    /\ step' = "held"
    /\ UNCHANGED <<readerRest, call, frames, collector, pending, queueEnd, expected, result>>

\* The reader asks for more, or leaves its loop.
ReadOn ==
    /\ kind = "read" /\ step = "held"
    /\ \/ /\ step' = "loop"
          /\ UNCHANGED <<readerRest, call, frames, collector, queueVars, expected, obtained, result>>
       \/ Leave("abandoned")

\* An abort, or an error that ended the queue, reaches the reader.
ReadThrows ==
    /\ kind = "read" /\ step = "loop"
    /\ \/ aborted /\ (buffer # <<>> \/ queueEnd = "failed") /\ Leave("aborted")
       \/ ~aborted /\ buffer = <<>> /\ queueEnd = "failed" /\ Leave("error")

\* Mutant: the count is not compared with the size.
VerdictTrusting ==
    CASE exitCode = 2 -> "not found" [] exitCode = 3 -> "directory"
      [] exitCode = 1 -> "io" [] OTHER -> "resolved"
\* What a drained read amounts to: mapReadStreamExit, verifyNoTruncation.
Verdict ==
    CASE exitCode = 2 -> "not found" [] exitCode = 3 -> "directory"
      [] exitCode = 1 -> "io"
      [] exitCode = 0 /\ expected >= CheckMin /\ delivered < expected -> "truncated"
      [] OTHER -> "resolved"

\* The queue is drained and closed: the exit status and the count decide.
ReadEnds ==
    /\ kind = "read" /\ step = "loop"
    /\ buffer = <<>> /\ queueEnd = "closed"
    /\ Settle(IF aborted /\ Verdict # "resolved" THEN "aborted" ELSE Verdict)
    /\ UNCHANGED <<readerRest, call, frames, collector, queueVars, expected, obtained>>

\* The collector has ended behind a reader or writer that failed.
CleanupEnds ==
    /\ step = "cleanup" /\ collector \in {"done", "rejected"}
    /\ step' = "done"
    /\ UNCHANGED <<readerRest, call, frames, collector, queueVars, expected, obtained, result>>

----------------------------------------------------------------------------
(* The writer.                                                             *)

writerRest == <<fileVars, progress, queueVars, expected, delivered, exitCode, obtained,
                aborted, collector>>

\* The write fails: the session is cancelled and the collector waited for.
WriteThrows(how) ==
    /\ result' = how /\ step' = "cleanup"
    /\ SetGate("failed") /\ CutCall
    /\ UNCHANGED <<writerRest, received, attached, supplied>>

\* The source gives a chunk, ends, or gives something that is no chunk.
SourceGives ==
    /\ kind = "write" /\ step = "source"
    /\ \/ /\ supplied < size /\ ~aborted
          /\ supplied' = supplied + 1 /\ step' = "write"
          /\ UNCHANGED <<writerRest, call, frames, gate, received, attached, result>>
       \/ supplied < size /\ aborted /\ WriteThrows("aborted")
       \/ /\ supplied = size /\ step' = "close"
          /\ UNCHANGED <<writerRest, call, frames, gate, received, attached, supplied, result>>
       \/ supplied < size /\ WriteThrows("invalid")

\* The gate is open and the call too: a chunk, or the end of stdin, is sent.
Sends(next) ==
    /\ gate = "ready" /\ call = "open"
    /\ step' = next
    /\ IF next = "collect" THEN attached' = "eof" /\ UNCHANGED received
       ELSE received' = Append(received, supplied) /\ UNCHANGED attached
    /\ UNCHANGED <<writerRest, call, frames, gate, supplied, result>>

\* What is sent on a call that is over may be lost without an error.
SendsInVain ==
    /\ step' = IF step = "write" THEN "source" ELSE "collect"
    /\ UNCHANGED <<writerRest, call, frames, gate, received, attached, supplied, result>>

\* A chunk is written once the gate is open, then the source is asked again;
\* after the last one stdin is closed.  The gate may fail or its timer fire,
\* and a call that is over takes nothing.
Write ==
    /\ kind = "write" /\ step \in {"write", "close"}
    /\ \/ Sends(IF step = "write" THEN "source" ELSE "collect")
       \/ gate \in {"failed", "wait"} /\ WriteThrows("io")
       \/ gate = "ready" /\ Over /\ (WriteThrows("io") \/ SendsInVain)

\* The collector has ended and the exit status decides, or its error does.
WriteEnds ==
    /\ kind = "write" /\ step = "collect"
    /\ \/ collector = "rejected" /\ WriteThrows("io")
       \/ collector = "done" /\ exitCode = 0 /\ Settle("resolved")
          /\ UNCHANGED <<writerRest, call, frames, gate, received, attached, supplied>>
       \/ collector = "done" /\ exitCode # 0
          /\ WriteThrows(IF exitCode = 3 THEN "directory" ELSE "io")

----------------------------------------------------------------------------

StreamServer ==
    \/ ServerSendsChunk \/ ServerAttaches \/ CallFails
    \/ \E code \in 0..3 : ScriptExits(code)
\* What the event loop of the client does by itself.
StreamClient ==
    \/ Collect \/ PushGoesOn \/ ReadChunk \/ ReadThrows \/ ReadEnds
    \/ CleanupEnds \/ Write \/ WriteEnds
\* What waits for the user's code, or for a call of its own.
StreamUser == StatEnds \/ ReadOn \/ SourceGives \/ SignalAborted

StreamNext == StreamServer \/ StreamClient \/ StreamUser
StreamFairness == WF_streamVars(StreamClient)
StreamSpec == StreamInit /\ [][StreamNext]_streamVars /\ StreamFairness

----------------------------------------------------------------------------

\* A read that ends without an error has given its reader the whole file, in
\* order, even when chunks are lost in transit and the reader is slower than
\* the server - if the size was learned and is large enough to be compared.  A
\* write that resolves has put every chunk of its source, in order, into the
\* command that then exited with 0.
FileWhole ==
    result = "resolved" =>
        IF kind = "read"
        THEN /\ target = "file" /\ Len(obtained) = delivered
             /\ obtained = [i \in 1..size |-> i] \/ expected < CheckMin
        ELSE received = [i \in 1..size |-> i] /\ attached = "eof"

\* An operation that fails, is aborted or abandoned settles: neither a push
\* blocked on the queue nor a server that waits for input holds it up, and its
\* call is over then.
FailureSettles ==
    /\ (step = "cleanup") ~> (step = "done")
    /\ [](step = "done" => call # "open")
=============================================================================
