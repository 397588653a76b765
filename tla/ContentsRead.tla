----------------------------- MODULE ContentsRead -----------------------------
(***************************************************************************)
(* readFromFileContents() of internal/from-file-contents.ts: the contents  *)
(* that runFromFile() sends are bytes, or a path that is opened, looked at *)
(* and read, up to a cap, while the caller's signal or the timeout may     *)
(* interrupt it at every await.                                            *)
(***************************************************************************)
EXTENDS Naturals

CONSTANTS
    Cap,      \* CREATE_FROM_FILE_CONTENTS_MAX_BYTES, in the model's units
    MaxSize   \* bound: size of a file

VARIABLES
    source,    \* bytes, or what is at the path: file, other or missing
    length,    \* of the bytes or of the file
    timed,     \* whether the caller gave a timeout
    timer,     \* whether its timer is armed
    abort,     \* why the read is interrupted: no, caller or timeout
    pc,        \* what it waits for
    handle,    \* none, open or closed (or about to be)
    listening, \* whether an abort closes the handle
    offset,    \* bytes read
    ending,    \* the outcome that is known while the handle is closed
    result     \* pending or the outcome: read, bytes, invalid, caller, timeout

contentsVars ==
    <<source, length, timed, timer, abort, pc, handle, listening, offset, ending, result>>
fixed == <<source, length, timed>>

Aborted == abort # "no"

ContentsInit ==
    /\ source \in {"bytes", "file", "other", "missing"}
    /\ length \in 0..MaxSize
    /\ timed \in BOOLEAN /\ timer = FALSE /\ abort = "no"
    /\ pc = "start" /\ handle = "none" /\ listening = FALSE
    /\ offset = 0 /\ ending = "none" /\ result = "pending"

----------------------------------------------------------------------------

\* cleanup(), and the promise settles.
Return(outcome) == result' = outcome /\ timer' = FALSE /\ pc' = "done"

\* finally: an abort no longer matters, and close() is waited for.
Leave(outcome) ==
    /\ ending' = outcome /\ listening' = FALSE /\ handle' = "closed" /\ pc' = "closing"
    /\ UNCHANGED <<fixed, timer, abort, result>>

\* Mutant: the reason of the abort is not preferred to what it caused.
LeaveFailedAsIs == Leave("invalid")
\* catch: after an abort everything is the abort's fault.
LeaveFailed == Leave(IF Aborted THEN abort ELSE "invalid")

Start ==
    /\ pc = "start"
    /\ IF source = "bytes"
       THEN Return(IF length > Cap THEN "invalid" ELSE "bytes")
       ELSE IF abort = "caller"
       THEN Return("caller")
       ELSE pc' = "open" /\ timer' = timed /\ UNCHANGED result
    /\ UNCHANGED <<fixed, abort, handle, listening, offset, ending>>

\* An abort that came while the file was opened did not reach the listener.
Opened ==
    /\ pc = "open" /\ source # "missing"
    /\ IF Aborted
       THEN LeaveFailed
       ELSE /\ handle' = "open" /\ listening' = TRUE /\ pc' = "stat"
            /\ UNCHANGED <<fixed, timer, abort, ending, result>>
    /\ UNCHANGED offset

OpenFails ==
    /\ pc = "open"
    /\ Return("invalid")
    /\ UNCHANGED <<fixed, abort, handle, listening, offset, ending>>

\* It also fails if the handle was closed before it was looked at.
Looked ==
    /\ pc = "stat"
    /\ \/ /\ source = "file" /\ pc' = "read"
          /\ UNCHANGED <<fixed, timer, abort, handle, listening, ending, result>>
       \/ (source = "other" \/ handle = "closed") /\ LeaveFailed
    /\ UNCHANGED offset

\* A chunk from the stream.
ReadChunk ==
    /\ pc = "read" /\ offset < length
    /\ \E n \in 1..(length - offset) :
        IF Aborted \/ offset + n > Cap
        THEN LeaveFailed /\ UNCHANGED offset
        ELSE /\ offset' = offset + n
             /\ UNCHANGED <<fixed, timer, abort, pc, handle, listening, ending, result>>

\* The stream is destroyed by an abort, or the file cannot be read.
ReadFails == pc = "read" /\ LeaveFailed /\ UNCHANGED offset

ReadEnds ==
    /\ pc = "read" /\ offset = length
    /\ IF Aborted THEN LeaveFailed ELSE Leave("read")
    /\ UNCHANGED offset

Closed ==
    /\ pc = "closing" /\ Return(ending)
    /\ UNCHANGED <<fixed, abort, handle, listening, offset, ending>>

\* The first abort counts, and closes the handle if there is one.
Interrupt(reason) ==
    /\ ~Aborted /\ result = "pending"
    /\ abort' = reason
    /\ handle' = IF listening THEN "closed" ELSE handle
    /\ UNCHANGED <<fixed, pc, listening, offset, ending, result>>
CallerAborts == Interrupt("caller") /\ UNCHANGED timer
TimerFires == timer /\ Interrupt("timeout") /\ timer' = FALSE

ContentsNext ==
    \/ Start \/ Opened \/ OpenFails \/ Looked \/ ReadChunk \/ ReadFails \/ ReadEnds \/ Closed
    \/ CallerAborts \/ TimerFires
ContentsSpec == ContentsInit /\ [][ContentsNext]_contentsVars

----------------------------------------------------------------------------

\* Whatever is interrupted where, a settled read leaves neither a handle nor a
\* timer behind; contents that are read are the whole file and within the cap;
\* and an abort that came while the file was looked at or read is what the
\* caller is told of, not what it broke.
ContentsKept ==
    /\ [](result # "pending" => handle # "open" /\ ~timer)
    /\ [](result = "read" => source = "file" /\ offset = length /\ length <= Cap)
    /\ [](result = "bytes" => source = "bytes" /\ length <= Cap)
    /\ [][Aborted /\ ending = "none" /\ ending' # "none" => ending' = abort]_contentsVars
=============================================================================
