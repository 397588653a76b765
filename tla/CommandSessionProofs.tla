------------------------- MODULE CommandSessionProofs -------------------------
(***************************************************************************)
(* Proofs about CommandSession for every limit, size, exit code and bound. *)
(* The invariant has four parts: the types; CallInv, which ties the place  *)
(* of the dispatch loop to the call, the outcome and the lease; StdinInv,  *)
(* which ties what was sent to what was accepted; BytesInv, which follows  *)
(* every byte of output from the server to the accumulator.                *)
(***************************************************************************)
EXTENDS CommandSession, SequenceTheorems, TLAPS

\* A fact about the last frame of a call: the loop leaves the stream only
\* behind it, and nothing but ready and output frames comes before.
CallInv ==
    /\ \A i \in 1..Len(inbound) : inbound[i] \in Last => rpc # "open"
    /\ loop # "reading" => phase = "started"
    /\ loop = "dispatching" => current \in Frames /\ (current \in Last => rpc # "open")
    /\ loop \in {"finishing", "settling", "done"} =>
        settled /\ rpc # "open"
    /\ loop \in {"settling", "done"} => completed
    /\ outcome \in {"result", "checkError", "error"} =>
        loop \in {"finishing", "settling", "done"}
    /\ lease # "held" => loop = "done" \/ (phase = "failed" /\ rpc # "open")
    /\ loop = "done" => (lease = "discarded" <=> Unavailable)
    /\ OneOutcome

\* The operation that is under way is one of those accepted.
HeadInv == head # "idle" => done < Len(accepted)

\* The queue of stdin operations: what is on the wire is what has resolved,
\* and a close message between its two halves.
StdinInv ==
    /\ gate = "none" <=> ~opts.stdin
    /\ phase # "started" => accepted = <<>> /\ ~completed
    /\ ~opts.stdin => accepted = <<>>
    /\ done <= Len(accepted)
    /\ head = "closing" =>
        Len(wire) = done + 1 /\ accepted[done + 1] = "close"
    /\ head # "closing" => Len(wire) = done
    /\ \A i \in 1..Len(wire) : wire[i] = accepted[i]
    /\ wire # <<>> => gate = "ready"
    /\ \A i \in 1..Len(accepted) : accepted[i] = "close" => isClosed /\ i = Len(accepted)
    /\ opts.stdin /\ completed /\ rpc = "open" => Len(wire) = Len(accepted) /\ isClosed
    /\ StdinFailureEndsCall

----------------------------------------------------------------------------

\* Appending a chunk keeps the types of the accumulator.
LEMMA AppendType ==
    ASSUME output \in Summary, NEW size \in Nat
    PROVE  AppendChunk(size) \in Summary
<1>1. PICK o \in Summary : o = output
  OBVIOUS
<1>. QED
  BY <1>1, SessionAssumption DEF AppendChunk, Summary

\* What a frame carries, by its kind.
LEMMA FrameFields ==
    ASSUME NEW f \in Frames
    PROVE  /\ f.kind = "output" => f.n \in Nat
           /\ f.kind = "exit" => f.n \in ExitCodes
           /\ f.kind \in {"error", "failed", "exit", "end"} <=> f \in Last
           /\ f = Ready <=> f.kind = "ready"
           /\ f.kind \in {"ready", "output", "exit", "error", "failed", "end"}
<1>1. CASE f = Ready
  BY <1>1 DEF Ready, Last
<1>2. CASE f \in {Output(s) : s \in Sizes}
  BY <1>2, SessionAssumption DEF Output, Last, Ready
<1>3. CASE f \in Last
  BY <1>3 DEF Last, Ready
<1>. QED
  BY <1>1, <1>2, <1>3 DEF Frames

\* The types of the session's state hold in every reachable state.
LEMMA TypeInit == Init => TypeOK /\ HeadInv
<1>. SUFFICES ASSUME Init PROVE TypeOK /\ HeadInv
  OBVIOUS
<1>1. inbound \in Seq(Frames) /\ accepted \in Seq({"write", "close"})
      /\ wire \in Seq({"write", "close"})
  BY DEF Init
<1>2. gate \in {"none", "pending", "ready", "failed"}
  BY DEF Init
<1>3. output \in Summary
  BY DEF Init, Summary
<1>4. live \in 0..LiveCapacity
  BY SessionAssumption DEF Init
<1>5. opts \in [stdin : BOOLEAN, check : BOOLEAN]
  BY DEF Init
<1>. QED
  BY <1>1, <1>2, <1>3, <1>4, <1>5 DEF Init, TypeOK, HeadInv

LEMMA TypeNext == TypeOK /\ HeadInv /\ [Next]_vars => TypeOK' /\ HeadInv'
<1>. SUFFICES ASSUME TypeOK, HeadInv, [Next]_vars PROVE TypeOK' /\ HeadInv'
  OBVIOUS
<1>. USE SessionAssumption DEF TypeOK, HeadInv
<1>0. Aborted \in Frames /\ Ready \in Frames
  BY DEF Aborted, Ready, Frames, Last
<1>1. CASE ServerSends
  <2>1. PICK f \in Frames :
          /\ inbound' = Append(inbound, f)
          /\ rpc' = IF f \in Last THEN "ended" ELSE "open"
          /\ frames' = IF f \in Last THEN frames ELSE frames + 1
          /\ sentBytes' = IF f.kind = "output" THEN sentBytes + f.n ELSE sentBytes
    BY <1>1 DEF ServerSends
  <2>2. f.kind = "output" => f.n \in Nat
    BY FrameFields
  <2>3. inbound' \in Seq(Frames)
    BY <2>1, AppendProperties
  <2>4. frames' \in Nat /\ sentBytes' \in Nat
    BY <2>1, <2>2
  <2>. QED
    BY <1>1, <2>1, <2>3, <2>4 DEF ServerSends, procVars, opVars
<1>2. ASSUME Abort PROVE rpc' \in {"open", "ended", "aborted"} /\ inbound' \in Seq(Frames)
  <2>1. Append(inbound, Aborted) \in Seq(Frames)
    BY <1>0, AppendProperties
  <2>. QED
    BY <1>2, <2>1 DEF Abort
<1>3. CASE SignalAborts
  BY <1>2, <1>3 DEF SignalAborts, procVars, opVars, sentVars
<1>4. CASE StartSucceeds
  BY <1>4 DEF StartSucceeds, procVars, opVars, sentVars
<1>5. CASE StartFails
  <2>1. lease' \in {"held", "released", "discarded"}
    BY <1>5 DEF StartFails
  <2>. QED
    BY <1>5, <2>1 DEF StartFails, procVars, opVars, sentVars
<1>6. CASE Receive
  <2>1. current' \in Frames /\ inbound' \in Seq(Frames)
    BY <1>6, HeadTailProperties DEF Receive
  <2>2. gate' \in {"none", "pending", "ready", "failed"}
    BY <1>6 DEF Receive
  <2>. QED
    BY <1>6, <2>1, <2>2 DEF Receive, procVars, opVars, sentVars
<1>7. CASE DispatchReady
  BY <1>7 DEF DispatchReady, Dispatching, opVars, sentVars
<1>8. CASE DispatchOutput
  <2>1. current.n \in Nat
    BY <1>8, FrameFields DEF DispatchOutput, Dispatching, NoFrame
  <2>2. PICK n \in Nat : n = current.n
    BY <2>1
  <2>3. output' \in Summary
    BY <1>8, <2>2, AppendType DEF DispatchOutput
  <2>4. live' \in 0..LiveCapacity
    BY <1>8 DEF DispatchOutput
  <2>. QED
    BY <1>8, <2>3, <2>4 DEF DispatchOutput, Dispatching, opVars, sentVars
<1>9. CASE DispatchExit
  <2>1. current.n \in ExitCodes
    BY <1>9, FrameFields DEF DispatchExit, Dispatching, NoFrame
  <2>. QED
    BY <1>9, <2>1 DEF DispatchExit, Dispatching, opVars, sentVars
<1>10. CASE DispatchError
  BY <1>10 DEF DispatchError, Dispatching, opVars, sentVars
<1>11. CASE FinishRequests
  BY <1>11 DEF FinishRequests, procVars, opVars, sentVars
<1>12. CASE SettleLease
  BY <1>12 DEF SettleLease, procVars, opVars, sentVars
<1>13. CASE Cancel
  <2>1. rpc' \in {"open", "ended", "aborted"} /\ inbound' \in Seq(Frames)
    BY <1>13, <1>2 DEF Cancel
  <2>2. isClosed' \in BOOLEAN /\ gate' \in {"none", "pending", "ready", "failed"}
        /\ liveEnd' \in {"no", "closed", "failed"}
    BY <1>13 DEF Cancel
  <2>. QED
    BY <1>13, <2>1, <2>2 DEF Cancel, sentVars
<1>14. CASE ConsumerTakes
  BY <1>14 DEF ConsumerTakes, opVars, sentVars
<1>15. CASE Wait \/ WaitGivesUp \/ WaitAnswered
  BY <1>15 DEF Wait, WaitGivesUp, WaitAnswered, Waiting, procVars, opVars, sentVars
<1>16. CASE Write \/ CloseStdin
  <2>1. PICK k \in {"write", "close"} : accepted' = Append(accepted, k)
    BY <1>16 DEF Write, CloseStdin
  <2>2. accepted' \in Seq({"write", "close"}) /\ Len(accepted') = Len(accepted) + 1
    BY <2>1, AppendProperties
  <2>3. UNCHANGED <<opts, phase, rpc, inbound, loop, current, completed, lease,
                    procVars, gate, done, poisoned, head, wire, waiter, sentVars>>
    BY <1>16 DEF Write, CloseStdin, StdinOnly
  <2>4. isClosed' \in BOOLEAN
    BY <1>16 DEF Write, CloseStdin
  <2>. QED
    BY <2>2, <2>3, <2>4 DEF procVars, sentVars
<1>17. CASE BeginOp
  BY <1>17 DEF BeginOp, StdinOnly, procVars, sentVars
<1>18. CASE GateWait
  <2>1. rpc' \in {"open", "ended", "aborted"} /\ inbound' \in Seq(Frames)
    BY <1>18, <1>2 DEF GateWait, GateTimeout, GateFailed
  <2>2. gate' \in {"none", "pending", "ready", "failed"}
    BY <1>18 DEF GateWait, GateTimeout, GateFailed
  <2>3. UNCHANGED <<opts, phase, loop, current, completed, lease, procVars,
                    isClosed, accepted, done, wire, waiter, sentVars>>
    BY <1>18 DEF GateWait, GateTimeout, GateFailed, RejectOp, StdinOnly
  <2>4. poisoned' = TRUE /\ head' = "idle"
    BY <1>18 DEF GateWait, GateTimeout, GateFailed, RejectOp
  <2>5. HeadInv'
    BY <2>4
  <2>6. poisoned' \in BOOLEAN /\ head' \in {"idle", "waiting", "closing"}
    BY <2>4
  <2>. QED
    BY <2>1, <2>2, <2>3, <2>5, <2>6 DEF procVars, sentVars
<1>19. CASE SendOp
  <2>1. accepted[done + 1] \in {"write", "close"}
    BY <1>19, ElementOfSeq DEF SendOp
  <2>2. PICK k \in {"write", "close"} : k = accepted[done + 1]
    BY <2>1
  <2>3. wire' \in Seq({"write", "close"})
    BY <1>19, <2>2, AppendProperties DEF SendOp
  <2>. QED
    BY <1>19, <2>3 DEF SendOp, StdinOnly, procVars, sentVars
<1>20. CASE SendFails
  BY <1>20 DEF SendFails, RejectOp, StdinOnly, procVars, sentVars
<1>21. CASE CompleteClose
  BY <1>21 DEF CompleteClose, StdinOnly, procVars, sentVars
<1>22. CASE UNCHANGED vars
  BY <1>22 DEF vars, procVars, opVars, sentVars
<1>. QED
  BY <1>1, <1>3, <1>4, <1>5, <1>6, <1>7, <1>8, <1>9, <1>10, <1>11, <1>12,
     <1>13, <1>14, <1>15, <1>16, <1>17, <1>18, <1>19, <1>20, <1>21, <1>22
     DEF Next, Dispatch, StdinStep

THEOREM TypeCorrect == Spec => []TypeOK
<1>1. Spec => [](TypeOK /\ HeadInv)
  BY TypeInit, TypeNext, PTL DEF Spec
<1>. QED
  BY <1>1, PTL

----------------------------------------------------------------------------

LEMMA CallInit == Init => CallInv
BY DEF Init, CallInv, OneOutcome, settled

\* Responses are read in order and none follows the last one.
LEMMA ServerSendsCall ==
    ASSUME TypeOK, CallInv, ServerSends PROVE CallInv'
<1>1. PICK f \in Frames :
        /\ inbound' = Append(inbound, f)
        /\ rpc' = IF f \in Last THEN "ended" ELSE "open"
  BY DEF ServerSends
<1>2. \A i \in 1..Len(inbound') : inbound'[i] \in Last => rpc' # "open"
  BY <1>1, AppendProperties DEF ServerSends, CallInv, TypeOK
<1>3. rpc = "open" /\ UNCHANGED <<opts, phase, loop, current, completed, lease,
                                  status, exitCode, outcome, output, result>>
  BY DEF ServerSends, procVars
<1>4. loop \in {"reading", "dispatching"}
  BY <1>3 DEF CallInv, TypeOK
<1>5. loop = "dispatching" => current \notin Last
  BY <1>3 DEF CallInv
<1>. QED
  BY <1>2, <1>3, <1>4, <1>5 DEF CallInv, OneOutcome, settled, Unavailable

\* Aborting the call, alone or with a change of stdin.
LEMMA AbortCall ==
    ASSUME TypeOK, CallInv, Abort,
           UNCHANGED <<opts, phase, loop, current, completed, lease>>,
           \/ UNCHANGED <<status, exitCode, outcome, result>>
           \/ /\ ~settled /\ status' = "cancelled" /\ outcome' = "cancelled"
              /\ UNCHANGED <<exitCode, result>>
    PROVE  CallInv'
<1>1. \A i \in 1..Len(inbound') : inbound'[i] \in Last => rpc' # "open"
  <2>1. CASE rpc = "open"
    BY <2>1 DEF Abort
  <2>2. CASE rpc # "open"
    BY <2>2 DEF Abort, CallInv
  <2>. QED
    BY <2>1, <2>2
<1>2. rpc # "open" => rpc' # "open"
  BY DEF Abort
<1>. QED
  BY <1>1, <1>2 DEF CallInv, OneOutcome, settled, Unavailable

\* A step that leaves the call and the process alone.
LEMMA OtherCall ==
    ASSUME CallInv,
           UNCHANGED <<opts, phase, rpc, inbound, loop, current, lease,
                       status, exitCode, outcome, result>>,
           completed => completed'
    PROVE  CallInv'
BY DEF CallInv, OneOutcome, settled, Unavailable

\* CallInv is inductive, given the types.
LEMMA CallNext == TypeOK /\ CallInv /\ [Next]_vars => CallInv'
<1>. SUFFICES ASSUME TypeOK, CallInv, [Next]_vars PROVE CallInv'
  OBVIOUS
<1>1. CASE ServerSends
  BY <1>1, ServerSendsCall
<1>2. CASE SignalAborts
  BY <1>2, AbortCall DEF SignalAborts, procVars
<1>3. CASE StartSucceeds
  BY <1>3 DEF StartSucceeds, procVars, CallInv, OneOutcome, settled, Unavailable
<1>4. CASE StartFails
  BY <1>4 DEF StartFails, procVars, CallInv, OneOutcome, settled, Unavailable
<1>5. CASE Receive
  <2>1. current' = Head(inbound) /\ inbound' = Tail(inbound) /\ inbound # <<>>
    BY <1>5 DEF Receive
  <2>2. current' \in Frames /\ (current' \in Last => rpc # "open")
    BY <2>1, HeadTailProperties, LenProperties DEF TypeOK, CallInv
  <2>3. \A i \in 1..Len(inbound') : inbound'[i] \in Last => rpc # "open"
    BY <2>1, HeadTailProperties, LenProperties DEF TypeOK, CallInv
  <2>4. UNCHANGED <<opts, phase, rpc, completed, lease, status, exitCode, outcome, result>>
    BY <1>5 DEF Receive, procVars
  <2>5. loop = "reading" /\ loop' = "dispatching" /\ phase = "started"
    BY <1>5 DEF Receive
  <2>. QED
    BY <2>2, <2>3, <2>4, <2>5 DEF CallInv, OneOutcome, settled
<1>6. CASE DispatchReady \/ DispatchOutput
  <2>1. loop = "dispatching" /\ loop' = "reading"
    BY <1>6 DEF DispatchReady, DispatchOutput, Dispatching
  <2>2. UNCHANGED <<opts, phase, rpc, inbound, current, completed, lease,
                    exitCode, outcome, result>>
    BY <1>6 DEF DispatchReady, DispatchOutput, Dispatching
  <2>3. outcome \notin {"result", "checkError", "error"}
    BY <2>1 DEF CallInv
  <2>. QED
    BY <2>1, <2>2, <2>3 DEF CallInv, OneOutcome, settled
<1>7. CASE DispatchExit \/ DispatchError
  <2>1. loop = "dispatching" /\ loop' = "finishing"
    BY <1>7 DEF DispatchExit, DispatchError, Dispatching
  <2>2. UNCHANGED <<opts, phase, rpc, inbound, current, completed, lease>>
    BY <1>7 DEF DispatchExit, DispatchError, Dispatching
  <2>3. current \in Last /\ rpc # "open"
    BY <1>7, <2>1, FrameFields DEF DispatchExit, DispatchError, Dispatching, CallInv
  <2>4. settled'
    BY <1>7 DEF DispatchExit, DispatchError, settled
  <2>5. OneOutcome'
    <3>1. CASE settled
      BY <1>7, <2>1, <2>2, <3>1 DEF DispatchExit, DispatchError, CallInv, OneOutcome
    <3>2. CASE ~settled /\ DispatchExit
      <4>1. current.n \in Nat
        BY <2>1, <3>2, FrameFields, SessionAssumption DEF DispatchExit, Dispatching, CallInv
      <4>2. current.n # NoCode
        BY <4>1 DEF NoCode
      <4>3. output # <<>>
        <5>1. "kept" \in DOMAIN output
          BY DEF TypeOK, Summary
        <5>2. DOMAIN <<>> = {}
          OBVIOUS
        <5>. QED
          BY <5>1, <5>2
      <4>4. /\ status' = "exited" /\ exitCode' = current.n /\ result' = output
            /\ outcome' = IF opts.check /\ current.n # 0 THEN "checkError" ELSE "result"
        BY <3>2 DEF DispatchExit
      <4>. QED
        BY <2>2, <4>2, <4>3, <4>4 DEF OneOutcome
    <3>3. CASE ~settled /\ DispatchError
      BY <3>3 DEF DispatchError, CallInv, OneOutcome, settled
    <3>. QED
      BY <1>7, <3>1, <3>2, <3>3
  <2>6. lease = "held"
    BY <2>1, <2>2 DEF CallInv, TypeOK
  <2>. QED
    BY <2>1, <2>2, <2>3, <2>4, <2>5, <2>6 DEF CallInv
<1>8. CASE FinishRequests
  BY <1>8 DEF FinishRequests, procVars, CallInv, OneOutcome, settled
<1>9. CASE SettleLease
  BY <1>9 DEF SettleLease, procVars, CallInv, OneOutcome, settled, Unavailable, TypeOK
<1>10. CASE Cancel
  <2>1. CASE opts.stdin
    BY <1>10, <2>1, AbortCall DEF Cancel
  <2>2. CASE ~opts.stdin
    BY <1>10, <2>2 DEF Cancel, CallInv, OneOutcome, settled, Unavailable
  <2>. QED
    BY <2>1, <2>2
<1>11. CASE ConsumerTakes \/ Wait \/ WaitGivesUp \/ WaitAnswered
  BY <1>11, OtherCall DEF ConsumerTakes, Wait, WaitGivesUp, WaitAnswered, Waiting, procVars
<1>12. CASE Write \/ CloseStdin \/ BeginOp \/ SendOp \/ SendFails \/ CompleteClose
  <2>1. completed => completed'
    BY <1>12 DEF Write, CloseStdin, BeginOp, SendOp, SendFails, CompleteClose
  <2>2. UNCHANGED <<opts, phase, rpc, inbound, loop, current, lease,
                    status, exitCode, outcome, result>>
    BY <1>12 DEF Write, CloseStdin, BeginOp, SendOp, SendFails, CompleteClose,
         StdinOnly, procVars
  <2>. QED
    BY <2>1, <2>2, OtherCall
<1>13. CASE GateWait
  BY <1>13, AbortCall DEF GateWait, GateTimeout, GateFailed, StdinOnly, procVars
<1>14. CASE UNCHANGED vars
  BY <1>14, OtherCall DEF vars, procVars
<1>. QED
  BY <1>1, <1>2, <1>3, <1>4, <1>5, <1>6, <1>7, <1>8, <1>9, <1>10, <1>11, <1>12,
     <1>13, <1>14 DEF Next, Dispatch, StdinStep

----------------------------------------------------------------------------

LEMMA StdinInit == Init => StdinInv
BY DEF Init, StdinInv, StdinFailureEndsCall

\* A step that leaves the queue of operations alone may move the gate out of
\* "pending", the call towards its end, and close the writer.
LEMMA OtherStdin ==
    ASSUME TypeOK, StdinInv,
           UNCHANGED <<opts, accepted, done, poisoned, head, wire>>,
           phase' = phase \/ (phase = "starting" /\ accepted = <<>>),
           gate' = gate \/ (gate = "pending" /\ gate' \in {"ready", "failed"}),
           rpc # "open" => rpc' # "open",
           isClosed => isClosed',
           completed' = completed \/ rpc' # "open" \/ ~opts.stdin,
           phase' # "started" => completed' = completed,
           opts.stdin /\ outcome' = "cancelled" => outcome = "cancelled" \/ rpc' # "open"
    PROVE  StdinInv'
<1>1. gate' = "none" <=> ~opts'.stdin
  BY DEF StdinInv
<1>2. phase' # "started" => accepted' = <<>> /\ ~completed'
  BY DEF StdinInv, TypeOK
<1>3. opts'.stdin /\ completed' /\ rpc' = "open" => Len(wire') = Len(accepted') /\ isClosed'
  BY DEF StdinInv
<1>4. wire' # <<>> => gate' = "ready"
  BY DEF StdinInv
<1>5. StdinFailureEndsCall'
  BY DEF StdinInv, StdinFailureEndsCall
<1>6. \A i \in 1..Len(accepted') : accepted'[i] = "close" => isClosed' /\ i = Len(accepted')
  BY DEF StdinInv
<1>. QED
  BY <1>1, <1>2, <1>3, <1>4, <1>5, <1>6 DEF StdinInv

\* The user's writes and closes join the queue while the writer is open.
LEMMA AcceptStdin ==
    ASSUME TypeOK, StdinInv, HeadInv, Write \/ CloseStdin
    PROVE  StdinInv'
<1>1. PICK k \in {"write", "close"} :
        accepted' = Append(accepted, k) /\ (k = "close" => isClosed')
  BY DEF Write, CloseStdin
<1>2. /\ ~isClosed /\ opts.stdin /\ phase = "started"
      /\ UNCHANGED <<opts, phase, rpc, completed, gate, done, poisoned, head, wire, outcome>>
  BY DEF Write, CloseStdin, StdinOnly, procVars
<1>3. /\ Len(accepted') = Len(accepted) + 1
      /\ \A i \in 1..Len(accepted) : accepted'[i] = accepted[i]
      /\ accepted'[Len(accepted) + 1] = k
  BY <1>1, AppendProperties DEF TypeOK
<1>4. Len(accepted) \in Nat /\ Len(wire) \in Nat /\ done \in Nat
  BY LenProperties DEF TypeOK
<1>5. \A i \in 1..Len(accepted) : accepted[i] # "close"
  BY <1>2 DEF StdinInv
<1>6. \A i \in 1..Len(accepted') : accepted'[i] = "close" => isClosed' /\ i = Len(accepted')
  BY <1>1, <1>3, <1>4, <1>5
<1>7. head # "closing"
  BY <1>4, <1>5 DEF StdinInv, HeadInv
<1>8. \A i \in 1..Len(wire') : wire'[i] = accepted'[i]
  BY <1>2, <1>3, <1>4, <1>7 DEF StdinInv
<1>9. ~(completed /\ rpc = "open")
  BY <1>2 DEF StdinInv
<1>10. StdinFailureEndsCall'
  BY <1>2 DEF StdinInv, StdinFailureEndsCall
<1>. QED
  BY <1>2, <1>3, <1>4, <1>6, <1>7, <1>8, <1>9, <1>10 DEF StdinInv

\* The head of the queue sends its message: one that was accepted next.
LEMMA SendStdin ==
    ASSUME TypeOK, StdinInv, HeadInv, SendOp
    PROVE  StdinInv'
<1>1. PICK k \in {"write", "close"} : k = accepted[done + 1]
  BY ElementOfSeq DEF SendOp, HeadInv, TypeOK
<1>2. /\ wire' = Append(wire, k) /\ head = "waiting" /\ gate = "ready" /\ ~completed
      /\ UNCHANGED <<opts, phase, rpc, completed, gate, isClosed, accepted, poisoned, outcome>>
  BY <1>1 DEF SendOp, StdinOnly, procVars
<1>3. Len(wire) = done /\ done < Len(accepted)
  BY <1>2 DEF StdinInv, HeadInv
<1>4. /\ Len(wire') = done + 1
      /\ \A i \in 1..Len(wire) : wire'[i] = wire[i]
      /\ wire'[done + 1] = k
  BY <1>2, <1>3, AppendProperties DEF TypeOK
<1>5. Len(accepted) \in Nat /\ Len(wire) \in Nat /\ done \in Nat
  BY LenProperties DEF TypeOK
<1>6. \A i \in 1..Len(wire') : wire'[i] = accepted'[i]
  BY <1>1, <1>2, <1>3, <1>4, <1>5 DEF StdinInv
<1>7. \/ k = "close" /\ head' = "closing" /\ done' = done
      \/ k # "close" /\ head' = "idle" /\ done' = done + 1
  BY <1>1 DEF SendOp
<1>8. StdinFailureEndsCall'
  BY <1>2 DEF StdinInv, StdinFailureEndsCall
<1>. QED
  BY <1>1, <1>2, <1>3, <1>4, <1>5, <1>6, <1>7, <1>8 DEF StdinInv

\* A rejected operation leaves the rest of the queue behind on a dead call.
LEMMA RejectStdin ==
    ASSUME TypeOK, StdinInv, HeadInv, head = "waiting", RejectOp,
           UNCHANGED <<opts, phase, completed, outcome>>,
           rpc # "open" => rpc' # "open",
           rpc' # "open" \/ completed,
           gate' = gate \/ (gate = "pending" /\ gate' = "failed")
    PROVE  StdinInv'
<1>1. Len(wire) = done /\ done < Len(accepted)
  BY DEF StdinInv, HeadInv
<1>2. opts.stdin
  BY <1>1 DEF StdinInv
<1>3. rpc' # "open"
  <2>1. ASSUME rpc' = "open" PROVE FALSE
    <3>1. completed /\ rpc = "open"
      BY <2>1
    <3>2. Len(wire) = Len(accepted)
      BY <1>2, <3>1 DEF StdinInv
    <3>. QED
      BY <1>1, <3>2 DEF TypeOK
  <2>. QED
    BY <2>1
<1>4. UNCHANGED <<isClosed, accepted, done, wire>> /\ head' = "idle"
  BY DEF RejectOp
<1>. QED
  BY <1>1, <1>3, <1>4 DEF StdinInv, StdinFailureEndsCall

\* StdinInv is inductive, given the types and CallInv.
LEMMA StdinNext ==
    TypeOK /\ HeadInv /\ CallInv /\ StdinInv /\ [Next]_vars => StdinInv'
<1>. SUFFICES ASSUME TypeOK, HeadInv, CallInv, StdinInv, [Next]_vars PROVE StdinInv'
  OBVIOUS
<1>0. Abort => (rpc # "open" => rpc' # "open") /\ rpc' # "open"
  BY DEF Abort
<1>1. CASE ServerSends
  BY <1>1, OtherStdin DEF ServerSends, opVars, procVars
<1>2. CASE SignalAborts
  BY <1>0, <1>2, OtherStdin DEF SignalAborts, opVars, procVars
<1>3. CASE StartSucceeds
  <2>1. accepted = <<>>
    BY <1>3 DEF StartSucceeds, StdinInv
  <2>2. completed' = completed \/ rpc' # "open" \/ ~opts.stdin
    <3>1. CASE opts.stdin
      <4>1. completed = FALSE
        BY <1>3 DEF StartSucceeds, StdinInv, TypeOK
      <4>2. completed' = FALSE
        BY <1>3, <3>1 DEF StartSucceeds
      <4>. QED
        BY <4>1, <4>2
    <3>2. CASE ~opts.stdin
      BY <3>2
    <3>. QED
      BY <3>1, <3>2
  <2>. QED
    BY <1>3, <2>1, <2>2, OtherStdin DEF StartSucceeds, opVars, procVars
<1>4. CASE StartFails
  <2>1. accepted = <<>>
    BY <1>4 DEF StartFails, StdinInv
  <2>. QED
    BY <1>4, <2>1, OtherStdin DEF StartFails, opVars, procVars
<1>5. CASE Receive
  <2>1. gate' = gate \/ (gate = "pending" /\ gate' \in {"ready", "failed"})
    BY <1>5 DEF Receive
  <2>. QED
    BY <1>5, <2>1, OtherStdin DEF Receive, opVars, procVars
<1>6. CASE Dispatch
  <2>1. UNCHANGED <<opts, phase, rpc, completed, gate, opVars>>
    BY <1>6 DEF Dispatch, DispatchReady, DispatchOutput, DispatchExit, DispatchError, Dispatching
  <2>2. outcome' = "cancelled" => outcome = "cancelled"
    BY <1>6 DEF Dispatch, DispatchReady, DispatchOutput, DispatchExit, DispatchError
  <2>. QED
    BY <2>1, <2>2, OtherStdin DEF opVars
<1>7. CASE FinishRequests
  <2>1. rpc # "open" /\ phase = "started"
    BY <1>7 DEF FinishRequests, CallInv
  <2>. QED
    BY <1>7, <2>1, OtherStdin DEF FinishRequests, opVars, procVars
<1>8. CASE SettleLease
  BY <1>8, OtherStdin DEF SettleLease, opVars, procVars
<1>9. CASE Cancel
  <2>1. gate' = gate \/ (gate = "pending" /\ gate' \in {"ready", "failed"})
    BY <1>9 DEF Cancel
  <2>2. (rpc # "open" => rpc' # "open") /\ (opts.stdin => rpc' # "open")
    BY <1>0, <1>9 DEF Cancel
  <2>3. isClosed => isClosed'
    BY <1>9 DEF Cancel
  <2>. QED
    BY <1>9, <2>1, <2>2, <2>3, OtherStdin DEF Cancel
<1>10. CASE ConsumerTakes \/ Wait \/ WaitGivesUp \/ WaitAnswered
  <2>1. UNCHANGED <<opts, phase, rpc, completed, gate, opVars, outcome>>
    BY <1>10 DEF ConsumerTakes, Wait, WaitGivesUp, WaitAnswered, Waiting, procVars
  <2>. QED
    BY <2>1, OtherStdin DEF opVars
<1>11. CASE Write \/ CloseStdin
  BY <1>11, AcceptStdin
<1>12. CASE BeginOp
  BY <1>12 DEF BeginOp, StdinOnly, procVars, StdinInv, StdinFailureEndsCall
<1>13. CASE SendOp
  BY <1>13, SendStdin
<1>14. CASE GateTimeout
  BY <1>0, <1>14, RejectStdin DEF GateTimeout, StdinOnly, procVars
<1>15. CASE GateFailed
  BY <1>0, <1>15, RejectStdin DEF GateFailed, StdinOnly, procVars
<1>16. CASE SendFails
  BY <1>16, RejectStdin DEF SendFails, StdinOnly, procVars
<1>17. CASE CompleteClose
  <2>1. Len(wire) = done + 1 /\ done < Len(accepted) /\ accepted[done + 1] = "close"
    BY <1>17 DEF CompleteClose, StdinInv, HeadInv
  <2>2. done \in Nat /\ Len(accepted) \in Nat
    BY LenProperties DEF TypeOK
  <2>3. done + 1 = Len(accepted) /\ isClosed
    BY <2>1, <2>2 DEF StdinInv
  <2>4. /\ completed' /\ done' = done + 1 /\ head' = "idle"
        /\ UNCHANGED <<opts, phase, rpc, gate, isClosed, accepted, poisoned, wire, outcome>>
    BY <1>17 DEF CompleteClose, StdinOnly, procVars
  <2>5. phase = "started"
    BY <2>1, <2>2 DEF StdinInv
  <2>. QED
    BY <2>1, <2>2, <2>3, <2>4, <2>5 DEF StdinInv, StdinFailureEndsCall
<1>18. CASE UNCHANGED vars
  BY <1>18, OtherStdin DEF vars, procVars, opVars
<1>. QED
  BY <1>1, <1>2, <1>3, <1>4, <1>5, <1>6, <1>7, <1>8, <1>9, <1>10, <1>11, <1>12,
     <1>13, <1>14, <1>15, <1>16, <1>17, <1>18 DEF Next, StdinStep, GateWait

----------------------------------------------------------------------------

LEMMA SessionInv == Spec => [](TypeOK /\ HeadInv /\ CallInv /\ StdinInv)
BY TypeInit, TypeNext, CallInit, CallNext, StdinInit, StdinNext, PTL DEF Spec

\* wait(), status and exitCode agree in every reachable state, however
\* cancel() and the last frame race.
THEOREM OutcomeAgrees == Spec => []OneOutcome
<1>1. CallInv => OneOutcome
  BY DEF CallInv
<1>. QED
  BY SessionInv, <1>1, PTL

\* The lease outlives the call, and wait() is settled before it is released.
THEOREM LeaseSafe == Spec => []LeaseOutlivesCall
<1>1. TypeOK /\ CallInv => LeaseOutlivesCall
  BY DEF CallInv, TypeOK, LeaseOutlivesCall
<1>. QED
  BY SessionInv, <1>1, PTL

\* The server reads the accepted writes in their order, none before it was
\* ready and the close message last.
THEOREM StdinOrdered == Spec => []StdinInOrder
<1>1. TypeOK /\ HeadInv /\ StdinInv => StdinInOrder
  <2>. SUFFICES ASSUME TypeOK, HeadInv, StdinInv PROVE StdinInOrder
    OBVIOUS
  <2>1. done \in Nat /\ Len(accepted) \in Nat /\ Len(wire) \in Nat
    BY LenProperties DEF TypeOK
  <2>2. Len(wire) <= Len(accepted)
    BY <2>1 DEF StdinInv, HeadInv
  <2>3. wire = SubSeq(accepted, 1, Len(wire))
    <3>1. SubSeq(accepted, 1, Len(wire)) = [i \in 1..Len(wire) |-> accepted[i]]
      BY <2>1, <2>2, SubSeqProperties DEF TypeOK
    <3>2. wire = [i \in 1..Len(wire) |-> wire[i]]
      BY DEF TypeOK
    <3>. QED
      BY <3>1, <3>2 DEF StdinInv
  <2>4. \A i \in 1..Len(wire) : wire[i] = "close" => i = Len(accepted)
    BY <2>1, <2>2 DEF StdinInv
  <2>5. opts.stdin /\ completed /\ rpc = "open" => wire = accepted
    <3>. SUFFICES ASSUME opts.stdin, completed, rpc = "open" PROVE wire = accepted
      OBVIOUS
    <3>1. Len(wire) = Len(accepted) /\ \A i \in 1..Len(wire) : wire[i] = accepted[i]
      BY DEF StdinInv
    <3>. QED
      BY <3>1, SeqEqual DEF TypeOK
  <2>. QED
    BY <2>2, <2>3, <2>4, <2>5 DEF StdinInOrder, StdinInv
<1>. QED
  BY SessionInv, <1>1, PTL

\* A failed write and a cancelled stdin leave no open call behind.
THEOREM FailureEndsCall == Spec => []StdinFailureEndsCall
<1>1. StdinInv => StdinFailureEndsCall
  BY DEF StdinInv
<1>. QED
  BY SessionInv, <1>1, PTL

\* Input reaches the server whole and in order, or the call ends.
THEOREM StdinSafe == Spec => []StdinKept
BY StdinOrdered, FailureEndsCall, PTL DEF StdinKept

----------------------------------------------------------------------------

\* The bytes a frame adds to the output, and those the loop holds in its hand.
Bytes(f) == IF f.kind = "output" THEN f.n ELSE 0
InHand == IF loop = "dispatching" THEN Bytes(current) ELSE 0

\* t adds up the bytes on their way: t[i] is what the accumulator will have
\* counted once the first i unread responses are dispatched.
Counts(t) ==
    /\ t \in [0..Len(inbound) -> Nat]
    /\ t[0] = output.produced + InHand
    /\ t[Len(inbound)] = sentBytes
    /\ \A i \in 1..Len(inbound) : t[i] = t[i - 1] + Bytes(inbound[i])

\* Nothing the server sent is missing between it and the accumulator, no frame
\* follows the last one, and the accumulator says what it has dropped.
BytesInv ==
    /\ \E t : Counts(t)
    /\ \A i \in 1..Len(inbound) : inbound[i] \in Last => i = Len(inbound)
    /\ loop = "dispatching" /\ current \in Last => inbound = <<>>
    /\ output.kept = IF output.produced < Limit THEN output.produced ELSE Limit
    /\ output.kept < output.produced => output.truncated
    /\ ResultComplete

LEMMA BytesInit == Init => BytesInv
<1>. SUFFICES ASSUME Init PROVE BytesInv
  OBVIOUS
<1>1. Counts([i \in {0} |-> 0])
  BY DEF Init, Counts, InHand
<1>. QED
  BY <1>1, SessionAssumption DEF Init, BytesInv, ResultComplete

LEMMA BytesOf == ASSUME NEW f \in Frames PROVE Bytes(f) \in Nat /\ (f \in Last \cup {Ready} => Bytes(f) = 0)
BY FrameFields DEF Bytes

\* A response joins the end of those unread.
LEMMA CountsAppend ==
    ASSUME TypeOK, NEW f \in Frames, inbound' = Append(inbound, f),
           NEW t, Counts(t), sentBytes' = sentBytes + Bytes(f),
           UNCHANGED <<output, loop, current>>
    PROVE  \E u : Counts(u)'
<1>. DEFINE n == Len(inbound)
<1>1. n \in Nat /\ Len(inbound') = n + 1 /\ inbound'[n + 1] = f
      /\ \A i \in 1..n : inbound'[i] = inbound[i]
  BY AppendProperties, LenProperties DEF TypeOK
<1>2. Bytes(f) \in Nat /\ sentBytes \in Nat
  BY BytesOf DEF TypeOK
<1>3. PICK u : u = [i \in 0..(n + 1) |-> IF i = n + 1 THEN sentBytes' ELSE t[i]]
  OBVIOUS
<1>4. u \in [0..(n + 1) -> Nat]
  BY <1>1, <1>2, <1>3 DEF Counts
<1>5. u[0] = (output.produced + InHand)'
  BY <1>1, <1>3 DEF Counts, InHand, Bytes
<1>6. u[n + 1] = sentBytes'
  BY <1>1, <1>3
<1>7. \A i \in 1..(n + 1) : u[i] = u[i - 1] + Bytes(inbound'[i])
  BY <1>1, <1>2, <1>3 DEF Counts
<1>8. Counts(u)'
  BY <1>1, <1>4, <1>5, <1>6, <1>7 DEF Counts, Bytes
<1>. QED
  BY <1>8

\* The responses stay and so does what is counted.
LEMMA CountsStay ==
    ASSUME \E t : Counts(t), UNCHANGED <<inbound, sentBytes>>,
           (output.produced + InHand)' = output.produced + InHand
    PROVE  \E t : Counts(t)'
<1>1. PICK t : Counts(t)
  OBVIOUS
<1>2. Counts(t)'
  BY <1>1 DEF Counts
<1>. QED
  BY <1>2

\* The first unread response is taken into the hand.
LEMMA CountsTake ==
    ASSUME TypeOK, NEW t, Counts(t), Receive
    PROVE  \E u : Counts(u)'
<1>. DEFINE n == Len(inbound)
<1>1. /\ n \in Nat \ {0} /\ Len(inbound') = n - 1 /\ current' = inbound[1]
      /\ \A i \in 1..(n - 1) : inbound'[i] = inbound[i + 1]
  BY HeadTailProperties, LenProperties, EmptySeq DEF TypeOK, Receive
<1>2. InHand' = Bytes(inbound[1]) /\ InHand = 0 /\ UNCHANGED <<output, sentBytes>>
  BY <1>1 DEF Receive, InHand, Bytes, procVars, sentVars
<1>3. output.produced \in Nat
  BY DEF TypeOK, Summary
<1>4. PICK u : u = [i \in 0..(n - 1) |-> t[i + 1]]
  OBVIOUS
<1>5. u[0] = (output.produced + InHand)'
  BY <1>1, <1>2, <1>3, <1>4 DEF Counts
<1>6. u \in [0..(n - 1) -> Nat] /\ u[n - 1] = sentBytes'
  BY <1>1, <1>2, <1>4 DEF Counts
<1>7. ASSUME NEW i \in 1..(n - 1) PROVE u[i] = u[i - 1] + Bytes(inbound'[i])
  <2>1. u[i] = t[i + 1] /\ u[i - 1] = t[i]
    BY <1>1, <1>4
  <2>2. t[i + 1] = t[(i + 1) - 1] + Bytes(inbound[i + 1])
    BY <1>1 DEF Counts
  <2>. QED
    BY <1>1, <2>1, <2>2
<1>8. Counts(u)'
  BY <1>1, <1>5, <1>6, <1>7 DEF Counts, Bytes
<1>. QED
  BY <1>8

\* A chunk moves from the hand into the accumulator.
LEMMA AppendCounts ==
    ASSUME output \in Summary, NEW size \in Nat,
           output.kept = IF output.produced < Limit THEN output.produced ELSE Limit,
           output.kept < output.produced => output.truncated
    PROVE  LET o == AppendChunk(size)
           IN  /\ o.produced = output.produced + size
               /\ o.kept = IF o.produced < Limit THEN o.produced ELSE Limit
               /\ o.kept < o.produced => o.truncated
<1>1. output.produced \in Nat /\ output.kept \in Nat /\ Limit \in Nat
      /\ output.truncated \in BOOLEAN
  BY SessionAssumption DEF Summary
<1>2. CASE size > Limit - output.kept
  <2>1. AppendChunk(size) = [kept |-> output.kept + (Limit - output.kept),
                             produced |-> output.produced + size,
                             truncated |-> TRUE]
    BY <1>1, <1>2 DEF AppendChunk
  <2>. QED
    BY <1>1, <1>2, <2>1
<1>3. CASE ~(size > Limit - output.kept)
  <2>1. AppendChunk(size) = [kept |-> output.kept + size,
                             produced |-> output.produced + size,
                             truncated |-> output.truncated \/ Limit - output.kept = 0]
    BY <1>1, <1>3 DEF AppendChunk
  <2>. QED
    BY <1>1, <1>3, <2>1
<1>. QED
  BY <1>2, <1>3

\* Everything that leaves the frames and the accumulator alone.
LEMMA OtherBytes ==
    ASSUME BytesInv, UNCHANGED <<inbound, loop, current, output, result, sentBytes>>
    PROVE  BytesInv'
<1>1. \E t : Counts(t)'
  BY CountsStay DEF BytesInv, InHand, Bytes
<1>. QED
  BY <1>1 DEF BytesInv, ResultComplete

\* Aborting the call adds a last response without bytes behind the others.
LEMMA AbortBytes ==
    ASSUME TypeOK, CallInv, BytesInv, Abort,
           UNCHANGED <<loop, current, output, result, sentBytes>>
    PROVE  BytesInv'
<1>1. CASE rpc # "open"
  BY <1>1, OtherBytes DEF Abort
<1>2. CASE rpc = "open"
  <2>1. inbound' = Append(inbound, Aborted) /\ Aborted \in Last /\ Aborted \in Frames
    BY <1>2 DEF Abort, Aborted, Last, Frames
  <2>2. Bytes(Aborted) = 0
    BY <2>1, BytesOf
  <2>3. \E t : Counts(t)'
    BY <2>1, <2>2, CountsAppend DEF BytesInv, TypeOK
  <2>4. \A i \in 1..Len(inbound) : inbound[i] \notin Last
    BY <1>2 DEF CallInv
  <2>5. \A i \in 1..Len(inbound') : inbound'[i] \in Last => i = Len(inbound')
    BY <2>1, <2>4, AppendProperties, LenProperties DEF TypeOK
  <2>6. ~(loop = "dispatching" /\ current \in Last)
    BY <1>2 DEF CallInv
  <2>. QED
    BY <2>3, <2>5, <2>6 DEF BytesInv, ResultComplete
<1>. QED
  BY <1>1, <1>2

\* BytesInv is inductive, given the types and CallInv.
LEMMA BytesNext == TypeOK /\ CallInv /\ BytesInv /\ [Next]_vars => BytesInv'
<1>. SUFFICES ASSUME TypeOK, CallInv, BytesInv, [Next]_vars PROVE BytesInv'
  OBVIOUS
<1>1. CASE ServerSends
  <2>1. PICK f \in Frames :
          /\ inbound' = Append(inbound, f)
          /\ sentBytes' = IF f.kind = "output" THEN sentBytes + f.n ELSE sentBytes
    BY <1>1 DEF ServerSends
  <2>2. rpc = "open" /\ UNCHANGED <<loop, current, output, result>>
    BY <1>1 DEF ServerSends, procVars
  <2>3. sentBytes' = sentBytes + Bytes(f)
    BY <2>1 DEF Bytes, TypeOK
  <2>4. \E t : Counts(t)'
    BY <2>1, <2>2, <2>3, CountsAppend DEF BytesInv
  <2>5. \A i \in 1..Len(inbound) : inbound[i] \notin Last
    BY <2>2 DEF CallInv
  <2>6. \A i \in 1..Len(inbound') : inbound'[i] \in Last => i = Len(inbound')
    BY <2>1, <2>5, AppendProperties, LenProperties DEF TypeOK
  <2>7. ~(loop = "dispatching" /\ current \in Last)
    BY <2>2 DEF CallInv
  <2>8. result' = <<>>
    <3>1. loop \notin {"finishing", "settling", "done"}
      BY <2>2 DEF CallInv
    <3>. QED
      BY <2>2, <3>1 DEF CallInv, OneOutcome
  <2>. QED
    BY <2>2, <2>4, <2>6, <2>7, <2>8 DEF BytesInv, ResultComplete
<1>2. CASE SignalAborts
  BY <1>2, AbortBytes DEF SignalAborts, procVars, sentVars
<1>3. CASE StartSucceeds \/ StartFails \/ ConsumerTakes \/ Wait \/ WaitGivesUp \/ WaitAnswered
  BY <1>3, OtherBytes DEF StartSucceeds, StartFails, ConsumerTakes, Wait, WaitGivesUp,
     WaitAnswered, Waiting, procVars, sentVars
<1>4. CASE Receive
  <2>1. \E t : Counts(t)'
    BY <1>4, CountsTake DEF BytesInv
  <2>2. current' = inbound[1] /\ Len(inbound') = Len(inbound) - 1 /\ inbound # <<>>
        /\ Len(inbound) \in Nat /\ \A i \in 1..Len(inbound') : inbound'[i] = inbound[i + 1]
        /\ inbound' \in Seq(Frames)
    BY <1>4, HeadTailProperties, LenProperties DEF Receive, TypeOK
  <2>3. current' \in Last => inbound' = <<>>
    <3>. SUFFICES ASSUME current' \in Last PROVE inbound' = <<>>
      OBVIOUS
    <3>1. Len(inbound) # 0
      BY <2>2, EmptySeq DEF TypeOK
    <3>2. Len(inbound) = 1
      BY <2>2, <3>1 DEF BytesInv
    <3>. QED
      BY <2>2, <3>2, EmptySeq
  <2>4. ASSUME NEW i \in 1..Len(inbound'), inbound'[i] \in Last PROVE i = Len(inbound')
    <3>1. i + 1 \in 1..Len(inbound) /\ inbound[i + 1] \in Last
      BY <2>2, <2>4
    <3>. QED
      BY <2>2, <3>1 DEF BytesInv
  <2>5. UNCHANGED <<output, result, sentBytes>>
    BY <1>4 DEF Receive, procVars, sentVars
  <2>. QED
    BY <2>1, <2>3, <2>4, <2>5 DEF BytesInv, ResultComplete
<1>5. CASE DispatchReady
  <2>1. UNCHANGED <<inbound, current, output, result, sentBytes>> /\ loop' = "reading"
        /\ loop = "dispatching" /\ current.kind = "ready"
    BY <1>5 DEF DispatchReady, Dispatching, sentVars
  <2>2. InHand' = InHand
    BY <2>1 DEF InHand, Bytes
  <2>3. \E t : Counts(t)'
    BY <2>1, <2>2, CountsStay DEF BytesInv
  <2>. QED
    BY <2>1, <2>3 DEF BytesInv, ResultComplete
<1>6. CASE DispatchOutput
  <2>1. /\ UNCHANGED <<inbound, current, result, sentBytes, rpc, outcome>>
        /\ loop = "dispatching" /\ loop' = "reading" /\ current.kind = "output"
        /\ output' = AppendChunk(current.n)
    BY <1>6 DEF DispatchOutput, Dispatching, sentVars
  <2>2. current.n \in Nat
    BY <2>1, FrameFields DEF CallInv
  <2>3. PICK n \in Nat : n = current.n
    BY <2>2
  <2>4. output \in Summary /\ output.produced \in Nat
    BY DEF TypeOK, Summary
  <2>5. output'.produced = output.produced + n
        /\ output'.kept = (IF output'.produced < Limit THEN output'.produced ELSE Limit)
        /\ (output'.kept < output'.produced => output'.truncated)
    BY <2>1, <2>3, <2>4, AppendCounts DEF BytesInv
  <2>6. InHand = n /\ InHand' = 0
    BY <2>1, <2>3 DEF InHand, Bytes
  <2>7. \E t : Counts(t)'
    BY <2>1, <2>4, <2>5, <2>6, CountsStay DEF BytesInv
  <2>. QED
    BY <2>1, <2>5, <2>7 DEF BytesInv, ResultComplete
<1>7. CASE DispatchExit \/ DispatchError
  <2>1. /\ UNCHANGED <<inbound, current, output, sentBytes>>
        /\ loop = "dispatching" /\ loop' = "finishing"
    BY <1>7 DEF DispatchExit, DispatchError, Dispatching, sentVars
  <2>2. current \in Last /\ current \in Frames
    BY <1>7, <2>1, FrameFields DEF DispatchExit, DispatchError, Dispatching, CallInv
  <2>3. InHand = 0 /\ InHand' = 0
    BY <2>1, <2>2, BytesOf DEF InHand
  <2>4. \E t : Counts(t)'
    BY <2>1, <2>3, CountsStay DEF BytesInv
  <2>5. output.produced = sentBytes
    <3>1. PICK t : Counts(t)
      BY DEF BytesInv
    <3>2. inbound = <<>>
      BY <2>1, <2>2 DEF BytesInv
    <3>3. t[0] = output.produced + 0 /\ t[0] = sentBytes
      BY <2>3, <3>1, <3>2 DEF Counts
    <3>4. output.produced \in Nat
      BY DEF TypeOK, Summary
    <3>. QED
      BY <3>3, <3>4
  <2>6. result' = result \/ result' = output
    BY <1>7 DEF DispatchExit, DispatchError
  <2>. QED
    BY <2>1, <2>4, <2>5, <2>6 DEF BytesInv, ResultComplete
<1>8. CASE FinishRequests \/ SettleLease
  <2>1. UNCHANGED <<inbound, current, output, result, sentBytes>>
        /\ loop # "dispatching" /\ loop' # "dispatching"
    BY <1>8 DEF FinishRequests, SettleLease, procVars, sentVars
  <2>2. \E t : Counts(t)'
    BY <2>1, CountsStay DEF BytesInv, InHand
  <2>. QED
    BY <2>1, <2>2 DEF BytesInv, ResultComplete
<1>9. CASE Cancel
  <2>1. UNCHANGED <<loop, current, output, result, sentBytes>>
    BY <1>9 DEF Cancel, sentVars
  <2>. QED
    BY <1>9, <2>1, AbortBytes, OtherBytes DEF Cancel
<1>10. CASE Write \/ CloseStdin \/ BeginOp \/ SendOp \/ SendFails \/ CompleteClose
  BY <1>10, OtherBytes DEF Write, CloseStdin, BeginOp, SendOp, SendFails, CompleteClose,
     StdinOnly, procVars, sentVars
<1>11. CASE GateWait
  BY <1>11, AbortBytes DEF GateWait, GateTimeout, GateFailed, StdinOnly, procVars, sentVars
<1>12. CASE UNCHANGED vars
  BY <1>12, OtherBytes DEF vars, procVars, sentVars
<1>. QED
  BY <1>1, <1>2, <1>3, <1>4, <1>5, <1>6, <1>7, <1>8, <1>9, <1>10, <1>11, <1>12
     DEF Next, Dispatch, StdinStep

\* The result of a command accounts for all the output the server sent.
THEOREM ResultAccounts == Spec => []ResultComplete
<1>1. BytesInv => ResultComplete
  BY DEF BytesInv
<1>. QED
  BY SessionInv, BytesInit, BytesNext, <1>1, PTL DEF Spec
=============================================================================
