------------------------ MODULE SandboxLifecycleProofs ------------------------
(***************************************************************************)
(* Proofs about SandboxLifecycle for any number of waits, stops, inspects  *)
(* and faults.  StopInv ties what the shared stop knows, the answer it     *)
(* holds and its place, to what the server did; WaitInv says which waits   *)
(* are in their grace period; CodeInv ties the answers a wait gets to what *)
(* the server had recorded when the wait asked.                            *)
(***************************************************************************)
EXTENDS SandboxLifecycle, TLAPS

\* What the shared stop's place and the answer it holds say of the server.
StopInv ==
    /\ rpc[Shared].kind = "found" /\ rpc[Shared].status \in Terminal \cup {"unspecified"}
        => Ended
    /\ rpc[Shared] \in {DeleteSent, Deleted} => pc[Shared] = "delete"
    /\ pc[Shared] \notin {"lookup", "delete", "get"} => rpc[Shared] = Idle
    /\ pc[Shared] = "delete" =>
        /\ attempts >= 1 /\ rpc[Shared] # GetSent
        /\ rpc[Shared] = NotFound => status = "gone"
        /\ attempts = 1 /\ rpc[Shared] \in {DeleteSent, NotFound} => ~applied
    /\ pc[Shared] \in {"off", "lookup", "notFound"} => ~applied
    /\ pc[Shared] = "ok" => Ended
    /\ window # "closed" => missed >= 1
    /\ pc[Shared] = "unavailable" => missed >= 2
    /\ \A c \in StopCalls : caller[c] = "stopped" => pc[Shared] = "ok"

\* A wait asks again for the exit code only when "completed" is good enough.
WaitInv ==
    \A w \in Waits :
        pc[w] \in {"grace sleep", "grace get"} => Satisfies("completed", goal[w])

\* A wait that asked after the code was recorded is answered with the code, and
\* does not ask for it again.
CodeInv ==
    /\ stamped => status \in {"completed", "gone"}
    /\ \A w \in Waits : recorded[w] =>
        /\ stamped
        /\ rpc[w].kind = "found" => rpc[w].status = "completed" /\ rpc[w].exit
        /\ pc[w] # "grace sleep"

-----------------------------------------------------------------------------

\* The actors are distinct.
LEMMA ActorNames ==
    /\ Waits \subseteq Actors /\ Inspects \subseteq Actors /\ Shared \in Actors
    /\ RunWait \in Waits /\ Shared \notin Waits /\ Shared \notin Inspects
    /\ Waits \cap Inspects = {}
    /\ Cleanup \in StopCalls /\ Dispose \in StopCalls
<1>1. /\ RunWait \notin UserWaits /\ RunWait \notin Inspects
      /\ Shared \notin UserWaits /\ Shared \notin Inspects
      /\ UserWaits \cap Inspects = {} /\ RunWait # Shared
  BY LifecycleAssumption
<1>. QED
  BY <1>1 DEF Waits, Actors, StopCalls

\* The messages differ by their kind; a found sandbox carries a status.
LEMMA Shapes ==
    /\ \A m \in Messages :
        /\ m.kind = "found" => m.status \in Reported /\ m.exit \in BOOLEAN
        /\ m.kind = "found" <=> m \notin {Idle, GetSent, DeleteSent, NotFound, Deleted, Fault}
        /\ m.kind = "notFound" <=> m = NotFound
        /\ m.kind = "fault" <=> m = Fault
    /\ NotFound \notin {Idle, GetSent, DeleteSent, Deleted, Fault}
    /\ Fault \notin {Idle, GetSent, DeleteSent, Deleted}
    /\ Deleted \notin {Idle, GetSent, DeleteSent}
    /\ DeleteSent \notin {Idle, GetSent} /\ GetSent # Idle
    /\ {Idle, GetSent, DeleteSent, NotFound, Deleted, Fault} \subseteq Messages
    /\ NotFound.kind = "notFound" /\ Fault.kind = "fault" /\ Idle.kind = "none"
    /\ GetSent.kind = "get" /\ DeleteSent.kind = "delete" /\ Deleted.kind = "deleted"
<1>1. /\ NotFound.kind = "notFound" /\ Fault.kind = "fault" /\ Idle.kind = "none"
      /\ GetSent.kind = "get" /\ DeleteSent.kind = "delete" /\ Deleted.kind = "deleted"
  BY DEF NotFound, Fault, Idle, GetSent, DeleteSent, Deleted
<1>2. ASSUME NEW s \in Reported, NEW e \in BOOLEAN
      PROVE  Found(s, e).kind = "found" /\ Found(s, e).status = s /\ Found(s, e).exit = e
  BY DEF Found
<1>3. ASSUME NEW m \in Messages
      PROVE  /\ m.kind = "found" => m.status \in Reported /\ m.exit \in BOOLEAN
             /\ m.kind = "found" <=> m \notin {Idle, GetSent, DeleteSent, NotFound, Deleted, Fault}
             /\ m.kind = "notFound" <=> m = NotFound
             /\ m.kind = "fault" <=> m = Fault
  <2>1. CASE m \in {Idle, GetSent, DeleteSent, NotFound, Deleted, Fault}
    BY <1>1, <2>1
  <2>2. CASE m \in {Found(s, e) : s \in Reported, e \in BOOLEAN}
    <3>1. PICK s \in Reported, e \in BOOLEAN : m = Found(s, e)
      BY <2>2
    <3>. QED
      BY <1>1, <1>2, <3>1
  <2>. QED
    BY <2>1, <2>2 DEF Messages
<1>. QED
  BY <1>1, <1>3 DEF Messages

\* What the server reports is a message.
LEMMA SnapshotType == ServerTypes => Snapshot \in Messages
<1>. SUFFICES ASSUME ServerTypes PROVE Snapshot \in Messages
  OBVIOUS
<1>1. visible => status \in Reported /\ stamped \in BOOLEAN
  BY DEF ServerTypes
<1>2. visible => Found(status, stamped) \in Messages
  BY <1>1 DEF Messages
<1>. QED
  BY <1>2, Shapes DEF Snapshot

\* The initial state has the types.
LEMMA TypeInit == Init => TypeOK
<1>. SUFFICES ASSUME Init PROVE TypeOK
  OBVIOUS
<1>1. ServerTypes
  <2>1. status = "creating" /\ visible = TRUE /\ stamped = FALSE /\ faults = 0
        /\ applied = FALSE /\ absent = FALSE
    BY DEF Init
  <2>2. MaxFaults \in Nat
    BY LifecycleAssumption
  <2>3. faults \in 0..MaxFaults
    <3>1. faults = 0
      BY <2>1
    <3>. QED
      BY <2>2, <3>1
  <2>. QED
    BY <2>1, <2>3 DEF ServerTypes, Reported, Live
<1>2. RpcTypes
  BY Shapes DEF Init, RpcTypes
<1>3. HandleTypes
  BY DEF Init, HandleTypes, Reported, Live
<1>4. WaitTypes
  BY DEF Init, WaitTypes, Labels, GracePolls
<1>5. StopTypes
  <2>1. window = "closed" /\ attempts = 0 /\ allowMissing = FALSE /\ missed = 0
    BY DEF Init
  <2>2. attempts \in 0..MaxAttempts /\ missed \in 0..2
    <3>1. attempts = 0 /\ missed = 0
      BY <2>1
    <3>. QED
      BY <3>1 DEF MaxAttempts
  <2>. QED
    BY <2>1, <2>2 DEF StopTypes
<1>6. CallerTypes /\ recorded \in [Waits -> BOOLEAN]
  BY DEF Init, CallerTypes
<1>. QED
  BY <1>1, <1>2, <1>3, <1>4, <1>5, <1>6 DEF TypeOK

\* The server's steps keep the types.
LEMMA TypeServer == TypeOK /\ Server => TypeOK'
<1>. SUFFICES ASSUME TypeOK, Server PROVE TypeOK'
  OBVIOUS
<1>1. ServerTypes /\ RpcTypes
  BY DEF TypeOK
<1>2. HandleTypes' /\ WaitTypes' /\ CallerTypes'
  BY DEF TypeOK, Server, Sandbox, Responds, handle, stopVars,
         HandleTypes, WaitTypes, CallerTypes
<1>3. ASSUME CarryOut
      PROVE  /\ status' \in Reported \cup {"gone"} /\ visible' \in BOOLEAN
             /\ stamped' \in BOOLEAN /\ (visible' => status' # "gone")
             /\ applied' \in BOOLEAN /\ absent' \in BOOLEAN /\ missed' = missed
  BY <1>1, <1>3 DEF CarryOut, ServerTypes, Reported, Live
<1>4. CASE Sandbox
  <2>1. ServerTypes'
    <3>1. status' \in Reported \cup {"gone"}
      BY <1>1, <1>4, LifecycleAssumption
      DEF Sandbox, ServerMoves, ServerEnds, ServerHides, ServerStamps, ServerForgets,
          ServerTypes, Reported, Live, Terminal
    <3>2. visible' \in BOOLEAN /\ stamped' \in BOOLEAN
      BY <1>1, <1>4
      DEF Sandbox, ServerMoves, ServerEnds, ServerHides, ServerStamps, ServerForgets,
          ServerTypes
    <3>3. visible' => status' # "gone"
      BY <1>1, <1>4, LifecycleAssumption
      DEF Sandbox, ServerMoves, ServerEnds, ServerHides, ServerStamps, ServerForgets,
          ServerTypes
    <3>. QED
      BY <1>1, <1>4, <3>1, <3>2, <3>3 DEF Sandbox, ghosts, ServerTypes
  <2>. QED
    BY <1>2, <1>4, <2>1 DEF TypeOK, Sandbox, ghosts, stopVars, RpcTypes, StopTypes
<1>5. ASSUME NEW a \in Actors, Responds(a) PROVE TypeOK'
  <2>1. RpcTypes'
    BY <1>1, <1>5, SnapshotType, Shapes
    DEF Responds, ServerAnswers, RpcFails, ServerDeletes, DeleteAnswer, RpcTypes
  <2>2. faults' \in 0..MaxFaults
    BY <1>1, <1>5, LifecycleAssumption
    DEF Responds, ServerAnswers, RpcFails, ServerDeletes, ServerTypes
  <2>3. ServerTypes' /\ missed' = missed
    BY <1>1, <1>3, <1>5, <2>2
    DEF Responds, ServerAnswers, RpcFails, ServerDeletes, ServerTypes, server, ghosts
  <2>. QED
    BY <1>2, <1>5, <2>1, <2>3 DEF TypeOK, Responds, stopVars, StopTypes
<1>. QED
  BY <1>4, <1>5 DEF Server

\* updateMetadata, and the moves of an actor, keep the types of what they set.
LEMMA MoveTypes ==
    ASSUME TypeOK
    PROVE  /\ \A s, e : s \in Reported /\ e \in BOOLEAN /\ UpdateMetadata(s, e) => HandleTypes'
           /\ \A a : Send(a) \/ Take(a) => RpcTypes'
           /\ \A a, l : l \in Labels /\ Goto(a, l) => pc' \in [Actors -> Labels]
           /\ \A s \in Reported : Polled(s) \in Reported
           /\ "completed" \in Reported /\ "terminated" \in Reported
<1>1. \A s, e : s \in Reported /\ e \in BOOLEAN /\ UpdateMetadata(s, e) => HandleTypes'
  BY DEF TypeOK, HandleTypes, UpdateMetadata
<1>2. \A a : Send(a) \/ Take(a) => RpcTypes'
  BY Shapes DEF TypeOK, RpcTypes, Send, Take
<1>3. \A a, l : l \in Labels /\ Goto(a, l) => pc' \in [Actors -> Labels]
  BY DEF TypeOK, WaitTypes, Goto
<1>4. "completed" \in Reported /\ "terminated" \in Reported
  BY DEF Reported, Terminal
<1>. QED
  BY <1>1, <1>2, <1>3, <1>4 DEF Polled

\* inspect() keeps the types.
LEMMA TypeInspect == TypeOK /\ Inspect => TypeOK'
<1>. SUFFICES ASSUME TypeOK, NEW i \in Inspects,
                     InspectCalled(i) \/ InspectAnswered(i), Inspect
              PROVE  TypeOK'
  BY DEF Inspect
<1>1. rpc[i] \in Messages
  BY ActorNames DEF TypeOK, RpcTypes
<1>2. RpcTypes'
  BY MoveTypes DEF InspectCalled, InspectAnswered
<1>3. pc' \in [Actors -> Labels]
  BY MoveTypes DEF InspectCalled, InspectAnswered, Labels
<1>4. HandleTypes'
  BY <1>1, MoveTypes, Shapes DEF InspectCalled, InspectAnswered, handle, TypeOK, HandleTypes
<1>5. WaitTypes'
  BY <1>3 DEF Inspect, TypeOK, WaitTypes
<1>. QED
  BY <1>2, <1>4, <1>5
  DEF Inspect, server, stopVars, ghosts, TypeOK, ServerTypes, StopTypes, CallerTypes

\* wait() keeps the types.
LEMMA TypeWait == TypeOK /\ Wait => TypeOK'
<1>. SUFFICES ASSUME TypeOK, NEW w \in Waits, Wait,
                     \/ WaitCalled(w) \/ WaitSteps(w) \/ WaitAborted(w)
                     \/ DeadlinePasses(w),
                     late' = [late EXCEPT ![w] = @ /\ Waiting(w)'] \/ DeadlinePasses(w),
                     \/ UNCHANGED recorded \/ Records(w)
                     \/ recorded' = [recorded EXCEPT ![w] = FALSE]
              PROVE  TypeOK'
  BY DEF Wait
<1>1. rpc[w] \in Messages
  BY ActorNames DEF TypeOK, RpcTypes
<1>15. recorded' \in [Waits -> BOOLEAN]
  <2>1. recorded \in [Waits -> BOOLEAN] /\ stamped \in BOOLEAN
    BY DEF TypeOK, ServerTypes
  <2>. QED
    BY <2>1 DEF Records
<1>2. ServerTypes' /\ StopTypes' /\ CallerTypes'
  BY DEF Wait, server, stopVars, ghosts, TypeOK, ServerTypes, StopTypes, CallerTypes
<1>3. late' \in [Waits -> BOOLEAN]
  BY DEF TypeOK, WaitTypes, DeadlinePasses, Waiting
<1>4. polls \in [Waits -> 0..2] /\ pc \in [Actors -> Labels]
      /\ goal \in [Waits -> Goals \cup {"running"}]
  BY DEF TypeOK, WaitTypes, GracePolls
<1>5. ASSUME NEW e \in BOOLEAN, GraceEnds(w, e)
      PROVE  /\ HandleTypes' /\ polls' \in [Waits -> 0..2]
             /\ pc' \in [Actors -> Labels]
  <2>1. HandleTypes' /\ pc' \in [Actors -> Labels]
    BY <1>5, MoveTypes DEF GraceEnds, Labels
  <2>2. polls' = [polls EXCEPT ![w] = 0]
    BY <1>5 DEF GraceEnds
  <2>3. polls' \in [Waits -> 0..2]
    BY <1>4, <2>2
  <2>. QED
    BY <2>1, <2>3
<1>. DEFINE Rest == /\ RpcTypes' /\ HandleTypes' /\ pc' \in [Actors -> Labels]
                    /\ polls' \in [Waits -> 0..2]
                    /\ goal' \in [Waits -> Goals \cup {"running"}]
<1>6. ASSUME WaitCalled(w) PROVE Rest
  BY <1>4, <1>6, MoveTypes DEF WaitCalled, Labels, TypeOK, HandleTypes, handle
<1>7. ASSUME PollAnswered(w) PROVE Rest
  <2>1. Polled(rpc[w].status) \in Reported /\ rpc[w].exit \in BOOLEAN
    BY <1>1, <1>7, Shapes, MoveTypes DEF PollAnswered
  <2>2. HandleTypes' /\ RpcTypes'
    BY <1>7, <2>1, MoveTypes DEF PollAnswered
  <2>3. \A s, g : s \in Terminal => Verdict(s, g) \in Labels
    BY DEF Verdict, Terminal, Labels
  <2>4. pc' \in [Actors -> Labels]
    BY <1>7, <2>3, MoveTypes DEF PollAnswered, EndsShort, Labels
  <2>5. polls' \in [Waits -> 0..2]
    <3>1. polls' = [polls EXCEPT ![w] = IF pc'[w] = "grace sleep" THEN 1 ELSE @]
      BY <1>7 DEF PollAnswered
    <3>2. CASE pc'[w] = "grace sleep"
      <4>1. polls' = [polls EXCEPT ![w] = 1]
        BY <3>1, <3>2
      <4>. QED
        BY <1>4, <4>1
    <3>3. CASE pc'[w] # "grace sleep"
      <4>1. polls' = [polls EXCEPT ![w] = @]
        BY <3>1, <3>3
      <4>. QED
        BY <1>4, <4>1
    <3>. QED
      BY <3>2, <3>3
  <2>. QED
    BY <1>4, <1>7, <2>2, <2>4, <2>5 DEF PollAnswered
<1>8. ASSUME PollFailed(w) PROVE Rest
  BY <1>4, <1>8, MoveTypes DEF PollFailed, Labels, TypeOK, HandleTypes, handle
<1>9. ASSUME PollAgain(w) PROVE Rest
  BY <1>4, <1>9, MoveTypes DEF PollAgain, Labels, TypeOK, HandleTypes, RpcTypes, handle
<1>10. ASSUME GraceWakes(w) PROVE Rest
  BY <1>4, <1>5, <1>10, MoveTypes
  DEF GraceWakes, Labels, TypeOK, HandleTypes, RpcTypes, handle
<1>11. ASSUME GraceAnswered(w) PROVE Rest
  <2>1. RpcTypes' /\ goal' = goal
    BY <1>11, MoveTypes DEF GraceAnswered
  <2>2. rpc[w].kind = "found" => rpc[w].exit \in BOOLEAN
    BY <1>1, Shapes
  <2>. DEFINE bonus == rpc[w].kind = "found" /\ Polled(rpc[w].status) = "completed"
              exit == bonus /\ rpc[w].exit
  <2>3. exit \in BOOLEAN
    BY <2>2
  <2>4. ASSUME GraceEnds(w, exit) PROVE Rest
    BY <1>4, <1>5, <2>1, <2>3, <2>4
  <2>5. ASSUME /\ polls[w] # GracePolls
               /\ IF bonus THEN UpdateMetadata("completed", FALSE) ELSE UNCHANGED handle
               /\ Goto(w, "grace sleep")
               /\ polls' = [polls EXCEPT ![w] = @ + 1]
        PROVE  Rest
    <3>1. HandleTypes' /\ pc' \in [Actors -> Labels]
      BY <2>5, MoveTypes DEF TypeOK, HandleTypes, handle, Labels
    <3>2. polls[w] \in 0..2 /\ polls[w] # 2
      BY <1>4, <2>5 DEF GracePolls
    <3>3. polls' = [polls EXCEPT ![w] = @ + 1]
      BY <2>5
    <3>4. polls[w] + 1 \in 0..2
      BY <3>2
    <3>5. polls' \in [Waits -> 0..2]
      BY <1>4, <3>3, <3>4
    <3>. QED
      BY <1>4, <2>1, <3>1, <3>5
  <2>. QED
    BY <1>11, <2>4, <2>5 DEF GraceAnswered
<1>12. ASSUME WaitAborted(w) PROVE Rest
  <2>1. RpcTypes' /\ goal' = goal
    BY <1>12, MoveTypes DEF WaitAborted
  <2>2. CASE GraceEnds(w, FALSE)
    BY <1>4, <1>5, <2>1, <2>2
  <2>3. ASSUME Goto(w, "aborted"), polls' = [polls EXCEPT ![w] = 0], UNCHANGED handle
        PROVE  Rest
    <3>1. HandleTypes' /\ pc' \in [Actors -> Labels]
      BY <2>3, MoveTypes DEF TypeOK, HandleTypes, handle, Labels
    <3>2. polls' \in [Waits -> 0..2]
      BY <1>4, <2>3
    <3>. QED
      BY <1>4, <2>1, <3>1, <3>2
  <2>. QED
    BY <1>12, <2>2, <2>3 DEF WaitAborted
<1>13. ASSUME DeadlinePasses(w) PROVE Rest
  BY <1>4, <1>13 DEF DeadlinePasses, TypeOK, HandleTypes, RpcTypes, handle
<1>14. Rest
  BY <1>6, <1>7, <1>8, <1>9, <1>10, <1>11, <1>12, <1>13 DEF WaitSteps
<1>. QED
  BY <1>2, <1>3, <1>14, <1>15 DEF TypeOK, WaitTypes, GracePolls

\* The shared stop keeps the types.
LEMMA TypeStop == TypeOK /\ Stop => TypeOK'
<1>. SUFFICES ASSUME TypeOK, Stop PROVE TypeOK'
  OBVIOUS
<1>1. rpc[Shared] \in Messages /\ pc \in [Actors -> Labels]
      /\ attempts \in 0..3 /\ missed \in 0..2
  BY ActorNames DEF TypeOK, RpcTypes, WaitTypes, StopTypes, MaxAttempts
<1>2. ServerTypes' /\ CallerTypes' /\ recorded' \in [Waits -> BOOLEAN]
  BY DEF Stop, server, TypeOK, ServerTypes, CallerTypes
<1>3. rpc[Shared].kind = "found" => rpc[Shared].status \in Reported /\ rpc[Shared].exit \in BOOLEAN
  BY <1>1, Shapes
<1>4. \A m \in {GetSent, DeleteSent} :
        rpc' = [rpc EXCEPT ![Shared] = m] => RpcTypes'
  BY Shapes DEF TypeOK, RpcTypes
<1>5. {"ok", "get", "delete", "notFound", "fault", "sleep", "unavailable"} \subseteq Labels
  BY DEF Labels
<1>. DEFINE Rest == /\ RpcTypes' /\ HandleTypes' /\ pc' \in [Actors -> Labels]
                    /\ attempts' \in 0..3 /\ missed' \in 0..2
                    /\ window' \in {"closed", "open", "expired"}
<1>6. ASSUME NEW m \in {GetSent, DeleteSent}, RetryHinted(m)
      PROVE  RpcTypes' /\ HandleTypes' /\ pc' \in [Actors -> Labels]
             /\ attempts' \in 0..3 /\ missed' = missed
  <2>1. RpcTypes' /\ HandleTypes' /\ pc' \in [Actors -> Labels] /\ missed' = missed
    BY <1>1, <1>4, <1>5, <1>6, MoveTypes DEF RetryHinted, TypeOK, HandleTypes, handle
  <2>2. (attempts < 3 /\ attempts' = attempts + 1) \/ attempts' = attempts
    BY <1>6 DEF RetryHinted, MaxAttempts
  <2>3. attempts' \in 0..3
    BY <1>1, <2>2
  <2>. QED
    BY <2>1, <2>3
<1>7. window \in {"closed", "open", "expired"}
  BY DEF TypeOK, StopTypes
<1>8. ASSUME LookedUp PROVE Rest
  <2>1. CASE RetryHinted(GetSent)
    BY <1>1, <1>6, <1>7, <1>8, <2>1 DEF LookedUp
  <2>2. CASE rpc[Shared] = NotFound /\ Goto(Shared, "notFound") /\ Take(Shared)
             /\ UNCHANGED <<handle, attempts, missed>>
    BY <1>1, <1>5, <1>7, <1>8, <2>2, MoveTypes DEF LookedUp, handle, TypeOK, HandleTypes
  <2>3. ASSUME rpc[Shared].kind = "found", ~RetryHinted(GetSent), rpc[Shared] # NotFound
        PROVE  Rest
    <3>1. HandleTypes' /\ attempts' = 1 /\ missed' = missed /\ window' = window
      BY <1>3, <1>8, <2>3, MoveTypes DEF LookedUp
    <3>2. RpcTypes' /\ pc' \in [Actors -> Labels]
      BY <1>4, <1>5, <1>8, <2>3, MoveTypes DEF LookedUp
    <3>. QED
      BY <1>1, <1>7, <3>1, <3>2
  <2>4. NotFound.kind # "found"
    BY Shapes
  <2>. QED
    BY <1>8, <2>1, <2>2, <2>3, <2>4 DEF LookedUp
<1>9. ASSUME DeleteAnswered PROVE Rest
  <2>1. CASE RetryHinted(DeleteSent)
    BY <1>1, <1>6, <1>7, <1>9, <2>1 DEF DeleteAnswered
  <2>2. CASE ~RetryHinted(DeleteSent)
    <3>1. attempts' = attempts /\ missed' = missed /\ window' = window
      BY <1>9, <2>2 DEF DeleteAnswered
    <3>2. RpcTypes' /\ pc' \in [Actors -> Labels]
      BY <1>5, <1>9, <2>2, MoveTypes DEF DeleteAnswered
    <3>3. HandleTypes'
      BY <1>9, <2>2, MoveTypes DEF DeleteAnswered, handle, TypeOK, HandleTypes
    <3>. QED
      BY <1>1, <1>7, <3>1, <3>2, <3>3
  <2>. QED
    BY <2>1, <2>2
<1>10. ASSUME StopPolled PROVE Rest
  <2>1. RpcTypes' /\ pc' \in [Actors -> Labels]
    BY <1>1, <1>5, <1>10, MoveTypes
    DEF StopPolled, StopPollFound, StopPollMissing, StopPollFailed
  <2>2. HandleTypes'
    BY <1>3, <1>10, MoveTypes
    DEF StopPolled, StopPollFound, StopPollMissing, StopPollFailed, handle, TypeOK, HandleTypes
  <2>3. attempts' = attempts /\ window' \in {"closed", "open", "expired"}
    BY <1>7, <1>10 DEF StopPolled, StopPollFound, StopPollMissing, StopPollFailed
  <2>4. missed' = 0 \/ missed' = missed \/ (missed < 2 /\ missed' = missed + 1)
    BY <1>10 DEF StopPolled, StopPollFound, StopPollMissing, StopPollFailed
  <2>5. missed' \in 0..2
    BY <1>1, <2>4
  <2>. QED
    BY <1>1, <2>1, <2>2, <2>3, <2>5
<1>11. ASSUME StopPollAgain PROVE Rest
  BY <1>1, <1>5, <1>7, <1>11, MoveTypes DEF StopPollAgain, handle, TypeOK, HandleTypes
<1>12. ASSUME WindowExpires PROVE Rest
  BY <1>1, <1>12 DEF WindowExpires, handle, TypeOK, HandleTypes, RpcTypes
<1>13. Rest
  BY <1>8, <1>9, <1>10, <1>11, <1>12 DEF Stop, StopSteps
<1>14. WaitTypes'
  BY <1>13 DEF Stop, TypeOK, WaitTypes
<1>15. StopTypes'
  BY <1>13 DEF Stop, TypeOK, StopTypes, MaxAttempts
<1>. QED
  BY <1>2, <1>13, <1>14, <1>15 DEF TypeOK

\* Callers of stop() and the owner keep the types.
LEMMA TypeCall == TypeOK /\ Call => TypeOK'
<1>. SUFFICES ASSUME TypeOK, Call PROVE TypeOK'
  OBVIOUS
<1>1. ServerTypes' /\ HandleTypes' /\ recorded' \in [Waits -> BOOLEAN]
  BY DEF Call, server, ghosts, handle, TypeOK, ServerTypes, HandleTypes
<1>2. attempts \in 0..3 /\ allowMissing \in BOOLEAN /\ RpcTypes /\ pc \in [Actors -> Labels]
  BY DEF TypeOK, StopTypes, MaxAttempts, WaitTypes
<1>. DEFINE Outcomes == {"off", "waiting", "stopped", "tolerated", "gave up",
                         "notFound", "fault", "unavailable"}
            Rest == /\ RpcTypes' /\ pc' \in [Actors -> Labels]
                    /\ attempts' \in 0..3 /\ allowMissing' \in BOOLEAN
                    /\ caller' \in [StopCalls -> Outcomes]
<1>3. caller \in [StopCalls -> Outcomes]
  BY DEF TypeOK, CallerTypes
<1>4. ASSUME NEW c, StopCalled(c) PROVE Rest
  <2>1. "lookup" \in Labels
    BY DEF Labels
  <2>2. MissingOk(c) \in BOOLEAN
    BY DEF MissingOk
  <2>3. RpcTypes' /\ pc' \in [Actors -> Labels] /\ allowMissing' \in BOOLEAN
    BY <1>2, <1>4, <2>1, <2>2, MoveTypes DEF StopCalled, RpcTypes
  <2>4. attempts' \in 0..3
    BY <1>2, <1>4 DEF StopCalled
  <2>5. caller' \in [StopCalls -> Outcomes]
    BY <1>3, <1>4 DEF StopCalled
  <2>. QED
    BY <2>3, <2>4, <2>5
<1>5. ASSUME NEW c \in StopCalls, UserStop(c) \/ CallerSettles(c) \/ CallerGivesUp(c)
      PROVE  Rest /\ owner' = owner
  BY <1>2, <1>3, <1>4, <1>5
  DEF UserStop, CallerSettles, CallerGivesUp, StopSettled, StopFailed, RpcTypes
<1>6. ASSUME OwnerSteps \/ CallbackEnds
      PROVE  Rest /\ owner' \in {"callback", "cleaning", "disposing", "rejected", "done"}
  BY <1>2, <1>3, <1>4, <1>6
  DEF OwnerSteps, CallbackEnds, RunResolves, RunFails, RunRejects, Disposed, RpcTypes
<1>7. Rest /\ CallerTypes'
  BY <1>5, <1>6 DEF Call, TypeOK, CallerTypes
<1>8. WaitTypes'
  BY <1>7 DEF Call, TypeOK, WaitTypes
<1>9. StopTypes'
  BY <1>7 DEF Call, TypeOK, StopTypes, MaxAttempts, ghosts
<1>. QED
  BY <1>1, <1>7, <1>8, <1>9 DEF TypeOK

\* The types hold in every reachable state.
THEOREM TypeCorrect == Spec => []TypeOK
<1>1. TypeOK /\ [Next]_vars => TypeOK'
  <2>. SUFFICES ASSUME TypeOK, [Next]_vars PROVE TypeOK'
    OBVIOUS
  <2>1. CASE UNCHANGED vars
    BY <2>1
    DEF vars, server, handle, stopVars, ghosts, TypeOK, ServerTypes, RpcTypes,
        HandleTypes, WaitTypes, StopTypes, CallerTypes
  <2>. QED
    BY <2>1, TypeServer, TypeInspect, TypeWait, TypeStop, TypeCall DEF Next, Quiet
<1>. QED
  BY <1>1, TypeInit, PTL DEF Spec

-----------------------------------------------------------------------------

\* A sandbox that has ended stays ended, and one that is gone stays gone.
LEMMA EndStays ==
    ASSUME TypeOK, [Next]_vars
    PROVE  /\ Ended => Ended'
           /\ status = "gone" => status' = "gone"
<1>1. CASE status' = status
  BY <1>1 DEF Ended
<1>2. CASE Server
  <2>1. CarryOut => status' = status \/ status \in {"creating", "running"}
    BY DEF CarryOut
  <2>2. status' = status \/ status \in Live \/ (Ended /\ status' = "gone")
    BY <1>2, <2>1
    DEF Server, Sandbox, Responds, ServerAnswers, ServerDeletes, RpcFails, server,
        ServerMoves, ServerEnds, ServerHides, ServerStamps, ServerForgets, Live
  <2>. QED
    BY <2>2 DEF Ended, Live, Terminal
<1>. QED
  BY <1>1, <1>2 DEF Next, Inspect, Wait, Stop, Call, Quiet, vars, server

\* The shared stop starts out knowing nothing.
LEMMA StopInit == Init => StopInv
<1>. SUFFICES ASSUME Init PROVE StopInv
  OBVIOUS
<1>1. rpc[Shared] = Idle /\ pc[Shared] = "off"
  BY ActorNames DEF Init
<1>2. applied = FALSE /\ window = "closed"
      /\ \A c \in StopCalls : caller[c] = "off"
  BY DEF Init
<1>. QED
  BY <1>1, <1>2, Shapes DEF StopInv

\* A step that leaves the shared stop alone keeps what is known of it.
LEMMA StopUntouched ==
    ASSUME TypeOK, StopInv, [Next]_vars,
           rpc'[Shared] = rpc[Shared], pc'[Shared] = pc[Shared],
           UNCHANGED <<window, attempts, missed, applied>>,
           \A c \in StopCalls : caller'[c] = "stopped" =>
               caller[c] = "stopped" \/ pc[Shared] = "ok"
    PROVE  StopInv'
  BY EndStays DEF StopInv

\* The server's steps keep it.
LEMMA StopServer == TypeOK /\ StopInv /\ Server => StopInv'
<1>. SUFFICES ASSUME TypeOK, StopInv, Server PROVE StopInv'
  OBVIOUS
<1>0. Next
  BY DEF Next
<1>1. pc' = pc /\ caller' = caller /\ window' = window /\ attempts' = attempts
  BY DEF Server, Sandbox, Responds, stopVars
<1>2. CASE Sandbox
  BY <1>0, <1>1, <1>2, StopUntouched DEF Sandbox, ghosts
<1>3. ASSUME NEW a \in Actors, Responds(a) PROVE StopInv'
  <2>1. missed' = missed
    BY <1>3 DEF Responds, ServerAnswers, ServerDeletes, RpcFails, CarryOut, ghosts
  <2>2. CASE rpc'[Shared] = rpc[Shared] /\ applied' = applied
    BY <1>0, <1>1, <2>1, <2>2, StopUntouched
  <2>3. CASE a # Shared
    <3>1. rpc'[Shared] = rpc[Shared]
      BY <1>3, <2>3, ActorNames DEF Responds, ServerAnswers, RpcFails, TypeOK, RpcTypes
    <3>2. applied' = applied
      BY <1>3, <2>3 DEF Responds, ServerAnswers, RpcFails, ghosts
    <3>. QED
      BY <2>2, <3>1, <3>2
  <2>4. CASE a = Shared
    <3>1. rpc \in [Actors -> Messages] /\ Shared \in Actors
      BY ActorNames DEF TypeOK, RpcTypes
    <3>2. CASE ServerAnswers(Shared)
      <4>1. rpc[Shared] = GetSent /\ rpc'[Shared] = Snapshot /\ applied' = applied
            /\ status' = status
        BY <3>1, <3>2 DEF ServerAnswers, ghosts, server
      <4>2. pc[Shared] \in {"lookup", "get"}
        BY <4>1, Shapes DEF StopInv
      <4>3. Snapshot = NotFound \/ (Snapshot.kind = "found" /\ Snapshot.status = status)
        BY DEF Snapshot, Found
      <4>4. rpc'[Shared] \notin {DeleteSent, Deleted}
        BY <4>1, <4>3, Shapes
      <4>5. rpc'[Shared].kind = "found" => rpc'[Shared].status = status'
        BY <4>1, <4>3, Shapes
      <4>. QED
        BY <1>1, <2>1, <4>1, <4>2, <4>4, <4>5 DEF StopInv, Ended
    <3>3. CASE ServerDeletes
      <4>1. rpc[Shared] = DeleteSent /\ pc[Shared] = "delete" /\ attempts >= 1
            /\ (attempts = 1 => applied = FALSE)
        BY <3>3 DEF ServerDeletes, StopInv, TypeOK, ServerTypes
      <4>2. rpc'[Shared] = DeleteAnswer
        BY <3>1, <3>3 DEF ServerDeletes
      <4>3. status = "gone" => status' = "gone" /\ applied' = applied
        BY <3>3 DEF ServerDeletes, CarryOut, TypeOK, ServerTypes
      <4>4. DeleteAnswer = NotFound => status = "gone"
        BY Shapes DEF DeleteAnswer
      <4>5. DeleteAnswer \in {Deleted, NotFound}
        BY DEF DeleteAnswer
      <4>6. rpc'[Shared].kind # "found" /\ rpc'[Shared] \notin {GetSent, DeleteSent}
        BY <4>2, <4>5, Shapes
      <4>. QED
        BY <1>1, <2>1, <4>1, <4>2, <4>3, <4>4, <4>5, <4>6 DEF StopInv
    <3>4. CASE RpcFails(Shared)
      <4>1. rpc'[Shared] = Fault /\ rpc[Shared] \in {GetSent, DeleteSent}
        BY <3>1, <3>4 DEF RpcFails
      <4>2. Fault.kind # "found" /\ Fault \notin {Idle, GetSent, DeleteSent, NotFound, Deleted}
        BY Shapes
      <4>3. applied' = applied \/ rpc[Shared] = DeleteSent
        BY <3>4 DEF RpcFails, ghosts
      <4>4. pc[Shared] \in {"lookup", "delete", "get"}
        BY <4>1, Shapes DEF StopInv
      <4>5. pc[Shared] = "lookup" => applied' = applied
        BY <4>3 DEF StopInv
      <4>. QED
        BY <1>1, <2>1, <4>1, <4>2, <4>4, <4>5 DEF StopInv
    <3>. QED
      BY <1>3, <2>4, <3>2, <3>3, <3>4 DEF Responds
  <2>. QED
    BY <2>3, <2>4
<1>. QED
  BY <1>2, <1>3 DEF Server

\* inspect() and wait() leave the shared stop alone.
LEMMA StopObservers == TypeOK /\ StopInv /\ (Inspect \/ Wait) => StopInv'
<1>. SUFFICES ASSUME TypeOK, StopInv, Inspect \/ Wait PROVE StopInv'
  OBVIOUS
<1>0. Next
  BY DEF Next
<1>1. UNCHANGED <<window, attempts, missed, applied, caller>>
  BY DEF Inspect, Wait, stopVars, ghosts
<1>2. PICK a \in Actors \ {Shared} :
        /\ rpc' = rpc \/ Take(a) \/ Send(a)
        /\ pc' = pc \/ \E l \in Labels : Goto(a, l)
  <2>1. CASE Inspect
    <3>1. PICK i \in Inspects : InspectCalled(i) \/ InspectAnswered(i)
      BY <2>1 DEF Inspect
    <3>. QED
      BY <3>1, ActorNames DEF InspectCalled, InspectAnswered, Labels
  <2>2. CASE Wait
    <3>1. PICK w \in Waits : WaitCalled(w) \/ WaitSteps(w) \/ WaitAborted(w) \/ DeadlinePasses(w)
      BY <2>2 DEF Wait
    <3>2. \A s, g : s \in Terminal => Verdict(s, g) \in Labels
      BY DEF Verdict, Terminal, Labels
    <3>3. rpc' = rpc \/ Take(w) \/ Send(w)
      BY <3>1
      DEF WaitCalled, WaitSteps, WaitAborted, DeadlinePasses, PollAnswered, PollFailed,
          PollAgain, GraceWakes, GraceAnswered
    <3>4. pc' = pc \/ \E l \in Labels : Goto(w, l)
      <4>1. CASE PollAnswered(w)
        BY <3>2, <4>1 DEF PollAnswered, EndsShort, Labels
      <4>2. CASE PollFailed(w)
        BY <4>2 DEF PollFailed, Labels
      <4>3. CASE GraceAnswered(w)
        BY <4>3 DEF GraceAnswered, GraceEnds, Labels
      <4>4. CASE WaitCalled(w) \/ PollAgain(w) \/ GraceWakes(w) \/ WaitAborted(w)
                 \/ DeadlinePasses(w)
        BY <4>4 DEF WaitCalled, PollAgain, GraceWakes, WaitAborted, DeadlinePasses,
                    GraceEnds, Labels
      <4>. QED
        BY <3>1, <4>1, <4>2, <4>3, <4>4 DEF WaitSteps
    <3>. QED
      BY <3>3, <3>4, ActorNames
  <2>. QED
    BY <2>1, <2>2
<1>3. rpc'[Shared] = rpc[Shared] /\ pc'[Shared] = pc[Shared]
  BY <1>2, ActorNames DEF Take, Send, Goto, TypeOK, RpcTypes, WaitTypes
<1>. QED
  BY <1>0, <1>1, <1>3, StopUntouched

\* The shared stop's own steps.
LEMMA StopMoves == TypeOK /\ StopInv /\ Stop => StopInv'
<1>. SUFFICES ASSUME TypeOK, StopInv, Stop PROVE StopInv'
  OBVIOUS
<1>1. /\ caller' = caller /\ applied' = applied /\ status' = status
      /\ rpc \in [Actors -> Messages] /\ pc \in [Actors -> Labels] /\ Shared \in Actors
      /\ attempts \in 0..3 /\ missed \in 0..2
  BY ActorNames DEF Stop, server, TypeOK, RpcTypes, WaitTypes, StopTypes, MaxAttempts
<1>2. Ended' = Ended
  BY <1>1 DEF Ended
<1>3. \A m : rpc' = [rpc EXCEPT ![Shared] = m] => rpc'[Shared] = m
  BY <1>1
<1>4. /\ Take(Shared) => rpc'[Shared] = Idle
      /\ Send(Shared) => rpc'[Shared] = GetSent
      /\ \A l : Goto(Shared, l) => pc'[Shared] = l
  BY <1>1 DEF Take, Send, Goto
<1>5. \A c \in StopCalls : caller[c] = "stopped" => pc[Shared] = "ok"
  BY DEF StopInv
<1>6. /\ Idle.kind # "found" /\ Idle \notin {GetSent, DeleteSent, Deleted}
      /\ GetSent.kind # "found" /\ GetSent \notin {DeleteSent, Deleted}
      /\ DeleteSent.kind # "found" /\ DeleteSent \notin {NotFound, GetSent}
  BY Shapes
<1>7. ASSUME LookedUp PROVE StopInv'
  <2>1. /\ pc[Shared] = "lookup" /\ applied = FALSE /\ window' = window /\ missed' = missed
        /\ (window # "closed" => missed >= 1)
    BY <1>7 DEF LookedUp, RetryHinted, StopInv, TypeOK, ServerTypes
  <2>2. \A c \in StopCalls : caller'[c] # "stopped"
    BY <1>1, <1>5, <2>1
  <2>3. CASE RetryHinted(GetSent)
    <3>1. (rpc'[Shared] = GetSent /\ pc'[Shared] = "lookup")
          \/ (rpc'[Shared] = Idle /\ pc'[Shared] = "fault")
      BY <1>3, <1>4, <2>1, <2>3 DEF RetryHinted
    <3>. QED
      BY <1>1, <1>6, <2>1, <2>2, <3>1 DEF StopInv
  <2>4. CASE rpc[Shared] = NotFound /\ Goto(Shared, "notFound") /\ Take(Shared)
    BY <1>1, <1>4, <1>6, <2>1, <2>2, <2>4 DEF StopInv
  <2>5. CASE /\ rpc[Shared].kind = "found" /\ attempts' = 1
             /\ \/ rpc[Shared].status \in Terminal /\ Goto(Shared, "ok") /\ Take(Shared)
                \/ Goto(Shared, "get") /\ Send(Shared)
                \/ Goto(Shared, "delete") /\ rpc' = [rpc EXCEPT ![Shared] = DeleteSent]
    <3>1. CASE rpc[Shared].status \in Terminal /\ Goto(Shared, "ok") /\ Take(Shared)
      <4>1. Ended
        BY <2>5, <3>1 DEF StopInv
      <4>. QED
        BY <1>1, <1>2, <1>4, <1>6, <2>1, <2>2, <3>1, <4>1 DEF StopInv
    <3>2. CASE Goto(Shared, "get") /\ Send(Shared)
      BY <1>1, <1>4, <1>6, <2>1, <2>2, <3>2 DEF StopInv
    <3>3. CASE Goto(Shared, "delete") /\ rpc' = [rpc EXCEPT ![Shared] = DeleteSent]
      BY <1>1, <1>3, <1>4, <1>6, <2>1, <2>2, <2>5, <3>3 DEF StopInv
    <3>. QED
      BY <2>5, <3>1, <3>2, <3>3
  <2>. QED
    BY <1>7, <2>3, <2>4, <2>5 DEF LookedUp
<1>8. ASSUME DeleteAnswered PROVE StopInv'
  <2>1. /\ pc[Shared] = "delete" /\ window' = window /\ missed' = missed /\ attempts >= 1
        /\ (window # "closed" => missed >= 1)
    BY <1>8 DEF DeleteAnswered, RetryHinted, StopInv
  <2>2. \A c \in StopCalls : caller'[c] # "stopped"
    BY <1>1, <1>5, <2>1
  <2>3. CASE RetryHinted(DeleteSent)
    <3>1. (rpc'[Shared] = DeleteSent /\ pc'[Shared] = "delete" /\ attempts' = attempts + 1)
          \/ (rpc'[Shared] = Idle /\ pc'[Shared] = "fault")
      BY <1>3, <1>4, <2>1, <2>3 DEF RetryHinted
    <3>2. attempts' = attempts + 1 => attempts' > 1
      BY <1>1, <2>1
    <3>. QED
      BY <1>1, <1>6, <2>1, <2>2, <3>1, <3>2 DEF StopInv
  <2>4. CASE Goto(Shared, "get") /\ Send(Shared)
    BY <1>1, <1>4, <1>6, <2>1, <2>2, <2>4 DEF StopInv
  <2>5. CASE rpc[Shared] = NotFound /\ Goto(Shared, "ok") /\ Take(Shared)
    <3>1. Ended
      BY <2>1, <2>5 DEF StopInv, Ended
    <3>. QED
      BY <1>1, <1>2, <1>4, <1>6, <2>1, <2>2, <2>5, <3>1 DEF StopInv
  <2>6. CASE rpc[Shared] = NotFound /\ attempts = 1 /\ Goto(Shared, "notFound") /\ Take(Shared)
    <3>1. ~applied
      BY <2>1, <2>6 DEF StopInv
    <3>. QED
      BY <1>1, <1>4, <1>6, <2>1, <2>2, <2>6, <3>1 DEF StopInv
  <2>. QED
    BY <1>8, <2>3, <2>4, <2>5, <2>6 DEF DeleteAnswered
<1>9. ASSUME StopPolled PROVE StopInv'
  <2>1. pc[Shared] = "get"
    BY <1>9 DEF StopPolled
  <2>2. \A c \in StopCalls : caller'[c] # "stopped"
    BY <1>1, <1>5, <2>1
  <2>3. CASE StopPollFound
    <3>1. /\ pc'[Shared] \in {"ok", "sleep"} /\ rpc'[Shared] = Idle /\ window' = "closed"
          /\ pc'[Shared] = "ok" => Polled(rpc[Shared].status) \in Terminal
      BY <1>4, <2>3 DEF StopPollFound
    <3>2. pc'[Shared] = "ok" => Ended
      BY <2>3, <3>1 DEF StopPollFound, StopInv, Polled
    <3>. QED
      BY <1>1, <1>2, <1>6, <2>2, <3>1, <3>2 DEF StopInv
  <2>4. CASE StopPollMissing
    <3>1. /\ rpc'[Shared] = Idle /\ missed' = IF missed < 2 THEN missed + 1 ELSE missed
          /\ \/ window = "expired" /\ pc'[Shared] = "unavailable"
             \/ pc'[Shared] = "sleep"
      BY <1>4, <2>4 DEF StopPollMissing
    <3>2. missed' >= 1 /\ (missed >= 1 => missed' >= 2)
      BY <1>1, <3>1
    <3>3. pc'[Shared] = "unavailable" => missed' >= 2
      BY <3>1, <3>2 DEF StopInv
    <3>. QED
      BY <1>1, <1>6, <2>2, <3>1, <3>2, <3>3 DEF StopInv
  <2>5. CASE StopPollFailed
    <3>1. /\ window' = window /\ missed' = missed
          /\ \/ rpc'[Shared] = GetSent /\ pc'[Shared] = "get"
             \/ rpc'[Shared] = Idle /\ pc'[Shared] = "fault"
      BY <1>4, <2>1, <2>5 DEF StopPollFailed
    <3>2. window # "closed" => missed >= 1
      BY DEF StopInv
    <3>. QED
      BY <1>1, <1>6, <2>2, <3>1, <3>2 DEF StopInv
  <2>. QED
    BY <1>9, <2>3, <2>4, <2>5 DEF StopPolled
<1>10. ASSUME StopPollAgain PROVE StopInv'
  <2>1. /\ pc[Shared] = "sleep" /\ pc'[Shared] = "get" /\ rpc'[Shared] = GetSent
        /\ window' = window /\ missed' = missed
    BY <1>4, <1>10 DEF StopPollAgain
  <2>2. \A c \in StopCalls : caller'[c] # "stopped"
    BY <1>1, <1>5, <2>1
  <2>3. window # "closed" => missed >= 1
    BY DEF StopInv
  <2>. QED
    BY <1>1, <1>6, <2>1, <2>2, <2>3 DEF StopInv
<1>11. ASSUME WindowExpires PROVE StopInv'
  <2>1. /\ UNCHANGED <<rpc, pc, attempts, missed>> /\ window = "open" /\ window' = "expired"
        /\ pc[Shared] \in {"get", "sleep"}
    BY <1>11 DEF WindowExpires
  <2>. QED
    BY <1>1, <1>2, <2>1 DEF StopInv
<1>. QED
  BY <1>7, <1>8, <1>9, <1>10, <1>11 DEF Stop, StopSteps

\* A call of stop() joins the shared stop or starts it.
LEMMA StopJoined ==
    ASSUME TypeOK, StopInv, Call, NEW c \in StopCalls, StopCalled(c)
    PROVE  StopInv'
<1>1. /\ rpc \in [Actors -> Messages] /\ pc \in [Actors -> Labels] /\ Shared \in Actors
      /\ caller \in [StopCalls -> {"off", "waiting", "stopped", "tolerated", "gave up",
                                   "notFound", "fault", "unavailable"}]
  BY ActorNames DEF TypeOK, RpcTypes, WaitTypes, CallerTypes
<1>2. UNCHANGED <<window, missed, applied>>
  BY DEF Call, ghosts
<1>3. \A d \in StopCalls : caller'[d] = "stopped" => caller[d] = "stopped"
  BY <1>1 DEF StopCalled
<1>4. CASE pc[Shared] = "off"
  <2>1. pc'[Shared] = "lookup" /\ rpc'[Shared] = GetSent
    BY <1>1, <1>4 DEF StopCalled, Goto, Send
  <2>2. GetSent.kind # "found" /\ GetSent \notin {DeleteSent, Deleted}
    BY Shapes
  <2>3. ~applied /\ (window # "closed" => missed >= 1)
        /\ \A d \in StopCalls : caller[d] # "stopped"
    BY <1>4 DEF StopInv
  <2>. QED
    BY <1>2, <1>3, <2>1, <2>2, <2>3 DEF StopInv
<1>5. CASE pc[Shared] # "off"
  BY <1>2, <1>3, <1>5, StopUntouched DEF StopCalled, Next
<1>. QED
  BY <1>4, <1>5

\* The callers and the owner.
LEMMA StopCallers == TypeOK /\ StopInv /\ Call => StopInv'
<1>. SUFFICES ASSUME TypeOK, StopInv, Call PROVE StopInv'
  OBVIOUS
<1>1. Next /\ UNCHANGED <<window, missed, applied>>
  BY DEF Next, Call, ghosts
<1>2. caller \in [StopCalls -> {"off", "waiting", "stopped", "tolerated", "gave up",
                                "notFound", "fault", "unavailable"}]
  BY DEF TypeOK, CallerTypes
<1>3. ASSUME NEW c \in StopCalls, UserStop(c) PROVE StopInv'
  BY <1>3, StopJoined DEF UserStop
<1>4. ASSUME NEW c \in StopCalls, CallerSettles(c) \/ CallerGivesUp(c) PROVE StopInv'
  <2>1. UNCHANGED <<pc, rpc, attempts>>
    BY <1>4 DEF CallerSettles, CallerGivesUp
  <2>2. \A d \in StopCalls : d # c => caller'[d] = caller[d]
    BY <1>2, <1>4 DEF CallerSettles, CallerGivesUp
  <2>3. caller'[c] = "stopped" => pc[Shared] = "ok"
    BY <1>2, <1>4 DEF CallerSettles, CallerGivesUp, StopSettled, StopFailed
  <2>. QED
    BY <1>1, <2>1, <2>2, <2>3, StopUntouched
<1>5. CASE OwnerSteps \/ CallbackEnds
  <2>1. CASE RunResolves \/ RunRejects \/ Disposed
    BY <1>1, <2>1, StopUntouched DEF RunResolves, RunRejects, Disposed
  <2>2. CASE RunFails \/ CallbackEnds
    BY <2>2, StopJoined, ActorNames DEF RunFails, CallbackEnds
  <2>. QED
    BY <1>5, <2>1, <2>2 DEF OwnerSteps
<1>. QED
  BY <1>3, <1>4, <1>5 DEF Call

\* The shared stop's knowledge is right in every reachable state.
LEMMA StopKnows == Spec => [](TypeOK /\ StopInv)
<1>1. TypeOK /\ StopInv /\ [Next]_vars => StopInv'
  <2>. SUFFICES ASSUME TypeOK, StopInv, [Next]_vars PROVE StopInv'
    OBVIOUS
  <2>1. CASE UNCHANGED vars
    BY <2>1, StopUntouched DEF vars, stopVars, ghosts
  <2>. QED
    BY <2>1, StopServer, StopObservers, StopMoves, StopCallers DEF Next, Quiet
<1>. QED
  BY <1>1, StopInit, TypeCorrect, PTL DEF Spec

\* A stop() that resolves leaves a sandbox that has ended.
THEOREM StoppedSandboxEnded == Spec => []StoppedMeansEnded
<1>1. StopInv => StoppedMeansEnded
  BY DEF StopInv, StoppedMeansEnded
<1>. QED
  BY <1>1, StopKnows, PTL

\* A Delete that was carried out is never reported as a missing sandbox.
THEOREM AppliedStopNeverMissing == Spec => []AppliedStopNotMissing
<1>1. StopInv => AppliedStopNotMissing
  BY DEF StopInv, AppliedStopNotMissing
<1>. QED
  BY <1>1, StopKnows, PTL

\* The stop gives up only after two not-found polls in a row.
THEOREM GapsBridged == Spec => []GapsAreBridged
<1>1. StopInv => GapsAreBridged
  BY DEF StopInv, GapsAreBridged
<1>. QED
  BY <1>1, StopKnows, PTL

\* A sandbox that stop() reports missing was missing, for long enough.
THEOREM MissingReportsReal == Spec => []MissingIsReal
BY AppliedStopNeverMissing, GapsBridged, PTL DEF MissingIsReal

-----------------------------------------------------------------------------

\* A step of wait() reaches the grace period, and its end, only when "completed"
\* satisfies the wait, and ends the wait only with a satisfying status.
LEMMA WaitMoves ==
    ASSUME TypeOK, WaitInv, NEW w \in Waits,
           WaitCalled(w) \/ WaitSteps(w) \/ WaitAborted(w) \/ DeadlinePasses(w)
    PROVE  /\ \A v \in Waits : v # w => pc'[v] = pc[v] /\ goal'[v] = goal[v]
           /\ pc'[w] \in {"grace sleep", "grace get"} => Satisfies("completed", goal'[w])
           /\ pc[w] # "ok" /\ pc'[w] = "ok" => Satisfies(cached', goal[w])
<1>1. /\ pc \in [Actors -> Labels] /\ w \in Actors /\ Waits \subseteq Actors
      /\ goal \in [Waits -> Goals \cup {"running"}]
  BY ActorNames DEF TypeOK, WaitTypes
<1>2. \A l : Goto(w, l) => pc'[w] = l
  BY <1>1 DEF Goto
<1>3. \A l : Goto(w, l) => \A v \in Waits : v # w => pc'[v] = pc[v]
  BY <1>1 DEF Goto
<1>4. pc[w] \in {"grace sleep", "grace get"} => Satisfies("completed", goal[w])
  BY DEF WaitInv
<1>. DEFINE Others == \A v \in Waits : v # w => pc'[v] = pc[v] /\ goal'[v] = goal[v]
            Grace == pc'[w] \in {"grace sleep", "grace get"} => Satisfies("completed", goal'[w])
            Ok == pc[w] # "ok" /\ pc'[w] = "ok" => Satisfies(cached', goal[w])
<1>5. ASSUME goal' = goal,
             \/ pc' = pc
             \/ \E l \in {"get", "sleep", "timeout", "notFound", "fault", "aborted"} : Goto(w, l)
      PROVE  Others /\ Grace /\ Ok
  <2>1. CASE pc' = pc
    BY <1>4, <1>5, <2>1
  <2>2. ASSUME NEW l \in {"get", "sleep", "timeout", "notFound", "fault", "aborted"}, Goto(w, l)
        PROVE  Others /\ Grace /\ Ok
    <3>1. pc'[w] = l
      BY <1>2, <2>2
    <3>2. pc'[w] \notin {"grace sleep", "grace get", "ok"}
      BY <3>1
    <3>3. Others
      BY <1>3, <1>5, <2>2
    <3>. QED
      BY <3>2, <3>3
  <2>. QED
    BY <1>5, <2>1, <2>2
<1>6. ASSUME NEW l, Goto(w, l), goal' = goal, pc[w] \in {"grace sleep", "grace get"},
             l \in {"grace sleep", "grace get"} \/ (l = "ok" /\ cached' = "completed")
      PROVE  Others /\ Grace /\ Ok
  <2>1. Others
    BY <1>3, <1>6
  <2>2. pc'[w] = l /\ Satisfies("completed", goal[w])
    BY <1>2, <1>4, <1>6
  <2>3. Grace
    BY <1>6, <2>2
  <2>4. Ok
    BY <1>6, <2>2
  <2>. QED
    BY <2>1, <2>3, <2>4
<1>7. \A e : GraceEnds(w, e) => Goto(w, "ok") /\ cached' = "completed"
  BY DEF GraceEnds, UpdateMetadata
<1>8. CASE WaitCalled(w)
  <2>1. PICK g \in Goals : goal' = [goal EXCEPT ![w] = g]
    BY <1>8 DEF WaitCalled
  <2>2. Goto(w, "get")
    BY <1>8 DEF WaitCalled
  <2>3. Others
    BY <1>1, <1>3, <2>1, <2>2
  <2>4. pc'[w] = "get"
    BY <1>2, <2>2
  <2>. QED
    BY <2>3, <2>4
<1>9. CASE PollAnswered(w)
  <2>. DEFINE s == Polled(rpc[w].status)
  <2>1. goal' = goal /\ cached' = s
    BY <1>9 DEF PollAnswered, UpdateMetadata
  <2>2. CASE Goto(w, "grace sleep") /\ Satisfies(s, goal[w]) /\ s = "completed"
    <3>1. pc'[w] = "grace sleep"
      BY <1>2, <2>2
    <3>2. Others
      BY <1>3, <2>1, <2>2
    <3>3. Satisfies("completed", goal[w])
      BY <2>2
    <3>4. Satisfies("completed", goal'[w])
      BY <2>1, <3>3
    <3>. QED
      BY <3>1, <3>2, <3>4
  <2>3. CASE Goto(w, "ok") /\ Satisfies(s, goal[w])
    <3>1. pc'[w] = "ok"
      BY <1>2, <2>3
    <3>2. Others
      BY <1>3, <2>1, <2>3
    <3>3. Satisfies(cached', goal[w])
      BY <2>1, <2>3
    <3>. QED
      BY <3>1, <3>2, <3>3
  <2>4. CASE Goto(w, Verdict(s, goal[w])) /\ EndsShort(s, goal[w])
    <3>1. Verdict(s, goal[w]) \notin {"ok", "grace sleep", "grace get"}
      BY <2>4 DEF EndsShort, Verdict, Terminal
    <3>2. pc'[w] \notin {"ok", "grace sleep", "grace get"}
      BY <1>2, <2>4, <3>1
    <3>3. Others
      BY <1>3, <2>1, <2>4
    <3>. QED
      BY <3>2, <3>3
  <2>5. CASE Goto(w, "timeout") \/ Goto(w, "sleep")
    BY <1>5, <2>1, <2>5
  <2>6. \/ Goto(w, "grace sleep") /\ Satisfies(s, goal[w]) /\ s = "completed"
        \/ Goto(w, "ok") /\ Satisfies(s, goal[w])
        \/ Goto(w, Verdict(s, goal[w])) /\ EndsShort(s, goal[w])
        \/ Goto(w, "timeout") \/ Goto(w, "sleep")
    BY <1>9 DEF PollAnswered
  <2>. QED
    BY <2>2, <2>3, <2>4, <2>5, <2>6
<1>10. CASE PollFailed(w) \/ PollAgain(w) \/ DeadlinePasses(w)
  <2>1. goal' = goal
    BY <1>10 DEF PollFailed, PollAgain, DeadlinePasses
  <2>2. pc' = pc \/ Goto(w, "timeout") \/ Goto(w, "notFound") \/ Goto(w, "fault") \/ Goto(w, "get")
    BY <1>10 DEF PollFailed, PollAgain, DeadlinePasses
  <2>. QED
    BY <1>5, <2>1, <2>2
<1>11. CASE GraceWakes(w) \/ GraceAnswered(w)
  <2>1. goal' = goal /\ pc[w] \in {"grace sleep", "grace get"}
    BY <1>11 DEF GraceWakes, GraceAnswered
  <2>2. \/ Goto(w, "grace get") \/ Goto(w, "grace sleep")
        \/ Goto(w, "ok") /\ cached' = "completed"
    BY <1>7, <1>11 DEF GraceWakes, GraceAnswered
  <2>. QED
    BY <1>6, <2>1, <2>2
<1>12. CASE WaitAborted(w)
  <2>1. goal' = goal
    BY <1>12 DEF WaitAborted
  <2>2. \/ Goto(w, "aborted")
        \/ pc[w] = "grace get" /\ Goto(w, "ok") /\ cached' = "completed"
    BY <1>7, <1>12 DEF WaitAborted
  <2>. QED
    BY <1>5, <1>6, <2>1, <2>2
<1>. QED
  BY <1>8, <1>9, <1>10, <1>11, <1>12 DEF WaitSteps

\* No other step touches a wait.
LEMMA WaitsAlone ==
    ASSUME TypeOK, [Next]_vars, ~Wait
    PROVE  \A w \in Waits : pc'[w] = pc[w] /\ goal'[w] = goal[w]
<1>1. /\ pc \in [Actors -> Labels] /\ Waits \subseteq Actors /\ Shared \notin Waits
      /\ Waits \cap Inspects = {}
  BY ActorNames DEF TypeOK, WaitTypes
<1>2. \A a, l : Goto(a, l) => \A w \in Waits : w # a => pc'[w] = pc[w]
  BY <1>1 DEF Goto
<1>3. CASE Inspect
  BY <1>1, <1>2, <1>3 DEF Inspect, InspectCalled, InspectAnswered
<1>4. CASE Stop
  <2>1. pc' = pc \/ \E l : Goto(Shared, l)
    BY <1>4
    DEF Stop, StopSteps, LookedUp, DeleteAnswered, RetryHinted, StopPolled, StopPollFound,
        StopPollMissing, StopPollFailed, StopPollAgain, WindowExpires
  <2>. QED
    BY <1>1, <1>2, <1>4, <2>1 DEF Stop
<1>5. CASE Call
  <2>1. pc' = pc \/ Goto(Shared, "lookup")
    BY <1>5
    DEF Call, UserStop, StopCalled, CallerSettles, CallerGivesUp, OwnerSteps, RunResolves,
        RunFails, RunRejects, Disposed, CallbackEnds
  <2>. QED
    BY <1>1, <1>2, <1>5, <2>1 DEF Call
<1>6. CASE Server \/ Quiet \/ UNCHANGED vars
  BY <1>6 DEF Server, Sandbox, Responds, Quiet, vars
<1>. QED
  BY <1>3, <1>4, <1>5, <1>6 DEF Next

\* A wait ends in "ok" only with a status that satisfies it.
LEMMA WaitsMeet ==
    /\ Init => WaitInv
    /\ TypeOK /\ WaitInv /\ [Next]_vars =>
           WaitInv' /\ \A w \in Waits : Resolves(w) => MeetsTarget(w)
<1>1. Init => WaitInv
  <2>1. ASSUME Init, NEW w \in Waits PROVE pc[w] \notin {"grace sleep", "grace get"}
    BY <2>1, ActorNames DEF Init
  <2>. QED
    BY <2>1 DEF WaitInv
<1>. SUFFICES ASSUME TypeOK, WaitInv, [Next]_vars
              PROVE  WaitInv' /\ \A w \in Waits : Resolves(w) => MeetsTarget(w)
  BY <1>1
<1>2. CASE Wait
  <2>1. PICK w \in Waits : WaitCalled(w) \/ WaitSteps(w) \/ WaitAborted(w) \/ DeadlinePasses(w)
    BY <1>2 DEF Wait
  <2>2. \A v \in Waits : v # w => pc'[v] = pc[v] /\ goal'[v] = goal[v]
    BY <2>1, WaitMoves
  <2>3. pc'[w] \in {"grace sleep", "grace get"} => Satisfies("completed", goal'[w])
    BY <2>1, WaitMoves
  <2>4. pc[w] # "ok" /\ pc'[w] = "ok" => Satisfies(cached', goal[w])
    BY <2>1, WaitMoves
  <2>. QED
    BY <2>2, <2>3, <2>4 DEF WaitInv, Resolves, MeetsTarget
<1>3. CASE ~Wait
  BY <1>3, WaitsAlone DEF WaitInv, Resolves
<1>. QED
  BY <1>2, <1>3

-----------------------------------------------------------------------------
(* The exit code.                                                          *)

\* No wait has asked yet.
LEMMA CodeInit == Init => CodeInv
BY ActorNames DEF Init, CodeInv

\* The server records the code of a completed sandbox only, never takes it back,
\* and puts it into every answer it gives from then on.
LEMMA CodeServer == TypeOK /\ CodeInv /\ Server => CodeInv'
<1>. SUFFICES ASSUME TypeOK, CodeInv, Server PROVE CodeInv'
  OBVIOUS
<1>1. /\ rpc \in [Actors -> Messages] /\ Waits \subseteq Actors /\ Shared \notin Waits
      /\ visible => status # "gone"
      /\ stamped \in BOOLEAN /\ visible \in BOOLEAN
      /\ stamped => status \in {"completed", "gone"}
  BY ActorNames DEF TypeOK, RpcTypes, ServerTypes, CodeInv
<1>2. UNCHANGED <<pc, recorded>>
  BY DEF Server, Sandbox, Responds
<1>3. CASE Sandbox
  <2>1. rpc' = rpc
    BY <1>3 DEF Sandbox
  <2>2. (stamped => stamped') /\ (stamped' => status' \in {"completed", "gone"})
    <3>1. CASE ServerMoves \/ ServerEnds \/ ServerHides
      BY <1>1, <3>1 DEF ServerMoves, ServerEnds, ServerHides
    <3>2. CASE ServerStamps \/ ServerForgets
      BY <1>1, <3>2 DEF ServerStamps, ServerForgets
    <3>. QED
      BY <1>3, <3>1, <3>2 DEF Sandbox
  <2>. QED
    BY <1>2, <2>1, <2>2 DEF CodeInv
<1>4. ASSUME NEW a \in Actors, Responds(a) PROVE CodeInv'
  <2>1. stamped' = stamped /\ (stamped' => status' \in {"completed", "gone"})
    <3>1. UNCHANGED <<status, stamped>> \/ CarryOut
      BY <1>4 DEF Responds, ServerAnswers, RpcFails, ServerDeletes, server
    <3>2. CASE CarryOut
      BY <1>1, <3>2 DEF CarryOut
    <3>. QED
      BY <1>1, <3>1, <3>2
  <2>2. \A b \in Actors \ {a} : rpc'[b] = rpc[b]
    BY <1>1, <1>4, ActorNames DEF Responds, ServerAnswers, RpcFails, ServerDeletes
  <2>3. ASSUME a \in Waits, recorded[a], rpc'[a].kind = "found"
        PROVE  rpc'[a].status = "completed" /\ rpc'[a].exit
    <3>1. rpc'[a] = Snapshot \/ rpc'[a] = Fault
      BY <1>1, <1>4, <2>3 DEF Responds, ServerAnswers, RpcFails
    <3>2. Fault.kind # "found" /\ NotFound.kind # "found"
      BY Shapes
    <3>3. visible /\ rpc'[a] = Found(status, stamped)
      BY <2>3, <3>1, <3>2 DEF Snapshot
    <3>4. stamped /\ status = "completed"
      BY <1>1, <2>3, <3>3 DEF CodeInv
    <3>. QED
      BY <3>3, <3>4 DEF Found
  <2>. QED
    BY <1>1, <1>2, <2>1, <2>2, <2>3 DEF CodeInv
<1>. QED
  BY <1>3, <1>4 DEF Server

\* The wait itself: it notes what was recorded whenever it asks, and resolves
\* with the code if an answer brought it.
LEMMA CodeWait ==
    ASSUME TypeOK, CodeInv, Wait
    PROVE  CodeInv' /\ \A v \in Waits : Resolves(v) => ShowsCode(v)
<1>1. PICK w \in Waits :
        \/ (WaitCalled(w) \/ WaitSteps(w)) /\ Records(w)
        \/ WaitAborted(w) /\ recorded' = [recorded EXCEPT ![w] = FALSE]
        \/ DeadlinePasses(w) /\ UNCHANGED recorded
  BY DEF Wait
<1>2. /\ rpc \in [Actors -> Messages] /\ pc \in [Actors -> Labels]
      /\ recorded \in [Waits -> BOOLEAN] /\ Waits \subseteq Actors
  BY ActorNames DEF TypeOK, RpcTypes, WaitTypes
<1>3. UNCHANGED <<stamped, status>>
  BY DEF Wait, server
<1>4. GetSent.kind # "found" /\ Idle.kind # "found" /\ Idle # GetSent
  BY Shapes
<1>5. ASSUME DeadlinePasses(w), UNCHANGED recorded
      PROVE  CodeInv' /\ \A v \in Waits : Resolves(v) => ShowsCode(v)
  BY <1>3, <1>5 DEF DeadlinePasses, CodeInv, Resolves
<1>6. ASSUME WaitCalled(w) \/ WaitSteps(w) \/ WaitAborted(w)
      PROVE  /\ \A v \in Waits : v # w => rpc'[v] = rpc[v] /\ pc'[v] = pc[v]
             /\ rpc'[w] \in {GetSent, Idle} \/ rpc'[w] = rpc[w]
  BY <1>2, <1>6
  DEF WaitCalled, WaitSteps, WaitAborted, PollAnswered, PollFailed, PollAgain, GraceWakes,
      GraceAnswered, GraceEnds, Send, Take, Goto
<1>7. ASSUME WaitSteps(w), pc'[w] = "grace sleep"
      PROVE  rpc'[w] = Idle /\ ~recorded[w]
  <2>1. \A l : Goto(w, l) => pc'[w] = l
    BY <1>2 DEF Goto
  <2>2. PollAnswered(w) \/ GraceAnswered(w)
    BY <1>7, <2>1 DEF WaitSteps, PollFailed, PollAgain, GraceWakes, GraceEnds
  <2>3. CASE PollAnswered(w)
    <3>1. /\ rpc[w].kind = "found" /\ Take(w)
          /\ Polled(rpc[w].status) = "completed" /\ ~rpc[w].exit
      BY <1>7, <2>1, <2>3 DEF PollAnswered, EndsShort, Verdict, Terminal
    <3>. QED
      BY <1>2, <3>1 DEF CodeInv, Take
  <2>4. CASE GraceAnswered(w)
    <3>1. /\ rpc[w].kind = "found" /\ Take(w)
          /\ ~(Polled(rpc[w].status) = "completed" /\ rpc[w].exit)
      BY <1>7, <2>1, <2>4 DEF GraceAnswered, GraceEnds
    <3>2. Polled("completed") = "completed"
      BY DEF Polled
    <3>. QED
      BY <1>2, <3>1, <3>2 DEF CodeInv, Take
  <2>. QED
    BY <2>2, <2>3, <2>4
<1>8. ASSUME WaitSteps(w), Records(w), Resolves(w) PROVE ShowsCode(w)
  <2>. SUFFICES ASSUME recorded'[w], rpc[w].kind = "found" PROVE exitCode'
    BY DEF ShowsCode
  <2>0. recorded[w]
    <3>1. rpc'[w] # GetSent
      <4>1. \A l : Goto(w, l) => pc'[w] = l
        BY <1>2 DEF Goto
      <4>2. ~PollFailed(w) /\ ~PollAgain(w)
        BY <1>8, <4>1 DEF Resolves, PollFailed, PollAgain, NotFound, Fault
      <4>3. PollAnswered(w) \/ GraceAnswered(w) => Take(w)
        BY DEF PollAnswered, GraceAnswered
      <4>4. GraceWakes(w) => UNCHANGED rpc
        BY <1>8, <4>1 DEF Resolves, GraceWakes
      <4>. QED
        BY <1>2, <1>4, <1>8, <4>2, <4>3, <4>4 DEF WaitSteps, Take
    <3>. QED
      BY <1>2, <3>1, <1>8 DEF Records
  <2>1. \A l : Goto(w, l) => pc'[w] = l
    BY <1>2 DEF Goto
  <2>2. /\ rpc[w].exit /\ rpc[w].status = "completed" /\ pc[w] # "grace sleep"
        /\ Polled(rpc[w].status) = "completed"
    BY <2>0 DEF CodeInv, Polled
  <2>3. PollAnswered(w) \/ GraceAnswered(w)
    BY <1>8, <2>1, <2>2
    DEF Resolves, WaitSteps, PollFailed, PollAgain, GraceWakes, NotFound, Fault
  <2>4. CASE PollAnswered(w)
    BY <2>2, <2>4 DEF PollAnswered, UpdateMetadata
  <2>5. CASE GraceAnswered(w)
    BY <2>2, <2>5 DEF GraceAnswered, GraceEnds, UpdateMetadata
  <2>. QED
    BY <2>3, <2>4, <2>5
<1>9. ASSUME \/ (WaitCalled(w) \/ WaitSteps(w)) /\ Records(w)
             \/ WaitAborted(w) /\ recorded' = [recorded EXCEPT ![w] = FALSE]
      PROVE  CodeInv' /\ \A v \in Waits : Resolves(v) => ShowsCode(v)
  <2>1. \A v \in Waits : v # w => recorded'[v] = recorded[v]
    BY <1>2, <1>9 DEF Records
  <2>2. recorded'[w] => IF rpc'[w] = GetSent THEN stamped ELSE recorded[w]
    BY <1>2, <1>9 DEF Records
  <2>3. recorded'[w] => stamped
    BY <2>2 DEF CodeInv
  <2>4. recorded'[w] /\ rpc'[w].kind = "found" =>
            rpc'[w].status = "completed" /\ rpc'[w].exit
    BY <1>4, <1>6, <1>9, <2>2 DEF CodeInv
  <2>5. recorded'[w] => pc'[w] # "grace sleep"
    <3>1. CASE WaitSteps(w)
      BY <1>4, <1>7, <2>2, <3>1
    <3>2. CASE WaitCalled(w) \/ WaitAborted(w)
      BY <1>2, <3>2 DEF WaitCalled, WaitAborted, GraceEnds, Goto
    <3>. QED
      BY <1>9, <3>1, <3>2
  <2>6. CodeInv'
    <3>1. ASSUME NEW v \in Waits, recorded'[v]
          PROVE  /\ stamped'
                 /\ rpc'[v].kind = "found" => rpc'[v].status = "completed" /\ rpc'[v].exit
                 /\ pc'[v] # "grace sleep"
      <4>1. CASE v = w
        BY <1>3, <2>3, <2>4, <2>5, <3>1, <4>1
      <4>2. CASE v # w
        <5>1. recorded[v] /\ rpc'[v] = rpc[v] /\ pc'[v] = pc[v]
          BY <1>6, <1>9, <2>1, <3>1, <4>2
        <5>. QED
          BY <1>3, <5>1 DEF CodeInv
      <4>. QED
        BY <4>1, <4>2
    <3>. QED
      BY <1>3, <3>1 DEF CodeInv
  <2>7. Resolves(w) => ShowsCode(w)
    <3>1. WaitCalled(w) => ~Resolves(w)
      BY <1>2 DEF WaitCalled, Goto, Resolves
    <3>2. WaitAborted(w) /\ recorded' = [recorded EXCEPT ![w] = FALSE] => ~recorded'[w]
      BY <1>2
    <3>. QED
      BY <1>8, <1>9, <3>1, <3>2 DEF ShowsCode
  <2>8. \A v \in Waits : v # w => ~Resolves(v)
    BY <1>6, <1>9 DEF Resolves
  <2>. QED
    BY <2>6, <2>7, <2>8
<1>. QED
  BY <1>1, <1>5, <1>9

\* No other step of the client touches a wait or its answers.
LEMMA CodeAlone ==
    ASSUME TypeOK, CodeInv, [Next]_vars, ~Wait
    PROVE  CodeInv' /\ \A w \in Waits : ~Resolves(w)
<1>1. /\ rpc \in [Actors -> Messages] /\ Waits \subseteq Actors /\ Shared \notin Waits
      /\ Waits \cap Inspects = {} /\ Inspects \subseteq Actors /\ Shared \in Actors
  BY ActorNames DEF TypeOK, RpcTypes
<1>2. \A w \in Waits : pc'[w] = pc[w] /\ ~Resolves(w)
  BY WaitsAlone DEF Resolves
<1>3. CASE Server
  BY <1>2, <1>3, CodeServer
<1>4. CASE Inspect \/ Stop \/ Call \/ Quiet \/ UNCHANGED vars
  <2>1. UNCHANGED <<status, stamped, recorded>>
    BY <1>4 DEF Inspect, Stop, Call, Quiet, vars, server
  <2>2. \A a, m : rpc' = [rpc EXCEPT ![a] = m] => \A w \in Waits : w # a => rpc'[w] = rpc[w]
    BY <1>1
  <2>3. \A w \in Waits : rpc'[w] = rpc[w]
    <3>1. CASE Inspect
      BY <1>1, <2>2, <3>1 DEF Inspect, InspectCalled, InspectAnswered, Send, Take
    <3>2. CASE Stop
      <4>1. rpc' = rpc \/ \E m : rpc' = [rpc EXCEPT ![Shared] = m]
        BY <3>2
        DEF Stop, StopSteps, LookedUp, DeleteAnswered, RetryHinted, StopPolled, StopPollFound,
            StopPollMissing, StopPollFailed, StopPollAgain, WindowExpires, Send, Take
      <4>. QED
        BY <1>1, <2>2, <4>1
    <3>3. CASE Call
      <4>1. rpc' = rpc \/ Send(Shared)
        BY <3>3
        DEF Call, UserStop, StopCalled, CallerSettles, CallerGivesUp, OwnerSteps, RunResolves,
            RunFails, RunRejects, Disposed, CallbackEnds
      <4>. QED
        BY <1>1, <2>2, <4>1 DEF Send
    <3>4. CASE Quiet \/ UNCHANGED vars
      BY <3>4 DEF Quiet, vars
    <3>. QED
      BY <1>4, <3>1, <3>2, <3>3, <3>4
  <2>. QED
    BY <1>2, <2>1, <2>3 DEF CodeInv
<1>. QED
  BY <1>2, <1>3, <1>4 DEF Next

\* The handle satisfies a wait when it resolves, and shows the exit code if the
\* server had recorded it when the wait last asked.
THEOREM WaitMeetsTarget == Spec => ResolvedWaitMeetsTarget
<1>. DEFINE Right == \A w \in Waits : Resolves(w) => MeetsTarget(w) /\ ShowsCode(w)
<1>1. Init => WaitInv /\ CodeInv
  BY WaitsMeet, CodeInit
<1>2. TypeOK /\ WaitInv /\ CodeInv /\ [Next]_vars => WaitInv' /\ CodeInv' /\ Right
  <2>. SUFFICES ASSUME TypeOK, WaitInv, CodeInv, [Next]_vars PROVE WaitInv' /\ CodeInv' /\ Right
    OBVIOUS
  <2>1. WaitInv' /\ \A w \in Waits : Resolves(w) => MeetsTarget(w)
    BY WaitsMeet
  <2>2. CodeInv' /\ \A w \in Waits : Resolves(w) => ShowsCode(w)
    <3>1. CASE Wait
      BY <3>1, CodeWait
    <3>2. CASE ~Wait
      BY <3>2, CodeAlone
    <3>. QED
      BY <3>1, <3>2
  <2>. QED
    BY <2>1, <2>2
<1>3. TypeOK /\ WaitInv /\ CodeInv /\ [Next]_vars => [Right]_vars
  BY <1>2
<1>4. TypeOK /\ WaitInv /\ CodeInv /\ [Next]_vars => WaitInv' /\ CodeInv'
  BY <1>2
<1>. QED
  BY <1>1, <1>3, <1>4, TypeCorrect, PTL DEF Spec, ResolvedWaitMeetsTarget
=============================================================================
