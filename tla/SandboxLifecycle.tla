--------------------------- MODULE SandboxLifecycle ---------------------------
(***************************************************************************)
(* The lifecycle of one sandbox seen through one SDK handle: run() waits   *)
(* for the sandbox and cleans up when the wait fails, withSandbox() always *)
(* stops it after the callback, and the handle's users call wait(),        *)
(* inspect() and stop() on it concurrently.                                *)
(*                                                                         *)
(* The server answers a Get from its state at one moment and the handle    *)
(* processes the answer at a later one, so answers of different callers    *)
(* reach the handle in any order.  All calls to stop() share one promise;  *)
(* its owner looks the sandbox up, deletes it, and polls.  The clock is    *)
(* abstracted to the facts the code asks of it: that a wait's deadline has *)
(* passed (late) and that the not-found window has (window = "expired").   *)
(***************************************************************************)
EXTENDS Naturals, FiniteSets

CONSTANTS
    UserWaits,   \* calls of wait() by the handle's users
    UserStops,   \* calls of stop() by the handle's users
    Tolerant,    \* the user stops that pass missingOk
    Inspects,    \* calls of inspect() (getStatus, updateNetwork)
    Goals,       \* the target statuses users wait for
    Ends,        \* the statuses a deleted sandbox ends in
    MaxFaults    \* bound: RPCs that fail

RunWait == "run wait"       \* the wait run() owns
Shared == "shared stop"     \* the stop every stop() call shares
Cleanup == "cleanup"        \* stop() after a failed readiness wait
Dispose == "dispose"        \* stop() after the callback of withSandbox()

Waits == UserWaits \cup {RunWait}
StopCalls == UserStops \cup {Cleanup, Dispose}
Actors == Waits \cup Inspects \cup {Shared}

ASSUME LifecycleAssumption ==
    /\ IsFiniteSet(Waits) /\ IsFiniteSet(Inspects)
    /\ {RunWait, Shared} \cap (UserWaits \cup Inspects) = {}
    /\ UserWaits \cap Inspects = {} /\ RunWait # Shared
    /\ {Cleanup, Dispose} \cap UserStops = {}
    /\ Tolerant \subseteq UserStops
    /\ Goals \subseteq {"running", "terminal", "completed"}
    /\ Ends \subseteq {"completed", "failed", "terminated", "unspecified"} /\ Ends # {}
    /\ MaxFaults \in Nat

VARIABLES
    \* the server
    status,      \* the sandbox's status, or "gone"
    visible,     \* whether Get finds the record of a terminating sandbox
    stamped,     \* whether the exit code of a completed sandbox is recorded
    \* the RPC of each actor
    rpc,
    faults,
    \* the handle
    cached,      \* its status
    exitCode,    \* whether it knows the exit code
    \* wait() and the shared stop
    pc,
    goal,
    late,        \* the wait's deadline has passed
    polls,       \* exit-code grace polls started
    window,      \* the not-found window: "closed", "open", "expired"
    attempts,    \* calls of the hinted retry in progress
    allowMissing,
    \* stop() callers and the owner of the sandbox
    caller,
    owner,
    \* history
    applied,     \* a Delete of this handle was carried out
    missed,      \* consecutive not-found polls of the shared stop
    absent,      \* a Delete of this handle found the sandbox already gone
    recorded     \* whether the wait last asked when the exit code was stamped, and
                 \* was not aborted then

server == <<status, visible, stamped>>
handle == <<cached, exitCode>>
stopVars == <<window, attempts, allowMissing>>
ghosts == <<applied, missed, absent>>
vars == <<server, rpc, faults, handle, pc, goal, late, polls, stopVars,
          caller, owner, ghosts, recorded>>

Terminal == {"completed", "failed", "terminated"}
Ended == status \in Terminal \cup {"unspecified", "gone"}
MaxAttempts == 3
GracePolls == 2

Idle == [kind |-> "none"]
GetSent == [kind |-> "get"]
DeleteSent == [kind |-> "delete"]
Found(s, e) == [kind |-> "found", status |-> s, exit |-> e]
NotFound == [kind |-> "notFound"]
Deleted == [kind |-> "deleted"]
Fault == [kind |-> "fault"]

-----------------------------------------------------------------------------
(* The server.                                                             *)

\* The sandbox starts, ends by itself, and is deleted by another client.
ServerMoves ==
    /\ \/ status = "creating" /\ status' \in {"running", "failed", "completed"}
       \/ status = "running" /\ status' \in {"completed", "failed", "terminating"}
    /\ UNCHANGED <<visible, stamped>>

\* A sandbox that is shutting down reaches a terminal status, or one the server
\* leaves unspecified.  Assumed: a sandbox that still runs is never reported as
\* unspecified, which wait() would take for completed.
ServerEnds ==
    /\ status = "terminating"
    /\ status' \in Ends
    /\ visible' = TRUE
    /\ UNCHANGED stamped

\* The record of a terminating sandbox is not found at times.
ServerHides ==
    /\ status = "terminating"
    /\ visible' = ~visible
    /\ UNCHANGED <<status, stamped>>

ServerStamps ==
    /\ status = "completed" /\ ~stamped
    /\ stamped' = TRUE
    /\ UNCHANGED <<status, visible>>

ServerForgets ==
    /\ Ended /\ status # "gone"
    /\ status' = "gone" /\ visible' = FALSE
    /\ UNCHANGED stamped

Snapshot == IF visible THEN Found(status, stamped) ELSE NotFound

ServerAnswers(a) ==
    /\ rpc[a] = GetSent
    /\ rpc' = [rpc EXCEPT ![a] = Snapshot]
    /\ UNCHANGED <<server, faults, ghosts>>

\* deleteSandbox: starts the shutdown of a live sandbox, succeeds on one that is
\* on its way out; on a missing one it fails, unless the first call allows it.
DeleteAnswer ==
    IF status # "gone" \/ (allowMissing /\ attempts = 1) THEN Deleted ELSE NotFound

CarryOut ==
    /\ status' = IF status \in {"creating", "running"} THEN "terminating" ELSE status
    /\ applied' = (applied \/ status # "gone")
    /\ absent' = (absent \/ (status = "gone" /\ ~applied))
    /\ UNCHANGED <<visible, stamped, missed>>

ServerDeletes ==
    /\ rpc[Shared] = DeleteSent
    /\ CarryOut
    /\ rpc' = [rpc EXCEPT ![Shared] = DeleteAnswer]
    /\ UNCHANGED faults

\* A call fails in transit: a Delete may or may not have been carried out.
RpcFails(a) ==
    /\ rpc[a] \in {GetSent, DeleteSent} /\ faults < MaxFaults
    /\ rpc' = [rpc EXCEPT ![a] = Fault]
    /\ faults' = faults + 1
    /\ \/ UNCHANGED <<server, ghosts>>
       \/ a = Shared /\ rpc[a] = DeleteSent /\ CarryOut

Responds(a) ==
    /\ \/ ServerAnswers(a)
       \/ RpcFails(a)
       \/ a = Shared /\ ServerDeletes
    /\ UNCHANGED <<handle, pc, goal, late, polls, stopVars, caller, owner, recorded>>

Sandbox ==
    /\ ServerMoves \/ ServerEnds \/ ServerHides \/ ServerStamps \/ ServerForgets
    /\ UNCHANGED <<rpc, faults, ghosts>>
    /\ UNCHANGED <<handle, pc, goal, late, polls, stopVars, caller, owner, recorded>>

Server == Sandbox \/ \E a \in Actors : Responds(a)

-----------------------------------------------------------------------------
(* The handle.                                                             *)

\* updateMetadata: the latest answer replaces the status; an exit code that an
\* answer leaves out is kept.
UpdateMetadata(s, e) ==
    /\ cached' = s
    /\ exitCode' = (exitCode \/ e)

\* waitForSandbox reads an unspecified status as completed, whatever it hides.
Polled(s) == IF s = "unspecified" THEN "completed" ELSE s

Send(a) == rpc' = [rpc EXCEPT ![a] = GetSent]
Take(a) == rpc' = [rpc EXCEPT ![a] = Idle]
Goto(a, l) == pc' = [pc EXCEPT ![a] = l]

\* The handle is the caller's once run() has resolved.
Handed == owner \in {"callback", "disposing", "done"}

InspectCalled(i) ==
    /\ pc[i] = "off" /\ Handed
    /\ Goto(i, "get") /\ Send(i)
    /\ UNCHANGED handle

InspectAnswered(i) ==
    /\ pc[i] = "get" /\ rpc[i].kind \in {"found", "notFound", "fault"}
    /\ IF rpc[i].kind = "found"
       THEN UpdateMetadata(rpc[i].status, rpc[i].exit) /\ Goto(i, "ok")
       ELSE UNCHANGED handle /\ Goto(i, "rejected")
    /\ Take(i)

Inspect ==
    /\ \E i \in Inspects : InspectCalled(i) \/ InspectAnswered(i)
    /\ UNCHANGED <<server, faults, goal, late, polls, stopVars, caller, owner, ghosts,
                   recorded>>

-----------------------------------------------------------------------------
(* wait(): waitForSandbox with a deadline.                                 *)

Waiting(w) == pc[w] \in {"get", "sleep", "grace sleep", "grace get"}

Reached(s, g) ==
    CASE g = "terminal" -> s \in Terminal
      [] g = "running"  -> s \in {"running", "paused"}
      [] OTHER          -> s = g

\* A wait for "running" is content with a sandbox that already completed.
Satisfies(s, g) == Reached(s, g) \/ (g = "running" /\ s = "completed")

\* The outcome of a status that ends the wait without satisfying it.
EndsShort(s, g) == s \in Terminal /\ ~Satisfies(s, g)
Verdict(s, g) == IF g = "running" THEN s ELSE "short"

WaitCalled(w) ==
    /\ w \in UserWaits /\ pc[w] = "off" /\ Handed
    /\ \E g \in Goals : goal' = [goal EXCEPT ![w] = g]
    /\ Goto(w, "get") /\ Send(w)
    /\ UNCHANGED <<handle, polls>>

\* A found sandbox: a completed one without exit code is asked again for a
\* while, other satisfying statuses end the wait, failed and terminated ones
\* raise, and a status on the way is polled again until the deadline.
PollAnswered(w) ==
    /\ pc[w] = "get" /\ rpc[w].kind = "found"
    /\ LET s == Polled(rpc[w].status)
           grace == s = "completed" /\ ~rpc[w].exit /\ ~late[w]
       IN  /\ UpdateMetadata(s, rpc[w].exit)
           /\ \/ Satisfies(s, goal[w]) /\ grace /\ Goto(w, "grace sleep")
              \/ Satisfies(s, goal[w]) /\ ~grace /\ Goto(w, "ok")
              \/ EndsShort(s, goal[w]) /\ Goto(w, Verdict(s, goal[w]))
              \/ /\ ~Satisfies(s, goal[w]) /\ ~EndsShort(s, goal[w])
                 /\ Goto(w, IF late[w] THEN "timeout" ELSE "sleep")
           /\ polls' = [polls EXCEPT ![w] = IF pc'[w] = "grace sleep" THEN 1 ELSE @]
    /\ Take(w)
    /\ UNCHANGED goal

\* A missing sandbox ends the wait at once, a transient failure is retried
\* while the retry budget lasts; the deadline wins over either error.
PollFailed(w) ==
    /\ pc[w] = "get" /\ rpc[w].kind \in {"notFound", "fault"}
    /\ \/ /\ rpc[w] = Fault /\ ~late[w]
          /\ Send(w) /\ UNCHANGED pc
       \/ /\ Goto(w, IF late[w] THEN "timeout" ELSE rpc[w].kind)
          /\ Take(w)
    /\ UNCHANGED <<handle, goal, polls>>

PollAgain(w) ==
    /\ pc[w] = "sleep"
    /\ IF late[w] THEN Goto(w, "timeout") /\ UNCHANGED rpc
                  ELSE Goto(w, "get") /\ Send(w)
    /\ UNCHANGED <<handle, goal, polls>>

\* Mutant: the held answer is not applied again.
GraceEndsQuietly(w, e) ==
    /\ exitCode' = (exitCode \/ e) /\ UNCHANGED cached
    /\ polls' = [polls EXCEPT ![w] = 0]
    /\ Goto(w, "ok")

\* Mutant: the answer applied again is the one from before the grace period.
GraceEndsHeld(w, e) ==
    /\ UpdateMetadata("completed", FALSE)
    /\ polls' = [polls EXCEPT ![w] = 0]
    /\ Goto(w, "ok")

\* graceRepollForExitCode: the completed answer held through the sleeps is
\* applied once more when the grace period ends.
GraceEnds(w, e) ==
    /\ UpdateMetadata("completed", e)
    /\ polls' = [polls EXCEPT ![w] = 0]
    /\ Goto(w, "ok")

GraceWakes(w) ==
    /\ pc[w] = "grace sleep"
    /\ IF late[w] THEN GraceEnds(w, FALSE) /\ UNCHANGED rpc
                  ELSE Goto(w, "grace get") /\ Send(w) /\ UNCHANGED <<handle, polls>>
    /\ UNCHANGED goal

\* Only a completed answer counts; a failed one ends the grace period.
GraceAnswered(w) ==
    /\ pc[w] = "grace get" /\ rpc[w].kind \in {"found", "notFound", "fault"}
    /\ LET bonus == rpc[w].kind = "found" /\ Polled(rpc[w].status) = "completed"
           exit == bonus /\ rpc[w].exit
       IN  IF rpc[w].kind # "found" \/ exit \/ polls[w] = GracePolls \/ late[w]
           THEN GraceEnds(w, exit)
           ELSE /\ IF bonus THEN UpdateMetadata("completed", FALSE) ELSE UNCHANGED handle
                /\ Goto(w, "grace sleep")
                /\ polls' = [polls EXCEPT ![w] = @ + 1]
    /\ Take(w)
    /\ UNCHANGED goal

\* The caller's signal: it ends a wait, except that the grace period swallows
\* the failure of its own Get.
WaitAborted(w) ==
    /\ \/ /\ pc[w] \in {"get", "sleep", "grace sleep"} /\ Goto(w, "aborted")
          /\ polls' = [polls EXCEPT ![w] = 0] /\ UNCHANGED handle
       \/ pc[w] = "grace get" /\ GraceEnds(w, FALSE)
    /\ Take(w)
    /\ UNCHANGED goal

DeadlinePasses(w) ==
    /\ Waiting(w) /\ ~late[w]
    /\ late' = [late EXCEPT ![w] = TRUE]
    /\ UNCHANGED <<rpc, handle, pc, goal, polls>>

WaitSteps(w) ==
    \/ PollAnswered(w) \/ PollFailed(w) \/ PollAgain(w)
    \/ GraceWakes(w) \/ GraceAnswered(w)

Records(w) ==
    recorded' = [recorded EXCEPT ![w] = IF rpc'[w] = GetSent THEN stamped ELSE @]

Wait ==
    /\ \E w \in Waits :
        \/ /\ \/ (WaitCalled(w) \/ WaitSteps(w)) /\ Records(w)
              \/ WaitAborted(w) /\ recorded' = [recorded EXCEPT ![w] = FALSE]
           /\ late' = [late EXCEPT ![w] = @ /\ Waiting(w)']
        \/ DeadlinePasses(w) /\ UNCHANGED recorded
    /\ UNCHANGED <<server, faults, stopVars, caller, owner, ghosts>>

-----------------------------------------------------------------------------
(* The shared stop: runSharedStop.                                         *)

\* A hinted failure is retried, at most MaxAttempts calls; any other, and the
\* last, fails the stop.
RetryHinted(request) ==
    /\ rpc[Shared] = Fault
    /\ \/ /\ attempts < MaxAttempts
          /\ rpc' = [rpc EXCEPT ![Shared] = request]
          /\ attempts' = attempts + 1 /\ UNCHANGED pc
       \/ Goto(Shared, "fault") /\ Take(Shared) /\ UNCHANGED attempts
    /\ UNCHANGED <<handle, missed>>

\* Mutant: a sandbox found terminating counts as stopped.
LookedUpTerminating ==
    /\ pc[Shared] = "lookup" /\ rpc[Shared].kind = "found"
    /\ UpdateMetadata(rpc[Shared].status, rpc[Shared].exit)
    /\ IF rpc[Shared].status \in Terminal \cup {"terminating"}
       THEN Goto(Shared, "ok") /\ Take(Shared)
       ELSE Goto(Shared, "delete") /\ rpc' = [rpc EXCEPT ![Shared] = DeleteSent]
    /\ attempts' = 1 /\ UNCHANGED <<window, missed>>

\* Look the sandbox up: nothing to do for a terminal one, no Delete for one
\* that is terminating already.
LookedUp ==
    /\ pc[Shared] = "lookup"
    /\ \/ /\ rpc[Shared].kind = "found"
          /\ LET s == rpc[Shared].status
             IN  /\ UpdateMetadata(s, rpc[Shared].exit)
                 /\ \/ s \in Terminal /\ Goto(Shared, "ok") /\ Take(Shared)
                    \/ s = "terminating" /\ Goto(Shared, "get") /\ Send(Shared)
                    \/ /\ s \notin Terminal \cup {"terminating"}
                       /\ Goto(Shared, "delete")
                       /\ rpc' = [rpc EXCEPT ![Shared] = DeleteSent]
          /\ attempts' = 1 /\ UNCHANGED missed
       \/ /\ rpc[Shared] = NotFound
          /\ Goto(Shared, "notFound") /\ Take(Shared)
          /\ UNCHANGED <<handle, attempts, missed>>
       \/ RetryHinted(GetSent)
    /\ UNCHANGED window

\* Mutant: a retried Delete that finds nothing reports the sandbox missing.
DeleteAnsweredMissing ==
    /\ pc[Shared] = "delete"
    /\ \/ /\ rpc[Shared] = Deleted
          /\ Goto(Shared, "get") /\ Send(Shared)
          /\ UNCHANGED <<handle, attempts, missed>>
       \/ /\ rpc[Shared] = NotFound
          /\ Goto(Shared, "notFound") /\ Take(Shared)
          /\ UNCHANGED <<handle, attempts, missed>>
       \/ RetryHinted(DeleteSent)
    /\ UNCHANGED window

\* The Delete's answer: a retried one that finds the sandbox gone has done its
\* work.
DeleteAnswered ==
    /\ pc[Shared] = "delete"
    /\ \/ /\ rpc[Shared] = Deleted
          /\ Goto(Shared, "get") /\ Send(Shared)
          /\ UNCHANGED <<handle, attempts, missed>>
       \/ /\ rpc[Shared] = NotFound /\ attempts > 1
          /\ UpdateMetadata("terminated", FALSE)
          /\ Goto(Shared, "ok") /\ Take(Shared)
          /\ UNCHANGED <<attempts, missed>>
       \/ /\ rpc[Shared] = NotFound /\ attempts = 1
          /\ Goto(Shared, "notFound") /\ Take(Shared)
          /\ UNCHANGED <<handle, attempts, missed>>
       \/ RetryHinted(DeleteSent)
    /\ UNCHANGED window

\* Mutant: every not-found poll starts the window anew.
StopPollMissingReopens ==
    /\ rpc[Shared] = NotFound
    /\ Goto(Shared, "sleep") /\ window' = "open"
    /\ Take(Shared)
    /\ missed' = IF missed < 2 THEN missed + 1 ELSE missed
    /\ UNCHANGED handle

\* A poll of the stop's own wait: unbounded, and patient with a sandbox that is
\* not found, for the length of the window.
StopPollFound ==
    /\ rpc[Shared].kind = "found"
    /\ LET s == Polled(rpc[Shared].status)
       IN  /\ UpdateMetadata(s, rpc[Shared].exit)
           /\ Goto(Shared, IF s \in Terminal THEN "ok" ELSE "sleep")
    /\ Take(Shared)
    /\ window' = "closed" /\ missed' = 0

StopPollMissing ==
    /\ rpc[Shared] = NotFound
    /\ IF window = "expired"
       THEN Goto(Shared, "unavailable") /\ UNCHANGED window
       ELSE Goto(Shared, "sleep") /\ window' = "open"
    /\ Take(Shared)
    /\ missed' = IF missed < 2 THEN missed + 1 ELSE missed
    /\ UNCHANGED handle

StopPollFailed ==
    /\ rpc[Shared] = Fault
    /\ \/ Send(Shared) /\ UNCHANGED pc
       \/ Goto(Shared, "fault") /\ Take(Shared)
    /\ UNCHANGED <<handle, window, missed>>

StopPolled ==
    /\ pc[Shared] = "get"
    /\ StopPollFound \/ StopPollMissing \/ StopPollFailed
    /\ UNCHANGED attempts

StopPollAgain ==
    /\ pc[Shared] = "sleep"
    /\ Goto(Shared, "get") /\ Send(Shared)
    /\ UNCHANGED <<handle, window, attempts, missed>>

WindowExpires ==
    /\ window = "open" /\ pc[Shared] \in {"get", "sleep"}
    /\ window' = "expired"
    /\ UNCHANGED <<rpc, handle, pc, attempts, missed>>

StopSteps == LookedUp \/ DeleteAnswered \/ StopPolled \/ StopPollAgain

Stop ==
    /\ StopSteps \/ WindowExpires
    /\ UNCHANGED <<server, faults, goal, late, polls, allowMissing, caller, owner,
                   applied, absent, recorded>>

-----------------------------------------------------------------------------
(* The callers of stop(), run() and withSandbox().                         *)

StopFailed == pc[Shared] \in {"fault", "notFound", "unavailable"}
StopSettled == StopFailed \/ pc[Shared] = "ok"

MissingOk(c) == c = Cleanup \/ c \in Tolerant

\* stop(): the first caller starts the shared stop, the others join it.
StopCalled(c) ==
    /\ caller' = [caller EXCEPT ![c] = "waiting"]
    /\ IF pc[Shared] = "off"
       THEN /\ Goto(Shared, "lookup") /\ Send(Shared)
            /\ attempts' = 1
            /\ allowMissing' = MissingOk(c)
       ELSE UNCHANGED <<pc, rpc, attempts, allowMissing>>

UserStop(c) ==
    /\ c \in UserStops /\ caller[c] = "off" /\ Handed
    /\ StopCalled(c)
    /\ UNCHANGED owner

\* The shared outcome reaches a caller; missingOk turns not found into success.
CallerSettles(c) ==
    /\ caller[c] = "waiting" /\ StopSettled
    /\ caller' = [caller EXCEPT ![c] =
           CASE pc[Shared] = "ok" -> "stopped"
             [] pc[Shared] = "notFound" /\ MissingOk(c) -> "tolerated"
             [] OTHER -> pc[Shared]]
    /\ UNCHANGED <<pc, rpc, attempts, allowMissing, owner>>

\* Mutant: a caller that gives up cancels the shared stop.
CallerCancels(c) ==
    /\ caller[c] = "waiting" /\ c # Dispose
    /\ caller' = [caller EXCEPT ![c] = "gave up"]
    /\ Goto(Shared, "fault") /\ Take(Shared)
    /\ UNCHANGED <<attempts, allowMissing, owner>>

\* The caller's own timeout or signal.  A signal that is aborted already gives
\* up at once; the shutdown it started goes on.
CallerGivesUp(c) ==
    /\ caller[c] = "waiting" /\ c # Dispose
    /\ caller' = [caller EXCEPT ![c] = "gave up"]
    /\ UNCHANGED <<pc, rpc, attempts, allowMissing, owner>>

RunResolves ==
    /\ owner = "starting" /\ pc[RunWait] = "ok"
    /\ owner' = "callback"
    /\ UNCHANGED <<pc, rpc, attempts, allowMissing, caller>>

Failures == {"failed", "terminated", "timeout", "notFound", "fault", "aborted"}

RunFails ==
    /\ owner = "starting" /\ pc[RunWait] \in Failures
    /\ owner' = "cleaning"
    /\ StopCalled(Cleanup)

RunRejects ==
    /\ owner = "cleaning" /\ caller[Cleanup] # "waiting"
    /\ owner' = "rejected"
    /\ UNCHANGED <<pc, rpc, attempts, allowMissing, caller>>

\* disposeAfterCallback: the callback returned or threw.
CallbackEnds ==
    /\ owner = "callback"
    /\ owner' = "disposing"
    /\ StopCalled(Dispose)

Disposed ==
    /\ owner = "disposing" /\ caller[Dispose] # "waiting"
    /\ owner' = "done"
    /\ UNCHANGED <<pc, rpc, attempts, allowMissing, caller>>

OwnerSteps == RunResolves \/ RunFails \/ RunRejects \/ Disposed

Call ==
    /\ \/ \E c \in StopCalls : UserStop(c) \/ CallerSettles(c) \/ CallerGivesUp(c)
       \/ OwnerSteps \/ CallbackEnds
    /\ UNCHANGED <<server, faults, handle, goal, late, polls, window, ghosts, recorded>>

-----------------------------------------------------------------------------
\* run() holds an accepted sandbox and its wait has sent the first Get.
Init ==
    /\ status = "creating" /\ visible = TRUE /\ stamped = FALSE
    /\ rpc = [a \in Actors |-> IF a = RunWait THEN GetSent ELSE Idle]
    /\ faults = 0
    /\ cached = "creating" /\ exitCode = FALSE
    /\ pc = [a \in Actors |-> IF a = RunWait THEN "get" ELSE "off"]
    /\ goal = [w \in Waits |-> "running"]
    /\ late = [w \in Waits |-> FALSE]
    /\ polls = [w \in Waits |-> 0]
    /\ window = "closed" /\ attempts = 0 /\ allowMissing = FALSE
    /\ caller = [c \in StopCalls |-> "off"]
    /\ owner = "starting"
    /\ applied = FALSE /\ missed = 0 /\ absent = FALSE
    /\ recorded = [w \in Waits |-> FALSE]

Quiet ==
    /\ owner \in {"done", "rejected"} /\ StopSettled
    /\ \A w \in Waits : ~Waiting(w)
    /\ UNCHANGED vars

Next == Server \/ Inspect \/ Wait \/ Stop \/ Call \/ Quiet

\* The client's continuations run, the server answers or the call fails, timers
\* fire, and a sandbox that was told to shut down does.  Callbacks, users and the
\* sandbox's own end are not obliged to happen.
Fairness ==
    /\ \A a \in Actors : WF_vars(Responds(a))
    /\ WF_vars(Sandbox /\ status = "terminating" /\ status' # "terminating")
    /\ \A w \in Waits : WF_vars(Wait /\ WaitSteps(w)) /\ WF_vars(Wait /\ DeadlinePasses(w))
    /\ WF_vars(Stop /\ StopSteps) /\ WF_vars(Stop /\ WindowExpires)
    /\ WF_vars(Call /\ OwnerSteps)
    /\ \A c \in StopCalls : WF_vars(Call /\ CallerSettles(c))

Spec == Init /\ [][Next]_vars
FairSpec == Spec /\ Fairness

-----------------------------------------------------------------------------
(* Properties.                                                             *)

Live == {"creating", "running", "terminating"}
Reported == Live \cup Terminal \cup {"unspecified"}
Messages ==
    {Idle, GetSent, DeleteSent, NotFound, Deleted, Fault}
        \cup {Found(s, e) : s \in Reported, e \in BOOLEAN}
Labels ==
    {"off", "get", "sleep", "grace sleep", "grace get", "lookup", "delete", "ok",
     "completed", "failed", "terminated", "short", "timeout", "notFound", "fault",
     "aborted", "rejected", "unavailable"}

ServerTypes ==
    /\ status \in Reported \cup {"gone"}
    /\ visible \in BOOLEAN /\ stamped \in BOOLEAN
    /\ visible => status # "gone"
    /\ applied \in BOOLEAN /\ absent \in BOOLEAN
    /\ faults \in 0..MaxFaults
RpcTypes == rpc \in [Actors -> Messages]
HandleTypes == cached \in Reported /\ exitCode \in BOOLEAN
WaitTypes ==
    /\ pc \in [Actors -> Labels]
    /\ goal \in [Waits -> Goals \cup {"running"}]
    /\ late \in [Waits -> BOOLEAN] /\ polls \in [Waits -> 0..GracePolls]
StopTypes ==
    /\ window \in {"closed", "open", "expired"} /\ missed \in 0..2
    /\ attempts \in 0..MaxAttempts /\ allowMissing \in BOOLEAN
CallerTypes ==
    /\ caller \in [StopCalls -> {"off", "waiting", "stopped", "tolerated", "gave up",
                                 "notFound", "fault", "unavailable"}]
    /\ owner \in {"starting", "callback", "cleaning", "disposing", "rejected", "done"}

\* The state keeps its types, and a record that is gone is not visible.
TypeOK ==
    /\ ServerTypes /\ RpcTypes /\ HandleTypes
    /\ WaitTypes /\ StopTypes /\ CallerTypes
    /\ recorded \in [Waits -> BOOLEAN]

\* A stop() that resolves as stopped leaves a sandbox that has ended, whichever
\* way the shared stop learnt of it: the lookup, the terminal poll, or a retried
\* Delete that found nothing (sandbox.ts runSharedStop).
StoppedMeansEnded == (\E c \in StopCalls : caller[c] = "stopped") => Ended

\* Once a Delete of this handle was carried out, stop() does not report the
\* sandbox missing, even when the answer was lost and the Delete repeated
\* (grpc-transport.ts deleteWithRetry).
AppliedStopNotMissing == pc[Shared] = "notFound" => ~applied

\* A stop gives up on an unobservable sandbox only after two not-found polls in a
\* row: each gap in the sandbox's visibility gets a window of its own (wait.ts).
GapsAreBridged == pc[Shared] = "unavailable" => missed >= 2

\* A stop that reports the sandbox missing or unobservable is right to.
MissingIsReal == AppliedStopNotMissing /\ GapsAreBridged

\* The parts of the next property, for one wait.
Resolves(w) == pc[w] # "ok" /\ pc'[w] = "ok"
MeetsTarget(w) == Satisfies(cached', goal[w])
ShowsCode(w) ==
    recorded'[w] /\ rpc[w].kind = "found" => exitCode'

\* When a wait resolves the handle shows a status that satisfies it, whatever
\* answers of other calls arrived while it waited for the exit code.  And it shows
\* the exit code when the server had recorded it before the wait last asked: not
\* the answer without a code that the wait held through its grace period, unless
\* that Get failed or the caller aborted it (wait.ts).
ResolvedWaitMeetsTarget ==
    [][\A w \in Waits : Resolves(w) => MeetsTarget(w) /\ ShowsCode(w)]_vars

\* Every wait() ends, by its deadline at the latest, and every shutdown that a
\* stop() started ends, also when that caller has given up: although it sets no
\* timeout, the sandbox's record hides or is gone for good, and RPCs fail (wait.ts,
\* sandbox.ts runSharedStop).
CallsEnd ==
    /\ \A w \in Waits : Waiting(w) ~> ~Waiting(w)
    /\ (\E c \in StopCalls : caller[c] = "waiting") ~> StopSettled

\* A sandbox whose run() failed is not left running, unless the server loses it
\* or an RPC of the stop fails: in particular not because the cleanup's own
\* timeout gave up first (client.ts stopAfterFailedReadiness).
StopLost ==
    \/ pc[Shared] \in {"notFound", "unavailable"}
    \/ pc[Shared] = "fault" /\ faults > 0

NoOrphan == owner = "cleaning" ~> (Ended \/ StopLost)

=============================================================================
