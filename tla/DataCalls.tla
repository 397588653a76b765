------------------------------ MODULE DataCalls ------------------------------
(***************************************************************************)
(* One exec() or file operation: which calls it makes, to a runner over a  *)
(* direct lease or to the gateway, which failures it answers with another  *)
(* call, and how much of the caller's time each call gets.  A read or      *)
(* write of a file is a unary call first and, when the server refuses it   *)
(* for its size, a streaming command (GrpcSandboxTransport.exec,           *)
(* file-adapter.ts, retry-hinted-unavailable.ts, file-transfer.ts).        *)
(*                                                                         *)
(* Acquiring a lease is module DirectDataPlane; here it takes its time and *)
(* gives a lease, the gateway, or an error.  Timers fire on time, but a    *)
(* sleep may wake up to MaxLate late.  acquired, returned, discarded, runs *)
(* and got are history.                                                    *)
(***************************************************************************)
EXTENDS Naturals, Sequences

CONSTANTS
    Ops,         \* the operations: exec, read, write, readStream, writeStream
    Timeouts,    \* values of timeoutMs
    None,        \* undefined: no timeoutMs, no deadline, no RetryInfo
    Hints,       \* delays in RetryInfo, jitter included
    MaxDelay,    \* HINTED_RETRY_MAX_DELAY_MS
    MinAttempt,  \* HINTED_RETRY_MIN_ATTEMPT_MS
    GatewayMin,  \* OVERLOAD_GATEWAY_MIN_MS
    MaxAttempts, \* HINTED_RETRY_MAX_ATTEMPTS
    LeaseBudget, \* AUTO_BUDGET_MS, DIRECT_BUDGET_MS
    MaxLate,     \* bound: how late a sleep may wake
    Chunks       \* chunks of the file

Reads == {"read", "readStream"}
AllOps == Reads \cup {"exec", "write", "writeStream"}

ASSUME CallsAssumption ==
    /\ Ops \subseteq AllOps /\ Timeouts \subseteq Nat /\ Hints \subseteq Nat
    /\ None \notin Nat
    /\ MaxDelay \in Nat /\ MinAttempt \in Nat /\ GatewayMin \in Nat \ {0}
    /\ LeaseBudget \in Nat
    /\ MaxAttempts \in Nat \ {0, 1}
    /\ MaxLate \in 0..MinAttempt /\ Chunks \in Nat

VARIABLES
    op, mode, timeout, \* what was asked for: the call, dataPlaneMode, timeoutMs
    layer,     \* "unary", or "stream": a command that carries a file
    pc,        \* acquiring, calling, sleeping (backoff), done
    attempt,   \* the passes of the loop over leases, from 0
    lease,     \* lease !== undefined: calls go to the runner
    tries,     \* calls in this pass
    overflow,  \* the runner's overload sent the call to the gateway
    deadline,  \* the deadline of the operation
    ends,      \* when the timer of the lease wait, or of this pass's calls, fires
    wake,      \* when the backoff ends
    last,      \* the error the backoff is for
    outcome,   \* none, ok, error, abandoned by the reader
    now,       \* the clock
    pos,       \* chunks read in this pass
    acquired, returned, discarded, \* leases
    runs,      \* how often the server carried the operation out
    got        \* chunks the reader got

asked   == <<op, mode, timeout>>
history == <<acquired, returned, discarded, runs, got>>
vars    == <<op, mode, timeout, layer, pc, attempt, lease, tries, overflow, deadline, ends,
             wake, last, outcome, now, pos, acquired, returned, discarded, runs, got>>

Timed == timeout # None
Smaller(a, b) == IF a < b THEN a ELSE b
Left(d) == IF d > now THEN d - now ELSE 0

----------------------------------------------------------------------------
(* What a call is told.  Refusals come before the server runs anything;    *)
(* after the other failures the caller cannot know.                        *)

Refusals == {"retiring", "overloaded", "tooLarge", "oversize", "exhausted"}
Failures == {"unavailable", "timeout", "aborted", "failed"}
Unavailable(kind) == kind \in {"retiring", "unavailable"}

\* Mutant: UNAVAILABLE is retried at the gateway whatever the call.
RetryableWrites(kind) ==
    /\ layer = "unary"
    /\ IF lease THEN op \in {"read", "write"} /\ kind = "overloaded"
                ELSE op \in {"read", "write"} /\ Unavailable(kind)

\* What one pass answers with another call when the server says how long to
\* wait: on the runner a refusal for overload, at the gateway UNAVAILABLE, and
\* that for reads alone.
Retryable(kind) ==
    /\ layer = "unary"
    /\ IF lease THEN op \in {"read", "write"} /\ kind = "overloaded"
                ELSE op = "read" /\ Unavailable(kind)

\* A call to the gateway after a retired lease counts that lease's call.
PassAttempts == IF lease \/ overflow THEN MaxAttempts ELSE MaxAttempts - attempt

\* The errors that mean the file is too large for a unary call.
FallsBack(kind) ==
    /\ layer = "unary"
    /\ \/ op \in {"read", "write"} /\ kind = "tooLarge"
       \/ op = "read" /\ kind = "exhausted"

----------------------------------------------------------------------------
(* Passes.                                                                 *)

\* The time a lease wait may take: exec() repeats it within what is left.
LeaseTime ==
    Smaller(LeaseBudget,
            IF op = "exec" /\ deadline # None THEN Left(deadline) ELSE timeout)

Acquire ==
    /\ pc' = "acquiring"
    /\ ends' = IF Timed THEN now + LeaseTime ELSE 0

\* Mutant: exec() on another runner gets the whole time again.
PassEndAnew == now + timeout

\* When the calls of a pass must end: exec() counts from its first call, every
\* other pass starts anew.
PassEnd == IF op = "exec" /\ deadline # None THEN deadline ELSE now + timeout

\* The command's time starts with its first call.
StartCalls(direct) ==
    /\ pc' = "calling" /\ lease' = direct /\ tries' = 1 /\ pos' = 0
    /\ ends' = IF Timed THEN PassEnd ELSE 0
    /\ deadline' = IF op = "exec" /\ Timed /\ deadline = None THEN now + timeout ELSE deadline

Leased ==
    /\ pc = "acquiring" /\ mode # "gateway"
    /\ StartCalls(TRUE)
    /\ acquired' = acquired + 1
    /\ UNCHANGED <<asked, layer, attempt, overflow, wake, last, outcome, now, returned,
                   discarded, runs, got>>

Ungranted ==
    /\ pc = "acquiring" /\ mode # "direct"
    /\ StartCalls(FALSE)
    /\ UNCHANGED <<asked, layer, attempt, overflow, wake, last, outcome, now, history>>

AcquireFails ==
    /\ pc = "acquiring" /\ mode # "gateway"
    /\ pc' = "done" /\ outcome' = "error"
    /\ UNCHANGED <<asked, layer, attempt, lease, tries, overflow, deadline, ends, wake, last,
                   now, pos, history>>

\* Mutant: a discarded lease is not released.
GiveBackUsable(kind) ==
    /\ lease' = FALSE
    /\ returned' = IF lease /\ ~Unavailable(kind) THEN returned + 1 ELSE returned
    /\ discarded' = IF lease /\ Unavailable(kind) THEN discarded + 1 ELSE discarded

\* The finally of a pass, after the catch discarded an unavailable channel.
GiveBack(kind) ==
    /\ lease' = FALSE
    /\ returned' = IF lease THEN returned + 1 ELSE returned
    /\ discarded' = IF lease /\ Unavailable(kind) THEN discarded + 1 ELSE discarded

\* Mutant: a streamed read starts again although the reader has chunks of it.
RepeatsDelivered(kind) ==
    /\ lease /\ attempt = 0 /\ kind = "retiring"
    /\ layer = "stream" => op \in Reads
    /\ op = "exec" /\ deadline # None => now < deadline

\* A runner that retires refuses the call: the loop goes on to another lease,
\* once, unless the reader has part of the file or exec() has no time left.
Repeats(kind) ==
    /\ lease /\ attempt = 0 /\ kind = "retiring"
    /\ layer = "stream" => op \in Reads /\ pos = 0
    /\ op = "exec" /\ deadline # None => now < deadline

Again(kind) ==
    /\ Repeats(kind)
    /\ GiveBack(kind) /\ Acquire
    /\ attempt' = 1 /\ tries' = 0 /\ pos' = 0
    /\ UNCHANGED <<layer, overflow, deadline, outcome, acquired>>

\* Overload that outlasts the retries sends the call through the gateway.
Overflows(kind) ==
    /\ layer = "unary" /\ op \in {"read", "write"}
    /\ lease /\ mode = "auto" /\ kind = "overloaded"

Overflow(kind) ==
    /\ Overflows(kind)
    /\ Timed => Left(deadline) >= GatewayMin
    /\ GiveBack(kind)
    /\ overflow' = TRUE
    /\ pc' = "calling" /\ tries' = 1 /\ pos' = 0
    /\ ends' = IF Timed THEN deadline ELSE 0
    /\ UNCHANGED <<layer, attempt, deadline, outcome, acquired>>

\* A file too large for a unary call is carried by a command, with the options
\* of the original call.
Fallback(kind) ==
    /\ FallsBack(kind)
    /\ GiveBack(kind) /\ Acquire
    /\ layer' = "stream" /\ attempt' = 0 /\ tries' = 0 /\ pos' = 0 /\ overflow' = FALSE
    /\ UNCHANGED <<deadline, outcome, acquired>>

GiveUp(kind) ==
    /\ ~Repeats(kind) /\ ~FallsBack(kind)
    /\ Overflows(kind) => Timed /\ Left(deadline) < GatewayMin
    /\ GiveBack(kind)
    /\ pc' = "done" /\ outcome' = "error"
    /\ UNCHANGED <<layer, attempt, tries, overflow, deadline, ends, pos, acquired>>

Throws(kind) == Again(kind) \/ Overflow(kind) \/ Fallback(kind) \/ GiveUp(kind)

----------------------------------------------------------------------------
(* Calls.                                                                  *)

\* A refusal or failure that another call of this pass will answer.
Retries(kind, hint) ==
    /\ Retryable(kind) /\ tries < PassAttempts
    /\ hint # None /\ hint <= MaxDelay
    /\ Timed => now + hint + MinAttempt <= ends

Fails(kind, hint, ran) ==
    /\ pc = "calling"
    /\ kind = "timeout" => Timed /\ now = ends
    /\ hint # None => kind \in {"retiring", "overloaded", "unavailable"}
    /\ ran => kind \in Failures
    /\ runs' = IF ran THEN runs + 1 ELSE runs
    /\ IF Retries(kind, hint)
       THEN /\ pc' = "sleeping" /\ wake' = now + hint /\ last' = kind
            /\ UNCHANGED <<layer, attempt, lease, tries, overflow, deadline, ends, outcome, pos,
                           acquired, returned, discarded>>
       ELSE Throws(kind) /\ UNCHANGED <<wake, last>>
    /\ UNCHANGED <<asked, now, got>>

\* The backoff is over: the next call gets what is left of the pass.
Wakes ==
    /\ pc = "sleeping"
    /\ Timed => now >= wake
    /\ IF Timed /\ Left(ends) < MinAttempt
       THEN Throws(last)
       ELSE /\ pc' = "calling" /\ tries' = tries + 1
            /\ UNCHANGED <<layer, attempt, lease, overflow, deadline, ends, outcome, pos, acquired,
                           returned, discarded>>
    /\ UNCHANGED <<asked, wake, last, now, runs, got>>

\* The signal ends the backoff.
BackoffAborted ==
    /\ pc = "sleeping"
    /\ Throws("aborted")
    /\ UNCHANGED <<asked, wake, last, now, runs, got>>

\* A chunk of a streamed read reaches the reader.
Chunk ==
    /\ pc = "calling" /\ layer = "stream" /\ op \in Reads
    /\ pos < Chunks
    /\ pos' = pos + 1 /\ got' = Append(got, pos + 1)
    /\ UNCHANGED <<asked, layer, pc, attempt, lease, tries, overflow, deadline, ends, wake, last,
                   outcome, now, acquired, returned, discarded, runs>>

Finish(result) ==
    /\ pc' = "done" /\ outcome' = result
    /\ GiveBack("none")
    /\ UNCHANGED <<asked, layer, attempt, tries, overflow, deadline, ends, wake, last, now, pos,
                   acquired, got>>

Succeeds ==
    /\ pc = "calling"
    /\ layer = "stream" /\ op \in Reads => pos = Chunks
    /\ Finish("ok")
    /\ runs' = runs + 1

\* The reader leaves its loop, or refuses a file over the buffered limit.
Abandons ==
    /\ pc = "calling" /\ pos > 0
    /\ Finish("abandoned")
    /\ UNCHANGED runs

\* Nothing waits past its timer, but a sleep may wake late.
Tick ==
    /\ Timed /\ pc # "done"
    /\ now < IF pc = "sleeping" THEN wake + MaxLate ELSE ends
    /\ now' = now + 1
    /\ UNCHANGED <<asked, layer, pc, attempt, lease, tries, overflow, deadline, ends, wake, last,
                   outcome, pos, history>>

----------------------------------------------------------------------------
TypeOK ==
    /\ op \in Ops /\ mode \in {"auto", "direct", "gateway"} /\ timeout \in Timeouts \cup {None}
    /\ layer \in {"unary", "stream"} /\ pc \in {"acquiring", "calling", "sleeping", "done"}
    /\ attempt \in 0..1 /\ lease \in BOOLEAN /\ tries \in Nat /\ overflow \in BOOLEAN
    /\ deadline \in Nat \cup {None} /\ ends \in Nat /\ wake \in Nat
    /\ last \in {"none"} \cup Refusals \cup Failures
    /\ outcome \in {"none", "ok", "error", "abandoned"}
    /\ now \in Nat /\ pos \in 0..Chunks /\ got \in Seq(Nat)
    /\ acquired \in Nat /\ returned \in Nat /\ discarded \in Nat /\ runs \in Nat

\* A write above the known size limit is a command from the start.
Init ==
    /\ op \in Ops /\ mode \in {"auto", "direct", "gateway"} /\ timeout \in Timeouts \cup {None}
    /\ layer \in IF op \in {"readStream", "writeStream"} THEN {"stream"}
                 ELSE IF op = "write" THEN {"unary", "stream"} ELSE {"unary"}
    /\ pc = "acquiring" /\ attempt = 0 /\ lease = FALSE /\ tries = 0 /\ overflow = FALSE
    /\ now = 0
    /\ deadline = IF op \in {"read", "write"} THEN timeout ELSE None
    /\ ends = IF Timed THEN Smaller(LeaseBudget, timeout) ELSE 0
    /\ wake = 0 /\ last = "none" /\ outcome = "none" /\ pos = 0
    /\ acquired = 0 /\ returned = 0 /\ discarded = 0 /\ runs = 0 /\ got = <<>>

Next ==
    \/ Leased \/ Ungranted \/ AcquireFails
    \/ \E kind \in Refusals \cup Failures, hint \in Hints \cup {None}, ran \in BOOLEAN :
          Fails(kind, hint, ran)
    \/ Wakes \/ BackoffAborted
    \/ Chunk \/ Succeeds \/ Abandons
    \/ Tick

\* Timers fire, the lease wait ends and a reader asks for the next chunk; a
\* server need not answer.
Fairness ==
    /\ WF_vars(Tick)
    /\ WF_vars(Leased \/ Ungranted \/ AcquireFails)
    /\ WF_vars(Fails("timeout", None, FALSE))
    /\ WF_vars(Wakes)

Spec == Init /\ [][Next]_vars /\ Fairness

----------------------------------------------------------------------------
(* Properties.                                                             *)

\* A command or a write is carried out at most once over all its calls, to
\* runners, the gateway and the streaming fallback, and exactly once if it
\* succeeds (comments at file-adapter.ts:252 and in its test "does not replay
\* ambiguous unavailable writes").
AppliedOnce ==
    op \notin Reads => runs <= 1 /\ (outcome = "ok" => runs = 1)

\* The caller's time bounds what it should: exec() from its first call over
\* both runners and the second lease wait (grpc-transport.ts:369), the calls of
\* one pass with their backoff, and a call that overflows to the gateway
\* together with everything before it (file-adapter.ts:283).
WithinBudget ==
    Timed /\ layer = "unary" =>
        /\ op = "exec" /\ deadline # None => now <= deadline
        /\ overflow => now <= deadline
        /\ pc \in {"calling", "sleeping"} => now <= ends

\* The reader gets the chunks of the file once and in order although the
\* stream may start again on another runner, and all of them on success.
ChunksOnce ==
    /\ \A i \in 1..Len(got) : got[i] = i
    /\ op = "readStream" /\ outcome = "ok" => Len(got) = Chunks

\* A timed operation ends, whatever refuses it, and has given back every lease.
OperationEnds ==
    Timed ~> (pc = "done" /\ returned = acquired)
=============================================================================
