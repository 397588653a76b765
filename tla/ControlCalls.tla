----------------------------- MODULE ControlCalls -----------------------------
(***************************************************************************)
(* One call of the control plane that takes several RPCs, with its clock:  *)
(* create() under a capacity budget (retry-create-capacity.ts), capture of *)
(* a file-system snapshot (runtime/snapshot.ts), inspection of one, and    *)
(* the pages of a listing: collected with retries (snapshots and network   *)
(* configurations) or iterated without (sandboxes, runtime/list-all.ts).   *)
(*                                                                         *)
(* The server may carry a request out and its answer be lost; it remembers *)
(* request ids.  An RPC ends by its own timer at the latest, a sleep up to *)
(* Late after its time.  The unit of time is about a second, scaled so     *)
(* that the order of the code's bounds is kept.                            *)
(***************************************************************************)
EXTENDS Integers, Sequences, FiniteSets, FiniteSetsExt

CONSTANTS
    Budgets,      \* createRetryBudgetMs and retryBudgetMs, 0 for none
    Timeouts,     \* timeoutMs of the caller
    PollBudget,   \* DEFAULT_POLL_RETRY_BUDGET_MS
    RpcTimeout,   \* DEFAULT_POLL_RPC_TIMEOUT_MS
    MinRpc,       \* MIN_POLL_RPC_TIMEOUT_MS
    MaxInterval,  \* DEFAULT_MAX_POLL_INTERVAL_MS
    Hints,        \* delays the server names, none longer than the cap
    Slack,        \* SNAPSHOT_OBSERVATION_SLACK_MS
    Late,         \* how late a timer of the event loop may fire
    Prompt,       \* an answer within this time is prompt
    Tokens,       \* page tokens
    MaxPages,     \* MAX_LIST_ALL_PAGES
    Horizon       \* bound: no time passes beyond it in a phase without a timer

ASSUME ControlAssumption ==
    /\ Budgets \subseteq Nat /\ Timeouts \subseteq Nat \ {0}
    /\ Hints \subseteq Nat \ {0}
    /\ {MaxInterval, MinRpc, RpcTimeout, MaxPages} \subseteq Nat \ {0}
    /\ {Late, Prompt, Horizon} \subseteq Nat
    /\ PollBudget >= RpcTimeout /\ PollBudget \in Nat
    /\ Slack \in Nat /\ Slack > MaxInterval + Late + 2 * Prompt
    /\ IsFiniteSet(Tokens) /\ Tokens \cap {"first", "end", "unknown"} = {}

Never == -1 \* an absent deadline

VARIABLES
    op,            \* create, capture, inspect, collect or iterate
    pc,            \* wait, rpc, backoff, interval, yield or done
    polling,       \* capture: the snapshot exists and is being polled
    outcome,       \* how the call settled
    now,
    timeout,       \* timeoutMs of the caller, or Never
    budget,        \* the caller's retry budget
    deadline,      \* end of the whole call, or Never
    retryDeadline, \* end of the retries in progress, or Never
    until,         \* end of the RPC or sleep in progress, or Never
    sent,          \* when the RPC in progress was sent
    attempt,       \* RPCs sent
    sight,         \* what the server answers to the RPC in progress
    record,        \* the snapshot on the server
    carried,       \* history: request ids of the creates carried out, in order
    archiveBy,     \* history: end of the archive's own time, or Never
    readyBy,       \* history: ready by then
    missed,        \* history: an RPC failed or was not prompt
    token,         \* the page asked for
    seenTokens,    \* tokens a page has named
    next,          \* the token each page of the server names
    pages          \* the pages the caller has

callVars == <<op, timeout, budget>>
retryVars == <<retryDeadline, until, sent, attempt>>
serverVars == <<record, carried, archiveBy, readyBy, next>>
pageVars == <<token, seenTokens, pages>>
controlVars == <<callVars, pc, polling, outcome, now, deadline, retryVars, sight,
                 serverVars, missed, pageVars>>

Listing == op \in {"collect", "iterate"}
Settled == pc = "done"
Pages == Tokens \cup {"first"}

ClockTypeOK ==
    /\ op \in {"create", "capture", "inspect", "collect", "iterate"}
    /\ pc \in {"wait", "rpc", "backoff", "interval", "yield", "done"}
    /\ outcome \in {"none", "resolved", "failed", "timeout", "aborted", "loop", "pages", "left"}
    /\ polling \in BOOLEAN /\ readyBy \in BOOLEAN /\ missed \in BOOLEAN
    /\ now \in Nat /\ sent \in Nat /\ attempt \in Nat
    /\ budget \in Budgets \cup {0}
    /\ timeout \in Timeouts \cup {Never}
    /\ deadline \in Nat \cup {Never} /\ archiveBy \in Nat \cup {Never}
    /\ retryDeadline \in Nat \cup {Never} /\ until \in Nat \cup {Never}
    /\ record \in {"none", "creating", "ready", "failed"}
    /\ sight \in {"unserved", "served", "creating", "ready", "failed"}

PageTypeOK ==
    /\ token \in Pages /\ seenTokens \subseteq Tokens
    /\ next \in [Pages -> Tokens \cup {"end", "unknown"}]
    /\ pages \in Seq(Pages)

ControlTypeOK == ClockTypeOK /\ PageTypeOK /\ carried \in Seq(Nat)

Earlier(a, b) == IF a = Never THEN b ELSE IF b = Never THEN a ELSE Min({a, b})
Passed(time) == time # Never /\ now >= time

----------------------------------------------------------------------------
(* Starting, and the passing of time.                                      *)

\* Mutant: a poll of a snapshot has no timer of its own.
FirstAttemptUntimed(polls, ends) ==
    CASE op = "inspect" -> now + timeout
      [] op = "capture" /\ polls -> Never
      [] op = "capture" /\ ~polls -> Min({ends, now + RpcTimeout})
      [] OTHER -> ends
\* The end of the first attempt of an RPC sent now, given its deadline.
FirstAttempt(polls, ends) ==
    CASE op = "inspect" -> now + timeout
      [] op = "capture" /\ (polls \/ budget = 0) -> Min({ends, now + RpcTimeout})
      [] op = "capture" /\ ~polls /\ budget > 0 -> Min({ends, now + RpcTimeout, now + budget})
      [] OTHER -> ends

\* The end of a repeated attempt.
NextAttempt ==
    CASE op = "create" -> retryDeadline
      [] op = "capture" -> Min({retryDeadline, now + RpcTimeout})
      [] op = "inspect" -> now + timeout
      [] OTHER -> deadline

\* An RPC is sent.
Send(ends) ==
    /\ pc' = "rpc" /\ sight' = "unserved"
    /\ until' = ends /\ sent' = now /\ attempt' = attempt + 1

Settle(how) ==
    /\ pc' = "done" /\ outcome' = how /\ until' = Never
    /\ UNCHANGED <<sent, attempt, sight>>

SleepUntil(place, time) ==
    /\ pc' = place /\ until' = time
    /\ UNCHANGED <<sent, attempt, sight, outcome>>

ControlInit ==
    /\ now = 0 /\ polling = FALSE /\ outcome = "none"
    /\ retryDeadline = Never /\ sent = 0 /\ sight = "unserved"
    /\ record = "none" /\ carried = <<>> /\ archiveBy = Never
    /\ readyBy = FALSE /\ missed = FALSE
    /\ token = "first" /\ seenTokens = {} /\ pages = <<>>
    /\ next = [page \in Pages |-> "unknown"]
    /\ op \in {"create", "capture", "inspect", "collect", "iterate"}
    /\ timeout \in Timeouts \cup IF op = "create" THEN {Never} ELSE {}
    /\ budget \in IF op \in {"create", "capture"} THEN Budgets ELSE {0}
    /\ IF op = "capture"
       THEN pc = "wait" /\ deadline = Never /\ until = Never /\ attempt = 0
       ELSE /\ pc = "rpc" /\ attempt = 1 /\ until = timeout
            /\ deadline = IF op = "inspect" THEN Never ELSE timeout

\* An RPC does not outlive its timer; a sleep may end a little late.
Tick ==
    /\ ~Settled
    /\ CASE until = Never -> now < Horizon
         [] until # Never /\ pc = "rpc" -> now < until
         [] OTHER -> now < until + Late
    /\ now' = now + 1
    /\ UNCHANGED <<callVars, pc, polling, outcome, deadline, retryVars, sight,
                   serverVars, missed, pageVars>>

----------------------------------------------------------------------------
(* The server.                                                             *)

\* The idempotency key: the body and its key are built once for all attempts.
RequestId == 1

\* The server carries the request out; a snapshot only once for each key.
Serve ==
    /\ pc = "rpc" /\ sight = "unserved"
    /\ CASE op = "create" \/ (op = "capture" /\ ~polling) ->
              /\ carried' = Append(carried, RequestId)
              /\ record' = IF op = "capture" /\ record = "none" THEN "creating" ELSE record
              /\ sight' = "served"
         [] op = "capture" /\ polling ->
              sight' = record /\ UNCHANGED <<carried, record>>
         [] OTHER -> sight' = "served" /\ UNCHANGED <<carried, record>>
    /\ UNCHANGED <<callVars, pc, polling, outcome, now, deadline, retryVars,
                   archiveBy, readyBy, next, missed, pageVars>>

\* The archive is written or fails, whether the client asks or not.
Archive ==
    /\ record = "creating" /\ ~Settled
    /\ record' \in {"ready", "failed"}
    /\ readyBy' = (record' = "ready" /\ now <= archiveBy)
    /\ UNCHANGED <<callVars, pc, polling, outcome, now, deadline, retryVars, sight,
                   carried, archiveBy, next, missed, pageVars>>

----------------------------------------------------------------------------
(* retryCreateCapacity and retryTransientRpc: an RPC that fails.           *)

RetryBudget ==
    IF op = "create" \/ (op = "capture" /\ ~polling) THEN budget ELSE PollBudget

\* Mutant: create() repeats what the server may have carried out.
RepeatsUnavailable(error) ==
    /\ op # "iterate" /\ RetryBudget > 0
    /\ \/ error \in {"capacity", "transient"}
       \/ error = "timeout" /\ op = "capture" /\ polling
\* create() repeats a definite refusal for want of capacity; the others
\* repeat transient errors, and a poll its own timeouts.
Repeatable(error) ==
    /\ op # "iterate" /\ RetryBudget > 0
    /\ \/ error = "capacity"
       \/ error = "transient" /\ op # "create"
       \/ error = "timeout" /\ op = "capture" /\ polling

\* The error reaches the caller; past the deadline of a capture as a timeout.
Rejects == Settle(IF op = "capture" /\ Passed(deadline) THEN "timeout" ELSE "failed")

\* Mutant: the retries have their budget, whatever the deadline leaves.
RetryEndsUnclamped == IF retryDeadline # Never THEN retryDeadline ELSE now + RetryBudget
\* The budget starts at the first failure and is cut at the deadline.
RetryEnds ==
    IF retryDeadline # Never THEN retryDeadline ELSE Earlier(now + RetryBudget, deadline)

\* The sleep before the next attempt: a hint of the server, or a jittered delay.
Backoff ==
    IF now >= RetryEnds THEN Rejects /\ UNCHANGED retryDeadline
    ELSE /\ retryDeadline' = RetryEnds
         /\ \E delay \in 1..MaxInterval \cup Hints :
                SleepUntil("backoff", Min({now + delay, RetryEnds}))

\* An RPC fails: refused, cut off on either way, or by its timer.
RpcFails(error) ==
    /\ pc = "rpc"
    /\ error = "capacity" => sight = "unserved"
    /\ error = "timeout" => until # Never /\ now >= until
    /\ missed' = TRUE
    /\ IF Repeatable(error) THEN Backoff ELSE Rejects /\ UNCHANGED retryDeadline
    /\ UNCHANGED <<callVars, polling, now, deadline, serverVars, pageVars>>

\* The sleep is over: the next attempt, unless too little time is left.
Wake ==
    /\ pc = "backoff" /\ now >= until
    /\ IF retryDeadline - now < IF op = "create" THEN 1 ELSE MinRpc
       THEN Rejects
       ELSE Send(NextAttempt) /\ UNCHANGED outcome
    /\ UNCHANGED <<callVars, polling, now, deadline, retryDeadline, serverVars,
                   missed, pageVars>>

\* The caller's signal is aborted: the RPC or the sleep rejects with it.
Abort ==
    /\ pc \in {"wait", "rpc", "backoff", "interval"}
    /\ Settle("aborted")
    /\ UNCHANGED <<callVars, polling, now, deadline, retryDeadline, serverVars,
                   missed, pageVars>>

----------------------------------------------------------------------------
(* captureFileSystemSnapshot.                                              *)

\* The deadline of a capture starts when the sandbox runs.
CaptureEnds == now + timeout + Slack

\* waitForSandbox ends: the deadline is set and the snapshot is created.
WaitEnds ==
    /\ pc = "wait"
    /\ \/ /\ deadline' = CaptureEnds /\ archiveBy' = now + timeout
          /\ Send(FirstAttempt(FALSE, CaptureEnds)) /\ UNCHANGED outcome
       \/ Settle("failed") /\ UNCHANGED <<deadline, archiveBy>>
    /\ UNCHANGED <<callVars, polling, now, retryDeadline, record, carried, readyBy, next,
                   missed, pageVars>>

\* A Get of the snapshot starts, with retries of its own, unless the time is up.
Poll ==
    /\ IF now >= deadline THEN Settle("timeout")
       ELSE Send(FirstAttempt(TRUE, deadline)) /\ UNCHANGED outcome
    /\ retryDeadline' = Never

\* The snapshot has been accepted: it is polled at once.
CaptureAccepted ==
    /\ op = "capture" /\ ~polling
    /\ polling' = TRUE
    /\ Poll
    /\ UNCHANGED pageVars

\* A poll's answer: the end of the capture, or a sleep cut at the deadline.
CaptureSeen ==
    /\ op = "capture" /\ polling
    /\ CASE sight = "ready" -> Settle("resolved")
         [] sight = "failed" -> Settle("failed")
         [] sight = "creating" /\ now >= deadline -> Settle("timeout")
         [] OTHER -> \E interval \in 1..MaxInterval :
                         SleepUntil("interval", Min({now + interval, deadline}))
    /\ UNCHANGED <<polling, retryDeadline, pageVars>>

\* The interval between two polls is over.
IntervalEnds ==
    /\ pc = "interval" /\ now >= until
    /\ Poll
    /\ UNCHANGED <<callVars, polling, now, deadline, serverVars, missed, pageVars>>

----------------------------------------------------------------------------
(* Pages.                                                                  *)

\* Mutant: a token named before is followed again.
AfterPageBlind(count, named) ==
    /\ token' = IF named = "end" THEN token ELSE named
    /\ seenTokens' = seenTokens \cup ({named} \ {"end"})
    /\ retryDeadline' = Never
    /\ CASE named = "end" -> Settle("resolved")
         [] named # "end" /\ count >= MaxPages -> Settle("pages")
         [] OTHER -> Send(deadline) /\ UNCHANGED outcome
\* After a page: the end, a loop, too many pages, no time left, or the next.
AfterPage(count, named) ==
    LET follows == named \notin seenTokens \cup {"end"}
    IN  /\ token' = IF follows THEN named ELSE token
        /\ seenTokens' = seenTokens \cup IF follows THEN {named} ELSE {}
        /\ retryDeadline' = Never
        /\ CASE named = "end" -> Settle("resolved")
             [] named \in seenTokens -> Settle("loop")
             [] follows /\ count >= MaxPages -> Settle("pages")
             [] follows /\ count < MaxPages /\ now >= deadline -> Settle("timeout")
             [] OTHER -> Send(deadline) /\ UNCHANGED outcome

\* A page arrives: it is kept, or handed to the consumer of the generator.
PageArrives ==
    /\ Listing
    /\ pages' = Append(pages, token)
    /\ \E named \in Tokens \cup {"end"} :
        /\ next[token] \in {"unknown", named}
        /\ next' = [next EXCEPT ![token] = named]
        /\ IF op = "collect" THEN AfterPage(Len(pages) + 1, named)
           ELSE /\ pc' = "yield" /\ until' = Never
                /\ UNCHANGED <<sent, attempt, sight, outcome, retryDeadline, token, seenTokens>>
    /\ UNCHANGED polling

\* The consumer asks for the next page, after an abort perhaps, or leaves.
Resume ==
    /\ pc = "yield"
    /\ \/ AfterPage(Len(pages), next[token])
       \/ /\ next[token] \notin seenTokens \cup {"end"} /\ Len(pages) < MaxPages
          /\ Settle("aborted") /\ UNCHANGED <<token, seenTokens, retryDeadline>>
       \/ Settle("left") /\ UNCHANGED <<token, seenTokens, retryDeadline>>
    /\ UNCHANGED <<callVars, polling, now, deadline, serverVars, missed, pages>>

----------------------------------------------------------------------------

\* create() and inspect() resolve with the answer.
AnswerResolves ==
    /\ op \in {"create", "inspect"}
    /\ Settle("resolved")
    /\ UNCHANGED <<polling, retryDeadline, pageVars>>

\* The answer of the RPC arrives.
Answer ==
    /\ pc = "rpc" /\ sight # "unserved"
    /\ missed' = (missed \/ now > sent + Prompt)
    /\ \/ (AnswerResolves \/ CaptureAccepted \/ CaptureSeen) /\ UNCHANGED next
       \/ PageArrives
    /\ UNCHANGED <<callVars, now, deadline, record, carried, archiveBy, readyBy>>

Timer == Tick \/ Wake \/ IntervalEnds \/ RpcFails("timeout")

ControlNext ==
    \/ Timer \/ Serve \/ Archive \/ Answer \/ WaitEnds \/ Resume \/ Abort
    \/ \E error \in {"capacity", "transient", "fatal"} : RpcFails(error)

\* Timers fire; nothing is assumed of the server, the sandbox or the consumer.
ControlFairness == WF_controlVars(Timer)
ControlSpec == ControlInit /\ [][ControlNext]_controlVars /\ ControlFairness

----------------------------------------------------------------------------

\* However often it is repeated, a call creates at most one thing: create()
\* sends nothing after a request the server may have carried out, and a
\* capture always names the same request, so that repeats are recognised.
CreatedOnce ==
    /\ op = "create" => Len(carried) <= 1
    /\ \A i, j \in DOMAIN carried : carried[i] = carried[j]

\* The budget of create() runs from the first refusal and timeoutMs bounds the
\* whole sequence, a capture and a listing end at their deadline: nothing of a
\* call is in progress later than a timer of the event loop may be late.  And a
\* capture whose archive was ready within its own time is not reported as timed
\* out, if the server answers promptly.
WithinDeadline ==
    /\ ~Settled /\ pc # "yield" =>
          /\ deadline # Never => now <= deadline + Late
          /\ op = "create" /\ retryDeadline # Never => now <= retryDeadline + Late
          /\ pc = "rpc" /\ deadline # Never => until <= deadline
    /\ op = "capture" /\ readyBy /\ ~missed => outcome # "timeout"

\* A listing that resolves has every page of the server once and in order, and
\* none has a page twice.
PagesOnce ==
    /\ \A i, j \in DOMAIN pages : pages[i] = pages[j] => i = j
    /\ \A i \in DOMAIN pages : i < Len(pages) => next[pages[i]] = pages[i + 1]
    /\ Listing /\ outcome = "resolved" => next[pages[Len(pages)]] = "end"

\* A call with a limit of time settles, whatever the server does, unless it is
\* the sandbox or the consumer it waits for.
CallEnds == (deadline # Never) ~> (Settled \/ pc = "yield")
=============================================================================
