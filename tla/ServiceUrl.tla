----------------------------- MODULE ServiceUrl -----------------------------
(***************************************************************************)
(* getUrl() of the ComputeSDK provider (cwsandbox-computesdk/src/index.ts, *)
(* waitForAssignedUrl): the hostname of a service is assigned some time    *)
(* after the sandbox runs, and the handle is inspected until it shows, for *)
(* SERVICE_URL_WAIT_MS at most.                                            *)
(***************************************************************************)
EXTENDS Integers

CONSTANTS
    UrlWait, \* SERVICE_URL_WAIT_MS
    UrlPoll, \* SERVICE_URL_POLL_MS
    UrlLate  \* how late a timer of the event loop may fire

VARIABLES
    clock,
    state,    \* loop, sent, answered, sleep, or how it ended
    wake,     \* end of the sleep
    assigned, \* when the server assigned the URL, or Never
    looked,   \* when the server answered the last inspection, or Never
    saw       \* whether that answer had the URL

urlVars == <<clock, state, wake, assigned, looked, saw>>

Never == -1
Settled == {"found", "unassigned", "timeout", "failed"}

UrlInit ==
    /\ clock = 0 /\ state = "loop" /\ wake = 0
    /\ assigned = Never /\ looked = Never /\ saw = FALSE

Deadline == UrlWait \* the call began at 0

\* An inspection with what is left as its timeout, or the end.
Inspect ==
    /\ state = "loop"
    /\ state' = IF Deadline <= clock THEN "unassigned" ELSE "sent"
    /\ UNCHANGED <<clock, wake, assigned, looked, saw>>

\* The server takes the inspection up.
Look ==
    /\ state = "sent" /\ state' = "answered"
    /\ looked' = clock /\ saw' = (assigned # Never)
    /\ UNCHANGED <<clock, wake, assigned>>

\* The answer arrives.
Found ==
    /\ state = "answered" /\ saw
    /\ state' = "found"
    /\ UNCHANGED <<clock, wake, assigned, looked, saw>>

Least(a, b) == IF a < b THEN a ELSE b
NotYet ==
    /\ state = "answered" /\ ~saw
    /\ LET left == Least(UrlPoll, Deadline - clock)
       IN  IF left <= 0 THEN state' = "unassigned" /\ UNCHANGED wake
           ELSE state' = "sleep" /\ wake' = clock + left
    /\ UNCHANGED <<clock, assigned, looked, saw>>

InspectTimesOut ==
    /\ state \in {"sent", "answered"} /\ clock >= Deadline
    /\ state' = "timeout"
    /\ UNCHANGED <<clock, wake, assigned, looked, saw>>

\* Not found, unavailable and the like: nothing is retried.
InspectFails ==
    /\ state \in {"sent", "answered"}
    /\ state' = "failed"
    /\ UNCHANGED <<clock, wake, assigned, looked, saw>>

UrlWakes ==
    /\ state = "sleep" /\ clock >= wake
    /\ state' = "loop"
    /\ UNCHANGED <<clock, wake, assigned, looked, saw>>

Assign ==
    /\ assigned = Never /\ state \notin Settled
    /\ assigned' = clock
    /\ UNCHANGED <<clock, state, wake, looked, saw>>

\* Time passes, but for a step the event loop takes at once.
UrlTick ==
    /\ \/ state = "sleep" /\ clock < wake + UrlLate
       \/ state \in {"sent", "answered"} /\ clock < Deadline + UrlLate
    /\ clock' = clock + 1
    /\ UNCHANGED <<state, wake, assigned, looked, saw>>

UrlNext ==
    \/ Inspect \/ Look \/ Found \/ NotYet \/ InspectTimesOut \/ InspectFails
    \/ UrlWakes \/ Assign \/ UrlTick

\* getUrl() ends with its time, and if it says that no URL was assigned, then
\* none was when the server was last asked, and the poll after the answer to that
\* would have come too late.
UrlNotMissed ==
    /\ clock <= Deadline + UrlLate
    /\ state = "unassigned" =>
        /\ clock >= Deadline /\ looked # Never
        /\ assigned # Never => assigned >= looked
=============================================================================
