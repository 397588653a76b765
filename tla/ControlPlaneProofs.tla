--------------------------- MODULE ControlPlaneProofs ---------------------------
(***************************************************************************)
(* What the parts of the control plane promise, for every value of the     *)
(* constants: the calls that take several RPCs, the updates of a network   *)
(* configuration, and the parts that module MCControlPlane puts beside     *)
(* them: from-file contents, the provider and its URLs, the details of an  *)
(* error, what a handle shows, and what a request carries of options,      *)
(* parts and rules.  No two parts share state, so each has an invariant of *)
(* its own.                                                                *)
(***************************************************************************)
EXTENDS MCControlPlane, SequenceTheorems, TLAPS

----------------------------------------------------------------------------
(* The calls of the control plane: create() carries out one request at      *)
(* most, no call outlasts its deadline, a capture whose archive was in time *)
(* is not reported as timed out, and a listing has no page twice.           *)

LEMMA MinOfTwo ==
    ASSUME NEW a \in Int, NEW b \in Int
    PROVE  Min({a, b}) \in {a, b} /\ Min({a, b}) <= a /\ Min({a, b}) <= b
<1>1. \E x \in {a, b} : \A y \in {a, b} : x <= y
  <2>1. CASE a <= b
    BY <2>1
  <2>2. CASE b <= a
    BY <2>2
  <2> QED BY <2>1, <2>2
<1> QED BY <1>1 DEF Min

LEMMA MinOfThree ==
    ASSUME NEW a \in Int, NEW b \in Int, NEW c \in Int
    PROVE  /\ Min({a, b, c}) \in {a, b, c}
           /\ Min({a, b, c}) <= a /\ Min({a, b, c}) <= b /\ Min({a, b, c}) <= c
<1>1. \E x \in {a, b, c} : \A y \in {a, b, c} : x <= y
  <2>1. CASE a <= b /\ a <= c
    BY <2>1
  <2>2. CASE b <= a /\ b <= c
    BY <2>2
  <2>3. CASE c <= a /\ c <= b
    BY <2>3
  <2> QED BY <2>1, <2>2, <2>3
<1> QED BY <1>1 DEF Min

----------------------------------------------------------------------------
(* One request carried out.                                                 *)

\* A create() whose request was carried out awaits the answer or is settled.
OnceInv ==
    /\ carried \in Seq({1})
    /\ op = "create" /\ carried # <<>> =>
          Len(carried) = 1 /\ (Settled \/ (pc = "rpc" /\ sight = "served"))

LEMMA OnceInit == ControlInit => OnceInv
BY DEF ControlInit, OnceInv

\* Serving the first request of a create().
LEMMA ServeOnce == ASSUME OnceInv, Serve PROVE OnceInv'
<1>1. CASE UNCHANGED carried
  BY <1>1 DEF Serve, OnceInv, callVars, Settled
<1>2. CASE op = "create" \/ (op = "capture" /\ ~polling)
  <2>1. carried' = Append(carried, 1) /\ sight' = "served" /\ UNCHANGED <<op, pc>>
    BY <1>2 DEF Serve, callVars, RequestId
  <2>2. pc = "rpc" /\ sight = "unserved"
    BY DEF Serve
  <2>3. carried' \in Seq({1}) /\ Len(carried') = Len(carried) + 1
    BY <2>1, AppendProperties DEF OnceInv
  <2>4. op = "create" => carried = <<>>
    BY <2>2 DEF OnceInv, Settled
  <2>5. op = "create" => Len(carried') = 1
    BY <2>3, <2>4, EmptySeq
  <2> QED BY <2>1, <2>2, <2>3, <2>5 DEF OnceInv
<1>3. UNCHANGED carried \/ op = "create" \/ (op = "capture" /\ ~polling)
  BY DEF Serve
<1> QED BY <1>1, <1>2, <1>3

\* No other step sends a request again that was carried out.
LEMMA OthersOnce ==
    ASSUME OnceInv, [ControlNext]_controlVars, ~Serve
    PROVE  OnceInv'
<1>1. UNCHANGED <<op, carried>>
  BY DEF ControlNext, Timer, Tick, Wake, IntervalEnds, RpcFails, Archive, Answer, WaitEnds,
         Resume, Abort, controlVars, callVars, serverVars
<1>2. ASSUME op = "create", carried # <<>>
      PROVE  Settled' \/ (pc' = "rpc" /\ sight' = "served")
  <2>1. Settled \/ (pc = "rpc" /\ sight = "served")
    BY <1>2 DEF OnceInv
  <2>2. CASE Tick \/ Archive \/ UNCHANGED controlVars
    BY <2>1, <2>2 DEF Tick, Archive, controlVars, Settled
  <2>3. CASE Wake \/ IntervalEnds \/ WaitEnds \/ Resume
    BY <2>1, <2>3 DEF Wake, IntervalEnds, WaitEnds, Resume, Settled
  <2>4. CASE Abort
    BY <2>4 DEF Abort, Settle, Settled
  <2>5. CASE Answer
    BY <1>2, <2>5 DEF Answer, AnswerResolves, CaptureAccepted, CaptureSeen, PageArrives, Listing,
                      Settle, Settled
  <2>6. ASSUME NEW error, RpcFails(error)
        PROVE  Settled'
    <3>1. error # "capacity" /\ pc = "rpc"
      BY <2>1, <2>6 DEF RpcFails, Settled
    <3>2. ~Repeatable(error)
      BY <1>2, <3>1 DEF Repeatable
    <3> QED BY <2>6, <3>2 DEF RpcFails, Rejects, Settle, Settled
  <2> QED BY <2>2, <2>3, <2>4, <2>5, <2>6 DEF ControlNext, Timer
<1> QED BY <1>1, <1>2 DEF OnceInv

LEMMA OnceNext == OnceInv /\ [ControlNext]_controlVars => OnceInv'
BY ServeOnce, OthersOnce

\* A call creates one thing at most, however often it is repeated.
THEOREM CreateOnce == ControlSpec => []CreatedOnce
<1>1. OnceInv => CreatedOnce
  <2> SUFFICES ASSUME OnceInv PROVE CreatedOnce
    OBVIOUS
  <2>1. op = "create" => Len(carried) <= 1
    <3>1. CASE carried = <<>>
      <4>1. Len(carried) = 0
        BY <3>1
      <4> QED BY <4>1
    <3>2. CASE carried # <<>>
      <4>1. op = "create" => Len(carried) = 1
        BY <3>2, Zenon DEF OnceInv
      <4>2. \A n : n = 1 => n <= 1
        OBVIOUS
      <4> QED BY <4>1, <4>2, Zenon
    <3> QED BY <3>1, <3>2
  <2>2. \A i \in DOMAIN carried : carried[i] = 1
    BY ElementOfSeq DEF OnceInv
  <2> QED BY <2>1, <2>2 DEF CreatedOnce
<1> QED BY <1>1, OnceInit, OnceNext, PTL DEF ControlSpec

----------------------------------------------------------------------------
(* Time.                                                                    *)

\* What each kind of call has and which places it visits.
KindInv ==
    /\ op # "create" => timeout # Never
    /\ op = "inspect" => deadline = Never
    /\ Listing => deadline # Never
    /\ pc \in {"wait", "interval"} => op = "capture"
    /\ pc = "yield" => op = "iterate"
    /\ pc = "wait" => deadline = Never /\ retryDeadline = Never
    /\ pc = "interval" => polling
    /\ ~Settled => outcome = "none"
    /\ op = "capture" /\ pc \in {"rpc", "backoff", "interval"} => deadline # Never
    /\ pc = "backoff" => retryDeadline # Never

\* A wait in progress has an end, inside the deadline and the budget, and is
\* not over for longer than a timer may be late.
TimeInv ==
    /\ retryDeadline # Never /\ deadline # Never => retryDeadline <= deadline
    /\ pc = "rpc" /\ until # Never => now <= until
    /\ pc \in {"backoff", "interval"} => until # Never /\ now <= until + Late
    /\ pc \in {"rpc", "backoff", "interval"} /\ deadline # Never =>
          until # Never /\ until <= deadline
    /\ op = "create" /\ pc \in {"rpc", "backoff"} /\ retryDeadline # Never =>
          until # Never /\ until <= retryDeadline

\* A capture whose archive is ready in time and whose RPCs answer promptly sees
\* it: every observation that does not show it began before the archive was due.
SlackInv ==
    /\ op = "capture" /\ deadline # Never => archiveBy # Never /\ deadline = archiveBy + Slack
    /\ readyBy => record = "ready"
    /\ op = "capture" /\ (polling \/ (pc = "rpc" /\ sight # "unserved")) => record # "none"
    /\ op = "capture" /\ polling /\ pc = "rpc" => sight # "served"
    /\ sent <= now
    /\ op = "capture" /\ pc = "rpc" /\ ~polling /\ ~missed => sent <= archiveBy
    /\ op = "capture" /\ pc = "rpc" /\ sight = "creating" /\ readyBy => sent <= archiveBy
    /\ pc = "interval" => until <= now + MaxInterval
    /\ pc = "interval" /\ readyBy /\ ~missed => until <= archiveBy + Prompt + MaxInterval
    /\ pc = "backoff" => missed
    /\ op = "capture" /\ readyBy /\ ~missed => outcome # "timeout"

ClockInv == ClockTypeOK /\ KindInv /\ TimeInv /\ SlackInv

USE DEF Never

LEMMA Constants ==
    /\ Late \in Nat /\ Prompt \in Nat /\ Slack \in Nat /\ PollBudget \in Nat
    /\ MaxInterval \in Nat \ {0} /\ MinRpc \in Nat \ {0} /\ RpcTimeout \in Nat \ {0}
    /\ PollBudget > 0
    /\ Slack > MaxInterval + Late + 2 * Prompt
    /\ \A t \in Timeouts : t \in Nat /\ t > 0
    /\ \A b \in Budgets : b \in Nat
    /\ \A h \in Hints : h \in Nat /\ h > 0
BY ControlAssumption


LEMMA EarlierBound ==
    ASSUME NEW a \in Nat, NEW b \in Nat \cup {Never}
    PROVE  /\ Earlier(a, b) \in {a, b} /\ Earlier(a, b) \in Nat
           /\ Earlier(a, b) <= a /\ (b # Never => Earlier(a, b) <= b)
<1>1. b # Never => Min({a, b}) \in {a, b} /\ Min({a, b}) <= a /\ Min({a, b}) <= b
  BY MinOfTwo
<1> QED BY <1>1 DEF Earlier

\* The timer of a capture's RPC, sent before the deadline, ends by then.
LEMMA FirstBound ==
    ASSUME ClockTypeOK, op = "capture", NEW polls \in BOOLEAN, NEW ends \in Nat, now <= ends
    PROVE  /\ FirstAttempt(polls, ends) \in Nat
           /\ now <= FirstAttempt(polls, ends) /\ FirstAttempt(polls, ends) <= ends
<1>1. /\ now \in Nat /\ budget \in Nat /\ now + RpcTimeout \in Nat /\ now + budget \in Nat
      /\ now <= now + RpcTimeout /\ now <= now + budget
  BY Constants DEF ClockTypeOK
<1>2. /\ Min({ends, now + RpcTimeout}) \in {ends, now + RpcTimeout}
      /\ Min({ends, now + RpcTimeout}) <= ends
  <2>1. ends \in Int /\ now + RpcTimeout \in Int
    BY <1>1
  <2> QED BY <2>1, MinOfTwo, Zenon
<1>3. /\ Min({ends, now + RpcTimeout, now + budget}) \in {ends, now + RpcTimeout, now + budget}
      /\ Min({ends, now + RpcTimeout, now + budget}) <= ends
  <2>1. ends \in Int /\ now + RpcTimeout \in Int /\ now + budget \in Int
    BY <1>1
  <2> QED BY <2>1, MinOfThree, Zenon
<1>4. FirstAttempt(polls, ends) \in {Min({ends, now + RpcTimeout}),
                                      Min({ends, now + RpcTimeout, now + budget})}
  <2>1. CASE polls
    BY <2>1 DEF FirstAttempt
  <2>2. CASE ~polls /\ budget = 0
    BY <2>2 DEF FirstAttempt
  <2>3. CASE ~polls /\ budget > 0
    BY <2>3 DEF FirstAttempt
  <2> QED BY <1>1, <2>1, <2>2, <2>3
<1> QED BY <1>1, <1>2, <1>3, <1>4

\* A repeated RPC ends by the deadline, and in create() within the budget.
LEMMA NextBound ==
    ASSUME ClockInv, pc = "backoff",
           ~(retryDeadline - now < IF op = "create" THEN 1 ELSE MinRpc)
    PROVE  /\ NextAttempt \in Nat /\ now <= NextAttempt
           /\ deadline # Never => NextAttempt <= deadline
           /\ op = "create" => NextAttempt <= retryDeadline
<1>1. /\ now \in Nat /\ retryDeadline \in Nat /\ deadline \in Nat \cup {Never}
      /\ deadline # Never => retryDeadline <= deadline
      /\ now < retryDeadline
  BY Constants DEF ClockInv, ClockTypeOK, KindInv, TimeInv
<1>2. CASE op = "create"
  BY <1>1, <1>2 DEF NextAttempt
<1>3. CASE op = "capture"
  <2>1. /\ Min({retryDeadline, now + RpcTimeout}) \in {retryDeadline, now + RpcTimeout}
        /\ Min({retryDeadline, now + RpcTimeout}) <= retryDeadline
    BY <1>1, Constants, MinOfTwo
  <2>2. NextAttempt = Min({retryDeadline, now + RpcTimeout})
    BY <1>3 DEF NextAttempt
  <2> QED BY <1>1, <1>3, <2>1, <2>2, Constants
<1>4. CASE op = "inspect"
  <2>1. timeout \in Nat /\ deadline = Never
    BY <1>4, Constants DEF ClockInv, ClockTypeOK, KindInv
  <2> QED BY <1>1, <1>4, <2>1 DEF NextAttempt
<1>5. CASE Listing
  <2>1. deadline \in Nat
    BY <1>1, <1>5 DEF ClockInv, KindInv
  <2>2. NextAttempt = deadline
    BY <1>5 DEF NextAttempt, Listing
  <2> QED BY <1>1, <1>5, <2>1, <2>2 DEF Listing
<1> QED BY <1>2, <1>3, <1>4, <1>5 DEF ClockInv, ClockTypeOK, Listing

LEMMA ClockInit == ControlInit => ClockInv
<1> SUFFICES ASSUME ControlInit PROVE ClockInv
  OBVIOUS
<1>1. timeout \in Nat \cup {Never} /\ (op # "create" => timeout # Never)
  BY Constants DEF ControlInit
<1>2. ClockTypeOK
  <2>1. budget \in Budgets \cup {0}
    BY DEF ControlInit
  <2>2. timeout \in Timeouts \cup {Never}
    BY DEF ControlInit
  <2>3. /\ attempt \in Nat /\ until \in Nat \cup {Never} /\ deadline \in Nat \cup {Never}
        /\ pc \in {"wait", "rpc"}
    BY <1>1 DEF ControlInit
  <2> QED BY <2>1, <2>2, <2>3 DEF ControlInit, ClockTypeOK
<1>3. KindInv
  BY <1>1 DEF ControlInit, KindInv, Listing, Settled
<1>4. TimeInv
  BY <1>1, Constants DEF ControlInit, TimeInv
<1>5. SlackInv
  BY DEF ControlInit, SlackInv
<1> QED BY <1>2, <1>3, <1>4, <1>5 DEF ClockInv

----------------------------------------------------------------------------
(* Each step keeps it.                                                      *)

LEMMA TickClock == ASSUME ClockInv, Tick PROVE ClockInv'
<1> USE DEF ClockInv, Tick, callVars, retryVars, serverVars, pageVars
<1>1. now \in Nat /\ now' = now + 1 /\ now' \in Nat /\ now <= now'
  BY DEF ClockTypeOK
<1>2. ClockTypeOK'
  BY <1>1 DEF ClockTypeOK
<1>3. KindInv'
  BY DEF KindInv, Listing, Settled
<1>4. TimeInv'
  BY <1>1, Constants DEF TimeInv, ClockTypeOK
<1>5. SlackInv'
  BY <1>1, Constants DEF SlackInv, ClockTypeOK
<1> QED BY <1>2, <1>3, <1>4, <1>5

\* A call that settles, in a way that does not deny an archive in time.
LEMMA SettleClock ==
    ASSUME ClockInv, NEW how \in {"resolved", "failed", "timeout", "aborted", "loop", "pages", "left"},
           Settle(how),
           UNCHANGED <<op, timeout, budget, now, deadline, record, archiveBy, readyBy>>,
           retryDeadline' \in {retryDeadline, Never},
           missed' \in BOOLEAN, missed => missed',
           polling' \in BOOLEAN, op = "capture" /\ polling' => record # "none",
           op = "capture" /\ readyBy /\ ~missed' => how # "timeout"
    PROVE  ClockInv'
<1> USE DEF ClockInv, Settle
<1>1. ClockTypeOK'
  BY DEF ClockTypeOK
<1>2. KindInv'
  BY DEF KindInv, Listing, Settled
<1>3. TimeInv'
  BY DEF TimeInv, ClockTypeOK
<1>4. SlackInv'
  BY DEF SlackInv
<1> QED BY <1>1, <1>2, <1>3, <1>4

\* An RPC that is sent leaves the types alone.
LEMMA SendTypes ==
    ASSUME ClockTypeOK, NEW ends \in Nat \cup {Never}, Send(ends),
           UNCHANGED <<op, timeout, budget, now, outcome, record, readyBy>>,
           {deadline', retryDeadline', archiveBy'} \subseteq Nat \cup {Never},
           missed' \in BOOLEAN, polling' \in BOOLEAN
    PROVE  ClockTypeOK'
BY DEF ClockTypeOK, Send

\* Within a capture that runs, an observation still in time leaves time.
LEMMA SlackBound ==
    ASSUME ClockInv, op = "capture", deadline # Never
    PROVE  /\ archiveBy \in Nat /\ deadline \in Nat
           /\ archiveBy + Prompt < deadline
           /\ archiveBy + Prompt + MaxInterval + Late < deadline
BY Constants DEF ClockInv, ClockTypeOK, SlackInv

LEMMA WakeClock == ASSUME ClockInv, Wake PROVE ClockInv'
<1>1. /\ pc = "backoff" /\ UNCHANGED <<op, timeout, budget, polling, now, deadline, retryDeadline,
                                      record, archiveBy, readyBy, missed>>
  BY DEF Wake, callVars, serverVars
<1>2. missed /\ polling \in BOOLEAN /\ (op = "capture" /\ polling => record # "none")
  BY <1>1 DEF ClockInv, SlackInv, ClockTypeOK
<1>3. CASE Rejects
  <2>1. PICK how \in {"failed", "timeout"} : Settle(how)
    BY <1>3 DEF Rejects
  <2> QED BY <1>1, <1>2, <2>1, SettleClock DEF ClockInv, ClockTypeOK
<1>4. CASE Send(NextAttempt) /\ UNCHANGED outcome
          /\ ~(retryDeadline - now < IF op = "create" THEN 1 ELSE MinRpc)
  <2>1. /\ NextAttempt \in Nat /\ now <= NextAttempt
        /\ deadline # Never => NextAttempt <= deadline
        /\ op = "create" => NextAttempt <= retryDeadline
    BY <1>1, <1>4, NextBound
  <2> USE DEF ClockInv
  <2>2. pc' = "rpc" /\ sight' = "unserved" /\ until' = NextAttempt /\ sent' = now
        /\ attempt' = attempt + 1 /\ outcome' = outcome
    BY <1>4 DEF Send
  <2>3. ClockTypeOK'
    BY <1>1, <2>1, <2>2 DEF ClockTypeOK
  <2>4. KindInv'
    BY <1>1, <2>2 DEF KindInv, Listing, Settled
  <2>5. TimeInv'
    BY <1>1, <2>1, <2>2 DEF TimeInv, ClockTypeOK
  <2>6. SlackInv'
    BY <1>1, <1>2, <2>2 DEF SlackInv, ClockTypeOK
  <2> QED BY <2>3, <2>4, <2>5, <2>6
<1> QED BY <1>3, <1>4 DEF Wake

\* A poll of the snapshot, started where the archive could still be missed.
LEMMA PollClock ==
    ASSUME ClockInv, Poll, op = "capture", deadline # Never, ~Settled,
           UNCHANGED <<op, timeout, budget, now, deadline, record, archiveBy, readyBy>>,
           missed' \in BOOLEAN, missed => missed',
           polling' = TRUE, record # "none",
           readyBy /\ ~missed' => now < deadline
    PROVE  ClockInv'
<1>1. CASE now >= deadline
  <2>1. Settle("timeout") /\ retryDeadline' = Never
    BY <1>1 DEF Poll
  <2>2. readyBy /\ ~missed' => FALSE
    BY <1>1 DEF ClockInv, ClockTypeOK
  <2> QED BY <2>1, <2>2, SettleClock
<1>2. CASE ~(now >= deadline)
  <2>1. /\ pc' = "rpc" /\ sight' = "unserved" /\ until' = FirstAttempt(TRUE, deadline)
        /\ sent' = now /\ attempt' = attempt + 1 /\ outcome' = outcome /\ retryDeadline' = Never
    BY <1>2 DEF Poll, Send
  <2>2. deadline \in Nat /\ now \in Nat /\ now <= deadline /\ ClockTypeOK
    BY <1>2 DEF ClockInv, ClockTypeOK
  <2>3. /\ until' \in Nat /\ now <= until' /\ until' <= deadline
    BY <2>1, <2>2, FirstBound
  <2> USE DEF ClockInv
  <2>4. ClockTypeOK'
    <3>1. Send(until') /\ outcome' = outcome
      BY <2>1 DEF Send
    <3>2. {deadline', retryDeadline', archiveBy'} \subseteq Nat \cup {Never}
      BY <2>1 DEF ClockTypeOK
    <3>3. missed' \in BOOLEAN /\ polling' \in BOOLEAN
      OBVIOUS
    <3> QED BY <2>2, <2>3, <3>1, <3>2, <3>3, SendTypes
  <2>5. KindInv'
    BY <2>1 DEF KindInv, Listing, Settled
  <2>6. TimeInv'
    <3>1. retryDeadline' = Never /\ pc' = "rpc" /\ op # "create" /\ now' = now
      BY <2>1
    <3> QED BY <2>2, <2>3, <3>1 DEF TimeInv
  <2>7. SlackInv'
    BY <2>1, <2>2 DEF SlackInv
  <2> QED BY <2>4, <2>5, <2>6, <2>7
<1> QED BY <1>1, <1>2

LEMMA IntervalClock == ASSUME ClockInv, IntervalEnds PROVE ClockInv'
<1>1. /\ pc = "interval" /\ Poll
      /\ UNCHANGED <<op, timeout, budget, polling, now, deadline, record, archiveBy, readyBy, missed>>
  BY DEF IntervalEnds, callVars, serverVars
<1>2. op = "capture" /\ polling /\ deadline # Never /\ record # "none" /\ ~Settled
  BY <1>1 DEF ClockInv, KindInv, SlackInv, Settled
<1>3. readyBy /\ ~missed => now < deadline
  <2>1. /\ until \in Nat /\ now \in Nat /\ now <= until + Late
        /\ readyBy /\ ~missed => until <= archiveBy + Prompt + MaxInterval
    BY <1>1 DEF ClockInv, ClockTypeOK, TimeInv, SlackInv
  <2> QED BY <1>2, <2>1, SlackBound, Constants
<1> QED BY <1>1, <1>2, <1>3, PollClock DEF ClockInv, ClockTypeOK

LEMMA WaitEndsClock == ASSUME ClockInv, WaitEnds PROVE ClockInv'
<1>1. /\ pc = "wait" /\ op = "capture" /\ deadline = Never /\ retryDeadline = Never
      /\ UNCHANGED <<op, timeout, budget, polling, now, retryDeadline, record, readyBy, missed>>
  BY DEF WaitEnds, callVars, ClockInv, KindInv
<1>2. missed \in BOOLEAN /\ polling \in BOOLEAN /\ (polling => record # "none")
  BY <1>1 DEF ClockInv, ClockTypeOK, SlackInv
<1>3. CASE Settle("failed") /\ UNCHANGED <<deadline, archiveBy>>
  BY <1>1, <1>2, <1>3, SettleClock
<1>4. CASE /\ deadline' = CaptureEnds /\ archiveBy' = now + timeout
           /\ Send(FirstAttempt(FALSE, CaptureEnds)) /\ UNCHANGED outcome
  <2>1. ClockTypeOK /\ timeout \in Nat /\ now \in Nat /\ attempt \in Nat
    BY <1>1, Constants DEF ClockInv, ClockTypeOK, KindInv
  <2>2. /\ CaptureEnds \in Nat /\ now <= CaptureEnds
        /\ archiveBy' \in Nat /\ now <= archiveBy' /\ CaptureEnds = archiveBy' + Slack
    BY <1>4, <2>1, Constants DEF CaptureEnds
  <2>3. /\ pc' = "rpc" /\ sight' = "unserved" /\ until' = FirstAttempt(FALSE, CaptureEnds)
        /\ sent' = now /\ attempt' = attempt + 1 /\ outcome' = outcome
    BY <1>4 DEF Send
  <2>4. until' \in Nat /\ now <= until' /\ until' <= CaptureEnds
    BY <1>1, <2>1, <2>2, <2>3, FirstBound
  <2> USE DEF ClockInv
  <2>5. ClockTypeOK'
    <3>1. Send(until') /\ outcome' = outcome
      BY <1>4, <2>3
    <3>2. {deadline', retryDeadline', archiveBy'} \subseteq Nat \cup {Never}
      BY <1>1, <1>4, <2>2 DEF ClockTypeOK
    <3>3. missed' \in BOOLEAN /\ polling' \in BOOLEAN
      BY <1>1, <1>2
    <3> QED BY <1>1, <2>1, <2>4, <3>1, <3>2, <3>3, SendTypes
  <2>6. KindInv'
    BY <1>1, <1>4, <2>2, <2>3 DEF KindInv, Listing, Settled
  <2>7. TimeInv'
    <3>1. /\ retryDeadline' = Never /\ pc' = "rpc" /\ op' # "create" /\ now' = now
          /\ deadline' = CaptureEnds
      BY <1>1, <1>4, <2>3
    <3> QED BY <2>2, <2>4, <3>1 DEF TimeInv
  <2>8. SlackInv'
    <3>1. /\ op' = "capture" /\ deadline' = archiveBy' + Slack /\ sent' <= archiveBy'
          /\ sent' <= now' /\ archiveBy' # Never
      BY <1>1, <1>4, <2>1, <2>2, <2>3
    <3> QED BY <1>1, <1>2, <2>3, <3>1 DEF SlackInv
  <2> QED BY <2>5, <2>6, <2>7, <2>8
<1> QED BY <1>3, <1>4 DEF WaitEnds

LEMMA AbortClock == ASSUME ClockInv, Abort PROVE ClockInv'
<1>1. /\ Settle("aborted")
      /\ UNCHANGED <<op, timeout, budget, now, deadline, record, archiveBy, readyBy>>
      /\ UNCHANGED <<retryDeadline, missed, polling>>
  BY DEF Abort, callVars, serverVars
<1>2. missed \in BOOLEAN /\ polling \in BOOLEAN /\ (op = "capture" /\ polling => record # "none")
  BY DEF ClockInv, ClockTypeOK, SlackInv
<1> QED BY <1>1, <1>2, SettleClock

LEMMA ServeClock == ASSUME ClockInv, Serve PROVE ClockInv'
<1>1. /\ pc = "rpc" /\ sight = "unserved"
      /\ UNCHANGED <<op, timeout, budget, pc, polling, outcome, now, deadline, retryDeadline, until,
                     sent, attempt, archiveBy, readyBy, missed>>
  BY DEF Serve, callVars, retryVars
<1>2. \/ op = "create" /\ record' = record /\ sight' = "served"
      \/ /\ op = "capture" /\ ~polling /\ sight' = "served"
         /\ record' = IF record = "none" THEN "creating" ELSE record
      \/ op = "capture" /\ polling /\ sight' = record /\ record' = record
      \/ op # "create" /\ op # "capture" /\ sight' = "served" /\ record' = record
  BY DEF Serve
<1> USE DEF ClockInv
<1>3. op = "capture" /\ polling => record # "none"
  BY DEF SlackInv
<1>4. ClockTypeOK'
  BY <1>1, <1>2, <1>3 DEF ClockTypeOK
<1>5. KindInv'
  BY <1>1 DEF KindInv, Listing, Settled
<1>6. TimeInv'
  BY <1>1 DEF TimeInv
<1>7. SlackInv'
  <2>1. readyBy => record = "ready" /\ record' = "ready"
    BY <1>2 DEF SlackInv
  <2>2. op = "capture" /\ sight' = "creating" => ~readyBy
    BY <1>2, <2>1
  <2>3. op = "capture" => record' # "none"
    BY <1>2, <1>3
  <2>4. op = "capture" /\ polling => sight' # "served"
    BY <1>2 DEF ClockTypeOK
  <2> QED BY <1>1, <2>1, <2>2, <2>3, <2>4 DEF SlackInv
<1> QED BY <1>4, <1>5, <1>6, <1>7

\* The archive ends: what was seen or is slept for lies before its own time.
LEMMA ArchiveClock == ASSUME ClockInv, Archive PROVE ClockInv'
<1>1. /\ record = "creating" /\ ~Settled /\ record' \in {"ready", "failed"}
      /\ readyBy' = (record' = "ready" /\ now <= archiveBy)
      /\ UNCHANGED <<op, timeout, budget, pc, polling, outcome, now, deadline, retryDeadline, until,
                     sent, attempt, archiveBy, missed, sight>>
  BY DEF Archive, callVars, retryVars
<1> USE DEF ClockInv
<1>2. ClockTypeOK'
  <2>1. readyBy' \in BOOLEAN
    BY <1>1
  <2> QED BY <1>1, <2>1 DEF ClockTypeOK
<1>3. KindInv'
  BY <1>1 DEF KindInv, Listing, Settled
<1>4. TimeInv'
  BY <1>1 DEF TimeInv
<1>5. SlackInv'
  <2>1. readyBy' => record' = "ready" /\ now <= archiveBy
    BY <1>1
  <2>2. now \in Nat /\ sent \in Nat /\ archiveBy \in Nat \cup {Never} /\ until \in Nat \cup {Never}
    BY DEF ClockTypeOK
  <2>3. outcome = "none"
    BY <1>1 DEF KindInv
  <2>4. readyBy' => sent <= archiveBy
    BY <2>1, <2>2 DEF SlackInv
  <2>5. readyBy' /\ pc = "interval" => until <= archiveBy + Prompt + MaxInterval
    BY <2>1, <2>2, Constants DEF SlackInv
  <2> QED BY <1>1, <2>1, <2>3, <2>4, <2>5 DEF SlackInv
<1> QED BY <1>2, <1>3, <1>4, <1>5

\* An RPC that fails: at the end of the retries it reaches the caller.
LEMMA RpcFailsClock == ASSUME ClockInv, NEW error, RpcFails(error) PROVE ClockInv'
<1>1. /\ pc = "rpc" /\ missed' = TRUE
      /\ UNCHANGED <<op, timeout, budget, polling, now, deadline, record, archiveBy, readyBy>>
  BY DEF RpcFails, callVars, serverVars
<1>2. polling \in BOOLEAN /\ (op = "capture" /\ polling => record # "none")
  BY DEF ClockInv, ClockTypeOK, SlackInv
<1>3. CASE Rejects /\ UNCHANGED retryDeadline
  <2>1. PICK how \in {"failed", "timeout"} : Settle(how)
    BY <1>3 DEF Rejects
  <2> QED BY <1>1, <1>2, <1>3, <2>1, SettleClock
<1>4. CASE Repeatable(error) /\ ~(now >= RetryEnds) /\ Backoff
  <2>1. PICK delay \in 1..MaxInterval \cup Hints :
            SleepUntil("backoff", Min({now + delay, RetryEnds}))
    BY <1>4 DEF Backoff
  <2>2. op # "iterate" /\ retryDeadline' = RetryEnds
    BY <1>4 DEF Repeatable, Backoff
  <2>3. now \in Nat /\ delay \in Nat /\ now + delay \in Nat /\ now <= now + delay /\ RetryBudget \in Nat
    BY Constants DEF ClockInv, ClockTypeOK, RetryBudget
  <2>4. /\ RetryEnds \in Nat /\ now < RetryEnds
        /\ deadline # Never => RetryEnds <= deadline
    <3>1. retryDeadline \in Nat \cup {Never} /\ deadline \in Nat \cup {Never}
      BY DEF ClockInv, ClockTypeOK
    <3>2. CASE retryDeadline # Never
      BY <1>4, <2>3, <3>1, <3>2 DEF RetryEnds, ClockInv, TimeInv
    <3>3. CASE retryDeadline = Never
      <4>1. RetryEnds = Earlier(now + RetryBudget, deadline) /\ now + RetryBudget \in Nat
        BY <2>3, <3>3 DEF RetryEnds
      <4>2. /\ RetryEnds \in Nat
            /\ deadline # Never => RetryEnds <= deadline
        BY <3>1, <4>1, EarlierBound, Zenon
      <4> QED BY <1>4, <2>3, <4>2
    <3> QED BY <3>2, <3>3
  <2>5. /\ Min({now + delay, RetryEnds}) \in {now + delay, RetryEnds}
        /\ Min({now + delay, RetryEnds}) <= RetryEnds
    <3>1. now + delay \in Int /\ RetryEnds \in Int
      BY <2>3, <2>4
    <3> QED BY <3>1, MinOfTwo, Zenon
  <2>6. /\ pc' = "backoff" /\ until' \in Nat /\ until' <= RetryEnds /\ now <= until'
        /\ now' <= until' + Late /\ UNCHANGED <<sent, attempt, sight, outcome>>
    BY <1>1, <2>1, <2>3, <2>4, <2>5, Constants DEF SleepUntil
  <2> USE DEF ClockInv
  <2>7. ClockTypeOK'
    BY <1>1, <2>2, <2>4, <2>6 DEF ClockTypeOK
  <2>8. KindInv'
    BY <1>1, <2>2, <2>4, <2>6 DEF KindInv, Listing, Settled
  <2>9. TimeInv'
    <3>1. deadline # Never => deadline \in Nat /\ until' <= deadline
      BY <2>4, <2>6 DEF ClockTypeOK
    <3> QED BY <1>1, <2>2, <2>4, <2>6, <3>1 DEF TimeInv
  <2>10. SlackInv'
    BY <1>1, <1>2, <2>6 DEF SlackInv
  <2> QED BY <2>7, <2>8, <2>9, <2>10
<1> QED BY <1>3, <1>4 DEF RpcFails, Backoff

\* After a page of a listing: the next page is asked for before the deadline.
LEMMA AfterPageClock ==
    ASSUME ClockInv, NEW count \in Nat, NEW named, AfterPage(count, named), Listing, ~Settled,
           UNCHANGED <<op, timeout, budget, polling, now, deadline, record, archiveBy, readyBy>>,
           missed' \in BOOLEAN, missed => missed'
    PROVE  ClockInv'
<1>1. retryDeadline' = Never
  BY DEF AfterPage
<1>2. op # "capture" /\ op # "create" /\ deadline \in Nat /\ now \in Nat /\ MaxPages \in Nat
  BY ControlAssumption DEF Listing, ClockInv, ClockTypeOK, KindInv
<1>3. polling' \in BOOLEAN
  BY DEF ClockInv, ClockTypeOK
<1>4. CASE \E how \in {"resolved", "loop", "pages", "timeout"} : Settle(how)
  <2>1. PICK how \in {"resolved", "loop", "pages", "timeout"} : Settle(how)
    BY <1>4
  <2> QED BY <1>1, <1>2, <1>3, <2>1, SettleClock
<1>5. CASE now < deadline /\ Send(deadline) /\ outcome' = outcome
  <2> USE DEF ClockInv
  <2>1. ClockTypeOK'
    <3>1. {deadline', retryDeadline', archiveBy'} \subseteq Nat \cup {Never}
      BY <1>1 DEF ClockTypeOK
    <3> QED BY <1>2, <1>3, <1>5, <3>1, SendTypes
  <2>2. pc' = "rpc" /\ until' = deadline /\ sent' = now
    BY <1>5 DEF Send
  <2>3. KindInv'
    BY <1>2, <1>5, <2>2 DEF KindInv, Listing, Settled
  <2>4. TimeInv'
    BY <1>1, <1>2, <1>5, <2>2 DEF TimeInv
  <2>5. SlackInv'
    BY <1>2, <1>5, <2>2 DEF SlackInv
  <2> QED BY <2>1, <2>3, <2>4, <2>5
<1>6. \/ \E how \in {"resolved", "loop", "pages", "timeout"} : Settle(how)
      \/ now < deadline /\ Send(deadline) /\ outcome' = outcome
  <2>1. CASE named = "end"
    BY <2>1 DEF AfterPage
  <2>2. CASE named # "end" /\ named \in seenTokens
    BY <2>2 DEF AfterPage
  <2>3. CASE named \notin seenTokens \cup {"end"} /\ count >= MaxPages
    BY <2>3 DEF AfterPage
  <2>4. CASE named \notin seenTokens \cup {"end"} /\ count < MaxPages /\ now >= deadline
    BY <1>2, <2>4 DEF AfterPage
  <2>5. CASE named \notin seenTokens \cup {"end"} /\ count < MaxPages /\ now < deadline
    BY <1>2, <2>5 DEF AfterPage
  <2> QED BY <1>2, <2>1, <2>2, <2>3, <2>4, <2>5
<1> QED BY <1>4, <1>5, <1>6

LEMMA ResumeClock == ASSUME ClockInv, pages \in Seq(Pages), Resume PROVE ClockInv'
<1>1. /\ pc = "yield" /\ ~Settled
      /\ UNCHANGED <<op, timeout, budget, polling, now, deadline, record, archiveBy, readyBy, missed>>
  BY DEF Resume, callVars, serverVars, Settled
<1>2. Listing /\ op # "capture" /\ Len(pages) \in Nat
  BY <1>1, LenProperties DEF ClockInv, KindInv, Listing
<1>3. polling \in BOOLEAN /\ missed \in BOOLEAN
  BY DEF ClockInv, ClockTypeOK
<1>4. CASE AfterPage(Len(pages), next[token])
  BY <1>1, <1>2, <1>3, <1>4, AfterPageClock
<1>5. CASE (Settle("aborted") \/ Settle("left")) /\ retryDeadline' = retryDeadline
  BY <1>1, <1>2, <1>3, <1>5, SettleClock
<1> QED BY <1>4, <1>5 DEF Resume

\* A poll that saw the snapshot unfinished: the interval to the next one.
LEMMA SeenClock ==
    ASSUME ClockInv, CaptureSeen, pc = "rpc", sight # "unserved",
           UNCHANGED <<op, timeout, budget, now, deadline, record, archiveBy, readyBy>>,
           missed' = (missed \/ now > sent + Prompt)
    PROVE  ClockInv'
<1>1. op = "capture" /\ polling /\ polling' = polling /\ retryDeadline' = retryDeadline
  BY DEF CaptureSeen
<1>2. /\ now \in Nat /\ sent \in Nat /\ sent <= now /\ deadline \in Nat /\ record # "none"
      /\ polling \in BOOLEAN /\ missed \in BOOLEAN
  BY <1>1 DEF ClockInv, ClockTypeOK, KindInv, SlackInv
<1>3. missed' \in BOOLEAN /\ (missed => missed')
  OBVIOUS
<1>4. ~missed' => now <= sent + Prompt
  <2>1. ~missed' => ~(now > sent + Prompt)
    OBVIOUS
  <2> QED BY <1>2, <2>1, Constants
<1>5. readyBy /\ sight = "creating" => sent <= archiveBy
  BY <1>1 DEF ClockInv, SlackInv
<1>6. CASE sight = "ready"
  <2>1. Settle("resolved")
    BY <1>6 DEF CaptureSeen, Settle
  <2> QED BY <1>1, <1>2, <1>3, <2>1, SettleClock
<1>7. CASE sight = "failed"
  <2>1. Settle("failed")
    BY <1>7 DEF CaptureSeen, Settle
  <2> QED BY <1>1, <1>2, <1>3, <2>1, SettleClock
<1>8. CASE sight = "creating" /\ now >= deadline
  <2>1. Settle("timeout")
    BY <1>8 DEF CaptureSeen
  <2>2. readyBy /\ ~missed' => FALSE
    BY <1>1, <1>2, <1>4, <1>5, <1>8, SlackBound, Constants
  <2> QED BY <1>1, <1>2, <1>3, <2>1, <2>2, SettleClock
<1>9. CASE sight = "creating" /\ now < deadline
  <2>1. PICK interval \in 1..MaxInterval :
            SleepUntil("interval", Min({now + interval, deadline}))
    BY <1>2, <1>9 DEF CaptureSeen
  <2>2. interval \in Nat /\ interval <= MaxInterval /\ now + interval \in Int /\ deadline \in Int
    BY <1>2, Constants
  <2>3. /\ Min({now + interval, deadline}) \in {now + interval, deadline}
        /\ Min({now + interval, deadline}) <= now + interval
        /\ Min({now + interval, deadline}) <= deadline
    BY <2>2, MinOfTwo, Zenon
  <2>4. /\ pc' = "interval" /\ until' \in Nat /\ now <= until' /\ until' <= now + MaxInterval
        /\ until' <= deadline /\ now' <= until' + Late
        /\ UNCHANGED <<sent, attempt, sight, outcome>>
    BY <1>2, <1>9, <2>1, <2>2, <2>3, Constants DEF SleepUntil
  <2> USE DEF ClockInv
  <2>5. ClockTypeOK'
    BY <1>1, <1>3, <2>4 DEF ClockTypeOK
  <2>6. KindInv'
    BY <1>1, <2>4 DEF KindInv, Listing, Settled
  <2>7. TimeInv'
    BY <1>1, <1>2, <2>4 DEF TimeInv
  <2>8. SlackInv'
    <3>1. readyBy /\ ~missed' => until' <= archiveBy + Prompt + MaxInterval
      <4>1. ASSUME readyBy, ~missed'
            PROVE  until' <= archiveBy + Prompt + MaxInterval
        <5>1. now <= sent + Prompt /\ sent <= archiveBy /\ archiveBy \in Nat
          BY <1>1, <1>2, <1>4, <1>5, <1>9, <4>1, SlackBound
        <5> QED BY <1>2, <2>4, <5>1, Constants
      <4> QED BY <4>1
    <3>2. readyBy' /\ ~missed' => outcome' # "timeout"
      BY <1>1, <1>3, <2>4 DEF SlackInv
    <3> QED BY <1>1, <1>2, <2>4, <3>1, <3>2 DEF SlackInv
  <2> QED BY <2>5, <2>6, <2>7, <2>8
<1>10. sight \in {"ready", "failed", "creating"}
  BY <1>1 DEF ClockInv, ClockTypeOK, SlackInv
<1> QED BY <1>2, <1>6, <1>7, <1>8, <1>9, <1>10

\* A snapshot is accepted: its first poll.
LEMMA AcceptedClock ==
    ASSUME ClockInv, CaptureAccepted, pc = "rpc", sight # "unserved",
           UNCHANGED <<op, timeout, budget, now, deadline, record, archiveBy, readyBy>>,
           missed' = (missed \/ now > sent + Prompt)
    PROVE  ClockInv'
<1>1. op = "capture" /\ ~polling /\ polling' = TRUE /\ Poll
  BY DEF CaptureAccepted
<1>2. /\ now \in Nat /\ sent \in Nat /\ deadline \in Nat /\ record # "none" /\ ~Settled
      /\ missed \in BOOLEAN
  BY <1>1 DEF ClockInv, ClockTypeOK, KindInv, SlackInv, Settled
<1>3. missed' \in BOOLEAN /\ (missed => missed') /\ (~missed' => ~(now > sent + Prompt))
  OBVIOUS
<1>4. ~missed => sent <= archiveBy
  BY <1>1 DEF ClockInv, SlackInv
<1>5. ~missed' => now < deadline
  BY <1>1, <1>2, <1>3, <1>4, SlackBound, Constants
<1> QED BY <1>1, <1>2, <1>3, <1>5, PollClock

LEMMA AnswerClock == ASSUME ClockInv, pages \in Seq(Pages), Answer PROVE ClockInv'
<1>1. /\ pc = "rpc" /\ sight # "unserved" /\ missed' = (missed \/ now > sent + Prompt) /\ ~Settled
      /\ UNCHANGED <<op, timeout, budget, now, deadline, record, archiveBy, readyBy>>
  BY DEF Answer, callVars, Settled
<1>2. missed \in BOOLEAN /\ polling \in BOOLEAN
  BY DEF ClockInv, ClockTypeOK
<1>3. missed' \in BOOLEAN /\ (missed => missed')
  BY <1>1, <1>2
<1>4. CASE AnswerResolves
  <2>1. /\ Settle("resolved") /\ op # "capture" /\ retryDeadline' = retryDeadline
        /\ polling' = polling
    BY <1>4 DEF AnswerResolves
  <2> QED BY <1>1, <1>2, <1>3, <2>1, SettleClock
<1>5. CASE CaptureAccepted
  BY <1>1, <1>5, AcceptedClock
<1>6. CASE CaptureSeen
  BY <1>1, <1>6, SeenClock
<1>7. CASE PageArrives
  <2>1. Listing /\ polling' = polling /\ Len(pages) + 1 \in Nat
    BY <1>7, LenProperties DEF PageArrives
  <2>2. CASE op = "collect"
    <3>1. PICK named : AfterPage(Len(pages) + 1, named)
      BY <1>7, <2>2 DEF PageArrives
    <3> QED BY <1>1, <1>2, <1>3, <2>1, <3>1, AfterPageClock
  <2>3. CASE op = "iterate"
    <3>1. /\ pc' = "yield" /\ until' = Never
          /\ UNCHANGED <<sent, attempt, sight, outcome, retryDeadline>>
      BY <1>7, <2>3 DEF PageArrives
    <3> USE DEF ClockInv
    <3>2. ClockTypeOK'
      BY <1>1, <1>3, <2>1, <3>1 DEF ClockTypeOK
    <3>3. KindInv'
      BY <1>1, <2>1, <2>3, <3>1 DEF KindInv, Listing, Settled
    <3>4. TimeInv'
      BY <1>1, <3>1 DEF TimeInv
    <3>5. SlackInv'
      BY <1>1, <2>3, <3>1 DEF SlackInv
    <3> QED BY <3>2, <3>3, <3>4, <3>5
  <2> QED BY <2>1, <2>2, <2>3 DEF Listing
<1> QED BY <1>4, <1>5, <1>6, <1>7 DEF Answer

LEMMA StillClock == ASSUME ClockInv, UNCHANGED controlVars PROVE ClockInv'
<1> USE DEF ClockInv, controlVars, callVars, retryVars, serverVars, pageVars
<1>1. ClockTypeOK'
  BY DEF ClockTypeOK
<1>2. KindInv'
  BY DEF KindInv, Listing, Settled
<1>3. TimeInv'
  BY DEF TimeInv
<1>4. SlackInv'
  BY DEF SlackInv
<1> QED BY <1>1, <1>2, <1>3, <1>4

LEMMA ClockNext ==
    ASSUME ClockInv, pages \in Seq(Pages), [ControlNext]_controlVars
    PROVE  ClockInv'
BY TickClock, WakeClock, IntervalClock, RpcFailsClock, ServeClock, ArchiveClock, AnswerClock,
   WaitEndsClock, ResumeClock, AbortClock, StillClock DEF ControlNext, Timer

LEMMA ClockBounds == ClockInv => WithinDeadline
<1> SUFFICES ASSUME ClockInv PROVE WithinDeadline
  OBVIOUS
<1> USE DEF ClockInv
<1>1. ASSUME ~Settled, pc # "yield"
      PROVE  /\ deadline # Never => now <= deadline + Late
             /\ op = "create" /\ retryDeadline # Never => now <= retryDeadline + Late
             /\ pc = "rpc" /\ deadline # Never => until <= deadline
  BY <1>1, Constants DEF ClockTypeOK, KindInv, TimeInv, Settled
<1>2. op = "capture" /\ readyBy /\ ~missed => outcome # "timeout"
  BY DEF SlackInv
<1> QED BY <1>1, <1>2 DEF WithinDeadline

----------------------------------------------------------------------------
(* Pages.                                                                   *)

\* The pages kept are distinct and each names the next.
Chained ==
    /\ \A i, j \in DOMAIN pages : pages[i] = pages[j] => i = j
    /\ \A i \in DOMAIN pages : i < Len(pages) => next[pages[i]] = pages[i + 1]

\* The page asked for is the one the last page kept names, and is new; a
\* token is kept as seen before the page it names is asked for.
PageInv ==
    /\ PageTypeOK
    /\ Chained
    /\ token \in seenTokens \cup {"first"}
    /\ \A i \in DOMAIN pages : pages[i] \in seenTokens \cup {"first"}
    /\ pc = "yield" => pages # <<>> /\ token = pages[Len(pages)] /\ next[token] # "unknown"
    /\ Listing /\ ~Settled /\ pc # "yield" =>
          /\ \A i \in DOMAIN pages : pages[i] # token
          /\ pages # <<>> => next[pages[Len(pages)]] = token
    /\ Listing /\ outcome = "resolved" => pages # <<>> /\ next[pages[Len(pages)]] = "end"

LEMMA TokenNames == Tokens \cap {"first", "end", "unknown"} = {} /\ Pages = Tokens \cup {"first"}
BY ControlAssumption DEF Pages

LEMMA PageInit == ControlInit => PageInv
<1> SUFFICES ASSUME ControlInit PROVE PageInv
  OBVIOUS
<1>1. pages = <<>> /\ DOMAIN pages = {} /\ pages \in Seq(Pages)
  BY DEF ControlInit
<1>2. PageTypeOK
  BY <1>1, TokenNames DEF ControlInit, PageTypeOK
<1> QED BY <1>1, <1>2 DEF ControlInit, PageInv, Chained

\* What follows a page just kept, or just handed over.
LEMMA AfterPagePages ==
    ASSUME NEW count, NEW named \in Tokens \cup {"end"}, AfterPage(count, named), PageInv,
           PageTypeOK, outcome = "none", op' = op,
           pages' \in Seq(Pages), next' \in [Pages -> Tokens \cup {"end", "unknown"}], Chained',
           \A i \in DOMAIN pages' : pages'[i] \in seenTokens \cup {"first"},
           pages' # <<>>, pages'[Len(pages')] = token, next'[token] = named
    PROVE  PageInv'
<1>1. CASE named \in seenTokens \cup {"end"}
  <2>1. token' = token /\ seenTokens' = seenTokens
    BY <1>1 DEF AfterPage
  <2>2. pc' = "done" /\ (outcome' = "resolved" => named = "end")
    <3>1. CASE named = "end"
      BY <3>1 DEF AfterPage, Settle
    <3>2. CASE named # "end"
      BY <1>1, <3>2 DEF AfterPage, Settle
    <3> QED BY <3>1, <3>2
  <2>3. PageTypeOK'
    BY <2>1 DEF PageTypeOK
  <2> QED BY <2>1, <2>2, <2>3 DEF PageInv, Settled
<1>2. CASE named \notin seenTokens \cup {"end"}
  <2>1. token' = named /\ seenTokens' = seenTokens \cup {named} /\ named \in Tokens
    BY <1>2 DEF AfterPage
  <2>2. PageTypeOK'
    BY <2>1, TokenNames DEF PageTypeOK
  <2>3. pc' # "yield" /\ outcome' # "resolved"
    BY <1>2 DEF AfterPage, Settle, Send
  <2>4. \A i \in DOMAIN pages' : pages'[i] # token'
    BY <1>2, <2>1, TokenNames
  <2> QED BY <2>1, <2>2, <2>3, <2>4 DEF PageInv
<1> QED BY <1>1, <1>2

LEMMA ResumePages == ASSUME PageInv, KindInv, Resume PROVE PageInv'
<1>1. pc = "yield" /\ op' = op /\ pages' = pages /\ next' = next /\ outcome = "none"
  BY DEF Resume, callVars, serverVars, KindInv, Settled
<1>2. PageTypeOK /\ next[token] \in Tokens \cup {"end"}
  BY <1>1 DEF PageInv, PageTypeOK
<1>3. CASE AfterPage(Len(pages), next[token])
  <2>1. /\ pages' \in Seq(Pages) /\ next' \in [Pages -> Tokens \cup {"end", "unknown"}]
        /\ Chained' /\ \A i \in DOMAIN pages' : pages'[i] \in seenTokens \cup {"first"}
    BY <1>1 DEF PageInv, PageTypeOK, Chained
  <2>2. pages' # <<>> /\ pages'[Len(pages')] = token /\ next'[token] = next[token]
    BY <1>1 DEF PageInv
  <2> QED BY <1>1, <1>2, <1>3, <2>1, <2>2, AfterPagePages
<1>4. CASE (Settle("aborted") \/ Settle("left")) /\ UNCHANGED <<token, seenTokens>>
  <2>1. pc' = "done" /\ outcome' # "resolved"
    BY <1>4 DEF Settle
  <2> QED BY <1>1, <1>4, <2>1 DEF PageInv, PageTypeOK, Chained, Settled
<1> QED BY <1>3, <1>4 DEF Resume

\* A page that arrives is new and follows the last one.
LEMMA ArrivalPages ==
    ASSUME PageInv, KindInv, PageArrives, pc = "rpc", op' = op
    PROVE  PageInv'
<1>1. PICK named \in Tokens \cup {"end"} :
          /\ next[token] \in {"unknown", named}
          /\ next' = [next EXCEPT ![token] = named]
          /\ IF op = "collect" THEN AfterPage(Len(pages) + 1, named)
             ELSE /\ pc' = "yield" /\ until' = Never
                  /\ UNCHANGED <<sent, attempt, sight, outcome, retryDeadline, token, seenTokens>>
  BY DEF PageArrives
<1>2. /\ Listing /\ ~Settled /\ outcome = "none" /\ PageTypeOK /\ token \in Pages
      /\ pages \in Seq(Pages) /\ pages' = Append(pages, token)
  BY DEF PageArrives, KindInv, PageInv, PageTypeOK, Settled
<1>3. /\ pages' \in Seq(Pages) /\ Len(pages') = Len(pages) + 1 /\ Len(pages) \in Nat
      /\ DOMAIN pages = 1..Len(pages) /\ DOMAIN pages' = 1..Len(pages')
      /\ pages'[Len(pages')] = token
      /\ \A i \in 1..Len(pages) : pages'[i] = pages[i] /\ pages[i] \in Pages
  BY <1>2, AppendProperties, LenProperties, ElementOfSeq
<1>4. /\ next' \in [Pages -> Tokens \cup {"end", "unknown"}] /\ next'[token] = named
      /\ \A p \in Pages : p # token => next'[p] = next[p]
  BY <1>1, <1>2 DEF PageTypeOK
<1>5. /\ \A i \in 1..Len(pages) : pages[i] # token
      /\ Len(pages) # 0 => next[pages[Len(pages)]] = token
  <2>1. Len(pages) # 0 => pages # <<>>
    BY <1>3
  <2> QED BY <1>2, <1>3, <2>1 DEF PageInv
<1>6. Chained'
  <2>1. ASSUME NEW i \in DOMAIN pages', NEW j \in DOMAIN pages', pages'[i] = pages'[j]
        PROVE  i = j
    <3>1. CASE i \in 1..Len(pages) /\ j \in 1..Len(pages)
      BY <1>3, <2>1, <3>1 DEF PageInv, Chained
    <3>2. CASE i = Len(pages') \/ j = Len(pages')
      BY <1>3, <1>5, <2>1, <3>2
    <3> QED BY <1>3, <3>1, <3>2
  <2>2. ASSUME NEW i \in DOMAIN pages', i < Len(pages')
        PROVE  next'[pages'[i]] = pages'[i + 1]
    <3>1. i \in 1..Len(pages) /\ pages'[i] = pages[i] /\ next'[pages[i]] = next[pages[i]]
      BY <1>3, <1>4, <1>5, <2>2
    <3>2. CASE i < Len(pages)
      <4>1. next[pages[i]] = pages[i + 1] /\ i + 1 \in 1..Len(pages)
        BY <1>3, <3>1, <3>2 DEF PageInv, Chained
      <4> QED BY <1>3, <3>1, <4>1
    <3>3. CASE i = Len(pages)
      <4>1. next[pages[i]] = token /\ i + 1 = Len(pages')
        BY <1>3, <1>5, <3>1, <3>3
      <4> QED BY <1>3, <3>1, <4>1
    <3> QED BY <1>3, <3>1, <3>2, <3>3
  <2> QED BY <2>1, <2>2 DEF Chained
<1>7. \A i \in DOMAIN pages' : pages'[i] \in seenTokens \cup {"first"}
  <2>1. /\ token \in seenTokens \cup {"first"}
        /\ \A i \in DOMAIN pages : pages[i] \in seenTokens \cup {"first"}
    BY DEF PageInv
  <2> QED BY <1>3, <2>1
<1>8. pages' # <<>>
  <2>1. Len(pages') # 0
    BY <1>3
  <2> QED BY <2>1
<1>9. CASE op = "collect"
  <2>1. AfterPage(Len(pages) + 1, named)
    BY <1>1, <1>9
  <2> QED BY <1>2, <1>3, <1>4, <1>6, <1>7, <1>8, <2>1, AfterPagePages
<1>10. CASE op # "collect"
  <2>1. pc' = "yield" /\ outcome' = "none" /\ token' = token /\ seenTokens' = seenTokens
    BY <1>1, <1>2, <1>10
  <2>2. PageTypeOK'
    BY <1>2, <1>3, <1>4, <2>1 DEF PageTypeOK
  <2>3. next'[token'] # "unknown"
    BY <1>4, <2>1, TokenNames
  <2> QED BY <1>3, <1>6, <1>7, <1>8, <2>1, <2>2, <2>3 DEF PageInv
<1> QED BY <1>9, <1>10

\* No other step moves a page or a token.
LEMMA OthersPages ==
    ASSUME PageInv, KindInv, [ControlNext]_controlVars, ~Resume, ~(Answer /\ PageArrives)
    PROVE  PageInv'
<1>1. UNCHANGED <<op, token, seenTokens, next, pages>>
  BY DEF ControlNext, Timer, Tick, Wake, IntervalEnds, RpcFails, Serve, Archive, Answer, WaitEnds,
         AnswerResolves, CaptureAccepted, CaptureSeen, Abort, controlVars, callVars, serverVars,
         pageVars
<1>2. ASSUME Listing
      PROVE  /\ pc' = "yield" => pc = "yield"
             /\ ~Settled' /\ pc' # "yield" => ~Settled /\ pc # "yield"
             /\ outcome' = "resolved" => outcome = "resolved"
  <2>1. CASE Tick \/ Serve \/ Archive \/ UNCHANGED controlVars
    BY <2>1 DEF Tick, Serve, Archive, controlVars, Settled
  <2>2. CASE Wake
    BY <2>2 DEF Wake, Rejects, Settle, Send, Settled
  <2>3. CASE IntervalEnds \/ WaitEnds
    BY <1>2, <2>3 DEF IntervalEnds, WaitEnds, KindInv, Listing
  <2>4. CASE Abort
    BY <2>4 DEF Abort, Settle, Settled
  <2>5. CASE Answer
    BY <1>2, <2>5 DEF Answer, AnswerResolves, CaptureAccepted, CaptureSeen, Listing
  <2>6. ASSUME NEW error, RpcFails(error)
        PROVE  pc' \in {"backoff", "done"} /\ pc = "rpc" /\ outcome' \in {outcome, "failed", "timeout"}
    BY <2>6 DEF RpcFails, Backoff, SleepUntil, Rejects, Settle
  <2> QED BY <2>1, <2>2, <2>3, <2>4, <2>5, <2>6 DEF ControlNext, Timer, Settled
<1>3. ~Listing => pc' # "yield"
  <2>1. ~Listing => pc # "yield"
    BY DEF KindInv, Listing
  <2> QED BY <2>1 DEF ControlNext, Timer, Tick, Wake, IntervalEnds, RpcFails, Serve, Archive, Answer,
         WaitEnds, AnswerResolves, CaptureAccepted, CaptureSeen, PageArrives, Poll, Backoff,
         SleepUntil, Rejects, Settle, Send, Abort, controlVars
<1> QED BY <1>1, <1>2, <1>3 DEF PageInv, PageTypeOK, Chained, Listing, Settled

LEMMA PageNext == PageInv /\ KindInv /\ [ControlNext]_controlVars => PageInv'
<1>1. Answer /\ PageArrives => pc = "rpc" /\ op' = op
  BY DEF Answer, callVars
<1> QED BY <1>1, ResumePages, ArrivalPages, OthersPages

----------------------------------------------------------------------------
(* The theorems.                                                            *)

ControlInv == ClockInv /\ PageInv /\ OnceInv

LEMMA ControlInvariant == ControlSpec => []ControlInv
<1>1. ControlInit => ControlInv
  BY ClockInit, PageInit, OnceInit DEF ControlInv
<1>2. ControlInv /\ [ControlNext]_controlVars => ControlInv'
  <2>1. ClockInv /\ PageInv => KindInv /\ pages \in Seq(Pages)
    BY DEF ClockInv, PageInv, PageTypeOK
  <2> QED BY <2>1, ClockNext, PageNext, OnceNext DEF ControlInv
<1> QED BY <1>1, <1>2, PTL DEF ControlSpec

\* The variables keep their types.
THEOREM ControlTypes == ControlSpec => []ControlTypeOK
<1>1. ControlInv => ControlTypeOK
  <2>1. \A s \in Seq({1}) : s \in Seq(Nat)
    OBVIOUS
  <2> QED BY <2>1 DEF ControlInv, ControlTypeOK, ClockInv, PageInv, OnceInv
<1> QED BY <1>1, ControlInvariant, PTL

\* No call outlasts its deadline, and a capture in time is not denied.
THEOREM CallsKeepTime == ControlSpec => []WithinDeadline
<1>1. ControlInv => WithinDeadline
  BY ClockBounds DEF ControlInv
<1> QED BY <1>1, ControlInvariant, PTL

\* A listing has every page once, in order, and resolves at the end.
THEOREM PagesKept == ControlSpec => []PagesOnce
<1>1. ControlInv => PagesOnce
  BY DEF ControlInv, PageInv, Chained, PagesOnce
<1> QED BY <1>1, ControlInvariant, PTL

----------------------------------------------------------------------------
(* Updates of a stored network configuration.                               *)

\* What an updater has seen is the config or an earlier version of it.
SeenBefore ==
    \A u \in Updaters :
        /\ seenAt[u].version <= config.version
        /\ seenAt[u].version = config.version => seenAt[u] = config

\* The caller's etag is one of a version that exists, and it is never replaced.
EtagKept ==
    \A u \in Updaters :
        /\ given[u] <= config.version
        /\ given[u] # None \/ phase[u] \in {"lookup", "read"} => etag[u] = given[u]

\* The read answers behind the caller's own.
ReadAfter ==
    \A u \in Updaters : phase[u] = "read" /\ served[u] => given[u] <= seenAt[u].version

\* A write of a rule rules is pinned, and what was read allows it.
WritePinned ==
    \A u \in Updaters :
        phase[u] = "write" /\ ~served[u] /\ mask[u] \cap RuleLists # {} =>
            /\ etag[u] # None
            /\ etag[u] <= seenAt[u].version
            /\ mask[u] \cap seenAt[u].foreign = {}

\* Nothing is written before the call.
FreshCall == \A u \in Updaters : phase[u] = "idle" => wrote[u] = None

UpdateInv ==
    UpdateTypeOK /\ SeenBefore /\ EtagKept /\ ReadAfter /\ WritePinned /\ FreshCall /\ EtagHonoured

USE DEF None

LEMMA UpdateInitInv == UpdateInit => UpdateInv
<1> SUFFICES ASSUME UpdateInit PROVE UpdateInv
  OBVIOUS
<1>1. config \in Configs /\ config.version = 1
  BY UpdateAssumption DEF UpdateInit, Configs
<1>2. UpdateTypeOK
  <2>1. phase \in [Updaters -> Requests \cup Ends \cup {"idle"}]
    BY DEF UpdateInit
  <2>2. 0 \in 0..MaxVersion /\ {} \in SUBSET Fields
    BY UpdateAssumption
  <2>3. /\ served \in [Updaters -> BOOLEAN] /\ seenAt \in [Updaters -> Configs]
        /\ mask \in [Updaters -> SUBSET Fields] /\ known \in BOOLEAN
    BY <1>1, <2>2 DEF UpdateInit
  <2>4. /\ etag \in [Updaters -> 0..MaxVersion] /\ given \in [Updaters -> 0..MaxVersion]
        /\ wrote \in [Updaters -> 0..MaxVersion]
    BY <2>2 DEF UpdateInit
  <2> QED BY <1>1, <2>1, <2>3, <2>4 DEF UpdateTypeOK
<1>3. SeenBefore /\ EtagKept /\ ReadAfter /\ WritePinned /\ FreshCall /\ EtagHonoured
  BY <1>1 DEF UpdateInit, SeenBefore, EtagKept, ReadAfter, WritePinned, FreshCall, EtagHonoured
<1> QED BY <1>2, <1>3 DEF UpdateInv

\* The first request of a call that writes a rule rules is the read.
LEMMA Reads ==
    ASSUME NEW m \in SUBSET Fields
    PROVE  /\ FirstRequest(m) \in {"read", "write"}
           /\ FirstRequest(m) = "write" => m \cap RuleLists = {}
BY DEF FirstRequest

LEMMA UpdateKeeps == ASSUME UpdateInv, NEW u \in Updaters, Update(u) PROVE UpdateInv'
<1>1. PICK m \in Masks, e \in None..config.version :
         /\ mask' = [mask EXCEPT ![u] = m]
         /\ given' = [given EXCEPT ![u] = e]
         /\ etag' = [etag EXCEPT ![u] = e]
         /\ Ask(u, IF ~known THEN "lookup" ELSE FirstRequest(m))
  BY DEF Update
<1>2. PICK r \in {"lookup", "read", "write"} :
         /\ phase' = [phase EXCEPT ![u] = r] /\ served' = [served EXCEPT ![u] = FALSE]
         /\ r = "write" => m \cap RuleLists = {}
  BY <1>1, Reads, UpdateAssumption DEF Ask
<1>3. UNCHANGED <<seenAt, config, wrote, known>> /\ phase[u] = "idle"
  BY DEF Update
<1>4. e \in 0..MaxVersion /\ e <= config.version /\ m \in SUBSET Fields
  BY <1>1, UpdateAssumption DEF UpdateInv, UpdateTypeOK, Configs
<1>5. UpdateTypeOK'
  BY <1>1, <1>2, <1>3, <1>4 DEF UpdateInv, UpdateTypeOK, Requests
<1>6. SeenBefore'
  BY <1>3 DEF UpdateInv, SeenBefore
<1>7. EtagKept'
  BY <1>1, <1>2, <1>3, <1>4 DEF UpdateInv, EtagKept, UpdateTypeOK
<1>8. ReadAfter'
  BY <1>1, <1>2, <1>3 DEF UpdateInv, ReadAfter, UpdateTypeOK
<1>9. WritePinned'
  BY <1>1, <1>2, <1>3 DEF UpdateInv, WritePinned, UpdateTypeOK
<1>10. FreshCall' /\ EtagHonoured'
  BY <1>1, <1>2, <1>3 DEF UpdateInv, FreshCall, EtagHonoured, UpdateTypeOK
<1> QED BY <1>5, <1>6, <1>7, <1>8, <1>9, <1>10 DEF UpdateInv

LEMMA LookedUpKeeps == ASSUME UpdateInv, NEW u \in Updaters, LookedUp(u) PROVE UpdateInv'
<1>1. PICK r \in {"read", "write"} :
         /\ phase' = [phase EXCEPT ![u] = r] /\ served' = [served EXCEPT ![u] = FALSE]
         /\ r = "write" => mask[u] \cap RuleLists = {}
  BY Reads DEF LookedUp, Ask, UpdateInv, UpdateTypeOK
<1>2. known' = TRUE /\ UNCHANGED <<seenAt, mask, etag, given, config, wrote>>
  BY DEF LookedUp
<1>3. phase[u] = "lookup"
  BY DEF LookedUp
<1>4. UpdateTypeOK'
  BY <1>1, <1>2 DEF UpdateInv, UpdateTypeOK, Requests
<1>5. EtagKept'
  BY <1>1, <1>2, <1>3 DEF UpdateInv, EtagKept, UpdateTypeOK
<1>6. SeenBefore' /\ ReadAfter' /\ WritePinned' /\ FreshCall' /\ EtagHonoured'
  BY <1>1, <1>2 DEF UpdateInv, SeenBefore, ReadAfter, WritePinned, FreshCall, EtagHonoured,
                    UpdateTypeOK
<1> QED BY <1>4, <1>5, <1>6 DEF UpdateInv

LEMMA ReadKeeps == ASSUME UpdateInv, NEW u \in Updaters, Read(u) PROVE UpdateInv'
<1>1. phase[u] = "read" /\ served[u] /\ UNCHANGED <<seenAt, mask, given, config, wrote, known>>
  BY DEF Read
<1>2. CASE mask[u] \cap seenAt[u].foreign # {}
  <2>1. phase' = [phase EXCEPT ![u] = "refused"] /\ UNCHANGED <<served, etag>>
    BY <1>2 DEF Read
  <2> QED BY <1>1, <2>1
          DEF UpdateInv, UpdateTypeOK, SeenBefore, EtagKept, ReadAfter, WritePinned, FreshCall,
              EtagHonoured, Ends
<1>3. CASE mask[u] \cap seenAt[u].foreign = {}
  <2>1. /\ phase' = [phase EXCEPT ![u] = "write"] /\ served' = [served EXCEPT ![u] = FALSE]
        /\ etag' = [etag EXCEPT ![u] = IF etag[u] = 0 THEN seenAt[u].version ELSE etag[u]]
    BY <1>3 DEF Read, Ask
  <2>2. /\ seenAt[u].version \in 1..MaxVersion /\ etag[u] \in 0..MaxVersion
        /\ etag[u] = given[u] /\ given[u] <= seenAt[u].version
    BY <1>1 DEF UpdateInv, UpdateTypeOK, Configs, EtagKept, ReadAfter
  <2>3. UpdateTypeOK'
    BY <1>1, <2>1, <2>2 DEF UpdateInv, UpdateTypeOK, Requests
  <2>4. SeenBefore' /\ ReadAfter' /\ FreshCall' /\ EtagHonoured'
    BY <1>1, <2>1 DEF UpdateInv, UpdateTypeOK, SeenBefore, ReadAfter, FreshCall, EtagHonoured
  <2>5. EtagKept'
    BY <1>1, <2>1, <2>2 DEF UpdateInv, UpdateTypeOK, EtagKept
  <2>6. WritePinned'
    BY <1>1, <1>3, <2>1, <2>2 DEF UpdateInv, UpdateTypeOK, WritePinned
  <2> QED BY <2>3, <2>4, <2>5, <2>6 DEF UpdateInv
<1> QED BY <1>2, <1>3

\* Steps that end a request without a read or a write.
LEMMA AnswersKeep ==
    ASSUME UpdateInv, NEW u \in Updaters,
           Written(u) \/ Mismatch(u) \/ Fails(u) \/ TimeUp(u) \/ Refreshed(u)
    PROVE  UpdateInv'
<1>1. PICK r \in Ends \cup {"refresh"}, s \in BOOLEAN :
         phase' = [phase EXCEPT ![u] = r] /\ served' = [served EXCEPT ![u] = s]
  <2>1. CASE Written(u)
    BY <2>1 DEF Written, Ask
  <2>2. CASE Mismatch(u) \/ Fails(u) \/ TimeUp(u) \/ Refreshed(u)
    <3>1. served' = [served EXCEPT ![u] = served[u]] /\ served[u] \in BOOLEAN
      BY <2>2 DEF Mismatch, Fails, TimeUp, Refreshed, UpdateInv, UpdateTypeOK
    <3>2. \E r \in Ends : phase' = [phase EXCEPT ![u] = r]
      BY <2>2 DEF Mismatch, Fails, TimeUp, Refreshed, Ends
    <3> QED BY <3>1, <3>2
  <2> QED BY <2>1, <2>2
<1>2. UNCHANGED <<seenAt, mask, etag, given, config, wrote>> /\ known' \in BOOLEAN
  BY DEF Written, Mismatch, Fails, TimeUp, Refreshed, UpdateInv, UpdateTypeOK
<1> QED BY <1>1, <1>2
        DEF UpdateInv, UpdateTypeOK, SeenBefore, EtagKept, ReadAfter, WritePinned, FreshCall,
            EtagHonoured, Ends, Requests

\* A write the server applies meets the config that was read: none of its
\* rule lists holds foreign rules.
LEMMA WriteMeetsRead ==
    ASSUME UpdateInv, NEW u \in Updaters, phase[u] = "write", ~served[u],
           etag[u] \in {None, config.version}
    PROVE  mask[u] \cap config.foreign = {}
<1>1. config.foreign \subseteq RuleLists
  BY DEF UpdateInv, UpdateTypeOK, Configs
<1>2. CASE mask[u] \cap RuleLists = {}
  BY <1>1, <1>2
<1>3. CASE mask[u] \cap RuleLists # {}
  <2>1. etag[u] # 0 /\ etag[u] <= seenAt[u].version /\ mask[u] \cap seenAt[u].foreign = {}
    BY <1>3 DEF UpdateInv, WritePinned
  <2>2. config.version \in Nat /\ seenAt[u].version \in Nat /\ seenAt[u].version <= config.version
    BY DEF UpdateInv, UpdateTypeOK, SeenBefore, Configs
  <2>3. seenAt[u].version = config.version
    BY <2>1, <2>2
  <2> QED BY <2>1, <2>3 DEF UpdateInv, SeenBefore
<1> QED BY <1>2, <1>3

\* The config a request leaves behind.
LEMMA TakeUpMoves ==
    ASSUME UpdateInv, NEW u \in Updaters, TakeUp(u)
    PROVE  /\ config' \in Configs /\ config.version <= config'.version
           /\ config'.version = config.version => config' = config
           /\ config.foreign \subseteq config'.foreign
<1>1. CASE phase[u] = "write" /\ etag[u] \in {None, config.version}
  <2>1. Apply(u) /\ ~served[u]
    BY <1>1 DEF TakeUp
  <2>2. mask[u] \cap config.foreign = {}
    BY <1>1, <2>1, WriteMeetsRead
  <2>3. config \in Configs /\ config.version \in 1..MaxVersion /\ config.foreign \in SUBSET RuleLists
    BY DEF UpdateInv, UpdateTypeOK, Configs
  <2>4. CASE mask[u] = {}
    BY <2>1, <2>3, <2>4 DEF Apply
  <2>5. CASE mask[u] # {}
    <3>1. config' = [version |-> config.version + 1, foreign |-> config.foreign \ mask[u]]
      BY <2>1, <2>5 DEF Apply
    <3>2. config.version + 1 \in 1..MaxVersion
      BY <2>1, <2>3, UpdateAssumption DEF Apply
    <3> QED BY <2>2, <2>3, <3>1, <3>2 DEF Configs
  <2> QED BY <2>4, <2>5
<1>2. CASE ~(phase[u] = "write" /\ etag[u] \in {None, config.version})
  BY <1>2 DEF TakeUp, UpdateInv, UpdateTypeOK, Configs
<1> QED BY <1>1, <1>2

\* What a step of the server leaves of the invariant.
LEMMA TakeUpKeeps == ASSUME UpdateInv, NEW u \in Updaters, TakeUp(u) PROVE UpdateInv'
<1>1. /\ phase[u] \in Requests /\ ~served[u] /\ served' = [served EXCEPT ![u] = TRUE]
      /\ seenAt' = [seenAt EXCEPT ![u] = config']
      /\ UNCHANGED <<phase, mask, etag, given, known>>
  BY DEF TakeUp
<1>2. /\ config' \in Configs /\ config.version <= config'.version
      /\ config'.version = config.version => config' = config
  BY TakeUpMoves
<1>3. /\ config.version \in 1..MaxVersion /\ config'.version \in 1..MaxVersion
      /\ \A v \in Updaters : seenAt[v].version \in 1..MaxVersion /\ given[v] \in 0..MaxVersion
  BY <1>2 DEF UpdateInv, UpdateTypeOK, Configs
<1>4. /\ wrote' \in [Updaters -> 0..MaxVersion]
      /\ \A v \in Updaters : v # u => wrote'[v] = wrote[v]
      /\ wrote'[u] = wrote[u] \/ (wrote'[u] = config.version /\ etag[u] \in {0, config.version})
  <2>1. CASE phase[u] = "write" /\ etag[u] \in {None, config.version}
    <3>1. wrote' = [wrote EXCEPT ![u] = config.version]
      BY <2>1 DEF TakeUp, Apply
    <3> QED BY <1>3, <2>1, <3>1 DEF UpdateInv, UpdateTypeOK
  <2>2. CASE ~(phase[u] = "write" /\ etag[u] \in {None, config.version})
    BY <2>2 DEF TakeUp, UpdateInv, UpdateTypeOK
  <2> QED BY <2>1, <2>2
<1>5. UpdateTypeOK'
  BY <1>1, <1>2, <1>4 DEF UpdateInv, UpdateTypeOK
<1>6. SeenBefore'
  <2> SUFFICES ASSUME NEW v \in Updaters
               PROVE  /\ seenAt'[v].version <= config'.version
                      /\ seenAt'[v].version = config'.version => seenAt'[v] = config'
    BY DEF SeenBefore
  <2>1. CASE v = u
    BY <1>1, <1>3, <2>1 DEF UpdateInv, UpdateTypeOK
  <2>2. CASE v # u
    <3>1. seenAt'[v] = seenAt[v] /\ seenAt[v].version <= config.version
      BY <1>1, <2>2 DEF UpdateInv, UpdateTypeOK, SeenBefore
    <3>2. seenAt[v].version = config'.version => config'.version = config.version
      BY <1>2, <1>3, <3>1
    <3> QED BY <1>2, <1>3, <3>1, <3>2 DEF UpdateInv, SeenBefore
  <2> QED BY <2>1, <2>2
<1>7. EtagKept'
  BY <1>1, <1>2, <1>3 DEF UpdateInv, EtagKept
<1>8. ReadAfter'
  <2> SUFFICES ASSUME NEW v \in Updaters, phase'[v] = "read", served'[v]
               PROVE  given'[v] <= seenAt'[v].version
    BY DEF ReadAfter
  <2>1. CASE v = u
    BY <1>1, <1>2, <1>3, <2>1 DEF UpdateInv, UpdateTypeOK, EtagKept
  <2>2. CASE v # u
    BY <1>1, <2>2 DEF UpdateInv, UpdateTypeOK, ReadAfter
  <2> QED BY <2>1, <2>2
<1>9. WritePinned'
  BY <1>1 DEF UpdateInv, UpdateTypeOK, WritePinned
<1>10. FreshCall'
  BY <1>1, <1>4 DEF UpdateInv, FreshCall, Requests
<1>11. EtagHonoured'
  <2> SUFFICES ASSUME NEW v \in Updaters, given[v] # 0, wrote'[v] # 0
               PROVE  wrote'[v] = given[v]
    BY <1>1 DEF EtagHonoured
  <2>1. etag[v] = given[v]
    BY DEF UpdateInv, EtagKept
  <2> QED BY <1>4, <2>1 DEF UpdateInv, EtagHonoured
<1> QED BY <1>5, <1>6, <1>7, <1>8, <1>9, <1>10, <1>11 DEF UpdateInv

LEMMA ForeignWriteKeeps ==
    ASSUME UpdateInv, ForeignWrite
    PROVE  UpdateInv' /\ config.foreign \subseteq config'.foreign
<1>1. PICK rules \in RuleLists :
         config' = [version |-> config.version + 1, foreign |-> config.foreign \cup {rules}]
  BY DEF ForeignWrite
<1>2. /\ config.version < MaxVersion
      /\ UNCHANGED <<phase, served, seenAt, mask, etag, given, wrote, known>>
  BY DEF ForeignWrite
<1>3. /\ config.version \in 1..MaxVersion /\ config.foreign \in SUBSET RuleLists
      /\ \A v \in Updaters : seenAt[v].version \in 1..MaxVersion /\ given[v] \in 0..MaxVersion
  BY DEF UpdateInv, UpdateTypeOK, Configs
<1>4. config' \in Configs /\ config'.version = config.version + 1
  BY <1>1, <1>2, <1>3, UpdateAssumption DEF Configs
<1>5. UpdateTypeOK'
  BY <1>2, <1>4 DEF UpdateInv, UpdateTypeOK
<1>6. SeenBefore' /\ EtagKept'
  BY <1>2, <1>3, <1>4 DEF UpdateInv, SeenBefore, EtagKept
<1>7. ReadAfter' /\ WritePinned' /\ FreshCall' /\ EtagHonoured'
  BY <1>2 DEF UpdateInv, ReadAfter, WritePinned, FreshCall, EtagHonoured
<1> QED BY <1>1, <1>5, <1>6, <1>7 DEF UpdateInv

LEMMA UpdateStuttersKeep == ASSUME UpdateInv, UNCHANGED updateVars PROVE UpdateInv'
BY DEF updateVars, UpdateInv, UpdateTypeOK, SeenBefore, EtagKept, ReadAfter, WritePinned,
       FreshCall, EtagHonoured

LEMMA UpdateNextInv ==
    ASSUME UpdateInv, [UpdateNext]_updateVars
    PROVE  UpdateInv' /\ config.foreign \subseteq config'.foreign
<1>1. UpdateInv'
  BY UpdateKeeps, LookedUpKeeps, ReadKeeps, AnswersKeep, TakeUpKeeps, ForeignWriteKeeps,
     UpdateStuttersKeep DEF UpdateNext
<1>2. config.foreign \subseteq config'.foreign
  <2>1. CASE \E u \in Updaters : TakeUp(u)
    BY <2>1, TakeUpMoves
  <2>2. CASE ForeignWrite
    BY <2>2, ForeignWriteKeeps
  <2>3. CASE UNCHANGED config
    BY <2>3
  <2>4. (\E u \in Updaters : TakeUp(u)) \/ ForeignWrite \/ UNCHANGED config
    BY DEF UpdateNext, updateVars, Update, LookedUp, Read, Written, Mismatch, Fails, TimeUp,
           Refreshed
  <2> QED BY <2>1, <2>2, <2>3, <2>4
<1> QED BY <1>1, <1>2

----------------------------------------------------------------------------
(* What the update promises.                                                *)

\* The state of the updates and of the server keeps its types.
THEOREM UpdateTypes == UpdateSpec => []UpdateTypeOK
<1>1. UpdateInv => UpdateTypeOK
  BY DEF UpdateInv
<1> QED BY <1>1, UpdateInitInv, UpdateNextInv, PTL DEF UpdateSpec

\* A write never removes rules that NetworkOptions cannot show, whoever writes
\* between the read and the write.
THEOREM ForeignRulesKept == UpdateSpec => ForeignRulesSurvive
<1>1. UpdateInv /\ [UpdateNext]_updateVars => [config.foreign \subseteq config'.foreign]_updateVars
  BY UpdateNextInv
<1> QED BY <1>1, UpdateInitInv, UpdateNextInv, PTL DEF UpdateSpec, ForeignRulesSurvive

\* A write with the caller's etag is applied to the caller's version or not at
\* all.
THEOREM CallersEtagHonoured == UpdateSpec => []EtagHonoured
<1>1. UpdateInv => EtagHonoured
  BY DEF UpdateInv
<1> QED BY <1>1, UpdateInitInv, UpdateNextInv, PTL DEF UpdateSpec

----------------------------------------------------------------------------
(* A step of the plane is one of at most one of its parts.                  *)

LEMMA ContentsMoves == [MCNext]_all => [Contents!ContentsNext]_contentsVars
BY DEF MCNext, all, OnlyCall, OnlyUpdate, OnlyFailure, OnlyRules, OnlyCreation, OnlyParts,
       OnlyContents, OnlyView, OnlyProvider, OnlyUrl

LEMMA UrlMoves == [MCNext]_all => [Url!UrlNext]_<<clock, state, wake, assigned, looked, saw>>
BY DEF MCNext, all, OnlyCall, OnlyUpdate, OnlyFailure, OnlyRules, OnlyCreation, OnlyParts,
       OnlyContents, OnlyView, OnlyProvider, OnlyUrl, providerVars

LEMMA ProviderMoves ==
    [MCNext]_all =>
        [Provider!ProviderNext]_<<ownerTag, client, tag, drawn, calls, call, place, answer, server,
                                  made, mine, expected, listed>>
BY DEF MCNext, all, OnlyCall, OnlyUpdate, OnlyFailure, OnlyRules, OnlyCreation, OnlyParts,
       OnlyContents, OnlyView, OnlyProvider, OnlyUrl, providerVars

LEMMA ErrorMoves == [MCNext]_all => [Errors!ErrorNext]_errorVars
BY DEF MCNext, all, OnlyCall, OnlyUpdate, OnlyFailure, OnlyRules, OnlyCreation, OnlyParts,
       OnlyContents, OnlyView, OnlyProvider, OnlyUrl

LEMMA ViewMoves == [MCNext]_all => [View!ViewNext]_handleVars
BY DEF MCNext, all, OnlyCall, OnlyUpdate, OnlyFailure, OnlyRules, OnlyCreation, OnlyParts,
       OnlyContents, OnlyView, OnlyProvider, OnlyUrl

LEMMA RulesMoves == [MCNext]_all => [Rules!RulesNext]_rulesVars
BY DEF MCNext, all, OnlyCall, OnlyUpdate, OnlyFailure, OnlyRules, OnlyCreation, OnlyParts,
       OnlyContents, OnlyView, OnlyProvider, OnlyUrl

LEMMA RequestMoves == [MCNext]_all => [Creation!RequestNext]_requestVars
BY DEF MCNext, all, OnlyCall, OnlyUpdate, OnlyFailure, OnlyRules, OnlyCreation, OnlyParts,
       OnlyContents, OnlyView, OnlyProvider, OnlyUrl

LEMMA PartsMoves == [MCNext]_all => [Parts!PartsNext]_partsVars
BY DEF MCNext, all, OnlyCall, OnlyUpdate, OnlyFailure, OnlyRules, OnlyCreation, OnlyParts,
       OnlyContents, OnlyView, OnlyProvider, OnlyUrl

----------------------------------------------------------------------------
(* Reading the contents of a from-file create.                              *)

AbortReasons == {"caller", "timeout"}
ReadOutcomes == {"read", "bytes", "invalid"} \cup AbortReasons

ContentsTypeOK ==
    /\ source \in {"bytes", "file", "other", "missing"} /\ length \in Nat
    /\ abort \in {"no"} \cup AbortReasons
    /\ contentsPc \in {"start", "open", "stat", "read", "closing", "done"}
    /\ handle \in {"none", "open", "closed"}
    /\ offset \in Nat /\ ending \in {"none"} \cup ReadOutcomes
    /\ result \in {"pending"} \cup ReadOutcomes

\* The promise settles at one place, and what was armed or opened is gone there.
ContentsSettled ==
    /\ result = "pending" <=> contentsPc # "done"
    /\ contentsPc = "done" => ~timer
    /\ handle = "open" => contentsPc \in {"stat", "read"}
    /\ ending # "none" => contentsPc \in {"closing", "done"}

\* What has been read is a part of a file, and of one that fits.
ContentsWhole ==
    /\ offset <= Cap
    /\ contentsPc \in {"start", "open", "stat"} => offset = 0
    /\ contentsPc = "read" => source = "file" /\ offset <= length
    /\ contentsPc = "closing" => ending \notin {"none", "bytes"}
    /\ ending = "read" => source = "file" /\ offset = length
    /\ result = "read" => ending = "read"
    /\ result = "bytes" => source = "bytes" /\ length <= Cap

ContentsInv == ContentsTypeOK /\ ContentsSettled /\ ContentsWhole

LEMMA ContentsBounds == Cap \in Nat /\ MaxSize \in Nat
BY PlaneAssumption

\* The read starts with nothing armed, opened or read.
LEMMA ContentsInitInv == ASSUME Contents!ContentsInit PROVE ContentsInv
<1> USE ContentsBounds DEF Contents!ContentsInit
<1>1. ContentsTypeOK
  BY DEF ContentsTypeOK, ReadOutcomes, AbortReasons
<1>2. ContentsSettled
  BY DEF ContentsSettled
<1>3. ContentsWhole
  BY DEF ContentsWhole
<1> QED BY <1>1, <1>2, <1>3 DEF ContentsInv

\* No step of the read or of those who interrupt it breaks the invariant.
LEMMA ContentsStep == ASSUME ContentsInv, [Contents!ContentsNext]_contentsVars PROVE ContentsInv'
<1> USE ContentsBounds DEF ContentsInv, ContentsTypeOK, ContentsSettled, ContentsWhole, ReadOutcomes, AbortReasons, Contents!Aborted, Contents!fixed
<1>1. CASE Contents!Start
  BY <1>1 DEF Contents!Start, Contents!Return
<1>2. CASE Contents!Opened
  BY <1>2 DEF Contents!Opened, Contents!LeaveFailed, Contents!Leave
<1>3. CASE Contents!OpenFails
  BY <1>3 DEF Contents!OpenFails, Contents!Return
<1>4. CASE Contents!Looked
  BY <1>4 DEF Contents!Looked, Contents!LeaveFailed, Contents!Leave
<1>5. CASE Contents!ReadChunk
  <2>1. PICK n \in 1..(length - offset) :
            IF Contents!Aborted \/ offset + n > Cap
            THEN Contents!LeaveFailed /\ UNCHANGED offset
            ELSE /\ offset' = offset + n
                 /\ UNCHANGED <<Contents!fixed, timer, abort, contentsPc, handle, listening, ending, result>>
    BY <1>5 DEF Contents!ReadChunk
  <2>2. CASE Contents!Aborted \/ offset + n > Cap
    BY <1>5, <2>1, <2>2 DEF Contents!ReadChunk, Contents!LeaveFailed, Contents!Leave
  <2>3. CASE ~(Contents!Aborted \/ offset + n > Cap)
    BY <1>5, <2>1, <2>3 DEF Contents!ReadChunk
  <2> QED BY <2>2, <2>3
<1>6. CASE Contents!ReadFails
  BY <1>6 DEF Contents!ReadFails, Contents!LeaveFailed, Contents!Leave
<1>7. CASE Contents!ReadEnds
  BY <1>7 DEF Contents!ReadEnds, Contents!LeaveFailed, Contents!Leave
<1>8. CASE Contents!Closed
  BY <1>8 DEF Contents!Closed, Contents!Return
<1>9. CASE Contents!CallerAborts
  BY <1>9 DEF Contents!CallerAborts, Contents!Interrupt
<1>10. CASE Contents!TimerFires
  BY <1>10 DEF Contents!TimerFires, Contents!Interrupt
<1>11. CASE UNCHANGED contentsVars
  BY <1>11 DEF contentsVars
<1> QED BY <1>1, <1>2, <1>3, <1>4, <1>5, <1>6, <1>7, <1>8, <1>9, <1>10, <1>11 DEF Contents!ContentsNext

AbortTold == Contents!Aborted /\ ending = "none" /\ ending' # "none" => ending' = abort

\* The outcome that is Contents!fixed while the handle is closed is the abort, if there
\* was one.
LEMMA ContentsTold == ASSUME ContentsInv, [Contents!ContentsNext]_contentsVars PROVE AbortTold
<1> USE DEF AbortTold, ContentsInv, ContentsTypeOK, ContentsSettled, ContentsWhole, Contents!Aborted
<1>1. CASE \/ Contents!Start \/ Contents!OpenFails \/ Contents!Closed
           \/ Contents!CallerAborts \/ Contents!TimerFires \/ UNCHANGED contentsVars
  BY <1>1 DEF Contents!Start, Contents!OpenFails, Contents!Closed, Contents!CallerAborts,
              Contents!TimerFires, Contents!Interrupt, contentsVars
<1>2. CASE Contents!Opened \/ Contents!Looked \/ Contents!ReadFails \/ Contents!ReadEnds
  BY <1>2 DEF Contents!Opened, Contents!Looked, Contents!ReadFails, Contents!ReadEnds, Contents!LeaveFailed, Contents!Leave
<1>3. CASE Contents!ReadChunk
  BY <1>3 DEF Contents!ReadChunk, Contents!LeaveFailed, Contents!Leave
<1> QED BY <1>1, <1>2, <1>3 DEF Contents!ContentsNext

LEMMA ContentsInvariance == MCSpec => []ContentsInv
<1>1. MCInit => ContentsInv
  BY ContentsInitInv DEF MCInit
<1>2. ContentsInv /\ [MCNext]_all => ContentsInv'
  BY ContentsStep, ContentsMoves
<1> QED BY <1>1, <1>2, PTL DEF MCSpec

\* Whatever interrupts readFromFileContents(), at whichever await: it leaves no
\* open handle and no timer, what it returns is the whole file within the cap,
\* and an abort is reported as such.
THEOREM ContentsSafe == MCSpec => ContentsKept
<1>1. ContentsInv => (result # "pending" => handle # "open" /\ ~timer)
  BY DEF ContentsInv, ContentsSettled
<1>2. ContentsInv => (result = "read" => source = "file" /\ offset = length /\ length <= Cap)
  BY DEF ContentsInv, ContentsWhole
<1>3. ContentsInv => (result = "bytes" => source = "bytes" /\ length <= Cap)
  BY DEF ContentsInv, ContentsWhole
<1>4. ContentsInv /\ [MCNext]_all =>
        [Contents!Aborted /\ ending = "none" /\ ending' # "none" => ending' = abort]_(Contents!contentsVars)
  BY ContentsTold, ContentsMoves DEF AbortTold
<1> QED BY ContentsInvariance, <1>1, <1>2, <1>3, <1>4, PTL
        DEF MCSpec, ContentsKept, Contents!ContentsKept

----------------------------------------------------------------------------
(* Waiting for the URL of a service.                                        *)

\* An inspection that showed no URL was answered before one was assigned.
UrlInv ==
    /\ clock \in Nat /\ wake \in Nat /\ saw \in BOOLEAN
    /\ assigned \in Nat \cup {Url!Never} /\ looked \in Nat \cup {Url!Never}
    /\ state \in {"loop", "sent", "answered", "sleep"} \cup Url!Settled
    /\ looked <= clock /\ clock <= UrlWait + UrlLate
    /\ state = "sleep" => wake <= UrlWait
    /\ state = "loop" => looked # Url!Never \/ clock < UrlWait
    /\ state \in {"answered", "sleep", "unassigned"} => looked # Url!Never
    /\ state \in {"loop", "sent", "sleep", "unassigned"} \/ (state = "answered" /\ ~saw) =>
          (looked # Url!Never /\ assigned # Url!Never => assigned >= looked)
    /\ state = "unassigned" => clock >= UrlWait

LEMMA UrlBounds == UrlWait \in Nat /\ UrlPoll \in Nat /\ UrlLate \in Nat /\ UrlWait > 0 /\ UrlPoll > 0
<1>1. UrlWait \in Nat \ {0} /\ UrlPoll \in Nat \ {0} /\ UrlLate \in Nat
  BY Zenon, PlaneAssumption
<1> QED BY <1>1

LEMMA UrlInitInv == Url!UrlInit => UrlInv
<1> SUFFICES ASSUME Url!UrlInit PROVE UrlInv
  OBVIOUS
<1>1. saw \in BOOLEAN
  BY Zenon DEF Url!UrlInit
<1>2. clock = 0 /\ state = "loop" /\ wake = 0 /\ assigned = -1 /\ looked = -1
  BY DEF Url!UrlInit, Url!Never
<1> QED BY UrlBounds, <1>1, <1>2 DEF UrlInv, Url!Never, Url!Settled

LEMMA UrlStep ==
    ASSUME UrlInv, [Url!UrlNext]_<<clock, state, wake, assigned, looked, saw>>
    PROVE  UrlInv'
<1> USE UrlBounds DEF UrlInv, Url!Never, Url!Settled, Url!Deadline
<1>1. CASE Url!Inspect
  BY <1>1 DEF Url!Inspect
<1>6. CASE Url!Look
  <2>1. saw' \in BOOLEAN /\ (~saw' => assigned = Url!Never)
    BY Zenon, <1>6 DEF Url!Look
  <2>2. /\ state = "sent" /\ state' = "answered" /\ looked' = clock
        /\ UNCHANGED <<clock, wake, assigned>>
    BY <1>6 DEF Url!Look
  <2> QED BY <2>1, <2>2
<1>2. CASE Url!Found \/ Url!InspectTimesOut \/ Url!InspectFails \/ Url!UrlWakes
  BY <1>2 DEF Url!Found, Url!InspectTimesOut, Url!InspectFails, Url!UrlWakes
<1>3. CASE Url!NotYet
  <2>1. PICK left \in Int : left = Url!Least(UrlPoll, UrlWait - clock)
    BY DEF Url!Least
  <2>2. left <= UrlWait - clock /\ (left <= 0 => UrlWait <= clock)
    BY <2>1 DEF Url!Least
  <2>3. CASE left <= 0
    BY <1>3, <2>1, <2>2, <2>3 DEF Url!NotYet
  <2>4. CASE left > 0
    <3>1. state' = "sleep" /\ wake' = clock + left
      BY <1>3, <2>1, <2>4 DEF Url!NotYet
    <3> QED BY <1>3, <2>2, <2>4, <3>1 DEF Url!NotYet
  <2> QED BY <2>3, <2>4
<1>4. CASE Url!Assign \/ Url!UrlTick
  BY <1>4 DEF Url!Assign, Url!UrlTick
<1>5. CASE UNCHANGED <<clock, state, wake, assigned, looked, saw>>
  BY <1>5
<1> QED BY <1>1, <1>2, <1>3, <1>4, <1>5, <1>6 DEF Url!UrlNext

LEMMA UrlHolds == UrlInv => Url!UrlNotMissed
BY DEF UrlInv, Url!UrlNotMissed, Url!Deadline

----------------------------------------------------------------------------
(* The ComputeSDK provider.                                                 *)

ProviderTags == OwnerTags \cup RandomTags \cup {"none", "invalid", "computesdk"}
ProviderCalls == [method : {"create", "list", "destroy"}, config : Providers, id : Nat]

ProviderTypeOK ==
    /\ ownerTag \in [Providers -> ProviderTags] /\ tag \in [Providers -> ProviderTags]
    /\ call \in [Callers -> ProviderCalls \cup {Provider!NoCall}]
    /\ place \in [Callers -> {"idle", "client", "sent", "served"}]
    /\ \A c \in Callers : place[c] # "idle" => call[c] \in ProviderCalls
    /\ answer \in [Callers -> SUBSET Nat] /\ expected \in [Callers -> SUBSET Nat]
    /\ mine \in [Providers -> SUBSET Nat] /\ made \in Nat
    /\ server \subseteq [id : 1..made, tags : SUBSET ProviderTags]

\* The server has sandbox n with the tags of config k.
Stored(n, k) == \E s \in server : s.id = n /\ {"computesdk", tag[k]} \subseteq s.tags
\* Somebody is destroying it.
Doomed(n) == \E d \in Callers : call[d].method = "destroy" /\ call[d].id = n
\* It is in an answer to create() that has not arrived.
Arriving(c, n) == place[c] = "served" /\ call[c].method = "create" /\ n \in answer[c]

TagKnown ==
    \A c \in Callers : place[c] \in {"sent", "served"} /\ call[c].method \in {"create", "list"} =>
        tag[call[c].config] # "none"
DestroysMade == \A c \in Callers : call[c].method = "destroy" => call[c].id <= made
MineStored ==
    \A k \in Providers : \A n \in mine[k] : tag[k] # "none" /\ Stored(n, k) /\ ~Doomed(n)
ArrivingStored ==
    \A c \in Callers, n \in Nat : Arriving(c, n) =>
        /\ Stored(n, call[c].config) /\ ~Doomed(n)
        /\ \A k \in Providers : n \notin mine[k]
        /\ \A d \in Callers \ {c} : ~Arriving(d, n)
ExpectedListed ==
    \A c \in Callers : call[c].method = "list" =>
        /\ place[c] \in {"client", "sent"} => expected[c] \subseteq mine[call[c].config]
        /\ place[c] = "served" => expected[c] \subseteq answer[c]

ProviderInv ==
    /\ ProviderTypeOK /\ TagKnown /\ DestroysMade /\ MineStored /\ ArrivingStored /\ ExpectedListed
    /\ Provider!OwnListed

\* No tag drawn at random is the one that says there is none.
LEMMA DrawnTags == "none" \notin RandomTags
<1>1. RandomTags \cap (OwnerTags \cup {"none"}) = {}
  BY Zenon, PlaneAssumption
<1> QED BY <1>1

LEMMA ProviderInitInv == Provider!ProviderInit => ProviderInv
BY DEF Provider!ProviderInit, ProviderInv, ProviderTypeOK, TagKnown, DestroysMade, MineStored,
       ArrivingStored, ExpectedListed, Arriving, ProviderTags, Provider!OwnListed,
       Provider!NoCall, Provider!NoTag, Provider!Invalid

\* What the server keeps with the tags of a config it keeps as long as nobody takes it
\* away and the config its tag.
LEMMA StoredStays ==
    ASSUME NEW n, NEW k, Stored(n, k), tag'[k] = tag[k],
           \A s \in server : s.id = n => s \in server'
    PROVE  Stored(n, k)'
BY DEF Stored

\* A call begins; one that destroys a sandbox takes it out of what is expected.
LEMMA CallKeeps ==
    ASSUME ProviderInv, NEW c \in Callers, NEW k \in Providers,
           NEW method \in {"create", "list", "destroy"}, NEW id \in Nat,
           method = "destroy" => id \in Provider!Known,
           Provider!Call(c, k, method, id)
    PROVE  ProviderInv'
<1> DEFINE gone == IF method = "destroy" THEN {id} ELSE {}
           begun == [method |-> method, config |-> k, id |-> id]
<1>1. /\ call' = [call EXCEPT ![c] = begun] /\ place[c] = "idle"
      /\ place' = [place EXCEPT ![c] = "client"]
      /\ mine' = [o \in Providers |-> mine[o] \ gone]
      /\ expected' = [d \in Callers |->
              IF d = c /\ method = "list" THEN mine[k] ELSE expected[d] \ gone]
      /\ UNCHANGED <<ownerTag, tag, answer, server, made, listed>>
  BY DEF Provider!Call
<1>2. begun \in ProviderCalls /\ begun.method = method /\ begun.config = k /\ begun.id = id
  BY DEF ProviderCalls
<1>3. /\ call'[c] = begun /\ place'[c] = "client"
      /\ \A d \in Callers \ {c} : call'[d] = call[d] /\ place'[d] = place[d]
  BY <1>1 DEF ProviderInv, ProviderTypeOK
<1>4. ProviderTypeOK'
  BY <1>1, <1>2, <1>3 DEF ProviderInv, ProviderTypeOK
<1>5. TagKnown'
  BY <1>1, <1>3 DEF ProviderInv, TagKnown
<1>6. \A n, o : Stored(n, o) => Stored(n, o)'
  BY <1>1 DEF Stored
<1>7. \A n : Doomed(n)' => Doomed(n) \/ n \in gone
  BY <1>2, <1>3 DEF Doomed
<1>8. method = "destroy" => \E o \in Providers : id \in mine[o] /\ id \in 1..made
  BY DEF Provider!Known, ProviderInv, MineStored, Stored, ProviderTypeOK
<1>9. DestroysMade'
  BY <1>1, <1>2, <1>3, <1>8 DEF ProviderInv, DestroysMade
<1>10. MineStored'
  BY <1>1, <1>6, <1>7 DEF ProviderInv, MineStored
<1>11. \A d \in Callers, n \in Nat : Arriving(d, n)' => Arriving(d, n) /\ d # c /\ call'[d] = call[d]
  BY <1>1, <1>3 DEF Arriving
<1>12. ArrivingStored'
  <2> SUFFICES ASSUME NEW d \in Callers, NEW n \in Nat, Arriving(d, n)'
               PROVE  /\ Stored(n, call[d].config)' /\ ~Doomed(n)'
                      /\ \A o \in Providers : n \notin mine'[o]
                      /\ \A e \in Callers \ {d} : ~Arriving(e, n)'
    BY DEF ArrivingStored
  <2>1. /\ Stored(n, call[d].config) /\ ~Doomed(n)
        /\ \A o \in Providers : n \notin mine[o]
        /\ \A e \in Callers \ {d} : ~Arriving(e, n)
    BY <1>11 DEF ProviderInv, ArrivingStored
  <2>2. n \notin gone
    BY <2>1, <1>8
  <2> QED BY <1>1, <1>6, <1>7, <1>11, <2>1, <2>2
<1>13. ExpectedListed'
  <2> SUFFICES ASSUME NEW d \in Callers, call'[d].method = "list"
               PROVE  /\ place'[d] \in {"client", "sent"} => expected'[d] \subseteq mine'[call'[d].config]
                      /\ place'[d] = "served" => expected'[d] \subseteq answer'[d]
    BY DEF ExpectedListed
  <2>1. CASE d = c
    BY <1>1, <1>2, <1>3, <2>1
  <2>2. CASE d # c
    <3>1. place[d] # "idle" => call[d].config \in Providers
      BY DEF ProviderInv, ProviderTypeOK, ProviderCalls
    <3> QED BY <1>1, <1>3, <2>2, <3>1 DEF ProviderInv, ExpectedListed
  <2> QED BY <2>1, <2>2
<1>14. Provider!OwnListed'
  BY <1>1 DEF ProviderInv, Provider!OwnListed
<1> QED BY <1>4, <1>5, <1>9, <1>10, <1>12, <1>13, <1>14 DEF ProviderInv

\* A call ends before its request is sent, or its RPC fails.
LEMMA RejectKeeps ==
    ASSUME ProviderInv, NEW c \in Callers, Provider!Rejects(c),
           answer' = answer \/ answer' = [answer EXCEPT ![c] = {}],
           UNCHANGED <<ownerTag, tag, server, made, mine, listed>>
    PROVE  ProviderInv'
<1>1. /\ call'[c] = Provider!NoCall /\ place'[c] = "idle" /\ expected'[c] = {}
      /\ \A d \in Callers \ {c} :
            /\ call'[d] = call[d] /\ place'[d] = place[d] /\ expected'[d] = expected[d]
            /\ answer'[d] = answer[d]
  BY DEF Provider!Rejects, ProviderInv, ProviderTypeOK
<1>2. Provider!NoCall.method = "none"
  BY DEF Provider!NoCall
<1>3. ProviderTypeOK'
  BY <1>1 DEF Provider!Rejects, ProviderInv, ProviderTypeOK
<1>4. TagKnown' /\ DestroysMade'
  BY <1>1, <1>2 DEF ProviderInv, TagKnown, DestroysMade
<1>5. \A n, o : Stored(n, o) => Stored(n, o)'
  BY DEF Stored
<1>6. \A n : Doomed(n)' => Doomed(n)
  BY <1>1, <1>2 DEF Doomed
<1>7. MineStored'
  BY <1>5, <1>6 DEF ProviderInv, MineStored
<1>8. \A d \in Callers, n \in Nat : Arriving(d, n)' => Arriving(d, n) /\ call'[d] = call[d]
  BY <1>1, <1>2 DEF Arriving
<1>9. ArrivingStored'
  BY <1>5, <1>6, <1>8 DEF ProviderInv, ArrivingStored
<1>10. ExpectedListed'
  BY <1>1, <1>2 DEF ProviderInv, ExpectedListed
<1>11. Provider!OwnListed'
  BY DEF ProviderInv, Provider!OwnListed
<1> QED BY <1>3, <1>4, <1>7, <1>9, <1>10, <1>11 DEF ProviderInv

\* A config's tag is set once and is a tag from then on.
LEMMA TagSet ==
    ASSUME ProviderInv, NEW k \in Providers, Provider!ResolveOwnerTag(k)
    PROVE  /\ tag' \in [Providers -> ProviderTags] /\ tag'[k] # "none"
           /\ \A o \in Providers : tag[o] # "none" => tag'[o] = tag[o]
<1> USE DEF ProviderInv, ProviderTypeOK, Provider!NoTag
<1>1. CASE tag[k] # "none"
  BY <1>1 DEF Provider!ResolveOwnerTag
<1>2. CASE tag[k] = "none" /\ ownerTag[k] # "none"
  BY <1>2 DEF Provider!ResolveOwnerTag
<1>3. CASE tag[k] = "none" /\ ownerTag[k] = "none"
  <2>1. PICK t \in RandomTags : tag' = [tag EXCEPT ![k] = t]
    BY <1>3 DEF Provider!ResolveOwnerTag
  <2> QED BY <1>3, <2>1, DrawnTags DEF ProviderTags
<1> QED BY <1>1, <1>2, <1>3

LEMMA SendKeeps ==
    ASSUME ProviderInv, NEW c \in Callers, Provider!Sends(c)
    PROVE  ProviderInv'
<1>1. /\ place[c] = "client" /\ place' = [place EXCEPT ![c] = "sent"]
      /\ UNCHANGED <<ownerTag, call, answer, server, made, mine, expected, listed>>
  BY DEF Provider!Sends
<1>2. call[c] \in ProviderCalls
  BY <1>1 DEF ProviderInv, ProviderTypeOK
<1>3. /\ tag' \in [Providers -> ProviderTags]
      /\ \A o \in Providers : tag[o] # "none" => tag'[o] = tag[o]
      /\ call[c].method \in {"create", "list"} => tag'[call[c].config] # "none"
  <2>1. CASE call[c].method \in {"create", "list"}
    BY <1>2, <2>1, TagSet DEF Provider!Sends, Provider!Scoped, ProviderCalls
  <2>2. CASE call[c].method \notin {"create", "list"}
    BY <2>2 DEF Provider!Sends, Provider!Scoped, ProviderInv, ProviderTypeOK
  <2> QED BY <2>1, <2>2
<1>4. /\ place'[c] = "sent"
      /\ \A d \in Callers \ {c} : place'[d] = place[d]
  BY <1>1 DEF ProviderInv, ProviderTypeOK
<1>5. ProviderTypeOK'
  BY <1>1, <1>2, <1>3 DEF ProviderInv, ProviderTypeOK
<1>6. TagKnown'
  <2> SUFFICES ASSUME NEW d \in Callers, place'[d] \in {"sent", "served"},
                      call[d].method \in {"create", "list"}
               PROVE  tag'[call[d].config] # "none"
    BY <1>1 DEF TagKnown
  <2>1. CASE d = c
    BY <2>1, <1>3
  <2>2. CASE d # c
    BY <2>2, <1>3, <1>4 DEF ProviderInv, TagKnown, ProviderTypeOK, ProviderCalls
  <2> QED BY <2>1, <2>2
<1>7. DestroysMade'
  BY <1>1 DEF ProviderInv, DestroysMade
<1>8. \A n, o : o \in Providers /\ tag[o] # "none" /\ Stored(n, o) => Stored(n, o)'
  BY <1>1, <1>3 DEF Stored
<1>9. \A n : Doomed(n)' => Doomed(n)
  BY <1>1 DEF Doomed
<1>10. MineStored'
  BY <1>1, <1>3, <1>8, <1>9 DEF ProviderInv, MineStored
<1>11. \A d \in Callers, n \in Nat : Arriving(d, n)' => Arriving(d, n)
  BY <1>1, <1>4 DEF Arriving
<1>12. \A d \in Callers, n \in Nat : Arriving(d, n) =>
          call[d].config \in Providers /\ tag[call[d].config] # "none"
  BY DEF Arriving, ProviderInv, TagKnown, ProviderTypeOK, ProviderCalls
<1>13. ArrivingStored'
  BY <1>1, <1>8, <1>9, <1>11, <1>12 DEF ProviderInv, ArrivingStored
<1>14. ExpectedListed'
  BY <1>1, <1>4 DEF ProviderInv, ExpectedListed
<1>15. Provider!OwnListed'
  BY <1>1 DEF ProviderInv, Provider!OwnListed
<1> QED BY <1>5, <1>6, <1>7, <1>10, <1>13, <1>14, <1>15 DEF ProviderInv

\* A sandbox is made: it has a number of its own, and nothing else changes.
LEMMA MadeKeeps ==
    ASSUME ProviderInv, NEW tags \in SUBSET ProviderTags,
           made' = made + 1, server' = server \cup {[id |-> made + 1, tags |-> tags]},
           UNCHANGED <<tag, call, mine>>
    PROVE  /\ server' \subseteq [id : 1..made', tags : SUBSET ProviderTags] /\ made' \in Nat
           /\ DestroysMade' /\ MineStored'
           /\ \A n, o : Stored(n, o) => Stored(n, o)'
           /\ \A n : Doomed(n)' <=> Doomed(n)
           /\ ~Doomed(made + 1) /\ \A o \in Providers : made + 1 \notin mine[o]
<1>1. server \subseteq [id : 1..made, tags : SUBSET ProviderTags] /\ made \in Nat
  BY DEF ProviderInv, ProviderTypeOK
<1>2. server' \subseteq [id : 1..made', tags : SUBSET ProviderTags] /\ made' \in Nat
  BY <1>1
<1>3. \A n, o : Stored(n, o) => Stored(n, o)'
  BY DEF Stored
<1>4. \A n : Doomed(n)' <=> Doomed(n)
  BY DEF Doomed
<1>5. \A d \in Callers : call[d].method = "destroy" => call[d].id \in Nat
  BY DEF ProviderInv, ProviderTypeOK, ProviderCalls, Provider!NoCall
<1>6. DestroysMade' /\ ~Doomed(made + 1)
  BY <1>1, <1>5 DEF ProviderInv, DestroysMade, Doomed
<1>7. \A o \in Providers : made + 1 \notin mine[o]
  <2> SUFFICES ASSUME NEW o \in Providers, made + 1 \in mine[o] PROVE FALSE
    OBVIOUS
  <2>1. PICK s \in server : s.id = made + 1
    BY DEF ProviderInv, MineStored, Stored
  <2> QED BY <1>1, <2>1
<1>8. MineStored'
  BY <1>3, <1>4 DEF ProviderInv, MineStored
<1> QED BY <1>2, <1>3, <1>4, <1>6, <1>7, <1>8

LEMMA OtherMakesKeeps ==
    ASSUME ProviderInv, NEW tags \in SUBSET ProviderTags, Provider!OtherMakes(tags)
    PROVE  ProviderInv'
<1>1. /\ made' = made + 1 /\ server' = server \cup {[id |-> made + 1, tags |-> tags]}
      /\ UNCHANGED <<ownerTag, tag, call, place, answer, mine, expected, listed>>
  BY DEF Provider!OtherMakes
<1>2. /\ server' \subseteq [id : 1..made', tags : SUBSET ProviderTags] /\ made' \in Nat
      /\ DestroysMade' /\ MineStored'
      /\ \A n, o : Stored(n, o) => Stored(n, o)'
      /\ \A n : Doomed(n)' <=> Doomed(n)
  BY <1>1, MadeKeeps
<1>3. ProviderTypeOK'
  BY <1>1, <1>2 DEF ProviderInv, ProviderTypeOK
<1>4. TagKnown' /\ ExpectedListed' /\ Provider!OwnListed'
  BY <1>1 DEF ProviderInv, TagKnown, ExpectedListed, Provider!OwnListed
<1>5. \A d, n : Arriving(d, n)' <=> Arriving(d, n)
  BY <1>1 DEF Arriving
<1>6. ArrivingStored'
  BY <1>1, <1>2, <1>5 DEF ProviderInv, ArrivingStored
<1> QED BY <1>2, <1>3, <1>4, <1>6 DEF ProviderInv

\* The server carries a request out.
LEMMA CreateServed ==
    ASSUME ProviderInv, NEW c \in Callers, Provider!Serves(c), call[c].method = "create"
    PROVE  ProviderInv'
<1> DEFINE tags == {"computesdk", tag[call[c].config]}
<1>1. /\ place[c] = "sent" /\ place' = [place EXCEPT ![c] = "served"]
      /\ made' = made + 1 /\ server' = server \cup {[id |-> made + 1, tags |-> tags]}
      /\ answer' = [answer EXCEPT ![c] = {made + 1}]
      /\ UNCHANGED <<ownerTag, tag, call, mine, expected, listed>>
  BY DEF Provider!Serves, Provider!CallTags, Provider!AdapterTag
<1>2. call[c] \in ProviderCalls /\ tags \in SUBSET ProviderTags
  BY <1>1 DEF ProviderInv, ProviderTypeOK, ProviderCalls, ProviderTags
<1>3. /\ server' \subseteq [id : 1..made', tags : SUBSET ProviderTags] /\ made' \in Nat
      /\ DestroysMade' /\ MineStored'
      /\ \A n, o : Stored(n, o) => Stored(n, o)'
      /\ \A n : Doomed(n)' <=> Doomed(n)
      /\ ~Doomed(made + 1) /\ \A o \in Providers : made + 1 \notin mine[o]
  BY <1>1, <1>2, MadeKeeps
<1>4. /\ place'[c] = "served" /\ answer'[c] = {made + 1}
      /\ \A d \in Callers \ {c} : place'[d] = place[d] /\ answer'[d] = answer[d]
  BY <1>1 DEF ProviderInv, ProviderTypeOK
<1>5. ProviderTypeOK'
  BY <1>1, <1>2, <1>3 DEF ProviderInv, ProviderTypeOK
<1>6. TagKnown' /\ Provider!OwnListed'
  BY <1>1, <1>4 DEF ProviderInv, TagKnown, Provider!OwnListed
<1>7. ExpectedListed'
  BY <1>1, <1>4 DEF ProviderInv, ExpectedListed
<1>8. \A n : n = made + 1 => Stored(n, call[c].config)'
  <2>1. [id |-> made + 1, tags |-> tags] \in server'
    BY <1>1
  <2> QED BY <1>1, <2>1 DEF Stored
<1>9. \A d \in Callers, n \in Nat : Arriving(d, n)' <=>
          (d = c /\ n = made + 1) \/ (d # c /\ Arriving(d, n))
  <2>1. made + 1 \in Nat
    BY DEF ProviderInv, ProviderTypeOK
  <2> QED BY <1>1, <1>4, <2>1 DEF Arriving
<1>10. \A d \in Callers : ~Arriving(d, made + 1)
  <2> SUFFICES ASSUME NEW d \in Callers, Arriving(d, made + 1) PROVE FALSE
    OBVIOUS
  <2>1. made \in Nat /\ server \subseteq [id : 1..made, tags : SUBSET ProviderTags]
    BY DEF ProviderInv, ProviderTypeOK
  <2>2. Stored(made + 1, call[d].config)
    BY <2>1 DEF ProviderInv, ArrivingStored
  <2>3. PICK s \in server : s.id = made + 1
    BY <2>2 DEF Stored
  <2> QED BY <2>1, <2>3
<1>11. ArrivingStored'
  <2> SUFFICES ASSUME NEW d \in Callers, NEW n \in Nat, Arriving(d, n)'
               PROVE  /\ Stored(n, call[d].config)' /\ ~Doomed(n)'
                      /\ \A o \in Providers : n \notin mine'[o]
                      /\ \A e \in Callers \ {d} : ~Arriving(e, n)'
    BY DEF ArrivingStored
  <2>1. CASE d = c
    BY <1>1, <1>3, <1>8, <1>9, <1>10, <2>1
  <2>2. CASE d # c
    <3>1. Arriving(d, n) /\ n # made + 1
      BY <1>9, <1>10, <2>2
    <3>2. /\ Stored(n, call[d].config) /\ ~Doomed(n)
          /\ \A o \in Providers : n \notin mine[o]
          /\ \A e \in Callers \ {d} : ~Arriving(e, n)
      BY <3>1 DEF ProviderInv, ArrivingStored
    <3> QED BY <1>1, <1>3, <1>9, <3>1, <3>2
  <2> QED BY <2>1, <2>2
<1> QED BY <1>3, <1>5, <1>6, <1>7, <1>11 DEF ProviderInv

LEMMA ListServed ==
    ASSUME ProviderInv, NEW c \in Callers, Provider!Serves(c), call[c].method = "list"
    PROVE  ProviderInv'
<1> DEFINE tags == {"computesdk", tag[call[c].config]}
<1>1. /\ place[c] = "sent" /\ place' = [place EXCEPT ![c] = "served"]
      /\ answer' = [answer EXCEPT ![c] = Provider!Holds(tags)]
      /\ UNCHANGED <<ownerTag, tag, call, server, made, mine, expected, listed>>
  BY DEF Provider!Serves, Provider!CallTags, Provider!AdapterTag
<1>2. Provider!Holds(tags) \in SUBSET Nat
  BY DEF Provider!Holds, ProviderInv, ProviderTypeOK
<1>3. /\ place'[c] = "served" /\ answer'[c] = Provider!Holds(tags)
      /\ \A d \in Callers \ {c} : place'[d] = place[d] /\ answer'[d] = answer[d]
  BY <1>1 DEF ProviderInv, ProviderTypeOK
<1>4. call[c].config \in Providers
  BY <1>1 DEF ProviderInv, ProviderTypeOK, ProviderCalls
<1>5. ProviderTypeOK'
  BY <1>1, <1>2 DEF ProviderInv, ProviderTypeOK
<1>6. TagKnown' /\ DestroysMade' /\ Provider!OwnListed'
  BY <1>1, <1>3 DEF ProviderInv, TagKnown, DestroysMade, Provider!OwnListed
<1>7. (\A n, o : Stored(n, o)' <=> Stored(n, o)) /\ (\A n : Doomed(n)' <=> Doomed(n))
  BY <1>1 DEF Stored, Doomed
<1>8. \A d \in Callers, n \in Nat : Arriving(d, n)' => Arriving(d, n)
  BY <1>1, <1>3 DEF Arriving
<1>9. MineStored'
  BY <1>1, <1>7 DEF ProviderInv, MineStored
<1>10. ArrivingStored'
  BY <1>1, <1>7, <1>8 DEF ProviderInv, ArrivingStored
<1>11. mine[call[c].config] \subseteq Provider!Holds(tags)
  BY <1>4 DEF ProviderInv, MineStored, Stored, Provider!Holds
<1>12. ExpectedListed'
  <2> SUFFICES ASSUME NEW d \in Callers, call[d].method = "list"
               PROVE  /\ place'[d] \in {"client", "sent"} => expected[d] \subseteq mine[call[d].config]
                      /\ place'[d] = "served" => expected[d] \subseteq answer'[d]
    BY <1>1 DEF ExpectedListed
  <2>1. CASE d = c
    BY <1>1, <1>3, <1>11, <2>1 DEF ProviderInv, ExpectedListed
  <2>2. CASE d # c
    BY <1>3, <2>2 DEF ProviderInv, ExpectedListed
  <2> QED BY <2>1, <2>2
<1> QED BY <1>5, <1>6, <1>9, <1>10, <1>12 DEF ProviderInv

LEMMA DestroyServed ==
    ASSUME ProviderInv, NEW c \in Callers, Provider!Serves(c), call[c].method = "destroy"
    PROVE  ProviderInv'
<1>1. /\ place[c] = "sent" /\ place' = [place EXCEPT ![c] = "served"]
      /\ server' = {s \in server : s.id # call[c].id}
      /\ answer' = [answer EXCEPT ![c] = {}]
      /\ UNCHANGED <<ownerTag, tag, call, made, mine, expected, listed>>
  BY DEF Provider!Serves
<1>2. /\ place'[c] = "served"
      /\ \A d \in Callers \ {c} : place'[d] = place[d] /\ answer'[d] = answer[d]
  BY <1>1 DEF ProviderInv, ProviderTypeOK
<1>3. ProviderTypeOK'
  BY <1>1 DEF ProviderInv, ProviderTypeOK
<1>4. TagKnown' /\ DestroysMade' /\ Provider!OwnListed'
  BY <1>1, <1>2 DEF ProviderInv, TagKnown, DestroysMade, Provider!OwnListed
<1>5. \A n : Doomed(n)' <=> Doomed(n)
  BY <1>1 DEF Doomed
<1>6. Doomed(call[c].id)
  BY DEF Doomed
<1>7. \A n, o : Stored(n, o) /\ ~Doomed(n) => Stored(n, o)'
  BY <1>1, <1>6 DEF Stored
<1>8. \A d \in Callers, n \in Nat : Arriving(d, n)' => Arriving(d, n)
  BY <1>1, <1>2 DEF Arriving
<1>9. MineStored'
  BY <1>1, <1>5, <1>7 DEF ProviderInv, MineStored
<1>10. ArrivingStored'
  BY <1>1, <1>5, <1>7, <1>8 DEF ProviderInv, ArrivingStored
<1>11. ExpectedListed'
  BY <1>1, <1>2 DEF ProviderInv, ExpectedListed
<1> QED BY <1>3, <1>4, <1>9, <1>10, <1>11 DEF ProviderInv

\* The answer arrives: a sandbox that was created is the config's.
LEMMA AnsweredKeeps ==
    ASSUME ProviderInv, NEW c \in Callers, Provider!Answered(c)
    PROVE  ProviderInv'
<1> DEFINE k == call[c].config
<1>1. /\ place[c] = "served" /\ Provider!Rejects(c)
      /\ mine' = IF call[c].method = "create" THEN [mine EXCEPT ![k] = @ \cup answer[c]] ELSE mine
      /\ listed' = IF call[c].method = "list"
                   THEN [must |-> expected[c], shown |-> answer[c]] ELSE listed
      /\ answer' = [answer EXCEPT ![c] = {}]
      /\ UNCHANGED <<ownerTag, tag, server, made>>
  BY DEF Provider!Answered
<1>2. /\ call'[c] = Provider!NoCall /\ place'[c] = "idle" /\ expected'[c] = {}
      /\ \A d \in Callers \ {c} :
            /\ call'[d] = call[d] /\ place'[d] = place[d] /\ expected'[d] = expected[d]
            /\ answer'[d] = answer[d]
  BY <1>1 DEF Provider!Rejects, ProviderInv, ProviderTypeOK
<1>3. Provider!NoCall.method = "none"
  BY DEF Provider!NoCall
<1>4. call[c] \in ProviderCalls /\ k \in Providers
  BY <1>1 DEF ProviderInv, ProviderTypeOK, ProviderCalls
<1>5. mine' \in [Providers -> SUBSET Nat] /\ \A o \in Providers : mine[o] \subseteq mine'[o]
  BY <1>1, <1>4 DEF ProviderInv, ProviderTypeOK
<1>6. ProviderTypeOK'
  BY <1>1, <1>2, <1>5 DEF Provider!Rejects, ProviderInv, ProviderTypeOK
<1>7. TagKnown' /\ DestroysMade'
  BY <1>1, <1>2, <1>3 DEF ProviderInv, TagKnown, DestroysMade
<1>8. \A n, o : Stored(n, o) => Stored(n, o)'
  BY <1>1 DEF Stored
<1>9. \A n : Doomed(n)' => Doomed(n)
  BY <1>2, <1>3 DEF Doomed
<1>10. \A o \in Providers : \A n \in mine'[o] :
          n \in mine[o] \/ (n \in Nat /\ Arriving(c, n) /\ o = k)
  BY <1>1, <1>4 DEF Arriving, ProviderInv, ProviderTypeOK
<1>11. \A n \in Nat : Arriving(c, n) => tag[k] # "none"
  BY DEF Arriving, ProviderInv, TagKnown
<1>12. MineStored'
  <2> SUFFICES ASSUME NEW o \in Providers, NEW n \in mine'[o]
               PROVE  tag[o] # "none" /\ Stored(n, o)' /\ ~Doomed(n)'
    BY <1>1 DEF MineStored
  <2>1. CASE n \in mine[o]
    BY <1>8, <1>9, <2>1 DEF ProviderInv, MineStored
  <2>2. CASE n \in Nat /\ Arriving(c, n) /\ o = k
    BY <1>8, <1>9, <1>11, <2>2 DEF ProviderInv, ArrivingStored
  <2> QED BY <1>10, <2>1, <2>2
<1>13. \A d \in Callers, n \in Nat : Arriving(d, n)' => d # c /\ Arriving(d, n) /\ call'[d] = call[d]
  BY <1>1, <1>2, <1>3 DEF Arriving
<1>14. ArrivingStored'
  <2> SUFFICES ASSUME NEW d \in Callers, NEW n \in Nat, Arriving(d, n)'
               PROVE  /\ Stored(n, call[d].config)' /\ ~Doomed(n)'
                      /\ \A o \in Providers : n \notin mine'[o]
                      /\ \A e \in Callers \ {d} : ~Arriving(e, n)'
    BY DEF ArrivingStored
  <2>1. d # c /\ Arriving(d, n) /\ call'[d] = call[d]
    BY <1>13
  <2>2. /\ Stored(n, call[d].config) /\ ~Doomed(n)
        /\ \A o \in Providers : n \notin mine[o]
        /\ \A e \in Callers \ {d} : ~Arriving(e, n)
    BY <2>1 DEF ProviderInv, ArrivingStored
  <2> QED BY <1>8, <1>9, <1>10, <1>13, <2>1, <2>2
<1>15. ExpectedListed'
  <2> SUFFICES ASSUME NEW d \in Callers, call'[d].method = "list"
               PROVE  /\ place'[d] \in {"client", "sent"} => expected'[d] \subseteq mine'[call'[d].config]
                      /\ place'[d] = "served" => expected'[d] \subseteq answer'[d]
    BY DEF ExpectedListed
  <2>1. d # c
    BY <1>2, <1>3
  <2>2. place[d] # "idle" => call[d].config \in Providers
    BY DEF ProviderInv, ProviderTypeOK, ProviderCalls
  <2> QED BY <1>2, <1>5, <2>1, <2>2 DEF ProviderInv, ExpectedListed
<1>16. Provider!OwnListed'
  BY <1>1 DEF ProviderInv, Provider!OwnListed, ExpectedListed
<1> QED BY <1>6, <1>7, <1>12, <1>14, <1>15, <1>16 DEF ProviderInv

LEMMA ProviderStep ==
    ASSUME ProviderInv,
           [Provider!ProviderNext]_<<ownerTag, client, tag, drawn, calls, call, place, answer,
                                     server, made, mine, expected, listed>>
    PROVE  ProviderInv'
<1>1. ASSUME NEW c \in Callers, NEW k \in Providers, NEW method \in {"create", "list"},
             Provider!Call(c, k, method, 0)
      PROVE  ProviderInv'
  BY <1>1, CallKeeps
<1>2. ASSUME NEW c \in Callers, NEW k \in Providers, NEW id \in Provider!Known,
             Provider!Call(c, k, "destroy", id)
      PROVE  ProviderInv'
  <2>1. id \in Nat
    BY <1>2 DEF Provider!Known, ProviderInv, ProviderTypeOK
  <2> QED BY <1>2, <2>1, CallKeeps
<1>3. ASSUME UNCHANGED <<ownerTag, tag, call, place, answer, server, made, mine, expected, listed>>
      PROVE  ProviderInv'
  BY <1>3 DEF ProviderInv, ProviderTypeOK, TagKnown, DestroysMade, MineStored, ArrivingStored,
              ExpectedListed, Stored, Doomed, Arriving, Provider!OwnListed
<1>4. ASSUME NEW k \in Providers, NEW how, Provider!ClientMade(k, how)
      PROVE  ProviderInv'
  BY <1>3, <1>4 DEF Provider!ClientMade
<1>5. ASSUME NEW c \in Callers, \/ Provider!ClientRejected(c) \/ Provider!TagRefused(c)
                                \/ Provider!Fails(c)
      PROVE  ProviderInv'
  BY <1>5, RejectKeeps DEF Provider!ClientRejected, Provider!TagRefused, Provider!Fails
<1>6. ASSUME NEW c \in Callers, Provider!Serves(c)
      PROVE  ProviderInv'
  <2>1. call[c].method \in {"create", "list", "destroy"}
    BY <1>6 DEF Provider!Serves, ProviderInv, ProviderTypeOK, ProviderCalls
  <2> QED BY <1>6, <2>1, CreateServed, ListServed, DestroyServed
<1>7. ASSUME NEW t \in OwnerTags, NEW more \in SUBSET {Provider!AdapterTag},
             Provider!OtherMakes({t} \cup more)
      PROVE  ProviderInv'
  <2>1. {t} \cup more \in SUBSET ProviderTags
    BY DEF ProviderTags, Provider!AdapterTag
  <2> QED BY <1>7, <2>1, OtherMakesKeeps
<1> QED BY <1>1, <1>2, <1>3, <1>4, <1>5, <1>6, <1>7, SendKeeps, AnsweredKeeps
        DEF Provider!ProviderNext, Provider!Scoped

\* list() of a config shows every sandbox that its create() had returned and nobody
\* destroys, whichever calls overlap; and getUrl() ends with its time and does not
\* miss a URL that was there when it last asked.
THEOREM ProviderIsKept == MCSpec => []ProviderKept
<1>1. MCInit => ProviderInv /\ UrlInv
  BY ProviderInitInv, UrlInitInv DEF MCInit
<1>2. ProviderInv /\ [MCNext]_all => ProviderInv'
  BY ProviderStep, ProviderMoves
<1>3. UrlInv /\ [MCNext]_all => UrlInv'
  BY UrlStep, UrlMoves
<1>4. ProviderInv /\ UrlInv => ProviderKept
  BY UrlHolds DEF ProviderInv, ProviderKept
<1> QED BY <1>1, <1>2, <1>3, <1>4, PTL DEF MCSpec

----------------------------------------------------------------------------
(* What a failed RPC means.                                                 *)

ParsedTypes ==
    [reason : Errors!Reasons \cup {""}, domain : Errors!Domains, delay : Delays \cup {-1},
     fields : BOOLEAN]

\* The first detail of these is the one the parser took, if it came by one.
Took(places, i) == i \in places /\ i < at /\ \A j \in places : i <= j
Missed(places) == \A i \in places : at <= i

ReasonTaken ==
    \/ parsed.reason = "" /\ parsed.domain = "" /\ Missed(Errors!Infos)
    \/ \E i \in DOMAIN details :
          /\ Took(Errors!Infos, i)
          /\ parsed.reason = details[i].reason /\ parsed.domain = details[i].domain
DelayTaken ==
    \/ parsed.delay = -1 /\ Missed(Errors!RetryHints)
    \/ \E i \in DOMAIN details : Took(Errors!RetryHints, i) /\ parsed.delay = details[i].delay

\* The parser is past details that all decode, and keeps the first of each kind,
\* or one did not decode and it keeps nothing.
Scanned ==
    /\ \A i \in DOMAIN details : i < at => details[i].kind # "broken"
    /\ ReasonTaken /\ DelayTaken
Spoiled == at = Len(details) + 1 /\ parsed = Errors!Nothing /\ ~Errors!Legible

ErrorInv ==
    /\ code \in Errors!Codes /\ details \in Seq(Errors!Details)
    /\ at \in 1..(Len(details) + 1) /\ parsed \in ParsedTypes
    /\ Scanned \/ Spoiled
    /\ \/ mapped = Errors!NoError
       \/ at > Len(details) /\ mapped = Errors!GrpcError(Errors!Class(code, parsed))

LEMMA NothingTyped ==
    /\ Errors!Nothing \in ParsedTypes /\ Errors!Nothing.reason = ""
    /\ Errors!Nothing.domain = "" /\ Errors!Nothing.delay = -1
BY DEF Errors!Nothing, ParsedTypes, Errors!None, Errors!NoDelay, Errors!Domains

LEMMA ErrorInitInv == ASSUME Errors!ErrorInit PROVE ErrorInv
<1>1. PICK n \in 0..MaxDetails : details \in [1..n -> Errors!Details]
  BY DEF Errors!ErrorInit
<1>2. n \in Nat
  BY <1>1
<1>3. details \in Seq(Errors!Details)
  BY <1>1, <1>2, SeqDef
<1>4. Len(details) \in Nat /\ DOMAIN details = 1..Len(details)
  BY <1>3, LenProperties
<1>5. at = 1 /\ parsed = Errors!Nothing /\ mapped = Errors!NoError /\ code \in Errors!Codes
  BY DEF Errors!ErrorInit
<1>6. \A i \in DOMAIN details : i \in Nat /\ 1 <= i
  BY <1>4
<1>7. Missed(Errors!Infos) /\ Missed(Errors!RetryHints)
  BY <1>5, <1>6 DEF Missed, Errors!Infos, Errors!RetryHints
<1>8. Scanned
  <2>1. \A i \in DOMAIN details : ~(i < at)
    BY <1>5, <1>6
  <2>2. ReasonTaken /\ DelayTaken
    BY <1>5, <1>7, NothingTyped DEF ReasonTaken, DelayTaken
  <2> QED BY <2>1, <2>2 DEF Scanned
<1>9. at \in 1..(Len(details) + 1)
  BY <1>4, <1>5
<1> QED BY <1>3, <1>5, <1>8, <1>9, NothingTyped DEF ErrorInv

\* What one detail adds to the reason and to the delay.
LEMMA NoteTakes ==
    ASSUME NEW p \in ParsedTypes, NEW d \in Errors!Details
    PROVE  /\ Errors!Note(p, d) \in ParsedTypes
           /\ IF d.kind = "errorInfo" /\ d.reason # "" /\ p.reason = ""
              THEN Errors!Note(p, d).reason = d.reason /\ Errors!Note(p, d).domain = d.domain
              ELSE Errors!Note(p, d).reason = p.reason /\ Errors!Note(p, d).domain = p.domain
           /\ IF d.kind = "retryInfo" /\ p.delay = -1
              THEN Errors!Note(p, d).delay = d.delay
              ELSE Errors!Note(p, d).delay = p.delay
<1> USE DEF ParsedTypes, Errors!Details, Errors!None, Errors!NoDelay
<1>1. CASE d.kind = "errorInfo"
  BY <1>1 DEF Errors!Note
<1>2. CASE d.kind = "retryInfo"
  BY <1>2 DEF Errors!Note
<1>3. CASE d.kind = "badRequest"
  BY <1>3 DEF Errors!Note
<1>4. CASE d.kind \in {"unknown", "broken"}
  BY <1>4 DEF Errors!Note
<1> QED BY <1>1, <1>2, <1>3, <1>4

\* One more detail: the scan stays whole, or is spoiled for good.
LEMMA ParseKeeps == ASSUME ErrorInv, Errors!ParseDetail PROVE ErrorInv'
<1>1. /\ mapped = Errors!NoError /\ at <= Len(details)
      /\ UNCHANGED <<code, details, mapped>>
  BY DEF Errors!ParseDetail
<1>2. /\ Len(details) \in Nat /\ DOMAIN details = 1..Len(details)
      /\ details \in [1..Len(details) -> Errors!Details]
  BY LenProperties DEF ErrorInv
<1>3. at \in Nat /\ at \in DOMAIN details /\ details[at] \in Errors!Details
  BY <1>1, <1>2 DEF ErrorInv
<1>4. Scanned /\ parsed \in ParsedTypes
  BY <1>1, <1>2 DEF ErrorInv, Spoiled
<1>5. CASE details[at].kind = "broken"
  <2>1. parsed' = Errors!Nothing /\ at' = Len(details) + 1
    BY <1>5 DEF Errors!ParseDetail
  <2>2. Spoiled'
    BY <1>1, <1>3, <1>5, <2>1 DEF Spoiled, Errors!Legible
  <2>3. at' \in 1..(Len(details) + 1)
    BY <1>2, <2>1
  <2> QED BY <1>1, <2>1, <2>2, <2>3, NothingTyped DEF ErrorInv
<1>6. CASE details[at].kind # "broken"
  <2> DEFINE d == details[at]
  <2>1. parsed' = Errors!Note(parsed, d) /\ at' = at + 1
    BY <1>6 DEF Errors!ParseDetail
  <2>2. /\ parsed' \in ParsedTypes
        /\ IF d.kind = "errorInfo" /\ d.reason # "" /\ parsed.reason = ""
           THEN parsed'.reason = d.reason /\ parsed'.domain = d.domain
           ELSE parsed'.reason = parsed.reason /\ parsed'.domain = parsed.domain
        /\ IF d.kind = "retryInfo" /\ parsed.delay = -1
           THEN parsed'.delay = d.delay
           ELSE parsed'.delay = parsed.delay
    BY <1>3, <1>4, <2>1, NoteTakes
  <2>3. \A i \in DOMAIN details : i \in Nat /\ (i < at' <=> i < at \/ i = at)
    BY <1>2, <1>3, <2>1
  <2>4. /\ Errors!Infos \subseteq DOMAIN details /\ Errors!RetryHints \subseteq DOMAIN details
        /\ Errors!Infos' = Errors!Infos /\ Errors!RetryHints' = Errors!RetryHints
    BY <1>1 DEF Errors!Infos, Errors!RetryHints
  <2>5. \A places \in SUBSET DOMAIN details :
          /\ Missed(places) /\ at \notin places => Missed(places)'
          /\ \A i \in DOMAIN details :
                Took(places, i) \/ (Missed(places) /\ i \in places /\ i = at) => Took(places, i)'
    BY <1>3, <2>1, <2>3 DEF Missed, Took
  <2>6. \A i \in DOMAIN details : i < at' => details[i].kind # "broken"
    BY <1>4, <1>6, <2>3 DEF Scanned
  <2>7. ReasonTaken'
    <3>1. at \in Errors!Infos <=> d.kind = "errorInfo" /\ d.reason # ""
      BY <1>3 DEF Errors!Infos, Errors!None
    <3>2. CASE parsed.reason = "" /\ parsed.domain = "" /\ Missed(Errors!Infos) /\ at \notin Errors!Infos
      BY <2>2, <2>4, <2>5, <3>1, <3>2 DEF ReasonTaken
    <3>3. CASE parsed.reason = "" /\ Missed(Errors!Infos) /\ at \in Errors!Infos
      <4>1. PICK i \in DOMAIN details : i = at
        BY <1>3
      <4>2. Took(Errors!Infos, i)'
        BY <2>4, <2>5, <3>3, <4>1
      <4> QED BY <1>1, <2>2, <3>1, <3>3, <4>1, <4>2 DEF ReasonTaken
    <3>4. ASSUME NEW i \in DOMAIN details, Took(Errors!Infos, i),
                 parsed.reason = details[i].reason, parsed.domain = details[i].domain
          PROVE  ReasonTaken'
      <4>1. details[i].reason # ""
        BY <3>4 DEF Took, Errors!Infos, Errors!None
      <4> QED BY <1>1, <2>2, <2>4, <2>5, <3>4, <4>1 DEF ReasonTaken
    <3> QED BY <1>4, <3>2, <3>3, <3>4 DEF Scanned, ReasonTaken
  <2>8. DelayTaken'
    <3>1. at \in Errors!RetryHints <=> d.kind = "retryInfo" /\ d.delay # -1
      BY <1>3 DEF Errors!RetryHints, Errors!NoDelay
    <3>2. CASE parsed.delay = -1 /\ Missed(Errors!RetryHints) /\ at \notin Errors!RetryHints
      BY <2>2, <2>4, <2>5, <3>1, <3>2 DEF DelayTaken
    <3>3. CASE parsed.delay = -1 /\ Missed(Errors!RetryHints) /\ at \in Errors!RetryHints
      <4>1. PICK i \in DOMAIN details : i = at
        BY <1>3
      <4>2. Took(Errors!RetryHints, i)'
        BY <2>4, <2>5, <3>3, <4>1
      <4> QED BY <1>1, <2>2, <3>1, <3>3, <4>1, <4>2 DEF DelayTaken
    <3>4. ASSUME NEW i \in DOMAIN details, Took(Errors!RetryHints, i), parsed.delay = details[i].delay
          PROVE  DelayTaken'
      <4>1. details[i].delay # -1
        BY <3>4 DEF Took, Errors!RetryHints, Errors!NoDelay
      <4> QED BY <1>1, <2>2, <2>4, <2>5, <3>4, <4>1 DEF DelayTaken
    <3> QED BY <1>4, <3>2, <3>3, <3>4 DEF Scanned, DelayTaken
  <2>9. Scanned'
    BY <1>1, <2>6, <2>7, <2>8 DEF Scanned
  <2>10. at' \in 1..(Len(details) + 1)
    BY <1>1, <1>2, <1>3, <2>1
  <2> QED BY <1>1, <2>2, <2>9, <2>10 DEF ErrorInv
<1> QED BY <1>5, <1>6

LEMMA ErrorStep == ASSUME ErrorInv, [Errors!ErrorNext]_errorVars PROVE ErrorInv'
<1>1. CASE Errors!MapGrpcError
  BY <1>1 DEF Errors!MapGrpcError, ErrorInv, Scanned, Spoiled, ReasonTaken, DelayTaken, Took, Missed,
              Errors!Infos, Errors!RetryHints, Errors!Legible, Errors!GrpcError
<1>2. CASE UNCHANGED errorVars
  BY <1>2 DEF errorVars, ErrorInv, Scanned, Spoiled, ReasonTaken, DelayTaken, Took, Missed,
              Errors!Infos, Errors!RetryHints, Errors!Legible, Errors!GrpcError
<1> QED BY <1>1, <1>2, ParseKeeps DEF Errors!ErrorNext

\* At the end of the details, what the parser kept is the first of each kind.
LEMMA KeptFirst == ASSUME ErrorInv, at > Len(details) PROVE Errors!ParsedFirst
<1>1. Len(details) \in Nat /\ DOMAIN details = 1..Len(details) /\ at \in Nat
  BY LenProperties DEF ErrorInv
<1>2. \A i \in DOMAIN details : i \in Nat /\ i < at
  BY <1>1
<1>3. Errors!Infos \subseteq DOMAIN details /\ Errors!RetryHints \subseteq DOMAIN details
  BY DEF Errors!Infos, Errors!RetryHints
<1>4. \A places \in SUBSET DOMAIN details : Missed(places) => places = {}
  BY <1>1, <1>2 DEF Missed
<1>5. ASSUME NEW places \in SUBSET DOMAIN details, NEW i \in DOMAIN details, Took(places, i)
      PROVE  places # {} /\ Errors!First(places) = details[i]
  <2>1. \A j \in places : (\A n \in places : j <= n) => j = i
    BY <1>2, <1>5 DEF Took
  <2>2. (CHOOSE j \in places : \A n \in places : j <= n) = i
    BY <1>5, <2>1 DEF Took
  <2> QED BY <1>5, <2>2 DEF Took, Errors!First
<1>6. CASE Scanned
  <2>1. Errors!Legible
    BY <1>2, <1>6 DEF Scanned, Errors!Legible
  <2>2. /\ parsed.reason = IF Errors!Infos # {} THEN Errors!First(Errors!Infos).reason ELSE ""
        /\ parsed.domain = IF Errors!Infos # {} THEN Errors!First(Errors!Infos).domain ELSE ""
    BY <1>3, <1>4, <1>5, <1>6 DEF Scanned, ReasonTaken
  <2>3. parsed.delay = IF Errors!RetryHints # {} THEN Errors!First(Errors!RetryHints).delay ELSE -1
    BY <1>3, <1>4, <1>5, <1>6 DEF Scanned, DelayTaken
  <2> QED BY <2>1, <2>2, <2>3 DEF Errors!ParsedFirst, Errors!None, Errors!NoDelay
<1>7. CASE Spoiled
  BY <1>7, NothingTyped DEF Spoiled, Errors!ParsedFirst, Errors!None, Errors!NoDelay
<1> QED BY <1>6, <1>7 DEF ErrorInv

\* The classes that the verdicts turn on.
LEMMA ClassFacts ==
    /\ "sandbox_not_found" \in DOMAIN Errors!ClassOfReason
    /\ "shard_retiring" \in DOMAIN Errors!ClassOfReason
    /\ Errors!ClassOfReason["sandbox_not_found"] = "not_found"
    /\ Errors!ClassOfReason["shard_retiring"] = "unavailable"
    /\ "overloaded" \notin DOMAIN Errors!ClassOfReason
    /\ "capacity" \notin DOMAIN Errors!ClassOfReason
    /\ Errors!ClassOfCode["NOT_FOUND"] = "not_found"
    /\ Errors!ClassOfCode["UNAVAILABLE"] = "unavailable"
    /\ Errors!ClassOfCode["RESOURCE_EXHAUSTED"] = "resource_exhausted"
BY DEF Errors!ClassOfReason, Errors!ClassOfCode

LEMMA VerdictsFollow == ErrorInv => VerdictsAgree
<1> SUFFICES ASSUME ErrorInv, mapped # Errors!NoError
             PROVE  VerdictsAgree
  BY DEF VerdictsAgree, Errors!VerdictsAgree
<1>1. at > Len(details) /\ mapped = Errors!GrpcError(Errors!Class(code, parsed))
  BY DEF ErrorInv
<1>2. Errors!ParsedFirst
  BY <1>1, KeptFirst
<1>3. /\ mapped.class = Errors!Class(code, parsed) /\ mapped.transportCode = code
      /\ mapped.reason = parsed.reason /\ mapped.domain = parsed.domain
  BY <1>1 DEF Errors!GrpcError
<1>4. Errors!OurReason(parsed) <=> parsed.domain = "cwsandbox.com" /\ parsed.reason # ""
  BY DEF Errors!OurReason, Errors!None
<1>5. ~Errors!OurReason(parsed) => mapped.class = Errors!ClassOfCode[code]
  BY <1>3 DEF Errors!Class
<1>6. Errors!OurReason(parsed) =>
          /\ parsed.reason = "shard_retiring" => mapped.class = "unavailable"
          /\ parsed.reason = "sandbox_not_found" => mapped.class = "not_found"
          /\ parsed.reason \in {"overloaded", "capacity"} => mapped.class = Errors!ClassOfCode[code]
  BY <1>3, ClassFacts DEF Errors!Class
<1>7. Errors!IsGrpcUnavailable(mapped) <=> Errors!RawUnavailable
  BY <1>3 DEF Errors!IsGrpcUnavailable, Errors!RawUnavailable
<1>8. Errors!IsRunnerShardRetiring(mapped) <=> Errors!RawRetiring
  BY <1>3, <1>4 DEF Errors!IsRunnerShardRetiring, Errors!RawRetiring, Errors!Says
<1>9. Errors!RawOverloaded => Errors!IsRunnerOverloadedError(mapped) /\ Errors!Retryable(mapped)
  BY <1>3, <1>4, <1>6, ClassFacts
     DEF Errors!RawOverloaded, Errors!IsRunnerOverloadedError, Errors!Retryable, Errors!Says,
         Errors!IsTransportError
<1>10. Errors!RawCapacity => Errors!Retryable(mapped)
  BY <1>6, ClassFacts DEF Errors!RawCapacity, Errors!Retryable
<1>11. Errors!RawSandboxNotFound /\ ~Errors!IsSandboxNotFound(mapped) => Errors!OurReason(parsed)
  BY <1>5, ClassFacts DEF Errors!RawSandboxNotFound, Errors!IsSandboxNotFound
<1>12. ~Errors!OurReason(parsed) => ~Errors!RawRetiring /\ ~Errors!IsRunnerOverloadedError(mapped)
  BY <1>3, <1>4 DEF Errors!RawRetiring, Errors!IsRunnerOverloadedError, Errors!Says
<1> QED BY <1>2, <1>5, <1>7, <1>8, <1>9, <1>10, <1>11, <1>12 DEF VerdictsAgree, Errors!VerdictsAgree

\* The readers of the raw status and those of the mapped error agree about one
\* failure, whatever details come with it, how many, and in which order.
THEOREM VerdictsDoAgree == MCSpec => []VerdictsAgree
<1>1. MCInit => ErrorInv
  BY ErrorInitInv DEF MCInit
<1>2. ErrorInv /\ [MCNext]_all => ErrorInv'
  BY ErrorStep, ErrorMoves
<1> QED BY <1>1, <1>2, VerdictsFollow, PTL DEF MCSpec

----------------------------------------------------------------------------
(* What a handle shows of its services.                                     *)

\* A record lists a TLS service with at most an address, which it exposes then,
\* and any other with at most one URL.
RowFits(s, row) ==
    /\ row.url \in Nat /\ row.endpointUrl \in Nat /\ row.address \in Nat
    /\ IF s \in Tls
       THEN /\ row.kind \in {"none", "tls"} /\ row.url = 0 /\ row.endpointUrl = 0
            /\ row.address > 0 => row.visible
       ELSE /\ row.kind \in {"none", "https"} /\ row.address = 0
            /\ row.kind = "https" => row.url = 0
            /\ row.kind = "none" => row.endpointUrl = 0
RecordFits(rec) ==
    DOMAIN rec.rows \subseteq Services /\ \A s \in DOMAIN rec.rows : RowFits(s, rec.rows[s])

\* The addresses of a handle are the latest it was told, each of a TLS service.
AddressesLatest ==
    \A s \in DOMAIN view.addresses : s \in Tls \cap Services /\ view.addresses[s] = last[s]

ViewInv ==
    /\ rows \subseteq Services /\ offered \in [Services -> Nat]
    /\ \A rec \in inFlight : RecordFits(rec)
    /\ AddressesLatest /\ View!ShowsAnswer

LEMMA NoAddresses == DOMAIN View!Nothing = {}
BY DEF View!Nothing

LEMMA ViewInitInv == ASSUME View!ViewInit PROVE ViewInv
<1>1. Offers \subseteq SUBSET Services
  BY Zenon, PlaneAssumption
<1>2. View!Unset.addresses = View!Nothing
  BY DEF View!Unset
<1>3. AddressesLatest
  BY <1>2, NoAddresses DEF View!ViewInit, AddressesLatest
<1>4. View!ShowsAnswer
  BY DEF View!ViewInit, View!ShowsAnswer
<1> QED BY <1>1, <1>3, <1>4 DEF View!ViewInit, ViewInv

LEMMA RowsFit ==
    ASSUME offered \in [Services -> Nat], NEW s \in Services, NEW row \in View!RowsOf(s)
    PROVE  RowFits(s, row)
<1>1. offered[s] \in Nat
  OBVIOUS
<1>2. CASE s \in Tls
  BY <1>1, <1>2 DEF View!RowsOf, View!Unexposed, View!Hidden, RowFits
<1>3. CASE s \notin Tls
  <2>1. \/ row = View!Unexposed
        \/ row = [View!Hidden("none") EXCEPT !.url = offered[s]]
        \/ row = [View!Hidden("https") EXCEPT !.timeout = TRUE]
        \/ row = [View!Hidden("https") EXCEPT !.timeout = TRUE, !.endpointUrl = offered[s]]
    BY <1>3 DEF View!RowsOf
  <2>2. /\ row.url \in Nat /\ row.endpointUrl \in Nat /\ row.address = 0
        /\ \/ row.kind = "https" /\ row.url = 0
           \/ row.kind = "none" /\ row.endpointUrl = 0
    <3>1. CASE row = View!Unexposed
      BY <3>1 DEF View!Unexposed, View!Hidden
    <3>2. CASE row = [View!Hidden("none") EXCEPT !.url = offered[s]]
      BY <1>1, <3>2 DEF View!Hidden
    <3>3. CASE row = [View!Hidden("https") EXCEPT !.timeout = TRUE]
      BY <3>3 DEF View!Hidden
    <3>4. CASE row = [View!Hidden("https") EXCEPT !.timeout = TRUE, !.endpointUrl = offered[s]]
      BY <1>1, <3>4 DEF View!Hidden
    <3> QED BY <2>1, <3>1, <3>2, <3>3, <3>4
  <2> QED BY <1>3, <2>2 DEF RowFits
<1> QED BY <1>2, <1>3

\* What the server gives fits.
LEMMA RecordsFit ==
    ASSUME rows \subseteq Services, offered \in [Services -> Nat], NEW rec \in View!Records
    PROVE  RecordFits(rec)
<1>1. DOMAIN rec.rows = rows /\ \A s \in rows : rec.rows[s] \in View!RowsOf(s)
  BY DEF View!Records
<1> QED BY <1>1, RowsFit DEF RecordFits

LEMMA AppliesShows ==
    ASSUME ViewInv, NEW rec \in inFlight, View!Applies(rec)
    PROVE  AddressesLatest' /\ View!ShowsAnswer' /\ View!AddressesKept
<1> DEFINE urls == View!ServiceUrls(rec)
           endpoints == View!ServiceEndpoints(rec)
           new == View!ServiceAddresses(rec)
           live == View!Visible(rec) \cup DOMAIN new
           kept == DOMAIN view.addresses \cap live
           merged == View!MergedAddresses(rec)
           R == rec.rows
<1>1. /\ rec.state \in View!Known
      /\ view' = View!Updated(rec) /\ applied' = rec
      /\ last' = [s \in Services |-> IF s \in DOMAIN new THEN new[s] ELSE last[s]]
  BY DEF View!Applies
<1>2. /\ view'.urls = urls /\ view'.endpoints = endpoints /\ view'.addresses = merged
      /\ view'.ports = View!MergedPorts(rec)
  BY <1>1 DEF View!Updated
<1>3. DOMAIN R \subseteq Services /\ \A s \in DOMAIN R : RowFits(s, R[s])
  BY DEF ViewInv, RecordFits
<1>4. /\ \A s \in DOMAIN urls : s \in DOMAIN R /\ urls[s] = View!UrlOf(R[s]) /\ View!UrlOf(R[s]) # 0
      /\ \A s \in DOMAIN R : R[s].kind # "tls" /\ View!UrlOf(R[s]) # 0 => s \in DOMAIN urls
  BY DEF View!ServiceUrls, View!Listed, View!Row
<1>5. \A s \in DOMAIN endpoints :
          s \in DOMAIN R /\ R[s].kind = "https" /\ endpoints[s] = R[s].endpointUrl
  BY DEF View!ServiceEndpoints, View!Listed, View!Row
<1>6. \A s \in DOMAIN new :
          s \in DOMAIN R /\ R[s].kind = "tls" /\ new[s] = R[s].address /\ R[s].address # 0
  BY DEF View!ServiceAddresses, View!Listed, View!Row
<1>7. View!Visible(rec) = {s \in DOMAIN R : R[s].visible}
  BY DEF View!Visible, View!Listed, View!Row
<1>8. DOMAIN new \subseteq Tls \cap View!Visible(rec)
  BY <1>3, <1>6, <1>7 DEF RowFits
<1>9. live = View!Visible(rec)
  BY <1>8
<1>10. View!Retains(rec) <=> rec.state \in {"preparing", "creating", "running"}
  BY <1>1 DEF View!Retains, View!Status, View!Known
<1>11. View!Retains(rec) =>
          merged = [s \in DOMAIN new \cup kept |-> IF s \in DOMAIN new THEN new[s] ELSE view.addresses[s]]
  BY DEF View!MergedAddresses
<1>12. ~View!Retains(rec) => DOMAIN merged = {}
  BY NoAddresses DEF View!MergedAddresses
<1>13. \A s \in DOMAIN merged :
          /\ s \in Tls \cap Services /\ s \in View!Visible(rec) /\ View!Retains(rec)
          /\ merged[s] = last'[s]
  <2> SUFFICES ASSUME NEW s \in DOMAIN merged
               PROVE  /\ s \in Tls \cap Services /\ s \in View!Visible(rec)
                      /\ View!Retains(rec) /\ merged[s] = last'[s]
    OBVIOUS
  <2>1. /\ View!Retains(rec) /\ s \in DOMAIN new \cup kept
        /\ merged[s] = IF s \in DOMAIN new THEN new[s] ELSE view.addresses[s]
    BY <1>11, <1>12
  <2>2. s \in Tls \cap Services /\ s \in View!Visible(rec)
    BY <1>3, <1>6, <1>8, <1>9, <2>1 DEF ViewInv, AddressesLatest
  <2> QED BY <1>1, <2>1, <2>2 DEF ViewInv, AddressesLatest
<1>14. \A s \in DOMAIN view.addresses :
          s \in View!Visible(rec) /\ View!Retains(rec) => s \in DOMAIN merged
  BY <1>9, <1>11
<1>15. AddressesLatest'
  BY <1>2, <1>13 DEF AddressesLatest
<1>16. View!ShowsAnswer'
  <2>1. \A s \in DOMAIN urls :
            s \in DOMAIN R \ Tls /\ urls[s] \in {R[s].url, R[s].endpointUrl} \ {0}
    BY <1>3, <1>4 DEF View!UrlOf, RowFits
  <2>2. \A s \in DOMAIN R \ Tls : R[s].url + R[s].endpointUrl > 0 => s \in DOMAIN urls
    <3> SUFFICES ASSUME NEW s \in DOMAIN R \ Tls, R[s].url + R[s].endpointUrl > 0
                 PROVE  s \in DOMAIN urls
      OBVIOUS
    <3>1. View!UrlOf(R[s]) # 0 /\ R[s].kind # "tls"
      BY <1>3 DEF View!UrlOf, RowFits
    <3> QED BY <1>4, <3>1
  <2>3. \A s \in DOMAIN endpoints :
            endpoints[s] # 0 => s \in DOMAIN urls /\ urls[s] = endpoints[s]
    <3> SUFFICES ASSUME NEW s \in DOMAIN endpoints, endpoints[s] # 0
                 PROVE  s \in DOMAIN urls /\ urls[s] = endpoints[s]
      OBVIOUS
    <3>1. s \in DOMAIN R /\ R[s].kind = "https" /\ endpoints[s] = R[s].endpointUrl
      BY <1>5
    <3>2. R[s].url = 0
      BY <1>3, <3>1 DEF RowFits
    <3>3. View!UrlOf(R[s]) = endpoints[s]
      BY <3>1, <3>2 DEF View!UrlOf
    <3> QED BY <1>4, <3>1, <3>3
  <2>4. View!Visible(rec) # {} => view'.ports = View!Visible(rec)
    BY <1>2 DEF View!MergedPorts
  <2>5. \A s \in DOMAIN merged :
            /\ s \in view'.ports /\ s \in View!Visible(rec) \cap Tls
            /\ rec.state \in {"preparing", "creating", "running"} /\ merged[s] = last'[s]
    BY <1>10, <1>13, <2>4
  <2> QED BY <1>1, <1>2, <2>1, <2>2, <2>3, <2>5 DEF View!ShowsAnswer, View!Listed, View!Row
<1>17. View!AddressesKept
  <2> SUFFICES ASSUME NEW s \in DOMAIN view.addresses, s \in View!Visible(rec),
                      rec.state \in {"preparing", "creating", "running"}
               PROVE  s \in DOMAIN view'.addresses /\ s \in DOMAIN View!Inspected(rec, view').addresses
    BY <1>1 DEF View!AddressesKept
  <2>1. s \in DOMAIN merged
    BY <1>10, <1>14
  <2>2. merged # View!Nothing
    BY <2>1, NoAddresses
  <2>3. View!Inspected(rec, view').addresses = merged
    BY <1>1, <1>2, <2>2 DEF View!Inspected, View!Updated
  <2> QED BY <1>2, <2>1, <2>3
<1> QED BY <1>15, <1>16, <1>17

\* A step that does not touch what the handle shows.
LEMMA ViewStays ==
    ASSUME ViewInv, UNCHANGED <<view, applied, last>>
    PROVE  AddressesLatest' /\ View!ShowsAnswer' /\ View!AddressesKept
BY DEF ViewInv, AddressesLatest, View!ShowsAnswer, View!Visible, View!Listed, View!Row,
       View!AddressesKept

LEMMA ViewStep ==
    ASSUME ViewInv, [View!ViewNext]_handleVars
    PROVE  ViewInv' /\ View!ShowsAnswer' /\ View!AddressesKept
<1>1. ASSUME NEW rec \in inFlight, View!Applies(rec)
      PROVE  ViewInv' /\ View!AddressesKept
  <2>1. UNCHANGED <<rows, offered>> /\ inFlight' \subseteq inFlight
    BY <1>1 DEF View!Applies, View!serverVars
  <2> QED BY <1>1, <2>1, AppliesShows DEF ViewInv, RecordFits, RowFits
<1>2. ASSUME UNCHANGED <<view, applied, last>>, inFlight' \subseteq inFlight,
             rows' \subseteq rows, offered' \in [Services -> Nat]
      PROVE  ViewInv' /\ View!AddressesKept
  BY <1>2, ViewStays DEF ViewInv, RecordFits, RowFits
<1>3. CASE View!Moves
  BY <1>2, <1>3 DEF View!Moves, View!historyVars, ViewInv
<1>4. ASSUME NEW s \in Services, View!Assigns(s)
      PROVE  ViewInv' /\ View!AddressesKept
  <2>1. offered' \in [Services -> Nat]
    BY <1>4 DEF View!Assigns, ViewInv
  <2> QED BY <1>2, <1>4, <2>1 DEF View!Assigns, View!historyVars
<1>5. ASSUME NEW s \in Services, View!Withdraws(s)
      PROVE  ViewInv' /\ View!AddressesKept
  BY <1>2, <1>5 DEF View!Withdraws, View!historyVars, ViewInv
<1>6. CASE View!Gives
  <2>1. PICK rec \in View!Records : inFlight' = inFlight \cup {rec}
    BY <1>6 DEF View!Gives
  <2>2. UNCHANGED <<rows, offered, view, applied, last>>
    BY <1>6 DEF View!Gives, View!serverVars, View!historyVars
  <2>3. RecordFits(rec)
    BY RecordsFit DEF ViewInv
  <2>4. \A r \in inFlight' : RecordFits(r)
    BY <2>1, <2>3 DEF ViewInv
  <2> QED BY <2>2, <2>4, ViewStays DEF ViewInv, RecordFits, RowFits
<1>7. ASSUME NEW rec \in inFlight, View!Unreadable(rec)
      PROVE  ViewInv' /\ View!AddressesKept
  BY <1>2, <1>7 DEF View!Unreadable, View!serverVars, View!historyVars, ViewInv
<1>8. CASE UNCHANGED handleVars
  BY <1>2, <1>8 DEF handleVars, ViewInv
<1> QED BY <1>1, <1>3, <1>4, <1>5, <1>6, <1>7, <1>8 DEF View!ViewNext, ViewInv

\* What a handle shows of the services is what the answer it took last says, in
\* whatever order answers come, and no address is lost while its service is exposed.
THEOREM HandleDoesShow == MCSpec => HandleShows
<1>1. MCInit => ViewInv
  BY ViewInitInv DEF MCInit
<1>2. ViewInv /\ [MCNext]_all => ViewInv' /\ View!ShowsAnswer' /\ View!AddressesKept
  BY ViewStep, ViewMoves
<1>3. ViewInv /\ [MCNext]_all => [View!ShowsAnswer' /\ View!AddressesKept]_(View!viewVars)
  BY <1>2
<1> QED BY <1>1, <1>2, <1>3, PTL DEF MCSpec, HandleShows, View!HandleShows

----------------------------------------------------------------------------
(* The rules of a network, written and read.                                *)

PortRanges == [port : Nat, endPort : Nat, protocol : {"", "tcp", "UDP"}]
StoredRules == [to : Rules!StoredDestinations, ports : PortLists]
GivenRules ==
    [to : SUBSET Rules!GivenDestinations, ports : {Rules!ToSdkPorts(ports) : ports \in PortLists}]

\* A rule the client shows, and takes when it is given back.
GoesBack(rule) == Rules!Showable(rule) /\ Rules!ValidRule(Rules!ToSdkRule(rule))
SameMeaning(some, others) ==
    /\ DOMAIN some = DOMAIN others
    /\ \A i \in DOMAIN some : Rules!Meaning(some[i]) = Rules!Meaning(others[i])

RulesInv ==
    /\ stage \in {"given", "stored", "shown", "refused"}
    /\ \A i \in DOMAIN stored : stored[i] \in StoredRules
    /\ stage = "given" /\ before = {} =>
          ~ours /\ \A i \in DOMAIN givenRules : givenRules[i] \in GivenRules
    /\ stage = "given" /\ before # {} =>
          /\ before = {stored} /\ \A i \in DOMAIN stored : Rules!Showable(stored[i])
          /\ givenRules = [i \in DOMAIN stored |-> Rules!ToSdkRule(stored[i])]
    /\ stage = "shown" => before = {stored} /\ shown = Rules!ToSdkConfigRules(stored)
    /\ ours /\ stage \in {"stored", "shown"} => \A i \in DOMAIN stored : GoesBack(stored[i])
    /\ stage = "stored" => \A old \in before : SameMeaning(stored, old)

LEMMA PortsTyped == PortLists \subseteq Seq(PortRanges)
<1> DEFINE Lists(w, x, y, z) == {<<>>, <<w>>, <<x, w>>, <<y>>, <<z>>}
           web == Ports(443, 0, "")
           range == Ports(443, 443, "tcp")
           udp == Ports(80, 0, "UDP")
           down == Ports(90, 80, "")
<1>1. \A w, x, y, z \in PortRanges : Lists(w, x, y, z) \subseteq Seq(PortRanges)
  OBVIOUS
<1>2. PortLists = Lists(web, range, udp, down)
  BY Zenon DEF PortLists
<1>3. web \in PortRanges /\ range \in PortRanges /\ udp \in PortRanges /\ down \in PortRanges
  BY DEF Ports, PortRanges
<1> HIDE DEF Lists, web, range, udp, down
<1>4. Lists(web, range, udp, down) \subseteq Seq(PortRanges)
  BY <1>1, <1>3
<1> QED BY <1>2, <1>4

LEMMA PortsAreLists ==
    ASSUME NEW ports \in PortLists
    PROVE  /\ ports = [i \in DOMAIN ports |-> ports[i]]
           /\ \A i \in DOMAIN ports : ports[i] \in PortRanges
<1>1. ports \in Seq(PortRanges)
  BY PortsTyped
<1>2. ports \in [1..Len(ports) -> PortRanges]
  BY <1>1, LenProperties
<1> QED BY <1>2

\* A range of ports comes back as it was, and so does a list of them.
LEMMA RangeBack ==
    ASSUME NEW range \in PortRanges
    PROVE  Rules!ToProtoPortRange(Rules!ToSdkPortRange(range)) = range
<1> DEFINE sdk == Rules!ToSdkPortRange(range)
<1>1. range = [port |-> range.port, endPort |-> range.endPort, protocol |-> range.protocol]
  BY DEF PortRanges
<1>2. range.endPort \in Nat /\ range.protocol \in {"", "tcp", "UDP"}
  BY DEF PortRanges
<1>3. sdk.port = range.port
  BY DEF Rules!ToSdkPortRange
<1>4. sdk.endPort = IF range.endPort = 0 THEN -1 ELSE range.endPort
  BY DEF Rules!ToSdkPortRange, Rules!NoEnd, Rules!Absent
<1>5. sdk.protocol = IF range.protocol = "" THEN "omitted" ELSE range.protocol
  BY DEF Rules!ToSdkPortRange, Rules!NoProtocol, Rules!Unnamed
<1> HIDE DEF sdk
<1>6. (IF sdk.endPort = -1 THEN 0 ELSE sdk.endPort) = range.endPort
  <2>1. \A e \in Nat : \A f : f = (IF e = 0 THEN -1 ELSE e) => (IF f = -1 THEN 0 ELSE f) = e
    OBVIOUS
  <2> QED BY Zenon, <1>2, <1>4, <2>1
<1>7. (IF sdk.protocol = "omitted" THEN "" ELSE sdk.protocol) = range.protocol
  BY <1>2, <1>5
<1>8. Rules!ToProtoPortRange(sdk) =
          [port |-> range.port, endPort |-> range.endPort, protocol |-> range.protocol]
  BY <1>3, <1>6, <1>7
     DEF Rules!ToProtoPortRange, Rules!NoEnd, Rules!Absent, Rules!NoProtocol, Rules!Unnamed
<1> QED BY Zenon, <1>1, <1>8 DEF sdk

ToProtoPorts(ports) == [i \in DOMAIN ports |-> Rules!ToProtoPortRange(ports[i])]

LEMMA PortsBack ==
    ASSUME NEW ports \in PortLists
    PROVE  ToProtoPorts(Rules!ToSdkPorts(ports)) = ports
<1>1. \A i \in DOMAIN ports : Rules!ToProtoPortRange(Rules!ToSdkPortRange(ports[i])) = ports[i]
  BY RangeBack, PortsAreLists
<1>2. ToProtoPorts(Rules!ToSdkPorts(ports)) =
          [i \in DOMAIN ports |-> Rules!ToProtoPortRange(Rules!ToSdkPortRange(ports[i]))]
  BY DEF ToProtoPorts, Rules!ToSdkPorts
<1> QED BY <1>1, <1>2, PortsAreLists

LEMMA NamesNormal ==
    /\ Normal \in [Names -> Names] /\ \A n \in Names : Normal[Normal[n]] = Normal[n]
    /\ "" \notin Grants
<1>1. /\ Normal \in [Names -> Names] /\ \A n \in Names : Normal[Normal[n]] = Normal[n]
      /\ Grants \subseteq Names \ {""}
  BY Zenon, PlaneAssumption
<1> QED BY <1>1

\* What a caller may give and the client takes is stored as a rule that the client
\* can show, and takes again.
LEMMA WriteFits ==
    ASSUME NEW rule \in GivenRules, Rules!ValidRule(rule)
    PROVE  Rules!ToProtoRule(rule) \in StoredRules /\ GoesBack(Rules!ToProtoRule(rule))
<1> DEFINE proto == Rules!ToProtoRule(rule)
<1> SUFFICES proto \in StoredRules /\ GoesBack(proto)
  OBVIOUS
<1>1. PICK d \in Rules!GivenDestinations :
          /\ rule.to = {d} /\ Rules!ValidDestination(d)
          /\ \A i \in DOMAIN rule.ports : Rules!ValidRange(rule.ports[i])
          /\ d.kind = "dnsName" => Rules!IsHttpsOnlyPorts(rule.ports)
  BY DEF Rules!ValidRule, GivenRules
<1>2. PICK ports \in PortLists : rule.ports = Rules!ToSdkPorts(ports)
  BY DEF GivenRules
<1>3. (CHOOSE e \in rule.to : TRUE) = d
  BY <1>1
<1>4. proto.to = Rules!ToProtoDestination(d) /\ proto.ports = ToProtoPorts(rule.ports)
      /\ proto = [to |-> proto.to, ports |-> proto.ports]
  <2>1. proto = [to |-> Rules!ToProtoDestination(d), ports |-> ToProtoPorts(rule.ports)]
    BY <1>3 DEF Rules!ToProtoRule, ToProtoPorts
  <2> QED BY <2>1
<1>5. proto.ports = ports
  BY <1>2, <1>4, PortsBack
<1>6. Rules!ToSdkPorts(proto.ports) = rule.ports
  BY <1>2, <1>5
<1> HIDE DEF proto
<1>7. CASE d.kind = "dnsName"
  <2>1. d.name \in Names /\ Normal[d.name] \in Grants
    BY <1>1, <1>7 DEF Rules!GivenDestinations, Rules!GivenSources, Rules!Selectors, Rules!ValidDestination
  <2>2. proto.to = [kind |-> "httpsHostname", name |-> Normal[d.name], except |-> FALSE]
    BY <1>4, <1>7 DEF Rules!ToProtoDestination
  <2>3. proto.to \in Rules!StoredDestinations
    <3>1. FALSE \in BOOLEAN /\ Normal[d.name] \in Names
      BY Zenon, <2>1, NamesNormal
    <3>2. \A n \in Names, b \in BOOLEAN :
              [kind |-> "httpsHostname", name |-> n, except |-> b]
                  \in [kind : {"httpsHostname"}, name : Names, except : BOOLEAN]
      OBVIOUS
    <3>3. proto.to \in [kind : {"httpsHostname"}, name : Names, except : BOOLEAN]
      BY Zenon, <2>2, <3>1, <3>2
    <3> QED BY Zenon, <3>3 DEF Rules!StoredDestinations
  <2>4. Rules!Showable(proto)
    <3>1. Normal[d.name] # ""
      BY Zenon, <2>1, NamesNormal
    <3>4. proto.to.kind = "httpsHostname" /\ proto.to.name = Normal[d.name]
      BY <2>2
    <3>2. ~proto.to.except
      BY <2>2
    <3>3. Rules!IsHttpsOnlyPorts(Rules!ToSdkPorts(proto.ports))
      BY <1>1, <1>6, <1>7
    <3> QED BY <3>1, <3>2, <3>3, <3>4 DEF Rules!Showable
  <2> DEFINE e == [kind |-> "dnsName", name |-> Normal[d.name]]
  <2>5. Rules!ToSdkRule(proto) = [to |-> {e}, ports |-> <<>>]
    BY <2>2 DEF Rules!ToSdkRule
  <2>6. Rules!ValidDestination(e)
    BY <2>1, NamesNormal DEF Rules!ValidDestination
  <2>7. Rules!ValidRule(Rules!ToSdkRule(proto))
    BY <2>5, <2>6 DEF Rules!ValidRule, Rules!IsHttpsOnlyPorts
  <2> QED BY <1>4, <1>5, <2>3, <2>4, <2>7 DEF StoredRules, GoesBack
<1>8. CASE d.kind = "any"
  <2>1. proto.to = [kind |-> "any", any |-> TRUE]
    BY <1>4, <1>8 DEF Rules!ToProtoDestination
  <2>2. proto.to \in Rules!StoredDestinations
    BY <2>1 DEF Rules!StoredDestinations, Rules!StoredSources
  <2>3. Rules!Showable(proto)
    BY <2>1 DEF Rules!Showable
  <2> DEFINE e == [kind |-> "any"]
  <2>4. Rules!ToSdkRule(proto) = [to |-> {e}, ports |-> rule.ports]
    BY <1>6, <2>1 DEF Rules!ToSdkRule
  <2>5. Rules!ValidDestination(e)
    BY DEF Rules!ValidDestination
  <2>6. Rules!ValidRule(Rules!ToSdkRule(proto))
    BY <1>1, <2>4, <2>5 DEF Rules!ValidRule
  <2> QED BY <1>4, <1>5, <2>2, <2>3, <2>6 DEF StoredRules, GoesBack
<1>9. CASE d.kind \in {"cidr", "tenant", "selector"}
  <2>1. proto.to = d
    BY <1>4, <1>9 DEF Rules!ToProtoDestination
  <2>2. d \in Rules!StoredDestinations
    BY <1>9 DEF Rules!StoredDestinations, Rules!StoredSources, Rules!GivenDestinations, Rules!GivenSources
  <2>3. Rules!Showable(proto)
    BY <1>1, <1>9, <2>1 DEF Rules!Showable, Rules!ValidDestination
  <2>4. Rules!ToSdkRule(proto) = [to |-> {d}, ports |-> rule.ports]
    BY <1>6, <1>9, <2>1 DEF Rules!ToSdkRule
  <2>5. Rules!ValidRule(Rules!ToSdkRule(proto))
    BY <1>1, <1>9, <2>4 DEF Rules!ValidRule
  <2> QED BY <1>4, <1>5, <2>1, <2>2, <2>3, <2>5 DEF StoredRules, GoesBack
<1> QED BY <1>7, <1>8, <1>9 DEF Rules!GivenDestinations, Rules!GivenSources, Rules!Selectors

\* A rule that goes back means what it meant.
LEMMA BackMeans ==
    ASSUME NEW rule \in StoredRules, Rules!Showable(rule)
    PROVE  /\ Rules!ToSdkRule(rule) \in GivenRules
           /\ Rules!Meaning(Rules!ToProtoRule(Rules!ToSdkRule(rule))) = Rules!Meaning(rule)
<1> DEFINE sdk == Rules!ToSdkRule(rule)
           proto == Rules!ToProtoRule(sdk)
<1>1. rule.ports \in PortLists /\ rule.to \in Rules!StoredDestinations
      /\ rule = [to |-> rule.to, ports |-> rule.ports]
  BY DEF StoredRules
<1>2. <<>> \in PortLists /\ Rules!ToSdkPorts(<<>>) = <<>>
  BY DEF PortLists, Rules!ToSdkPorts
<1>3. CASE rule.to.kind = "httpsHostname"
  <2> DEFINE d == [kind |-> "dnsName", name |-> rule.to.name]
  <2>1. /\ rule.to.name \in Names /\ rule.to.except = FALSE
        /\ rule.to = [kind |-> "httpsHostname", name |-> rule.to.name, except |-> FALSE]
        /\ Rules!IsHttpsOnlyPorts(Rules!ToSdkPorts(rule.ports))
    BY <1>1, <1>3 DEF Rules!Showable, Rules!StoredDestinations, Rules!StoredSources, Rules!Selectors
  <2>2. sdk = [to |-> {d}, ports |-> <<>>]
    BY <1>3 DEF Rules!ToSdkRule
  <2>3. d \in Rules!GivenDestinations
    BY <2>1 DEF Rules!GivenDestinations
  <2>4. sdk \in GivenRules
    BY <1>2, <2>2, <2>3 DEF GivenRules
  <2>5. (CHOOSE e \in sdk.to : TRUE) = d
    BY <2>2
  <2>6. proto.to = [kind |-> "httpsHostname", name |-> Normal[rule.to.name], except |-> FALSE]
        /\ DOMAIN proto.ports = {}
    <3>1. proto = [to |-> Rules!ToProtoDestination(d), ports |-> ToProtoPorts(sdk.ports)]
      BY <2>5 DEF Rules!ToProtoRule, ToProtoPorts
    <3>2. Rules!ToProtoDestination(d) =
              [kind |-> "httpsHostname", name |-> Normal[rule.to.name], except |-> FALSE]
      BY DEF Rules!ToProtoDestination
    <3>3. DOMAIN ToProtoPorts(sdk.ports) = {}
      BY <2>2 DEF ToProtoPorts
    <3> QED BY <3>1, <3>2, <3>3
  <2>7. Rules!IsHttpsOnlyPorts(Rules!ToSdkPorts(proto.ports))
    BY <2>6 DEF Rules!IsHttpsOnlyPorts, Rules!ToSdkPorts
  <2>8. [proto.to EXCEPT !.name = Normal[@]] = [rule.to EXCEPT !.name = Normal[@]]
    <3>1. Normal[Normal[rule.to.name]] = Normal[rule.to.name]
      BY <2>1, NamesNormal
    <3> DEFINE Named(n, b) == [kind |-> "httpsHostname", name |-> n, except |-> b]
    <3>2. \A n, b : [Named(n, b) EXCEPT !.name = Normal[@]] = Named(Normal[n], b)
      OBVIOUS
    <3>3. proto.to = Named(Normal[rule.to.name], FALSE) /\ rule.to = Named(rule.to.name, FALSE)
      BY Zenon, <2>1, <2>6
    <3> HIDE DEF Named, proto
    <3>4. [proto.to EXCEPT !.name = Normal[@]] = Named(Normal[Normal[rule.to.name]], FALSE)
      BY <3>2, <3>3
    <3>5. [rule.to EXCEPT !.name = Normal[@]] = Named(Normal[rule.to.name], FALSE)
      BY <3>2, <3>3
    <3> QED BY <3>1, <3>4, <3>5
  <2> QED BY <1>3, <2>1, <2>4, <2>6, <2>7, <2>8 DEF Rules!Meaning
<1>4. CASE rule.to.kind = "any"
  <2>1. rule.to = [kind |-> "any", any |-> TRUE]
    BY <1>1, <1>4 DEF Rules!Showable, Rules!StoredDestinations, Rules!StoredSources, Rules!Selectors
  <2> DEFINE d == [kind |-> "any"]
  <2>2. sdk = [to |-> {d}, ports |-> Rules!ToSdkPorts(rule.ports)]
    BY <1>4 DEF Rules!ToSdkRule
  <2>3. d \in Rules!GivenDestinations
    BY DEF Rules!GivenDestinations, Rules!GivenSources
  <2>4. sdk \in GivenRules
    BY <1>1, <2>2, <2>3 DEF GivenRules
  <2>5. (CHOOSE e \in sdk.to : TRUE) = d
    BY <2>2
  <2>6. proto = [to |-> rule.to, ports |-> ToProtoPorts(Rules!ToSdkPorts(rule.ports))]
    <3>1. Rules!ToProtoDestination(d) = rule.to
      BY <2>1 DEF Rules!ToProtoDestination
    <3>2. proto = [to |-> Rules!ToProtoDestination(d), ports |-> ToProtoPorts(sdk.ports)]
      BY <2>5 DEF Rules!ToProtoRule, ToProtoPorts
    <3> QED BY <2>2, <3>1, <3>2
  <2> QED BY <1>1, <2>4, <2>6, PortsBack
<1>5. CASE rule.to.kind \in {"cidr", "tenant", "selector"}
  <2>1. rule.to \in Rules!GivenDestinations
    BY <1>1, <1>5 DEF Rules!StoredDestinations, Rules!StoredSources, Rules!GivenDestinations, Rules!GivenSources
  <2>2. sdk = [to |-> {rule.to}, ports |-> Rules!ToSdkPorts(rule.ports)]
    BY <1>5 DEF Rules!ToSdkRule
  <2>3. sdk \in GivenRules
    BY <1>1, <2>1, <2>2 DEF GivenRules
  <2>4. (CHOOSE e \in sdk.to : TRUE) = rule.to
    BY <2>2
  <2>5. proto = [to |-> rule.to, ports |-> ToProtoPorts(Rules!ToSdkPorts(rule.ports))]
    BY <1>5, <2>2, <2>4 DEF Rules!ToProtoRule, Rules!ToProtoDestination, ToProtoPorts
  <2> QED BY <1>1, <2>3, <2>5, PortsBack
<1> QED BY <1>1, <1>3, <1>4, <1>5
        DEF Rules!Showable, Rules!StoredDestinations, Rules!StoredSources, Rules!Selectors

LEMMA RulesInitInv == ASSUME Rules!RulesInit PROVE RulesInv
<1>1. CASE /\ stage = "given" /\ stored = <<>> /\ before = {} /\ ours = FALSE
           /\ \E n \in 0..MaxNew : givenRules \in [1..n -> Rules!Given]
  <2>1. PICK n \in 0..MaxNew : givenRules \in [1..n -> Rules!Given]
    BY <1>1
  <2>2. Rules!Given \subseteq GivenRules
    BY DEF Rules!Given, GivenRules, Rules!GivenDestinations
  <2>3. \A i \in DOMAIN givenRules : givenRules[i] \in GivenRules
    BY <2>1, <2>2
  <2>4. DOMAIN stored = {}
    BY <1>1
  <2> QED BY <1>1, <2>3, <2>4 DEF RulesInv
<1>2. CASE /\ stage = "stored" /\ before = {} /\ ours = FALSE
           /\ \E n \in 0..MaxRules : stored \in [1..n -> Rules!Stored]
  <2>1. PICK n \in 0..MaxRules : stored \in [1..n -> Rules!Stored]
    BY <1>2
  <2>2. Rules!Stored \subseteq StoredRules
    BY DEF Rules!Stored, StoredRules, Rules!StoredDestinations
  <2>3. \A i \in DOMAIN stored : stored[i] \in StoredRules
    BY <2>1, <2>2
  <2> QED BY <1>2, <2>3 DEF RulesInv
<1> QED BY <1>1, <1>2 DEF Rules!RulesInit

\* The first write, and the one of what was shown.
LEMMA WriteKeeps == ASSUME RulesInv, Rules!WriteRules PROVE RulesInv'
<1>1. stage = "given" /\ UNCHANGED <<list, givenRules, shown, before>>
  BY DEF Rules!WriteRules
<1>2. CASE stage' = "refused" /\ UNCHANGED <<stored, ours>>
  BY <1>1, <1>2 DEF RulesInv
<1>3. ASSUME NEW deny \in BOOLEAN, Rules!ValidRules(givenRules, deny), stage' = "stored",
             stored' = [i \in DOMAIN givenRules |-> Rules!ToProtoRule(givenRules[i])],
             ours' = (before = {})
      PROVE  RulesInv'
  <2>1. \A i \in DOMAIN givenRules : Rules!ValidRule(givenRules[i])
    BY <1>3 DEF Rules!ValidRules
  <2>2. \A i \in DOMAIN givenRules : givenRules[i] \in GivenRules
    <3>1. CASE before = {}
      BY <1>1, <3>1 DEF RulesInv
    <3>2. CASE before # {}
      BY <1>1, <3>2, BackMeans DEF RulesInv
    <3> QED BY <3>1, <3>2
  <2>3. \A i \in DOMAIN stored' : stored'[i] \in StoredRules /\ GoesBack(stored'[i])
    BY <1>3, <2>1, <2>2, WriteFits
  <2>4. \A old \in before : SameMeaning(stored', old)
    <3> SUFFICES ASSUME NEW old \in before PROVE SameMeaning(stored', old)
      OBVIOUS
    <3>1. /\ old = stored /\ \A i \in DOMAIN stored : Rules!Showable(stored[i])
          /\ givenRules = [i \in DOMAIN stored |-> Rules!ToSdkRule(stored[i])]
          /\ \A i \in DOMAIN stored : stored[i] \in StoredRules
      BY <1>1 DEF RulesInv
    <3>2. /\ DOMAIN stored' = DOMAIN stored
          /\ \A i \in DOMAIN stored :
                stored'[i] = Rules!ToProtoRule(Rules!ToSdkRule(stored[i]))
      BY <1>3, <3>1
    <3> QED BY <3>1, <3>2, BackMeans DEF SameMeaning
  <2> QED BY <1>1, <1>3, <2>3, <2>4 DEF RulesInv, SameMeaning, GoesBack
<1> QED BY <1>2, <1>3 DEF Rules!WriteRules

LEMMA ReadKeepsRules == ASSUME RulesInv, Rules!ReadRules PROVE RulesInv'
BY DEF RulesInv, Rules!ReadRules, Rules!ToSdkConfigRules, GoesBack

LEMMA GiveKeeps == ASSUME RulesInv, Rules!GiveShown PROVE RulesInv'
<1>1. /\ stage = "shown" /\ stage' = "given" /\ givenRules' \in shown
      /\ UNCHANGED <<stored, before>>
  BY DEF Rules!GiveShown
<1>2. before = {stored} /\ givenRules' \in Rules!ToSdkConfigRules(stored)
  BY <1>1 DEF RulesInv
<1>3. /\ \A i \in DOMAIN stored : Rules!Showable(stored[i])
      /\ givenRules' = [i \in DOMAIN stored |-> Rules!ToSdkRule(stored[i])]
  BY <1>2 DEF Rules!ToSdkConfigRules, Rules!Unshowable
<1> QED BY <1>1, <1>2, <1>3 DEF RulesInv

LEMMA RulesStep == ASSUME RulesInv, [Rules!RulesNext]_rulesVars PROVE RulesInv'
<1>1. CASE UNCHANGED rulesVars
  BY <1>1 DEF rulesVars, RulesInv, GoesBack, SameMeaning
<1> QED BY <1>1, WriteKeeps, ReadKeepsRules, GiveKeeps DEF Rules!RulesNext

LEMMA RulesHold == RulesInv => Rules!RulesKept
<1> SUFFICES ASSUME RulesInv PROVE Rules!RulesKept
  OBVIOUS
<1>1. stage = "stored" =>
          \A old \in before :
              [i \in DOMAIN stored |-> Rules!Meaning(stored[i])]
                  = [i \in DOMAIN old |-> Rules!Meaning(old[i])]
  BY DEF RulesInv, SameMeaning
<1>2. ASSUME ours, stage = "shown"
      PROVE  \E told \in shown : \A i \in DOMAIN told : Rules!ValidRule(told[i])
  <2>1. /\ \A i \in DOMAIN stored : GoesBack(stored[i])
        /\ shown = Rules!ToSdkConfigRules(stored)
    BY <1>2 DEF RulesInv
  <2>2. shown = {[i \in DOMAIN stored |-> Rules!ToSdkRule(stored[i])]}
    BY <2>1 DEF GoesBack, Rules!ToSdkConfigRules
  <2> QED BY <2>1, <2>2 DEF GoesBack
<1> QED BY <1>1, <1>2 DEF Rules!RulesKept

----------------------------------------------------------------------------
(* The options of a create.                                                 *)

RequestInv ==
    /\ kind \in {"run", "template", "file"}
    /\ \A f \in DOMAIN options :
          f \in Creation!Fields[kind] \cup Creation!Unsupported[kind]
              /\ options[f] \in Creation!Values(f)
    /\ verdict = "accepted" =>
          /\ Creation!Accepted /\ wire = Creation!Request
          /\ scratch = Creation!ScratchVolumeNames

LEMMA RequestInitInv == Creation!RequestInit => RequestInv
BY DEF Creation!RequestInit, RequestInv

\* What is accepted and what is sent are functions of the call and its options.
LEMMA RequestSame ==
    ASSUME UNCHANGED <<kind, options>>
    PROVE  /\ Creation!Accepted' <=> Creation!Accepted
           /\ Creation!Request' = Creation!Request
           /\ Creation!ScratchVolumeNames' = Creation!ScratchVolumeNames
<1>1. Creation!Accepted' <=> Creation!Accepted
  BY DEF Creation!Accepted, Creation!ImageRequired, Creation!Is, Creation!Given,
         Creation!Empty, Creation!NeverEmpty, Creation!Unsupported, Creation!ContainerFields,
         Creation!NoVolumes
<1>2. \A F : Creation!Sent(F)' = Creation!Sent(F)
  BY DEF Creation!Sent
<1>3. \A f : Creation!SentAnyway(f)' = Creation!SentAnyway(f)
  BY DEF Creation!SentAnyway, Creation!Given
<1>4. Creation!SentVolumes' = Creation!SentVolumes
  BY DEF Creation!SentVolumes, Creation!Given, Creation!DefaultScratch
<1>5. Creation!SentRunners' = Creation!SentRunners
  BY DEF Creation!SentRunners, Creation!Is, Creation!Given
<1>6. Creation!RunRequest' = Creation!RunRequest
  BY <1>2, <1>3, <1>4, <1>5
     DEF Creation!RunRequest, Creation!Given, Creation!DefaultImage, Creation!Fields,
         Creation!Everywhere, Creation!ContainerFields
<1>7. Creation!TemplateRequest' = Creation!TemplateRequest
  BY <1>2, <1>3, <1>4, <1>5
     DEF Creation!TemplateRequest, Creation!SentContainer, Creation!Given,
         Creation!ContainerFields
<1>8. Creation!FileRequest' = Creation!FileRequest
  BY <1>2, <1>5
     DEF Creation!FileRequest, Creation!Given, Creation!AsksNothing, Creation!Empty,
         Creation!Is, Creation!Fields, Creation!Everywhere, Creation!NoVolumes
<1>9. Creation!Request' = Creation!Request
  BY <1>6, <1>7, <1>8 DEF Creation!Request
<1>10. Creation!ScratchVolumeNames' = Creation!ScratchVolumeNames
  BY DEF Creation!ScratchVolumeNames, Creation!Given, Creation!DefaultScratch
<1> QED BY <1>1, <1>9, <1>10

LEMMA RequestStep == ASSUME RequestInv, [Creation!RequestNext]_requestVars PROVE RequestInv'
<1>1. ASSUME NEW f \in Creation!Fields[kind] \cup Creation!Unsupported[kind],
             NEW value \in Creation!Values(f), Creation!Give(f, value)
      PROVE  RequestInv'
  BY <1>1 DEF Creation!Give, RequestInv, Creation!Values
<1>2. CASE Creation!Create
  <2>1. UNCHANGED <<kind, options>>
    BY <1>2 DEF Creation!Create
  <2>2. verdict' = "accepted" =>
            Creation!Accepted /\ wire' = Creation!Request /\ scratch' = Creation!ScratchVolumeNames
    BY <1>2 DEF Creation!Create
  <2> QED BY <2>1, <2>2, RequestSame DEF RequestInv, Creation!Values
<1>3. CASE UNCHANGED requestVars
  BY <1>3, RequestSame DEF requestVars, RequestInv, Creation!Values
<1> QED BY <1>1, <1>2, <1>3 DEF Creation!RequestNext

\* Where each field of a request comes from: an option of its own, the snapshot to
\* restore, the runners, or the image a run() has by default.
OwnField(field) ==
    field[1] \in DOMAIN options /\ field[1] # "fileSystemSnapshot" /\ field[2] = options[field[1]]
DefaultVolume == <<"volumes", [scratch |-> {"scratch"}, registered |-> {}]>>
RestoreField(field) ==
    "fileSystemSnapshot" \in DOMAIN options /\ "volumes" \notin DOMAIN options /\ field = DefaultVolume
ImageField(field) ==
    kind = "run" /\ "containerImage" \notin DOMAIN options /\ field[1] = "containerImage"

LEMMA SentFields ==
    ASSUME NEW F, "fileSystemSnapshot" \notin F, NEW field \in Creation!Sent(F)
    PROVE  OwnField(field) /\ field[1] \in F
BY DEF Creation!Sent, OwnField

LEMMA SentHas ==
    ASSUME NEW F, NEW f \in F, f \in DOMAIN options, options[f] # "empty"
    PROVE  <<f, options[f]>> \in Creation!Sent(F)
BY DEF Creation!Sent

LEMMA AnywayFields ==
    ASSUME NEW f, f # "fileSystemSnapshot", NEW field \in Creation!SentAnyway(f)
    PROVE  OwnField(field)
BY DEF Creation!SentAnyway, Creation!Given, OwnField

LEMMA VolumeFields ==
    ASSUME NEW field \in Creation!SentVolumes
    PROVE  OwnField(field) \/ RestoreField(field)
BY DEF Creation!SentVolumes, Creation!Given, OwnField, RestoreField, DefaultVolume,
       Creation!DefaultScratch

LEMMA RunnerFields ==
    ASSUME NEW field \in Creation!SentRunners
    PROVE  OwnField(field) \/ field[1] = "mode"
BY DEF Creation!SentRunners, Creation!Is, Creation!Given, OwnField

LEMMA FieldsOfRequest ==
    ASSUME kind \in {"run", "template", "file"}, NEW field \in Creation!Request
    PROVE  \/ OwnField(field)
           \/ RestoreField(field) /\ kind # "file"
           \/ ImageField(field)
           \/ field[1] = "mode"
<1>1. CASE kind = "run"
  <2>1. field \in Creation!RunRequest
    BY <1>1 DEF Creation!Request
  <2> DEFINE F == Creation!Fields["run"] \ {"fileSystemSnapshot", "volumes", "runnerIds", "containerImage"}
  <2>2. CASE field \in Creation!Sent(F)
    BY <2>2, SentFields
  <2>3. CASE field \in Creation!SentVolumes
    BY <1>1, <2>3, VolumeFields
  <2>4. CASE field \in Creation!SentRunners
    BY <2>4, RunnerFields
  <2>5. CASE field \in Creation!SentAnyway("securityContext")
    BY <2>5, AnywayFields
  <2>6. CASE Creation!Given("containerImage") /\ field \in Creation!Sent({"containerImage"})
    BY <2>6, SentFields
  <2>7. CASE ~Creation!Given("containerImage") /\ field = <<"containerImage", Creation!DefaultImage>>
    BY <1>1, <2>7 DEF ImageField, Creation!Given
  <2> QED BY <2>1, <2>2, <2>3, <2>4, <2>5, <2>6, <2>7 DEF Creation!RunRequest
<1>2. CASE kind = "template"
  <2>1. field \in Creation!TemplateRequest
    BY <1>2 DEF Creation!Request
  <2>2. CASE field \in Creation!Sent({"annotations", "maxLifetimeSeconds", "networkConfigId", "services", "tags"})
    BY <2>2, SentFields
  <2> DEFINE F == (Creation!ContainerFields \cup {"containerImage"}) \ {"fileSystemSnapshot", "volumes"}
  <2>3. CASE field \in Creation!Sent(F)
    BY <2>3, SentFields
  <2>4. CASE field \in Creation!SentVolumes
    BY <1>2, <2>4, VolumeFields
  <2>5. CASE field \in Creation!SentRunners
    BY <2>5, RunnerFields
  <2>6. CASE field \in Creation!SentAnyway("network")
    BY <2>6, AnywayFields
  <2> QED BY <2>1, <2>2, <2>3, <2>4, <2>5, <2>6
          DEF Creation!TemplateRequest, Creation!SentContainer
<1>3. CASE kind = "file"
  <2>1. field \in Creation!FileRequest
    BY <1>3 DEF Creation!Request
  <2> DEFINE F == Creation!Fields["file"] \ {"control", "runnerIds"}
  <2>2. "fileSystemSnapshot" \notin F
    BY DEF Creation!Fields, Creation!Everywhere
  <2>3. CASE field \in Creation!Sent(F)
    BY <2>2, <2>3, SentFields
  <2>4. CASE field \in Creation!SentRunners
    BY <2>4, RunnerFields
  <2>5. CASE field \in Creation!Sent({"control"})
    BY <2>5, SentFields
  <2> QED BY <2>1, <2>3, <2>4, <2>5 DEF Creation!FileRequest
<1> QED BY <1>1, <1>2, <1>3

\* What asks for something is sent, whichever list of the call it stands in.
LEMMA ValueSent ==
    ASSUME RequestInv, Creation!Accepted, NEW f \in DOMAIN options,
           f # "fileSystemSnapshot", ~Creation!AsksNothing(f)
    PROVE  <<f, options[f]>> \in Creation!Request
<1>1. f \in Creation!Fields[kind] /\ options[f] \in Creation!Values(f)
  BY DEF RequestInv, Creation!Accepted
<1>2. f # "volumes" => options[f] # "empty"
  BY DEF Creation!AsksNothing, Creation!Empty
<1>3. CASE f = "runnerIds"
  <2>1. <<f, options[f]>> \in Creation!SentRunners
    BY <1>1, <1>2, <1>3 DEF Creation!Values, Creation!SentRunners, Creation!Is, Creation!Given
  <2> QED BY <2>1 DEF RequestInv, Creation!Request, Creation!RunRequest, Creation!TemplateRequest,
          Creation!FileRequest
<1>4. CASE kind = "run" /\ f # "runnerIds"
  <2>1. SUFFICES <<f, options[f]>> \in Creation!RunRequest
    BY <1>4 DEF Creation!Request
  <2>2. CASE f = "volumes"
    <3>1. <<f, options[f]>> \in Creation!SentVolumes
      BY <2>2 DEF Creation!SentVolumes, Creation!Given
    <3> QED BY <3>1 DEF Creation!RunRequest
  <2>3. CASE f = "containerImage"
    <3>1. <<f, options[f]>> \in Creation!Sent({"containerImage"})
      BY <1>2, <2>3, SentHas
    <3> QED BY <2>3, <3>1 DEF Creation!RunRequest, Creation!Given
  <2>4. CASE f \notin {"volumes", "containerImage"}
    <3> DEFINE F == Creation!Fields["run"] \ {"fileSystemSnapshot", "volumes", "runnerIds", "containerImage"}
    <3>1. f \in F
      BY <1>1, <1>4, <2>4
    <3>2. <<f, options[f]>> \in Creation!Sent(F)
      BY <1>2, <2>4, <3>1, SentHas
    <3> QED BY <3>2 DEF Creation!RunRequest
  <2> QED BY <2>2, <2>3, <2>4
<1>5. CASE kind = "template" /\ f # "runnerIds"
  <2>1. SUFFICES <<f, options[f]>> \in Creation!TemplateRequest
    BY <1>5 DEF Creation!Request
  <2> DEFINE F == (Creation!ContainerFields \cup {"containerImage"}) \ {"fileSystemSnapshot", "volumes"}
             G == {"annotations", "maxLifetimeSeconds", "networkConfigId", "services", "tags"}
  <2>2. f \in G \/ f = "network" \/ f \in Creation!ContainerFields \cup {"containerImage"}
    BY <1>1, <1>5 DEF Creation!Fields, Creation!Everywhere
  <2>3. CASE f \in G
    <3>1. <<f, options[f]>> \in Creation!Sent(G)
      BY <1>2, <2>3, SentHas
    <3> QED BY <3>1 DEF Creation!TemplateRequest
  <2>4. CASE f = "network"
    BY <2>4 DEF Creation!TemplateRequest, Creation!SentAnyway, Creation!Given
  <2>5. CASE f \in Creation!ContainerFields \cup {"containerImage"}
    <3>1. Creation!Given("containerImage")
      BY <1>5, <2>5
         DEF Creation!Accepted, Creation!ImageRequired, Creation!AsksNothing, Creation!Given
    <3>2. f = "volumes" => <<f, options[f]>> \in Creation!SentVolumes
      BY DEF Creation!SentVolumes, Creation!Given
    <3>3. f # "volumes" => <<f, options[f]>> \in Creation!Sent(F)
      <4>1. f # "volumes" => f \in F
        BY <2>5
      <4> QED BY <1>2, <4>1, SentHas
    <3> QED BY <3>1, <3>2, <3>3 DEF Creation!TemplateRequest, Creation!SentContainer
  <2> QED BY <2>2, <2>3, <2>4, <2>5
<1>6. CASE kind = "file" /\ f # "runnerIds"
  <2>1. SUFFICES <<f, options[f]>> \in Creation!FileRequest
    BY <1>6 DEF Creation!Request
  <2>2. f # "volumes"
    BY <1>1, <1>6 DEF Creation!Fields, Creation!Everywhere
  <2>3. CASE f = "control"
    <3>1. <<f, options[f]>> \in Creation!Sent({"control"})
      BY <1>2, <2>2, <2>3, SentHas
    <3> QED BY <2>3, <3>1 DEF Creation!FileRequest, Creation!Given
  <2>4. CASE f # "control"
    <3> DEFINE F == Creation!Fields["file"] \ {"control", "runnerIds"}
    <3>1. f \in F
      BY <1>1, <1>6, <2>4
    <3>2. <<f, options[f]>> \in Creation!Sent(F)
      BY <1>2, <2>2, <3>1, SentHas
    <3> QED BY <3>2 DEF Creation!FileRequest
  <2> QED BY <2>3, <2>4
<1> QED BY <1>3, <1>4, <1>5, <1>6 DEF RequestInv

\* A volume is sent if one is named or a snapshot restored, and then one list of them.
LEMMA RestoreSent ==
    ASSUME RequestInv, Creation!Accepted, "fileSystemSnapshot" \in DOMAIN options
    PROVE  /\ "volumes" \notin DOMAIN options /\ kind # "file"
           /\ DefaultVolume \in Creation!Request
<1>1. "volumes" \notin DOMAIN options
  BY DEF Creation!Accepted, Creation!Given
<1>2. kind # "file"
  BY DEF Creation!Accepted, Creation!Unsupported, Creation!ContainerFields
<1>3. DefaultVolume \in Creation!SentVolumes
  BY <1>1 DEF Creation!SentVolumes, Creation!Given, DefaultVolume, Creation!DefaultScratch
<1>4. CASE kind = "run"
  BY <1>1, <1>2, <1>3, <1>4 DEF Creation!Request, Creation!RunRequest
<1>5. CASE kind = "template"
  <2>1. Creation!Given("containerImage")
    BY <1>5 DEF Creation!Accepted, Creation!ImageRequired, Creation!Given, Creation!ContainerFields
  <2> QED BY <1>1, <1>2, <1>3, <1>5, <2>1
          DEF Creation!Request, Creation!TemplateRequest, Creation!SentContainer
<1> QED BY <1>1, <1>2, <1>4, <1>5 DEF RequestInv

LEMMA NoMode == ASSUME RequestInv PROVE "mode" \notin DOMAIN options
BY DEF RequestInv, Creation!Fields, Creation!Unsupported, Creation!Everywhere,
       Creation!ContainerFields

LEMMA OnWireOwn ==
    ASSUME RequestInv, verdict = "accepted", NEW f \in DOMAIN options,
           f # "fileSystemSnapshot", ~Creation!AsksNothing(f)
    PROVE  Creation!OnWire(f) = {options[f]}
<1>1. Creation!Accepted /\ wire = Creation!Request
  BY DEF RequestInv
<1>2. <<f, options[f]>> \in wire
  BY <1>1, ValueSent
<1>3. \A field \in wire : field[1] = f => field[2] = options[f]
  <2> SUFFICES ASSUME NEW field \in wire, field[1] = f PROVE field[2] = options[f]
    OBVIOUS
  <2>1. \/ OwnField(field)
        \/ RestoreField(field)
        \/ ImageField(field)
        \/ field[1] = "mode"
    BY <1>1, FieldsOfRequest DEF RequestInv
  <2> QED BY <2>1, NoMode DEF OwnField, RestoreField, ImageField, DefaultVolume
<1> QED BY <1>2, <1>3 DEF Creation!OnWire

LEMMA OnWireVolumes ==
    ASSUME RequestInv, verdict = "accepted"
    PROVE  /\ "volumes" \in DOMAIN options => Creation!OnWire("volumes") = {options["volumes"]}
           /\ "fileSystemSnapshot" \in DOMAIN options =>
                  Creation!OnWire("volumes") = {DefaultVolume[2]}
           /\ "volumes" \notin DOMAIN options /\ "fileSystemSnapshot" \notin DOMAIN options =>
                  Creation!OnWire("volumes") = {}
           /\ kind = "file" =>
                  "volumes" \notin DOMAIN options /\ "fileSystemSnapshot" \notin DOMAIN options
<1>1. Creation!Accepted /\ wire = Creation!Request
  BY DEF RequestInv
<1>2. ASSUME NEW field \in wire, field[1] = "volumes"
      PROVE  OwnField(field) \/ RestoreField(field)
  <2>1. \/ OwnField(field)
        \/ RestoreField(field)
        \/ ImageField(field)
        \/ field[1] = "mode"
    BY <1>1, FieldsOfRequest DEF RequestInv
  <2> QED BY <1>2, <2>1 DEF ImageField
<1>3. "volumes" \in DOMAIN options => Creation!OnWire("volumes") = {options["volumes"]}
  <2>1. "volumes" \in DOMAIN options => ~Creation!AsksNothing("volumes")
    BY <1>1 DEF Creation!Accepted, Creation!NeverEmpty, Creation!AsksNothing
  <2> QED BY <2>1, OnWireOwn
<1>4. ASSUME "fileSystemSnapshot" \in DOMAIN options
      PROVE  Creation!OnWire("volumes") = {DefaultVolume[2]}
  <2>1. "volumes" \notin DOMAIN options /\ DefaultVolume \in wire
    BY <1>1, <1>4, RestoreSent
  <2>2. \A field \in wire : field[1] = "volumes" => field = DefaultVolume
    BY <1>2, <2>1 DEF OwnField, RestoreField
  <2>3. DefaultVolume[1] = "volumes"
    BY DEF DefaultVolume
  <2> HIDE DEF DefaultVolume
  <2> QED BY <2>1, <2>2, <2>3 DEF Creation!OnWire
<1>5. "volumes" \notin DOMAIN options /\ "fileSystemSnapshot" \notin DOMAIN options =>
          Creation!OnWire("volumes") = {}
  BY <1>2 DEF Creation!OnWire, OwnField, RestoreField
<1>6. kind = "file" =>
          "volumes" \notin DOMAIN options /\ "fileSystemSnapshot" \notin DOMAIN options
  BY <1>1 DEF Creation!Accepted, Creation!Unsupported, Creation!ContainerFields
<1> QED BY <1>3, <1>4, <1>5, <1>6

LEMMA OptionsHold == RequestInv => Creation!OptionsSent
<1> SUFFICES ASSUME RequestInv, verdict = "accepted"
             PROVE  Creation!OptionsSent
  BY DEF Creation!OptionsSent
<1>1. Creation!Accepted /\ wire = Creation!Request /\ scratch = Creation!ScratchVolumeNames
  BY DEF RequestInv
<1>2. ASSUME NEW f \in DOMAIN options, ~Creation!AsksNothing(f)
      PROVE  IF f = "fileSystemSnapshot"
             THEN \E volumes \in Creation!OnWire("volumes") : Creation!OnWire("volumes") = {volumes}
             ELSE Creation!OnWire(f) = {options[f]}
  BY <1>2, OnWireOwn, OnWireVolumes
<1>3. ASSUME kind = "template", NEW field \in wire
      PROVE  field[1] = "mode" \/ \E f \in DOMAIN options : Creation!Place(f) = field[1]
  <2>1. \/ OwnField(field)
        \/ RestoreField(field)
        \/ field[1] = "mode"
    BY <1>1, <1>3, FieldsOfRequest DEF RequestInv, ImageField
  <2> QED BY <2>1 DEF OwnField, RestoreField, DefaultVolume, Creation!Place
<1>4. kind = "file" => Creation!OnWire("volumes") = {}
  BY OnWireVolumes
<1>5. scratch = {volumes.scratch : volumes \in Creation!OnWire("volumes")}
  <2>1. CASE "volumes" \in DOMAIN options
    <3>1. Creation!OnWire("volumes") = {options["volumes"]} /\ kind # "file"
      BY <2>1, OnWireVolumes
    <3>2. Creation!ScratchVolumeNames = {options["volumes"].scratch}
      BY <1>1, <2>1, <3>1, RestoreSent DEF Creation!ScratchVolumeNames, Creation!Given
    <3> QED BY <1>1, <3>1, <3>2
  <2>2. CASE "fileSystemSnapshot" \in DOMAIN options
    <3>1. Creation!OnWire("volumes") = {DefaultVolume[2]} /\ kind # "file"
      BY <2>2, OnWireVolumes
    <3>2. DefaultVolume[2].scratch = {"scratch"}
      BY DEF DefaultVolume
    <3>3. "volumes" \notin DOMAIN options
      BY <1>1, <2>2, RestoreSent
    <3>4. Creation!ScratchVolumeNames = {{Creation!DefaultScratch}}
      BY <2>2, <3>1, <3>3 DEF Creation!ScratchVolumeNames, Creation!Given
    <3>5. scratch = {{"scratch"}}
      BY Zenon, <1>1, <3>4 DEF Creation!DefaultScratch
    <3>6. \A v, names : v.scratch = names => {volumes.scratch : volumes \in {v}} = {names}
      OBVIOUS
    <3> QED BY Zenon, <3>1, <3>2, <3>5, <3>6
  <2>3. CASE "volumes" \notin DOMAIN options /\ "fileSystemSnapshot" \notin DOMAIN options
    BY <1>1, <2>3, OnWireVolumes DEF Creation!ScratchVolumeNames, Creation!Given
  <2> QED BY <2>1, <2>2, <2>3
<1> QED BY <1>2, <1>3, <1>4, <1>5 DEF Creation!OptionsSent

----------------------------------------------------------------------------
(* The parts of a container.                                                *)

AnyPart ==
    Parts!Variables \cup Parts!SecretInputs \cup Parts!Files \cup Parts!VolumeInputs
        \cup Parts!ServiceInputs \cup Parts!ResourceInputs

PartsInv ==
    /\ topic \in {"variables", "paths", "services", "resources"}
    /\ parts \in Seq(AnyPart)
    /\ decision = "accepted" => Parts!ValidParts /\ container = Parts!SentContainer

LEMMA PartsInitInv == Parts!PartsInit => PartsInv
BY DEF Parts!PartsInit, PartsInv

\* What is valid and what is sent are functions of the list of parts.
LEMMA PartsSame ==
    ASSUME UNCHANGED parts
    PROVE  /\ Parts!ValidParts' <=> Parts!ValidParts
           /\ Parts!SentContainer' = Parts!SentContainer
<1>1. \A part : Parts!Listed(part)' = Parts!Listed(part)
  BY DEF Parts!Listed
<1>2. Parts!ValidSecrets' <=> Parts!ValidSecrets
  BY <1>1 DEF Parts!ValidSecrets, Parts!Distinct, Parts!EnvVar, Parts!Undefined
<1>3. Parts!ValidFiles' <=> Parts!ValidFiles
  BY <1>1 DEF Parts!ValidFiles, Parts!Distinct
<1>4. Parts!ValidVolumes' <=> Parts!ValidVolumes
  BY <1>1 DEF Parts!ValidVolumes, Parts!Distinct
<1>5. Parts!ValidServices' <=> Parts!ValidServices
  <2>1. \A i \in Parts!Listed("service") :
            Parts!ValidEndpoint(parts[i])' <=> Parts!ValidEndpoint(parts[i])
    BY DEF Parts!ValidEndpoint, Parts!Undefined
  <2> QED BY <1>1, <2>1 DEF Parts!ValidServices, Parts!Distinct
<1>6. Parts!ValidResources' <=> Parts!ValidResources
  BY <1>1 DEF Parts!ValidResources
<1>7. Parts!SentContainer' = Parts!SentContainer
  BY <1>1 DEF Parts!SentContainer, Parts!Grouped, Parts!Mapped
<1> QED BY <1>2, <1>3, <1>4, <1>5, <1>6, <1>7 DEF Parts!ValidParts

LEMMA PartsStep == ASSUME PartsInv, [Parts!PartsNext]_partsVars PROVE PartsInv'
<1>1. ASSUME NEW input \in Parts!Inputs, Parts!List(input) PROVE PartsInv'
  <2>1. input \in AnyPart
    BY DEF PartsInv, Parts!Inputs, AnyPart
  <2> QED BY <1>1, <2>1, AppendProperties DEF Parts!List, PartsInv
<1>2. CASE Parts!Submit
  <2>1. UNCHANGED <<topic, parts>>
    BY <1>2 DEF Parts!Submit
  <2>2. decision' = "accepted" => Parts!ValidParts /\ container' = Parts!SentContainer
    BY <1>2 DEF Parts!Submit
  <2> QED BY <2>1, <2>2, PartsSame DEF PartsInv
<1>3. CASE UNCHANGED partsVars
  BY <1>3, PartsSame DEF partsVars, PartsInv
<1> QED BY <1>1, <1>2, <1>3 DEF Parts!PartsNext

LEMMA SentParts ==
    ASSUME container = Parts!SentContainer
    PROVE  /\ container.env = {parts[i].key : i \in Parts!Listed("env")}
           /\ container.stores = Parts!Grouped
           /\ container.files = [i \in Parts!Listed("file") |-> parts[i].path]
           /\ container.volumes = [i \in Parts!Listed("volume") |-> Parts!SentVolume(parts[i])]
           /\ container.mounts = [i \in Parts!Listed("volume") |-> Parts!SentMount(parts[i])]
           /\ container.services = [i \in Parts!Listed("service") |-> Parts!SentService(parts[i])]
           /\ container.resources =
                  [i \in Parts!Listed("resources") |-> Parts!SentResources(parts[i])]
BY DEF Parts!SentContainer, Parts!Mapped

\* A part is known by its field "part".
LEMMA PartTypes ==
    ASSUME PartsInv, NEW i \in DOMAIN parts
    PROVE  /\ parts[i].part = "env" => parts[i] \in Parts!Variables
           /\ parts[i].part = "secret" => parts[i] \in Parts!SecretInputs
           /\ parts[i].part = "service" => parts[i] \in Parts!ServiceInputs
<1>1. parts[i] \in AnyPart
  <2>1. parts \in [1..Len(parts) -> AnyPart]
    BY LenProperties DEF PartsInv
  <2> QED BY <2>1
<1> QED BY <1>1 DEF AnyPart, Parts!Variables, Parts!SecretInputs, Parts!Files,
        Parts!VolumeInputs, Parts!ServiceInputs, Parts!ResourceInputs

\* A secret of the request is one that was listed, and the other way round.
LEMMA StoredSecrets ==
    ASSUME container = Parts!SentContainer
    PROVE  /\ \A i \in Parts!Listed("secret") :
                  /\ parts[i].store \in DOMAIN container.stores
                  /\ [name |-> parts[i].name, envVar |-> Parts!EnvVar(parts[i])]
                         \in container.stores[parts[i].store]
           /\ \A store \in DOMAIN container.stores : \A secret \in container.stores[store] :
                  \E i \in Parts!Listed("secret") :
                      /\ parts[i].store = store /\ parts[i].name = secret.name
                      /\ secret.envVar = Parts!EnvVar(parts[i])
<1> DEFINE Kept(i) == [name |-> parts[i].name, envVar |-> Parts!EnvVar(parts[i])]
           stores == {parts[i].store : i \in Parts!Listed("secret")}
           Of(store) == {Kept(i) : i \in {j \in Parts!Listed("secret") : parts[j].store = store}}
<1>1. container.stores = [store \in stores |-> Of(store)]
  BY SentParts DEF Parts!Grouped
<1>2. DOMAIN container.stores = stores /\ \A store \in stores : container.stores[store] = Of(store)
  BY <1>1
<1>3. \A i \in Parts!Listed("secret") : parts[i].store \in stores /\ Kept(i) \in Of(parts[i].store)
  OBVIOUS
<1>4. ASSUME NEW store \in stores, NEW secret \in Of(store)
      PROVE  \E i \in Parts!Listed("secret") :
                /\ parts[i].store = store /\ parts[i].name = secret.name
                /\ secret.envVar = Parts!EnvVar(parts[i])
  <2>1. PICK i \in Parts!Listed("secret") : parts[i].store = store /\ secret = Kept(i)
    BY <1>4
  <2> QED BY <2>1
<1> QED BY <1>2, <1>3, <1>4

LEMMA VariablesHold ==
    ASSUME PartsInv, decision = "accepted", NEW i \in DOMAIN parts
    PROVE  /\ parts[i].part = "env" =>
                  Parts!SourcesOf(parts[i].key) = {<<"caller", parts[i].key>>}
           /\ parts[i].part = "secret" =>
                  Parts!SourcesOf(Parts!EnvVar(parts[i])) = {<<parts[i].store, parts[i].name>>}
<1>1. Parts!ValidParts /\ container = Parts!SentContainer
  BY DEF PartsInv
<1>2. /\ \A p, q \in Parts!Listed("secret") :
             p # q => Parts!EnvVar(parts[p]) # Parts!EnvVar(parts[q])
      /\ \A p \in Parts!Listed("secret"), q \in Parts!Listed("env") :
             Parts!EnvVar(parts[p]) # parts[q].key
  BY <1>1 DEF Parts!ValidParts, Parts!ValidSecrets, Parts!Distinct
<1>3. container.env = {parts[p].key : p \in Parts!Listed("env")}
  BY <1>1, SentParts
<1> DEFINE Filled(key, filler) ==
               [name |-> filler[2], envVar |-> key] \in container.stores[filler[1]]
           Fillers(key) == {filler \in (DOMAIN container.stores) \X Keys : Filled(key, filler)}
<1>4. \A key : Parts!SourcesOf(key) =
          (IF key \in container.env THEN {<<"caller", key>>} ELSE {}) \cup Fillers(key)
  BY DEF Parts!SourcesOf
<1>5. ASSUME NEW key, NEW filler \in Fillers(key)
      PROVE  \E p \in Parts!Listed("secret") :
                 filler = <<parts[p].store, parts[p].name>> /\ key = Parts!EnvVar(parts[p])
  <2>1. /\ filler \in (DOMAIN container.stores) \X Keys
        /\ [name |-> filler[2], envVar |-> key] \in container.stores[filler[1]]
    BY <1>5
  <2>2. filler = <<filler[1], filler[2]>> /\ filler[1] \in DOMAIN container.stores
    BY <2>1
  <2> DEFINE secret == [name |-> filler[2], envVar |-> key]
  <2>3. secret.name = filler[2] /\ secret.envVar = key
    OBVIOUS
  <2> HIDE DEF secret
  <2>4. secret \in container.stores[filler[1]]
    BY <2>1 DEF secret
  <2>5. PICK p \in Parts!Listed("secret") :
            /\ parts[p].store = filler[1] /\ parts[p].name = secret.name
            /\ secret.envVar = Parts!EnvVar(parts[p])
    BY <1>1, <2>2, <2>4, StoredSecrets
  <2> QED BY <2>2, <2>3, <2>5
<1> HIDE DEF Fillers
<1>6. CASE parts[i].part = "env"
  <2>1. i \in Parts!Listed("env") /\ parts[i].key \in container.env
    BY <1>3, <1>6 DEF Parts!Listed
  <2>2. Fillers(parts[i].key) = {}
    BY <1>2, <1>5, <2>1
  <2> QED BY <1>4, <1>6, <2>1, <2>2
<1>7. CASE parts[i].part = "secret"
  <2> DEFINE key == Parts!EnvVar(parts[i])
             filler == <<parts[i].store, parts[i].name>>
  <2>1. i \in Parts!Listed("secret")
    BY <1>7 DEF Parts!Listed
  <2>2. key \notin container.env
    BY <1>2, <1>3, <2>1
  <2>3. filler \in Fillers(key)
    <3>1. parts[i].name \in Keys
      BY <1>7, PartTypes DEF Parts!SecretInputs
    <3>2. /\ parts[i].store \in DOMAIN container.stores
          /\ [name |-> parts[i].name, envVar |-> key] \in container.stores[parts[i].store]
      BY <1>1, <2>1, StoredSecrets
    <3> QED BY <3>1, <3>2 DEF Fillers
  <2>4. \A other \in Fillers(key) : other = filler
    BY <1>2, <1>5, <2>1
  <2>5. Fillers(key) = {filler}
    BY <2>3, <2>4
  <2> HIDE DEF filler
  <2>6. Parts!SourcesOf(key) = {filler}
    BY <1>4, <2>2, <2>5
  <2> QED BY <1>7, <2>6 DEF filler
<1> QED BY <1>6, <1>7

LEMMA ServicesHold ==
    ASSUME PartsInv, decision = "accepted", NEW i \in DOMAIN parts, parts[i].part = "service"
    PROVE  \E p \in DOMAIN container.services :
               /\ container.services[p].endpoint = parts[i].endpoint
               /\ \A q \in DOMAIN container.services :
                     container.services[q].port = parts[i].port <=> q = p
<1>1. Parts!ValidParts /\ container = Parts!SentContainer
  BY DEF PartsInv
<1>2. container.services = [p \in Parts!Listed("service") |-> Parts!SentService(parts[p])]
  BY <1>1, SentParts
<1>3. /\ parts[i].endpoint.kind # "none" => Parts!ValidEndpoint(parts[i])
      /\ \A p, q \in Parts!Listed("service") : p # q => parts[p].port # parts[q].port
      /\ i \in Parts!Listed("service")
  <2>1. i \in Parts!Listed("service")
    BY DEF Parts!Listed
  <2>2. Parts!ValidServices
    BY <1>1 DEF Parts!ValidParts
  <2>3. parts[i].endpoint.kind # "none" => Parts!ValidEndpoint(parts[i])
    BY <2>1, <2>2 DEF Parts!ValidServices
  <2>4. \A p, q \in Parts!Listed("service") : p # q => parts[p].port # parts[q].port
    BY <2>2 DEF Parts!ValidServices, Parts!Distinct
  <2> QED BY <2>1, <2>3, <2>4
<1>4. Parts!SentEndpoint(parts[i].endpoint) = parts[i].endpoint
  <2>1. parts[i].endpoint \in Parts!Endpoints
    BY PartTypes DEF Parts!ServiceInputs
  <2>2. CASE parts[i].endpoint.kind = "tls_passthrough"
    <3>1. parts[i].endpoint.auth = Parts!Undefined
      BY <1>3, <2>2 DEF Parts!ValidEndpoint
    <3>2. parts[i].endpoint = [kind |-> parts[i].endpoint.kind, auth |-> parts[i].endpoint.auth]
      BY <2>1 DEF Parts!Endpoints
    <3> QED BY <2>2, <3>1, <3>2 DEF Parts!SentEndpoint
  <2> QED BY <2>2 DEF Parts!SentEndpoint
<1>5. \A p \in DOMAIN container.services :
          /\ container.services[p].port = parts[p].port
          /\ container.services[p].endpoint = Parts!SentEndpoint(parts[p].endpoint)
  BY <1>2 DEF Parts!SentService
<1> QED BY <1>2, <1>3, <1>4, <1>5

\* No two parts of a container have one name or one path.
LEMMA MountsHold ==
    ASSUME PartsInv, decision = "accepted", NEW p \in DOMAIN container.mounts
    PROVE  /\ \E v \in DOMAIN container.volumes : \A u \in DOMAIN container.volumes :
                  container.volumes[u].name = container.mounts[p].volume <=> u = v
           /\ \A q \in DOMAIN container.mounts :
                  container.mounts[q].path = container.mounts[p].path => q = p
<1>1. Parts!ValidParts /\ container = Parts!SentContainer
  BY DEF PartsInv
<1>2. /\ container.volumes = [i \in Parts!Listed("volume") |-> Parts!SentVolume(parts[i])]
      /\ container.mounts = [i \in Parts!Listed("volume") |-> Parts!SentMount(parts[i])]
  BY <1>1, SentParts
<1>3. /\ \A i, j \in Parts!Listed("volume") : i # j => parts[i].name # parts[j].name
      /\ \A i, j \in Parts!Listed("volume") : i # j => parts[i].path # parts[j].path
  BY <1>1 DEF Parts!ValidParts, Parts!ValidVolumes, Parts!Distinct
<1>4. /\ DOMAIN container.volumes = Parts!Listed("volume")
      /\ DOMAIN container.mounts = Parts!Listed("volume")
      /\ \A i \in Parts!Listed("volume") :
            /\ container.volumes[i].name = parts[i].name
            /\ container.mounts[i].volume = parts[i].name
            /\ container.mounts[i].path = parts[i].path
  BY <1>2 DEF Parts!SentVolume, Parts!SentMount
<1> QED BY <1>3, <1>4

\* A volume is not over a mounted file, nor inside of one, nor in a reserved directory.
LEMMA PathsHold ==
    ASSUME PartsInv, decision = "accepted", NEW p \in DOMAIN container.mounts
    PROVE  /\ \A f \in DOMAIN container.files :
                  container.files[f].segs # <<>> =>
                      /\ ~Parts!IsPrefix(container.files[f].segs, container.mounts[p].path.segs)
                      /\ ~Parts!IsPrefix(container.mounts[p].path.segs, container.files[f].segs)
           /\ \A reserved \in Reserved : ~Parts!IsPrefix(reserved, container.mounts[p].path.segs)
<1>1. Parts!ValidVolumes /\ container = Parts!SentContainer
  BY DEF PartsInv, Parts!ValidParts
<1>2. /\ container.files = [i \in Parts!Listed("file") |-> parts[i].path]
      /\ container.mounts = [i \in Parts!Listed("volume") |-> Parts!SentMount(parts[i])]
  BY <1>1, SentParts
<1>3. p \in Parts!Listed("volume") /\ container.mounts[p].path = parts[p].path
  BY <1>2 DEF Parts!SentMount
<1>4. /\ Parts!ValidMountPath(parts[p].path)
      /\ \A f \in Parts!Listed("file") : ~Parts!Clashes(parts[p], parts[f])
  BY <1>1, <1>3 DEF Parts!ValidVolumes
<1>5. parts[p].path.segs # <<>>
  BY <1>4 DEF Parts!ValidMountPath
<1>6. ASSUME NEW f \in DOMAIN container.files, container.files[f].segs # <<>>
      PROVE  /\ ~Parts!IsPrefix(container.files[f].segs, container.mounts[p].path.segs)
             /\ ~Parts!IsPrefix(container.mounts[p].path.segs, container.files[f].segs)
  <2>1. f \in Parts!Listed("file") /\ container.files[f] = parts[f].path
    BY <1>2
  <2>2. /\ ~Parts!EqualOrUnder(parts[p].path.segs, parts[f].path.segs)
        /\ ~Parts!EqualOrUnder(parts[f].path.segs, parts[p].path.segs)
    BY <1>4, <2>1 DEF Parts!Clashes
  <2> QED BY <1>3, <1>5, <1>6, <2>1, <2>2 DEF Parts!EqualOrUnder
<1>7. ASSUME NEW reserved \in Reserved
      PROVE  ~Parts!IsPrefix(reserved, container.mounts[p].path.segs)
  <2>1. reserved # <<>>
    BY DEF Reserved
  <2>2. ~Parts!EqualOrUnder(parts[p].path.segs, reserved)
    BY <1>4 DEF Parts!ValidMountPath
  <2> QED BY <1>3, <2>1, <2>2 DEF Parts!EqualOrUnder
<1> QED BY <1>6, <1>7

LEMMA ResourcesHold ==
    ASSUME PartsInv, decision = "accepted", NEW p \in DOMAIN container.resources
    PROVE  "gpu" \in container.resources[p].requests <=> "gpu" \in container.resources[p].limits
<1>1. Parts!ValidResources /\ container = Parts!SentContainer
  BY DEF PartsInv, Parts!ValidParts
<1>2. container.resources = [i \in Parts!Listed("resources") |-> Parts!SentResources(parts[i])]
  BY <1>1, SentParts
<1>3. p \in Parts!Listed("resources") /\ container.resources[p] = Parts!SentResources(parts[p])
  BY <1>2
<1>4. CASE Parts!Advanced(parts[p])
  <2>1. "gpu" \notin parts[p].requests /\ "gpu" \notin parts[p].limits
    BY <1>1, <1>3, <1>4 DEF Parts!ValidResources
  <2> QED BY <1>3, <1>4, <2>1 DEF Parts!SentResources
<1>5. CASE ~Parts!Advanced(parts[p])
  BY <1>3, <1>5 DEF Parts!SentResources
<1> QED BY <1>4, <1>5

LEMMA PartsHold == PartsInv => Parts!PartsSent
<1> SUFFICES ASSUME PartsInv, decision = "accepted" PROVE Parts!PartsSent
  BY DEF Parts!PartsSent
<1> QED BY VariablesHold, ServicesHold, MountsHold, PathsHold, ResourcesHold DEF Parts!PartsSent

----------------------------------------------------------------------------

\* What a caller asks for is in the request, whatever options are combined: each
\* one under its name and once, each variable, service, mount and resource of the
\* container as it was listed, and the rules of a network with their meaning, also
\* when they are read and written again.
THEOREM RequestIsKept == MCSpec => []RequestKept
<1>1. MCInit => RequestInv /\ PartsInv /\ RulesInv
  BY RequestInitInv, PartsInitInv, RulesInitInv DEF MCInit
<1>2. RequestInv /\ [MCNext]_all => RequestInv'
  BY RequestStep, RequestMoves
<1>3. PartsInv /\ [MCNext]_all => PartsInv'
  BY PartsStep, PartsMoves
<1>4. RulesInv /\ [MCNext]_all => RulesInv'
  BY RulesStep, RulesMoves
<1>5. RequestInv /\ PartsInv /\ RulesInv => RequestKept
  BY OptionsHold, PartsHold, RulesHold DEF RequestKept
<1> QED BY <1>1, <1>2, <1>3, <1>4, <1>5, PTL DEF MCSpec
=============================================================================
