------------------------------ MODULE AsyncQueue ------------------------------
(***************************************************************************)
(* The bounded single-consumer queue behind every output stream of the SDK *)
(* (streaming/async-queue.ts).  JavaScript runs one task at a time, so each *)
(* action runs from one await to the next; a promise that is resolved only *)
(* schedules its continuation, and whatever else is ready may run before   *)
(* it.  A producer parked in waitingProducers therefore rechecks the queue *)
(* in a later step than the one that woke it.                              *)
(*                                                                         *)
(* Items are numbered per producer.  sent, delivered and lost are history: *)
(* they record the traffic, the code does not read them.                   *)
(***************************************************************************)
EXTENDS Naturals, Sequences, FiniteSets

CONSTANTS
    Producers, \* pieces of code that push, each one push at a time
    Calls,     \* calls of next() that may be outstanding together
    Capacity,  \* constructor parameter capacity
    MaxPushes  \* bound on the pushes of each producer

\* The SDK has at most two producers on a queue, a dispatch loop and a
\* closing flush, and every queue keeps the default capacity of 64.
ASSUME CapacityAssumption ==
    /\ Capacity \in Nat \ {0}
    /\ IsFiniteSet(Producers)
    /\ Cardinality(Producers) <= Capacity
ASSUME BoundAssumption == MaxPushes \in Nat

VARIABLES
    items,            \* buffered items, oldest first
    waitingConsumers, \* calls of next() parked on an empty queue
    waitingProducers, \* producers parked on a full queue
    closed,           \* close() or fail() ran
    error,            \* fail() ran first
    producer,         \* where each producer is
    call,             \* where each call of next() is
    sent,             \* history: pushes begun by each producer
    delivered,        \* history: items handed to the consumer, in order
    lost,             \* history: items refused or dropped
    ended             \* history: the end the consumer was told of

vars == <<items, waitingConsumers, waitingProducers, closed, error, producer,
          call, sent, delivered, lost, ended>>

Items == Producers \X (1..MaxPushes)

TypeOK ==
    /\ items \in Seq(Items)
    /\ waitingConsumers \in Seq(Calls)
    /\ waitingProducers \in Seq(Producers)
    /\ closed \in BOOLEAN
    /\ error \in BOOLEAN
    /\ producer \in [Producers -> {"idle", "waiting", "woken"}]
    /\ call \in [Calls -> {"idle", "waiting"}]
    /\ sent \in [Producers -> 0..MaxPushes]
    /\ delivered \in Seq(Items)
    /\ lost \in SUBSET Items
    /\ ended \in {"no", "done", "error"}

Init ==
    /\ items = <<>>
    /\ waitingConsumers = <<>>
    /\ waitingProducers = <<>>
    /\ closed = FALSE
    /\ error = FALSE
    /\ producer = [p \in Producers |-> "idle"]
    /\ call = [c \in Calls |-> "idle"]
    /\ sent = [p \in Producers |-> 0]
    /\ delivered = <<>>
    /\ lost = {}
    /\ ended = "no"

Full == Len(items) >= Capacity

\* Producer p's current item.
Current(p) == <<p, sent[p]>>

----------------------------------------------------------------------------
(* Producers.                                                               *)

\* Hand x to the oldest waiting call of next(), or buffer it.
Accept(x) ==
    /\ IF waitingConsumers # <<>>
       THEN /\ delivered' = Append(delivered, x)
            /\ call' = [call EXCEPT ![Head(waitingConsumers)] = "idle"]
            /\ waitingConsumers' = Tail(waitingConsumers)
            /\ UNCHANGED items
       ELSE /\ items' = Append(items, x)
            /\ UNCHANGED <<delivered, call, waitingConsumers>>
    /\ UNCHANGED <<waitingProducers, lost>>

Refuse(x) ==
    /\ lost' = lost \cup {x}
    /\ UNCHANGED <<items, delivered, call, waitingConsumers, waitingProducers>>

\* The loop of push() for item x, up to its await or its return.
PushLoop(p, x) ==
    \/ /\ closed
       /\ Refuse(x)
       /\ producer' = [producer EXCEPT ![p] = "idle"]
    \/ /\ ~closed /\ ~Full
       /\ Accept(x)
       /\ producer' = [producer EXCEPT ![p] = "idle"]
    \/ /\ ~closed /\ Full
       /\ waitingProducers' = Append(waitingProducers, p)
       /\ producer' = [producer EXCEPT ![p] = "waiting"]
       /\ UNCHANGED <<items, delivered, call, waitingConsumers, lost>>

\* push(item) is called.
Push(p) ==
    /\ producer[p] = "idle" /\ sent[p] < MaxPushes
    /\ sent' = [sent EXCEPT ![p] = @ + 1]
    /\ PushLoop(p, <<p, sent[p] + 1>>)
    /\ UNCHANGED <<closed, error, ended>>

\* The continuation of a woken push() runs.
ResumeWithoutLoop(p) ==
    /\ producer[p] = "woken"
    /\ producer' = [producer EXCEPT ![p] = "idle"]
    /\ IF closed THEN Refuse(Current(p))
       ELSE IF Full THEN UNCHANGED <<items, delivered, call, waitingConsumers, waitingProducers, lost>>
       ELSE Accept(Current(p))
    /\ UNCHANGED <<closed, error, sent, ended>>
Resume(p) ==
    /\ producer[p] = "woken"
    /\ PushLoop(p, Current(p))
    /\ UNCHANGED <<closed, error, sent, ended>>

\* tryPush(item): never waits; what does not fit is dropped.
TryPush(p) ==
    /\ producer[p] = "idle" /\ sent[p] < MaxPushes
    /\ sent' = [sent EXCEPT ![p] = @ + 1]
    /\ LET x == <<p, sent[p] + 1>>
       IN  IF closed \/ (waitingConsumers = <<>> /\ Full) THEN Refuse(x) ELSE Accept(x)
    /\ UNCHANGED <<closed, error, producer, ended>>

----------------------------------------------------------------------------
(* The consumer.                                                            *)

\* next() finds an item: it takes it and wakes the oldest waiting producer.
NextWakesOnlyWhenFull(c) ==
    /\ call[c] = "idle" /\ items # <<>>
    /\ items' = Tail(items)
    /\ delivered' = Append(delivered, Head(items))
    /\ IF waitingProducers # <<>> /\ Full
       THEN /\ producer' = [producer EXCEPT ![Head(waitingProducers)] = "woken"]
            /\ waitingProducers' = Tail(waitingProducers)
       ELSE UNCHANGED <<producer, waitingProducers>>
    /\ UNCHANGED <<waitingConsumers, closed, error, call, sent, lost, ended>>
NextTakes(c) ==
    /\ call[c] = "idle" /\ items # <<>>
    /\ items' = Tail(items)
    /\ delivered' = Append(delivered, Head(items))
    /\ IF waitingProducers # <<>>
       THEN /\ producer' = [producer EXCEPT ![Head(waitingProducers)] = "woken"]
            /\ waitingProducers' = Tail(waitingProducers)
       ELSE UNCHANGED <<producer, waitingProducers>>
    /\ UNCHANGED <<waitingConsumers, closed, error, call, sent, lost, ended>>

\* next() on a drained and closed queue: the error, or done.
NextEnds(c) ==
    /\ call[c] = "idle" /\ items = <<>> /\ closed
    /\ ended' = IF error THEN "error" ELSE "done"
    /\ UNCHANGED <<items, waitingConsumers, waitingProducers, closed, error,
                   producer, call, sent, delivered, lost>>

\* next() on an empty open queue waits.
NextWaits(c) ==
    /\ call[c] = "idle" /\ items = <<>> /\ ~closed
    /\ call' = [call EXCEPT ![c] = "waiting"]
    /\ waitingConsumers' = Append(waitingConsumers, c)
    /\ UNCHANGED <<items, waitingProducers, closed, error, producer, sent,
                   delivered, lost, ended>>

----------------------------------------------------------------------------
(* close() and fail(): the first one decides how the stream ends.  Parked   *)
(* calls learn it at once, buffered items stay readable, and every parked   *)
(* producer is woken to find the queue closed.                              *)
End(failed) ==
    /\ ~closed
    /\ closed' = TRUE
    /\ error' = failed
    /\ ended' = IF waitingConsumers = <<>> THEN ended
                ELSE IF failed THEN "error" ELSE "done"
    /\ call' = [c \in Calls |-> "idle"]
    /\ waitingConsumers' = <<>>
    /\ producer' = [p \in Producers |-> IF producer[p] = "waiting" THEN "woken" ELSE producer[p]]
    /\ waitingProducers' = <<>>
    /\ UNCHANGED <<items, sent, delivered, lost>>

Close == End(FALSE)
Fail  == End(TRUE)

----------------------------------------------------------------------------
NextCall(c) == NextTakes(c) \/ NextEnds(c) \/ NextWaits(c)

Next ==
    \/ \E p \in Producers : Push(p) \/ Resume(p) \/ TryPush(p)
    \/ \E c \in Calls : NextCall(c)
    \/ Close
    \/ Fail

\* The event loop runs every scheduled continuation.
EventLoop == \A p \in Producers : WF_vars(Resume(p))

\* A consumer that keeps reading, as a for-await loop does until the end.
Reading == \A c \in Calls : WF_vars(NextTakes(c) \/ NextWaits(c))

Spec == Init /\ [][Next]_vars /\ EventLoop /\ Reading

----------------------------------------------------------------------------
(* Properties.                                                              *)

\* The stream as the consumer sees it and will see it: first what it got,
\* then what is buffered.
Stream == delivered \o items

\* No item is delivered twice and the items of one producer keep their order,
\* through direct hand-over, buffering and waiting.
InOrder ==
    \A i, j \in 1..Len(Stream) :
        i < j /\ Stream[i][1] = Stream[j][1] => Stream[i][2] < Stream[j][2]

\* Every item whose push began is on its way, delivered, or was refused: an
\* await in the middle of push() loses nothing.
NothingVanishes ==
    \A p \in Producers, n \in 1..MaxPushes :
        n <= sent[p] =>
            \/ \E i \in 1..Len(Stream) : Stream[i] = <<p, n>>
            \/ <<p, n>> \in lost
            \/ producer[p] # "idle" /\ n = sent[p]

\* The stream of a producer is whole: once, in order and without a gap that
\* was not refused, though a push waits, hands over or finds the queue closed.
StreamWhole == InOrder /\ NothingVanishes

\* A call of next() waits only while nothing is buffered, so handing an item
\* straight to it overtakes none.
WaitersMeanEmpty == waitingConsumers # <<>> => items = <<>>

\* No lost wake-up: while a producer waits there are items whose removal will
\* wake it.  next() wakes one producer per item taken, so this needs no more
\* producers than the queue has places.
NoLostWakeup == Len(waitingProducers) <= Len(items)

\* After close() or fail() nobody is left parked.
EndWakesAll == closed => waitingConsumers = <<>> /\ waitingProducers = <<>>

\* The buffer holds at most capacity items, whoever was woken.
Bounded == Len(items) <= Capacity

\* The end comes last: once the consumer was told of it, no item follows, and
\* it is the end that close() or fail() chose first.
EndIsFinal ==
    [][ended # "no" => delivered' = delivered /\ ended' = ended]_vars

\* A push never hangs while the consumer keeps reading, and after the end it has
\* no effect.
PushReturns == EndIsFinal /\ \A p \in Producers : producer[p] # "idle" ~> producer[p] = "idle"

=============================================================================
