-------------------------- MODULE AsyncQueueProofs --------------------------
(***************************************************************************)
(* The queue's safety properties for every capacity, every set of          *)
(* producers that fits it and every number of outstanding next() calls.    *)
(***************************************************************************)
EXTENDS AsyncQueue, FiniteSetTheorems, SequenceTheorems, TLAPS

\* A parked producer is parked once, and is waiting.
ParkedOnce ==
    \A i \in 1..Len(waitingProducers) :
        /\ producer[waitingProducers[i]] = "waiting"
        /\ \A j \in 1..Len(waitingProducers) :
              waitingProducers[i] = waitingProducers[j] => i = j

\* What is in the stream was sent, and a pending push is not in it yet.
Numbered ==
    \A i \in 1..Len(Stream) :
        LET p == Stream[i][1] IN
            /\ Stream[i][2] <= sent[p]
            /\ producer[p] # "idle" => Stream[i][2] < sent[p]

\* A pending push has a number.
PendingSent == \A p \in Producers : producer[p] # "idle" => sent[p] # 0

IInv ==
    /\ TypeOK
    /\ WaitersMeanEmpty
    /\ EndWakesAll
    /\ Bounded
    /\ NoLostWakeup
    /\ ParkedOnce
    /\ PendingSent
    /\ Numbered
    /\ InOrder

----------------------------------------------------------------------------
(* What the pieces of a step do.                                            *)

\* A producer that is not parked leaves room among the parked ones.
LEMMA ParkedFewer ==
    ASSUME TypeOK, ParkedOnce, NEW p \in Producers, producer[p] # "waiting"
    PROVE  Len(waitingProducers) + 1 <= Cardinality(Producers)
<1> DEFINE n == Len(waitingProducers)
           f == [i \in 1..(n + 1) |-> IF i = n + 1 THEN p ELSE waitingProducers[i]]
<1>1. n \in Nat /\ \A i \in 1..n : waitingProducers[i] \in Producers
  BY LenProperties, ElementOfSeq DEF TypeOK
<1>2. f \in [1..(n + 1) -> Producers]
  BY <1>1
<1>3. ASSUME NEW i \in 1..(n + 1), NEW j \in 1..(n + 1), f[i] = f[j] PROVE i = j
  BY <1>1, <1>3 DEF ParkedOnce
<1>4. f \in Injection(1..(n + 1), Producers)
  BY <1>2, <1>3 DEF Injection, IsInjective
<1>5. Cardinality(1..(n + 1)) <= Cardinality(Producers)
  BY <1>4, FS_Injection, CapacityAssumption
<1>6. Cardinality(1..(n + 1)) = n + 1
  BY <1>1, FS_Interval
<1> QED BY <1>5, <1>6

\* Accepting an item appends it to the stream, within the capacity.
LEMMA AcceptEffect ==
    ASSUME TypeOK, WaitersMeanEmpty, Bounded, NEW x \in Items, ~Full \/ waitingConsumers # <<>>,
           Accept(x)
    PROVE  /\ items' \in Seq(Items) /\ delivered' \in Seq(Items)
           /\ waitingConsumers' \in Seq(Calls)
           /\ call' \in [Calls -> {"idle", "waiting"}]
           /\ Stream' = Append(Stream, x)
           /\ WaitersMeanEmpty' /\ Bounded'
           /\ Len(items) <= Len(items')
           /\ waitingConsumers = <<>> => waitingConsumers' = <<>>
<1>1. CASE waitingConsumers # <<>>
  <2>1. items = <<>> /\ items' = <<>>
    BY <1>1 DEF WaitersMeanEmpty, Accept
  <2>2. delivered' = Append(delivered, x)
    BY <1>1 DEF Accept
  <2>3. waitingConsumers' \in Seq(Calls) /\ call' \in [Calls -> {"idle", "waiting"}]
    <3>1. Tail(waitingConsumers) \in Seq(Calls)
      BY <1>1, HeadTailProperties DEF TypeOK
    <3> QED BY <1>1, <3>1 DEF Accept, TypeOK
  <2>4. Stream = delivered /\ Stream' = delivered'
    BY <2>1, <2>2, ConcatEmptySeq DEF Stream, TypeOK
  <2> QED BY <1>1, <2>1, <2>2, <2>3, <2>4, AppendProperties
          DEF TypeOK, WaitersMeanEmpty, Bounded
<1>2. CASE waitingConsumers = <<>>
  <2>1. items' = Append(items, x) /\ UNCHANGED <<delivered, call, waitingConsumers>>
    BY <1>2 DEF Accept
  <2>2. Stream' = Append(Stream, x)
    BY <2>1 DEF Stream, TypeOK
  <2>3. Len(items) < Capacity /\ Len(items') = Len(items) + 1
    BY <1>2, <2>1, AppendProperties, CapacityAssumption DEF Full, TypeOK
  <2> QED BY <1>2, <2>1, <2>2, <2>3, AppendProperties, LenProperties, CapacityAssumption
          DEF TypeOK, WaitersMeanEmpty, Bounded
<1> QED BY <1>1, <1>2

\* The stream keeps its order when a producer's newest item joins it.
LEMMA StreamGrows ==
    ASSUME TypeOK, Numbered, InOrder, NEW p \in Producers, NEW n \in 1..MaxPushes,
           Stream' = Append(Stream, <<p, n>>),
           sent' \in [Producers -> 0..MaxPushes],
           sent'[p] = n,
           \A q \in Producers : sent[q] <= sent'[q],
           producer[p] # "idle" \/ sent[p] < n,
           producer' = [producer EXCEPT ![p] = "idle"]
    PROVE  Numbered' /\ InOrder'
<1>1. Stream \in Seq(Items)
  BY ConcatProperties DEF TypeOK, Stream
<1>2. /\ Len(Stream') = Len(Stream) + 1
      /\ Stream'[Len(Stream) + 1] = <<p, n>>
      /\ \A i \in 1..Len(Stream) : Stream'[i] = Stream[i] /\ Stream[i] \in Items
      /\ Len(Stream) \in Nat
  BY <1>1, AppendProperties, LenProperties, ElementOfSeq DEF Items
<1>3. \A i \in 1..Len(Stream) :
         /\ Stream[i][1] \in Producers /\ Stream[i][2] \in 1..MaxPushes
         /\ Stream[i][2] <= sent[Stream[i][1]]
         /\ producer[Stream[i][1]] # "idle" => Stream[i][2] < sent[Stream[i][1]]
  <2>1. \A i \in 1..Len(Stream) : Stream[i][1] \in Producers /\ Stream[i][2] \in 1..MaxPushes
    BY <1>2 DEF Items
  <2> QED BY <2>1 DEF Numbered
<1>4. \A i \in 1..Len(Stream) : Stream[i][1] = p => Stream[i][2] < n
  <2> SUFFICES ASSUME NEW i \in 1..Len(Stream), Stream[i][1] = p
               PROVE  Stream[i][2] < n
    OBVIOUS
  <2>1. sent[p] \in Nat /\ sent[p] <= n /\ Stream[i][2] \in Nat
    BY <1>3, BoundAssumption DEF TypeOK
  <2>2. Stream[i][2] <= sent[p] /\ (producer[p] # "idle" => Stream[i][2] < sent[p])
    BY <1>3
  <2> QED BY <2>1, <2>2
<1>5. Numbered'
  <2> SUFFICES ASSUME NEW i \in 1..(Len(Stream) + 1)
               PROVE  /\ Stream'[i][2] <= sent'[Stream'[i][1]]
                      /\ producer'[Stream'[i][1]] # "idle" => Stream'[i][2] < sent'[Stream'[i][1]]
    BY <1>2 DEF Numbered
  <2>1. CASE i = Len(Stream) + 1
    BY <1>2, <2>1 DEF TypeOK
  <2>2. CASE i \in 1..Len(Stream)
    <3>1. Stream'[i] = Stream[i]
      BY <1>2, <2>2
    <3>2. CASE Stream[i][1] = p
      BY <1>3, <1>4, <2>2, <3>1, <3>2 DEF TypeOK
    <3>3. CASE Stream[i][1] # p
      BY <1>3, <2>2, <3>1, <3>3, BoundAssumption DEF TypeOK
    <3> QED BY <3>2, <3>3
  <2> QED BY <1>2, <2>1, <2>2
<1>6. InOrder'
  <2> SUFFICES ASSUME NEW i \in 1..(Len(Stream) + 1), NEW j \in 1..(Len(Stream) + 1),
                      i < j, Stream'[i][1] = Stream'[j][1]
               PROVE  Stream'[i][2] < Stream'[j][2]
    BY <1>2 DEF InOrder
  <2>1. i \in 1..Len(Stream) /\ Stream'[i] = Stream[i]
    BY <1>2
  <2>2. CASE j = Len(Stream) + 1
    <3>1. Stream'[j] = <<p, n>>
      BY <1>2, <2>2
    <3>2. Stream[i][1] = p
      BY <2>1, <3>1
    <3> QED BY <1>4, <2>1, <3>1, <3>2
  <2>3. CASE j \in 1..Len(Stream)
    <3>1. Stream'[j] = Stream[j]
      BY <1>2, <2>3
    <3>2. Stream[i][1] = Stream[j][1]
      BY <2>1, <3>1
    <3>3. Stream[i][2] < Stream[j][2]
      BY <2>1, <2>3, <3>2 DEF InOrder
    <3> QED BY <2>1, <3>1, <3>3
  <2>4. ASSUME NEW m \in Nat, j \in 1..(m + 1) PROVE j = m + 1 \/ j \in 1..m
    BY <2>4
  <2>5. j = Len(Stream) + 1 \/ j \in 1..Len(Stream)
    BY <1>2, <2>4
  <2> QED BY <2>2, <2>3, <2>5
<1> QED BY <1>5, <1>6

\* The stream's bookkeeping survives a step that does not extend it.
LEMMA StreamStays ==
    ASSUME TypeOK, Numbered, InOrder, Stream' = Stream,
           sent' \in [Producers -> 0..MaxPushes],
           \A q \in Producers : sent[q] <= sent'[q],
           \A q \in Producers : producer'[q] # "idle" => producer[q] # "idle" \/ sent[q] < sent'[q]
    PROVE  Numbered' /\ InOrder'
<1>1. Stream \in Seq(Items)
  BY ConcatProperties DEF TypeOK, Stream
<1>2. \A i \in 1..Len(Stream) :
         /\ Stream[i][1] \in Producers /\ Stream[i][2] \in 1..MaxPushes
         /\ Stream[i][2] <= sent[Stream[i][1]]
         /\ producer[Stream[i][1]] # "idle" => Stream[i][2] < sent[Stream[i][1]]
  <2>1. \A i \in 1..Len(Stream) : Stream[i] \in Producers \X (1..MaxPushes)
    BY <1>1, ElementOfSeq DEF Items
  <2>2. \A i \in 1..Len(Stream) : Stream[i][1] \in Producers /\ Stream[i][2] \in 1..MaxPushes
    BY <2>1
  <2> QED BY <2>2 DEF Numbered
<1>3. Numbered'
  BY <1>2, BoundAssumption DEF Numbered, TypeOK
<1>4. InOrder'
  BY DEF InOrder
<1> QED BY <1>3, <1>4

----------------------------------------------------------------------------
(* The invariant is inductive.                                              *)

LEMMA InitInv == Init => IInv
<1> SUFFICES ASSUME Init PROVE IInv
  OBVIOUS
<1>1. /\ Len(items) = 0 /\ Len(waitingProducers) = 0
      /\ items \in Seq(Items) /\ delivered \in Seq(Items)
      /\ waitingConsumers \in Seq(Calls) /\ waitingProducers \in Seq(Producers)
  BY EmptySeq DEF Init
<1>2. Len(Stream) = 0
  BY <1>1, ConcatProperties DEF Init, Stream
<1>3. TypeOK
  <2>1. 0 \in 0..MaxPushes
    BY BoundAssumption
  <2>2. lost \in SUBSET Items
    BY DEF Init
  <2> QED BY <1>1, <2>1, <2>2 DEF Init, TypeOK
<1>4. Numbered /\ InOrder
  BY <1>2 DEF Numbered, InOrder
<1>5. WaitersMeanEmpty /\ EndWakesAll /\ Bounded /\ NoLostWakeup /\ ParkedOnce
  BY <1>1, CapacityAssumption
     DEF Init, WaitersMeanEmpty, EndWakesAll, Bounded, NoLostWakeup, ParkedOnce
<1>6. PendingSent
  BY DEF Init, PendingSent
<1> QED BY <1>3, <1>4, <1>5, <1>6 DEF IInv

\* The loop of push(), reached by a call or by a woken continuation.
LEMMA PushLoopInv ==
    ASSUME IInv, NEW p \in Producers, NEW n \in 1..MaxPushes,
           producer[p] # "waiting",
           sent' = [sent EXCEPT ![p] = n], sent[p] <= n,
           producer[p] # "idle" \/ sent[p] < n,
           PushLoop(p, <<p, n>>),
           UNCHANGED <<closed, error, ended>>
    PROVE  IInv'
<1> DEFINE x == <<p, n>>
<1>0. /\ x \in Items
      /\ sent' \in [Producers -> 0..MaxPushes] /\ sent'[p] = n
      /\ \A q \in Producers : sent[q] <= sent'[q]
  BY BoundAssumption DEF IInv, TypeOK, Items
<1>p. PendingSent'
  <2>1. \A q \in Producers : producer'[q] # "idle" => producer[q] # "idle" \/ q = p
    BY DEF PushLoop, IInv, TypeOK
  <2> QED BY <1>0, <2>1 DEF IInv, PendingSent, TypeOK
<1>1. CASE closed /\ Refuse(x) /\ producer' = [producer EXCEPT ![p] = "idle"]
  <2>1. TypeOK'
    BY <1>0, <1>1 DEF IInv, TypeOK, Refuse
  <2>2. Stream' = Stream
    BY <1>1 DEF Refuse, Stream
  <2>3. \A q \in Producers : producer'[q] # "idle" => producer[q] # "idle"
    BY <1>1 DEF IInv, TypeOK
  <2>4. Numbered' /\ InOrder'
    BY <1>0, <2>2, <2>3, StreamStays DEF IInv
  <2>5. WaitersMeanEmpty' /\ EndWakesAll' /\ Bounded' /\ NoLostWakeup'
    BY <1>1 DEF IInv, Refuse, WaitersMeanEmpty, EndWakesAll, Bounded, NoLostWakeup
  <2>6. ParkedOnce'
    <3>1. waitingProducers' = <<>>
      BY <1>1 DEF IInv, EndWakesAll, Refuse
    <3> QED BY <3>1, EmptySeq DEF ParkedOnce
  <2> QED BY <1>p, <2>1, <2>4, <2>5, <2>6 DEF IInv
<1>2. CASE ~closed /\ ~Full /\ Accept(x) /\ producer' = [producer EXCEPT ![p] = "idle"]
  <2>1. /\ items' \in Seq(Items) /\ delivered' \in Seq(Items)
        /\ waitingConsumers' \in Seq(Calls)
        /\ call' \in [Calls -> {"idle", "waiting"}]
        /\ Stream' = Append(Stream, x)
        /\ WaitersMeanEmpty' /\ Bounded'
        /\ Len(items) <= Len(items')
        /\ waitingConsumers = <<>> => waitingConsumers' = <<>>
    BY <1>0, <1>2, AcceptEffect DEF IInv
  <2>2. waitingProducers' = waitingProducers /\ lost' = lost
    BY <1>2 DEF Accept
  <2>3. TypeOK'
    BY <1>0, <1>2, <2>1, <2>2 DEF IInv, TypeOK
  <2>4. Numbered' /\ InOrder'
    BY <1>0, <1>2, <2>1, StreamGrows DEF IInv
  <2>5. EndWakesAll'
    BY <1>2 DEF EndWakesAll
  <2>6. NoLostWakeup'
    <3>1. Len(items) \in Nat /\ Len(items') \in Nat /\ Len(waitingProducers) \in Nat
      BY <2>1, LenProperties DEF IInv, TypeOK
    <3> QED BY <3>1, <2>1, <2>2 DEF IInv, NoLostWakeup
  <2>7. ParkedOnce'
    <3>1. \A i \in 1..Len(waitingProducers) : waitingProducers[i] # p
      BY DEF IInv, ParkedOnce
    <3>2. \A i \in 1..Len(waitingProducers) : waitingProducers[i] \in Producers
      BY ElementOfSeq DEF IInv, TypeOK
    <3> QED BY <1>2, <2>2, <3>1, <3>2 DEF IInv, ParkedOnce, TypeOK
  <2> QED BY <1>p, <2>1, <2>3, <2>4, <2>5, <2>6, <2>7 DEF IInv
<1>3. CASE /\ ~closed /\ Full
           /\ waitingProducers' = Append(waitingProducers, p)
           /\ producer' = [producer EXCEPT ![p] = "waiting"]
           /\ UNCHANGED <<items, delivered, call, waitingConsumers, lost>>
  <2>1. /\ waitingProducers' \in Seq(Producers)
        /\ Len(waitingProducers') = Len(waitingProducers) + 1
        /\ waitingProducers'[Len(waitingProducers) + 1] = p
        /\ \A i \in 1..Len(waitingProducers) : waitingProducers'[i] = waitingProducers[i]
    BY <1>3, AppendProperties DEF IInv, TypeOK
  <2>2. TypeOK'
    BY <1>0, <1>3, <2>1 DEF IInv, TypeOK
  <2>3. Stream' = Stream
    BY <1>3 DEF Stream
  <2>4. \A q \in Producers : producer'[q] # "idle" => producer[q] # "idle" \/ sent[q] < sent'[q]
    BY <1>0, <1>3 DEF IInv, TypeOK
  <2>5. Numbered' /\ InOrder'
    BY <1>0, <2>3, <2>4, StreamStays DEF IInv
  <2>6. WaitersMeanEmpty' /\ EndWakesAll' /\ Bounded'
    BY <1>3 DEF IInv, WaitersMeanEmpty, EndWakesAll, Bounded
  <2>7. NoLostWakeup'
    <3>1. Len(waitingProducers) + 1 <= Cardinality(Producers)
      BY ParkedFewer DEF IInv
    <3>2. /\ Len(items) \in Nat /\ Len(waitingProducers) \in Nat
          /\ Cardinality(Producers) \in Nat /\ Cardinality(Producers) <= Len(items)
      BY <1>3, LenProperties, CapacityAssumption, FS_CardinalityType DEF Full, IInv, TypeOK
    <3> QED BY <1>3, <2>1, <3>1, <3>2 DEF NoLostWakeup
  <2>8. ParkedOnce'
    <3>1. \A i \in 1..Len(waitingProducers) : /\ waitingProducers[i] # p
                                              /\ waitingProducers[i] \in Producers
      BY ElementOfSeq DEF IInv, ParkedOnce, TypeOK
    <3>2. Len(waitingProducers) \in Nat
      BY LenProperties DEF IInv, TypeOK
    <3>3. \A i \in 1..Len(waitingProducers') :
             i \in 1..Len(waitingProducers) \/ i = Len(waitingProducers) + 1
      BY <2>1, <3>2
    <3> QED BY <1>3, <2>1, <3>1, <3>3 DEF IInv, ParkedOnce, TypeOK
  <2> QED BY <1>p, <2>2, <2>5, <2>6, <2>7, <2>8 DEF IInv
<1> QED BY <1>1, <1>2, <1>3 DEF PushLoop

LEMMA PushInv == ASSUME IInv, NEW p \in Producers, Push(p) PROVE IInv'
<1>1. PICK n \in 1..MaxPushes : n = sent[p] + 1 /\ sent[p] \in Nat
  BY BoundAssumption DEF Push, IInv, TypeOK
<1>2. PushLoop(p, <<p, n>>)
  BY <1>1 DEF Push, PushLoop, Refuse, Accept
<1>3. /\ sent' = [sent EXCEPT ![p] = n] /\ sent[p] < n /\ sent[p] <= n
      /\ producer[p] # "waiting" /\ UNCHANGED <<closed, error, ended>>
  BY <1>1 DEF Push
<1> QED BY <1>2, <1>3, PushLoopInv

LEMMA ResumeInv == ASSUME IInv, NEW p \in Producers, Resume(p) PROVE IInv'
<1>1. PICK n \in 1..MaxPushes : n = sent[p]
  BY BoundAssumption DEF Resume, IInv, TypeOK, PendingSent
<1>2. PushLoop(p, <<p, n>>)
  BY <1>1 DEF Resume, Current, PushLoop, Refuse, Accept
<1>3. /\ sent' = [sent EXCEPT ![p] = n] /\ sent[p] <= n
      /\ producer[p] # "waiting" /\ producer[p] # "idle" /\ UNCHANGED <<closed, error, ended>>
  BY <1>1 DEF Resume, IInv, TypeOK
<1> QED BY <1>2, <1>3, PushLoopInv

LEMMA TryPushInv == ASSUME IInv, NEW p \in Producers, TryPush(p) PROVE IInv'
<1>1. PICK n \in 1..MaxPushes : n = sent[p] + 1 /\ sent[p] \in Nat
  BY BoundAssumption DEF TryPush, IInv, TypeOK
<1> DEFINE x == <<p, n>>
<1>2. /\ x \in Items
      /\ sent' = [sent EXCEPT ![p] = n]
      /\ sent' \in [Producers -> 0..MaxPushes] /\ sent'[p] = n /\ sent[p] < n
      /\ \A q \in Producers : sent[q] <= sent'[q]
      /\ producer[p] = "idle" /\ producer' = producer
      /\ UNCHANGED <<closed, error, ended>>
  BY <1>1, BoundAssumption DEF TryPush, IInv, TypeOK, Items
<1>3. PendingSent'
  BY <1>2 DEF IInv, PendingSent, TypeOK
<1>4. CASE Refuse(x)
  <2>1. TypeOK' /\ WaitersMeanEmpty' /\ EndWakesAll' /\ Bounded' /\ NoLostWakeup' /\ ParkedOnce'
    BY <1>2, <1>4 DEF Refuse, IInv, TypeOK, WaitersMeanEmpty, EndWakesAll, Bounded,
                      NoLostWakeup, ParkedOnce
  <2>2. Stream' = Stream
    BY <1>4 DEF Refuse, Stream
  <2>3. Numbered' /\ InOrder'
    BY <1>2, <2>2, StreamStays DEF IInv
  <2> QED BY <1>3, <2>1, <2>3 DEF IInv
<1>5. CASE Accept(x) /\ ~closed /\ (~Full \/ waitingConsumers # <<>>)
  <2>1. /\ items' \in Seq(Items) /\ delivered' \in Seq(Items)
        /\ waitingConsumers' \in Seq(Calls)
        /\ call' \in [Calls -> {"idle", "waiting"}]
        /\ Stream' = Append(Stream, x)
        /\ WaitersMeanEmpty' /\ Bounded'
        /\ Len(items) <= Len(items')
    BY <1>2, <1>5, AcceptEffect DEF IInv
  <2>2. waitingProducers' = waitingProducers /\ lost' = lost
    BY <1>5 DEF Accept
  <2>3. TypeOK' /\ EndWakesAll' /\ ParkedOnce'
    BY <1>2, <1>5, <2>1, <2>2 DEF IInv, TypeOK, EndWakesAll, ParkedOnce
  <2>4. Numbered' /\ InOrder'
    <3>1. producer' = [producer EXCEPT ![p] = "idle"]
      BY <1>2 DEF IInv, TypeOK
    <3> QED BY <1>2, <2>1, <3>1, StreamGrows DEF IInv
  <2>5. NoLostWakeup'
    <3>1. Len(items) \in Nat /\ Len(items') \in Nat /\ Len(waitingProducers) \in Nat
      BY <2>1, LenProperties DEF IInv, TypeOK
    <3> QED BY <3>1, <2>1, <2>2 DEF IInv, NoLostWakeup
  <2> QED BY <1>3, <2>1, <2>3, <2>4, <2>5 DEF IInv
<1>6. Refuse(x) \/ (Accept(x) /\ ~closed /\ (~Full \/ waitingConsumers # <<>>))
  BY <1>1 DEF TryPush, Refuse, Accept
<1> QED BY <1>4, <1>5, <1>6

LEMMA NextTakesInv == ASSUME IInv, NEW c \in Calls, NextTakes(c) PROVE IInv'
<1>1. /\ items' = Tail(items) /\ items' \in Seq(Items) /\ Len(items') = Len(items) - 1
      /\ Len(items) \in Nat /\ Head(items) \in Items /\ items = <<Head(items)>> \o Tail(items)
  BY HeadTailProperties, LenProperties DEF NextTakes, IInv, TypeOK
<1>2. delivered' = Append(delivered, Head(items)) /\ delivered' \in Seq(Items)
  BY <1>1, AppendProperties DEF NextTakes, IInv, TypeOK
<1>3. UNCHANGED <<waitingConsumers, closed, error, call, sent, lost, ended>>
  BY DEF NextTakes
<1>4. Stream' = Stream
  BY <1>1, <1>2 DEF Stream, IInv, TypeOK
<1>5. /\ waitingProducers' \in Seq(Producers)
      /\ producer' \in [Producers -> {"idle", "waiting", "woken"}]
      /\ Len(waitingProducers') <= Len(items')
      /\ closed => waitingProducers' = <<>>
      /\ \A q \in Producers : producer'[q] # "idle" => producer[q] # "idle"
      /\ ParkedOnce'
  <2>1. CASE waitingProducers = <<>>
    <3>1. UNCHANGED <<producer, waitingProducers>> /\ Len(waitingProducers) = 0
      BY <2>1, EmptySeq DEF NextTakes
    <3> QED BY <1>1, <2>1, <3>1 DEF IInv, TypeOK, ParkedOnce, NextTakes
  <2>2. CASE waitingProducers # <<>>
    <3> DEFINE w == Len(waitingProducers)
    <3>1. /\ producer' = [producer EXCEPT ![Head(waitingProducers)] = "woken"]
          /\ waitingProducers' = Tail(waitingProducers)
      BY <2>2 DEF NextTakes
    <3>2. /\ waitingProducers' \in Seq(Producers) /\ Len(waitingProducers') = w - 1
          /\ w \in Nat /\ w > 0
          /\ Head(waitingProducers) = waitingProducers[1]
          /\ \A i \in 1..(w - 1) : waitingProducers'[i] = waitingProducers[i + 1]
          /\ \A i \in 1..w : waitingProducers[i] \in Producers
      BY <2>2, <3>1, HeadTailProperties, LenProperties, ElementOfSeq DEF IInv, TypeOK
    <3>3. waitingProducers[1] \in Producers /\ producer[waitingProducers[1]] = "waiting"
      BY <3>2 DEF IInv, ParkedOnce
    <3>4. ParkedOnce'
      <4> SUFFICES ASSUME NEW i \in 1..(w - 1)
                   PROVE  /\ producer'[waitingProducers'[i]] = "waiting"
                          /\ \A j \in 1..(w - 1) :
                                waitingProducers'[i] = waitingProducers'[j] => i = j
        BY <3>2 DEF ParkedOnce
      <4>1. i + 1 \in 1..w /\ 1 \in 1..w /\ i + 1 # 1
        BY <3>2
      <4>2. /\ waitingProducers[i + 1] # waitingProducers[1]
            /\ waitingProducers[i + 1] \in Producers
            /\ producer[waitingProducers[i + 1]] = "waiting"
        BY <3>2, <4>1 DEF IInv, ParkedOnce
      <4>3. ASSUME NEW j \in 1..(w - 1), waitingProducers'[i] = waitingProducers'[j]
            PROVE  i = j
        <5>1. j + 1 \in 1..w
          BY <3>2
        <5>2. i + 1 = j + 1
          BY <3>2, <4>1, <4>3, <5>1 DEF IInv, ParkedOnce
        <5> QED BY <5>2
      <4> QED BY <3>1, <3>2, <4>2, <4>3 DEF IInv, TypeOK
    <3>5. Len(waitingProducers') <= Len(items')
      BY <1>1, <3>2 DEF IInv, NoLostWakeup
    <3>6. ~closed
      BY <2>2 DEF IInv, EndWakesAll
    <3> QED BY <3>1, <3>2, <3>3, <3>4, <3>5, <3>6 DEF IInv, TypeOK
  <2> QED BY <2>1, <2>2
<1>6. TypeOK'
  BY <1>1, <1>2, <1>3, <1>5 DEF IInv, TypeOK
<1>7. Numbered' /\ InOrder'
  BY <1>3, <1>4, <1>5, StreamStays, BoundAssumption DEF IInv, TypeOK
<1>8. WaitersMeanEmpty' /\ EndWakesAll' /\ NoLostWakeup' /\ PendingSent'
  BY <1>3, <1>5 DEF NextTakes, IInv, WaitersMeanEmpty, EndWakesAll, NoLostWakeup, PendingSent
<1>9. Bounded'
  BY <1>1, CapacityAssumption DEF IInv, Bounded
<1> QED BY <1>5, <1>6, <1>7, <1>8, <1>9 DEF IInv

\* Steps that touch neither the items nor the producers.
LEMMA QuietInv ==
    ASSUME IInv, TypeOK', WaitersMeanEmpty', EndWakesAll',
           UNCHANGED <<items, waitingProducers, producer, sent, delivered>>
    PROVE  IInv'
<1>1. Stream' = Stream
  BY DEF Stream
<1>2. Numbered' /\ InOrder'
  BY <1>1 DEF IInv, Numbered, InOrder
<1>3. Bounded' /\ NoLostWakeup' /\ ParkedOnce' /\ PendingSent'
  BY DEF IInv, Bounded, NoLostWakeup, ParkedOnce, PendingSent
<1> QED BY <1>2, <1>3 DEF IInv

LEMMA NextEndsInv == ASSUME IInv, NEW c \in Calls, NextEnds(c) PROVE IInv'
<1>1. TypeOK' /\ WaitersMeanEmpty' /\ EndWakesAll'
  BY DEF NextEnds, IInv, TypeOK, WaitersMeanEmpty, EndWakesAll
<1> QED BY <1>1, QuietInv DEF NextEnds

LEMMA NextWaitsInv == ASSUME IInv, NEW c \in Calls, NextWaits(c) PROVE IInv'
<1>1. waitingConsumers' \in Seq(Calls)
  BY AppendProperties DEF NextWaits, IInv, TypeOK
<1>2. TypeOK' /\ WaitersMeanEmpty' /\ EndWakesAll'
  BY <1>1 DEF NextWaits, IInv, TypeOK, WaitersMeanEmpty, EndWakesAll
<1> QED BY <1>2, QuietInv DEF NextWaits

LEMMA EndInv == ASSUME IInv, NEW failed \in BOOLEAN, End(failed) PROVE IInv'
<1>1. /\ waitingProducers' = <<>> /\ Len(waitingProducers') = 0
      /\ waitingProducers' \in Seq(Producers) /\ waitingConsumers' = <<>>
      /\ waitingConsumers' \in Seq(Calls)
      /\ UNCHANGED <<items, sent, delivered, lost>>
  BY EmptySeq DEF End
<1>2. \A q \in Producers : producer'[q] # "idle" => producer[q] # "idle"
  BY DEF End
<1>3. TypeOK'
  BY <1>1 DEF End, IInv, TypeOK
<1>4. Stream' = Stream
  BY <1>1 DEF Stream
<1>5. Numbered' /\ InOrder'
  BY <1>1, <1>2, <1>4, StreamStays, BoundAssumption DEF IInv, TypeOK
<1>6. /\ WaitersMeanEmpty' /\ EndWakesAll' /\ Bounded' /\ ParkedOnce' /\ PendingSent'
  BY <1>1, <1>2 DEF IInv, WaitersMeanEmpty, EndWakesAll, Bounded, ParkedOnce, PendingSent
<1>7. NoLostWakeup'
  BY <1>1, LenProperties DEF IInv, TypeOK, NoLostWakeup
<1> QED BY <1>3, <1>5, <1>6, <1>7 DEF IInv

LEMMA NextInv == IInv /\ [Next]_vars => IInv'
<1> SUFFICES ASSUME IInv, [Next]_vars PROVE IInv'
  OBVIOUS
<1>1. CASE UNCHANGED vars
  <2>1. TypeOK' /\ WaitersMeanEmpty' /\ EndWakesAll'
    BY <1>1 DEF vars, IInv, TypeOK, WaitersMeanEmpty, EndWakesAll
  <2> QED BY <1>1, <2>1, QuietInv DEF vars
<1> QED BY <1>1, PushInv, ResumeInv, TryPushInv, NextTakesInv, NextEndsInv, NextWaitsInv, EndInv
        DEF Next, NextCall, Close, Fail

THEOREM Invariance == Spec => []IInv
BY InitInv, NextInv, PTL DEF Spec

----------------------------------------------------------------------------
(* What the queue guarantees.                                               *)

\* The queue's state has its types.
THEOREM TypeCorrect == Spec => []TypeOK
<1>1. IInv => TypeOK
  BY DEF IInv
<1> QED BY <1>1, Invariance, PTL

\* A producer parked on a full queue is never forgotten, for any capacity that
\* is at least the number of producers.
THEOREM WakeupsSuffice == Spec => []NoLostWakeup
<1>1. IInv => NoLostWakeup
  BY DEF IInv
<1> QED BY <1>1, Invariance, PTL

\* The consumer gets the items of a producer once and in order.
THEOREM StreamOrdered == Spec => []InOrder
<1>1. IInv => InOrder
  BY DEF IInv
<1> QED BY <1>1, Invariance, PTL

\* Direct hand-over overtakes nothing, the end leaves nobody parked, and the
\* buffer keeps its bound.
THEOREM QueueSafe == Spec => [](WaitersMeanEmpty /\ EndWakesAll /\ Bounded)
<1>1. IInv => WaitersMeanEmpty /\ EndWakesAll /\ Bounded
  BY DEF IInv
<1> QED BY <1>1, Invariance, PTL

----------------------------------------------------------------------------
(* The end of the stream.                                                   *)

\* Who was told of the end has everything that will ever be delivered, and was
\* told how it ended.
EndTold ==
    ended # "no" => closed /\ items = <<>> /\ ended = IF error THEN "error" ELSE "done"

LEMMA PushesEndNothing ==
    ASSUME EndTold, NEW p \in Producers, Push(p) \/ Resume(p) \/ TryPush(p)
    PROVE  EndTold' /\ (ended # "no" => delivered' = delivered /\ ended' = ended)
<1>1. UNCHANGED <<closed, error, ended>>
  BY DEF Push, Resume, TryPush
<1>2. closed => UNCHANGED <<items, delivered>>
  BY DEF Push, Resume, TryPush, PushLoop, Refuse
<1> QED BY <1>1, <1>2 DEF EndTold

LEMMA EndToldNext ==
    IInv /\ EndTold /\ [Next]_vars =>
        EndTold' /\ [ended # "no" => delivered' = delivered /\ ended' = ended]_vars
<1> SUFFICES ASSUME IInv, EndTold, [Next]_vars
             PROVE  EndTold' /\ (ended # "no" => delivered' = delivered /\ ended' = ended)
  OBVIOUS
<1>1. CASE UNCHANGED vars
  BY <1>1 DEF vars, EndTold
<1>2. ASSUME NEW p \in Producers, Push(p) \/ Resume(p) \/ TryPush(p)
      PROVE  EndTold' /\ (ended # "no" => delivered' = delivered /\ ended' = ended)
  BY <1>2, PushesEndNothing
<1>3. ASSUME NEW c \in Calls, NextCall(c)
      PROVE  EndTold' /\ (ended # "no" => delivered' = delivered /\ ended' = ended)
  BY <1>3 DEF NextCall, NextTakes, NextEnds, NextWaits, EndTold
<1>4. ASSUME NEW failed \in BOOLEAN, End(failed)
      PROVE  EndTold' /\ (ended # "no" => delivered' = delivered /\ ended' = ended)
  BY <1>4 DEF End, EndTold, IInv, WaitersMeanEmpty
<1> QED BY <1>1, <1>2, <1>3, <1>4 DEF Next, Close, Fail

\* Once a call of next() was told of the end, no item follows, and the end stays the
\* one that close() or fail() chose first.
THEOREM EndStands == Spec => EndIsFinal
<1>1. Init => EndTold
  BY DEF Init, EndTold
<1> QED BY <1>1, Invariance, EndToldNext, PTL DEF Spec, EndIsFinal

----------------------------------------------------------------------------
(* Nothing vanishes: a step keeps what has arrived or was refused, and the  *)
(* one item it takes up is buffered, delivered, refused or still pushed.    *)

Arrived(x) == \E i \in 1..Len(Stream) : Stream[i] = x

\* The items of q are accounted for by a step that leaves q alone, or that
\* accounts for the newest one.
LEMMA KeptOf ==
    ASSUME TypeOK, NothingVanishes, NEW q \in Producers,
           sent'[q] \in 0..MaxPushes,
           \A x : Arrived(x) => Arrived(x)',
           lost \subseteq lost',
           \/ sent'[q] = sent[q] /\ (producer[q] # "idle" => producer'[q] # "idle")
           \/ /\ Arrived(<<q, sent[q]>>)' \/ <<q, sent'[q]>> \in lost' \/ producer'[q] # "idle"
              /\ sent'[q] = sent[q] \/ (sent'[q] = sent[q] + 1 /\ producer[q] = "idle")
    PROVE  \A n \in 1..MaxPushes :
              n <= sent'[q] =>
                 Arrived(<<q, n>>)' \/ <<q, n>> \in lost' \/ (producer'[q] # "idle" /\ n = sent'[q])
<1> SUFFICES ASSUME NEW n \in 1..MaxPushes, n <= sent'[q]
             PROVE  Arrived(<<q, n>>)' \/ <<q, n>> \in lost' \/ (producer'[q] # "idle" /\ n = sent'[q])
  OBVIOUS
<1>1. n \in Nat /\ sent[q] \in Nat /\ sent'[q] \in Nat
  BY BoundAssumption DEF TypeOK
<1>2. n <= sent[q] => Arrived(<<q, n>>) \/ <<q, n>> \in lost \/ (producer[q] # "idle" /\ n = sent[q])
  BY DEF NothingVanishes, Arrived
<1>3. CASE sent'[q] = sent[q] /\ (producer[q] # "idle" => producer'[q] # "idle")
  BY <1>2, <1>3
<1>4. CASE /\ Arrived(<<q, sent[q]>>)' \/ <<q, sent'[q]>> \in lost' \/ producer'[q] # "idle"
           /\ sent'[q] = sent[q] \/ (sent'[q] = sent[q] + 1 /\ producer[q] = "idle")
  <2>1. CASE n = sent'[q]
    BY <1>4, <2>1
  <2>2. CASE n # sent'[q]
    <3>1. n <= sent[q] /\ ~(producer[q] # "idle" /\ n = sent[q])
      BY <1>1, <1>4, <2>2
    <3>2. Arrived(<<q, n>>) \/ <<q, n>> \in lost
      BY <1>2, <3>1
    <3>3. Arrived(<<q, n>>) => Arrived(<<q, n>>)'
      OBVIOUS
    <3> QED BY <3>2, <3>3
  <2> QED BY <2>1, <2>2
<1> QED BY <1>3, <1>4

\* The same for all producers at once.
LEMMA Kept ==
    ASSUME IInv, NothingVanishes, sent' \in [Producers -> 0..MaxPushes],
           \A x : Arrived(x) => Arrived(x)',
           lost \subseteq lost',
           \A q \in Producers :
              \/ sent'[q] = sent[q] /\ (producer[q] # "idle" => producer'[q] # "idle")
              \/ /\ Arrived(<<q, sent[q]>>)' \/ <<q, sent'[q]>> \in lost' \/ producer'[q] # "idle"
                 /\ sent'[q] = sent[q] \/ (sent'[q] = sent[q] + 1 /\ producer[q] = "idle")
    PROVE  NothingVanishes'
<1>1. \A q \in Producers, n \in 1..MaxPushes :
         n <= sent'[q] =>
            Arrived(<<q, n>>)' \/ <<q, n>> \in lost' \/ (producer'[q] # "idle" /\ n = sent'[q])
  BY KeptOf DEF IInv
<1> QED BY <1>1 DEF NothingVanishes, Arrived

\* An item appended to the stream arrives, and the others stay.
LEMMA AppendArrives ==
    ASSUME TypeOK, NEW y \in Items, Stream' = Append(Stream, y)
    PROVE  Arrived(y)' /\ \A x : Arrived(x) => Arrived(x)'
<1>1. Stream \in Seq(Items)
  BY ConcatProperties DEF TypeOK, Stream
<1>2. /\ Len(Stream') = Len(Stream) + 1 /\ Len(Stream) \in Nat
      /\ Stream'[Len(Stream) + 1] = y
      /\ \A i \in 1..Len(Stream) : Stream'[i] = Stream[i]
  BY <1>1, AppendProperties, LenProperties
<1>3. Arrived(y)'
  BY <1>2 DEF Arrived
<1>4. ASSUME NEW x, NEW i \in 1..Len(Stream), Stream[i] = x PROVE Arrived(x)'
  BY <1>2, <1>4 DEF Arrived
<1> QED BY <1>3, <1>4 DEF Arrived

\* What Accept puts on the stream arrives.
LEMMA AcceptArrives ==
    ASSUME IInv, NEW y \in Items, ~Full \/ waitingConsumers # <<>>, Accept(y)
    PROVE  Arrived(y)' /\ (\A x : Arrived(x) => Arrived(x)') /\ lost' = lost
<1>1. Stream' = Append(Stream, y)
  BY AcceptEffect DEF IInv
<1> QED BY <1>1, AppendArrives DEF IInv, Accept

LEMMA PushLoopKeeps ==
    ASSUME IInv, NothingVanishes, NEW p \in Producers, NEW n \in 1..MaxPushes,
           sent' = [sent EXCEPT ![p] = n],
           n = sent[p] \/ (n = sent[p] + 1 /\ producer[p] = "idle"),
           PushLoop(p, <<p, n>>)
    PROVE  NothingVanishes'
<1> DEFINE y == <<p, n>>
<1>1. /\ y \in Items /\ sent' \in [Producers -> 0..MaxPushes] /\ sent'[p] = n
      /\ \A q \in Producers : q # p => sent'[q] = sent[q]
  BY BoundAssumption DEF IInv, TypeOK, Items
<1>2. \A q \in Producers : q # p => producer'[q] = producer[q]
  BY DEF PushLoop, IInv, TypeOK
<1>3. /\ \A x : Arrived(x) => Arrived(x)'
      /\ lost \subseteq lost'
      /\ Arrived(y)' \/ y \in lost' \/ producer'[p] # "idle"
  <2>1. CASE closed /\ Refuse(y)
    <3>1. Stream' = Stream /\ y \in lost' /\ lost \subseteq lost'
      BY <2>1 DEF Refuse, Stream
    <3> QED BY <3>1 DEF Arrived
  <2>2. CASE ~closed /\ ~Full /\ Accept(y)
    BY <1>1, <2>2, AcceptArrives
  <2>3. CASE /\ producer' = [producer EXCEPT ![p] = "waiting"]
             /\ UNCHANGED <<items, delivered, lost>>
    <3>1. Stream' = Stream /\ lost \subseteq lost' /\ producer'[p] # "idle"
      BY <2>3 DEF Stream, IInv, TypeOK
    <3> QED BY <3>1 DEF Arrived
  <2> QED BY <2>1, <2>2, <2>3 DEF PushLoop
<1>4. \A q \in Producers :
         \/ sent'[q] = sent[q] /\ (producer[q] # "idle" => producer'[q] # "idle")
         \/ /\ Arrived(<<q, sent[q]>>)' \/ <<q, sent'[q]>> \in lost' \/ producer'[q] # "idle"
            /\ sent'[q] = sent[q] \/ (sent'[q] = sent[q] + 1 /\ producer[q] = "idle")
  <2> SUFFICES ASSUME NEW q \in Producers
               PROVE  \/ sent'[q] = sent[q] /\ (producer[q] # "idle" => producer'[q] # "idle")
                      \/ /\ \/ Arrived(<<q, sent[q]>>)' \/ <<q, sent'[q]>> \in lost'
                            \/ producer'[q] # "idle"
                         /\ sent'[q] = sent[q] \/ (sent'[q] = sent[q] + 1 /\ producer[q] = "idle")
    OBVIOUS
  <2>1. CASE q = p
    <3>1. Arrived(<<q, sent[q]>>)' \/ <<q, sent'[q]>> \in lost' \/ producer'[q] # "idle"
      BY <1>1, <1>3, <2>1
    <3>2. sent'[q] = sent[q] \/ (sent'[q] = sent[q] + 1 /\ producer[q] = "idle")
      BY <1>1, <2>1
    <3> QED BY <3>1, <3>2
  <2>2. CASE q # p
    BY <1>1, <1>2, <2>2
  <2> QED BY <2>1, <2>2
<1> QED BY <1>1, <1>3, <1>4, Kept

LEMMA PushKeeps == ASSUME IInv, NothingVanishes, NEW p \in Producers, Push(p) PROVE NothingVanishes'
<1>1. PICK n \in 1..MaxPushes : n = sent[p] + 1 /\ sent[p] \in Nat
  BY BoundAssumption DEF Push, IInv, TypeOK
<1>2. PushLoop(p, <<p, n>>)
  BY <1>1 DEF Push, PushLoop, Refuse, Accept
<1>3. sent' = [sent EXCEPT ![p] = n] /\ producer[p] = "idle"
  BY <1>1 DEF Push
<1> QED BY <1>1, <1>2, <1>3, PushLoopKeeps

LEMMA ResumeKeeps == ASSUME IInv, NothingVanishes, NEW p \in Producers, Resume(p) PROVE NothingVanishes'
<1>1. PICK n \in 1..MaxPushes : n = sent[p]
  BY BoundAssumption DEF Resume, IInv, TypeOK, PendingSent
<1>2. PushLoop(p, <<p, n>>)
  BY <1>1 DEF Resume, Current, PushLoop, Refuse, Accept
<1>3. sent' = [sent EXCEPT ![p] = n]
  BY <1>1 DEF Resume, IInv, TypeOK
<1> QED BY <1>1, <1>2, <1>3, PushLoopKeeps

LEMMA TryPushKeeps == ASSUME IInv, NothingVanishes, NEW p \in Producers, TryPush(p) PROVE NothingVanishes'
<1>1. PICK n \in 1..MaxPushes : n = sent[p] + 1 /\ sent[p] \in Nat
  BY BoundAssumption DEF TryPush, IInv, TypeOK
<1> DEFINE y == <<p, n>>
<1>2. /\ y \in Items /\ sent' \in [Producers -> 0..MaxPushes] /\ sent'[p] = n
      /\ \A q \in Producers : q # p => sent'[q] = sent[q]
      /\ producer[p] = "idle" /\ producer' = producer
  BY <1>1, BoundAssumption DEF TryPush, IInv, TypeOK, Items
<1>3. Refuse(y) \/ (Accept(y) /\ (~Full \/ waitingConsumers # <<>>))
  BY <1>1 DEF TryPush, Refuse, Accept
<1>4. /\ \A x : Arrived(x) => Arrived(x)'
      /\ lost \subseteq lost'
      /\ Arrived(y)' \/ y \in lost'
  <2>1. CASE Refuse(y)
    <3>1. Stream' = Stream /\ y \in lost' /\ lost \subseteq lost'
      BY <2>1 DEF Refuse, Stream
    <3> QED BY <3>1 DEF Arrived
  <2>2. CASE Accept(y) /\ (~Full \/ waitingConsumers # <<>>)
    BY <1>2, <2>2, AcceptArrives
  <2> QED BY <1>3, <2>1, <2>2
<1>5. \A q \in Producers :
         \/ sent'[q] = sent[q] /\ (producer[q] # "idle" => producer'[q] # "idle")
         \/ /\ Arrived(<<q, sent[q]>>)' \/ <<q, sent'[q]>> \in lost' \/ producer'[q] # "idle"
            /\ sent'[q] = sent[q] \/ (sent'[q] = sent[q] + 1 /\ producer[q] = "idle")
  <2> SUFFICES ASSUME NEW q \in Producers
               PROVE  \/ sent'[q] = sent[q] /\ (producer[q] # "idle" => producer'[q] # "idle")
                      \/ /\ \/ Arrived(<<q, sent[q]>>)' \/ <<q, sent'[q]>> \in lost'
                            \/ producer'[q] # "idle"
                         /\ sent'[q] = sent[q] \/ (sent'[q] = sent[q] + 1 /\ producer[q] = "idle")
    OBVIOUS
  <2>1. CASE q = p
    <3>1. Arrived(<<q, sent[q]>>)' \/ <<q, sent'[q]>> \in lost'
      BY <1>2, <1>4, <2>1
    <3> QED BY <1>1, <1>2, <2>1, <3>1
  <2>2. CASE q # p
    BY <1>2, <2>2
  <2> QED BY <2>1, <2>2
<1> QED BY <1>2, <1>4, <1>5, Kept

\* The other steps start no push and leave none idle.
LEMMA OthersKeep ==
    ASSUME IInv, NothingVanishes, Stream' = Stream, UNCHANGED <<sent, lost>>,
           \A q \in Producers : producer[q] # "idle" => producer'[q] # "idle"
    PROVE  NothingVanishes'
<1>1. /\ sent' \in [Producers -> 0..MaxPushes] /\ lost \subseteq lost'
      /\ \A x : Arrived(x) => Arrived(x)'
  BY DEF IInv, TypeOK, Arrived
<1> QED BY <1>1, Kept

LEMMA KeptNext == IInv /\ NothingVanishes /\ [Next]_vars => NothingVanishes'
<1> SUFFICES ASSUME IInv, NothingVanishes, [Next]_vars PROVE NothingVanishes'
  OBVIOUS
<1>1. ASSUME NEW c \in Calls, NextTakes(c) PROVE NothingVanishes'
  <2>1. Stream' = Stream /\ UNCHANGED <<sent, lost>>
    <3>1. items = <<Head(items)>> \o Tail(items) /\ Head(items) \in Items
      BY <1>1, HeadTailProperties DEF NextTakes, IInv, TypeOK
    <3> QED BY <1>1, <3>1 DEF NextTakes, Stream, IInv, TypeOK
  <2>2. \A q \in Producers : producer[q] # "idle" => producer'[q] # "idle"
    BY <1>1 DEF NextTakes, IInv, TypeOK
  <2> QED BY <2>1, <2>2, OthersKeep
<1>2. ASSUME NEW failed \in BOOLEAN, End(failed) PROVE NothingVanishes'
  BY <1>2, OthersKeep DEF End, Stream
<1>3. ASSUME NEW c \in Calls, NextEnds(c) \/ NextWaits(c) PROVE NothingVanishes'
  BY <1>3, OthersKeep DEF NextEnds, NextWaits, Stream
<1>4. CASE UNCHANGED vars
  BY <1>4, OthersKeep DEF vars, Stream
<1> QED BY <1>1, <1>2, <1>3, <1>4, PushKeeps, ResumeKeeps, TryPushKeeps
        DEF Next, NextCall, Close, Fail

\* The stream of a producer reaches the consumer whole: in order, once, and
\* without a gap that was not refused.
THEOREM StreamKept == Spec => []StreamWhole
<1>1. Init => NothingVanishes
  BY BoundAssumption DEF Init, NothingVanishes
<1>2. Spec => []NothingVanishes
  BY <1>1, Invariance, KeptNext, PTL DEF Spec
<1> QED BY <1>2, StreamOrdered, PTL DEF StreamWhole
----------------------------------------------------------------------------
(* What a stream over the queue may rely on: where the steps leave the      *)
(* stream of items and the pushes under way.                                *)

\* A push, begun or resumed: the item joins the stream, waits, or is refused
\* by a closed queue.
LEMMA PushLoopMoves ==
    ASSUME IInv, NEW p \in Producers, NEW n \in 1..MaxPushes, PushLoop(p, <<p, n>>)
    PROVE  /\ \A q \in Producers \ {p} : producer'[q] = producer[q]
           /\ \/ closed /\ Stream' = Stream
              \/ /\ ~closed /\ producer'[p] = "idle"
                 /\ Stream' = Append(Stream, <<p, n>>)
              \/ ~closed /\ producer'[p] # "idle" /\ Stream' = Stream
<1> USE DEF IInv
<1>1. CASE closed /\ Refuse(<<p, n>>) /\ producer' = [producer EXCEPT ![p] = "idle"]
  BY <1>1 DEF Refuse, Stream, TypeOK
<1>2. CASE ~closed /\ ~Full /\ Accept(<<p, n>>) /\ producer' = [producer EXCEPT ![p] = "idle"]
  <2>1. <<p, n>> \in Items
    BY DEF Items
  <2>2. Stream' = Append(Stream, <<p, n>>)
    BY <1>2, <2>1, AcceptEffect
  <2> QED BY <1>2, <2>2 DEF TypeOK
<1>3. CASE /\ ~closed /\ producer' = [producer EXCEPT ![p] = "waiting"]
           /\ UNCHANGED <<items, delivered>>
  BY <1>3 DEF Stream, TypeOK
<1> QED BY <1>1, <1>2, <1>3 DEF PushLoop

\* A next() or the end of the queue leaves the stream and the pushes under way.
LEMMA OtherMoves ==
    ASSUME IInv, (\E c \in Calls : NextCall(c)) \/ (\E failed \in BOOLEAN : End(failed))
    PROVE  /\ Stream' = Stream /\ sent' = sent
           /\ \A q \in Producers : producer'[q] = "idle" <=> producer[q] = "idle"
<1> USE DEF IInv
<1>1. ASSUME NEW c \in Calls, NextTakes(c)
      PROVE  /\ Stream' = Stream /\ sent' = sent
             /\ \A q \in Producers : producer'[q] = "idle" <=> producer[q] = "idle"
  <2>1. items = <<Head(items)>> \o Tail(items) /\ Tail(items) \in Seq(Items)
        /\ Head(items) \in Items /\ delivered \in Seq(Items)
        /\ items' = Tail(items) /\ delivered' = Append(delivered, Head(items))
    BY <1>1, HeadTailProperties DEF NextTakes, TypeOK
  <2>2. Stream' = Stream
    BY <2>1 DEF Stream
  <2>3. waitingProducers # <<>> => producer[Head(waitingProducers)] = "waiting"
    <3> SUFFICES ASSUME waitingProducers # <<>>
                 PROVE  producer[Head(waitingProducers)] = "waiting"
      OBVIOUS
    <3>1. 1 \in 1..Len(waitingProducers) /\ Head(waitingProducers) = waitingProducers[1]
      BY EmptySeq, LenProperties DEF TypeOK
    <3> QED BY <3>1 DEF ParkedOnce
  <2> QED BY <1>1, <2>2, <2>3 DEF NextTakes, TypeOK
<1>2. ASSUME NEW c \in Calls, NextEnds(c) \/ NextWaits(c)
      PROVE  /\ Stream' = Stream /\ sent' = sent
             /\ \A q \in Producers : producer'[q] = "idle" <=> producer[q] = "idle"
  BY <1>2 DEF NextEnds, NextWaits, Stream
<1>3. ASSUME NEW failed \in BOOLEAN, End(failed)
      PROVE  /\ Stream' = Stream /\ sent' = sent
             /\ \A q \in Producers : producer'[q] = "idle" <=> producer[q] = "idle"
  BY <1>3 DEF End, Stream, TypeOK
<1> QED BY <1>1, <1>2, <1>3 DEF NextCall

\* While p is the only one to push, the queue carries its pushes in the order
\* they were sent in, all of them until it closes.
InStep(p) ==
    (\A q \in Producers \ {p} : sent[q] = 0) =>
        /\ \A i \in 1..Len(Stream) : Stream[i] = <<p, i>>
        /\ Len(Stream) <= sent[p]
        /\ ~closed => Len(Stream) = IF producer[p] = "idle" THEN sent[p] ELSE sent[p] - 1

LEMMA GrowsInStep ==
    ASSUME IInv, NEW p \in Producers, InStep(p), NEW n \in 1..MaxPushes, PushLoop(p, <<p, n>>),
           closed' = closed, \A q \in Producers \ {p} : sent'[q] = sent[q],
           sent'[p] = n, sent[p] <= n, closed \/ n = Len(Stream) + 1
    PROVE  InStep(p)'
<1> SUFFICES ASSUME \A q \in Producers \ {p} : sent[q] = 0 PROVE InStep(p)'
  BY DEF InStep
<1>1. Stream \in Seq(Items) /\ Len(Stream) \in Nat
  BY ConcatProperties, LenProperties DEF Stream, IInv, TypeOK
<1>2. /\ \A i \in 1..Len(Stream) : Stream[i] = <<p, i>>
      /\ Len(Stream) <= sent[p] /\ sent[p] \in Nat
  BY BoundAssumption DEF InStep, IInv, TypeOK
<1>3. CASE closed /\ Stream' = Stream
  BY <1>1, <1>2, <1>3 DEF InStep
<1>4. CASE ~closed /\ producer'[p] = "idle" /\ Stream' = Append(Stream, <<p, n>>)
  <2>1. /\ Len(Stream') = n /\ Stream'[n] = <<p, n>>
        /\ \A i \in 1..Len(Stream) : Stream'[i] = Stream[i]
    BY <1>1, <1>4, AppendProperties DEF Items
  <2> QED BY <1>1, <1>2, <1>4, <2>1 DEF InStep
<1>5. CASE ~closed /\ producer'[p] # "idle" /\ Stream' = Stream
  BY <1>1, <1>2, <1>5 DEF InStep
<1> QED BY <1>3, <1>4, <1>5, PushLoopMoves

\* No step but a tryPush(), which skips items, disturbs that.
LEMMA InStepNext ==
    ASSUME IInv, NEW p \in Producers, InStep(p),
           \/ \E q \in Producers : Push(q) \/ Resume(q)
           \/ \E c \in Calls : NextCall(c)
           \/ \E failed \in BOOLEAN : End(failed)
           \/ UNCHANGED vars
    PROVE  InStep(p)'
<1>1. ASSUME Push(p) PROVE InStep(p)'
  <2>1. PICK n \in 1..MaxPushes : n = sent[p] + 1 /\ sent[p] \in Nat
    BY <1>1, BoundAssumption DEF Push, IInv, TypeOK
  <2>2. /\ PushLoop(p, <<p, n>>) /\ closed' = closed /\ sent'[p] = n
        /\ \A q \in Producers \ {p} : sent'[q] = sent[q]
    BY <1>1, <2>1 DEF Push, PushLoop, Accept, Refuse, IInv, TypeOK
  <2>3. CASE \A q \in Producers \ {p} : sent[q] = 0
    <3>1. closed \/ n = Len(Stream) + 1
      BY <1>1, <2>1, <2>3 DEF Push, InStep
    <3> QED BY <2>1, <2>2, <3>1, GrowsInStep
  <2>4. CASE ~(\A q \in Producers \ {p} : sent[q] = 0)
    BY <2>2, <2>4 DEF InStep
  <2> QED BY <2>3, <2>4
<1>2. ASSUME NEW q \in Producers \ {p}, Push(q) PROVE InStep(p)'
  <2>1. sent'[q] # 0
    BY <1>2, BoundAssumption DEF Push, IInv, TypeOK
  <2> QED BY <2>1 DEF InStep
<1>3. ASSUME NEW q \in Producers, Resume(q) PROVE InStep(p)'
  <2>1. producer[q] # "idle" /\ sent[q] # 0 /\ sent[q] \in 1..MaxPushes
    BY <1>3, BoundAssumption DEF Resume, IInv, PendingSent, TypeOK
  <2>2. PICK n \in 1..MaxPushes : n = sent[q]
    BY <2>1
  <2>3. PushLoop(q, <<q, n>>) /\ closed' = closed /\ sent' = sent
    BY <1>3, <2>2 DEF Resume, Current
  <2>4. CASE ~(\A r \in Producers \ {p} : sent[r] = 0)
    BY <2>3, <2>4 DEF InStep
  <2>5. CASE \A r \in Producers \ {p} : sent[r] = 0
    <3>1. p = q
      BY <2>1, <2>5
    <3>2. closed \/ n = Len(Stream) + 1
      BY <2>1, <2>2, <2>5, <3>1, BoundAssumption DEF InStep
    <3> QED BY <2>2, <2>3, <3>1, <3>2, GrowsInStep
  <2> QED BY <2>4, <2>5
<1>4. ASSUME NEW c \in Calls, NextCall(c) PROVE InStep(p)'
  <2>1. closed' = closed
    BY <1>4 DEF NextCall, NextTakes, NextEnds, NextWaits
  <2>2. Stream' = Stream /\ sent' = sent /\ (producer'[p] = "idle" <=> producer[p] = "idle")
    BY <1>4, OtherMoves
  <2> QED BY <2>1, <2>2 DEF InStep
<1>5. ASSUME NEW failed \in BOOLEAN, End(failed) PROVE InStep(p)'
  <2>1. closed'
    BY <1>5 DEF End
  <2>2. Stream' = Stream /\ sent' = sent
    BY <1>5, OtherMoves
  <2> QED BY <2>1, <2>2 DEF InStep
<1>6. CASE UNCHANGED vars
  BY <1>6 DEF vars, InStep, Stream
<1> QED BY <1>1, <1>2, <1>3, <1>4, <1>5, <1>6
=============================================================================
