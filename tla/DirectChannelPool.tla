-------------------------- MODULE DirectChannelPool --------------------------
(***************************************************************************)
(* The process-wide pool of direct mTLS channels (class DirectChannelPool  *)
(* of transports/node-grpc/direct-data-plane.ts).  Every file operation,   *)
(* command, shell and log stream of every client of the process acquires   *)
(* a lease on a pooled channel, so the pool is shared by many concurrent   *)
(* callers: a lease is registered synchronously, then its caller awaits    *)
(* the channel's readiness, and meanwhile other callers release, discard   *)
(* and evict.                                                              *)
(*                                                                         *)
(* An entry is an identifier for a PoolEntry object; it is never reused, a *)
(* new channel takes a fresh one.  A lease is one call of acquire().       *)
(***************************************************************************)
EXTENDS Naturals, FiniteSets

CONSTANTS
    Keys,            \* cache keys: endpoint, sandbox and certificate fingerprint
    Entries,         \* PoolEntry objects the process may create
    Leases,          \* calls of acquire()
    MaxIdleChannels, \* constructor parameter maxIdleChannels
    None             \* undefined: a key the map lacks, a call with no entry yet

ASSUME MaxIdleAssumption == MaxIdleChannels \in Nat
ASSUME NoneAssumption == None \notin Entries

VARIABLES
    entries,         \* the Map: cache key -> entry
    older,           \* the Map's iteration order: <<j, k>> when j comes before k
    activeLeases,    \* PoolEntry.activeLeases
    closed,          \* PoolEntry.closed
    discardWhenIdle, \* PoolEntry.discardWhenIdle
    ready,           \* the memoised promise DirectChannel.ready
    leaseState,      \* where each acquire() call is
    leaseKey,        \* bundle.cacheKey of the call
    leaseEntry       \* the entry its closure captured

mapVars   == <<entries, older>>
entryVars == <<activeLeases, closed, discardWhenIdle>>
leaseVars == <<leaseState, leaseKey, leaseEntry>>
vars      == <<entries, older, activeLeases, closed, discardWhenIdle, ready,
               leaseState, leaseKey, leaseEntry>>

LeaseStates == {"none", "connecting", "held", "released"}
ReadyStates == {"unmade", "pending", "ready", "failed"}

TypeOK ==
    /\ entries \in [Keys -> Entries \cup {None}]
    /\ older \in SUBSET (Keys \X Keys)
    /\ activeLeases \in [Entries -> Nat]
    /\ closed \in [Entries -> BOOLEAN]
    /\ discardWhenIdle \in [Entries -> BOOLEAN]
    /\ ready \in [Entries -> ReadyStates]
    /\ leaseState \in [Leases -> LeaseStates]
    /\ leaseKey \in [Leases -> Keys \cup {None}]
    /\ leaseEntry \in [Leases -> Entries \cup {None}]

Init ==
    /\ entries = [k \in Keys |-> None]
    /\ older = {}
    /\ activeLeases = [e \in Entries |-> 0]
    /\ closed = [e \in Entries |-> FALSE]
    /\ discardWhenIdle = [e \in Entries |-> FALSE]
    /\ ready = [e \in Entries |-> "unmade"]
    /\ leaseState = [l \in Leases |-> "none"]
    /\ leaseKey = [l \in Leases |-> None]
    /\ leaseEntry = [l \in Leases |-> None]

----------------------------------------------------------------------------
(* The Map and its iteration order.                                         *)

\* The keys map m holds.
Held(m) == {k \in Keys : m[k] # None}

\* The order after the keys of K are deleted.
Without(order, K) == {p \in order : p[1] \notin K /\ p[2] \notin K}

\* touch(): delete and set again, so k becomes the youngest key of the map.
Touched(m, order, k) ==
    Without(order, {k}) \cup {<<j, k>> : j \in Held(m) \ {k}}

\* The keys whose channel no lease uses.
Idle(m, active) == {k \in Held(m) : active[m[k]] = 0}

\* evictIdle(): while more than maxIdleChannels are idle, the oldest idle
\* one goes.  The order is total on the map's keys, so there is one choice.
EvictionsOfActive(m, order, active) ==
    {E \in SUBSET Held(m) :
        IF Cardinality(Held(m)) <= MaxIdleChannels
        THEN E = {}
        ELSE Cardinality(Held(m) \ E) = MaxIdleChannels}
EvictionsOfYoungest(m, order, active) ==
    LET idle == Idle(m, active)
    IN  {E \in SUBSET idle :
            IF Cardinality(idle) <= MaxIdleChannels
            THEN E = {}
            ELSE /\ Cardinality(idle \ E) = MaxIdleChannels
                 /\ \A j \in E, k \in idle \ E : <<k, j>> \in order}
Evictions(m, order, active) ==
    LET idle == Idle(m, active)
    IN  {E \in SUBSET idle :
            IF Cardinality(idle) <= MaxIdleChannels
            THEN E = {}
            ELSE /\ Cardinality(idle \ E) = MaxIdleChannels
                 /\ \A j \in E, k \in idle \ E : <<j, k>> \in order}

----------------------------------------------------------------------------
(* acquire().                                                               *)

\* The synchronous part on a key the map holds: the lease is counted and the
\* entry touched before the first await.
AcquirePooled(l, k) ==
    /\ leaseState[l] = "none"
    /\ entries[k] # None
    /\ activeLeases' = [activeLeases EXCEPT ![entries[k]] = @ + 1]
    /\ older' = Touched(entries, older, k)
    /\ leaseState' = [leaseState EXCEPT ![l] = "connecting"]
    /\ leaseKey' = [leaseKey EXCEPT ![l] = k]
    /\ leaseEntry' = [leaseEntry EXCEPT ![l] = entries[k]]
    /\ UNCHANGED <<entries, closed, discardWhenIdle, ready>>

\* The same on a missing key: channelFactory makes a channel e first.
AcquireNew(l, k, e) ==
    /\ leaseState[l] = "none"
    /\ entries[k] = None
    /\ ready[e] = "unmade"
    /\ ready' = [ready EXCEPT ![e] = "pending"]
    /\ entries' = [entries EXCEPT ![k] = e]
    /\ older' = Touched(entries', older, k)
    /\ activeLeases' = [activeLeases EXCEPT ![e] = 1]
    /\ leaseState' = [leaseState EXCEPT ![l] = "connecting"]
    /\ leaseKey' = [leaseKey EXCEPT ![l] = k]
    /\ leaseEntry' = [leaseEntry EXCEPT ![l] = e]
    /\ UNCHANGED <<closed, discardWhenIdle>>

\* channelFactory throws: acquire() rejects, nothing was stored.
AcquireThrows(l, k) ==
    /\ leaseState[l] = "none"
    /\ entries[k] = None
    /\ leaseState' = [leaseState EXCEPT ![l] = "released"]
    /\ UNCHANGED <<mapVars, entryVars, ready, leaseKey, leaseEntry>>

\* waitForReady() calls back, once per channel.
ChannelSettles(e) ==
    /\ ready[e] = "pending"
    /\ \E r \in {"ready", "failed"} : ready' = [ready EXCEPT ![e] = r]
    /\ UNCHANGED <<mapVars, entryVars, leaseVars>>

\* within() resolves: the caller gets its lease.
Connected(l) ==
    /\ leaseState[l] = "connecting"
    /\ ready[leaseEntry[l]] = "ready"
    /\ leaseState' = [leaseState EXCEPT ![l] = "held"]
    /\ UNCHANGED <<mapVars, entryVars, ready, leaseKey, leaseEntry>>

----------------------------------------------------------------------------
(* release() and discard.                                                   *)

\* Math.max(0, activeLeases - 1).
Left(e) == IF activeLeases[e] > 0 THEN activeLeases[e] - 1 ELSE 0

\* discardWhenIdle ||= discard.
ForgetsEarlierDiscard(e, discard) == discard
Doomed(e, discard) == discardWhenIdle[e] \/ discard

\* The private release(): the entry leaves the map when it is condemned, is
\* touched otherwise, is closed by its last lease if condemned; then evictIdle().
ReleaseEntry(k, e, discard) ==
    LET last  == Left(e) = 0 /\ Doomed(e, discard)
        mine  == entries[k] = e
        drop  == mine /\ (discard \/ last)
        m     == IF drop THEN [entries EXCEPT ![k] = None] ELSE entries
        order == IF drop THEN Without(older, {k})
                 ELSE IF mine THEN Touched(entries, older, k)
                 ELSE older
        act   == [activeLeases EXCEPT ![e] = Left(e)]
    IN  /\ activeLeases' = act
        /\ discardWhenIdle' = [discardWhenIdle EXCEPT ![e] = Doomed(e, discard)]
        /\ \E E \in Evictions(m, order, act) :
              /\ entries' = [j \in Keys |-> IF j \in E THEN None ELSE m[j]]
              /\ older' = Without(order, E)
              /\ closed' = [f \in Entries |->
                               \/ closed[f]
                               \/ f = e /\ last
                               \/ \E j \in E : m[j] = f]
        /\ UNCHANGED <<ready, leaseKey, leaseEntry>>

\* The closure acquire() makes, whose released flag lets it run once.
Release(l, discard) ==
    /\ leaseState' = [leaseState EXCEPT ![l] = "released"]
    /\ ReleaseEntry(leaseKey[l], leaseEntry[l], discard)

\* within() rejects: the channel failed, the budget ran out or the caller
\* aborted.  The rejected call releases its own lease and discards the
\* channel for everyone.
ConnectFails(l) ==
    /\ leaseState[l] = "connecting"
    /\ Release(l, TRUE)

\* The holder releases, discarding when its operation failed for a reason
\* that condemns the channel.
ReleaseHeld(l) ==
    /\ leaseState[l] = "held"
    /\ \E discard \in BOOLEAN : Release(l, discard)

\* discardEntry(): no new lease, and closed at once when no lease is left.
DiscardEntryNeverCloses(k, e) ==
    /\ discardWhenIdle' = [discardWhenIdle EXCEPT ![e] = TRUE]
    /\ entries' = [entries EXCEPT ![k] = IF @ = e THEN None ELSE @]
    /\ older' = IF entries[k] = e THEN Without(older, {k}) ELSE older
    /\ UNCHANGED <<activeLeases, closed, ready, leaseVars>>
DiscardEntryStaysMapped(k, e) ==
    /\ discardWhenIdle' = [discardWhenIdle EXCEPT ![e] = TRUE]
    /\ closed' = [closed EXCEPT ![e] = @ \/ activeLeases[e] = 0]
    /\ UNCHANGED <<mapVars, activeLeases, ready, leaseVars>>
DiscardEntry(k, e) ==
    /\ discardWhenIdle' = [discardWhenIdle EXCEPT ![e] = TRUE]
    /\ IF entries[k] = e
       THEN /\ entries' = [entries EXCEPT ![k] = None]
            /\ older' = Without(older, {k})
       ELSE UNCHANGED mapVars
    /\ closed' = [closed EXCEPT ![e] = @ \/ activeLeases[e] = 0]
    /\ UNCHANGED <<activeLeases, ready, leaseVars>>

\* lease.discard(): the runner behind the channel retires.  It may come
\* after the lease was released.
DiscardLease(l) ==
    /\ leaseState[l] \in {"held", "released"}
    /\ leaseEntry[l] # None
    /\ DiscardEntry(leaseKey[l], leaseEntry[l])

\* pool.discard(cacheKey): a credential was replaced or its sandbox deleted.
DiscardKey(k) ==
    /\ entries[k] # None
    /\ DiscardEntry(k, entries[k])

----------------------------------------------------------------------------
Next ==
    \/ \E l \in Leases, k \in Keys :
          \/ AcquirePooled(l, k)
          \/ \E e \in Entries : AcquireNew(l, k, e)
          \/ AcquireThrows(l, k)
    \/ \E e \in Entries : ChannelSettles(e)
    \/ \E l \in Leases :
          \/ Connected(l)
          \/ ConnectFails(l)
          \/ ReleaseHeld(l)
          \/ DiscardLease(l)
    \/ \E k \in Keys : DiscardKey(k)

\* within() settles by its timer, and every caller of the pool releases in a
\* finally block; nothing obliges a caller to acquire or to discard.
Fairness == \A l \in Leases : WF_vars(Connected(l) \/ ConnectFails(l)) /\ WF_vars(ReleaseHeld(l))

Spec == Init /\ [][Next]_vars /\ Fairness

----------------------------------------------------------------------------
(* Properties.                                                              *)

\* The leases that use entry e: their caller waits for it or streams over it.
Using(l) == leaseState[l] \in {"connecting", "held"}
Users(e) == {l \in Leases : Using(l) /\ leaseEntry[l] = e}

\* An entry the map holds.
Pooled(e) == \E k \in Keys : entries[k] = e

\* "Active streams are never evicted" (direct-data-plane.ts:91): no channel
\* that a caller waits for or streams over is closed, whoever else releases,
\* discards or evicts it.
ActiveNeverClosed == \A l \in Leases : Using(l) => ~closed[leaseEntry[l]]

\* A channel that was made and that no lease uses is either still in the map,
\* where the next acquire or an eviction finds it, or closed: no socket leaks.
NoChannelLeaks ==
    \A e \in Entries :
        ready[e] # "unmade" /\ Users(e) = {} => closed[e] \/ Pooled(e)

\* The pool hands out no channel that was closed or condemned: whatever is in
\* the map can be leased.
PooledAreUsable ==
    \A k \in Keys : entries[k] # None => ~closed[entries[k]] /\ ~discardWhenIdle[entries[k]]

\* "bounded cache" (direct-data-plane.ts:91): although only release() evicts,
\* the map never holds more than maxIdleChannels channels nobody uses.
IdleBounded == Cardinality(Idle(entries, activeLeases)) <= MaxIdleChannels

\* The counter is the number of callers that still use the entry: every exit
\* of acquire() and of its caller gives back one lease and none gives back two.
LeasesCounted ==
    \A e \in Entries : IsFiniteSet(Users(e)) /\ activeLeases[e] = Cardinality(Users(e))

\* An entry that left the map never comes back: a caller that acquires after
\* a discard gets another channel, while the old leases drain.
NeverReinserted ==
    [][\A e \in Entries : ready[e] # "unmade" /\ ~Pooled(e) => ~Pooled(e)']_vars

\* A channel lives as long as its streams and no longer: while a caller waits
\* for it or streams over it nobody closes it, and one that no lease uses is
\* still in the map or has been closed.
ChannelsHeld == ActiveNeverClosed /\ NoChannelLeaks

\* Eviction is by age: an uncondemned channel that a release drops was idle
\* already, and used less recently than any idle one that stays, the one just
\* released included.
OldestEvicted ==
    [][\A j, k \in Keys :
          /\ entries[j] # None /\ entries'[j] = None /\ ~discardWhenIdle'[entries[j]]
          /\ entries[k] # None /\ entries'[k] = entries[k] /\ activeLeases'[entries[k]] = 0
          => /\ activeLeases[entries[j]] = 0
             /\ activeLeases[entries[k]] > 0 \/ <<j, k>> \in older]_vars

\* Every channel that was condemned is eventually closed, once its streams end.
DiscardedEventuallyClosed ==
    \A e \in Entries : discardWhenIdle[e] ~> closed[e]

----------------------------------------------------------------------------
(* What the pool promises its callers, as a specification of its own.       *)

Stage(e) == IF ready[e] = "unmade" THEN "unmade"
            ELSE IF closed[e] THEN "closed"
            ELSE IF discardWhenIdle[e] THEN "condemned"
            ELSE "open"

Lifetime == INSTANCE ChannelLifetime WITH
    Channels <- Entries,
    Callers  <- Leases,
    stage    <- [e \in Entries |-> Stage(e)],
    uses     <- [l \in Leases |-> IF Using(l) THEN leaseEntry[l] ELSE None]

\* The pool implements the life cycle of a shared channel.
ImplementsLifetime == Lifetime!Spec
=============================================================================
