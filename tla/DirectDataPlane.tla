---------------------------- MODULE DirectDataPlane ----------------------------
(***************************************************************************)
(* The direct data plane of one client (class DirectDataPlane of           *)
(* transports/node-grpc/direct-data-plane.ts) over the process's channel   *)
(* pool (module DirectChannelPool): which calls go direct and which to the *)
(* gateway, the credentials each sandbox has, and what is left of them     *)
(* once the sandbox is deleted or its state trimmed.                       *)
(*                                                                         *)
(* A SandboxState object outlives its place in the states Map: acquisitions *)
(* that captured it go on using it.  A key stands for one issued           *)
(* credential; its name is its pool key.  Permissions have credentials of  *)
(* their own side by side in a state; there is one permission here.  Clocks *)
(* are events: a credential turns stale, a cool-down ends, a timer fires.  *)
(*                                                                         *)
(* What a settled promise triggers runs before the next network event or   *)
(* timer; Quiet says that none of it is left to run.  The callers' own code *)
(* (acquire, abort, release, discard) runs in between as well.             *)
(***************************************************************************)
EXTENDS Naturals, FiniteSets

CONSTANTS
    Sandboxes, States, Keys, Entries, Callers,
    MaxSandboxStates, \* MAX_SANDBOX_STATES
    MaxIdleChannels,  \* MAX_IDLE_CHANNELS
    MaxRetries,       \* retries that fit in the budget of direct mode
    None

ASSUME PlaneAssumption ==
    /\ MaxSandboxStates \in Nat /\ MaxIdleChannels \in Nat /\ MaxRetries \in Nat
    /\ None \notin Sandboxes \cup States \cup Keys \cup Entries
    /\ IsFiniteSet(Callers)

VARIABLES
    states,    \* the Map: sandbox -> its state
    order,     \* the Map's iteration order: <<r, s>> when r comes before s
    made,      \* history: the sandbox each state was created for, if it was
    cred,      \* the credential cached in a state
    pending,   \* the credential being issued for a state
    deferred,  \* retryAtMs lies in the future
    issue,     \* what became of each credential request
    owner,     \* history: the state a credential was issued for
    stale,     \* credentials within the skew of their expiry
    at,        \* where each acquisition is
    mode,      \* its dataPlaneMode
    stateOf,   \* the state it captured
    waits,     \* the credential it waits for or uses
    retries,   \* its retries so far
    raced,     \* history: states dropped while an acquisition needed them
    entries, older, activeLeases, closed, discardWhenIdle, ready,
    leaseState, leaseKey, leaseEntry \* the pool

Pool == INSTANCE DirectChannelPool WITH Leases <- Callers

poolVars == <<entries, older, activeLeases, closed, discardWhenIdle, ready,
              leaseState, leaseKey, leaseEntry>>
mapVars == <<states, order, made, raced>>
credVars == <<cred, pending, issue, owner>>
callVars == <<at, mode, stateOf, waits, retries>>
vars == <<mapVars, credVars, deferred, stale, callVars, poolVars>>

\* What a request can end in: a credential, with or without the permission;
\* an error that isFallbackError accepts; any other error.
Answers == {"ok", "ungranted", "unavailable", "fatal"}

TypeOK ==
    /\ states \in [Sandboxes -> States \cup {None}]
    /\ order \in SUBSET (Sandboxes \X Sandboxes)
    /\ made \in [States -> Sandboxes \cup {None}]
    /\ cred \in [States -> Keys \cup {None}]
    /\ pending \in [States -> Keys \cup {None}]
    /\ deferred \in [States -> BOOLEAN]
    /\ issue \in [Keys -> {"unused", "pending"} \cup Answers]
    /\ owner \in [Keys -> States \cup {None}]
    /\ stale \in SUBSET Keys
    /\ at \in [Callers -> {"idle", "credential", "delay", "connecting",
                           "leased", "gateway", "failed", "done"}]
    /\ mode \in [Callers -> {"auto", "direct"}]
    /\ stateOf \in [Callers -> States \cup {None}]
    /\ waits \in [Callers -> Keys \cup {None}]
    /\ retries \in [Callers -> 0..MaxRetries]
    /\ raced \in SUBSET States
    /\ Pool!TypeOK

Init ==
    /\ states = [s \in Sandboxes |-> None]
    /\ order = {}
    /\ made = [o \in States |-> None]
    /\ cred = [o \in States |-> None]
    /\ pending = [o \in States |-> None]
    /\ deferred = [o \in States |-> FALSE]
    /\ issue = [k \in Keys |-> "unused"]
    /\ owner = [k \in Keys |-> None]
    /\ stale = {}
    /\ at = [c \in Callers |-> "idle"]
    /\ mode \in [Callers -> {"auto", "direct"}]
    /\ stateOf = [c \in Callers |-> None]
    /\ waits = [c \in Callers |-> None]
    /\ retries = [c \in Callers |-> 0]
    /\ raced = {}
    /\ Pool!Init

\* A promise some acquisition waits for has settled: its continuation runs next.
Resumable(c) == at[c] = "credential" /\ issue[waits[c]] # "pending"
Quiet == \A c \in Callers : ~Resumable(c)

----------------------------------------------------------------------------
(* The states Map.                                                         *)

Unmade == {o \in States : made[o] = None}
InMap(m) == {s \in Sandboxes : m[s] # None}
Mapped(m) == {m[s] : s \in InMap(m)}

\* The order without the sandboxes S, and with s as the youngest of map m.
Left(ord, S) == {p \in ord : p[1] \notin S /\ p[2] \notin S}
Youngest(m, ord, s) == Left(ord, {s}) \cup {<<r, s>> : r \in InMap(m) \ {s}}

\* pool.discard() of every key of K.
DiscardKeys(K) ==
    LET hit == {e \in Entries : \E k \in K : entries[k] = e}
    IN  /\ entries' = [k \in Keys |-> IF k \in K THEN None ELSE entries[k]]
        /\ older' = Pool!Without(older, K)
        /\ discardWhenIdle' = [e \in Entries |-> discardWhenIdle[e] \/ e \in hit]
        /\ closed' = [e \in Entries |-> closed[e] \/ (e \in hit /\ activeLeases[e] = 0)]
        /\ UNCHANGED <<activeLeases, ready, leaseState, leaseKey, leaseEntry>>

\* Mutant: one state too many may stay.
TrimsTooFew(m, ord, pend) ==
    LET free == {s \in InMap(m) : pend[m[s]] = None}
    IN  {S \in SUBSET free :
            /\ S = {} \/ Cardinality(InMap(m) \ S) >= MaxSandboxStates + 1
            /\ S = free \/ Cardinality(InMap(m) \ S) <= MaxSandboxStates + 1
            /\ \A r \in S, s \in free \ S : <<r, s>> \in ord}

\* trimStates(): the oldest sandboxes that no request is pending for go, as
\* long as the Map m with order ord is too large.  There is one choice.
Trims(m, ord, pend) ==
    LET free == {s \in InMap(m) : pend[m[s]] = None}
    IN  {S \in SUBSET free :
            /\ S = {} \/ Cardinality(InMap(m) \ S) >= MaxSandboxStates
            /\ S = free \/ Cardinality(InMap(m) \ S) <= MaxSandboxStates
            /\ \A r \in S, s \in free \ S : <<r, s>> \in ord}

\* An acquisition that has not reached the pool still needs its state.
Needs(o) == \E c \in Callers : stateOf[c] = o /\ at[c] \in {"credential", "delay"}

\* discardSandbox() of the sandboxes S of m, together with the keys K.
Drop(S, m, ord, K) ==
    /\ states' = [s \in Sandboxes |-> IF s \in S THEN None ELSE m[s]]
    /\ order' = Left(ord, S)
    /\ raced' = raced \cup {o \in {m[s] : s \in S} : Needs(o)'}
    /\ DiscardKeys(K \cup ({cred'[m[s]] : s \in S} \ {None}))

\* stop() and delete() of a sandbox end in discardSandbox().
DiscardSandbox(s) ==
    /\ Quiet
    /\ states[s] # None
    /\ UNCHANGED <<made, credVars, deferred, stale, callVars>>
    /\ Drop({s}, states, order, {})

----------------------------------------------------------------------------
(* acquire().                                                              *)

\* The first key that was never issued.
NextKey == CHOOSE k \in Keys : issue[k] = "unused"

\* The bound on requests keeps a key for every acquisition that will retry.
KeyToSpare(c) ==
    Cardinality({k \in Keys : issue[k] = "unused"}) >
        Cardinality({d \in Callers \ {c} : at[d] = "delay"})

\* Mutant: every acquisition asks for itself.
EnsureCredentialAlone(c, o) ==
    /\ at' = [at EXCEPT ![c] = "credential"]
    /\ UNCHANGED cred
    /\ IF cred[o] # None /\ cred[o] \notin stale
       THEN waits' = [waits EXCEPT ![c] = cred[o]] /\ UNCHANGED <<issue, owner, pending>>
       ELSE /\ KeyToSpare(c)
            /\ waits' = [waits EXCEPT ![c] = NextKey]
            /\ issue' = [issue EXCEPT ![NextKey] = "pending"]
            /\ owner' = [owner EXCEPT ![NextKey] = o]
            /\ pending' = [pending EXCEPT ![o] = NextKey]

\* ensureCredential(): the cached one, the one being issued, or a new one.
EnsureCredential(c, o) ==
    /\ at' = [at EXCEPT ![c] = "credential"]
    /\ UNCHANGED cred
    /\ IF cred[o] # None /\ cred[o] \notin stale
       THEN waits' = [waits EXCEPT ![c] = cred[o]] /\ UNCHANGED <<issue, owner, pending>>
       ELSE IF pending[o] # None
       THEN waits' = [waits EXCEPT ![c] = pending[o]] /\ UNCHANGED <<issue, owner, pending>>
       ELSE /\ KeyToSpare(c)
            /\ waits' = [waits EXCEPT ![c] = NextKey]
            /\ issue' = [issue EXCEPT ![NextKey] = "pending"]
            /\ owner' = [owner EXCEPT ![NextKey] = o]
            /\ pending' = [pending EXCEPT ![o] = NextKey]

\* stateFor() of a sandbox the Map has: it becomes the youngest.  In auto
\* mode a cool-down sends the call to the gateway at once.
AcquireKnown(c, s) ==
    /\ at[c] = "idle"
    /\ states[s] # None
    /\ order' = Youngest(states, order, s)
    /\ stateOf' = [stateOf EXCEPT ![c] = states[s]]
    /\ IF mode[c] = "auto" /\ deferred[states[s]]
       THEN at' = [at EXCEPT ![c] = "gateway"] /\ UNCHANGED <<waits, credVars>>
       ELSE EnsureCredential(c, states[s])
    /\ UNCHANGED <<states, made, raced, deferred, stale, mode, retries, poolVars>>

\* stateFor() of a sandbox the Map lacks: a new state, then trimStates(),
\* which may drop the new state itself when requests are pending for all others.
AcquireFirst(c, s) ==
    /\ at[c] = "idle"
    /\ states[s] = None
    /\ Unmade # {}
    /\ LET o   == CHOOSE x \in States : x \in Unmade
           m   == [states EXCEPT ![s] = o]
           ord == Youngest(m, order, s)
       IN  /\ made' = [made EXCEPT ![o] = s]
           /\ stateOf' = [stateOf EXCEPT ![c] = o]
           /\ EnsureCredential(c, o)
           /\ \E S \in Trims(m, ord, pending) : Drop(S, m, ord, {})
    /\ UNCHANGED <<deferred, stale, mode, retries>>

\* Mutant: the channel of the replaced credential stays pooled.
IssueLeavesReplaced(k) ==
    /\ Quiet
    /\ issue[k] = "pending"
    /\ LET o == owner[k]
       IN  /\ \E a \in Answers : issue' = [issue EXCEPT ![k] = a]
           /\ pending' = [pending EXCEPT ![o] = None]
           /\ cred' = IF issue'[k] \in {"ok", "ungranted"}
                      THEN [cred EXCEPT ![o] = k] ELSE cred
           /\ UNCHANGED callVars
           /\ \E S \in Trims(states, order, pending') : Drop(S, states, order, {})
    /\ UNCHANGED <<made, owner, deferred, stale>>

\* connectSandbox answers: the new credential replaces the cached one, whose
\* channel is discarded; the request is no longer pending, and trimStates().
IssueSettles(k) ==
    /\ Quiet
    /\ issue[k] = "pending"
    /\ LET o == owner[k]
       IN  /\ \E a \in Answers : issue' = [issue EXCEPT ![k] = a]
           /\ pending' = [pending EXCEPT ![o] = None]
           /\ cred' = IF issue'[k] \in {"ok", "ungranted"}
                      THEN [cred EXCEPT ![o] = k] ELSE cred
           /\ UNCHANGED callVars
           /\ \E S \in Trims(states, order, pending') :
                 Drop(S, states, order, IF cred'[o] = cred[o] THEN {} ELSE {cred[o]} \ {None})
    /\ UNCHANGED <<made, owner, deferred, stale>>

\* The acquisition gives up direct access: the gateway in auto mode, an error
\* in direct mode.
GiveUp(c) ==
    at' = [at EXCEPT ![c] = IF mode[c] = "auto" THEN "gateway" ELSE "failed"]

\* isFallbackError: no auto acquisition tries again before the cool-down ends.
CoolDown(c) == deferred' = [deferred EXCEPT ![stateOf[c]] = TRUE]

\* The budget of direct mode leaves room for a retry.
Retryable(c) == mode[c] = "direct" /\ retries[c] < MaxRetries /\ KeyToSpare(c)

\* The credential is there: on to the pool, in the same turn.
Connect(c) ==
    /\ Resumable(c)
    /\ issue[waits[c]] = "ok"
    /\ at' = [at EXCEPT ![c] = "connecting"]
    /\ \/ Pool!AcquirePooled(c, waits[c])
       \/ \E e \in Entries :
            /\ e = CHOOSE x \in Entries : ready[x] = "unmade"
            /\ Pool!AcquireNew(c, waits[c], e)
    /\ UNCHANGED <<mapVars, credVars, deferred, stale, mode, stateOf, waits, retries>>

\* The channel could not be created.
ConnectThrows(c) ==
    /\ Resumable(c)
    /\ issue[waits[c]] = "ok"
    /\ Pool!AcquireThrows(c, waits[c])
    /\ CoolDown(c)
    /\ GiveUp(c)
    /\ UNCHANGED <<mapVars, credVars, stale, mode, stateOf, waits, retries>>

\* The certificate does not grant the permission: no cool-down.
Ungranted(c) ==
    /\ Resumable(c)
    /\ issue[waits[c]] = "ungranted"
    /\ GiveUp(c)
    /\ UNCHANGED <<mapVars, credVars, deferred, stale, mode, stateOf, waits, retries, poolVars>>

\* Direct mode waits and tries again while the server is UNAVAILABLE and the
\* budget allows.
RetryLater(c) ==
    /\ Resumable(c)
    /\ issue[waits[c]] = "unavailable"
    /\ Retryable(c)
    /\ at' = [at EXCEPT ![c] = "delay"]
    /\ retries' = [retries EXCEPT ![c] = @ + 1]
    /\ UNCHANGED <<mapVars, credVars, deferred, stale, mode, stateOf, waits, poolVars>>

RetryNow(c) ==
    /\ Quiet
    /\ at[c] = "delay"
    /\ EnsureCredential(c, stateOf[c])
    /\ UNCHANGED <<mapVars, deferred, stale, mode, stateOf, retries, poolVars>>

\* The failure is no UNAVAILABLE or the budget is spent.
IssueFails(c) ==
    /\ Resumable(c)
    /\ issue[waits[c]] = "unavailable"
    /\ CoolDown(c)
    /\ GiveUp(c)
    /\ UNCHANGED <<mapVars, credVars, stale, mode, stateOf, waits, retries, poolVars>>

IssueRefused(c) ==
    /\ Resumable(c)
    /\ issue[waits[c]] = "fatal"
    /\ at' = [at EXCEPT ![c] = "failed"]
    /\ UNCHANGED <<mapVars, credVars, deferred, stale, mode, stateOf, waits, retries, poolVars>>

Resume(c) == Connect(c) \/ ConnectThrows(c) \/ Ungranted(c) \/ RetryLater(c)
             \/ IssueFails(c) \/ IssueRefused(c)

\* The budget runs out while the credential is awaited; the request goes on.
CredentialTimesOut(c) ==
    /\ Quiet
    /\ at[c] = "credential"
    /\ CoolDown(c)
    /\ GiveUp(c)
    /\ UNCHANGED <<mapVars, credVars, stale, mode, stateOf, waits, retries, poolVars>>

\* The caller aborts while it waits for the credential or for a retry, or had
\* aborted before it called.
Aborts(c) ==
    /\ at[c] \in {"credential", "delay"}
    /\ at' = [at EXCEPT ![c] = "failed"]
    /\ UNCHANGED <<mapVars, credVars, deferred, stale, mode, stateOf, waits, retries, poolVars>>

\* The channel is ready: the caller has its lease and the cool-down is over.
Leased(c) ==
    /\ Quiet
    /\ Pool!Connected(c)
    /\ at' = [at EXCEPT ![c] = "leased"]
    /\ deferred' = [deferred EXCEPT ![stateOf[c]] = FALSE]
    /\ UNCHANGED <<mapVars, credVars, stale, mode, stateOf, waits, retries>>

\* Mutant: only the channel ends the wait.
ConnectFailsOnly(c) ==
    /\ Quiet
    /\ at[c] = "connecting"
    /\ ready[leaseEntry[c]] = "failed"
    /\ Pool!ConnectFails(c)
    /\ CoolDown(c)
    /\ GiveUp(c)
    /\ UNCHANGED <<mapVars, credVars, stale, mode, stateOf, waits, retries>>

\* The connection failed or took too long; aborting cools nothing down.
ConnectFails(c) ==
    /\ Quiet
    /\ at[c] = "connecting"
    /\ Pool!ConnectFails(c)
    /\ CoolDown(c)
    /\ GiveUp(c)
    /\ UNCHANGED <<mapVars, credVars, stale, mode, stateOf, waits, retries>>
ConnectAborts(c) ==
    /\ at[c] = "connecting"
    /\ Pool!ConnectFails(c)
    /\ at' = [at EXCEPT ![c] = "failed"]
    /\ UNCHANGED <<mapVars, credVars, deferred, stale, mode, stateOf, waits, retries>>

\* The operation is over, or its runner retires while it runs.
Release(c) ==
    /\ at[c] = "leased"
    /\ Pool!ReleaseHeld(c)
    /\ at' = [at EXCEPT ![c] = "done"]
    /\ UNCHANGED <<mapVars, credVars, deferred, stale, mode, stateOf, waits, retries>>

DiscardLease(c) ==
    /\ at[c] \in {"leased", "done"}
    /\ Pool!DiscardLease(c)
    /\ UNCHANGED <<mapVars, credVars, deferred, stale, callVars>>

----------------------------------------------------------------------------
(* The environment.                                                        *)

ChannelSettles(e) ==
    /\ Quiet
    /\ Pool!ChannelSettles(e)
    /\ UNCHANGED <<mapVars, credVars, deferred, stale, callVars>>

\* A cached credential comes within EXPIRY_SKEW_MS of its expiry.
Expire(k) ==
    /\ Quiet
    /\ k \notin stale
    /\ \E o \in States : cred[o] = k
    /\ stale' = stale \cup {k}
    /\ UNCHANGED <<mapVars, credVars, deferred, callVars, poolVars>>

CoolDownEnds(o) ==
    /\ Quiet
    /\ deferred[o]
    /\ deferred' = [deferred EXCEPT ![o] = FALSE]
    /\ UNCHANGED <<mapVars, credVars, stale, callVars, poolVars>>

Next ==
    \/ \E c \in Callers, s \in Sandboxes : AcquireKnown(c, s) \/ AcquireFirst(c, s)
    \/ \E s \in Sandboxes : DiscardSandbox(s)
    \/ \E k \in Keys : IssueSettles(k) \/ Expire(k)
    \/ \E c \in Callers :
        \/ Resume(c) \/ RetryNow(c) \/ CredentialTimesOut(c) \/ Aborts(c)
        \/ Leased(c) \/ ConnectFails(c) \/ ConnectAborts(c)
        \/ Release(c) \/ DiscardLease(c)
    \/ \E e \in Entries : ChannelSettles(e)
    \/ \E o \in States : CoolDownEnds(o)

\* Continuations run, and every wait has a timer: the budget of acquire() and
\* the delay of a retry.  The server and the channels owe no answer.
Fairness ==
    \A c \in Callers :
        /\ WF_vars(Resume(c))
        /\ WF_vars(RetryNow(c))
        /\ WF_vars(CredentialTimesOut(c))
        /\ WF_vars(ConnectFails(c))

Spec == Init /\ [][Next]_vars /\ Fairness

----------------------------------------------------------------------------
(* Properties.                                                             *)

\* The pool keeps its promises under these callers.
PoolSafe == Pool!ActiveNeverClosed /\ Pool!NoChannelLeaks /\ Pool!LeasesCounted

\* A replaced credential leaves no channel behind in the pool, so nobody is
\* given a channel with an outdated certificate after a new one was issued, and
\* deleting or trimming a sandbox takes its channel out.  Only an acquisition
\* that was still waiting for its credential, or for a retry, when the state was
\* dropped can bring one back.  All the while the pool keeps its own promises.
PooledIsCurrent ==
    /\ \A k \in Keys : entries[k] # None =>
          cred[owner[k]] = k /\ owner[k] \in Mapped(states) \cup raced
    /\ PoolSafe

\* The caller is in an await of a request under way.
AwaitsRequest(c) == at[c] = "credential" /\ issue[waits[c]] = "pending"

\* A state has one request under way at most.
OneRequestPerState ==
    \A j, k \in Keys :
        issue[j] = "pending" /\ issue[k] = "pending" /\ j # k => owner[j] # owner[k]

\* Acquisitions of a sandbox await one request, but for states that were dropped.
OneRequestPerSandbox ==
    \A c, d \in Callers :
        AwaitsRequest(c) /\ AwaitsRequest(d) /\ made[stateOf[c]] = made[stateOf[d]] =>
            waits[c] = waits[d] \/ stateOf[c] \in raced \/ stateOf[d] \in raced

\* A state has one request under way at most, whatever expires, retries or times
\* out.  So acquisitions of one sandbox await the same request, unless the state
\* of one of them was dropped while it was needed: trimmed, when new or between
\* retries, or deleted with the sandbox; the next one then finds no state in the
\* Map and asks for a credential of its own.  And the Map keeps to its bound even
\* when requests are under way for all its states.
StatesShared ==
    /\ OneRequestPerState
    /\ OneRequestPerSandbox
    /\ Cardinality(InMap(states)) <= MaxSandboxStates

\* Every acquisition ends, with a lease, at the gateway or with an error,
\* even if neither the server nor the endpoint ever answers.
AcquireEnds ==
    \A c \in Callers :
        at[c] \in {"credential", "delay", "connecting"} ~>
            at[c] \in {"leased", "gateway", "failed", "done"}
=============================================================================
