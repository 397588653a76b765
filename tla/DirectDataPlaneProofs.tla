------------------------ MODULE DirectDataPlaneProofs ------------------------
(***************************************************************************)
(* What the direct data plane guarantees, for every set of sandboxes,      *)
(* states, credentials and callers and every limit.  The proof rests on    *)
(* the pool's invariant: every step of the plane is a step of the pool, or *)
(* discards several keys at once, and so it keeps that invariant.          *)
(***************************************************************************)
EXTENDS DirectDataPlane, FiniteSetTheorems, TLAPS

P == INSTANCE DirectChannelPoolProofs WITH Leases <- Callers

\* A state has a request pending exactly while that request is under way.
RequestsMatch ==
    /\ \A k \in Keys : issue[k] = "pending" => owner[k] \in States /\ pending[owner[k]] = k
    /\ \A o \in States : pending[o] # None =>
          issue[pending[o]] = "pending" /\ owner[pending[o]] = o

\* A credential was issued for the state that caches it.
CachedWereIssued ==
    \A o \in States : cred[o] # None =>
        owner[cred[o]] = o /\ issue[cred[o]] \in {"ok", "ungranted"}

\* Nothing refers to a state that was not created, and the Map has a sandbox's
\* state under the sandbox it was created for.
MadeFirst ==
    /\ \A o \in States : pending[o] # None => made[o] # None
    /\ \A s \in InMap(states) : made[states[s]] = s
    /\ \A c \in Callers : at[c] \in {"credential", "delay"} =>
          stateOf[c] \in States /\ made[stateOf[c]] # None

\* An acquisition's state is in the Map unless it was dropped meanwhile.
NeededAreKnown ==
    \A c \in Callers : at[c] \in {"credential", "delay"} =>
        stateOf[c] \in Mapped(states) \cup raced

\* An acquisition waits for a request of its own state, and is resumed before
\* another credential can take the place of the one it was given.
WaitsAreCurrent ==
    \A c \in Callers : at[c] = "credential" =>
        /\ waits[c] \in Keys
        /\ owner[waits[c]] = stateOf[c]
        /\ issue[waits[c]] # "unused"
        /\ issue[waits[c]] \in {"ok", "ungranted"} => cred[stateOf[c]] = waits[c]

PooledAreOwned ==
    \A k \in Keys : entries[k] # None =>
        /\ owner[k] \in States
        /\ cred[owner[k]] = k
        /\ owner[k] \in Mapped(states) \cup raced

MapBounded == IsFiniteSet(InMap(states)) /\ Cardinality(InMap(states)) <= MaxSandboxStates

IInv ==
    /\ TypeOK
    /\ RequestsMatch
    /\ CachedWereIssued
    /\ MadeFirst
    /\ NeededAreKnown
    /\ WaitsAreCurrent
    /\ PooledAreOwned
    /\ MapBounded
    /\ P!IInv

----------------------------------------------------------------------------
(* The pool under these callers.                                            *)

\* The pool's finite sets are those of this module.
LEMMA PoolSets ==
    /\ \A S : P!Cardinality(S) = Cardinality(S) /\ Pool!Cardinality(S) = Cardinality(S)
    /\ \A S : P!IsFiniteSet(S) = IsFiniteSet(S) /\ Pool!IsFiniteSet(S) = IsFiniteSet(S)
BY DEF Cardinality, Pool!Cardinality, P!Cardinality,
       IsFiniteSet, Pool!IsFiniteSet, P!IsFiniteSet

\* Every step of the pool keeps the pool's invariant.
LEMMA PoolInv ==
    ASSUME P!IInv, Pool!Next \/ UNCHANGED poolVars
    PROVE  P!IInv'
<1>1. MaxIdleChannels \in Nat /\ None \notin Entries
  BY PlaneAssumption
<1>2. Pool!Next => P!Next
  <2>1. ASSUME NEW c \in Callers, NEW k \in Keys
        PROVE  /\ Pool!AcquirePooled(c, k) <=> P!AcquirePooled(c, k)
               /\ Pool!AcquireThrows(c, k) <=> P!AcquireThrows(c, k)
               /\ \A e \in Entries : Pool!AcquireNew(c, k, e) <=> P!AcquireNew(c, k, e)
    BY DEF Pool!AcquirePooled, P!AcquirePooled, Pool!AcquireNew, P!AcquireNew,
           Pool!AcquireThrows, P!AcquireThrows, Pool!Touched, P!Touched, Pool!Without, P!Without,
           Pool!Held, P!Held, Pool!mapVars, P!mapVars, Pool!entryVars, P!entryVars
  <2>2. ASSUME NEW e \in Entries
        PROVE  Pool!ChannelSettles(e) <=> P!ChannelSettles(e)
    BY DEF Pool!ChannelSettles, P!ChannelSettles, Pool!mapVars, P!mapVars,
           Pool!entryVars, P!entryVars, Pool!leaseVars, P!leaseVars
  <2>3. ASSUME NEW k, NEW e PROVE Pool!DiscardEntry(k, e) <=> P!DiscardEntry(k, e)
    BY DEF Pool!DiscardEntry, P!DiscardEntry, Pool!mapVars, P!mapVars,
           Pool!leaseVars, P!leaseVars, Pool!Without, P!Without
  <2>4. ASSUME NEW k, NEW e, NEW discard
        PROVE  Pool!ReleaseEntry(k, e, discard) <=> P!ReleaseEntry(k, e, discard)
    <3>1. \A m, ord, act : Pool!Evictions(m, ord, act) = P!Evictions(m, ord, act)
      <4>1. \A m, act : Pool!Idle(m, act) = P!Idle(m, act)
        BY DEF Pool!Idle, P!Idle, Pool!Held, P!Held
      <4> QED BY <4>1, PoolSets DEF Pool!Evictions, P!Evictions
    <3>2. \A ord, K : Pool!Without(ord, K) = P!Without(ord, K)
      BY DEF Pool!Without, P!Without
    <3>3. \A m, ord, j : Pool!Touched(m, ord, j) = P!Touched(m, ord, j)
      BY <3>2 DEF Pool!Touched, P!Touched, Pool!Held, P!Held
    <3> QED BY <3>1, <3>2, <3>3 DEF Pool!ReleaseEntry, P!ReleaseEntry,
               Pool!Left, P!Left, Pool!Doomed, P!Doomed
  <2>5. ASSUME NEW c \in Callers
        PROVE  /\ Pool!Connected(c) <=> P!Connected(c)
               /\ Pool!ConnectFails(c) <=> P!ConnectFails(c)
               /\ Pool!ReleaseHeld(c) <=> P!ReleaseHeld(c)
               /\ Pool!DiscardLease(c) <=> P!DiscardLease(c)
    BY <2>3, <2>4 DEF Pool!Connected, P!Connected, Pool!ConnectFails, P!ConnectFails,
           Pool!ReleaseHeld, P!ReleaseHeld, Pool!Release, P!Release,
           Pool!DiscardLease, P!DiscardLease, Pool!mapVars, P!mapVars,
           Pool!entryVars, P!entryVars
  <2>6. ASSUME NEW k \in Keys PROVE Pool!DiscardKey(k) <=> P!DiscardKey(k)
    BY <2>3 DEF Pool!DiscardKey, P!DiscardKey
  <2> QED BY <2>1, <2>2, <2>5, <2>6 DEF Pool!Next, P!Next
<1>3. UNCHANGED poolVars => UNCHANGED P!vars
  BY DEF poolVars, P!vars
<1> QED BY <1>1, <1>2, <1>3, P!NextInv

LEMMA PoolTypes == (P!TypeOK <=> Pool!TypeOK) /\ (P!TypeOK' <=> Pool!TypeOK')
BY DEF P!TypeOK, Pool!TypeOK, P!LeaseStates, Pool!LeaseStates, P!ReadyStates, Pool!ReadyStates

\* pool.discard() of many keys keeps the invariant, like that of one.
LEMMA DiscardKeysInv ==
    ASSUME P!IInv, NEW K \in SUBSET Keys, DiscardKeys(K)
    PROVE  P!IInv'
<1> DEFINE hit == {e \in Entries : \E k \in K : entries[k] = e}
<1> USE DEF P!IInv
<1>1. /\ discardWhenIdle' = [e \in Entries |-> discardWhenIdle[e] \/ e \in hit]
      /\ closed' = [e \in Entries |-> closed[e] \/ (e \in hit /\ activeLeases[e] = 0)]
      /\ entries' = [k \in Keys |-> IF k \in K THEN None ELSE entries[k]]
      /\ UNCHANGED <<activeLeases, ready, leaseState, leaseKey, leaseEntry>>
  BY DEF DiscardKeys
<1>2. older' \in SUBSET (Keys \X Keys)
  BY DEF DiscardKeys, Pool!Without, P!TypeOK
<1> HIDE DEF hit
<1>3. P!TypeOK'
  <2>1. /\ entries' \in [Keys -> Entries \cup {None}]
        /\ discardWhenIdle' \in [Entries -> BOOLEAN]
        /\ closed' \in [Entries -> BOOLEAN]
    BY <1>1 DEF P!TypeOK
  <2> QED BY <1>1, <1>2, <2>1 DEF P!TypeOK
<1>4. \A e \in Entries : e \in hit <=> \E k \in K : entries[k] = e
  BY DEF hit
<1>5. P!LeasesCounted'
  <2> SUFFICES ASSUME NEW f \in Entries
               PROVE  IsFiniteSet(P!Users(f)') /\ activeLeases'[f] = Cardinality(P!Users(f)')
    BY PoolSets DEF P!LeasesCounted
  <2>1. P!Users(f)' = P!Users(f)
    BY <1>1 DEF P!Users, P!Using
  <2> QED BY <1>1, <2>1, PoolSets DEF P!LeasesCounted
<1>6. P!LeasesKnown' /\ P!UsersHaveEntries'
  BY <1>1 DEF P!LeasesKnown, P!UsersHaveEntries, P!Using
<1>7. P!UnmadeAreUntouched'
  BY <1>1, <1>4, PlaneAssumption DEF P!UnmadeAreUntouched, P!TypeOK, P!Pooled
<1>8. P!OneKeyPerEntry'
  BY <1>1 DEF P!OneKeyPerEntry
<1>9. P!PooledAreUsable'
  <2> SUFFICES ASSUME NEW k \in Keys, entries'[k] # None
               PROVE  ~closed'[entries'[k]] /\ ~discardWhenIdle'[entries'[k]]
    BY DEF P!PooledAreUsable
  <2>1. k \notin K /\ entries'[k] = entries[k] /\ entries[k] \in Entries
    BY <1>1 DEF P!TypeOK
  <2>2. entries[k] \notin hit
    BY <1>4, <2>1 DEF P!OneKeyPerEntry
  <2> QED BY <1>1, <2>1, <2>2 DEF P!PooledAreUsable
<1>10. P!ClosedByCount'
  <2> SUFFICES ASSUME NEW f \in Entries
               PROVE  /\ closed'[f] => activeLeases[f] = 0
                      /\ discardWhenIdle'[f] /\ activeLeases[f] = 0 => closed'[f]
                      /\ ready[f] # "unmade" => closed'[f] \/ discardWhenIdle'[f] \/ P!Pooled(f)'
    BY <1>1 DEF P!ClosedByCount
  <2>1. closed'[f] <=> closed[f] \/ (f \in hit /\ activeLeases[f] = 0)
    BY <1>1
  <2>2. discardWhenIdle'[f] <=> discardWhenIdle[f] \/ f \in hit
    BY <1>1
  <2>3. P!Pooled(f) => P!Pooled(f)' \/ f \in hit
    BY <1>1, <1>4 DEF P!Pooled
  <2> QED BY <2>1, <2>2, <2>3 DEF P!ClosedByCount
<1>11. P!MapFinite'
  <2>1. P!Held(entries') \subseteq P!Held(entries)
    BY <1>1 DEF P!Held
  <2> QED BY <2>1, FS_Subset, PoolSets DEF P!MapFinite
<1>12. P!IdleBounded'
  <2>1. P!Idle(entries', activeLeases') \subseteq P!Idle(entries, activeLeases)
    BY <1>1 DEF P!Idle, P!Held
  <2>2. P!Idle(entries, activeLeases) \subseteq P!Held(entries)
    BY DEF P!Idle
  <2> QED BY <2>1, <2>2, FS_Subset, FS_CardinalityType, PoolSets, PlaneAssumption
          DEF P!MapFinite, P!IdleBounded
<1> QED BY <1>3, <1>5, <1>6, <1>7, <1>8, <1>9, <1>10, <1>11, <1>12

----------------------------------------------------------------------------
(* The steps the operations are made of.                                    *)

\* The bound on requests leaves a key to issue.
LEMMA NextKeyUnused ==
    ASSUME NEW c, KeyToSpare(c)
    PROVE  NextKey \in Keys /\ issue[NextKey] = "unused"
<1> DEFINE Unused == {k \in Keys : issue[k] = "unused"}
           Due == {d \in Callers \ {c} : at[d] = "delay"}
<1>1. IsFiniteSet(Due) /\ Cardinality(Due) \in Nat
  BY PlaneAssumption, FS_Subset, FS_CardinalityType
<1>2. Unused # {}
  <2> SUFFICES ASSUME Unused = {} PROVE FALSE
    OBVIOUS
  <2>1. Cardinality(Unused) = 0
    BY FS_EmptySet
  <2> HIDE DEF Due
  <2> QED BY <1>1, <2>1 DEF KeyToSpare, Due
<1> QED BY <1>2 DEF NextKey

\* ensureCredential() has the acquisition wait for a request of its state:
\* one it shares, or a fresh one that it records.
LEMMA EnsureFacts ==
    ASSUME IInv, NEW c \in Callers, NEW o \in States, EnsureCredential(c, o)
    PROVE  /\ issue' \in [Keys -> {"unused", "pending"} \cup Answers]
           /\ owner' \in [Keys -> States \cup {None}]
           /\ pending' \in [States -> Keys \cup {None}]
           /\ waits' \in [Callers -> Keys \cup {None}]
           /\ at' = [at EXCEPT ![c] = "credential"]
           /\ cred' = cred
           /\ RequestsMatch'
           /\ \A k \in Keys : issue[k] # "unused" => issue'[k] = issue[k] /\ owner'[k] = owner[k]
           /\ \A p \in States : pending'[p] # None => pending[p] # None \/ p = o
           /\ \A d \in Callers \ {c} : waits'[d] = waits[d]
           /\ waits'[c] \in Keys /\ owner'[waits'[c]] = o /\ issue'[waits'[c]] # "unused"
           /\ issue'[waits'[c]] \in {"ok", "ungranted"} => cred[o] = waits'[c]
<1> USE DEF EnsureCredential, IInv, TypeOK
<1>1. CASE cred[o] # None /\ cred[o] \notin stale
  BY <1>1 DEF RequestsMatch, CachedWereIssued
<1>2. CASE ~(cred[o] # None /\ cred[o] \notin stale) /\ pending[o] # None
  BY <1>2 DEF RequestsMatch
<1>3. CASE ~(cred[o] # None /\ cred[o] \notin stale) /\ pending[o] = None
  <2>1. PICK k : k = NextKey
    OBVIOUS
  <2>2. k \in Keys /\ issue[k] = "unused"
    BY <1>3, <2>1, NextKeyUnused
  <2>3. /\ waits' = [waits EXCEPT ![c] = k]
        /\ issue' = [issue EXCEPT ![k] = "pending"]
        /\ owner' = [owner EXCEPT ![k] = o]
        /\ pending' = [pending EXCEPT ![o] = k]
        /\ at' = [at EXCEPT ![c] = "credential"]
        /\ cred' = cred
    BY <1>3, <2>1
  <2>4. RequestsMatch'
    BY <1>3, <2>2, <2>3, PlaneAssumption DEF RequestsMatch
  <2> QED BY <1>3, <2>2, <2>3, <2>4
<1> QED BY <1>1, <1>2, <1>3

\* discardSandbox() of some sandboxes takes their states out of the Map, and
\* notes those that some acquisition still needs.
LEMMA DropMap ==
    ASSUME IInv, NEW m \in [Sandboxes -> States \cup {None}], NEW ord, NEW K,
           NEW S \in SUBSET InMap(m), Drop(S, m, ord, K)
    PROVE  /\ states' \in [Sandboxes -> States \cup {None}]
           /\ InMap(states') = InMap(m) \ S
           /\ Mapped(states') \subseteq Mapped(m)
           /\ order' \subseteq ord
           /\ raced \subseteq raced' /\ raced' \subseteq States
           /\ \A o \in Mapped(m) \ Mapped(states') : Needs(o)' => o \in raced'
           /\ \A s \in InMap(states') : s \in InMap(m) /\ states'[s] = m[s]
<1>1. /\ states' = [s \in Sandboxes |-> IF s \in S THEN None ELSE m[s]]
      /\ order' = Left(ord, S)
      /\ raced' = raced \cup {o \in {m[s] : s \in S} : Needs(o)'}
  BY DEF Drop
<1>2. \A o \in Mapped(m) \ Mapped(states') : \E s \in S : m[s] = o
  BY <1>1 DEF Mapped, InMap
<1> QED BY <1>1, <1>2 DEF IInv, TypeOK, InMap, Mapped, Left

\* It takes their credentials' channels out of the pool.
LEMMA DropPool ==
    ASSUME IInv, cred' \in [States -> Keys \cup {None}],
           NEW m \in [Sandboxes -> States \cup {None}], NEW ord, NEW K \in SUBSET Keys,
           NEW S \in SUBSET InMap(m), Drop(S, m, ord, K),
           NEW k \in Keys, entries'[k] # None
    PROVE  /\ entries'[k] = entries[k] /\ k \notin K
           /\ \A o \in Mapped(m) \ Mapped(states') : cred'[o] # k
<1>1. states' = [s \in Sandboxes |-> IF s \in S THEN None ELSE m[s]]
  BY DEF Drop
<1>2. PICK L : L = K \cup ({cred'[m[s]] : s \in S} \ {None})
  OBVIOUS
<1>3. DiscardKeys(L)
  BY <1>2 DEF Drop
<1>4. k \notin L /\ entries'[k] = entries[k]
  BY <1>3 DEF DiscardKeys
<1>5. \A o \in Mapped(m) \ Mapped(states') : \E s \in S : m[s] = o
  BY <1>1 DEF Mapped, InMap
<1>6. \A s \in S : cred'[m[s]] # k
  BY <1>2, <1>4, PlaneAssumption
<1> QED BY <1>2, <1>4, <1>5, <1>6

LEMMA DropPoolInv ==
    ASSUME IInv, cred' \in [States -> Keys \cup {None}],
           NEW m \in [Sandboxes -> States \cup {None}], NEW ord, NEW K \in SUBSET Keys,
           NEW S \in SUBSET InMap(m), Drop(S, m, ord, K)
    PROVE  P!IInv'
<1>1. PICK L : L = K \cup ({cred'[m[s]] : s \in S} \ {None})
  OBVIOUS
<1>2. L \in SUBSET Keys /\ DiscardKeys(L)
  BY <1>1 DEF Drop, InMap
<1> QED BY <1>2, DiscardKeysInv DEF IInv

----------------------------------------------------------------------------
(* The invariant.                                                           *)

LEMMA InitInv == Init => IInv
<1> SUFFICES ASSUME Init PROVE IInv
  OBVIOUS
<1> USE DEF Init
<1>1. P!IInv
  <2>1. P!Init
    BY DEF P!Init, Pool!Init
  <2> QED BY <2>1, P!InitInv, PlaneAssumption
<1>2. TypeOK
  BY <1>1, PoolTypes, PlaneAssumption DEF TypeOK, P!IInv
<1>3. MapBounded
  <2>1. InMap(states) = {}
    BY DEF InMap
  <2> QED BY <2>1, FS_EmptySet, PlaneAssumption DEF MapBounded
<1>4. RequestsMatch /\ CachedWereIssued /\ MadeFirst /\ NeededAreKnown /\ WaitsAreCurrent
  BY DEF RequestsMatch, CachedWereIssued, MadeFirst, NeededAreKnown, WaitsAreCurrent,
         Mapped, InMap
<1>5. PooledAreOwned
  BY DEF PooledAreOwned, Pool!Init
<1> QED BY <1>1, <1>2, <1>3, <1>4, <1>5 DEF IInv

\* Most steps leave the states and the credentials alone, add no channel and
\* let no acquisition start to wait.
LEMMA LeaveInv ==
    ASSUME IInv, P!IInv', UNCHANGED <<mapVars, credVars, mode, stateOf, waits>>,
           deferred' \in [States -> BOOLEAN], stale' \in SUBSET Keys,
           at' \in [Callers -> {"idle", "credential", "delay", "connecting",
                                "leased", "gateway", "failed", "done"}],
           retries' \in [Callers -> 0..MaxRetries],
           \A d \in Callers : at'[d] = "credential" => at[d] = "credential",
           \A d \in Callers : at'[d] = "delay" => at[d] \in {"credential", "delay"},
           \A k \in Keys : entries'[k] \in {entries[k], None}
    PROVE  IInv'
<1> USE DEF mapVars, credVars
<1>1. TypeOK'
  <2>1. Pool!TypeOK'
    BY PoolTypes DEF P!IInv
  <2> QED BY <2>1 DEF IInv, TypeOK
<1>2. Mapped(states') = Mapped(states) /\ InMap(states') = InMap(states)
  BY DEF Mapped, InMap
<1>3. RequestsMatch' /\ CachedWereIssued' /\ MapBounded'
  BY <1>2 DEF IInv, RequestsMatch, CachedWereIssued, MapBounded
<1>4. MadeFirst' /\ NeededAreKnown'
  BY <1>2 DEF IInv, MadeFirst, NeededAreKnown
<1>5. WaitsAreCurrent'
  BY DEF IInv, WaitsAreCurrent
<1>6. PooledAreOwned'
  BY <1>2 DEF IInv, PooledAreOwned
<1> QED BY <1>1, <1>3, <1>4, <1>5, <1>6 DEF IInv

LEMMA AcquireKnownInv ==
    ASSUME IInv, NEW c \in Callers, NEW s \in Sandboxes, AcquireKnown(c, s)
    PROVE  IInv'
<1> USE DEF AcquireKnown
<1>1. PICK o \in States : o = states[s] /\ o \in Mapped(states) /\ made[o] # None
  BY PlaneAssumption DEF IInv, TypeOK, Mapped, InMap, MadeFirst
<1>2. P!IInv'
  BY PoolInv DEF IInv
<1>3. /\ Mapped(states') = Mapped(states) /\ InMap(states') = InMap(states)
      /\ MapBounded'
  BY DEF Mapped, InMap, IInv, MapBounded
<1>4. order' \in SUBSET (Sandboxes \X Sandboxes)
  BY DEF IInv, TypeOK, Youngest, Left, InMap
<1>5. entries' = entries /\ Pool!TypeOK'
  BY <1>2, PoolTypes DEF poolVars, P!IInv
<1>6. CASE mode[c] = "auto" /\ deferred[o]
  <2>1. at' = [at EXCEPT ![c] = "gateway"] /\ UNCHANGED <<waits, credVars>>
    BY <1>1, <1>6
  <2>2. TypeOK'
    BY <1>1, <1>4, <1>5, <2>1 DEF IInv, TypeOK, credVars
  <2>3. RequestsMatch' /\ CachedWereIssued'
    BY <2>1 DEF IInv, RequestsMatch, CachedWereIssued, credVars
  <2>4. MadeFirst' /\ NeededAreKnown' /\ WaitsAreCurrent'
    BY <1>3, <2>1 DEF IInv, TypeOK, MadeFirst, NeededAreKnown, WaitsAreCurrent, credVars
  <2>5. PooledAreOwned'
    BY <1>3, <1>5, <2>1 DEF IInv, PooledAreOwned, credVars
  <2> QED BY <1>2, <1>3, <2>2, <2>3, <2>4, <2>5 DEF IInv
<1>7. CASE EnsureCredential(c, o)
  <2>1. TypeOK'
    <3>1. /\ issue' \in [Keys -> {"unused", "pending"} \cup Answers]
          /\ owner' \in [Keys -> States \cup {None}]
          /\ pending' \in [States -> Keys \cup {None}]
          /\ waits' \in [Callers -> Keys \cup {None}]
          /\ at' = [at EXCEPT ![c] = "credential"] /\ cred' = cred
      BY <1>7, EnsureFacts
    <3> QED BY <1>1, <1>4, <1>5, <3>1 DEF IInv, TypeOK
  <2>2. RequestsMatch' /\ CachedWereIssued'
    BY <1>7, EnsureFacts DEF IInv, TypeOK, CachedWereIssued
  <2>3. MadeFirst' /\ NeededAreKnown'
    BY <1>1, <1>3, <1>7, EnsureFacts DEF IInv, TypeOK, MadeFirst, NeededAreKnown
  <2>4. WaitsAreCurrent'
    BY <1>1, <1>7, EnsureFacts DEF IInv, TypeOK, WaitsAreCurrent
  <2>5. PooledAreOwned'
    <3>1. cred' = cred /\ \A k \in Keys : issue[k] # "unused" => owner'[k] = owner[k]
      BY <1>7, EnsureFacts
    <3>2. \A k \in Keys : entries[k] # None => issue[k] # "unused"
      BY PlaneAssumption DEF IInv, PooledAreOwned, CachedWereIssued
    <3> QED BY <1>3, <1>5, <3>1, <3>2 DEF IInv, PooledAreOwned
  <2> QED BY <1>2, <1>3, <2>1, <2>2, <2>3, <2>4, <2>5 DEF IInv
<1> QED BY <1>1, <1>6, <1>7

\* Dropping sandboxes forgets no state that an acquisition needs and leaves no
\* channel of theirs behind.
LEMMA DropKeeps ==
    ASSUME IInv, cred' \in [States -> Keys \cup {None}],
           NEW m \in [Sandboxes -> States \cup {None}], NEW ord, NEW K \in SUBSET Keys,
           NEW S \in SUBSET InMap(m), Drop(S, m, ord, K),
           \A c \in Callers : at'[c] \in {"credential", "delay"} =>
               stateOf'[c] \in Mapped(m) \cup raced,
           \A k \in Keys \ K : entries[k] # None =>
               /\ owner'[k] \in States /\ cred'[owner'[k]] = k
               /\ owner'[k] \in Mapped(m) \cup raced
    PROVE  NeededAreKnown' /\ PooledAreOwned'
<1>1. NeededAreKnown'
  <2> SUFFICES ASSUME NEW c \in Callers, at'[c] \in {"credential", "delay"}
               PROVE  stateOf'[c] \in Mapped(states') \cup raced'
    BY DEF NeededAreKnown
  <2>1. Needs(stateOf[c])'
    BY DEF Needs
  <2>2. \A o \in Mapped(m) \ Mapped(states') : Needs(o)' => o \in raced'
    BY DropMap
  <2>3. raced \subseteq raced'
    BY DropMap
  <2> QED BY <2>1, <2>2, <2>3
<1>2. PooledAreOwned'
  <2> SUFFICES ASSUME NEW k \in Keys, entries'[k] # None
               PROVE  /\ owner'[k] \in States
                      /\ cred'[owner'[k]] = k
                      /\ owner'[k] \in Mapped(states') \cup raced'
    BY DEF PooledAreOwned
  <2>1. entries'[k] = entries[k] /\ k \notin K
    BY DropPool
  <2>2. \A o \in Mapped(m) \ Mapped(states') : cred'[o] # k
    BY DropPool
  <2>3. raced \subseteq raced'
    BY DropMap
  <2> QED BY <2>1, <2>2, <2>3
<1> QED BY <1>1, <1>2

\* What trimStates() leaves in the Map that stateFor() has just added s to.
LEMMA TrimsBound ==
    ASSUME MapBounded, NEW m, NEW ord, NEW pend, NEW s \in Sandboxes,
           m[s] # None, pend[m[s]] = None,
           InMap(m) = InMap(states) \cup {s}, NEW S \in Trims(m, ord, pend)
    PROVE  IsFiniteSet(InMap(m) \ S) /\ Cardinality(InMap(m) \ S) <= MaxSandboxStates
<1> DEFINE free == {r \in InMap(m) : pend[m[r]] = None}
<1>1. IsFiniteSet(InMap(m))
  BY FS_AddElement DEF MapBounded
<1>2. IsFiniteSet(InMap(m) \ S)
  BY <1>1, FS_Subset
<1>3. CASE S = free
  <2>1. InMap(m) \ S \subseteq InMap(states)
    BY <1>3
  <2> QED BY <1>2, <2>1, FS_Subset, FS_CardinalityType, PlaneAssumption DEF MapBounded
<1>4. CASE S # free
  <2>1. Cardinality(InMap(m) \ S) <= MaxSandboxStates
    BY <1>4 DEF Trims
  <2> QED BY <1>2, <2>1
<1> QED BY <1>3, <1>4

LEMMA AcquireFirstInv ==
    ASSUME IInv, NEW c \in Callers, NEW s \in Sandboxes, AcquireFirst(c, s)
    PROVE  IInv'
<1> USE DEF AcquireFirst
<1>1. PICK o : o = CHOOSE x \in States : x \in Unmade
  OBVIOUS
<1>2. o \in States /\ made[o] = None /\ pending[o] = None
  BY <1>1 DEF IInv, TypeOK, MadeFirst, Unmade
<1>3. PICK m : m = [states EXCEPT ![s] = o]
  OBVIOUS
<1>4. PICK ord : ord = Youngest(m, order, s)
  OBVIOUS
<1>5. /\ made' = [made EXCEPT ![o] = s]
      /\ stateOf' = [stateOf EXCEPT ![c] = o]
      /\ EnsureCredential(c, o)
      /\ UNCHANGED <<deferred, stale, mode, retries>>
  BY <1>1
<1>6. PICK S \in Trims(m, ord, pending) : Drop(S, m, ord, {})
  BY <1>1, <1>3, <1>4
<1>7. /\ m \in [Sandboxes -> States \cup {None}] /\ S \in SUBSET InMap(m)
      /\ InMap(m) = InMap(states) \cup {s} /\ Mapped(m) \subseteq Mapped(states) \cup {o}
      /\ Mapped(states) \cup {o} \subseteq Mapped(m)
      /\ m[s] = o /\ \A q \in Sandboxes \ {s} : m[q] = states[q]
  <2>1. m \in [Sandboxes -> States \cup {None}] /\ m[s] = o /\ states[s] = None
    BY <1>2, <1>3 DEF IInv, TypeOK
  <2>2. \A r \in Sandboxes \ {s} : m[r] = states[r]
    BY <1>3 DEF IInv, TypeOK
  <2> QED BY <1>2, <1>6, <2>1, <2>2, PlaneAssumption DEF InMap, Mapped, Trims
<1>8. cred' = cred /\ cred \in [States -> Keys \cup {None}]
  BY <1>2, <1>5, EnsureFacts DEF IInv, TypeOK
<1>9. /\ issue' \in [Keys -> {"unused", "pending"} \cup Answers]
      /\ owner' \in [Keys -> States \cup {None}]
      /\ pending' \in [States -> Keys \cup {None}]
      /\ waits' \in [Callers -> Keys \cup {None}]
      /\ at' = [at EXCEPT ![c] = "credential"]
      /\ RequestsMatch'
  BY <1>2, <1>5, EnsureFacts
<1>10. /\ states' \in [Sandboxes -> States \cup {None}]
       /\ InMap(states') = InMap(m) \ S
       /\ Mapped(states') \subseteq Mapped(m)
       /\ order' \subseteq ord
       /\ raced' \subseteq States
       /\ \A q \in InMap(states') : q \in InMap(m) /\ states'[q] = m[q]
       /\ P!IInv'
  <2>1. cred' \in [States -> Keys \cup {None}]
    BY <1>8
  <2>2. P!IInv'
    BY <1>6, <1>7, <2>1, DropPoolInv
  <2> QED BY <1>6, <1>7, <2>2, DropMap
<1>11. TypeOK'
  <2>1. ord \in SUBSET (Sandboxes \X Sandboxes)
    BY <1>4 DEF IInv, TypeOK, Youngest, Left, InMap
  <2>2. Pool!TypeOK'
    BY <1>10, PoolTypes DEF P!IInv
  <2>3. made' \in [States -> Sandboxes \cup {None}]
    BY <1>2, <1>5 DEF IInv, TypeOK
  <2>4. at' \in [Callers -> {"idle", "credential", "delay", "connecting",
                             "leased", "gateway", "failed", "done"}]
        /\ stateOf' \in [Callers -> States \cup {None}]
    BY <1>2, <1>5, <1>9 DEF IInv, TypeOK
  <2> HIDE DEF AcquireFirst
  <2> QED BY <1>5, <1>8, <1>9, <1>10, <2>1, <2>2, <2>3, <2>4 DEF IInv, TypeOK
<1>12. \A k \in Keys : issue[k] # "unused" => issue'[k] = issue[k] /\ owner'[k] = owner[k]
  BY <1>2, <1>5, EnsureFacts
<1>13. CachedWereIssued'
  BY <1>8, <1>12 DEF IInv, TypeOK, CachedWereIssued
<1>14. MadeFirst'
  <2>1. \A p \in States : pending'[p] # None => pending[p] # None \/ p = o
    BY <1>2, <1>5, EnsureFacts
  <2>2. /\ made'[o] = s /\ s # None
        /\ \A p \in States : made[p] # None => made'[p] = made[p]
    BY <1>2, <1>5, PlaneAssumption DEF IInv, TypeOK
  <2>3. \A p \in States : pending'[p] # None => made'[p] # None
    BY <2>1, <2>2 DEF IInv, MadeFirst
  <2>4. \A q \in InMap(states') : made'[states'[q]] = q
    <3> SUFFICES ASSUME NEW q \in InMap(states') PROVE made'[states'[q]] = q
      OBVIOUS
    <3>1. q \in InMap(m) /\ states'[q] = m[q]
      BY <1>10
    <3>2. CASE q = s
      BY <1>7, <2>2, <3>1, <3>2
    <3>3. CASE q # s
      <4>1. q \in InMap(states) /\ m[q] = states[q]
        BY <1>7, <3>1, <3>3 DEF InMap
      <4>2. states[q] \in States /\ made[states[q]] = q /\ q # None
        BY <4>1, PlaneAssumption DEF IInv, TypeOK, MadeFirst, InMap
      <4> QED BY <2>2, <3>1, <4>1, <4>2
    <3> QED BY <3>2, <3>3
  <2>5. \A d \in Callers : at'[d] \in {"credential", "delay"} =>
           stateOf'[d] \in States /\ made'[stateOf'[d]] # None
    <3> HIDE DEF AcquireFirst
    <3> QED BY <1>2, <1>5, <1>9, <2>2 DEF IInv, TypeOK, MadeFirst
  <2> QED BY <2>3, <2>4, <2>5 DEF MadeFirst
<1>15. NeededAreKnown' /\ PooledAreOwned'
  <2>1. ASSUME NEW d \in Callers, at'[d] \in {"credential", "delay"}
        PROVE  stateOf'[d] \in Mapped(m) \cup raced
    BY <1>5, <1>7, <1>9, <2>1 DEF IInv, TypeOK, NeededAreKnown
  <2>2. ASSUME NEW k \in Keys, entries[k] # None
        PROVE  /\ owner'[k] \in States /\ cred'[owner'[k]] = k
               /\ owner'[k] \in Mapped(m) \cup raced
    <3>1. issue[k] # "unused"
      BY <2>2, PlaneAssumption DEF IInv, PooledAreOwned, CachedWereIssued
    <3> QED BY <1>7, <1>8, <1>12, <2>2, <3>1 DEF IInv, PooledAreOwned
  <2> QED BY <1>6, <1>7, <1>8, <2>1, <2>2, DropKeeps
<1>16. WaitsAreCurrent'
  <2>1. /\ \A d \in Callers \ {c} : waits'[d] = waits[d]
        /\ waits'[c] \in Keys /\ owner'[waits'[c]] = o /\ issue'[waits'[c]] # "unused"
        /\ issue'[waits'[c]] \in {"ok", "ungranted"} => cred[o] = waits'[c]
    BY <1>2, <1>5, EnsureFacts
  <2> HIDE DEF AcquireFirst
  <2> QED BY <1>5, <1>8, <1>9, <1>12, <2>1 DEF IInv, TypeOK, WaitsAreCurrent
<1>17. MapBounded'
  <2>1. m[s] # None /\ pending[m[s]] = None
    BY <1>2, <1>3, PlaneAssumption DEF IInv, TypeOK
  <2>2. MapBounded /\ InMap(m) = InMap(states) \cup {s}
    BY <1>7 DEF IInv
  <2>3. IsFiniteSet(InMap(m) \ S) /\ Cardinality(InMap(m) \ S) <= MaxSandboxStates
    BY <1>6, <2>1, <2>2, TrimsBound
  <2> QED BY <1>10, <2>3 DEF MapBounded
<1> QED BY <1>9, <1>10, <1>11, <1>13, <1>14, <1>15, <1>16, <1>17 DEF IInv

LEMMA DiscardSandboxInv ==
    ASSUME IInv, NEW s \in Sandboxes, DiscardSandbox(s)
    PROVE  IInv'
<1>1. PICK m : m = states
  OBVIOUS
<1>2. PICK ord : ord = order
  OBVIOUS
<1>3. /\ Drop({s}, m, ord, {})
      /\ m \in [Sandboxes -> States \cup {None}] /\ {s} \in SUBSET InMap(m)
      /\ UNCHANGED <<made, credVars, deferred, stale, callVars>>
  BY <1>1, <1>2 DEF DiscardSandbox, IInv, TypeOK, InMap
<1>4. cred' \in [States -> Keys \cup {None}]
  BY <1>3 DEF IInv, TypeOK, credVars
<1>5. P!IInv'
  BY <1>3, <1>4, DropPoolInv
<1>6. /\ states' \in [Sandboxes -> States \cup {None}]
      /\ InMap(states') = InMap(m) \ {s}
      /\ Mapped(states') \subseteq Mapped(m)
      /\ order' \subseteq ord /\ raced' \subseteq States
      /\ \A q \in InMap(states') : q \in InMap(m) /\ states'[q] = m[q]
  BY <1>3, DropMap
<1>7. TypeOK'
  BY <1>2, <1>3, <1>5, <1>6, PoolTypes DEF IInv, TypeOK, P!IInv, credVars, callVars
<1>8. RequestsMatch' /\ CachedWereIssued'
  BY <1>3 DEF IInv, RequestsMatch, CachedWereIssued, credVars
<1>9. MadeFirst' /\ WaitsAreCurrent'
  <2>1. \A q \in InMap(states') : made'[states'[q]] = q
    BY <1>1, <1>3, <1>6 DEF IInv, MadeFirst
  <2> QED BY <1>3, <2>1 DEF IInv, MadeFirst, WaitsAreCurrent, credVars, callVars
<1>10. NeededAreKnown' /\ PooledAreOwned'
  <2>1. ASSUME NEW c \in Callers, at'[c] \in {"credential", "delay"}
        PROVE  stateOf'[c] \in Mapped(m) \cup raced
    BY <1>1, <1>3, <2>1 DEF IInv, NeededAreKnown, callVars
  <2>2. ASSUME NEW k \in Keys, entries[k] # None
        PROVE  /\ owner'[k] \in States /\ cred'[owner'[k]] = k
               /\ owner'[k] \in Mapped(m) \cup raced
    BY <1>1, <1>3, <2>2 DEF IInv, PooledAreOwned, credVars
  <2> QED BY <1>3, <1>4, <2>1, <2>2, DropKeeps
<1>11. MapBounded'
  BY <1>1, <1>6, FS_Subset, FS_CardinalityType, PlaneAssumption DEF IInv, MapBounded
<1> QED BY <1>5, <1>7, <1>8, <1>9, <1>10, <1>11 DEF IInv

LEMMA IssueSettlesInv ==
    ASSUME IInv, NEW k \in Keys, IssueSettles(k)
    PROVE  IInv'
<1> USE DEF IssueSettles
<1>1. PICK o \in States : o = owner[k] /\ pending[o] = k
  BY DEF IInv, RequestsMatch
<1>2. PICK a \in Answers : issue' = [issue EXCEPT ![k] = a]
  OBVIOUS
<1>3. /\ issue[k] = "pending"
      /\ pending' = [pending EXCEPT ![o] = None]
      /\ cred' = IF a \in {"ok", "ungranted"} THEN [cred EXCEPT ![o] = k] ELSE cred
      /\ UNCHANGED <<callVars, made, owner, deferred, stale>>
      /\ Quiet
  BY <1>1, <1>2 DEF IInv, TypeOK
<1>4. PICK K : K = IF cred'[o] = cred[o] THEN {} ELSE {cred[o]} \ {None}
  OBVIOUS
<1>5. PICK m : m = states
  OBVIOUS
<1>6. PICK ord : ord = order
  OBVIOUS
<1>7. PICK S \in SUBSET InMap(m) : Drop(S, m, ord, K)
  BY <1>1, <1>4, <1>5, <1>6 DEF Trims
<1>8. /\ m \in [Sandboxes -> States \cup {None}]
      /\ cred' \in [States -> Keys \cup {None}]
      /\ K \in SUBSET Keys
  <2>1. cred[o] \in Keys \cup {None}
    BY DEF IInv, TypeOK
  <2>2. K \in SUBSET Keys
    BY <1>4, <2>1
  <2>3. [cred EXCEPT ![o] = k] \in [States -> Keys \cup {None}]
    BY DEF IInv, TypeOK
  <2>4. cred \in [States -> Keys \cup {None}] /\ m \in [Sandboxes -> States \cup {None}]
    BY <1>5 DEF IInv, TypeOK
  <2> QED BY <1>3, <2>2, <2>3, <2>4
<1>9. P!IInv'
  BY <1>7, <1>8, DropPoolInv
<1>10. /\ states' \in [Sandboxes -> States \cup {None}]
       /\ InMap(states') = InMap(m) \ S
       /\ Mapped(states') \subseteq Mapped(m)
       /\ order' \subseteq ord /\ raced' \subseteq States
       /\ \A q \in InMap(states') : q \in InMap(m) /\ states'[q] = m[q]
  BY <1>7, <1>8, DropMap
<1>11. TypeOK'
  <2>1. issue' \in [Keys -> {"unused", "pending"} \cup Answers]
    BY <1>2 DEF IInv, TypeOK
  <2> QED BY <1>3, <1>6, <1>8, <1>9, <1>10, <2>1, PoolTypes DEF IInv, TypeOK, P!IInv, callVars
<1>12. RequestsMatch'
  BY <1>1, <1>2, <1>3, PlaneAssumption DEF IInv, TypeOK, RequestsMatch, Answers
<1>13. CachedWereIssued'
  BY <1>1, <1>2, <1>3, PlaneAssumption DEF IInv, TypeOK, CachedWereIssued
<1>14. MadeFirst'
  <2>1. \A q \in InMap(states') : made'[states'[q]] = q
    BY <1>3, <1>5, <1>10 DEF IInv, MadeFirst
  <2>2. \A p \in States : pending'[p] # None => pending[p] # None
    BY <1>3 DEF IInv, TypeOK
  <2> QED BY <1>3, <2>1, <2>2 DEF IInv, MadeFirst, callVars
\* Nobody was waiting to be resumed, so whoever is now waits for this answer.
<1>15. WaitsAreCurrent'
  <2> SUFFICES ASSUME NEW c \in Callers, at[c] = "credential"
               PROVE  /\ waits[c] \in Keys
                      /\ owner[waits[c]] = stateOf[c]
                      /\ issue'[waits[c]] # "unused"
                      /\ issue'[waits[c]] \in {"ok", "ungranted"} => cred'[stateOf[c]] = waits[c]
    BY <1>3 DEF WaitsAreCurrent, callVars
  <2>1. waits[c] \in Keys /\ owner[waits[c]] = stateOf[c] /\ issue[waits[c]] = "pending"
    BY <1>3 DEF IInv, WaitsAreCurrent, Quiet, Resumable
  <2> QED BY <1>1, <1>2, <1>3, <2>1 DEF IInv, TypeOK, Answers
<1>16. NeededAreKnown' /\ PooledAreOwned'
  <2>1. ASSUME NEW c \in Callers, at'[c] \in {"credential", "delay"}
        PROVE  stateOf'[c] \in Mapped(m) \cup raced
    BY <1>3, <1>5, <2>1 DEF IInv, NeededAreKnown, callVars
  <2>2. ASSUME NEW j \in Keys \ K, entries[j] # None
        PROVE  /\ owner'[j] \in States /\ cred'[owner'[j]] = j
               /\ owner'[j] \in Mapped(m) \cup raced
    <3>1. owner[j] \in States /\ cred[owner[j]] = j /\ owner[j] \in Mapped(m) \cup raced
      BY <1>5, <2>2 DEF IInv, PooledAreOwned
    <3>2. owner[j] = o => cred'[o] = cred[o]
      BY <1>4, <2>2, <3>1, PlaneAssumption
    <3> QED BY <1>3, <3>1, <3>2 DEF IInv, TypeOK
  <2> QED BY <1>7, <1>8, <2>1, <2>2, DropKeeps
<1>17. MapBounded'
  BY <1>5, <1>10, FS_Subset, FS_CardinalityType, PlaneAssumption DEF IInv, MapBounded
<1> QED BY <1>9, <1>11, <1>12, <1>13, <1>14, <1>15, <1>16, <1>17 DEF IInv

LEMMA RetryNowInv ==
    ASSUME IInv, NEW c \in Callers, RetryNow(c)
    PROVE  IInv'
<1> USE DEF RetryNow
<1>1. PICK o \in States : o = stateOf[c] /\ made[o] # None /\ o \in Mapped(states) \cup raced
  BY DEF IInv, TypeOK, MadeFirst, NeededAreKnown
<1>2. EnsureCredential(c, o) /\ UNCHANGED <<mapVars, deferred, stale, mode, stateOf, retries, poolVars>>
  BY <1>1
<1>3. P!IInv'
  BY <1>2, PoolInv DEF IInv
<1>4. /\ Mapped(states') = Mapped(states) /\ InMap(states') = InMap(states)
      /\ MapBounded' /\ entries' = entries
  BY <1>2 DEF Mapped, InMap, IInv, MapBounded, mapVars, poolVars
<1>5. TypeOK'
  <2>1. /\ issue' \in [Keys -> {"unused", "pending"} \cup Answers]
        /\ owner' \in [Keys -> States \cup {None}]
        /\ pending' \in [States -> Keys \cup {None}]
        /\ waits' \in [Callers -> Keys \cup {None}]
        /\ at' = [at EXCEPT ![c] = "credential"] /\ cred' = cred
    BY <1>2, EnsureFacts
  <2>2. Pool!TypeOK'
    BY <1>3, PoolTypes DEF P!IInv
  <2> QED BY <1>2, <2>1, <2>2 DEF IInv, TypeOK, mapVars
<1>6. RequestsMatch' /\ CachedWereIssued'
  BY <1>2, EnsureFacts DEF IInv, TypeOK, CachedWereIssued
<1>7. MadeFirst' /\ NeededAreKnown'
  BY <1>1, <1>2, <1>4, EnsureFacts DEF IInv, TypeOK, MadeFirst, NeededAreKnown, mapVars
<1>8. WaitsAreCurrent'
  BY <1>1, <1>2, EnsureFacts DEF IInv, TypeOK, WaitsAreCurrent
<1>9. PooledAreOwned'
  <2>1. cred' = cred /\ \A k \in Keys : issue[k] # "unused" => owner'[k] = owner[k]
    BY <1>2, EnsureFacts
  <2>2. \A k \in Keys : entries[k] # None => issue[k] # "unused"
    BY PlaneAssumption DEF IInv, PooledAreOwned, CachedWereIssued
  <2> QED BY <1>2, <1>4, <2>1, <2>2 DEF IInv, PooledAreOwned, mapVars
<1> QED BY <1>3, <1>4, <1>5, <1>6, <1>7, <1>8, <1>9 DEF IInv

\* The acquisition that goes on to the pool has the current credential of a
\* state that the Map has or that was dropped while it waited.
LEMMA ConnectInv ==
    ASSUME IInv, NEW c \in Callers, Connect(c)
    PROVE  IInv'
<1> USE DEF Connect
<1>1. PICK k \in Keys : /\ k = waits[c] /\ owner[k] = stateOf[c] /\ issue[k] = "ok"
                         /\ cred[owner[k]] = k
                         /\ owner[k] \in States
                         /\ owner[k] \in Mapped(states) \cup raced
  BY DEF Resumable, IInv, TypeOK, WaitsAreCurrent, NeededAreKnown, MadeFirst
<1>2. /\ UNCHANGED <<mapVars, credVars, deferred, stale, mode, stateOf, waits, retries>>
      /\ at' = [at EXCEPT ![c] = "connecting"]
      /\ \/ Pool!AcquirePooled(c, k)
         \/ \E e \in Entries : Pool!AcquireNew(c, k, e)
  BY <1>1
<1>3. P!IInv'
  <2>1. Pool!Next
    BY <1>2 DEF Pool!Next
  <2> QED BY <2>1, PoolInv DEF IInv
<1>4. /\ Mapped(states') = Mapped(states) /\ InMap(states') = InMap(states)
      /\ MapBounded'
  BY <1>2 DEF Mapped, InMap, IInv, MapBounded, mapVars
<1>5. TypeOK'
  <2>1. Pool!TypeOK'
    BY <1>3, PoolTypes DEF P!IInv
  <2> QED BY <1>2, <2>1 DEF IInv, TypeOK, mapVars, credVars
<1>6. RequestsMatch' /\ CachedWereIssued'
  BY <1>2 DEF IInv, RequestsMatch, CachedWereIssued, credVars
<1>7. MadeFirst' /\ NeededAreKnown' /\ WaitsAreCurrent'
  BY <1>2, <1>4 DEF IInv, TypeOK, MadeFirst, NeededAreKnown, WaitsAreCurrent, mapVars, credVars
<1>8. PooledAreOwned'
  <2>1. \A j \in Keys \ {k} : entries'[j] = entries[j]
    BY <1>2 DEF Pool!AcquirePooled, Pool!AcquireNew, IInv, TypeOK, Pool!TypeOK
  <2> QED BY <1>1, <1>2, <1>4, <2>1 DEF IInv, PooledAreOwned, mapVars, credVars
<1> QED BY <1>3, <1>4, <1>5, <1>6, <1>7, <1>8 DEF IInv

\* The other steps of an acquisition.
LEMMA CallerInv ==
    ASSUME IInv, NEW c \in Callers,
           \/ ConnectThrows(c) \/ Ungranted(c) \/ RetryLater(c) \/ IssueFails(c)
           \/ IssueRefused(c) \/ CredentialTimesOut(c) \/ Aborts(c) \/ Leased(c)
           \/ ConnectFails(c) \/ ConnectAborts(c) \/ Release(c) \/ DiscardLease(c)
    PROVE  IInv'
<1> DEFINE Ends == {"idle", "connecting", "leased", "gateway", "failed", "done"}
<1>1. /\ UNCHANGED <<mapVars, credVars, stale, mode, stateOf, waits>>
      /\ deferred' \in [States -> BOOLEAN]
      /\ retries' \in [Callers -> 0..MaxRetries]
  <2>1. RetryLater(c) => retries' \in [Callers -> 0..MaxRetries]
    BY PlaneAssumption DEF RetryLater, Retryable, IInv, TypeOK
  <2> QED BY <2>1 DEF ConnectThrows, Ungranted, RetryLater, IssueFails, IssueRefused,
             CredentialTimesOut, Aborts, Leased, ConnectFails, ConnectAborts, Release,
             DiscardLease, CoolDown, callVars, IInv, TypeOK
<1>2. \/ \E x \in Ends : at' = [at EXCEPT ![c] = x]
      \/ at' = [at EXCEPT ![c] = "delay"] /\ at[c] = "credential"
      \/ at' = at
  BY DEF ConnectThrows, Ungranted, RetryLater, IssueFails, IssueRefused, Resumable,
         CredentialTimesOut, Aborts, Leased, ConnectFails, ConnectAborts, Release,
         DiscardLease, GiveUp, callVars
<1>3. /\ at' \in [Callers -> {"idle", "credential", "delay", "connecting",
                              "leased", "gateway", "failed", "done"}]
      /\ \A d \in Callers : at'[d] = "credential" => at[d] = "credential"
      /\ \A d \in Callers : at'[d] = "delay" => at[d] \in {"credential", "delay"}
  BY <1>2 DEF IInv, TypeOK
<1>4. Pool!Next \/ UNCHANGED poolVars
  <2>1. ConnectThrows(c) => Pool!Next
    BY DEF ConnectThrows, Resumable, IInv, WaitsAreCurrent, Pool!Next
  <2> QED BY <2>1 DEF Ungranted, RetryLater, IssueFails, IssueRefused,
             CredentialTimesOut, Aborts, Leased, ConnectFails, ConnectAborts, Release,
             DiscardLease, Pool!Next
<1>5. P!IInv'
  BY <1>4, PoolInv DEF IInv
<1>6. \A k \in Keys : entries'[k] \in {entries[k], None}
  <2>1. ASSUME NEW discard \in BOOLEAN, Pool!Release(c, discard)
        PROVE  \A k \in Keys : entries'[k] \in {entries[k], None}
    BY <2>1 DEF Pool!Release, Pool!ReleaseEntry, IInv, TypeOK, Pool!TypeOK
  <2>2. DiscardLease(c) => \A k \in Keys : entries'[k] \in {entries[k], None}
    BY DEF DiscardLease, Pool!DiscardLease, Pool!DiscardEntry, Pool!mapVars, IInv, TypeOK,
           Pool!TypeOK
  <2>3. ConnectThrows(c) \/ Leased(c) => entries' = entries
    BY DEF ConnectThrows, Leased, Pool!AcquireThrows, Pool!Connected, Pool!mapVars
  <2> QED BY <2>1, <2>2, <2>3 DEF Ungranted, RetryLater, IssueFails, IssueRefused,
             CredentialTimesOut, Aborts, ConnectFails, ConnectAborts, Release,
             Pool!ConnectFails, Pool!ReleaseHeld, poolVars
<1> QED BY <1>1, <1>3, <1>5, <1>6, LeaveInv DEF IInv, TypeOK

LEMMA EnvironmentInv ==
    ASSUME IInv,
           \/ \E e \in Entries : ChannelSettles(e)
           \/ \E k \in Keys : Expire(k)
           \/ \E o \in States : CoolDownEnds(o)
           \/ UNCHANGED vars
    PROVE  IInv'
<1>1. Pool!Next \/ UNCHANGED poolVars
  BY DEF ChannelSettles, Expire, CoolDownEnds, vars, poolVars, Pool!Next
<1>2. P!IInv'
  BY <1>1, PoolInv DEF IInv
<1>3. entries' = entries
  BY DEF ChannelSettles, Expire, CoolDownEnds, vars, poolVars, Pool!ChannelSettles, Pool!mapVars
<1>4. /\ UNCHANGED <<mapVars, credVars, callVars>>
      /\ deferred' \in [States -> BOOLEAN] /\ stale' \in SUBSET Keys
  BY DEF ChannelSettles, Expire, CoolDownEnds, vars, IInv, TypeOK
<1> QED BY <1>2, <1>3, <1>4, LeaveInv DEF callVars, IInv, TypeOK

LEMMA NextInv == IInv /\ [Next]_vars => IInv'
BY AcquireKnownInv, AcquireFirstInv, DiscardSandboxInv, IssueSettlesInv, RetryNowInv,
   ConnectInv, CallerInv, EnvironmentInv DEF Next, Resume

\* The states, the credentials, the waits and the pool fit together at all times.
THEOREM Invariance == Spec => []IInv
BY InitInv, NextInv, PTL DEF Spec

----------------------------------------------------------------------------
(* What the data plane guarantees.                                          *)

\* Every variable of the plane and of its pool keeps its type, so no lookup of a
\* state, a credential or an entry meets one that does not exist.
THEOREM TypeCorrect == Spec => []TypeOK
<1>1. IInv => TypeOK
  BY DEF IInv
<1> QED BY <1>1, Invariance, PTL

\* No channel that stays in the pool belongs to a replaced credential or to a
\* sandbox that is gone, but for the races with an acquisition that was already
\* waiting; and the pool keeps its promises under the callers of the plane.
THEOREM PoolCurrent == Spec => []PooledIsCurrent
<1>1. IInv => PoolSafe
  <2> SUFFICES ASSUME IInv PROVE PoolSafe
    OBVIOUS
  <2>1. P!ActiveNeverClosed /\ P!NoChannelLeaks /\ P!LeasesCounted
    BY PlaneAssumption, P!UsedAreOpen, P!UnusedAreKept DEF IInv, P!IInv
  <2> QED BY <2>1, PoolSets DEF PoolSafe, Pool!ActiveNeverClosed, P!ActiveNeverClosed,
             Pool!NoChannelLeaks, P!NoChannelLeaks, Pool!LeasesCounted, P!LeasesCounted,
             Pool!Users, P!Users, Pool!Using, P!Using, Pool!Pooled, P!Pooled
<1>2. IInv => PooledIsCurrent
  BY <1>1 DEF IInv, PooledAreOwned, PooledIsCurrent
<1> QED BY <1>2, Invariance, PTL

\* A state has one credential request under way at most, acquisitions of one
\* sandbox await the same request unless the state of one was dropped while it
\* was needed, and the Map keeps to its bound: ensureCredential(), stateFor() and
\* trimStates().
THEOREM StatesAreShared == Spec => []StatesShared
<1>1. IInv => OneRequestPerState
  BY DEF IInv, RequestsMatch, OneRequestPerState
<1>2. IInv => OneRequestPerSandbox
  <2> SUFFICES ASSUME IInv, NEW c \in Callers, NEW d \in Callers,
                      AwaitsRequest(c), AwaitsRequest(d), made[stateOf[c]] = made[stateOf[d]],
                      stateOf[c] \notin raced, stateOf[d] \notin raced
               PROVE  waits[c] = waits[d]
    BY DEF OneRequestPerSandbox
  <2>1. /\ waits[c] \in Keys /\ owner[waits[c]] = stateOf[c]
        /\ waits[d] \in Keys /\ owner[waits[d]] = stateOf[d]
        /\ issue[waits[c]] = "pending" /\ issue[waits[d]] = "pending"
    BY DEF AwaitsRequest, IInv, WaitsAreCurrent
  <2>2. stateOf[c] \in Mapped(states) /\ stateOf[d] \in Mapped(states)
    BY DEF AwaitsRequest, IInv, NeededAreKnown
  <2>3. PICK r \in InMap(states) : states[r] = stateOf[c]
    BY <2>2 DEF Mapped
  <2>4. PICK s \in InMap(states) : states[s] = stateOf[d]
    BY <2>2 DEF Mapped
  <2>5. stateOf[c] = stateOf[d]
    BY <2>3, <2>4 DEF IInv, MadeFirst
  <2> QED BY <2>1, <2>5 DEF IInv, RequestsMatch
<1>3. IInv => StatesShared
  BY <1>1, <1>2 DEF IInv, MapBounded, StatesShared
<1> QED BY <1>3, Invariance, PTL
=============================================================================
