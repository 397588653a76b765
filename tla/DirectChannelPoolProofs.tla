----------------------- MODULE DirectChannelPoolProofs -----------------------
(***************************************************************************)
(* The pool's safety properties, for every set of keys, channels and       *)
(* callers and every idle limit.  The inductive invariant adds to the      *)
(* properties what ties the map, the counters and the closures together.   *)
(***************************************************************************)
EXTENDS DirectChannelPool, FiniteSetTheorems, TLAPS

\* A call's closure captured an entry that exists, under its one key.
LeasesKnown ==
    \A l \in Leases : leaseEntry[l] # None =>
        /\ ready[leaseEntry[l]] # "unmade"
        /\ leaseKey[l] \in Keys
        /\ \A k \in Keys : entries[k] = leaseEntry[l] => k = leaseKey[l]

UsersHaveEntries == \A l \in Leases : Using(l) => leaseEntry[l] # None

UnmadeAreUntouched ==
    \A e \in Entries : ready[e] = "unmade" => ~Pooled(e) /\ ~closed[e] /\ ~discardWhenIdle[e]

OneKeyPerEntry ==
    \A j, k \in Keys : entries[j] # None /\ entries[j] = entries[k] => j = k

\* Closing by the counter rather than by the callers.
ClosedByCount ==
    \A e \in Entries :
        /\ closed[e] => activeLeases[e] = 0
        /\ discardWhenIdle[e] /\ activeLeases[e] = 0 => closed[e]
        /\ ready[e] # "unmade" => closed[e] \/ discardWhenIdle[e] \/ Pooled(e)

MapFinite == IsFiniteSet(Held(entries))

IInv ==
    /\ TypeOK
    /\ LeasesCounted
    /\ LeasesKnown
    /\ UsersHaveEntries
    /\ UnmadeAreUntouched
    /\ OneKeyPerEntry
    /\ ClosedByCount
    /\ PooledAreUsable
    /\ MapFinite
    /\ IdleBounded

----------------------------------------------------------------------------
(* Counting.                                                                *)

\* A caller counted in the entry makes its counter positive.
LEMMA UserCounted ==
    ASSUME LeasesCounted, TypeOK, NEW e \in Entries, NEW l \in Users(e)
    PROVE  activeLeases[e] > 0
<1>1. IsFiniteSet(Users(e)) /\ activeLeases[e] = Cardinality(Users(e))
  BY DEF LeasesCounted
<1>2. Cardinality(Users(e)) # 0
  BY <1>1, FS_EmptySet
<1>3. activeLeases[e] \in Nat
  BY DEF TypeOK
<1> QED BY <1>1, <1>2, <1>3

\* A finite set that shrinks stays within its bound.
LEMMA SubsetBounded ==
    ASSUME NEW S, NEW T \in SUBSET S, IsFiniteSet(S), Cardinality(S) <= MaxIdleChannels
    PROVE  Cardinality(T) <= MaxIdleChannels
<1>1. IsFiniteSet(T) /\ Cardinality(T) <= Cardinality(S)
  BY FS_Subset
<1>2. Cardinality(S) \in Nat /\ Cardinality(T) \in Nat
  BY <1>1, FS_CardinalityType
<1> QED BY <1>1, <1>2, MaxIdleAssumption

\* The idle keys of a finite map are finite.
LEMMA IdleFinite ==
    ASSUME NEW m, NEW active, IsFiniteSet(Held(m))
    PROVE  IsFiniteSet(Idle(m, active))
<1>1. Idle(m, active) \subseteq Held(m)
  BY DEF Idle
<1> QED BY <1>1, FS_Subset

\* Whatever eviction chooses, at most maxIdleChannels idle keys stay.
LEMMA EvictionBounds ==
    ASSUME NEW m, NEW order, NEW active, IsFiniteSet(Held(m)),
           NEW E \in Evictions(m, order, active)
    PROVE  /\ E \subseteq Idle(m, active)
           /\ Cardinality(Idle(m, active) \ E) <= MaxIdleChannels
<1>1. IsFiniteSet(Idle(m, active))
  BY IdleFinite
<1>2. Cardinality(Idle(m, active)) \in Nat
  BY <1>1, FS_CardinalityType
<1>3. E \subseteq Idle(m, active)
  BY DEF Evictions
<1>4. CASE Cardinality(Idle(m, active)) <= MaxIdleChannels
  <2>1. E = {}
    BY <1>4 DEF Evictions
  <2>2. Idle(m, active) \ E = Idle(m, active)
    BY <2>1
  <2> QED BY <2>2, <1>3, <1>4
<1>5. CASE ~(Cardinality(Idle(m, active)) <= MaxIdleChannels)
  <2>1. Cardinality(Idle(m, active) \ E) = MaxIdleChannels
    BY <1>5 DEF Evictions
  <2> QED BY <2>1, <1>3, MaxIdleAssumption
<1> QED BY <1>4, <1>5

\* A call that joins entry e adds one user to it and to no other entry.
LEMMA JoinCounted ==
    ASSUME TypeOK, LeasesCounted, NEW l \in Leases, NEW e \in Entries,
           leaseState[l] = "none",
           leaseState' = [leaseState EXCEPT ![l] = "connecting"],
           leaseEntry' = [leaseEntry EXCEPT ![l] = e],
           activeLeases' = [activeLeases EXCEPT ![e] = @ + 1]
    PROVE  LeasesCounted'
<1> SUFFICES ASSUME NEW f \in Entries
             PROVE  IsFiniteSet(Users(f)') /\ activeLeases'[f] = Cardinality(Users(f)')
  BY DEF LeasesCounted
<1>1. IsFiniteSet(Users(f)) /\ activeLeases[f] = Cardinality(Users(f))
  BY DEF LeasesCounted
<1>2. CASE f = e
  <2>1. Users(f)' = Users(f) \cup {l}
    BY <1>2 DEF Users, Using, TypeOK
  <2>2. l \notin Users(f)
    BY DEF Users, Using
  <2>3. IsFiniteSet(Users(f) \cup {l}) /\ Cardinality(Users(f) \cup {l}) = Cardinality(Users(f)) + 1
    BY <1>1, <2>2, FS_AddElement
  <2> QED BY <1>1, <1>2, <2>1, <2>3 DEF TypeOK
<1>3. CASE f # e
  <2>1. Users(f)' = Users(f)
    BY <1>3 DEF Users, Using, TypeOK
  <2> QED BY <1>1, <1>3, <2>1 DEF TypeOK
<1> QED BY <1>2, <1>3

\* A call that leaves its entry removes one user from it and from no other.
LEMMA LeaveCounted ==
    ASSUME TypeOK, LeasesCounted, NEW l \in Leases, Using(l), leaseEntry[l] \in Entries,
           leaseState' = [leaseState EXCEPT ![l] = "released"],
           leaseEntry' = leaseEntry,
           activeLeases' = [activeLeases EXCEPT ![leaseEntry[l]] = activeLeases[leaseEntry[l]] - 1]
    PROVE  LeasesCounted'
<1> SUFFICES ASSUME NEW f \in Entries
             PROVE  IsFiniteSet(Users(f)') /\ activeLeases'[f] = Cardinality(Users(f)')
  BY DEF LeasesCounted
<1>1. IsFiniteSet(Users(f)) /\ activeLeases[f] = Cardinality(Users(f))
  BY DEF LeasesCounted
<1>2. CASE f = leaseEntry[l]
  <2>1. Users(f)' = Users(f) \ {l}
    BY <1>2 DEF Users, Using, TypeOK
  <2>2. l \in Users(f)
    BY <1>2 DEF Users
  <2>3. IsFiniteSet(Users(f) \ {l}) /\ Cardinality(Users(f) \ {l}) = Cardinality(Users(f)) - 1
    BY <1>1, <2>2, FS_RemoveElement
  <2> QED BY <1>1, <1>2, <2>1, <2>3 DEF TypeOK
<1>3. CASE f # leaseEntry[l]
  <2>1. Users(f)' = Users(f)
    BY <1>3 DEF Users, Using, TypeOK
  <2> QED BY <1>1, <1>3, <2>1 DEF TypeOK
<1> QED BY <1>2, <1>3

----------------------------------------------------------------------------
(* The invariant is inductive: one lemma per kind of step.                  *)

LEMMA InitInv == Init => IInv
<1> SUFFICES ASSUME Init PROVE IInv
  OBVIOUS
<1>1. TypeOK
  BY DEF Init, TypeOK, LeaseStates, ReadyStates
<1>2. LeasesCounted
  <2> SUFFICES ASSUME NEW e \in Entries
               PROVE  IsFiniteSet(Users(e)) /\ activeLeases[e] = Cardinality(Users(e))
    BY DEF LeasesCounted
  <2>1. Users(e) = {}
    BY DEF Users, Using, Init
  <2> QED BY <2>1, FS_EmptySet DEF Init
<1>3. Held(entries) = {} /\ Idle(entries, activeLeases) = {}
  BY DEF Init, Held, Idle
<1>4. MapFinite /\ IdleBounded
  BY <1>3, FS_EmptySet, MaxIdleAssumption DEF MapFinite, IdleBounded
<1>5. LeasesKnown /\ UsersHaveEntries
  BY DEF Init, LeasesKnown, UsersHaveEntries, Using
<1>6. UnmadeAreUntouched /\ ClosedByCount
  BY NoneAssumption DEF Init, UnmadeAreUntouched, ClosedByCount, Pooled
<1>7. OneKeyPerEntry /\ PooledAreUsable
  BY DEF Init, OneKeyPerEntry, PooledAreUsable
<1> QED BY <1>1, <1>2, <1>4, <1>5, <1>6, <1>7 DEF IInv

LEMMA AcquirePooledInv ==
    ASSUME IInv, NEW l \in Leases, NEW k \in Keys, AcquirePooled(l, k)
    PROVE  IInv'
<1> DEFINE e == entries[k]
<1> USE DEF AcquirePooled
<1>1. e \in Entries /\ e # None
  BY NoneAssumption DEF IInv, TypeOK
<1>2. TypeOK'
  <2>1. older' \in SUBSET (Keys \X Keys)
    BY DEF IInv, TypeOK, Touched, Without, Held
  <2> QED BY <1>1, <2>1 DEF IInv, TypeOK, LeaseStates
<1>3. LeasesCounted'
  BY <1>1, JoinCounted DEF IInv
<1>4. LeasesKnown'
  BY <1>1 DEF IInv, LeasesKnown, TypeOK, UnmadeAreUntouched, OneKeyPerEntry, Pooled
<1>5. UsersHaveEntries'
  BY <1>1 DEF IInv, UsersHaveEntries, TypeOK, Using
<1>6. UnmadeAreUntouched' /\ OneKeyPerEntry' /\ PooledAreUsable' /\ MapFinite'
  BY DEF IInv, UnmadeAreUntouched, OneKeyPerEntry, PooledAreUsable, MapFinite, Pooled, Held
<1>7. ClosedByCount'
  BY <1>1 DEF IInv, ClosedByCount, TypeOK, PooledAreUsable, Pooled
<1>8. IdleBounded'
  <2>1. Idle(entries', activeLeases') \subseteq Idle(entries, activeLeases)
    BY <1>1 DEF Idle, Held, IInv, TypeOK
  <2>2. IsFiniteSet(Idle(entries, activeLeases))
    BY IdleFinite DEF IInv, MapFinite
  <2> QED BY <2>1, <2>2, SubsetBounded DEF IInv, IdleBounded
<1> QED BY <1>2, <1>3, <1>4, <1>5, <1>6, <1>7, <1>8 DEF IInv

LEMMA AcquireNewInv ==
    ASSUME IInv, NEW l \in Leases, NEW k \in Keys, NEW e \in Entries, AcquireNew(l, k, e)
    PROVE  IInv'
<1> USE DEF AcquireNew
<1>1. /\ e # None
      /\ \A f \in Leases : leaseEntry[f] # e
      /\ \A j \in Keys : entries[j] # e
  BY NoneAssumption DEF IInv, LeasesKnown, UnmadeAreUntouched, Pooled
<1>2. TypeOK'
  <2>1. older' \in SUBSET (Keys \X Keys)
    BY DEF IInv, TypeOK, Touched, Without, Held
  <2> QED BY <2>1 DEF IInv, TypeOK, LeaseStates, ReadyStates
<1>3. activeLeases[e] = 0
  <2>1. Users(e) = {}
    BY <1>1 DEF Users
  <2> QED BY <2>1, FS_EmptySet DEF IInv, LeasesCounted
<1>4. LeasesCounted'
  <2>1. activeLeases' = [activeLeases EXCEPT ![e] = activeLeases[e] + 1]
    BY <1>3
  <2>2. TypeOK /\ LeasesCounted
    BY DEF IInv
  <2> QED BY <2>1, <2>2, JoinCounted
<1>5. LeasesKnown'
  BY <1>1 DEF IInv, LeasesKnown, TypeOK
<1>6. UsersHaveEntries'
  BY <1>1 DEF IInv, UsersHaveEntries, TypeOK, Using
<1>7. UnmadeAreUntouched'
  BY <1>1 DEF IInv, UnmadeAreUntouched, TypeOK, Pooled
<1>8. OneKeyPerEntry'
  BY <1>1 DEF IInv, OneKeyPerEntry, TypeOK
<1>9. PooledAreUsable'
  BY <1>1 DEF IInv, PooledAreUsable, TypeOK, UnmadeAreUntouched
<1>10. ClosedByCount'
  <2> SUFFICES ASSUME NEW f \in Entries
               PROVE  /\ closed'[f] => activeLeases'[f] = 0
                      /\ discardWhenIdle'[f] /\ activeLeases'[f] = 0 => closed'[f]
                      /\ ready'[f] # "unmade" => closed'[f] \/ discardWhenIdle'[f] \/ Pooled(f)'
    BY DEF ClosedByCount
  <2>1. CASE f = e
    <3>1. entries'[k] = f
      BY <2>1 DEF IInv, TypeOK
    <3> QED BY <2>1, <3>1 DEF IInv, UnmadeAreUntouched, TypeOK, Pooled
  <2>2. CASE f # e
    <3>1. Pooled(f) => Pooled(f)'
      BY NoneAssumption DEF Pooled, IInv, TypeOK
    <3>2. ready'[f] = ready[f] /\ activeLeases'[f] = activeLeases[f]
      BY <2>2 DEF IInv, TypeOK
    <3>3. closed' = closed /\ discardWhenIdle' = discardWhenIdle
      OBVIOUS
    <3> QED BY <3>1, <3>2, <3>3 DEF IInv, ClosedByCount
  <2> QED BY <2>1, <2>2
<1>11. MapFinite'
  <2>1. Held(entries') = Held(entries) \cup {k}
    BY <1>1 DEF Held, IInv, TypeOK
  <2> QED BY <2>1, FS_AddElement DEF IInv, MapFinite
<1>12. IdleBounded'
  <2>1. Idle(entries', activeLeases') \subseteq Idle(entries, activeLeases)
    BY <1>1 DEF Idle, Held, IInv, TypeOK
  <2>2. IsFiniteSet(Idle(entries, activeLeases))
    BY IdleFinite DEF IInv, MapFinite
  <2> QED BY <2>1, <2>2, SubsetBounded DEF IInv, IdleBounded
<1> QED BY <1>2, <1>4, <1>5, <1>6, <1>7, <1>8, <1>9, <1>10, <1>11, <1>12 DEF IInv

LEMMA QuietInv ==
    ASSUME IInv, UNCHANGED <<mapVars, entryVars, leaseKey, leaseEntry>>, TypeOK',
           \A e \in Entries : ready'[e] = "unmade" <=> ready[e] = "unmade",
           \A l \in Leases : Using(l)' <=> Using(l)
    PROVE  IInv'
<1> USE DEF mapVars, entryVars
<1>1. LeasesCounted'
  <2> SUFFICES ASSUME NEW e \in Entries
               PROVE  IsFiniteSet(Users(e)') /\ activeLeases'[e] = Cardinality(Users(e)')
    BY DEF LeasesCounted
  <2>1. Users(e)' = Users(e)
    BY DEF Users
  <2> QED BY <2>1 DEF IInv, LeasesCounted
<1>2. LeasesKnown' /\ UsersHaveEntries'
  BY NoneAssumption DEF IInv, TypeOK, LeasesKnown, UsersHaveEntries
<1>3. UnmadeAreUntouched' /\ OneKeyPerEntry' /\ ClosedByCount' /\ PooledAreUsable'
  BY DEF IInv, UnmadeAreUntouched, OneKeyPerEntry, ClosedByCount, PooledAreUsable, Pooled
<1>4. MapFinite' /\ IdleBounded'
  BY DEF IInv, MapFinite, IdleBounded, Held, Idle
<1> QED BY <1>1, <1>2, <1>3, <1>4 DEF IInv

LEMMA AcquireThrowsInv ==
    ASSUME IInv, NEW l \in Leases, NEW k \in Keys, AcquireThrows(l, k)
    PROVE  IInv'
<1>1. TypeOK'
  BY DEF AcquireThrows, mapVars, entryVars, IInv, TypeOK, LeaseStates
<1>2. \A j \in Leases : Using(j)' <=> Using(j)
  BY DEF AcquireThrows, Using, IInv, TypeOK
<1> QED BY <1>1, <1>2, QuietInv DEF AcquireThrows

LEMMA ConnectedInv ==
    ASSUME IInv, NEW l \in Leases, Connected(l)
    PROVE  IInv'
<1>1. TypeOK'
  BY DEF Connected, mapVars, entryVars, IInv, TypeOK, LeaseStates
<1>2. \A j \in Leases : Using(j)' <=> Using(j)
  BY DEF Connected, Using, IInv, TypeOK
<1> QED BY <1>1, <1>2, QuietInv DEF Connected

LEMMA ChannelSettlesInv ==
    ASSUME IInv, NEW e \in Entries, ChannelSettles(e)
    PROVE  IInv'
<1>1. TypeOK'
  BY DEF ChannelSettles, mapVars, entryVars, leaseVars, IInv, TypeOK, ReadyStates
<1>2. \A f \in Entries : ready'[f] = "unmade" <=> ready[f] = "unmade"
  BY DEF ChannelSettles, IInv, TypeOK
<1>3. \A l \in Leases : Using(l)' <=> Using(l)
  BY DEF ChannelSettles, leaseVars, Using
<1> QED BY <1>1, <1>2, <1>3, QuietInv DEF ChannelSettles, leaseVars

LEMMA ReleaseInv ==
    ASSUME IInv, NEW l \in Leases, Using(l), NEW discard \in BOOLEAN, Release(l, discard)
    PROVE  IInv'
<1> DEFINE k == leaseKey[l]
           e == leaseEntry[l]
           left == Left(e)
           doom == Doomed(e, discard)
           last == left = 0 /\ doom
           drop == entries[k] = e /\ (discard \/ last)
           m == IF drop THEN [entries EXCEPT ![k] = None] ELSE entries
           order == IF drop THEN Without(older, {k})
                    ELSE IF entries[k] = e THEN Touched(entries, older, k)
                    ELSE older
           act == [activeLeases EXCEPT ![e] = left]
<1>1. /\ e \in Entries /\ e # None /\ k \in Keys
      /\ \A j \in Keys : entries[j] = e => j = k
  BY NoneAssumption DEF IInv, UsersHaveEntries, LeasesKnown, TypeOK
<1>2. activeLeases[e] \in Nat /\ activeLeases[e] > 0
  <2>1. l \in Users(e)
    BY DEF Users
  <2> QED BY <1>1, <2>1, UserCounted DEF IInv, TypeOK
<1>3. left \in Nat /\ left = activeLeases[e] - 1
  BY <1>2 DEF Left
<1>4. /\ leaseState' = [leaseState EXCEPT ![l] = "released"]
      /\ activeLeases' = act
      /\ discardWhenIdle' = [discardWhenIdle EXCEPT ![e] = doom]
      /\ UNCHANGED <<ready, leaseKey, leaseEntry>>
  BY DEF Release, ReleaseEntry
<1>5. PICK E \in Evictions(m, order, act) :
          /\ entries' = [j \in Keys |-> IF j \in E THEN None ELSE m[j]]
          /\ older' = Without(order, E)
          /\ closed' = [f \in Entries |->
                           \/ closed[f]
                           \/ f = e /\ last
                           \/ \E j \in E : m[j] = f]
  BY DEF Release, ReleaseEntry
<1> HIDE DEF k, e, left, last, doom, drop, order, act
<1>6. /\ m \in [Keys -> Entries \cup {None}]
      /\ \A j \in Keys : m[j] = IF drop /\ j = k THEN None ELSE entries[j]
  BY <1>1 DEF IInv, TypeOK, k, e
<1>7. Held(m) \subseteq Held(entries)
  BY <1>6 DEF Held
<1> HIDE DEF m
<1>8. IsFiniteSet(Held(m))
  BY <1>7, FS_Subset DEF IInv, MapFinite
<1>9. E \subseteq Idle(m, act) /\ Cardinality(Idle(m, act) \ E) <= MaxIdleChannels
  BY <1>8, EvictionBounds
<1>10. TypeOK'
  <2>1. order \in SUBSET (Keys \X Keys)
    BY <1>1 DEF order, Without, Touched, Held, IInv, TypeOK
  <2>2. older' \in SUBSET (Keys \X Keys)
    BY <2>1, <1>5 DEF Without
  <2>3. entries' \in [Keys -> Entries \cup {None}] /\ closed' \in [Entries -> BOOLEAN]
    BY <1>5, <1>6 DEF IInv, TypeOK
  <2>4. /\ activeLeases' \in [Entries -> Nat]
        /\ discardWhenIdle' \in [Entries -> BOOLEAN]
        /\ leaseState' \in [Leases -> LeaseStates]
    BY <1>1, <1>3, <1>4 DEF IInv, TypeOK, LeaseStates, act, doom, Doomed
  <2> QED BY <2>2, <2>3, <2>4, <1>4 DEF IInv, TypeOK
<1>11. LeasesCounted'
  <2>1. TypeOK /\ LeasesCounted
    BY DEF IInv
  <2>2. leaseEntry[l] \in Entries
    BY <1>1 DEF e
  <2>3. activeLeases' = [activeLeases EXCEPT ![leaseEntry[l]] = activeLeases[leaseEntry[l]] - 1]
    BY <1>3, <1>4 DEF act, e
  <2> QED BY <2>1, <2>2, <2>3, <1>4, LeaveCounted
<1>12. \A j \in Keys : entries'[j] # None => entries'[j] = entries[j] /\ entries'[j] = m[j] /\ j \notin E
  BY <1>5, <1>6
<1>13. LeasesKnown'
  BY <1>4, <1>12 DEF IInv, LeasesKnown
<1>14. UsersHaveEntries'
  BY <1>4 DEF IInv, UsersHaveEntries, Using, TypeOK
<1>15. \A f \in Entries : Pooled(f)' => Pooled(f)
  BY <1>12, NoneAssumption DEF Pooled
<1>16. \A f \in Entries : (\E j \in E : m[j] = f) => act[f] = 0 /\ Pooled(f)
  BY <1>6, <1>9, NoneAssumption DEF Idle, Held, Pooled
<1>17. ready[e] # "unmade"
  BY <1>1 DEF IInv, LeasesKnown, e
<1>18. UnmadeAreUntouched'
  BY <1>1, <1>4, <1>5, <1>15, <1>16, <1>17 DEF IInv, UnmadeAreUntouched, TypeOK
<1>19. OneKeyPerEntry'
  BY <1>12 DEF IInv, OneKeyPerEntry
<1>20. \A f \in Entries \ {e} : act[f] = activeLeases[f] /\ discardWhenIdle'[f] = discardWhenIdle[f]
  BY <1>4 DEF act, IInv, TypeOK
<1>21. act[e] = left /\ discardWhenIdle'[e] = doom
  BY <1>1, <1>4 DEF act, IInv, TypeOK
<1>22. PooledAreUsable'
  <2> SUFFICES ASSUME NEW j \in Keys, entries'[j] # None
               PROVE  ~closed'[entries'[j]] /\ ~discardWhenIdle'[entries'[j]]
    BY DEF PooledAreUsable
  <2>1. entries'[j] = entries[j] /\ entries[j] \in Entries /\ entries'[j] = m[j] /\ j \notin E
    BY <1>12, <1>6 DEF IInv, TypeOK
  <2>2. ~closed[entries[j]] /\ ~discardWhenIdle[entries[j]]
    BY <2>1 DEF IInv, PooledAreUsable
  <2>3. ~ \E i \in E : m[i] = entries[j]
    BY <2>1, <1>6, <1>9 DEF IInv, OneKeyPerEntry, Idle, Held
  <2>4. CASE entries[j] # e
    BY <2>1, <2>2, <2>3, <2>4, <1>5, <1>20
  <2>5. CASE entries[j] = e
    <3>1. j = k /\ ~drop
      BY <2>1, <2>5, <1>1, <1>6
    <3>2. ~discard /\ ~last
      BY <3>1, <2>5 DEF drop
    <3>3. ~doom
      BY <2>2, <2>5, <3>2 DEF doom, Doomed
    <3> QED BY <2>1, <2>2, <2>3, <2>5, <3>2, <3>3, <1>1, <1>5, <1>21
  <2> QED BY <2>4, <2>5
<1>23. ClosedByCount'
  <2> SUFFICES ASSUME NEW f \in Entries
               PROVE  /\ closed'[f] => act[f] = 0
                      /\ discardWhenIdle'[f] /\ act[f] = 0 => closed'[f]
                      /\ ready[f] # "unmade" => closed'[f] \/ discardWhenIdle'[f] \/ Pooled(f)'
    BY <1>4 DEF ClosedByCount
  <2>1. closed'[f] <=> (closed[f] \/ (f = e /\ last) \/ \E j \in E : m[j] = f)
    BY <1>5
  <2>2. \A j \in Keys : m[j] = f => closed'[f] \/ Pooled(f)'
    BY <2>1, <1>5 DEF Pooled
  <2>3. CASE f = e
    <3>1. ~closed[f]
      BY <2>3, <1>1, <1>2 DEF IInv, ClosedByCount
    <3>2. closed'[f] => act[f] = 0
      BY <2>1, <2>3, <3>1, <1>16, <1>21 DEF last
    <3>3. discardWhenIdle'[f] /\ act[f] = 0 => closed'[f]
      BY <2>1, <2>3, <1>21 DEF last
    <3>4. closed'[f] \/ discardWhenIdle'[f] \/ Pooled(f)'
      <4>1. ASSUME ~doom PROVE closed'[f] \/ Pooled(f)'
        <5>1. ~discardWhenIdle[f] /\ ~drop
          BY <2>3, <4>1 DEF doom, drop, last, Doomed
        <5>2. Pooled(f)
          BY <2>3, <5>1, <3>1, <1>1, <1>17 DEF IInv, ClosedByCount
        <5>3. \E j \in Keys : m[j] = f
          BY <5>1, <5>2, <1>6 DEF Pooled
        <5> QED BY <5>3, <2>2
      <4> QED BY <4>1, <2>3, <1>21
    <3> QED BY <3>2, <3>3, <3>4
  <2>4. CASE f # e
    <3>1. act[f] = activeLeases[f] /\ discardWhenIdle'[f] = discardWhenIdle[f]
      BY <2>4, <1>20
    <3>2. Pooled(f) => \E j \in Keys : m[j] = f
      BY <2>4, <1>6 DEF Pooled, drop
    <3>3. closed'[f] => act[f] = 0
      BY <2>1, <2>4, <3>1, <1>16 DEF IInv, ClosedByCount
    <3>4. discardWhenIdle'[f] /\ act[f] = 0 => closed'[f]
      BY <2>1, <3>1 DEF IInv, ClosedByCount
    <3>5. ready[f] # "unmade" => closed'[f] \/ discardWhenIdle'[f] \/ Pooled(f)'
      BY <2>1, <2>2, <3>1, <3>2 DEF IInv, ClosedByCount
    <3> QED BY <3>3, <3>4, <3>5
  <2> QED BY <2>3, <2>4
<1>24. MapFinite'
  <2>1. Held(entries') \subseteq Held(entries)
    BY <1>12 DEF Held
  <2> QED BY <2>1, FS_Subset DEF IInv, MapFinite
<1>25. IdleBounded'
  <2>1. Idle(entries', activeLeases') = Idle(m, act) \ E
    BY <1>4, <1>5 DEF Idle, Held
  <2> QED BY <2>1, <1>9 DEF IdleBounded
<1> QED BY <1>10, <1>11, <1>13, <1>14, <1>18, <1>19, <1>22, <1>23, <1>24, <1>25 DEF IInv

LEMMA DiscardEntryInv ==
    ASSUME IInv, NEW k \in Keys, NEW e \in Entries, ready[e] # "unmade",
           \A j \in Keys : entries[j] = e => j = k,
           DiscardEntry(k, e)
    PROVE  IInv'
<1>1. /\ discardWhenIdle' = [discardWhenIdle EXCEPT ![e] = TRUE]
      /\ closed' = [closed EXCEPT ![e] = closed[e] \/ activeLeases[e] = 0]
      /\ UNCHANGED <<activeLeases, ready, leaseState, leaseKey, leaseEntry>>
  BY DEF DiscardEntry, leaseVars
<1>2. /\ entries' \in [Keys -> Entries \cup {None}]
      /\ \A j \in Keys : entries'[j] = IF j = k /\ entries[k] = e THEN None ELSE entries[j]
  BY DEF DiscardEntry, mapVars, IInv, TypeOK
<1>3. older' \in SUBSET (Keys \X Keys)
  BY DEF DiscardEntry, mapVars, IInv, TypeOK, Without
<1>4. TypeOK'
  BY <1>1, <1>2, <1>3 DEF IInv, TypeOK
<1>5. LeasesCounted'
  <2> SUFFICES ASSUME NEW f \in Entries
               PROVE  IsFiniteSet(Users(f)') /\ activeLeases'[f] = Cardinality(Users(f)')
    BY DEF LeasesCounted
  <2>1. Users(f)' = Users(f)
    BY <1>1 DEF Users, Using
  <2> QED BY <1>1, <2>1 DEF IInv, LeasesCounted
<1>6. LeasesKnown' /\ UsersHaveEntries'
  BY <1>1, <1>2 DEF IInv, LeasesKnown, UsersHaveEntries, Using
<1>7. UnmadeAreUntouched'
  BY <1>1, <1>2, NoneAssumption DEF IInv, UnmadeAreUntouched, TypeOK, Pooled
<1>8. OneKeyPerEntry'
  BY <1>2 DEF IInv, OneKeyPerEntry
<1>9. PooledAreUsable'
  BY <1>1, <1>2 DEF IInv, PooledAreUsable, TypeOK
<1>10. ClosedByCount'
  <2> SUFFICES ASSUME NEW f \in Entries
               PROVE  /\ closed'[f] => activeLeases[f] = 0
                      /\ discardWhenIdle'[f] /\ activeLeases[f] = 0 => closed'[f]
                      /\ ready[f] # "unmade" => closed'[f] \/ discardWhenIdle'[f] \/ Pooled(f)'
    BY <1>1 DEF ClosedByCount
  <2>1. CASE f = e
    BY <1>1, <2>1 DEF IInv, TypeOK, ClosedByCount
  <2>2. CASE f # e
    <3>1. closed'[f] = closed[f] /\ discardWhenIdle'[f] = discardWhenIdle[f]
      BY <1>1, <2>2 DEF IInv, TypeOK
    <3>2. Pooled(f) => Pooled(f)'
      BY <1>2, <2>2 DEF Pooled
    <3> QED BY <3>1, <3>2 DEF IInv, ClosedByCount
  <2> QED BY <2>1, <2>2
<1>11. MapFinite'
  <2>1. Held(entries') \subseteq Held(entries)
    BY <1>2 DEF Held
  <2> QED BY <2>1, FS_Subset DEF IInv, MapFinite
<1>12. IdleBounded'
  <2>1. Idle(entries', activeLeases') \subseteq Idle(entries, activeLeases)
    BY <1>1, <1>2 DEF Idle, Held
  <2>2. IsFiniteSet(Idle(entries, activeLeases))
    BY IdleFinite DEF IInv, MapFinite
  <2> QED BY <2>1, <2>2, SubsetBounded DEF IInv, IdleBounded
<1> QED BY <1>4, <1>5, <1>6, <1>7, <1>8, <1>9, <1>10, <1>11, <1>12 DEF IInv

LEMMA NextInv == IInv /\ [Next]_vars => IInv'
<1> SUFFICES ASSUME IInv, [Next]_vars PROVE IInv'
  OBVIOUS
<1>1. ASSUME NEW l \in Leases, NEW k \in Keys, AcquirePooled(l, k) PROVE IInv'
  BY <1>1, AcquirePooledInv
<1>2. ASSUME NEW l \in Leases, NEW k \in Keys, NEW e \in Entries, AcquireNew(l, k, e) PROVE IInv'
  BY <1>2, AcquireNewInv
<1>3. ASSUME NEW l \in Leases, NEW k \in Keys, AcquireThrows(l, k) PROVE IInv'
  BY <1>3, AcquireThrowsInv
<1>4. ASSUME NEW e \in Entries, ChannelSettles(e) PROVE IInv'
  BY <1>4, ChannelSettlesInv
<1>5. ASSUME NEW l \in Leases, Connected(l) PROVE IInv'
  BY <1>5, ConnectedInv
<1>6. ASSUME NEW l \in Leases, ConnectFails(l) PROVE IInv'
  BY <1>6, ReleaseInv DEF ConnectFails, Using
<1>7. ASSUME NEW l \in Leases, ReleaseHeld(l) PROVE IInv'
  BY <1>7, ReleaseInv DEF ReleaseHeld, Using
<1>8. ASSUME NEW l \in Leases, DiscardLease(l) PROVE IInv'
  <2>1. leaseEntry[l] \in Entries
    BY <1>8 DEF DiscardLease, IInv, TypeOK
  <2>2. /\ ready[leaseEntry[l]] # "unmade" /\ leaseKey[l] \in Keys
        /\ \A j \in Keys : entries[j] = leaseEntry[l] => j = leaseKey[l]
    BY <1>8 DEF DiscardLease, IInv, LeasesKnown
  <2> QED BY <1>8, <2>1, <2>2, DiscardEntryInv DEF DiscardLease
<1>9. ASSUME NEW k \in Keys, DiscardKey(k) PROVE IInv'
  <2>1. entries[k] \in Entries
    BY <1>9 DEF DiscardKey, IInv, TypeOK
  <2>2. ready[entries[k]] # "unmade"
    BY <2>1 DEF IInv, UnmadeAreUntouched, Pooled
  <2>3. \A j \in Keys : entries[j] = entries[k] => j = k
    BY <1>9 DEF DiscardKey, IInv, OneKeyPerEntry
  <2> QED BY <1>9, <2>1, <2>2, <2>3, DiscardEntryInv DEF DiscardKey
<1>10. CASE UNCHANGED vars
  <2>1. TypeOK'
    BY <1>10 DEF vars, IInv, TypeOK
  <2>2. \A l \in Leases : Using(l)' <=> Using(l)
    BY <1>10 DEF vars, Using
  <2> QED BY <1>10, <2>1, <2>2, QuietInv DEF vars, mapVars, entryVars
<1> QED BY <1>1, <1>2, <1>3, <1>4, <1>5, <1>6, <1>7, <1>8, <1>9, <1>10 DEF Next

\* A release and a discard take keys out of the map and put none in.
LEMMA ReleaseTakesOut ==
    ASSUME IInv, NEW l \in Leases, NEW discard \in BOOLEAN, Release(l, discard)
    PROVE  \A k \in Keys : entries'[k] \in {entries[k], None}
BY DEF Release, ReleaseEntry, IInv, TypeOK

LEMMA DiscardTakesOut ==
    ASSUME IInv, NEW j, NEW e, DiscardEntry(j, e)
    PROVE  \A k \in Keys : entries'[k] \in {entries[k], None}
BY DEF DiscardEntry, mapVars, IInv, TypeOK

\* A channel in use is open.
LEMMA UsedAreOpen == IInv => ActiveNeverClosed
<1> SUFFICES ASSUME IInv, NEW l \in Leases, Using(l)
             PROVE  ~closed[leaseEntry[l]]
  BY DEF ActiveNeverClosed
<1>1. leaseEntry[l] \in Entries
  BY DEF IInv, UsersHaveEntries, TypeOK
<1>2. l \in Users(leaseEntry[l])
  BY DEF Users
<1>3. activeLeases[leaseEntry[l]] > 0
  BY <1>1, <1>2, UserCounted DEF IInv
<1> QED BY <1>1, <1>3 DEF IInv, ClosedByCount

\* A channel nobody uses is in the map or closed.
LEMMA UnusedAreKept == IInv => NoChannelLeaks
<1> SUFFICES ASSUME IInv, NEW e \in Entries, ready[e] # "unmade", Users(e) = {}
             PROVE  closed[e] \/ Pooled(e)
  BY DEF NoChannelLeaks
<1>1. activeLeases[e] = 0
  BY FS_EmptySet DEF IInv, LeasesCounted
<1> QED BY <1>1 DEF IInv, ClosedByCount

THEOREM Invariance == Spec => []IInv
BY InitInv, NextInv, PTL DEF Spec

----------------------------------------------------------------------------
(* What the pool guarantees.                                                *)

\* The pool's state has its types.
THEOREM TypeCorrect == Spec => []TypeOK
<1>1. IInv => TypeOK
  BY DEF IInv
<1> QED BY <1>1, Invariance, PTL

\* "Active streams are never evicted": no channel in use is ever closed.
THEOREM ActiveStreamsSurvive == Spec => []ActiveNeverClosed
BY UsedAreOpen, Invariance, PTL

\* A channel nobody uses is in the map or closed: none is forgotten open.
THEOREM NoLeaks == Spec => []NoChannelLeaks
BY UnusedAreKept, Invariance, PTL

\* A channel lives as long as its streams and no longer.
THEOREM ChannelsSafe == Spec => []ChannelsHeld
BY ActiveStreamsSurvive, NoLeaks, PTL DEF ChannelsHeld

\* Whatever the map holds can be leased.
THEOREM PoolUsable == Spec => []PooledAreUsable
<1>1. IInv => PooledAreUsable
  BY DEF IInv
<1> QED BY <1>1, Invariance, PTL

\* The cache is bounded: at most maxIdleChannels channels are kept unused.
THEOREM PoolBounded == Spec => []IdleBounded
<1>1. IInv => IdleBounded
  BY DEF IInv
<1> QED BY <1>1, Invariance, PTL

\* The counters are the numbers of callers.
THEOREM LeasesExact == Spec => []LeasesCounted
<1>1. IInv => LeasesCounted
  BY DEF IInv
<1> QED BY <1>1, Invariance, PTL

\* An entry that left the map is never leased again.
THEOREM NoReinsertion == Spec => NeverReinserted
<1> DEFINE Step == \A e \in Entries : ready[e] # "unmade" /\ ~Pooled(e) => ~Pooled(e)'
<1>1. IInv /\ [Next]_vars => [Step]_vars
  <2> SUFFICES ASSUME IInv, Next, NEW e \in Entries, ready[e] # "unmade", ~Pooled(e)
               PROVE  ~Pooled(e)'
    OBVIOUS
  <2>1. (\A k \in Keys : entries'[k] = entries[k] \/ entries'[k] = None) => ~Pooled(e)'
    BY NoneAssumption DEF Pooled
  <2>2. ASSUME NEW l \in Leases, NEW k \in Keys, AcquirePooled(l, k) PROVE ~Pooled(e)'
    BY <2>1, <2>2 DEF AcquirePooled
  <2>3. ASSUME NEW l \in Leases, NEW k \in Keys, NEW f \in Entries, AcquireNew(l, k, f)
        PROVE  ~Pooled(e)'
    BY <2>3 DEF AcquireNew, Pooled, IInv, TypeOK
  <2>4. ASSUME NEW l \in Leases, NEW k \in Keys, AcquireThrows(l, k) PROVE ~Pooled(e)'
    BY <2>1, <2>4 DEF AcquireThrows, mapVars
  <2>5. ASSUME NEW f \in Entries, ChannelSettles(f) PROVE ~Pooled(e)'
    BY <2>1, <2>5 DEF ChannelSettles, mapVars
  <2>6. ASSUME NEW l \in Leases, Connected(l) PROVE ~Pooled(e)'
    BY <2>1, <2>6 DEF Connected, mapVars
  <2>7. ASSUME NEW l \in Leases, NEW discard \in BOOLEAN, Release(l, discard) PROVE ~Pooled(e)'
    BY <2>1, <2>7, ReleaseTakesOut
  <2>8. ASSUME NEW k, NEW f, DiscardEntry(k, f) PROVE ~Pooled(e)'
    BY <2>1, <2>8, DiscardTakesOut
  <2> QED BY <2>2, <2>3, <2>4, <2>5, <2>6, <2>7, <2>8
          DEF Next, ConnectFails, ReleaseHeld, DiscardLease, DiscardKey
<1> QED BY <1>1, Invariance, PTL DEF Spec, NeverReinserted

\* Eviction is by age, for every release of every caller: the channel just
\* released is the youngest, so it stays if any other idle one stays.
LEMMA ReleaseEvictsOldest ==
    ASSUME IInv, NEW l \in Leases, Using(l), NEW discard \in BOOLEAN, Release(l, discard),
           NEW i \in Keys, entries[i] # None, entries'[i] = None,
           ~discardWhenIdle'[entries[i]],
           NEW j \in Keys, entries[j] # None, entries'[j] = entries[j],
           activeLeases'[entries[j]] = 0
    PROVE  /\ activeLeases[entries[i]] = 0
           /\ activeLeases[entries[j]] > 0 \/ <<i, j>> \in older
<1> DEFINE k == leaseKey[l]
           e == leaseEntry[l]
           last == Left(e) = 0 /\ Doomed(e, discard)
           drop == entries[k] = e /\ (discard \/ last)
           m == IF drop THEN [entries EXCEPT ![k] = None] ELSE entries
           order == IF drop THEN Without(older, {k})
                    ELSE IF entries[k] = e THEN Touched(entries, older, k)
                    ELSE older
           act == [activeLeases EXCEPT ![e] = Left(e)]
<1>1. /\ e \in Entries /\ k \in Keys
      /\ \A n \in Keys : entries[n] = e => n = k
  BY NoneAssumption DEF IInv, UsersHaveEntries, LeasesKnown, TypeOK
<1>2. activeLeases[e] > 0
  <2>1. l \in Users(e)
    BY DEF Users
  <2> QED BY <1>1, <2>1, UserCounted DEF IInv, TypeOK
<1>3. /\ activeLeases' = act
      /\ discardWhenIdle' = [discardWhenIdle EXCEPT ![e] = Doomed(e, discard)]
  BY DEF Release, ReleaseEntry
<1>4. PICK E \in Evictions(m, order, act) :
          entries' = [n \in Keys |-> IF n \in E THEN None ELSE m[n]]
  BY DEF Release, ReleaseEntry
<1>5. \A f \in Entries \ {e} : act[f] = activeLeases[f]
  BY DEF IInv, TypeOK
<1>6. Doomed(e, discard) <=> discardWhenIdle'[e]
  BY <1>1, <1>3 DEF IInv, TypeOK
<1>7. \A n \in Keys : m[n] = IF drop /\ n = k THEN None ELSE entries[n]
  BY <1>1 DEF IInv, TypeOK
<1>8. drop => Doomed(e, discard) /\ entries[k] = e
  BY DEF Doomed
<1> HIDE DEF k, e, last, drop, m, order, act
\* What left the map without being condemned was evicted from the idle.
<1>9. i \in E /\ m[i] = entries[i]
  <2>1. ~(drop /\ i = k)
    BY <1>6, <1>8
  <2> QED BY <2>1, <1>4, <1>7
<1>10. j \in Idle(m, act) \ E
  <2>1. j \notin E /\ m[j] = entries[j]
    BY <1>4
  <2>2. act[entries[j]] = 0
    BY <1>3
  <2> QED BY <2>1, <2>2 DEF Idle, Held
<1>11. act[entries[i]] = 0 /\ <<i, j>> \in order
  <2>1. E # {} /\ E \subseteq Idle(m, act)
    BY <1>9 DEF Evictions
  <2>2. \A p \in E, q \in Idle(m, act) \ E : <<p, q>> \in order
    BY <2>1 DEF Evictions
  <2> QED BY <2>1, <2>2, <1>9, <1>10 DEF Idle
\* The entry just released is not it: its key would be the youngest.
<1>12. i # j
  BY <1>9, <1>10
<1>13. entries[i] # e
  <2> SUFFICES ASSUME entries[i] = e PROVE FALSE
    OBVIOUS
  <2>1. i = k /\ ~drop
    BY <1>1, <1>6, <1>8
  <2>2. order = Touched(entries, older, k)
    BY <2>1 DEF order
  <2> QED BY <2>1, <2>2, <1>11, <1>12 DEF Touched, Without
<1>14. activeLeases[entries[i]] = 0
  BY <1>5, <1>11, <1>13 DEF IInv, TypeOK
<1>15. CASE entries[j] = e
  BY <1>2, <1>14, <1>15
<1>16. CASE entries[j] # e
  <2>1. (i # k /\ j # k) \/ order = older \/ drop
    BY <1>13, <1>16 DEF order
  <2>2. <<i, j>> \in older
    BY <2>1, <1>11, <1>12 DEF order, Touched, Without
  <2> QED BY <2>2, <1>14
<1> QED BY <1>15, <1>16

\* An uncondemned channel that a step drops was idle already and used less
\* recently than any idle channel that stays: evictIdle() and touch().
THEOREM EvictsOldest == Spec => OldestEvicted
<1> DEFINE Step ==
        \A j, k \in Keys :
          /\ entries[j] # None /\ entries'[j] = None /\ ~discardWhenIdle'[entries[j]]
          /\ entries[k] # None /\ entries'[k] = entries[k] /\ activeLeases'[entries[k]] = 0
          => /\ activeLeases[entries[j]] = 0
             /\ activeLeases[entries[k]] > 0 \/ <<j, k>> \in older
<1>1. IInv /\ [Next]_vars => [Step]_vars
  <2> SUFFICES ASSUME IInv, Next, NEW i \in Keys, NEW j \in Keys,
                      entries[i] # None, entries'[i] = None, ~discardWhenIdle'[entries[i]],
                      entries[j] # None, entries'[j] = entries[j],
                      activeLeases'[entries[j]] = 0
               PROVE  /\ activeLeases[entries[i]] = 0
                      /\ activeLeases[entries[j]] > 0 \/ <<i, j>> \in older
    OBVIOUS
  <2>1. entries[i] \in Entries
    BY DEF IInv, TypeOK
  <2>2. ASSUME NEW l \in Leases, NEW k \in Keys, AcquirePooled(l, k) PROVE FALSE
    BY <2>2 DEF AcquirePooled
  <2>3. ASSUME NEW l \in Leases, NEW k \in Keys, NEW f \in Entries, AcquireNew(l, k, f)
        PROVE  FALSE
    BY <2>1, <2>3, NoneAssumption DEF AcquireNew, IInv, TypeOK
  <2>4. ASSUME NEW l \in Leases, NEW k \in Keys, AcquireThrows(l, k) PROVE FALSE
    BY <2>4 DEF AcquireThrows, mapVars
  <2>5. ASSUME NEW f \in Entries, ChannelSettles(f) PROVE FALSE
    BY <2>5 DEF ChannelSettles, mapVars
  <2>6. ASSUME NEW l \in Leases, Connected(l) PROVE FALSE
    BY <2>6 DEF Connected, mapVars
  <2>7. ASSUME NEW l \in Leases, Using(l), NEW discard \in BOOLEAN, Release(l, discard)
        PROVE  /\ activeLeases[entries[i]] = 0
               /\ activeLeases[entries[j]] > 0 \/ <<i, j>> \in older
    BY <2>7, ReleaseEvictsOldest
  <2>8. ASSUME NEW k, NEW f, DiscardEntry(k, f) PROVE FALSE
    <3>1. entries[i] = f
      BY <2>8 DEF DiscardEntry, mapVars, IInv, TypeOK
    <3> QED BY <2>1, <2>8, <3>1 DEF DiscardEntry, IInv, TypeOK
  <2> QED BY <2>2, <2>3, <2>4, <2>5, <2>6, <2>7, <2>8
          DEF Next, ConnectFails, ReleaseHeld, DiscardLease, DiscardKey, Using
<1> QED BY <1>1, Invariance, PTL DEF Spec, OldestEvicted

----------------------------------------------------------------------------
(* The pool implements ChannelLifetime.                                     *)

Stages   == [e \in Entries |-> Stage(e)]
BorrowedBy == [l \in Leases |-> IF Using(l) THEN leaseEntry[l] ELSE None]

\* Steps that only condemn and close channels retire them as promised.
LEMMA RetireStep ==
    ASSUME IInv, IInv',
           \A e \in Entries : /\ closed[e] => closed'[e]
                              /\ discardWhenIdle[e] => discardWhenIdle'[e]
                              /\ ready'[e] = "unmade" <=> ready[e] = "unmade"
    PROVE  Lifetime!Retire
<1>1. \A e \in Entries : Stages[e] = Stage(e) /\ Stages'[e] = Stage(e)'
  BY DEF Stages
<1>2. Stages' \in [Entries -> Lifetime!Stages]
  BY DEF Stages, Stage, Lifetime!Stages
<1>3. ASSUME NEW e \in Entries
      PROVE  /\ Lifetime!MayBecome(e, Stages'[e])
             /\ Stages'[e] # Stages[e] =>
                   (Stages'[e] = "closed" <=> \A u \in Leases : BorrowedBy'[u] # e)
             /\ Stages'[e] = "condemned" => \E u \in Leases : BorrowedBy'[u] = e
  <2>1. activeLeases'[e] = 0 <=> \A l \in Leases : BorrowedBy'[l] # e
    <3>1. IsFiniteSet(Users(e)') /\ activeLeases'[e] = Cardinality(Users(e)')
      BY DEF IInv, LeasesCounted
    <3>2. activeLeases'[e] = 0 <=> Users(e)' = {}
      BY <3>1, FS_EmptySet
    <3>3. Users(e)' = {} <=> \A l \in Leases : BorrowedBy'[l] # e
      BY NoneAssumption DEF Users, BorrowedBy
    <3> QED BY <3>2, <3>3
  <2>2. /\ closed'[e] => activeLeases'[e] = 0
        /\ discardWhenIdle'[e] /\ activeLeases'[e] = 0 => closed'[e]
    BY DEF IInv, ClosedByCount
  <2>3. ready'[e] = "unmade" => ~closed'[e] /\ ~discardWhenIdle'[e]
    BY DEF IInv, UnmadeAreUntouched
  <2>4. Lifetime!MayBecome(e, Stages'[e])
    BY <1>1, <2>3 DEF Lifetime!MayBecome, Stages, Stage
  <2> QED BY <1>1, <2>1, <2>2, <2>4 DEF Stage
<1> QED BY <1>2, <1>3 DEF Lifetime!Retire, Stages, BorrowedBy

\* Every step of the pool is a step of the life cycle or leaves it alone.
LEMMA LifetimeStep == IInv /\ IInv' /\ [Next]_vars => [Lifetime!Next]_(Lifetime!vars)
<1> SUFFICES ASSUME IInv, IInv', [Next]_vars
             PROVE  Lifetime!Next \/ (Stages' = Stages /\ BorrowedBy' = BorrowedBy)
  BY DEF Lifetime!vars, Stages, BorrowedBy
<1>1. ASSUME NEW l \in Leases, NEW k \in Keys, AcquirePooled(l, k) PROVE Lifetime!Next
  <2>1. PICK e \in Entries : e = entries[k]
    BY <1>1 DEF AcquirePooled, IInv, TypeOK
  <2>2. Stage(e) = "open"
    BY <1>1, <2>1 DEF AcquirePooled, IInv, PooledAreUsable, UnmadeAreUntouched, Pooled, Stage
  <2>3. Stages' = Stages
    BY <1>1 DEF AcquirePooled, Stages, Stage
  <2>4. BorrowedBy[l] = None /\ BorrowedBy' = [BorrowedBy EXCEPT ![l] = e]
    BY <1>1, <2>1 DEF AcquirePooled, BorrowedBy, Using, IInv, TypeOK
  <2>5. Lifetime!Borrow(l, e)
    BY <2>2, <2>3, <2>4 DEF Lifetime!Borrow, Stages, BorrowedBy
  <2> QED BY <2>5 DEF Lifetime!Next
<1>2. ASSUME NEW l \in Leases, NEW k \in Keys, NEW e \in Entries, AcquireNew(l, k, e)
      PROVE  Lifetime!Next
  <2>1. Stage(e) = "unmade"
    BY <1>2 DEF AcquireNew, Stage
  <2>2. Stage(e)' = "open"
    BY <1>2 DEF AcquireNew, Stage, IInv, UnmadeAreUntouched, TypeOK
  <2>3. Stages' = [Stages EXCEPT ![e] = "open"]
    <3>1. \A f \in Entries \ {e} : Stage(f)' = Stage(f)
      BY <1>2 DEF AcquireNew, Stage, IInv, TypeOK
    <3> QED BY <2>2, <3>1 DEF Stages
  <2>4. BorrowedBy[l] = None /\ BorrowedBy' = [BorrowedBy EXCEPT ![l] = e]
    BY <1>2 DEF AcquireNew, BorrowedBy, Using, IInv, TypeOK
  <2>5. Lifetime!Borrow(l, e)
    BY <2>1, <2>3, <2>4 DEF Lifetime!Borrow, Stages, BorrowedBy
  <2> QED BY <2>5 DEF Lifetime!Next
<1>3. ASSUME UNCHANGED <<entryVars, leaseEntry>>,
             \A e \in Entries : ready'[e] = "unmade" <=> ready[e] = "unmade",
             \A l \in Leases : Using(l)' <=> Using(l)
      PROVE  Stages' = Stages /\ BorrowedBy' = BorrowedBy
  BY <1>3 DEF entryVars, Stages, Stage, BorrowedBy
<1>4. ASSUME NEW l \in Leases, NEW k \in Keys, AcquireThrows(l, k)
      PROVE  Stages' = Stages /\ BorrowedBy' = BorrowedBy
  <2>1. \A j \in Leases : Using(j)' <=> Using(j)
    BY <1>4 DEF AcquireThrows, Using, IInv, TypeOK
  <2> QED BY <1>3, <1>4, <2>1 DEF AcquireThrows
<1>5. ASSUME NEW e \in Entries, ChannelSettles(e)
      PROVE  Stages' = Stages /\ BorrowedBy' = BorrowedBy
  <2>1. \A f \in Entries : ready'[f] = "unmade" <=> ready[f] = "unmade"
    BY <1>5 DEF ChannelSettles, IInv, TypeOK
  <2> QED BY <1>3, <1>5, <2>1 DEF ChannelSettles, leaseVars, Using
<1>6. ASSUME NEW l \in Leases, Connected(l)
      PROVE  Stages' = Stages /\ BorrowedBy' = BorrowedBy
  <2>1. \A j \in Leases : Using(j)' <=> Using(j)
    BY <1>6 DEF Connected, Using, IInv, TypeOK
  <2> QED BY <1>3, <1>6, <2>1 DEF Connected
<1>7. ASSUME NEW l \in Leases, Using(l), NEW discard \in BOOLEAN, Release(l, discard)
      PROVE  Lifetime!Next
  <2>1. \A e \in Entries : /\ closed[e] => closed'[e]
                           /\ discardWhenIdle[e] => discardWhenIdle'[e]
    BY <1>7 DEF Release, ReleaseEntry, Doomed, IInv, TypeOK
  <2>2. ready' = ready
    BY <1>7 DEF Release, ReleaseEntry
  <2>3. Lifetime!Retire
    BY <2>1, <2>2, RetireStep
  <2>4. BorrowedBy[l] # None
    BY <1>7 DEF BorrowedBy, IInv, UsersHaveEntries
  <2>5. BorrowedBy' = [BorrowedBy EXCEPT ![l] = None]
    <3>1. leaseState' = [leaseState EXCEPT ![l] = "released"] /\ leaseEntry' = leaseEntry
      BY <1>7 DEF Release, ReleaseEntry
    <3> QED BY <3>1 DEF BorrowedBy, Using, IInv, TypeOK
  <2>6. Lifetime!GiveBack(l)
    BY <2>3, <2>4, <2>5 DEF Lifetime!GiveBack, BorrowedBy
  <2> QED BY <2>6 DEF Lifetime!Next
<1>8. ASSUME NEW k, NEW e, DiscardEntry(k, e) PROVE Lifetime!Next
  <2>1. \A f \in Entries : /\ closed[f] => closed'[f]
                           /\ discardWhenIdle[f] => discardWhenIdle'[f]
    BY <1>8 DEF DiscardEntry, IInv, TypeOK
  <2>2. ready' = ready /\ BorrowedBy' = BorrowedBy
    BY <1>8 DEF DiscardEntry, leaseVars, BorrowedBy, Using
  <2>3. Lifetime!Retire
    BY <2>1, <2>2, RetireStep
  <2>4. Lifetime!Condemn
    BY <2>2, <2>3 DEF Lifetime!Condemn, BorrowedBy
  <2> QED BY <2>4 DEF Lifetime!Next
<1>9. CASE UNCHANGED vars
  BY <1>9 DEF vars, Stages, Stage, BorrowedBy, Using
<1> QED BY <1>1, <1>2, <1>4, <1>5, <1>6, <1>7, <1>8, <1>9
        DEF Next, ConnectFails, ReleaseHeld, DiscardLease, DiscardKey, Using

\* The pool implements the life cycle of a shared channel: what its callers
\* rely on follows from ChannelLifetime alone.
THEOREM LifetimeImplemented == Spec => ImplementsLifetime
<1>1. Init => Lifetime!Init
  BY DEF Init, Lifetime!Init, Stage, Using
<1> QED BY <1>1, LifetimeStep, Invariance, PTL DEF Spec, ImplementsLifetime, Lifetime!Spec
=============================================================================
