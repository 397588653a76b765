------------------------- MODULE NetworkConfigUpdate -------------------------
(***************************************************************************)
(* Concurrent updates of one stored NetworkConfig: the read, the refusal   *)
(* and the pinned write of updateNetworkConfigRecord                       *)
(* (runtime/network-config.ts) and Sandbox.updateNetwork around it, which  *)
(* looks the config up and refreshes its handle.  Beside the updaters of   *)
(* this SDK another client writes rules it cannot represent.               *)
(*                                                                         *)
(* The server numbers the versions of the config; a version is its etag.   *)
(* An answer shows the config at the time the server took the request up,  *)
(* its etag included, on which ForeignRulesSurvive rests.                  *)
(***************************************************************************)
EXTENDS Integers, FiniteSets

CONSTANTS
    Updaters,    \* calls of updateNetwork
    Masks,       \* update masks of the calls
    MaxVersion   \* bound: versions of the config

None == 0 \* no etag
RuleLists == {"egress", "ingress"}
Fields == RuleLists \cup {"deny"}

ASSUME UpdateAssumption ==
    IsFiniteSet(Updaters) /\ Masks \subseteq SUBSET Fields /\ MaxVersion \in Nat \ {0}

VARIABLES
    phase,    \* per updater: lookup, read, write, refresh, or how it ended
    served,   \* per updater: whether the server has taken the request up
    seenAt,   \* per updater: the version and foreign lists its request met
    mask,     \* per updater: fields it writes
    etag,     \* per updater: the etag its write is pinned to, or None
    given,    \* per updater: the etag the caller passed, or None
    config,   \* the stored config: version and the lists with foreign rules
    wrote,    \* history: per updater, the version its write was applied to, or None
    known     \* the sandbox handle knows the id of its config

updateVars == <<phase, served, seenAt, mask, etag, given, config, wrote, known>>

Requests == {"lookup", "read", "write", "refresh"}
Ends == {"resolved", "refused", "mismatch", "failed", "timeout"}
Configs == [version : 1..MaxVersion, foreign : SUBSET RuleLists]

UpdateTypeOK ==
    /\ phase \in [Updaters -> Requests \cup Ends \cup {"idle"}]
    /\ served \in [Updaters -> BOOLEAN]
    /\ config \in Configs /\ seenAt \in [Updaters -> Configs]
    /\ mask \in [Updaters -> SUBSET Fields]
    /\ etag \in [Updaters -> 0..MaxVersion]
    /\ given \in [Updaters -> 0..MaxVersion]
    /\ wrote \in [Updaters -> 0..MaxVersion]
    /\ known \in BOOLEAN

UpdateInit ==
    /\ config = [version |-> 1, foreign |-> {}]
    /\ phase = [u \in Updaters |-> "idle"]
    /\ served = [u \in Updaters |-> FALSE]
    /\ seenAt = [u \in Updaters |-> config]
    /\ mask = [u \in Updaters |-> {}]
    /\ etag = [u \in Updaters |-> None] /\ given = [u \in Updaters |-> None]
    /\ wrote = [u \in Updaters |-> None]
    /\ known = FALSE

Ask(u, request) ==
    /\ phase' = [phase EXCEPT ![u] = request]
    /\ served' = [served EXCEPT ![u] = FALSE]

----------------------------------------------------------------------------
(* The updaters.                                                           *)

\* The first request of updateNetworkConfigRecord: rule lists are read first.
FirstRequest(m) == IF m \cap RuleLists # {} THEN "read" ELSE "write"

\* updateNetwork(): with a mask, and an etag of an earlier read or none.  The
\* handle looks its config up unless it has seen its id before.
Update(u) ==
    /\ phase[u] = "idle"
    /\ \E m \in Masks, e \in None..config.version :
        /\ mask' = [mask EXCEPT ![u] = m]
        /\ given' = [given EXCEPT ![u] = e]
        /\ etag' = [etag EXCEPT ![u] = e]
        /\ Ask(u, IF ~known THEN "lookup" ELSE FirstRequest(m))
    /\ UNCHANGED <<seenAt, config, wrote, known>>

\* The lookup's answer: the handle knows the id, and the update starts.
LookedUp(u) ==
    /\ phase[u] = "lookup" /\ served[u]
    /\ known' = TRUE
    /\ Ask(u, FirstRequest(mask[u]))
    /\ UNCHANGED <<seenAt, mask, etag, given, config, wrote>>

\* Mutant: the write of a rule list is not pinned to what was read.
ReadUnpinned(u) ==
    /\ phase[u] = "read" /\ served[u]
    /\ IF mask[u] \cap seenAt[u].foreign # {}
       THEN phase' = [phase EXCEPT ![u] = "refused"] /\ UNCHANGED <<served, etag>>
       ELSE Ask(u, "write") /\ UNCHANGED etag
    /\ UNCHANGED <<seenAt, mask, given, config, wrote, known>>
\* Mutant: the etag that was read replaces the caller's.
ReadRepins(u) ==
    /\ phase[u] = "read" /\ served[u]
    /\ IF mask[u] \cap seenAt[u].foreign # {}
       THEN phase' = [phase EXCEPT ![u] = "refused"] /\ UNCHANGED <<served, etag>>
       ELSE Ask(u, "write") /\ etag' = [etag EXCEPT ![u] = seenAt[u].version]
    /\ UNCHANGED <<seenAt, mask, given, config, wrote, known>>
\* The config has been read: refuse to overwrite rules that cannot be shown,
\* or write, pinned to the caller's etag or else to the one read.  Assumed: the
\* server shows the etag of every config; after an answer without one the
\* write would go unpinned.
Read(u) ==
    /\ phase[u] = "read" /\ served[u]
    /\ IF mask[u] \cap seenAt[u].foreign # {}
       THEN phase' = [phase EXCEPT ![u] = "refused"] /\ UNCHANGED <<served, etag>>
       ELSE /\ Ask(u, "write")
            /\ etag' = [etag EXCEPT ![u] = IF @ = None THEN seenAt[u].version ELSE @]
    /\ UNCHANGED <<seenAt, mask, given, config, wrote, known>>

\* The write has been applied: the handle is refreshed.
Written(u) ==
    /\ phase[u] = "write" /\ served[u] /\ wrote[u] # None
    /\ Ask(u, "refresh")
    /\ UNCHANGED <<seenAt, mask, etag, given, config, wrote, known>>

\* The server rejects a write whose etag is not the config's.
Mismatch(u) ==
    /\ phase[u] = "write" /\ served[u] /\ wrote[u] = None
    /\ phase' = [phase EXCEPT ![u] = "mismatch"]
    /\ UNCHANGED <<served, seenAt, mask, etag, given, config, wrote, known>>

\* A request is cut off, on either way, or shows that the sandbox has no
\* config; a refresh that fails is forgotten.
Fails(u) ==
    /\ phase[u] \in Requests
    /\ phase' = [phase EXCEPT ![u] = IF @ = "refresh" THEN "resolved" ELSE "failed"]
    /\ UNCHANGED <<served, seenAt, mask, etag, given, config, wrote, known>>

\* The caller's time is up after the read: nothing is written.
TimeUp(u) ==
    /\ phase[u] = "read" /\ served[u]
    /\ phase' = [phase EXCEPT ![u] = "timeout"]
    /\ UNCHANGED <<served, seenAt, mask, etag, given, config, wrote, known>>

\* The refresh's answer: the call resolves.
Refreshed(u) ==
    /\ phase[u] = "refresh" /\ served[u]
    /\ known' = TRUE
    /\ phase' = [phase EXCEPT ![u] = "resolved"]
    /\ UNCHANGED <<served, seenAt, mask, etag, given, config, wrote>>

----------------------------------------------------------------------------
(* The server and another client.                                          *)

\* The server applies a write that is unpinned or pinned to the config it
\* has: the lists of the mask are replaced, foreign rules and all.  An empty
\* mask writes nothing.
Apply(u) ==
    /\ config.version < MaxVersion
    /\ wrote' = [wrote EXCEPT ![u] = config.version]
    /\ config' = IF mask[u] = {} THEN config
                 ELSE [version |-> config.version + 1, foreign |-> config.foreign \ mask[u]]

TakeUp(u) ==
    /\ phase[u] \in Requests /\ ~served[u]
    /\ served' = [served EXCEPT ![u] = TRUE]
    /\ IF phase[u] = "write" /\ etag[u] \in {None, config.version}
       THEN Apply(u) ELSE UNCHANGED <<config, wrote>>
    /\ seenAt' = [seenAt EXCEPT ![u] = config']
    /\ UNCHANGED <<phase, mask, etag, given, known>>

\* Another client writes rules this SDK cannot represent.
ForeignWrite ==
    /\ config.version < MaxVersion
    /\ \E list \in RuleLists :
        config' = [version |-> config.version + 1, foreign |-> config.foreign \cup {list}]
    /\ UNCHANGED <<phase, served, seenAt, mask, etag, given, wrote, known>>

UpdateNext ==
    \/ ForeignWrite
    \/ \E u \in Updaters :
        \/ Update(u) \/ LookedUp(u) \/ Read(u) \/ Written(u) \/ Mismatch(u)
        \/ Fails(u) \/ TimeUp(u) \/ Refreshed(u) \/ TakeUp(u)

UpdateSpec == UpdateInit /\ [][UpdateNext]_updateVars

----------------------------------------------------------------------------

\* No update of this SDK removes rules it cannot represent, though another
\* client may write them between its read and its write.
ForeignRulesSurvive == [][config.foreign \subseteq config'.foreign]_updateVars

\* A write with the caller's etag is applied to the version the caller has
\* read, however many updates overlap and whatever the SDK reads in between.
EtagHonoured ==
    \A u \in Updaters : given[u] # None /\ wrote[u] # None => wrote[u] = given[u]
=============================================================================
