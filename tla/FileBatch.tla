------------------------------ MODULE FileBatch ------------------------------
(***************************************************************************)
(* files.read([...]), readText([...]) and files.write({...}): the workers  *)
(* of mapWithConcurrency take one file after the other, and each file is a *)
(* unary call or a streaming command, by its size, the cap the server has  *)
(* named before and the error it answers with (runtime/files.ts,           *)
(* file-transfer.ts, file-limits.ts, file-fallback-signals.ts).            *)
(***************************************************************************)
EXTENDS Integers, FiniteSets

CONSTANTS
    Workers,     \* MAX_CONCURRENT_FILE_REQUESTS_PER_BATCH of them
    Files,       \* number of files in the batch
    Sizes,       \* sizes of files
    DefaultCap,  \* DEFAULT_FILE_OPERATION_CAP_BYTES
    ServerCaps,  \* caps a server may enforce
    MaxStream    \* MAX_AUTO_FALLBACK_BYTES

ASSUME BatchAssumption ==
    /\ IsFiniteSet(Workers) /\ Workers # {} /\ Files \in Nat \ {0}
    /\ Sizes \subseteq Nat \ {0} /\ ServerCaps \subseteq Nat \ {0}
    /\ {DefaultCap, MaxStream} \subseteq Nat \ {0}

Items == 1..Files
NoCap == 0

VARIABLES
    batch,      \* read or write
    sizeOf,     \* the size of each file
    serverCap,  \* the cap of this server
    observed,   \* observedFileOpCapBytes, shared by all files of the sandbox
    nextIndex,  \* the next file to take
    worker,     \* per worker: what it does, and with which file
    results,    \* per file: whose content is in its place, or 0
    carried,    \* history: per file, how often it was transferred
    refusals,   \* history: unary calls refused for the size
    fate        \* the batch: pending, resolved or rejected

batchVars == <<batch, sizeOf, serverCap, observed, nextIndex, worker, results, carried,
               refusals, fate>>

Idle == [does |-> "idle", item |-> 0]
BatchTypeOK ==
    /\ batch \in {"read", "write"} /\ fate \in {"pending", "resolved", "rejected"}
    /\ sizeOf \in [Items -> Sizes] /\ serverCap \in ServerCaps
    /\ observed \in {NoCap} \cup ServerCaps /\ nextIndex \in 1..(Files + 1)
    /\ worker \in [Workers -> [does : {"idle", "unary", "stream", "over"}, item : 0..Files]]
    /\ results \in [Items -> 0..Files] /\ carried \in [Items -> Nat] /\ refusals \in Nat

BatchInit ==
    /\ batch \in {"read", "write"} /\ sizeOf \in [Items -> Sizes] /\ serverCap \in ServerCaps
    /\ observed = NoCap /\ nextIndex = 1 /\ worker = [w \in Workers |-> Idle]
    /\ results = [i \in Items |-> 0] /\ carried = [i \in Items |-> 0]
    /\ refusals = 0 /\ fate = "pending"

----------------------------------------------------------------------------

Becomes(w, does, item) == worker' = [worker EXCEPT ![w] = [does |-> does, item |-> item]]

\* The first failure of a worker rejects the batch; the others go on.
Stops(w) ==
    /\ Becomes(w, "over", 0)
    /\ fate' = IF fate = "pending" THEN "rejected" ELSE fate

Cap == IF observed = NoCap THEN DefaultCap ELSE observed

\* writeSingle and readSingle choose how to begin; a write too large to stream
\* is refused.
Begin(w, item) ==
    CASE batch = "write" /\ sizeOf[item] > MaxStream -> Stops(w)
      [] batch = "write" /\ sizeOf[item] \in (Cap + 1)..MaxStream ->
            Becomes(w, "stream", item) /\ UNCHANGED fate
      [] OTHER -> Becomes(w, "unary", item) /\ UNCHANGED fate

\* A worker takes the next file.
Take(w) ==
    /\ worker[w] = Idle /\ nextIndex <= Files
    /\ Begin(w, nextIndex)
    /\ nextIndex' = nextIndex + 1
    /\ UNCHANGED <<batch, sizeOf, serverCap, observed, results, carried, refusals>>

\* No file is left; the last worker to find that resolves the batch.
WorkerEnds(w) ==
    /\ worker[w] = Idle /\ nextIndex > Files
    /\ Becomes(w, "over", 0)
    /\ fate' = IF fate = "pending" /\ \A v \in Workers \ {w} : worker[v].does = "over"
               THEN "resolved" ELSE fate
    /\ UNCHANGED <<batch, sizeOf, serverCap, observed, nextIndex, results, carried, refusals>>

\* A unary call or a stream carries the file; what a stream reads into memory
\* is bounded too.
Carried(w) ==
    LET item == worker[w].item
    IN  /\ \/ worker[w].does = "unary" /\ sizeOf[item] <= serverCap
           \/ worker[w].does = "stream" /\ sizeOf[item] <= MaxStream
        /\ results' = [results EXCEPT ![item] = item]
        /\ carried' = [carried EXCEPT ![item] = @ + 1]
        /\ worker' = [worker EXCEPT ![w] = Idle]
        /\ UNCHANGED <<batch, sizeOf, serverCap, observed, nextIndex, refusals, fate>>

\* recordObservedFileOpCap.
Records == observed' = serverCap

\* The server refuses a unary call for the size and names its cap: the file is
\* streamed unless it is too large for that too.
TooLarge(w) ==
    LET item == worker[w].item
    IN  /\ worker[w].does = "unary" /\ sizeOf[item] > serverCap
        /\ Records /\ refusals' = refusals + 1
        /\ IF sizeOf[item] <= MaxStream THEN Becomes(w, "stream", item) /\ UNCHANGED fate
           ELSE Stops(w)
        /\ UNCHANGED <<batch, sizeOf, serverCap, nextIndex, results, carried>>

\* A call refused for another shortage that looks like one of size is streamed.
LooksTooLarge(w) ==
    /\ worker[w].does = "unary"
    /\ Becomes(w, "stream", worker[w].item)
    /\ UNCHANGED <<batch, sizeOf, serverCap, observed, nextIndex, results, carried, refusals, fate>>

\* A transfer fails: an overloaded runner, a lost connection, a missing file.
TransferFails(w) ==
    /\ worker[w].does \in {"unary", "stream"}
    /\ Stops(w)
    /\ UNCHANGED <<batch, sizeOf, serverCap, observed, nextIndex, results, carried, refusals>>

BatchNext ==
    \E w \in Workers :
        \/ Take(w) \/ WorkerEnds(w) \/ Carried(w) \/ TooLarge(w) \/ LooksTooLarge(w)
        \/ TransferFails(w)

BatchSpec == BatchInit /\ [][BatchNext]_batchVars

----------------------------------------------------------------------------

\* A batch that resolves has every file in its own place, and no file of any
\* batch is transferred twice, though the workers share one index.  Once the
\* server has named its cap no write finds it out again: each worker is refused
\* for the size at most once, with the call it had under way then.
BatchWhole ==
    /\ fate = "resolved" => \A i \in Items : results[i] = i
    /\ \A i \in Items : carried[i] <= 1
    /\ batch = "write" => refusals <= Cardinality(Workers)
=============================================================================
