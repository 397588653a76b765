----------------------------- MODULE MCDataCalls -----------------------------
(* Which calls an operation makes, the command that streams one file, and a    *)
(* batch of files.  The three share no state: a behaviour belongs to one.      *)
(* A unit of time is half of the five seconds a retried call needs.            *)
EXTENDS DataCalls, FileStreams, FileBatch

all == <<vars, streamVars, batchVars>>

\* One fixed initial state of each module stands for "not this one".
NoCall == op = "exec" /\ mode = "auto" /\ timeout = None /\ pc = "acquiring" /\ attempt = 0
NoStream ==
    /\ kind = "write" /\ target = "file" /\ size = 0 /\ step = "source" /\ ~aborted
    /\ call = "open" /\ attached = "no" /\ gate = "wait"
NoBatch ==
    /\ batch = "read" /\ nextIndex = 1 /\ \A w \in Workers : worker[w] = Idle
    /\ \A i \in Items : sizeOf[i] = DefaultCap
    /\ serverCap = DefaultCap

OnlyCall == NoStream /\ NoBatch /\ UNCHANGED <<streamVars, batchVars>>
OnlyStream == NoCall /\ NoBatch /\ UNCHANGED <<vars, batchVars>>
OnlyBatch == NoCall /\ NoStream /\ UNCHANGED <<vars, streamVars>>

MCInit ==
    /\ Init /\ StreamInit /\ BatchInit
    /\ (NoStream /\ NoBatch) \/ (NoCall /\ NoBatch) \/ (NoCall /\ NoStream)
MCNext ==
    \/ Next /\ OnlyCall
    \/ StreamNext /\ OnlyStream
    \/ BatchNext /\ OnlyBatch
MCSpec ==
    /\ MCInit /\ [][MCNext]_all
    /\ WF_all(Tick /\ OnlyCall)
    /\ WF_all((Leased \/ Ungranted \/ AcquireFails) /\ OnlyCall)
    /\ WF_all(Fails("timeout", None, FALSE) /\ OnlyCall)
    /\ WF_all(Wakes /\ OnlyCall)
    /\ WF_all(StreamClient /\ OnlyStream)

\* One file that is streamed and the files of a batch arrive whole, each once.
FilesWhole == FileWhole /\ BatchWhole
=============================================================================
