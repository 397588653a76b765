--------------------------- MODULE MCOutputStreams ---------------------------
(* Two streams of output over a queue: a log (LogStream), with lines longer *)
(* than its buffer, entries of several lines and a queue they fill; and a   *)
(* shell (TerminalSession) over a queue of one place behind a server that   *)
(* sends more.  The two share no state: a behaviour belongs to one of them. *)
EXTENDS LogStream

CONSTANTS ShellCapacity, ExitCodes, MaxOutputs, MaxUnread, MaxOps \* of the shell

ASSUME ShellAssumption ==
    /\ ShellCapacity \in Nat \ {0} /\ ExitCodes \subseteq Nat
    /\ MaxOutputs \in Nat /\ MaxUnread \in Nat /\ MaxOps \in Nat

VARIABLES
    phase, rpc, inbound, outputs, sLoop, terminal, sFailure, completed, sLease, status,
    exitCode, outcome, gate, sIsClosed, accepted, done, poisoned, head, resizing, reading,
    \* the shell's queue
    sItems, sConsumers, sProducers, sClosed, sError, sProducer, sNext, sSent, sDelivered,
    sLost, sEnded

Shell == INSTANCE TerminalSession WITH
    Capacity <- ShellCapacity,
    loop <- sLoop, failure <- sFailure, lease <- sLease, isClosed <- sIsClosed,
    items <- sItems, waitingConsumers <- sConsumers, waitingProducers <- sProducers,
    closed <- sClosed, error <- sError, producer <- sProducer, next <- sNext, sent <- sSent,
    delivered <- sDelivered, lost <- sLost, ended <- sEnded

shellVars ==
    <<phase, rpc, inbound, outputs, sLoop, terminal, sFailure, completed, sLease, status,
      exitCode, outcome, gate, sIsClosed, accepted, done, poisoned, head, resizing, reading,
      sItems, sConsumers, sProducers, sClosed, sError, sProducer, sNext, sSent, sDelivered,
      sLost, sEnded>>

NoShell == phase = "starting" /\ rpc = "open" /\ inbound = <<>> /\ reading
NoLog ==
    /\ mode = "raw" /\ call = "open" /\ log = <<>> /\ by = "nobody"
    /\ next = [c \in {"reader"} |-> "idle"]

OnlyLog == NoShell /\ UNCHANGED shellVars
OnlyShell == NoLog /\ UNCHANGED vars

MCInit == Init /\ Shell!Init
MCNext == (OnlyLog /\ Next) \/ (OnlyShell /\ Shell!Next)
both == <<vars, shellVars>>

MCSpec ==
    /\ MCInit /\ [][MCNext]_both
    /\ WF_both(OnlyLog /\ LoopContinues)
    /\ WF_both(OnlyLog /\ EndContinues)
    /\ \A p \in {"loop", "flush"} : WF_both(OnlyLog /\ Resume(p))
    /\ WF_both(OnlyLog /\ call = "aborted" /\ StreamFails)
    /\ WF_both(OnlyLog /\ Read)
    /\ WF_both(OnlyShell /\ (Shell!StartSucceeds \/ Shell!StartFails))
    /\ WF_both(OnlyShell /\ Shell!LoopStep)
    /\ WF_both(OnlyShell /\ Shell!Read)

\* A shell that exited lost no output, and everybody hears of one end of it, with
\* its call and its lease over.
ShellWhole == Shell!OutputComplete /\ Shell!OneEnd
CallEndSettles == Shell!CallEndSettles
=============================================================================
