---------------------------- MODULE ErrorMapping ----------------------------
(***************************************************************************)
(* What a failed RPC means: the details of its status are parsed one by    *)
(* one (transports/node-grpc/error-info.ts), the error is mapped to a      *)
(* class of errors.ts (mapGrpcError, transports/node-grpc/errors.ts), and  *)
(* its readers decide: some look at the raw status and some, further out,  *)
(* at the mapped error, and they must not disagree about one failure.      *)
(*                                                                         *)
(* A reason stands for all reasons that are treated alike; UNAUTHENTICATED *)
(* for PERMISSION_DENIED too and INTERNAL for every other code.            *)
(***************************************************************************)
EXTENDS Integers, Sequences

CONSTANTS
    Delays,      \* delays of a RetryInfo that can be read
    MaxDetails   \* bound: details of one status

None == "" \* proto3: empty is absent

Codes ==
    {"UNAUTHENTICATED", "NOT_FOUND", "DEADLINE_EXCEEDED", "UNAVAILABLE",
     "RESOURCE_EXHAUSTED", "INTERNAL"}
Domains == {"cwsandbox.com", "other", None}

ClassOfCode ==
    [UNAUTHENTICATED |-> "authentication", NOT_FOUND |-> "not_found",
     DEADLINE_EXCEEDED |-> "timeout", UNAVAILABLE |-> "unavailable",
     RESOURCE_EXHAUSTED |-> "resource_exhausted", INTERNAL |-> "transport"]

\* The reasons mapGrpcError gives a class; the snapshot bucket that is being
\* provisioned has a class of its own, a kind of unavailable.
ClassOfReason ==
    [file |-> "file", sandbox_not_found |-> "not_found", other_not_found |-> "not_found",
     not_supported |-> "not_implemented", size_exceeded |-> "size_exceeded",
     quota_exceeded |-> "quota_exceeded", bucket_mismatch |-> "bucket_mismatch",
     provisioning |-> "bucket_provisioning", in_use |-> "in_use",
     etag_mismatch |-> "etag_mismatch", unavailable |-> "unavailable",
     shard_retiring |-> "unavailable", command_timeout |-> "timeout"]
Unmapped == {"overloaded", "capacity", "unknown"}
Reasons == DOMAIN ClassOfReason \cup Unmapped

NoDelay == -1
Details ==
    [kind : {"errorInfo"}, reason : Reasons \cup {None}, domain : Domains]
        \cup [kind : {"retryInfo"}, delay : Delays \cup {NoDelay}]
        \cup [kind : {"badRequest", "unknown", "broken"}]

Nothing == [reason |-> None, domain |-> None, delay |-> NoDelay, fields |-> FALSE]
NoError == [class |-> None]

VARIABLES
    code,      \* code of the failed RPC
    details,   \* details of its status
    at,        \* the next one
    parsed,    \* what the details said so far
    mapped     \* the error the caller gets, or NoError

errorVars == <<code, details, at, parsed, mapped>>

ErrorInit ==
    /\ code \in Codes
    /\ \E n \in 0..MaxDetails : details \in [1..n -> Details]
    /\ at = 1 /\ parsed = Nothing /\ mapped = NoError

----------------------------------------------------------------------------
(* Parsing.                                                                *)

\* The first ErrorInfo with a reason and the first RetryInfo with a delay count.
Note(p, d) ==
    CASE d.kind = "errorInfo" /\ d.reason # None /\ p.reason = None ->
            [p EXCEPT !.reason = d.reason, !.domain = d.domain]
      [] d.kind = "retryInfo" /\ p.delay = NoDelay -> [p EXCEPT !.delay = d.delay]
      [] d.kind = "badRequest" -> [p EXCEPT !.fields = TRUE]
      [] OTHER -> p

\* One detail; one that does not decode spoils them all.
ParseDetail ==
    /\ mapped = NoError /\ at <= Len(details)
    /\ IF details[at].kind = "broken"
       THEN parsed' = Nothing /\ at' = Len(details) + 1
       ELSE parsed' = Note(parsed, details[at]) /\ at' = at + 1
    /\ UNCHANGED <<code, details, mapped>>

----------------------------------------------------------------------------
(* Mapping.                                                                *)

OurReason(p) == p.domain = "cwsandbox.com" /\ p.reason # None

\* Mutant: a reason counts whatever domain it comes from.
ClassUngated(c, p) ==
    IF p.reason \in DOMAIN ClassOfReason THEN ClassOfReason[p.reason] ELSE ClassOfCode[c]
Class(c, p) ==
    IF OurReason(p) /\ p.reason \in DOMAIN ClassOfReason
    THEN ClassOfReason[p.reason]
    ELSE ClassOfCode[c]

\* An error of that class with GrpcErrorOptions.
GrpcError(class) ==
    [class |-> class, transportCode |-> code, reason |-> parsed.reason,
     domain |-> parsed.domain, retryDelayMs |-> parsed.delay]

MapGrpcError ==
    /\ mapped = NoError /\ at > Len(details)
    /\ mapped' = GrpcError(Class(code, parsed))
    /\ UNCHANGED <<code, details, at, parsed>>

ErrorNext == ParseDetail \/ MapGrpcError
ErrorSpec == ErrorInit /\ [][ErrorNext]_errorVars

----------------------------------------------------------------------------
(* Verdicts on the raw status.                                             *)

RawUnavailable == code = "UNAVAILABLE"
RawRetiring == OurReason(parsed) /\ parsed.reason = "shard_retiring"
RawOverloaded ==
    code = "RESOURCE_EXHAUSTED" /\ OurReason(parsed) /\ parsed.reason = "overloaded"
RawSandboxNotFound ==
    code = "NOT_FOUND" \/ (OurReason(parsed) /\ parsed.reason = "sandbox_not_found")
RawCapacity ==
    /\ code \in {"RESOURCE_EXHAUSTED", "UNAVAILABLE"}
    /\ OurReason(parsed) /\ parsed.reason \in {"capacity", "overloaded"}

(* Verdicts on the mapped error.  Behind it, as its cause, is the raw one. *)

\* All classes but that of what is not implemented are transport errors.
IsTransportError(e) == e.class # "not_implemented"
Says(e, reason) == IsTransportError(e) /\ e.domain = "cwsandbox.com" /\ e.reason = reason

IsGrpcUnavailable(e) ==
    (IsTransportError(e) /\ e.transportCode = "UNAVAILABLE") \/ RawUnavailable
IsRunnerShardRetiring(e) == Says(e, "shard_retiring") \/ RawRetiring
IsRunnerOverloadedError(e) == Says(e, "overloaded")
IsSandboxNotFound(e) == e.class = "not_found" \/ Says(e, "sandbox_not_found")
Retryable(e) ==
    e.class \in {"unavailable", "bucket_provisioning", "timeout", "resource_exhausted"}

----------------------------------------------------------------------------

\* What the details say by definition: the first reason and the first delay.
Infos == {i \in DOMAIN details : details[i].kind = "errorInfo" /\ details[i].reason # None}
RetryHints == {i \in DOMAIN details : details[i].kind = "retryInfo" /\ details[i].delay # NoDelay}
First(places) == details[CHOOSE i \in places : \A j \in places : i <= j]
Legible == \A i \in DOMAIN details : details[i].kind # "broken"
ParsedFirst ==
    /\ parsed.reason = IF Legible /\ Infos # {} THEN First(Infos).reason ELSE None
    /\ parsed.domain = IF Legible /\ Infos # {} THEN First(Infos).domain ELSE None
    /\ parsed.delay = IF Legible /\ RetryHints # {} THEN First(RetryHints).delay ELSE NoDelay

\* The layers agree about one failure, whatever details come with it and in
\* which order.  A channel is discarded and a runner given up on the same errors
\* inside the transport and outside, what create() repeats the polls repeat,
\* a missing sandbox is missing for both unless our service says something
\* else, and a reason from another domain decides nothing.
VerdictsAgree ==
    mapped # NoError =>
        /\ ParsedFirst
        /\ IsGrpcUnavailable(mapped) <=> RawUnavailable
        /\ IsRunnerShardRetiring(mapped) <=> RawRetiring
        /\ RawOverloaded => IsRunnerOverloadedError(mapped) /\ Retryable(mapped)
        /\ RawCapacity => Retryable(mapped)
        /\ RawSandboxNotFound /\ ~IsSandboxNotFound(mapped) => OurReason(parsed)
        /\ ~OurReason(parsed) =>
              mapped.class = ClassOfCode[code] /\ ~RawRetiring /\ ~IsRunnerOverloadedError(mapped)
=============================================================================
