----------------------------- MODULE SandboxView -----------------------------
(***************************************************************************)
(* What a handle shows of the services of its sandbox: the mapping of a    *)
(* server's record (transports/node-grpc/mappers.ts) and the merge of it   *)
(* into the cached metadata (sandbox.ts, updateMetadata).  Most fields are *)
(* replaced by every answer; the address of a TLS service is kept while    *)
(* the service is listed by a live sandbox, as answers may omit it; ports  *)
(* are kept until others come.  Several calls of a handle may overlap, so  *)
(* that an older answer is applied after a newer one.                      *)
(*                                                                         *)
(* A service is its port and name.  Addresses and URLs are numbered as     *)
(* they are assigned; 0 is the empty string.                               *)
(***************************************************************************)
EXTENDS Integers, FiniteSets

CONSTANTS
    Services,   \* the services of the sandbox
    Offers,     \* the sets of services it may start with
    Tls,        \* those with a TLS passthrough endpoint, the others have HTTPS
    Overlap,    \* bound: calls of the handle that overlap
    MaxAssigns, \* bound: addresses a TLS service is given one after the other
    MaxAnswers  \* bound: answers of the server

VARIABLES
    sandboxState, \* server: state of the sandbox, "newer" is one this client does not know
    rows,         \* server: the services its records list
    assigned,     \* server: per service the latest address or URL, 0 if none
    answers,      \* how many records it has given
    inFlight,     \* the records on their way to the handle, one per call
    view,         \* Sandbox.metadata
    applied,      \* history: the record applied last
    last          \* history: per service the address applied last

serverVars == <<sandboxState, rows, assigned>>
historyVars == <<applied, last>>
viewVars == <<serverVars, answers, inFlight, view, historyVars>>

Nothing == <<>>
Known == {"preparing", "creating", "running", "paused"}

----------------------------------------------------------------------------
(* The mapping of one record.                                              *)

Status(record) == IF record.state = "preparing" THEN "creating" ELSE record.state

Listed(record) == DOMAIN record.rows
Visible(record) == {s \in Listed(record) : record.rows[s].visible}
Row(record, s) == record.rows[s]

\* service.url || service.endpoint?.url || "", but for TLS passthrough.
UrlOf(row) == IF row.url # 0 THEN row.url ELSE row.endpointUrl
ServiceUrls(record) ==
    [s \in {r \in Listed(record) :
               Row(record, r).kind # "tls" /\ UrlOf(Row(record, r)) # 0} |-> UrlOf(Row(record, s))]

\* Endpoints echo the timeout that applies, also when the URL is withheld.
ServiceEndpoints(record) ==
    [s \in {r \in Listed(record) : Row(record, r).kind = "https" /\ Row(record, r).timeout} |->
        Row(record, s).endpointUrl]

ServiceAddresses(record) ==
    [s \in {r \in Listed(record) : Row(record, r).kind = "tls" /\ Row(record, r).address # 0} |->
        Row(record, s).address]

----------------------------------------------------------------------------
(* updateMetadata.                                                         *)

\* ADDRESS_RETAIN_STATUSES.
Retains(record) == Status(record) \in {"creating", "running"}

\* Mutant: an answer that omits the address clears it.
MergedNone(record) == IF Retains(record) THEN ServiceAddresses(record) ELSE Nothing

\* mergeServiceAddresses: what is listed or has an address now keeps the one
\* it had, unless there is a new one.
MergedAddresses(record) ==
    LET now  == ServiceAddresses(record)
        live == Visible(record) \cup DOMAIN now
        kept == DOMAIN view.addresses \cap live
    IN  IF Retains(record)
        THEN [s \in DOMAIN now \cup kept |-> IF s \in DOMAIN now THEN now[s] ELSE view.addresses[s]]
        ELSE Nothing

\* mergeExposedPorts.
MergedPorts(record) == IF Visible(record) # {} THEN Visible(record) ELSE view.ports

Updated(record) ==
    [status |-> Status(record), urls |-> ServiceUrls(record),
     endpoints |-> ServiceEndpoints(record), addresses |-> MergedAddresses(record),
     ports |-> MergedPorts(record)]

\* inspect() returns the record, with the handle's fields where it has them.
Inspected(record, after) ==
    [after EXCEPT
        !.addresses = IF after.addresses # Nothing THEN @ ELSE ServiceAddresses(record)]

----------------------------------------------------------------------------
(* The server.                                                             *)

Hidden(kind) ==
    [visible |-> TRUE, kind |-> kind, url |-> 0, endpointUrl |-> 0, address |-> 0,
     timeout |-> FALSE]

Unexposed == [Hidden("none") EXCEPT !.visible = FALSE]

\* How a record may show a service: an answer may omit its visibility, the
\* endpoint, or its address or URL, and an old server gives the URL outside of
\* the endpoint.  Assumed: a row that shows an address has a visibility.
RowsOf(s) ==
    IF s \in Tls
    THEN {Unexposed, Hidden("none"), Hidden("tls"),
          [Hidden("tls") EXCEPT !.address = assigned[s]]}
    ELSE {Unexposed,
          [Hidden("none") EXCEPT !.url = assigned[s]],
          [Hidden("https") EXCEPT !.timeout = TRUE],
          [Hidden("https") EXCEPT !.timeout = TRUE, !.endpointUrl = assigned[s]]}

Records ==
    {[state |-> state, rows |-> shown] :
        state \in IF sandboxState = "creating" THEN {"preparing", "creating"} ELSE {sandboxState},
        shown \in {f \in [rows -> UNION {RowsOf(s) : s \in rows}] :
                      \A s \in rows : f[s] \in RowsOf(s)}}

Follows(state) ==
    CASE state = "creating" -> {"running"}
      [] state = "running"  -> {"paused", "newer"}
      [] state = "paused"   -> {"running"}
      [] OTHER -> {}

Moves ==
    /\ sandboxState' \in Follows(sandboxState)
    /\ UNCHANGED <<rows, assigned, answers, inFlight, view, historyVars>>

Assigns(s) ==
    /\ s \in rows /\ assigned[s] < IF s \in Tls THEN MaxAssigns ELSE 1
    /\ assigned' = [assigned EXCEPT ![s] = @ + 1]
    /\ UNCHANGED <<sandboxState, rows, answers, inFlight, view, historyVars>>

Withdraws(s) ==
    /\ s \in rows
    /\ rows' = rows \ {s}
    /\ UNCHANGED <<sandboxState, assigned, answers, inFlight, view, historyVars>>

\* The server takes a call up and gives the record of that moment.
Gives ==
    /\ Cardinality(inFlight) < Overlap /\ answers < MaxAnswers
    /\ \E record \in Records : inFlight' = inFlight \cup {record}
    /\ answers' = answers + 1
    /\ UNCHANGED <<serverVars, view, historyVars>>

----------------------------------------------------------------------------
(* The handle.                                                             *)

Unset == [status |-> "unset", urls |-> Nothing, endpoints |-> Nothing, addresses |-> Nothing,
          ports |-> {}]

\* An answer is mapped and merged in one step.
Applies(record) ==
    /\ record.state \in Known
    /\ view' = Updated(record)
    /\ applied' = record
    /\ last' = [s \in Services |->
                    IF s \in DOMAIN ServiceAddresses(record) THEN ServiceAddresses(record)[s] ELSE last[s]]
    /\ inFlight' = inFlight \ {record}
    /\ UNCHANGED <<serverVars, answers>>

\* toSdkSandboxStatus throws on a state of a newer server: the call rejects.
Unreadable(record) ==
    /\ record.state \notin Known
    /\ inFlight' = inFlight \ {record}
    /\ UNCHANGED <<serverVars, answers, view, historyVars>>

ViewInit ==
    /\ sandboxState = "creating" /\ rows \in Offers
    /\ assigned = [s \in Services |-> 0]
    /\ answers = 0 /\ inFlight = {}
    /\ view = Unset /\ applied = Nothing
    /\ last = [s \in Services |-> 0]

ViewNext ==
    \/ Moves
    \/ \E s \in Services : Assigns(s) \/ Withdraws(s)
    \/ Gives
    \/ \E record \in inFlight : Applies(record) \/ Unreadable(record)
ViewSpec == ViewInit /\ [][ViewNext]_viewVars

----------------------------------------------------------------------------

\* What a handle shows is what the answer it took last says, whatever it
\* showed before and in whatever order answers come: URLs are those of that
\* answer and never of a TLS service, the two lists that name a URL agree, and an
\* address belongs to a service that the answer still exposes in a live sandbox,
\* has its port among those shown, and is the latest the handle was told.
ShowsAnswer ==
    applied # Nothing =>
        /\ \A s \in DOMAIN view.urls :
              s \in Listed(applied) \ Tls
                  /\ view.urls[s] \in {Row(applied, s).url, Row(applied, s).endpointUrl} \ {0}
        /\ \A s \in Listed(applied) \ Tls :
              Row(applied, s).url + Row(applied, s).endpointUrl > 0 => s \in DOMAIN view.urls
        /\ \A s \in DOMAIN view.endpoints :
              view.endpoints[s] # 0 =>
                  s \in DOMAIN view.urls /\ view.urls[s] = view.endpoints[s]
        /\ \A s \in DOMAIN view.addresses :
              /\ s \in view.ports
              /\ s \in Visible(applied) \cap Tls /\ applied.state \in {"preparing", "creating", "running"}
              /\ view.addresses[s] = last[s]

\* An address is not lost while its service stays exposed: the next answer of a
\* live sandbox that lists the service with a visibility leaves the handle with
\* one, although the answer omits it; and what inspect() returns shows it too.
AddressesKept ==
    view' # view =>
        \A s \in DOMAIN view.addresses :
            s \in Visible(applied') /\ applied'.state \in {"preparing", "creating", "running"} =>
                /\ s \in DOMAIN view'.addresses
                /\ s \in DOMAIN Inspected(applied', view').addresses

\* Both: what a handle shows of the services is what the answers said.
HandleShows == [][ShowsAnswer' /\ AddressesKept]_viewVars
=============================================================================
