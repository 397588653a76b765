---------------------------- MODULE NetworkRules ----------------------------
(***************************************************************************)
(* The rule lists of a network configuration on their way between a caller *)
(* and the service: validation (internal/network.ts), the write and the    *)
(* read (transports/node-grpc/mappers.ts).  A caller reads a list, edits   *)
(* it and writes it back, and is refused a list that cannot be shown: what *)
(* the mapping lost on the way would be lost for the sandbox.              *)
(*                                                                         *)
(* Names, address blocks with their exceptions and labels are opaque.      *)
(***************************************************************************)
EXTENDS Integers, Sequences, FiniteSets

CONSTANTS
    Names,       \* DNS names as they are spelled
    Normal,      \* normalizeDnsName: the name trimmed and in lower case
    Grants,      \* normal names: DNS-1123, with one leftmost wildcard at most
    Blocks,      \* address blocks
    GoodBlocks,  \* those without an empty string
    Labels,      \* labels of a selector
    PortLists,   \* stored lists of port ranges
    MaxRules,    \* bound: rules of a stored list
    MaxNew       \* bound: rules a caller makes up

NoEnd == 0      \* stored: no end of the range
NoProtocol == ""
Absent == -1    \* the caller omits it
Unnamed == "omitted"

VARIABLES
    list,     \* which list: egress or ingress
    stage,    \* given, stored, shown or refused
    given,    \* the caller's rules
    stored,   \* the rules the service has
    shown,    \* what the caller was shown: no list, or one
    before,   \* history: the lists that were stored when the caller read them
    ours      \* history: the rules were written by a caller of this client

rulesVars == <<list, stage, given, stored, shown, before, ours>>

Scopes == {"same_org", "same_user", "sandbox_network"}
AnyScope == Scopes \cup {"unspecified"}

Selectors == [kind : {"selector"}, pods : SUBSET Labels, namespaces : SUBSET Labels]
StoredSources ==
    [kind : {"cidr"}, block : Blocks] \cup [kind : {"tenant"}, scope : AnyScope]
        \cup [kind : {"any"}, any : BOOLEAN] \cup [kind : {"unknown"}]
StoredDestinations ==
    [kind : {"httpsHostname"}, name : Names, except : BOOLEAN] \cup Selectors \cup StoredSources

GivenSources ==
    [kind : {"cidr"}, block : Blocks] \cup [kind : {"tenant"}, scope : AnyScope]
        \cup [kind : {"any"}]
GivenDestinations == [kind : {"dnsName"}, name : Names] \cup Selectors \cup GivenSources

Stored == [to : IF list = "egress" THEN StoredDestinations ELSE StoredSources, ports : PortLists]
Unshowable == {}

----------------------------------------------------------------------------
(* Validation.                                                             *)

IsHttps443(range) ==
    /\ range.port = 443 /\ range.endPort \in {Absent, 443}
    /\ range.protocol \in {Unnamed, "TCP", "tcp"}
IsHttpsOnlyPorts(ports) == \A i \in DOMAIN ports : IsHttps443(ports[i])

ValidPort(port) == port \in 1..65535
ValidRange(range) ==
    /\ ValidPort(range.port)
    /\ range.endPort # Absent => ValidPort(range.endPort) /\ range.endPort >= range.port

ValidDestination(d) ==
    CASE d.kind = "dnsName" -> Normal[d.name] \in Grants
      [] d.kind = "cidr" -> d.block \in GoodBlocks
      [] d.kind = "tenant" -> d.scope \in Scopes
      [] d.kind = "any" -> TRUE
      [] d.kind = "selector" -> d.pods # {}

\* Exactly one destination, and only HTTPS to a name.
ValidRule(rule) ==
    \E d \in rule.to :
        /\ rule.to = {d} /\ ValidDestination(d)
        /\ \A i \in DOMAIN rule.ports : ValidRange(rule.ports[i])
        /\ d.kind = "dnsName" => IsHttpsOnlyPorts(rule.ports)

\* Rules and a flag that denies all egress exclude each other.
ValidRules(rules, deny) ==
    /\ \A i \in DOMAIN rules : ValidRule(rules[i])
    /\ ~(list = "egress" /\ deny /\ rules # <<>>)

----------------------------------------------------------------------------
(* The write.                                                              *)

ToProtoPortRange(range) ==
    [port |-> range.port,
     endPort |-> IF range.endPort = Absent THEN NoEnd ELSE range.endPort,
     protocol |-> IF range.protocol = Unnamed THEN NoProtocol ELSE range.protocol]

ToProtoDestination(d) ==
    CASE d.kind = "dnsName" ->
            [kind |-> "httpsHostname", name |-> Normal[d.name], except |-> FALSE]
      [] d.kind = "any" -> [kind |-> "any", any |-> TRUE]
      [] d.kind \in {"cidr", "tenant", "selector"} -> d

ToProtoRule(rule) ==
    [to |-> ToProtoDestination(CHOOSE d \in rule.to : TRUE),
     ports |-> [i \in DOMAIN rule.ports |-> ToProtoPortRange(rule.ports[i])]]

----------------------------------------------------------------------------
(* The read.                                                               *)

ToSdkPortRange(range) ==
    [port |-> range.port,
     endPort |-> IF range.endPort = NoEnd THEN Absent ELSE range.endPort,
     protocol |-> IF range.protocol = NoProtocol THEN Unnamed ELSE range.protocol]
ToSdkPorts(ports) == [i \in DOMAIN ports |-> ToSdkPortRange(ports[i])]

Showable(rule) ==
    CASE rule.to.kind = "httpsHostname" ->
            rule.to.name # "" /\ ~rule.to.except /\ IsHttpsOnlyPorts(ToSdkPorts(rule.ports))
      [] rule.to.kind = "cidr" -> TRUE
      [] rule.to.kind = "tenant" -> rule.to.scope \in Scopes
      [] rule.to.kind = "any" -> rule.to.any
      [] rule.to.kind = "selector" -> rule.to.pods # {}
      [] rule.to.kind = "unknown" -> FALSE

\* A name is shown without its ports.
ToSdkRule(rule) ==
    CASE rule.to.kind = "httpsHostname" ->
            [to |-> {[kind |-> "dnsName", name |-> rule.to.name]}, ports |-> <<>>]
      [] rule.to.kind = "any" -> [to |-> {[kind |-> "any"]}, ports |-> ToSdkPorts(rule.ports)]
      [] rule.to.kind \in {"cidr", "tenant", "selector"} ->
            [to |-> {rule.to}, ports |-> ToSdkPorts(rule.ports)]

\* One rule that cannot be shown hides the list.
ToSdkConfigRules(rules) ==
    IF \A i \in DOMAIN rules : Showable(rules[i])
    THEN {[i \in DOMAIN rules |-> ToSdkRule(rules[i])]}
    ELSE Unshowable

----------------------------------------------------------------------------

Given ==
    [to : {{}} \cup {{d, e} : d, e \in IF list = "egress" THEN GivenDestinations ELSE GivenSources},
     ports : {ToSdkPorts(ports) : ports \in PortLists}]

RulesInit ==
    /\ list \in {"egress", "ingress"}
    /\ \/ stage = "given" /\ stored = <<>> /\ \E n \in 0..MaxNew : given \in [1..n -> Given]
       \/ stage = "stored" /\ given = <<>> /\ \E n \in 0..MaxRules : stored \in [1..n -> Stored]
    /\ shown = Unshowable /\ before = {} /\ ours = FALSE

\* The caller's options are validated, and written.
WriteRules ==
    /\ stage = "given"
    /\ \E deny \in BOOLEAN :
        IF ValidRules(given, deny)
        THEN /\ stage' = "stored"
             /\ stored' = [i \in DOMAIN given |-> ToProtoRule(given[i])]
             /\ ours' = (before = {})
        ELSE stage' = "refused" /\ UNCHANGED <<stored, ours>>
    /\ UNCHANGED <<list, given, shown, before>>

\* The configuration is read.
ReadRules ==
    /\ stage = "stored" /\ before = {}
    /\ stage' = "shown"
    /\ shown' = ToSdkConfigRules(stored)
    /\ before' = {stored}
    /\ UNCHANGED <<list, given, stored, ours>>

\* The caller gives the rules it was shown.
GiveShown ==
    /\ stage = "shown" /\ given' \in shown
    /\ stage' = "given"
    /\ UNCHANGED <<list, stored, shown, before, ours>>

RulesNext == WriteRules \/ ReadRules \/ GiveShown
RulesSpec == RulesInit /\ [][RulesNext]_rulesVars

----------------------------------------------------------------------------

\* What a stored rule grants: a name stands for its normal spelling, and a name
\* without ports for HTTPS.
Meaning(rule) ==
    IF rule.to.kind = "httpsHostname"
    THEN [to |-> [rule.to EXCEPT !.name = Normal[@]],
          ports |-> IF IsHttpsOnlyPorts(ToSdkPorts(rule.ports)) THEN <<>> ELSE rule.ports]
    ELSE rule

\* Rules that are shown can be written back, if the client takes them, without
\* a change to what the sandbox is granted, whoever wrote them and whatever this
\* client knows of them; and what a caller wrote it is shown, and may write
\* again.
RulesKept ==
    /\ stage = "stored" =>
        \A rules \in before :
            [i \in DOMAIN stored |-> Meaning(stored[i])] = [i \in DOMAIN rules |-> Meaning(rules[i])]
    /\ ours /\ stage = "shown" =>
        \E rules \in shown : \A i \in DOMAIN rules : ValidRule(rules[i])
=============================================================================
