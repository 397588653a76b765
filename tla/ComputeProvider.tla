--------------------------- MODULE ComputeProvider ---------------------------
(***************************************************************************)
(* The ComputeSDK provider (cwsandbox-computesdk/src/index.ts): calls on   *)
(* provider configs, each of which has one client and one owner tag and    *)
(* knows its sandboxes by that tag.                                        *)
(*                                                                         *)
(* A config is an object; another one may be given the same tag, and other *)
(* users of the account tag their sandboxes as they like.  The tags that   *)
(* two configs draw at random differ.  The sandboxes are active ones:      *)
(* list() asks for no others, and none ends unless it is destroyed.        *)
(***************************************************************************)
EXTENDS Naturals, FiniteSets

CONSTANTS
    Providers,   \* provider configs
    Callers,     \* at most one call each at a time
    OwnerTags,   \* valid tags somebody may choose
    RandomTags,  \* tags generateOwnerTag() may draw
    MaxCalls,    \* bound: calls in all
    MaxSandboxes \* bound: sandboxes ever made

VARIABLES
    ownerTag, \* per config: what it was given: a tag, NoTag or Invalid
    client,   \* clientCache: none, pending, resolved or rejected
    tag,      \* ownerTagCache: the tag, or NoTag
    drawn,    \* tags drawn at random
    calls,    \* calls begun
    call,     \* per caller: its call, or NoCall
    at,       \* per caller: idle, client, sent, served
    answer,   \* per caller: the ids the server answered with
    server,   \* the sandboxes that exist: number and tags
    made,     \* sandboxes made so far
    mine,     \* history: per config, what create() returned and nobody destroys
    expected, \* history: per caller, what its list() has to show
    listed    \* history: what the last list() had to show, and did

providerVars ==
    <<ownerTag, client, tag, drawn, calls, call, at, answer, server, made, mine, expected, listed>>

AdapterTag == "computesdk" \* ADAPTER_TAG
NoTag == "none"
Invalid == "invalid"
NoCall == [method |-> "none"]

ProviderInit ==
    /\ ownerTag \in [Providers -> OwnerTags \cup {NoTag, Invalid}]
    /\ client = [k \in Providers |-> "none"] /\ tag = [k \in Providers |-> NoTag] /\ drawn = {}
    /\ calls = 0 /\ call = [c \in Callers |-> NoCall]
    /\ at = [c \in Callers |-> "idle"] /\ answer = [c \in Callers |-> {}]
    /\ server = {} /\ made = 0
    /\ mine = [k \in Providers |-> {}] /\ expected = [c \in Callers |-> {}]
    /\ listed = [must |-> {}, shown |-> {}]

----------------------------------------------------------------------------
(* A call, up to resolveClient().                                          *)

Call(c, k, method, id) ==
    /\ at[c] = "idle" /\ calls < MaxCalls
    /\ calls' = calls + 1
    /\ call' = [call EXCEPT ![c] = [method |-> method, config |-> k, id |-> id]]
    /\ at' = [at EXCEPT ![c] = "client"]
    /\ client' = [client EXCEPT ![k] = IF @ = "none" THEN "pending" ELSE @]
    /\ LET gone == IF method = "destroy" THEN {id} ELSE {}
       IN  /\ mine' = [o \in Providers |-> mine[o] \ gone]
           /\ expected' = [d \in Callers |->
                IF d = c /\ method = "list" THEN mine[k] ELSE expected[d] \ gone]
    /\ UNCHANGED <<ownerTag, tag, drawn, answer, server, made, listed>>

\* createClient() or createSandboxClient() has answered, for good.
ClientMade(k, outcome) ==
    /\ client[k] = "pending"
    /\ client' = [client EXCEPT ![k] = outcome]
    /\ UNCHANGED <<ownerTag, tag, drawn, calls, call, at, answer, server, made, mine, expected, listed>>

----------------------------------------------------------------------------
(* The call goes on: resolveOwnerTag() and the request.                    *)

Rejects(c) ==
    /\ at' = [at EXCEPT ![c] = "idle"] /\ call' = [call EXCEPT ![c] = NoCall]
    /\ expected' = [expected EXCEPT ![c] = {}]

ClientRejected(c) ==
    /\ at[c] = "client" /\ client[call[c].config] = "rejected"
    /\ Rejects(c)
    /\ UNCHANGED <<ownerTag, client, tag, drawn, calls, answer, server, made, mine, listed>>

Scoped == {"create", "list"}

TagRefused(c) ==
    /\ at[c] = "client" /\ client[call[c].config] = "resolved"
    /\ call[c].method \in Scoped /\ ownerTag[call[c].config] = Invalid
    /\ Rejects(c)
    /\ UNCHANGED <<ownerTag, client, tag, drawn, calls, answer, server, made, mine, listed>>

\* Mutant: the tag that was drawn is not kept.
DrawnEachTime(k) ==
    IF ownerTag[k] # NoTag THEN tag' = [tag EXCEPT ![k] = ownerTag[k]] /\ UNCHANGED drawn
    ELSE \E t \in RandomTags \ drawn : drawn' = drawn \cup {t} /\ tag' = [tag EXCEPT ![k] = t]
\* The config's tag, drawn when it is first needed.
ResolveOwnerTag(k) ==
    IF tag[k] # NoTag THEN UNCHANGED <<tag, drawn>>
    ELSE IF ownerTag[k] # NoTag THEN tag' = [tag EXCEPT ![k] = ownerTag[k]] /\ UNCHANGED drawn
    ELSE \E t \in RandomTags \ drawn : drawn' = drawn \cup {t} /\ tag' = [tag EXCEPT ![k] = t]

Sends(c) ==
    /\ at[c] = "client" /\ client[call[c].config] = "resolved"
    /\ LET k == call[c].config
       IN  IF call[c].method \in Scoped
           THEN ownerTag[k] # Invalid /\ ResolveOwnerTag(k)
           ELSE UNCHANGED <<tag, drawn>>
    /\ at' = [at EXCEPT ![c] = "sent"]
    /\ UNCHANGED <<ownerTag, client, calls, call, answer, server, made, mine, expected, listed>>

----------------------------------------------------------------------------
(* The service.                                                            *)

Holds(tags) == {s.id : s \in {t \in server : tags \subseteq t.tags}}

\* The tags create() gives a sandbox and list() asks for.
CallTags(c) == {AdapterTag, tag[call[c].config]}

\* A request is carried out.
Serves(c) ==
    /\ at[c] = "sent"
    /\ CASE call[c].method = "create" ->
                /\ made < MaxSandboxes /\ made' = made + 1
                /\ server' = server \cup {[id |-> made + 1, tags |-> CallTags(c)]}
                /\ answer' = [answer EXCEPT ![c] = {made + 1}]
         [] call[c].method = "list" ->
                /\ answer' = [answer EXCEPT ![c] = Holds(CallTags(c))]
                /\ UNCHANGED <<server, made>>
         [] call[c].method = "destroy" ->
                /\ server' = {s \in server : s.id # call[c].id}
                /\ answer' = [answer EXCEPT ![c] = {}]
                /\ UNCHANGED made
    /\ at' = [at EXCEPT ![c] = "served"]
    /\ UNCHANGED <<ownerTag, client, tag, drawn, calls, call, mine, expected, listed>>

\* Somebody else makes a sandbox, with tags that may resemble ours.
OtherMakes(tags) ==
    /\ made < MaxSandboxes /\ made' = made + 1
    /\ server' = server \cup {[id |-> made + 1, tags |-> tags]}
    /\ UNCHANGED <<ownerTag, client, tag, drawn, calls, call, at, answer, mine, expected, listed>>

----------------------------------------------------------------------------
(* The answer.                                                             *)

Answered(c) ==
    /\ at[c] = "served"
    /\ LET k == call[c].config
       IN  /\ mine' = IF call[c].method = "create"
                      THEN [mine EXCEPT ![k] = @ \cup answer[c]] ELSE mine
           /\ listed' = IF call[c].method = "list"
                        THEN [must |-> expected[c], shown |-> answer[c]] ELSE listed
    /\ Rejects(c)
    /\ answer' = [answer EXCEPT ![c] = {}]
    /\ UNCHANGED <<ownerTag, client, tag, drawn, calls, server, made>>

\* The RPC fails; what failed may have been carried out.
Fails(c) ==
    /\ at[c] \in {"sent", "served"}
    /\ Rejects(c)
    /\ answer' = [answer EXCEPT ![c] = {}]
    /\ UNCHANGED <<ownerTag, client, tag, drawn, calls, server, made, mine, listed>>

----------------------------------------------------------------------------

\* Sandboxes a caller of the provider knows of.
Known == UNION {mine[k] : k \in Providers}

ProviderNext ==
    \/ \E c \in Callers, k \in Providers :
        \/ \E method \in Scoped : Call(c, k, method, 0)
        \/ \E id \in Known : Call(c, k, "destroy", id)
    \/ \E k \in Providers, outcome \in {"resolved", "rejected"} : ClientMade(k, outcome)
    \/ \E c \in Callers :
        ClientRejected(c) \/ TagRefused(c) \/ Sends(c) \/ Serves(c) \/ Answered(c) \/ Fails(c)
    \/ \E t \in OwnerTags, more \in SUBSET {AdapterTag} : OtherMakes({t} \cup more)

----------------------------------------------------------------------------

\* list() shows every sandbox that create() of the same config had returned when
\* it was called, that nobody destroys and that has not ended, whichever calls of
\* the config overlap, first ones that share the making of the client and of the
\* tag included.
OwnListed == listed.must \subseteq listed.shown
=============================================================================
