---------------------------- MODULE MCControlPlane ----------------------------
(* The control plane: one timed call, overlapping updates of a network        *)
(* configuration, the options of a create and the parts of its container, its *)
(* contents, the rules of a network, what a failed RPC means, what a handle   *)
(* shows of its services, and the ComputeSDK provider on top.                 *)
(* They share no state: a behaviour belongs to one of them, and the others    *)
(* keep one fixed initial state.                                              *)
EXTENDS ControlCalls, NetworkConfigUpdate

CONSTANTS
    Delays, MaxDetails,                                  \* of ErrorMapping
    Names, Grants, Blocks, GoodBlocks, Labels, MaxRules, MaxNew, \* of NetworkRules
    Scratch, Registered, MaxGiven,                       \* of CreateRequest
    Keys, Stores, MaxSecrets, VolumeNames, PortNumbers, MaxParts, \* of ContainerParts
    Services, Offers, Tls, Overlap, MaxAssigns, MaxAnswers, \* of SandboxView
    Cap, MaxSize,                                        \* of ContentsRead
    Providers, Callers, OwnerTags, RandomTags, MaxCalls, MaxSandboxes, \* of ComputeProvider
    UrlWait, UrlPoll, UrlLate                            \* of ServiceUrl

Normal == [n \in Names |-> IF n = "PyPI.org" THEN "pypi.org" ELSE n]

Ports(port, end, protocol) == [port |-> port, endPort |-> end, protocol |-> protocol]
\* None, HTTPS, HTTPS spelled out twice, another port, and a range upside down.
PortLists ==
    {<<>>, <<Ports(443, 0, "")>>, <<Ports(443, 443, "tcp"), Ports(443, 0, "")>>,
     <<Ports(80, 0, "UDP")>>, <<Ports(90, 80, "")>>}

PathOf(segs, spelling) == [segs |-> segs, spelling |-> spelling]
\* "/", "/a" spelled in three ways, a path under it and one beside it, and "/etc".
Paths ==
    {PathOf(<<>>, "canonical"), PathOf(<<"a">>, "canonical"), PathOf(<<"a">>, "other"),
     PathOf(<<"a">>, "relative"), PathOf(<<"a", "b">>, "canonical"),
     PathOf(<<"ab">>, "canonical"), PathOf(<<"etc">>, "canonical")}
Reserved == {<<"etc">>}

ASSUME PlaneAssumption ==
    /\ Delays \subseteq Nat /\ {MaxDetails, MaxRules, MaxNew, MaxGiven, Cap, MaxSize} \subseteq Nat
    /\ Normal \in [Names -> Names] /\ \A n \in Names : Normal[Normal[n]] = Normal[n]
    /\ Grants \subseteq Names \ {""} /\ GoodBlocks \subseteq Blocks
    /\ Scratch \cap Registered = {} /\ "scratch" \notin Registered
    /\ IsFiniteSet(RandomTags) /\ RandomTags \cap (OwnerTags \cup {"none"}) = {}
    /\ {MaxCalls, MaxSandboxes} \subseteq Nat
    /\ {MaxSecrets, MaxParts} \subseteq Nat /\ PortNumbers \subseteq Nat
    /\ Tls \subseteq Services /\ Offers \subseteq SUBSET Services
    /\ {Overlap, MaxAssigns, MaxAnswers} \subseteq Nat
    /\ UrlWait \in Nat \ {0} /\ UrlPoll \in Nat \ {0} /\ UrlLate \in Nat

VARIABLES
    subject,                                              \* which of them
    code, details, at, parsed, mapped,                    \* of Errors
    list, stage, givenRules, stored, shown, before, ours, \* of Rules
    kind, options, verdict, wire, scratch,                \* of Creation
    topic, parts, decision, container,                    \* of Parts
    source, length, timed, timer, abort, contentsPc, handle, listening, offset, ending, result,
    sandboxState, rows, offered, answers, inFlight, view, applied, last, \* of View
    ownerTag, client, tag, drawn, calls, call, place, answer, server, made, mine, expected, listed,
    clock, state, wake, assigned, looked, saw             \* of Provider and Url

Errors == INSTANCE ErrorMapping
Rules == INSTANCE NetworkRules WITH given <- givenRules
Creation == INSTANCE CreateRequest
Parts == INSTANCE ContainerParts
Contents == INSTANCE ContentsRead WITH pc <- contentsPc
View == INSTANCE SandboxView WITH assigned <- offered
Provider == INSTANCE ComputeProvider WITH at <- place
Url == INSTANCE ServiceUrl

errorVars == <<code, details, at, parsed, mapped>>
rulesVars == <<list, stage, givenRules, stored, shown, before, ours>>
requestVars == <<kind, options, verdict, wire, scratch>>
partsVars == <<topic, parts, decision, container>>
contentsVars ==
    <<source, length, timed, timer, abort, contentsPc, handle, listening, offset, ending, result>>
handleVars == <<sandboxState, rows, offered, answers, inFlight, view, applied, last>>
providerVars ==
    <<ownerTag, client, tag, drawn, calls, call, place, answer, server, made, mine, expected,
      listed, clock, state, wake, assigned, looked, saw>>
all ==
    <<subject, controlVars, updateVars, errorVars, rulesVars, requestVars, contentsVars,
      partsVars, handleVars, providerVars>>

NoCall == op = "inspect"
NoFailure == code = "INTERNAL" /\ details = <<>>
NoRules == list = "egress" /\ stage = "stored" /\ stored = <<>>
NoCreation == kind = "run"
NoView == rows = CHOOSE offer \in Offers : TRUE
NoParts == topic = "paths"
NoContents == source = "missing" /\ length = 0 /\ timed = FALSE

MCInit ==
    /\ subject \in {"call", "update", "failure", "rules", "creation", "parts", "contents",
                   "view", "provider", "url"}
    /\ subject # "call" => NoCall
    /\ subject # "failure" => NoFailure
    /\ subject # "rules" => NoRules
    /\ subject # "creation" => NoCreation
    /\ subject # "parts" => NoParts
    /\ subject # "contents" => NoContents
    /\ subject # "view" => NoView
    /\ ControlInit /\ UpdateInit
    /\ Errors!ErrorInit /\ Rules!RulesInit /\ Creation!RequestInit
    /\ Parts!PartsInit /\ Contents!ContentsInit
    /\ View!ViewInit /\ Provider!ProviderInit /\ Url!UrlInit
    /\ subject # "provider" => \A k \in Providers : ownerTag[k] = Provider!NoTag

OnlyCall ==
    /\ subject = "call"
    /\ UNCHANGED <<subject, updateVars, errorVars, rulesVars, requestVars, contentsVars,
                   partsVars, handleVars, providerVars>>
OnlyUpdate ==
    /\ subject = "update"
    /\ UNCHANGED <<subject, controlVars, errorVars, rulesVars, requestVars, contentsVars,
                   partsVars, handleVars, providerVars>>
OnlyFailure ==
    /\ subject = "failure"
    /\ UNCHANGED <<subject, controlVars, updateVars, rulesVars, requestVars, contentsVars,
                   partsVars, handleVars, providerVars>>
OnlyRules ==
    /\ subject = "rules"
    /\ UNCHANGED <<subject, controlVars, updateVars, errorVars, requestVars, contentsVars,
                   partsVars, handleVars, providerVars>>
OnlyCreation ==
    /\ subject = "creation"
    /\ UNCHANGED <<subject, controlVars, updateVars, errorVars, rulesVars, contentsVars,
                   partsVars, handleVars, providerVars>>
OnlyParts ==
    /\ subject = "parts"
    /\ UNCHANGED <<subject, controlVars, updateVars, errorVars, rulesVars, requestVars, contentsVars,
                   handleVars, providerVars>>
OnlyContents ==
    /\ subject = "contents"
    /\ UNCHANGED <<subject, controlVars, updateVars, errorVars, rulesVars, requestVars,
                   partsVars, handleVars, providerVars>>
OnlyView ==
    /\ subject = "view"
    /\ UNCHANGED <<subject, controlVars, updateVars, errorVars, rulesVars, requestVars, contentsVars,
                   partsVars, providerVars>>
OnlyProvider ==
    /\ subject = "provider"
    /\ UNCHANGED <<subject, controlVars, updateVars, errorVars, rulesVars, requestVars, contentsVars,
                   partsVars, handleVars>>
    /\ UNCHANGED <<clock, state, wake, assigned, looked, saw>>
OnlyUrl ==
    /\ subject = "url"
    /\ UNCHANGED <<subject, controlVars, updateVars, errorVars, rulesVars, requestVars, contentsVars,
                   partsVars, handleVars>>
    /\ UNCHANGED <<ownerTag, client, tag, drawn, calls, call, place, answer, server, made, mine,
                   expected, listed>>

MCNext ==
    \/ OnlyCall /\ ControlNext
    \/ OnlyUpdate /\ UpdateNext
    \/ OnlyFailure /\ Errors!ErrorNext
    \/ OnlyRules /\ Rules!RulesNext
    \/ OnlyCreation /\ Creation!RequestNext
    \/ OnlyParts /\ Parts!PartsNext
    \/ OnlyContents /\ Contents!ContentsNext
    \/ OnlyView /\ View!ViewNext
    \/ OnlyProvider /\ Provider!ProviderNext
    \/ OnlyUrl /\ Url!UrlNext
MCSpec == MCInit /\ [][MCNext]_all /\ WF_all(Timer /\ OnlyCall)

\* What the caller asked for is what the service is asked: where it gives the
\* options of a sandbox, where it lists parts of a container that may clash, and
\* where it edits the rules it was shown.
RequestKept == Creation!OptionsSent /\ Parts!PartsSent /\ Rules!RulesKept
VerdictsAgree == Errors!VerdictsAgree
ContentsKept == Contents!ContentsKept
HandleShows == View!HandleShows
\* The provider finds its sandboxes again, and the URLs of their services.
ProviderKept == Provider!OwnListed /\ Url!UrlNotMissed
=============================================================================
