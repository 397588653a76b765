---------------------------- MODULE CreateRequest ----------------------------
(***************************************************************************)
(* The options of run(), runFromTemplate() and runFromFile(): which are    *)
(* refused (internal/validation), what is sent (toProtoCreateRequest and   *)
(* its siblings in transports/node-grpc/mappers.ts) and what the handle    *)
(* remembers of its volumes.  The tables of the two files must agree: an   *)
(* option that is accepted and not sent is lost without a word, and one    *)
(* that is sent unasked replaces what the template says.                   *)
(*                                                                         *)
(* An option is "set" to something, or to what asks for nothing (an empty  *)
(* list or map, "", 0); the checks of a single value are left out.         *)
(***************************************************************************)
EXTENDS Integers, FiniteSets

CONSTANTS
    Scratch,     \* names of scratch volumes
    Registered,  \* names of registered volumes
    MaxGiven     \* bound: options of one call

DefaultScratch == "scratch" \* DEFAULT_SCRATCH_VOLUME_NAME
DefaultImage == "python"    \* DEFAULT_CONTAINER_IMAGE

VARIABLES
    kind,     \* which of the three calls
    options,  \* the caller's options: a function on those that are given
    verdict,  \* building, accepted or refused
    wire,     \* the fields of the request that are there, each with its value
    scratch   \* what the handle remembers: no set of names, or one

requestVars == <<kind, options, verdict, wire, scratch>>

ContainerFields ==
    {"command", "environmentVariables", "fileSystemSnapshot", "mountedFiles",
     "resources", "secrets", "volumes"}
Everywhere == {"annotations", "maxLifetimeSeconds", "network", "runnerIds", "tags"}

Fields ==
    [run |->
        Everywhere \cup (ContainerFields \ {"command"}) \cup
        {"containerImage", "imagePullCredentials", "networkConfigId", "objectStorageAccess",
         "runtimeClass", "securityContext", "services", "workingDir"},
     template |->
        Everywhere \cup ContainerFields \cup {"containerImage", "networkConfigId", "services"},
     file |->
        Everywhere \cup
        {"control", "defaultResources", "imageOverrides", "imagePullCredentials",
         "objectStorageAccess", "primaryService", "requestId"}]

Unsupported ==
    [run |-> {"ports"},
     template |->
        {"ports", "imagePullCredentials", "objectStorageAccess", "runtimeClass",
         "securityContext", "workingDir"},
     file |->
        {"ports", "containerImage", "networkConfigId", "runtimeClass", "securityContext",
         "services", "workingDir"} \cup ContainerFields]

Volumes == [scratch : SUBSET Scratch, registered : SUBSET Registered]
NoVolumes == [scratch |-> {}, registered |-> {}]

\* A secret may clash with an environment variable, a file with the path at
\* which a volume is mounted.
Values(f) ==
    CASE f = "volumes" -> Volumes
      [] f = "control" -> {"empty", "unspecified", "platform", "container_engine"}
      [] f \in {"secrets", "mountedFiles"} -> {"empty", "set", "clashing"}
      [] OTHER -> {"empty", "set"}

Given(f) == f \in DOMAIN options
Is(f, value) == Given(f) /\ options[f] = value
Empty(f) == IF f = "volumes" THEN options[f] = NoVolumes ELSE options[f] = "empty"
AsksNothing(f) == Empty(f) \/ (f = "control" /\ Is(f, "unspecified"))

----------------------------------------------------------------------------
(* Validation.                                                             *)

\* These must not be given empty.
NeverEmpty ==
    {"command", "control", "defaultResources", "fileSystemSnapshot", "networkConfigId",
     "objectStorageAccess", "requestId", "resources", "volumes"}
        \cup IF kind = "template" THEN {"containerImage"}
             ELSE IF kind = "run" THEN {"imagePullCredentials"} ELSE {}

\* Mutant: the template's volumes can be named without its image.
ImageRequiredUnlessVolumes ==
    \E f \in ContainerFields \ {"volumes"} :
        Given(f) /\ ~(f = "environmentVariables" /\ Empty(f))
\* Options of the container replace it wholly, so that they need its image.
ImageRequired ==
    \E f \in ContainerFields : Given(f) /\ ~(f = "environmentVariables" /\ Empty(f))

Accepted ==
    /\ \A f \in DOMAIN options : f \notin Unsupported[kind] /\ (f \in NeverEmpty => ~Empty(f))
    /\ kind = "template" /\ ~Given("containerImage") => ~ImageRequired
    /\ kind = "file" => Is("control", "container_engine") \/ Is("primaryService", "set")
    /\ ~(Given("volumes") /\ Given("fileSystemSnapshot"))
    /\ ~(Given("network") /\ Given("networkConfigId"))
    /\ ~(Is("secrets", "clashing") /\ Is("environmentVariables", "set"))
    /\ ~(Is("mountedFiles", "clashing") /\ (Given("volumes") \/ Given("fileSystemSnapshot")))

----------------------------------------------------------------------------
(* The request.  A scalar, list or map that is empty is not on the wire.   *)

Sent(fields) ==
    {<<f, options[f]>> : f \in {g \in fields \cap DOMAIN options : options[g] # "empty"}}
SentAnyway(f) == IF Given(f) THEN {<<f, options[f]>>} ELSE {}

SentVolumes ==
    IF Given("volumes") THEN {<<"volumes", options["volumes"]>>}
    ELSE IF Given("fileSystemSnapshot")
         THEN {<<"volumes", [scratch |-> {DefaultScratch}, registered |-> {}]>>}
         ELSE {}

SentRunners ==
    IF Is("runnerIds", "set") THEN {<<"runnerIds", "set">>, <<"mode", "CKS">>} ELSE {}

\* toProtoNetwork: a network that says nothing is no network.  A security
\* context is sent even if it says nothing.
RunRequest ==
    Sent(Fields["run"] \ {"fileSystemSnapshot", "volumes", "runnerIds", "containerImage"})
        \cup SentVolumes \cup SentRunners \cup SentAnyway("securityContext")
        \cup IF Given("containerImage") THEN Sent({"containerImage"})
             ELSE {<<"containerImage", DefaultImage>>}

\* The container of the overrides, if there is an image for it.
SentContainer ==
    IF Given("containerImage")
    THEN Sent((ContainerFields \cup {"containerImage"}) \ {"fileSystemSnapshot", "volumes"})
            \cup SentVolumes
    ELSE {}

\* The overrides; here a network that says nothing replaces the template's.
TemplateRequest ==
    Sent({"annotations", "maxLifetimeSeconds", "networkConfigId", "services", "tags"})
        \cup SentContainer \cup SentRunners \cup SentAnyway("network")

FileRequest ==
    Sent(Fields["file"] \ {"control", "runnerIds"}) \cup SentRunners
        \cup IF Given("control") /\ ~AsksNothing("control") THEN Sent({"control"}) ELSE {}

Request ==
    CASE kind = "run" -> RunRequest
      [] kind = "template" -> TemplateRequest
      [] kind = "file" -> FileRequest

\* Known of the volumes from the options alone, from-file calls do not ask.
ScratchVolumeNames ==
    CASE kind = "file" -> {}
      [] Given("volumes") -> {options["volumes"].scratch}
      [] Given("fileSystemSnapshot") -> {{DefaultScratch}}
      [] OTHER -> {}

----------------------------------------------------------------------------

RequestInit ==
    /\ kind \in {"run", "template", "file"}
    /\ options = <<>> /\ verdict = "building" /\ wire = {} /\ scratch = {}

\* The caller adds an option; JavaScript lets it add one that is not declared.
Give(f, value) ==
    /\ verdict = "building" /\ ~Given(f) /\ Cardinality(DOMAIN options) < MaxGiven
    /\ options' = [g \in DOMAIN options \cup {f} |-> IF g = f THEN value ELSE options[g]]
    /\ UNCHANGED <<kind, verdict, wire, scratch>>

Create ==
    /\ verdict = "building"
    /\ IF Accepted
       THEN verdict' = "accepted" /\ wire' = Request /\ scratch' = ScratchVolumeNames
       ELSE verdict' = "refused" /\ UNCHANGED <<wire, scratch>>
    /\ UNCHANGED <<kind, options>>

RequestNext ==
    \/ \E f \in Fields[kind] \cup Unsupported[kind] : \E value \in Values(f) : Give(f, value)
    \/ Create
RequestSpec == RequestInit /\ [][RequestNext]_requestVars

----------------------------------------------------------------------------

\* Where an option is found in the request, and what is there.
Place(f) == IF f = "fileSystemSnapshot" THEN "volumes" ELSE f
OnWire(g) == {field[2] : field \in {sent \in wire : sent[1] = g}}

\* What the caller asked for is in the request, once, whichever of the calls and
\* options it combines; a template keeps what the caller did not speak of; and
\* the handle knows the scratch volumes of the request it stands for, so that
\* snapshot() can refuse to choose among them.
OptionsSent ==
    verdict = "accepted" =>
        /\ \A f \in DOMAIN options :
              ~AsksNothing(f) =>
                  IF f = "fileSystemSnapshot" THEN \E volumes \in OnWire("volumes") : OnWire("volumes") = {volumes}
                  ELSE OnWire(f) = {options[f]}
        /\ kind = "template" =>
              \A field \in wire : field[1] = "mode" \/ \E f \in DOMAIN options : Place(f) = field[1]
        /\ kind = "file" => OnWire("volumes") = {}
        /\ scratch = {volumes.scratch : volumes \in OnWire("volumes")}
=============================================================================
