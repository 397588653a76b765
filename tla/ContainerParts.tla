---------------------------- MODULE ContainerParts ----------------------------
(***************************************************************************)
(* The parts of a container that a caller lists and that may clash with    *)
(* one another: environment variables and secrets, mounted files and       *)
(* volumes, services, and the two sides of the resources.  Each list is    *)
(* checked by a file of its own (internal/secrets.ts, mounted-files.ts,    *)
(* network.ts, resources.ts, validation/file-system-snapshot.ts) and put   *)
(* into the request by transports/node-grpc/mappers.ts; what the container *)
(* gets must be what was asked, from one source each.                      *)
(*                                                                         *)
(* A path is the sequence of its segments and how it is spelled.  Parts of *)
(* the four topics share no check, so a behaviour is about one of them.    *)
(***************************************************************************)
EXTENDS Integers, Sequences, SequencesExt, FiniteSets

CONSTANTS
    Keys,        \* names of variables and of secrets
    Stores,      \* secret stores
    MaxSecrets,  \* MAX_SECRETS, 50 in the code
    Paths,       \* records of segs and spelling: "canonical", "other" or "relative"
    Reserved,    \* RESERVED_MOUNT_PATH_PREFIXES
    VolumeNames,
    PortNumbers,
    MaxParts     \* bound: parts of one call

VARIABLES
    topic,     \* variables, paths, services or resources
    parts,     \* what the caller listed
    decision,  \* building, accepted or refused
    container  \* the parts of the request

partsVars == <<topic, parts, decision, container>>

Undefined == "undefined"
Quantities == {"cpu", "memory", "gpu"}

----------------------------------------------------------------------------
(* What a caller may list.                                                 *)

Variables == [part : {"env"}, key : Keys]
SecretInputs ==
    [part : {"secret"}, store : Stores, name : Keys, envVar : Keys \cup {Undefined}]
Files == [part : {"file"}, path : Paths]
VolumeInputs ==
    [part : {"volume"}, name : VolumeNames, path : Paths, source : {"scratch", "registered"}]
Endpoints ==
    {[kind |-> "none", auth |-> Undefined]} \cup
    [kind : {"https", "tls_passthrough"}, auth : {Undefined, "open"}]
ServiceInputs ==
    [part : {"service"}, port : PortNumbers, visibility : {"public", "private"},
     protocol : {Undefined, "tcp", "udp"}, endpoint : Endpoints]
Side == (SUBSET Quantities) \cup {{Undefined}}
ResourceInputs == [part : {"resources"}, plain : SUBSET Quantities, requests : Side, limits : Side]

Inputs ==
    CASE topic = "variables" -> Variables \cup SecretInputs
      [] topic = "paths"     -> Files \cup VolumeInputs
      [] topic = "services"  -> ServiceInputs
      [] topic = "resources" -> ResourceInputs

\* A list of the caller is the places of its parts.
Listed(part) == {i \in DOMAIN parts : parts[i].part = part}
Distinct(places, Key(_)) == \A i, j \in places : i # j => Key(parts[i]) # Key(parts[j])

----------------------------------------------------------------------------
(* Validation.                                                             *)

\* normalizeSecrets: the variable is named like the secret if not said otherwise.
EnvVar(secret) == IF secret.envVar = Undefined THEN secret.name ELSE secret.envVar

ValidSecrets ==
    /\ Cardinality(Listed("secret")) <= MaxSecrets
    /\ Distinct(Listed("secret"), EnvVar)
    /\ \A i \in Listed("secret"), j \in Listed("env") : EnvVar(parts[i]) # parts[j].key

\* pathEqualOrUnder on cleaned paths; "/" has no slash to add and is under nothing.
EqualOrUnder(segs, above) == segs = above \/ (above # <<>> /\ IsPrefix(above, segs))

ValidFiles ==
    /\ \A i \in Listed("file") : parts[i].path.spelling # "relative"
    /\ Distinct(Listed("file"), LAMBDA file : file.path)

ValidMountPath(path) ==
    /\ path.spelling = "canonical" /\ path.segs # <<>>
    /\ \A reserved \in Reserved : ~EqualOrUnder(path.segs, reserved)

\* rejectMountedFileConflicts, also for another spelling of the file's path.
\* Mutant: only a file inside of the volume is looked for.
ClashesInside(volume, file) == EqualOrUnder(file.path.segs, volume.path.segs)
Clashes(volume, file) ==
    \/ EqualOrUnder(volume.path.segs, file.path.segs)
    \/ EqualOrUnder(file.path.segs, volume.path.segs)

ValidVolumes ==
    /\ \A i \in Listed("volume") :
          ValidMountPath(parts[i].path) /\ \A j \in Listed("file") : ~Clashes(parts[i], parts[j])
    /\ Distinct(Listed("volume"), LAMBDA volume : volume.name)
    /\ Distinct(Listed("volume"), LAMBDA volume : volume.path)

ValidPort(port) == port \in 1..65535

ValidEndpoint(service) ==
    /\ service.visibility = "public"
    /\ service.protocol # "udp"
    /\ (service.endpoint.kind = "https") <=> (service.endpoint.auth # Undefined)

ValidServices ==
    /\ \A i \in Listed("service") :
          /\ ValidPort(parts[i].port)
          /\ parts[i].endpoint.kind # "none" => ValidEndpoint(parts[i])
    /\ Distinct(Listed("service"), LAMBDA service : service.port)

Advanced(resources) == resources.requests # {Undefined} \/ resources.limits # {Undefined}
ValidResources ==
    \A i \in Listed("resources") :
        LET resources == parts[i]
        IN  IF Advanced(resources)
            THEN /\ resources.plain \cap {"cpu", "memory"} = {}
                 /\ \A side \in {resources.requests, resources.limits} :
                       side \cap {Undefined, "gpu"} = {} /\ side # {}
            ELSE resources.plain # {}

ValidParts == ValidSecrets /\ ValidFiles /\ ValidVolumes /\ ValidServices /\ ValidResources

----------------------------------------------------------------------------
(* The request.                                                            *)

\* groupSecretsByStore: a Map from a store to its secrets; their order is left out.
Grouped ==
    [store \in {parts[i].store : i \in Listed("secret")} |->
        {[name |-> parts[i].name, envVar |-> EnvVar(parts[i])] :
            i \in {j \in Listed("secret") : parts[j].store = store}}]

\* A list of the request is in the order of the places.
Mapped(part, Of(_)) == [i \in Listed(part) |-> Of(parts[i])]

\* toProtoVolumes and toProtoVolumeMounts.
SentVolume(volume) == [name |-> volume.name, source |-> volume.source]
SentMount(volume) == [volume |-> volume.name, path |-> volume.path]

\* toProtoEndpoint.
SentEndpoint(endpoint) ==
    IF endpoint.kind = "tls_passthrough"
    THEN [kind |-> "tls_passthrough", auth |-> Undefined] ELSE endpoint
SentService(service) ==
    [port |-> service.port, protocol |-> service.protocol, visibility |-> service.visibility,
     endpoint |-> SentEndpoint(service.endpoint)]

\* toProtoResourceRequirements: a GPU goes on both sides.
SentResources(resources) ==
    LET gpu == resources.plain \cap {"gpu"}
    IN  IF Advanced(resources)
        THEN [requests |-> resources.requests \cup gpu, limits |-> resources.limits \cup gpu]
        ELSE [requests |-> resources.plain, limits |-> resources.plain]

SentContainer ==
    [env       |-> {parts[i].key : i \in Listed("env")},
     stores    |-> Grouped,
     files     |-> Mapped("file", LAMBDA file : file.path),
     volumes   |-> Mapped("volume", SentVolume),
     mounts    |-> Mapped("volume", SentMount),
     services  |-> Mapped("service", SentService),
     resources |-> Mapped("resources", SentResources)]

----------------------------------------------------------------------------

NoContainer ==
    [env |-> {}, stores |-> <<>>, files |-> <<>>, volumes |-> <<>>, mounts |-> <<>>,
     services |-> <<>>, resources |-> <<>>]

PartsInit ==
    /\ topic \in {"variables", "paths", "services", "resources"}
    /\ parts = <<>> /\ decision = "building" /\ container = NoContainer

MostOf(about) == CASE about = "resources" -> 1 [] about = "services" -> 2 [] OTHER -> MaxParts

List(input) ==
    /\ decision = "building" /\ Len(parts) < MostOf(topic)
    /\ parts' = Append(parts, input)
    /\ UNCHANGED <<topic, decision, container>>

Submit ==
    /\ decision = "building"
    /\ IF ValidParts
       THEN decision' = "accepted" /\ container' = SentContainer
       ELSE decision' = "refused" /\ UNCHANGED container
    /\ UNCHANGED <<topic, parts>>

PartsNext == (\E input \in Inputs : List(input)) \/ Submit
PartsSpec == PartsInit /\ [][PartsNext]_partsVars

----------------------------------------------------------------------------

\* The store and name that fill a variable.
SourcesOf(key) ==
    (IF key \in container.env THEN {<<"caller", key>>} ELSE {}) \cup
    {source \in (DOMAIN container.stores) \X Keys :
        [name |-> source[2], envVar |-> key] \in container.stores[source[1]]}

\* A container gets what was asked for, and nothing hides another part of it:
\* a variable has the one source its caller named; a volume hides no mounted
\* file, however the file's path is spelled, has its one mount, and the
\* system's directories stay; one service has a port; a GPU is in the requests
\* and the limits or in neither.
PartsSent ==
    decision = "accepted" =>
        /\ \A i \in DOMAIN parts :
              /\ parts[i].part = "env" => SourcesOf(parts[i].key) = {<<"caller", parts[i].key>>}
              /\ parts[i].part = "secret" =>
                    SourcesOf(EnvVar(parts[i])) = {<<parts[i].store, parts[i].name>>}
              /\ parts[i].part = "service" =>
                    \E p \in DOMAIN container.services :
                        /\ container.services[p].endpoint = parts[i].endpoint
                        /\ \A q \in DOMAIN container.services :
                              container.services[q].port = parts[i].port <=> q = p
        /\ \A p \in DOMAIN container.mounts :
              LET mount == container.mounts[p]
              IN  /\ \E v \in DOMAIN container.volumes : \A u \in DOMAIN container.volumes :
                        container.volumes[u].name = mount.volume <=> u = v
                  /\ \A q \in DOMAIN container.mounts : container.mounts[q].path = mount.path => q = p
                  /\ \A f \in DOMAIN container.files :
                        LET file == container.files[f]
                        IN  file.segs # <<>> =>
                                /\ ~IsPrefix(file.segs, mount.path.segs)
                                /\ ~IsPrefix(mount.path.segs, file.segs)
                  /\ \A reserved \in Reserved : ~IsPrefix(reserved, mount.path.segs)
        /\ \A p \in DOMAIN container.resources :
              "gpu" \in container.resources[p].requests <=> "gpu" \in container.resources[p].limits
=============================================================================
