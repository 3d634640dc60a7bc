----------------------------- MODULE Resources -----------------------------
(***************************************************************************)
(* The resources of the Pulumi provider                                    *)
(* (pulumi-nobus/provider/pkg/provider): what each kind has for arguments  *)
(* and what its Check, Create, Read, Diff and Update make of them.  A      *)
(* resource is a record here; the operators at the end read it, and Stack  *)
(* gives them their steps.                                                 *)
(*                                                                         *)
(* Arguments are functions from fields to values: a value is the set of    *)
(* the names it holds, blank is the empty set.  A name can be written with *)
(* its scope ("ng1/project/id") or bare ("id"); BareOf takes the scope     *)
(* off, and Position is the place of each written form among the sorted    *)
(* strings.  A list that names one thing twice is left out; so are the     *)
(* outputs that are no arguments (addresses, sizes, status), and preview,  *)
(* which changes nothing.                                                  *)
(*                                                                         *)
(* The fields of a record:                                                 *)
(*   args      the arguments           required  those that Check asks for *)
(*   ids       sent bare               normal    also kept bare by Create  *)
(*   renormal  kept bare by Update     default   filled in by Create       *)
(*   follow    what Create does after its POST                             *)
(*   created, read, updated            what the answer adds to the state:  *)
(*             fields taken over, and fields filled when they are blank    *)
(*   diff      the fields that replace or update the resource, each with   *)
(*             the comparison that Diff makes of it                        *)
(***************************************************************************)
EXTENDS NobusApi, FiniteSets

CONSTANTS
    Names,          \* what a value can hold
    BareOf,         \* each name without its scope
    Position,       \* the place of each name in the order of strings
    DefaultValue,   \* what Create fills in for an IP version or an ethertype
    DefaultZone,    \* the configuration of the provider
    DefaultProject

ASSUME NamesAssumption ==
    /\ IsFiniteSet(Names)
    /\ BareOf \in [Names -> Names]
    /\ \A n \in Names : BareOf[BareOf[n]] = BareOf[n]
    /\ Position \in [Names -> Nat]
    /\ \A n, m \in Names : Position[n] = Position[m] => n = m
    /\ DefaultValue \in Names
    /\ DefaultZone \subseteq Names /\ DefaultProject \subseteq Names
    /\ \A n \in DefaultZone \cup DefaultProject : BareOf[n] = n    \* these are no IDs

-----------------------------------------------------------------------------
NoDefault == [f \in {} |-> {}]
Nothing   == [take |-> {}, fill |-> {}]
Take(S)   == [take |-> S, fill |-> {}]
Fill(S)   == [take |-> {}, fill |-> S]

KeyPair == [
    args |-> {"name"} \cup Scope, required |-> {},
    ids |-> {}, normal |-> {}, renormal |-> {}, default |-> NoDefault,
    calls |-> KeyPairCalls, follow |-> {},
    created |-> Fill({"name"}), read |-> Take({"name"}), updated |-> Nothing,
    diff |-> [replace |-> [availabilityZone |-> "given", name |-> "given",
                           projectId |-> "given"],
              update  |-> NoDefault]]

InstanceDiff == [
    replace |-> [availabilityZone |-> "given", image |-> "givenId", keyName |-> "given",
                 networkId |-> "givenId", volumeSize |-> "given", userData |-> "always",
                 adminPass |-> "given"],
    update  |-> [name |-> "given", flavor |-> "givenId", securityGroups |-> "alwaysList",
                 tags |-> "alwaysList", deleteVolume |-> "always"]]
InstanceRead == Fill({"name", "keyName"})
Instance == [
    args |-> {"name", "image", "flavor", "keyName", "networkId", "volumeSize",
              "securityGroups", "tags", "userData", "adminPass", "deleteVolume"} \cup Scope,
    required |-> {"name", "image", "flavor", "keyName"},
    ids |-> {"image", "flavor", "networkId", "securityGroups"}, normal |-> {}, renormal |-> {},
    default |-> NoDefault,
    calls |-> InstanceCalls, follow |-> {"wait", "tags"},
    created |-> Nothing, read |-> InstanceRead, updated |-> Nothing,
    diff |-> InstanceDiff]

stateFromVolume == Fill({"name", "description", "volumeType", "size"})
VolumeDiff == [
    replace |-> [availabilityZone |-> "given", size |-> "given", volumeType |-> "given",
                 snapshotId |-> "given", sourceVolId |-> "given", imageRef |-> "given"],
    update  |-> [name |-> "given", description |-> "always", metadata |-> "always"]]
Volume == [
    args |-> {"size", "name", "description", "volumeType", "snapshotId", "sourceVolId",
              "imageRef", "metadata", "multiattach"} \cup Scope,
    required |-> {"size"},
    ids |-> {"snapshotId", "sourceVolId", "imageRef"}, normal |-> {}, renormal |-> {},
    default |-> NoDefault,
    calls |-> VolumeCalls, follow |-> {"wait"},
    created |-> stateFromVolume, read |-> stateFromVolume, updated |-> stateFromVolume,
    diff |-> VolumeDiff]

VolumeAttachment == [
    args |-> {"volumeId", "instanceId"} \cup Scope, required |-> {"volumeId", "instanceId"},
    ids |-> {"volumeId", "instanceId"}, normal |-> {"volumeId", "instanceId"},
    renormal |-> {}, default |-> NoDefault,
    calls |-> AttachmentCalls, follow |-> {"wait"},
    created |-> Nothing, read |-> Take({"volumeId", "instanceId"}), updated |-> Nothing,
    diff |-> [replace |-> [availabilityZone |-> "given", volumeId |-> "givenId",
                           instanceId |-> "givenId"],
              update  |-> NoDefault]]

stateFromSnapshot == Fill({"name", "description", "volumeId"})
VolumeSnapshot == [
    args |-> {"volumeId", "name", "description", "force", "metadata"} \cup Scope,
    required |-> {"volumeId"},
    ids |-> {"volumeId"}, normal |-> {"volumeId"}, renormal |-> {}, default |-> NoDefault,
    calls |-> SnapshotCalls, follow |-> {"wait"},
    created |-> stateFromSnapshot, read |-> stateFromSnapshot, updated |-> Nothing,
    diff |-> [replace |-> [availabilityZone |-> "given", volumeId |-> "givenId",
                           name |-> "given", description |-> "always", force |-> "always",
                           metadata |-> "always"],
              update  |-> NoDefault]]

stateFromBackup == Fill({"name", "description", "volumeId", "container"})
VolumeBackup == [
    args |-> {"volumeId", "name", "description", "container", "incremental", "force",
              "snapshotId", "metadata"} \cup Scope,
    required |-> {"volumeId"},
    ids |-> {"volumeId", "snapshotId"}, normal |-> {"volumeId", "snapshotId"},
    renormal |-> {}, default |-> NoDefault,
    calls |-> BackupCalls, follow |-> {"wait"},
    created |-> stateFromBackup, read |-> stateFromBackup, updated |-> Nothing,
    diff |-> [replace |-> [availabilityZone |-> "given", volumeId |-> "givenId",
                           name |-> "given", description |-> "always", container |-> "always",
                           incremental |-> "always", force |-> "always",
                           snapshotId |-> "alwaysId", metadata |-> "always"],
              update  |-> NoDefault]]

enrichNetworkState == [take |-> {"adminStateUp"}, fill |-> {"name", "description"}]
NetworkDiff == [
    replace |-> [availabilityZone |-> "given", networkName |-> "given", subnetCidr |-> "given",
                 routerName |-> "given", externalNetworkId |-> "givenId"],
    update  |-> [name |-> "given", description |-> "always"]]
Network == [
    args |-> {"networkName", "subnetCidr", "routerName", "externalNetworkId", "dnsNameservers",
              "enableSnat", "name", "description", "adminStateUp"} \cup Scope,
    required |-> {"networkName", "subnetCidr", "routerName"},
    ids |-> {"externalNetworkId"}, normal |-> {}, renormal |-> {}, default |-> NoDefault,
    calls |-> NetworkCalls, follow |-> {"get"},
    created |-> enrichNetworkState, read |-> enrichNetworkState,
    updated |-> enrichNetworkState, diff |-> NetworkDiff]

Subnet == [
    args |-> {"networkId", "cidr", "ipVersion", "name", "description", "gatewayIp",
              "enableDhcp", "dnsNameservers"} \cup Scope,
    required |-> {"networkId", "cidr"},
    ids |-> {"networkId"}, normal |-> {"networkId"}, renormal |-> {"networkId"},
    default |-> [ipVersion |-> {DefaultValue}],
    calls |-> SubnetCalls, follow |-> {},
    created |-> Fill({"name"}), read |-> Take(SubnetStruct), updated |-> Nothing,
    diff |-> [replace |-> [availabilityZone |-> "given", networkId |-> "givenId",
                           cidr |-> "given", ipVersion |-> "given"],
              update  |-> [name |-> "given", gatewayIp |-> "always"]]]

PortDiff == [
    replace |-> [availabilityZone |-> "given", networkId |-> "givenId"],
    update  |-> [name |-> "given", deviceId |-> "alwaysId", securityGroups |-> "alwaysList",
                 description |-> "always"]]
Port == [
    args |-> {"networkId", "name", "description", "adminStateUp", "securityGroups", "deviceId",
              "deviceOwner", "portSecurityEnabled"} \cup Scope,
    required |-> {"networkId"},
    ids |-> {"networkId", "deviceId", "securityGroups"},
    normal |-> {"networkId", "deviceId", "securityGroups"},
    renormal |-> {"networkId", "securityGroups"}, default |-> NoDefault,
    calls |-> PortCalls, follow |-> {},
    created |-> Nothing, read |-> Take(PortStruct), updated |-> Nothing, diff |-> PortDiff]

Router == [
    args |-> {"name", "description", "adminStateUp"} \cup Scope, required |-> {"name"},
    ids |-> {}, normal |-> {}, renormal |-> {}, default |-> NoDefault,
    calls |-> RouterCalls, follow |-> {},
    created |-> Nothing, read |-> Take(RouterStruct), updated |-> Nothing,
    diff |-> [replace |-> [availabilityZone |-> "given"],
              update  |-> [name |-> "given", description |-> "always"]]]

SecurityGroup == [
    args |-> {"name", "description"} \cup Scope, required |-> {"name"},
    ids |-> {}, normal |-> {}, renormal |-> {}, default |-> NoDefault,
    calls |-> SecurityGroupCalls, follow |-> {},
    created |-> Nothing, read |-> Take(SecurityGroupStruct), updated |-> Nothing,
    diff |-> [replace |-> [availabilityZone |-> "given"],
              update  |-> [name |-> "given", description |-> "always"]]]

SecurityGroupRule == [
    args |-> SecurityGroupRuleCreate \cup Scope, required |-> {"securityGroupId", "direction"},
    ids |-> {"securityGroupId", "remoteGroupId"},
    normal |-> {"securityGroupId", "remoteGroupId"}, renormal |-> {},
    default |-> [ethertype |-> {DefaultValue}],
    calls |-> SecurityGroupRuleCalls, follow |-> {},
    created |-> Nothing, read |-> Take(SecurityGroupRuleStruct), updated |-> Nothing,
    diff |-> [replace |-> [availabilityZone |-> "given", securityGroupId |-> "givenId",
                           direction |-> "given", ethertype |-> "given", protocol |-> "given",
                           portRangeMin |-> "always", portRangeMax |-> "always",
                           remoteIpPrefix |-> "given", remoteGroupId |-> "givenId",
                           description |-> "always"],
              update  |-> NoDefault]]

FloatingIp == [
    args |-> FloatingIPCreate \cup Scope, required |-> {"floatingNetworkId"},
    ids |-> {"floatingNetworkId", "portId"}, normal |-> {"floatingNetworkId", "portId"},
    renormal |-> {"floatingNetworkId", "portId"}, default |-> NoDefault,
    calls |-> FloatingIPCalls, follow |-> {},
    created |-> Take({"portId", "fixedIpAddress"}),
    read |-> Take({"floatingNetworkId", "portId", "fixedIpAddress", "description"}),
    updated |-> Take({"portId", "fixedIpAddress"}),
    diff |-> [replace |-> [availabilityZone |-> "given", floatingNetworkId |-> "givenId"],
              update  |-> [portId |-> "alwaysId", description |-> "always"]]]

Resource == [
    KeyPair |-> KeyPair, Instance |-> Instance, Volume |-> Volume,
    VolumeAttachment |-> VolumeAttachment, VolumeSnapshot |-> VolumeSnapshot,
    VolumeBackup |-> VolumeBackup, Network |-> Network, Subnet |-> Subnet, Port |-> Port,
    Router |-> Router, SecurityGroup |-> SecurityGroup,
    SecurityGroupRule |-> SecurityGroupRule, FloatingIp |-> FloatingIp]

-----------------------------------------------------------------------------
(* What the resources do with their arguments. *)

BareResourceID(v) == {BareOf[n] : n \in v}

BareOnly(v, fields) == [f \in DOMAIN v |-> IF f \in fields THEN BareResourceID(v[f]) ELSE v[f]]

Or(a, b) == IF a # {} THEN a ELSE b            \* cmp.Or, and every "if x is blank"

(* checkResourceArgs: the provider's zone and project fill blank arguments. *)
checkResourceArgs(args) ==
    [args EXCEPT !.availabilityZone = Or(@, DefaultZone), !.projectId = Or(@, DefaultProject)]

(* The arguments that Check, and ResolveScope after it, let through. *)
Check(kind, args) ==
    \A f \in Resource[kind].required \cup Scope : checkResourceArgs(args)[f] # {}

(* The location of an import ID, filled in by what is known already and by *)
(* the configuration.                                                      *)
ResolveImport(part, known) ==
    [availabilityZone |-> Or(Or(known.availabilityZone, part.availabilityZone), DefaultZone),
     projectId        |-> Or(Or(known.projectId, part.projectId), DefaultProject)]

(* What a state learns from an answer. *)
Learn(args, rule, reply) ==
    [f \in DOMAIN args |->
        CASE f \in rule.take -> reply[f]
          [] f \in rule.fill -> Or(args[f], reply[f])
          [] OTHER           -> args[f]]

(* The arguments that Create keeps, and what its POST carries of them. *)
Kept(kind, args) ==
    LET d == Resource[kind].default
        filled == [f \in DOMAIN args |-> IF f \in DOMAIN d THEN Or(args[f], d[f]) ELSE args[f]]
    IN BareOnly(filled, Resource[kind].normal)

Post(kind, args) ==
    LET kept == BareOnly(Kept(kind, args), Resource[kind].ids)
    IN [f \in Resource[kind].calls.post \cup Scope |-> kept[f]]

(* The arguments that Update keeps, and what its PUT carries: what is given, *)
(* and the port of a floating IP when it changes, given or not.              *)
Renewed(kind, args) == BareOnly(args, Resource[kind].renormal)

Put_NeverClears(kind, olds, news) ==                          \* mutation: a blank port is left out
    [f \in {x \in Resource[kind].calls.put : news[x] # {}} |->
        BareOnly(news, Resource[kind].ids)[f]]
Put(kind, olds, news) ==
    LET given == {f \in Resource[kind].calls.put : news[f] # {}}
        port  == IF BareResourceID(olds.portId) # BareResourceID(news.portId)
                   THEN {"portId"} ELSE {}
    IN [f \in IF kind = "FloatingIp" THEN (given \ {"portId"}) \cup port ELSE given |->
           BareOnly(news, Resource[kind].ids)[f]]

(* Two lists, each sorted by the written forms, agree place by place as IDs. *)
stringSlicesEqual(a, b) ==
    \E pair \in [a -> b] :
       /\ {pair[n] : n \in a} = b
       /\ \A n, m \in a : Position[n] < Position[m] => Position[pair[n]] < Position[pair[m]]
       /\ \A n \in a : BareOf[pair[n]] = BareOf[n]

(* Diff. *)
Changed_Written(rule, old, new) ==                            \* mutation: written forms compared
    IF rule \in {"given", "givenId"} THEN new # {} /\ old # new ELSE old # new
Changed_BlankCounts(rule, old, new) ==                        \* mutation: blank differs from given
    IF rule \in {"given", "always"} THEN old # new ELSE BareResourceID(old) # BareResourceID(new)
Changed(rule, old, new) ==
    CASE rule = "given"      -> new # {} /\ old # new
      [] rule = "always"     -> old # new
      [] rule = "givenId"    -> new # {} /\ BareResourceID(old) # BareResourceID(new)
      [] rule = "alwaysId"   -> BareResourceID(old) # BareResourceID(new)
      [] rule = "alwaysList" -> ~stringSlicesEqual(old, new)

ChangedOf(rules, olds, news) == {f \in DOMAIN rules : Changed(rules[f], olds[f], news[f])}

replaceDiff(kind, olds, news) == ChangedOf(Resource[kind].diff.replace, olds, news)
updateDiff(kind, olds, news)  == ChangedOf(Resource[kind].diff.update, olds, news)

diffResponse(kind, olds, news) == replaceDiff(kind, olds, news) \cup updateDiff(kind, olds, news)

(* The members of a list that have to be added and removed. *)
sliceDiff(olds, news) ==
    [add    |-> BareResourceID(news) \ BareResourceID(olds),
     remove |-> BareResourceID(olds) \ BareResourceID(news)]
=============================================================================
