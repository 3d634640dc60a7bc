------------------------------ MODULE NobusApi ------------------------------
(***************************************************************************)
(* The Nobus API as the Pulumi provider sees it: the client package        *)
(* (pulumi-nobus/provider/pkg/nobusapi) and the objects it reads and       *)
(* writes, which answer the way the test API of the repository             *)
(* (provider/internal/testapi/server.go) does.                             *)
(*                                                                         *)
(* A body and an object are functions from fields to values, and a blank   *)
(* value is the empty set, which is what "omitempty" leaves out.  Only the *)
(* fields that a resource of the provider has as an argument are named     *)
(* here, by the name of the argument.  The scope of an object is its zone  *)
(* and its project, which every request names.                             *)
(***************************************************************************)
EXTENDS Naturals

CONSTANT MaxAttempts   \* the attempts of one request (4 in the code)

ASSUME MaxAttemptsAssumption == MaxAttempts \in Nat \ {0}

Scope == {"availabilityZone", "projectId"}

-----------------------------------------------------------------------------
(* The client's requests and their failures. *)

(* The class of a failed answer: its status, and whether its text says that *)
(* the resource is missing.                                                 *)
mapHTTPError_FourHundred(status, missing) ==                  \* mutation: no look at the text
    IF status = 404 THEN "notFound" ELSE IF status >= 500 THEN "unavailable" ELSE "invalid"
mapHTTPError(status, missing) ==
    CASE status = 404                   -> "notFound"
      [] status \in {401, 403}          -> "unauthorized"
      [] status = 429 \/ status >= 500  -> "unavailable"
      [] OTHER                          -> IF missing THEN "notFound" ELSE "invalid"

(* A transport error is of the class of a server that is not available, an *)
(* answer that cannot be decoded of that of a request that is not valid.   *)
doOnce(reply) ==
    IF reply.status = 0 THEN "unavailable"
    ELSE IF reply.status >= 400 THEN mapHTTPError(reply.status, reply.text = "missing")
    ELSE IF reply.text = "garbled" THEN "invalid" ELSE "ok"

(* A request is sent again after its n-th attempt. *)
do_Unbounded(n, class) == class = "unavailable"               \* mutation: attempts not counted
do(n, class) == n < MaxAttempts /\ class = "unavailable"

-----------------------------------------------------------------------------
(* What a getter makes of an object that is not there.  A list never has    *)
(* it; a request for it by its ID may be answered without an error and with *)
(* every field blank: two getters look at the ID of what they got, one then *)
(* asks for the list, and the others take the blank for an object.          *)
Getters == {"list", "checked", "fallback", "unchecked"}

getInstanceFromList == "notFound"

Missing(getter, blank) ==
    CASE blank /\ getter = "unchecked" -> "blank"
      [] blank /\ getter = "fallback"  -> getInstanceFromList
      [] OTHER                         -> "notFound"

(* A poll ends in one of the statuses wanted, with the error of its read, or *)
(* when its time is up.                                                      *)
waitUntil(found, wanted, expires) ==
    IF ~found THEN {"notFound"}
    ELSE (IF wanted THEN {"ok"} ELSE {}) \cup (IF expires \/ ~wanted THEN {"timeout"} ELSE {})

-----------------------------------------------------------------------------
(* The fields of the bodies, and of the objects in the answers. *)

KeyPairStruct        == {"name"}
CreateKeyPairRequest == {"name"}

InstanceStruct        == {"name", "keyName"}
CreateInstanceRequest == {"name", "image", "flavor", "keyName", "volumeSize", "networkId",
                          "securityGroups", "adminPass", "userData"}

VolumeStruct        == {"name", "description", "size", "volumeType", "metadata"}
CreateVolumeRequest == {"size", "name", "description", "volumeType", "snapshotId", "sourceVolId",
                        "imageRef", "metadata", "multiattach"}
UpdateVolumeRequest == {"name", "description", "metadata"}

AttachVolumeRequest == {"instanceId", "volumeId"}

SnapshotStruct        == {"name", "description", "volumeId", "metadata"}
CreateSnapshotRequest == {"volumeId", "name", "description", "force", "metadata"}

BackupStruct        == {"name", "description", "volumeId", "container", "metadata"}
CreateBackupRequest == {"volumeId", "name", "description", "container", "incremental", "force",
                        "snapshotId", "metadata"}

NetworkStruct        == {"name", "description", "adminStateUp"}
CreateNetworkRequest == {"networkName", "subnetCidr", "routerName", "externalNetworkId",
                         "dnsNameservers", "enableSnat"}
NetworkUpdate        == {"name", "description", "adminStateUp"}

SubnetStruct == {"name", "description", "networkId", "cidr", "ipVersion", "gatewayIp",
                 "enableDhcp", "dnsNameservers"}
SubnetCreate == {"networkId", "cidr", "ipVersion", "name", "description", "gatewayIp",
                 "enableDhcp", "dnsNameservers"}
SubnetUpdate == {"name", "description", "gatewayIp", "enableDhcp", "dnsNameservers"}

PortStruct == {"name", "description", "networkId", "adminStateUp", "deviceId", "deviceOwner",
               "securityGroups", "portSecurityEnabled"}
PortCreate == {"networkId", "name", "description", "adminStateUp", "securityGroups", "deviceId",
               "deviceOwner", "portSecurityEnabled"}
PortUpdate == {"name", "description", "adminStateUp", "securityGroups", "portSecurityEnabled"}

RouterStruct == {"name", "description", "adminStateUp"}
RouterWrite  == {"name", "description", "adminStateUp"}

SecurityGroupStruct == {"name", "description"}
SecurityGroupWrite  == {"name", "description"}

SecurityGroupRuleStruct == {"securityGroupId", "direction", "ethertype", "protocol",
                            "portRangeMin", "portRangeMax", "remoteIpPrefix", "remoteGroupId",
                            "description"}
SecurityGroupRuleCreate == {"securityGroupId", "direction", "ethertype", "protocol",
                            "portRangeMin", "portRangeMax", "remoteIpPrefix", "remoteGroupId",
                            "description"}

FloatingIPStruct == {"floatingNetworkId", "portId", "fixedIpAddress", "description"}
FloatingIPCreate == {"floatingNetworkId", "portId", "fixedIpAddress", "description"}
FloatingIPUpdate == {"portId", "fixedIpAddress", "description"}

-----------------------------------------------------------------------------
(* The calls on each kind of object: what its POST and its PUT carry, what *)
(* its answers hold, and how it is read.                                   *)

KeyPairCalls == [post |-> CreateKeyPairRequest, put |-> {}, reply |-> KeyPairStruct,
                 get |-> "list"]
InstanceCalls == [post |-> CreateInstanceRequest, put |-> {}, reply |-> InstanceStruct,
                  get |-> "fallback"]
VolumeCalls == [post |-> CreateVolumeRequest, put |-> UpdateVolumeRequest,
                reply |-> VolumeStruct, get |-> "list"]
AttachmentCalls == [post |-> AttachVolumeRequest, put |-> {}, reply |-> AttachVolumeRequest,
                    get |-> "list"]
SnapshotCalls == [post |-> CreateSnapshotRequest, put |-> {}, reply |-> SnapshotStruct,
                  get |-> "checked"]
BackupCalls == [post |-> CreateBackupRequest, put |-> {}, reply |-> BackupStruct,
                get |-> "checked"]
NetworkCalls == [post |-> CreateNetworkRequest, put |-> NetworkUpdate,
                 reply |-> NetworkStruct, get |-> "unchecked"]
SubnetCalls == [post |-> SubnetCreate, put |-> SubnetUpdate, reply |-> SubnetStruct,
                get |-> "unchecked"]
PortCalls == [post |-> PortCreate, put |-> PortUpdate, reply |-> PortStruct,
              get |-> "unchecked"]
RouterCalls == [post |-> RouterWrite, put |-> RouterWrite, reply |-> RouterStruct,
                get |-> "unchecked"]
SecurityGroupCalls == [post |-> SecurityGroupWrite, put |-> SecurityGroupWrite,
                       reply |-> SecurityGroupStruct, get |-> "unchecked"]
SecurityGroupRuleCalls == [post |-> SecurityGroupRuleCreate, put |-> {},
                           reply |-> SecurityGroupRuleStruct, get |-> "unchecked"]
FloatingIPCalls == [post |-> FloatingIPCreate, put |-> FloatingIPUpdate,
                    reply |-> FloatingIPStruct, get |-> "unchecked"]

-----------------------------------------------------------------------------
(* The objects at Nobus. *)

(* A body lands on the fields that an object already has. *)
Merge(fields, body) ==
    [f \in DOMAIN fields |-> IF f \in DOMAIN body THEN body[f] ELSE fields[f]]

(* The name of the network of a bundle is the one the bundle was made with. *)
NetworkName(kind, fields) ==
    IF kind = "Network" THEN [fields EXCEPT !.name = fields.networkName] ELSE fields

(* A resize leaves the server to be verified; Nobus may need a while for it. *)
Resize(object, flavor, slow) ==
    [object EXCEPT !.fields.flavor = flavor, !.status = IF slow THEN "resizing" ELSE "verify"]

(* The status in an answer: a resize that has not begun does not show. *)
Shown(status) == IF status = "resizing" THEN "ready" ELSE status
=============================================================================
