--------------------------- MODULE VolumeService ---------------------------
(***************************************************************************)
(* The other operations on the volumes of the CSI controller service:      *)
(* ControllerExpandVolume and the NodeExpandVolume that follows it,        *)
(* ListVolumes page by page, and the size and the zone that CreateVolume   *)
(* asks for (internal/driver/controller.go, node.go; the client's          *)
(* ResizeVolume and ListVolumes in internal/cloud/client.go).              *)
(*                                                                         *)
(* CreateVolume is one step here, as CreateVolume.tla shows what it        *)
(* promises.  A removal is a DeleteVolume that is carried out              *)
(* (Attachment.tla) or anybody's delete.  A volume of size 0 is none.      *)
(***************************************************************************)
EXTENDS Params, SequencesExt

CONSTANTS
    Ids,          \* the volume IDs that Nobus can assign, ordered
    Controllers,  \* the controller processes: each has its own lock table
    Handlers,     \* the callers of CreateVolume and ControllerExpandVolume
    Hosts,        \* the ways the callers can be spread over the controllers
    Zones,        \* the availability zones
    ConfigZone,   \* NOBUS_AVAILABILITY_ZONE
    Ranges,       \* the capacity ranges that requests carry
    Topologies,   \* the [requisite, preferred] that CreateVolume requests carry
    Parameters,   \* what they carry as availability_zone, "" for nothing
    PageSizes,    \* the max_entries of ListVolumes requests, 0 for no limit
    Targets,      \* the volumes that are expanded
    Loads         \* the sets of LoadKinds that a behaviour can have

LoadKinds == {"create", "expand", "list", "remove",  \* what is asked for
              "place",                              \* creations say where
              "refuse",                             \* Nobus refuses requests, or its answers get lost
              "late"}                               \* an extend takes effect later

ASSUME IdsAssumption     == Ids \subseteq Nat \ {0} /\ IsFiniteSet(Ids) /\ Targets \subseteq Ids
ASSUME HostsAssumption   == Hosts \subseteq [Handlers -> Controllers]
ASSUME ZonesAssumption   == ConfigZone \in Zones /\ "" \notin Zones
ASSUME RequestsAssumption ==
    /\ Ranges \subseteq [required : 0..MaxInt64, limit : 0..MaxInt64]
    /\ Topologies \subseteq [requisite : Seq(Zones \cup {""}), preferred : Seq(Zones \cup {""})]
    /\ Parameters \subseteq Zones \cup {""} /\ PageSizes \subseteq Nat
ASSUME LoadsAssumption   == Loads \subseteq SUBSET LoadKinds

VARIABLES
    load,        \* what happens in this behaviour: chosen once
    host,        \* the controller that each caller talks to: chosen once
    volumes,     \* each volume at Nobus: its size, its zone, the size it will have
    fresh,       \* the IDs that Nobus has not assigned yet
    locks,       \* the volume locks that are held, by controller
    call,        \* the local state of each caller's request
    filesystem,  \* the size of the file system on each volume
    listing      \* the caller of ListVolumes, from the first page to the last

vars == <<load, host, volumes, fresh, locks, call, filesystem, listing>>

None     == [size |-> 0, zone |-> ConfigZone, target |-> 0]
NoRange  == [required |-> 0, limit |-> 0]
NoTopology == [requisite |-> <<>>, preferred |-> <<>>]
NoCall   == [pc |-> "idle", id |-> 0, range |-> NoRange, topology |-> NoTopology,
             parameter |-> "", code |-> "", bytes |-> 0]
Unlisted == [on |-> FALSE, size |-> 0, token |-> 0, seen |-> <<>>, first |-> {},
             came |-> {}, gone |-> {}]

Live == {v \in Ids : volumes[v].size # 0}

(* zoneQuery: a request that names no zone is about the configured one. *)
InZone == {v \in Live : volumes[v].zone = ConfigZone}

Codes == {"OK", "Aborted", "OutOfRange", "NotFound", "AlreadyExists", "ResourceExhausted",
          "FailedPrecondition", "Unavailable", "PermissionDenied", "InvalidArgument", "Internal"}

-----------------------------------------------------------------------------
(* The lock by volume ID, and the end of a call. *)

TryLock(h, id) == <<host[h], id>> \notin locks /\ locks' = locks \cup {<<host[h], id>>}

(* A call that failed: nothing but its code matters afterwards. *)
Failed(h, code) == call' = [call EXCEPT ![h] = [NoCall EXCEPT !.pc = "answered", !.code = code]]

Return(h, code, bytes) ==
    /\ IF code # "OK" THEN Failed(h, code)
       ELSE call' = [call EXCEPT ![h] = [@ EXCEPT !.pc = "answered", !.code = code, !.bytes = bytes]]
    /\ locks' = locks \ {<<host[h], call[h].id>>}

(* The answers of a Nobus that refuses, as the caller of the driver sees them. *)
Refusals ==
    {statusError(mapHTTPError(r)) :
        r \in {[status |-> s, message |-> ""] : s \in {401, 404, 409, 413, 429, 503}}
              \cup {[status |-> 400, message |-> m] : m \in {"duplicate", "quota", "rate", "other"}}}

Refused(h) ==
    /\ "refuse" \in load
    /\ \E code \in Refusals : Return(h, code, 0)
    /\ UNCHANGED volumes

-----------------------------------------------------------------------------
(* CreateVolume: the size and the zone of the new volume. *)

(* Free to call again: no call, or an answered one. *)
Free(h) == call[h].pc \in {"idle", "answered", "refused", "grown"}

(* The zone of a request without a topology. *)
fallbackZone(parameter) == IF parameter # "" THEN parameter ELSE ConfigZone

(* verifyVolume looks for the new volume where GetVolumeByID does, in the *)
(* configured zone: one that was made elsewhere is answered Unavailable.  *)
CreateVolume(h) ==
    /\ "create" \in load /\ Free(h)
    /\ \E range \in Ranges, t \in IF "place" \in load THEN Topologies ELSE {NoTopology},
          parameter \in IF "place" \in load THEN Parameters ELSE {""} :
          LET fail(code) == Failed(h, code) /\ UNCHANGED <<volumes, fresh, filesystem, listing>>
          IN IF requestedBytes(range) = {} THEN fail("OutOfRange")
             ELSE \E bytes \in requestedBytes(range), id \in fresh :
                LET size == bytesToGiB(bytes) * bytesPerGiB
                    zone == selectedZone(t.requisite, t.preferred, fallbackZone(parameter))
                    seen == zone = ConfigZone
                IN IF size <= 0 THEN fail("InvalidArgument")
                   ELSE /\ volumes' = [volumes EXCEPT ![id] =
                                          [size |-> size, zone |-> zone, target |-> size]]
                        /\ fresh' = fresh \ {id}
                        /\ filesystem' = [filesystem EXCEPT ![id] = size]
                        /\ call' = [call EXCEPT ![h] =
                              [pc |-> "answered", id |-> id, range |-> range, topology |-> t,
                               parameter |-> parameter, code |-> IF seen THEN "OK" ELSE "Unavailable",
                               bytes |-> IF seen THEN size ELSE 0]]
                        /\ listing' = [listing EXCEPT !.came = IF listing.on THEN @ \cup {id} ELSE @]
    /\ UNCHANGED <<load, host, locks>>

-----------------------------------------------------------------------------
(* ControllerExpandVolume. *)

ExpandStart(h) ==
    /\ "expand" \in load /\ Free(h)
    /\ \E id \in Targets, range \in Ranges :
          IF <<host[h], id>> \in locks THEN Failed(h, "Aborted") /\ UNCHANGED locks
          ELSE IF requestedBytes(range) = {} THEN Failed(h, "OutOfRange") /\ UNCHANGED locks
          ELSE /\ TryLock(h, id)
               /\ call' = [call EXCEPT ![h] = [NoCall EXCEPT !.pc = "get", !.id = id, !.range = range]]
    /\ UNCHANGED <<load, host, volumes, fresh, filesystem, listing>>

(* GetVolumeByID lists the configured zone.  A volume that has the size is *)
(* answered with what it has.                                              *)
Enough_AnyVolume(id, size) == TRUE                            \* mutation: the size is not compared
Enough(id, size) == volumes[id].size >= size

ExpandGet(h) ==
    /\ call[h].pc = "get"
    /\ \/ Refused(h)
       \/ \E size \in requestedBytes(call[h].range) :
             IF call[h].id \notin InZone THEN Return(h, "NotFound", 0)
             ELSE IF Enough(call[h].id, size) THEN Return(h, "OK", volumes[call[h].id].size)
             ELSE call' = [call EXCEPT ![h].pc = "extend"] /\ UNCHANGED locks
    /\ UNCHANGED <<load, host, volumes, fresh, filesystem, listing>>

(* ResizeVolume: Nobus takes the extend, at once or later, when it makes the *)
(* volume larger; then the size is read once.                                *)
ResizeVolume(id, size) ==
    [volumes EXCEPT ![id] = [@ EXCEPT !.size = IF "late" \in load THEN volumes[id].size ELSE size,
                               !.target = size]]

(* The answer to an extend that is carried out is lost, or breaks off. *)
AnswerLost(h) ==
    /\ "refuse" \in load
    /\ \E code \in {statusError("Unavailable"), "Internal"} :
          call' = [call EXCEPT ![h] = [@ EXCEPT !.pc = "answered", !.code = code]]
    /\ locks' = locks \ {<<host[h], call[h].id>>}

ExpandExtend(h) ==
    /\ call[h].pc = "extend"
    /\ \/ Refused(h)
       \/ \E bytes \in requestedBytes(call[h].range) :
             LET id == call[h].id
                 size == bytesToGiB(bytes) * bytesPerGiB
             IN IF id \notin InZone
                  THEN Return(h, statusError("NotFound"), 0) /\ UNCHANGED volumes
                ELSE IF size <= volumes[id].target
                  THEN Return(h, statusError("Invalid"), 0) /\ UNCHANGED volumes
                ELSE /\ volumes' = ResizeVolume(id, size)
                     /\ \/ call' = [call EXCEPT ![h].pc = "read"] /\ UNCHANGED locks
                        \/ AnswerLost(h)
    /\ UNCHANGED <<load, host, fresh, filesystem, listing>>

ExpandRead(h) ==
    /\ call[h].pc = "read"
    /\ \/ Refused(h)
       \/ IF call[h].id \in InZone THEN Return(h, "OK", volumes[call[h].id].size)
                                   ELSE Return(h, "NotFound", 0)
    /\ UNCHANGED <<load, host, volumes, fresh, filesystem, listing>>

Grow ==
    /\ \E v \in Live : /\ volumes[v].size # volumes[v].target
                       /\ volumes' = [volumes EXCEPT ![v].size = volumes[v].target]
    /\ UNCHANGED <<load, host, fresh, locks, call, filesystem, listing>>

-----------------------------------------------------------------------------
(* NodeExpandVolume, which a CO calls after the controller's answer: the     *)
(* file system grows to the size that the device has.  What is mounted comes *)
(* before what the request says; other file systems are refused, and a tool  *)
(* that fails ends the call in the same way.  The CO may call again.         *)
Expand(requested, actual) ==
    LET selected == IF actual # "" THEN actual ELSE requested
    IN IF selected \in {"ext4", "ext3", "ext2", "xfs"} THEN "grow" ELSE "refuse"

NodeExpandVolume(h) ==
    /\ "expand" \in load
    /\ call[h].pc \in {"answered", "refused"} /\ call[h].code = "OK" /\ call[h].id \in Live
    /\ \E requested \in {"ext4", "xfs"}, actual \in {"ext4", "xfs", "", "btrfs"} :
          IF Expand(requested, actual) = "grow"
            THEN /\ filesystem' = [filesystem EXCEPT ![call[h].id] = volumes[call[h].id].size]
                 /\ call' = [call EXCEPT ![h].pc = "grown"]
            ELSE call' = [call EXCEPT ![h].pc = "refused"] /\ UNCHANGED filesystem
    /\ UNCHANGED <<load, host, volumes, fresh, locks, listing>>

-----------------------------------------------------------------------------
(* ListVolumes: every page reads the whole list again, in whatever order     *)
(* Nobus has it; the token of the next page is an index into the sorted one. *)

Sorted_AsListed(items) == items                               \* mutation: not sorted
Sorted(items) ==
    [i \in DOMAIN items |->
        CHOOSE v \in ToSet(items) : Cardinality({u \in ToSet(items) : u < v}) = i - 1]

paginate_PastNext(items, start, size) ==                      \* mutation: the page overlaps its token
    IF size = 0 \/ start + size >= Len(items)
      THEN [page |-> SubSeq(items, start + 1, Len(items)), next |-> 0]
      ELSE [page |-> SubSeq(items, start + 1, start + size), next |-> start + size + 1]
paginate(items, start, size) ==
    IF size = 0 \/ start + size >= Len(items)
      THEN [page |-> SubSeq(items, start + 1, Len(items)), next |-> 0]
      ELSE [page |-> SubSeq(items, start + 1, start + size), next |-> start + size]

ListVolumes ==
    /\ "list" \in load
    /\ \E items \in SetToSeqs(InZone), size \in IF listing.on THEN {listing.size} ELSE PageSizes :
          LET now  == IF listing.on THEN listing
                      ELSE [Unlisted EXCEPT !.on = TRUE, !.size = size, !.first = InZone]
              part == paginate(Sorted(items), now.token, size)
          IN listing' = [now EXCEPT !.on = part.next # 0, !.token = part.next,
                                    !.seen = @ \o part.page]
    /\ UNCHANGED <<load, host, volumes, fresh, locks, call, filesystem>>

Removed ==
    /\ "remove" \in load
    /\ \E v \in Live :
          /\ volumes' = [volumes EXCEPT ![v] = None]
          /\ filesystem' = [filesystem EXCEPT ![v] = 0]
          /\ listing' = [listing EXCEPT !.gone = IF listing.on THEN @ \cup {v} ELSE @]
    /\ UNCHANGED <<load, host, fresh, locks, call>>

-----------------------------------------------------------------------------
Smallest(zone) == [size |-> bytesPerGiB, zone |-> zone, target |-> bytesPerGiB]

(* Some volumes are there, of the configured zone and of others. *)
Init ==
    /\ load \in Loads /\ host \in Hosts
    /\ volumes \in [Ids -> {None} \cup {Smallest(zone) : zone \in Zones}]
    /\ "list" \notin load => \A v \in Ids \ Targets : volumes[v] = None
    /\ fresh = Ids \ Live
    /\ locks = {}
    /\ call = [h \in Handlers |-> NoCall]
    /\ filesystem = [v \in Ids |-> volumes[v].size]
    /\ listing = Unlisted

Next ==
    \/ \E h \in Handlers :
          \/ CreateVolume(h) \/ ExpandStart(h) \/ ExpandGet(h) \/ ExpandExtend(h) \/ ExpandRead(h)
          \/ NodeExpandVolume(h)
    \/ ListVolumes \/ Removed \/ Grow

Spec == Init /\ [][Next]_vars

-----------------------------------------------------------------------------
(* Properties. *)

(* Sizes are 64-bit numbers, and the records keep their shape. *)
TypeOK ==
    /\ load \in Loads /\ host \in Hosts
    /\ volumes \in [Ids -> [size : 0..MaxInt64, zone : Zones, target : 0..MaxInt64]]
    /\ fresh \subseteq Ids \ Live /\ locks \subseteq Controllers \X Ids
    /\ call \in [Handlers -> [pc : {"idle", "get", "extend", "read", "answered", "refused", "grown"},
                              id : Ids \cup {0}, range : Ranges \cup {NoRange},
                              topology : Topologies \cup {NoTopology}, parameter : Parameters \cup {""},
                              code : Codes \cup {""}, bytes : 0..MaxInt64]]
    /\ filesystem \in [Ids -> 0..MaxInt64]
    /\ listing.on \in BOOLEAN /\ listing.token \in Nat /\ listing.seen \in Seq(Ids)

(* A request whose rounding stays within 64 bits. *)
Sound(range) == range.required + VolumeGranularityBytes <= MaxInt64

AnsweredOK(h) == call[h].pc \in {"answered", "refused", "grown"} /\ call[h].code = "OK"

(* A size that is answered is at least the size that was asked for, where  *)
(* Nobus carries out an extend before it answers it.                       *)
AnsweredIsEnough ==
    "late" \notin load =>
        \A h \in Handlers :
            AnsweredOK(h) /\ Sound(call[h].range) => call[h].bytes >= call[h].range.required

(* Whoever makes a volume, or makes it larger, stays within the limit of *)
(* their own request, whatever others do at the same time.               *)
GrownWithinLimit ==
    [][\A v \in Ids : volumes'[v].target > volumes[v].target =>
          \E h \in Handlers :
             /\ call'[h] # call[h] /\ call'[h].id = v
             /\ call'[h].range.limit > 0 => volumes'[v].target <= call'[h].range.limit]_vars

(* When the controller and the node have both answered an expansion, the *)
(* file system has the size, unless the volume was removed.              *)
NodeGrown ==
    "late" \notin load =>
        \A h \in Handlers :
            call[h].pc = "grown" /\ Sound(call[h].range) /\ call[h].id \in Live
            /\ "remove" \notin load
            => filesystem[call[h].id] >= call[h].range.required

(* A new volume is in a requisite zone, when the request has any; no zone  *)
(* that they allow is preferred to it; and when no preference decides, it   *)
(* is in the zone of the parameter availability_zone, or else the           *)
(* configured one, if the requisite ones allow that.                        *)
PlacedAsAsked ==
    [][\A v \in Ids \ Live : volumes'[v].size # 0 =>
          \E h \in Handlers :
             LET requisite  == call'[h].topology.requisite
                 preferred  == call'[h].topology.preferred
                 zone       == volumes'[v].zone
                 fallback   == fallbackZone(call'[h].parameter)
                 allowed(z) == z # "" /\ (ToSet(requisite) \subseteq {""} \/ z \in ToSet(requisite))
             IN /\ call'[h].id = v /\ allowed(zone)
                /\ \A i \in DOMAIN preferred :
                      allowed(preferred[i]) => \E j \in 1..i : preferred[j] = zone
                /\ allowed(fallback) /\ (\A i \in DOMAIN preferred : ~allowed(preferred[i]))
                   => zone = fallback]_vars

(* A listing read to its last page has every volume that was there all the *)
(* time, unless one with a lower ID was removed meanwhile.                 *)
NoneSkipped ==
    ~listing.on =>
        \A v \in listing.first \ listing.gone :
            v \in ToSet(listing.seen) \/ \E g \in listing.gone : g < v

(* A listing has no volume twice, unless one with a lower ID was created. *)
NoneTwice ==
    \A i, j \in DOMAIN listing.seen :
        i # j /\ listing.seen[i] = listing.seen[j]
        => \E c \in listing.came : c < listing.seen[i]
=============================================================================
