------------------------------- MODULE Params -------------------------------
(***************************************************************************)
(* What the CSI driver makes of the parameters of a request                *)
(* (internal/driver/params.go), and the codes it answers the failures of   *)
(* Nobus with (internal/cloud/client.go, internal/driver/errors.go).       *)
(*                                                                         *)
(* A topology is its zone here, "" when it names none.  Sizes are int64    *)
(* numbers of bytes: MaxInt64 is the largest, and what exceeds it wraps.   *)
(***************************************************************************)
EXTENDS Integers, Sequences

CONSTANTS
    MaxInt64,                \* 2^63 - 1 in the code
    bytesPerGiB,             \* the unit of a volume at Nobus
    MinimumVolumeBytes,      \* the size of a volume nobody gave a size
    VolumeGranularityBytes   \* sizes are rounded up to a multiple of it

ASSUME SizesAssumption ==
    /\ MaxInt64 \in Nat /\ bytesPerGiB \in Nat \ {0}
    /\ MinimumVolumeBytes \in 1..MaxInt64
    /\ VolumeGranularityBytes \in 1..MaxInt64

(* The granularity is a GiB in the code, and MaxInt64 + 1 a multiple of it. *)
ASSUME GranularityAssumption ==
    /\ VolumeGranularityBytes % bytesPerGiB = 0
    /\ (MaxInt64 + 1) % VolumeGranularityBytes = 0

Int64 == -(MaxInt64 + 1)..MaxInt64

Wrap(n) == IF n > MaxInt64 THEN n - 2 * (MaxInt64 + 1) ELSE n

-----------------------------------------------------------------------------
(* Capacities. *)

roundUp_Down(value, granularity) ==                           \* mutation: rounds down
    (value \div granularity) * granularity
roundUp(value, granularity) ==
    IF value % granularity = 0 THEN value
    ELSE Wrap(((value \div granularity) + 1) * granularity)

(* The size of a capacity range, and whether its limit (0: none) allows it. *)
Rounded(range) ==
    roundUp(IF range.required = 0 THEN MinimumVolumeBytes ELSE range.required,
            VolumeGranularityBytes)

requestedBytes_LimitFirst(range) ==                           \* mutation: the limit is not rounded
    IF range.limit > 0 /\ range.required > range.limit THEN {} ELSE {Rounded(range)}
requestedBytes(range) ==
    IF range.limit > 0 /\ Rounded(range) > range.limit THEN {} ELSE {Rounded(range)}

(* The division of Go drops the fraction, also of what wrapped below zero. *)
bytesToGiB(sizeBytes) ==
    LET sum == Wrap(sizeBytes + bytesPerGiB - 1)
    IN IF sum >= 0 THEN sum \div bytesPerGiB ELSE -((-sum) \div bytesPerGiB)

-----------------------------------------------------------------------------
(* Placement: the zones of topologies, in their order. *)

topologyZones(topologies) == {topologies[i] : i \in DOMAIN topologies} \ {""}

FirstOf(topologies, zones) ==
    topologies[CHOOSE i \in DOMAIN topologies :
        topologies[i] \in zones /\ \A j \in 1..(i - 1) : topologies[j] \notin zones]

selectedZone_AnyPreferred(requisite, preferred, fallback) ==  \* mutation: requisite not asked
    IF topologyZones(preferred) # {} THEN FirstOf(preferred, topologyZones(preferred)) ELSE fallback
selectedZone_AnyTopology(requisite, preferred, fallback) ==   \* mutation: "" taken for a zone
    IF preferred # <<>> THEN preferred[1] ELSE fallback
selectedZone(requisite, preferred, fallback) ==
    LET required == topologyZones(requisite)
        wanted   == {z \in topologyZones(preferred) : required = {} \/ z \in required}
    IN CASE wanted # {}                            -> FirstOf(preferred, wanted)
         [] wanted = {} /\ (required = {} \/ fallback \in required) -> fallback
         [] OTHER                                  -> FirstOf(requisite, required)

-----------------------------------------------------------------------------
(* Failures. *)

(* The messages that Nobus tells failures apart by, and the class of each; *)
(* the text is looked at in this order.                                    *)
classifyClientError(message) ==
    CASE message \in {"not found", "does not exist", "not attached", "already detached"} -> "NotFound"
      [] message \in {"already exist", "duplicate"} -> "AlreadyExists"
      [] message = "quota" -> "QuotaExceeded"
      [] message = "rate"  -> "RateLimited"
      [] OTHER             -> "Invalid"

mapHTTPError(reply) ==
    CASE reply.status = 404          -> "NotFound"
      [] reply.status = 409          -> "Conflict"
      [] reply.status = 429          -> "RateLimited"
      [] reply.status \in {401, 403} -> "Unauthorized"
      [] reply.status = 413          -> "QuotaExceeded"
      [] reply.status >= 500         -> "Unavailable"
      [] OTHER                       -> classifyClientError(reply.message)

statusError(class) ==
    CASE class = "NotFound"      -> "NotFound"
      [] class = "AlreadyExists" -> "AlreadyExists"
      [] class = "QuotaExceeded" -> "ResourceExhausted"
      [] class = "Conflict"      -> "FailedPrecondition"
      [] class \in {"RateLimited", "Unavailable"} -> "Unavailable"
      [] class = "Unauthorized"  -> "PermissionDenied"
      [] class = "Invalid"       -> "InvalidArgument"
      [] OTHER                   -> "Internal"
=============================================================================
