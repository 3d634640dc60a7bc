---------------------------- MODULE CreateVolume ----------------------------
(***************************************************************************)
(* The CreateVolume handler of the CSI controller service                  *)
(* (internal/driver/controller.go) over the Nobus client                   *)
(* (internal/cloud/client.go), for the requests that carry ONE volume      *)
(* name.  Requests for other names share nothing with these: the lock is   *)
(* by name and every list is filtered by name.                             *)
(*                                                                         *)
(* The Nobus API does not create conditionally by name, so the handler     *)
(* lists, creates, and then samples the list until the lowest ID of the    *)
(* name is stable, deleting the other volumes of the name on the way.  A   *)
(* handler is one goroutine; each of its remote calls is one step, and     *)
(* everything between two calls belongs to the step of the first one.      *)
(***************************************************************************)
EXTENDS Naturals

CONSTANTS
    Controllers,    \* the controller processes: each has its own lock table
    Handlers,       \* the goroutines that serve CreateVolume requests
    Host,           \* the controller a handler runs in
    Ids,            \* the volume IDs Nobus can assign, ordered (bounds the creates)
    Zones,          \* the availability zones, and "" for none
    Types,          \* the volume types, and "" for none
    Requests,       \* the cloud.VolumeSpec values that requests carry
    ConfigZone,     \* NOBUS_AVAILABILITY_ZONE
    Attempts,       \* createReconcileAttempts
    StableSamples,  \* createReconcileStableSamples
    Environments    \* the sets of faults (of FaultKinds) that a behaviour can have

FaultKinds == {"unordered", \* a new volume can get a lower ID than an older one
               "lag",       \* a created volume is not listed at once
               "late",      \* a create that reported an error takes effect later
               "crash"}     \* a controller process dies

DefaultVolumeType   == "__DEFAULT__"
EncryptedVolumeType == "Encrypted-v1"

VolumeSpec == [size : Nat, zone : Zones, type : Types, encrypted : BOOLEAN]

ASSUME IdsAssumption     == Ids \subseteq Nat \ {0}
ASSUME HostAssumption    == Host \in [Handlers -> Controllers]
ASSUME ZoneAssumption    == "" \in Zones
ASSUME TypeAssumption    == {"", DefaultVolumeType, EncryptedVolumeType} \subseteq Types
ASSUME RequestAssumption == Requests \subseteq VolumeSpec
ASSUME SampleAssumption  == Attempts \in Nat \ {0} /\ StableSamples \in Nat \ {0}
ASSUME EnvironmentAssumption == Environments \subseteq SUBSET FaultKinds

VARIABLES
    call,       \* the local state of each handler
    names,      \* the controllers whose lock on the name is held
    status,     \* the life of each volume at Nobus
    attributes, \* what each volume was created with
    listed,     \* the volumes the list endpoint has begun to show
    late,       \* the creates Nobus has taken but not carried out yet
    returned,   \* history: IDs some CreateVolume call answered OK with
    reaped,     \* history: volumes whose delete came from reconciliation
    dropped,    \* history: volumes whose delete came from DeleteVolume
    faults      \* what can go wrong in this behaviour: chosen once

handlerVars == <<call, names>>
volumeVars  == <<status, attributes, listed, late>>
ghostVars   == <<returned, reaped, dropped, faults>>
vars        == <<handlerVars, volumeVars, ghostVars>>

-----------------------------------------------------------------------------
(* Data.  0 stands for the empty ID. *)

NoId == 0

NoSpec == [size |-> 0, zone |-> "", type |-> "", encrypted |-> FALSE]

Sites == {"first",    \* before the create
          "exists",   \* after the create was refused as existing
          "created",  \* a sample in reconcileCreatedVolume
          "final"}    \* the list after its last attempt

Call == [pc        : {"idle", "list", "reap", "removing", "create", "verify"},
         spec      : VolumeSpec,
         site      : Sites,             \* where reconcileVolumeByName was called
         attempt   : 0..Attempts,       \* samples taken
         stable    : Nat,               \* equal samples in a row
         previous  : Nat,               \* the last sample
         canonical : Nat,               \* the lowest ID of the last list
         todo      : SUBSET Ids]        \* duplicates the loop has still to delete

Idle == [pc |-> "idle", spec |-> NoSpec, site |-> "first", attempt |-> 0,
         stable |-> 0, previous |-> NoId, canonical |-> NoId, todo |-> {}]

Present == {"available", "in-use", "deleting"}
Live    == {"available", "in-use"}

(* The ID Nobus gives to a new volume. *)
Fresh(i) ==
    /\ status[i] = "none"
    /\ "unordered" \in faults \/ \A j \in Ids : status[j] # "none" => j < i

(* What Nobus makes of a specification: an empty type is resolved. *)
ResolvedType(s) ==
    IF s.type # "" THEN s.type
    ELSE IF s.encrypted THEN EncryptedVolumeType ELSE DefaultVolumeType

Allocated(s) == [s EXCEPT !.type = ResolvedType(s)]

compatibleVolume(v, s) ==
    /\ v.size = s.size
    /\ v.zone = s.zone
    /\ s.type = "" \/ v.type = s.type
    /\ v.encrypted = s.encrypted

IsLeast(i, S) == i \in S /\ \A j \in S : i <= j

(* The list of a zone: all the reads of the client are lists. *)
Visible(zone) == {i \in listed : status[i] \in Present /\ attributes[i].zone = zone}

(* slices.SortFunc by ID, then compatible[0]. *)
Canonical_AnyListed(k, V) == k \in V                       \* mutation: the list is not sorted
Canonical_Newest(k, V)    == k \in V /\ \A j \in V : j <= k   \* mutation: sorted backwards
Canonical(k, V) == IsLeast(k, V)

deletableDuplicateVolume(i) == status[i] # "in-use"

-----------------------------------------------------------------------------
(* Handler steps. *)

Set(r, h) == call' = [call EXCEPT ![r] = h]

(* Every return runs the deferred unlock. *)
Reply(r) == Set(r, Idle) /\ names' = names \ {Host[r]}

(* d.names.TryLock: a request that finds the lock held is answered Aborted and changes nothing. *)
TryLock_NotTaken(r) == TRUE                                \* mutation: no lock
TryLock(r) == Host[r] \notin names

Start(r, s) ==
    /\ call[r].pc = "idle"
    /\ TryLock(r)
    /\ names' = names \cup {Host[r]}
    /\ Set(r, [Idle EXCEPT !.pc = "list", !.spec = s])
    /\ UNCHANGED <<volumeVars, ghostVars>>

(* The next turn of the sampling loop; after the last attempt, the final list. *)
Resample_Unbounded(h) ==                                   \* mutation: the last attempt is missed
    [h EXCEPT !.pc = "list", !.canonical = NoId, !.attempt = h.attempt + 1]
Resample(h) ==
    [h EXCEPT !.pc        = "list",
              !.canonical = NoId,
              !.attempt   = h.attempt + 1,
              !.site      = IF h.attempt + 1 < Attempts THEN "created" ELSE "final"]

(* reconcileVolumeByName is about to return the canonical volume, once todo is empty. *)
Sampled(h) ==
    LET n == IF h.canonical = h.previous THEN h.stable + 1 ELSE 1 IN
    IF n >= StableSamples
      THEN [h EXCEPT !.pc = "verify"]
      ELSE Resample([h EXCEPT !.previous = h.canonical, !.stable = n])

Reconciled(h) ==
    IF h.todo # {}             THEN [h EXCEPT !.pc = "reap"]
    ELSE IF h.site = "created" THEN Sampled(h)
    ELSE [h EXCEPT !.pc = "verify"]

(* The list of the name in the requested zone, and the choice of the canonical volume. *)
ListFound(r) ==
    LET h == call[r]
        V == Visible(h.spec.zone)
    IN /\ h.pc = "list"
       /\ \A i \in V : compatibleVolume(attributes[i], h.spec)
       /\ \E k \in V :
            /\ Canonical(k, V)
            /\ Set(r, Reconciled([h EXCEPT !.canonical = k,
                                           !.todo = {i \in V \ {k} : deletableDuplicateVolume(i)}]))
       /\ UNCHANGED <<names, volumeVars, ghostVars>>

(* The name exists, or was just created, and is still not listed: the caller gives up. *)
GiveUp_CreateAgain(r) ==                                   \* mutation: it starts over instead
    Set(r, [call[r] EXCEPT !.pc = "create", !.site = "first"]) /\ UNCHANGED names
GiveUp(r) == Reply(r)

(* No volume of the name: ErrNotFound, which each caller treats in its own way. *)
ListEmpty(r) ==
    LET h == call[r]
    IN /\ h.pc = "list"
       /\ Visible(h.spec.zone) = {}
       /\ \/ /\ h.site = "first"
             /\ Set(r, [h EXCEPT !.pc = "create"])
             /\ UNCHANGED names
          \/ /\ h.site = "created"
             /\ Set(r, Resample(h))
             /\ UNCHANGED names
          \/ /\ h.site \in {"exists", "final"}
             /\ GiveUp(r)
       /\ UNCHANGED <<volumeVars, ghostVars>>

(* An incompatible volume of the name: AlreadyExists, and nothing is deleted. *)
ListIncompatible(r) ==
    /\ call[r].pc = "list"
    /\ \E i \in Visible(call[r].spec.zone) : ~compatibleVolume(attributes[i], call[r].spec)
    /\ Reply(r)
    /\ UNCHANGED <<volumeVars, ghostVars>>

(* The loop is done with duplicate d. *)
Skip(r, d) ==
    Set(r, Reconciled([call[r] EXCEPT !.todo = call[r].todo \ {d}]))

(* Nobus takes the delete of a duplicate, unless it is attached; the client then polls. *)
DeleteAccepted(r) ==
    LET h == call[r]
    IN /\ h.pc = "reap"
       /\ \E d \in h.todo :
            /\ IsLeast(d, h.todo)
            /\ status[d] \in {"available", "deleting"}
            /\ attributes[d].zone = ConfigZone
            /\ status' = [status EXCEPT ![d] = "deleting"]
            /\ reaped' = IF status[d] = "available" THEN reaped \cup {d} ELSE reaped
       /\ \/ Set(r, [h EXCEPT !.pc = "removing"]) /\ UNCHANGED names
          \/ Reply(r)                                  \* the answer was lost
       /\ UNCHANGED <<attributes, listed, late, returned, dropped, faults>>

(* ErrConflict and ErrNotFound are ignored.  The query names the configured zone only. *)
DeleteRefused(r) ==
    /\ call[r].pc = "reap"
    /\ \E d \in call[r].todo :
         /\ IsLeast(d, call[r].todo)
         /\ status[d] # "available" \/ attributes[d].zone # ConfigZone
         /\ Skip(r, d)
    /\ UNCHANGED <<names, volumeVars, ghostVars>>

(* waitVolumeDeleted: the configured zone no longer lists the volume. *)
Removed(r) ==
    /\ call[r].pc = "removing"
    /\ \E d \in call[r].todo :
         /\ IsLeast(d, call[r].todo)
         /\ d \notin Visible(ConfigZone)
         /\ Skip(r, d)
    /\ UNCHANGED <<names, volumeVars, ghostVars>>

(* A volume of specification s comes into being at Nobus. *)
NewVolume(s) ==
    \E i \in Ids :
        /\ Fresh(i)
        /\ status' = [status EXCEPT ![i] = "available"]
        /\ attributes' = [attributes EXCEPT ![i] = Allocated(s)]
        /\ \/ listed' = listed \cup {i}
           \/ "lag" \in faults /\ UNCHANGED listed

Created(r) ==
    LET h == call[r]
    IN /\ h.pc = "create"
       /\ NewVolume(h.spec)
       /\ \/ /\ Set(r, [h EXCEPT !.pc = "list", !.site = "created"])
             /\ UNCHANGED names
          \/ Reply(r)                                  \* the answer was lost
       /\ UNCHANGED <<late, ghostVars>>

(* The POST reports an error now and takes effect later. *)
CreateLate(r) ==
    /\ "late" \in faults
    /\ call[r].pc = "create"
    /\ late' = late \cup {call[r].spec}
    /\ Reply(r)
    /\ UNCHANGED <<status, attributes, listed, ghostVars>>

(* The POST is refused because the name exists: the handler reconciles once more. *)
CreateRefused(r) ==
    /\ call[r].pc = "create"
    /\ \E i \in Ids : status[i] \in Present
    /\ Set(r, [call[r] EXCEPT !.pc = "list", !.site = "exists"])
    /\ UNCHANGED <<names, volumeVars, ghostVars>>

(* verifyVolume: the read by ID lists the configured zone and puts it in the volume. *)
Verified(h) ==
    /\ h.canonical \in Visible(ConfigZone)
    /\ compatibleVolume(attributes[h.canonical], h.spec)

VerifyOK(r) ==
    /\ call[r].pc = "verify"
    /\ Verified(call[r])
    /\ returned' = returned \cup {call[r].canonical}
    /\ Reply(r)
    /\ UNCHANGED <<volumeVars, reaped, dropped, faults>>

VerifyRejected(r) ==
    /\ call[r].pc = "verify"
    /\ ~Verified(call[r])
    /\ Reply(r)
    /\ UNCHANGED <<volumeVars, ghostVars>>

(* Any remote call may fail without effect, and any wait may end with its context. *)
CallFails(r) ==
    /\ call[r].pc # "idle"
    /\ Reply(r)
    /\ UNCHANGED <<volumeVars, ghostVars>>

Serve(r) ==
    \/ ListFound(r) \/ ListEmpty(r) \/ ListIncompatible(r)
    \/ DeleteAccepted(r) \/ DeleteRefused(r) \/ Removed(r)
    \/ Created(r) \/ CreateLate(r) \/ CreateRefused(r)
    \/ VerifyOK(r) \/ VerifyRejected(r) \/ CallFails(r)

(* The process dies with its handlers and its lock table. *)
Crash(c) ==
    /\ "crash" \in faults
    /\ c \in names
    /\ call' = [r \in Handlers |-> IF Host[r] = c THEN Idle ELSE call[r]]
    /\ names' = names \ {c}
    /\ UNCHANGED <<volumeVars, ghostVars>>

-----------------------------------------------------------------------------
(* Nobus, and the orchestrator's other calls on the volumes it was given. *)

Appear(i) ==
    /\ status[i] \in Present
    /\ i \notin listed
    /\ listed' = listed \cup {i}
    /\ UNCHANGED <<handlerVars, status, attributes, late, ghostVars>>

TakeEffect ==
    \E s \in late :
        /\ NewVolume(s)
        /\ late' = late \ {s}
        /\ UNCHANGED <<handlerVars, ghostVars>>

Purge(i) ==
    /\ status[i] = "deleting"
    /\ status' = [status EXCEPT ![i] = "gone"]
    /\ UNCHANGED <<handlerVars, attributes, listed, late, ghostVars>>

Attach(i) ==
    /\ i \in returned
    /\ status[i] = "available"
    /\ status' = [status EXCEPT ![i] = "in-use"]
    /\ UNCHANGED <<handlerVars, attributes, listed, late, ghostVars>>

Detach(i) ==
    /\ status[i] = "in-use"
    /\ status' = [status EXCEPT ![i] = "available"]
    /\ UNCHANGED <<handlerVars, attributes, listed, late, ghostVars>>

(* The DeleteVolume handler: by ID, without the lock on the name. *)
DeleteVolume(i) ==
    /\ i \in returned
    /\ status[i] = "available"
    /\ attributes[i].zone = ConfigZone
    /\ status' = [status EXCEPT ![i] = "deleting"]
    /\ dropped' = dropped \cup {i}
    /\ UNCHANGED <<handlerVars, attributes, listed, late, returned, reaped, faults>>

Nobus(i) == Appear(i) \/ Purge(i) \/ Attach(i) \/ Detach(i) \/ DeleteVolume(i)

Init ==
    /\ call = [r \in Handlers |-> Idle]
    /\ names = {}
    /\ status = [i \in Ids |-> "none"]
    /\ attributes = [i \in Ids |-> NoSpec]
    /\ listed = {} /\ late = {}
    /\ returned = {} /\ reaped = {} /\ dropped = {}
    /\ faults \in Environments

Next ==
    \/ \E r \in Handlers : Serve(r) \/ \E s \in Requests : Start(r, s)
    \/ \E c \in Controllers : Crash(c)
    \/ TakeEffect
    \/ \E i \in Ids : Nobus(i)

Spec == Init /\ [][Next]_vars /\ \A r \in Handlers : WF_vars(Serve(r))

-----------------------------------------------------------------------------
(* Properties. *)

(* The types, and the loop bound: only the final list is made with no attempts left. *)
GoodCall(h) ==
    /\ h \in Call
    /\ h.site # "final" => h.attempt < Attempts
    /\ h.pc = "create" => h.site = "first"

TypeOK ==
    /\ call \in [Handlers -> Call]
    /\ \A r \in Handlers : GoodCall(call[r])
    /\ names \subseteq Controllers
    /\ status \in [Ids -> {"none", "available", "in-use", "deleting", "gone"}]
    /\ attributes \in [Ids -> VolumeSpec]
    /\ listed \subseteq Ids
    /\ late \subseteq VolumeSpec
    /\ returned \subseteq Ids
    /\ reaped \subseteq Ids
    /\ dropped \subseteq Ids
    /\ faults \in Environments

SameShape(i, j) ==
    /\ attributes[i].size = attributes[j].size
    /\ attributes[i].zone = attributes[j].zone
    /\ attributes[i].encrypted = attributes[j].encrypted

Survives(i) == i \notin reaped /\ (status[i] \in Live \/ i \in dropped)

(* Reconciliation never loses the name: whatever the controllers, crashes and
   provider delays, below every volume that reconcileVolumeByName deleted there
   is one of the same size, zone and encryption that it did not delete and that
   is alive unless the orchestrator deleted it with DeleteVolume. *)
NameNeverLost ==
    \A d \in reaped : \E k \in Ids : k < d /\ SameShape(k, d) /\ Survives(k)

(* A CreateVolume holds the name's lock of its controller from TryLock to the
   deferred unlock, and no two handlers of a controller work on the name. *)
LockHeld ==
    /\ names = {Host[r] : r \in {q \in Handlers : call[q].pc # "idle"}}
    /\ \A q, r \in Handlers :
          call[q].pc # "idle" /\ call[r].pc # "idle" /\ Host[q] = Host[r] => q = r

(* Reconciliation never deletes a volume whose ID a CreateVolume answered OK with,
   unless the orchestrator deleted the canonical volume in between: the ID that is
   returned is the canonical one of every controller. *)
ReturnedIsKept ==
    \A i \in returned \cap reaped :
        \E k \in dropped : k < i /\ attributes[k].zone = attributes[i].zone

(* The lowest ID of a list is the oldest volume of the name. *)
LowestIsOldest == {"unordered", "lag"} \cap faults = {}

(* Where a new volume has a higher ID than the older ones and is listed at once, a
   volume that was answered OK is kept, also with two controllers and late creates. *)
ReturnedNotReaped == LowestIsOldest => ReturnedIsKept

(* Under the same assumption, at most one of the volumes that OK answers named is
   alive: a retry, or a second controller, is answered with the volume in use. *)
OneLiveVolume ==
    LowestIsOldest =>
        \A i, j \in returned :
            /\ status[i] \in Live /\ status[j] \in Live
            /\ attributes[i].zone = attributes[j].zone
            => i = j

(* verifyVolume rejects a volume only if its zone stopped listing it or it differs
   from the request: a volume created in a zone the request asked for is found. *)
FoundInItsZone ==
    [][\A r \in Handlers :
        VerifyRejected(r) =>
            \/ call[r].canonical \notin Visible(call[r].spec.zone)
            \/ ~compatibleVolume(attributes[call[r].canonical], call[r].spec)]_vars

(* Every CreateVolume is answered (or dies with its controller): the sampling loop
   is bounded and each wait ends by itself, whatever Nobus does. *)
CallsEnd == \A r \in Handlers : call[r].pc # "idle" ~> call[r].pc = "idle"

-----------------------------------------------------------------------------
(* The promise that CreateVolume and DeleteVolume keep. *)

Shape(a) == [size |-> a.size, zone |-> a.zone, encrypted |-> a.encrypted]

Made == {i \in Ids : status[i] # "none"}

Promise == INSTANCE Registry WITH
    Shapes   <- [size : Nat, zone : Zones, encrypted : BOOLEAN],
    made     <- Made,
    shape    <- [i \in Ids |-> Shape(attributes[i])],
    kept     <- Made \ reaped,
    answered <- returned

(* Every step of the handlers, of the controllers' crashes and of Nobus is a
   step that the promise allows, or one that it does not see. *)
KeepsPromise == Promise!Spec
=============================================================================
