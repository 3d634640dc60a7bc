----------------------------- MODULE Snapshots -----------------------------
(***************************************************************************)
(* CreateSnapshot and DeleteSnapshot of the CSI controller service         *)
(* (internal/driver/snapshot.go) over the Nobus client, for the requests   *)
(* that carry ONE snapshot name.                                           *)
(*                                                                         *)
(* CreateSnapshot reconciles by name as CreateVolume does, but looks its   *)
(* source volume up first, compares the source alone, deletes duplicates   *)
(* whatever their state and without waiting, and reads nothing after it.   *)
(* DeleteSnapshot takes no lock, and finds the zone of the snapshot in the *)
(* ID that CreateSnapshot made of it: it may be served by a controller     *)
(* that is configured for another zone.                                    *)
(***************************************************************************)
EXTENDS Naturals, Sequences

CONSTANTS
    Controllers,    \* the controller processes: each has its own lock table
    Handlers,       \* the goroutines that serve CreateSnapshot requests
    Host,           \* the controller a handler runs in
    ConfigZone,     \* NOBUS_AVAILABILITY_ZONE of each controller
    Ids,            \* the snapshot IDs Nobus can assign, ordered (bounds the creates)
    Registered,     \* those that are registered by hand once they exist
    Volumes,        \* the source volumes
    VolumeZone,     \* the zone of each of them
    Attempts,       \* createReconcileAttempts
    StableSamples,  \* createReconcileStableSamples
    Environments    \* the sets of faults (of FaultKinds) that a behaviour can have

FaultKinds == {"unordered", \* a new snapshot can get a lower ID than an older one
               "lag",       \* a created snapshot is not listed at once
               "late",      \* a create that reported an error takes effect later
               "crash"}     \* a controller process dies

ASSUME IdsAssumption    == Ids \subseteq Nat \ {0} /\ Registered \subseteq Ids
ASSUME HostAssumption   == Host \in [Handlers -> Controllers]
ASSUME ZoneAssumption   == /\ DOMAIN ConfigZone = Controllers /\ DOMAIN VolumeZone = Volumes
                           /\ \A v \in Volumes : VolumeZone[v] # ""
ASSUME SampleAssumption == Attempts \in Nat \ {0} /\ StableSamples \in Nat \ {0}
ASSUME EnvironmentAssumption == Environments \subseteq SUBSET FaultKinds

VARIABLES
    call,     \* the local state of each CreateSnapshot handler
    names,    \* the controllers whose lock on the name is held
    status,   \* the life of each snapshot at Nobus
    source,   \* the volume each was taken of: it lies in the zone of the volume
    listed,   \* the snapshots the list endpoint has begun to show
    late,     \* the sources of creates Nobus has yet to carry out
    returned, \* history: the handles CreateSnapshot answered OK with, and for which volume
    reaped,   \* history: snapshots whose delete came from reconciliation
    dropped,  \* history: snapshots whose delete came from DeleteSnapshot
    deleted,  \* history: the returned handles DeleteSnapshot answered OK for
    faults    \* what can go wrong in this behaviour: chosen once

handlerVars == <<call, names>>
nobusVars   == <<status, source, listed, late>>
ghostVars   == <<returned, reaped, dropped, deleted, faults>>
vars        == <<handlerVars, nobusVars, ghostVars>>

-----------------------------------------------------------------------------
(* Data.  0 stands for the empty ID. *)

NoId == 0
NoVolume == "none"

Present == {"available", "deleting"}

Idle == [pc |-> "idle", volume |-> NoVolume, site |-> "first", attempt |-> 0,
         stable |-> 0, previous |-> NoId, canonical |-> NoId, todo |-> {}]

zone(i) == VolumeZone[source[i]]

(* The snapshot ID of the CSI calls: the zone before the ID of Nobus.  A snapshot that
   was registered by hand is known by the bare ID. *)
encodeSnapshotID(i, z) == IF z = "" THEN <<i>> ELSE <<z, i>>
IdOf(handle) == handle[Len(handle)]

decodeSnapshotID_Fallback(handle, fallback) ==             \* mutation: the zone is ignored
    [id |-> IdOf(handle), zone |-> fallback]
decodeSnapshotID(handle, fallback) ==
    [id |-> IdOf(handle), zone |-> IF Len(handle) = 2 THEN handle[1] ELSE fallback]

Fresh(i) ==
    /\ status[i] = "none"
    /\ "unordered" \in faults \/ \A j \in Ids : status[j] # "none" => j < i

Visible(z) == {i \in listed : status[i] \in Present /\ zone(i) = z}

IsLeast(i, S) == i \in S /\ \A j \in S : i <= j

Canonical_AnyListed(k, V) == k \in V                       \* mutation: the list is not sorted
Canonical_Newest(k, V)    == k \in V /\ \A j \in V : j <= k   \* mutation: sorted backwards
Canonical(k, V) == IsLeast(k, V)

compatible_Any(i, v) == TRUE                               \* mutation: the source is not compared
compatible(i, v) == source[i] = v

-----------------------------------------------------------------------------
(* Handler steps. *)

Set(r, h) == call' = [call EXCEPT ![r] = h]

Reply(r) == Set(r, Idle) /\ names' = names \ {Host[r]}

TryLock(r) == Host[r] \notin names

Start(r, v) ==
    /\ call[r].pc = "idle"
    /\ TryLock(r)
    /\ names' = names \cup {Host[r]}
    /\ Set(r, [Idle EXCEPT !.pc = "source", !.volume = v])
    /\ UNCHANGED <<nobusVars, ghostVars>>

(* GetVolumeByID lists the zone of the controller: no other volume is found there, so
   that this zone is also the zone of everything that follows. *)
SourceRead(r) ==
    /\ call[r].pc = "source"
    /\ \/ /\ VolumeZone[call[r].volume] = ConfigZone[Host[r]]
          /\ Set(r, [call[r] EXCEPT !.pc = "list"]) /\ UNCHANGED names
       \/ /\ VolumeZone[call[r].volume] # ConfigZone[Host[r]]
          /\ Reply(r)
    /\ UNCHANGED <<nobusVars, ghostVars>>

Resample_Unbounded(h) ==                                   \* mutation: the last attempt is missed
    [h EXCEPT !.pc = "list", !.canonical = NoId, !.attempt = h.attempt + 1]
Resample(h) ==
    LET n == h.attempt + 1 IN
    IF n < Attempts
      THEN [h EXCEPT !.pc = "list", !.canonical = NoId, !.attempt = n, !.site = "created"]
      ELSE [Idle EXCEPT !.pc = "list", !.volume = h.volume, !.attempt = n, !.site = "final"]

(* The answer is the canonical snapshot: what was sampled is no longer used. *)
Chosen(h) == [Idle EXCEPT !.pc = "answer", !.volume = h.volume, !.canonical = h.canonical]

(* reconcileSnapshotByName is about to return the canonical snapshot, once todo is empty. *)
Sampled(h) ==
    LET n == IF h.canonical = h.previous THEN h.stable + 1 ELSE 1 IN
    IF n >= StableSamples
      THEN Chosen(h)
      ELSE Resample([h EXCEPT !.previous = h.canonical, !.stable = n])

Reconciled(h) ==
    IF h.todo # {}             THEN [h EXCEPT !.pc = "reap"]
    ELSE IF h.site = "created" THEN Sampled(h)
    ELSE Chosen(h)

ListFound(r) ==
    LET h == call[r]
        V == Visible(ConfigZone[Host[r]])
    IN /\ h.pc = "list"
       /\ \A i \in V : compatible(i, h.volume)
       /\ \E k \in V :
            /\ Canonical(k, V)
            /\ Set(r, Reconciled([h EXCEPT !.canonical = k, !.todo = V \ {k}]))
       /\ UNCHANGED <<names, nobusVars, ghostVars>>

ListEmpty(r) ==
    LET h == call[r]
    IN /\ h.pc = "list"
       /\ Visible(ConfigZone[Host[r]]) = {}
       /\ \/ h.site = "first" /\ Set(r, [h EXCEPT !.pc = "create"]) /\ UNCHANGED names
          \/ h.site = "created" /\ Set(r, Resample(h)) /\ UNCHANGED names
          \/ h.site = "final" /\ Reply(r)
       /\ UNCHANGED <<nobusVars, ghostVars>>

(* A snapshot of the name of another volume: AlreadyExists, and nothing is deleted. *)
ListIncompatible(r) ==
    /\ call[r].pc = "list"
    /\ \E i \in Visible(ConfigZone[Host[r]]) : ~compatible(i, call[r].volume)
    /\ Reply(r)
    /\ UNCHANGED <<nobusVars, ghostVars>>

Skip(r, d) ==
    Set(r, Reconciled([call[r] EXCEPT !.todo = call[r].todo \ {d}]))

(* Nobus takes the delete of a duplicate; the handler does not wait for its removal. *)
DeleteAccepted(r) ==
    /\ call[r].pc = "reap"
    /\ \E d \in call[r].todo :
         /\ IsLeast(d, call[r].todo)
         /\ status[d] \in Present
         /\ status' = [status EXCEPT ![d] = "deleting"]
         /\ reaped' = IF status[d] = "available" THEN reaped \cup {d} ELSE reaped
         /\ \/ Skip(r, d) /\ UNCHANGED names
            \/ Reply(r)                                    \* the answer was lost
    /\ UNCHANGED <<source, listed, late, returned, dropped, deleted, faults>>

(* ErrConflict (Nobus may refuse any delete so) and ErrNotFound are ignored. *)
DeleteRefused(r) ==
    /\ call[r].pc = "reap"
    /\ \E d \in call[r].todo : IsLeast(d, call[r].todo) /\ Skip(r, d)
    /\ UNCHANGED <<names, nobusVars, ghostVars>>

NewSnapshot(v) ==
    \E i \in Ids :
        /\ Fresh(i)
        /\ status' = [status EXCEPT ![i] = "available"]
        /\ source' = [source EXCEPT ![i] = v]
        /\ \/ listed' = listed \cup {i}
           \/ "lag" \in faults /\ UNCHANGED listed

Created(r) ==
    LET h == call[r]
    IN /\ h.pc = "create"
       /\ NewSnapshot(h.volume)
       /\ \/ Set(r, [h EXCEPT !.pc = "list", !.site = "created"]) /\ UNCHANGED names
          \/ Reply(r)                                      \* the answer was lost
       /\ UNCHANGED <<late, ghostVars>>

CreateLate(r) ==
    /\ "late" \in faults
    /\ call[r].pc = "create"
    /\ late' = late \cup {call[r].volume}
    /\ Reply(r)
    /\ UNCHANGED <<status, source, listed, ghostVars>>

AnswerOK(r) ==
    LET h == call[r]
        handle == encodeSnapshotID(h.canonical, zone(h.canonical))
    IN /\ h.pc = "answer"
       /\ returned' = returned \cup {[handle |-> handle, volume |-> h.volume]}
       /\ Reply(r)
       /\ UNCHANGED <<nobusVars, reaped, dropped, deleted, faults>>

(* Any remote call may fail without effect; a create refused as existing is an error. *)
CallFails(r) ==
    /\ call[r].pc \notin {"idle", "answer"}
    /\ Reply(r)
    /\ UNCHANGED <<nobusVars, ghostVars>>

Serve(r) ==
    \/ SourceRead(r)
    \/ ListFound(r) \/ ListEmpty(r) \/ ListIncompatible(r)
    \/ DeleteAccepted(r) \/ DeleteRefused(r)
    \/ Created(r) \/ CreateLate(r)
    \/ AnswerOK(r) \/ CallFails(r)

(* The DeleteSnapshot handler in controller c: one call, no lock, nothing kept. *)
DeleteSnapshot(c, handle) ==
    LET s == decodeSnapshotID(handle, ConfigZone[c])
        found == status[s.id] \in Present /\ zone(s.id) = s.zone
        done == deleted \cup ({handle} \cap {q.handle : q \in returned})
    IN /\ \/ /\ found
             /\ status' = [status EXCEPT ![s.id] = "deleting"]
             /\ dropped' = dropped \cup {s.id}
             /\ \/ deleted' = done
                \/ UNCHANGED deleted                        \* the answer was lost
          \/ /\ ~found                                     \* ErrNotFound is success
             /\ deleted' = done
             /\ UNCHANGED <<status, dropped>>
       /\ UNCHANGED <<handlerVars, source, listed, late, returned, reaped, faults>>

Crash(c) ==
    /\ "crash" \in faults
    /\ c \in names
    /\ call' = [r \in Handlers |-> IF Host[r] = c THEN Idle ELSE call[r]]
    /\ names' = names \ {c}
    /\ UNCHANGED <<nobusVars, ghostVars>>

-----------------------------------------------------------------------------
(* Nobus. *)

Appear(i) ==
    /\ status[i] \in Present
    /\ i \notin listed
    /\ listed' = listed \cup {i}
    /\ UNCHANGED <<handlerVars, status, source, late, ghostVars>>

Purge(i) ==
    /\ status[i] = "deleting"
    /\ status' = [status EXCEPT ![i] = "gone"]
    /\ UNCHANGED <<handlerVars, source, listed, late, ghostVars>>

TakeEffect ==
    \E v \in late :
        /\ NewSnapshot(v)
        /\ late' = late \ {v}
        /\ UNCHANGED <<handlerVars, ghostVars>>

(* The handles the orchestrator deletes: those it was given, and bare registered IDs. *)
Handles == {q.handle : q \in returned} \cup {<<i>> : i \in {j \in Registered : status[j] # "none"}}

Init ==
    /\ call = [r \in Handlers |-> Idle]
    /\ names = {}
    /\ status = [i \in Ids |-> "none"]
    /\ source = [i \in Ids |-> NoVolume]
    /\ listed = {} /\ late = {}
    /\ returned = {} /\ reaped = {} /\ dropped = {} /\ deleted = {}
    /\ faults \in Environments

Next ==
    \/ \E r \in Handlers : Serve(r) \/ \E v \in Volumes : Start(r, v)
    \/ \E c \in Controllers : Crash(c) \/ \E handle \in Handles : DeleteSnapshot(c, handle)
    \/ \E i \in Ids : Appear(i) \/ Purge(i)
    \/ TakeEffect

Spec == Init /\ [][Next]_vars

-----------------------------------------------------------------------------
(* Properties. *)

Call == [pc : {"idle", "source", "list", "reap", "create", "answer"},
         volume : Volumes \cup {NoVolume}, site : {"first", "created", "final"},
         attempt : 0..Attempts, stable : Nat, previous : Ids \cup {NoId},
         canonical : Ids \cup {NoId}, todo : SUBSET Ids]

(* The types, and the loop bound: only the final list is made with no attempts left. *)
GoodCall(h) ==
    /\ h \in Call
    /\ h.site # "final" => h.attempt < Attempts
    /\ h.pc # "idle" => h.volume \in Volumes
    /\ h.pc = "create" => h.site = "first"
    /\ h.pc \in {"reap", "answer"} => h.canonical \in Ids

TypeOK ==
    /\ call \in [Handlers -> Call] /\ \A r \in Handlers : GoodCall(call[r])
    /\ names \subseteq Controllers
    /\ status \in [Ids -> Present \cup {"none", "gone"}]
    /\ source \in [Ids -> Volumes \cup {NoVolume}]
    /\ listed \subseteq Ids
    /\ late \subseteq Volumes
    /\ \A q \in returned : Len(q.handle) \in 1..2 /\ IdOf(q.handle) \in Ids /\ q.volume \in Volumes
    /\ reaped \cup dropped \subseteq Ids
    /\ deleted \subseteq {q.handle : q \in returned}
    /\ faults \in Environments

Survives(i) == i \notin reaped /\ (status[i] = "available" \/ i \in dropped)

(* Reconciliation never deletes the last snapshot of the name: below each one that it
   deleted there is one of the same volume that only DeleteSnapshot can take away,
   whatever the controllers, crashes, late creates and list delays. *)
NameNeverLost ==
    \A d \in reaped : \E k \in Ids : k < d /\ source[k] = source[d] /\ Survives(k)

(* Where IDs grow and a snapshot is listed at once, reconciliation never deletes one that
   CreateSnapshot answered OK with, unless DeleteSnapshot was called for an older one of
   the same volume. *)
ReturnedNotReaped ==
    {"unordered", "lag"} \cap faults = {} => \A q \in returned :
        IdOf(q.handle) \in reaped =>
            \E k \in dropped : k < IdOf(q.handle) /\ source[k] = q.volume

(* An OK answer names a snapshot of the volume the request was for, also when another
   volume's snapshot of the same name appears during the sampling. *)
ReturnedOfSource == \A q \in returned : source[IdOf(q.handle)] = q.volume

(* DeleteSnapshot answers a snapshot it does not find with OK.  A snapshot that
   CreateSnapshot returned is nevertheless deleted by then, in whichever zone the
   controller that serves the delete is configured. *)
DeletedIsDeleted ==
    \A q \in returned :
        q.handle \in deleted => status[IdOf(q.handle)] \in {"deleting", "gone"}
=============================================================================
