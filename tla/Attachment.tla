----------------------------- MODULE Attachment -----------------------------
(***************************************************************************)
(* The handlers of the CSI controller service that work on a volume by its *)
(* ID: ControllerPublishVolume, ControllerUnpublishVolume and DeleteVolume *)
(* (internal/driver/controller.go), over the client's asynchronous calls   *)
(* (internal/cloud/client.go), for ONE volume in the configured zone.      *)
(* Volumes share nothing here: the lock is by volume ID.                   *)
(*                                                                         *)
(* The orchestrator is modelled as the caller that CSI expects: it wants a *)
(* single-writer volume on one node at a time, repeats a call until it is  *)
(* answered OK, and may give up waiting for an answer, which cancels the   *)
(* context of the handler: what the handler had already sent may still     *)
(* take effect.                                                            *)
(***************************************************************************)
EXTENDS Naturals

CONSTANTS
    Controllers,   \* the controller processes: each has its own lock table
    Handlers,      \* the goroutines that serve the requests
    Host,          \* the controller a handler runs in
    First,         \* the controller that runs in every deployment
    Nodes,         \* the instances the volume can be attached to
    None,          \* no node, no handler
    Environments   \* the sets of faults (of FaultKinds) that a behaviour can have

FaultKinds == {"replicas",   \* the other controllers run too
               "fail",       \* calls fail, waits expire, the orchestrator gives up
               "crash",      \* a controller process dies
               "hidden",     \* an attachment in progress may be missing from the list
               "slowDetach", \* a detach is answered before the volume is detached
               "late"}       \* a request whose call failed takes effect later

ASSUME HostAssumption  == Host \in [Handlers -> Controllers]
ASSUME FirstAssumption == First \in Controllers
ASSUME NoneAssumption  == None \notin Nodes \cup Handlers
ASSUME EnvironmentAssumption == Environments \subseteq SUBSET FaultKinds

VARIABLES
    op,          \* the local state of each handler
    locks,       \* the controllers whose lock on the volume is held
    volume,      \* the volume at Nobus
    attachment,  \* its attachment to each node
    late,        \* requests Nobus has yet to carry out
    waiter,      \* the handler whose answer the orchestrator waits for
    claim,       \* what the orchestrator knows of each node
    deletion,    \* what it knows of the deletion
    faults       \* what can go wrong in this behaviour: chosen once

handlerVars == <<op, locks>>
nobusVars   == <<volume, attachment, late>>
callerVars  == <<waiter, claim, deletion>>
vars        == <<handlerVars, nobusVars, callerVars, faults>>

-----------------------------------------------------------------------------
Kinds == {"publish", "unpublish", "delete"}
Posts == {"attach", "detach", "delete"}

(* The controllers that serve calls. *)
Running == IF "replicas" \in faults THEN Controllers ELSE {First}

Idle == [pc |-> "idle", kind |-> "delete", node |-> None]

Device == {"attached", "detaching"}       \* the states in which a device path is listed

Free == \A n \in Nodes : attachment[n] = "none"

(* The nodes in the attachment list of one read of the volume. *)
Listing(L) ==
    /\ \A n \in L : attachment[n] # "none"
    /\ \A n \in Nodes \ L :
          \/ attachment[n] = "none"
          \/ attachment[n] = "attaching" /\ "hidden" \in faults

(* What Nobus does with a request it accepts. *)
DoAttach(n) ==
    /\ volume = "present" /\ Free
    /\ attachment' = [attachment EXCEPT ![n] = "attaching"]
    /\ UNCHANGED volume

DoDetach(n) ==
    /\ attachment[n] = "attached"
    /\ \/ attachment' = [attachment EXCEPT ![n] = "none"]
       \/ "slowDetach" \in faults /\ attachment' = [attachment EXCEPT ![n] = "detaching"]
    /\ UNCHANGED volume

DoDelete ==
    /\ volume \in {"present", "deleting"} /\ Free
    /\ volume' = "deleting"
    /\ UNCHANGED attachment

-----------------------------------------------------------------------------
(* Handler steps. *)

Goto(r, pc) == op' = [op EXCEPT ![r].pc = pc] /\ UNCHANGED <<locks, callerVars, faults>>

Unlock_OnlyOK(r, ok) == IF ok THEN locks \ {Host[r]} ELSE locks   \* mutation: no defer
Unlock(r, ok) == locks \ {Host[r]}

(* Every return unlocks; the answer counts if the orchestrator still waits for it. *)
Answer(r, ok) ==
    LET k == op[r].kind
        n == op[r].node
    IN /\ op' = [op EXCEPT ![r] = Idle]
       /\ locks' = Unlock(r, ok)
       /\ waiter' = IF waiter = r THEN None ELSE waiter
       /\ claim' = IF ok /\ waiter = r /\ k # "delete"
                     THEN [claim EXCEPT ![n] = IF k = "publish" THEN "published" ELSE "free"]
                     ELSE claim
       /\ deletion' = IF ok /\ waiter = r /\ k = "delete" THEN "done" ELSE deletion
       /\ UNCHANGED faults

TryLock_NotTaken(r) == TRUE                                       \* mutation: no lock
TryLock(r) == Host[r] \notin locks

Begin(r, k, n) ==
    /\ waiter = None
    /\ Host[r] \in Running /\ op[r].pc = "idle"
    /\ TryLock(r)
    /\ locks' = locks \cup {Host[r]}
    /\ op' = [op EXCEPT ![r] = [pc   |-> IF k = "delete" THEN "delete" ELSE "read",
                                kind |-> k, node |-> n]]
    /\ waiter' = r
    /\ UNCHANGED <<nobusVars, faults>>

(* A cancelled context lets no further read succeed. *)
At(r, k, pc) == op[r].kind = k /\ op[r].pc = pc
Reading(r, k, pc) == At(r, k, pc) /\ waiter = r

(* attachedDevice: an attachment to the node without a device path yet counts as none. *)
attachedDevice(n, L) == n \in L /\ attachment[n] \in Device
attachedElsewhere(n, L) == n \notin L /\ L # {}
attachedToNode(n, L) == n \in L

PublishRead(r) ==
    LET n == op[r].node IN
    /\ Reading(r, "publish", "read")
    /\ \/ volume = "gone" /\ Answer(r, FALSE)
       \/ /\ volume # "gone"
          /\ \E L \in SUBSET Nodes :
               /\ Listing(L)
               /\ \/ attachedDevice(n, L) /\ Answer(r, TRUE)
                  \/ attachedElsewhere(n, L) /\ Answer(r, FALSE)
                  \/ /\ ~attachedDevice(n, L) /\ ~attachedElsewhere(n, L)
                     /\ Goto(r, "attach")
    /\ UNCHANGED nobusVars

AttachPost(r) ==
    /\ At(r, "publish", "attach")
    /\ \/ DoAttach(op[r].node) /\ Goto(r, "await")
       \/ ~(volume = "present" /\ Free) /\ Goto(r, "recheck") /\ UNCHANGED <<volume, attachment>>
    /\ UNCHANGED late

(* waitAttachedDevice polls; an error or the end of the wait leads to the second read. *)
AttachWait(r) ==
    /\ Reading(r, "publish", "await")
    /\ \/ attachment[op[r].node] \in Device /\ Answer(r, TRUE)
       \/ volume = "gone" /\ Goto(r, "recheck")
    /\ UNCHANGED nobusVars

(* attachedDeviceAfterPublishError *)
PublishRecheck(r) ==
    /\ Reading(r, "publish", "recheck")
    /\ \E L \in SUBSET Nodes :
         /\ Listing(L)
         /\ Answer(r, volume # "gone" /\ attachedDevice(op[r].node, L))
    /\ UNCHANGED nobusVars

UnpublishRead(r) ==
    /\ Reading(r, "unpublish", "read")
    /\ \/ volume = "gone" /\ Answer(r, TRUE)
       \/ /\ volume # "gone"
          /\ \E L \in SUBSET Nodes :
               /\ Listing(L)
               /\ \/ ~attachedToNode(op[r].node, L) /\ Answer(r, TRUE)
                  \/ attachedToNode(op[r].node, L) /\ Goto(r, "detach")
    /\ UNCHANGED nobusVars

(* ErrNotFound is success; a detach of an attachment in transition is refused. *)
detachAnswer_Any(n) == TRUE                        \* mutation: every refusal is success
detachAnswer(n) == attachment[n] = "none"

DetachPost(r) ==
    LET n == op[r].node IN
    /\ At(r, "unpublish", "detach")
    /\ \/ DoDetach(n) /\ Answer(r, TRUE)
       \/ /\ attachment[n] # "attached"
          /\ Answer(r, detachAnswer(n))
          /\ UNCHANGED <<volume, attachment>>
    /\ UNCHANGED late

(* The client answers a delete only when the list no longer has the volume. *)
afterDelete_NoWait(r) == Answer(r, TRUE)           \* mutation: no waitVolumeDeleted
afterDelete_Await(r) == Goto(r, "await")           \* mutation: the other wait loop
afterDelete(r) == Goto(r, "gone")

DeletePost(r) ==
    /\ At(r, "delete", "delete")
    /\ \/ DoDelete /\ afterDelete(r)
       \/ volume = "gone" /\ Answer(r, TRUE) /\ UNCHANGED <<volume, attachment>>
       \/ ~Free /\ Answer(r, FALSE) /\ UNCHANGED <<volume, attachment>>
    /\ UNCHANGED late

DeleteWait(r) ==
    /\ Reading(r, "delete", "gone")
    /\ volume = "gone"
    /\ Answer(r, TRUE)
    /\ UNCHANGED nobusVars

(* A call fails, its wait expires or its context ends: AttachVolume is followed by the
   second read, any other call by the error.  A POST on the wire may still be carried out. *)
CallFails(r) ==
    /\ op[r].pc # "idle"
    /\ "fail" \in faults \/ waiter # r
    /\ IF op[r].pc \in {"attach", "await"} THEN Goto(r, "recheck") ELSE Answer(r, FALSE)
    /\ \/ UNCHANGED late
       \/ /\ "late" \in faults
          /\ op[r].pc \in Posts
          /\ late' = late \cup {[pc |-> op[r].pc, node |-> op[r].node]}
    /\ UNCHANGED <<volume, attachment>>

Serve(r) ==
    \/ PublishRead(r) \/ AttachPost(r) \/ AttachWait(r) \/ PublishRecheck(r)
    \/ UnpublishRead(r) \/ DetachPost(r)
    \/ DeletePost(r) \/ DeleteWait(r)
    \/ CallFails(r)

Crash(c) ==
    /\ "crash" \in faults
    /\ c \in locks
    /\ op' = [r \in Handlers |-> IF Host[r] = c THEN Idle ELSE op[r]]
    /\ locks' = locks \ {c}
    /\ waiter' = IF waiter # None /\ Host[waiter] = c THEN None ELSE waiter
    /\ UNCHANGED <<nobusVars, claim, deletion, faults>>

-----------------------------------------------------------------------------
(* The orchestrator. *)

Publish(r, n) ==
    /\ claim[n] \in {"free", "publishing"}
    /\ \A m \in Nodes \ {n} : claim[m] = "free"
    /\ deletion = "none"
    /\ Begin(r, "publish", n)
    /\ claim' = [claim EXCEPT ![n] = "publishing"]
    /\ UNCHANGED deletion

Unpublish(r, n) ==
    /\ claim[n] # "free"
    /\ Begin(r, "unpublish", n)
    /\ claim' = [claim EXCEPT ![n] = "unpublishing"]
    /\ UNCHANGED deletion

Delete(r) ==
    /\ \A n \in Nodes : claim[n] = "free"
    /\ Begin(r, "delete", None)
    /\ deletion' = "asked"
    /\ UNCHANGED claim

GiveUp ==
    /\ "fail" \in faults
    /\ waiter # None
    /\ waiter' = None
    /\ UNCHANGED <<handlerVars, nobusVars, claim, deletion, faults>>

(* Nobus. *)
Attached(n) ==
    /\ attachment[n] = "attaching"
    /\ attachment' = [attachment EXCEPT ![n] = "attached"]
    /\ UNCHANGED <<handlerVars, volume, late, callerVars, faults>>

Detached(n) ==
    /\ attachment[n] = "detaching"
    /\ attachment' = [attachment EXCEPT ![n] = "none"]
    /\ UNCHANGED <<handlerVars, volume, late, callerVars, faults>>

Purge ==
    /\ volume = "deleting"
    /\ volume' = "gone"
    /\ UNCHANGED <<handlerVars, attachment, late, callerVars, faults>>

TakeEffect ==
    \E q \in late :
        /\ late' = late \ {q}
        /\ \/ q.pc = "attach" /\ DoAttach(q.node)
           \/ q.pc = "detach" /\ DoDetach(q.node)
           \/ q.pc = "delete" /\ DoDelete
        /\ UNCHANGED <<handlerVars, callerVars, faults>>

Init ==
    /\ op = [r \in Handlers |-> Idle]
    /\ locks = {}
    /\ volume = "present"
    /\ attachment = [n \in Nodes |-> "none"]
    /\ late = {}
    /\ waiter = None
    /\ claim = [n \in Nodes |-> "free"]
    /\ deletion = "none"
    /\ faults \in Environments

Complete == Purge \/ \E n \in Nodes : Attached(n) \/ Detached(n)

Next ==
    \/ \E r \in Handlers :
         \/ Serve(r)
         \/ \E n \in Nodes : Publish(r, n) \/ Unpublish(r, n)
         \/ Delete(r)
    \/ \E c \in Controllers : Crash(c)
    \/ GiveUp \/ Complete \/ TakeEffect

(* The goroutines run, Nobus ends what it began, and an unfinished call is repeated. *)
Fairness ==
    /\ \A r \in Handlers : WF_vars(Serve(r))
    /\ WF_vars(Complete)
    /\ \A n \in Nodes :
         /\ WF_vars(\E r \in Handlers : claim[n] = "publishing" /\ Publish(r, n))
         /\ WF_vars(\E r \in Handlers : claim[n] = "unpublishing" /\ Unpublish(r, n))

Spec == Init /\ [][Next]_vars /\ Fairness

-----------------------------------------------------------------------------
(* Properties. *)

(* Types; a handler is at a step of the call it serves. *)
PcOfKind(h) ==
    \/ h.kind = "publish" /\ h.pc \in {"read", "attach", "await", "recheck"} /\ h.node \in Nodes
    \/ h.kind = "unpublish" /\ h.pc \in {"read", "detach"} /\ h.node \in Nodes
    \/ h.kind = "delete" /\ h.pc \in {"idle", "delete", "gone"} /\ h.node = None

TypeOK ==
    /\ op \in [Handlers -> [pc : {"idle", "read", "await", "recheck", "gone"} \cup Posts,
                            kind : Kinds, node : Nodes \cup {None}]]
    /\ \A r \in Handlers : PcOfKind(op[r])
    /\ locks \subseteq Running
    /\ volume \in {"present", "deleting", "gone"}
    /\ attachment \in [Nodes -> {"none", "attaching", "attached", "detaching"}]
    /\ late \subseteq [pc : Posts, node : Nodes \cup {None}]
    /\ waiter \in Handlers \cup {None}
    /\ claim \in [Nodes -> {"free", "publishing", "published", "unpublishing"}]
    /\ deletion \in {"none", "asked", "done"}
    /\ faults \in Environments

(* A controller works on a volume with one handler at a time, whatever call it
   serves, and a lock never outlives its handler. *)
LockHeld ==
    /\ locks = {Host[r] : r \in {q \in Handlers : op[q].pc # "idle"}}
    /\ \A q, r \in Handlers :
          op[q].pc # "idle" /\ op[r].pc # "idle" /\ Host[q] = Host[r] => q = r

OneController == "replicas" \notin faults

(* With one controller, and a Nobus that carries a request out before its call
   fails and detaches at once, a volume ControllerPublishVolume reported stays
   attached to its node until ControllerUnpublishVolume is called: no handler that
   was given up on, died or was retried takes it away. *)
PublishedIsAttached ==
    OneController /\ {"slowDetach", "late"} \cap faults = {} =>
        \A n \in Nodes : claim[n] = "published" => attachment[n] = "attached"

(* Where, moreover, attachments in progress are listed: once
   ControllerUnpublishVolume answered OK no attachment to the node is left, not even
   one begun by a publish that timed out. *)
ReleasedIsDetached ==
    OneController /\ {"slowDetach", "late", "hidden"} \cap faults = {} =>
        \A n \in Nodes : claim[n] = "free" => attachment[n] = "none"

(* A DeleteVolume answered OK means the volume is gone, for any number of
   controllers and with every fault: the client waits for the asynchronous removal. *)
DeletedIsGone == deletion = "done" => volume = "gone"

(* Nothing fails and no controller dies. *)
Healthy == faults \subseteq {"replicas", "hidden", "slowDetach"}

(* Where calls do not fail, an unpublish that is repeated ends, also while an attach is
   still in progress. *)
UnpublishCompletes ==
    Healthy => \A n \in Nodes : claim[n] = "unpublishing" ~> claim[n] = "free"

(* Where calls do not fail, a publish that is repeated ends, also behind a slow detach
   from another node, unless the orchestrator turns to unpublishing. *)
PublishCompletes ==
    Healthy => \A n \in Nodes : claim[n] = "publishing" ~> claim[n] \in {"published", "unpublishing"}
=============================================================================
