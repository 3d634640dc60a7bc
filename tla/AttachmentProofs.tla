-------------------------- MODULE AttachmentProofs --------------------------
(***************************************************************************)
(* Theorems of Attachment, for any number of controllers, handlers and     *)
(* nodes and any set of faults.                                            *)
(*                                                                         *)
(* The argument for PublishedIsAttached and ReleasedIsDetached: with one   *)
(* controller the lock lets one handler work on the volume, waited for or  *)
(* not, and what the orchestrator asked of the handler's node stays its    *)
(* claim (Served); so a handler attaches only where a publish was asked    *)
(* for and detaches only where an unpublish was.                           *)
(***************************************************************************)
EXTENDS Attachment, TLAPS

Pcs == {"idle", "read", "await", "recheck", "gone"} \cup Posts

Busy(r) == op[r].pc # "idle"

(* A handler goes on with its call. *)
GoesOn(r) ==
    \E pc \in Pcs \ {"idle"} :
        /\ PcOfKind([pc |-> pc, kind |-> op[r].kind, node |-> op[r].node])
        /\ Goto(r, pc)

Answers(r) == \E ok \in BOOLEAN : Answer(r, ok)

(* What a request that Nobus carries out does to the volume. *)
CarriedOut == DoDelete \/ \E n \in Nodes : DoAttach(n) \/ DoDetach(n)

-----------------------------------------------------------------------------
(* The forms of steps. *)

(* A handler that serves goes on or answers, and Nobus carries out what it asks or not. *)
LEMMA ServeForm ==
    ASSUME TypeOK, NEW r \in Handlers, Serve(r)
    PROVE  /\ Busy(r)
           /\ GoesOn(r) \/ Answers(r)
           /\ UNCHANGED <<volume, attachment>> \/ CarriedOut
<1>0. /\ op[r].kind # "delete" => op[r].node \in Nodes
      /\ op[r].kind = "delete" => op[r].node = None
  BY DEF TypeOK, PcOfKind
<1> USE DEF At, Reading, Busy
<1>1. CASE PublishRead(r)
  BY <1>0, <1>1 DEF PublishRead, GoesOn, Answers, PcOfKind, Pcs, Posts, nobusVars
<1>2. CASE AttachPost(r)
  BY <1>0, <1>2 DEF AttachPost, GoesOn, PcOfKind, Pcs, Posts, CarriedOut
<1>3. CASE AttachWait(r)
  BY <1>0, <1>3 DEF AttachWait, GoesOn, Answers, PcOfKind, Pcs, Posts, nobusVars
<1>4. CASE PublishRecheck(r)
  <2>1. PICK L \in SUBSET Nodes : Answer(r, volume # "gone" /\ attachedDevice(op[r].node, L))
    BY <1>4 DEF PublishRecheck
  <2>2. (volume # "gone" /\ attachedDevice(op[r].node, L)) \in BOOLEAN
    OBVIOUS
  <2>3. Answers(r)
    BY <2>1, <2>2, Zenon DEF Answers
  <2> QED  BY <1>4, <2>3 DEF PublishRecheck, nobusVars
<1>5. CASE UnpublishRead(r)
  BY <1>0, <1>5 DEF UnpublishRead, GoesOn, Answers, PcOfKind, Pcs, Posts, nobusVars
<1>6. CASE DetachPost(r)
  <2>1. detachAnswer(op[r].node) \in BOOLEAN
    BY DEF detachAnswer
  <2>2. Answers(r)
    BY <1>6, <2>1, Zenon DEF DetachPost, Answers
  <2> QED  BY <1>0, <1>6, <2>2 DEF DetachPost, CarriedOut
<1>7. CASE DeletePost(r)
  BY <1>0, <1>7 DEF DeletePost, afterDelete, GoesOn, Answers, PcOfKind, Pcs, Posts, CarriedOut
<1>8. CASE DeleteWait(r)
  BY <1>8 DEF DeleteWait, Answers, nobusVars
<1>9. CASE CallFails(r)
  <2>1. CASE op[r].pc \in {"attach", "await"}
    <3>1. Goto(r, "recheck")
      BY <1>9, <2>1 DEF CallFails
    <3>2. PcOfKind([pc |-> "recheck", kind |-> op[r].kind, node |-> op[r].node])
      BY <1>0, <2>1 DEF TypeOK, PcOfKind
    <3> QED  BY <1>9, <2>1, <3>1, <3>2 DEF CallFails, GoesOn, Pcs
  <2>2. CASE op[r].pc \notin {"attach", "await"}
    BY <1>9, <2>2 DEF CallFails, Answers
  <2> QED  BY <2>1, <2>2
<1> QED  BY <1>1, <1>2, <1>3, <1>4, <1>5, <1>6, <1>7, <1>8, <1>9 DEF Serve

-----------------------------------------------------------------------------
(* Types. *)

HandlerTypes ==
    /\ op \in [Handlers -> [pc : Pcs, kind : Kinds, node : Nodes \cup {None}]]
    /\ \A r \in Handlers : PcOfKind(op[r])

CallerTypes ==
    /\ locks \subseteq Running
    /\ waiter \in Handlers \cup {None}
    /\ claim \in [Nodes -> {"free", "publishing", "published", "unpublishing"}]
    /\ deletion \in {"none", "asked", "done"}
    /\ faults \in Environments

NobusTypes ==
    /\ volume \in {"present", "deleting", "gone"}
    /\ attachment \in [Nodes -> {"none", "attaching", "attached", "detaching"}]

LateTypes == late \subseteq [pc : Posts, node : Nodes \cup {None}]

LEMMA TypeParts == TypeOK <=> HandlerTypes /\ CallerTypes /\ NobusTypes /\ LateTypes
  BY DEF TypeOK, HandlerTypes, CallerTypes, NobusTypes, LateTypes, Pcs

LEMMA TypePartsNext == HandlerTypes' /\ CallerTypes' /\ NobusTypes' /\ LateTypes' => TypeOK'
  BY DEF TypeOK, HandlerTypes, CallerTypes, NobusTypes, LateTypes, Pcs

LEMMA InitTypes == Init => TypeOK
<1> SUFFICES ASSUME Init PROVE TypeOK  OBVIOUS
<1>1. HandlerTypes
  BY DEF Init, HandlerTypes, Idle, PcOfKind, Pcs, Kinds
<1>2. CallerTypes /\ NobusTypes /\ LateTypes
  BY DEF Init, CallerTypes, NobusTypes, LateTypes
<1> QED  BY <1>1, <1>2, TypeParts

LEMMA GoesOnTypes ==
    ASSUME TypeOK, NEW r \in Handlers, GoesOn(r) PROVE HandlerTypes' /\ CallerTypes'
<1>0. HandlerTypes /\ CallerTypes
  BY TypeParts
<1>1. PICK pc \in Pcs \ {"idle"} :
         /\ PcOfKind([pc |-> pc, kind |-> op[r].kind, node |-> op[r].node])
         /\ op' = [op EXCEPT ![r].pc = pc]
         /\ UNCHANGED <<locks, callerVars, faults>>
  BY DEF GoesOn, Goto
<1>2. op'[r] = [pc |-> pc, kind |-> op[r].kind, node |-> op[r].node]
  BY <1>0, <1>1 DEF HandlerTypes
<1>3. \A q \in Handlers : q # r => op'[q] = op[q]
  BY <1>0, <1>1 DEF HandlerTypes
<1>4. op' \in [Handlers -> [pc : Pcs, kind : Kinds, node : Nodes \cup {None}]]
  BY <1>0, <1>1 DEF HandlerTypes
<1>5. \A q \in Handlers : PcOfKind(op'[q])
  BY <1>0, <1>1, <1>2, <1>3, Zenon DEF HandlerTypes
<1> QED  BY <1>0, <1>1, <1>4, <1>5 DEF HandlerTypes, CallerTypes, callerVars, Running

LEMMA AnswersTypes ==
    ASSUME TypeOK, NEW r \in Handlers, Busy(r), Answers(r) PROVE HandlerTypes' /\ CallerTypes'
<1>0. HandlerTypes /\ CallerTypes
  BY TypeParts
<1>1. PICK ok \in BOOLEAN : Answer(r, ok)
  BY DEF Answers
<1>2. PcOfKind(Idle)
  BY DEF PcOfKind, Idle
<1>3. Idle \in [pc : Pcs, kind : Kinds, node : Nodes \cup {None}]
  BY DEF Idle, Pcs, Kinds
<1>4. op' = [op EXCEPT ![r] = Idle]
  BY <1>1 DEF Answer
<1>5. HandlerTypes'
  BY <1>0, <1>2, <1>3, <1>4 DEF HandlerTypes
<1>6. op[r].kind # "delete" => op[r].node \in Nodes
  BY <1>0 DEF HandlerTypes, PcOfKind
<1>7. claim' \in [Nodes -> {"free", "publishing", "published", "unpublishing"}]
  BY <1>0, <1>1, <1>6 DEF CallerTypes, Answer
<1>8. CallerTypes'
  BY <1>0, <1>1, <1>7 DEF CallerTypes, Answer, Unlock, Running
<1> QED  BY <1>5, <1>8

LEMMA CarriedOutTypes == ASSUME TypeOK, CarriedOut PROVE NobusTypes'
  BY TypeParts DEF CarriedOut, DoAttach, DoDetach, DoDelete, NobusTypes

(* The requests that are late are those of handlers, cut off. *)
LEMMA ServeLate ==
    ASSUME TypeOK, NEW r \in Handlers, Serve(r)
    PROVE  /\ LateTypes'
           /\ late' # late => "late" \in faults
<1>1. CASE CallFails(r)
  <2>1. op[r].node \in Nodes \cup {None}
    BY TypeParts DEF HandlerTypes
  <2> QED  BY <1>1, <2>1, TypeParts DEF CallFails, LateTypes
<1>2. CASE ~CallFails(r)
  <2>1. late' = late
    BY <1>2 DEF Serve, PublishRead, AttachPost, AttachWait, PublishRecheck, UnpublishRead,
                DetachPost, DeletePost, DeleteWait, nobusVars
  <2> QED  BY <2>1, TypeParts DEF LateTypes
<1> QED  BY <1>1, <1>2

LEMMA ServeTypes == ASSUME TypeOK, NEW r \in Handlers, Serve(r) PROVE TypeOK'
<1>1. HandlerTypes' /\ CallerTypes'
  BY ServeForm, GoesOnTypes, AnswersTypes
<1>2. NobusTypes'
  BY ServeForm, CarriedOutTypes, TypeParts DEF NobusTypes
<1> QED  BY <1>1, <1>2, ServeLate, TypePartsNext

(* The orchestrator begins a call. *)
LEMMA BeginTypes ==
    ASSUME TypeOK, NEW r \in Handlers, NEW k \in Kinds, NEW n \in Nodes \cup {None},
           Begin(r, k, n), k = "delete" <=> n = None,
           claim' \in [Nodes -> {"free", "publishing", "published", "unpublishing"}],
           deletion' \in {"none", "asked", "done"}
    PROVE  TypeOK'
<1> DEFINE new == [pc |-> IF k = "delete" THEN "delete" ELSE "read", kind |-> k, node |-> n]
<1>0. op' = [op EXCEPT ![r] = new] /\ locks' = locks \cup {Host[r]} /\ waiter' = r
      /\ UNCHANGED <<nobusVars, faults>>
  BY DEF Begin
<1>1. new \in [pc : Pcs, kind : Kinds, node : Nodes \cup {None}] /\ PcOfKind(new)
  BY DEF Pcs, Posts, Kinds, PcOfKind
<1> HIDE DEF new
<1>2. HandlerTypes'
  BY <1>0, <1>1, TypeParts DEF HandlerTypes
<1>3. CallerTypes'
  BY <1>0, HostAssumption, TypeParts DEF CallerTypes, Begin, Running
<1>4. NobusTypes' /\ LateTypes'
  BY <1>0, TypeParts DEF NobusTypes, LateTypes, nobusVars
<1> QED  BY <1>2, <1>3, <1>4, TypePartsNext

LEMMA CallTypes ==
    ASSUME TypeOK, NEW r \in Handlers,
           Delete(r) \/ \E n \in Nodes : Publish(r, n) \/ Unpublish(r, n)
    PROVE  TypeOK'
<1>0. CallerTypes
  BY TypeParts
<1>1. CASE Delete(r)
  BY <1>0, <1>1, BeginTypes DEF Delete, Kinds, CallerTypes
<1>2. ASSUME NEW n \in Nodes, Publish(r, n) PROVE TypeOK'
  BY <1>0, <1>2, NoneAssumption, BeginTypes DEF Publish, Kinds, CallerTypes
<1>3. ASSUME NEW n \in Nodes, Unpublish(r, n) PROVE TypeOK'
  BY <1>0, <1>3, NoneAssumption, BeginTypes DEF Unpublish, Kinds, CallerTypes
<1> QED  BY <1>1, <1>2, <1>3

LEMMA CrashTypes == ASSUME TypeOK, NEW c \in Controllers, Crash(c) PROVE TypeOK'
<1>1. op' = [r \in Handlers |-> IF Host[r] = c THEN Idle ELSE op[r]]
  BY DEF Crash
<1>2. Idle \in [pc : Pcs, kind : Kinds, node : Nodes \cup {None}] /\ PcOfKind(Idle)
  BY DEF Idle, Pcs, Kinds, PcOfKind
<1>3. HandlerTypes'
  BY <1>1, <1>2, TypeParts DEF HandlerTypes
<1>4. CallerTypes' /\ NobusTypes' /\ LateTypes'
  BY TypeParts DEF Crash, CallerTypes, NobusTypes, LateTypes, nobusVars, Running
<1> QED  BY <1>3, <1>4, TypePartsNext

(* The steps in which no handler moves. *)
Aside == GiveUp \/ Complete \/ TakeEffect

LEMMA AsideForm ==
    ASSUME Aside
    PROVE  /\ UNCHANGED <<op, locks, claim, deletion, faults>>
           /\ waiter' = waiter \/ waiter' = None
           /\ late' \subseteq late
  BY DEF Aside, GiveUp, Complete, TakeEffect, Attached, Detached, Purge, handlerVars, nobusVars,
         callerVars

LEMMA AsideTypes == ASSUME TypeOK, Aside PROVE TypeOK'
<1>1. HandlerTypes' /\ CallerTypes' /\ LateTypes'
  BY AsideForm, TypeParts DEF HandlerTypes, CallerTypes, LateTypes, Running
<1>2. CASE TakeEffect
  <2>1. PICK q \in late :
           \/ q.pc = "attach" /\ DoAttach(q.node)
           \/ q.pc = "detach" /\ DoDetach(q.node)
           \/ q.pc = "delete" /\ DoDelete
    BY <1>2 DEF TakeEffect
  <2>2. NobusTypes'
    BY <2>1, TypeParts DEF NobusTypes, DoAttach, DoDetach, DoDelete
  <2> QED  BY <1>1, <2>2, TypePartsNext
<1>3. CASE GiveUp \/ Complete
  <2>1. NobusTypes'
    BY <1>3, TypeParts DEF NobusTypes, GiveUp, Complete, Attached, Detached, Purge, nobusVars
  <2> QED  BY <1>1, <2>1, TypePartsNext
<1> QED  BY <1>2, <1>3 DEF Aside

LEMMA NextTypes == ASSUME TypeOK, [Next]_vars PROVE TypeOK'
<1>1. CASE \E r \in Handlers : Serve(r)
  BY <1>1, ServeTypes
<1>2. CASE \E r \in Handlers : Delete(r) \/ \E n \in Nodes : Publish(r, n) \/ Unpublish(r, n)
  BY <1>2, CallTypes
<1>3. CASE \E c \in Controllers : Crash(c)
  BY <1>3, CrashTypes
<1>4. CASE Aside
  BY <1>4, AsideTypes
<1>5. CASE UNCHANGED vars
  BY <1>5 DEF TypeOK, vars, handlerVars, nobusVars, callerVars, Running
<1> QED  BY <1>1, <1>2, <1>3, <1>4, <1>5 DEF Next, Aside

(* Handlers are at a step of the call they serve, with every fault.  This is what the
   other proofs read off a handler: a publish has a node, a delete has none. *)
THEOREM TypeCorrect == Spec => []TypeOK
<1>1. Init => TypeOK  BY InitTypes
<1>2. TypeOK /\ [Next]_vars => TypeOK'  BY NextTypes
<1> QED  BY <1>1, <1>2, PTL DEF Spec

-----------------------------------------------------------------------------
(* The lock. *)

LEMMA GoesOnLock ==
    ASSUME TypeOK, LockHeld, NEW r \in Handlers, Busy(r), GoesOn(r) PROVE LockHeld'
<1>1. PICK pc \in Pcs \ {"idle"} : op' = [op EXCEPT ![r].pc = pc] /\ locks' = locks
  BY DEF GoesOn, Goto
<1>2. \A q \in Handlers : op'[q].pc # "idle" <=> op[q].pc # "idle"
  BY <1>1 DEF TypeOK, Busy
<1> QED  BY <1>1, <1>2 DEF LockHeld

(* With one controller the locks have one member, and so one handler is at work. *)
LEMMA OneAtWork ==
    ASSUME TypeOK, LockHeld, OneController, NEW q \in Handlers, NEW r \in Handlers, Busy(q)
    PROVE  Host[q] = First /\ (Host[r] \in Running => Host[r] = Host[q])
<1>1. Running = {First}
  BY DEF OneController, Running
<1>2. Host[q] \in locks
  BY DEF LockHeld, Busy
<1>3. locks \subseteq {First}
  BY <1>1 DEF TypeOK
<1> QED  BY <1>1, <1>2, <1>3

LEMMA AnswersLock ==
    ASSUME TypeOK, LockHeld, NEW r \in Handlers, Busy(r), Answers(r)
    PROVE  LockHeld' /\ (OneController => \A q \in Handlers : ~Busy(q)')
<1>1. op' = [op EXCEPT ![r] = Idle] /\ locks' = locks \ {Host[r]}
  BY DEF Answers, Answer, Unlock
<1>2. op'[r].pc = "idle" /\ \A q \in Handlers : q # r => op'[q] = op[q]
  BY <1>1 DEF TypeOK, Idle
<1>3. \A q \in Handlers : q # r /\ op[q].pc # "idle" => Host[q] # Host[r]
  BY DEF LockHeld, Busy
<1>4. OneController => \A q \in Handlers : q # r => ~Busy(q)
  BY <1>3, OneAtWork DEF Busy
<1>5. (OneController => \A q \in Handlers : ~Busy(q)')
  BY <1>2, <1>4 DEF Busy
<1> QED  BY <1>1, <1>2, <1>3, <1>5 DEF LockHeld

LEMMA BeginLock ==
    ASSUME TypeOK, LockHeld, NEW r \in Handlers, NEW k \in Kinds, NEW n \in Nodes \cup {None},
           Begin(r, k, n)
    PROVE  /\ LockHeld'
           /\ op'[r].kind = k /\ op'[r].node = n
           /\ OneController => \A q \in Handlers : q # r => ~Busy(q)'
<1> DEFINE new == [pc |-> IF k = "delete" THEN "delete" ELSE "read", kind |-> k, node |-> n]
<1>1. op' = [op EXCEPT ![r] = new] /\ locks' = locks \cup {Host[r]} /\ Host[r] \notin locks
  BY DEF Begin, TryLock
<1>2. new.pc # "idle" /\ new.kind = k /\ new.node = n
  OBVIOUS
<1> HIDE DEF new
<1>3. op'[r] = new /\ \A q \in Handlers : q # r => op'[q] = op[q]
  BY <1>1 DEF TypeOK
<1>4. \A q \in Handlers : op[q].pc # "idle" => Host[q] # Host[r]
  BY <1>1 DEF LockHeld
<1>5. OneController => \A q \in Handlers : ~Busy(q)
  BY <1>4, OneAtWork DEF Busy, Begin
<1>6. OneController => \A q \in Handlers : q # r => ~Busy(q)'
  BY <1>3, <1>5 DEF Busy
<1> QED  BY <1>1, <1>2, <1>3, <1>4, <1>6 DEF LockHeld

LEMMA CrashLock ==
    ASSUME TypeOK, LockHeld, NEW c \in Controllers, Crash(c)
    PROVE  /\ LockHeld'
           /\ \A q \in Handlers : Busy(q)' => op'[q] = op[q] /\ Busy(q)
<1>1. op' = [r \in Handlers |-> IF Host[r] = c THEN Idle ELSE op[r]] /\ locks' = locks \ {c}
  BY DEF Crash
<1>2. \A q \in Handlers : op'[q].pc # "idle" => op'[q] = op[q] /\ Host[q] # c
  BY <1>1 DEF Idle
<1>3. \A q \in Handlers : op[q].pc # "idle" /\ Host[q] # c => op'[q] = op[q]
  BY <1>1
<1> QED  BY <1>1, <1>2, <1>3 DEF LockHeld, Busy

LEMMA NextLock == ASSUME TypeOK, LockHeld, [Next]_vars PROVE LockHeld'
<1>1. ASSUME NEW r \in Handlers, Serve(r) PROVE LockHeld'
  BY <1>1, ServeForm, GoesOnLock, AnswersLock
<1>2. ASSUME NEW r \in Handlers, Delete(r) PROVE LockHeld'
  BY <1>2, BeginLock DEF Delete, Kinds
<1>3. ASSUME NEW r \in Handlers, NEW n \in Nodes, Publish(r, n) \/ Unpublish(r, n) PROVE LockHeld'
  BY <1>3, BeginLock DEF Publish, Unpublish, Kinds
<1>4. ASSUME NEW c \in Controllers, Crash(c) PROVE LockHeld'
  BY <1>4, CrashLock
<1>5. CASE Aside
  BY <1>5, AsideForm DEF LockHeld
<1>6. CASE UNCHANGED vars
  BY <1>6 DEF LockHeld, vars, handlerVars
<1> QED  BY <1>1, <1>2, <1>3, <1>4, <1>5, <1>6 DEF Next, Aside

(* A controller works on a volume with one handler at a time, and no lock outlives its
   handler, through answers, abandoned calls and crashes: TryLock and the deferred Unlock. *)
THEOREM LockIsHeld == Spec => []LockHeld
<1>1. Init => TypeOK /\ LockHeld
  BY InitTypes DEF Init, LockHeld, Idle
<1>2. TypeOK /\ LockHeld /\ [Next]_vars => (TypeOK /\ LockHeld)'
  BY NextTypes, NextLock
<1> QED  BY <1>1, <1>2, PTL DEF Spec

-----------------------------------------------------------------------------
(* The deletion. *)

(* A volume that is being deleted has no attachments. *)
Ended == volume # "present" => Free

(* Volumes do not come back, and only a volume without attachments is deleted. *)
VolumeStep ==
    /\ volume = "gone" => volume' = "gone"
    /\ Ended'

LEMMA CarriedOutVolume ==
    ASSUME TypeOK, Ended, CarriedOut \/ UNCHANGED <<volume, attachment>>
    PROVE  VolumeStep
<1>1. CASE UNCHANGED <<volume, attachment>>
  BY <1>1 DEF VolumeStep, Ended, Free
<1>2. CASE DoDelete
  BY <1>2 DEF VolumeStep, Ended, Free, DoDelete
<1>3. ASSUME NEW n \in Nodes, DoAttach(n) PROVE VolumeStep
  BY <1>3 DEF VolumeStep, Ended, Free, DoAttach
<1>4. ASSUME NEW n \in Nodes, DoDetach(n) PROVE VolumeStep
  BY <1>4 DEF VolumeStep, Ended, Free, DoDetach
<1> QED  BY <1>1, <1>2, <1>3, <1>4 DEF CarriedOut

LEMMA NextVolume == ASSUME TypeOK, Ended, [Next]_vars PROVE VolumeStep
<1>1. ASSUME NEW r \in Handlers, Serve(r) PROVE VolumeStep
  BY <1>1, ServeForm, CarriedOutVolume
<1>2. ASSUME NEW r \in Handlers, Delete(r) \/ \E n \in Nodes : Publish(r, n) \/ Unpublish(r, n)
      PROVE  VolumeStep
  <2>1. UNCHANGED <<volume, attachment>>
    BY <1>2 DEF Delete, Publish, Unpublish, Begin, nobusVars
  <2> QED  BY <2>1, CarriedOutVolume
<1>3. ASSUME NEW c \in Controllers, Crash(c) PROVE VolumeStep
  BY <1>3, CarriedOutVolume DEF Crash, nobusVars
<1>4. CASE GiveUp \/ UNCHANGED vars
  BY <1>4, CarriedOutVolume DEF GiveUp, vars, nobusVars
<1>5. CASE Complete
  BY <1>5 DEF Complete, Purge, Attached, Detached, TypeOK, VolumeStep, Ended, Free
<1>6. CASE TakeEffect
  <2>1. PICK q \in late :
           \/ q.pc = "attach" /\ DoAttach(q.node)
           \/ q.pc = "detach" /\ DoDetach(q.node)
           \/ q.pc = "delete" /\ DoDelete
    BY <1>6 DEF TakeEffect
  <2> QED  BY <2>1 DEF VolumeStep, Ended, Free, DoAttach, DoDetach, DoDelete, TypeOK
<1> QED  BY <1>1, <1>2, <1>3, <1>4, <1>5, <1>6 DEF Next

(* The orchestrator learns that a volume is deleted when it is gone. *)
LEMMA NextDeletion ==
    ASSUME TypeOK, [Next]_vars, deletion' = "done" PROVE deletion = "done" \/ volume = "gone"
<1>1. ASSUME NEW r \in Handlers, Serve(r) PROVE deletion = "done" \/ volume = "gone"
  BY <1>1 DEF Serve, PublishRead, AttachPost, AttachWait, PublishRecheck, UnpublishRead, DetachPost,
              DeletePost, afterDelete, DeleteWait, CallFails, At, Reading, Goto, Answer, callerVars
<1>2. ASSUME NEW r \in Handlers, Delete(r) \/ \E n \in Nodes : Publish(r, n) \/ Unpublish(r, n)
      PROVE  deletion = "done"
  BY <1>2 DEF Delete, Publish, Unpublish
<1>3. ASSUME NEW c \in Controllers, Crash(c) PROVE deletion = "done"
  BY <1>3 DEF Crash
<1>4. CASE Aside
  BY <1>4, AsideForm
<1>5. CASE UNCHANGED vars
  BY <1>5 DEF vars, callerVars
<1> QED  BY <1>1, <1>2, <1>3, <1>4, <1>5 DEF Next, Aside

(* A volume that DeleteVolume answered OK for is gone and stays gone, for any number of
   controllers, with cancelled calls, crashes and requests that take effect late. *)
THEOREM DeletedVolumesAreGone == Spec => []DeletedIsGone
<1>1. Init => TypeOK /\ Ended /\ DeletedIsGone
  BY InitTypes DEF Init, Ended, DeletedIsGone
<1>2. TypeOK /\ Ended /\ DeletedIsGone /\ [Next]_vars => (TypeOK /\ Ended /\ DeletedIsGone)'
  BY NextTypes, NextVolume, NextDeletion DEF VolumeStep, DeletedIsGone
<1> QED  BY <1>1, <1>2, PTL DEF Spec

-----------------------------------------------------------------------------
(* The claims of the orchestrator, with one controller and a Nobus that does what it is
   asked before it answers. *)

Once == OneController /\ {"slowDetach", "late"} \cap faults = {}

(* What is at work on the volume is what the orchestrator asked for. *)
Served ==
    \A r \in Handlers : Busy(r) =>
        /\ op[r].kind = "publish" => claim[op[r].node] = "publishing"
        /\ op[r].kind = "unpublish" => claim[op[r].node] = "unpublishing"

(* The claims agree with the attachments. *)
Agreed ==
    /\ \A n \in Nodes : attachment[n] # "detaching"
    /\ \A n \in Nodes : claim[n] = "published" => attachment[n] = "attached"
    /\ "hidden" \notin faults => \A n \in Nodes : claim[n] = "free" => attachment[n] = "none"

IInv ==
    /\ TypeOK /\ LockHeld /\ Ended
    /\ Once => late = {} /\ Served /\ Agreed

LEMMA FaultsFixed == ASSUME TypeOK, [Next]_vars PROVE faults' = faults
<1>1. ASSUME NEW r \in Handlers, Serve(r) PROVE faults' = faults
  BY <1>1, ServeForm DEF GoesOn, Answers, Goto, Answer
<1>2. ASSUME NEW r \in Handlers, Delete(r) \/ \E n \in Nodes : Publish(r, n) \/ Unpublish(r, n)
      PROVE  faults' = faults
  BY <1>2 DEF Delete, Publish, Unpublish, Begin
<1>3. CASE (\E c \in Controllers : Crash(c)) \/ Aside \/ UNCHANGED vars
  BY <1>3, AsideForm DEF Crash, vars
<1> QED  BY <1>1, <1>2, <1>3 DEF Next, Aside

(* A handler that goes on serves the same claim; one that answered was the only one. *)
LEMMA ServeServed ==
    ASSUME IInv, Once, NEW r \in Handlers, Busy(r), GoesOn(r) \/ Answers(r) PROVE Served'
<1>0. TypeOK /\ LockHeld /\ Served
  BY DEF IInv
<1>1. CASE Answers(r)
  BY <1>0, <1>1, AnswersLock DEF Once, Served
<1>2. CASE GoesOn(r)
  <2>1. PICK pc \in Pcs \ {"idle"} : op' = [op EXCEPT ![r].pc = pc] /\ claim' = claim
    BY <1>2 DEF GoesOn, Goto, callerVars
  <2>2. \A q \in Handlers : op'[q].kind = op[q].kind /\ op'[q].node = op[q].node
                            /\ (Busy(q)' <=> Busy(q))
    BY <1>0, <2>1 DEF TypeOK, Busy
  <2> QED  BY <1>0, <2>1, <2>2 DEF Served
<1> QED  BY <1>1, <1>2

(* A handler that goes on or fails, and leaves the attachments alone. *)
LEMMA StillAgreed ==
    ASSUME Agreed, NEW r \in Handlers, GoesOn(r) \/ Answer(r, FALSE), UNCHANGED attachment
    PROVE  Agreed'
  BY DEF Agreed, GoesOn, Goto, Answer, callerVars

(* A publish is answered OK where the attachment is. *)
LEMMA PublishAgreed ==
    ASSUME TypeOK, Agreed, NEW r \in Handlers, op[r].kind = "publish", Answer(r, TRUE),
           UNCHANGED attachment, attachment[op[r].node] \in Device
    PROVE  Agreed'
<1>1. op[r].node \in Nodes
  BY DEF TypeOK, PcOfKind
<1>2. attachment[op[r].node] = "attached"
  BY <1>1 DEF Agreed, Device
<1>3. claim' = claim \/ claim' = [claim EXCEPT ![op[r].node] = "published"]
  BY DEF Answer
<1> QED  BY <1>1, <1>2, <1>3 DEF Agreed, TypeOK, Answer

(* An unpublish is answered OK where no attachment is left. *)
LEMMA UnpublishAgreed ==
    ASSUME TypeOK, Agreed, NEW r \in Handlers, op[r].kind = "unpublish", Answer(r, TRUE),
           UNCHANGED attachment, "hidden" \notin faults => attachment[op[r].node] = "none"
    PROVE  Agreed'
<1>1. op[r].node \in Nodes
  BY DEF TypeOK, PcOfKind
<1>2. claim' = claim \/ claim' = [claim EXCEPT ![op[r].node] = "free"]
  BY DEF Answer
<1> QED  BY <1>1, <1>2 DEF Agreed, TypeOK, Answer

LEMMA PublishReadAgreed ==
    ASSUME IInv, Once, NEW r \in Handlers, PublishRead(r) PROVE Agreed'
<1>0. TypeOK /\ Agreed /\ op[r].kind = "publish" /\ attachment' = attachment
  BY DEF IInv, PublishRead, Reading, At, nobusVars
<1>1. CASE Answer(r, FALSE)
  BY <1>0, <1>1, StillAgreed
<1>2. CASE GoesOn(r)
  BY <1>0, <1>2, StillAgreed
<1>3. CASE Answer(r, TRUE) /\ \E L \in SUBSET Nodes : attachedDevice(op[r].node, L)
  BY <1>0, <1>3, PublishAgreed DEF attachedDevice
<1>4. Goto(r, "attach") => GoesOn(r)
  <2>1. op[r].node \in Nodes
    BY <1>0 DEF TypeOK, PcOfKind
  <2> QED  BY <1>0, <2>1 DEF GoesOn, PcOfKind, Pcs, Posts
<1> QED  BY <1>1, <1>2, <1>3, <1>4 DEF PublishRead

(* The only step that attaches: to a node that a publish was asked for, and no other
   node has the volume. *)
LEMMA AttachPostAgreed ==
    ASSUME IInv, Once, NEW r \in Handlers, AttachPost(r) PROVE Agreed'
<1>0. TypeOK /\ Agreed /\ Served /\ op[r].kind = "publish" /\ op[r].node \in Nodes /\ Busy(r)
  BY DEF IInv, AttachPost, At, Busy, TypeOK, PcOfKind
<1>1. claim' = claim /\ faults' = faults
  BY DEF AttachPost, Goto, callerVars
<1>2. CASE attachment' = attachment
  BY <1>0, <1>1, <1>2 DEF Agreed
<1>3. CASE DoAttach(op[r].node)
  <2>1. claim[op[r].node] = "publishing"
    BY <1>0 DEF Served
  <2>2. attachment' = [attachment EXCEPT ![op[r].node] = "attaching"] /\ Free
    BY <1>3 DEF DoAttach
  <2> QED  BY <1>0, <1>1, <2>1, <2>2 DEF Agreed, TypeOK, Free
<1> QED  BY <1>2, <1>3 DEF AttachPost

LEMMA AttachWaitAgreed ==
    ASSUME IInv, Once, NEW r \in Handlers, AttachWait(r) PROVE Agreed'
<1>0. TypeOK /\ Agreed /\ op[r].kind = "publish" /\ attachment' = attachment
  BY DEF IInv, AttachWait, Reading, At, nobusVars
<1>1. CASE Answer(r, TRUE) /\ attachment[op[r].node] \in Device
  BY <1>0, <1>1, PublishAgreed
<1>2. CASE Goto(r, "recheck")
  BY <1>0, <1>2 DEF Goto, Agreed, callerVars
<1> QED  BY <1>1, <1>2 DEF AttachWait

LEMMA PublishRecheckAgreed ==
    ASSUME IInv, Once, NEW r \in Handlers, PublishRecheck(r) PROVE Agreed'
<1>0. TypeOK /\ Agreed /\ op[r].kind = "publish" /\ attachment' = attachment
  BY DEF IInv, PublishRecheck, Reading, At, nobusVars
<1>1. PICK L \in SUBSET Nodes : Answer(r, volume # "gone" /\ attachedDevice(op[r].node, L))
  BY DEF PublishRecheck
<1> DEFINE ok == volume # "gone" /\ attachedDevice(op[r].node, L)
<1>2. ok \in BOOLEAN /\ (ok => attachment[op[r].node] \in Device)
  BY DEF attachedDevice
<1> HIDE DEF ok
<1>3. CASE ok = TRUE
  BY <1>0, <1>1, <1>2, <1>3, PublishAgreed DEF ok
<1>4. CASE ok = FALSE
  BY <1>0, <1>1, <1>4, StillAgreed DEF ok
<1> QED  BY <1>2, <1>3, <1>4

LEMMA UnpublishReadAgreed ==
    ASSUME IInv, Once, NEW r \in Handlers, UnpublishRead(r) PROVE Agreed'
<1>0. TypeOK /\ Ended /\ Agreed /\ op[r].kind = "unpublish" /\ op[r].node \in Nodes
      /\ attachment' = attachment
  BY DEF IInv, UnpublishRead, Reading, At, nobusVars, TypeOK, PcOfKind
<1>1. CASE volume = "gone" /\ Answer(r, TRUE)
  BY <1>0, <1>1, UnpublishAgreed DEF Ended, Free
<1>2. CASE Answer(r, TRUE) /\ \E L \in SUBSET Nodes : Listing(L) /\ ~attachedToNode(op[r].node, L)
  <2>1. "hidden" \notin faults => attachment[op[r].node] = "none"
    BY <1>0, <1>2 DEF Listing, attachedToNode
  <2> QED  BY <1>0, <1>2, <2>1, UnpublishAgreed
<1>3. CASE Goto(r, "detach")
  BY <1>0, <1>3 DEF Goto, Agreed, callerVars
<1> QED  BY <1>1, <1>2, <1>3 DEF UnpublishRead

(* The only step that detaches: from a node that an unpublish was asked for. *)
LEMMA DetachPostAgreed ==
    ASSUME IInv, Once, NEW r \in Handlers, DetachPost(r) PROVE Agreed'
<1>0. TypeOK /\ Agreed /\ Served /\ op[r].kind = "unpublish" /\ op[r].node \in Nodes /\ Busy(r)
  BY DEF IInv, DetachPost, At, Busy, TypeOK, PcOfKind
<1>1. CASE DoDetach(op[r].node) /\ Answer(r, TRUE)
  <2>1. attachment' = [attachment EXCEPT ![op[r].node] = "none"]
    BY <1>1 DEF DoDetach, Once
  <2>2. claim[op[r].node] = "unpublishing"
    BY <1>0 DEF Served
  <2>3. claim' = claim \/ claim' = [claim EXCEPT ![op[r].node] = "free"]
    BY <1>0, <1>1 DEF Answer
  <2>4. faults' = faults
    BY <1>1 DEF Answer
  <2> QED  BY <1>0, <2>1, <2>2, <2>3, <2>4 DEF Agreed, TypeOK
<1>2. CASE Answer(r, detachAnswer(op[r].node)) /\ attachment' = attachment
  <2>1. CASE detachAnswer(op[r].node) = TRUE
    BY <1>0, <1>2, <2>1, UnpublishAgreed DEF detachAnswer
  <2>2. CASE detachAnswer(op[r].node) = FALSE
    BY <1>0, <1>2, <2>2, StillAgreed
  <2>3. detachAnswer(op[r].node) \in BOOLEAN
    BY DEF detachAnswer
  <2> QED  BY <2>1, <2>2, <2>3
<1> QED  BY <1>1, <1>2 DEF DetachPost

LEMMA ServeAgreed == ASSUME IInv, Once, NEW r \in Handlers, Serve(r) PROVE Agreed'
<1>0. Agreed
  BY DEF IInv
<1>1. CASE DeletePost(r) \/ DeleteWait(r)
  <2>1. attachment' = attachment /\ claim' = claim /\ faults' = faults
    BY <1>1 DEF DeletePost, DoDelete, afterDelete, DeleteWait, Reading, At, Answer, Goto, callerVars,
                nobusVars
  <2> QED  BY <1>0, <2>1 DEF Agreed
<1>2. CASE CallFails(r)
  <2>1. attachment' = attachment /\ (Goto(r, "recheck") \/ Answer(r, FALSE))
    BY <1>2 DEF CallFails
  <2>2. Goto(r, "recheck") => Agreed'
    BY <1>0, <2>1 DEF Goto, Agreed, callerVars
  <2> QED  BY <1>0, <2>1, <2>2, StillAgreed
<1> QED
  BY <1>1, <1>2, PublishReadAgreed, AttachPostAgreed, AttachWaitAgreed, PublishRecheckAgreed,
     UnpublishReadAgreed, DetachPostAgreed DEF Serve

-----------------------------------------------------------------------------
LEMMA ServeInv ==
    ASSUME IInv, Once, NEW r \in Handlers, Serve(r) PROVE late' = {} /\ Served' /\ Agreed'
<1>1. late' = {}
  BY ServeLate DEF IInv, Once
<1>2. Served'
  BY ServeForm, ServeServed DEF IInv
<1> QED  BY <1>1, <1>2, ServeAgreed

(* While a handler is at work no call begins, so that its claim stays. *)
LEMMA CallInv ==
    ASSUME IInv, Once, NEW r \in Handlers,
           Delete(r) \/ \E n \in Nodes : Publish(r, n) \/ Unpublish(r, n)
    PROVE  late' = {} /\ Served' /\ Agreed'
<1>0. TypeOK /\ LockHeld /\ OneController /\ Agreed /\ late = {}
  BY DEF IInv, Once
<1>1. late' = late /\ attachment' = attachment /\ faults' = faults
  BY DEF Delete, Publish, Unpublish, Begin, nobusVars
<1>2. CASE Delete(r)
  <2>1. Served'
    BY <1>0, <1>2, BeginLock DEF Delete, Served, Kinds
  <2> QED  BY <1>0, <1>1, <1>2, <2>1 DEF Delete, Agreed
<1>3. ASSUME NEW n \in Nodes, Publish(r, n) PROVE Served' /\ Agreed'
  <2>1. claim' = [claim EXCEPT ![n] = "publishing"] /\ claim'[n] = "publishing"
    BY <1>0, <1>3 DEF Publish, TypeOK
  <2>2. Served'
    BY <1>0, <1>3, <2>1, BeginLock DEF Publish, Served, Kinds
  <2> QED  BY <1>0, <1>1, <2>1, <2>2 DEF Agreed, TypeOK
<1>4. ASSUME NEW n \in Nodes, Unpublish(r, n) PROVE Served' /\ Agreed'
  <2>1. claim' = [claim EXCEPT ![n] = "unpublishing"] /\ claim'[n] = "unpublishing"
    BY <1>0, <1>4 DEF Unpublish, TypeOK
  <2>2. Served'
    BY <1>0, <1>4, <2>1, BeginLock DEF Unpublish, Served, Kinds
  <2> QED  BY <1>0, <1>1, <2>1, <2>2 DEF Agreed, TypeOK
<1> QED  BY <1>0, <1>1, <1>2, <1>3, <1>4

LEMMA CrashInv ==
    ASSUME IInv, Once, NEW c \in Controllers, Crash(c) PROVE late' = {} /\ Served' /\ Agreed'
<1>1. late' = {} /\ claim' = claim /\ attachment' = attachment /\ faults' = faults
  BY DEF IInv, Crash, nobusVars
<1>2. Served'
  BY <1>1, CrashLock DEF IInv, Served
<1> QED  BY <1>1, <1>2 DEF IInv, Agreed

LEMMA AsideInv == ASSUME IInv, Once, Aside PROVE late' = {} /\ Served' /\ Agreed'
<1>0. TypeOK /\ Served /\ Agreed /\ late = {}
  BY DEF IInv
<1>1. late' = {} /\ Served'
  BY <1>0, AsideForm DEF Served, Busy
<1>2. CASE GiveUp \/ Purge
  BY <1>0, <1>1, <1>2 DEF GiveUp, Purge, Agreed, handlerVars, nobusVars, callerVars
<1>3. ASSUME NEW n \in Nodes, Attached(n) PROVE Agreed'
  BY <1>0, <1>3 DEF Attached, Agreed, TypeOK, callerVars
<1>4. ASSUME NEW n \in Nodes, Detached(n) PROVE Agreed'
  BY <1>0, <1>4 DEF Detached, Agreed
<1>5. ~TakeEffect
  BY <1>0 DEF TakeEffect
<1> QED  BY <1>1, <1>2, <1>3, <1>4, <1>5 DEF Aside, Complete

LEMMA InitInv == Init => IInv
<1> SUFFICES ASSUME Init PROVE IInv  OBVIOUS
<1>1. TypeOK  BY InitTypes
<1>2. LockHeld /\ Served  BY DEF Init, LockHeld, Served, Busy, Idle
<1>3. Ended /\ Agreed  BY DEF Init, Ended, Agreed
<1> QED  BY <1>1, <1>2, <1>3 DEF Init, IInv

LEMMA NextInv == ASSUME IInv, [Next]_vars PROVE IInv'
<1>0. TypeOK' /\ LockHeld' /\ Ended'
  BY NextTypes, NextLock, NextVolume DEF IInv, VolumeStep
<1>1. Once' => Once
  BY FaultsFixed DEF IInv, Once, OneController
<1> SUFFICES ASSUME Once PROVE late' = {} /\ Served' /\ Agreed'
  BY <1>0, <1>1 DEF IInv
<1>2. CASE UNCHANGED vars
  BY <1>2 DEF IInv, Served, Busy, Agreed, vars, handlerVars, nobusVars, callerVars
<1> QED  BY <1>2, ServeInv, CallInv, CrashInv, AsideInv DEF Next, Aside

(* With one controller, a volume that ControllerPublishVolume reported stays attached to its
   node until an unpublish is asked for, whatever call was given up on, retried or cut off by
   a crash: attachedElsewhere, the lock and the second read together. *)
THEOREM PublishedVolumesAreAttached == Spec => []PublishedIsAttached
<1>1. IInv => PublishedIsAttached
  BY DEF IInv, Once, Agreed, PublishedIsAttached
<1> QED  BY <1>1, InitInv, NextInv, PTL DEF Spec

(* Where attachments in progress are listed, no attachment to a node is left once
   ControllerUnpublishVolume was answered OK for it. *)
THEOREM ReleasedVolumesAreDetached == Spec => []ReleasedIsDetached
<1>1. IInv => ReleasedIsDetached
  BY DEF IInv, Once, Agreed, ReleasedIsDetached
<1> QED  BY <1>1, InitInv, NextInv, PTL DEF Spec
=============================================================================
