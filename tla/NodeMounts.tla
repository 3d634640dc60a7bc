----------------------------- MODULE NodeMounts -----------------------------
(***************************************************************************)
(* The node service (internal/driver/node.go) over the mount table of its  *)
(* node (internal/mount/linux.go), for ONE volume: NodeStageVolume,        *)
(* NodePublishVolume and their inverses.                                   *)
(*                                                                         *)
(* The node service takes no lock.  Each call looks whether its path is a  *)
(* mount point and acts on what it saw, after a last look at its context.  *)
(* The orchestrator calls for one path at a time, repeats what was not     *)
(* answered OK and may give up waiting, so that handlers of earlier calls  *)
(* are still running while a later one is served.                          *)
(***************************************************************************)
EXTENDS Naturals, Sequences, FiniteSets

CONSTANTS
    Handlers,   \* the goroutines that serve the requests
    Targets,    \* the target paths of the volume: one per container
    Staging,    \* its staging path
    None,       \* no handler, no path
    Environments \* the sets of faults (of FaultKinds) that a behaviour can have

FaultKinds == {"block",  \* no fault: the volume is used as a block device
               "fail",   \* calls fail, and the orchestrator gives up
               "crash",  \* the node plugin dies; the mounts stay
               "slow"}   \* a mount call that was begun ends after its context

Paths == Targets \cup {Staging}

ASSUME PathAssumption  == Staging \notin Targets /\ None \notin Paths \cup Handlers
ASSUME HandlersAssumption == IsFiniteSet(Handlers)
ASSUME EnvironmentAssumption == Environments \subseteq SUBSET FaultKinds

VARIABLES
    op,      \* the local state of each handler
    mounts,  \* what is mounted at each path, the latest first
    device,  \* whether the device of the volume is there
    waiter,  \* the handler whose answer the orchestrator waits for
    claim,   \* what the orchestrator knows of each path
    faults   \* the use of the volume and what can go wrong: chosen once

vars == <<op, mounts, device, waiter, claim, faults>>

-----------------------------------------------------------------------------
(* What a mount shows: the file system of the volume, its device, or the bare
   directory of a staging path that nothing is mounted at. *)
Volume == "volume"
Device == "device"
Directory == "directory"

Idle == [pc |-> "idle", kind |-> "set", path |-> None]

IsMounted(p) == mounts[p] # <<>>

Block == "block" \in faults

(* Linux.Stage and Linux.Publish: the source that is mounted at the path. *)
Source(p) ==
    IF p = Staging THEN Volume
    ELSE IF Block THEN Device
    ELSE IF IsMounted(Staging) THEN Head(mounts[Staging]) ELSE Directory

(* A staging path and a block target are mounted from a device. *)
NeedsDevice(p) == p = Staging \/ Block

(* The kernel refuses a file system where it is mounted already; binds are stacked. *)
MountFails(p) == p = Staging /\ IsMounted(p)

-----------------------------------------------------------------------------
(* Handler steps. *)

Goto(r, pc) == op' = [op EXCEPT ![r].pc = pc] /\ UNCHANGED <<waiter, claim, faults>>

Answer(r, ok) ==
    LET h == op[r]
    IN /\ op' = [op EXCEPT ![r] = Idle]
       /\ waiter' = IF waiter = r THEN None ELSE waiter
       /\ claim' = IF ok /\ waiter = r
                     THEN [claim EXCEPT ![h.path] = IF h.kind = "set" THEN "set" ELSE "free"]
                     ELSE claim
       /\ UNCHANGED faults

(* ctx.Err() before the mount call. *)
Alive_NotChecked(r) == TRUE                    \* mutation: no look at the context
Alive(r) == waiter = r \/ "slow" \in faults

(* IsMounted, before a mount and in Linux.Unmount: the path is as it should be. *)
AlreadyDone_MountBlindly(r) ==                 \* mutation: no look before a mount
    op[r].kind = "clear" /\ ~IsMounted(op[r].path)
AlreadyDone_UnmountBlindly(r) ==               \* mutation: no look in Unmount
    op[r].kind = "set" /\ IsMounted(op[r].path)
AlreadyDone(r) == IsMounted(op[r].path) <=> op[r].kind = "set"

next(h) ==
    IF h.kind = "clear" THEN "unmount"
    ELSE IF NeedsDevice(h.path) THEN "device" ELSE "mount"

Begin(r, k, p) ==
    /\ waiter = None
    /\ op[r].pc = "idle"
    /\ op' = [op EXCEPT ![r] = [pc |-> "look", kind |-> k, path |-> p]]
    /\ waiter' = r
    /\ claim' = [claim EXCEPT ![p] = IF k = "set" THEN "setting" ELSE "clearing"]
    /\ UNCHANGED <<mounts, device, faults>>

Look(r) ==
    /\ op[r].pc = "look"
    /\ \/ AlreadyDone(r) /\ Answer(r, TRUE)
       \/ ~AlreadyDone(r) /\ Goto(r, next(op[r]))
    /\ UNCHANGED <<mounts, device>>

(* FindDevice polls for two minutes, or until its context ends. *)
FindDevice(r) ==
    /\ op[r].pc = "device"
    /\ \/ device /\ Goto(r, "mount")
       \/ ~device /\ Answer(r, FALSE)
    /\ UNCHANGED <<mounts, device>>

Mount(r) ==
    LET p == op[r].path
    IN /\ op[r].pc = "mount"
       /\ Alive(r)
       /\ \/ /\ MountFails(p) \/ (NeedsDevice(p) /\ ~device)
             /\ Answer(r, FALSE)
             /\ UNCHANGED mounts
          \/ /\ ~MountFails(p) /\ (NeedsDevice(p) => device)
             /\ mounts' = [mounts EXCEPT ![p] = <<Source(p)>> \o @]
             /\ Goto(r, "answer")
       /\ UNCHANGED device

(* Linux.Unmount: one umount, of the mount on top. *)
Unmount(r) ==
    LET p == op[r].path
    IN /\ op[r].pc = "unmount"
       /\ Alive(r)
       /\ \/ ~IsMounted(p) /\ Answer(r, FALSE) /\ UNCHANGED mounts
          \/ /\ IsMounted(p)
             /\ mounts' = [mounts EXCEPT ![p] = Tail(@)]
             /\ Goto(r, "answer")
       /\ UNCHANGED device

(* The answer may come too late for the orchestrator, or be lost with the plugin. *)
AnswerOK(r) ==
    /\ op[r].pc = "answer"
    /\ Answer(r, TRUE)
    /\ UNCHANGED <<mounts, device>>

CallFails(r) ==
    /\ op[r].pc \notin {"idle", "answer"}
    /\ "fail" \in faults \/ waiter # r
    /\ Answer(r, FALSE)
    /\ UNCHANGED <<mounts, device>>

Serve(r) ==
    \/ Look(r) \/ FindDevice(r) \/ Mount(r) \/ Unmount(r)
    \/ AnswerOK(r) \/ CallFails(r)

Crash ==
    /\ "crash" \in faults
    /\ \E r \in Handlers : op[r].pc # "idle"
    /\ op' = [r \in Handlers |-> Idle]
    /\ waiter' = None
    /\ UNCHANGED <<mounts, device, claim, faults>>

-----------------------------------------------------------------------------
(* The orchestrator: it stages before it publishes, and unstages after the last
   unpublish; it has the volume detached when nothing of it is in use. *)

Stage(r) == claim[Staging] \in {"free", "setting"} /\ Begin(r, "set", Staging)

Unstage(r) ==
    /\ claim[Staging] # "free"
    /\ \A t \in Targets : claim[t] = "free"
    /\ Begin(r, "clear", Staging)

Publish(r, t) ==
    /\ claim[Staging] = "set"
    /\ claim[t] \in {"free", "setting"}
    /\ Begin(r, "set", t)

Unpublish(r, t) == claim[t] # "free" /\ Begin(r, "clear", t)

GiveUp ==
    /\ "fail" \in faults
    /\ waiter # None
    /\ waiter' = None
    /\ UNCHANGED <<op, mounts, device, claim, faults>>

Attach ==
    /\ ~device
    /\ device' = TRUE
    /\ UNCHANGED <<op, mounts, waiter, claim, faults>>

Detach ==
    /\ device
    /\ \A p \in Paths : claim[p] = "free"
    /\ device' = FALSE
    /\ UNCHANGED <<op, mounts, waiter, claim, faults>>

Init ==
    /\ op = [r \in Handlers |-> Idle]
    /\ mounts = [p \in Paths |-> <<>>]
    /\ device = FALSE
    /\ waiter = None
    /\ claim = [p \in Paths |-> "free"]
    /\ faults \in Environments

Next ==
    \/ \E r \in Handlers :
         \/ Serve(r)
         \/ Stage(r) \/ Unstage(r)
         \/ \E t \in Targets : Publish(r, t) \/ Unpublish(r, t)
    \/ Crash \/ GiveUp \/ Attach \/ Detach

(* The goroutines run, and the orchestrator repeats a call that clears a path. *)
Fairness ==
    /\ \A r \in Handlers : WF_vars(Serve(r))
    /\ \A p \in Paths :
         WF_vars(\E r \in Handlers : claim[p] = "clearing" /\ Begin(r, "clear", p))

Spec == Init /\ [][Next]_vars /\ Fairness

-----------------------------------------------------------------------------
(* Properties. *)

(* Types, and a bound on what stacks: never more mounts at a path than handlers, and
   never a second one at the staging path, even if mount calls outlive their context. *)
TypeOK ==
    /\ op \in [Handlers -> [pc : {"idle", "look", "device", "mount", "unmount", "answer"},
                            kind : {"set", "clear"}, path : Paths \cup {None}]]
    /\ \A p \in Paths :
         /\ mounts[p] \in Seq({Volume, Device, Directory})
         /\ Len(mounts[p]) <= Cardinality(Handlers)
    /\ Len(mounts[Staging]) <= 1
    /\ device \in BOOLEAN
    /\ waiter \in Handlers \cup {None}
    /\ claim \in [Paths -> {"free", "setting", "set", "clearing"}]
    /\ faults \in Environments

(* No mount call outlives the context of its handler. *)
Prompt == "slow" \notin faults

(* A path that NodeStageVolume or NodePublishVolume was answered OK for shows the
   volume, never the bare staging directory, until its inverse is called: handlers
   that were given up on and restarts of the plugin do not take it away. *)
SetShowsVolume ==
    Prompt => \A p \in Paths :
        claim[p] = "set" => IsMounted(p) /\ Head(mounts[p]) \in {Volume, Device}

(* After NodeUnpublishVolume or NodeUnstageVolume was answered OK nothing is mounted at
   the path: no second mount was stacked by a call that was repeated, and no handler of
   an earlier call mounts it again.  So nothing of the volume is mounted when the
   orchestrator has it detached. *)
ClearIsUnmounted ==
    Prompt =>
        /\ \A p \in Paths : claim[p] = "free" => ~IsMounted(p)
        /\ ~device => \A p \in Paths : ~IsMounted(p)

(* Where calls do not fail, a path that is being cleared is cleared in the end, also one
   that was never mounted because the device did not appear. *)
ClearCompletes == faults \subseteq {"block"} => \A p \in Paths : claim[p] = "clearing" ~> claim[p] = "free"
=============================================================================
