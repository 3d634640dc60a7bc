# TLA+ specifications of the Nobus CSI driver and Pulumi provider

This directory holds TLA+ models of the Nobus CSI driver (`internal/`) and of the
Pulumi provider (`pulumi-nobus/provider`), the TLC configurations that check them on small instances, and TLAPS proofs of some of
their properties for every instance. Line numbers refer to the files of this
repository; `PROJECT.json` maps every definition to the lines it models.

## 1. The system

| Component | State | Operations | Where it is modelled |
|---|---|---|---|
| Controller, volumes by name (`internal/driver/controller.go`) | the name lock of the process; nothing persistent | `CreateVolume`, `reconcileCreatedVolume`, `reconcileVolumeByName`, `verifyVolume` | `CreateVolume`; its promise: `Registry` |
| Controller, volumes by ID (`controller.go`) | the ID lock of the process | `ControllerPublishVolume`, `ControllerUnpublishVolume`, `DeleteVolume` | `Attachment` |
| Controller, expansion (`controller.go`) | the ID lock of the process | `ControllerExpandVolume` | `VolumeService` |
| Request parameters (`params.go`) | none | `volumeSpec`, `selectedZone`, `requestedBytes`, `validateCapabilities` | `Params`, used in `VolumeService` |
| Snapshots (`snapshot.go`) | the name lock | `CreateSnapshot`, `DeleteSnapshot`, their reconciliation | `Snapshots` |
| Lists (`controller.go`, `client.go` `paginate`) | none: tokens are indexes | `ListVolumes`, `ListSnapshots` | `VolumeService` |
| Cloud client (`internal/cloud/client.go`) | none | one HTTP call per operation, two wait loops, error classes | calls: in the controller modules; classes: `Params` |
| Volume locks (`locks.go`) | a set of held keys | `TryLock`, unlock | in the controller modules |
| Node service, mount (`node.go`, `internal/mount`) | the mount table of the node | Stage, Publish, Unpublish, Unstage; Expand | `NodeMounts`; Expand in `VolumeService` |
| Identity, server, configuration, metadata, `main` | fixed after the start | start-up and I/O | not modelled |
| Test doubles (`fake.go`) | an in-memory provider | used by unit tests | not modelled |
| Pulumi API client (`pulumi-nobus/provider/pkg/nobusapi`) | none | request retry, wait loops, error classes, the bodies and answers of each endpoint | `NobusApi` |
| Pulumi resources (`pulumi-nobus/provider/pkg/provider`) | the resource state the engine keeps | Check, Diff, Create, Read, Update, Delete of thirteen resources | `Resources` (what each is), `Stack` (their steps) |
| Pulumi test API (`internal/testapi/server.go`) | objects in memory | what Nobus does with a request | as the model of Nobus in `NobusApi` and `Stack` |
| Pulumi functions, schema, SDK, examples | none | look-ups and generated code | not modelled |

**How the parts interact.** The orchestrator (Kubernetes' side-cars or Nomad) calls
the controller service by gRPC. Every call is a goroutine of one controller process;
it takes the lock of the volume name (`CreateVolume`) or of the volume ID (the other
calls) with `TryLock`, and answers Aborted when the lock is held. The locks are maps
in the process. The manifests start two controller replicas without leader election
(`deploy/kubernetes/controller.yaml:7`, `deploy/nomad/controller.nomad.hcl:6`), so
that two handlers can serve the same name, and nothing is shared between them but
Nobus. The controller has no persistent state: after a crash Nobus' lists are all
there is. Every read of the client is a list of one availability zone, the read by
ID included (`client.go:96-111`). On each node one plugin process serves the node calls; it takes
no lock, and its only state is the mount table of the node, which outlives it.

The Pulumi provider is a separate program. The Pulumi engine calls it for one resource at a
time: Check, then Diff against the state it keeps, then Create, Update, Delete or Read. Each
of these makes a few HTTP requests, which the client repeats when Nobus is unavailable. The
engine keeps the state of an operation that succeeded; a failed one leaves the old state,
whatever the requests before the failure have done.

**What is hard.** Nobus does not create conditionally by name; the driver lists,
creates, and afterwards deletes the duplicates it sees. The lists can lag, the IDs
have no documented order, deletes and attachments are asynchronous, a call that
failed can still take effect, the orchestrator repeats what was not answered OK, and
a process can die between any two calls. `PROJECT.json` lists each hazard at its line.

**What makes the components correct.**

- *CreateVolume*: a name that had a volume keeps one; a retry is answered with the
  same volume; a returned volume is not deleted as a duplicate; calls end and release the lock.
- *Attachment*: after OK, a published volume stays attached until it is unpublished;
  after OK, an unpublished one is attached no more; after OK, a deleted one is gone;
  repeated calls end.
- *Snapshots*: as CreateVolume, with a delete that takes no lock; a returned snapshot is
  of the volume that was asked for; a delete answered OK has deleted it.
- *Node*: after OK a path shows the volume until it is cleared; after its inverse was
  answered OK nothing is mounted there, whatever handlers of earlier calls still run.
- *Expansion and placement*: the size answered is at least the size that was asked for and
  the size allocated is within the limit; the node's file system follows; a volume lies in a
  zone that the request allows.
- *Lists*: the pages of a listing lose and repeat nothing that a change of the list does not
  explain.
- *Pulumi*: after an `up` the object is what the program says and a second `up` has nothing
  to do; a resource is replaced only when the program changed; a lost object is noticed and
  no object is leaked; an update that failed half-way can be repeated until it succeeds.

## 2. Modules

### CreateVolume

All requests that carry one volume name. Names are independent: the lock is by name
(`controller.go:30`) and each list is filtered by name. `Ids` are the volume IDs,
ordered as the code's `cmp.Compare` orders them.

| TLA+ | Code |
|---|---|
| `call[r]` | the goroutine: `pc` (the remote call it is at), `spec`, and the locals of `reconcileCreatedVolume` (`attempt`, `stable`, `previous`) and of `reconcileVolumeByName` (`canonical`, `todo` = the duplicates the loop has not come to) |
| `call[r].site` | the call site of `reconcileVolumeByName`: line 35 (`first`), 49 (`exists`), 173 (`created`), 198 (`final`) |
| `names` | the controllers whose `d.names` holds the name |
| `status`, `attributes`, `listed` | the volumes at Nobus, and which of them the list endpoint shows |
| `late` | creates that Nobus will carry out although their call failed |
| `returned`, `reaped`, `dropped` | history variables for the properties |
| `faults` | what Nobus and the processes may do wrong in this behaviour, see 3 |

A step of a handler is one remote call with everything up to the next one. `ListFound`,
`ListEmpty` and `ListIncompatible` are the outcomes of `ListVolumes` at the four sites;
`DeleteAccepted`, `DeleteRefused` and `Removed` are the loop over the duplicates with
the wait of the client; `Created`, `CreateLate` and `CreateRefused` the outcomes of the
POST; `VerifyOK` and `VerifyRejected` those of the read by ID; `CallFails` is every error
that leaves Nobus unchanged. Delays between samples are not modelled: any number
of steps of others fits between two samples.

Nobus is external: a new volume gets any unused ID, or, without the fault `unordered`,
an ID above all the others. A delete is asynchronous, and attached volumes refuse it
(`client.go:386`, `ErrConflict`). The other faults are `lag` (a new volume is not listed
at once), `late` (above) and `crash` (a process loses its handlers and locks). The
lists of the model show every volume whose turn has come to be listed, and do not
forget it again before it is removed.

### Attachment

The three calls on one volume of the configured zone; IDs are independent (the lock is
by ID). The orchestrator is part of the model: it wants a single-writer volume on one
node at a time, waits for one answer at a time, may give up waiting (which cancels the
context of the handler but leaves the handler to run out), and repeats what was not
answered OK. `claim` is what it knows of each node, `deletion` what it knows of
the volume. A volume that Nobus reports as multiattach is refused at once
(`controller.go:106`) and is left out.

`PublishRead`, `AttachPost`, `AttachWait` and `PublishRecheck` are the four remote calls
of a publish (`attachedDeviceAfterPublishError` is the last), `UnpublishRead` and
`DetachPost` those of an unpublish, `DeletePost` and `DeleteWait` those of a delete.
A publish whose attach fails or does not show in time takes the second look before it answers
(`CallFails` leads to `PublishRecheck`, `controller.go:118`); every other failing call is answered at once.
The faults are `fail`, `crash`, `replicas` (the other controllers serve calls too), `hidden` (the list omits an attachment in progress),
`slowDetach` (a detach is answered before it is done) and `late`.

### Snapshots

All requests that carry one snapshot name. The module differs from CreateVolume where the
code does: the source volume is read first, with the zone of the controller
(`snapshot.go:29`); reconciliation compares the source alone (`:135`), deletes duplicates
in any state and does not wait for their removal (`:151`); and there is no read after the
loop. `source[i]` is the volume a snapshot was taken of, which also gives its zone.
`DeleteSnapshot` is one action of a controller: it takes no lock and its only step is the
remote delete, which may be carried out although its answer is lost. The handle that is answered
carries the zone that the list reports (`snapshot.go:138`). A handle, the snapshot ID of the CSI calls, is a sequence: the zone
and the ID of Nobus, or the ID alone (`encodeSnapshotID`, `decodeSnapshotID`). The
orchestrator deletes the handles it was given, and those of the IDs in `Registered`, which
are known by the bare ID once they exist.

### NodeMounts

One volume on one node: its staging path and its targets. `mounts[p]` is what is mounted
at a path, the latest first, so that a second mount that is stacked can be seen.

| TLA+ | Code |
|---|---|
| `op[r]` | the goroutine: which path it sets (Stage, Publish) or clears (Unpublish, Unstage), and where it is |
| `Look` | `IsMounted` at `node.go:25`, `:72` and `linux.go:93`, with the early return |
| `FindDevice` | the wait for the device; it fails after two minutes or with its context |
| `Mount` | the look at the context (`linux.go:55`, `:83`) and the mount call |
| `Unmount` | the look at the context (`linux.go:100`) and one `umount`, of the mount on top |
| `waiter`, `claim` | the handler whose answer the orchestrator waits for, and what it was told of each path |

The orchestrator is external: it stages before it publishes, unstages after the last
unpublish, has one call outstanding for the volume, may give up on it, and repeats what was
not answered OK. The handlers that it gave up on go on running, which gives the
interleavings: each may act on what it saw long ago. The context of such a handler
has ended, so that the look at it stops the handler; a crash of the plugin ends them all
and leaves the mounts. The fault `slow` lets a mount call that passed this look take
effect after its context ended, as `mkfs` of a large volume does.

The kernel refuses to mount a file system where it is mounted already and stacks bind mounts.
Whether the volume is used as a block device (`node.go:79`) is chosen with the faults (`Block`).
`IsMounted` is exact: `mount-utils` v0.31 asks `statx`, which also sees bind mounts.

### VolumeService and Params

`Params` holds the pure functions of `params.go`, `errors.go` and `client.go`: sizes with the
width of the integers (`MaxInt64` wraps), placement, and the classes of failures.
`VolumeService` uses them in the operations that the other modules leave out:

| TLA+ | Code |
|---|---|
| `ExpandStart`, `ExpandGet`, `ExpandExtend`, `ExpandRead` | `ControllerExpandVolume`: the lock and the size, the list of the configured zone, the extend request, and the read of the size it answers with |
| `AnswerLost` | Nobus carries the extend out and its answer is lost (`client.go:172`); the call fails, its repetition finds the size |
| `Grow` | with the load `late`, Nobus carries an extend out after it answered it |
| `NodeExpandVolume`, `Expand` | the node's part, which the orchestrator calls after an OK; a file system without a tool is refused, as is one whose tool fails, and the call may be repeated |
| `CreateVolume`, `fallbackZone` | size and zone of a new volume: the parameter `availability_zone` stands in for the configured zone (`params.go:46`); a volume that lies elsewhere is answered Unavailable, as `verifyVolume` does not find it. One step, as the steps between are in the module CreateVolume |
| `ListVolumes`, `listing` | one page, and its caller who keeps the token and what was listed |
| `Removed` | a delete, by the driver or anybody else |

`load`, like `faults` elsewhere, is chosen once and says what a behaviour contains, so that
one run covers expansions against creates, refusals, late extends and removals, and
listings against creates and removals, without their product.

### NobusApi, Resources and Stack

`NobusApi` is the client package and what Nobus does with its requests, as the test API of the
repository has it. `Resources` says what each of the thirteen resources is: a record of its
arguments, of the fields that are required, sent bare, kept bare or given defaults, of what
its state learns from the answers of Create, Read and Update, and of the comparisons of its
Diff. The code writes these out resource by resource; the record is read off it, and the
generic operators after the records (`Kept`, `Post`, `Put`, `Renewed`, `Learn`, `Changed`)
are what all of the code has in common. In `PROJECT.json` such an operator is mapped to the
resource that shows it best, and each record to the whole of its resource. Instance, whose
Update is a sequence of calls, has operators of its own in `Stack`.

`Stack` is one resource of one kind over its life. `program` is what the user wrote, `stack`
what the engine keeps, `remote` the objects at Nobus, and `op` the operation that runs with
the calls it has still to make. A step is one answer to one HTTP request (`Answered`,
`Refused`, `Lost`), with `React` deciding between the next call, a further attempt and the end
of the operation (`Commit`, `Fail`). The engine and the user are external: `Up`, `Refresh`,
`Destroy`, `Import`, `Edit`. An argument's value is a set of names, blank the empty set; one
name can be written with its scope or bare, which is what the comparisons of IDs are about.
`stringSlicesEqual` is the code's comparison of lists: it sorts both by the written forms, which `Position`
orders, and then compares the bare IDs place by place (`check.go:52-66`). A list with the same member twice is
not a state of the model. The guard of the loop that updates the groups of a server (`compute.go:363`) is implied by what
`sliceDiff` finds and has no definition of its own. An answer that cannot be decoded is an
error like a lost one, where the client decodes the body at all (`Decoded`).

### Registry

The abstract promise of CreateVolume and DeleteVolume for one name: volumes are made, reaped
while an older one of the same shape is kept, answered, and dropped at a caller's word.
`CreateVolume` implements it with the refinement mapping `Promise`: `made` is what Nobus has
ever made, `kept` what is not in the history variable `reaped`, `answered` is `returned`.

## 3. Runs

| Run | Instance | What it shows |
|---|---|---|
| `create_dual` | 2 controllers with a handler each, 3 IDs, requests with and without a volume type, 2 attempts / 2 stable samples; environments `late` + `crash`, `unordered` + `crash` | `NameNeverLost`, `ReturnedNotReaped`, `OneLiveVolume`, `TypeOK` (with the loop bound), and the refinement `KeepsPromise` |
| `create_shared` | 2 handlers of one controller, 3 IDs, requests for 2 zones, all faults at once | `LockHeld`, `NameNeverLost`, `CallsEnd` |
| `create_unordered` | 2 controllers, 7 attempts / 3 samples as in the code, IDs in any order, no other fault | a violation of `ReturnedIsKept`, see 6 |
| `create_next_zone` | 2 controllers, requests for 2 zones, 7 / 3, no fault | a violation of `FoundInItsZone`, see 6 |
| `attach` | 3 handlers, two of the first controller and one of its replica, 2 nodes; one controller with `fail` + `crash`, that with `hidden`, `hidden` + `slowDetach`; both controllers with all faults | `LockHeld`, `PublishedIsAttached`, `ReleasedIsDetached`, `DeletedIsGone`, `UnpublishCompletes`, `PublishCompletes`, `TypeOK` |
| `snapshot_dual` | 2 replicas and a controller of another zone, 3 IDs, 2 volumes of one zone and one of the other, 2 attempts / 2 samples; `late` + `crash`, `unordered` + `lag` | `NameNeverLost`, `ReturnedNotReaped`, `ReturnedOfSource`, `DeletedIsDeleted`, `TypeOK` (with the loop bound) |
| `node` | 2 handlers, 2 targets; a volume with a file system and a block volume, each without faults and with `fail` + `crash`; `fail` + `crash` + `slow` | `SetShowsVolume`, `ClearIsUnmounted`, `ClearCompletes`, `TypeOK` with the bound on stacked mounts |
| `volume_service` | 2 callers of one or two controllers, 3 volumes, 2 zones, a GiB of 2 bytes and 4-bit integers, placements with and without an `availability_zone`, pages of 1, 2 and all | `AnsweredIsEnough`, `NodeGrown`, `GrownWithinLimit`, `PlacedAsAsked`, `NoneSkipped`, `NoneTwice`, `TypeOK` (no size is negative) |
| `stack_all` | each of the thirteen resources, 3 objects, two IDs of which one also has a scoped form, lists of up to two of them, 2 attempts, 2 turns of the user and 2 faults; ten environments | `Applied`, `Repaired`, `Settled`, `NothingLeaked`, `ResizeConfirmed`, `LossNoticed`, `UnchangedIsKept`, `TypeOK` (with the bound on attempts) |
| `stack_repeat` | as `stack_all`; refused requests, waits that run out with a slow resize, lost answers | `Converges` |
| `stack_lists` | a port, one turn of the user, no fault | a violation of `ListsSettled`, see 6 |
| `stack_import` | a server that exists before the stack | a violation of `ImportedIsKept`, see 6 |

**Environments.** What can go wrong is part of the state: `faults` is chosen at the start of a
behaviour from the constant `Environments`, a set of sets of faults, and stays. One
run so covers several environments, and a property that holds only in some of them
names them in its antecedent (`LowestIsOldest`, `OneController`, `Healthy`, `Prompt`). Each such
property has an environment in its run that satisfies the antecedent.

**Bounds.** Three IDs are enough for a canonical volume, a duplicate, and a third
volume that appears while the duplicate is being deleted; when they are used up, creates
can only fail. Two handlers are the two replicas, or two goroutines that compete for one
lock: each handler serves any number of requests in turn. The attempts of the sampling
loop are reduced (the code's are 7 and 3) to one that ends as stable and one that
runs out; the two violations are shown with the code's own numbers. The state spaces of
Attachment and NodeMounts need no bound; two handlers are one that is waited for and one
that was given up on, which is what a stacked mount or a late attach needs. That more of them do no harm is proved
(section 4), as is that the two nodes and the two targets stand for any number. The runs with a
`SYMMETRY` permute what is alike and check no liveness. Deadlock is checked in every run.

In `volume_service` the capacity ranges are those at the edges: none, one that rounds, one that
rounds beyond its limit, one that meets its limit, one that rounds beyond the largest
integer. The topologies are those that `selectedZone` tells apart: none, a preference that the
requisite zones forbid, one that they allow behind an unnamed zone, and no preference where they
allow the configured zone and where they do not; one of the loads (`place`) makes volumes with them, each
without the parameter `availability_zone` and with one that names the other zone.
In `stack_all` the names are two IDs and the scoped form of the first. The program begins with at most one name
per argument, and an `Edit` gives a list (`securityGroups`, `tags`) one or two of them, so that two groups are
compared, removed and attached one by one, and a list that mixes both forms occurs. Two values make an edit of each argument, a third would be
alike; two attempts are one that is repeated and the last; two turns are an edit and what
follows it, or an edit and its reverse, and two faults are one in an operation and one in its
repetition. The ten environments are: none; refused requests; a strict Nobus with waits that
end; lost answers; objects deleted behind the stack; the same with blank answers; dropped
arguments, with and without defaults of Nobus; a slow resize with a change of project; an
import.

**Fairness.** `CallsEnd` assumes only that each handler keeps taking steps
(`WF_vars(Serve(r))`): goroutines are scheduled, every HTTP call has a timeout
(`client.go:64`), and each wait loop has a deadline (`client.go:148`, `client.go:210`),
which `CallFails` stands for. The two liveness properties of Attachment assume in
addition that Nobus ends what it began (`Complete`), and that the orchestrator repeats a
call that was not answered OK, which CSI asks of it; they hold without failing
calls (`Healthy`), since a call that always fails never completes anything. `ClearCompletes` likewise
assumes that the handlers run and that the orchestrator repeats an unpublish or unstage.
`Converges` assumes that requests are answered (`WF_vars(Serve)`: the HTTP client has a timeout
and `waitUntil` a deadline), that a resize goes on (`Resized`), and that the user repeats the `up`
(`WF_vars(Up)`); edits and faults are bounded and need not happen.

**Assumptions on Nobus that properties depend on.** `ReturnedNotReaped` (of
CreateVolume and of Snapshots) and `OneLiveVolume` need IDs that grow with time and a list
that shows a volume once its create is answered. `PublishedIsAttached` and `ReleasedIsDetached` need one controller
and a Nobus that neither detaches after its answer nor carries out a request whose call
failed; `ReleasedIsDetached` also needs attachments in progress to be listed.
The code does not enforce these: with two controllers, a slow detach or hidden
attachments, TLC finds the properties violated. No document of the repository
promises anything for those cases, so that they are kept as assumptions and not
listed as findings. `NameNeverLost` and `DeletedIsGone` need none of them.
`SetShowsVolume` and `ClearIsUnmounted` need mount calls that end with their context: a
`mkfs` that is still running after an unstage was answered OK mounts the path again, which
the code does not prevent and no document of the repository rules out.

Of the properties of `stack_all`, `Applied` is stated for the fields that an update sends or a
replacement renews: blank arguments are omitted from the requests (`Cleared` lists those that
are not), and `Unsent` lists four arguments that are compared but not sent. It is not stated for an import whose
program drops arguments later (the import of a snapshot
does not learn its `force` and its metadata, so that their dropping is no change), where answers are lost, nor for a server whose
update can fail half-way (an update that renames and resizes, and whose resize is refused, has renamed it; a program
that goes back to the old name finds no difference). `Repaired` covers these faults, for every resource: refused
requests, waits that run out and lost answers. It says that the up that succeeds after them
leaves an object as the program has it and no server that waits for its confirmation, where the program changes
at most once, Nobus adds no default and a resize shows at once (with a slow one the look at the server can come too
early, `compute.go:352`). `Settled` is stated for programs
that drop no argument and a Nobus that adds no default: the code compares a state that
answers filled in with the program, and so finds a dropped description, or a container that Nobus chose,
again and again; its exception `Resorted` is the finding of `stack_lists`. `NothingLeaked` is stated where no answer to a POST is lost, and where the
steps after the POST do not fail: the code then leaves an object that no stack knows. No document of the
repository promises more, so that these are assumptions and not findings; each is a
hazard in `PROJECT.json`. `AnsweredIsEnough` and `NodeGrown` need a Nobus that extends a
volume before it answers, since the driver reads the size once; they and `TypeOK` also say what
happens near the largest integer: a request that rounds beyond it becomes negative, is within any limit, and
is answered OK by an expansion with the size that the volume has (`Sound` excludes it).

**Mutants.** Each property is paired in `PROJECT.json` with a mutation of a definition
that a plausible bug would make (an unsorted list, a missing deferred unlock, an
uncounted sample, a missing wait, ...), under which its run fails. The mutated forms are
the operators `<definition>_<what is wrong>` next to the definitions.

## 4. Proofs

`CreateVolumeProofs` proves for every value of the constants (any number of controllers,
handlers, IDs, attempts and samples, and any set of faults):

- `TypeCorrect`: `Spec => []TypeOK`. `TypeOK` contains `GoodCall`, the bound of the
  sampling loop: without it the type of `attempt` is not inductive.
- `NameIsNeverLost`: `Spec => []NameNeverLost`. The inductive invariant is

      IInv == TypeOK /\ Accounted /\ ReapersSafe /\ NameNeverLost

  `NameNeverLost` alone is not inductive, since nothing in it says why the volume that a
  handler is about to delete may be deleted. `ReapersSafe` says it: the canonical
  volume that a handler chose lies below each duplicate in its `todo`, has the shape
  of the request, and either still survives or has a survivor below it in turn.
  `Accounted` says that a volume that was deleted is in `reaped` or in `dropped`.
  The heart is `DeleteAccepted`: the new member of `reaped` gets the canonical
  volume, or the survivor below that, as its witness; and when the deleted volume was
  itself the witness of an older one, the new witness serves that one too, as
  "below" and "same shape" are transitive. The descent ends because IDs are natural
  numbers; the proof does not need the induction, since a survivor is
  carried along at each step.

The assumptions are those of `CreateVolume`: IDs are positive, each handler has a host,
the types include the three the code names, and the loop bounds are positive.

`CreateOrderProofs` goes on from there, for the behaviours where the lowest ID is the oldest volume
(`LowestIsOldest`; crashes and late creates are still allowed):

- `AnswersAreKept`: `Spec => []ReturnedNotReaped`.
- `AnswersAgree`: `Spec => []OneLiveVolume`.

Its invariant `OrderInv` says of the canonical volume of every handler that has made its choice, and of every
volume that was answered, that it is `Settled`: each older volume of its zone is gone. `Ages` is why that
lasts: new volumes come on top and the gone stay gone. It holds when the choice is made because the list is
complete. So the survivor that `NameIsNeverLost` gives below a reaped volume that had been answered must be one that
DeleteVolume was called for, and of two answered volumes of a zone that are alive neither is the older one.
Without the condition both fail: that is finding one (`create_unordered`).

`NodeMountsProofs` proves for any number of handlers and targets and both access types,
with abandoned calls and crashes (the last two are stated under `Prompt`, where no mount
call outlives its context):

- `TypeCorrect`: `Spec => []TypeOK`, under every fault.
- `SetPathsShowVolume`: `Spec => []SetShowsVolume`.
- `ClearPathsAreUnmounted`: `Spec => []ClearIsUnmounted`.

The inductive invariant is `IInv == Types /\ Waited /\ Claims`. `Claims` relates what
the orchestrator was told to the mounts, and says that a published target implies a
staged path, so that a publish never binds a bare directory. `Waited` is what
makes it inductive: the handler that is waited for is the only one that can still
mount or unmount, and what it saw of its path when it looked still holds. `Types` says
that no path has a second mount, which only `Prompt` gives. `TypeCorrect` needs the bound of `TypeOK` on stacked
mounts without it: `StackInv` counts the mounts of a path together with the handlers that have yet to mount there. A handler
joins these only where it saw nothing mounted, so that they are at most all of the handlers then, and a
mount only takes the place of the handler that made it; the handlers are finite
(`HandlersAssumption`). One lemma (`AnswerInv`, `GotoInv`, `BeginInv`) is
stated for each form of step, and one for each action. `PromptInv` carries it through a behaviour,
since the faults are chosen once (`FaultsFixed`). The other assumption is
`PathAssumption`: the paths and handlers are distinct from `None`, the staging path is no target.

`AttachmentProofs` proves for any number of controllers, handlers and nodes, with every fault:

- `TypeCorrect`: `Spec => []TypeOK`.
- `LockIsHeld`: `Spec => []LockHeld`.
- `DeletedVolumesAreGone`: `Spec => []DeletedIsGone`, by the invariant `Ended` (a volume that is being
  deleted has no attachments) and the two facts that a volume never comes back and that a delete
  is answered OK only in a state where it is gone.
- `PublishedVolumesAreAttached`: `Spec => []PublishedIsAttached`.
- `ReleasedVolumesAreDetached`: `Spec => []ReleasedIsDetached`.

The inductive invariant of the last two is
`IInv == TypeOK /\ LockHeld /\ Ended /\ (Once => late = {} /\ Served /\ Agreed)`, where `Once` is
the condition under which they are stated and `Agreed` relates the claims to the attachments.
`Served` is what makes it inductive: a handler at work, also one that was given up on, serves the
claim that its node has. It is preserved because the lock keeps the next call from beginning, so
that with one controller no claim changes under a handler (`CallInv`), and an answer leaves no
handler at work (`AnswersLock`): without `replicas` the locks are those of `First` alone, so that one handler is at work
at most (`OneAtWork`). So an attach goes only to a node that is being published, and
a detach only to one that is being unpublished (`AttachPostAgreed`, `DetachPostAgreed`). The
assumptions are `HostAssumption` and `NoneAssumption`.

`SnapshotsProofs` proves for any number of controllers, handlers, volumes and zones, with every fault:

- `TypeCorrect`: `Spec => []TypeOK`.
- `NameIsNeverLost`: `Spec => []NameNeverLost`.
- `ReturnedAreNotReaped`: `Spec => []ReturnedNotReaped`.
- `ReturnedAreOfSource`: `Spec => []ReturnedOfSource`.
- `DeletedAreDeleted`: `Spec => []DeletedIsDeleted`.

The inductive invariant is
`IInv == TypeOK /\ Accounted /\ NameNeverLost /\ Listed /\ HandlersFine /\ ReturnedFine`. `Fine` is what a
handler knows of the snapshot it chose and of those in its `todo`; `ReturnedFine` says the same
of the answers. `ReturnedNotReaped` follows from `NameNeverLost` and `Settled`: where IDs grow and
lists are complete, once a sample chose a snapshot, no older one of its zone and volume can be there or
appear, so a witness below it can only be one that DeleteSnapshot was called for. `Keeps` is what each
step of Nobus and the handlers preserves of a snapshot (its zone and source, and that it stays
deleted); the facts of a handler or an answer are carried along by it, whoever made the step. The lemma
`EncodeDecode` says that a handle leads back to its snapshot and zone from every controller. The
assumptions are `IdsAssumption`, `HostAssumption`, `SampleAssumption` and `ZoneAssumption`, whose last
conjunct, that a volume lies in a named zone, is used there: a handle with an empty zone would be
read as one of the configured zone.

`LockIsHeld` of `CreateVolumeProofs` proves one more invariant of CreateVolume: that the lock is
held exactly while a handler of the controller serves the name (from the invariant that
`names` are the hosts of busy handlers and that two busy handlers have different hosts).

`PromiseKept`: `Spec => KeepsPromise`, the refinement. The initial state maps to the initial
state of Registry; each action is shown to be a `Make`, a `Reap`, an `Answer`, a `Drop` or a
stutter under the mapping. The step that needs the invariant is `DeleteAccepted`: its
`Reap` wants an older volume of the same shape that is kept, which `ReapersSafe` gives.
`RegistryProofs` then proves of the promise alone, in a page, that `NameKept` is invariant
(`NameIsKept`): when the reaped volume was itself the older one of another, its own older one
takes its place. The two together are the argument why two replicas without a common lock do not lose
a name, without any of the code's detail.

`VolumeServiceProofs` proves for any number of handlers, controllers, volumes and zones and every width of
the integers:

- `TypeCorrect`: `Spec => []TypeOK`.
- `NoneAreSkipped`: `Spec => []NoneSkipped`, and `NoneAreTwice`: `Spec => []NoneTwice`.
- `AnswersAreEnough`: `Spec => []AnsweredIsEnough`, and `NodesGrow`: `Spec => []NodeGrown`.
- `LimitsAreKept`: `Spec => GrownWithinLimit`.
- `ZonesAreKept`: `Spec => PlacedAsAsked`.

The arithmetic is in `AskedSize`: the size that a request asks for in whole GiB is the rounded one exactly, or, where
rounding exceeds 64 bits, no positive size. It rests on the uniqueness of quotients (`DivUnique`)
and on `GranularityAssumption`: the granularity consists of whole GiB and divides 2^63, as the
2^30 of `config.go:14` does; with another granularity the GiB that Nobus is asked for could exceed a limit
that the rounded size keeps. The invariant is `Inv == Types /\ ("late" \notin load => InTime)`. `Carried`,
in `InTime`, follows a request from its extend to the answers of the controller and of the node; it
lasts because an ID is assigned once and a volume that was made never shrinks (`Grows`), so that
a removal or a larger extend by another controller between two steps does no harm. `Types` says what these need of
`TypeOK`; `Fixed` adds the loads, hosts and locks.

The two properties of a listing are about tokens that are indexes into a list that changes between
the pages. `Sorted`, the list that the code sorts, is defined by ranks: the volume at index *i* is the one with *i - 1*
volumes of its zone below it. So the proofs count volumes (`Rank`, `Below`) and need no
induction over sequences; that each rank is taken (`BelowOnto`) is a fact about finite sets, which
is why `Ids` is finite. The invariant `ListInv` says of a listing where its token stands. `Ahead`: a volume
that was there from the first page on has been listed, or its rank is not below the token, or something below it was
removed. `Behind`: a volume that has been listed has a rank below the token, or something below it was created, or it is
gone for good, since an ID is assigned once. From these the last page gives `Complete`, and each page gives `Once`.
`CameReading`, `GoneReading` and `PageReading` are the steps that create, remove and list. `ZonesAreKept` is an argument about
`selectedZone` alone (`SelectedIs`), for topologies of any length and any parameter `availability_zone`; the first of them with
a wanted zone exists because the natural numbers are well founded (`SmallestIn`).

`StackProofs` proves for all thirteen resources and any programs, objects, environments and numbers of turns and faults:

- `TypeCorrect`: `Spec => []TypeOK`, and `ShapeHolds`, the invariant it comes from.
- `NothingIsLeaked`: `Spec => []NothingLeaked`.
- `ResizesAreConfirmed`: `Spec => []ResizeConfirmed`.
- `LossAlwaysNoticed`: `Spec => LossNoticed`.
- `UnchangedAreKept`: `Spec => UnchangedIsKept`.
- `StacksAreSettled`: `Spec => []Settled`, and `ProgramsAreApplied`: `Spec => []Applied`.

The code has no common implementation of its thirteen resources, and neither have the proofs a case for each: `Row` is
what the thirteen records have in common (the fields of every body, rule and comparison are
arguments; none of them is the location, which only replaces; only a server follows its POST with tags), shown once by `Rows`, record by record,
and cited from then on. `Shape` is `TypeOK` together with the form of an operation: which calls it can still have to make
and with which bodies, and that its arguments are those that Check made of the program. `Tidy` says during an operation what
`NothingLeaked` says between two: there is at most one object, the one in the stack, or the one that the create has
made once it has made it; and both are in the project and zone that the state or the program names, so that the calls find
them. `Confirming` says that a server is ready, or is the one of the update that runs, and the step that waits for its
resize, looks at it or confirms it comes next (`Ordered` keeps these three together).

`UnchangedIsKept` compares a program with a state that create, update and read each filled in, perhaps many
operations ago. Its invariant is `Firmly`, under the premise of the property that nothing is imported, filled in by
Nobus or read blank (`Undisturbed`). Diff finds nothing to replace between the state and the arguments of the last up that succeeded,
nor between what a read would make of the state now (`Refreshed`) and the state; while a create goes on its
object is as the POST made it (`AsPosted`); and only IDs and tags are written with a scope (`Bares`).
The second of these is what makes the first inductive: a refresh may come between any two ups. They go
together because the comparisons of Diff are reflexive and transitive (`SameIs`, `SameTwice`), and because no call
to an object changes a field that replaces it (`TouchFirm`). What each kind sends, reads and learns of such a field is
`Firm`, shown record by record (`Firms`) as `Row` is.

`Settled` and `Applied` compare three copies of every argument: the program, the state and the object. Both come from
`Faithful`, which is inductive (`FaithfulHolds`) and whose two main parts each relate two of the three.

- `Copied` relates state and object. A field of the object is as the state has it (`Mirrors`): alike up to the
  scope of IDs where the state has a value, and blank where the state is blank and an up clears the field. An
  import is exempt until its read ends, and for the second half as long as it knows only some arguments (`Whole`).
  While the update of a server is under way, `Along` takes its place for the four arguments that
  such an update can write: each of `name`, `flavor` and `tags` is on the server or the call that writes it is left
  (`Pending`), and the security groups that the server lacks or has too many are those that calls are
  left for (`Owes`). `StartAlong` derives this from `Mirrors` when the update starts, which is where a difference taken from the
  state and not from the server could go wrong; `StepAlong` is the step; `EndAlong` leads back to `Mirrors`.
- `Settles` relates state and program: once an up has succeeded, no compared argument differs for Diff
  (`Changed`); where arguments may be dropped, this is claimed of those that the program gives and those that an
  up clears (`Counted`).

`Listing` adds what lists need, since `stringSlicesEqual` is not the equality of bare sets: equal lists
hold the same IDs (`EqualBare`), and a list equals itself (`EqualSelf`), but it equals its own bare form only when it
is `Uniform`, that is, when its order stays without the scopes (`EqualUniform`). A server keeps the lists of its program as
they are written; a port keeps the bare form, which is what the exception `Resorted` in `Settled` is about.

The other parts are what the steps of these two need. `Grouped`: the groups still to be attached are wanted, those to be removed are
not, none is removed twice, and a wait follows its confirmation; without it a later call could undo an earlier one.
`BareIds`: objects hold IDs without a scope. `NeverGiven`: as long as no argument was dropped and Nobus fills nothing in, no
object has what the program leaves blank where a blank counts; this is what keeps the answer of a read or an update
from bringing back a difference. `Making`: the object that a create has made is as it was posted, and its tags are written or the call is left.
`Importing` and `Lone`: an import begins blank, and only a server is updated with more than one request. What the tables
have to satisfy is `Told`, shown record by record (`Tolds`): each compared argument is sent by POST (or, for tags, by the call that
follows), each that an update may change is in its body, and arguments that are IDs are compared as IDs wherever an
answer can bring them. `PostedAlike`, `KeptAlike`, `CreatedField`, `UpdatedField` and `ReadField` then do each operation
for one field of any kind. The premises are those of the properties: nothing is assumed of the kind, the program, the number of
objects or the order of ups, refreshes, edits and failures.

The assumptions are `NamesAssumption`, `StackAssumption` and `MaxAttemptsAssumption`. The names are finite because an update lists
the security groups one by one; the configured zone and project and the first name are no IDs, and so have no scope.

Only model-checked: the liveness properties (`CallsEnd`, `UnpublishCompletes`,
`PublishCompletes`, `ClearCompletes`, `Converges`), which rest on fairness and are out of the prover's
reach, and the invariant `Repaired`, whose proof needs a bound on how the server and the state of a half-way update can differ.
The four properties that section 6 refutes are not theorems. Every other invariant and action property of the
runs is proved.

## 5. Not modelled

Pure I/O and start-up, the test doubles of the CSI driver, the generated SDK, the read-only functions of
the provider (`functions.go`, `catalog.go`), the formatting of addresses, and `preview`. In the
models that exist: two requests of the same name with different snapshot sources or projects
(`compatibleVolume` does not compare these), the shapes of lists that `decodeList` accepts, page
tokens that are no numbers, and the duration of delays. In `NodeMounts`: the check and
repair of the file system (`fsck`, `mkfs`), read-only mounts, and several volumes, whose
paths are distinct. In `VolumeService`: requests that are refused before any call
(unknown parameters, capabilities), and what `resize2fs` and `xfs_growfs` do when they fail. In
`Stack`: changes of an object behind the stack other than its deletion, several resources and
their order, lists with the same member twice (runs also have none with more than two), and the outputs that are no arguments. The composition of NodeMounts and Attachment,
which only the orchestrator connects, is not modelled; nor are deletes of volumes of
another zone (`client.go:138`), which a controller of the configured zone answers as
done.

## 6. Findings

- **A volume answered OK can be deleted as a duplicate** (`create_unordered`,
  `controller.go:251`). Controller 2 finds the name empty; controller 1 creates ID 2,
  samples it three times and answers OK; then the create of controller 2 gets the lower
  ID 1, and its reconciliation deletes 2. The repository's README (line 140)
  says that duplicates are removed "when they are safe to delete" and the lowest ID is returned once
  it is stable, and `controller_test.go:368` expects both controllers to agree; the README
  also calls the reconciliation best-effort.
- **A volume in a requested zone other than the configured one is never verified**
  (`create_next_zone`, `client.go:100`). `verifyVolume` lists the configured zone,
  so that `CreateVolume` with a topology or an `availability_zone` parameter for another
  zone always ends with Unavailable after the volume was created.
  `controller_test.go:324` expects it to succeed, and does so only with the fake provider.
- **A port with scoped and bare security groups is updated at every up** (`stack_lists`, `check.go:58`).
  `stringSlicesEqual` sorts the written forms and then compares bare IDs place by place. A port keeps its groups
  bare (`network.go:394`), and Diff compares them with the program (`network.go:451`): `["ng1/p/a", "b"]` is kept as
  `["a", "b"]` and sorted as `["b", "ng1/p/a"]`, so that `b` meets `a`. `check_test.go:12` compares a scoped ID with
  its bare form and expects them to be equal; with one ID they are.
- **An imported server is replaced** (`stack_import`, `compute.go:274`). `Read` of an imported
  server learns its name, its key pair and its location, but neither image nor flavor; the
  next `up` of a program that describes the server as it is finds a different image and asks for a
  replacement, which deletes first. `pulumi-nobus/README.md:63` and
  `pulumi-nobus/docs/installation-configuration.md:67` show the import of a server as the
  way to bring one under control. (The engine refuses the deletion while a resource is
  protected, which `pulumi import` does by default; the plan is the same.)

## 7. Plan

1. Deletes and unpublishes of volumes of several zones: `Attachment` with a zone per volume.
2. The composition of `NodeMounts` and `Attachment`: a volume is detached from a node
   only where nothing of it is mounted, through both services.
3. Drift of objects and several resources with their order in `Stack`.
4. Proofs follow the models: what items 1 to 3 add needs `Shape`, `Faithful` and their like extended. Of the modules
   as they are, `Repaired` is the one invariant left to prove.
