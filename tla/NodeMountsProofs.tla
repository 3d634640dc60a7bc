------------------------- MODULE NodeMountsProofs -------------------------
(***************************************************************************)
(* NodeMounts where no mount call outlives its context: a path that the    *)
(* orchestrator was told is set shows the volume, and one that it was told *)
(* is clear is not mounted, for any number of handlers and targets.        *)
(*                                                                         *)
(* The argument: only the handler that the orchestrator waits for can      *)
(* still mount or unmount, and the orchestrator waits for one at a time.   *)
(* So what that handler saw of its path still holds when it acts on it.    *)
(***************************************************************************)
EXTENDS NodeMounts, FiniteSetTheorems, SequenceTheorems, TLAPS

Shown == {<<Volume>>, <<Device>>}

Types ==
    /\ op \in [Handlers -> [pc : {"idle", "look", "device", "mount", "unmount", "answer"},
                            kind : {"set", "clear"}, path : Paths \cup {None}]]
    /\ \A r \in Handlers : op[r].pc # "idle" => op[r].path \in Paths
    /\ mounts \in [Paths -> Shown \cup {<<>>}]
    /\ device \in BOOLEAN
    /\ waiter \in Handlers \cup {None}
    /\ claim \in [Paths -> {"free", "setting", "set", "clearing"}]

(* What the handler that is waited for knows of its path. *)
Knows(h) ==
    /\ h.pc # "idle"
    /\ h.kind = "set" => claim[h.path] = "setting"
    /\ h.kind = "clear" => claim[h.path] = "clearing"
    /\ h.pc \in {"device", "mount"} => h.kind = "set" /\ mounts[h.path] = <<>>
    /\ h.pc = "unmount" => h.kind = "clear" /\ mounts[h.path] # <<>>
    /\ h.pc = "answer" => (h.kind = "set" <=> mounts[h.path] # <<>>)

Waited == waiter # None => Knows(op[waiter])

(* What the orchestrator's claims say of the mounts. *)
Claims ==
    /\ \A p \in Paths : claim[p] = "set" => mounts[p] # <<>>
    /\ \A p \in Paths : claim[p] = "free" => mounts[p] = <<>>
    /\ \A t \in Targets : claim[t] # "free" => claim[Staging] = "set"
    /\ ~device => \A p \in Paths : mounts[p] = <<>>

IInv == Types /\ Waited /\ Claims

-----------------------------------------------------------------------------
(* Sequences of one element, as a mount makes them. *)
LEMMA OneMount ==
    /\ \A m \in Shown : m # <<>> /\ Head(m) \in {Volume, Device} /\ Tail(m) = <<>>
    /\ \A x \in {Volume, Device} : <<x>> \o <<>> \in Shown
<1>1. <<Volume>> # <<>> /\ Head(<<Volume>>) = Volume /\ Tail(<<Volume>>) = <<>>
  OBVIOUS
<1>2. <<Device>> # <<>> /\ Head(<<Device>>) = Device /\ Tail(<<Device>>) = <<>>
  OBVIOUS
<1>3. <<Volume>> \o <<>> = <<Volume>>
  OBVIOUS
<1>4. <<Device>> \o <<>> = <<Device>>
  OBVIOUS
<1> QED  BY <1>1, <1>2, <1>3, <1>4 DEF Shown

LEMMA InitInv == Init => IInv
<1> SUFFICES ASSUME Init PROVE IInv OBVIOUS
<1>1. Types  BY DEF Init, Types, Idle
<1>2. Waited  BY DEF Init, Waited
<1>3. Claims  BY DEF Init, Claims, Paths
<1> QED  BY <1>1, <1>2, <1>3 DEF IInv

(* An answer leaves the mounts alone, and no handler is waited for if this one was. *)
LEMMA AnswerInv ==
    ASSUME IInv, NEW r \in Handlers, NEW ok \in BOOLEAN,
           op[r].pc # "idle", Answer(r, ok), UNCHANGED <<mounts, device>>,
           ok /\ waiter = r => (op[r].kind = "set" <=> mounts[op[r].path] # <<>>)
    PROVE  IInv'
<1> DEFINE p == op[r].path
<1>0. None \notin Handlers /\ None \notin Paths /\ Staging \in Paths /\ Staging \notin Targets
      /\ Targets \subseteq Paths
  BY PathAssumption DEF Paths
<1>1. p \in Paths /\ op[r].kind \in {"set", "clear"}
  BY DEF IInv, Types
<1>2. CASE ok /\ waiter = r
  <2>1. claim' = [claim EXCEPT ![p] = IF op[r].kind = "set" THEN "set" ELSE "free"] /\ waiter' = None
    BY <1>2 DEF Answer
  <2>2. Types'
    BY <1>0, <1>1, <2>1 DEF IInv, Types, Answer, Idle
  <2>3. Waited'
    BY <2>1 DEF Waited
  <2>4. claim[p] \in {"setting", "clearing"}
    BY <1>0, <1>1, <1>2 DEF IInv, Waited, Knows
  <2>5. Claims'
    BY <1>0, <1>1, <1>2, <2>1, <2>4 DEF IInv, Types, Claims
  <2> QED  BY <2>2, <2>3, <2>5 DEF IInv
<1>3. CASE ~(ok /\ waiter = r)
  <2>1. claim' = claim /\ waiter' \in {waiter, None} /\ (waiter' # None => waiter' # r)
    BY <1>0, <1>3 DEF Answer
  <2>2. Types'
    BY <1>0, <1>1, <2>1 DEF IInv, Types, Answer, Idle
  <2>3. Waited'
    <3> SUFFICES ASSUME waiter' # None PROVE Knows(op[waiter])' BY DEF Waited
    <3>1. waiter' = waiter /\ waiter # r /\ waiter \in Handlers
      BY <2>1 DEF IInv, Types
    <3>2. op'[waiter'] = op[waiter]
      BY <3>1 DEF Answer, IInv, Types
    <3> QED  BY <2>1, <3>1, <3>2 DEF IInv, Waited, Knows
  <2>4. Claims'
    BY <2>1 DEF IInv, Claims
  <2> QED  BY <2>2, <2>3, <2>4 DEF IInv
<1> QED  BY <1>2, <1>3

(* A handler goes on: what it knows must hold at its next step. *)
LEMMA GotoInv ==
    ASSUME IInv, NEW r \in Handlers,
           NEW pc \in {"look", "device", "mount", "unmount", "answer"},
           op[r].pc # "idle", Goto(r, pc), Types', Claims',
           waiter = r => Knows(op[r])',
           waiter # r => UNCHANGED mounts
    PROVE  IInv'
<1> SUFFICES ASSUME waiter # None PROVE Knows(op[waiter])'
  BY DEF IInv, Waited, Goto
<1>1. waiter \in Handlers /\ waiter' = waiter /\ claim' = claim
  BY DEF IInv, Types, Goto
<1>2. CASE waiter = r
  BY <1>1, <1>2
<1>3. CASE waiter # r
  <2>1. op'[waiter'] = op[waiter] /\ mounts' = mounts
    BY <1>1, <1>3 DEF Goto, IInv, Types
  <2> QED  BY <1>1, <2>1 DEF IInv, Waited, Knows
<1> QED  BY <1>2, <1>3

(* The orchestrator begins a call: nobody is waited for, so nobody else's view counts. *)
LEMMA BeginInv ==
    ASSUME IInv, NEW r \in Handlers, NEW k \in {"set", "clear"}, NEW p \in Paths,
           Begin(r, k, p),
           p = Staging => \A t \in Targets : claim[t] = "free",
           p # Staging => claim[Staging] = "set"
    PROVE  IInv'
<1>0. None \notin Handlers /\ None \notin Paths /\ Staging \in Paths /\ Targets \subseteq Paths
      /\ Staging \notin Targets
  BY PathAssumption DEF Paths
<1>1. op'[r] = [pc |-> "look", kind |-> k, path |-> p] /\ waiter' = r /\ UNCHANGED <<mounts, device>>
  BY DEF Begin, IInv, Types
<1>2. claim' = [claim EXCEPT ![p] = IF k = "set" THEN "setting" ELSE "clearing"]
  BY DEF Begin
<1>3. op' = [op EXCEPT ![r] = [pc |-> "look", kind |-> k, path |-> p]]
  BY DEF Begin
<1>4. Types'
  BY <1>0, <1>1, <1>2, <1>3 DEF IInv, Types
<1>5. claim'[p] = IF k = "set" THEN "setting" ELSE "clearing"
  BY <1>2 DEF IInv, Types
<1>6. Waited'
  BY <1>1, <1>5 DEF Waited, Knows
<1>7. Claims'
  BY <1>0, <1>1, <1>2 DEF IInv, Types, Claims
<1> QED  BY <1>4, <1>6, <1>7 DEF IInv

LEMMA LookInv == ASSUME IInv, NEW r \in Handlers, Look(r) PROVE IInv'
<1>0. op[r].pc = "look" /\ op[r].path \in Paths /\ op[r].kind \in {"set", "clear"}
      /\ UNCHANGED <<mounts, device>>
  BY DEF IInv, Types, Look
<1>1. CASE AlreadyDone(r) /\ Answer(r, TRUE)
  <2>1. op[r].kind = "set" <=> mounts[op[r].path] # <<>>
    BY <1>1 DEF AlreadyDone, IsMounted
  <2> QED  BY <1>0, <1>1, <2>1, AnswerInv
<1>2. CASE ~AlreadyDone(r) /\ Goto(r, next(op[r]))
  <2> DEFINE n == next(op[r])
  <2>1. n \in {"unmount", "device", "mount"} /\ (n = "unmount" <=> op[r].kind = "clear")
    BY <1>0 DEF next
  <2>2. op' = [op EXCEPT ![r].pc = n] /\ UNCHANGED <<waiter, claim>>
    BY <1>2 DEF Goto
  <2> HIDE DEF n
  <2>3. op'[r].pc = n /\ op'[r].path = op[r].path /\ op'[r].kind = op[r].kind
    BY <2>1, <2>2 DEF IInv, Types
  <2>4. Types'
    BY <1>0, <2>1, <2>2 DEF IInv, Types
  <2>5. Claims'
    BY <1>0, <2>2 DEF IInv, Claims
  <2>6. waiter = r => Knows(op[r])'
    <3> SUFFICES ASSUME waiter = r PROVE Knows(op[r])' OBVIOUS
    <3>1. Knows(op[r])
      BY PathAssumption DEF IInv, Waited
    <3>2. op[r].kind = "clear" <=> mounts[op[r].path] # <<>>
      BY <1>0, <1>2 DEF AlreadyDone, IsMounted
    <3> QED  BY <1>0, <2>1, <2>2, <2>3, <3>1, <3>2 DEF Knows
  <2> QED  BY <1>0, <1>2, <2>1, <2>4, <2>5, <2>6, GotoInv DEF n
<1> QED  BY <1>1, <1>2 DEF Look

LEMMA FindDeviceInv == ASSUME IInv, NEW r \in Handlers, FindDevice(r) PROVE IInv'
<1>0. op[r].pc = "device" /\ op[r].path \in Paths /\ UNCHANGED <<mounts, device>>
  BY DEF IInv, Types, FindDevice
<1>1. CASE Goto(r, "mount")
  <2>1. op' = [op EXCEPT ![r].pc = "mount"] /\ UNCHANGED <<waiter, claim>>
    BY <1>1 DEF Goto
  <2>2. op'[r].pc = "mount" /\ op'[r].path = op[r].path /\ op'[r].kind = op[r].kind
    BY <2>1 DEF IInv, Types
  <2>3. Types'
    BY <1>0, <2>1 DEF IInv, Types
  <2>4. Claims'
    BY <1>0, <2>1 DEF IInv, Claims
  <2>5. waiter = r => Knows(op[r])'
    BY <1>0, <2>1, <2>2, PathAssumption DEF IInv, Waited, Knows
  <2> QED  BY <1>0, <1>1, <2>3, <2>4, <2>5, GotoInv
<1>2. CASE Answer(r, FALSE)
  BY <1>0, <1>2, AnswerInv
<1> QED  BY <1>1, <1>2 DEF FindDevice

(* The handler that mounts is waited for, and its path is not mounted. *)
LEMMA MountInv == ASSUME IInv, Prompt, NEW r \in Handlers, Mount(r) PROVE IInv'
<1> DEFINE p == op[r].path
<1>0. op[r].pc = "mount" /\ p \in Paths /\ waiter = r /\ UNCHANGED device
  BY DEF IInv, Types, Mount, Alive, Prompt
<1>1. CASE Answer(r, FALSE) /\ UNCHANGED mounts
  BY <1>0, <1>1, AnswerInv
<1>2. CASE /\ NeedsDevice(p) => device
           /\ mounts' = [mounts EXCEPT ![p] = <<Source(p)>> \o @]
           /\ Goto(r, "answer")
  <2>0. None \notin Handlers /\ Staging \in Paths /\ Targets \subseteq Paths /\ Paths = Targets \cup {Staging}
    BY PathAssumption DEF Paths
  <2>1. Knows(op[r])
    BY <1>0, <2>0 DEF IInv, Waited
  <2>2. op[r].kind = "set" /\ claim[p] = "setting" /\ mounts[p] = <<>>
    BY <1>0, <2>1 DEF Knows
  <2>3. p # Staging => claim[Staging] = "set" /\ mounts[Staging] \in Shown /\ mounts[Staging] # <<>>
    BY <1>0, <2>0, <2>2 DEF IInv, Types, Claims
  <2>4. Source(p) \in {Volume, Device}
    BY <2>3, OneMount DEF Source, IsMounted
  <2>5. device
    BY <1>2, <2>0, <2>3 DEF IInv, Claims, NeedsDevice
  <2>6. <<Source(p)>> \o <<>> \in Shown
    BY <2>4, OneMount
  <2> HIDE DEF p
  <2>7. mounts' \in [Paths -> Shown \cup {<<>>}] /\ mounts'[p] \in Shown
        /\ \A q \in Paths : q # p => mounts'[q] = mounts[q]
    BY <1>0, <1>2, <2>2, <2>6 DEF IInv, Types
  <2>8. mounts'[p] # <<>>
    BY <2>7, OneMount
  <2>9. op' = [op EXCEPT ![r].pc = "answer"] /\ UNCHANGED <<waiter, claim>>
    BY <1>2 DEF Goto
  <2>10. op'[r].pc = "answer" /\ op'[r].path = op[r].path /\ op'[r].kind = op[r].kind
    BY <2>9 DEF IInv, Types
  <2>11. Types'
    <3>1. op' \in [Handlers -> [pc : {"idle", "look", "device", "mount", "unmount", "answer"},
                                kind : {"set", "clear"}, path : Paths \cup {None}]]
      BY <2>9 DEF IInv, Types
    <3>2. \A q \in Handlers : op'[q].pc # "idle" => op'[q].path \in Paths
      BY <1>0, <2>9 DEF IInv, Types, p
    <3> QED  BY <1>0, <2>7, <2>9, <3>1, <3>2 DEF IInv, Types
  <2>12. Claims'
    <3>1. \A q \in Paths : claim'[q] = "set" => mounts'[q] # <<>>
      BY <2>7, <2>8, <2>9 DEF IInv, Claims
    <3>2. \A q \in Paths : claim'[q] = "free" => mounts'[q] = <<>>
      BY <2>2, <2>7, <2>9 DEF IInv, Claims
    <3> QED  BY <1>0, <2>5, <2>9, <3>1, <3>2 DEF IInv, Claims
  <2>13. Knows(op[r])'
    BY <2>1, <2>2, <2>8, <2>9, <2>10 DEF Knows, p
  <2> QED  BY <1>0, <1>2, <2>11, <2>12, <2>13, GotoInv
<1> QED  BY <1>1, <1>2 DEF Mount

(* The handler that unmounts is waited for, and its path has one mount. *)
LEMMA UnmountInv == ASSUME IInv, Prompt, NEW r \in Handlers, Unmount(r) PROVE IInv'
<1> DEFINE p == op[r].path
<1>0. op[r].pc = "unmount" /\ p \in Paths /\ waiter = r /\ UNCHANGED device
  BY DEF IInv, Types, Unmount, Alive, Prompt
<1>1. CASE Answer(r, FALSE) /\ UNCHANGED mounts
  BY <1>0, <1>1, AnswerInv
<1>2. CASE mounts' = [mounts EXCEPT ![p] = Tail(@)] /\ Goto(r, "answer")
  <2>1. Knows(op[r])
    BY <1>0, PathAssumption DEF IInv, Waited
  <2>2. op[r].kind = "clear" /\ claim[p] = "clearing" /\ mounts[p] # <<>>
    BY <1>0, <2>1 DEF Knows
  <2>3. mounts[p] \in Shown
    BY <1>0, <2>2 DEF IInv, Types
  <2>4. Tail(mounts[p]) = <<>>
    BY <2>3, OneMount
  <2> HIDE DEF p
  <2>5. mounts' \in [Paths -> Shown \cup {<<>>}] /\ mounts'[p] = <<>>
        /\ \A q \in Paths : q # p => mounts'[q] = mounts[q]
    BY <1>0, <1>2, <2>4 DEF IInv, Types
  <2>6. op' = [op EXCEPT ![r].pc = "answer"] /\ UNCHANGED <<waiter, claim>>
    BY <1>2 DEF Goto
  <2>7. op'[r].pc = "answer" /\ op'[r].path = op[r].path /\ op'[r].kind = op[r].kind
    BY <2>6 DEF IInv, Types
  <2>8. Types'
    <3>1. op' \in [Handlers -> [pc : {"idle", "look", "device", "mount", "unmount", "answer"},
                                kind : {"set", "clear"}, path : Paths \cup {None}]]
      BY <2>6 DEF IInv, Types
    <3>2. \A q \in Handlers : op'[q].pc # "idle" => op'[q].path \in Paths
      BY <1>0, <2>6 DEF IInv, Types, p
    <3> QED  BY <1>0, <2>5, <2>6, <3>1, <3>2 DEF IInv, Types
  <2>9. Claims'
    <3>1. \A q \in Paths : claim'[q] = "set" => mounts'[q] # <<>>
      BY <2>2, <2>5, <2>6 DEF IInv, Claims
    <3>2. \A q \in Paths : claim'[q] = "free" => mounts'[q] = <<>>
      BY <2>5, <2>6 DEF IInv, Claims
    <3>3. ~device' => \A q \in Paths : mounts'[q] = <<>>
      BY <1>0, <2>5 DEF IInv, Claims
    <3> QED  BY <2>6, <3>1, <3>2, <3>3 DEF IInv, Claims
  <2>10. Knows(op[r])'
    BY <2>1, <2>2, <2>5, <2>6, <2>7 DEF Knows, p
  <2> QED  BY <1>0, <1>2, <2>8, <2>9, <2>10, GotoInv
<1> QED  BY <1>1, <1>2 DEF Unmount

LEMMA AnswerOKInv == ASSUME IInv, NEW r \in Handlers, AnswerOK(r) PROVE IInv'
<1>1. waiter = r => (op[r].kind = "set" <=> mounts[op[r].path] # <<>>)
  BY PathAssumption DEF AnswerOK, IInv, Waited, Knows
<1> QED  BY <1>1, AnswerInv DEF AnswerOK

LEMMA CallFailsInv == ASSUME IInv, NEW r \in Handlers, CallFails(r) PROVE IInv'
  BY AnswerInv DEF CallFails

LEMMA CrashInv == ASSUME IInv, Crash PROVE IInv'
<1>1. op' = [r \in Handlers |-> Idle] /\ waiter' = None /\ UNCHANGED <<mounts, device, claim>>
  BY DEF Crash
<1>2. Types'
  BY <1>1 DEF IInv, Types, Idle
<1>3. Waited' /\ Claims'
  BY <1>1 DEF IInv, Waited, Claims
<1> QED  BY <1>2, <1>3 DEF IInv

LEMMA OrchestratorInv ==
    ASSUME IInv, NEW r \in Handlers, NEW t \in Targets,
           Stage(r) \/ Unstage(r) \/ Publish(r, t) \/ Unpublish(r, t)
    PROVE  IInv'
<1>0. Staging \in Paths /\ t \in Paths /\ t # Staging
  BY PathAssumption DEF Paths
<1>1. CASE Stage(r)
  <2>1. \A u \in Targets : claim[u] = "free"
    BY <1>1 DEF Stage, IInv, Claims
  <2> QED  BY <1>0, <1>1, <2>1, BeginInv DEF Stage
<1>2. CASE Unstage(r)
  BY <1>0, <1>2, BeginInv DEF Unstage
<1>3. CASE Publish(r, t)
  BY <1>0, <1>3, BeginInv DEF Publish
<1>4. CASE Unpublish(r, t)
  <2>1. claim[Staging] = "set"
    BY <1>4 DEF Unpublish, IInv, Claims
  <2> QED  BY <1>0, <1>4, <2>1, BeginInv DEF Unpublish
<1> QED  BY <1>1, <1>2, <1>3, <1>4

LEMMA DetachInv == ASSUME IInv, Attach \/ Detach PROVE IInv'
<1>1. UNCHANGED <<op, mounts, waiter, claim>> /\ device' \in BOOLEAN
  BY DEF Attach, Detach
<1>2. Types' /\ Waited'
  BY <1>1 DEF IInv, Types, Waited, Knows
<1>3. Claims'
  BY <1>1 DEF IInv, Claims, Attach, Detach
<1> QED  BY <1>2, <1>3 DEF IInv

LEMMA NextInv == ASSUME IInv, Prompt, [Next]_vars PROVE IInv'
<1>1. ASSUME NEW r \in Handlers, Serve(r) PROVE IInv'
  BY <1>1, LookInv, FindDeviceInv, MountInv, UnmountInv, AnswerOKInv, CallFailsInv DEF Serve
<1>2. ASSUME NEW r \in Handlers, NEW t \in Targets, Publish(r, t) \/ Unpublish(r, t) PROVE IInv'
  BY <1>2, OrchestratorInv
<1>3. ASSUME NEW r \in Handlers, Stage(r) \/ Unstage(r) PROVE IInv'
  <2>1. Staging \in Paths  BY DEF Paths
  <2>2. \A u \in Targets : claim[u] = "free"
    BY <1>3 DEF Stage, Unstage, IInv, Claims
  <2> QED  BY <1>3, <2>1, <2>2, BeginInv DEF Stage, Unstage
<1>4. ASSUME GiveUp PROVE IInv'
  <2>1. waiter' = None /\ UNCHANGED <<op, mounts, device, claim>>
    BY <1>4 DEF GiveUp
  <2> QED  BY <2>1 DEF IInv, Types, Waited, Claims
<1>5. ASSUME UNCHANGED vars PROVE IInv'
  BY <1>5 DEF vars, IInv, Types, Waited, Knows, Claims
<1> QED  BY <1>1, <1>2, <1>3, <1>4, <1>5, CrashInv, DetachInv DEF Next

LEMMA FaultsFixed == [Next]_vars => faults' = faults
<1>1. ASSUME NEW r \in Handlers, Serve(r) PROVE faults' = faults
  BY <1>1 DEF Serve, Look, FindDevice, Mount, Unmount, AnswerOK, CallFails, Goto, Answer
<1>2. ASSUME NEW r \in Handlers, NEW k, NEW p, Begin(r, k, p) PROVE faults' = faults
  BY <1>2 DEF Begin
<1> QED
  BY <1>1, <1>2 DEF Next, Stage, Unstage, Publish, Unpublish, Crash, GiveUp, Attach, Detach, vars

(* The faults of a behaviour are chosen once, so that this is inductive. *)
LEMMA PromptInv == Spec => [](Prompt => IInv)
<1>1. Init => (Prompt => IInv)
  BY InitInv
<1>2. (Prompt => IInv) /\ [Next]_vars => (Prompt => IInv)'
  BY NextInv, FaultsFixed DEF Prompt
<1> QED  BY <1>1, <1>2, PTL DEF Spec

-----------------------------------------------------------------------------
(* Where no mount call outlives its context, a path that NodeStageVolume or
   NodePublishVolume was answered OK for shows the volume until its inverse is called. *)
THEOREM SetPathsShowVolume == Spec => []SetShowsVolume
<1>1. (Prompt => IInv) => SetShowsVolume
  BY OneMount DEF IInv, Types, Claims, SetShowsVolume, IsMounted
<1> QED  BY <1>1, PromptInv, PTL

(* Under the same assumption, a path that NodeUnpublishVolume or NodeUnstageVolume was
   answered OK for is not mounted, and nothing is when the device is gone. *)
THEOREM ClearPathsAreUnmounted == Spec => []ClearIsUnmounted
<1>1. (Prompt => IInv) => ClearIsUnmounted
  BY DEF IInv, Claims, ClearIsUnmounted, IsMounted
<1> QED  BY <1>1, PromptInv, PTL
-----------------------------------------------------------------------------
(* The stacking of mounts, for every environment: a handler goes to mount  *)
(* only where it saw nothing mounted, so that there is a handler of its    *)
(* own for each mount at a path, among those that have yet to mount.       *)
Pending(p) == {r \in Handlers : op[r].path = p /\ op[r].pc \in {"device", "mount"}}

Steps == {"idle", "look", "device", "mount", "unmount", "answer"}

Shapes ==
    /\ op \in [Handlers -> [pc : Steps, kind : {"set", "clear"}, path : Paths \cup {None}]]
    /\ \A r \in Handlers : op[r].pc # "idle" => op[r].path \in Paths
    /\ mounts \in [Paths -> Seq({Volume, Device, Directory})]
    /\ device \in BOOLEAN
    /\ waiter \in Handlers \cup {None}
    /\ claim \in [Paths -> {"free", "setting", "set", "clearing"}]
    /\ faults \in Environments

OneEach == \A p \in Paths : Len(mounts[p]) + Cardinality(Pending(p)) <= Cardinality(Handlers)

OneStaged == Len(mounts[Staging]) <= 1

StackInv == Shapes /\ OneEach /\ OneStaged

(* The sets of handlers that the invariant counts. *)
LEMMA PendingCount ==
    ASSUME NEW S \in SUBSET Handlers, NEW T \in SUBSET S
    PROVE  /\ Cardinality(S) \in Nat /\ Cardinality(T) \in Nat /\ Cardinality(Handlers) \in Nat
           /\ Cardinality(T) <= Cardinality(S) /\ Cardinality(S) <= Cardinality(Handlers)
           /\ \A r \in S : r \notin T => Cardinality(T) + 1 <= Cardinality(S)
<1>1. IsFiniteSet(Handlers) /\ IsFiniteSet(S) /\ IsFiniteSet(T)
  BY HandlersAssumption, FS_Subset
<1>2. /\ Cardinality(S) \in Nat /\ Cardinality(T) \in Nat /\ Cardinality(Handlers) \in Nat
      /\ Cardinality(T) <= Cardinality(S) /\ Cardinality(S) <= Cardinality(Handlers)
  BY <1>1, FS_CardinalityType, FS_Subset
<1>3. ASSUME NEW r \in S, r \notin T PROVE Cardinality(T) + 1 <= Cardinality(S)
  <2>1. T \cup {r} \in SUBSET S /\ Cardinality(T \cup {r}) = Cardinality(T) + 1
    BY <1>1, <1>3, FS_AddElement
  <2> QED  BY <1>1, <2>1, FS_Subset
<1> QED  BY <1>2, <1>3

(* The three ways in which a step changes what the invariant counts. *)
LEMMA OneEachKept ==
    ASSUME Shapes, OneEach,
           \A p \in Paths :
              \/ Len(mounts'[p]) <= Len(mounts[p]) /\ Pending(p)' \subseteq Pending(p)
              \/ Len(mounts'[p]) = 0
              \/ /\ Len(mounts'[p]) = Len(mounts[p]) + 1
                 /\ \E r \in Pending(p) : Pending(p)' \subseteq Pending(p) \ {r},
           \A p \in Paths : Len(mounts'[p]) \in Nat
    PROVE  OneEach'
<1> SUFFICES ASSUME NEW p \in Paths
             PROVE  Len(mounts'[p]) + Cardinality(Pending(p)') <= Cardinality(Handlers)
  BY DEF OneEach
<1> DEFINE S == Pending(p)  T == Pending(p)'
<1>1. S \in SUBSET Handlers /\ T \in SUBSET Handlers
  BY DEF Pending
<1>2. Len(mounts[p]) \in Nat /\ Len(mounts'[p]) \in Nat
  BY LenProperties DEF Shapes
<1>3. Len(mounts[p]) + Cardinality(S) <= Cardinality(Handlers)
  BY DEF OneEach
<1> SUFFICES Len(mounts'[p]) + Cardinality(T) <= Cardinality(Handlers)
  OBVIOUS
<1> HIDE DEF S, T
<1>4. CASE Len(mounts'[p]) <= Len(mounts[p]) /\ T \subseteq S
  BY <1>1, <1>2, <1>3, <1>4, PendingCount
<1>5. CASE Len(mounts'[p]) = 0
  BY <1>1, <1>5, PendingCount
<1>6. CASE Len(mounts'[p]) = Len(mounts[p]) + 1 /\ \E r \in S : T \subseteq S \ {r}
  <2>1. PICK r \in S : T \subseteq S \ {r}
    BY <1>6
  <2>2. T \in SUBSET S /\ r \notin T
    BY <2>1
  <2>3. Cardinality(T) + 1 <= Cardinality(S)
    BY <1>1, <2>1, <2>2, PendingCount
  <2> QED  BY <1>1, <1>2, <1>3, <1>6, <2>2, <2>3, PendingCount
<1> QED  BY <1>4, <1>5, <1>6 DEF S, T

LEMMA AnswerStacks ==
    ASSUME StackInv, NEW r \in Handlers, NEW ok \in BOOLEAN, Answer(r, ok), op[r].pc # "idle",
           UNCHANGED <<mounts, device>>
    PROVE  StackInv'
<1>1. op[r].path \in Paths /\ op[r].kind \in {"set", "clear"} /\ op' = [op EXCEPT ![r] = Idle]
  BY DEF StackInv, Shapes, Answer
<1>2. Shapes'
  BY <1>1 DEF StackInv, Shapes, Answer, Idle, Steps
<1>3. \A p \in Paths : Pending(p)' \subseteq Pending(p)
  BY <1>1 DEF StackInv, Shapes, Pending, Idle
<1>4. OneEach'
  BY <1>3, OneEachKept, LenProperties DEF StackInv, Shapes
<1> QED  BY <1>2, <1>4 DEF StackInv, OneStaged

(* A handler that has looked: what it does next is on the mounts it saw. *)
LEMMA LookStacks == ASSUME StackInv, NEW r \in Handlers, Look(r) PROVE StackInv'
<1> DEFINE q == op[r].path  n == next(op[r])
<1>1. op[r].pc = "look" /\ q \in Paths /\ op[r].kind \in {"set", "clear"} /\ UNCHANGED <<mounts, device>>
  BY DEF StackInv, Shapes, Look
<1>2. CASE Answer(r, TRUE)
  BY <1>1, <1>2, AnswerStacks
<1>3. CASE ~AlreadyDone(r) /\ Goto(r, n)
  <2>1. n \in Steps /\ n # "idle" /\ (n \in {"device", "mount"} => op[r].kind = "set")
    BY <1>1 DEF next, Steps
  <2>2. n \in {"device", "mount"} => mounts[q] = <<>>
    BY <1>3, <2>1 DEF AlreadyDone, IsMounted
  <2>3. op' = [op EXCEPT ![r].pc = n] /\ UNCHANGED <<waiter, claim, faults>>
    BY <1>3 DEF Goto
  <2> HIDE DEF n
  <2>4. Shapes'
    BY <1>1, <2>1, <2>3 DEF StackInv, Shapes
  <2>5. \A p \in Paths : Len(mounts'[p]) = 0 \/ Pending(p)' \subseteq Pending(p)
    <3> SUFFICES ASSUME NEW p \in Paths, Len(mounts[p]) # 0 PROVE Pending(p)' \subseteq Pending(p)
      BY <1>1
    <3>1. p = q => n \notin {"device", "mount"}
      BY <2>2, Len(<<>>) = 0
    <3> QED  BY <2>3, <3>1 DEF StackInv, Shapes, Pending
  <2>6. OneEach'
    BY <1>1, <2>5, OneEachKept, LenProperties DEF StackInv, Shapes
  <2> QED  BY <1>1, <2>4, <2>6 DEF StackInv, OneStaged
<1> QED  BY <1>2, <1>3 DEF Look

LEMMA FindDeviceStacks == ASSUME StackInv, NEW r \in Handlers, FindDevice(r) PROVE StackInv'
<1>1. op[r].pc = "device" /\ UNCHANGED <<mounts, device>>
  BY DEF FindDevice
<1>2. CASE Answer(r, FALSE)
  BY <1>1, <1>2, AnswerStacks
<1>3. CASE Goto(r, "mount")
  <2>1. op' = [op EXCEPT ![r].pc = "mount"] /\ UNCHANGED <<waiter, claim, faults>>
    BY <1>3 DEF Goto
  <2>2. Shapes'
    BY <1>1, <2>1 DEF StackInv, Shapes, Steps
  <2>3. \A p \in Paths : Pending(p)' \subseteq Pending(p)
    BY <1>1, <2>1 DEF StackInv, Shapes, Pending
  <2>4. OneEach'
    BY <1>1, <2>3, OneEachKept, LenProperties DEF StackInv, Shapes
  <2> QED  BY <1>1, <2>2, <2>4 DEF StackInv, OneStaged
<1> QED  BY <1>2, <1>3 DEF FindDevice

(* The handler that mounts is not among those that have yet to. *)
LEMMA MountStacks == ASSUME StackInv, NEW r \in Handlers, Mount(r) PROVE StackInv'
<1> DEFINE q == op[r].path
<1>1. op[r].pc = "mount" /\ q \in Paths /\ UNCHANGED device
  BY DEF StackInv, Shapes, Mount
<1>2. CASE Answer(r, FALSE) /\ UNCHANGED mounts
  BY <1>1, <1>2, AnswerStacks
<1>3. CASE /\ ~MountFails(q)
           /\ mounts' = [mounts EXCEPT ![q] = <<Source(q)>> \o @]
           /\ Goto(r, "answer")
  <2> DEFINE Sources == {Volume, Device, Directory}
             src == Source(q)
             old == mounts[q]
  <2>1. Staging \in Paths /\ old \in Seq(Sources) /\ mounts[Staging] \in Seq(Sources)
    BY <1>1 DEF StackInv, Shapes, Paths
  <2>2. src \in Sources
    <3>1. IsMounted(Staging) => Head(mounts[Staging]) \in Sources
      BY <2>1, HeadTailProperties DEF IsMounted
    <3> QED  BY <3>1 DEF Source
  <2> HIDE DEF src, old, Sources
  <2>3. <<src>> \o old \in Seq(Sources) /\ Len(<<src>> \o old) = Len(old) + 1
    BY <2>1, <2>2, ConcatProperties
  <2>4. op' = [op EXCEPT ![r].pc = "answer"] /\ UNCHANGED <<waiter, claim, faults>>
    BY <1>3 DEF Goto
  <2>5. mounts' = [mounts EXCEPT ![q] = <<src>> \o old]
    BY <1>3 DEF src, old
  <2> HIDE DEF q
  <2>6. mounts' \in [Paths -> Seq(Sources)] /\ Len(mounts'[q]) = Len(old) + 1
        /\ \A p \in Paths : p # q => mounts'[p] = mounts[p]
    BY <1>1, <2>3, <2>5 DEF StackInv, Shapes, Sources
  <2>7. Shapes'
    <3>0. op \in [Handlers -> [pc : Steps, kind : {"set", "clear"}, path : Paths \cup {None}]]
      BY DEF StackInv, Shapes
    <3>1. op' \in [Handlers -> [pc : Steps, kind : {"set", "clear"}, path : Paths \cup {None}]]
      BY <2>4, <3>0 DEF Steps
    <3>2. \A h \in Handlers : op'[h].pc # "idle" => op'[h].path \in Paths
      BY <1>1, <2>4 DEF StackInv, Shapes, q
    <3> QED  BY <1>1, <2>4, <2>6, <3>1, <3>2 DEF StackInv, Shapes, Sources
  <2>8. \A p \in Paths : Pending(p)' \subseteq Pending(p) \ {r}
    BY <1>1, <2>4 DEF StackInv, Shapes, Pending
  <2>9. r \in Pending(q)
    BY <1>1 DEF Pending, q
  <2>10. ASSUME NEW p \in Paths
         PROVE  \/ Len(mounts'[p]) <= Len(mounts[p]) /\ Pending(p)' \subseteq Pending(p)
                \/ /\ Len(mounts'[p]) = Len(mounts[p]) + 1
                   /\ \E h \in Pending(p) : Pending(p)' \subseteq Pending(p) \ {h}
    <3>1. CASE p = q
      BY <2>6, <2>8, <2>9, <3>1 DEF old
    <3>2. CASE p # q
      <4>1. Len(mounts[p]) \in Nat
        BY LenProperties DEF StackInv, Shapes
      <4> QED  BY <2>6, <2>8, <3>2, <4>1
    <3> QED  BY <3>1, <3>2
  <2>11. \A p \in Paths : Len(mounts'[p]) \in Nat
    BY <2>6, LenProperties
  <2>12. OneEach'
    BY <2>10, <2>11, OneEachKept DEF StackInv
  <2>13. OneStaged'
    <3>1. CASE q = Staging
      <4>1. old = <<>>
        BY <1>3, <3>1 DEF MountFails, IsMounted, old
      <4>2. Len(mounts'[Staging]) = 0 + 1
        BY <2>6, <3>1, <4>1
      <4> QED  BY <4>2 DEF OneStaged
    <3>2. CASE q # Staging
      BY <2>1, <2>6, <3>2 DEF OneStaged, StackInv
    <3> QED  BY <3>1, <3>2
  <2> QED  BY <2>7, <2>12, <2>13 DEF StackInv
<1> QED  BY <1>2, <1>3 DEF Mount

LEMMA UnmountStacks == ASSUME StackInv, NEW r \in Handlers, Unmount(r) PROVE StackInv'
<1> DEFINE q == op[r].path  Sources == {Volume, Device, Directory}
<1>1. op[r].pc = "unmount" /\ q \in Paths /\ UNCHANGED device /\ mounts[q] \in Seq(Sources)
  BY DEF StackInv, Shapes, Unmount
<1>2. CASE Answer(r, FALSE) /\ UNCHANGED mounts
  BY <1>1, <1>2, AnswerStacks
<1>3. CASE mounts[q] # <<>> /\ mounts' = [mounts EXCEPT ![q] = Tail(@)] /\ Goto(r, "answer")
  <2> DEFINE rest == Tail(mounts[q])
  <2> HIDE DEF Sources
  <2>1. rest \in Seq(Sources) /\ Len(rest) <= Len(mounts[q])
    <3>1. rest \in Seq(Sources) /\ Len(rest) = Len(mounts[q]) - 1
      BY <1>1, <1>3, HeadTailProperties
    <3> QED  BY <1>1, <3>1, LenProperties
  <2> HIDE DEF rest
  <2>2. op' = [op EXCEPT ![r].pc = "answer"] /\ UNCHANGED <<waiter, claim, faults>>
    BY <1>3 DEF Goto
  <2>3. mounts' = [mounts EXCEPT ![q] = rest]
    BY <1>3 DEF rest
  <2> HIDE DEF q
  <2>4. mounts' \in [Paths -> Seq(Sources)] /\ mounts'[q] = rest
        /\ \A p \in Paths : p # q => mounts'[p] = mounts[p]
    BY <1>1, <2>1, <2>3 DEF StackInv, Shapes, Sources
  <2>5. Shapes'
    <3>0. op \in [Handlers -> [pc : Steps, kind : {"set", "clear"}, path : Paths \cup {None}]]
      BY DEF StackInv, Shapes
    <3>1. op' \in [Handlers -> [pc : Steps, kind : {"set", "clear"}, path : Paths \cup {None}]]
      BY <2>2, <3>0 DEF Steps
    <3>2. \A h \in Handlers : op'[h].pc # "idle" => op'[h].path \in Paths
      BY <1>1, <2>2 DEF StackInv, Shapes, q
    <3> QED  BY <1>1, <2>2, <2>4, <3>1, <3>2 DEF StackInv, Shapes, Sources
  <2>6. \A p \in Paths : Pending(p)' \subseteq Pending(p)
    BY <1>1, <2>2 DEF StackInv, Shapes, Pending
  <2>7. \A p \in Paths : Len(mounts'[p]) <= Len(mounts[p]) /\ Len(mounts'[p]) \in Nat
    <3>1. \A p \in Paths : Len(mounts[p]) \in Nat /\ Len(mounts'[p]) \in Nat
      BY <2>4, LenProperties DEF StackInv, Shapes
    <3> QED  BY <2>1, <2>4, <3>1
  <2>8. OneEach'
    BY <2>6, <2>7, OneEachKept DEF StackInv
  <2>9. OneStaged'
    <3>1. Staging \in Paths /\ Len(mounts[Staging]) \in Nat
      BY LenProperties DEF Paths, StackInv, Shapes
    <3> QED  BY <2>7, <3>1 DEF OneStaged, StackInv
  <2> QED  BY <2>5, <2>8, <2>9 DEF StackInv
<1> QED  BY <1>2, <1>3 DEF Unmount, IsMounted

LEMMA BeginStacks ==
    ASSUME StackInv, NEW r \in Handlers, NEW k \in {"set", "clear"}, NEW p \in Paths, Begin(r, k, p)
    PROVE  StackInv'
<1>1. op' = [op EXCEPT ![r] = [pc |-> "look", kind |-> k, path |-> p]] /\ UNCHANGED <<mounts, device, faults>>
  BY DEF Begin
<1>2. Shapes'
  BY <1>1 DEF StackInv, Shapes, Begin, Steps
<1>3. \A q \in Paths : Pending(q)' \subseteq Pending(q)
  BY <1>1 DEF StackInv, Shapes, Pending
<1>4. OneEach'
  BY <1>1, <1>3, OneEachKept, LenProperties DEF StackInv, Shapes
<1> QED  BY <1>1, <1>2, <1>4 DEF StackInv, OneStaged

LEMMA QuietStacks ==
    ASSUME StackInv, UNCHANGED mounts,
           op' = op \/ op' = [r \in Handlers |-> Idle], Shapes'
    PROVE  StackInv'
<1>1. \A q \in Paths : Pending(q)' \subseteq Pending(q)
  BY DEF Pending, Idle
<1>2. OneEach'
  BY <1>1, OneEachKept, LenProperties DEF StackInv, Shapes
<1> QED  BY <1>2 DEF StackInv, OneStaged

LEMMA StackStep == ASSUME StackInv, [Next]_vars PROVE StackInv'
<1>1. ASSUME NEW r \in Handlers, Serve(r) PROVE StackInv'
  <2>1. ASSUME AnswerOK(r) \/ CallFails(r) PROVE StackInv'
    BY <2>1, AnswerStacks DEF AnswerOK, CallFails
  <2> QED  BY <1>1, <2>1, LookStacks, FindDeviceStacks, MountStacks, UnmountStacks DEF Serve
<1>2. ASSUME NEW r \in Handlers, NEW t \in Targets, Publish(r, t) \/ Unpublish(r, t) PROVE StackInv'
  BY <1>2, BeginStacks DEF Publish, Unpublish, Paths
<1>3. ASSUME NEW r \in Handlers, Stage(r) \/ Unstage(r) PROVE StackInv'
  BY <1>3, BeginStacks DEF Stage, Unstage, Paths
<1>4. ASSUME Crash PROVE StackInv'
  <2>1. Shapes'
    BY <1>4 DEF Crash, StackInv, Shapes, Idle, Steps
  <2> QED  BY <1>4, <2>1, QuietStacks DEF Crash
<1>5. ASSUME GiveUp \/ Attach \/ Detach \/ UNCHANGED vars PROVE StackInv'
  <2>1. Shapes'
    BY <1>5 DEF GiveUp, Attach, Detach, vars, StackInv, Shapes
  <2> QED  BY <1>5, <2>1, QuietStacks DEF GiveUp, Attach, Detach, vars
<1> QED  BY <1>1, <1>2, <1>3, <1>4, <1>5 DEF Next

(* The bound on stacked mounts and the shape of the state, also where mount calls outlive
   their context: no path has more mounts than there are handlers, and the staging path one. *)
THEOREM TypeCorrect == Spec => []TypeOK
<1>1. Init => StackInv
  <2> SUFFICES ASSUME Init PROVE StackInv OBVIOUS
  <2>1. Shapes
    <3>1. <<>> \in Seq({Volume, Device, Directory})
      OBVIOUS
    <3>2. Idle \in [pc : Steps, kind : {"set", "clear"}, path : Paths \cup {None}] /\ Idle.pc = "idle"
      BY DEF Idle, Steps
    <3> QED  BY <3>1, <3>2 DEF Init, Shapes
  <2>2. \A p \in Paths : Len(mounts[p]) = 0 /\ Pending(p) = {}
    BY DEF Init, Pending, Idle
  <2>3. OneEach
    BY <2>2, FS_EmptySet, PendingCount DEF OneEach
  <2> QED  BY <2>1, <2>2, <2>3 DEF StackInv, OneStaged, Paths
<1>2. StackInv => TypeOK
  <2> SUFFICES ASSUME StackInv, NEW p \in Paths PROVE Len(mounts[p]) <= Cardinality(Handlers)
    BY DEF StackInv, Shapes, OneStaged, TypeOK, Steps
  <2>1. Pending(p) \in SUBSET Handlers /\ Len(mounts[p]) \in Nat
    BY LenProperties DEF Pending, StackInv, Shapes
  <2> QED  BY <2>1, PendingCount DEF StackInv, OneEach
<1> QED  BY <1>1, <1>2, StackStep, PTL DEF Spec
=============================================================================
