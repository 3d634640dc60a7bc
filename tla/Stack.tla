------------------------------- MODULE Stack -------------------------------
(***************************************************************************)
(* One resource of a Pulumi stack, of any kind the provider has, over its  *)
(* life: the program is edited, `pulumi up` creates, updates or replaces   *)
(* the resource, `refresh` reads it, `destroy` deletes it, and it may have *)
(* been imported.  Every request is a step; between two of them the        *)
(* requests can fail, their answers can be lost, a resize can lag.         *)
(*                                                                         *)
(* The engine is external and modelled as the caller it is: it asks Check, *)
(* then Diff, then the operation that the diff calls for (replacements     *)
(* delete first, as diffResponse says); it keeps the state of an operation *)
(* that succeeded and of no other, so that a Create that fails has left    *)
(* nothing in the stack and an Update that fails leaves the old state.     *)
(***************************************************************************)
EXTENDS Resources, Sequences, SequencesExt

CONSTANTS
    Kinds,         \* the kinds of resource to look at
    Objects,       \* the objects that can exist at Nobus at the same time
    None, Blank,   \* no object; the ID read off an answer without one
    Environments,  \* the sets of faults (of FaultKinds) that a behaviour can have
    FirstName,     \* what the first program gives to an argument
    FirstId,       \* and to one that holds IDs
    MaxTurns,      \* bound: edits, refreshes, destroys and imports
    MaxTrouble     \* bound: requests that go wrong

FaultKinds == {"refuse",    \* a request is refused, without effect
               "lost",      \* the answer to a request is lost
               "wait",      \* a wait runs out of time
               "gone",      \* the object is deleted behind the stack's back
               "blank",     \* a read of a missing object is answered without an error
               "defaults",  \* Nobus fills in what a create leaves out
               "slow",      \* a resize does not show in the status at once
               "strict",    \* Nobus refuses to do again what is done
               "clear",     \* the program drops arguments that it gave
               "move",      \* the program changes the project
               "import"}    \* the object exists before the stack

ASSUME StackAssumption ==
    /\ Kinds \subseteq DOMAIN Resource
    /\ None \notin Objects /\ Blank \notin Objects /\ None # Blank
    /\ Environments \subseteq SUBSET FaultKinds
    /\ FirstName \in Names /\ BareOf[FirstName] = FirstName /\ FirstId \in Names
    /\ MaxTurns \in Nat /\ MaxTrouble \in Nat

VARIABLES
    kind,      \* the kind of the resource: chosen once
    faults,    \* what can go wrong in this behaviour: chosen once
    program,   \* the arguments that the program gives
    stack,     \* what the stack knows: the ID of the object, and the state
    remote,    \* the objects at Nobus
    op,        \* the operation that runs
    applied,   \* the arguments of the last up that succeeded
    upToDate,  \* whether the last up of this program succeeded
    turns,     \* the edits, refreshes, destroys and imports so far
    trouble    \* the requests that went wrong so far

vars == <<kind, faults, program, stack, remote, op, applied, upToDate, turns, trouble>>

-----------------------------------------------------------------------------
Args  == Resource[kind].args
Calls == Resource[kind].calls

NoArgs   == [f \in Args |-> {}]
NoObject == [status |-> "none", fields |-> NoArgs]
NoStack  == [id |-> None, state |-> NoArgs]
Idle     == [do |-> "idle", calls |-> <<>>, attempt |-> 1, news |-> NoArgs, made |-> None]

Call(name, body) == [name |-> name, body |-> body]
Plain(name)      == Call(name, NoDefault)

(* The location a call names: of the new arguments, or of the state. *)
Target == IF op.do \in {"create", "update"} THEN op.news ELSE stack.state

Addressed == IF op.do = "create" THEN op.made ELSE stack.id

Found ==
    /\ Addressed \in Objects
    /\ remote[Addressed].status # "none"
    /\ \A f \in Scope : remote[Addressed].fields[f] = Target[f]

Live == {o \in Objects : remote[o].status # "none"}

-----------------------------------------------------------------------------
(* Nobus. *)

(* The object that a POST makes.  An attachment is its volume and instance: *)
(* made twice it is the same one.                                           *)
Twin(body) ==
    {o \in Live : kind = "VolumeAttachment" /\ \A f \in DOMAIN body : remote[o].fields[f] = body[f]}

Made(body) ==
    LET given == [f \in Args |-> IF f \in DOMAIN body THEN body[f] ELSE {}]
        filled == [f \in Args |->
            IF "defaults" \in faults /\ f \in {"description", "container", "gatewayIp"}
              THEN Or(given[f], {DefaultValue}) ELSE given[f]]
    IN [status |-> "ready", fields |-> NetworkName(kind, filled)]

New(body) == IF Twin(body) # {} THEN CHOOSE o \in Twin(body) : TRUE
             ELSE CHOOSE o \in Objects \ (Live \cup {stack.id}) : TRUE

(* Bound: another object is made only where one of Objects is left for it. *)
Room(c) == c.name = "post" => Twin(c.body) \cup (Objects \ (Live \cup {stack.id})) # {}

(* What each call does to the objects. *)
Effect(c) ==
    LET x == remote[Addressed]
        sg == x.fields.securityGroups
    IN CASE c.name = "post"    -> [remote EXCEPT ![New(c.body)] = Made(c.body)]
         [] c.name = "delete"  -> [remote EXCEPT ![Addressed] = NoObject]
         [] c.name \in {"put", "rename", "tags"} ->
                [remote EXCEPT ![Addressed].fields = Merge(@, c.body)]
         [] c.name = "resize"  ->
                [remote EXCEPT ![Addressed] = Resize(@, c.body.flavor, "slow" \in faults)]
         [] c.name = "confirm" -> [remote EXCEPT ![Addressed].status = "ready"]
         [] c.name = "remove"  ->
                [remote EXCEPT ![Addressed].fields.securityGroups = sg \ c.body.securityGroups]
         [] c.name = "attach"  ->
                [remote EXCEPT ![Addressed].fields.securityGroups = sg \cup c.body.securityGroups]
         [] OTHER              -> remote

(* A Nobus that is strict refuses to do again what is done. *)
Redone(c) ==
    /\ "strict" \in faults
    /\ \/ c.name = "post" /\ Twin(c.body) # {}
       \/ c.name = "resize" /\ remote[Addressed].status # "ready"
       \/ c.name = "remove" /\ ~ c.body.securityGroups \subseteq remote[Addressed].fields.securityGroups

Waited == {"wait", "resized"}     \* the calls that poll the status

(* A resized server may be active again or wait for its confirmation. *)
WaitInstanceStatus(name) ==
    \/ name = "resized"
    \/ Shown(remote[Addressed].status) = "ready"

(* The calls whose answers are decoded; of the others only the status counts. *)
Decoded(c) == c.name = "put" \/ (c.name = "post" /\ kind # "VolumeAttachment")

(* The classes of the answers that Nobus can give to a call. *)
Classes(c) ==
    IF c.name \in Waited
      THEN waitUntil(Found, Found /\ WaitInstanceStatus(c.name),
                     "wait" \in faults /\ trouble < MaxTrouble)
    ELSE IF c.name = "post" \/ Found
      THEN {doOnce([status |-> IF Redone(c) THEN 409 ELSE 200, text |-> "plain"])}
    ELSE IF c.name = "get" /\ Missing(Calls.get, "blank" \in faults) = "blank"
      THEN {"blank"}
    ELSE {doOnce([status |-> s, text |-> "missing"]) : s \in {400, 404}}

-----------------------------------------------------------------------------
(* The operations of a resource: the calls they make, in their order. *)

One(condition, c) == IF condition THEN <<c>> ELSE <<>>

Each(name, groups) ==
    LET names == SetToSeq(groups)
    IN [i \in 1..Len(names) |-> Call(name, [securityGroups |-> {names[i]}])]

Create(news) ==
    LET follow == Resource[kind].follow
    IN <<Call("post", Post(kind, news))>> \o
       One("wait" \in follow, Plain("wait")) \o
       One("tags" \in follow /\ news.tags # {}, Call("tags", [tags |-> news.tags])) \o
       One("get" \in follow, Plain("get"))

InstanceUpdate(olds, news) ==
    LET groups == sliceDiff(olds.securityGroups, news.securityGroups)
        renamed == Changed("given", olds.name, news.name)
        resized == Changed("givenId", olds.flavor, news.flavor)
        tagged  == Changed("alwaysList", olds.tags, news.tags)
    IN One(renamed, Call("rename", [name |-> news.name])) \o
       One(resized, Call("resize", [flavor |-> BareResourceID(news.flavor)])) \o
       One(resized, Plain("resized")) \o One(resized, Plain("verify")) \o
       Each("remove", groups.remove) \o Each("attach", groups.add) \o
       One(tagged, Call("tags", [tags |-> news.tags])) \o <<Plain("get")>>

(* A volume is always written, the others when there is something to write. *)
Update(olds, news) ==
    IF kind = "Instance" THEN InstanceUpdate(olds, news)
    ELSE One(kind = "Volume" \/ DOMAIN Put(kind, olds, news) # {},
             Call("put", Put(kind, olds, news)))

(* What follows a look at a server after its resize. *)
Verify_AsIs(status) == <<>>                                    \* mutation: no confirmation
Verify(status) ==
    IF Shown(status) = "verify" THEN <<Plain("confirm"), Plain("wait")>> ELSE <<>>

(* The answers to a delete that Delete is content with. *)
Delete_AnyError(class) == class # "unavailable"                \* mutation: refusals pass
Delete_OnlyOK(class)   == class = "ok"                         \* mutation: missing is an error
Delete(class) == class \in {"ok", "notFound"}

-----------------------------------------------------------------------------
(* The engine and its user. *)

Start(task, calls, news) ==
    op' = [do |-> task, calls |-> calls, attempt |-> 1, news |-> news, made |-> None]

Succeed(news) == applied' = news /\ upToDate' = TRUE

Turn == turns < MaxTurns /\ turns' = turns + 1

(* An up whose program Check refuses does nothing. *)
UpRefused ==
    /\ op.do = "idle" /\ ~Check(kind, program)
    /\ UNCHANGED vars

Up ==
    LET news == checkResourceArgs(program)
        olds == stack.state
        body == Update(olds, news)
    IN /\ op.do = "idle"
       /\ Check(kind, program)
       /\ IF stack.id = None
            THEN /\ Start("create", Create(news), news)
                 /\ upToDate' = FALSE
                 /\ UNCHANGED <<stack, applied>>
          ELSE IF replaceDiff(kind, olds, news) # {}
            THEN /\ Start("replace", <<Plain("delete")>>, news)
                 /\ upToDate' = FALSE
                 /\ UNCHANGED <<stack, applied>>
          ELSE IF diffResponse(kind, olds, news) = {}
            THEN Succeed(news) /\ UNCHANGED <<stack, op>>
          ELSE IF body = <<>>
            THEN /\ stack' = [stack EXCEPT !.state = Renewed(kind, news)]
                 /\ Succeed(news) /\ UNCHANGED op
          ELSE /\ Start("update", body, news)
               /\ upToDate' = FALSE
               /\ UNCHANGED <<stack, applied>>
       /\ UNCHANGED <<kind, faults, program, remote, turns, trouble>>

(* The values that the program can give: a name, or two in a list.  IDs and *)
(* tags are given in any of their forms.                                    *)
Values(f) ==
    LET forms == {n \in Names : f \in Resource[kind].ids \cup {"tags"} \/ BareOf[n] = n}
        pairs == {p \in forms \X forms : BareOf[p[1]] # BareOf[p[2]]}
    IN {{}} \cup {{n} : n \in forms} \cup
       IF f \in {"securityGroups", "tags"} THEN {{p[1], p[2]} : p \in pairs} ELSE {}

Edit ==
    /\ op.do = "idle" /\ Turn
    /\ \E f \in Args : \E v \in Values(f) \ {program[f]} :
          /\ v = {} => "clear" \in faults
          /\ f = "projectId" => "move" \in faults
          /\ program' = [program EXCEPT ![f] = v]
    /\ upToDate' = FALSE
    /\ UNCHANGED <<kind, faults, stack, remote, op, applied, trouble>>

Refresh ==
    /\ op.do = "idle" /\ Turn
    /\ stack.id # None
    /\ Start("refresh", <<Plain("get")>>, NoArgs)
    /\ UNCHANGED <<kind, faults, program, stack, remote, applied, upToDate, trouble>>

Destroy ==
    /\ op.do = "idle" /\ Turn
    /\ stack.id # None
    /\ Start("destroy", <<Plain("delete")>>, NoArgs)
    /\ upToDate' = FALSE
    /\ UNCHANGED <<kind, faults, program, stack, remote, applied, trouble>>

(* The import of an object by its ID, whose location may be left out where *)
(* the configuration has it: a read with a blank state.                    *)
Import ==
    /\ "import" \in faults
    /\ op.do = "idle" /\ Turn
    /\ stack.id = None
    /\ \E o \in Live, F \in SUBSET Scope :
          LET part  == [f \in Scope |-> IF f \in F THEN remote[o].fields[f] ELSE {}]
              scope == ResolveImport(part, NoArgs)
          IN stack' = [id |-> o, state |-> [f \in Args |-> IF f \in Scope THEN scope[f] ELSE {}]]
    /\ Start("import", <<Plain("get")>>, NoArgs)
    /\ UNCHANGED <<kind, faults, program, remote, applied, upToDate, trouble>>

-----------------------------------------------------------------------------
(* The answer to the call at the head of an operation. *)

ObjectOf(c) == IF c.name = "post" THEN New(c.body) ELSE Addressed

(* The fields of an object that an answer holds. *)
Reply(id, class) ==
    [f \in Args |-> IF class = "ok" /\ f \in Calls.reply THEN remote'[id].fields[f] ELSE {}]

(* The end of an operation whose last answer was of the class. *)
Commit(id, class) ==
    LET news  == op.news
        reply == Reply(id, class)
        rules == Resource[kind]
    IN \/ /\ op.do = "create"
          /\ stack' = [id |-> id, state |-> Learn(Kept(kind, news), rules.created, reply)]
          /\ Succeed(news) /\ op' = Idle
       \/ /\ op.do = "update"
          /\ stack' = [stack EXCEPT !.state = Learn(Renewed(kind, news), rules.updated, reply)]
          /\ Succeed(news) /\ op' = Idle
       \/ /\ op.do = "replace"
          /\ stack' = NoStack
          /\ Start("create", Create(news), news)
          /\ UNCHANGED <<applied, upToDate>>
       \/ /\ op.do = "destroy"
          /\ stack' = NoStack /\ op' = Idle
          /\ UNCHANGED <<applied, upToDate>>
       \/ /\ op.do \in {"refresh", "import"}
          /\ stack' = [id    |-> IF class = "ok" THEN id ELSE Blank,
                       state |-> Learn(stack.state, rules.read, reply)]
          /\ op' = Idle
          /\ UNCHANGED <<applied, upToDate>>

Advance(c, class) ==
    LET id   == ObjectOf(c)
        rest == (IF c.name = "verify" THEN Verify(remote[id].status) ELSE <<>>) \o Tail(op.calls)
    IN IF rest = <<>> THEN Commit(id, class)
       ELSE /\ op' = [op EXCEPT !.calls = rest, !.attempt = 1,
                                !.made = IF op.do = "create" THEN id ELSE None]
            /\ UNCHANGED <<stack, applied, upToDate>>

(* A failed operation leaves the stack as it was; a resource that a read *)
(* does not find is dropped from it.                                     *)
Fail_KeepsUpdate(class) ==                                     \* mutation: the update counts as made
    /\ op' = Idle
    /\ stack' = [stack EXCEPT !.state = IF op.do = "update" THEN Renewed(kind, op.news) ELSE @]
    /\ UNCHANGED <<upToDate, applied>>
Fail(class) ==
    /\ op' = Idle
    /\ IF op.do = "import" \/ (op.do = "refresh" /\ class = "notFound")
         THEN stack' = NoStack /\ upToDate' = FALSE
         ELSE UNCHANGED <<stack, upToDate>>
    /\ UNCHANGED applied

React(c, class) ==
    /\ IF class \in {"ok", "blank"} \/ (c.name = "delete" /\ Delete(class)) THEN Advance(c, class)
       ELSE IF do(op.attempt, class)
         THEN /\ op' = [op EXCEPT !.attempt = @ + 1]
              /\ UNCHANGED <<stack, applied, upToDate>>
       ELSE Fail(class)
    /\ UNCHANGED <<kind, faults, program, turns>>

Trouble == trouble < MaxTrouble /\ trouble' = trouble + 1

Answered(c) ==
    \E class \in Classes(c) :
       /\ remote' = IF class = "ok" THEN Effect(c) ELSE remote
       /\ IF class = "timeout" THEN Trouble ELSE UNCHANGED trouble
       /\ React(c, class)

Refused(c) ==
    /\ "refuse" \in faults /\ Trouble
    /\ UNCHANGED remote
    /\ \E s \in {400, 503} : React(c, doOnce([status |-> s, text |-> "plain"]))

(* The answer to a request that was carried out does not arrive, or cannot be decoded. *)
Lost(c) ==
    /\ "lost" \in faults /\ Trouble
    /\ c.name \notin Waited \cup {"get", "verify"}
    /\ "ok" \in Classes(c)
    /\ remote' = Effect(c)
    /\ \E text \in {"plain", "garbled"} :
          /\ text = "garbled" => Decoded(c)
          /\ React(c, doOnce([status |-> IF text = "plain" THEN 0 ELSE 200, text |-> text]))

Serve ==
    /\ op.do # "idle"
    /\ LET c == Head(op.calls) IN Room(c) /\ (Answered(c) \/ Refused(c) \/ Lost(c))

(* Nobus on its own: an object goes away, a slow resize begins to show. *)
Vanish ==
    /\ "gone" \in faults /\ Trouble
    /\ \E o \in Live : remote' = [remote EXCEPT ![o] = NoObject]
    /\ upToDate' = FALSE
    /\ UNCHANGED <<kind, faults, program, stack, op, applied, turns>>

Resized ==
    /\ \E o \in Objects : /\ remote[o].status = "resizing"
                          /\ remote' = [remote EXCEPT ![o].status = "verify"]
    /\ UNCHANGED <<kind, faults, program, stack, op, applied, upToDate, turns, trouble>>

-----------------------------------------------------------------------------
(* The program gives what Check asks for, or everything; with an import an *)
(* object is there as the program says.                                    *)
Programs(k) ==
    {[f \in Resource[k].args |->
        IF f \notin given \ Scope THEN {}
        ELSE {IF f \in Resource[k].ids THEN FirstId ELSE FirstName}] :
        given \in {Resource[k].required, Resource[k].args}}

Described(args) ==
    LET posted == Made(Post(kind, args)).fields
    IN [status |-> "ready",
        fields |-> [f \in Args |-> IF f = "tags" THEN args[f] ELSE posted[f]]]

Init ==
    /\ kind \in Kinds /\ faults \in Environments
    /\ program \in Programs(kind)
    /\ stack = NoStack /\ op = Idle
    /\ LET args == checkResourceArgs(program)
       IN /\ applied = IF "import" \in faults THEN args ELSE NoArgs
          /\ \E first \in Objects :
                remote = [o \in Objects |-> IF "import" \in faults /\ o = first
                                              THEN Described(args) ELSE NoObject]
    /\ upToDate = FALSE
    /\ turns = 0 /\ trouble = 0

Next == Up \/ UpRefused \/ Edit \/ Refresh \/ Destroy \/ Import \/ Serve \/ Vanish \/ Resized

(* The user repeats the up until it succeeds, the requests are answered, a *)
(* resize goes on; edits and faults need not happen.                       *)
Fairness == WF_vars(Up) /\ WF_vars(Serve) /\ WF_vars(Resized)

Spec == Init /\ [][Next]_vars /\ Fairness

-----------------------------------------------------------------------------
(* Properties. *)

(* The records keep their shape and the attempts their bound. *)
TypeOK ==
    /\ kind \in Kinds /\ faults \in Environments
    /\ program \in [Args -> SUBSET Names] /\ applied \in [Args -> SUBSET Names]
    /\ stack.id \in Objects \cup {None, Blank} /\ stack.state \in [Args -> SUBSET Names]
    /\ remote \in [Objects -> [status : {"none", "ready", "resizing", "verify"},
                               fields : [Args -> SUBSET Names]]]
    /\ op.do \in {"idle", "create", "update", "replace", "destroy", "refresh", "import"}
    /\ (op.do = "idle") = (op.calls = <<>>)
    /\ op.attempt \in 1..MaxAttempts
    /\ op.made \in Objects \cup {None} /\ op.news \in [Args -> SUBSET Names]
    /\ upToDate \in BOOLEAN /\ turns \in 0..MaxTurns /\ trouble \in 0..MaxTrouble

(* The fields a later up compares, without those that the code compares but *)
(* does not send: the device of a port after its creation, the name and the *)
(* description of a network at its creation, the volume flag of a server.   *)
Unsent == CASE kind = "Port"     -> {"deviceId"}
            [] kind = "Network"  -> {"name", "description"}
            [] kind = "Instance" -> {"deleteVolume"}
            [] OTHER             -> {}

Rules ==
    LET d == Resource[kind].diff
    IN [f \in DOMAIN d.replace \cup DOMAIN d.update |->
           IF f \in DOMAIN d.replace THEN d.replace[f] ELSE d.update[f]]
Tracked == DOMAIN Rules \ (Unsent \cup {"projectId"})

(* The fields that an up clears when the program drops them: those whose *)
(* dropping replaces the resource, and three that are sent as blanks.    *)
Cleared ==
    {f \in DOMAIN Resource[kind].diff.replace : Rules[f] \in {"always", "alwaysId"}}
    \cup CASE kind = "FloatingIp" -> {"portId"}
           [] kind = "Instance"   -> {"securityGroups", "tags"}
           [] OTHER               -> {}

(* The object has every field that the provider compares as the program does. *)
AsProgrammed ==
    \A f \in Tracked :
       LET wanted == checkResourceArgs(program)[f]
       IN (wanted # {} \/ f \in Cleared)
          => BareResourceID(remote[stack.id].fields[f]) = BareResourceID(wanted)

(* After an up that succeeded the object is what the program says, in every *)
(* field that the provider compares; unless an import read only some of     *)
(* what the program drops later, or an update of a server failed half-way.  *)
Applied ==
    (/\ upToDate /\ stack.id \in Live
     /\ faults \cap {"lost", "defaults", "blank"} = {}
     /\ ~ {"import", "clear"} \subseteq faults
     /\ kind = "Instance" => /\ faults \cap {"refuse", "wait"} = {}
                             /\ ~ {"slow", "strict"} \subseteq faults)
    => AsProgrammed

(* An operation that failed half-way is made good by its repetition, when *)
(* the program has changed once: a refused call, a wait that ran out of   *)
(* time and a lost answer leave nothing undone behind an up that succeeds *)
(* in the end, and no server that waits for its confirmation.             *)
Repaired ==
    (/\ upToDate /\ stack.id \in Live /\ turns <= 1
     /\ faults \cap {"defaults", "slow", "import"} = {})
    => AsProgrammed /\ remote[stack.id].status = "ready"

(* A list whose order stays the same when the scopes are taken off. *)
Uniform(v) ==
    \A n, m \in v : Position[n] < Position[m] => Position[BareOf[n]] < Position[BareOf[m]]

(* A port keeps its list bare, and Diff sorts the list of the program with *)
(* its scopes: one that is not uniform differs from itself at every up.    *)
Resorted ==
    IF kind = "Port" /\ ~Uniform(program.securityGroups) THEN {"securityGroups"} ELSE {}

(* A second up has nothing to do, after a refresh too. *)
Peaceful    == upToDate /\ faults \cap {"lost", "defaults", "clear", "blank"} = {}
Leftover == diffResponse(kind, stack.state, checkResourceArgs(program))

Settled == Peaceful => Leftover \subseteq Unsent \cup Resorted

(* The test of stringSlicesEqual says that a list is compared by its bare *)
(* IDs: one that was applied has nothing left to do.                      *)
ListsSettled == Peaceful => Leftover \subseteq Unsent

(* Between two operations every object that was made is in the stack, unless *)
(* a step that follows the POST could fail.                                  *)
NothingLeaked ==
    (/\ op.do = "idle"
     /\ faults \cap {"lost", "move", "import"} = {}
     /\ Resource[kind].follow = {} \/ faults \cap {"refuse", "wait", "gone"} = {})
    => Live \subseteq {stack.id}

(* A server that an up resized does not wait for its confirmation. *)
ResizeConfirmed ==
    (/\ upToDate /\ kind = "Instance" /\ stack.id \in Live
     /\ faults \cap {"slow", "refuse", "wait", "lost"} = {})
    => remote[stack.id].status = "ready"

(* A refresh that Nobus answered does not keep an object that is missing, *)
(* unless the read takes a blank answer for the object.                   *)
LossNoticed ==
    [][(/\ op.do = "refresh" /\ op'.do = "idle"
        /\ faults \cap {"refuse", "lost"} = {}
        /\ "blank" \notin faults \/ Calls.get # "unchecked")
       => stack'.id = None \/ stack'.id \in Live']_vars

Replaces == op.do = "idle" /\ op'.do = "replace"

(* The arguments that differ, as IDs, from those of the last up; the three *)
(* sources of a volume are compared as they are written.                   *)
Differs ==
    \E f \in DOMAIN Resource[kind].diff.replace :
       LET now == checkResourceArgs(program)[f]
       IN \/ BareResourceID(now) # BareResourceID(applied[f])
          \/ kind = "Volume" /\ f \in Resource[kind].ids /\ now # applied[f]

(* A resource is never deleted and made anew unless the program changed. *)
UnchangedIsKept ==
    [][Replaces /\ faults \cap {"import", "defaults", "blank"} = {} => Differs]_vars

(* The documents say that an object can be imported by its ID: when the *)
(* program describes it, it is not deleted and made anew.               *)
ImportedIsKept == [][Replaces => Differs]_vars

(* The user who repeats the up ends with a program that is applied; a list *)
(* of Resorted is applied anew by every up.                                *)
Converges ==
    (faults \cap {"gone", "blank", "defaults", "strict", "clear", "move", "import"} = {})
    => /\ []<>(upToDate \/ ~Check(kind, program))
       /\ <>[](upToDate \/ ~Check(kind, program) \/ Resorted # {})
=============================================================================
