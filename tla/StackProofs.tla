---------------------------- MODULE StackProofs ----------------------------
(***************************************************************************)
(* Proofs about Stack, for every kind of resource, every set of faults and *)
(* any number of objects, names, attempts, edits and failures.             *)
(***************************************************************************)
EXTENDS Stack, FiniteSetTheorems, SequenceTheorems, TLAPS

-----------------------------------------------------------------------------
(* What the tables of all kinds of resources have in common. *)
Row(k) ==
    LET r == Resource[k]
        learnt == r.created.take \cup r.created.fill \cup r.read.take \cup r.read.fill
                  \cup r.updated.take \cup r.updated.fill
    IN /\ Scope \subseteq r.args
       /\ r.calls.post \cup r.calls.put \cup learnt \cup DOMAIN r.default
             \cup DOMAIN r.diff.update \subseteq r.args \ Scope
       /\ (r.ids \cup r.normal \cup r.renormal) \cap Scope = {}
       /\ r.required \cup DOMAIN r.diff.replace \subseteq r.args
       /\ \A f \in DOMAIN r.default : r.default[f] \in SUBSET Names
       /\ "availabilityZone" \in DOMAIN r.diff.replace
       /\ r.diff.replace["availabilityZone"] = "given"
       /\ r.created.take \cap r.created.fill = {}
       /\ r.read.take \cap r.read.fill = {}
       /\ r.updated.take \cap r.updated.fill = {}
       /\ r.follow \subseteq {"wait", "tags", "get"}
       /\ "tags" \in r.follow <=> k = "Instance"
       /\ k = "Instance" => {"name", "flavor", "tags", "securityGroups", "image"} \subseteq r.args
       /\ k = "Network" => {"name", "networkName"} \subseteq r.args
       /\ k = "FloatingIp" => "portId" \in r.calls.put

LEMMA Rows == \A k \in DOMAIN Resource : Row(k)
<1> SUFFICES ASSUME NEW k \in DOMAIN Resource PROVE Row(k)
  OBVIOUS
<1>0. DefaultValue \in Names
  BY NamesAssumption
<1>1. CASE k = "KeyPair"
    BY <1>0, <1>1 DEF Row, Resource, Scope, KeyPair, Scope, NoDefault, KeyPairCalls,
     CreateKeyPairRequest, KeyPairStruct, Fill, Take, Nothing
<1>2. CASE k = "Instance"
    BY <1>0, <1>2 DEF Row, Resource, Scope, Instance, Scope, NoDefault, InstanceCalls,
     CreateInstanceRequest, InstanceStruct, Nothing, InstanceRead, Fill, InstanceDiff
<1>3. CASE k = "Volume"
    BY <1>0, <1>3 DEF Row, Resource, Scope, Volume, Scope, NoDefault, VolumeCalls,
     CreateVolumeRequest, UpdateVolumeRequest, VolumeStruct, stateFromVolume, Fill, VolumeDiff
<1>4. CASE k = "VolumeAttachment"
    BY <1>0, <1>4 DEF Row, Resource, Scope, VolumeAttachment, Scope, NoDefault, AttachmentCalls,
     AttachVolumeRequest, Nothing, Take
<1>5. CASE k = "VolumeSnapshot"
    BY <1>0, <1>5 DEF Row, Resource, Scope, VolumeSnapshot, Scope, NoDefault, SnapshotCalls,
     CreateSnapshotRequest, SnapshotStruct, stateFromSnapshot, Fill, Nothing
<1>6. CASE k = "VolumeBackup"
    BY <1>0, <1>6 DEF Row, Resource, Scope, VolumeBackup, Scope, NoDefault, BackupCalls,
     CreateBackupRequest, BackupStruct, stateFromBackup, Fill, Nothing
<1>7. CASE k = "Network"
    BY <1>0, <1>7 DEF Row, Resource, Scope, Network, Scope, NoDefault, NetworkCalls,
     CreateNetworkRequest, NetworkUpdate, NetworkStruct, enrichNetworkState, NetworkDiff
<1>8. CASE k = "Subnet"
    BY <1>0, <1>8 DEF Row, Resource, Scope, Subnet, Scope, SubnetCalls, SubnetCreate,
     SubnetUpdate, SubnetStruct, Fill, Take, Nothing
<1>9. CASE k = "Port"
    BY <1>0, <1>9 DEF Row, Resource, Scope, Port, Scope, NoDefault, PortCalls, PortCreate,
     PortUpdate, PortStruct, Nothing, Take, PortDiff
<1>10. CASE k = "Router"
    BY <1>0, <1>10 DEF Row, Resource, Scope, Router, Scope, NoDefault, RouterCalls, RouterWrite,
     RouterStruct, Nothing, Take
<1>11. CASE k = "SecurityGroup"
    BY <1>0, <1>11 DEF Row, Resource, Scope, SecurityGroup, Scope, NoDefault,
     SecurityGroupCalls, SecurityGroupWrite, SecurityGroupStruct, Nothing, Take
<1>12. CASE k = "SecurityGroupRule"
    BY <1>0, <1>12, SMTT(60) DEF Row, Resource, Scope, SecurityGroupRule, SecurityGroupRuleCreate, Scope,
     SecurityGroupRuleCalls, SecurityGroupRuleStruct, Nothing, Take, NoDefault
<1>13. CASE k = "FloatingIp"
    BY <1>0, <1>13 DEF Row, Resource, Scope, FloatingIp, FloatingIPCreate, Scope, NoDefault,
     FloatingIPCalls, FloatingIPUpdate, FloatingIPStruct, Take
<1> QED  BY <1>1, <1>2, <1>3, <1>4, <1>5, <1>6, <1>7, <1>8, <1>9, <1>10, <1>11, <1>12, <1>13 DEF Resource

Kinded == DOMAIN Resource

ArgsOf(k) == Resource[k].args

FieldsOf(k) == [ArgsOf(k) -> SUBSET Names]

-----------------------------------------------------------------------------
(* What the operators of Resources make of arguments. *)
LEMMA BareNames == \A v \in SUBSET Names : BareResourceID(v) \in SUBSET Names
BY NamesAssumption DEF BareResourceID

LEMMA BareOfBare == \A v \in SUBSET Names : BareResourceID(BareResourceID(v)) = BareResourceID(v)
BY NamesAssumption DEF BareResourceID

LEMMA BareOfBlank == \A v : BareResourceID(v) = {} <=> v = {}
BY DEF BareResourceID

LEMMA BareOnlyIs ==
    ASSUME NEW A, NEW args \in [A -> SUBSET Names], NEW F
    PROVE  /\ BareOnly(args, F) \in [A -> SUBSET Names]
           /\ \A f \in A : BareOnly(args, F)[f] = IF f \in F THEN BareResourceID(args[f]) ELSE args[f]
BY BareNames DEF BareOnly

LEMMA CheckedIs ==
    ASSUME NEW A, Scope \subseteq A, NEW args \in [A -> SUBSET Names]
    PROVE  /\ checkResourceArgs(args) \in [A -> SUBSET Names]
           /\ \A f \in A \ Scope : checkResourceArgs(args)[f] = args[f]
           /\ checkResourceArgs(args)["availabilityZone"] = Or(args["availabilityZone"], DefaultZone)
           /\ checkResourceArgs(args)["projectId"] = Or(args["projectId"], DefaultProject)
<1> DEFINE zone == Or(args["availabilityZone"], DefaultZone)
           project == Or(args["projectId"], DefaultProject)
<1>1. zone \in SUBSET Names /\ project \in SUBSET Names
  BY NamesAssumption DEF Or, Scope
<1>2. checkResourceArgs(args) = [args EXCEPT !["availabilityZone"] = zone, !["projectId"] = project]
  BY DEF checkResourceArgs
<1> HIDE DEF zone, project
<1>3. checkResourceArgs(args) \in [A -> SUBSET Names]
  BY <1>1, <1>2
<1>4. \A f \in A \ Scope : checkResourceArgs(args)[f] = args[f]
  BY <1>2 DEF Scope
<1>5. checkResourceArgs(args)["availabilityZone"] = zone /\ checkResourceArgs(args)["projectId"] = project
  BY <1>2 DEF Scope
<1> QED  BY <1>3, <1>4, <1>5 DEF zone, project

LEMMA KeptIs ==
    ASSUME NEW k \in Kinded, NEW args \in FieldsOf(k)
    PROVE  /\ Kept(k, args) \in FieldsOf(k)
           /\ \A f \in ArgsOf(k) :
                LET given == IF f \in DOMAIN Resource[k].default
                               THEN Or(args[f], Resource[k].default[f]) ELSE args[f]
                IN Kept(k, args)[f] = IF f \in Resource[k].normal THEN BareResourceID(given) ELSE given
<1> DEFINE d == Resource[k].default
           filled == [f \in DOMAIN args |-> IF f \in DOMAIN d THEN Or(args[f], d[f]) ELSE args[f]]
<1>1. \A f \in DOMAIN d : d[f] \in SUBSET Names
  BY Rows DEF Row, Kinded
<1> HIDE DEF d
<1>2. filled \in FieldsOf(k)
  BY <1>1 DEF FieldsOf, Or
<1>3. Kept(k, args) = BareOnly(filled, Resource[k].normal)
  BY DEF Kept, d
<1>4. \A f \in ArgsOf(k) : filled[f] = IF f \in DOMAIN d THEN Or(args[f], d[f]) ELSE args[f]
  BY DEF FieldsOf
<1> HIDE DEF filled
<1> QED  BY <1>2, <1>3, <1>4, BareOnlyIs DEF FieldsOf, d

LEMMA PostIs ==
    ASSUME NEW k \in Kinded, NEW args \in FieldsOf(k)
    PROVE  /\ Post(k, args) \in [Resource[k].calls.post \cup Scope -> SUBSET Names]
           /\ Resource[k].calls.post \cup Scope \subseteq ArgsOf(k)
           /\ \A f \in Resource[k].calls.post :
                Post(k, args)[f] = IF f \in Resource[k].ids THEN BareResourceID(Kept(k, args)[f])
                                                            ELSE Kept(k, args)[f]
           /\ \A f \in Scope : Post(k, args)[f] = args[f]
<1> DEFINE kept == BareOnly(Kept(k, args), Resource[k].ids)
           P == Resource[k].calls.post \cup Scope
<1>1. Row(k)
  BY Rows DEF Kinded
<1>2. P \subseteq ArgsOf(k) /\ Scope \cap Resource[k].calls.post = {}
  BY <1>1 DEF Row, ArgsOf
<1>3. Kept(k, args) \in FieldsOf(k)
  BY KeptIs
<1>4. /\ kept \in [ArgsOf(k) -> SUBSET Names]
      /\ \A f \in ArgsOf(k) : kept[f] = IF f \in Resource[k].ids THEN BareResourceID(Kept(k, args)[f])
                                                                ELSE Kept(k, args)[f]
  BY <1>3, BareOnlyIs DEF FieldsOf
<1>5. Post(k, args) = [f \in P |-> kept[f]]
  BY DEF Post
<1>6. \A f \in Scope : Kept(k, args)[f] = args[f] /\ f \notin Resource[k].ids
  <2>1. \A f \in Scope : f \in ArgsOf(k) /\ f \notin DOMAIN Resource[k].default
                         /\ f \notin Resource[k].normal /\ f \notin Resource[k].ids
    BY <1>1 DEF Row, ArgsOf
  <2> QED  BY <2>1, KeptIs
<1> HIDE DEF kept
<1> QED  BY <1>2, <1>4, <1>5, <1>6

LEMMA RenewedIs ==
    ASSUME NEW k \in Kinded, NEW args \in FieldsOf(k)
    PROVE  /\ Renewed(k, args) \in FieldsOf(k)
           /\ \A f \in ArgsOf(k) : Renewed(k, args)[f] = IF f \in Resource[k].renormal
                                     THEN BareResourceID(args[f]) ELSE args[f]
BY BareOnlyIs DEF Renewed, FieldsOf

LEMMA PutIs ==
    ASSUME NEW k \in Kinded, NEW olds \in FieldsOf(k), NEW news \in FieldsOf(k)
    PROVE  /\ DOMAIN Put(k, olds, news) \subseteq Resource[k].calls.put
           /\ DOMAIN Put(k, olds, news) \subseteq ArgsOf(k) \ Scope
           /\ Put(k, olds, news) \in [DOMAIN Put(k, olds, news) -> SUBSET Names]
           /\ \A f \in DOMAIN Put(k, olds, news) :
                Put(k, olds, news)[f] = IF f \in Resource[k].ids THEN BareResourceID(news[f]) ELSE news[f]
           /\ \A f \in Resource[k].calls.put : k # "FloatingIp" \/ f # "portId" =>
                (f \in DOMAIN Put(k, olds, news) <=> news[f] # {})
           /\ k = "FloatingIp" =>
                ("portId" \in DOMAIN Put(k, olds, news)
                    <=> BareResourceID(olds["portId"]) # BareResourceID(news["portId"]))
<1> DEFINE P == Resource[k].calls.put
           given == {f \in P : news[f] # {}}
           port == IF BareResourceID(olds["portId"]) # BareResourceID(news["portId"])
                     THEN {"portId"} ELSE {}
           D == IF k = "FloatingIp" THEN (given \ {"portId"}) \cup port ELSE given
           bare == BareOnly(news, Resource[k].ids)
<1>1. Put(k, olds, news) = [f \in D |-> bare[f]]
  BY DEF Put
<1>2. Row(k)
  BY Rows DEF Kinded
<1>3. P \subseteq ArgsOf(k) \ Scope /\ (k = "FloatingIp" => "portId" \in P)
  BY <1>2 DEF Row, ArgsOf
<1>4. D \subseteq P
  BY <1>3
<1>5. bare \in [ArgsOf(k) -> SUBSET Names]
      /\ \A f \in ArgsOf(k) : bare[f] = IF f \in Resource[k].ids THEN BareResourceID(news[f]) ELSE news[f]
  BY BareOnlyIs DEF FieldsOf
<1>6. /\ \A f \in P : k # "FloatingIp" \/ f # "portId" => (f \in D <=> news[f] # {})
      /\ k = "FloatingIp" => ("portId" \in D
                                <=> BareResourceID(olds["portId"]) # BareResourceID(news["portId"]))
  BY <1>3
<1> HIDE DEF D, bare, P
<1> QED  BY <1>1, <1>3, <1>4, <1>5, <1>6 DEF P

LEMMA LearnIs ==
    ASSUME NEW A, NEW args \in [A -> SUBSET Names], NEW reply \in [A -> SUBSET Names],
           NEW rule, rule.take \cap rule.fill = {}
    PROVE  /\ Learn(args, rule, reply) \in [A -> SUBSET Names]
           /\ \A f \in A : Learn(args, rule, reply)[f] =
                IF f \in rule.take THEN reply[f]
                ELSE IF f \in rule.fill THEN (IF args[f] # {} THEN args[f] ELSE reply[f])
                ELSE args[f]
<1> DEFINE learnt(f) == IF f \in rule.take THEN reply[f]
                        ELSE IF f \in rule.fill THEN (IF args[f] # {} THEN args[f] ELSE reply[f])
                        ELSE args[f]
<1>1. ASSUME NEW f \in A
      PROVE  /\ learnt(f) \in SUBSET Names
             /\ (CASE f \in rule.take -> reply[f]
                   [] f \in rule.fill -> Or(args[f], reply[f])
                   [] OTHER           -> args[f]) = learnt(f)
  BY DEF Or
<1> QED  BY <1>1 DEF Learn

-----------------------------------------------------------------------------
(* The shape of the state. *)
Dos       == {"idle", "create", "update", "replace", "destroy", "refresh", "import"}
Statuses  == {"none", "ready", "resizing", "verify"}
CallNames == {"post", "delete", "put", "rename", "tags", "resize", "resized", "verify", "confirm",
              "wait", "remove", "attach", "get"}

BodiesOf(k) == UNION {[D -> SUBSET Names] : D \in SUBSET ArgsOf(k)}
CallsOf(k)  == [name : CallNames, body : BodiesOf(k)]
ObjectOfKind(k) == [status : Statuses, fields : FieldsOf(k)]

Types ==
    /\ kind \in Kinds /\ faults \in Environments
    /\ program \in FieldsOf(kind) /\ applied \in FieldsOf(kind)
    /\ stack \in [id : Objects \cup {None, Blank}, state : FieldsOf(kind)]
    /\ remote \in [Objects -> ObjectOfKind(kind)]
    /\ op \in [do : Dos, calls : Seq(CallsOf(kind)), attempt : 1..MaxAttempts,
               news : FieldsOf(kind), made : Objects \cup {None}]
    /\ upToDate \in BOOLEAN /\ turns \in 0..MaxTurns /\ trouble \in 0..MaxTrouble

(* What Create does after its POST, and what Update does. *)
Following(k, news) ==
    {c \in CallsOf(k) :
        \/ c.name \in {"wait", "get"} \cap Resource[k].follow
        \/ c.name = "tags" /\ k = "Instance" /\ c.body = [tags |-> news.tags]}

Updating(k, olds, news) ==
    {c \in CallsOf(k) :
        IF k = "Instance"
          THEN \/ c.name \in {"resized", "verify", "confirm", "wait", "get"}
               \/ c.name = "rename" /\ c.body = [name |-> news.name]
               \/ c.name = "resize" /\ c.body = [flavor |-> BareResourceID(news.flavor)]
               \/ c.name \in {"remove", "attach"} /\ DOMAIN c.body = {"securityGroups"}
               \/ c.name = "tags" /\ c.body = [tags |-> news.tags]
          ELSE c.name = "put" /\ c.body = Put(k, olds, news)}

(* What is left to do of the operation that runs. *)
Creating ==
    op.do = "create" =>
        /\ stack.id = None
        /\ op.made # None => op.calls \in Seq(Following(kind, op.news))
        /\ op.made = None => /\ Head(op.calls) = Call("post", Post(kind, op.news))
                             /\ Tail(op.calls) \in Seq(Following(kind, op.news))

Renewing ==
    op.do = "update" =>
        /\ stack.id # None
        /\ op.calls \in Seq(Updating(kind, stack.state, op.news))
        /\ replaceDiff(kind, stack.state, op.news) = {}

Single ==
    /\ op.do \in {"replace", "destroy"} => op.calls = <<Plain("delete")>>
    /\ op.do \in {"refresh", "import"} => op.calls = <<Plain("get")>>
    /\ op.do \in {"replace", "destroy", "refresh", "import"} => stack.id # None

(* The arguments of an up are those that Check made of the program. *)
Checked == op.do \in {"create", "update", "replace"} => op.news = checkResourceArgs(program)

Resting ==
    /\ (op.do = "idle") = (op.calls = <<>>)
    /\ upToDate => /\ stack.id # None /\ op.do \in {"idle", "refresh"}
                   /\ applied = checkResourceArgs(program)

Shape == Types /\ Creating /\ Renewing /\ Single /\ Checked /\ Resting

LEMMA OfKind ==
    ASSUME kind \in Kinds
    PROVE  /\ kind \in Kinded /\ Row(kind)
           /\ Args = ArgsOf(kind) /\ [Args -> SUBSET Names] = FieldsOf(kind)
           /\ NoArgs \in FieldsOf(kind)
           /\ Idle \in [do : Dos, calls : Seq(CallsOf(kind)), attempt : 1..MaxAttempts,
                        news : FieldsOf(kind), made : Objects \cup {None}]
           /\ NoStack \in [id : Objects \cup {None, Blank}, state : FieldsOf(kind)]
           /\ NoObject \in ObjectOfKind(kind)
<1>1. kind \in Kinded /\ Row(kind)
  BY Rows, StackAssumption DEF Kinded
<1>2. Args = ArgsOf(kind) /\ [Args -> SUBSET Names] = FieldsOf(kind)
  BY DEF Args, ArgsOf, FieldsOf
<1>3. NoArgs \in FieldsOf(kind)
  BY <1>2 DEF NoArgs
<1>4. <<>> \in Seq(CallsOf(kind)) /\ 1 \in 1..MaxAttempts
  BY EmptySeq, MaxAttemptsAssumption
<1>5. Idle \in [do : Dos, calls : Seq(CallsOf(kind)), attempt : 1..MaxAttempts,
                news : FieldsOf(kind), made : Objects \cup {None}]
  BY <1>3, <1>4 DEF Idle, Dos
<1> QED  BY <1>1, <1>2, <1>3, <1>5 DEF NoStack, NoObject, ObjectOfKind, Statuses

LEMMA KindIs ==
    ASSUME Types
    PROVE  /\ kind \in Kinded /\ Row(kind)
           /\ Args = ArgsOf(kind) /\ [Args -> SUBSET Names] = FieldsOf(kind)
           /\ NoArgs \in FieldsOf(kind)
           /\ Idle \in [do : Dos, calls : Seq(CallsOf(kind)), attempt : 1..MaxAttempts,
                        news : FieldsOf(kind), made : Objects \cup {None}]
           /\ NoStack \in [id : Objects \cup {None, Blank}, state : FieldsOf(kind)]
           /\ NoObject \in ObjectOfKind(kind)
BY OfKind DEF Types

(* The calls. *)
LEMMA CallIn ==
    ASSUME NEW k, NEW D \in SUBSET ArgsOf(k), NEW b \in [D -> SUBSET Names], NEW n \in CallNames
    PROVE  Call(n, b) \in CallsOf(k) /\ Call(n, b).name = n /\ Call(n, b).body = b
BY DEF Call, CallsOf, BodiesOf

LEMMA PlainIn ==
    ASSUME NEW k, NEW n \in CallNames
    PROVE  Plain(n) \in CallsOf(k) /\ Plain(n).name = n
<1>1. NoDefault \in [{} -> SUBSET Names] /\ {} \in SUBSET ArgsOf(k)
  BY DEF NoDefault
<1> QED  BY <1>1, CallIn DEF Plain

LEMMA BodyIs ==
    ASSUME NEW k, NEW c \in CallsOf(k)
    PROVE  /\ DOMAIN c.body \subseteq ArgsOf(k)
           /\ \A f \in DOMAIN c.body : c.body[f] \in SUBSET Names
BY DEF CallsOf, BodiesOf

LEMMA OneIn == ASSUME NEW S, NEW c \in S, NEW b PROVE One(b, c) \in Seq(S)
BY DEF One

LEMMA OneBlank == ASSUME NEW c, NEW b, ~b PROVE One(b, c) = <<>>
BY DEF One

LEMMA Joined ==
    ASSUME NEW S, NEW s \in Seq(S), NEW t \in Seq(S)
    PROVE  s \o t \in Seq(S)
BY ConcatProperties

LEMMA ListIs ==
    ASSUME NEW S, IsFiniteSet(S)
    PROVE  /\ SetToSeq(S) \in Seq(S)
           /\ Len(SetToSeq(S)) = Cardinality(S)
<1>1. Cardinality(S) \in Nat /\ ExistsBijection(1..Cardinality(S), S)
  BY FS_CardinalityType
<1>2. \E f \in [1..Cardinality(S) -> S] : IsInjective(f)
  BY <1>1 DEF ExistsBijection, Bijection, Injection, IsInjective
<1>3. SetToSeq(S) \in [1..Cardinality(S) -> S]
  BY <1>2 DEF SetToSeq
<1> QED  BY <1>1, <1>3

LEMMA EachIn ==
    ASSUME NEW groups, IsFiniteSet(groups), NEW n, NEW S,
           \A g \in groups : Call(n, [securityGroups |-> {g}]) \in S
    PROVE  Each(n, groups) \in Seq(S)
<1> DEFINE names == SetToSeq(groups)
<1>1. names \in Seq(groups) /\ Len(names) \in Nat
  BY ListIs
<1>2. \A i \in 1..Len(names) : names[i] \in groups
  BY <1>1
<1> HIDE DEF names
<1>3. \A i \in 1..Len(names) : Call(n, [securityGroups |-> {names[i]}]) \in S
  BY <1>2
<1>4. [i \in 1..Len(names) |-> Call(n, [securityGroups |-> {names[i]}])] \in Seq(S)
  BY <1>1, <1>3
<1> QED  BY <1>4 DEF Each, names

LEMMA Behind ==
    ASSUME NEW S, NEW c \in S, NEW T, NEW s \in Seq(T)
    PROVE  /\ Head(<<c>> \o s) = c /\ Tail(<<c>> \o s) = s
           /\ <<c>> \o s # <<>>
<1> DEFINE U == S \cup T
<1>1. <<c>> \in Seq(U) /\ s \in Seq(U) /\ Len(<<c>>) = 1 /\ Len(s) \in Nat /\ <<c>>[1] = c
  OBVIOUS
<1>2. /\ <<c>> \o s \in Seq(U)
      /\ Len(<<c>> \o s) = 1 + Len(s)
      /\ \A i \in 1..(1 + Len(s)) : (<<c>> \o s)[i] = IF i <= 1 THEN <<c>>[i] ELSE s[i - 1]
  BY <1>1, ConcatProperties
<1> DEFINE w == <<c>> \o s
<1> HIDE DEF w, U
<1>3. w \in Seq(U) /\ Len(w) = 1 + Len(s) /\ w[1] = c /\ \A i \in 1..Len(s) : w[i + 1] = s[i]
  BY <1>1, <1>2 DEF w
<1>4. w # <<>>
  BY <1>1, <1>3
<1>5. Tail(w) \in Seq(U) /\ Len(Tail(w)) = Len(s) /\ \A i \in 1..Len(Tail(w)) : Tail(w)[i] = w[i+1]
  BY <1>1, <1>3, <1>4, HeadTailProperties
<1>6. Tail(w) = s
  BY <1>1, <1>3, <1>5, SeqEqual
<1>7. Head(w) = c
  BY <1>3, <1>4
<1> QED  BY <1>4, <1>6, <1>7 DEF w

LEMMA Alone == \A x : Head(<<x>>) = x /\ Tail(<<x>>) = <<>>
OBVIOUS

LEMMA CreateIs ==
    ASSUME Types, NEW news \in FieldsOf(kind)
    PROVE  /\ Create(news) \in Seq(CallsOf(kind)) /\ Create(news) # <<>>
           /\ Head(Create(news)) = Call("post", Post(kind, news))
           /\ Call("post", Post(kind, news)) \in CallsOf(kind)
           /\ Tail(Create(news)) \in Seq(Following(kind, news))
           /\ Resource[kind].follow = {} => Tail(Create(news)) = <<>>
<1> DEFINE follow == Resource[kind].follow
           F == Following(kind, news)
           p == Call("post", Post(kind, news))
           w == One("wait" \in follow, Plain("wait"))
           t == One("tags" \in follow /\ news.tags # {}, Call("tags", [tags |-> news.tags]))
           g == One("get" \in follow, Plain("get"))
<1>1. kind \in Kinded /\ Row(kind)
  BY KindIs
<1>2. p \in CallsOf(kind)
  BY <1>1, PostIs, CallIn DEF CallNames
<1>3. w \in Seq(F)
  <2>1. CASE "wait" \in follow
    <3>1. Plain("wait") \in F
      BY <2>1, PlainIn DEF Following, CallNames
    <3> QED  BY <3>1, OneIn
  <2>2. CASE ~("wait" \in follow)
    BY <2>2, EmptySeq DEF One
  <2> QED  BY <2>1, <2>2
<1>4. t \in Seq(F)
  <2>1. CASE "tags" \in follow
    <3>1. kind = "Instance" /\ "tags" \in ArgsOf(kind)
      BY <1>1, <2>1 DEF Row, ArgsOf
    <3>2. [tags |-> news.tags] \in [{"tags"} -> SUBSET Names] /\ {"tags"} \in SUBSET ArgsOf(kind)
      BY <3>1 DEF FieldsOf
    <3>3. Call("tags", [tags |-> news.tags]) \in F
      BY <3>1, <3>2, CallIn DEF Following, CallNames
    <3> QED  BY <3>3, OneIn
  <2>2. CASE ~("tags" \in follow)
    BY <2>2, EmptySeq DEF One
  <2> QED  BY <2>1, <2>2
<1>5. g \in Seq(F)
  <2>1. CASE "get" \in follow
    <3>1. Plain("get") \in F
      BY <2>1, PlainIn DEF Following, CallNames
    <3> QED  BY <3>1, OneIn
  <2>2. CASE ~("get" \in follow)
    BY <2>2, EmptySeq DEF One
  <2> QED  BY <2>1, <2>2
<1>6. Create(news) = <<p>> \o w \o t \o g
  BY DEF Create
<1>7. follow = {} => w = <<>> /\ t = <<>> /\ g = <<>>
  BY DEF One
<1>8. F \subseteq CallsOf(kind)
  BY DEF Following
<1> HIDE DEF F, p, w, t, g, follow
<1>9. w \o t \in Seq(F) /\ (w \o t) \o g \in Seq(F)
  BY <1>3, <1>4, <1>5, Joined
<1>10. <<p>> \o w \o t \o g = <<p>> \o ((w \o t) \o g)
  <2> DEFINE U == {p} \cup F
  <2>1. <<p>> \in Seq(U) /\ w \in Seq(U) /\ t \in Seq(U) /\ g \in Seq(U) /\ w \o t \in Seq(U)
    BY <1>3, <1>4, <1>5, <1>9
  <2> HIDE DEF U
  <2>2. (<<p>> \o w) \o t = <<p>> \o (w \o t)
    BY <2>1, ConcatAssociative
  <2>3. (<<p>> \o (w \o t)) \o g = <<p>> \o ((w \o t) \o g)
    BY <2>1, ConcatAssociative
  <2> QED  BY <2>2, <2>3
<1> DEFINE rest == (w \o t) \o g
<1>11. follow = {} => rest = <<>>
  BY <1>7
<1> HIDE DEF rest
<1>12. Create(news) = <<p>> \o rest /\ rest \in Seq(F)
  BY <1>6, <1>9, <1>10 DEF rest
<1>13. Head(Create(news)) = p /\ Tail(Create(news)) = rest /\ Create(news) # <<>>
  BY <1>12, Behind
<1>14. Create(news) \in Seq(CallsOf(kind))
  <2>1. <<p>> \in Seq(CallsOf(kind)) /\ rest \in Seq(CallsOf(kind))
    BY <1>2, <1>8, <1>12
  <2> QED  BY <1>12, <2>1, Joined
<1> QED  BY <1>2, <1>11, <1>12, <1>13, <1>14 DEF p, F, follow

LEMMA PartsIn ==
    ASSUME Types, kind = "Instance", NEW olds \in FieldsOf(kind), NEW news \in FieldsOf(kind)
    PROVE  LET groups == sliceDiff(olds.securityGroups, news.securityGroups)
               renamed == Changed("given", olds.name, news.name)
               resized == Changed("givenId", olds.flavor, news.flavor)
               tagged  == Changed("alwaysList", olds.tags, news.tags)
               U == Updating(kind, olds, news)
           IN /\ One(renamed, Call("rename", [name |-> news.name])) \in Seq(U)
              /\ One(resized, Call("resize", [flavor |-> BareResourceID(news.flavor)])) \in Seq(U)
              /\ One(resized, Plain("resized")) \in Seq(U)
              /\ One(resized, Plain("verify")) \in Seq(U)
              /\ Each("remove", groups.remove) \in Seq(U)
              /\ Each("attach", groups.add) \in Seq(U)
              /\ One(tagged, Call("tags", [tags |-> news.tags])) \in Seq(U)
              /\ <<Plain("get")>> \in Seq(U)
<1> DEFINE groups == sliceDiff(olds.securityGroups, news.securityGroups)
           renamed == Changed("given", olds.name, news.name)
           resized == Changed("givenId", olds.flavor, news.flavor)
           tagged  == Changed("alwaysList", olds.tags, news.tags)
           U == Updating(kind, olds, news)
           a == One(renamed, Call("rename", [name |-> news.name]))
           b == One(resized, Call("resize", [flavor |-> BareResourceID(news.flavor)]))
           c == One(resized, Plain("resized"))
           d == One(resized, Plain("verify"))
           e == Each("remove", groups.remove)
           f == Each("attach", groups.add)
           g == One(tagged, Call("tags", [tags |-> news.tags]))
           h == <<Plain("get")>>
<1>1. {"name", "flavor", "tags", "securityGroups"} \subseteq ArgsOf(kind)
  BY KindIs DEF Row, ArgsOf
<1>2. news.name \in SUBSET Names /\ news.tags \in SUBSET Names /\ news.flavor \in SUBSET Names
      /\ news.securityGroups \in SUBSET Names /\ olds.securityGroups \in SUBSET Names
  BY <1>1 DEF FieldsOf
<1>3. a \in Seq(U)
  <2>1. Call("rename", [name |-> news.name]) \in U
    <3>1. [name |-> news.name] \in [{"name"} -> SUBSET Names] /\ {"name"} \in SUBSET ArgsOf(kind)
      BY <1>1, <1>2
    <3> QED  BY <3>1, CallIn DEF Updating, CallNames
  <2> QED  BY <2>1, OneIn
<1>4. b \in Seq(U)
  <2>1. Call("resize", [flavor |-> BareResourceID(news.flavor)]) \in U
    <3>1. BareResourceID(news.flavor) \in SUBSET Names
      BY <1>2, BareNames
    <3>2. [flavor |-> BareResourceID(news.flavor)] \in [{"flavor"} -> SUBSET Names]
          /\ {"flavor"} \in SUBSET ArgsOf(kind)
      BY <1>1, <3>1
    <3> QED  BY <3>2, CallIn DEF Updating, CallNames
  <2> QED  BY <2>1, OneIn
<1>5. c \in Seq(U) /\ d \in Seq(U) /\ h \in Seq(U)
  <2>1. Plain("resized") \in U /\ Plain("verify") \in U /\ Plain("get") \in U
    BY PlainIn DEF Updating, CallNames
  <2> QED  BY <2>1, OneIn
<1>6. e \in Seq(U) /\ f \in Seq(U)
  <2>1. ASSUME NEW n \in {"remove", "attach"}, NEW S \in SUBSET Names
        PROVE  Each(n, S) \in Seq(U)
    <3>1. ASSUME NEW x \in S PROVE Call(n, [securityGroups |-> {x}]) \in U
      <4>1. [securityGroups |-> {x}] \in [{"securityGroups"} -> SUBSET Names]
            /\ {"securityGroups"} \in SUBSET ArgsOf(kind)
        BY <1>1
      <4> QED  BY <4>1, CallIn DEF Updating, CallNames
    <3>2. IsFiniteSet(S)
      BY FS_Subset, NamesAssumption
    <3> QED  BY <3>1, <3>2, EachIn
  <2>2. groups.remove \in SUBSET Names /\ groups.add \in SUBSET Names
    BY <1>2, BareNames DEF sliceDiff
  <2> QED  BY <2>1, <2>2
<1>7. g \in Seq(U)
  <2>1. Call("tags", [tags |-> news.tags]) \in U
    <3>1. [tags |-> news.tags] \in [{"tags"} -> SUBSET Names] /\ {"tags"} \in SUBSET ArgsOf(kind)
      BY <1>1, <1>2
    <3> QED  BY <3>1, CallIn DEF Updating, CallNames
  <2> QED  BY <2>1, OneIn
<1> QED  BY <1>3, <1>4, <1>5, <1>6, <1>7

LEMMA InstanceUpdateIs ==
    ASSUME Types, kind = "Instance", NEW olds \in FieldsOf(kind), NEW news \in FieldsOf(kind)
    PROVE  /\ InstanceUpdate(olds, news) \in Seq(Updating(kind, olds, news))
           /\ InstanceUpdate(olds, news) # <<>>
<1> DEFINE groups == sliceDiff(olds.securityGroups, news.securityGroups)
           renamed == Changed("given", olds.name, news.name)
           resized == Changed("givenId", olds.flavor, news.flavor)
           tagged  == Changed("alwaysList", olds.tags, news.tags)
           U == Updating(kind, olds, news)
           a == One(renamed, Call("rename", [name |-> news.name]))
           b == One(resized, Call("resize", [flavor |-> BareResourceID(news.flavor)]))
           c == One(resized, Plain("resized"))
           d == One(resized, Plain("verify"))
           e == Each("remove", groups.remove)
           f == Each("attach", groups.add)
           g == One(tagged, Call("tags", [tags |-> news.tags]))
           h == <<Plain("get")>>
<1>1. /\ a \in Seq(U) /\ b \in Seq(U) /\ c \in Seq(U) /\ d \in Seq(U)
      /\ e \in Seq(U) /\ f \in Seq(U) /\ g \in Seq(U) /\ h \in Seq(U)
  BY PartsIn
<1>2. InstanceUpdate(olds, news) = a \o b \o c \o d \o e \o f \o g \o h
  BY DEF InstanceUpdate
<1>3. h # <<>>
  OBVIOUS
<1> HIDE DEF U, a, b, c, d, e, f, g, h
<1> DEFINE front == a \o b \o c \o d \o e \o f \o g
<1>4. front \in Seq(U)
  BY <1>1, Joined
<1> HIDE DEF front
<1>5. front \o h \in Seq(U) /\ front \o h # <<>>
  BY <1>1, <1>3, <1>4, Joined, ConcatEqualIffEmpty
<1> QED  BY <1>2, <1>5 DEF front, U

LEMMA UpdateIs ==
    ASSUME Types, NEW olds \in FieldsOf(kind), NEW news \in FieldsOf(kind)
    PROVE  Update(olds, news) \in Seq(Updating(kind, olds, news))
<1>1. CASE kind = "Instance"
  BY <1>1, InstanceUpdateIs DEF Update
<1>2. CASE kind # "Instance"
  <2> DEFINE body == Put(kind, olds, news)
             c == Call("put", body)
  <2>1. kind \in Kinded
    BY KindIs
  <2>2. body \in [DOMAIN body -> SUBSET Names] /\ DOMAIN body \in SUBSET ArgsOf(kind)
    BY <2>1, PutIs
  <2>3. c \in Updating(kind, olds, news)
    BY <1>2, <2>2, CallIn DEF Updating, CallNames
  <2>4. Update(olds, news) = One(kind = "Volume" \/ DOMAIN body # {}, c)
    BY <1>2 DEF Update
  <2> HIDE DEF c
  <2> QED  BY <2>3, <2>4, OneIn
<1> QED  BY <1>1, <1>2

-----------------------------------------------------------------------------
(* Updates of the objects, written with one EXCEPT. *)
Become(a, s, f)    == [remote EXCEPT ![a] = [status |-> s, fields |-> f]]
SetFields(a, f)    == [remote EXCEPT ![a].fields = f]
SetStatus(a, s)    == [remote EXCEPT ![a].status = s]
SetField(a, g, v)  == [remote EXCEPT ![a].fields[g] = v]

LEMMA SetFieldsIs ==
    ASSUME Types, NEW a \in Objects, NEW b
    PROVE  SetFields(a, b) = Become(a, remote[a].status, b)
<1> DEFINE T == [Objects -> [status : Statuses, fields : FieldsOf(kind) \cup {b}]]
           new == [remote EXCEPT ![a] = [status |-> remote[a].status, fields |-> b]]
<1>0. remote \in [Objects -> [status : Statuses, fields : FieldsOf(kind)]]
  BY DEF Types, ObjectOfKind
<1>1. [remote EXCEPT ![a].fields = b] \in T
  BY <1>0
<1>2. new \in T
  BY <1>0
<1>3. ASSUME NEW o \in Objects PROVE [remote EXCEPT ![a].fields = b][o] = new[o]
  BY <1>0
<1> QED  BY <1>1, <1>2, <1>3 DEF SetFields, Become

LEMMA SetStatusIs ==
    ASSUME Types, NEW a \in Objects, NEW b
    PROVE  SetStatus(a, b) = Become(a, b, remote[a].fields)
<1> DEFINE T == [Objects -> [status : Statuses \cup {b}, fields : FieldsOf(kind)]]
           new == [remote EXCEPT ![a] = [status |-> b, fields |-> remote[a].fields]]
<1>0. remote \in [Objects -> [status : Statuses, fields : FieldsOf(kind)]]
  BY DEF Types, ObjectOfKind
<1>1. [remote EXCEPT ![a].status = b] \in T
  BY <1>0
<1>2. new \in T
  BY <1>0
<1>3. ASSUME NEW o \in Objects PROVE [remote EXCEPT ![a].status = b][o] = new[o]
  BY <1>0
<1> QED  BY <1>1, <1>2, <1>3 DEF SetStatus, Become

LEMMA SetFieldIs ==
    ASSUME Types, NEW a \in Objects, NEW b, NEW g
    PROVE  SetField(a, g, b) = Become(a, remote[a].status, [remote[a].fields EXCEPT ![g] = b])
<1> DEFINE V == SUBSET Names
           T == [Objects -> [status : Statuses, fields : [ArgsOf(kind) -> V \cup {b}]]]
           new == [remote EXCEPT ![a] = [status |-> remote[a].status,
                                         fields |-> [remote[a].fields EXCEPT ![g] = b]]]
<1>0. remote \in [Objects -> [status : Statuses, fields : [ArgsOf(kind) -> V]]]
  BY DEF Types, ObjectOfKind, FieldsOf
<1> HIDE DEF V
<1>1. [remote EXCEPT ![a].fields[g] = b] \in T
  BY <1>0
<1>2. new \in T
  BY <1>0
<1>3. ASSUME NEW o \in Objects PROVE [remote EXCEPT ![a].fields[g] = b][o] = new[o]
  BY <1>0
<1> QED  BY <1>1, <1>2, <1>3 DEF SetField, Become

LEMMA ResizeIs ==
    ASSUME Types, NEW a \in Objects, NEW b, NEW slow
    PROVE  Resize(remote[a], b, slow)
              = [status |-> IF slow THEN "resizing" ELSE "verify",
                 fields |-> [remote[a].fields EXCEPT !["flavor"] = b]]
<1>1. ASSUME NEW F, NEW V, NEW x \in [status : Statuses, fields : [F -> V]]
      PROVE  Resize(x, b, slow) = [status |-> IF slow THEN "resizing" ELSE "verify",
                                   fields |-> [x.fields EXCEPT !["flavor"] = b]]
  <2> DEFINE T == [status : Statuses, fields : [F -> V \cup {b}]]
             y == [x EXCEPT !.fields.flavor = b]
             t == IF slow THEN "resizing" ELSE "verify"
  <2>1. y \in T
    BY <1>1
  <2>2. y.status = x.status /\ y.fields = [x.fields EXCEPT !["flavor"] = b]
    BY <1>1
  <2>3. Resize(x, b, slow) = [y EXCEPT !.status = t]
    BY DEF Resize
  <2> HIDE DEF y, t
  <2>4. [y EXCEPT !.status = t] = [status |-> t, fields |-> y.fields]
    BY <2>1
  <2> QED  BY <2>2, <2>3, <2>4 DEF t
<1>2. remote[a] \in [status : Statuses, fields : [ArgsOf(kind) -> SUBSET Names]]
  BY DEF Types, ObjectOfKind, FieldsOf
<1> QED  BY <1>1, <1>2

LEMMA MergeIs ==
    ASSUME NEW A, NEW fields \in [A -> SUBSET Names], NEW body,
           \A f \in DOMAIN body : body[f] \in SUBSET Names
    PROVE  /\ Merge(fields, body) \in [A -> SUBSET Names]
           /\ \A f \in A : Merge(fields, body)[f] = IF f \in DOMAIN body THEN body[f] ELSE fields[f]
BY DEF Merge

(* The object of a POST. *)
Filled(body, f) ==
    LET given == IF f \in DOMAIN body THEN body[f] ELSE {}
    IN IF "defaults" \in faults /\ f \in {"description", "container", "gatewayIp"}
         THEN Or(given, {DefaultValue}) ELSE given

LEMMA MadeIs ==
    ASSUME kind \in Kinds, NEW body, \A f \in DOMAIN body : body[f] \in SUBSET Names
    PROVE  /\ Made(body) \in ObjectOfKind(kind) /\ Made(body).status = "ready"
           /\ \A f \in ArgsOf(kind) : Made(body).fields[f] =
                Filled(body, IF kind = "Network" /\ f = "name" THEN "networkName" ELSE f)
<1> DEFINE given == [f \in Args |-> IF f \in DOMAIN body THEN body[f] ELSE {}]
           filled == [f \in Args |->
             IF "defaults" \in faults /\ f \in {"description", "container", "gatewayIp"}
               THEN Or(given[f], {DefaultValue}) ELSE given[f]]
<1>1. Args = ArgsOf(kind) /\ Row(kind)
  BY OfKind
<1>2. Made(body) = [status |-> "ready", fields |-> NetworkName(kind, filled)]
  BY DEF Made
<1>3. \A f \in ArgsOf(kind) : given[f] \in SUBSET Names
  BY <1>1
<1>4. filled \in FieldsOf(kind)
  BY <1>1, <1>3, NamesAssumption DEF FieldsOf, Or
<1>5. \A f \in ArgsOf(kind) : filled[f] = Filled(body, f)
  BY <1>1 DEF Filled
<1> HIDE DEF filled, given
<1>6. CASE kind = "Network"
  <2>1. "name" \in ArgsOf(kind) /\ "networkName" \in ArgsOf(kind)
    BY <1>1, <1>6 DEF Row, ArgsOf
  <2> DEFINE v == filled["networkName"]
  <2>2. v \in SUBSET Names /\ v = Filled(body, "networkName")
    BY <1>4, <1>5, <2>1 DEF FieldsOf
  <2>3. NetworkName(kind, filled) = [filled EXCEPT !["name"] = v]
    BY <1>6 DEF NetworkName
  <2> HIDE DEF v
  <2>4. /\ NetworkName(kind, filled) \in FieldsOf(kind)
        /\ NetworkName(kind, filled)["name"] = v
        /\ \A f \in ArgsOf(kind) \ {"name"} : NetworkName(kind, filled)[f] = filled[f]
    BY <1>4, <2>1, <2>2, <2>3 DEF FieldsOf
  <2> QED  BY <1>2, <1>5, <1>6, <2>2, <2>4 DEF ObjectOfKind, Statuses
<1>7. CASE kind # "Network"
  <2>1. NetworkName(kind, filled) = filled
    BY <1>7 DEF NetworkName
  <2> QED  BY <1>2, <1>4, <1>5, <1>7, <2>1 DEF ObjectOfKind, Statuses
<1> QED  BY <1>6, <1>7

(* A call that is sent fits the operation it belongs to. *)
Sent(c) ==
    /\ op.do # "idle"
    /\ c \in CallsOf(kind)
    /\ c.name = "post" => op.do = "create" /\ op.made = None /\ c.body = Post(kind, op.news)
    /\ op.do = "create" /\ c.name # "post" => op.made \in Objects /\ c \in Following(kind, op.news)
    /\ op.do = "update" => c \in Updating(kind, stack.state, op.news)
    /\ c.name = "delete" <=> op.do \in {"replace", "destroy"}
    /\ op.do \in {"refresh", "import"} => c.name = "get"

LEMMA HeadIsSent ==
    ASSUME Shape, op.do # "idle"
    PROVE  Sent(Head(op.calls))
<1> DEFINE c == Head(op.calls)
<1>1. op.calls # <<>> /\ op.calls \in Seq(CallsOf(kind)) /\ op.do \in Dos /\ op.made \in Objects \cup {None}
  BY DEF Shape, Resting, Types
<1>2. c \in CallsOf(kind)
  BY <1>1
<1>3. CASE op.do = "create" /\ op.made = None
  <2>1. c = Call("post", Post(kind, op.news))
    BY <1>3 DEF Shape, Creating
  <2> QED  BY <1>2, <1>3, <2>1 DEF Sent, Call
<1>4. CASE op.do = "create" /\ op.made # None
  <2>1. c \in Following(kind, op.news)
    BY <1>1, <1>4 DEF Shape, Creating
  <2> QED  BY <1>1, <1>2, <1>4, <2>1 DEF Sent, Following
<1>5. CASE op.do = "update"
  <2>1. c \in Updating(kind, stack.state, op.news)
    BY <1>1, <1>5 DEF Shape, Renewing
  <2> QED  BY <1>2, <1>5, <2>1 DEF Sent, Updating
<1>6. CASE op.do \in {"replace", "destroy", "refresh", "import"}
  BY <1>2, <1>6 DEF Sent, Shape, Single, Plain, Call
<1> QED  BY <1>1, <1>3, <1>4, <1>5, <1>6 DEF Dos

(* The object that a call leaves, at the place it is about. *)
After(c) ==
    LET x == remote[ObjectOf(c)]
        groups == x.fields["securityGroups"]
    IN CASE c.name = "post"    -> Made(c.body)
         [] c.name = "delete"  -> NoObject
         [] c.name \in {"put", "rename", "tags"} ->
                [status |-> x.status, fields |-> Merge(x.fields, c.body)]
         [] c.name = "resize"  ->
                [status |-> IF "slow" \in faults THEN "resizing" ELSE "verify",
                 fields |-> [x.fields EXCEPT !["flavor"] = c.body["flavor"]]]
         [] c.name = "confirm" -> [status |-> "ready", fields |-> x.fields]
         [] c.name = "remove"  ->
                [status |-> x.status,
                 fields |-> [x.fields EXCEPT !["securityGroups"] = groups \ c.body["securityGroups"]]]
         [] c.name = "attach"  ->
                [status |-> x.status,
                 fields |-> [x.fields EXCEPT !["securityGroups"] = groups \cup c.body["securityGroups"]]]
         [] OTHER              -> x

LEMMA EffectIs ==
    ASSUME Types, NEW c, Sent(c), Room(c), c.name = "post" \/ Found
    PROVE  /\ ObjectOf(c) \in Objects
           /\ Effect(c) = [remote EXCEPT ![ObjectOf(c)] = After(c)]
           /\ After(c) \in ObjectOfKind(kind)
           /\ Effect(c) \in [Objects -> ObjectOfKind(kind)]
           /\ Effect(c)[ObjectOf(c)] = After(c)
           /\ \A o \in Objects \ {ObjectOf(c)} : Effect(c)[o] = remote[o]
<1> DEFINE id == ObjectOf(c)
           x == remote[id]
<1>0. c \in CallsOf(kind) /\ c.name \in CallNames
  BY DEF Sent, CallsOf
<1>1. id \in Objects
  <2>1. CASE c.name = "post"
    <3>1. Twin(c.body) \subseteq Objects
      BY DEF Twin, Live
    <3>2. New(c.body) \in Objects
      BY <2>1, <3>1 DEF Room, New
    <3> QED  BY <2>1, <3>2 DEF ObjectOf
  <2>2. CASE c.name # "post"
    BY <2>2 DEF ObjectOf, Found
  <2> QED  BY <2>1, <2>2
<1>2. c.name # "post" => Addressed = id
  BY DEF ObjectOf
<1>3. x \in ObjectOfKind(kind) /\ x.fields \in FieldsOf(kind) /\ x.status \in Statuses
  BY <1>1 DEF Types, ObjectOfKind
<1>4. remote \in [Objects -> [status : Statuses, fields : [ArgsOf(kind) -> SUBSET Names]]]
  BY DEF Types, ObjectOfKind, FieldsOf
<1>5. /\ DOMAIN c.body \subseteq ArgsOf(kind)
      /\ \A f \in DOMAIN c.body : c.body[f] \in SUBSET Names
  BY <1>0, BodyIs
<1>6. Effect(c) = [remote EXCEPT ![id] = After(c)] /\ After(c) \in ObjectOfKind(kind)
  <2> HIDE DEF id
  <2>1. CASE c.name = "post"
    <3>1. Effect(c) = [remote EXCEPT ![id] = Made(c.body)] /\ After(c) = Made(c.body)
      BY <2>1 DEF Effect, After, ObjectOf, id
    <3> QED  BY <1>5, <3>1, MadeIs DEF Types
  <2>2. CASE c.name = "delete"
    <3>1. Effect(c) = [remote EXCEPT ![id] = NoObject] /\ After(c) = NoObject
      BY <1>2, <2>2 DEF Effect, After
    <3> QED  BY <3>1, KindIs
  <2>3. CASE c.name \in {"put", "rename", "tags"}
    <3> DEFINE v == Merge(x.fields, c.body)
    <3>1. Effect(c) = [remote EXCEPT ![id].fields = Merge(@, c.body)]
      BY <1>2, <2>3 DEF Effect
    <3>2. Effect(c) = SetFields(id, v)
      BY <3>1 DEF SetFields
    <3>3. After(c) = [status |-> x.status, fields |-> v]
      BY <2>3 DEF After, id
    <3>4. v \in FieldsOf(kind)
      BY <1>3, <1>5, MergeIs DEF FieldsOf
    <3> HIDE DEF v
    <3>5. SetFields(id, v) = Become(id, x.status, v)
      BY <1>1, SetFieldsIs
    <3> QED  BY <1>3, <3>2, <3>3, <3>4, <3>5 DEF ObjectOfKind, Become
  <2>4. CASE c.name = "resize"
    <3> DEFINE b == c.body["flavor"]
    <3>1. kind = "Instance" /\ c.body = [flavor |-> BareResourceID(op.news.flavor)]
      BY <2>4 DEF Sent, Updating, Following, Types, Dos
    <3>2. "flavor" \in DOMAIN c.body /\ c.body.flavor = b
      BY <3>1
    <3>3. b \in SUBSET Names
      BY <1>5, <3>2
    <3>4. Effect(c) = [remote EXCEPT ![id] = Resize(@, b, "slow" \in faults)]
      BY <1>2, <2>4, <3>2 DEF Effect
    <3> HIDE DEF b
    <3>5. Effect(c) = [remote EXCEPT ![id] = Resize(x, b, "slow" \in faults)]
      BY <3>4
    <3>6. Resize(x, b, "slow" \in faults) =
             [status |-> IF "slow" \in faults THEN "resizing" ELSE "verify",
              fields |-> [x.fields EXCEPT !["flavor"] = b]]
      BY <1>1, ResizeIs DEF id
    <3>7. After(c) = [status |-> IF "slow" \in faults THEN "resizing" ELSE "verify",
                      fields |-> [x.fields EXCEPT !["flavor"] = b]]
      BY <2>4 DEF After, id, b
    <3>8. [x.fields EXCEPT !["flavor"] = b] \in FieldsOf(kind)
      BY <1>3, <3>3 DEF FieldsOf
    <3>9. After(c) \in ObjectOfKind(kind)
      BY <3>7, <3>8 DEF ObjectOfKind, Statuses
    <3> QED  BY <3>5, <3>6, <3>7, <3>9
  <2>5. CASE c.name = "confirm"
    <3>1. Effect(c) = SetStatus(id, "ready")
      BY <1>2, <2>5 DEF Effect, SetStatus
    <3>2. After(c) = [status |-> "ready", fields |-> x.fields]
      BY <2>5 DEF After, id
    <3>3. SetStatus(id, "ready") = Become(id, "ready", x.fields)
      BY <1>1, SetStatusIs
    <3> QED  BY <1>3, <3>1, <3>2, <3>3 DEF ObjectOfKind, Statuses, Become
  <2>6. CASE c.name \in {"remove", "attach"}
    <3> DEFINE old == x.fields["securityGroups"]
               v == IF c.name = "remove" THEN old \ c.body["securityGroups"]
                                         ELSE old \cup c.body["securityGroups"]
    <3>1. kind = "Instance" /\ DOMAIN c.body = {"securityGroups"}
      BY <2>6 DEF Sent, Updating, Following, Types, Dos
    <3>2. "securityGroups" \in ArgsOf(kind)
      BY <1>5, <3>1
    <3>3. v \in SUBSET Names
      <4>1. old \in SUBSET Names /\ c.body["securityGroups"] \in SUBSET Names
        BY <1>3, <1>5, <3>1, <3>2 DEF FieldsOf
      <4> QED  BY <4>1
    <3>4. Effect(c) = SetField(id, "securityGroups", v)
      BY <1>2, <2>6 DEF Effect, SetField
    <3>5. After(c) = [status |-> x.status, fields |-> [x.fields EXCEPT !["securityGroups"] = v]]
      BY <2>6 DEF After, id
    <3> HIDE DEF v
    <3>6. SetField(id, "securityGroups", v)
             = Become(id, x.status, [x.fields EXCEPT !["securityGroups"] = v])
      BY <1>1, SetFieldIs
    <3>7. [x.fields EXCEPT !["securityGroups"] = v] \in FieldsOf(kind)
      BY <1>3, <3>2, <3>3 DEF FieldsOf
    <3> QED  BY <1>3, <3>4, <3>5, <3>6, <3>7 DEF ObjectOfKind, Become
  <2>7. CASE c.name \in {"resized", "verify", "wait", "get"}
    <3>1. Effect(c) = remote /\ After(c) = x
      BY <2>7 DEF Effect, After, id
    <3>2. remote = [remote EXCEPT ![id] = x]
      BY <1>1, <1>4
    <3> QED  BY <1>3, <3>1, <3>2
  <2> QED  BY <1>0, <2>1, <2>2, <2>3, <2>4, <2>5, <2>6, <2>7 DEF CallNames
<1> HIDE DEF id
<1>7. After(c) \in ObjectOfKind(kind) /\ id \in Objects
  BY <1>1, <1>6
<1> DEFINE z == After(c)
<1> HIDE DEF z
<1>8. LET e == [remote EXCEPT ![id] = z]
      IN e \in [Objects -> ObjectOfKind(kind)] /\ e[id] = z /\ \A o \in Objects \ {id} : e[o] = remote[o]
  BY <1>7 DEF Types, z
<1> QED  BY <1>6, <1>7, <1>8 DEF id, z

-----------------------------------------------------------------------------
(* What can come of a call, and what the client makes of it. *)
Outcome(c, class) ==
    \/ /\ class = "ok" /\ remote' = Effect(c)
       /\ c.name = "post" \/ Found
       /\ c.name \notin Waited => ~Redone(c)
       /\ c.name \in Waited => WaitInstanceStatus(c.name)
    \/ /\ class = "blank" /\ remote' = remote
       /\ c.name = "get" /\ ~Found /\ Calls.get = "unchecked" /\ "blank" \in faults
    \/ class = "notFound" /\ remote' = remote /\ c.name # "post" /\ ~Found
    \/ class = "invalid" /\ remote' = remote /\ ("refuse" \in faults \/ Redone(c))
    \/ class = "unavailable" /\ remote' = remote /\ "refuse" \in faults
    \/ /\ class = "timeout" /\ remote' = remote
       /\ c.name \in Waited /\ Found
       /\ "wait" \in faults \/ ~WaitInstanceStatus(c.name)
    \/ /\ class \in {"unavailable", "invalid"} /\ remote' = Effect(c) /\ "lost" \in faults
       /\ c.name = "post" \/ Found
       /\ c.name \notin {"wait", "resized", "get", "verify"}

ClassOf(s)   == doOnce([status |-> s, text |-> "plain"])
ClassSaid(s) == doOnce([status |-> s, text |-> "missing"])
Garbled      == doOnce([status |-> 200, text |-> "garbled"])

LEMMA StatusIs ==
    /\ ClassOf(0) = "unavailable" /\ ClassOf(200) = "ok"
    /\ ClassOf(400) = "invalid" /\ ClassOf(409) = "invalid" /\ ClassOf(503) = "unavailable"
    /\ ClassSaid(400) = "notFound" /\ ClassSaid(404) = "notFound"
    /\ Garbled = "invalid"
<1>1. ClassOf(0) = "unavailable" /\ ClassOf(200) = "ok"
  BY DEF ClassOf, doOnce
<1>2. ClassOf(400) = "invalid" /\ ClassOf(409) = "invalid" /\ ClassOf(503) = "unavailable"
  BY DEF ClassOf, doOnce, mapHTTPError
<1>3. ClassSaid(400) = "notFound" /\ ClassSaid(404) = "notFound"
  BY DEF ClassSaid, doOnce, mapHTTPError
<1>4. Garbled = "invalid"
  BY DEF Garbled, doOnce
<1> QED  BY <1>1, <1>2, <1>3, <1>4

LEMMA ClassIs ==
    ASSUME NEW c, NEW class \in Classes(c)
    PROVE  \/ /\ class = "ok" /\ (c.name = "post" \/ Found)
              /\ c.name \notin Waited => ~Redone(c)
              /\ c.name \in Waited => WaitInstanceStatus(c.name)
           \/ /\ class = "blank"
              /\ c.name = "get" /\ ~Found /\ Calls.get = "unchecked" /\ "blank" \in faults
           \/ class = "notFound" /\ c.name # "post" /\ ~Found
           \/ class = "invalid" /\ Redone(c)
           \/ /\ class = "timeout" /\ c.name \in Waited /\ Found
              /\ "wait" \in faults \/ ~WaitInstanceStatus(c.name)
<1>1. CASE c.name \in Waited
  <2>1. c.name # "post" /\ c.name # "get"
    BY <1>1 DEF Waited
  <2>2. class \in waitUntil(Found, Found /\ WaitInstanceStatus(c.name),
                            "wait" \in faults /\ trouble < MaxTrouble)
    BY <1>1 DEF Classes
  <2> QED  BY <1>1, <2>1, <2>2 DEF waitUntil
<1>2. CASE c.name \notin Waited /\ (c.name = "post" \/ Found)
  <2>1. class = ClassOf(IF Redone(c) THEN 409 ELSE 200)
    BY <1>2 DEF Classes, ClassOf
  <2>2. CASE Redone(c)
    <3>1. class = ClassOf(409)
      BY <2>1, <2>2
    <3> QED  BY <2>2, <3>1, StatusIs
  <2>3. CASE ~Redone(c)
    <3>1. class = ClassOf(200)
      BY <2>1, <2>3
    <3> QED  BY <1>2, <2>3, <3>1, StatusIs
  <2> QED  BY <2>2, <2>3
<1>3. CASE c.name \notin Waited /\ ~(c.name = "post" \/ Found)
  <2>1. CASE c.name = "get" /\ Missing(Calls.get, "blank" \in faults) = "blank"
    <3>1. class = "blank"
      BY <1>3, <2>1 DEF Classes
    <3>2. Calls.get = "unchecked" /\ "blank" \in faults
      BY <2>1 DEF Missing, getInstanceFromList
    <3> QED  BY <1>3, <2>1, <3>1, <3>2
  <2>2. CASE ~(c.name = "get" /\ Missing(Calls.get, "blank" \in faults) = "blank")
    <3>1. class \in {ClassSaid(s) : s \in {400, 404}}
      BY <1>3, <2>2 DEF Classes, ClassSaid
    <3> QED  BY <1>3, <3>1, StatusIs
  <2> QED  BY <2>1, <2>2
<1> QED  BY <1>1, <1>2, <1>3

LEMMA ServeIs ==
    ASSUME Shape, Serve
    PROVE  \E class : LET c == Head(op.calls) IN
             /\ Sent(c) /\ Room(c) /\ React(c, class) /\ Outcome(c, class)
             /\ trouble' \in 0..MaxTrouble
<1> DEFINE c == Head(op.calls)
<1>1. op.do # "idle" /\ Room(c) /\ (Answered(c) \/ Refused(c) \/ Lost(c))
  BY DEF Serve
<1>2. Sent(c)
  BY <1>1, HeadIsSent
<1>3. trouble \in 0..MaxTrouble /\ MaxTrouble \in Nat
  BY StackAssumption DEF Shape, Types
<1>4. Trouble => trouble' \in 0..MaxTrouble
  BY <1>3 DEF Trouble
<1> HIDE DEF c
<1>5. CASE Answered(c)
  <2>1. PICK class \in Classes(c) :
           /\ remote' = IF class = "ok" THEN Effect(c) ELSE remote
           /\ IF class = "timeout" THEN Trouble ELSE UNCHANGED trouble
           /\ React(c, class)
    BY <1>5 DEF Answered
  <2>2. Outcome(c, class)
    BY <2>1, ClassIs DEF Outcome
  <2>3. trouble' \in 0..MaxTrouble
    BY <1>3, <1>4, <2>1
  <2> QED  BY <1>1, <1>2, <2>1, <2>2, <2>3 DEF c
<1>6. CASE Refused(c)
  <2>1. PICK s \in {400, 503} : React(c, ClassOf(s))
    BY <1>6 DEF Refused, ClassOf
  <2>2. /\ ClassOf(s) \in {"invalid", "unavailable"}
        /\ "refuse" \in faults /\ remote' = remote
    BY <1>6, StatusIs DEF Refused
  <2>3. Outcome(c, ClassOf(s))
    BY <2>2 DEF Outcome
  <2> QED  BY <1>1, <1>2, <1>4, <1>6, <2>1, <2>3 DEF Refused, c
<1>7. CASE Lost(c)
  <2>1. PICK class \in {"unavailable", "invalid"} : React(c, class)
    <3>1. \E text \in {"plain", "garbled"} :
             React(c, doOnce([status |-> IF text = "plain" THEN 0 ELSE 200, text |-> text]))
      BY <1>7 DEF Lost
    <3>2. React(c, ClassOf(0)) \/ React(c, Garbled)
      BY <3>1 DEF ClassOf, Garbled
    <3> QED  BY <3>2, StatusIs
  <2>2. c.name = "post" \/ Found
    <3>1. "ok" \in Classes(c)
      BY <1>7 DEF Lost
    <3> QED  BY <3>1, ClassIs
  <2>3. Outcome(c, class)
    BY <1>7, <2>1, <2>2 DEF Outcome, Lost, Waited
  <2> QED  BY <1>1, <1>2, <1>4, <1>7, <2>1, <2>3 DEF Lost, c
<1> QED  BY <1>1, <1>5, <1>6, <1>7

LEMMA RemoteIs ==
    ASSUME Types, NEW c, NEW class, Sent(c), Room(c), Outcome(c, class)
    PROVE  /\ remote' \in [Objects -> ObjectOfKind(kind)]
           /\ class = "ok" => ObjectOf(c) \in Objects
           /\ class = "blank" => c.name = "get"
<1>1. remote \in [Objects -> ObjectOfKind(kind)]
  BY DEF Types
<1>2. c.name = "post" \/ Found => Effect(c) \in [Objects -> ObjectOfKind(kind)] /\ ObjectOf(c) \in Objects
  BY EffectIs
<1> QED  BY <1>1, <1>2 DEF Outcome

LEMMA ReplyIs ==
    ASSUME Types, NEW id, NEW class, class = "ok" => id \in Objects,
           remote' \in [Objects -> ObjectOfKind(kind)]
    PROVE  /\ Reply(id, class) \in FieldsOf(kind)
           /\ \A f \in ArgsOf(kind) : Reply(id, class)[f] =
                IF class = "ok" /\ f \in Calls.reply THEN remote'[id].fields[f] ELSE {}
<1>1. Args = ArgsOf(kind)
  BY KindIs
<1>2. class = "ok" => remote'[id].fields \in FieldsOf(kind)
  BY DEF ObjectOfKind
<1> DEFINE t == remote'[id].fields
<1> HIDE DEF t
<1>3. Reply(id, class) = [f \in ArgsOf(kind) |-> IF class = "ok" /\ f \in Calls.reply THEN t[f] ELSE {}]
  BY <1>1 DEF Reply, t
<1>4. class = "ok" => \A f \in ArgsOf(kind) : t[f] \in SUBSET Names
  BY <1>2 DEF t, FieldsOf
<1> QED  BY <1>3, <1>4 DEF FieldsOf, t

(* What is left of an operation after the call at its head. *)
Rest(c) == (IF c.name = "verify" THEN Verify(remote[ObjectOf(c)].status) ELSE <<>>) \o Tail(op.calls)

LEMMA RestIs ==
    ASSUME Shape, op.do # "idle", NEW c, c = Head(op.calls)
    PROVE  /\ Rest(c) \in Seq(CallsOf(kind))
           /\ op.do = "create" => Rest(c) = Tail(op.calls) /\ Rest(c) \in Seq(Following(kind, op.news))
           /\ op.do = "update" => Rest(c) \in Seq(Updating(kind, stack.state, op.news))
           /\ op.do \notin {"create", "update"} => Rest(c) = <<>>
<1>1. Sent(c) /\ op.calls # <<>> /\ op.calls \in Seq(CallsOf(kind)) /\ op.do \in Dos
  BY HeadIsSent DEF Shape, Resting, Types
<1>2. Tail(op.calls) \in Seq(CallsOf(kind))
  BY <1>1
<1>3. c.name # "verify" => Rest(c) = Tail(op.calls)
  BY <1>2, ConcatEmptySeq DEF Rest
<1>4. CASE op.do = "create"
  <2>1. c.name # "verify"
    BY <1>1, <1>4 DEF Sent, Following
  <2>2. Tail(op.calls) \in Seq(Following(kind, op.news))
    <3>1. CASE op.made = None
      BY <1>4, <3>1 DEF Shape, Creating
    <3>2. CASE op.made # None
      <4> DEFINE F == Following(kind, op.news)
      <4>1. op.calls \in Seq(F)
        BY <1>4, <3>2 DEF Shape, Creating
      <4> HIDE DEF F
      <4>2. Tail(op.calls) \in Seq(F)
        BY <1>1, <4>1, HeadTailProperties
      <4> QED  BY <4>2 DEF F
    <3> QED  BY <3>1, <3>2
  <2> QED  BY <1>2, <1>3, <1>4, <2>1, <2>2
<1>5. CASE op.do = "update"
  <2> DEFINE U == Updating(kind, stack.state, op.news)
             more == IF c.name = "verify" THEN Verify(remote[ObjectOf(c)].status) ELSE <<>>
  <2>1. op.calls \in Seq(U) /\ c \in U
    BY <1>1, <1>5 DEF Shape, Renewing, Sent
  <2>2. Tail(op.calls) \in Seq(U)
    <3> HIDE DEF U
    <3> QED  BY <1>1, <2>1, HeadTailProperties
  <2>3. more \in Seq(U)
    <3>1. CASE c.name = "verify"
      <4>1. kind = "Instance"
        BY <2>1, <3>1 DEF Updating
      <4>2. Plain("confirm") \in U /\ Plain("wait") \in U
        BY <4>1, PlainIn DEF Updating, CallNames
      <4> HIDE DEF U
      <4>3. <<Plain("confirm"), Plain("wait")>> \in Seq(U) /\ <<>> \in Seq(U)
        BY <4>2
      <4>4. more = <<Plain("confirm"), Plain("wait")>> \/ more = <<>>
        BY <3>1 DEF Verify
      <4> QED  BY <4>3, <4>4
    <3>2. CASE c.name # "verify"
      BY <3>2
    <3> QED  BY <3>1, <3>2
  <2>4. U \subseteq CallsOf(kind)
    BY DEF Updating
  <2>5. Rest(c) = more \o Tail(op.calls)
    BY DEF Rest
  <2> HIDE DEF U, more
  <2>6. Rest(c) \in Seq(U)
    BY <2>2, <2>3, <2>5, Joined
  <2>7. Rest(c) \in Seq(CallsOf(kind))
    BY <2>4, <2>6
  <2> QED  BY <1>5, <2>6, <2>7 DEF U
<1>6. CASE op.do \in {"replace", "destroy", "refresh", "import"}
  <2>1. op.calls = <<Plain("delete")>> \/ op.calls = <<Plain("get")>>
    BY <1>6 DEF Shape, Single
  <2>2. Tail(op.calls) = <<>> /\ (c = Plain("delete") \/ c = Plain("get"))
    BY <2>1, Alone
  <2>3. c.name # "verify"
    BY <2>2 DEF Plain, Call
  <2> QED  BY <1>2, <1>3, <1>6, <2>2, <2>3
<1> QED  BY <1>1, <1>4, <1>5, <1>6 DEF Dos

LEMMA IdleShape ==
    ASSUME Types', op'.do = "idle", op'.calls = <<>>,
           upToDate' => stack'.id # None /\ applied' = checkResourceArgs(program')
    PROVE  Shape'
BY DEF Shape, Creating, Renewing, Single, Checked, Resting

LEMMA RetryShape ==
    ASSUME Shape, op.do # "idle", op.attempt < MaxAttempts,
           op' = [op EXCEPT !.attempt = @ + 1],
           UNCHANGED <<kind, faults, program, stack, applied, upToDate, turns>>,
           remote' \in [Objects -> ObjectOfKind(kind)], trouble' \in 0..MaxTrouble
    PROVE  Shape'
<1> DEFINE next == op.attempt + 1
<1>0. next \in 1..MaxAttempts
  BY MaxAttemptsAssumption DEF Shape, Types
<1>1. op' \in [do : Dos, calls : Seq(CallsOf(kind)), attempt : 1..MaxAttempts,
               news : FieldsOf(kind), made : Objects \cup {None}]
  <2>1. op' = [op EXCEPT !.attempt = next]
    OBVIOUS
  <2> HIDE DEF next
  <2> QED  BY <1>0, <2>1 DEF Shape, Types
<1>2. op'.do = op.do /\ op'.calls = op.calls /\ op'.news = op.news /\ op'.made = op.made
  BY DEF Shape, Types
<1>3. Types'
  BY <1>1 DEF Shape, Types
<1> QED  BY <1>2, <1>3 DEF Shape, Creating, Renewing, Single, Checked, Resting

LEMMA FailShape ==
    ASSUME Shape, op.do # "idle", NEW class, Fail(class),
           UNCHANGED <<kind, faults, program, turns>>,
           remote' \in [Objects -> ObjectOfKind(kind)], trouble' \in 0..MaxTrouble
    PROVE  Shape'
<1>1. op' = Idle /\ applied' = applied
  BY DEF Fail
<1>2. (stack' = NoStack /\ upToDate' = FALSE) \/ (stack' = stack /\ upToDate' = upToDate)
  BY DEF Fail
<1>3. Types /\ Types'
  BY <1>1, <1>2, KindIs DEF Shape, Types
<1>4. op'.do = "idle" /\ op'.calls = <<>>
  BY <1>1 DEF Idle
<1>5. upToDate' => stack'.id # None /\ applied' = checkResourceArgs(program')
  BY <1>1, <1>2 DEF Shape, Resting
<1> QED  BY <1>3, <1>4, <1>5, IdleShape

LEMMA CommitShape ==
    ASSUME Shape, NEW c, c = Head(op.calls), Sent(c), Room(c), NEW class, Outcome(c, class),
           class \in {"ok", "blank"} \/ c.name = "delete",
           Commit(ObjectOf(c), class),
           UNCHANGED <<kind, faults, program, turns>>, trouble' \in 0..MaxTrouble
    PROVE  Shape'
<1> DEFINE id == ObjectOf(c)
           reply == Reply(id, class)
<1>1. Types /\ remote' \in [Objects -> ObjectOfKind(kind)] /\ (class = "ok" => id \in Objects)
      /\ (class = "blank" => c.name = "get")
  BY RemoteIs DEF Shape
<1>2. kind \in Kinded /\ Row(kind) /\ op.news \in FieldsOf(kind) /\ stack.state \in FieldsOf(kind)
      /\ stack.id \in Objects \cup {None, Blank} /\ op.made \in Objects \cup {None}
  BY <1>1, KindIs DEF Types
<1>3. reply \in FieldsOf(kind)
  BY <1>1, ReplyIs
<1> HIDE DEF reply
<1>4. \A args \in FieldsOf(kind) :
         /\ Learn(args, Resource[kind].created, reply) \in FieldsOf(kind)
         /\ Learn(args, Resource[kind].read, reply) \in FieldsOf(kind)
         /\ Learn(args, Resource[kind].updated, reply) \in FieldsOf(kind)
  BY <1>2, <1>3, LearnIs DEF Row, FieldsOf
<1>5. Kept(kind, op.news) \in FieldsOf(kind) /\ Renewed(kind, op.news) \in FieldsOf(kind)
  BY <1>2, KeptIs, RenewedIs
<1>6. Idle \in [do : Dos, calls : Seq(CallsOf(kind)), attempt : 1..MaxAttempts,
                news : FieldsOf(kind), made : Objects \cup {None}]
      /\ Idle.do = "idle" /\ Idle.calls = <<>>
  BY <1>1, KindIs DEF Idle
<1>7. c.name = "delete" => op.do \in {"replace", "destroy"}
  BY DEF Sent
<1>8. CASE /\ op.do = "create"
           /\ stack' = [id |-> id, state |-> Learn(Kept(kind, op.news), Resource[kind].created, reply)]
           /\ Succeed(op.news) /\ op' = Idle
  <2>1. id \in Objects
    <3>1. CASE class = "ok"
      BY <1>1, <3>1
    <3>2. CASE class = "blank"
      BY <1>1, <1>8, <3>2 DEF Sent, ObjectOf, Addressed
    <3> QED  BY <1>7, <1>8, <3>1, <3>2
  <2> HIDE DEF id
  <2>2. /\ stack' \in [id : Objects \cup {None, Blank}, state : FieldsOf(kind)]
        /\ stack'.id = id
    BY <1>4, <1>5, <1>8, <2>1
  <2>3. Types'
    BY <1>1, <1>2, <1>6, <1>8, <2>2 DEF Types, Succeed
  <2>4. stack'.id # None /\ applied' = checkResourceArgs(program')
    BY <1>8, <2>1, <2>2, StackAssumption DEF Succeed, Shape, Checked
  <2> QED  BY <1>6, <1>8, <2>3, <2>4, IdleShape
<1>9. CASE /\ op.do = "update"
           /\ stack' = [stack EXCEPT !.state = Learn(Renewed(kind, op.news), Resource[kind].updated, reply)]
           /\ Succeed(op.news) /\ op' = Idle
  <2>1. /\ stack' \in [id : Objects \cup {None, Blank}, state : FieldsOf(kind)]
        /\ stack'.id = stack.id
    BY <1>1, <1>4, <1>5, <1>9 DEF Types
  <2>2. Types'
    BY <1>1, <1>2, <1>6, <1>9, <2>1 DEF Types, Succeed
  <2>3. stack'.id # None /\ applied' = checkResourceArgs(program')
    BY <1>9, <2>1 DEF Succeed, Shape, Checked, Renewing
  <2> QED  BY <1>6, <1>9, <2>2, <2>3, IdleShape
<1>10. CASE /\ op.do = "replace"
            /\ stack' = NoStack
            /\ Start("create", Create(op.news), op.news)
            /\ UNCHANGED <<applied, upToDate>>
  <2> DEFINE calls == Create(op.news)
  <2>1. /\ calls \in Seq(CallsOf(kind)) /\ calls # <<>>
        /\ Head(calls) = Call("post", Post(kind, op.news))
        /\ Tail(calls) \in Seq(Following(kind, op.news))
    BY <1>1, <1>2, CreateIs
  <2> HIDE DEF calls
  <2>2. op' = [do |-> "create", calls |-> calls, attempt |-> 1, news |-> op.news, made |-> None]
    BY <1>10 DEF Start, calls
  <2>3. NoStack \in [id : Objects \cup {None, Blank}, state : FieldsOf(kind)] /\ NoStack.id = None
    BY <1>1, KindIs DEF NoStack
  <2>4. upToDate = FALSE
    BY <1>1, <1>10 DEF Shape, Resting, Types
  <2>5. op' \in [do : Dos, calls : Seq(CallsOf(kind)), attempt : 1..MaxAttempts,
                 news : FieldsOf(kind), made : Objects \cup {None}]
    BY <1>2, <2>1, <2>2, MaxAttemptsAssumption DEF Dos
  <2>6. Types'
    BY <1>1, <1>10, <2>3, <2>5 DEF Types
  <2>7. op'.do = "create" /\ op'.calls = calls /\ op'.news = op.news /\ op'.made = None
    BY <2>2
  <2>8. Creating' /\ Renewing' /\ Single' /\ Resting'
    BY <1>10, <2>1, <2>3, <2>4, <2>7 DEF Creating, Renewing, Single, Resting
  <2>9. Checked'
    BY <1>10, <2>7 DEF Shape, Checked
  <2> QED  BY <2>6, <2>8, <2>9 DEF Shape
<1>11. CASE /\ op.do = "destroy"
            /\ stack' = NoStack /\ op' = Idle
            /\ UNCHANGED <<applied, upToDate>>
  <2>1. NoStack \in [id : Objects \cup {None, Blank}, state : FieldsOf(kind)]
    BY <1>1, KindIs
  <2>2. upToDate = FALSE
    BY <1>1, <1>11 DEF Shape, Resting, Types
  <2>3. Types'
    BY <1>1, <1>6, <1>11, <2>1 DEF Types
  <2> QED  BY <1>6, <1>11, <2>2, <2>3, IdleShape
<1>12. CASE /\ op.do \in {"refresh", "import"}
            /\ stack' = [id    |-> IF class = "ok" THEN id ELSE Blank,
                         state |-> Learn(stack.state, Resource[kind].read, reply)]
            /\ op' = Idle
            /\ UNCHANGED <<applied, upToDate>>
  <2> DEFINE new == IF class = "ok" THEN id ELSE Blank
  <2>1. new \in Objects \cup {Blank}
    BY <1>1
  <2> HIDE DEF new, id
  <2>2. /\ stack' \in [id : Objects \cup {None, Blank}, state : FieldsOf(kind)]
        /\ stack'.id = new
    BY <1>2, <1>4, <1>12, <2>1 DEF new
  <2>3. Types'
    BY <1>1, <1>6, <1>12, <2>2 DEF Types
  <2>4. upToDate' => stack'.id # None /\ applied' = checkResourceArgs(program')
    BY <1>12, <2>1, <2>2, StackAssumption DEF Shape, Resting
  <2> QED  BY <1>6, <1>12, <2>3, <2>4, IdleShape
<1> QED  BY <1>8, <1>9, <1>10, <1>11, <1>12 DEF Commit, reply

LEMMA ContinueShape ==
    ASSUME Shape, NEW c, c = Head(op.calls), Sent(c), Room(c), NEW class, Outcome(c, class),
           class \in {"ok", "blank"} \/ c.name = "delete",
           Rest(c) # <<>>,
           op' = [op EXCEPT !.calls = Rest(c), !.attempt = 1,
                            !.made = IF op.do = "create" THEN ObjectOf(c) ELSE None],
           UNCHANGED <<kind, faults, program, stack, applied, upToDate, turns>>,
           trouble' \in 0..MaxTrouble
    PROVE  Shape'
<1> DEFINE rest == Rest(c)
           made == IF op.do = "create" THEN ObjectOf(c) ELSE None
<1>1. Types /\ remote' \in [Objects -> ObjectOfKind(kind)] /\ op.do # "idle"
      /\ (class = "ok" => ObjectOf(c) \in Objects) /\ (class = "blank" => c.name = "get")
  BY RemoteIs DEF Shape, Sent
<1>2. /\ rest \in Seq(CallsOf(kind))
      /\ op.do = "create" => rest \in Seq(Following(kind, op.news))
      /\ op.do = "update" => rest \in Seq(Updating(kind, stack.state, op.news))
      /\ op.do \in {"create", "update"}
  BY <1>1, RestIs
<1>3. op.do = "create" => made \in Objects
  <2>1. class = "blank" /\ op.do = "create" => ObjectOf(c) \in Objects
    BY <1>1 DEF Sent, ObjectOf, Addressed
  <2>2. c.name # "delete"
    BY <1>2 DEF Sent
  <2> QED  BY <1>1, <2>1, <2>2
<1>4. made \in Objects \cup {None}
  BY <1>3
<1> HIDE DEF rest, made
<1>5. /\ op' \in [do : Dos, calls : Seq(CallsOf(kind)), attempt : 1..MaxAttempts,
                  news : FieldsOf(kind), made : Objects \cup {None}]
      /\ op'.do = op.do /\ op'.calls = rest /\ op'.news = op.news /\ op'.made = made
  <2>1. op' = [op EXCEPT !.calls = rest, !.attempt = 1, !.made = made]
    BY DEF rest, made
  <2>2. 1 \in 1..MaxAttempts
    BY MaxAttemptsAssumption
  <2> QED  BY <1>1, <1>2, <1>4, <2>1, <2>2 DEF Types
<1>6. Types'
  BY <1>1, <1>5 DEF Types
<1>7. Creating'
  BY <1>2, <1>3, <1>5, StackAssumption DEF Shape, Creating
<1>8. Renewing' /\ Single' /\ Checked'
  BY <1>2, <1>5 DEF Shape, Renewing, Single, Checked
<1>9. Resting'
  BY <1>1, <1>2, <1>5 DEF Shape, Resting, rest
<1> QED  BY <1>6, <1>7, <1>8, <1>9 DEF Shape

LEMMA AdvanceIs ==
    ASSUME NEW c, NEW class, Advance(c, class)
    PROVE  \/ Rest(c) = <<>> /\ Commit(ObjectOf(c), class)
           \/ /\ Rest(c) # <<>>
              /\ op' = [op EXCEPT !.calls = Rest(c), !.attempt = 1,
                                  !.made = IF op.do = "create" THEN ObjectOf(c) ELSE None]
              /\ UNCHANGED <<stack, applied, upToDate>>
BY DEF Advance, Rest

LEMMA ReactIs ==
    ASSUME NEW c, NEW class, React(c, class)
    PROVE  /\ UNCHANGED <<kind, faults, program, turns>>
           /\ \/ /\ class \in {"ok", "blank"} \/ (c.name = "delete" /\ class = "notFound")
                 /\ Advance(c, class)
              \/ /\ class = "unavailable" /\ op.attempt < MaxAttempts
                 /\ op' = [op EXCEPT !.attempt = @ + 1]
                 /\ UNCHANGED <<stack, applied, upToDate>>
              \/ /\ class \notin {"ok", "blank"} /\ ~(c.name = "delete" /\ class = "notFound")
                 /\ Fail(class)
BY DEF React, do, Delete

LEMMA ServeShape == Shape /\ Serve => Shape'
<1> SUFFICES ASSUME Shape, Serve PROVE Shape'
  OBVIOUS
<1> DEFINE c == Head(op.calls)
<1>1. PICK class : /\ Sent(c) /\ Room(c) /\ React(c, class) /\ Outcome(c, class)
                   /\ trouble' \in 0..MaxTrouble
  BY ServeIs
<1>2. remote' \in [Objects -> ObjectOfKind(kind)] /\ op.do # "idle"
  BY <1>1, RemoteIs DEF Shape, Sent
<1> HIDE DEF c
<1>3. UNCHANGED <<kind, faults, program, turns>>
  BY <1>1, ReactIs
<1>4. CASE /\ class \in {"ok", "blank"} \/ (c.name = "delete" /\ class = "notFound")
           /\ Advance(c, class)
  BY <1>1, <1>3, <1>4, AdvanceIs, CommitShape, ContinueShape DEF c
<1>5. CASE /\ class = "unavailable" /\ op.attempt < MaxAttempts
           /\ op' = [op EXCEPT !.attempt = @ + 1]
           /\ UNCHANGED <<stack, applied, upToDate>>
  BY <1>1, <1>2, <1>3, <1>5, RetryShape
<1>6. CASE Fail(class)
  BY <1>1, <1>2, <1>3, <1>6, FailShape
<1> QED  BY <1>1, <1>4, <1>5, <1>6, ReactIs

(* The steps of the engine, of the user and of Nobus. *)
LEMMA UpShape == Shape /\ Up => Shape'
<1> SUFFICES ASSUME Shape, Up PROVE Shape'
  OBVIOUS
<1> DEFINE news == checkResourceArgs(program)
           olds == stack.state
           body == Update(olds, news)
<1>1. Types /\ kind \in Kinded /\ Row(kind) /\ olds \in FieldsOf(kind)
  BY KindIs DEF Shape, Types
<1>2. news \in FieldsOf(kind)
  BY <1>1, CheckedIs DEF Types, Row, FieldsOf, ArgsOf
<1>3. body \in Seq(Updating(kind, olds, news))
  BY <1>1, <1>2, UpdateIs
<1> HIDE DEF news, body
<1>4. op.do = "idle" /\ UNCHANGED <<kind, faults, program, remote, turns, trouble>>
  BY DEF Up
<1>5. ASSUME NEW task \in {"create", "replace", "update"}, NEW calls \in Seq(CallsOf(kind)),
             Start(task, calls, news), upToDate' = FALSE, UNCHANGED <<stack, applied>>
      PROVE  Types' /\ op'.do = task /\ op'.calls = calls /\ op'.news = news /\ op'.made = None
  <2>1. op' = [do |-> task, calls |-> calls, attempt |-> 1, news |-> news, made |-> None]
    BY <1>5 DEF Start
  <2>2. op' \in [do : Dos, calls : Seq(CallsOf(kind)), attempt : 1..MaxAttempts,
                 news : FieldsOf(kind), made : Objects \cup {None}]
    BY <1>2, <2>1, MaxAttemptsAssumption DEF Dos
  <2> QED  BY <1>1, <1>4, <1>5, <2>1, <2>2 DEF Types
<1>6. CASE /\ stack.id = None
           /\ Start("create", Create(news), news)
           /\ upToDate' = FALSE
           /\ UNCHANGED <<stack, applied>>
  <2> DEFINE calls == Create(news)
  <2>1. /\ calls \in Seq(CallsOf(kind)) /\ calls # <<>>
        /\ Head(calls) = Call("post", Post(kind, news))
        /\ Tail(calls) \in Seq(Following(kind, news))
    BY <1>1, <1>2, CreateIs
  <2> HIDE DEF calls
  <2>2. Types' /\ op'.do = "create" /\ op'.calls = calls /\ op'.news = news /\ op'.made = None
    BY <1>5, <1>6, <2>1 DEF calls
  <2>3. Creating' /\ Renewing' /\ Single' /\ Resting'
    BY <1>4, <1>6, <2>1, <2>2 DEF Creating, Renewing, Single, Resting
  <2>4. Checked'
    BY <1>4, <2>2 DEF Checked, news
  <2> QED  BY <2>2, <2>3, <2>4 DEF Shape
<1>7. CASE /\ stack.id # None
           /\ Start("replace", <<Plain("delete")>>, news)
           /\ upToDate' = FALSE
           /\ UNCHANGED <<stack, applied>>
  <2> DEFINE calls == <<Plain("delete")>>
  <2>1. calls \in Seq(CallsOf(kind)) /\ calls # <<>>
    BY PlainIn DEF CallNames
  <2>2. Types' /\ op'.do = "replace" /\ op'.calls = calls /\ op'.news = news
    BY <1>5, <1>7, <2>1
  <2>3. Creating' /\ Renewing' /\ Single' /\ Resting'
    BY <1>4, <1>7, <2>1, <2>2 DEF Creating, Renewing, Single, Resting
  <2>4. Checked'
    BY <1>4, <2>2 DEF Checked, news
  <2> QED  BY <2>2, <2>3, <2>4 DEF Shape
<1>8. CASE /\ stack.id # None
           /\ Succeed(news) /\ UNCHANGED <<stack, op>>
  <2>1. Types'
    BY <1>1, <1>2, <1>4, <1>8 DEF Types, Succeed
  <2>2. stack'.id # None /\ applied' = checkResourceArgs(program')
    BY <1>4, <1>8 DEF Succeed, news
  <2>3. op'.do = "idle" /\ op'.calls = <<>>
    BY <1>4, <1>8 DEF Shape, Resting
  <2> QED  BY <2>1, <2>2, <2>3, IdleShape
<1>9. CASE /\ stack.id # None
           /\ stack' = [stack EXCEPT !.state = Renewed(kind, news)]
           /\ Succeed(news) /\ UNCHANGED op
  <2>1. Renewed(kind, news) \in FieldsOf(kind)
    BY <1>1, <1>2, RenewedIs
  <2>2. stack' \in [id : Objects \cup {None, Blank}, state : FieldsOf(kind)] /\ stack'.id = stack.id
    BY <1>1, <1>9, <2>1 DEF Types
  <2>3. Types'
    BY <1>1, <1>2, <1>4, <1>9, <2>2 DEF Types, Succeed
  <2>4. stack'.id # None /\ applied' = checkResourceArgs(program')
    BY <1>4, <1>9, <2>2 DEF Succeed, news
  <2>5. op'.do = "idle" /\ op'.calls = <<>>
    BY <1>4, <1>9 DEF Shape, Resting
  <2> QED  BY <2>3, <2>4, <2>5, IdleShape
<1>10. CASE /\ stack.id # None /\ replaceDiff(kind, olds, news) = {} /\ body # <<>>
            /\ Start("update", body, news)
            /\ upToDate' = FALSE
            /\ UNCHANGED <<stack, applied>>
  <2>1. Updating(kind, olds, news) \subseteq CallsOf(kind)
    BY DEF Updating
  <2>2. body \in Seq(CallsOf(kind))
    BY <1>3, <2>1
  <2>3. Types' /\ op'.do = "update" /\ op'.calls = body /\ op'.news = news
    BY <1>5, <1>10, <2>2
  <2>4. Creating' /\ Renewing' /\ Single' /\ Resting'
    BY <1>3, <1>4, <1>10, <2>3 DEF Creating, Renewing, Single, Resting
  <2>5. Checked'
    BY <1>4, <2>3 DEF Checked, news
  <2> QED  BY <2>3, <2>4, <2>5 DEF Shape
<1>11. IF stack.id = None
         THEN /\ Start("create", Create(news), news)
              /\ upToDate' = FALSE
              /\ UNCHANGED <<stack, applied>>
       ELSE IF replaceDiff(kind, olds, news) # {}
         THEN /\ Start("replace", <<Plain("delete")>>, news)
              /\ upToDate' = FALSE
              /\ UNCHANGED <<stack, applied>>
       ELSE IF diffResponse(kind, olds, news) = {}
         THEN Succeed(news) /\ UNCHANGED <<stack, op>>
       ELSE IF body = <<>>
         THEN /\ stack' = [stack EXCEPT !.state = Renewed(kind, news)]
              /\ Succeed(news) /\ UNCHANGED op
       ELSE /\ Start("update", body, news)
            /\ upToDate' = FALSE
            /\ UNCHANGED <<stack, applied>>
  BY DEF Up, news, body
<1> QED  BY <1>6, <1>7, <1>8, <1>9, <1>10, <1>11

LEMMA EditShape == Shape /\ Edit => Shape'
<1> SUFFICES ASSUME Shape, Edit PROVE Shape'
  OBVIOUS
<1>1. PICK f \in Args : \E v \in Values(f) \ {program[f]} : program' = [program EXCEPT ![f] = v]
  BY DEF Edit
<1>2. PICK v \in Values(f) : program' = [program EXCEPT ![f] = v]
  BY <1>1
<1>3. v \in SUBSET Names
  BY <1>2 DEF Values
<1>4. program' \in FieldsOf(kind)
  BY <1>2, <1>3 DEF Shape, Types, FieldsOf
<1>5. /\ op.do = "idle" /\ upToDate' = FALSE /\ turns' \in 0..MaxTurns
      /\ UNCHANGED <<kind, faults, stack, remote, op, applied, trouble>>
  BY StackAssumption DEF Edit, Turn, Shape, Types
<1>6. Types'
  BY <1>4, <1>5 DEF Shape, Types
<1> QED  BY <1>5, <1>6, IdleShape DEF Shape, Resting

LEMMA StartShape ==
    ASSUME Shape, NEW task \in {"refresh", "destroy", "import"},
           Start(task, IF task = "destroy" THEN <<Plain("delete")>> ELSE <<Plain("get")>>, NoArgs),
           stack' \in [id : Objects \cup {None, Blank}, state : FieldsOf(kind)], stack'.id # None,
           upToDate' \in BOOLEAN, upToDate' => upToDate /\ task = "refresh",
           UNCHANGED <<kind, faults, program, remote, applied, trouble>>,
           turns' \in 0..MaxTurns
    PROVE  Shape'
<1> DEFINE calls == IF task = "destroy" THEN <<Plain("delete")>> ELSE <<Plain("get")>>
<1>1. calls \in Seq(CallsOf(kind)) /\ calls # <<>>
  BY PlainIn DEF CallNames
<1>2. op' = [do |-> task, calls |-> calls, attempt |-> 1, news |-> NoArgs, made |-> None]
  BY DEF Start
<1>3. Types /\ NoArgs \in FieldsOf(kind)
  BY KindIs DEF Shape
<1>4. op' \in [do : Dos, calls : Seq(CallsOf(kind)), attempt : 1..MaxAttempts,
               news : FieldsOf(kind), made : Objects \cup {None}]
  <2> HIDE DEF calls
  <2> QED  BY <1>1, <1>2, <1>3, MaxAttemptsAssumption DEF Dos
<1>5. Types'
  BY <1>3, <1>4 DEF Types
<1>6. op'.do = task /\ op'.calls = calls
  BY <1>2
<1>7. Creating' /\ Renewing' /\ Checked'
  BY <1>6 DEF Creating, Renewing, Checked
<1>8. Single'
  BY <1>6 DEF Single
<1>9. Resting'
  BY <1>1, <1>6 DEF Shape, Resting
<1> QED  BY <1>5, <1>7, <1>8, <1>9 DEF Shape

LEMMA RefreshShape == Shape /\ Refresh => Shape'
<1> SUFFICES ASSUME Shape, Refresh PROVE Shape'
  OBVIOUS
<1>1. Start("refresh", <<Plain("get")>>, NoArgs)
  BY DEF Refresh
<1>2. /\ stack' \in [id : Objects \cup {None, Blank}, state : FieldsOf(kind)] /\ stack'.id # None
      /\ upToDate' = upToDate /\ upToDate \in BOOLEAN /\ turns' \in 0..MaxTurns
      /\ UNCHANGED <<kind, faults, program, remote, applied, trouble>>
  BY StackAssumption DEF Refresh, Turn, Shape, Types
<1> QED  BY <1>1, <1>2, StartShape

LEMMA DestroyShape == Shape /\ Destroy => Shape'
<1> SUFFICES ASSUME Shape, Destroy PROVE Shape'
  OBVIOUS
<1>1. Start("destroy", <<Plain("delete")>>, NoArgs)
  BY DEF Destroy
<1>2. /\ stack' \in [id : Objects \cup {None, Blank}, state : FieldsOf(kind)] /\ stack'.id # None
      /\ upToDate' = FALSE /\ turns' \in 0..MaxTurns
      /\ UNCHANGED <<kind, faults, program, remote, applied, trouble>>
  BY StackAssumption DEF Destroy, Turn, Shape, Types
<1> QED  BY <1>1, <1>2, StartShape

LEMMA ImportShape == Shape /\ Import => Shape'
<1> SUFFICES ASSUME Shape, Import PROVE Shape'
  OBVIOUS
<1>1. PICK o \in Live, F \in SUBSET Scope :
         LET part  == [f \in Scope |-> IF f \in F THEN remote[o].fields[f] ELSE {}]
             scope == ResolveImport(part, NoArgs)
         IN stack' = [id |-> o, state |-> [f \in Args |-> IF f \in Scope THEN scope[f] ELSE {}]]
  BY DEF Import
<1>2. Types /\ Row(kind) /\ Args = ArgsOf(kind) /\ NoArgs \in FieldsOf(kind) /\ o \in Objects
      /\ remote[o].fields \in FieldsOf(kind)
  BY KindIs DEF Shape, Types, Live, ObjectOfKind
<1> DEFINE part  == [f \in Scope |-> IF f \in F THEN remote[o].fields[f] ELSE {}]
           scope == ResolveImport(part, NoArgs)
           state == [f \in Args |-> IF f \in Scope THEN scope[f] ELSE {}]
<1>3. \A f \in Scope : part[f] \in SUBSET Names /\ NoArgs[f] = {}
  BY <1>2 DEF Row, FieldsOf, ArgsOf, NoArgs
<1>4. \A f \in Scope : scope[f] \in SUBSET Names
  <2> HIDE DEF part
  <2> QED  BY <1>3, NamesAssumption DEF Scope, ResolveImport, Or
<1> HIDE DEF scope
<1>5. state \in FieldsOf(kind)
  BY <1>2, <1>4 DEF FieldsOf
<1>6. stack' = [id |-> o, state |-> state]
  BY <1>1 DEF scope
<1> HIDE DEF state
<1>7. stack' \in [id : Objects \cup {None, Blank}, state : FieldsOf(kind)] /\ stack'.id # None
  BY <1>2, <1>5, <1>6, StackAssumption
<1>8. /\ Start("import", <<Plain("get")>>, NoArgs) /\ turns' \in 0..MaxTurns
      /\ UNCHANGED <<kind, faults, program, remote, applied, upToDate, trouble>>
      /\ upToDate = FALSE
  BY StackAssumption DEF Import, Turn, Shape, Types, Resting
<1> QED  BY <1>7, <1>8, StartShape

LEMMA VanishShape == Shape /\ Vanish => Shape'
<1> SUFFICES ASSUME Shape, Vanish PROVE Shape'
  OBVIOUS
<1>1. PICK o \in Live : remote' = [remote EXCEPT ![o] = NoObject]
  BY DEF Vanish
<1>2. Types /\ NoObject \in ObjectOfKind(kind)
  BY KindIs DEF Shape
<1>3. /\ upToDate' = FALSE /\ trouble' \in 0..MaxTrouble
      /\ UNCHANGED <<kind, faults, program, stack, op, applied, turns>>
  BY StackAssumption DEF Vanish, Trouble, Shape, Types
<1>4. Types'
  BY <1>1, <1>2, <1>3 DEF Types
<1> QED  BY <1>3, <1>4 DEF Shape, Creating, Renewing, Single, Checked, Resting

LEMMA ResizedIs ==
    ASSUME Types, Resized
    PROVE  \E o \in Objects :
              /\ remote[o].status = "resizing"
              /\ remote' = [remote EXCEPT ![o] = [status |-> "verify", fields |-> remote[o].fields]]
<1>1. PICK o \in Objects : remote[o].status = "resizing" /\ remote' = SetStatus(o, "verify")
  BY DEF Resized, SetStatus
<1> QED  BY <1>1, SetStatusIs DEF Become

LEMMA ResizedShape == Shape /\ Resized => Shape'
<1> SUFFICES ASSUME Shape, Resized PROVE Shape'
  OBVIOUS
<1>1. Types
  BY DEF Shape
<1>2. PICK o \in Objects :
         remote' = [remote EXCEPT ![o] = [status |-> "verify", fields |-> remote[o].fields]]
  BY <1>1, ResizedIs
<1>3. remote' \in [Objects -> ObjectOfKind(kind)]
  BY <1>1, <1>2 DEF Types, ObjectOfKind, Statuses
<1>4. UNCHANGED <<kind, faults, program, stack, op, applied, upToDate, turns, trouble>>
  BY DEF Resized
<1>5. Types'
  BY <1>1, <1>3, <1>4 DEF Types
<1> QED  BY <1>4, <1>5 DEF Shape, Creating, Renewing, Single, Checked, Resting

LEMMA InitShape == Init => Shape
<1> SUFFICES ASSUME Init PROVE Shape
  OBVIOUS
<1>1. kind \in Kinds /\ kind \in Kinded /\ Row(kind) /\ Args = ArgsOf(kind)
  BY OfKind DEF Init
<1>2. program \in FieldsOf(kind)
  <2>1. program \in Programs(kind)
    BY DEF Init
  <2>2. PICK given \in {Resource[kind].required, Resource[kind].args} :
           program = [f \in Resource[kind].args |->
            IF f \notin given \ Scope THEN {}
            ELSE {IF f \in Resource[kind].ids THEN FirstId ELSE FirstName}]
    BY <2>1 DEF Programs
  <2> QED  BY <2>2, StackAssumption DEF FieldsOf, ArgsOf
<1> DEFINE args == checkResourceArgs(program)
<1>3. args \in FieldsOf(kind)
  BY <1>1, <1>2, CheckedIs DEF Row, FieldsOf, ArgsOf
<1> HIDE DEF args
<1>4. NoArgs \in FieldsOf(kind) /\ NoObject \in ObjectOfKind(kind)
  BY <1>1, OfKind
<1>5. Described(args) \in ObjectOfKind(kind)
  <2> DEFINE posted == Made(Post(kind, args)).fields
  <2>0. \A f \in DOMAIN Post(kind, args) : Post(kind, args)[f] \in SUBSET Names
    <3>1. Post(kind, args) \in [Resource[kind].calls.post \cup Scope -> SUBSET Names]
      BY <1>1, <1>3, PostIs
    <3> QED  BY <3>1
  <2>1. posted \in FieldsOf(kind)
    BY <1>1, <2>0, MadeIs DEF ObjectOfKind
  <2> HIDE DEF posted
  <2>2. Described(args) = [status |-> "ready",
                           fields |-> [f \in Args |-> IF f = "tags" THEN args[f] ELSE posted[f]]]
    BY DEF Described, posted
  <2> QED  BY <1>1, <1>3, <2>1, <2>2 DEF ObjectOfKind, FieldsOf, Statuses
<1>6. applied \in FieldsOf(kind)
  BY <1>3, <1>4 DEF Init, args
<1>7. remote \in [Objects -> ObjectOfKind(kind)]
  <2>1. PICK first \in Objects :
           remote = [o \in Objects |-> IF "import" \in faults /\ o = first
                                         THEN Described(args) ELSE NoObject]
    BY DEF Init, args
  <2> QED  BY <1>4, <1>5, <2>1
<1>8. /\ NoStack \in [id : Objects \cup {None, Blank}, state : FieldsOf(kind)] /\ NoStack.id = None
      /\ Idle \in [do : Dos, calls : Seq(CallsOf(kind)), attempt : 1..MaxAttempts,
                   news : FieldsOf(kind), made : Objects \cup {None}]
      /\ Idle.do = "idle" /\ Idle.calls = <<>>
  BY <1>1, OfKind DEF NoStack, Idle
<1>9. /\ faults \in Environments /\ stack = NoStack /\ op = Idle /\ upToDate = FALSE
      /\ turns = 0 /\ trouble = 0
  BY DEF Init
<1>10. Types
  <2>1. turns \in 0..MaxTurns /\ trouble \in 0..MaxTrouble
    BY <1>9, StackAssumption
  <2>4. upToDate \in BOOLEAN
    BY <1>9
  <2>2. stack \in [id : Objects \cup {None, Blank}, state : FieldsOf(kind)]
    BY <1>8, <1>9
  <2>3. op \in [do : Dos, calls : Seq(CallsOf(kind)), attempt : 1..MaxAttempts,
                news : FieldsOf(kind), made : Objects \cup {None}]
    BY <1>8, <1>9
  <2> QED  BY <1>1, <1>2, <1>6, <1>7, <1>9, <2>1, <2>2, <2>3, <2>4 DEF Types
<1> QED  BY <1>8, <1>9, <1>10 DEF Shape, Creating, Renewing, Single, Checked, Resting

LEMMA NextShape == Shape /\ [Next]_vars => Shape'
<1> SUFFICES ASSUME Shape, [Next]_vars PROVE Shape'
  OBVIOUS
<1>1. CASE UNCHANGED vars
  <2>1. Types'
    BY <1>1 DEF vars, Shape, Types
  <2>2. Creating'
    BY <1>1 DEF vars, Shape, Creating
  <2>3. Renewing' /\ Single' /\ Checked' /\ Resting'
    BY <1>1 DEF vars, Shape, Renewing, Single, Checked, Resting
  <2> QED  BY <2>1, <2>2, <2>3 DEF Shape
<1>2. CASE UpRefused
  BY <1>1, <1>2 DEF UpRefused
<1> QED  BY <1>1, <1>2, UpShape, EditShape, RefreshShape, DestroyShape, ImportShape, ServeShape,
            VanishShape, ResizedShape DEF Next

(* The state, the objects and the operation keep their shape, and an       *)
(* operation makes no calls but its own, in its order: the calls of Create, *)
(* Read, Update and Delete of every resource.                               *)
THEOREM ShapeHolds == Spec => []Shape
BY InitShape, NextShape, PTL DEF Spec

(* No more attempts than the client allows (client.go, do), no more objects, *)
(* edits and failures than the bounds; every value is a set of names.        *)
THEOREM TypeCorrect == Spec => []TypeOK
<1>1. Shape => TypeOK
  BY KindIs DEF Shape, Types, Resting, TypeOK, Dos, Statuses, ObjectOfKind
<1> QED  BY <1>1, ShapeHolds, PTL

-----------------------------------------------------------------------------
(* A refresh notices the loss of an object. *)

(* A read changes nothing at Nobus. *)
LEMMA GetIs == ASSUME NEW c, c.name \in {"get", "wait", "resized", "verify"} PROVE Effect(c) = remote
BY DEF Effect

(* A step of an operation without a call of its own is a request's. *)
LEMMA ServedIs ==
    ASSUME Shape, [Next]_vars, op.do # "idle"
    PROVE  Serve \/ (UNCHANGED <<op, stack>>)
BY DEF Next, vars, Up, UpRefused, Edit, Refresh, Destroy, Import, Vanish, Resized

LEMMA LossIsNoticed ==
    ASSUME Shape, [Next]_vars, op.do = "refresh", op'.do = "idle",
           faults \cap {"refuse", "lost"} = {},
           "blank" \notin faults \/ Calls.get # "unchecked"
    PROVE  stack'.id = None \/ stack'.id \in Live'
<1>1. Serve
  BY ServedIs
<1> DEFINE c == Head(op.calls)
<1>2. PICK class : Sent(c) /\ Room(c) /\ React(c, class) /\ Outcome(c, class)
  BY <1>1, ServeIs
<1>3. c = Plain("get") /\ c.name = "get"
  BY Alone DEF Shape, Single, Plain, Call
<1>4. Rest(c) = <<>>
  BY RestIs
<1> HIDE DEF c
<1>5. Effect(c) = remote
  BY <1>3, GetIs
<1>6. CASE class = "ok"
  <2>1. Found /\ remote' = remote
    BY <1>2, <1>3, <1>5, <1>6 DEF Outcome
  <2>2. Commit(Addressed, class)
    BY <1>2, <1>3, <1>4, <1>6, ReactIs, AdvanceIs DEF ObjectOf, do, Fail
  <2>3. stack'.id = Addressed
    BY <1>6, <2>2 DEF Commit
  <2> QED  BY <2>1, <2>3 DEF Found, Live
<1>7. CASE class # "ok"
  <2>1. class = "notFound"
    BY <1>2, <1>3, <1>7 DEF Outcome, Redone, Waited
  <2>2. Fail(class)
    BY <1>2, <1>3, <2>1, ReactIs
  <2> QED  BY <2>1, <2>2 DEF Fail, NoStack
<1> QED  BY <1>6, <1>7

(* A refresh that Nobus answered keeps no object that is missing, whatever  *)
(* went wrong before it: Read of every resource returns no ID for an object *)
(* that is not found, and the engine drops that from the stack.             *)
THEOREM LossAlwaysNoticed == Spec => LossNoticed
<1>1. Shape /\ [Next]_vars =>
        ((/\ op.do = "refresh" /\ op'.do = "idle"
          /\ faults \cap {"refuse", "lost"} = {}
          /\ "blank" \notin faults \/ Calls.get # "unchecked")
         => stack'.id = None \/ stack'.id \in Live')
  BY LossIsNoticed
<1> QED  BY <1>1, ShapeHolds, PTL DEF Spec, LossNoticed

-----------------------------------------------------------------------------
(* What was made is in the stack. *)
SameScope(fields, args) == \A f \in Scope : fields[f] = args[f]

(* No operation moves an object to another zone or project. *)
LEMMA ScopeKept ==
    ASSUME Types, NEW args \in FieldsOf(kind), NEW reply \in FieldsOf(kind)
    PROVE  /\ SameScope(Kept(kind, args), args) /\ SameScope(Renewed(kind, args), args)
           /\ SameScope(Learn(args, Resource[kind].created, reply), args)
           /\ SameScope(Learn(args, Resource[kind].read, reply), args)
           /\ SameScope(Learn(args, Resource[kind].updated, reply), args)
           /\ SameScope(Made(Post(kind, args)).fields, args)
<1>1. kind \in Kinded /\ kind \in Kinds /\ Row(kind)
  BY KindIs DEF Types
<1>2. \A f \in Scope : f \in ArgsOf(kind) /\ f \notin DOMAIN Resource[kind].default
         /\ f \notin Resource[kind].normal /\ f \notin Resource[kind].renormal
  BY <1>1 DEF Row, ArgsOf
<1>3. SameScope(Kept(kind, args), args)
  BY <1>1, <1>2, KeptIs DEF SameScope
<1>4. SameScope(Renewed(kind, args), args)
  BY <1>1, <1>2, RenewedIs DEF SameScope
<1>5. ASSUME NEW rule \in {Resource[kind].created, Resource[kind].read, Resource[kind].updated}
      PROVE  SameScope(Learn(args, rule, reply), args)
  <2>1. rule.take \cap rule.fill = {} /\ \A f \in Scope : f \notin rule.take /\ f \notin rule.fill
    BY <1>1 DEF Row
  <2> QED  BY <1>2, <2>1, LearnIs DEF SameScope, FieldsOf
<1>6. SameScope(Made(Post(kind, args)).fields, args)
  <2> DEFINE body == Post(kind, args)
  <2>1. /\ body \in [Resource[kind].calls.post \cup Scope -> SUBSET Names]
        /\ \A f \in Scope : body[f] = args[f]
    BY <1>1, PostIs
  <2>2. (\A f \in DOMAIN body : body[f] \in SUBSET Names) /\ Scope \subseteq DOMAIN body
    BY <2>1
  <2> HIDE DEF body
  <2>3. \A f \in ArgsOf(kind) : Made(body).fields[f] =
           Filled(body, IF kind = "Network" /\ f = "name" THEN "networkName" ELSE f)
    BY <1>1, <2>2, MadeIs
  <2>4. \A f \in Scope : Filled(body, f) = args[f] /\ f # "name"
    BY <2>1, <2>2 DEF Filled, Scope
  <2> QED  BY <1>2, <2>3, <2>4 DEF SameScope, body
<1> QED  BY <1>3, <1>4, <1>5, <1>6

(* A call on an object that is there leaves it there. *)
LEMMA TouchIs ==
    ASSUME Types, NEW c, Sent(c), Found, c.name \notin {"post", "delete"}
    PROVE  /\ ObjectOf(c) = Addressed
           /\ After(c).status # "none"
           /\ SameScope(After(c).fields, remote[Addressed].fields)
           /\ c.name \notin {"resize", "confirm"} => After(c).status = remote[Addressed].status
<1> DEFINE x == remote[Addressed]
<1>1. /\ ObjectOf(c) = Addressed /\ Addressed \in Objects /\ x.status # "none"
      /\ x.fields \in FieldsOf(kind)
  BY DEF ObjectOf, Found, Types, ObjectOfKind
<1>2. c \in CallsOf(kind) /\ c.name \in CallNames /\ op.do \in Dos /\ kind \in Kinded /\ Row(kind)
      /\ stack.state \in FieldsOf(kind) /\ op.news \in FieldsOf(kind)
  BY KindIs DEF Sent, CallsOf, Types
<1>3. c.name \in {"put", "rename", "tags"} => DOMAIN c.body \cap Scope = {}
  <2>1. CASE op.do = "create" \/ kind = "Instance"
    BY <1>2, <2>1 DEF Sent, Following, Updating, Dos, Scope
  <2>2. CASE op.do = "update" /\ kind # "Instance"
    <3>1. c.name = "put" => c.body = Put(kind, stack.state, op.news)
      BY <2>2 DEF Sent, Updating
    <3>2. DOMAIN Put(kind, stack.state, op.news) \cap Scope = {}
      BY <1>2, PutIs
    <3>3. c.name \notin {"rename", "tags"}
      BY <2>2 DEF Sent, Updating
    <3> QED  BY <3>1, <3>2, <3>3
  <2>3. CASE op.do \notin {"create", "update"}
    BY <1>2, <2>3 DEF Sent, Dos
  <2> QED  BY <2>1, <2>2, <2>3
<1> HIDE DEF x
<1>4. CASE c.name \in {"put", "rename", "tags"}
  <2>1. After(c) = [status |-> x.status, fields |-> Merge(x.fields, c.body)]
    BY <1>1, <1>4 DEF After, x
  <2>2. \A f \in ArgsOf(kind) : Merge(x.fields, c.body)[f] = IF f \in DOMAIN c.body THEN c.body[f] ELSE x.fields[f]
    BY <1>1 DEF Merge, FieldsOf
  <2>3. SameScope(Merge(x.fields, c.body), x.fields)
    BY <1>2, <1>3, <1>4, <2>2 DEF SameScope, Row, ArgsOf
  <2> QED  BY <1>1, <1>4, <2>1, <2>3 DEF x
<1>5. CASE c.name \in {"resize", "remove", "attach"}
  <2>1. \E g \in {"flavor", "securityGroups"} : \E v, t :
           /\ After(c) = [status |-> t, fields |-> [x.fields EXCEPT ![g] = v]]
           /\ t # "none" /\ (c.name # "resize" => t = x.status)
    <3>1. CASE c.name = "resize"
      BY <1>1, <3>1 DEF After, x
    <3>2. CASE c.name = "remove"
      BY <1>1, <3>2 DEF After, x
    <3>3. CASE c.name = "attach"
      BY <1>1, <3>3 DEF After, x
    <3> QED  BY <1>5, <3>1, <3>2, <3>3
  <2>2. \A g \in {"flavor", "securityGroups"} : \A v :
           SameScope([x.fields EXCEPT ![g] = v], x.fields)
    BY <1>1 DEF SameScope, Scope, FieldsOf
  <2> QED  BY <1>1, <1>5, <2>1, <2>2 DEF x
<1>6. CASE c.name = "confirm"
  BY <1>1, <1>6 DEF After, SameScope, x
<1>7. CASE c.name \in {"resized", "verify", "wait", "get"}
  BY <1>1, <1>7 DEF After, SameScope, x
<1> QED  BY <1>2, <1>4, <1>5, <1>6, <1>7 DEF CallNames

Quiet ==
    /\ faults \cap {"lost", "move", "import"} = {}
    /\ Resource[kind].follow = {} \/ faults \cap {"refuse", "wait", "gone"} = {}

Tidied ==
    /\ op.do # "import"
    /\ op.do # "create" => Live \subseteq {stack.id}
    /\ op.do = "create" /\ op.made = None => Live = {}
    /\ op.do = "create" /\ op.made # None =>
         /\ Live = {op.made} /\ remote[op.made].status = "ready"
         /\ SameScope(remote[op.made].fields, op.news)
    /\ stack.id \in Live => SameScope(remote[stack.id].fields, stack.state)
    /\ stack.id # None => stack.state["projectId"] = checkResourceArgs(program)["projectId"]
    /\ op.do = "update" => SameScope(stack.state, op.news)

Tidy == Quiet => Tidied

LEMMA LiveIs == /\ \A o : o \in Live <=> o \in Objects /\ remote[o].status # "none"
                /\ \A o : o \in Live' <=> o \in Objects /\ remote'[o].status # "none"
BY DEF Live

LEMMA MadeMeansFollow ==
    ASSUME Shape, op.do = "create", op.made # None
    PROVE  Resource[kind].follow # {}
<1>1. op.calls # <<>> /\ op.calls \in Seq(Following(kind, op.news)) /\ Row(kind)
  BY KindIs DEF Shape, Creating, Resting
<1>2. Head(op.calls) \in Following(kind, op.news)
  <2> DEFINE F == Following(kind, op.news)
  <2>1. op.calls \in Seq(F)
    BY <1>1
  <2> HIDE DEF F
  <2> QED  BY <1>1, <2>1, HeadTailProperties DEF F
<1> QED  BY <1>1, <1>2 DEF Following, Row

(* The end of a create finds its object in the stack. *)
LEMMA CreateTidy ==
    ASSUME Shape, Quiet, NEW c, op.do = "create", NEW class, NEW id \in Objects, id = ObjectOf(c),
           remote' \in [Objects -> ObjectOfKind(kind)], class \in {"ok", "blank"},
           Live' = {id}, remote'[id].status = "ready", SameScope(remote'[id].fields, op.news),
           UNCHANGED <<kind, faults, program>>,
           Advance(c, class)
    PROVE  Tidied'
<1>1. Types /\ op.news \in FieldsOf(kind) /\ op.news = checkResourceArgs(program) /\ stack.id = None
  BY DEF Shape, Types, Checked, Creating
<1>2. CASE Commit(id, class)
  <2> DEFINE reply == Reply(id, class)
             state == Learn(Kept(kind, op.news), Resource[kind].created, reply)
  <2>1. stack' = [id |-> id, state |-> state] /\ op' = Idle
    BY <1>2 DEF Commit
  <2>2. reply \in FieldsOf(kind) /\ Kept(kind, op.news) \in FieldsOf(kind)
    BY <1>1, ReplyIs, KeptIs, KindIs
  <2> HIDE DEF reply
  <2>3. SameScope(state, Kept(kind, op.news)) /\ SameScope(Kept(kind, op.news), op.news)
    BY <1>1, <2>2, ScopeKept
  <2>4. SameScope(state, op.news)
    BY <2>3 DEF SameScope
  <2> HIDE DEF state
  <2>5. stack'.id = id /\ stack'.state = state /\ op'.do = "idle"
    BY <2>1 DEF Idle
  <2>6. SameScope(remote'[id].fields, state)
    BY <2>4 DEF SameScope
  <2>7. state["projectId"] = checkResourceArgs(program')["projectId"]
    BY <1>1, <2>4 DEF SameScope, Scope
  <2> QED  BY <2>5, <2>6, <2>7 DEF Tidied
<1>3. CASE /\ op' = [op EXCEPT !.calls = Rest(c), !.attempt = 1, !.made = id]
           /\ UNCHANGED <<stack, applied, upToDate>>
  <2>1. op'.do = "create" /\ op'.made = id /\ op'.news = op.news /\ stack' = stack
    BY <1>1, <1>3 DEF Types
  <2>2. id # None /\ stack'.id = None /\ None \notin Live'
    BY <1>1, <2>1, StackAssumption
  <2> QED  BY <2>1, <2>2 DEF Tidied
<1> QED  BY <1>2, <1>3, AdvanceIs

LEMMA ServeTidy == Shape /\ Quiet /\ Tidied /\ Serve => Tidied'
<1> SUFFICES ASSUME Shape, Quiet, Tidied, Serve PROVE Tidied'
  OBVIOUS
<1> DEFINE c == Head(op.calls)
<1>1. PICK class : Sent(c) /\ Room(c) /\ React(c, class) /\ Outcome(c, class)
  BY ServeIs
<1>2. Types /\ remote' \in [Objects -> ObjectOfKind(kind)]
  BY <1>1, RemoteIs DEF Shape
<1>3. /\ op.news \in FieldsOf(kind) /\ stack.state \in FieldsOf(kind) /\ op.do \in Dos
      /\ stack.id \in Objects \cup {None, Blank}
  BY <1>2 DEF Types
<1>4. UNCHANGED <<kind, faults, program, turns>>
  BY <1>1, ReactIs
<1>5. c.name \in CallNames
  BY <1>1 DEF Sent, CallsOf
<1>6. op.do # "create" => Rest(c) = <<>> \/ op.do = "update"
  BY <1>1, RestIs DEF Sent
<1>7. c.name = "post" => op.do = "create" /\ op.made = None /\ c.body = Post(kind, op.news)
  BY <1>1 DEF Sent
<1>8. op.do = "create" /\ op.made = None => c.name = "post"
  BY DEF Shape, Creating, Call
<1> HIDE DEF c
<1>9. ASSUME UNCHANGED <<remote, stack>>, op'.do = op.do, op'.made = op.made, op'.news = op.news
      PROVE  Tidied'
  BY <1>4, <1>9 DEF Tidied, Live
<1>10. ASSUME UNCHANGED <<remote, stack>>, op'.do = "idle", Live \subseteq {stack.id}
      PROVE  Tidied'
  BY <1>4, <1>10 DEF Tidied, Live
<1>11. ASSUME op' = [op EXCEPT !.attempt = @ + 1]
       PROVE  op'.do = op.do /\ op'.made = op.made /\ op'.news = op.news
  BY <1>2, <1>11 DEF Types
<1>12. ASSUME Fail(class), remote' = remote, ~(op.do = "refresh" /\ class = "notFound"),
              op.do = "create" => Live = {}
       PROVE  Tidied'
  <2>1. stack' = stack /\ op'.do = "idle"
    BY <1>12 DEF Fail, Idle, Tidied
  <2>2. Live \subseteq {stack.id}
    BY <1>12 DEF Tidied
  <2> QED  BY <1>10, <1>12, <2>1, <2>2
<1>13. CASE op.do = "create" /\ op.made = None
  <2>1. Live = {}
    BY <1>13 DEF Tidied
  <2>2. CASE class = "ok"
    <3> DEFINE id == ObjectOf(c)
    <3>1. remote' = Effect(c) /\ id \in Objects
      BY <1>1, <1>2, <2>2, EffectIs DEF Outcome
    <3>2. Effect(c)[id] = After(c) /\ \A o \in Objects \ {id} : Effect(c)[o] = remote[o]
      BY <1>1, <1>2, <1>8, <1>13, EffectIs
    <3> HIDE DEF id
    <3>3. After(c) = Made(Post(kind, op.news))
      BY <1>7, <1>8, <1>13 DEF After
    <3>4. SameScope(Made(Post(kind, op.news)).fields, op.news)
      BY <1>2, <1>3, ScopeKept
    <3>5. Made(Post(kind, op.news)).status = "ready"
      BY DEF Made
    <3>6. remote'[id].status = "ready" /\ SameScope(remote'[id].fields, op.news)
      BY <3>1, <3>2, <3>3, <3>4, <3>5
    <3>7. Live' = {id}
      BY <2>1, <3>1, <3>2, <3>6, LiveIs
    <3>8. Advance(c, class)
      BY <1>1, <2>2, ReactIs DEF do, Fail
    <3> QED  BY <1>2, <1>4, <1>13, <2>2, <3>1, <3>6, <3>7, <3>8, CreateTidy DEF id
  <2>3. CASE class # "ok"
    <3>1. remote' = remote /\ class \notin {"blank", "notFound"}
      BY <1>1, <1>8, <1>13, <2>3 DEF Outcome, Quiet, Waited
    <3>2. \/ op' = [op EXCEPT !.attempt = @ + 1] /\ UNCHANGED <<stack, applied, upToDate>>
          \/ Fail(class)
      BY <1>1, <2>3, <3>1, ReactIs
    <3> QED  BY <1>9, <1>11, <1>12, <1>13, <2>1, <3>1, <3>2
  <2> QED  BY <2>2, <2>3
<1>14. CASE op.do = "create" /\ op.made # None
  <2>1. /\ Live = {op.made} /\ remote[op.made].status = "ready"
        /\ SameScope(remote[op.made].fields, op.news)
    BY <1>14 DEF Tidied
  <2>2. Addressed = op.made /\ Target = op.news
    BY <1>14 DEF Addressed, Target
  <2>3. Found
    BY <2>1, <2>2, LiveIs DEF Found, SameScope
  <2>4. faults \cap {"refuse", "wait", "gone", "lost"} = {}
    BY <1>14, MadeMeansFollow DEF Quiet
  <2>5. c.name \in {"wait", "get", "tags"}
    BY <1>1, <1>7, <1>14 DEF Sent, Following
  <2>6. WaitInstanceStatus(c.name)
    BY <2>1, <2>2 DEF WaitInstanceStatus, Shown
  <2>7. class = "ok" /\ remote' = Effect(c)
    BY <1>1, <2>3, <2>4, <2>5, <2>6 DEF Outcome, Redone
  <2>8. /\ ObjectOf(c) = op.made /\ op.made \in Objects
        /\ Effect(c)[op.made] = After(c) /\ \A o \in Objects \ {op.made} : Effect(c)[o] = remote[o]
    BY <1>1, <1>2, <2>2, <2>3, <2>5, EffectIs, TouchIs
  <2>9. After(c).status = "ready" /\ SameScope(After(c).fields, remote[op.made].fields)
    BY <1>1, <1>2, <2>1, <2>2, <2>3, <2>5, TouchIs
  <2>10. remote'[op.made].status = "ready" /\ SameScope(remote'[op.made].fields, op.news)
    BY <2>1, <2>7, <2>8, <2>9 DEF SameScope
  <2>11. Live' = {op.made}
    BY <2>1, <2>7, <2>8, <2>10, LiveIs
  <2>12. Advance(c, class)
    BY <1>1, <2>7, ReactIs DEF do, Fail
  <2> QED  BY <1>2, <1>4, <1>14, <2>7, <2>8, <2>10, <2>11, <2>12, CreateTidy
<1>15. CASE op.do = "update"
  <2>1. Addressed = stack.id /\ Target = op.news /\ c.name \notin {"post", "delete"}
    BY <1>1, <1>7, <1>15 DEF Addressed, Target, Sent
  <2>2. /\ Live' = Live
        /\ stack.id \in Live => SameScope(remote'[stack.id].fields, remote[stack.id].fields)
    <3>1. CASE remote' = remote
      BY <3>1 DEF Live, SameScope
    <3>2. CASE remote' = Effect(c) /\ Found
      <4>1. /\ ObjectOf(c) = stack.id /\ stack.id \in Objects
            /\ Effect(c)[stack.id] = After(c)
            /\ \A o \in Objects \ {stack.id} : Effect(c)[o] = remote[o]
        BY <1>1, <1>2, <2>1, <3>2, EffectIs, TouchIs
      <4>2. After(c).status # "none" /\ SameScope(After(c).fields, remote[stack.id].fields)
        BY <1>1, <1>2, <2>1, <3>2, TouchIs
      <4>3. remote[stack.id].status # "none"
        BY <2>1, <3>2 DEF Found
      <4>4. \A o : o \in Live' <=> o \in Live
        BY <3>2, <4>1, <4>2, <4>3, LiveIs
      <4>5. Live' = Live
        BY <4>4
      <4> QED  BY <3>2, <4>1, <4>2, <4>5
    <3> QED  BY <1>1, <2>1, <3>1, <3>2 DEF Outcome, Quiet
  <2>3. /\ Live \subseteq {stack.id} /\ SameScope(stack.state, op.news)
        /\ stack.id \in Live => SameScope(remote[stack.id].fields, stack.state)
        /\ stack.id # None => stack.state["projectId"] = checkResourceArgs(program)["projectId"]
    BY <1>15 DEF Tidied
  <2>4. stack.id \in Live => SameScope(remote'[stack.id].fields, stack.state)
    BY <2>2, <2>3 DEF SameScope
  <2>5. ASSUME op'.do \in {"update", "idle"}, op'.news = op.news \/ op'.do = "idle",
               stack'.id = stack.id, SameScope(stack'.state, stack.state)
        PROVE  Tidied'
    <3>1. stack'.id \in Live' => SameScope(remote'[stack'.id].fields, stack'.state)
      BY <2>2, <2>4, <2>5 DEF SameScope
    <3>2. stack'.id # None => stack'.state["projectId"] = checkResourceArgs(program')["projectId"]
      BY <1>4, <2>3, <2>5 DEF SameScope, Scope
    <3>3. op'.do = "update" => SameScope(stack'.state, op'.news)
      BY <2>3, <2>5 DEF SameScope
    <3> QED  BY <2>2, <2>3, <2>5, <3>1, <3>2, <3>3 DEF Tidied
  <2>6. CASE Commit(ObjectOf(c), class) /\ class \in {"ok", "blank"}
    <3> DEFINE reply == Reply(ObjectOf(c), class)
               state == Learn(Renewed(kind, op.news), Resource[kind].updated, reply)
    <3>1. stack' = [stack EXCEPT !.state = state] /\ op' = Idle
      BY <1>15, <2>6 DEF Commit
    <3>2. reply \in FieldsOf(kind) /\ Renewed(kind, op.news) \in FieldsOf(kind)
      BY <1>1, <1>2, <1>3, RemoteIs, ReplyIs, RenewedIs, KindIs
    <3> HIDE DEF reply
    <3>3. SameScope(state, Renewed(kind, op.news)) /\ SameScope(Renewed(kind, op.news), op.news)
      BY <1>2, <1>3, <3>2, ScopeKept
    <3> HIDE DEF state
    <3>4. stack'.id = stack.id /\ stack'.state = state /\ op'.do = "idle"
      BY <1>2, <3>1 DEF Idle, Types
    <3>5. SameScope(stack'.state, stack.state)
      BY <2>3, <3>3, <3>4 DEF SameScope
    <3> QED  BY <2>5, <3>4, <3>5
  <2>7. CASE /\ op' = [op EXCEPT !.calls = Rest(c), !.attempt = 1,
                                 !.made = IF op.do = "create" THEN ObjectOf(c) ELSE None]
             /\ UNCHANGED <<stack, applied, upToDate>>
    <3>1. op'.do = op.do /\ op'.news = op.news /\ stack' = stack
      BY <1>2, <2>7 DEF Types
    <3> QED  BY <1>15, <2>5, <3>1 DEF SameScope
  <2>8. CASE op' = [op EXCEPT !.attempt = @ + 1] /\ UNCHANGED <<stack, applied, upToDate>>
    BY <1>11, <1>15, <2>5, <2>8 DEF SameScope
  <2>9. CASE Fail(class)
    <3>1. stack' = stack /\ op'.do = "idle"
      BY <1>15, <2>9 DEF Fail, Idle
    <3> QED  BY <2>5, <3>1 DEF SameScope
  <2> QED  BY <1>1, <2>1, <2>6, <2>7, <2>8, <2>9, ReactIs, AdvanceIs
<1>16. CASE op.do \in {"replace", "destroy"}
  <2>1. Addressed = stack.id /\ Target = stack.state /\ c.name = "delete"
    BY <1>1, <1>16 DEF Addressed, Target, Sent
  <2>2. Live \subseteq {stack.id} /\ (stack.id \in Live => SameScope(remote[stack.id].fields, stack.state))
    BY <1>16 DEF Tidied
  <2>3. ~Found => Live = {}
    <3>1. stack.id \in Live => Found
      BY <2>1, <2>2, LiveIs DEF Found, SameScope
    <3> QED  BY <2>2, <3>1
  <2>4. CASE Advance(c, class) /\ (class \in {"ok", "blank"} \/ class = "notFound")
    <3>1. Live' = {}
      <4>1. CASE class = "ok"
        <5>1. Found /\ remote' = Effect(c)
          BY <1>1, <2>1, <4>1 DEF Outcome
        <5>2. Effect(c)[stack.id] = NoObject /\ \A o \in Objects \ {stack.id} : Effect(c)[o] = remote[o]
          BY <1>1, <1>2, <2>1, <5>1, EffectIs DEF After, ObjectOf
        <5>3. NoObject.status = "none"
          BY DEF NoObject
        <5> QED  BY <2>2, <5>1, <5>2, <5>3, LiveIs
      <4>2. CASE class # "ok"
        <5>1. class = "notFound"
          <6>1. class # "blank"
            BY <1>1, <2>1 DEF Outcome
          <6> QED  BY <2>4, <4>2, <6>1
        <5>2. ~Found /\ remote' = remote
          BY <1>1, <5>1 DEF Outcome
        <5> QED  BY <2>3, <5>2 DEF Live
      <4> QED  BY <4>1, <4>2
    <3>2. Commit(ObjectOf(c), class)
      BY <1>6, <1>16, <2>4, AdvanceIs
    <3>3. stack'.id = None /\ (op'.do = "idle" \/ (op'.do = "create" /\ op'.made = None))
      BY <1>16, <3>2 DEF Commit, NoStack, Idle, Start
    <3> QED  BY <3>1, <3>3 DEF Tidied
  <2>5. CASE op' = [op EXCEPT !.attempt = @ + 1] /\ UNCHANGED <<stack, applied, upToDate>> /\ class = "unavailable"
    <3>1. remote' = remote
      BY <1>1, <2>5 DEF Outcome, Quiet
    <3> QED  BY <1>9, <1>11, <2>5, <3>1
  <2>6. CASE Fail(class) /\ class # "ok"
    <3>1. remote' = remote
      BY <1>1, <2>6 DEF Outcome, Quiet
    <3> QED  BY <1>12, <1>16, <2>6, <3>1
  <2> QED  BY <1>1, <2>4, <2>5, <2>6, ReactIs
<1>17. CASE op.do = "refresh"
  <2>1. Addressed = stack.id /\ Target = stack.state /\ c.name = "get" /\ ObjectOf(c) = stack.id
    BY <1>1, <1>17 DEF Addressed, Target, Sent, ObjectOf
  <2>2. Live \subseteq {stack.id} /\ (stack.id \in Live => SameScope(remote[stack.id].fields, stack.state))
        /\ (stack.id # None => stack.state["projectId"] = checkResourceArgs(program)["projectId"])
        /\ stack.id # None
    BY <1>17 DEF Tidied, Shape, Single
  <2>3. ~Found => Live = {}
    <3>1. stack.id \in Live => Found
      BY <2>1, <2>2, LiveIs DEF Found, SameScope
    <3> QED  BY <2>2, <3>1
  <2>4. remote' = remote
    BY <1>1, <2>1, GetIs DEF Outcome
  <2>5. CASE Advance(c, class) /\ class \in {"ok", "blank"}
    <3> DEFINE reply == Reply(stack.id, class)
               state == Learn(stack.state, Resource[kind].read, reply)
    <3>1. Commit(stack.id, class)
      BY <1>6, <1>17, <2>1, <2>5, AdvanceIs
    <3>2. stack' = [id |-> IF class = "ok" THEN stack.id ELSE Blank, state |-> state] /\ op' = Idle
      BY <1>17, <3>1 DEF Commit
    <3>3. reply \in FieldsOf(kind)
      BY <1>1, <1>2, <2>1, RemoteIs, ReplyIs
    <3> HIDE DEF reply
    <3>4. SameScope(state, stack.state)
      BY <1>2, <1>3, <3>3, ScopeKept
    <3> HIDE DEF state
    <3>5. /\ stack'.id = (IF class = "ok" THEN stack.id ELSE Blank) /\ stack'.state = state
          /\ op'.do = "idle"
      BY <3>2 DEF Idle
    <3>6. class = "blank" => Live = {}
      BY <1>1, <2>3 DEF Outcome
    <3>7. Live' = Live /\ Live' \subseteq {stack'.id}
      BY <2>2, <2>4, <2>5, <3>5, <3>6 DEF Live
    <3>8. stack'.id \in Live' => SameScope(remote'[stack'.id].fields, stack'.state)
      BY <2>2, <2>4, <2>5, <3>4, <3>5, <3>6, <3>7 DEF SameScope
    <3>9. stack'.state["projectId"] = checkResourceArgs(program')["projectId"]
      BY <1>4, <2>2, <3>4, <3>5 DEF SameScope, Scope
    <3> QED  BY <3>5, <3>7, <3>8, <3>9 DEF Tidied
  <2>6. CASE op' = [op EXCEPT !.attempt = @ + 1] /\ UNCHANGED <<stack, applied, upToDate>>
    BY <1>9, <1>11, <2>4, <2>6
  <2>7. CASE Fail(class)
    <3>1. CASE class = "notFound"
      <4>1. Live' = {}
        BY <1>1, <2>3, <2>4, <3>1 DEF Outcome, Live
      <4>2. stack'.id = None /\ op'.do = "idle"
        BY <1>17, <2>7, <3>1 DEF Fail, NoStack, Idle
      <4> QED  BY <4>1, <4>2 DEF Tidied
    <3>2. CASE class # "notFound"
      BY <1>12, <1>17, <2>4, <2>7, <3>2
    <3> QED  BY <3>1, <3>2
  <2> QED  BY <1>1, <2>1, <2>5, <2>6, <2>7, ReactIs
<1> QED  BY <1>1, <1>3, <1>13, <1>14, <1>15, <1>16, <1>17 DEF Dos, Sent, Tidied

LEMMA SameZone ==
    ASSUME Types, Check(kind, program),
           replaceDiff(kind, stack.state, checkResourceArgs(program)) = {}
    PROVE  stack.state["availabilityZone"] = checkResourceArgs(program)["availabilityZone"]
<1> DEFINE news == checkResourceArgs(program)
           rules == Resource[kind].diff.replace
           z == "availabilityZone"
<1>1. z \in DOMAIN rules /\ rules[z] = "given"
  BY KindIs DEF Row
<1>2. news[z] # {}
  BY DEF Check, Scope
<1> HIDE DEF news
<1>3. replaceDiff(kind, stack.state, news) = {f \in DOMAIN rules : Changed(rules[f], stack.state[f], news[f])}
  BY DEF replaceDiff, ChangedOf
<1>4. ~Changed("given", stack.state[z], news[z])
  BY <1>1, <1>3 DEF news
<1> QED  BY <1>2, <1>4 DEF Changed, news

LEMMA UpTidy == Shape /\ Tidied /\ Up => Tidied'
<1> SUFFICES ASSUME Shape, Tidied, Up PROVE Tidied'
  OBVIOUS
<1> DEFINE news == checkResourceArgs(program)
<1>1. Types /\ news \in FieldsOf(kind)
  BY CheckedIs, KindIs DEF Shape, Types, Row, FieldsOf, ArgsOf
<1>2. /\ op.do = "idle" /\ UNCHANGED <<kind, faults, program, remote, turns, trouble>>
      /\ Check(kind, program)
  BY DEF Up
<1>3. /\ Live' = Live /\ Live \subseteq {stack.id}
      /\ stack.id \in Live => SameScope(remote[stack.id].fields, stack.state)
      /\ stack.id # None => stack.state["projectId"] = news["projectId"]
  BY <1>2 DEF Tidied, Live
<1>4. stack.id # None /\ replaceDiff(kind, stack.state, news) = {} => SameScope(stack.state, news)
  BY <1>1, <1>2, <1>3, SameZone DEF SameScope, Scope
<1>5. CASE stack.id = None /\ Start("create", Create(news), news) /\ UNCHANGED stack
  <2>1. op'.do = "create" /\ op'.made = None /\ stack'.id = None
    BY <1>5 DEF Start
  <2>2. Live' = {}
    BY <1>3, <1>5, StackAssumption DEF Live
  <2> QED  BY <2>1, <2>2 DEF Tidied
<1>6. CASE stack.id # None /\ Start("replace", <<Plain("delete")>>, news) /\ UNCHANGED stack
  <2>1. op'.do = "replace" /\ stack' = stack
    BY <1>6 DEF Start
  <2> QED  BY <1>2, <1>3, <2>1 DEF Tidied
<1>7. CASE UNCHANGED <<stack, op>>
  BY <1>2, <1>3, <1>7 DEF Tidied
<1>8. CASE /\ stack.id # None /\ replaceDiff(kind, stack.state, news) = {}
           /\ stack' = [stack EXCEPT !.state = Renewed(kind, news)] /\ UNCHANGED op
  <2> DEFINE state == Renewed(kind, news)
  <2>0. NoArgs \in FieldsOf(kind)
    BY <1>1, KindIs
  <2>1. SameScope(state, news)
    BY <1>1, <2>0, ScopeKept
  <2> HIDE DEF state
  <2>2. stack' = [stack EXCEPT !.state = state]
    BY <1>8 DEF state
  <2>3. stack'.id = stack.id /\ stack'.state = state
    BY <1>1, <2>2 DEF Types
  <2>4. SameScope(state, stack.state)
    BY <1>4, <1>8, <2>1 DEF SameScope
  <2>5. stack'.id \in Live' => SameScope(remote'[stack'.id].fields, stack'.state)
    BY <1>2, <1>3, <2>3, <2>4 DEF SameScope
  <2>6. stack'.state["projectId"] = checkResourceArgs(program')["projectId"]
    BY <1>2, <2>1, <2>3 DEF SameScope, Scope
  <2> QED  BY <1>2, <1>3, <1>8, <2>3, <2>5, <2>6 DEF Tidied
<1>9. CASE /\ stack.id # None /\ replaceDiff(kind, stack.state, news) = {}
           /\ Start("update", Update(stack.state, news), news) /\ UNCHANGED stack
  <2>1. op'.do = "update" /\ op'.news = news /\ stack' = stack
    BY <1>9 DEF Start
  <2>2. SameScope(stack'.state, op'.news)
    BY <1>4, <1>9, <2>1
  <2> QED  BY <1>2, <1>3, <2>1, <2>2 DEF Tidied
<1> HIDE DEF news
<1> QED  BY <1>5, <1>6, <1>7, <1>8, <1>9 DEF Up, news

LEMMA NextTidy == Shape /\ Tidy /\ [Next]_vars => Tidy'
<1> SUFFICES ASSUME Shape, Tidy, [Next]_vars, Quiet' PROVE Tidied'
  BY DEF Tidy
<1>1. Quiet
  <2>1. UNCHANGED <<kind, faults>>
    BY ServeIs, ReactIs DEF Next, vars, Up, UpRefused, Edit, Refresh, Destroy, Import, Vanish, Resized
  <2> QED  BY <2>1 DEF Quiet
<1>2. Tidied /\ Types /\ faults \cap {"lost", "move", "import"} = {}
  BY <1>1 DEF Tidy, Shape, Quiet
<1>3. CASE UNCHANGED vars
  BY <1>2, <1>3 DEF vars, Tidied, Live
<1>4. CASE Edit
  <2>1. PICK f \in Args : \E v \in Values(f) : /\ f # "projectId"
                                               /\ program' = [program EXCEPT ![f] = v]
    BY <1>2, <1>4 DEF Edit
  <2>2. program'["projectId"] = program["projectId"]
    BY <1>2, <2>1 DEF Types, FieldsOf
  <2>3. program \in FieldsOf(kind) /\ program' \in FieldsOf(kind) /\ Scope \subseteq ArgsOf(kind)
    BY <1>2, <1>4, EditShape, KindIs DEF Shape, Types, Edit, Row, ArgsOf
  <2>4. checkResourceArgs(program')["projectId"] = checkResourceArgs(program)["projectId"]
    BY <2>2, <2>3, CheckedIs DEF FieldsOf
  <2>5. UNCHANGED <<stack, remote, op>>
    BY <1>4 DEF Edit
  <2> QED  BY <1>2, <2>4, <2>5 DEF Tidied, Live
<1>5. CASE Refresh \/ Destroy
  <2>1. op'.do \in {"refresh", "destroy"} /\ op.do = "idle" /\ UNCHANGED <<stack, remote, program>>
    BY <1>5 DEF Refresh, Destroy, Start
  <2> QED  BY <1>2, <2>1 DEF Tidied, Live
<1>6. CASE Import
  BY <1>2, <1>6 DEF Import
<1>7. CASE Vanish
  <2>1. PICK o \in Live : remote' = [remote EXCEPT ![o] = NoObject]
    BY <1>7 DEF Vanish
  <2>2. UNCHANGED <<program, stack, op>> /\ "gone" \in faults
    BY <1>7 DEF Vanish
  <2>3. ~(op.do = "create" /\ op.made # None)
    BY <1>1, <2>2, MadeMeansFollow DEF Quiet
  <2>4. /\ \A x \in Objects : x # o => remote'[x] = remote[x]
        /\ remote'[o].status = "none" /\ o \in Objects
    BY <1>2, <2>1 DEF Types, NoObject, Live
  <2>5. Live' \subseteq Live /\ \A x \in Live' : remote'[x] = remote[x]
    BY <2>4, LiveIs
  <2> QED  BY <1>2, <2>2, <2>3, <2>5 DEF Tidied
<1>8. CASE Resized
  <2>1. PICK o \in Objects :
           /\ remote[o].status = "resizing"
           /\ remote' = [remote EXCEPT ![o] = [status |-> "verify", fields |-> remote[o].fields]]
    BY <1>2, <1>8, ResizedIs
  <2>2. UNCHANGED <<program, stack, op>>
    BY <1>8 DEF Resized
  <2>3. /\ \A x \in Objects \ {o} : remote'[x] = remote[x]
        /\ remote'[o].status = "verify" /\ remote'[o].fields = remote[o].fields
    BY <1>2, <2>1 DEF Types
  <2>4. \A x : x \in Live' <=> x \in Live
    BY <2>1, <2>3, LiveIs
  <2>5. Live' = Live
    BY <2>4
  <2>6. \A x \in Objects : remote'[x].fields = remote[x].fields
    BY <2>3
  <2>7. op.do = "create" /\ op.made # None => op.made # o /\ op.made \in Objects
    BY <1>2, <2>1 DEF Tidied, Types
  <2>8. stack.id \in Live => stack.id \in Objects
    BY DEF Live
  <2> QED  BY <1>2, <2>2, <2>3, <2>5, <2>6, <2>7, <2>8 DEF Tidied
<1>9. CASE UpRefused
  BY <1>3, <1>9 DEF UpRefused
<1> QED  BY <1>1, <1>2, <1>3, <1>4, <1>5, <1>6, <1>7, <1>8, <1>9, UpTidy, ServeTidy DEF Next

LEMMA InitTidy == Init => Tidy
<1> SUFFICES ASSUME Init, Quiet PROVE Tidied
  BY DEF Tidy
<1>1. Types
  BY InitShape DEF Shape
<1>2. PICK first \in Objects : remote = [o \in Objects |-> IF "import" \in faults /\ o = first
                       THEN Described(checkResourceArgs(program)) ELSE NoObject]
  BY DEF Init
<1>3. Live = {}
  BY <1>2 DEF Live, Quiet, NoObject
<1>4. stack.id = None /\ op.do = "idle"
  BY DEF Init, NoStack, Idle
<1> QED  BY <1>3, <1>4 DEF Tidied

(* Create that failed, Delete that was refused, a replacement cut short in   *)
(* the middle: between two operations no object is at Nobus that the stack   *)
(* does not have, for any number of requests that fail and are repeated; for *)
(* the kinds whose Create goes on after its POST, as long as these steps do  *)
(* not fail.                                                                 *)
THEOREM NothingIsLeaked == Spec => []NothingLeaked
<1>1. Shape /\ Tidy => NothingLeaked
  BY DEF Shape, Tidy, Quiet, Tidied, NothingLeaked
<1> QED  BY <1>1, InitTidy, NextTidy, ShapeHolds, PTL DEF Spec

-----------------------------------------------------------------------------
(* A resize is confirmed. *)
Ordered(calls) ==
    \A i \in 1..Len(calls) :
       /\ calls[i].name = "resize"  => i + 1 <= Len(calls) /\ calls[i + 1].name = "resized"
       /\ calls[i].name = "resized" => i + 1 <= Len(calls) /\ calls[i + 1].name = "verify"

LEMMA OrderedOther ==
    ASSUME NEW S, \A x \in S : x.name \notin {"resize", "resized"}, NEW s \in Seq(S)
    PROVE  Ordered(s)
BY DEF Ordered

LEMMA OrderedJoin ==
    ASSUME NEW S, NEW s \in Seq(S), NEW t \in Seq(S), Ordered(s), Ordered(t)
    PROVE  Ordered(s \o t)
<1> DEFINE w == s \o t
<1>1. /\ Len(s) \in Nat /\ Len(t) \in Nat /\ Len(w) = Len(s) + Len(t)
      /\ \A i \in 1..(Len(s) + Len(t)) : w[i] = IF i <= Len(s) THEN s[i] ELSE t[i - Len(s)]
  BY ConcatProperties
<1> HIDE DEF w
<1> SUFFICES ASSUME NEW i \in 1..Len(w)
             PROVE  /\ w[i].name = "resize"  => i + 1 <= Len(w) /\ w[i + 1].name = "resized"
                    /\ w[i].name = "resized" => i + 1 <= Len(w) /\ w[i + 1].name = "verify"
  BY DEF Ordered, w
<1>2. CASE i <= Len(s)
  <2>1. w[i] = s[i] /\ (i + 1 <= Len(s) => w[i + 1] = s[i + 1]) /\ i \in 1..Len(s)
    BY <1>1, <1>2
  <2> QED  BY <1>1, <2>1 DEF Ordered
<1>3. CASE ~(i <= Len(s))
  <2>1. /\ w[i] = t[i - Len(s)] /\ i - Len(s) \in 1..Len(t)
        /\ (i + 1 <= Len(w) => w[i + 1] = t[(i - Len(s)) + 1])
    BY <1>1, <1>3
  <2> DEFINE j == i - Len(s)
  <2>2. j + 1 <= Len(t) => i + 1 <= Len(w)
    BY <1>1
  <2> QED  BY <1>1, <2>1, <2>2 DEF Ordered
<1> QED  BY <1>2, <1>3

LEMMA OrderedTail ==
    ASSUME NEW S, NEW s \in Seq(S), s # <<>>, Ordered(s)
    PROVE  Ordered(Tail(s))
<1> DEFINE t == Tail(s)
<1>1. t \in Seq(S) /\ Len(s) \in Nat /\ Len(t) = Len(s) - 1 /\ \A i \in 1..Len(t) : t[i] = s[i + 1]
  BY HeadTailProperties
<1> HIDE DEF t
<1> SUFFICES ASSUME NEW i \in 1..Len(t)
             PROVE  /\ t[i].name = "resize"  => i + 1 <= Len(t) /\ t[i + 1].name = "resized"
                    /\ t[i].name = "resized" => i + 1 <= Len(t) /\ t[i + 1].name = "verify"
  BY DEF Ordered, t
<1>2. /\ t[i] = s[i + 1] /\ i + 1 \in 1..Len(s)
      /\ ((i + 1) + 1 <= Len(s) => i + 1 <= Len(t) /\ t[i + 1] = s[(i + 1) + 1])
  BY <1>1
<1> QED  BY <1>2 DEF Ordered

LEMMA OrderedFirst ==
    ASSUME NEW S, NEW s \in Seq(S), s # <<>>, Ordered(s)
    PROVE  /\ Head(s).name = "resize"  => Tail(s) # <<>> /\ Head(Tail(s)).name = "resized"
           /\ Head(s).name = "resized" => Tail(s) # <<>> /\ Head(Tail(s)).name = "verify"
<1> DEFINE t == Tail(s)
<1>1. /\ t \in Seq(S) /\ Len(s) \in Nat /\ Len(s) >= 1 /\ Len(t) = Len(s) - 1
      /\ \A i \in 1..Len(t) : t[i] = s[i + 1]
  BY HeadTailProperties
<1>2. Head(s) = s[1]
  OBVIOUS
<1> HIDE DEF t
<1>3. 2 <= Len(s) => t # <<>> /\ Head(t) = s[2]
  BY <1>1
<1>4. /\ s[1].name = "resize"  => 1 + 1 <= Len(s) /\ s[1 + 1].name = "resized"
      /\ s[1].name = "resized" => 1 + 1 <= Len(s) /\ s[1 + 1].name = "verify"
  BY <1>1 DEF Ordered
<1> QED  BY <1>2, <1>3, <1>4 DEF t

LEMMA OrderedFour ==
    ASSUME NEW S, NEW s \in Seq(S), NEW t \in Seq(S), NEW u \in Seq(S), NEW v \in Seq(S),
           Ordered(s), Ordered(t \o u \o v)
    PROVE  Ordered(s \o t \o u \o v)
<1>1. t \o u \in Seq(S) /\ t \o u \o v \in Seq(S)
  BY Joined
<1>2. (s \o t) \o u = s \o (t \o u)
  BY ConcatAssociative
<1>3. (s \o (t \o u)) \o v = s \o ((t \o u) \o v)
  <2> DEFINE m == t \o u
  <2>1. m \in Seq(S)
    BY <1>1
  <2> HIDE DEF m
  <2>2. (s \o m) \o v = s \o (m \o v)
    BY <2>1, ConcatAssociative
  <2> QED  BY <2>2 DEF m
<1>4. Ordered(s \o (t \o u \o v))
  BY <1>1, OrderedJoin
<1> QED  BY <1>2, <1>3, <1>4

LEMMA OrderedTriple ==
    ASSUME NEW x, NEW y, NEW z, x.name = "resize", y.name = "resized", z.name = "verify"
    PROVE  Ordered(<<x>> \o <<y>> \o <<z>>)
<1> DEFINE S == {x, y, z}
           s == <<x>> \o <<y>>
           t == s \o <<z>>
<1>1. /\ <<x>> \in Seq(S) /\ Len(<<x>>) = 1 /\ <<x>>[1] = x
      /\ <<y>> \in Seq(S) /\ Len(<<y>>) = 1 /\ <<y>>[1] = y
      /\ <<z>> \in Seq(S) /\ Len(<<z>>) = 1 /\ <<z>>[1] = z
  OBVIOUS
<1> HIDE DEF S
<1>2. s \in Seq(S) /\ Len(s) = 2 /\ s[1] = x /\ s[2] = y
  BY <1>1, ConcatProperties
<1> HIDE DEF s
<1>3. Len(t) = 3 /\ t[1] = x /\ t[2] = y /\ t[3] = z
  <2> DEFINE l == <<z>>
  <2>1. l \in Seq(S) /\ Len(l) = 1 /\ l[1] = z
    BY <1>1
  <2> HIDE DEF l
  <2>2. Len(s \o l) = Len(s) + Len(l)
    BY <2>1, <1>2, ConcatProperties
  <2>3. \A i \in 1..(Len(s) + Len(l)) : (s \o l)[i] = IF i <= Len(s) THEN s[i] ELSE l[i - Len(s)]
    BY <2>1, <1>2, ConcatProperties
  <2>4. Len(s \o l) = 3 /\ (s \o l)[1] = s[1] /\ (s \o l)[2] = s[2] /\ (s \o l)[3] = l[1]
    BY <2>1, <2>2, <2>3, <1>2
  <2> QED  BY <2>1, <2>4, <1>2 DEF l
<1> HIDE DEF t
<1>4. ASSUME NEW i \in 1..Len(t)
      PROVE  /\ t[i].name = "resize"  => i + 1 <= Len(t) /\ t[i + 1].name = "resized"
             /\ t[i].name = "resized" => i + 1 <= Len(t) /\ t[i + 1].name = "verify"
  <2>1. i = 1 \/ i = 2 \/ i = 3
    BY <1>3
  <2>2. CASE i = 1
    BY <2>2, <1>3
  <2>3. CASE i = 2
    BY <2>3, <1>3
  <2>4. CASE i = 3
    BY <2>4, <1>3
  <2> QED  BY <2>1, <2>2, <2>3, <2>4
<1> QED  BY <1>4 DEF Ordered, t, s

LEMMA UpdateOrdered ==
    ASSUME Types, NEW olds \in FieldsOf(kind), NEW news \in FieldsOf(kind)
    PROVE  Ordered(Update(olds, news))
<1>1. CASE kind # "Instance"
  <2>1. \A x \in Updating(kind, olds, news) : x.name \notin {"resize", "resized"}
    BY <1>1 DEF Updating
  <2> QED  BY <2>1, UpdateIs, OrderedOther
<1>2. CASE kind = "Instance"
  <2> DEFINE groups == sliceDiff(olds.securityGroups, news.securityGroups)
             renamed == Changed("given", olds.name, news.name)
             resized == Changed("givenId", olds.flavor, news.flavor)
             tagged  == Changed("alwaysList", olds.tags, news.tags)
             a == One(renamed, Call("rename", [name |-> news.name]))
             b == One(resized, Call("resize", [flavor |-> BareResourceID(news.flavor)]))
             c == One(resized, Plain("resized"))
             d == One(resized, Plain("verify"))
             e == Each("remove", groups.remove)
             f == Each("attach", groups.add)
             g == One(tagged, Call("tags", [tags |-> news.tags]))
             h == <<Plain("get")>>
  <2>1. ASSUME NEW n, n \notin {"resize", "resized"}, NEW body, NEW when
        PROVE  Ordered(One(when, Call(n, body)))
    BY <2>1 DEF One, Call, Ordered
  <2>2. Ordered(a) /\ Ordered(g) /\ Ordered(h)
    <3>1. Ordered(a) /\ Ordered(g)
      BY <2>1
    <3>2. Ordered(h)
      BY DEF Plain, Call, Ordered
    <3> QED  BY <3>1, <3>2
  <2>3. ASSUME NEW n \in {"remove", "attach"}, NEW S \in SUBSET Names
        PROVE  Ordered(Each(n, S)) /\ \E T : Each(n, S) \in Seq(T)
    <3> DEFINE T == {Call(n, [securityGroups |-> {x}]) : x \in S}
    <3>1. Each(n, S) \in Seq(T)
      <4>1. IsFiniteSet(S)
        BY FS_Subset, NamesAssumption
      <4> QED  BY <4>1, EachIn
    <3>2. \A x \in T : x.name \notin {"resize", "resized"}
      BY DEF Call
    <3> HIDE DEF T
    <3> QED  BY <3>1, <3>2, OrderedOther
  <2>4. groups.remove \in SUBSET Names /\ groups.add \in SUBSET Names
    <3>1. {"securityGroups"} \subseteq ArgsOf(kind)
      BY <1>2, KindIs DEF Row, ArgsOf
    <3>2. news.securityGroups \in SUBSET Names /\ olds.securityGroups \in SUBSET Names
      BY <3>1 DEF FieldsOf
    <3> QED  BY <3>2, BareNames DEF sliceDiff
  <2>5. Ordered(e) /\ Ordered(f)
    BY <2>3, <2>4
  <2>6. Ordered(b \o c \o d)
    <3>1. CASE resized
      <4> DEFINE x == Call("resize", [flavor |-> BareResourceID(news.flavor)])
                 y == Plain("resized")
                 z == Plain("verify")
      <4>1. x.name = "resize" /\ y.name = "resized" /\ z.name = "verify"
        BY DEF Plain, Call
      <4>2. b = <<x>> /\ c = <<y>> /\ d = <<z>>
        BY <3>1 DEF One
      <4> HIDE DEF x, y, z, b, c, d
      <4> QED  BY <4>1, <4>2, OrderedTriple
    <3>2. CASE ~resized
      <4>1. b = <<>> /\ c = <<>> /\ d = <<>>
        BY <3>2 DEF One
      <4> HIDE DEF b, c, d
      <4>2. b \o c \o d = <<>>
        BY <4>1
      <4> QED  BY <4>2 DEF Ordered
    <3> QED  BY <3>1, <3>2
  <2> DEFINE U == Updating(kind, olds, news)
  <2>7. /\ a \in Seq(U) /\ b \in Seq(U) /\ c \in Seq(U) /\ d \in Seq(U)
        /\ e \in Seq(U) /\ f \in Seq(U) /\ g \in Seq(U) /\ h \in Seq(U)
    BY <1>2, PartsIn
  <2>8. Update(olds, news) = a \o b \o c \o d \o e \o f \o g \o h
    BY <1>2 DEF Update, InstanceUpdate
  <2> HIDE DEF U, a, b, c, d, e, f, g, h
  <2>9. b \o c \in Seq(U) /\ b \o c \o d \in Seq(U)
    BY <2>7, Joined
  <2> DEFINE mid == a \o b \o c \o d
  <2>11. Ordered(mid) /\ mid \in Seq(U)
    BY <2>2, <2>6, <2>7, OrderedFour, Joined
  <2> HIDE DEF mid
  <2>12. Ordered(mid \o e) /\ mid \o e \in Seq(U)
    BY <2>5, <2>7, <2>11, OrderedJoin, Joined
  <2>13. Ordered(mid \o e \o f) /\ mid \o e \o f \in Seq(U)
    BY <2>5, <2>7, <2>12, OrderedJoin, Joined
  <2>14. Ordered(mid \o e \o f \o g) /\ mid \o e \o f \o g \in Seq(U)
    BY <2>2, <2>7, <2>13, OrderedJoin, Joined
  <2>15. Ordered(mid \o e \o f \o g \o h)
    BY <2>2, <2>7, <2>14, OrderedJoin
  <2> QED  BY <2>8, <2>15 DEF mid
<1> QED  BY <1>1, <1>2

LEMMA OrderedHead ==
    ASSUME NEW S, NEW s \in Seq(S), s # <<>>, Head(s).name \notin {"resize", "resized"},
           Ordered(Tail(s))
    PROVE  Ordered(s)
<1> DEFINE t == Tail(s)
<1>1. /\ t \in Seq(S) /\ Len(s) \in Nat /\ Len(t) = Len(s) - 1
      /\ \A i \in 1..Len(t) : t[i] = s[i + 1]
  BY HeadTailProperties
<1>2. Head(s) = s[1]
  OBVIOUS
<1> HIDE DEF t
<1> SUFFICES ASSUME NEW i \in 1..Len(s)
             PROVE  /\ s[i].name = "resize"  => i + 1 <= Len(s) /\ s[i + 1].name = "resized"
                    /\ s[i].name = "resized" => i + 1 <= Len(s) /\ s[i + 1].name = "verify"
  BY DEF Ordered
<1>3. CASE i = 1
  BY <1>2, <1>3
<1>4. CASE i # 1
  <2> DEFINE j == i - 1
  <2>1. /\ j \in 1..Len(t) /\ t[j] = s[i]
        /\ (j + 1 <= Len(t) => i + 1 <= Len(s) /\ t[j + 1] = s[i + 1])
    BY <1>1, <1>4
  <2> QED  BY <2>1 DEF Ordered, t
<1> QED  BY <1>3, <1>4

LEMMA HeadJoined ==
    ASSUME NEW S, NEW s \in Seq(S), NEW t \in Seq(S), s # <<>>
    PROVE  s \o t # <<>> /\ Head(s \o t) = Head(s)
<1> DEFINE w == s \o t
<1>1. /\ w \in Seq(S) /\ Len(w) = Len(s) + Len(t) /\ Len(s) \in Nat /\ Len(t) \in Nat
      /\ \A i \in 1..(Len(s) + Len(t)) : w[i] = IF i <= Len(s) THEN s[i] ELSE t[i - Len(s)]
  BY ConcatProperties
<1>2. Len(s) >= 1
  BY <1>1
<1> HIDE DEF w
<1>3. Len(w) >= 1 /\ w[1] = s[1]
  BY <1>1, <1>2
<1> QED  BY <1>1, <1>2, <1>3 DEF w

LEMMA OrderedOne == ASSUME NEW c, c.name \notin {"resize", "resized"} PROVE Ordered(<<c>>)
BY DEF Ordered

LEMMA CreateOrdered ==
    ASSUME Types, NEW news \in FieldsOf(kind)
    PROVE  Ordered(Create(news))
<1> DEFINE s == Create(news)
           F == Following(kind, news)
<1>1. /\ s \in Seq(CallsOf(kind)) /\ s # <<>> /\ Tail(s) \in Seq(F)
      /\ Head(s).name = "post"
  <2>1. Call("post", Post(kind, news)).name = "post"
    BY DEF Call
  <2> HIDE DEF F
  <2> QED  BY <2>1, CreateIs DEF F
<1>2. \A x \in F : x.name \notin {"resize", "resized"}
  BY DEF Following
<1> HIDE DEF s, F
<1>3. Ordered(Tail(s))
  BY <1>1, <1>2, OrderedOther
<1>4. Ordered(s)
  BY <1>1, <1>3, OrderedHead
<1> QED  BY <1>4 DEF s

LEMMA ServeOrdered == Shape /\ Ordered(op.calls) /\ Serve => Ordered(op.calls)'
<1> SUFFICES ASSUME Shape, Ordered(op.calls), Serve PROVE Ordered(op'.calls)
  OBVIOUS
<1> DEFINE c == Head(op.calls)
<1>1. PICK class : Sent(c) /\ React(c, class)
  BY ServeIs
<1>2. /\ op.calls # <<>> /\ op.calls \in Seq(CallsOf(kind)) /\ op.do # "idle" /\ Types
      /\ op \in [do : Dos, calls : Seq(CallsOf(kind)), attempt : 1..MaxAttempts,
                 news : FieldsOf(kind), made : Objects \cup {None}]
  BY <1>1 DEF Sent, Shape, Resting, Types
<1>3. Ordered(Idle.calls)
  BY DEF Idle, Ordered
<1>4. Ordered(Rest(c))
  <2> DEFINE more == IF c.name = "verify" THEN Verify(remote[ObjectOf(c)].status) ELSE <<>>
             more2 == <<Plain("confirm"), Plain("wait")>>
             S == CallsOf(kind)
  <2>1. Ordered(Tail(op.calls)) /\ Tail(op.calls) \in Seq(S)
    BY <1>2, OrderedTail
  <2>2. Plain("confirm") \in S /\ Plain("wait") \in S
    BY PlainIn DEF CallNames
  <2>3. more2 \in Seq({Plain("confirm"), Plain("wait")}) /\ more2 \in Seq(S)
    <3> HIDE DEF S
    <3> QED  BY <2>2
  <2>4. Ordered(more2)
    <3>1. \A x \in {Plain("confirm"), Plain("wait")} : x.name \notin {"resize", "resized"}
      BY DEF Plain, Call
    <3> HIDE DEF more2
    <3> QED  BY <2>3, <3>1, OrderedOther
  <2>5. Ordered(<<>>) /\ <<>> \in Seq(S)
    BY DEF Ordered
  <2>6. more = <<>> \/ more = more2
    BY DEF Verify
  <2> HIDE DEF more2, S
  <2>7. Ordered(more) /\ more \in Seq(S)
    BY <2>3, <2>4, <2>5, <2>6
  <2> HIDE DEF more
  <2>8. Ordered(more \o Tail(op.calls))
    BY <2>1, <2>7, OrderedJoin
  <2> QED  BY <2>8 DEF more, Rest
<1> HIDE DEF c
<1>5. CASE Advance(c, class)
  <2>1. CASE Commit(ObjectOf(c), class)
    <3>1. op' = Idle \/ op'.calls = Create(op.news)
      BY <2>1 DEF Commit, Start
    <3> QED  BY <1>2, <1>3, <3>1, CreateOrdered
  <2>2. CASE op' = [op EXCEPT !.calls = Rest(c), !.attempt = 1,
                              !.made = IF op.do = "create" THEN ObjectOf(c) ELSE None]
    <3>1. op'.calls = Rest(c)
      BY <1>2, <2>2
    <3> QED  BY <1>4, <3>1
  <2> QED  BY <1>5, <2>1, <2>2, AdvanceIs
<1>6. CASE op' = [op EXCEPT !.attempt = @ + 1]
  <2>1. op'.calls = op.calls
    BY <1>2, <1>6
  <2> QED  BY <2>1
<1>7. CASE Fail(class)
  BY <1>3, <1>7 DEF Fail
<1> QED  BY <1>1, <1>5, <1>6, <1>7, ReactIs

Prompt == kind = "Instance" /\ faults \cap {"slow", "refuse", "wait", "lost"} = {}

(* No server waits, or it is the one of the update that runs, and the steps *)
(* that wait for the resize, look at it and confirm it come next.           *)
Awaiting(o) ==
    /\ remote[o].status = "verify" /\ op.do = "update" /\ o = stack.id
    /\ SameScope(remote[o].fields, op.news)
    /\ Head(op.calls).name \in {"resized", "verify", "confirm"}

Confirming ==
    /\ Ordered(op.calls)
    /\ Prompt => \A o \in Objects : remote[o].status \in {"none", "ready"} \/ Awaiting(o)

LEMMA RestingConfirmed ==
    ASSUME Prompt' => \A o \in Objects : remote'[o].status \in {"none", "ready"},
           Ordered(op.calls)'
    PROVE  Confirming'
BY DEF Confirming

LEMMA ServeConfirming == Shape /\ Confirming /\ Serve => Confirming'
<1>0. ASSUME Shape, Confirming, Serve
      PROVE  Ordered(op.calls)' /\ (Prompt' => Prompt)
  <2>1. Ordered(op.calls)'
    BY <1>0, ServeOrdered DEF Confirming
  <2>2. UNCHANGED <<kind, faults>>
    BY <1>0, ServeIs, ReactIs
  <2> QED  BY <2>1, <2>2 DEF Prompt
<1> SUFFICES ASSUME Shape, Confirming, Serve, Prompt
             PROVE  \A o \in Objects : (remote[o].status \in {"none", "ready"} \/ Awaiting(o))'
  BY <1>0 DEF Confirming
<1> DEFINE c == Head(op.calls)
<1>1. PICK class : Sent(c) /\ Room(c) /\ React(c, class) /\ Outcome(c, class)
  BY ServeIs
<1>2. /\ Types /\ op.do # "idle" /\ op.do \in Dos /\ op.calls # <<>>
      /\ op.calls \in Seq(CallsOf(kind)) /\ Ordered(op.calls)
      /\ \A o \in Objects : remote[o].status \in {"none", "ready"} \/ Awaiting(o)
  BY <1>1 DEF Sent, Shape, Resting, Types, Confirming
<1>3. /\ c.name = "resize"  => Tail(op.calls) # <<>> /\ Head(Tail(op.calls)).name = "resized"
      /\ c.name = "resized" => Tail(op.calls) # <<>> /\ Head(Tail(op.calls)).name = "verify"
  BY <1>2, OrderedFirst
<1>4. Rest(c) \in Seq(CallsOf(kind))
  BY <1>2, RestIs
<1>5. c.name # "verify" => Rest(c) = Tail(op.calls)
  <2>1. Tail(op.calls) \in Seq(CallsOf(kind))
    BY <1>2
  <2> QED  BY <2>1, ConcatEmptySeq DEF Rest
<1> HIDE DEF c
<1>6. ASSUME Rest(c) # <<>>, Advance(c, class)
      PROVE  /\ op'.calls = Rest(c) /\ op'.do = op.do /\ op'.news = op.news
             /\ stack' = stack
  <2>1. PICK made : op' = [op EXCEPT !.calls = Rest(c), !.attempt = 1, !.made = made]
    BY <1>6, AdvanceIs
  <2>2. stack' = stack
    BY <1>6, AdvanceIs
  <2> QED  BY <1>2, <2>1, <2>2 DEF Types
<1>7. CASE \E o \in Objects : Awaiting(o)
  <2>1. PICK o \in Objects : Awaiting(o)
    BY <1>7
  <2>2. op.do = "update" /\ c.name \in {"resized", "verify", "confirm"} /\ o = stack.id
        /\ remote[o].status = "verify"
    BY <2>1 DEF Awaiting, c
  <2>3. Found /\ Addressed = o
    BY <2>1, <2>2 DEF Awaiting, Found, Addressed, Target, SameScope
  <2>4. \A p \in Objects \ {o} : remote[p].status \in {"none", "ready"}
    BY <1>2, <2>2 DEF Awaiting
  <2>5. class = "ok" /\ remote' = Effect(c)
    <3>1. c.name # "post" /\ c.name # "get" /\ c.name # "resize" /\ c.name # "remove"
      BY <2>2
    <3>2. ~Redone(c)
      BY <3>1 DEF Redone
    <3>3. c.name \in Waited => c.name = "resized"
      BY <2>2 DEF Waited
    <3>4. c.name \in Waited => WaitInstanceStatus(c.name)
      BY <3>3 DEF WaitInstanceStatus
    <3> QED  BY <1>1, <2>3, <3>1, <3>2, <3>4 DEF Outcome, Prompt
  <2>6. Advance(c, class)
    BY <1>1, <2>5, ReactIs, StatusIs
  <2>7. CASE c.name = "confirm"
    <3>1. /\ ObjectOf(c) = o /\ remote' = [remote EXCEPT ![o] = After(c)]
          /\ After(c).status = "ready"
      BY <1>1, <1>2, <2>3, <2>5, <2>7, EffectIs DEF ObjectOf, After
    <3> QED  BY <1>2, <2>4, <3>1 DEF Types
  <2>8. CASE c.name # "confirm"
    <3>1. remote' = remote
      BY <2>2, <2>5, <2>8, GetIs
    <3>2. Rest(c) # <<>> /\ Head(Rest(c)).name \in {"verify", "confirm"}
      <4>1. CASE c.name = "resized"
        BY <1>3, <1>5, <4>1
      <4>2. CASE c.name = "verify"
        <5>1. ObjectOf(c) = o
          BY <2>3, <4>2 DEF ObjectOf
        <5>2. Rest(c) = <<Plain("confirm"), Plain("wait")>> \o Tail(op.calls)
          BY <2>2, <4>2, <5>1 DEF Rest, Verify, Shown
        <5>3. Tail(op.calls) \in Seq(CallsOf(kind))
          BY <1>2
        <5>4. Plain("confirm") \in CallsOf(kind) /\ Plain("wait") \in CallsOf(kind)
          BY PlainIn DEF CallNames
        <5> DEFINE S == CallsOf(kind)
                   t == Tail(op.calls)
                   p == Plain("confirm")
                   q == Plain("wait")
        <5>5. p.name = "confirm" /\ p \in S /\ q \in S /\ t \in Seq(S)
          BY <5>3, <5>4 DEF Plain, Call
        <5> HIDE DEF S, t, p, q
        <5>6. <<p, q>> \o t # <<>> /\ Head(<<p, q>> \o t) = p
          <6> DEFINE w == <<p, q>>
          <6>1. w \in Seq(S) /\ w # <<>> /\ Head(w) = p
            BY <5>5
          <6> HIDE DEF w
          <6>2. w \o t # <<>> /\ Head(w \o t) = Head(w)
            BY <5>5, <6>1, HeadJoined
          <6> QED  BY <6>1, <6>2 DEF w
        <5> QED  BY <5>2, <5>5, <5>6 DEF p, q, t
      <4> QED  BY <2>2, <2>8, <4>1, <4>2
    <3>3. op'.calls = Rest(c) /\ op'.do = op.do /\ op'.news = op.news /\ stack' = stack
      BY <1>6, <2>6, <3>2
    <3>4. Awaiting(o)'
      BY <2>1, <3>1, <3>2, <3>3 DEF Awaiting
    <3> QED  BY <2>4, <3>1, <3>4
  <2> QED  BY <2>7, <2>8
<1>8. CASE \A o \in Objects : remote[o].status \in {"none", "ready"}
  <2>1. CASE remote' = remote
    BY <1>8, <2>1
  <2>2. CASE remote' = Effect(c) /\ class = "ok" /\ (c.name = "post" \/ Found)
    <3>0. PICK o : o = ObjectOf(c)
      OBVIOUS
    <3>1. /\ o \in Objects /\ remote'[o] = After(c)
          /\ \A p \in Objects \ {o} : remote'[p] = remote[p]
      BY <1>1, <1>2, <2>2, <3>0, EffectIs
    <3>2. CASE c.name = "resize"
      <4>1. Found /\ o = Addressed
        BY <2>2, <3>0, <3>2 DEF ObjectOf
      <4>2. op.do = "update"
        BY <1>1, <1>2, <3>2 DEF Sent, Dos, Following
      <4>3. o = stack.id /\ SameScope(remote[o].fields, op.news)
        BY <4>1, <4>2 DEF Found, Addressed, Target, SameScope
      <4>4. /\ After(c).status = "verify"
            /\ After(c).fields = [remote[o].fields EXCEPT !["flavor"] = c.body["flavor"]]
        BY <3>0, <3>2 DEF After, Prompt
      <4>5. SameScope(remote'[o].fields, op.news)
        <5>1. SameScope(After(c).fields, remote[Addressed].fields)
          BY <1>1, <1>2, <3>2, <4>1, TouchIs
        <5> QED  BY <3>1, <4>1, <4>3, <5>1 DEF SameScope
      <4>6. Rest(c) # <<>> /\ Head(Rest(c)).name = "resized"
        BY <1>3, <1>5, <3>2
      <4>7. Advance(c, class)
        BY <1>1, <2>2, ReactIs, StatusIs
      <4>8. op'.calls = Rest(c) /\ op'.do = op.do /\ op'.news = op.news /\ stack' = stack
        BY <1>6, <4>6, <4>7
      <4>9. Awaiting(o)'
        BY <3>1, <4>2, <4>3, <4>4, <4>5, <4>6, <4>8 DEF Awaiting
      <4> QED  BY <1>8, <3>1, <4>9
    <3>3. CASE c.name # "resize"
      <4>1. After(c).status \in {"none", "ready"}
        <5>1. CASE c.name = "post"
          <6>1. \A f \in DOMAIN c.body : c.body[f] \in SUBSET Names
            BY <1>1, BodyIs DEF Sent
          <6> QED  BY <1>2, <5>1, <6>1, MadeIs DEF After, Types
        <5>2. CASE c.name = "delete"
          BY <5>2 DEF After, NoObject
        <5>3. CASE c.name = "confirm"
          BY <5>3 DEF After
        <5>4. CASE c.name \notin {"post", "delete", "confirm"}
          <6>1. Found /\ o = Addressed /\ After(c).status = remote[o].status
            BY <1>1, <1>2, <2>2, <3>0, <3>3, <5>4, TouchIs DEF ObjectOf
          <6> QED  BY <1>8, <3>1, <6>1
        <5> QED  BY <5>1, <5>2, <5>3, <5>4
      <4> QED  BY <1>8, <3>1, <4>1
    <3> QED  BY <3>2, <3>3
  <2> QED  BY <1>1, <2>1, <2>2 DEF Outcome, Prompt
<1> QED  BY <1>2, <1>7, <1>8

LEMMA UpConfirming == Shape /\ Confirming /\ Up => Confirming'
<1> SUFFICES ASSUME Shape, Confirming, Up PROVE Confirming'
  OBVIOUS
<1> DEFINE news == checkResourceArgs(program)
<1>1. /\ Types /\ Row(kind) /\ stack.state \in FieldsOf(kind)
      /\ op.do = "idle" /\ UNCHANGED <<kind, faults, remote>>
  BY KindIs DEF Up, Shape, Types
<1>2. news \in FieldsOf(kind)
  BY <1>1, CheckedIs DEF Types, Row, FieldsOf, ArgsOf
<1>3. Prompt' => \A o \in Objects : remote'[o].status \in {"none", "ready"}
  BY <1>1 DEF Confirming, Awaiting, Prompt
<1>4. Ordered(op'.calls)
  <2>1. CASE op' = op
    BY <2>1 DEF Confirming
  <2>2. CASE op'.calls = Create(news)
    BY <1>1, <1>2, <2>2, CreateOrdered
  <2>3. CASE op'.calls = Update(stack.state, news)
    BY <1>1, <1>2, <2>3, UpdateOrdered
  <2>4. CASE op'.calls = <<Plain("delete")>>
    BY <2>4, OrderedOne DEF Plain, Call
  <2> QED  BY <2>1, <2>2, <2>3, <2>4 DEF Up, Start
<1> QED  BY <1>3, <1>4, RestingConfirmed

LEMMA NextConfirming == Shape /\ Confirming /\ [Next]_vars => Confirming'
<1> SUFFICES ASSUME Shape, Confirming, [Next]_vars PROVE Confirming'
  OBVIOUS
<1>1. Types
  BY DEF Shape
<1>2. CASE UNCHANGED <<kind, faults, stack, remote, op>>
  BY <1>2 DEF Confirming, Awaiting, Prompt
<1>3. CASE UNCHANGED vars \/ UpRefused \/ Edit
  BY <1>2, <1>3 DEF vars, UpRefused, Edit
<1>4. CASE Refresh \/ Destroy \/ Import
  <2>1. op.do = "idle" /\ UNCHANGED <<kind, faults, remote>>
        /\ op'.calls \in {<<Plain("get")>>, <<Plain("delete")>>}
    BY <1>4 DEF Refresh, Destroy, Import, Start
  <2>2. Ordered(op'.calls)
    BY <2>1, OrderedOne DEF Plain, Call
  <2>3. Prompt' => \A o \in Objects : remote'[o].status \in {"none", "ready"}
    BY <2>1 DEF Confirming, Awaiting, Prompt
  <2> QED  BY <2>2, <2>3, RestingConfirmed
<1>5. CASE Vanish
  <2>1. PICK v \in Live : remote' = [remote EXCEPT ![v] = NoObject]
    BY <1>5 DEF Vanish
  <2>2. UNCHANGED <<kind, faults, stack, op>>
    BY <1>5 DEF Vanish
  <2>3. \A o \in Objects : remote'[o] = remote[o] \/ remote'[o].status = "none"
    BY <1>1, <2>1 DEF Types, NoObject, Live
  <2> QED  BY <2>2, <2>3 DEF Confirming, Awaiting, Prompt
<1>6. CASE Resized
  <2>1. PICK v \in Objects : remote[v].status = "resizing"
    BY <1>1, <1>6, ResizedIs
  <2>2. ~Prompt /\ UNCHANGED <<kind, faults, op>>
    BY <1>6, <2>1 DEF Confirming, Awaiting, Resized
  <2> QED  BY <2>2 DEF Confirming, Prompt
<1> QED  BY <1>3, <1>4, <1>5, <1>6, UpConfirming, ServeConfirming DEF Next

LEMMA InitConfirming == Init => Confirming
<1> SUFFICES ASSUME Init PROVE Confirming
  OBVIOUS
<1>1. op.calls = <<>>
  BY DEF Init, Idle
<1>2. PICK first \in Objects :
         remote = [o \in Objects |-> IF "import" \in faults /\ o = first
                                       THEN Described(checkResourceArgs(program)) ELSE NoObject]
  BY DEF Init
<1>3. \A o \in Objects : remote[o].status \in {"none", "ready"}
  BY <1>2 DEF Described, NoObject
<1> QED  BY <1>1, <1>3 DEF Confirming, Ordered

(* An update that resizes a server sends the confirmation that Nobus waits   *)
(* for: when the up has succeeded the server is back to work, whatever else  *)
(* the update changed, was repeated or found gone, as long as a resize shows *)
(* at once and no request of it fails.                                       *)
THEOREM ResizesAreConfirmed == Spec => []ResizeConfirmed
<1>1. Shape /\ Confirming => ResizeConfirmed
  BY DEF Shape, Resting, Confirming, Awaiting, Prompt, ResizeConfirmed, Live
<1> QED  BY <1>1, InitConfirming, NextConfirming, ShapeHolds, PTL DEF Spec

-----------------------------------------------------------------------------
(* A resource of an unchanged program is kept.  The tables again: what each *)
(* kind sends and learns of the fields that replace it.                     *)
Comparisons == {"given", "always", "givenId", "alwaysId"}

Firm(k) ==
    LET r == Resource[k]
    IN /\ \A f \in DOMAIN r.diff.replace :
          LET rule == r.diff.replace[f]
          IN /\ rule \in Comparisons
             /\ f \notin r.created.take \cup r.updated.take \cup r.calls.put
             /\ k = "Network" => f # "name"
             /\ k = "Instance" => f \notin {"name", "flavor", "tags", "securityGroups"}
             /\ f \in r.read.take =>
                  f \in r.calls.post /\ f \in r.calls.reply /\ f \notin r.updated.fill
             /\ rule \in {"given", "always"} =>
                  /\ f \notin r.normal \cup r.renormal \cup {"tags"}
                  /\ f \in r.ids => k = "Volume" /\ f \notin r.read.take
             /\ rule \in {"always", "alwaysId"} =>
                  /\ f \notin DOMAIN r.default \cup r.updated.fill
                  /\ f \in r.created.fill => f \in r.calls.post
                  /\ f \in r.read.fill => f \in r.created.fill /\ DOMAIN r.diff.update = {}

Bare(v) == BareResourceID(v) = v

(* Only IDs and tags are written with a scope. *)
Bares(args) == \A f \in Args \ (Resource[kind].ids \cup {"tags"}) : Bare(args[f])

(* What a read of an object answers, and what it makes of the state. *)
Seen(id) == [f \in Args |-> IF f \in Calls.reply THEN remote[id].fields[f] ELSE {}]

Refreshed == Learn(stack.state, Resource[kind].read, Seen(stack.id))

Undisturbed == faults \cap {"import", "defaults", "blank"} = {}

AsPosted ==
    \A f \in DOMAIN Resource[kind].diff.replace :
        remote[op.made].fields[f] = Made(Post(kind, op.news)).fields[f]

(* Diff finds nothing to replace between the state and the arguments of the *)
(* last up, nor would it after a read; as long as a create goes on, its     *)
(* object is as the POST made it.                                           *)
Firmly ==
    /\ op.do # "import"
    /\ Bares(program) /\ Bares(applied)
    /\ stack.id # None => replaceDiff(kind, stack.state, applied) = {}
    /\ stack.id \in Live => replaceDiff(kind, Refreshed, stack.state) = {}
    /\ op.do = "create" /\ op.made \in Live => AsPosted
    /\ op.do = "update" => DOMAIN Resource[kind].diff.update # {}

Steady == Undisturbed => Firmly

LEMMA Firms == \A k \in DOMAIN Resource : Firm(k)
<1> SUFFICES ASSUME NEW k \in DOMAIN Resource PROVE Firm(k)
  OBVIOUS
<1>1. CASE k = "KeyPair"
  <2>1. Resource[k] = KeyPair
    BY <1>1 DEF Resource
  <2> QED  BY <1>1, <2>1, SMTT(60) DEF Firm, Comparisons, KeyPair, NoDefault, KeyPairCalls,
     CreateKeyPairRequest, KeyPairStruct, Fill, Take, Nothing
<1>2. CASE k = "Instance"
  <2>1. Resource[k] = Instance
    BY <1>2 DEF Resource
  <2> QED  BY <1>2, <2>1, SMTT(60) DEF Firm, Comparisons, Instance, NoDefault, InstanceCalls,
     CreateInstanceRequest, InstanceStruct, Nothing, InstanceRead, Fill, InstanceDiff
<1>3. CASE k = "Volume"
  <2>1. Resource[k] = Volume
    BY <1>3 DEF Resource
  <2> QED  BY <1>3, <2>1, SMTT(60) DEF Firm, Comparisons, Volume, NoDefault, VolumeCalls,
     CreateVolumeRequest, UpdateVolumeRequest, VolumeStruct, stateFromVolume, Fill, VolumeDiff
<1>4. CASE k = "VolumeAttachment"
  <2>1. Resource[k] = VolumeAttachment
    BY <1>4 DEF Resource
  <2> QED  BY <1>4, <2>1, SMTT(60) DEF Firm, Comparisons, VolumeAttachment, NoDefault, AttachmentCalls,
     AttachVolumeRequest, Nothing, Take
<1>5. CASE k = "VolumeSnapshot"
  <2>1. Resource[k] = VolumeSnapshot
    BY <1>5 DEF Resource
  <2> QED  BY <1>5, <2>1, SMTT(60) DEF Firm, Comparisons, VolumeSnapshot, NoDefault, SnapshotCalls,
     CreateSnapshotRequest, SnapshotStruct, stateFromSnapshot, Fill, Nothing
<1>6. CASE k = "VolumeBackup"
  <2>1. Resource[k] = VolumeBackup
    BY <1>6 DEF Resource
  <2> QED  BY <1>6, <2>1, SMTT(60) DEF Firm, Comparisons, VolumeBackup, NoDefault, BackupCalls,
     CreateBackupRequest, BackupStruct, stateFromBackup, Fill, Nothing
<1>7. CASE k = "Network"
  <2>1. Resource[k] = Network
    BY <1>7 DEF Resource
  <2> QED  BY <1>7, <2>1, SMTT(60) DEF Firm, Comparisons, Network, NoDefault, NetworkCalls,
     CreateNetworkRequest, NetworkUpdate, NetworkStruct, enrichNetworkState, NetworkDiff
<1>8. CASE k = "Subnet"
  <2>1. Resource[k] = Subnet
    BY <1>8 DEF Resource
  <2> QED  BY <1>8, <2>1, SMTT(60) DEF Firm, Comparisons, Subnet, SubnetCalls, SubnetCreate,
     SubnetUpdate, SubnetStruct, Fill, Take, Nothing
<1>9. CASE k = "Port"
  <2>1. Resource[k] = Port
    BY <1>9 DEF Resource
  <2> QED  BY <1>9, <2>1, SMTT(60) DEF Firm, Comparisons, Port, NoDefault, PortCalls, PortCreate,
     PortUpdate, PortStruct, Nothing, Take, PortDiff
<1>10. CASE k = "Router"
  <2>1. Resource[k] = Router
    BY <1>10 DEF Resource
  <2> QED  BY <1>10, <2>1, SMTT(60) DEF Firm, Comparisons, Router, NoDefault, RouterCalls, RouterWrite,
     RouterStruct, Nothing, Take
<1>11. CASE k = "SecurityGroup"
  <2>1. Resource[k] = SecurityGroup
    BY <1>11 DEF Resource
  <2> QED  BY <1>11, <2>1, SMTT(60) DEF Firm, Comparisons, SecurityGroup, NoDefault,
     SecurityGroupCalls, SecurityGroupWrite, SecurityGroupStruct, Nothing, Take
<1>12. CASE k = "SecurityGroupRule"
  <2>1. Resource[k] = SecurityGroupRule
    BY <1>12 DEF Resource
  <2> QED  BY <1>12, <2>1, SMTT(60) DEF Firm, Comparisons, SecurityGroupRule, SecurityGroupRuleCreate,
     SecurityGroupRuleCalls, SecurityGroupRuleStruct, Nothing, Take, NoDefault
<1>13. CASE k = "FloatingIp"
  <2>1. Resource[k] = FloatingIp
    BY <1>13 DEF Resource
  <2> QED  BY <1>13, <2>1, SMTT(60) DEF Firm, Comparisons, FloatingIp, FloatingIPCreate, NoDefault,
     FloatingIPCalls, FloatingIPUpdate, FloatingIPStruct, Take
<1> QED  BY <1>1, <1>2, <1>3, <1>4, <1>5, <1>6, <1>7, <1>8, <1>9, <1>10, <1>11, <1>12, <1>13 DEF Resource

(* What does not differ does not differ from anything else either. *)
LEMMA SameIs ==
    ASSUME NEW rule \in Comparisons, NEW a, NEW b
    PROVE  /\ ~Changed(rule, a, a)
           /\ rule \in {"given", "givenId"} => ~Changed(rule, a, {})
           /\ \A c : ~Changed(rule, a, b) /\ ~Changed(rule, b, c) => ~Changed(rule, a, c)
<1>1. \A c : BareResourceID(c) = {} <=> c = {}
  BY BareOfBlank
<1> QED  BY <1>1 DEF Changed, Comparisons

(* The IDs that Diff compares are the same with and without their scope. *)
LEMMA SameBare ==
    ASSUME NEW rule \in {"givenId", "alwaysId"}, NEW a \in SUBSET Names
    PROVE  ~Changed(rule, BareResourceID(a), a) /\ ~Changed(rule, a, BareResourceID(a))
BY BareOfBare DEF Changed

LEMMA NoReplace ==
    ASSUME NEW k, NEW olds, NEW news
    PROVE  replaceDiff(k, olds, news) = {} <=>
             \A f \in DOMAIN Resource[k].diff.replace :
                ~Changed(Resource[k].diff.replace[f], olds[f], news[f])
BY DEF replaceDiff, ChangedOf

LEMMA SameTwice ==
    ASSUME NEW k \in Kinded, NEW a, NEW b, NEW c,
           replaceDiff(k, a, b) = {}, replaceDiff(k, b, c) = {}
    PROVE  replaceDiff(k, a, c) = {}
<1>1. \A f \in DOMAIN Resource[k].diff.replace : Resource[k].diff.replace[f] \in Comparisons
  BY Firms DEF Firm, Kinded
<1> QED  BY <1>1, NoReplace, SameIs

LEMMA FirmIs ==
    ASSUME Types
    PROVE  /\ kind \in Kinded /\ Row(kind) /\ Firm(kind)
           /\ DOMAIN Resource[kind].diff.replace \subseteq ArgsOf(kind)
<1>1. kind \in Kinded /\ Row(kind)
  BY KindIs
<1> QED  BY <1>1, Firms DEF Row, Kinded, ArgsOf

(* What an object shows of the fields that replace it, when it is as it was made. *)
LEMMA PostedIs ==
    ASSUME Types, Undisturbed, NEW news \in FieldsOf(kind), NEW f \in DOMAIN Resource[kind].diff.replace,
           f \in Resource[kind].calls.post
    PROVE  Made(Post(kind, news)).fields[f] =
             IF f \in Resource[kind].ids THEN BareResourceID(Kept(kind, news)[f]) ELSE Kept(kind, news)[f]
<1> DEFINE body == Post(kind, news)
<1>1. kind \in Kinded /\ kind \in Kinds /\ f \in ArgsOf(kind) /\ ~(kind = "Network" /\ f = "name")
  BY FirmIs DEF Firm, Types
<1>2. body \in [Resource[kind].calls.post \cup Scope -> SUBSET Names]
  BY <1>1, PostIs
<1>3. f \in DOMAIN body /\ \A g \in DOMAIN body : body[g] \in SUBSET Names
  BY <1>2
<1>4. \A g \in Resource[kind].calls.post :
         body[g] = IF g \in Resource[kind].ids THEN BareResourceID(Kept(kind, news)[g]) ELSE Kept(kind, news)[g]
  BY <1>1, PostIs
<1> HIDE DEF body
<1>5. Made(body).fields[f] = Filled(body, f)
  BY <1>1, <1>3, MadeIs
<1> QED  BY <1>3, <1>4, <1>5 DEF Filled, Undisturbed, body

(* After a create the state differs neither from the program nor from what a read shows. *)
LEMMA CreatedFirm ==
    ASSUME Types, Undisturbed, NEW news \in FieldsOf(kind), NEW reply \in FieldsOf(kind),
           \A f \in DOMAIN Resource[kind].diff.replace :
              reply[f] = IF f \in Calls.reply THEN Made(Post(kind, news)).fields[f] ELSE {},
           NEW s, s = Learn(Kept(kind, news), Resource[kind].created, reply)
    PROVE  /\ replaceDiff(kind, s, news) = {}
           /\ replaceDiff(kind, Learn(s, Resource[kind].read, reply), s) = {}
<1> DEFINE r == Resource[kind]
           kept == Kept(kind, news)
<1>1. kind \in Kinded /\ Row(kind) /\ Firm(kind) /\ DOMAIN r.diff.replace \subseteq ArgsOf(kind)
  BY FirmIs
<1>2. kept \in FieldsOf(kind)
  BY <1>1, KeptIs
<1>3. r.created.take \cap r.created.fill = {} /\ r.read.take \cap r.read.fill = {}
  BY <1>1 DEF Row
<1>4. /\ s \in FieldsOf(kind)
      /\ \A f \in ArgsOf(kind) : s[f] =
           IF f \in r.created.take THEN reply[f]
           ELSE IF f \in r.created.fill THEN (IF kept[f] # {} THEN kept[f] ELSE reply[f]) ELSE kept[f]
  BY <1>2, <1>3, LearnIs DEF FieldsOf
<1>5. \A f \in ArgsOf(kind) : Learn(s, r.read, reply)[f] =
        IF f \in r.read.take THEN reply[f]
        ELSE IF f \in r.read.fill THEN (IF s[f] # {} THEN s[f] ELSE reply[f]) ELSE s[f]
  BY <1>3, <1>4, LearnIs DEF FieldsOf
<1>6. ASSUME NEW f \in DOMAIN r.diff.replace
      PROVE  /\ ~Changed(r.diff.replace[f], s[f], news[f])
             /\ ~Changed(r.diff.replace[f], Learn(s, r.read, reply)[f], s[f])
  <2> DEFINE rule == r.diff.replace[f]
             given == IF f \in DOMAIN r.default THEN Or(news[f], r.default[f]) ELSE news[f]
             posted == Made(Post(kind, news)).fields[f]
  <2>1. f \in ArgsOf(kind) /\ news[f] \in SUBSET Names /\ kept[f] \in SUBSET Names
    BY <1>1, <1>2 DEF FieldsOf
  <2>2. /\ rule \in Comparisons /\ f \notin r.created.take
        /\ f \in r.read.take => f \in r.calls.post /\ f \in r.calls.reply
        /\ rule \in {"given", "always"} => f \notin r.normal /\ (f \in r.ids => f \notin r.read.take)
        /\ rule \in {"always", "alwaysId"} =>
             /\ f \notin DOMAIN r.default
             /\ f \in r.created.fill => f \in r.calls.post
             /\ f \in r.read.fill => f \in r.created.fill
    BY <1>1 DEF Firm
  <2>3. kept[f] = IF f \in r.normal THEN BareResourceID(given) ELSE given
    BY <1>1, <2>1, KeptIs
  <2>4. news[f] # {} => given = news[f]
    BY DEF Or
  <2>5. rule \in {"always", "alwaysId"} => given = news[f]
    BY <2>2
  <2>6. f \in r.calls.post => posted = IF f \in r.ids THEN BareResourceID(kept[f]) ELSE kept[f]
    BY PostedIs
  <2>7. reply[f] = IF f \in r.calls.reply THEN posted ELSE {}
    BY DEF Calls
  <2> HIDE DEF posted, given
  <2>8. s[f] = IF f \in r.created.fill /\ kept[f] = {} THEN reply[f] ELSE kept[f]
    BY <1>4, <2>1, <2>2
  <2>9. Learn(s, r.read, reply)[f] =
          IF f \in r.read.take THEN posted
          ELSE IF f \in r.read.fill /\ s[f] = {} THEN reply[f] ELSE s[f]
    BY <1>5, <2>1, <2>2, <2>7
  <2> HIDE DEF kept, rule
  <2>10. ~Changed(rule, kept[f], news[f])
    <3>1. CASE news[f] = {} /\ rule \in {"given", "givenId"}
      BY <3>1, <2>2, SameIs
    <3>2. CASE news[f] # {} \/ rule \notin {"given", "givenId"}
      <4>1. given = news[f]
        BY <2>2, <2>4, <2>5, <3>2 DEF Comparisons
      <4>2. kept[f] = news[f] \/ (rule \in {"givenId", "alwaysId"} /\ kept[f] = BareResourceID(news[f]))
        BY <2>2, <2>3, <4>1 DEF Comparisons
      <4> QED  BY <2>1, <2>2, <4>2, SameIs, SameBare
    <3> QED  BY <3>1, <3>2
  <2>11. rule \in {"always", "alwaysId"} /\ f \in r.created.fill /\ kept[f] = {} => reply[f] = {}
    BY <2>2, <2>6, <2>7, BareOfBlank
  <2>12. ~Changed(rule, s[f], news[f])
    <3>1. CASE s[f] = kept[f]
      BY <2>10, <3>1
    <3>2. CASE s[f] # kept[f]
      <4>1. f \in r.created.fill /\ kept[f] = {} /\ rule \in {"given", "givenId"}
        BY <2>2, <2>8, <2>11, <3>2 DEF Comparisons
      <4>2. news[f] = {}
        BY <2>3, <2>4, <4>1, BareOfBlank
      <4> QED  BY <2>2, <4>1, <4>2, SameIs
    <3> QED  BY <3>1, <3>2
  <2>13. ~Changed(rule, Learn(s, r.read, reply)[f], s[f])
    <3>1. CASE f \in r.read.take
      <4>1. posted = s[f] \/ (rule \in {"givenId", "alwaysId"} /\ posted = BareResourceID(s[f]))
        <5>1. s[f] = kept[f] \/ s[f] = posted
          BY <2>2, <2>7, <2>8, <3>1
        <5> QED  BY <2>2, <2>6, <3>1, <5>1 DEF Comparisons
      <4>2. s[f] \in SUBSET Names
        BY <1>4, <2>1 DEF FieldsOf
      <4> QED  BY <2>2, <2>9, <3>1, <4>1, <4>2, SameIs, SameBare
    <3>2. CASE f \notin r.read.take /\ Learn(s, r.read, reply)[f] # s[f]
      <4>1. f \in r.read.fill /\ s[f] = {} /\ reply[f] # {}
        BY <2>9, <3>2
      <4>2. rule \in {"given", "givenId"}
        BY <2>2, <2>8, <4>1 DEF Comparisons
      <4> QED  BY <2>2, <4>1, <4>2, SameIs
    <3>3. CASE Learn(s, r.read, reply)[f] = s[f]
      BY <2>2, <3>3, SameIs
    <3> QED  BY <3>1, <3>2, <3>3
  <2> QED  BY <2>12, <2>13 DEF rule
<1> QED  BY <1>6, NoReplace

(* After an update, too: it renews only what does not differ. *)
LEMMA RenewedFirm ==
    ASSUME Types, DOMAIN Resource[kind].diff.update # {},
           NEW news \in FieldsOf(kind), NEW seen \in FieldsOf(kind), NEW s \in FieldsOf(kind),
           replaceDiff(kind, stack.state, news) = {},
           \A f \in DOMAIN Resource[kind].diff.replace :
              \/ s[f] = Renewed(kind, news)[f]
              \/ f \in Resource[kind].updated.fill /\ Renewed(kind, news)[f] = {}
    PROVE  /\ replaceDiff(kind, s, news) = {}
           /\ replaceDiff(kind, Learn(stack.state, Resource[kind].read, seen), stack.state) = {}
                => replaceDiff(kind, Learn(s, Resource[kind].read, seen), s) = {}
<1> DEFINE r == Resource[kind]
           new == Renewed(kind, news)
           old == stack.state
           Steadied == replaceDiff(kind, Learn(old, r.read, seen), old) = {}
<1>1. /\ kind \in Kinded /\ Row(kind) /\ Firm(kind) /\ DOMAIN r.diff.replace \subseteq ArgsOf(kind)
      /\ old \in FieldsOf(kind)
  BY FirmIs DEF Types
<1>2. r.read.take \cap r.read.fill = {}
  BY <1>1 DEF Row
<1>3. \A t \in FieldsOf(kind) :
        /\ Learn(t, r.read, seen) \in FieldsOf(kind)
        /\ \A f \in ArgsOf(kind) : Learn(t, r.read, seen)[f] =
             IF f \in r.read.take THEN seen[f]
             ELSE IF f \in r.read.fill THEN (IF t[f] # {} THEN t[f] ELSE seen[f]) ELSE t[f]
  BY <1>2, LearnIs DEF FieldsOf
<1>4. ASSUME NEW f \in DOMAIN r.diff.replace
      PROVE  /\ ~Changed(r.diff.replace[f], s[f], news[f])
             /\ Steadied => ~Changed(r.diff.replace[f], Learn(s, r.read, seen)[f], s[f])
  <2> DEFINE rule == r.diff.replace[f]
  <2>1. f \in ArgsOf(kind) /\ news[f] \in SUBSET Names
    BY <1>1 DEF FieldsOf
  <2>2. /\ rule \in Comparisons
        /\ f \in r.read.take => f \notin r.updated.fill
        /\ rule \in {"given", "always"} => f \notin r.renormal
        /\ rule \in {"always", "alwaysId"} => f \notin r.updated.fill /\ f \notin r.read.fill
    BY <1>1 DEF Firm
  <2>3. /\ ~Changed(rule, old[f], news[f])
        /\ Steadied => ~Changed(rule, Learn(old, r.read, seen)[f], old[f])
    BY <1>4, NoReplace
  <2>4. new[f] = IF f \in r.renormal THEN BareResourceID(news[f]) ELSE news[f]
    BY <1>1, <2>1, RenewedIs
  <2>5. s[f] = new[f] \/ (f \in r.updated.fill /\ new[f] = {})
    BY <1>4
  <2>6. /\ Learn(s, r.read, seen)[f] =
             IF f \in r.read.take THEN seen[f]
             ELSE IF f \in r.read.fill THEN (IF s[f] # {} THEN s[f] ELSE seen[f]) ELSE s[f]
        /\ f \in r.read.take => Learn(old, r.read, seen)[f] = seen[f]
    BY <1>1, <1>3, <2>1
  <2> HIDE DEF rule, new, Steadied
  <2>7. ~Changed(rule, new[f], news[f]) /\ ~Changed(rule, news[f], new[f])
    <3>1. new[f] = news[f] \/ (rule \in {"givenId", "alwaysId"} /\ new[f] = BareResourceID(news[f]))
      BY <2>2, <2>4 DEF Comparisons
    <3> QED  BY <2>1, <2>2, <3>1, SameIs, SameBare
  <2>8. ~Changed(rule, s[f], news[f])
    <3>1. CASE s[f] = new[f]
      BY <2>7, <3>1
    <3>2. CASE s[f] # new[f]
      <4>1. rule \in {"given", "givenId"} /\ news[f] = {}
        BY <2>2, <2>4, <2>5, <3>2, BareOfBlank DEF Comparisons
      <4> QED  BY <2>2, <4>1, SameIs
    <3> QED  BY <3>1, <3>2
  <2>9. ASSUME Steadied PROVE ~Changed(rule, Learn(s, r.read, seen)[f], s[f])
    <3>1. CASE f \in r.read.take
      <4>1. s[f] = new[f] /\ Learn(s, r.read, seen)[f] = Learn(old, r.read, seen)[f]
        BY <2>2, <2>5, <2>6, <3>1
      <4> QED  BY <2>2, <2>3, <2>7, <2>9, <4>1, SameIs
    <3>2. CASE f \notin r.read.take /\ Learn(s, r.read, seen)[f] # s[f]
      <4>1. f \in r.read.fill /\ s[f] = {} /\ rule \in {"given", "givenId"}
        BY <2>2, <2>6, <3>2 DEF Comparisons
      <4> QED  BY <2>2, <4>1, SameIs
    <3>3. CASE Learn(s, r.read, seen)[f] = s[f]
      BY <2>2, <3>3, SameIs
    <3> QED  BY <3>1, <3>2, <3>3
  <2> QED  BY <2>8, <2>9 DEF rule, Steadied
<1> QED  BY <1>4, NoReplace

(* A second read adds nothing to the first. *)
LEMMA ReadFirm ==
    ASSUME Types, NEW old \in FieldsOf(kind), NEW seen \in FieldsOf(kind),
           NEW s, s = Learn(old, Resource[kind].read, seen)
    PROVE  /\ s \in FieldsOf(kind)
           /\ replaceDiff(kind, Learn(s, Resource[kind].read, seen), s) = {}
<1> DEFINE r == Resource[kind]
<1>1. kind \in Kinded /\ Row(kind) /\ Firm(kind) /\ DOMAIN r.diff.replace \subseteq ArgsOf(kind)
  BY FirmIs
<1>2. r.read.take \cap r.read.fill = {}
  BY <1>1 DEF Row
<1>3. \A t \in FieldsOf(kind) :
        /\ Learn(t, r.read, seen) \in FieldsOf(kind)
        /\ \A f \in ArgsOf(kind) : Learn(t, r.read, seen)[f] =
             IF f \in r.read.take THEN seen[f]
             ELSE IF f \in r.read.fill THEN (IF t[f] # {} THEN t[f] ELSE seen[f]) ELSE t[f]
  BY <1>2, LearnIs DEF FieldsOf
<1>4. s \in FieldsOf(kind)
  BY <1>3
<1>5. \A f \in ArgsOf(kind) : Learn(s, r.read, seen)[f] = s[f]
  <2>1. \A f \in ArgsOf(kind) : s[f] =
          IF f \in r.read.take THEN seen[f]
          ELSE IF f \in r.read.fill THEN (IF old[f] # {} THEN old[f] ELSE seen[f]) ELSE old[f]
    BY <1>3
  <2>2. \A f \in ArgsOf(kind) : Learn(s, r.read, seen)[f] =
          IF f \in r.read.take THEN seen[f]
          ELSE IF f \in r.read.fill THEN (IF s[f] # {} THEN s[f] ELSE seen[f]) ELSE s[f]
    BY <1>3, <1>4
  <2> QED  BY <2>1, <2>2
<1>6. \A f \in DOMAIN r.diff.replace : r.diff.replace[f] \in Comparisons /\ f \in ArgsOf(kind)
  BY <1>1 DEF Firm
<1> QED  BY <1>4, <1>5, <1>6, NoReplace, SameIs

(* No call on an object changes the fields that replace it. *)
LEMMA TouchFirm ==
    ASSUME Types, NEW c, Sent(c), Found, c.name \notin {"post", "delete"},
           NEW f \in DOMAIN Resource[kind].diff.replace
    PROVE  After(c).fields[f] = remote[Addressed].fields[f]
<1> DEFINE x == remote[Addressed]
<1>1. ObjectOf(c) = Addressed /\ x.fields \in FieldsOf(kind)
  BY DEF ObjectOf, Found, Types, ObjectOfKind
<1>2. /\ c \in CallsOf(kind) /\ c.name \in CallNames /\ op.do \in Dos /\ kind \in Kinded
      /\ stack.state \in FieldsOf(kind) /\ op.news \in FieldsOf(kind) /\ f \in ArgsOf(kind)
  BY FirmIs DEF Sent, CallsOf, Types
<1>3. /\ f \notin Resource[kind].calls.put
      /\ kind = "Instance" => f \notin {"name", "flavor", "tags", "securityGroups"}
  BY FirmIs DEF Firm
<1>4. c.name \in {"put", "rename", "tags"} => f \notin DOMAIN c.body
  <2>1. CASE op.do = "create" \/ kind = "Instance"
    BY <1>2, <1>3, <2>1 DEF Sent, Following, Updating, Dos
  <2>2. CASE op.do = "update" /\ kind # "Instance"
    <3>1. c.name = "put" => c.body = Put(kind, stack.state, op.news)
      BY <2>2 DEF Sent, Updating
    <3>2. DOMAIN Put(kind, stack.state, op.news) \subseteq Resource[kind].calls.put
      BY <1>2, PutIs
    <3>3. c.name \notin {"rename", "tags"}
      BY <2>2 DEF Sent, Updating
    <3> QED  BY <1>3, <3>1, <3>2, <3>3
  <2>3. CASE op.do \notin {"create", "update"}
    BY <1>2, <2>3 DEF Sent, Dos
  <2> QED  BY <2>1, <2>2, <2>3
<1>5. c.name \in {"resize", "remove", "attach"} => kind = "Instance"
  BY <1>2 DEF Sent, Following, Updating, Dos
<1> HIDE DEF x
<1>6. CASE c.name \in {"put", "rename", "tags"}
  <2>1. After(c) = [status |-> x.status, fields |-> Merge(x.fields, c.body)]
    BY <1>1, <1>6 DEF After, x
  <2>2. Merge(x.fields, c.body)[f] = x.fields[f]
    BY <1>1, <1>2, <1>4, <1>6 DEF Merge, FieldsOf
  <2> QED  BY <2>1, <2>2 DEF x
<1>7. CASE c.name \in {"resize", "remove", "attach"}
  <2>1. f \notin {"flavor", "securityGroups"}
    BY <1>3, <1>5, <1>7
  <2>2. \E g \in {"flavor", "securityGroups"} : \E v : After(c).fields = [x.fields EXCEPT ![g] = v]
    <3>1. CASE c.name = "resize"
      BY <1>1, <3>1 DEF After, x
    <3>2. CASE c.name = "remove"
      BY <1>1, <3>2 DEF After, x
    <3>3. CASE c.name = "attach"
      BY <1>1, <3>3 DEF After, x
    <3> QED  BY <1>7, <3>1, <3>2, <3>3
  <2> QED  BY <1>1, <1>2, <2>1, <2>2 DEF x, FieldsOf
<1>8. CASE c.name \in {"confirm", "resized", "verify", "wait", "get"}
  BY <1>1, <1>8 DEF After, x
<1> QED  BY <1>2, <1>6, <1>7, <1>8 DEF CallNames

LEMMA SeenIs ==
    ASSUME Types, NEW id \in Objects
    PROVE  /\ Seen(id) \in FieldsOf(kind)
           /\ \A f \in ArgsOf(kind) : Seen(id)[f] = IF f \in Calls.reply THEN remote[id].fields[f] ELSE {}
<1> DEFINE t == remote[id].fields
<1>1. t \in FieldsOf(kind) /\ Args = ArgsOf(kind)
  BY KindIs DEF Types, ObjectOfKind
<1> HIDE DEF t
<1>2. Seen(id) = [f \in ArgsOf(kind) |-> IF f \in Calls.reply THEN t[f] ELSE {}]
  BY <1>1 DEF Seen, t
<1>3. \A f \in ArgsOf(kind) : t[f] \in SUBSET Names
  BY <1>1 DEF FieldsOf
<1> QED  BY <1>2, <1>3 DEF FieldsOf, t

(* A read that is answered shows what the answer says. *)
LEMMA RefreshedIs ==
    ASSUME kind' = kind
    PROVE  Refreshed' = Learn(stack'.state, Resource[kind].read, Reply(stack'.id, "ok"))
BY DEF Refreshed, Seen, Reply, Args, Calls

LEMMA MadeAgain == ASSUME NEW body, UNCHANGED <<kind, faults>> PROVE Made(body)' = Made(body)
<1>1. Args' = Args
  BY DEF Args
<1> QED  BY <1>1 DEF Made

LEMMA BaresChecked ==
    ASSUME Types, Bares(program)
    PROVE  Bares(checkResourceArgs(program))
<1> DEFINE news == checkResourceArgs(program)
<1>1. Row(kind) /\ Args = ArgsOf(kind) /\ program \in FieldsOf(kind)
  BY KindIs DEF Types
<1>2. Scope \subseteq ArgsOf(kind) /\ \A f \in Scope : f \notin Resource[kind].ids \cup {"tags"}
  BY <1>1 DEF Row, ArgsOf, Scope
<1>3. /\ \A f \in ArgsOf(kind) \ Scope : news[f] = program[f]
      /\ news["availabilityZone"] = Or(program["availabilityZone"], DefaultZone)
      /\ news["projectId"] = Or(program["projectId"], DefaultProject)
  BY <1>1, <1>2, CheckedIs DEF FieldsOf
<1>4. Bare(DefaultZone) /\ Bare(DefaultProject)
  BY NamesAssumption DEF Bare, BareResourceID
<1>5. \A f \in Scope : Bare(program[f])
  BY <1>1, <1>2 DEF Bares
<1> HIDE DEF news
<1>6. \A f \in Scope : Bare(news[f])
  BY <1>3, <1>4, <1>5 DEF Or, Scope
<1> QED  BY <1>1, <1>3, <1>6 DEF Bares, news

(* The object in the stack as it was, as far as a replacement goes, or away. *)
Unmoved(id) ==
    id \in Live' => /\ id \in Live
                    /\ \A f \in DOMAIN Resource[kind].diff.replace : remote'[id].fields[f] = remote[id].fields[f]

(* A read of an object that is as it was shows what it did. *)
LEMMA UnmovedSeen ==
    ASSUME Types, Types', UNCHANGED kind, NEW id \in Live', Unmoved(id),
           NEW old \in FieldsOf(kind), replaceDiff(kind, Learn(old, Resource[kind].read, Seen(id)), old) = {}
    PROVE  replaceDiff(kind, Learn(old, Resource[kind].read, Reply(id, "ok")), old) = {}
<1> DEFINE r == Resource[kind]
           now == Reply(id, "ok")
<1>1. Row(kind) /\ DOMAIN r.diff.replace \subseteq ArgsOf(kind) /\ r.read.take \cap r.read.fill = {}
  BY FirmIs DEF Row
<1>2. id \in Objects
  BY DEF Live
<1>3. Seen(id) \in FieldsOf(kind) /\ now \in FieldsOf(kind)
  BY <1>2, SeenIs, ReplyIs DEF Types
<1>4. \A f \in DOMAIN r.diff.replace : now[f] = Seen(id)[f]
  <2>1. \A f \in DOMAIN r.diff.replace : remote'[id].fields[f] = remote[id].fields[f]
    BY DEF Unmoved
  <2>2. \A f \in ArgsOf(kind) : now[f] = IF f \in Calls.reply THEN remote'[id].fields[f] ELSE {}
    BY <1>2, ReplyIs DEF Types
  <2> HIDE DEF now
  <2> QED  BY <1>1, <1>2, <2>1, <2>2, SeenIs
<1> HIDE DEF now
<1>5. \A seen \in FieldsOf(kind) : \A f \in ArgsOf(kind) :
        Learn(old, r.read, seen)[f] =
             IF f \in r.read.take THEN seen[f]
             ELSE IF f \in r.read.fill THEN (IF old[f] # {} THEN old[f] ELSE seen[f]) ELSE old[f]
  <2> SUFFICES ASSUME NEW seen \in FieldsOf(kind), NEW f \in ArgsOf(kind)
               PROVE  Learn(old, r.read, seen)[f] =
                        IF f \in r.read.take THEN seen[f]
                        ELSE IF f \in r.read.fill THEN (IF old[f] # {} THEN old[f] ELSE seen[f]) ELSE old[f]
    OBVIOUS
  <2> QED  BY <1>1, LearnIs DEF FieldsOf
<1>6. \A f \in DOMAIN r.diff.replace : Learn(old, r.read, now)[f] = Learn(old, r.read, Seen(id))[f]
  BY <1>1, <1>3, <1>4, <1>5
<1> QED  BY <1>6, NoReplace DEF now

LEMMA KeptFirm ==
    ASSUME Types, Types', Firmly, UNCHANGED <<kind, faults, stack, applied>>,
           Bares(program)', Unmoved(stack.id), op'.do # "import",
           op'.do = "update" => DOMAIN Resource[kind].diff.update # {},
           op'.do = "create" /\ op'.made \in Live' => AsPosted'
    PROVE  Firmly'
<1>1. Bares(applied)'
  BY DEF Firmly, Bares, Args
<1>2. stack'.id # None => replaceDiff(kind', stack'.state, applied') = {}
  BY DEF Firmly
<1>3. ASSUME stack.id \in Live'
      PROVE  replaceDiff(kind, Learn(stack.state, Resource[kind].read, Reply(stack.id, "ok")), stack.state) = {}
  <2>1. replaceDiff(kind, Learn(stack.state, Resource[kind].read, Seen(stack.id)), stack.state) = {}
    BY <1>3 DEF Firmly, Unmoved, Refreshed
  <2>2. stack.state \in FieldsOf(kind)
    BY DEF Types
  <2> QED  BY <1>3, <2>1, <2>2, UnmovedSeen
<1>4. stack'.id \in Live' => replaceDiff(kind', Refreshed', stack'.state) = {}
  BY <1>3, RefreshedIs
<1> QED  BY <1>1, <1>2, <1>4 DEF Firmly

LEMMA DroppedFirm ==
    ASSUME Types, Types', UNCHANGED kind, stack'.id = None, Bares(program)', Bares(applied)',
           op'.do \notin {"import", "update"},
           op'.do = "create" /\ op'.made \in Live' => AsPosted'
    PROVE  Firmly'
<1>1. None \notin Live'
  BY StackAssumption DEF Live
<1> QED  BY <1>1 DEF Firmly

(* The end of an operation, or an up that has no call to make: a state that differs neither *)
(* from the program nor from what a read shows.                                             *)
LEMMA RenewFirm ==
    ASSUME Types, Types', UNCHANGED <<kind, faults, program>>, Bares(program),
           applied' = checkResourceArgs(program), op'.do = "idle",
           replaceDiff(kind, stack'.state, checkResourceArgs(program)) = {},
           stack'.id \in Live' =>
             replaceDiff(kind, Learn(stack'.state, Resource[kind].read, Reply(stack'.id, "ok")), stack'.state) = {}
    PROVE  Firmly'
<1>1. Bares(program)' /\ Bares(checkResourceArgs(program))
  BY BaresChecked DEF Bares, Args
<1>2. Bares(applied)'
  BY <1>1 DEF Bares, Args
<1>3. stack'.id \in Live' => replaceDiff(kind', Refreshed', stack'.state) = {}
  BY RefreshedIs
<1> QED  BY <1>1, <1>2, <1>3 DEF Firmly

(* A request leaves the objects as they were, as far as a replacement goes, but for the one *)
(* that it deletes or makes.                                                                 *)
LEMMA ServedUnmoved ==
    ASSUME Types, NEW c, Sent(c), Room(c), c.name # "post",
           remote' = remote \/ (Found /\ remote' = Effect(c))
    PROVE  Unmoved(Addressed)
<1>1. CASE remote' = remote
  BY <1>1 DEF Unmoved, Live
<1>2. CASE Found /\ remote' = Effect(c)
  <2>1. Addressed \in Objects /\ Addressed \in Live /\ ObjectOf(c) = Addressed
    BY <1>2, LiveIs DEF Found, ObjectOf
  <2>2. remote'[Addressed] = After(c)
    BY <1>2, <2>1, EffectIs
  <2>3. CASE c.name = "delete"
    <3>1. After(c).status = "none"
      BY <2>3 DEF After, NoObject
    <3> QED  BY <2>2, <3>1, LiveIs DEF Unmoved
  <2>4. CASE c.name # "delete"
    <3>1. \A f \in DOMAIN Resource[kind].diff.replace : After(c).fields[f] = remote[Addressed].fields[f]
      BY <1>2, <2>4, TouchFirm
    <3> QED  BY <2>1, <2>2, <3>1 DEF Unmoved
  <2> QED  BY <2>3, <2>4
<1> QED  BY <1>1, <1>2

LEMMA CreateFirm ==
    ASSUME Shape, Types', Undisturbed, Firmly, op.do = "create", NEW c, c = Head(op.calls), NEW class,
           Sent(c), Room(c), React(c, class), Outcome(c, class)
    PROVE  Firmly'
<1> DEFINE news == op.news
           rules == Resource[kind]
<1>1. /\ Types /\ news \in FieldsOf(kind) /\ stack.id = None /\ news = checkResourceArgs(program)
      /\ Bares(program) /\ op.made \in Objects \cup {None}
  BY DEF Shape, Types, Creating, Checked, Firmly
<1>2. UNCHANGED <<kind, faults, program, turns>>
  BY ReactIs
<1>3. c.name = "post" <=> op.made = None
  BY <1>1, StackAssumption DEF Sent, Shape, Creating, Call
<1>4. Bares(program)' /\ (stack' = stack => Unmoved(stack.id))
  <2>1. Bares(program)'
    BY <1>1, <1>2 DEF Bares, Args
  <2>2. None \notin Live'
    BY StackAssumption DEF Live
  <2> QED  BY <1>1, <2>1, <2>2 DEF Unmoved
<1>5. remote' = remote \/ ((c.name = "post" \/ Found) /\ remote' = Effect(c))
  BY DEF Outcome
<1>6. ASSUME op.made \in Live'
      PROVE  \A f \in DOMAIN rules.diff.replace :
                remote'[op.made].fields[f] = Made(Post(kind, news)).fields[f]
  <2>1. op.made # None /\ Addressed = op.made
    BY <1>6, StackAssumption DEF Live, Addressed
  <2>2. Unmoved(op.made)
    BY <1>1, <1>3, <1>5, <2>1, ServedUnmoved
  <2>3. op.made \in Live /\ AsPosted
    BY <1>6, <2>2 DEF Unmoved, Firmly
  <2> QED  BY <1>6, <2>2, <2>3 DEF Unmoved, AsPosted
<1>7. ASSUME UNCHANGED <<stack, applied>>, op'.do = "idle" \/ (op'.do = "create" /\ op'.news = news),
             op'.do = "create" /\ op'.made \in Live' =>
               \A f \in DOMAIN rules.diff.replace :
                  remote'[op'.made].fields[f] = Made(Post(kind, news)).fields[f]
      PROVE  Firmly'
  <2>1. \A body : Made(body)' = Made(body)
    BY <1>2, MadeAgain
  <2>2. op'.do = "create" /\ op'.made \in Live' => AsPosted'
    BY <1>2, <1>7, <2>1 DEF AsPosted
  <2> QED  BY <1>1, <1>2, <1>4, <1>7, <2>2, KeptFirm
<1>8. CASE Fail(class)
  <2>1. UNCHANGED <<stack, applied>> /\ op'.do = "idle"
    BY <1>8 DEF Fail, Idle
  <2> QED  BY <1>7, <2>1
<1>9. CASE op' = [op EXCEPT !.attempt = @ + 1] /\ UNCHANGED <<stack, applied, upToDate>>
  <2>1. op'.do = "create" /\ op'.news = news /\ op'.made = op.made
    BY <1>1, <1>9 DEF Types
  <2> QED  BY <1>6, <1>7, <1>9, <2>1
<1>10. CASE Advance(c, class) /\ (class \in {"ok", "blank"} \/ c.name = "delete")
  <2> DEFINE id == ObjectOf(c)
  <2>1. class = "ok"
    <3>1. c.name # "delete" /\ class # "blank"
      BY DEF Sent, Outcome, Undisturbed
    <3> QED  BY <1>10, <3>1
  <2>2. remote' = Effect(c) /\ (c.name = "post" \/ Found)
    BY <2>1 DEF Outcome
  <2>3. id \in Objects /\ remote'[id] = After(c)
    BY <1>1, <2>2, EffectIs
  <2>4. \A f \in DOMAIN rules.diff.replace : remote'[id].fields[f] = Made(Post(kind, news)).fields[f]
    <3>1. CASE c.name = "post"
      <4>1. After(c) = Made(Post(kind, news))
        BY <3>1 DEF After, Sent
      <4> QED  BY <2>3, <4>1
    <3>2. CASE c.name # "post"
      <4>1. id = op.made /\ Addressed = op.made
        BY <3>2 DEF ObjectOf, Addressed
      <4>2. Found /\ After(c).status # "none"
        BY <1>1, <2>2, <3>2, TouchIs DEF Sent
      <4>3. op.made \in Live'
        BY <2>3, <4>1, <4>2, LiveIs
      <4> QED  BY <1>6, <4>1, <4>3
    <3> QED  BY <3>1, <3>2
  <2> HIDE DEF id
  <2>5. CASE /\ op' = [op EXCEPT !.calls = Rest(c), !.attempt = 1, !.made = id]
             /\ UNCHANGED <<stack, applied, upToDate>>
    <3>1. op'.do = "create" /\ op'.news = news /\ op'.made = id
      BY <1>1, <2>5 DEF Types
    <3> QED  BY <1>7, <2>4, <2>5, <3>1
  <2>6. CASE Commit(id, class)
    <3> DEFINE reply == Reply(id, "ok")
               s == Learn(Kept(kind, news), rules.created, reply)
    <3>1. stack' = [id |-> id, state |-> s] /\ Succeed(news) /\ op' = Idle
      BY <2>1, <2>6 DEF Commit
    <3>2. /\ reply \in FieldsOf(kind)
          /\ \A f \in ArgsOf(kind) : reply[f] = IF f \in Calls.reply THEN remote'[id].fields[f] ELSE {}
      BY <1>1, <1>2, <2>3, ReplyIs DEF Types, id
    <3> HIDE DEF reply
    <3>3. \A f \in DOMAIN rules.diff.replace :
             reply[f] = IF f \in Calls.reply THEN Made(Post(kind, news)).fields[f] ELSE {}
      BY <1>1, <2>4, <3>2, FirmIs
    <3>4. replaceDiff(kind, s, news) = {} /\ replaceDiff(kind, Learn(s, rules.read, reply), s) = {}
      BY <1>1, <3>2, <3>3, CreatedFirm
    <3> HIDE DEF s
    <3>5. stack'.id = id /\ stack'.state = s /\ applied' = news /\ op'.do = "idle"
      BY <3>1 DEF Succeed, Idle
    <3> QED  BY <1>1, <1>2, <3>4, <3>5, RenewFirm DEF reply
  <2> QED  BY <1>10, <2>5, <2>6, AdvanceIs DEF id
<1> QED  BY <1>8, <1>9, <1>10, ReactIs

LEMMA UpdateFirm ==
    ASSUME Shape, Types', Undisturbed, Firmly, op.do = "update", NEW c, c = Head(op.calls), NEW class,
           Sent(c), Room(c), React(c, class), Outcome(c, class)
    PROVE  Firmly'
<1> DEFINE news == op.news
           rules == Resource[kind]
<1>1. /\ Types /\ news \in FieldsOf(kind) /\ news = checkResourceArgs(program) /\ Bares(program)
      /\ stack.id # None /\ replaceDiff(kind, stack.state, news) = {} /\ DOMAIN rules.diff.update # {}
      /\ stack.state \in FieldsOf(kind)
  BY DEF Shape, Types, Renewing, Checked, Firmly
<1>2. UNCHANGED <<kind, faults, program, turns>>
  BY ReactIs
<1>3. c.name # "post" /\ c.name # "delete" /\ Addressed = stack.id /\ ObjectOf(c) = stack.id
  BY DEF Sent, Addressed, ObjectOf
<1>4. Bares(program)' /\ Unmoved(stack.id)
  <2>1. Bares(program)'
    BY <1>1, <1>2 DEF Bares, Args
  <2>2. remote' = remote \/ (Found /\ remote' = Effect(c))
    BY <1>3 DEF Outcome
  <2> QED  BY <1>1, <1>3, <2>1, <2>2, ServedUnmoved
<1>5. ASSUME UNCHANGED <<stack, applied>>, op'.do \in {"idle", "update"}
      PROVE  Firmly'
  BY <1>1, <1>2, <1>4, <1>5, KeptFirm
<1>6. CASE Fail(class)
  BY <1>5, <1>6 DEF Fail, Idle
<1>7. CASE op' = [op EXCEPT !.attempt = @ + 1] /\ UNCHANGED <<stack, applied, upToDate>>
  BY <1>1, <1>5, <1>7 DEF Types
<1>8. CASE Advance(c, class) /\ (class \in {"ok", "blank"} \/ c.name = "delete")
  <2>1. class = "ok" /\ Found
    <3>1. class # "blank"
      BY DEF Outcome, Undisturbed
    <3> QED  BY <1>3, <1>8, <3>1 DEF Outcome
  <2>2. CASE /\ op' = [op EXCEPT !.calls = Rest(c), !.attempt = 1,
                                 !.made = IF op.do = "create" THEN ObjectOf(c) ELSE None]
             /\ UNCHANGED <<stack, applied, upToDate>>
    <3>1. op'.do = "update"
      BY <1>1, <2>2 DEF Types
    <3> QED  BY <1>5, <2>2, <3>1
  <2>3. CASE Commit(stack.id, class)
    <3> DEFINE reply == Reply(stack.id, "ok")
               renewed == Renewed(kind, news)
               s == Learn(renewed, rules.updated, reply)
    <3>1. stack' = [stack EXCEPT !.state = s] /\ Succeed(news) /\ op' = Idle
      BY <2>1, <2>3 DEF Commit
    <3>2. stack.id \in Objects /\ stack.id \in Live
      BY <1>3, <2>1, LiveIs DEF Found
    <3>3. reply \in FieldsOf(kind)
      BY <1>1, <1>2, <3>2, ReplyIs DEF Types
    <3> HIDE DEF reply
    <3>4. /\ kind \in Kinded /\ Row(kind) /\ Firm(kind) /\ renewed \in FieldsOf(kind)
          /\ DOMAIN rules.diff.replace \subseteq ArgsOf(kind)
      BY <1>1, FirmIs, RenewedIs
    <3> HIDE DEF renewed
    <3>5. /\ s \in FieldsOf(kind)
          /\ \A f \in ArgsOf(kind) : s[f] =
               IF f \in rules.updated.take THEN reply[f]
               ELSE IF f \in rules.updated.fill THEN (IF renewed[f] # {} THEN renewed[f] ELSE reply[f])
               ELSE renewed[f]
      BY <3>3, <3>4, LearnIs DEF Row, FieldsOf
    <3>6. \A f \in DOMAIN rules.diff.replace :
             s[f] = renewed[f] \/ (f \in rules.updated.fill /\ renewed[f] = {})
      BY <3>4, <3>5 DEF Firm
    <3> HIDE DEF s
    <3>7. /\ replaceDiff(kind, s, news) = {}
          /\ replaceDiff(kind, Learn(stack.state, rules.read, reply), stack.state) = {}
               => replaceDiff(kind, Learn(s, rules.read, reply), s) = {}
      BY <1>1, <3>3, <3>5, <3>6, RenewedFirm DEF renewed
    <3>8. stack.id \in Live' =>
             replaceDiff(kind, Learn(stack.state, rules.read, reply), stack.state) = {}
      <4>1. replaceDiff(kind, Learn(stack.state, rules.read, Seen(stack.id)), stack.state) = {}
        BY <3>2 DEF Firmly, Refreshed
      <4> QED  BY <1>1, <1>2, <1>4, <4>1, UnmovedSeen DEF reply
    <3>9. stack'.id = stack.id /\ stack'.state = s /\ applied' = news /\ op'.do = "idle"
      BY <1>1, <3>1 DEF Succeed, Idle, Types
    <3> QED  BY <1>1, <1>2, <3>7, <3>8, <3>9, RenewFirm DEF reply
  <2> QED  BY <1>3, <1>8, <2>2, <2>3, AdvanceIs
<1> QED  BY <1>6, <1>7, <1>8, ReactIs

LEMMA DeleteFirm ==
    ASSUME Shape, Types', Undisturbed, Firmly, op.do \in {"replace", "destroy"}, NEW c, c = Head(op.calls),
           NEW class, Sent(c), Room(c), React(c, class), Outcome(c, class)
    PROVE  Firmly'
<1>1. Types /\ Bares(program) /\ Bares(applied) /\ c.name = "delete" /\ Addressed = stack.id
  BY DEF Shape, Firmly, Sent, Addressed
<1>2. UNCHANGED <<kind, faults, program, turns>>
  BY ReactIs
<1>3. Bares(program)' /\ Unmoved(stack.id)
  <2>1. Bares(program)'
    BY <1>1, <1>2 DEF Bares, Args
  <2>2. remote' = remote \/ (Found /\ remote' = Effect(c))
    BY <1>1 DEF Outcome
  <2> QED  BY <1>1, <2>1, <2>2, ServedUnmoved
<1>4. ASSUME UNCHANGED <<stack, applied>>, op'.do \in {"idle", "replace", "destroy"}
      PROVE  Firmly'
  BY <1>1, <1>2, <1>3, <1>4, KeptFirm
<1>5. CASE Fail(class)
  BY <1>4, <1>5 DEF Fail, Idle
<1>6. CASE op' = [op EXCEPT !.attempt = @ + 1] /\ UNCHANGED <<stack, applied, upToDate>>
  BY <1>1, <1>4, <1>6 DEF Types
<1>7. CASE Advance(c, class)
  <2>1. Commit(ObjectOf(c), class)
    BY <1>7, RestIs, AdvanceIs DEF Sent
  <2>2. /\ stack' = NoStack /\ applied' = applied
        /\ op'.do = "idle" \/ (op'.do = "create" /\ op'.made = None)
    BY <2>1 DEF Commit, Start, Idle
  <2>3. Bares(applied)' /\ None \notin Live'
    BY <1>1, <1>2, <2>2, StackAssumption DEF Bares, Args, Live
  <2>4. stack'.id = None
    BY <2>2 DEF NoStack
  <2> QED  BY <1>1, <1>2, <1>3, <2>2, <2>3, <2>4, DroppedFirm
<1> QED  BY <1>5, <1>6, <1>7, ReactIs

LEMMA RefreshFirm ==
    ASSUME Shape, Types', Undisturbed, Firmly, op.do = "refresh", NEW c, c = Head(op.calls),
           NEW class, Sent(c), Room(c), React(c, class), Outcome(c, class)
    PROVE  Firmly'
<1> DEFINE rules == Resource[kind]
<1>1. /\ Types /\ Bares(program) /\ Bares(applied) /\ c.name = "get" /\ Addressed = stack.id
      /\ ObjectOf(c) = stack.id /\ stack.state \in FieldsOf(kind)
  BY DEF Shape, Firmly, Sent, Addressed, ObjectOf, Types
<1>2. UNCHANGED <<kind, faults, program, turns>> /\ remote' = remote
  BY <1>1, ReactIs, GetIs DEF Outcome
<1>3. Bares(program)' /\ Unmoved(stack.id)
  BY <1>1, <1>2 DEF Bares, Args, Unmoved, Live
<1>4. ASSUME UNCHANGED <<stack, applied>>, op'.do \in {"idle", "refresh"}
      PROVE  Firmly'
  BY <1>1, <1>2, <1>3, <1>4, KeptFirm
<1>5. CASE Fail(class)
  <2>1. op'.do = "idle" /\ applied' = applied /\ (stack' = stack \/ stack' = NoStack)
    BY <1>5 DEF Fail, Idle
  <2>2. CASE stack' = NoStack
    <3>1. Bares(applied)'
      BY <1>1, <1>2, <2>1 DEF Bares, Args
    <3> QED  BY <1>1, <1>2, <1>3, <2>1, <2>2, <3>1, DroppedFirm DEF NoStack
  <2> QED  BY <1>4, <2>1, <2>2
<1>6. CASE op' = [op EXCEPT !.attempt = @ + 1] /\ UNCHANGED <<stack, applied, upToDate>>
  BY <1>1, <1>4, <1>6 DEF Types
<1>7. CASE Advance(c, class) /\ (class \in {"ok", "blank"} \/ c.name = "delete")
  <2>1. class = "ok" /\ Found
    <3>1. class # "blank"
      BY DEF Outcome, Undisturbed
    <3> QED  BY <1>1, <1>7, <3>1 DEF Outcome
  <2>2. Commit(stack.id, class)
    BY <1>1, <1>7, RestIs, AdvanceIs DEF Sent
  <2> DEFINE reply == Reply(stack.id, "ok")
             s == Learn(stack.state, rules.read, reply)
  <2>3. stack' = [id |-> stack.id, state |-> s] /\ op' = Idle /\ applied' = applied
    BY <2>1, <2>2 DEF Commit
  <2>4. stack.id \in Objects /\ stack.id \in Live /\ stack.id \in Live' /\ stack.id # None
    BY <1>1, <1>2, <2>1, LiveIs, StackAssumption DEF Found
  <2>5. reply \in FieldsOf(kind)
    BY <1>1, <1>2, <2>4, ReplyIs DEF Types
  <2>6. replaceDiff(kind, s, stack.state) = {} /\ replaceDiff(kind, stack.state, applied) = {}
    <3>1. replaceDiff(kind, Learn(stack.state, rules.read, Seen(stack.id)), stack.state) = {}
      BY <2>4 DEF Firmly, Refreshed
    <3>2. replaceDiff(kind, s, stack.state) = {}
      BY <1>1, <1>2, <1>3, <2>4, <3>1, UnmovedSeen
    <3> QED  BY <2>4, <3>2 DEF Firmly
  <2> HIDE DEF reply
  <2>7. replaceDiff(kind, Learn(s, rules.read, reply), s) = {}
    BY <1>1, <2>5, ReadFirm
  <2> HIDE DEF s
  <2>8. replaceDiff(kind, s, applied) = {}
    BY <1>1, <2>6, SameTwice, FirmIs
  <2>9. stack'.id = stack.id /\ stack'.state = s /\ op'.do = "idle"
    BY <2>3 DEF Idle
  <2>10. Bares(applied)'
    BY <1>1, <1>2, <2>3 DEF Bares, Args
  <2>11. stack'.id \in Live' => replaceDiff(kind', Refreshed', stack'.state) = {}
    BY <1>2, <2>7, <2>9, RefreshedIs DEF reply
  <2> QED  BY <1>2, <1>3, <2>3, <2>8, <2>9, <2>10, <2>11 DEF Firmly
<1> QED  BY <1>5, <1>6, <1>7, ReactIs

LEMMA UpFirm ==
    ASSUME Shape, Types', Undisturbed, Firmly, Up
    PROVE  Firmly'
<1> DEFINE news == checkResourceArgs(program)
           rules == Resource[kind]
<1>1. /\ Types /\ Bares(program) /\ op.do = "idle" /\ stack.state \in FieldsOf(kind)
      /\ UNCHANGED <<kind, faults, program, remote, turns, trouble>>
  BY DEF Shape, Types, Firmly, Up
<1>2. kind \in Kinded /\ news \in FieldsOf(kind)
  BY <1>1, CheckedIs, KindIs DEF Types, Row, FieldsOf, ArgsOf
<1>3. Bares(program)' /\ Unmoved(stack.id) /\ None \notin Live'
  BY <1>1, StackAssumption DEF Bares, Args, Unmoved, Live
<1>4. ASSUME UNCHANGED <<stack, applied>>, op'.do \in {"create", "replace", "update"}, op'.made = None,
             op'.do = "update" => DOMAIN rules.diff.update # {}
      PROVE  Firmly'
  BY <1>1, <1>3, <1>4, KeptFirm
<1> DEFINE reply == Reply(stack.id, "ok")
<1>5. ASSUME stack.id \in Live'
      PROVE  /\ replaceDiff(kind, Learn(stack.state, rules.read, reply), stack.state) = {}
             /\ reply \in FieldsOf(kind)
  <2>1. stack.id \in Live /\ stack.id \in Objects
    BY <1>3, <1>5, LiveIs DEF Unmoved
  <2>2. replaceDiff(kind, Learn(stack.state, rules.read, Seen(stack.id)), stack.state) = {}
    BY <2>1 DEF Firmly, Refreshed
  <2>3. reply \in FieldsOf(kind)
    BY <1>1, <2>1, ReplyIs DEF Types
  <2> QED  BY <1>1, <1>3, <1>5, <2>2, <2>3, UnmovedSeen
<1> HIDE DEF reply
<1>6. CASE /\ replaceDiff(kind, stack.state, news) = {} /\ UNCHANGED <<stack, op>> /\ applied' = news
  BY <1>1, <1>2, <1>5, <1>6, RenewFirm DEF reply
<1>7. ASSUME diffResponse(kind, stack.state, news) # {}, replaceDiff(kind, stack.state, news) = {}
      PROVE  DOMAIN rules.diff.update # {}
  BY <1>7 DEF diffResponse, updateDiff, ChangedOf
<1>8. CASE /\ diffResponse(kind, stack.state, news) # {} /\ replaceDiff(kind, stack.state, news) = {}
           /\ stack' = [stack EXCEPT !.state = Renewed(kind, news)] /\ applied' = news /\ op' = op
  <2> DEFINE s == Renewed(kind, news)
  <2>1. s \in FieldsOf(kind)
    BY <1>2, RenewedIs
  <2>2. \A seen \in FieldsOf(kind) :
           /\ replaceDiff(kind, s, news) = {}
           /\ replaceDiff(kind, Learn(stack.state, rules.read, seen), stack.state) = {}
                => replaceDiff(kind, Learn(s, rules.read, seen), s) = {}
    BY <1>1, <1>2, <1>7, <1>8, <2>1, RenewedFirm
  <2>3. stack'.id = stack.id /\ stack'.state = s
    BY <1>1, <1>8 DEF Types
  <2> HIDE DEF s
  <2>4. replaceDiff(kind, s, news) = {}
    BY <1>2, <2>2
  <2>5. stack.id \in Live' => replaceDiff(kind, Learn(s, rules.read, reply), s) = {}
    BY <1>5, <2>2
  <2> QED  BY <1>1, <1>8, <2>3, <2>4, <2>5, RenewFirm DEF reply
<1>9. \/ UNCHANGED <<stack, applied>> /\ op'.do \in {"create", "replace"} /\ op'.made = None
      \/ /\ replaceDiff(kind, stack.state, news) = {} /\ UNCHANGED <<stack, op>> /\ applied' = news
      \/ /\ diffResponse(kind, stack.state, news) # {} /\ replaceDiff(kind, stack.state, news) = {}
         /\ \/ /\ stack' = [stack EXCEPT !.state = Renewed(kind, news)]
               /\ applied' = news /\ op' = op
            \/ UNCHANGED <<stack, applied>> /\ op'.do = "update" /\ op'.made = None
  BY DEF Up, Start, Succeed
<1> HIDE DEF news
<1> QED  BY <1>4, <1>6, <1>7, <1>8, <1>9

LEMMA NextSteady == Shape /\ Steady /\ [Next]_vars => Steady'
<1> SUFFICES ASSUME Shape, Steady, [Next]_vars, Undisturbed' PROVE Firmly'
  BY DEF Steady
<1>1. UNCHANGED <<kind, faults>>
  BY ServeIs, ReactIs DEF Next, vars, Up, UpRefused, Edit, Refresh, Destroy, Import, Vanish, Resized
<1>2. Undisturbed /\ Firmly /\ Types /\ Types'
  BY <1>1, NextShape DEF Undisturbed, Steady, Shape
<1>3. ASSUME UNCHANGED vars PROVE Firmly'
  BY <1>2, <1>3 DEF vars, Firmly, Bares, AsPosted, Refreshed, Seen, Live, Args, Calls, Made
<1>4. CASE Serve
  <2>1. PICK class : LET c == Head(op.calls) IN Sent(c) /\ Room(c) /\ React(c, class) /\ Outcome(c, class)
    BY <1>4, ServeIs
  <2>2. op.do \in {"create", "update", "replace", "destroy", "refresh"}
    BY <1>2, <1>4 DEF Serve, Types, Dos, Firmly
  <2> QED  BY <1>2, <2>1, <2>2, CreateFirm, UpdateFirm, DeleteFirm, RefreshFirm
<1>5. ASSUME Bares(program)', UNCHANGED <<stack, applied>>, Unmoved(stack.id),
             \/ op' = op /\ Unmoved(op.made)
             \/ op'.do \in {"refresh", "destroy"}
      PROVE  Firmly'
  <2>1. op'.do = "update" => DOMAIN Resource[kind].diff.update # {}
    BY <1>2, <1>5 DEF Firmly
  <2>2. ASSUME op'.do = "create", op'.made \in Live' PROVE AsPosted'
    <3>1. op' = op /\ op.made \in Live
      BY <1>5, <2>2 DEF Unmoved
    <3>2. AsPosted
      BY <1>2, <2>2, <3>1 DEF Firmly
    <3>3. \A body : Made(body)' = Made(body)
      BY <1>1, MadeAgain
    <3> QED  BY <1>1, <1>5, <2>2, <3>1, <3>2, <3>3 DEF AsPosted, Unmoved
  <2>3. op'.do # "import"
    BY <1>2, <1>5 DEF Firmly
  <2> QED  BY <1>1, <1>2, <1>5, <2>1, <2>2, <2>3, KeptFirm
<1>6. program' = program => Bares(program)'
  BY <1>1, <1>2 DEF Firmly, Bares, Args
<1>7. remote' = remote => \A id : Unmoved(id)
  BY DEF Unmoved, Live
<1>8. CASE Edit
  <2>1. PICK f \in Args : \E v \in Values(f) : program' = [program EXCEPT ![f] = v]
    BY <1>8 DEF Edit
  <2>2. PICK v \in Values(f) : program' = [program EXCEPT ![f] = v]
    BY <2>1
  <2>3. f \in Resource[kind].ids \cup {"tags"} \/ Bare(v)
    BY <2>2 DEF Values, Bare, BareResourceID
  <2>4. \A g \in Args : program'[g] = IF g = f THEN v ELSE program[g]
    BY <1>2, <2>2, KindIs DEF Types, FieldsOf
  <2>5. Bares(program)'
    BY <1>1, <1>2, <2>3, <2>4 DEF Bares, Firmly, Args
  <2>6. UNCHANGED <<stack, remote, op, applied>>
    BY <1>8 DEF Edit
  <2> QED  BY <1>5, <1>7, <2>5, <2>6
<1>9. CASE Refresh \/ Destroy
  <2>1. op'.do \in {"refresh", "destroy"} /\ UNCHANGED <<stack, remote, program, applied>>
    BY <1>9 DEF Refresh, Destroy, Start
  <2> QED  BY <1>5, <1>6, <1>7, <2>1
<1>10. CASE Vanish
  <2>1. PICK o \in Live : remote' = [remote EXCEPT ![o] = NoObject]
    BY <1>10 DEF Vanish
  <2>2. UNCHANGED <<program, stack, op, applied>>
    BY <1>10 DEF Vanish
  <2>3. /\ \A x \in Objects : x # o => remote'[x] = remote[x]
        /\ remote'[o].status = "none" /\ o \in Objects
    BY <1>2, <2>1 DEF Types, NoObject, Live
  <2>4. \A id : Unmoved(id)
    BY <2>3, LiveIs DEF Unmoved
  <2> QED  BY <1>5, <1>6, <2>2, <2>4
<1>11. CASE Resized
  <2>1. PICK o \in Objects :
           /\ remote[o].status = "resizing"
           /\ remote' = [remote EXCEPT ![o] = [status |-> "verify", fields |-> remote[o].fields]]
    BY <1>2, <1>11, ResizedIs
  <2>2. UNCHANGED <<program, stack, op, applied>>
    BY <1>11 DEF Resized
  <2>3. /\ \A x \in Objects \ {o} : remote'[x] = remote[x]
        /\ remote'[o].status = "verify" /\ remote'[o].fields = remote[o].fields
    BY <1>2, <2>1 DEF Types
  <2>4. \A id : Unmoved(id)
    BY <2>1, <2>3, LiveIs DEF Unmoved
  <2> QED  BY <1>5, <1>6, <2>2, <2>4
<1>12. CASE Import
  BY <1>2, <1>12 DEF Import, Undisturbed
<1>13. CASE Up
  BY <1>2, <1>13, UpFirm
<1> QED  BY <1>3, <1>4, <1>8, <1>9, <1>10, <1>11, <1>12, <1>13 DEF Next, UpRefused

LEMMA InitSteady == Init => Steady
<1> SUFFICES ASSUME Init, Undisturbed PROVE Firmly
  BY DEF Steady
<1>1. Types
  BY InitShape DEF Shape
<1>2. op = Idle /\ stack = NoStack /\ "import" \notin faults /\ applied = NoArgs /\ program \in Programs(kind)
  BY DEF Init, Undisturbed
<1>3. op.do = "idle" /\ stack.id = None /\ None \notin Live
  BY <1>2, StackAssumption DEF Idle, NoStack, Live
<1>4. Bares(applied)
  BY <1>2 DEF Bares, NoArgs, Bare, BareResourceID
<1>5. Bares(program)
  <2>1. \A f \in Args : program[f] = {} \/ program[f] = {IF f \in Resource[kind].ids THEN FirstId ELSE FirstName}
    BY <1>2 DEF Programs, Args
  <2>2. Bare({}) /\ Bare({FirstName})
    BY StackAssumption DEF Bare, BareResourceID
  <2> QED  BY <2>1, <2>2 DEF Bares
<1> QED  BY <1>3, <1>4, <1>5 DEF Firmly

(* An argument that differs from the state differs from what was applied last. *)
LEMMA ReplacedDiffers ==
    ASSUME Shape, Firmly, stack.id # None,
           replaceDiff(kind, stack.state, checkResourceArgs(program)) # {}
    PROVE  Differs
<1> DEFINE news == checkResourceArgs(program)
           rules == Resource[kind].diff.replace
<1>1. Types /\ Bares(news) /\ Bares(applied) /\ replaceDiff(kind, stack.state, applied) = {}
  BY BaresChecked DEF Shape, Firmly
<1>2. PICK f \in DOMAIN rules : Changed(rules[f], stack.state[f], news[f])
  BY NoReplace
<1>3. /\ rules[f] \in Comparisons /\ f \in Args /\ ~Changed(rules[f], stack.state[f], applied[f])
      /\ rules[f] \in {"given", "always"} => f # "tags" /\ (f \in Resource[kind].ids => kind = "Volume")
  BY <1>1, <1>2, NoReplace, FirmIs, KindIs DEF Firm
<1>4. Changed(rules[f], applied[f], news[f])
  BY <1>2, <1>3, SameIs
<1> HIDE DEF news
<1>5. CASE BareResourceID(news[f]) # BareResourceID(applied[f])
  BY <1>2, <1>5 DEF Differs, news
<1>6. CASE BareResourceID(news[f]) = BareResourceID(applied[f])
  <2>1. rules[f] \in {"given", "always"} /\ applied[f] # news[f]
    BY <1>3, <1>4, <1>6 DEF Changed, Comparisons
  <2>2. f \in Resource[kind].ids
    BY <1>1, <1>3, <1>6, <2>1 DEF Bares, Bare
  <2> QED  BY <1>2, <1>3, <2>1, <2>2 DEF Differs, news
<1> QED  BY <1>5, <1>6

(* Diff asks for a replacement, which deletes first, only when the program  *)
(* changed an argument that replaces the resource since the last up that    *)
(* succeeded, whatever create, update and read filled into the state.       *)
THEOREM UnchangedAreKept == Spec => UnchangedIsKept
<1>1. ASSUME Shape, Steady, [Next]_vars, Replaces, faults \cap {"import", "defaults", "blank"} = {}
      PROVE  Differs
  <2>1. Firmly
    BY <1>1 DEF Steady, Undisturbed
  <2>2. ~Serve
    BY <1>1 DEF Replaces, Serve
  <2>3. Up
    BY <1>1, <2>2 DEF Replaces, Next, vars, UpRefused, Edit, Refresh, Destroy, Import, Vanish, Resized, Start
  <2>4. stack.id # None /\ replaceDiff(kind, stack.state, checkResourceArgs(program)) # {}
    BY <1>1, <2>3 DEF Replaces, Up, Start
  <2> QED  BY <1>1, <2>1, <2>4, ReplacedDiffers
<1>2. Shape /\ Steady /\ [Next]_vars =>
        (Replaces /\ faults \cap {"import", "defaults", "blank"} = {} => Differs)
  BY <1>1
<1> QED  BY <1>2, InitSteady, NextSteady, ShapeHolds, PTL DEF Spec, UnchangedIsKept

-----------------------------------------------------------------------------
(* What the stack knows of an object, and what an up that succeeded leaves   *)
(* to do.  The tables once more: what each kind sends and learns of the      *)
(* fields that Diff compares.                                                *)
UnsentOf(k) == CASE k = "Port"     -> {"deviceId"}
                 [] k = "Network"  -> {"name", "description"}
                 [] k = "Instance" -> {"deleteVolume"}
                 [] OTHER          -> {}

(* The arguments that Diff compares and the provider sends, with their *)
(* rules.                                                              *)
ComparedOf(k) ==
    (DOMAIN Resource[k].diff.replace \cup DOMAIN Resource[k].diff.update) \ UnsentOf(k)

(* Lists count here as the IDs that they hold; their order comes last. *)
Unordered(rule) == IF rule = "alwaysList" THEN "alwaysId" ELSE rule

RuleOf(k, f) == IF f \in DOMAIN Resource[k].diff.replace THEN Resource[k].diff.replace[f]
                ELSE Unordered(Resource[k].diff.update[f])

(* How each such argument is sent, learnt and compared: an ID by its last *)
(* part, a blank where it counts only if an update or a new object can    *)
(* carry it.                                                              *)
Told(k) ==
    LET r == Resource[k]
    IN /\ r.normal \cup r.renormal \subseteq r.ids /\ r.ids \subseteq r.args
       /\ r.ids \cap {"tags", "name", "description", "container", "gatewayIp"} = {}
       /\ \A f \in DOMAIN r.diff.update :
            /\ f \notin DOMAIN r.diff.replace
            /\ r.diff.update[f] = "alwaysList" =>
                 (k = "Instance" /\ f \in {"tags", "securityGroups"}) \/ (k = "Port" /\ f = "securityGroups")
       /\ k = "Instance" =>
            /\ r.read.take \cup r.created.take \cup r.created.fill \cup r.updated.take
                  \cup r.updated.fill \cup DOMAIN r.default = {}
            /\ r.read.fill = {"name", "keyName"}
            /\ ComparedOf(k) \ DOMAIN r.diff.replace
                  = {"name", "flavor", "tags", "securityGroups"}
            /\ RuleOf(k, "name") = "given" /\ RuleOf(k, "flavor") = "givenId"
            /\ RuleOf(k, "tags") = "alwaysId" /\ RuleOf(k, "securityGroups") = "alwaysId"
            /\ "image" \in r.calls.post /\ "tags" \notin r.calls.post
            /\ RuleOf(k, "image") = "givenId" /\ "image" \in r.required \cap ComparedOf(k)
            /\ {"flavor", "securityGroups"} \subseteq r.ids
       /\ k = "FloatingIp" => RuleOf(k, "portId") = "alwaysId" /\ "portId" \in ComparedOf(k)
       /\ \A f \in ComparedOf(k) :
            LET rule == RuleOf(k, f)
            IN /\ rule \in Comparisons
               /\ rule \in {"givenId", "alwaysId"} => f \in r.ids \cup {"tags"}
               /\ rule \in {"given", "always"} => f \notin r.normal \cup r.renormal \cup {"tags"}
               /\ f \in r.calls.post \cup Scope \/ (k = "Instance" /\ f = "tags")
               /\ f \in DOMAIN r.diff.update => k = "Instance" \/ f \in r.calls.put
               /\ f \in r.read.take \cup r.created.take \cup r.updated.take =>
                    /\ f \in r.calls.post /\ f \in r.calls.reply
                    /\ f \in r.ids => rule \in {"givenId", "alwaysId"}
               /\ f \in r.updated.take => f \in r.calls.put
               /\ f \in r.created.fill /\ rule \in {"always", "alwaysId"} => f \in r.calls.post
               /\ rule \in {"always", "alwaysId"} => f \notin DOMAIN r.default \cup Scope
               /\ k = "Network" => f # "name"

(* It is so for every kind of resource: a case per row of the table. *)
LEMMA Tolds == \A k \in DOMAIN Resource : Told(k)
<1> SUFFICES ASSUME NEW k \in DOMAIN Resource PROVE Told(k)
  OBVIOUS
<1>1. CASE k = "KeyPair"
  <2>1. Resource[k] = KeyPair
    BY <1>1 DEF Resource
  <2> QED  BY <1>1, <2>1, SMTT(60) DEF Told, UnsentOf, ComparedOf, RuleOf, Unordered, Scope, Comparisons, KeyPair,
     NoDefault, KeyPairCalls, CreateKeyPairRequest, KeyPairStruct, Fill, Take, Nothing
<1>2. CASE k = "Instance"
  <2>1. Resource[k] = Instance
    BY <1>2 DEF Resource
  <2> QED  BY <1>2, <2>1, SMTT(60) DEF Told, UnsentOf, ComparedOf, RuleOf, Unordered, Scope, Comparisons, Instance,
     NoDefault, InstanceCalls, CreateInstanceRequest, InstanceStruct, Nothing, InstanceRead, Fill, InstanceDiff
<1>3. CASE k = "Volume"
  <2>1. Resource[k] = Volume
    BY <1>3 DEF Resource
  <2> QED  BY <1>3, <2>1, SMTT(60) DEF Told, UnsentOf, ComparedOf, RuleOf, Unordered, Scope, Comparisons, Volume,
     NoDefault, VolumeCalls, CreateVolumeRequest, UpdateVolumeRequest, VolumeStruct, stateFromVolume, Fill,
     VolumeDiff
<1>4. CASE k = "VolumeAttachment"
  <2>1. Resource[k] = VolumeAttachment
    BY <1>4 DEF Resource
  <2> QED  BY <1>4, <2>1, SMTT(60) DEF Told, UnsentOf, ComparedOf, RuleOf, Unordered, Scope, Comparisons,
     VolumeAttachment, NoDefault, AttachmentCalls, AttachVolumeRequest, Nothing, Take
<1>5. CASE k = "VolumeSnapshot"
  <2>1. Resource[k] = VolumeSnapshot
    BY <1>5 DEF Resource
  <2> QED  BY <1>5, <2>1, SMTT(60) DEF Told, UnsentOf, ComparedOf, RuleOf, Unordered, Scope, Comparisons,
     VolumeSnapshot, NoDefault, SnapshotCalls, CreateSnapshotRequest, SnapshotStruct, stateFromSnapshot, Fill,
     Nothing
<1>6. CASE k = "VolumeBackup"
  <2>1. Resource[k] = VolumeBackup
    BY <1>6 DEF Resource
  <2> QED  BY <1>6, <2>1, SMTT(60) DEF Told, UnsentOf, ComparedOf, RuleOf, Unordered, Scope, Comparisons,
     VolumeBackup, NoDefault, BackupCalls, CreateBackupRequest, BackupStruct, stateFromBackup, Fill, Nothing
<1>7. CASE k = "Network"
  <2>1. Resource[k] = Network
    BY <1>7 DEF Resource
  <2> QED  BY <1>7, <2>1, SMTT(60) DEF Told, UnsentOf, ComparedOf, RuleOf, Unordered, Scope, Comparisons, Network,
     NoDefault, NetworkCalls, CreateNetworkRequest, NetworkUpdate, NetworkStruct, enrichNetworkState,
     NetworkDiff
<1>8. CASE k = "Subnet"
  <2>1. Resource[k] = Subnet
    BY <1>8 DEF Resource
  <2> QED  BY <1>8, <2>1, SMTT(60) DEF Told, UnsentOf, ComparedOf, RuleOf, Unordered, Scope, Comparisons, Subnet,
     SubnetCalls, SubnetCreate, SubnetUpdate, SubnetStruct, Fill, Take, Nothing
<1>9. CASE k = "Port"
  <2>1. Resource[k] = Port
    BY <1>9 DEF Resource
  <2> QED  BY <1>9, <2>1, SMTT(60) DEF Told, UnsentOf, ComparedOf, RuleOf, Unordered, Scope, Comparisons, Port,
     NoDefault, PortCalls, PortCreate, PortUpdate, PortStruct, Nothing, Take, PortDiff
<1>10. CASE k = "Router"
  <2>1. Resource[k] = Router
    BY <1>10 DEF Resource
  <2> QED  BY <1>10, <2>1, SMTT(60) DEF Told, UnsentOf, ComparedOf, RuleOf, Unordered, Scope, Comparisons, Router,
     NoDefault, RouterCalls, RouterWrite, RouterStruct, Nothing, Take
<1>11. CASE k = "SecurityGroup"
  <2>1. Resource[k] = SecurityGroup
    BY <1>11 DEF Resource
  <2> QED  BY <1>11, <2>1, SMTT(60) DEF Told, UnsentOf, ComparedOf, RuleOf, Unordered, Scope, Comparisons,
     SecurityGroup, NoDefault, SecurityGroupCalls, SecurityGroupWrite, SecurityGroupStruct, Nothing, Take
<1>12. CASE k = "SecurityGroupRule"
  <2>1. Resource[k] = SecurityGroupRule
    BY <1>12 DEF Resource
  <2> QED  BY <1>12, <2>1, SMTT(60) DEF Told, UnsentOf, ComparedOf, RuleOf, Unordered, Scope, Comparisons,
     SecurityGroupRule, SecurityGroupRuleCreate, SecurityGroupRuleCalls, SecurityGroupRuleStruct, Nothing,
     Take, NoDefault
<1>13. CASE k = "FloatingIp"
  <2>1. Resource[k] = FloatingIp
    BY <1>13 DEF Resource
  <2> QED  BY <1>13, <2>1, SMTT(60) DEF Told, UnsentOf, ComparedOf, RuleOf, Unordered, Scope, Comparisons, FloatingIp,
     FloatingIPCreate, NoDefault, FloatingIPCalls, FloatingIPUpdate, FloatingIPStruct, Take
<1> QED  BY <1>1, <1>2, <1>3, <1>4, <1>5, <1>6, <1>7, <1>8, <1>9, <1>10, <1>11, <1>12, <1>13 DEF Resource
AlwaysRules == {"always", "alwaysId"}

(* What Told says of the kind at hand, in the names that Stack uses. *)
LEMMA RulesAre ==
    ASSUME Types
    PROVE  /\ kind \in Kinded /\ Row(kind) /\ Firm(kind) /\ Told(kind)
           /\ ComparedOf(kind) \subseteq ArgsOf(kind)
           /\ Tracked = ComparedOf(kind) \ {"projectId"}
           /\ DOMAIN Rules \ Unsent = ComparedOf(kind)
           /\ \A f \in ComparedOf(kind) : Unordered(Rules[f]) = RuleOf(kind, f)
           /\ \A f \in Cleared \cap ComparedOf(kind) :
                /\ RuleOf(kind, f) \in AlwaysRules
                /\ \/ f \in DOMAIN Resource[kind].diff.replace
                   \/ kind = "FloatingIp" /\ f = "portId"
                   \/ kind = "Instance" /\ f \in {"securityGroups", "tags"}
<1> DEFINE R == Resource[kind].diff.replace
           U == Resource[kind].diff.update
<1>1. kind \in Kinded /\ Row(kind) /\ Firm(kind) /\ Told(kind)
  BY FirmIs, Tolds DEF Kinded
<1>2. DOMAIN R \subseteq ArgsOf(kind) /\ DOMAIN U \subseteq ArgsOf(kind)
  BY <1>1 DEF Row, ArgsOf
<1>3. Unsent = UnsentOf(kind)
  BY DEF Unsent, UnsentOf
<1>4. Rules = [f \in DOMAIN R \cup DOMAIN U |-> IF f \in DOMAIN R THEN R[f] ELSE U[f]]
  BY DEF Rules
<1> HIDE DEF R, U
<1>5. /\ DOMAIN Rules = DOMAIN R \cup DOMAIN U
      /\ \A f \in DOMAIN Rules : Rules[f] = IF f \in DOMAIN R THEN R[f] ELSE U[f]
  BY <1>4
<1>6. /\ DOMAIN Rules \ Unsent = ComparedOf(kind)
      /\ \A f \in ComparedOf(kind) : Unordered(Rules[f]) = RuleOf(kind, f)
  <2>1. Firm(kind)
    BY <1>1
  <2>2. \A f \in DOMAIN R : R[f] # "alwaysList"
    BY <2>1 DEF Firm, Comparisons, R
  <2> QED  BY <1>3, <1>5, <2>2 DEF ComparedOf, RuleOf, Unordered, R, U
<1>7. Tracked = ComparedOf(kind) \ {"projectId"}
  BY <1>6 DEF Tracked
<1>8. ComparedOf(kind) \subseteq ArgsOf(kind)
  BY <1>2 DEF ComparedOf, R, U
<1>9. ASSUME NEW f \in Cleared \cap ComparedOf(kind)
      PROVE  /\ RuleOf(kind, f) \in AlwaysRules
             /\ \/ f \in DOMAIN R
                \/ kind = "FloatingIp" /\ f = "portId"
                \/ kind = "Instance" /\ f \in {"securityGroups", "tags"}
  <2>1. CASE f \in DOMAIN R /\ Rules[f] \in {"always", "alwaysId"}
    BY <1>6, <2>1 DEF AlwaysRules, Unordered
  <2>2. CASE f \notin DOMAIN R \/ Rules[f] \notin {"always", "alwaysId"}
    <3>1. \/ kind = "FloatingIp" /\ f = "portId"
          \/ kind = "Instance" /\ f \in {"securityGroups", "tags"}
      BY <1>9, <2>2 DEF Cleared, R
    <3> QED  BY <1>1, <3>1 DEF Told, AlwaysRules
  <2> QED  BY <2>1, <2>2
<1> QED  BY <1>1, <1>6, <1>7, <1>8, <1>9 DEF R

-----------------------------------------------------------------------------
(* One field of an object, of the state and of the program. *)

(* The values that are IDs may be written with their scope. *)
Alike(k, f, a, b) ==
    IF f \in Resource[k].ids \cup {"tags"} THEN BareResourceID(a) = BareResourceID(b) ELSE a = b

(* Lists that are equal hold the same IDs. *)
LEMMA EqualBare ==
    ASSUME NEW a, NEW b, stringSlicesEqual(a, b)
    PROVE  BareResourceID(a) = BareResourceID(b)
BY DEF stringSlicesEqual, BareResourceID

(* A list is equal to itself. *)
LEMMA EqualSelf == ASSUME NEW a PROVE stringSlicesEqual(a, a)
<1> DEFINE pair == [n \in a |-> n]
<1>1. pair \in [a -> a] /\ {pair[n] : n \in a} = a /\ \A n \in a : pair[n] = n
  OBVIOUS
<1> HIDE DEF pair
<1> QED  BY <1>1 DEF stringSlicesEqual

(* A list whose order survives is equal to the list of its IDs. *)
LEMMA EqualUniform ==
    ASSUME NEW a \in SUBSET Names, Uniform(a)
    PROVE  stringSlicesEqual(BareResourceID(a), a)
<1> DEFINE b == BareResourceID(a)
           pair == [x \in b |-> CHOOSE n \in a : BareOf[n] = x]
<1>1. /\ Position \in [Names -> Nat] /\ BareOf \in [Names -> Names]
      /\ \A n, m \in Names : Position[n] = Position[m] => n = m
      /\ \A n \in Names : BareOf[BareOf[n]] = BareOf[n]
  BY NamesAssumption
<1>2. \A x \in b : pair[x] \in a /\ BareOf[pair[x]] = x /\ x \in Names
  <2>1. \A x \in b : \E n \in a : BareOf[n] = x
    BY DEF BareResourceID
  <2> QED  BY <1>1, <2>1
<1>3. pair \in [b -> a]
  BY <1>2
<1>4. \A n \in a : BareOf[n] \in b
  BY DEF BareResourceID
<1> HIDE DEF b, pair
<1>5. ASSUME NEW n \in a, NEW m \in a, BareOf[n] = BareOf[m] PROVE n = m
  <2>1. Position[n] \in Nat /\ Position[m] \in Nat /\ Position[BareOf[n]] \in Nat
    BY <1>1
  <2>2. ~(Position[n] < Position[m]) /\ ~(Position[m] < Position[n])
    BY <1>5, <2>1 DEF Uniform
  <2> QED  BY <1>1, <2>1, <2>2
<1>6. {pair[x] : x \in b} = a
  <2>1. \A n \in a : pair[BareOf[n]] = n
    BY <1>2, <1>4, <1>5
  <2> QED  BY <1>2, <1>4, <2>1
<1>7. ASSUME NEW x \in b, NEW y \in b, Position[x] < Position[y]
      PROVE  Position[pair[x]] < Position[pair[y]]
  <2>1. /\ Position[x] \in Nat /\ Position[y] \in Nat
        /\ Position[pair[x]] \in Nat /\ Position[pair[y]] \in Nat
    BY <1>1, <1>2
  <2>2. pair[x] # pair[y]
    BY <1>2, <1>7, <2>1
  <2>3. Position[pair[x]] # Position[pair[y]]
    BY <1>1, <1>2, <2>2
  <2>4. ~(Position[pair[y]] < Position[pair[x]])
    BY <1>2, <1>7, <2>1 DEF Uniform
  <2> QED  BY <2>1, <2>3, <2>4
<1>8. \A x \in b : BareOf[pair[x]] = BareOf[x]
  BY <1>1, <1>2
<1> QED  BY <1>3, <1>6, <1>7, <1>8 DEF stringSlicesEqual, b

(* What is not changed is alike, and what is alike is not changed. *)
LEMMA SameAlike ==
    ASSUME NEW k, Told(k), NEW f \in ComparedOf(k), NEW old, NEW new,
           ~Changed(RuleOf(k, f), old, new)
    PROVE  /\ new # {} => old # {} /\ Alike(k, f, old, new)
           /\ RuleOf(k, f) \in AlwaysRules => Alike(k, f, old, new)
           /\ RuleOf(k, f) \in AlwaysRules /\ new = {} => old = {}
<1> DEFINE rule == RuleOf(k, f)
<1>1. rule \in Comparisons /\ (rule \in {"givenId", "alwaysId"} => f \in Resource[k].ids \cup {"tags"})
  BY DEF Told
<1>2. /\ BareResourceID(old) = {} <=> old = {}
      /\ BareResourceID(new) = {} <=> new = {}
  BY BareOfBlank
<1> HIDE DEF rule
<1>3. ~Changed(rule, old, new)
  BY DEF rule
<1>4. /\ new # {} => old # {} /\ Alike(k, f, old, new)
      /\ rule \in AlwaysRules => Alike(k, f, old, new)
      /\ rule \in AlwaysRules /\ new = {} => old = {}
  BY <1>1, <1>2, <1>3 DEF Changed, Comparisons, Alike, AlwaysRules
<1> QED  BY <1>4 DEF rule

(* Two alike values do not differ for Diff. *)
LEMMA AlikeSame ==
    ASSUME NEW k, Told(k), NEW f \in ComparedOf(k), NEW a, NEW b, Alike(k, f, a, b),
           f \in Resource[k].ids => RuleOf(k, f) \in {"givenId", "alwaysId"}
    PROVE  ~Changed(RuleOf(k, f), a, b)
<1> DEFINE rule == RuleOf(k, f)
<1>1. /\ rule \in Comparisons
      /\ rule \in {"givenId", "alwaysId"} => f \in Resource[k].ids \cup {"tags"}
      /\ rule \in {"given", "always"} => f # "tags"
  BY DEF Told
<1>2. f \in Resource[k].ids => rule \in {"givenId", "alwaysId"}
  OBVIOUS
<1> HIDE DEF rule
<1>3. ~Changed(rule, a, b)
  BY <1>1, <1>2 DEF Changed, Comparisons, Alike
<1> QED  BY <1>3 DEF rule

(* Alike values are blank together. *)
LEMMA AlikeBlank == ASSUME NEW k, NEW f, NEW a, NEW b, Alike(k, f, a, b) PROVE a = {} <=> b = {}
BY BareOfBlank DEF Alike

(* An import learns only some arguments of a server, and not its image. *)
Whole(s) == "import" \notin faults \/ (kind = "Instance" /\ s["image"] # {})

(* A field of the object r is as the state s has it. *)
Mirrors(f, r, s) ==
    /\ s[f] # {} => Alike(kind, f, r[f], s[f])
    /\ s[f] = {} /\ f \in Cleared /\ Whole(s) => r[f] = {}

(* No answer is lost or empty, and Nobus fills no argument in. *)
Straight == faults \cap {"lost", "defaults", "blank"} = {}

(* What a POST carries and what its object then holds. *)
LEMMA PostedAlike ==
    ASSUME Types, Straight, NEW news \in FieldsOf(kind), NEW f \in ComparedOf(kind),
           f \in Resource[kind].calls.post \cup Scope
    PROVE  LET posted == Made(Post(kind, news)).fields[f]
           IN posted \in SUBSET Names /\ Alike(kind, f, posted, Kept(kind, news)[f])
<1> DEFINE body == Post(kind, news)
           kept == Kept(kind, news)
<1>1. /\ kind \in Kinded /\ kind \in Kinds /\ f \in ArgsOf(kind) /\ ~(kind = "Network" /\ f = "name")
      /\ Row(kind) /\ Told(kind)
  BY RulesAre DEF Told, Types
<1>2. body \in [Resource[kind].calls.post \cup Scope -> SUBSET Names]
  BY <1>1, PostIs
<1>3. f \in DOMAIN body /\ \A g \in DOMAIN body : body[g] \in SUBSET Names
  BY <1>2
<1>4. kept \in FieldsOf(kind) /\ (f \in Scope => kept[f] = news[f] /\ f \notin Resource[kind].ids \cup {"tags"})
  <2>1. kept \in FieldsOf(kind) /\ SameScope(kept, news)
    BY <1>1, KeptIs, ScopeKept, KindIs
  <2>2. f \in Scope => f \notin Resource[kind].ids /\ f # "tags"
    BY <1>1 DEF Row, Scope
  <2> QED  BY <2>1, <2>2 DEF SameScope
<1>5. body[f] = IF f \in Resource[kind].ids THEN BareResourceID(kept[f]) ELSE kept[f]
  <2>1. CASE f \in Resource[kind].calls.post
    <3>1. \A g \in Resource[kind].calls.post :
             body[g] = IF g \in Resource[kind].ids THEN BareResourceID(kept[g]) ELSE kept[g]
      BY <1>1, PostIs
    <3> HIDE DEF body, kept
    <3> QED  BY <2>1, <3>1
  <2>2. CASE f \in Scope
    <3>1. body[f] = news[f]
      BY <1>1, <2>2, PostIs
    <3> QED  BY <1>4, <2>2, <3>1
  <2> QED  BY <2>1, <2>2
<1> HIDE DEF body, kept
<1>6. Made(body).fields[f] = Filled(body, f) /\ Made(body) \in ObjectOfKind(kind)
  BY <1>1, <1>3, MadeIs
<1>7. Made(body).fields[f] = body[f]
  BY <1>3, <1>6 DEF Filled, Straight
<1>8. kept[f] \in SUBSET Names
  BY <1>1, <1>4 DEF FieldsOf
<1> QED  BY <1>3, <1>5, <1>7, <1>8, BareOfBare DEF Alike, body, kept

(* What a create keeps of an argument does not differ from the program's. *)
LEMMA KeptAlike ==
    ASSUME Types, NEW news \in FieldsOf(kind), NEW f \in ComparedOf(kind)
    PROVE  LET kept == Kept(kind, news)[f]
               rule == RuleOf(kind, f)
           IN /\ kept \in SUBSET Names
              /\ news[f] # {} \/ rule \in AlwaysRules => Alike(kind, f, kept, news[f])
              /\ ~Changed(rule, kept, news[f])
              /\ kept = {} => news[f] = {}
<1> DEFINE r == Resource[kind]
           rule == RuleOf(kind, f)
           kept == Kept(kind, news)[f]
           given == IF f \in DOMAIN r.default THEN Or(news[f], r.default[f]) ELSE news[f]
<1>1. kind \in Kinded /\ Told(kind) /\ f \in ArgsOf(kind) /\ news[f] \in SUBSET Names
  BY RulesAre DEF FieldsOf
<1>2. /\ rule \in Comparisons
      /\ rule \in {"givenId", "alwaysId"} => f \in r.ids \cup {"tags"}
      /\ rule \in {"given", "always"} => f \notin r.normal \cup {"tags"}
      /\ rule \in AlwaysRules => f \notin DOMAIN r.default
      /\ r.normal \subseteq r.ids
  BY <1>1 DEF Told, AlwaysRules
<1>3. kept = (IF f \in r.normal THEN BareResourceID(given) ELSE given) /\ kept \in SUBSET Names
  BY <1>1, KeptIs DEF FieldsOf
<1>4. news[f] # {} \/ rule \in AlwaysRules => given = news[f]
  BY <1>2 DEF Or
<1>5. given = {} => news[f] = {}
  BY DEF Or
<1> HIDE DEF given, kept, rule
<1>6. given = news[f] => Alike(kind, f, kept, news[f])
  BY <1>1, <1>2, <1>3, BareOfBare DEF Alike
<1>7. ~Changed(rule, kept, news[f])
  <2>1. CASE given = news[f]
    <3>1. kept = news[f] \/ (rule \in {"givenId", "alwaysId"} /\ kept = BareResourceID(news[f]))
      BY <1>2, <1>3, <2>1 DEF Comparisons
    <3> QED  BY <1>1, <1>2, <3>1, SameIs, SameBare
  <2>2. CASE given # news[f]
    <3>1. news[f] = {} /\ rule \in {"given", "givenId"}
      BY <1>2, <1>4, <2>2 DEF Comparisons, AlwaysRules
    <3> QED  BY <1>2, <3>1, SameIs
  <2> QED  BY <2>1, <2>2
<1> QED  BY <1>3, <1>4, <1>5, <1>6, <1>7, BareOfBlank DEF rule, kept

(* Learn, field by field. *)
LEMMA LearnField ==
    ASSUME NEW k, NEW args \in FieldsOf(k), NEW reply \in FieldsOf(k), NEW rule,
           rule.take \cap rule.fill = {}, NEW f \in ArgsOf(k)
    PROVE  Learn(args, rule, reply)[f] =
             IF f \in rule.take THEN reply[f]
             ELSE IF f \in rule.fill THEN (IF args[f] # {} THEN args[f] ELSE reply[f]) ELSE args[f]
BY LearnIs DEF FieldsOf

(* A create leaves a state that is as the object, and does not differ from the program. *)
LEMMA CreatedField ==
    ASSUME Types, Straight, NEW news \in FieldsOf(kind), NEW r \in FieldsOf(kind), NEW f \in ComparedOf(kind),
           r[f] = IF kind = "Instance" /\ f = "tags" THEN news[f] ELSE Made(Post(kind, news)).fields[f],
           NEW reply \in FieldsOf(kind), reply[f] = IF f \in Calls.reply THEN r[f] ELSE {},
           NEW s, s = Learn(Kept(kind, news), Resource[kind].created, reply)
    PROVE  ~Changed(RuleOf(kind, f), s[f], news[f]) /\ Mirrors(f, r, s)
<1> DEFINE c == Resource[kind].created
           rule == RuleOf(kind, f)
           kept == Kept(kind, news)[f]
<1>1. kind \in Kinded /\ Row(kind) /\ Told(kind) /\ f \in ArgsOf(kind) /\ Kept(kind, news) \in FieldsOf(kind)
  BY RulesAre, KeptIs
<1>2. s[f] = IF f \in c.take THEN reply[f]
             ELSE IF f \in c.fill THEN (IF kept # {} THEN kept ELSE reply[f]) ELSE kept
  <2>1. c.take \cap c.fill = {}
    BY <1>1 DEF Row
  <2> HIDE DEF c
  <2> QED  BY <1>1, <2>1, LearnField DEF c
<1>3. /\ rule \in Comparisons
      /\ f \in Resource[kind].calls.post \cup Scope \/ (kind = "Instance" /\ f = "tags")
      /\ f \in c.take => /\ f \in Resource[kind].calls.post /\ f \in Calls.reply
                         /\ f \in Resource[kind].ids => rule \in {"givenId", "alwaysId"}
      /\ f \in c.fill /\ rule \in AlwaysRules => f \in Resource[kind].calls.post
      /\ kind = "Instance" => c.take = {} /\ c.fill = {}
  BY <1>1 DEF Told, Calls, AlwaysRules
<1>4. /\ kept \in SUBSET Names
      /\ news[f] # {} \/ rule \in AlwaysRules => Alike(kind, f, kept, news[f])
      /\ ~Changed(rule, kept, news[f])
      /\ kept = {} => news[f] = {}
  BY KeptAlike
<1>5. f \in Cleared => rule \in AlwaysRules
  BY RulesAre
<1>6. Alike(kind, f, r[f], kept)
  <2>1. CASE kind = "Instance" /\ f = "tags"
    <3>1. rule \in AlwaysRules
      BY <1>1, <2>1 DEF Told, AlwaysRules
    <3> QED  BY <1>4, <2>1, <3>1 DEF Alike
  <2>2. CASE ~(kind = "Instance" /\ f = "tags")
    BY <1>3, <2>2, PostedAlike
  <2> QED  BY <2>1, <2>2
<1> HIDE DEF kept, rule, c
<1>7. kept = {} <=> r[f] = {}
  BY <1>6, AlikeBlank
<1>8. s[f] = kept \/ s[f] = r[f]
  BY <1>2, <1>3, <1>7
<1>9. Mirrors(f, r, s)
  BY <1>6, <1>7, <1>8 DEF Mirrors, Alike
<1>10. ~Changed(rule, s[f], news[f])
  <2>1. CASE s[f] = kept
    BY <1>4, <2>1
  <2>2. CASE s[f] # kept
    <3>1. CASE rule \in {"given", "givenId"} /\ news[f] = {}
      BY <1>3, <3>1, SameIs
    <3>2. CASE rule \in AlwaysRules \/ news[f] # {}
      <4>1. f \in c.take /\ s[f] = r[f] /\ Alike(kind, f, kept, news[f])
        BY <1>2, <1>3, <1>4, <1>7, <2>2, <3>2 DEF AlwaysRules
      <4>2. Alike(kind, f, r[f], news[f])
        BY <1>6, <4>1 DEF Alike
      <4>3. f \in Resource[kind].ids => RuleOf(kind, f) \in {"givenId", "alwaysId"}
        BY <1>3, <4>1 DEF rule
      <4> QED  BY <1>1, <4>1, <4>2, <4>3, AlikeSame DEF rule
    <3> QED  BY <1>3, <3>1, <3>2 DEF Comparisons, AlwaysRules
  <2> QED  BY <2>1, <2>2
<1> QED  BY <1>9, <1>10 DEF rule

(* What an update keeps of an argument does not differ from the program's. *)
LEMMA RenewedAlike ==
    ASSUME Types, NEW news \in FieldsOf(kind), NEW f \in ComparedOf(kind)
    PROVE  LET new == Renewed(kind, news)[f]
           IN /\ Alike(kind, f, new, news[f])
              /\ ~Changed(RuleOf(kind, f), new, news[f])
<1> DEFINE r == Resource[kind]
           rule == RuleOf(kind, f)
           new == Renewed(kind, news)[f]
<1>1. kind \in Kinded /\ Told(kind) /\ f \in ArgsOf(kind) /\ news[f] \in SUBSET Names
  BY RulesAre DEF FieldsOf
<1>2. /\ rule \in Comparisons
      /\ rule \in {"given", "always"} => f \notin r.renormal
      /\ r.renormal \subseteq r.ids
  BY <1>1 DEF Told
<1>3. new = IF f \in r.renormal THEN BareResourceID(news[f]) ELSE news[f]
  BY <1>1, RenewedIs
<1> HIDE DEF rule, new
<1>4. Alike(kind, f, new, news[f])
  BY <1>1, <1>2, <1>3, BareOfBare DEF Alike
<1>5. ~Changed(rule, new, news[f])
  <2>1. new = news[f] \/ (rule \in {"givenId", "alwaysId"} /\ new = BareResourceID(news[f]))
    BY <1>2, <1>3 DEF Comparisons
  <2> QED  BY <1>1, <1>2, <2>1, SameIs, SameBare
<1> QED  BY <1>4, <1>5 DEF rule, new

(* A field of the state and of the object after a PUT. *)
LEMMA UpdatedField ==
    ASSUME Types, kind # "Instance", NEW olds \in FieldsOf(kind), NEW news \in FieldsOf(kind),
           replaceDiff(kind, olds, news) = {}, NEW f \in ComparedOf(kind),
           NEW r0 \in FieldsOf(kind), NEW r1 \in FieldsOf(kind), Mirrors(f, r0, olds),
           r1[f] = IF f \in DOMAIN Put(kind, olds, news) THEN Put(kind, olds, news)[f] ELSE r0[f],
           NEW s \in FieldsOf(kind),
           \/ s[f] = Renewed(kind, news)[f]
           \/ f \in Resource[kind].updated.take /\ s[f] = r1[f]
           \/ f \in Resource[kind].updated.fill /\ Renewed(kind, news)[f] = {} /\ s[f] = r1[f]
    PROVE  /\ Mirrors(f, r1, s)
           /\ f \in Cleared /\ news[f] = {} /\ Whole(olds) => r1[f] = {}
           /\ (RuleOf(kind, f) \in AlwaysRules /\ news[f] = {} => r1[f] = {})
                 => ~Changed(RuleOf(kind, f), s[f], news[f])
<1> DEFINE r == Resource[kind]
           rule == RuleOf(kind, f)
           body == Put(kind, olds, news)
           new == Renewed(kind, news)[f]
<1>1. /\ kind \in Kinded /\ Told(kind) /\ f \in ArgsOf(kind)
      /\ news[f] \in SUBSET Names /\ olds[f] \in SUBSET Names
  BY RulesAre DEF FieldsOf
<1>2. /\ rule \in Comparisons
      /\ f \in DOMAIN r.diff.update => f \in r.calls.put
      /\ f \in r.updated.take => f \in r.calls.put /\ (f \in r.ids => rule \in {"givenId", "alwaysId"})
      /\ kind = "FloatingIp" => RuleOf(kind, "portId") = "alwaysId"
      /\ f \in DOMAIN r.diff.replace \cup DOMAIN r.diff.update
      /\ rule \in {"givenId", "alwaysId"} => f \in r.ids \cup {"tags"}
  BY <1>1 DEF Told, ComparedOf
<1>3. /\ f \in DOMAIN body => body[f] = IF f \in r.ids THEN BareResourceID(news[f]) ELSE news[f]
      /\ f \in r.calls.put /\ (kind # "FloatingIp" \/ f # "portId") => (f \in DOMAIN body <=> news[f] # {})
      /\ kind = "FloatingIp" =>
           ("portId" \in DOMAIN body <=> BareResourceID(olds["portId"]) # BareResourceID(news["portId"]))
  <2>1. /\ \A g \in DOMAIN body : body[g] = IF g \in r.ids THEN BareResourceID(news[g]) ELSE news[g]
        /\ \A g \in r.calls.put : kind # "FloatingIp" \/ g # "portId" => (g \in DOMAIN body <=> news[g] # {})
        /\ kind = "FloatingIp" =>
             ("portId" \in DOMAIN body <=> BareResourceID(olds["portId"]) # BareResourceID(news["portId"]))
    BY <1>1, PutIs
  <2> HIDE DEF body
  <2> QED  BY <2>1
<1>4. Alike(kind, f, new, news[f]) /\ ~Changed(rule, new, news[f])
  BY RenewedAlike
<1>5. f \in DOMAIN r.diff.replace => ~Changed(rule, olds[f], news[f])
  BY NoReplace DEF RuleOf
<1>6. /\ f \in Cleared => /\ rule \in AlwaysRules
                          /\ f \in DOMAIN r.diff.replace \/ (kind = "FloatingIp" /\ f = "portId")
      /\ Whole(olds) => Whole(s)
      /\ Whole(s) => Whole(olds)
  BY RulesAre DEF Whole
<1>7. /\ olds[f] # {} => Alike(kind, f, r0[f], olds[f])
      /\ olds[f] = {} /\ f \in Cleared /\ Whole(olds) => r0[f] = {}
  BY DEF Mirrors
<1>8. f \in DOMAIN body => Alike(kind, f, r1[f], news[f])
  <2>1. f \in DOMAIN body => r1[f] = IF f \in r.ids THEN BareResourceID(news[f]) ELSE news[f]
    BY <1>3
  <2> HIDE DEF body
  <2> QED  BY <1>1, <2>1, BareOfBare DEF Alike
<1>9. (f \in DOMAIN r.diff.replace \/ (kind = "FloatingIp" /\ f = "portId")) /\ f \notin DOMAIN body =>
         /\ news[f] # {} => olds[f] # {} /\ Alike(kind, f, olds[f], news[f])
         /\ rule \in AlwaysRules /\ news[f] = {} => olds[f] = {}
  <2>1. CASE f \in DOMAIN r.diff.replace
    BY <1>1, <1>5, <2>1, SameAlike
  <2>2. CASE kind = "FloatingIp" /\ f = "portId" /\ f \notin DOMAIN body
    <3>1. BareResourceID(olds[f]) = BareResourceID(news[f]) /\ f \in r.ids \cup {"tags"}
      BY <1>2, <1>3, <2>2
    <3> QED  BY <3>1, BareOfBlank DEF Alike
  <2> QED  BY <2>1, <2>2
<1>10. r1[f] = r0[f] \/ f \in DOMAIN body
  OBVIOUS
<1>11. f \notin DOMAIN body =>
          \/ news[f] = {} /\ f \notin Cleared
          \/ f \in DOMAIN r.diff.replace \/ (kind = "FloatingIp" /\ f = "portId")
  BY <1>2, <1>3, <1>6
<1>13. Alike(kind, f, new, news[f]) => (new = {} <=> news[f] = {})
  BY AlikeBlank
<1>14. f \in DOMAIN body => (r1[f] = {} <=> news[f] = {})
  BY <1>8, AlikeBlank
<1> HIDE DEF rule, body, new, r
<1>12. news[f] # {} => Alike(kind, f, r1[f], news[f])
  BY <1>7, <1>8, <1>9, <1>10, <1>11 DEF Alike
<1>15. f \in Cleared /\ news[f] = {} /\ Whole(olds) => r1[f] = {}
  BY <1>6, <1>7, <1>9, <1>10, <1>11, <1>14
<1>16. Mirrors(f, r1, s)
  <2>1. CASE s[f] = r1[f]
    BY <2>1 DEF Mirrors, Alike
  <2>2. CASE s[f] = new
    BY <1>4, <1>6, <1>12, <1>13, <1>15, <2>2 DEF Mirrors, Alike
  <2> QED  BY <2>1, <2>2 DEF new
<1>17. ASSUME rule \in AlwaysRules /\ news[f] = {} => r1[f] = {}
       PROVE  ~Changed(rule, s[f], news[f])
  <2>1. CASE s[f] = new
    BY <1>4, <2>1
  <2>2. CASE s[f] = r1[f] /\ news[f] = {}
    BY <1>2, <1>17, <2>2, SameIs DEF AlwaysRules, Comparisons
  <2>3. CASE f \in r.updated.take /\ s[f] = r1[f] /\ news[f] # {}
    <3>1. f \in r.ids => RuleOf(kind, f) \in {"givenId", "alwaysId"}
      BY <1>2, <2>3 DEF rule
    <3> QED  BY <1>1, <1>12, <2>3, <3>1, AlikeSame DEF rule, r
  <2> QED  BY <1>4, <1>13, <2>1, <2>2, <2>3 DEF new, r
<1> QED  BY <1>15, <1>16, <1>17 DEF rule

(* A read leaves what was as the object has it so, and finds no difference *)
(* where there was none.                                                   *)
LEMMA ReadField ==
    ASSUME Types, NEW old \in FieldsOf(kind), NEW f \in ComparedOf(kind), NEW r \in FieldsOf(kind),
           NEW reply \in FieldsOf(kind), reply[f] = IF f \in Calls.reply THEN r[f] ELSE {},
           NEW s, s = Learn(old, Resource[kind].read, reply)
    PROVE  /\ Mirrors(f, r, old) => Mirrors(f, r, s)
           /\ \A v : (/\ ~Changed(RuleOf(kind, f), old[f], v)
                      /\ f \in Resource[kind].read.take => Mirrors(f, r, old)
                      /\ RuleOf(kind, f) \in AlwaysRules /\ v = {}
                          /\ f \in Resource[kind].read.take \cup Resource[kind].read.fill => r[f] = {})
                     => ~Changed(RuleOf(kind, f), s[f], v)
<1> DEFINE learnt == Resource[kind].read
           rule == RuleOf(kind, f)
<1>1. kind \in Kinded /\ Row(kind) /\ Told(kind) /\ f \in ArgsOf(kind)
  BY RulesAre
<1>2. \A g \in ArgsOf(kind) :
         s[g] = IF g \in learnt.take THEN reply[g]
                ELSE IF g \in learnt.fill THEN (IF old[g] # {} THEN old[g] ELSE reply[g]) ELSE old[g]
  <2>1. learnt.take \cap learnt.fill = {}
    BY <1>1 DEF Row
  <2> HIDE DEF learnt
  <2> QED  BY <2>1, LearnField DEF learnt
<1>3. /\ rule \in Comparisons
      /\ f \in learnt.take => f \in Calls.reply /\ (f \in Resource[kind].ids => rule \in {"givenId", "alwaysId"})
  BY <1>1 DEF Told, Calls
<1>4. Whole(s) = Whole(old)
  <2>1. CASE kind # "Instance"
    BY <2>1 DEF Whole
  <2>2. CASE kind = "Instance"
    <3>1. "image" \notin learnt.take /\ "image" \notin learnt.fill /\ "image" \in ArgsOf(kind)
      BY <1>1, <2>2 DEF Told, Row, ArgsOf
    <3> HIDE DEF learnt
    <3>2. s["image"] = old["image"]
      BY <1>2, <3>1
    <3> QED  BY <3>2 DEF Whole
  <2> QED  BY <2>1, <2>2
<1> HIDE DEF learnt, rule
<1>5. \/ s[f] = old[f]
      \/ s[f] = r[f] /\ (f \in learnt.take \/ (f \in learnt.fill /\ old[f] = {}))
  BY <1>1, <1>2, <1>3
<1>6. Mirrors(f, r, old) => Mirrors(f, r, s)
  BY <1>4, <1>5 DEF Mirrors, Alike
<1>7. ASSUME NEW v, ~Changed(rule, old[f], v), f \in learnt.take => Mirrors(f, r, old),
             rule \in AlwaysRules /\ v = {} /\ f \in learnt.take \cup learnt.fill => r[f] = {}
      PROVE  ~Changed(rule, s[f], v)
  <2>1. CASE s[f] = old[f]
    BY <1>7, <2>1
  <2>2. CASE s[f] = r[f] /\ f \in learnt.take \cup learnt.fill /\ v = {}
    BY <1>3, <1>7, <2>2, SameIs DEF AlwaysRules, Comparisons
  <2>3. CASE s[f] = r[f] /\ v # {}
    <3>1. old[f] # {} /\ Alike(kind, f, old[f], v)
      BY <1>1, <1>7, <2>3, SameAlike DEF rule
    <3>2. CASE f \notin learnt.take
      BY <1>5, <1>7, <3>1, <3>2
    <3>3. CASE f \in learnt.take
      <4>1. Alike(kind, f, r[f], v)
        BY <1>7, <3>1, <3>3 DEF Mirrors, Alike
      <4>2. f \in Resource[kind].ids => RuleOf(kind, f) \in {"givenId", "alwaysId"}
        BY <1>3, <3>3 DEF rule
      <4> QED  BY <1>1, <2>3, <4>1, <4>2, AlikeSame DEF rule
    <3> QED  BY <3>2, <3>3
  <2> QED  BY <1>5, <2>1, <2>2, <2>3
<1> QED  BY <1>6, <1>7 DEF rule, learnt

-----------------------------------------------------------------------------
(* What a call leaves in one field of its object. *)
LEMMA BodyField ==
    ASSUME Types, NEW c, Sent(c), c.name \in {"put", "rename", "tags", "resize"}, NEW f \in DOMAIN c.body
    PROVE  /\ c.body[f] = (IF f \in Resource[kind].ids THEN BareResourceID(op.news[f]) ELSE op.news[f])
           /\ f \in ArgsOf(kind) \ Scope
<1>1. /\ kind \in Kinded /\ Row(kind) /\ Told(kind) /\ op.do \in Dos
      /\ stack.state \in FieldsOf(kind) /\ op.news \in FieldsOf(kind)
  BY RulesAre DEF Types
<1>2. CASE kind = "Instance"
  <2>1. /\ {"name", "flavor", "tags"} \subseteq ArgsOf(kind)
        /\ "flavor" \in Resource[kind].ids /\ "name" \notin Resource[kind].ids /\ "tags" \notin Resource[kind].ids
    BY <1>1, <1>2 DEF Row, Told, ArgsOf
  <2>2. \/ c.body = [name |-> op.news.name] \/ c.body = [tags |-> op.news.tags]
        \/ c.body = [flavor |-> BareResourceID(op.news.flavor)]
    BY <1>1, <1>2 DEF Sent, Following, Updating, Dos
  <2> QED  BY <2>1, <2>2 DEF Scope
<1>3. CASE kind # "Instance"
  <2>1. c.body = Put(kind, stack.state, op.news)
    BY <1>1, <1>3 DEF Sent, Following, Updating, Dos
  <2>2. /\ DOMAIN Put(kind, stack.state, op.news) \subseteq ArgsOf(kind) \ Scope
        /\ \A g \in DOMAIN Put(kind, stack.state, op.news) :
             Put(kind, stack.state, op.news)[g]
               = IF g \in Resource[kind].ids THEN BareResourceID(op.news[g]) ELSE op.news[g]
    BY <1>1, PutIs
  <2> QED  BY <2>1, <2>2
<1> QED  BY <1>2, <1>3

(* What each call does to a field of its object. *)
LEMMA AfterField ==
    ASSUME Types, NEW c, Sent(c), Room(c), c.name = "post" \/ Found, NEW f \in ArgsOf(kind)
    PROVE  LET old == remote[ObjectOf(c)].fields
               now == After(c).fields[f]
           IN /\ c.name = "post" => now = Made(Post(kind, op.news)).fields[f]
              /\ c.name = "delete" => now = {}
              /\ c.name \in {"put", "rename", "tags", "resize"} =>
                    now = IF f \in DOMAIN c.body THEN c.body[f] ELSE old[f]
              /\ c.name = "remove" => now = IF f = "securityGroups" THEN old[f] \ c.body[f] ELSE old[f]
              /\ c.name = "attach" => now = IF f = "securityGroups" THEN old[f] \cup c.body[f] ELSE old[f]
              /\ c.name \in {"confirm", "resized", "verify", "wait", "get"} => now = old[f]
<1> DEFINE x == remote[ObjectOf(c)]
<1>1. ObjectOf(c) \in Objects /\ x \in ObjectOfKind(kind) /\ x.fields \in FieldsOf(kind)
  <2>1. ObjectOf(c) \in Objects
    BY EffectIs
  <2> QED  BY <2>1 DEF Types, ObjectOfKind
<1>2. /\ c \in CallsOf(kind) /\ c.name \in CallNames /\ op.do \in Dos /\ kind \in Kinded
      /\ Args = ArgsOf(kind)
  BY KindIs DEF Sent, CallsOf, Types
<1>3. c.name = "resize" => DOMAIN c.body = {"flavor"}
  BY <1>2 DEF Sent, Following, Updating, Dos
<1> HIDE DEF x
<1>4. CASE c.name = "post"
  BY <1>4 DEF After, Sent
<1>5. CASE c.name = "delete"
  BY <1>2, <1>5 DEF After, NoObject, NoArgs
<1>6. CASE c.name \in {"put", "rename", "tags"}
  <2>1. After(c) = [status |-> x.status, fields |-> Merge(x.fields, c.body)]
    BY <1>6 DEF After, x
  <2>2. Merge(x.fields, c.body)[f] = IF f \in DOMAIN c.body THEN c.body[f] ELSE x.fields[f]
    BY <1>1 DEF Merge, FieldsOf
  <2> QED  BY <1>6, <2>1, <2>2 DEF x
<1>7. CASE c.name = "resize"
  <2>1. After(c).fields = [x.fields EXCEPT !["flavor"] = c.body["flavor"]]
    BY <1>7 DEF After, x
  <2> QED  BY <1>1, <1>3, <1>7, <2>1 DEF x, FieldsOf
<1>8. CASE c.name \in {"remove", "attach"}
  <2>1. After(c).fields = [x.fields EXCEPT !["securityGroups"] =
           IF c.name = "remove" THEN x.fields["securityGroups"] \ c.body["securityGroups"]
                                ELSE x.fields["securityGroups"] \cup c.body["securityGroups"]]
    BY <1>8 DEF After, x
  <2> QED  BY <1>1, <1>8, <2>1 DEF x, FieldsOf
<1>9. CASE c.name \in {"confirm", "resized", "verify", "wait", "get"}
  BY <1>1, <1>9 DEF After, x
<1> QED  BY <1>2, <1>4, <1>5, <1>6, <1>7, <1>8, <1>9 DEF CallNames

(* An object keeps its fields in a step, or goes away, or the call that is *)
(* made is about it.                                                       *)
LEMMA FieldsStep ==
    ASSUME Shape, [Next]_vars, NEW o \in Objects
    PROVE  \/ remote'[o].fields = remote[o].fields
           \/ remote'[o] = NoObject
           \/ /\ Serve /\ remote'[o] = After(Head(op.calls)) /\ o = ObjectOf(Head(op.calls))
              /\ Sent(Head(op.calls)) /\ Room(Head(op.calls)) /\ (Head(op.calls).name = "post" \/ Found)
<1>1. Types
  BY DEF Shape
<1>2. CASE remote' = remote
  BY <1>2
<1>3. CASE Serve
  <2> DEFINE c == Head(op.calls)
  <2>1. PICK class : Sent(c) /\ Room(c) /\ Outcome(c, class)
    BY <1>3, ServeIs
  <2>2. CASE (c.name = "post" \/ Found) /\ remote' = Effect(c)
    <3>1. /\ ObjectOf(c) \in Objects /\ Effect(c)[ObjectOf(c)] = After(c)
          /\ \A p \in Objects \ {ObjectOf(c)} : Effect(c)[p] = remote[p]
      BY <1>1, <2>1, <2>2, EffectIs
    <3> QED  BY <1>3, <2>1, <2>2, <3>1
  <2> QED  BY <1>2, <2>1, <2>2 DEF Outcome
<1>4. CASE Vanish
  <2>1. PICK p \in Live : remote' = [remote EXCEPT ![p] = NoObject]
    BY <1>4 DEF Vanish
  <2> QED  BY <1>1, <2>1 DEF Types
<1>5. CASE Resized
  <2>1. PICK p \in Objects :
           /\ remote[p].status = "resizing"
           /\ remote' = [remote EXCEPT ![p] = [status |-> "verify", fields |-> remote[p].fields]]
    BY <1>1, <1>5, ResizedIs
  <2> QED  BY <1>1, <2>1 DEF Types
<1> QED  BY <1>2, <1>3, <1>4, <1>5 DEF Next, vars, Up, UpRefused, Edit, Refresh, Destroy, Import

-----------------------------------------------------------------------------
(* The calls that are left of an operation. *)
Left(calls) == {calls[i] : i \in 1..Len(calls)}

(* The calls that are left: of two lists joined, of the rest of a list, of *)
(* one call, of a call per security group.                                 *)
LEMMA JoinedIs ==
    ASSUME NEW S, NEW s \in Seq(S), NEW t \in Seq(S)
    PROVE  /\ Len(s) \in Nat /\ Len(t) \in Nat /\ Len(s \o t) = Len(s) + Len(t)
           /\ \A i \in 1..(Len(s) + Len(t)) : (s \o t)[i] = IF i <= Len(s) THEN s[i] ELSE t[i - Len(s)]
BY ConcatProperties

LEMMA LeftJoined ==
    ASSUME NEW S, NEW s \in Seq(S), NEW t \in Seq(S)
    PROVE  Left(s \o t) = Left(s) \cup Left(t)
<1> DEFINE w == s \o t
<1>1. /\ Len(s) \in Nat /\ Len(t) \in Nat /\ Len(w) = Len(s) + Len(t)
      /\ \A i \in 1..(Len(s) + Len(t)) : w[i] = IF i <= Len(s) THEN s[i] ELSE t[i - Len(s)]
  BY JoinedIs
<1> HIDE DEF w
<1>2. ASSUME NEW i \in 1..Len(s) PROVE s[i] \in Left(w)
  <2>1. i \in 1..Len(w) /\ w[i] = s[i]
    BY <1>1
  <2> QED  BY <2>1 DEF Left
<1>3. ASSUME NEW i \in 1..Len(t) PROVE t[i] \in Left(w)
  <2> DEFINE j == i + Len(s)
  <2>1. j \in 1..Len(w) /\ ~(j <= Len(s)) /\ j - Len(s) = i
    BY <1>1
  <2>2. w[j] = t[i]
    BY <1>1, <2>1
  <2> QED  BY <2>1, <2>2 DEF Left
<1>4. ASSUME NEW i \in 1..Len(w) PROVE w[i] \in Left(s) \cup Left(t)
  <2>1. CASE i <= Len(s)
    BY <1>1, <2>1 DEF Left
  <2>2. CASE ~(i <= Len(s))
    <3>1. i - Len(s) \in 1..Len(t) /\ w[i] = t[i - Len(s)]
      BY <1>1, <2>2
    <3> QED  BY <3>1 DEF Left
  <2> QED  BY <2>1, <2>2
<1>5. Left(s) \subseteq Left(w) /\ Left(t) \subseteq Left(w) /\ Left(w) \subseteq Left(s) \cup Left(t)
  BY <1>2, <1>3, <1>4 DEF Left
<1> QED  BY <1>5 DEF w

LEMMA LeftTail ==
    ASSUME NEW S, NEW s \in Seq(S), s # <<>>
    PROVE  /\ Left(s) = {Head(s)} \cup Left(Tail(s)) /\ Head(s) = s[1] /\ Tail(s) \in Seq(S)
           /\ Len(Tail(s)) \in Nat /\ Len(s) = Len(Tail(s)) + 1
           /\ \A i \in 1..Len(Tail(s)) : Tail(s)[i] = s[i + 1]
<1> DEFINE t == Tail(s)
<1>1. /\ t \in Seq(S) /\ Len(s) \in Nat /\ Len(s) >= 1 /\ Len(t) = Len(s) - 1
      /\ \A i \in 1..Len(t) : t[i] = s[i + 1]
  BY HeadTailProperties
<1>2. Head(s) = s[1]
  OBVIOUS
<1> HIDE DEF t
<1>3. ASSUME NEW i \in 1..Len(t) PROVE t[i] \in Left(s)
  <2>1. i + 1 \in 1..Len(s) /\ t[i] = s[i + 1]
    BY <1>1
  <2> QED  BY <2>1 DEF Left
<1>4. ASSUME NEW i \in 1..Len(s) PROVE s[i] = s[1] \/ s[i] \in Left(t)
  <2>1. CASE i # 1
    <3>1. i - 1 \in 1..Len(t) /\ t[i - 1] = s[(i - 1) + 1] /\ (i - 1) + 1 = i
      BY <1>1, <2>1
    <3> QED  BY <3>1 DEF Left
  <2> QED  BY <2>1
<1>5. s[1] \in Left(s)
  BY <1>1 DEF Left
<1>6. Left(t) \subseteq Left(s) /\ Left(s) \subseteq {s[1]} \cup Left(t)
  BY <1>3, <1>4 DEF Left
<1> QED  BY <1>1, <1>2, <1>5, <1>6 DEF t

LEMMA LeftOne ==
    ASSUME NEW c, NEW b
    PROVE  Left(One(b, c)) = IF b THEN {c} ELSE {}
<1>1. Left(<<c>>) = {c} /\ Left(<<>>) = {}
  BY DEF Left
<1> QED  BY <1>1 DEF One

EachOf(n, groups) == {Call(n, [securityGroups |-> {g}]) : g \in groups}

LEMMA LeftEach ==
    ASSUME NEW groups, IsFiniteSet(groups), NEW n
    PROVE  /\ Left(Each(n, groups)) = EachOf(n, groups)
           /\ \A i, j \in 1..Len(Each(n, groups)) : i # j =>
                Each(n, groups)[i].body["securityGroups"] \cap Each(n, groups)[j].body["securityGroups"] = {}
<1> DEFINE names == SetToSeq(groups)
           m == Cardinality(groups)
           call(g) == Call(n, [securityGroups |-> {g}])
           each == Each(n, groups)
<1>1. m \in Nat /\ ExistsBijection(1..m, groups)
  BY FS_CardinalityType
<1>2. \E f \in [1..m -> groups] : IsInjective(f)
  BY <1>1 DEF ExistsBijection, Bijection, Injection, IsInjective
<1>3. names \in [1..m -> groups] /\ IsInjective(names)
  BY <1>2 DEF SetToSeq
<1>4. names \in Injection(1..m, groups)
  BY <1>3 DEF Injection, IsInjective
<1>5. names \in Surjection(1..m, groups)
  <2>1. IsFiniteSet(1..m) /\ Cardinality(1..m) = m
    BY <1>1, FS_Interval
  <2> HIDE DEF names
  <2> QED  BY <1>4, <2>1, FS_Injection
<1>6. /\ \A g \in groups : \E i \in 1..m : names[i] = g
      /\ \A i, j \in 1..m : i # j => names[i] # names[j]
      /\ \A i \in 1..m : names[i] \in groups
  BY <1>3, <1>5 DEF Surjection, IsInjective
<1>7. Len(names) = m
  BY <1>1, ListIs
<1> HIDE DEF names, m
<1>8. each = [i \in 1..m |-> call(names[i])]
  BY <1>7 DEF Each, names
<1>9. Len(each) = m
  BY <1>1, <1>8
<1>10. \A i \in 1..m : each[i] = call(names[i])
  BY <1>8
<1>11. \A g : call(g).body["securityGroups"] = {g}
  BY DEF Call
<1> HIDE DEF each, call
<1>12. Left(each) = {call(g) : g \in groups}
  <2>1. Left(each) = {each[i] : i \in 1..m}
    BY <1>9 DEF Left
  <2>2. \A i \in 1..m : each[i] \in {call(g) : g \in groups}
    BY <1>6, <1>10
  <2>3. ASSUME NEW g \in groups PROVE call(g) \in {each[i] : i \in 1..m}
    <3>1. PICK i \in 1..m : names[i] = g
      BY <1>6
    <3>2. each[i] = call(g)
      BY <1>10, <3>1
    <3> QED  BY <3>2
  <2> QED  BY <2>1, <2>2, <2>3
<1>13. \A i, j \in 1..m : i # j => each[i].body["securityGroups"] \cap each[j].body["securityGroups"] = {}
  <2>1. \A i \in 1..m : each[i].body["securityGroups"] = {names[i]}
    BY <1>10, <1>11
  <2> QED  BY <1>6, <2>1
<1> QED  BY <1>9, <1>12, <1>13 DEF each, call, EachOf

(* No two of the calls remove the same group. *)
Apart(calls) ==
    \A i, j \in 1..Len(calls) :
       i # j /\ calls[i].name = "remove" /\ calls[j].name = "remove"
          => calls[i].body["securityGroups"] \cap calls[j].body["securityGroups"] = {}

(* A wait is the next call, or the confirmation before it is. *)
Waiting(calls) ==
    \A i \in 1..Len(calls) :
       calls[i].name = "wait" => i = 1 \/ (i = 2 /\ calls[1].name = "confirm")

(* No group is removed twice, and no wait comes before its confirm: where *)
(* there are no such calls, in lists joined, in the rest of a list.       *)
LEMMA ApartOther ==
    ASSUME NEW s, \A c \in Left(s) : c.name # "remove"
    PROVE  Apart(s)
BY DEF Apart, Left

LEMMA WaitingOther ==
    ASSUME NEW s, \A c \in Left(s) : c.name # "wait"
    PROVE  Waiting(s)
BY DEF Waiting, Left

LEMMA ApartJoined ==
    ASSUME NEW S, NEW s \in Seq(S), NEW t \in Seq(S), Apart(s), Apart(t),
           (\A c \in Left(s) : c.name # "remove") \/ (\A c \in Left(t) : c.name # "remove")
    PROVE  Apart(s \o t)
<1> DEFINE w == s \o t
           alike(i, j) == i # j /\ w[i].name = "remove" /\ w[j].name = "remove"
                            => w[i].body["securityGroups"] \cap w[j].body["securityGroups"] = {}
<1>1. /\ Len(s) \in Nat /\ Len(t) \in Nat /\ Len(w) = Len(s) + Len(t)
      /\ \A i \in 1..(Len(s) + Len(t)) : w[i] = IF i <= Len(s) THEN s[i] ELSE t[i - Len(s)]
  BY JoinedIs
<1> HIDE DEF w
<1>2. \A i \in 1..Len(w) : IF i <= Len(s) THEN i \in 1..Len(s) /\ w[i] = s[i] /\ w[i] \in Left(s)
                           ELSE i - Len(s) \in 1..Len(t) /\ w[i] = t[i - Len(s)] /\ w[i] \in Left(t)
  BY <1>1 DEF Left
<1>3. ASSUME NEW i \in 1..Len(w), NEW j \in 1..Len(w) PROVE alike(i, j)
  <2>1. CASE i <= Len(s) /\ j <= Len(s)
    <3>1. i \in 1..Len(s) /\ j \in 1..Len(s) /\ w[i] = s[i] /\ w[j] = s[j]
      BY <1>2, <2>1
    <3> QED  BY <3>1 DEF Apart
  <2>2. CASE ~(i <= Len(s)) /\ ~(j <= Len(s))
    <3>1. /\ i - Len(s) \in 1..Len(t) /\ j - Len(s) \in 1..Len(t)
          /\ w[i] = t[i - Len(s)] /\ w[j] = t[j - Len(s)]
      BY <1>2, <2>2
    <3>2. i # j => i - Len(s) # j - Len(s)
      BY <1>1
    <3> QED  BY <3>1, <3>2 DEF Apart
  <2>3. CASE (i <= Len(s)) # (j <= Len(s))
    BY <1>2, <2>3
  <2> QED  BY <2>1, <2>2, <2>3
<1>4. \A i, j \in 1..Len(w) : alike(i, j)
  BY <1>3
<1> QED  BY <1>4 DEF Apart, w

LEMMA ApartTail ==
    ASSUME NEW S, NEW s \in Seq(S), s # <<>>, Apart(s)
    PROVE  /\ Apart(Tail(s))
           /\ \A c \in Left(Tail(s)) : Head(s).name = "remove" /\ c.name = "remove"
                => Head(s).body["securityGroups"] \cap c.body["securityGroups"] = {}
<1> DEFINE t == Tail(s)
<1>1. /\ Head(s) = s[1] /\ Len(t) \in Nat /\ Len(s) = Len(t) + 1
      /\ \A i \in 1..Len(t) : t[i] = s[i + 1]
  BY LeftTail
<1> HIDE DEF t
<1>2. \A i \in 1..Len(t) : i + 1 \in 1..Len(s) /\ t[i] = s[i + 1] /\ i + 1 # 1
  BY <1>1
<1>3. 1 \in 1..Len(s)
  BY <1>1
<1>4. ASSUME NEW i \in 1..Len(t), NEW j \in 1..Len(t), i # j, t[i].name = "remove", t[j].name = "remove"
      PROVE  t[i].body["securityGroups"] \cap t[j].body["securityGroups"] = {}
  <2>1. i + 1 # j + 1
    BY <1>4
  <2> QED  BY <1>2, <1>4, <2>1 DEF Apart
<1>5. ASSUME NEW i \in 1..Len(t), s[1].name = "remove", t[i].name = "remove"
      PROVE  s[1].body["securityGroups"] \cap t[i].body["securityGroups"] = {}
  BY <1>2, <1>3, <1>5 DEF Apart
<1> QED  BY <1>1, <1>4, <1>5 DEF Apart, Left, t

LEMMA WaitingTail ==
    ASSUME NEW S, NEW s \in Seq(S), s # <<>>, Waiting(s)
    PROVE  /\ Waiting(Tail(s))
           /\ Head(s).name # "confirm" => \A c \in Left(Tail(s)) : c.name # "wait"
<1> DEFINE t == Tail(s)
<1>1. /\ Head(s) = s[1] /\ Len(t) \in Nat /\ Len(s) = Len(t) + 1
      /\ \A i \in 1..Len(t) : t[i] = s[i + 1]
  BY LeftTail
<1> HIDE DEF t
<1>2. ASSUME NEW i \in 1..Len(t), t[i].name = "wait"
      PROVE  i = 1 /\ s[1].name = "confirm"
  <2>1. i + 1 \in 1..Len(s) /\ s[i + 1].name = "wait" /\ i + 1 # 1
    BY <1>1, <1>2
  <2>2. i + 1 = 2 /\ s[1].name = "confirm"
    BY <2>1 DEF Waiting
  <2> QED  BY <1>1, <2>2
<1> QED  BY <1>1, <1>2 DEF Waiting, Left, t

LEMMA WaitingJoined ==
    ASSUME NEW S, NEW s \in Seq(S), NEW t \in Seq(S), Len(s) = 2, s[1].name = "confirm",
           \A x \in Left(t) : x.name # "wait"
    PROVE  Waiting(s \o t)
<1> DEFINE w == s \o t
<1>1. /\ Len(t) \in Nat /\ Len(w) = Len(s) + Len(t)
      /\ \A i \in 1..(Len(s) + Len(t)) : w[i] = IF i <= Len(s) THEN s[i] ELSE t[i - Len(s)]
  BY JoinedIs
<1> HIDE DEF w
<1>2. w[1] = s[1]
  BY <1>1
<1>3. ASSUME NEW i \in 1..Len(w), i # 1, i # 2 PROVE w[i].name # "wait"
  <2>1. i - 2 \in 1..Len(t) /\ w[i] = t[i - 2]
    BY <1>1, <1>3
  <2> QED  BY <2>1 DEF Left
<1> QED  BY <1>2, <1>3 DEF Waiting, w

(* The eight parts of an update of a server, joined. *)
LEMMA Appended ==
    ASSUME NEW S, NEW s \in Seq(S), NEW t \in Seq(S), Apart(s), Apart(t),
           (\A c \in Left(s) : c.name # "remove") \/ (\A c \in Left(t) : c.name # "remove")
    PROVE  s \o t \in Seq(S) /\ Left(s \o t) = Left(s) \cup Left(t) /\ Apart(s \o t)
<1>1. s \o t \in Seq(S)
  BY Joined
<1>2. Left(s \o t) = Left(s) \cup Left(t)
  BY LeftJoined
<1>3. Apart(s \o t)
  BY ApartJoined
<1> QED  BY <1>1, <1>2, <1>3

LEMMA AllAppended ==
    ASSUME NEW S, NEW a \in Seq(S), NEW b \in Seq(S), NEW c \in Seq(S), NEW d \in Seq(S),
           NEW e \in Seq(S), NEW f \in Seq(S), NEW g \in Seq(S), NEW h \in Seq(S), Apart(e),
           \A x \in Left(a) \cup Left(b) \cup Left(c) \cup Left(d) \cup Left(f) \cup Left(g) \cup Left(h) :
              x.name # "remove"
    PROVE  LET w == a \o b \o c \o d \o e \o f \o g \o h
           IN /\ Left(w) = Left(a) \cup Left(b) \cup Left(c) \cup Left(d) \cup Left(e) \cup Left(f)
                             \cup Left(g) \cup Left(h)
              /\ Apart(w)
<1> DEFINE p == a \o b
           q == p \o c
           r == q \o d
           s == r \o e
           t == s \o f
           u == t \o g
           v == u \o h
<1>1. Apart(a) /\ Apart(b) /\ Apart(c) /\ Apart(d) /\ Apart(f) /\ Apart(g) /\ Apart(h)
  BY ApartOther
<1>2. p \in Seq(S) /\ Left(p) = Left(a) \cup Left(b) /\ Apart(p)
  BY <1>1, Appended
<1> HIDE DEF p
<1>3. q \in Seq(S) /\ Left(q) = Left(p) \cup Left(c) /\ Apart(q)
  BY <1>1, <1>2, Appended
<1> HIDE DEF q
<1>4. r \in Seq(S) /\ Left(r) = Left(q) \cup Left(d) /\ Apart(r)
  BY <1>1, <1>3, Appended
<1> HIDE DEF r
<1>5. s \in Seq(S) /\ Left(s) = Left(r) \cup Left(e) /\ Apart(s)
  <2>1. \A x \in Left(r) : x.name # "remove"
    BY <1>2, <1>3, <1>4
  <2> QED  BY <1>4, <2>1, Appended
<1> HIDE DEF s
<1>6. t \in Seq(S) /\ Left(t) = Left(s) \cup Left(f) /\ Apart(t)
  BY <1>1, <1>5, Appended
<1> HIDE DEF t
<1>7. u \in Seq(S) /\ Left(u) = Left(t) \cup Left(g) /\ Apart(u)
  BY <1>1, <1>6, Appended
<1> HIDE DEF u
<1>8. v \in Seq(S) /\ Left(v) = Left(u) \cup Left(h) /\ Apart(v)
  BY <1>1, <1>7, Appended
<1> HIDE DEF v
<1>9. Left(v) = Left(a) \cup Left(b) \cup Left(c) \cup Left(d) \cup Left(e) \cup Left(f)
                  \cup Left(g) \cup Left(h)
  BY <1>2, <1>3, <1>4, <1>5, <1>6, <1>7, <1>8
<1> QED  BY <1>8, <1>9 DEF p, q, r, s, t, u, v

(* One call per group: no group is in two of them. *)
LEMMA EachApart ==
    ASSUME NEW groups, IsFiniteSet(groups), NEW n
    PROVE  Apart(Each(n, groups))
BY LeftEach DEF Apart

(* The calls of an update of a server. *)
LEMMA InstanceLeft ==
    ASSUME Types, kind = "Instance", NEW olds \in FieldsOf(kind), NEW news \in FieldsOf(kind)
    PROVE  LET w == InstanceUpdate(olds, news)
               groups == sliceDiff(olds.securityGroups, news.securityGroups)
               renamed == Changed("given", olds.name, news.name)
               resized == Changed("givenId", olds.flavor, news.flavor)
               tagged  == Changed("alwaysList", olds.tags, news.tags)
           IN /\ Left(w) = (IF renamed THEN {Call("rename", [name |-> news.name])} ELSE {})
                     \cup (IF resized THEN {Call("resize", [flavor |-> BareResourceID(news.flavor)]),
                                            Plain("resized"), Plain("verify")} ELSE {})
                     \cup EachOf("remove", groups.remove)
                     \cup EachOf("attach", groups.add)
                     \cup (IF tagged THEN {Call("tags", [tags |-> news.tags])} ELSE {})
                     \cup {Plain("get")}
              /\ Apart(w) /\ Waiting(w)
<1> DEFINE groups == sliceDiff(olds.securityGroups, news.securityGroups)
           renamed == Changed("given", olds.name, news.name)
           resized == Changed("givenId", olds.flavor, news.flavor)
           tagged  == Changed("alwaysList", olds.tags, news.tags)
           U == Updating(kind, olds, news)
           ca == Call("rename", [name |-> news.name])
           cb == Call("resize", [flavor |-> BareResourceID(news.flavor)])
           cc == Plain("resized")
           cd == Plain("verify")
           cg == Call("tags", [tags |-> news.tags])
           ch == Plain("get")
           removes == EachOf("remove", groups.remove)
           attaches == EachOf("attach", groups.add)
           a == One(renamed, ca)
           b == One(resized, cb)
           c == One(resized, cc)
           d == One(resized, cd)
           e == Each("remove", groups.remove)
           f == Each("attach", groups.add)
           g == One(tagged, cg)
           h == <<ch>>
           w == InstanceUpdate(olds, news)
<1>1. /\ a \in Seq(U) /\ b \in Seq(U) /\ c \in Seq(U) /\ d \in Seq(U)
      /\ e \in Seq(U) /\ f \in Seq(U) /\ g \in Seq(U) /\ h \in Seq(U)
  BY PartsIn
<1>2. w = a \o b \o c \o d \o e \o f \o g \o h
  BY DEF InstanceUpdate
<1>3. IsFiniteSet(groups.remove) /\ IsFiniteSet(groups.add)
  <2>1. "securityGroups" \in ArgsOf(kind)
    BY KindIs DEF Row, ArgsOf
  <2>2. olds.securityGroups \in SUBSET Names /\ news.securityGroups \in SUBSET Names
    BY <2>1 DEF FieldsOf
  <2>3. groups.remove \in SUBSET Names /\ groups.add \in SUBSET Names
    BY <2>2, BareNames DEF sliceDiff
  <2> QED  BY <2>3, FS_Subset, NamesAssumption
<1>4. /\ ca.name = "rename" /\ cb.name = "resize" /\ cc.name = "resized" /\ cd.name = "verify"
      /\ cg.name = "tags" /\ ch.name = "get"
      /\ \A x \in removes : x.name = "remove"
      /\ \A x \in attaches : x.name = "attach"
  BY DEF Call, Plain, EachOf
<1>5. /\ Left(a) = IF renamed THEN {ca} ELSE {}
      /\ Left(b) = IF resized THEN {cb} ELSE {}
      /\ Left(c) = IF resized THEN {cc} ELSE {}
      /\ Left(d) = IF resized THEN {cd} ELSE {}
      /\ Left(g) = IF tagged THEN {cg} ELSE {}
  <2> HIDE DEF renamed, resized, tagged, ca, cb, cc, cd, cg
  <2> QED  BY LeftOne
<1>6. Left(e) = removes /\ Left(f) = attaches /\ Apart(e)
  <2> HIDE DEF groups
  <2>1. Left(e) = removes
    BY <1>3, LeftEach
  <2>2. Left(f) = attaches
    BY <1>3, LeftEach
  <2>3. Apart(e)
    BY <1>3, EachApart
  <2> QED  BY <2>1, <2>2, <2>3
<1>7. Left(h) = {ch}
  BY DEF Left
<1> HIDE DEF U, a, b, c, d, e, f, g, h, ca, cb, cc, cd, cg, ch, removes, attaches, renamed, resized, tagged, w
<1>8. \A x \in Left(a) \cup Left(b) \cup Left(c) \cup Left(d) \cup Left(f) \cup Left(g) \cup Left(h) :
         x.name # "remove"
  BY <1>4, <1>5, <1>6, <1>7
<1> DEFINE v == a \o b \o c \o d \o e \o f \o g \o h
<1>9. /\ Left(v) = Left(a) \cup Left(b) \cup Left(c) \cup Left(d) \cup Left(e) \cup Left(f)
                     \cup Left(g) \cup Left(h)
      /\ Apart(v)
  BY <1>1, <1>6, <1>8, AllAppended
<1>10. w = v
  BY <1>2
<1> HIDE DEF v
<1>11. \A x \in Left(w) : x.name # "wait"
  BY <1>4, <1>5, <1>6, <1>7, <1>9, <1>10
<1>12. Apart(w) /\ Waiting(w)
  BY <1>9, <1>10, <1>11, WaitingOther
<1>13. Left(w) = (IF renamed THEN {ca} ELSE {}) \cup (IF resized THEN {cb, cc, cd} ELSE {})
                   \cup removes \cup attaches \cup (IF tagged THEN {cg} ELSE {}) \cup {ch}
  BY <1>5, <1>6, <1>7, <1>9, <1>10
<1> QED  BY <1>12, <1>13 DEF w, ca, cb, cc, cd, cg, ch, removes, attaches, renamed, resized, tagged

(* A server that is updated gets no group that the program does not name, loses *)
(* none that it names and none twice, and is waited for after a confirmation.   *)
Grouped ==
    op.do = "update" /\ kind = "Instance" =>
       LET wanted == BareResourceID(op.news["securityGroups"])
       IN /\ \A c \in Left(op.calls) :
               /\ c.name = "attach" => c.body["securityGroups"] \subseteq wanted
               /\ c.name = "remove" => c.body["securityGroups"] \cap wanted = {}
          /\ Apart(op.calls) /\ Waiting(op.calls)

(* What is left after a call of the update of a server. *)
LEMMA RestLeft ==
    ASSUME Shape, op.do = "update", kind = "Instance", Grouped, NEW c, c = Head(op.calls)
    PROVE  /\ Left(Tail(op.calls)) \subseteq Left(Rest(c)) /\ Left(op.calls) = {c} \cup Left(Tail(op.calls))
           /\ Left(Rest(c)) \subseteq Left(Tail(op.calls)) \cup {Plain("confirm"), Plain("wait")}
           /\ c.name # "verify" => Rest(c) = Tail(op.calls)
           /\ Apart(Rest(c)) /\ Waiting(Rest(c))
           /\ \A d \in Left(Rest(c)) : d.name = "wait" => c.name \in {"verify", "confirm"}
           /\ Rest(c) # <<>> /\ Head(Rest(c)).name = "wait" => c.name = "confirm"
<1> DEFINE S == CallsOf(kind)
           t == Tail(op.calls)
           more == <<Plain("confirm"), Plain("wait")>>
<1>1. op.calls \in Seq(S) /\ op.calls # <<>> /\ Types
  BY DEF Shape, Types, Resting
<1>2. t \in Seq(S) /\ Left(op.calls) = {c} \cup Left(t) /\ Apart(t) /\ Waiting(t)
      /\ (c.name # "confirm" => \A d \in Left(t) : d.name # "wait")
  BY <1>1, LeftTail, ApartTail, WaitingTail DEF Grouped
<1>3. Plain("confirm") \in S /\ Plain("wait") \in S /\ Plain("confirm").name = "confirm"
      /\ Plain("wait").name = "wait"
  BY PlainIn DEF CallNames
<1> HIDE DEF S, t
<1>4. /\ more \in Seq(S) /\ Len(more) = 2 /\ more[1] = Plain("confirm") /\ more # <<>>
      /\ Left(more) = {Plain("confirm"), Plain("wait")} /\ Head(more) = Plain("confirm")
  <2>1. \A x, y \in S : /\ <<x, y>> \in Seq(S) /\ Len(<<x, y>>) = 2 /\ <<x, y>>[1] = x /\ <<x, y>>[2] = y
                        /\ <<x, y>> # <<>> /\ Head(<<x, y>>) = x
    OBVIOUS
  <2>2. \A x, y : Left(<<x, y>>) = {x, y}
    <3>1. \A x, y : Len(<<x, y>>) = 2 /\ <<x, y>>[1] = x /\ <<x, y>>[2] = y
      OBVIOUS
    <3>2. 1..2 = {1, 2}
      OBVIOUS
    <3> QED  BY <3>1, <3>2 DEF Left
  <2> QED  BY <1>3, <2>1, <2>2
<1>5. <<>> \o t = t
  BY <1>2
<1>6. Rest(c) = t \/ (c.name = "verify" /\ Rest(c) = more \o t)
  BY <1>5 DEF Rest, Verify, t
<1> HIDE DEF more
<1>7. CASE Rest(c) = t
  <2>1. Rest(c) # <<>> => Head(Rest(c)) \in Left(t)
    BY <1>2, <1>7, LeftTail
  <2> QED  BY <1>2, <1>7, <2>1 DEF t
<1>8. CASE c.name = "verify" /\ Rest(c) = more \o t
  <2>0. \A x \in Left(more) : x.name # "remove"
    BY <1>3, <1>4
  <2>1. Left(more \o t) = Left(more) \cup Left(t) /\ Apart(more \o t)
    <3>1. Apart(more)
      BY <2>0, ApartOther
    <3>2. more \in Seq(S) /\ t \in Seq(S) /\ Apart(t)
      BY <1>2, <1>4
    <3> QED  BY <2>0, <3>1, <3>2, Appended
  <2>2. Left(Rest(c)) = {Plain("confirm"), Plain("wait")} \cup Left(t) /\ Apart(Rest(c))
    BY <1>4, <1>8, <2>1
  <2>3. Waiting(Rest(c))
    <3>1. \A x \in Left(t) : x.name # "wait"
      BY <1>2, <1>8
    <3>2. more \in Seq(S) /\ t \in Seq(S) /\ Len(more) = 2 /\ more[1].name = "confirm"
      BY <1>2, <1>3, <1>4
    <3>3. Waiting(more \o t)
      BY <3>1, <3>2, WaitingJoined
    <3> QED  BY <1>8, <3>3
  <2>4. Head(Rest(c)).name = "confirm"
    BY <1>2, <1>3, <1>4, <1>8, HeadJoined
  <2> QED  BY <1>2, <1>8, <2>1, <2>2, <2>3, <2>4 DEF t
<1> QED  BY <1>6, <1>7, <1>8

(* No step changes the kind of resource or the faults. *)
LEMMA KindKept ==
    ASSUME Shape, [Next]_vars
    PROVE  UNCHANGED <<kind, faults>>
BY ServeIs, ReactIs DEF Next, vars, Up, UpRefused, Edit, Refresh, Destroy, Import, Vanish, Resized

(* An update of a server starts with calls that are Grouped. *)
LEMMA StartGrouped ==
    ASSUME Types, kind = "Instance", NEW olds \in FieldsOf(kind), NEW news \in FieldsOf(kind)
    PROVE  LET w == InstanceUpdate(olds, news)
           IN \A c \in Left(w) :
                /\ c.name = "attach" => c.body["securityGroups"] \subseteq BareResourceID(news["securityGroups"])
                /\ c.name = "remove" => c.body["securityGroups"] \cap BareResourceID(news["securityGroups"]) = {}
                /\ c.name # "wait"
<1> DEFINE w == InstanceUpdate(olds, news)
           groups == sliceDiff(olds.securityGroups, news.securityGroups)
           wanted == BareResourceID(news["securityGroups"])
           fits(c) == /\ c.name = "attach" => c.body["securityGroups"] \subseteq wanted
                      /\ c.name = "remove" => c.body["securityGroups"] \cap wanted = {}
                      /\ c.name # "wait"
<1>1. \A c \in Left(w) : \/ c.name \in {"rename", "resize", "resized", "verify", "tags", "get"}
                         \/ c \in EachOf("remove", groups.remove)
                         \/ c \in EachOf("attach", groups.add)
  <2> DEFINE ca == Call("rename", [name |-> news.name])
             cb == Call("resize", [flavor |-> BareResourceID(news.flavor)])
             cc == Plain("resized")
             cd == Plain("verify")
             cg == Call("tags", [tags |-> news.tags])
             ch == Plain("get")
             removes == EachOf("remove", groups.remove)
             attaches == EachOf("attach", groups.add)
  <2>1. /\ ca.name = "rename" /\ cb.name = "resize" /\ cc.name = "resized" /\ cd.name = "verify"
        /\ cg.name = "tags" /\ ch.name = "get"
    BY DEF Call, Plain
  <2>2. \E renamed, resized, tagged \in BOOLEAN :
           Left(w) = (IF renamed THEN {ca} ELSE {}) \cup (IF resized THEN {cb, cc, cd} ELSE {})
                     \cup removes \cup attaches \cup (IF tagged THEN {cg} ELSE {}) \cup {ch}
    <3>1. /\ Changed("given", olds.name, news.name) \in BOOLEAN
          /\ Changed("givenId", olds.flavor, news.flavor) \in BOOLEAN
          /\ Changed("alwaysList", olds.tags, news.tags) \in BOOLEAN
      BY DEF Changed
    <3> QED  BY <3>1, InstanceLeft
  <2> HIDE DEF ca, cb, cc, cd, cg, ch, removes, attaches, w
  <2>3. \A c \in Left(w) : c \in {ca, cb, cc, cd, cg, ch} \/ c \in removes \/ c \in attaches
    BY <2>2
  <2> QED  BY <2>1, <2>3 DEF removes, attaches
<1> HIDE DEF w
<1>2. groups.remove \cap wanted = {} /\ groups.add \subseteq wanted
  BY DEF sliceDiff
<1> HIDE DEF groups, wanted
<1>3. \A c \in EachOf("remove", groups.remove) : fits(c)
  BY <1>2 DEF EachOf, Call
<1>4. \A c \in EachOf("attach", groups.add) : fits(c)
  BY <1>2 DEF EachOf, Call
<1>5. \A c \in Left(w) : fits(c)
  BY <1>1, <1>3, <1>4
<1> QED  BY <1>5 DEF w, wanted

(* No step breaks Grouped: calls only leave the list, but for the confirm *)
(* and the wait of a resize.                                              *)
LEMMA NextGrouped == Shape /\ Grouped /\ [Next]_vars => Grouped'
<1> SUFFICES ASSUME Shape, Grouped, [Next]_vars, op'.do = "update", kind = "Instance"
             PROVE  LET wanted == BareResourceID(op'.news["securityGroups"])
                    IN /\ \A c \in Left(op'.calls) :
                            /\ c.name = "attach" => c.body["securityGroups"] \subseteq wanted
                            /\ c.name = "remove" => c.body["securityGroups"] \cap wanted = {}
                       /\ Apart(op'.calls) /\ Waiting(op'.calls)
  BY KindKept DEF Grouped, Left, Apart, Waiting
<1>1. Types
  BY DEF Shape
<1>2. CASE op.do = "update" /\ op'.calls = op.calls /\ op'.news = op.news
  BY <1>2 DEF Grouped
<1>3. CASE Serve
  <2> DEFINE c == Head(op.calls)
  <2>1. PICK class : React(c, class) /\ Sent(c)
    BY <1>3, ServeIs
  <2>2. CASE op' = [op EXCEPT !.attempt = @ + 1]
    <3>1. op'.do = op.do /\ op'.calls = op.calls /\ op'.news = op.news
      BY <1>1, <2>2 DEF Types
    <3> QED  BY <1>2, <3>1
  <2>3. CASE Fail(class)
    BY <2>3 DEF Fail, Idle
  <2>4. CASE Advance(c, class)
    <3>1. CASE Commit(ObjectOf(c), class)
      BY <3>1 DEF Commit, Start, Idle
    <3>2. CASE op' = [op EXCEPT !.calls = Rest(c), !.attempt = 1,
                                !.made = IF op.do = "create" THEN ObjectOf(c) ELSE None]
      <4>1. op'.do = op.do /\ op'.calls = Rest(c) /\ op'.news = op.news
        BY <1>1, <3>2 DEF Types
      <4>2. /\ \A d \in Left(Rest(c)) : d \in Left(op.calls) \/ d.name \in {"confirm", "wait"}
            /\ Apart(Rest(c)) /\ Waiting(Rest(c))
        <5>1. Plain("confirm").name = "confirm" /\ Plain("wait").name = "wait"
          BY DEF Plain, Call
        <5> QED  BY <4>1, <5>1, RestLeft
      <4> HIDE DEF c
      <4> QED  BY <4>1, <4>2 DEF Grouped
    <3> QED  BY <2>4, <3>1, <3>2, AdvanceIs
  <2> QED  BY <2>1, <2>2, <2>3, <2>4, ReactIs
<1>4. CASE Up
  <2> DEFINE news == checkResourceArgs(program)
  <2>1. CASE op' = op
    BY <1>2, <2>1
  <2>2. CASE op' # op
    <3>1. op'.calls = Update(stack.state, news) /\ op'.news = news
      BY <1>4, <2>2 DEF Up, Start
    <3>2. news \in FieldsOf(kind) /\ stack.state \in FieldsOf(kind)
      BY <1>1, CheckedIs, KindIs DEF Types, Row, FieldsOf, ArgsOf
    <3> HIDE DEF news
    <3>3. Update(stack.state, news) = InstanceUpdate(stack.state, news)
      BY DEF Update
    <3> DEFINE w == InstanceUpdate(stack.state, news)
               wanted == BareResourceID(news["securityGroups"])
    <3>4. \A c \in Left(w) :
             /\ c.name = "attach" => c.body["securityGroups"] \subseteq wanted
             /\ c.name = "remove" => c.body["securityGroups"] \cap wanted = {}
      BY <1>1, <3>2, StartGrouped
    <3>5. Apart(w) /\ Waiting(w)
      BY <1>1, <3>2, InstanceLeft
    <3>6. op'.calls = w /\ op'.news = news
      BY <3>1, <3>3
    <3> HIDE DEF w
    <3> QED  BY <3>4, <3>5, <3>6 DEF wanted
  <2> QED  BY <2>1, <2>2
<1>5. CASE op' = op
  BY <1>2, <1>5
<1>6. CASE Refresh \/ Destroy \/ Import
  BY <1>6 DEF Refresh, Destroy, Import, Start
<1> QED  BY <1>3, <1>4, <1>5, <1>6 DEF Next, vars, UpRefused, Edit, Vanish, Resized

(* No call is left at the start. *)
LEMMA InitGrouped == Init => Grouped
BY DEF Init, Grouped, Idle

-----------------------------------------------------------------------------
(* The IDs that an object holds are bare. *)
BareIds == \A o \in Objects : \A f \in Resource[kind].ids : Bare(remote[o].fields[f])

(* A set of IDs is bare when each is its own last part. *)
LEMMA BareMeans ==
    /\ \A v \in SUBSET Names : Bare(v) <=> \A n \in v : BareOf[n] = n
    /\ Bare({})
    /\ \A v \in SUBSET Names : Bare(BareResourceID(v))
<1>1. ASSUME NEW v \in SUBSET Names, Bare(v), NEW n \in v PROVE BareOf[n] = n
  <2>1. n \in {BareOf[m] : m \in v}
    BY <1>1 DEF Bare, BareResourceID
  <2>2. PICK m \in v : n = BareOf[m]
    BY <2>1
  <2> QED  BY <2>2, NamesAssumption
<1>2. ASSUME NEW v \in SUBSET Names, \A n \in v : BareOf[n] = n PROVE Bare(v)
  BY <1>2 DEF Bare, BareResourceID
<1> QED  BY <1>1, <1>2, BareOfBare DEF Bare, BareResourceID

(* A POST sends its IDs bare. *)
LEMMA PostedBare ==
    ASSUME Types, NEW news \in FieldsOf(kind), NEW f \in Resource[kind].ids
    PROVE  Made(Post(kind, news)).fields[f] \in SUBSET Names /\ Bare(Made(Post(kind, news)).fields[f])
<1> DEFINE body == Post(kind, news)
           P == Resource[kind].calls.post
<1>1. /\ kind \in Kinded /\ kind \in Kinds /\ Told(kind) /\ Row(kind) /\ f \in ArgsOf(kind)
      /\ f \notin {"name", "description", "container", "gatewayIp"} \cup Scope
  <2>1. kind \in Kinded /\ kind \in Kinds /\ Told(kind) /\ Row(kind)
    BY RulesAre DEF Types
  <2> QED  BY <2>1 DEF Told, Row, ArgsOf
<1>2. body \in [P \cup Scope -> SUBSET Names]
      /\ (f \in P => body[f] = BareResourceID(Kept(kind, news)[f]))
  BY <1>1, PostIs
<1>3. f \in P => Kept(kind, news)[f] \in SUBSET Names
  BY <1>1, KeptIs DEF FieldsOf
<1> HIDE DEF body, P
<1>4. \A g \in DOMAIN body : body[g] \in SUBSET Names
  BY <1>2
<1>5. Made(body).fields[f] = Filled(body, f) /\ Made(body) \in ObjectOfKind(kind)
  BY <1>1, <1>4, MadeIs
<1>6. Made(body).fields[f] = IF f \in P THEN body[f] ELSE {}
  BY <1>1, <1>2, <1>5 DEF Filled
<1>7. Bare(Made(body).fields[f])
  BY <1>2, <1>3, <1>6, BareMeans
<1>8. Made(body).fields[f] \in SUBSET Names
  BY <1>2, <1>6
<1> QED  BY <1>7, <1>8 DEF body

(* No step breaks BareIds: what a call writes is bare. *)
LEMMA NextBareIds == Shape /\ Grouped /\ BareIds /\ [Next]_vars => BareIds'
<1> SUFFICES ASSUME Shape, Grouped, BareIds, [Next]_vars, NEW o \in Objects, NEW f \in Resource[kind].ids
             PROVE  Bare(remote'[o].fields[f])
  BY KindKept DEF BareIds
<1>1. Types /\ Told(kind) /\ f \in ArgsOf(kind) /\ op.news \in FieldsOf(kind) /\ Args = ArgsOf(kind)
  <2>1. Types /\ Told(kind) /\ op.news \in FieldsOf(kind) /\ Args = ArgsOf(kind)
    BY RulesAre, KindIs DEF Shape, Types
  <2> QED  BY <2>1 DEF Told, ArgsOf
<1>2. Bare(remote[o].fields[f]) /\ remote[o].fields \in FieldsOf(kind) /\ remote[o].fields[f] \in SUBSET Names
  BY <1>1 DEF BareIds, Types, ObjectOfKind, FieldsOf
<1>3. CASE remote'[o].fields = remote[o].fields
  BY <1>2, <1>3
<1>4. CASE remote'[o] = NoObject
  <2>1. remote'[o].fields[f] = {}
    BY <1>1, <1>4 DEF NoObject, NoArgs
  <2> QED  BY <2>1, BareMeans
<1>5. CASE /\ Serve /\ remote'[o] = After(Head(op.calls)) /\ o = ObjectOf(Head(op.calls))
           /\ Sent(Head(op.calls)) /\ Room(Head(op.calls)) /\ (Head(op.calls).name = "post" \/ Found)
  <2> DEFINE c == Head(op.calls)
             old == remote[ObjectOf(c)].fields
             now == After(c).fields[f]
  <2>1. /\ c.name = "post" => now = Made(Post(kind, op.news)).fields[f]
        /\ c.name = "delete" => now = {}
        /\ c.name \in {"put", "rename", "tags", "resize"} => now = IF f \in DOMAIN c.body THEN c.body[f] ELSE old[f]
        /\ c.name = "remove" => now = IF f = "securityGroups" THEN old[f] \ c.body[f] ELSE old[f]
        /\ c.name = "attach" => now = IF f = "securityGroups" THEN old[f] \cup c.body[f] ELSE old[f]
        /\ c.name \in {"confirm", "resized", "verify", "wait", "get"} => now = old[f]
    BY <1>1, <1>5, AfterField
  <2>2. c \in CallsOf(kind) /\ c.name \in CallNames /\ Sent(c) /\ Bare(old[f]) /\ old[f] \in SUBSET Names
    BY <1>2, <1>5 DEF Sent, CallsOf
  <2>3. c.name = "attach" => c.body["securityGroups"] \subseteq BareResourceID(op.news["securityGroups"])
    <3>1. c.name = "attach" => op.do = "update" /\ kind = "Instance"
      BY <1>1, <2>2 DEF Sent, Following, Updating, Types, Dos
    <3>2. c \in Left(op.calls)
      <4>1. op.calls \in Seq(CallsOf(kind)) /\ op.calls # <<>>
        BY <1>1, <1>5 DEF Shape, Resting, Types, Serve
      <4> QED  BY <4>1, LeftTail
    <3> HIDE DEF c
    <3> QED  BY <3>1, <3>2 DEF Grouped
  <2>4. /\ c.name = "post" => Bare(now)
        /\ c.name = "delete" => Bare(now)
    BY <1>1, <2>1, PostedBare, BareMeans
  <2>5. c.name \in {"put", "rename", "tags", "resize"} => Bare(now)
    <3>1. c.name \in {"put", "rename", "tags", "resize"} /\ f \in DOMAIN c.body =>
             c.body[f] = BareResourceID(op.news[f])
      BY <1>1, <2>2, BodyField
    <3>2. Bare(BareResourceID(op.news[f]))
      BY <1>1, BareMeans DEF FieldsOf
    <3> HIDE DEF now, c, old
    <3> QED  BY <2>1, <2>2, <3>1, <3>2
  <2>6. c.name = "remove" => Bare(now)
    <3> HIDE DEF c, old, now
    <3>1. \A w : Bare(old[f] \ w)
      <4>1. \A n \in old[f] : BareOf[n] = n
        BY <2>2, BareMeans
      <4> QED  BY <2>2, <4>1, BareMeans
    <3> QED  BY <2>1, <2>2, <3>1
  <2>7. c.name = "attach" => Bare(now)
    <3> HIDE DEF c, old, now
    <3>1. CASE c.name = "attach" /\ f = "securityGroups"
      <4> DEFINE v == c.body["securityGroups"]
                 wanted == BareResourceID(op.news["securityGroups"])
      <4>1. wanted \in SUBSET Names /\ Bare(wanted)
        BY <1>1, <3>1, BareMeans, BareNames DEF FieldsOf
      <4>2. \A n \in wanted : BareOf[n] = n
        BY <4>1, BareMeans
      <4>3. \A n \in old[f] : BareOf[n] = n
        BY <2>2, BareMeans
      <4>4. now = old[f] \cup v /\ v \subseteq wanted
        BY <2>1, <2>3, <3>1
      <4> HIDE DEF v, wanted
      <4>5. now \in SUBSET Names /\ \A n \in now : BareOf[n] = n
        BY <2>2, <4>1, <4>2, <4>3, <4>4
      <4> QED  BY <4>5, BareMeans
    <3>2. CASE ~(c.name = "attach" /\ f = "securityGroups")
      BY <2>1, <2>2, <3>2
    <3> QED  BY <3>1, <3>2
  <2>8. c.name \in {"confirm", "resized", "verify", "wait", "get"} => Bare(now)
    BY <2>1, <2>2
  <2>9. Bare(now)
    <3> HIDE DEF c, now
    <3> QED  BY <2>2, <2>4, <2>5, <2>6, <2>7, <2>8 DEF CallNames
  <2> QED  BY <1>5, <2>9
<1> QED  BY <1>3, <1>4, <1>5, FieldsStep

(* The object that may be there at the start is bare. *)
LEMMA InitBareIds == Init => BareIds
<1> SUFFICES ASSUME Init, NEW o \in Objects, NEW f \in Resource[kind].ids
             PROVE  Bare(remote[o].fields[f])
  BY DEF BareIds
<1> DEFINE args == checkResourceArgs(program)
<1>1. Types /\ kind \in Kinded /\ Row(kind) /\ Told(kind) /\ Args = ArgsOf(kind) /\ program \in FieldsOf(kind)
  BY InitShape, RulesAre, KindIs DEF Shape, Types
<1>2. f \in Args /\ f # "tags" /\ args \in FieldsOf(kind)
  <2>1. f \in Args /\ f # "tags" /\ Scope \subseteq ArgsOf(kind)
    BY <1>1 DEF Told, ArgsOf, Row
  <2> QED  BY <1>1, <2>1, CheckedIs DEF FieldsOf
<1>3. PICK first \in Objects :
         remote = [p \in Objects |-> IF "import" \in faults /\ p = first THEN Described(args) ELSE NoObject]
  BY DEF Init
<1> HIDE DEF args
<1>4. Bare(Described(args).fields[f])
  <2>1. Described(args).fields[f] = Made(Post(kind, args)).fields[f]
    BY <1>2 DEF Described
  <2> QED  BY <1>1, <1>2, <2>1, PostedBare
<1>5. Bare(NoObject.fields[f])
  BY <1>2, BareMeans DEF NoObject, NoArgs
<1>6. remote[o] = Described(args) \/ remote[o] = NoObject
  BY <1>3
<1> QED  BY <1>4, <1>5, <1>6

-----------------------------------------------------------------------------
(* As long as the program drops nothing and Nobus fills nothing in, no object *)
(* has what the program does not give, in the fields in which a blank counts. *)
Lasting == {f \in ComparedOf(kind) : RuleOf(kind, f) \in AlwaysRules}

NeverGiven ==
    faults \cap {"clear", "defaults"} = {} =>
       \A f \in Lasting : program[f] = {} => \A o \in Objects : remote[o].fields[f] = {}

(* A new object is blank where the program is, in such a field. *)
LEMMA PostedBlank ==
    ASSUME Types, "defaults" \notin faults, NEW news \in FieldsOf(kind), NEW f \in Lasting, news[f] = {}
    PROVE  Made(Post(kind, news)).fields[f] = {}
<1> DEFINE body == Post(kind, news)
           P == Resource[kind].calls.post
<1>1. /\ kind \in Kinded /\ kind \in Kinds /\ Told(kind) /\ f \in ArgsOf(kind)
      /\ ~(kind = "Network" /\ f = "name") /\ f \notin DOMAIN Resource[kind].default /\ f \notin Scope
  <2>1. kind \in Kinded /\ kind \in Kinds /\ Told(kind) /\ f \in ArgsOf(kind)
    BY RulesAre DEF Types, Lasting
  <2> QED  BY <2>1 DEF Told, Lasting, AlwaysRules
<1>2. /\ body \in [P \cup Scope -> SUBSET Names]
      /\ f \in P => body[f] = BareResourceID(Kept(kind, news)[f]) \/ body[f] = Kept(kind, news)[f]
  BY <1>1, PostIs
<1>3. Kept(kind, news)[f] = {}
  BY <1>1, KeptIs, BareOfBlank
<1> HIDE DEF body, P
<1>4. \A g \in DOMAIN body : body[g] \in SUBSET Names
  BY <1>2
<1>5. Made(body).fields[f] = Filled(body, f)
  BY <1>1, <1>4, MadeIs
<1>6. Made(body).fields[f] = IF f \in P THEN body[f] ELSE {}
  BY <1>1, <1>2, <1>5 DEF Filled
<1> QED  BY <1>2, <1>3, <1>6, BareOfBlank DEF body

(* Such a field is none of the scope, and checked as it is given. *)
LEMMA ChosenIs ==
    ASSUME Types, NEW f \in Lasting
    PROVE  /\ f \in ArgsOf(kind) \ Scope /\ checkResourceArgs(program)[f] = program[f]
           /\ checkResourceArgs(program) \in FieldsOf(kind)
<1>1. Told(kind) /\ f \in ArgsOf(kind) /\ program \in FieldsOf(kind) /\ Row(kind)
  BY RulesAre DEF Types, Lasting
<1>2. f \notin Scope /\ Scope \subseteq ArgsOf(kind)
  BY <1>1 DEF Told, Lasting, AlwaysRules, Row, ArgsOf
<1> QED  BY <1>1, <1>2, CheckedIs DEF FieldsOf

(* No step breaks NeverGiven: a call writes what the program gives, and a *)
(* program that is edited gives what it gave.                             *)
LEMMA NextNeverGiven == Shape /\ Grouped /\ NeverGiven /\ [Next]_vars => NeverGiven'
<1> SUFFICES ASSUME Shape, Grouped, NeverGiven, [Next]_vars, faults' \cap {"clear", "defaults"} = {},
                    NEW f \in Lasting', program'[f] = {}, NEW o \in Objects
             PROVE  remote'[o].fields[f] = {}
  BY DEF NeverGiven
<1>1. Types /\ f \in Lasting /\ kind' = kind /\ faults' = faults
  BY KindKept DEF Shape, Lasting
<1>2. f \in ArgsOf(kind) \ Scope /\ checkResourceArgs(program)[f] = program[f] /\ Args = ArgsOf(kind)
  BY <1>1, ChosenIs, KindIs
<1>3. program[f] = {}
  <2>1. CASE program' = program
    BY <2>1
  <2>2. CASE Edit
    <3>1. PICK g \in Args : \E v \in Values(g) \ {program[g]} :
             (v = {} => "clear" \in faults) /\ program' = [program EXCEPT ![g] = v]
      BY <2>2 DEF Edit
    <3>2. PICK v : (v = {} => "clear" \in faults) /\ program' = [program EXCEPT ![g] = v]
      BY <3>1
    <3>3. program'[f] = IF f = g THEN v ELSE program[f]
      BY <1>1, <1>2, <3>2 DEF Types, FieldsOf
    <3> QED  BY <1>1, <3>2, <3>3
  <2> QED  BY <2>1, <2>2, ServeIs, ReactIs
             DEF Next, vars, Up, UpRefused, Refresh, Destroy, Import, Vanish, Resized
<1>4. \A p \in Objects : remote[p].fields[f] = {}
  BY <1>1, <1>3 DEF NeverGiven
<1>5. CASE remote'[o].fields = remote[o].fields
  BY <1>4, <1>5
<1>6. CASE remote'[o] = NoObject
  BY <1>2, <1>6 DEF NoObject, NoArgs
<1>7. CASE /\ Serve /\ remote'[o] = After(Head(op.calls)) /\ o = ObjectOf(Head(op.calls))
           /\ Sent(Head(op.calls)) /\ Room(Head(op.calls)) /\ (Head(op.calls).name = "post" \/ Found)
  <2> DEFINE c == Head(op.calls)
             old == remote[ObjectOf(c)].fields
             now == After(c).fields[f]
  <2>1. /\ c.name = "post" => now = Made(Post(kind, op.news)).fields[f]
        /\ c.name = "delete" => now = {}
        /\ c.name \in {"put", "rename", "tags", "resize"} => now = IF f \in DOMAIN c.body THEN c.body[f] ELSE old[f]
        /\ c.name = "remove" => now = IF f = "securityGroups" THEN old[f] \ c.body[f] ELSE old[f]
        /\ c.name = "attach" => now = IF f = "securityGroups" THEN old[f] \cup c.body[f] ELSE old[f]
        /\ c.name \in {"confirm", "resized", "verify", "wait", "get"} => now = old[f]
    BY <1>1, <1>2, <1>7, AfterField
  <2>2. /\ c.name \in CallNames /\ Sent(c) /\ old[f] = {} /\ op.do \in Dos /\ op.news \in FieldsOf(kind)
        /\ c \in CallsOf(kind)
    BY <1>1, <1>4, <1>7 DEF Sent, CallsOf, Types
  <2>3. op.do \in {"create", "update"} => op.news[f] = {}
    BY <1>2, <1>3 DEF Shape, Checked
  <2>4. c.name \in {"post", "put", "rename", "tags", "resize", "attach"} => op.do \in {"create", "update"}
    BY <2>2 DEF Sent, Dos
  <2>5. c.name = "attach" => c.body["securityGroups"] \subseteq BareResourceID(op.news["securityGroups"])
    <3>1. c.name = "attach" => op.do = "update" /\ kind = "Instance"
      BY <2>2 DEF Sent, Following, Updating, Dos
    <3>2. c \in Left(op.calls)
      <4>1. op.calls \in Seq(CallsOf(kind)) /\ op.calls # <<>>
        BY <1>1, <1>7 DEF Shape, Resting, Types, Serve
      <4> QED  BY <4>1, LeftTail
    <3> HIDE DEF c
    <3> QED  BY <3>1, <3>2 DEF Grouped
  <2>6. c.name = "post" => now = {}
    BY <1>1, <2>1, <2>2, <2>3, <2>4, PostedBlank
  <2>7. c.name \in {"put", "rename", "tags", "resize"} => now = {}
    <3>1. c.name \in {"put", "rename", "tags", "resize"} /\ f \in DOMAIN c.body =>
             c.body[f] = (IF f \in Resource[kind].ids THEN BareResourceID(op.news[f]) ELSE op.news[f])
      BY <1>1, <2>2, BodyField
    <3> HIDE DEF now, c, old
    <3> QED  BY <2>1, <2>2, <2>3, <2>4, <3>1, BareOfBlank
  <2>8. c.name = "attach" => now = {}
    <3> HIDE DEF now, c, old
    <3>1. CASE c.name = "attach" /\ f = "securityGroups"
      <4>1. BareResourceID(op.news["securityGroups"]) = {}
        BY <2>3, <2>4, <3>1, BareOfBlank
      <4> QED  BY <2>1, <2>2, <2>5, <3>1, <4>1
    <3> QED  BY <2>1, <2>2, <3>1
  <2>9. now = {}
    <3> HIDE DEF now, c, old
    <3> QED  BY <2>1, <2>2, <2>6, <2>7, <2>8 DEF CallNames
  <2> QED  BY <1>7, <2>9
<1> QED  BY <1>5, <1>6, <1>7, FieldsStep

(* The object to be imported has what the program gives. *)
LEMMA InitNeverGiven == Init => NeverGiven
<1> SUFFICES ASSUME Init, "defaults" \notin faults, NEW f \in Lasting, program[f] = {}, NEW o \in Objects
             PROVE  remote[o].fields[f] = {}
  BY DEF NeverGiven
<1> DEFINE args == checkResourceArgs(program)
<1>1. Types
  BY InitShape DEF Shape
<1>2. f \in Args /\ args \in FieldsOf(kind) /\ args[f] = {}
  BY <1>1, ChosenIs, KindIs
<1>3. PICK first \in Objects :
         remote = [p \in Objects |-> IF "import" \in faults /\ p = first THEN Described(args) ELSE NoObject]
  BY DEF Init
<1> HIDE DEF args
<1>4. Described(args).fields[f] = {}
  <2>1. Described(args).fields[f] = IF f = "tags" THEN args[f] ELSE Made(Post(kind, args)).fields[f]
    BY <1>2 DEF Described
  <2> QED  BY <1>1, <1>2, <2>1, PostedBlank
<1>5. NoObject.fields[f] = {}
  BY <1>2 DEF NoObject, NoArgs
<1> QED  BY <1>3, <1>4, <1>5

(* An import begins with a state that is blank but for the location. *)
Importing == op.do = "import" => "import" \in faults /\ \A f \in Args \ Scope : stack.state[f] = {}

(* No step breaks Importing. *)
LEMMA NextImporting == Shape /\ Importing /\ [Next]_vars => Importing'
<1> SUFFICES ASSUME Shape, Importing, [Next]_vars, op'.do = "import"
             PROVE  "import" \in faults /\ \A f \in Args \ Scope : stack'.state[f] = {}
  BY KindKept DEF Importing, Args
<1>1. Types
  BY DEF Shape
<1>2. CASE op.do = "import" /\ stack' = stack
  BY <1>2 DEF Importing
<1>3. CASE Serve
  <2> DEFINE c == Head(op.calls)
  <2>1. PICK class : React(c, class) /\ Sent(c) /\ op.do # "idle"
    BY <1>3, ServeIs DEF Serve
  <2>2. CASE op' = [op EXCEPT !.attempt = @ + 1] /\ UNCHANGED <<stack, applied, upToDate>>
    BY <1>1, <1>2, <2>2 DEF Types
  <2>3. CASE Fail(class)
    BY <2>3 DEF Fail, Idle
  <2>4. CASE Advance(c, class)
    <3>1. CASE Commit(ObjectOf(c), class)
      BY <3>1 DEF Commit, Start, Idle
    <3>2. CASE Rest(c) # <<>> /\ op' = [op EXCEPT !.calls = Rest(c), !.attempt = 1,
                                           !.made = IF op.do = "create" THEN ObjectOf(c) ELSE None]
      <4>1. op.do \in {"create", "update"} /\ op'.do = op.do
        BY <1>1, <2>1, <3>2, RestIs DEF Types
      <4> QED  BY <4>1
    <3> QED  BY <2>4, <3>1, <3>2, AdvanceIs
  <2> QED  BY <2>1, <2>2, <2>3, <2>4, ReactIs
<1>4. CASE Import
  <2>1. PICK o \in Live, F \in SUBSET Scope :
           LET part  == [f \in Scope |-> IF f \in F THEN remote[o].fields[f] ELSE {}]
               scope == ResolveImport(part, NoArgs)
           IN stack' = [id |-> o, state |-> [f \in Args |-> IF f \in Scope THEN scope[f] ELSE {}]]
    BY <1>4 DEF Import
  <2> DEFINE part  == [f \in Scope |-> IF f \in F THEN remote[o].fields[f] ELSE {}]
             scope == ResolveImport(part, NoArgs)
  <2>2. stack' = [id |-> o, state |-> [f \in Args |-> IF f \in Scope THEN scope[f] ELSE {}]]
    BY <2>1
  <2> HIDE DEF scope
  <2> QED  BY <1>4, <2>2 DEF Import
<1>5. CASE Up
  <2>1. op' = op \/ op'.do # "import"
    BY <1>5 DEF Up, Start
  <2> QED  BY <1>5, <2>1 DEF Up
<1>6. CASE Refresh \/ Destroy
  BY <1>6 DEF Refresh, Destroy, Start
<1>7. CASE UNCHANGED <<op, stack>>
  BY <1>2, <1>7
<1> QED  BY <1>3, <1>4, <1>5, <1>6, <1>7 DEF Next, vars, UpRefused, Edit, Vanish, Resized

(* No import is under way at the start. *)
LEMMA InitImporting == Init => Importing
BY DEF Init, Importing, Idle

-----------------------------------------------------------------------------
(* The object that a create makes. *)

(* A server's tags are written after its POST, when it has any. *)
LEMMA CreateTags ==
    ASSUME Types, kind = "Instance", NEW news \in FieldsOf(kind), news["tags"] # {}
    PROVE  \E c \in Left(Create(news)) : c.name = "tags"
<1> DEFINE S == CallsOf(kind)
           p == Call("post", Post(kind, news))
           w == One("wait" \in Resource[kind].follow, Plain("wait"))
           x == Call("tags", [tags |-> news.tags])
           t == One("tags" \in Resource[kind].follow /\ news.tags # {}, x)
           g == One("get" \in Resource[kind].follow, Plain("get"))
<1>1. kind \in Kinded /\ Row(kind)
  BY KindIs
<1>2. p \in S
  BY <1>1, PostIs, CallIn DEF CallNames
<1>3. x \in S /\ x.name = "tags"
  <2>1. "tags" \in ArgsOf(kind)
    BY <1>1 DEF Row, ArgsOf
  <2>2. [tags |-> news.tags] \in [{"tags"} -> SUBSET Names] /\ {"tags"} \in SUBSET ArgsOf(kind)
    BY <2>1 DEF FieldsOf
  <2> QED  BY <2>2, CallIn DEF CallNames
<1>4. Plain("wait") \in S /\ Plain("get") \in S
  BY PlainIn DEF CallNames
<1>5. t = One(TRUE, x)
  BY <1>1 DEF Row
<1>6. Create(news) = <<p>> \o w \o t \o g
  BY DEF Create
<1> HIDE DEF S, p, x
<1>7. w \in Seq(S) /\ g \in Seq(S) /\ t \in Seq(S) /\ <<p>> \in Seq(S)
  <2>1. w \in Seq(S) /\ g \in Seq(S)
    BY <1>4, OneIn
  <2>2. t \in Seq(S)
    BY <1>3, <1>5, OneIn
  <2> QED  BY <1>2, <2>1, <2>2
<1>8. x \in Left(t)
  BY <1>5, LeftOne
<1> HIDE DEF w, t, g
<1> DEFINE a == <<p>> \o w
           b == a \o t
<1>9. a \in Seq(S)
  BY <1>7, Joined
<1> HIDE DEF a
<1>10. b \in Seq(S) /\ Left(b) = Left(a) \cup Left(t)
  BY <1>7, <1>9, Joined, LeftJoined
<1> HIDE DEF b
<1>11. Left(b \o g) = Left(b) \cup Left(g)
  BY <1>7, <1>10, LeftJoined
<1> QED  BY <1>3, <1>6, <1>8, <1>10, <1>11 DEF a, b

(* An object that is there after a step was there before, as it was, or the *)
(* call that is made is about it.                                           *)
LEMMA LiveStep ==
    ASSUME Shape, [Next]_vars, NEW o \in Live'
    PROVE  \/ /\ o \in Live /\ remote'[o].fields = remote[o].fields
              /\ remote[o].status = "ready" => remote'[o].status = "ready"
           \/ /\ Serve /\ remote'[o] = After(Head(op.calls)) /\ o = ObjectOf(Head(op.calls))
              /\ Sent(Head(op.calls)) /\ Room(Head(op.calls)) /\ (Head(op.calls).name = "post" \/ Found)
<1>1. Types /\ o \in Objects /\ remote'[o].status # "none"
  BY LiveIs DEF Shape
<1>2. CASE remote'[o] = remote[o]
  BY <1>1, <1>2, LiveIs
<1>3. CASE Serve
  <2> DEFINE c == Head(op.calls)
  <2>1. PICK class : Sent(c) /\ Room(c) /\ Outcome(c, class)
    BY <1>3, ServeIs
  <2>2. CASE (c.name = "post" \/ Found) /\ remote' = Effect(c)
    <3>1. /\ ObjectOf(c) \in Objects /\ Effect(c)[ObjectOf(c)] = After(c)
          /\ \A p \in Objects \ {ObjectOf(c)} : Effect(c)[p] = remote[p]
      BY <1>1, <2>1, <2>2, EffectIs
    <3>2. CASE o = ObjectOf(c)
      BY <1>3, <2>1, <2>2, <3>1, <3>2
    <3>3. CASE o # ObjectOf(c)
      BY <1>1, <1>2, <2>2, <3>1, <3>3
    <3> QED  BY <3>2, <3>3
  <2> QED  BY <1>2, <2>1, <2>2 DEF Outcome
<1>4. CASE Vanish
  <2>1. PICK p \in Live : remote' = [remote EXCEPT ![p] = NoObject]
    BY <1>4 DEF Vanish
  <2>2. remote'[o] = IF o = p THEN NoObject ELSE remote[o]
    BY <1>1, <2>1 DEF Types
  <2> QED  BY <1>1, <1>2, <2>2 DEF NoObject
<1>5. CASE Resized
  <2>1. PICK p \in Objects :
           /\ remote[p].status = "resizing"
           /\ remote' = [remote EXCEPT ![p] = [status |-> "verify", fields |-> remote[p].fields]]
    BY <1>1, <1>5, ResizedIs
  <2>2. remote'[o] = IF o = p THEN [status |-> "verify", fields |-> remote[p].fields] ELSE remote[o]
    BY <1>1, <2>1 DEF Types
  <2>3. CASE o = p
    BY <1>1, <2>1, <2>2, <2>3, LiveIs
  <2> QED  BY <1>2, <2>2, <2>3
<1>6. CASE remote' = remote
  BY <1>2, <1>6
<1> QED  BY <1>3, <1>4, <1>5, <1>6 DEF Next, vars, Up, UpRefused, Edit, Refresh, Destroy, Import

(* It is as it was posted, and a server's tags are written or will be. *)
Posted(o, news) ==
    \A f \in Args : ~(kind = "Instance" /\ f = "tags") =>
       remote[o].fields[f] = Made(Post(kind, news)).fields[f]

Making ==
    op.do = "create" =>
       /\ op.made \in Live => Posted(op.made, op.news)
       /\ kind = "Instance" =>
            \/ \E c \in Left(op.calls) : c.name = "tags"
            \/ op.made = None /\ op.news["tags"] = {}
            \/ op.made # None /\ (op.made \in Live => remote[op.made].fields["tags"] = op.news["tags"])

(* A POST carries no tags of a server. *)
LEMMA PostedTags ==
    ASSUME Types, kind = "Instance", NEW news \in FieldsOf(kind)
    PROVE  Made(Post(kind, news)).fields["tags"] = {}
<1> DEFINE body == Post(kind, news)
           P == Resource[kind].calls.post
<1>1. kind \in Kinded /\ kind \in Kinds /\ "tags" \in ArgsOf(kind) /\ "tags" \notin P \cup Scope
  <2>1. kind \in Kinded /\ kind \in Kinds /\ Row(kind) /\ Told(kind)
    BY RulesAre DEF Types
  <2> QED  BY <2>1 DEF Told, Row, ArgsOf, Scope
<1>2. body \in [P \cup Scope -> SUBSET Names]
  BY <1>1, PostIs
<1> HIDE DEF body, P
<1>3. "tags" \notin DOMAIN body /\ \A g \in DOMAIN body : body[g] \in SUBSET Names
  BY <1>1, <1>2
<1>4. Made(body).fields["tags"] = Filled(body, "tags")
  BY <1>1, <1>3, MadeIs
<1> QED  BY <1>3, <1>4 DEF Filled, body

(* What a call of a create leaves of its object. *)
LEMMA ServedMaking ==
    ASSUME Shape, Making, op.do = "create", NEW c, c = Head(op.calls), Sent(c), Room(c),
           c.name = "post" \/ Found
    PROVE  /\ \A f \in Args : ~(kind = "Instance" /\ f = "tags") =>
                 After(c).fields[f] = Made(Post(kind, op.news)).fields[f]
           /\ kind = "Instance" => \/ \E d \in Left(Tail(op.calls)) : d.name = "tags"
                                   \/ After(c).fields["tags"] = op.news["tags"]
<1> DEFINE news == op.news
           old == remote[ObjectOf(c)].fields
           now == After(c).fields
           made == Made(Post(kind, news)).fields
<1>1. /\ Types /\ news \in FieldsOf(kind) /\ Args = ArgsOf(kind) /\ op.made \in Objects \cup {None}
      /\ op.calls \in Seq(CallsOf(kind)) /\ op.calls # <<>>
  BY KindIs DEF Shape, Types, Resting
<1>2. /\ c.name = "post" <=> op.made = None
      /\ c.name \notin {"post", "wait", "get"} =>
             c.name = "tags" /\ kind = "Instance" /\ c.body = [tags |-> news.tags]
  BY <1>1, StackAssumption DEF Sent, Shape, Creating, Call, Following
<1>3. c.name # "post" => ObjectOf(c) = op.made /\ op.made \in Live
  BY <1>2, LiveIs DEF ObjectOf, Addressed, Found
<1>4. ASSUME NEW f \in ArgsOf(kind)
      PROVE  /\ c.name = "post" => now[f] = made[f]
             /\ c.name \in {"wait", "get"} => now[f] = old[f]
             /\ c.name = "tags" => now[f] = IF f = "tags" THEN news[f] ELSE old[f]
  <2>1. /\ c.name = "post" => now[f] = made[f]
        /\ c.name = "tags" => now[f] = IF f \in DOMAIN c.body THEN c.body[f] ELSE old[f]
        /\ c.name \in {"wait", "get"} => now[f] = old[f]
    BY <1>1, AfterField
  <2> HIDE DEF now, old, made
  <2> QED  BY <1>2, <2>1
<1>5. kind = "Instance" => "tags" \in ArgsOf(kind)
  BY <1>1, KindIs DEF Row, ArgsOf
<1>6. Left(op.calls) = {c} \cup Left(Tail(op.calls))
  BY <1>1, LeftTail
<1>7. c.name # "post" => /\ \A f \in Args : ~(kind = "Instance" /\ f = "tags") => old[f] = made[f]
                         /\ kind = "Instance" => \/ \E d \in Left(op.calls) : d.name = "tags"
                                                 \/ old["tags"] = news["tags"]
  BY <1>2, <1>3 DEF Making, Posted
<1>8. kind = "Instance" => made["tags"] = {}
  BY <1>1, PostedTags
<1>9. c.name = "post" /\ kind = "Instance" =>
         (\E d \in Left(op.calls) : d.name = "tags") \/ news["tags"] = {}
  BY <1>2 DEF Making
<1> HIDE DEF now, old, made
<1>10. \A f \in Args : ~(kind = "Instance" /\ f = "tags") => now[f] = made[f]
  BY <1>1, <1>2, <1>4, <1>7
<1>11. kind = "Instance" => \/ \E d \in Left(Tail(op.calls)) : d.name = "tags"
                            \/ now["tags"] = news["tags"]
  <2>1. CASE kind = "Instance" /\ c.name = "post"
    BY <1>4, <1>5, <1>6, <1>8, <1>9, <2>1
  <2>2. CASE kind = "Instance" /\ c.name = "tags"
    BY <1>4, <1>5, <2>2
  <2>3. CASE kind = "Instance" /\ c.name \in {"wait", "get"}
    BY <1>4, <1>5, <1>6, <1>7, <2>3
  <2> QED  BY <1>2, <2>1, <2>2, <2>3
<1> QED  BY <1>10, <1>11 DEF now, made

(* Where a create begins. *)
LEMMA BeginMaking ==
    ASSUME Types, UNCHANGED kind, NEW news \in FieldsOf(kind), op'.do = "create", op'.calls = Create(news),
           op'.news = news, op'.made = None
    PROVE  Making'
<1>1. None \notin Live'
  BY StackAssumption DEF Live
<1>2. kind = "Instance" /\ news["tags"] # {} => \E c \in Left(Create(news)) : c.name = "tags"
  BY CreateTags
<1>3. Left(op'.calls) = Left(Create(news))
  OBVIOUS
<1> QED  BY <1>1, <1>2, <1>3 DEF Making, Left

(* No step breaks Making. *)
LEMMA NextMaking == Shape /\ Making /\ [Next]_vars => Making'
<1> SUFFICES ASSUME Shape, Making, [Next]_vars, op'.do = "create" PROVE Making'
  BY DEF Making
<1>1. /\ Types /\ Types' /\ kind' = kind /\ faults' = faults /\ op.news \in FieldsOf(kind)
      /\ Args' = Args /\ Args = ArgsOf(kind) /\ None \notin Live'
  BY KindKept, NextShape, KindIs, StackAssumption DEF Shape, Types, Args, Live
<1>2. \A body : Made(body)' = Made(body)
  BY <1>1, MadeAgain
<1>3. kind = "Instance" => "tags" \in Args
  BY <1>1, KindIs DEF Row, ArgsOf
(* The objects change, the operation does not. *)
<1>4. CASE op' = op /\ ~Serve
  <2>1. op.made \in Live' => op.made \in Live /\ remote'[op.made].fields = remote[op.made].fields
    BY <1>4, LiveStep
  <2> QED  BY <1>1, <1>2, <1>4, <2>1 DEF Making, Posted, Left
<1>5. CASE Up /\ op' # op
  <2> DEFINE news == checkResourceArgs(program)
  <2>1. op' = [do |-> "create", calls |-> Create(news), attempt |-> 1, news |-> news, made |-> None]
    BY <1>5 DEF Up, Start
  <2>2. news \in FieldsOf(kind)
    BY <1>1, CheckedIs, KindIs DEF Types, Row, FieldsOf, ArgsOf
  <2> HIDE DEF news
  <2> QED  BY <1>1, <2>1, <2>2, BeginMaking
<1>6. CASE Serve
  <2> DEFINE c == Head(op.calls)
  <2>1. PICK class : Sent(c) /\ Room(c) /\ React(c, class) /\ Outcome(c, class)
    BY <1>6, ServeIs
  <2>2. CASE Fail(class)
    BY <2>2 DEF Fail, Idle
  <2>3. CASE Advance(c, class) /\ Rest(c) = <<>> /\ Commit(ObjectOf(c), class)
    <3>1. op' = [do |-> "create", calls |-> Create(op.news), attempt |-> 1, news |-> op.news, made |-> None]
      BY <2>3 DEF Commit, Idle, Start
    <3> QED  BY <1>1, <3>1, BeginMaking
  <2>4. CASE op' = [op EXCEPT !.attempt = @ + 1]
    <3>1. op'.do = op.do /\ op'.calls = op.calls /\ op'.news = op.news /\ op'.made = op.made
      BY <1>1, <2>4 DEF Types
    <3>2. op.do = "create"
      BY <3>1
    <3>3. ASSUME op.made \in Live'
          PROVE  /\ Posted(op.made, op.news)'
                 /\ kind = "Instance" => \/ \E d \in Left(op.calls) : d.name = "tags"
                                         \/ remote'[op.made].fields["tags"] = op.news["tags"]
      <4>1. op.made # None
        BY <1>1, <3>3
      <4>2. CASE op.made \in Live /\ remote'[op.made].fields = remote[op.made].fields
        BY <1>1, <1>2, <3>1, <3>2, <4>1, <4>2 DEF Making, Posted
      <4>3. CASE remote'[op.made] = After(c) /\ (c.name = "post" \/ Found)
        <5>1. /\ \A f \in Args : ~(kind = "Instance" /\ f = "tags") =>
                    After(c).fields[f] = Made(Post(kind, op.news)).fields[f]
              /\ kind = "Instance" => \/ \E d \in Left(Tail(op.calls)) : d.name = "tags"
                                      \/ After(c).fields["tags"] = op.news["tags"]
          BY <2>1, <3>2, <4>3, ServedMaking
        <5>2. Left(op.calls) = {c} \cup Left(Tail(op.calls))
          <6>1. op.calls \in Seq(CallsOf(kind)) /\ op.calls # <<>>
            BY <1>1, <3>2 DEF Shape, Resting, Types
          <6> QED  BY <6>1, LeftTail
        <5> HIDE DEF c
        <5> QED  BY <1>1, <1>2, <3>1, <4>3, <5>1, <5>2 DEF Posted
      <4> QED  BY <3>3, <4>2, <4>3, LiveStep
    <3>4. kind = "Instance" => \/ \E d \in Left(op.calls) : d.name = "tags"
                               \/ op.made = None /\ op.news["tags"] = {}
                               \/ op.made # None
      BY <3>2 DEF Making
    <3> QED  BY <1>1, <3>1, <3>3, <3>4 DEF Making, Left, Posted
  <2>5. CASE /\ class \in {"ok", "blank"} \/ (c.name = "delete" /\ class = "notFound")
             /\ Rest(c) # <<>>
             /\ op' = [op EXCEPT !.calls = Rest(c), !.attempt = 1,
                                 !.made = IF op.do = "create" THEN ObjectOf(c) ELSE None]
    <3>1. op.do = "create" /\ op'.calls = Rest(c) /\ op'.news = op.news /\ op'.made = ObjectOf(c)
      BY <1>1, <2>5 DEF Types
    <3>2. Rest(c) = Tail(op.calls) /\ c.name # "delete"
      BY <2>1, <3>1, RestIs DEF Sent
    <3>3. CASE class = "ok"
      <4>1. ObjectOf(c) \in Objects /\ remote'[ObjectOf(c)] = After(c) /\ (c.name = "post" \/ Found)
        BY <1>1, <2>1, <3>3, EffectIs DEF Outcome
      <4>2. /\ \A f \in Args : ~(kind = "Instance" /\ f = "tags") =>
                  After(c).fields[f] = Made(Post(kind, op.news)).fields[f]
            /\ kind = "Instance" => \/ \E d \in Left(Tail(op.calls)) : d.name = "tags"
                                    \/ After(c).fields["tags"] = op.news["tags"]
        BY <2>1, <3>1, <4>1, ServedMaking
      <4>3. Posted(op.made, op.news)'
        BY <1>1, <1>2, <3>1, <4>1, <4>2 DEF Posted
      <4>4. op'.made # None
        BY <3>1, <4>1, StackAssumption
      <4> HIDE DEF c
      <4> QED  BY <1>1, <3>1, <3>2, <4>1, <4>2, <4>3, <4>4 DEF Making, Left
    <3>4. CASE class = "blank"
      <4>1. c.name = "get" /\ remote' = remote /\ ObjectOf(c) = op.made /\ kind # "Instance"
        <5>1. c.name = "get" /\ remote' = remote
          BY <2>1, <3>4 DEF Outcome
        <5>2. kind # "Instance"
          <6>1. "get" \notin Instance.follow
            BY DEF Instance
          <6> QED  BY <2>1, <3>1, <5>1, <6>1 DEF Sent, Following, Resource
        <5> QED  BY <3>1, <5>1, <5>2 DEF ObjectOf, Addressed
      <4> QED  BY <1>1, <1>2, <3>1, <4>1 DEF Making, Posted, Live
    <3> QED  BY <2>5, <3>2, <3>3, <3>4
  <2> QED  BY <2>1, <2>2, <2>3, <2>4, <2>5, ReactIs, AdvanceIs
<1>7. CASE Refresh \/ Destroy \/ Import
  BY <1>7 DEF Refresh, Destroy, Import, Start
<1> QED  BY <1>4, <1>5, <1>6, <1>7 DEF Next, vars, UpRefused, Edit, Vanish, Resized

(* No create is under way at the start. *)
LEMMA InitMaking == Init => Making
BY DEF Init, Making, Idle

-----------------------------------------------------------------------------
(* How far an update of a server has come: each of the four arguments that   *)
(* it can write is there, or the call that writes it is left.                *)
Touched == {"name", "flavor", "tags", "securityGroups"}

Pending(calls, n) == \E c \in Left(calls) : c.name = n
Owes(calls, n, g) == \E c \in Left(calls) : c.name = n /\ g \in c.body["securityGroups"]

Along(r, calls, news) ==
    LET wanted == BareResourceID(news["securityGroups"])
        groups == r["securityGroups"]
    IN /\ Pending(calls, "rename") \/ (news["name"] # {} => Alike(kind, "name", r["name"], news["name"]))
       /\ Pending(calls, "resize") \/ (news["flavor"] # {} => Alike(kind, "flavor", r["flavor"], news["flavor"]))
       /\ Pending(calls, "tags") \/ Alike(kind, "tags", r["tags"], news["tags"])
       /\ \A g \in wanted : g \in groups \/ Owes(calls, "attach", g)
       /\ \A g \in groups : g \in wanted \/ Owes(calls, "remove", g)
       /\ \A g : Owes(calls, "remove", g) => g \in groups

(* The four arguments and their rules. *)
LEMMA TouchedIs ==
    ASSUME Types, kind = "Instance"
    PROVE  /\ Touched \subseteq ComparedOf(kind) /\ Touched \subseteq Tracked /\ Touched \subseteq ArgsOf(kind)
           /\ {"tags", "securityGroups"} \subseteq Cleared /\ "name" \notin Cleared /\ "flavor" \notin Cleared
           /\ RuleOf(kind, "name") = "given" /\ RuleOf(kind, "flavor") = "givenId"
           /\ RuleOf(kind, "tags") = "alwaysId" /\ RuleOf(kind, "securityGroups") = "alwaysId"
           /\ {"flavor", "securityGroups"} \subseteq Resource[kind].ids /\ "name" \notin Resource[kind].ids
           /\ \A f \in ComparedOf(kind) \ Touched : f \in DOMAIN Resource[kind].diff.replace
<1>1. /\ Told(kind) /\ ComparedOf(kind) \subseteq ArgsOf(kind)
      /\ Tracked = ComparedOf(kind) \ {"projectId"}
      /\ \A f \in Cleared \cap ComparedOf(kind) : RuleOf(kind, f) \in AlwaysRules
  BY RulesAre
<1>2. /\ ComparedOf(kind) \ DOMAIN Resource[kind].diff.replace = Touched
      /\ RuleOf(kind, "name") = "given" /\ RuleOf(kind, "flavor") = "givenId"
      /\ RuleOf(kind, "tags") = "alwaysId" /\ RuleOf(kind, "securityGroups") = "alwaysId"
      /\ {"flavor", "securityGroups"} \subseteq Resource[kind].ids /\ "name" \notin Resource[kind].ids
  BY <1>1 DEF Told, Touched
<1>3. Touched \subseteq ComparedOf(kind)
  BY <1>2
<1>4. {"tags", "securityGroups"} \subseteq Cleared
  BY DEF Cleared
<1>5. "name" \notin Cleared /\ "flavor" \notin Cleared
  BY <1>1, <1>2, <1>3 DEF AlwaysRules, Touched
<1> QED  BY <1>1, <1>2, <1>3, <1>4, <1>5 DEF Touched

(* One argument, when the object was as the state and the state is not changed. *)
LEMMA StaysAlike ==
    ASSUME Types, NEW f \in ComparedOf(kind), NEW r, NEW olds, NEW news,
           Mirrors(f, r, olds), ~Changed(RuleOf(kind, f), olds[f], news[f])
    PROVE  /\ news[f] # {} => Alike(kind, f, r[f], news[f])
           /\ RuleOf(kind, f) \in AlwaysRules /\ f \in Cleared /\ Whole(olds) => Alike(kind, f, r[f], news[f])
<1>1. Told(kind)
  BY RulesAre
<1>2. /\ news[f] # {} => olds[f] # {} /\ Alike(kind, f, olds[f], news[f])
      /\ RuleOf(kind, f) \in AlwaysRules => Alike(kind, f, olds[f], news[f])
      /\ RuleOf(kind, f) \in AlwaysRules /\ news[f] = {} => olds[f] = {}
  BY <1>1, SameAlike
<1>3. olds[f] # {} => Alike(kind, f, r[f], olds[f])
  BY DEF Mirrors
<1>4. olds[f] = {} /\ f \in Cleared /\ Whole(olds) => r[f] = {}
  BY DEF Mirrors
<1>5. Alike(kind, f, {}, {})
  BY DEF Alike
<1> QED  BY <1>2, <1>3, <1>4, <1>5 DEF Alike

(* An update that starts owes all that differs. *)
LEMMA StartAlong ==
    ASSUME Types, kind = "Instance", NEW olds \in FieldsOf(kind), NEW news \in FieldsOf(kind),
           NEW r \in FieldsOf(kind), Whole(olds), \A f \in Tracked : Mirrors(f, r, olds),
           Bare(r["securityGroups"])
    PROVE  Along(r, InstanceUpdate(olds, news), news)
<1> DEFINE w == InstanceUpdate(olds, news)
           groups == sliceDiff(olds.securityGroups, news.securityGroups)
           renamed == Changed("given", olds.name, news.name)
           resized == Changed("givenId", olds.flavor, news.flavor)
           tagged  == Changed("alwaysList", olds.tags, news.tags)
           ca == Call("rename", [name |-> news.name])
           cb == Call("resize", [flavor |-> BareResourceID(news.flavor)])
           cg == Call("tags", [tags |-> news.tags])
           wanted == BareResourceID(news["securityGroups"])
           held == BareResourceID(olds["securityGroups"])
           removes == EachOf("remove", groups.remove)
           attaches == EachOf("attach", groups.add)
<1>1. Left(w) = (IF renamed THEN {ca} ELSE {})
                     \cup (IF resized THEN {cb, Plain("resized"), Plain("verify")} ELSE {})
                     \cup removes \cup attaches
                     \cup (IF tagged THEN {cg} ELSE {}) \cup {Plain("get")}
  BY InstanceLeft
<1>2. /\ ca.name = "rename" /\ cb.name = "resize" /\ cg.name = "tags"
      /\ Plain("resized").name = "resized" /\ Plain("verify").name = "verify" /\ Plain("get").name = "get"
  BY DEF Call, Plain
<1>3. groups.remove = held \ wanted /\ groups.add = wanted \ held
  BY DEF sliceDiff
<1>4. /\ \A x \in removes : x.name = "remove" /\ \E g \in groups.remove : x.body["securityGroups"] = {g}
      /\ \A x \in attaches : x.name = "attach"
      /\ \A g \in groups.add : \E x \in attaches : g \in x.body["securityGroups"]
      /\ \A g \in groups.remove : \E x \in removes : g \in x.body["securityGroups"]
  <2>1. \A n : \A g : Call(n, [securityGroups |-> {g}]).name = n
                      /\ Call(n, [securityGroups |-> {g}]).body["securityGroups"] = {g}
    BY DEF Call
  <2> HIDE DEF groups
  <2>2. ASSUME NEW n, NEW S
        PROVE  /\ \A x \in EachOf(n, S) : x.name = n /\ \E g \in S : x.body["securityGroups"] = {g}
               /\ \A g \in S : \E x \in EachOf(n, S) : g \in x.body["securityGroups"]
    <3>1. \A g \in S : Call(n, [securityGroups |-> {g}]) \in EachOf(n, S)
      BY DEF EachOf
    <3>2. \A x \in EachOf(n, S) : \E g \in S : x = Call(n, [securityGroups |-> {g}])
      BY DEF EachOf
    <3>3. ASSUME NEW x \in EachOf(n, S)
          PROVE  x.name = n /\ \E g \in S : x.body["securityGroups"] = {g}
      <4>1. PICK g \in S : x = Call(n, [securityGroups |-> {g}])
        BY <3>2
      <4>2. x.name = n /\ x.body["securityGroups"] = {g}
        BY <2>1, <4>1
      <4> QED  BY <4>2
    <3>4. \A g \in S : \E x \in EachOf(n, S) : g \in x.body["securityGroups"]
      BY <2>1, <3>1
    <3> QED  BY <3>3, <3>4
  <2> QED  BY <2>2
<1>5. /\ Touched \subseteq ComparedOf(kind) /\ Touched \subseteq Tracked
      /\ {"tags", "securityGroups"} \subseteq Cleared
      /\ RuleOf(kind, "name") = "given" /\ RuleOf(kind, "flavor") = "givenId"
      /\ RuleOf(kind, "tags") = "alwaysId" /\ RuleOf(kind, "securityGroups") = "alwaysId"
      /\ "securityGroups" \in Resource[kind].ids
  BY TouchedIs
<1>6. held = r["securityGroups"]
  <2>1. Mirrors("securityGroups", r, olds)
    BY <1>5 DEF Touched
  <2>2. CASE olds["securityGroups"] # {}
    BY <1>5, <2>1, <2>2 DEF Mirrors, Alike, Bare
  <2>3. CASE olds["securityGroups"] = {}
    BY <1>5, <2>1, <2>3, BareOfBlank DEF Mirrors
  <2> QED  BY <2>2, <2>3
<1>7. renamed \/ (news["name"] # {} => Alike(kind, "name", r["name"], news["name"]))
  BY <1>5, StaysAlike DEF Touched
<1>8. resized \/ (news["flavor"] # {} => Alike(kind, "flavor", r["flavor"], news["flavor"]))
  BY <1>5, StaysAlike DEF Touched
<1>9. tagged \/ Alike(kind, "tags", r["tags"], news["tags"])
  <2>1. tagged \/ ~Changed("alwaysId", olds["tags"], news["tags"])
    BY EqualBare DEF Changed
  <2> HIDE DEF tagged
  <2> QED  BY <1>5, <2>1, StaysAlike DEF Touched, AlwaysRules
<1> HIDE DEF w, renamed, resized, tagged, ca, cb, cg, groups, removes, attaches, held, wanted
<1>10. /\ renamed => Pending(w, "rename")
       /\ resized => Pending(w, "resize")
       /\ tagged => Pending(w, "tags")
  BY <1>1, <1>2 DEF Pending
<1>11. \A x \in Left(w) : x.name = "remove" => x \in removes
  BY <1>1, <1>2, <1>4
<1>12. /\ \A g \in groups.add : Owes(w, "attach", g)
       /\ \A g \in groups.remove : Owes(w, "remove", g)
       /\ \A g : Owes(w, "remove", g) => g \in groups.remove
  <2>1. removes \subseteq Left(w) /\ attaches \subseteq Left(w)
    BY <1>1
  <2>2. \A g \in groups.add : Owes(w, "attach", g)
    BY <1>4, <2>1 DEF Owes
  <2>3. \A g \in groups.remove : Owes(w, "remove", g)
    BY <1>4, <2>1 DEF Owes
  <2>4. \A g : Owes(w, "remove", g) => g \in groups.remove
    BY <1>4, <1>11 DEF Owes
  <2> QED  BY <2>2, <2>3, <2>4
<1>13. /\ \A g \in wanted : g \in r["securityGroups"] \/ Owes(w, "attach", g)
       /\ \A g \in r["securityGroups"] : g \in wanted \/ Owes(w, "remove", g)
       /\ \A g : Owes(w, "remove", g) => g \in r["securityGroups"]
  BY <1>3, <1>6, <1>12
<1> QED  BY <1>7, <1>8, <1>9, <1>10, <1>13 DEF Along, w, wanted

(* Each call does what is then no longer left to do. *)
LEMMA StepAlong ==
    ASSUME Shape, Grouped, op.do = "update", kind = "Instance", NEW c, c = Head(op.calls), Sent(c), Room(c),
           Found, Along(remote[stack.id].fields, op.calls, op.news)
    PROVE  Along(After(c).fields, Rest(c), op.news)
<1> DEFINE r == remote[stack.id].fields
           now == After(c).fields
           news == op.news
           wanted == BareResourceID(news["securityGroups"])
<1>1. /\ Types /\ news \in FieldsOf(kind) /\ op.calls \in Seq(CallsOf(kind)) /\ op.calls # <<>>
      /\ c.name \in CallNames /\ c \in Updating(kind, stack.state, news) /\ c.name \notin {"post", "delete"}
  BY DEF Shape, Types, Resting, Sent, CallsOf
<1>2. ObjectOf(c) = stack.id /\ remote[ObjectOf(c)].fields = r
  BY <1>1 DEF ObjectOf, Addressed
<1>3. /\ Touched \subseteq ArgsOf(kind) /\ "name" \notin Resource[kind].ids
      /\ "flavor" \in Resource[kind].ids
  BY <1>1, TouchedIs
<1>4. ASSUME NEW f \in ArgsOf(kind)
      PROVE  /\ c.name \in {"put", "rename", "tags", "resize"} =>
                    now[f] = IF f \in DOMAIN c.body THEN c.body[f] ELSE r[f]
             /\ c.name = "remove" => now[f] = IF f = "securityGroups" THEN r[f] \ c.body[f] ELSE r[f]
             /\ c.name = "attach" => now[f] = IF f = "securityGroups" THEN r[f] \cup c.body[f] ELSE r[f]
             /\ c.name \in {"confirm", "resized", "verify", "wait", "get"} => now[f] = r[f]
  <2> DEFINE old == remote[ObjectOf(c)].fields
  <2>1. /\ c.name \in {"put", "rename", "tags", "resize"} =>
                    now[f] = IF f \in DOMAIN c.body THEN c.body[f] ELSE old[f]
        /\ c.name = "remove" => now[f] = IF f = "securityGroups" THEN old[f] \ c.body[f] ELSE old[f]
        /\ c.name = "attach" => now[f] = IF f = "securityGroups" THEN old[f] \cup c.body[f] ELSE old[f]
        /\ c.name \in {"confirm", "resized", "verify", "wait", "get"} => now[f] = old[f]
    <3>1. Types
      BY <1>1
    <3> QED  BY <3>1, AfterField
  <2>2. old = r
    BY <1>2
  <2> HIDE DEF now, r, old
  <2> QED  BY <2>1, <2>2
<1>5. /\ c.name \in {"resized", "verify", "confirm", "wait", "get", "rename", "resize", "remove", "attach", "tags"}
      /\ c.name = "rename" => c.body = [name |-> news.name]
      /\ c.name = "resize" => c.body = [flavor |-> BareResourceID(news.flavor)]
      /\ c.name = "tags" => c.body = [tags |-> news.tags]
  BY <1>1 DEF Updating
<1>6. /\ Left(Tail(op.calls)) \subseteq Left(Rest(c)) /\ Left(op.calls) = {c} \cup Left(Tail(op.calls))
      /\ \A d \in Left(Rest(c)) : d \in Left(Tail(op.calls)) \/ d.name \in {"confirm", "wait"}
  <2>1. Plain("confirm").name = "confirm" /\ Plain("wait").name = "wait"
    BY DEF Plain, Call
  <2> QED  BY <2>1, RestLeft
<1>7. \A d \in Left(Tail(op.calls)) : c.name = "remove" /\ d.name = "remove"
         => c.body["securityGroups"] \cap d.body["securityGroups"] = {}
  BY <1>1, ApartTail DEF Grouped
<1>8. /\ c.name = "attach" => c.body["securityGroups"] \subseteq wanted
      /\ c.name = "remove" => c.body["securityGroups"] \cap wanted = {}
  BY <1>6 DEF Grouped
<1> HIDE DEF now, r
<1>9. /\ c.name = "rename" => now["name"] = news["name"]
      /\ c.name # "rename" => now["name"] = r["name"]
      /\ c.name = "resize" => now["flavor"] = BareResourceID(news["flavor"])
      /\ c.name # "resize" => now["flavor"] = r["flavor"]
      /\ c.name = "tags" => now["tags"] = news["tags"]
      /\ c.name # "tags" => now["tags"] = r["tags"]
      /\ c.name = "remove" => now["securityGroups"] = r["securityGroups"] \ c.body["securityGroups"]
      /\ c.name = "attach" => now["securityGroups"] = r["securityGroups"] \cup c.body["securityGroups"]
      /\ c.name \notin {"remove", "attach"} => now["securityGroups"] = r["securityGroups"]
  <2> DEFINE rest == {"resized", "verify", "confirm", "wait", "get"}
  <2>1. \A f \in Touched :
             /\ c.name \in {"put", "rename", "tags", "resize"} =>
                    now[f] = IF f \in DOMAIN c.body THEN c.body[f] ELSE r[f]
             /\ c.name = "remove" => now[f] = IF f = "securityGroups" THEN r[f] \ c.body[f] ELSE r[f]
             /\ c.name = "attach" => now[f] = IF f = "securityGroups" THEN r[f] \cup c.body[f] ELSE r[f]
             /\ c.name \in {"confirm", "resized", "verify", "wait", "get"} => now[f] = r[f]
    BY <1>3, <1>4
  <2>2. CASE c.name \in {"rename", "tags", "resize"}
    BY <1>5, <2>1, <2>2 DEF Touched
  <2>3. CASE c.name \in {"remove", "attach"}
    BY <2>1, <2>3 DEF Touched
  <2>4. CASE c.name \in rest
    BY <2>1, <2>4 DEF Touched
  <2> QED  BY <1>5, <2>2, <2>3, <2>4
<1>10. \A n : Pending(op.calls, n) => c.name = n \/ Pending(Rest(c), n)
  BY <1>6 DEF Pending
<1>11. /\ \A g : Owes(op.calls, "attach", g) =>
             (c.name = "attach" /\ g \in c.body["securityGroups"]) \/ Owes(Rest(c), "attach", g)
       /\ \A g : Owes(op.calls, "remove", g) =>
             (c.name = "remove" /\ g \in c.body["securityGroups"]) \/ Owes(Rest(c), "remove", g)
  BY <1>6 DEF Owes
<1>12. \A g : Owes(Rest(c), "remove", g) =>
          /\ Owes(op.calls, "remove", g)
          /\ c.name = "remove" => g \notin c.body["securityGroups"]
  BY <1>6, <1>7 DEF Owes
<1>13. /\ Pending(op.calls, "rename") \/ (news["name"] # {} => Alike(kind, "name", r["name"], news["name"]))
       /\ Pending(op.calls, "resize") \/ (news["flavor"] # {} => Alike(kind, "flavor", r["flavor"], news["flavor"]))
       /\ Pending(op.calls, "tags") \/ Alike(kind, "tags", r["tags"], news["tags"])
       /\ \A g \in wanted : g \in r["securityGroups"] \/ Owes(op.calls, "attach", g)
       /\ \A g \in r["securityGroups"] : g \in wanted \/ Owes(op.calls, "remove", g)
       /\ \A g : Owes(op.calls, "remove", g) => g \in r["securityGroups"]
  BY DEF Along, r
<1>14. /\ Alike(kind, "name", news["name"], news["name"]) /\ Alike(kind, "tags", news["tags"], news["tags"])
       /\ Alike(kind, "flavor", BareResourceID(news["flavor"]), news["flavor"])
  <2>1. news["flavor"] \in SUBSET Names
    BY <1>1, <1>3 DEF FieldsOf, Touched
  <2> QED  BY <1>3, <2>1, BareOfBare DEF Alike
<1> HIDE DEF wanted, news
<1>15. Pending(Rest(c), "rename") \/ (news["name"] # {} => Alike(kind, "name", now["name"], news["name"]))
  BY <1>9, <1>10, <1>13, <1>14
<1>16. Pending(Rest(c), "resize") \/ (news["flavor"] # {} => Alike(kind, "flavor", now["flavor"], news["flavor"]))
  BY <1>9, <1>10, <1>13, <1>14
<1>17. Pending(Rest(c), "tags") \/ Alike(kind, "tags", now["tags"], news["tags"])
  BY <1>9, <1>10, <1>13, <1>14
<1>18. ASSUME NEW g \in wanted PROVE g \in now["securityGroups"] \/ Owes(Rest(c), "attach", g)
  <2>1. c.name = "remove" => g \notin c.body["securityGroups"]
    BY <1>8, <1>18
  <2> QED  BY <1>9, <1>11, <1>13, <1>18, <2>1
<1>19. ASSUME NEW g \in now["securityGroups"] PROVE g \in wanted \/ Owes(Rest(c), "remove", g)
  BY <1>8, <1>9, <1>11, <1>13, <1>19
<1>20. ASSUME NEW g, Owes(Rest(c), "remove", g) PROVE g \in now["securityGroups"]
  BY <1>9, <1>12, <1>13, <1>20
<1> QED  BY <1>15, <1>16, <1>17, <1>18, <1>19, <1>20 DEF Along, now, news, wanted

(* An update of a server that has come to its end has written all of it. *)
LEMMA EndAlong ==
    ASSUME Types, kind = "Instance", NEW olds \in FieldsOf(kind), NEW news \in FieldsOf(kind),
           NEW r \in FieldsOf(kind), NEW now \in FieldsOf(kind), Along(now, <<>>, news),
           replaceDiff(kind, olds, news) = {}, Whole(olds),
           \A f \in Tracked \ Touched : Mirrors(f, r, olds) /\ now[f] = r[f],
           NEW f \in Tracked
    PROVE  Mirrors(f, now, Renewed(kind, news))
<1> DEFINE s == Renewed(kind, news)
           wanted == BareResourceID(news["securityGroups"])
<1>1. /\ f \in ComparedOf(kind) /\ Alike(kind, f, s[f], news[f]) /\ (s[f] = {} <=> news[f] = {})
  <2>1. f \in ComparedOf(kind)
    BY RulesAre
  <2> QED  BY <2>1, RenewedAlike, AlikeBlank
<1>2. /\ "name" \notin Cleared /\ "flavor" \notin Cleared
      /\ f \notin Touched => f \in DOMAIN Resource[kind].diff.replace
      /\ "securityGroups" \in ArgsOf(kind) /\ "securityGroups" \in Resource[kind].ids
  BY <1>1, TouchedIs DEF Touched
<1>3. f \in Cleared => RuleOf(kind, f) \in AlwaysRules
  BY <1>1, RulesAre
<1> HIDE DEF s
<1>4. ASSUME news[f] # {} \/ f \in Cleared => Alike(kind, f, now[f], news[f])
      PROVE  Mirrors(f, now, s)
  BY <1>1, <1>4, AlikeBlank DEF Mirrors, Alike
<1>5. ASSUME f \in Touched PROVE Mirrors(f, now, s)
  <2>1. \A n : ~Pending(<<>>, n) /\ \A g : ~Owes(<<>>, n, g)
    BY DEF Pending, Owes, Left
  <2>2. /\ news["name"] # {} => Alike(kind, "name", now["name"], news["name"])
        /\ news["flavor"] # {} => Alike(kind, "flavor", now["flavor"], news["flavor"])
        /\ Alike(kind, "tags", now["tags"], news["tags"])
        /\ now["securityGroups"] = wanted
    BY <2>1 DEF Along
  <2>3. Alike(kind, "securityGroups", now["securityGroups"], news["securityGroups"])
    BY <1>2, <2>2, BareOfBare DEF Alike, FieldsOf
  <2> QED  BY <1>2, <1>4, <1>5, <2>2, <2>3 DEF Touched
<1>6. ASSUME f \notin Touched PROVE Mirrors(f, now, s)
  <2>1. Mirrors(f, r, olds) /\ now[f] = r[f] /\ ~Changed(RuleOf(kind, f), olds[f], news[f])
    BY <1>2, <1>6, NoReplace DEF RuleOf
  <2>2. /\ news[f] # {} => Alike(kind, f, now[f], news[f])
        /\ f \in Cleared => Alike(kind, f, now[f], news[f])
    BY <1>1, <1>3, <2>1, StaysAlike
  <2> QED  BY <1>4, <2>2
<1> QED  BY <1>5, <1>6 DEF s

-----------------------------------------------------------------------------
(* Only a server is updated with more than one request. *)
Lone == op.do = "update" /\ kind # "Instance" => Tail(op.calls) = <<>>

(* No step breaks Lone. *)
LEMMA NextLone == Shape /\ Lone /\ [Next]_vars => Lone'
<1> SUFFICES ASSUME Shape, Lone, [Next]_vars, op'.do = "update", kind # "Instance"
             PROVE  Tail(op'.calls) = <<>>
  BY KindKept DEF Lone
<1>1. Types
  BY DEF Shape
<1>2. CASE op.do = "update" /\ op'.calls = op.calls
  BY <1>2 DEF Lone
<1>3. CASE Serve
  <2> DEFINE c == Head(op.calls)
  <2>1. PICK class : React(c, class) /\ Sent(c)
    BY <1>3, ServeIs
  <2>2. CASE op' = [op EXCEPT !.attempt = @ + 1]
    BY <1>1, <1>2, <2>2 DEF Types
  <2>3. CASE Fail(class)
    BY <2>3 DEF Fail, Idle
  <2>4. CASE Advance(c, class)
    <3>1. CASE Commit(ObjectOf(c), class)
      BY <3>1 DEF Commit, Start, Idle
    <3>2. CASE /\ Rest(c) # <<>>
               /\ op' = [op EXCEPT !.calls = Rest(c), !.attempt = 1,
                                   !.made = IF op.do = "create" THEN ObjectOf(c) ELSE None]
      <4>1. op.do = "update"
        BY <1>1, <3>2 DEF Types
      <4>2. Tail(op.calls) = <<>> /\ c.name # "verify"
        BY <2>1, <4>1 DEF Lone, Sent, Updating
      <4>3. Rest(c) = <<>>
        BY <4>2 DEF Rest
      <4> QED  BY <3>2, <4>3
    <3> QED  BY <2>4, <3>1, <3>2, AdvanceIs
  <2> QED  BY <2>1, <2>2, <2>3, <2>4, ReactIs
<1>4. CASE Up
  <2>1. CASE op' = op
    BY <1>2, <2>1
  <2>2. CASE op' # op
    <3>1. PICK x, body :
             /\ body # <<>> /\ op'.calls = body
             /\ body = One(x, Call("put", Put(kind, stack.state, checkResourceArgs(program))))
      BY <1>4, <2>2 DEF Up, Start, Update
    <3>2. body = <<Call("put", Put(kind, stack.state, checkResourceArgs(program)))>>
      BY <3>1 DEF One
    <3> QED  BY <3>1, <3>2, Alone
  <2> QED  BY <2>1, <2>2
<1>5. CASE op' = op
  BY <1>2, <1>5
<1>6. CASE Refresh \/ Destroy \/ Import
  BY <1>6 DEF Refresh, Destroy, Import, Start
<1> QED  BY <1>3, <1>4, <1>5, <1>6 DEF Next, vars, UpRefused, Edit, Vanish, Resized

(* No update is under way at the start. *)
LEMMA InitLone == Init => Lone
BY DEF Init, Lone, Idle

-----------------------------------------------------------------------------
(* The object of the stack is as the state has it, in every field that is   *)
(* compared; while a server is updated, it is on the way to what is written. *)
Smooth ==
    kind = "Instance" => /\ faults \cap {"refuse", "wait"} = {}
                         /\ ~ {"slow", "strict"} \subseteq faults

Mirroring(r, s) == \A f \in Tracked : Mirrors(f, r, s)

Advancing(x, s, calls, news) ==
    /\ Whole(s)
    /\ \A f \in Tracked \ Touched : Mirrors(f, x.fields, s)
    /\ Along(x.fields, calls, news)
    /\ Head(calls).name = "wait" => x.status = "ready"

Copied ==
    Straight /\ Smooth /\ op.do # "import" /\ stack.id \in Live =>
       IF op.do = "update" /\ kind = "Instance" /\ SameScope(remote[stack.id].fields, op.news)
         THEN Advancing(remote[stack.id], stack.state, op.calls, op.news)
         ELSE Mirroring(remote[stack.id].fields, stack.state)

(* The ways to show Copied after a step. *)
LEMMA CopiedThen ==
    ASSUME UNCHANGED <<kind, faults>>,
           \/ ~(Straight /\ Smooth)
           \/ op'.do = "import" \/ stack'.id \notin Live'
           \/ /\ op'.do = "update" /\ kind = "Instance" /\ SameScope(remote'[stack'.id].fields, op'.news)
              /\ Advancing(remote'[stack'.id], stack'.state, op'.calls, op'.news)
           \/ /\ ~(op'.do = "update" /\ kind = "Instance" /\ SameScope(remote'[stack'.id].fields, op'.news))
              /\ Mirroring(remote'[stack'.id].fields, stack'.state)
    PROVE  Copied'
<1>1. Straight' = Straight /\ Smooth' = Smooth
  BY DEF Straight, Smooth
<1>2. Tracked' = Tracked /\ Cleared' = Cleared
  <2>1. Rules' = Rules /\ Unsent' = Unsent
    BY DEF Rules, Unsent
  <2> QED  BY <2>1 DEF Tracked, Cleared
<1>3. SameScope(remote[stack.id].fields, op.news)' = SameScope(remote'[stack'.id].fields, op'.news)
  BY DEF SameScope
<1>4. ASSUME Mirroring(remote'[stack'.id].fields, stack'.state)
      PROVE  Mirroring(remote[stack.id].fields, stack.state)'
  BY <1>2, <1>4 DEF Mirroring, Mirrors, Alike, Whole
<1>5. ASSUME Advancing(remote'[stack'.id], stack'.state, op'.calls, op'.news)
      PROVE  Advancing(remote[stack.id], stack.state, op.calls, op.news)'
  <2>1. Whole(stack.state)'
    BY <1>5 DEF Advancing, Whole
  <2>2. (\A f \in Tracked \ Touched : Mirrors(f, remote[stack.id].fields, stack.state))'
    BY <1>2, <1>5 DEF Advancing, Mirrors, Alike, Whole, Touched
  <2>3. Along(remote[stack.id].fields, op.calls, op.news)'
    BY <1>5 DEF Advancing, Along, Pending, Owes, Left, Alike
  <2> QED  BY <1>5, <2>1, <2>2, <2>3 DEF Advancing
<1> QED  BY <1>1, <1>3, <1>4, <1>5 DEF Copied

(* Where the requests are not about the object, or none is made. *)
LEMMA StillCopied ==
    ASSUME Shape, Copied, UNCHANGED <<kind, faults, stack>>,
           op'.do = op.do /\ op'.calls = op.calls /\ op'.news = op.news,
           stack.id \in Live' => /\ stack.id \in Live /\ remote'[stack.id].fields = remote[stack.id].fields
                                 /\ remote[stack.id].status = "ready" => remote'[stack.id].status = "ready"
    PROVE  Copied'
<1>1. CASE Straight /\ Smooth /\ op.do # "import" /\ stack.id \in Live'
  <2>1. stack.id \in Live /\ remote'[stack.id].fields = remote[stack.id].fields
    BY <1>1
  <2>2. CASE op.do = "update" /\ kind = "Instance" /\ SameScope(remote[stack.id].fields, op.news)
    <3>1. Advancing(remote[stack.id], stack.state, op.calls, op.news)
      BY <1>1, <2>1, <2>2 DEF Copied
    <3>2. Advancing(remote'[stack.id], stack.state, op.calls, op.news)
      BY <1>1, <2>1, <3>1 DEF Advancing
    <3> QED  BY <2>1, <2>2, <3>2, CopiedThen
  <2>3. CASE ~(op.do = "update" /\ kind = "Instance" /\ SameScope(remote[stack.id].fields, op.news))
    <3>1. Mirroring(remote[stack.id].fields, stack.state)
      BY <1>1, <2>1, <2>3 DEF Copied
    <3> QED  BY <2>1, <2>3, <3>1, CopiedThen
  <2> QED  BY <2>2, <2>3
<1>2. CASE ~(Straight /\ Smooth /\ op.do # "import" /\ stack.id \in Live')
  BY <1>2, CopiedThen
<1> QED  BY <1>1, <1>2

(* An operation that ends, or another that begins, with the stack and the object as they were. *)
LEMMA StillMirrored ==
    ASSUME Copied, UNCHANGED <<kind, faults, stack, remote>>, op.do # "import",
           ~(op.do = "update" /\ kind = "Instance" /\ SameScope(remote[stack.id].fields, op.news)),
           op'.do = "update" => kind # "Instance"
    PROVE  Copied'
<1>1. CASE Straight /\ Smooth /\ stack.id \in Live
  <2>1. Mirroring(remote[stack.id].fields, stack.state)
    BY <1>1 DEF Copied
  <2> QED  BY <2>1, CopiedThen
<1>2. CASE ~(Straight /\ Smooth /\ stack.id \in Live)
  <2>1. stack'.id \in Live' => stack.id \in Live
    BY LiveIs
  <2> QED  BY <1>2, <2>1, CopiedThen
<1> QED  BY <1>1, <1>2

(* A call of a create: the state is what was posted, learnt from the *)
(* answer.                                                           *)
LEMMA CreateCopied ==
    ASSUME Shape, Types', Making, op.do = "create", NEW c, c = Head(op.calls), NEW class,
           Sent(c), Room(c), React(c, class), Outcome(c, class)
    PROVE  Copied'
<1>1. /\ Types /\ UNCHANGED <<kind, faults>> /\ stack.id = None /\ None \notin Live'
      /\ op.news \in FieldsOf(kind) /\ Args = ArgsOf(kind)
  BY ReactIs, KindIs, StackAssumption DEF Shape, Creating, Types, Live
<1>2. CASE stack' = stack
  BY <1>1, <1>2, CopiedThen
<1>3. CASE Fail(class)
  BY <1>2, <1>3 DEF Fail
<1>4. CASE Rest(c) = <<>> /\ Commit(ObjectOf(c), class) /\ class \in {"ok", "blank"}
  <2> DEFINE id == ObjectOf(c)
             r == After(c).fields
             reply == Reply(id, class)
             s == Learn(Kept(kind, op.news), Resource[kind].created, reply)
  <2>1. stack' = [id |-> id, state |-> s] /\ op' = Idle
    BY <1>4 DEF Commit
  <2>2. stack'.id = id /\ stack'.state = s /\ op'.do = "idle"
    BY <2>1 DEF Idle
  <2>3. CASE Straight
    <3>1. class = "ok" /\ remote' = Effect(c) /\ (c.name = "post" \/ Found)
      BY <1>4, <2>3 DEF Outcome, Straight
    <3>2. id \in Objects /\ After(c) \in ObjectOfKind(kind) /\ remote'[id] = After(c)
      BY <1>1, <3>1, EffectIs
    <3>3. r \in FieldsOf(kind)
      BY <3>2 DEF ObjectOfKind
    <3>4. reply \in FieldsOf(kind) /\ \A f \in ArgsOf(kind) : reply[f] = IF f \in Calls.reply THEN r[f] ELSE {}
      <4>1. remote' \in [Objects -> ObjectOfKind(kind)]
        BY <1>1 DEF Types
      <4> QED  BY <1>1, <3>1, <3>2, <4>1, ReplyIs
    <3>5. /\ \A f \in Args : ~(kind = "Instance" /\ f = "tags") => r[f] = Made(Post(kind, op.news)).fields[f]
          /\ kind = "Instance" => r["tags"] = op.news["tags"]
      <4>1. Tail(op.calls) = <<>>
        BY <1>4, RestIs
      <4>2. Left(<<>>) = {}
        BY DEF Left
      <4> QED  BY <3>1, <4>1, <4>2, ServedMaking
    <3> HIDE DEF r, reply
    <3>6. ASSUME NEW f \in Tracked PROVE Mirrors(f, r, s)
      <4>1. f \in ComparedOf(kind) /\ f \in ArgsOf(kind)
        BY <1>1, RulesAre
      <4>2. r[f] = IF kind = "Instance" /\ f = "tags" THEN op.news[f] ELSE Made(Post(kind, op.news)).fields[f]
        BY <1>1, <3>5, <4>1
      <4> QED  BY <1>1, <2>3, <3>3, <3>4, <4>1, <4>2, CreatedField
    <3>7. Mirroring(r, s)
      BY <3>6 DEF Mirroring
    <3> HIDE DEF s
    <3> QED  BY <1>1, <2>2, <3>2, <3>7, CopiedThen DEF r
  <2> QED  BY <1>1, <2>3, CopiedThen
<1> QED  BY <1>2, <1>3, <1>4, ReactIs, AdvanceIs, <1>1, RestIs DEF Sent

(* A call of a delete: the object is gone, or as it was. *)
LEMMA DeleteCopied ==
    ASSUME Shape, Copied, op.do \in {"replace", "destroy"}, NEW c, c = Head(op.calls), NEW class,
           Sent(c), Room(c), React(c, class), Outcome(c, class)
    PROVE  Copied'
<1>1. Types /\ UNCHANGED <<kind, faults>> /\ None \notin Live' /\ c.name = "delete"
  BY ReactIs, StackAssumption DEF Shape, Live, Sent
<1>2. CASE stack'.id = None
  BY <1>1, <1>2, CopiedThen
<1>3. CASE Commit(ObjectOf(c), class)
  <2>1. stack' = NoStack
    BY <1>3 DEF Commit
  <2> QED  BY <1>2, <2>1 DEF NoStack
<1>4. CASE class \notin {"ok", "blank"} /\ op'.do \in {"idle", "replace", "destroy"} /\ stack' = stack
  <2>1. CASE Straight
    <3>1. remote' = remote
      BY <1>4, <2>1 DEF Outcome, Straight
    <3> QED  BY <1>1, <1>4, <3>1, StillMirrored
  <2> QED  BY <1>1, <2>1, CopiedThen
<1>5. CASE Fail(class) /\ class \notin {"ok", "blank"}
  BY <1>4, <1>5 DEF Fail, Idle
<1>6. CASE class = "unavailable" /\ op' = [op EXCEPT !.attempt = @ + 1] /\ stack' = stack
  <2>1. op'.do = op.do
    BY <1>1, <1>6 DEF Types
  <2> QED  BY <1>4, <1>6, <2>1
<1>7. CASE Advance(c, class)
  <2>1. Rest(c) = <<>>
    BY RestIs
  <2> QED  BY <1>3, <1>7, <2>1, AdvanceIs
<1> QED  BY <1>5, <1>6, <1>7, ReactIs

(* A read that is answered. *)
LEMMA ReadCopied ==
    ASSUME Shape, Types', op.do \in {"refresh", "import"}, NEW c, c = Head(op.calls), NEW class,
           Sent(c), Room(c), React(c, class), Outcome(c, class), Advance(c, class),
           class \in {"ok", "blank"},
           class = "ok" => Mirroring(remote[stack.id].fields, stack.state)
    PROVE  Copied'
<1>1. /\ Types /\ UNCHANGED <<kind, faults>> /\ c.name = "get" /\ remote' = remote
      /\ ObjectOf(c) = stack.id /\ stack.state \in FieldsOf(kind)
  BY ReactIs, GetIs DEF Shape, Sent, Outcome, ObjectOf, Addressed, Types
<1>2. Commit(stack.id, class)
  BY <1>1, RestIs, AdvanceIs DEF Sent
<1> DEFINE r == remote[stack.id].fields
           reply == Reply(stack.id, class)
           s == Learn(stack.state, Resource[kind].read, reply)
<1>3. stack' = [id |-> IF class = "ok" THEN stack.id ELSE Blank, state |-> s] /\ op' = Idle
  BY <1>2 DEF Commit
<1>4. stack'.state = s /\ op'.do = "idle" /\ (class = "ok" => stack'.id = stack.id)
  BY <1>3 DEF Idle
<1>5. CASE Straight
  <2>1. class = "ok" /\ Found
    BY <1>1, <1>5 DEF Outcome, Straight
  <2>2. stack.id \in Objects /\ r \in FieldsOf(kind)
    BY <1>1, <2>1 DEF Found, Types, ObjectOfKind, ObjectOf
  <2>3. reply \in FieldsOf(kind) /\ \A f \in ArgsOf(kind) : reply[f] = IF f \in Calls.reply THEN r[f] ELSE {}
    <3>1. remote' \in [Objects -> ObjectOfKind(kind)]
      BY <1>1 DEF Types
    <3> QED  BY <1>1, <2>1, <2>2, <3>1, ReplyIs
  <2> HIDE DEF r, reply
  <2>4. ASSUME NEW f \in Tracked PROVE Mirrors(f, r, s)
    <3>1. f \in ComparedOf(kind) /\ f \in ArgsOf(kind)
      BY <1>1, RulesAre
    <3>2. Mirrors(f, r, stack.state)
      BY <2>1, <2>4 DEF Mirroring, r
    <3> QED  BY <1>1, <2>2, <2>3, <3>1, <3>2, ReadField
  <2>5. Mirroring(r, s)
    BY <2>4 DEF Mirroring
  <2> HIDE DEF s
  <2> QED  BY <1>1, <1>4, <2>1, <2>5, CopiedThen DEF r
<1>6. CASE ~Straight
  BY <1>1, <1>6, CopiedThen
<1> QED  BY <1>5, <1>6

(* A read of a refresh. *)
LEMMA RefreshCopied ==
    ASSUME Shape, Types', Copied, op.do = "refresh", NEW c, c = Head(op.calls), NEW class,
           Sent(c), Room(c), React(c, class), Outcome(c, class)
    PROVE  Copied'
<1>1. /\ Types /\ UNCHANGED <<kind, faults>> /\ c.name = "get" /\ remote' = remote
      /\ None \notin Live' /\ Addressed = stack.id
  BY ReactIs, GetIs, StackAssumption DEF Shape, Sent, Outcome, Live, Addressed
<1>2. CASE Advance(c, class) /\ class \in {"ok", "blank"}
  <2>1. CASE Straight /\ Smooth
    <3>1. class = "ok" => stack.id \in Live
      BY <1>1, LiveIs DEF Outcome, Found
    <3>2. class = "ok" => Mirroring(remote[stack.id].fields, stack.state)
      BY <2>1, <3>1 DEF Copied
    <3> QED  BY <1>2, <3>2, ReadCopied
  <2> QED  BY <1>1, <2>1, CopiedThen
<1>3. CASE Fail(class)
  <2>1. (stack' = stack /\ op'.do = "idle") \/ stack' = NoStack
    BY <1>3 DEF Fail, Idle
  <2>2. CASE stack' = NoStack
    BY <1>1, <2>2, CopiedThen DEF NoStack
  <2> QED  BY <1>1, <2>1, <2>2, StillMirrored
<1>4. CASE op' = [op EXCEPT !.attempt = @ + 1] /\ stack' = stack
  <2>1. op'.do = op.do
    BY <1>1, <1>4 DEF Types
  <2> QED  BY <1>1, <1>4, <2>1, StillMirrored
<1> QED  BY <1>1, <1>2, <1>3, <1>4, ReactIs

(* A read of an import. *)
LEMMA ImportCopied ==
    ASSUME Shape, Types', Importing, op.do = "import", NEW c, c = Head(op.calls), NEW class,
           Sent(c), Room(c), React(c, class), Outcome(c, class)
    PROVE  Copied'
<1>1. /\ Types /\ UNCHANGED <<kind, faults>> /\ c.name = "get" /\ None \notin Live' /\ Args = ArgsOf(kind)
  BY ReactIs, KindIs, StackAssumption DEF Shape, Sent, Live
<1>2. CASE Advance(c, class) /\ class \in {"ok", "blank"}
  <2>1. ASSUME class = "ok", NEW f \in Tracked
        PROVE  Mirrors(f, remote[stack.id].fields, stack.state)
    <3>1. Found
      BY <1>1, <2>1 DEF Outcome
    <3>2. \A g \in Scope : remote[stack.id].fields[g] = stack.state[g]
      BY <3>1 DEF Found, Addressed, Target
    <3>3. "import" \in faults /\ \A g \in Args \ Scope : stack.state[g] = {}
      BY DEF Importing
    <3>4. f \in Args
      BY <1>1, RulesAre
    <3>5. CASE f \in Scope
      BY <3>2, <3>5 DEF Mirrors, Alike
    <3>6. CASE f \notin Scope
      <4>1. kind = "Instance" => "image" \in Args \ Scope
        BY <1>1, KindIs DEF Row, ArgsOf, Scope
      <4>2. ~Whole(stack.state)
        BY <3>3, <4>1 DEF Whole
      <4> QED  BY <3>3, <3>4, <3>6, <4>2 DEF Mirrors
    <3> QED  BY <3>5, <3>6
  <2>2. class = "ok" => Mirroring(remote[stack.id].fields, stack.state)
    BY <2>1 DEF Mirroring
  <2> QED  BY <1>2, <2>2, ReadCopied
<1>3. CASE Fail(class)
  <2>1. stack' = NoStack
    BY <1>3 DEF Fail
  <2> QED  BY <1>1, <2>1, CopiedThen DEF NoStack
<1>4. CASE op' = [op EXCEPT !.attempt = @ + 1] /\ stack' = stack
  <2>1. op'.do = op.do
    BY <1>1, <1>4 DEF Types
  <2> QED  BY <1>1, <2>1, CopiedThen
<1> QED  BY <1>1, <1>2, <1>3, <1>4, ReactIs

(* The update of another kind than a server: one request. *)
LEMMA UpdateCopied ==
    ASSUME Shape, Types', Copied, Lone, op.do = "update", kind # "Instance", NEW c, c = Head(op.calls),
           NEW class, Sent(c), Room(c), React(c, class), Outcome(c, class)
    PROVE  Copied'
<1>1. /\ Types /\ UNCHANGED <<kind, faults>> /\ c.name = "put" /\ Addressed = stack.id /\ ObjectOf(c) = stack.id
      /\ c.body = Put(kind, stack.state, op.news) /\ Rest(c) = <<>>
      /\ stack.state \in FieldsOf(kind) /\ op.news \in FieldsOf(kind)
      /\ replaceDiff(kind, stack.state, op.news) = {}
  <2>1. c.name = "put" /\ c.body = Put(kind, stack.state, op.news)
    BY DEF Sent, Updating
  <2>2. Tail(op.calls) = <<>> /\ op.calls # <<>>
    BY DEF Lone, Shape, Resting
  <2>3. Rest(c) = <<>>
    BY <2>1, <2>2 DEF Rest
  <2> QED  BY <2>1, <2>3, ReactIs DEF Shape, Types, Renewing, ObjectOf, Addressed
<1>2. CASE stack' = stack /\ op'.do \in {"idle", "update"} /\ class \notin {"ok", "blank"}
  <2>1. CASE Straight
    <3>1. remote' = remote
      BY <1>2, <2>1 DEF Outcome, Straight
    <3> QED  BY <1>1, <1>2, <3>1, StillMirrored
  <2> QED  BY <1>1, <2>1, CopiedThen
<1>3. CASE Fail(class) /\ class \notin {"ok", "blank"}
  BY <1>2, <1>3 DEF Fail, Idle
<1>4. CASE class = "unavailable" /\ op' = [op EXCEPT !.attempt = @ + 1] /\ stack' = stack
  <2>1. op'.do = op.do
    BY <1>1, <1>4 DEF Types
  <2> QED  BY <1>2, <1>4, <2>1
<1>5. CASE class \in {"ok", "blank"} /\ Commit(stack.id, class)
  <2> DEFINE r0 == remote[stack.id].fields
             r1 == After(c).fields
             body == Put(kind, stack.state, op.news)
             reply == Reply(stack.id, class)
             u == Resource[kind].updated
             s == Learn(Renewed(kind, op.news), u, reply)
  <2>1. stack' = [stack EXCEPT !.state = s] /\ op' = Idle
    BY <1>5 DEF Commit
  <2>2. stack'.id = stack.id /\ stack'.state = s /\ op'.do = "idle"
    BY <1>1, <2>1 DEF Idle, Types
  <2>3. CASE Straight /\ Smooth
    <3>1. class = "ok" /\ remote' = Effect(c) /\ Found
      BY <1>1, <1>5, <2>3 DEF Outcome, Straight
    <3>2. stack.id \in Objects /\ stack.id \in Live /\ After(c) \in ObjectOfKind(kind) /\ remote'[stack.id] = After(c)
      BY <1>1, <3>1, EffectIs, LiveIs DEF Found
    <3>3. r0 \in FieldsOf(kind) /\ r1 \in FieldsOf(kind)
      BY <1>1, <3>2 DEF ObjectOfKind, Types
    <3>4. reply \in FieldsOf(kind) /\ \A f \in ArgsOf(kind) : reply[f] = IF f \in Calls.reply THEN r1[f] ELSE {}
      <4>1. remote' \in [Objects -> ObjectOfKind(kind)]
        BY <1>1 DEF Types
      <4> QED  BY <1>1, <3>1, <3>2, <4>1, ReplyIs
    <3>5. \A f \in ArgsOf(kind) : r1[f] = IF f \in DOMAIN body THEN body[f] ELSE r0[f]
      BY <1>1, <3>1, AfterField
    <3>6. Mirroring(r0, stack.state)
      BY <1>1, <2>3, <3>2 DEF Copied
    <3>7. Renewed(kind, op.news) \in FieldsOf(kind) /\ kind \in Kinded /\ u.take \cap u.fill = {} /\ Told(kind)
      <4>1. kind \in Kinded /\ Row(kind) /\ Told(kind)
        BY <1>1, RulesAre
      <4> QED  BY <1>1, <4>1, RenewedIs DEF Row
    <3> HIDE DEF r0, r1, body, reply, u
    <3>8. s \in FieldsOf(kind)
      BY <3>4, <3>7, LearnIs DEF FieldsOf
    <3>9. ASSUME NEW f \in Tracked PROVE Mirrors(f, r1, s)
      <4>1. f \in ComparedOf(kind) /\ f \in ArgsOf(kind)
        BY <1>1, RulesAre
      <4>2. s[f] = IF f \in u.take THEN reply[f]
                   ELSE IF f \in u.fill
                     THEN (IF Renewed(kind, op.news)[f] # {} THEN Renewed(kind, op.news)[f] ELSE reply[f])
                   ELSE Renewed(kind, op.news)[f]
        BY <3>4, <3>7, <4>1, LearnField
      <4>3. f \in u.take => f \in Calls.reply
        BY <3>7, <4>1 DEF Told, Calls, u
      <4>4. \/ s[f] = Renewed(kind, op.news)[f]
            \/ f \in u.take /\ s[f] = r1[f]
            \/ f \in u.fill /\ Renewed(kind, op.news)[f] = {} /\ s[f] = r1[f]
        BY <3>4, <4>1, <4>2, <4>3
      <4>5. Mirrors(f, r0, stack.state)
        BY <3>6, <3>9 DEF Mirroring
      <4>6. r1[f] = IF f \in DOMAIN body THEN body[f] ELSE r0[f]
        BY <3>5, <4>1
      <4> HIDE DEF s
      <4> QED  BY <1>1, <3>3, <3>8, <4>1, <4>4, <4>5, <4>6, UpdatedField DEF body, u
    <3>10. Mirroring(r1, s)
      BY <3>9 DEF Mirroring
    <3> HIDE DEF s
    <3> QED  BY <1>1, <2>2, <3>2, <3>10, CopiedThen DEF r1
  <2> QED  BY <1>1, <2>3, CopiedThen
<1>6. CASE Advance(c, class)
  <2>1. Commit(stack.id, class)
    BY <1>1, <1>6, AdvanceIs
  <2> QED  BY <1>1, <1>5, <2>1, ReactIs, <1>3, <1>4
<1> QED  BY <1>1, <1>3, <1>4, <1>6, ReactIs

(* A request of an update of a server, which is found: it is carried out. *)
LEMMA ServerAnswered ==
    ASSUME Shape, Straight, Smooth, Confirming, op.do = "update", kind = "Instance", Found,
           Advancing(remote[stack.id], stack.state, op.calls, op.news),
           NEW c, c = Head(op.calls), NEW class, Sent(c), Outcome(c, class)
    PROVE  class = "ok" /\ remote' = Effect(c)
<1>1. /\ Types /\ Addressed = stack.id /\ stack.id \in Objects /\ remote[stack.id].status # "none"
      /\ op.calls \in Seq(CallsOf(kind)) /\ op.calls # <<>>
  BY DEF Shape, Types, Resting, Addressed, Found
<1>2. faults \cap {"refuse", "wait", "lost", "blank"} = {}
  BY DEF Straight, Smooth
<1>3. c.name \in {"resized", "verify", "confirm", "wait", "get", "rename", "resize", "remove", "attach", "tags"}
      /\ c.name # "post"
  BY DEF Sent, Updating
<1>4. c \in Left(op.calls)
  BY <1>1, LeftTail
<1>5. ~Redone(c)
  <2>1. CASE c.name = "resize" /\ "strict" \in faults
    <3>1. Prompt
      BY <1>2, <2>1 DEF Prompt, Smooth
    <3>2. remote[stack.id].status = "ready"
      BY <1>1, <2>1, <3>1 DEF Confirming, Awaiting
    <3> QED  BY <1>1, <2>1, <3>2 DEF Redone
  <2>2. CASE c.name = "remove"
    <3>1. \A g \in c.body["securityGroups"] : g \in remote[stack.id].fields["securityGroups"]
      BY <1>4, <2>2 DEF Advancing, Along, Owes
    <3> QED  BY <1>1, <2>2, <3>1 DEF Redone
  <2> QED  BY <1>3, <2>1, <2>2 DEF Redone
<1>6. c.name \in Waited => WaitInstanceStatus(c.name)
  <2>1. CASE c.name = "wait"
    <3>1. remote[stack.id].status = "ready"
      BY <2>1 DEF Advancing
    <3> QED  BY <1>1, <3>1 DEF WaitInstanceStatus, Shown
  <2> QED  BY <2>1 DEF WaitInstanceStatus, Waited
<1> QED  BY <1>2, <1>5, <1>6 DEF Outcome

(* A call of the update of a server: one step along, or the new state. *)
LEMMA ServerCopied ==
    ASSUME Shape, Types', Copied, Confirming, Grouped, op.do = "update", kind = "Instance",
           NEW c, c = Head(op.calls), NEW class, Sent(c), Room(c), React(c, class), Outcome(c, class)
    PROVE  Copied'
<1>1. /\ Types /\ UNCHANGED <<kind, faults>> /\ Addressed = stack.id /\ ObjectOf(c) = stack.id
      /\ stack.state \in FieldsOf(kind) /\ op.news \in FieldsOf(kind)
      /\ replaceDiff(kind, stack.state, op.news) = {} /\ c.name \notin {"post", "delete"}
  BY ReactIs DEF Shape, Types, Renewing, ObjectOf, Addressed, Sent, Updating
<1>2. CASE ~(Straight /\ Smooth)
  BY <1>1, <1>2, CopiedThen
<1>3. CASE Straight /\ Smooth /\ ~Found
  <2>1. remote' = remote /\ class \notin {"ok", "blank", "unavailable"}
    BY <1>1, <1>3 DEF Outcome, Straight, Smooth
  <2>2. Fail(class)
    BY <1>1, <2>1, ReactIs
  <2>3. stack' = stack /\ op'.do = "idle"
    BY <2>2 DEF Fail, Idle
  <2>4. CASE stack.id \in Live
    <3>1. ~SameScope(remote[stack.id].fields, op.news)
      BY <1>1, <1>3, <2>4, LiveIs DEF Found, SameScope, Target
    <3> QED  BY <1>1, <2>1, <2>3, <3>1, StillMirrored
  <2>5. CASE stack.id \notin Live
    <3>1. stack'.id \notin Live'
      BY <2>1, <2>3, <2>5, LiveIs
    <3> QED  BY <1>1, <3>1, CopiedThen
  <2> QED  BY <2>4, <2>5
<1>4. CASE Straight /\ Smooth /\ Found
  <2> DEFINE x == remote[stack.id]
             r == remote[stack.id].fields
             now == After(c).fields
  <2>1. stack.id \in Objects /\ stack.id \in Live /\ SameScope(r, op.news)
    BY <1>1, <1>4, LiveIs DEF Found, SameScope, Target
  <2>2. Advancing(x, stack.state, op.calls, op.news)
    BY <1>4, <2>1 DEF Copied
  <2>3. class = "ok" /\ remote' = Effect(c)
    BY <1>4, <2>2, ServerAnswered
  <2>4. After(c) \in ObjectOfKind(kind) /\ remote'[stack.id] = After(c) /\ SameScope(now, op.news)
    <3>1. After(c) \in ObjectOfKind(kind) /\ remote'[stack.id] = After(c)
      BY <1>1, <1>4, <2>3, EffectIs
    <3>2. SameScope(now, r)
      BY <1>1, <1>4, TouchIs
    <3> QED  BY <2>1, <3>1, <3>2 DEF SameScope
  <2>5. now \in FieldsOf(kind) /\ r \in FieldsOf(kind)
    BY <1>1, <2>1, <2>4 DEF ObjectOfKind, Types
  <2>6. Along(now, Rest(c), op.news)
    BY <1>4, <2>2, StepAlong DEF Advancing
  <2>7. \A f \in Tracked \ Touched : now[f] = r[f] /\ Mirrors(f, r, stack.state)
    <3>1. \A f \in Tracked \ Touched : f \in DOMAIN Resource[kind].diff.replace
      BY <1>1, TouchedIs, RulesAre
    <3> QED  BY <1>1, <1>4, <2>2, <3>1, TouchFirm DEF Advancing
  <2> HIDE DEF now
  <2>8. CASE Rest(c) = <<>> /\ Commit(stack.id, class)
    <3> DEFINE s == Learn(Renewed(kind, op.news), Resource[kind].updated, Reply(stack.id, class))
    <3>1. stack' = [stack EXCEPT !.state = s] /\ op' = Idle
      BY <1>1, <2>8 DEF Commit
    <3>2. stack'.id = stack.id /\ stack'.state = s /\ op'.do = "idle"
      BY <1>1, <3>1 DEF Idle, Types
    <3>3. \A f \in Tracked : s[f] = Renewed(kind, op.news)[f] /\ Whole(s) = Whole(Renewed(kind, op.news))
      <4>1. /\ kind \in Kinded /\ Told(kind) /\ ComparedOf(kind) \subseteq ArgsOf(kind)
            /\ Tracked \subseteq ComparedOf(kind) /\ "image" \in ComparedOf(kind)
        BY <1>1, RulesAre DEF Told
      <4>2. Resource[kind].updated.take = {} /\ Resource[kind].updated.fill = {}
        BY <4>1 DEF Told
      <4>3. Renewed(kind, op.news) \in FieldsOf(kind) /\ Reply(stack.id, class) \in FieldsOf(kind)
        <5>1. remote' \in [Objects -> ObjectOfKind(kind)]
          BY <1>1 DEF Types
        <5> QED  BY <1>1, <2>1, <4>1, <5>1, RenewedIs, ReplyIs
      <4>4. \A f \in ArgsOf(kind) : s[f] = Renewed(kind, op.news)[f]
        BY <4>2, <4>3, LearnField
      <4> HIDE DEF s
      <4> QED  BY <4>1, <4>4 DEF Whole
    <3>4. ASSUME NEW f \in Tracked PROVE Mirrors(f, now, s)
      <4>1. Mirrors(f, now, Renewed(kind, op.news))
        BY <1>1, <2>2, <2>5, <2>6, <2>7, <2>8, EndAlong DEF Advancing
      <4> HIDE DEF s
      <4> QED  BY <3>3, <4>1 DEF Mirrors
    <3>5. Mirroring(now, s)
      BY <3>4 DEF Mirroring
    <3> HIDE DEF s
    <3> QED  BY <1>1, <2>4, <3>2, <3>5, CopiedThen DEF now
  <2>9. CASE /\ Rest(c) # <<>>
             /\ op' = [op EXCEPT !.calls = Rest(c), !.attempt = 1,
                                 !.made = IF op.do = "create" THEN ObjectOf(c) ELSE None]
             /\ stack' = stack
    <3>1. op'.do = "update" /\ op'.calls = Rest(c) /\ op'.news = op.news
      BY <1>1, <2>9 DEF Types
    <3>2. Head(Rest(c)).name = "wait" => After(c).status = "ready"
      <4>1. Head(Rest(c)).name = "wait" => c.name = "confirm"
        BY <2>9, RestLeft
      <4> QED  BY <4>1 DEF After
    <3>3. \A f \in Tracked \ Touched : Mirrors(f, now, stack.state)
      BY <2>7 DEF Mirrors
    <3>4. Advancing(After(c), stack.state, Rest(c), op.news)
      BY <2>2, <2>6, <3>2, <3>3 DEF Advancing, now
    <3> QED  BY <1>1, <2>4, <2>9, <3>1, <3>4, CopiedThen DEF now
  <2>10. Advance(c, class)
    BY <2>3, ReactIs
  <2> QED  BY <1>1, <2>8, <2>9, <2>10, AdvanceIs
<1> QED  BY <1>2, <1>3, <1>4

(* An up starts a create, a delete or an update; the latter from a state *)
(* that the object is as.                                                *)
LEMMA UpCopied ==
    ASSUME Shape, Types', Copied, BareIds, Up
    PROVE  Copied'
<1> DEFINE news == checkResourceArgs(program)
           olds == stack.state
<1>1. /\ Types /\ UNCHANGED <<kind, faults, remote>> /\ op.do = "idle" /\ olds \in FieldsOf(kind)
      /\ news \in FieldsOf(kind) /\ stack'.id = stack.id
  <2>1. Types /\ UNCHANGED <<kind, faults, remote>> /\ op.do = "idle" /\ olds \in FieldsOf(kind)
    BY DEF Shape, Up, Types
  <2>2. news \in FieldsOf(kind)
    BY <2>1, CheckedIs, KindIs DEF Types, Row, FieldsOf, ArgsOf
  <2>3. stack'.id = stack.id
    BY <2>1 DEF Up, Types
  <2> QED  BY <2>1, <2>2, <2>3
<1>2. CASE ~(Straight /\ Smooth /\ stack.id \in Live)
  <2>1. stack'.id \in Live' => stack.id \in Live
    BY <1>1, LiveIs
  <2> QED  BY <1>1, <1>2, <2>1, CopiedThen
<1>3. CASE Straight /\ Smooth /\ stack.id \in Live
  <2> DEFINE r == remote[stack.id].fields
  <2>1. Mirroring(r, olds) /\ stack.id \in Objects /\ stack.id # None /\ r \in FieldsOf(kind)
    <3>1. stack.id \in Objects
      BY <1>3, LiveIs
    <3> QED  BY <1>1, <1>3, <3>1, StackAssumption DEF Copied, Types, ObjectOfKind
  <2>2. CASE stack' = stack /\ op'.do # "update"
    BY <1>1, <2>1, <2>2, CopiedThen
  <2>3. CASE /\ replaceDiff(kind, olds, news) = {} /\ Update(olds, news) = <<>>
             /\ stack' = [stack EXCEPT !.state = Renewed(kind, news)] /\ op' = op
    <3> DEFINE s == Renewed(kind, news)
               body == Put(kind, olds, news)
    <3>1. stack'.state = s /\ op'.do = "idle"
      BY <1>1, <2>3 DEF Types
    <3>2. kind # "Instance" /\ DOMAIN body = {}
      <4>1. kind # "Instance"
        BY <1>1, <2>3, InstanceUpdateIs DEF Update
      <4> QED  BY <2>3, <4>1 DEF Update, One
    <3>3. s \in FieldsOf(kind)
      BY <1>1, KindIs, RenewedIs
    <3>4. ASSUME NEW f \in Tracked PROVE Mirrors(f, r, s)
      <4>1. f \in ComparedOf(kind) /\ Mirrors(f, r, olds)
        BY <1>1, <2>1, RulesAre DEF Mirroring
      <4>2. r[f] = IF f \in DOMAIN body THEN body[f] ELSE r[f]
        BY <3>2
      <4>3. s[f] = Renewed(kind, news)[f]
        OBVIOUS
      <4> HIDE DEF s, r, news, olds
      <4> QED  BY <1>1, <2>1, <2>3, <3>2, <3>3, <4>1, <4>2, <4>3, UpdatedField DEF body
    <3>5. Mirroring(r, s)
      BY <3>4 DEF Mirroring
    <3> HIDE DEF s
    <3> QED  BY <1>1, <3>1, <3>5, CopiedThen
  <2>4. CASE /\ replaceDiff(kind, olds, news) = {} /\ Check(kind, program)
             /\ op'.do = "update" /\ op'.calls = Update(olds, news) /\ op'.news = news /\ stack' = stack
    <3>1. CASE ~(kind = "Instance" /\ SameScope(r, news))
      BY <1>1, <2>1, <2>4, <3>1, CopiedThen
    <3>2. CASE kind = "Instance" /\ SameScope(r, news)
      <4> DEFINE w == InstanceUpdate(olds, news)
      <4>1. op'.calls = w
        BY <2>4, <3>2 DEF Update
      <4>2. Whole(olds)
        <5>1. /\ Told(kind) /\ "image" \in ComparedOf(kind) /\ "image" \in Resource[kind].required
              /\ "image" \in DOMAIN Resource[kind].diff.replace
          BY <1>1, <3>2, RulesAre, TouchedIs DEF Told, Touched
        <5>2. news["image"] # {}
          BY <2>4, <5>1 DEF Check
        <5>3. ~Changed(RuleOf(kind, "image"), olds["image"], news["image"])
          BY <2>4, <5>1, NoReplace DEF RuleOf
        <5>4. olds["image"] # {}
          BY <5>1, <5>2, <5>3, SameAlike
        <5> QED  BY <3>2, <5>4 DEF Whole
      <4>3. Bare(r["securityGroups"])
        BY <1>1, <2>1, <3>2, TouchedIs DEF BareIds
      <4>4. Along(r, w, news)
        <5>1. \A f \in Tracked : Mirrors(f, r, olds)
          BY <2>1 DEF Mirroring
        <5> HIDE DEF r, olds, news
        <5> QED  BY <1>1, <2>1, <3>2, <4>2, <4>3, <5>1, StartAlong
      <4>5. Head(w).name # "wait"
        <5> HIDE DEF news, olds, w
        <5>1. w \in Seq(Updating(kind, olds, news)) /\ w # <<>>
          BY <1>1, <3>2, InstanceUpdateIs DEF w
        <5>2. Head(w) \in Left(w)
          BY <5>1, LeftTail
        <5> QED  BY <1>1, <3>2, <5>2, StartGrouped DEF w
      <4> HIDE DEF w, news, olds
      <4>6. Advancing(remote[stack.id], olds, w, news)
        BY <2>1, <4>2, <4>4, <4>5 DEF Advancing, Mirroring
      <4> QED  BY <1>1, <2>4, <3>2, <4>1, <4>6, CopiedThen DEF olds
    <3> QED  BY <3>1, <3>2
  <2> QED
    <3>1. \/ stack' = stack /\ op'.do # "update"
          \/ /\ replaceDiff(kind, olds, news) = {} /\ Update(olds, news) = <<>>
             /\ stack' = [stack EXCEPT !.state = Renewed(kind, news)] /\ op' = op
          \/ /\ replaceDiff(kind, olds, news) = {} /\ Check(kind, program)
             /\ op'.do = "update" /\ op'.calls = Update(olds, news) /\ op'.news = news /\ stack' = stack
      BY <1>1 DEF Up, Start
    <3> QED  BY <2>2, <2>3, <2>4, <3>1
<1> QED  BY <1>2, <1>3

(* No step breaks Copied. *)
LEMMA NextCopied ==
    Shape /\ Confirming /\ Grouped /\ BareIds /\ Making /\ Importing /\ Lone /\ Copied /\ [Next]_vars => Copied'
<1> SUFFICES ASSUME Shape, Confirming, Grouped, BareIds, Making, Importing, Lone, Copied, [Next]_vars
             PROVE  Copied'
  OBVIOUS
<1>1. Types /\ Types' /\ UNCHANGED <<kind, faults>>
  BY KindKept, NextShape DEF Shape
<1>2. CASE Serve
  <2> DEFINE c == Head(op.calls)
  <2>1. PICK class : Sent(c) /\ Room(c) /\ React(c, class) /\ Outcome(c, class)
    BY <1>2, ServeIs
  <2>2. op.do \in {"create", "update", "replace", "destroy", "refresh", "import"}
    BY <1>1, <2>1 DEF Types, Dos, Sent
  <2> QED  BY <1>1, <2>1, <2>2, CreateCopied, ServerCopied, UpdateCopied, DeleteCopied, RefreshCopied, ImportCopied
<1>3. CASE Up
  BY <1>1, <1>3, UpCopied
<1>4. CASE UNCHANGED <<op, stack>> /\ ~Serve
  <2>1. stack.id \in Live' => /\ stack.id \in Live /\ remote'[stack.id].fields = remote[stack.id].fields
                              /\ remote[stack.id].status = "ready" => remote'[stack.id].status = "ready"
    BY <1>4, LiveStep
  <2> QED  BY <1>1, <1>4, <2>1, StillCopied
<1>5. CASE Refresh \/ Destroy
  <2>1. op.do = "idle" /\ UNCHANGED <<stack, remote>> /\ op'.do # "update"
    BY <1>5 DEF Refresh, Destroy, Start
  <2> QED  BY <1>1, <2>1, StillMirrored
<1>6. CASE Import
  <2>1. op'.do = "import"
    BY <1>6 DEF Import, Start
  <2> QED  BY <1>1, <2>1, CopiedThen
<1> QED  BY <1>2, <1>3, <1>4, <1>5, <1>6 DEF Next, vars, UpRefused, Edit, Vanish, Resized

(* There is no object of the stack at the start. *)
LEMMA InitCopied == Init => Copied
<1> SUFFICES ASSUME Init PROVE stack.id \notin Live
  BY DEF Copied
<1> QED  BY StackAssumption DEF Init, NoStack, Live

-----------------------------------------------------------------------------
(* After an up that succeeded the state does not differ from the program: in *)
(* every field, as long as the program drops nothing; afterwards in those    *)
(* that it gives and those that an up clears.                                *)
Counted(f) ==
    \/ "clear" \notin faults
    \/ /\ checkResourceArgs(program)[f] # {} \/ f \in Cleared
       /\ "import" \notin faults /\ Smooth

Settles ==
    upToDate /\ Straight =>
       \A f \in ComparedOf(kind) :
          Counted(f) => ~Changed(RuleOf(kind, f), stack.state[f], checkResourceArgs(program)[f])

(* To show Settles after a step that leaves the program alone. *)
LEMMA SettlesThen ==
    ASSUME UNCHANGED <<kind, faults, program>>,
           upToDate' /\ Straight => \A f \in ComparedOf(kind) : Counted(f) =>
              ~Changed(RuleOf(kind, f), stack'.state[f], checkResourceArgs(program)[f])
    PROVE  Settles'
<1>1. Straight' = Straight /\ Smooth' = Smooth
  BY DEF Straight, Smooth
<1>2. Cleared' = Cleared
  <2>1. Rules' = Rules
    BY DEF Rules
  <2> QED  BY <2>1 DEF Cleared
<1>3. checkResourceArgs(program)' = checkResourceArgs(program)
  BY DEF checkResourceArgs
<1>4. \A f : Counted(f)' = Counted(f)
  BY <1>1, <1>2, <1>3 DEF Counted
<1> QED  BY <1>1, <1>3, <1>4 DEF Settles

(* When Diff finds nothing, no compared argument differs. *)
LEMMA NoDiff ==
    ASSUME Types, NEW olds, NEW news, diffResponse(kind, olds, news) = {}
    PROVE  /\ \A f \in ComparedOf(kind) : ~Changed(RuleOf(kind, f), olds[f], news[f])
           /\ \A f \in DOMAIN Resource[kind].diff.update :
                 Resource[kind].diff.update[f] = "alwaysList" => stringSlicesEqual(olds[f], news[f])
<1> DEFINE R == Resource[kind].diff.replace
           U == Resource[kind].diff.update
<1>1. /\ \A f \in DOMAIN R : ~Changed(R[f], olds[f], news[f])
      /\ \A f \in DOMAIN U : ~Changed(U[f], olds[f], news[f])
  BY DEF diffResponse, replaceDiff, updateDiff, ChangedOf
<1>2. \A old, new : ~Changed("alwaysList", old, new) <=> stringSlicesEqual(old, new)
  BY DEF Changed
<1>3. \A old, new : ~Changed("alwaysList", old, new) => ~Changed("alwaysId", old, new)
  BY <1>2, EqualBare DEF Changed
<1>4. /\ ComparedOf(kind) = (DOMAIN R \cup DOMAIN U) \ UnsentOf(kind)
      /\ \A f : RuleOf(kind, f) = IF f \in DOMAIN R THEN R[f]
                                  ELSE IF U[f] = "alwaysList" THEN "alwaysId" ELSE U[f]
  BY DEF ComparedOf, RuleOf, Unordered
<1> HIDE DEF R, U
<1>5. \A f \in ComparedOf(kind) : ~Changed(RuleOf(kind, f), olds[f], news[f])
  BY <1>1, <1>3, <1>4
<1>6. \A f \in DOMAIN U : U[f] = "alwaysList" => stringSlicesEqual(olds[f], news[f])
  BY <1>1, <1>2
<1> QED  BY <1>5, <1>6 DEF U

(* When no compared argument differs, Diff finds what is not sent, and lists. *)
LEMMA DiffOnly ==
    ASSUME Types, NEW olds, NEW news, NEW L,
           \A f \in ComparedOf(kind) : ~Changed(RuleOf(kind, f), olds[f], news[f]),
           \A f \in DOMAIN Resource[kind].diff.update :
              Resource[kind].diff.update[f] = "alwaysList" /\ f \notin Unsent
              => f \in L \/ stringSlicesEqual(olds[f], news[f])
    PROVE  diffResponse(kind, olds, news) \subseteq Unsent \cup L
<1> DEFINE R == Resource[kind].diff.replace
           U == Resource[kind].diff.update
<1>1. Told(kind)
  BY RulesAre
<1>2. \A f \in DOMAIN U : f \notin DOMAIN R
  BY <1>1 DEF Told
<1>3. Unsent = UnsentOf(kind)
  BY DEF Unsent, UnsentOf
<1>4. diffResponse(kind, olds, news) =
         {f \in DOMAIN R : Changed(R[f], olds[f], news[f])} \cup {f \in DOMAIN U : Changed(U[f], olds[f], news[f])}
  BY DEF diffResponse, replaceDiff, updateDiff, ChangedOf
<1>5. \A old, new : ~Changed("alwaysList", old, new) <=> stringSlicesEqual(old, new)
  BY DEF Changed
<1>6. /\ ComparedOf(kind) = (DOMAIN R \cup DOMAIN U) \ UnsentOf(kind)
      /\ \A f : RuleOf(kind, f) = IF f \in DOMAIN R THEN R[f]
                                  ELSE IF U[f] = "alwaysList" THEN "alwaysId" ELSE U[f]
  BY DEF ComparedOf, RuleOf, Unordered
<1>7. \A f \in DOMAIN U : U[f] = "alwaysList" /\ f \notin Unsent => f \in L \/ stringSlicesEqual(olds[f], news[f])
  OBVIOUS
<1> HIDE DEF R, U
<1> QED  BY <1>2, <1>3, <1>4, <1>5, <1>6, <1>7

(* A field that a program leaves blank, where a blank counts, is blank. *)
LEMMA StaysBlank ==
    ASSUME Types, NeverGiven, Straight, "clear" \notin faults, NEW f \in ComparedOf(kind),
           RuleOf(kind, f) \in AlwaysRules, checkResourceArgs(program)[f] = {}, NEW o \in Objects
    PROVE  remote[o].fields[f] = {}
<1>1. f \in Lasting
  BY DEF Lasting
<1>2. program[f] = {}
  BY <1>1, ChosenIs
<1>3. faults \cap {"clear", "defaults"} = {}
  BY DEF Straight
<1> QED  BY <1>1, <1>2, <1>3 DEF NeverGiven

(* A create that ends leaves no difference. *)
LEMMA CreateSettles ==
    ASSUME Shape, Types', Making, op.do = "create", NEW c, c = Head(op.calls), NEW class,
           Sent(c), Room(c), React(c, class), Outcome(c, class), class \in {"ok", "blank"},
           Rest(c) = <<>>, Commit(ObjectOf(c), class)
    PROVE  Settles'
<1> DEFINE id == ObjectOf(c)
           news == op.news
           r == After(c).fields
           reply == Reply(id, class)
           s == Learn(Kept(kind, news), Resource[kind].created, reply)
<1>1. /\ Types /\ UNCHANGED <<kind, faults, program>> /\ news \in FieldsOf(kind) /\ Args = ArgsOf(kind)
      /\ news = checkResourceArgs(program)
  BY ReactIs, KindIs DEF Shape, Types, Checked
<1>2. stack'.state = s
  BY DEF Commit
<1>3. CASE Straight
  <2>1. class = "ok" /\ remote' = Effect(c) /\ (c.name = "post" \/ Found)
    BY <1>3 DEF Outcome, Straight
  <2>2. id \in Objects /\ After(c) \in ObjectOfKind(kind) /\ remote'[id] = After(c)
    BY <1>1, <2>1, EffectIs
  <2>3. r \in FieldsOf(kind)
    BY <2>2 DEF ObjectOfKind
  <2>4. reply \in FieldsOf(kind) /\ \A f \in ArgsOf(kind) : reply[f] = IF f \in Calls.reply THEN r[f] ELSE {}
    <3>1. remote' \in [Objects -> ObjectOfKind(kind)]
      BY <1>1 DEF Types
    <3> QED  BY <1>1, <2>1, <2>2, <3>1, ReplyIs
  <2>5. /\ \A f \in Args : ~(kind = "Instance" /\ f = "tags") => r[f] = Made(Post(kind, news)).fields[f]
        /\ kind = "Instance" => r["tags"] = news["tags"]
    <3>1. Tail(op.calls) = <<>>
      BY RestIs, <1>1 DEF Sent
    <3>2. Left(<<>>) = {}
      BY DEF Left
    <3> QED  BY <2>1, <3>1, <3>2, ServedMaking
  <2> HIDE DEF r, reply, news
  <2>6. ASSUME NEW f \in ComparedOf(kind) PROVE ~Changed(RuleOf(kind, f), s[f], news[f])
    <3>1. f \in ArgsOf(kind)
      BY <1>1, RulesAre
    <3>2. r[f] = IF kind = "Instance" /\ f = "tags" THEN news[f] ELSE Made(Post(kind, news)).fields[f]
      BY <1>1, <2>5, <3>1
    <3> QED  BY <1>1, <1>3, <2>3, <2>4, <3>1, <3>2, CreatedField
  <2> HIDE DEF s
  <2> QED  BY <1>1, <1>2, <2>6, SettlesThen
<1>4. CASE ~Straight
  BY <1>1, <1>4, SettlesThen
<1> QED  BY <1>3, <1>4

(* An update that ends leaves no difference. *)
LEMMA UpdateSettles ==
    ASSUME Shape, Types', Copied, NeverGiven', op.do = "update", NEW c, c = Head(op.calls), NEW class,
           Sent(c), Room(c), React(c, class), Outcome(c, class), class \in {"ok", "blank"},
           Commit(ObjectOf(c), class)
    PROVE  Settles'
<1> DEFINE olds == stack.state
           news == op.news
           r0 == remote[stack.id].fields
           r1 == After(c).fields
           body == Put(kind, olds, news)
           new == Renewed(kind, news)
           reply == Reply(stack.id, class)
           u == Resource[kind].updated
           s == Learn(new, u, reply)
<1>1. /\ Types /\ UNCHANGED <<kind, faults, program>> /\ news = checkResourceArgs(program)
      /\ olds \in FieldsOf(kind) /\ news \in FieldsOf(kind) /\ replaceDiff(kind, olds, news) = {}
      /\ Addressed = stack.id /\ ObjectOf(c) = stack.id /\ c.name \notin {"post", "delete"}
  BY ReactIs DEF Shape, Types, Renewing, Checked, ObjectOf, Addressed, Sent, Updating
<1>2. stack'.state = s
  <2>1. stack' = [stack EXCEPT !.state = s]
    BY <1>1 DEF Commit
  <2> QED  BY <1>1, <2>1 DEF Types
<1>3. CASE ~Straight
  BY <1>1, <1>3, SettlesThen
<1>4. CASE Straight
  <2>1. class = "ok" /\ remote' = Effect(c) /\ Found
    BY <1>1, <1>4 DEF Outcome, Straight
  <2>2. stack.id \in Objects /\ stack.id \in Live /\ After(c) \in ObjectOfKind(kind) /\ remote'[stack.id] = After(c)
    BY <1>1, <2>1, EffectIs, LiveIs DEF Found
  <2>3. r0 \in FieldsOf(kind) /\ r1 \in FieldsOf(kind)
    BY <1>1, <2>2 DEF ObjectOfKind, Types
  <2>4. reply \in FieldsOf(kind) /\ \A f \in ArgsOf(kind) : reply[f] = IF f \in Calls.reply THEN r1[f] ELSE {}
    <3>1. remote' \in [Objects -> ObjectOfKind(kind)]
      BY <1>1 DEF Types
    <3> QED  BY <1>1, <2>1, <2>2, <3>1, ReplyIs
  <2>5. /\ new \in FieldsOf(kind) /\ kind \in Kinded /\ u.take \cap u.fill = {} /\ Told(kind)
        /\ u.take \cup u.fill \subseteq ArgsOf(kind) \ Scope
        /\ kind = "Instance" => u.take = {} /\ u.fill = {}
    <3>1. kind \in Kinded /\ Row(kind) /\ Told(kind)
      BY <1>1, RulesAre
    <3> QED  BY <1>1, <3>1, RenewedIs DEF Row, Told, ArgsOf
  <2>6. ASSUME kind # "Instance", NEW f \in Tracked
        PROVE  Mirrors(f, r0, olds) /\ r1[f] = IF f \in DOMAIN body THEN body[f] ELSE r0[f]
    <3>1. c.name = "put" /\ c.body = body
      BY <2>6 DEF Sent, Updating
    <3>2. f \in ArgsOf(kind)
      BY <1>1, RulesAre
    <3>3. \A g \in ArgsOf(kind) :
             After(c).fields[g] = IF g \in DOMAIN c.body THEN c.body[g] ELSE remote[ObjectOf(c)].fields[g]
      <4>1. Types /\ Found /\ c.name \in {"put", "rename", "tags", "resize"}
        BY <1>1, <2>1, <3>1
      <4> HIDE DEF olds, news, r0, r1, body, new, reply, u, s
      <4> QED  BY <4>1, AfterField
    <3>4. Mirrors(f, r0, olds)
      BY <1>4, <2>2, <2>6 DEF Copied, Smooth, Mirroring
    <3>5. \A g \in ArgsOf(kind) : r1[g] = IF g \in DOMAIN body THEN body[g] ELSE r0[g]
      BY <1>1, <3>1, <3>3
    <3> HIDE DEF r0, r1, body, olds
    <3> QED  BY <3>2, <3>4, <3>5
  <2> HIDE DEF r0, r1, body, reply, u, olds, news, new
  <2>7. s \in FieldsOf(kind)
    BY <2>4, <2>5, LearnIs DEF FieldsOf
  <2>8. ASSUME NEW f \in ComparedOf(kind), Counted(f) PROVE ~Changed(RuleOf(kind, f), s[f], news[f])
    <3>1. f \in ArgsOf(kind) /\ (f \notin Scope => f \in Tracked)
      BY <1>1, RulesAre DEF Scope
    <3>2. s[f] = IF f \in u.take THEN reply[f]
                 ELSE IF f \in u.fill THEN (IF new[f] # {} THEN new[f] ELSE reply[f]) ELSE new[f]
      BY <2>4, <2>5, <3>1, LearnField
    <3>3. f \in u.take => f \in Calls.reply
      BY <2>5, <3>1 DEF Told, Calls, u
    <3>4. CASE s[f] = new[f]
      BY <1>1, <3>4, RenewedAlike DEF new
    <3>5. CASE s[f] # new[f]
      <4>1. f \in Tracked /\ kind # "Instance"
        BY <2>5, <3>1, <3>2, <3>5
      <4>2. \/ f \in u.take /\ s[f] = r1[f]
            \/ f \in u.fill /\ new[f] = {} /\ s[f] = r1[f]
        BY <2>4, <3>1, <3>2, <3>3, <3>5
      <4>3. Mirrors(f, r0, olds) /\ r1[f] = IF f \in DOMAIN body THEN body[f] ELSE r0[f]
        BY <2>6, <4>1
      <4> HIDE DEF s
      <4>4. /\ f \in Cleared /\ news[f] = {} /\ Whole(olds) => r1[f] = {}
            /\ (RuleOf(kind, f) \in AlwaysRules /\ news[f] = {} => r1[f] = {})
                  => ~Changed(RuleOf(kind, f), s[f], news[f])
        BY <1>1, <2>3, <2>7, <4>1, <4>2, <4>3, UpdatedField DEF new, body, u
      <4>5. ASSUME RuleOf(kind, f) \in AlwaysRules, news[f] = {} PROVE r1[f] = {}
        <5>1. CASE "clear" \notin faults
          <6>1. Types' /\ NeverGiven'
            OBVIOUS
          <6>2. f \in Lasting' /\ faults' \cap {"clear", "defaults"} = {}
            BY <1>1, <1>4, <4>5, <5>1 DEF Lasting, Straight
          <6>3. program'[f] = {}
            <7>1. f \in Lasting
              BY <4>5 DEF Lasting
            <7> QED  BY <1>1, <4>5, <7>1, ChosenIs
          <6> QED  BY <2>2, <6>1, <6>2, <6>3 DEF NeverGiven, r1
        <5>2. CASE "clear" \in faults
          <6>1. f \in Cleared /\ "import" \notin faults
            BY <1>1, <2>8, <4>5, <5>2 DEF Counted
          <6> QED  BY <4>4, <4>5, <6>1 DEF Whole
        <5> QED  BY <5>1, <5>2
      <4> QED  BY <4>4, <4>5
    <3> QED  BY <3>4, <3>5
  <2> HIDE DEF s
  <2> QED  BY <1>1, <1>2, <2>8, SettlesThen
<1> QED  BY <1>3, <1>4

(* A refresh brings no difference where there was none. *)
LEMMA RefreshSettles ==
    ASSUME Shape, Types', Copied, NeverGiven, Settles, op.do = "refresh", NEW c, c = Head(op.calls),
           NEW class, Sent(c), Room(c), React(c, class), Outcome(c, class), class \in {"ok", "blank"},
           Commit(ObjectOf(c), class)
    PROVE  Settles'
<1> DEFINE old == stack.state
           wanted == checkResourceArgs(program)
           r == remote[stack.id].fields
           reply == Reply(stack.id, class)
           learnt == Resource[kind].read
           s == Learn(old, learnt, reply)
<1>1. /\ Types /\ UNCHANGED <<kind, faults, program>> /\ c.name = "get" /\ remote' = remote
      /\ ObjectOf(c) = stack.id /\ old \in FieldsOf(kind) /\ upToDate' = upToDate
  BY ReactIs, GetIs DEF Shape, Sent, Outcome, ObjectOf, Addressed, Types, Commit
<1>2. stack'.state = s
  BY <1>1 DEF Commit
<1>3. CASE ~(Straight /\ upToDate)
  BY <1>1, <1>3, SettlesThen
<1>4. CASE Straight /\ upToDate
  <2>1. class = "ok" /\ Found
    BY <1>1, <1>4 DEF Outcome, Straight
  <2>2. stack.id \in Objects /\ stack.id \in Live /\ r \in FieldsOf(kind)
    BY <1>1, <2>1, LiveIs DEF Found, Types, ObjectOfKind, ObjectOf
  <2>3. reply \in FieldsOf(kind) /\ \A f \in ArgsOf(kind) : reply[f] = IF f \in Calls.reply THEN r[f] ELSE {}
    <3>1. remote' \in [Objects -> ObjectOfKind(kind)]
      BY <1>1 DEF Types
    <3> QED  BY <1>1, <2>1, <2>2, <3>1, ReplyIs
  <2>4. kind # "Instance" => Mirroring(r, old)
    BY <1>4, <2>2 DEF Copied, Smooth
  <2>5. ASSUME NEW f \in ComparedOf(kind), f \in learnt.take \cup learnt.fill
        PROVE  \/ kind = "Instance" /\ f \notin learnt.take /\ RuleOf(kind, f) \notin AlwaysRules
               \/ kind # "Instance" /\ f \in Tracked
    <3>1. Told(kind) /\ Row(kind) /\ Firm(kind) /\ f \in ArgsOf(kind) /\ (f \notin Scope => f \in Tracked)
      BY <1>1, RulesAre DEF Scope
    <3>2. CASE kind = "Instance"
      <4>1. /\ Resource[kind].read.take = {} /\ Resource[kind].created.fill = {}
            /\ f \in DOMAIN Resource[kind].diff.replace \/ f = "name"
            /\ RuleOf(kind, "name") = "given"
        BY <1>1, <2>5, <3>1, <3>2, TouchedIs DEF Told, Touched
      <4>2. f \in DOMAIN Resource[kind].diff.replace => RuleOf(kind, f) \notin AlwaysRules
        BY <2>5, <3>1, <4>1 DEF Firm, RuleOf, AlwaysRules
      <4> QED  BY <3>2, <4>1, <4>2 DEF AlwaysRules
    <3>3. CASE kind # "Instance"
      <4>1. f \notin Scope
        BY <2>5, <3>1 DEF Row
      <4> QED  BY <3>1, <3>3, <4>1
    <3> QED  BY <3>2, <3>3
  <2> HIDE DEF r, reply, learnt, old, wanted
  <2>6. ASSUME NEW f \in ComparedOf(kind), Counted(f) PROVE ~Changed(RuleOf(kind, f), s[f], wanted[f])
    <3>1. f \in ArgsOf(kind) /\ Told(kind)
      BY <1>1, RulesAre
    <3>2. ~Changed(RuleOf(kind, f), old[f], wanted[f])
      BY <1>4, <2>6 DEF Settles, old, wanted
    <3>3. f \in learnt.take => Mirrors(f, r, old)
      BY <2>4, <2>5, <2>6 DEF Mirroring
    <3>4. ASSUME RuleOf(kind, f) \in AlwaysRules, wanted[f] = {}, f \in learnt.take \cup learnt.fill
          PROVE  r[f] = {}
      <4>1. CASE "clear" \notin faults
        BY <1>1, <1>4, <2>2, <3>4, <4>1, StaysBlank DEF wanted, r
      <4>2. CASE "clear" \in faults
        <5>1. f \in Cleared /\ Whole(old)
          BY <2>6, <3>4, <4>2 DEF Counted, Whole, wanted
        <5>2. Mirrors(f, r, old)
          BY <2>4, <2>5, <3>4 DEF Mirroring
        <5>3. old[f] = {}
          BY <3>1, <3>2, <3>4, SameAlike
        <5> QED  BY <5>1, <5>2, <5>3 DEF Mirrors
      <4> QED  BY <4>1, <4>2
    <3>5. \A v : (/\ ~Changed(RuleOf(kind, f), old[f], v)
                  /\ f \in learnt.take => Mirrors(f, r, old)
                  /\ RuleOf(kind, f) \in AlwaysRules /\ v = {} /\ f \in learnt.take \cup learnt.fill => r[f] = {})
                 => ~Changed(RuleOf(kind, f), s[f], v)
      <4>1. old \in FieldsOf(kind) /\ reply[f] = IF f \in Calls.reply THEN r[f] ELSE {}
        BY <1>1, <2>3, <3>1 DEF old
      <4> QED  BY <1>1, <2>2, <2>3, <4>1, ReadField DEF learnt
    <3> HIDE DEF s
    <3> QED  BY <3>2, <3>3, <3>4, <3>5
  <2> HIDE DEF s
  <2> QED  BY <1>1, <1>2, <2>6, SettlesThen DEF wanted
<1> QED  BY <1>3, <1>4

(* An up that starts, or that has nothing to do. *)
LEMMA UpSettles == Shape /\ Settles /\ Up => Settles'
<1> SUFFICES ASSUME Shape, Settles, Up, upToDate' PROVE Settles'
  BY DEF Settles
<1> DEFINE news == checkResourceArgs(program)
           olds == stack.state
<1>1. Types /\ UNCHANGED <<kind, faults, program>> /\ news \in FieldsOf(kind) /\ olds \in FieldsOf(kind)
  <2>1. Types /\ UNCHANGED <<kind, faults, program>> /\ olds \in FieldsOf(kind)
    BY DEF Shape, Up, Types
  <2> QED  BY <2>1, CheckedIs, KindIs DEF Types, Row, FieldsOf, ArgsOf
<1>2. \/ diffResponse(kind, olds, news) = {} /\ stack' = stack
      \/ stack' = [stack EXCEPT !.state = Renewed(kind, news)]
  BY DEF Up
<1>3. CASE diffResponse(kind, olds, news) = {} /\ stack' = stack
  <2>1. \A f \in ComparedOf(kind) : ~Changed(RuleOf(kind, f), olds[f], news[f])
    BY <1>1, <1>3, NoDiff
  <2> QED  BY <1>1, <1>3, <2>1, SettlesThen
<1>4. CASE stack' = [stack EXCEPT !.state = Renewed(kind, news)]
  <2>1. stack'.state = Renewed(kind, news)
    BY <1>1, <1>4 DEF Types
  <2>2. \A f \in ComparedOf(kind) : ~Changed(RuleOf(kind, f), Renewed(kind, news)[f], news[f])
    BY <1>1, RenewedAlike
  <2> HIDE DEF news
  <2> QED  BY <1>1, <2>1, <2>2, SettlesThen DEF news
<1> QED  BY <1>2, <1>3, <1>4

(* No step breaks Settles. *)
LEMMA NextSettles ==
    Shape /\ Grouped /\ Making /\ Copied /\ NeverGiven /\ Settles /\ [Next]_vars => Settles'
<1> SUFFICES ASSUME Shape, Grouped, Making, Copied, NeverGiven, Settles, [Next]_vars, upToDate'
             PROVE  Settles'
  BY DEF Settles
<1>1. Types /\ Types' /\ NeverGiven' /\ UNCHANGED <<kind, faults>>
  BY KindKept, NextShape, NextNeverGiven DEF Shape
<1>2. CASE UNCHANGED <<stack, program, upToDate>>
  BY <1>1, <1>2, SettlesThen DEF Settles
<1>3. CASE Serve
  <2> DEFINE c == Head(op.calls)
  <2>1. PICK class : Sent(c) /\ Room(c) /\ React(c, class) /\ Outcome(c, class)
    BY <1>3, ServeIs
  <2>2. program' = program
    BY <2>1, ReactIs
  <2>3. CASE Fail(class)
    <3>1. UNCHANGED <<stack, upToDate>>
      BY <2>3 DEF Fail
    <3> QED  BY <1>2, <2>2, <3>1
  <2>4. CASE UNCHANGED <<stack, applied, upToDate>>
    BY <1>2, <2>2, <2>4
  <2>5. CASE /\ Rest(c) = <<>> /\ Commit(ObjectOf(c), class)
             /\ class \in {"ok", "blank"} \/ (c.name = "delete" /\ class = "notFound")
    <3>1. op.do \in {"create", "update", "refresh"}
      <4>1. op.do \in {"replace", "destroy", "import"} => upToDate' = upToDate
        BY <2>5 DEF Commit
      <4>2. op.do \in {"replace", "destroy", "import"} => ~upToDate
        BY DEF Shape, Resting
      <4> QED  BY <2>5, <4>1, <4>2 DEF Commit
    <3>2. class \in {"ok", "blank"}
      BY <2>1, <2>5, <3>1 DEF Sent
    <3> QED  BY <1>1, <2>1, <2>5, <3>1, <3>2, CreateSettles, UpdateSettles, RefreshSettles
  <2> QED  BY <2>1, <2>3, <2>4, <2>5, ReactIs, AdvanceIs
<1>4. CASE Up
  BY <1>4, UpSettles
<1>5. CASE Edit \/ Destroy \/ Vanish
  BY <1>5 DEF Edit, Destroy, Vanish
<1>6. CASE Refresh \/ Resized \/ UpRefused \/ UNCHANGED vars
  BY <1>2, <1>6 DEF Refresh, Resized, UpRefused, vars
<1>7. CASE Import
  <2>1. ~upToDate /\ upToDate' = upToDate
    BY <1>7 DEF Import, Shape, Resting
  <2> QED  BY <2>1
<1> QED  BY <1>3, <1>4, <1>5, <1>6, <1>7 DEF Next

(* No up has succeeded at the start. *)
LEMMA InitSettles == Init => Settles
BY DEF Init, Settles

(* The completed arguments are those of the program outside the scope. *)
LEMMA CheckedAside ==
    ASSUME NEW k \in Kinded, NEW args \in FieldsOf(k)
    PROVE  /\ checkResourceArgs(args) \in FieldsOf(k)
           /\ \A f \in ArgsOf(k) \ Scope : checkResourceArgs(args)[f] = args[f]
<1>1. Scope \subseteq ArgsOf(k)
  BY Rows DEF Row, ArgsOf, Kinded
<1> QED  BY <1>1, CheckedIs DEF FieldsOf

(* The lists: a port keeps its groups bare, a server keeps them and its tags *)
(* as the program writes them.                                               *)
ListRow(k) ==
    LET r == Resource[k]
        learnt == r.created.take \cup r.created.fill \cup r.updated.take \cup r.updated.fill
                  \cup r.read.fill
    IN /\ k = "Instance" =>
            /\ {"tags", "securityGroups"} \subseteq r.args \ Scope
            /\ {"tags", "securityGroups"} \cap (learnt \cup r.read.take \cup r.normal \cup r.renormal) = {}
            /\ {"tags", "securityGroups"} \cap DOMAIN r.default = {}
            /\ {"tags", "securityGroups"} \subseteq DOMAIN r.diff.update
            /\ r.diff.update["tags"] = "alwaysList" /\ r.diff.update["securityGroups"] = "alwaysList"
       /\ k = "Port" =>
            /\ "securityGroups" \in r.args \ Scope
            /\ "securityGroups" \notin learnt \cup DOMAIN r.default
            /\ "securityGroups" \in r.normal \cap r.renormal \cap r.ids

LEMMA ListRows == \A k \in DOMAIN Resource : ListRow(k)
<1> SUFFICES ASSUME NEW k \in DOMAIN Resource, k \in {"Instance", "Port"} PROVE ListRow(k)
  BY DEF ListRow
<1>1. CASE k = "Instance"
  <2>1. Resource[k] = Instance
    BY <1>1 DEF Resource
  <2> QED  BY <1>1, <2>1, SMTT(60) DEF ListRow, Scope, Instance, InstanceDiff, InstanceRead, Nothing, Fill,
     NoDefault
<1>2. CASE k = "Port"
  <2>1. Resource[k] = Port
    BY <1>2 DEF Resource
  <2> QED  BY <1>2, <2>1, SMTT(60) DEF ListRow, Scope, Port, PortStruct, Nothing, Take, NoDefault
<1> QED  BY <1>1, <1>2

Listing ==
    /\ kind = "Port" => Bare(stack.state["securityGroups"])
    /\ kind = "Instance" /\ upToDate =>
         \A f \in {"tags", "securityGroups"} : stringSlicesEqual(stack.state[f], program[f])

(* To show Listing after a step. *)
LEMMA ListingThen ==
    ASSUME Types, UNCHANGED kind, NEW s \in FieldsOf(kind), stack'.state = s,
           kind = "Port" => Bare(s["securityGroups"]),
           kind = "Instance" /\ upToDate' =>
             \A f \in {"tags", "securityGroups"} :
                \/ s[f] = program'[f]
                \/ stringSlicesEqual(s[f], program'[f])
    PROVE  Listing'
BY EqualSelf DEF Listing, Bare, BareResourceID

(* What an operation that ends leaves of the lists. *)
LEMMA CommitListing ==
    ASSUME Shape, Types', Grouped, BareIds, BareIds', Listing, NEW c, c = Head(op.calls), NEW class,
           Sent(c), Room(c), React(c, class), Outcome(c, class), Rest(c) = <<>>, Commit(ObjectOf(c), class)
    PROVE  Listing'
<1> DEFINE id == ObjectOf(c)
           news == op.news
           reply == Reply(id, class)
           r == Resource[kind]
<1>1. /\ Types /\ kind \in Kinded /\ Row(kind) /\ ListRow(kind) /\ UNCHANGED <<kind, program>>
      /\ news \in FieldsOf(kind) /\ stack.state \in FieldsOf(kind) /\ program \in FieldsOf(kind)
      /\ Args = ArgsOf(kind)
  BY ReactIs, KindIs, ListRows DEF Shape, Types, Kinded
<1>2. reply \in FieldsOf(kind) /\ \A f \in ArgsOf(kind) : reply[f] =
         IF class = "ok" /\ f \in Calls.reply THEN remote'[id].fields[f] ELSE {}
  <2>1. class = "ok" => id \in Objects
    BY <1>1, EffectIs DEF Outcome
  <2>2. remote' \in [Objects -> ObjectOfKind(kind)]
    BY <1>1 DEF Types
  <2> QED  BY <1>1, <2>1, <2>2, ReplyIs
<1>3. kind = "Port" => Bare(reply["securityGroups"])
  <2>1. class = "ok" => id \in Objects
    BY <1>1, EffectIs DEF Outcome
  <2>2. kind = "Port" => "securityGroups" \in ArgsOf(kind) /\ "securityGroups" \in Resource[kind].ids
    BY <1>1 DEF ListRow, ArgsOf
  <2>3. \A o \in Objects : \A f \in Resource[kind].ids : Bare(remote'[o].fields[f])
    BY <1>1 DEF BareIds, Bare, BareResourceID
  <2> QED  BY <1>2, <2>1, <2>2, <2>3, BareMeans
<1>4. op.do \in {"create", "update"} => news = checkResourceArgs(program)
  BY DEF Shape, Checked
<1>5. \A f \in {"tags", "securityGroups"} : kind = "Instance" => checkResourceArgs(program)[f] = program[f]
  BY <1>1, CheckedAside DEF ListRow, ArgsOf
<1> HIDE DEF id, news, reply
<1>6. CASE op.do = "create"
  <2> DEFINE kept == Kept(kind, news)
             s == Learn(kept, r.created, reply)
  <2>1. stack'.state = s
    BY <1>6 DEF Commit, id, news, reply
  <2>2. kept \in FieldsOf(kind) /\ \A f \in ArgsOf(kind) : f \notin DOMAIN r.default =>
           kept[f] = IF f \in r.normal THEN BareResourceID(news[f]) ELSE news[f]
    BY <1>1, KeptIs
  <2> HIDE DEF kept
  <2>3. s \in FieldsOf(kind) /\ \A f \in ArgsOf(kind) :
           f \notin r.created.take \cup r.created.fill => s[f] = kept[f]
    BY <1>1, <1>2, <2>2, LearnIs DEF FieldsOf, Row
  <2> HIDE DEF s
  <2>4. kind = "Port" => Bare(s["securityGroups"])
    BY <1>1, <2>2, <2>3, BareMeans DEF ListRow, ArgsOf, FieldsOf
  <2>5. kind = "Instance" => \A f \in {"tags", "securityGroups"} : s[f] = program'[f]
    BY <1>1, <1>4, <1>5, <1>6, <2>2, <2>3 DEF ListRow, ArgsOf
  <2> QED  BY <1>1, <2>1, <2>3, <2>4, <2>5, ListingThen
<1>7. CASE op.do = "update"
  <2> DEFINE new == Renewed(kind, news)
             s == Learn(new, r.updated, reply)
  <2>1. stack'.state = s
    BY <1>1, <1>7 DEF Commit, Types, id, news, reply
  <2>2. new \in FieldsOf(kind) /\ \A f \in ArgsOf(kind) :
           new[f] = IF f \in r.renormal THEN BareResourceID(news[f]) ELSE news[f]
    BY <1>1, RenewedIs
  <2> HIDE DEF new
  <2>3. s \in FieldsOf(kind) /\ \A f \in ArgsOf(kind) :
           f \notin r.updated.take \cup r.updated.fill => s[f] = new[f]
    BY <1>1, <1>2, <2>2, LearnIs DEF FieldsOf, Row
  <2> HIDE DEF s
  <2>4. kind = "Port" => Bare(s["securityGroups"])
    BY <1>1, <2>2, <2>3, BareMeans DEF ListRow, ArgsOf, FieldsOf
  <2>5. kind = "Instance" => \A f \in {"tags", "securityGroups"} : s[f] = program'[f]
    BY <1>1, <1>4, <1>5, <1>7, <2>2, <2>3 DEF ListRow, ArgsOf
  <2> QED  BY <1>1, <2>1, <2>3, <2>4, <2>5, ListingThen
<1>8. CASE op.do \in {"refresh", "import"}
  <2> DEFINE old == stack.state
             s == Learn(old, r.read, reply)
  <2>1. stack'.state = s /\ upToDate' = upToDate
    BY <1>8 DEF Commit, id, news, reply
  <2> HIDE DEF old
  <2>2. s \in FieldsOf(kind) /\ \A f \in ArgsOf(kind) :
           /\ f \in r.read.take => s[f] = reply[f]
           /\ f \notin r.read.take \cup r.read.fill => s[f] = old[f]
    <3>1. r.read.take \cap r.read.fill = {} /\ old \in FieldsOf(kind)
      BY <1>1 DEF Row, old
    <3>2. s \in FieldsOf(kind) /\ \A f \in ArgsOf(kind) : s[f] =
            IF f \in r.read.take THEN reply[f]
            ELSE IF f \in r.read.fill THEN (IF old[f] # {} THEN old[f] ELSE reply[f])
            ELSE old[f]
      BY <1>2, <3>1, LearnIs DEF FieldsOf
    <3> HIDE DEF s, r
    <3> QED  BY <3>2
  <2> HIDE DEF s
  <2>3. kind = "Port" => s["securityGroups"] \in {old["securityGroups"], reply["securityGroups"]}
    BY <1>1, <2>2 DEF ListRow, ArgsOf
  <2>4. kind = "Port" => Bare(s["securityGroups"])
    BY <1>3, <2>3 DEF Listing, old
  <2>5. kind = "Instance" => \A f \in {"tags", "securityGroups"} : s[f] = old[f]
    BY <1>1, <2>2 DEF ListRow, ArgsOf
  <2>6. kind = "Instance" /\ upToDate' =>
           \A f \in {"tags", "securityGroups"} : stringSlicesEqual(s[f], program'[f])
    BY <1>1, <2>1, <2>5 DEF Listing, old
  <2> QED  BY <1>1, <2>1, <2>2, <2>4, <2>6, ListingThen
<1>9. CASE op.do \in {"replace", "destroy"}
  <2>1. stack' = NoStack /\ upToDate' = upToDate /\ ~upToDate
    BY <1>9 DEF Commit, Shape, Resting
  <2>2. NoArgs \in FieldsOf(kind) /\ stack'.state = NoArgs /\ \A f \in ArgsOf(kind) : NoArgs[f] = {}
    BY <1>1, <2>1, KindIs DEF NoStack, NoArgs, FieldsOf
  <2>3. kind = "Port" => Bare(NoArgs["securityGroups"])
    BY <1>1, <2>2, BareMeans DEF ListRow, ArgsOf
  <2> QED  BY <1>1, <2>1, <2>2, <2>3, ListingThen
<1> QED  BY <1>6, <1>7, <1>8, <1>9 DEF Commit

(* No step breaks Listing. *)
LEMMA NextListing ==
    Shape /\ Grouped /\ BareIds /\ Listing /\ [Next]_vars => Listing'
<1> SUFFICES ASSUME Shape, Grouped, BareIds, Listing, [Next]_vars PROVE Listing'
  OBVIOUS
<1>1. /\ Types /\ Types' /\ BareIds' /\ UNCHANGED kind /\ kind \in Kinded /\ Row(kind) /\ ListRow(kind)
      /\ Args = ArgsOf(kind) /\ NoArgs \in FieldsOf(kind) /\ stack.state \in FieldsOf(kind)
      /\ program \in FieldsOf(kind)
  BY KindKept, KindIs, NextShape, NextBareIds, ListRows DEF Shape, Types, Kinded
<1>2. \A f \in ArgsOf(kind) : NoArgs[f] = {}
  BY <1>1 DEF NoArgs
<1>3. kind = "Port" => Bare(NoArgs["securityGroups"])
  BY <1>1, <1>2, BareMeans DEF ListRow, ArgsOf
<1>4. CASE UNCHANGED <<stack, program, upToDate>>
  BY <1>1, <1>4 DEF Listing, Bare, BareResourceID
<1>5. CASE stack' = NoStack /\ ~upToDate'
  BY <1>1, <1>3, <1>5, ListingThen DEF NoStack
<1>6. CASE stack' = stack /\ ~upToDate'
  BY <1>1, <1>6, ListingThen DEF Listing
<1>7. CASE Serve
  <2> DEFINE c == Head(op.calls)
  <2>1. PICK class : Sent(c) /\ Room(c) /\ React(c, class) /\ Outcome(c, class)
    BY <1>7, ServeIs
  <2>2. program' = program
    BY <2>1, ReactIs
  <2>3. CASE Fail(class)
    BY <1>4, <1>5, <2>2, <2>3 DEF Fail
  <2>4. CASE UNCHANGED <<stack, applied, upToDate>>
    BY <1>4, <2>2, <2>4
  <2>5. CASE Rest(c) = <<>> /\ Commit(ObjectOf(c), class)
    BY <1>1, <2>1, <2>5, CommitListing
  <2> QED  BY <2>1, <2>3, <2>4, <2>5, ReactIs, AdvanceIs
<1>8. CASE Up
  <2> DEFINE news == checkResourceArgs(program)
             olds == stack.state
             new == Renewed(kind, news)
  <2>1. /\ program' = program /\ news \in FieldsOf(kind)
        /\ \A f \in ArgsOf(kind) \ Scope : news[f] = program[f]
    BY <1>1, <1>8, CheckedAside DEF Up
  <2>2. \/ UNCHANGED <<stack, upToDate>> \/ (stack' = stack /\ ~upToDate')
        \/ diffResponse(kind, olds, news) = {} /\ stack' = stack
        \/ stack' = [stack EXCEPT !.state = new]
    BY <1>8 DEF Up
  <2>3. CASE diffResponse(kind, olds, news) = {} /\ stack' = stack
    <3>1. kind = "Instance" => \A f \in {"tags", "securityGroups"} : stringSlicesEqual(olds[f], news[f])
      BY <1>1, <2>3, NoDiff DEF ListRow
    <3>2. kind = "Instance" => \A f \in {"tags", "securityGroups"} : news[f] = program'[f]
      BY <1>1, <2>1 DEF ListRow, ArgsOf
    <3> HIDE DEF news
    <3> QED  BY <1>1, <2>3, <3>1, <3>2, ListingThen DEF Listing
  <2>4. CASE stack' = [stack EXCEPT !.state = new]
    <3>1. stack'.state = new
      BY <1>1, <2>4 DEF Types
    <3> HIDE DEF news
    <3>2. new \in FieldsOf(kind) /\ \A f \in ArgsOf(kind) :
             new[f] = IF f \in Resource[kind].renormal THEN BareResourceID(news[f]) ELSE news[f]
      BY <1>1, <2>1, RenewedIs
    <3> HIDE DEF new
    <3>3. kind = "Port" => Bare(new["securityGroups"])
      BY <1>1, <2>1, <3>2, BareMeans DEF ListRow, ArgsOf, FieldsOf
    <3>4. kind = "Instance" => \A f \in {"tags", "securityGroups"} : new[f] = program'[f]
      BY <1>1, <2>1, <3>2 DEF ListRow, ArgsOf
    <3> QED  BY <1>1, <3>1, <3>2, <3>3, <3>4, ListingThen
  <2> QED  BY <1>4, <1>6, <2>1, <2>2, <2>3, <2>4
<1>9. CASE Edit \/ Destroy \/ Vanish
  BY <1>6, <1>9 DEF Edit, Destroy, Vanish
<1>10. CASE Refresh \/ Resized \/ UpRefused \/ UNCHANGED vars
  BY <1>4, <1>10 DEF Refresh, Resized, UpRefused, vars
<1>11. CASE Import
  <2>1. ~upToDate'
    BY <1>11 DEF Import, Shape, Resting
  <2>2. PICK o \in Live, F \in SUBSET Scope :
           LET part  == [f \in Scope |-> IF f \in F THEN remote[o].fields[f] ELSE {}]
               scope == ResolveImport(part, NoArgs)
           IN stack' = [id |-> o, state |-> [f \in Args |-> IF f \in Scope THEN scope[f] ELSE {}]]
    BY <1>11 DEF Import
  <2>3. \A f \in ArgsOf(kind) \ Scope : stack'.state[f] = {}
    BY <1>1, <2>2
  <2>4. stack'.state \in FieldsOf(kind)
    BY <1>1 DEF Types
  <2>5. kind = "Port" => Bare(stack'.state["securityGroups"])
    BY <1>1, <2>3, BareMeans DEF ListRow, ArgsOf
  <2> QED  BY <1>1, <2>1, <2>4, <2>5, ListingThen
<1> QED  BY <1>7, <1>8, <1>9, <1>10, <1>11 DEF Next

(* The stack is empty at the start. *)
LEMMA InitListing == Init => Listing
<1> SUFFICES ASSUME Init PROVE Listing
  OBVIOUS
<1>1. Types /\ kind \in Kinded /\ ListRow(kind) /\ Args = ArgsOf(kind) /\ stack.state = NoArgs /\ ~upToDate
  BY InitShape, KindIs, ListRows DEF Init, NoStack, Shape, Kinded
<1>2. kind = "Port" => NoArgs["securityGroups"] = {}
  BY <1>1 DEF NoArgs, ListRow, ArgsOf
<1> QED  BY <1>1, <1>2, BareMeans DEF Listing

(* All of them together. *)
Faithful ==
    /\ Shape /\ Confirming /\ Grouped /\ BareIds /\ NeverGiven /\ Importing /\ Making /\ Lone
    /\ Copied /\ Settles /\ Listing

(* The conjunction is inductive. *)
LEMMA FaithfulHolds == Spec => []Faithful
<1>1. Init => Faithful
  BY InitShape, InitConfirming, InitGrouped, InitBareIds, InitNeverGiven, InitImporting, InitMaking,
     InitLone, InitCopied, InitSettles, InitListing DEF Faithful
<1>2. Faithful /\ [Next]_vars => Faithful'
  BY NextShape, NextConfirming, NextGrouped, NextBareIds, NextNeverGiven, NextImporting, NextMaking,
     NextLone, NextCopied, NextSettles, NextListing DEF Faithful
<1> QED  BY <1>1, <1>2, PTL DEF Spec

(* A second up has nothing to do: after an up of the program that succeeded, *)
(* and after any number of refreshes, Diff finds no argument that differs    *)
(* from the state, but those that the provider compares and does not send,   *)
(* and the list of a port whose order changes when its scopes are taken off. *)
THEOREM StacksAreSettled == Spec => []Settled
<1> DEFINE old == stack.state
           wanted == checkResourceArgs(program)
<1>1. ASSUME Faithful, Peaceful PROVE diffResponse(kind, old, wanted) \subseteq Unsent \cup Resorted
  <2>1. Types /\ Settles /\ Listing /\ Straight /\ "clear" \notin faults /\ upToDate
    BY <1>1 DEF Faithful, Shape, Straight, Peaceful
  <2>2. /\ kind \in Kinded /\ Row(kind) /\ Told(kind) /\ ListRow(kind) /\ Args = ArgsOf(kind)
        /\ old \in FieldsOf(kind) /\ program \in FieldsOf(kind)
    BY <2>1, KindIs, RulesAre, ListRows DEF Types, Kinded
  <2>3. \A f \in ComparedOf(kind) : ~Changed(RuleOf(kind, f), old[f], wanted[f])
    BY <2>1 DEF Settles, Counted
  <2>4. \A f \in ArgsOf(kind) \ Scope : wanted[f] = program[f]
    BY <2>2, CheckedAside
  <2> HIDE DEF wanted
  <2>5. ASSUME NEW f \in DOMAIN Resource[kind].diff.update,
               Resource[kind].diff.update[f] = "alwaysList", f \notin Unsent
        PROVE  f \in Resorted \/ stringSlicesEqual(old[f], wanted[f])
    <3>1. CASE kind = "Instance" /\ f \in {"tags", "securityGroups"}
      BY <2>1, <2>2, <2>4, <3>1 DEF Listing, ListRow, ArgsOf
    <3>2. CASE kind = "Port" /\ f = "securityGroups" /\ Uniform(program.securityGroups)
      <4>1. /\ f \in ComparedOf(kind) /\ RuleOf(kind, f) \in AlwaysRules
            /\ f \in Resource[kind].ids /\ wanted[f] = program[f] /\ program[f] \in SUBSET Names
        <5>1. f \in ComparedOf(kind)
          BY <2>5 DEF ComparedOf, Unsent, UnsentOf
        <5>2. f \notin DOMAIN Resource[kind].diff.replace
          BY <2>2, <2>5 DEF Told
        <5> QED  BY <2>2, <2>4, <2>5, <3>2, <5>1, <5>2 DEF RuleOf, Unordered, AlwaysRules, ListRow, ArgsOf,
             FieldsOf
      <4>2. BareResourceID(old[f]) = BareResourceID(wanted[f])
        BY <2>2, <2>3, <4>1, SameAlike DEF Alike
      <4>3. old[f] = BareResourceID(program[f])
        BY <2>1, <3>2, <4>1, <4>2 DEF Listing, Bare
      <4> QED  BY <3>2, <4>1, <4>3, EqualUniform
    <3>3. CASE kind = "Port" /\ f = "securityGroups" /\ ~Uniform(program.securityGroups)
      BY <3>3 DEF Resorted
    <3> QED  BY <2>2, <2>5, <3>1, <3>2, <3>3 DEF Told
  <2> QED  BY <2>1, <2>3, <2>5, DiffOnly
<1>2. Faithful => Settled
  BY <1>1 DEF Settled, Leftover
<1> QED  BY <1>2, FaithfulHolds, PTL

(* After an up that succeeded the object at Nobus is what the program says,  *)
(* in every field that the provider compares and sends, for every kind of    *)
(* resource, whatever the ups, the refreshes and the failed requests before. *)
THEOREM ProgramsAreApplied == Spec => []Applied
<1>1. ASSUME Faithful, upToDate, stack.id \in Live,
             faults \cap {"lost", "defaults", "blank"} = {}, ~ {"import", "clear"} \subseteq faults,
             kind = "Instance" => /\ faults \cap {"refuse", "wait"} = {}
                                  /\ ~ {"slow", "strict"} \subseteq faults,
             NEW f \in Tracked, checkResourceArgs(program)[f] # {} \/ f \in Cleared
      PROVE  BareResourceID(remote[stack.id].fields[f]) = BareResourceID(checkResourceArgs(program)[f])
  <2> DEFINE wanted == checkResourceArgs(program)[f]
             s == stack.state
             r == remote[stack.id].fields
  <2>1. Types /\ Settles /\ Copied /\ NeverGiven /\ Straight /\ Smooth /\ op.do \in {"idle", "refresh"}
    BY <1>1 DEF Faithful, Shape, Resting, Straight, Smooth
  <2>2. f \in ComparedOf(kind) /\ Told(kind) /\ (f \in Cleared => RuleOf(kind, f) \in AlwaysRules)
    BY <1>1, <2>1, RulesAre
  <2>3. ~Changed(RuleOf(kind, f), s[f], wanted)
    BY <1>1, <2>1, <2>2 DEF Settles, Counted
  <2>4. Mirrors(f, r, s)
    BY <1>1, <2>1 DEF Copied, Mirroring
  <2> HIDE DEF wanted, s, r
  <2>5. /\ wanted # {} => s[f] # {} /\ Alike(kind, f, s[f], wanted)
        /\ f \in Cleared /\ wanted = {} => s[f] = {}
    BY <2>2, <2>3, SameAlike
  <2>6. CASE wanted # {}
    BY <2>4, <2>5, <2>6 DEF Mirrors, Alike, wanted, r
  <2>7. CASE wanted = {}
    <3>1. f \in Cleared
      BY <1>1, <2>7 DEF wanted
    <3>2. CASE "import" \notin faults
      BY <2>4, <2>5, <2>7, <3>1, <3>2 DEF Mirrors, Whole, wanted, r
    <3>3. CASE "clear" \notin faults
      <4>1. stack.id \in Objects
        BY <1>1, LiveIs
      <4> QED  BY <2>1, <2>2, <2>7, <3>1, <3>3, <4>1, StaysBlank DEF wanted
    <3> QED  BY <1>1, <3>2, <3>3
  <2> QED  BY <2>6, <2>7
<1>2. Faithful => Applied
  BY <1>1 DEF Applied, AsProgrammed
<1> QED  BY <1>2, FaithfulHolds, PTL
=============================================================================
