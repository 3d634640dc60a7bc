-------------------------- MODULE SnapshotsProofs ---------------------------
(***************************************************************************)
(* Theorems of Snapshots, for any number of controllers, handlers, source  *)
(* volumes and snapshot IDs, any bounds of the sampling loop and any set   *)
(* of faults.                                                              *)
(***************************************************************************)
EXTENDS Snapshots, TLAPS

USE DEF NoId, Present

-----------------------------------------------------------------------------
(* Handles. *)

(* The driver reads back the zone and the ID that it made a handle of. *)
LEMMA EncodeDecode ==
    ASSUME NEW i, NEW z, z # "", NEW fallback
    PROVE  /\ Len(encodeSnapshotID(i, z)) = 2
           /\ IdOf(encodeSnapshotID(i, z)) = i
           /\ decodeSnapshotID(encodeSnapshotID(i, z), fallback) = [id |-> i, zone |-> z]
<1>1. encodeSnapshotID(i, z) = <<z, i>>
  BY DEF encodeSnapshotID
<1>2. Len(<<z, i>>) = 2 /\ <<z, i>>[1] = z /\ <<z, i>>[2] = i
  OBVIOUS
<1> QED  BY <1>1, <1>2 DEF IdOf, decodeSnapshotID

(* The bare ID of a registered snapshot names it. *)
LEMMA BareHandle == ASSUME NEW i, NEW fallback PROVE decodeSnapshotID(<<i>>, fallback).id = i
<1>1. Len(<<i>>) = 1 /\ <<i>>[1] = i
  OBVIOUS
<1> QED  BY <1>1 DEF IdOf, decodeSnapshotID

-----------------------------------------------------------------------------
(* The local state of a handler. *)

LEMMA IdleGood == /\ GoodCall(Idle) /\ Idle \in Call /\ Idle.pc = "idle" /\ Idle.todo = {}
                  /\ Idle.site = "first" /\ Idle.attempt = 0
  BY SampleAssumption DEF Idle, GoodCall, Call

(* What a handler remembers of its sampling, the todo and the canonical snapshot apart. *)
LEMMA ResampleGood ==
    ASSUME NEW h \in Call, GoodCall(h), h.site = "created", h.volume \in Volumes
    PROVE  /\ GoodCall(Resample(h)) /\ Resample(h) \in Call
           /\ Resample(h).pc = "list" /\ Resample(h).todo \subseteq h.todo /\ Resample(h).volume = h.volume
<1> DEFINE n == h.attempt + 1
<1>1. n \in 0..Attempts
  BY SampleAssumption DEF GoodCall, Call
<1>2. CASE n < Attempts
  <2>1. Resample(h) = [h EXCEPT !.pc = "list", !.canonical = NoId, !.attempt = n, !.site = "created"]
    BY <1>2 DEF Resample
  <2> HIDE DEF n
  <2> QED  BY <1>1, <1>2, <2>1 DEF GoodCall, Call
<1>3. CASE ~(n < Attempts)
  <2>1. Resample(h) = [Idle EXCEPT !.pc = "list", !.volume = h.volume, !.attempt = n, !.site = "final"]
    BY <1>3 DEF Resample
  <2> HIDE DEF n
  <2>2. Resample(h) \in Call
    BY <1>1, <2>1, IdleGood DEF Call
  <2>3. /\ Resample(h).pc = "list" /\ Resample(h).todo = {} /\ Resample(h).volume = h.volume
        /\ Resample(h).site = "final"
    BY <2>1 DEF Idle
  <2> QED  BY <2>2, <2>3 DEF GoodCall
<1> QED  BY <1>2, <1>3

(* A handler that goes on after a list, or after a delete of a duplicate: it has its
   canonical snapshot still, unless it samples again. *)
Follows(g, h) ==
    /\ GoodCall(g) /\ g \in Call
    /\ g.pc # "idle" /\ g.pc # "source" /\ g.todo \subseteq h.todo /\ g.volume = h.volume
    /\ g.pc \in {"reap", "answer"} => g.canonical = h.canonical

LEMMA ChosenGood ==
    ASSUME NEW h \in Call, h.volume \in Volumes, h.canonical \in Ids, h.todo = {}
    PROVE  Follows(Chosen(h), h)
<1>1. /\ Chosen(h) \in Call /\ Chosen(h).pc = "answer" /\ Chosen(h).todo = {}
      /\ Chosen(h).volume = h.volume /\ Chosen(h).canonical = h.canonical
      /\ Chosen(h).site = "first" /\ Chosen(h).attempt = 0
  BY IdleGood DEF Chosen, Idle, Call
<1> QED  BY <1>1, SampleAssumption DEF GoodCall, Follows

LEMMA SampledGood ==
    ASSUME NEW h \in Call, GoodCall(h), h.site = "created", h.volume \in Volumes, h.canonical \in Ids,
           h.todo = {}
    PROVE  Follows(Sampled(h), h)
<1> DEFINE n == IF h.canonical = h.previous THEN h.stable + 1 ELSE 1
           g == [h EXCEPT !.previous = h.canonical, !.stable = n]
<1>1. n \in Nat
  BY DEF Call
<1>2. g \in Call /\ g.site = "created" /\ g.todo = h.todo /\ g.volume = h.volume /\ g.pc = h.pc
      /\ g.canonical = h.canonical /\ g.attempt = h.attempt
  BY <1>1 DEF Call
<1>3. GoodCall(g)
  BY <1>2 DEF GoodCall
<1>4. Follows(Resample(g), h)
  <2> HIDE DEF g
  <2> QED  BY <1>2, <1>3, ResampleGood DEF Follows
<1> QED  BY <1>4, ChosenGood DEF Sampled

LEMMA ReconciledGood ==
    ASSUME NEW h \in Call, GoodCall(h), h.volume \in Volumes, h.canonical \in Ids
    PROVE  Follows(Reconciled(h), h)
<1>1. CASE h.todo # {}
  <2>1. [h EXCEPT !.pc = "reap"] \in Call
    BY DEF Call
  <2> QED  BY <1>1, <2>1 DEF Reconciled, Follows, GoodCall, Call
<1>2. CASE h.todo = {} /\ h.site = "created"
  BY <1>2, SampledGood DEF Reconciled
<1>3. CASE h.todo = {} /\ h.site # "created"
  BY <1>3, ChosenGood DEF Reconciled
<1> QED  BY <1>1, <1>2, <1>3

-----------------------------------------------------------------------------
(* The inductive invariant. *)

(* A snapshot that was deleted was reaped or dropped. *)
Accounted == \A i \in Ids : status[i] \in {"deleting", "gone"} <=> i \in reaped \cup dropped

(* NameNeverLost, of one snapshot. *)
Below(d) == \E k \in Ids : k < d /\ source[k] = source[d] /\ Survives(k)

(* Where IDs grow and the list is complete. *)
Ordered == {"unordered", "lag"} \cap faults = {}

Listed == "lag" \notin faults => \A i \in Ids : status[i] # "none" => i \in listed

(* No list of its zone will ever show an older snapshot. *)
Settled(c) ==
    \A j \in Ids : j < c /\ status[j] # "none" /\ zone(j) = zone(c) => status[j] = "gone"

(* A snapshot that a handler of the volume chose, or was answered with. *)
ChosenFor(c, v) ==
    /\ c \in Ids /\ status[c] # "none" /\ source[c] = v
    /\ Ordered => Settled(c)

(* What handler r, in the local state h, knows. *)
Fine(r, h) ==
    /\ h.pc \notin {"idle", "source"} => VolumeZone[h.volume] = ConfigZone[Host[r]]
    /\ h.pc \in {"reap", "answer"} => ChosenFor(h.canonical, h.volume)
    /\ \A d \in h.todo : status[d] # "none" /\ Below(d)

HandlersFine == \A r \in Handlers : Fine(r, call[r])

ReturnedFine ==
    \A q \in returned :
        /\ q.volume \in Volumes /\ ChosenFor(IdOf(q.handle), q.volume)
        /\ q.handle = encodeSnapshotID(IdOf(q.handle), VolumeZone[q.volume])
        /\ q.handle \in deleted => status[IdOf(q.handle)] \in {"deleting", "gone"}

IInv ==
    /\ TypeOK /\ Accounted /\ NameNeverLost /\ Listed
    /\ HandlersFine /\ ReturnedFine

LEMMA InitInv == Init => IInv
<1> SUFFICES ASSUME Init PROVE IInv  OBVIOUS
<1>1. TypeOK
  BY IdleGood DEF Init, TypeOK
<1>2. HandlersFine
  BY IdleGood DEF Init, HandlersFine, Fine
<1>3. Accounted /\ NameNeverLost /\ Listed /\ ReturnedFine
  BY DEF Init, Accounted, NameNeverLost, Listed, ReturnedFine
<1> QED  BY <1>1, <1>2, <1>3 DEF IInv

-----------------------------------------------------------------------------
(* What the handlers do, seen from the state they act in. *)

(* Handler r gets the local state g, which is well formed and fine. *)
Becomes(r, g) == Set(r, g) /\ GoodCall(g) /\ Fine(r, g)

LEMMA BecomesHandlers ==
    ASSUME IInv, NEW r \in Handlers, NEW g, Becomes(r, g)
    PROVE  /\ call' \in [Handlers -> Call]
           /\ \A q \in Handlers : GoodCall(call'[q]) /\ Fine(q, call'[q])
<1>1. TypeOK /\ HandlersFine /\ g \in Call
  BY DEF IInv, Becomes, GoodCall
<1>2. call' \in [Handlers -> Call] /\ call'[r] = g /\ \A q \in Handlers : q # r => call'[q] = call[q]
  BY <1>1 DEF TypeOK, Becomes, Set
<1>3. ASSUME NEW q \in Handlers PROVE GoodCall(call'[q]) /\ Fine(q, call'[q])
  <2>1. CASE q = r
    BY <1>2, <2>1 DEF Becomes
  <2>2. CASE q # r
    BY <1>1, <1>2, <2>2 DEF TypeOK, HandlersFine
  <2> QED  BY <2>1, <2>2
<1> QED  BY <1>2, <1>3

LEMMA ReplyBecomes == ASSUME NEW r \in Handlers, Reply(r) PROVE Becomes(r, Idle)
  BY IdleGood DEF Reply, Becomes, Fine

LEMMA StartBecomes ==
    ASSUME NEW r \in Handlers, NEW v \in Volumes, Start(r, v) PROVE \E g \in Call : Becomes(r, g)
<1> DEFINE g == [Idle EXCEPT !.pc = "source", !.volume = v]
<1>1. g \in Call /\ g.pc = "source" /\ g.volume = v /\ g.todo = {} /\ g.site = "first" /\ g.attempt = 0
  BY IdleGood DEF Call
<1>2. Set(r, g)
  BY DEF Start
<1> HIDE DEF g
<1>3. Becomes(r, g)
  BY <1>1, <1>2, SampleAssumption DEF Becomes, GoodCall, Fine
<1> QED  BY <1>1, <1>3

LEMMA SourceReadBecomes ==
    ASSUME IInv, NEW r \in Handlers, SourceRead(r) PROVE \E g \in Call : Becomes(r, g)
<1> DEFINE g == [call[r] EXCEPT !.pc = "list"]
<1>0. call[r] \in Call /\ GoodCall(call[r]) /\ Fine(r, call[r]) /\ call[r].pc = "source"
  BY DEF IInv, TypeOK, HandlersFine, SourceRead
<1>1. g \in Call /\ g.pc = "list" /\ g.volume = call[r].volume /\ g.todo = call[r].todo
      /\ g.site = call[r].site /\ g.attempt = call[r].attempt
  BY <1>0 DEF Call
<1>2. CASE VolumeZone[call[r].volume] = ConfigZone[Host[r]] /\ Set(r, g)
  <2> HIDE DEF g
  <2>1. Becomes(r, g)
    BY <1>0, <1>1, <1>2 DEF Becomes, GoodCall, Fine
  <2> QED  BY <1>1, <2>1
<1>3. CASE Reply(r)
  BY <1>3, ReplyBecomes, IdleGood
<1> QED  BY <1>2, <1>3 DEF SourceRead

(* The first list, a late create and the sampling: the least snapshot is chosen, which is
   settled where the list is complete, and survives or has a survivor below it. *)
LEMMA ListFoundBecomes ==
    ASSUME IInv, NEW r \in Handlers, ListFound(r) PROVE \E g \in Call : Becomes(r, g)
<1> DEFINE z == ConfigZone[Host[r]]
           V == Visible(z)
<1>0. /\ TypeOK /\ Accounted /\ NameNeverLost /\ Listed
      /\ call[r] \in Call /\ GoodCall(call[r]) /\ Fine(r, call[r]) /\ call[r].pc = "list"
  BY DEF IInv, TypeOK, HandlersFine, ListFound
<1>1. PICK k \in V :
        /\ IsLeast(k, V)
        /\ Set(r, Reconciled([call[r] EXCEPT !.canonical = k, !.todo = V \ {k}]))
  BY DEF ListFound, Canonical
<1>2. V \subseteq Ids /\ \A i \in V : i \in Nat /\ status[i] \in Present /\ zone(i) = z
                              /\ source[i] = call[r].volume
  BY <1>0, IdsAssumption DEF TypeOK, Visible, ListFound, compatible
<1>3. ASSUME Ordered PROVE Settled(k)
  <2> SUFFICES ASSUME NEW j \in Ids, j < k, status[j] # "none", zone(j) = zone(k)
               PROVE  status[j] = "gone"
    BY DEF Settled
  <2>1. j \notin V
    BY <1>1, <1>2, IdsAssumption DEF IsLeast
  <2>2. j \in listed
    BY <1>0, <1>3 DEF Ordered, Listed
  <2>3. zone(j) = z
    BY <1>2
  <2> QED  BY <1>0, <2>1, <2>2, <2>3 DEF TypeOK, Visible
<1>4. ASSUME NEW d \in V \ {k} PROVE status[d] # "none" /\ Below(d)
  <2>1. k < d /\ source[k] = source[d] /\ k \in Ids /\ d \in Ids /\ status[k] \in Present
        /\ status[d] \in Present
    BY <1>1, <1>2 DEF IsLeast
  <2> HIDE DEF V
  <2>2. CASE k \notin reaped
    BY <1>0, <2>1, <2>2 DEF Below, Accounted, Survives
  <2>3. CASE k \in reaped
    <3>1. PICK j \in Ids : j < k /\ source[j] = source[k] /\ Survives(j)
      BY <1>0, <2>3 DEF NameNeverLost
    <3>2. j < d
      BY <2>1, <3>1, IdsAssumption
    <3> QED  BY <2>1, <3>1, <3>2 DEF Below
  <2> QED  BY <2>1, <2>2, <2>3
<1>5. ChosenFor(k, call[r].volume)
  BY <1>1, <1>2, <1>3 DEF ChosenFor
<1> DEFINE h == [call[r] EXCEPT !.canonical = k, !.todo = V \ {k}]
<1>6. h \in Call /\ h.pc = "list" /\ h.volume = call[r].volume /\ h.todo = V \ {k} /\ h.canonical = k
      /\ h.site = call[r].site /\ h.attempt = call[r].attempt
  <2>1. k \in Ids /\ V \ {k} \subseteq Ids
    BY <1>2
  <2> HIDE DEF V
  <2> QED  BY <1>0, <2>1 DEF Call
<1> HIDE DEF h
<1>7. GoodCall(h) /\ h.volume \in Volumes /\ h.canonical \in Ids
  BY <1>0, <1>2, <1>6 DEF GoodCall
<1>8. Follows(Reconciled(h), h)
  BY <1>6, <1>7, ReconciledGood
<1>9. Set(r, Reconciled(h))
  BY <1>1 DEF h
<1> HIDE DEF V
<1>10. Fine(r, Reconciled(h))
  BY <1>0, <1>4, <1>5, <1>6, <1>8 DEF Fine, Follows
<1> QED  BY <1>8, <1>9, <1>10 DEF Becomes, Follows

LEMMA ListEmptyBecomes ==
    ASSUME IInv, NEW r \in Handlers, ListEmpty(r) PROVE \E g \in Call : Becomes(r, g)
<1> DEFINE g == [call[r] EXCEPT !.pc = "create"]
<1>0. /\ call[r] \in Call /\ GoodCall(call[r]) /\ Fine(r, call[r]) /\ call[r].pc = "list"
      /\ call[r].volume \in Volumes
  BY DEF IInv, TypeOK, GoodCall, HandlersFine, ListEmpty
<1>1. g \in Call /\ g.pc = "create" /\ g.volume = call[r].volume /\ g.todo = call[r].todo
      /\ g.site = call[r].site /\ g.attempt = call[r].attempt
  BY <1>0 DEF Call
<1>2. CASE call[r].site = "first" /\ Set(r, g)
  <2> HIDE DEF g
  <2>1. Becomes(r, g)
    BY <1>0, <1>1, <1>2 DEF Becomes, GoodCall, Fine
  <2> QED  BY <1>1, <2>1
<1>3. CASE call[r].site = "created" /\ Set(r, Resample(call[r]))
  <2>1. /\ GoodCall(Resample(call[r])) /\ Resample(call[r]) \in Call /\ Resample(call[r]).pc = "list"
        /\ Resample(call[r]).todo \subseteq call[r].todo /\ Resample(call[r]).volume = call[r].volume
    BY <1>0, <1>3, ResampleGood
  <2>2. Becomes(r, Resample(call[r]))
    BY <1>0, <1>3, <2>1 DEF Becomes, Fine
  <2> QED  BY <2>1, <2>2
<1>4. CASE Reply(r)
  BY <1>4, ReplyBecomes, IdleGood
<1> QED  BY <1>2, <1>3, <1>4 DEF ListEmpty

LEMMA SkipBecomes ==
    ASSUME IInv, NEW r \in Handlers, call[r].pc = "reap", NEW d, Skip(r, d)
    PROVE  \E g \in Call : Becomes(r, g)
<1> DEFINE h == [call[r] EXCEPT !.todo = call[r].todo \ {d}]
<1>0. call[r] \in Call /\ GoodCall(call[r]) /\ Fine(r, call[r])
  BY DEF IInv, TypeOK, HandlersFine
<1>1. h \in Call /\ h.pc = "reap" /\ h.volume = call[r].volume /\ h.todo \subseteq call[r].todo
      /\ h.canonical = call[r].canonical /\ h.site = call[r].site /\ h.attempt = call[r].attempt
  BY <1>0 DEF Call
<1>2. Set(r, Reconciled(h))
  BY DEF Skip
<1> HIDE DEF h
<1>3. GoodCall(h) /\ h.volume \in Volumes /\ h.canonical \in Ids
  BY <1>0, <1>1 DEF GoodCall
<1>4. Follows(Reconciled(h), h)
  BY <1>1, <1>3, ReconciledGood
<1>5. Becomes(r, Reconciled(h))
  BY <1>0, <1>1, <1>2, <1>4 DEF Becomes, Fine, Follows
<1> QED  BY <1>4, <1>5 DEF Follows

LEMMA CreatedBecomes ==
    ASSUME IInv, NEW r \in Handlers, Created(r) PROVE \E g \in Call : Becomes(r, g)
<1> DEFINE g == [call[r] EXCEPT !.pc = "list", !.site = "created"]
<1>0. /\ call[r] \in Call /\ GoodCall(call[r]) /\ Fine(r, call[r]) /\ call[r].pc = "create"
  BY DEF IInv, TypeOK, HandlersFine, Created
<1>1. g \in Call /\ g.pc = "list" /\ g.volume = call[r].volume /\ g.todo = call[r].todo
      /\ g.site = "created" /\ g.attempt = call[r].attempt
  BY <1>0 DEF Call
<1>2. CASE Set(r, g)
  <2> HIDE DEF g
  <2>1. Becomes(r, g)
    BY <1>0, <1>1, <1>2 DEF Becomes, GoodCall, Fine
  <2> QED  BY <1>1, <2>1
<1>3. CASE Reply(r)
  BY <1>3, ReplyBecomes, IdleGood
<1> QED  BY <1>2, <1>3 DEF Created

LEMMA NextHandlers ==
    ASSUME IInv, [Next]_vars
    PROVE  /\ call' \in [Handlers -> Call]
           /\ \A q \in Handlers : GoodCall(call'[q]) /\ Fine(q, call'[q])
<1> DEFINE Goal == /\ call' \in [Handlers -> Call]
                   /\ \A q \in Handlers : GoodCall(call'[q]) /\ Fine(q, call'[q])
<1>0. TypeOK /\ HandlersFine
  BY DEF IInv
<1>1. ASSUME NEW r \in Handlers, \E g \in Call : Becomes(r, g) PROVE Goal
  BY <1>1, BecomesHandlers
<1>2. ASSUME NEW r \in Handlers, Reply(r) PROVE Goal
  BY <1>2, ReplyBecomes, BecomesHandlers
<1>3. ASSUME NEW r \in Handlers, Serve(r) PROVE Goal
  <2>1. CASE SourceRead(r) \/ ListFound(r) \/ ListEmpty(r) \/ Created(r)
    BY <1>1, <2>1, SourceReadBecomes, ListFoundBecomes, ListEmptyBecomes, CreatedBecomes
  <2>2. CASE ListIncompatible(r) \/ CreateLate(r) \/ AnswerOK(r) \/ CallFails(r)
    BY <1>2, <2>2 DEF ListIncompatible, CreateLate, AnswerOK, CallFails
  <2>3. CASE DeleteAccepted(r) \/ DeleteRefused(r)
    <3>1. call[r].pc = "reap" /\ (Reply(r) \/ \E d \in call[r].todo : Skip(r, d))
      BY <2>3 DEF DeleteAccepted, DeleteRefused
    <3> QED  BY <1>1, <1>2, <3>1, SkipBecomes
  <2> QED  BY <1>3, <2>1, <2>2, <2>3 DEF Serve
<1>4. ASSUME NEW r \in Handlers, NEW v \in Volumes, Start(r, v) PROVE Goal
  BY <1>1, <1>4, StartBecomes
<1>5. ASSUME NEW c \in Controllers, Crash(c) PROVE Goal
  <2>1. call' = [r \in Handlers |-> IF Host[r] = c THEN Idle ELSE call[r]]
    BY <1>5 DEF Crash
  <2>2. \A q \in Handlers : Fine(q, Idle)
    BY IdleGood DEF Fine
  <2> QED  BY <1>0, <2>1, <2>2, IdleGood DEF TypeOK, HandlersFine
<1>6. CASE UNCHANGED call
  BY <1>0, <1>6 DEF TypeOK, HandlersFine
<1>7. CASE \/ \E c \in Controllers, handle \in Handles : DeleteSnapshot(c, handle)
           \/ \E i \in Ids : Appear(i) \/ Purge(i)
           \/ TakeEffect \/ UNCHANGED vars
  BY <1>6, <1>7 DEF DeleteSnapshot, Appear, Purge, TakeEffect, vars, handlerVars
<1> QED  BY <1>3, <1>4, <1>5, <1>7 DEF Next

-----------------------------------------------------------------------------
(* What happens to the snapshots. *)

WorldTypes ==
    /\ status \in [Ids -> Present \cup {"none", "gone"}]
    /\ source \in [Ids -> Volumes \cup {NoVolume}]
    /\ listed \subseteq Ids
    /\ reaped \cup dropped \subseteq Ids
    /\ faults \in Environments

(* A snapshot keeps its source and goes one way, new ones come on top where IDs grow, and
   below each one that had a survivor there still is one. *)
Keeps ==
    /\ faults' = faults
    /\ \A i \in Ids : status[i] # "none" => status'[i] # "none" /\ source'[i] = source[i]
    /\ \A i \in Ids : status[i] \in {"deleting", "gone"} => status'[i] \in {"deleting", "gone"}
    /\ \A i \in Ids : status[i] = "gone" => status'[i] = "gone"
    /\ "unordered" \notin faults =>
          \A i, j \in Ids : status[i] = "none" /\ status'[i] # "none" /\ status[j] # "none" => j < i
    /\ \A d \in Ids : status[d] # "none" /\ Below(d) => Below(d)'

WorldStep ==
    /\ WorldTypes' /\ Accounted' /\ Listed' /\ Keeps
    /\ \A d \in reaped' \ reaped : d \in Ids /\ status[d] # "none" /\ Below(d)

(* Below(d) lasts where sources are kept and no survivor is reaped. *)
LEMMA BelowKept ==
    ASSUME Accounted, reaped' = reaped, NEW d \in Ids, status[d] # "none", Below(d),
           \A i \in Ids : status[i] # "none" => source'[i] = source[i],
           \A i \in Ids : status[i] # "none" /\ Survives(i) => Survives(i)'
    PROVE  Below(d)'
<1>1. PICK k \in Ids : k < d /\ source[k] = source[d] /\ Survives(k)
  BY DEF Below
<1>2. status[k] # "none"
  BY <1>1 DEF Accounted, Survives
<1> QED  BY <1>1, <1>2 DEF Below

LEMMA QuietWorld ==
    ASSUME IInv, UNCHANGED <<status, source, reaped, dropped, faults>>,
           listed' \subseteq Ids, listed \subseteq listed'
    PROVE  WorldStep
<1>0. TypeOK /\ Accounted /\ Listed
  BY DEF IInv
<1>1. WorldTypes' /\ Accounted' /\ Listed'
  BY <1>0 DEF TypeOK, WorldTypes, Accounted, Listed
<1>2. Keeps
  BY <1>0, BelowKept DEF Keeps, Survives
<1> QED  BY <1>1, <1>2 DEF WorldStep

LEMMA NewWorld ==
    ASSUME IInv, NEW v \in Volumes, NewSnapshot(v), UNCHANGED ghostVars PROVE WorldStep
<1>0. TypeOK /\ Accounted /\ Listed /\ UNCHANGED <<reaped, dropped, faults>>
  BY DEF IInv, ghostVars
<1>1. PICK i \in Ids : /\ Fresh(i)
                       /\ status' = [status EXCEPT ![i] = "available"]
                       /\ source' = [source EXCEPT ![i] = v]
                       /\ \/ listed' = listed \cup {i}
                          \/ "lag" \in faults /\ UNCHANGED listed
  BY DEF NewSnapshot
<1>2. status[i] = "none" /\ ("unordered" \notin faults => \A j \in Ids : status[j] # "none" => j < i)
  BY <1>1 DEF Fresh
<1>3. WorldTypes'
  BY <1>0, <1>1 DEF TypeOK, WorldTypes
<1>4. i \notin reaped \cup dropped
  BY <1>0, <1>2 DEF Accounted
<1>5. Accounted' /\ Listed'
  BY <1>0, <1>1, <1>2, <1>4 DEF TypeOK, Accounted, Listed
<1>6. \A j \in Ids : status[j] # "none" => status'[j] = status[j] /\ source'[j] = source[j]
  BY <1>0, <1>1, <1>2 DEF TypeOK
<1>7. \A d \in Ids : status[d] # "none" /\ Below(d) => Below(d)'
  BY <1>0, <1>6, BelowKept DEF Survives
<1>8. \A j \in Ids : status[j] = "none" /\ status'[j] # "none" => j = i
  BY <1>0, <1>1 DEF TypeOK
<1>9. Keeps
  BY <1>0, <1>2, <1>6, <1>7, <1>8 DEF Keeps
<1> QED  BY <1>0, <1>3, <1>5, <1>9 DEF WorldStep

(* A delete by reconciliation: what is below the reaped snapshot takes its place. *)
LEMMA DeleteAcceptedWorld == ASSUME IInv, NEW r \in Handlers, DeleteAccepted(r) PROVE WorldStep
<1>0. TypeOK /\ Accounted /\ Listed /\ Fine(r, call[r]) /\ call[r] \in Call
      /\ UNCHANGED <<source, listed, dropped, faults>>
  BY DEF IInv, TypeOK, HandlersFine, DeleteAccepted
<1>1. PICK e \in call[r].todo :
        /\ status[e] \in Present
        /\ status' = [status EXCEPT ![e] = "deleting"]
        /\ reaped' = IF status[e] = "available" THEN reaped \cup {e} ELSE reaped
  BY DEF DeleteAccepted
<1>2. e \in Ids /\ Below(e)
  BY <1>0, <1>1 DEF Call, Fine
<1>3. WorldTypes' /\ Accounted' /\ Listed'
  BY <1>0, <1>1, <1>2 DEF TypeOK, WorldTypes, Accounted, Listed
<1>4. ASSUME NEW k \in Ids, k # e, Survives(k) PROVE Survives(k)'
  BY <1>0, <1>1, <1>2, <1>4 DEF TypeOK, Survives
<1>5. ASSUME NEW d \in Ids, Below(d) PROVE Below(d)'
  <2>1. PICK k \in Ids : k < d /\ source[k] = source[d] /\ Survives(k)
    BY <1>5 DEF Below
  <2>2. CASE k # e
    BY <1>0, <1>4, <2>1, <2>2 DEF Below
  <2>3. CASE k = e
    <3>1. PICK j \in Ids : j < e /\ source[j] = source[e] /\ Survives(j)
      BY <1>2 DEF Below
    <3>2. j # e /\ j < d
      BY <2>1, <2>3, <3>1, IdsAssumption
    <3> QED  BY <1>0, <1>4, <2>1, <2>3, <3>1, <3>2 DEF Below
  <2> QED  BY <2>2, <2>3
<1>6. Keeps
  BY <1>0, <1>1, <1>2, <1>5 DEF TypeOK, Keeps
<1> QED  BY <1>1, <1>2, <1>3, <1>6 DEF WorldStep

(* DeleteSnapshot takes a survivor's place in dropped. *)
LEMMA DroppedWorld ==
    ASSUME IInv, NEW i \in Ids, status[i] \in Present, status' = [status EXCEPT ![i] = "deleting"],
           dropped' = dropped \cup {i}, UNCHANGED <<source, listed, reaped, faults>>
    PROVE  WorldStep
<1>0. TypeOK /\ Accounted /\ Listed
  BY DEF IInv
<1>1. WorldTypes' /\ Accounted' /\ Listed'
  BY <1>0 DEF TypeOK, WorldTypes, Accounted, Listed
<1>2. \A k \in Ids : Survives(k) => Survives(k)'
  BY <1>0 DEF TypeOK, Survives
<1>3. \A d \in Ids : status[d] # "none" /\ Below(d) => Below(d)'
  BY <1>0, <1>2, BelowKept
<1>4. Keeps
  BY <1>0, <1>3 DEF TypeOK, Keeps
<1> QED  BY <1>1, <1>4 DEF WorldStep

LEMMA PurgeWorld == ASSUME IInv, NEW i \in Ids, Purge(i) PROVE WorldStep
<1>0. /\ TypeOK /\ Accounted /\ Listed /\ UNCHANGED <<source, listed, reaped, dropped, faults>>
      /\ status[i] = "deleting" /\ status' = [status EXCEPT ![i] = "gone"]
  BY DEF IInv, Purge, ghostVars
<1>1. WorldTypes' /\ Accounted' /\ Listed'
  BY <1>0 DEF TypeOK, WorldTypes, Accounted, Listed
<1>2. \A k \in Ids : Survives(k) => Survives(k)'
  BY <1>0 DEF TypeOK, Survives
<1>3. \A d \in Ids : status[d] # "none" /\ Below(d) => Below(d)'
  BY <1>0, <1>2, BelowKept
<1>4. Keeps
  BY <1>0, <1>3 DEF TypeOK, Keeps
<1> QED  BY <1>0, <1>1, <1>4 DEF WorldStep

(* The handles that DeleteSnapshot is called with name a snapshot. *)
LEMMA HandleNames ==
    ASSUME IInv, NEW c \in Controllers, NEW handle \in Handles
    PROVE  decodeSnapshotID(handle, ConfigZone[c]).id \in Ids
<1>1. CASE \E q \in returned : handle = q.handle
  <2>1. PICK q \in returned : handle = q.handle
    BY <1>1
  <2>2. q.volume \in Volumes /\ IdOf(handle) \in Ids
        /\ handle = encodeSnapshotID(IdOf(handle), VolumeZone[q.volume])
    BY <2>1 DEF IInv, ReturnedFine, ChosenFor
  <2> DEFINE i == IdOf(handle)
             z == VolumeZone[q.volume]
  <2>3. z # "" /\ i \in Ids /\ handle = encodeSnapshotID(i, z)
    BY <2>2, ZoneAssumption
  <2> HIDE DEF i, z
  <2> DEFINE s == decodeSnapshotID(handle, ConfigZone[c])
  <2>4. s = [id |-> i, zone |-> z]
    BY <2>3, EncodeDecode
  <2> HIDE DEF s
  <2>5. s.id \in Ids
    BY <2>3, <2>4
  <2> QED  BY <2>5 DEF s
<1>2. CASE \E i \in Registered : handle = <<i>>
  BY <1>2, BareHandle, IdsAssumption
<1> QED  BY <1>1, <1>2 DEF Handles

LEMMA NextWorld == ASSUME IInv, [Next]_vars PROVE WorldStep
<1>0. TypeOK
  BY DEF IInv
<1> DEFINE Quiet == /\ UNCHANGED <<status, source, reaped, dropped, faults>>
                    /\ listed' \subseteq Ids /\ listed \subseteq listed'
<1>Q. Quiet => WorldStep
  BY QuietWorld
<1>1. ASSUME NEW r \in Handlers, Serve(r) PROVE WorldStep
  <2>1. CASE SourceRead(r) \/ ListFound(r) \/ ListEmpty(r) \/ ListIncompatible(r)
             \/ DeleteRefused(r) \/ CallFails(r) \/ CreateLate(r) \/ AnswerOK(r)
    <3>1. Quiet
      BY <1>0, <2>1 DEF TypeOK, SourceRead, ListFound, ListEmpty, ListIncompatible, DeleteRefused,
                        CallFails, CreateLate, AnswerOK, nobusVars, ghostVars
    <3> QED  BY <1>Q, <3>1
  <2>2. CASE Created(r)
    <3>1. call[r].volume \in Volumes
      BY <1>0, <2>2 DEF TypeOK, GoodCall, Created
    <3> QED  BY <2>2, <3>1, NewWorld DEF Created
  <2> QED  BY <1>1, <2>1, <2>2, DeleteAcceptedWorld DEF Serve
<1>2. ASSUME NEW r \in Handlers, NEW v \in Volumes, Start(r, v) PROVE WorldStep
  BY <1>0, <1>2, <1>Q DEF TypeOK, Start, nobusVars, ghostVars
<1>3. ASSUME NEW c \in Controllers, Crash(c) PROVE WorldStep
  BY <1>0, <1>3, <1>Q DEF TypeOK, Crash, nobusVars, ghostVars
<1>4. ASSUME NEW c \in Controllers, NEW handle \in Handles, DeleteSnapshot(c, handle)
      PROVE  WorldStep
  <2>1. decodeSnapshotID(handle, ConfigZone[c]).id \in Ids
    BY HandleNames
  <2> DEFINE i == decodeSnapshotID(handle, ConfigZone[c]).id
  <2>2. /\ UNCHANGED <<source, listed, reaped, faults>>
        /\ \/ status[i] \in Present /\ status' = [status EXCEPT ![i] = "deleting"]
              /\ dropped' = dropped \cup {i}
           \/ UNCHANGED <<status, dropped>>
    BY <1>4 DEF DeleteSnapshot
  <2> HIDE DEF i
  <2>3. CASE UNCHANGED <<status, dropped>>
    BY <1>0, <1>Q, <2>2, <2>3 DEF TypeOK
  <2> QED  BY <2>1, <2>2, <2>3, DroppedWorld DEF i
<1>5. ASSUME NEW i \in Ids, Appear(i) PROVE WorldStep
  BY <1>0, <1>5, <1>Q DEF TypeOK, Appear, ghostVars
<1>6. CASE TakeEffect
  <2>1. PICK v \in late : NewSnapshot(v) /\ UNCHANGED ghostVars
    BY <1>6 DEF TakeEffect
  <2> QED  BY <1>0, <2>1, NewWorld DEF TypeOK
<1>7. CASE UNCHANGED vars
  BY <1>0, <1>7, <1>Q DEF TypeOK, vars, nobusVars, ghostVars
<1> QED  BY <1>1, <1>2, <1>3, <1>4, <1>5, <1>6, <1>7, PurgeWorld DEF Next

-----------------------------------------------------------------------------
(* What was chosen lasts. *)

LEMMA ChosenKept ==
    ASSUME TypeOK, Keeps, NEW c, NEW v, ChosenFor(c, v) PROVE ChosenFor(c, v)'
<1>1. c \in Ids /\ status'[c] # "none" /\ source'[c] = v /\ source[c] = v
  BY DEF ChosenFor, Keeps
<1>2. ASSUME Ordered' PROVE Settled(c)'
  <2>1. Ordered /\ "unordered" \notin faults /\ Settled(c) /\ status[c] # "none"
    BY <1>2 DEF ChosenFor, Keeps, Ordered
  <2> SUFFICES ASSUME NEW j \in Ids, j < c, status'[j] # "none", zone(j)' = zone(c)'
               PROVE  status'[j] = "gone"
    BY DEF Settled
  <2>2. status[j] # "none"
    <3>1. status[j] = "none" => c < j
      BY <1>1, <2>1 DEF Keeps
    <3> QED  BY <1>1, <3>1, IdsAssumption
  <2>3. zone(j) = zone(c)
    BY <1>1, <2>2 DEF Keeps, zone
  <2> QED  BY <2>1, <2>2, <2>3 DEF Settled, Keeps
<1> QED  BY <1>1, <1>2 DEF ChosenFor

LEMMA HandlersInv == ASSUME IInv, [Next]_vars PROVE HandlersFine'
<1>0. TypeOK /\ Keeps
  BY NextWorld DEF IInv, WorldStep
<1> SUFFICES ASSUME NEW r \in Handlers PROVE Fine(r, call[r])'
  BY DEF HandlersFine
<1>1. PICK h \in Call : h = call'[r]
  BY NextHandlers
<1>2. Fine(r, h)
  BY <1>1, NextHandlers
<1>3. h.pc \in {"reap", "answer"} => ChosenFor(h.canonical, h.volume)'
  BY <1>0, <1>2, ChosenKept DEF Fine
<1>4. \A d \in h.todo : status'[d] # "none" /\ Below(d)'
  BY <1>0, <1>2 DEF Fine, Keeps, Call
<1>5. Fine(r, h)'
  BY <1>2, <1>3, <1>4 DEF Fine
<1> QED  BY <1>1, <1>5 DEF Fine

-----------------------------------------------------------------------------
(* What is returned and deleted. *)

LEMMA StillReturned ==
    ASSUME IInv, Keeps, NEW q \in returned, q.handle \in deleted' => q.handle \in deleted
    PROVE  /\ q.volume \in Volumes /\ ChosenFor(IdOf(q.handle), q.volume)'
           /\ q.handle = encodeSnapshotID(IdOf(q.handle), VolumeZone[q.volume])
           /\ q.handle \in deleted' => status'[IdOf(q.handle)] \in {"deleting", "gone"}
<1>1. TypeOK /\ q.volume \in Volumes /\ ChosenFor(IdOf(q.handle), q.volume)
      /\ q.handle = encodeSnapshotID(IdOf(q.handle), VolumeZone[q.volume])
      /\ (q.handle \in deleted => status[IdOf(q.handle)] \in {"deleting", "gone"})
  BY DEF IInv, ReturnedFine
<1>2. ChosenFor(IdOf(q.handle), q.volume)'
  BY <1>1, ChosenKept
<1> QED  BY <1>1, <1>2 DEF Keeps, ChosenFor

(* The answer: another call may have had the same snapshot as its answer before. *)
LEMMA AnswerReturned ==
    ASSUME IInv, NEW r \in Handlers, AnswerOK(r) PROVE ReturnedFine' /\ deleted' \subseteq {q.handle : q \in returned'}
<1>0. /\ TypeOK /\ GoodCall(call[r]) /\ Fine(r, call[r]) /\ call[r].pc = "answer" /\ ReturnedFine
      /\ UNCHANGED <<status, source, faults, deleted>>
  BY DEF IInv, TypeOK, HandlersFine, AnswerOK, nobusVars
<1> DEFINE c == call[r].canonical
           v == call[r].volume
           new == [handle |-> encodeSnapshotID(c, VolumeZone[v]), volume |-> v]
<1>1. v \in Volumes /\ ChosenFor(c, v) /\ VolumeZone[v] = ConfigZone[Host[r]]
  BY <1>0 DEF GoodCall, Fine
<1>2. returned' = returned \cup {new}
  BY <1>1 DEF AnswerOK, ChosenFor, zone
<1>3. new.volume = v /\ IdOf(new.handle) = c /\ new.handle = encodeSnapshotID(c, VolumeZone[v])
  BY <1>1, ZoneAssumption, EncodeDecode
<1> HIDE DEF c, v, new
<1>4. \A i, w : ChosenFor(i, w) => ChosenFor(i, w)'
  BY <1>0 DEF ChosenFor, Ordered, Settled, zone
<1>5. new.handle \in deleted => status[c] \in {"deleting", "gone"}
  <2> SUFFICES ASSUME new.handle \in deleted PROVE status[c] \in {"deleting", "gone"}  OBVIOUS
  <2>1. PICK q \in returned : q.handle = new.handle
    BY <1>0 DEF TypeOK
  <2> QED  BY <1>0, <1>3, <2>1 DEF ReturnedFine
<1>6. ASSUME NEW q \in returned'
      PROVE  /\ q.volume \in Volumes /\ ChosenFor(IdOf(q.handle), q.volume)'
             /\ q.handle = encodeSnapshotID(IdOf(q.handle), VolumeZone[q.volume])
             /\ q.handle \in deleted' => status'[IdOf(q.handle)] \in {"deleting", "gone"}
  <2>1. CASE q \in returned
    BY <1>0, <1>4, <2>1 DEF ReturnedFine
  <2>2. CASE q = new
    BY <1>0, <1>1, <1>3, <1>4, <1>5, <2>2
  <2> QED  BY <1>2, <2>1, <2>2
<1>7. ReturnedFine'
  BY <1>6 DEF ReturnedFine
<1> QED  BY <1>0, <1>2, <1>7 DEF TypeOK

(* The delete: a returned handle says where its snapshot is, so that a snapshot that is
   not found there is gone. *)
LEMMA DeleteReturned ==
    ASSUME IInv, Keeps, NEW c \in Controllers, NEW handle, DeleteSnapshot(c, handle)
    PROVE  ReturnedFine' /\ deleted' \subseteq {q.handle : q \in returned'}
<1>0. /\ TypeOK /\ ReturnedFine /\ returned' = returned
      /\ deleted' \subseteq deleted \cup ({handle} \cap {q.handle : q \in returned})
  BY DEF IInv, DeleteSnapshot
<1>1. ASSUME NEW q \in returned, q.handle = handle
      PROVE  status'[IdOf(handle)] \in {"deleting", "gone"}
  <2> DEFINE i == IdOf(handle)
             s == decodeSnapshotID(handle, ConfigZone[c])
  <2>1. /\ q.volume \in Volumes /\ ChosenFor(i, q.volume)
        /\ handle = encodeSnapshotID(i, VolumeZone[q.volume])
    BY <1>0, <1>1 DEF ReturnedFine
  <2>2. s = [id |-> i, zone |-> VolumeZone[q.volume]]
    BY <2>1, ZoneAssumption, EncodeDecode
  <2> HIDE DEF i, s
  <2>3. s.id = i /\ s.zone = zone(i) /\ i \in Ids /\ status[i] # "none"
    BY <2>1, <2>2 DEF ChosenFor, zone
  <2>4. \/ status' = [status EXCEPT ![s.id] = "deleting"]
        \/ ~(status[s.id] \in Present /\ zone(s.id) = s.zone) /\ status' = status
    BY DEF DeleteSnapshot, s
  <2>5. status'[i] \in {"deleting", "gone"}
    BY <1>0, <2>3, <2>4 DEF TypeOK
  <2> QED  BY <2>5 DEF i
<1>2. ASSUME NEW q \in returned
      PROVE  /\ q.volume \in Volumes /\ ChosenFor(IdOf(q.handle), q.volume)'
             /\ q.handle = encodeSnapshotID(IdOf(q.handle), VolumeZone[q.volume])
             /\ q.handle \in deleted' => status'[IdOf(q.handle)] \in {"deleting", "gone"}
  <2>1. q.handle # handle => (q.handle \in deleted' => q.handle \in deleted)
    BY <1>0
  <2>2. ChosenFor(IdOf(q.handle), q.volume)'
    BY <1>0, ChosenKept DEF ReturnedFine
  <2>3. CASE q.handle = handle
    BY <1>0, <1>1, <2>2, <2>3 DEF ReturnedFine
  <2> QED  BY <2>1, <2>3, StillReturned
<1>3. ReturnedFine'
  BY <1>0, <1>2 DEF ReturnedFine
<1> QED  BY <1>0, <1>3 DEF TypeOK

LEMMA OtherReturned ==
    ASSUME IInv, Keeps, UNCHANGED <<returned, deleted>>
    PROVE  ReturnedFine' /\ deleted' \subseteq {q.handle : q \in returned'}
<1>1. ReturnedFine'
  BY StillReturned DEF ReturnedFine
<1> QED  BY <1>1 DEF IInv, TypeOK

LEMMA NextReturned ==
    ASSUME IInv, [Next]_vars PROVE ReturnedFine' /\ deleted' \subseteq {q.handle : q \in returned'}
<1>0. Keeps
  BY NextWorld DEF WorldStep
<1>1. ASSUME NEW r \in Handlers, Serve(r), ~AnswerOK(r) PROVE UNCHANGED <<returned, deleted>>
  BY <1>1 DEF Serve, SourceRead, ListFound, ListEmpty, ListIncompatible, DeleteAccepted,
              DeleteRefused, Created, CreateLate, CallFails, ghostVars
<1>2. CASE \/ \E r \in Handlers, v \in Volumes : Start(r, v)
           \/ \E c \in Controllers : Crash(c)
           \/ \E i \in Ids : Appear(i) \/ Purge(i)
           \/ TakeEffect \/ UNCHANGED vars
  <2>1. UNCHANGED <<returned, deleted>>
    BY <1>2 DEF Start, Crash, Appear, Purge, TakeEffect, vars, ghostVars
  <2> QED  BY <1>0, <2>1, OtherReturned
<1> QED  BY <1>0, <1>1, <1>2, OtherReturned, AnswerReturned, DeleteReturned DEF Next

LEMMA NextTypes == ASSUME IInv, [Next]_vars PROVE TypeOK'
<1>0. TypeOK
  BY DEF IInv
<1>1. names' \subseteq Controllers
  <2>1. ASSUME NEW r \in Handlers, Serve(r) PROVE names' \subseteq names
    BY <2>1 DEF Serve, SourceRead, ListFound, ListEmpty, ListIncompatible, DeleteAccepted,
                DeleteRefused, Created, CreateLate, AnswerOK, CallFails, Reply
  <2>2. ASSUME NEW r \in Handlers, NEW v \in Volumes, Start(r, v) PROVE names' \subseteq Controllers
    BY <1>0, <2>2, HostAssumption DEF TypeOK, Start
  <2>3. ASSUME NEW c \in Controllers, Crash(c) PROVE names' \subseteq names
    BY <2>3 DEF Crash
  <2>4. CASE \/ \E c \in Controllers, handle \in Handles : DeleteSnapshot(c, handle)
             \/ \E i \in Ids : Appear(i) \/ Purge(i)
             \/ TakeEffect \/ UNCHANGED vars
    <3>1. names' = names
      BY <2>4 DEF DeleteSnapshot, Appear, Purge, TakeEffect, vars, handlerVars
    <3> QED  BY <1>0, <3>1 DEF TypeOK
  <2> QED  BY <1>0, <2>1, <2>2, <2>3, <2>4 DEF TypeOK, Next
<1>2. late' \subseteq Volumes
  <2>1. ASSUME NEW r \in Handlers, CreateLate(r) PROVE late' \subseteq Volumes
    BY <1>0, <2>1 DEF TypeOK, GoodCall, CreateLate
  <2>2. CASE \A r \in Handlers : ~CreateLate(r)
    BY <1>0, <2>2
       DEF TypeOK, Next, Serve, SourceRead, ListFound, ListEmpty, ListIncompatible, DeleteAccepted,
           DeleteRefused, Created, AnswerOK, CallFails, Start, Crash, DeleteSnapshot,
           Appear, Purge, TakeEffect, vars, nobusVars
  <2> QED  BY <2>1, <2>2
<1>3. \A q \in returned' : Len(q.handle) \in 1..2 /\ IdOf(q.handle) \in Ids /\ q.volume \in Volumes
  <2> SUFFICES ASSUME NEW q \in returned'
               PROVE  Len(q.handle) \in 1..2 /\ IdOf(q.handle) \in Ids /\ q.volume \in Volumes
    OBVIOUS
  <2>1. q.volume \in Volumes /\ IdOf(q.handle) \in Ids
        /\ q.handle = encodeSnapshotID(IdOf(q.handle), VolumeZone[q.volume])
    BY NextReturned DEF ReturnedFine, ChosenFor
  <2>2. Len(encodeSnapshotID(IdOf(q.handle), VolumeZone[q.volume])) = 2
    BY <2>1, ZoneAssumption, EncodeDecode
  <2> QED  BY <2>1, <2>2
<1>4. deleted' \subseteq {q.handle : q \in returned'}
  BY NextReturned
<1>5. WorldTypes'
  BY NextWorld DEF WorldStep
<1> QED  BY <1>1, <1>2, <1>3, <1>4, <1>5, NextHandlers DEF TypeOK, WorldTypes

LEMMA NextInv == ASSUME IInv, [Next]_vars PROVE IInv'
<1>1. NameNeverLost'
  <2> SUFFICES ASSUME NEW d \in reaped' PROVE Below(d)'
    BY DEF NameNeverLost, Below
  <2>1. d \in Ids /\ status[d] # "none" /\ Below(d)
    <3>1. CASE d \in reaped
      BY <3>1 DEF IInv, TypeOK, Accounted, NameNeverLost, Below
    <3>2. CASE d \notin reaped
      BY <3>2, NextWorld DEF WorldStep
    <3> QED  BY <3>1, <3>2
  <2> QED  BY <2>1, NextWorld DEF WorldStep, Keeps
<1> QED  BY <1>1, NextTypes, NextWorld, HandlersInv, NextReturned DEF WorldStep, IInv

LEMMA Invariant == Spec => []IInv
  BY InitInv, NextInv, PTL DEF Spec

-----------------------------------------------------------------------------
(* CreateSnapshot takes at most Attempts samples, a handler that deletes or answers has a
   canonical snapshot, and DeleteSnapshot never records a handle nobody was answered. *)
THEOREM TypeCorrect == Spec => []TypeOK
  BY Invariant, PTL DEF IInv

(* Whatever the controllers, crashes, list delays and late creates: below each snapshot that
   the reconciliation deleted there is one that only DeleteSnapshot can take away. *)
THEOREM NameIsNeverLost == Spec => []NameNeverLost
  BY Invariant, PTL DEF IInv

(* Where IDs grow and lists are complete, reconciliation deletes no snapshot that was
   answered, unless DeleteSnapshot was called for an older one of the same volume. *)
THEOREM ReturnedAreNotReaped == Spec => []ReturnedNotReaped
<1>1. IInv => ReturnedNotReaped
  <2> SUFFICES ASSUME IInv, Ordered, NEW q \in returned, IdOf(q.handle) \in reaped
               PROVE  \E k \in dropped : k < IdOf(q.handle) /\ source[k] = q.volume
    BY DEF ReturnedNotReaped, Ordered
  <2> DEFINE i == IdOf(q.handle)
  <2>1. i \in Ids /\ source[i] = q.volume /\ Settled(i) /\ Accounted
    BY DEF IInv, ReturnedFine, ChosenFor
  <2>2. PICK k \in Ids : k < i /\ source[k] = source[i] /\ Survives(k)
    BY DEF IInv, NameNeverLost
  <2>3. status[k] # "none"
    BY <2>1, <2>2 DEF Accounted, Survives
  <2>4. status[k] = "gone"
    BY <2>1, <2>2, <2>3 DEF Settled, zone
  <2> QED  BY <2>1, <2>2, <2>4 DEF Survives
<1> QED  BY <1>1, Invariant, PTL

(* An answer names a snapshot of the volume that the request was for. *)
THEOREM ReturnedAreOfSource == Spec => []ReturnedOfSource
<1>1. IInv => ReturnedOfSource
  BY DEF IInv, ReturnedFine, ChosenFor, ReturnedOfSource
<1> QED  BY <1>1, Invariant, PTL

(* A handle that was answered and deleted is the handle of a deleted snapshot, whichever
   zone the controller that served the delete is configured for. *)
THEOREM DeletedAreDeleted == Spec => []DeletedIsDeleted
<1>1. IInv => DeletedIsDeleted
  BY DEF IInv, ReturnedFine, DeletedIsDeleted
<1> QED  BY <1>1, Invariant, PTL
=============================================================================
