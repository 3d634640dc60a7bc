------------------------ MODULE CreateVolumeProofs --------------------------
(***************************************************************************)
(* Theorems of CreateVolume, for any number of controllers, handlers and   *)
(* volume IDs, any requests, any bounds of the sampling loop and any       *)
(* combination of the faults.                                              *)
(***************************************************************************)
EXTENDS CreateVolume, TLAPS

USE DEF NoId, Sites, Present, Live

LEMMA NoSpecType == NoSpec \in VolumeSpec
<1>1. 0 \in Nat  OBVIOUS
<1>2. "" \in Zones /\ "" \in Types  BY ZoneAssumption, TypeAssumption
<1>3. FALSE \in BOOLEAN  BY Zenon
<1> QED  BY <1>1, <1>2, <1>3, Zenon DEF NoSpec, VolumeSpec

LEMMA IdleGood == GoodCall(Idle)
<1>1. NoSpec \in VolumeSpec
  BY NoSpecType
<1>2. Idle \in Call  BY <1>1, SampleAssumption DEF Idle, Call
<1> QED  BY <1>2, SampleAssumption DEF GoodCall, Idle

LEMMA BeginGood ==
    ASSUME NEW h \in Call, h.attempt = 0, h.site = "first", NEW s \in VolumeSpec
    PROVE  GoodCall([h EXCEPT !.pc = "list", !.spec = s])
<1>1. [h EXCEPT !.pc = "list", !.spec = s] \in Call
  BY DEF Call, VolumeSpec
<1> QED  BY <1>1, SampleAssumption DEF GoodCall, Call, VolumeSpec

LEMMA ResampleGood ==
    ASSUME NEW h \in Call, GoodCall(h), h.site = "created"
    PROVE  GoodCall(Resample(h)) /\ Resample(h).todo = h.todo
<1>1. /\ h.attempt + 1 \in 0..Attempts
      /\ h.attempt + 1 < Attempts \/ ~(h.attempt + 1 < Attempts)
  BY SampleAssumption DEF GoodCall, Call
<1>2. Resample(h) \in Call
  BY <1>1 DEF Resample, Call
<1>3. /\ Resample(h).todo = h.todo
      /\ Resample(h).pc = "list"
      /\ Resample(h).attempt = h.attempt + 1
      /\ Resample(h).site = IF h.attempt + 1 < Attempts THEN "created" ELSE "final"
  BY DEF Resample, Call
<1> QED  BY <1>2, <1>3 DEF GoodCall

LEMMA SampledGood ==
    ASSUME NEW h \in Call, GoodCall(h), h.site = "created"
    PROVE  GoodCall(Sampled(h)) /\ Sampled(h).todo = h.todo
<1> DEFINE n == IF h.canonical = h.previous THEN h.stable + 1 ELSE 1
           g == [h EXCEPT !.previous = h.canonical, !.stable = n]
<1>1. n \in Nat /\ h.todo \in SUBSET Ids
  BY DEF GoodCall, Call
<1>2. GoodCall(g) /\ g.site = "created" /\ g.todo = h.todo
  BY <1>1 DEF GoodCall, Call
<1>3. GoodCall([h EXCEPT !.pc = "verify"]) /\ [h EXCEPT !.pc = "verify"].todo = h.todo
  BY DEF GoodCall, Call
<1>4. GoodCall(Resample(g)) /\ Resample(g).todo = h.todo
  <2>1. g \in Call  BY <1>2 DEF GoodCall
  <2> HIDE DEF g
  <2> QED  BY <1>2, <2>1, ResampleGood
<1> QED  BY <1>3, <1>4 DEF Sampled

LEMMA ReconciledGood ==
    ASSUME NEW h \in Call, GoodCall(h)
    PROVE  /\ GoodCall(Reconciled(h))
           /\ Reconciled(h).todo = h.todo
           /\ h.todo # {} => Reconciled(h).canonical = h.canonical
<1>1. CASE h.todo # {}
  BY <1>1 DEF Reconciled, GoodCall, Call
<1>2. CASE h.todo = {} /\ h.site = "created"
  BY <1>2, SampledGood DEF Reconciled
<1>3. CASE h.todo = {} /\ h.site # "created"
  BY <1>3 DEF Reconciled, GoodCall, Call
<1> QED  BY <1>1, <1>2, <1>3

LEMMA AllocatedType == ASSUME NEW s \in VolumeSpec PROVE Allocated(s) \in VolumeSpec
<1>1. s.type \in Types  BY DEF VolumeSpec
<1>2. EncryptedVolumeType \in Types /\ DefaultVolumeType \in Types  BY TypeAssumption
<1>3. ResolvedType(s) \in Types  BY <1>1, <1>2, Zenon DEF ResolvedType
<1> QED  BY <1>3 DEF Allocated, VolumeSpec

-----------------------------------------------------------------------------
(* Set(r, h) with a well-formed h keeps the handlers well formed. *)
Calls == call \in [Handlers -> Call] /\ \A r \in Handlers : GoodCall(call[r])

LEMMA TypeOKCalls == TypeOK => Calls
BY DEF TypeOK, Calls, GoodCall

LEMMA SetGood ==
    ASSUME Calls, NEW r \in Handlers, NEW h \in Call, GoodCall(h), Set(r, h)
    PROVE  Calls'
BY DEF Calls, Set, GoodCall

LEMMA ReplyGood ==
    ASSUME TypeOK, NEW r \in Handlers, Reply(r)
    PROVE  Calls' /\ names' \subseteq Controllers
<1>1. Idle \in Call  BY IdleGood DEF GoodCall
<1> QED  BY <1>1, TypeOKCalls, IdleGood, SetGood DEF Reply, TypeOK

LEMMA SkipGood ==
    ASSUME Calls, NEW r \in Handlers, NEW d, Skip(r, d)
    PROVE  Calls'
<1> DEFINE g == [call[r] EXCEPT !.todo = call[r].todo \ {d}]
<1>1. GoodCall(g)
  BY DEF Calls, GoodCall, Call
<1>2. g \in Call /\ Reconciled(g) \in Call
  BY <1>1, ReconciledGood DEF GoodCall
<1> HIDE DEF g
<1>3. Set(r, Reconciled(g))
  BY DEF Skip, g
<1> QED  BY <1>1, <1>2, <1>3, ReconciledGood, SetGood

(* The state outside the handlers. *)
VolumesOK ==
    /\ status \in [Ids -> {"none", "available", "in-use", "deleting", "gone"}]
    /\ attributes \in [Ids -> VolumeSpec]
    /\ listed \subseteq Ids
    /\ late \subseteq VolumeSpec
    /\ returned \subseteq Ids
    /\ reaped \subseteq Ids
    /\ dropped \subseteq Ids
    /\ faults \in Environments

LEMMA TypeOKParts == TypeOK <=> Calls /\ names \subseteq Controllers /\ VolumesOK
BY DEF TypeOK, Calls, GoodCall, VolumesOK

LEMMA NewVolumeType ==
    ASSUME VolumesOK, NEW s \in VolumeSpec, NewVolume(s),
           late' \subseteq VolumeSpec, UNCHANGED ghostVars
    PROVE  VolumesOK'
<1>1. Allocated(s) \in VolumeSpec  BY AllocatedType
<1> QED  BY <1>1 DEF VolumesOK, NewVolume, ghostVars

(* CreateVolume is type correct, and takes at most Attempts samples. *)
THEOREM TypeCorrect == Spec => []TypeOK
<1>1. Init => TypeOK
  <2> SUFFICES ASSUME Init PROVE TypeOK  OBVIOUS
  <2>1. Calls
    BY IdleGood DEF Init, Calls, GoodCall
  <2>2. NoSpec \in VolumeSpec
    BY NoSpecType
  <2> QED  BY <2>1, <2>2, TypeOKParts DEF Init, VolumesOK
<1>2. TypeOK /\ [Next]_vars => TypeOK'
  <2> SUFFICES ASSUME TypeOK, [Next]_vars PROVE TypeOK'  OBVIOUS
  <2>0. Calls /\ names \subseteq Controllers /\ VolumesOK
    BY TypeOKParts
  <2>P. Calls' /\ names' \subseteq Controllers /\ VolumesOK' => TypeOK'
    BY DEF TypeOK, Calls, VolumesOK
  <2>H. \A r \in Handlers : GoodCall(call[r]) /\ call[r] \in Call /\ call[r].spec \in VolumeSpec
    BY <2>0 DEF Calls, Call
  <2>S. UNCHANGED <<volumeVars, ghostVars>> => VolumesOK'
    BY <2>0 DEF VolumesOK, volumeVars, ghostVars
  <2>1. ASSUME NEW r \in Handlers, NEW s \in Requests, Start(r, s) PROVE TypeOK'
    <3>1. s \in VolumeSpec  BY RequestAssumption
    <3>2. /\ GoodCall([Idle EXCEPT !.pc = "list", !.spec = s])
          /\ [Idle EXCEPT !.pc = "list", !.spec = s] \in Call
      <4>1. Idle \in Call /\ Idle.attempt = 0 /\ Idle.site = "first"
        BY IdleGood DEF GoodCall, Idle
      <4> QED  BY <3>1, <4>1, BeginGood DEF GoodCall
    <3>3. names' \subseteq Controllers
      BY <2>1, <2>0, HostAssumption DEF Start
    <3> QED  BY <2>0, <2>1, <2>S, <3>2, <3>3, SetGood, <2>P DEF Start
  <2>2. ASSUME NEW r \in Handlers, ListFound(r) PROVE TypeOK'
    <3>1. PICK k \in Visible(call[r].spec.zone) :
             Set(r, Reconciled([call[r] EXCEPT !.canonical = k,
                    !.todo = {i \in Visible(call[r].spec.zone) \ {k} : deletableDuplicateVolume(i)}]))
      BY <2>2 DEF ListFound
    <3> DEFINE T == {i \in Visible(call[r].spec.zone) \ {k} : deletableDuplicateVolume(i)}
    <3>2. k \in Nat /\ T \subseteq Ids
      BY <2>0, IdsAssumption DEF Visible, VolumesOK
    <3> HIDE DEF T
    <3> DEFINE g == [call[r] EXCEPT !.canonical = k, !.todo = T]
    <3>3. GoodCall(g)
      BY <2>H, <3>2 DEF GoodCall, Call
    <3>5. g \in Call /\ Reconciled(g) \in Call
      BY <3>3, ReconciledGood DEF GoodCall
    <3>6. Set(r, Reconciled(g))
      BY <3>1 DEF T
    <3> HIDE DEF g
    <3>4. Calls'
      BY <2>0, <3>3, <3>5, <3>6, ReconciledGood, SetGood
    <3> QED  BY <2>0, <2>2, <2>S, <3>4, <2>P DEF ListFound
  <2>3. ASSUME NEW r \in Handlers, ListEmpty(r) PROVE TypeOK'
    <3>1. CASE call[r].site = "first"
      <4>1. /\ GoodCall([call[r] EXCEPT !.pc = "create"])
            /\ [call[r] EXCEPT !.pc = "create"] \in Call
        BY <2>H, <3>1 DEF GoodCall, Call
      <4> QED  BY <2>0, <2>3, <2>S, <3>1, <4>1, SetGood, <2>P DEF ListEmpty
    <3>2. CASE call[r].site = "created"
      <4>1. Resample(call[r]) \in Call /\ GoodCall(Resample(call[r]))
        BY <2>H, <3>2, ResampleGood DEF GoodCall
      <4> QED  BY <2>0, <2>3, <2>S, <3>2, <4>1, SetGood, <2>P DEF ListEmpty
    <3>3. CASE call[r].site \in {"exists", "final"}
      BY <2>0, <2>3, <2>S, <3>3, ReplyGood, <2>P DEF ListEmpty, GiveUp
    <3> QED  BY <2>H, <3>1, <3>2, <3>3 DEF Call
  <2>4. ASSUME NEW r \in Handlers,
               ListIncompatible(r) \/ VerifyRejected(r) \/ CallFails(r) PROVE TypeOK'
    BY <2>4, <2>S, ReplyGood, <2>P DEF ListIncompatible, VerifyRejected, CallFails
  <2>5. ASSUME NEW r \in Handlers, DeleteAccepted(r) PROVE TypeOK'
    <3>1. /\ GoodCall([call[r] EXCEPT !.pc = "removing"])
          /\ [call[r] EXCEPT !.pc = "removing"] \in Call
      BY <2>H DEF GoodCall, Call
    <3>2. Calls' /\ names' \subseteq Controllers
      BY <2>0, <2>5, <3>1, SetGood, ReplyGood DEF DeleteAccepted
    <3>3. call[r].todo \subseteq Ids
      BY <2>H DEF Call
    <3>4. VolumesOK'
      BY <2>0, <2>5, <3>3 DEF DeleteAccepted, VolumesOK
    <3> QED  BY <3>2, <3>4, <2>P
  <2>6. ASSUME NEW r \in Handlers, DeleteRefused(r) \/ Removed(r) PROVE TypeOK'
    BY <2>0, <2>6, <2>S, SkipGood, <2>P DEF DeleteRefused, Removed
  <2>7. ASSUME NEW r \in Handlers, Created(r) PROVE TypeOK'
    <3>1. /\ GoodCall([call[r] EXCEPT !.pc = "list", !.site = "created"])
          /\ [call[r] EXCEPT !.pc = "list", !.site = "created"] \in Call
      BY <2>7, <2>H DEF Created, GoodCall, Call
    <3>2. Calls' /\ names' \subseteq Controllers
      BY <2>0, <2>7, <3>1, SetGood, ReplyGood DEF Created
    <3>3. VolumesOK'
      BY <2>0, <2>7, <2>H, NewVolumeType DEF Created, VolumesOK
    <3> QED  BY <3>2, <3>3, <2>P
  <2>8. ASSUME NEW r \in Handlers, CreateLate(r) PROVE TypeOK'
    <3>1. VolumesOK'
      BY <2>0, <2>8, <2>H DEF CreateLate, VolumesOK, ghostVars
    <3> QED  BY <2>8, <3>1, ReplyGood, <2>P DEF CreateLate
  <2>9. ASSUME NEW r \in Handlers, CreateRefused(r) PROVE TypeOK'
    <3>1. /\ GoodCall([call[r] EXCEPT !.pc = "list", !.site = "exists"])
          /\ [call[r] EXCEPT !.pc = "list", !.site = "exists"] \in Call
      BY <2>9, <2>H DEF CreateRefused, GoodCall, Call
    <3> QED  BY <2>0, <2>9, <2>S, <3>1, SetGood, <2>P DEF CreateRefused
  <2>10. ASSUME NEW r \in Handlers, VerifyOK(r) PROVE TypeOK'
    <3>1. call[r].canonical \in Ids
      BY <2>0, <2>10 DEF VerifyOK, Verified, Visible, VolumesOK
    <3>2. VolumesOK'
      BY <2>0, <2>10, <3>1 DEF VerifyOK, VolumesOK, volumeVars
    <3> QED  BY <2>10, <3>2, ReplyGood, <2>P DEF VerifyOK
  <2>11. ASSUME NEW c \in Controllers, Crash(c) PROVE TypeOK'
    <3>1. Calls'
      BY <2>0, <2>11, IdleGood DEF Crash, Calls, GoodCall
    <3> QED  BY <2>0, <2>11, <2>S, <3>1, <2>P DEF Crash
  <2>12. ASSUME TakeEffect PROVE TypeOK'
    <3>1. PICK s \in late : NewVolume(s) /\ late' = late \ {s} /\ UNCHANGED ghostVars
      BY <2>12 DEF TakeEffect
    <3>2. s \in VolumeSpec
      BY <2>0 DEF VolumesOK
    <3>3. VolumesOK'
      BY <2>0, <3>1, <3>2, NewVolumeType DEF VolumesOK
    <3> QED  BY <2>0, <2>12, <3>3, <2>P DEF TakeEffect, handlerVars, Calls
  <2>13. ASSUME NEW i \in Ids, Nobus(i) PROVE TypeOK'
    <3>1. VolumesOK'
      BY <2>0, <2>13
         DEF Nobus, Appear, Purge, Attach, Detach, DeleteVolume, VolumesOK, ghostVars
    <3>2. UNCHANGED handlerVars
      BY <2>13 DEF Nobus, Appear, Purge, Attach, Detach, DeleteVolume
    <3> QED  BY <2>0, <3>1, <3>2, <2>P DEF handlerVars, Calls
  <2>14. ASSUME UNCHANGED vars PROVE TypeOK'
    BY <2>0, <2>14, <2>S, <2>P DEF vars, handlerVars, Calls
  <2> QED
    BY <2>1, <2>2, <2>3, <2>4, <2>5, <2>6, <2>7, <2>8, <2>9, <2>10, <2>11, <2>12, <2>13, <2>14
       DEF Next, Serve
<1> QED  BY <1>1, <1>2, PTL DEF Spec

-----------------------------------------------------------------------------
(* The inductive invariant behind NameNeverLost.  A deleted volume was deleted by
   reconciliation or by DeleteVolume, never by both; and what NameNeverLost says of
   the volumes already reaped holds of those a handler still means to reap. *)
Accounted ==
    /\ \A i \in Ids : status[i] \in {"deleting", "gone"} <=> i \in reaped \cup dropped
    /\ reaped \cap dropped = {}

Below(d) == \E k \in Ids : k < d /\ SameShape(k, d) /\ Survives(k)

ReapersSafe ==
    \A r \in Handlers : \A d \in call[r].todo : status[d] # "none" /\ Below(d)

IInv == TypeOK /\ Accounted /\ ReapersSafe /\ NameNeverLost

(* A step that changes no existing volume's attributes and ends no survivor. *)
Keeps ==
    /\ \A i \in Ids : status[i] # "none" => attributes'[i] = attributes[i] /\ status'[i] # "none"
    /\ \A i \in Ids : Survives(i) => Survives(i)'

(* A step that gives no handler a new duplicate to delete. *)
Shrinks == \A r \in Handlers : call'[r].todo \subseteq call[r].todo

LEMMA SurvivorExists ==
    ASSUME TypeOK, Accounted, NEW k \in Ids, Survives(k)
    PROVE  status[k] # "none" /\ k \notin reaped
BY DEF Accounted, Survives

LEMMA BelowKept ==
    ASSUME TypeOK, Accounted, Keeps, NEW d \in Ids, status[d] # "none", Below(d)
    PROVE  Below(d)'
<1>1. PICK k \in Ids : k < d /\ SameShape(k, d) /\ Survives(k)
  BY DEF Below
<1>2. status[k] # "none"
  BY <1>1, SurvivorExists
<1>3. SameShape(k, d)' /\ Survives(k)'
  BY <1>1, <1>2 DEF Keeps, SameShape
<1> QED  BY <1>1, <1>3 DEF Below

(* The steps that reap nothing and list nothing. *)
LEMMA KeepingStep ==
    ASSUME IInv, Keeps, Shrinks, reaped' = reaped
    PROVE  ReapersSafe' /\ NameNeverLost'
<1>1. ASSUME NEW r \in Handlers, NEW d \in call'[r].todo PROVE status'[d] # "none" /\ Below(d)'
  <2>1. d \in call[r].todo /\ d \in Ids
    BY <1>1 DEF Shrinks, IInv, TypeOK, Call
  <2>2. status[d] # "none" /\ Below(d)
    BY <2>1 DEF IInv, ReapersSafe
  <2> QED  BY <2>1, <2>2, BelowKept DEF IInv, Keeps
<1>2. ASSUME NEW d \in reaped PROVE Below(d)'
  <2>1. d \in Ids /\ status[d] # "none" /\ Below(d)
    BY DEF IInv, TypeOK, Accounted, NameNeverLost, Below
  <2> QED  BY <2>1, BelowKept DEF IInv
<1> QED  BY <1>1, <1>2 DEF ReapersSafe, NameNeverLost, Below

LEMMA QuietKeeps ==
    ASSUME IInv, UNCHANGED <<volumeVars, ghostVars>>
    PROVE  Keeps /\ Accounted' /\ reaped' = reaped
BY DEF IInv, Keeps, Accounted, Survives, volumeVars, ghostVars

LEMMA SetShrinks ==
    ASSUME TypeOK, NEW r \in Handlers, NEW h \in Call, h.todo \subseteq call[r].todo, Set(r, h)
    PROVE  Shrinks
BY DEF TypeOK, Set, Shrinks

LEMMA ReplyShrinks ==
    ASSUME TypeOK, NEW r \in Handlers, Reply(r)
    PROVE  Shrinks
<1>1. Idle \in Call /\ Idle.todo = {}
  BY IdleGood DEF GoodCall, Idle
<1> HIDE DEF Idle
<1> QED  BY <1>1, SetShrinks DEF Reply

LEMMA SkipShrinks ==
    ASSUME TypeOK, NEW r \in Handlers, NEW d, Skip(r, d)
    PROVE  Shrinks
<1> DEFINE g == [call[r] EXCEPT !.todo = call[r].todo \ {d}]
<1>1. GoodCall(g) /\ g.todo \subseteq call[r].todo
  BY DEF TypeOK, GoodCall, Call
<1>2. g \in Call
  BY <1>1 DEF GoodCall
<1>3. Set(r, Reconciled(g))
  BY DEF Skip
<1> HIDE DEF g
<1>4. Reconciled(g) \in Call /\ Reconciled(g).todo \subseteq call[r].todo
  BY <1>1, <1>2, ReconciledGood DEF GoodCall
<1> QED  BY <1>3, <1>4, SetShrinks

(* A new volume takes an unused ID. *)
LEMMA NewVolumeKeeps ==
    ASSUME IInv, NEW s, NewVolume(s), UNCHANGED ghostVars
    PROVE  Keeps /\ Accounted'
<1>1. PICK i \in Ids : /\ status[i] = "none"
                       /\ status' = [status EXCEPT ![i] = "available"]
                       /\ attributes' = [attributes EXCEPT ![i] = Allocated(s)]
  BY DEF NewVolume, Fresh
<1>2. i \notin reaped \cup dropped
  BY <1>1 DEF IInv, Accounted
<1>3. Accounted'
  BY <1>1, <1>2 DEF IInv, TypeOK, Accounted, ghostVars
<1>4. Keeps
  BY <1>1, <1>2 DEF IInv, TypeOK, Keeps, Survives, ghostVars
<1> QED  BY <1>3, <1>4

(* The list: the canonical volume survives, or something below it does. *)
LEMMA ListFoundSafe ==
    ASSUME IInv, NEW r \in Handlers, ListFound(r)
    PROVE  ReapersSafe'
<1> DEFINE V == Visible(call[r].spec.zone)
<1>1. PICK k \in V :
        /\ IsLeast(k, V)
        /\ Set(r, Reconciled([call[r] EXCEPT !.canonical = k,
                               !.todo = {i \in V \ {k} : deletableDuplicateVolume(i)}]))
  BY DEF ListFound, Canonical
<1>2. V \subseteq Ids /\ \A i \in V : i \in Nat /\ status[i] \in Present
  BY IdsAssumption DEF IInv, TypeOK, Visible
<1>3. ASSUME NEW d \in V \ {k} PROVE status[d] # "none" /\ Below(d)
  <2>1. k < d
    BY <1>1, <1>2, <1>3 DEF IsLeast
  <2>2. compatibleVolume(attributes[k], call[r].spec) /\ compatibleVolume(attributes[d], call[r].spec)
    BY <1>1, <1>3 DEF ListFound
  <2>3. SameShape(k, d)
    BY <2>2 DEF compatibleVolume, SameShape
  <2>4. CASE k \notin reaped
    <3>1. Survives(k)
      BY <1>1, <1>2, <2>4 DEF IInv, Accounted, Survives
    <3> QED  BY <1>1, <1>2, <1>3, <2>1, <2>3, <3>1 DEF Below
  <2>5. CASE k \in reaped
    <3>1. PICK j \in Ids : j < k /\ SameShape(j, k) /\ Survives(j)
      BY <2>5 DEF IInv, NameNeverLost
    <3>2. j < d
      BY <1>1, <1>2, <1>3, <2>1, <3>1, IdsAssumption
    <3>3. SameShape(j, d)
      BY <2>3, <3>1 DEF SameShape
    <3> QED  BY <1>2, <1>3, <3>1, <3>2, <3>3 DEF Below
  <2> QED  BY <1>2, <1>3, <2>4, <2>5
<1> DEFINE T == {i \in V \ {k} : deletableDuplicateVolume(i)}
           g == [call[r] EXCEPT !.canonical = k, !.todo = T]
<1>4. T \subseteq V \ {k} /\ T \subseteq Ids /\ k \in Nat
  BY <1>1, <1>2
<1> HIDE DEF T
<1>5. GoodCall(g) /\ g.todo = T
  BY <1>4 DEF IInv, TypeOK, GoodCall, Call
<1>6. g \in Call
  BY <1>5 DEF GoodCall
<1>7. Set(r, Reconciled(g))
  BY <1>1 DEF T
<1> HIDE DEF g
<1>8. Reconciled(g).todo = T
  BY <1>5, <1>6, ReconciledGood
<1>9. ASSUME NEW q \in Handlers, NEW d \in call'[q].todo PROVE status[d] # "none" /\ Below(d)
  <2>1. CASE q = r
    <3>1. d \in T
      BY <1>7, <1>8, <1>9, <2>1 DEF Set, IInv, TypeOK
    <3> HIDE DEF V
    <3> QED  BY <1>3, <1>4, <3>1
  <2>2. CASE q # r
    BY <1>7, <1>9, <2>2 DEF Set, IInv, TypeOK, ReapersSafe
  <2> QED  BY <2>1, <2>2
<1>10. UNCHANGED <<status, attributes, reaped, dropped>>
  BY DEF ListFound, volumeVars, ghostVars
<1> QED  BY <1>9, <1>10 DEF ReapersSafe, Below, SameShape, Survives

(* A deletion by reconciliation: the survivor below the reaped volume takes its place. *)
LEMMA DeleteAcceptedSafe ==
    ASSUME IInv, NEW r \in Handlers, DeleteAccepted(r)
    PROVE  Accounted' /\ ReapersSafe' /\ NameNeverLost'
<1>1. PICK e \in call[r].todo :
        /\ status[e] \in {"available", "deleting"}
        /\ status' = [status EXCEPT ![e] = "deleting"]
        /\ reaped' = IF status[e] = "available" THEN reaped \cup {e} ELSE reaped
  BY DEF DeleteAccepted
<1>2. e \in Ids /\ Below(e)
  BY <1>1 DEF IInv, TypeOK, Call, ReapersSafe
<1>3. UNCHANGED <<attributes, dropped>>
  BY DEF DeleteAccepted
<1>4. Accounted'
  BY <1>1, <1>2, <1>3 DEF IInv, TypeOK, Accounted
<1>5. ASSUME NEW k \in Ids, k # e, Survives(k) PROVE Survives(k)'
  BY <1>1, <1>2, <1>3, <1>5 DEF IInv, TypeOK, Survives
<1>6. ASSUME NEW d \in Ids, Below(d) PROVE Below(d)'
  <2>1. PICK k \in Ids : k < d /\ SameShape(k, d) /\ Survives(k)
    BY <1>6 DEF Below
  <2>2. CASE k # e
    BY <1>3, <1>5, <2>1, <2>2 DEF Below, SameShape
  <2>3. CASE k = e
    <3>1. PICK j \in Ids : j < e /\ SameShape(j, e) /\ Survives(j)
      BY <1>2 DEF Below
    <3>2. j # e /\ j < d
      BY <2>1, <2>3, <3>1, IdsAssumption
    <3>3. SameShape(j, d)
      BY <2>1, <2>3, <3>1 DEF SameShape
    <3> QED  BY <1>3, <1>5, <3>1, <3>2, <3>3 DEF Below, SameShape
  <2> QED  BY <2>2, <2>3
<1>7. NameNeverLost'
  <2>1. \A d \in reaped' : d \in Ids /\ Below(d)
    BY <1>1, <1>2 DEF IInv, TypeOK, NameNeverLost, Below
  <2> QED  BY <1>6, <2>1 DEF NameNeverLost, Below
<1>8. Shrinks
  <2>1. [call[r] EXCEPT !.pc = "removing"] \in Call /\ [call[r] EXCEPT !.pc = "removing"].todo = call[r].todo
    BY DEF IInv, TypeOK, GoodCall, Call
  <2> QED  BY <2>1, SetShrinks, ReplyShrinks DEF DeleteAccepted, IInv
<1>9. ReapersSafe'
  <2>1. ASSUME NEW q \in Handlers, NEW d \in call'[q].todo PROVE status'[d] # "none" /\ Below(d)'
    <3>1. d \in call[q].todo /\ d \in Ids
      BY <1>8, <2>1 DEF Shrinks, IInv, TypeOK, Call
    <3>2. status[d] # "none" /\ Below(d)
      BY <3>1 DEF IInv, ReapersSafe
    <3> QED  BY <1>1, <1>2, <1>6, <3>1, <3>2 DEF IInv, TypeOK
  <2> QED  BY <2>1 DEF ReapersSafe, Below
<1> QED  BY <1>4, <1>7, <1>9

(* The invariant holds in every behaviour. *)
LEMMA InductionHolds == Spec => []IInv
<1>1. Init => Accounted /\ ReapersSafe /\ NameNeverLost
  <2>1. Idle.todo = {}  BY DEF Idle
  <2> HIDE DEF Idle
  <2> QED  BY <2>1 DEF Init, Accounted, ReapersSafe, NameNeverLost
<1>2. IInv /\ TypeOK' /\ [Next]_vars => Accounted' /\ ReapersSafe' /\ NameNeverLost'
  <2> SUFFICES ASSUME IInv, [Next]_vars
               PROVE  Accounted' /\ ReapersSafe' /\ NameNeverLost'
    OBVIOUS
  <2>0. TypeOK /\ \A r \in Handlers : GoodCall(call[r]) /\ call[r] \in Call
    BY DEF IInv, TypeOK
  <2>Q. UNCHANGED <<volumeVars, ghostVars>> /\ Shrinks
            => Accounted' /\ ReapersSafe' /\ NameNeverLost'
    BY QuietKeeps, KeepingStep
  <2>1. ASSUME NEW r \in Handlers, NEW s \in Requests, Start(r, s)
        PROVE  UNCHANGED <<volumeVars, ghostVars>> /\ Shrinks
    <3>1. Idle \in Call /\ Idle.attempt = 0 /\ Idle.site = "first" /\ Idle.todo = {}
      BY IdleGood DEF GoodCall, Idle
    <3> DEFINE h == [Idle EXCEPT !.pc = "list", !.spec = s]
    <3> HIDE DEF Idle
    <3>2. GoodCall(h)
      BY <3>1, BeginGood, RequestAssumption
    <3>3. h \in Call /\ h.todo \subseteq call[r].todo
      BY <3>1, <3>2 DEF GoodCall, Call
    <3> QED  BY <2>0, <2>1, <3>3, SetShrinks DEF Start
  <2>2. ASSUME NEW r \in Handlers, ListFound(r)
        PROVE  Accounted' /\ ReapersSafe' /\ NameNeverLost'
    <3>1. UNCHANGED <<volumeVars, ghostVars>>
      BY <2>2 DEF ListFound
    <3> QED  BY <2>2, <3>1, ListFoundSafe
             DEF IInv, Accounted, NameNeverLost, Survives, SameShape, volumeVars, ghostVars
  <2>3. ASSUME NEW r \in Handlers, ListEmpty(r) PROVE UNCHANGED <<volumeVars, ghostVars>> /\ Shrinks
    <3>1. /\ [call[r] EXCEPT !.pc = "create"] \in Call
          /\ [call[r] EXCEPT !.pc = "create"].todo = call[r].todo
      BY <2>0 DEF Call
    <3>2. call[r].site = "created" =>
            Resample(call[r]) \in Call /\ Resample(call[r]).todo = call[r].todo
      BY <2>0, ResampleGood DEF GoodCall
    <3> QED  BY <2>0, <2>3, <3>1, <3>2, SetShrinks, ReplyShrinks DEF ListEmpty, GiveUp
  <2>4. ASSUME NEW r \in Handlers, ListIncompatible(r) \/ VerifyRejected(r) \/ CallFails(r)
        PROVE  UNCHANGED <<volumeVars, ghostVars>> /\ Shrinks
    BY <2>0, <2>4, ReplyShrinks DEF ListIncompatible, VerifyRejected, CallFails
  <2>5. ASSUME NEW r \in Handlers, DeleteRefused(r) \/ Removed(r)
        PROVE  UNCHANGED <<volumeVars, ghostVars>> /\ Shrinks
    BY <2>0, <2>5, SkipShrinks DEF DeleteRefused, Removed
  <2>6. ASSUME NEW r \in Handlers, CreateRefused(r)
        PROVE  UNCHANGED <<volumeVars, ghostVars>> /\ Shrinks
    <3>1. /\ [call[r] EXCEPT !.pc = "list", !.site = "exists"] \in Call
          /\ [call[r] EXCEPT !.pc = "list", !.site = "exists"].todo = call[r].todo
      BY <2>0 DEF Call
    <3> QED  BY <2>0, <2>6, <3>1, SetShrinks DEF CreateRefused
  <2>7. ASSUME NEW r \in Handlers, Created(r)
        PROVE  Accounted' /\ ReapersSafe' /\ NameNeverLost'
    <3>1. /\ [call[r] EXCEPT !.pc = "list", !.site = "created"] \in Call
          /\ [call[r] EXCEPT !.pc = "list", !.site = "created"].todo = call[r].todo
      BY <2>0, <2>7 DEF Created, GoodCall, Call
    <3>2. Shrinks
      BY <2>0, <2>7, <3>1, SetShrinks, ReplyShrinks DEF Created
    <3>3. NewVolume(call[r].spec) /\ UNCHANGED ghostVars
      BY <2>7 DEF Created
    <3> QED  BY <3>2, <3>3, NewVolumeKeeps, KeepingStep DEF ghostVars
  <2>8. ASSUME NEW r \in Handlers, CreateLate(r) \/ VerifyOK(r)
        PROVE  Accounted' /\ ReapersSafe' /\ NameNeverLost'
    <3>1. Shrinks
      BY <2>0, <2>8, ReplyShrinks DEF CreateLate, VerifyOK
    <3>2. UNCHANGED <<status, attributes, reaped, dropped>>
      BY <2>8 DEF CreateLate, VerifyOK, volumeVars, ghostVars
    <3>3. Keeps /\ Accounted'
      BY <3>2 DEF IInv, Keeps, Accounted, Survives
    <3> QED  BY <3>1, <3>2, <3>3, KeepingStep
  <2>9. ASSUME NEW c \in Controllers, Crash(c)
        PROVE  UNCHANGED <<volumeVars, ghostVars>> /\ Shrinks
    <3>1. Idle.todo = {}  BY DEF Idle
    <3> HIDE DEF Idle
    <3> QED  BY <2>0, <2>9, <3>1 DEF Crash, Shrinks
  <2>10. CASE TakeEffect
    <3>1. PICK s \in late : NewVolume(s) /\ UNCHANGED <<handlerVars, ghostVars>>
      BY <2>10 DEF TakeEffect
    <3>2. Shrinks
      BY <3>1 DEF Shrinks, handlerVars
    <3> QED  BY <3>1, <3>2, NewVolumeKeeps, KeepingStep DEF ghostVars
  <2>11. ASSUME NEW i \in Ids, Nobus(i)
         PROVE  Accounted' /\ ReapersSafe' /\ NameNeverLost'
    <3>1. Shrinks /\ reaped' = reaped
      BY <2>11 DEF Nobus, Appear, Purge, Attach, Detach, DeleteVolume, Shrinks, handlerVars, ghostVars
    <3>2. Keeps
      BY <2>0, <2>11 DEF Nobus, Appear, Purge, Attach, Detach, DeleteVolume, Keeps,
                         IInv, TypeOK, Accounted, Survives, ghostVars
    <3>3. Accounted'
      BY <2>0, <2>11 DEF Nobus, Appear, Purge, Attach, Detach, DeleteVolume,
                         IInv, TypeOK, Accounted, ghostVars
    <3> QED  BY <3>1, <3>2, <3>3, KeepingStep
  <2>12. CASE UNCHANGED vars
    BY <2>12, <2>Q DEF vars, handlerVars, Shrinks
  <2> QED
    BY <2>Q, <2>1, <2>2, <2>3, <2>4, <2>5, <2>6, <2>7, <2>8, <2>9, <2>10, <2>11, <2>12,
       DeleteAcceptedSafe DEF Next, Serve
<1> QED  BY <1>1, <1>2, TypeCorrect, PTL DEF Spec, IInv

(* Whatever the controllers, the order of IDs, the lag of the list, late creates and
   crashes: reconciliation never loses the name. *)
THEOREM NameIsNeverLost == Spec => []NameNeverLost
BY InductionHolds, PTL DEF IInv

-----------------------------------------------------------------------------
(* The refinement.  Made and its parts change with status and reaped only. *)

LEMMA ShapeType ==
    ASSUME NEW a \in VolumeSpec
    PROVE  Shape(a) \in [size : Nat, zone : Zones, encrypted : BOOLEAN]
BY DEF VolumeSpec, Shape

LEMMA PromiseStutters ==
    ASSUME UNCHANGED <<status, attributes, reaped, dropped, returned>>
    PROVE  UNCHANGED Promise!vars
BY DEF Promise!vars, Made

(* A volume that comes into being is made, and nothing else happens. *)
LEMMA NewVolumeMakes ==
    ASSUME TypeOK, TypeOK', Accounted, NEW s, NewVolume(s), UNCHANGED ghostVars
    PROVE  Promise!Next
<1>1. PICK i \in Ids : /\ status[i] = "none"
                       /\ status' = [status EXCEPT ![i] = "available"]
                       /\ attributes' = [attributes EXCEPT ![i] = Allocated(s)]
  BY DEF NewVolume, Fresh
<1>2. UNCHANGED <<reaped, dropped, returned>>
  BY DEF ghostVars
<1>3. i \notin Made /\ Made' = Made \cup {i} /\ i \notin reaped
  BY <1>1 DEF Made, TypeOK, Accounted
<1>4. \A j \in Ids \ {i} : Shape(attributes'[j]) = Shape(attributes[j])
  BY <1>1 DEF TypeOK
<1>5. \A j \in Ids : Shape(attributes'[j]) \in [size : Nat, zone : Zones, encrypted : BOOLEAN]
  BY ShapeType DEF TypeOK
<1>6. Promise!Make(i)
  BY <1>2, <1>3, <1>4, <1>5 DEF Promise!Make
<1> QED  BY <1>6 DEF Promise!Next

LEMMA DeleteAcceptedReaps ==
    ASSUME IInv, NEW r \in Handlers, DeleteAccepted(r)
    PROVE  Promise!Next \/ UNCHANGED Promise!vars
<1>1. PICK d \in call[r].todo :
        /\ status[d] \in {"available", "deleting"}
        /\ status' = [status EXCEPT ![d] = "deleting"]
        /\ reaped' = IF status[d] = "available" THEN reaped \cup {d} ELSE reaped
  BY DEF DeleteAccepted
<1>2. UNCHANGED <<attributes, dropped, returned>>
  BY DEF DeleteAccepted
<1>3. d \in Ids /\ Below(d)
  BY <1>1 DEF IInv, TypeOK, Call, ReapersSafe
<1>4. Made' = Made /\ d \in Made
  BY <1>1, <1>3 DEF Made, IInv, TypeOK
<1>5. CASE status[d] = "available"
  <2>1. d \in (Made \ reaped) \ dropped
    BY <1>3, <1>4, <1>5 DEF IInv, Accounted
  <2>2. PICK k \in Ids : k < d /\ SameShape(k, d) /\ Survives(k)
    BY <1>3 DEF Below
  <2>3. k \in Made \ reaped
    BY <2>2, SurvivorExists DEF IInv, Made
  <2>4. Shape(attributes[k]) = Shape(attributes[d])
    BY <2>2 DEF SameShape, Shape
  <2>5. Promise!Older(k, d)
    BY <1>3, <2>2, <2>3, <2>4 DEF Promise!Older
  <2>6. Promise!Reap(d)
    BY <1>1, <1>2, <1>4, <1>5, <2>1, <2>5 DEF Promise!Reap
  <2> QED  BY <1>3, <2>6 DEF Promise!Next
<1>6. CASE status[d] # "available"
  BY <1>1, <1>2, <1>4, <1>6 DEF Promise!vars
<1> QED  BY <1>5, <1>6

(* CreateVolume, DeleteVolume and what Nobus does with their calls implement the
   promise: every step maps to a step of Registry or to a stutter. *)
THEOREM PromiseKept == Spec => KeepsPromise
<1>1. Init => Promise!Init
  <2> SUFFICES ASSUME Init PROVE Promise!Init  OBVIOUS
  <2>1. Made = {}
    BY DEF Init, Made
  <2>2. Shape(NoSpec) \in [size : Nat, zone : Zones, encrypted : BOOLEAN]
    BY NoSpecType, ShapeType
  <2>3. [i \in Ids |-> Shape(attributes[i])] \in [Ids -> [size : Nat, zone : Zones, encrypted : BOOLEAN]]
    BY <2>2 DEF Init
  <2> QED  BY <2>1, <2>3 DEF Init, Promise!Init
<1>2. IInv /\ TypeOK' /\ [Next]_vars => Promise!Next \/ UNCHANGED Promise!vars
  <2> SUFFICES ASSUME IInv, TypeOK', [Next]_vars
               PROVE  Promise!Next \/ UNCHANGED Promise!vars
    OBVIOUS
  <2>0. TypeOK /\ Accounted
    BY DEF IInv
  <2>1. ASSUME NEW r \in Handlers, NEW s \in Requests, Start(r, s) PROVE UNCHANGED Promise!vars
    BY <2>1, PromiseStutters DEF Start, volumeVars, ghostVars
  <2>2. ASSUME NEW r \in Handlers,
               \/ ListFound(r) \/ ListEmpty(r) \/ ListIncompatible(r) \/ DeleteRefused(r)
               \/ Removed(r) \/ CreateLate(r) \/ CreateRefused(r) \/ VerifyRejected(r) \/ CallFails(r)
        PROVE  UNCHANGED Promise!vars
    BY <2>2, PromiseStutters
       DEF ListFound, ListEmpty, ListIncompatible, DeleteRefused, Removed, CreateLate,
           CreateRefused, VerifyRejected, CallFails, volumeVars, ghostVars
  <2>3. ASSUME NEW r \in Handlers, Created(r) PROVE Promise!Next
    BY <2>0, <2>3, NewVolumeMakes DEF Created
  <2>4. ASSUME NEW r \in Handlers, VerifyOK(r) PROVE Promise!Next
    <3>1. call[r].canonical \in Made /\ call[r].canonical \in Ids
      BY <2>0, <2>4 DEF VerifyOK, Verified, Visible, Made, TypeOK
    <3>2. /\ UNCHANGED <<status, attributes, reaped, dropped>>
          /\ returned' = returned \cup {call[r].canonical}
      BY <2>4 DEF VerifyOK, volumeVars
    <3>3. Promise!Answer(call[r].canonical)
      BY <3>1, <3>2 DEF Promise!Answer, Made
    <3> QED  BY <3>1, <3>3 DEF Promise!Next
  <2>5. ASSUME NEW c \in Controllers, Crash(c) PROVE UNCHANGED Promise!vars
    BY <2>5, PromiseStutters DEF Crash, volumeVars, ghostVars
  <2>6. CASE TakeEffect
    <3>1. PICK s \in late : NewVolume(s) /\ UNCHANGED ghostVars
      BY <2>6 DEF TakeEffect
    <3> QED  BY <2>0, <3>1, NewVolumeMakes
  <2>7. ASSUME NEW i \in Ids, Appear(i) PROVE UNCHANGED Promise!vars
    BY <2>7, PromiseStutters DEF Appear, ghostVars
  <2>8. ASSUME NEW i \in Ids, Purge(i) \/ Attach(i) \/ Detach(i) PROVE UNCHANGED Promise!vars
    <3>1. Made' = Made
      BY <2>0, <2>8 DEF Purge, Attach, Detach, Made, TypeOK
    <3>2. UNCHANGED <<attributes, reaped, dropped, returned>>
      BY <2>8 DEF Purge, Attach, Detach, ghostVars
    <3> QED  BY <3>1, <3>2 DEF Promise!vars
  <2>9. ASSUME NEW i \in Ids, DeleteVolume(i) PROVE Promise!Next
    <3>1. Made' = Made /\ i \in Made /\ i \notin reaped \cup dropped /\ i \in returned
      BY <2>0, <2>9 DEF DeleteVolume, Made, TypeOK, Accounted
    <3>2. UNCHANGED <<attributes, reaped, returned>> /\ dropped' = dropped \cup {i}
      BY <2>9 DEF DeleteVolume
    <3>3. Promise!Drop(i)
      BY <3>1, <3>2 DEF Promise!Drop
    <3> QED  BY <3>3 DEF Promise!Next
  <2>10. CASE UNCHANGED vars
    BY <2>10, PromiseStutters DEF vars, volumeVars, ghostVars
  <2> QED
    BY <2>1, <2>2, <2>3, <2>4, <2>5, <2>6, <2>7, <2>8, <2>9, <2>10, DeleteAcceptedReaps
       DEF Next, Serve, Nobus
<1>3. Spec => []IInv
  BY InductionHolds
<1> QED  BY <1>1, <1>2, <1>3, TypeCorrect, PTL DEF Spec, KeepsPromise, Promise!Spec

-----------------------------------------------------------------------------
(* The lock and the request of a handler.  A step of a busy handler either keeps
   it busy with the same request, and the lock, or answers and unlocks. *)
Busy(r) == call[r].pc # "idle"

Goes(r) == \E h \in Call : Set(r, h) /\ names' = names /\ h.pc # "idle" /\ h.spec = call[r].spec

LEMMA ReconciledGoes ==
    ASSUME NEW h \in Call, GoodCall(h), h.pc # "idle"
    PROVE  Reconciled(h) \in Call /\ Reconciled(h).pc # "idle" /\ Reconciled(h).spec = h.spec
<1>1. Reconciled(h) \in Call
  BY ReconciledGood DEF GoodCall
<1>2. ASSUME NEW g \in Call PROVE Resample(g).pc = "list" /\ Resample(g).spec = g.spec
  BY DEF Resample, Call
<1>3. Sampled(h).pc # "idle" /\ Sampled(h).spec = h.spec
  <2> DEFINE n == IF h.canonical = h.previous THEN h.stable + 1 ELSE 1
             g == [h EXCEPT !.previous = h.canonical, !.stable = n]
  <2>1. n \in Nat /\ h.canonical \in Nat
    BY DEF Call
  <2>2. g \in Call /\ g.spec = h.spec
    BY <2>1 DEF Call
  <2>3. [h EXCEPT !.pc = "verify"].pc = "verify" /\ [h EXCEPT !.pc = "verify"].spec = h.spec
    BY DEF Call
  <2>4. Resample(g).pc = "list" /\ Resample(g).spec = h.spec
    <3> HIDE DEF g
    <3> QED  BY <1>2, <2>2
  <2> QED  BY <2>3, <2>4 DEF Sampled
<1>4. /\ [h EXCEPT !.pc = "reap"].pc # "idle" /\ [h EXCEPT !.pc = "reap"].spec = h.spec
      /\ [h EXCEPT !.pc = "verify"].pc # "idle" /\ [h EXCEPT !.pc = "verify"].spec = h.spec
  BY DEF Call
<1> QED  BY <1>1, <1>3, <1>4 DEF Reconciled

LEMMA SkipGoes ==
    ASSUME TypeOK, NEW r \in Handlers, Busy(r), NEW d, Skip(r, d), names' = names
    PROVE  Goes(r)
<1> DEFINE g == [call[r] EXCEPT !.todo = call[r].todo \ {d}]
<1>1. GoodCall(g) /\ g.pc # "idle" /\ g.spec = call[r].spec
  BY DEF TypeOK, GoodCall, Call, Busy
<1>2. g \in Call
  BY <1>1 DEF GoodCall
<1>3. Set(r, Reconciled(g))
  BY DEF Skip
<1> HIDE DEF g
<1> QED  BY <1>1, <1>2, <1>3, ReconciledGoes DEF Goes

LEMMA ServeGoes ==
    ASSUME TypeOK, NEW r \in Handlers, Serve(r)
    PROVE  Busy(r) /\ (Goes(r) \/ Reply(r))
<1>0. call[r] \in Call /\ GoodCall(call[r])
  BY DEF TypeOK
<1>B. Busy(r)
  BY DEF Serve, ListFound, ListEmpty, ListIncompatible, DeleteAccepted, DeleteRefused, Removed,
         Created, CreateLate, CreateRefused, VerifyOK, VerifyRejected, CallFails, Busy
<1>1. CASE ListFound(r)
  <2> DEFINE V == Visible(call[r].spec.zone)
  <2>1. PICK k \in V :
          Set(r, Reconciled([call[r] EXCEPT !.canonical = k,
                              !.todo = {i \in V \ {k} : deletableDuplicateVolume(i)}]))
    BY <1>1 DEF ListFound
  <2> DEFINE T == {i \in V \ {k} : deletableDuplicateVolume(i)}
             g == [call[r] EXCEPT !.canonical = k, !.todo = T]
  <2>2. k \in Nat /\ T \subseteq Ids
    BY IdsAssumption DEF Visible, TypeOK
  <2> HIDE DEF T
  <2>3. GoodCall(g) /\ g.pc # "idle" /\ g.spec = call[r].spec
    BY <1>0, <1>B, <2>2 DEF GoodCall, Call, Busy
  <2>4. g \in Call
    BY <2>3 DEF GoodCall
  <2>5. Set(r, Reconciled(g))
    BY <2>1 DEF T
  <2> HIDE DEF g
  <2>6. names' = names
    BY <1>1 DEF ListFound
  <2> QED  BY <1>B, <2>3, <2>4, <2>5, <2>6, ReconciledGoes DEF Goes
<1>2. CASE ListEmpty(r)
  <2>1. LET h == [call[r] EXCEPT !.pc = "create"]
        IN h \in Call /\ h.pc # "idle" /\ h.spec = call[r].spec
    BY <1>0 DEF Call
  <2>2. LET h == Resample(call[r])
        IN call[r].site = "created" => h \in Call /\ h.pc # "idle" /\ h.spec = call[r].spec
    <3>1. call[r].site = "created" => Resample(call[r]) \in Call
      BY <1>0, ResampleGood DEF GoodCall
    <3>2. Resample(call[r]).pc = "list" /\ Resample(call[r]).spec = call[r].spec
      BY <1>0 DEF Resample, Call
    <3> QED  BY <3>1, <3>2
  <2> QED  BY <1>2, <1>B, <2>1, <2>2 DEF ListEmpty, GiveUp, Goes
<1>3. CASE DeleteAccepted(r)
  <2>1. LET h == [call[r] EXCEPT !.pc = "removing"]
        IN h \in Call /\ h.pc # "idle" /\ h.spec = call[r].spec
    BY <1>0 DEF Call
  <2> QED  BY <1>3, <1>B, <2>1 DEF DeleteAccepted, Goes
<1>4. CASE DeleteRefused(r) \/ Removed(r)
  BY <1>4, <1>B, SkipGoes DEF DeleteRefused, Removed
<1>5. CASE Created(r)
  <2>1. LET h == [call[r] EXCEPT !.pc = "list", !.site = "created"]
        IN h \in Call /\ h.pc # "idle" /\ h.spec = call[r].spec
    BY <1>0 DEF Call
  <2> QED  BY <1>5, <1>B, <2>1 DEF Created, Goes
<1>6. CASE CreateRefused(r)
  <2>1. LET h == [call[r] EXCEPT !.pc = "list", !.site = "exists"]
        IN h \in Call /\ h.pc # "idle" /\ h.spec = call[r].spec
    BY <1>0 DEF Call
  <2> QED  BY <1>6, <1>B, <2>1 DEF CreateRefused, Goes
<1>7. CASE ListIncompatible(r) \/ CreateLate(r) \/ VerifyOK(r) \/ VerifyRejected(r) \/ CallFails(r)
  BY <1>7, <1>B DEF ListIncompatible, CreateLate, VerifyOK, VerifyRejected, CallFails
<1> QED  BY <1>1, <1>2, <1>3, <1>4, <1>5, <1>6, <1>7 DEF Serve

(* A step takes the lock, gives it back, or leaves it with its handler. *)
LEMMA LockStep ==
    ASSUME TypeOK, LockHeld, [Next]_vars
    PROVE  LockHeld'
<1>0. Idle.pc = "idle" /\ call \in [Handlers -> Call]
  BY DEF Idle, TypeOK
<1>I. Idle \in Call
  BY IdleGood DEF GoodCall
<1> HIDE DEF Idle
<1>1. ASSUME NEW r \in Handlers, Busy(r), Goes(r) PROVE LockHeld'
  <2>1. PICK h \in Call : Set(r, h) /\ names' = names /\ h.pc # "idle"
    BY <1>1 DEF Goes
  <2>2. \A q \in Handlers : call'[q] = IF q = r THEN h ELSE call[q]
    BY <1>0, <2>1 DEF Set
  <2>3. \A q \in Handlers : (call'[q].pc # "idle") = (call[q].pc # "idle")
    BY <1>1, <2>1, <2>2 DEF Busy
  <2>4. LockHeld'
    BY <2>1, <2>3 DEF LockHeld
  <2> QED  BY <2>4
<1>2. ASSUME NEW r \in Handlers, Busy(r), Reply(r) PROVE LockHeld'
  <2>1. \A q \in Handlers : call'[q] = IF q = r THEN Idle ELSE call[q]
    BY <1>0, <1>2 DEF Reply, Set
  <2>2. names' = names \ {Host[r]}
    BY <1>2 DEF Reply
  <2>3. \A q \in Handlers : (call'[q].pc # "idle") = (q # r /\ call[q].pc # "idle")
    BY <1>0, <2>1
  <2>4. LockHeld'
    BY <1>2, <2>2, <2>3 DEF LockHeld, Busy
  <2> QED  BY <2>4
<1>3. ASSUME NEW r \in Handlers, NEW s \in Requests, Start(r, s) PROVE LockHeld'
  <2> DEFINE h == [Idle EXCEPT !.pc = "list", !.spec = s]
  <2>1. h.pc = "list" /\ h.spec = s
    BY <1>I DEF Call
  <2>2. Set(r, h)
    BY <1>3 DEF Start
  <2> HIDE DEF h
  <2>3. \A q \in Handlers : call'[q] = IF q = r THEN h ELSE call[q]
    BY <1>0, <2>2 DEF Set
  <2>4. \A q \in Handlers : (call'[q].pc # "idle") = (q = r \/ call[q].pc # "idle")
    BY <2>1, <2>3
  <2>5. names' = names \cup {Host[r]} /\ Host[r] \notin names /\ call[r].pc = "idle"
    BY <1>3 DEF Start, TryLock
  <2>6. LockHeld'
    BY <2>4, <2>5 DEF LockHeld
  <2> QED  BY <2>6
<1>4. ASSUME NEW c \in Controllers, Crash(c) PROVE LockHeld'
  <2>1. \A q \in Handlers : call'[q] = IF Host[q] = c THEN Idle ELSE call[q]
    BY <1>4 DEF Crash
  <2>2. names' = names \ {c}
    BY <1>4 DEF Crash
  <2>3. \A q \in Handlers : (call'[q].pc # "idle") = (Host[q] # c /\ call[q].pc # "idle")
    BY <1>0, <2>1
  <2>4. LockHeld'
    BY <2>2, <2>3 DEF LockHeld
  <2> QED  BY <2>4
<1>5. ASSUME UNCHANGED handlerVars PROVE LockHeld'
  BY <1>5 DEF handlerVars, LockHeld, Busy
<1>6. ASSUME TakeEffect \/ (\E i \in Ids : Nobus(i)) \/ UNCHANGED vars PROVE UNCHANGED handlerVars
  BY <1>6 DEF TakeEffect, Nobus, Appear, Purge, Attach, Detach, DeleteVolume, vars, handlerVars
<1> QED
  BY <1>1, <1>2, <1>3, <1>4, <1>5, <1>6, ServeGoes DEF Next

(* The lock on the name is held exactly by the controllers that have a CreateVolume
   of it in flight, one each: every return, and a crash, gives it back. *)
THEOREM LockIsHeld == Spec => []LockHeld
<1>1. Init => LockHeld
  <2>1. Idle.pc = "idle"  BY DEF Idle
  <2> HIDE DEF Idle
  <2> QED  BY <2>1 DEF Init, LockHeld, Busy
<1> QED  BY <1>1, LockStep, TypeCorrect, PTL DEF Spec

-----------------------------------------------------------------------------
(* Only VerifyOK answers OK. *)
LEMMA AnswersOnlyVerified ==
    ASSUME [Next]_vars
    PROVE  returned' = returned \/ \E r \in Handlers : VerifyOK(r)
BY DEF Next, Serve, Start, Crash, TakeEffect, Nobus, ListFound, ListEmpty, ListIncompatible,
       DeleteAccepted, DeleteRefused, Removed, Created, CreateLate, CreateRefused, VerifyRejected,
       CallFails, Appear, Purge, Attach, Detach, DeleteVolume, ghostVars, vars
=============================================================================
