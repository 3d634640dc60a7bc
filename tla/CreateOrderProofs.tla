------------------------- MODULE CreateOrderProofs -------------------------
(***************************************************************************)
(* What CreateVolume promises where the lowest ID of a list is the oldest  *)
(* volume of the name: a volume that was answered OK is not deleted as a   *)
(* duplicate, and no second one is answered beside it.  Both rest on one   *)
(* fact, Settled: no list of its zone will ever show an older volume than  *)
(* the one that a handler chose.                                           *)
(***************************************************************************)
EXTENDS CreateVolumeProofs

Settled(c) ==
    /\ c \in Ids /\ status[c] # "none"
    /\ \A j \in Ids : j < c /\ status[j] # "none" /\ attributes[j].zone = attributes[c].zone
                         => status[j] = "gone"

Listed == \A i \in Ids : status[i] # "none" => i \in listed

(* The handler has made its choice. *)
Chosen(h) == h.pc \in {"reap", "removing", "verify"}

OrderInv ==
    /\ Listed
    /\ \A r \in Handlers : Chosen(call[r]) => Settled(call[r].canonical)
    /\ \A i \in returned : Settled(i)

-----------------------------------------------------------------------------
(* The volumes: new ones come on top, the others keep their zone and stay gone. *)

Ages ==
    /\ Listed'
    /\ \A i \in Ids : status[i] # "none" => status'[i] # "none" /\ attributes'[i] = attributes[i]
    /\ \A i \in Ids : status[i] = "gone" => status'[i] = "gone"
    /\ \A i, j \in Ids : status[i] = "none" /\ status'[i] # "none" /\ status[j] # "none" => j < i

LEMMA NewVolumeAges ==
    ASSUME TypeOK, LowestIsOldest, Listed, NEW s, NewVolume(s) PROVE Ages
<1>1. PICK i \in Ids : /\ Fresh(i)
                       /\ status' = [status EXCEPT ![i] = "available"]
                       /\ attributes' = [attributes EXCEPT ![i] = Allocated(s)]
                       /\ listed' = listed \cup {i}
  BY DEF NewVolume, LowestIsOldest
<1>2. status[i] = "none" /\ \A j \in Ids : status[j] # "none" => j < i
  BY <1>1 DEF Fresh, LowestIsOldest
<1> QED  BY <1>1, <1>2 DEF TypeOK, Listed, Ages

LEMMA NextAges ==
    ASSUME TypeOK, LowestIsOldest, Listed, [Next]_vars PROVE Ages
<1> DEFINE Quiet == UNCHANGED <<status, attributes>> /\ listed \subseteq listed'
<1>Q. Quiet => Ages
  BY DEF Ages, Listed
<1>1. ASSUME NEW r \in Handlers, Serve(r) PROVE Ages
  <2>1. CASE ListFound(r) \/ ListEmpty(r) \/ ListIncompatible(r) \/ DeleteRefused(r) \/ Removed(r)
             \/ CreateLate(r) \/ CreateRefused(r) \/ VerifyOK(r) \/ VerifyRejected(r) \/ CallFails(r)
    BY <1>Q, <2>1
       DEF ListFound, ListEmpty, ListIncompatible, DeleteRefused, Removed, CreateLate, CreateRefused,
           VerifyOK, VerifyRejected, CallFails, volumeVars
  <2>2. CASE Created(r)
    BY <2>2, NewVolumeAges DEF Created
  <2>3. CASE DeleteAccepted(r)
    <3>1. PICK d \in call[r].todo : /\ status[d] \in {"available", "deleting"}
                                    /\ status' = [status EXCEPT ![d] = "deleting"]
      BY <2>3 DEF DeleteAccepted
    <3> QED  BY <2>3, <3>1 DEF DeleteAccepted, TypeOK, Ages, Listed
  <2> QED  BY <1>1, <2>1, <2>2, <2>3 DEF Serve
<1>2. ASSUME NEW i \in Ids, Nobus(i) PROVE Ages
  BY <1>2 DEF Nobus, Appear, Purge, Attach, Detach, DeleteVolume, TypeOK, Ages, Listed
<1>3. CASE TakeEffect
  BY <1>3, NewVolumeAges DEF TakeEffect
<1>4. CASE UNCHANGED vars \/ (\E r \in Handlers : \E s \in Requests : Start(r, s))
           \/ \E c \in Controllers : Crash(c)
  BY <1>4, <1>Q DEF Start, Crash, vars, volumeVars
<1> QED  BY <1>1, <1>2, <1>3, <1>4 DEF Next

LEMMA SettledKept == ASSUME TypeOK, Ages, NEW c, Settled(c) PROVE Settled(c)'
<1>1. c \in Ids /\ status[c] # "none" /\ status'[c] # "none" /\ attributes'[c] = attributes[c]
  BY DEF Settled, Ages
<1>2. ASSUME NEW j \in Ids, j < c, status'[j] # "none", attributes'[j].zone = attributes'[c].zone
      PROVE  status'[j] = "gone"
  <2>1. status[j] # "none"
    <3>1. status[j] = "none" => c < j
      BY <1>1, <1>2 DEF Ages
    <3> QED  BY <1>1, <1>2, <3>1, IdsAssumption
  <2> QED  BY <1>1, <1>2, <2>1 DEF Settled, Ages
<1> QED  BY <1>1, <1>2 DEF Settled

-----------------------------------------------------------------------------
(* The handlers: a choice is made by ListFound and kept to the end of the call. *)

LEMMA ReconciledKeepsChoice ==
    ASSUME NEW h \in Call, GoodCall(h), Chosen(Reconciled(h))
    PROVE  Reconciled(h).canonical = h.canonical
<1>1. ASSUME NEW g \in Call PROVE ~Chosen(Resample(g))
  BY DEF Resample, Call, Chosen
<1>2. CASE h.todo # {}
  BY <1>2, ReconciledGood
<1>3. CASE h.todo = {} /\ h.site = "created"
  <2> DEFINE n == IF h.canonical = h.previous THEN h.stable + 1 ELSE 1
             g == [h EXCEPT !.previous = h.canonical, !.stable = n]
  <2>0. n \in Nat
    BY DEF Call
  <2>1. g \in Call
    <3> HIDE DEF n
    <3> QED  BY <2>0 DEF Call
  <2>2. Reconciled(h) = Sampled(h)
    BY <1>3 DEF Reconciled
  <2>3. n >= StableSamples
    BY <1>1, <2>1, <2>2 DEF Sampled
  <2>4. Sampled(h) = [h EXCEPT !.pc = "verify"]
    BY <2>3 DEF Sampled
  <2> QED  BY <2>2, <2>4 DEF Call
<1>4. CASE h.todo = {} /\ h.site # "created"
  BY <1>4 DEF Reconciled, Call
<1> QED  BY <1>2, <1>3, <1>4

(* The first of a list that shows every volume of its zone. *)
LEMMA FirstIsSettled ==
    ASSUME TypeOK, Listed, NEW z, NEW k \in Visible(z), IsLeast(k, Visible(z))
    PROVE  Settled(k)
<1>1. k \in Ids /\ status[k] \in Present /\ attributes[k].zone = z
  BY DEF Visible, TypeOK
<1>2. ASSUME NEW j \in Ids, j < k, status[j] # "none", attributes[j].zone = z
      PROVE  status[j] = "gone"
  <2>1. j \notin Visible(z)
    BY <1>1, <1>2, IdsAssumption DEF IsLeast
  <2> QED  BY <1>2, <2>1 DEF Visible, Present, Listed, TypeOK
<1> QED  BY <1>1, <1>2 DEF Settled, Present

(* Whatever a handler does, its choice is one it had, or the first of a list. *)
LEMMA ServeChooses ==
    ASSUME TypeOK, OrderInv, NEW r \in Handlers, Serve(r)
    PROVE  \E h \in Call : Set(r, h) /\ (Chosen(h) => Settled(h.canonical))
<1>0. call[r] \in Call /\ GoodCall(call[r]) /\ Idle \in Call
  BY IdleGood DEF TypeOK, GoodCall
<1>I. ~Chosen(Idle)
  BY DEF Idle, Chosen
<1> HIDE DEF Idle
<1>1. CASE Reply(r)
  BY <1>0, <1>I, <1>1 DEF Reply
<1>2. ASSUME NEW g \in Call, GoodCall(g), Set(r, Reconciled(g)), Settled(g.canonical)
      PROVE  \E h \in Call : Set(r, h) /\ (Chosen(h) => Settled(h.canonical))
  <2>1. Reconciled(g) \in Call /\ (Chosen(Reconciled(g)) => Settled(Reconciled(g).canonical))
    BY <1>2, ReconciledGood, ReconciledKeepsChoice DEF GoodCall
  <2> QED  BY <1>2, <2>1
<1>3. CASE ListFound(r)
  <2> DEFINE V == Visible(call[r].spec.zone)
  <2>1. PICK k \in V :
          /\ IsLeast(k, V)
          /\ Set(r, Reconciled([call[r] EXCEPT !.canonical = k,
                                 !.todo = {i \in V \ {k} : deletableDuplicateVolume(i)}]))
    BY <1>3 DEF ListFound, Canonical
  <2> DEFINE D == {i \in V \ {k} : deletableDuplicateVolume(i)}
             g == [call[r] EXCEPT !.canonical = k, !.todo = D]
  <2>2. Settled(k)
    BY <2>1, FirstIsSettled DEF OrderInv
  <2>3. D \subseteq Ids /\ k \in Nat
    BY IdsAssumption DEF Visible, TypeOK
  <2> HIDE DEF D
  <2>4. GoodCall(g) /\ g.canonical = k
    BY <1>0, <2>3 DEF GoodCall, Call
  <2> QED  BY <1>2, <2>1, <2>2, <2>4 DEF D, GoodCall
<1>4. CASE DeleteRefused(r) \/ Removed(r)
  <2>1. PICK d : Skip(r, d)
    BY <1>4 DEF DeleteRefused, Removed
  <2> DEFINE g == [call[r] EXCEPT !.todo = call[r].todo \ {d}]
  <2>2. GoodCall(g) /\ g.canonical = call[r].canonical
    BY <1>0 DEF GoodCall, Call
  <2>3. Settled(call[r].canonical)
    BY <1>4 DEF OrderInv, Chosen, DeleteRefused, Removed
  <2> QED  BY <1>2, <2>1, <2>2, <2>3 DEF Skip, GoodCall
<1>5. CASE DeleteAccepted(r)
  <2>1. Settled(call[r].canonical)
    BY <1>5 DEF OrderInv, Chosen, DeleteAccepted
  <2>2. CASE Set(r, [call[r] EXCEPT !.pc = "removing"])
    <3> DEFINE h == [call[r] EXCEPT !.pc = "removing"]
    <3>1. h \in Call /\ h.canonical = call[r].canonical
      BY <1>0 DEF Call
    <3> QED  BY <2>1, <2>2, <3>1
  <2> QED  BY <1>1, <1>5, <2>2 DEF DeleteAccepted
<1>6. CASE ListEmpty(r) \/ Created(r) \/ CreateRefused(r)
  <2> DEFINE Back(h) == h \in Call /\ ~Chosen(h)
  <2>1. /\ Back([call[r] EXCEPT !.pc = "create"])
        /\ Back([call[r] EXCEPT !.pc = "list", !.site = "created"])
        /\ Back([call[r] EXCEPT !.pc = "list", !.site = "exists"])
    BY <1>0 DEF Call, Chosen, Sites
  <2>2. call[r].site = "created" => Back(Resample(call[r]))
    <3> SUFFICES ASSUME call[r].site = "created" PROVE Back(Resample(call[r]))  OBVIOUS
    <3>1. Resample(call[r]) \in Call
      BY <1>0, ResampleGood DEF GoodCall
    <3>2. ~Chosen(Resample(call[r]))
      BY <1>0 DEF Resample, Call, Chosen
    <3> QED  BY <3>1, <3>2
  <2>3. Reply(r) \/ \E h : Back(h) /\ Set(r, h)
    <3> HIDE DEF Back
    <3> QED  BY <1>6, <2>1, <2>2 DEF ListEmpty, GiveUp, Created, CreateRefused
  <2> QED  BY <1>1, <2>3
<1> QED  BY <1>1, <1>3, <1>4, <1>5, <1>6
         DEF Serve, ListIncompatible, CreateLate, VerifyOK, VerifyRejected, CallFails

LEMMA HandlersOrder ==
    ASSUME TypeOK, OrderInv, [Next]_vars, NEW r \in Handlers, Chosen(call'[r])
    PROVE  Settled(call'[r].canonical)
<1>0. call \in [Handlers -> Call] /\ Idle \in Call
  BY IdleGood DEF TypeOK, GoodCall
<1>I. ~Chosen(Idle)
  BY DEF Idle, Chosen
<1> HIDE DEF Idle
<1>K. call'[r] = call[r] => Settled(call'[r].canonical)
  BY DEF OrderInv
<1>1. ASSUME NEW q \in Handlers, Serve(q) PROVE Settled(call'[r].canonical)
  <2>1. PICK h \in Call : Set(q, h) /\ (Chosen(h) => Settled(h.canonical))
    BY <1>1, ServeChooses
  <2>2. call'[r] = (IF r = q THEN h ELSE call[r])
    BY <1>0, <2>1 DEF Set
  <2> QED  BY <1>K, <2>1, <2>2
<1>2. ASSUME NEW q \in Handlers, NEW s \in Requests, Start(q, s) PROVE Settled(call'[r].canonical)
  <2> DEFINE h == [Idle EXCEPT !.pc = "list", !.spec = s]
  <2>1. ~Chosen(h)
    BY <1>0 DEF Chosen, Call
  <2>2. call'[r] = (IF r = q THEN h ELSE call[r])
    BY <1>0, <1>2 DEF Start, Set
  <2> QED  BY <1>K, <2>1, <2>2
<1>3. ASSUME NEW c \in Controllers, Crash(c) PROVE Settled(call'[r].canonical)
  BY <1>3, <1>I, <1>K DEF Crash
<1>4. CASE UNCHANGED vars \/ TakeEffect \/ \E i \in Ids : Nobus(i)
  BY <1>4, <1>K DEF vars, handlerVars, TakeEffect, Nobus, Appear, Purge, Attach, Detach, DeleteVolume
<1> QED  BY <1>1, <1>2, <1>3, <1>4 DEF Next

LEMMA FaultsKept == ASSUME [Next]_vars PROVE faults' = faults
BY DEF Next, Serve, Start, Crash, TakeEffect, Nobus, ListFound, ListEmpty, ListIncompatible,
       DeleteAccepted, DeleteRefused, Removed, Created, CreateLate, CreateRefused, VerifyOK,
       VerifyRejected, CallFails, Appear, Purge, Attach, Detach, DeleteVolume, ghostVars, vars

LEMMA OrderStep ==
    ASSUME TypeOK, LowestIsOldest, OrderInv, [Next]_vars PROVE OrderInv'
<1>1. Ages
  BY NextAges DEF OrderInv
<1>2. \A c : Settled(c) => Settled(c)'
  BY <1>1, SettledKept
<1>3. ASSUME NEW r \in Handlers, Chosen(call[r])' PROVE Settled(call[r].canonical)'
  <2>1. PICK h : h = call'[r]
    OBVIOUS
  <2>2. Settled(h.canonical)
    BY <1>3, <2>1, HandlersOrder DEF Chosen
  <2>3. Settled(h.canonical)'
    BY <1>2, <2>2
  <2> QED  BY <2>1, <2>3 DEF Settled
<1>4. ASSUME NEW i \in returned' PROVE Settled(i)'
  <2>1. CASE i \in returned
    BY <1>2, <2>1 DEF OrderInv
  <2>2. CASE i \notin returned
    <3>1. PICK r \in Handlers : VerifyOK(r)
      BY <1>4, <2>2, AnswersOnlyVerified
    <3>2. i = call[r].canonical /\ Chosen(call[r])
      BY <1>4, <2>2, <3>1 DEF VerifyOK, Chosen
    <3> QED  BY <1>2, <3>2 DEF OrderInv
  <2> QED  BY <2>1, <2>2
<1> QED  BY <1>1, <1>3, <1>4 DEF Ages, OrderInv

LEMMA OrderHolds == Spec => [](LowestIsOldest => OrderInv)
<1>1. Init => OrderInv
  <2>1. ~Chosen(Idle)
    BY DEF Idle, Chosen
  <2> HIDE DEF Idle
  <2> QED  BY <2>1 DEF Init, OrderInv, Listed
<1>2. TypeOK /\ (LowestIsOldest => OrderInv) /\ [Next]_vars => (LowestIsOldest => OrderInv)'
  BY OrderStep, FaultsKept DEF LowestIsOldest
<1> QED  BY <1>1, <1>2, TypeCorrect, PTL DEF Spec

-----------------------------------------------------------------------------
(* Where IDs grow and lists are complete, no controller deletes a volume that CreateVolume
   answered OK with, unless DeleteVolume was called for an older one of the zone. *)
THEOREM AnswersAreKept == Spec => []ReturnedNotReaped
<1>1. IInv /\ (LowestIsOldest => OrderInv) => ReturnedNotReaped
  <2> SUFFICES ASSUME IInv, LowestIsOldest, OrderInv, NEW i \in returned \cap reaped
               PROVE  \E k \in dropped : k < i /\ attributes[k].zone = attributes[i].zone
    BY DEF ReturnedNotReaped, ReturnedIsKept
  <2>1. PICK k \in Ids : k < i /\ SameShape(k, i) /\ Survives(k)
    BY DEF IInv, NameNeverLost
  <2>2. status[k] # "none"
    BY <2>1, SurvivorExists DEF IInv
  <2>3. status[k] = "gone"
    BY <2>1, <2>2 DEF OrderInv, Settled, SameShape
  <2> QED  BY <2>1, <2>3 DEF Survives, SameShape, Live
<1> QED  BY <1>1, InductionHolds, OrderHolds, PTL

(* Under the same condition two OK answers of a zone that are both alive are the same
   volume, whichever controllers gave them. *)
THEOREM AnswersAgree == Spec => []OneLiveVolume
<1>1. TypeOK /\ (LowestIsOldest => OrderInv) => OneLiveVolume
  <2> SUFFICES ASSUME TypeOK, LowestIsOldest, OrderInv, NEW i \in returned, NEW j \in returned,
                      status[i] \in Live, status[j] \in Live,
                      attributes[i].zone = attributes[j].zone
               PROVE  i = j
    BY DEF OneLiveVolume
  <2>1. Settled(i) /\ Settled(j) /\ i \in Nat /\ j \in Nat
    BY IdsAssumption DEF OrderInv, TypeOK
  <2>2. ~(i < j) /\ ~(j < i)
    BY <2>1 DEF Settled, Live
  <2> QED  BY <2>1, <2>2
<1> QED  BY <1>1, TypeCorrect, OrderHolds, PTL
=============================================================================
