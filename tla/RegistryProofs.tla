--------------------------- MODULE RegistryProofs ---------------------------
(* What the promise of Registry is worth, for any IDs and shapes. *)
EXTENDS Registry, TLAPS

IInv == /\ kept \subseteq made /\ made \subseteq Ids
        /\ shape \in [Ids -> Shapes]
        /\ NameKept

(* A name that has a volume never loses it to reconciliation, however long the
   chain of volumes that are reaped one below the other. *)
THEOREM NameIsKept == ASSUME Ids \subseteq Nat PROVE Spec => []NameKept
<1>1. Init => IInv
  BY DEF Init, IInv, NameKept
<1>2. IInv /\ [Next]_vars => IInv'
  <2> SUFFICES ASSUME IInv, [Next]_vars PROVE IInv'  OBVIOUS
  <2>1. ASSUME NEW i \in Ids, Make(i) PROVE IInv'
    <3>1. /\ kept' = kept \cup {i} /\ made' = made \cup {i} /\ i \notin made
          /\ shape' \in [Ids -> Shapes] /\ \A j \in Ids \ {i} : shape'[j] = shape[j]
      BY <2>1 DEF Make
    <3>2. ASSUME NEW d \in made' \ kept' PROVE \E k \in Ids : Older(k, d)'
      <4>1. d \in made \ kept /\ d # i /\ d \in Ids
        BY <3>1, <3>2 DEF IInv
      <4>2. PICK k \in Ids : Older(k, d)
        BY <4>1 DEF IInv, NameKept
      <4>3. k # i
        BY <3>1, <4>2 DEF Older, IInv
      <4> QED  BY <3>1, <4>1, <4>2, <4>3 DEF Older
    <3> QED  BY <3>1, <3>2 DEF IInv, NameKept
  <2>2. ASSUME NEW e \in Ids, Reap(e) PROVE IInv'
    <3>1. kept' = kept \ {e} /\ UNCHANGED <<made, shape>> /\ e \in kept
      BY <2>2 DEF Reap
    <3>2. PICK j \in Ids : Older(j, e)
      BY <2>2 DEF Reap
    <3>3. ASSUME NEW d \in made' \ kept' PROVE \E k \in Ids : Older(k, d)'
      <4>1. Older(j, e)'
        BY <3>1, <3>2 DEF Older
      <4>2. CASE d = e
        BY <4>1, <4>2
      <4>3. CASE d # e
        <5>1. d \in made \ kept /\ d \in Ids
          BY <3>1, <3>3, <4>3 DEF IInv
        <5>2. PICK k \in Ids : Older(k, d)
          BY <5>1 DEF IInv, NameKept
        <5>3. CASE k # e
          BY <3>1, <5>2, <5>3 DEF Older
        <5>4. CASE k = e
          BY <3>1, <4>1, <5>1, <5>2, <5>4 DEF Older
        <5> QED  BY <5>3, <5>4
      <4> QED  BY <4>2, <4>3
    <3> QED  BY <3>1, <3>3 DEF IInv, NameKept
  <2>3. ASSUME NEW i \in Ids, Answer(i) \/ Drop(i) PROVE IInv'
    BY <2>3 DEF Answer, Drop, IInv, NameKept, Older
  <2>4. CASE UNCHANGED vars
    BY <2>4 DEF vars, IInv, NameKept, Older
  <2> QED  BY <2>1, <2>2, <2>3, <2>4 DEF Next
<1> QED  BY <1>1, <1>2, PTL DEF Spec, IInv
=============================================================================
