------------------------------ MODULE Registry ------------------------------
(***************************************************************************)
(* What CreateVolume and DeleteVolume promise about the volumes of one     *)
(* name, whatever the number of controllers, the order in which Nobus      *)
(* assigns IDs and shows volumes, and the failures: CreateVolume.tla       *)
(* implements this.                                                        *)
(*                                                                         *)
(* A volume is made once.  The driver reaps a volume on its own account    *)
(* only while it keeps an older one (a lower ID) of the same shape; it     *)
(* answers a caller only with volumes that were made; and it drops, at a   *)
(* caller's word, only a volume that it answered with and has not reaped.  *)
(***************************************************************************)
EXTENDS Naturals

CONSTANTS Ids,     \* the volume IDs, ordered
          Shapes   \* what volumes of the name can differ in: size, zone, encryption

VARIABLES made,      \* the volumes that were made
          shape,     \* the shape of each
          kept,      \* those that the driver has not reaped
          dropped,   \* those that a caller had deleted
          answered   \* those that an OK answer named

vars == <<made, shape, kept, dropped, answered>>

(* An older volume of the same shape that is kept. *)
Older(k, d) == k \in kept /\ k < d /\ shape[k] = shape[d]

Init == made = {} /\ shape \in [Ids -> Shapes] /\ kept = {} /\ dropped = {} /\ answered = {}

Make(i) ==
    /\ i \notin made
    /\ made' = made \cup {i} /\ kept' = kept \cup {i}
    /\ shape' \in [Ids -> Shapes] /\ \A j \in Ids \ {i} : shape'[j] = shape[j]
    /\ UNCHANGED <<dropped, answered>>

Reap(d) ==
    /\ d \in kept \ dropped
    /\ \E k \in Ids : Older(k, d)
    /\ kept' = kept \ {d}
    /\ UNCHANGED <<made, shape, dropped, answered>>

Answer(i) ==
    /\ i \in made
    /\ answered' = answered \cup {i}
    /\ UNCHANGED <<made, shape, kept, dropped>>

Drop(i) ==
    /\ i \in (answered \cap kept) \ dropped
    /\ dropped' = dropped \cup {i}
    /\ UNCHANGED <<made, shape, kept, answered>>

Next == \E i \in Ids : Make(i) \/ Reap(i) \/ Answer(i) \/ Drop(i)

Spec == Init /\ [][Next]_vars

(* For every volume that was reaped an older one of its shape is still kept: *)
(* a name that has a volume never loses it to reconciliation.                *)
NameKept == \A d \in made \ kept : \E k \in Ids : Older(k, d)
=============================================================================
