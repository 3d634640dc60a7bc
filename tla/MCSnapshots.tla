---------------------------- MODULE MCSnapshots ----------------------------
(* Small instances of Snapshots for TLC. *)
EXTENDS Snapshots, TLC

CONSTANTS v1, v2, v3

(* Two replicas of one deployment, each with a handler named after it, and a
   controller of another zone that only serves deletes. *)
HostEach == [r \in Handlers |-> r]
Zoned == [c \in Controllers |-> IF c \in Handlers THEN "az-1" ELSE "az-2"]

(* One source volume lies in the other zone. *)
VolumesZoned == [v \in Volumes |-> IF v = v3 THEN "az-2" ELSE "az-1"]

(* The replicas are alike, and so are the volumes of their zone. *)
Alike == Permutations(Handlers) \cup Permutations({v1, v2})
=============================================================================
