--------------------------- MODULE MCCreateVolume ---------------------------
(* Small instances of CreateVolume for TLC. *)
EXTENDS CreateVolume, TLC

CONSTANTS c1, c2

(* One handler per controller, named after it, as when both replicas serve the name. *)
HostEach == [r \in Handlers |-> r]

(* Handlers of one controller, which compete for its lock. *)
HostShared == [r \in Handlers |-> c1]

Plain    == [size |-> 1, zone |-> "az-1", type |-> "", encrypted |-> FALSE]
Typed    == [Plain EXCEPT !.type = "ssd"]
NextZone == [Plain EXCEPT !.zone = "az-2"]

OneRequest == {Plain}
TwoTypes   == {Plain, Typed}
TwoZones   == {Plain, NextZone}

(* The replicas are alike, each with its handler. *)
Replicas == Permutations(Controllers)
=============================================================================
