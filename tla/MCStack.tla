------------------------------ MODULE MCStack ------------------------------
(* Small instances of Stack for TLC: two IDs, one of which can also be *)
(* written with its scope.                                             *)
EXTENDS Stack

CONSTANTS v1, v2, s1, o1, o2, o3

BareOfNames == (v1 :> v1) @@ (v2 :> v2) @@ (s1 :> v1)

(* The scoped form is the last of the sorted strings, its bare form the first. *)
Positions == (v1 :> 1) @@ (v2 :> 2) @@ (s1 :> 3)

AllKinds == DOMAIN Resource
Servers  == {"Instance"}
Ports    == {"Port"}
First    == {v1}

Alone    == {{}}
Mixed    == {{}, {"refuse"}, {"strict", "wait"}, {"lost"}, {"gone"}, {"blank", "gone"},
             {"clear", "defaults"}, {"clear"}, {"slow", "move"}, {"import"}}
Repeated == {{"refuse"}, {"wait", "slow"}, {"lost"}}
Imports  == {{"import"}}
=============================================================================
