-------------------------- MODULE MCVolumeService --------------------------
(* Small instances of VolumeService for TLC: a GiB of two bytes, and int64 *)
(* numbers of four bits.                                                   *)
EXTENDS VolumeService, TLC

CONSTANTS c1, c2, h1, h2

Deployed == {(h1 :> c1) @@ (h2 :> c1), (h1 :> c1) @@ (h2 :> c2)}

(* No size, an odd one, one that rounds beyond its limit, one that fits its *)
(* limit, and one that rounds beyond 64 bits.                               *)
SomeRanges == {[required |-> 0, limit |-> 0], [required |-> 3, limit |-> 0],
               [required |-> 3, limit |-> 3], [required |-> 5, limit |-> 6],
               [required |-> 7, limit |-> 0]}

(* No preference, one that the requisite zones forbid, one that they allow, *)
(* and none where they allow the configured zone and where they do not.     *)
SomeTopologies == {[requisite |-> <<>>,            preferred |-> <<"">>],
                   [requisite |-> <<"z2">>,        preferred |-> <<"z1">>],
                   [requisite |-> <<"z2", "z1">>,  preferred |-> <<"", "z2", "z1">>],
                   [requisite |-> <<"z2", "z1">>,  preferred |-> <<>>],
                   [requisite |-> <<"", "z2">>,    preferred |-> <<"">>]}

SomeLoads == {{"expand", "create"}, {"expand", "refuse"}, {"expand", "late"}, {"expand", "remove"},
              {"list", "create", "remove"}, {"create", "place"}}
=============================================================================
