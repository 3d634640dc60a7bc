---------------------------- MODULE MCAttachment ----------------------------
(* Small instances of Attachment for TLC. *)
EXTENDS Attachment, TLC

CONSTANTS r1, r2, r3, c1, c2

(* Two handlers of the first controller and one of its replica. *)
Deployed == (r1 :> c1) @@ (r2 :> c1) @@ (r3 :> c2)
=============================================================================
