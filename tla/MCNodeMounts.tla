---------------------------- MODULE MCNodeMounts ----------------------------
(* Small instances of NodeMounts for TLC: a volume with a file system and a *)
(* block volume, without and with faults.                                   *)
EXTENDS NodeMounts

Uses   == {{}, {"block"}}
Faults == {{"fail", "crash"}, {"block", "fail", "crash"}, {"fail", "crash", "slow"}}
Mixed  == Uses \cup Faults
=============================================================================
