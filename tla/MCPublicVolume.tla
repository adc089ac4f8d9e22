--------------------------- MODULE MCPublicVolume ---------------------------
(***************************************************************************)
(* Instances of PublicVolume for TLC.  One primary volume owned by u1      *)
(* (two in the ASEC run), with u2 sharing u1's storage and u3 not, all     *)
(* three started: the fan-out has one user to bind and one to skip, and    *)
(* doUnmount has two siblings to tear down.  Each doMount chooses whether  *)
(* the volume is visible.  The spin-up budget is two poll intervals, so    *)
(* the loop can observe the child, wait, and time out; three doMount calls *)
(* per volume let a timed-out child outlive its mount into the next ones.  *)
(***************************************************************************)
EXTENDS PublicVolume

CONSTANTS v1, v2, u1, u2, u3

MCMountUser == [v \in Vols |-> u1]

MCSharedStorageUser == [u \in Users |-> IF u = u2 THEN u1 ELSE NoUser]

MCDevSize == [v \in Vols |-> ExfatThreshold + 1]
=============================================================================
