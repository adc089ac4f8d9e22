----------------------------- MODULE MCVoldMain -----------------------------
(***************************************************************************)
(* Instances of VoldMain for TLC: every combination of the fs_mgr fields   *)
(* process_config reads, with a reserved size of 0 or 1, in fstabs of up   *)
(* to two entries, so that a flag can come from either entry and a         *)
(* removable source can follow a skipped one.                              *)
(***************************************************************************)
EXTENDS VoldMain

MCEntries ==
    [quota : BOOLEAN, reserved_size : 0..1, fs_compress : BOOLEAN,
     logical : BOOLEAN, no_fail : BOOLEAN, data_metadata : BOOLEAN,
     vold_managed : BOOLEAN, nonremovable : BOOLEAN, no_emulated_sd : BOOLEAN]
=============================================================================
