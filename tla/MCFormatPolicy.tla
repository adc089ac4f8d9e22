--------------------------- MODULE MCFormatPolicy ---------------------------
(***************************************************************************)
(* Bounded check of FsPick against the selection rule of the storage       *)
(* daemon's specification (section 4.1 and 8): every request string the    *)
(* binder call may carry, every combination of supported filesystems, and  *)
(* device sizes at and around the exfat threshold.  The state is the input *)
(* of one doFormat call; the next-state relation keeps it.                 *)
(***************************************************************************)
EXTENDS FormatPolicy

VARIABLES request, vfatSup, exfatSup, size

vars == <<request, vfatSup, exfatSup, size>>

Requests == {"auto", "vfat", "exfat", "ext4", ""}

Sizes == {0, 1, ExfatThreshold - 1, ExfatThreshold, ExfatThreshold + 1,
          2 * ExfatThreshold}

Init ==
    /\ request \in Requests
    /\ vfatSup \in BOOLEAN
    /\ exfatSup \in BOOLEAN
    /\ size \in Sizes

Next == UNCHANGED vars

Spec == Init /\ [][Next]_vars

(***************************************************************************)
(* The rule as the specification states it: an automatic request with both *)
(* types supported takes exfat when the size is at or above the threshold, *)
(* vfat below it; with one type supported it takes that type; an explicit  *)
(* request takes its type only when supported; anything else is a          *)
(* configuration error.                                                    *)
(***************************************************************************)
SpecPick(fsType, isVfatSup, isExfatSup, sz) ==
    LET supported == {t \in {"vfat", "exfat"} :
                        (t = "vfat" /\ isVfatSup) \/ (t = "exfat" /\ isExfatSup)}
    IN  IF fsType = "auto"
        THEN IF supported = {"vfat", "exfat"}
             THEN IF sz >= ExfatThreshold THEN "exfat" ELSE "vfat"
             ELSE IF supported = {} THEN NoFs ELSE CHOOSE t \in supported : TRUE
        ELSE IF fsType \in supported THEN fsType ELSE NoFs

(***************************************************************************)
(* doFormat resolves every request as the specification says for every     *)
(* device size other than the threshold itself: the explicit, single-type  *)
(* and unsupported cases, and both sides of the size comparison.           *)
(***************************************************************************)
PickMatchesSpecOffThreshold ==
    size # ExfatThreshold =>
        FsPick(request, vfatSup, exfatSup, size) = SpecPick(request, vfatSup, exfatSup, size)

(***************************************************************************)
(* The specification's boundary case (section 8): a device of exactly the  *)
(* threshold size is formatted exfat when both types are supported.  The   *)
(* code's comparison is "size > 32896LL * 1024 * 1024".                    *)
(***************************************************************************)
PickAtThresholdMatchesSpec ==
    FsPick(request, vfatSup, exfatSup, size) = SpecPick(request, vfatSup, exfatSup, size)
=============================================================================
