---------------------------- MODULE FormatPolicy ----------------------------
(***************************************************************************)
(* The filesystem selection of PublicVolume::doFormat: which filesystem a  *)
(* format request resolves to, from the request ("auto" or an explicit     *)
(* type), which of vfat and exfat the build supports, and the size of the  *)
(* block device.  A pure algorithm, written as an operator so that the     *)
(* Format action of PublicVolume and the bounded check of MCFormatPolicy   *)
(* use the same definition.                                                *)
(***************************************************************************)
EXTENDS Naturals

CONSTANT BytesPerMiB   \* the unit of device sizes: 1024 * 1024 in the code

ASSUME BytesPerMiBAssumption == BytesPerMiB \in Nat \ {0}

(* The size above which exfat is chosen, "32896LL * 1024 * 1024" bytes.    *)
ExfatThreshold == 32896 * BytesPerMiB

(* The selection the code cannot satisfy: fsPick = NONE.                   *)
NoFs == "none"

(***************************************************************************)
(* fsPick after the two resolution blocks of doFormat.  The "auto" block   *)
(* prefers exfat for devices larger than the threshold when both are       *)
(* supported, else takes the one supported type; an explicit request is    *)
(* honoured only when that type is supported.                              *)
(***************************************************************************)
AutoPick(isVfatSup, isExfatSup, size) ==
    IF isVfatSup /\ isExfatSup
    THEN IF size > ExfatThreshold THEN "exfat" ELSE "vfat"
    ELSE IF isExfatSup THEN "exfat"
    ELSE IF isVfatSup THEN "vfat"
    ELSE NoFs

(* Mutant: an explicit request is honoured without its support check.      *)
FsPickIgnoringSupport(fsType, isVfatSup, isExfatSup, size) ==
    CASE fsType \in {"vfat", "exfat"} -> fsType
      [] fsType = "auto"              -> AutoPick(isVfatSup, isExfatSup, size)
      [] OTHER                        -> NoFs

FsPick(fsType, isVfatSup, isExfatSup, size) ==
    CASE fsType = "vfat" /\ isVfatSup   -> "vfat"
      [] fsType = "exfat" /\ isExfatSup -> "exfat"
      [] fsType = "auto"                -> AutoPick(isVfatSup, isExfatSup, size)
      [] OTHER                          -> NoFs

(* doFormat asks the device for its size only when both types compete.     *)
NeedsDevSize(fsType, isVfatSup, isExfatSup) ==
    fsType = "auto" /\ isVfatSup /\ isExfatSup
=============================================================================
