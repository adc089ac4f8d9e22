------------------------- MODULE FormatPolicyProofs -------------------------
(***************************************************************************)
(* doFormat's file-system choice, for every request value, every pair of   *)
(* support flags and every device size, not only the sizes MCFormatPolicy  *)
(* enumerates.                                                             *)
(***************************************************************************)
EXTENDS MCFormatPolicy, TLAPS

(* The types the specification's rule chooses among, for given support.    *)
LEMMA SupportedSets ==
    ASSUME NEW a \in BOOLEAN, NEW b \in BOOLEAN
    PROVE  LET S == {t \in {"vfat", "exfat"} : (t = "vfat" /\ a) \/ (t = "exfat" /\ b)}
           IN  /\ a /\ b => S = {"vfat", "exfat"}
               /\ a /\ ~b => S = {"vfat"}
               /\ ~a /\ b => S = {"exfat"}
               /\ ~a /\ ~b => S = {}
BY Zenon

(* The choice over a single supported type is that type.                    *)
LEMMA ChooseSingleton ==
    ASSUME NEW x
    PROVE  (CHOOSE t \in {x} : TRUE) = x
BY Zenon

(***************************************************************************)
(* For every request string, both support flags and every device size     *)
(* other than the exfat threshold, doFormat resolves fsPick as the        *)
(* specification's rule does: an explicit request only when supported,     *)
(* "auto" to the one supported type, or by size when both are.            *)
(***************************************************************************)
THEOREM PickMatchesSpecForAllSizes ==
    ASSUME NEW t, NEW a \in BOOLEAN, NEW b \in BOOLEAN, NEW sz \in Nat,
           sz # ExfatThreshold
    PROVE  FsPick(t, a, b, sz) = SpecPick(t, a, b, sz)
<1>. DEFINE S == {x \in {"vfat", "exfat"} : (x = "vfat" /\ a) \/ (x = "exfat" /\ b)}
<1>0. ExfatThreshold \in Nat
  BY BytesPerMiBAssumption DEF ExfatThreshold
<1>s. (sz > ExfatThreshold) <=> (sz >= ExfatThreshold)
  BY <1>0
<1>1. CASE a /\ b
  <2>1. S = {"vfat", "exfat"}
    BY <1>1, SupportedSets
  <2>. QED
    BY <1>1, <1>s, <2>1 DEF FsPick, AutoPick, SpecPick
<1>2. CASE a /\ ~b
  <2>1. S = {"vfat"}
    BY <1>2, SupportedSets
  <2>2. (CHOOSE x \in S : TRUE) = "vfat"
    BY <2>1, ChooseSingleton
  <2>. QED
    BY <1>2, <2>1, <2>2 DEF FsPick, AutoPick, SpecPick, NoFs
<1>3. CASE ~a /\ b
  <2>1. S = {"exfat"}
    BY <1>3, SupportedSets
  <2>2. (CHOOSE x \in S : TRUE) = "exfat"
    BY <2>1, ChooseSingleton
  <2>. QED
    BY <1>3, <2>1, <2>2 DEF FsPick, AutoPick, SpecPick, NoFs
<1>4. CASE ~a /\ ~b
  <2>1. S = {}
    BY <1>4, SupportedSets
  <2>. QED
    BY <1>4, <2>1 DEF FsPick, AutoPick, SpecPick, NoFs
<1>. QED
  BY <1>1, <1>2, <1>3, <1>4

(* The bounded run's invariant holds in every state of its specification.  *)
THEOREM OffThresholdInvariant == Spec => []PickMatchesSpecOffThreshold
<1>1. Init => PickMatchesSpecOffThreshold
  <2>. SUFFICES ASSUME Init, size # ExfatThreshold
               PROVE  FsPick(request, vfatSup, exfatSup, size) =
                      SpecPick(request, vfatSup, exfatSup, size)
    BY DEF PickMatchesSpecOffThreshold
  <2>1. ExfatThreshold \in Nat \ {0}
    BY BytesPerMiBAssumption DEF ExfatThreshold
  <2>2. size \in Nat
    BY <2>1 DEF Init, Sizes
  <2>. QED
    BY <2>2, PickMatchesSpecForAllSizes DEF Init
<1>2. PickMatchesSpecOffThreshold /\ [Next]_vars => PickMatchesSpecOffThreshold'
  BY DEF Next, vars, PickMatchesSpecOffThreshold
<1>. QED
  BY <1>1, <1>2, PTL DEF Spec

(***************************************************************************)
(* The one disagreement, for every unit of size: an automatic request on  *)
(* a device of exactly the threshold size with both types supported is     *)
(* formatted vfat by doFormat ("size > 32896LL * 1024 * 1024") where the   *)
(* specification (section 8) says exfat.                                   *)
(***************************************************************************)
THEOREM ThresholdDivergence ==
    /\ FsPick("auto", TRUE, TRUE, ExfatThreshold) = "vfat"
    /\ SpecPick("auto", TRUE, TRUE, ExfatThreshold) = "exfat"
<1>1. ExfatThreshold \in Nat
  BY BytesPerMiBAssumption DEF ExfatThreshold
<1>2. {x \in {"vfat", "exfat"} : (x = "vfat" /\ TRUE) \/ (x = "exfat" /\ TRUE)}
        = {"vfat", "exfat"}
  BY SupportedSets
<1>. QED
  BY <1>1, <1>2 DEF FsPick, AutoPick, SpecPick
=============================================================================
