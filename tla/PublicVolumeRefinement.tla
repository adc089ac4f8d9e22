----------------------- MODULE PublicVolumeRefinement -----------------------
(***************************************************************************)
(* PublicVolume implements the safety part of VolumeLifecycle, with the   *)
(* raw mount as the medium, for every number of volumes and users; and    *)
(* the lifecycle's own invariant, proved on the abstract specification,    *)
(* carries over to the code: a volume holds its raw mount only while it is *)
(* checking, mounted or unmountable.                                       *)
(***************************************************************************)
EXTENDS PublicVolumeProofs, TLAPS

(* doUnmount releases the raw mount unless UnmountUserFuse failed: the     *)
(* lazy MNT_DETACH covers a failed ForceUnmount.                           *)
LEMMA DoUnmountRaw ==
    ASSUME TypeOK, NEW v \in Vols, NEW fuseOk \in BOOLEAN, DoUnmount(v, fuseOk)
    PROVE  rawMounted' = [rawMounted EXCEPT ![v] =
                            IF UnmountFails(v, fuseOk) THEN rawMounted[v] ELSE FALSE]
<1>1. CASE UnmountFails(v, fuseOk)
  <2>1. rawMounted' = rawMounted
    BY <1>1 DEF DoUnmount
  <2>. QED
    BY <1>1, <2>1 DEF TypeOK
<1>2. CASE ~UnmountFails(v, fuseOk)
  <2>1. PICK rawForced \in BOOLEAN :
          rawMounted' = [rawMounted EXCEPT ![v] = @ /\ RawStillMounted(rawForced, ~rawForced)]
    BY <1>2 DEF DoUnmount
  <2>2. ~RawStillMounted(rawForced, ~rawForced)
    BY DEF RawStillMounted
  <2>. QED
    BY <1>2, <2>1, <2>2 DEF TypeOK
<1>. QED
  BY <1>1, <1>2

(* An in-flight doMount step belongs to a checking volume.                  *)
LEMMA StepChecking ==
    ASSUME MountInv, NEW v \in Vols, step[v] # "idle"
    PROVE  state[v] = "checking"
BY DEF MountInv, VolInv

(* A doMount that returns after its failing stage: unmountable, with the   *)
(* raw mount as the stages left it.                                        *)
LEMMA FailedReturn ==
    ASSUME TypeOK, NEW v \in Vols, NEW m \in BOOLEAN, MountFails(v),
           rawMounted' = [rawMounted EXCEPT ![v] = m]
    PROVE  /\ state[v] = "checking" => Lifecycle!AMountEnd(v)
           /\ state[v] = "unmounted" => Lifecycle!AMountStart(v)
BY DEF MountFails, Lifecycle!AMountEnd, Lifecycle!AMountStart, Lifecycle!Move

-----------------------------------------------------------------------------
(* Every step of PublicVolume is a lifecycle step or leaves the state and  *)
(* the raw mount unchanged.                                                *)
LEMMA RefineStep ==
    ASSUME MountInv, [Next]_vars
    PROVE  [Lifecycle!ANext]_Lifecycle!avars
<1>. DEFINE Goal == [Lifecycle!ANext]_Lifecycle!avars
<1>0. TypeOK
  BY DEF MountInv, TypeInv
<1>s. UNCHANGED <<state, rawMounted>> => Goal
  BY DEF Lifecycle!avars
<1>a. ASSUME NEW v \in Vols, Lifecycle!ACreate(v) \/ Lifecycle!AMountStart(v)
                             \/ Lifecycle!AMountEnd(v) \/ Lifecycle!AUnmount(v)
                             \/ Lifecycle!ADestroy(v)
      PROVE  Goal
  BY <1>a DEF Lifecycle!ANext
<1>1. ASSUME NEW v \in Vols, Create(v) PROVE Goal
  <2>1. PICK ok \in BOOLEAN : state' = [state EXCEPT ![v] = IF ok THEN "unmounted" ELSE "new"]
    BY <1>1 DEF Create
  <2>2. rawMounted' = rawMounted /\ state[v] = "new"
    BY <1>1 DEF Create, mountVars
  <2>3. CASE ok
    <3>1. Lifecycle!ACreate(v)
      BY <1>0, <2>1, <2>2, <2>3 DEF Lifecycle!ACreate, Lifecycle!Move, TypeOK
    <3>. QED
      BY <3>1, <1>a
  <2>4. CASE ~ok
    BY <1>0, <1>s, <2>1, <2>2, <2>4 DEF TypeOK
  <2>. QED
    BY <2>3, <2>4
<1>2. ASSUME NEW v \in Vols, MountBegin(v) PROVE Goal
  <2>1. PICK isVisible \in BOOLEAN, f \in CheckStage..NoFailure :
          /\ rawMounted' = [rawMounted EXCEPT ![v] = f > RawMountStage]
          /\ \/ f < NoFailure /\ MountFails(v)
             \/ f = NoFailure /\ ~isVisible /\ MountSucceeds(v)
             \/ /\ f = NoFailure /\ isVisible
                /\ state' = [state EXCEPT ![v] = "checking"]
    BY <1>2 DEF MountBegin
  <2>2. state[v] = "unmounted"
    BY <1>2 DEF MountBegin
  <2>3. CASE f < NoFailure /\ MountFails(v)
    <3>1. (f > RawMountStage) \in BOOLEAN
      OBVIOUS
    <3>2. Lifecycle!AMountStart(v)
      BY <1>0, <2>1, <2>2, <2>3, <3>1, FailedReturn
    <3>. QED
      BY <3>2, <1>a
  <2>4. CASE f = NoFailure
    <3>1. f > RawMountStage
      BY <2>4 DEF NoFailure, RawMountStage
    <3>2. rawMounted' = [rawMounted EXCEPT ![v] = TRUE]
      BY <2>1, <3>1, Zenon
    <3>3. CASE ~isVisible /\ MountSucceeds(v)
      <4>1. Lifecycle!AMountStart(v)
        BY <2>2, <3>2, <3>3 DEF MountSucceeds, Lifecycle!AMountStart, Lifecycle!Move
      <4>. QED
        BY <4>1, <1>a
    <3>4. CASE isVisible /\ state' = [state EXCEPT ![v] = "checking"]
      <4>1. Lifecycle!AMountStart(v)
        BY <2>2, <3>2, <3>4 DEF Lifecycle!AMountStart, Lifecycle!Move
      <4>. QED
        BY <4>1, <1>a
    <3>. QED
      BY <2>1, <2>4, <3>3, <3>4
  <2>. QED
    BY <2>1, <2>3, <2>4
<1>3. ASSUME NEW v \in Vols, SpinUpObserved(v) \/ SpinUpWait(v) \/ FuseMounted(v)
      PROVE  Goal
  BY <1>3, <1>s DEF SpinUpObserved, SpinUpWait, FuseMounted, mountVars
<1>4. ASSUME NEW v \in Vols, SpinUpTimeout(v) PROVE Goal
  <2>1. state[v] = "checking"
    BY <1>4, StepChecking DEF SpinUpTimeout
  <2>2. rawMounted' = [rawMounted EXCEPT ![v] = rawMounted[v]]
    BY <1>0, <1>4 DEF SpinUpTimeout, mountVars, TypeOK
  <2>3. rawMounted[v] \in BOOLEAN
    BY <1>0 DEF TypeOK
  <2>. QED
    BY <1>0, <1>4, <2>1, <2>2, <2>3, <1>a, FailedReturn DEF SpinUpTimeout
<1>5. ASSUME NEW v \in Vols, FuseMountFailed(v) \/ VolumeNotReady(v) PROVE Goal
  <2>1. state[v] = "checking"
    BY <1>5, StepChecking DEF FuseMountFailed, VolumeNotReady
  <2>2. PICK fuseOk \in BOOLEAN : DoUnmount(v, fuseOk) /\ MountFails(v)
    BY <1>5 DEF FuseMountFailed, VolumeNotReady
  <2>3. rawMounted' = [rawMounted EXCEPT ![v] =
                         IF UnmountFails(v, fuseOk) THEN rawMounted[v] ELSE FALSE]
    BY <1>0, <2>2, DoUnmountRaw
  <2>4. (IF UnmountFails(v, fuseOk) THEN rawMounted[v] ELSE FALSE) \in BOOLEAN
    BY <1>0 DEF TypeOK
  <2>. QED
    BY <1>0, <2>1, <2>2, <2>3, <2>4, <1>a, FailedReturn
<1>6. ASSUME NEW v \in Vols, VolumeReady(v) PROVE Goal
  <2>1. state[v] = "checking"
    BY <1>6, StepChecking DEF VolumeReady
  <2>2. rawMounted' = [rawMounted EXCEPT ![v] = rawMounted[v]]
    BY <1>0, <1>6 DEF VolumeReady, TypeOK
  <2>3. Lifecycle!AMountEnd(v)
    BY <1>6, <2>1, <2>2 DEF VolumeReady, MountSucceeds, Lifecycle!AMountEnd, Lifecycle!Move
  <2>. QED
    BY <2>3, <1>a
<1>7. ASSUME NEW v \in Vols, NEW c \in ChildIds, SdcardfsChild(v, c) PROVE Goal
  BY <1>7, <1>s DEF SdcardfsChild
<1>8. ASSUME NEW v \in Vols, Unmount(v) PROVE Goal
  <2>1. state[v] \in {"mounted", "unmountable"}
    BY <1>8 DEF Unmount
  <2>2. PICK fuseOk \in BOOLEAN :
          /\ DoUnmount(v, fuseOk)
          /\ state' = [state EXCEPT ![v] = IF UnmountFails(v, fuseOk) THEN "unmountable"
                                                                        ELSE "unmounted"]
    BY <1>8 DEF Unmount
  <2>3. rawMounted' = [rawMounted EXCEPT ![v] =
                         IF UnmountFails(v, fuseOk) THEN rawMounted[v] ELSE FALSE]
    BY <1>0, <2>2, DoUnmountRaw
  <2>4. Lifecycle!AUnmount(v)
    <3>1. CASE UnmountFails(v, fuseOk)
      BY <2>1, <2>2, <2>3, <3>1 DEF Lifecycle!AUnmount, Lifecycle!Move
    <3>2. CASE ~UnmountFails(v, fuseOk)
      BY <2>1, <2>2, <2>3, <3>2 DEF Lifecycle!AUnmount, Lifecycle!Move
    <3>. QED
      BY <3>1, <3>2
  <2>. QED
    BY <2>4, <1>a
<1>9. ASSUME NEW v \in Vols, Destroy(v) PROVE Goal
  <2>1. Lifecycle!ADestroy(v)
    BY <1>0, <1>9 DEF Destroy, mountVars, Lifecycle!ADestroy, Lifecycle!Move, TypeOK
  <2>. QED
    BY <2>1, <1>a
<1>10. ASSUME NEW v \in Vols, Format(v) \/ FormatSizeUnknown(v) PROVE Goal
  BY <1>10, <1>s DEF Format, FormatSizeUnknown, mountVars
<1>11. CASE UNCHANGED vars
  BY <1>11, <1>s DEF vars
<1>. QED
  BY <1>1, <1>2, <1>3, <1>4, <1>5, <1>6, <1>7, <1>8, <1>9, <1>10, <1>11
  DEF Next, MountStep

(***************************************************************************)
(* Refinement: every behaviour of PublicVolume's volumes is a behaviour of *)
(* VolumeLifecycle under the mapping media <- rawMounted.  The run core    *)
(* checks the full Lifecycle!Spec, fairness included, on one volume.       *)
(***************************************************************************)
THEOREM Refinement == Spec => Lifecycle!SafeSpec
<1>1. Init => Lifecycle!AInit
  BY DEF Init, Lifecycle!AInit
<1>2. MountInv /\ [Next]_vars => [Lifecycle!ANext]_Lifecycle!avars
  BY RefineStep
<1>. QED
  BY <1>1, <1>2, InitMountInv, NextMountInv, PTL DEF Spec, Lifecycle!SafeSpec

-----------------------------------------------------------------------------
(* The lifecycle's inductive invariant: its types and MediaOnlyInUse.       *)
LifecycleInv ==
    /\ state \in [Vols -> VolStates]
    /\ rawMounted \in [Vols -> BOOLEAN]
    /\ Lifecycle!MediaOnlyInUse

LEMMA LifecycleInvStep ==
    ASSUME LifecycleInv, [Lifecycle!ANext]_Lifecycle!avars
    PROVE  LifecycleInv'
<1>1. ASSUME NEW v \in Vols, NEW from, NEW to \in VolStates, NEW m \in BOOLEAN,
             Lifecycle!Move(v, from, to, m),
             m => to \in {"checking", "mounted", "unmountable"}
      PROVE  LifecycleInv'
  BY <1>1 DEF LifecycleInv, Lifecycle!Move, Lifecycle!MediaOnlyInUse
<1>2. ASSUME NEW v \in Vols, Lifecycle!ACreate(v) \/ Lifecycle!ADestroy(v) PROVE LifecycleInv'
  <2>1. ~rawMounted[v]
    BY <1>2 DEF Lifecycle!ACreate, Lifecycle!ADestroy, Lifecycle!Move, LifecycleInv,
                Lifecycle!MediaOnlyInUse
  <2>2. rawMounted[v] \in BOOLEAN /\ (rawMounted[v] => "unmounted" \in {"checking"})
    BY <2>1 DEF LifecycleInv
  <2>3. CASE Lifecycle!ACreate(v)
    <3>1. Lifecycle!Move(v, {"new"}, "unmounted", rawMounted[v])
      BY <2>3 DEF Lifecycle!ACreate
    <3>. QED
      BY <3>1, <2>1, <2>2, <1>1 DEF VolStates
  <2>4. CASE Lifecycle!ADestroy(v)
    <3>1. Lifecycle!Move(v, {"unmounted"}, "destroyed", rawMounted[v])
      BY <2>4 DEF Lifecycle!ADestroy
    <3>. QED
      BY <3>1, <2>1, <2>2, <1>1 DEF VolStates
  <2>. QED
    BY <1>2, <2>3, <2>4
<1>3. ASSUME NEW v \in Vols, Lifecycle!AMountStart(v) \/ Lifecycle!AMountEnd(v)
      PROVE  LifecycleInv'
  <2>1. rawMounted[v] \in BOOLEAN
    BY DEF LifecycleInv
  <2>. QED
    BY <1>3, <2>1, <1>1 DEF Lifecycle!AMountStart, Lifecycle!AMountEnd, VolStates
<1>4. ASSUME NEW v \in Vols, Lifecycle!AUnmount(v) PROVE LifecycleInv'
  <2>1. rawMounted[v] \in BOOLEAN
    BY DEF LifecycleInv
  <2>. QED
    BY <1>4, <2>1, <1>1 DEF Lifecycle!AUnmount, VolStates
<1>5. CASE UNCHANGED Lifecycle!avars
  BY <1>5 DEF LifecycleInv, Lifecycle!avars, Lifecycle!MediaOnlyInUse
<1>. QED
  BY <1>2, <1>3, <1>4, <1>5 DEF Lifecycle!ANext

(***************************************************************************)
(* A public volume holds its raw mount only while it is checking, mounted *)
(* or unmountable: never when new, unmounted or destroyed.  Proved on the *)
(* lifecycle and carried to doMount/doUnmount by the refinement.          *)
(***************************************************************************)
THEOREM RawMountOnlyInUse == Spec => []Lifecycle!MediaOnlyInUse
<1>1. Lifecycle!AInit => LifecycleInv
  BY DEF Lifecycle!AInit, LifecycleInv, Lifecycle!MediaOnlyInUse, VolStates
<1>2. LifecycleInv /\ [Lifecycle!ANext]_Lifecycle!avars => LifecycleInv'
  BY LifecycleInvStep
<1>3. LifecycleInv => Lifecycle!MediaOnlyInUse
  BY DEF LifecycleInv
<1>. QED
  BY <1>1, <1>2, <1>3, Refinement, PTL DEF Lifecycle!SafeSpec

=============================================================================
