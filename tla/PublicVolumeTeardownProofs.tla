--------------------- MODULE PublicVolumeTeardownProofs ---------------------
(***************************************************************************)
(* Proofs about what doMount's rollbacks and doUnmount leave behind, for   *)
(* every set of volumes and users: mFuseMounted follows the owner's FUSE  *)
(* mount, a volume reported unmounted or destroyed holds no mount, and    *)
(* users are bound to the FUSE view only by a mount reported successful.  *)
(***************************************************************************)
EXTENDS PublicVolumeRefinement, TLAPS

(* The states in which VolumeBase lets a volume hold mounts.               *)
InUse == {"checking", "mounted", "unmountable"}

(***************************************************************************)
(* The inductive invariant for one volume: the flag equals the kernel's    *)
(* FUSE mount, and the FUSE mount exists only while the volume is in use.  *)
(* The second conjunct is needed for the first: doMount's MountUserFuse    *)
(* runs only on a checking volume, so it never sets the flag of a volume   *)
(* that a later Create or Destroy would leave with a stale mount.          *)
(***************************************************************************)
VolFuse(w) ==
    /\ fuseMounted[w] = fuseLive[w]
    /\ fuseLive[w] => state[w] \in InUse

FuseInv == \A w \in Vols : VolFuse(w)

(* VolFuse(w) only reads the entries of volume w.                           *)
LEMMA VolFuseFrame ==
    ASSUME NEW w, VolFuse(w), state'[w] = state[w],
           fuseLive'[w] = fuseLive[w], fuseMounted'[w] = fuseMounted[w]
    PROVE  VolFuse(w)'
BY DEF VolFuse

(* A volume whose FUSE mount and flag are both down keeps VolFuse.          *)
LEMMA FuseDown ==
    ASSUME NEW w, fuseLive'[w] = FALSE, fuseMounted'[w] = FALSE
    PROVE  VolFuse(w)'
BY DEF VolFuse

(* A volume that stays out of use had no FUSE mount to keep.                *)
LEMMA IdleVolumeHasNoFuse ==
    ASSUME NEW w, VolFuse(w), state[w] \notin InUse,
           fuseLive'[w] = fuseLive[w], fuseMounted'[w] = fuseMounted[w]
    PROVE  VolFuse(w)'
<1>1. fuseLive[w] = FALSE /\ fuseMounted[w] = FALSE
  BY DEF VolFuse
<1>. QED
  BY <1>1, FuseDown

(***************************************************************************)
(* doUnmount leaves the flag and the FUSE mount of v up exactly when       *)
(* UnmountUserFuse failed on a mounted FUSE view: it clears the flag only  *)
(* when it has removed the mount, or there was none.                       *)
(***************************************************************************)
LEMMA DoUnmountFuse ==
    ASSUME TypeOK, NEW v \in Vols, NEW fuseOk \in BOOLEAN, VolFuse(v), DoUnmount(v, fuseOk)
    PROVE  /\ fuseMounted'[v] = UnmountFails(v, fuseOk)
           /\ fuseLive'[v] = UnmountFails(v, fuseOk)
<1>1. fuseLive'[v] = (fuseLive[v] /\ ~(fuseMounted[v] /\ fuseOk))
  BY DEF DoUnmount, TypeOK
<1>2. fuseMounted[v] \in BOOLEAN /\ fuseLive[v] = fuseMounted[v]
  BY DEF TypeOK, VolFuse
<1>3. CASE UnmountFails(v, fuseOk)
  <2>1. fuseMounted' = fuseMounted
    BY <1>3 DEF DoUnmount
  <2>2. fuseMounted[v] = TRUE /\ fuseOk = FALSE
    BY <1>3 DEF UnmountFails
  <2>. QED
    BY <1>1, <1>2, <1>3, <2>1, <2>2
<1>4. CASE ~UnmountFails(v, fuseOk)
  <2>1. fuseMounted'[v] = FALSE
    BY <1>4 DEF DoUnmount, TypeOK
  <2>2. fuseMounted[v] => fuseOk
    BY <1>4 DEF UnmountFails
  <2>3. fuseLive'[v] = FALSE
    BY <1>1, <1>2, <2>2, Zenon
  <2>4. UnmountFails(v, fuseOk) = FALSE
    BY <1>2, <1>4, Zenon DEF UnmountFails
  <2>. QED
    BY <2>1, <2>3, <2>4
<1>. QED
  BY <1>3, <1>4

(* A step that leaves the volume in use keeps VolFuse when the flag and the *)
(* mount agree after it.                                                    *)
LEMMA InUseAgree ==
    ASSUME NEW w, state'[w] \in InUse, fuseMounted'[w] = fuseLive'[w]
    PROVE  VolFuse(w)'
BY DEF VolFuse

-----------------------------------------------------------------------------
LEMMA InitFuseInv == Init => FuseInv
BY DEF Init, FuseInv, VolFuse

(* doUnmount of v, with the other entries of the step's effect, keeps the   *)
(* invariant of every other volume.                                         *)
LEMMA DoUnmountOthers ==
    ASSUME TypeOK, NEW v \in Vols, NEW fuseOk \in BOOLEAN, DoUnmount(v, fuseOk),
           NEW w \in Vols, w # v, VolFuse(w), state'[w] = state[w]
    PROVE  VolFuse(w)'
BY DoUnmountFrame, VolFuseFrame

(* Every step keeps VolFuse for every volume.                               *)
LEMMA NextFuseInv ==
    ASSUME MountInv, FuseInv, [Next]_vars
    PROVE  FuseInv'
<1>0. TypeOK
  BY DEF MountInv, TypeInv
<1>. SUFFICES ASSUME NEW w \in Vols PROVE VolFuse(w)'
  BY DEF FuseInv
<1>w. VolFuse(w)
  BY DEF FuseInv
<1>d. DOMAIN state = Vols /\ DOMAIN fuseLive = Vols /\ DOMAIN fuseMounted = Vols
  BY <1>0 DEF TypeOK
<1>1. ASSUME NEW v \in Vols, Create(v) PROVE VolFuse(w)'
  <2>1. state'[w] = state[w] \/ state[w] = "new"
    BY <1>1, <1>d DEF Create
  <2>2. fuseLive'[w] = fuseLive[w] /\ fuseMounted'[w] = fuseMounted[w]
    BY <1>1 DEF Create, mountVars
  <2>3. CASE state[w] = "new"
    BY <1>w, <2>2, <2>3, IdleVolumeHasNoFuse DEF InUse
  <2>. QED
    BY <1>w, <2>1, <2>2, <2>3, VolFuseFrame
<1>2. ASSUME NEW v \in Vols, Destroy(v) PROVE VolFuse(w)'
  <2>1. state'[w] = state[w] \/ state[w] = "unmounted"
    BY <1>2, <1>d DEF Destroy
  <2>2. fuseLive'[w] = fuseLive[w] /\ fuseMounted'[w] = fuseMounted[w]
    BY <1>2 DEF Destroy, mountVars
  <2>3. CASE state[w] = "unmounted"
    BY <1>w, <2>2, <2>3, IdleVolumeHasNoFuse DEF InUse
  <2>. QED
    BY <1>w, <2>1, <2>2, <2>3, VolFuseFrame
<1>3. ASSUME NEW v \in Vols, MountBegin(v) PROVE VolFuse(w)'
  <2>0. PICK x : state' = [state EXCEPT ![v] = x]
    BY <1>3 DEF MountBegin, MountFails, MountSucceeds
  <2>1. state'[w] = state[w] \/ state[w] = "unmounted"
    BY <1>3, <1>d, <2>0 DEF MountBegin
  <2>2. fuseLive'[w] = fuseLive[w] /\ fuseMounted'[w] = fuseMounted[w]
    BY <1>3 DEF MountBegin
  <2>3. CASE state[w] = "unmounted"
    BY <1>w, <2>2, <2>3, IdleVolumeHasNoFuse DEF InUse
  <2>. QED
    BY <1>w, <2>1, <2>2, <2>3, VolFuseFrame
<1>4. ASSUME NEW v \in Vols, Format(v) \/ FormatSizeUnknown(v) \/ SpinUpObserved(v)
                             \/ SpinUpWait(v)
      PROVE  VolFuse(w)'
  <2>1. UNCHANGED <<state, fuseLive, fuseMounted>>
    BY <1>4 DEF Format, FormatSizeUnknown, SpinUpObserved, SpinUpWait, mountVars
  <2>. QED
    BY <1>w, <2>1, VolFuseFrame
<1>5. ASSUME NEW v \in Vols, NEW c \in ChildIds, SdcardfsChild(v, c) PROVE VolFuse(w)'
  BY <1>5, <1>w, VolFuseFrame DEF SdcardfsChild
<1>6. ASSUME NEW v \in Vols, SpinUpTimeout(v) \/ VolumeReady(v) PROVE VolFuse(w)'
  <2>1. fuseLive'[w] = fuseLive[w] /\ fuseMounted'[w] = fuseMounted[w]
    BY <1>6 DEF SpinUpTimeout, VolumeReady, mountVars
  <2>0. PICK x \in InUse : state' = [state EXCEPT ![v] = x]
    <3>1. CASE SpinUpTimeout(v)
      BY <3>1 DEF SpinUpTimeout, MountFails, InUse
    <3>2. CASE VolumeReady(v)
      BY <3>2 DEF VolumeReady, MountSucceeds, InUse
    <3>. QED
      BY <1>6, <3>1, <3>2
  <2>2. CASE w = v
    <3>1. state'[v] \in InUse
      BY <1>d, <2>0, <2>2
    <3>. QED
      BY <1>w, <2>1, <2>2, <3>1, InUseAgree DEF VolFuse
  <2>3. CASE w # v
    <3>1. state'[w] = state[w]
      BY <1>d, <2>0, <2>3
    <3>. QED
      BY <1>w, <2>1, <3>1, VolFuseFrame
  <2>. QED
    BY <2>2, <2>3
<1>7. ASSUME NEW v \in Vols, FuseMounted(v) PROVE VolFuse(w)'
  <2>2. CASE w = v
    <3>1. state[v] = "checking"
      BY <1>7, StepChecking DEF FuseMounted
    <3>2. state'[v] \in InUse /\ fuseLive'[v] = TRUE /\ fuseMounted'[v] = TRUE
      BY <1>7, <1>d, <3>1 DEF FuseMounted, InUse
    <3>. QED
      BY <2>2, <3>2, InUseAgree
  <2>3. CASE w # v
    <3>1. state'[w] = state[w] /\ fuseLive'[w] = fuseLive[w] /\ fuseMounted'[w] = fuseMounted[w]
      BY <1>7, <1>d, <2>3 DEF FuseMounted
    <3>. QED
      BY <1>w, <3>1, VolFuseFrame
  <2>. QED
    BY <2>2, <2>3
<1>8. ASSUME NEW v \in Vols, FuseMountFailed(v) \/ VolumeNotReady(v) PROVE VolFuse(w)'
  <2>1. PICK fuseOk \in BOOLEAN : DoUnmount(v, fuseOk) /\ MountFails(v)
    BY <1>8 DEF FuseMountFailed, VolumeNotReady
  <2>2. CASE w = v
    <3>1. v \in Vols /\ VolFuse(v)
      BY <1>w, <2>2
    <3>2. fuseMounted'[v] = fuseLive'[v]
      BY <1>0, <2>1, <3>1, DoUnmountFuse
    <3>3. state'[v] \in InUse
      BY <1>d, <2>1 DEF MountFails, InUse
    <3>. QED
      BY <2>2, <3>2, <3>3, InUseAgree
  <2>3. CASE w # v
    <3>1. state'[w] = state[w]
      BY <1>d, <2>1, <2>3 DEF MountFails
    <3>. QED
      BY <1>0, <1>w, <2>1, <2>3, <3>1, DoUnmountOthers
  <2>. QED
    BY <2>2, <2>3
<1>9. ASSUME NEW v \in Vols, Unmount(v) PROVE VolFuse(w)'
  <2>1. PICK fuseOk \in BOOLEAN :
          /\ DoUnmount(v, fuseOk)
          /\ state' = [state EXCEPT ![v] = IF UnmountFails(v, fuseOk) THEN "unmountable"
                                                                       ELSE "unmounted"]
    BY <1>9 DEF Unmount
  <2>2. CASE w = v
    <3>1. fuseMounted'[v] = UnmountFails(v, fuseOk) /\ fuseLive'[v] = UnmountFails(v, fuseOk)
      BY <1>0, <1>w, <2>1, <2>2, DoUnmountFuse
    <3>2. CASE UnmountFails(v, fuseOk)
      <4>1. state'[v] \in InUse
        BY <1>d, <2>1, <3>2 DEF InUse
      <4>. QED
        BY <2>2, <3>1, <4>1, InUseAgree
    <3>3. CASE ~UnmountFails(v, fuseOk)
      <4>1. fuseMounted'[v] = FALSE /\ fuseLive'[v] = FALSE
        BY <3>1, <3>3
      <4>. QED
        BY <2>2, <4>1, FuseDown
    <3>. QED
      BY <3>2, <3>3
  <2>3. CASE w # v
    <3>1. state'[w] = state[w]
      BY <1>d, <2>1, <2>3
    <3>. QED
      BY <1>0, <1>w, <2>1, <2>3, <3>1, DoUnmountOthers
  <2>. QED
    BY <2>2, <2>3
<1>10. CASE UNCHANGED vars
  BY <1>10, <1>w, VolFuseFrame DEF vars
<1>. QED
  BY <1>1, <1>2, <1>3, <1>4, <1>5, <1>6, <1>7, <1>8, <1>9, <1>10 DEF Next, MountStep
-----------------------------------------------------------------------------
(***************************************************************************)
(* For every value of the constants, mFuseMounted is TRUE exactly while    *)
(* the owner's FUSE mount exists: doUnmount clears it only when            *)
(* UnmountUserFuse removed the mount (or there was none), and returns      *)
(* early keeping it when the removal failed; doMount's two rollbacks go    *)
(* through the same doUnmount.                                             *)
(***************************************************************************)
THEOREM FuseFlagTracks == Spec => []FuseFlagTracksKernel
<1>1. Init => MountInv /\ FuseInv
  BY InitMountInv, InitFuseInv
<1>2. MountInv /\ FuseInv /\ [Next]_vars => (MountInv /\ FuseInv)'
  BY NextMountInv, NextFuseInv
<1>3. FuseInv => FuseFlagTracksKernel
  BY DEF FuseInv, VolFuse, FuseFlagTracksKernel
<1>. QED
  BY <1>1, <1>2, <1>3, PTL DEF Spec

(* The FUSE mount of a volume exists only while the volume is in use.       *)
LEMMA FuseOnlyInUse == Spec => [](\A w \in Vols : fuseLive[w] => state[w] \in InUse)
<1>1. Init => MountInv /\ FuseInv
  BY InitMountInv, InitFuseInv
<1>2. MountInv /\ FuseInv /\ [Next]_vars => (MountInv /\ FuseInv)'
  BY NextMountInv, NextFuseInv
<1>3. FuseInv => \A w \in Vols : fuseLive[w] => state[w] \in InUse
  BY DEF FuseInv, VolFuse
<1>. QED
  BY <1>1, <1>2, <1>3, PTL DEF Spec

(***************************************************************************)
(* For every value of the constants, a volume VolumeBase reports unmounted *)
(* or destroyed holds neither its raw mount nor the owner's FUSE mount.    *)
(* The raw half is the lifecycle invariant carried over by the refinement  *)
(* (doUnmount's MNT_DETACH fallback); the FUSE half is FuseOnlyInUse       *)
(* (doUnmount reports a failed UnmountUserFuse, which leaves the volume     *)
(* unmountable).                                                           *)
(***************************************************************************)
THEOREM UnmountedReleases == Spec => []UnmountedReleasesMounts
<1>1. Lifecycle!MediaOnlyInUse /\ (\A w \in Vols : fuseLive[w] => state[w] \in InUse)
        => UnmountedReleasesMounts
  BY DEF Lifecycle!MediaOnlyInUse, UnmountedReleasesMounts, InUse
<1>. QED
  BY <1>1, RawMountOnlyInUse, FuseOnlyInUse, PTL

-----------------------------------------------------------------------------
(* Only the fan-out of the volume's own doMount adds bind mounts to it.     *)
LEMMA OnlyReadyBinds ==
    ASSUME TypeOK, [Next]_vars, NEW w \in Vols, ~(bound'[w] \subseteq bound[w])
    PROVE  VolumeReady(w)
<1>d. DOMAIN bound = Vols
  BY DEF TypeOK
<1>1. ASSUME NEW v \in Vols, NEW fuseOk \in BOOLEAN, DoUnmount(v, fuseOk)
      PROVE  bound'[w] \subseteq bound[w]
  <2>1. bound' = bound \/ \E bs : bound' = [bound EXCEPT ![v] = @ \ bs]
    BY <1>1 DEF DoUnmount
  <2>. QED
    BY <1>d, <2>1
<1>2. ASSUME NEW v \in Vols, VolumeReady(v), v # w
      PROVE  bound'[w] = bound[w]
  BY <1>2, <1>d DEF VolumeReady
<1>3. ASSUME NEW v \in Vols,
             \/ Create(v) \/ MountBegin(v) \/ SpinUpObserved(v) \/ SpinUpWait(v)
             \/ SpinUpTimeout(v) \/ FuseMounted(v) \/ Format(v) \/ FormatSizeUnknown(v)
             \/ Destroy(v) \/ \E c \in ChildIds : SdcardfsChild(v, c)
      PROVE  bound' = bound
  BY <1>3 DEF Create, MountBegin, SpinUpObserved, SpinUpWait, SpinUpTimeout, FuseMounted,
              Format, FormatSizeUnknown, Destroy, SdcardfsChild, mountVars
<1>4. ASSUME NEW v \in Vols, FuseMountFailed(v) \/ VolumeNotReady(v) \/ Unmount(v)
      PROVE  bound'[w] \subseteq bound[w]
  <2>1. PICK fuseOk \in BOOLEAN : DoUnmount(v, fuseOk)
    BY <1>4 DEF FuseMountFailed, VolumeNotReady, Unmount
  <2>. QED
    BY <1>1, <2>1
<1>5. CASE UNCHANGED vars
  BY <1>5 DEF vars
<1>. QED
  BY <1>2, <1>3, <1>4, <1>5 DEF Next, MountStep

(* A step that adds bind mounts to a volume keeps its FUSE mount up and    *)
(* reports the volume mounted.                                              *)
LEMMA BindStepOverLiveFuse ==
    ASSUME MountInv, [Next]_vars
    PROVE  \A w \in Vols : ~(bound'[w] \subseteq bound[w]) =>
                fuseLive[w] /\ fuseLive'[w] /\ state'[w] = "mounted"
<1>. SUFFICES ASSUME NEW w \in Vols, ~(bound'[w] \subseteq bound[w])
              PROVE  fuseLive[w] /\ fuseLive'[w] /\ state'[w] = "mounted"
  OBVIOUS
<1>1. TypeOK
  BY DEF MountInv, TypeInv
<1>2. VolumeReady(w)
  BY <1>1, OnlyReadyBinds
<1>3. fuseLive[w]
  BY <1>2 DEF MountInv, VolInv, VolumeReady
<1>4. fuseLive' = fuseLive
  BY <1>2 DEF VolumeReady
<1>5. state'[w] = "mounted"
  BY <1>1, <1>2 DEF VolumeReady, MountSucceeds, TypeOK
<1>. QED
  BY <1>3, <1>4, <1>5

(***************************************************************************)
(* For every value of the constants, doMount binds a user to the owner's   *)
(* FUSE view only while the view is mounted, before and after the step,    *)
(* and only in the step that reports the volume mounted: the fan-out runs  *)
(* after MountUserFuse succeeded and after the callback accepted it.       *)
(***************************************************************************)
THEOREM BindsOverLive == Spec => BindsOverLiveFuse
<1>1. Init => MountInv
  BY InitMountInv
<1>2. MountInv /\ [Next]_vars => MountInv'
  BY NextMountInv
<1>3. MountInv /\ [Next]_vars =>
        [\A v \in Vols : ~(bound'[v] \subseteq bound[v]) =>
            fuseLive[v] /\ fuseLive'[v] /\ state'[v] = "mounted"]_vars
  BY BindStepOverLiveFuse
<1>. QED
  BY <1>1, <1>2, <1>3, PTL DEF Spec, BindsOverLiveFuse
====
