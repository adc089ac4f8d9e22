------------------------- MODULE PublicVolumeProofs -------------------------
(***************************************************************************)
(* Proofs about PublicVolume for every value of its constants.             *)
(***************************************************************************)
EXTENDS PublicVolume, SequenceTheorems, TLAPS

(***************************************************************************)
(* The spin-up loop only runs while it is within its budget: the timeout   *)
(* step then adds one interval to elapsed, which is why TypeOK alone is    *)
(* not inductive.                                                          *)
(***************************************************************************)
PollWithinBudget ==
    \A v \in Vols : step[v] = "poll" => elapsed[v] <= SpinUpTimeoutMs

TypeInv == TypeOK /\ PollWithinBudget

(* FsPick picks vfat, exfat or nothing, whatever its inputs.                *)
LEMMA FsPickType ==
    ASSUME NEW t, NEW a, NEW b, NEW sz
    PROVE  FsPick(t, a, b, sz) \in DiskKinds
BY DEF FsPick, AutoPick, DiskKinds, NoFs

(* The device id of a stack of child ids is 0 or a child id.                *)
LEMMA TopDevType ==
    ASSUME NEW s \in Seq(ChildIds)
    PROVE  TopDev(s) \in 0..MaxMounts
BY BoundsAssumption DEF TopDev, ChildIds

(* doUnmount keeps the mount state of the volumes within its types.      *)
LEMMA DoUnmountType ==
    ASSUME TypeOK, BoundsAssumption, NEW v \in Vols, NEW fuseOk \in BOOLEAN,
           DoUnmount(v, fuseOk)
    PROVE  /\ rawPath' \in [Vols -> BOOLEAN]
           /\ sdPaths' \in [Vols -> BOOLEAN]
           /\ fuseMounted' \in [Vols -> BOOLEAN]
           /\ rawMounted' \in [Vols -> BOOLEAN]
           /\ fuseLive' \in [Vols -> BOOLEAN]
           /\ bound' \in [Vols -> SUBSET Users]
           /\ asecBound' \in BOOLEAN
           /\ sdDirs' \in [Vols -> BOOLEAN]
           /\ sdStack' \in [Vols -> Seq(ChildIds)]
<1> PICK bindStuck \in SUBSET (bound[v] \cap Siblings(v)),
         asecStuck, sdStuck, rawForced \in BOOLEAN :
         /\ bound' = IF fuseMounted[v]
                     THEN [bound EXCEPT ![v] = @ \ (Siblings(v) \ bindStuck)]
                     ELSE bound
         /\ fuseLive' = [fuseLive EXCEPT ![v] = @ /\ ~(fuseMounted[v] /\ fuseOk)]
         /\ IF UnmountFails(v, fuseOk)
            THEN UNCHANGED <<rawPath, sdPaths, fuseMounted, rawMounted,
                             asecBound, sdDirs, sdStack>>
            ELSE /\ fuseMounted' = [fuseMounted EXCEPT ![v] = FALSE]
                 /\ asecBound' = (asecBound /\ asecStuck)
                 /\ IF UseSdcardFs
                    THEN LET stack == IF sdStuck \/ sdStack[v] = <<>> THEN sdStack[v]
                                      ELSE SubSeq(sdStack[v], 1, Len(sdStack[v]) - 1)
                         IN  /\ sdStack' = [sdStack EXCEPT ![v] = stack]
                             /\ sdDirs' = [sdDirs EXCEPT ![v] = @ /\ stack # <<>>]
                             /\ sdPaths' = [sdPaths EXCEPT ![v] = FALSE]
                    ELSE UNCHANGED <<sdStack, sdDirs, sdPaths>>
                 /\ rawMounted' = [rawMounted EXCEPT ![v] =
                                     @ /\ RawStillMounted(rawForced, ~rawForced)]
                 /\ rawPath' = [rawPath EXCEPT ![v] = FALSE]
    BY DEF DoUnmount
<1>1. bound' \in [Vols -> SUBSET Users] /\ fuseLive' \in [Vols -> BOOLEAN]
    BY DEF TypeOK
<1>2. CASE UnmountFails(v, fuseOk)
    BY <1>1, <1>2 DEF TypeOK
<1>3. CASE ~UnmountFails(v, fuseOk)
    <2>1. SubSeq(sdStack[v], 1, Len(sdStack[v]) - 1) \in Seq(ChildIds)
        BY DEF TypeOK
    <2>2. DEFINE stack == IF sdStuck \/ sdStack[v] = <<>> THEN sdStack[v]
                          ELSE SubSeq(sdStack[v], 1, Len(sdStack[v]) - 1)
    <2>3. stack \in Seq(ChildIds)
        BY <2>1 DEF TypeOK
    <2>4. CASE UseSdcardFs
        <3>1. /\ sdStack' = [sdStack EXCEPT ![v] = stack]
              /\ sdDirs' = [sdDirs EXCEPT ![v] = @ /\ stack # <<>>]
              /\ sdPaths' = [sdPaths EXCEPT ![v] = FALSE]
            BY <1>3, <2>4
        <3> QED BY <3>1, <2>3 DEF TypeOK
    <2>5. CASE ~UseSdcardFs
        BY <1>3, <2>5 DEF TypeOK
    <2>6. sdStack' \in [Vols -> Seq(ChildIds)] /\ sdDirs' \in [Vols -> BOOLEAN]
          /\ sdPaths' \in [Vols -> BOOLEAN]
        BY <2>4, <2>5
    <2>7. rawMounted' \in [Vols -> BOOLEAN] /\ rawPath' \in [Vols -> BOOLEAN]
          /\ fuseMounted' \in [Vols -> BOOLEAN] /\ asecBound' \in BOOLEAN
        BY <1>3 DEF TypeOK, RawStillMounted
    <2> QED BY <1>1, <2>6, <2>7
<1> QED BY <1>2, <1>3

LEMMA InitTypeInv == Init => TypeInv
<1> SUFFICES ASSUME Init PROVE TypeInv
    OBVIOUS
<1>1. /\ state \in [Vols -> VolStates] /\ step \in [Vols -> Steps]
      /\ fsType \in [Vols -> DiskKinds] /\ diskFs \in [Vols -> DiskKinds]
      /\ lastOp \in [Vols -> Ops] /\ result \in [Vols -> Results]
    BY DEF Init, VolStates, Steps, DiskKinds, Ops, Results
<1>2. /\ node \in [Vols -> BOOLEAN] /\ visible \in [Vols -> BOOLEAN]
      /\ rawPath \in [Vols -> BOOLEAN] /\ sdPaths \in [Vols -> BOOLEAN]
      /\ fuseMounted \in [Vols -> BOOLEAN] /\ rawMounted \in [Vols -> BOOLEAN]
      /\ fuseLive \in [Vols -> BOOLEAN] /\ sdDirs \in [Vols -> BOOLEAN]
      /\ asecBound \in BOOLEAN
    BY DEF Init
<1>3. /\ bound \in [Vols -> SUBSET Users] /\ sdStack \in [Vols -> Seq(ChildIds)]
      /\ running \in [Vols -> SUBSET ChildIds]
    BY DEF Init
<1>4. /\ attempts \in [Vols -> 0..MaxMounts] /\ before \in [Vols -> 0..MaxMounts]
      /\ elapsed \in [Vols -> 0..(SpinUpTimeoutMs + PollIntervalMs)]
    BY BoundsAssumption DEF Init
<1>5. PollWithinBudget
    BY BoundsAssumption DEF Init, PollWithinBudget
<1> QED BY <1>1, <1>2, <1>3, <1>4, <1>5 DEF TypeInv, TypeOK

(* Each operation keeps the state within its types, and the spin-up loop   *)
(* within its budget.                                                      *)
LEMMA NextTypeInv == TypeInv /\ [Next]_vars => TypeInv'
<1> SUFFICES ASSUME TypeOK, PollWithinBudget, [Next]_vars
             PROVE  TypeOK' /\ PollWithinBudget'
    BY DEF TypeInv
<1>1. ASSUME NEW v \in Vols, Create(v) PROVE TypeOK' /\ PollWithinBudget'
    BY <1>1 DEF Create, mountVars, TypeOK, PollWithinBudget, VolStates, Results, Ops
<1>2. ASSUME NEW v \in Vols, MountBegin(v) PROVE TypeOK' /\ PollWithinBudget'
    <2>2. attempts[v] + 1 \in 1..MaxMounts
        BY <1>2, BoundsAssumption DEF MountBegin, TypeOK
    <2>3. TopDev(sdStack[v]) \in 0..MaxMounts
        BY TopDevType DEF TypeOK
    <2>4. /\ running' \in [Vols -> SUBSET ChildIds]
          /\ before' \in [Vols -> 0..MaxMounts]
          /\ attempts' \in [Vols -> 0..MaxMounts]
          /\ elapsed' \in [Vols -> 0..(SpinUpTimeoutMs + PollIntervalMs)]
        BY <2>2, <2>3, <1>2, BoundsAssumption DEF MountBegin, TypeOK, ChildIds
    <2>5. fsType' \in [Vols -> DiskKinds]
        BY <1>2 DEF MountBegin, TypeOK, DiskKinds
    <2>10. /\ visible' \in [Vols -> BOOLEAN] /\ rawPath' \in [Vols -> BOOLEAN]
           /\ sdPaths' \in [Vols -> BOOLEAN] /\ rawMounted' \in [Vols -> BOOLEAN]
        BY <1>2 DEF MountBegin, TypeOK
    <2>11. asecBound' \in BOOLEAN /\ sdDirs' \in [Vols -> BOOLEAN]
        BY <1>2 DEF MountBegin, TypeOK
    <2>15. \E x \in {"unmountable", "mounted", "checking"} :
              state' = [state EXCEPT ![v] = x]
        BY <1>2 DEF MountBegin, MountFails, MountSucceeds
    <2>12. state' \in [Vols -> VolStates]
        BY <2>15 DEF TypeOK, VolStates
    <2>13. step' \in [Vols -> Steps]
        BY <1>2 DEF MountBegin, MountFails, MountSucceeds, TypeOK, Steps
    <2>14. result' \in [Vols -> Results]
        BY <1>2 DEF MountBegin, MountFails, MountSucceeds, TypeOK, Results
    <2>6. state' \in [Vols -> VolStates] /\ step' \in [Vols -> Steps]
          /\ result' \in [Vols -> Results]
        BY <2>12, <2>13, <2>14
    <2>7. /\ lastOp' = [lastOp EXCEPT ![v] = "mount"]
          /\ UNCHANGED <<node, fuseMounted, fuseLive, bound, sdStack, diskFs>>
        BY <1>2 DEF MountBegin
    <2>8. lastOp' \in [Vols -> Ops]
        BY <2>7 DEF TypeOK, Ops
    <2>9. PollWithinBudget'
        BY <1>2, BoundsAssumption DEF MountBegin, MountFails, MountSucceeds, TypeOK, PollWithinBudget
    <2> QED BY <2>4, <2>5, <2>6, <2>7, <2>8, <2>9, <2>10, <2>11 DEF TypeOK
<1>3. ASSUME NEW v \in Vols, SpinUpObserved(v) PROVE TypeOK' /\ PollWithinBudget'
    BY <1>3 DEF SpinUpObserved, mountVars, TypeOK, PollWithinBudget, Steps
<1>4. ASSUME NEW v \in Vols, SpinUpWait(v) PROVE TypeOK' /\ PollWithinBudget'
    BY <1>4, BoundsAssumption DEF SpinUpWait, mountVars, TypeOK, PollWithinBudget
<1>5. ASSUME NEW v \in Vols, SpinUpTimeout(v) PROVE TypeOK' /\ PollWithinBudget'
    BY <1>5, BoundsAssumption DEF SpinUpTimeout, MountFails, mountVars, TypeOK,
       PollWithinBudget, VolStates, Steps, Results
<1>6. ASSUME NEW v \in Vols, FuseMounted(v) PROVE TypeOK' /\ PollWithinBudget'
    BY <1>6 DEF FuseMounted, TypeOK, PollWithinBudget, Steps
<1>7. ASSUME NEW v \in Vols, FuseMountFailed(v) PROVE TypeOK' /\ PollWithinBudget'
    <2>1. PICK fuseOk \in BOOLEAN : DoUnmount(v, fuseOk)
        BY <1>7 DEF FuseMountFailed
    <2> QED BY <1>7, <2>1, DoUnmountType, BoundsAssumption DEF FuseMountFailed, MountFails, TypeOK,
               PollWithinBudget, VolStates, Steps, Results
<1>8. ASSUME NEW v \in Vols, VolumeReady(v) PROVE TypeOK' /\ PollWithinBudget'
    BY <1>8, UsersAssumption DEF VolumeReady, MountSucceeds, FanOutUsers, TypeOK,
       PollWithinBudget, VolStates, Steps, Results
<1>9. ASSUME NEW v \in Vols, VolumeNotReady(v) PROVE TypeOK' /\ PollWithinBudget'
    <2>1. PICK fuseOk \in BOOLEAN : DoUnmount(v, fuseOk)
        BY <1>9 DEF VolumeNotReady
    <2> QED BY <1>9, <2>1, DoUnmountType, BoundsAssumption DEF VolumeNotReady, MountFails, TypeOK,
               PollWithinBudget, VolStates, Steps, Results
<1>10. ASSUME NEW v \in Vols, NEW c \in ChildIds, SdcardfsChild(v, c)
       PROVE  TypeOK' /\ PollWithinBudget'
    BY <1>10 DEF SdcardfsChild, TypeOK, PollWithinBudget
<1>11. ASSUME NEW v \in Vols, Unmount(v) PROVE TypeOK' /\ PollWithinBudget'
    <2>1. PICK fuseOk \in BOOLEAN :
            /\ DoUnmount(v, fuseOk)
            /\ state' = [state EXCEPT ![v] = IF UnmountFails(v, fuseOk) THEN "unmountable"
                                                                         ELSE "unmounted"]
            /\ result' = [result EXCEPT ![v] = IF UnmountFails(v, fuseOk) THEN "error"
                                                                           ELSE "ok"]
        BY <1>11 DEF Unmount
    <2>2. state' \in [Vols -> VolStates] /\ result' \in [Vols -> Results]
        BY <2>1 DEF TypeOK, VolStates, Results
    <2>3. /\ lastOp' = [lastOp EXCEPT ![v] = "unmount"]
          /\ UNCHANGED <<step, node, fsType, visible, running, attempts, before,
                         elapsed, diskFs>>
        BY <1>11 DEF Unmount
    <2>4. lastOp' \in [Vols -> Ops]
        BY <2>3 DEF TypeOK, Ops
    <2> QED BY <2>1, <2>2, <2>3, <2>4, DoUnmountType, BoundsAssumption
            DEF TypeOK, PollWithinBudget
<1>12. ASSUME NEW v \in Vols, Destroy(v) PROVE TypeOK' /\ PollWithinBudget'
    BY <1>12 DEF Destroy, mountVars, TypeOK, PollWithinBudget, VolStates, Results, Ops
<1>13. ASSUME NEW v \in Vols, FormatSizeUnknown(v) PROVE TypeOK' /\ PollWithinBudget'
    BY <1>13 DEF FormatSizeUnknown, mountVars, TypeOK, PollWithinBudget, Results, Ops
<1>14. ASSUME NEW v \in Vols, Format(v) PROVE TypeOK' /\ PollWithinBudget'
    <2>1. PICK req \in FormatRequests, wipeOk, formatOk \in BOOLEAN :
            LET pick  == FsPick(req, VfatSupported, ExfatSupported, DevSize[v])
                wiped == IF wipeOk THEN NoFs ELSE diskFs[v]
            IN
            /\ diskFs' = [diskFs EXCEPT ![v] = CASE pick = NoFs -> wiped
                                                 [] formatOk    -> pick
                                                 [] OTHER       -> "other"]
            /\ result' = [result EXCEPT ![v] = CASE pick = NoFs -> "einval"
                                                 [] formatOk    -> "ok"
                                                 [] OTHER       -> "error"]
        BY <1>14 DEF Format
    <2>2. FsPick(req, VfatSupported, ExfatSupported, DevSize[v]) \in DiskKinds
        BY FsPickType
    <2>3. diskFs' \in [Vols -> DiskKinds] /\ result' \in [Vols -> Results]
        BY <2>1, <2>2 DEF TypeOK, DiskKinds, Results
    <2> QED BY <1>14, <2>3 DEF Format, mountVars, TypeOK, PollWithinBudget, Ops
<1>15. CASE UNCHANGED vars
    BY <1>15 DEF vars, TypeOK, PollWithinBudget
<1> QED BY <1>1, <1>2, <1>3, <1>4, <1>5, <1>6, <1>7, <1>8, <1>9, <1>10,
           <1>11, <1>12, <1>13, <1>14, <1>15 DEF Next, MountStep

(***************************************************************************)
(* Every reachable state has the types TypeOK states, for every set of     *)
(* volumes and users and every budget: in particular the spin-up loop's    *)
(* elapsed time never exceeds the 5000 ms budget by more than one poll     *)
(* interval (specification, section 8).                                     *)
(***************************************************************************)
THEOREM TypeCorrect == Spec => []TypeOK
<1>1. Init => TypeInv
    BY InitTypeInv
<1>2. TypeInv /\ [Next]_vars => TypeInv'
    BY NextTypeInv
<1> QED BY <1>1, <1>2, PTL DEF Spec, TypeInv

-----------------------------------------------------------------------------
(***************************************************************************)
(* MountedMeansComplete is not inductive: VolumeReady reports a volume    *)
(* mounted on the strength of what the earlier steps of the same doMount  *)
(* mounted.  VolInv(w) adds, for one volume, what MountInProgressConsistent *)
(* states of the steps in flight.                                          *)
(***************************************************************************)
VolInv(w) ==
    /\ step[w] # "idle" => state[w] = "checking" /\ rawMounted[w] /\ visible[w]
    /\ step[w] = "poll" => UseSdcardFs /\ (before[w] # 0 => sdStack[w] # <<>>)
    /\ step[w] \in {"fuse", "callback"} => (UseSdcardFs => sdStack[w] # <<>>)
    /\ step[w] = "callback" => fuseLive[w] /\ fuseMounted[w]
    /\ state[w] = "mounted" =>
           /\ rawMounted[w]
           /\ visible[w] => /\ fuseLive[w] /\ fuseMounted[w]
                               /\ UseSdcardFs => sdStack[w] # <<>>

MountInv == TypeInv /\ \A w \in Vols : VolInv(w)

(* VolInv(w) only reads the entries of volume w.                           *)
LEMMA VolInvFrame ==
    ASSUME NEW w, VolInv(w),
           state'[w] = state[w], step'[w] = step[w], rawMounted'[w] = rawMounted[w],
           visible'[w] = visible[w], before'[w] = before[w], sdStack'[w] = sdStack[w],
           fuseLive'[w] = fuseLive[w], fuseMounted'[w] = fuseMounted[w]
    PROVE  VolInv(w)'
BY DEF VolInv

(* doUnmount of volume v leaves the mounts of every other volume alone.    *)
LEMMA DoUnmountFrame ==
    ASSUME TypeOK, NEW v \in Vols, NEW fuseOk \in BOOLEAN, DoUnmount(v, fuseOk),
           NEW w \in Vols, w # v
    PROVE  /\ rawMounted'[w] = rawMounted[w] /\ sdStack'[w] = sdStack[w]
           /\ fuseLive'[w] = fuseLive[w] /\ fuseMounted'[w] = fuseMounted[w]
BY DEF DoUnmount, TypeOK

(* A sdcardfs child only ever pushes a mount onto the stack of views.       *)
LEMMA ChildKeepsStack ==
    ASSUME TypeOK, NEW v \in Vols, NEW c \in ChildIds, SdcardfsChild(v, c)
    PROVE  sdStack[v] # <<>> => sdStack'[v] # <<>>
<1>1. sdStack[v] \in Seq(ChildIds)
    BY DEF TypeOK
<1>2. Append(sdStack[v], c) # <<>>
    BY <1>1, AppendProperties
<1>3. sdStack'[v] \in {sdStack[v], Append(sdStack[v], c)}
    BY DEF SdcardfsChild, TypeOK
<1> QED BY <1>2, <1>3

(* A step that leaves volume v idle and not mounted keeps VolInv(v).        *)
LEMMA IdleNotMounted ==
    ASSUME NEW v, step'[v] = "idle", state'[v] # "mounted"
    PROVE  VolInv(v)'
BY DEF VolInv

LEMMA InitMountInv == Init => MountInv
<1> SUFFICES ASSUME Init PROVE MountInv
    OBVIOUS
<1>1. \A w \in Vols : VolInv(w)
    BY DEF Init, VolInv
<1> QED BY <1>1, InitTypeInv DEF MountInv

(* Every step keeps VolInv for every volume.                                *)
LEMMA NextVolInv ==
    ASSUME TypeOK, PollWithinBudget, \A w \in Vols : VolInv(w), [Next]_vars
    PROVE  \A w \in Vols : VolInv(w)'
<1> USE DEF TypeOK
<1>1. ASSUME NEW v \in Vols, Create(v)
      PROVE  \A w \in Vols : VolInv(w)'
    <2> SUFFICES ASSUME NEW w \in Vols PROVE VolInv(w)'
        OBVIOUS
    <2>1. CASE w # v
        <3>1. state'[w] = state[w] /\ step'[w] = step[w] /\ rawMounted'[w] = rawMounted[w]
              /\ visible'[w] = visible[w] /\ before'[w] = before[w] /\ sdStack'[w] = sdStack[w]
              /\ fuseLive'[w] = fuseLive[w] /\ fuseMounted'[w] = fuseMounted[w]
            BY <1>1, <2>1 DEF Create, mountVars
        <3> QED BY <3>1, VolInvFrame
    <2>2. CASE w = v
        <3>1. step[v] = "idle"
            BY <1>1 DEF Create, VolInv
        <3> QED BY <3>1, <1>1, <2>2, IdleNotMounted DEF Create
    <2> QED BY <2>1, <2>2
<1>2. ASSUME NEW v \in Vols, Destroy(v)
      PROVE  \A w \in Vols : VolInv(w)'
    <2> SUFFICES ASSUME NEW w \in Vols PROVE VolInv(w)'
        OBVIOUS
    <2>1. CASE w # v
        <3>1. state'[w] = state[w] /\ step'[w] = step[w] /\ rawMounted'[w] = rawMounted[w]
              /\ visible'[w] = visible[w] /\ before'[w] = before[w] /\ sdStack'[w] = sdStack[w]
              /\ fuseLive'[w] = fuseLive[w] /\ fuseMounted'[w] = fuseMounted[w]
            BY <1>2, <2>1 DEF Destroy, mountVars
        <3> QED BY <3>1, VolInvFrame
    <2>2. CASE w = v
        <3>1. step[v] = "idle"
            BY <1>2 DEF Destroy, VolInv
        <3> QED BY <3>1, <1>2, <2>2, IdleNotMounted DEF Destroy
    <2> QED BY <2>1, <2>2
<1>3. ASSUME NEW v \in Vols, FormatSizeUnknown(v)
      PROVE  \A w \in Vols : VolInv(w)'
    <2> SUFFICES ASSUME NEW w \in Vols PROVE VolInv(w)'
        OBVIOUS
    <2>1. CASE w # v
        <3>1. state'[w] = state[w] /\ step'[w] = step[w] /\ rawMounted'[w] = rawMounted[w]
              /\ visible'[w] = visible[w] /\ before'[w] = before[w] /\ sdStack'[w] = sdStack[w]
              /\ fuseLive'[w] = fuseLive[w] /\ fuseMounted'[w] = fuseMounted[w]
            BY <1>3, <2>1 DEF FormatSizeUnknown, mountVars
        <3> QED BY <3>1, VolInvFrame
    <2>2. CASE w = v
        <3>1. step[v] = "idle"
            BY <1>3 DEF FormatSizeUnknown, VolInv
        <3> QED BY <3>1, <1>3, <2>2, IdleNotMounted DEF FormatSizeUnknown
    <2> QED BY <2>1, <2>2
<1>4. ASSUME NEW v \in Vols, Format(v)
      PROVE  \A w \in Vols : VolInv(w)'
    <2> SUFFICES ASSUME NEW w \in Vols PROVE VolInv(w)'
        OBVIOUS
    <2>1. CASE w # v
        <3>1. state'[w] = state[w] /\ step'[w] = step[w] /\ rawMounted'[w] = rawMounted[w]
              /\ visible'[w] = visible[w] /\ before'[w] = before[w] /\ sdStack'[w] = sdStack[w]
              /\ fuseLive'[w] = fuseLive[w] /\ fuseMounted'[w] = fuseMounted[w]
            BY <1>4, <2>1 DEF Format, mountVars
        <3> QED BY <3>1, VolInvFrame
    <2>2. CASE w = v
        <3>1. step[v] = "idle"
            BY <1>4 DEF Format, VolInv
        <3> QED BY <3>1, <1>4, <2>2, IdleNotMounted DEF Format
    <2> QED BY <2>1, <2>2
<1>5. ASSUME NEW v \in Vols, MountBegin(v)
      PROVE  \A w \in Vols : VolInv(w)'
    <2> SUFFICES ASSUME NEW w \in Vols PROVE VolInv(w)'
        OBVIOUS
    <2>1. CASE w # v
        <3>1. state'[w] = state[w] /\ step'[w] = step[w] /\ rawMounted'[w] = rawMounted[w]
              /\ visible'[w] = visible[w] /\ before'[w] = before[w] /\ sdStack'[w] = sdStack[w]
              /\ fuseLive'[w] = fuseLive[w] /\ fuseMounted'[w] = fuseMounted[w]
            BY <1>5, <2>1 DEF MountBegin, MountFails, MountSucceeds
        <3> QED BY <3>1, VolInvFrame
    <2>2. CASE w = v
        <3>1. PICK isVisible \in BOOLEAN, f \in CheckStage..NoFailure :
                /\ visible'[v] = isVisible
                /\ rawMounted'[v] = (f > RawMountStage)
                /\ before'[v] = IF SpinsUpSdcardFs(isVisible) /\ f = NoFailure
                                THEN TopDev(sdStack[v]) ELSE before[v]
                /\ \/ f < NoFailure /\ state'[v] = "unmountable" /\ step'[v] = "idle"
                   \/ f = NoFailure /\ ~isVisible /\ state'[v] = "mounted"
                      /\ step'[v] = "idle"
                   \/ /\ f = NoFailure /\ isVisible /\ state'[v] = "checking"
                      /\ step'[v] = IF UseSdcardFs THEN "poll" ELSE "fuse"
            BY <1>5, <2>2 DEF MountBegin, MountFails, MountSucceeds
        <3>2. sdStack'[v] = sdStack[v]
            BY <1>5 DEF MountBegin
        <3>3. TopDev(sdStack[v]) # 0 => sdStack[v] # <<>>
            BY DEF TopDev
        <3>4. CASE f < NoFailure
            <4>0. f # NoFailure
                BY <3>4 DEF NoFailure
            <4>1. step'[v] = "idle" /\ state'[v] = "unmountable"
                BY <3>1, <4>0, Zenon
            <4> QED BY <2>2, <4>1, IdleNotMounted
        <3>0. f = NoFailure => f > RawMountStage
            BY DEF RawMountStage, NoFailure
        <3>5. CASE f = NoFailure /\ ~isVisible
            <4>1. rawMounted'[v] /\ ~visible'[v] /\ step'[v] = "idle"
                BY <3>0, <3>1, <3>5
            <4> QED BY <2>2, <4>1, Zenon DEF VolInv
        <3>6. CASE f = NoFailure /\ isVisible
            <4>0. rawMounted'[v] /\ visible'[v]
                BY <3>0, <3>1, <3>6
            <4>1. /\ rawMounted'[v] /\ visible'[v] /\ state'[v] = "checking"
                  /\ step'[v] = IF UseSdcardFs THEN "poll" ELSE "fuse"
                  /\ before'[v] = IF UseSdcardFs THEN TopDev(sdStack[v]) ELSE before[v]
                BY <4>0, <3>1, <3>6 DEF SpinsUpSdcardFs
            <4>2. CASE UseSdcardFs
                BY <2>2, <3>2, <3>3, <4>1, <4>2, Zenon DEF VolInv
            <4>3. CASE ~UseSdcardFs
                BY <2>2, <4>1, <4>3, Zenon DEF VolInv
            <4> QED BY <4>2, <4>3
        <3> QED BY <3>4, <3>5, <3>6 DEF CheckStage, NoFailure
    <2> QED BY <2>1, <2>2
<1>6. ASSUME NEW v \in Vols, SpinUpObserved(v)
      PROVE  \A w \in Vols : VolInv(w)'
    <2> SUFFICES ASSUME NEW w \in Vols PROVE VolInv(w)'
        OBVIOUS
    <2>1. CASE w # v
        <3>1. state'[w] = state[w] /\ step'[w] = step[w] /\ rawMounted'[w] = rawMounted[w]
              /\ visible'[w] = visible[w] /\ before'[w] = before[w] /\ sdStack'[w] = sdStack[w]
              /\ fuseLive'[w] = fuseLive[w] /\ fuseMounted'[w] = fuseMounted[w]
            BY <1>6, <2>1 DEF SpinUpObserved, mountVars
        <3> QED BY <3>1, VolInvFrame
    <2>2. CASE w = v
        <3>1. sdStack[v] # <<>>
            BY <1>6, <2>2 DEF SpinUpObserved, VolInv, TopDev
        <3> QED BY <1>6, <2>2, <3>1 DEF SpinUpObserved, mountVars, VolInv
    <2> QED BY <2>1, <2>2
<1>7. ASSUME NEW v \in Vols, SpinUpWait(v)
      PROVE  \A w \in Vols : VolInv(w)'
    <2> SUFFICES ASSUME NEW w \in Vols PROVE VolInv(w)'
        OBVIOUS
    <2>1. CASE w # v
        <3>1. state'[w] = state[w] /\ step'[w] = step[w] /\ rawMounted'[w] = rawMounted[w]
              /\ visible'[w] = visible[w] /\ before'[w] = before[w] /\ sdStack'[w] = sdStack[w]
              /\ fuseLive'[w] = fuseLive[w] /\ fuseMounted'[w] = fuseMounted[w]
            BY <1>7, <2>1 DEF SpinUpWait, mountVars
        <3> QED BY <3>1, VolInvFrame
    <2>2. CASE w = v
        BY <1>7, <2>2, VolInvFrame DEF SpinUpWait, mountVars
    <2> QED BY <2>1, <2>2
<1>8. ASSUME NEW v \in Vols, SpinUpTimeout(v)
      PROVE  \A w \in Vols : VolInv(w)'
    <2> SUFFICES ASSUME NEW w \in Vols PROVE VolInv(w)'
        OBVIOUS
    <2>1. CASE w # v
        <3>1. state'[w] = state[w] /\ step'[w] = step[w] /\ rawMounted'[w] = rawMounted[w]
              /\ visible'[w] = visible[w] /\ before'[w] = before[w] /\ sdStack'[w] = sdStack[w]
              /\ fuseLive'[w] = fuseLive[w] /\ fuseMounted'[w] = fuseMounted[w]
            BY <1>8, <2>1 DEF SpinUpTimeout, MountFails, mountVars
        <3> QED BY <3>1, VolInvFrame
    <2>2. CASE w = v
        BY <1>8, <2>2, IdleNotMounted DEF SpinUpTimeout, MountFails
    <2> QED BY <2>1, <2>2
<1>9. ASSUME NEW v \in Vols, FuseMounted(v)
      PROVE  \A w \in Vols : VolInv(w)'
    <2> SUFFICES ASSUME NEW w \in Vols PROVE VolInv(w)'
        OBVIOUS
    <2>1. CASE w # v
        <3>1. state'[w] = state[w] /\ step'[w] = step[w] /\ rawMounted'[w] = rawMounted[w]
              /\ visible'[w] = visible[w] /\ before'[w] = before[w] /\ sdStack'[w] = sdStack[w]
              /\ fuseLive'[w] = fuseLive[w] /\ fuseMounted'[w] = fuseMounted[w]
            BY <1>9, <2>1 DEF FuseMounted
        <3> QED BY <3>1, VolInvFrame
    <2>2. CASE w = v
        BY <1>9, <2>2 DEF FuseMounted, VolInv
    <2> QED BY <2>1, <2>2
<1>10. ASSUME NEW v \in Vols, FuseMountFailed(v)
      PROVE  \A w \in Vols : VolInv(w)'
    <2> SUFFICES ASSUME NEW w \in Vols PROVE VolInv(w)'
        OBVIOUS
    <2>1. CASE w # v
        <3>1. PICK fuseOk \in BOOLEAN : DoUnmount(v, fuseOk)
            BY <1>10 DEF FuseMountFailed
        <3>2. /\ rawMounted'[w] = rawMounted[w] /\ sdStack'[w] = sdStack[w]
              /\ fuseLive'[w] = fuseLive[w] /\ fuseMounted'[w] = fuseMounted[w]
            BY <3>1, <2>1, DoUnmountFrame
        <3>3. state'[w] = state[w] /\ step'[w] = step[w] /\ visible'[w] = visible[w]
              /\ before'[w] = before[w]
            BY <1>10, <2>1 DEF FuseMountFailed, MountFails
        <3> QED BY <3>2, <3>3, VolInvFrame
    <2>2. CASE w = v
        BY <1>10, <2>2, IdleNotMounted DEF FuseMountFailed, MountFails
    <2> QED BY <2>1, <2>2
<1>11. ASSUME NEW v \in Vols, VolumeNotReady(v)
      PROVE  \A w \in Vols : VolInv(w)'
    <2> SUFFICES ASSUME NEW w \in Vols PROVE VolInv(w)'
        OBVIOUS
    <2>1. CASE w # v
        <3>1. PICK fuseOk \in BOOLEAN : DoUnmount(v, fuseOk)
            BY <1>11 DEF VolumeNotReady
        <3>2. /\ rawMounted'[w] = rawMounted[w] /\ sdStack'[w] = sdStack[w]
              /\ fuseLive'[w] = fuseLive[w] /\ fuseMounted'[w] = fuseMounted[w]
            BY <3>1, <2>1, DoUnmountFrame
        <3>3. state'[w] = state[w] /\ step'[w] = step[w] /\ visible'[w] = visible[w]
              /\ before'[w] = before[w]
            BY <1>11, <2>1 DEF VolumeNotReady, MountFails
        <3> QED BY <3>2, <3>3, VolInvFrame
    <2>2. CASE w = v
        BY <1>11, <2>2, IdleNotMounted DEF VolumeNotReady, MountFails
    <2> QED BY <2>1, <2>2
<1>12. ASSUME NEW v \in Vols, VolumeReady(v)
      PROVE  \A w \in Vols : VolInv(w)'
    <2> SUFFICES ASSUME NEW w \in Vols PROVE VolInv(w)'
        OBVIOUS
    <2>1. CASE w # v
        <3>1. state'[w] = state[w] /\ step'[w] = step[w] /\ rawMounted'[w] = rawMounted[w]
              /\ visible'[w] = visible[w] /\ before'[w] = before[w] /\ sdStack'[w] = sdStack[w]
              /\ fuseLive'[w] = fuseLive[w] /\ fuseMounted'[w] = fuseMounted[w]
            BY <1>12, <2>1 DEF VolumeReady, MountSucceeds
        <3> QED BY <3>1, VolInvFrame
    <2>2. CASE w = v
        BY <1>12, <2>2 DEF VolumeReady, MountSucceeds, VolInv
    <2> QED BY <2>1, <2>2
<1>13. ASSUME NEW v \in Vols, Unmount(v)
      PROVE  \A w \in Vols : VolInv(w)'
    <2> SUFFICES ASSUME NEW w \in Vols PROVE VolInv(w)'
        OBVIOUS
    <2>1. CASE w # v
        <3>1. PICK fuseOk \in BOOLEAN : DoUnmount(v, fuseOk)
            BY <1>13 DEF Unmount
        <3>2. /\ rawMounted'[w] = rawMounted[w] /\ sdStack'[w] = sdStack[w]
              /\ fuseLive'[w] = fuseLive[w] /\ fuseMounted'[w] = fuseMounted[w]
            BY <3>1, <2>1, DoUnmountFrame
        <3>3. state'[w] = state[w] /\ step'[w] = step[w] /\ visible'[w] = visible[w]
              /\ before'[w] = before[w]
            BY <1>13, <2>1 DEF Unmount
        <3> QED BY <3>2, <3>3, VolInvFrame
    <2>2. CASE w = v
        <3>1. step[v] = "idle" /\ step'[v] = "idle" /\ state'[v] # "mounted"
            BY <1>13, <2>2 DEF Unmount
        <3> QED BY <3>1, <2>2, IdleNotMounted
    <2> QED BY <2>1, <2>2
<1>14. ASSUME NEW v \in Vols, NEW c \in ChildIds, SdcardfsChild(v, c)
       PROVE  \A w \in Vols : VolInv(w)'
    <2> SUFFICES ASSUME NEW w \in Vols PROVE VolInv(w)'
        OBVIOUS
    <2>1. CASE w = v
        <3>4. sdStack[v] # <<>> => sdStack'[v] # <<>>
            BY <1>14, ChildKeepsStack
        <3>5. /\ state'[v] = state[v] /\ step'[v] = step[v]
              /\ rawMounted'[v] = rawMounted[v] /\ visible'[v] = visible[v]
              /\ before'[v] = before[v] /\ fuseLive'[v] = fuseLive[v]
              /\ fuseMounted'[v] = fuseMounted[v]
            BY <1>14 DEF SdcardfsChild
        <3> QED BY <2>1, <3>4, <3>5 DEF VolInv
    <2>2. CASE w # v
        BY <1>14, <2>2 DEF SdcardfsChild, VolInv
    <2> QED BY <2>1, <2>2
<1>15. CASE UNCHANGED vars
    BY <1>15, VolInvFrame DEF vars
<1> QED BY <1>1, <1>2, <1>3, <1>4, <1>5, <1>6, <1>7, <1>8, <1>9, <1>10,
           <1>11, <1>12, <1>13, <1>14, <1>15 DEF Next, MountStep

LEMMA NextMountInv == MountInv /\ [Next]_vars => MountInv'
<1> SUFFICES ASSUME MountInv, [Next]_vars PROVE MountInv'
    OBVIOUS
<1>1. TypeInv'
    BY NextTypeInv DEF MountInv
<1>2. \A w \in Vols : VolInv(w)'
    BY NextVolInv DEF MountInv, TypeInv
<1> QED BY <1>1, <1>2 DEF MountInv

(* MountInv gives both properties the runs check.                          *)
LEMMA MountInvImplies ==
    MountInv => MountedMeansComplete /\ MountInProgressConsistent
BY DEF MountInv, VolInv, MountedMeansComplete, MountInProgressConsistent

(***************************************************************************)
(* For every set of volumes and users, every flag and every budget, a     *)
(* volume VolumeBase reports mounted holds its raw mount and, when         *)
(* visible, the owner's FUSE mount over a live sdcardfs: no doMount path   *)
(* reports success past a failed stage, whatever the timing of the         *)
(* sdcardfs children of earlier, timed-out attempts.                       *)
(***************************************************************************)
THEOREM MountedComplete == Spec => []MountedMeansComplete
<1>1. Init => MountInv
    BY InitMountInv
<1>2. MountInv /\ [Next]_vars => MountInv'
    BY NextMountInv
<1>3. MountInv => MountedMeansComplete
    BY MountInvImplies
<1> QED BY <1>1, <1>2, <1>3, PTL DEF Spec

(***************************************************************************)
(* For every value of the constants, while a doMount call is past its     *)
(* fork the kernel holds what its earlier steps mounted, and the spin-up   *)
(* loop's device id read before the fork names a live sdcardfs.            *)
(***************************************************************************)
THEOREM InProgressConsistent == Spec => []MountInProgressConsistent
<1>1. Init => MountInv
    BY InitMountInv
<1>2. MountInv /\ [Next]_vars => MountInv'
    BY NextMountInv
<1>3. MountInv => MountInProgressConsistent
    BY MountInvImplies
<1> QED BY <1>1, <1>2, <1>3, PTL DEF Spec
=============================================================================
