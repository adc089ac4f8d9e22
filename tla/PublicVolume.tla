---------------------------- MODULE PublicVolume ----------------------------
(***************************************************************************)
(* The lifecycle of public (removable) volumes in vold: PublicVolume's     *)
(* doCreate, doMount, doUnmount, doFormat and doDestroy, the sdcardfs      *)
(* child that doMount forks and polls for, and the kernel mounts these     *)
(* operations create and remove.                                           *)
(*                                                                         *)
(* doMount is split where another actor runs between its statements: the  *)
(* poll loop races the sdcardfs child, and the mount callback is a binder  *)
(* call into the storage service.  Every other handler is one action.      *)
(* The VolumeBase wrapper (state, mount/unmount/format/destroy guards) is  *)
(* not under src/ and is modelled from the specification.                  *)
(*                                                                         *)
(* Paths are per volume (the stable name is fixed for a volume), so a path *)
(* is a Boolean "recorded" flag and a kernel mount is a Boolean "mounted"  *)
(* flag, except for the sdcardfs views, whose stacked mounts carry the id  *)
(* of the child that made them: that id is what GetDevice observes.        *)
(***************************************************************************)
EXTENDS Naturals, Sequences, FiniteSets, FormatPolicy

CONSTANTS
    Vols,               \* the public volumes
    Users,              \* user ids
    NoUser,             \* getSharedStorageUser of a user sharing with nobody
    MountUser,          \* getMountUserId() of each volume
    SharedStorageUser,  \* VolumeManager::getSharedStorageUser
    StartedUsers,       \* VolumeManager::getStartedUsers()
    Primary,            \* volumes mounted with MountFlags::kPrimary
    VfatSupported,      \* vfat::IsSupported()
    ExfatSupported,     \* exfat::IsSupported()
    UseSdcardFs,        \* IsSdcardfsUsed(), read in the constructor
    HasMountCallback,   \* getMountCallback() is set
    PollIntervalMs,     \* usleep(50000) in the spin-up loop
    SpinUpTimeoutMs,    \* the 5000 ms budget of the spin-up loop
    MaxMounts,          \* bound on doMount calls per volume (model bound)
    DevSize             \* GetBlockDevSize of each volume

ASSUME UsersAssumption ==
    /\ NoUser \notin Users
    /\ MountUser \in [Vols -> Users]
    /\ SharedStorageUser \in [Users -> Users \cup {NoUser}]
    /\ StartedUsers \subseteq Users

ASSUME FlagsAssumption ==
    /\ Primary \subseteq Vols
    /\ {VfatSupported, ExfatSupported, UseSdcardFs, HasMountCallback} \subseteq BOOLEAN

ASSUME BoundsAssumption ==
    /\ PollIntervalMs \in Nat \ {0}
    /\ SpinUpTimeoutMs \in Nat
    /\ MaxMounts \in Nat
    /\ DevSize \in [Vols -> Nat]

VARIABLES
    state,        \* VolumeBase state of each volume
    step,         \* where an in-flight doMount is: "idle", "poll", "fuse", "callback"
    node,         \* the device node mDevPath exists
    fsType,       \* mFsType, as readMetadata left it
    visible,      \* isVisibleForWrite() under the flags of the last mount call
    rawPath,      \* mRawPath is recorded
    sdPaths,      \* mSdcardFsDefault/Read/Write/Full are recorded
    fuseMounted,  \* mFuseMounted
    rawMounted,   \* kernel: the filesystem is mounted at /mnt/media_rw/<name>
    fuseLive,     \* kernel: the owner's FUSE mount /mnt/user/<owner>/<name>
    bound,        \* kernel: users u with /mnt/user/<u>/<name> bound to it
    asecBound,    \* kernel: /mnt/secure/asec is bound (shared by all volumes)
    sdDirs,       \* the four /mnt/runtime/*/<name> directories exist
    sdStack,      \* kernel: ids of the sdcardfs mounts stacked on them
    running,      \* ids of forked sdcardfs children that have not exited
    attempts,     \* doMount calls so far; the id of the latest child
    before,       \* GetDevice(mSdcardFsFull) captured before the fork
    elapsed,      \* milliseconds the spin-up loop has waited
    diskFs,       \* the filesystem on the medium
    lastOp,       \* the last VolumeBase operation on each volume
    result        \* its status_t class

vars == <<state, step, node, fsType, visible, rawPath, sdPaths, fuseMounted, rawMounted,
          fuseLive, bound, asecBound, sdDirs, sdStack, running, attempts,
          before, elapsed, diskFs, lastOp, result>>

mountVars == <<rawPath, sdPaths, fuseMounted, rawMounted, fuseLive, bound,
               asecBound, sdDirs, sdStack>>

-----------------------------------------------------------------------------
VolStates == {"new", "unmounted", "checking", "mounted", "unmountable", "destroyed"}
Steps     == {"idle", "poll", "fuse", "callback"}
DiskKinds == {"vfat", "exfat", "other", NoFs}   \* NoFs: blank, or unreadable
Ops       == {"none", "create", "mount", "unmount", "format", "destroy"}
Results   == {"none", "ok", "einval", "error"}
ChildIds  == 1..MaxMounts

(* The kernel device of the sdcardfs full view: the top mount, else 0.     *)
TopDev(s) == IF s = <<>> THEN 0 ELSE s[Len(s)]

(* doMount's dispatch on mFsType: vfat or exfat with driver support.        *)
FsSupported(t) == (t = "vfat" /\ VfatSupported) \/ (t = "exfat" /\ ExfatSupported)

(* A visible mount spins up sdcardfs when the device uses it.              *)
SpinsUpSdcardFs(isVisible) == isVisible /\ UseSdcardFs

(* The started users doMount bind-mounts the owner's FUSE view for.         *)
FanOutUsers(v) ==
    {u \in StartedUsers : u # MountUser[v] /\ SharedStorageUser[u] = MountUser[v]}

(* The started users doUnmount removes bind mounts for.                     *)
Siblings(v) == StartedUsers \ {MountUser[v]}

(***************************************************************************)
(* The stages of doMount before the fork, in order.  A doMount call stops  *)
(* at its first failing stage, or passes them all (NoFailure).             *)
(***************************************************************************)
CheckStage    == 1   \* unsupported mFsType, or vfat/exfat::Check failed
RawDirStage   == 2   \* fs_prepare_dir(mRawPath)
RawMountStage == 3   \* vfat/exfat::Mount
SdDirsStage   == 4   \* fs_prepare_dir of the four sdcardfs views
ForkStage     == 5   \* fork()
NoFailure     == 6

(* initAsecStage, run by doMount of a primary volume once the raw mount is *)
(* up: /mnt/secure/asec is bound when the mkdir of .android_secure and the *)
(* BindMount succeed (asecOk); doMount ignores its result.                 *)
AsecStaged(v, f, asecOk) == f > RawMountStage /\ v \in Primary /\ asecOk

(* Mutant: no umount2(MNT_DETACH) fallback after a failed ForceUnmount.     *)
RawStillMountedNoLazy(forced, detached) == ~forced

(* mRawPath is still mounted after doUnmount's ForceUnmount(mRawPath) and,  *)
(* when that fails, umount2(MNT_DETACH).                                    *)
RawStillMounted(forced, detached) == ~forced /\ ~detached

(* Mutant: doUnmount ignores the status of UnmountUserFuse.                 *)
UnmountFailsIgnored(v, fuseOk) == FALSE

(* doUnmount returns -errno when UnmountUserFuse fails.                     *)
UnmountFails(v, fuseOk) == fuseMounted[v] /\ ~fuseOk

-----------------------------------------------------------------------------
(***************************************************************************)
(* PublicVolume::doUnmount, as one step.  fuseOk is the outcome of         *)
(* UnmountUserFuse; ForceUnmount of a path that is mounted may fail        *)
(* (busy), the stuck choices; of one that is not, it succeeds.  It is used *)
(* by Unmount and by doMount's own rollback.                               *)
(***************************************************************************)
DoUnmount(v, fuseOk) ==
    \E bindStuck \in SUBSET (bound[v] \cap Siblings(v)),
       asecStuck, sdStuck, rawForced \in BOOLEAN :
        /\ bound' = IF fuseMounted[v]
                    THEN [bound EXCEPT ![v] = @ \ (Siblings(v) \ bindStuck)]
                    ELSE bound
        /\ fuseLive' = [fuseLive EXCEPT ![v] = @ /\ ~(fuseMounted[v] /\ fuseOk)]
        /\ IF UnmountFails(v, fuseOk)
           THEN UNCHANGED <<rawPath, sdPaths, fuseMounted, rawMounted,
                            asecBound, sdDirs, sdStack>>
           ELSE /\ fuseMounted' = [fuseMounted EXCEPT ![v] = FALSE]
                /\ asecBound' = (asecBound /\ asecStuck)
                /\ IF UseSdcardFs
                   THEN LET stack == IF sdStuck \/ sdStack[v] = <<>> THEN sdStack[v]
                                     ELSE SubSeq(sdStack[v], 1, Len(sdStack[v]) - 1)
                        IN  /\ sdStack' = [sdStack EXCEPT ![v] = stack]
                            /\ sdDirs' = [sdDirs EXCEPT ![v] = @ /\ stack # <<>>]
                            /\ sdPaths' = [sdPaths EXCEPT ![v] = FALSE]
                   ELSE UNCHANGED <<sdStack, sdDirs, sdPaths>>
                /\ rawMounted' = [rawMounted EXCEPT ![v] =
                                    @ /\ RawStillMounted(rawForced, ~rawForced)]
                /\ rawPath' = [rawPath EXCEPT ![v] = FALSE]

(* doMount returns an error: the VolumeBase wrapper marks it unmountable.   *)
MountFails(v) ==
    /\ state' = [state EXCEPT ![v] = "unmountable"]
    /\ step' = [step EXCEPT ![v] = "idle"]
    /\ result' = [result EXCEPT ![v] = "error"]

(* doMount returns OK.                                                      *)
MountSucceeds(v) ==
    /\ state' = [state EXCEPT ![v] = "mounted"]
    /\ step' = [step EXCEPT ![v] = "idle"]
    /\ result' = [result EXCEPT ![v] = "ok"]

-----------------------------------------------------------------------------
Init ==
    /\ state = [v \in Vols |-> "new"]
    /\ step = [v \in Vols |-> "idle"]
    /\ node = [v \in Vols |-> FALSE]
    /\ fsType = [v \in Vols |-> NoFs]
    /\ visible = [v \in Vols |-> FALSE]
    /\ rawPath = [v \in Vols |-> FALSE]
    /\ sdPaths = [v \in Vols |-> FALSE]
    /\ fuseMounted = [v \in Vols |-> FALSE]
    /\ rawMounted = [v \in Vols |-> FALSE]
    /\ fuseLive = [v \in Vols |-> FALSE]
    /\ bound = [v \in Vols |-> {}]
    /\ asecBound = FALSE
    /\ sdDirs = [v \in Vols |-> FALSE]
    /\ sdStack = [v \in Vols |-> <<>>]
    /\ running = [v \in Vols |-> {}]
    /\ attempts = [v \in Vols |-> 0]
    /\ before = [v \in Vols |-> 0]
    /\ elapsed = [v \in Vols |-> 0]
    /\ diskFs \in [Vols -> DiskKinds]
    /\ lastOp = [v \in Vols |-> "none"]
    /\ result = [v \in Vols |-> "none"]

(* doCreate: CreateDeviceNode(mDevPath, mDevice), which may fail.           *)
Create(v) ==
    /\ state[v] = "new"
    /\ \E ok \in BOOLEAN :
        /\ node' = [node EXCEPT ![v] = ok]
        /\ state' = [state EXCEPT ![v] = IF ok THEN "unmounted" ELSE "new"]
        /\ result' = [result EXCEPT ![v] = IF ok THEN "ok" ELSE "error"]
    /\ lastOp' = [lastOp EXCEPT ![v] = "create"]
    /\ UNCHANGED <<step, fsType, visible, mountVars, running, attempts, before, elapsed, diskFs>>

(***************************************************************************)
(* doMount, from its start to the fork of sdcardfs (or to its return, for  *)
(* a volume that spins nothing up): readMetadata, the check, the paths,    *)
(* the raw mount, the ASEC stage of a primary volume, the visibility exit  *)
(* and the sdcardfs mount points.  md is what ReadMetadataUntrusted reads, *)
(* NoFs when it fails; f the stage that fails; asecOk whether              *)
(* initAsecStage's mkdir and BindMount succeed (doMount ignores both).     *)
(***************************************************************************)
MountBegin(v) ==
    /\ state[v] = "unmounted"
    /\ attempts[v] < MaxMounts
    /\ \E isVisible, asecOk \in BOOLEAN, md \in {diskFs[v], NoFs},
       f \in CheckStage..NoFailure :
        LET spawned == SpinsUpSdcardFs(isVisible) /\ f = NoFailure
            child   == attempts[v] + 1
        IN
        /\ f > CheckStage => FsSupported(md)
        /\ f \in {SdDirsStage, ForkStage} => SpinsUpSdcardFs(isVisible)
        /\ visible' = [visible EXCEPT ![v] = isVisible]
        /\ fsType' = [fsType EXCEPT ![v] = md]
        /\ rawPath' = [rawPath EXCEPT ![v] = f > CheckStage]
        /\ sdPaths' = [sdPaths EXCEPT ![v] = f > CheckStage]
        /\ rawMounted' = [rawMounted EXCEPT ![v] = f > RawMountStage]
        /\ asecBound' = (asecBound \/ AsecStaged(v, f, asecOk))
        /\ sdDirs' = [sdDirs EXCEPT ![v] = @ \/ (SpinsUpSdcardFs(isVisible) /\ f > SdDirsStage)]
        /\ running' = IF spawned THEN [running EXCEPT ![v] = @ \cup {child}] ELSE running
        /\ before' = IF spawned THEN [before EXCEPT ![v] = TopDev(sdStack[v])] ELSE before
        /\ elapsed' = [elapsed EXCEPT ![v] = 0]
        /\ attempts' = [attempts EXCEPT ![v] = child]
        /\ \/ f < NoFailure /\ MountFails(v)
           \/ f = NoFailure /\ ~isVisible /\ MountSucceeds(v)
           \/ /\ f = NoFailure /\ isVisible
              /\ state' = [state EXCEPT ![v] = "checking"]
              /\ step' = [step EXCEPT ![v] = IF UseSdcardFs THEN "poll" ELSE "fuse"]
              /\ result' = [result EXCEPT ![v] = "none"]
    /\ lastOp' = [lastOp EXCEPT ![v] = "mount"]
    /\ UNCHANGED <<node, fuseMounted, fuseLive, bound, sdStack, diskFs>>

(* Mutant: the loop waits for the child to exit, not for the device.       *)
SpinUpObservedAnyExit(v) ==
    /\ step[v] = "poll"
    /\ attempts[v] \notin running[v]
    /\ step' = [step EXCEPT ![v] = "fuse"]
    /\ UNCHANGED <<state, node, fsType, visible, mountVars, running, attempts,
                   before, elapsed, diskFs, lastOp, result>>

(* The spin-up loop sees GetDevice(mSdcardFsFull) differ from before and   *)
(* waitpid returns: the child it forked has exited.                        *)
SpinUpObserved(v) ==
    /\ step[v] = "poll"
    /\ TopDev(sdStack[v]) # before[v]
    /\ attempts[v] \notin running[v]
    /\ step' = [step EXCEPT ![v] = "fuse"]
    /\ UNCHANGED <<state, node, fsType, visible, mountVars, running, attempts, before,
                   elapsed, diskFs, lastOp, result>>

(* Mutant: the loop sleeps without reading the clock.                      *)
SpinUpWaitClockStopped(v) ==
    /\ step[v] = "poll"
    /\ TopDev(sdStack[v]) = before[v]
    /\ UNCHANGED vars

(* Mutant: the loop sleeps whatever the elapsed time.                       *)
SpinUpWaitUnbounded(v) ==
    /\ step[v] = "poll"
    /\ TopDev(sdStack[v]) = before[v]
    /\ elapsed' = [elapsed EXCEPT ![v] = @ + PollIntervalMs]
    /\ UNCHANGED <<state, step, node, fsType, visible, mountVars, running,
                   attempts, before, diskFs, lastOp, result>>

(* The device is unchanged: sleep 50 ms; the budget is not yet exceeded.   *)
SpinUpWait(v) ==
    /\ step[v] = "poll"
    /\ TopDev(sdStack[v]) = before[v]
    /\ elapsed[v] + PollIntervalMs <= SpinUpTimeoutMs
    /\ elapsed' = [elapsed EXCEPT ![v] = @ + PollIntervalMs]
    /\ UNCHANGED <<state, step, node, fsType, visible, mountVars, running, attempts,
                   before, diskFs, lastOp, result>>

(* The device is unchanged, and after the sleep more than 5000 ms have     *)
(* passed: return -ETIMEDOUT, with no rollback and the child not reaped.   *)
SpinUpTimeout(v) ==
    /\ step[v] = "poll"
    /\ TopDev(sdStack[v]) = before[v]
    /\ elapsed[v] + PollIntervalMs > SpinUpTimeoutMs
    /\ elapsed' = [elapsed EXCEPT ![v] = @ + PollIntervalMs]
    /\ MountFails(v)
    /\ UNCHANGED <<node, fsType, visible, mountVars, running, attempts, before, diskFs, lastOp>>

(* Mutant: the fan-out runs as soon as MountUserFuse succeeds, before the  *)
(* onVolumeChecking callback has accepted the volume.                      *)
FuseMountedFanOut(v) ==
    /\ step[v] = "fuse"
    /\ fuseLive' = [fuseLive EXCEPT ![v] = TRUE]
    /\ fuseMounted' = [fuseMounted EXCEPT ![v] = TRUE]
    /\ step' = [step EXCEPT ![v] = "callback"]
    /\ \E okSet \in SUBSET FanOutUsers(v) :
        bound' = [bound EXCEPT ![v] = @ \cup okSet]
    /\ UNCHANGED <<state, node, fsType, visible, rawPath, sdPaths, rawMounted,
                   asecBound, sdDirs, sdStack, running, attempts, before,
                   elapsed, diskFs, lastOp, result>>

(* MountUserFuse succeeds: mFuseMounted is set.                             *)
FuseMounted(v) ==
    /\ step[v] = "fuse"
    /\ fuseLive' = [fuseLive EXCEPT ![v] = TRUE]
    /\ fuseMounted' = [fuseMounted EXCEPT ![v] = TRUE]
    /\ step' = [step EXCEPT ![v] = "callback"]
    /\ UNCHANGED <<state, node, fsType, visible, rawPath, sdPaths, rawMounted, bound,
                   asecBound, sdDirs, sdStack, running, attempts, before,
                   elapsed, diskFs, lastOp, result>>

(* MountUserFuse fails: doUnmount() and return the error.                   *)
FuseMountFailed(v) ==
    /\ step[v] = "fuse"
    /\ \E fuseOk \in BOOLEAN : DoUnmount(v, fuseOk)
    /\ MountFails(v)
    /\ UNCHANGED <<node, fsType, visible, running, attempts, before, elapsed, diskFs, lastOp>>

(***************************************************************************)
(* The callback reports the volume ready (or there is none): the FUSE      *)
(* tuning, and a bind mount for every started user that shares storage    *)
(* with the owner; those whose BindMount succeeds are in okSet.            *)
(***************************************************************************)
VolumeReady(v) ==
    /\ step[v] = "callback"
    /\ \E okSet \in SUBSET FanOutUsers(v) :
        bound' = [bound EXCEPT ![v] = @ \cup okSet]
    /\ MountSucceeds(v)
    /\ UNCHANGED <<node, fsType, visible, rawPath, sdPaths, fuseMounted, rawMounted,
                   fuseLive, asecBound, sdDirs, sdStack, running, attempts,
                   before, elapsed, diskFs, lastOp>>

(* onVolumeChecking reports not ready: doUnmount() and return -EIO.         *)
VolumeNotReady(v) ==
    /\ step[v] = "callback"
    /\ HasMountCallback
    /\ \E fuseOk \in BOOLEAN : DoUnmount(v, fuseOk)
    /\ MountFails(v)
    /\ UNCHANGED <<node, fsType, visible, running, attempts, before, elapsed, diskFs, lastOp>>

(***************************************************************************)
(* The sdcardfs child (the binary is not under src/): it mounts the four   *)
(* views over their directories, or fails (exec or mount error), and      *)
(* exits.  A child outlives a doMount that timed out.                      *)
(***************************************************************************)
SdcardfsChild(v, c) ==
    /\ c \in running[v]
    /\ running' = [running EXCEPT ![v] = @ \ {c}]
    /\ \E mounts \in BOOLEAN :
        sdStack' = IF mounts /\ sdDirs[v]
                   THEN [sdStack EXCEPT ![v] = Append(@, c)]
                   ELSE sdStack
    /\ UNCHANGED <<state, step, node, fsType, visible, rawPath, sdPaths, fuseMounted,
                   rawMounted, fuseLive, bound, asecBound, sdDirs, attempts,
                   before, elapsed, diskFs, lastOp, result>>

(* VolumeBase::unmount: doUnmount on a mounted volume, or to clean up      *)
(* after a failed mount (specification, section 4.3).                       *)
Unmount(v) ==
    /\ state[v] \in {"mounted", "unmountable"}
    /\ step[v] = "idle"
    /\ \E fuseOk \in BOOLEAN :
        /\ DoUnmount(v, fuseOk)
        /\ state' = [state EXCEPT ![v] = IF UnmountFails(v, fuseOk) THEN "unmountable"
                                                                     ELSE "unmounted"]
        /\ result' = [result EXCEPT ![v] = IF UnmountFails(v, fuseOk) THEN "error" ELSE "ok"]
    /\ lastOp' = [lastOp EXCEPT ![v] = "unmount"]
    /\ UNCHANGED <<step, node, fsType, visible, running, attempts, before, elapsed, diskFs>>

(* doDestroy: DestroyDeviceNode(mDevPath), once the volume is unmounted.    *)
Destroy(v) ==
    /\ state[v] = "unmounted"
    /\ node' = [node EXCEPT ![v] = FALSE]
    /\ state' = [state EXCEPT ![v] = "destroyed"]
    /\ result' = [result EXCEPT ![v] = "ok"]
    /\ lastOp' = [lastOp EXCEPT ![v] = "destroy"]
    /\ UNCHANGED <<step, fsType, visible, mountVars, running, attempts, before, elapsed, diskFs>>

(* Format requests the binder call may carry.                               *)
FormatRequests == {"auto", "vfat", "exfat", "ext4"}

(* doFormat when GetBlockDevSize fails: it returns before touching the     *)
(* device.                                                                 *)
FormatSizeUnknown(v) ==
    /\ state[v] = "unmounted"
    /\ \E req \in FormatRequests : NeedsDevSize(req, VfatSupported, ExfatSupported)
    /\ result' = [result EXCEPT ![v] = "error"]
    /\ lastOp' = [lastOp EXCEPT ![v] = "format"]
    /\ UNCHANGED <<state, step, node, fsType, visible, mountVars, running, attempts,
                   before, elapsed, diskFs>>

(***************************************************************************)
(* doFormat with the size known: resolve fsPick, WipeBlockDevice (a        *)
(* failure is only logged), then format with the picked type, or return    *)
(* -EINVAL when there is none.  A failed format leaves an unreadable      *)
(* medium.                                                                 *)
(***************************************************************************)
Format(v) ==
    /\ state[v] = "unmounted"
    /\ \E req \in FormatRequests, wipeOk, formatOk \in BOOLEAN :
        LET pick  == FsPick(req, VfatSupported, ExfatSupported, DevSize[v])
            wiped == IF wipeOk THEN NoFs ELSE diskFs[v]
        IN
        /\ diskFs' = [diskFs EXCEPT ![v] = CASE pick = NoFs -> wiped
                                             [] formatOk    -> pick
                                             [] OTHER       -> "other"]
        /\ result' = [result EXCEPT ![v] = CASE pick = NoFs -> "einval"
                                             [] formatOk    -> "ok"
                                             [] OTHER       -> "error"]
    /\ lastOp' = [lastOp EXCEPT ![v] = "format"]
    /\ UNCHANGED <<state, step, node, fsType, visible, mountVars, running, attempts,
                   before, elapsed>>

-----------------------------------------------------------------------------
(* The steps of one in-flight doMount after the fork.                       *)
MountStep(v) ==
    \/ SpinUpObserved(v) \/ SpinUpWait(v) \/ SpinUpTimeout(v)
    \/ FuseMounted(v) \/ FuseMountFailed(v)
    \/ VolumeReady(v) \/ VolumeNotReady(v)

Next ==
    \E v \in Vols :
        \/ Create(v) \/ MountBegin(v) \/ MountStep(v) \/ Unmount(v)
        \/ Format(v) \/ FormatSizeUnknown(v) \/ Destroy(v)
        \/ \E c \in ChildIds : SdcardfsChild(v, c)

(***************************************************************************)
(* The thread running doMount keeps running it, and a forked child is      *)
(* scheduled by the kernel until it exits.  Callers are not obliged to    *)
(* mount, unmount, format or destroy.                                      *)
(***************************************************************************)
Fairness ==
    \A v \in Vols :
        /\ WF_vars(MountStep(v))
        /\ \A c \in ChildIds : WF_vars(SdcardfsChild(v, c))

Spec == Init /\ [][Next]_vars /\ Fairness

-----------------------------------------------------------------------------
TypeOK ==
    /\ state \in [Vols -> VolStates]
    /\ step \in [Vols -> Steps]
    /\ node \in [Vols -> BOOLEAN]
    /\ fsType \in [Vols -> DiskKinds]
    /\ visible \in [Vols -> BOOLEAN]
    /\ rawPath \in [Vols -> BOOLEAN]
    /\ sdPaths \in [Vols -> BOOLEAN]
    /\ fuseMounted \in [Vols -> BOOLEAN]
    /\ rawMounted \in [Vols -> BOOLEAN]
    /\ fuseLive \in [Vols -> BOOLEAN]
    /\ bound \in [Vols -> SUBSET Users]
    /\ asecBound \in BOOLEAN
    /\ sdDirs \in [Vols -> BOOLEAN]
    /\ sdStack \in [Vols -> Seq(ChildIds)]
    /\ running \in [Vols -> SUBSET ChildIds]
    /\ attempts \in [Vols -> 0..MaxMounts]
    /\ before \in [Vols -> 0..MaxMounts]
    /\ elapsed \in [Vols -> 0..(SpinUpTimeoutMs + PollIntervalMs)]
    /\ diskFs \in [Vols -> DiskKinds]
    /\ lastOp \in [Vols -> Ops]
    /\ result \in [Vols -> Results]

(***************************************************************************)
(* A volume reported mounted has every mandatory stage of doMount in       *)
(* place: the raw mount, and for a visible volume the owner's FUSE mount   *)
(* (recorded in mFuseMounted) over a live sdcardfs when the device uses    *)
(* it.  Breaks if a doMount path reports success past a failed stage, or  *)
(* if a failed stage's rollback leaves the volume reported mounted.        *)
(***************************************************************************)
MountedMeansComplete ==
    \A v \in Vols : state[v] = "mounted" =>
        /\ rawMounted[v]
        /\ visible[v] => /\ fuseLive[v] /\ fuseMounted[v]
                            /\ UseSdcardFs => sdStack[v] # <<>>

(***************************************************************************)
(* While a doMount call is past its fork, the kernel holds what the steps  *)
(* before have mounted: the raw mount of a visible volume; once the spin-  *)
(* up loop has seen GetDevice(mSdcardFsFull) change, a live sdcardfs; once *)
(* MountUserFuse returned, the FUSE mount.  In the loop, a device id read  *)
(* before the fork names a mounted sdcardfs, so that a change of the id    *)
(* means a new mount and not an old one going away.                        *)
(***************************************************************************)
MountInProgressConsistent ==
    \A v \in Vols :
        /\ step[v] # "idle" => state[v] = "checking" /\ rawMounted[v] /\ visible[v]
        /\ step[v] = "poll" => UseSdcardFs /\ (before[v] # 0 => sdStack[v] # <<>>)
        /\ step[v] \in {"fuse", "callback"} => (UseSdcardFs => sdStack[v] # <<>>)
        /\ step[v] = "callback" => fuseLive[v] /\ fuseMounted[v]

(***************************************************************************)
(* mFuseMounted is TRUE exactly while the owner's FUSE mount exists, across *)
(* doMount's two rollbacks and doUnmount's early return: doUnmount must    *)
(* not forget a FUSE mount it failed to remove, nor keep one it removed.   *)
(***************************************************************************)
FuseFlagTracksKernel ==
    \A v \in Vols : fuseMounted[v] = fuseLive[v]

(***************************************************************************)
(* doMount binds a user to the owner's FUSE view only while that view is   *)
(* mounted, and only in the step that reports the volume mounted: the      *)
(* fan-out comes after MountUserFuse and after onVolumeChecking accepted   *)
(* the volume, so a volume rolled back by a failed MountUserFuse or a      *)
(* refusing callback was never visible to the other users.  (The binds    *)
(* may outlive the view when doUnmount fails; see NoStaleSiblingBind.)     *)
(***************************************************************************)
BindsOverLiveFuse ==
    [][\A v \in Vols : ~(bound'[v] \subseteq bound[v]) =>
          fuseLive[v] /\ fuseLive'[v] /\ state'[v] = "mounted"]_vars

(***************************************************************************)
(* A volume that VolumeBase reports unmounted or destroyed holds neither   *)
(* its raw mount nor its FUSE mount: doUnmount's lazy MNT_DETACH fallback  *)
(* frees a busy raw mount, and a failed UnmountUserFuse is reported.       *)
(***************************************************************************)
UnmountedReleasesMounts ==
    \A v \in Vols : state[v] \in {"unmounted", "destroyed"} =>
        ~rawMounted[v] /\ ~fuseLive[v]

(***************************************************************************)
(* Every doMount call returns: the spin-up loop is bounded by its budget  *)
(* even if sdcardfs never comes up (specification, section 8).             *)
(***************************************************************************)
MountTerminates ==
    \A v \in Vols : state[v] = "checking" ~> state[v] # "checking"

(***************************************************************************)
(* The volumes implement VolumeBase's lifecycle (VolumeLifecycle), with    *)
(* the raw mount as the medium: every step of doMount, doUnmount, the      *)
(* child, doFormat and doCreate/doDestroy is a lifecycle step or leaves     *)
(* the state and the raw mount alone, and every checking doMount returns.  *)
(* Breaks if an unmount reported complete leaves the raw mount up, or a    *)
(* mount reported successful has none.                                     *)
(***************************************************************************)
Lifecycle == INSTANCE VolumeLifecycle WITH media <- rawMounted

ImplementsLifecycle == Lifecycle!Spec

-----------------------------------------------------------------------------
(***************************************************************************)
(* Statements of the specification that the code does not meet; each is   *)
(* checked by a run that expects TLC to find it violated.                  *)
(***************************************************************************)

(***************************************************************************)
(* Specification, section 7: a failed doMount rolls back what it mounted   *)
(* before returning.  doMount's returns after the raw mount (sdcardfs      *)
(* directories, fork, spin-up timeout) leave the raw mount in place.       *)
(***************************************************************************)
MountFailureRollsBack ==
    \A v \in Vols : (lastOp[v] = "mount" /\ state[v] = "unmountable") => ~rawMounted[v]

(***************************************************************************)
(* Specification, section 3: a stage that unmount failed to unmount keeps  *)
(* its recorded path.  doUnmount clears the sdcardfs paths whatever        *)
(* ForceUnmount returned.                                                  *)
(***************************************************************************)
RecordedPathsCoverMounts ==
    \A v \in Vols : /\ rawMounted[v] => rawPath[v]
                    /\ sdStack[v] # <<>> => sdPaths[v]

(***************************************************************************)
(* Specification, section 4.4: siblings never view the owner's file system *)
(* after the owner's FUSE mount is gone.  doUnmount ignores a failed       *)
(* ForceUnmount of a sibling's bind mount and goes on to UnmountUserFuse.  *)
(***************************************************************************)
NoStaleSiblingBind ==
    \A v \in Vols : bound[v] # {} => fuseLive[v]

(***************************************************************************)
(* /mnt/secure/asec, staged by the primary volume's doMount, is released   *)
(* only by the primary volume's own teardown.  doUnmount of every volume   *)
(* calls ForceUnmount(kAsecPath).                                          *)
(***************************************************************************)
AsecReleasedOnlyByPrimary ==
    [][asecBound /\ ~asecBound' => \E p \in Primary : state'[p] # state[p]]_vars

(***************************************************************************)
(* A format request doFormat rejects with -EINVAL leaves the medium as it  *)
(* was.  doFormat calls WipeBlockDevice before it checks fsPick.            *)
(***************************************************************************)
RejectedFormatKeepsData ==
    [][\A v \in Vols : result'[v] = "einval" => diskFs'[v] = diskFs[v]]_vars

=============================================================================
