# TLA+ models of vold's public-volume code

This directory holds TLA+ models of the code under `src/`. Most of that code is
`PublicVolume.cpp`, which sits inside `src/main.cpp` from line 311 on. It is the
vold class that mounts, unmounts, formats and destroys removable FAT and exFAT
media. The rest of `src/` is vold's `main.cpp` (lines 1–310) and the headers
`KeyUtil.h` and `Utils.h` (`src/unnamed/part_000`).

## The system

A public volume goes through the following calls. The state machine around them is
VolumeBase, which is not under `src/` (spec §4).

* **doCreate** and **doDestroy** create and remove the device node.
* **doMount** runs in this order:
  1. reads the metadata;
  2. checks the file system;
  3. prepares the raw mount point and mounts the media raw;
  4. stages `/mnt/secure/asec` on a primary volume;
  5. returns early when the volume is not visible.

  Otherwise it carries on:
  6. prepares the four sdcardfs views;
  7. forks the sdcardfs daemon;
  8. **polls** `GetDevice(mSdcardFsFull)` every 50 ms until it changes, giving up
     after 5000 ms;
  9. mounts the owner's FUSE file system;
  10. makes the binder **mount callback**;
  11. bind-mounts the FUSE view for every started user who shares storage with the
      owner.

  Any stage may fail. The early returns do not roll back what came before.
* **doUnmount** runs in this order:
  1. removes the sibling users' bind mounts;
  2. unmounts the FUSE file system, returning early if that fails;
  3. tears down the global ASEC bind;
  4. unmounts the sdcardfs views;
  5. unmounts the raw mount, with a lazy `MNT_DETACH` fallback.
* **doFormat** picks vfat or exfat from the request, the support and the device
  size. It then wipes the device and formats it.

vold's **main** starts the VolumeManager and NetlinkManager singletons and
`vm->start()`, exiting on any failure. It then runs **process_config** over the
default fstab. That loop sets the quota, reserved-size and compression flags,
aborts on a logical partition it cannot resolve, pre-creates the `/data` dm
device, and registers a disk source for every vold-managed entry that is not
nonremovable. Then main starts the binder service and the netlink listener, and
publishes the flags as the `vold.has_*` system properties. The disk sources are
what later become the public volumes above; that step is VolumeManager's, which
is not under `src/`.

Four actors interleave in the volume code:
* the vold thread that runs these calls;
* the forked sdcardfs children, which can outlive the doMount that started them;
* the system server, which answers the mount callback;
* other volumes, which share `/mnt/secure/asec`.

## Modules

| Module | Models | Source |
|---|---|---|
| `FormatPolicy` | doFormat's `fsPick` resolution, as the operator `FsPick` | main.cpp 683–717 |
| `PublicVolume` | The whole lifecycle of a set of volumes (below) | main.cpp 360–738 |
| `MCPublicVolume` | Model values and definitions for TLC | — |
| `MCFormatPolicy` | Enumerates every request, support flag and boundary size; holds `SpecPick`, the specification's rule | — |
| `PublicVolumeProofs` | TLAPS proofs about `PublicVolume` | — |
| `VolumeLifecycle` | The lifecycle VolumeBase promises (abstract) | spec §4 |
| `PublicVolumeRefinement` | TLAPS proof that `PublicVolume` implements `VolumeLifecycle` | — |
| `VoldMain` | main's start-up and process_config | main.cpp 65–157, 227–284 |
| `MCVoldMain` | Every combination of the fstab fields process_config reads | — |
| `VoldMainProofs` | TLAPS proofs about `VoldMain` | — |
| `PublicVolumeTeardownProofs` | TLAPS proofs of what rollbacks and doUnmount leave mounted | — |
| `FormatPolicyProofs` | TLAPS proofs of `FsPick` against the specification's rule | — |

### PublicVolume's state

All state is per volume, except the ASEC bind, which is global.

* `state`: the VolumeBase state. `step`: where an in-flight doMount is.
* Kernel mounts are Booleans:
  * `rawMounted`;
  * `fuseLive`, the kernel's FUSE mount, as opposed to `fuseMounted`, the code's
    `mFuseMounted`;
  * `bound`, the set of users holding a bind mount;
  * `asecBound`.
* The sdcardfs views are `sdStack`, a stack of child ids. Its top is what
  `GetDevice` returns: `TopDev`, which is 0 when nothing is mounted.
* The recorded paths are `rawPath` and `sdPaths`. `sdDirs` says whether the view
  directories exist.
* The children are `running` (still alive) and `attempts` (the doMount count; a
  child is named by its attempt).
* The poll loop is `before` and `elapsed`.
* `diskFs` is what is on the medium. `lastOp` and `result` are what the last
  binder call did and returned.

### PublicVolume's actions

**Steps before the fork.** `MountBegin` is doMount from its start up to the fork,
or up to its return for an invisible volume. The failing stage is chosen as
`f \in CheckStage..NoFailure`. Each stage's effect is kept up to that stage:
* the paths are recorded;
* the raw mount is made;
* `AsecStaged` runs (initAsecStage, whose result doMount ignores);
* the view directories are prepared;
* the child is spawned.

The failure returns leave all of this in place, as the code does.

**The loop and the callback.** The steps after the fork each read or change
kernel state that another actor also touches:
* `SpinUpObserved`: the device id changed and waitpid returned;
* `SpinUpWait`: the sleep;
* `SpinUpTimeout`: the strict `> 5000` check after the sleep;
* `FuseMounted` and `FuseMountFailed`;
* `VolumeReady` and `VolumeNotReady`: the callback's answer, plus the fan-out
  with per-user bind failures.

**The child.** `SdcardfsChild` is the forked child. It either execs sdcard, which
mounts the views if their directories still exist, or exits.

**Unmount.** `DoUnmount` is doUnmount as one step. The outcome of each
`ForceUnmount` is a choice, and a failed `UnmountUserFuse` makes it return early.
It is shared by `Unmount` (VolumeBase::unmount) and by doMount's two rollbacks.

**Format.** `Format` is doFormat with the wipe before the `fsPick` check.
`FormatSizeUnknown` is its early return when `GetBlockDevSize` fails.

**Created and destroyed.** `Create` and `Destroy` are doCreate and doDestroy.

### VoldMain

The state is:
* `pc`, where main is;
* `fstab`, what ReadDefaultFstab returned;
* `i`, the loop's entry;
* `configs`, the VoldConfigs;
* `sources`, the disk sources in the order they were added;
* `precreated`;
* `props`, the published properties (`NoProps` until they are set).

An entry is a record of the fs_mgr fields the loop reads. The `mount_point ==
"/data"` and non-empty `metadata_key_dir` test is folded into one field,
`data_metadata`. The device pattern and label are replaced by the entry's
position.

The actions are:
* `StartManagers`: the start-ups up to the declaration of configs
  (`DeclareConfigs`, the `= {}`);
* `ReadFstabFails` and `ReadFstab`;
* `ProcessEntry`, one iteration, with the fatal abort as a choice of
  `fs_mgr_update_logical_partition`'s result;
* `LoopDone`;
* `StartService`, `StartNetlink` and `Publish`.

main is single-threaded up to the listeners, so nothing is interleaved.

### VolumeLifecycle and the refinement

`VolumeLifecycle` is what a volume promises its callers:
* the VolumeBase states and the edges between them;
* `media`, whether the medium is mounted:
  * a mount that succeeds or is still checking holds the medium;
  * a completed unmount releases it;
  * a failure may leave it either way.

`PublicVolume` instantiates it as `Lifecycle == INSTANCE VolumeLifecycle WITH
media <- rawMounted`. Each step of the code maps to a lifecycle step or a stutter:
* `MountBegin` maps to `AMountStart`;
* the returns of the loop, FUSE and callback steps map to `AMountEnd`;
* `Unmount` maps to `AUnmount`;
* `Create` and `Destroy` map to `ACreate` and `ADestroy`;
* the child, the wait and doFormat are stutters.

## Runs

| Run | cfg | Expect | Shows |
|---|---|---|---|
| format_policy | MCFormatPolicy.cfg | pass | `FsPick` equals the spec's rule away from the threshold |
| format_threshold | MCFormatPolicy_threshold.cfg | violation | At exactly 32896 MiB the code picks vfat; spec §8 says exfat |
| core | MCPublicVolume.cfg | pass | The seven properties below |
| rollback | MCPublicVolume_rollback.cfg | violation | A failed doMount keeps its raw mount (spec §7 says it rolls back) |
| paths | MCPublicVolume_paths.cfg | violation | doUnmount forgets the paths of sdcardfs views it could not unmount |
| stalebind | MCPublicVolume_stalebind.cfg | violation | A sibling's bind outlives the owner's FUSE mount |
| asec | MCPublicVolume_asec.cfg | violation | A secondary volume's unmount removes the primary's `/mnt/secure/asec` |
| wipe | MCPublicVolume_wipe.cfg | violation | A format rejected with -EINVAL has already wiped the device |
| startup | MCVoldMain.cfg | pass | The published properties, the disk sources and the /data pre-creation follow the fstab, also after an abort |

The core run checks these properties:
* `TypeOK`.
* `MountedMeansComplete`: a mounted volume holds its raw mount, and when visible
  also FUSE over a live sdcardfs.
* `MountInProgressConsistent`: what an in-flight doMount has mounted so far. It
  also says the `before` id read before the fork names a live sdcardfs, so a change
  of the id means a new mount.
* `FuseFlagTracksKernel`: `mFuseMounted` equals the kernel's state, across
  doUnmount's early return.
* `UnmountedReleasesMounts`: the lazy-detach fallback frees a busy raw mount.
* `MountTerminates`: every doMount returns. This is a liveness property.
* `ImplementsLifecycle`: `Lifecycle!Spec`, including its weak fairness on
  `AMountEnd`. The behaviours of the volume are behaviours of the lifecycle.
* `BindsOverLiveFuse`, an action property: a step that adds a bind mount has
  the owner's FUSE mount up before and after it, and reports the volume
  mounted. The fan-out comes after MountUserFuse and after onVolumeChecking
  accepted the volume, so the other users never see a volume that is rolled
  back. Binds may still outlive the FUSE mount when
  doUnmount fails; the stalebind run shows that.

The startup run checks these properties:
* `TypeOK`.
* `PublishedConfigsMatchFstab`: each published flag says whether some entry
  raises it, `has_adoptable` is always 0, and all are 0 when the fstab cannot be
  read.
* `SourcesFollowFstab`: the disk sources registered so far are, in order, the
  vold-managed removable entries the loop has passed, each with the right
  kDefaultPrimary. The reference definition `ListsSources` says what the list
  holds, where the code loops. Its elements are removable vold-managed entries
  among those passed. Their entries increase along the list, so each appears
  once and in fstab order. Every such entry appears. The property also holds
  after PLOG(FATAL) aborts on a logical entry, with the entries before it
  (`Passed`): the abort comes before that entry's addDiskSource.
* `PrecreatedFollowsFstab`: `defaultkey_precreate_dm_device` has run exactly
  when a passed entry is `/data` with a metadata key directory. This pins the
  pre-creation after the abort and before the `continue` for nonremovable
  vold-managed entries.

Every property of a passing run is broken by one mutant of the code, listed in
`PROJECT.json`:
* a wait with no budget check;
* a clock that does not advance;
* waiting for the child's exit instead of the device;
* ignoring the `UnmountUserFuse` status;
* dropping the `MNT_DETACH` fallback;
* skipping the support check in `FsPick`;
* declaring `configs` without `= {}`, so that a failed ReadDefaultFstab publishes
  garbage;
* dropping the `continue` for nonremovable entries;
* placing the `/data` pre-creation after that `continue`;
* numbering the sources from 0;
* running the bind-mount fan-out as soon as MountUserFuse succeeds, before the
  callback.

### Bounds

**Volume and users.** The core run has one primary volume owned by `u1`. `u2`
shares `u1`'s storage and `u3` does not, so the fan-out has a user to bind and a
user to skip. doUnmount then has two siblings to tear down.

**Mount attempts.** `MaxMounts = 3` doMount attempts. That is enough for a child
of a timed-out attempt to mount during a later attempt's loop, which is the
stale-`before` case.

**Time.** The budget is `SpinUpTimeoutMs = 100` with `PollIntervalMs = 50`. The
loop can therefore observe, wait once, and time out. The real values, 5000 and
50, only lengthen the wait; the wait-then-timeout shape is the same.

**Sizes.** Device sizes are in MiB (`BytesPerMiB = 1`), because TLC's integers
are 32 bits.

**Flags.** All support flags are TRUE. Visibility is chosen at each mount, so both
the visible and the invisible paths are run.

**Two volumes.** The ASEC run needs two volumes and checks only one property. A
passing run over two volumes is beyond the five-minute budget, but the
per-volume properties are also proved for any number of volumes (below).

**fstab.** `MCVoldMain` takes every combination of the nine fields, with
`reserved_size` 0 or 1, which gives 512 entries. fstabs hold up to two entries,
so a flag can come from the first or the second entry and a removable source can
follow a skipped one. That is 2.2 million states, in about 10 s.
`vold.debug.default_primary` is off, so kDefaultPrimary comes from
`no_emulated_sd` alone.

**Deadlock.** Deadlock checking is off in the core and startup runs. A destroyed volume is
terminal, as it is in the code. main ends in joinThreadPool, exit(1) or an abort,
and stays there.

### Fairness

Weak fairness is assumed on two things:
* `MountStep(v)`: the thread in doMount keeps running it; the loop is a plain
  sleep and poll.
* `SdcardfsChild(v, c)`: the kernel schedules a forked child until it exits.

Nothing obliges a caller to mount, unmount, format or destroy.

## Proofs

**`PublicVolumeProofs`**: TLAPS proves three theorems for every value of the constants, from the ASSUMEs
`UsersAssumption`, `FlagsAssumption`, `BoundsAssumption` and
`BytesPerMiBAssumption`.

* **`TypeCorrect`: `Spec => []TypeOK`.** TypeOK alone is not inductive, because
  `SpinUpTimeout` adds one interval to `elapsed`. The inductive invariant is
  `TypeInv = TypeOK /\ PollWithinBudget`: in the loop, `elapsed <= budget`. The
  step proof has one case per action, and rests on these lemmas:
  * `FsPickType` (the range of `FsPick`);
  * `TopDevType`;
  * `DoUnmountType`.
* **`MountedComplete`: `Spec => []MountedMeansComplete`.**
* **`InProgressConsistent`: `Spec => []MountInProgressConsistent`.**

The last two are proved together. `VolumeReady` declares a volume mounted on the
strength of what earlier steps of the same doMount mounted, so the property needs
a strengthening. `MountInv = TypeInv /\ \A w : VolInv(w)`, where `VolInv(w)` says
four things:
* a volume with a step in flight is checking, with its raw mount up and visible;
* in the loop, sdcardfs is in use, and a nonzero `before` names a non-empty view
  stack;
* from the FUSE step on, the stack is non-empty if sdcardfs is used;
* at the callback, FUSE is mounted and flagged.

The key case is `SpinUpObserved`. There, `TopDev # before` and the loop clause of
`VolInv` together rule out an empty stack. The cases for other volumes use the
frame lemmas `VolInvFrame` and `DoUnmountFrame`. The `SdcardfsChild` case uses
`ChildKeepsStack`. Both invariants were checked by TLC as invariants of the core
run before they were proved.

**`PublicVolumeRefinement`** proves two more theorems.
* **`Refinement`: `Spec => Lifecycle!SafeSpec`.** The step lemma `RefineStep`
  has one case per action. The mount steps after the fork need `MountInv` (above)
  to know that the volume is checking. `DoUnmountRaw` shows that a completed
  doUnmount releases the raw mount: the `MNT_DETACH` fallback covers a failed
  `ForceUnmount`.
* **`RawMountOnlyInUse`: `Spec => []Lifecycle!MediaOnlyInUse`.** This is proved
  on the lifecycle (`LifecycleInvStep`) and carried to the code by `Refinement`.

**`VoldMainProofs`** proves four theorems, from `MainAssumption`, for every set of
entries and every bound on the fstab:
* **`MainTypeCorrect`: `Spec => []TypeOK`.**
* **`PublishedMatchFstab`: `Spec => []PublishedConfigsMatchFstab`.** The
  inductive invariant `ConfigInv` says what configs holds at each point:
  * before the read, all flags are false;
  * in the loop at entry `i`, it holds the flags of the entries before `i`
    (`FlagsUpTo`), by the lemma `AccumulateStep`;
  * after the loop, it holds the flags of the whole fstab;
  * `props` is `configs` once main is serving, and unset before.

  * **`SourcesFollow`: `Spec => []SourcesFollowFstab`.** The invariant
    `SourcesInv` adds that no source exists before the fstab is read. The loop
    step uses two lemmas: `ListsSourcesSkip` for an entry that is not a disk
    source, and `ListsSourcesAppend` for one that is. Appending entry `i` keeps
    the list increasing because every earlier element names an entry below `i`.
    On the abort, `i` and the sources are unchanged, so the list is still that
    of the entries before `i`.
  * **`PrecreatedFollows`: `Spec => []PrecreatedFollowsFstab`.** The invariant
    is inductive with `ConfigInv`: entry `i` pre-creates exactly when it asks
    to, and the abort pre-creates nothing and leaves `i` alone.

**`PublicVolumeTeardownProofs`** proves three theorems for every value of the
constants. Their inductive invariant is `FuseInv`, with two conjuncts for each
volume `w`:
* `fuseMounted[w] = fuseLive[w]`;
* a FUSE mount exists only while `w` is checking, mounted or unmountable.

The second conjunct is needed for the first. Create, Destroy and MountBegin
leave the FUSE variables alone, and they are safe only because an idle volume
has no FUSE mount. The key lemma is `DoUnmountFuse`. After doUnmount, the flag
and the mount of `v` are up exactly when `UnmountFails`: doUnmount clears the
flag only when UnmountUserFuse removed the mount, or when there was none.
`FuseInv` is proved with `MountInv` in the context, which gives that
MountUserFuse runs only on a checking volume. TLC checked `FuseInv` as an
invariant of the core run before it was proved. The theorems are:
* **`FuseFlagTracks`: `Spec => []FuseFlagTracksKernel`.**
* **`UnmountedReleases`: `Spec => []UnmountedReleasesMounts`.** The raw-mount
  half is `RawMountOnlyInUse`, carried over by the refinement. The FUSE half is
  the lemma `FuseOnlyInUse`.
* **`BindsOverLive`: `Spec => BindsOverLiveFuse`.** This is an action property.
  `OnlyReadyBinds` shows that only the volume's own `VolumeReady` adds binds, and
  `MountInv` gives that the callback step has the FUSE mount up;
  `VolumeReady` reports the volume mounted through `MountSucceeds`.

**`FormatPolicyProofs`** proves three theorems from `BytesPerMiBAssumption`:
* **`PickMatchesSpecForAllSizes`.** `FsPick` equals `SpecPick` for every request
  value, both support flags and every natural size other than the threshold.
  The bounded run tries six sizes; this theorem covers every size.
* **`OffThresholdInvariant`: `Spec => []PickMatchesSpecOffThreshold`.**
* **`ThresholdDivergence`.** At exactly the threshold, with both types
  supported, `FsPick` gives vfat and `SpecPick` gives exfat. This is the
  format_threshold finding, proved for every size unit.

Only model-checked, never proved:
* `MountTerminates`, because liveness and ENABLED are beyond TLAPS;
* the fairness part of `ImplementsLifecycle`.

Every invariant of a passing run is now also a theorem.

## Not modelled

* **Names and paths.** Stable names and path strings are abstracted to per-volume
  flags. As a result, two volumes with the same file-system UUID (which would share
  `/mnt/media_rw/<uuid>`) are not modelled.
* **Users.** User start and stop, and `getSharedStorageUser`, belong to
  VolumeManager, which is not in `src/`. The started users are constants.
* **Small side effects.** `KillProcessesUsingPath`, `rmdir`, the FUSE read-ahead
  and dirty-ratio tuning, and logging change nothing that a property tells apart.
* **vold's `main.cpp`.**
  * `parse_args`, `coldboot` and `VoldLogger`: pure I/O.
  * `coldboot` writes `add` to every uevent file: pure I/O.
  * The logical-partition update rewrites `blk_device`, and so the disk source's
    pattern. Patterns are abstracted to positions.
  * What init does after vold aborts or exits is outside `src/`.
* **Headers.** `KeyUtil.h` and `Utils.h` declare the primitives. The actions model
  them by their outcomes.

## Plan for later work

1. Two volumes with colliding stable names, as a separate module, to show the
   raw-path clash.
2. A second passing configuration with `UseSdcardFs = FALSE` and no mount
   callback. That is the FUSE-only path, where the loop is skipped.
