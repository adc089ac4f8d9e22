------------------------------ MODULE VoldMain ------------------------------
(***************************************************************************)
(* vold's main(): the start-up sequence and process_config, the loop over  *)
(* the default fstab that fills VoldConfigs and registers the disk sources *)
(* of vold-managed entries with the VolumeManager.                         *)
(*                                                                         *)
(* main runs on one thread and nothing else runs until the binder and     *)
(* netlink listeners start, so each step below is a statement (or a run   *)
(* of statements that no one observes in between) of main.  An fstab      *)
(* entry is a record of the fs_mgr fields process_config reads; its       *)
(* device and label strings are abstracted to the entry's position.       *)
(***************************************************************************)
EXTENDS Naturals, Sequences

CONSTANTS
    Entries,              \* the fstab entries an fstab may hold
    MaxEntries,           \* bound on the length of the default fstab
    DebugDefaultPrimary   \* GetBoolProperty("vold.debug.default_primary")

ASSUME MainAssumption ==
    /\ MaxEntries \in Nat
    /\ DebugDefaultPrimary \in BOOLEAN
    /\ \A e \in Entries :
         /\ {e.quota, e.fs_compress, e.logical, e.no_fail, e.data_metadata,
             e.vold_managed, e.nonremovable, e.no_emulated_sd} \subseteq BOOLEAN
         /\ e.reserved_size \in Nat

VARIABLES
    pc,          \* where main is
    fstab,       \* fstab_default, as ReadDefaultFstab left it
    i,           \* the entry process_config's loop is at
    configs,     \* the VoldConfigs of main
    sources,     \* the DiskSources added to the VolumeManager, in order
    precreated,  \* defaultkey_precreate_dm_device() has run
    props        \* the vold.has_* system properties, once set

vars == <<pc, fstab, i, configs, sources, precreated, props>>

-----------------------------------------------------------------------------
Pcs == {"start", "config", "loop", "service", "netlink", "publish",
        "serving", "exited", "aborted"}

ConfigRecords ==
    [has_adoptable : BOOLEAN, has_quota : BOOLEAN, has_reserved : BOOLEAN, has_compress : BOOLEAN]

(* A VoldConfigs with every flag false.                                     *)
NoConfigs ==
    [has_adoptable |-> FALSE, has_quota |-> FALSE, has_reserved |-> FALSE, has_compress |-> FALSE]

(* No vold.has_* property has been set: the empty function.               *)
NoProps == <<>>

(* The fstabs ReadDefaultFstab may return.                                  *)
Fstabs == UNION {[1..n -> Entries] : n \in 0..MaxEntries}

(* Mutant: the source is numbered from 0, as an index into the vector.     *)
SourceOfFromZero(f, k) == [entry |-> k - 1, defaultPrimary |-> f[k].no_emulated_sd \/ DebugDefaultPrimary]

(* The DiskSource process_config adds for entry k of fstab f.               *)
SourceOf(f, k) == [entry |-> k, defaultPrimary |-> f[k].no_emulated_sd \/ DebugDefaultPrimary]

(* Mutant: `VoldConfigs configs;` leaves the flags uninitialised; a read   *)
(* of them returns whatever the stack held.                                *)
DeclareConfigsUninit == configs' \in ConfigRecords

(* `VoldConfigs configs = {};`: every flag is false.                        *)
DeclareConfigs == configs' = NoConfigs

(* Mutant: the `continue` for nonremovable entries is dropped.              *)
IsDiskSourceAnyManaged(e) == e.vold_managed

(* A vold-managed entry; nonremovable ones are skipped with a warning.      *)
IsDiskSource(e) == e.vold_managed /\ ~e.nonremovable

(* Mutant: the /data pre-creation is placed after the `continue`.          *)
PrecreatesPastContinue(e) == e.data_metadata /\ ~(e.vold_managed /\ e.nonremovable)

(* /data with a metadata key directory pre-creates the dm device.           *)
Precreates(e) == e.data_metadata

(* configs after the flag tests of one entry: has_adoptable is never set.   *)
Accumulate(c, e) ==
    [has_adoptable |-> c.has_adoptable,
     has_quota |-> c.has_quota \/ e.quota,
     has_reserved |-> c.has_reserved \/ e.reserved_size > 0,
     has_compress |-> c.has_compress \/ e.fs_compress]

-----------------------------------------------------------------------------
Init ==
    /\ pc = "start"
    /\ fstab = <<>>
    /\ i = 0
    /\ configs = NoConfigs
    /\ sources = <<>>
    /\ precreated = FALSE
    /\ props = NoProps

(***************************************************************************)
(* From main's start to process_config: the SELinux handle, the            *)
(* VolumeManager and NetlinkManager singletons and vm->start(), each       *)
(* followed by exit(1) on failure; then the declaration of configs.        *)
(***************************************************************************)
StartManagers ==
    /\ pc = "start"
    /\ \/ /\ pc' = "config"
          /\ DeclareConfigs
       \/ /\ pc' = "exited"
          /\ UNCHANGED configs
    /\ UNCHANGED <<fstab, i, sources, precreated, props>>

(* process_config: ReadDefaultFstab fails, it returns -1 and main logs it  *)
(* and continues.                                                           *)
ReadFstabFails ==
    /\ pc = "config"
    /\ pc' = "service"
    /\ UNCHANGED <<fstab, i, configs, sources, precreated, props>>

(* process_config: ReadDefaultFstab succeeds; the four flags are cleared.   *)
ReadFstab ==
    /\ pc = "config"
    /\ \E f \in Fstabs : fstab' = f
    /\ i' = 1
    /\ configs' = NoConfigs
    /\ pc' = "loop"
    /\ UNCHANGED <<sources, precreated, props>>

(***************************************************************************)
(* One iteration of the loop, on entry i: the flag tests; a logical entry  *)
(* whose blk_device fs_mgr_update_logical_partition cannot update (the     *)
(* choice updated) aborts vold unless it is no_fail; /data with a metadata *)
(* key directory pre-creates the dm device; a vold-managed entry that is   *)
(* not nonremovable is added as a disk source, kDefaultPrimary when it is  *)
(* no_emulated_sd or the debug property is set.                            *)
(***************************************************************************)
ProcessEntry ==
    /\ pc = "loop"
    /\ i <= Len(fstab)
    /\ LET e == fstab[i] IN
       /\ configs' = Accumulate(configs, e)
       /\ \E updated \in BOOLEAN :
            IF e.logical /\ ~updated /\ ~e.no_fail
            THEN /\ pc' = "aborted"
                 /\ UNCHANGED <<i, sources, precreated>>
            ELSE /\ precreated' = (precreated \/ Precreates(e))
                 /\ sources' = IF IsDiskSource(e)
                               THEN Append(sources, SourceOf(fstab, i))
                               ELSE sources
                 /\ i' = i + 1
                 /\ UNCHANGED pc
    /\ UNCHANGED <<fstab, props>>

(* The loop has run over every entry: process_config returns 0.            *)
LoopDone ==
    /\ pc = "loop"
    /\ i > Len(fstab)
    /\ pc' = "service"
    /\ UNCHANGED <<fstab, i, configs, sources, precreated, props>>

(* VoldNativeService::start(), exit(1) on failure.                          *)
StartService ==
    /\ pc = "service"
    /\ pc' \in {"netlink", "exited"}
    /\ UNCHANGED <<fstab, i, configs, sources, precreated, props>>

(* NetlinkManager::start(), exit(1) on failure.                             *)
StartNetlink ==
    /\ pc = "netlink"
    /\ pc' \in {"publish", "exited"}
    /\ UNCHANGED <<fstab, i, configs, sources, precreated, props>>

(* With both listeners up, the four vold.has_* properties are set from     *)
(* configs; then coldboot and joinThreadPool, where main stays.            *)
Publish ==
    /\ pc = "publish"
    /\ props' = configs
    /\ pc' = "serving"
    /\ UNCHANGED <<fstab, i, configs, sources, precreated>>

Next ==
    \/ StartManagers \/ ReadFstabFails \/ ReadFstab \/ ProcessEntry \/ LoopDone
    \/ StartService \/ StartNetlink \/ Publish

Spec == Init /\ [][Next]_vars

-----------------------------------------------------------------------------
TypeOK ==
    /\ pc \in Pcs
    /\ fstab \in Fstabs
    /\ i \in 0..(MaxEntries + 1)
    /\ configs \in ConfigRecords
    /\ sources \in Seq([entry : 1..MaxEntries, defaultPrimary : BOOLEAN])
    /\ precreated \in BOOLEAN
    /\ props \in ConfigRecords \cup {NoProps}

(* The flags the entries of f raise, by the reading of the fs_mgr fields.  *)
FstabFlags(f) ==
    [has_adoptable |-> FALSE,
     has_quota |-> \E k \in DOMAIN f : f[k].quota,
     has_reserved |-> \E k \in DOMAIN f : f[k].reserved_size > 0,
     has_compress |-> \E k \in DOMAIN f : f[k].fs_compress]

(***************************************************************************)
(* The vold.has_* properties main sets say exactly whether some entry of   *)
(* the default fstab has quota, a reserved size or compression, and        *)
(* vold.has_adoptable is 0; when the fstab could not be read, all are 0.   *)
(* Breaks if configs is not initialised before process_config can fail,    *)
(* or if an entry's flag overwrites an earlier entry's.                    *)
(***************************************************************************)
PublishedConfigsMatchFstab ==
    props # NoProps => props = FstabFlags(fstab)

(***************************************************************************)
(* s lists the disk sources of the first n entries of f, the reference     *)
(* reading of the loop: each element is a vold-managed removable entry     *)
(* among them, flagged kDefaultPrimary exactly when it is no_emulated_sd   *)
(* or the debug property is set; the entries increase along s, so each     *)
(* appears once and in fstab order; and every such entry appears.          *)
(***************************************************************************)
ListsSources(s, f, n) ==
    /\ \A j \in 1..Len(s) :
         /\ s[j].entry \in 1..n
         /\ f[s[j].entry].vold_managed /\ ~f[s[j].entry].nonremovable
         /\ s[j].defaultPrimary = (f[s[j].entry].no_emulated_sd \/ DebugDefaultPrimary)
    /\ \A j, k \in 1..Len(s) : j < k => s[j].entry < s[k].entry
    /\ \A k \in 1..n : f[k].vold_managed /\ ~f[k].nonremovable =>
                         \E j \in 1..Len(s) : s[j].entry = k

(* The number of fstab entries the loop has passed: those before entry i  *)
(* while it runs or when it aborted on entry i, and all of them after it.  *)
Passed == IF pc \in {"loop", "aborted"} THEN i - 1 ELSE Len(fstab)

(***************************************************************************)
(* The disk sources registered so far are, in fstab order, those of the    *)
(* vold-managed removable entries the loop has passed, each flagged        *)
(* kDefaultPrimary exactly when it is no_emulated_sd or the debug property *)
(* is set; nonremovable entries never become sources.  When PLOG(FATAL)    *)
(* aborts on a logical entry, the sources are exactly those of the entries *)
(* before it: the abort comes before that entry's addDiskSource.           *)
(***************************************************************************)
SourcesFollowFstab ==
    ListsSources(sources, fstab, Passed)

(***************************************************************************)
(* defaultkey_precreate_dm_device has run exactly when an entry the loop   *)
(* has passed is /data with a metadata key directory: the pre-creation     *)
(* comes after the logical-partition abort and before the `continue` for  *)
(* nonremovable vold-managed entries, so neither skips it for a passed    *)
(* entry and an aborting entry never reaches it.                            *)
(***************************************************************************)
PrecreatedFollowsFstab ==
    precreated <=> \E k \in 1..Passed : fstab[k].data_metadata

=============================================================================
