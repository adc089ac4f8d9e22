--------------------------- MODULE VoldMainProofs ---------------------------
(***************************************************************************)
(* Proofs about VoldMain: main's start-up keeps its variables typed, and   *)
(* the vold.has_* properties it publishes are those of the fstab, for      *)
(* every set of entries and every bound on the fstab's length.             *)
(***************************************************************************)
EXTENDS VoldMain, SequenceTheorems, TLAPS

(* The flags raised by the first n entries of f.                            *)
FlagsUpTo(f, n) ==
    [has_adoptable |-> FALSE,
     has_quota |-> \E k \in 1..n : f[k].quota,
     has_reserved |-> \E k \in 1..n : f[k].reserved_size > 0,
     has_compress |-> \E k \in 1..n : f[k].fs_compress]

(***************************************************************************)
(* The inductive invariant: the types, with the fstab a sequence of at    *)
(* most MaxEntries entries; before the fstab is read configs is all false; *)
(* in the loop at entry i it holds the flags of the entries before i;      *)
(* after the loop those of the whole fstab; and the properties are set    *)
(* only at serving, to configs.                                           *)
(***************************************************************************)
ConfigInv ==
    /\ pc \in Pcs
    /\ fstab \in Seq(Entries) /\ Len(fstab) <= MaxEntries
    /\ i \in 0..(MaxEntries + 1)
    /\ configs \in ConfigRecords
    /\ sources \in Seq([entry : 1..MaxEntries, defaultPrimary : BOOLEAN])
    /\ precreated \in BOOLEAN
    /\ pc \in {"start", "config"} => fstab = <<>> /\ configs = NoConfigs
    /\ pc = "loop" => i \in 1..(Len(fstab) + 1) /\ configs = FlagsUpTo(fstab, i - 1)
    /\ pc \in {"service", "netlink", "publish", "serving"} =>
           configs = FlagsUpTo(fstab, Len(fstab))
    /\ props = IF pc = "serving" THEN configs ELSE NoProps

-----------------------------------------------------------------------------
(* A fstab ReadDefaultFstab returns is a sequence of entries within bound. *)
LEMMA FstabsAreSeqs ==
    ASSUME NEW f \in Fstabs
    PROVE  f \in Seq(Entries) /\ Len(f) <= MaxEntries
<1>1. PICK n \in 0..MaxEntries : f \in [1..n -> Entries]
  BY DEF Fstabs
<1>2. n \in Nat
  BY <1>1, MainAssumption
<1>3. f \in Seq(Entries) /\ Len(f) = n
  BY <1>1, <1>2
<1>. QED
  BY <1>1, <1>3

(* The flags of no entry are all false.                                     *)
LEMMA FlagsUpToNoConfigs ==
    ASSUME NEW f
    PROVE  FlagsUpTo(f, 0) = NoConfigs
BY DEF FlagsUpTo, NoConfigs

(* Or-ing one more entry's flags into those of the entries before it.      *)
LEMMA AccumulateStep ==
    ASSUME NEW f \in Seq(Entries), NEW n \in 1..Len(f)
    PROVE  Accumulate(FlagsUpTo(f, n - 1), f[n]) = FlagsUpTo(f, n)
<1>. DEFINE e == f[n]
<1>1. e \in Entries
  OBVIOUS
<1>2. (\E k \in 1..n : f[k].quota) <=> (\E j \in 1..(n - 1) : f[j].quota) \/ e.quota
  OBVIOUS
<1>3. (\E k \in 1..n : f[k].reserved_size > 0) <=>
        (\E j \in 1..(n - 1) : f[j].reserved_size > 0) \/ e.reserved_size > 0
  OBVIOUS
<1>4. (\E k \in 1..n : f[k].fs_compress) <=> (\E j \in 1..(n - 1) : f[j].fs_compress) \/ e.fs_compress
  OBVIOUS
<1>. QED
  BY <1>2, <1>3, <1>4 DEF Accumulate, FlagsUpTo

-----------------------------------------------------------------------------
(* A registered source keeps the list a sequence of sources.               *)
LEMMA SourcesAppend ==
    ASSUME NEW s \in Seq([entry : 1..MaxEntries, defaultPrimary : BOOLEAN]),
           NEW x \in [entry : 1..MaxEntries, defaultPrimary : BOOLEAN]
    PROVE  Append(s, x) \in Seq([entry : 1..MaxEntries, defaultPrimary : BOOLEAN])
BY AppendProperties

LEMMA InitConfigInv == Init => ConfigInv
<1>. SUFFICES ASSUME Init PROVE ConfigInv
  OBVIOUS
<1>0. MaxEntries \in Nat
  BY MainAssumption
<1>1. pc \in Pcs
  BY DEF Init, Pcs
<1>5. i \in 0..(MaxEntries + 1)
  BY <1>0 DEF Init
<1>6. precreated \in BOOLEAN
  <2>1. precreated = FALSE
    BY DEF Init
  <2>. QED
    BY <2>1, Zenon
<1>4. /\ fstab \in Seq(Entries) /\ Len(fstab) <= MaxEntries
      /\ sources \in Seq([entry : 1..MaxEntries, defaultPrimary : BOOLEAN])
  BY <1>0 DEF Init
<1>2. configs \in ConfigRecords /\ configs = NoConfigs
  BY DEF Init, ConfigRecords, NoConfigs
<1>3. props = NoProps /\ pc = "start" /\ fstab = <<>>
  BY DEF Init
<1>. QED
  BY <1>1, <1>2, <1>3, <1>4, <1>5, <1>6, Zenon DEF ConfigInv

LEMMA NextConfigInv == ConfigInv /\ [Next]_vars => ConfigInv'
<1>. SUFFICES ASSUME ConfigInv, [Next]_vars PROVE ConfigInv'
  OBVIOUS
<1>. USE MainAssumption
<1>1. CASE StartManagers
  BY <1>1 DEF StartManagers, DeclareConfigs, ConfigInv, Pcs, ConfigRecords, NoConfigs
<1>2. CASE ReadFstabFails
  <2>1. Len(fstab) = 0
    BY <1>2 DEF ReadFstabFails, ConfigInv
  <2>. QED
    BY <1>2, <2>1, FlagsUpToNoConfigs DEF ReadFstabFails, ConfigInv, Pcs
<1>3. CASE ReadFstab
  <2>1. PICK f \in Fstabs : fstab' = f
    BY <1>3 DEF ReadFstab
  <2>2. f \in Seq(Entries) /\ Len(f) <= MaxEntries
    BY FstabsAreSeqs
  <2>3. configs' = FlagsUpTo(fstab', 0)
    BY <1>3, FlagsUpToNoConfigs DEF ReadFstab, NoConfigs
  <2>4. i' \in 0..(MaxEntries + 1) /\ i' \in 1..(Len(fstab') + 1)
    BY <1>3, <2>1, <2>2 DEF ReadFstab
  <2>. QED
    BY <1>3, <2>1, <2>2, <2>3, <2>4 DEF ReadFstab, ConfigInv, Pcs, ConfigRecords, NoConfigs
<1>4. CASE ProcessEntry
  <2>1. i \in 1..Len(fstab) /\ pc = "loop"
    BY <1>4 DEF ProcessEntry, ConfigInv
  <2>2. configs' = FlagsUpTo(fstab, i)
    BY <1>4, <2>1, AccumulateStep DEF ProcessEntry, ConfigInv
  <2>3. fstab[i] \in Entries
    BY <2>1 DEF ConfigInv
  <2>4. SourceOf(fstab, i) \in [entry : 1..MaxEntries, defaultPrimary : BOOLEAN]
    BY <2>1, <2>3 DEF SourceOf, ConfigInv
  <2>5. configs' \in ConfigRecords
    BY <2>2, <2>3 DEF FlagsUpTo, ConfigRecords
  <2>6. CASE pc' = "aborted"
    BY <1>4, <2>5, <2>6 DEF ProcessEntry, ConfigInv, Pcs
  <2>7. CASE pc' = pc
    <3>1. i' = i + 1 /\ fstab' = fstab /\ props' = props
      BY <1>4, <2>1, <2>7 DEF ProcessEntry
    <3>2. sources' \in Seq([entry : 1..MaxEntries, defaultPrimary : BOOLEAN])
      <4>1. sources' \in {sources, Append(sources, SourceOf(fstab, i))}
        BY <1>4, <2>7 DEF ProcessEntry
      <4>. QED
        BY <2>4, <4>1, SourcesAppend DEF ConfigInv
    <3>3. precreated' \in BOOLEAN
      BY <1>4, <2>1, <2>3, <2>7 DEF ProcessEntry, ConfigInv
    <3>. QED
      BY <2>1, <2>2, <2>5, <2>7, <3>1, <3>2, <3>3 DEF ConfigInv
  <2>. QED
    BY <1>4, <2>6, <2>7 DEF ProcessEntry
<1>5. CASE LoopDone
  <2>1. i = Len(fstab) + 1
    BY <1>5 DEF LoopDone, ConfigInv
  <2>. QED
    BY <1>5, <2>1 DEF LoopDone, ConfigInv, Pcs
<1>6. CASE StartService
  BY <1>6 DEF StartService, ConfigInv, Pcs
<1>7. CASE StartNetlink
  BY <1>7 DEF StartNetlink, ConfigInv, Pcs
<1>8. CASE Publish
  BY <1>8 DEF Publish, ConfigInv, Pcs
<1>9. CASE UNCHANGED vars
  BY <1>9 DEF vars, ConfigInv
<1>. QED
  BY <1>1, <1>2, <1>3, <1>4, <1>5, <1>6, <1>7, <1>8, <1>9 DEF Next

-----------------------------------------------------------------------------
(* main's start-up keeps every variable within its type.                   *)
THEOREM MainTypeCorrect == Spec => []TypeOK
<1>1. ConfigInv => TypeOK
  <2>. SUFFICES ASSUME ConfigInv PROVE TypeOK
    OBVIOUS
  <2>1. fstab \in Fstabs
    BY MainAssumption DEF ConfigInv, Fstabs
  <2>2. props \in ConfigRecords \cup {NoProps}
    BY DEF ConfigInv
  <2>. QED
    BY <2>1, <2>2 DEF ConfigInv, TypeOK
<1>. QED
  BY <1>1, InitConfigInv, NextConfigInv, PTL DEF Spec

(***************************************************************************)
(* The vold.has_* properties main publishes after its listeners start are  *)
(* those of the default fstab (all 0 when it cannot be read), with         *)
(* vold.has_adoptable always 0, for every fstab of any length.             *)
(***************************************************************************)
THEOREM PublishedMatchFstab == Spec => []PublishedConfigsMatchFstab
<1>1. ConfigInv => PublishedConfigsMatchFstab
  <2>. SUFFICES ASSUME ConfigInv, props # NoProps PROVE props = FstabFlags(fstab)
    BY DEF PublishedConfigsMatchFstab
  <2>1. pc = "serving" /\ props = FlagsUpTo(fstab, Len(fstab))
    BY DEF ConfigInv
  <2>2. DOMAIN fstab = 1..Len(fstab)
    BY DEF ConfigInv
  <2>. QED
    BY <2>1, <2>2 DEF FlagsUpTo, FstabFlags
<1>. QED
  BY <1>1, InitConfigInv, NextConfigInv, PTL DEF Spec

-----------------------------------------------------------------------------
(* The records process_config registers.                                    *)
SourceRecords == [entry : 1..MaxEntries, defaultPrimary : BOOLEAN]

(* No entry has been passed: the empty list is the list of its sources.     *)
LEMMA ListsSourcesNone ==
    ASSUME NEW f
    PROVE  ListsSources(<<>>, f, 0)
BY DEF ListsSources

(* An entry that is not a disk source leaves the list as it was.            *)
LEMMA ListsSourcesSkip ==
    ASSUME NEW s \in Seq(SourceRecords), NEW f, NEW k \in Nat \ {0},
           ListsSources(s, f, k - 1),
           ~(f[k].vold_managed /\ ~f[k].nonremovable)
    PROVE  ListsSources(s, f, k)
<1>1. \A j \in 1..Len(s) : s[j].entry \in 1..k
  BY DEF ListsSources
<1>2. \A m \in 1..k : f[m].vold_managed /\ ~f[m].nonremovable =>
                        \E j \in 1..Len(s) : s[j].entry = m
  <2>. SUFFICES ASSUME NEW m \in 1..k, f[m].vold_managed /\ ~f[m].nonremovable
                PROVE  \E j \in 1..Len(s) : s[j].entry = m
    OBVIOUS
  <2>1. m # k
    OBVIOUS
  <2>2. m \in 1..(k - 1)
    BY <2>1
  <2>3. \A n \in 1..(k - 1) : f[n].vold_managed /\ ~f[n].nonremovable =>
                              \E i2 \in 1..Len(s) : s[i2].entry = n
    BY DEF ListsSources
  <2>. QED
    BY <2>2, <2>3
<1>. QED
  BY <1>1, <1>2 DEF ListsSources

(* An entry that is a disk source is appended after all the earlier ones.  *)
LEMMA ListsSourcesAppend ==
    ASSUME NEW s \in Seq(SourceRecords), NEW f, NEW k \in Nat \ {0},
           ListsSources(s, f, k - 1),
           f[k].vold_managed /\ ~f[k].nonremovable
    PROVE  ListsSources(Append(s, SourceOf(f, k)), f, k)
<1>. DEFINE x == SourceOf(f, k)
            t == Append(s, x)
<1>1. /\ Len(t) = Len(s) + 1
      /\ \A j \in 1..Len(s) : t[j] = s[j]
      /\ t[Len(s) + 1] = x
  BY AppendProperties
<1>2. x.entry = k /\ x.defaultPrimary = (f[k].no_emulated_sd \/ DebugDefaultPrimary)
  BY DEF SourceOf
<1>3. \A j \in 1..Len(s) : s[j].entry \in 1..(k - 1)
  BY DEF ListsSources
<1>4. \A j \in 1..Len(t) :
        /\ t[j].entry \in 1..k
        /\ f[t[j].entry].vold_managed /\ ~f[t[j].entry].nonremovable
        /\ t[j].defaultPrimary = (f[t[j].entry].no_emulated_sd \/ DebugDefaultPrimary)
  <2>. SUFFICES ASSUME NEW j \in 1..Len(t) PROVE
          /\ t[j].entry \in 1..k
          /\ f[t[j].entry].vold_managed /\ ~f[t[j].entry].nonremovable
          /\ t[j].defaultPrimary = (f[t[j].entry].no_emulated_sd \/ DebugDefaultPrimary)
    OBVIOUS
  <2>1. CASE j \in 1..Len(s)
    <3>1. t[j] = s[j] /\ s[j].entry \in 1..(k - 1)
      BY <1>1, <1>3, <2>1
    <3>2. f[s[j].entry].vold_managed /\ ~f[s[j].entry].nonremovable
          /\ s[j].defaultPrimary = (f[s[j].entry].no_emulated_sd \/ DebugDefaultPrimary)
      BY <2>1 DEF ListsSources
    <3>. QED
      BY <3>1, <3>2
  <2>2. CASE j = Len(s) + 1
    BY <1>1, <1>2, <2>2
  <2>. QED
    BY <1>1, <2>1, <2>2
<1>5. \A j, m \in 1..Len(t) : j < m => t[j].entry < t[m].entry
  <2>. SUFFICES ASSUME NEW j \in 1..Len(t), NEW m \in 1..Len(t), j < m
                PROVE  t[j].entry < t[m].entry
    OBVIOUS
  <2>1. j \in 1..Len(s)
    BY <1>1
  <2>2. CASE m \in 1..Len(s)
    BY <1>1, <2>1, <2>2 DEF ListsSources
  <2>3. CASE m = Len(s) + 1
    BY <1>1, <1>2, <1>3, <2>1, <2>3
  <2>. QED
    BY <1>1, <2>2, <2>3
<1>6. \A m \in 1..k : f[m].vold_managed /\ ~f[m].nonremovable =>
                        \E j \in 1..Len(t) : t[j].entry = m
  <2>. SUFFICES ASSUME NEW m \in 1..k, f[m].vold_managed /\ ~f[m].nonremovable
                PROVE  \E j \in 1..Len(t) : t[j].entry = m
    OBVIOUS
  <2>1. CASE m = k
    BY <1>1, <1>2, <2>1
  <2>2. CASE m # k
    <3>0. m \in 1..(k - 1)
      BY <2>2
    <3>1. PICK j \in 1..Len(s) : s[j].entry = m
      <4>1. \A n \in 1..(k - 1) : f[n].vold_managed /\ ~f[n].nonremovable =>
                                  \E i2 \in 1..Len(s) : s[i2].entry = n
        BY DEF ListsSources
      <4>. QED
        BY <3>0, <4>1
    <3>. QED
      BY <1>1, <3>1
  <2>. QED
    BY <2>1, <2>2
<1>. QED
  BY <1>4, <1>5, <1>6 DEF ListsSources

-----------------------------------------------------------------------------
(* Before the fstab is read no source is registered, and from then on the   *)
(* sources are those of the entries passed.                                 *)
SourcesInv ==
    /\ pc \in {"start", "config"} => sources = <<>>
    /\ SourcesFollowFstab

LEMMA InitSourcesInv == Init => SourcesInv
BY ListsSourcesNone DEF Init, SourcesInv, SourcesFollowFstab, Passed

(* Every step keeps the sources those of the entries passed.                *)
LEMMA NextSourcesInv ==
    ASSUME ConfigInv, SourcesInv, [Next]_vars
    PROVE  SourcesInv'
<1>. DEFINE Later == {"service", "netlink", "publish", "serving"}
<1>0. sources \in Seq(SourceRecords)
  BY DEF ConfigInv, SourceRecords
<1>1. CASE StartManagers
  <2>1. fstab = <<>> /\ sources = <<>> /\ pc' \in {"config", "exited"}
    BY <1>1 DEF StartManagers, ConfigInv, SourcesInv
  <2>2. ListsSources(sources', fstab', Len(fstab'))
    BY <1>1, <2>1, ListsSourcesNone DEF StartManagers
  <2>. QED
    BY <1>1, <2>1, <2>2 DEF StartManagers, SourcesInv, SourcesFollowFstab, Passed
<1>2. CASE ReadFstabFails
  <2>1. fstab = <<>> /\ sources = <<>> /\ pc' = "service"
    BY <1>2 DEF ReadFstabFails, ConfigInv, SourcesInv
  <2>2. ListsSources(sources', fstab', Len(fstab'))
    BY <1>2, <2>1, ListsSourcesNone DEF ReadFstabFails
  <2>. QED
    BY <2>1, <2>2 DEF SourcesInv, SourcesFollowFstab, Passed
<1>3. CASE ReadFstab
  <2>1. sources' = <<>> /\ pc' = "loop" /\ i' = 1
    BY <1>3 DEF ReadFstab, SourcesInv
  <2>2. ListsSources(sources', fstab', i' - 1)
    BY <2>1, ListsSourcesNone
  <2>. QED
    BY <2>1, <2>2 DEF SourcesInv, SourcesFollowFstab, Passed
<1>4. CASE ProcessEntry
  <2>1. pc = "loop" /\ i \in 1..Len(fstab) /\ fstab' = fstab
    BY <1>4 DEF ProcessEntry, ConfigInv
  <2>2. ListsSources(sources, fstab, i - 1)
    BY <2>1 DEF SourcesInv, SourcesFollowFstab, Passed
  <2>3. CASE pc' = "aborted"
    <3>1. i' = i /\ sources' = sources
      BY <1>4, <2>3 DEF ProcessEntry
    <3>. QED
      BY <2>1, <2>2, <2>3, <3>1 DEF SourcesInv, SourcesFollowFstab, Passed
  <2>4. CASE pc' # "aborted"
    <3>1. pc' = "loop" /\ i' = i + 1
      /\ sources' = IF IsDiskSource(fstab[i]) THEN Append(sources, SourceOf(fstab, i))
                    ELSE sources
      BY <1>4, <2>1, <2>4 DEF ProcessEntry
    <3>2. i \in Nat \ {0}
      BY <2>1
    <3>3. ListsSources(sources', fstab, i)
      <4>1. CASE IsDiskSource(fstab[i])
        BY <1>0, <2>2, <3>1, <3>2, <4>1, ListsSourcesAppend DEF IsDiskSource
      <4>2. CASE ~IsDiskSource(fstab[i])
        BY <1>0, <2>2, <3>1, <3>2, <4>2, ListsSourcesSkip DEF IsDiskSource
      <4>. QED
        BY <4>1, <4>2
    <3>. QED
      BY <2>1, <3>1, <3>3 DEF SourcesInv, SourcesFollowFstab, Passed
  <2>. QED
    BY <2>3, <2>4
<1>5. CASE LoopDone
  <2>1. pc = "loop" /\ i = Len(fstab) + 1 /\ pc' = "service"
    BY <1>5 DEF LoopDone, ConfigInv
  <2>2. ListsSources(sources, fstab, i - 1)
    BY <2>1 DEF SourcesInv, SourcesFollowFstab, Passed
  <2>3. i - 1 = Len(fstab)
    BY <2>1 DEF ConfigInv
  <2>. QED
    BY <1>5, <2>1, <2>2, <2>3 DEF LoopDone, SourcesInv, SourcesFollowFstab, Passed
<1>6. CASE StartService \/ StartNetlink \/ Publish
  <2>1. pc \in Later /\ pc' \in Later \cup {"exited"} /\ UNCHANGED <<fstab, sources>>
    BY <1>6 DEF StartService, StartNetlink, Publish
  <2>. QED
    BY <2>1 DEF SourcesInv, SourcesFollowFstab, Passed
<1>7. CASE UNCHANGED vars
  BY <1>7 DEF vars, SourcesInv, SourcesFollowFstab, Passed
<1>. QED
  BY <1>1, <1>2, <1>3, <1>4, <1>5, <1>6, <1>7 DEF Next

(***************************************************************************)
(* For every set of fstab entries and every bound on the fstab, the disk    *)
(* sources process_config has registered are, in fstab order and each      *)
(* once, those of the vold-managed removable entries it has passed, each   *)
(* with the kDefaultPrimary flag of its no_emulated_sd field and the debug *)
(* property.                                                               *)
(***************************************************************************)
THEOREM SourcesFollow == Spec => []SourcesFollowFstab
<1>1. Init => ConfigInv /\ SourcesInv
  BY InitConfigInv, InitSourcesInv
<1>2. ConfigInv /\ SourcesInv /\ [Next]_vars => (ConfigInv /\ SourcesInv)'
  BY NextConfigInv, NextSourcesInv
<1>3. SourcesInv => SourcesFollowFstab
  BY DEF SourcesInv
<1>. QED
  BY <1>1, <1>2, <1>3, PTL DEF Spec
-----------------------------------------------------------------------------
(* Before the fstab is read nothing is pre-created.                         *)
LEMMA InitPrecreated == Init => PrecreatedFollowsFstab
BY DEF Init, PrecreatedFollowsFstab, Passed

(* The entries passed grow by at most entry i, which pre-creates exactly    *)
(* when it is /data with a metadata key directory.                           *)
LEMMA NextPrecreated ==
    ASSUME ConfigInv, PrecreatedFollowsFstab, [Next]_vars
    PROVE  PrecreatedFollowsFstab'
<1>. DEFINE Later == {"service", "netlink", "publish", "serving"}
<1>1. CASE StartManagers \/ ReadFstabFails
  <2>1. fstab = <<>> /\ fstab' = <<>> /\ precreated' = precreated
        /\ pc \in {"start", "config"} /\ pc' \in {"config", "exited", "service"}
    BY <1>1 DEF StartManagers, ReadFstabFails, ConfigInv
  <2>. QED
    BY <2>1 DEF PrecreatedFollowsFstab, Passed
<1>2. CASE ReadFstab
  <2>1. fstab = <<>> /\ pc = "config" /\ precreated' = precreated /\ pc' = "loop" /\ i' = 1
    BY <1>2 DEF ReadFstab, ConfigInv
  <2>2. ~precreated
    BY <2>1 DEF PrecreatedFollowsFstab, Passed
  <2>3. Passed' = 0
    BY <2>1 DEF Passed
  <2>. QED
    BY <2>1, <2>2, <2>3 DEF PrecreatedFollowsFstab
<1>3. CASE ProcessEntry
  <2>1. pc = "loop" /\ i \in 1..Len(fstab) /\ fstab' = fstab
    BY <1>3 DEF ProcessEntry, ConfigInv
  <2>2. precreated <=> \E k \in 1..(i - 1) : fstab[k].data_metadata
    BY <2>1 DEF PrecreatedFollowsFstab, Passed
  <2>3. CASE pc' = "aborted"
    <3>1. i' = i /\ precreated' = precreated
      BY <1>3, <2>3 DEF ProcessEntry
    <3>. QED
      BY <2>1, <2>2, <2>3, <3>1 DEF PrecreatedFollowsFstab, Passed
  <2>4. CASE pc' # "aborted"
    <3>1. pc' = "loop" /\ i' = i + 1 /\ precreated' = (precreated \/ fstab[i].data_metadata)
      BY <1>3, <2>1, <2>4 DEF ProcessEntry, Precreates
    <3>2. (\E k \in 1..i : fstab[k].data_metadata) <=>
            (\E k \in 1..(i - 1) : fstab[k].data_metadata) \/ fstab[i].data_metadata
      BY <2>1
    <3>3. Passed' = i
      BY <2>1, <3>1 DEF Passed
    <3>4. PrecreatedFollowsFstab' <=> (precreated' <=> \E k \in 1..i : fstab[k].data_metadata)
      BY <2>1, <3>3 DEF PrecreatedFollowsFstab
    <3>. QED
      BY <2>2, <3>1, <3>2, <3>4, Zenon
  <2>. QED
    BY <2>3, <2>4
<1>4. CASE LoopDone
  <2>1. pc = "loop" /\ i = Len(fstab) + 1 /\ pc' = "service"
        /\ UNCHANGED <<fstab, precreated>>
    BY <1>4 DEF LoopDone, ConfigInv
  <2>. QED
    BY <2>1 DEF PrecreatedFollowsFstab, Passed
<1>5. CASE StartService \/ StartNetlink \/ Publish
  <2>1. pc \in Later /\ pc' \in Later \cup {"exited"} /\ UNCHANGED <<fstab, precreated>>
    BY <1>5 DEF StartService, StartNetlink, Publish
  <2>. QED
    BY <2>1 DEF PrecreatedFollowsFstab, Passed
<1>6. CASE UNCHANGED vars
  BY <1>6 DEF vars, PrecreatedFollowsFstab, Passed
<1>. QED
  BY <1>1, <1>2, <1>3, <1>4, <1>5, <1>6 DEF Next

(***************************************************************************)
(* For every set of fstab entries and every bound on the fstab, the /data  *)
(* dm device has been pre-created exactly when an entry process_config has *)
(* passed asks for it, whether the loop ran to its end or aborted: neither *)
(* the `continue` for nonremovable entries nor the logical-partition abort *)
(* is placed across the pre-creation.                                       *)
(***************************************************************************)
THEOREM PrecreatedFollows == Spec => []PrecreatedFollowsFstab
<1>1. Init => ConfigInv /\ PrecreatedFollowsFstab
  BY InitConfigInv, InitPrecreated
<1>2. ConfigInv /\ PrecreatedFollowsFstab /\ [Next]_vars => (ConfigInv /\ PrecreatedFollowsFstab)'
  BY NextConfigInv, NextPrecreated
<1>. QED
  BY <1>1, <1>2, PTL DEF Spec
=============================================================================
