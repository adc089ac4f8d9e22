CONSTANTS
    Entries <- MCEntries
    MaxEntries = 2
    DebugDefaultPrimary = FALSE
SPECIFICATION Spec
INVARIANT TypeOK
INVARIANT PublishedConfigsMatchFstab
INVARIANT SourcesFollowFstab
INVARIANT PrecreatedFollowsFstab
CHECK_DEADLOCK FALSE
