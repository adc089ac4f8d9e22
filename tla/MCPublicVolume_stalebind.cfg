CONSTANTS
    v1 = v1
    v2 = v2
    u1 = u1
    u2 = u2
    u3 = u3
    Vols = {v1}
    Users = {u1, u2, u3}
    NoUser = NoUser
    MountUser <- MCMountUser
    SharedStorageUser <- MCSharedStorageUser
    StartedUsers = {u1, u2, u3}
    Primary = {v1}
    VfatSupported = TRUE
    ExfatSupported = TRUE
    UseSdcardFs = TRUE
    HasMountCallback = TRUE
    PollIntervalMs = 50
    SpinUpTimeoutMs = 100
    MaxMounts = 3
    DevSize <- MCDevSize
    BytesPerMiB = 1
SPECIFICATION Spec
CHECK_DEADLOCK FALSE
INVARIANT NoStaleSiblingBind
