CONSTANTS
    Threads = {"w2"}
    SinkNames = {"file", "net"}
    MaxEntries = 2
    MaxChanges = 2
    Disciplined = TRUE
    MaxVersions = 4
    MaxFaults = 2
    Ignored = {"c"}
    Kinds = {"file", "memory"}
    OffsetRange = 12
    BufferSize = 2
    MaxStreams = 2
    MaxOpened = 2
    Names = {"a", "b"}
    MaxTime = 7
    MaxFailures = 1
    Aliases = {"x"}
    Dirs <- MCDirs
    Packs <- MCPacks
    k_block_size = 16
    LengthSize = 2
    Pieces = {0, 1, 3, 13, 15, 16, 40}
    MaxFed = 60
    MaxFd = 6
SPECIFICATION MCSpec
CHECK_DEADLOCK FALSE
INVARIANT SaveSafe
INVARIANT PacksExact
INVARIANT FilesFound
INVARIANT DigestOfMessage
INVARIANT FdExclusive
INVARIANT LogSound
PROPERTY AllDelivered
