SPECIFICATION Spec
CONSTANTS
    LastCluster = 8
    FatPerSector = 2
    RootEntries = 3
    DeEntries = 1
    Names = {"a", "b"}
    MaxFileSizeInSectors = 2
    MaxSaves = 4
    MaxLosses = 3
INVARIANTS TypeOK Durable FilesWhole ChainsAscend
CHECK_DEADLOCK FALSE
