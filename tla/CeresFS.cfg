CONSTANTS
    RootSectors = 2
    PerSector = 1
    Clusters = 4
    SectorBytes = 2
    MaxOpen = 2
    MaxSize = 4
    Moves <- MCMoves
    Lengths = {3}
    Places = {0, 1}
    MaxStops = 1
    MaxOps = 4
    LooksLike <- MCNothing
    Disks <- MCDisks
    Paths <- MCPaths
    Flags <- MCFlags
    Payloads <- MCPayloads
SPECIFICATION Spec
INVARIANTS ChecksClean ClosedFilesSurvive
PROPERTY FilesSpec
VIEW View
