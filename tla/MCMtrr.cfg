SPECIFICATION Spec
CONSTANTS
    Cpus = {1, 2}
    Bsp = 1
    RANGE_1MB = 2
    RANGE_4GB = 16
    AddressBits = 5
    NUM_MTRR_STATIC_STORAGE = 4
    MaxResources = 3
    Capabilities <- MCCapabilities
    Edges <- MCEdges
    RomSizes <- MCRomSizes
INVARIANTS
    TypeOK
    TypesRight
    SameForTheOS
