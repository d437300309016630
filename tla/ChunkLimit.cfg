CONSTANTS
    Shapes <- ChunkShapes
    Title <- ChunkTitle
    MaxLines = 4
    ChunkChars = 8
    Overlap = 2
    TailFloor = 1
    TailCap = 3
    SectionFloor = 3
    RoomFloor = 1
SPECIFICATION ChunkSpec
INVARIANT WithinLimit
CHECK_DEADLOCK FALSE
