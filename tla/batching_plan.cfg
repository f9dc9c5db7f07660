SPECIFICATION FairPlanSpec
CONSTANTS
    MaxItems = 4
    ItemSizes = {2, 3, 7}
    Headers = {4, 13}
    Reserves = {0, 2}
    Positions = {NoPos, 3, 12, 15}
    NoPos = NoPos
    MaxRpcSize = 12
    MaxPos = 15
    VarintLimits = {2, 4, 8, 16}
    Requests <- SmallRequests
CHECK_DEADLOCK FALSE
INVARIANTS
    ChunksFit
    ChunksPartition
    ChunksMaximal
    RejectedEarly
    PositionsStayPositions
    FewestChunks
PROPERTIES
    PlanEnds
