SPECIFICATION Spec
CONSTANTS
    LowerRank <- MCLowerRank
    ByteRank <- MCByteRank
    TextOf <- MCTextOf
    Lists <- MCLists
    Texts = {"one", "two"}
    Screens <- MCScreens
    ExplorerWidth = 10
    TreeFirst = TRUE
    Keys <- MCKeys
    Points <- MCPoints
    MaxEvents = 3
    MaxBatch = 2
INVARIANTS
    ListShowsTheFiles
    EveryRowIsDrawn
    KeysHaveATarget
PROPERTIES
    CursorKeepsItsItem
CHECK_DEADLOCK FALSE
