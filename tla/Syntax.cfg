CONSTANTS
    left = left
    right = right
    lone = lone
    Keys = {left, right, lone}
    Contents <- TwoFiles
    Lines = 2
    Chunk = 0
    Memos = 2
    Budget = 2
    MaxTexts = 2
    None = None
SPECIFICATION FairSpec
INVARIANTS
    StoreConsistent
    AnswersContinue
PROPERTIES
    KeysReleased
    AskedLinesArrive
\* The UI may be at rest.
CHECK_DEADLOCK FALSE
