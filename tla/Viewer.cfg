SPECIFICATION Spec
CONSTANTS
    Reads <- MCReads
    IgnoreTrimWhitespace = TRUE
    Areas <- MCAreas
    Starts <- MCStarts
    Moves <- MCMoves
    MaxEvents = 3
INVARIANTS
    TextIsShownOnce
    ScreenShowsTheRows
    PlaceIsRestored
    InkFollowsTheDiff
PROPERTIES
    DrawingSettles
CHECK_DEADLOCK FALSE
