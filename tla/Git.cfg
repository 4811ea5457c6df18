SPECIFICATION Spec
CONSTANTS
    PathOrder <- MCPathOrder
    Texts = {t, u, b}
    Binaries = {b}
    Counts <- MCCounts
    MaxChanges = 2
SYMMETRY Symmetry
INVARIANTS
    ListIsFaithful
    EntriesShowTheirSides
    ToggleMovesTheEntry
CHECK_DEADLOCK FALSE
