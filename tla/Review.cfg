CONSTANTS
    Paths = {p}
    Texts = {a, b}
    Committed = a
    Counts <- LineCounts
    MaxChanges = 2
    MaxOpens = 2
    None = None
SPECIFICATION FairSpec
INVARIANTS
    ListFresh
    ViewFresh
PROPERTY
    Settles
\* Nothing may be left to do.
CHECK_DEADLOCK FALSE
