\* Two processes that race and crash; the defaults and one other set of
\* preferences, so that a save can be told from the one before it.
CONSTANTS
    Processes = {p1, p2}
    Prefs = {Default, Edited}
    Default = Default
    Malformed = Malformed
    Torn = Torn
    None = None
SPECIFICATION Spec
SYMMETRY ProcessSymmetry
INVARIANTS
    SavedSurvives
    LeftoversExplained
PROPERTIES
    ImplementsSafeFile
