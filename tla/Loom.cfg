CONSTANTS
    Types <- MCTypes
    Root = "root"
    Parts <- MCParts
    Keyed = {"bar"}
    Given = {"view"}
    Memo = {"panel", "view"}
    Offering = {"root"}
    Reading = {"view"}
    Asking = {"view"}
    Measuring = {"panel"}
    Writable = {"root", "panel"}
    Values = {0, 1, 2}
    Start <- MCStart
    Rounds = 2
    Extra = 1
    MaxWrites = 5
    None = None
SPECIFICATION Spec
INVARIANTS
    TreeSound
    NothingLost
    EffectsMatch
    ShowsItsAnswer
PROPERTY
    AnswersFit
\* The loop may wait for ever.
CHECK_DEADLOCK FALSE
