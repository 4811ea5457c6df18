\* One directory, which comes with a rule file or without and may be ignored by
\* the root's; beside it a change of a file in the root, which no rule hides.
CONSTANTS
    a = a
    Dirs = {a}
    Info = info
    ParentOf <- Flat
    Root = root
    RootBits = {"worktree"}
    Rules = {r}
    RulePlaces = {root, a}
    Matches <- NameOfA
    Excluded = {}
    QueueCapacity = 1
    KernelCapacity = 1
    MaxBatch = 1
SPECIFICATION FairSpec
INVARIANTS
    Carried
    ScopeIsCurrent
PROPERTIES
    ToldUnderLoad
    UnsubscribeStops
\* The worker stops with its subscription or with its receiver.
CHECK_DEADLOCK FALSE
