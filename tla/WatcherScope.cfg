CONSTANTS
    a = a
    Dirs = {a}
    Info = info
    ParentOf <- Flat
    Root = root
    RootBits = {index}
    Rules = {r}
    RulePlaces = {root}
    Matches <- NameOfA
    Excluded = {}
    QueueCapacity = 2
    KernelCapacity = 2
    MaxBatch = 1
SPECIFICATION Spec
INVARIANT RecreatedIsWatched
\* The worker stops with its subscription or with its receiver.
CHECK_DEADLOCK FALSE
