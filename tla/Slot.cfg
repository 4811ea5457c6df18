\* Three distinct requests: running, waiting and newest can all differ.
CONSTANTS
    Requests = {r1, r2, r3}
    Empty = Empty
SPECIFICATION FairSlot
INVARIANTS
    NoLostWakeup
PROPERTIES
    NewestServed
    DropStopsBusyWorker
    ImplementsMailbox
\* A worker asleep on a dropped slot has stopped for good.
CHECK_DEADLOCK FALSE
