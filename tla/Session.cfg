\* The keys: the quit key of every machine, one that moves the cursor as well.
CONSTANTS
    KeyOf <- MCKeyOf
    BlankNames = {"", " "}
    Machines <- MCMachines
    Presses = {"q", "j"}
    Signals = {1, 15}
    MaxEvents = 3
SPECIFICATION FairSpec
INVARIANTS
    TerminalIsGivenBack
    StartFollowsTheMachine
PROPERTIES
    RequestsEnd
\* A program that has ended stays ended.
CHECK_DEADLOCK FALSE
