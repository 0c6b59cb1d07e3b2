\* A stream tab and a tray against one daemon.
SPECIFICATION StreamSpec
CONSTANTS
    MaxTries = 3
    Taken <- MCTaken
    MaxCalls = 3
    MaxEnds = 1
INVARIANTS
    ProcessesOwned
    NoStaleFrame
PROPERTIES
    EndNoticed
