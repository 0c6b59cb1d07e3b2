\* Every document on every surface, three calls, and media files that others
\* edit twice.  Deadlock is off: the calls are bounded.
SPECIFICATION Spec
CONSTANTS
    None = None
    Outside = Outside
    Unreadable = Unreadable
    c1 = c1
    c2 = c2
    huge = huge
    Contents = {c1, c2, huge}
    ImageSize <- MCImageSize
    DeclaredKeys = {"cpu_temp", "net_rx"}
    SENSOR_ALIASES <- MCAliases
    Paths = {1, 2}
    Documents <- MCDocuments
    MaxEdits = 2
    MaxCalls = 3
SYMMETRY Symmetry
CHECK_DEADLOCK FALSE
INVARIANTS
    PlacedApart
    FrameFresh
    CacheBounded
