\* Composing, saving and activating layouts beside another editor.
SPECIFICATION Spec
CONSTANTS
    n1 = n1
    n2 = n2
    b1 = b1
    b2 = b2
    square = square
    round = round
    Names <- MCNames
    Bodies <- MCBodies
    Profiles <- MCProfiles
    Square = square
    None = None
    Torn = Torn
    MaxEdits = 2
    MaxEvents = 1
    MaxPreviews = 2
CHECK_DEADLOCK FALSE
INVARIANTS
    SavedTruthful
    PreviewFresh
    ActiveMeansShown
PROPERTIES
    EditsKept
    BusyEnds
