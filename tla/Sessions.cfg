\* Connecting and streaming over a bus that changes.
SPECIFICATION Spec
CONSTANTS
    cooler = cooler
    twin = twin
    square = square
    stray = stray
    Devices <- MCDevices
    IdOf <- MCIdOf
    ShapeOf <- MCShapeOf
    Firmwares <- MCFirmwares
    Addresses = {1, 2}
    Nodes = {n1, n2}
    Selections <- MCSelections
    Chunks = 2
    MaxMoves = 3
    MaxFaults = 2
    Nobody = Nobody
    Nowhere = Nowhere
    NoNode = NoNode
CHECK_DEADLOCK FALSE
INVARIANTS
    OutputAuthorized
    ClaimsHeld
    FramesWhole
PROPERTIES
    Recovers
    ImplementsGroup
