\* Every run of validate-device against a bus where displays come and go.
SPECIFICATION Spec
CONSTANTS
    cooler = cooler
    twin = twin
    square = square
    a1 = a1
    a2 = a2
    a3 = a3
    hidId = hidId
    bulkId = bulkId
    Nobody = Nobody
    Nowhere = Nowhere
    Displays <- MCDisplays
    IdOf <- MCIdOf
    ShapeOf <- MCShapeOf
    Attached <- MCAttached
    Addresses = {a1, a2, a3}
    Device = hidId
    Firmwares <- MCFirmwares
    BuildKinds = {"clean"}
    SoakFrames = 1
    MaxMoves = 2
    MaxAhead = 1
CHECK_DEADLOCK FALSE
INVARIANTS
    PassIsEarned
    OutputAuthorized
    DaemonAsFound
PROPERTIES
    Ends
