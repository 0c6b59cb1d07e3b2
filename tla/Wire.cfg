\* Every panel, rotation and payload length; two lost answers or short writes.
\* Deadlock is off: a session that was refused or broke is replaced elsewhere.
SPECIFICATION WireSpec
CONSTANTS
    Unset = Unset
    Devices <- MCDevices
    Canvases <- MCCanvases
    JpegLengths <- MCJpegLengths
    MaxLosses = 2
CHECK_DEADLOCK FALSE
INVARIANTS
    FramesAccepted
    Pictured
    Reassembled
