------------------------- MODULE MCDeviceValidation --------------------------
(* A cooler, a twin with the same VID:PID, and a square display of another. *)
EXTENDS DeviceValidation

CONSTANTS cooler, twin, square, a1, a2, a3, hidId, bulkId

MCDisplays == {cooler, twin, square}
MCIdOf == [d \in MCDisplays |-> IF d = square THEN bulkId ELSE hidId]
MCShapeOf == [d \in MCDisplays |-> CASE d = cooler -> "type2exact"
                                     [] d = twin -> "otherHid"
                                     [] OTHER -> "bulk"]
MCAttached == [d \in MCDisplays |-> CASE d = cooler -> {a1}
                                      [] d = twin -> {a2, Nowhere}
                                      [] OTHER -> {a3, Nowhere}]
MCFirmwares == [d \in MCDisplays |-> IF d = cooler THEN Protocols
                                     ELSE {"pm58"}]
==============================================================================
