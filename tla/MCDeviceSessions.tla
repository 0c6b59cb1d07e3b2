--------------------------- MODULE MCDeviceSessions ---------------------------
(* Two displays of one model, a square one, and a Winbond device that talks   *)
(* like a display without having the exact descriptor of one.                 *)
EXTENDS DeviceSessions

CONSTANTS cooler, twin, square, stray

MCDevices == {cooler, twin, square, stray}
MCIdOf == [d \in MCDevices |-> IF d = square THEN 2 ELSE 1]
MCShapeOf == [d \in MCDevices |-> CASE d = square -> "square"
                                     [] d = stray  -> "hid"
                                     [] OTHER      -> "type2"]
MCFirmwares == [d \in MCDevices |-> CASE d = square -> {"pm4sub5", "foreign"}
                                       [] d = cooler -> {"pm58", "pm128", "foreign"}
                                       [] OTHER      -> {"pm58"}]

Selection(mode, targets, forced, profile) ==
    [mode |-> mode, targets |-> targets, forced |-> forced, profile |-> profile]

MCSelections == {Selection("auto", <<>>, FALSE, FALSE),
                 Selection("id", <<1>>, FALSE, TRUE),
                 Selection("all", <<>>, FALSE, FALSE),
                 Selection("targets", <<2, 1>>, FALSE, TRUE),
                 Selection("targets", <<1, 1>>, FALSE, TRUE),
                 Selection("auto", <<>>, TRUE, FALSE)}
===============================================================================
