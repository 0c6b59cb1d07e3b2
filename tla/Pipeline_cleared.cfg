SPECIFICATION Spec
CONSTANTS
    svg = svg
    html = html
    typed = typed
    big = big
    panel = panel
    Layouts = {svg}
    Commands = {}
    Backgrounds = {b1}
    Internal = internal
    Dims = {internal}
    None = None
    Seen = Seen
    Kind <- MCKind
    Misfits <- MCNoMisfits
    SourceCount = 1
    SecondaryLayout = svg
    InitialPrograms <- MCLayouts
    CommandTracked = TRUE
    ChannelCap = 4
    MaxRequests = 1
    MaxFaults = 1
    MaxGenerations = 6
INVARIANTS
    ClearedBackgroundGone
