SPECIFICATION FairSpec
CONSTANTS
    svg = svg
    html = html
    typed = typed
    big = big
    panel = panel
    Layouts = {svg}
    Commands = {stream}
    Backgrounds = {}
    Internal = internal
    Dims = {internal, panel}
    None = None
    Seen = Seen
    Kind <- MCKind
    Misfits <- MCNoMisfits
    SourceCount = 1
    SecondaryLayout = svg
    InitialPrograms <- MCAllPrograms
    CommandTracked = TRUE
    ChannelCap = 2
    MaxRequests = 2
    MaxFaults = 2
    MaxGenerations = 6
INVARIANTS
    SourcesServe
    AckedProgramShown
PROPERTIES
    EveryCallAnswered
    Reconnects
