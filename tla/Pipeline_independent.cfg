SPECIFICATION Spec
CONSTANTS
    svg = svg
    html = html
    typed = typed
    big = big
    panel = panel
    Layouts = {svg}
    Commands = {stream}
    Backgrounds = {b1, big}
    Internal = internal
    Dims = {internal, panel}
    None = None
    Seen = Seen
    Kind <- MCKind
    Misfits <- MCBigMisfitsPanel
    SourceCount = 2
    SecondaryLayout = svg
    InitialPrograms = {svg}
    CommandTracked = TRUE
    ChannelCap = 4
    MaxRequests = 2
    MaxFaults = 1
    MaxGenerations = 3
INVARIANTS
    BackgroundShown
PROPERTIES
    OtherOutputsUntouched
    ImplementsControl
