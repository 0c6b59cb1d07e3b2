\* One display: layouts, streams, a GPU that fails and comes back.
SPECIFICATION Spec
CONSTANTS
    l1 = l1
    l2 = l2
    Displays = 1
    Layouts <- MCLayouts
    Stream = Stream
    Fixed <- MCFixed
    Tokens <- MCTokens
    Chips <- MCChips
    CpuChips <- MCCpuChips
    ChipKey <- MCChipKey
    None = None
    Machines <- MCMachines
    Range = 3
    Uses = {1}
    MaxChanges = 1
    EmptyLimit = 3
INVARIANTS
    OneNvmlThread
    RatesTruthful
PROPERTIES
    NeededRead
    GpuReturns
