SPECIFICATION FairSpec
CONSTANTS
    gauges = gauges
    clock = clock
    plain = plain
    image = image
    cool = cool
    warm = warm
    DisplayCount = 3
    Setups <- MCSound
    Texts <- MCTexts
    Animated <- MCAnimated
    Images <- MCImages
    Readings <- MCReadings
    None = None
    Blank = Blank
    MaxChanges = 2
    MaxFaults = 2
INVARIANTS
    Truthful
PROPERTIES
    DisplaysCatchUp
