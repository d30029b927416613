SPECIFICATION FairSpec
CONSTANTS
    NumKeys = 3
    TopLayer = 1
    Mods = {"lsft", "lctl"}
    KeyCodes = {"x", "y", "a", "b"}
    Usages <- NoUsages
    KeyMaps <- TapMaps
    TAPPING_TOGGLE = 2
    TAPPING_TERM = 2
    WAITING_BUFFER_SIZE = 4
    TapMax = 2
    TimeMod = 5
PROPERTIES EventsInOrder EventuallySettled
