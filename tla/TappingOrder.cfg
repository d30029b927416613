SPECIFICATION Spec
CONSTANTS
    NumKeys = 3
    TopLayer = 1
    Mods = {"lsft", "lctl"}
    KeyCodes = {"x", "y", "a", "b"}
    Usages <- NoUsages
    KeyMaps <- TapMaps
    TAPPING_TOGGLE = 2
    TAPPING_TERM = 4
    WAITING_BUFFER_SIZE = 8
    TapMax = 2
    TimeMod = 12
PROPERTY EventsInOrder
