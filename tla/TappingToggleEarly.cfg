SPECIFICATION Spec
CONSTANTS
    NumKeys = 3
    TopLayer = 1
    Mods = {"lsft", "lctl"}
    KeyCodes = {"x", "y", "a", "b"}
    Usages <- NoUsages
    KeyMaps <- ToggleBesideMaps
    TAPPING_TOGGLE = 5
    TAPPING_TERM = 3
    WAITING_BUFFER_SIZE = 8
    TapMax = 15
    TimeMod = 8
INVARIANT NothingStuck
