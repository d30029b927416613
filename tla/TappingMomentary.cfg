SPECIFICATION Spec
CONSTANTS
    NumKeys = 3
    TopLayer = 1
    Mods = {"lsft", "lctl"}
    KeyCodes = {"x", "y", "a", "b"}
    Usages <- NoUsages
    KeyMaps <- MomentaryMaps
    TAPPING_TOGGLE = 2
    TAPPING_TERM = 3
    WAITING_BUFFER_SIZE = 8
    TapMax = 3
    TimeMod = 8
PROPERTY ReleaseOnPressLayer
