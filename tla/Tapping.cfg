SPECIFICATION Spec
CONSTANTS
    NumKeys = 3
    TopLayer = 1
    Mods = {"lsft", "lctl"}
    KeyCodes = {"x", "y", "a", "b"}
    Usages <- MiscUsages
    KeyMaps <- AllMaps
    TAPPING_TOGGLE = 3
    TAPPING_TERM = 3
    WAITING_BUFFER_SIZE = 12
    TapMax = 4
    TimeMod = 8
INVARIANTS TypeOK NothingStuck
PROPERTIES EventsInOrder ModsRetained ReleaseOnPressLayer NoOvertaking OneShotReachesKey
