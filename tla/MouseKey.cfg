SPECIFICATION Spec
CONSTANTS
    Codes = {"UP", "LEFT", "RIGHT", "WH_UP", "BTN1", "ACCEL0"}
    MOVE_DELTA = 5
    MAX_SPEED = 3
    TIME_TO_MAX = 3
    WHEEL_DELTA = 1
    WHEEL_MAX_SPEED = 2
    WHEEL_TIME_TO_MAX = 3
    SPEED_MAX = 12
    Delay = 3
    Interval = 2
    MinPass = 1
    MaxPass = 3
    UINT8_MAX = 4
    TimeMod = 9
INVARIANTS
    MovesAsHeld
    RestsSlow
    NeverStalls
PROPERTY NeverHastens
