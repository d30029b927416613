SPECIFICATION StepSpec
CONSTANTS
    Codes = {a, b, c, d}
    NoKey = NoKey
    N = 3
    CountMod = 16
    MaxClears = 2
INVARIANTS SoundWhenIdle ReleasedWhenIdle
PROPERTIES CallsReturn AtomicUnlessCut
