SPECIFICATION Spec
CONSTANTS
    Codes = {a}
    NoKey = NoKey
    N = 6
    CountMod = 256
    MaxClears = 260
INVARIANT ReleaseClears
