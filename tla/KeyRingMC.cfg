SPECIFICATION Spec
CONSTANTS
    Codes = {a, b, c, d, e}
    NoKey = NoKey
    N = 4
    CountMod = 16
    MaxClears = 2
INVARIANTS NoDuplicates HeldIsScanned CountCoversHeld ReleaseClears
PROPERTIES MatchesLoops RefinesHeldKeys
SYMMETRY CodeSymmetry
