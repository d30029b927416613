SPECIFICATION Spec
CONSTANTS
    Layers = 2
    Rows = 1
    Cols = 1
    MacroSize = 1
    ConfigSize = 1
    Word = 1
    Packet = 3
    PageSize = 1
    Bytes = {0, 1}
    Erased = 1
    Masks = {{"keymap"}}
    LookedUp = {}
PROPERTY SingleKeyOnly
