SPECIFICATION Spec
CONSTANTS
    Locks = {caps, num, scroll}
INVARIANT TypedOnce
