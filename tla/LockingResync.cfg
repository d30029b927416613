SPECIFICATION Spec
CONSTANTS
    Locks = {caps, num, scroll}
PROPERTY Resynchronized
