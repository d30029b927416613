SPECIFICATION FairSpec
CONSTANTS
    Rows = 2
    Cols = 1
    DEBOUNCE = 5
INVARIANT NothingPending
PROPERTIES RefinesScanEvents NoGlitch SettlesOnContacts
