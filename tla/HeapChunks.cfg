\* Room for up to five blocks; every chunk may be freed at any time.
CONSTANTS
    Base = 100
    Space = 17
    Sizes = {0, 1, 2, 5}
SPECIFICATION Spec
INVARIANTS RowSound
PROPERTIES BlocksKept
