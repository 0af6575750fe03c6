CONSTANTS
    k1 = k1
    k2 = k2
    k3 = k3
    Key = {k1, k2, k3}
    NoKey = NoKey
    Value = {1, 2}
    NoValue = 0
    Hash <- Colliding
    InsertPair <- OneEach
    UpdatePair <- NewValue
    MINIMAL_POWER2 = 1
    MAX_POWER2 = 3
    MAX_POWER2_FOR_TABLES_WITHOUT_BINS = 1
    InitialSize = {0}
    Calls = {"delete", "shift", "shift_empty", "clear", "foreach"}
SPECIFICATION Spec
SYMMETRY Symmetry
INVARIANTS
    BinsFindEntries
PROPERTIES
    ImplementsDict
