CONSTANTS
    k1 = k1
    k2 = k2
    k3 = k3
    Key = {0, 1, 2, 3}
    NoKey = 4
    Value = {1}
    NoValue = 0
    Hash <- Ident
    InsertPair <- AllPairs
    UpdatePair <- NoPair
    MINIMAL_POWER2 = 1
    MAX_POWER2 = 3
    MAX_POWER2_FOR_TABLES_WITHOUT_BINS = 0
    InitialSize = {0}
    Calls = {"shift", "shift_empty"}
SPECIFICATION Spec
INVARIANTS
    SearchesEnd
