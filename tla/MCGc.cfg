CONSTANTS
    s1 = s1
    s2 = s2
    s3 = s3
    Pages <- OneSlotPages
    RVALUE_OLD_AGE = 2
    MaxRefs = 1
SYMMETRY Symmetry
SPECIFICATION Spec
INVARIANTS
    LiveObjectsSurvive
    FullMarkingIsExact
    NoBlackToWhite
    OldToYoungIsRemembered
    BitsAgree
