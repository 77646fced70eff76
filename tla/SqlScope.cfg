CONSTANTS
    noSelect = noSelect
    NotSelect = noSelect
    Texts <- Parsed
    Published <- Views
    Joined <- Texted
    AllowedFunctions <- Functions1
    AllowedOperators <- Operators1
    AllowedTypes <- Types1
    UnqualifiedTypes <- Bare
    AllowedValues <- Values1
    Fold <- Folded
SPECIFICATION Spec
CHECK_DEADLOCK FALSE
INVARIANTS
    OnlyViewsAndCtes
    OnlyReads
    ObjectsAreCollected
