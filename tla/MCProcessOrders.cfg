SPECIFICATION MCSpec
CONSTANT
    Ids = {1, 2}
INVARIANTS
    FinishedSectionsAreComplete
    AccountsAreWhole
CHECK_DEADLOCK FALSE
