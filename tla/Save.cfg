CONSTANTS
    Half = 2
    Sizes = {1, 2}
    ReadFaults = FALSE
    MaxWrites = 5
SPECIFICATION Spec
INVARIANTS IInv SaveSurvives
PROPERTIES SparesNewest SavesAreAtomic
