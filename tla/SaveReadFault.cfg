CONSTANTS
    Half = 2
    Sizes = {1, 2}
    ReadFaults = TRUE
    MaxWrites = 3
SPECIFICATION Spec
PROPERTY SparesNewest
