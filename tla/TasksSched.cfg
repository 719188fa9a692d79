\* Three tasks that spawn, yield, sleep, join and finish while the heap moves.
CONSTANTS
    TaskMax = 3
    IdMod = 12
    TimeMod = 16
    Chans = {}
    Msgs = {}
    NoMsg = NoMsg
    Capacities = {}
    Naps = {1, 2}
    Blocks = {1, 2}
    Tops = {2, 3, 4}
    MaxGen = 2
    MaxTime = 3
    Null = Null
SPECIFICATION Spec
INVARIANTS IInv StacksOwned LiveIdIsFound
PROPERTY SleepsAtLeast
