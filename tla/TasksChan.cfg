CONSTANTS
    TaskMax = 3
    IdMod = 6
    TimeMod = 8
    Chans = {c1}
    Msgs = {m1, m2}
    NoMsg = NoMsg
    Capacities = {1, 2}
    Naps = {}
    Blocks = {1, 2}
    Tops = {3}
    MaxGen = 1
    MaxTime = 0
    Null = Null
SPECIFICATION Spec
INVARIANT IInv
PROPERTIES DeadlockIsReal ChannelsAreQueues
SYMMETRY MsgSymmetry
