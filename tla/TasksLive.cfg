CONSTANTS
    TaskMax = 3
    IdMod = 9
    TimeMod = 8
    Chans = {}
    Msgs = {}
    NoMsg = NoMsg
    Capacities = {}
    Naps = {1}
    Blocks = {1, 2}
    Tops = {3}
    MaxGen = 2
    MaxTime = 1
    Null = Null
SPECIFICATION FairSpec
PROPERTIES EveryoneRuns JoinReturns
