SPECIFICATION FairSpec
CONSTANTS
    MaxTasks = 2
    Half = 4
    MaxTicks = 2
    MaxDepth = 2
INVARIANT IInv
PROPERTIES RunsInOrder PollsAreThorough OneShotsRun
