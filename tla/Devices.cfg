\* Streams and devices, each on a small instance of its own.
SPECIFICATION Spec
CONSTANTS
  Kinds = {"stream", "memory", "waits", "music", "keys", "lines", "input", "mmu", "ending", "environ", "media"}
  Chars = {0, 1}
  MaxSize = 3
  Bufsiz = 2
  Sizes = {1, 3}
  Offsets <- FewOffsets
  Contents <- OneFile
  MaxText = 4
  MemChars = {1, 2}
  MemSize = 3
  Buffers <- TwoBuffers
  MaxNow = 5
  Deadlines = {2, 4}
  Spaces = {1, 2}
  PerTable = 2
  Flags = {{"write"}, {"exec"}}
  Lengths = {2}
  Moves = {0}
  Channels = {1, 2}
  Songs <- TheSongs
  Durations = {1, 2}
  Priorities = {1, 2}
  MaxTime = 4
  Keeps = {{}, {0, 1, 2, 3}}
  AtexitSlots = 2
  MaxCalls = 5
  Names = {"a", "b", "c"}
  Values = {"v"}
  Loaded <- EnvLoaded
  Spare = 2
  MaxSets = 5
  Ports = {0, 1, 2}
  Sectors = 2
  Words = {1}
INVARIANTS
  StreamsHold
  NoLostWakeup
  OwnAlarmKept
  InputTells
  SoundsRight
  SpacesHold
  SurroundingsHold
\* Programs end, devices fall silent and the models' clocks stop: a state with no step is no error.
CHECK_DEADLOCK FALSE
