\* The heap and the data structures, each on a small instance of its own.
SPECIFICATION Spec
CONSTANTS
  Kinds = {"rbtree", "omap", "hashmap", "skiplist", "trie", "vector", "flatmap", "deque", "list", "iheap", "pqueue", "dsu",
           "lru", "multimap", "slotmap", "arena", "pool", "cqueue", "bitset", "bloom", "strbuf", "heap"}
  Items = {1, 2}
  MaxCap = 8
  Counts = {0, 3, 4}
  Wrap = 8
  Start = 1
  Top = 12
  SlLog2 = 1
  FlCount = 4
  MaxRequest = 9
  SizeMax = 15
  Sizes = {0, 1, 4, 5}
  Alignments = {1, 2}
  Stacks = {8, 12}
  Bases = {100, 103}
  Extent = 30
  Addresses = 256
  Requests = {0, 1, 8, 13, 250}
  MaxPieces = 3
  ItemSizes = {3, 6}
  Count = 3
  Things = {1, 2}
  MaxSlots = 4
  GenWrap = 2
  MayLack = {"slots", "free"}
  TableKeys = {1, 2, 3, 4, 5, 6}
  TableValues = {1}
  HashOf <- MCHashes
  InitialCaps = {0, 8}
  MaxTable = 16
INVARIANTS
  MapsHold
  SequencesHold
  HandlesHold
  RingsHold
  HeapHolds
  TableHolds
PROPERTIES
  ContentsKept
  LoopMeetsAll
\* A structure may fill its bounds with nothing left to do.
CHECK_DEADLOCK FALSE
