SPECIFICATION MachineSpec
CONSTANTS
  PAGE_OFFSET = 16
  MODULES_VADDR = 14
  GuestSize = 4
  VMALLOC_END = 22
  HAL_VIRT_START = 22
  MAX_TRUSTED_SIZE = 2
  LastIndex = 24
  LinuxSpan = 5
  RamStart = 10
  InitialMap = 2
  MBPages = 4
  PgdPages = 2
  MaxTable = 2
  UserPmds = {0}
  KernelPmds = {20}
  TablePages <- SmallTablePages
  Mistakes = {16, 40, 42}
  Boards = {"beagleboard", "integratorCP"}
  FlptOffset = 100
  VectorOffset = 8
  ImageSize <- SomeImages
  Addresses = {6, 9, 11, 12, 13, 15, 17}
  UTIL_GUESTS = 5
  MAX_GUESTS = 4
  DataEnd = 0
  MemoryEnd = 27
  Roots = {"root1", "root2"}
  Items = {"item1", "item2", "item3"}
  Wild = "wild"
  Objs = {1, 2, 3, 4}
  SIZE_INITIAL = 2
  Step = 1
  WordBits = 3
  SetSizes = {2, 4}
  Software <- AllTraps
  Args = {"valid", "invalid"}
  ItemCount = 4
  ItemSize = 2
  Pointer = 4
  HeapSize = 12
  BuddySizes = {1, 4, 6}
  W = 16
  Meg = 4
  Regions <- TwoRegions
  MregSizes = {1, 3, 5}
  MaxHeld = 2
INVARIANT ContextOfRunningMode
INVARIANT DomainIsolation
INVARIANT RpcPaired
INVARIANT TrustedRunsForCaller
INVARIANT ReadOnlyExactlyTables
INVARIANT LinearMapTrue
INVARIANT ActiveTableProtected
INVARIANT WildOnlyOutOfTables
INVARIANT BootMapSeparates
INVARIANT GuestsArrive
INVARIANT ContainersHold
INVARIANT NothingLost
INVARIANT LazyConstruction
INVARIANT BuddyHolds
INVARIANT RegionsHold
INVARIANT HeapHolds
PROPERTY AbandonedForGood
PROPERTY ImplementsRpcChannel
PROPERTY ImplementsCache
PROPERTY ImplementsAllocator
PROPERTY RegionsAreAllocator
CHECK_DEADLOCK FALSE
