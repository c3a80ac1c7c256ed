SPECIFICATION MmSpec
CONSTANTS
  PAGE_OFFSET = 16
  MODULES_VADDR = 14
  GuestSize = 4
  VMALLOC_END = 22
  HAL_VIRT_START = 22
  MAX_TRUSTED_SIZE = 2
  LastIndex = 24
  LinuxSpan = 5
  RamStart = 10
  InitialMap = 2
  MBPages = 4
  PgdPages = 2
  MaxTable = 2
  UserPmds = {0}
  KernelPmds = {20}
  TablePages <- SmallTablePages
  Mistakes = {}
INVARIANT NothingBelowKernel
