SPECIFICATION Spec
CONSTANTS
  W = 16
  Meg = 4
  MaxHeld = 1
  Sizes = {1, 8}
  Regions <- SmallRegions
INVARIANT OnlyAttached
CHECK_DEADLOCK FALSE
