SPECIFICATION SlabSpec
CONSTANTS
  ItemCount = 4
  ItemSize = 2
  Pointer = 4
INVARIANT ObjectsInItem
