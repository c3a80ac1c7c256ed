SPECIFICATION Spec
CONSTANTS
  DigitBits = 2
  CharBits = 1
  DefPrec = 2
  XDigits = 2
  YDigits = 1
  ZValue = 5
  Spare = 1
INVARIANT RoomForCarry
CHECK_DEADLOCK FALSE
