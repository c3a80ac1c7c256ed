SPECIFICATION TrustedSpec
CONSTANTS
  DigitBits = 2
  CharBits = 1
  DefPrec = 2
  XDigits = 1
  YDigits = 1
  ZValue = 5
  Spare = 1
  BlockSize = 3
  BfrBlocks = 2
  Total = 11
  MaxBytes = 10
  MaxFiles = 2
  Keys <- SomeKeys
  Blocks <- SomeBlocks
  Messages <- SomeMessages
  WordBytes1 = 2
  WordBytes2 = 4
  BlockWords = 4
  CountSpan = 32
  Pieces = {1, 3, 9, 20}
  MaxMessage = 42
  Base = 4
  K = 5
  MinPad = 1
  DerLen = 1
  HashLen = 1
  Modulus = 899
  PublicE = 11
  PrivateD = 611
  HeapRoom = 12
  MessageRoom = 2
  RsaRoom = 4
  Randoms = {1, 2}
  Tails <- SomeTails
  Seeds = {2147483647}
  MaxDraws = 21
INVARIANT IsOctetString
CHECK_DEADLOCK FALSE
