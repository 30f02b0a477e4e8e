SPECIFICATION Spec
CONSTANTS
  Letters <- MCLetters
  Shifts <- MCShifts
  Silent <- MCSilent
  Pids <- MCPids
  BufferSize = 1
  WireSize = 3
  MaxLetters = 2
  MaxSilent = 1
  Garbled <- FirstByte
  MaxGarbled = 1
INVARIANT OnlyAnswersAwaited
INVARIANT SpeaksSet3
INVARIANT KeysAreDecoded
INVARIANT OwnKeysInOrder
