SPECIFICATION FairSpec
CONSTANTS
  SerialSize = 2
  BackupSize = 2
  FifoSize = 1
  Lengths <- MCLengths
  MaxMessages = 5
  MaxKeys = 1
  Crashes <- AnyCrashes
  Uarts <- SlowOrLagging
INVARIANT WindowHoldsLock
INVARIANT NobodySpinsOnLock
INVARIANT SerialMirrorsVga
INVARIANT ShownInOnePiece
INVARIANT HaltedIsFlushed
PROPERTY ImplementsOutputLog
PROPERTY PanicHalts
PROPERTY SlowWaitEnds
