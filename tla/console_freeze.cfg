SPECIFICATION FairSpec
CONSTANTS
  SerialSize = 2
  BackupSize = 2
  FifoSize = 1
  Lengths <- MCLengths
  MaxMessages = 3
  MaxKeys = 1
  Crashes <- NoCrashes
  Uarts <- Quick
PROPERTY WaitEnds
