SPECIFICATION Spec
CONSTANTS
  SectorSize <- Sectors
  KiB <- Words
  DirectBlocks <- Direct
  DescriptorSize <- Descriptor
  Numbers = 65536
  Paths <- Searched
  Formatted <- Disks
  Lengths = {0, 10, 16, 17, 32, 50, 272, 273}
INVARIANT LookUpFindsTree
INVARIANT ReadIsWhole
INVARIANT ListIsTree
INVARIANT StopsAtLimitsOnly
