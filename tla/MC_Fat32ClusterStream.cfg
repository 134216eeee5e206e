\* Two clusters whose FAT entries lie in different sectors, of two entries each.  An
\* entry is two base-8 digits: 32 + 4 is a link to cluster 4, and 32 + 24 the end of
\* a chain, with a reserved bit set.
SPECIFICATION FairSpec
CONSTANTS
  SectorBytes = 4
  EntryBytes = 2
  Base = 8
  Mask = 32
  BadCluster = 23
  EndOfChain = 24
  Clusters = {3, 4}
  FatEntries = {0, 3, 36, 23, 56}
  FatLba = 0
  DataLba = 3
  ClusterSizes = {1, 2}
  FirstClusters = {0, 3, 4}
  Limits = {0, 1, 8, 9}
  MaxClusters = 3
INVARIANTS AgreesWithReference LimitKept EndIsHonest
PROPERTIES OperationEnds
