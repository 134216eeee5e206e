\* Sector 5 lies beyond what a standard card is addressed by: 5 * 4 >= 16.
SPECIFICATION FairSpec
CONSTANTS
  Sectors = {0, 1, 3, 5}
  SectorBytes = 4
  AddressRange = 16
  PowerBytes = 10
  ResponseLimit = 3
  InitRetries = 3
INVARIANT GapBeforeCommand
INVARIANT CardAgrees
PROPERTY IsSectorReader
PROPERTY BusyEnds
