\* A third file for a directory of two entries.
SPECIFICATION SysSpec
CONSTANTS
  Nibble = 3
  SectorBytes = 6
  SectorUnits = 2
  EntriesPerSector = 1
  FatSectors = 1
  NumFats = 1
  RootSectors = 3
  DataSectors = 2
  SectorsPerCluster = 1
  Names = {"a", "b", "c"}
  Short <- AllShort
  Contents <- FileData
  Garbage = {0}
  MAX_FDS = 2
  Lengths = {0, 1}
  Offsets = {0, 3}
  High = {0, 1}
INVARIANT ReadBack
