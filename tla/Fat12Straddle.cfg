\* The entry of cluster 3 lies half in one FAT sector and half in the next.
SPECIFICATION Spec
CONSTANTS
  Nibble = 3
  SectorBytes = 5
  SectorUnits = 2
  EntriesPerSector = 1
  FatSectors = 2
  NumFats = 2
  RootSectors = 3
  DataSectors = 4
  SectorsPerCluster = 1
  Names = {"a", "b", "c"}
  Short <- AllShort
  Contents <- SomeContents
  Garbage = {0}
INVARIANT ReadsEntirely
