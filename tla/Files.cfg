\* Four clusters, all on the disk, whose FAT entries fit one sector; a directory of
\* two files, two descriptors.
SPECIFICATION MCSpec
CONSTANTS
  Nibble = 3
  SectorBytes = 10
  SectorUnits = 2
  EntriesPerSector = 1
  FatSectors = 1
  NumFats = 2
  RootSectors = 3
  DataSectors = 4
  SectorsPerCluster = 1
  Names = {a, b, c}
  Short <- AllShort
  Contents <- LargeData
  Garbage = {0}
  MAX_FDS = 2
  Lengths = {0, 1}
  Offsets = {0, 3}
  High = {0, 1}
SYMMETRY NameSymmetry
INVARIANTS
  ChainsDisjoint
  NoLeak
  NamesUnique
  PositionInside
  ReadBack
PROPERTIES
  ImplementsStore
  DescriptorsAreSnapshots
