\* Two neighbouring user pages and a kernel page; six frames for tables.
SPECIFICATION Spec
CONSTANTS
  Fan = 3
  CopiedSlots = {1, 2}
  Boot = 10
  BootTable <- LoaderTables
  PoolFrames = {1, 2, 3, 4, 5, 6}
  Virt = {0, 1, 54}
  Phys = {20, 21}
  Lengths = {2}
INVARIANTS
  TypeOK
  TablesOwned
  SharedSlotsAgree
  TlbCoherent
PROPERTIES
  MapServed
  ImplementsSpaces
