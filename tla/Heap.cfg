\* A single page cut into blocks of three size classes, or three pages and
\* requests of a whole page each.
SPECIFICATION MCSpec
CONSTANTS
  Header = 2
  Alignment = 2
  Page = 20
  Thresholds <- OnePageThresholds
  Frames = 3
  Sizes = {0, 1, 4, 7, 17, 18}
INVARIANTS
  Tiling
  FreeListsExact
  UsedNextAdjacent
  SearchComplete
PROPERTIES
  ImplementsBlocks
