\* Small and large requests over two pages.
SPECIFICATION Spec
CONSTANTS
  Header = 2
  Alignment = 2
  Page = 12
  Thresholds <- PagesThresholds
  Frames = 2
  Sizes = {2, 10}
INVARIANT FreeListsExact
