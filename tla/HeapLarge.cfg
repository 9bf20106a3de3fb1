\* Requests for a little more than a page and than two, with two frames left.
SPECIFICATION Spec
CONSTANTS
  Header = 2
  Alignment = 2
  Page = 12
  Thresholds <- PagesThresholds
  Frames = 3
  Sizes = {14, 26}
PROPERTY ImplementsBlocks
