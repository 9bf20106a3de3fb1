\* A screen of four columns and three rows; budgets end the sessions.
SPECIFICATION MCSpec
CONSTANTS
  COLS = 4
  ROWS = 3
  tab_size = 2
  FLANTERM_MAX_ESC_VALUES = 6
  Buffers = {}
  Sessions = {"edit", "mixed", "bytes", "colours", "reading", "drawing", "delayed"}
INVARIANTS
  TypeOK
  QueueTracksMap
PROPERTIES
  ImplementsScreen
  KnownSequencesLeaveNoTrace
  PrintsExactly
  MovesExactly
  EditsExactly
  PaletteFollowsSgr
CHECK_DEADLOCK FALSE
