\* One command from every cell of the screen, a sequence with an unknown final byte
\* among them.
SPECIFICATION MCSpec
CONSTANTS
  COLS = 4
  ROWS = 3
  tab_size = 2
  FLANTERM_MAX_ESC_VALUES = 6
  Buffers = {}
  Sessions = {"edit"}
PROPERTY SequencesLeaveNoTrace
CHECK_DEADLOCK FALSE
