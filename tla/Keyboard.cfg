\* Two attempts, two polls, four key events.
SPECIFICATION Spec
CONSTANTS
  Attempts = 2
  Timeout = 2
  MaxKeys = 4
INVARIANTS
  ModifiersTrack
PROPERTIES
  InitEnds
  InterfaceEnabled
  BufferDrains
\* When nobody types any more the keyboard has nothing to do.
CHECK_DEADLOCK FALSE
