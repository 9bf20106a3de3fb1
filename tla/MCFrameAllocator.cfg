\* Ten frames to hand out, in five words with a hole; the low two are reserved.
SPECIFICATION Spec
CONSTANTS
  MemMap <- MapWithHole
  WordBits = 3
  Reserved = 2
INVARIANTS
  TypeOK
  HintSound
  HeldMarked
PROPERTIES
  LowestFirst
  ImplementsPool
