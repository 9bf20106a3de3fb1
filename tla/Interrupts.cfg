\* Timer, keyboard, a device on the first controller and one on the second.
SPECIFICATION Spec
CONSTANTS
  Lines = {0, 1, 5, 9}
  MaxTicks = 3
  Waits = {0, 1, 2}
INVARIANTS
  TypeOK
  DispatchedAsItself
  DevicesNotHeldBack
PROPERTIES
  TimerServed
  WaitEnds
