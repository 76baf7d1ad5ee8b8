SPECIFICATION EventSpec
CONSTANTS
  Task = {t1, t2}
  TCBIdle = idle
  Object = {e1}
  Event = {e1}
  Bit = {b1, b2}
  NULL = null
  Priority = {1, 2}
  IdlePriority = 3
  MaxTimeout = 1
SYMMETRY Symmetry
INVARIANTS
  EventTypeOK
  NoSatisfiedWaiter
PROPERTIES
  NoEventLost
  ReleasedOnlyWhenSatisfied
