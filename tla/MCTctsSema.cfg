SPECIFICATION SemaSpec
CONSTANTS
  Task = {t1, t2, t3}
  TCBIdle = idle
  Object = {s1}
  Sema = {s1}
  NULL = null
  Priority = {1, 2}
  IdlePriority = 3
  MaxTimeout = 2
  SemaMax = 2
SYMMETRY Symmetry
INVARIANTS
  SemaTypeOK
  TaskInOnePlace
  WaiterOnBothLists
  NoStaleWait
  NoWaitWithToken
PROPERTIES
  ImplementsSemaService
  GrantInOrder
  NoOvertaking
  ExpireInWaitOrder
  MostUrgentRuns
