SPECIFICATION MutexSpec
CONSTANTS
  Task = {t1, t2, t3}
  TCBIdle = idle
  Object = {m1}
  Mutex = {m1}
  NULL = null
  Priority = {1, 2}
  IdlePriority = 3
  MaxTimeout = 1
  MaxRecursion = 2
SYMMETRY Symmetry
INVARIANTS
  MutexTypeOK
  MutexConsistent
PROPERTIES
  ImplementsMutexService
  NoBarging
