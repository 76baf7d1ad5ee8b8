SPECIFICATION SemaFairSpec
CONSTANTS
  Task = {t1, t2}
  TCBIdle = idle
  Object = {s1}
  Sema = {s1}
  NULL = null
  Priority = {1}
  IdlePriority = 2
  MaxTimeout = 2
  SemaMax = 1
PROPERTIES
  SemaWaitEnds
  FiniteWaitEnds
  ReadyTaskRuns
