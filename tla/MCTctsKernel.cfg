SPECIFICATION KernelSpec
CONSTANTS
  Task = {t1, t2}
  TCBIdle = idle
  Object = {s1, m1, e1}
  Sema = {s1}
  Mutex = {m1}
  Event = {e1}
  Bit = {b1}
  NULL = null
  Priority = {1}
  IdlePriority = 3
  MaxTimeout = 1
  SemaMax = 1
  MaxRecursion = 1
SYMMETRY Symmetry
INVARIANTS
  NobodySleepsInVain
