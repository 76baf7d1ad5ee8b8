SPECIFICATION MboxSpec
CONSTANTS
  Task = {t1, t2, t3}
  TCBIdle = idle
  NULL = null
  Object = {used, free}
  Sema = {used, free}
  UsedCntSema = used
  FreeCntSema = free
  Priority = {1, 2}
  IdlePriority = 3
  MaxTimeout = 1
  SemaMax = 1
  MBOX_SIZE_MAX = 1
  Message = {m1, m2}
SYMMETRY Symmetry
INVARIANT
  PollingNeverBlocks
