SPECIFICATION MboxSpec
CONSTANTS
  Task = {t1, t2, t3}
  TCBIdle = idle
  NULL = null
  Object = {used, free}
  Sema = {used, free}
  UsedCntSema = used
  FreeCntSema = free
  Priority = {1, 2}
  IdlePriority = 3
  MaxTimeout = 1
  SemaMax = 2
  MBOX_SIZE_MAX = 2
  Message = {m1, m2}
SYMMETRY Symmetry
INVARIANTS
  MboxTypeOK
  SlotsAccountedFor
PROPERTIES
  ImplementsBoundedFifo
