SPECIFICATION NicSpec
CONSTANTS
  NUM_BUFF_RXDESCS = 3
  NUM_BUFF_TXDESCS = 3
  NULL = null
CONSTRAINT OneDirection
INVARIANTS
  NicTypeOK
  FramesInOrder
  NothingStranded
