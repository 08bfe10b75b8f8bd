SPECIFICATION Spec
CONSTANTS
  SECTOR = 4
  HEADER = 1
  APP_START_SECTOR = 2
  MAX_FW_BYTES = 8
  BL_BASE = 8
  WINDOW = 12
  APP_SIZE = 12
  CMD_POLLS = 2
  TOKEN_POLLS = 2
  Images = {0, 2, 5, 8, 9}
INVARIANTS
  ImageLoaded
  BootDataIntact
  NothingOwed
PROPERTIES
  BootEnds
