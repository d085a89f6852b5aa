CONSTANTS
  NUM_LOG_LINES = 3
  LINE_SIZE = 12
  BUF_SIZE = 4
  RESET_SIZE = 1
  Messages <- Overlong
  MaxCalls = 5
SPECIFICATION Spec
INVARIANT ClearedEntirely
CHECK_DEADLOCK FALSE
