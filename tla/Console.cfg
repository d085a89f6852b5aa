CONSTANTS
  BUFSZ = 6
  INT_MAX = 127
  VGA_WIDTH = 4
  VGA_HEIGHT = 3
  Formats <- Both
  MaxCalls = 3
SPECIFICATION Spec
INVARIANTS TypeOK FormatsAsAsked ScreenShowsText
CHECK_DEADLOCK FALSE
