CONSTANTS
  NUM_LOG_LINES = 3
  LINE_SIZE = 12
  BUF_SIZE = 4
  RESET_SIZE = 1
  Messages <- Fitting
  MaxCalls = 9
  NUM_BUSES = 2
  NUM_SLOTS = 2
  Wanted = "rtl8139"
  Machines <- Hardware
  ProbeLine <- Lines
  BootLines = 3
SPECIFICATION PciSpec
INVARIANTS PciTypeOK LinesInOrder ProbeEndsRight BasesAreOfTheirKind
PROPERTY KeepsPromise
CHECK_DEADLOCK FALSE
