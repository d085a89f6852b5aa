CONSTANT MaxDepth = 3
CONSTANT INTERRUPT_MEM <- Stubs
SPECIFICATION FairSpec
INVARIANTS TypeOK NoUnhandled RtcHandlerRunsAlone EOIEndsItsOwn GatesReachStubs DriversSetUp
PROPERTY TicksForever
