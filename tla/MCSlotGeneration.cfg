SPECIFICATION Spec
CONSTANTS
    ServiceWindows <- MCServiceWindows
    Intervals <- MCIntervals
INVARIANTS
    TypeOK
    SlotsWithinWindow
    ReturnsGenerateTimes
PROPERTY LoopReturns
CHECK_DEADLOCK FALSE
