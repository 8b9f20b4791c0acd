SPECIFICATION Spec
CONSTANTS
    ServiceWindows <- MCServiceWindows
    Intervals <- ZeroInterval
PROPERTY LoopReturns
CHECK_DEADLOCK FALSE
