CONSTANTS
    SigBufCap <- MCSigBufCap
    MaxSignals <- MCMaxSignals
SPECIFICATION Spec
INVARIANT SignalPrecedence
CHECK_DEADLOCK FALSE
