CONSTANTS
    SigBufCap <- MCSigBufCap
    MaxSignals <- MCMaxSignals
SPECIFICATION Spec
INVARIANT TypeOK
INVARIANT CleanupKillReportedAsSignal
INVARIANT IInv
INVARIANT NilOnlyOnCleanExit
PROPERTY SignalEndsRun
PROPERTY RunnerContractRefined
CHECK_DEADLOCK FALSE
