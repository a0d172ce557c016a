CONSTANTS
    Keys <- MCKeys
    Vals <- MCVals
    UserVals <- MCUserVals
    MaxLen <- MCMaxLen
SPECIFICATION Spec
\* SetSanitizerOptions has returned.
CHECK_DEADLOCK FALSE
INVARIANT TypeOK
INVARIANT MergeOnDistinctUserKeys
