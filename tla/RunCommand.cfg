\* `cifuzz run` (with the properties of RunCommandProofs and the session's
\* inductive invariant) next to `cifuzz login` and the server.
SPECIFICATION SessionSpec
INVARIANT TypeOK
INVARIANT RunnerStartedOnBuiltResult
INVARIANT NilErrorOnlyForCompletedWork
INVARIANT SessionIInv
INVARIANT LoginNilOnlyForAcceptedToken
PROPERTY ContractRefined
PROPERTY TokenStoredOnlyAfterCheck
\* Both commands end; the session stops with them.
CHECK_DEADLOCK FALSE
