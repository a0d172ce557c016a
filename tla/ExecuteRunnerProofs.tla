------------------------ MODULE ExecuteRunnerProofs ------------------------
(***************************************************************************)
(* Proofs about ExecuteRunner for every SigBufCap and MaxSignals.          *)
(***************************************************************************)
EXTENDS ExecuteRunner, TLAPS

\* The inductive invariant. CleanupKillReportedAsSignal alone is not
\* inductive: it needs to know that the listener only reaches Cleanup after
\* setting signalErr, that a returned executeRunner has no goroutine left to
\* change signalErr or the errgroup's error, and that the result was
\* computed from them. NilOnlyOnCleanExit needs, besides, that the child is
\* gone once the runner goroutine returned, and that it exited cleanly if
\* the errgroup holds no error then. The refinement of RunnerContract needs,
\* in addition, that signalErr is still unset while the listener selects,
\* and that the errgroup holds the signal error only after signalErr was
\* set and an execution error only for a fuzzer that did not exit cleanly.
IInv ==
    /\ TypeOK
    /\ g1 \in {"cleanup", "return"} => signalErr = "signal"
    /\ child = "killedByCleanup" => signalErr = "signal"
    /\ main = "returned" => g1 = "done" /\ g2 = "done"
    /\ main = "returned" =>
           result = IF signalErr # "none" THEN signalErr ELSE groupErr
    /\ g2 = "done" => child # "running"
    /\ (g2 = "done" /\ groupErr = "none") => child = "exitedOk"
    /\ g1 = "select" => signalErr = "none"
    /\ groupErr = "signal" => signalErr = "signal"
    /\ groupErr = "exec" => child \notin {"running", "exitedOk"}

\* IInv holds initially.
LEMMA InitIInv == ASSUME ConstantsAssumption PROVE Init => IInv
<1> SUFFICES ASSUME Init PROVE IInv
    OBVIOUS
<1>1. ctxDone \in BOOLEAN /\ sigBeforeExit \in BOOLEAN
    BY Zenon DEF Init
<1>2. QED
    BY <1>1, ConstantsAssumption DEF Init, IInv, TypeOK, Errors, ChildStates

\* The two Boolean variables keep their type: Zenon handles them, the SMT
\* backend does not.
LEMMA NextBooleans ==
    ASSUME IInv, [Next]_vars
    PROVE  ctxDone' \in BOOLEAN /\ sigBeforeExit' \in BOOLEAN
<1> USE DEF IInv, TypeOK
<1>1. CASE SignalArrives
    BY <1>1, Zenon DEF SignalArrives
<1>2. CASE G1Return
    BY <1>2, Zenon DEF G1Return, RecordError
<1>3. CASE G2Return
    BY <1>3, Zenon DEF G2Return
<1>4. CASE ~SignalArrives /\ ~G1Return /\ ~G2Return
    BY <1>4, Zenon DEF Next, vars, ChildExits, G1Done, G1Receive, G1Cleanup,
                       RunCtxKill, MainReturn
<1>5. QED
    BY <1>1, <1>2, <1>3, <1>4

\* Every step of executeRunner, its goroutines and its environment keeps IInv.
LEMMA NextIInv == ASSUME ConstantsAssumption PROVE IInv /\ [Next]_vars => IInv'
<1> SUFFICES ASSUME IInv, [Next]_vars PROVE IInv'
    OBVIOUS
<1>0. ctxDone' \in BOOLEAN /\ sigBeforeExit' \in BOOLEAN
    BY NextBooleans
<1> USE <1>0, ConstantsAssumption DEF IInv, TypeOK, Errors, ChildStates
<1>1. CASE SignalArrives
    BY <1>1 DEF SignalArrives
<1>2. CASE ChildExits
    BY <1>2 DEF ChildExits
<1>3. CASE G1Done
    BY <1>3 DEF G1Done
<1>4. CASE G1Receive
    BY <1>4 DEF G1Receive
<1>5. CASE G1Cleanup
    BY <1>5 DEF G1Cleanup
<1>6. CASE G1Return
    BY <1>6 DEF G1Return, RecordError
<1>7. CASE RunCtxKill
    BY <1>7 DEF RunCtxKill
<1>8. CASE G2Return
    BY <1>8 DEF G2Return, RunOutcome
<1>9. CASE MainReturn
    BY <1>9 DEF MainReturn
<1>10. CASE UNCHANGED vars
    BY <1>10 DEF vars
<1>11. QED
    BY <1>1, <1>2, <1>3, <1>4, <1>5, <1>6, <1>7, <1>8, <1>9, <1>10 DEF Next

\* executeRunner's state always has its type.
THEOREM TypeCorrect == Spec => []TypeOK
<1>1. IInv => TypeOK
    BY DEF IInv
<1>2. QED
    BY <1>1, InitIInv, NextIInv, ConstantsAssumption, PTL DEF Spec

\* A fuzzer killed by runner.Cleanup after a signal is always reported as
\* the signal, whatever the runner goroutine returned first (run.go:685-694).
THEOREM CleanupKillIsSignal == Spec => []CleanupKillReportedAsSignal
<1>1. IInv => CleanupKillReportedAsSignal
    BY DEF IInv, CleanupKillReportedAsSignal
<1>2. QED
    BY <1>1, InitIInv, NextIInv, ConstantsAssumption, PTL DEF Spec


\* executeRunner's inductive invariant holds in every reachable state.
THEOREM IInvHolds == Spec => []IInv
BY InitIInv, NextIInv, ConstantsAssumption, PTL DEF Spec

\* executeRunner returns nil only for a fuzzer that exited cleanly by
\* itself with no signal handled, in every interleaving of its goroutines.
THEOREM NilOnlyClean == Spec => []NilOnlyOnCleanExit
<1>1. IInv => NilOnlyOnCleanExit
    BY DEF IInv, NilOnlyOnCleanExit
<1>2. QED
    BY <1>1, IInvHolds, PTL


-----------------------------------------------------------------------------
(* Refinement of RunnerContract.                                            *)

\* executeRunner starts as its contract does.
LEMMA InitRefines == Init => Contract!CInit
BY DEF Init, Contract!CInit, FuzzerView

\* Every step of executeRunner is a step of its contract or leaves the
\* contract's view unchanged: the listener's receive is Handle, every end
\* of the fuzzer is FuzzerEnds, the main goroutine's return is Return, and
\* the rest (the errgroup, the context, the buffered signals) is invisible.
LEMMA NextRefines ==
    ASSUME ConstantsAssumption
    PROVE  IInv /\ [Next]_vars => [Contract!CNext]_Contract!cvars
<1> SUFFICES ASSUME IInv, [Next]_vars PROVE [Contract!CNext]_Contract!cvars
    OBVIOUS
<1> USE DEF IInv, TypeOK, ChildStates, FuzzerView, Contract!cvars
<1>1. CASE SignalArrives
    <2>1. CASE child' = child
        BY <1>1, <2>1 DEF SignalArrives
    <2>2. CASE child = "running" /\ child' = "killedBySignal"
        BY <1>1, <2>2 DEF SignalArrives, Contract!CNext, Contract!FuzzerEnds
    <2>3. QED
        BY <1>1, <2>1, <2>2 DEF SignalArrives
<1>2. CASE ChildExits
    BY <1>2 DEF ChildExits, Contract!CNext, Contract!FuzzerEnds
<1>3. CASE G1Done
    BY <1>3 DEF G1Done
<1>4. CASE G1Receive
    BY <1>4 DEF G1Receive, Contract!CNext, Contract!Handle
<1>5. CASE G1Cleanup
    <2>1. CASE child' = child
        BY <1>5, <2>1 DEF G1Cleanup
    <2>2. CASE child = "running" /\ child' = "killedByCleanup"
        BY <1>5, <2>2 DEF G1Cleanup, Contract!CNext, Contract!FuzzerEnds
    <2>3. QED
        BY <1>5, <2>1, <2>2 DEF G1Cleanup
<1>6. CASE G1Return
    BY <1>6 DEF G1Return, RecordError
<1>7. CASE RunCtxKill
    BY <1>7 DEF RunCtxKill, Contract!CNext, Contract!FuzzerEnds
<1>8. CASE G2Return
    BY <1>8 DEF G2Return
<1>9. CASE MainReturn
    <2>1. CASE signalErr = "signal"
        BY <1>9, <2>1 DEF MainReturn, Contract!CNext, Contract!Return,
                          Contract!Classify
    <2>2. CASE signalErr = "none" /\ groupErr = "none"
        BY <1>9, <2>2 DEF MainReturn, Contract!CNext, Contract!Return,
                          Contract!Classify
    <2>3. CASE signalErr = "none" /\ groupErr = "exec"
        BY <1>9, <2>3 DEF MainReturn, Contract!CNext, Contract!Return,
                          Contract!Classify
    <2>4. QED
        BY <2>1, <2>2, <2>3 DEF Errors
<1>10. CASE UNCHANGED vars
    BY <1>10 DEF vars
<1>11. QED
    BY <1>1, <1>2, <1>3, <1>4, <1>5, <1>6, <1>7, <1>8, <1>9, <1>10 DEF Next

\* executeRunner implements RunnerContract for every channel capacity and
\* bound on signals: it returns once, after the fuzzer is gone, with the
\* signal error if the listener handled a signal, else nil exactly for a
\* clean exit of the fuzzer (run.go:662-704).
THEOREM RunnerContractImplemented == Spec => RunnerContractRefined
<1>1. Init => Contract!CInit
    BY InitRefines
<1>2. IInv /\ [Next]_vars => [Contract!CNext]_Contract!cvars
    BY NextRefines, ConstantsAssumption
<1>3. QED
    BY <1>1, <1>2, IInvHolds, PTL DEF Spec, RunnerContractRefined, Contract!CSpec

=============================================================================
