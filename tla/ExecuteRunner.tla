--------------------------- MODULE ExecuteRunner ---------------------------
(***************************************************************************)
(* executeRunner (src/internal/cmd/run/run.go) runs the fuzzer under an    *)
(* errgroup with two goroutines:                                            *)
(*   G1, the signal listener: select on routinesCtx.Done() and on the       *)
(*       buffered channel sigs; on a signal it sets signalErr, calls        *)
(*       runner.Cleanup and returns signalErr;                              *)
(*   G2, the runner: returns runner.Run(routinesCtx) and, deferred, cancels *)
(*       the parent context of routinesCtx.                                 *)
(* The main goroutine waits for both (routines.Wait) and returns the        *)
(* signal error if signalErr is set, else the group's first error.          *)
(*                                                                          *)
(* The runner itself (pkg/runner/libfuzzer) is not under src/: its          *)
(* behaviour is taken from the spec (sections 4.5.1 and 5): Run waits for   *)
(* the fuzzer child, kills it when its context is cancelled, and returns    *)
(* nil for a clean exit and an ExecError for an unexpected exit code or a   *)
(* death by signal; Cleanup terminates the child.                           *)
(***************************************************************************)
EXTENDS Naturals

CONSTANTS
    SigBufCap,   \* capacity of the sigs channel: make(chan os.Signal, 1)
    MaxSignals   \* bound on the number of signals the OS delivers

ASSUME ConstantsAssumption ==
    /\ SigBufCap \in Nat \ {0}
    /\ MaxSignals \in Nat

VARIABLES
    sigs,          \* number of signals buffered in the sigs channel
    ctxDone,       \* routinesCtx.Done() is closed
    groupErr,      \* errgroup's first non-nil error (g.err)
    signalErr,     \* the shared variable signalErr
    g1,            \* program counter of the signal-listener goroutine
    g2,            \* program counter of the runner goroutine
    child,         \* state of the fuzzer child process
    main,          \* program counter of executeRunner itself
    result,        \* the error executeRunner returns
    sent,          \* number of signals the OS has delivered (bound)
    sigBeforeExit  \* history: a signal arrived while the child was running

vars == <<sigs, ctxDone, groupErr, signalErr, g1, g2, child, main, result,
          sent, sigBeforeExit>>

Errors == {"none", "exec", "signal"}

\* "exitedOk": clean stop; "exitedErr": unexpected exit code;
\* "killedBySignal": the terminal's signal also reached the child (it is in
\* cifuzz's foreground process group); "killedByCleanup": runner.Cleanup;
\* "killedByCtx": Run killed it when routinesCtx was cancelled.
ChildStates == {"running", "exitedOk", "exitedErr",
                "killedBySignal", "killedByCleanup", "killedByCtx"}

TypeOK ==
    /\ sigs \in 0..SigBufCap
    /\ ctxDone \in BOOLEAN
    /\ groupErr \in Errors
    /\ signalErr \in {"none", "signal"}
    /\ g1 \in {"select", "cleanup", "return", "done"}
    /\ g2 \in {"run", "done"}
    /\ child \in ChildStates
    /\ main \in {"wait", "returned"}
    /\ result \in Errors
    /\ sent \in 0..MaxSignals
    /\ sigBeforeExit \in BOOLEAN

Init ==
    /\ sigs = 0
    /\ ctxDone = FALSE
    /\ groupErr = "none"
    /\ signalErr = "none"
    /\ g1 = "select"
    /\ g2 = "run"
    /\ child = "running"
    /\ main = "wait"
    /\ result = "none"
    /\ sent = 0
    /\ sigBeforeExit = FALSE

\* errgroup's Go wrapper: the first non-nil error is kept and cancels the
\* group's context; later errors are dropped.
RecordError(e) ==
    IF e # "none" /\ groupErr = "none"
    THEN /\ groupErr' = e
         /\ ctxDone' = TRUE
    ELSE UNCHANGED <<groupErr, ctxDone>>

-----------------------------------------------------------------------------
(* The environment.                                                         *)

\* Mutant of SignalArrives: a channel that never drops a signal.
SignalArrivesUnbounded ==
    /\ sent < MaxSignals
    /\ sent' = sent + 1
    /\ sigs' = sigs + 1
    /\ sigBeforeExit' = (sigBeforeExit \/ child = "running")
    /\ \/ child' = child
       \/ child = "running" /\ child' = "killedBySignal"
    /\ UNCHANGED <<ctxDone, groupErr, signalErr, g1, g2, main, result>>

\* signal.Notify sends without blocking: a signal that finds the buffer full
\* is dropped. Notify is never stopped, so signals keep being buffered after
\* executeRunner has returned. A terminal's Ctrl-C also reaches the child.
SignalArrives ==
    /\ sent < MaxSignals
    /\ sent' = sent + 1
    /\ sigs' = IF sigs < SigBufCap THEN sigs + 1 ELSE sigs
    /\ sigBeforeExit' = (sigBeforeExit \/ child = "running")
    /\ \/ child' = child
       \/ child = "running" /\ child' = "killedBySignal"
    /\ UNCHANGED <<ctxDone, groupErr, signalErr, g1, g2, main, result>>

\* The fuzzer stops by itself (-runs reached, finding, crash of libFuzzer).
ChildExits ==
    /\ child = "running"
    /\ child' \in {"exitedOk", "exitedErr"}
    /\ UNCHANGED <<sigs, ctxDone, groupErr, signalErr, g1, g2, main, result,
                   sent, sigBeforeExit>>

-----------------------------------------------------------------------------
(* G1, the signal listener.                                                 *)

\* select: when both cases are ready Go picks one at random.
G1Done ==
    /\ g1 = "select"
    /\ ctxDone
    /\ g1' = "done"
    /\ UNCHANGED <<sigs, ctxDone, groupErr, signalErr, g2, child, main,
                   result, sent, sigBeforeExit>>

G1Receive ==
    /\ g1 = "select"
    /\ sigs > 0
    /\ sigs' = sigs - 1
    /\ signalErr' = "signal"
    /\ g1' = "cleanup"
    /\ UNCHANGED <<ctxDone, groupErr, g2, child, main, result, sent,
                   sigBeforeExit>>

\* Mutant of G1Cleanup: a Cleanup that waits for the child to be gone
\* before it returns, without terminating it.
G1CleanupWaitsForChild ==
    /\ g1 = "cleanup"
    /\ child # "running"
    /\ g1' = "return"
    /\ UNCHANGED <<sigs, ctxDone, groupErr, signalErr, g2, child, main, result,
                   sent, sigBeforeExit>>

\* runner.Cleanup(routinesCtx) sends SIGTERM to the fuzzer (spec 5: SIGKILL
\* follows after a grace period, once the context is cancelled): the fuzzer
\* dies of it, or is still running when Cleanup returns.
G1Cleanup ==
    /\ g1 = "cleanup"
    /\ child' \in IF child = "running" THEN {"killedByCleanup", "running"}
                                      ELSE {child}
    /\ g1' = "return"
    /\ UNCHANGED <<sigs, ctxDone, groupErr, signalErr, g2, main, result,
                   sent, sigBeforeExit>>

G1Return ==
    /\ g1 = "return"
    /\ RecordError("signal")
    /\ g1' = "done"
    /\ UNCHANGED <<sigs, signalErr, g2, child, main, result, sent,
                   sigBeforeExit>>

-----------------------------------------------------------------------------
(* G2, the runner.                                                          *)

\* Run honours its context: a cancelled routinesCtx kills the child.
RunCtxKill ==
    /\ g2 = "run"
    /\ ctxDone
    /\ child = "running"
    /\ child' = "killedByCtx"
    /\ UNCHANGED <<sigs, ctxDone, groupErr, signalErr, g1, g2, main, result,
                   sent, sigBeforeExit>>

\* Mutant of RunOutcome: a runner that judges the child by its exit code
\* only, for which a child killed by a signal (ExitCode() is -1) is a
\* clean stop.
RunOutcomeExitCodeOnly == IF child = "exitedErr" THEN "exec" ELSE "none"

\* The outcome of runner.Run once the child is gone.
RunOutcome == IF child = "exitedOk" THEN "none" ELSE "exec"

\* return runner.Run(routinesCtx), with the deferred cancelSignalHandler().
G2Return ==
    /\ g2 = "run"
    /\ child # "running"
    /\ groupErr' = IF RunOutcome # "none" /\ groupErr = "none"
                   THEN RunOutcome ELSE groupErr
    /\ ctxDone' = TRUE
    /\ g2' = "done"
    /\ UNCHANGED <<sigs, signalErr, g1, child, main, result, sent,
                   sigBeforeExit>>

-----------------------------------------------------------------------------
(* The main goroutine: routines.Wait() and the choice of the error.         *)

\* Mutant of MainReturn: return what routines.Wait() returned, without the
\* separate signalErr variable.
MainReturnGroupErr ==
    /\ main = "wait"
    /\ g1 = "done"
    /\ g2 = "done"
    /\ result' = groupErr
    /\ main' = "returned"
    /\ UNCHANGED <<sigs, ctxDone, groupErr, signalErr, g1, g2, child, sent,
                   sigBeforeExit>>

MainReturn ==
    /\ main = "wait"
    /\ g1 = "done"
    /\ g2 = "done"
    /\ result' = IF signalErr # "none" THEN signalErr ELSE groupErr
    /\ main' = "returned"
    /\ UNCHANGED <<sigs, ctxDone, groupErr, signalErr, g1, g2, child, sent,
                   sigBeforeExit>>

Next ==
    \/ SignalArrives
    \/ ChildExits
    \/ G1Done
    \/ G1Receive
    \/ G1Cleanup
    \/ G1Return
    \/ RunCtxKill
    \/ G2Return
    \/ MainReturn

\* Go's scheduler eventually runs a goroutine whose step stays enabled; the
\* child and the OS are not fair: the fuzzer may run forever.
Fairness ==
    /\ WF_vars(G1Done \/ G1Receive)
    /\ WF_vars(G1Cleanup)
    /\ WF_vars(G1Return)
    /\ WF_vars(RunCtxKill)
    /\ WF_vars(G2Return)
    /\ WF_vars(MainReturn)

Spec == Init /\ [][Next]_vars /\ Fairness

-----------------------------------------------------------------------------
(* Properties.                                                              *)

\* When runner.Cleanup killed the fuzzer because of a signal, executeRunner
\* reports the signal, never the "unexpected exit code" the runner goroutine
\* may have put into the errgroup first (the comment at run.go:686-690).
CleanupKillReportedAsSignal ==
    (main = "returned" /\ child = "killedByCleanup") => result = "signal"

\* executeRunner returns nil only when the fuzzer exited by itself without
\* error and no signal was handled: a fuzzer killed by the terminal's
\* Ctrl-C, by Cleanup or by the cancelled context, and a failing one, all
\* end in an error, whichever of the errgroup's goroutines returned first.
NilOnlyOnCleanExit ==
    (main = "returned" /\ result = "none") =>
        child = "exitedOk" /\ signalErr = "none"

\* Spec section 8, property 7: a signal delivered before the child exits
\* naturally makes executeRunner return a SignalError.
SignalPrecedence ==
    (main = "returned" /\ sigBeforeExit) => result = "signal"

\* A signal buffered while the run is in progress ends the run: the
\* listener takes it, Cleanup stops the fuzzer and executeRunner returns.
SignalEndsRun ==
    (sigs > 0 /\ main = "wait") ~> (main = "returned")


-----------------------------------------------------------------------------
(* Refinement of the contract RunnerContract.                               *)

\* The fuzzer as the contract sees it: still running, exited cleanly, or
\* gone in any other way (failing exit code, a signal, Cleanup, the
\* cancelled context).
FuzzerView ==
    IF child = "running" THEN "running"
    ELSE IF child = "exitedOk" THEN "clean" ELSE "failed"

Contract == INSTANCE RunnerContract
    WITH phase <- IF main = "returned" THEN "returned" ELSE "running",
         handled <- signalErr = "signal",
         fuzzer <- FuzzerView,
         result <- result

\* executeRunner implements its contract: whatever order the listener, the
\* runner goroutine, the OS and the fuzzer take, it returns once, after the
\* fuzzer is gone, with the signal error if the listener handled a signal
\* and otherwise nil exactly for a clean exit (run.go:662-704).
RunnerContractRefined == Contract!CSpec

=============================================================================
