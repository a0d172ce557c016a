--------------------------- MODULE RunnerContract ---------------------------
(***************************************************************************)
(* What executeRunner promises, without its goroutines and its channel:    *)
(* the fuzzer ends (by itself, cleanly or not, or killed), the signal      *)
(* listener may handle one signal while the run is in progress, and the    *)
(* function returns once, after the fuzzer is gone, with the error that    *)
(* classifies the run: the signal error if a signal was handled, else nil  *)
(* for a clean exit of the fuzzer and an execution error otherwise.        *)
(* Module ExecuteRunner implements it (ExecuteRunner!RunnerContractRefined).*)
(***************************************************************************)

VARIABLES
    phase,    \* "running" or "returned"
    handled,  \* the listener has handled a signal
    fuzzer,   \* "running", "clean" (exited without error) or "failed"
    result    \* the error returned: "none" (nil), "exec" or "signal"

cvars == <<phase, handled, fuzzer, result>>

CInit ==
    /\ phase = "running"
    /\ handled = FALSE
    /\ fuzzer = "running"
    /\ result = "none"

\* The error of a run that ends now.
Classify ==
    IF handled THEN "signal"
    ELSE IF fuzzer = "clean" THEN "none" ELSE "exec"

Handle ==
    /\ phase = "running" /\ ~handled
    /\ handled' = TRUE
    /\ UNCHANGED <<phase, fuzzer, result>>

FuzzerEnds ==
    /\ fuzzer = "running"
    /\ fuzzer' \in {"clean", "failed"}
    /\ UNCHANGED <<phase, handled, result>>

Return ==
    /\ phase = "running" /\ fuzzer # "running"
    /\ phase' = "returned"
    /\ result' = Classify
    /\ UNCHANGED <<handled, fuzzer>>

CNext == Handle \/ FuzzerEnds \/ Return

CSpec == CInit /\ [][CNext]_cvars

=============================================================================
