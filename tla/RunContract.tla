---------------------------- MODULE RunContract ----------------------------
(***************************************************************************)
(* What `cifuzz run` promises, without its phases: the command makes one   *)
(* temporary directory, fuzzes at most once and never under --build-only,  *)
(* and ends once, either killed before the fuzzer starts or by returning.  *)
(* Every return removes the temporary directory; nil is returned only for  *)
(* completed work: a build under --build-only, or a fuzzing run.           *)
(* Module RunCommand implements it (RunCommand!ContractRefined).           *)
(***************************************************************************)

\* The errors a return may carry, and those the fuzzing run itself ends
\* with (executeRunner's, possibly wrapped as a sandbox error).
Errors == {"usage", "silent", "other", "exec", "signal", "sandbox"}

RunnerErrors == {"exec", "signal", "sandbox"}

VARIABLES
    phase,      \* "running", "returned" or "killed"
    tmp,        \* the temporary directory: "none", "exists", "removed"
    fuzzed,     \* the fuzzer was started
    result,     \* the error returned; "none" is nil
    buildOnly   \* --build-only

cvars == <<phase, tmp, fuzzed, result, buildOnly>>

CInit ==
    /\ phase = "running"
    /\ tmp = "none"
    /\ fuzzed = FALSE
    /\ result = "none"
    /\ buildOnly \in BOOLEAN

\* The removal a return does, by the deferred cleanup.
Removed == IF tmp = "exists" THEN "removed" ELSE tmp

MakeTemp ==
    /\ phase = "running" /\ tmp = "none"
    /\ tmp' = "exists"
    /\ UNCHANGED <<phase, fuzzed, result, buildOnly>>

\* The fuzzer runs in the temporary directory's lifetime; its error ends
\* the command.
Fuzz ==
    /\ phase = "running" /\ tmp = "exists" /\ ~buildOnly /\ ~fuzzed
    /\ fuzzed' = TRUE
    /\ \/ UNCHANGED <<phase, tmp, result>>
       \/ \E e \in RunnerErrors :
             phase' = "returned" /\ result' = e /\ tmp' = Removed
    /\ UNCHANGED buildOnly

Fail ==
    /\ phase = "running"
    /\ \E e \in Errors : result' = e
    /\ phase' = "returned" /\ tmp' = Removed
    /\ UNCHANGED <<fuzzed, buildOnly>>

Succeed ==
    /\ phase = "running" /\ tmp = "exists"
    /\ IF buildOnly THEN ~fuzzed ELSE fuzzed
    /\ result' = "none" /\ phase' = "returned" /\ tmp' = "removed"
    /\ UNCHANGED <<fuzzed, buildOnly>>

\* A signal before the fuzzer's signal handler is installed.
Kill ==
    /\ phase = "running" /\ ~fuzzed
    /\ phase' = "killed"
    /\ UNCHANGED <<tmp, fuzzed, result, buildOnly>>

CNext == MakeTemp \/ Fuzz \/ Fail \/ Succeed \/ Kill

CSpec == CInit /\ [][CNext]_cvars

=============================================================================
