------------------------- MODULE RunCommandProofs -------------------------
(***************************************************************************)
(* Proofs about RunCommand, the `cifuzz run` pipeline of run.go.           *)
(***************************************************************************)
EXTENDS RunCommand, TLAPS

\* Phases run() passes through before MkdirTemp succeeds, and between it
\* and the return.
BeforeTemp == {"prerun", "deps", "sync", "syncStore", "mktemp"}

WithTemp == {"build", "report", "fuzz", "metrics"}

\* What holds of the runner once runFuzzTest has built it: the facts
\* RunnerStartedOnBuiltResult states, and that --build-only was not given.
RunnerFacts ==
    /\ bs \in KnownBuildSystems
    /\ bs = "other" => opts.buildCommand
    /\ goos = "windows" => bs \in WindowsBuildSystems
    /\ buildResult = "result"
    /\ handler = TRUE
    /\ runner = RunnerFor(bs)
    /\ opts.buildOnly = FALSE

\* The inductive invariant, by phase. The properties are not inductive on
\* their own: each needs to know what the earlier phases established
\* (the validated build system, the temporary directory, the build result)
\* and that nothing changes them later.
IInv ==
    /\ TypeOK
    /\ pc \in BeforeTemp => tempDir = "none"
    /\ pc \in WithTemp => tempDir = "exists"
    /\ pc = "returned" => tempDir # "exists"
    /\ pc \notin {"prerun", "returned", "killed"} =>
           /\ bs \in KnownBuildSystems
           /\ bs = "other" => opts.buildCommand
    /\ pc \in {"report", "fuzz", "metrics"} =>
           /\ opts.buildOnly = FALSE
           /\ buildResult = "result"
           /\ goos = "windows" => bs \in WindowsBuildSystems
    /\ pc \in {"fuzz", "metrics"} => handler = TRUE
    /\ pc \in BeforeTemp \cup {"build", "report", "fuzz"} =>
           runner = "none" /\ metrics = FALSE
    /\ pc = "metrics" => runner # "none" /\ metrics = FALSE
    /\ runner # "none" => RunnerFacts
    /\ metrics = TRUE => runner # "none"
    /\ (pc = "returned" /\ err = "none") =>
           \/ opts.buildOnly /\ runner = "none" /\ metrics = FALSE
           \/ opts.buildOnly = FALSE /\ runner # "none" /\ metrics = TRUE

\* IInv holds in every initial state.
LEMMA InitIInv == Init => IInv
BY DEF Init, IInv, TypeOK, BuildSystemNames, KnownBuildSystems, Flags,
       Phases, ErrorKinds, BeforeTemp, WithTemp, BindingNames, TokensInit,
       TokensTypeOK, Tokens, NoToken

\* Every step of run() keeps IInv.
LEMMA NextIInv == IInv /\ [Next]_vars => IInv'
<1> SUFFICES ASSUME IInv, [Next]_vars PROVE IInv'
    OBVIOUS
<1> USE DEF IInv, TypeOK, BuildSystemNames, KnownBuildSystems, Flags,
            TokensTypeOK, tokenVars, Tokens, NoToken,
            Phases, ErrorKinds, BeforeTemp, WithTemp, BindingNames,
            RunnerFacts
<1>1. CASE PreRunFails
    BY <1>1 DEF PreRunFails, Return
<1>2. CASE PreRunOk
    BY <1>2 DEF PreRunOk, Resolves
<1>3. CASE PreRunInvalid
    BY <1>3 DEF PreRunInvalid, Return, Resolves
<1>4. CASE CheckDependencies
    BY <1>4 DEF CheckDependencies, Return
<1>5. CASE SetupSync
    BY <1>5 DEF SetupSync, Return, AuthStatus, ServerConnectionDialog
<1>6. CASE MkdirTemp
    BY <1>6 DEF MkdirTemp, Return
<1>14. CASE DialogStore
    BY <1>14 DEF DialogStore, Return
<1>7. CASE BuildFuzzTest
    BY <1>7 DEF BuildFuzzTest, Return, BuilderErrors, BuildErrors,
                MavenBuildErrors, WindowsBuildSystems
<1>8. CASE NewReportHandler
    <2> USE <1>8 DEF NewReportHandler
    <2>1. CASE handler' = TRUE /\ pc' = "fuzz" /\ UNCHANGED <<err, tempDir>>
        BY <2>1
    <2>2. CASE Return("other") /\ UNCHANGED handler
        BY <2>2 DEF Return
    <2>3. QED
        BY <2>1, <2>2
<1>9. CASE RunFuzzTest
    <2> USE <1>9 DEF RunFuzzTest
    <2>1. CASE Return("other") /\ UNCHANGED <<bindings, runner>>
        BY <2>1 DEF Return
    <2>2. CASE bs = "bazel" /\ Return("silent") /\ UNCHANGED <<bindings, runner>>
        BY <2>2 DEF Return
    <2>3. CASE /\ bindings' = {"buildDir"}
               /\ runner' = RunnerFor(bs)
               /\ pc' = "metrics" /\ UNCHANGED <<err, tempDir>>
        BY <2>3 DEF RunnerFor
    <2>4. CASE /\ bindings' = {"buildDir"}
               /\ runner' = RunnerFor(bs)
               /\ \E e \in {"exec", "signal", "sandbox"} : Return(e)
        BY <2>4 DEF Return, RunnerFor
    <2>5. QED
        BY <2>1, <2>2, <2>3, <2>4
<1>10. CASE PrintFinalMetrics
    <2> USE <1>10 DEF PrintFinalMetrics
    <2>1. CASE Return("other") /\ UNCHANGED metrics
        BY <2>1 DEF Return
    <2>2. CASE metrics' = TRUE /\ Return("none")
        BY <2>2 DEF Return
    <2>3. QED
        BY <2>1, <2>2
<1>11. CASE Killed
    BY <1>11 DEF Killed
<1>12. CASE UNCHANGED vars
    BY <1>12 DEF vars
<1>13. QED
    BY <1>1, <1>2, <1>3, <1>4, <1>5, <1>6, <1>7, <1>8, <1>9, <1>10, <1>11,
       <1>12, <1>14 DEF Next

\* IInv holds in every reachable state of run().
THEOREM IInvHolds == Spec => []IInv
BY InitIInv, NextIInv, PTL DEF Spec

\* Every value of run()'s state has its type.
THEOREM TypeCorrect == Spec => []TypeOK
<1>1. IInv => TypeOK
    BY DEF IInv
<1>2. QED
    BY <1>1, IInvHolds, PTL

\* executeRunner is only reached with a validated build system, a real
\* build result, a report handler and the runner that build system needs.
THEOREM RunnerStartedSafely == Spec => []RunnerStartedOnBuiltResult
<1>1. IInv => RunnerStartedOnBuiltResult
    BY DEF IInv, RunnerFacts, RunnerStartedOnBuiltResult
<1>2. QED
    BY <1>1, IInvHolds, PTL

\* run() returns nil only after --build-only or after a fuzzing run whose
\* final metrics were printed.
THEOREM NilErrorCompleted == Spec => []NilErrorOnlyForCompletedWork
<1>1. IInv => NilErrorOnlyForCompletedWork
    BY DEF IInv, NilErrorOnlyForCompletedWork, TypeOK, Flags
<1>2. QED
    BY <1>1, IInvHolds, PTL

-----------------------------------------------------------------------------
(* Refinement: run() implements its contract (module RunContract).         *)

\* An initial state of run() is one of the contract.
LEMMA InitRefines == Init => Contract!CInit
BY DEF Init, Contract!CInit

\* Every step of run() is a step of the contract or leaves its state
\* unchanged: the phases before the temporary directory and between the
\* build and the fuzzing run stutter, MkdirTemp is MakeTemp, every error
\* return is Fail, the fuzzing run is Fuzz and the nil returns are Succeed.
LEMMA NextRefines == IInv /\ [Next]_vars => [Contract!CNext]_Contract!cvars
<1> SUFFICES ASSUME IInv, [Next]_vars
             PROVE  [Contract!CNext]_Contract!cvars
    OBVIOUS
<1> USE DEF IInv, TypeOK, Flags, Phases, ErrorKinds, BeforeTemp, WithTemp,
            RunnerFacts, Contract!cvars
<1>1. CASE PreRunFails
    BY <1>1 DEF PreRunFails, Return, Contract!CNext, Contract!Fail,
                Contract!Errors, Contract!Removed
<1>2. CASE PreRunOk
    BY <1>2 DEF PreRunOk
<1>3. CASE PreRunInvalid
    BY <1>3 DEF PreRunInvalid, Return, Contract!CNext, Contract!Fail,
                Contract!Errors, Contract!Removed
<1>4. CASE CheckDependencies
    BY <1>4 DEF CheckDependencies, Return, Contract!CNext, Contract!Fail,
                Contract!Errors, Contract!Removed
<1>5. CASE SetupSync
    BY <1>5 DEF SetupSync, Return, ServerConnectionDialog, Contract!CNext,
                Contract!Fail, Contract!Errors, Contract!Removed
<1>6. CASE MkdirTemp
    BY <1>6 DEF MkdirTemp, Return, Contract!CNext, Contract!MakeTemp,
                Contract!Fail, Contract!Errors, Contract!Removed
<1>14. CASE DialogStore
    BY <1>14 DEF DialogStore, Return, Contract!CNext, Contract!Fail,
                 Contract!Errors, Contract!Removed
<1>7. CASE BuildFuzzTest
    <2> USE <1>7
    <2>0. pc = "build" /\ runner = "none" /\ runner' = runner
        BY DEF BuildFuzzTest
    <2>1. CASE /\ goos = "windows" /\ bs \notin WindowsBuildSystems
               /\ Return("other") /\ UNCHANGED <<opts, buildResult>>
        BY <2>0, <2>1 DEF Return, Contract!CNext, Contract!Fail,
                          Contract!Errors, Contract!Removed
    <2>2. CASE /\ goos = "linux" \/ bs \in WindowsBuildSystems
               /\ \E bin \in IF bs = "bazel" THEN BOOLEAN ELSE {opts.bin} :
                     opts' = [opts EXCEPT !.bin = bin]
               /\ \/ \E e \in BuilderErrors(bs) :
                        Return(e) /\ UNCHANGED buildResult
                  \/ /\ buildResult' = IF bs = "cmake" /\ opts.buildOnly
                                        THEN "nil" ELSE "result"
                     /\ IF opts.buildOnly
                        THEN Return("none")
                        ELSE pc' = "report" /\ UNCHANGED <<err, tempDir>>
        <3>1. opts'.buildOnly = opts.buildOnly
            BY <2>2
        <3>2. CASE \E e \in BuilderErrors(bs) : Return(e)
            BY <2>0, <3>1, <3>2 DEF Return, BuilderErrors, BuildErrors,
                MavenBuildErrors, Contract!CNext, Contract!Fail,
                Contract!Errors, Contract!Removed
        <3>3. CASE opts.buildOnly /\ Return("none")
            BY <2>0, <3>1, <3>3 DEF Return, Contract!CNext, Contract!Succeed
        <3>4. CASE ~opts.buildOnly /\ pc' = "report" /\ UNCHANGED <<err, tempDir>>
            BY <2>0, <3>1, <3>4
        <3>5. QED
            BY <2>2, <3>2, <3>3, <3>4
    <2>3. QED
        BY <2>1, <2>2 DEF BuildFuzzTest
<1>8. CASE NewReportHandler
    BY <1>8 DEF NewReportHandler, Return, Contract!CNext, Contract!Fail,
                Contract!Errors, Contract!Removed
<1>9. CASE RunFuzzTest
    <2> USE <1>9 DEF RunFuzzTest
    <2>1. CASE UNCHANGED runner
        BY <2>1 DEF Return, Contract!CNext, Contract!Fail, Contract!Errors,
                    Contract!Removed
    <2>2. CASE runner' = RunnerFor(bs)
        BY <2>2 DEF Return, RunnerFor, Contract!CNext, Contract!Fuzz,
                    Contract!RunnerErrors, Contract!Removed
    <2>3. QED
        BY <2>1, <2>2
<1>10. CASE PrintFinalMetrics
    BY <1>10 DEF PrintFinalMetrics, Return, Contract!CNext, Contract!Fail,
                 Contract!Succeed, Contract!Errors, Contract!Removed
<1>11. CASE Killed
    BY <1>11 DEF Killed, Contract!CNext, Contract!Kill
<1>12. CASE UNCHANGED vars
    BY <1>12 DEF vars
<1>13. QED
    BY <1>1, <1>2, <1>3, <1>4, <1>5, <1>6, <1>7, <1>8, <1>9, <1>10, <1>11,
       <1>12, <1>14 DEF Next

\* `cifuzz run` implements its contract: for every build system, flag,
\* platform and token state, each behaviour of run() is one of RunContract.
THEOREM ContractImplemented == Spec => ContractRefined
<1>1. Init => Contract!CInit
    BY InitRefines
<1>2. IInv /\ [Next]_vars => [Contract!CNext]_Contract!cvars
    BY NextRefines
<1>3. QED
    BY <1>1, <1>2, IInvHolds, PTL DEF Spec, ContractRefined, Contract!CSpec

=============================================================================
