----------------------------- MODULE RunCommand -----------------------------
(***************************************************************************)
(* The `cifuzz run` command (src/internal/cmd/run/run.go): the PreRunE     *)
(* checks and opts.validate(), then runCmd.run(): checkDependencies,        *)
(* setupSync (pre-release only), os.MkdirTemp with a deferred               *)
(* fileutil.Cleanup, buildFuzzTest, the report handler, runFuzzTest (which  *)
(* builds the runner options and calls executeRunner) and printFinalMetrics.*)
(*                                                                          *)
(* Data is abstracted to what decides the control flow: the build system    *)
(* name, the OS, the flags, and whether each call into the environment      *)
(* (file system, build tool, dependency check, server) succeeds. The run    *)
(* of the fuzzer itself is the ExecuteRunner module; here executeRunner     *)
(* returns one of the errors that module shows it can return.               *)
(***************************************************************************)
EXTENDS Naturals, FiniteSets, AccessTokens

\* config.BuildSystem* values; "unknown" is a name the user may write in
\* cifuzz.yaml or pass with --build-system that is none of them, "unset"
\* the empty string (none is set).
KnownBuildSystems == {"bazel", "cmake", "maven", "gradle", "other"}

BuildSystemNames == KnownBuildSystems \cup {"unknown", "unset"}

\* buildFuzzTest refuses every other build system on Windows.
WindowsBuildSystems == {"cmake", "maven", "gradle"}

\* The error run() returns, by its kind: "usage" (WrapIncorrectUsageError),
\* "silent" (ErrSilent or a wrapped silent error), "other" (any other),
\* "exec" and "signal" (from executeRunner), "sandbox"
\* (WrapCouldBeSandboxError).
ErrorKinds == {"none", "usage", "silent", "other", "exec", "signal",
               "sandbox"}

\* Phases of the process; "killed": a signal terminated cifuzz.
Phases == {"prerun", "deps", "sync", "syncStore", "mktemp", "build", "report", "fuzz",
           "metrics", "returned", "killed"}

VARIABLES
    bs,           \* opts.BuildSystem
    opts,         \* flags: buildCommand set, buildOnly, useSandbox, and bin
                  \* (opts.fuzzTest got the "_bin" suffix)
    goos,         \* runtime.GOOS
    prerelease,   \* CIFUZZ_PRERELEASE is set
    pc,           \* phase of the command
    tempDir,      \* c.tempDir: "none", "exists" or "removed"
    buildResult,  \* what buildFuzzTest returned: "none", "nil" or "result"
    handler,      \* c.reportHandler was created
    bindings,     \* RunnerOptions.ReadOnlyBindings given to the runner
    runner,       \* the runner passed to executeRunner
    err,          \* the error the command returns
    metrics,      \* the final metrics were printed
    syncToken     \* the token the server-connection dialog read and the
                  \* server accepted, not yet stored

vars == <<bs, opts, goos, prerelease, pc, tempDir, buildResult, handler,
          bindings, runner, err, metrics, tokenVars, syncToken>>

Flags == [buildCommand : BOOLEAN, buildOnly : BOOLEAN,
          useSandbox : BOOLEAN, bin : BOOLEAN]

\* buildResult.BuildDir, and bazel's install_base (`bazel info`).
BindingNames == {"buildDir", "installBase"}

TypeOK ==
    /\ bs \in BuildSystemNames
    /\ opts \in Flags
    /\ goos \in {"linux", "windows"}
    /\ prerelease \in BOOLEAN
    /\ pc \in Phases
    /\ tempDir \in {"none", "exists", "removed"}
    /\ buildResult \in {"none", "nil", "result"}
    /\ handler \in BOOLEAN
    /\ bindings \subseteq BindingNames
    /\ runner \in {"none", "libfuzzer", "jazzer"}
    /\ err \in ErrorKinds
    /\ metrics \in BOOLEAN
    /\ syncToken \in Tokens \cup {NoToken}
    /\ TokensTypeOK

Init ==
    /\ bs \in BuildSystemNames
    /\ opts \in [buildCommand : BOOLEAN, buildOnly : BOOLEAN,
                 useSandbox : BOOLEAN, bin : {FALSE}]
    /\ goos \in {"linux", "windows"}
    /\ prerelease \in BOOLEAN
    /\ pc = "prerun"
    /\ tempDir = "none"
    /\ buildResult = "none"
    /\ handler = FALSE
    /\ bindings = {}
    /\ runner = "none"
    /\ err = "none"
    /\ metrics = FALSE
    /\ syncToken = NoToken
    /\ TokensInit

\* Mutant of Return: the temporary directory is removed on the error
\* paths only, not on the ones that return nil.
ReturnCleansOnError(e) ==
    /\ pc' = "returned"
    /\ err' = e
    /\ tempDir' = IF tempDir = "exists" /\ e # "none" THEN "removed"
                  ELSE tempDir

\* run() returns e; the deferred fileutil.Cleanup(c.tempDir) removes the
\* temporary directory if MkdirTemp created it.
Return(e) ==
    /\ pc' = "returned"
    /\ err' = e
    /\ tempDir' = IF tempDir = "exists" THEN "removed" ELSE tempDir

-----------------------------------------------------------------------------
(* PreRunE and opts.validate().                                             *)

\* One of the checks fails that depend on the file system or the command
\* line only: the number of <fuzz test> arguments, cifuzz.yaml, resolving
\* the fuzz test, the --seed-corpus dirs, the dictionary, --timeout under a
\* second, or DetermineBuildSystem.
PreRunFails ==
    /\ pc = "prerun"
    /\ \E e \in {"usage", "silent", "other"} : Return(e)
    /\ UNCHANGED <<bs, opts, goos, prerelease, buildResult, handler,
                   bindings, runner, metrics, tokenVars, syncToken>>

\* The build system validate() settles on: DetermineBuildSystem picks one
\* from the project when none is set; a set one is kept.
Resolves(b) == IF bs = "unset" THEN b \in KnownBuildSystems ELSE b = bs

\* All checks pass: the build system is known (ValidateBuildSystem) and
\* "other" comes with a build command.
PreRunOk ==
    /\ pc = "prerun"
    /\ \E b \in KnownBuildSystems :
          /\ Resolves(b)
          /\ ~(b = "other" /\ ~opts.buildCommand)
          /\ bs' = b
    /\ pc' = "deps"
    /\ UNCHANGED <<opts, goos, prerelease, tempDir, buildResult, handler,
                   bindings, runner, err, metrics, tokenVars, syncToken>>

\* validate() rejects an unknown build system name (ValidateBuildSystem),
\* and "other" without a build command (WrapIncorrectUsageError).
PreRunInvalid ==
    /\ pc = "prerun"
    /\ \/ /\ bs = "unknown"
          /\ Return("other")
          /\ UNCHANGED bs
       \/ /\ \E b \in KnownBuildSystems :
                /\ Resolves(b)
                /\ b = "other" /\ ~opts.buildCommand
                /\ bs' = b
          /\ Return("usage")
    /\ UNCHANGED <<opts, goos, prerelease, buildResult, handler,
                   bindings, runner, metrics, tokenVars, syncToken>>

-----------------------------------------------------------------------------
(* run(): up to the build.                                                  *)

\* checkDependencies: for Gradle a wrapper lookup error other than
\* ErrNotExist is returned, and a found wrapper skips the check; otherwise
\* dependencies.Check may fail. Its default case (an unsupported build
\* system) cannot be reached: validate() only lets known ones through.
CheckDependencies ==
    /\ pc = "deps"
    /\ \/ /\ pc' = IF prerelease THEN "sync" ELSE "mktemp"
          /\ UNCHANGED <<err, tempDir>>
       \/ \E e \in IF bs = "gradle" THEN {"other", "silent"} ELSE {"silent"} :
             Return(e)
    /\ UNCHANGED <<bs, opts, goos, prerelease, buildResult, handler,
                   bindings, runner, metrics, tokenVars, syncToken>>

\* getAuthStatus: login.GetToken reads the token file; without a token
\* the user is not authenticated. Otherwise login.CheckValidToken asks the
\* server, and a token it rejects, or a request that fails, is an error.
AuthStatus(reachable) ==
    CASE tokenFile = NoToken                      -> "unauthenticated"
      [] reachable /\ tokenFile \notin revoked    -> "authenticated"
      [] OTHER                                    -> "error"

\* showServerConnectionDialog: dialog.Select may fail; "Skip" returns nil;
\* "Yes" runs login.ReadCheckAndStoreTokenInteractively, which reads a
\* token and asks the server about it: a rejected token or a failed
\* request is an error, an accepted one is stored next (DialogStore).
ServerConnectionDialog ==
    \/ Return("silent") /\ UNCHANGED <<tokenFile, syncToken>>
    \/ pc' = "mktemp" /\ UNCHANGED <<err, tempDir, tokenFile, syncToken>>
    \/ \E t \in Tokens \ revoked :
          /\ syncToken' = t
          /\ pc' = "syncStore"
          /\ UNCHANGED <<err, tempDir, tokenFile>>

\* setupSync: --interactive, turned off when CI is set; getAuthStatus's
\* error is returned (wrapped as silent); an interactive run that is not
\* authenticated shows the dialog, whose error is returned the same way.
SetupSync ==
    /\ pc = "sync"
    /\ \E ci, flag, reachable \in BOOLEAN :
          LET interactive == flag /\ ~ci
              auth        == AuthStatus(reachable)
          IN \/ /\ auth = "error"
                /\ Return("silent") /\ UNCHANGED <<tokenFile, syncToken>>
             \/ /\ auth # "error"
                /\ ~(interactive /\ auth = "unauthenticated")
                /\ pc' = "mktemp"
                /\ UNCHANGED <<err, tempDir, tokenFile, syncToken>>
             \/ /\ auth = "unauthenticated" /\ interactive
                /\ ServerConnectionDialog
    /\ UNCHANGED <<bs, opts, goos, prerelease, buildResult, handler,
                   bindings, runner, metrics, revoked>>

\* ReadCheckAndStoreTokenInteractively, after the server accepted the
\* token: access_tokens.Set stores it in the token file, a separate step
\* after the check (the server may revoke the token in between); a
\* failing write is returned by the dialog and, wrapped, by setupSync.
DialogStore ==
    /\ pc = "syncStore"
    /\ \/ tokenFile' = syncToken /\ pc' = "mktemp" /\ UNCHANGED <<err, tempDir>>
       \/ Return("silent") /\ UNCHANGED tokenFile
    /\ UNCHANGED <<bs, opts, goos, prerelease, buildResult, handler,
                   bindings, runner, metrics, revoked, syncToken>>

\* os.MkdirTemp("", "cifuzz-run-"); the deferred Cleanup is registered
\* only once it succeeded.
MkdirTemp ==
    /\ pc = "mktemp"
    /\ \/ /\ tempDir' = "exists"
          /\ pc' = "build"
          /\ UNCHANGED err
       \/ Return("other")
    /\ UNCHANGED <<bs, opts, goos, prerelease, buildResult, handler,
                   bindings, runner, metrics, tokenVars, syncToken>>

-----------------------------------------------------------------------------
(* run(): the build, the report handler, the fuzzing run, the metrics.      *)

\* The errors a builder's NewBuilder, Configure or Build may return.
BuildErrors == {"other", "silent"}

\* maven.NewBuilder and Builder.Build: Validate's errors and those of
\* os.MkdirTemp, os.ReadFile and parseXML are plain errors; a failing mvn
\* (runMaven, GetBuildDirectory) is logged and returned as ErrSilent.
MavenBuildErrors ==
    LET validate     == {"other"}
        runMaven     == {"silent"}
        externalDeps == {"other"} \cup runMaven
        localDeps    == runMaven \cup {"other"}
        buildDir     == {"silent"}
    IN validate \cup runMaven \cup externalDeps \cup localDeps \cup buildDir

\* What buildFuzzTest's builder for b may return as an error.
BuilderErrors(b) == IF b = "maven" THEN MavenBuildErrors ELSE BuildErrors

\* Mutant of BuildFuzzTest: run() without its --build-only return, going
\* on to the fuzzing run with whatever buildFuzzTest returned.
BuildFuzzTestNoBuildOnlyReturn ==
    /\ pc = "build"
    /\ \/ /\ goos = "windows"
          /\ bs \notin WindowsBuildSystems
          /\ Return("other")
          /\ UNCHANGED <<opts, buildResult>>
       \/ /\ goos = "linux" \/ bs \in WindowsBuildSystems
          /\ \E bin \in IF bs = "bazel" THEN BOOLEAN ELSE {opts.bin} :
                opts' = [opts EXCEPT !.bin = bin]
          /\ \/ \E e \in BuilderErrors(bs) :
                   /\ Return(e)
                   /\ UNCHANGED buildResult
             \/ /\ buildResult' = IF bs = "cmake" /\ opts.buildOnly
                                   THEN "nil" ELSE "result"
                /\ pc' = "report" /\ UNCHANGED <<err, tempDir>>
    /\ UNCHANGED <<bs, goos, prerelease, handler, bindings, runner, metrics,
                   tokenVars, syncToken>>

\* buildFuzzTest, and run()'s checks of what it returned: an error is
\* returned, and with --build-only run() returns nil. Windows refuses
\* Bazel and "other". For Bazel, `bazel query <fuzz test>_bin` succeeding
\* appends "_bin" to opts.fuzzTest before the build. The CMake case returns
\* nil, nil under --build-only; every other case returns its result.
BuildFuzzTest ==
    /\ pc = "build"
    /\ \/ /\ goos = "windows"
          /\ bs \notin WindowsBuildSystems
          /\ Return("other")
          /\ UNCHANGED <<opts, buildResult>>
       \/ /\ goos = "linux" \/ bs \in WindowsBuildSystems
          /\ \E bin \in IF bs = "bazel" THEN BOOLEAN ELSE {opts.bin} :
                opts' = [opts EXCEPT !.bin = bin]
          /\ \/ \E e \in BuilderErrors(bs) :
                   /\ Return(e)
                   /\ UNCHANGED buildResult
             \/ /\ buildResult' = IF bs = "cmake" /\ opts.buildOnly
                                   THEN "nil" ELSE "result"
                /\ IF opts.buildOnly
                   THEN Return("none")
                   ELSE pc' = "report" /\ UNCHANGED <<err, tempDir>>
    /\ UNCHANGED <<bs, goos, prerelease, handler, bindings, runner, metrics,
                   tokenVars, syncToken>>

\* report_handler.NewReportHandler, right before the fuzzing run.
NewReportHandler ==
    /\ pc = "report"
    /\ \/ /\ handler' = TRUE
          /\ pc' = "fuzz"
          /\ UNCHANGED <<err, tempDir>>
       \/ Return("other") /\ UNCHANGED handler
    /\ UNCHANGED <<bs, opts, goos, prerelease, buildResult, bindings, runner,
                   metrics, tokenVars, syncToken>>

\* Mutant of RunnerFor: the switch without the Gradle case, which leaves
\* the runner variable nil (the switch has no default).
RunnerForNoGradle(b) ==
    IF b = "maven" THEN "jazzer"
    ELSE IF b \in {"cmake", "bazel", "other"} THEN "libfuzzer" ELSE "nil"

\* The runner runFuzzTest constructs for a build system.
RunnerFor(b) == IF b \in {"maven", "gradle"} THEN "jazzer" ELSE "libfuzzer"

\* runFuzzTest: os.MkdirAll of the generated corpus, fileutil.Exists of the
\* default seed corpus and filepath.EvalSymlinks of every corpus dir may
\* fail; for Bazel, `bazel info install_base` may fail (ErrSilent) and its
\* output is appended to readOnlyBindings. The RunnerOptions get
\* ReadOnlyBindings: []string{buildResult.BuildDir}. executeRunner returns
\* nil, an ExecError or a SignalError (module ExecuteRunner); run() wraps
\* an error from a failed child as WrapCouldBeSandboxError under
\* --use-sandbox (errors.As finds the *exec.ExitError the ExecError wraps).
RunFuzzTest ==
    /\ pc = "fuzz"
    /\ \/ Return("other") /\ UNCHANGED <<bindings, runner>>
       \/ /\ bs = "bazel"
          /\ Return("silent")
          /\ UNCHANGED <<bindings, runner>>
       \/ /\ bindings' = {"buildDir"}
          /\ runner' = RunnerFor(bs)
          /\ \E outcome \in {"none", "exec", "signal"} :
                IF outcome = "none"
                THEN pc' = "metrics" /\ UNCHANGED <<err, tempDir>>
                ELSE Return(IF outcome = "exec" /\ opts.useSandbox
                            THEN "sandbox" ELSE outcome)
    /\ UNCHANGED <<bs, opts, goos, prerelease, buildResult, handler, metrics,
                   tokenVars, syncToken>>

\* Mutant of PrintFinalMetrics: run() drops printFinalMetrics's error.
PrintFinalMetricsIgnoresError ==
    /\ pc = "metrics"
    /\ \/ Return("none") /\ UNCHANGED metrics
       \/ metrics' = TRUE /\ Return("none")
    /\ UNCHANGED <<bs, opts, goos, prerelease, buildResult, handler,
                   bindings, runner, tokenVars, syncToken>>

\* PrintCrashingInputNote, then printFinalMetrics: countCorpusEntries
\* (module CorpusCount) and the report handler's PrintFinalMetrics may
\* fail; run() returns nil after them.
PrintFinalMetrics ==
    /\ pc = "metrics"
    /\ \/ Return("other") /\ UNCHANGED metrics
       \/ metrics' = TRUE /\ Return("none")
    /\ UNCHANGED <<bs, opts, goos, prerelease, buildResult, handler,
                   bindings, runner, tokenVars, syncToken>>

\* A SIGINT or SIGTERM before executeRunner's signal.Notify takes Go's
\* default action: the process ends at once, without running deferred
\* calls. After Notify (which is never stopped) signals are caught.
Killed ==
    /\ pc \in {"prerun", "deps", "sync", "syncStore", "mktemp", "build",
              "report", "fuzz"}
    /\ pc' = "killed"
    /\ UNCHANGED <<bs, opts, goos, prerelease, tempDir, buildResult, handler,
                   bindings, runner, err, metrics, tokenVars, syncToken>>

Next ==
    \/ PreRunFails
    \/ PreRunOk
    \/ PreRunInvalid
    \/ CheckDependencies
    \/ SetupSync
    \/ DialogStore
    \/ MkdirTemp
    \/ BuildFuzzTest
    \/ NewReportHandler
    \/ RunFuzzTest
    \/ PrintFinalMetrics
    \/ Killed

\* The properties are invariants; the command may stop in any phase.
Spec == Init /\ [][Next]_vars

-----------------------------------------------------------------------------
(* Properties.                                                              *)

\* The fuzzer is only started on what the earlier phases vouched for: a
\* build system validate() accepted (with a build command for "other")
\* and buildFuzzTest supports on this OS, a real build result (the CMake
\* builder returns nil under --build-only), a report handler, and the
\* runner kind that build system needs.
RunnerStartedOnBuiltResult ==
    runner # "none" =>
        /\ bs \in KnownBuildSystems
        /\ bs = "other" => opts.buildCommand
        /\ goos = "windows" => bs \in WindowsBuildSystems
        /\ buildResult = "result"
        /\ handler
        /\ runner = RunnerFor(bs)

\* run() returns nil only for completed work: either --build-only, and no
\* fuzzer ran, or a fuzzing run that ended without error and whose final
\* metrics were printed.
NilErrorOnlyForCompletedWork ==
    (pc = "returned" /\ err = "none") =>
        \/ opts.buildOnly /\ runner = "none" /\ ~metrics
        \/ ~opts.buildOnly /\ runner # "none" /\ metrics

\* Spec 4.5.1 step 5: under --use-sandbox the runner gets every read-only
\* binding it needs, BuildDir and, for Bazel, the install base.
\* runFuzzTest computes readOnlyBindings with the install base and then
\* passes []string{buildResult.BuildDir}.
SandboxBindingsComplete ==
    (runner # "none" /\ opts.useSandbox /\ bs = "bazel")
        => "installBase" \in bindings

\* The contract run() implements: the phase abstracts pc, the fuzzer was
\* started once a runner was built.
Contract == INSTANCE RunContract
    WITH phase     <- IF pc \in {"returned", "killed"} THEN pc ELSE "running",
         tmp       <- tempDir,
         fuzzed    <- runner # "none",
         result    <- err,
         buildOnly <- opts.buildOnly

\* `cifuzz run` keeps the contract of module RunContract: every step of
\* run() is a step of the contract or leaves what it promises unchanged.
ContractRefined == Contract!CSpec

=============================================================================
