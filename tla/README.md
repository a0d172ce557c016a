# TLA+ models of cifuzz's fuzz-run orchestration

These modules model the parts of `src/` where the order of events or the handling of
edge cases decides the outcome. That means goroutines racing on a signal, a loop
that gives up early, and a merge whose result depends on Go's map order. Each
module is translated from the Go code named in `PROJECT.json` → `map`.

## 1. Inventory

### Components and how they interact

`cifuzz run` (`src/internal/cmd/run/run.go`; an older copy is in `src/unnamed/part_001`)
goes through these steps in order: `validate` → `checkDependencies` → `buildFuzzTest`,
which uses a CMake/Maven/Bazel/other builder → `NewReportHandler` → `runFuzzTest` →
`printFinalMetrics`.

`runFuzzTest` does the following:
- It creates the generated corpus.
- It collects the seed directories.
- It computes the sandbox bindings.
- It builds a libFuzzer or Jazzer runner.
- It calls `executeRunner`.

`executeRunner` starts two goroutines in an errgroup:
- **G1, the signal listener.** It does a `select` on `routinesCtx.Done()` and on
  a 1-slot signal channel. On a signal it sets `signalErr`, calls
  `runner.Cleanup` and returns the error.
- **G2, the runner.** It returns `runner.Run(routinesCtx)`. A deferred call
  cancels the listener's parent context.

The errgroup keeps the first non-nil error and cancels the context with it.
`executeRunner` then returns `signalErr` if it is set, and otherwise the
group's error.

The runner sets the fuzzer's environment. `SetCommonASANOptions` and
`SetCommonUBSANOptions` (`src/unnamed/part_004`) merge the user's
`ASAN_OPTIONS`/`UBSAN_OPTIONS` with defaults (set if missing) and mandatory
overrides (replace). They use `SetSanitizerOptions`.

With `--use-sandbox`, the command is wrapped in minijail:
- `src/unnamed/part_002` is the config-file version.
- `src/unnamed/part_003` is the legacy version with `-b` flags and
  `Binding.String`/`BindingFromString`.
- `process_wrapper` (C, `part_004`) changes to the working directory and runs
  `execv` on the fuzzer.

After the run, `printFinalMetrics` counts the corpus with `countCorpusEntries`.

`cifuzz login` (package `login` in run.go, from line 791) shares two things
with `cifuzz run`: the access-token file, which `login` writes and `run`'s
`setupSync` reads (`getAuthStatus`) and may write (the server-connection
dialog), and the server, which may revoke a token at any time. `login` takes
a token from piped stdin, else from the token file, else from the prompt,
asks the server with `IsTokenValid`, and stores a new token with
`access_tokens.Set`.

The report handler, the output parser, the bundler and the libFuzzer/Jazzer
runners are not under `src/`. Only what the runner does as seen from
`executeRunner` enters the models, and it is marked spec-modelled in the map.

### State, operations and hard behaviour

| part | state | operations | hard behaviour |
|---|---|---|---|
| executeRunner | signal buffer, ctx, errgroup error, `signalErr`, goroutine PCs, child process | signal delivery, child exit, select (two cases), Cleanup, return of each goroutine, Wait | random `select` when both cases are ready; signals dropped when the buffer is full; Ctrl-C also reaching the child |
| final metrics | directories on disk, their files and sizes, the list, loop index, sum | MkdirAll, fuzzer writes, one WalkDir per list element, early return | early `return 0` on a missing directory; repeated directories |
| sanitizer options | split fields, pending map keys | defaults loop, overrides loop, JoinNonEmpty | map iteration order; repeated keys; empty fields |
| login and the token file | login's step, its token, whether the server accepted it; the file's token; the revoked tokens | read the token, IsTokenValid, access_tokens.Set, revocation | the check and the store are separate steps; a revoked stored token is found before the prompt |
| run pipeline | phase, temp dir, build result, report handler, runner, bindings, error | each step of `run()`/`runFuzzTest` with its early returns; SIGINT before `signal.Notify` | a return that skips later steps; a process killed between `MkdirTemp` and its deferred cleanup |
| minijail (config file) | package-global config lines, per-call config, chroot directory | NewMinijail (ok, or failing at any of its steps), Cleanup | global appended across calls; missing `/`; chroot left on error paths; order of read-write mounts |
| minijail (legacy) and bindings | the variable in the process environment and in an env list, the chroot, the `-b` list | the two add functions, NewMinijail (early errors, or parse, sort, filter), Cleanup | comma or colon in a path; order of mounts; unstable sort on equal targets |

The hazards are listed in `PROJECT.json`, each at the line where it bites.

## 2. Plan

Modules in the order they were built:
1. `ExecuteRunner`: the core concurrency. `MCExecuteRunner` sets the constants.
   `ExecuteRunnerProofs` holds the TLAPS proofs and `MCExecuteRunnerProofs` is
   its TLC instance.
2. `CorpusCount`, with `MCCorpusCount`; `CorpusCountProofs` holds its
   proofs (the MC module extends it, so the runs check `CountIInv`).
3. `SanitizerOptions`, with `MCSanitizerOptions`.

4. `RunCommand`: the `run()`/`runFuzzTest` pipeline (no constants, so no MC
   module).
5. `MinijailConfig`, with `MCMinijailConfig`.
6. `MinijailBinding`, with `MCMinijailBinding`.
7. `AccessTokens` (the shared token file and the server), `LoginCommand`
   and `CifuzzSession`, which runs `RunCommand` and `LoginCommand` next to
   each other and the server.
8. `RunContract`, the abstract specification of `cifuzz run`, refined by
   `RunCommand` (`Contract`, `ContractRefined`).
9. `RunnerContract`, the abstract specification of `executeRunner`, refined
   by `ExecuteRunner` (`Contract`, `RunnerContractRefined`).

Planned next:
- `CMakeDeps`: the runtime-dependency line classification.

## 3. Modules

### ExecuteRunner (run.go:659-705)

Variables:
- `sigs`: the number of buffered signals, at most `SigBufCap`.
- `ctxDone`, `groupErr`: the errgroup's state.
- `signalErr`.
- `g1`, `g2`, `main`: the goroutine program counters.
- `child`: the fuzzer process.
- `result`: the returned error.
- `sent`: the number of signals delivered, bounded by `MaxSignals`.
- `sigBeforeExit`: a history variable, set when a signal arrived while the
  child was running.

Actions:
- `G1Done` and `G1Receive` are the two `select` cases. Each is enabled exactly
  when its channel is ready.
- `G1Cleanup` is `runner.Cleanup`. It sends SIGTERM, which the child may
  survive, so the child is either killed by it or still running.
- `G1Return` goes through `RecordError`, the errgroup's first-error-and-cancel
  rule.
- `G2Return` is the runner goroutine's return with the deferred cancel.
- `MainReturn` is `Wait` plus the choice of error.
- `SignalArrives` is `signal.Notify`'s non-blocking send. Because a terminal
  Ctrl-C reaches the whole foreground process group, it may also kill the
  child.
- `ChildExits` and `RunCtxKill` are the runner's behaviour (spec 4.5.1 and 5).

Fairness is weak fairness on each goroutine step:
- The Go scheduler runs a runnable goroutine eventually.
- A ready `select` case stays ready until it is taken.
- The child and the OS get no fairness, because a fuzzer may run forever.

`Contract` instantiates `RunnerContract` with this refinement mapping:
- the phase is `main`;
- a signal is handled once `signalErr` is set;
- the fuzzer is "running", "clean" for `exitedOk`, or "failed" for every
  other way the child can end (`FuzzerView`);
- the result is `result`.

### RunnerContract (abstract)

What `executeRunner` promises, without goroutines, channel or errgroup:
- `Handle`: a signal may be handled while the run is in progress.
- `FuzzerEnds`: the fuzzer ends, cleanly or not.
- `Return`: the function returns once, after the fuzzer is gone, with
  `Classify`. That is the signal error if a signal was handled, else nil for
  a clean exit and an exec error otherwise.

### CorpusCount (run.go:484-500, 567-574, 707-738)

Directories and files are model values. `Home` places each file in one
directory. `Init` is the state after `runFuzzTest` has created the generated
corpus:
- The user's seed dirs exist, because `validate` checked them.
- The default seed corpus may or may not exist.

Each action has one role:
- `FuzzerWritesInput` is the fuzzer adding inputs.
- `printFinalMetrics` builds the list.
- `WalkDirMissing`, `WalkDirCount` and `CountReturn` are the loop.

### SanitizerOptions (part_004:53-62, 97-177, 243-252)

`san` says which caller ran, `SetCommonASANOptions` or
`SetCommonUBSANOptions`, and `tty` whether cifuzz's stderr is a terminal.
`CommonDefaults` and `CommonOverrides` are the maps each caller passes: the
`color` default of `defaultSanitizerOptions` (`ColorValue`), plus
`print_stacktrace=1` for UBSan; the overrides `exitcode=78` and
`log_path=stderr` for ASan, `log_path=stderr` only for UBSan.
A field is a `<<key, value>>` pair or `Empty`.
- `ApplyDefault` is one iteration of the defaults loop, for any remaining key,
  because Go's map order is unspecified.
- `ApplyOverride` is one iteration of the overrides loop. It replaces the first
  setting only.
- `JoinNonEmpty` drops empty fields.

`Effective(s, k)` is the value a sanitizer runtime uses. It parses left to
right and the last setting wins.

### RunCommand (run.go:63-627)

`pc` is the step `run()` is at. `opts` is one of the option records `New` and
`validate` accept: the build system, `--build-only`, `--use-sandbox` and the
Bazel binary. Each step is one action with the code's guard and early returns:
- `PreRunOk`, `PreRunFails` and `PreRunInvalid` are `PreRunE` (build system
  detection and `validate`);
- `CheckDependencies`, `SetupSync` and `MkdirTemp`. `SetupSync` includes
  `getAuthStatus` (`AuthStatus`: no token, a valid one, or one the server
  rejects, which aborts the run) and the server connection dialog
  (`ServerConnectionDialog`: a failed `Select`, "Skip", or "Yes", which
  reads a token and has the server check it; an accepted token is held in
  `syncToken` and the phase is `syncStore`);
- `DialogStore` is the store that `ReadCheckAndStoreTokenInteractively`
  does after the check (outside src/, modelled like `handleNewToken`). It
  is a step of its own, so a revocation can fall between check and store,
  as it can for login. The write may fail, which is an error return;
- `BuildFuzzTest`, with the Windows refusal, the builder's errors (for Maven,
  `MavenBuildErrors` collects those of each step of `maven.go`), the CMake
  branch that returns a nil result under `--build-only`, and `run()`'s
  build-only return;
- `NewReportHandler`, `RunFuzzTest` (file-system errors, `bazel info`,
  bindings and runner construction, then the outcome of `executeRunner`) and
  `PrintFinalMetrics`;
- `Killed` is a SIGINT before `signal.Notify` is installed: the default
  action ends the process and no deferred call runs.

`Return(e)` is every return of `run()`: it runs the deferred cleanup of the
temporary directory when that directory exists.

`Contract` instantiates `RunContract` with the refinement mapping: the
contract's phase is `pc` collapsed to running, returned or killed; its
temporary directory is `tempDir`; it has fuzzed once a runner was built; its
result is `err`; `--build-only` is `opts.buildOnly`.

### RunContract (abstract)

What `run()` promises its caller, without its phases. `MakeTemp` creates the
one temporary directory; `Fuzz` runs the fuzzer once, never under
`--build-only`, and may end the command with the runner's error; `Fail` is any
error return; `Succeed` returns nil after a `--build-only` build or a fuzzing
run; `Kill` ends the process before the fuzzer started. Every return removes
the temporary directory.

### AccessTokens (shared state; `access_tokens` is outside `src/`)

`tokenFile` is `access_tokens.Get(server)` for the one server modelled (a
token or `NoToken`, the empty string); `revoked` is the set of tokens the
server's `IsTokenValid` rejects. `ServerRevokes` is a user revoking a token in
the web interface. Both commands start from any file content and any server
state.

### LoginCommand (run.go:809-954)

`lpc` is the step: `start`, `existing` or `new` (inside
`handleExistingToken`/`handleNewToken`), `store`, `returned`.
- `LoginInit` is `RunE`'s options (`--interactive`; one server, so the URL
  fix-up is left out).
- `LoginReadToken` is `run()` up to the handler: stdin is read when it is not
  a terminal (`io.ReadAll` may fail, blank input is no token); with no token
  the file's token goes to `handleExistingToken`; with still none, an
  interactive run on a terminal prompts (`ReadSecret` may fail); with still
  none it is a usage error.
- `LoginCheck` is `IsTokenValid` in either handler: a failed request, a
  rejected token (silent error), or an accepted one, after which the existing
  path returns nil and the new path goes on to store it.
- `LoginStore` is `access_tokens.Set`, which may fail.

The server call and the file write are separate steps so that the other
command and the server can act between them.

### CifuzzSession (composition)

`SessionNext` interleaves a step of `run()`, a step of `login` and a
revocation; each leaves the others' variables unchanged. No fairness is
assumed: the properties checked on it are safety properties and the
refinement. `TokenStoredOnlyAfterCheck` is an action property: every change
of the token file is `LoginStore` writing the token `LoginCheck` accepted, or
`DialogStore` writing the token the dialog's check accepted. In both
commands the check and the store are separate steps. The module also
holds the session's proofs (section 5).

### MinijailConfig (part_002:78-376)

Paths are model values. `Exists` is the set of host paths that exist.
`TmpPath[n]` is `/tmp/<n>` and `TmpConcat[n]` the path `"/tmp" + n` that the
code builds. A call is `NewMinijailOk` or `NewMinijailFails` at one of the
steps that can return an error, and calls run one after the other.
`AllBindings` is the list in the order the code appends it. `Mounted` is the
loop that defaults the target and skips a missing source. `configLines` is the
package variable `minijailConfigLines` (only its bind-mounts, since the fixed
lines are the same in every file). `config[k]` is what call `k` writes.

### MinijailBinding (part_003:45-136, 207-407)

This is the legacy `-b` sandbox. A path is a sequence of one-character
strings, so that `Binding.String`, `strings.SplitN`, `strings.Split`,
`strconv.Atoi` and Go's string order (`LexLess`, byte-wise) are modelled by
what they do.
- `AddMinijailBindingDeprecated` appends to the process environment and
  `AddMinijailBindingToEnv` to an env list; `ExportEnvList` is a caller making
  that list the process environment.
- `NewMinijailFailsEarly` is every error return before the variable is read
  (the chroot directory exists after `os.MkdirTemp`).
- `NewMinijailReads` is the rest: the parse of the variable (its first
  `BindingFromString` error is returned), the caller's, the default and
  NewMinijail's own bindings (`OwnBindings`), the target fill-in,
  `sort.Slice` by target (`SortedByTarget`: any order among equal targets, as
  the sort is not stable), the existence filter with a possible error from
  creating a destination, and the `-b` list `args`.
- `Cleanup` removes the chroot of a returned sandbox.

## 4. Runs

| run | result | what it shows |
|---|---|---|
| `execute_runner` | pass (213 states) | `NilOnlyOnCleanExit`: nil is returned only when the fuzzer exited by itself without error and no signal was handled. `CleanupKillReportedAsSignal`: a fuzzer killed by Cleanup is always reported as the signal, never as the runner's "unexpected exit code". `SignalEndsRun`: a buffered signal always ends the run, under the fairness above. `IInv`, the inductive invariant of the proofs, holds on the instance (the run uses `MCExecuteRunnerProofs`). `RunnerContractRefined`: every interleaving is a behaviour of `RunnerContract`. |
| `execute_runner_signal_precedence` | **violation** | `SignalPrecedence` (spec §8 property 7) fails. The Ctrl-C kills the child, G2 returns the ExecError first, which cancels the ctx, and G1's `select` takes `ctx.Done()` although the signal is buffered. `executeRunner` returns the ExecError. |
| `corpus_count` | pass (16000 states) | With no repeated directory and all directories present, the count equals the non-empty entries of the union. `CountIInv`, the inductive invariant of `CorpusCountProofs`, holds too. |
| `corpus_count_generated` | **violation** | Without a default seed corpus, the final count is 0 however many inputs were generated (`return 0, nil` at run.go:729). |
| `sanitizer_options` | pass (40696 states) | For ASAN_OPTIONS and UBSAN_OPTIONS, and user options without repeated keys, each option appears once, with the override, user or default value of spec property 3, in every map order. |
| `run_command` | pass (1163008 states) | The module is `CifuzzSession`: `cifuzz run` next to `cifuzz login` and token revocations, over every option record, every failing step and every token state. A runner is started only on a non-nil build result. A nil error is returned only when the requested work was completed. `SessionIInv`, the inductive invariant of the session proofs (which contains `IInv` of `RunCommandProofs`), holds. `TokenStoredOnlyAfterCheck`: the token file only changes by one of the two store steps, each writing the token its own check accepted. `LoginNilOnlyForAcceptedToken`: login returns nil only for a token the server accepted, on the stdin, file and prompt paths. `ContractRefined`: `run()` implements `RunContract` under the mapping `Contract`. |
| `run_command_bindings` | **violation** | With Bazel and `--use-sandbox`, the runner is given the build directory only; the install base `runFuzzTest` computed is not among the bindings. |
| `minijail_config` | pass (911 states) | Over two sandboxes in one process, `/dev/null`, `/dev/urandom`, the working and output directories are writable in every config file, with callers that bind the build, output or working directory read-only. |
| `minijail_config_own_bindings` | **violation** | The second sandbox's config file also holds the first sandbox's bind-mounts. |
| `minijail_config_tmp_subdirs` | **violation** | An existing `/tmp/<n>` is never mounted: the code looks for `/tmp<n>`. |
| `minijail_binding` | pass (38454 states) | Bindings whose paths hold no `,` or `:`, added by either function, are parsed back exactly and in order; and in every legacy sandbox no `-b` mount comes after a mount below its target, whatever order the bindings were supplied in and whichever order the unstable sort leaves equal targets in. |
| `minijail_binding_round_trip` | **violation** | A path with `,` splits the three fields wrongly: TLC's trace turns `/,` into `/,,/,,0`, and the third field is no longer the flag. A `:` splits the variable's list in the same way, but the trace does not show it. |

Four more disagreements were seen with TLC while modelling and are kept as
hazards in `PROJECT.json` rather than as runs: the default seed corpus counted
twice when `--seed-corpus` names it (run.go:568); a user's second `exitcode=`
setting surviving the mandatory override (part_004:124); the temporary
directory left by a Ctrl-C before `signal.Notify` (the `Killed` action,
run.go:286: every return removes the directory by the deferred call, but
`Killed` ends the process without running it, so "no directory is left
when the process ends" is false by that one step); and the chroot directory left by every error return of the
config-file `NewMinijail` after `os.MkdirTemp` (part_002:183-341). A fifth,
seen the same way, is in the legacy sandbox: a caller's read-only binding of
the working directory and NewMinijail's read-write one have the same target,
and the unstable sort may put either last (part_003:336).

Every property of a passing run has a mutant in `PROJECT.json`: a plausible bug
in the mapped code that makes TLC find the property violated.

### Bounds

- **ExecuteRunner:** `SigBufCap = 1` is the code's `make(chan os.Signal, 1)`.
  `MaxSignals = 2` covers a signal that fills the buffer and one that is
  dropped, which is the drop path.
- **CorpusCount:**
  - one user directory;
  - `--seed-corpus` lists of up to 2 entries, so the default seed corpus can
    appear once or twice and the user's directory twice;
  - four files: one in each seed directory and two in the generated corpus,
    one old and one written by the run.
- **SanitizerOptions:** up to 4 user fields over the keys cifuzz sets and
  one other key, each set to a value cifuzz never uses. That is enough for a
  repeated key together with an empty field, for either caller and either
  terminal state.
- **RunCommand:** the input sets are small already: every build system the
  code distinguishes, both values of each flag, both operating systems.
- **Tokens:** two tokens and no-token. With two tokens a revoked stored token
  can be replaced by a valid one (through the dialog, stdin or the prompt),
  and a revocation can fall between login's check and its store. Each run or
  login is one command, so there is nothing further to count.
- **MinijailConfig:** two calls (`MaxCalls = 2`), so a second call sees what
  the first left in the package variable; one `/tmp` sub-directory; three
  option records, each passing a read-only binding: of the build directory
  or of the output directory (with an output directory), or of the working
  directory. The last two are paths the code later mounts read-write.
- **MinijailBinding:** up to two bindings (`MaxAdds = 2`) over four paths:
  plain ones, a symlink (`/b` resolves to `/a`), one with `,` and one with `:`.
  The sandbox has the working directory `/a` and its own bindings at `/b`.
  The caller passes nothing, `/a/b` read-write (below the working directory,
  so the sort matters) or `/a` read-only (the working directory itself, so
  equal targets meet in the sort).

## 5. Proofs (TLAPS)

`ExecuteRunnerProofs` proves five theorems for every value of the constants
that satisfies `ConstantsAssumption`, that is, any positive buffer capacity
and any bound on signals:
- `IInvHolds`: `Spec => []IInv`;
- `TypeCorrect`: `Spec => []TypeOK`. In particular the buffer never holds
  more than its capacity.
- `CleanupKillIsSignal`: `Spec => []CleanupKillReportedAsSignal`.
- `NilOnlyClean`: `Spec => []NilOnlyOnCleanExit`.
- `RunnerContractImplemented`: `Spec => RunnerContractRefined` (below).

Neither property is inductive on its own. The strengthening `IInv` adds
these facts:
- the listener is past `select` only after setting `signalErr`;
- a child killed by Cleanup implies `signalErr` is set;
- a returned `executeRunner` has no goroutine left, so neither `signalErr`
  nor the errgroup's error can change after the return;
- the result is `signalErr` if set, else the errgroup's error;
- once the runner goroutine returned the child is gone, and if the errgroup
  then holds no error the child exited cleanly (the runner's error is
  recorded at its return, and only a clean exit gives none).

The refinement needs three more facts:
- `signalErr` is unset while the listener selects;
- the errgroup holds the signal error only once `signalErr` is set;
- it holds an exec error only for a child that is gone without a clean exit.

`IInv` is checked by TLC first, in the run `execute_runner`. The proof is in three
parts:
- `InitIInv`;
- `NextIInv`, with one case per action;
- the temporal step by PTL.

The Boolean-typed variables are handled in a lemma of their own
(`NextBooleans`) by Zenon.

`RunnerContractImplemented` is proved like the refinement of `RunContract`:
- `InitRefines`: an initial state maps to the contract's.
- `NextRefines`: under `IInv`, each step maps as follows.
  - `G1Receive` is `Handle`.
  - A child's end in `SignalArrives`, `ChildExits`, `G1Cleanup` or
    `RunCtxKill` is `FuzzerEnds`.
  - `MainReturn` is `Return`. `IInv` shows that its result equals
    `Classify`, with one case per value of `signalErr` and the errgroup's
    error.
  - The other steps touch only what the contract does not see: the buffer,
    the context and the errgroup.
- The temporal step combines them with `IInvHolds` by PTL.

`RunCommandProofs` proves five theorems about the `run()` pipeline. The
module has no constants, so the theorems cover every option record, build
system, OS and failing call of the model, as the run does; what the proof
adds is that no bound on the search hides a case. The theorems are:
- `TypeCorrect`: `Spec => []TypeOK`;
- `RunnerStartedSafely`: `Spec => []RunnerStartedOnBuiltResult`;
- `NilErrorCompleted`: `Spec => []NilErrorOnlyForCompletedWork`;
- `IInvHolds`: `Spec => []IInv`;
- `ContractImplemented`: `Spec => ContractRefined` (below).

Neither property is inductive on its own. `IInv` states, by
phase, what the earlier steps established:
- the temporary directory is absent before `MkdirTemp` and present from the
  build up to the return;
- past `PreRunE` the build system is a known one, and "other" has a build
  command;
- from the report handler on, `--build-only` is off, the build result is
  real and the build system is one Windows supports when on Windows;
- the runner and the metrics are unset until `runFuzzTest` and
  `printFinalMetrics` set them, and a set runner carries all of the facts
  `RunnerStartedOnBuiltResult` names.

`InitIInv` and `NextIInv` (one case per action, split by disjunct where an
action has several) are proved by SMT; each theorem follows from `IInv` by
PTL. The token file and the revoked set are in `vars`, so `IInv` carries their
type (`TokensTypeOK`), and `SetupSync`'s dialog and `DialogStore` are shown to keep it.

`ContractImplemented`, `Spec => ContractRefined`, is the refinement proof:
- `InitRefines`: an initial state of `run()` maps to one of `RunContract`;
- `NextRefines`: under `IInv`, every step maps to a contract step or a
  stutter. Error returns are `Fail`. `MkdirTemp` is `MakeTemp`.
  `RunFuzzTest` with its runner is `Fuzz`. The nil returns are `Succeed`.
  `Killed` is `Kill`. `IInv` supplies what the contract's guards need: the
  directory exists from the build on, the runner is unset before
  `runFuzzTest`, and `--build-only` is off once the fuzzing run is reached.
- The temporal step combines them with `IInvHolds` by PTL.

`CifuzzSession` proves the same results for the composition, where
`cifuzz login` and the server act between run()'s steps:
- `SessionIInvHolds`: `SessionSpec => []SessionIInv`, where `SessionIInv` is
  `IInv` together with `LoginIInv`. `LoginIInv` adds login's facts: a
  handler holds a real token, and the store step comes only after an
  accepted check.
  - Run steps keep `IInv` by `NextIInv` and leave login's state alone.
  - Login steps leave run()'s variables alone. They keep the token file's
    type because they store the token they hold (`LoginStepTokens`).
    `IInvFrame` says `IInv` reads nothing else.
  - Revocations only grow the revoked set.
- `SessionRunInvariant`: `SessionSpec => []IInv`;
- `LoginNilAccepted`: `SessionSpec => []LoginNilOnlyForAcceptedToken`;
- `TokenWritesChecked`: `SessionSpec => TokenStoredOnlyAfterCheck`. This is
  the action property, proved from `SessionIInv` step by step. Of run()'s
  actions only `DialogStore` writes the file, and it writes `syncToken`,
  the token the dialog's check accepted. Of login's, only `LoginStore`
  does, and at that point `LoginIInv` gives the accepted check.
- `SessionContract`: `SessionSpec => ContractRefined`. Run steps map as in
  `NextRefines`; login and server steps leave the contract's state alone.

`CorpusCountProofs` proves `CountIsUnion`
(`Spec => []CountIsUnionOnDistinctPresentDirs`), `CountIInvHolds`
(`Spec => []CountIInv`) and `TypeCorrect` (`Spec => []TypeOK`), for any directories holding disjoint sets of files (`Home` places each file in one directory) and any
finite set of files (`IsFiniteSet(Files)` is part of `CorpusAssumption`: a
directory lists finitely many entries). The inductive invariant `CountIInv`
states what the loop has done after walking `list[1..i-1]`:
- every directory walked exists, since a missing one ends the loop;
- if the list names no directory twice, `numSeeds` is the size of `Walked`,
  the union of their non-empty entries;
- the return is `numSeeds` after the last directory, or the 0 of a missing
  one.

The step of `WalkDirCount` rests on the lemma `WalkOne`. The directory
walked next is distinct from those before it, and a file lives in one
directory only. So its entries are disjoint from `Walked`, and the
cardinality adds up (`FS_Union`). The other facts used are `FS_Subset` and
`FS_CardinalityType` from the library, and `EntriesFinite`.

Model-checked only:
- `SignalEndsRun`, because liveness is out of the prover's reach.
- The SanitizerOptions and Minijail properties. They are about what
  `SelectSeq` (the existence filter of `Mounted`, `JoinNonEmpty`) and loops
  over sequences return for every input. That needs induction over
  sequences. Every induction rule of the library (`NatInduction`,
  `FS_Induction`, `GeneralNatInduction`, `SmallestNatural`) takes an operator
  parameter, which the installed provers cannot instantiate. Even the type
  of `SelectSeq`'s result, a recursive function over the indices, needs one. `MinijailBinding` also extends `SequencesExt`, which
  reaches the RECURSIVE operators of `Folds`.

## 6. Not modelled

These parts have no state worth a model: pure HTTP and marshalling (`api`;
the projects client in `api/project.go` only builds requests and decodes
responses), file extraction (`installer`), build-tool invocations (Maven,
CMake `Configure`/`Build`) and configuration files. The reasons are recorded
per component in `PROJECT.json`. The CMake dependency classifier is planned, and their hazards are already
listed.
