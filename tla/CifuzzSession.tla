--------------------------- MODULE CifuzzSession ---------------------------
(***************************************************************************)
(* `cifuzz run` and `cifuzz login` started side by side by one user: two   *)
(* processes that share only the access-token file, while the server may   *)
(* revoke tokens. Each step is a step of one of them or of the server;     *)
(* the other's state stays as it is.                                        *)
(***************************************************************************)
EXTENDS RunCommandProofs, LoginCommand

runVars == <<bs, opts, goos, prerelease, pc, tempDir, buildResult, handler,
             bindings, runner, err, metrics, syncToken>>

sessionVars == <<runVars, loginVars, tokenVars>>

SessionInit == Init /\ LoginInit

SessionNext ==
    \/ Next /\ UNCHANGED loginVars
    \/ LoginNext /\ UNCHANGED runVars
    \/ ServerRevokes /\ UNCHANGED <<runVars, loginVars>>

SessionSpec == SessionInit /\ [][SessionNext]_sessionVars

-----------------------------------------------------------------------------
(* Properties of the session.                                               *)

\* The token file changes only by one of the two store steps, each writing
\* the token its own check accepted: handleNewToken's access_tokens.Set
\* after IsTokenValid (run.go:917-937), and the store of setupSync's
\* server-connection dialog after the server accepted the token read.
\* Nothing else in either command writes it, and neither command stores a
\* token it did not check or that the other command read.
TokenStoredOnlyAfterCheck ==
    [][tokenFile' # tokenFile =>
         \/ lpc = "store" /\ lchecked /\ tokenFile' = ltoken
         \/ pc = "syncStore" /\ tokenFile' = syncToken]_sessionVars

\* What login has established at each step: a handler only holds a real
\* token, and the store step is reached only after the check accepted it.
LoginIInv ==
    /\ LoginTypeOK
    /\ lpc \in {"existing", "new", "store"} => ltoken # NoToken
    /\ lpc = "store" => lchecked
    /\ LoginNilOnlyForAcceptedToken

\* The inductive invariant of the session: run()'s and login's.
SessionIInv == IInv /\ LoginIInv

-----------------------------------------------------------------------------
(* Proofs.                                                                  *)

\* A session starts in a state of SessionIInv.
LEMMA SessionInitIInv == SessionInit => SessionIInv
<1> SUFFICES ASSUME SessionInit PROVE SessionIInv
    OBVIOUS
<1>1. IInv
    BY InitIInv DEF SessionInit
<1>2. LoginIInv
    BY DEF SessionInit, LoginInit, LoginIInv, LoginTypeOK,
           LoginNilOnlyForAcceptedToken, LoginErrors, Tokens, NoToken
<1>3. QED
    BY <1>1, <1>2 DEF SessionIInv

\* A step of login keeps the token file's type: it stores a token login
\* holds.
LEMMA LoginStepTokens ==
    ASSUME LoginIInv, TokensTypeOK, LoginNext PROVE TokensTypeOK'
BY DEF LoginIInv, LoginTypeOK, TokensTypeOK, LoginNext, LoginReadToken,
       LoginCheck, LoginStore, LoginReturn, tokenVars

\* A step of login keeps LoginIInv.
LEMMA LoginStepIInv ==
    ASSUME LoginIInv, TokensTypeOK, LoginNext PROVE LoginIInv'
<1> USE DEF LoginIInv, LoginTypeOK, LoginNilOnlyForAcceptedToken,
            LoginErrors, LoginReturn, tokenVars, TokensTypeOK, Tokens, NoToken
<1>1. CASE LoginReadToken
    BY <1>1 DEF LoginReadToken
<1>2. CASE LoginCheck
    BY <1>2 DEF LoginCheck
<1>3. CASE LoginStore
    BY <1>3 DEF LoginStore
<1>4. QED
    BY <1>1, <1>2, <1>3 DEF LoginNext

\* IInv speaks of run()'s variables and the tokens' type only.
LEMMA IInvFrame ==
    ASSUME IInv, UNCHANGED runVars, TokensTypeOK' PROVE IInv'
BY DEF IInv, TypeOK, runVars, RunnerFacts, RunnerFor, BeforeTemp, WithTemp

\* Every step of the session keeps SessionIInv.
LEMMA SessionNextIInv == SessionIInv /\ [SessionNext]_sessionVars => SessionIInv'
<1> SUFFICES ASSUME SessionIInv, [SessionNext]_sessionVars PROVE SessionIInv'
    OBVIOUS
<1>1. CASE Next /\ UNCHANGED loginVars
    <2>1. IInv'
        BY <1>1, NextIInv DEF SessionIInv
    <2>2. LoginIInv'
        BY <1>1 DEF SessionIInv, LoginIInv, LoginTypeOK,
                    LoginNilOnlyForAcceptedToken, loginVars
    <2>3. QED
        BY <2>1, <2>2 DEF SessionIInv
<1>2. CASE LoginNext /\ UNCHANGED runVars
    <2>1. TokensTypeOK'
        BY <1>2, LoginStepTokens DEF SessionIInv, IInv, TypeOK
    <2>2. QED
        BY <1>2, <2>1, LoginStepIInv, IInvFrame DEF SessionIInv, IInv, TypeOK
<1>3. CASE ServerRevokes /\ UNCHANGED <<runVars, loginVars>>
    <2>1. TokensTypeOK'
        BY <1>3 DEF SessionIInv, IInv, TypeOK, TokensTypeOK, ServerRevokes
    <2>2. LoginIInv'
        BY <1>3 DEF SessionIInv, LoginIInv, LoginTypeOK,
                    LoginNilOnlyForAcceptedToken, loginVars
    <2>3. QED
        BY <1>3, <2>1, <2>2, IInvFrame DEF SessionIInv
<1>4. CASE UNCHANGED sessionVars
    BY <1>4 DEF SessionIInv, IInv, TypeOK, TokensTypeOK, RunnerFacts,
                LoginIInv, LoginTypeOK, LoginNilOnlyForAcceptedToken,
                sessionVars, runVars, loginVars, tokenVars
<1>5. QED
    BY <1>1, <1>2, <1>3, <1>4 DEF SessionNext

\* SessionIInv holds in every state of the session.
THEOREM SessionIInvHolds == SessionSpec => []SessionIInv
BY SessionInitIInv, SessionNextIInv, PTL DEF SessionSpec

\* With `cifuzz login` and the server acting in between, run() keeps its
\* inductive invariant, so every property RunCommandProofs proves of run()
\* alone holds in the session too.
THEOREM SessionRunInvariant == SessionSpec => []IInv
BY SessionIInvHolds, PTL DEF SessionIInv

\* `cifuzz login` returns nil only for a token the server accepted, on the
\* stdin, token-file and prompt paths, whatever run() and the server do.
THEOREM LoginNilAccepted == SessionSpec => []LoginNilOnlyForAcceptedToken
BY SessionIInvHolds, PTL DEF SessionIInv, LoginIInv

\* The token file is written only with a checked token (the action
\* property TokenStoredOnlyAfterCheck), in every interleaving.
THEOREM TokenWritesChecked == SessionSpec => TokenStoredOnlyAfterCheck
<1>1. SessionIInv /\ [SessionNext]_sessionVars =>
        [tokenFile' # tokenFile =>
           \/ lpc = "store" /\ lchecked /\ tokenFile' = ltoken
           \/ pc = "syncStore" /\ tokenFile' = syncToken]_sessionVars
    <2> SUFFICES ASSUME SessionIInv, [SessionNext]_sessionVars,
                        tokenFile' # tokenFile
                 PROVE  \/ lpc = "store" /\ lchecked /\ tokenFile' = ltoken
                        \/ pc = "syncStore" /\ tokenFile' = syncToken
        OBVIOUS
    <2>1. CASE Next /\ UNCHANGED loginVars
        <3>1. ~SetupSync
            BY DEF SetupSync, ServerConnectionDialog, Return
        <3>2. DialogStore
            BY <2>1, <3>1 DEF Next, PreRunFails, PreRunOk, PreRunInvalid,
                        CheckDependencies, MkdirTemp, BuildFuzzTest,
                        NewReportHandler, RunFuzzTest, PrintFinalMetrics,
                        Killed, tokenVars
        <3>3. QED
            BY <3>2 DEF DialogStore, Return
    <2>2. CASE LoginNext /\ UNCHANGED runVars
        BY <2>2 DEF LoginNext, LoginReadToken, LoginCheck, LoginStore,
                    tokenVars, SessionIInv, LoginIInv
    <2>3. CASE ServerRevokes /\ UNCHANGED <<runVars, loginVars>>
        BY <2>3 DEF ServerRevokes
    <2>4. CASE UNCHANGED sessionVars
        BY <2>4 DEF sessionVars, tokenVars
    <2>5. QED
        BY <2>1, <2>2, <2>3, <2>4 DEF SessionNext
<1>2. QED
    BY <1>1, SessionIInvHolds, PTL DEF SessionSpec, TokenStoredOnlyAfterCheck

\* The refinement of RunContract survives the composition: the steps of
\* login and of the server leave the contract's state unchanged.
THEOREM SessionContract == SessionSpec => ContractRefined
<1>1. SessionInit => Contract!CInit
    BY InitRefines DEF SessionInit
<1>2. SessionIInv /\ [SessionNext]_sessionVars =>
        [Contract!CNext]_Contract!cvars
    <2> SUFFICES ASSUME SessionIInv, [SessionNext]_sessionVars
                 PROVE  [Contract!CNext]_Contract!cvars
        OBVIOUS
    <2>1. CASE Next /\ UNCHANGED loginVars
        BY <2>1, NextRefines DEF SessionIInv
    <2>2. CASE UNCHANGED runVars
        BY <2>2 DEF runVars, Contract!cvars
    <2>3. QED
        BY <2>1, <2>2 DEF SessionNext, sessionVars
<1>3. QED
    BY <1>1, <1>2, SessionIInvHolds, PTL
       DEF SessionSpec, ContractRefined, Contract!CSpec

=============================================================================
