--------------------------- MODULE LoginCommand ---------------------------
(***************************************************************************)
(* The `cifuzz login` command (package login, in run.go from line 791):    *)
(* RunE builds the options, then loginCmd.run() obtains a token from piped *)
(* stdin, from the token file, or by asking on the terminal, and passes    *)
(* it to handleExistingToken or handleNewToken, which ask the server       *)
(* whether the token is valid; handleNewToken then stores it.              *)
(*                                                                          *)
(* The token file and the server are the state shared with `cifuzz run`    *)
(* (module AccessTokens). The call to the server and the write of the      *)
(* file are steps of their own, so the other command and the server can    *)
(* act between them.                                                        *)
(***************************************************************************)
EXTENDS AccessTokens

\* Errors, by kind: "usage" (WrapIncorrectUsageError), "silent"
\* (WrapSilentError), "other".
LoginErrors == {"none", "usage", "silent", "other"}

VARIABLES
    linteractive, \* opts.Interactive (--interactive)
    lpc,          \* "start", "existing" / "new" (in handleExistingToken /
                  \* handleNewToken), "store", "returned"
    ltoken,       \* the token run() obtained
    lchecked,     \* IsTokenValid accepted ltoken
    lerr          \* the error run() returns

loginVars == <<linteractive, lpc, ltoken, lchecked, lerr>>

LoginTypeOK ==
    /\ linteractive \in BOOLEAN
    /\ lpc \in {"start", "existing", "new", "store", "returned"}
    /\ ltoken \in Tokens \cup {NoToken}
    /\ lchecked \in BOOLEAN
    /\ lerr \in LoginErrors

\* RunE: the options from the flags. An invalid --server URL is only
\* logged (and prefixed with https://); one server is modelled.
LoginInit ==
    /\ linteractive \in BOOLEAN
    /\ lpc = "start"
    /\ ltoken = NoToken
    /\ lchecked = FALSE
    /\ lerr = "none"

LoginReturn(e) == lpc' = "returned" /\ lerr' = e

\* run() up to the handler it calls. If stdin is not a terminal the token
\* is read from it (io.ReadAll may fail; blank input gives ""). With no
\* token yet, the file's token goes to handleExistingToken. With still no
\* token, an interactive run on a terminal opens the browser (its error is
\* only logged) and reads the token with dialog.ReadSecret, which may
\* fail. With still no token it is a usage error; otherwise the token goes
\* to handleNewToken.
LoginReadToken ==
    /\ lpc = "start"
    /\ \E tty, readOk \in BOOLEAN, piped, typed \in Tokens \cup {NoToken} :
          LET stdinToken == IF tty THEN NoToken ELSE piped
              prompt     == linteractive /\ tty
          IN \/ ~tty /\ ~readOk /\ LoginReturn("other")
                /\ UNCHANGED ltoken
             \/ /\ tty \/ readOk
                /\ \/ stdinToken # NoToken
                      /\ ltoken' = stdinToken /\ lpc' = "new"
                      /\ UNCHANGED lerr
                   \/ stdinToken = NoToken /\ tokenFile # NoToken
                      /\ ltoken' = tokenFile /\ lpc' = "existing"
                      /\ UNCHANGED lerr
                   \/ stdinToken = NoToken /\ tokenFile = NoToken
                      /\ prompt /\ readOk /\ typed # NoToken
                      /\ ltoken' = typed /\ lpc' = "new"
                      /\ UNCHANGED lerr
                   \/ stdinToken = NoToken /\ tokenFile = NoToken
                      /\ prompt /\ ~readOk
                      /\ LoginReturn("other") /\ UNCHANGED ltoken
                   \/ stdinToken = NoToken /\ tokenFile = NoToken
                      /\ ~(prompt /\ readOk /\ typed # NoToken)
                      /\ ~(prompt /\ ~readOk)
                      /\ LoginReturn("usage") /\ UNCHANGED ltoken
    /\ UNCHANGED <<linteractive, lchecked, tokenVars>>

\* Mutant of LoginCheck: handleExistingToken trusts the stored token
\* without asking the server.
LoginCheckTrustsFile ==
    /\ lpc \in {"existing", "new"}
    /\ \E reachable \in BOOLEAN :
          \/ lpc = "existing" /\ LoginReturn("none") /\ UNCHANGED lchecked
          \/ lpc = "new" /\ ~reachable /\ LoginReturn("other")
             /\ UNCHANGED lchecked
          \/ lpc = "new" /\ reachable /\ ltoken \in revoked
             /\ LoginReturn("silent") /\ UNCHANGED lchecked
          \/ lpc = "new" /\ reachable /\ ltoken \notin revoked
             /\ lchecked' = TRUE /\ lpc' = "store" /\ UNCHANGED lerr
    /\ UNCHANGED <<linteractive, ltoken, tokenVars>>

\* Mutant of LoginCheck: handleNewToken only stops on a token the server
\* rejected, and goes on to store the token when the request failed.
LoginCheckIgnoresRequestError ==
    /\ lpc \in {"existing", "new"}
    /\ \E reachable \in BOOLEAN :
          \/ ~reachable /\ lpc = "existing" /\ LoginReturn("other")
             /\ UNCHANGED lchecked
          \/ ~reachable /\ lpc = "new" /\ lpc' = "store"
             /\ UNCHANGED <<lchecked, lerr>>
          \/ reachable /\ ltoken \in revoked
             /\ LoginReturn("silent") /\ UNCHANGED lchecked
          \/ reachable /\ ltoken \notin revoked /\ lchecked' = TRUE
             /\ IF lpc = "existing" THEN LoginReturn("none")
                ELSE lpc' = "store" /\ UNCHANGED lerr
    /\ UNCHANGED <<linteractive, ltoken, tokenVars>>

\* handleExistingToken and handleNewToken: apiClient.IsTokenValid may
\* fail; a token the server rejects is a silent error (the existing one
\* is left in the file); an accepted existing token ends run() with nil,
\* an accepted new one is stored next.
LoginCheck ==
    /\ lpc \in {"existing", "new"}
    /\ \E reachable \in BOOLEAN :
          \/ ~reachable /\ LoginReturn("other") /\ UNCHANGED lchecked
          \/ reachable /\ ltoken \in revoked
             /\ LoginReturn("silent") /\ UNCHANGED lchecked
          \/ reachable /\ ltoken \notin revoked /\ lchecked' = TRUE
             /\ IF lpc = "existing" THEN LoginReturn("none")
                ELSE lpc' = "store" /\ UNCHANGED lerr
    /\ UNCHANGED <<linteractive, ltoken, tokenVars>>

\* handleNewToken: access_tokens.Set writes the token file, and may fail.
LoginStore ==
    /\ lpc = "store"
    /\ \/ LoginReturn("other") /\ UNCHANGED tokenFile
       \/ tokenFile' = ltoken /\ LoginReturn("none")
    /\ UNCHANGED <<linteractive, ltoken, lchecked, revoked>>

LoginNext == LoginReadToken \/ LoginCheck \/ LoginStore

-----------------------------------------------------------------------------
(* Properties.                                                              *)

\* `cifuzz login` reports success only for a token the server accepted:
\* a token from stdin, the prompt or the token file is checked with
\* IsTokenValid before run() returns nil, on the path through
\* handleExistingToken as on the one through handleNewToken.
LoginNilOnlyForAcceptedToken ==
    (lpc = "returned" /\ lerr = "none") => lchecked /\ ltoken # NoToken

=============================================================================
