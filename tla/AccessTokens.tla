--------------------------- MODULE AccessTokens ---------------------------
(***************************************************************************)
(* The state `cifuzz login` and `cifuzz run` share: the access-token file  *)
(* under the user's config directory (package access_tokens, outside src/; *)
(* its entry for the one server modelled) and the server's view of which   *)
(* tokens it rejects. A token is one of a few names; a user may hold       *)
(* several, and the server may revoke any of them at any time.             *)
(***************************************************************************)

\* The tokens a user may pass; "none": no entry for the server.
Tokens == {"t1", "t2"}

NoToken == "none"

VARIABLES
    tokenFile,  \* access_tokens.Get(server): a token or NoToken
    revoked     \* the tokens the server's IsTokenValid rejects

tokenVars == <<tokenFile, revoked>>

TokensTypeOK ==
    /\ tokenFile \in Tokens \cup {NoToken}
    /\ revoked \subseteq Tokens

\* Any file content and any server state a command may start from.
TokensInit ==
    /\ tokenFile \in Tokens \cup {NoToken}
    /\ revoked \in SUBSET Tokens

\* The server revokes a token (the user did so in the web interface).
ServerRevokes ==
    /\ \E t \in Tokens \ revoked : revoked' = revoked \cup {t}
    /\ UNCHANGED tokenFile

=============================================================================
