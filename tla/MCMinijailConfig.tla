-------------------------- MODULE MCMinijailConfig --------------------------
(* Model-checking instance of MinijailConfig: one /tmp sub-directory, a    *)
(* build directory and an output directory; callers that pass the build   *)
(* directory or the output directory read-only with an output directory,  *)
(* or bind the working directory read-only themselves (a build directory  *)
(* that is the current directory); two calls, so that a second sandbox    *)
(* meets what the first one left in the package-level lines.              *)
EXTENDS MinijailConfig, TLC

CONSTANTS pDevNull, pDevUrandom, pWork, pExe, pWrapper, pBuild, pOut,
          pTmpA, pTmpConcatA, nA, noPath

MCPaths == {pDevNull, pDevUrandom, pWork, pExe, pWrapper, pBuild, pOut,
            pTmpA, pTmpConcatA}

\* "/tmp" + "a" does not exist; /tmp/a does.
MCExists == MCPaths \ {pTmpConcatA}

MCTmpPath == nA :> pTmpA
MCTmpConcat == nA :> pTmpConcatA

MCOptsChoices ==
    {[bindings |-> <<[src |-> pBuild, tgt |-> noPath, rw |-> FALSE]>>,
      outputDir |-> pOut],
     [bindings |-> <<[src |-> pOut, tgt |-> noPath, rw |-> FALSE]>>,
      outputDir |-> pOut],
     [bindings |-> <<[src |-> pWork, tgt |-> noPath, rw |-> FALSE]>>,
      outputDir |-> noPath]}
=============================================================================
