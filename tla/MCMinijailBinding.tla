------------------------- MODULE MCMinijailBinding -------------------------
(* Model-checking instance of MinijailBinding: the paths /a, /b (a symlink *)
(* to /a), "/," and "/:" for the variable, and /a/b; the working directory *)
(* /a, the executable, LLVM directory and wrapper at /b, one read-only     *)
(* default at /b; callers that pass nothing, /a/b read-write (below the    *)
(* working directory) or /a read-only (the working directory itself).     *)
(* "/:" does not exist. Up to two bindings are added.                     *)
EXTENDS MinijailBinding, TLC

MCPaths == {<<"/", "a">>, <<"/", "b">>, <<"/", ",">>, <<"/", ":">>,
            <<"/", "a", "/", "b">>}

MCAddPaths == MCPaths \ {<<"/", "a", "/", "b">>}

MCResolve == [p \in MCAddPaths |-> IF p = <<"/", "b">> THEN <<"/", "a">> ELSE p]

MCExists == MCPaths \ {<<"/", ":">>}

MCDefaults == << [src |-> <<"/", "b">>, tgt |-> <<>>, w |-> 0] >>

MCWorkdir == <<"/", "a">>

MCBin == <<"/", "b">>

MCOptsChoices ==
    { <<>>,
      << [src |-> <<"/", "a", "/", "b">>, tgt |-> <<>>, w |-> 1] >>,
      << [src |-> <<"/", "a">>, tgt |-> <<>>, w |-> 0] >> }
=============================================================================
