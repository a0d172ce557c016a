--------------------------- MODULE MCCorpusCount ---------------------------
EXTENDS CorpusCountProofs, TLC

CONSTANTS u1, gen, seed, f1, f2, f3, f4

MCUserDirs == {u1}
MCFiles == {f1, f2, f3, f4}
\* one file in the user's dir, one in the default seed corpus, two in the
\* generated corpus (one may be there before the run, one is written by it)
MCHome == (f1 :> u1) @@ (f2 :> seed) @@ (f3 :> gen) @@ (f4 :> gen)
MCMaxUserDirs == 2
=============================================================================
