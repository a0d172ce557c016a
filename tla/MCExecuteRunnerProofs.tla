----------------------- MODULE MCExecuteRunnerProofs -----------------------
(* Model-checking instance of ExecuteRunnerProofs, to check the inductive  *)
(* invariant of the proofs on the instance of MCExecuteRunner.             *)
EXTENDS ExecuteRunnerProofs

MCSigBufCap == 1
MCMaxSignals == 2
=============================================================================
