-------------------------- MODULE MCExecuteRunner --------------------------
(* Model-checking instance of ExecuteRunner: the channel capacity of the   *)
(* code (1) and up to two signals, so that a signal can find the buffer    *)
(* full and one can arrive after the listener has gone.                    *)
EXTENDS ExecuteRunner

MCSigBufCap == 1
MCMaxSignals == 2
=============================================================================
