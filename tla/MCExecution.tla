----------------------------- MODULE MCExecution -----------------------------
(* Small instances of Execution for TLC: the cfg files give the constants,  *)
(* which bound the attempts, the process deaths and the control requests.    *)
EXTENDS ExecutionClaims
=============================================================================
