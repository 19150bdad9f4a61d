----------------------------- MODULE MCRecovery -----------------------------
(* Recovery with two writes by others and two faults: enough for every *)
(* fact to be wrong once after it was read, and for a crash after each of  *)
(* the two restoring actions.                                              *)
EXTENDS Recovery
=============================================================================
