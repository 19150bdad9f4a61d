----------------------------- MODULE MCTwoPass -----------------------------
(* TwoPass with two process ids: one is enough for a pid to be taken over, *)
(* with the second the service moves away and a stranger takes its place.  *)
EXTENDS TwoPass

MCPid == {11, 12}
=============================================================================
