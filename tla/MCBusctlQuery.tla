--------------------------- MODULE MCBusctlQuery ---------------------------
(* Three ticks for the query and one for the cleanup; a reply of up to     *)
(* four bytes, read by two, through a pipe of three: replies of every      *)
(* length around the limit arrive in every division.                       *)
EXTENDS BusctlQuery
=============================================================================
