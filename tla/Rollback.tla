------------------------------ MODULE Rollback ------------------------------
(***************************************************************************)
(* What recovery_step of siem/rbac/broker_tls/operator_core.py promises:   *)
(* the host goes from a dashboard that may start to the original client    *)
(* with its metadata, one stage at a time, and the stages that touch the   *)
(* client are only passed while nothing can start.                         *)
(***************************************************************************)
EXTENDS Naturals

VARIABLES
  quiet,  \* startup is inhibited and the dashboard is stopped
  stage   \* 0: foreign or candidate bytes, 1: original bytes, 2: metadata too

Init == quiet \in BOOLEAN /\ stage \in 0 .. 2

(* Nothing may become unquiet again. *)
Silence == ~quiet /\ quiet' /\ UNCHANGED stage

Restore == quiet /\ stage < 2 /\ stage' = stage + 1 /\ UNCHANGED quiet

(* Somebody else writes the file: a package upgrade, an administrator. *)
Overwritten == stage' < stage /\ UNCHANGED quiet

Next == Silence \/ Restore \/ Overwritten

Spec == Init /\ [][Next]_<<quiet, stage>>
=============================================================================
