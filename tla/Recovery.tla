------------------------------ MODULE Recovery ------------------------------
(***************************************************************************)
(* recovery_step of siem/rbac/broker_tls/operator_core.py, in the loop its *)
(* docstring asks for: observe, take ONE decision, apply it, observe anew. *)
(* The function is pure. Who observes and who applies is not in the        *)
(* repository yet (OPERATOR.md calls it the adapter) and is modelled as    *)
(* the docstring requires it: facts are read one at a time, in the order   *)
(* of the decision, a read may fail, an action may fail, and the operator  *)
(* may crash anywhere and begin again knowing nothing.                     *)
(***************************************************************************)
EXTENDS Naturals, Sequences

CONSTANTS
  MaxWrites,  \* bound: how often somebody else writes client or backup
  MaxFaults   \* bound: failed reads, failed actions and crashes

ASSUME RecoveryAssumption == MaxWrites \in Nat /\ MaxFaults \in Nat

VARIABLES
  inhibited, stopped,       \* the service manager
  client, restored,         \* the installed bytes; their original metadata
  backup, verified,         \* the private backup and its metadata
  pc,                       \* the fact read next, Deciding, Applying or Over
  obs,                      \* RecoveryObservation, as far as it was read
  step,                     \* the decision
  writes, faults,           \* counters of the bounds
  sawAt                     \* history: writes when the client was read

host == <<inhibited, stopped, client, restored, backup, verified>>
vars == <<inhibited, stopped, client, restored, backup, verified,
          pc, obs, step, writes, faults, sawAt>>

Facts == <<"inhibited", "stopped", "client", "backup", "verified", "restored">>

Deciding == Len(Facts) + 1
Applying == Len(Facts) + 2
Over == Len(Facts) + 3

Fact(f) ==
  CASE f = "inhibited" -> inhibited
    [] f = "stopped" -> stopped
    [] f = "client" -> client
    [] f = "backup" -> backup
    [] f = "verified" -> verified
    [] f = "restored" -> restored

(* None: not observed, which is not false. Compared as a string, so that   *)
(* every fact is kept as a set of at most one value.                       *)
Nothing == [f \in {Facts[i] : i \in DOMAIN Facts} |-> {}]
Is(f, v) == obs[f] = {v}

-----------------------------------------------------------------------------
(* recovery_step: the first fact not known to be as needed decides. *)
StopBeforeInhibit ==
  IF ~Is("stopped", TRUE) THEN "STOP_DASHBOARD"
  ELSE IF ~Is("inhibited", TRUE) THEN "INHIBIT_STARTUP"
  ELSE "HOLD_UNKNOWN_CLIENT"

RunningIsFine ==
  IF ~Is("inhibited", TRUE) THEN "INHIBIT_STARTUP"
  ELSE IF Is("client", "candidate") THEN "RESTORE_ORIGINAL"
  ELSE "HOLD_UNKNOWN_CLIENT"

BytesSuffice ==
  IF ~Is("inhibited", TRUE) THEN "INHIBIT_STARTUP"
  ELSE IF ~Is("stopped", TRUE) THEN "STOP_DASHBOARD"
  ELSE IF Is("client", "original") THEN "ROLLED_BACK"
  ELSE "HOLD_UNKNOWN_CLIENT"

BlindRestore ==
  IF ~Is("inhibited", TRUE) THEN "INHIBIT_STARTUP"
  ELSE IF ~Is("stopped", TRUE) THEN "STOP_DASHBOARD"
  ELSE IF ~Is("client", "original") THEN "RESTORE_ORIGINAL"
  ELSE "RESTORE_METADATA"

RecoveryStep ==
  IF ~Is("inhibited", TRUE) THEN "INHIBIT_STARTUP"
  ELSE IF ~Is("stopped", TRUE) THEN "STOP_DASHBOARD"
  ELSE IF ~(Is("client", "original") \/ Is("client", "candidate")) THEN "HOLD_UNKNOWN_CLIENT"
  ELSE IF ~(Is("backup", "original") /\ Is("verified", TRUE)) THEN "HOLD_UNVERIFIED_BACKUP"
  ELSE IF Is("client", "candidate") THEN "RESTORE_ORIGINAL"
  ELSE IF ~Is("restored", TRUE) THEN "RESTORE_METADATA"
  ELSE "ROLLED_BACK"

Ends == {"HOLD_UNKNOWN_CLIENT", "HOLD_UNVERIFIED_BACKUP", "ROLLED_BACK"}
Steps == {"none", "INHIBIT_STARTUP", "STOP_DASHBOARD", "RESTORE_ORIGINAL", "RESTORE_METADATA"} \cup Ends

-----------------------------------------------------------------------------
(* The loop around it. *)

Fault == faults < MaxFaults /\ faults' = faults + 1

Observe ==
  /\ pc \in DOMAIN Facts
  /\ pc' = pc + 1
  /\ LET f == Facts[pc]
     IN  /\ sawAt' = IF f = "client" THEN writes ELSE sawAt
         /\ \/ obs' = [obs EXCEPT ![f] = {Fact(f)}] /\ UNCHANGED faults
            \/ Fault /\ UNCHANGED obs
  /\ UNCHANGED <<host, step, writes>>

Decide ==
  /\ pc = Deciding
  /\ step' = RecoveryStep
  /\ pc' = IF step' \in Ends THEN Over ELSE Applying
  /\ UNCHANGED <<host, obs, writes, faults, sawAt>>

ReobserveKeepsFacts == pc' = 1 /\ step' = "none" /\ UNCHANGED <<obs, writes, sawAt>>
Reobserve == pc' = 1 /\ obs' = Nothing /\ step' = "none" /\ UNCHANGED <<writes, sawAt>>

(* RESTORE_ORIGINAL copies what the backup holds now, in one rename; the   *)
(* new file has yet to get its owner, mode and links back.                 *)
Effect ==
  /\ inhibited' = (inhibited \/ step = "INHIBIT_STARTUP")
  /\ stopped' = (stopped \/ step = "STOP_DASHBOARD")
  /\ client' = IF step = "RESTORE_ORIGINAL" THEN backup ELSE client
  /\ restored' = CASE step = "RESTORE_ORIGINAL" -> FALSE
                   [] step = "RESTORE_METADATA" -> TRUE
                   [] OTHER -> restored
  /\ UNCHANGED <<backup, verified>>

Apply == pc = Applying /\ Effect /\ Reobserve /\ UNCHANGED faults

(* The action fails, or the operator dies and comes back. *)
Crash == pc \in 2 .. Applying /\ Fault /\ Reobserve /\ UNCHANGED host

-----------------------------------------------------------------------------
(* Everybody else. The service is started whenever nothing prevents it and *)
(* may die at any time. Nobody else removes the inhibition: it is durable  *)
(* (OPERATOR.md). Files are overwritten by upgrades and by mistake.        *)

Start == ~inhibited /\ stopped /\ stopped' = FALSE /\ UNCHANGED <<inhibited, client, restored, backup, verified>>

Die == ~stopped /\ stopped' = TRUE /\ UNCHANGED <<inhibited, client, restored, backup, verified>>

Write ==
  /\ writes < MaxWrites
  /\ \/ /\ client' \in {"candidate", "unknown"} /\ client' # client
        /\ restored' = FALSE
        /\ UNCHANGED <<backup, verified>>
     \/ /\ backup' = "unknown" /\ verified' \in BOOLEAN /\ backup # "unknown"
        /\ UNCHANGED <<client, restored>>
  /\ UNCHANGED <<inhibited, stopped>>

Others ==
  /\ pc # Over
  /\ \/ (Start \/ Die) /\ UNCHANGED writes
     \/ Write /\ writes' = writes + 1
  /\ UNCHANGED <<pc, obs, step, faults, sawAt>>

Init ==
  /\ inhibited \in BOOLEAN /\ stopped \in BOOLEAN
  /\ client \in {"original", "candidate", "unknown"}
  /\ restored \in {client = "original", FALSE}
  /\ backup \in {"original", "unknown"} /\ verified \in BOOLEAN
  /\ pc = 1 /\ obs = Nothing /\ step = "none"
  /\ writes = 0 /\ faults = 0 /\ sawAt = 0

Operator == Observe \/ Decide \/ Apply

Next == Operator \/ Crash \/ Others \/ (pc = Over /\ UNCHANGED vars)

(* The operator goes on; nobody else has to do anything. *)
Spec == Init /\ [][Next]_vars /\ WF_vars(Operator)

-----------------------------------------------------------------------------
TypeOK ==
  /\ inhibited \in BOOLEAN /\ stopped \in BOOLEAN /\ restored \in BOOLEAN /\ verified \in BOOLEAN
  /\ client \in {"original", "candidate", "unknown"} /\ backup \in {"original", "unknown"}
  /\ pc \in 1 .. Over
  /\ step \in Steps /\ (pc = Over => step \in Ends)
  /\ \A i \in DOMAIN Facts : pc \in 1 .. i => obs[Facts[i]] = {}
  /\ writes \in 0 .. MaxWrites /\ faults \in 0 .. MaxFaults /\ sawAt \in 0 .. writes

(* Whoever acts on an observation, however old, finds the service inhibited*)
(* and stopped when the client is touched. And unless the files were       *)
(* written by others since the client was read, only known bytes are       *)
(* replaced, and only by the original.                                     *)
RestoresSafely ==
  [][(client' # client \/ restored' # restored) /\ writes' = writes =>
       /\ inhibited /\ stopped
       /\ writes = sawAt => client # "unknown" /\ client' = "original"]_vars

(* Rolled back is said only of a host that is: unless somebody wrote the   *)
(* files after the client was read. No crash in between makes it untrue.   *)
RolledBackIsTrue ==
  step = "ROLLED_BACK" /\ writes = sawAt =>
    inhibited /\ stopped /\ client = "original" /\ restored

(* The operator comes to an end however often the service is started under *)
(* it. Inhibiting first is what makes this so.                             *)
Ended == <>(pc = Over)

(* Seen from outside the recovery is Rollback. *)
Stages == INSTANCE Rollback WITH
  quiet <- inhibited /\ stopped,
  stage <- IF client # "original" THEN 0 ELSE IF restored THEN 2 ELSE 1

RollbackSpec == Stages!Spec
=============================================================================
