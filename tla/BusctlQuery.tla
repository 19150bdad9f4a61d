---------------------------- MODULE BusctlQuery ----------------------------
(***************************************************************************)
(* _query of siem/rbac/broker_tls/operator_service.py: one busctl child,   *)
(* its output read through a pipe, everything bounded, everything cleaned  *)
(* up. The child is any process at all: it writes what it likes, closes    *)
(* its output early, lingers, exits with any status, or hangs in the       *)
(* kernel where no signal reaches it.                                      *)
(*                                                                         *)
(* Time stands still while the observer has something to do and passes     *)
(* only while it is blocked: a bound below is a bound on waiting.          *)
(***************************************************************************)
EXTENDS Naturals

CONSTANTS
  Timeout,   \* TIMEOUT, in ticks: the whole query
  Grace,     \* the last wait of the cleanup
  MaxReply,  \* MAX_REPLY
  Chunk,     \* the most one read takes
  Capacity   \* of the pipe

ASSUME QueryAssumption ==
  /\ Timeout \in Nat /\ Grace \in Nat /\ MaxReply \in Nat
  /\ Chunk \in Nat \ {0} /\ Capacity \in Nat \ {0}

VARIABLES
  pc, now, until,  \* until: the deadline of the call blocked in
  data,            \* length of the buffer
  outcome,         \* what is being returned or raised
  proc,            \* the child: absent, running, stuck, zombie, reaped
  code,            \* its exit status; 9 when killed
  killed,          \* SIGKILL is pending
  wrote, pipe,     \* bytes written in all, and not yet read
  writer, reader   \* the two ends of the pipe are open

observer == <<pc, until, data, outcome, reader>>
child == <<proc, code, killed, wrote, pipe, writer>>
vars == <<pc, now, until, data, outcome, proc, code, killed, wrote, pipe, writer, reader>>

Least(a, b) == IF a < b THEN a ELSE b

-----------------------------------------------------------------------------
(* The observer. *)

Raise(why) == pc' = "cleanup" /\ outcome' = why /\ UNCHANGED <<until, data, reader>>

Spawn ==
  /\ pc = "spawn"
  /\ \/ /\ pc' = "check" /\ until' = now + Timeout /\ proc' = "running"
        /\ writer' = TRUE /\ reader' = TRUE
        /\ UNCHANGED <<data, outcome>>
     \/ /\ pc' = "done" /\ outcome' = "SERVICE_QUERY"
        /\ UNCHANGED <<until, data, proc, writer, reader>>
  /\ UNCHANGED <<now, code, killed, wrote, pipe>>

(* remaining > 0 *)
Check ==
  /\ pc = "check"
  /\ \/ now < until /\ pc' = "select" /\ UNCHANGED <<until, data, outcome, reader>>
     \/ now >= until /\ Raise("SERVICE_TIMEOUT")
  /\ UNCHANGED <<now, child>>

Readable == pipe > 0 \/ ~writer

Select ==
  /\ pc = "select"
  /\ \/ Readable /\ pc' = "read" /\ UNCHANGED <<until, data, outcome, reader>>
     \/ ~Readable /\ now >= until /\ Raise("SERVICE_TIMEOUT")
  /\ UNCHANGED <<now, child>>

TakeBelowLimit(n, next) ==
  /\ pipe' = pipe - n
  /\ \/ data + n > MaxReply /\ pc' = "cleanup" /\ outcome' = "SERVICE_SIZE" /\ UNCHANGED data
     \/ data + n <= MaxReply /\ pc' = next /\ data' = data + n /\ UNCHANGED outcome
  /\ UNCHANGED <<until, reader, proc, code, killed, wrote, writer>>

Take(n, next) ==
  /\ pipe' = pipe - n
  /\ data' = data + n
  /\ \/ data + n > MaxReply /\ pc' = "cleanup" /\ outcome' = "SERVICE_SIZE"
     \/ data + n <= MaxReply /\ pc' = next /\ UNCHANGED outcome
  /\ UNCHANGED <<until, reader, proc, code, killed, wrote, writer>>

(* A read takes anything from one byte up to what there is and is asked    *)
(* for; an empty one is the end of the output. The wait that follows has   *)
(* what is left of the deadline.                                           *)
EndOfOutputNewDeadline ==
  pipe = 0 /\ pc' = "wait" /\ until' = now + Timeout /\ UNCHANGED <<data, outcome, reader, child>>

EndOfOutput == pipe = 0 /\ pc' = "wait" /\ UNCHANGED <<until, data, outcome, reader, child>>

ReadShortIsEnd ==
  /\ pc = "read"
  /\ \/ \E n \in 1 .. Least(pipe, Least(Chunk, MaxReply + 1 - data)) :
          Take(n, IF n < Chunk THEN "wait" ELSE "check")
     \/ EndOfOutput
  /\ UNCHANGED now

Read ==
  /\ pc = "read"
  /\ \/ \E n \in 1 .. Least(pipe, Least(Chunk, MaxReply + 1 - data)) : Take(n, "check")
     \/ EndOfOutput
  /\ UNCHANGED now

Exited == proc \in {"zombie", "reaped"}

WaitForever ==
  /\ pc = "wait"
  /\ Exited /\ proc' = "reaped"
  /\ Raise(IF code = 0 THEN "ok" ELSE "SERVICE_QUERY")
  /\ UNCHANGED <<now, code, killed, wrote, pipe, writer>>

Wait ==
  /\ pc = "wait"
  /\ \/ /\ Exited /\ proc' = "reaped"
        /\ Raise(IF code = 0 THEN "ok" ELSE "SERVICE_QUERY")
     \/ ~Exited /\ now >= until /\ Raise("SERVICE_TIMEOUT") /\ UNCHANGED proc
  /\ UNCHANGED <<now, code, killed, wrote, pipe, writer>>

(* finally: poll, kill what still runs, *)
CleanupForgets ==
  /\ pc = "cleanup"
  /\ pc' = "done" /\ reader' = FALSE
  /\ killed' = ~Exited
  /\ UNCHANGED <<now, until, data, outcome, proc, code, wrote, pipe, writer>>

Cleanup ==
  /\ pc = "cleanup"
  /\ pc' = "reap" /\ until' = now + Grace
  /\ killed' = ~Exited
  /\ proc' = IF Exited THEN "reaped" ELSE proc
  /\ UNCHANGED <<now, data, outcome, reader, code, wrote, pipe, writer>>

(* and wait for it once more; the pipe is closed whatever comes of it. To  *)
(* signal and to wait for a child of one's own does not fail.              *)
Reap ==
  /\ pc = "reap"
  /\ \/ Exited /\ proc' = "reaped" /\ UNCHANGED outcome
     \/ ~Exited /\ now >= until /\ outcome' = "SERVICE_CLEANUP" /\ UNCHANGED proc
  /\ pc' = "done" /\ reader' = FALSE
  /\ UNCHANGED <<now, until, data, code, killed, wrote, pipe, writer>>

(* A system call on the pipe raises OSError, for whatever reason. *)
Break ==
  /\ pc \in {"select", "read"}
  /\ Raise("SERVICE_QUERY")
  /\ UNCHANGED <<now, child>>

Observer == Spawn \/ Check \/ Select \/ Read \/ Wait \/ Cleanup \/ Reap

-----------------------------------------------------------------------------
(* The child and the clock. *)

Write(n) ==
  /\ proc = "running" /\ writer /\ reader /\ pipe + n <= Capacity
  /\ pipe' = pipe + n /\ wrote' = wrote + n
  /\ UNCHANGED <<proc, code, killed, writer>>

CloseOutput == proc = "running" /\ writer /\ writer' = FALSE /\ UNCHANGED <<proc, code, killed, wrote, pipe>>

Exit ==
  /\ proc = "running"
  /\ proc' = "zombie" /\ writer' = FALSE
  /\ code' \in IF killed THEN {9} ELSE {0, 1}
  /\ UNCHANGED <<killed, wrote, pipe>>

Hang ==
  /\ proc' \in {"running", "stuck"} /\ proc \in {"running", "stuck"} /\ proc' # proc
  /\ UNCHANGED <<code, killed, wrote, pipe, writer>>

Child ==
  /\ (\E n \in 1 .. Capacity : Write(n)) \/ CloseOutput \/ Exit \/ Hang
  /\ UNCHANGED <<now, observer>>

Blocked ==
  \/ pc = "select" /\ ~Readable
  \/ pc \in {"wait", "reap"} /\ ~Exited

Tick == Blocked /\ now < until /\ now' = now + 1 /\ UNCHANGED <<observer, child>>

Init ==
  /\ pc = "spawn" /\ now = 0 /\ until = 0 /\ data = 0 /\ outcome = "none"
  /\ proc = "absent" /\ code = 0 /\ killed = FALSE
  /\ wrote = 0 /\ pipe = 0 /\ writer = FALSE /\ reader = FALSE

Done == pc = "done" /\ UNCHANGED vars

Next == Observer \/ Break \/ Child \/ Tick \/ Done

(* The observer is scheduled and time goes on. Nothing is assumed of the   *)
(* child: it need never write, close, exit, or die of SIGKILL.             *)
Spec == Init /\ [][Next]_vars /\ WF_vars(Observer) /\ WF_vars(Tick)

-----------------------------------------------------------------------------
TypeOK ==
  /\ pc \in {"spawn", "check", "select", "read", "wait", "cleanup", "reap", "done"}
  /\ now \in Nat /\ until \in Nat /\ code \in {0, 1, 9}
  /\ killed \in BOOLEAN /\ writer \in BOOLEAN /\ reader \in BOOLEAN
  /\ outcome \in {"none", "ok", "SERVICE_TIMEOUT", "SERVICE_SIZE", "SERVICE_QUERY", "SERVICE_CLEANUP"}
  /\ proc \in {"absent", "running", "stuck", "zombie", "reaped"}
  /\ pipe \in 0 .. Capacity /\ wrote = data + pipe
  /\ pc \notin {"spawn", "check", "select", "read", "wait"} => outcome # "none"

(* A query is over within TIMEOUT and the last second of the cleanup, and  *)
(* buffers at most one byte too many, whatever the child does: the wait    *)
(* for the exit does not start a new five seconds.                         *)
Bounded == now <= Timeout + Grace /\ data <= MaxReply + 1

(* Success means all the child wrote, of a child that said it succeeded;   *)
(* a reply cut at a short read or by the deadline is never taken for one.  *)
OkIsWhole == outcome = "ok" => code = 0 /\ proc = "reaped" /\ data = wrote /\ ~writer

(* No zombie, no running child and no pipe survive the query, unless it    *)
(* says that the cleanup failed. Then the pipe is closed all the same, and *)
(* the child was sent the signal.                                          *)
NothingLeft ==
  pc = "done" =>
    ~reader /\ (proc \in {"absent", "reaped"} \/ (outcome = "SERVICE_CLEANUP" /\ killed))

(* Every query returns, also when the child hangs for ever with its output *)
(* open, or closed.                                                        *)
Returns == <>(pc = "done")

=============================================================================
