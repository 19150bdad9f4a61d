------------------------- MODULE BusctlQueryProofs -------------------------
(***************************************************************************)
(* Theorems about one busctl query, for every timeout, limit, chunk and    *)
(* pipe, and every child: how long it may wait, what its success means and *)
(* what it leaves behind.                                                  *)
(***************************************************************************)
EXTENDS BusctlQuery, TLAPS

Reading == {"check", "select", "read", "wait"}

Counted == data \in Nat /\ wrote \in Nat

(* Before the child there is nothing; while its output is read, nothing is *)
(* decided and the buffer is within the limit.                             *)
Stages ==
  /\ pc = "spawn" => now = 0 /\ proc = "absent" /\ data = 0 /\ pipe = 0 /\ ~writer /\ ~reader
  /\ pc \in Reading => outcome = "none" /\ data <= MaxReply
  /\ pc = "spawn" => outcome = "none"
  /\ pc \notin {"spawn", "done"} => proc # "absent"

(* One deadline for all of the reading, the wait for the exit included;    *)
(* one more wait after it.                                                 *)
Deadlines ==
  /\ pc \in Reading => until = Timeout
  /\ pc \in Reading \cup {"cleanup"} => now <= Timeout
  /\ pc = "reap" => now <= until /\ until <= Timeout + Grace

(* The exit is waited for when the output has ended, and was read.         *)
Ended ==
  /\ pc = "read" => Readable
  /\ pc = "wait" => pipe = 0 /\ ~writer
  /\ outcome = "ok" => pipe = 0

(* The last wait is for a child that was reaped before, or sent SIGKILL.   *)
Signalled == pc = "reap" => proc = "reaped" \/ killed

IInv ==
  /\ TypeOK /\ Counted /\ Stages /\ Deadlines /\ Ended /\ Signalled
  /\ Bounded /\ OkIsWhole /\ NothingLeft

-----------------------------------------------------------------------------
LEMMA LeastBound ==
  ASSUME NEW a \in Nat, NEW b \in Nat, NEW c \in Nat, NEW n \in 1 .. Least(a, Least(b, c))
  PROVE  n \in Nat /\ n >= 1 /\ n <= a /\ n <= b /\ n <= c
BY DEF Least

LEMMA InitIInv == Init => IInv
<1> SUFFICES ASSUME Init
             PROVE  IInv
  OBVIOUS
<1>1. killed \in BOOLEAN /\ writer \in BOOLEAN /\ reader \in BOOLEAN
  BY Zenon DEF Init
<1>2. TypeOK /\ Counted
  BY <1>1, QueryAssumption DEF Init, TypeOK, Counted
<1>3. Stages /\ Deadlines /\ Ended /\ Signalled
  BY QueryAssumption DEF Init, Stages, Deadlines, Ended, Signalled, Reading
<1>4. Bounded /\ OkIsWhole /\ NothingLeft
  BY QueryAssumption DEF Init, Bounded, OkIsWhole, NothingLeft
<1>5. QED
  BY <1>2, <1>3, <1>4 DEF IInv

LEMMA SpawnIInv ==
  ASSUME IInv, Spawn
  PROVE  IInv'
<1>1. pc = "spawn" /\ now = 0 /\ proc = "absent" /\ data = 0 /\ pipe = 0 /\ ~writer /\ ~reader
  BY DEF Spawn, IInv, Stages
<1>2. UNCHANGED <<now, code, killed, wrote, pipe, data>>
  BY DEF Spawn
<1>3. CASE /\ pc' = "check" /\ until' = now + Timeout /\ proc' = "running"
           /\ writer' = TRUE /\ reader' = TRUE /\ outcome' = outcome
  <2>1. killed' \in BOOLEAN /\ writer' \in BOOLEAN /\ reader' \in BOOLEAN
    BY <1>2, <1>3, Zenon DEF IInv, TypeOK
  <2>2. until' \in Nat /\ until' = Timeout
    BY <1>1, <1>3, QueryAssumption
  <2>3. TypeOK' /\ Counted'
    BY <1>2, <1>3, <2>1, <2>2 DEF IInv, TypeOK, Counted
  <2>4. Stages' /\ Deadlines' /\ Ended' /\ Signalled'
    BY <1>1, <1>2, <1>3, <2>2, QueryAssumption
    DEF IInv, Stages, Deadlines, Ended, Signalled, Reading
  <2>5. Bounded' /\ OkIsWhole' /\ NothingLeft'
    BY <1>1, <1>2, <1>3, QueryAssumption DEF IInv, Stages, Bounded, OkIsWhole, NothingLeft
  <2>6. QED
    BY <2>3, <2>4, <2>5 DEF IInv
<1>4. CASE pc' = "done" /\ outcome' = "SERVICE_QUERY" /\ UNCHANGED <<until, proc, writer, reader>>
  BY <1>1, <1>2, <1>4, QueryAssumption DEF IInv, TypeOK, Counted, Stages, Deadlines, Ended,
     Signalled, Bounded, OkIsWhole, NothingLeft, Reading
<1>5. QED
  BY <1>3, <1>4 DEF Spawn

LEMMA CheckIInv ==
  ASSUME IInv, Check
  PROVE  IInv'
BY QueryAssumption DEF Check, Raise, child, IInv, TypeOK, Counted, Stages, Deadlines, Ended,
   Signalled, Bounded, OkIsWhole, NothingLeft, Reading

LEMMA SelectIInv ==
  ASSUME IInv, Select
  PROVE  IInv'
BY QueryAssumption DEF Select, Raise, Readable, child, IInv, TypeOK, Counted, Stages, Deadlines,
   Ended, Signalled, Bounded, OkIsWhole, NothingLeft, Reading

LEMMA BreakIInv ==
  ASSUME IInv, Break
  PROVE  IInv'
BY QueryAssumption DEF Break, Raise, child, IInv, TypeOK, Counted, Stages, Deadlines,
   Ended, Signalled, Bounded, OkIsWhole, NothingLeft, Reading

LEMMA ReadIInv ==
  ASSUME IInv, Read
  PROVE  IInv'
<1>1. pc = "read" /\ now' = now /\ data \in Nat /\ data <= MaxReply /\ outcome = "none" /\ Readable
      /\ pipe \in Nat /\ until = Timeout /\ now <= Timeout
  BY DEF Read, IInv, TypeOK, Counted, Stages, Ended, Deadlines, Reading
<1>2. ASSUME NEW n \in 1 .. Least(pipe, Least(Chunk, MaxReply + 1 - data)), Take(n, "check")
      PROVE  IInv'
  <2>1. MaxReply + 1 - data \in Nat
    BY <1>1, QueryAssumption
  <2>2. n \in Nat /\ n >= 1 /\ n <= pipe /\ n <= MaxReply + 1 - data
    BY <1>1, <2>1, LeastBound, QueryAssumption
  <2>3. /\ pipe' \in 0 .. Capacity /\ data' \in Nat /\ wrote' = data' + pipe'
        /\ data' <= MaxReply + 1
    BY <1>1, <1>2, <2>2, QueryAssumption DEF Take, IInv, TypeOK, Counted
  <2>4. CASE data + n > MaxReply /\ pc' = "cleanup" /\ outcome' = "SERVICE_SIZE"
    BY <1>1, <1>2, <2>3, <2>4, QueryAssumption DEF Take, IInv, TypeOK, Counted, Stages, Deadlines,
       Ended, Signalled, Bounded, OkIsWhole, NothingLeft, Reading
  <2>5. CASE data + n <= MaxReply /\ pc' = "check" /\ UNCHANGED outcome
    BY <1>1, <1>2, <2>3, <2>5, QueryAssumption DEF Take, IInv, TypeOK, Counted, Stages, Deadlines,
       Ended, Signalled, Bounded, OkIsWhole, NothingLeft, Reading
  <2>6. QED
    BY <1>2, <2>4, <2>5 DEF Take
<1>3. CASE EndOfOutput
  BY <1>1, <1>3, QueryAssumption DEF EndOfOutput, Readable, child, IInv, TypeOK, Counted, Stages,
     Deadlines, Ended, Signalled, Bounded, OkIsWhole, NothingLeft, Reading
<1>4. QED
  BY <1>2, <1>3 DEF Read

LEMMA WaitIInv ==
  ASSUME IInv, Wait
  PROVE  IInv'
BY QueryAssumption DEF Wait, Raise, Exited, IInv, TypeOK, Counted, Stages, Deadlines, Ended,
   Signalled, Bounded, OkIsWhole, NothingLeft, Reading

LEMMA CleanupIInv ==
  ASSUME IInv, Cleanup
  PROVE  IInv'
<1>1. pc = "cleanup" /\ pc' = "reap" /\ until' = now + Grace
      /\ UNCHANGED <<now, data, outcome, reader, code, wrote, pipe, writer>>
  BY DEF Cleanup
<1>2. killed' \in BOOLEAN /\ (killed' <=> ~Exited)
  BY Zenon DEF Cleanup
<1>3. proc' = IF Exited THEN "reaped" ELSE proc
  BY DEF Cleanup
<1>4. TypeOK' /\ Counted'
  BY <1>1, <1>2, <1>3, QueryAssumption DEF IInv, TypeOK, Counted
<1>5. Stages' /\ Deadlines' /\ Ended' /\ Signalled'
  BY <1>1, <1>2, <1>3, QueryAssumption
  DEF IInv, TypeOK, Stages, Deadlines, Ended, Signalled, Exited, Reading
<1>6. Bounded' /\ OkIsWhole' /\ NothingLeft'
  BY <1>1, <1>3 DEF IInv, Bounded, OkIsWhole, NothingLeft
<1>7. QED
  BY <1>4, <1>5, <1>6 DEF IInv

LEMMA ReapIInv ==
  ASSUME IInv, Reap
  PROVE  IInv'
BY QueryAssumption DEF Reap, Exited, IInv, TypeOK, Counted, Stages, Deadlines, Ended,
   Signalled, Bounded, OkIsWhole, NothingLeft, Reading

LEMMA ChildIInv ==
  ASSUME IInv, Child
  PROVE  IInv'
<1>1. UNCHANGED <<now, pc, until, data, outcome, reader>>
  BY DEF Child, observer
<1>2. ASSUME NEW n \in 1 .. Capacity, Write(n)
      PROVE  IInv'
  BY <1>1, <1>2, QueryAssumption DEF Write, Readable, IInv, TypeOK, Counted, Stages, Deadlines,
     Ended, Signalled, Bounded, OkIsWhole, NothingLeft, Reading
<1>3. CASE CloseOutput
  BY <1>1, <1>3, QueryAssumption DEF CloseOutput, Readable, IInv, TypeOK, Counted, Stages, Deadlines,
     Ended, Signalled, Bounded, OkIsWhole, NothingLeft, Reading
<1>4. CASE Exit
  BY <1>1, <1>4, QueryAssumption DEF Exit, Readable, IInv, TypeOK, Counted, Stages, Deadlines,
     Ended, Signalled, Bounded, OkIsWhole, NothingLeft, Reading
<1>5. CASE Hang
  BY <1>1, <1>5, QueryAssumption DEF Hang, Readable, IInv, TypeOK, Counted, Stages, Deadlines,
     Ended, Signalled, Bounded, OkIsWhole, NothingLeft, Reading
<1>6. QED
  BY <1>2, <1>3, <1>4, <1>5 DEF Child

LEMMA TickIInv ==
  ASSUME IInv, Tick
  PROVE  IInv'
BY QueryAssumption DEF Tick, Blocked, Exited, Readable, observer, child, IInv, TypeOK, Counted,
   Stages, Deadlines, Ended, Signalled, Bounded, OkIsWhole, NothingLeft, Reading

LEMMA StutterIInv ==
  ASSUME IInv, UNCHANGED vars
  PROVE  IInv'
BY DEF vars, Readable, IInv, TypeOK, Counted, Stages, Deadlines, Ended, Signalled, Bounded,
   OkIsWhole, NothingLeft, Reading

LEMMA NextIInv == IInv /\ [Next]_vars => IInv'
BY SpawnIInv, CheckIInv, SelectIInv, BreakIInv, ReadIInv, WaitIInv, CleanupIInv, ReapIInv, ChildIInv,
   TickIInv, StutterIInv DEF Next, Observer, Done

LEMMA Invariant == Spec => []IInv
BY InitIInv, NextIInv, PTL DEF Spec

-----------------------------------------------------------------------------
(* The query keeps its types, and what the child wrote is in the buffer or *)
(* in the pipe, never lost and never read twice.                           *)
THEOREM TypeCorrect == Spec => []TypeOK
<1>1. IInv => TypeOK
  BY DEF IInv
<1>2. QED
  BY <1>1, Invariant, PTL

(* _query waits for at most TIMEOUT and the second of its cleanup, and     *)
(* buffers at most one byte past MAX_REPLY, whatever the child does.       *)
THEOREM QueryIsBounded == Spec => []Bounded
<1>1. IInv => Bounded
  BY DEF IInv
<1>2. QED
  BY <1>1, Invariant, PTL

(* A reply is returned only whole, and only of a child that exited with 0: *)
(* not one cut off by the limit, the deadline or a short read.             *)
THEOREM ReplyIsWhole == Spec => []OkIsWhole
<1>1. IInv => OkIsWhole
  BY DEF IInv
<1>2. QED
  BY <1>1, Invariant, PTL

(* No child, no zombie and no open pipe survive a query that does not say  *)
(* that its cleanup failed; one that says so has sent SIGKILL.             *)
THEOREM CleanedUp == Spec => []NothingLeft
<1>1. IInv => NothingLeft
  BY DEF IInv
<1>2. QED
  BY <1>1, Invariant, PTL
=============================================================================
