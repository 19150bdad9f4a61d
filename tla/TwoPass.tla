------------------------------ MODULE TwoPass ------------------------------
(***************************************************************************)
(* The read-only observers of siem/rbac/broker_tls and the broker code     *)
(* inventory. Each of them looks at several things one after the other     *)
(* (files, the package database, the service manager, a process), twice,   *)
(* and compares; in between, every one of these things may change.         *)
(*                                                                         *)
(* An observer is a script: which thing is looked at next, and which of    *)
(* the looks taken so far must by then be equal. One look is one step.     *)
(* That a file is seen as it was at one instant is theorem Atomicity of    *)
(* OperatorFsProofs; a busctl query is module BusctlQuery.                 *)
(***************************************************************************)
EXTENDS Naturals, Sequences

CONSTANTS
  Pid,         \* the process ids in play
  MaxChanges   \* bound: how often the world changes during one call

ASSUME TwoPassAssumption ==
  /\ Pid # {}
  /\ 0 \notin Pid
  /\ MaxChanges \in Nat

(* Files pinned to one digest have one acceptable content. The others may  *)
(* be rewritten and still pass: dpkg may record another selection, a PEM   *)
(* may be wrapped anew, a unit may be reconfigured, sources are not pinned.*)
Pinned == {"client", "module", "node", "header", "wrapper", "use_node", "dist"}
Varying == {"manifest", "certificate", "package", "unit", "identity", "source", "plugin"}
Plain == Pinned \cup Varying

PlainValue(r) == IF r \in Pinned THEN {"pin", "bad"} ELSE {"a", "b", "bad"}

VARIABLES
  world,    \* what is there to be looked at
  worlds,   \* history: every world since the call began
  observer, \* the observer being run, or "none"
  seen,     \* what it has seen so far, look by look
  at,       \* history: which of the worlds each look saw
  held,     \* the process whose /proc directory is open
  result

vars == <<world, worlds, observer, seen, at, held, result>>

(* The manager's view: which process is MainPID and when it was started.   *)
(* A process: who it is, its start time in clock ticks (two processes may  *)
(* share one), executable, command line and environment, and its owner.    *)
Process == [inst : Nat, start : {1, 2}, exe : {"node", "other"}, text : {"a", "b"}, ours : BOOLEAN]
Service == [pid : Pid, started : Nat]
World == [plain : [Plain -> {"pin", "a", "b", "bad"}], service : Service, procs : [Pid -> Process]]

Main(w) == w.procs[w.service.pid]

-----------------------------------------------------------------------------
(* The scripts. Look(r) only looks; Then(i, s) looks and compares: each    *)
(* pair of s names two looks that must be equal.                           *)

Look(r) == [read |-> r, same |-> {}]
Looks(rs) == [i \in DOMAIN rs |-> Look(rs[i])]
Then(r, pairs) == [read |-> r, same |-> pairs]

(* verify_installed_bytes: candidate client, module tree, node and header, *)
(* twice, each against its pin. The passes are not compared: they need not *)
(* be, since a pin admits one content.                                     *)
VerifyInstalledBytes ==
  LET pass == Looks(<<"client", "module", "node", "header">>) IN pass \o pass

(* load_bootstrap *)
LoadBootstrap ==
  Looks(<<"manifest", "certificate", "manifest">>)
    \o <<Then("certificate", {<<1, 3>>, <<2, 4>>})>>

(* observe_package_runtime: the package bracketed around both passes *)
RuntimeComparesNode ==
  Looks(<<"package", "node", "header">>) \o <<Then("package", {<<2, 4>>})>>
    \o Looks(<<"node", "header">>) \o <<Then("package", {<<1, 7>>})>>
ObservePackageRuntime ==
  Looks(<<"package", "node", "header">>) \o <<Then("package", {<<1, 4>>})>>
    \o Looks(<<"node", "header">>) \o <<Then("package", {<<1, 7>>})>>

(* observe_launch_files: package and manager around three files. The       *)
(* manager is asked in two queries, one for each group of properties.      *)
ObserveLaunchFiles ==
  LET files == Looks(<<"wrapper", "use_node", "dist">>)
      Again(k) == <<Then("package", {<<1, k>>}), Look("unit"),
                    Then("service", {<<2, k + 1>>, <<3, k + 2>>})>>
  IN  Looks(<<"package", "unit", "service">>) \o files \o Again(7) \o files \o Again(13)

(* observe_service_configuration *)
ObserveServiceUnitOnly ==
  Looks(<<"unit", "service", "unit">>) \o <<Then("service", {<<1, 3>>})>>
ObserveServiceConfiguration ==
  Looks(<<"unit", "service", "unit">>) \o <<Then("service", {<<1, 3>>, <<2, 4>>})>>

(* _native_snapshot: the directory of the process, its files by descriptor,*)
(* owner and start time again, and the directory again by name. The first  *)
(* and last look must agree on the directory, the start times on each other*)
(* k is the number of looks before it.                                     *)
NativeSnapshot(k) ==
  Looks(<<"dir", "stat", "status", "cmdline", "environ", "exe", "status">>)
    \o <<Then("stat", {<<k + 2, k + 8>>}), Then("dir", {<<k + 1, k + 9>>})>>

(* observe_running_process: two snapshots, the manager asked before,       *)
(* between and after, each time for all it said the first time (_anchor).  *)
(* Start, executable, command line and environment of the snapshots are    *)
(* compared at the end.                                                    *)
AnchorOfUnit(k) == {<<1, k + 1>>}
Anchor(k) == {<<1, k + 1>>, <<2, k + 2>>}

ObserveRunningProcess ==
  Looks(<<"unit", "service">>)
    \o NativeSnapshot(2) \o <<Look("unit"), Then("service", Anchor(11))>>
    \o NativeSnapshot(13)
    \o <<Look("unit"), Then("service",
           Anchor(22) \cup {<<4, 15>>, <<6, 17>>, <<7, 18>>, <<8, 19>>})>>

(* collect of collect_broker_code_inventory.py: the sources twice, then    *)
(* the service account once more.                                          *)
CollectBrokerCode ==
  Looks(<<"identity", "source", "plugin", "source">>)
    \o <<Then("plugin", {<<2, 4>>, <<3, 5>>}), Then("identity", {<<1, 6>>})>>

Scripts ==
  [bytes |-> VerifyInstalledBytes, bootstrap |-> LoadBootstrap,
   runtime |-> ObservePackageRuntime, launch |-> ObserveLaunchFiles,
   service |-> ObserveServiceConfiguration, process |-> ObserveRunningProcess,
   broker |-> CollectBrokerCode]

Observers == DOMAIN Scripts
ProcFiles == {"stat", "status", "cmdline", "environ", "exe"}
Readable(o) == {Scripts[o][k].read : k \in DOMAIN Scripts[o]}

-----------------------------------------------------------------------------
(* What a look sees. /proc is entered through the MainPID the manager gave *)
(* first, its files through the directory held open.                       *)

See(w, r, pid) ==
  CASE r \in Plain -> w.plain[r]
    [] r = "service" -> w.service
    [] r = "dir" -> w.procs[pid].inst
    [] r = "stat" -> w.procs[pid].start
    [] r = "status" -> w.procs[pid].ours
    [] r = "exe" -> w.procs[pid].exe
    [] r \in {"cmdline", "environ"} -> w.procs[pid].text

(* The checks each value passes before the next look: pins and parsers of  *)
(* the files, _summarize and _configuration on the manager's answer,       *)
(* _credentials and _executable on the process.                            *)
Accepted(r, v) ==
  CASE r \in Plain -> v # "bad"
    [] r = "status" -> v
    [] r = "exe" -> v = "node"
    [] OTHER -> TRUE

Script == Scripts[observer]
Next_ == Script[Len(seen) + 1]
AnchorPid == IF observer = "process" /\ Len(seen) >= 2 THEN seen[2].pid ELSE world.service.pid
Gone ==
  LET there == world.procs[AnchorPid].inst
  IN  \/ Next_.read = "dir" /\ there = 0
      \/ Next_.read \in ProcFiles /\ there # held

Call(o) ==
  /\ observer = "none"
  /\ observer' = o
  /\ worlds' = <<world>>
  /\ UNCHANGED <<world, seen, at, held, result>>

End(why) ==
  /\ result' = why
  /\ UNCHANGED <<world, worlds, observer>>

(* One look: it fails with ESRCH on a process that is gone, is rejected by *)
(* its check, differs from an earlier look, or the observer goes on.       *)
Took(v) ==
  LET all == Append(seen, v)
      good == Accepted(Next_.read, v)
      changed == \E p \in Next_.same : all[p[1]] # all[p[2]]
  IN  /\ seen' = all
      /\ at' = Append(at, Len(worlds))
      /\ held' = IF Next_.read = "dir" THEN v ELSE held
      /\ \/ ~good /\ End("rejected")
         \/ good /\ changed /\ End("CHANGED")
         \/ good /\ ~changed /\ End(IF Len(all) = Len(Script) THEN "ok" ELSE "none")

StepOrOk ==
  /\ observer # "none" /\ result = "none"
  /\ \/ Gone /\ End("ok") /\ UNCHANGED <<seen, at, held>>
     \/ ~Gone /\ Took(See(world, Next_.read, AnchorPid))
Step ==
  /\ observer # "none" /\ result = "none"
  /\ \/ Gone /\ End("PROCESS_IO") /\ UNCHANGED <<seen, at, held>>
     \/ ~Gone /\ Took(See(world, Next_.read, AnchorPid))

-----------------------------------------------------------------------------
(* The rest of the host, while an observer runs. Only what it looks at     *)
(* need change.                                                            *)

Become(w) ==
  /\ observer # "none" /\ result = "none" /\ Len(worlds) <= MaxChanges
  /\ world' = w
  /\ worlds' = Append(worlds, w)
  /\ UNCHANGED <<observer, seen, at, held, result>>

Rewrite(r, v) ==
  /\ r \in Readable(observer) /\ world.plain[r] # v
  /\ Become([world EXCEPT !.plain[r] = v])

(* The service is stopped and started: a new main process, under any pid,  *)
(* the old one included; the manager's microsecond timestamp is new.       *)
Restart(p, t) ==
  /\ "service" \in Readable(observer)
  /\ p = world.service.pid \/ world.procs[p].inst = 0
  /\ LET n == world.service.started + 1
         new == [inst |-> n, start |-> t, exe |-> "node", text |-> "a", ours |-> TRUE]
     IN  Become([world EXCEPT !.service = [pid |-> p, started |-> n],
                              !.procs[world.service.pid].inst = 0, !.procs[p] = new])

(* The main process changes its title, or executes something else. *)
Transform(exe, text) ==
  /\ "dir" \in Readable(observer)
  /\ [Main(world) EXCEPT !.exe = exe, !.text = text] # Main(world)
  /\ Become([world EXCEPT !.procs[world.service.pid].exe = exe, !.procs[world.service.pid].text = text])

(* A pid nobody has goes to a process of somebody else. *)
Reuse(p) ==
  /\ "dir" \in Readable(observer)
  /\ world.procs[p].inst = 0
  /\ Become([world EXCEPT !.procs[p].inst = world.service.started + 1, !.procs[p].ours = FALSE])

Environment ==
  /\ observer # "none"
  /\ \/ \E r \in Plain : \E v \in PlainValue(r) : Rewrite(r, v)
     \/ \E p \in Pid, t \in {1, 2} : Restart(p, t)
     \/ \E e \in {"node", "other"}, t \in {"a", "b"} : Transform(e, t)
     \/ \E p \in Pid : Reuse(p)

Init ==
  /\ \E p \in Pid :
       world = [plain |-> [r \in Plain |-> IF r \in Pinned THEN "pin" ELSE "a"],
                service |-> [pid |-> p, started |-> 1],
                procs |-> [q \in Pid |-> [inst |-> IF q = p THEN 1 ELSE 0, start |-> 1,
                                          exe |-> "node", text |-> "a", ours |-> TRUE]]]
  /\ worlds = <<>> /\ observer = "none" /\ seen = <<>> /\ at = <<>>
  /\ held = 0 /\ result = "none"

(* One call is followed to its end. *)
Done == result # "none" /\ UNCHANGED vars

Next == (\E o \in Observers : Call(o)) \/ Step \/ Environment \/ Done

Spec == Init /\ [][Next]_vars

-----------------------------------------------------------------------------
TypeOK ==
  /\ world \in World
  /\ observer \in Observers \cup {"none"}
  /\ result \in {"none", "ok", "rejected", "CHANGED", "PROCESS_IO"}
  /\ held \in Nat
  /\ DOMAIN seen = DOMAIN at
  /\ observer = "none" => seen = <<>>
  /\ observer # "none" => Len(seen) <= Len(Script) /\ world = worlds[Len(worlds)]
  /\ result = "ok" => Len(seen) = Len(Script)

(* Something went back to what it had been before. What the manager counts *)
(* and who a process is never does.                                        *)
WentBack(Part(_)) ==
  \E i, j, k \in DOMAIN worlds :
    /\ i < j /\ j < k
    /\ Part(worlds[i]) = Part(worlds[k]) /\ Part(worlds[j]) # Part(worlds[i])

Reversed ==
  \/ \E r \in Plain : WentBack(LAMBDA w : w.plain[r])
  \/ \E p \in Pid : WentBack(LAMBDA w : w.procs[p].exe) \/ WentBack(LAMBDA w : w.procs[p].text)

(* Unless something was changed and changed back during the call, all that *)
(* an observer that succeeds has seen was there together at one instant.   *)
(* This is what two passes buy, for every pair of things it looks at.      *)
SnapshotUnlessReversed ==
  result = "ok" /\ ~Reversed =>
    \E i \in DOMAIN worlds : \A k \in DOMAIN seen :
      seen[k] = See(worlds[i], Script[k].read, AnchorPid)

(* A process observation is of one run of the service: it was not restarted*)
(* from the first answer of the manager to the last, whatever else changed *)
(* and changed back, and whoever took over a pid or a start time.          *)
OneInstance ==
  result = "ok" /\ observer = "process" =>
    \A i \in at[2] .. at[Len(at)] : worlds[i].service = seen[2]

(* An observer reports a change only if there was one. *)
NoFalseAlarm == result \in {"CHANGED", "PROCESS_IO"} => Len(worlds) > 1

=============================================================================
