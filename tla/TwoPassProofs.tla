--------------------------- MODULE TwoPassProofs ---------------------------
(***************************************************************************)
(* Theorems about the two-pass observers of TwoPass, for every set of      *)
(* process ids and every number of changes of the world during a call.     *)
(*                                                                         *)
(* The worlds of a call follow each other: the manager's count of starts   *)
(* never falls, and while it stays so do the service, the identity, the    *)
(* start time and the owner of its main process (Past). Each look saw one  *)
(* of those worlds, later looks no earlier ones (Looked), and what has     *)
(* passed was accepted and compared (Compared). What a script gives for a  *)
(* snapshot is that each of its looks has an equal one before, and one     *)
(* after, the same point in the middle (Bracketed).                        *)
(***************************************************************************)
EXTENDS TwoPass, TLAPS

-----------------------------------------------------------------------------
(* What every script is like: it compares looks it has taken, at one thing.*)

Free == Plain \cup {"service"}

Sound(s) ==
  /\ DOMAIN s = 1 .. Len(s) /\ Len(s) \in Nat
  /\ \A k \in 1 .. Len(s) :
       /\ s[k].read \in Free \cup {"dir"} \cup ProcFiles
       /\ \A p \in s[k].same : /\ p[1] \in 1 .. k /\ p[2] \in 1 .. k
                               /\ s[p[1]].read = s[p[2]].read

OnlyFree(s) == \A k \in 1 .. Len(s) : s[k].read \in Free

(* Two looks of a script that succeeds are equal: it compares them, or the *)
(* thing they look at is pinned.                                           *)
Linked(s, i, j) ==
  \/ i = j
  \/ s[i].read = s[j].read /\ s[i].read \in Pinned
  \/ \E c \in 1 .. Len(s) : <<i, j>> \in s[c].same \/ <<j, i>> \in s[c].same

(* The look in the middle. *)
Middle(o) ==
  CASE o \in {"bytes", "runtime"} -> 4
    [] o \in {"bootstrap", "service"} -> 2
    [] o = "launch" -> 7
    [] o = "broker" -> 3
    [] o = "process" -> 12

Bracketed(s, m, k) ==
  \E lo \in 1 .. m, hi \in m .. Len(s) :
    /\ s[lo].read = s[k].read /\ s[hi].read = s[k].read
    /\ Linked(s, lo, k) /\ Linked(s, k, hi)

-----------------------------------------------------------------------------
(* The inductive invariant. *)

(* A world has the service running under the pid the manager names.        *)
Live(w) ==
  /\ w \in World
  /\ Main(w).inst = w.service.started /\ w.service.started # 0
  /\ \A r \in Pinned : w.plain[r] \in {"pin", "bad"}

Follows(v, w) ==
  /\ v.service.started <= w.service.started
  /\ v.service.started = w.service.started =>
       /\ v.service = w.service
       /\ Main(v).start = Main(w).start /\ Main(v).ours = Main(w).ours

Past ==
  /\ worlds \in Seq(World) /\ Live(world)
  /\ observer = "none" => worlds = <<>>
  /\ observer # "none" => worlds # <<>> /\ world = worlds[Len(worlds)]
  /\ \A i \in 1 .. Len(worlds) : Live(worlds[i])
  /\ \A i, j \in 1 .. Len(worlds) : i <= j => Follows(worlds[i], worlds[j])

Typed ==
  /\ observer \in Observers \cup {"none"}
  /\ result \in {"none", "ok", "rejected", "CHANGED", "PROCESS_IO"}
  /\ held \in Nat
  /\ at \in Seq(Nat)
  /\ Len(seen) = Len(at) /\ DOMAIN seen = 1 .. Len(seen)
  /\ observer = "none" => seen = <<>> /\ at = <<>> /\ result = "none"
  /\ observer # "none" => Len(seen) <= Len(Script)
  /\ observer # "none" /\ result = "none" => Len(seen) < Len(Script)
  /\ result = "ok" => Len(seen) = Len(Script)

Looked ==
  /\ \A k \in 1 .. Len(at) : /\ at[k] \in 1 .. Len(worlds)
                             /\ seen[k] = See(worlds[at[k]], Script[k].read, AnchorPid)
  /\ \A j, k \in 1 .. Len(at) : j <= k => at[j] <= at[k]

Compared ==
  result \in {"none", "ok"} =>
    \A k \in 1 .. Len(at) :
      /\ Accepted(Script[k].read, seen[k])
      /\ \A p \in Script[k].same : seen[p[1]] = seen[p[2]]

(* In a world that does not change the directory held open stays that of   *)
(* the main process.                                                       *)
Entered ==
  Len(worlds) = 1 /\ observer = "process" /\ Len(at) >= 3 => held = Main(world).inst

IInv == Past /\ Typed /\ Looked /\ Compared /\ Entered /\ NoFalseAlarm


-----------------------------------------------------------------------------
(* The scripts look by look, what each of them is like, and the brackets   *)
(* of its looks around the middle.                                         *)

LEMMA Elements_bytes ==
  /\ DOMAIN VerifyInstalledBytes = 1 .. 8 /\ Len(VerifyInstalledBytes) = 8
  /\ VerifyInstalledBytes[1].read = "client" /\ VerifyInstalledBytes[1].same = {}
  /\ VerifyInstalledBytes[2].read = "module" /\ VerifyInstalledBytes[2].same = {}
  /\ VerifyInstalledBytes[3].read = "node" /\ VerifyInstalledBytes[3].same = {}
  /\ VerifyInstalledBytes[4].read = "header" /\ VerifyInstalledBytes[4].same = {}
  /\ VerifyInstalledBytes[5].read = "client" /\ VerifyInstalledBytes[5].same = {}
  /\ VerifyInstalledBytes[6].read = "module" /\ VerifyInstalledBytes[6].same = {}
  /\ VerifyInstalledBytes[7].read = "node" /\ VerifyInstalledBytes[7].same = {}
  /\ VerifyInstalledBytes[8].read = "header" /\ VerifyInstalledBytes[8].same = {}
  BY DEF VerifyInstalledBytes, Looks, Look

LEMMA Elements_bootstrap ==
  /\ DOMAIN LoadBootstrap = 1 .. 4 /\ Len(LoadBootstrap) = 4
  /\ LoadBootstrap[1].read = "manifest" /\ LoadBootstrap[1].same = {}
  /\ LoadBootstrap[2].read = "certificate" /\ LoadBootstrap[2].same = {}
  /\ LoadBootstrap[3].read = "manifest" /\ LoadBootstrap[3].same = {}
  /\ LoadBootstrap[4].read = "certificate" /\ LoadBootstrap[4].same = {<<1, 3>>, <<2, 4>>}
  BY DEF LoadBootstrap, Looks, Look, Then

LEMMA Elements_runtime ==
  /\ DOMAIN ObservePackageRuntime = 1 .. 7 /\ Len(ObservePackageRuntime) = 7
  /\ ObservePackageRuntime[1].read = "package" /\ ObservePackageRuntime[1].same = {}
  /\ ObservePackageRuntime[2].read = "node" /\ ObservePackageRuntime[2].same = {}
  /\ ObservePackageRuntime[3].read = "header" /\ ObservePackageRuntime[3].same = {}
  /\ ObservePackageRuntime[4].read = "package" /\ ObservePackageRuntime[4].same = {<<1, 4>>}
  /\ ObservePackageRuntime[5].read = "node" /\ ObservePackageRuntime[5].same = {}
  /\ ObservePackageRuntime[6].read = "header" /\ ObservePackageRuntime[6].same = {}
  /\ ObservePackageRuntime[7].read = "package" /\ ObservePackageRuntime[7].same = {<<1, 7>>}
  BY DEF ObservePackageRuntime, Looks, Look, Then

LEMMA Elements_launch ==
  /\ DOMAIN ObserveLaunchFiles = 1 .. 15 /\ Len(ObserveLaunchFiles) = 15
  /\ ObserveLaunchFiles[1].read = "package" /\ ObserveLaunchFiles[1].same = {}
  /\ ObserveLaunchFiles[2].read = "unit" /\ ObserveLaunchFiles[2].same = {}
  /\ ObserveLaunchFiles[3].read = "service" /\ ObserveLaunchFiles[3].same = {}
  /\ ObserveLaunchFiles[4].read = "wrapper" /\ ObserveLaunchFiles[4].same = {}
  /\ ObserveLaunchFiles[5].read = "use_node" /\ ObserveLaunchFiles[5].same = {}
  /\ ObserveLaunchFiles[6].read = "dist" /\ ObserveLaunchFiles[6].same = {}
  /\ ObserveLaunchFiles[7].read = "package" /\ ObserveLaunchFiles[7].same = {<<1, 7>>}
  /\ ObserveLaunchFiles[8].read = "unit" /\ ObserveLaunchFiles[8].same = {}
  /\ ObserveLaunchFiles[9].read = "service" /\ ObserveLaunchFiles[9].same = {<<2, 8>>, <<3, 9>>}
  /\ ObserveLaunchFiles[10].read = "wrapper" /\ ObserveLaunchFiles[10].same = {}
  /\ ObserveLaunchFiles[11].read = "use_node" /\ ObserveLaunchFiles[11].same = {}
  /\ ObserveLaunchFiles[12].read = "dist" /\ ObserveLaunchFiles[12].same = {}
  /\ ObserveLaunchFiles[13].read = "package" /\ ObserveLaunchFiles[13].same = {<<1, 13>>}
  /\ ObserveLaunchFiles[14].read = "unit" /\ ObserveLaunchFiles[14].same = {}
  /\ ObserveLaunchFiles[15].read = "service" /\ ObserveLaunchFiles[15].same = {<<2, 14>>, <<3, 15>>}
  BY DEF ObserveLaunchFiles, Looks, Look, Then

LEMMA Elements_service ==
  /\ DOMAIN ObserveServiceConfiguration = 1 .. 4 /\ Len(ObserveServiceConfiguration) = 4
  /\ ObserveServiceConfiguration[1].read = "unit" /\ ObserveServiceConfiguration[1].same = {}
  /\ ObserveServiceConfiguration[2].read = "service" /\ ObserveServiceConfiguration[2].same = {}
  /\ ObserveServiceConfiguration[3].read = "unit" /\ ObserveServiceConfiguration[3].same = {}
  /\ ObserveServiceConfiguration[4].read = "service" /\ ObserveServiceConfiguration[4].same = {<<1, 3>>, <<2, 4>>}
  BY DEF ObserveServiceConfiguration, Looks, Look, Then

LEMMA Elements_broker ==
  /\ DOMAIN CollectBrokerCode = 1 .. 6 /\ Len(CollectBrokerCode) = 6
  /\ CollectBrokerCode[1].read = "identity" /\ CollectBrokerCode[1].same = {}
  /\ CollectBrokerCode[2].read = "source" /\ CollectBrokerCode[2].same = {}
  /\ CollectBrokerCode[3].read = "plugin" /\ CollectBrokerCode[3].same = {}
  /\ CollectBrokerCode[4].read = "source" /\ CollectBrokerCode[4].same = {}
  /\ CollectBrokerCode[5].read = "plugin" /\ CollectBrokerCode[5].same = {<<2, 4>>, <<3, 5>>}
  /\ CollectBrokerCode[6].read = "identity" /\ CollectBrokerCode[6].same = {<<1, 6>>}
  BY DEF CollectBrokerCode, Looks, Look, Then

LEMMA Elements_process ==
  /\ DOMAIN ObserveRunningProcess = 1 .. 24 /\ Len(ObserveRunningProcess) = 24
  /\ ObserveRunningProcess[1].read = "unit" /\ ObserveRunningProcess[1].same = {}
  /\ ObserveRunningProcess[2].read = "service" /\ ObserveRunningProcess[2].same = {}
  /\ ObserveRunningProcess[3].read = "dir" /\ ObserveRunningProcess[3].same = {}
  /\ ObserveRunningProcess[4].read = "stat" /\ ObserveRunningProcess[4].same = {}
  /\ ObserveRunningProcess[5].read = "status" /\ ObserveRunningProcess[5].same = {}
  /\ ObserveRunningProcess[6].read = "cmdline" /\ ObserveRunningProcess[6].same = {}
  /\ ObserveRunningProcess[7].read = "environ" /\ ObserveRunningProcess[7].same = {}
  /\ ObserveRunningProcess[8].read = "exe" /\ ObserveRunningProcess[8].same = {}
  /\ ObserveRunningProcess[9].read = "status" /\ ObserveRunningProcess[9].same = {}
  /\ ObserveRunningProcess[10].read = "stat" /\ ObserveRunningProcess[10].same = {<<4, 10>>}
  /\ ObserveRunningProcess[11].read = "dir" /\ ObserveRunningProcess[11].same = {<<3, 11>>}
  /\ ObserveRunningProcess[12].read = "unit" /\ ObserveRunningProcess[12].same = {}
  /\ ObserveRunningProcess[13].read = "service" /\ ObserveRunningProcess[13].same = {<<1, 12>>, <<2, 13>>}
  /\ ObserveRunningProcess[14].read = "dir" /\ ObserveRunningProcess[14].same = {}
  /\ ObserveRunningProcess[15].read = "stat" /\ ObserveRunningProcess[15].same = {}
  /\ ObserveRunningProcess[16].read = "status" /\ ObserveRunningProcess[16].same = {}
  /\ ObserveRunningProcess[17].read = "cmdline" /\ ObserveRunningProcess[17].same = {}
  /\ ObserveRunningProcess[18].read = "environ" /\ ObserveRunningProcess[18].same = {}
  /\ ObserveRunningProcess[19].read = "exe" /\ ObserveRunningProcess[19].same = {}
  /\ ObserveRunningProcess[20].read = "status" /\ ObserveRunningProcess[20].same = {}
  /\ ObserveRunningProcess[21].read = "stat" /\ ObserveRunningProcess[21].same = {<<15, 21>>}
  /\ ObserveRunningProcess[22].read = "dir" /\ ObserveRunningProcess[22].same = {<<14, 22>>}
  /\ ObserveRunningProcess[23].read = "unit" /\ ObserveRunningProcess[23].same = {}
  /\ ObserveRunningProcess[24].read = "service" /\ ObserveRunningProcess[24].same = {<<1, 23>>, <<2, 24>>, <<4, 15>>, <<6, 17>>, <<7, 18>>, <<8, 19>>}
  BY DEF ObserveRunningProcess, NativeSnapshot, Looks, Look, Then, Anchor

LEMMA Sound_bytes == Sound(VerifyInstalledBytes) /\ OnlyFree(VerifyInstalledBytes)
  BY Elements_bytes DEF Sound, OnlyFree, Free, Plain, Pinned, Varying

LEMMA Bracketed_bytes == \A k \in 1 .. Len(VerifyInstalledBytes) : Bracketed(VerifyInstalledBytes, 4, k)
  BY Elements_bytes DEF Bracketed, Linked, Pinned

LEMMA Sound_bootstrap == Sound(LoadBootstrap) /\ OnlyFree(LoadBootstrap)
  BY Elements_bootstrap DEF Sound, OnlyFree, Free, Plain, Pinned, Varying

LEMMA Bracketed_bootstrap == \A k \in 1 .. Len(LoadBootstrap) : Bracketed(LoadBootstrap, 2, k)
  BY Elements_bootstrap DEF Bracketed, Linked, Pinned

LEMMA Sound_runtime == Sound(ObservePackageRuntime) /\ OnlyFree(ObservePackageRuntime)
  BY Elements_runtime DEF Sound, OnlyFree, Free, Plain, Pinned, Varying

LEMMA Bracketed_runtime == \A k \in 1 .. Len(ObservePackageRuntime) : Bracketed(ObservePackageRuntime, 4, k)
  BY Elements_runtime DEF Bracketed, Linked, Pinned

LEMMA Sound_launch == Sound(ObserveLaunchFiles) /\ OnlyFree(ObserveLaunchFiles)
  BY Elements_launch DEF Sound, OnlyFree, Free, Plain, Pinned, Varying

LEMMA Bracketed_launch == \A k \in 1 .. Len(ObserveLaunchFiles) : Bracketed(ObserveLaunchFiles, 7, k)
<1> DEFINE s == ObserveLaunchFiles
<1>1. <<1, 7>> \in s[7].same /\ <<1, 13>> \in s[13].same /\ <<2, 8>> \in s[9].same /\ <<2, 14>> \in s[15].same /\ <<3, 9>> \in s[9].same /\ <<3, 15>> \in s[15].same
  BY Elements_launch
<1>2. /\ Linked(s, 1, 7) /\ Linked(s, 7, 1) /\ Linked(s, 1, 1) /\ Linked(s, 7, 7)
      /\ Linked(s, 1, 13) /\ Linked(s, 13, 1) /\ Linked(s, 1, 1) /\ Linked(s, 13, 13)
      /\ Linked(s, 2, 8) /\ Linked(s, 8, 2) /\ Linked(s, 2, 2) /\ Linked(s, 8, 8)
      /\ Linked(s, 2, 14) /\ Linked(s, 14, 2) /\ Linked(s, 2, 2) /\ Linked(s, 14, 14)
      /\ Linked(s, 3, 9) /\ Linked(s, 9, 3) /\ Linked(s, 3, 3) /\ Linked(s, 9, 9)
      /\ Linked(s, 3, 15) /\ Linked(s, 15, 3) /\ Linked(s, 3, 3) /\ Linked(s, 15, 15)
  BY <1>1, Elements_launch DEF Linked
<1>3. Linked(s, 4, 10) /\ Linked(s, 10, 4) /\ Linked(s, 4, 4) /\ Linked(s, 10, 10) /\ Linked(s, 5, 11) /\ Linked(s, 11, 5) /\ Linked(s, 5, 5) /\ Linked(s, 11, 11) /\ Linked(s, 6, 12) /\ Linked(s, 12, 6) /\ Linked(s, 6, 6) /\ Linked(s, 12, 12)
  BY Elements_launch DEF Linked, Pinned
<1>4. Bracketed(s, 7, 1)
  <2>1. 1 \in 1 .. 7 /\ 7 \in 7 .. Len(s) /\ s[1].read = s[1].read /\ s[7].read = s[1].read /\ Linked(s, 1, 1) /\ Linked(s, 1, 7)
    BY Elements_launch, <1>2, <1>3
  <2>2. QED
    BY <2>1 DEF Bracketed
<1>5. Bracketed(s, 7, 7)
  <2>1. 7 \in 1 .. 7 /\ 7 \in 7 .. Len(s) /\ s[7].read = s[7].read /\ s[7].read = s[7].read /\ Linked(s, 7, 7) /\ Linked(s, 7, 7)
    BY Elements_launch, <1>2, <1>3
  <2>2. QED
    BY <2>1 DEF Bracketed
<1>6. Bracketed(s, 7, 13)
  <2>1. 1 \in 1 .. 7 /\ 13 \in 7 .. Len(s) /\ s[1].read = s[13].read /\ s[13].read = s[13].read /\ Linked(s, 1, 13) /\ Linked(s, 13, 13)
    BY Elements_launch, <1>2, <1>3
  <2>2. QED
    BY <2>1 DEF Bracketed
<1>7. Bracketed(s, 7, 2)
  <2>1. 2 \in 1 .. 7 /\ 8 \in 7 .. Len(s) /\ s[2].read = s[2].read /\ s[8].read = s[2].read /\ Linked(s, 2, 2) /\ Linked(s, 2, 8)
    BY Elements_launch, <1>2, <1>3
  <2>2. QED
    BY <2>1 DEF Bracketed
<1>8. Bracketed(s, 7, 8)
  <2>1. 2 \in 1 .. 7 /\ 8 \in 7 .. Len(s) /\ s[2].read = s[8].read /\ s[8].read = s[8].read /\ Linked(s, 2, 8) /\ Linked(s, 8, 8)
    BY Elements_launch, <1>2, <1>3
  <2>2. QED
    BY <2>1 DEF Bracketed
<1>9. Bracketed(s, 7, 14)
  <2>1. 2 \in 1 .. 7 /\ 14 \in 7 .. Len(s) /\ s[2].read = s[14].read /\ s[14].read = s[14].read /\ Linked(s, 2, 14) /\ Linked(s, 14, 14)
    BY Elements_launch, <1>2, <1>3
  <2>2. QED
    BY <2>1 DEF Bracketed
<1>10. Bracketed(s, 7, 3)
  <2>1. 3 \in 1 .. 7 /\ 9 \in 7 .. Len(s) /\ s[3].read = s[3].read /\ s[9].read = s[3].read /\ Linked(s, 3, 3) /\ Linked(s, 3, 9)
    BY Elements_launch, <1>2, <1>3
  <2>2. QED
    BY <2>1 DEF Bracketed
<1>11. Bracketed(s, 7, 9)
  <2>1. 3 \in 1 .. 7 /\ 9 \in 7 .. Len(s) /\ s[3].read = s[9].read /\ s[9].read = s[9].read /\ Linked(s, 3, 9) /\ Linked(s, 9, 9)
    BY Elements_launch, <1>2, <1>3
  <2>2. QED
    BY <2>1 DEF Bracketed
<1>12. Bracketed(s, 7, 15)
  <2>1. 3 \in 1 .. 7 /\ 15 \in 7 .. Len(s) /\ s[3].read = s[15].read /\ s[15].read = s[15].read /\ Linked(s, 3, 15) /\ Linked(s, 15, 15)
    BY Elements_launch, <1>2, <1>3
  <2>2. QED
    BY <2>1 DEF Bracketed
<1>13. Bracketed(s, 7, 4)
  <2>1. 4 \in 1 .. 7 /\ 10 \in 7 .. Len(s) /\ s[4].read = s[4].read /\ s[10].read = s[4].read /\ Linked(s, 4, 4) /\ Linked(s, 4, 10)
    BY Elements_launch, <1>2, <1>3
  <2>2. QED
    BY <2>1 DEF Bracketed
<1>14. Bracketed(s, 7, 10)
  <2>1. 4 \in 1 .. 7 /\ 10 \in 7 .. Len(s) /\ s[4].read = s[10].read /\ s[10].read = s[10].read /\ Linked(s, 4, 10) /\ Linked(s, 10, 10)
    BY Elements_launch, <1>2, <1>3
  <2>2. QED
    BY <2>1 DEF Bracketed
<1>15. Bracketed(s, 7, 5)
  <2>1. 5 \in 1 .. 7 /\ 11 \in 7 .. Len(s) /\ s[5].read = s[5].read /\ s[11].read = s[5].read /\ Linked(s, 5, 5) /\ Linked(s, 5, 11)
    BY Elements_launch, <1>2, <1>3
  <2>2. QED
    BY <2>1 DEF Bracketed
<1>16. Bracketed(s, 7, 11)
  <2>1. 5 \in 1 .. 7 /\ 11 \in 7 .. Len(s) /\ s[5].read = s[11].read /\ s[11].read = s[11].read /\ Linked(s, 5, 11) /\ Linked(s, 11, 11)
    BY Elements_launch, <1>2, <1>3
  <2>2. QED
    BY <2>1 DEF Bracketed
<1>17. Bracketed(s, 7, 6)
  <2>1. 6 \in 1 .. 7 /\ 12 \in 7 .. Len(s) /\ s[6].read = s[6].read /\ s[12].read = s[6].read /\ Linked(s, 6, 6) /\ Linked(s, 6, 12)
    BY Elements_launch, <1>2, <1>3
  <2>2. QED
    BY <2>1 DEF Bracketed
<1>18. Bracketed(s, 7, 12)
  <2>1. 6 \in 1 .. 7 /\ 12 \in 7 .. Len(s) /\ s[6].read = s[12].read /\ s[12].read = s[12].read /\ Linked(s, 6, 12) /\ Linked(s, 12, 12)
    BY Elements_launch, <1>2, <1>3
  <2>2. QED
    BY <2>1 DEF Bracketed
<1>19. QED
  BY <1>4, <1>5, <1>6, <1>7, <1>8, <1>9, <1>10, <1>11, <1>12, <1>13, <1>14, <1>15, <1>16, <1>17, <1>18, Elements_launch

LEMMA Sound_service == Sound(ObserveServiceConfiguration) /\ OnlyFree(ObserveServiceConfiguration)
  BY Elements_service DEF Sound, OnlyFree, Free, Plain, Pinned, Varying

LEMMA Bracketed_service == \A k \in 1 .. Len(ObserveServiceConfiguration) : Bracketed(ObserveServiceConfiguration, 2, k)
  BY Elements_service DEF Bracketed, Linked, Pinned

LEMMA Sound_broker == Sound(CollectBrokerCode) /\ OnlyFree(CollectBrokerCode)
  BY Elements_broker DEF Sound, OnlyFree, Free, Plain, Pinned, Varying

LEMMA Bracketed_broker == \A k \in 1 .. Len(CollectBrokerCode) : Bracketed(CollectBrokerCode, 3, k)
  BY Elements_broker DEF Bracketed, Linked, Pinned

LEMMA Sound_process == Sound(ObserveRunningProcess)
  BY Elements_process DEF Sound, ProcFiles, Free, Plain, Pinned, Varying

LEMMA Bracketed_process ==
  \A k \in 1 .. Len(ObserveRunningProcess) :
    ObserveRunningProcess[k].read \in Free \cup {"cmdline", "environ", "exe"} =>
      Bracketed(ObserveRunningProcess, 12, k)
<1> DEFINE s == ObserveRunningProcess
<1>1. <<1, 12>> \in s[13].same /\ <<1, 23>> \in s[24].same /\ <<2, 13>> \in s[13].same /\ <<2, 24>> \in s[24].same /\ <<6, 17>> \in s[24].same /\ <<7, 18>> \in s[24].same /\ <<8, 19>> \in s[24].same
  BY Elements_process
<1>2. /\ Linked(s, 1, 12) /\ Linked(s, 12, 1) /\ Linked(s, 1, 1) /\ Linked(s, 12, 12)
      /\ Linked(s, 1, 23) /\ Linked(s, 23, 1) /\ Linked(s, 1, 1) /\ Linked(s, 23, 23)
      /\ Linked(s, 2, 13) /\ Linked(s, 13, 2) /\ Linked(s, 2, 2) /\ Linked(s, 13, 13)
      /\ Linked(s, 2, 24) /\ Linked(s, 24, 2) /\ Linked(s, 2, 2) /\ Linked(s, 24, 24)
      /\ Linked(s, 6, 17) /\ Linked(s, 17, 6) /\ Linked(s, 6, 6) /\ Linked(s, 17, 17)
      /\ Linked(s, 7, 18) /\ Linked(s, 18, 7) /\ Linked(s, 7, 7) /\ Linked(s, 18, 18)
      /\ Linked(s, 8, 19) /\ Linked(s, 19, 8) /\ Linked(s, 8, 8) /\ Linked(s, 19, 19)
  BY <1>1, Elements_process DEF Linked
<1>4. Bracketed(s, 12, 1)
  <2>1. 1 \in 1 .. 12 /\ 12 \in 12 .. Len(s) /\ s[1].read = s[1].read /\ s[12].read = s[1].read /\ Linked(s, 1, 1) /\ Linked(s, 1, 12)
    BY Elements_process, <1>2
  <2>2. QED
    BY <2>1 DEF Bracketed
<1>5. Bracketed(s, 12, 12)
  <2>1. 12 \in 1 .. 12 /\ 12 \in 12 .. Len(s) /\ s[12].read = s[12].read /\ s[12].read = s[12].read /\ Linked(s, 12, 12) /\ Linked(s, 12, 12)
    BY Elements_process, <1>2
  <2>2. QED
    BY <2>1 DEF Bracketed
<1>6. Bracketed(s, 12, 23)
  <2>1. 1 \in 1 .. 12 /\ 23 \in 12 .. Len(s) /\ s[1].read = s[23].read /\ s[23].read = s[23].read /\ Linked(s, 1, 23) /\ Linked(s, 23, 23)
    BY Elements_process, <1>2
  <2>2. QED
    BY <2>1 DEF Bracketed
<1>7. Bracketed(s, 12, 2)
  <2>1. 2 \in 1 .. 12 /\ 13 \in 12 .. Len(s) /\ s[2].read = s[2].read /\ s[13].read = s[2].read /\ Linked(s, 2, 2) /\ Linked(s, 2, 13)
    BY Elements_process, <1>2
  <2>2. QED
    BY <2>1 DEF Bracketed
<1>8. Bracketed(s, 12, 13)
  <2>1. 2 \in 1 .. 12 /\ 13 \in 12 .. Len(s) /\ s[2].read = s[13].read /\ s[13].read = s[13].read /\ Linked(s, 2, 13) /\ Linked(s, 13, 13)
    BY Elements_process, <1>2
  <2>2. QED
    BY <2>1 DEF Bracketed
<1>9. Bracketed(s, 12, 24)
  <2>1. 2 \in 1 .. 12 /\ 24 \in 12 .. Len(s) /\ s[2].read = s[24].read /\ s[24].read = s[24].read /\ Linked(s, 2, 24) /\ Linked(s, 24, 24)
    BY Elements_process, <1>2
  <2>2. QED
    BY <2>1 DEF Bracketed
<1>10. Bracketed(s, 12, 6)
  <2>1. 6 \in 1 .. 12 /\ 17 \in 12 .. Len(s) /\ s[6].read = s[6].read /\ s[17].read = s[6].read /\ Linked(s, 6, 6) /\ Linked(s, 6, 17)
    BY Elements_process, <1>2
  <2>2. QED
    BY <2>1 DEF Bracketed
<1>11. Bracketed(s, 12, 17)
  <2>1. 6 \in 1 .. 12 /\ 17 \in 12 .. Len(s) /\ s[6].read = s[17].read /\ s[17].read = s[17].read /\ Linked(s, 6, 17) /\ Linked(s, 17, 17)
    BY Elements_process, <1>2
  <2>2. QED
    BY <2>1 DEF Bracketed
<1>12. Bracketed(s, 12, 7)
  <2>1. 7 \in 1 .. 12 /\ 18 \in 12 .. Len(s) /\ s[7].read = s[7].read /\ s[18].read = s[7].read /\ Linked(s, 7, 7) /\ Linked(s, 7, 18)
    BY Elements_process, <1>2
  <2>2. QED
    BY <2>1 DEF Bracketed
<1>13. Bracketed(s, 12, 18)
  <2>1. 7 \in 1 .. 12 /\ 18 \in 12 .. Len(s) /\ s[7].read = s[18].read /\ s[18].read = s[18].read /\ Linked(s, 7, 18) /\ Linked(s, 18, 18)
    BY Elements_process, <1>2
  <2>2. QED
    BY <2>1 DEF Bracketed
<1>14. Bracketed(s, 12, 8)
  <2>1. 8 \in 1 .. 12 /\ 19 \in 12 .. Len(s) /\ s[8].read = s[8].read /\ s[19].read = s[8].read /\ Linked(s, 8, 8) /\ Linked(s, 8, 19)
    BY Elements_process, <1>2
  <2>2. QED
    BY <2>1 DEF Bracketed
<1>15. Bracketed(s, 12, 19)
  <2>1. 8 \in 1 .. 12 /\ 19 \in 12 .. Len(s) /\ s[8].read = s[19].read /\ s[19].read = s[19].read /\ Linked(s, 8, 19) /\ Linked(s, 19, 19)
    BY Elements_process, <1>2
  <2>2. QED
    BY <2>1 DEF Bracketed
<1>16. ASSUME NEW k \in 1 .. Len(s), s[k].read \in Free \cup {"cmdline", "environ", "exe"}
      PROVE  k \in {1, 12, 23, 2, 13, 24, 6, 7, 8, 17, 18, 19}
  BY <1>16, Elements_process DEF Free, Plain, Pinned, Varying
<1>17. QED
  BY <1>4, <1>5, <1>6, <1>7, <1>8, <1>9, <1>10, <1>11, <1>12, <1>13, <1>14, <1>15, <1>16


-----------------------------------------------------------------------------
(* The scripts by name. *)
LEMMA ScriptIs ==
  ASSUME NEW o \in Observers
  PROVE  /\ Sound(Scripts[o]) /\ Len(Scripts[o]) >= 4
         /\ o # "process" => OnlyFree(Scripts[o])
         /\ o = "process" => Scripts[o] = ObserveRunningProcess
         /\ Middle(o) \in 1 .. Len(Scripts[o])
         /\ \A k \in 1 .. Len(Scripts[o]) :
              Scripts[o][k].read \in Free \cup {"cmdline", "environ", "exe"} =>
                Bracketed(Scripts[o], Middle(o), k)
<1>1. CASE o = "bytes"
  <2>1. Scripts[o] = VerifyInstalledBytes /\ Middle(o) = 4
    BY <1>1 DEF Scripts, Middle
  <2>2. QED
    BY <1>1, <2>1, Sound_bytes, Bracketed_bytes, Elements_bytes
<1>2. CASE o = "bootstrap"
  <2>1. Scripts[o] = LoadBootstrap /\ Middle(o) = 2
    BY <1>2 DEF Scripts, Middle
  <2>2. QED
    BY <1>2, <2>1, Sound_bootstrap, Bracketed_bootstrap, Elements_bootstrap
<1>3. CASE o = "runtime"
  <2>1. Scripts[o] = ObservePackageRuntime /\ Middle(o) = 4
    BY <1>3 DEF Scripts, Middle
  <2>2. QED
    BY <1>3, <2>1, Sound_runtime, Bracketed_runtime, Elements_runtime
<1>4. CASE o = "launch"
  <2>1. Scripts[o] = ObserveLaunchFiles /\ Middle(o) = 7
    BY <1>4 DEF Scripts, Middle
  <2>2. QED
    BY <1>4, <2>1, Sound_launch, Bracketed_launch, Elements_launch
<1>5. CASE o = "service"
  <2>1. Scripts[o] = ObserveServiceConfiguration /\ Middle(o) = 2
    BY <1>5 DEF Scripts, Middle
  <2>2. QED
    BY <1>5, <2>1, Sound_service, Bracketed_service, Elements_service
<1>6. CASE o = "process"
  <2>1. Scripts[o] = ObserveRunningProcess /\ Middle(o) = 12
    BY <1>6 DEF Scripts, Middle
  <2>2. QED
    BY <1>6, <2>1, Sound_process, Bracketed_process, Elements_process
<1>7. CASE o = "broker"
  <2>1. Scripts[o] = CollectBrokerCode /\ Middle(o) = 3
    BY <1>7 DEF Scripts, Middle
  <2>2. QED
    BY <1>7, <2>1, Sound_broker, Bracketed_broker, Elements_broker
<1>8. QED
  BY <1>1, <1>2, <1>3, <1>4, <1>5, <1>6, <1>7 DEF Observers, Scripts

(* What a look sees, arm by arm.                                           *)
LEMMA SeeIs ==
  ASSUME NEW w, NEW p
  PROVE  /\ \A r \in Plain : See(w, r, p) = w.plain[r]
         /\ See(w, "service", p) = w.service
         /\ See(w, "dir", p) = w.procs[p].inst
         /\ See(w, "stat", p) = w.procs[p].start
         /\ See(w, "status", p) = w.procs[p].ours
         /\ See(w, "exe", p) = w.procs[p].exe
         /\ See(w, "cmdline", p) = w.procs[p].text
         /\ See(w, "environ", p) = w.procs[p].text
<1>1. {"service", "dir", "stat", "status", "exe", "cmdline", "environ"} \cap Plain = {}
  BY DEF Plain, Pinned, Varying
<1>2. \A r \in Plain : See(w, r, p) = w.plain[r]
  BY <1>1 DEF See
<1>3. See(w, "service", p) = w.service /\ See(w, "dir", p) = w.procs[p].inst
  BY <1>1 DEF See
<1>4. See(w, "stat", p) = w.procs[p].start
  BY <1>1 DEF See
<1>5. See(w, "status", p) = w.procs[p].ours
  BY <1>1, Zenon DEF See
<1>6. See(w, "exe", p) = w.procs[p].exe
  BY <1>1 DEF See
<1>7. See(w, "cmdline", p) = w.procs[p].text /\ See(w, "environ", p) = w.procs[p].text
  BY <1>1 DEF See
<1>8. QED
  BY <1>2, <1>3, <1>4, <1>5, <1>6, <1>7

(* Outside /proc a look does not depend on the pid.                        *)
LEMMA FreeSee ==
  ASSUME NEW w, NEW p, NEW q, NEW r \in Free
  PROVE  See(w, r, p) = See(w, r, q)
<1>1. CASE r \in Plain
  <2>1. See(w, r, p) = w.plain[r] /\ See(w, r, q) = w.plain[r]
    BY <1>1, SeeIs
  <2>2. QED
    BY <2>1
<1>2. CASE r = "service"
  <2>1. See(w, r, p) = w.service /\ See(w, r, q) = w.service
    BY <1>2, SeeIs
  <2>2. QED
    BY <2>1
<1>3. QED
  BY <1>1, <1>2 DEF Free

-----------------------------------------------------------------------------
(* The steps of the world. *)

LEMMA FollowsTransitive ==
  ASSUME NEW u \in World, NEW v \in World, NEW w \in World, Follows(u, v), Follows(v, w)
  PROVE  Follows(u, w)
<1>1. u.service.started \in Nat /\ v.service.started \in Nat /\ w.service.started \in Nat
  BY DEF World, Service
<1>2. u.service.started <= w.service.started
  BY <1>1 DEF Follows
<1>3. CASE u.service.started = w.service.started
  <2>1. u.service.started = v.service.started /\ v.service.started = w.service.started
    BY <1>1, <1>3 DEF Follows
  <2>2. QED
    BY <1>2, <2>1 DEF Follows
<1>4. QED
  BY <1>2, <1>3 DEF Follows

LEMMA FollowsItself ==
  ASSUME NEW w \in World
  PROVE  Follows(w, w)
  BY DEF Follows, World, Service

(* Nothing that happens on the host takes a world out of the live ones, and*)
(* the new one follows the old.                                            *)
LEMMA EnvironmentStep ==
  ASSUME Live(world), Environment
  PROVE  /\ Live(world') /\ Follows(world, world')
         /\ worlds' = Append(worlds, world')
         /\ observer # "none" /\ result = "none"
         /\ UNCHANGED <<observer, seen, at, held, result>>
<1> DEFINE pid == world.service.pid
           s == world.service.started
<1>1. /\ world \in World /\ pid \in Pid /\ s \in Nat /\ s # 0
      /\ world.procs \in [Pid -> Process] /\ world.procs[pid] \in Process
      /\ world.plain \in [Plain -> {"pin", "a", "b", "bad"}] /\ world.service = [pid |-> pid, started |-> s]
  BY DEF Live, World, Service
<1>2. world.procs[pid].inst = s
  BY DEF Live, Main
<1>3. ASSUME NEW r \in Plain, NEW v \in PlainValue(r), Rewrite(r, v)
      PROVE  Live(world') /\ Follows(world, world')
  <2>1. world' = [world EXCEPT !.plain[r] = v]
    BY <1>3 DEF Rewrite, Become
  <2>2. v \in {"pin", "a", "b", "bad"} /\ (r \in Pinned => v \in {"pin", "bad"})
    BY DEF PlainValue
  <2>3. world' \in World
    BY <1>1, <2>1, <2>2 DEF World
  <2>4. world'.service = world.service /\ world'.procs = world.procs
    BY <1>1, <2>1 DEF World
  <2>5. \A x \in Pinned : world'.plain[x] \in {"pin", "bad"}
    BY <1>1, <2>1, <2>2 DEF World, Live, Plain
  <2>6. QED
    BY <1>1, <1>2, <2>3, <2>4, <2>5 DEF Live, Follows, Main
<1>4. ASSUME NEW p \in Pid, NEW t \in {1, 2}, Restart(p, t)
      PROVE  Live(world') /\ Follows(world, world')
  <2> DEFINE new == [inst |-> s + 1, start |-> t, exe |-> "node", text |-> "a", ours |-> TRUE]
  <2>1. world' = [world EXCEPT !.service = [pid |-> p, started |-> s + 1],
                               !.procs[pid].inst = 0, !.procs[p] = new]
    BY <1>4 DEF Restart, Become
  <2>2. new \in Process
    BY <1>1 DEF Process
  <2>3. world'.plain = world.plain /\ world'.service = [pid |-> p, started |-> s + 1]
    BY <1>1, <2>1 DEF World
  <2>4. world'.procs[p] = new /\ world' \in World
    BY <1>1, <2>1, <2>2 DEF World, Service, Process
  <2>5. QED
    BY <1>1, <2>3, <2>4 DEF Live, Follows, Main
<1>5. ASSUME NEW e \in {"node", "other"}, NEW t \in {"a", "b"}, Transform(e, t)
      PROVE  Live(world') /\ Follows(world, world')
  <2>1. world' = [world EXCEPT !.procs[pid].exe = e, !.procs[pid].text = t]
    BY <1>5 DEF Transform, Become
  <2>2. world'.plain = world.plain /\ world'.service = world.service
    BY <1>1, <2>1 DEF World
  <2>3. world' \in World
    BY <1>1, <2>1 DEF World, Process
  <2>4. /\ world'.procs[pid].inst = world.procs[pid].inst
        /\ world'.procs[pid].start = world.procs[pid].start
    BY <1>1, <2>1 DEF World, Process
  <2>5. world'.procs[pid].ours = world.procs[pid].ours
    BY <1>1, <2>1 DEF World, Process
  <2>6. QED
    BY <1>1, <1>2, <2>2, <2>3, <2>4, <2>5 DEF Live, Follows, Main
<1>6. ASSUME NEW p \in Pid, Reuse(p)
      PROVE  Live(world') /\ Follows(world, world')
  <2>1. world' = [world EXCEPT !.procs[p].inst = s + 1, !.procs[p].ours = FALSE]
    BY <1>6 DEF Reuse, Become
  <2>2. p # pid
    BY <1>1, <1>2, <1>6 DEF Reuse
  <2>3. world'.plain = world.plain /\ world'.service = world.service
    BY <1>1, <2>1 DEF World
  <2>4. world' \in World
    <3> DEFINE other == [world.procs[p] EXCEPT !.inst = s + 1, !.ours = FALSE]
    <3>1. other \in Process
      <4>1. world.procs[p] \in Process /\ s + 1 \in Nat
        BY <1>1
      <4>2. FALSE \in BOOLEAN
        OBVIOUS
      <4>3. QED
        BY <4>1, <4>2, Zenon DEF Process
    <3>2. world'.procs = [world.procs EXCEPT ![p] = other]
      BY <1>1, <2>1 DEF World
    <3> HIDE DEF other
    <3>3. world'.procs \in [Pid -> Process]
      BY <1>1, <3>1, <3>2
    <3>4. QED
      BY <1>1, <2>1, <3>3 DEF World
  <2>5. world'.procs[pid] = world.procs[pid]
    BY <1>1, <2>1, <2>2 DEF World
  <2>6. QED
    BY <1>1, <1>2, <2>3, <2>4, <2>5 DEF Live, Follows, Main
<1>7. \E w : Become(w)
  BY DEF Environment, Rewrite, Restart, Transform, Reuse
<1>8. QED
  BY <1>3, <1>4, <1>5, <1>6, <1>7 DEF Environment, Become

-----------------------------------------------------------------------------
LEMMA SmallNumbers == ASSUME NEW n \in Nat
                     PROVE  /\ n = 0 \/ n = 1 \/ n >= 2
                            /\ n >= 1 => n = 1 \/ n > 1
  OBVIOUS

(* Facts of a state in which an observer runs. *)
LEMMA Running ==
  ASSUME IInv, observer # "none"
  PROVE  /\ observer \in Observers /\ Script = Scripts[observer]
         /\ Len(worlds) \in Nat /\ Len(worlds) >= 1 /\ world \in World
         /\ \A i \in 1 .. Len(worlds) : worlds[i] \in World
         /\ world = worlds[Len(worlds)]
         /\ Len(at) \in Nat /\ Len(seen) = Len(at) /\ DOMAIN seen = 1 .. Len(at)
         /\ Len(at) <= Len(Script) /\ Len(Script) \in Nat
         /\ \A k \in 1 .. Len(at) : at[k] \in Nat
<1>1. observer \in Observers /\ Script = Scripts[observer]
  BY DEF IInv, Typed, Script
<1>2. Len(Script) \in Nat
  BY <1>1, ScriptIs DEF Sound
<1>3. QED
  BY <1>1, <1>2 DEF IInv, Typed, Past, Live, Looked

(* The pid under which /proc is entered is one of the manager's.           *)
LEMMA AnchorIs ==
  ASSUME IInv, observer # "none"
  PROVE  /\ AnchorPid \in Pid
         /\ observer = "process" /\ Len(at) >= 2 =>
              seen[2] = worlds[at[2]].service /\ AnchorPid = seen[2].pid
         /\ Len(worlds) = 1 => AnchorPid = world.service.pid
<1>1. CASE observer = "process" /\ Len(at) >= 2
  <2>1. Script[2].read = "service"
    BY <1>1, Running, ScriptIs, Elements_process
  <2>2. AnchorPid = seen[2].pid
    BY <1>1, Running DEF AnchorPid
  <2>3. 2 \in 1 .. Len(at)
    BY <1>1, Running
  <2>4. at[2] \in 1 .. Len(worlds) /\ seen[2] = See(worlds[at[2]], "service", AnchorPid)
    BY <2>1, <2>3 DEF IInv, Looked
  <2>5. seen[2] = worlds[at[2]].service
    BY <2>4, SeeIs
  <2>6. worlds[at[2]] \in World
    BY <2>4, Running
  <2>7. seen[2].pid \in Pid
    BY <2>5, <2>6 DEF World, Service
  <2>8. Len(worlds) = 1 => worlds[at[2]] = world
    BY <2>4, Running
  <2>9. QED
    BY <1>1, <2>2, <2>5, <2>7, <2>8
<1>2. CASE ~(observer = "process" /\ Len(at) >= 2)
  <2>1. AnchorPid = world.service.pid
    BY <1>2, Running DEF AnchorPid
  <2>2. QED
    BY <1>2, <2>1, Running DEF World, Service
<1>3. QED
  BY <1>1, <1>2

-----------------------------------------------------------------------------
(* The invariant holds at the start and a call begins in it.               *)
LEMMA InitIInv == Init => IInv
<1> SUFFICES ASSUME Init
             PROVE  IInv
  OBVIOUS
<1>1. PICK p \in Pid :
        world = [plain |-> [r \in Plain |-> IF r \in Pinned THEN "pin" ELSE "a"],
                 service |-> [pid |-> p, started |-> 1],
                 procs |-> [q \in Pid |-> [inst |-> IF q = p THEN 1 ELSE 0, start |-> 1,
                                           exe |-> "node", text |-> "a", ours |-> TRUE]]]
  BY DEF Init
<1>2. world.plain \in [Plain -> {"pin", "a", "b", "bad"}] /\ world.service \in Service
  BY <1>1 DEF Service
<1>3. world.procs \in [Pid -> Process]
  BY <1>1 DEF Process
<1>4. world \in World
  BY <1>1, <1>2, <1>3 DEF World
<1>5. Main(world).inst = world.service.started /\ world.service.started # 0
  BY <1>1 DEF Main
<1>6. \A r \in Pinned : world.plain[r] \in {"pin", "bad"}
  BY <1>1 DEF Plain
<1>7. Live(world)
  BY <1>4, <1>5, <1>6 DEF Live
<1>8. Past /\ Typed
  BY <1>7 DEF Init, Past, Typed
<1>9. Looked /\ Compared /\ Entered /\ NoFalseAlarm
  BY DEF Init, Looked, Compared, Entered, NoFalseAlarm
<1>10. QED
  BY <1>8, <1>9 DEF IInv

LEMMA CallIInv ==
  ASSUME IInv, NEW o \in Observers, Call(o)
  PROVE  IInv'
<1>1. /\ observer = "none" /\ observer' = o /\ worlds' = <<world>>
      /\ UNCHANGED <<world, seen, at, held, result>>
  BY DEF Call
<1>2. seen = <<>> /\ at = <<>> /\ result = "none" /\ held \in Nat
  BY <1>1 DEF IInv, Typed
<1>3. Live(world) /\ world \in World /\ Follows(world, world)
  BY FollowsItself DEF IInv, Past, Live
<1>4. o # "none" /\ Script' = Scripts[o] /\ Len(Script') \in Nat /\ Len(Script') >= 4
  BY <1>1, ScriptIs DEF Script, Observers, Scripts, Sound
<1>5. Past'
  <2>1. Len(worlds') = 1 /\ worlds'[1] = world /\ worlds' \in Seq(World)
    BY <1>1, <1>3
  <2>2. QED
    BY <1>1, <1>3, <1>4, <2>1 DEF Past, Live, Main
<1>6. Typed'
  BY <1>1, <1>2, <1>4 DEF Typed
<1>7. Looked' /\ Compared' /\ Entered' /\ NoFalseAlarm'
  BY <1>1, <1>2 DEF Looked, Compared, Entered, NoFalseAlarm
<1>8. QED
  BY <1>5, <1>6, <1>7 DEF IInv

(* The world changes: what was seen is still what there was then.          *)
LEMMA EnvironmentIInv ==
  ASSUME IInv, Environment
  PROVE  IInv'
<1>1. /\ Live(world') /\ Follows(world, world')
      /\ worlds' = Append(worlds, world')
      /\ observer # "none" /\ result = "none"
      /\ UNCHANGED <<observer, seen, at, held, result>>
  BY EnvironmentStep DEF IInv, Past
<1> DEFINE n == Len(worlds)
<1>2. /\ n \in Nat /\ n >= 1 /\ Len(worlds') = n + 1 /\ worlds' \in Seq(World)
      /\ worlds'[n + 1] = world' /\ \A i \in 1 .. n : worlds'[i] = worlds[i]
  <2>1. worlds \in Seq(World) /\ world' \in World
    BY <1>1 DEF IInv, Past, Live
  <2>2. QED
    BY <1>1, <2>1, Running
<1>3. Script' = Script
  BY <1>1 DEF Script
<1>4. Past'
  <2>1. \A i \in 1 .. n + 1 : Live(worlds'[i])
    BY <1>1, <1>2 DEF IInv, Past
  <2>2. ASSUME NEW i \in 1 .. n + 1, NEW j \in 1 .. n + 1, i <= j
        PROVE  Follows(worlds'[i], worlds'[j])
    <3>1. CASE j <= n
      BY <1>2, <2>2, <3>1 DEF IInv, Past
    <3>2. CASE j = n + 1 /\ i <= n
      <4>1. Follows(worlds[i], world) /\ worlds[i] \in World /\ world \in World /\ world' \in World
        BY <1>1, <1>2, <3>2, Running DEF IInv, Past, Live
      <4>2. QED
        BY <1>1, <1>2, <3>2, <4>1, FollowsTransitive
    <3>3. CASE i = n + 1 /\ j = n + 1
      BY <1>1, <1>2, <3>3, FollowsItself DEF Live
    <3>4. QED
      BY <1>2, <2>2, <3>1, <3>2, <3>3
  <2>3. QED
    BY <1>1, <1>2, <2>1, <2>2 DEF Past
<1>5. Typed'
  BY <1>1, <1>3 DEF IInv, Typed
<1>6. Looked'
  <2>1. ASSUME NEW k \in 1 .. Len(at)
        PROVE  at[k] \in 1 .. n /\ seen[k] = See(worlds'[at[k]], Script[k].read, AnchorPid')
    <3>1. at[k] \in 1 .. n /\ seen[k] = See(worlds[at[k]], Script[k].read, AnchorPid)
      BY DEF IInv, Looked
    <3>2. CASE observer = "process" /\ Len(at) >= 2
      <4>1. AnchorPid' = AnchorPid
        BY <1>1, <3>2, Running DEF AnchorPid
      <4>2. QED
        BY <1>2, <3>1, <4>1
    <3>3. CASE ~(observer = "process" /\ Len(at) >= 2)
      <4>1. k \in 1 .. Len(Script) /\ (observer = "process" => k = 1)
        BY <1>1, <3>3, Running
      <4>2. Script[k].read \in Free
        <5>1. CASE observer = "process"
          <6>1. Script = ObserveRunningProcess /\ k = 1
            BY <1>1, <4>1, <5>1, Running, ScriptIs
          <6>2. "unit" \in Free
            BY DEF Free, Plain, Varying
          <6>3. QED
            BY <6>1, <6>2, Elements_process
        <5>2. CASE observer # "process"
          BY <1>1, <4>1, <5>2, Running, ScriptIs DEF OnlyFree
        <5>3. QED
          BY <5>1, <5>2
      <4>3. QED
        BY <1>2, <3>1, <4>2, FreeSee
    <3>4. QED
      BY <3>2, <3>3
  <2>2. QED
    BY <1>1, <1>2, <1>3, <2>1 DEF IInv, Looked
<1>7. Compared'
  BY <1>1, <1>3 DEF IInv, Compared
<1>8. Entered' /\ NoFalseAlarm'
  BY <1>1, <1>2 DEF Entered, NoFalseAlarm
<1>9. QED
  BY <1>4, <1>5, <1>6, <1>7, <1>8 DEF IInv

(* A process that cannot be entered is not the main process, or not the    *)
(* one it was: the world has changed.                                      *)
LEMMA GoneIInv ==
  ASSUME IInv, observer # "none", result = "none", Gone,
         End("PROCESS_IO"), UNCHANGED <<seen, at, held>>
  PROVE  IInv'
<1>1. result' = "PROCESS_IO" /\ UNCHANGED <<world, worlds, observer, seen, at, held>>
  BY DEF End
<1>2. Script' = Script /\ AnchorPid' = AnchorPid
  BY <1>1 DEF Script, AnchorPid
<1>3. Past'
  BY <1>1 DEF IInv, Past, Live, Main
<1>4. Typed' /\ Looked'
  BY <1>1, <1>2 DEF IInv, Typed, Looked
<1>5. Compared' /\ Entered'
  BY <1>1 DEF IInv, Compared, Entered, Main
<1>6. Len(worlds) # 1
  <2> SUFFICES ASSUME Len(worlds) = 1
               PROVE  FALSE
    OBVIOUS
  <2> DEFINE k == Len(seen) + 1
  <2>1. k \in 1 .. Len(Script) /\ k = Len(at) + 1 /\ Next_ = Script[k]
    BY Running DEF IInv, Typed, Next_
  <2>2. world.procs[AnchorPid].inst = Main(world).inst /\ Main(world).inst # 0
    BY AnchorIs DEF Main, IInv, Past, Live
  <2>3. Next_.read \in ProcFiles
    BY <2>2, Zenon DEF Gone
  <2>4. observer = "process"
    <3>1. Next_.read \notin Free
      BY <2>3 DEF ProcFiles, Free, Plain, Pinned, Varying
    <3>2. QED
      BY <2>1, <3>1, Running, ScriptIs DEF OnlyFree
  <2>5. k \notin {1, 2, 3}
    <3>1. Script = ObserveRunningProcess
      BY <2>4, Running, ScriptIs
    <3>2. "unit" \notin ProcFiles /\ "service" \notin ProcFiles /\ "dir" \notin ProcFiles
      BY DEF ProcFiles
    <3>3. QED
      BY <2>1, <2>3, <3>1, <3>2, Elements_process
  <2>6. Len(at) >= 3
    BY <2>1, <2>5, Running
  <2>7. held = Main(world).inst
    BY <2>4, <2>6 DEF IInv, Entered
  <2>8. "dir" \notin ProcFiles
    BY DEF ProcFiles
  <2>9. QED
    BY <2>2, <2>3, <2>7, <2>8, Zenon DEF Gone
<1>7. NoFalseAlarm'
  <2>1. Len(worlds') > 1
    <3>1. Len(worlds) \in Nat /\ Len(worlds) >= 1 /\ worlds' = worlds
      BY <1>1, Running
    <3>2. Len(worlds) > 1
      BY <1>6, <3>1, SmallNumbers
    <3>3. QED
      BY <3>1, <3>2
  <2>2. QED
    BY <2>1 DEF NoFalseAlarm
<1>8. QED
  BY <1>3, <1>4, <1>5, <1>7 DEF IInv

(* A look that is taken, whatever comes of it.                             *)
LEMMA TookIInv ==
  ASSUME IInv, observer # "none", result = "none", Took(See(world, Next_.read, AnchorPid))
  PROVE  IInv'
<1> DEFINE k == Len(at) + 1
           v == See(world, Next_.read, AnchorPid)
           r == Script[k].read
           good == Accepted(Next_.read, v)
           changed == \E p \in Next_.same : seen'[p[1]] # seen'[p[2]]
<1>1. /\ k \in 1 .. Len(Script) /\ Len(at) \in Nat /\ k = Len(seen) + 1 /\ Next_ = Script[k] /\ Next_.read = r
      /\ DOMAIN seen = 1 .. Len(at) /\ at \in Seq(Nat)
  BY Running DEF IInv, Typed, Next_
<1>2. /\ seen' = Append(seen, v) /\ at' = Append(at, Len(worlds))
      /\ held' = IF r = "dir" THEN v ELSE held
      /\ UNCHANGED <<world, worlds, observer>>
      /\ \/ ~good /\ result' = "rejected"
         \/ good /\ changed /\ result' = "CHANGED"
         \/ good /\ ~changed /\ result' = (IF Len(seen') = Len(Script) THEN "ok" ELSE "none")
  BY <1>1 DEF Took, End
<1>3. /\ Len(seen') = k /\ DOMAIN seen' = 1 .. k /\ seen'[k] = v
      /\ \A j \in 1 .. Len(at) : seen'[j] = seen[j]
  BY <1>1, <1>2
<1>4. /\ Len(at') = k /\ at' \in Seq(Nat) /\ at'[k] = Len(worlds)
      /\ \A j \in 1 .. Len(at) : at'[j] = at[j]
  BY <1>1, <1>2, Running
<1> HIDE DEF v
<1>5. Script' = Script /\ Sound(Script)
  BY <1>2, Running, ScriptIs DEF Script
<1>6. AnchorPid' = AnchorPid
  <2>1. CASE observer = "process" /\ Len(at) >= 2
    BY <1>1, <1>2, <1>3, <2>1, Running DEF AnchorPid
  <2>2. CASE observer = "process" /\ Len(at) = 1
    <3>1. Script = ObserveRunningProcess
      BY <2>2, Running, ScriptIs
    <3>2. r = "service"
      BY <1>1, <2>2, <3>1, Elements_process
    <3>3. v = world.service
      BY <1>1, <3>2, SeeIs DEF v
    <3>4. seen'[2] = world.service
      BY <1>3, <2>2, <3>3
    <3>5. QED
      BY <1>1, <1>2, <1>3, <2>2, <3>4, Running DEF AnchorPid
  <2>3. CASE observer # "process" \/ Len(at) = 0
    BY <1>1, <1>2, <1>3, <2>3, Running DEF AnchorPid
  <2>4. Len(at) = 0 \/ Len(at) = 1 \/ Len(at) >= 2
    BY <1>1, SmallNumbers
  <2>5. QED
    BY <2>1, <2>2, <2>3, <2>4
<1>7. Past'
  BY <1>2 DEF IInv, Past, Live, Main
<1>8. held' \in Nat
  <2>1. CASE r = "dir"
    <3>1. v = world.procs[AnchorPid].inst
      BY <1>1, <2>1, SeeIs DEF v
    <3>2. QED
      BY <1>2, <2>1, <3>1, AnchorIs, Running DEF World, Process
  <2>2. CASE r # "dir"
    BY <1>2, <2>2 DEF IInv, Typed
  <2>3. QED
    BY <2>1, <2>2
<1>9. Typed'
  <2>1. result' \in {"none", "ok", "rejected", "CHANGED", "PROCESS_IO"}
    BY <1>2
  <2>2. observer' # "none" /\ observer' \in Observers
    BY <1>2, Running
  <2>3. result' = "none" => Len(seen') < Len(Script')
    BY <1>1, <1>2, <1>3, <1>5, Running
  <2>4. result' = "ok" => Len(seen') = Len(Script')
    BY <1>2, <1>5
  <2>5. QED
    BY <1>1, <1>3, <1>4, <1>5, <1>8, <2>1, <2>2, <2>3, <2>4 DEF Typed
<1>10. Looked'
  <2>1. ASSUME NEW j \in 1 .. k
        PROVE  at'[j] \in 1 .. Len(worlds) /\ seen'[j] = See(worlds[at'[j]], Script[j].read, AnchorPid)
    <3>1. CASE j = k
      <4>1. worlds[Len(worlds)] = world /\ Len(worlds) \in 1 .. Len(worlds)
        BY Running
      <4>2. QED
        BY <1>1, <1>3, <1>4, <3>1, <4>1 DEF v
    <3>2. CASE j \in 1 .. Len(at)
      BY <1>3, <1>4, <3>2 DEF IInv, Looked
    <3>3. QED
      BY <1>1, <3>1, <3>2
  <2>2. ASSUME NEW i \in 1 .. k, NEW j \in 1 .. k, i <= j
        PROVE  at'[i] <= at'[j]
    <3>1. CASE j = k
      BY <1>4, <2>1, <3>1, Running
    <3>2. CASE j < k
      <4>1. i \in 1 .. Len(at) /\ j \in 1 .. Len(at)
        BY <1>1, <2>2, <3>2
      <4>2. QED
        BY <1>4, <2>2, <4>1 DEF IInv, Looked
    <3>3. QED
      BY <1>1, <3>1, <3>2
  <2>3. QED
    BY <1>2, <1>4, <1>5, <1>6, <2>1, <2>2 DEF Looked
<1>11. Compared'
  <2> SUFFICES ASSUME result' \in {"none", "ok"}, NEW j \in 1 .. k
               PROVE  /\ Accepted(Script[j].read, seen'[j])
                      /\ \A p \in Script[j].same : seen'[p[1]] = seen'[p[2]]
    BY <1>4, <1>5 DEF Compared
  <2>1. CASE j = k
    BY <1>1, <1>2, <1>3, <2>1
  <2>2. CASE j \in 1 .. Len(at)
    <3>1. Accepted(Script[j].read, seen[j])
      BY <2>2 DEF IInv, Compared
    <3>2. ASSUME NEW p \in Script[j].same
          PROVE  seen'[p[1]] = seen'[p[2]]
      <4>1. p[1] \in 1 .. j /\ p[2] \in 1 .. j
        BY <1>1, <1>5 DEF Sound
      <4>2. p[1] \in 1 .. Len(at) /\ p[2] \in 1 .. Len(at)
        BY <1>1, <2>2, <4>1
      <4>3. seen[p[1]] = seen[p[2]]
        BY <2>2 DEF IInv, Compared
      <4>4. QED
        BY <1>3, <4>2, <4>3
    <3>3. QED
      BY <1>3, <2>2, <3>1, <3>2
  <2>3. QED
    BY <1>1, <2>1, <2>2
<1>12. Entered'
  <2> SUFFICES ASSUME Len(worlds) = 1, observer = "process", k >= 3
               PROVE  held' = Main(world).inst
    BY <1>2, <1>4 DEF Entered, Main
  <2>1. CASE r = "dir"
    <3>1. v = world.procs[AnchorPid].inst
      BY <1>1, <2>1, SeeIs DEF v
    <3>2. QED
      BY <1>2, <2>1, <3>1, AnchorIs DEF Main
  <2>2. CASE r # "dir"
    <3>1. k # 3
      BY <1>1, <2>2, Running, ScriptIs, Elements_process
    <3>2. QED
      BY <1>1, <1>2, <2>2, <3>1 DEF IInv, Entered
  <2>3. QED
    BY <2>1, <2>2
<1>13. NoFalseAlarm'
  <2> SUFFICES ASSUME result' \in {"CHANGED", "PROCESS_IO"}, Len(worlds) = 1
               PROVE  FALSE
    <3>1. Len(worlds) \in Nat /\ Len(worlds) >= 1 /\ worlds' = worlds
      BY <1>2, Running
    <3>2. Len(worlds') = 1 \/ Len(worlds') > 1
      BY <3>1, SmallNumbers
    <3>3. QED
      BY <3>1, <3>2 DEF NoFalseAlarm
  <2>1. PICK p \in Script[k].same : seen'[p[1]] # seen'[p[2]]
    BY <1>1, <1>2
  <2>2. p[1] \in 1 .. k /\ p[2] \in 1 .. k /\ Script[p[1]].read = Script[p[2]].read
    BY <1>1, <1>5 DEF Sound
  <2>3. ASSUME NEW j \in 1 .. k
        PROVE  seen'[j] = See(worlds[1], Script[j].read, AnchorPid)
    <3>1. at'[j] \in 1 .. 1 /\ seen'[j] = See(worlds[at'[j]], Script[j].read, AnchorPid)
      BY <1>2, <1>4, <1>5, <1>6, <1>10 DEF Looked
    <3>2. at'[j] = 1
      BY <3>1
    <3>3. QED
      BY <3>1, <3>2
  <2>4. QED
    BY <2>1, <2>2, <2>3
<1>14. QED
  BY <1>7, <1>9, <1>10, <1>11, <1>12, <1>13 DEF IInv

(* Every step of the system keeps the invariant.                           *)
LEMMA NextIInv == IInv /\ [Next]_vars => IInv'
<1> SUFFICES ASSUME IInv, [Next]_vars
             PROVE  IInv'
  OBVIOUS
<1>1. ASSUME NEW o \in Observers, Call(o)
      PROVE  IInv'
  BY <1>1, CallIInv
<1>2. CASE Step
  BY <1>2, GoneIInv, TookIInv DEF Step
<1>3. CASE Environment
  BY <1>3, EnvironmentIInv
<1>4. CASE UNCHANGED vars
  <2>1. UNCHANGED <<world, worlds, observer, seen, at, held, result>>
    BY <1>4 DEF vars
  <2>2. Script' = Script /\ AnchorPid' = AnchorPid
    BY <2>1 DEF Script, AnchorPid
  <2>3. Past'
    BY <2>1 DEF IInv, Past, Live, Main
  <2>4. Typed' /\ Looked' /\ Compared'
    BY <2>1, <2>2 DEF IInv, Typed, Looked, Compared
  <2>5. Entered' /\ NoFalseAlarm'
    BY <2>1 DEF IInv, Entered, NoFalseAlarm, Main
  <2>6. QED
    BY <2>3, <2>4, <2>5 DEF IInv
<1>5. CASE Done
  BY <1>4, <1>5 DEF Done
<1>6. QED
  BY <1>1, <1>2, <1>3, <1>4, <1>5 DEF Next

(* The invariant holds throughout. *)
LEMMA Invariant == Spec => []IInv
<1>1. QED
  BY InitIInv, NextIInv, PTL DEF Spec

(* The variables keep their types, in particular an observer takes no look *)
(* beyond its script, and succeeds only when it has taken them all.        *)
THEOREM TypeCorrect == Spec => []TypeOK
<1>1. IInv => TypeOK
  <2> SUFFICES ASSUME IInv
               PROVE  TypeOK
    OBVIOUS
  <2>1. world \in World
    BY DEF IInv, Past, Live
  <2>2. observer # "none" => Len(seen) <= Len(Script) /\ world = worlds[Len(worlds)]
    BY DEF IInv, Past, Typed
  <2>3. DOMAIN seen = DOMAIN at
    BY DEF IInv, Typed
  <2>4. QED
    BY <2>1, <2>2, <2>3 DEF IInv, Typed, TypeOK
<1>2. QED
  BY <1>1, Invariant, PTL

(* An observer that says something changed, or that the process went, is   *)
(* right: the world has changed since the call began.                      *)
THEOREM AlarmIsTrue == Spec => []NoFalseAlarm
<1>1. IInv => NoFalseAlarm
  BY DEF IInv
<1>2. QED
  BY <1>1, Invariant, PTL

-----------------------------------------------------------------------------
(* An observation of a process has one service throughout. *)

(* The looks are in the order of the worlds they saw.                      *)
LEMMA Steadily ==
  ASSUME IInv, observer # "none", NEW j \in 1 .. Len(at), NEW k \in 1 .. Len(at), j <= k
  PROVE  /\ at[j] \in 1 .. Len(worlds) /\ at[k] \in 1 .. Len(worlds) /\ at[j] <= at[k]
         /\ at[j] .. at[k] \subseteq 1 .. Len(worlds)
<1>1. at[j] \in 1 .. Len(worlds) /\ at[k] \in 1 .. Len(worlds) /\ at[j] <= at[k]
  BY DEF IInv, Looked
<1>2. Len(worlds) \in Nat
  BY Running
<1>3. QED
  BY <1>1, <1>2

(* If the manager counts as many starts at two instants, the service and   *)
(* its main process were the same in between.                              *)
LEMMA SameService ==
  ASSUME IInv, observer # "none", NEW l \in 1 .. Len(worlds), NEW h \in 1 .. Len(worlds), NEW i \in l .. h,
         worlds[l].service = worlds[h].service
  PROVE  /\ i \in 1 .. Len(worlds) /\ worlds[i].service = worlds[l].service
         /\ Main(worlds[i]).inst = Main(worlds[l]).inst
         /\ Main(worlds[i]).start = Main(worlds[l]).start
         /\ Main(worlds[i]).ours = Main(worlds[l]).ours
<1>1. Len(worlds) \in Nat
  BY Running
<1>2. i \in 1 .. Len(worlds) /\ l <= i /\ i <= h
  BY <1>1
<1>3. Follows(worlds[l], worlds[i]) /\ Follows(worlds[i], worlds[h])
  BY <1>2 DEF IInv, Past
<1>4. /\ worlds[l].service.started \in Nat /\ worlds[i].service.started \in Nat
      /\ worlds[h].service.started \in Nat
  BY <1>2, Running DEF World, Service
<1>5. worlds[i].service.started = worlds[l].service.started
  <2> DEFINE a == worlds[l].service.started
             b == worlds[i].service.started
             c == worlds[h].service.started
  <2>1. a \in Nat /\ b \in Nat /\ a = c /\ a <= b /\ b <= c
    BY <1>3, <1>4 DEF Follows
  <2> HIDE DEF a, b, c
  <2>2. b = a
    BY <2>1
  <2>3. QED
    BY <2>2 DEF a, b
<1>6. /\ worlds[i].service = worlds[l].service
      /\ Main(worlds[i]).start = Main(worlds[l]).start
      /\ Main(worlds[i]).ours = Main(worlds[l]).ours
  BY <1>3, <1>5, Zenon DEF Follows
<1>7. Main(worlds[i]).inst = worlds[i].service.started /\ Main(worlds[l]).inst = worlds[l].service.started
  BY <1>2 DEF IInv, Past, Live
<1>8. QED
  BY <1>2, <1>5, <1>6, <1>7

(* The manager's answers of a process observation that succeeds.           *)
LEMMA Answers ==
  ASSUME IInv, result = "ok", observer = "process"
  PROVE  /\ Len(at) = 24 /\ Script = ObserveRunningProcess
         /\ seen[2] = worlds[at[2]].service /\ seen[2] = worlds[at[24]].service
         /\ at[2] \in 1 .. Len(worlds) /\ at[24] \in 1 .. Len(worlds) /\ at[2] <= at[24]
         /\ AnchorPid = seen[2].pid
<1>1. observer # "none" /\ Script = ObserveRunningProcess
  BY Running, ScriptIs
<1>2. Len(at) = 24
  BY <1>1, Running, Elements_process DEF IInv, Typed
<1>3. Script[2].read = "service" /\ Script[24].read = "service" /\ <<2, 24>> \in Script[24].same
  BY <1>1, Elements_process
<1>4. seen[2] = seen[24]
  <2> DEFINE p == <<2, 24>>
  <2>1. seen[p[1]] = seen[p[2]]
    BY <1>2, <1>3 DEF IInv, Compared
  <2>2. QED
    BY <2>1
<1>5. 2 \in 1 .. Len(at) /\ 24 \in 1 .. Len(at)
  BY <1>2
<1>6. /\ seen[2] = See(worlds[at[2]], "service", AnchorPid)
      /\ seen[24] = See(worlds[at[24]], "service", AnchorPid)
  BY <1>3, <1>5 DEF IInv, Looked
<1>7. seen[2] = worlds[at[2]].service /\ seen[24] = worlds[at[24]].service
  BY <1>6, SeeIs
<1>8. at[2] \in 1 .. Len(worlds) /\ at[24] \in 1 .. Len(worlds) /\ at[2] <= at[24]
  BY <1>1, <1>5, Steadily
<1>9. AnchorPid = seen[2].pid
  <2>1. Len(at) >= 2
    BY <1>2
  <2>2. QED
    BY <1>1, <2>1, AnchorIs
<1>10. QED
  BY <1>1, <1>2, <1>4, <1>7, <1>8, <1>9

(* A process observation is of one run of the service, from the manager's  *)
(* first answer to its last.                                               *)
THEOREM OneRun == Spec => []OneInstance
<1>1. IInv => OneInstance
  <2> SUFFICES ASSUME IInv, result = "ok", observer = "process", NEW i \in at[2] .. at[Len(at)]
               PROVE  worlds[i].service = seen[2]
    BY DEF OneInstance
  <2>1. Len(at) = 24
    BY Answers
  <2>2. QED
    BY <2>1, Answers, SameService
<1>2. QED
  BY <1>1, Invariant, PTL

-----------------------------------------------------------------------------
(* What an observer reports was there together at its middle look. *)

(* What is the same at two instants was so between them, too, unless       *)
(* something went back.                                                    *)
LEMMA Stayed ==
  ASSUME ~Reversed, DOMAIN worlds \subseteq Nat,
         NEW l \in DOMAIN worlds, NEW m \in DOMAIN worlds, NEW h \in DOMAIN worlds, l <= m, m <= h
  PROVE  /\ \A r \in Plain : worlds[l].plain[r] = worlds[h].plain[r] => worlds[m].plain[r] = worlds[l].plain[r]
         /\ \A p \in Pid : /\ worlds[l].procs[p].exe = worlds[h].procs[p].exe =>
                                worlds[m].procs[p].exe = worlds[l].procs[p].exe
                           /\ worlds[l].procs[p].text = worlds[h].procs[p].text =>
                                worlds[m].procs[p].text = worlds[l].procs[p].text
<1>1. l \in Nat /\ m \in Nat /\ h \in Nat
  OBVIOUS
<1>2. CASE l = m \/ m = h
  BY <1>2
<1>3. CASE l < m /\ m < h
  <2>1. ASSUME NEW r \in Plain, worlds[l].plain[r] = worlds[h].plain[r]
        PROVE  worlds[m].plain[r] = worlds[l].plain[r]
    BY <1>3, <2>1 DEF Reversed, WentBack
  <2>2. ASSUME NEW p \in Pid, worlds[l].procs[p].exe = worlds[h].procs[p].exe
        PROVE  worlds[m].procs[p].exe = worlds[l].procs[p].exe
    BY <1>3, <2>2 DEF Reversed, WentBack
  <2>3. ASSUME NEW p \in Pid, worlds[l].procs[p].text = worlds[h].procs[p].text
        PROVE  worlds[m].procs[p].text = worlds[l].procs[p].text
    BY <1>3, <2>3 DEF Reversed, WentBack
  <2>4. QED
    BY <2>1, <2>2, <2>3
<1>4. l = m \/ m = h \/ (l < m /\ m < h)
  BY <1>1
<1>5. QED
  BY <1>2, <1>3, <1>4

(* Two looks a script links were equal, when the observer succeeded.       *)
LEMMA LinkedSeen ==
  ASSUME IInv, result = "ok", observer # "none",
         NEW i \in 1 .. Len(at), NEW j \in 1 .. Len(at), Linked(Script, i, j)
  PROVE  seen[i] = seen[j]
<1>1. Len(at) = Len(Script)
  BY Running DEF IInv, Typed
<1>2. CASE i = j
  BY <1>2
<1>3. CASE Script[i].read = Script[j].read /\ Script[i].read \in Pinned
  <2>1. ASSUME NEW k \in {i, j}
        PROVE  seen[k] = "pin"
    <3>1. Script[k].read \in Pinned /\ Script[k].read \in Plain /\ k \in 1 .. Len(at)
      BY <1>3 DEF Plain
    <3>2. seen[k] = worlds[at[k]].plain[Script[k].read] /\ at[k] \in 1 .. Len(worlds)
      BY <3>1, SeeIs DEF IInv, Looked
    <3>3. seen[k] \in {"pin", "bad"}
      BY <3>1, <3>2 DEF IInv, Past, Live
    <3>4. Accepted(Script[k].read, seen[k])
      BY <3>1 DEF IInv, Compared
    <3>5. seen[k] # "bad"
      BY <3>1, <3>4 DEF Accepted, Plain, Pinned, Varying
    <3>6. QED
      BY <3>3, <3>5
  <2>2. QED
    BY <2>1
<1>4. ASSUME NEW c \in 1 .. Len(Script), NEW x \in 1 .. Len(at), NEW y \in 1 .. Len(at), <<x, y>> \in Script[c].same
      PROVE  seen[x] = seen[y]
  <2> DEFINE p == <<x, y>>
  <2>1. seen[p[1]] = seen[p[2]]
    BY <1>1, <1>4 DEF IInv, Compared
  <2>2. QED
    BY <2>1
<1>5. QED
  BY <1>2, <1>3, <1>4 DEF Linked

(* A look with an equal one on either side of the middle.                  *)
LEMMA BracketedSeen ==
  ASSUME IInv, result = "ok", observer # "none", ~Reversed,
         NEW m \in 1 .. Len(at), NEW k \in 1 .. Len(at),
         Bracketed(Script, m, k), Script[k].read \in Free \cup {"cmdline", "environ", "exe"}
  PROVE  seen[k] = See(worlds[at[m]], Script[k].read, AnchorPid)
<1> DEFINE r == Script[k].read
           p == AnchorPid
<1>1. Len(at) = Len(Script) /\ Len(at) \in Nat
  BY Running DEF IInv, Typed
<1>2. PICK lo \in 1 .. m, hi \in m .. Len(Script) :
        /\ Script[lo].read = r /\ Script[hi].read = r
        /\ Linked(Script, lo, k) /\ Linked(Script, k, hi)
  BY DEF Bracketed
<1>3. lo \in 1 .. Len(at) /\ hi \in 1 .. Len(at) /\ lo <= m /\ m <= hi
  BY <1>1, <1>2
<1>4. seen[lo] = seen[k] /\ seen[hi] = seen[k]
  BY <1>2, <1>3, LinkedSeen
<1> DEFINE u == worlds[at[lo]]
           v == worlds[at[m]]
           w == worlds[at[hi]]
<1>5. seen[k] = See(u, r, p) /\ seen[k] = See(w, r, p)
  BY <1>2, <1>3, <1>4 DEF IInv, Looked
<1>6. /\ at[lo] \in 1 .. Len(worlds) /\ at[m] \in 1 .. Len(worlds) /\ at[hi] \in 1 .. Len(worlds)
      /\ at[lo] <= at[m] /\ at[m] <= at[hi]
  BY <1>3, Steadily
<1>7. p \in Pid
  BY AnchorIs
<1>8. DOMAIN worlds = 1 .. Len(worlds) /\ DOMAIN worlds \subseteq Nat
  BY DEF IInv, Past
<1>9. /\ \A x \in Plain : u.plain[x] = w.plain[x] => v.plain[x] = u.plain[x]
      /\ u.procs[p].exe = w.procs[p].exe => v.procs[p].exe = u.procs[p].exe
      /\ u.procs[p].text = w.procs[p].text => v.procs[p].text = u.procs[p].text
      /\ u.service = w.service => v.service = u.service
  <2> DEFINE a == at[lo]
             b == at[m]
             c == at[hi]
  <2>1. a \in DOMAIN worlds /\ b \in DOMAIN worlds /\ c \in DOMAIN worlds /\ a <= b /\ b <= c
    BY <1>6, <1>8
  <2> HIDE DEF a, b, c, p
  <2>2. worlds[a].service = worlds[c].service => worlds[b].service = worlds[a].service
    <3>1. a \in 1 .. Len(worlds) /\ c \in 1 .. Len(worlds) /\ b \in a .. c
      BY <1>8, <2>1
    <3>2. QED
      BY <3>1, SameService
  <2>3. /\ \A x \in Plain : worlds[a].plain[x] = worlds[c].plain[x] => worlds[b].plain[x] = worlds[a].plain[x]
        /\ worlds[a].procs[p].exe = worlds[c].procs[p].exe => worlds[b].procs[p].exe = worlds[a].procs[p].exe
        /\ worlds[a].procs[p].text = worlds[c].procs[p].text => worlds[b].procs[p].text = worlds[a].procs[p].text
    BY <1>7, <1>8, <2>1, Stayed
  <2>4. QED
    BY <2>2, <2>3 DEF a, b, c
<1>10. r \in Free \cup {"cmdline", "environ", "exe"}
  OBVIOUS
<1> HIDE DEF u, v, w, r, p
<1>11. CASE r \in Plain
  <2>1. See(u, r, p) = u.plain[r] /\ See(v, r, p) = v.plain[r] /\ See(w, r, p) = w.plain[r]
    BY <1>11, SeeIs
  <2>2. QED
    BY <1>5, <1>9, <1>11, <2>1 DEF r, v, p
<1>12. CASE r = "service"
  <2>1. See(u, r, p) = u.service /\ See(v, r, p) = v.service /\ See(w, r, p) = w.service
    BY <1>12, SeeIs
  <2>2. QED
    BY <1>5, <1>9, <2>1 DEF r, v, p
<1>13. CASE r = "exe"
  <2>1. See(u, r, p) = u.procs[p].exe /\ See(v, r, p) = v.procs[p].exe /\ See(w, r, p) = w.procs[p].exe
    BY <1>13, SeeIs
  <2>2. QED
    BY <1>5, <1>9, <2>1 DEF r, v, p
<1>14. CASE r \in {"cmdline", "environ"}
  <2>1. See(u, r, p) = u.procs[p].text /\ See(v, r, p) = v.procs[p].text /\ See(w, r, p) = w.procs[p].text
    BY <1>14, SeeIs
  <2>2. QED
    BY <1>5, <1>9, <2>1 DEF r, v, p
<1>15. QED
  BY <1>10, <1>11, <1>12, <1>13, <1>14 DEF Free

(* Who the process is, when it started and whose it is: the same as long as*)
(* the service was not restarted.                                          *)
LEMMA InstanceSeen ==
  ASSUME IInv, result = "ok", observer = "process",
         NEW k \in 3 .. Len(at), NEW m \in 3 .. Len(at), Script[k].read \in {"dir", "stat", "status"}
  PROVE  seen[k] = See(worlds[at[m]], Script[k].read, AnchorPid)
<1>1. /\ Len(at) = 24 /\ at[2] \in 1 .. Len(worlds) /\ at[24] \in 1 .. Len(worlds)
      /\ worlds[at[2]].service = worlds[at[24]].service /\ AnchorPid = worlds[at[2]].service.pid
  BY Answers
<1>2. ASSUME NEW j \in {k, m}
      PROVE  /\ worlds[at[j]].service = worlds[at[2]].service
             /\ Main(worlds[at[j]]).inst = Main(worlds[at[2]]).inst
             /\ Main(worlds[at[j]]).start = Main(worlds[at[2]]).start
             /\ Main(worlds[at[j]]).ours = Main(worlds[at[2]]).ours
  <2>1. j \in 1 .. 24 /\ 2 <= j /\ j <= 24 /\ 2 \in 1 .. 24 /\ 24 \in 1 .. 24
    BY <1>1
  <2>2. at[2] <= at[j] /\ at[j] <= at[24] /\ at[j] \in 1 .. Len(worlds)
    BY <1>1, <2>1, Steadily
  <2>3. at[j] \in at[2] .. at[24]
    BY <1>1, <2>2
  <2>4. QED
    BY <1>1, <2>3, SameService
<1> DEFINE a == worlds[at[k]]
           b == worlds[at[m]]
           p == AnchorPid
<1>3. a.procs[p] = Main(a) /\ b.procs[p] = Main(b)
  BY <1>1, <1>2 DEF Main
<1>4. /\ a.procs[p].inst = b.procs[p].inst /\ a.procs[p].start = b.procs[p].start
  BY <1>2, <1>3
<1>5. a.procs[p].ours = b.procs[p].ours
  BY <1>2, <1>3, Zenon
<1>6. seen[k] = See(a, Script[k].read, p)
  <2>1. k \in 1 .. Len(at)
    BY <1>1
  <2>2. QED
    BY <2>1 DEF IInv, Looked
<1>7. CASE Script[k].read = "dir"
  BY <1>4, <1>6, <1>7, SeeIs
<1>8. CASE Script[k].read = "stat"
  BY <1>4, <1>6, <1>8, SeeIs
<1>9. CASE Script[k].read = "status"
  <2>1. See(a, "status", p) = a.procs[p].ours /\ See(b, "status", p) = b.procs[p].ours
    BY SeeIs, Zenon
  <2>2. QED
    BY <1>5, <1>6, <1>9, <2>1, Zenon
<1>10. QED
  BY <1>7, <1>8, <1>9

(* Unless something was changed and changed back, everything a successful  *)
(* observer has seen was there together.                                   *)
THEOREM Snapshot == Spec => []SnapshotUnlessReversed
<1>1. IInv => SnapshotUnlessReversed
  <2> SUFFICES ASSUME IInv, result = "ok", ~Reversed
               PROVE  \E i \in DOMAIN worlds : \A k \in DOMAIN seen :
                        seen[k] = See(worlds[i], Script[k].read, AnchorPid)
    BY DEF SnapshotUnlessReversed
  <2>1. observer # "none"
    BY DEF IInv, Typed
  <2>2. observer \in Observers /\ Script = Scripts[observer] /\ Len(at) = Len(Script) /\ DOMAIN seen = 1 .. Len(at)
    BY <2>1, Running DEF IInv, Typed
  <2> DEFINE m == Middle(observer)
  <2>3. m \in 1 .. Len(at)
    BY <2>2, ScriptIs
  <2>4. at[m] \in DOMAIN worlds
    BY <2>3 DEF IInv, Looked, Past
  <2>5. ASSUME NEW k \in 1 .. Len(at)
        PROVE  seen[k] = See(worlds[at[m]], Script[k].read, AnchorPid)
    <3>1. CASE Script[k].read \in Free \cup {"cmdline", "environ", "exe"}
      <4>1. Bracketed(Script, m, k)
        BY <2>2, <3>1, ScriptIs
      <4>2. QED
        BY <2>1, <2>3, <3>1, <4>1, BracketedSeen
    <3>2. CASE Script[k].read \notin Free \cup {"cmdline", "environ", "exe"}
      <4>1. observer = "process"
        BY <2>2, <3>2, ScriptIs DEF OnlyFree
      <4>2. Script[k].read \in {"dir", "stat", "status"}
        BY <2>2, <3>2, ScriptIs DEF Sound, ProcFiles
      <4>3. m = 12 /\ Len(at) = 24
        BY <4>1, Answers DEF Middle
      <4>4. k \notin {1, 2}
        <5>1. "unit" \in Free /\ "service" \in Free
          BY DEF Free, Plain, Varying
        <5>2. Script = ObserveRunningProcess
          BY <4>1, Answers
        <5>3. Script[1].read = "unit" /\ Script[2].read = "service"
          BY <5>2, Elements_process
        <5>4. QED
          BY <3>2, <5>1, <5>3
      <4>5. k \in 3 .. Len(at) /\ m \in 3 .. Len(at)
        BY <4>3, <4>4
      <4>6. QED
        BY <4>1, <4>2, <4>5, InstanceSeen
    <3>3. QED
      BY <3>1, <3>2
  <2>6. QED
    BY <2>2, <2>4, <2>5
<1>2. QED
  BY <1>1, Invariant, PTL
=============================================================================
