--------------------------- MODULE RecoveryProofs ---------------------------
(***************************************************************************)
(* Theorems about the rollback loop, for any number of writes by others    *)
(* and any number of faults. Everything follows from what an observation,  *)
(* made fact by fact and growing old, still says of the host.              *)
(***************************************************************************)
EXTENDS Recovery, TLAPS

FactName == {"inhibited", "stopped", "client", "backup", "verified", "restored"}

(* The order of the facts, as a number. *)
Place(f) ==
  CASE f = "inhibited" -> 1 [] f = "stopped" -> 2 [] f = "client" -> 3
    [] f = "backup" -> 4 [] f = "verified" -> 5 [] f = "restored" -> 6

ObsOK ==
  /\ DOMAIN obs = FactName
  /\ \A f \in FactName : pc <= Place(f) => obs[f] = {}

(* A decision is that of the observation it was made on, until the next    *)
(* one is begun.                                                           *)
Decided ==
  /\ pc <= Deciding => step = "none"
  /\ pc > Deciding => step = RecoveryStep

(* What was seen of startup and of the dashboard stays true: nobody else   *)
(* lifts the inhibition, and the dashboard was seen stopped after it.      *)
Quieted ==
  /\ Is("inhibited", TRUE) => inhibited
  /\ Is("inhibited", TRUE) /\ Is("stopped", TRUE) => stopped

(* What was seen of the files is true unless others wrote them; and a      *)
(* client seen as candidate is original again by nobody's hand.            *)
Fresh ==
  /\ writes = sawAt =>
       \A f \in {"client", "backup", "verified", "restored"} : obs[f] \subseteq {Fact(f)}
  /\ Is("client", "candidate") => client # "original"

IInv == TypeOK /\ ObsOK /\ Decided /\ Quieted /\ Fresh

-----------------------------------------------------------------------------
LEMMA FactsInOrder ==
  /\ DOMAIN Facts = 1 .. 6 /\ Len(Facts) = 6
  /\ {Facts[i] : i \in DOMAIN Facts} = FactName
  /\ \A i \in 1 .. 6 : Facts[i] \in FactName /\ Place(Facts[i]) = i
  /\ \A f \in FactName : Place(f) \in 1 .. 6 /\ f = Facts[Place(f)]
<1>1. /\ DOMAIN Facts = 1 .. 6 /\ Len(Facts) = 6
      /\ Facts[1] = "inhibited" /\ Facts[2] = "stopped" /\ Facts[3] = "client"
      /\ Facts[4] = "backup" /\ Facts[5] = "verified" /\ Facts[6] = "restored"
  BY DEF Facts
<1>2. \A i \in 1 .. 6 : i = 1 \/ i = 2 \/ i = 3 \/ i = 4 \/ i = 5 \/ i = 6
  OBVIOUS
<1>3. \A i \in 1 .. 6 : Facts[i] \in FactName /\ Place(Facts[i]) = i
  BY <1>1, <1>2 DEF FactName, Place
<1>4. \A f \in FactName : Place(f) \in 1 .. 6 /\ f = Facts[Place(f)]
  BY <1>1 DEF FactName, Place
<1>5. QED
  BY <1>1, <1>3, <1>4

(* What each decision was made on. *)
LEMMA DecisionMeans ==
  /\ RecoveryStep \in Steps \ {"none"}
  /\ RecoveryStep \in {"RESTORE_ORIGINAL", "RESTORE_METADATA", "ROLLED_BACK"} =>
       Is("inhibited", TRUE) /\ Is("stopped", TRUE) /\ Is("backup", "original")
  /\ RecoveryStep = "RESTORE_ORIGINAL" => Is("client", "candidate")
  /\ RecoveryStep \in {"RESTORE_METADATA", "ROLLED_BACK"} => Is("client", "original")
  /\ RecoveryStep = "ROLLED_BACK" => Is("restored", TRUE)
BY DEF RecoveryStep, Steps, Ends

LEMMA InitIInv == Init => IInv
<1> SUFFICES ASSUME Init
             PROVE  IInv
  OBVIOUS
<1>1. DOMAIN obs = FactName /\ \A f \in FactName : obs[f] = {}
  BY FactsInOrder DEF Init, Nothing
<1>2. TypeOK
  <2>1. \A i \in DOMAIN Facts : obs[Facts[i]] = {}
    BY <1>1, FactsInOrder
  <2>2. pc = 1 /\ Over = 9
    BY FactsInOrder DEF Init, Over
  <2>3. restored \in BOOLEAN
    BY Zenon DEF Init
  <2>4. step \in Steps /\ writes \in 0 .. MaxWrites /\ faults \in 0 .. MaxFaults /\ sawAt \in 0 .. writes
    BY RecoveryAssumption DEF Init, Steps
  <2>5. pc \in 1 .. Over /\ pc # Over
    BY <2>2
  <2>6. QED
    BY <2>1, <2>3, <2>4, <2>5, Zenon DEF Init, TypeOK
<1>3. ObsOK
  BY <1>1 DEF ObsOK
<1>4. Decided
  BY FactsInOrder DEF Init, Decided, Deciding
<1>5. Quieted /\ Fresh
  BY <1>1 DEF Quieted, Fresh, Is, FactName
<1>6. QED
  BY <1>2, <1>3, <1>4, <1>5 DEF IInv

LEMMA ObserveIInv ==
  ASSUME IInv, Observe
  PROVE  IInv'
<1> DEFINE f == Facts[pc]
<1>1. pc \in 1 .. 6 /\ f \in FactName /\ Place(f) = pc /\ pc' = pc + 1
  BY FactsInOrder DEF Observe
<1>2. /\ UNCHANGED <<host, step, writes>>
      /\ sawAt' = IF f = "client" THEN writes ELSE sawAt
      /\ \/ obs' = [obs EXCEPT ![f] = {Fact(f)}] /\ faults' = faults
         \/ faults < MaxFaults /\ faults' = faults + 1 /\ obs' = obs
  BY DEF Observe, Fault
<1>3. DOMAIN obs' = FactName /\ obs'[f] \subseteq {Fact(f)}
      /\ \A g \in FactName \ {f} : obs'[g] = obs[g]
  BY <1>1, <1>2 DEF IInv, ObsOK
<1> HIDE DEF f
<1>4. ObsOK'
  <2>1. \A g \in FactName : Place(g) \in 1 .. 6
    BY FactsInOrder
  <2>2. \A g \in FactName : pc' <= Place(g) => g # f
    BY <1>1, <2>1
  <2>3. \A g \in FactName : pc' <= Place(g) => obs'[g] = {}
    BY <1>1, <1>3, <2>1, <2>2 DEF IInv, ObsOK
  <2>4. QED
    BY <1>3, <2>3 DEF ObsOK
<1>5. TypeOK'
  <2>1. \A i \in DOMAIN Facts : pc' \in 1 .. i => obs'[Facts[i]] = {}
    BY <1>1, <1>4, FactsInOrder DEF ObsOK
  <2>2. pc' \in 1 .. Over /\ pc' # Over
    BY <1>1, FactsInOrder DEF Over
  <2>3. sawAt' \in 0 .. writes' /\ faults' \in 0 .. MaxFaults
    BY <1>2, RecoveryAssumption DEF IInv, TypeOK
  <2>4. QED
    BY <1>2, <2>1, <2>2, <2>3 DEF IInv, TypeOK, host
<1>6. Decided'
  BY <1>1, <1>2, FactsInOrder DEF IInv, Decided, Deciding
<1>7. Quieted'
  <2>1. CASE f = "inhibited"
    <3>1. obs'["stopped"] = {}
      BY <1>1, <1>3, <2>1 DEF IInv, ObsOK, FactName, Place
    <3>2. obs'["inhibited"] \subseteq {inhibited}
      BY <1>3, <2>1 DEF Fact
    <3>3. QED
      BY <1>2, <3>1, <3>2 DEF Quieted, Is, host
  <2>2. CASE f = "stopped"
    <3>1. obs'["inhibited"] = obs["inhibited"] /\ obs'["stopped"] \subseteq {stopped}
      BY <1>3, <2>2 DEF Fact, FactName
    <3>2. QED
      BY <1>2, <3>1 DEF IInv, Quieted, Is, host
  <2>3. CASE f \notin {"inhibited", "stopped"}
    BY <1>2, <1>3, <2>3 DEF IInv, Quieted, Is, host, FactName
  <2>4. QED
    BY <2>1, <2>2, <2>3
<1>8. Fresh'
  <2> DEFINE Files == {"client", "backup", "verified", "restored"}
  <2>1. \A g \in FactName : Fact(g)' = Fact(g)
    BY <1>2 DEF Fact, host
  <2>2. CASE f \in {"inhibited", "stopped", "client"}
    <3>1. \A g \in Files : g = f \/ obs'[g] = {}
      BY <1>1, <1>3, <2>2 DEF IInv, ObsOK, FactName, Place
    <3>2. \A g \in Files : obs'[g] \subseteq {Fact(g)}
      BY <1>3, <3>1
    <3>3. Is("client", "candidate")' => client' # "original"
      <4>1. obs'["client"] \subseteq {client}
        BY <3>2 DEF Fact
      <4>2. QED
        BY <1>2, <4>1 DEF Is, host
    <3>4. QED
      BY <2>1, <3>2, <3>3 DEF Fresh, FactName
  <2>3. CASE f \in {"backup", "verified", "restored"}
    <3>1. sawAt' = sawAt /\ obs'["client"] = obs["client"]
      BY <1>2, <1>3, <2>3 DEF FactName
    <3>2. writes' = sawAt' => \A g \in Files : obs'[g] \subseteq {Fact(g)}
      BY <1>2, <1>3, <3>1 DEF IInv, Fresh, FactName
    <3>3. QED
      BY <1>2, <2>1, <3>1, <3>2 DEF IInv, Fresh, Is, host, FactName
  <2>4. QED
    BY <1>1, <2>2, <2>3 DEF FactName
<1>9. QED
  BY <1>4, <1>5, <1>6, <1>7, <1>8 DEF IInv

(* An observation is forgotten, whatever became of the host. *)
LEMMA ReobserveIInv ==
  ASSUME IInv, Reobserve, writes' = writes, faults' \in 0 .. MaxFaults,
         inhibited' \in BOOLEAN, stopped' \in BOOLEAN, restored' \in BOOLEAN,
         client' \in {"original", "candidate", "unknown"}, UNCHANGED <<backup, verified>>
  PROVE  IInv'
<1>1. DOMAIN obs' = FactName /\ \A f \in FactName : obs'[f] = {}
  BY FactsInOrder DEF Reobserve, Nothing
<1>2. pc' = 1 /\ step' = "none" /\ sawAt' = sawAt
  BY DEF Reobserve
<1>3. TypeOK'
  <2>1. \A i \in DOMAIN Facts : obs'[Facts[i]] = {}
    BY <1>1, FactsInOrder
  <2>2. pc' \in 1 .. Over /\ pc' # Over /\ step' \in Steps
    BY <1>2, FactsInOrder DEF Over, Steps
  <2>3. QED
    BY <1>2, <2>1, <2>2, Zenon DEF IInv, TypeOK
<1>4. Decided'
  BY <1>2, FactsInOrder DEF Decided, Deciding
<1>5. ObsOK' /\ Quieted' /\ Fresh'
  BY <1>1 DEF ObsOK, Quieted, Fresh, Is, FactName
<1>6. QED
  BY <1>3, <1>4, <1>5 DEF IInv

LEMMA DecideIInv ==
  ASSUME IInv, Decide
  PROVE  IInv'
<1>1. /\ pc = 7 /\ pc' \in {8, 9} /\ (pc' = 9 => step' \in Ends)
      /\ step' = RecoveryStep /\ Deciding = 7 /\ Over = 9
  BY FactsInOrder DEF Decide, Deciding, Applying, Over
<1>2. UNCHANGED <<host, obs, writes, faults, sawAt>>
  BY DEF Decide
<1>3. RecoveryStep' = RecoveryStep
  BY <1>2 DEF RecoveryStep, Is
<1>4. TypeOK'
  <2>1. step' \in Steps
    BY <1>1, DecisionMeans
  <2>2. \A i \in DOMAIN Facts : pc' \notin 1 .. i
    BY <1>1, FactsInOrder
  <2>3. QED
    BY <1>1, <1>2, <2>1, <2>2 DEF IInv, TypeOK, host
<1>5. Decided'
  BY <1>1, <1>3 DEF Decided
<1>6. ObsOK'
  <2>1. \A f \in FactName : ~(pc' <= Place(f))
    BY <1>1, FactsInOrder
  <2>2. QED
    BY <1>2, <2>1 DEF IInv, ObsOK
<1>7. Quieted' /\ Fresh'
  BY <1>2 DEF IInv, Quieted, Fresh, Is, Fact, host
<1>8. QED
  BY <1>4, <1>5, <1>6, <1>7 DEF IInv

LEMMA ApplyIInv ==
  ASSUME IInv, Apply
  PROVE  IInv'
<1>1. /\ inhibited' \in BOOLEAN /\ stopped' \in BOOLEAN /\ restored' \in BOOLEAN
      /\ client' \in {"original", "candidate", "unknown"}
  BY Zenon DEF IInv, TypeOK, Apply, Effect
<1>2. Reobserve /\ UNCHANGED <<backup, verified, faults>> /\ writes' = writes
  BY DEF Apply, Effect, Reobserve
<1>3. faults' \in 0 .. MaxFaults
  BY <1>2 DEF IInv, TypeOK
<1>4. QED
  BY <1>1, <1>2, <1>3, ReobserveIInv

LEMMA CrashIInv ==
  ASSUME IInv, Crash
  PROVE  IInv'
<1>1. Reobserve /\ UNCHANGED <<backup, verified>> /\ writes' = writes
  BY DEF Crash, host, Reobserve
<1>2. /\ inhibited' \in BOOLEAN /\ stopped' \in BOOLEAN /\ restored' \in BOOLEAN
      /\ client' \in {"original", "candidate", "unknown"}
  BY DEF IInv, TypeOK, Crash, host
<1>3. faults' \in 0 .. MaxFaults
  BY RecoveryAssumption DEF IInv, TypeOK, Crash, Fault
<1>4. QED
  BY <1>1, <1>2, <1>3, ReobserveIInv

(* Whatever others do, an observation says no more than it did. *)
LEMMA OthersIInv ==
  ASSUME IInv, Others
  PROVE  IInv'
<1>1. UNCHANGED <<pc, obs, step, faults, sawAt>>
  BY DEF Others
<1>2. ObsOK' /\ Decided'
  BY <1>1 DEF IInv, ObsOK, Decided, RecoveryStep, Is
<1>3. CASE (Start \/ Die) /\ UNCHANGED writes
  <2>1. UNCHANGED <<inhibited, client, restored, backup, verified, writes>> /\ stopped' \in BOOLEAN
    BY <1>3 DEF Start, Die
  <2>2. TypeOK'
    BY <1>1, <2>1 DEF IInv, TypeOK
  <2>3. Quieted'
    BY <1>1, <1>3, <2>1 DEF IInv, Quieted, Is, Start, Die
  <2>4. Fresh'
    BY <1>1, <2>1 DEF IInv, Fresh, Is, Fact
  <2>5. QED
    BY <1>2, <2>2, <2>3, <2>4 DEF IInv
<1>4. CASE Write /\ writes' = writes + 1
  <2>1. /\ UNCHANGED <<inhibited, stopped>> /\ writes < MaxWrites
        /\ client' \in {"original", "candidate", "unknown"}
        /\ backup' \in {"original", "unknown"}
        /\ client' = client \/ client' # "original"
    BY <1>4 DEF Write, IInv, TypeOK
  <2>2. restored' \in BOOLEAN /\ verified' \in BOOLEAN
    BY <1>4, Zenon DEF Write, IInv, TypeOK
  <2>3. writes' \in 0 .. MaxWrites /\ sawAt' \in 0 .. writes' /\ writes' # sawAt'
    BY <1>1, <1>4, <2>1, RecoveryAssumption DEF IInv, TypeOK
  <2>4. TypeOK'
    BY <1>1, <2>1, <2>2, <2>3 DEF IInv, TypeOK
  <2>5. Quieted' /\ Fresh'
    BY <1>1, <2>1, <2>3 DEF IInv, Quieted, Fresh, Is
  <2>6. QED
    BY <1>2, <2>4, <2>5 DEF IInv
<1>5. QED
  BY <1>3, <1>4 DEF Others

LEMMA StutterIInv ==
  ASSUME IInv, UNCHANGED vars
  PROVE  IInv'
<1>1. TypeOK'
  BY DEF vars, IInv, TypeOK
<1>2. ObsOK' /\ Decided' /\ Quieted'
  BY DEF vars, IInv, ObsOK, Decided, Quieted, RecoveryStep, Is
<1>3. Fresh'
  BY DEF vars, IInv, Fresh, Is, Fact
<1>4. QED
  BY <1>1, <1>2, <1>3 DEF IInv

LEMMA NextIInv == IInv /\ [Next]_vars => IInv'
BY ObserveIInv, DecideIInv, ApplyIInv, CrashIInv, OthersIInv, StutterIInv DEF Next, Operator

LEMMA Invariant == Spec => []IInv
BY InitIInv, NextIInv, PTL DEF Spec

-----------------------------------------------------------------------------
(* What the loop remembers has its type, and while a fact is not read yet  *)
(* nothing is known of it.                                                 *)
THEOREM TypeCorrect == Spec => []TypeOK
<1>1. IInv => TypeOK
  BY DEF IInv
<1>2. QED
  BY <1>1, Invariant, PTL

(* recovery_step says ROLLED_BACK only of a host that is rolled back,      *)
(* however often the operator crashed or failed to observe on the way,     *)
(* unless others wrote the files behind the observation.                   *)
THEOREM RolledBack == Spec => []RolledBackIsTrue
<1>1. IInv => RolledBackIsTrue
  <2> SUFFICES ASSUME IInv, step = "ROLLED_BACK", writes = sawAt
               PROVE  inhibited /\ stopped /\ client = "original" /\ restored
    BY DEF RolledBackIsTrue
  <2>1. pc \in 1 .. 9 /\ Deciding = 7
    BY FactsInOrder DEF IInv, TypeOK, Over, Deciding
  <2>2. step = RecoveryStep
    BY <2>1 DEF IInv, Decided
  <2>3. Is("inhibited", TRUE) /\ Is("stopped", TRUE) /\ Is("client", "original") /\ Is("restored", TRUE)
    BY <2>2, DecisionMeans
  <2>4. inhibited /\ stopped
    BY <2>3 DEF IInv, Quieted
  <2>5. client = "original" /\ restored
    <3>1. obs["client"] \subseteq {client} /\ obs["restored"] \subseteq {restored}
      BY DEF IInv, Fresh, Fact
    <3>2. obs["client"] = {"original"} /\ obs["restored"] = {TRUE}
      BY <2>3 DEF Is
    <3>3. "original" = client /\ TRUE = restored
      BY <3>1, <3>2, Zenon
    <3>4. QED
      BY <3>3, Zenon
  <2>6. QED
    BY <2>4, <2>5
<1>2. QED
  BY <1>1, Invariant, PTL

(* The decision being applied, with what the host is known to be. *)
LEMMA ApplyKnows ==
  ASSUME IInv, Apply
  PROVE  /\ step \in {"RESTORE_ORIGINAL", "RESTORE_METADATA"} => inhibited /\ stopped
         /\ step = "RESTORE_ORIGINAL" =>
              client # "original" /\ (writes = sawAt => client = "candidate" /\ backup = "original")
         /\ step = "RESTORE_METADATA" /\ writes = sawAt => client = "original"
<1>1. step = RecoveryStep
  BY FactsInOrder DEF Apply, Applying, Deciding, IInv, Decided
<1>2. step \in {"RESTORE_ORIGINAL", "RESTORE_METADATA"} =>
        Is("inhibited", TRUE) /\ Is("stopped", TRUE) /\ Is("backup", "original")
  BY <1>1, DecisionMeans
<1>3. /\ step = "RESTORE_ORIGINAL" => Is("client", "candidate")
      /\ step = "RESTORE_METADATA" => Is("client", "original")
  BY <1>1, DecisionMeans
<1>4. step \in {"RESTORE_ORIGINAL", "RESTORE_METADATA"} => inhibited /\ stopped
  BY <1>2 DEF IInv, Quieted
<1>5. writes = sawAt => obs["client"] \subseteq {client} /\ obs["backup"] \subseteq {backup}
  BY DEF IInv, Fresh, Fact
<1>6. QED
  BY <1>2, <1>3, <1>4, <1>5 DEF IInv, Fresh, Is

(* No byte and no metadata of the client is touched while the dashboard    *)
(* runs or may start, on an observation of any age; and what is replaced   *)
(* is known, unless others wrote the files since the client was read.      *)
THEOREM SafeRestore == Spec => RestoresSafely
<1> DEFINE Safe ==
      (client' # client \/ restored' # restored) /\ writes' = writes =>
        /\ inhibited /\ stopped
        /\ writes = sawAt => client # "unknown" /\ client' = "original"
<1>1. IInv /\ [Next]_vars => [Safe]_vars
  <2> SUFFICES ASSUME IInv, Next, client' # client \/ restored' # restored, writes' = writes
               PROVE  /\ inhibited /\ stopped
                      /\ writes = sawAt => client # "unknown" /\ client' = "original"
    OBVIOUS
  <2>1. Apply
    <3>1. ~Observe /\ ~Decide /\ ~Crash /\ ~(UNCHANGED vars)
      BY DEF Observe, Decide, Crash, host, vars
    <3>2. ~Others
      BY DEF Others, Start, Die, IInv, TypeOK
    <3>3. QED
      BY <3>1, <3>2 DEF Next, Operator
  <2>2. step \in {"RESTORE_ORIGINAL", "RESTORE_METADATA"}
    BY <2>1 DEF Apply, Effect
  <2>3. client' = IF step = "RESTORE_ORIGINAL" THEN backup ELSE client
    BY <2>1 DEF Apply, Effect
  <2>4. QED
    BY <2>1, <2>2, <2>3, ApplyKnows
<1>2. QED
  BY <1>1, Invariant, PTL DEF Spec, RestoresSafely

-----------------------------------------------------------------------------
(* The refinement. *)

(* The loop implements Rollback: seen from outside the host only becomes   *)
(* quiet, and then goes from stage to stage, one by one; back only by the  *)
(* hand of others. A crash or a failed action is no step at all.           *)
THEOREM Refinement == Spec => RollbackSpec
<1> DEFINE quiet == inhibited /\ stopped
           stage == IF client # "original" THEN 0 ELSE IF restored THEN 2 ELSE 1
           Stays == quiet' = quiet /\ stage' = stage
<1>1. Init => Stages!Init
  BY DEF Init, Stages!Init
<1>2. IInv /\ [Next]_vars => [Stages!Next]_<<inhibited /\ stopped,
        IF client # "original" THEN 0 ELSE IF restored THEN 2 ELSE 1>>
  <2> SUFFICES ASSUME IInv, [Next]_vars
               PROVE  Stages!Next \/ Stays
    OBVIOUS
  <2>1. CASE Observe \/ Decide \/ Crash \/ UNCHANGED vars
    BY <2>1 DEF Observe, Decide, Crash, host, vars
  <2>2. CASE Apply
    <3>1. CASE step \in {"RESTORE_ORIGINAL", "RESTORE_METADATA"}
      <4>1. inhibited /\ stopped /\ inhibited' /\ stopped'
        BY <2>2, <3>1, ApplyKnows DEF Apply, Effect
      <4>2. CASE step = "RESTORE_ORIGINAL"
        <5>1. client # "original" /\ client' = backup /\ ~restored'
          BY <2>2, <4>2, ApplyKnows DEF Apply, Effect
        <5>2. QED
          BY <4>1, <5>1 DEF Stages!Next, Stages!Restore
      <4>3. CASE step = "RESTORE_METADATA"
        <5>1. client' = client /\ restored'
          BY <2>2, <4>3 DEF Apply, Effect
        <5>2. QED
          BY <4>1, <5>1 DEF Stages!Next, Stages!Restore
      <4>4. QED
        BY <3>1, <4>2, <4>3
    <3>2. CASE step \notin {"RESTORE_ORIGINAL", "RESTORE_METADATA"}
      <4>1. client' = client /\ restored' = restored
        BY <2>2, <3>2 DEF Apply, Effect
      <4>2. (inhibited => inhibited') /\ (stopped => stopped')
        BY <2>2 DEF Apply, Effect
      <4>3. QED
        BY <4>1, <4>2 DEF Stages!Next, Stages!Silence
    <3>3. QED
      BY <3>1, <3>2
  <2>3. CASE Others
    <3>1. CASE Start \/ Die
      BY <3>1 DEF Start, Die, Stages!Next, Stages!Silence
    <3>2. CASE Write
      BY <3>2 DEF Write, Stages!Next, Stages!Overwritten
    <3>3. QED
      BY <2>3, <3>1, <3>2 DEF Others
  <2>4. QED
    BY <2>1, <2>2, <2>3 DEF Next, Operator
<1>3. QED
  BY <1>1, <1>2, Invariant, PTL DEF Spec, RollbackSpec, Stages!Spec
=============================================================================
