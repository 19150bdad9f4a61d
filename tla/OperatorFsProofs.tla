-------------------------- MODULE OperatorFsProofs --------------------------
(***************************************************************************)
(* Theorems about the vendor-file reader, for every file system, path      *)
(* depth, limit and number of changes.  Two of them need the timestamp     *)
(* clock to advance on every change (Ticks): a stamp that two changes share*)
(* hides the second one from the recheck. The others hold for any clock,   *)
(* one that stands still included.                                         *)
(***************************************************************************)
EXTENDS OperatorFs, TLAPS

(* The stamp taken of the directory in which component k is looked up. *)
ParentStamp(k) == IF k = 1 THEN rootBefore ELSE held[k - 1].before

(* Every change takes a new timestamp. *)
Ticks == 0 \notin Tick

(* Inode s.ino has not been touched since the stamp s was taken: its ctime *)
(* is still that of the stamp, and the clock is one that tells.            *)
Untouched(s) == Ticks /\ ctime[s.ino] = s.ctime

(* A stamp is never ahead of its inode, and tells an untouched inode's     *)
(* state exactly.                                                          *)
Faithful(s) ==
  /\ s.ctime <= ctime[s.ino]
  /\ Untouched(s) => Stamp(s.ino) = s

Walking == {"lstat", "open", "fstat"}
Rechecking == {"recheck_fd", "recheck_name", "recheck_root"}
AfterLeaf == {"read"} \cup Rechecking

ClockInv == \A i \in Inode : ctime[i] <= now

(* The root's stamp, once taken. *)
RootInv ==
  pc \in Walking \cup AfterLeaf =>
    /\ rootBefore.ino = Root
    /\ Faithful(rootBefore)
    /\ Trusted(rootBefore, 0)

(* The component whose lstat was taken and that is being opened. *)
BeforeInv ==
  /\ pc \in {"open", "fstat"} =>
       /\ Faithful(before)
       /\ Trusted(before, level)
       /\ Untouched(ParentStamp(level)) => entry[Parent(level)] = before.ino
       /\ level = Depth => before.size <= Limit
  /\ pc = "fstat" => fds # <<>>

(* The components already held: faithful, trusted, and each bound to its   *)
(* name while nobody touches the directory it was found in.                *)
Chain ==
  \A k \in 1 .. Len(held) :
    /\ held[k].fd = held[k].before.ino
    /\ Faithful(held[k].before)
    /\ Trusted(held[k].before, k)
    /\ Untouched(ParentStamp(k)) => entry[Parent(k)] = held[k].fd

HeldInv ==
  /\ pc = "root" => level = 1 /\ held = <<>> /\ data = <<>>
  /\ pc \in Walking => Len(held) = level - 1
  /\ pc \in AfterLeaf =>
       /\ Len(held) = Depth
       /\ before = held[Depth].before
       /\ before.size <= Limit
  /\ pc = "read" => level = Depth
  /\ pc \in Walking \cup AfterLeaf => Chain

(* The cells read are a prefix of the leaf, while nobody touches it; a     *)
(* recheck begins with as many cells as the leaf's stamp counts.           *)
DataInv ==
  /\ pc \in AfterLeaf /\ Untouched(held[Depth].before) =>
       /\ Len(data) <= Len(content[Leaf])
       /\ \A j \in 1 .. Len(data) : data[j] = content[Leaf][j]
  /\ pc \in Walking => data = <<>>
  /\ pc \in Rechecking => Len(data) = held[Depth].before.size

(* The stamp of component k, the root being component 0. *)
StampOf(k) == IF k = 0 THEN rootBefore ELSE held[k].before

(* Had an atomic read at the leaf's recheck not agreed, one of the         *)
(* components 0 .. k was touched, and its recheck is still to come.        *)
Covered(k) == genuine \/ \E j \in 0 .. k : ~ Untouched(StampOf(j))

GenuineInv ==
  /\ pc = "recheck_fd" /\ level < Depth => Covered(level)
  /\ pc = "recheck_name" => Covered(level - 1)
  /\ pc = "recheck_root" => Covered(0)
  /\ pc \notin {"idle", "unwind"} => result = "pending"

AtomicInv == Ticks => ReadIsAtomic

IInv ==
  /\ TypeOK
  /\ ClockInv
  /\ RootInv
  /\ BeforeInv
  /\ HeldInv
  /\ DataInv
  /\ GenuineInv
  /\ AtomicInv
-----------------------------------------------------------------------------
(* What a stamp is: a record of its type, faithful when it is taken. *)
LEMMA StampType ==
  ASSUME TypeOK, NEW i \in Inode
  PROVE  /\ Stamp(i) \in Stamps
         /\ Stamp(i).ino = i
         /\ Faithful(Stamp(i))
<1>1. Size(i) \in Nat
  BY FsAssumption DEF TypeOK, Size
<1>2. QED
  BY <1>1 DEF TypeOK, Stamp, Stamps, Faithful, Untouched

(* Where a lookup goes while the walk holds a trusted chain: a directory.  *)
LEMMA ParentIsDir ==
  ASSUME TypeOK, HeldInv, pc \in Walking \cup AfterLeaf, NEW k \in Level, k <= Len(held) + 1
  PROVE  /\ Parent(k) \in Dir
         /\ entry[Parent(k)] \in Inode \cup {Absent}
<1>1. CASE k = 1
  BY <1>1, FsAssumption DEF Parent, TypeOK
<1>2. CASE k # 1
  <2>1. k - 1 \in 1 .. Len(held) /\ k - 1 < Depth /\ k - 1 # Depth
    BY <1>2, FsAssumption DEF Level, TypeOK
  <2>2. held[k - 1] \in Records
    BY <2>1 DEF TypeOK
  <2>3. held[k - 1].fd \in Dir
    BY <2>1, <2>2 DEF HeldInv, Chain, Trusted, Dir, Records, Stamps
  <2>4. QED
    BY <1>2, <2>3 DEF Parent, TypeOK
<1>3. QED
  BY <1>1, <1>2

(* The leaf is a file once it is open. *)
LEMMA LeafIsFile ==
  ASSUME TypeOK, HeldInv, pc \in AfterLeaf
  PROVE  /\ Leaf \in File
         /\ content[Leaf] \in Seq(Byte)
         /\ Size(Leaf) = Len(content[Leaf])
<1>1. Depth \in 1 .. Len(held)
  BY FsAssumption DEF HeldInv
<1>2. held[Depth] \in Records
  BY <1>1 DEF TypeOK
<1>3. Leaf \in File
  BY <1>1, <1>2 DEF HeldInv, Chain, Trusted, File, Leaf, Records, Stamps
<1>4. QED
  BY <1>3, FsAssumption DEF TypeOK, Size
-----------------------------------------------------------------------------
(* A change of the file system moves the clock and touches one inode.      *)
LEMMA EnvironmentStep ==
  ASSUME TypeOK, Environment
  PROVE  /\ now' \in Nat /\ now <= now' /\ (Ticks => now < now')
         /\ \E x \in Inode :
              /\ ctime' = [ctime EXCEPT ![x] = now']
              /\ \A i \in Inode \ {x} :
                   /\ Stamp(i)' = Stamp(i)
                   /\ i \in Dir => entry'[i] = entry[i]
                   /\ i \in File => content'[i] = content[i]
<1>1. ASSUME NEW x \in Inode, Touch(x)
      PROVE  /\ now' \in Nat /\ now <= now' /\ (Ticks => now < now')
             /\ ctime' = [ctime EXCEPT ![x] = now']
             /\ \A i \in Inode \ {x} : ctime'[i] = ctime[i]
  <2>1. PICK t \in Tick : now' = now + t /\ ctime' = [ctime EXCEPT ![x] = now + t]
    BY <1>1 DEF Touch
  <2>2. t \in Nat /\ now \in Nat /\ (Ticks => t # 0)
    BY FsAssumption DEF Ticks, TypeOK
  <2>3. QED
    BY <2>1, <2>2 DEF TypeOK
<1> DEFINE Only(x) ==
             /\ now' \in Nat /\ now <= now' /\ (Ticks => now < now')
             /\ ctime' = [ctime EXCEPT ![x] = now']
             /\ \A i \in Inode \ {x} :
                  /\ Stamp(i)' = Stamp(i)
                  /\ i \in Dir => entry'[i] = entry[i]
                  /\ i \in File => content'[i] = content[i]
<1>2. ASSUME NEW d \in Dir, NEW b \in Fits[d] \cup {Absent}, Rebind(d, b)
      PROVE  d \in Inode /\ Only(d)
  <2>1. d \in Inode /\ Touch(d)
    BY <1>2 DEF Rebind, Dir
  <2>2. \A i \in Inode \ {d} : Stamp(i)' = Stamp(i)
    BY <1>1, <1>2, <2>1 DEF Rebind, Stamp, Size
  <2>3. \A i \in Dir \ {d} : entry'[i] = entry[i]
    BY <1>2 DEF Rebind, TypeOK
  <2>4. QED
    BY <1>1, <1>2, <2>1, <2>2, <2>3 DEF Rebind
<1>3. ASSUME NEW i \in Inode, NEW m \in Meta, Regrant(i, m)
      PROVE  Only(i)
  <2>1. Touch(i)
    BY <1>3 DEF Regrant
  <2>2. \A j \in Inode \ {i} : Stamp(j)' = Stamp(j)
    BY <1>1, <1>3, <2>1 DEF Regrant, Stamp, Size, TypeOK
  <2>3. QED
    BY <1>1, <1>3, <2>1, <2>2 DEF Regrant
<1>4. ASSUME NEW f \in File, NEW s \in Contents, WriteFile(f, s)
      PROVE  f \in Inode /\ Only(f)
  <2>1. f \in Inode /\ Touch(f)
    BY <1>4 DEF WriteFile, File
  <2>2. \A j \in File \ {f} : content'[j] = content[j]
    BY <1>4 DEF WriteFile, TypeOK
  <2>3. \A j \in Inode \ {f} : Stamp(j)' = Stamp(j)
    BY <1>1, <1>4, <2>1, <2>2 DEF WriteFile, Stamp, Size
  <2>4. QED
    BY <1>1, <1>4, <2>1, <2>2, <2>3 DEF WriteFile
<1>5. \E x \in Inode : Only(x)
  BY <1>2, <1>3, <1>4 DEF Environment
<1>6. QED
  BY <1>5
(* So a faithful stamp stays faithful, and an inode still untouched after  *)
(* the change was untouched before it and is as it was.                    *)
LEMMA FaithfulStep ==
  ASSUME TypeOK, ClockInv, Environment,
         NEW s \in Stamps, Faithful(s)
  PROVE  /\ Faithful(s)'
         /\ Untouched(s)' =>
              /\ Untouched(s)
              /\ Stamp(s.ino)' = Stamp(s.ino)
              /\ s.ino \in Dir => entry'[s.ino] = entry[s.ino]
              /\ s.ino \in File => content'[s.ino] = content[s.ino]
<1>1. s.ino \in Inode /\ s.ctime \in Nat
  BY DEF Stamps
<1>2. now' \in Nat /\ now <= now' /\ (Ticks => now < now')
  BY EnvironmentStep
<1>3. PICK x \in Inode :
        /\ ctime' = [ctime EXCEPT ![x] = now']
        /\ \A i \in Inode \ {x} :
             /\ Stamp(i)' = Stamp(i)
             /\ i \in Dir => entry'[i] = entry[i]
             /\ i \in File => content'[i] = content[i]
  BY EnvironmentStep
<1>4. s.ctime <= ctime[s.ino] /\ ctime[s.ino] <= now /\ now \in Nat /\ ctime[s.ino] \in Nat
  BY <1>1 DEF Faithful, ClockInv, TypeOK
<1>5. CASE s.ino = x
  <2>1. ctime'[s.ino] = now'
    BY <1>1, <1>3, <1>5 DEF TypeOK
  <2>2. s.ctime <= now' /\ (Ticks => s.ctime < now')
    BY <1>1, <1>2, <1>4
  <2>3. ~ Untouched(s)' /\ s.ctime <= ctime'[s.ino]
    BY <1>1, <1>2, <2>1, <2>2 DEF Untouched
  <2>4. QED
    BY <2>3 DEF Faithful
<1>6. CASE s.ino # x
  <2>1. ctime'[s.ino] = ctime[s.ino]
    BY <1>1, <1>3, <1>6 DEF TypeOK
  <2>2. Untouched(s)' <=> Untouched(s)
    BY <2>1 DEF Untouched
  <2>3. Stamp(s.ino)' = Stamp(s.ino)
    BY <1>1, <1>3, <1>6
  <2>4. Faithful(s)'
    BY <1>4, <2>1, <2>2, <2>3 DEF Faithful
  <2>5. QED
    BY <1>1, <1>3, <1>6, <2>2, <2>3, <2>4
<1>7. QED
  BY <1>5, <1>6
-----------------------------------------------------------------------------
(* The reader leaves the file system as it is: what was faithful or        *)
(* untouched stays so.                                                     *)
LEMMA ReaderKeeps ==
  ASSUME UNCHANGED fsVars
  PROVE  /\ \A i : Stamp(i)' = Stamp(i)
         /\ \A s : Faithful(s)' <=> Faithful(s)
         /\ \A s : Untouched(s)' <=> Untouched(s)
BY DEF fsVars, Stamp, Size, Faithful, Untouched

(* A call that fails keeps every invariant: nothing is claimed of it.      *)
LEMMA FailStep ==
  ASSUME IInv, UNCHANGED fsVars, NEW code \in Codes \ {"bytes"}, Fail(code)
  PROVE  IInv'
<1>1. TypeOK'
  BY DEF IInv, TypeOK, Fail, fsVars, PCs
<1>2. ClockInv'
  BY DEF IInv, ClockInv, fsVars
<1>3. RootInv' /\ BeforeInv' /\ HeldInv' /\ DataInv' /\ GenuineInv'
  BY DEF Fail, RootInv, BeforeInv, HeldInv, DataInv, GenuineInv,
         Walking, Rechecking, AfterLeaf
<1>4. AtomicInv'
  BY DEF Fail, AtomicInv, ReadIsAtomic
<1>5. QED
  BY <1>1, <1>2, <1>3, <1>4 DEF IInv

LEMMA CallStep ==
  ASSUME IInv, UNCHANGED fsVars, NEW code \in Rejections \cup {"pending"}, Call(code)
  PROVE  IInv'
<1>1. TypeOK'
  <2>1. NoStamp \in Stamps
    BY FsAssumption DEF NoStamp, Stamps, Meta, Dir
  <2>2. 1 \in Level
    BY FsAssumption DEF Level
  <2>3. result' \in Codes /\ pc' \in PCs /\ genuine' \in BOOLEAN
    BY DEF Call, Codes, PCs
  <2>4. held' \in Seq(Records) /\ data' \in Seq(Byte)
    BY DEF Call
  <2>5. QED
    BY <2>1, <2>2, <2>3, <2>4 DEF IInv, TypeOK, Call, fsVars
<1>2. ClockInv'
  BY DEF IInv, ClockInv, fsVars
<1>3. RootInv' /\ BeforeInv' /\ HeldInv' /\ DataInv' /\ GenuineInv'
  BY DEF Call, RootInv, BeforeInv, HeldInv, DataInv, GenuineInv,
         Walking, Rechecking, AfterLeaf
<1>4. AtomicInv'
  BY DEF Call, AtomicInv, ReadIsAtomic, Rejections
<1>5. QED
  BY <1>1, <1>2, <1>3, <1>4 DEF IInv

LEMMA OpenRootStep ==
  ASSUME IInv, UNCHANGED fsVars, OpenRoot
  PROVE  IInv'
<1>1. Root \in Inode
  BY FsAssumption DEF Dir
<1>2. Stamp(Root) \in Stamps /\ Stamp(Root).ino = Root /\ Faithful(Stamp(Root))
  BY <1>1, StampType DEF IInv
<1>3. TypeOK'
  BY <1>1, <1>2 DEF IInv, TypeOK, OpenRoot, fsVars, PCs, Codes
<1>4. ClockInv'
  BY DEF IInv, ClockInv, fsVars
<1>5. AtomicInv'
  BY DEF OpenRoot, AtomicInv, ReadIsAtomic, IInv, GenuineInv
<1>6. CASE Trusted(Stamp(Root), 0)
  <2>1. RootInv'
    BY <1>2, <1>6, ReaderKeeps DEF OpenRoot, RootInv, Trusted, fsVars
  <2>2. held' = <<>> /\ level' = 1 /\ data' = <<>> /\ pc' = "lstat"
    BY <1>6 DEF OpenRoot, IInv, HeldInv
  <2>3. HeldInv' /\ DataInv'
    BY <2>2 DEF HeldInv, Chain, DataInv, Walking, Rechecking, AfterLeaf
  <2>4. BeforeInv' /\ GenuineInv'
    BY <1>6, <2>2 DEF OpenRoot, BeforeInv, GenuineInv, IInv
  <2>5. QED
    BY <1>3, <1>4, <1>5, <2>1, <2>3, <2>4 DEF IInv
<1>7. CASE ~ Trusted(Stamp(Root), 0)
  <2>1. RootInv' /\ BeforeInv' /\ HeldInv' /\ DataInv' /\ GenuineInv'
    BY <1>7 DEF OpenRoot, RootInv, BeforeInv, HeldInv, DataInv, GenuineInv,
           Walking, Rechecking, AfterLeaf
  <2>2. QED
    BY <1>3, <1>4, <1>5, <2>1 DEF IInv
<1>8. QED
  BY <1>6, <1>7
(* The chain depends on the file system and on the records only. *)
LEMMA ChainKept ==
  ASSUME UNCHANGED fsVars, UNCHANGED <<held, rootBefore>>
  PROVE  /\ Chain' <=> Chain
         /\ \A k : Parent(k)' = Parent(k) /\ ParentStamp(k)' = ParentStamp(k)
BY DEF fsVars, Chain, Parent, ParentStamp, Stamp, Size, Faithful, Untouched, Trusted, Owners

LEMMA LstatStep ==
  ASSUME IInv, UNCHANGED fsVars, Lstat
  PROVE  IInv'
<1> DEFINE i == entry[Parent(level)]
<1>1. i \in Inode \cup {Absent} /\ Len(held) = level - 1 /\ Chain
  BY ParentIsDir DEF IInv, HeldInv, Lstat, Walking, AfterLeaf, TypeOK, Level
<1>2. CASE \E code \in Codes \ {"bytes"} : Fail(code)
  BY <1>2, FailStep
<1>3. ASSUME i # Absent, Trusted(Stamp(i), level), level = Depth => Size(i) <= Limit,
             before' = Stamp(i), pc' = "open",
             UNCHANGED <<level, rootBefore, held, fds, data, result, since, genuine>>
      PROVE  IInv'
  <2>1. Stamp(i) \in Stamps /\ Stamp(i).ino = i /\ Faithful(Stamp(i)) /\ Stamp(i).size = Size(i)
    BY <1>1, <1>3, StampType DEF IInv, Stamp
  <2>2. TypeOK'
    BY <1>3, <2>1 DEF IInv, TypeOK, fsVars, PCs
  <2>3. ClockInv' /\ AtomicInv'
    BY <1>3 DEF IInv, ClockInv, AtomicInv, ReadIsAtomic, fsVars
  <2>4. RootInv'
    BY <1>3, ReaderKeeps DEF IInv, RootInv, Lstat, Walking, AfterLeaf, Trusted, Owners
  <2>5. BeforeInv'
    <3>1. Faithful(before)'
      BY <1>3, <2>1 DEF Faithful, Untouched, Stamp, Size, fsVars
    <3>2. Trusted(before, level)'
      BY <1>3 DEF Trusted, Owners
    <3>3. entry'[Parent(level)'] = before'.ino
      BY <1>3, <2>1 DEF Parent, fsVars
    <3>4. QED
      BY <1>3, <2>1, <3>1, <3>2, <3>3 DEF BeforeInv
  <2>6. HeldInv'
    BY <1>1, <1>3, ChainKept DEF HeldInv, Walking, AfterLeaf, Rechecking
  <2>7. DataInv'
    BY <1>3 DEF IInv, DataInv, Lstat, Walking, AfterLeaf, Rechecking
  <2>8. GenuineInv'
    BY <1>3 DEF IInv, GenuineInv, Lstat
  <2>9. QED
    BY <2>2, <2>3, <2>4, <2>5, <2>6, <2>7, <2>8 DEF IInv
<1>4. QED
  BY <1>2, <1>3 DEF Lstat, Codes
LEMMA OpenStep ==
  ASSUME IInv, UNCHANGED fsVars, Open
  PROVE  IInv'
<1> DEFINE i == entry[Parent(level)]
<1>1. i \in Inode \cup {Absent} /\ Len(held) = level - 1 /\ Chain
  BY ParentIsDir DEF IInv, HeldInv, Open, Walking, AfterLeaf, TypeOK, Level
<1>2. CASE \E code \in Codes \ {"bytes"} : Fail(code)
  BY <1>2, FailStep
<1>3. ASSUME i # Absent, fds' = Append(fds, i), pc' = "fstat",
             UNCHANGED <<level, before, rootBefore, held, data, result, since, genuine>>
      PROVE  IInv'
  <2>1. fds' \in Seq(Inode) /\ fds' # <<>>
    BY <1>1, <1>3 DEF IInv, TypeOK
  <2>2. TypeOK'
    BY <1>3, <2>1 DEF IInv, TypeOK, fsVars, PCs
  <2>3. ClockInv' /\ AtomicInv'
    BY <1>3 DEF IInv, ClockInv, AtomicInv, ReadIsAtomic, fsVars
  <2>4. RootInv'
    BY <1>3, ReaderKeeps DEF IInv, RootInv, Open, Walking, AfterLeaf, Trusted, Owners
  <2>5. BeforeInv'
    BY <1>3, <2>1 DEF Open, IInv, BeforeInv, Faithful, Untouched, Stamp, Size, fsVars, Trusted,
         Owners, Parent, ParentStamp
  <2>6. HeldInv'
    BY <1>1, <1>3, ChainKept DEF HeldInv, Walking, AfterLeaf, Rechecking
  <2>7. DataInv'
    BY <1>3 DEF IInv, DataInv, Open, Walking, AfterLeaf, Rechecking
  <2>8. GenuineInv'
    BY <1>3 DEF IInv, GenuineInv, Open
  <2>9. QED
    BY <2>2, <2>3, <2>4, <2>5, <2>6, <2>7, <2>8 DEF IInv
<1>4. QED
  BY <1>2, <1>3 DEF Open, Codes

LEMMA FstatStep ==
  ASSUME IInv, UNCHANGED fsVars, Fstat
  PROVE  IInv'
<1>1. /\ Len(held) = level - 1 /\ Chain /\ data = <<>>
      /\ Faithful(before) /\ Trusted(before, level)
      /\ Untouched(ParentStamp(level)) => entry[Parent(level)] = before.ino
      /\ fds # <<>>
      /\ level = Depth => before.size <= Limit
  BY DEF IInv, HeldInv, DataInv, BeforeInv, Fstat, Walking
<1>2. CASE \E code \in Codes \ {"bytes"} : Fail(code)
  BY <1>2, FailStep
<1>3. ASSUME Stamp(Opened) = before,
             held' = Append(held, [fd |-> Opened, before |-> before]),
             level' = IF level = Depth THEN Depth ELSE level + 1,
             pc' = IF level = Depth THEN "read" ELSE "lstat",
             UNCHANGED <<before, rootBefore, fds, data, result, since, genuine>>
      PROVE  IInv'
  <2> DEFINE r == [fd |-> Opened, before |-> before]
  <2>1. Opened = before.ino /\ Opened \in Inode /\ before \in Stamps
    BY <1>3 DEF Stamp, IInv, TypeOK, Stamps
  <2>2. r \in Records /\ r.fd = before.ino /\ r.before = before
    BY <2>1 DEF Records
  <2>3. /\ held \in Seq(Records) /\ held' \in Seq(Records)
        /\ Len(held') = level /\ held'[level] = r
        /\ \A k \in 1 .. Len(held) : held'[k] = held[k]
    BY <1>1, <1>3, <2>2 DEF IInv, TypeOK, Level
  <2>4. \A k \in 1 .. level : Parent(k)' = Parent(k) /\ ParentStamp(k)' = ParentStamp(k)
    <3> SUFFICES ASSUME NEW k \in 1 .. level
                 PROVE  Parent(k)' = Parent(k) /\ ParentStamp(k)' = ParentStamp(k)
      OBVIOUS
    <3>1. CASE k = 1
      BY <1>3, <3>1 DEF Parent, ParentStamp
    <3>2. CASE k # 1
      <4>1. k - 1 \in 1 .. Len(held)
        BY <1>1, <3>2 DEF IInv, TypeOK, Level
      <4>2. held'[k - 1] = held[k - 1]
        BY <2>3, <4>1
      <4>3. QED
        BY <3>2, <4>2 DEF Parent, ParentStamp
    <3>3. QED
      BY <3>1, <3>2
  <2>5. Chain'
    <3> SUFFICES ASSUME NEW k \in 1 .. level
                 PROVE  /\ held'[k].fd = held'[k].before.ino
                        /\ Faithful(held[k].before)'
                        /\ Trusted(held[k].before, k)'
                        /\ Untouched(ParentStamp(k))' => entry'[Parent(k)'] = held'[k].fd
      BY <2>3 DEF Chain
    <3>1. CASE k = level
      BY <1>1, <2>2, <2>3, <2>4, <3>1
         DEF Faithful, Untouched, Trusted, Owners, Stamp, Size, fsVars
    <3>2. CASE k # level
      <4>1. k \in 1 .. Len(held)
        BY <1>1, <3>2 DEF IInv, TypeOK, Level
      <4>2. held'[k] = held[k]
        BY <2>3, <4>1
      <4>3. QED
        BY <1>1, <2>4, <4>1, <4>2
           DEF Chain, Faithful, Untouched, Trusted, Owners, Stamp, Size, fsVars
    <3>3. QED
      BY <3>1, <3>2
  <2>6. TypeOK'
    BY <1>3, <2>3, FsAssumption DEF IInv, TypeOK, fsVars, PCs, Level
  <2>7. ClockInv' /\ AtomicInv'
    BY <1>3 DEF IInv, ClockInv, AtomicInv, ReadIsAtomic, fsVars
  <2>8. RootInv'
    BY <1>3, ReaderKeeps DEF IInv, RootInv, Fstat, Walking, AfterLeaf, Trusted, Owners
  <2>9. BeforeInv'
    BY <1>3 DEF BeforeInv
  <2>10. HeldInv'
    BY <1>1, <1>3, <2>2, <2>3, <2>5, FsAssumption DEF HeldInv, Walking, AfterLeaf, Rechecking, IInv, TypeOK, Level
  <2>11. DataInv'
    <3>1. CASE level = Depth
      <4>1. Leaf' = before.ino /\ before.ino \in File
        BY <1>1, <2>1, <2>2, <2>3, <3>1 DEF Leaf, Trusted, File
      <4>2. content'[Leaf'] \in Seq(Byte)
        BY <4>1, FsAssumption DEF IInv, TypeOK, fsVars
      <4>3. QED
        BY <1>1, <1>3, <3>1, <4>2 DEF DataInv, Walking, Rechecking
    <3>2. CASE level # Depth
      BY <1>1, <1>3, <3>2 DEF DataInv, Walking, Rechecking, AfterLeaf
    <3>3. QED
      BY <3>1, <3>2
  <2>12. GenuineInv'
    BY <1>3 DEF IInv, GenuineInv, Fstat
  <2>13. QED
    BY <2>5, <2>6, <2>7, <2>8, <2>9, <2>10, <2>11, <2>12 DEF IInv
<1>4. QED
  BY <1>2, <1>3 DEF Fstat, Codes
(* Reading on keeps the buffer a prefix of the untouched leaf. *)
LEMMA ReadStep ==
  ASSUME IInv, UNCHANGED fsVars, Read
  PROVE  IInv'
<1>1. /\ Leaf \in File /\ content[Leaf] \in Seq(Byte) /\ Size(Leaf) = Len(content[Leaf])
      /\ data \in Seq(Byte)
  BY LeafIsFile DEF IInv, Read, AfterLeaf, TypeOK
<1>2. PICK n \in 1 .. Chunk :
        /\ Len(data) + n <= Size(Leaf)
        /\ data' = data \o SubSeq(content[Leaf], Len(data) + 1, Len(data) + n)
  BY DEF Read
<1> DEFINE more == SubSeq(content[Leaf], Len(data) + 1, Len(data) + n)
<1>3. n \in Nat \ {0} /\ Len(data) \in Nat
  BY <1>1, FsAssumption
<1>4. /\ more \in Seq(Byte) /\ Len(more) = n
      /\ \A j \in 1 .. n : more[j] = content[Leaf][Len(data) + j]
  BY <1>1, <1>2, <1>3
<1>5. data' \in Seq(Byte) /\ Len(data') = Len(data) + n
  BY <1>1, <1>2, <1>3, <1>4
<1>6. UNCHANGED <<pc, level, before, rootBefore, held, fds, result, since, genuine>> /\ pc = "read"
  BY DEF Read
<1>7. TypeOK'
  BY <1>5, <1>6 DEF IInv, TypeOK, fsVars
<1>8. ClockInv' /\ AtomicInv' /\ RootInv' /\ BeforeInv' /\ GenuineInv'
  BY <1>6, ReaderKeeps DEF IInv, ClockInv, AtomicInv, ReadIsAtomic, RootInv, BeforeInv, GenuineInv,
     Walking, AfterLeaf, Trusted, Owners, fsVars
<1>9. HeldInv'
  BY <1>6, ChainKept DEF IInv, HeldInv, Walking, AfterLeaf, Rechecking
<1>10. DataInv'
  <2> SUFFICES ASSUME Untouched(held[Depth].before)'
               PROVE  /\ Len(data') <= Len(content[Leaf])
                      /\ \A j \in 1 .. Len(data') : data'[j] = content[Leaf][j]
    BY <1>6 DEF DataInv, Walking, Rechecking, Leaf, fsVars
  <2>1. Untouched(held[Depth].before)
    BY <1>6 DEF Untouched, fsVars
  <2>2. \A j \in 1 .. Len(data) : data[j] = content[Leaf][j]
    BY <1>6, <2>1 DEF IInv, DataInv, AfterLeaf
  <2>3. Len(data') <= Len(content[Leaf])
    BY <1>1, <1>2, <1>5
  <2>4. ASSUME NEW j \in 1 .. Len(data')
        PROVE  data'[j] = content[Leaf][j]
    <3>1. CASE j \in 1 .. Len(data)
      BY <1>1, <1>2, <1>4, <2>2, <3>1
    <3>2. CASE j \notin 1 .. Len(data)
      <4>1. j - Len(data) \in 1 .. n
        BY <1>3, <1>5, <3>2
      <4>2. data'[j] = more[j - Len(data)]
        BY <1>1, <1>2, <1>3, <1>4, <1>5, <3>2
      <4>3. QED
        BY <1>3, <1>4, <4>1, <4>2
    <3>3. QED
      BY <3>1, <3>2
  <2>5. QED
    BY <2>3, <2>4
<1>11. QED
  BY <1>7, <1>8, <1>9, <1>10 DEF IInv

LEMMA EndReadStep ==
  ASSUME IInv, UNCHANGED fsVars, EndRead
  PROVE  IInv'
<1>1. CASE Fail("FS_SIZE")
  BY <1>1, FailStep DEF Codes
<1>2. ASSUME Len(data) = before.size, pc' = "recheck_fd",
             UNCHANGED <<level, before, rootBefore, held, fds, data, result, since, genuine>>
      PROVE  IInv'
  <2>1. TypeOK'
    BY <1>2 DEF IInv, TypeOK, fsVars, PCs
  <2>2. ClockInv' /\ AtomicInv' /\ RootInv' /\ BeforeInv'
    BY <1>2, ReaderKeeps DEF IInv, ClockInv, AtomicInv, ReadIsAtomic, RootInv, BeforeInv, EndRead,
       Walking, AfterLeaf, Trusted, Owners, fsVars
  <2>3. GenuineInv'
    <3>1. level = Depth /\ result = "pending"
      BY DEF IInv, HeldInv, GenuineInv, EndRead
    <3>2. QED
      BY <1>2, <3>1, FsAssumption DEF GenuineInv
  <2>4. HeldInv'
    BY <1>2, ChainKept DEF IInv, HeldInv, EndRead, Walking, AfterLeaf, Rechecking
  <2>5. DataInv'
    <3>1. before = held[Depth].before
      BY DEF IInv, HeldInv, EndRead, AfterLeaf
    <3>2. QED
      BY <1>2, <3>1 DEF IInv, DataInv, EndRead, Walking, AfterLeaf, Rechecking,
         Untouched, Leaf, fsVars
  <2>6. QED
    BY <2>1, <2>2, <2>3, <2>4, <2>5 DEF IInv
<1>3. QED
  BY <1>1, <1>2 DEF EndRead
(* Where the argument closes: a leaf whose stamp still holds, under a chain*)
(* of directories none of which was touched, is what an atomic read finds. *)
LEMMA UntouchedIsAtomic ==
  ASSUME IInv, pc = "recheck_fd", Stamp(Leaf) = held[Depth].before,
         \A k \in 0 .. Depth - 1 : Untouched(StampOf(k))
  PROVE  AtomicReadNow
<1>1. /\ Len(held) = Depth /\ Chain
      /\ Trusted(rootBefore, 0) /\ Faithful(rootBefore) /\ rootBefore.ino = Root
  BY DEF IInv, HeldInv, RootInv, AfterLeaf, Rechecking
<1>2. \A k \in 1 .. Depth : held[k] \in Records
  BY <1>1 DEF IInv, TypeOK
<1>3. Untouched(held[Depth].before)
  <2>1. Leaf \in Inode
    BY <1>2, FsAssumption DEF Leaf, Records
  <2>2. held[Depth].before.ino = Leaf /\ held[Depth].before.ctime = ctime[Leaf]
    BY <2>1 DEF Stamp
  <2>3. Ticks
    BY FsAssumption DEF Untouched
  <2>4. QED
    BY <2>2, <2>3 DEF Untouched
<1>4. \A k \in 1 .. Depth : Untouched(held[k].before)
  BY <1>3, FsAssumption DEF StampOf
<1>5. \A k \in 1 .. Depth : Untouched(ParentStamp(k))
  <2> SUFFICES ASSUME NEW k \in 1 .. Depth
               PROVE  Untouched(ParentStamp(k))
    OBVIOUS
  <2>1. k - 1 \in 0 .. Depth - 1 /\ ParentStamp(k) = StampOf(k - 1)
    BY FsAssumption DEF ParentStamp, StampOf
  <2>2. QED
    BY <2>1
<1>6. Trusted(Stamp(Root), 0)
  <2>1. Untouched(rootBefore)
    BY FsAssumption DEF StampOf
  <2>2. QED
    BY <1>1, <2>1 DEF Faithful
<1>7. ASSUME NEW k \in Level
      PROVE  entry[Parent(k)] = held[k].fd /\ Trusted(Stamp(held[k].fd), k)
  BY <1>1, <1>4, <1>5, <1>7 DEF Chain, Faithful, Level
<1>8. data = content[Leaf]
  <2>1. /\ data \in Seq(Byte) /\ content[Leaf] \in Seq(Byte)
        /\ Size(Leaf) = Len(content[Leaf])
    BY LeafIsFile DEF IInv, TypeOK, AfterLeaf, Rechecking
  <2>2. Len(data) = Len(content[Leaf])
    BY <2>1 DEF IInv, DataInv, Rechecking, Stamp
  <2>3. \A j \in 1 .. Len(data) : data[j] = content[Leaf][j]
    BY <1>3 DEF IInv, DataInv, AfterLeaf, Rechecking
  <2>4. QED
    BY <2>1, <2>2, <2>3
<1>9. QED
  BY <1>6, <1>7, <1>8 DEF AtomicReadNow

LEMMA RecheckFdStep ==
  ASSUME IInv, UNCHANGED fsVars, RecheckFd
  PROVE  IInv'
<1>1. CASE Fail("FS_CHANGED")
  BY <1>1, FailStep DEF Codes
<1>2. ASSUME Stamp(held[level].fd) = held[level].before, pc' = "recheck_name",
             genuine' = IF level = Depth THEN AtomicReadNow ELSE genuine,
             UNCHANGED <<level, before, rootBefore, held, fds, data, result, since>>
      PROVE  IInv'
  <2>1. TypeOK'
    BY <1>2 DEF IInv, TypeOK, fsVars, PCs, AtomicReadNow
  <2>2. ClockInv' /\ RootInv' /\ BeforeInv'
    BY <1>2, ReaderKeeps DEF IInv, ClockInv, RootInv, BeforeInv, RecheckFd,
       Walking, AfterLeaf, Rechecking, Trusted, Owners, fsVars
  <2>3. AtomicInv'
    BY <1>2 DEF IInv, AtomicInv, ReadIsAtomic, GenuineInv, RecheckFd
  <2>4. HeldInv'
    BY <1>2, ChainKept DEF IInv, HeldInv, RecheckFd, Walking, AfterLeaf, Rechecking
  <2>5. DataInv'
    BY <1>2 DEF IInv, DataInv, RecheckFd, Walking, AfterLeaf, Rechecking,
       Untouched, Leaf, fsVars
  <2>6. genuine' \/ \E k \in 0 .. level - 1 : ~ Untouched(StampOf(k))
    <3>1. CASE level = Depth
      BY <1>2, <3>1, UntouchedIsAtomic DEF RecheckFd, Leaf
    <3>2. CASE level # Depth /\ Ticks
      <4>1. level < Depth /\ level \in 1 .. Len(held) /\ level \in Nat
        BY <3>2, FsAssumption DEF IInv, TypeOK, Level, HeldInv, RecheckFd, AfterLeaf, Rechecking
      <4>2. Covered(level) /\ genuine' = genuine
        BY <1>2, <3>2, <4>1 DEF IInv, GenuineInv, RecheckFd
      <4>3. Untouched(StampOf(level))
        <5>0. held[level] \in Records
          BY <4>1 DEF IInv, TypeOK
        <5>1. held[level].fd \in Inode
          BY <5>0 DEF Records
        <5>2. held[level].before.ino = held[level].fd
              /\ held[level].before.ctime = ctime[held[level].fd]
          BY <1>2, <5>1 DEF Stamp
        <5>3. QED
          BY <3>2, <4>1, <5>2 DEF StampOf, Untouched
      <4>4. QED
        BY <4>1, <4>2, <4>3 DEF Covered
    <3>3. CASE ~ Ticks
      <4>1. 0 \in 0 .. level - 1
        BY FsAssumption DEF IInv, TypeOK, Level
      <4>2. QED
        BY <3>3, <4>1 DEF Untouched
    <3>4. QED
      BY <3>1, <3>2, <3>3
  <2>7. GenuineInv'
    <3>1. \A k : Untouched(StampOf(k))' <=> Untouched(StampOf(k))
      BY <1>2 DEF Untouched, StampOf, fsVars
    <3>2. result' = "pending"
      BY <1>2 DEF IInv, GenuineInv, RecheckFd
    <3>3. QED
      BY <1>2, <2>6, <3>1, <3>2 DEF GenuineInv, Covered
  <2>8. QED
    BY <2>1, <2>2, <2>3, <2>4, <2>5, <2>7 DEF IInv
<1>3. QED
  BY <1>1, <1>2 DEF RecheckFd

LEMMA RecheckNameStep ==
  ASSUME IInv, UNCHANGED fsVars, RecheckName
  PROVE  IInv'
<1>1. CASE \E code \in Codes \ {"bytes"} : Fail(code)
  BY <1>1, FailStep
<1>2. ASSUME level' = IF level = 1 THEN 1 ELSE level - 1,
             pc' = IF level = 1 THEN "recheck_root" ELSE "recheck_fd",
             UNCHANGED <<before, rootBefore, held, fds, data, result, since, genuine>>
      PROVE  IInv'
  <2>1. TypeOK'
    BY <1>2, FsAssumption DEF IInv, TypeOK, fsVars, PCs, Level
  <2>2. ClockInv' /\ RootInv' /\ BeforeInv'
    BY <1>2, ReaderKeeps DEF IInv, ClockInv, RootInv, BeforeInv, RecheckName,
       Walking, AfterLeaf, Rechecking, Trusted, Owners, fsVars
  <2>3. AtomicInv'
    BY <1>2 DEF IInv, AtomicInv, ReadIsAtomic
  <2>4. HeldInv'
    BY <1>2, ChainKept DEF IInv, HeldInv, RecheckName, Walking, AfterLeaf, Rechecking
  <2>5. DataInv'
    BY <1>2 DEF IInv, DataInv, RecheckName, Walking, AfterLeaf, Rechecking,
       Untouched, Leaf, fsVars
  <2>6. GenuineInv'
    <3>1. \A k : Untouched(StampOf(k))' <=> Untouched(StampOf(k))
      BY <1>2 DEF Untouched, StampOf, fsVars
    <3>2. Covered(level - 1) /\ genuine' = genuine
      BY <1>2 DEF IInv, GenuineInv, RecheckName
    <3>3. result' = "pending"
      BY <1>2 DEF IInv, GenuineInv, RecheckName
    <3>4. CASE level = 1
      BY <1>2, <3>1, <3>2, <3>3, <3>4 DEF GenuineInv, Covered
    <3>5. CASE level # 1
      BY <1>2, <3>1, <3>2, <3>3, <3>5 DEF GenuineInv, Covered
    <3>6. QED
      BY <3>4, <3>5
  <2>7. QED
    BY <2>1, <2>2, <2>3, <2>4, <2>5, <2>6 DEF IInv
<1>3. QED
  BY <1>1, <1>2 DEF RecheckName, Codes

LEMMA RecheckRootStep ==
  ASSUME IInv, UNCHANGED fsVars, RecheckRoot
  PROVE  IInv'
<1>1. CASE Fail("FS_CHANGED")
  BY <1>1, FailStep DEF Codes
<1>2. ASSUME Stamp(Root) = rootBefore, pc' = "unwind", result' = "bytes",
             UNCHANGED <<level, before, rootBefore, held, fds, data, since, genuine>>
      PROVE  IInv'
  <2>1. Ticks => genuine'
    <3>1. genuine \/ ~ Untouched(rootBefore)
      BY DEF IInv, GenuineInv, RecheckRoot, Covered, StampOf
    <3>2. Root \in Inode
      BY FsAssumption DEF Dir
    <3>3. Ticks => Untouched(rootBefore)
      BY <1>2, <3>2 DEF Untouched, Stamp
    <3>4. QED
      BY <1>2, <3>1, <3>3
  <2>2. TypeOK'
    BY <1>2 DEF IInv, TypeOK, fsVars, PCs, Codes
  <2>3. ClockInv' /\ AtomicInv'
    BY <2>1 DEF IInv, ClockInv, AtomicInv, ReadIsAtomic, fsVars
  <2>4. RootInv' /\ BeforeInv' /\ HeldInv' /\ DataInv' /\ GenuineInv'
    BY <1>2 DEF RootInv, BeforeInv, HeldInv, DataInv, GenuineInv, Walking, Rechecking, AfterLeaf
  <2>5. QED
    BY <2>2, <2>3, <2>4 DEF IInv
<1>3. QED
  BY <1>1, <1>2 DEF RecheckRoot

LEMMA UnwindStep ==
  ASSUME IInv, UNCHANGED fsVars, Unwind
  PROVE  IInv'
<1>1. fds' \in Seq(Inode) /\ pc' \in {"idle", "unwind"}
  BY DEF IInv, TypeOK, Unwind
<1>2. TypeOK'
  BY <1>1 DEF IInv, TypeOK, Unwind, fsVars, PCs
<1>3. ClockInv' /\ AtomicInv'
  BY DEF IInv, ClockInv, AtomicInv, ReadIsAtomic, Unwind, fsVars
<1>4. RootInv' /\ BeforeInv' /\ HeldInv' /\ DataInv' /\ GenuineInv'
  BY <1>1 DEF RootInv, BeforeInv, HeldInv, DataInv, GenuineInv, Walking, Rechecking, AfterLeaf
<1>5. QED
  BY <1>2, <1>3, <1>4 DEF IInv
(* A change of the file system can only make inodes touched, never         *)
(* untouched, so what a stamp vouches for stays vouched for.               *)
LEMMA EnvironmentKeeps ==
  ASSUME IInv, Environment
  PROVE  IInv'
<1>1. UNCHANGED readerVars
  BY DEF Environment
<1>2. now' \in Nat /\ now <= now' /\ (Ticks => now < now')
  BY EnvironmentStep DEF IInv
<1>3. PICK x \in Inode :
        /\ ctime' = [ctime EXCEPT ![x] = now']
        /\ \A i \in Inode \ {x} :
             /\ Stamp(i)' = Stamp(i)
             /\ i \in Dir => entry'[i] = entry[i]
             /\ i \in File => content'[i] = content[i]
  BY EnvironmentStep DEF IInv
<1>4. TypeOK'
  <2>1. ctime' \in [Inode -> Nat]
    BY <1>2, <1>3 DEF IInv, TypeOK
  <2>2. /\ entry' \in [Dir -> Inode \cup {Absent}]
        /\ meta' \in [Inode -> Meta]
        /\ content' \in [File -> Contents]
    <3>1. ASSUME NEW d \in Dir, NEW i \in Fits[d] \cup {Absent}, Rebind(d, i)
          PROVE  entry' \in [Dir -> Inode \cup {Absent}]
      <4>1. i \in Inode \cup {Absent}
        BY FsAssumption
      <4>2. QED
        BY <3>1, <4>1 DEF IInv, TypeOK, Rebind
    <3>2. ASSUME NEW i \in Inode, NEW m \in Meta, Regrant(i, m)
          PROVE  meta' \in [Inode -> Meta]
      BY <3>2 DEF IInv, TypeOK, Regrant
    <3>3. ASSUME NEW f \in File, NEW c \in Contents, WriteFile(f, c)
          PROVE  content' \in [File -> Contents]
      BY <3>3 DEF IInv, TypeOK, WriteFile
    <3>4. QED
      BY <3>1, <3>2, <3>3 DEF IInv, TypeOK, Environment, Rebind, Regrant, WriteFile
  <2>3. QED
    BY <1>1, <1>2, <2>1, <2>2 DEF IInv, TypeOK, readerVars
<1>5. ClockInv'
  BY <1>2, <1>3 DEF IInv, ClockInv, TypeOK
<1>6. ASSUME NEW s \in Stamps, Faithful(s)
      PROVE  /\ Faithful(s)'
             /\ Untouched(s)' =>
                  /\ Untouched(s)
                  /\ s.ino \in Dir => entry'[s.ino] = entry[s.ino]
                  /\ s.ino \in File => content'[s.ino] = content[s.ino]
  BY <1>6, FaithfulStep DEF IInv
<1>7. \A k : Parent(k)' = Parent(k) /\ ParentStamp(k)' = ParentStamp(k) /\ StampOf(k)' = StampOf(k)
  BY <1>1 DEF readerVars, Parent, ParentStamp, StampOf
<1>8. RootInv'
  <2> SUFFICES ASSUME pc \in Walking \cup AfterLeaf
               PROVE  rootBefore.ino = Root /\ Faithful(rootBefore)' /\ Trusted(rootBefore, 0)
    BY <1>1 DEF RootInv, readerVars, Trusted, Owners
  <2>1. rootBefore \in Stamps /\ Faithful(rootBefore) /\ rootBefore.ino = Root /\ Trusted(rootBefore, 0)
    BY DEF IInv, TypeOK, RootInv
  <2>2. Faithful(rootBefore)'
    BY <1>1, <1>6, <2>1 DEF readerVars, Faithful, Untouched
  <2>3. QED
    BY <2>1, <2>2
<1>9. ASSUME pc \in Walking \cup AfterLeaf, NEW k \in Level, k <= Len(held) + 1,
             Untouched(ParentStamp(k))'
      PROVE  Untouched(ParentStamp(k)) /\ entry'[Parent(k)] = entry[Parent(k)]
  <2> DEFINE p == ParentStamp(k)
  <2>1. p \in Stamps /\ Faithful(p) /\ p.ino = Parent(k)
    <3>1. CASE k = 1
      BY <1>9, <3>1 DEF IInv, TypeOK, RootInv, ParentStamp, Parent
    <3>2. CASE k # 1
      <4>1. k - 1 \in 1 .. Len(held)
        BY <1>9, <3>2 DEF IInv, TypeOK, Level
      <4>2. held[k - 1] \in Records
        BY <4>1 DEF IInv, TypeOK
      <4>3. QED
        BY <1>9, <3>2, <4>1, <4>2 DEF IInv, HeldInv, Chain, ParentStamp, Parent, Records
    <3>3. QED
      BY <3>1, <3>2
  <2>2. Parent(k) \in Dir
    BY <1>9, ParentIsDir DEF IInv
  <2>3. Untouched(p)'
    BY <1>9
  <2>4. p' = p
    BY <1>7
  <2>5. Ticks /\ ctime'[p.ino] = p.ctime
    BY <2>3, <2>4 DEF Untouched
  <2>6. Untouched(p) /\ (p.ino \in Dir => entry'[p.ino] = entry[p.ino])
    <3> HIDE DEF p
    <3>1. \A s \in Stamps : Faithful(s) /\ Ticks /\ ctime'[s.ino] = s.ctime =>
            Untouched(s) /\ (s.ino \in Dir => entry'[s.ino] = entry[s.ino])
      BY <1>6 DEF Untouched
    <3>2. QED
      BY <2>1, <2>5, <3>1
  <2>7. QED
    BY <2>1, <2>2, <2>6
<1>10. pc \in Walking \cup AfterLeaf => Chain'
  <2> SUFFICES ASSUME pc \in Walking \cup AfterLeaf, NEW k \in 1 .. Len(held)
               PROVE  /\ held[k].fd = held[k].before.ino
                      /\ Faithful(held[k].before)'
                      /\ Trusted(held[k].before, k)
                      /\ Untouched(ParentStamp(k))' => entry'[Parent(k)] = held[k].fd
    BY <1>1, <1>7 DEF Chain, readerVars, Trusted, Owners
  <2>0. Chain /\ (Len(held) = level - 1 \/ Len(held) = Depth) /\ level \in Level
    BY DEF IInv, HeldInv, TypeOK
  <2>1. Chain /\ k \in Level
    BY <2>0, FsAssumption DEF Level
  <2>2. held[k] \in Records
    BY DEF IInv, TypeOK
  <2>3. held[k].before \in Stamps /\ Faithful(held[k].before)
    BY <2>1, <2>2 DEF Records, Chain
  <2>4. Faithful(held[k].before)'
    BY <1>1, <1>6, <2>3 DEF readerVars, Faithful, Untouched
  <2>5. Untouched(ParentStamp(k))' => entry'[Parent(k)] = held[k].fd
    BY <1>9, <2>1 DEF Chain, Level
  <2>6. QED
    BY <2>1, <2>4, <2>5 DEF Chain
<1>11. HeldInv'
  BY <1>1, <1>10 DEF IInv, HeldInv, readerVars
<1>12. BeforeInv'
  <2>1. ASSUME pc \in {"open", "fstat"}
        PROVE  /\ Faithful(before)'
               /\ Untouched(ParentStamp(level))' => entry'[Parent(level)] = before.ino
    <3>1. before \in Stamps /\ Faithful(before) /\ level \in Level /\ level <= Len(held) + 1
      BY <2>1 DEF IInv, TypeOK, BeforeInv, HeldInv, Walking, Level
    <3>2. Faithful(before)'
      BY <1>1, <1>6, <3>1 DEF readerVars, Faithful, Untouched
    <3>3. Untouched(ParentStamp(level)) => entry[Parent(level)] = before.ino
      BY <2>1 DEF IInv, BeforeInv
    <3>4. ASSUME Untouched(ParentStamp(level))'
          PROVE  entry'[Parent(level)] = before.ino
      <4> DEFINE k == level
      <4>1. level' = level
        BY <1>1 DEF readerVars
      <4>2. ASSUME NEW j \in Level, j = level
            PROVE  Untouched(ParentStamp(j))'
        BY <3>4, <4>1, <4>2
      <4>3. QED
        BY <1>9, <2>1, <3>1, <3>3, <4>2 DEF Walking
    <3>5. QED
      BY <3>2, <3>4
  <2>2. QED
    BY <1>1, <1>7, <2>1 DEF IInv, BeforeInv, readerVars, Trusted, Owners, Parent
<1>13. DataInv'
  <2>1. ASSUME pc \in AfterLeaf, Untouched(held[Depth].before)'
        PROVE  Untouched(held[Depth].before) /\ content'[Leaf] = content[Leaf]
    <3>1. Depth \in 1 .. Len(held)
      BY <2>1, FsAssumption DEF IInv, HeldInv
    <3>2. held[Depth] \in Records
      BY <3>1 DEF IInv, TypeOK
    <3>3. held[Depth].before \in Stamps /\ Faithful(held[Depth].before) /\ held[Depth].before.ino = Leaf
      BY <2>1, <3>1, <3>2 DEF Records, IInv, HeldInv, Chain, Leaf
    <3>4. Leaf \in File
      BY <2>1, LeafIsFile DEF IInv
    <3>5. Ticks /\ ctime'[held[Depth].before.ino] = held[Depth].before.ctime
      BY <1>1, <2>1 DEF Untouched, readerVars
    <3>6. QED
      BY <1>6, <3>3, <3>4, <3>5 DEF Untouched
  <2>2. QED
    BY <1>1, <2>1 DEF IInv, DataInv, readerVars, Leaf, Walking, AfterLeaf, Rechecking
<1>14. GenuineInv'
  <2>1. ASSUME NEW j \in 0 .. Depth, pc \in Rechecking, ~ Untouched(StampOf(j))
        PROVE  ~ Untouched(StampOf(j))'
    <3>1. StampOf(j) \in Stamps /\ Faithful(StampOf(j))
      <4>1. CASE j = 0
        BY <2>1, <4>1 DEF IInv, TypeOK, RootInv, StampOf, AfterLeaf
      <4>2. CASE j # 0
        <5>1. j \in 1 .. Len(held)
          BY <2>1, <4>2, FsAssumption DEF IInv, HeldInv, AfterLeaf
        <5>2. held[j] \in Records
          BY <5>1 DEF IInv, TypeOK
        <5>3. QED
          BY <2>1, <4>2, <5>1, <5>2 DEF IInv, HeldInv, Chain, StampOf, Records, AfterLeaf
      <4>3. QED
        BY <4>1, <4>2
    <3>2. StampOf(j)' = StampOf(j)
      BY <1>7
    <3>3. \A s \in Stamps : Faithful(s) /\ Ticks /\ ctime'[s.ino] = s.ctime => Untouched(s)
      BY <1>6 DEF Untouched
    <3>4. ~ (Ticks /\ ctime'[StampOf(j).ino] = StampOf(j).ctime)
      BY <2>1, <3>1, <3>3
    <3>5. QED
      BY <3>2, <3>4 DEF Untouched
  <2>2. ASSUME NEW k \in 0 .. Depth, pc \in Rechecking, Covered(k)
        PROVE  Covered(k)'
    BY <1>1, <2>1, <2>2, FsAssumption DEF Covered, readerVars
  <2>3. level \in 1 .. Depth /\ level' = level
    BY <1>1 DEF IInv, TypeOK, Level, readerVars
  <2>4. pc = "recheck_fd" /\ level < Depth => Covered(level)'
    BY <2>2, <2>3, FsAssumption DEF IInv, GenuineInv, Rechecking, Covered
  <2>5. pc = "recheck_name" => Covered(level - 1)'
    BY <2>2, <2>3, FsAssumption DEF IInv, GenuineInv, Rechecking, Covered
  <2>6. pc = "recheck_root" => Covered(0)'
    BY <2>2, FsAssumption DEF IInv, GenuineInv, Rechecking
  <2>7. QED
    BY <1>1, <2>4, <2>5, <2>6 DEF IInv, GenuineInv, readerVars
<1>15. AtomicInv'
  BY <1>1 DEF IInv, AtomicInv, ReadIsAtomic, readerVars
<1>16. QED
  BY <1>4, <1>5, <1>8, <1>11, <1>12, <1>13, <1>14, <1>15 DEF IInv
-----------------------------------------------------------------------------
LEMMA InitIInv == Init => IInv
<1> SUFFICES ASSUME Init
             PROVE  IInv
  OBVIOUS
<1>1. NoStamp \in Stamps
  BY FsAssumption DEF NoStamp, Stamps, Meta, Dir
<1>2. TypeOK
  <2>1. pc \in PCs /\ result \in Codes /\ genuine \in BOOLEAN /\ now \in Nat /\ since \in Nat
    BY DEF Init, PCs, Codes
  <2>2. held \in Seq(Records) /\ fds \in Seq(Inode) /\ data \in Seq(Byte)
    BY DEF Init
  <2>3. level \in Level /\ before \in Stamps /\ rootBefore \in Stamps
    BY <1>1, FsAssumption DEF Init, Level
  <2>4. ctime \in [Inode -> Nat]
    BY DEF Init
  <2>5. QED
    BY <2>1, <2>2, <2>3, <2>4 DEF Init, TypeOK
<1>3. ClockInv /\ AtomicInv
  BY DEF Init, ClockInv, AtomicInv, ReadIsAtomic
<1>4. RootInv /\ BeforeInv /\ HeldInv /\ DataInv /\ GenuineInv
  BY DEF Init, RootInv, BeforeInv, HeldInv, DataInv, GenuineInv, Walking, Rechecking, AfterLeaf
<1>5. QED
  BY <1>2, <1>3, <1>4 DEF IInv

LEMMA NextIInv ==
  ASSUME IInv, [Next]_vars
  PROVE  IInv'
<1>1. CASE Environment
  BY <1>1, EnvironmentKeeps
<1>2. CASE Reader
  <2>1. UNCHANGED fsVars
    BY <1>2 DEF Reader
  <2>2. ASSUME NEW code \in Rejections \cup {"pending"}, Call(code)
        PROVE  IInv'
    BY <2>1, <2>2, CallStep
  <2>3. CASE IoError
    BY <2>1, <2>3, FailStep DEF IoError, Codes
  <2>4. CASE ReaderStep
    BY <2>1, <2>4, OpenRootStep, LstatStep, OpenStep, FstatStep, ReadStep, EndReadStep,
       RecheckFdStep, RecheckNameStep, RecheckRootStep, UnwindStep DEF ReaderStep
  <2>5. QED
    BY <1>2, <2>2, <2>3, <2>4 DEF Reader
<1>3. CASE UNCHANGED vars
  <2>1. UNCHANGED fsVars /\ UNCHANGED readerVars
    BY <1>3 DEF vars, fsVars, readerVars
  <2>2. TypeOK' /\ ClockInv' /\ AtomicInv'
    BY <2>1 DEF IInv, TypeOK, ClockInv, AtomicInv, ReadIsAtomic, fsVars, readerVars
  <2>3. RootInv' /\ BeforeInv'
    BY <2>1 DEF IInv, RootInv, BeforeInv, Faithful, Untouched, Stamp, Size, Parent, ParentStamp,
       Trusted, Owners, fsVars, readerVars
  <2>4. HeldInv'
    BY <2>1, ChainKept DEF IInv, HeldInv, readerVars
  <2>5. DataInv' /\ GenuineInv'
    BY <2>1 DEF IInv, DataInv, GenuineInv, Covered, Untouched, StampOf, Leaf, fsVars, readerVars
  <2>6. QED
    BY <2>2, <2>3, <2>4, <2>5 DEF IInv
<1>4. QED
  BY <1>1, <1>2, <1>3 DEF Next

(* TypeOK is an invariant of the reader whatever the file system does.     *)
THEOREM TypeCorrect == Spec => []TypeOK
<1>1. IInv => TypeOK
  BY DEF IInv
<1>2. IInv /\ [Next]_vars => IInv'
  BY NextIInv
<1>3. QED
  BY <1>1, <1>2, InitIInv, PTL DEF Spec

(* Whatever is renamed, chowned or rewritten between the system calls of   *)
(* _read_at, bytes it returns are those of one atomic read of the whole    *)
(* trusted path (operator_fs.py:81-123).                                   *)
THEOREM Atomicity ==
  ASSUME 0 \notin Tick
  PROVE  Spec => []ReadIsAtomic
<1>1. IInv => ReadIsAtomic
  BY DEF IInv, AtomicInv, Ticks
<1>2. IInv /\ [Next]_vars => IInv'
  BY NextIInv
<1>3. QED
  BY <1>1, <1>2, InitIInv, PTL DEF Spec
-----------------------------------------------------------------------------
(* No change since the call began: no component held or being opened has   *)
(* been touched, and the one just opened is the one its lstat saw.         *)
Quiet == now = since

QuietInv ==
  /\ since <= now
  /\ Quiet =>
       /\ pc \in Walking \cup AfterLeaf =>
            /\ Untouched(rootBefore)
            /\ \A k \in 1 .. Len(held) : Untouched(held[k].before)
       /\ pc \in {"open", "fstat"} => Untouched(before)
       /\ pc = "fstat" => Opened = before.ino
  /\ NoFalseAlarm

(* While all is quiet, every name is bound as the walk found it. *)
LEMMA QuietLookup ==
  ASSUME IInv, QuietInv, Quiet, pc \in Walking \cup AfterLeaf, NEW k \in Level, k <= Len(held) + 1
  PROVE  Untouched(ParentStamp(k))
<1>1. CASE k = 1
  BY <1>1 DEF QuietInv, ParentStamp
<1>2. CASE k # 1
  <2>1. k - 1 \in 1 .. Len(held)
    BY <1>2 DEF IInv, TypeOK, Level
  <2>2. QED
    BY <1>2, <2>1 DEF QuietInv, ParentStamp
<1>3. QED
  BY <1>1, <1>2

(* What a failing call must show: if it raised an alarm, it was not quiet. *)
LEMMA AlarmStep ==
  ASSUME IInv, QuietInv, UNCHANGED fsVars, NEW code \in Codes, Fail(code),
         code \in {"FS_CHANGED", "FS_SYMLINK", "FS_NOT_DIRECTORY"} => ~ Quiet,
         code \in {"FS_SIZE", "FS_MISSING"} /\ Len(held) = Depth => ~ Quiet
  PROVE  QuietInv'
BY DEF Fail, QuietInv, Quiet, NoFalseAlarm, Alarm, fsVars, Walking, AfterLeaf, Rechecking

LEMMA QuietLstat ==
  ASSUME Ticks, IInv, QuietInv, UNCHANGED fsVars, Lstat
  PROVE  QuietInv'
<1> DEFINE i == entry[Parent(level)]
<1>1. i \in Inode \cup {Absent} /\ Len(held) = level - 1 /\ level \in 1 .. Depth
  BY ParentIsDir DEF IInv, HeldInv, Lstat, Walking, AfterLeaf, TypeOK, Level
<1>2. Len(held) # Depth
  BY <1>1, FsAssumption
<1>3. CASE \E code \in {"FS_MISSING", "FS_METADATA", "FS_SIZE"} : Fail(code)
  BY <1>2, <1>3, AlarmStep DEF Codes
<1>4. ASSUME i # Absent, before' = Stamp(i), pc' = "open",
             UNCHANGED <<level, rootBefore, held, fds, data, result, since, genuine>>
      PROVE  QuietInv'
  <2>1. Untouched(before)'
    BY <1>1, <1>4 DEF Ticks, Untouched, Stamp, fsVars
  <2>2. QED
    BY <1>4, <2>1 DEF QuietInv, Quiet, NoFalseAlarm, Alarm, Lstat, Untouched, fsVars,
       Walking, AfterLeaf, Rechecking
<1>5. QED
  BY <1>3, <1>4 DEF Lstat

LEMMA QuietOpen ==
  ASSUME IInv, QuietInv, UNCHANGED fsVars, Open
  PROVE  QuietInv'
<1> DEFINE i == entry[Parent(level)]
<1>1. /\ i \in Inode \cup {Absent} /\ Len(held) = level - 1 /\ level \in 1 .. Depth
      /\ Trusted(before, level)
  BY ParentIsDir DEF IInv, HeldInv, BeforeInv, Open, Walking, AfterLeaf, TypeOK, Level
<1>2. Len(held) # Depth
  BY <1>1, FsAssumption
<1>3. Quiet => i = before.ino
  BY <1>1, QuietLookup DEF IInv, BeforeInv, Open, Walking, Level
<1>4. CASE Fail("FS_MISSING")
  BY <1>2, <1>4, AlarmStep DEF Codes
<1>5. CASE Kind[i] = "link" /\ Fail("FS_SYMLINK")
  BY <1>1, <1>3, <1>5, AlarmStep DEF Codes, Trusted
<1>6. CASE Kind[i] = "reg" /\ level < Depth /\ Fail("FS_NOT_DIRECTORY")
  BY <1>1, <1>3, <1>6, FsAssumption, AlarmStep DEF Codes, Trusted
<1>7. ASSUME i # Absent, fds' = Append(fds, i), pc' = "fstat",
             UNCHANGED <<level, before, rootBefore, held, data, result, since, genuine>>
      PROVE  QuietInv'
  <2>1. Opened' = i
    BY <1>1, <1>7 DEF Opened, IInv, TypeOK
  <2>2. QED
    BY <1>3, <1>7, <2>1 DEF QuietInv, Quiet, NoFalseAlarm, Alarm, Open, Untouched, fsVars,
       Walking, AfterLeaf, Rechecking
<1>8. QED
  BY <1>4, <1>5, <1>6, <1>7 DEF Open

LEMMA QuietFstat ==
  ASSUME IInv, QuietInv, UNCHANGED fsVars, Fstat
  PROVE  QuietInv'
<1>1. /\ Len(held) = level - 1 /\ Faithful(before) /\ Trusted(before, level)
      /\ Quiet => Untouched(before) /\ Opened = before.ino
      /\ result = "pending" /\ held \in Seq(Records) /\ level \in Level
  BY DEF IInv, TypeOK, HeldInv, BeforeInv, GenuineInv, QuietInv, Fstat, Walking
<1>2. CASE Fail("FS_METADATA")
  BY <1>2, AlarmStep DEF Codes
<1>3. CASE Stamp(Opened) # before /\ Fail("FS_CHANGED")
  BY <1>1, <1>3, AlarmStep DEF Codes, Faithful
<1>4. ASSUME held' = Append(held, [fd |-> Opened, before |-> before]),
             pc' = IF level = Depth THEN "read" ELSE "lstat",
             UNCHANGED <<before, rootBefore, fds, data, result, since, genuine>>
      PROVE  QuietInv'
  <2>1. ASSUME NEW k \in 1 .. Len(held'), Quiet
        PROVE  Untouched(held'[k].before)
    <3>1. CASE k \in 1 .. Len(held)
      BY <1>1, <1>4, <2>1, <3>1 DEF QuietInv, Fstat, Walking
    <3>2. CASE k \notin 1 .. Len(held)
      BY <1>1, <1>4, <2>1, <3>2
    <3>3. QED
      BY <3>1, <3>2
  <2>2. QED
    BY <1>1, <1>4, <2>1 DEF QuietInv, Quiet, NoFalseAlarm, Alarm, Fstat, Untouched, fsVars,
       Walking, AfterLeaf, Rechecking
<1>5. QED
  BY <1>2, <1>3, <1>4 DEF Fstat

LEMMA QuietEndRead ==
  ASSUME IInv, QuietInv, UNCHANGED fsVars, EndRead
  PROVE  QuietInv'
<1>1. /\ Len(held) = Depth /\ before = held[Depth].before /\ before.size <= Limit
      /\ Leaf \in File /\ Size(Leaf) = Len(content[Leaf]) /\ content[Leaf] \in Seq(Byte)
      /\ data \in Seq(Byte) /\ Chain /\ Limit \in Nat
  BY LeafIsFile, FsAssumption DEF IInv, TypeOK, HeldInv, EndRead, AfterLeaf
<1>2. ASSUME Quiet
      PROVE  Len(data) <= Size(Leaf) /\ before.size = Size(Leaf)
  <2>1. Depth \in 1 .. Len(held) /\ Untouched(held[Depth].before)
    BY <1>1, <1>2, FsAssumption DEF QuietInv, EndRead, AfterLeaf
  <2>2. Stamp(Leaf) = before
    BY <1>1, <2>1 DEF Chain, Faithful, Leaf
  <2>3. before.size = Size(Leaf)
    BY <2>2 DEF Stamp
  <2>4. QED
    BY <1>1, <2>1, <2>3 DEF IInv, DataInv, EndRead, AfterLeaf
<1>3. CASE Fail("FS_SIZE")
  <2>1. ~ Quiet \/ (Len(data) <= Limit /\ Len(data) = before.size)
    BY <1>1, <1>2 DEF EndRead
  <2>2. ~ Quiet
    BY <1>1, <1>3, <2>1 DEF EndRead, Fail
  <2>3. QED
    BY <1>3, <2>2, AlarmStep DEF Codes
<1>4. CASE pc' = "recheck_fd" /\
           UNCHANGED <<level, before, rootBefore, held, fds, data, result, since, genuine>>
  BY <1>4 DEF QuietInv, Quiet, NoFalseAlarm, Alarm, EndRead, Untouched, fsVars,
     Walking, AfterLeaf, Rechecking
<1>5. QED
  BY <1>3, <1>4 DEF EndRead

LEMMA QuietRecheck ==
  ASSUME IInv, QuietInv, UNCHANGED fsVars, RecheckFd \/ RecheckName \/ RecheckRoot
  PROVE  QuietInv'
<1>1. /\ level \in Level /\ level \in 1 .. Len(held) /\ Len(held) = Depth /\ Chain
      /\ rootBefore.ino = Root /\ Faithful(rootBefore) /\ result = "pending"
  BY FsAssumption DEF IInv, TypeOK, Level, HeldInv, RootInv, GenuineInv, RecheckFd, RecheckName,
     RecheckRoot, AfterLeaf, Rechecking
<1>2. ASSUME Quiet
      PROVE  /\ entry[Parent(level)] = held[level].fd
             /\ Stamp(held[level].fd) = held[level].before
             /\ Stamp(Root) = rootBefore
  <2>1. pc \in AfterLeaf
    BY DEF RecheckFd, RecheckName, RecheckRoot, AfterLeaf, Rechecking
  <2>2. Untouched(rootBefore) /\ Untouched(held[level].before)
    BY <1>1, <1>2, <2>1 DEF QuietInv
  <2>3. Untouched(ParentStamp(level))
    <3>1. level <= Len(held) + 1
      BY <1>1
    <3>2. QED
      BY <1>1, <1>2, <2>1, <3>1, QuietLookup
  <2>4. QED
    BY <1>1, <2>2, <2>3 DEF Chain, Faithful
<1>3. held[level].fd # Absent
  <2>1. held[level] \in Records
    BY <1>1 DEF IInv, TypeOK
  <2>2. QED
    BY <2>1, FsAssumption DEF Records
<1>4. ASSUME NEW code \in {"FS_CHANGED", "FS_MISSING"}, Fail(code), ~ Quiet
      PROVE  QuietInv'
  BY <1>4, AlarmStep DEF Codes
<1>5. CASE RecheckFd
  <2>1. CASE Stamp(held[level].fd) # held[level].before /\ Fail("FS_CHANGED")
    BY <1>2, <1>4, <2>1
  <2>2. CASE pc' = "recheck_name" /\ UNCHANGED <<before, rootBefore, held, fds, result, since>>
    BY <1>5, <2>2 DEF QuietInv, Quiet, NoFalseAlarm, Alarm, RecheckFd, Untouched, fsVars,
       Walking, AfterLeaf, Rechecking
  <2>3. QED
    BY <1>5, <2>1, <2>2 DEF RecheckFd
<1>6. CASE RecheckName
  <2> DEFINE i == entry[Parent(level)]
  <2>1. CASE i = Absent /\ Fail("FS_MISSING")
    BY <1>2, <1>3, <1>4, <2>1
  <2>2. CASE Stamp(i) # held[level].before /\ Fail("FS_CHANGED")
    BY <1>2, <1>4, <2>2
  <2>3. CASE /\ pc' = IF level = 1 THEN "recheck_root" ELSE "recheck_fd"
             /\ UNCHANGED <<before, rootBefore, held, fds, data, result, since, genuine>>
    BY <1>6, <2>3 DEF QuietInv, Quiet, NoFalseAlarm, Alarm, RecheckName, Untouched, fsVars,
       Walking, AfterLeaf, Rechecking
  <2>4. QED
    BY <1>6, <2>1, <2>2, <2>3 DEF RecheckName
<1>7. CASE RecheckRoot
  <2>1. CASE Stamp(Root) # rootBefore /\ Fail("FS_CHANGED")
    BY <1>2, <1>4, <2>1
  <2>2. CASE pc' = "unwind" /\ result' = "bytes" /\ UNCHANGED <<before, rootBefore, held, since>>
    BY <2>2 DEF QuietInv, Quiet, NoFalseAlarm, Alarm, fsVars, Walking, AfterLeaf, Rechecking
  <2>3. QED
    BY <1>7, <2>1, <2>2 DEF RecheckRoot
<1>8. QED
  BY <1>5, <1>6, <1>7

LEMMA NextQuietInv ==
  ASSUME Ticks, IInv, QuietInv, [Next]_vars
  PROVE  QuietInv'
<1>1. CASE Environment
  <2>1. now' \in Nat /\ now < now' /\ now \in Nat /\ since \in Nat /\ since' = since
    BY <1>1, EnvironmentStep DEF IInv, TypeOK, Environment, readerVars
  <2>2. since' <= now' /\ ~ Quiet'
    BY <2>1 DEF QuietInv, Quiet
  <2>3. QED
    BY <2>2 DEF QuietInv, Quiet, NoFalseAlarm, Alarm
<1>2. CASE Reader
  <2>1. UNCHANGED fsVars
    BY <1>2 DEF Reader
  <2>2. ASSUME NEW code \in Rejections \cup {"pending"}, Call(code)
        PROVE  QuietInv'
    BY <2>1, <2>2 DEF Call, QuietInv, NoFalseAlarm, Alarm, fsVars, IInv, TypeOK, Rejections,
       Walking, AfterLeaf, Rechecking
  <2>3. CASE IoError
    BY <2>1, <2>3, AlarmStep DEF IoError, Codes
  <2>4. CASE OpenRoot
    <3>1. Stamp(Root).ctime = ctime[Root] /\ Stamp(Root).ino = Root
      BY DEF Stamp
    <3>2. held = <<>>
      BY <2>4 DEF IInv, HeldInv, OpenRoot
    <3>3. QED
      BY <2>1, <2>4, <3>1, <3>2 DEF OpenRoot, QuietInv, Quiet, NoFalseAlarm, Alarm, Untouched, fsVars,
         Walking, AfterLeaf, Rechecking
  <2>5. CASE Read
    BY <2>1, <2>5 DEF Read, QuietInv, Quiet, NoFalseAlarm, Alarm, Untouched, fsVars, Opened
  <2>6. CASE Unwind
    BY <2>1, <2>6 DEF Unwind, QuietInv, Quiet, NoFalseAlarm, Alarm, fsVars,
       Walking, AfterLeaf, Rechecking
  <2>7. QED
    BY <1>2, <2>1, <2>2, <2>3, <2>4, <2>5, <2>6, QuietLstat, QuietOpen, QuietFstat, QuietEndRead,
       QuietRecheck DEF Reader, ReaderStep
<1>3. CASE UNCHANGED vars
  BY <1>3 DEF vars, QuietInv, Quiet, NoFalseAlarm, Alarm, Untouched, Opened
<1>4. QED
  BY <1>1, <1>2, <1>3 DEF Next

(* The reader never takes a quiet file system for a changing one: a race   *)
(* is reported only if something changed since the call began              *)
(* (operator_fs.py:102, :107, :116-122).                                   *)
THEOREM NoAlarmWithoutChange ==
  ASSUME 0 \notin Tick
  PROVE  Spec => []NoFalseAlarm
<1>1. Init => QuietInv
  BY DEF Init, QuietInv, NoFalseAlarm, Alarm, Walking, AfterLeaf, Rechecking
<1>2. IInv /\ QuietInv /\ [Next]_vars => IInv' /\ QuietInv'
  BY NextIInv, NextQuietInv DEF Ticks
<1>3. QuietInv => NoFalseAlarm
  BY DEF QuietInv
<1>4. QED
  BY <1>1, <1>2, <1>3, InitIInv, PTL DEF Spec
-----------------------------------------------------------------------------
(* A call under way has no result yet, so only the last recheck and what   *)
(* unwinds after it speak of bytes. Fail does not disturb the bound.       *)
BoundStep == ReadIsBounded => ReadIsBounded'

LEMMA FailBound ==
  ASSUME NEW code, code # "bytes", Fail(code)
  PROVE  BoundStep
BY DEF Fail, BoundStep, ReadIsBounded

LEMMA ReadBound ==
  ASSUME IInv, Read
  PROVE  BoundStep
<1>1. PICK n \in 1 .. Chunk :
        /\ n <= Limit + 1 - Len(data)
        /\ Len(data) + n <= Size(Leaf)
        /\ data' = data \o SubSeq(content[Leaf], Len(data) + 1, Len(data) + n)
  BY DEF Read
<1>2. content[Leaf] \in Seq(Byte) /\ Size(Leaf) = Len(content[Leaf]) /\ data \in Seq(Byte)
  BY LeafIsFile DEF IInv, TypeOK, Read, AfterLeaf
<1>3. n \in Nat \ {0} /\ Len(data) \in Nat /\ Limit \in Nat
  BY <1>2, FsAssumption
<1> DEFINE cells == SubSeq(content[Leaf], Len(data) + 1, Len(data) + n)
<1>4. cells \in Seq(Byte) /\ Len(cells) = n
  BY <1>1, <1>2, <1>3
<1>5. Len(data') = Len(data) + n
  BY <1>1, <1>2, <1>3, <1>4
<1>6. Len(data') <= Limit + 1
  BY <1>1, <1>3, <1>5
<1>7. result' # "bytes"
  BY DEF Read, IInv, GenuineInv
<1>8. QED
  BY <1>6, <1>7 DEF BoundStep, ReadIsBounded

LEMMA NextBound ==
  ASSUME IInv, ReadIsBounded, [Next]_vars
  PROVE  ReadIsBounded'
<1>1. CASE UNCHANGED readerVars
  BY <1>1 DEF readerVars, ReadIsBounded
<1>2. ASSUME NEW code \in Rejections \cup {"pending"}, Call(code)
      PROVE  ReadIsBounded'
  BY <1>2, FsAssumption DEF Call, ReadIsBounded, Rejections
<1>3. CASE IoError
  BY <1>3, FailBound DEF IoError, BoundStep
<1>4. CASE OpenRoot
  BY <1>4 DEF OpenRoot, IInv, GenuineInv, ReadIsBounded
<1>5. CASE Lstat
  BY <1>5, FailBound DEF Lstat, BoundStep, ReadIsBounded
<1>6. CASE Open
  BY <1>6, FailBound DEF Open, BoundStep, ReadIsBounded
<1>7. CASE Fstat
  BY <1>7, FailBound DEF Fstat, IInv, GenuineInv, BoundStep, ReadIsBounded
<1>8. CASE Read
  BY <1>8, ReadBound DEF BoundStep
<1>9. CASE EndRead
  BY <1>9, FailBound DEF EndRead, BoundStep, ReadIsBounded
<1>10. CASE RecheckFd
  BY <1>10, FailBound DEF RecheckFd, BoundStep, ReadIsBounded
<1>11. CASE RecheckName
  BY <1>11, FailBound DEF RecheckName, BoundStep, ReadIsBounded
<1>12. CASE RecheckRoot
  <2>1. Len(data) = held[Depth].before.size /\ held[Depth].before.size <= Limit
    BY <1>12 DEF IInv, HeldInv, DataInv, RecheckRoot, AfterLeaf, Rechecking
  <2>2. QED
    BY <1>12, <2>1, FailBound DEF RecheckRoot, BoundStep, ReadIsBounded
<1>13. CASE Unwind
  BY <1>13 DEF Unwind, ReadIsBounded
<1>14. QED
  BY <1>1, <1>2, <1>3, <1>4, <1>5, <1>6, <1>7, <1>8, <1>9, <1>10, <1>11, <1>12, <1>13
     DEF Next, Reader, ReaderStep, Environment, vars, readerVars

(* The reader buffers at most one byte past the limit, and returns only    *)
(* bytes that fit the limit and the size its lstat saw                     *)
(* (operator_fs.py:101, :111-116).                                         *)
THEOREM Bounded == Spec => []ReadIsBounded
<1>1. Init => ReadIsBounded
  BY FsAssumption DEF Init, ReadIsBounded
<1>2. IInv /\ ReadIsBounded /\ [Next]_vars => IInv' /\ ReadIsBounded'
  BY NextIInv, NextBound
<1>3. QED
  BY <1>1, <1>2, InitIInv, PTL DEF Spec
-----------------------------------------------------------------------------
(* A reader that is not in a call holds no descriptor, whichever of its    *)
(* system calls failed (operator_fs.py:90, :104, :139-141).                *)
THEOREM NoLeak == Spec => []NoDescriptorLeak
<1>1. Init => NoDescriptorLeak
  BY DEF Init, NoDescriptorLeak
<1>2. ASSUME IInv, NoDescriptorLeak, [Next]_vars
      PROVE  NoDescriptorLeak'
  <2>1. CASE UNCHANGED readerVars
    BY <1>2, <2>1 DEF readerVars, NoDescriptorLeak
  <2>2. ASSUME NEW code \in Rejections \cup {"pending"}, Call(code)
        PROVE  NoDescriptorLeak'
    BY <2>2 DEF Call, NoDescriptorLeak
  <2>3. CASE Unwind
    <3>1. fds \in Seq(Inode)
      BY <1>2 DEF IInv, TypeOK
    <3>2. CASE Len(fds) <= 1
      <4>1. fds' = <<>>
        BY <2>3, <3>1, <3>2 DEF Unwind
      <4>2. QED
        BY <4>1 DEF NoDescriptorLeak
    <3>3. CASE ~ Len(fds) <= 1
      BY <2>3, <3>3 DEF Unwind, NoDescriptorLeak
    <3>4. QED
      BY <3>2, <3>3
  <2>4. CASE pc' # "idle"
    BY <2>4 DEF NoDescriptorLeak
  <2>5. CASE IoError \/ (ReaderStep /\ ~ Unwind)
    <3>1. pc' # "idle"
      BY <2>5 DEF IoError, ReaderStep, Fail, OpenRoot, Lstat, Open, Fstat, Read, EndRead,
         RecheckFd, RecheckName, RecheckRoot
    <3>2. QED
      BY <2>4, <3>1
  <2>6. QED
    BY <1>2, <2>1, <2>2, <2>3, <2>5 DEF Next, Reader, Environment, vars, readerVars
<1>3. IInv /\ NoDescriptorLeak /\ [Next]_vars => IInv' /\ NoDescriptorLeak'
  BY <1>2, NextIInv
<1>4. QED
  BY <1>1, <1>3, InitIInv, PTL DEF Spec
=============================================================================
