----------------------------- MODULE OperatorFs -----------------------------
(***************************************************************************)
(* The descriptor-relative vendor-file reader of                           *)
(* siem/rbac/broker_tls/operator_fs.py, run against a file system that     *)
(* other processes keep changing.                                          *)
(*                                                                         *)
(* One call of InstalledReader walks a path of Depth components from a     *)
(* held root descriptor.  Each system call the code makes (lstat, open,    *)
(* fstat, read) is one step, and between any two of them the environment   *)
(* may rebind a name, change an owner or a mode, or write into a file.     *)
(*                                                                         *)
(* A directory is looked up under one name only, the component the path    *)
(* has at that depth, so "entry" maps a directory to the inode bound there.*)
(* Mount points are outside the model: a mount changes what a name         *)
(* resolves to without changing the directory that holds the name.         *)
(***************************************************************************)
EXTENDS Integers, Sequences

CONSTANTS
  Inode,        \* every inode the path may meet
  Root,         \* the inode of "/"
  Absent,       \* the binding of a name that does not exist
  Kind,         \* Kind[i]: "dir", "reg" or "link", the file type bits of st_mode
  Fits,         \* Fits[d]: the inodes that may be bound in directory d
  Depth,        \* len(parts)
  ServiceFrom,  \* first depth at which the service account may own a component
  Limit,        \* the pinned size of the artifact, the caller's read limit
  Chunk,        \* CHUNK, the most one os.read asks for
  Byte,         \* the values of a cell of a file
  Contents,     \* bound: the contents files take, each a sequence of cells
  Tick,         \* how far the timestamp clock may advance on a change
  MaxNow        \* bound: the clock, and with it the number of changes

Dir == {i \in Inode : Kind[i] = "dir"}
File == {i \in Inode : Kind[i] = "reg"}
Level == 1 .. Depth

(* What st_uid, st_gid and the bits 0o6022 of st_mode say: owned by root   *)
(* or by the service account and writable by nobody else, or anything else.*)
Meta == {"root", "service", "loose"}

ASSUME FsAssumption ==
  /\ Kind \in [Inode -> {"dir", "reg", "link"}]
  /\ Root \in Dir
  /\ Absent \notin Inode
  /\ Fits \in [Dir -> SUBSET Inode]
  /\ Depth \in Nat \ {0}
  /\ ServiceFrom \in Nat \ {0}
  /\ Limit \in Nat
  /\ Chunk \in Nat \ {0}
  /\ Contents \subseteq Seq(Byte)
  /\ Tick \subseteq Nat
  /\ MaxNow \in Nat

VARIABLES
  entry,    \* entry[d]: the inode bound in directory d, or Absent
  meta,     \* owner and mode of each inode
  content,  \* the cells of each regular file
  ctime,    \* st_ctime_ns of each inode: when it last changed
  now,      \* the clock the file system takes its timestamps from
  pc,       \* the system call the reader makes next
  level,    \* the component it works on
  before,   \* the lstat of that component, taken before it is opened
  rootBefore,
  held,     \* records: for each component opened, its descriptor and its lstat
  fds,      \* the descriptors on the ExitStack
  data,     \* the cells read so far
  result,   \* how the last call ended
  since,    \* history: the clock when the call began
  genuine   \* history: what the leaf's recheck saw, see RecheckFd

fsVars == <<entry, meta, content, ctime, now>>
readerVars == <<pc, level, before, rootBefore, held, fds, data, result, since, genuine>>
vars == <<entry, meta, content, ctime, now, pc, level, before, rootBefore,
          held, fds, data, result, since, genuine>>

Size(i) == IF i \in File THEN Len(content[i]) ELSE 0

(* _stamp.  st_dev and st_ino identify the inode and fix its kind; st_nlink*)
(* and st_mtime_ns never change without st_ctime_ns.                       *)
Stamp(i) == [ino |-> i, meta |-> meta[i], size |-> Size(i), ctime |-> ctime[i]]

Stamps == [ino : Inode, meta : Meta, size : Nat, ctime : Nat]

Records == [fd : Inode, before : Stamps]

NoStamp == [ino |-> Root, meta |-> "loose", size |-> 0, ctime |-> 0]

(* _owners: the service account is accepted only below the vendor prefix.  *)
Owners(k) == IF k >= ServiceFrom THEN {"root", "service"} ELSE {"root"}

(* _trusted at component k; the root is component 0. *)
Trusted(s, k) ==
  /\ Kind[s.ino] = (IF k = Depth THEN "reg" ELSE "dir")
  /\ s.meta \in Owners(k)

Parent(k) == IF k = 1 THEN Root ELSE held[k - 1].fd

-----------------------------------------------------------------------------
(* Whoever else changes the file system. Every change of an inode takes a  *)
(* timestamp from the clock.                                               *)

Touch(i) ==
  \E t \in Tick :
    /\ now + t <= MaxNow
    /\ now' = now + t
    /\ ctime' = [ctime EXCEPT ![i] = now + t]

(* rename, link, unlink or create in d *)
Rebind(d, i) ==
  /\ entry[d] # i
  /\ entry' = [entry EXCEPT ![d] = i]
  /\ Touch(d)
  /\ UNCHANGED <<meta, content>>

(* chown or chmod *)
Regrant(i, m) ==
  /\ meta[i] # m
  /\ meta' = [meta EXCEPT ![i] = m]
  /\ Touch(i)
  /\ UNCHANGED <<entry, content>>

(* a write that overwrites, appends to or truncates f in place *)
WriteFile(f, s) ==
  /\ content[f] # s
  /\ content' = [content EXCEPT ![f] = s]
  /\ Touch(f)
  /\ UNCHANGED <<entry, meta>>

Environment ==
  /\ \/ \E d \in Dir : \E i \in Fits[d] \cup {Absent} : Rebind(d, i)
     \/ \E i \in Inode, m \in Meta : Regrant(i, m)
     \/ \E f \in File, s \in Contents : WriteFile(f, s)
  /\ UNCHANGED readerVars

-----------------------------------------------------------------------------
(* The reader. *)

Fail(code) ==
  /\ pc' = "unwind"
  /\ result' = code
  /\ UNCHANGED <<level, before, rootBefore, held, fds, data, since, genuine>>

(* InstalledReader.__call__: the target and its limit are in the allowlist*)
(* (otherwise FS_TARGET is raised before anything is looked at); platform *)
(* and service identity are looked up afresh before any descriptor.       *)
Call(code) ==
  /\ pc = "idle"
  /\ level' = 1
  /\ before' = NoStamp
  /\ rootBefore' = NoStamp
  /\ held' = <<>>
  /\ data' = <<>>
  /\ since' = now
  /\ genuine' = FALSE
  /\ result' = code
  /\ pc' = IF code = "pending" THEN "root" ELSE "unwind"
  /\ UNCHANGED fds

(* _read_root opens "/", _read_at takes its stamp first of all. *)
OpenRoot ==
  /\ pc = "root"
  /\ fds' = <<Root>>
  /\ rootBefore' = Stamp(Root)
  /\ IF Trusted(Stamp(Root), 0)
     THEN pc' = "lstat" /\ UNCHANGED result
     ELSE pc' = "unwind" /\ result' = "FS_METADATA"
  /\ UNCHANGED <<level, before, held, data, since, genuine>>

Lstat ==
  /\ pc = "lstat"
  /\ LET i == entry[Parent(level)] IN
     \/ i = Absent /\ Fail("FS_MISSING")
     \/ i # Absent /\ ~ Trusted(Stamp(i), level) /\ Fail("FS_METADATA")
     \/ /\ i # Absent /\ Trusted(Stamp(i), level)
        /\ level = Depth /\ Size(i) > Limit
        /\ Fail("FS_SIZE")
     \/ /\ i # Absent /\ Trusted(Stamp(i), level)
        /\ level = Depth => Size(i) <= Limit
        /\ before' = Stamp(i)
        /\ pc' = "open"
        /\ UNCHANGED <<level, rootBefore, held, fds, data, result, since, genuine>>

(* O_NOFOLLOW refuses a link, O_DIRECTORY anything but a directory. *)
Open ==
  /\ pc = "open"
  /\ LET i == entry[Parent(level)] IN
     \/ i = Absent /\ Fail("FS_MISSING")
     \/ i # Absent /\ Kind[i] = "link" /\ Fail("FS_SYMLINK")
     \/ i # Absent /\ Kind[i] = "reg" /\ level < Depth /\ Fail("FS_NOT_DIRECTORY")
     \/ /\ i # Absent /\ Kind[i] # "link"
        /\ level < Depth => Kind[i] = "dir"
        /\ fds' = Append(fds, i)
        /\ pc' = "fstat"
        /\ UNCHANGED <<level, before, rootBefore, held, data, result, since, genuine>>

Opened == fds[Len(fds)]

Fstat ==
  /\ pc = "fstat"
  /\ \/ ~ Trusted(Stamp(Opened), level) /\ Fail("FS_METADATA")
     \/ Trusted(Stamp(Opened), level) /\ Stamp(Opened) # before /\ Fail("FS_CHANGED")
     \/ /\ Trusted(Stamp(Opened), level) /\ Stamp(Opened) = before
        /\ held' = Append(held, [fd |-> Opened, before |-> before])
        /\ level' = IF level = Depth THEN Depth ELSE level + 1
        /\ pc' = IF level = Depth THEN "read" ELSE "lstat"
        /\ UNCHANGED <<before, rootBefore, fds, data, result, since, genuine>>

Leaf == held[Depth].fd

(* Mutant of Read: os.read is not asked for at most limit + 1 - len(data). *)
ReadUncapped ==
  /\ pc = "read"
  /\ Len(data) <= Limit
  /\ \E n \in 1 .. Chunk :
       /\ Len(data) + n <= Size(Leaf)
       /\ data' = data \o SubSeq(content[Leaf], Len(data) + 1, Len(data) + n)
  /\ UNCHANGED <<pc, level, before, rootBefore, held, fds, result, since, genuine>>

(* One os.read. The file may have grown or shrunk since its lstat; a read  *)
(* may return fewer bytes than it was asked for.                           *)
Read ==
  /\ pc = "read"
  /\ Len(data) <= Limit
  /\ \E n \in 1 .. Chunk :
       /\ n <= Limit + 1 - Len(data)
       /\ Len(data) + n <= Size(Leaf)
       /\ data' = data \o SubSeq(content[Leaf], Len(data) + 1, Len(data) + n)
  /\ UNCHANGED <<pc, level, before, rootBefore, held, fds, result, since, genuine>>

(* Mutant of EndRead: the loop reads on to end of file, limit or not. *)
EndReadAtEof ==
  /\ pc = "read"
  /\ Size(Leaf) <= Len(data)
  /\ \/ (Len(data) > Limit \/ Len(data) # before.size) /\ Fail("FS_SIZE")
     \/ /\ Len(data) <= Limit /\ Len(data) = before.size
        /\ pc' = "recheck_fd"
        /\ UNCHANGED <<level, before, rootBefore, held, fds, data, result, since, genuine>>

(* The loop ends at end of file or one byte past the limit. *)
EndRead ==
  /\ pc = "read"
  /\ Len(data) > Limit \/ Size(Leaf) <= Len(data)
  /\ \/ (Len(data) > Limit \/ Len(data) # before.size) /\ Fail("FS_SIZE")
     \/ /\ Len(data) <= Limit /\ Len(data) = before.size
        /\ pc' = "recheck_fd"
        /\ UNCHANGED <<level, before, rootBefore, held, fds, data, result, since, genuine>>

(* What an atomic read at this instant would have found: every component   *)
(* bound to the descriptor held for it and trusted, the leaf holding       *)
(* exactly the cells that were read.                                       *)
AtomicReadNow ==
  /\ Trusted(Stamp(Root), 0)
  /\ \A k \in Level :
       /\ entry[Parent(k)] = held[k].fd
       /\ Trusted(Stamp(held[k].fd), k)
  /\ data = content[Leaf]

(* Mutant of RecheckFd: compares with the loop variable of the walk, the   *)
(* leaf's lstat, instead of the record's own.                              *)
RecheckFdAgainstLast ==
  /\ pc = "recheck_fd"
  /\ \/ Stamp(held[level].fd) # before /\ Fail("FS_CHANGED")
     \/ /\ Stamp(held[level].fd) = before
        /\ pc' = "recheck_name"
        /\ genuine' = IF level = Depth THEN AtomicReadNow ELSE genuine
        /\ UNCHANGED <<level, before, rootBefore, held, fds, data, result, since>>

(* The rechecks go from the leaf up. Each compares the lstat of the first  *)
(* walk with the descriptor and then with the name.                        *)
RecheckFd ==
  /\ pc = "recheck_fd"
  /\ \/ Stamp(held[level].fd) # held[level].before /\ Fail("FS_CHANGED")
     \/ /\ Stamp(held[level].fd) = held[level].before
        /\ pc' = "recheck_name"
        /\ genuine' = IF level = Depth THEN AtomicReadNow ELSE genuine
        /\ UNCHANGED <<level, before, rootBefore, held, fds, data, result, since>>

(* Mutant of RecheckName: the walk back goes one component too far. *)
RecheckNamePastRoot ==
  /\ pc = "recheck_name"
  /\ LET i == entry[Parent(level)] IN
     \/ i = Absent /\ Fail("FS_MISSING")
     \/ i # Absent /\ Stamp(i) # held[level].before /\ Fail("FS_CHANGED")
     \/ /\ i # Absent /\ Stamp(i) = held[level].before
        /\ level' = level - 1
        /\ pc' = IF level = 1 THEN "recheck_root" ELSE "recheck_fd"
        /\ UNCHANGED <<before, rootBefore, held, fds, data, result, since, genuine>>

RecheckName ==
  /\ pc = "recheck_name"
  /\ LET i == entry[Parent(level)] IN
     \/ i = Absent /\ Fail("FS_MISSING")
     \/ i # Absent /\ Stamp(i) # held[level].before /\ Fail("FS_CHANGED")
     \/ /\ i # Absent /\ Stamp(i) = held[level].before
        /\ level' = IF level = 1 THEN 1 ELSE level - 1
        /\ pc' = IF level = 1 THEN "recheck_root" ELSE "recheck_fd"
        /\ UNCHANGED <<before, rootBefore, held, fds, data, result, since, genuine>>

(* Mutant of RecheckRoot: "/" itself is not rechecked. *)
RecheckRootSkipped ==
  /\ pc = "recheck_root"
  /\ pc' = "unwind"
  /\ result' = "bytes"
  /\ UNCHANGED <<level, before, rootBefore, held, fds, data, since, genuine>>

RecheckRoot ==
  /\ pc = "recheck_root"
  /\ \/ Stamp(Root) # rootBefore /\ Fail("FS_CHANGED")
     \/ /\ Stamp(Root) = rootBefore
        /\ pc' = "unwind"
        /\ result' = "bytes"
        /\ UNCHANGED <<level, before, rootBefore, held, fds, data, since, genuine>>

(* Any system call may raise; this is what _os_error_code makes of an errno *)
(* that the state of the file system does not explain.                      *)
IoError ==
  /\ pc \notin {"idle", "unwind"}
  /\ \E code \in {"FS_ACCESS", "FS_IO"} : Fail(code)

(* Mutant of Unwind: the ExitStack of _read_at closes, _read_root's does not. *)
UnwindKeepsRoot ==
  /\ pc = "unwind"
  /\ fds' = IF Len(fds) <= 1 THEN fds ELSE SubSeq(fds, 1, Len(fds) - 1)
  /\ pc' = IF Len(fds) <= 2 THEN "idle" ELSE "unwind"
  /\ UNCHANGED <<level, before, rootBefore, held, data, result, since, genuine>>

(* The ExitStack closes the last descriptor first, also on failure. *)
Unwind ==
  /\ pc = "unwind"
  /\ fds' = IF fds = <<>> THEN fds ELSE SubSeq(fds, 1, Len(fds) - 1)
  /\ pc' = IF Len(fds) <= 1 THEN "idle" ELSE "unwind"
  /\ UNCHANGED <<level, before, rootBefore, held, data, result, since, genuine>>

Rejections == {"FS_PLATFORM", "FS_ROOT_REQUIRED", "FS_SERVICE_IDENTITY"}

ReaderStep ==
  \/ OpenRoot \/ Lstat \/ Open \/ Fstat \/ Read \/ EndRead
  \/ RecheckFd \/ RecheckName \/ RecheckRoot \/ Unwind

Reader ==
  /\ \/ \E code \in Rejections \cup {"pending"} : Call(code)
     \/ ReaderStep
     \/ IoError
  /\ UNCHANGED fsVars

-----------------------------------------------------------------------------
Init ==
  /\ entry \in [Dir -> Inode \cup {Absent}]
  /\ \A d \in Dir : entry[d] \in Fits[d] \cup {Absent}
  /\ meta \in [Inode -> Meta]
  /\ content \in [File -> Contents]
  /\ ctime = [i \in Inode |-> 0]
  /\ now = 0
  /\ pc = "idle"
  /\ level = 1
  /\ before = NoStamp
  /\ rootBefore = NoStamp
  /\ held = <<>>
  /\ fds = <<>>
  /\ data = <<>>
  /\ result = "none"
  /\ since = 0
  /\ genuine = FALSE

Next == Reader \/ Environment

(* The calling process runs to the end of a call it has begun; nobody has  *)
(* to call, and nobody has to change a file.                               *)
Spec == Init /\ [][Next]_vars /\ WF_vars(ReaderStep /\ UNCHANGED fsVars)

-----------------------------------------------------------------------------
Codes == Rejections \cup
  {"none", "pending", "bytes", "FS_MISSING", "FS_METADATA", "FS_SIZE", "FS_SYMLINK",
   "FS_NOT_DIRECTORY", "FS_CHANGED", "FS_ACCESS", "FS_IO"}

PCs == {"idle", "root", "lstat", "open", "fstat", "read", "recheck_fd",
        "recheck_name", "recheck_root", "unwind"}

(* The types of the state. *)
TypeOK ==
  /\ entry \in [Dir -> Inode \cup {Absent}]
  /\ meta \in [Inode -> Meta]
  /\ content \in [File -> Contents]
  /\ ctime \in [Inode -> Nat]
  /\ now \in Nat
  /\ pc \in PCs
  /\ level \in Level
  /\ before \in Stamps
  /\ rootBefore \in Stamps
  /\ held \in Seq(Records)
  /\ fds \in Seq(Inode)
  /\ data \in Seq(Byte)
  /\ result \in Codes
  /\ since \in Nat
  /\ genuine \in BOOLEAN

(* Bytes that InstalledReader returns are what one atomic read would have  *)
(* returned at some instant of the call: at the leaf's recheck the whole   *)
(* path resolved, through trusted directories, to the file that was read,  *)
(* and the file held exactly those bytes, whatever was renamed, chowned or *)
(* rewritten around the other system calls (operator_fs.py:95-123).        *)
ReadIsAtomic == result = "bytes" => genuine

(* The codes that tell of a race, once the leaf is open also those of a    *)
(* name or a size that has gone.                                            *)
Alarm ==
  \/ result \in {"FS_CHANGED", "FS_SYMLINK", "FS_NOT_DIRECTORY"}
  \/ result \in {"FS_SIZE", "FS_MISSING"} /\ Len(held) = Depth

(* The reader rejects a race only where there was one: had nobody touched  *)
(* the file system since the call began, no stamp would differ             *)
(* (operator_fs.py:107, :117-122), no open would meet a link or a file     *)
(* where the lstat saw a directory (:102), and no size or name would have  *)
(* gone once the leaf is open (:116, :120).                                *)
NoFalseAlarm == Alarm => now # since

(* However a file grows under the reader, at most one byte past the limit  *)
(* is ever buffered (operator_fs.py:111-112), and bytes that are returned  *)
(* fit the limit and the size the first lstat saw (:101, :116).            *)
ReadIsBounded ==
  /\ Len(data) <= Limit + 1
  /\ result = "bytes" => Len(data) <= Limit /\ Len(data) = held[Depth].before.size

(* Every descriptor a call opened, the root's too, is closed when it ends, *)
(* whichever step failed (operator_fs.py:90, :104, :139-141).              *)
NoDescriptorLeak == pc = "idle" => fds = <<>>

(* A call ends, even over a file that somebody appends to for ever.        *)
CallReturns == pc # "idle" ~> pc = "idle"
=============================================================================
