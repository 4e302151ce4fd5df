------------------------------- MODULE Lease --------------------------------
(***************************************************************************)
(* The owner lease of one stack, packages/stack/src/namespace/Lease.ts: a  *)
(* SQLite write lock on a file that its last holder removes when the stack *)
(* is no longer registered.  Several processes acquire, probe and release  *)
(* it; each await of the code is a step, and a process may crash anywhere. *)
(*                                                                         *)
(* A file is named by its identity (device and inode).  With Reuse an      *)
(* identity that nothing refers to any more comes back for a new file.     *)
(* Left out: the directory, whose absence is one more failed attempt, and  *)
(* the number of attempts and the waiting time: a process tries again or   *)
(* gives up as it likes.                                                   *)
(***************************************************************************)
EXTENDS Naturals

CONSTANTS
  Processes,
  Files,             \* identities; the bound on files made without Reuse
  NoFile,
  Reuse,             \* whether identities come back
  Platforms,         \* where the processes run; windows keeps a file somebody has open
  RemovalFails       \* whether reading or removing may fail for another reason

ASSUME LeaseAssumption ==
  /\ NoFile \notin Files
  /\ Reuse \in BOOLEAN
  /\ RemovalFails \in BOOLEAN
  /\ Platforms \subseteq {"posix", "windows"}

VARIABLES
  platform,          \* never changes
  path,              \* the file the lease path names
  spent,             \* the identities that are not to be used again
  registered,        \* whether the registry has a document for the stack
  lease              \* [Processes -> Attempt]: each process's acquisition

leaseVars == <<platform, path, spent, registered, lease>>

-----------------------------------------------------------------------------
Stages == {"idle", "look", "open", "lock", "check", "held", "unlink", "close",
           "recheck", "reunlink", "probe", "probing"}

\* before: the path's file when the attempt began; file: the file opened;
\* unlinked: nothing is left to remove.
Attempt ==
  [at : Stages, before : Files \union {NoFile}, file : Files \union {NoFile}, unlinked : BOOLEAN]

Idle == [at |-> "idle", before |-> NoFile, file |-> NoFile, unlinked |-> FALSE]

LeaseTypeOK ==
  /\ platform \in {"posix", "windows"}
  /\ path \in Files \union {NoFile}
  /\ spent \subseteq Files
  /\ registered \in BOOLEAN
  /\ lease \in [Processes -> Attempt]

LeaseInit ==
  /\ platform \in Platforms
  /\ path = NoFile
  /\ spent = {}
  /\ registered \in BOOLEAN
  /\ lease = [p \in Processes |-> Idle]

HasOpen(p) == lease[p].at \in {"lock", "check", "held", "unlink", "close", "probe", "probing"}
HasLocked(p) == lease[p].at \in {"check", "held", "unlink", "close", "probing"}
Holds(p) == lease[p].at = "held"

Opened == {lease[p].file : p \in {q \in Processes : HasOpen(q)}}
LockedFiles == {lease[p].file : p \in {q \in Processes : HasLocked(q)}}

Fresh == Files \ (spent \union Opened \union {path})

Goes(p, at) == lease' = [lease EXCEPT ![p].at = at]
Gone(p) == lease' = [lease EXCEPT ![p] = Idle]
SamePath == UNCHANGED <<platform, path, spent, registered>>

-----------------------------------------------------------------------------
\* acquireLease.
Request(p) ==
  /\ lease[p].at = "idle"
  /\ Goes(p, "look")
  /\ SamePath

\* fileIdentity, before the file is opened.
Look(p) ==
  /\ lease[p].at = "look"
  /\ lease' = [lease EXCEPT ![p] = [Idle EXCEPT !.at = "open", !.before = path]]
  /\ SamePath

\* acquireLock("create") makes the file when the path names none.
Open(p) ==
  /\ lease[p].at = "open"
  /\ \E f \in IF path = NoFile THEN Fresh ELSE {path} :
       /\ path' = f
       /\ spent' = IF Reuse THEN spent ELSE spent \union {f}
       /\ lease' = [lease EXCEPT ![p].at = "lock", ![p].file = f]
  /\ UNCHANGED <<platform, registered>>

\* takeLock; a file the path no longer names may be reported as moved.
Lock(p) ==
  /\ lease[p].at = "lock"
  /\ lease[p].file \notin LockedFiles
  /\ Goes(p, "check")
  /\ SamePath

\* A busy or moved file, or a vanished directory: another attempt, or none.
Retry(p) ==
  /\ \/ lease[p].at = "lock" /\ (lease[p].file \in LockedFiles \/ path # lease[p].file)
     \/ lease[p].at = "open"
  /\ \E next \in {"look", "idle"} : lease' = [lease EXCEPT ![p] = [Idle EXCEPT !.at = next]]
  /\ SamePath

\* Fault: the file is only looked at once it is locked.
CheckLate(p) ==
  /\ lease[p].at = "check"
  /\ IF path # NoFile
       THEN lease' = [lease EXCEPT ![p].at = "held", ![p].before = path]
       ELSE \E next \in {"look", "idle"} : lease' = [lease EXCEPT ![p] = [Idle EXCEPT !.at = next]]
  /\ SamePath

\* The path must have named one and the same file before and after.
SameFile(p) == path # NoFile /\ path = lease[p].before

Check(p) ==
  /\ lease[p].at = "check"
  /\ IF SameFile(p)
       THEN Goes(p, "held")
       ELSE \E next \in {"look", "idle"} : lease' = [lease EXCEPT ![p] = [Idle EXCEPT !.at = next]]
  /\ SamePath

-----------------------------------------------------------------------------
\* held is the identity read after locking.
PathHeld(p) == path = lease[p].before

\* removeLeaseFile up to its removal: whether there is something to remove.
Removable(p) == ~registered /\ PathHeld(p)

\* The lease's scope closes: first the removal, with the file still locked.
LeaseCloses(p) ==
  /\ Holds(p)
  /\ \/ lease' = [lease EXCEPT ![p].at = IF Removable(p) THEN "unlink" ELSE "close",
                               ![p].unlinked = ~Removable(p)]
     \/ RemovalFails /\ Goes(p, "close")
  /\ SamePath

\* fs.remove of the path, whatever it names by now.
CanUnlink == platform = "posix" \/ path \notin Opened

Unlink(p) ==
  /\ lease[p].at = "unlink"
  /\ \/ /\ CanUnlink
        /\ path' = NoFile
        /\ lease' = [lease EXCEPT ![p].at = "close", ![p].unlinked = TRUE]
     \/ /\ RemovalFails \/ ~CanUnlink
        /\ Goes(p, "close")
        /\ UNCHANGED path
  /\ UNCHANGED <<platform, spent, registered>>

\* The connection closes; a removal that failed is tried once more without the lock.
Close(p) ==
  /\ lease[p].at = "close"
  /\ IF lease[p].unlinked THEN Gone(p) ELSE Goes(p, "recheck")
  /\ SamePath

Recheck(p) ==
  /\ lease[p].at = "recheck"
  /\ \/ ~Removable(p) /\ Gone(p)
     \/ Removable(p) /\ Goes(p, "reunlink")
     \/ RemovalFails /\ Gone(p)
  /\ SamePath

Reunlink(p) ==
  /\ lease[p].at = "reunlink"
  /\ \/ CanUnlink /\ path' = NoFile
     \/ (RemovalFails \/ ~CanUnlink) /\ UNCHANGED path
  /\ Gone(p)
  /\ UNCHANGED <<platform, spent, registered>>

-----------------------------------------------------------------------------
\* leased: opens the file if there is one, and holds its lock for a moment.
Probe(p) ==
  /\ lease[p].at = "idle" /\ path # NoFile
  /\ lease' = [lease EXCEPT ![p].at = "probe", ![p].file = path]
  /\ SamePath

ProbeLocks(p) ==
  /\ lease[p].at = "probe"
  /\ \/ lease[p].file \notin LockedFiles /\ Goes(p, "probing")
     \/ (lease[p].file \in LockedFiles \/ path # lease[p].file) /\ Gone(p)
  /\ SamePath

ProbeEnds(p) ==
  /\ lease[p].at = "probing"
  /\ Gone(p)
  /\ SamePath

\* The operating system closes what a dead process had open.
Crash(p) ==
  /\ lease[p].at # "idle"
  /\ Gone(p)
  /\ SamePath

\* Registry.save and Registry.remove, by whoever may call them.
Registers(value) ==
  /\ registered' = value
  /\ UNCHANGED <<platform, path, spent, lease>>

-----------------------------------------------------------------------------
\* What the code does on its own once a request, a release or a probe has begun.
LeaseRuns(p) ==
  \/ Look(p) \/ Open(p) \/ Lock(p) \/ Retry(p) \/ Check(p)
  \/ Unlink(p) \/ Close(p) \/ Recheck(p) \/ Reunlink(p)
  \/ ProbeLocks(p) \/ ProbeEnds(p)

LeaseNext ==
  \/ \E p \in Processes : Request(p) \/ Probe(p) \/ LeaseRuns(p) \/ LeaseCloses(p) \/ Crash(p)
  \/ \E value \in BOOLEAN : Registers(value)

LeaseSpec == LeaseInit /\ [][LeaseNext]_leaseVars

-----------------------------------------------------------------------------
\* A file has one lock; identities come from files that were made; a path that moved
\* on from what an attempt saw never names that file again; and a holder has locked
\* the file that the path named when the lease was acquired.
LockInv ==
  /\ LeaseTypeOK
  /\ \A p, q \in Processes : HasLocked(p) /\ HasLocked(q) /\ p # q => lease[p].file # lease[q].file
  /\ path \in spent \union {NoFile}
  /\ \A p \in Processes :
       /\ lease[p].before \in spent \union {NoFile}
       /\ HasOpen(p) => lease[p].file \in spent
       /\ lease[p].at \in {"lock", "check"} =>
            \/ lease[p].before = lease[p].file
            \/ lease[p].before = NoFile
            \/ lease[p].before # path
       /\ Holds(p) => lease[p].before = lease[p].file

\* While only an open file resists its removal, on windows, the path stays its
\* holder's: nobody removes another's file.
LeaseInv ==
  /\ LockInv
  /\ \A p \in Processes :
       /\ lease[p].at \in {"held", "unlink"} => PathHeld(p) /\ lease[p].file = path
       /\ platform = "posix" =>
            /\ lease[p].at \notin {"recheck", "reunlink"}
            /\ lease[p].at = "close" => lease[p].unlinked

\* An owner whose lease file is still the one the path names.
Rightful(p) == Holds(p) /\ PathHeld(p)

\* The file and its lock together make an exclusive owner: no two processes come
\* out of acquireLease and stay rightful, although waiters open files that are
\* unlinked under them (Lease.ts:143-184).
Promise == INSTANCE ExclusiveOwner WITH owners <- {p \in Processes : Rightful(p)}
OneOwner == Promise!Spec

\* Whoever holds the lease holds the file that its path names, so nobody can
\* lock another file there (Lease.ts:42-46, pathHeld).
HolderKeepsPath == \A p \in Processes : Holds(p) => PathHeld(p) /\ lease[p].file = path
=============================================================================
