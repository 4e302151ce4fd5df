--------------------------- MODULE OwnershipProofs ---------------------------
(***************************************************************************)
(* The owner lease excludes for any number of processes and of files, when *)
(* identities do not come back, whatever removals fail; and its holder     *)
(* keeps the path when only an open file resists its removal.              *)
(*                                                                         *)
(* What holding it buys: the published record is the holder's, an owner    *)
(* that is up shares the stack with no dead owner's containers, and a      *)
(* stack that is not registered runs nothing.  Giving up a lost stack      *)
(* spares whoever took it over, and acquiring stays exclusive when the     *)
(* state directory is deleted.                                             *)
(***************************************************************************)
EXTENDS Ownership, TLAPS

USE LeaseAssumption

-----------------------------------------------------------------------------
\* The lease starts out idle, with nothing locked.
LEMMA InvInit == LeaseInit => LeaseInv
BY DEF LeaseInit, LeaseInv, LockInv, LeaseTypeOK, Attempt, Stages, Idle, HasLocked, HasOpen,
       PathHeld, Holds

-----------------------------------------------------------------------------
(* Steps of one attempt, whatever they are.                                *)

\* p's attempt becomes r, which is locked only if it was or could be, and held only
\* after the look at the path; the path is left alone or removed.
AttemptBecomes(p, r) ==
  /\ r \in Attempt
  /\ lease' = [lease EXCEPT ![p] = r]
  /\ path' \in {path, NoFile} /\ UNCHANGED <<platform, spent, registered>>
  /\ r.before \in spent \union {NoFile}
  /\ r.at \in {"check", "held", "unlink", "close", "probing"} =>
       r.file = lease[p].file /\ (HasLocked(p) \/ lease[p].file \notin LockedFiles)
  /\ r.at \in {"lock", "check", "held", "unlink", "close", "probe", "probing"} => r.file \in spent
  /\ r.at \in {"lock", "check"} => r.before = r.file \/ r.before = NoFile \/ r.before # path
  /\ r.at = "held" => lease[p].at = "check" /\ SameFile(p) /\ r.before = path /\ path' = path

\* What an attempt becomes stays an attempt, and changes in what is said only.
LEMMA Attempts ==
  ASSUME LockInv, NEW p \in Processes
  PROVE  lease[p] \in Attempt /\ Idle \in Attempt /\ Idle.before = NoFile /\ Idle.at = "idle"
BY DEF LockInv, LeaseTypeOK, Attempt, Stages, Idle

LEMMA Staged ==
  ASSUME NEW x \in Attempt, NEW at \in Stages
  PROVE  LET r == [x EXCEPT !.at = at]
         IN /\ r \in Attempt /\ r.at = at
            /\ r.before = x.before /\ r.file = x.file /\ r.unlinked = x.unlinked
BY DEF Attempt

LEMMA GoesBecomes ==
  ASSUME LockInv, NEW p \in Processes, NEW at \in Stages \ {"lock", "held", "probe"},
         at \in {"check", "unlink", "close", "probing"} =>
           HasOpen(p) /\ (HasLocked(p) \/ lease[p].file \notin LockedFiles),
         at = "check" => lease[p].at = "lock",
         Goes(p, at), SamePath
  PROVE  AttemptBecomes(p, [lease[p] EXCEPT !.at = at])
<1> DEFINE r == [lease[p] EXCEPT !.at = at]
<1>1. r \in Attempt /\ r.at = at /\ r.before = lease[p].before /\ r.file = lease[p].file
  BY Attempts, Staged
<1>2. lease' = [lease EXCEPT ![p] = r]
  BY DEF Goes
<1> HIDE DEF r
<1>3. AttemptBecomes(p, r)
  BY <1>1, <1>2 DEF AttemptBecomes, LockInv, SamePath
<1> QED
  BY <1>3 DEF r

LEMMA RestartBecomes ==
  ASSUME LockInv, NEW p \in Processes, NEW at \in {"look", "idle"}, SamePath,
         lease' = [lease EXCEPT ![p] = [Idle EXCEPT !.at = at]]
  PROVE  AttemptBecomes(p, [Idle EXCEPT !.at = at])
<1> DEFINE r == [Idle EXCEPT !.at = at]
<1>1. r \in Attempt /\ r.at = at /\ r.before = NoFile
  BY DEF Attempt, Stages, Idle
<1> HIDE DEF r
<1>2. AttemptBecomes(p, r)
  BY <1>1 DEF AttemptBecomes, SamePath, r
<1> QED
  BY <1>2 DEF r

LEMMA GoneBecomes ==
  ASSUME LockInv, NEW p \in Processes, Gone(p), path' \in {path, NoFile},
         UNCHANGED <<platform, spent, registered>>
  PROVE  AttemptBecomes(p, Idle)
BY Attempts DEF AttemptBecomes, Gone

\* Every step of an attempt but the making of a file is of that form.
LEMMA StepBecomes ==
  ASSUME LockInv, NEW p \in Processes,
         \/ Request(p) \/ Look(p) \/ Lock(p) \/ Retry(p) \/ Check(p) \/ LeaseCloses(p)
         \/ Unlink(p) \/ Close(p) \/ Recheck(p) \/ Reunlink(p)
         \/ Probe(p) \/ ProbeLocks(p) \/ ProbeEnds(p) \/ Crash(p)
  PROVE  \E r : AttemptBecomes(p, r)
<1>1. CASE Request(p)
  BY <1>1, GoesBecomes DEF Request, Stages
<1>2. CASE Look(p)
  <2> DEFINE r == [Idle EXCEPT !.at = "open", !.before = path]
  <2>1. r \in Attempt /\ r.at = "open" /\ r.before = path
    BY DEF LockInv, LeaseTypeOK, Attempt, Stages, Idle
  <2>2. lease' = [lease EXCEPT ![p] = r] /\ SamePath
    BY <1>2 DEF Look
  <2> HIDE DEF r
  <2> QED
    BY <2>1, <2>2 DEF AttemptBecomes, SamePath, LockInv
<1>3. CASE Lock(p)
  BY <1>3, GoesBecomes DEF Lock, Stages, HasOpen
<1>4. CASE Retry(p)
  BY <1>4, RestartBecomes DEF Retry
<1>5. CASE Check(p)
  <2>1. CASE SameFile(p)
    <3> DEFINE r == [lease[p] EXCEPT !.at = "held"]
    <3>1. r \in Attempt /\ r.at = "held" /\ r.before = lease[p].before /\ r.file = lease[p].file
      <4>1. lease[p] \in Attempt /\ "held" \in Stages
        BY Attempts DEF Stages
      <4> QED
        BY <4>1, Staged
    <3>2. lease' = [lease EXCEPT ![p] = r] /\ SamePath /\ lease[p].at = "check"
      BY <1>5, <2>1 DEF Check, Goes
    <3> HIDE DEF r
    <3> QED
      BY <2>1, <3>1, <3>2 DEF AttemptBecomes, SamePath, SameFile, LockInv, HasOpen, HasLocked
  <2> QED
    BY <1>5, <2>1, RestartBecomes DEF Check
<1>6. CASE LeaseCloses(p)
  <2> DEFINE r == [lease[p] EXCEPT !.at = IF Removable(p) THEN "unlink" ELSE "close",
                                   !.unlinked = ~Removable(p)]
  <2>1. lease[p] \in Attempt /\ Removable(p) \in BOOLEAN
    BY Attempts DEF Removable
  <2>2. r \in Attempt /\ r.at \in {"unlink", "close"} /\ r.before = lease[p].before /\ r.file = lease[p].file
    BY <2>1 DEF Attempt, Stages
  <2>3. CASE lease' = [lease EXCEPT ![p] = r]
    <3>1. SamePath /\ Holds(p)
      BY <1>6 DEF LeaseCloses
    <3> HIDE DEF r
    <3> QED
      BY <2>2, <2>3, <3>1 DEF AttemptBecomes, SamePath, LockInv, HasOpen, HasLocked, Holds
  <2>4. CASE Goes(p, "close")
    BY <1>6, <2>4, GoesBecomes DEF LeaseCloses, Stages, HasOpen, HasLocked, Holds
  <2> QED
    BY <1>6, <2>3, <2>4 DEF LeaseCloses
<1>7. CASE Unlink(p)
  <2>1. lease[p].at = "unlink" /\ UNCHANGED <<platform, spent, registered>>
    BY <1>7 DEF Unlink
  <2>2. CASE path' = NoFile /\ lease' = [lease EXCEPT ![p].at = "close", ![p].unlinked = TRUE]
    <3> DEFINE r == [lease[p] EXCEPT !.at = "close", !.unlinked = TRUE]
    <3>1. lease[p] \in Attempt
      BY Attempts
    <3>2. r \in Attempt /\ r.at = "close" /\ r.before = lease[p].before /\ r.file = lease[p].file
      BY <3>1 DEF Attempt, Stages
    <3>3. lease' = [lease EXCEPT ![p] = r]
      BY <2>2
    <3> HIDE DEF r
    <3> QED
      BY <2>1, <2>2, <3>2, <3>3 DEF AttemptBecomes, LockInv, HasOpen, HasLocked
  <2>3. CASE Goes(p, "close") /\ UNCHANGED path
    BY <2>1, <2>3, GoesBecomes DEF Stages, HasOpen, HasLocked, SamePath
  <2> QED
    BY <1>7, <2>2, <2>3 DEF Unlink
<1>8. CASE Close(p)
  <2>1. SamePath /\ (Gone(p) \/ Goes(p, "recheck"))
    BY <1>8 DEF Close
  <2> QED
    BY <2>1, GoesBecomes, GoneBecomes DEF SamePath, Stages
<1>9. CASE Recheck(p)
  <2>1. SamePath /\ (Gone(p) \/ Goes(p, "reunlink"))
    BY <1>9 DEF Recheck
  <2> QED
    BY <2>1, GoesBecomes, GoneBecomes DEF SamePath, Stages
<1>10. CASE Reunlink(p)
  BY <1>10, GoneBecomes DEF Reunlink
<1>11. CASE Probe(p)
  <2> DEFINE r == [lease[p] EXCEPT !.at = "probe", !.file = path]
  <2>1. lease[p] \in Attempt /\ path \in Files /\ path \in spent
    BY <1>11, Attempts DEF Probe, LockInv, LeaseTypeOK
  <2>2. r \in Attempt /\ r.at = "probe" /\ r.before = lease[p].before /\ r.file = path
    BY <2>1 DEF Attempt, Stages
  <2>3. lease' = [lease EXCEPT ![p] = r] /\ SamePath
    BY <1>11 DEF Probe
  <2> HIDE DEF r
  <2> QED
    BY <2>1, <2>2, <2>3 DEF AttemptBecomes, SamePath, LockInv
<1>12. CASE ProbeLocks(p)
  <2>1. CASE lease[p].file \notin LockedFiles /\ Goes(p, "probing")
    BY <1>12, <2>1, GoesBecomes DEF ProbeLocks, Stages, HasOpen
  <2> QED
    BY <1>12, <2>1, GoneBecomes DEF ProbeLocks, SamePath
<1>13. CASE ProbeEnds(p) \/ Crash(p)
  BY <1>13, GoneBecomes DEF ProbeEnds, Crash, SamePath
<1> QED
  BY <1>1, <1>2, <1>3, <1>4, <1>5, <1>6, <1>7, <1>8, <1>9, <1>10, <1>11, <1>12, <1>13

-----------------------------------------------------------------------------
(* Locks.                                                                  *)

LEMMA BecomesKeepsLocks ==
  ASSUME LockInv, NEW p \in Processes, NEW r, AttemptBecomes(p, r)
  PROVE  LockInv'
<1>1. LeaseTypeOK'
  BY DEF LockInv, LeaseTypeOK, AttemptBecomes
<1>2. /\ lease'[p] = r
      /\ \A q \in Processes : q # p => lease'[q] = lease[q]
  BY DEF LockInv, LeaseTypeOK, AttemptBecomes
<1>3. ASSUME NEW q \in Processes, NEW s \in Processes, HasLocked(q)', HasLocked(s)', q # s
      PROVE  lease'[q].file # lease'[s].file
  <2>1. CASE q # p /\ s # p
    BY <1>2, <1>3, <2>1 DEF LockInv, HasLocked
  <2>2. ASSUME NEW o \in Processes, o # p, HasLocked(p)', HasLocked(o)'
        PROVE  lease'[p].file # lease'[o].file
    <3>1. HasLocked(o) /\ lease'[o].file = lease[o].file
      BY <1>2, <2>2 DEF HasLocked
    <3>2. r.file = lease[p].file /\ (HasLocked(p) \/ lease[p].file \notin LockedFiles)
      BY <1>2, <2>2 DEF HasLocked, AttemptBecomes
    <3>3. lease[o].file \in LockedFiles
      BY <3>1 DEF LockedFiles
    <3> QED
      BY <1>2, <2>2, <3>1, <3>2, <3>3 DEF LockInv
  <2> QED
    BY <1>3, <2>1, <2>2
<1>4. path' \in spent' \union {NoFile}
  BY DEF LockInv, AttemptBecomes
<1>5. ASSUME NEW q \in Processes
      PROVE  /\ lease'[q].before \in spent' \union {NoFile}
             /\ HasOpen(q)' => lease'[q].file \in spent'
             /\ lease'[q].at \in {"lock", "check"} =>
                  \/ lease'[q].before = lease'[q].file
                  \/ lease'[q].before = NoFile
                  \/ lease'[q].before # path'
             /\ Holds(q)' => lease'[q].before = lease'[q].file
  <2>1. CASE q = p
    <3>1. r.at = "held" => r.before = r.file
      BY DEF AttemptBecomes, LockInv, SameFile
    <3> QED
      BY <1>2, <2>1, <3>1 DEF HasOpen, Holds, AttemptBecomes
  <2>2. CASE q # p
    BY <1>2, <2>2 DEF LockInv, HasOpen, Holds, AttemptBecomes
  <2> QED
    BY <2>1, <2>2
<1> QED
  BY <1>1, <1>3, <1>4, <1>5 DEF LockInv

\* What opening a lease file does: the path names it, and its identity is not new to
\* those who know it.
LEMMA Opens ==
  ASSUME ~Reuse, LockInv, NEW p \in Processes, Open(p)
  PROVE  \E f \in Files :
           /\ path = f \/ (path = NoFile /\ f \notin spent)
           /\ path' = f /\ spent' = spent \union {f} /\ UNCHANGED <<platform, registered>>
           /\ lease[p].at = "open" /\ lease'[p] \in Attempt
           /\ lease'[p].at = "lock" /\ lease'[p].file = f /\ lease'[p].before = lease[p].before
           /\ lease' = [lease EXCEPT ![p] = lease'[p]]
           /\ \A q \in Processes : q # p => lease'[q] = lease[q]
<1>1. PICK f \in IF path = NoFile THEN Fresh ELSE {path} :
            /\ path' = f /\ spent' = spent \union {f}
            /\ lease' = [lease EXCEPT ![p].at = "lock", ![p].file = f]
  BY DEF Open
<1>2. f \in Files /\ (path = f \/ (path = NoFile /\ f \notin spent))
  BY <1>1 DEF LockInv, LeaseTypeOK, Fresh
<1>3. lease'[p] = [lease[p] EXCEPT !.at = "lock", !.file = f] /\ lease[p] \in Attempt
  BY <1>1, Attempts DEF LockInv, LeaseTypeOK
<1>4. /\ lease'[p] \in Attempt /\ lease'[p].at = "lock" /\ lease'[p].file = f
      /\ lease'[p].before = lease[p].before
  BY <1>2, <1>3 DEF Attempt, Stages
<1>5. /\ lease' = [lease EXCEPT ![p] = lease'[p]]
      /\ \A q \in Processes : q # p => lease'[q] = lease[q]
  BY <1>1, <1>3 DEF LockInv, LeaseTypeOK
<1>6. lease[p].at = "open" /\ UNCHANGED <<platform, registered>>
  BY DEF Open
<1> QED
  BY <1>1, <1>2, <1>4, <1>5, <1>6

LEMMA OpenKeepsLocks ==
  ASSUME ~Reuse, LockInv, NEW p \in Processes, Open(p)
  PROVE  LockInv'
<1>1. PICK f \in Files :
           /\ path = f \/ (path = NoFile /\ f \notin spent)
           /\ path' = f /\ spent' = spent \union {f} /\ UNCHANGED <<platform, registered>>
           /\ lease[p].at = "open" /\ lease'[p] \in Attempt
           /\ lease'[p].at = "lock" /\ lease'[p].file = f /\ lease'[p].before = lease[p].before
           /\ lease' = [lease EXCEPT ![p] = lease'[p]]
           /\ \A q \in Processes : q # p => lease'[q] = lease[q]
  BY Opens
<1>2. LeaseTypeOK'
  BY <1>1 DEF LockInv, LeaseTypeOK
<1>3. \A q \in Processes : HasLocked(q)' => HasLocked(q) /\ q # p
  BY <1>1 DEF HasLocked
<1>4. \A q, s \in Processes : HasLocked(q)' /\ HasLocked(s)' /\ q # s => lease'[q].file # lease'[s].file
  BY <1>1, <1>3 DEF LockInv
<1>5. ASSUME NEW q \in Processes
      PROVE  /\ lease'[q].before \in spent' \union {NoFile}
             /\ HasOpen(q)' => lease'[q].file \in spent'
             /\ lease'[q].at \in {"lock", "check"} =>
                  \/ lease'[q].before = lease'[q].file
                  \/ lease'[q].before = NoFile
                  \/ lease'[q].before # path'
             /\ Holds(q)' => lease'[q].before = lease'[q].file
  <2>1. CASE q = p
    BY <1>1, <2>1 DEF LockInv, HasOpen, Holds
  <2>2. CASE q # p
    <3>1. lease'[q] = lease[q] /\ lease[q].before \in spent \union {NoFile}
      BY <1>1, <2>2 DEF LockInv
    <3>2. path' = path \/ lease[q].before = NoFile \/ lease[q].before # path'
      BY <1>1, <3>1
    <3> QED
      BY <1>1, <3>1, <3>2 DEF LockInv, HasOpen, Holds
  <2> QED
    BY <2>1, <2>2
<1> QED
  BY <1>1, <1>2, <1>4, <1>5 DEF LockInv

\* Every step of the lease keeps its locks.
LEMMA LockNext ==
  ASSUME ~Reuse, LockInv, [LeaseNext]_leaseVars
  PROVE  LockInv'
<1>1. ASSUME NEW value \in BOOLEAN, Registers(value)
      PROVE  LockInv'
  BY <1>1 DEF Registers, LockInv, LeaseTypeOK, HasLocked, HasOpen, Holds
<1>2. CASE UNCHANGED leaseVars
  BY <1>2 DEF leaseVars, LockInv, LeaseTypeOK, HasLocked, HasOpen, Holds
<1> QED
  BY <1>1, <1>2, StepBecomes, BecomesKeepsLocks, OpenKeepsLocks DEF LeaseNext, LeaseRuns

\* Types hold whatever else does.
LEMMA TypeNext ==
  ASSUME LeaseTypeOK, [LeaseNext]_leaseVars
  PROVE  LeaseTypeOK'
<1> USE DEF LeaseTypeOK
<1>1. ASSUME NEW p \in Processes, NEW at \in Stages, Goes(p, at)
      PROVE  lease' \in [Processes -> Attempt]
  BY <1>1 DEF Goes, Attempt
<1>2. ASSUME NEW p \in Processes, NEW at \in Stages, lease' = [lease EXCEPT ![p] = [Idle EXCEPT !.at = at]]
      PROVE  lease' \in [Processes -> Attempt]
  BY <1>2 DEF Idle, Attempt
<1>3. ASSUME NEW p \in Processes, Gone(p)
      PROVE  lease' \in [Processes -> Attempt]
  BY <1>3 DEF Gone, Idle, Attempt, Stages
<1>4. ASSUME NEW p \in Processes, Open(p)
      PROVE  LeaseTypeOK'
  <2>1. PICK f \in IF path = NoFile THEN Fresh ELSE {path} :
              /\ path' = f /\ spent' = IF Reuse THEN spent ELSE spent \union {f}
              /\ lease' = [lease EXCEPT ![p].at = "lock", ![p].file = f]
    BY <1>4 DEF Open
  <2>2. f \in Files
    BY <1>4, <2>1 DEF Fresh, Open
  <2>3. [lease[p] EXCEPT !.at = "lock", !.file = f] \in Attempt
    BY <2>2 DEF Attempt, Stages
  <2>4. lease' = [lease EXCEPT ![p] = [lease[p] EXCEPT !.at = "lock", !.file = f]]
    BY <2>1
  <2> QED
    BY <1>4, <2>1, <2>2, <2>3, <2>4 DEF Open
<1>5. ASSUME NEW p \in Processes, Look(p) \/ Probe(p)
      PROVE  LeaseTypeOK'
  <2>1. /\ [Idle EXCEPT !.at = "open", !.before = path] \in Attempt
        /\ [lease[p] EXCEPT !.at = "probe", !.file = path] \in Attempt
    BY DEF Idle, Attempt, Stages
  <2>2. \/ lease' = [lease EXCEPT ![p] = [Idle EXCEPT !.at = "open", !.before = path]]
        \/ lease' = [lease EXCEPT ![p] = [lease[p] EXCEPT !.at = "probe", !.file = path]]
    BY <1>5 DEF Look, Probe
  <2> QED
    BY <1>5, <2>1, <2>2 DEF Look, Probe, SamePath
<1>6. ASSUME NEW p \in Processes, LeaseCloses(p) \/ Unlink(p)
      PROVE  LeaseTypeOK'
  <2>1. /\ [lease[p] EXCEPT !.at = IF Removable(p) THEN "unlink" ELSE "close",
                           !.unlinked = ~Removable(p)] \in Attempt
        /\ [lease[p] EXCEPT !.at = "close", !.unlinked = TRUE] \in Attempt
        /\ [lease[p] EXCEPT !.at = "close"] \in Attempt
    BY DEF Removable, Attempt, Stages
  <2>2. \/ lease' = [lease EXCEPT ![p] = [lease[p] EXCEPT
                       !.at = IF Removable(p) THEN "unlink" ELSE "close", !.unlinked = ~Removable(p)]]
        \/ lease' = [lease EXCEPT ![p] = [lease[p] EXCEPT !.at = "close", !.unlinked = TRUE]]
        \/ lease' = [lease EXCEPT ![p] = [lease[p] EXCEPT !.at = "close"]]
    BY <1>6 DEF LeaseCloses, Unlink, Goes
  <2>3. lease' \in [Processes -> Attempt]
    BY <2>1, <2>2
  <2> QED
    BY <1>6, <2>3 DEF LeaseCloses, Unlink, SamePath
<1>7. ASSUME NEW p \in Processes,
             \/ Request(p) \/ Lock(p) \/ Retry(p) \/ Check(p) \/ Close(p) \/ Recheck(p)
             \/ ProbeLocks(p) \/ ProbeEnds(p) \/ Crash(p)
      PROVE  LeaseTypeOK'
  <2>1. SamePath
    BY <1>7 DEF Request, Lock, Retry, Check, Close, Recheck, ProbeLocks, ProbeEnds, Crash
  <2>2. lease' \in [Processes -> Attempt]
    BY <1>1, <1>2, <1>3, <1>7
    DEF Request, Lock, Retry, Check, Close, Recheck, ProbeLocks, ProbeEnds, Crash, Stages
  <2> QED
    BY <2>1, <2>2 DEF SamePath
<1>8. ASSUME NEW p \in Processes, Reunlink(p)
      PROVE  LeaseTypeOK'
  <2>1. path' \in {path, NoFile} /\ UNCHANGED <<platform, spent, registered>>
    BY <1>8 DEF Reunlink
  <2> QED
    BY <1>3, <1>8, <2>1 DEF Reunlink
<1>9. ASSUME NEW value \in BOOLEAN, Registers(value)
      PROVE  LeaseTypeOK'
  BY <1>9 DEF Registers
<1>10. CASE UNCHANGED leaseVars
  BY <1>10 DEF leaseVars
<1> QED
  BY <1>4, <1>5, <1>6, <1>7, <1>8, <1>9, <1>10 DEF LeaseNext, LeaseRuns

-----------------------------------------------------------------------------
(* Paths.                                                                  *)

\* A lease file that somebody holds is open, and nobody else has it locked.
LEMMA HeldIsOpen ==
  ASSUME LeaseInv, NEW p \in Processes, lease[p].at \in {"held", "unlink"}
  PROVE  /\ path = lease[p].file /\ path \in Opened
         /\ \A q \in Processes : HasLocked(q) /\ lease[q].file = path => q = p
BY DEF LeaseInv, LockInv, Opened, HasOpen, HasLocked

\* A path stays its holder's when it is left alone or nobody else holds it, and the
\* attempt that moves claims no other.
LEMMA BecomesKeepsPath ==
  ASSUME LeaseInv, NEW p \in Processes, NEW r, AttemptBecomes(p, r),
         path' = path \/ \A q \in Processes : q # p => lease[q].at \notin {"held", "unlink"},
         lease'[p].at = "unlink" =>
           path' = path /\ PathHeld(p) /\ Holds(p) /\ lease'[p].before = lease[p].before,
         platform = "posix" =>
           /\ lease'[p].at \notin {"recheck", "reunlink"}
           /\ lease'[p].at = "close" => lease'[p].unlinked
  PROVE  LeaseInv'
<1>1. LockInv'
  BY BecomesKeepsLocks DEF LeaseInv
<1>2. /\ lease'[p] = r
      /\ \A q \in Processes : q # p => lease'[q] = lease[q]
  BY DEF LeaseInv, LockInv, LeaseTypeOK, AttemptBecomes
<1>3. ASSUME NEW q \in Processes
      PROVE  /\ lease'[q].at \in {"held", "unlink"} => PathHeld(q)' /\ lease'[q].file = path'
             /\ platform' = "posix" =>
                  /\ lease'[q].at \notin {"recheck", "reunlink"}
                  /\ lease'[q].at = "close" => lease'[q].unlinked
  <2>1. CASE q = p
    <3>1. r.at = "held" => r.before = path' /\ r.file = path'
      BY <1>1, <1>2 DEF AttemptBecomes, LockInv, Holds
    <3>2. r.at = "unlink" => r.before = path' /\ r.file = path'
      BY <1>2 DEF AttemptBecomes, LeaseInv, PathHeld, Holds
    <3> QED
      BY <1>2, <2>1, <3>1, <3>2 DEF AttemptBecomes, PathHeld
  <2>2. CASE q # p
    BY <1>2, <2>2 DEF AttemptBecomes, LeaseInv, PathHeld
  <2> QED
    BY <2>1, <2>2
<1> QED
  BY <1>1, <1>3 DEF LeaseInv

LEMMA OpenKeepsPath ==
  ASSUME ~Reuse, LeaseInv, NEW p \in Processes, Open(p)
  PROVE  LeaseInv'
<1>1. LockInv'
  BY OpenKeepsLocks DEF LeaseInv
<1>2. PICK f \in Files :
           /\ path = f \/ (path = NoFile /\ f \notin spent)
           /\ path' = f /\ UNCHANGED platform
           /\ lease'[p].at = "lock"
           /\ \A q \in Processes : q # p => lease'[q] = lease[q]
  BY Opens DEF LeaseInv
<1>3. ASSUME NEW q \in Processes
      PROVE  /\ lease'[q].at \in {"held", "unlink"} => PathHeld(q)' /\ lease'[q].file = path'
             /\ platform' = "posix" =>
                  /\ lease'[q].at \notin {"recheck", "reunlink"}
                  /\ lease'[q].at = "close" => lease'[q].unlinked
  <2>1. CASE q = p
    BY <1>2, <2>1
  <2>2. CASE q # p
    <3>1. lease[q].at \in {"held", "unlink"} => lease[q].file \in spent /\ lease[q].file = path
      BY DEF LeaseInv, LockInv, HasOpen
    <3>2. NoFile \notin spent
      BY DEF LeaseInv, LockInv, LeaseTypeOK
    <3> QED
      BY <1>2, <2>2, <3>1, <3>2 DEF LeaseInv, PathHeld
  <2> QED
    BY <2>1, <2>2
<1> QED
  BY <1>1, <1>3 DEF LeaseInv

\* Every step of the lease keeps the invariant.
LEMMA InvNext ==
  ASSUME ~Reuse, ~RemovalFails, LeaseInv, [LeaseNext]_leaseVars
  PROVE  LeaseInv'
<1>1. ASSUME NEW p \in Processes, NEW r, AttemptBecomes(p, r)
      PROVE  lease'[p] = r /\ r \in Attempt /\ lease[p] \in Attempt
  BY <1>1 DEF LeaseInv, LockInv, LeaseTypeOK, AttemptBecomes
<1>2. ASSUME NEW p \in Processes,
             \/ Request(p) \/ Look(p) \/ Lock(p) \/ Retry(p) \/ Check(p)
             \/ Probe(p) \/ ProbeLocks(p) \/ ProbeEnds(p) \/ Crash(p)
      PROVE  LeaseInv'
  <2>1. PICK r : AttemptBecomes(p, r)
    BY <1>2, StepBecomes DEF LeaseInv
  <2>2. path' = path
    BY <1>2 DEF Request, Look, Lock, Retry, Check, Probe, ProbeLocks, ProbeEnds, Crash, SamePath
  <2>3. lease \in [Processes -> Attempt]
    BY DEF LeaseInv, LockInv, LeaseTypeOK
  <2>4. ASSUME NEW next \in Stages
        PROVE  /\ Goes(p, next) => lease'[p].at = next
               /\ lease' = [lease EXCEPT ![p] = [Idle EXCEPT !.at = next]] => lease'[p].at = next
    BY <2>3 DEF Goes, Idle, Attempt
  <2>5. Gone(p) => lease'[p].at = "idle"
    BY <2>3 DEF Gone, Idle
  <2>6. lease'[p].at \in {"look", "open", "check", "idle", "held", "probe", "probing"}
    <3>1. CASE Request(p) \/ Lock(p)
      BY <2>4, <3>1 DEF Request, Lock, Stages
    <3>2. CASE Retry(p) \/ Check(p)
      <4>1. \/ Goes(p, "held")
            \/ \E next \in {"look", "idle"} : lease' = [lease EXCEPT ![p] = [Idle EXCEPT !.at = next]]
        BY <3>2 DEF Retry, Check
      <4> QED
        BY <2>4, <4>1 DEF Stages
    <3>3. CASE Look(p)
      <4>1. lease'[p] = [Idle EXCEPT !.at = "open", !.before = path]
        BY <2>3, <3>3 DEF Look
      <4> QED
        BY <4>1 DEF Idle
    <3>4. CASE Probe(p)
      BY <1>1, <2>1, <2>3, <3>4 DEF Probe, Attempt
    <3>5. CASE ProbeLocks(p) \/ ProbeEnds(p) \/ Crash(p)
      BY <2>4, <2>5, <3>5 DEF ProbeLocks, ProbeEnds, Crash, Stages
    <3> QED
      BY <1>2, <3>1, <3>2, <3>3, <3>4, <3>5
  <2> QED
    BY <2>1, <2>2, <2>6, BecomesKeepsPath
<1>3. ASSUME NEW p \in Processes, LeaseCloses(p)
      PROVE  LeaseInv'
  <2>1. PICK r : AttemptBecomes(p, r)
    BY <1>3, StepBecomes DEF LeaseInv
  <2>2. /\ Holds(p) /\ path' = path
        /\ lease' = [lease EXCEPT ![p].at = IF Removable(p) THEN "unlink" ELSE "close",
                                  ![p].unlinked = ~Removable(p)]
    BY <1>3 DEF LeaseCloses, SamePath
  <2> DEFINE at == IF Removable(p) THEN "unlink" ELSE "close"
             unlinked == ~Removable(p)
  <2> HIDE DEF at, unlinked
  <2>3. lease'[p].at = at /\ lease'[p].unlinked = unlinked /\ lease'[p].before = lease[p].before
    <3>1. lease' = [lease EXCEPT ![p].at = at, ![p].unlinked = unlinked]
      BY <2>2 DEF at, unlinked
    <3> QED
      BY <3>1 DEF LeaseInv, LockInv, LeaseTypeOK, Attempt
  <2>4. CASE Removable(p)
    <3>1. lease'[p].at = "unlink" /\ lease'[p].before = lease[p].before /\ PathHeld(p)
      BY <2>4, <2>3 DEF at, Removable
    <3> QED
      BY <2>1, <2>2, <3>1, BecomesKeepsPath
  <2>5. CASE ~Removable(p)
    <3>1. lease'[p].at = "close" /\ lease'[p].unlinked
      BY <2>5, <2>3 DEF at, unlinked
    <3> QED
      BY <2>1, <2>2, <3>1, BecomesKeepsPath
  <2> QED
    BY <2>4, <2>5
<1>4. ASSUME NEW p \in Processes, Unlink(p)
      PROVE  LeaseInv'
  <2>1. PICK r : AttemptBecomes(p, r)
    BY <1>4, StepBecomes DEF LeaseInv
  <2>2. lease[p].at = "unlink" /\ path \in Opened
    BY <1>4, HeldIsOpen DEF Unlink
  <2>3. \A q \in Processes : q # p => lease[q].at \notin {"held", "unlink"}
    BY <2>2, HeldIsOpen DEF HasLocked
  <2>4. lease'[p].at = "close" /\ (platform = "posix" => lease'[p].unlinked)
    BY <1>1, <1>4, <2>1, <2>2 DEF Unlink, CanUnlink, Goes, LeaseInv, LockInv, LeaseTypeOK, Attempt
  <2> QED
    BY <2>1, <2>3, <2>4, BecomesKeepsPath
<1>5. ASSUME NEW p \in Processes, Close(p) \/ Recheck(p)
      PROVE  LeaseInv'
  <2>1. PICK r : AttemptBecomes(p, r)
    BY <1>5, StepBecomes DEF LeaseInv
  <2>2. path' = path /\ (platform = "posix" => Gone(p))
    BY <1>5 DEF Close, Recheck, SamePath, LeaseInv
  <2>3. Gone(p) => lease'[p] = Idle
    BY <1>1, <2>1 DEF Gone, LeaseInv, LockInv, LeaseTypeOK
  <2>4. Gone(p) \/ Goes(p, "recheck") \/ Goes(p, "reunlink")
    BY <1>5 DEF Close, Recheck
  <2>5. lease'[p].at \in {"idle", "recheck", "reunlink"}
    BY <1>1, <2>1, <2>3, <2>4 DEF Goes, Idle, LeaseInv, LockInv, LeaseTypeOK, Attempt
  <2> QED
    BY <2>1, <2>2, <2>3, <2>5, BecomesKeepsPath DEF Idle
<1>6. ASSUME NEW p \in Processes, Reunlink(p)
      PROVE  LeaseInv'
  <2>1. PICK r : AttemptBecomes(p, r)
    BY <1>6, StepBecomes DEF LeaseInv
  <2>2. platform # "posix" /\ lease'[p] = Idle
    BY <1>6 DEF Reunlink, Gone, LeaseInv, LockInv, LeaseTypeOK
  <2>3. path' = path \/ path \notin Opened
    BY <1>6, <2>2 DEF Reunlink, CanUnlink
  <2>4. path' = path \/ \A q \in Processes : lease[q].at \notin {"held", "unlink"}
    BY <2>3, HeldIsOpen
  <2> QED
    BY <2>1, <2>2, <2>4, BecomesKeepsPath DEF Idle
<1>7. ASSUME NEW value \in BOOLEAN, Registers(value)
      PROVE  LeaseInv'
  BY <1>7, LockNext DEF Registers, LeaseInv, PathHeld, LeaseNext
<1>8. CASE UNCHANGED leaseVars
  BY <1>8, LockNext DEF leaseVars, LeaseInv, PathHeld
<1> QED
  BY <1>2, <1>3, <1>4, <1>5, <1>6, <1>7, <1>8, OpenKeepsPath DEF LeaseNext, LeaseRuns

\* The lease's invariant: whatever waiters open and probers lock, and wherever
\* processes crash, a lock, a path and an identity stay tied (Lease.ts:110-239).
THEOREM LeaseInvariant ==
  ASSUME ~Reuse, ~RemovalFails
  PROVE  LeaseSpec => []LeaseInv
<1>1. LeaseInv /\ [LeaseNext]_leaseVars => LeaseInv'
  BY InvNext
<1> QED
  BY <1>1, InvInit, PTL DEF LeaseSpec

\* Types are correct.
THEOREM LeaseTypeCorrect == LeaseSpec => []LeaseTypeOK
<1>1. LeaseInit => LeaseTypeOK
  BY InvInit DEF LeaseInv, LockInv
<1>2. LeaseTypeOK /\ [LeaseNext]_leaseVars => LeaseTypeOK'
  BY TypeNext
<1> QED
  BY <1>1, <1>2, PTL DEF LeaseSpec

\* A holder's path names the file it has locked.
THEOREM HoldersKeepPath ==
  ASSUME ~Reuse, ~RemovalFails
  PROVE  LeaseSpec => []HolderKeepsPath
<1>1. LeaseInv => HolderKeepsPath
  BY DEF LeaseInv, HolderKeepsPath, Holds
<1> QED
  BY <1>1, LeaseInvariant, PTL

-----------------------------------------------------------------------------
(* The exclusive owner.                                                    *)

Owners == {p \in Processes : Rightful(p)}

\* Only one process is rightful, and it has locked the file that the path names.
LEMMA OwnersLock ==
  ASSUME LockInv, NEW p \in Processes, NEW q \in Processes
  PROVE  /\ Rightful(p) => lease[p].file = path /\ HasLocked(p) /\ path # NoFile
         /\ Rightful(p) /\ Rightful(q) => p = q
<1>1. ASSUME NEW o \in Processes, Rightful(o)
      PROVE  lease[o].file = path /\ HasLocked(o) /\ path # NoFile
  <2>1. lease[o].at = "held" /\ lease[o].before = path /\ lease[o].before = lease[o].file
    BY <1>1 DEF LockInv, Rightful, Holds, PathHeld
  <2>2. lease[o].file \in spent /\ NoFile \notin spent
    BY <2>1 DEF LockInv, LeaseTypeOK, HasOpen
  <2> QED
    BY <2>1, <2>2 DEF HasLocked
<1> QED
  BY <1>1 DEF LockInv

\* An owner that alone lets go, and steps that leave the owners alone, are allowed.
LEMMA OwnersLetGo ==
  ASSUME LockInv, Owners' = {} \/ Owners' = Owners
  PROVE  [Promise!Next]_Owners
<1>1. CASE Owners' = Owners
  BY <1>1
<1>2. CASE Owners' = {} /\ Owners # {}
  <2>1. PICK p \in Processes : Rightful(p)
    BY <1>2 DEF Owners
  <2>2. Owners = {p}
    BY <2>1, OwnersLock DEF Owners
  <2>3. Promise!LetGo(p)
    BY <1>2, <2>2 DEF Promise!LetGo, Owners
  <2> QED
    BY <2>3 DEF Promise!Next
<1> QED
  BY <1>1, <1>2

\* A step of one attempt acquires the lease when nobody owns it, or lets go.
LEMMA BecomesImplements ==
  ASSUME LockInv, NEW p \in Processes, NEW r, AttemptBecomes(p, r)
  PROVE  [Promise!Next]_Owners
<1>1. /\ lease'[p] = r
      /\ \A q \in Processes : q # p => lease'[q] = lease[q]
  BY DEF LockInv, LeaseTypeOK, AttemptBecomes
<1>2. NoFile \notin spent /\ LockInv'
  BY BecomesKeepsLocks DEF LockInv, LeaseTypeOK
<1>3. CASE path' = NoFile
  <2>1. Owners' = {}
    BY <1>2, <1>3, OwnersLock DEF Owners, LockInv, Rightful, Holds, PathHeld, HasOpen, LeaseTypeOK
  <2> QED
    BY <2>1, OwnersLetGo
<1>4. CASE path' = path /\ r.at = "held"
  <2>1. /\ lease[p].at = "check" /\ path # NoFile /\ r.before = path /\ r.file = lease[p].file
        /\ lease[p].file = path
    BY <1>4 DEF AttemptBecomes, SameFile, LockInv
  <2>2. \A q \in Processes : ~Rightful(q)
    <3>1. ASSUME NEW q \in Processes, Rightful(q)
          PROVE  FALSE
      <4>1. lease[q].file = path /\ HasLocked(q) /\ lease[q].at = "held"
        BY <3>1, OwnersLock DEF Rightful, Holds
      <4> QED
        BY <2>1, <4>1 DEF LockInv, HasLocked
    <3> QED
      BY <3>1
  <2>3. \A q \in Processes : Rightful(q)' <=> q = p
    BY <1>1, <1>4, <2>1, <2>2 DEF Rightful, Holds, PathHeld
  <2>4. Owners = {} /\ Owners' = {p}
    BY <2>2, <2>3 DEF Owners
  <2> QED
    BY <2>4 DEF Promise!Next, Promise!Acquire, Owners
<1>5. CASE path' = path /\ r.at # "held"
  <2>1. \A q \in Processes : Rightful(q)' <=> Rightful(q) /\ q # p
    BY <1>1, <1>5 DEF Rightful, Holds, PathHeld
  <2>2. CASE Rightful(p)
    <3>1. Owners' = Owners \ {p} /\ p \in Owners
      BY <2>1, <2>2 DEF Owners
    <3> QED
      BY <3>1 DEF Promise!Next, Promise!LetGo, Owners
  <2>3. CASE ~Rightful(p)
    <3>1. Owners' = Owners
      BY <2>1, <2>3 DEF Owners
    <3> QED
      BY <3>1
  <2> QED
    BY <2>2, <2>3
<1> QED
  BY <1>3, <1>4, <1>5 DEF AttemptBecomes

LEMMA StepImplements ==
  ASSUME ~Reuse, LockInv, [LeaseNext]_leaseVars
  PROVE  [Promise!Next]_Owners
<1>1. ASSUME NEW p \in Processes, Open(p)
      PROVE  [Promise!Next]_Owners
  <2>1. PICK f \in Files :
           /\ path = f \/ (path = NoFile /\ f \notin spent)
           /\ path' = f /\ lease[p].at = "open" /\ lease'[p].at = "lock"
           /\ \A q \in Processes : q # p => lease'[q] = lease[q]
    BY <1>1, Opens
  <2>2. \A q \in Processes : Holds(q)' <=> Holds(q)
    BY <2>1 DEF Holds
  <2>3. \A q \in Processes : Rightful(q)' <=> Rightful(q)
    <3> SUFFICES ASSUME NEW q \in Processes, Holds(q)
                 PROVE  PathHeld(q)' <=> PathHeld(q)
      BY <2>2 DEF Rightful
    <3>1. lease'[q] = lease[q] /\ lease[q].before \in spent /\ NoFile \notin spent
      BY <2>1 DEF Holds, LockInv, HasOpen, LeaseTypeOK
    <3> QED
      BY <2>1, <3>1 DEF PathHeld
  <2>4. Owners' = Owners
    BY <2>3 DEF Owners
  <2> QED
    BY <2>4
<1>2. ASSUME UNCHANGED <<path, lease>>
      PROVE  [Promise!Next]_Owners
  <2>1. Owners' = Owners
    BY <1>2 DEF Owners, Rightful, Holds, PathHeld
  <2> QED
    BY <2>1
<1>3. ASSUME NEW value \in BOOLEAN, Registers(value)
      PROVE  [Promise!Next]_Owners
  BY <1>2, <1>3 DEF Registers
<1>4. CASE UNCHANGED leaseVars
  BY <1>2, <1>4 DEF leaseVars
<1> QED
  BY <1>1, <1>3, <1>4, StepBecomes, BecomesImplements DEF LeaseNext, LeaseRuns

LEMMA StartsUnowned == LeaseInit => Promise!Init
BY DEF LeaseInit, Promise!Init, Rightful, Holds, Idle

\* The lease implements an exclusive owner: acquireLease returns to one process at a
\* time (Lease.ts:143-184), for any number of processes and whatever removals fail.
THEOREM LeaseExcludes ==
  ASSUME ~Reuse
  PROVE  LeaseSpec => OneOwner
<1>1. LeaseInit => LockInv
  BY InvInit DEF LeaseInv
<1>2. LockInv /\ [LeaseNext]_leaseVars => LockInv'
  BY LockNext
<1>3. LockInv /\ [LeaseNext]_leaseVars => [Promise!Next]_({p \in Processes : Rightful(p)})
  BY StepImplements DEF Owners
<1> QED
  BY <1>1, <1>2, <1>3, StartsUnowned, PTL DEF LeaseSpec, OneOwner, Promise!Spec

USE OwnershipAssumption

-----------------------------------------------------------------------------
(* Steps of the lease inside a job.                                        *)

Asking == {"look", "open", "lock", "check"}

\* A stage that is set is the stage that is read, and nobody else's moves.
LEMMA Stage ==
  ASSUME LeaseTypeOK, NEW p \in Processes
  PROVE  /\ \A at \in Stages :
              \/ Goes(p, at)
              \/ lease' = [lease EXCEPT ![p] = [Idle EXCEPT !.at = at]]
              => lease'[p].at = at /\ \A q \in Processes \ {p} : lease'[q] = lease[q]
         /\ Gone(p) => lease'[p].at = "idle" /\ \A q \in Processes \ {p} : lease'[q] = lease[q]
<1>1. lease \in [Processes -> Attempt] /\ Idle.at = "idle"
  BY DEF LeaseTypeOK, Idle
<1>2. ASSUME NEW at \in Stages, Goes(p, at)
      PROVE  lease'[p].at = at /\ \A q \in Processes \ {p} : lease'[q] = lease[q]
  BY <1>1, <1>2 DEF Goes, Attempt
<1>3. ASSUME NEW at \in Stages, lease' = [lease EXCEPT ![p] = [Idle EXCEPT !.at = at]]
      PROVE  lease'[p].at = at /\ \A q \in Processes \ {p} : lease'[q] = lease[q]
  <2>1. lease'[p] = [Idle EXCEPT !.at = at] /\ \A q \in Processes \ {p} : lease'[q] = lease[q]
    BY <1>1, <1>3
  <2> QED
    BY <2>1 DEF Idle
<1>4. Gone(p) => lease'[p].at = "idle" /\ \A q \in Processes \ {p} : lease'[q] = lease[q]
  BY <1>1 DEF Gone
<1> QED
  BY <1>2, <1>3, <1>4

\* What runs on its own asks or holds only after it asked, and never on a held lease.
LEMMA RunsOn ==
  ASSUME LeaseTypeOK, NEW p \in Processes, LeaseRuns(p)
  PROVE  /\ ~Holds(p)
         /\ lease'[p].at \in Asking \union {"held"} => lease[p].at \in Asking
         /\ \A q \in Processes \ {p} : lease'[q] = lease[q]
<1>1. CASE Look(p)
  <2>1. /\ lease'[p] = [Idle EXCEPT !.at = "open", !.before = path]
        /\ \A q \in Processes \ {p} : lease'[q] = lease[q]
    BY <1>1 DEF Look, LeaseTypeOK
  <2> QED
    BY <1>1, <2>1 DEF Look, Holds, Asking
<1>2. CASE Open(p)
  BY <1>2 DEF Open, LeaseTypeOK, Attempt, Holds, Asking
<1>3. CASE Lock(p)
  BY <1>3, Stage DEF Lock, Stages, Holds, Asking
<1>4. CASE Retry(p)
  <2>1. lease[p].at \in {"lock", "open"}
    BY <1>4 DEF Retry
  <2>2. PICK at \in {"look", "idle"} : lease' = [lease EXCEPT ![p] = [Idle EXCEPT !.at = at]]
    BY <1>4 DEF Retry
  <2> QED
    BY <2>1, <2>2, Stage DEF Stages, Holds, Asking
<1>5. CASE Check(p)
  <2>1. lease[p].at = "check"
    BY <1>5 DEF Check
  <2>2. \/ Goes(p, "held")
        \/ \E at \in {"look", "idle"} : lease' = [lease EXCEPT ![p] = [Idle EXCEPT !.at = at]]
    BY <1>5 DEF Check
  <2>3. \A q \in Processes \ {p} : lease'[q] = lease[q]
    BY <2>2, Stage DEF Stages
  <2> QED
    BY <2>1, <2>3 DEF Holds, Asking
<1>6. CASE Unlink(p)
  <2>1. lease[p].at = "unlink"
    BY <1>6 DEF Unlink
  <2>2. \/ Goes(p, "close")
        \/ lease' = [lease EXCEPT ![p].at = "close", ![p].unlinked = TRUE]
    BY <1>6 DEF Unlink
  <2>3. lease'[p].at = "close" /\ \A q \in Processes \ {p} : lease'[q] = lease[q]
    <3>1. CASE Goes(p, "close")
      BY <3>1, Stage DEF Stages
    <3>2. CASE lease' = [lease EXCEPT ![p].at = "close", ![p].unlinked = TRUE]
      BY <3>2 DEF LeaseTypeOK, Attempt
    <3> QED
      BY <2>2, <3>1, <3>2
  <2> QED
    BY <2>1, <2>3 DEF Holds, Asking
<1>7. CASE Close(p) \/ Recheck(p) \/ Reunlink(p)
  <2>1. lease[p].at \in {"close", "recheck", "reunlink"}
    BY <1>7 DEF Close, Recheck, Reunlink
  <2>2. Gone(p) \/ Goes(p, "recheck") \/ Goes(p, "reunlink")
    BY <1>7 DEF Close, Recheck, Reunlink
  <2> QED
    BY <2>1, <2>2, Stage DEF Stages, Holds, Asking
<1>8. CASE ProbeLocks(p) \/ ProbeEnds(p)
  <2>1. lease[p].at \in {"probe", "probing"}
    BY <1>8 DEF ProbeLocks, ProbeEnds
  <2>2. Gone(p) \/ Goes(p, "probing")
    BY <1>8 DEF ProbeLocks, ProbeEnds
  <2> QED
    BY <2>1, <2>2, Stage DEF Stages, Holds, Asking
<1> QED
  BY <1>1, <1>2, <1>3, <1>4, <1>5, <1>6, <1>7, <1>8 DEF LeaseRuns

\* A lease whose scope closes is no longer held.
LEMMA ClosesOn ==
  ASSUME LeaseTypeOK, NEW p \in Processes, LeaseCloses(p)
  PROVE  /\ lease'[p].at \in {"unlink", "close"}
         /\ \A q \in Processes \ {p} : lease'[q] = lease[q]
<1>1. CASE Goes(p, "close")
  BY <1>1, Stage DEF Stages
<1>2. ASSUME NEW at \in {"unlink", "close"}, NEW unlinked,
             lease' = [lease EXCEPT ![p].at = at, ![p].unlinked = unlinked]
      PROVE  lease'[p].at = at /\ \A q \in Processes \ {p} : lease'[q] = lease[q]
  BY <1>2 DEF LeaseTypeOK, Attempt
<1> QED
  BY <1>1, <1>2 DEF LeaseCloses

\* Every step but the deletion of the directory is one of the lease's, or none.
LEMMA LeaseSteps ==
  ASSUME [Next]_vars, ~Wipe
  PROVE  [LeaseNext]_leaseVars
<1>1. ASSUME NEW p \in Processes,
             \/ Begin(p) \/ Asks(p) \/ LeaseStep(p) \/ Dies(p) \/ LeaseEnds(p)
      PROVE  LeaseNext
  BY <1>1 DEF Begin, Asks, LeaseStep, Dies, LeaseEnds, LeaseNext
<1>2. ASSUME NEW p \in Processes, Register(p) \/ Withdraw(p) \/ Unregister(p)
      PROVE  [LeaseNext]_leaseVars
  BY <1>2 DEF Register, Withdraw, Unregister, Removes, LeaseNext
<1>3. ASSUME NEW p \in Processes,
             \/ Ends(p) \/ Retract(p) \/ Read(p) \/ Clean(p) \/ PublishHolder(p)
             \/ Poll(p) \/ StopNamespace(p) \/ Sweep(p) \/ MarkSweep(p) \/ Reclaim(p) \/ Leave(p)
             \/ StartFails(p) \/ Launch(p) \/ Shutdown(p) \/ Fails(p)
      PROVE  UNCHANGED leaseVars
  BY <1>3 DEF Ends, Retract, Read, Clean, PublishHolder, Poll, StopNamespace, Sweep, MarkSweep,
              Reclaim, Leave, StartFails, Launch, Shutdown, Fails
<1>4. CASE ClientRegisters
  BY <1>4 DEF ClientRegisters, LeaseNext
<1>5. CASE UNCHANGED vars
  BY <1>5 DEF vars
<1> QED
  BY <1>1, <1>2, <1>3, <1>4, <1>5 DEF Next, JobRuns

-----------------------------------------------------------------------------
(* Types and jobs.                                                         *)

Points == {"acquire", "register", "read", "clean", "publish", "up", "stop", "sweep",
           "unregister", "failed", "leave", "gone"}
Modes == {"none", "stop", "destroy", "release"}

\* A job that is moved or turned is where it was put, and nobody else's moves.
LEMMA Moved ==
  ASSUME job \in [Processes -> Job], NEW p \in Processes, NEW at \in Points, Moves(p, at)
  PROVE  /\ job' \in [Processes -> Job]
         /\ job'[p].at = at /\ job'[p].kind = job[p].kind /\ job'[p].mode = job[p].mode
         /\ \A q \in Processes \ {p} : job'[q] = job[q]
BY DEF Moves, Job, Points

Turns(p, at, mode) == job' = [job EXCEPT ![p].at = at, ![p].mode = mode]

LEMMA Turned ==
  ASSUME job \in [Processes -> Job], NEW p \in Processes, NEW at \in Points, NEW mode \in Modes,
         Turns(p, at, mode)
  PROVE  /\ job' \in [Processes -> Job]
         /\ job'[p].at = at /\ job'[p].kind = job[p].kind /\ job'[p].mode = mode
         /\ \A q \in Processes \ {p} : job'[q] = job[q]
<1> DEFINE turned == [job[p] EXCEPT !.at = at, !.mode = mode]
<1>1. job[p] \in Job
  OBVIOUS
<1>2. /\ turned \in Job
      /\ turned.at = at /\ turned.kind = job[p].kind /\ turned.mode = mode
  BY <1>1 DEF Job, Points, Modes
<1>3. job' = [job EXCEPT ![p] = turned]
  BY DEF Turns
<1> HIDE DEF turned
<1> QED
  BY <1>2, <1>3

\* The steps that only move a holder's job, and where to when it gives up the stack.
HolderMoves(p) ==
  \/ Retract(p) \/ Register(p) \/ Read(p) \/ Clean(p) \/ PublishHolder(p) \/ StartFails(p)
  \/ Withdraw(p) \/ StopNamespace(p) \/ Sweep(p) \/ Unregister(p) \/ Fails(p)
  \/ MarkSweep(p) \/ Leave(p)

LEMMA MovesOn ==
  ASSUME NEW p \in Processes, HolderMoves(p)
  PROVE  /\ Holds(p) /\ UNCHANGED <<path, lease, wiped>>
         /\ \E at \in Points :
              /\ Moves(p, at)
              /\ job[p].at \in {"stop", "leave", "gone"} /\ job[p].mode = "release" =>
                   at \in {"leave", "gone"}
<1>1. CASE Retract(p) \/ Register(p) \/ Read(p) \/ Clean(p)
  BY <1>1 DEF Retract, Register, Registers, Read, Clean, At, Points, leaseVars
<1>2. CASE PublishHolder(p) \/ StartFails(p) \/ MarkSweep(p)
  BY <1>2 DEF PublishHolder, StartFails, MarkSweep, At, Points, leaseVars
<1>3. CASE Withdraw(p) \/ Unregister(p)
  BY <1>3 DEF Withdraw, Unregister, Removes, Registers, At, Points, leaseVars
<1>4. CASE StopNamespace(p) \/ Sweep(p)
  BY <1>4 DEF StopNamespace, Sweep, Points, leaseVars
<1>5. CASE Fails(p) \/ Leave(p)
  BY <1>5 DEF Fails, Leave, Points, leaseVars
<1> QED
  BY <1>1, <1>2, <1>3, <1>4, <1>5 DEF HolderMoves, leaseVars

HolderTurns(p) == Shutdown(p) \/ Poll(p) \/ Reclaim(p)

LEMMA TurnsOn ==
  ASSUME NEW p \in Processes, HolderTurns(p)
  PROVE  /\ Holds(p) /\ UNCHANGED <<leaseVars, lifetime, record, containers, wiped>>
         /\ \E at \in Points, mode \in Modes :
              /\ Turns(p, at, mode)
              /\ mode = "release" => at = "stop"
<1>1. CASE Shutdown(p)
  BY <1>1 DEF Shutdown, At, Points, Modes, Turns
<1>2. CASE Poll(p)
  BY <1>2 DEF Poll, At, Points, Modes, Turns
<1>3. CASE Reclaim(p)
  <2> DEFINE at == IF registered # (job[p].kind = "reclaim") THEN "leave"
                   ELSE IF Disposable THEN "stop" ELSE "sweep"
             mode == IF Disposable THEN "destroy" ELSE "none"
  <2>1. at \in Points /\ mode \in Modes /\ mode # "release"
    BY DEF Points, Modes
  <2>2. Turns(p, at, mode)
    BY <1>3 DEF Reclaim, Turns
  <2>3. Holds(p) /\ UNCHANGED <<leaseVars, lifetime, record, containers, wiped>>
    BY <1>3 DEF Reclaim, At
  <2> HIDE DEF at, mode
  <2> QED
    BY <2>1, <2>2, <2>3
<1> QED
  BY <1>1, <1>2, <1>3 DEF HolderTurns

\* What a process does around its lease.
AroundLease(p) ==
  Begin(p) \/ Asks(p) \/ Ends(p) \/ LeaseStep(p) \/ LeaseEnds(p) \/ Dies(p)

LEMMA Steps ==
  ASSUME [Next]_vars
  PROVE  \/ \E p \in Processes :
              HolderMoves(p) \/ HolderTurns(p) \/ Launch(p) \/ AroundLease(p)
         \/ ClientRegisters \/ Wipe \/ UNCHANGED vars
BY DEF Next, JobRuns, HolderMoves, HolderTurns, AroundLease

\* Around the lease only a new job is at "acquire" with a lease that asks, and nobody
\* holds it newly who is elsewhere.
LEMMA AroundOn ==
  ASSUME OwnershipTypeOK, JobInv, NEW p \in Processes, AroundLease(p)
  PROVE  /\ UNCHANGED <<lifetime, record, containers, wiped>>
         /\ job' \in [Processes -> Job]
         /\ \A q \in Processes \ {p} : lease'[q] = lease[q] /\ job'[q] = job[q]
         /\ lease'[p].at \in Asking \union {"held"} => job'[p].at = "acquire"
         /\ job'[p] # job[p] => ~Holds(p) \/ ~Holds(p)'
         /\ job'[p].mode = "release" => job'[p].at \in {"stop", "leave", "gone"}
<1>1. job \in [Processes -> Job] /\ LeaseTypeOK /\ NoJob \in Job
  BY DEF OwnershipTypeOK, Job, NoJob
<1>2. CASE Begin(p)
  <2>1. PICK kind \in Jobs \ {"ask"} : job' = [job EXCEPT ![p] = [NoJob EXCEPT !.kind = kind, !.at = "acquire"]]
    BY <1>2 DEF Begin
  <2> DEFINE j == [NoJob EXCEPT !.kind = kind, !.at = "acquire"]
  <2>2. j \in Job /\ j.at = "acquire" /\ j.mode = "none"
    BY DEF NoJob, Job, Owning, Sweeping
  <2>3. job' = [job EXCEPT ![p] = j]
    BY <2>1
  <2> HIDE DEF j
  <2>4. job' \in [Processes -> Job] /\ job'[p] = j /\ \A q \in Processes \ {p} : job'[q] = job[q]
    BY <1>1, <2>2, <2>3
  <2>5. Goes(p, "look") /\ lease[p].at = "idle" /\ UNCHANGED <<lifetime, record, containers, wiped>>
    BY <1>2 DEF Begin, Request
  <2>6. \A q \in Processes \ {p} : lease'[q] = lease[q]
    BY <1>1, <2>5, Stage DEF Stages
  <2> QED
    BY <2>2, <2>4, <2>5, <2>6 DEF Holds
<1>3. CASE Asks(p)
  <2>1. lease' = [lease EXCEPT ![p].at = "probe", ![p].file = path] /\ UNCHANGED ownVars
    BY <1>3 DEF Asks, Probe
  <2>2. lease'[p].at = "probe" /\ \A q \in Processes \ {p} : lease'[q] = lease[q]
    BY <1>1, <2>1 DEF LeaseTypeOK, Attempt
  <2> QED
    BY <1>1, <2>1, <2>2 DEF ownVars, Asking, JobInv
<1>4. CASE Ends(p)
  <2>1. /\ lease[p].at = "idle" /\ job' = [job EXCEPT ![p] = NoJob]
        /\ UNCHANGED <<leaseVars, lifetime, record, containers, wiped>>
    BY <1>4 DEF Ends
  <2> QED
    BY <1>1, <2>1 DEF leaseVars, Holds, Asking, NoJob
<1>5. CASE LeaseStep(p)
  <2>1. LeaseRuns(p) /\ UNCHANGED ownVars
    BY <1>5 DEF LeaseStep
  <2>2. lease'[p].at \in Asking \union {"held"} => lease[p].at \in Asking
    BY <1>1, <2>1, RunsOn
  <2>3. \A q \in Processes \ {p} : lease'[q] = lease[q]
    BY <1>1, <2>1, RunsOn
  <2> QED
    BY <1>1, <2>1, <2>2, <2>3 DEF ownVars, Asking, JobInv
<1>6. CASE LeaseEnds(p)
  <2>1. LeaseCloses(p) /\ UNCHANGED ownVars
    BY <1>6 DEF LeaseEnds
  <2> QED
    BY <1>1, <2>1, ClosesOn DEF ownVars, Asking, JobInv
<1>7. CASE Dies(p)
  <2>1. /\ Gone(p) /\ job' = [job EXCEPT ![p] = NoJob]
        /\ UNCHANGED <<lifetime, record, containers, wiped>>
    BY <1>7 DEF Dies, Crash
  <2> QED
    BY <1>1, <2>1, Stage DEF Holds, Asking, NoJob
<1> QED
  BY <1>2, <1>3, <1>4, <1>5, <1>6, <1>7 DEF AroundLease

\* Every step keeps what a job says of its lease.
LEMMA JobNext ==
  ASSUME OwnershipTypeOK, JobInv, [Next]_vars
  PROVE  JobInv' /\ job' \in [Processes -> Job]
<1>1. job \in [Processes -> Job]
  BY DEF OwnershipTypeOK
<1>2. ASSUME NEW p \in Processes, HolderMoves(p)
      PROVE  JobInv' /\ job' \in [Processes -> Job]
  <2>1. PICK at \in Points :
           /\ Moves(p, at)
           /\ job[p].at \in {"stop", "leave", "gone"} /\ job[p].mode = "release" =>
                at \in {"leave", "gone"}
    BY <1>2, MovesOn
  <2>2. Holds(p) /\ UNCHANGED lease
    BY <1>2, MovesOn
  <2>3. /\ job' \in [Processes -> Job]
        /\ job'[p].at = at /\ job'[p].mode = job[p].mode
        /\ \A q \in Processes \ {p} : job'[q] = job[q]
    BY <1>1, <2>1, Moved
  <2> QED
    BY <2>1, <2>2, <2>3 DEF JobInv, Holds
<1>3. ASSUME NEW p \in Processes, HolderTurns(p)
      PROVE  JobInv' /\ job' \in [Processes -> Job]
  <2>1. PICK at \in Points, mode \in Modes :
           Turns(p, at, mode) /\ (mode = "release" => at = "stop")
    BY <1>3, TurnsOn
  <2>2. Holds(p) /\ UNCHANGED lease
    BY <1>3, TurnsOn DEF leaseVars
  <2>3. /\ job' \in [Processes -> Job]
        /\ job'[p].at = at /\ job'[p].mode = mode
        /\ \A q \in Processes \ {p} : job'[q] = job[q]
    BY <1>1, <2>1, Turned
  <2> QED
    BY <2>1, <2>2, <2>3 DEF JobInv, Holds
<1>4. ASSUME NEW p \in Processes, AroundLease(p)
      PROVE  JobInv' /\ job' \in [Processes -> Job]
  BY <1>4, AroundOn DEF JobInv, Asking
<1>5. ASSUME UNCHANGED <<lease, job>>
      PROVE  JobInv' /\ job' \in [Processes -> Job]
  BY <1>1, <1>5 DEF JobInv
<1>6. ASSUME NEW p \in Processes, Launch(p)
      PROVE  UNCHANGED <<lease, job>>
  BY <1>6 DEF Launch, leaseVars
<1>7. ClientRegisters \/ Wipe \/ UNCHANGED vars => UNCHANGED <<lease, job>>
  BY DEF ClientRegisters, Registers, Wipe, vars, leaseVars, ownVars
<1> QED
  BY <1>2, <1>3, <1>4, <1>5, <1>6, <1>7, Steps

\* Every step keeps the types.
LEMMA OwnershipTypeNext ==
  ASSUME OwnershipTypeOK, JobInv, [Next]_vars
  PROVE  OwnershipTypeOK'
<1>1. LeaseTypeOK'
  <2>1. LeaseTypeOK
    BY DEF OwnershipTypeOK
  <2>2. CASE Wipe
    BY <2>1, <2>2 DEF Wipe, LeaseTypeOK
  <2> QED
    BY <2>1, <2>2, LeaseSteps, TypeNext
<1>2. job' \in [Processes -> Job]
  BY JobNext
<1>3. SUFFICES /\ lifetime' \in {"session", "detached"}
               /\ record' \in {NoRecord} \union [by : Processes, role : {"owner", "sweeper"}]
               /\ containers' \subseteq Processes
               /\ wiped' \in BOOLEAN
  BY <1>1, <1>2 DEF OwnershipTypeOK
<1>4. ASSUME NEW p \in Processes, HolderMoves(p)
      PROVE  /\ lifetime' \in Lifetimes \union {lifetime}
             /\ record' \in {record, NoRecord, [by |-> p, role |-> "owner"], [by |-> p, role |-> "sweeper"]}
             /\ containers' \subseteq containers
             /\ wiped' = wiped
  <2>1. CASE Retract(p) \/ Register(p) \/ Read(p) \/ Clean(p)
    BY <2>1 DEF Retract, Retracted, Register, Read, Clean
  <2>2. CASE PublishHolder(p) \/ StartFails(p) \/ MarkSweep(p)
    BY <2>2 DEF PublishHolder, StartFails, MarkSweep
  <2>3. CASE Withdraw(p) \/ Unregister(p)
    BY <2>3 DEF Withdraw, Unregister, Removes
  <2>4. CASE StopNamespace(p) \/ Sweep(p) \/ Fails(p) \/ Leave(p)
    BY <2>4 DEF StopNamespace, Sweep, Fails, Leave, Retracted
  <2> QED
    BY <1>4, <2>1, <2>2, <2>3, <2>4 DEF HolderMoves
<1>5. ASSUME NEW p \in Processes, HolderTurns(p) \/ Launch(p) \/ AroundLease(p)
      PROVE  /\ UNCHANGED <<lifetime, record, wiped>>
             /\ containers' \subseteq containers \union {p}
  BY <1>5, TurnsOn, AroundOn DEF Launch
<1>6. CASE ClientRegisters \/ Wipe \/ UNCHANGED vars
  BY <1>6 DEF ClientRegisters, Wipe, vars, ownVars, OwnershipTypeOK
<1>7. \A p \in Processes, role \in {"owner", "sweeper"} :
         [by |-> p, role |-> role] \in [by : Processes, role : {"owner", "sweeper"}]
  OBVIOUS
<1>8. lifetime \in {"session", "detached"} /\ containers \subseteq Processes /\ wiped \in BOOLEAN
      /\ record \in {NoRecord} \union [by : Processes, role : {"owner", "sweeper"}]
  BY DEF OwnershipTypeOK
<1>9. CASE \E p \in Processes : HolderMoves(p)
  <2>1. PICK p \in Processes : HolderMoves(p)
    BY <1>9
  <2>2. record' \in {NoRecord} \union [by : Processes, role : {"owner", "sweeper"}]
    <3>1. record' \in {record, NoRecord, [by |-> p, role |-> "owner"], [by |-> p, role |-> "sweeper"]}
      BY <1>4, <2>1
    <3> QED
      BY <1>7, <1>8, <3>1
  <2>3. lifetime' \in {"session", "detached"} /\ containers' \subseteq Processes
    BY <1>4, <1>8, <2>1
  <2>4. wiped' = wiped
    BY <1>4, <2>1
  <2> QED
    BY <1>8, <2>2, <2>3, <2>4
<1>10. CASE \E p \in Processes : HolderTurns(p) \/ Launch(p) \/ AroundLease(p)
  BY <1>5, <1>8, <1>10
<1> QED
  BY <1>6, <1>9, <1>10, Steps

\* At the start nobody has a job and nothing is leased.
LEMMA OwnershipStarts == Init => OwnershipTypeOK /\ JobInv /\ LeaseInit
<1> SUFFICES ASSUME Init
             PROVE  OwnershipTypeOK /\ JobInv /\ LeaseInit
  OBVIOUS
<1>1. LeaseInit /\ LeaseTypeOK
  BY InvInit DEF Init, LeaseInv, LockInv
<1>2. NoJob \in Job /\ NoJob.mode = "none" /\ Idle.at = "idle"
  BY DEF NoJob, Job, Idle
<1>3. \A p \in Processes : job[p] = NoJob /\ lease[p] = Idle
  BY <1>1 DEF Init, LeaseInit
<1>4. JobInv
  BY <1>2, <1>3 DEF JobInv
<1>5. OwnershipTypeOK
  BY <1>1, <1>2 DEF Init, OwnershipTypeOK
<1> QED
  BY <1>1, <1>4, <1>5

\* Types are correct, and a job agrees with its lease.
THEOREM JobsAgree == Spec => [](OwnershipTypeOK /\ JobInv)
<1>1. OwnershipTypeOK /\ JobInv /\ [Next]_vars => (OwnershipTypeOK /\ JobInv)'
  BY JobNext, OwnershipTypeNext
<1> QED
  BY <1>1, OwnershipStarts, PTL DEF Spec

THEOREM OwnershipTypeCorrect == Spec => []OwnershipTypeOK
BY JobsAgree, PTL

-----------------------------------------------------------------------------
(* Giving up a lost stack.                                                 *)

\* An owner whose path has moved on retracts no record but its own, sweeps no
\* container but its own and leaves the document (StackHost.ts:195-197), whatever
\* removals fail and whichever identities come back.
THEOREM ReleaseSpares == Spec => ReleaseSparesSuccessors
<1>1. ASSUME OwnershipTypeOK, JobInv, [Next]_vars, NEW p \in Processes,
             Holds(p), ~PathHeld(p), job[p].mode = "release", job'[p] # job[p]
      PROVE  /\ registered' = registered
             /\ containers \ containers' \subseteq {p}
             /\ record' # record => record.by = p
  <2>1. job[p].at \in {"stop", "leave", "gone"} /\ job \in [Processes -> Job]
    BY <1>1 DEF JobInv, OwnershipTypeOK
  <2>2. \A q \in Processes : HolderMoves(q) \/ HolderTurns(q) \/ Launch(q) \/ AroundLease(q) => q = p
    <3>1. ASSUME NEW q \in Processes, HolderMoves(q), q # p
          PROVE  FALSE
      BY <1>1, <2>1, <3>1, MovesOn, Moved
    <3>2. ASSUME NEW q \in Processes, HolderTurns(q), q # p
          PROVE  FALSE
      BY <1>1, <2>1, <3>2, TurnsOn, Turned
    <3>3. ASSUME NEW q \in Processes, AroundLease(q), q # p
          PROVE  FALSE
      BY <1>1, <3>3, AroundOn
    <3>4. ASSUME NEW q \in Processes, Launch(q)
          PROVE  FALSE
      BY <1>1, <3>4 DEF Launch
    <3> QED
      BY <3>1, <3>2, <3>3, <3>4
  <2>3. CASE HolderMoves(p)
    <3>1. CASE StopNamespace(p) \/ Fails(p) \/ Leave(p)
      BY <1>1, <3>1 DEF StopNamespace, Fails, Leave, Retracted, leaseVars
    <3>2. ~(\/ Retract(p) \/ Register(p) \/ Read(p) \/ Clean(p) \/ PublishHolder(p)
            \/ StartFails(p) \/ Withdraw(p) \/ Sweep(p) \/ Unregister(p) \/ MarkSweep(p))
      BY <2>1 DEF Retract, Register, Read, Clean, PublishHolder, StartFails, Withdraw, Sweep,
                  Unregister, MarkSweep, At
    <3> QED
      BY <2>3, <3>1, <3>2 DEF HolderMoves
  <2>4. CASE HolderTurns(p)
    BY <2>4, TurnsOn DEF leaseVars
  <2>5. CASE AroundLease(p)
    <3>1. UNCHANGED <<record, containers>>
      BY <1>1, <2>5, AroundOn
    <3>2. registered' = registered
      BY <1>1, <2>1, <2>5 DEF AroundLease, Begin, Request, Asks, LeaseStep, LeaseEnds, Ends, Dies, Crash,
                   SamePath, Holds, ownVars
    <3> QED
      BY <3>1, <3>2
  <2>6. CASE Launch(p) \/ ClientRegisters \/ Wipe \/ UNCHANGED vars
    BY <1>1, <2>6 DEF Launch, ClientRegisters, Wipe, vars, ownVars
  <2> QED
    BY <1>1, <2>2, <2>3, <2>4, <2>5, <2>6, Steps
<1>2. OwnershipTypeOK /\ JobInv /\ [Next]_vars =>
        [\A p \in Processes : Holds(p) /\ ~PathHeld(p) /\ job[p].mode = "release" /\ job'[p] # job[p] =>
           /\ registered' = registered
           /\ containers \ containers' \subseteq {p}
           /\ record' # record => record.by = p]_vars
  BY <1>1
<1> QED
  BY <1>2, JobsAgree, PTL DEF Spec, ReleaseSparesSuccessors

-----------------------------------------------------------------------------
(* The exclusive owner, under jobs and a deletion.                         *)

\* A deleted directory leaves nobody rightful, and every attempt sees that it moved.
LEMMA WipeUnowns ==
  ASSUME LockInv, Wipe
  PROVE  LockInv' /\ [Promise!Next]_Owners
<1>1. LockInv'
  BY DEF LockInv, LeaseTypeOK, Wipe, Holds, HasOpen, HasLocked
<1>2. ASSUME NEW p \in Processes, Rightful(p)'
      PROVE  FALSE
  <2>1. lease[p].at = "held" /\ lease[p].before = NoFile
    BY <1>2 DEF Wipe, Rightful, Holds, PathHeld
  <2>2. lease[p].file = NoFile /\ lease[p].file \in spent
    BY <2>1 DEF LockInv, Holds, HasOpen
  <2> QED
    BY <2>2 DEF LockInv, LeaseTypeOK
<1>3. Owners' = {}
  BY <1>2 DEF Owners
<1> QED
  BY <1>1, <1>3, OwnersLetGo

\* The owner lease stays exclusive around whatever owners, sweepers and clients do
\* with it, and when the state directory is deleted under them.
THEOREM OwnershipExcludes ==
  ASSUME ~Reuse
  PROVE  Spec => OneOwner
<1>1. Init => LockInv /\ Promise!Init
  BY OwnershipStarts, InvInit, StartsUnowned DEF LeaseInv
<1>2. LockInv /\ [Next]_vars => LockInv' /\ [Promise!Next]_({p \in Processes : Rightful(p)})
  BY LeaseSteps, LockNext, StepImplements, WipeUnowns DEF Owners
<1> QED
  BY <1>1, <1>2, PTL DEF Spec, OneOwner, Promise!Spec

-----------------------------------------------------------------------------
(* What a holder may count on.                                             *)

\* A held lease has one holder, whose path is its own.
LEMMA OneHolder ==
  ASSUME LeaseInv, NEW p \in Processes, NEW q \in Processes, Holds(p), Holds(q)
  PROVE  p = q /\ PathHeld(p)
<1>1. lease[p].at = "held" /\ lease[q].at = "held"
  BY DEF Holds
<1>2. path = lease[p].file /\ path = lease[q].file /\ HasLocked(p) /\ HasLocked(q)
  BY <1>1, HeldIsOpen DEF HasLocked
<1> QED
  BY <1>1, <1>2, HeldIsOpen DEF LeaseInv

\* So a step of the holder has to keep what that holder counts on, and no more.
LEMMA HolderKeeps ==
  ASSUME LeaseInv, NEW p \in Processes, Holds(p), UNCHANGED lease,
         HolderInv(p)', ~registered' => containers' = {}
  PROVE  StackInv'
<1>1. ASSUME NEW q \in Processes, Holds(q)'
      PROVE  q = p
  BY <1>1, OneHolder DEF Holds
<1> QED
  BY <1>1 DEF StackInv, UnregisteredRunsNothing

LEMMA MovesKeep ==
  ASSUME OwnershipInv, ~wiped, NEW p \in Processes, HolderMoves(p)
  PROVE  StackInv'
<1>1. /\ Holds(p) /\ PathHeld(p) /\ UNCHANGED lease
      /\ HolderInv(p) /\ LeaseInv /\ (~registered => containers = {})
  BY MovesOn, OneHolder DEF OwnershipInv, StackInv, UnregisteredRunsNothing
<1>2. /\ job'[p].kind = job[p].kind
      /\ \A at \in Points : Moves(p, at) => job'[p].at = at
  BY MovesOn, Moved DEF OwnershipInv, OwnershipTypeOK
<1>3. SUFFICES HolderInv(p)' /\ (~registered' => containers' = {})
  BY <1>1, HolderKeeps
<1>4. CASE Retract(p)
  <2>1. /\ record' = NoRecord /\ UNCHANGED <<registered, containers>>
        /\ job[p].kind \in Owning
        /\ Moves(p, IF job[p].kind = "create" THEN "register" ELSE "read")
    BY <1>1, <1>4 DEF Retract, Retracted, At, leaseVars
  <2>2. job'[p].at = IF job[p].kind = "create" THEN "register" ELSE "read"
    BY <1>2, <2>1 DEF Points
  <2> QED
    BY <1>1, <1>2, <2>1, <2>2 DEF HolderInv
<1>5. CASE Register(p)
  <2>1. job[p].at = "register" /\ UNCHANGED <<record, containers>>
    BY <1>5 DEF Register, At
  <2>2. CASE registered
    <3>1. job'[p].at = "leave" /\ UNCHANGED registered
      BY <1>2, <1>5, <2>2 DEF Register, Points, leaseVars
    <3> QED
      BY <1>1, <2>1, <2>2, <3>1 DEF HolderInv
  <2>3. CASE ~registered
    <3>1. job'[p].at = "read" /\ registered'
      BY <1>2, <1>5, <2>3 DEF Register, Registers, Points
    <3> QED
      BY <1>1, <2>1, <2>3, <3>1 DEF HolderInv
  <2> QED
    BY <2>2, <2>3
<1>6. CASE Read(p)
  <2>1. job[p].at = "read" /\ UNCHANGED <<registered, record, containers>>
    BY <1>6 DEF Read, At, leaseVars
  <2>2. job'[p].at = IF registered THEN "clean" ELSE "failed"
    BY <1>2, <1>6 DEF Read, Points
  <2> QED
    BY <1>1, <1>2, <2>1, <2>2 DEF HolderInv
<1>7. CASE Clean(p)
  <2>1. job[p].at = "clean" /\ job[p].kind \in Owning /\ containers' = {}
        /\ UNCHANGED <<registered, record>>
    BY <1>7 DEF Clean, At, leaseVars
  <2>2. job'[p].at = "publish"
    BY <1>2, <1>7 DEF Clean, Points
  <2> QED
    BY <1>1, <1>2, <2>1, <2>2 DEF HolderInv
<1>8. CASE PublishHolder(p)
  <2>1. /\ job[p].at = "publish" /\ job[p].kind \in Owning
        /\ record'.by = p /\ UNCHANGED <<registered, containers>>
    BY <1>8 DEF PublishHolder, At, leaseVars
  <2>2. job'[p].at \in {"up", "failed"}
    BY <1>2, <1>8 DEF PublishHolder, Points
  <2> QED
    BY <1>1, <1>2, <2>1, <2>2 DEF HolderInv
<1>9. CASE StartFails(p)
  <2>1. job[p].at \in {"read", "clean", "publish"} /\ UNCHANGED <<registered, record, containers>>
    BY <1>9 DEF StartFails, leaseVars
  <2>2. job'[p].at = "failed"
    BY <1>2, <1>9 DEF StartFails, Points
  <2> QED
    BY <1>1, <1>2, <2>1, <2>2 DEF HolderInv
<1>10. CASE Withdraw(p)
  <2>1. /\ job[p].at = "failed" /\ UNCHANGED containers
        /\ \/ job[p].kind = "create" /\ record' \in {record, NoRecord}
           \/ UNCHANGED <<registered, record>>
    BY <1>10 DEF Withdraw, Removes, At, leaseVars
  <2>2. job'[p].at = "leave"
    BY <1>2, <1>10 DEF Withdraw, Points
  <2> QED
    BY <1>1, <2>1, <2>2 DEF HolderInv
<1>11. CASE StopNamespace(p)
  <2>1. job[p].at = "stop" /\ containers' = containers \ {p} /\ UNCHANGED <<registered, record>>
    BY <1>11 DEF StopNamespace, leaseVars
  <2>2. job'[p].at \in {"leave", "sweep"}
    BY <1>2, <1>11 DEF StopNamespace, Points
  <2> QED
    BY <1>1, <2>1, <2>2 DEF HolderInv
<1>12. CASE Sweep(p)
  <2>1. job[p].at = "sweep" /\ containers' = {} /\ UNCHANGED <<registered, record>>
    BY <1>12 DEF Sweep, leaseVars
  <2>2. job'[p].at \in {"unregister", "leave"}
    BY <1>2, <1>12 DEF Sweep, Points
  <2> QED
    BY <1>1, <2>1, <2>2 DEF HolderInv
<1>13. CASE Unregister(p)
  <2>1. job[p].at = "unregister" /\ UNCHANGED containers /\ record' \in {record, NoRecord}
    BY <1>13 DEF Unregister, Removes
  <2>2. job'[p].at = "leave"
    BY <1>2, <1>13 DEF Unregister, Points
  <2> QED
    BY <1>1, <2>1, <2>2 DEF HolderInv
<1>14. CASE Fails(p)
  <2>1. /\ job[p].at \in {"stop", "sweep", "unregister"}
        /\ UNCHANGED <<registered, record, containers>>
    BY <1>14 DEF Fails, leaseVars
  <2>2. job'[p].at = "leave"
    BY <1>2, <1>14 DEF Fails, Points
  <2> QED
    BY <1>1, <2>1, <2>2 DEF HolderInv
<1>15. CASE MarkSweep(p)
  <2>1. job[p].kind \in Sweeping /\ record'.by = p /\ UNCHANGED <<registered, containers>>
    BY <1>15 DEF MarkSweep, At, leaseVars
  <2>2. job'[p].at = "read"
    BY <1>2, <1>15 DEF MarkSweep, Points
  <2> QED
    BY <1>1, <1>2, <2>1, <2>2 DEF HolderInv, Owning, Sweeping
<1>16. CASE Leave(p)
  <2>1. record' = NoRecord /\ UNCHANGED <<registered, containers>>
    BY <1>1, <1>16 DEF Leave, Retracted, leaseVars
  <2>2. job'[p].at = "gone"
    BY <1>2, <1>16 DEF Leave, Points
  <2> QED
    BY <1>1, <2>1, <2>2 DEF HolderInv
<1> QED
  BY <1>4, <1>5, <1>6, <1>7, <1>8, <1>9, <1>10, <1>11, <1>12, <1>13, <1>14, <1>15, <1>16
     DEF HolderMoves

LEMMA TurnsKeep ==
  ASSUME OwnershipInv, ~wiped, NEW p \in Processes, HolderTurns(p)
  PROVE  StackInv'
<1>1. /\ Holds(p) /\ UNCHANGED <<lease, registered, record, containers>>
      /\ HolderInv(p) /\ LeaseInv /\ (~registered => containers = {})
  BY TurnsOn DEF OwnershipInv, StackInv, UnregisteredRunsNothing, leaseVars
<1>2. /\ job'[p].at \in {"stop", "sweep", "leave"} /\ job[p].at # "acquire"
  <2>1. job \in [Processes -> Job]
    BY DEF OwnershipInv, OwnershipTypeOK
  <2>2. CASE Shutdown(p)
    BY <2>1, <2>2 DEF Shutdown, At, Job
  <2>3. CASE Poll(p)
    BY <2>1, <2>3 DEF Poll, At, Job
  <2>4. CASE Reclaim(p)
    <3>1. PICK at \in {"leave", "stop", "sweep"}, mode \in Modes : Turns(p, at, mode)
      <4> DEFINE at == IF registered # (job[p].kind = "reclaim") THEN "leave"
                       ELSE IF Disposable THEN "stop" ELSE "sweep"
                 mode == IF Disposable THEN "destroy" ELSE "none"
      <4>1. Turns(p, at, mode)
        BY <2>4 DEF Reclaim, Turns
      <4>2. at \in {"leave", "stop", "sweep"} /\ mode \in Modes
        BY DEF Modes
      <4> HIDE DEF at, mode
      <4> QED
        BY <4>1, <4>2
    <3>2. at \in Points
      BY DEF Points
    <3>3. job'[p].at = at
      BY <2>1, <3>1, <3>2, Turned
    <3> QED
      BY <2>4, <3>3 DEF Reclaim, At
  <2> QED
    BY <2>2, <2>3, <2>4 DEF HolderTurns
<1>3. HolderInv(p)'
  BY <1>1, <1>2 DEF HolderInv
<1> QED
  BY <1>1, <1>3, HolderKeeps

LEMMA LaunchKeeps ==
  ASSUME OwnershipInv, ~wiped, NEW p \in Processes, Launch(p)
  PROVE  StackInv'
<1>1. /\ Holds(p) /\ HolderInv(p) /\ LeaseInv
      /\ UNCHANGED <<lease, registered, record, job>> /\ containers' = containers \union {p}
      /\ job[p].at = "up" /\ job[p].kind \in Owning
  BY DEF Launch, At, OwnershipInv, StackInv, leaseVars
<1>2. HolderInv(p)' /\ registered'
  BY <1>1 DEF HolderInv
<1> QED
  BY <1>1, <1>2, HolderKeeps

\* A lease is registered or removed from the registry by jobs alone.
LEMMA AroundKeepsRegistered ==
  ASSUME NEW p \in Processes, AroundLease(p)
  PROVE  registered' = registered
<1>1. LeaseRuns(p) => registered' = registered
  BY DEF LeaseRuns, Look, Open, Lock, Retry, Check, Unlink, Close, Recheck, Reunlink, ProbeLocks,
         ProbeEnds, SamePath
<1> QED
  BY <1>1 DEF AroundLease, Begin, Request, Asks, Probe, Ends, LeaseStep, LeaseEnds, LeaseCloses,
              Dies, Crash, SamePath, leaseVars

LEMMA AroundKeeps ==
  ASSUME OwnershipInv, ~wiped, NEW p \in Processes, AroundLease(p)
  PROVE  StackInv'
<1>1. /\ UNCHANGED <<registered, record, containers, wiped>>
      /\ \A q \in Processes \ {p} : lease'[q] = lease[q] /\ job'[q] = job[q]
      /\ lease'[p].at = "held" => job'[p].at = "acquire"
  BY AroundOn, AroundKeepsRegistered DEF OwnershipInv
<1>2. ASSUME NEW q \in Processes, Holds(q)'
      PROVE  HolderInv(q)'
  <2>1. CASE q = p
    BY <1>1, <1>2, <2>1 DEF Holds, HolderInv
  <2>2. CASE q # p
    BY <1>1, <1>2, <2>2 DEF Holds, HolderInv, OwnershipInv, StackInv
  <2> QED
    BY <2>1, <2>2
<1> QED
  BY <1>1, <1>2 DEF OwnershipInv, StackInv, UnregisteredRunsNothing

\* Every step keeps the inductive invariant.
LEMMA OwnershipNext ==
  ASSUME ~Reuse, ~RemovalFails, OwnershipInv, [Next]_vars
  PROVE  OwnershipInv'
<1>1. OwnershipTypeOK' /\ JobInv' /\ LockInv'
  BY JobNext, OwnershipTypeNext, LeaseSteps, LockNext, WipeUnowns DEF OwnershipInv
<1>2. CASE wiped'
  BY <1>1, <1>2 DEF OwnershipInv, StackInv, UnregisteredRunsNothing
<1>3. CASE ~wiped'
  <2>1. ~Wipe /\ ~wiped
    <3>1. \A p \in Processes :
             HolderMoves(p) \/ HolderTurns(p) \/ Launch(p) \/ AroundLease(p) => wiped' = wiped
      BY MovesOn, TurnsOn, AroundOn DEF Launch, OwnershipInv
    <3>2. ~Wipe
      BY <1>3 DEF Wipe
    <3>3. ClientRegisters \/ UNCHANGED vars => wiped' = wiped
      BY DEF ClientRegisters, vars, ownVars
    <3>4. wiped' = wiped
      BY <3>1, <3>2, <3>3, Steps
    <3> QED
      BY <1>3, <3>2, <3>4
  <2>2. LeaseInv'
    BY <2>1, LeaseSteps, InvNext DEF OwnershipInv
  <2>3. CASE ClientRegisters
    <3>1. registered' /\ UNCHANGED <<lease, record, containers, job, wiped>>
      BY <2>3 DEF ClientRegisters, Registers
    <3>2. \A q \in Processes : Holds(q)' => HolderInv(q)'
      BY <2>1, <3>1 DEF Holds, HolderInv, OwnershipInv, StackInv
    <3> QED
      BY <1>1, <2>2, <3>1, <3>2 DEF OwnershipInv, StackInv, UnregisteredRunsNothing
  <2>4. CASE UNCHANGED vars
    BY <1>1, <2>2, <2>4
       DEF vars, leaseVars, ownVars, OwnershipInv, StackInv, UnregisteredRunsNothing, Holds, HolderInv
  <2> QED
    BY <1>1, <2>1, <2>2, <2>3, <2>4, Steps, MovesKeep, TurnsKeep, LaunchKeeps, AroundKeeps
       DEF OwnershipInv
<1> QED
  BY <1>2, <1>3

\* The lease's exclusion and each job's order of awaits, together: what a holder may
\* count on holds wherever others crash, fail, sweep, register or wipe.
THEOREM OwnershipInvariant ==
  ASSUME ~Reuse, ~RemovalFails
  PROVE  Spec => []OwnershipInv
<1>1. Init => OwnershipInv
  <2> SUFFICES ASSUME Init
               PROVE  OwnershipInv
    OBVIOUS
  <2>1. OwnershipTypeOK /\ JobInv /\ LeaseInv /\ LockInv
    BY OwnershipStarts, InvInit DEF LeaseInv
  <2>2. ASSUME NEW p \in Processes
        PROVE  ~Holds(p)
    <3>1. LeaseInit
      BY OwnershipStarts
    <3>2. lease[p].at = "idle"
      BY <3>1 DEF LeaseInit, Idle
    <3> QED
      BY <3>2 DEF Holds
  <2>3. containers = {}
    BY DEF Init
  <2>4. StackInv
    BY <2>2, <2>3 DEF StackInv, UnregisteredRunsNothing
  <2> QED
    BY <2>1, <2>4 DEF OwnershipInv
<1>2. OwnershipInv /\ [Next]_vars => OwnershipInv'
  BY OwnershipNext
<1> QED
  BY <1>1, <1>2, PTL DEF Spec

\* What a client reads while the lease is held names the holder (Lease.ts:55-56).
THEOREM RecordNamesTheHolder ==
  ASSUME ~Reuse, ~RemovalFails
  PROVE  Spec => []RecordIsTheHolders
<1>1. OwnershipInv => RecordIsTheHolders
  BY DEF OwnershipInv, StackInv, HolderInv, RecordIsTheHolders
<1> QED
  BY <1>1, OwnershipInvariant, PTL

\* An owner that is up runs beside nothing a dead owner launched (StackHost.ts:531).
THEOREM OwnersRunAlone ==
  ASSUME ~Reuse, ~RemovalFails
  PROVE  Spec => []OwnContainersOnly
<1>1. OwnershipInv => OwnContainersOnly
  BY DEF OwnershipInv, StackInv, HolderInv, OwnContainersOnly, At
<1> QED
  BY <1>1, OwnershipInvariant, PTL

\* No failed start, interrupted destroy or sweep leaves containers of a stack that no
\* listing shows (Owner.ts:1022-1028).
THEOREM NothingRunsUnregistered ==
  ASSUME ~Reuse, ~RemovalFails
  PROVE  Spec => []UnregisteredRunsNothing
<1>1. OwnershipInv => UnregisteredRunsNothing
  BY DEF OwnershipInv, StackInv
<1> QED
  BY <1>1, OwnershipInvariant, PTL
=============================================================================
