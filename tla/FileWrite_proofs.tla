-------------------------- MODULE FileWrite_proofs --------------------------
(***************************************************************************)
(* Proofs about FileWrite, for every set of calls and every number of      *)
(* changes by other programs.                                              *)
(***************************************************************************)
EXTENDS FileWrite, TLAPS

\* The worker is past its rename, or has not come to it.
Renamed == {"mode", "sync", "unprobe", "verify", "done", "ok"}
Filled == {"gate", "rename"} \union Renamed
Synced == {"unprobe", "verify", "done", "ok"}
Unrenamed == {"read", "prepare", "queued", "started", "bind", "lock", "list",
              "hash", "parents", "absent", "temp", "probe", "fill", "gate",
              "rename"}

\* Every content the name ever had is on disk.
WholeFiles ==
    /\ Foreign \subseteq synced
    /\ \A k \in 1..Len(names) : names[k] # None => names[k] \in synced
    /\ \A c \in Calls : pc[c] \in Filled => c \in synced

\* A call has published exactly when it is past the rename, durably when it is
\* past the sync.
PublishedOnce ==
    \A c \in Calls :
        /\ pc[c] \in Unrenamed => \A k \in 1..Len(names) : names[k] # c
        /\ pc[c] \in Renamed => \E k \in 1..Len(names) : names[k] = c
        /\ pc[c] \in Synced =>
               \E k \in 1..durable : names[k] = c

\* What a call has made for itself.
OwnNames ==
    \A c \in Calls :
        /\ pc[c] \in Renamed => c \notin temps
        /\ pc[c] \in Unrenamed \ {"fill", "gate", "rename"} => c \notin probes
        /\ pc[c] \in {"fill", "gate", "rename", "mode", "sync"} /\ bound[c] # None
               => c \notin probes
        /\ pc[c] \in {"verify", "done", "ok"} => c \notin probes
        /\ pc[c] \in {"list", "hash"} => bound[c] # None
        /\ pc[c] \in {"parents", "absent", "probe", "unprobe"} => bound[c] = None

\* A worker that has checked the name, or the content, still finds what it
\* found, unless another program has been there.
Looked == {"temp", "probe", "fill", "gate", "rename"}

Current(c) ==
    /\ pc[c] \in Looked \union {"hash"} /\ bound[c] # None => Live = bound[c]
    /\ pc[c] \in Looked /\ bound[c] # None =>
           \/ c \in overwrite
           \/ c \in Conditional /\ Revision(Live) = base[c]

StillCurrent == \A c \in Calls \ overrun : Current(c)

IInv == /\ TypeOK /\ PublishesUnderLease /\ WholeFiles /\ PublishedOnce
        /\ OwnNames /\ StillCurrent

-----------------------------------------------------------------------------
(* Types.                                                                  *)

FilesTyped ==
    /\ names \in Seq(Inodes \union {None}) /\ durable \in 1..Len(names)
    /\ stamp \in [Inodes -> Nat]
    /\ synced \subseteq Inodes /\ temps \subseteq Calls /\ probes \subseteq Calls
    /\ directory \in {"missing", "made", "stored"}

CallsTyped ==
    /\ overwrite \subseteq Writes
    /\ lease \in Calls \union {None} /\ lock \in Calls \union {None}
    /\ pc \in [Calls -> {"read", "prepare", "queued", "done", "ok", "closed"}
                           \union Working]
    /\ stopped \subseteq Calls
    /\ base \in [Calls -> (Inodes \union {None}) \X Nat]
    /\ bound \in [Calls -> Inodes \union {None}]
    /\ overrun \subseteq Calls

(* Another program renames one of its files over the name, or removes it.  *)
LEMMA ForeignEntry ==
  ASSUME ForeignRename
  PROVE  \E x \in Foreign \union {None} : names' = Append(names, x)
<1>1. 1..MaxForeign \subseteq Foreign
  BY ConstantsAssumption DEF Foreign
<1>2. CASE \E i \in 1..MaxForeign : names' = Append(names, i)
  BY <1>1, <1>2
<1>3. CASE names' = Append(names, None)
  BY <1>3
<1> QED
  BY <1>2, <1>3 DEF ForeignRename

(* Appending to the history of the name.                                   *)
LEMMA AppendTyped ==
  ASSUME TypeOK, NEW x \in Inodes \union {None}, names' = Append(names, x),
         durable' = durable
  PROVE  /\ names' \in Seq(Inodes \union {None}) /\ durable' \in 1..Len(names')
         /\ Len(names') = Len(names) + 1 /\ Live' = x
         /\ \A k \in 1..Len(names) : names'[k] = names[k]
         /\ names'[Len(names) + 1] = x
BY DEF TypeOK, Live, Last

(* What is live is an inode or nothing, and its revision is one.           *)
LEMMA LiveTyped ==
  ASSUME TypeOK
  PROVE  /\ Live = names[Len(names)] /\ Len(names) \in Nat \ {0}
         /\ Live \in Inodes \union {None}
         /\ Revision(Live) \in (Inodes \union {None}) \X Nat
BY DEF TypeOK, Live, Last, Revision, NoRevision

(* A call that ends, before its worker or with it, leaves typed state.     *)
LEMMA EndsTyped ==
  ASSUME TypeOK, NEW c \in Calls,
         \/ Return(c) /\ UNCHANGED guards
         \/ WorkerFails(c)
         \/ WorkerEnds(c) /\ Goto(c, "done") /\ UNCHANGED stopped
  PROVE  CallsTyped'
<1>1. Forget(c) /\ stopped' \in SUBSET stopped /\ overwrite' = overwrite
  BY DEF Return, WorkerFails, WorkerEnds, guards
<1>2. base' \in [Calls -> (Inodes \union {None}) \X Nat]
  BY <1>1 DEF TypeOK, Forget, NoRevision
<1>3. bound' \in [Calls -> Inodes \union {None}] /\ overrun' \subseteq Calls
  BY <1>1 DEF TypeOK, Forget
<1>4. lease' \in Calls \union {None} /\ lock' \in Calls \union {None}
  BY DEF TypeOK, Return, WorkerFails, WorkerEnds, guards
<1>5. pc' \in [Calls -> {"read", "prepare", "queued", "done", "ok", "closed"}
                          \union Working]
  BY DEF TypeOK, Return, WorkerFails, Goto
<1> QED
  BY <1>1, <1>2, <1>3, <1>4, <1>5 DEF TypeOK, CallsTyped

(* A step of the worker that goes on keeps the types of the calls.         *)
LEMMA ThenTyped ==
  ASSUME TypeOK, NEW c \in Calls,
         NEW next \in {"read", "prepare", "queued", "done", "ok", "closed"}
                        \union Working,
         Then(c, next), UNCHANGED locals
  PROVE  CallsTyped'
BY DEF TypeOK, CallsTyped, Then, Goto, guards, locals

(* Every step keeps the types.                                             *)
LEMMA TypeStep ==
  ASSUME TypeOK, Next
  PROVE  TypeOK'
<1>1. ASSUME NEW c \in Calls, Read(c) PROVE TypeOK'
  <2>1. CallsTyped'
    BY <1>1, EndsTyped, LiveTyped DEF Read, TypeOK, CallsTyped, Then, Goto,
       guards, Working, Locked
  <2> QED
    BY <1>1, <2>1 DEF Read, files, TypeOK, FilesTyped, CallsTyped
<1>2. ASSUME NEW c \in Calls, Prepare(c) PROVE TypeOK'
  BY <1>2, LiveTyped DEF Prepare, TypeOK, Goto, files, guards, locals,
     Undisturbed, Working, Locked
<1>3. ASSUME NEW c \in Calls, Leave(c) PROVE TypeOK'
  BY <1>3, EndsTyped DEF Leave, files, guards, TypeOK, FilesTyped, CallsTyped
<1>4. ASSUME NEW c \in Calls, Acquire(c) PROVE TypeOK'
  BY <1>4, LiveTyped DEF Acquire, TypeOK, Goto, files, guards, locals,
     Undisturbed, Working, Locked
<1>5. ASSUME NEW c \in Calls, Start(c) PROVE TypeOK'
  <2>1. CallsTyped'
    BY <1>5, EndsTyped, ThenTyped DEF Start, Working, Locked
  <2> QED
    BY <1>5, <2>1 DEF Start, files, TypeOK, FilesTyped, CallsTyped
<1>6. ASSUME NEW c \in Calls, Bind(c) PROVE TypeOK'
  <2>1. CallsTyped'
    BY <1>6, EndsTyped, LiveTyped DEF Bind, TypeOK, CallsTyped, Then, Goto,
       guards, Working, Locked
  <2> QED
    BY <1>6, <2>1 DEF Bind, files, TypeOK, FilesTyped, CallsTyped
<1>7. ASSUME NEW c \in Calls, Lock(c) PROVE TypeOK'
  <2>1. CASE WorkerFails(c) /\ UNCHANGED files
    BY <2>1, EndsTyped DEF files, TypeOK, FilesTyped, CallsTyped
  <2>2. CASE ~WorkerFails(c)
    BY <1>7, <2>2 DEF Lock, Goto, locals, files, TypeOK, Working, Locked
  <2> QED
    BY <1>7, <2>1, <2>2 DEF Lock
<1>8. ASSUME NEW c \in Calls, CheckIdentity(c) PROVE TypeOK'
  <2>1. CallsTyped'
    BY <1>8, EndsTyped, ThenTyped DEF CheckIdentity, Checked, Working, Locked
  <2> QED
    BY <1>8, <2>1 DEF CheckIdentity, Checked, files, TypeOK, FilesTyped,
       CallsTyped
<1>9. ASSUME NEW c \in Calls, CheckRevision(c) PROVE TypeOK'
  <2>1. CallsTyped'
    BY <1>9, EndsTyped, ThenTyped DEF CheckRevision, Checked, Working, Locked
  <2> QED
    BY <1>9, <2>1 DEF CheckRevision, Checked, files, TypeOK, FilesTyped,
       CallsTyped
<1>10. ASSUME NEW c \in Calls, CheckAbsent(c) PROVE TypeOK'
  <2>1. CallsTyped'
    BY <1>10, EndsTyped, ThenTyped DEF CheckAbsent, Checked, Working, Locked
  <2> QED
    BY <1>10, <2>1 DEF CheckAbsent, Checked, files, TypeOK, FilesTyped,
       CallsTyped
<1>11. ASSUME NEW c \in Calls, CreateTemp(c) PROVE TypeOK'
  <2>1. CallsTyped'
    BY <1>11, EndsTyped, ThenTyped DEF CreateTemp, Abandon, Working, Locked
  <2>2. FilesTyped'
    BY <1>11 DEF CreateTemp, Abandon, files, TypeOK, FilesTyped, Inodes
  <2> QED
    BY <2>1, <2>2 DEF TypeOK, FilesTyped, CallsTyped
<1>12. ASSUME NEW c \in Calls, AttachProbe(c) PROVE TypeOK'
  <2>1. CallsTyped'
    BY <1>12, ThenTyped DEF AttachProbe, Abandon, Working, Locked
  <2>2. FilesTyped'
    BY <1>12 DEF AttachProbe, Abandon, files, TypeOK, FilesTyped, Inodes
  <2> QED
    BY <2>1, <2>2 DEF TypeOK, FilesTyped, CallsTyped
<1>13. ASSUME NEW c \in Calls, WriteTemp(c) PROVE TypeOK'
  <2>1. CallsTyped'
    BY <1>13, ThenTyped DEF WriteTemp, Abandon, Working, Locked
  <2>2. FilesTyped'
    <3>1. CASE Abandon(c)
      BY <3>1 DEF Abandon, files, TypeOK, FilesTyped
    <3>2. CASE stamp' = [stamp EXCEPT ![c] = 1] /\ synced' = synced \union {c}
      BY <1>13, <3>2 DEF WriteTemp, Abandon, files, TypeOK, FilesTyped, Inodes
    <3> QED
      BY <1>13, <3>1, <3>2 DEF WriteTemp
  <2> QED
    BY <2>1, <2>2 DEF TypeOK, FilesTyped, CallsTyped
<1>14. ASSUME NEW c \in Calls, Gate(c) PROVE TypeOK'
  <2>1. CallsTyped'
    BY <1>14, ThenTyped DEF Gate, Abandon, Working, Locked
  <2>2. FilesTyped'
    BY <1>14 DEF Gate, Abandon, files, TypeOK, FilesTyped, Inodes
  <2> QED
    BY <2>1, <2>2 DEF TypeOK, FilesTyped, CallsTyped
<1>15. ASSUME NEW c \in Calls, Publish(c) PROVE TypeOK'
  <2>1. CallsTyped'
    BY <1>15, ThenTyped DEF Publish, Abandon, Working, Locked
  <2>2. FilesTyped'
    BY <1>15, AppendTyped DEF Publish, Abandon, files, TypeOK, FilesTyped,
       Inodes
  <2> QED
    BY <2>1, <2>2 DEF TypeOK, FilesTyped, CallsTyped
<1>16. ASSUME NEW c \in Calls, RestoreMode(c) PROVE TypeOK'
  <2>1. CallsTyped'
    BY <1>16, ThenTyped DEF RestoreMode, Abandon, Working, Locked
  <2>2. FilesTyped'
    BY <1>16 DEF RestoreMode, Abandon, files, TypeOK, FilesTyped, Inodes
  <2> QED
    BY <2>1, <2>2 DEF TypeOK, FilesTyped, CallsTyped
<1>17. ASSUME NEW c \in Calls, SyncParent(c) PROVE TypeOK'
  <2>1. CallsTyped'
    BY <1>17, ThenTyped DEF SyncParent, Abandon, Working, Locked
  <2>2. FilesTyped'
    BY <1>17 DEF SyncParent, Abandon, files, TypeOK, FilesTyped, Inodes
  <2> QED
    BY <2>1, <2>2 DEF TypeOK, FilesTyped, CallsTyped
<1>18. ASSUME NEW c \in Calls, RemoveProbe(c) PROVE TypeOK'
  <2>1. CallsTyped'
    BY <1>18, ThenTyped DEF RemoveProbe, Abandon, Working, Locked
  <2>2. FilesTyped'
    BY <1>18 DEF RemoveProbe, Abandon, files, TypeOK, FilesTyped, Inodes
  <2> QED
    BY <2>1, <2>2 DEF TypeOK, FilesTyped, CallsTyped
<1>19. ASSUME NEW c \in Calls, Verify(c) PROVE TypeOK'
  <2>1. CallsTyped'
    BY <1>19, EndsTyped, ThenTyped DEF Verify, Abandon, Working, Locked
  <2>2. FilesTyped'
    BY <1>19 DEF Verify, Abandon, files, TypeOK, FilesTyped, Inodes
  <2> QED
    BY <2>1, <2>2 DEF TypeOK, FilesTyped, CallsTyped
<1>20. ASSUME NEW c \in Calls, Cleanup(c) PROVE TypeOK'
  <2>1. CallsTyped'
    BY <1>20, EndsTyped DEF Cleanup, Abandon, Working, Locked
  <2>2. FilesTyped'
    BY <1>20 DEF Cleanup, Abandon, files, TypeOK, FilesTyped, Inodes
  <2> QED
    BY <2>1, <2>2 DEF TypeOK, FilesTyped, CallsTyped
<1>21. ASSUME NEW c \in Calls, Answer(c) PROVE TypeOK'
  BY <1>21, LiveTyped DEF Answer, TypeOK, Goto, files, guards, locals,
     Undisturbed, Working, Locked
<1>22. ASSUME NEW c \in Calls, Stop(c) PROVE TypeOK'
  BY <1>22, LiveTyped DEF Stop, TypeOK, Goto, files, guards, locals,
     Undisturbed, Working, Locked
<1>23. ASSUME ForeignRename PROVE TypeOK'
  <2>1. PICK x \in Inodes \union {None} : names' = Append(names, x)
    BY <1>23, ForeignEntry DEF Inodes
  <2>2. FilesTyped'
    BY <1>23, <2>1, AppendTyped DEF ForeignRename, TypeOK, FilesTyped
  <2>3. CallsTyped'
    BY <1>23 DEF ForeignRename, TypeOK, CallsTyped, guards, PastName
  <2> QED
    BY <2>2, <2>3 DEF TypeOK, FilesTyped, CallsTyped
<1>24. ASSUME ForeignModify PROVE TypeOK'
  <2>1. FilesTyped'
    BY <1>24, LiveTyped, AppendTyped DEF ForeignModify, TypeOK, FilesTyped,
       Inodes, Foreign
  <2>2. CallsTyped'
    BY <1>24 DEF ForeignModify, TypeOK, CallsTyped, guards, PastName,
       PastContent
  <2> QED
    BY <2>1, <2>2 DEF TypeOK, FilesTyped, CallsTyped
<1>25. ASSUME NEW c \in Calls, MakeParents(c) PROVE TypeOK'
  <2>1. CallsTyped'
    BY <1>25, EndsTyped, ThenTyped DEF MakeParents, Working, Locked
  <2>2. FilesTyped'
    BY <1>25 DEF MakeParents, TypeOK, FilesTyped
  <2> QED
    BY <2>1, <2>2 DEF TypeOK, FilesTyped, CallsTyped
<1> QED
  BY <1>1, <1>2, <1>3, <1>4, <1>5, <1>6, <1>7, <1>8, <1>9, <1>10, <1>11,
     <1>12, <1>13, <1>14, <1>15, <1>16, <1>17, <1>18, <1>19, <1>20, <1>21,
     <1>22, <1>23, <1>24, <1>25 DEF Next

-----------------------------------------------------------------------------
(* The lease and the lock.                                                 *)

(* A step of a call moves no other call.                                   *)
LEMMA LeaseStep ==
  ASSUME TypeOK, PublishesUnderLease, Next, None \notin Calls
  PROVE  PublishesUnderLease'
<1>1. ASSUME NEW c \in Calls, Read(c) PROVE PublishesUnderLease'
  BY <1>1 DEF Read, TypeOK, PublishesUnderLease, Goto, Undisturbed, Return,
     Forget, files, guards, Working, Locked, NoRevision
<1>2. ASSUME NEW c \in Calls, Prepare(c) PROVE PublishesUnderLease'
  BY <1>2 DEF Prepare, TypeOK, PublishesUnderLease, Goto, Undisturbed, files,
     guards, Working, Locked
<1>3. ASSUME NEW c \in Calls, Leave(c) PROVE PublishesUnderLease'
  BY <1>3 DEF Leave, TypeOK, PublishesUnderLease, Goto, Return, Forget, files,
     guards, Working, Locked, NoRevision
<1>4. ASSUME NEW c \in Calls, Acquire(c) PROVE PublishesUnderLease'
  BY <1>4 DEF Acquire, TypeOK, PublishesUnderLease, Goto, Undisturbed, files,
     locals, Working, Locked
<1>5. ASSUME NEW c \in Calls, Start(c) PROVE PublishesUnderLease'
  <2>1. CASE WorkerFails(c)
    BY <1>5, <2>1 DEF Start, WorkerFails, WorkerEnds, Goto, TypeOK,
       PublishesUnderLease, Working, Locked
  <2>2. CASE Then(c, "bind")
    BY <1>5, <2>2 DEF Start, Then, Goto, guards, TypeOK, PublishesUnderLease,
       Working, Locked
  <2> QED
    BY <1>5, <2>1, <2>2 DEF Start
<1>6. ASSUME NEW c \in Calls, Bind(c) PROVE PublishesUnderLease'
  <2>1. CASE WorkerFails(c)
    BY <1>6, <2>1 DEF Bind, WorkerFails, WorkerEnds, Goto, TypeOK,
       PublishesUnderLease, Working, Locked
  <2>2. CASE Then(c, "lock")
    BY <1>6, <2>2 DEF Bind, Then, Goto, guards, TypeOK, PublishesUnderLease,
       Working, Locked
  <2> QED
    BY <1>6, <2>1, <2>2 DEF Bind
<1>7. ASSUME NEW c \in Calls, Lock(c) PROVE PublishesUnderLease'
  BY <1>7 DEF Lock, TypeOK, PublishesUnderLease, Goto, Undisturbed, WorkerEnds,
     WorkerFails, Forget, files, locals, Working, Locked, Conditional,
     NoRevision
<1>8. ASSUME NEW c \in Calls, CheckIdentity(c) PROVE PublishesUnderLease'
  BY <1>8 DEF CheckIdentity, TypeOK, PublishesUnderLease, Goto, Then,
     WorkerEnds, WorkerFails, Forget, Checked, files, guards, locals, Working,
     Locked, NoRevision
<1>9. ASSUME NEW c \in Calls, CheckRevision(c) PROVE PublishesUnderLease'
  BY <1>9 DEF CheckRevision, TypeOK, PublishesUnderLease, Goto, Then,
     WorkerEnds, WorkerFails, Forget, Checked, files, guards, locals, Working,
     Locked, Conditional, NoRevision
<1>10. ASSUME NEW c \in Calls, CheckAbsent(c) PROVE PublishesUnderLease'
  BY <1>10 DEF CheckAbsent, TypeOK, PublishesUnderLease, Goto, Then,
     WorkerEnds, WorkerFails, Forget, Checked, files, guards, locals, Working,
     Locked, NoRevision
<1>11. ASSUME NEW c \in Calls, CreateTemp(c) PROVE PublishesUnderLease'
  BY <1>11 DEF CreateTemp, TypeOK, PublishesUnderLease, Goto, Then,
     Undisturbed, WorkerEnds, WorkerFails, Forget, guards, locals, Working,
     Locked, NoRevision
<1>12. ASSUME NEW c \in Calls, AttachProbe(c) PROVE PublishesUnderLease'
  BY <1>12 DEF AttachProbe, TypeOK, PublishesUnderLease, Goto, Then,
     Undisturbed, Abandon, files, guards, locals, Working, Locked
<1>13. ASSUME NEW c \in Calls, WriteTemp(c) PROVE PublishesUnderLease'
  BY <1>13 DEF WriteTemp, TypeOK, PublishesUnderLease, Goto, Then, Undisturbed,
     Abandon, files, guards, locals, Working, Locked
<1>14. ASSUME NEW c \in Calls, Gate(c) PROVE PublishesUnderLease'
  BY <1>14 DEF Gate, TypeOK, PublishesUnderLease, Goto, Then, Undisturbed,
     Abandon, files, guards, locals, Working, Locked
<1>15. ASSUME NEW c \in Calls, Publish(c) PROVE PublishesUnderLease'
  BY <1>15 DEF Publish, TypeOK, PublishesUnderLease, Goto, Then, Abandon,
     files, guards, locals, Working, Locked
<1>16. ASSUME NEW c \in Calls, RestoreMode(c) PROVE PublishesUnderLease'
  BY <1>16 DEF RestoreMode, TypeOK, PublishesUnderLease, Goto, Then, Abandon,
     files, guards, locals, Working, Locked
<1>17. ASSUME NEW c \in Calls, SyncParent(c) PROVE PublishesUnderLease'
  BY <1>17 DEF SyncParent, TypeOK, PublishesUnderLease, Goto, Then, Abandon,
     files, guards, locals, Working, Locked
<1>18. ASSUME NEW c \in Calls, RemoveProbe(c) PROVE PublishesUnderLease'
  BY <1>18 DEF RemoveProbe, TypeOK, PublishesUnderLease, Goto, Then, Abandon,
     files, guards, locals, Working, Locked
<1>19. ASSUME NEW c \in Calls, Verify(c) PROVE PublishesUnderLease'
  BY <1>19 DEF Verify, TypeOK, PublishesUnderLease, Goto, Then, Undisturbed,
     WorkerEnds, Forget, Abandon, files, guards, locals, Working, Locked,
     NoRevision
<1>20. ASSUME NEW c \in Calls, Cleanup(c) PROVE PublishesUnderLease'
  BY <1>20 DEF Cleanup, TypeOK, PublishesUnderLease, Goto, WorkerEnds,
     WorkerFails, Forget, Working, Locked, NoRevision
<1>21. ASSUME NEW c \in Calls, Answer(c) PROVE PublishesUnderLease'
  BY <1>21 DEF Answer, TypeOK, PublishesUnderLease, Goto, Undisturbed, files,
     guards, locals, Working, Locked
<1>22. ASSUME NEW c \in Calls, Stop(c) PROVE PublishesUnderLease'
  BY <1>22 DEF Stop, TypeOK, PublishesUnderLease, Undisturbed, files, guards,
     locals, Working, Locked
<1>23. ASSUME ForeignRename PROVE PublishesUnderLease'
  BY <1>23 DEF ForeignRename, TypeOK, PublishesUnderLease, guards, Working,
     Locked
<1>24. ASSUME ForeignModify PROVE PublishesUnderLease'
  BY <1>24 DEF ForeignModify, TypeOK, PublishesUnderLease, guards, Working,
     Locked
<1>25. ASSUME NEW c \in Calls, MakeParents(c) PROVE PublishesUnderLease'
  BY <1>25 DEF MakeParents, TypeOK, PublishesUnderLease, Goto, Then,
     WorkerEnds, WorkerFails, Forget, guards, locals, Working,
     Locked, NoRevision
<1> QED
  BY <1>1, <1>2, <1>3, <1>4, <1>5, <1>6, <1>7, <1>8, <1>9, <1>10, <1>11,
     <1>12, <1>13, <1>14, <1>15, <1>16, <1>17, <1>18, <1>19, <1>20, <1>21,
     <1>22, <1>23, <1>24, <1>25 DEF Next

-----------------------------------------------------------------------------
(* What is on disk.                                                        *)

(* The name only ever refers to a synchronized file: a temporary file is   *)
(* filled and synchronized before it is renamed.                           *)
LEMMA WholeStep ==
  ASSUME TypeOK, WholeFiles, Next
  PROVE  WholeFiles'
<1>1. ASSUME NEW c \in Calls, Read(c) PROVE WholeFiles'
  BY <1>1 DEF Read, TypeOK, WholeFiles, Filled, Renamed, Goto, Undisturbed,
     Return, Forget, files, guards, NoRevision
<1>2. ASSUME NEW c \in Calls, Prepare(c) PROVE WholeFiles'
  BY <1>2 DEF Prepare, TypeOK, WholeFiles, Filled, Renamed, Goto, Undisturbed,
     files, guards
<1>3. ASSUME NEW c \in Calls, Leave(c) PROVE WholeFiles'
  BY <1>3 DEF Leave, TypeOK, WholeFiles, Filled, Renamed, Goto, Return, Forget,
     files, guards, NoRevision
<1>4. ASSUME NEW c \in Calls, Acquire(c) PROVE WholeFiles'
  BY <1>4 DEF Acquire, TypeOK, WholeFiles, Filled, Renamed, Goto, Undisturbed,
     files, locals
<1>5. ASSUME NEW c \in Calls, Start(c) PROVE WholeFiles'
  BY <1>5 DEF Start, TypeOK, WholeFiles, Filled, Renamed, Goto, Then,
     Undisturbed, WorkerEnds, WorkerFails, Forget, files, guards, locals,
     NoRevision
<1>6. ASSUME NEW c \in Calls, Bind(c) PROVE WholeFiles'
  BY <1>6 DEF Bind, TypeOK, WholeFiles, Filled, Renamed, Goto, Then,
     WorkerEnds, WorkerFails, Forget, files, guards, NoRevision
<1>7. ASSUME NEW c \in Calls, Lock(c) PROVE WholeFiles'
  BY <1>7 DEF Lock, TypeOK, WholeFiles, Filled, Renamed, Goto, Undisturbed,
     WorkerEnds, WorkerFails, Forget, files, locals, Conditional, NoRevision
<1>8. ASSUME NEW c \in Calls, CheckIdentity(c) PROVE WholeFiles'
  BY <1>8 DEF CheckIdentity, TypeOK, WholeFiles, Filled, Renamed, Goto, Then,
     WorkerEnds, WorkerFails, Forget, Checked, files, guards, locals,
     NoRevision
<1>9. ASSUME NEW c \in Calls, CheckRevision(c) PROVE WholeFiles'
  BY <1>9 DEF CheckRevision, TypeOK, WholeFiles, Filled, Renamed, Goto, Then,
     WorkerEnds, WorkerFails, Forget, Checked, files, guards, locals,
     Conditional, NoRevision
<1>10. ASSUME NEW c \in Calls, CheckAbsent(c) PROVE WholeFiles'
  BY <1>10 DEF CheckAbsent, TypeOK, WholeFiles, Filled, Renamed, Goto, Then,
     WorkerEnds, WorkerFails, Forget, Checked, files, guards, locals,
     NoRevision
<1>11. ASSUME NEW c \in Calls, CreateTemp(c) PROVE WholeFiles'
  BY <1>11 DEF CreateTemp, TypeOK, WholeFiles, Filled, Renamed, Goto, Then,
     Undisturbed, WorkerEnds, WorkerFails, Forget, guards, locals, NoRevision
<1>12. ASSUME NEW c \in Calls, AttachProbe(c) PROVE WholeFiles'
  BY <1>12 DEF AttachProbe, TypeOK, WholeFiles, Filled, Renamed, Goto, Then,
     Undisturbed, Abandon, files, guards, locals
<1>13. ASSUME NEW c \in Calls, WriteTemp(c) PROVE WholeFiles'
  BY <1>13 DEF WriteTemp, TypeOK, WholeFiles, Filled, Renamed, Goto, Then,
     Undisturbed, Abandon, files, guards, locals
<1>14. ASSUME NEW c \in Calls, Gate(c) PROVE WholeFiles'
  BY <1>14 DEF Gate, TypeOK, WholeFiles, Filled, Renamed, Goto, Then,
     Undisturbed, Abandon, files, guards, locals
<1>15. ASSUME NEW c \in Calls, Publish(c) PROVE WholeFiles'
  <2>1. CASE Abandon(c) /\ UNCHANGED locals
    BY <2>1 DEF Abandon, Then, Goto, files, TypeOK, WholeFiles, Filled, Renamed
  <2>2. CASE names' = Append(names, c) /\ Then(c, "mode")
             /\ UNCHANGED <<durable, synced>>
    <3>1. c \in Inodes \union {None} /\ c \in synced
      BY <1>15 DEF Publish, Inodes, WholeFiles, Filled
    <3>2. \A d \in Calls : pc'[d] \in Filled => d \in synced
      BY <2>2, <3>1 DEF Then, Goto, TypeOK, WholeFiles
    <3>3. 1..Len(names') = 1..(Len(names) + 1) /\ Len(names) \in Nat
      BY <2>2, <3>1, AppendTyped DEF TypeOK
    <3> QED
      BY <2>2, <3>1, <3>2, <3>3, AppendTyped DEF WholeFiles
  <2> QED
    BY <1>15, <2>1, <2>2 DEF Publish
<1>16. ASSUME NEW c \in Calls, RestoreMode(c) PROVE WholeFiles'
  BY <1>16 DEF RestoreMode, TypeOK, WholeFiles, Filled, Renamed, Goto, Then,
     Abandon, files, guards, locals
<1>17. ASSUME NEW c \in Calls, SyncParent(c) PROVE WholeFiles'
  BY <1>17 DEF SyncParent, TypeOK, WholeFiles, Filled, Renamed, Goto, Then,
     Abandon, files, guards, locals
<1>18. ASSUME NEW c \in Calls, RemoveProbe(c) PROVE WholeFiles'
  BY <1>18 DEF RemoveProbe, TypeOK, WholeFiles, Filled, Renamed, Goto, Then,
     Abandon, files, guards, locals
<1>19. ASSUME NEW c \in Calls, Verify(c) PROVE WholeFiles'
  BY <1>19 DEF Verify, TypeOK, WholeFiles, Filled, Renamed, Goto, Then,
     Undisturbed, WorkerEnds, Forget, Abandon, files, guards, locals,
     NoRevision
<1>20. ASSUME NEW c \in Calls, Cleanup(c) PROVE WholeFiles'
  BY <1>20 DEF Cleanup, TypeOK, WholeFiles, Filled, Renamed, Goto, WorkerEnds,
     WorkerFails, Forget, NoRevision
<1>21. ASSUME NEW c \in Calls, Answer(c) PROVE WholeFiles'
  BY <1>21 DEF Answer, TypeOK, WholeFiles, Filled, Renamed, Goto, Undisturbed,
     files, guards, locals
<1>22. ASSUME NEW c \in Calls, Stop(c) PROVE WholeFiles'
  BY <1>22 DEF Stop, TypeOK, WholeFiles, Filled, Renamed, Undisturbed, files,
     guards, locals
<1>23. ASSUME ForeignRename PROVE WholeFiles'
  <2>1. PICK x \in Foreign \union {None} : names' = Append(names, x)
    BY <1>23, ForeignEntry
  <2>2. durable' = durable /\ synced' = synced /\ pc' = pc
    BY <1>23 DEF ForeignRename
  <2>3. x \in Inodes \union {None}
    BY DEF Inodes
  <2>4. Len(names') = Len(names) + 1 /\ Len(names) \in Nat /\ names'[Len(names) + 1] = x
        /\ \A k \in 1..Len(names) : names'[k] = names[k]
    BY <2>1, <2>2, <2>3, AppendTyped DEF TypeOK
  <2>5. x # None => x \in synced
    BY DEF WholeFiles
  <2> QED
    BY <2>2, <2>4, <2>5 DEF WholeFiles
<1>24. ASSUME ForeignModify PROVE WholeFiles'
  BY <1>24 DEF ForeignModify, TypeOK, WholeFiles, Filled, Renamed, guards
<1>25. ASSUME NEW c \in Calls, MakeParents(c) PROVE WholeFiles'
  BY <1>25 DEF MakeParents, TypeOK, WholeFiles, Filled, Renamed, Goto, Then,
     WorkerEnds, WorkerFails, Forget, guards, locals,
     NoRevision
<1> QED
  BY <1>1, <1>2, <1>3, <1>4, <1>5, <1>6, <1>7, <1>8, <1>9, <1>10, <1>11,
     <1>12, <1>13, <1>14, <1>15, <1>16, <1>17, <1>18, <1>19, <1>20, <1>21,
     <1>22, <1>23, <1>24, <1>25 DEF Next

(* A step of call c that leaves the name alone, does not skip the rename   *)
(* or the sync and makes nothing less durable keeps PublishedOnce.         *)
LEMMA PublishedFrame ==
  ASSUME TypeOK, PublishedOnce, NEW c \in Calls,
         pc' = [pc EXCEPT ![c] = pc'[c]], names' = names,
         durable' \in {durable, Len(names)},
         pc'[c] \in Unrenamed => pc[c] \in Unrenamed,
         pc'[c] \in Renamed => pc[c] \in Renamed,
         pc'[c] \in Synced => pc[c] \in Synced \/ durable' = Len(names)
  PROVE  PublishedOnce'
<1>1. durable <= durable'
  BY DEF TypeOK
<1> SUFFICES ASSUME NEW d \in Calls
             PROVE  /\ pc'[d] \in Unrenamed => \A k \in 1..Len(names) : names[k] # d
                    /\ pc'[d] \in Renamed => \E k \in 1..Len(names) : names[k] = d
                    /\ pc'[d] \in Synced => \E k \in 1..durable' : names[k] = d
  BY DEF PublishedOnce
<1>2. CASE d # c
  BY <1>1, <1>2 DEF PublishedOnce, TypeOK
<1>3. CASE d = c
  <2>1. pc'[c] \in Synced => pc[c] \in Renamed
    BY DEF Synced, Renamed
  <2>2. pc'[c] \in Synced => \E k \in 1..durable' : names[k] = c
    BY <1>1, <2>1 DEF PublishedOnce, TypeOK
  <2> QED
    BY <1>3, <2>2 DEF PublishedOnce
<1> QED
  BY <1>2, <1>3

(* Every call publishes at most once, and knows how far it is.             *)
LEMMA PublishedStep ==
  ASSUME TypeOK, PublishedOnce, Next, None \notin Calls
  PROVE  PublishedOnce'
<1>1. ASSUME NEW c \in Calls, Read(c) PROVE PublishedOnce'
  <2>1. /\ pc' = [pc EXCEPT ![c] = pc'[c]] /\ names' = names
        /\ durable' \in {durable, Len(names)}
        /\ pc'[c] \in Unrenamed => pc[c] \in Unrenamed
        /\ pc'[c] \in Renamed => pc[c] \in Renamed
        /\ pc'[c] \in Synced => pc[c] \in Synced \/ durable' = Len(names)
    BY <1>1 DEF Read, TypeOK, Unrenamed, Renamed, Synced, Goto, Undisturbed,
       Return, Forget, files, guards, NoRevision
  <2> QED
    BY <2>1, PublishedFrame
<1>2. ASSUME NEW c \in Calls, Prepare(c) PROVE PublishedOnce'
  <2>1. /\ pc' = [pc EXCEPT ![c] = pc'[c]] /\ names' = names
        /\ durable' \in {durable, Len(names)}
        /\ pc'[c] \in Unrenamed => pc[c] \in Unrenamed
        /\ pc'[c] \in Renamed => pc[c] \in Renamed
        /\ pc'[c] \in Synced => pc[c] \in Synced \/ durable' = Len(names)
    BY <1>2 DEF Prepare, TypeOK, Unrenamed, Renamed, Synced, Goto, Undisturbed,
       files, guards
  <2> QED
    BY <2>1, PublishedFrame
<1>3. ASSUME NEW c \in Calls, Leave(c) PROVE PublishedOnce'
  <2>1. /\ pc' = [pc EXCEPT ![c] = pc'[c]] /\ names' = names
        /\ durable' \in {durable, Len(names)}
        /\ pc'[c] \in Unrenamed => pc[c] \in Unrenamed
        /\ pc'[c] \in Renamed => pc[c] \in Renamed
        /\ pc'[c] \in Synced => pc[c] \in Synced \/ durable' = Len(names)
    BY <1>3 DEF Leave, TypeOK, Unrenamed, Renamed, Synced, Goto, Return,
       Forget, files, guards, NoRevision
  <2> QED
    BY <2>1, PublishedFrame
<1>4. ASSUME NEW c \in Calls, Acquire(c) PROVE PublishedOnce'
  <2>1. /\ pc' = [pc EXCEPT ![c] = pc'[c]] /\ names' = names
        /\ durable' \in {durable, Len(names)}
        /\ pc'[c] \in Unrenamed => pc[c] \in Unrenamed
        /\ pc'[c] \in Renamed => pc[c] \in Renamed
        /\ pc'[c] \in Synced => pc[c] \in Synced \/ durable' = Len(names)
    BY <1>4 DEF Acquire, TypeOK, Unrenamed, Renamed, Synced, Goto, Undisturbed,
       files, locals
  <2> QED
    BY <2>1, PublishedFrame
<1>5. ASSUME NEW c \in Calls, Start(c) PROVE PublishedOnce'
  <2>1. /\ pc' = [pc EXCEPT ![c] = pc'[c]] /\ names' = names
        /\ durable' \in {durable, Len(names)}
        /\ pc'[c] \in Unrenamed => pc[c] \in Unrenamed
        /\ pc'[c] \in Renamed => pc[c] \in Renamed
        /\ pc'[c] \in Synced => pc[c] \in Synced \/ durable' = Len(names)
    BY <1>5 DEF Start, TypeOK, Unrenamed, Renamed, Synced, Goto, Then,
       Undisturbed, WorkerEnds, WorkerFails, Forget, files, guards, locals,
       NoRevision
  <2> QED
    BY <2>1, PublishedFrame
<1>6. ASSUME NEW c \in Calls, Bind(c) PROVE PublishedOnce'
  <2>1. /\ pc' = [pc EXCEPT ![c] = pc'[c]] /\ names' = names
        /\ durable' \in {durable, Len(names)}
        /\ pc'[c] \in Unrenamed => pc[c] \in Unrenamed
        /\ pc'[c] \in Renamed => pc[c] \in Renamed
        /\ pc'[c] \in Synced => pc[c] \in Synced \/ durable' = Len(names)
    BY <1>6 DEF Bind, TypeOK, Unrenamed, Renamed, Synced, Goto, Then,
       WorkerEnds, WorkerFails, Forget, files, guards, NoRevision
  <2> QED
    BY <2>1, PublishedFrame
<1>7. ASSUME NEW c \in Calls, Lock(c) PROVE PublishedOnce'
  <2>1. /\ pc' = [pc EXCEPT ![c] = pc'[c]] /\ names' = names
        /\ durable' \in {durable, Len(names)}
        /\ pc'[c] \in Unrenamed => pc[c] \in Unrenamed
        /\ pc'[c] \in Renamed => pc[c] \in Renamed
        /\ pc'[c] \in Synced => pc[c] \in Synced \/ durable' = Len(names)
    BY <1>7 DEF Lock, TypeOK, Unrenamed, Renamed, Synced, Goto, Undisturbed,
       WorkerEnds, WorkerFails, Forget, files, locals, Conditional, NoRevision
  <2> QED
    BY <2>1, PublishedFrame
<1>8. ASSUME NEW c \in Calls, CheckIdentity(c) PROVE PublishedOnce'
  <2>1. /\ pc' = [pc EXCEPT ![c] = pc'[c]] /\ names' = names
        /\ durable' \in {durable, Len(names)}
        /\ pc'[c] \in Unrenamed => pc[c] \in Unrenamed
        /\ pc'[c] \in Renamed => pc[c] \in Renamed
        /\ pc'[c] \in Synced => pc[c] \in Synced \/ durable' = Len(names)
    BY <1>8 DEF CheckIdentity, TypeOK, Unrenamed, Renamed, Synced, Goto, Then,
       WorkerEnds, WorkerFails, Forget, Checked, files, guards, locals,
       NoRevision
  <2> QED
    BY <2>1, PublishedFrame
<1>9. ASSUME NEW c \in Calls, CheckRevision(c) PROVE PublishedOnce'
  <2>1. /\ pc' = [pc EXCEPT ![c] = pc'[c]] /\ names' = names
        /\ durable' \in {durable, Len(names)}
        /\ pc'[c] \in Unrenamed => pc[c] \in Unrenamed
        /\ pc'[c] \in Renamed => pc[c] \in Renamed
        /\ pc'[c] \in Synced => pc[c] \in Synced \/ durable' = Len(names)
    BY <1>9 DEF CheckRevision, TypeOK, Unrenamed, Renamed, Synced, Goto, Then,
       WorkerEnds, WorkerFails, Forget, Checked, files, guards, locals,
       Conditional, NoRevision
  <2> QED
    BY <2>1, PublishedFrame
<1>10. ASSUME NEW c \in Calls, CheckAbsent(c) PROVE PublishedOnce'
  <2>1. /\ pc' = [pc EXCEPT ![c] = pc'[c]] /\ names' = names
        /\ durable' \in {durable, Len(names)}
        /\ pc'[c] \in Unrenamed => pc[c] \in Unrenamed
        /\ pc'[c] \in Renamed => pc[c] \in Renamed
        /\ pc'[c] \in Synced => pc[c] \in Synced \/ durable' = Len(names)
    BY <1>10 DEF CheckAbsent, TypeOK, Unrenamed, Renamed, Synced, Goto, Then,
       WorkerEnds, WorkerFails, Forget, Checked, files, guards, locals,
       NoRevision
  <2> QED
    BY <2>1, PublishedFrame
<1>11. ASSUME NEW c \in Calls, CreateTemp(c) PROVE PublishedOnce'
  <2>1. /\ pc' = [pc EXCEPT ![c] = pc'[c]] /\ names' = names
        /\ durable' \in {durable, Len(names)}
        /\ pc'[c] \in Unrenamed => pc[c] \in Unrenamed
        /\ pc'[c] \in Renamed => pc[c] \in Renamed
        /\ pc'[c] \in Synced => pc[c] \in Synced \/ durable' = Len(names)
    BY <1>11 DEF CreateTemp, TypeOK, Unrenamed, Renamed, Synced, Goto, Then,
       Undisturbed, WorkerEnds, WorkerFails, Forget, guards, locals, NoRevision
  <2> QED
    BY <2>1, PublishedFrame
<1>12. ASSUME NEW c \in Calls, AttachProbe(c) PROVE PublishedOnce'
  <2>1. /\ pc' = [pc EXCEPT ![c] = pc'[c]] /\ names' = names
        /\ durable' \in {durable, Len(names)}
        /\ pc'[c] \in Unrenamed => pc[c] \in Unrenamed
        /\ pc'[c] \in Renamed => pc[c] \in Renamed
        /\ pc'[c] \in Synced => pc[c] \in Synced \/ durable' = Len(names)
    BY <1>12 DEF AttachProbe, TypeOK, Unrenamed, Renamed, Synced, Goto, Then,
       Undisturbed, Abandon, files, guards, locals
  <2> QED
    BY <2>1, PublishedFrame
<1>13. ASSUME NEW c \in Calls, WriteTemp(c) PROVE PublishedOnce'
  <2>1. /\ pc' = [pc EXCEPT ![c] = pc'[c]] /\ names' = names
        /\ durable' \in {durable, Len(names)}
        /\ pc'[c] \in Unrenamed => pc[c] \in Unrenamed
        /\ pc'[c] \in Renamed => pc[c] \in Renamed
        /\ pc'[c] \in Synced => pc[c] \in Synced \/ durable' = Len(names)
    BY <1>13 DEF WriteTemp, TypeOK, Unrenamed, Renamed, Synced, Goto, Then,
       Undisturbed, Abandon, files, guards, locals
  <2> QED
    BY <2>1, PublishedFrame
<1>14. ASSUME NEW c \in Calls, Gate(c) PROVE PublishedOnce'
  <2>1. /\ pc' = [pc EXCEPT ![c] = pc'[c]] /\ names' = names
        /\ durable' \in {durable, Len(names)}
        /\ pc'[c] \in Unrenamed => pc[c] \in Unrenamed
        /\ pc'[c] \in Renamed => pc[c] \in Renamed
        /\ pc'[c] \in Synced => pc[c] \in Synced \/ durable' = Len(names)
    BY <1>14 DEF Gate, TypeOK, Unrenamed, Renamed, Synced, Goto, Then,
       Undisturbed, Abandon, files, guards, locals
  <2> QED
    BY <2>1, PublishedFrame
<1>15. ASSUME NEW c \in Calls, Publish(c) PROVE PublishedOnce'
  <2>1. CASE Abandon(c) /\ UNCHANGED locals
    <3>1. /\ pc' = [pc EXCEPT ![c] = pc'[c]] /\ names' = names /\ durable' = durable
          /\ pc'[c] = "cleanup"
      BY <2>1 DEF TypeOK, Abandon, Then, Goto, files
    <3> QED
      BY <3>1, PublishedFrame DEF Unrenamed, Renamed, Synced
  <2>2. CASE names' = Append(names, c) /\ Then(c, "mode") /\ durable' = durable
    <3>1. c \in Inodes \union {None}
      BY DEF Inodes
    <3>2. /\ pc' = [pc EXCEPT ![c] = "mode"] /\ Len(names) \in Nat
          /\ durable \in 1..Len(names) /\ 1..Len(names') = 1..(Len(names) + 1)
      BY <2>2, <3>1, AppendTyped DEF Then, Goto, TypeOK
    <3>3. \A d \in Calls \ {c} : pc'[d] = pc[d]
      BY <3>2 DEF TypeOK
    <3>4. pc'[c] \notin Unrenamed /\ pc'[c] \notin Synced
      BY <3>2 DEF TypeOK, Unrenamed, Synced
    <3> QED
      BY <2>2, <3>1, <3>2, <3>3, <3>4, AppendTyped DEF PublishedOnce
  <2> QED
    BY <1>15, <2>1, <2>2 DEF Publish
<1>16. ASSUME NEW c \in Calls, RestoreMode(c) PROVE PublishedOnce'
  <2>1. /\ pc' = [pc EXCEPT ![c] = pc'[c]] /\ names' = names
        /\ durable' \in {durable, Len(names)}
        /\ pc'[c] \in Unrenamed => pc[c] \in Unrenamed
        /\ pc'[c] \in Renamed => pc[c] \in Renamed
        /\ pc'[c] \in Synced => pc[c] \in Synced \/ durable' = Len(names)
    BY <1>16 DEF RestoreMode, TypeOK, Unrenamed, Renamed, Synced, Goto, Then,
       Abandon, files, guards, locals
  <2> QED
    BY <2>1, PublishedFrame
<1>17. ASSUME NEW c \in Calls, SyncParent(c) PROVE PublishedOnce'
  <2>1. /\ pc' = [pc EXCEPT ![c] = pc'[c]] /\ names' = names
        /\ durable' \in {durable, Len(names)}
        /\ pc'[c] \in Unrenamed => pc[c] \in Unrenamed
        /\ pc'[c] \in Renamed => pc[c] \in Renamed
        /\ pc'[c] \in Synced => pc[c] \in Synced \/ durable' = Len(names)
    BY <1>17 DEF SyncParent, TypeOK, Unrenamed, Renamed, Synced, Goto, Then,
       Abandon, files, guards, locals
  <2> QED
    BY <2>1, PublishedFrame
<1>18. ASSUME NEW c \in Calls, RemoveProbe(c) PROVE PublishedOnce'
  <2>1. /\ pc' = [pc EXCEPT ![c] = pc'[c]] /\ names' = names
        /\ durable' \in {durable, Len(names)}
        /\ pc'[c] \in Unrenamed => pc[c] \in Unrenamed
        /\ pc'[c] \in Renamed => pc[c] \in Renamed
        /\ pc'[c] \in Synced => pc[c] \in Synced \/ durable' = Len(names)
    BY <1>18 DEF RemoveProbe, TypeOK, Unrenamed, Renamed, Synced, Goto, Then,
       Abandon, files, guards, locals
  <2> QED
    BY <2>1, PublishedFrame
<1>19. ASSUME NEW c \in Calls, Verify(c) PROVE PublishedOnce'
  <2>1. /\ pc' = [pc EXCEPT ![c] = pc'[c]] /\ names' = names
        /\ durable' \in {durable, Len(names)}
        /\ pc'[c] \in Unrenamed => pc[c] \in Unrenamed
        /\ pc'[c] \in Renamed => pc[c] \in Renamed
        /\ pc'[c] \in Synced => pc[c] \in Synced \/ durable' = Len(names)
    BY <1>19 DEF Verify, TypeOK, Unrenamed, Renamed, Synced, Goto, Then,
       Undisturbed, WorkerEnds, Forget, Abandon, files, guards, locals,
       NoRevision
  <2> QED
    BY <2>1, PublishedFrame
<1>20. ASSUME NEW c \in Calls, Cleanup(c) PROVE PublishedOnce'
  <2>1. /\ pc' = [pc EXCEPT ![c] = pc'[c]] /\ names' = names
        /\ durable' \in {durable, Len(names)}
        /\ pc'[c] \in Unrenamed => pc[c] \in Unrenamed
        /\ pc'[c] \in Renamed => pc[c] \in Renamed
        /\ pc'[c] \in Synced => pc[c] \in Synced \/ durable' = Len(names)
    BY <1>20 DEF Cleanup, TypeOK, Unrenamed, Renamed, Synced, Goto, WorkerEnds,
       WorkerFails, Forget, NoRevision
  <2> QED
    BY <2>1, PublishedFrame
<1>21. ASSUME NEW c \in Calls, Answer(c) PROVE PublishedOnce'
  <2>1. /\ pc' = [pc EXCEPT ![c] = pc'[c]] /\ names' = names
        /\ durable' \in {durable, Len(names)}
        /\ pc'[c] \in Unrenamed => pc[c] \in Unrenamed
        /\ pc'[c] \in Renamed => pc[c] \in Renamed
        /\ pc'[c] \in Synced => pc[c] \in Synced \/ durable' = Len(names)
    BY <1>21 DEF Answer, TypeOK, Unrenamed, Renamed, Synced, Goto, Undisturbed,
       files, guards, locals
  <2> QED
    BY <2>1, PublishedFrame
<1>22. ASSUME NEW c \in Calls, Stop(c) PROVE PublishedOnce'
  <2>1. /\ pc' = [pc EXCEPT ![c] = pc'[c]] /\ names' = names
        /\ durable' \in {durable, Len(names)}
        /\ pc'[c] \in Unrenamed => pc[c] \in Unrenamed
        /\ pc'[c] \in Renamed => pc[c] \in Renamed
        /\ pc'[c] \in Synced => pc[c] \in Synced \/ durable' = Len(names)
    BY <1>22 DEF Stop, TypeOK, Unrenamed, Renamed, Synced, Undisturbed, files,
       guards, locals
  <2> QED
    BY <2>1, PublishedFrame
<1>23. ASSUME ForeignRename PROVE PublishedOnce'
  <2>1. PICK x \in Foreign \union {None} : names' = Append(names, x)
    BY <1>23, ForeignEntry
  <2>2. x \in Inodes \union {None} /\ x \notin Calls /\ pc' = pc /\ durable' = durable
    BY <1>23, ConstantsAssumption DEF ForeignRename, Inodes, guards
  <2>3. /\ Len(names) \in Nat /\ durable \in 1..Len(names)
        /\ 1..Len(names') = 1..(Len(names) + 1)
    BY <2>1, <2>2, AppendTyped DEF TypeOK
  <2> QED
    BY <2>1, <2>2, <2>3, AppendTyped DEF PublishedOnce
<1>24. ASSUME ForeignModify PROVE PublishedOnce'
  BY <1>24 DEF ForeignModify, PublishedOnce, guards
<1>25. ASSUME NEW c \in Calls, MakeParents(c) PROVE PublishedOnce'
  <2>1. /\ pc' = [pc EXCEPT ![c] = pc'[c]] /\ names' = names
        /\ durable' \in {durable, Len(names)}
        /\ pc'[c] \in Unrenamed => pc[c] \in Unrenamed
        /\ pc'[c] \in Renamed => pc[c] \in Renamed
        /\ pc'[c] \in Synced => pc[c] \in Synced \/ durable' = Len(names)
    BY <1>25 DEF MakeParents, TypeOK, Unrenamed, Renamed, Synced, Goto, Then,
       WorkerEnds, WorkerFails, Forget, guards, locals,
       NoRevision
  <2> QED
    BY <2>1, PublishedFrame
<1> QED
  BY <1>1, <1>2, <1>3, <1>4, <1>5, <1>6, <1>7, <1>8, <1>9, <1>10, <1>11,
     <1>12, <1>13, <1>14, <1>15, <1>16, <1>17, <1>18, <1>19, <1>20, <1>21,
     <1>22, <1>23, <1>24, <1>25 DEF Next

(* The temporary names of a call are its own business, and gone at the end. *)
LEMMA OwnStep ==
  ASSUME TypeOK, OwnNames, Next
  PROVE  OwnNames'
<1>1. ASSUME NEW c \in Calls, Read(c) PROVE OwnNames'
  BY <1>1 DEF Read, TypeOK, OwnNames, Unrenamed, Renamed, Goto, Undisturbed,
     Return, Forget, files, guards, NoRevision
<1>2. ASSUME NEW c \in Calls, Prepare(c) PROVE OwnNames'
  BY <1>2 DEF Prepare, TypeOK, OwnNames, Unrenamed, Renamed, Goto, Undisturbed,
     files, guards
<1>3. ASSUME NEW c \in Calls, Leave(c) PROVE OwnNames'
  BY <1>3 DEF Leave, TypeOK, OwnNames, Unrenamed, Renamed, Goto, Return,
     Forget, files, guards, NoRevision
<1>4. ASSUME NEW c \in Calls, Acquire(c) PROVE OwnNames'
  BY <1>4 DEF Acquire, TypeOK, OwnNames, Unrenamed, Renamed, Goto, Undisturbed,
     files, locals
<1>5. ASSUME NEW c \in Calls, Start(c) PROVE OwnNames'
  BY <1>5 DEF Start, TypeOK, OwnNames, Unrenamed, Renamed, Goto, Then,
     Undisturbed, WorkerEnds, WorkerFails, Forget, files, guards, locals,
     NoRevision
<1>6. ASSUME NEW c \in Calls, Bind(c) PROVE OwnNames'
  <2>1. CASE WorkerFails(c)
    BY <1>6, <2>1 DEF Bind, WorkerFails, WorkerEnds, Forget, Goto, files,
       TypeOK, OwnNames, Unrenamed, Renamed
  <2>2. CASE Then(c, "lock")
    <3>1. temps' = temps /\ probes' = probes /\ pc[c] = "bind"
      BY <1>6 DEF Bind, files
    <3>2. pc' = [pc EXCEPT ![c] = "lock"] /\ pc'[c] = "lock"
      BY <2>2 DEF Then, Goto, TypeOK
    <3>3. \A d \in Calls \ {c} : bound'[d] = bound[d]
      BY <1>6, <2>2 DEF Bind, TypeOK, WorkerFails, WorkerEnds, Forget
    <3>4. \A d \in Calls \ {c} : pc'[d] = pc[d]
      BY <3>2 DEF TypeOK
    <3> QED
      BY <3>1, <3>2, <3>3, <3>4 DEF OwnNames, Unrenamed, Renamed
  <2> QED
    BY <1>6, <2>1, <2>2 DEF Bind
<1>7. ASSUME NEW c \in Calls, Lock(c) PROVE OwnNames'
  BY <1>7 DEF Lock, TypeOK, OwnNames, Unrenamed, Renamed, Goto, Undisturbed,
     WorkerEnds, WorkerFails, Forget, files, locals, Conditional, NoRevision
<1>8. ASSUME NEW c \in Calls, CheckIdentity(c) PROVE OwnNames'
  BY <1>8 DEF CheckIdentity, TypeOK, OwnNames, Unrenamed, Renamed, Goto, Then,
     WorkerEnds, WorkerFails, Forget, Checked, files, guards, locals,
     NoRevision
<1>9. ASSUME NEW c \in Calls, CheckRevision(c) PROVE OwnNames'
  BY <1>9 DEF CheckRevision, TypeOK, OwnNames, Unrenamed, Renamed, Goto, Then,
     WorkerEnds, WorkerFails, Forget, Checked, files, guards, locals,
     Conditional, NoRevision
<1>10. ASSUME NEW c \in Calls, CheckAbsent(c) PROVE OwnNames'
  BY <1>10 DEF CheckAbsent, TypeOK, OwnNames, Unrenamed, Renamed, Goto, Then,
     WorkerEnds, WorkerFails, Forget, Checked, files, guards, locals,
     NoRevision
<1>11. ASSUME NEW c \in Calls, CreateTemp(c) PROVE OwnNames'
  BY <1>11 DEF CreateTemp, TypeOK, OwnNames, Unrenamed, Renamed, Goto, Then,
     Undisturbed, WorkerEnds, WorkerFails, Forget, guards, locals, NoRevision
<1>12. ASSUME NEW c \in Calls, AttachProbe(c) PROVE OwnNames'
  BY <1>12 DEF AttachProbe, TypeOK, OwnNames, Unrenamed, Renamed, Goto, Then,
     Undisturbed, Abandon, files, guards, locals
<1>13. ASSUME NEW c \in Calls, WriteTemp(c) PROVE OwnNames'
  BY <1>13 DEF WriteTemp, TypeOK, OwnNames, Unrenamed, Renamed, Goto, Then,
     Undisturbed, Abandon, files, guards, locals
<1>14. ASSUME NEW c \in Calls, Gate(c) PROVE OwnNames'
  BY <1>14 DEF Gate, TypeOK, OwnNames, Unrenamed, Renamed, Goto, Then,
     Undisturbed, Abandon, files, guards, locals
<1>15. ASSUME NEW c \in Calls, Publish(c) PROVE OwnNames'
  BY <1>15 DEF Publish, TypeOK, OwnNames, Unrenamed, Renamed, Goto, Then,
     Abandon, files, guards, locals
<1>16. ASSUME NEW c \in Calls, RestoreMode(c) PROVE OwnNames'
  BY <1>16 DEF RestoreMode, TypeOK, OwnNames, Unrenamed, Renamed, Goto, Then,
     Abandon, files, guards, locals
<1>17. ASSUME NEW c \in Calls, SyncParent(c) PROVE OwnNames'
  BY <1>17 DEF SyncParent, TypeOK, OwnNames, Unrenamed, Renamed, Goto, Then,
     Abandon, files, guards, locals
<1>18. ASSUME NEW c \in Calls, RemoveProbe(c) PROVE OwnNames'
  BY <1>18 DEF RemoveProbe, TypeOK, OwnNames, Unrenamed, Renamed, Goto, Then,
     Abandon, files, guards, locals
<1>19. ASSUME NEW c \in Calls, Verify(c) PROVE OwnNames'
  BY <1>19 DEF Verify, TypeOK, OwnNames, Unrenamed, Renamed, Goto, Then,
     Undisturbed, WorkerEnds, Forget, Abandon, files, guards, locals,
     NoRevision
<1>20. ASSUME NEW c \in Calls, Cleanup(c) PROVE OwnNames'
  BY <1>20 DEF Cleanup, TypeOK, OwnNames, Unrenamed, Renamed, Goto, WorkerEnds,
     WorkerFails, Forget, NoRevision
<1>21. ASSUME NEW c \in Calls, Answer(c) PROVE OwnNames'
  BY <1>21 DEF Answer, TypeOK, OwnNames, Unrenamed, Renamed, Goto, Undisturbed,
     files, guards, locals
<1>22. ASSUME NEW c \in Calls, Stop(c) PROVE OwnNames'
  BY <1>22 DEF Stop, TypeOK, OwnNames, Unrenamed, Renamed, Undisturbed, files,
     guards, locals
<1>23. ASSUME ForeignRename PROVE OwnNames'
  BY <1>23 DEF ForeignRename, TypeOK, OwnNames, Unrenamed, Renamed, guards
<1>24. ASSUME ForeignModify PROVE OwnNames'
  BY <1>24 DEF ForeignModify, TypeOK, OwnNames, Unrenamed, Renamed, guards
<1>25. ASSUME NEW c \in Calls, MakeParents(c) PROVE OwnNames'
  BY <1>25 DEF MakeParents, TypeOK, OwnNames, Unrenamed, Renamed, Goto, Then,
     WorkerEnds, WorkerFails, Forget, guards, locals,
     NoRevision
<1> QED
  BY <1>1, <1>2, <1>3, <1>4, <1>5, <1>6, <1>7, <1>8, <1>9, <1>10, <1>11,
     <1>12, <1>13, <1>14, <1>15, <1>16, <1>17, <1>18, <1>19, <1>20, <1>21,
     <1>22, <1>23, <1>24, <1>25 DEF Next

-----------------------------------------------------------------------------
(* What a worker has checked.                                              *)

(* A step that changes neither what is live nor the locals of other calls, *)
(* and leaves the acting call with a checked file, keeps StillCurrent.     *)
LEMMA CurrentFrame ==
  ASSUME StillCurrent, NEW c \in Calls,
         Live' = Live, Revision(Live)' = Revision(Live), overwrite' = overwrite,
         \A d \in Calls \ {c} : /\ pc'[d] = pc[d] /\ base'[d] = base[d]
                                /\ bound'[d] = bound[d]
                                /\ d \notin overrun' => d \notin overrun,
         c \notin overrun' => Current(c)'
  PROVE  StillCurrent'
<1> SUFFICES ASSUME NEW d \in Calls, d \notin overrun' PROVE Current(d)'
  BY DEF StillCurrent
<1>1. CASE d = c
  BY <1>1
<1>2. CASE d # c
  <2>1. /\ pc'[d] = pc[d] /\ bound'[d] = bound[d] /\ base'[d] = base[d]
        /\ d \notin overrun
    BY <1>2
  <2>2. Current(d)
    BY <2>1 DEF StillCurrent
  <2>3. (Revision(Live) = base[d])' <=> Revision(Live) = base[d]
    BY <2>1
  <2> QED
    BY <2>1, <2>2, <2>3 DEF Current
<1> QED
  BY <1>1, <1>2

(* The worker that has filled its temporary file did not fill the live one. *)
LEMMA FillsAnother ==
  ASSUME TypeOK, PublishedOnce, NEW c \in Calls, pc[c] = "fill"
  PROVE  Live # c
BY LiveTyped DEF PublishedOnce, Unrenamed

(* Between its check and its rename a worker holds the lease, so only      *)
(* another program can take the file away from it.                         *)
LEMMA CurrentStep ==
  ASSUME TypeOK, PublishesUnderLease, PublishedOnce, OwnNames, StillCurrent,
         Next, None \notin Calls
  PROVE  StillCurrent'
<1>1. ASSUME NEW c \in Calls, Read(c) PROVE StillCurrent'
  <2>1. Live' = Live /\ Revision(Live)' = Revision(Live) /\ overwrite' = overwrite
    BY <1>1 DEF Read, Live, Revision, Goto, Undisturbed, Return, Forget, files,
       guards, NoRevision
  <2>2. \A d \in Calls \ {c} : /\ pc'[d] = pc[d] /\ base'[d] = base[d]
                               /\ bound'[d] = bound[d]
                               /\ d \notin overrun' => d \notin overrun
    BY <1>1 DEF Read, TypeOK, Goto, Undisturbed, Return, Forget, files, guards,
       NoRevision
  <2>3. c \notin overrun' => Current(c)'
    BY <1>1, <2>1 DEF Read, TypeOK, StillCurrent, OwnNames, Current, Looked,
       Goto, Undisturbed, Return, Forget, files, guards, NoRevision
  <2> QED
    BY <2>1, <2>2, <2>3, CurrentFrame
<1>2. ASSUME NEW c \in Calls, Prepare(c) PROVE StillCurrent'
  <2>1. Live' = Live /\ Revision(Live)' = Revision(Live) /\ overwrite' = overwrite
    BY <1>2 DEF Prepare, Live, Revision, Goto, Undisturbed, files, guards
  <2>2. \A d \in Calls \ {c} : /\ pc'[d] = pc[d] /\ base'[d] = base[d]
                               /\ bound'[d] = bound[d]
                               /\ d \notin overrun' => d \notin overrun
    BY <1>2 DEF Prepare, TypeOK, Goto, Undisturbed, files, guards
  <2>3. c \notin overrun' => Current(c)'
    BY <1>2, <2>1 DEF Prepare, TypeOK, StillCurrent, OwnNames, Current, Looked,
       Goto, Undisturbed, files, guards
  <2> QED
    BY <2>1, <2>2, <2>3, CurrentFrame
<1>3. ASSUME NEW c \in Calls, Leave(c) PROVE StillCurrent'
  <2>1. Live' = Live /\ Revision(Live)' = Revision(Live) /\ overwrite' = overwrite
    BY <1>3 DEF Leave, Live, Revision, Goto, Return, Forget, files, guards,
       NoRevision
  <2>2. \A d \in Calls \ {c} : /\ pc'[d] = pc[d] /\ base'[d] = base[d]
                               /\ bound'[d] = bound[d]
                               /\ d \notin overrun' => d \notin overrun
    BY <1>3 DEF Leave, TypeOK, Goto, Return, Forget, files, guards, NoRevision
  <2>3. c \notin overrun' => Current(c)'
    BY <1>3, <2>1 DEF Leave, TypeOK, StillCurrent, OwnNames, Current, Looked,
       Goto, Return, Forget, files, guards, NoRevision
  <2> QED
    BY <2>1, <2>2, <2>3, CurrentFrame
<1>4. ASSUME NEW c \in Calls, Acquire(c) PROVE StillCurrent'
  <2>1. Live' = Live /\ Revision(Live)' = Revision(Live) /\ overwrite' = overwrite
    BY <1>4 DEF Acquire, Live, Revision, Goto, Undisturbed, files, locals
  <2>2. \A d \in Calls \ {c} : /\ pc'[d] = pc[d] /\ base'[d] = base[d]
                               /\ bound'[d] = bound[d]
                               /\ d \notin overrun' => d \notin overrun
    BY <1>4 DEF Acquire, TypeOK, Goto, Undisturbed, files, locals
  <2>3. c \notin overrun' => Current(c)'
    BY <1>4, <2>1 DEF Acquire, TypeOK, StillCurrent, OwnNames, Current, Looked,
       Goto, Undisturbed, files, locals
  <2> QED
    BY <2>1, <2>2, <2>3, CurrentFrame
<1>5. ASSUME NEW c \in Calls, Start(c) PROVE StillCurrent'
  <2>1. Live' = Live /\ Revision(Live)' = Revision(Live) /\ overwrite' = overwrite
    BY <1>5 DEF Start, Live, Revision, Goto, Then, Undisturbed, WorkerEnds,
       WorkerFails, Forget, files, guards, locals, NoRevision
  <2>2. \A d \in Calls \ {c} : /\ pc'[d] = pc[d] /\ base'[d] = base[d]
                               /\ bound'[d] = bound[d]
                               /\ d \notin overrun' => d \notin overrun
    BY <1>5 DEF Start, TypeOK, Goto, Then, Undisturbed, WorkerEnds,
       WorkerFails, Forget, files, guards, locals, NoRevision
  <2>3. c \notin overrun' => Current(c)'
    BY <1>5, <2>1 DEF Start, TypeOK, StillCurrent, OwnNames, Current, Looked,
       Goto, Then, Undisturbed, WorkerEnds, WorkerFails, Forget, files, guards,
       locals, NoRevision
  <2> QED
    BY <2>1, <2>2, <2>3, CurrentFrame
<1>6. ASSUME NEW c \in Calls, Bind(c) PROVE StillCurrent'
  <2>1. Live' = Live /\ Revision(Live)' = Revision(Live) /\ overwrite' = overwrite
    BY <1>6 DEF Bind, Live, Revision, Goto, Then, WorkerEnds, WorkerFails,
       Forget, files, guards, NoRevision
  <2>2. \A d \in Calls \ {c} : /\ pc'[d] = pc[d] /\ base'[d] = base[d]
                               /\ bound'[d] = bound[d]
                               /\ d \notin overrun' => d \notin overrun
    BY <1>6 DEF Bind, TypeOK, Goto, Then, WorkerEnds, WorkerFails, Forget,
       files, guards, NoRevision
  <2>3. c \notin overrun' => Current(c)'
    BY <1>6, <2>1 DEF Bind, TypeOK, StillCurrent, OwnNames, Current, Looked,
       Goto, Then, WorkerEnds, WorkerFails, Forget, files, guards, NoRevision
  <2> QED
    BY <2>1, <2>2, <2>3, CurrentFrame
<1>7. ASSUME NEW c \in Calls, Lock(c) PROVE StillCurrent'
  <2>1. Live' = Live /\ Revision(Live)' = Revision(Live) /\ overwrite' = overwrite
    BY <1>7 DEF Lock, Live, Revision, Goto, Undisturbed, WorkerEnds,
       WorkerFails, Forget, files, locals, Conditional, NoRevision
  <2>2. \A d \in Calls \ {c} : /\ pc'[d] = pc[d] /\ base'[d] = base[d]
                               /\ bound'[d] = bound[d]
                               /\ d \notin overrun' => d \notin overrun
    BY <1>7 DEF Lock, TypeOK, Goto, Undisturbed, WorkerEnds, WorkerFails,
       Forget, files, locals, Conditional, NoRevision
  <2>3. c \notin overrun' => Current(c)'
    BY <1>7, <2>1 DEF Lock, TypeOK, StillCurrent, OwnNames, Current, Looked,
       Goto, Undisturbed, WorkerEnds, WorkerFails, Forget, files, locals,
       Conditional, NoRevision
  <2> QED
    BY <2>1, <2>2, <2>3, CurrentFrame
<1>8. ASSUME NEW c \in Calls, CheckIdentity(c) PROVE StillCurrent'
  <2>1. Live' = Live /\ Revision(Live)' = Revision(Live) /\ overwrite' = overwrite
    BY <1>8 DEF CheckIdentity, Live, Revision, Goto, Then, WorkerEnds,
       WorkerFails, Forget, Checked, files, guards, locals, NoRevision
  <2>2. \A d \in Calls \ {c} : /\ pc'[d] = pc[d] /\ base'[d] = base[d]
                               /\ bound'[d] = bound[d]
                               /\ d \notin overrun' => d \notin overrun
    BY <1>8 DEF CheckIdentity, TypeOK, Goto, Then, WorkerEnds, WorkerFails,
       Forget, Checked, files, guards, locals, NoRevision
  <2>3. c \notin overrun' => Current(c)'
    BY <1>8, <2>1 DEF CheckIdentity, TypeOK, StillCurrent, OwnNames, Current,
       Looked, Goto, Then, WorkerEnds, WorkerFails, Forget, Checked, files,
       guards, locals, NoRevision
  <2> QED
    BY <2>1, <2>2, <2>3, CurrentFrame
<1>9. ASSUME NEW c \in Calls, CheckRevision(c) PROVE StillCurrent'
  <2>1. Live' = Live /\ Revision(Live)' = Revision(Live) /\ overwrite' = overwrite
    BY <1>9 DEF CheckRevision, Live, Revision, Goto, Then, WorkerEnds,
       WorkerFails, Forget, Checked, files, guards, locals, Conditional,
       NoRevision
  <2>2. \A d \in Calls \ {c} : /\ pc'[d] = pc[d] /\ base'[d] = base[d]
                               /\ bound'[d] = bound[d]
                               /\ d \notin overrun' => d \notin overrun
    BY <1>9 DEF CheckRevision, TypeOK, Goto, Then, WorkerEnds, WorkerFails,
       Forget, Checked, files, guards, locals, Conditional, NoRevision
  <2>3. c \notin overrun' => Current(c)'
    BY <1>9, <2>1 DEF CheckRevision, TypeOK, StillCurrent, OwnNames, Current,
       Looked, Goto, Then, WorkerEnds, WorkerFails, Forget, Checked, files,
       guards, locals, Conditional, NoRevision
  <2> QED
    BY <2>1, <2>2, <2>3, CurrentFrame
<1>10. ASSUME NEW c \in Calls, CheckAbsent(c) PROVE StillCurrent'
  <2>1. Live' = Live /\ Revision(Live)' = Revision(Live) /\ overwrite' = overwrite
    BY <1>10 DEF CheckAbsent, Live, Revision, Goto, Then, WorkerEnds,
       WorkerFails, Forget, Checked, files, guards, locals, NoRevision
  <2>2. \A d \in Calls \ {c} : /\ pc'[d] = pc[d] /\ base'[d] = base[d]
                               /\ bound'[d] = bound[d]
                               /\ d \notin overrun' => d \notin overrun
    BY <1>10 DEF CheckAbsent, TypeOK, Goto, Then, WorkerEnds, WorkerFails,
       Forget, Checked, files, guards, locals, NoRevision
  <2>3. c \notin overrun' => Current(c)'
    BY <1>10, <2>1 DEF CheckAbsent, TypeOK, StillCurrent, OwnNames, Current,
       Looked, Goto, Then, WorkerEnds, WorkerFails, Forget, Checked, files,
       guards, locals, NoRevision
  <2> QED
    BY <2>1, <2>2, <2>3, CurrentFrame
<1>11. ASSUME NEW c \in Calls, CreateTemp(c) PROVE StillCurrent'
  <2>1. Live' = Live /\ Revision(Live)' = Revision(Live) /\ overwrite' = overwrite
    BY <1>11 DEF CreateTemp, Live, Revision, Goto, Then, Undisturbed,
       WorkerEnds, WorkerFails, Forget, guards, locals, NoRevision
  <2>2. \A d \in Calls \ {c} : /\ pc'[d] = pc[d] /\ base'[d] = base[d]
                               /\ bound'[d] = bound[d]
                               /\ d \notin overrun' => d \notin overrun
    BY <1>11 DEF CreateTemp, TypeOK, Goto, Then, Undisturbed, WorkerEnds,
       WorkerFails, Forget, guards, locals, NoRevision
  <2>3. c \notin overrun' => Current(c)'
    BY <1>11, <2>1 DEF CreateTemp, TypeOK, StillCurrent, OwnNames, Current,
       Looked, Goto, Then, Undisturbed, WorkerEnds, WorkerFails, Forget,
       guards, locals, NoRevision
  <2> QED
    BY <2>1, <2>2, <2>3, CurrentFrame
<1>12. ASSUME NEW c \in Calls, AttachProbe(c) PROVE StillCurrent'
  <2>1. Live' = Live /\ Revision(Live)' = Revision(Live) /\ overwrite' = overwrite
    BY <1>12 DEF AttachProbe, Live, Revision, Goto, Then, Undisturbed, Abandon,
       files, guards, locals
  <2>2. \A d \in Calls \ {c} : /\ pc'[d] = pc[d] /\ base'[d] = base[d]
                               /\ bound'[d] = bound[d]
                               /\ d \notin overrun' => d \notin overrun
    BY <1>12 DEF AttachProbe, TypeOK, Goto, Then, Undisturbed, Abandon, files,
       guards, locals
  <2>3. c \notin overrun' => Current(c)'
    BY <1>12, <2>1 DEF AttachProbe, TypeOK, StillCurrent, OwnNames, Current,
       Looked, Goto, Then, Undisturbed, Abandon, files, guards, locals
  <2> QED
    BY <2>1, <2>2, <2>3, CurrentFrame
<1>13. ASSUME NEW c \in Calls, WriteTemp(c) PROVE StillCurrent'
  <2>1. Live' = Live /\ Revision(Live)' = Revision(Live) /\ overwrite' = overwrite
    <3>1. Live' = Live /\ overwrite' = overwrite
      BY <1>13 DEF WriteTemp, Live, Then, Abandon, files, guards
    <3>2. stamp' = stamp \/ stamp' = [stamp EXCEPT ![c] = 1]
      BY <1>13 DEF WriteTemp, Abandon, files
    <3>3. Live # None => stamp'[Live] = stamp[Live]
      BY <1>13, <3>2, FillsAnother, LiveTyped DEF WriteTemp, TypeOK
    <3> QED
      BY <3>1, <3>3 DEF Revision
  <2>2. \A d \in Calls \ {c} : /\ pc'[d] = pc[d] /\ base'[d] = base[d]
                               /\ bound'[d] = bound[d]
                               /\ d \notin overrun' => d \notin overrun
    BY <1>13 DEF WriteTemp, TypeOK, Goto, Then, Undisturbed, Abandon, files,
       guards, locals
  <2>3. c \notin overrun' => Current(c)'
    BY <1>13, <2>1 DEF WriteTemp, TypeOK, StillCurrent, OwnNames, Current,
       Looked, Goto, Then, Undisturbed, Abandon, files, guards, locals
  <2> QED
    BY <2>1, <2>2, <2>3, CurrentFrame
<1>14. ASSUME NEW c \in Calls, Gate(c) PROVE StillCurrent'
  <2>1. Live' = Live /\ Revision(Live)' = Revision(Live) /\ overwrite' = overwrite
    BY <1>14 DEF Gate, Live, Revision, Goto, Then, Undisturbed, Abandon, files,
       guards, locals
  <2>2. \A d \in Calls \ {c} : /\ pc'[d] = pc[d] /\ base'[d] = base[d]
                               /\ bound'[d] = bound[d]
                               /\ d \notin overrun' => d \notin overrun
    BY <1>14 DEF Gate, TypeOK, Goto, Then, Undisturbed, Abandon, files, guards,
       locals
  <2>3. c \notin overrun' => Current(c)'
    BY <1>14, <2>1 DEF Gate, TypeOK, StillCurrent, OwnNames, Current, Looked,
       Goto, Then, Undisturbed, Abandon, files, guards, locals
  <2> QED
    BY <2>1, <2>2, <2>3, CurrentFrame
<1>15. ASSUME NEW c \in Calls, Publish(c) PROVE StillCurrent'
  <2>1. CASE Abandon(c) /\ UNCHANGED locals
    <3>1. /\ Live' = Live /\ Revision(Live)' = Revision(Live) /\ overwrite' = overwrite
          /\ UNCHANGED locals /\ pc' = [pc EXCEPT ![c] = "cleanup"]
      BY <2>1 DEF Abandon, Then, Goto, files, guards, Live, Revision
    <3>2. Current(c)'
      BY <3>1 DEF TypeOK, Current, Looked
    <3> QED
      BY <3>1, <3>2, CurrentFrame DEF TypeOK, locals
  <2>2. CASE Then(c, "mode")
    <3>1. \A d \in Calls \ {c} : pc[d] \notin Working
      BY <1>15 DEF Publish, PublishesUnderLease, Working, Locked
    <3>2. pc' = [pc EXCEPT ![c] = "mode"]
      BY <2>2 DEF Then, Goto
    <3>3. \A d \in Calls : pc'[d] \notin Looked \union {"hash"}
      BY <3>1, <3>2 DEF TypeOK, Looked, Working, Locked
    <3> QED
      BY <3>3 DEF StillCurrent, Current
  <2> QED
    BY <1>15, <2>1, <2>2 DEF Publish
<1>16. ASSUME NEW c \in Calls, RestoreMode(c) PROVE StillCurrent'
  <2>1. Live' = Live /\ Revision(Live)' = Revision(Live) /\ overwrite' = overwrite
    BY <1>16 DEF RestoreMode, Live, Revision, Goto, Then, Abandon, files,
       guards, locals
  <2>2. \A d \in Calls \ {c} : /\ pc'[d] = pc[d] /\ base'[d] = base[d]
                               /\ bound'[d] = bound[d]
                               /\ d \notin overrun' => d \notin overrun
    BY <1>16 DEF RestoreMode, TypeOK, Goto, Then, Abandon, files, guards,
       locals
  <2>3. c \notin overrun' => Current(c)'
    BY <1>16, <2>1 DEF RestoreMode, TypeOK, StillCurrent, OwnNames, Current,
       Looked, Goto, Then, Abandon, files, guards, locals
  <2> QED
    BY <2>1, <2>2, <2>3, CurrentFrame
<1>17. ASSUME NEW c \in Calls, SyncParent(c) PROVE StillCurrent'
  <2>1. Live' = Live /\ Revision(Live)' = Revision(Live) /\ overwrite' = overwrite
    BY <1>17 DEF SyncParent, Live, Revision, Goto, Then, Abandon, files,
       guards, locals
  <2>2. \A d \in Calls \ {c} : /\ pc'[d] = pc[d] /\ base'[d] = base[d]
                               /\ bound'[d] = bound[d]
                               /\ d \notin overrun' => d \notin overrun
    BY <1>17 DEF SyncParent, TypeOK, Goto, Then, Abandon, files, guards, locals
  <2>3. c \notin overrun' => Current(c)'
    BY <1>17, <2>1 DEF SyncParent, TypeOK, StillCurrent, OwnNames, Current,
       Looked, Goto, Then, Abandon, files, guards, locals
  <2> QED
    BY <2>1, <2>2, <2>3, CurrentFrame
<1>18. ASSUME NEW c \in Calls, RemoveProbe(c) PROVE StillCurrent'
  <2>1. Live' = Live /\ Revision(Live)' = Revision(Live) /\ overwrite' = overwrite
    BY <1>18 DEF RemoveProbe, Live, Revision, Goto, Then, Abandon, files,
       guards, locals
  <2>2. \A d \in Calls \ {c} : /\ pc'[d] = pc[d] /\ base'[d] = base[d]
                               /\ bound'[d] = bound[d]
                               /\ d \notin overrun' => d \notin overrun
    BY <1>18 DEF RemoveProbe, TypeOK, Goto, Then, Abandon, files, guards,
       locals
  <2>3. c \notin overrun' => Current(c)'
    BY <1>18, <2>1 DEF RemoveProbe, TypeOK, StillCurrent, OwnNames, Current,
       Looked, Goto, Then, Abandon, files, guards, locals
  <2> QED
    BY <2>1, <2>2, <2>3, CurrentFrame
<1>19. ASSUME NEW c \in Calls, Verify(c) PROVE StillCurrent'
  <2>1. Live' = Live /\ Revision(Live)' = Revision(Live) /\ overwrite' = overwrite
    BY <1>19 DEF Verify, Live, Revision, Goto, Then, Undisturbed, WorkerEnds,
       Forget, Abandon, files, guards, locals, NoRevision
  <2>2. \A d \in Calls \ {c} : /\ pc'[d] = pc[d] /\ base'[d] = base[d]
                               /\ bound'[d] = bound[d]
                               /\ d \notin overrun' => d \notin overrun
    BY <1>19 DEF Verify, TypeOK, Goto, Then, Undisturbed, WorkerEnds, Forget,
       Abandon, files, guards, locals, NoRevision
  <2>3. c \notin overrun' => Current(c)'
    BY <1>19, <2>1 DEF Verify, TypeOK, StillCurrent, OwnNames, Current, Looked,
       Goto, Then, Undisturbed, WorkerEnds, Forget, Abandon, files, guards,
       locals, NoRevision
  <2> QED
    BY <2>1, <2>2, <2>3, CurrentFrame
<1>20. ASSUME NEW c \in Calls, Cleanup(c) PROVE StillCurrent'
  <2>1. Live' = Live /\ Revision(Live)' = Revision(Live) /\ overwrite' = overwrite
    BY <1>20 DEF Cleanup, Live, Revision, Goto, WorkerEnds, WorkerFails,
       Forget, NoRevision
  <2>2. \A d \in Calls \ {c} : /\ pc'[d] = pc[d] /\ base'[d] = base[d]
                               /\ bound'[d] = bound[d]
                               /\ d \notin overrun' => d \notin overrun
    BY <1>20 DEF Cleanup, TypeOK, Goto, WorkerEnds, WorkerFails, Forget,
       NoRevision
  <2>3. c \notin overrun' => Current(c)'
    BY <1>20, <2>1 DEF Cleanup, TypeOK, StillCurrent, OwnNames, Current,
       Looked, Goto, WorkerEnds, WorkerFails, Forget, NoRevision
  <2> QED
    BY <2>1, <2>2, <2>3, CurrentFrame
<1>21. ASSUME NEW c \in Calls, Answer(c) PROVE StillCurrent'
  <2>1. Live' = Live /\ Revision(Live)' = Revision(Live) /\ overwrite' = overwrite
    BY <1>21 DEF Answer, Live, Revision, Goto, Undisturbed, files, guards,
       locals
  <2>2. \A d \in Calls \ {c} : /\ pc'[d] = pc[d] /\ base'[d] = base[d]
                               /\ bound'[d] = bound[d]
                               /\ d \notin overrun' => d \notin overrun
    BY <1>21 DEF Answer, TypeOK, Goto, Undisturbed, files, guards, locals
  <2>3. c \notin overrun' => Current(c)'
    BY <1>21, <2>1 DEF Answer, TypeOK, StillCurrent, OwnNames, Current, Looked,
       Goto, Undisturbed, files, guards, locals
  <2> QED
    BY <2>1, <2>2, <2>3, CurrentFrame
<1>22. ASSUME NEW c \in Calls, Stop(c) PROVE StillCurrent'
  <2>1. Live' = Live /\ Revision(Live)' = Revision(Live) /\ overwrite' = overwrite
    BY <1>22 DEF Stop, Live, Revision, Undisturbed, files, guards, locals
  <2>2. \A d \in Calls \ {c} : /\ pc'[d] = pc[d] /\ base'[d] = base[d]
                               /\ bound'[d] = bound[d]
                               /\ d \notin overrun' => d \notin overrun
    BY <1>22 DEF Stop, TypeOK, Undisturbed, files, guards, locals
  <2>3. c \notin overrun' => Current(c)'
    BY <1>22, <2>1 DEF Stop, TypeOK, StillCurrent, OwnNames, Current, Looked,
       Undisturbed, files, guards, locals
  <2> QED
    BY <2>1, <2>2, <2>3, CurrentFrame
<1>23. ASSUME ForeignRename PROVE StillCurrent'
  BY <1>23 DEF ForeignRename, StillCurrent, Current, PastName, Looked, guards
<1>24. ASSUME ForeignModify PROVE StillCurrent'
  <2>1. /\ Live' = Live /\ pc' = pc /\ bound' = bound
        /\ \A d \in Calls \ overrun' : d \notin overrun /\ pc[d] \notin Looked
    BY <1>24 DEF ForeignModify, Live, PastName, PastContent, Looked, guards
  <2> QED
    BY <2>1 DEF StillCurrent, Current
<1>25. ASSUME NEW c \in Calls, MakeParents(c) PROVE StillCurrent'
  <2>1. Live' = Live /\ Revision(Live)' = Revision(Live) /\ overwrite' = overwrite
    BY <1>25 DEF MakeParents, Live, Revision, Goto, Then, WorkerEnds,
       WorkerFails, Forget, guards, locals, NoRevision
  <2>2. \A d \in Calls \ {c} : /\ pc'[d] = pc[d] /\ base'[d] = base[d]
                               /\ bound'[d] = bound[d]
                               /\ d \notin overrun' => d \notin overrun
    BY <1>25 DEF MakeParents, TypeOK, Goto, Then, WorkerEnds, WorkerFails,
       Forget, guards, locals, NoRevision
  <2>3. c \notin overrun' => Current(c)'
    BY <1>25, <2>1 DEF MakeParents, TypeOK, StillCurrent, OwnNames, Current,
       Looked, Goto, Then, WorkerEnds, WorkerFails, Forget, 
       guards, locals, NoRevision
  <2> QED
    BY <2>1, <2>2, <2>3, CurrentFrame
<1> QED
  BY <1>1, <1>2, <1>3, <1>4, <1>5, <1>6, <1>7, <1>8, <1>9, <1>10, <1>11,
     <1>12, <1>13, <1>14, <1>15, <1>16, <1>17, <1>18, <1>19, <1>20, <1>21,
     <1>22, <1>23, <1>24, <1>25 DEF Next

-----------------------------------------------------------------------------
(* The theorems.                                                           *)

LEMMA InitIInv == Init => IInv
<1> SUFFICES ASSUME Init PROVE IInv
  OBVIOUS
<1>1. TypeOK
  <2>1. 0 \in Inodes /\ NoRevision \in (Inodes \union {None}) \X Nat
    BY ConstantsAssumption DEF Inodes, Foreign, NoRevision
  <2>2. names \in Seq(Inodes \union {None}) /\ Len(names) = 1 /\ durable = 1
    <3>1. CASE names = <<0>>
      BY <2>1, <3>1 DEF Init
    <3>2. CASE names = <<None>>
      BY <3>2 DEF Init
    <3> QED
      BY <3>1, <3>2 DEF Init
  <2>3. stamp \in [Inodes -> Nat] /\ Foreign \subseteq Inodes
    BY DEF Init, Inodes
  <2> QED
    BY <2>1, <2>2, <2>3 DEF Init, TypeOK
<1>2. \A c \in Calls : pc[c] \in {"read", "prepare"}
  BY DEF Init
<1>3. PublishesUnderLease
  BY <1>2 DEF PublishesUnderLease, Working, Locked
<1>4. Len(names) = 1 /\ names[1] \in {0, None} /\ 0 \in Foreign
  BY ConstantsAssumption DEF Init, Foreign
<1>5. WholeFiles
  BY <1>2, <1>4 DEF Init, WholeFiles, Filled, Renamed
<1>6. PublishedOnce
  <2>1. \A c \in Calls : pc[c] \notin Renamed /\ pc[c] \notin Synced
    BY <1>2 DEF Renamed, Synced
  <2>2. \A c \in Calls : c # 0 /\ c # None
    BY <1>4, ConstantsAssumption DEF Inodes
  <2> QED
    BY <1>4, <2>1, <2>2 DEF PublishedOnce
<1>7. OwnNames /\ StillCurrent
  BY <1>2 DEF Init, OwnNames, StillCurrent, Current, Renamed, Looked
<1> QED
  BY <1>1, <1>3, <1>5, <1>6, <1>7 DEF IInv

(* Every step keeps the invariant.                                         *)
LEMMA StepIInv == IInv /\ [Next]_vars => IInv'
<1> SUFFICES ASSUME IInv, [Next]_vars PROVE IInv'
  OBVIOUS
<1>1. None \notin Calls
  BY ConstantsAssumption DEF Inodes
<1>2. CASE Next
  BY <1>1, <1>2, TypeStep, LeaseStep, WholeStep, PublishedStep, OwnStep,
     CurrentStep DEF IInv
<1>3. CASE UNCHANGED vars
  <2>1. TypeOK' /\ PublishesUnderLease' /\ WholeFiles'
    BY <1>3 DEF IInv, vars, TypeOK, PublishesUnderLease, WholeFiles
  <2>2. PublishedOnce' /\ OwnNames'
    BY <1>3 DEF IInv, vars, PublishedOnce, OwnNames
  <2>3. StillCurrent'
    BY <1>3 DEF IInv, vars, StillCurrent, Current, Live, Revision
  <2> QED
    BY <2>1, <2>2, <2>3 DEF IInv
<1> QED
  BY <1>2, <1>3

(* The invariant of every behaviour: types, the lease and the lock of the  *)
(* worker, synchronized files, one publication per call, temporary names   *)
(* and checks that still hold.                                             *)
THEOREM InductiveInvariant == Spec => []IInv
BY InitIInv, StepIInv, PTL DEF Spec

(* Types.                                                                  *)
THEOREM TypeCorrect == Spec => []TypeOK
BY InductiveInvariant, PTL DEF IInv

(* write_file_with_lease: no worker is ever without the execution lease,   *)
(* whenever its call is cancelled, times out or is dropped.                *)
THEOREM LeaseCorrect == Spec => []PublishesUnderLease
BY InductiveInvariant, PTL DEF IInv

(* write_temp, sync_parent, finish_write: what a power loss leaves under    *)
(* the name is whole, and not older than an acknowledged write; only the    *)
(* directory can be lost as a whole, while its path may not be on disk.     *)
THEOREM DurableCorrect == Spec => []DurableAndWhole
<1>1. IInv => DurableAndWhole
  <2> SUFFICES ASSUME IInv PROVE DurableAndWhole
    OBVIOUS
  <2>1. durable \in 1..Len(names) /\ Len(names) \in Nat
    BY DEF IInv, TypeOK
  <2>2. ASSUME NEW k \in AfterPowerLoss, k # 0
        PROVE  k \in durable..Len(names) /\ 1..durable \subseteq 1..k
    BY <2>1, <2>2 DEF AfterPowerLoss
  <2>3. \A k \in durable..Len(names) : names[k] # None => names[k] \in synced
    BY <2>1 DEF IInv, WholeFiles
  <2>4. \A c \in Calls : pc[c] = "ok" => /\ \E j \in 1..durable : names[j] = c
                                        /\ c \notin temps \union probes
    BY DEF IInv, PublishedOnce, OwnNames, Synced, Renamed
  <2> QED
    BY <2>2, <2>3, <2>4 DEF DurableAndWhole
<1> QED
  BY <1>1, InductiveInvariant, PTL

(* write_existing and write_missing: a publication replaces what the call  *)
(* read, unless another program changed it after the check.                *)
THEOREM NoUpdateLost == Spec => NoLostUpdate
<1>1. ASSUME IInv, [Next]_vars, NEW c \in Calls, names' # names, Last(names') = c
      PROVE  ReplacesWhatItRead(c)
  <2>1. Next
    BY <1>1 DEF vars
  <2>2. CASE \E d \in Calls : Publish(d)
    <3>1. PICK d \in Calls : Publish(d)
      BY <2>2
    <3>2. /\ pc[d] = "rename" /\ names' = Append(names, d)
          /\ bound[d] # None \/ Live = None
      BY <1>1, <3>1 DEF Publish, Abandon, files
    <3>3. d = c
      BY <1>1, <3>2 DEF IInv, TypeOK, Last
    <3>4. c \notin overrun => Current(c)
      BY <1>1 DEF IInv, StillCurrent
    <3> QED
      BY <3>2, <3>3, <3>4 DEF Current, Looked, ReplacesWhatItRead
  <2>3. CASE ForeignRename
    <3>1. PICK x \in Foreign \union {None} : names' = Append(names, x)
      BY <2>3, ForeignEntry
    <3>2. Last(names') = x
      BY <1>1, <3>1 DEF IInv, TypeOK, Last
    <3> QED
      BY <1>1, <3>2, ConstantsAssumption DEF Inodes
  <2>4. CASE ~ForeignRename /\ ~\E d \in Calls : Publish(d)
    <3>1. names' = names
      BY <2>1, <2>4 DEF Next, Read, Prepare, Leave, Acquire, Start, Bind, Lock,
         CheckIdentity, CheckRevision, MakeParents, CheckAbsent, CreateTemp,
         AttachProbe, WriteTemp, Gate, RestoreMode, SyncParent, RemoveProbe, Verify,
         Cleanup, Answer, Stop, ForeignModify, files, Return, WorkerFails,
         Checked, Abandon
    <3> QED
      BY <1>1, <3>1
  <2> QED
    BY <2>2, <2>3, <2>4
<1>2. IInv /\ [Next]_vars =>
        [\A c \in Calls :
           names' # names /\ Last(names') = c => ReplacesWhatItRead(c)]_vars
  BY <1>1
<1> QED
  BY <1>2, InductiveInvariant, PTL DEF Spec, NoLostUpdate
=============================================================================
