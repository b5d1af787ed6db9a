--------------------------- MODULE Staging_proofs ---------------------------
(***************************************************************************)
(* Proofs about Staging, for all sets of ids, processes and files, every   *)
(* capacity of the staging root and every number of failures.              *)
(***************************************************************************)
EXTENDS Staging, TLAPS

\* The pcs of a process that makes a transaction: before its payload is on the
\* disk, then up to the guard that finish() returns.  And of one that deletes.
Early == {"draw_sync", "lock", "lock_sync", "payload", "payload_sync"}
Journaling == {"temp", "temp_sync", "rename", "rename_sync"}
Placing == {"file", "file_sync", "parent_sync"}
Late == Journaling \cup Placing \cup {"writing", "mkdir", "mkdir_sync", "poisoned", "staged"}
Makers == Early \cup Late
Deleters == {"delete", "barrier"}

Typed ==
  /\ TypeOK
  /\ pc \in [Procs -> {"idle", "root", "root_sync", "draw", "scan"} \cup Makers \cup Deleters]
  /\ \A t \in Ids : dirty[t] \subseteq {"temp"} \cup Journals \cup Files

\* A transaction has one owner at a time, and its maker has nothing of it deleted.
Owned ==
  /\ \A p, q \in Procs : own[p] # None /\ own[p] = own[q] => p = q
  /\ \A p \in Procs : own[p] # None <=> pc[p] \in Makers \cup Deleters
  /\ \A p \in Procs : own[p] # None => own[p] \in drawn
  /\ \A p \in Procs : pc[p] \in Makers => own[p] \notin touched
  /\ \A p \in Procs : todo[p] \subseteq drawn
  /\ \A t \in Ids \ drawn : vol[t] = {} /\ dur[t] = {} /\ dirty[t] = {} /\ ledger[t] = {}

\* How much of its transaction a maker has in the cache and on the disk.
Made(p) ==
  LET t == own[p] IN
  /\ pc[p] \in Makers => "root" \in vol[t]
  /\ pc[p] \in Makers \ {"draw_sync"} => "root" \in dur[t]
  /\ pc[p] \in Makers \ {"draw_sync", "lock"} => "lock" \in vol[t]
  /\ pc[p] \in Makers \ {"draw_sync", "lock", "lock_sync"} => "lock" \in dur[t]
  /\ pc[p] \in Makers \ {"draw_sync", "lock", "lock_sync", "payload"} => "payload" \in vol[t]
  /\ pc[p] \in Late => "payload" \in dur[t]
  /\ pc[p] \in Early => ledger[t] = {} /\ "dir" \notin vol[t]
  /\ pc[p] \in Late => Expected(t) \subseteq vol[t] \cap dur[t] /\ dirty[t] \cap Expected(t) = {}
  /\ pc[p] = "rename" => "temp" \notin dirty[t]
  /\ pc[p] \in Makers \ {"rename_sync", "staged"} => "staged" \notin vol[t] \cup dur[t]

\* What a write of a file has done so far.
Written(p) ==
  LET t == own[p] IN
  /\ pc[p] \in {"mkdir", "mkdir_sync"} \cup Placing => writes[p] \in Files \ ledger[t]
  /\ pc[p] \in {"mkdir", "mkdir_sync"} => writes[p] \in Nested
  /\ pc[p] = "mkdir" => "dir" \notin vol[t]
  /\ pc[p] = "mkdir_sync" => "dir" \in vol[t]
  /\ pc[p] \in Placing => Parent(writes[p]) \in vol[t]
  /\ pc[p] \in {"writing"} \cup Placing \cup Journaling => ("dir" \in vol[t] => "dir" \in dur[t])
  /\ pc[p] \in {"file_sync", "parent_sync"} => writes[p] \in vol[t]
  /\ pc[p] = "parent_sync" => writes[p] \notin dirty[t]

Making == \A p \in Procs : Made(p) /\ Written(p)

\* A journal is renamed when its bytes are on the disk, and only a recovery
\* removes a transaction.
Disk ==
  \A t \in Ids :
    /\ dirty[t] \cap Journals = {}
    /\ t \notin touched /\ "root" \in dur[t] => "root" \in vol[t]

\* One recovery runs at a time.  What it has to remove is still as it found it, or
\* it is removing it, or has removed it from the disk.
Recovering ==
  /\ \A p, q \in glock : p = q
  /\ \A p \in Procs : pc[p] \in {"scan"} \cup Deleters => p \in glock
  /\ \A p \in Procs : pc[p] = "barrier" => "root" \notin vol[own[p]]
  /\ \A p \in Procs : pc[p] \notin {"scan"} \cup Deleters => owed[p] = {}
  /\ \A p \in Procs : owed[p] \subseteq drawn
  /\ \A p \in Procs : \A t \in owed[p] :
       IF t \in todo[p] THEN WellFormed(t) /\ ~Busy(t)
                        ELSE own[p] = t \/ "root" \notin vol[t] \cup dur[t]

IInv == Typed /\ Owned /\ Making /\ Disk /\ StagedDurable /\ Recovering

ProcStep(p) ==
  \/ Begin(p) \/ BeginStep(p) \/ JournalStep(p) \/ WriteStep(p)
  \/ Recover(p) \/ RecoverStep(p) \/ RecoverPreserve(p) \/ Stop(p)

-----------------------------------------------------------------------------
\* The names of the entries are different.
LEMMA Names ==
  /\ Children["root"] = {"lock", "temp", "payload", "writing", "staged"}
  /\ Children["payload"] = {"dir"} \cup (Files \ Nested)
  /\ Children["dir"] = Nested
  /\ Nested \subseteq Files
  /\ \A f \in Files : f \notin {"root", "lock", "temp", "payload", "dir", "writing", "staged"}
  /\ Entries = {"root", "lock", "temp", "payload", "dir", "writing", "staged"} \cup Files
  /\ Payload = {"dir"} \cup Files
  /\ Directories = {"root", "payload", "dir"}
BY StagingAssumption DEF Children, Journals, Entries, Payload, Directories

\* There is nothing on the disk.
LEMMA InitIInv == Init => IInv
<1> SUFFICES ASSUME Init PROVE IInv
  OBVIOUS
<1> USE StagingAssumption DEF Init
<1>1. /\ vol \in [Ids -> SUBSET Entries]
      /\ dur \in [Ids -> SUBSET Entries]
      /\ dirty \in [Ids -> SUBSET Entries]
      /\ ledger \in [Ids -> SUBSET Files]
  OBVIOUS
<1>3. /\ own \in [Procs -> Ids \cup {None}]
      /\ writes \in [Procs -> Files \cup {None}]
      /\ todo \in [Procs -> SUBSET Ids]
      /\ owed \in [Procs -> SUBSET Ids]
  OBVIOUS
<1>4. pc \in [Procs -> {"idle", "root", "root_sync", "draw", "scan"} \cup Makers \cup Deleters]
  OBVIOUS
<1>6. rootVol \in BOOLEAN /\ rootDur \in BOOLEAN
  OBVIOUS
<1>8. faults \in 0..MaxFaults
  OBVIOUS
<1>9. /\ drawn \subseteq Ids /\ glock \subseteq Procs
      /\ acked \subseteq drawn /\ touched \subseteq drawn
  OBVIOUS
<1>7. /\ {vol, dur, dirty} \subseteq [Ids -> SUBSET Entries]
      /\ {todo, owed} \subseteq [Procs -> SUBSET Ids]
  BY <1>1, <1>3, Zenon
<1>10. \A t \in Ids : dirty[t] \subseteq {"temp"} \cup Journals \cup Files
  OBVIOUS
<1>5. Typed
  BY <1>1, <1>3, <1>4, <1>6, <1>7, <1>8, <1>9, <1>10, Zenon DEF Typed, TypeOK
<1>2. Owned /\ Making /\ Disk /\ StagedDurable /\ Recovering
  BY DEF Owned, Making, Made, Written, Disk, StagedDurable, Recovering, Makers, Deleters, Early, Late,
         Journaling, Placing, Exists
<1> QED
  BY <1>2, <1>5 DEF IInv

\* Every step of a process keeps the types.
LEMMA StepTyped ==
  ASSUME Typed, Owned, Making, NEW p \in Procs, ProcStep(p)
  PROVE  Typed'
<1> USE Names, StagingAssumption DEF Typed, TypeOK, Journals, Owned, Making, Made, Written, Makers, Deleters, Early, Late, Journaling, Placing
<1>1. CASE Begin(p)
  BY <1>1 DEF Begin, Goto, disk, locks, history
<1>2. CASE BeginRoot(p)
  BY <1>2 DEF BeginRoot, Goto, disk, locks, history
<1>3. CASE BeginRootSync(p)
  BY <1>3 DEF BeginRootSync, Goto, disk, locks, history
<1>4. CASE BeginDraw(p)
  BY <1>4 DEF BeginDraw, Goto, Create, Exists, disk, locks, history
<1>5. CASE BeginDrawSync(p)
  BY <1>5 DEF BeginDrawSync, Goto, SyncStaging, Synced, disk, locks, history
<1>6. CASE BeginMake(p)
  BY <1>6 DEF BeginMake, Goto, Create, disk, locks, history
<1>7. CASE BeginMakeSync(p)
  BY <1>7 DEF BeginMakeSync, Goto, SyncDirectory, Synced, disk, locks, history
<1>8. CASE JournalTemp(p)
  BY <1>8 DEF JournalTemp, Goto, Create, disk, locks, history
<1>9. CASE JournalTempSync(p)
  BY <1>9 DEF JournalTempSync, Goto, disk, locks, history
<1>10. CASE JournalRename(p)
  BY <1>10 DEF JournalRename, Journals, disk, locks, history
<1>11. CASE JournalSync(p)
  BY <1>11 DEF JournalSync, SyncDirectory, Synced, disk, locks, history
<1>12. CASE Write(p)
  BY <1>12 DEF Write, disk, locks, history
<1>13. CASE WriteMkdir(p)
  BY <1>13 DEF WriteMkdir, Goto, Create, disk, locks, history
<1>14. CASE WriteMkdirSync(p)
  BY <1>14 DEF WriteMkdirSync, Goto, SyncDirectory, Synced, disk, locks, history
<1>15. CASE WriteFile(p)
  BY <1>15 DEF WriteFile, Goto, Create, disk, locks, history
<1>16. CASE WriteFileSync(p)
  BY <1>16 DEF WriteFileSync, Goto, disk, locks, history
<1>17. CASE WriteParentSync(p)
  BY <1>17 DEF WriteParentSync, Goto, SyncDirectory, Synced, disk, locks, history
<1>18. CASE WriteFails(p)
  BY <1>18 DEF WriteFails, Mutated, disk, locks, history
<1>19. CASE Finish(p)
  BY <1>19 DEF Finish, Goto, disk, locks, history
<1>20. CASE Recover(p)
  BY <1>20 DEF Recover, Goto, Exists, WellFormed, Busy, disk, locks, history
<1>21. CASE RecoverSkip(p)
  BY <1>21 DEF RecoverSkip, Goto, Busy, disk, locks, history
<1>22. CASE RecoverPreserve(p)
  BY <1>22 DEF RecoverPreserve, Goto, disk, locks, history
<1>23. CASE RecoverClaim(p)
  BY <1>23 DEF RecoverClaim, Goto, Busy, WellFormed, disk, locks, history
<1>24. CASE RecoverUnlink(p)
  BY <1>24 DEF RecoverUnlink, SyncDirectory, Synced, disk, locks, history
<1>25. CASE RecoverBarrier(p)
  BY <1>25 DEF RecoverBarrier, Goto, SyncStaging, Synced, disk, locks, history
<1>26. CASE RecoverReturn(p)
  BY <1>26 DEF RecoverReturn, Goto, disk, locks, history
<1>27. CASE Stop(p)
  BY <1>27 DEF Stop, disk, locks, history
<1> QED
  BY <1>1, <1>2, <1>3, <1>4, <1>5, <1>6, <1>7, <1>8, <1>9, <1>10, <1>11, <1>12, <1>13,
     <1>14, <1>15, <1>16, <1>17, <1>18, <1>19, <1>20, <1>21, <1>22, <1>23, <1>24, <1>25,
     <1>26, <1>27 DEF ProcStep, BeginStep, JournalStep, WriteStep, RecoverStep

\* A transaction is claimed when nobody has it, and made under an id nobody has had.
LEMMA StepOwned ==
  ASSUME Typed, Owned, NEW p \in Procs, ProcStep(p)
  PROVE  Owned'
<1> USE StagingAssumption DEF Typed, TypeOK, Owned, Makers, Deleters, Early, Late, Journaling, Placing
<1>1. CASE Begin(p)
  BY <1>1 DEF Begin, Goto, disk, locks, history
<1>2. CASE BeginRoot(p)
  BY <1>2 DEF BeginRoot, Goto, disk, locks, history
<1>3. CASE BeginRootSync(p)
  BY <1>3 DEF BeginRootSync, Goto, disk, locks, history
<1>4. CASE BeginDraw(p)
  BY <1>4 DEF BeginDraw, Goto, Create, Exists, disk, locks, history
<1>5. CASE BeginDrawSync(p)
  BY <1>5 DEF BeginDrawSync, Goto, SyncStaging, Synced, disk, locks, history
<1>6. CASE BeginMake(p)
  BY <1>6 DEF BeginMake, Goto, Create, disk, locks, history
<1>7. CASE BeginMakeSync(p)
  BY <1>7 DEF BeginMakeSync, Goto, SyncDirectory, Synced, disk, locks, history
<1>8. CASE JournalTemp(p)
  BY <1>8 DEF JournalTemp, Goto, Create, disk, locks, history
<1>9. CASE JournalTempSync(p)
  BY <1>9 DEF JournalTempSync, Goto, disk, locks, history
<1>10. CASE JournalRename(p)
  BY <1>10 DEF JournalRename, Journals, disk, locks, history
<1>11. CASE JournalSync(p)
  BY <1>11 DEF JournalSync, SyncDirectory, Synced, disk, locks, history
<1>12. CASE Write(p)
  BY <1>12 DEF Write, disk, locks, history
<1>13. CASE WriteMkdir(p)
  BY <1>13 DEF WriteMkdir, Goto, Create, disk, locks, history
<1>14. CASE WriteMkdirSync(p)
  BY <1>14 DEF WriteMkdirSync, Goto, SyncDirectory, Synced, disk, locks, history
<1>15. CASE WriteFile(p)
  BY <1>15 DEF WriteFile, Goto, Create, disk, locks, history
<1>16. CASE WriteFileSync(p)
  BY <1>16 DEF WriteFileSync, Goto, disk, locks, history
<1>17. CASE WriteParentSync(p)
  BY <1>17 DEF WriteParentSync, Goto, SyncDirectory, Synced, disk, locks, history
<1>18. CASE WriteFails(p)
  BY <1>18 DEF WriteFails, Mutated, disk, locks, history
<1>19. CASE Finish(p)
  BY <1>19 DEF Finish, Goto, disk, locks, history
<1>20. CASE Recover(p)
  BY <1>20 DEF Recover, Goto, Exists, WellFormed, Busy, disk, locks, history
<1>21. CASE RecoverSkip(p)
  BY <1>21 DEF RecoverSkip, Goto, Busy, disk, locks, history
<1>22. CASE RecoverPreserve(p)
  BY <1>22 DEF RecoverPreserve, Goto, disk, locks, history
<1>23. CASE RecoverClaim(p)
  BY <1>23 DEF RecoverClaim, Goto, Busy, WellFormed, disk, locks, history
<1>24. CASE RecoverUnlink(p)
  BY <1>24 DEF RecoverUnlink, SyncDirectory, Synced, disk, locks, history
<1>25. CASE RecoverBarrier(p)
  BY <1>25 DEF RecoverBarrier, Goto, SyncStaging, Synced, disk, locks, history
<1>26. CASE RecoverReturn(p)
  BY <1>26 DEF RecoverReturn, Goto, disk, locks, history
<1>27. CASE Stop(p)
  BY <1>27 DEF Stop, disk, locks, history
<1> QED
  BY <1>1, <1>2, <1>3, <1>4, <1>5, <1>6, <1>7, <1>8, <1>9, <1>10, <1>11, <1>12, <1>13,
     <1>14, <1>15, <1>16, <1>17, <1>18, <1>19, <1>20, <1>21, <1>22, <1>23, <1>24, <1>25,
     <1>26, <1>27 DEF ProcStep, BeginStep, JournalStep, WriteStep, RecoverStep

\* A maker brings to the disk what the next of its steps needs; nobody else has its transaction.
LEMMA StepMaking ==
  ASSUME Typed, Owned, Making, NEW p \in Procs, ProcStep(p)
  PROVE  Making'
<1> USE Names, StagingAssumption DEF Typed, TypeOK, Owned, Making, Made, Written, Expected, Parent, Makers, Deleters, Early, Late, Journaling, Placing
<1>1. CASE Begin(p)
  BY <1>1 DEF Begin, Goto, disk, locks, history
<1>2. CASE BeginRoot(p)
  BY <1>2 DEF BeginRoot, Goto, disk, locks, history
<1>3. CASE BeginRootSync(p)
  BY <1>3 DEF BeginRootSync, Goto, disk, locks, history
<1>4. CASE BeginDraw(p)
  BY <1>4 DEF BeginDraw, Goto, Create, Exists, disk, locks, history
<1>5. CASE BeginDrawSync(p)
  BY <1>5 DEF BeginDrawSync, Goto, SyncStaging, Synced, disk, locks, history
<1>6. CASE BeginMake(p)
  BY <1>6 DEF BeginMake, Goto, Create, disk, locks, history
<1>7. CASE BeginMakeSync(p)
  BY <1>7 DEF BeginMakeSync, Goto, SyncDirectory, Synced, disk, locks, history
<1>8. CASE JournalTemp(p)
  BY <1>8 DEF JournalTemp, Goto, Create, disk, locks, history
<1>9. CASE JournalTempSync(p)
  BY <1>9 DEF JournalTempSync, Goto, disk, locks, history
<1>10. CASE JournalRename(p)
  BY <1>10 DEF JournalRename, Journals, disk, locks, history
<1>11. CASE JournalSync(p)
  BY <1>11 DEF JournalSync, SyncDirectory, Synced, disk, locks, history
<1>12. CASE Write(p)
  BY <1>12 DEF Write, disk, locks, history
<1>13. CASE WriteMkdir(p)
  BY <1>13 DEF WriteMkdir, Goto, Create, disk, locks, history
<1>14. CASE WriteMkdirSync(p)
  BY <1>14 DEF WriteMkdirSync, Goto, SyncDirectory, Synced, disk, locks, history
<1>15. CASE WriteFile(p)
  BY <1>15 DEF WriteFile, Goto, Create, disk, locks, history
<1>16. CASE WriteFileSync(p)
  BY <1>16 DEF WriteFileSync, Goto, disk, locks, history
<1>17. CASE WriteParentSync(p)
  <2> DEFINE t == own[p]
             f == writes[p]
  <2>1. /\ pc[p] = "parent_sync" /\ t \in Ids /\ t # None /\ f \in Files \ ledger[t]
        /\ f \in vol[t] \ dirty[t] /\ Parent(f) \in vol[t] /\ ("dir" \in vol[t] => "dir" \in dur[t])
    BY <1>17 DEF WriteParentSync, Goto
  <2>2. /\ pc' = [pc EXCEPT ![p] = "writing"] /\ own' = own /\ vol' = vol /\ dirty' = dirty
        /\ ledger' = [ledger EXCEPT ![t] = @ \cup {f}]
        /\ writes' = [writes EXCEPT ![p] = None]
        /\ dur' = [dur EXCEPT ![t] = (dur[t] \ Children[Parent(f)]) \cup (vol[t] \cap Children[Parent(f)])]
    BY <1>17 DEF WriteParentSync, Goto, SyncDirectory, Synced, disk, locks, history
  <2>3. \A q \in Procs \ {p} : own[q] # t
    BY <2>1
  <2>4. \A q \in Procs \ {p} : (Made(q) /\ Written(q))'
    BY <2>2, <2>3
  <2>5. /\ f \in Children[Parent(f)]
        /\ \A e \in {"root", "lock", "payload", "staged"} : e \notin Children[Parent(f)]
    BY <2>1
  <2>6. dur'[t] = (dur[t] \ Children[Parent(f)]) \cup (vol[t] \cap Children[Parent(f)])
    BY <2>1, <2>2
  <2>7. /\ ledger'[t] = ledger[t] \cup {f}
        /\ ledger'[t] \cup (IF ledger'[t] \cap Nested = {} THEN {} ELSE {"dir"}) \subseteq vol[t]
    BY <2>1, <2>2
  <2>8. /\ Expected(t)' \subseteq dur'[t]
        /\ dirty'[t] \cap Expected(t)' = {}
    BY <2>1, <2>2, <2>6, <2>7 DEF Journals
  <2>9. Made(p)'
    BY <2>1, <2>2, <2>5, <2>6, <2>7, <2>8
  <2>10. Written(p)'
    BY <2>1, <2>2, <2>6
  <2> HIDE DEF Made, Written
  <2> QED
    BY <2>4, <2>9, <2>10
<1>18. CASE WriteFails(p)
  BY <1>18 DEF WriteFails, Mutated, disk, locks, history
<1>19. CASE Finish(p)
  BY <1>19 DEF Finish, Goto, disk, locks, history
<1>20. CASE Recover(p)
  BY <1>20 DEF Recover, Goto, Exists, WellFormed, Busy, disk, locks, history
<1>21. CASE RecoverSkip(p)
  BY <1>21 DEF RecoverSkip, Goto, Busy, disk, locks, history
<1>22. CASE RecoverPreserve(p)
  BY <1>22 DEF RecoverPreserve, Goto, disk, locks, history
<1>23. CASE RecoverClaim(p)
  BY <1>23 DEF RecoverClaim, Goto, Busy, WellFormed, disk, locks, history
<1>24. CASE RecoverUnlink(p)
  BY <1>24 DEF RecoverUnlink, SyncDirectory, Synced, disk, locks, history
<1>25. CASE RecoverBarrier(p)
  BY <1>25 DEF RecoverBarrier, Goto, SyncStaging, Synced, disk, locks, history
<1>26. CASE RecoverReturn(p)
  BY <1>26 DEF RecoverReturn, Goto, disk, locks, history
<1>27. CASE Stop(p)
  BY <1>27 DEF Stop, disk, locks, history
<1> QED
  BY <1>1, <1>2, <1>3, <1>4, <1>5, <1>6, <1>7, <1>8, <1>9, <1>10, <1>11, <1>12, <1>13,
     <1>14, <1>15, <1>16, <1>17, <1>18, <1>19, <1>20, <1>21, <1>22, <1>23, <1>24, <1>25,
     <1>26, <1>27 DEF ProcStep, BeginStep, JournalStep, WriteStep, RecoverStep

\* A journal is renamed when its bytes are on the disk.
LEMMA StepDisk ==
  ASSUME Typed, Owned, Making, Disk, NEW p \in Procs, ProcStep(p)
  PROVE  Disk'
<1> USE Names, StagingAssumption DEF Typed, TypeOK, Owned, Making, Made, Written, Disk, Journals, Makers, Deleters, Early, Late, Journaling, Placing
<1>1. CASE Begin(p)
  BY <1>1 DEF Begin, Goto, disk, locks, history
<1>2. CASE BeginRoot(p)
  BY <1>2 DEF BeginRoot, Goto, disk, locks, history
<1>3. CASE BeginRootSync(p)
  BY <1>3 DEF BeginRootSync, Goto, disk, locks, history
<1>4. CASE BeginDraw(p)
  BY <1>4 DEF BeginDraw, Goto, Create, Exists, disk, locks, history
<1>5. CASE BeginDrawSync(p)
  BY <1>5 DEF BeginDrawSync, Goto, SyncStaging, Synced, disk, locks, history
<1>6. CASE BeginMake(p)
  BY <1>6 DEF BeginMake, Goto, Create, disk, locks, history
<1>7. CASE BeginMakeSync(p)
  BY <1>7 DEF BeginMakeSync, Goto, SyncDirectory, Synced, disk, locks, history
<1>8. CASE JournalTemp(p)
  BY <1>8 DEF JournalTemp, Goto, Create, disk, locks, history
<1>9. CASE JournalTempSync(p)
  BY <1>9 DEF JournalTempSync, Goto, disk, locks, history
<1>10. CASE JournalRename(p)
  BY <1>10 DEF JournalRename, Journals, disk, locks, history
<1>11. CASE JournalSync(p)
  BY <1>11 DEF JournalSync, SyncDirectory, Synced, disk, locks, history
<1>12. CASE Write(p)
  BY <1>12 DEF Write, disk, locks, history
<1>13. CASE WriteMkdir(p)
  BY <1>13 DEF WriteMkdir, Goto, Create, disk, locks, history
<1>14. CASE WriteMkdirSync(p)
  BY <1>14 DEF WriteMkdirSync, Goto, SyncDirectory, Synced, disk, locks, history
<1>15. CASE WriteFile(p)
  BY <1>15 DEF WriteFile, Goto, Create, disk, locks, history
<1>16. CASE WriteFileSync(p)
  BY <1>16 DEF WriteFileSync, Goto, disk, locks, history
<1>17. CASE WriteParentSync(p)
  BY <1>17 DEF WriteParentSync, Goto, SyncDirectory, Synced, disk, locks, history
<1>18. CASE WriteFails(p)
  BY <1>18 DEF WriteFails, Mutated, disk, locks, history
<1>19. CASE Finish(p)
  BY <1>19 DEF Finish, Goto, disk, locks, history
<1>20. CASE Recover(p)
  BY <1>20 DEF Recover, Goto, Exists, WellFormed, Busy, disk, locks, history
<1>21. CASE RecoverSkip(p)
  BY <1>21 DEF RecoverSkip, Goto, Busy, disk, locks, history
<1>22. CASE RecoverPreserve(p)
  BY <1>22 DEF RecoverPreserve, Goto, disk, locks, history
<1>23. CASE RecoverClaim(p)
  BY <1>23 DEF RecoverClaim, Goto, Busy, WellFormed, disk, locks, history
<1>24. CASE RecoverUnlink(p)
  BY <1>24 DEF RecoverUnlink, SyncDirectory, Synced, disk, locks, history
<1>25. CASE RecoverBarrier(p)
  BY <1>25 DEF RecoverBarrier, Goto, SyncStaging, Synced, disk, locks, history
<1>26. CASE RecoverReturn(p)
  BY <1>26 DEF RecoverReturn, Goto, disk, locks, history
<1>27. CASE Stop(p)
  BY <1>27 DEF Stop, disk, locks, history
<1> QED
  BY <1>1, <1>2, <1>3, <1>4, <1>5, <1>6, <1>7, <1>8, <1>9, <1>10, <1>11, <1>12, <1>13,
     <1>14, <1>15, <1>16, <1>17, <1>18, <1>19, <1>20, <1>21, <1>22, <1>23, <1>24, <1>25,
     <1>26, <1>27 DEF ProcStep, BeginStep, JournalStep, WriteStep, RecoverStep

\* The journal is renamed after everything it speaks of is on the disk.
LEMMA StepStaged ==
  ASSUME Typed, Owned, Making, Disk, StagedDurable, NEW p \in Procs, ProcStep(p)
  PROVE  StagedDurable'
<1> USE Names, StagingAssumption DEF Typed, TypeOK, Owned, Making, Made, Written, Disk, StagedDurable, Whole, Expected, Exists, Journals, Makers, Deleters, Early, Late, Journaling, Placing
<1>1. CASE Begin(p)
  BY <1>1 DEF Begin, Goto, disk, locks, history
<1>2. CASE BeginRoot(p)
  BY <1>2 DEF BeginRoot, Goto, disk, locks, history
<1>3. CASE BeginRootSync(p)
  BY <1>3 DEF BeginRootSync, Goto, disk, locks, history
<1>4. CASE BeginDraw(p)
  BY <1>4 DEF BeginDraw, Goto, Create, Exists, disk, locks, history
<1>5. CASE BeginDrawSync(p)
  BY <1>5 DEF BeginDrawSync, Goto, SyncStaging, Synced, disk, locks, history
<1>6. CASE BeginMake(p)
  BY <1>6 DEF BeginMake, Goto, Create, disk, locks, history
<1>7. CASE BeginMakeSync(p)
  BY <1>7 DEF BeginMakeSync, Goto, SyncDirectory, Synced, disk, locks, history
<1>8. CASE JournalTemp(p)
  BY <1>8 DEF JournalTemp, Goto, Create, disk, locks, history
<1>9. CASE JournalTempSync(p)
  BY <1>9 DEF JournalTempSync, Goto, disk, locks, history
<1>10. CASE JournalRename(p)
  BY <1>10 DEF JournalRename, Journals, disk, locks, history
<1>11. CASE JournalSync(p)
  BY <1>11 DEF JournalSync, SyncDirectory, Synced, disk, locks, history
<1>12. CASE Write(p)
  BY <1>12 DEF Write, disk, locks, history
<1>13. CASE WriteMkdir(p)
  BY <1>13 DEF WriteMkdir, Goto, Create, disk, locks, history
<1>14. CASE WriteMkdirSync(p)
  BY <1>14 DEF WriteMkdirSync, Goto, SyncDirectory, Synced, disk, locks, history
<1>15. CASE WriteFile(p)
  BY <1>15 DEF WriteFile, Goto, Create, disk, locks, history
<1>16. CASE WriteFileSync(p)
  BY <1>16 DEF WriteFileSync, Goto, disk, locks, history
<1>17. CASE WriteParentSync(p)
  BY <1>17 DEF WriteParentSync, Goto, SyncDirectory, Synced, disk, locks, history
<1>18. CASE WriteFails(p)
  BY <1>18 DEF WriteFails, Mutated, disk, locks, history
<1>19. CASE Finish(p)
  BY <1>19 DEF Finish, Goto, disk, locks, history
<1>20. CASE Recover(p)
  BY <1>20 DEF Recover, Goto, Exists, WellFormed, Busy, disk, locks, history
<1>21. CASE RecoverSkip(p)
  BY <1>21 DEF RecoverSkip, Goto, Busy, disk, locks, history
<1>22. CASE RecoverPreserve(p)
  BY <1>22 DEF RecoverPreserve, Goto, disk, locks, history
<1>23. CASE RecoverClaim(p)
  BY <1>23 DEF RecoverClaim, Goto, Busy, WellFormed, disk, locks, history
<1>24. CASE RecoverUnlink(p)
  BY <1>24 DEF RecoverUnlink, SyncDirectory, Synced, disk, locks, history
<1>25. CASE RecoverBarrier(p)
  BY <1>25 DEF RecoverBarrier, Goto, SyncStaging, Synced, disk, locks, history
<1>26. CASE RecoverReturn(p)
  BY <1>26 DEF RecoverReturn, Goto, disk, locks, history
<1>27. CASE Stop(p)
  BY <1>27 DEF Stop, disk, locks, history
<1> QED
  BY <1>1, <1>2, <1>3, <1>4, <1>5, <1>6, <1>7, <1>8, <1>9, <1>10, <1>11, <1>12, <1>13,
     <1>14, <1>15, <1>16, <1>17, <1>18, <1>19, <1>20, <1>21, <1>22, <1>23, <1>24, <1>25,
     <1>26, <1>27 DEF ProcStep, BeginStep, JournalStep, WriteStep, RecoverStep

\* Nothing that a recovery has to remove or has removed is of anybody else.
LEMMA Bystander ==
  ASSUME Typed, Owned, Making, Recovering, NEW p \in Procs,
         pc[p] \notin {"scan"} \cup Deleters, pc'[p] \notin {"scan"} \cup Deleters,
         \A q \in Procs \ {p} : pc'[q] = pc[q] /\ own'[q] = own[q],
         own'[p] \in {own[p]} \cup (Ids \ drawn),
         todo' = todo, owed' = owed, drawn \subseteq drawn',
         glock \ {p} \subseteq glock', \A q, r \in glock' : q = r,
         \A t \in drawn \ {own[p]} :
           /\ vol'[t] = vol[t] /\ dirty'[t] = dirty[t]
           /\ "root" \in dur'[t] => "root" \in vol[t] \cup dur[t]
  PROVE  Recovering'
<1>1. own[p] # None => "root" \in vol[own[p]]
  BY DEF Owned, Making, Made
<1>2. \A q \in Procs : own[q] \in Ids \cup {None} /\ owed[q] \subseteq Ids
  BY DEF Typed, TypeOK
<1>3. ASSUME NEW q \in Procs, pc'[q] = "barrier" PROVE "root" \notin vol'[own'[q]]
  <2>1. q # p /\ pc[q] = "barrier"
    BY <1>3 DEF Deleters
  <2>2. own[q] # None /\ own[q] \in drawn
    BY <2>1 DEF Owned, Deleters
  <2>3. "root" \notin vol[own[q]] /\ own[q] # own[p]
    BY <2>1, <2>2 DEF Recovering, Owned
  <2> QED
    BY <2>1, <2>2, <2>3
<1>4. ASSUME NEW q \in Procs, NEW t \in owed'[q]
      PROVE  IF t \in todo'[q] THEN (WellFormed(t) /\ ~Busy(t))'
                               ELSE own'[q] = t \/ "root" \notin vol'[t] \cup dur'[t]
  <2>1. t \in Ids /\ t \in drawn
    BY <1>2 DEF Recovering
  <2>2. q # p
    BY DEF Recovering
  <2>3. CASE t \in todo[q]
    <3>1. WellFormed(t) /\ ~Busy(t)
      BY <2>3 DEF Recovering
    <3>2. t # own[p]
      BY <3>1 DEF Busy
    <3>3. WellFormed(t)'
      BY <2>1, <3>1, <3>2 DEF WellFormed
    <3>4. ~Busy(t)'
      BY <2>1, <3>1 DEF Busy
    <3> QED
      BY <2>3, <3>3, <3>4
  <2>4. CASE t \notin todo[q]
    <3>1. own[q] = t \/ "root" \notin vol[t] \cup dur[t]
      BY <2>4 DEF Recovering
    <3>2. CASE own[q] = t
      BY <2>2, <2>4, <3>2
    <3>3. CASE "root" \notin vol[t] \cup dur[t]
      <4>1. t # own[p]
        BY <1>1, <2>1, <3>3, StagingAssumption
      <4> QED
        BY <2>1, <2>4, <3>3, <4>1
    <3> QED
      BY <3>1, <3>2, <3>3
  <2> QED
    BY <2>3, <2>4
<1>5. \A q \in Procs : pc'[q] \in {"scan"} \cup Deleters => q # p /\ pc[q] \in {"scan"} \cup Deleters
  OBVIOUS
<1>6. \A q \in Procs : pc'[q] \in {"scan"} \cup Deleters => q \in glock'
  BY <1>5 DEF Recovering
<1>7. \A q \in Procs : pc'[q] \notin {"scan"} \cup Deleters => owed'[q] = {}
  BY DEF Recovering
<1>8. \A q \in Procs : owed'[q] \subseteq drawn'
  BY DEF Recovering
<1> QED
  BY <1>3, <1>4, <1>6, <1>7, <1>8 DEF Recovering

\* A recovery leaves nothing of what it found abandoned.
LEMMA StepRecovering ==
  ASSUME Typed, Owned, Making, Recovering, NEW p \in Procs, ProcStep(p)
  PROVE  Recovering'
<1> USE Names, StagingAssumption DEF Typed, TypeOK, Owned, Recovering, Busy, WellFormed, Makers, Deleters, Early, Late, Journaling, Placing
<1>1. CASE Begin(p)
  <2>1. /\ pc[p] \notin {"scan"} \cup Deleters /\ pc'[p] \notin {"scan"} \cup Deleters
        /\ \A q \in Procs \ {p} : pc'[q] = pc[q] /\ own'[q] = own[q]
        /\ own'[p] \in {own[p]} \cup (Ids \ drawn)
        /\ todo' = todo /\ owed' = owed /\ drawn \subseteq drawn'
        /\ glock \ {p} \subseteq glock' /\ \A q, r \in glock' : q = r
    BY <1>1 DEF Begin, Goto, disk, locks, history
  <2>2. \A t \in drawn \ {own[p]} :
          /\ vol'[t] = vol[t] /\ dirty'[t] = dirty[t]
          /\ "root" \in dur'[t] => "root" \in vol[t] \cup dur[t]
    BY <1>1 DEF Begin, Goto, disk, locks, history
  <2> HIDE Names, StagingAssumption
          DEF Typed, TypeOK, Owned, Recovering, Busy, WellFormed, Makers
  <2> QED
    BY <2>1, <2>2, Bystander, Zenon
<1>2. CASE BeginRoot(p)
  <2>1. /\ pc[p] \notin {"scan"} \cup Deleters /\ pc'[p] \notin {"scan"} \cup Deleters
        /\ \A q \in Procs \ {p} : pc'[q] = pc[q] /\ own'[q] = own[q]
        /\ own'[p] \in {own[p]} \cup (Ids \ drawn)
        /\ todo' = todo /\ owed' = owed /\ drawn \subseteq drawn'
        /\ glock \ {p} \subseteq glock' /\ \A q, r \in glock' : q = r
    BY <1>2 DEF BeginRoot, Goto, disk, locks, history
  <2>2. \A t \in drawn \ {own[p]} :
          /\ vol'[t] = vol[t] /\ dirty'[t] = dirty[t]
          /\ "root" \in dur'[t] => "root" \in vol[t] \cup dur[t]
    BY <1>2 DEF BeginRoot, Goto, disk, locks, history
  <2> HIDE Names, StagingAssumption
          DEF Typed, TypeOK, Owned, Recovering, Busy, WellFormed, Makers
  <2> QED
    BY <2>1, <2>2, Bystander, Zenon
<1>3. CASE BeginRootSync(p)
  <2>1. /\ pc[p] \notin {"scan"} \cup Deleters /\ pc'[p] \notin {"scan"} \cup Deleters
        /\ \A q \in Procs \ {p} : pc'[q] = pc[q] /\ own'[q] = own[q]
        /\ own'[p] \in {own[p]} \cup (Ids \ drawn)
        /\ todo' = todo /\ owed' = owed /\ drawn \subseteq drawn'
        /\ glock \ {p} \subseteq glock' /\ \A q, r \in glock' : q = r
    BY <1>3 DEF BeginRootSync, Goto, disk, locks, history
  <2>2. \A t \in drawn \ {own[p]} :
          /\ vol'[t] = vol[t] /\ dirty'[t] = dirty[t]
          /\ "root" \in dur'[t] => "root" \in vol[t] \cup dur[t]
    BY <1>3 DEF BeginRootSync, Goto, disk, locks, history
  <2> HIDE Names, StagingAssumption
          DEF Typed, TypeOK, Owned, Recovering, Busy, WellFormed, Makers
  <2> QED
    BY <2>1, <2>2, Bystander, Zenon
<1>4. CASE BeginDraw(p)
  <2>1. /\ pc[p] \notin {"scan"} \cup Deleters /\ pc'[p] \notin {"scan"} \cup Deleters
        /\ \A q \in Procs \ {p} : pc'[q] = pc[q] /\ own'[q] = own[q]
        /\ own'[p] \in {own[p]} \cup (Ids \ drawn)
        /\ todo' = todo /\ owed' = owed /\ drawn \subseteq drawn'
        /\ glock \ {p} \subseteq glock' /\ \A q, r \in glock' : q = r
    BY <1>4 DEF BeginDraw, Goto, Create, Exists, disk, locks, history
  <2>2. \A t \in drawn \ {own[p]} :
          /\ vol'[t] = vol[t] /\ dirty'[t] = dirty[t]
          /\ "root" \in dur'[t] => "root" \in vol[t] \cup dur[t]
    BY <1>4 DEF BeginDraw, Goto, Create, Exists, disk, locks, history
  <2> HIDE Names, StagingAssumption
          DEF Typed, TypeOK, Owned, Recovering, Busy, WellFormed, Makers
  <2> QED
    BY <2>1, <2>2, Bystander, Zenon
<1>5. CASE BeginDrawSync(p)
  <2>1. /\ pc[p] \notin {"scan"} \cup Deleters /\ pc'[p] \notin {"scan"} \cup Deleters
        /\ \A q \in Procs \ {p} : pc'[q] = pc[q] /\ own'[q] = own[q]
        /\ own'[p] \in {own[p]} \cup (Ids \ drawn)
        /\ todo' = todo /\ owed' = owed /\ drawn \subseteq drawn'
        /\ glock \ {p} \subseteq glock' /\ \A q, r \in glock' : q = r
    BY <1>5 DEF BeginDrawSync, Goto, SyncStaging, Synced, disk, locks, history
  <2>2. \A t \in drawn \ {own[p]} :
          /\ vol'[t] = vol[t] /\ dirty'[t] = dirty[t]
          /\ "root" \in dur'[t] => "root" \in vol[t] \cup dur[t]
    BY <1>5 DEF BeginDrawSync, Goto, SyncStaging, Synced, disk, locks, history
  <2> HIDE Names, StagingAssumption
          DEF Typed, TypeOK, Owned, Recovering, Busy, WellFormed, Makers
  <2> QED
    BY <2>1, <2>2, Bystander, Zenon
<1>6. CASE BeginMake(p)
  <2>1. /\ pc[p] \notin {"scan"} \cup Deleters /\ pc'[p] \notin {"scan"} \cup Deleters
        /\ \A q \in Procs \ {p} : pc'[q] = pc[q] /\ own'[q] = own[q]
        /\ own'[p] \in {own[p]} \cup (Ids \ drawn)
        /\ todo' = todo /\ owed' = owed /\ drawn \subseteq drawn'
        /\ glock \ {p} \subseteq glock' /\ \A q, r \in glock' : q = r
    BY <1>6 DEF BeginMake, Goto, Create, disk, locks, history
  <2>2. \A t \in drawn \ {own[p]} :
          /\ vol'[t] = vol[t] /\ dirty'[t] = dirty[t]
          /\ "root" \in dur'[t] => "root" \in vol[t] \cup dur[t]
    BY <1>6 DEF BeginMake, Goto, Create, disk, locks, history
  <2> HIDE Names, StagingAssumption
          DEF Typed, TypeOK, Owned, Recovering, Busy, WellFormed, Makers
  <2> QED
    BY <2>1, <2>2, Bystander, Zenon
<1>7. CASE BeginMakeSync(p)
  <2>1. /\ pc[p] \notin {"scan"} \cup Deleters /\ pc'[p] \notin {"scan"} \cup Deleters
        /\ \A q \in Procs \ {p} : pc'[q] = pc[q] /\ own'[q] = own[q]
        /\ own'[p] \in {own[p]} \cup (Ids \ drawn)
        /\ todo' = todo /\ owed' = owed /\ drawn \subseteq drawn'
        /\ glock \ {p} \subseteq glock' /\ \A q, r \in glock' : q = r
    BY <1>7 DEF BeginMakeSync, Goto, SyncDirectory, Synced, disk, locks, history
  <2>2. \A t \in drawn \ {own[p]} :
          /\ vol'[t] = vol[t] /\ dirty'[t] = dirty[t]
          /\ "root" \in dur'[t] => "root" \in vol[t] \cup dur[t]
    BY <1>7 DEF BeginMakeSync, Goto, SyncDirectory, Synced, disk, locks, history
  <2> HIDE Names, StagingAssumption
          DEF Typed, TypeOK, Owned, Recovering, Busy, WellFormed, Makers
  <2> QED
    BY <2>1, <2>2, Bystander, Zenon
<1>8. CASE JournalTemp(p)
  <2>1. /\ pc[p] \notin {"scan"} \cup Deleters /\ pc'[p] \notin {"scan"} \cup Deleters
        /\ \A q \in Procs \ {p} : pc'[q] = pc[q] /\ own'[q] = own[q]
        /\ own'[p] \in {own[p]} \cup (Ids \ drawn)
        /\ todo' = todo /\ owed' = owed /\ drawn \subseteq drawn'
        /\ glock \ {p} \subseteq glock' /\ \A q, r \in glock' : q = r
    BY <1>8 DEF JournalTemp, Goto, Create, disk, locks, history
  <2>2. \A t \in drawn \ {own[p]} :
          /\ vol'[t] = vol[t] /\ dirty'[t] = dirty[t]
          /\ "root" \in dur'[t] => "root" \in vol[t] \cup dur[t]
    BY <1>8 DEF JournalTemp, Goto, Create, disk, locks, history
  <2> HIDE Names, StagingAssumption
          DEF Typed, TypeOK, Owned, Recovering, Busy, WellFormed, Makers
  <2> QED
    BY <2>1, <2>2, Bystander, Zenon
<1>9. CASE JournalTempSync(p)
  <2>1. /\ pc[p] \notin {"scan"} \cup Deleters /\ pc'[p] \notin {"scan"} \cup Deleters
        /\ \A q \in Procs \ {p} : pc'[q] = pc[q] /\ own'[q] = own[q]
        /\ own'[p] \in {own[p]} \cup (Ids \ drawn)
        /\ todo' = todo /\ owed' = owed /\ drawn \subseteq drawn'
        /\ glock \ {p} \subseteq glock' /\ \A q, r \in glock' : q = r
    BY <1>9 DEF JournalTempSync, Goto, disk, locks, history
  <2>2. \A t \in drawn \ {own[p]} :
          /\ vol'[t] = vol[t] /\ dirty'[t] = dirty[t]
          /\ "root" \in dur'[t] => "root" \in vol[t] \cup dur[t]
    BY <1>9 DEF JournalTempSync, Goto, disk, locks, history
  <2> HIDE Names, StagingAssumption
          DEF Typed, TypeOK, Owned, Recovering, Busy, WellFormed, Makers
  <2> QED
    BY <2>1, <2>2, Bystander, Zenon
<1>10. CASE JournalRename(p)
  <2>1. /\ pc[p] \notin {"scan"} \cup Deleters /\ pc'[p] \notin {"scan"} \cup Deleters
        /\ \A q \in Procs \ {p} : pc'[q] = pc[q] /\ own'[q] = own[q]
        /\ own'[p] \in {own[p]} \cup (Ids \ drawn)
        /\ todo' = todo /\ owed' = owed /\ drawn \subseteq drawn'
        /\ glock \ {p} \subseteq glock' /\ \A q, r \in glock' : q = r
    BY <1>10 DEF JournalRename, Journals, disk, locks, history
  <2>2. \A t \in drawn \ {own[p]} :
          /\ vol'[t] = vol[t] /\ dirty'[t] = dirty[t]
          /\ "root" \in dur'[t] => "root" \in vol[t] \cup dur[t]
    BY <1>10 DEF JournalRename, Journals, disk, locks, history
  <2> HIDE Names, StagingAssumption
          DEF Typed, TypeOK, Owned, Recovering, Busy, WellFormed, Makers
  <2> QED
    BY <2>1, <2>2, Bystander, Zenon
<1>11. CASE JournalSync(p)
  <2>1. /\ pc[p] \notin {"scan"} \cup Deleters /\ pc'[p] \notin {"scan"} \cup Deleters
        /\ \A q \in Procs \ {p} : pc'[q] = pc[q] /\ own'[q] = own[q]
        /\ own'[p] \in {own[p]} \cup (Ids \ drawn)
        /\ todo' = todo /\ owed' = owed /\ drawn \subseteq drawn'
        /\ glock \ {p} \subseteq glock' /\ \A q, r \in glock' : q = r
    BY <1>11 DEF JournalSync, SyncDirectory, Synced, disk, locks, history
  <2>2. \A t \in drawn \ {own[p]} :
          /\ vol'[t] = vol[t] /\ dirty'[t] = dirty[t]
          /\ "root" \in dur'[t] => "root" \in vol[t] \cup dur[t]
    BY <1>11 DEF JournalSync, SyncDirectory, Synced, disk, locks, history
  <2> HIDE Names, StagingAssumption
          DEF Typed, TypeOK, Owned, Recovering, Busy, WellFormed, Makers
  <2> QED
    BY <2>1, <2>2, Bystander, Zenon
<1>12. CASE Write(p)
  <2>1. /\ pc[p] \notin {"scan"} \cup Deleters /\ pc'[p] \notin {"scan"} \cup Deleters
        /\ \A q \in Procs \ {p} : pc'[q] = pc[q] /\ own'[q] = own[q]
        /\ own'[p] \in {own[p]} \cup (Ids \ drawn)
        /\ todo' = todo /\ owed' = owed /\ drawn \subseteq drawn'
        /\ glock \ {p} \subseteq glock' /\ \A q, r \in glock' : q = r
    BY <1>12 DEF Write, disk, locks, history
  <2>2. \A t \in drawn \ {own[p]} :
          /\ vol'[t] = vol[t] /\ dirty'[t] = dirty[t]
          /\ "root" \in dur'[t] => "root" \in vol[t] \cup dur[t]
    BY <1>12 DEF Write, disk, locks, history
  <2> HIDE Names, StagingAssumption
          DEF Typed, TypeOK, Owned, Recovering, Busy, WellFormed, Makers
  <2> QED
    BY <2>1, <2>2, Bystander, Zenon
<1>13. CASE WriteMkdir(p)
  <2>1. /\ pc[p] \notin {"scan"} \cup Deleters /\ pc'[p] \notin {"scan"} \cup Deleters
        /\ \A q \in Procs \ {p} : pc'[q] = pc[q] /\ own'[q] = own[q]
        /\ own'[p] \in {own[p]} \cup (Ids \ drawn)
        /\ todo' = todo /\ owed' = owed /\ drawn \subseteq drawn'
        /\ glock \ {p} \subseteq glock' /\ \A q, r \in glock' : q = r
    BY <1>13 DEF WriteMkdir, Goto, Create, disk, locks, history
  <2>2. \A t \in drawn \ {own[p]} :
          /\ vol'[t] = vol[t] /\ dirty'[t] = dirty[t]
          /\ "root" \in dur'[t] => "root" \in vol[t] \cup dur[t]
    BY <1>13 DEF WriteMkdir, Goto, Create, disk, locks, history
  <2> HIDE Names, StagingAssumption
          DEF Typed, TypeOK, Owned, Recovering, Busy, WellFormed, Makers
  <2> QED
    BY <2>1, <2>2, Bystander, Zenon
<1>14. CASE WriteMkdirSync(p)
  <2>1. /\ pc[p] \notin {"scan"} \cup Deleters /\ pc'[p] \notin {"scan"} \cup Deleters
        /\ \A q \in Procs \ {p} : pc'[q] = pc[q] /\ own'[q] = own[q]
        /\ own'[p] \in {own[p]} \cup (Ids \ drawn)
        /\ todo' = todo /\ owed' = owed /\ drawn \subseteq drawn'
        /\ glock \ {p} \subseteq glock' /\ \A q, r \in glock' : q = r
    BY <1>14 DEF WriteMkdirSync, Goto, SyncDirectory, Synced, disk, locks, history
  <2>2. \A t \in drawn \ {own[p]} :
          /\ vol'[t] = vol[t] /\ dirty'[t] = dirty[t]
          /\ "root" \in dur'[t] => "root" \in vol[t] \cup dur[t]
    BY <1>14 DEF WriteMkdirSync, Goto, SyncDirectory, Synced, disk, locks, history
  <2> HIDE Names, StagingAssumption
          DEF Typed, TypeOK, Owned, Recovering, Busy, WellFormed, Makers
  <2> QED
    BY <2>1, <2>2, Bystander, Zenon
<1>15. CASE WriteFile(p)
  <2>1. /\ pc[p] \notin {"scan"} \cup Deleters /\ pc'[p] \notin {"scan"} \cup Deleters
        /\ \A q \in Procs \ {p} : pc'[q] = pc[q] /\ own'[q] = own[q]
        /\ own'[p] \in {own[p]} \cup (Ids \ drawn)
        /\ todo' = todo /\ owed' = owed /\ drawn \subseteq drawn'
        /\ glock \ {p} \subseteq glock' /\ \A q, r \in glock' : q = r
    BY <1>15 DEF WriteFile, Goto, Create, disk, locks, history
  <2>2. \A t \in drawn \ {own[p]} :
          /\ vol'[t] = vol[t] /\ dirty'[t] = dirty[t]
          /\ "root" \in dur'[t] => "root" \in vol[t] \cup dur[t]
    BY <1>15 DEF WriteFile, Goto, Create, disk, locks, history
  <2> HIDE Names, StagingAssumption
          DEF Typed, TypeOK, Owned, Recovering, Busy, WellFormed, Makers
  <2> QED
    BY <2>1, <2>2, Bystander, Zenon
<1>16. CASE WriteFileSync(p)
  <2>1. /\ pc[p] \notin {"scan"} \cup Deleters /\ pc'[p] \notin {"scan"} \cup Deleters
        /\ \A q \in Procs \ {p} : pc'[q] = pc[q] /\ own'[q] = own[q]
        /\ own'[p] \in {own[p]} \cup (Ids \ drawn)
        /\ todo' = todo /\ owed' = owed /\ drawn \subseteq drawn'
        /\ glock \ {p} \subseteq glock' /\ \A q, r \in glock' : q = r
    BY <1>16 DEF WriteFileSync, Goto, disk, locks, history
  <2>2. \A t \in drawn \ {own[p]} :
          /\ vol'[t] = vol[t] /\ dirty'[t] = dirty[t]
          /\ "root" \in dur'[t] => "root" \in vol[t] \cup dur[t]
    BY <1>16 DEF WriteFileSync, Goto, disk, locks, history
  <2> HIDE Names, StagingAssumption
          DEF Typed, TypeOK, Owned, Recovering, Busy, WellFormed, Makers
  <2> QED
    BY <2>1, <2>2, Bystander, Zenon
<1>17. CASE WriteParentSync(p)
  <2>1. /\ pc[p] \notin {"scan"} \cup Deleters /\ pc'[p] \notin {"scan"} \cup Deleters
        /\ \A q \in Procs \ {p} : pc'[q] = pc[q] /\ own'[q] = own[q]
        /\ own'[p] \in {own[p]} \cup (Ids \ drawn)
        /\ todo' = todo /\ owed' = owed /\ drawn \subseteq drawn'
        /\ glock \ {p} \subseteq glock' /\ \A q, r \in glock' : q = r
    BY <1>17 DEF WriteParentSync, Goto, SyncDirectory, Synced, disk, locks, history
  <2>2. \A t \in drawn \ {own[p]} :
          /\ vol'[t] = vol[t] /\ dirty'[t] = dirty[t]
          /\ "root" \in dur'[t] => "root" \in vol[t] \cup dur[t]
    BY <1>17 DEF WriteParentSync, Goto, SyncDirectory, Synced, disk, locks, history
  <2> HIDE Names, StagingAssumption
          DEF Typed, TypeOK, Owned, Recovering, Busy, WellFormed, Makers
  <2> QED
    BY <2>1, <2>2, Bystander, Zenon
<1>18. CASE WriteFails(p)
  <2>1. /\ pc[p] \notin {"scan"} \cup Deleters /\ pc'[p] \notin {"scan"} \cup Deleters
        /\ \A q \in Procs \ {p} : pc'[q] = pc[q] /\ own'[q] = own[q]
        /\ own'[p] \in {own[p]} \cup (Ids \ drawn)
        /\ todo' = todo /\ owed' = owed /\ drawn \subseteq drawn'
        /\ glock \ {p} \subseteq glock' /\ \A q, r \in glock' : q = r
    BY <1>18 DEF WriteFails, Mutated, disk, locks, history
  <2>2. \A t \in drawn \ {own[p]} :
          /\ vol'[t] = vol[t] /\ dirty'[t] = dirty[t]
          /\ "root" \in dur'[t] => "root" \in vol[t] \cup dur[t]
    BY <1>18 DEF WriteFails, Mutated, disk, locks, history
  <2> HIDE Names, StagingAssumption
          DEF Typed, TypeOK, Owned, Recovering, Busy, WellFormed, Makers
  <2> QED
    BY <2>1, <2>2, Bystander, Zenon
<1>19. CASE Finish(p)
  <2>1. /\ pc[p] \notin {"scan"} \cup Deleters /\ pc'[p] \notin {"scan"} \cup Deleters
        /\ \A q \in Procs \ {p} : pc'[q] = pc[q] /\ own'[q] = own[q]
        /\ own'[p] \in {own[p]} \cup (Ids \ drawn)
        /\ todo' = todo /\ owed' = owed /\ drawn \subseteq drawn'
        /\ glock \ {p} \subseteq glock' /\ \A q, r \in glock' : q = r
    BY <1>19 DEF Finish, Goto, disk, locks, history
  <2>2. \A t \in drawn \ {own[p]} :
          /\ vol'[t] = vol[t] /\ dirty'[t] = dirty[t]
          /\ "root" \in dur'[t] => "root" \in vol[t] \cup dur[t]
    BY <1>19 DEF Finish, Goto, disk, locks, history
  <2> HIDE Names, StagingAssumption
          DEF Typed, TypeOK, Owned, Recovering, Busy, WellFormed, Makers
  <2> QED
    BY <2>1, <2>2, Bystander, Zenon
<1>20. CASE Recover(p)
  BY <1>20 DEF Recover, Goto, Exists, WellFormed, Busy, disk, locks, history
<1>21. CASE RecoverSkip(p)
  BY <1>21 DEF RecoverSkip, Goto, Busy, disk, locks, history
<1>22. CASE RecoverPreserve(p)
  BY <1>22 DEF RecoverPreserve, Goto, disk, locks, history
<1>23. CASE RecoverClaim(p)
  BY <1>23 DEF RecoverClaim, Goto, Busy, WellFormed, disk, locks, history
<1>24. CASE RecoverUnlink(p)
  BY <1>24 DEF RecoverUnlink, SyncDirectory, Synced, disk, locks, history
<1>25. CASE RecoverBarrier(p)
  <2>1. /\ pc[p] = "barrier" /\ pc' = [pc EXCEPT ![p] = "scan"] /\ own' = [own EXCEPT ![p] = None]
        /\ UNCHANGED <<vol, dirty, drawn, glock, todo, owed>>
        /\ dur' = [t \in Ids |-> (dur[t] \ {"root"}) \cup (vol[t] \cap {"root"})]
    BY <1>25 DEF RecoverBarrier, Goto, SyncStaging, Synced, disk, locks, history
  <2>2. /\ \A t \in Ids : "root" \notin vol[t] => "root" \notin dur'[t]
        /\ "root" \notin vol[own[p]]
    BY <2>1
  <2>3. ASSUME NEW q \in Procs, NEW t \in owed[q]
        PROVE  IF t \in todo[q] THEN (WellFormed(t) /\ ~Busy(t))'
                                ELSE own'[q] = t \/ "root" \notin vol'[t] \cup dur'[t]
    <3>1. t \in Ids /\ q = p
      BY <2>1
    <3>2. CASE t \in todo[q]
      <4>1. WellFormed(t) /\ ~Busy(t)
        BY <3>2 DEF Recovering
      <4>2. WellFormed(t)'
        BY <2>1, <4>1
      <4>3. ~Busy(t)'
        BY <2>1, <3>1, <4>1
      <4> QED
        BY <2>1, <3>2, <4>2, <4>3
    <3>3. CASE t \notin todo[q]
      <4>1. own[q] = t \/ "root" \notin vol[t] \cup dur[t]
        BY <3>3 DEF Recovering
      <4>2. "root" \notin vol[t]
        BY <2>2, <3>1, <4>1
      <4> QED
        BY <2>1, <2>2, <3>1, <3>3, <4>2
    <3> QED
      BY <3>2, <3>3
  <2> QED
    BY <2>1, <2>3
<1>26. CASE RecoverReturn(p)
  BY <1>26 DEF RecoverReturn, Goto, disk, locks, history
<1>27. CASE Stop(p)
  <2>1. /\ pc' = [pc EXCEPT ![p] = "idle"] /\ own' = [own EXCEPT ![p] = None] /\ glock' = glock \ {p}
        /\ todo' = [todo EXCEPT ![p] = {}] /\ owed' = [owed EXCEPT ![p] = {}]
        /\ UNCHANGED <<vol, dur, dirty, drawn>>
    BY <1>27 DEF Stop, disk, locks, history
  <2>2. ASSUME NEW q \in Procs, NEW t \in owed'[q]
        PROVE  IF t \in todo'[q] THEN (WellFormed(t) /\ ~Busy(t))'
                                 ELSE own'[q] = t \/ "root" \notin vol'[t] \cup dur'[t]
    BY <2>1
  <2> QED
    BY <2>1, <2>2
<1> QED
  BY <1>1, <1>2, <1>3, <1>4, <1>5, <1>6, <1>7, <1>8, <1>9, <1>10, <1>11, <1>12, <1>13,
     <1>14, <1>15, <1>16, <1>17, <1>18, <1>19, <1>20, <1>21, <1>22, <1>23, <1>24, <1>25,
     <1>26, <1>27 DEF ProcStep, BeginStep, JournalStep, WriteStep, RecoverStep

\* A step of a process keeps the inductive invariant.
LEMMA StepIInv == ASSUME IInv, NEW p \in Procs, ProcStep(p) PROVE IInv'
BY StepTyped, StepOwned, StepMaking, StepDisk, StepStaged, StepRecovering DEF IInv

\* A failure of the power keeps of a transaction what was on the disk and still is
\* in the cache, and nothing that was in neither.
LEMMA ImageBounds ==
  ASSUME Typed, NEW t \in Ids, NEW S \in Images(t)
  PROVE  /\ S \subseteq vol[t] \cup dur[t]
         /\ S = Reachable(S)
         /\ Reachable(vol[t] \cap dur[t]) \subseteq S
<1>1. PICK G \in SUBSET (vol[t] \cup dur[t]) : S = Reachable(Synced(t, G))
  BY DEF Images
<1> QED
  BY <1>1, Names DEF Reachable, Synced

\* What was staged is staged after a failure of the power.
LEMMA LossStaged == ASSUME IInv, PowerLoss PROVE StagedDurable'
<1> USE Names, StagingAssumption DEF IInv, Typed, TypeOK
<1> SUFFICES ASSUME NEW t \in drawn \ touched
             PROVE  /\ "staged" \in (vol[t] \cup dur[t])' =>
                         /\ Whole(t)' \subseteq (vol[t] \cap dur[t])'
                         /\ (dirty[t] \cap Expected(t))' = {}
                    /\ (t \in acked /\ "root" \in vol'[t]) => "staged" \in ((vol[t] \cap dur[t]) \ dirty[t])'
  BY DEF StagedDurable, Exists, PowerLoss, history
<1>1. /\ UNCHANGED <<dirty, ledger, acked>> /\ dur' = vol' /\ t \in Ids
      /\ vol'[t] = {} \/ vol'[t] \in Images(t)
  BY DEF PowerLoss, history
<1>2. CASE vol'[t] = {}
  BY <1>1, <1>2
<1>3. CASE vol'[t] \in Images(t)
  <2>1. /\ vol'[t] \subseteq vol[t] \cup dur[t]
        /\ vol'[t] = Reachable(vol'[t])
        /\ Reachable(vol[t] \cap dur[t]) \subseteq vol'[t]
    BY <1>1, <1>3, ImageBounds
  <2>2. /\ Whole(t) = {"root", "lock", "payload"} \cup Expected(t)
        /\ Expected(t) \cap Nested # {} => "dir" \in Expected(t)
    BY <1>1 DEF Whole, Expected
  <2>3. CASE "staged" \in vol'[t]
    <3>1. Whole(t) \subseteq vol[t] \cap dur[t] /\ dirty[t] \cap Expected(t) = {}
      BY <2>1, <2>3 DEF StagedDurable
    <3>2. Whole(t) \subseteq Reachable(vol[t] \cap dur[t])
      BY <1>1, <2>2, <3>1 DEF Reachable, Expected
    <3>3. Whole(t) \subseteq vol'[t]
      BY <2>1, <3>2
    <3>4. Whole(t)' = Whole(t) /\ Expected(t)' = Expected(t)
      BY <1>1 DEF Whole, Expected
    <3>5. "root" \in vol[t] /\ t \in acked => "staged" \notin dirty[t]
      BY DEF StagedDurable, Exists
    <3>6. "root" \in vol[t]
      BY <3>1 DEF Whole
    <3> QED
      BY <1>1, <2>3, <3>1, <3>3, <3>4, <3>5, <3>6
  <2>4. CASE t \in acked /\ "root" \in vol'[t]
    <3>1. "root" \in vol[t]
      BY <1>1, <2>1, <2>4 DEF Disk
    <3>2. "staged" \in vol[t] \cap dur[t]
      BY <2>4, <3>1 DEF StagedDurable, Exists
    <3>3. "root" \in vol[t] \cap dur[t]
      BY <3>2 DEF StagedDurable, Whole
    <3>4. "staged" \in Reachable(vol[t] \cap dur[t])
      BY <3>2, <3>3 DEF Reachable
    <3>5. "staged" \in vol'[t]
      BY <2>1, <3>4
    <3> QED
      BY <2>3, <3>5
  <2> QED
    BY <1>1, <2>3, <2>4
<1> QED
  BY <1>1, <1>2, <1>3

\* A failure of the power keeps the inductive invariant: nobody is at work.
LEMMA LossIInv == ASSUME IInv, PowerLoss PROVE IInv'
<1> USE Names, StagingAssumption DEF IInv, Typed, TypeOK
<1>1. /\ pc' = [p \in Procs |-> "idle"] /\ glock' = {}
      /\ own' = [p \in Procs |-> None] /\ writes' = [p \in Procs |-> None]
      /\ todo' = [p \in Procs |-> {}] /\ owed' = [p \in Procs |-> {}]
      /\ UNCHANGED <<dirty, drawn, ledger, acked, touched>> /\ dur' = vol'
      /\ faults < MaxFaults /\ faults' = faults + 1
      /\ rootVol' \in BOOLEAN /\ rootDur' = rootVol'
  BY DEF PowerLoss, history
<1>2. vol' \in [Ids -> SUBSET Entries] /\ \A t \in Ids : vol'[t] \subseteq vol[t] \cup dur[t]
  <2>1. PICK image :
          /\ \A t \in Ids : image[t] \in Images(t)
          /\ vol' = [t \in Ids |-> IF rootVol' THEN image[t] ELSE {}]
    BY DEF PowerLoss
  <2>2. \A t \in Ids : image[t] \subseteq vol[t] \cup dur[t]
    BY <2>1, ImageBounds
  <2>3. \A t \in Ids : vol[t] \cup dur[t] \subseteq Entries
    OBVIOUS
  <2> QED
    BY <2>1, <2>2, <2>3
<1>3. {vol, dur, dirty}' \subseteq [Ids -> SUBSET Entries]
  BY <1>1, <1>2
<1>4. {todo, owed}' \subseteq [Procs -> SUBSET Ids]
  BY <1>1
<1>5. own' \in [Procs -> Ids \cup {None}] /\ writes' \in [Procs -> Files \cup {None}]
  BY <1>1
<1>6. faults' \in 0..MaxFaults
  BY <1>1
<1>7. Typed'
  BY <1>1, <1>2, <1>3, <1>4, <1>5, <1>6
<1>8. Owned' /\ Making' /\ Disk' /\ Recovering'
  BY <1>1, <1>2 DEF Owned, Making, Made, Written, Disk, Recovering, Makers, Deleters, Early, Late,
                    Journaling, Placing
<1> QED
  BY <1>7, <1>8, LossStaged DEF IInv

-----------------------------------------------------------------------------
\* Whatever fails and whenever, the invariant below the theorems of this module holds.
THEOREM InductiveInvariant == Spec => []IInv
<1>1. Init => IInv
  BY InitIInv
<1>2. IInv /\ [Next]_vars => IInv'
  <2> SUFFICES ASSUME IInv, [Next]_vars PROVE IInv'
    OBVIOUS
  <2>1. CASE PowerLoss
    BY <2>1, LossIInv
  <2>2. ASSUME NEW p \in Procs, ProcStep(p) PROVE IInv'
    BY <2>2, StepIInv
  <2>3. CASE UNCHANGED vars
    BY <2>3 DEF vars, disk, locks, history, IInv, Typed, TypeOK, Owned, Making, Made, Written, Disk,
                StagedDurable, Recovering, Whole, Expected, Exists, Busy, WellFormed
  <2> QED
    BY <2>1, <2>2, <2>3 DEF Next, ProcStep
<1> QED
  BY <1>1, <1>2, PTL DEF Spec

\* The types of the disk, its locks and the steps of the processes (StagingTransaction,
\* PayloadLedger), whatever fails.
THEOREM TypeCorrect == Spec => []TypeOK
<1>1. IInv => TypeOK
  BY DEF IInv, Typed
<1> QED
  BY <1>1, InductiveInvariant, PTL

\* No recovery removes anything of a transaction whose writer or staged guard is
\* alive (begin, recover_abandoned and the locks they take).
THEOREM LiveCorrect == Spec => []LiveUntouched
<1>1. IInv => LiveUntouched
  BY DEF IInv, Owned, Making, Made, LiveUntouched, Guarding, Whole, Makers, Late, Placing, Early
<1> QED
  BY <1>1, InductiveInvariant, PTL

\* A journal that says "staged" speaks of files that are on the disk
\* (write_file, finish and publish_journal).
THEOREM DurableCorrect == Spec => []StagedDurable
<1>1. IInv => StagedDurable
  BY DEF IInv
<1> QED
  BY <1>1, InductiveInvariant, PTL

\* What a recovery has removed no failure of the power brings back
\* (delete_transaction).
THEOREM GoneCorrect == Spec => []PassedIsGone
<1>1. IInv => PassedIsGone
  <2> SUFFICES ASSUME IInv, NEW p \in Procs, pc[p] = "scan", NEW t \in owed[p] \ todo[p]
               PROVE  Images(t) = {{}}
    BY DEF PassedIsGone
  <2>1. t \in Ids /\ own[p] # t
    BY StagingAssumption DEF IInv, Typed, TypeOK, Owned, Makers, Deleters, Early, Late, Journaling, Placing
  <2>2. "root" \notin vol[t] \cup dur[t]
    BY <2>1 DEF IInv, Recovering
  <2>3. \A G : Reachable(Synced(t, G)) = {}
    BY <2>2 DEF Reachable, Synced
  <2>4. Reachable(Synced(t, {})) \in Images(t)
    BY DEF Images
  <2> QED
    BY <2>3, <2>4 DEF Images
<1> QED
  BY <1>1, InductiveInvariant, PTL
=============================================================================
