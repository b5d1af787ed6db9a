------------------------------ MODULE Staging ------------------------------
(***************************************************************************)
(* Staging transactions of the configuration store and the recovery of the *)
(* ones that were abandoned (crates/mcode-config/src/staging.rs,           *)
(* secure_fs/unix_staging.rs, secure_fs/unix_staging_recovery.rs).         *)
(*                                                                         *)
(* Processes share one directory tree.  A transaction is a directory of    *)
(* .staging with a lock, a journal and a payload; what a process has done  *)
(* to it is in the page cache (vol) until a sync, or the kernel of its own *)
(* accord, brings it to the disk (dur).  A process can stop at any point,  *)
(* the power can fail at any point, and locks do not survive either.       *)
(***************************************************************************)
EXTENDS Naturals, FiniteSets

CONSTANTS
  Ids,        \* transaction ids, each drawn at most once (128 random bits)
  Procs,      \* processes
  Files,      \* paths of the payload
  Nested,     \* those of them in a subdirectory of the payload
  Capacity,   \* MAX_STAGING_ROOT_ENTRIES
  MaxFaults,  \* bound on failures of the power, and of a process or a call in its midst
  None

ASSUME StagingAssumption ==
  /\ Nested \subseteq Files /\ Capacity \in Nat /\ MaxFaults \in Nat
  /\ None \notin Ids
  /\ Files \cap {"root", "lock", "temp", "payload", "dir", "writing", "staged"} = {}

VARIABLES
  rootVol, rootDur,  \* .staging exists, in the cache and on the disk
  vol, dur,          \* the entries of each transaction, in the cache and on the disk
  dirty,             \* the files of each transaction whose bytes were not synced
  drawn,             \* ids drawn so far
  glock,             \* the processes that hold .staging.lock
  pc,                \* where each process is
  own,               \* the transaction whose lock (or, in begin, directory) it holds
  writes,            \* the file it writes
  ledger,            \* PayloadLedger: the files written to each transaction
  todo,              \* names its recovery has not looked at
  owed,              \* history: the abandoned transactions its recovery has to remove
  faults,            \* failures so far
  acked,             \* history: transactions whose finish() returned
  touched            \* history: transactions that a recovery began to delete

disk == <<rootVol, rootDur, vol, dur, dirty>>
locks == <<glock, own>>
history == <<acked, touched>>
vars == <<disk, drawn, faults, locks, pc, writes, ledger, todo, owed, history>>

(* The entry of the transaction in .staging, those of its directory, those *)
(* of the payload and those of the payload's subdirectory.  The journal is *)
(* the entry that is named after its state.                                *)
Journals == {"writing", "staged"}
Children ==
  [root |-> {"lock", "temp", "payload"} \cup Journals,
   payload |-> {"dir"} \cup (Files \ Nested),
   dir |-> Nested]
Payload == Children["payload"] \cup Nested
Entries == {"root"} \cup Children["root"] \cup Payload
Directories == DOMAIN Children

Parent(f) == IF f \in Nested THEN "dir" ELSE "payload"
Expected(t) == ledger[t] \cup (IF ledger[t] \cap Nested = {} THEN {} ELSE {"dir"})

Init ==
  /\ rootVol = FALSE /\ rootDur = FALSE
  /\ vol = [t \in Ids |-> {}] /\ dur = vol /\ dirty = vol /\ ledger = vol
  /\ drawn = {} /\ faults = 0 /\ glock = {}
  /\ pc = [p \in Procs |-> "idle"]
  /\ own = [p \in Procs |-> None] /\ writes = own
  /\ todo = [p \in Procs |-> {}] /\ owed = todo
  /\ acked = {} /\ touched = {}

-----------------------------------------------------------------------------
(* The file system.                                                        *)

Goto(p, from, to) == pc[p] = from /\ pc' = [pc EXCEPT ![p] = to]

Exists(t) == "root" \in vol[t]

Create(t, e) == e \notin vol[t] /\ vol' = [vol EXCEPT ![t] = @ \cup {e}]

\* What is on the disk after the entries G of transaction t are brought there.
Synced(t, G) == (dur[t] \ G) \cup (vol[t] \cap G)

SyncDirectory(t, d) == dur' = [dur EXCEPT ![t] = Synced(t, Children[d])]

SyncStaging == dur' = [t \in Ids |-> Synced(t, {"root"})]

\* What of S can be reached from .staging.
Reachable(S) ==
  IF "root" \notin S THEN {}
  ELSE S \ ((IF "payload" \in S THEN {} ELSE Payload) \cup (IF "dir" \in S THEN {} ELSE Nested))

\* What the power failure can leave of a transaction: the kernel has written
\* any of the entries back that were not synced; a rename as a whole.
Images(t) ==
  LET pending == (vol[t] \ dur[t]) \cup (dur[t] \ vol[t])
      renamed == pending \cap (Journals \cup {"temp"})
  IN {Reachable(Synced(t, G)) : G \in {X \in SUBSET pending : X \cap renamed \in {{}, renamed}}}

PowerLoss ==
  /\ faults < MaxFaults /\ faults' = faults + 1
  /\ rootVol' \in {rootDur, rootVol} /\ rootDur' = rootVol'
  /\ \E image \in [Ids -> UNION {Images(t) : t \in Ids}] :
       /\ \A t \in Ids : image[t] \in Images(t)
       /\ vol' = [t \in Ids |-> IF rootVol' THEN image[t] ELSE {}]
  /\ dur' = vol'
  /\ pc' = [p \in Procs |-> "idle"] /\ glock' = {}
  /\ own' = [p \in Procs |-> None] /\ writes' = own'
  /\ todo' = [p \in Procs |-> {}] /\ owed' = todo'
  /\ UNCHANGED <<dirty, drawn, ledger, history>>

\* The process dies, its call meets an I/O error and returns, or the guard
\* is dropped: locks are released and everything stays where it is.
Stop(p) ==
  /\ pc[p] # "idle"
  /\ IF pc[p] \in {"draw", "writing", "poisoned", "staged"} THEN UNCHANGED faults
     ELSE faults < MaxFaults /\ faults' = faults + 1
  /\ pc' = [pc EXCEPT ![p] = "idle"] /\ glock' = glock \ {p}
  /\ own' = [own EXCEPT ![p] = None] /\ writes' = [writes EXCEPT ![p] = None]
  /\ todo' = [todo EXCEPT ![p] = {}] /\ owed' = [owed EXCEPT ![p] = {}]
  /\ UNCHANGED <<disk, drawn, ledger, history>>

-----------------------------------------------------------------------------
(* Transaction::begin, under the global lock.                              *)

Begin(p) ==
  /\ Goto(p, "idle", "root")
  /\ glock = {} /\ glock' = {p}
  /\ UNCHANGED <<faults, disk, drawn, own, writes, ledger, todo, owed, history>>

\* create_or_open_private_directory(.staging): only the one who creates it syncs.
BeginRoot(p) ==
  /\ Goto(p, "root", IF rootVol THEN "draw" ELSE "root_sync")
  /\ rootVol' = TRUE
  /\ UNCHANGED <<faults, rootDur, vol, dur, dirty, drawn, locks, writes, ledger, todo, owed, history>>

BeginRootSync(p) ==
  /\ Goto(p, "root_sync", "draw")
  /\ rootDur' = TRUE
  /\ UNCHANGED <<faults, rootVol, vol, dur, dirty, drawn, locks, writes, ledger, todo, owed, history>>

\* enforce_root_capacity and a fresh id; a full root ends the call (Stop).
BeginDraw(p) ==
  /\ Goto(p, "draw", "draw_sync")
  /\ Cardinality({t \in Ids : Exists(t)}) < Capacity
  /\ \E t \in Ids \ drawn :
       /\ drawn' = drawn \cup {t}
       /\ own' = [own EXCEPT ![p] = t]
       /\ Create(t, "root")
  /\ UNCHANGED <<faults, rootVol, rootDur, dur, dirty, glock, writes, ledger, todo, owed, history>>

BeginDrawSync(p) ==
  /\ Goto(p, "draw_sync", "lock")
  /\ SyncStaging
  /\ UNCHANGED <<faults, rootVol, rootDur, vol, dirty, drawn, locks, writes, ledger, todo, owed, history>>

\* The entries of the transaction directory, each with its sync.
BeginMake(p) ==
  /\ \/ Goto(p, "lock", "lock_sync") /\ Create(own[p], "lock")
     \/ Goto(p, "payload", "payload_sync") /\ Create(own[p], "payload")
  /\ UNCHANGED <<faults, rootVol, rootDur, dur, dirty, drawn, locks, writes, ledger, todo, owed, history>>

BeginMakeSync(p) ==
  /\ Goto(p, "lock_sync", "payload") \/ Goto(p, "payload_sync", "temp")
  /\ SyncDirectory(own[p], "root")
  /\ UNCHANGED <<faults, rootVol, rootDur, vol, dirty, drawn, locks, writes, ledger, todo, owed, history>>

-----------------------------------------------------------------------------
(* publish_journal, called by begin ("writing") and finish ("staged").     *)

JournalTemp(p) ==
  /\ Goto(p, "temp", "temp_sync")
  /\ Create(own[p], "temp")
  /\ dirty' = [dirty EXCEPT ![own[p]] = @ \cup {"temp"}]
  /\ UNCHANGED <<faults, rootVol, rootDur, dur, drawn, locks, writes, ledger, todo, owed, history>>

JournalTempSync(p) ==
  /\ Goto(p, "temp_sync", "rename")
  /\ dirty' = [dirty EXCEPT ![own[p]] = @ \ {"temp"}]
  /\ UNCHANGED <<faults, rootVol, rootDur, vol, dur, drawn, locks, writes, ledger, todo, owed, history>>

JournalRename(p) ==
  LET t == own[p]
      new == IF "writing" \in vol[t] THEN "staged" ELSE "writing"
  IN /\ pc[p] = "rename" /\ pc' = [pc EXCEPT ![p] = "rename_sync"]
     /\ vol' = [vol EXCEPT ![t] = (@ \ ({"temp"} \cup Journals)) \cup {new}]
     /\ dirty' = [dirty EXCEPT ![t] = IF "temp" \in @ THEN (@ \ {"temp"}) \cup {new} ELSE @]
     /\ UNCHANGED <<faults, rootVol, rootDur, dur, drawn, locks, writes, ledger, todo, owed, history>>

\* The directory is synced; begin releases the global lock and returns the
\* writer, finish returns the staged guard.
JournalSync(p) ==
  LET staged == "staged" \in vol[own[p]]
  IN /\ pc[p] = "rename_sync"
     /\ pc' = [pc EXCEPT ![p] = IF staged THEN "staged" ELSE "writing"]
     /\ SyncDirectory(own[p], "root")
     /\ acked' = IF staged THEN acked \cup {own[p]} ELSE acked
     /\ glock' = glock \ {p}
     /\ UNCHANGED <<faults, rootVol, rootDur, vol, dirty, drawn, own, writes, ledger, todo, owed, touched>>

-----------------------------------------------------------------------------
(* write_file and finish, under the transaction's lock alone.              *)

\* A path that is not in the ledger; its directory first.
Write(p) ==
  /\ pc[p] = "writing"
  /\ \E f \in Files \ ledger[own[p]] :
       /\ writes' = [writes EXCEPT ![p] = f]
       /\ pc' = [pc EXCEPT ![p] = IF Parent(f) \in vol[own[p]] THEN "file" ELSE "mkdir"]
  /\ UNCHANGED <<faults, disk, drawn, locks, ledger, todo, owed, history>>

WriteMkdir(p) ==
  /\ Goto(p, "mkdir", "mkdir_sync")
  /\ Create(own[p], "dir")
  /\ UNCHANGED <<faults, rootVol, rootDur, dur, dirty, drawn, locks, writes, ledger, todo, owed, history>>

WriteMkdirSync(p) ==
  /\ Goto(p, "mkdir_sync", "file")
  /\ SyncDirectory(own[p], "payload")
  /\ UNCHANGED <<faults, rootVol, rootDur, vol, dirty, drawn, locks, writes, ledger, todo, owed, history>>

WriteFile(p) ==
  /\ Goto(p, "file", "file_sync")
  /\ Create(own[p], writes[p])
  /\ dirty' = [dirty EXCEPT ![own[p]] = @ \cup {writes[p]}]
  /\ UNCHANGED <<faults, rootVol, rootDur, dur, drawn, locks, writes, ledger, todo, owed, history>>

WriteFileSync(p) ==
  /\ Goto(p, "file_sync", "parent_sync")
  /\ dirty' = [dirty EXCEPT ![own[p]] = @ \ {writes[p]}]
  /\ UNCHANGED <<faults, rootVol, rootDur, vol, dur, drawn, locks, writes, ledger, todo, owed, history>>

\* Mutant of WriteParentSync: the directory of the file is not synced.
WriteParentSync_Lazy(p) ==
  /\ Goto(p, "parent_sync", "writing")
  /\ ledger' = [ledger EXCEPT ![own[p]] = @ \cup {writes[p]}]
  /\ writes' = [writes EXCEPT ![p] = None]
  /\ UNCHANGED <<faults, disk, drawn, locks, todo, owed, history>>

WriteParentSync(p) ==
  /\ Goto(p, "parent_sync", "writing")
  /\ SyncDirectory(own[p], Parent(writes[p]))
  /\ ledger' = [ledger EXCEPT ![own[p]] = @ \cup {writes[p]}]
  /\ writes' = [writes EXCEPT ![p] = None]
  /\ UNCHANGED <<faults, rootVol, rootDur, vol, dirty, drawn, locks, todo, owed, history>>

\* The write has made a directory or its file.
Mutated(p) ==
  \/ pc[p] \in {"mkdir_sync", "file_sync", "parent_sync"}
  \/ pc[p] = "file" /\ Parent(writes[p]) \notin {"payload"} \cup Expected(own[p])

\* A write that fails after it has changed something poisons the writer,
\* which keeps its lock until it is dropped; another failure does not.
WriteFails(p) ==
  /\ pc[p] \in {"mkdir", "mkdir_sync", "file", "file_sync", "parent_sync"}
  /\ pc' = [pc EXCEPT ![p] = IF Mutated(p) THEN "poisoned" ELSE "writing"]
  /\ writes' = [writes EXCEPT ![p] = None]
  /\ UNCHANGED <<faults, disk, drawn, locks, ledger, todo, owed, history>>

\* finish of a writer with files, after the shape and the payload are verified.
Finish(p) ==
  /\ Goto(p, "writing", "temp")
  /\ ledger[own[p]] # {}
  /\ vol[own[p]] = {"root", "lock", "payload", "writing"} \cup Expected(own[p])
  /\ UNCHANGED <<faults, disk, drawn, locks, writes, ledger, todo, owed, history>>

-----------------------------------------------------------------------------
(* recover_abandoned.                                                      *)

Busy(t) == \E q \in Procs : own[q] = t

\* snapshot(): the exact shape, with a journal that parses.
WellFormed(t) ==
  /\ \E j \in Journals : vol[t] \cap Children["root"] = {"lock", "payload", j} /\ j \notin dirty[t]
  /\ "staged" \in vol[t] => vol[t] \cap Files # {}

\* There is a .staging; its names are listed under the global lock.
Recover(p) ==
  /\ Goto(p, "idle", "scan")
  /\ rootVol /\ glock = {} /\ glock' = {p}
  /\ Cardinality({t \in Ids : Exists(t)}) <= Capacity
  /\ todo' = [todo EXCEPT ![p] = {t \in Ids : Exists(t)}]
  /\ owed' = [owed EXCEPT ![p] = {t \in Ids : Exists(t) /\ WellFormed(t) /\ ~Busy(t)}]
  /\ UNCHANGED <<faults, disk, drawn, own, writes, ledger, history>>

\* Mutant of RecoverSkip: the recovery waits for the transaction's lock.
RecoverSkip_Blocking(p) ==
  /\ Goto(p, "scan", "scan")
  /\ \E t \in todo[p] :
       /\ ~Busy(t) /\ ~WellFormed(t)
       /\ todo' = [todo EXCEPT ![p] = @ \ {t}]
  /\ UNCHANGED <<faults, disk, drawn, locks, writes, ledger, owed, history>>

\* A candidate that is locked or malformed is preserved.
RecoverSkip(p) ==
  /\ Goto(p, "scan", "scan")
  /\ \E t \in todo[p] :
       /\ Busy(t) \/ ~WellFormed(t)
       /\ todo' = [todo EXCEPT ![p] = @ \ {t}]
  /\ UNCHANGED <<faults, disk, drawn, locks, writes, ledger, owed, history>>

\* So is one whose inspection meets an error before anything was deleted.
RecoverPreserve(p) ==
  /\ Goto(p, "scan", "scan")
  /\ \E t \in todo[p] :
       /\ todo' = [todo EXCEPT ![p] = @ \ {t}]
       /\ owed' = [owed EXCEPT ![p] = @ \ {t}]
  /\ UNCHANGED <<faults, disk, drawn, locks, writes, ledger, history>>

\* Mutant of RecoverClaim: the transaction's lock is not tried.
RecoverClaim_Unlocked(p) ==
  /\ Goto(p, "scan", "delete")
  /\ \E t \in todo[p] :
       /\ WellFormed(t)
       /\ own' = [own EXCEPT ![p] = t]
       /\ todo' = [todo EXCEPT ![p] = @ \ {t}]
  /\ UNCHANGED <<faults, disk, drawn, glock, writes, ledger, owed, history>>

\* try_lock, two equal snapshots of a writing or staged transaction, and the
\* third one of delete_transaction.
RecoverClaim(p) ==
  /\ Goto(p, "scan", "delete")
  /\ \E t \in todo[p] :
       /\ ~Busy(t) /\ WellFormed(t)
       /\ own' = [own EXCEPT ![p] = t]
       /\ todo' = [todo EXCEPT ![p] = @ \ {t}]
  /\ UNCHANGED <<faults, disk, drawn, glock, writes, ledger, owed, history>>

\* The entries that are deleted next: the payload bottom-up, then the
\* payload, the journal, the lock and the transaction.
Doomed(t) ==
  LET content == vol[t] \cap Payload
      journal == vol[t] \cap Journals
  IN IF content # {} THEN {e \in content : e = "dir" => vol[t] \cap Nested = {}}
     ELSE IF "payload" \in vol[t] THEN {"payload"}
     ELSE IF journal # {} THEN journal
     ELSE IF "lock" \in vol[t] THEN {"lock"}
     ELSE {"root"}

\* unlink_verified; a directory is synced before it is removed.
RecoverUnlink(p) ==
  LET t == own[p] IN
  /\ pc[p] = "delete"
  /\ \E e \in Doomed(t) :
    /\ pc' = [pc EXCEPT ![p] = IF e = "root" THEN "barrier" ELSE "delete"]
    /\ vol' = [vol EXCEPT ![t] = @ \ {e}]
    /\ IF e \in Directories THEN SyncDirectory(t, e) ELSE UNCHANGED dur
    /\ touched' = touched \cup {t}
    /\ UNCHANGED <<faults, rootVol, rootDur, dirty, drawn, locks, writes, ledger, todo, owed, acked>>

\* Mutant of RecoverBarrier: the removal of the transaction is not synced.
RecoverBarrier_Lazy(p) ==
  /\ Goto(p, "barrier", "scan")
  /\ own' = [own EXCEPT ![p] = None]
  /\ UNCHANGED <<faults, disk, drawn, glock, writes, ledger, todo, owed, history>>

\* sync_directory(.staging); the transaction counts as deleted.
RecoverBarrier(p) ==
  /\ Goto(p, "barrier", "scan")
  /\ SyncStaging
  /\ own' = [own EXCEPT ![p] = None]
  /\ UNCHANGED <<faults, rootVol, rootDur, vol, dirty, drawn, glock, writes, ledger, todo, owed, history>>

RecoverReturn(p) ==
  /\ Goto(p, "scan", "idle")
  /\ todo[p] = {} /\ glock' = glock \ {p}
  /\ owed' = [owed EXCEPT ![p] = {}]
  /\ UNCHANGED <<faults, disk, drawn, own, writes, ledger, todo, history>>

-----------------------------------------------------------------------------
BeginStep(p) ==
  BeginRoot(p) \/ BeginRootSync(p) \/ BeginDraw(p) \/ BeginDrawSync(p) \/ BeginMake(p) \/ BeginMakeSync(p)

JournalStep(p) == JournalTemp(p) \/ JournalTempSync(p) \/ JournalRename(p) \/ JournalSync(p)

WriteStep(p) ==
  \/ Write(p) \/ WriteMkdir(p) \/ WriteMkdirSync(p) \/ WriteFile(p) \/ WriteFileSync(p)
  \/ WriteParentSync(p) \/ WriteFails(p) \/ Finish(p)

RecoverStep(p) ==
  \/ RecoverSkip(p) \/ RecoverClaim(p) \/ RecoverUnlink(p) \/ RecoverBarrier(p)
  \/ RecoverReturn(p)

Next ==
  \/ PowerLoss
  \/ \E p \in Procs :
       \/ Begin(p) \/ BeginStep(p) \/ JournalStep(p) \/ WriteStep(p)
       \/ Recover(p) \/ RecoverStep(p) \/ RecoverPreserve(p) \/ Stop(p)

Spec == Init /\ [][Next]_vars

(* A call that has begun goes on, without counting on an I/O error to end  *)
(* it; a full root or no id left does.  Nobody has to write, to finish, or *)
(* to drop a guard.                                                        *)
Call(p) == BeginStep(p) \/ JournalStep(p) \/ RecoverStep(p) \/ (pc[p] = "draw" /\ Stop(p))

FairSpec == Spec /\ \A p \in Procs : WF_vars(Call(p))

-----------------------------------------------------------------------------
(* The writer and the guard it becomes, between two of its calls or in one. *)
Guarding(p) ==
  own[p] # None /\ pc[p] \in {"writing", "mkdir", "mkdir_sync", "file", "file_sync", "parent_sync", "poisoned", "staged"}

TypeOK ==
  /\ rootVol \in BOOLEAN /\ rootDur \in BOOLEAN
  /\ {vol, dur, dirty} \subseteq [Ids -> SUBSET Entries]
  /\ drawn \subseteq Ids /\ glock \subseteq Procs
  /\ own \in [Procs -> Ids \cup {None}]
  /\ writes \in [Procs -> Files \cup {None}]
  /\ ledger \in [Ids -> SUBSET Files]
  /\ {todo, owed} \subseteq [Procs -> SUBSET Ids]
  /\ faults \in 0..MaxFaults
  /\ acked \subseteq drawn /\ touched \subseteq drawn

Whole(t) == {"root", "lock", "payload"} \cup Expected(t)

(* A transaction whose journal says "staged", in the cache or in what a    *)
(* power failure would leave, has all the files and directories of its     *)
(* ledger on the disk, bytes included, until a recovery deletes it; and    *)
(* after finish() has returned the journal itself is on the disk: the      *)
(* order of the syncs in write_file and publish_journal.                   *)
StagedDurable ==
  \A t \in drawn \ touched :
    /\ "staged" \in vol[t] \cup dur[t] =>
         Whole(t) \subseteq vol[t] \cap dur[t] /\ dirty[t] \cap Expected(t) = {}
    /\ (t \in acked /\ Exists(t)) => "staged" \in (vol[t] \cap dur[t]) \ dirty[t]

(* No recovery removes anything of a transaction whose writer or staged    *)
(* guard is alive: the lock order of begin and recover_abandoned.          *)
LiveUntouched ==
  \A p \in Procs : Guarding(p) =>
    LET t == own[p] IN
    /\ Whole(t) \subseteq vol[t]
    /\ t \notin touched

(* A recovery that has passed a well-formed transaction nobody guards has  *)
(* removed it for good: no power failure brings back an entry of it.       *)
PassedIsGone ==
  \A p \in Procs : pc[p] = "scan" =>
    \A t \in owed[p] \ todo[p] : Images(t) = {{}}

(* Whoever takes the global lock gives it back, whatever the holders of    *)
(* the transactions' locks do: locks of transactions are never waited for. *)
GlobalLockFreed == \A p \in Procs : p \in glock ~> p \notin glock

(* "staged" means that the bytes are mechanically durable, and every level *)
(* of directories is created durably (docs/design/03-plugins.md): what     *)
(* finish() returned is still there after any later power failure.         *)
StagedSurvives ==
  \A t \in acked \ touched : Whole(t) \cup {"staged"} \subseteq dur[t] /\ rootDur
=============================================================================
