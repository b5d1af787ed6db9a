----------------------------- MODULE FileWrite -----------------------------
(***************************************************************************)
(* Calls of the write and edit tools on one file name                      *)
(* (crates/mcode-tools/src/builtin/write.rs, edit/mod.rs and fs_io): the   *)
(* revision a call was computed from, the capability it bound, the private *)
(* temporary file, the rename that publishes it and the checks around it,  *)
(* while other programs rename, delete and modify the file.                *)
(*                                                                         *)
(* The platform is Linux.  A call waits for the execution lease, which     *)
(* then moves into its blocking worker; the worker makes every step from   *)
(* Bind to the end, alone with the write lock.  Cancelling the call, its   *)
(* deadline and dropping it all cancel the token the worker checks.  A     *)
(* system call may fail at any time, also because the supervisor           *)
(* interrupts the thread.  Directories on the way to the file may be       *)
(* missing; nobody removes one.                                            *)
(*                                                                         *)
(* An inode is named by who made it: the call whose temporary file it was, *)
(* the first content of the name, or another program.                      *)
(***************************************************************************)
EXTENDS Naturals, Sequences, FiniteSets, SequencesExt

CONSTANTS
    Edits,        \* edit calls
    Revisions,    \* write calls with an expected_revision
    Writes,       \* write calls without one
    None,         \* no call, no file
    MaxForeign    \* bound: changes other programs make to the name or file

Calls == Edits \union Revisions \union Writes
Foreign == 0..MaxForeign          \* inode 0 is the first content of the name
Inodes == Calls \union Foreign
Conditional == Edits \union Revisions

ASSUME ConstantsAssumption ==
    /\ Writes \intersect Conditional = {}
    /\ MaxForeign \in Nat /\ None \notin Inodes
    /\ Calls \intersect Foreign = {}

VARIABLES
    overwrite,    \* the calls of Writes with overwrite = true
    names,        \* what the name has referred to, the live one last
    durable,      \* the first entry of names the disk may still hold
    stamp,        \* the modification of an inode: 0 is empty for a temporary
    synced,       \* the inodes whose content is on disk
    temps,        \* the temporary files that exist under their own name
    probes,       \* the mode probes that exist
    directory,    \* the directory of the file: "missing" while a part of its
                  \* path is, "made" when all exist but an entry of one of
                  \* them may not be on disk, or "stored"
    lease,        \* whose guard of EXECUTION_LEASE exists
    lock,         \* whose guard of WRITE_LOCK exists
    pc,           \* the next step of the call or of its worker; at the end
                  \* "ok", or "closed" for an error, a stopped call or an
                  \* edit that changes nothing
    stopped,      \* the calls whose worker token is cancelled
    base,         \* the revision the content of the call was computed from
    bound,        \* the inode, or None, of its PreparedFile
    overrun       \* calls another program overtook between check and rename

vars == <<overwrite, names, durable, stamp, synced, temps, probes, directory, lease,
          lock, pc, stopped, base, bound, overrun>>

files  == <<names, durable, stamp, synced, temps, probes, directory>>
guards == <<overwrite, lease, lock>>
locals == <<base, bound, overrun>>

Live == Last(names)

\* revision_token: the identity, the time and the content of what is live.
NoRevision == <<None, 0>>
Revision(inode) == IF inode = None THEN NoRevision ELSE <<inode, stamp[inode]>>

\* The steps of the worker, which owns the lease in all of them.
Locked == {"list", "hash", "parents", "absent", "temp", "probe", "fill", "gate",
           "rename", "mode", "sync", "unprobe", "verify", "cleanup"}
Working == {"started", "bind", "lock"} \union Locked

TypeOK ==
    /\ overwrite \subseteq Writes
    /\ names \in Seq(Inodes \union {None}) /\ durable \in 1..Len(names)
    /\ stamp \in [Inodes -> Nat]
    /\ synced \subseteq Inodes /\ temps \subseteq Calls /\ probes \subseteq Calls
    /\ directory \in {"missing", "made", "stored"}
    /\ lease \in Calls \union {None} /\ lock \in Calls \union {None}
    /\ pc \in [Calls -> {"read", "prepare", "queued", "done", "ok", "closed"}
                           \union Working]
    /\ stopped \subseteq Calls
    /\ base \in [Calls -> (Inodes \union {None}) \X Nat]
    /\ bound \in [Calls -> Inodes \union {None}]
    /\ overrun \subseteq Calls

Init ==
    /\ overwrite \in SUBSET Writes
    /\ names \in {<<0>>, <<None>>} /\ durable = 1
    /\ stamp = [i \in Inodes |-> IF i \in Calls THEN 0 ELSE 1]
    /\ synced = Foreign /\ temps = {} /\ probes = {}
    /\ directory \in {"missing", "made", "stored"}
    /\ directory = "missing" => names = <<None>>
    /\ lease = None /\ lock = None
    /\ pc = [c \in Calls |-> IF c \in Conditional THEN "read" ELSE "prepare"]
    /\ stopped = {}
    /\ base = [c \in Calls |-> NoRevision]
    /\ bound = [c \in Calls |-> None] /\ overrun = {}

-----------------------------------------------------------------------------
(* The steps of a call are written with these.                             *)

Goto(c, to) == pc' = [pc EXCEPT ![c] = to]

\* check_cancel of the worker.
Undisturbed(c) == c \notin stopped

\* The locals of the call and of its worker are dropped.
Forget(c) ==
    /\ base' = [base EXCEPT ![c] = NoRevision]
    /\ bound' = [bound EXCEPT ![c] = None]
    /\ overrun' = overrun \ {c}

\* The call returns before it has the lease.
Return(c) ==
    /\ Goto(c, "closed") /\ Forget(c)
    /\ stopped' = stopped \ {c}

\* The worker returns: both guards are dropped.  An error is the answer of
\* the call, whether it is stopped or not.
WorkerEnds(c) ==
    /\ lease' = None /\ lock' = IF lock = c THEN None ELSE lock
    /\ Forget(c) /\ UNCHANGED overwrite

WorkerFails(c) ==
    /\ WorkerEnds(c) /\ Goto(c, "closed")
    /\ stopped' = stopped \ {c}

\* A step of the worker goes on to the next.
Then(c, next) == Goto(c, next) /\ UNCHANGED <<guards, stopped>>

\* The closure of write_existing or write_missing ends with an error.
Abandon(c) == Then(c, "cleanup") /\ UNCHANGED files

-----------------------------------------------------------------------------
(* Before the lease.                                                       *)

\* The revision is read: by edit itself, or by an earlier read call whose
\* revision the model passes to write.
Read(c) ==
    /\ pc[c] = "read" /\ Undisturbed(c)
    /\ IF Live = None
       THEN Return(c)
       ELSE /\ base' = [base EXCEPT ![c] = Revision(Live)]
            /\ Goto(c, IF c \in Edits THEN "queued" ELSE "prepare")
            /\ UNCHANGED <<bound, overrun, stopped>>
    /\ UNCHANGED <<files, guards>>

\* The dispatcher prepares a write before it runs.
Prepare(c) ==
    /\ pc[c] = "prepare" /\ Undisturbed(c)
    /\ bound' = [bound EXCEPT ![c] = Live]
    /\ Goto(c, "queued")
    /\ UNCHANGED <<files, guards, stopped, base, overrun>>

\* The edits cannot be planned or change nothing; or a stopped call leaves at
\* its next await point.
Leave(c) ==
    /\ \/ pc[c] = "queued" /\ c \in Edits
       \/ pc[c] \in {"read", "prepare", "queued"} /\ c \in stopped
    /\ Return(c)
    /\ UNCHANGED <<files, guards>>

Acquire(c) ==
    /\ pc[c] = "queued" /\ Undisturbed(c)
    /\ lease = None /\ lease' = c
    /\ Goto(c, "started")
    /\ UNCHANGED <<files, overwrite, lock, stopped, locals>>

-----------------------------------------------------------------------------
(* The worker: write_file.                                                 *)

\* The supervisor's check, and the first one of write_file.
Start(c) ==
    /\ pc[c] = "started"
    /\ IF Undisturbed(c) THEN Then(c, "bind") /\ UNCHANGED locals
                         ELSE WorkerFails(c)
    /\ UNCHANGED files

\* bind_prepared: an edit is prepared again here, a write long before.
Bind(c) ==
    /\ pc[c] = "bind"
    /\ \/ /\ bound' = IF c \in Edits THEN [bound EXCEPT ![c] = Live] ELSE bound
          /\ Then(c, "lock")
          /\ UNCHANGED <<base, overrun>>
       \/ WorkerFails(c)
    /\ UNCHANGED files

Lock(c) ==
    /\ pc[c] = "lock" /\ lock = None
    /\ IF Undisturbed(c) /\ ~(bound[c] = None /\ c \in Conditional)
       THEN /\ lock' = c
            /\ Goto(c, IF bound[c] = None THEN "parents" ELSE "list")
            /\ UNCHANGED <<overwrite, lease, stopped, locals>>
       ELSE WorkerFails(c)
    /\ UNCHANGED files

\* A check of write_existing or write_missing lets the call go on, or not;
\* looking may fail as well.
Checked(c, holds, next) ==
    /\ \/ holds /\ Then(c, next) /\ UNCHANGED locals
       \/ WorkerFails(c)
    /\ UNCHANGED files

\* The name and the handle still have the prepared identity.
CheckIdentity(c) == pc[c] = "list" /\ Checked(c, Live = bound[c], "hash")

\* Mutant of CheckRevision: only the identity counts.
CheckRevision_Identity(c) ==
    pc[c] = "hash" /\ Checked(c, c \in overwrite \union Conditional, "temp")

\* The revision of the handle is the expected one, or overwrite is set.
CheckRevision(c) ==
    /\ pc[c] = "hash"
    /\ Checked(c, \/ c \in overwrite
                  \/ c \in Conditional /\ Revision(bound[c]) = base[c], "temp")

\* ensure_directory for each parent that was missing, each after a check of
\* the token; none of them is synchronized, and what was made stays.
MakeParents(c) ==
    /\ pc[c] = "parents"
    /\ \/ UNCHANGED directory
       \/ directory = "missing" /\ Undisturbed(c) /\ directory' = "made"
    /\ \/ directory' # "missing" /\ Then(c, "absent") /\ UNCHANGED locals
       \/ WorkerFails(c)
    /\ UNCHANGED <<names, durable, stamp, synced, temps, probes>>

\* No file appeared since the target was missing.
CheckAbsent(c) == pc[c] = "absent" /\ Checked(c, Live = None, "temp")

CreateTemp(c) ==
    /\ pc[c] = "temp"
    /\ \/ /\ Undisturbed(c)
          /\ temps' = temps \union {c}
          /\ Then(c, IF bound[c] = None THEN "probe" ELSE "fill")
          /\ UNCHANGED locals
       \/ WorkerFails(c) /\ UNCHANGED temps
    /\ UNCHANGED <<names, durable, stamp, synced, probes, directory>>

AttachProbe(c) ==
    /\ pc[c] = "probe"
    /\ \/ /\ Undisturbed(c)
          /\ probes' = probes \union {c}
          /\ Then(c, "fill")
          /\ UNCHANGED <<names, durable, stamp, synced, temps, directory>>
       \/ Abandon(c)
    /\ UNCHANGED locals

\* Mutant of WriteTemp: the content is not synchronized before the rename.
WriteTemp_Unsynced(c) ==
    /\ pc[c] = "fill"
    /\ \/ /\ Undisturbed(c)
          /\ stamp' = [stamp EXCEPT ![c] = 1]
          /\ Then(c, "gate")
          /\ UNCHANGED <<names, durable, synced, temps, probes, directory>>
       \/ Abandon(c)
    /\ UNCHANGED locals

\* write_all_sync: the content, then fsync.
WriteTemp(c) ==
    /\ pc[c] = "fill"
    /\ \/ /\ Undisturbed(c)
          /\ stamp' = [stamp EXCEPT ![c] = 1]
          /\ synced' = synced \union {c}
          /\ Then(c, "gate")
          /\ UNCHANGED <<names, durable, temps, probes, directory>>
       \/ Abandon(c)
    /\ UNCHANGED locals

\* The final cancel gate; the rename is a step of its own.
Gate(c) ==
    /\ pc[c] = "gate"
    /\ IF Undisturbed(c) THEN Then(c, "rename") /\ UNCHANGED files
                         ELSE Abandon(c)
    /\ UNCHANGED locals

\* renameat replaces whatever the name refers to; renameat2(NOREPLACE) only
\* an absent one.
Publish(c) ==
    /\ pc[c] = "rename"
    /\ \/ /\ bound[c] # None \/ Live = None
          /\ names' = Append(names, c)
          /\ temps' = temps \ {c}
          /\ Then(c, "mode")
          /\ UNCHANGED <<durable, stamp, synced, probes, directory>>
       \/ Abandon(c)
    /\ UNCHANGED locals

\* The final mode is set through the retained handle, after the rename.
RestoreMode(c) ==
    /\ pc[c] = "mode"
    /\ \/ Then(c, "sync") /\ UNCHANGED files
       \/ Abandon(c)
    /\ UNCHANGED locals

SyncParent(c) ==
    /\ pc[c] = "sync"
    /\ \/ /\ durable' = Len(names)
          /\ Then(c, IF bound[c] = None THEN "unprobe" ELSE "verify")
          /\ UNCHANGED <<names, stamp, synced, temps, probes, directory>>
       \/ Abandon(c)
    /\ UNCHANGED locals

RemoveProbe(c) ==
    /\ pc[c] = "unprobe"
    /\ \/ /\ probes' = probes \ {c}
          /\ Then(c, "verify")
          /\ UNCHANGED <<names, durable, stamp, synced, temps, directory>>
       \/ Abandon(c)
    /\ UNCHANGED locals

\* finish_write: the name is still the published inode with its content.
\* complete_temp has nothing to remove then, or only a probe.
Verify(c) ==
    /\ pc[c] = "verify"
    /\ \/ /\ Undisturbed(c) /\ Live = c /\ stamp[c] = 1
          /\ WorkerEnds(c) /\ Goto(c, "done")
          /\ UNCHANGED stopped
          /\ UNCHANGED files
       \/ Abandon(c) /\ UNCHANGED locals

\* complete_temp and the guard: what could not be removed stays behind.
Cleanup(c) ==
    /\ pc[c] = "cleanup"
    /\ temps' \in {temps, temps \ {c}}
    /\ probes' \in {probes, probes \ {c}}
    /\ WorkerFails(c)
    /\ UNCHANGED <<names, durable, stamp, synced, directory>>

-----------------------------------------------------------------------------
(* The call waits for its worker in run_blocking_started.                  *)

\* A result is looked at again after the join: a stopped call is an error.
Answer(c) ==
    /\ pc[c] = "done"
    /\ Goto(c, IF Undisturbed(c) THEN "ok" ELSE "closed")
    /\ stopped' = stopped \ {c}
    /\ UNCHANGED <<files, guards, locals>>

\* Mutant of Stop: the lease is dropped with the future.
Stop_Unlocks(c) ==
    /\ pc[c] \notin {"ok", "closed"} /\ Undisturbed(c)
    /\ stopped' = stopped \union {c}
    /\ lease' = IF lease = c THEN None ELSE lease
    /\ UNCHANGED <<files, overwrite, lock, pc, locals>>

\* The call is cancelled, its deadline passes, or its future is dropped: the
\* worker keeps the lease and ends by itself.
Stop(c) ==
    /\ pc[c] \notin {"ok", "closed"} /\ Undisturbed(c)
    /\ stopped' = stopped \union {c}
    /\ UNCHANGED <<files, guards, pc, locals>>

-----------------------------------------------------------------------------
(* Other programs.                                                         *)

\* The calls that have looked at the name, or at the content, and have not
\* renamed yet.
PastName == {c \in Calls : pc[c] \in
                {"hash", "temp", "probe", "fill", "gate", "rename"}}
PastContent == {c \in PastName : pc[c] # "hash"}

Changes == Cardinality({k \in 2..Len(names) : names[k] \notin Calls})
           + Cardinality({i \in Inodes : stamp[i] > 1})

\* The name is renamed over, in a directory that exists or is made, or removed.
ForeignRename ==
    /\ Changes < MaxForeign
    /\ \/ \E i \in 1..MaxForeign :
              /\ i \notin Range(names) /\ names' = Append(names, i)
              /\ directory' = IF directory = "missing" THEN "made" ELSE directory
       \/ Live # None /\ names' = Append(names, None) /\ UNCHANGED directory
    /\ overrun' = overrun \union PastName
    /\ UNCHANGED <<durable, stamp, synced, temps, probes, guards, pc, stopped,
                   base, bound>>

\* The file is modified in place.
ForeignModify ==
    /\ Changes < MaxForeign /\ Live # None /\ stamp[Live] = 1
    /\ stamp' = [stamp EXCEPT ![Live] = 2]
    /\ overrun' = overrun \union PastContent
    /\ UNCHANGED <<names, durable, synced, temps, probes, directory, guards, pc,
                   stopped, base, bound>>

-----------------------------------------------------------------------------
Next ==
    \/ \E c \in Calls :
          \/ Read(c) \/ Prepare(c) \/ Leave(c) \/ Acquire(c)
          \/ Start(c) \/ Bind(c) \/ Lock(c) \/ CheckIdentity(c)
          \/ CheckRevision(c) \/ MakeParents(c) \/ CheckAbsent(c) \/ CreateTemp(c)
          \/ AttachProbe(c) \/ WriteTemp(c) \/ Gate(c) \/ Publish(c)
          \/ RestoreMode(c) \/ SyncParent(c) \/ RemoveProbe(c) \/ Verify(c)
          \/ Cleanup(c) \/ Answer(c) \/ Stop(c)
    \/ ForeignRename \/ ForeignModify

Spec == Init /\ [][Next]_vars

-----------------------------------------------------------------------------
(* A call that carries a revision replaces exactly that revision, whatever *)
(* the other calls did between its read and its rename; a call that found  *)
(* nothing replaces nothing, and an overwrite only the file it was         *)
(* prepared on.  Another program can break the first and the last of these *)
(* only by changing the file between the check and the rename ("not        *)
(* claimed as protection against foreign writers", fs_io/mod.rs).          *)
ReplacesWhatItRead(c) ==
    IF bound[c] = None THEN Live = None
    ELSE \/ c \in overrun
         \/ c \in Conditional /\ Revision(Live) = base[c]
         \/ c \in overwrite /\ Live = bound[c]

NoLostUpdate ==
    [][\A c \in Calls :
          names' # names /\ Last(names') = c => ReplacesWhatItRead(c)]_vars

(* What a power loss may leave: an entry the name has had, or nothing at   *)
(* all, 0, of a directory whose own path may not be on disk.               *)
AfterPowerLoss ==
    durable..Len(names) \union (IF directory = "stored" THEN {} ELSE {0})

(* Whatever the power loss leaves under the name is a whole file, and once *)
(* a call has answered ok it is this call's publication or a later one,    *)
(* with none of the names the call made for itself left behind.  Only the  *)
(* directory as a whole may be lost, while an entry on its path is not on  *)
(* disk: write_missing makes the parents that are missing, but syncs only  *)
(* the innermost one (ensure_directory, sync_parent).                      *)
DurableAndWhole ==
    /\ \A k \in AfterPowerLoss : k # 0 =>
           /\ names[k] # None => names[k] \in synced
           /\ \A c \in Calls : pc[c] = "ok" => \E j \in 1..k : names[j] = c
    /\ \A c \in Calls : pc[c] = "ok" => c \notin temps \union probes

(* While the worker of a call may still publish, the process-wide lease is *)
(* its own: no other write, edit, shell or exec runs, even after the       *)
(* call was cancelled or its future dropped (write_file_with_lease).       *)
PublishesUnderLease ==
    \A c \in Calls :
        /\ pc[c] \in Working => lease = c
        /\ pc[c] \in Locked => lock = c
=============================================================================
