----------------------------- MODULE ExecSpawn -----------------------------
(***************************************************************************)
(* One program launched by the shell and exec tools: the process-wide      *)
(* execution lease, the worker that launches the pinned image, the gate    *)
(* that orders a deadline with the launch, and the owners that terminate   *)
(* and reap the child (crates/mcode-tools/src/builtin/exec and process).   *)
(*                                                                         *)
(* The platform is Linux.  A call is a future with the await points of     *)
(* execute(), run_pinned() and run_until(); its blocking worker and its    *)
(* cleanup supervisor are threads.  The lease is a guard that moves: into  *)
(* the resolution worker, back to the call, into the launch worker, into   *)
(* the program, into the supervisor.  It is dropped with its last owner.   *)
(*                                                                         *)
(* A select! of the call is biased: cancellation, then the deadline, then  *)
(* the result.  Its poll is one step; a token that fires in the middle of  *)
(* a poll is one that fires right after it.                                *)
(***************************************************************************)
EXTENDS Naturals, Sequences, FiniteSets, SequencesExt

CONSTANTS
    Calls,        \* the calls of the shell and exec tools
    None,         \* nobody
    MaxFailures   \* bound: system calls of a cleanup or enrollment that fail

ASSUME ConstantsAssumption == None \notin Calls /\ MaxFailures \in Nat

VARIABLES
    signal,       \* what a select! of the call sees first: its cancellation
                  \* ("cancel"), else its deadline ("timeout"), else "none"
    pc,           \* the await point of the call
    why,          \* what ended its wait: "cancel", "timeout", "error", "drop"
    answer,       \* what the call returned
    lease,        \* whose guard of EXECUTION_LEASE exists
    queue,        \* the calls that wait for the lease, in order
    gate,         \* the SpawnGate of the call
    worker,       \* the blocking thread that resolves and launches
    teardown,     \* the teardown of a SpawnFailure is Ok
    supervisor,   \* the thread mcode-exec-cleanup
    child,        \* the launched program: "none", "running", "zombie", "reaped"
    escaped,      \* the programs that have moved to another process group
    failures      \* failed system calls so far

vars == <<signal, pc, why, answer, lease, queue, gate, worker,
          teardown, supervisor, child, escaped, failures>>

launching == <<gate, worker, teardown>>
program   == <<child, escaped, failures>>

Unanswered == [kind |-> "none", started |-> FALSE, clean |-> TRUE]
Answers == [kind: {"none", "done", "error", "cancel", "timeout", "drop"},
            started: BOOLEAN, clean: BOOLEAN]
Gates == [state: {"pending", "cancelled", "started"},
          cancelled: BOOLEAN, launched: BOOLEAN]

TypeOK ==
    /\ signal \in [Calls -> {"none", "cancel", "timeout"}]
    /\ pc \in [Calls -> {"new", "queued", "pinning", "spawning", "closing",
                         "cleaning", "draining", "waiting", "tearing",
                         "reaping", "ended"}]
    /\ why \in [Calls -> {"none", "cancel", "timeout", "error", "drop"}]
    /\ answer \in [Calls -> Answers]
    /\ lease \in Calls \union {None} /\ queue \in Seq(Calls)
    /\ gate \in [Calls -> Gates]
    /\ worker \in [Calls -> {"idle", "pin", "pinned", "check", "cas",
                             "recheck", "spawn", "mark", "enroll", "pending",
                             "reap", "spawned", "failed", "over"}]
    /\ teardown \in [Calls -> BOOLEAN]
    /\ supervisor \in [Calls -> {"idle", "kill", "reap", "over"}]
    /\ child \in [Calls -> {"none", "running", "zombie", "reaped"}]
    /\ escaped \subseteq Calls /\ failures \in 0..MaxFailures

Init ==
    /\ signal = [c \in Calls |-> "none"] /\ escaped = {} /\ failures = 0
    /\ pc = [c \in Calls |-> "new"] /\ why = [c \in Calls |-> "none"]
    /\ answer = [c \in Calls |-> Unanswered]
    /\ lease = None /\ queue = <<>>
    /\ gate = [c \in Calls |->
                 [state |-> "pending", cancelled |-> FALSE, launched |-> FALSE]]
    /\ worker = [c \in Calls |-> "idle"]
    /\ teardown = [c \in Calls |-> TRUE]
    /\ supervisor = [c \in Calls |-> "idle"]
    /\ child = [c \in Calls |-> "none"]

-----------------------------------------------------------------------------
(* The steps of the call are written with these.                           *)

Undisturbed(c) == signal[c] = "none"

\* A biased select! of call c takes its cancellation or its deadline branch.
Interrupted(c, reason) == signal[c] = reason

Goto(c, to) == pc' = [pc EXCEPT ![c] = to]

Return(c, kind, started, clean) ==
    /\ Goto(c, "ended")
    /\ answer' = [answer EXCEPT
           ![c] = [kind |-> kind, started |-> started, clean |-> clean]]

\* The guard of call c is dropped.
Unlock(c) == lease' = IF lease = c THEN None ELSE lease

\* supervise_spawn_cleanup: the thread (or, when none can be created, the
\* thread that drops) takes the child with its pin and its lease.
Supervise(c) == supervisor' = [supervisor EXCEPT ![c] = "kill"]

\* A system call of a cleanup fails.
Fail == failures < MaxFailures /\ failures' = failures + 1

-----------------------------------------------------------------------------
(* execute(): the lease, then the resolution of the image in a worker that *)
(* holds the lease.                                                        *)

Begin(c) ==
    /\ pc[c] = "new"
    /\ IF signal[c] = "cancel"
       THEN Return(c, "cancel", FALSE, TRUE) /\ UNCHANGED queue
       ELSE /\ Goto(c, "queued")
            /\ queue' = Append(queue, c)
            /\ UNCHANGED answer
    /\ UNCHANGED <<signal, why, lease, launching, supervisor, program>>

\* acquire_execution_lease: the mutex is first come, first served.
Acquire(c) ==
    /\ pc[c] = "queued" /\ Undisturbed(c)
    /\ lease = None /\ Head(queue) = c
    /\ lease' = c /\ queue' = Tail(queue)
    /\ Goto(c, "pinning")
    /\ worker' = [worker EXCEPT ![c] = "pin"]
    /\ UNCHANGED <<signal, why, answer, gate, teardown, supervisor, program>>

\* The resolution ends.  Its result carries the lease, an error drops it, and
\* so does a result that nobody waits for any more.
PinEnd(c) ==
    /\ worker[c] = "pin"
    /\ \/ /\ pc[c] = "pinning"
          /\ worker' = [worker EXCEPT ![c] = "pinned"]
          /\ UNCHANGED lease
       \/ /\ worker' = [worker EXCEPT ![c] = "failed"]
          /\ Unlock(c)
    /\ UNCHANGED <<signal, pc, why, answer, queue, gate, teardown, supervisor,
                   program>>

PinTake(c) ==
    /\ pc[c] = "pinning" /\ Undisturbed(c)
    /\ \/ /\ worker[c] = "failed"
          /\ Return(c, "error", FALSE, TRUE)
          /\ UNCHANGED worker
       \/ /\ worker[c] = "pinned"
          /\ Goto(c, "spawning")
          /\ worker' = [worker EXCEPT ![c] = "check"]
          /\ UNCHANGED answer
    /\ UNCHANGED <<signal, why, lease, queue, gate, teardown, supervisor,
                   program>>

\* A Lock future that is dropped gives up its place.
LeaveQueue(c) ==
    IF pc[c] = "queued"
    THEN \E i \in 1..Len(queue) : queue[i] = c /\ queue' = RemoveAt(queue, i)
    ELSE UNCHANGED queue

\* The call leaves the queue, or the resolution, which it does not wait for:
\* a result it has not taken is dropped with its lease.
LeaveEarly(c, kind) ==
    /\ pc[c] \in {"queued", "pinning"}
    /\ Return(c, kind, FALSE, TRUE)
    /\ LeaveQueue(c)
    /\ IF worker[c] = "pinned"
       THEN Unlock(c) /\ worker' = [worker EXCEPT ![c] = "over"]
       ELSE UNCHANGED <<lease, worker>>
    /\ UNCHANGED <<signal, why, gate, teardown, supervisor, program>>

EarlyStop(c) == \E r \in {"cancel", "timeout"} :
                    Interrupted(c, r) /\ LeaveEarly(c, r)

-----------------------------------------------------------------------------
(* The launch worker: spawn_linux with the gate.                           *)

\* The call has its JoinHandle, so a result of the worker is kept for it.
Awaited(c) == \/ pc[c] \in {"spawning", "cleaning"}
              \/ pc[c] = "closing" /\ why[c] # "drop"

WorkerGoto(c, to) ==
    /\ worker' = [worker EXCEPT ![c] = to]
    /\ UNCHANGED <<signal, pc, why, answer, queue>>

\* The worker returns an error: the lease it was given is dropped.
WorkerFail(c) == WorkerGoto(c, "failed") /\ Unlock(c)

\* The digest of the image is computed again; every check_pending of that and
\* the first one of begin_spawn.
WorkerCheck(c) ==
    /\ worker[c] = "check"
    /\ \/ ~gate[c].cancelled /\ WorkerGoto(c, "cas") /\ UNCHANGED lease
       \/ WorkerFail(c)
    /\ UNCHANGED <<gate, teardown, supervisor, program>>

WorkerSwap(c) ==
    /\ worker[c] = "cas"
    /\ IF gate[c].state = "pending"
       THEN /\ gate' = [gate EXCEPT ![c].state = "started"]
            /\ WorkerGoto(c, "recheck") /\ UNCHANGED lease
       ELSE WorkerFail(c) /\ UNCHANGED gate
    /\ UNCHANGED <<teardown, supervisor, program>>

WorkerRecheck(c) ==
    /\ worker[c] = "recheck"
    /\ IF gate[c].cancelled
       THEN WorkerFail(c)
       ELSE WorkerGoto(c, "spawn") /\ UNCHANGED lease
    /\ UNCHANGED <<gate, teardown, supervisor, program>>

WorkerSpawn(c) ==
    /\ worker[c] = "spawn"
    /\ \/ /\ child' = [child EXCEPT ![c] = "running"]
          /\ WorkerGoto(c, "mark") /\ UNCHANGED lease
       \/ WorkerFail(c) /\ UNCHANGED child
    /\ UNCHANGED <<gate, teardown, supervisor, escaped, failures>>

WorkerMark(c) ==
    /\ worker[c] = "mark"
    /\ gate' = [gate EXCEPT ![c].launched = TRUE]
    /\ WorkerGoto(c, "enroll")
    /\ UNCHANGED <<lease, teardown, supervisor, program>>

\* The program is returned to the call, or dropped when the call is gone:
\* its Drop hands it to the supervisor.
WorkerEnroll(c) ==
    /\ worker[c] = "enroll"
    /\ \/ /\ IF Awaited(c)
             THEN WorkerGoto(c, "spawned") /\ UNCHANGED supervisor
             ELSE WorkerGoto(c, "over") /\ Supervise(c)
          /\ UNCHANGED failures
       \/ Fail /\ WorkerGoto(c, "pending") /\ UNCHANGED supervisor
    /\ UNCHANGED <<lease, gate, teardown, child, escaped>>

-----------------------------------------------------------------------------
(* ProcessTree::terminate and the wait that follows it, by the three owners *)
(* a child can have.                                                        *)

Live(c) == child[c] \in {"running", "zombie"}

\* Child::id still names the leader, and it is in the group it was given: the
\* group is killed.
Terminated(c) ==
    /\ Live(c) /\ c \notin escaped
    /\ child' = [child EXCEPT ![c] = "zombie"]
    /\ UNCHANGED <<escaped, failures>>

\* The signal is refused (no leader any more, another group) or it fails.
Refused(c) == IF Live(c) /\ c \notin escaped
              THEN Fail ELSE UNCHANGED failures

\* The fallback of LiveSpawn, Child::start_kill, kills the leader only.
KillLeader(c) ==
    /\ child' = [child EXCEPT ![c] = IF Live(c) THEN "zombie" ELSE @]
    /\ UNCHANGED escaped

Reaped(c) ==
    /\ child[c] = "zombie"
    /\ child' = [child EXCEPT ![c] = "reaped"]
    /\ UNCHANGED <<escaped, failures>>

\* PendingLinuxSpawn: cleanup() once for the SpawnFailure, then its Drop until
\* it succeeds.  It has no fallback.
PendingKill(c) ==
    /\ worker[c] = "pending"
    /\ \/ Terminated(c) /\ WorkerGoto(c, "reap") /\ UNCHANGED teardown
       \/ /\ Refused(c)
          /\ teardown' = [teardown EXCEPT ![c] = FALSE]
          /\ WorkerGoto(c, "pending") /\ UNCHANGED <<child, escaped>>
    /\ UNCHANGED <<lease, gate, supervisor>>

PendingReap(c) ==
    /\ worker[c] = "reap"
    /\ \/ Reaped(c) /\ WorkerFail(c) /\ UNCHANGED teardown
       \/ /\ Fail
          /\ teardown' = [teardown EXCEPT ![c] = FALSE]
          /\ WorkerGoto(c, "pending") /\ UNCHANGED <<lease, child, escaped>>
    /\ UNCHANGED <<gate, supervisor>>

\* finish_owned_spawn_cleanup: teardown_live_blocking until it succeeds.
SupervisorKill(c) ==
    /\ supervisor[c] = "kill"
    /\ \/ Terminated(c) /\ supervisor' = [supervisor EXCEPT ![c] = "reap"]
       \/ Refused(c) /\ KillLeader(c) /\ UNCHANGED supervisor
    /\ UNCHANGED <<signal, pc, why, answer, lease, queue, launching>>

SupervisorReap(c) ==
    /\ supervisor[c] = "reap"
    /\ \/ /\ Reaped(c) /\ Unlock(c)
          /\ supervisor' = [supervisor EXCEPT ![c] = "over"]
       \/ /\ Fail /\ Supervise(c)
          /\ UNCHANGED <<lease, child, escaped>>
    /\ UNCHANGED <<signal, pc, why, answer, queue, launching>>

-----------------------------------------------------------------------------
(* wait_for_spawn(): the call and its gate.                                *)

\* The first half of SpawnGate::cancel stores the flag.
RaiseFlag(c, reason) ==
    /\ gate' = [gate EXCEPT ![c].cancelled = TRUE]
    /\ why' = [why EXCEPT ![c] = reason]
    /\ Goto(c, "closing")

SpawnStop(c) ==
    /\ pc[c] = "spawning"
    /\ \E r \in {"cancel", "timeout"} : Interrupted(c, r) /\ RaiseFlag(c, r)
    /\ UNCHANGED <<signal, answer, lease, queue, worker, teardown, supervisor,
                   program>>

\* Mutant: CANCELLED is stored over whatever the state was.
CloseGate_Store(c) ==
    /\ pc[c] = "closing"
    /\ gate' = [gate EXCEPT ![c].state = "cancelled"]
    /\ Return(c, why[c], gate[c].launched, TRUE)
    /\ UNCHANGED <<signal, why, lease, queue, worker, teardown, supervisor,
                   program>>

\* The second half swaps PENDING for CANCELLED.  When it succeeds nothing has
\* been launched and nothing will be; else the worker is waited for.
CloseGate(c) ==
    /\ pc[c] = "closing"
    /\ IF gate[c].state = "pending"
       THEN /\ gate' = [gate EXCEPT ![c].state = "cancelled"]
            /\ Return(c, why[c], gate[c].launched, TRUE)
       ELSE /\ IF why[c] = "drop"
               THEN Return(c, "drop", FALSE, TRUE)
               ELSE Goto(c, "cleaning") /\ UNCHANGED answer
            /\ UNCHANGED gate
    /\ UNCHANGED <<signal, why, lease, queue, worker, teardown, supervisor,
                   program>>

\* Mutant: only a worker that launched the program is waited for.
CleanTake_Spawned(c) ==
    /\ pc[c] = "cleaning" /\ worker[c] = "spawned"
    /\ worker' = [worker EXCEPT ![c] = "over"]
    /\ Goto(c, "tearing")
    /\ UNCHANGED <<signal, why, answer, lease, queue, gate, teardown,
                   supervisor, program>>

\* cleanup_started_spawn
CleanTake(c) ==
    /\ pc[c] = "cleaning"
    /\ \/ /\ worker[c] = "spawned"
          /\ worker' = [worker EXCEPT ![c] = "over"]
          /\ Goto(c, "tearing") /\ UNCHANGED answer
       \/ /\ worker[c] = "failed"
          /\ Return(c, why[c], gate[c].launched, teardown[c])
          /\ UNCHANGED worker
    /\ UNCHANGED <<signal, why, lease, queue, gate, teardown, supervisor,
                   program>>

SpawnTake(c) ==
    /\ pc[c] = "spawning" /\ Undisturbed(c)
    /\ \/ /\ worker[c] = "spawned"
          /\ worker' = [worker EXCEPT ![c] = "over"]
          /\ Goto(c, "draining") /\ UNCHANGED answer
       \/ /\ worker[c] = "failed"
          /\ Return(c, "error", gate[c].launched, teardown[c])
          /\ UNCHANGED worker
    /\ UNCHANGED <<signal, why, lease, queue, gate, teardown, supervisor,
                   program>>

-----------------------------------------------------------------------------
(* run_until(): both pipes are read to their end before the leader is      *)
(* waited for, so that its pid stays reserved until then.                  *)

\* Mutant: the leader is waited for above the pipe-drain barrier.
Drain_Waits(c) ==
    /\ pc[c] = "draining" /\ Undisturbed(c)
    /\ Reaped(c)
    /\ Goto(c, "waiting")
    /\ UNCHANGED <<signal, why, answer, lease, queue, launching, supervisor>>

Drain(c) ==
    /\ pc[c] = "draining" /\ Undisturbed(c)
    /\ Goto(c, "waiting")
    /\ UNCHANGED <<signal, why, answer, lease, queue, launching, supervisor,
                   program>>

Collected(c) ==
    /\ pc[c] = "waiting" /\ Undisturbed(c)
    /\ Reaped(c) /\ Unlock(c)
    /\ Return(c, "done", TRUE, TRUE)
    /\ UNCHANGED <<signal, why, queue, launching, supervisor>>

RunStop(c) ==
    /\ pc[c] \in {"draining", "waiting"}
    /\ \E r \in {"cancel", "timeout", "error"} :
          /\ Interrupted(c, r) \/ (r = "error" /\ Undisturbed(c))
          /\ why' = [why EXCEPT ![c] = r]
    /\ Goto(c, "tearing")
    /\ UNCHANGED <<signal, answer, lease, queue, launching, supervisor,
                   program>>

\* SpawnedProgram::teardown: a failed attempt passes the child on.
TearFails(c) == Supervise(c) /\ Return(c, why[c], TRUE, FALSE)

TearKill(c) ==
    /\ pc[c] = "tearing"
    /\ \/ /\ Terminated(c) /\ Goto(c, "reaping")
          /\ UNCHANGED <<answer, supervisor>>
       \/ Refused(c) /\ KillLeader(c) /\ TearFails(c)
    /\ UNCHANGED <<signal, why, lease, queue, launching>>

TearReap(c) ==
    /\ pc[c] = "reaping"
    /\ \/ /\ Reaped(c) /\ Unlock(c)
          /\ Return(c, why[c], TRUE, TRUE)
          /\ UNCHANGED supervisor
       \/ /\ Fail /\ TearFails(c)
          /\ UNCHANGED <<lease, child, escaped>>
    /\ UNCHANGED <<signal, why, queue, launching>>

-----------------------------------------------------------------------------
(* The future of the call is dropped at one of its await points.           *)

DropEarly(c) == LeaveEarly(c, "drop")

\* wait_for_spawn: the JoinHandle is dropped first, with the program a worker
\* may have left in it, then CancelSpawnOnDrop closes the gate.
DropSpawn(c) ==
    /\ pc[c] \in {"spawning", "cleaning"}
    /\ IF pc[c] = "spawning"
       THEN RaiseFlag(c, "drop") /\ UNCHANGED answer
       ELSE Return(c, "drop", FALSE, TRUE) /\ UNCHANGED <<gate, why>>
    /\ IF worker[c] = "spawned"
       THEN Supervise(c) /\ worker' = [worker EXCEPT ![c] = "over"]
       ELSE UNCHANGED <<supervisor, worker>>
    /\ UNCHANGED <<signal, lease, queue, teardown, program>>

\* Mutant: the lease is dropped with the future, the child is supervised.
DropProgram_Unlocks(c) ==
    /\ pc[c] \in {"draining", "waiting", "tearing", "reaping"}
    /\ Supervise(c) /\ Unlock(c)
    /\ Return(c, "drop", FALSE, TRUE)
    /\ UNCHANGED <<signal, why, queue, launching, program>>

\* run_until: the program is dropped with the future.
DropProgram(c) ==
    /\ pc[c] \in {"draining", "waiting", "tearing", "reaping"}
    /\ Supervise(c)
    /\ Return(c, "drop", FALSE, TRUE)
    /\ UNCHANGED <<signal, why, lease, queue, launching, program>>

-----------------------------------------------------------------------------
(* The caller, the clock and the program.                                  *)

Cancel(c) ==
    /\ pc[c] # "ended"
    /\ signal' = [signal EXCEPT ![c] = "cancel"]
    /\ UNCHANGED <<pc, why, answer, lease, queue, launching, supervisor,
                   program>>

\* The Sleep of the call runs from the first poll on.
Expire(c) ==
    /\ pc[c] \notin {"new", "ended"} /\ Undisturbed(c)
    /\ signal' = [signal EXCEPT ![c] = "timeout"]
    /\ UNCHANGED <<pc, why, answer, lease, queue, launching, supervisor,
                   program>>

Exit(c) ==
    /\ child[c] = "running"
    /\ child' = [child EXCEPT ![c] = "zombie"]
    /\ UNCHANGED <<signal, pc, why, answer, lease, queue, launching,
                   supervisor, escaped, failures>>

\* setpgid by the program itself.
Escape(c) ==
    /\ child[c] = "running" /\ c \notin escaped
    /\ escaped' = escaped \union {c}
    /\ UNCHANGED <<signal, pc, why, answer, lease, queue, launching,
                   supervisor, child, failures>>

-----------------------------------------------------------------------------
CallStep(c) ==
    \/ Acquire(c) \/ PinTake(c) \/ EarlyStop(c)
    \/ SpawnStop(c) \/ CloseGate(c) \/ CleanTake(c) \/ SpawnTake(c)
    \/ Collected(c) \/ RunStop(c) \/ TearKill(c) \/ TearReap(c)

WorkerStep(c) ==
    \/ PinEnd(c) \/ WorkerCheck(c) \/ WorkerSwap(c) \/ WorkerRecheck(c)
    \/ WorkerSpawn(c) \/ WorkerMark(c) \/ WorkerEnroll(c)
    \/ PendingKill(c) \/ PendingReap(c)

SupervisorStep(c) == SupervisorKill(c) \/ SupervisorReap(c)

DropCall(c) == DropEarly(c) \/ DropSpawn(c) \/ DropProgram(c)

Next == \E c \in Calls :
    \/ Begin(c) \/ CallStep(c) \/ Drain(c) \/ DropCall(c)
    \/ WorkerStep(c) \/ SupervisorStep(c)
    \/ Cancel(c) \/ Expire(c) \/ Exit(c) \/ Escape(c)

Spec == Init /\ [][Next]_vars

\* A call that waits is polled, its threads run and its timer fires.  Nobody
\* has to cancel, to drop or to exit, and a pipe need never end.
Fairness == \A c \in Calls :
    /\ WF_vars(CallStep(c)) /\ WF_vars(WorkerStep(c))
    /\ WF_vars(SupervisorStep(c)) /\ WF_vars(Expire(c))

FairSpec == Spec /\ Fairness

-----------------------------------------------------------------------------
(* Properties                                                              *)

\* Those who would terminate and reap the child of c.
Owners(c) ==
    {o \in {"worker", "call", "supervisor"} :
        \/ o = "worker" /\ worker[c] \in {"mark", "enroll", "pending", "reap",
                                          "spawned"}
        \/ o = "call" /\ pc[c] \in {"draining", "waiting", "tearing",
                                    "reaping"}
        \/ o = "supervisor" /\ supervisor[c] \in {"kill", "reap"}}

\* A child that has not been reaped has exactly one cleanup owner, and the
\* execution lease of its call is still held: whatever is dropped, cancelled
\* or fails, no second program of the host runs beside it.
ChildOwned == \A c \in Calls :
    Live(c) => lease = c /\ Cardinality(Owners(c)) = 1

\* What a call has returned stays true: without a termination error its child
\* is gone, and a deadline is reported "before the program started" exactly
\* when no program was, or will be, launched.
AnswerTrue == \A c \in Calls :
    /\ (answer[c].kind \notin {"none", "drop"} /\ answer[c].clean) => ~Live(c)
    /\ (answer[c].kind = "timeout") => (answer[c].started <=> child[c] # "none")

\* The lease is always given back, unless the program has left the process
\* group that the teardown would kill.
LeaseFreed == \A c \in Calls :
    lease = c ~> (lease # c \/ c \in escaped)

\* Every call ends (its deadline if nothing else), whatever holds the lease.
CallEnds == \A c \in Calls :
    pc[c] = "queued" ~> (pc[c] = "ended" \/ c \in escaped)

=============================================================================
