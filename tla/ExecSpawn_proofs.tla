-------------------------- MODULE ExecSpawn_proofs --------------------------
(***************************************************************************)
(* Proofs about ExecSpawn, for every set of calls and every number of      *)
(* failed system calls.                                                    *)
(***************************************************************************)
EXTENDS ExecSpawn, FiniteSetTheorems, SequenceTheorems, TLAPS

\* The launch worker before its swap of the gate, between that and the fork,
\* and with the child in its hands.
Unbegun  == {"idle", "pin", "pinned", "check", "cas"}
Begun    == {"recheck", "spawn"}
Launched == {"mark", "enroll", "pending", "reap", "spawned"}

\* The call, and the supervisor, with the child in their hands.
Running  == {"draining", "waiting", "tearing", "reaping"}
Cleaning == {"kill", "reap"}

StagesTyped ==
    /\ pc \in [Calls -> {"new", "queued", "pinning", "spawning", "closing",
                         "cleaning", "draining", "waiting", "tearing",
                         "reaping", "ended"}]
    /\ why \in [Calls -> {"none", "cancel", "timeout", "error", "drop"}]
    /\ worker \in [Calls -> Unbegun \union Begun \union Launched
                              \union {"failed", "over"}]
    /\ teardown \in [Calls -> BOOLEAN]
    /\ supervisor \in [Calls -> {"idle", "kill", "reap", "over"}]
    /\ child \in [Calls -> {"none", "running", "zombie", "reaped"}]

Typed == StagesTyped /\ answer \in [Calls -> Answers] /\ gate \in [Calls -> Gates]

\* A part of the call is still in hand, and as long as that is so the call has the lease:
\* no longer, so that a lease that is held is one that somebody will drop.
InHand(c) ==
    \/ worker[c] \in (Unbegun \ {"idle"}) \union Begun \union Launched
    \/ pc[c] \in Running \/ supervisor[c] \in Cleaning

LeaseKept(c) == lease = c <=> InHand(c)

\* Which states of its worker a call can be waiting with.
Stages(c) ==
    /\ pc[c] \in {"new", "queued"} => worker[c] = "idle"
    /\ pc[c] = "pinning" => worker[c] \in {"pin", "pinned", "failed"}
    /\ pc[c] = "spawning" => worker[c] \notin {"idle", "pin", "pinned", "over"}
    /\ pc[c] = "closing" => /\ worker[c] \notin {"idle", "pin", "pinned"}
                            /\ worker[c] = "over" => why[c] = "drop"
    /\ pc[c] = "cleaning" => worker[c] \notin Unbegun \union {"over"}
    /\ pc[c] \in Running => worker[c] = "over"
    /\ worker[c] = "pinned" => pc[c] = "pinning"
    /\ worker[c] = "spawned" => Awaited(c)

\* The gate is past PENDING once the worker has begun or the call has closed
\* it, and "launched" tells whether there has been a child.
GateTells(c) ==
    /\ worker[c] \in Unbegun => gate[c].state # "started"
    /\ worker[c] \in Begun \union Launched => gate[c].state = "started"
    /\ pc[c] # "ended" => gate[c].state # "cancelled"
    /\ pc[c] = "ended" /\ worker[c] \in {"check", "cas"} => gate[c].state = "cancelled"
    /\ gate[c].launched <=> child[c] # "none" /\ worker[c] # "mark"

\* The child passes from the worker to the call or to the supervisor.
ChildPassed(c) ==
    /\ pc[c] \in {"new", "queued", "pinning"} => child[c] = "none"
    /\ worker[c] \in Unbegun \union Begun => child[c] = "none"
    /\ worker[c] \in Launched \/ pc[c] \in Running \/ supervisor[c] \in Cleaning => Live(c)
    /\ worker[c] = "failed" => ~Live(c)
    /\ supervisor[c] # "idle" => worker[c] = "over" /\ pc[c] \notin Running
    /\ worker[c] = "over" /\ Live(c) => pc[c] \in Running \/ supervisor[c] \in Cleaning

\* A call that answers leaves no program behind that it does not answer for.
Answered(c) ==
    /\ pc[c] # "ended" => answer[c].kind = "none"
    /\ pc[c] = "ended" /\ worker[c] \in Begun \union Launched => answer[c].kind = "drop"
    /\ (answer[c].kind \notin {"none", "drop"} /\ answer[c].clean) => ~Live(c)
    /\ answer[c].kind = "timeout" => (answer[c].started <=> child[c] # "none")

CallInv(c) == LeaseKept(c) /\ Stages(c) /\ GateTells(c) /\ ChildPassed(c) /\ Answered(c)

\* The steps of one call, its threads, its caller and its program, and what they change.
Step(c) ==
    \/ Begin(c) \/ CallStep(c) \/ Drain(c) \/ DropCall(c)
    \/ WorkerStep(c) \/ SupervisorStep(c)
    \/ Cancel(c) \/ Expire(c) \/ Exit(c) \/ Escape(c)

View(c) == <<pc[c], why[c], answer[c], gate[c], worker[c], supervisor[c], child[c]>>

\* What calls share: the lease, the queue for it and the failures.
Shared ==
    /\ signal \in [Calls -> {"none", "cancel", "timeout"}]
    /\ lease \in Calls \union {None} /\ queue \in Seq(Calls)
    /\ escaped \subseteq Calls /\ failures \in 0..MaxFailures

\* The queue is made of the calls that wait, each in one place: none that has left
\* stands in the way of those behind it, and none waits outside.
InLine ==
    /\ \A c \in Calls : pc[c] = "queued" <=> \E i \in 1..Len(queue) : queue[i] = c
    /\ \A i, j \in 1..Len(queue) : queue[i] = queue[j] => i = j

IInv == Typed /\ Shared /\ InLine /\ \A c \in Calls : CallInv(c)

-----------------------------------------------------------------------------
\* No call has begun.
LEMMA InitIInv == Init => IInv
<1> SUFFICES ASSUME Init PROVE IInv
  OBVIOUS
<1>1. Typed
  BY DEF Init, Typed, StagesTyped, Unanswered, Answers, Gates, Unbegun
<1>2. ASSUME NEW c \in Calls PROVE CallInv(c)
  BY ConstantsAssumption DEF Init, CallInv, LeaseKept, InHand, Stages, GateTells, ChildPassed, Answered, Unanswered, Live,
         Unbegun, Begun, Launched, Running, Cleaning, Awaited
<1>3. Shared /\ InLine
  BY ConstantsAssumption DEF Init, Shared, InLine
<1> QED
  BY <1>1, <1>2, <1>3 DEF IInv

\* A call returns one of its answers.
LEMMA StepAnswers == ASSUME Typed, NEW c \in Calls, Step(c) PROVE answer' \in [Calls -> Answers]
<1> USE DEF Typed, StagesTyped
<1>1. ASSUME NEW k \in {"none", "done", "error", "cancel", "timeout", "drop"},
             NEW s \in BOOLEAN, NEW t \in BOOLEAN,
             answer' = [answer EXCEPT ![c] = [kind |-> k, started |-> s, clean |-> t]]
      PROVE  answer' \in [Calls -> Answers]
  BY <1>1 DEF Answers
<1>2. gate[c].launched \in BOOLEAN
  BY DEF Gates
<1>3. CASE Begin(c)
  BY <1>1, <1>2, <1>3 DEF Begin, Return, Goto, launching, program
<1>4. CASE PinTake(c)
  BY <1>1, <1>2, <1>4 DEF PinTake, Return, Goto, launching, program
<1>5. CASE EarlyStop(c)
  BY <1>1, <1>2, <1>5 DEF EarlyStop, LeaveEarly, Return, Goto, Unlock, launching,
     program
<1>6. CASE CloseGate(c)
  BY <1>1, <1>2, <1>6 DEF CloseGate, Return, Goto, launching, program
<1>7. CASE CleanTake(c)
  BY <1>1, <1>2, <1>7 DEF CleanTake, Return, Goto, launching, program
<1>8. CASE SpawnTake(c)
  BY <1>1, <1>2, <1>8 DEF SpawnTake, Return, Goto, launching, program
<1>9. CASE Collected(c)
  BY <1>1, <1>2, <1>9 DEF Collected, Return, Goto, Reaped, Unlock, launching, program
<1>10. CASE TearKill(c)
  BY <1>1, <1>2, <1>10 DEF TearKill, Terminated, Refused, KillLeader, TearFails,
     Supervise, Return, Goto, Fail, Live, launching, program
<1>11. CASE TearReap(c)
  BY <1>1, <1>2, <1>11 DEF TearReap, Reaped, Unlock, Fail, TearFails, Supervise, Return,
     Goto, launching, program
<1>12. CASE DropEarly(c)
  BY <1>1, <1>2, <1>12 DEF DropEarly, LeaveEarly, Return, Goto, Unlock, launching,
     program
<1>13. CASE DropSpawn(c)
  BY <1>1, <1>2, <1>13 DEF DropSpawn, RaiseFlag, Return, Goto, Supervise, launching,
     program
<1>14. CASE DropProgram(c)
  BY <1>1, <1>2, <1>14 DEF DropProgram, Supervise, Return, Goto, launching, program
<1>15. CASE \/ Acquire(c) \/ PinEnd(c) \/ SpawnStop(c) \/ Drain(c) \/ RunStop(c) \/ WorkerCheck(c)
           \/ WorkerSwap(c) \/ WorkerRecheck(c) \/ WorkerSpawn(c) \/ WorkerMark(c) \/ WorkerEnroll(c) \/ PendingKill(c)
           \/ PendingReap(c) \/ SupervisorKill(c) \/ SupervisorReap(c) \/ Cancel(c) \/ Expire(c) \/ Exit(c)
           \/ Escape(c)
  BY <1>15 DEF Acquire, PinEnd, SpawnStop, Drain, RunStop, WorkerCheck, WorkerSwap,
     WorkerRecheck, WorkerSpawn, WorkerMark, WorkerEnroll, PendingKill, PendingReap,
     SupervisorKill, SupervisorReap, Cancel, Expire, Exit, Escape, launching, program,
     WorkerGoto, WorkerFail
<1> QED
  BY <1>3, <1>4, <1>5, <1>6, <1>7, <1>8, <1>9, <1>10, <1>11, <1>12, <1>13, <1>14, <1>15
     DEF Step, CallStep, DropCall, WorkerStep, SupervisorStep

\* The gate has one of its states.
LEMMA StepGates == ASSUME Typed, NEW c \in Calls, Step(c) PROVE gate' \in [Calls -> Gates]
<1>1. ASSUME NEW g \in Gates, gate' = [gate EXCEPT ![c] = g] PROVE gate' \in [Calls -> Gates]
  BY <1>1 DEF Typed
<1>2. \A g \in Gates : /\ [g EXCEPT !.cancelled = TRUE] \in Gates
                      /\ [g EXCEPT !.launched = TRUE] \in Gates
                      /\ [g EXCEPT !.state = "cancelled"] \in Gates
                      /\ [g EXCEPT !.state = "started"] \in Gates
  BY DEF Gates
<1>3. gate[c] \in Gates /\ gate \in [Calls -> Gates]
  BY DEF Typed
<1>4. CASE SpawnStop(c)
  BY <1>1, <1>2, <1>3, <1>4 DEF SpawnStop, RaiseFlag, Goto, launching, program
<1>5. CASE CloseGate(c)
  BY <1>1, <1>2, <1>3, <1>5 DEF CloseGate, Return, Goto, launching, program
<1>6. CASE DropSpawn(c)
  BY <1>1, <1>2, <1>3, <1>6 DEF DropSpawn, RaiseFlag, Return, Goto, Supervise,
     launching, program
<1>7. CASE WorkerSwap(c)
  BY <1>1, <1>2, <1>3, <1>7 DEF WorkerSwap, WorkerGoto, WorkerFail, Unlock, launching,
     program
<1>8. CASE WorkerMark(c)
  BY <1>1, <1>2, <1>3, <1>8 DEF WorkerMark, WorkerGoto, launching, program
<1>9. CASE \/ Begin(c) \/ Acquire(c) \/ PinEnd(c) \/ PinTake(c) \/ EarlyStop(c) \/ CleanTake(c)
           \/ SpawnTake(c) \/ Drain(c) \/ Collected(c) \/ RunStop(c) \/ TearKill(c) \/ TearReap(c)
           \/ DropEarly(c) \/ DropProgram(c) \/ WorkerCheck(c) \/ WorkerRecheck(c) \/ WorkerSpawn(c) \/ WorkerEnroll(c)
           \/ PendingKill(c) \/ PendingReap(c) \/ SupervisorKill(c) \/ SupervisorReap(c) \/ Cancel(c) \/ Expire(c)
           \/ Exit(c) \/ Escape(c)
  BY <1>3, <1>9 DEF Begin, Acquire, PinEnd, PinTake, EarlyStop, CleanTake, SpawnTake,
     Drain, Collected, RunStop, TearKill, TearReap, DropEarly, DropProgram, WorkerCheck,
     WorkerRecheck, WorkerSpawn, WorkerEnroll, PendingKill, PendingReap, SupervisorKill,
     SupervisorReap, Cancel, Expire, Exit, Escape, launching, program, LeaveEarly,
     WorkerGoto
<1> QED
  BY <1>4, <1>5, <1>6, <1>7, <1>8, <1>9 DEF Step, CallStep, DropCall, WorkerStep,
     SupervisorStep

\* Every step of the call, its threads, its caller and its program keeps the types.
LEMMA StepTyped == ASSUME Typed, NEW c \in Calls, Step(c) PROVE Typed'
<1> USE DEF Typed, StagesTyped, Unbegun, Begun, Launched
<1>1. Begin(c) => StagesTyped'
  BY DEF Begin, Return, Goto, launching, program
<1>2. Acquire(c) => StagesTyped'
  BY DEF Acquire, Goto, launching, program
<1>3. PinEnd(c) => StagesTyped'
  BY DEF PinEnd, Unlock, launching, program
<1>4. PinTake(c) => StagesTyped'
  BY DEF PinTake, Return, Goto, launching, program
<1>5. EarlyStop(c) => StagesTyped'
  BY DEF EarlyStop, LeaveEarly, Return, Goto, Unlock, launching, program
<1>6. SpawnStop(c) => StagesTyped'
  BY DEF SpawnStop, RaiseFlag, Goto, launching, program
<1>7. CloseGate(c) => StagesTyped'
  BY DEF CloseGate, Return, Goto, launching, program
<1>8. CleanTake(c) => StagesTyped'
  BY DEF CleanTake, Return, Goto, launching, program
<1>9. SpawnTake(c) => StagesTyped'
  BY DEF SpawnTake, Return, Goto, launching, program
<1>10. Drain(c) => StagesTyped'
  BY DEF Drain, Goto, launching, program
<1>11. Collected(c) => StagesTyped'
  BY DEF Collected, Return, Goto, Reaped, Unlock, launching, program
<1>12. RunStop(c) => StagesTyped'
  BY DEF RunStop, Goto, launching, program
<1>13. TearKill(c) => StagesTyped'
  BY DEF TearKill, Terminated, Refused, KillLeader, TearFails, Supervise, Return, Goto,
     Fail, Live, launching, program
<1>14. TearReap(c) => StagesTyped'
  BY DEF TearReap, Reaped, Unlock, Fail, TearFails, Supervise, Return, Goto, launching,
     program
<1>15. DropEarly(c) => StagesTyped'
  BY DEF DropEarly, LeaveEarly, Return, Goto, Unlock, launching, program
<1>16. DropSpawn(c) => StagesTyped'
  BY DEF DropSpawn, RaiseFlag, Return, Goto, Supervise, launching, program
<1>17. DropProgram(c) => StagesTyped'
  BY DEF DropProgram, Supervise, Return, Goto, launching, program
<1>18. WorkerCheck(c) => StagesTyped'
  BY DEF WorkerCheck, WorkerGoto, WorkerFail, Unlock, launching, program
<1>19. WorkerSwap(c) => StagesTyped'
  BY DEF WorkerSwap, WorkerGoto, WorkerFail, Unlock, launching, program
<1>20. WorkerRecheck(c) => StagesTyped'
  BY DEF WorkerRecheck, WorkerGoto, WorkerFail, Unlock, launching, program
<1>21. WorkerSpawn(c) => StagesTyped'
  BY DEF WorkerSpawn, WorkerGoto, WorkerFail, Unlock, launching, program
<1>22. WorkerMark(c) => StagesTyped'
  BY DEF WorkerMark, WorkerGoto, launching, program
<1>23. WorkerEnroll(c) => StagesTyped'
  BY DEF WorkerEnroll, WorkerGoto, Supervise, Fail, launching, program
<1>24. PendingKill(c) => StagesTyped'
  BY DEF PendingKill, Terminated, WorkerGoto, Refused, Live, Fail, launching, program
<1>25. PendingReap(c) => StagesTyped'
  BY DEF PendingReap, Reaped, WorkerFail, WorkerGoto, Unlock, Fail, launching, program
<1>26. SupervisorKill(c) => StagesTyped'
  BY DEF SupervisorKill, Terminated, Refused, KillLeader, Live, Fail, launching,
     program
<1>27. SupervisorReap(c) => StagesTyped'
  BY DEF SupervisorReap, Reaped, Unlock, Fail, Supervise, launching, program
<1>28. Cancel(c) => StagesTyped'
  BY DEF Cancel, launching, program
<1>29. Expire(c) => StagesTyped'
  BY DEF Expire, launching, program
<1>30. Exit(c) => StagesTyped'
  BY DEF Exit, launching, program
<1>31. Escape(c) => StagesTyped'
  BY DEF Escape, launching, program
<1> QED
  BY <1>1, <1>2, <1>3, <1>4, <1>5, <1>6, <1>7, <1>8, <1>9, <1>10, <1>11, <1>12, <1>13,
     <1>14, <1>15, <1>16, <1>17, <1>18, <1>19, <1>20, <1>21, <1>22, <1>23, <1>24, <1>25,
     <1>26, <1>27, <1>28, <1>29, <1>30, <1>31, StepAnswers, StepGates DEF Step,
     CallStep, DropCall, WorkerStep, SupervisorStep

\* What a step leaves alone of the other calls: their lease as well.
LEMMA Elsewhere ==
  ASSUME Typed, NEW c \in Calls, NEW d \in Calls, d # c, Step(d)
  PROVE  View(c)' = View(c) /\ (lease = c <=> lease' = c)
<1> USE DEF Typed, StagesTyped, View
<1>1. CASE Begin(d)
  BY <1>1, ConstantsAssumption DEF Begin, Return, Goto, launching, program
<1>2. CASE Acquire(d)
  BY <1>2, ConstantsAssumption DEF Acquire, Goto, launching, program
<1>3. CASE PinEnd(d)
  BY <1>3, ConstantsAssumption DEF PinEnd, Unlock, launching, program
<1>4. CASE PinTake(d)
  BY <1>4, ConstantsAssumption DEF PinTake, Return, Goto, launching, program
<1>5. CASE EarlyStop(d)
  BY <1>5, ConstantsAssumption DEF EarlyStop, LeaveEarly, Return, Goto, Unlock,
     launching, program
<1>6. CASE SpawnStop(d)
  BY <1>6, ConstantsAssumption DEF SpawnStop, RaiseFlag, Goto, launching, program
<1>7. CASE CloseGate(d)
  BY <1>7, ConstantsAssumption DEF CloseGate, Return, Goto, launching, program
<1>8. CASE CleanTake(d)
  BY <1>8, ConstantsAssumption DEF CleanTake, Return, Goto, launching, program
<1>9. CASE SpawnTake(d)
  BY <1>9, ConstantsAssumption DEF SpawnTake, Return, Goto, launching, program
<1>10. CASE Drain(d)
  BY <1>10, ConstantsAssumption DEF Drain, Goto, launching, program
<1>11. CASE Collected(d)
  BY <1>11, ConstantsAssumption DEF Collected, Return, Goto, Reaped, Unlock, launching,
     program
<1>12. CASE RunStop(d)
  BY <1>12, ConstantsAssumption DEF RunStop, Goto, launching, program
<1>13. CASE TearKill(d)
  BY <1>13, ConstantsAssumption DEF TearKill, Terminated, Refused, KillLeader,
     TearFails, Supervise, Return, Goto, Fail, Live, launching, program
<1>14. CASE TearReap(d)
  BY <1>14, ConstantsAssumption DEF TearReap, Reaped, Unlock, Fail, TearFails,
     Supervise, Return, Goto, launching, program
<1>15. CASE DropEarly(d)
  BY <1>15, ConstantsAssumption DEF DropEarly, LeaveEarly, Return, Goto, Unlock,
     launching, program
<1>16. CASE DropSpawn(d)
  BY <1>16, ConstantsAssumption DEF DropSpawn, RaiseFlag, Return, Goto, Supervise,
     launching, program
<1>17. CASE DropProgram(d)
  BY <1>17, ConstantsAssumption DEF DropProgram, Supervise, Return, Goto, launching,
     program
<1>18. CASE WorkerCheck(d)
  BY <1>18, ConstantsAssumption DEF WorkerCheck, WorkerGoto, WorkerFail, Unlock,
     launching, program
<1>19. CASE WorkerSwap(d)
  BY <1>19, ConstantsAssumption DEF WorkerSwap, WorkerGoto, WorkerFail, Unlock,
     launching, program
<1>20. CASE WorkerRecheck(d)
  BY <1>20, ConstantsAssumption DEF WorkerRecheck, WorkerGoto, WorkerFail, Unlock,
     launching, program
<1>21. CASE WorkerSpawn(d)
  BY <1>21, ConstantsAssumption DEF WorkerSpawn, WorkerGoto, WorkerFail, Unlock,
     launching, program
<1>22. CASE WorkerMark(d)
  BY <1>22, ConstantsAssumption DEF WorkerMark, WorkerGoto, launching, program
<1>23. CASE WorkerEnroll(d)
  BY <1>23, ConstantsAssumption DEF WorkerEnroll, WorkerGoto, Supervise, Fail,
     launching, program
<1>24. CASE PendingKill(d)
  BY <1>24, ConstantsAssumption DEF PendingKill, Terminated, WorkerGoto, Refused, Live,
     Fail, launching, program
<1>25. CASE PendingReap(d)
  BY <1>25, ConstantsAssumption DEF PendingReap, Reaped, WorkerFail, WorkerGoto, Unlock,
     Fail, launching, program
<1>26. CASE SupervisorKill(d)
  BY <1>26, ConstantsAssumption DEF SupervisorKill, Terminated, Refused, KillLeader,
     Live, Fail, launching, program
<1>27. CASE SupervisorReap(d)
  BY <1>27, ConstantsAssumption DEF SupervisorReap, Reaped, Unlock, Fail, Supervise,
     launching, program
<1>28. CASE Cancel(d)
  BY <1>28, ConstantsAssumption DEF Cancel, launching, program
<1>29. CASE Expire(d)
  BY <1>29, ConstantsAssumption DEF Expire, launching, program
<1>30. CASE Exit(d)
  BY <1>30, ConstantsAssumption DEF Exit, launching, program
<1>31. CASE Escape(d)
  BY <1>31, ConstantsAssumption DEF Escape, launching, program
<1> QED
  BY <1>1, <1>2, <1>3, <1>4, <1>5, <1>6, <1>7, <1>8, <1>9, <1>10, <1>11, <1>12, <1>13,
     <1>14, <1>15, <1>16, <1>17, <1>18, <1>19, <1>20, <1>21, <1>22, <1>23, <1>24, <1>25,
     <1>26, <1>27, <1>28, <1>29, <1>30, <1>31 DEF Step, CallStep, DropCall, WorkerStep,
     SupervisorStep

\* A call that leaves the queue or the resolution, and the lease that its worker has.
LEMMA Left ==
  ASSUME Typed, NEW c \in Calls, NEW kind, LeaveEarly(c, kind)
  PROVE  /\ pc[c] \in {"queued", "pinning"} /\ pc'[c] = "ended"
         /\ answer'[c] = [kind |-> kind, started |-> FALSE, clean |-> TRUE]
         /\ worker'[c] = IF worker[c] = "pinned" THEN "over" ELSE worker[c]
         /\ IF worker[c] = "pinned" THEN lease' # c ELSE lease' = lease
         /\ UNCHANGED <<why, gate, supervisor, child>>
<1>1. /\ pc \in [Calls -> {"new", "queued", "pinning", "spawning", "closing", "cleaning",
                           "draining", "waiting", "tearing", "reaping", "ended"}]
      /\ answer \in [Calls -> Answers] /\ DOMAIN worker = Calls
  BY DEF Typed, StagesTyped
<1>2. /\ pc[c] \in {"queued", "pinning"} /\ pc' = [pc EXCEPT ![c] = "ended"]
      /\ answer' = [answer EXCEPT ![c] = [kind |-> kind, started |-> FALSE, clean |-> TRUE]]
      /\ UNCHANGED <<why, gate, supervisor, child>>
  BY DEF LeaveEarly, Return, Goto, program
<1>3. IF worker[c] = "pinned"
      THEN lease' # c /\ worker' = [worker EXCEPT ![c] = "over"]
      ELSE UNCHANGED <<lease, worker>>
  BY ConstantsAssumption DEF LeaveEarly, Unlock
<1> QED
  BY <1>1, <1>2, <1>3

\* A call keeps its part of the invariant in its own steps.
LEMMA Own == ASSUME Typed, NEW c \in Calls, CallInv(c), Step(c) PROVE CallInv(c)'
<1> USE DEF Typed, StagesTyped, Gates, Answers, Unbegun, Begun, Launched, Running, Cleaning, Live, Awaited,
            CallInv, LeaseKept, InHand, Stages, GateTells, ChildPassed, Answered
<1>1. CASE Begin(c)
  BY <1>1, ConstantsAssumption DEF Begin, Return, Goto, launching, program, Undisturbed,
     Interrupted
<1>2. CASE Acquire(c)
  BY <1>2, ConstantsAssumption DEF Acquire, Goto, launching, program, Undisturbed,
     Interrupted
<1>3. CASE PinEnd(c)
  BY <1>3, ConstantsAssumption DEF PinEnd, Unlock, launching, program, Undisturbed,
     Interrupted
<1>4. CASE PinTake(c)
  BY <1>4, ConstantsAssumption DEF PinTake, Return, Goto, launching, program,
     Undisturbed, Interrupted
<1>5. CASE EarlyStop(c)
  <2>1. PICK r \in {"cancel", "timeout"} : LeaveEarly(c, r)
    BY <1>5 DEF EarlyStop
  <2>2. /\ pc[c] \in {"queued", "pinning"} /\ pc'[c] = "ended"
        /\ answer'[c] = [kind |-> r, started |-> FALSE, clean |-> TRUE]
        /\ worker'[c] = IF worker[c] = "pinned" THEN "over" ELSE worker[c]
        /\ IF worker[c] = "pinned" THEN lease' # c ELSE lease' = lease
        /\ UNCHANGED <<why, gate, supervisor, child>>
    BY <2>1, Left
  <2> QED
    BY <2>1, <2>2
<1>6. CASE SpawnStop(c)
  BY <1>6, ConstantsAssumption DEF SpawnStop, RaiseFlag, Goto, launching, program,
     Undisturbed, Interrupted
<1>7. CASE CloseGate(c)
  <2>1. CASE gate[c].state = "pending"
    <3>1. /\ pc[c] = "closing" /\ pc'[c] = "ended"
          /\ gate'[c].state = "cancelled" /\ gate'[c].launched = gate[c].launched
          /\ answer'[c] = [kind |-> why[c], started |-> gate[c].launched, clean |-> TRUE]
          /\ UNCHANGED <<why, lease, worker, supervisor, child>>
      BY <1>7, <2>1 DEF CloseGate, Return, Goto, program
    <3> QED
      BY <2>1, <3>1
  <2>2. CASE gate[c].state # "pending"
    <3>1. /\ pc[c] = "closing"
          /\ \/ /\ why[c] = "drop" /\ pc'[c] = "ended"
                /\ answer'[c] = [kind |-> "drop", started |-> FALSE, clean |-> TRUE]
             \/ why[c] # "drop" /\ pc'[c] = "cleaning" /\ answer' = answer
          /\ UNCHANGED <<why, gate, lease, worker, supervisor, child>>
      BY <1>7, <2>2 DEF CloseGate, Return, Goto, program
    <3> QED
      BY <2>2, <3>1
  <2> QED
    BY <2>1, <2>2
<1>8. CASE CleanTake(c)
  BY <1>8, ConstantsAssumption DEF CleanTake, Return, Goto, launching, program,
     Undisturbed, Interrupted
<1>9. CASE SpawnTake(c)
  BY <1>9, ConstantsAssumption DEF SpawnTake, Return, Goto, launching, program,
     Undisturbed, Interrupted
<1>10. CASE Drain(c)
  BY <1>10, ConstantsAssumption DEF Drain, Goto, launching, program, Undisturbed,
     Interrupted
<1>11. CASE Collected(c)
  BY <1>11, ConstantsAssumption DEF Collected, Return, Goto, Reaped, Unlock, launching,
     program, Undisturbed, Interrupted
<1>12. CASE RunStop(c)
  BY <1>12, ConstantsAssumption DEF RunStop, Goto, launching, program, Undisturbed,
     Interrupted
<1>13. CASE TearKill(c)
  BY <1>13, ConstantsAssumption DEF TearKill, Terminated, Refused, KillLeader,
     TearFails, Supervise, Return, Goto, Fail, Live, launching, program, Undisturbed,
     Interrupted
<1>14. CASE TearReap(c)
  BY <1>14, ConstantsAssumption DEF TearReap, Reaped, Unlock, Fail, TearFails,
     Supervise, Return, Goto, launching, program, Undisturbed, Interrupted
<1>15. CASE DropEarly(c)
  BY <1>15, ConstantsAssumption DEF DropEarly, LeaveEarly, Return, Goto, Unlock,
     launching, program, Undisturbed, Interrupted
<1>16. CASE DropSpawn(c)
  <2>1. /\ IF worker[c] = "spawned"
           THEN supervisor'[c] = "kill" /\ worker'[c] = "over"
           ELSE supervisor' = supervisor /\ worker' = worker
        /\ UNCHANGED <<lease, child>>
    BY <1>16 DEF DropSpawn, Supervise, program
  <2>2. CASE pc[c] = "spawning"
    <3>1. /\ pc'[c] = "closing" /\ why'[c] = "drop" /\ answer' = answer
          /\ gate'[c].state = gate[c].state /\ gate'[c].launched = gate[c].launched
      BY <1>16, <2>2 DEF DropSpawn, RaiseFlag, Goto
    <3> QED
      BY <2>1, <2>2, <3>1
  <2>3. CASE pc[c] = "cleaning"
    <3>1. /\ pc'[c] = "ended" /\ gate' = gate /\ why' = why
          /\ answer'[c] = [kind |-> "drop", started |-> FALSE, clean |-> TRUE]
      BY <1>16, <2>3 DEF DropSpawn, Return, Goto
    <3> QED
      BY <2>1, <2>3, <3>1
  <2> QED
    BY <1>16, <2>2, <2>3 DEF DropSpawn
<1>17. CASE DropProgram(c)
  BY <1>17, ConstantsAssumption DEF DropProgram, Supervise, Return, Goto, launching,
     program, Undisturbed, Interrupted
<1>18. CASE WorkerCheck(c)
  BY <1>18, ConstantsAssumption DEF WorkerCheck, WorkerGoto, WorkerFail, Unlock,
     launching, program, Undisturbed, Interrupted
<1>19. CASE WorkerSwap(c)
  BY <1>19, ConstantsAssumption DEF WorkerSwap, WorkerGoto, WorkerFail, Unlock,
     launching, program, Undisturbed, Interrupted
<1>20. CASE WorkerRecheck(c)
  BY <1>20, ConstantsAssumption DEF WorkerRecheck, WorkerGoto, WorkerFail, Unlock,
     launching, program, Undisturbed, Interrupted
<1>21. CASE WorkerSpawn(c)
  BY <1>21, ConstantsAssumption DEF WorkerSpawn, WorkerGoto, WorkerFail, Unlock,
     launching, program, Undisturbed, Interrupted
<1>22. CASE WorkerMark(c)
  BY <1>22, ConstantsAssumption DEF WorkerMark, WorkerGoto, launching, program,
     Undisturbed, Interrupted
<1>23. CASE WorkerEnroll(c)
  BY <1>23, ConstantsAssumption DEF WorkerEnroll, WorkerGoto, Supervise, Fail,
     launching, program, Undisturbed, Interrupted
<1>24. CASE PendingKill(c)
  BY <1>24, ConstantsAssumption DEF PendingKill, Terminated, WorkerGoto, Refused, Live,
     Fail, launching, program, Undisturbed, Interrupted
<1>25. CASE PendingReap(c)
  BY <1>25, ConstantsAssumption DEF PendingReap, Reaped, WorkerFail, WorkerGoto, Unlock,
     Fail, launching, program, Undisturbed, Interrupted
<1>26. CASE SupervisorKill(c)
  BY <1>26, ConstantsAssumption DEF SupervisorKill, Terminated, Refused, KillLeader,
     Live, Fail, launching, program, Undisturbed, Interrupted
<1>27. CASE SupervisorReap(c)
  BY <1>27, ConstantsAssumption DEF SupervisorReap, Reaped, Unlock, Fail, Supervise,
     launching, program, Undisturbed, Interrupted
<1>28. CASE Cancel(c)
  BY <1>28, ConstantsAssumption DEF Cancel, launching, program, Undisturbed, Interrupted
<1>29. CASE Expire(c)
  BY <1>29, ConstantsAssumption DEF Expire, launching, program, Undisturbed, Interrupted
<1>30. CASE Exit(c)
  BY <1>30, ConstantsAssumption DEF Exit, launching, program, Undisturbed, Interrupted
<1>31. CASE Escape(c)
  BY <1>31, ConstantsAssumption DEF Escape, launching, program, Undisturbed, Interrupted
<1> QED
  BY <1>1, <1>2, <1>3, <1>4, <1>5, <1>6, <1>7, <1>8, <1>9, <1>10, <1>11, <1>12, <1>13,
     <1>14, <1>15, <1>16, <1>17, <1>18, <1>19, <1>20, <1>21, <1>22, <1>23, <1>24, <1>25,
     <1>26, <1>27, <1>28, <1>29, <1>30, <1>31 DEF Step, CallStep, DropCall, WorkerStep,
     SupervisorStep

\* The lease passes from nobody to a call and back; signals and failures keep their types.
LEMMA StepShared ==
  ASSUME Typed, Shared, NEW c \in Calls, Step(c)
  PROVE  /\ signal' \in [Calls -> {"none", "cancel", "timeout"}]
         /\ lease' \in Calls \union {None}
         /\ escaped' \subseteq Calls /\ failures' \in 0..MaxFailures
<1> USE ConstantsAssumption DEF Shared
<1> DEFINE Kept == /\ signal' \in [Calls -> {"none", "cancel", "timeout"}]
                   /\ lease' \in Calls \union {None}
                   /\ escaped' \subseteq Calls /\ failures' \in 0..MaxFailures
<1>1. Begin(c) => Kept
  BY DEF Begin, Return, Goto, launching, program
<1>2. Acquire(c) => Kept
  BY DEF Acquire, Goto, launching, program
<1>3. PinEnd(c) => Kept
  BY DEF PinEnd, Unlock, launching, program
<1>4. PinTake(c) => Kept
  BY DEF PinTake, Return, Goto, launching, program
<1>5. EarlyStop(c) => Kept
  BY DEF EarlyStop, LeaveEarly, Return, Goto, Unlock, launching, program
<1>6. SpawnStop(c) => Kept
  BY DEF SpawnStop, RaiseFlag, Goto, launching, program
<1>7. CloseGate(c) => Kept
  BY DEF CloseGate, Return, Goto, launching, program
<1>8. CleanTake(c) => Kept
  BY DEF CleanTake, Return, Goto, launching, program
<1>9. SpawnTake(c) => Kept
  BY DEF SpawnTake, Return, Goto, launching, program
<1>10. Drain(c) => Kept
  BY DEF Drain, Goto, launching, program
<1>11. Collected(c) => Kept
  BY DEF Collected, Return, Goto, Reaped, Unlock, launching, program
<1>12. RunStop(c) => Kept
  BY DEF RunStop, Goto, launching, program
<1>13. TearKill(c) => Kept
  BY DEF TearKill, Terminated, Refused, KillLeader, TearFails, Supervise, Return, Goto,
     Fail, Live, launching, program
<1>14. TearReap(c) => Kept
  BY DEF TearReap, Reaped, Unlock, Fail, TearFails, Supervise, Return, Goto, launching,
     program
<1>15. DropEarly(c) => Kept
  BY DEF DropEarly, LeaveEarly, Return, Goto, Unlock, launching, program
<1>16. DropSpawn(c) => Kept
  BY DEF DropSpawn, RaiseFlag, Return, Goto, Supervise, launching, program
<1>17. DropProgram(c) => Kept
  BY DEF DropProgram, Supervise, Return, Goto, launching, program
<1>18. WorkerCheck(c) => Kept
  BY DEF WorkerCheck, WorkerGoto, WorkerFail, Unlock, launching, program
<1>19. WorkerSwap(c) => Kept
  BY DEF WorkerSwap, WorkerGoto, WorkerFail, Unlock, launching, program
<1>20. WorkerRecheck(c) => Kept
  BY DEF WorkerRecheck, WorkerGoto, WorkerFail, Unlock, launching, program
<1>21. WorkerSpawn(c) => Kept
  BY DEF WorkerSpawn, WorkerGoto, WorkerFail, Unlock, launching, program
<1>22. WorkerMark(c) => Kept
  BY DEF WorkerMark, WorkerGoto, launching, program
<1>23. WorkerEnroll(c) => Kept
  BY DEF WorkerEnroll, WorkerGoto, Supervise, Fail, launching, program
<1>24. PendingKill(c) => Kept
  BY DEF PendingKill, Terminated, WorkerGoto, Refused, Live, Fail, launching, program
<1>25. PendingReap(c) => Kept
  BY DEF PendingReap, Reaped, WorkerFail, WorkerGoto, Unlock, Fail, launching, program
<1>26. SupervisorKill(c) => Kept
  BY DEF SupervisorKill, Terminated, Refused, KillLeader, Live, Fail, launching, program
<1>27. SupervisorReap(c) => Kept
  BY DEF SupervisorReap, Reaped, Unlock, Fail, Supervise, launching, program
<1>28. Cancel(c) => Kept
  BY DEF Cancel, launching, program
<1>29. Expire(c) => Kept
  BY DEF Expire, launching, program
<1>30. Exit(c) => Kept
  BY DEF Exit, launching, program
<1>31. Escape(c) => Kept
  BY DEF Escape, launching, program
<1> QED
  BY <1>1, <1>2, <1>3, <1>4, <1>5, <1>6, <1>7, <1>8, <1>9, <1>10, <1>11, <1>12, <1>13,
     <1>14, <1>15, <1>16, <1>17, <1>18, <1>19, <1>20, <1>21, <1>22, <1>23, <1>24, <1>25,
     <1>26, <1>27, <1>28, <1>29, <1>30, <1>31 DEF Step, CallStep, DropCall, WorkerStep,
     SupervisorStep

\* What the queue is without its i-th place.
LEMMA Removed ==
  ASSUME NEW S, NEW s \in Seq(S), NEW i \in 1..Len(s)
  PROVE  /\ RemoveAt(s, i) \in Seq(S)
         /\ Len(RemoveAt(s, i)) = Len(s) - 1
         /\ \A j \in 1..(Len(s) - 1) : RemoveAt(s, i)[j] = IF j < i THEN s[j] ELSE s[j + 1]
<1> DEFINE l == SubSeq(s, 1, i - 1)
           r == SubSeq(s, i + 1, Len(s))
<1>1. /\ \A j \in 1..(i - 1) : s[j] \in S
      /\ \A j \in (i + 1)..Len(s) : s[j] \in S
      /\ Len(s) \in Nat
  OBVIOUS
<1>2. l \in Seq(S) /\ Len(l) = i - 1 /\ \A j \in 1..(i - 1) : l[j] = s[j]
  <2>1. /\ l \in Seq(S) /\ Len(l) = (IF 1 <= i - 1 THEN (i - 1) - 1 + 1 ELSE 0)
        /\ \A j \in 1..((i - 1) - 1 + 1) : l[j] = s[1 + j - 1]
    BY <1>1, SubSeqProperties
  <2> HIDE DEF l
  <2> QED
    BY <2>1
<1>3. r \in Seq(S) /\ Len(r) = Len(s) - i /\ \A j \in 1..(Len(s) - i) : r[j] = s[i + j]
  <2>1. /\ r \in Seq(S) /\ Len(r) = (IF i + 1 <= Len(s) THEN Len(s) - (i + 1) + 1 ELSE 0)
        /\ \A j \in 1..(Len(s) - (i + 1) + 1) : r[j] = s[(i + 1) + j - 1]
    BY <1>1, SubSeqProperties
  <2> HIDE DEF r
  <2>2. Len(r) = Len(s) - i
    BY <2>1, <1>1
  <2>3. \A j \in 1..(Len(s) - i) : r[j] = s[i + j]
    BY <2>1, <1>1
  <2> QED
    BY <2>1, <2>2, <2>3
<1>4. RemoveAt(s, i) = l \o r
  BY DEF RemoveAt
<1> HIDE DEF l, r
<1>5. /\ l \o r \in Seq(S) /\ Len(l \o r) = Len(l) + Len(r)
      /\ \A j \in 1..(Len(l) + Len(r)) :
            (l \o r)[j] = IF j <= Len(l) THEN l[j] ELSE r[j - Len(l)]
  BY <1>2, <1>3, ConcatProperties
<1> DEFINE t == RemoveAt(s, i)
<1>6. /\ t \in Seq(S) /\ Len(t) = Len(l) + Len(r)
      /\ \A j \in 1..(Len(l) + Len(r)) : t[j] = IF j <= Len(l) THEN l[j] ELSE r[j - Len(l)]
  BY <1>4, <1>5
<1> HIDE DEF t
<1>7. Len(t) = Len(s) - 1
  BY <1>1, <1>2, <1>3, <1>6
<1>8. ASSUME NEW j \in 1..(Len(s) - 1) PROVE t[j] = IF j < i THEN s[j] ELSE s[j + 1]
  <2>1. t[j] = IF j <= i - 1 THEN l[j] ELSE r[j - (i - 1)]
    BY <1>1, <1>2, <1>3, <1>6
  <2>2. CASE j < i
    BY <1>2, <2>1, <2>2
  <2>3. CASE ~(j < i)
    <3>1. j - (i - 1) \in 1..(Len(s) - i) /\ i + (j - (i - 1)) = j + 1 /\ ~(j <= i - 1)
      BY <1>1, <2>3
    <3> QED
      BY <1>3, <2>1, <2>3, <3>1
  <2> QED
    BY <2>2, <2>3
<1> QED
  BY <1>6, <1>7, <1>8 DEF t

\* How a step of call c moves the queue.
Moves(c) ==
    \/ queue' = queue /\ \A d \in Calls : pc'[d] = "queued" <=> pc[d] = "queued"
    \/ /\ pc[c] = "new" /\ queue' = Append(queue, c)
       /\ pc' = [pc EXCEPT ![c] = "queued"]
    \/ \E i \in 1..Len(queue) :
          /\ queue[i] = c /\ queue' = RemoveAt(queue, i)
          /\ \E to \in {"pinning", "ended"} : pc' = [pc EXCEPT ![c] = to]

\* A call enters the queue at its end and leaves it from its own place, served or not
\* (acquire_execution_lease, and the select! around it).
LEMMA StepMoves ==
  ASSUME Typed, Shared, InLine, NEW c \in Calls, Step(c)
  PROVE  Moves(c)
<1> USE DEF Typed, StagesTyped
<1>1. ASSUME Begin(c) PROVE Moves(c)
  BY <1>1 DEF Moves, Begin, Return, Goto, launching, program
<1>2. ASSUME Acquire(c) PROVE Moves(c)
  <2>1. /\ pc[c] = "queued" /\ Head(queue) = c /\ queue' = Tail(queue)
        /\ pc' = [pc EXCEPT ![c] = "pinning"]
    BY <1>2 DEF Acquire, Goto
  <2>2. queue \in Seq(Calls) /\ queue # <<>> /\ Len(queue) \in Nat
    BY <2>1 DEF InLine, Shared
  <2>3. Tail(queue) = SubSeq(queue, 2, Len(queue)) /\ Tail(queue) \in Seq(Calls)
    BY <2>2, TailIsSubSeq, HeadTailProperties
  <2>4. SubSeq(queue, 1, 0) = <<>>
    BY SubSeqEmpty
  <2>5. RemoveAt(queue, 1) = SubSeq(queue, 1, 0) \o SubSeq(queue, 2, Len(queue))
    BY DEF RemoveAt
  <2>6. RemoveAt(queue, 1) = Tail(queue)
    BY <2>3, <2>4, <2>5, ConcatEmptySeq
  <2>7. 1 \in 1..Len(queue) /\ queue[1] = c
    BY <2>1, <2>2
  <2> QED
    BY <2>1, <2>6, <2>7 DEF Moves
<1>3. ASSUME NEW kind, LeaveEarly(c, kind) PROVE Moves(c)
  <2>1. pc[c] \in {"queued", "pinning"} /\ pc' = [pc EXCEPT ![c] = "ended"] /\ LeaveQueue(c)
    BY <1>3 DEF LeaveEarly, Return, Goto
  <2>2. CASE pc[c] = "queued"
    BY <2>1, <2>2 DEF Moves, LeaveQueue
  <2>3. CASE pc[c] # "queued"
    BY <2>1, <2>3 DEF Moves, LeaveQueue
  <2> QED
    BY <2>2, <2>3
<1>4. EarlyStop(c) \/ DropEarly(c) => Moves(c)
  BY <1>3 DEF EarlyStop, DropEarly
<1>5. PinEnd(c) => Moves(c)
  BY DEF Moves, PinEnd, Unlock, launching, program
<1>6. PinTake(c) => Moves(c)
  BY DEF Moves, PinTake, Return, Goto, launching, program
<1>7. SpawnStop(c) => Moves(c)
  BY DEF Moves, SpawnStop, RaiseFlag, Goto, launching, program
<1>8. CloseGate(c) => Moves(c)
  BY DEF Moves, CloseGate, Return, Goto, launching, program
<1>9. CleanTake(c) => Moves(c)
  BY DEF Moves, CleanTake, Return, Goto, launching, program
<1>10. SpawnTake(c) => Moves(c)
  BY DEF Moves, SpawnTake, Return, Goto, launching, program
<1>11. Drain(c) => Moves(c)
  BY DEF Moves, Drain, Goto, launching, program
<1>12. Collected(c) => Moves(c)
  BY DEF Moves, Collected, Return, Goto, Reaped, Unlock, launching, program
<1>13. RunStop(c) => Moves(c)
  BY DEF Moves, RunStop, Goto, launching, program
<1>14. TearKill(c) => Moves(c)
  BY DEF Moves, TearKill, Terminated, Refused, KillLeader, TearFails, Supervise, Return,
     Goto, Fail, Live, launching, program
<1>15. TearReap(c) => Moves(c)
  BY DEF Moves, TearReap, Reaped, Unlock, Fail, TearFails, Supervise, Return, Goto,
     launching, program
<1>16. DropSpawn(c) => Moves(c)
  BY DEF Moves, DropSpawn, RaiseFlag, Return, Goto, Supervise, launching, program
<1>17. DropProgram(c) => Moves(c)
  BY DEF Moves, DropProgram, Supervise, Return, Goto, launching, program
<1>18. WorkerCheck(c) => Moves(c)
  BY DEF Moves, WorkerCheck, WorkerGoto, WorkerFail, Unlock, launching, program
<1>19. WorkerSwap(c) => Moves(c)
  BY DEF Moves, WorkerSwap, WorkerGoto, WorkerFail, Unlock, launching, program
<1>20. WorkerRecheck(c) => Moves(c)
  BY DEF Moves, WorkerRecheck, WorkerGoto, WorkerFail, Unlock, launching, program
<1>21. WorkerSpawn(c) => Moves(c)
  BY DEF Moves, WorkerSpawn, WorkerGoto, WorkerFail, Unlock, launching, program
<1>22. WorkerMark(c) => Moves(c)
  BY DEF Moves, WorkerMark, WorkerGoto, launching, program
<1>23. WorkerEnroll(c) => Moves(c)
  BY DEF Moves, WorkerEnroll, WorkerGoto, Supervise, Fail, launching, program
<1>24. PendingKill(c) => Moves(c)
  BY DEF Moves, PendingKill, Terminated, WorkerGoto, Refused, Live, Fail, launching,
     program
<1>25. PendingReap(c) => Moves(c)
  BY DEF Moves, PendingReap, Reaped, WorkerFail, WorkerGoto, Unlock, Fail, launching,
     program
<1>26. SupervisorKill(c) => Moves(c)
  BY DEF Moves, SupervisorKill, Terminated, Refused, KillLeader, Live, Fail, launching,
     program
<1>27. SupervisorReap(c) => Moves(c)
  BY DEF Moves, SupervisorReap, Reaped, Unlock, Fail, Supervise, launching, program
<1>28. Cancel(c) => Moves(c)
  BY DEF Moves, Cancel, launching, program
<1>29. Expire(c) => Moves(c)
  BY DEF Moves, Expire, launching, program
<1>30. Exit(c) => Moves(c)
  BY DEF Moves, Exit, launching, program
<1>31. Escape(c) => Moves(c)
  BY DEF Moves, Escape, launching, program
<1> QED
  BY <1>1, <1>2, <1>3, <1>4, <1>5, <1>6, <1>7, <1>8, <1>9, <1>10, <1>11, <1>12, <1>13,
     <1>14, <1>15, <1>16, <1>17, <1>18, <1>19, <1>20, <1>21, <1>22, <1>23, <1>24, <1>25,
     <1>26, <1>27, <1>28, <1>29, <1>30, <1>31 DEF Step, CallStep, DropCall, WorkerStep,
     SupervisorStep

\* Who is in the queue, and only they, still waits.
LEMMA StepInLine ==
  ASSUME Typed, Shared, InLine, NEW c \in Calls, Step(c)
  PROVE  queue' \in Seq(Calls) /\ InLine'
<1>1. Moves(c)
  BY StepMoves
<1>2. /\ queue \in Seq(Calls) /\ Len(queue) \in Nat
      /\ pc \in [Calls -> {"new", "queued", "pinning", "spawning", "closing", "cleaning",
                           "draining", "waiting", "tearing", "reaping", "ended"}]
  BY DEF Shared, Typed, StagesTyped
<1>3. CASE queue' = queue /\ \A d \in Calls : pc'[d] = "queued" <=> pc[d] = "queued"
  BY <1>2, <1>3 DEF InLine
<1>4. CASE /\ pc[c] = "new" /\ queue' = Append(queue, c)
           /\ pc' = [pc EXCEPT ![c] = "queued"]
  <2>1. /\ queue' \in Seq(Calls) /\ Len(queue') = Len(queue) + 1
        /\ \A i \in 1..Len(queue) : queue'[i] = queue[i]
        /\ queue'[Len(queue) + 1] = c
    BY <1>2, <1>4
  <2>2. \A i \in 1..Len(queue) : queue[i] # c
    BY <1>4 DEF InLine
  <2>3. \A d \in Calls : pc'[d] = "queued" <=> d = c \/ pc[d] = "queued"
    BY <1>2, <1>4
  <2>4. \A i \in 1..Len(queue') : i \in 1..Len(queue) \/ i = Len(queue) + 1
    BY <1>2, <2>1
  <2>5. \A i \in 1..Len(queue) : i \in 1..Len(queue')
    BY <1>2, <2>1
  <2>6. Len(queue) + 1 \in 1..Len(queue')
    BY <1>2, <2>1
  <2>7. \A d \in Calls : pc'[d] = "queued" <=> \E i \in 1..Len(queue') : queue'[i] = d
    BY <2>1, <2>3, <2>4, <2>5, <2>6 DEF InLine
  <2>8. \A i, j \in 1..Len(queue') : queue'[i] = queue'[j] => i = j
    BY <2>1, <2>2, <2>4 DEF InLine
  <2> QED
    BY <2>1, <2>7, <2>8 DEF InLine
<1>5. ASSUME NEW i \in 1..Len(queue), queue[i] = c, queue' = RemoveAt(queue, i),
             NEW to \in {"pinning", "ended"}, pc' = [pc EXCEPT ![c] = to]
      PROVE  queue' \in Seq(Calls) /\ InLine'
  <2>1. /\ queue' \in Seq(Calls) /\ Len(queue') = Len(queue) - 1
        /\ \A j \in 1..(Len(queue) - 1) :
              queue'[j] = IF j < i THEN queue[j] ELSE queue[j + 1]
    BY <1>2, <1>5, Removed
  <2> DEFINE old(j) == IF j < i THEN j ELSE j + 1
  <2>2. \A j \in 1..Len(queue') :
          old(j) \in 1..Len(queue) /\ old(j) # i /\ queue'[j] = queue[old(j)]
    BY <1>2, <2>1
  <2>3. \A j, k \in 1..Len(queue') : old(j) = old(k) => j = k
    BY <1>2, <2>1
  <2>4. \A k \in 1..Len(queue) : k # i => \E j \in 1..Len(queue') : old(j) = k
    <3> SUFFICES ASSUME NEW k \in 1..Len(queue), k # i
                 PROVE  \E j \in 1..Len(queue') : old(j) = k
      OBVIOUS
    <3>1. CASE k < i
      BY <1>2, <2>1, <3>1
    <3>2. CASE k > i
      <4>1. k - 1 \in 1..Len(queue') /\ old(k - 1) = k
        BY <1>2, <2>1, <3>2
      <4> QED
        BY <4>1
    <3> QED
      BY <1>2, <3>1, <3>2
  <2> HIDE DEF old
  <2>5. \A d \in Calls : pc'[d] = "queued" <=> d # c /\ pc[d] = "queued"
    BY <1>2, <1>5
  <2>6. \A d \in Calls : pc'[d] = "queued" <=> \E j \in 1..Len(queue') : queue'[j] = d
    <3>1. ASSUME NEW d \in Calls, pc'[d] = "queued"
          PROVE  \E j \in 1..Len(queue') : queue'[j] = d
      <4>1. PICK k \in 1..Len(queue) : queue[k] = d
        BY <2>5, <3>1 DEF InLine
      <4>2. k # i
        BY <1>5, <2>5, <3>1, <4>1
      <4> QED
        BY <2>2, <2>4, <4>1, <4>2
    <3>2. ASSUME NEW j \in 1..Len(queue') PROVE pc'[queue'[j]] = "queued"
      <4>1. old(j) \in 1..Len(queue) /\ old(j) # i /\ queue'[j] = queue[old(j)]
        BY <2>2
      <4>2. queue[old(j)] \in Calls /\ queue[old(j)] # c
        BY <1>2, <1>5, <4>1 DEF InLine
      <4>3. pc[queue[old(j)]] = "queued"
        BY <4>1, <4>2 DEF InLine
      <4> QED
        BY <2>5, <4>1, <4>2, <4>3
    <3> QED
      BY <3>1, <3>2
  <2>7. \A j, k \in 1..Len(queue') : queue'[j] = queue'[k] => j = k
    BY <2>2, <2>3 DEF InLine
  <2> QED
    BY <2>1, <2>6, <2>7 DEF InLine
<1> QED
  BY <1>1, <1>3, <1>4, <1>5 DEF Moves

\* Nothing that a call has is disturbed by the steps of another one, so that the
\* invariant of each call is kept by its own steps alone.
THEOREM InductiveInvariant == Spec => []IInv
<1>1. ASSUME IInv, Next PROVE IInv'
  <2>1. PICK d \in Calls : Step(d)
    BY <1>1 DEF Next, Step
  <2>2. Typed /\ Shared /\ InLine /\ \A c \in Calls : CallInv(c)
    BY <1>1 DEF IInv
  <2>3. Typed'
    BY <2>1, <2>2, StepTyped
  <2>4. ASSUME NEW c \in Calls PROVE CallInv(c)'
    <3>1. CASE c = d
      BY <2>1, <2>2, <3>1, Own
    <3>2. CASE c # d
      <4>1. View(c)' = View(c) /\ (lease = c <=> lease' = c) /\ CallInv(c)
        BY <2>1, <2>2, <3>2, Elsewhere
      <4> QED
        BY <4>1 DEF View, CallInv, LeaseKept, InHand, Stages, GateTells, ChildPassed, Answered, Live, Awaited
    <3> QED
      BY <3>1, <3>2
  <2>5. Shared' /\ InLine'
    BY <2>1, <2>2, StepShared, StepInLine DEF Shared
  <2> QED
    BY <2>3, <2>4, <2>5 DEF IInv
<1>2. ASSUME IInv, UNCHANGED vars PROVE IInv'
  <2>1. Typed'
    BY <1>2 DEF IInv, Typed, StagesTyped, vars
  <2>2. ASSUME NEW c \in Calls PROVE CallInv(c)'
    BY <1>2 DEF IInv, vars, CallInv, LeaseKept, InHand, Stages, GateTells, ChildPassed, Answered, Live, Awaited
  <2>3. Shared' /\ InLine'
    BY <1>2 DEF IInv, Shared, InLine, vars, program
  <2> QED
    BY <2>1, <2>2, <2>3 DEF IInv
<1> QED
  BY <1>1, <1>2, InitIInv, PTL DEF Spec

\* The types of the calls, their threads and what they share.
THEOREM TypeCorrect == Spec => []TypeOK
<1>1. IInv => TypeOK
  BY DEF IInv, Typed, StagesTyped, Shared, TypeOK, Unbegun, Begun, Launched
<1> QED
  BY <1>1, InductiveInvariant, PTL

\* Who waits for the lease has one place in the queue, and a call that gave up has none:
\* the head of the queue is always a call that can take the lease.
THEOREM QueueCorrect == Spec => []InLine
<1>1. IInv => InLine
  BY DEF IInv
<1> QED
  BY <1>1, InductiveInvariant, PTL

\* The lease is held exactly while a worker, a call or a supervisor still has the program
\* of its holder in hand; so one call at a time has, and a lease is never left behind
\* without anyone to drop it (ExecutionLease and the guards that carry it).
THEOREM LeaseCorrect == Spec => [](\A c \in Calls : LeaseKept(c))
<1>1. IInv => \A c \in Calls : LeaseKept(c)
  BY DEF IInv, CallInv
<1> QED
  BY <1>1, InductiveInvariant, PTL

\* A child that is not reaped yet has one owner that will terminate and reap it, and
\* the execution lease is held for it (process/mod.rs, exec/linux.rs).
THEOREM ChildCorrect == Spec => []ChildOwned
<1>1. ASSUME IInv PROVE ChildOwned
  <2>1. SUFFICES ASSUME NEW c \in Calls, Live(c) PROVE lease = c /\ Cardinality(Owners(c)) = 1
    BY DEF ChildOwned
  <2>2. CallInv(c) /\ worker[c] \in Launched \union {"over"}
    BY <1>1, <2>1 DEF IInv, Typed, StagesTyped, CallInv, ChildPassed, Live
  <2>3. \E o \in {"worker", "call", "supervisor"} : Owners(c) = {o}
    <3> USE DEF Owners, CallInv, ChildPassed, Launched, Running, Cleaning
    <3>1. CASE worker[c] \in Launched
      <4>1. pc[c] \notin Running /\ supervisor[c] \notin Cleaning
        BY <2>2, <3>1 DEF Stages
      <4>2. Owners(c) = {"worker"}
        BY <3>1, <4>1
      <4> QED
        BY <4>2
    <3>2. CASE worker[c] = "over" /\ pc[c] \in Running
      <4>1. supervisor[c] \notin Cleaning
        BY <2>2, <3>2
      <4>2. Owners(c) = {"call"}
        BY <3>2, <4>1
      <4> QED
        BY <4>2
    <3>3. CASE worker[c] = "over" /\ pc[c] \notin Running
      <4>1. supervisor[c] \in Cleaning
        BY <2>1, <2>2, <3>3
      <4>2. Owners(c) = {"supervisor"}
        BY <3>3, <4>1
      <4> QED
        BY <4>2
    <3> QED
      BY <2>2, <3>1, <3>2, <3>3
  <2>4. \A o : Cardinality({o}) = 1
    BY FS_Singleton
  <2>5. Cardinality(Owners(c)) = 1
    BY <2>3, <2>4
  <2>6. lease = c
    BY <2>1, <2>2 DEF CallInv, LeaseKept, InHand, ChildPassed, Launched
  <2> QED
    BY <2>5, <2>6
<1> QED
  BY <1>1, InductiveInvariant, PTL

\* A call that answers without a termination error leaves no program running, and says
\* "before the program started" exactly when there is none and will be none.
THEOREM AnswerCorrect == Spec => []AnswerTrue
<1>1. IInv => AnswerTrue
  BY DEF IInv, CallInv, Answered, AnswerTrue
<1> QED
  BY <1>1, InductiveInvariant, PTL
=============================================================================
