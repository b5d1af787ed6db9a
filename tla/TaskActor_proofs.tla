-------------------------- MODULE TaskActor_proofs --------------------------
(***************************************************************************)
(* Proofs about TaskActor, for every number of invocations, every capacity *)
(* of the channel and every number of slots of the ledger.                 *)
(***************************************************************************)
EXTENDS TaskActor, TLAPS

\* The worker works on an operation from the command to its end.
Busy == wpc \notin {"recv", "stop", "dead"} => wop \in Operations

\* What still has its admission: an operation the worker is about to bind or
\* keep, or keeps, or one whose signal is closed.
Holders ==
  /\ \A i \in Operations : admission[i] = "held" => wop = i /\ wpc = "bind"
  /\ \A i \in Operations : admission[i] = "bound" =>
       i \in operations \/ i \in closed \/ (wop = i /\ wpc \in {"check", "insert"})
  /\ wpc \in {"bind", "check", "insert"} => admission[wop] # "none"

\* While the client is dropped nobody waits for an operation, and each one the
\* worker keeps is closed, or is about to be: by the Drop, or by the worker when
\* it finds that there is nobody to reply to.
Dropped ==
  alive # "yes" =>
    /\ \A i \in Operations : invocation[i] \notin {"waiting", "sent"}
    /\ \A i \in operations :
         i \in closed \cup doomed \/ (wop = i /\ wpc \in {"replyInvoke", "close"})
    /\ alive = "gone" => doomed = {}

\* The two tables differ only while an operation is closed or the worker ends.
Tables ==
  /\ wpc \notin {"unlist", "stop", "dead"} => live = operations
  /\ wpc = "unlist" => live = operations \cup {wop} /\ wop \notin operations
  /\ wpc = "stop" => operations \subseteq live
  /\ wpc = "dead" => live = {} /\ operations = {}

\* The worker keeps what it sent the id of, or closes it.
Kept ==
  \A i \in operations :
    /\ admission[i] # "none"
    /\ \/ invocation[i] \in {"sent", "open", "lost"}
       \/ wop = i /\ wpc \in {"replyInvoke", "close"}

\* Whatever the worker keeps is going to be closed: the expiry task waits for it,
\* its close command is in the channel, or the worker has taken that command.
Ending ==
  \A i \in operations :
    \/ expiry[i] \in {"wait", "send"}
    \/ CloseQueued(i)
    \/ wop = i /\ wpc = "close"

IInv == TypeOK /\ Busy /\ ClosedHoldsNothing /\ Holders /\ Dropped /\ Tables /\ Kept
        /\ Ending

-----------------------------------------------------------------------------
\* A new worker has no command and no operation.
LEMMA InitIInv == Init => IInv
<1> SUFFICES ASSUME Init PROVE IInv
  OBVIOUS
<1>1. TypeOK
  <2>1. queue \in Seq(Command) /\ Len(queue) <= Capacity
    BY TaskAssumption DEF Init
  <2>2. wanted \in BOOLEAN
    BY DEF Init
  <2> QED
    BY <2>1, <2>2 DEF Init, TypeOK, Closers
<1>2. Busy /\ ClosedHoldsNothing /\ Holders /\ Dropped /\ Tables /\ Kept /\ Ending
  BY DEF Init, Busy, ClosedHoldsNothing, Holders, Dropped, Tables, Kept, Ending
<1> QED
  BY <1>1, <1>2 DEF IInv

\* A command names an operation and what is to be done with it.
LEMMA ReceivesCommand ==
  ASSUME TypeOK, Receive
  PROVE  /\ wop' \in Operations /\ wpc' \in {"invoke", "pull", "close"} /\ wpc = "recv"
         /\ queue' \in Seq(Command) /\ Len(queue') <= Capacity
         /\ wanted' \in BOOLEAN
         /\ \A i \in Operations : CloseQueued(i) => CloseQueued(i)' \/ (wop' = i /\ wpc' = "close")
         /\ UNCHANGED <<alive, invocation, doomed, expired, closed, taking, admission,
                        operations, live, expiry>>
<1>1. queue # <<>> /\ queue \in Seq(Command) /\ Len(queue) <= Capacity
  BY DEF TypeOK, Receive
<1>2. Head(queue) \in Command /\ Tail(queue) \in Seq(Command) /\ Len(Tail(queue)) <= Capacity
  BY <1>1, TaskAssumption
<1>3. ASSUME NEW i \in Operations, CloseQueued(i)
      PROVE  CloseQueued(i)' \/ (wop' = i /\ wpc' = "close")
  <2>1. PICK k \in 1..Len(queue) : queue[k].do = "close" /\ queue[k].op = i
    BY <1>3 DEF CloseQueued
  <2>2. CASE k = 1
    BY <1>1, <2>1, <2>2 DEF Receive
  <2>3. CASE k # 1
    <3>1. k - 1 \in 1..Len(Tail(queue)) /\ Tail(queue)[k - 1] = queue[k]
      BY <1>1, <2>3
    <3> QED
      BY <2>1, <3>1 DEF Receive, CloseQueued
  <2> QED
    BY <2>2, <2>3
<1> QED
  BY <1>2, <1>3 DEF Receive, Command, signalVars, tableVars

\* PullFails touches the replies of pulls only.
LEMMA PullGivenUp ==
  ASSUME TypeOK, PullFails
  PROVE  /\ wanted' \in BOOLEAN
         /\ queue' \in Seq(Command) /\ Len(queue') = Len(queue)
         /\ \A i \in Operations : CloseQueued(i) => CloseQueued(i)'
         /\ UNCHANGED <<alive, invocation, doomed, expired, closed, taking, admission,
                        operations, live, expiry, wpc, wop>>
<1>1. queue \in Seq(Command) /\ wanted \in BOOLEAN
  BY DEF TypeOK
<1>2. UNCHANGED <<alive, invocation, doomed, expired, closed, taking, admission,
                  operations, live, expiry, wpc, wop>>
  BY DEF PullFails, signalVars, tableVars, workerVars
<1>3. CASE UNCHANGED queue /\ wanted' = FALSE
  BY <1>1, <1>2, <1>3 DEF CloseQueued
<1>4. ASSUME NEW k \in 1..Len(queue), queue' = [queue EXCEPT ![k].wanted = FALSE], UNCHANGED wanted
      PROVE  /\ wanted' \in BOOLEAN
             /\ queue' \in Seq(Command) /\ Len(queue') = Len(queue)
             /\ \A i \in Operations : CloseQueued(i) => CloseQueued(i)'
  <2>1. queue[k] \in Command
    BY <1>1
  <2>2. [queue[k] EXCEPT !.wanted = FALSE] \in Command
    BY <2>1 DEF Command
  <2>3. queue' \in Seq(Command) /\ Len(queue') = Len(queue)
    BY <1>1, <1>4, <2>2
  <2>4. \A n \in 1..Len(queue) : queue'[n].do = queue[n].do /\ queue'[n].op = queue[n].op
    BY <1>1, <1>4, <2>1 DEF Command
  <2> QED
    BY <1>1, <1>4, <2>3, <2>4 DEF CloseQueued
<1> QED
  BY <1>2, <1>3, <1>4 DEF PullFails

\* Append keeps the commands that are in the channel.
LEMMA SendQueues ==
  ASSUME TypeOK, NEW kind \in {"invoke", "pull", "close"}, NEW i \in Operations, Send(kind, i)
  PROVE  /\ queue' \in Seq(Command) /\ Len(queue') <= Capacity
         /\ \A j \in Operations : CloseQueued(j) => CloseQueued(j)'
         /\ kind = "close" => CloseQueued(i)'
<1> DEFINE new == [do |-> kind, op |-> i, wanted |-> kind = "pull"]
<1>1. new \in Command
  BY DEF Command
<1>2. queue \in Seq(Command) /\ Len(queue) < Capacity /\ queue' = Append(queue, new)
  BY DEF TypeOK, Send
<1> HIDE DEF new
<1>3. /\ queue' \in Seq(Command) /\ Len(queue') = Len(queue) + 1 /\ Len(queue) \in Nat
      /\ \A n \in 1..Len(queue) : queue'[n] = queue[n]
      /\ queue'[Len(queue) + 1] = new
  BY <1>1, <1>2
<1>4. kind = "close" => CloseQueued(i)'
  BY <1>3 DEF CloseQueued, new
<1>5. \A j \in Operations : CloseQueued(j) => CloseQueued(j)'
  BY <1>3 DEF CloseQueued
<1> QED
  BY <1>2, <1>3, <1>4, <1>5, TaskAssumption

\* Every step keeps the types, the bound of the channel and the operation worked on.
LEMMA StepTyped == ASSUME TypeOK, Busy, Next PROVE TypeOK' /\ Busy'
<1> USE DEF TypeOK, Busy, Command, Closers
<1>1. CASE Receive
  BY <1>1, ReceivesCommand
<1>2. CASE InvokeStart
  BY <1>2, TaskAssumption DEF InvokeStart, Goto, clientVars, signalVars, tableVars,
     workerVars
<1>3. CASE InvokeGuest
  BY <1>3, TaskAssumption DEF InvokeGuest, Goto, clientVars, signalVars, tableVars,
     workerVars
<1>4. CASE GuestFails
  BY <1>4, TaskAssumption DEF GuestFails, Goto, clientVars, signalVars, tableVars,
     workerVars
<1>5. CASE GuestCut
  BY <1>5, TaskAssumption DEF GuestCut, Goto, clientVars, signalVars, tableVars, workerVars
<1>6. CASE InvokeBind
  BY <1>6, TaskAssumption DEF InvokeBind, Bind, Goto, clientVars, signalVars, tableVars,
     workerVars
<1>7. CASE InvokeCheck
  BY <1>7, TaskAssumption DEF InvokeCheck, Goto, clientVars, signalVars, tableVars,
     workerVars
<1>8. CASE InvokeInsert
  BY <1>8, TaskAssumption DEF InvokeInsert, Goto, clientVars, signalVars, tableVars,
     workerVars
<1>9. CASE InvokeReply
  BY <1>9, TaskAssumption DEF InvokeReply, Goto, clientVars, signalVars, tableVars,
     workerVars
<1>10. CASE PullStart
  BY <1>10, TaskAssumption DEF PullStart, Goto, clientVars, signalVars, tableVars,
     workerVars
<1>11. CASE PullGuest
  BY <1>11, TaskAssumption DEF PullGuest, Goto, clientVars, signalVars, tableVars,
     workerVars
<1>12. CASE ReplyError
  BY <1>12, TaskAssumption DEF ReplyError, Goto, clientVars, signalVars, tableVars,
     workerVars
<1>13. CASE CloseOperation
  BY <1>13, TaskAssumption DEF CloseOperation, Swap, Goto, clientVars, signalVars,
     tableVars, workerVars
<1>14. CASE CloseUnlist
  BY <1>14, TaskAssumption DEF CloseUnlist, Goto, clientVars, signalVars, tableVars,
     workerVars
<1>15. CASE CloseGuest
  BY <1>15, TaskAssumption DEF CloseGuest, Goto, clientVars, signalVars, tableVars,
     workerVars
<1>16. CASE NextCommand
  BY <1>16, TaskAssumption DEF NextCommand, clientVars, signalVars, tableVars, workerVars
<1>17. CASE StopCloses
  BY <1>17, TaskAssumption DEF StopCloses, Swap, clientVars, signalVars, tableVars,
     workerVars
<1>18. CASE Stop
  BY <1>18, TaskAssumption DEF Stop, clientVars, signalVars, tableVars, workerVars
<1>19. CASE Aborted
  <2>1. queue' \in Seq(Command) /\ Len(queue') <= Capacity
    BY <1>19, TaskAssumption DEF Aborted
  <2>2. wanted' \in BOOLEAN
    BY <1>19 DEF Aborted
  <2> HIDE DEF Command
  <2> QED
    BY <1>19, <2>1, <2>2 DEF Aborted, signalVars
<1>20. CASE DropClient
  BY <1>20, TaskAssumption DEF DropClient, Borrowed, clientVars, signalVars, tableVars, workerVars
<1>21. CASE DropAborts
  BY <1>21, TaskAssumption DEF DropAborts, clientVars, signalVars, tableVars, workerVars
<1>22. ASSUME NEW i \in Operations, Invoke(i) PROVE TypeOK' /\ Busy'
  BY <1>22, SendQueues DEF Invoke, clientVars, signalVars, tableVars, workerVars
<1>23. ASSUME NEW i \in Operations, InvokeFails(i) PROVE TypeOK' /\ Busy'
  BY <1>23, TaskAssumption DEF InvokeFails, clientVars, signalVars, tableVars, workerVars
<1>24. ASSUME NEW i \in Operations, Pull(i) PROVE TypeOK' /\ Busy'
  BY <1>24, SendQueues DEF Pull, clientVars, signalVars, tableVars, workerVars
<1>25. CASE PullFails
  BY <1>25, PullGivenUp
<1>26. ASSUME NEW i \in Operations, Close(i) PROVE TypeOK' /\ Busy'
  BY <1>26, TaskAssumption DEF Close, Swap, clientVars, signalVars, tableVars, workerVars
<1>27. ASSUME NEW i \in Operations, Expire(i) PROVE TypeOK' /\ Busy'
  BY <1>27, TaskAssumption DEF Expire, clientVars, signalVars, tableVars, workerVars
<1>28. ASSUME NEW i \in Operations, ExpiryDeadline(i) PROVE TypeOK' /\ Busy'
  BY <1>28, TaskAssumption DEF ExpiryDeadline, Swap, clientVars, signalVars, tableVars,
     workerVars
<1>29. ASSUME NEW i \in Operations, ExpiryClosed(i) PROVE TypeOK' /\ Busy'
  BY <1>29, TaskAssumption DEF ExpiryClosed, clientVars, signalVars, tableVars, workerVars
<1>30. ASSUME NEW i \in Operations, ExpirySend(i) PROVE TypeOK' /\ Busy'
  BY <1>30, SendQueues DEF ExpirySend, clientVars, signalVars, tableVars,
     workerVars
<1>31. ASSUME NEW i \in Operations, ExpiryEnds(i) PROVE TypeOK' /\ Busy'
  BY <1>31, TaskAssumption DEF ExpiryEnds, clientVars, signalVars, tableVars, workerVars
<1>32. ASSUME NEW i \in Operations, Take(i) PROVE TypeOK' /\ Busy'
  BY <1>32, TaskAssumption DEF Take, Release, clientVars, signalVars, tableVars, workerVars
<1>33. ASSUME NEW i \in Operations, DropCloses(i) PROVE TypeOK' /\ Busy'
  BY <1>33, TaskAssumption DEF DropCloses, Swap, clientVars, signalVars, tableVars,
     workerVars
<1>34. ASSUME NEW i \in Operations, InvokeReceives(i) PROVE TypeOK' /\ Busy'
  BY <1>34, TaskAssumption DEF InvokeReceives, clientVars, signalVars, tableVars, workerVars
<1>35. ASSUME NEW i \in Operations, InvokeDropped(i) PROVE TypeOK' /\ Busy'
  BY <1>35, TaskAssumption DEF InvokeDropped, clientVars, signalVars, tableVars, workerVars
<1> QED
  BY <1>1, <1>2, <1>3, <1>4, <1>5, <1>6, <1>7, <1>8, <1>9, <1>10, <1>11, <1>12, <1>13,
     <1>14, <1>15, <1>16, <1>17, <1>18, <1>19, <1>20, <1>21, <1>22, <1>23, <1>24, <1>25,
     <1>26, <1>27, <1>28, <1>29, <1>30, <1>31, <1>32, <1>33, <1>34, <1>35 DEF Next, GuestAnswers,
     WorkerRuns, ClientActs, ExpiryRuns, DropRuns

\* Whoever comes second of close and bind_admission lets go of the admission.
LEMMA StepClosed == ASSUME TypeOK, Busy, ClosedHoldsNothing, Next PROVE ClosedHoldsNothing'
<1> USE DEF TypeOK, Busy, ClosedHoldsNothing, Closers
<1>1. CASE Receive
  BY <1>1, ReceivesCommand
<1>2. CASE InvokeStart
  BY <1>2 DEF InvokeStart, Goto, clientVars, signalVars, tableVars, workerVars
<1>3. CASE InvokeGuest
  BY <1>3 DEF InvokeGuest, Goto, clientVars, signalVars, tableVars, workerVars
<1>4. CASE GuestFails
  BY <1>4 DEF GuestFails, Goto, clientVars, signalVars, tableVars, workerVars
<1>5. CASE GuestCut
  BY <1>5 DEF GuestCut, Goto, clientVars, signalVars, tableVars, workerVars
<1>6. CASE InvokeBind
  BY <1>6 DEF InvokeBind, Bind, Goto, clientVars, signalVars, tableVars, workerVars
<1>7. CASE InvokeCheck
  BY <1>7 DEF InvokeCheck, Goto, clientVars, signalVars, tableVars, workerVars
<1>8. CASE InvokeInsert
  BY <1>8 DEF InvokeInsert, Goto, clientVars, signalVars, tableVars, workerVars
<1>9. CASE InvokeReply
  BY <1>9 DEF InvokeReply, Goto, clientVars, signalVars, tableVars, workerVars
<1>10. CASE PullStart
  BY <1>10 DEF PullStart, Goto, clientVars, signalVars, tableVars, workerVars
<1>11. CASE PullGuest
  BY <1>11 DEF PullGuest, Goto, clientVars, signalVars, tableVars, workerVars
<1>12. CASE ReplyError
  BY <1>12 DEF ReplyError, Goto, clientVars, signalVars, tableVars, workerVars
<1>13. CASE CloseOperation
  BY <1>13 DEF CloseOperation, Swap, Goto, clientVars, signalVars, tableVars, workerVars
<1>14. CASE CloseUnlist
  BY <1>14 DEF CloseUnlist, Goto, clientVars, signalVars, tableVars, workerVars
<1>15. CASE CloseGuest
  BY <1>15 DEF CloseGuest, Goto, clientVars, signalVars, tableVars, workerVars
<1>16. CASE NextCommand
  BY <1>16 DEF NextCommand, clientVars, signalVars, tableVars, workerVars
<1>17. CASE StopCloses
  BY <1>17 DEF StopCloses, Swap, clientVars, signalVars, tableVars, workerVars
<1>18. CASE Stop
  BY <1>18 DEF Stop, clientVars, signalVars, tableVars, workerVars
<1>19. CASE Aborted
  BY <1>19 DEF Aborted, clientVars, signalVars, tableVars, workerVars
<1>20. CASE DropClient
  BY <1>20 DEF DropClient, Borrowed, clientVars, signalVars, tableVars, workerVars
<1>21. CASE DropAborts
  BY <1>21 DEF DropAborts, clientVars, signalVars, tableVars, workerVars
<1>22. ASSUME NEW i \in Operations, Invoke(i) PROVE ClosedHoldsNothing'
  BY <1>22 DEF Invoke, Send, clientVars, signalVars, tableVars, workerVars
<1>23. ASSUME NEW i \in Operations, InvokeFails(i) PROVE ClosedHoldsNothing'
  BY <1>23 DEF InvokeFails, clientVars, signalVars, tableVars, workerVars
<1>24. ASSUME NEW i \in Operations, Pull(i) PROVE ClosedHoldsNothing'
  BY <1>24 DEF Pull, Send, clientVars, signalVars, tableVars, workerVars
<1>25. CASE PullFails
  BY <1>25, PullGivenUp
<1>26. ASSUME NEW i \in Operations, Close(i) PROVE ClosedHoldsNothing'
  BY <1>26 DEF Close, Swap, clientVars, signalVars, tableVars, workerVars
<1>27. ASSUME NEW i \in Operations, Expire(i) PROVE ClosedHoldsNothing'
  BY <1>27 DEF Expire, clientVars, signalVars, tableVars, workerVars
<1>28. ASSUME NEW i \in Operations, ExpiryDeadline(i) PROVE ClosedHoldsNothing'
  BY <1>28 DEF ExpiryDeadline, Swap, clientVars, signalVars, tableVars, workerVars
<1>29. ASSUME NEW i \in Operations, ExpiryClosed(i) PROVE ClosedHoldsNothing'
  BY <1>29 DEF ExpiryClosed, clientVars, signalVars, tableVars, workerVars
<1>30. ASSUME NEW i \in Operations, ExpirySend(i) PROVE ClosedHoldsNothing'
  BY <1>30 DEF ExpirySend, Send, clientVars, signalVars, tableVars, workerVars
<1>31. ASSUME NEW i \in Operations, ExpiryEnds(i) PROVE ClosedHoldsNothing'
  BY <1>31 DEF ExpiryEnds, clientVars, signalVars, tableVars, workerVars
<1>32. ASSUME NEW i \in Operations, Take(i) PROVE ClosedHoldsNothing'
  BY <1>32 DEF Take, Release, clientVars, signalVars, tableVars, workerVars
<1>33. ASSUME NEW i \in Operations, DropCloses(i) PROVE ClosedHoldsNothing'
  BY <1>33 DEF DropCloses, Swap, clientVars, signalVars, tableVars, workerVars
<1>34. ASSUME NEW i \in Operations, InvokeReceives(i) PROVE ClosedHoldsNothing'
  BY <1>34 DEF InvokeReceives, clientVars, signalVars, tableVars, workerVars
<1>35. ASSUME NEW i \in Operations, InvokeDropped(i) PROVE ClosedHoldsNothing'
  BY <1>35 DEF InvokeDropped, clientVars, signalVars, tableVars, workerVars
<1> QED
  BY <1>1, <1>2, <1>3, <1>4, <1>5, <1>6, <1>7, <1>8, <1>9, <1>10, <1>11, <1>12, <1>13,
     <1>14, <1>15, <1>16, <1>17, <1>18, <1>19, <1>20, <1>21, <1>22, <1>23, <1>24, <1>25,
     <1>26, <1>27, <1>28, <1>29, <1>30, <1>31, <1>32, <1>33, <1>34, <1>35 DEF Next, GuestAnswers,
     WorkerRuns, ClientActs, ExpiryRuns, DropRuns

\* An admission is never left with an operation that nobody keeps or closes.
LEMMA StepHolders == ASSUME IInv, Next PROVE Holders'
<1> USE DEF TypeOK, Busy, Holders, Dropped, IInv
<1>1. CASE Receive
  BY <1>1, ReceivesCommand
<1>2. CASE InvokeStart
  BY <1>2 DEF InvokeStart, Goto, clientVars, signalVars, tableVars, workerVars
<1>3. CASE InvokeGuest
  BY <1>3 DEF InvokeGuest, Goto, clientVars, signalVars, tableVars, workerVars
<1>4. CASE GuestFails
  BY <1>4 DEF GuestFails, Goto, clientVars, signalVars, tableVars, workerVars
<1>5. CASE GuestCut
  BY <1>5 DEF GuestCut, Goto, clientVars, signalVars, tableVars, workerVars
<1>6. CASE InvokeBind
  BY <1>6 DEF InvokeBind, Bind, Goto, clientVars, signalVars, tableVars, workerVars
<1>7. CASE InvokeCheck
  BY <1>7 DEF InvokeCheck, Goto, clientVars, signalVars, tableVars, workerVars
<1>8. CASE InvokeInsert
  BY <1>8 DEF InvokeInsert, Goto, clientVars, signalVars, tableVars, workerVars
<1>9. CASE InvokeReply
  BY <1>9 DEF InvokeReply, Goto, clientVars, signalVars, tableVars, workerVars
<1>10. CASE PullStart
  BY <1>10 DEF PullStart, Goto, clientVars, signalVars, tableVars, workerVars
<1>11. CASE PullGuest
  BY <1>11 DEF PullGuest, Goto, clientVars, signalVars, tableVars, workerVars
<1>12. CASE ReplyError
  BY <1>12 DEF ReplyError, Goto, clientVars, signalVars, tableVars, workerVars
<1>13. CASE CloseOperation
  BY <1>13 DEF CloseOperation, Swap, Goto, clientVars, signalVars, tableVars, workerVars
<1>14. CASE CloseUnlist
  BY <1>14 DEF CloseUnlist, Goto, clientVars, signalVars, tableVars, workerVars
<1>15. CASE CloseGuest
  BY <1>15 DEF CloseGuest, Goto, clientVars, signalVars, tableVars, workerVars
<1>16. CASE NextCommand
  BY <1>16 DEF NextCommand, clientVars, signalVars, tableVars, workerVars
<1>17. CASE StopCloses
  BY <1>17 DEF StopCloses, Swap, clientVars, signalVars, tableVars, workerVars
<1>18. CASE Stop
  BY <1>18 DEF Stop, clientVars, signalVars, tableVars, workerVars
<1>19. CASE Aborted
  BY <1>19 DEF Aborted, clientVars, signalVars, tableVars, workerVars
<1>20. CASE DropClient
  BY <1>20 DEF DropClient, Borrowed, clientVars, signalVars, tableVars, workerVars
<1>21. CASE DropAborts
  BY <1>21 DEF DropAborts, clientVars, signalVars, tableVars, workerVars
<1>22. ASSUME NEW i \in Operations, Invoke(i) PROVE Holders'
  BY <1>22 DEF Invoke, Send, clientVars, signalVars, tableVars, workerVars
<1>23. ASSUME NEW i \in Operations, InvokeFails(i) PROVE Holders'
  BY <1>23 DEF InvokeFails, clientVars, signalVars, tableVars, workerVars
<1>24. ASSUME NEW i \in Operations, Pull(i) PROVE Holders'
  BY <1>24 DEF Pull, Send, clientVars, signalVars, tableVars, workerVars
<1>25. CASE PullFails
  BY <1>25, PullGivenUp
<1>26. ASSUME NEW i \in Operations, Close(i) PROVE Holders'
  BY <1>26 DEF Close, Swap, clientVars, signalVars, tableVars, workerVars
<1>27. ASSUME NEW i \in Operations, Expire(i) PROVE Holders'
  BY <1>27 DEF Expire, clientVars, signalVars, tableVars, workerVars
<1>28. ASSUME NEW i \in Operations, ExpiryDeadline(i) PROVE Holders'
  BY <1>28 DEF ExpiryDeadline, Swap, clientVars, signalVars, tableVars, workerVars
<1>29. ASSUME NEW i \in Operations, ExpiryClosed(i) PROVE Holders'
  BY <1>29 DEF ExpiryClosed, clientVars, signalVars, tableVars, workerVars
<1>30. ASSUME NEW i \in Operations, ExpirySend(i) PROVE Holders'
  BY <1>30 DEF ExpirySend, Send, clientVars, signalVars, tableVars, workerVars
<1>31. ASSUME NEW i \in Operations, ExpiryEnds(i) PROVE Holders'
  BY <1>31 DEF ExpiryEnds, clientVars, signalVars, tableVars, workerVars
<1>32. ASSUME NEW i \in Operations, Take(i) PROVE Holders'
  BY <1>32 DEF Take, Release, clientVars, signalVars, tableVars, workerVars
<1>33. ASSUME NEW i \in Operations, DropCloses(i) PROVE Holders'
  BY <1>33 DEF DropCloses, Swap, clientVars, signalVars, tableVars, workerVars
<1>34. ASSUME NEW i \in Operations, InvokeReceives(i) PROVE Holders'
  BY <1>34 DEF InvokeReceives, clientVars, signalVars, tableVars, workerVars
<1>35. ASSUME NEW i \in Operations, InvokeDropped(i) PROVE Holders'
  BY <1>35 DEF InvokeDropped, clientVars, signalVars, tableVars, workerVars
<1> QED
  BY <1>1, <1>2, <1>3, <1>4, <1>5, <1>6, <1>7, <1>8, <1>9, <1>10, <1>11, <1>12, <1>13,
     <1>14, <1>15, <1>16, <1>17, <1>18, <1>19, <1>20, <1>21, <1>22, <1>23, <1>24, <1>25,
     <1>26, <1>27, <1>28, <1>29, <1>30, <1>31, <1>32, <1>33, <1>34, <1>35 DEF Next, GuestAnswers,
     WorkerRuns, ClientActs, ExpiryRuns, DropRuns

\* A Drop of the client reaches every operation.
LEMMA StepDropped == ASSUME IInv, Next PROVE Dropped'
<1> USE DEF TypeOK, Busy, Holders, Dropped, Tables, IInv
<1>1. CASE Receive
  BY <1>1, ReceivesCommand
<1>2. CASE InvokeStart
  BY <1>2 DEF InvokeStart, Goto, clientVars, signalVars, tableVars, workerVars
<1>3. CASE InvokeGuest
  BY <1>3 DEF InvokeGuest, Goto, clientVars, signalVars, tableVars, workerVars
<1>4. CASE GuestFails
  BY <1>4 DEF GuestFails, Goto, clientVars, signalVars, tableVars, workerVars
<1>5. CASE GuestCut
  BY <1>5 DEF GuestCut, Goto, clientVars, signalVars, tableVars, workerVars
<1>6. CASE InvokeBind
  BY <1>6 DEF InvokeBind, Bind, Goto, clientVars, signalVars, tableVars, workerVars
<1>7. CASE InvokeCheck
  BY <1>7 DEF InvokeCheck, Goto, clientVars, signalVars, tableVars, workerVars
<1>8. CASE InvokeInsert
  BY <1>8 DEF InvokeInsert, Goto, clientVars, signalVars, tableVars, workerVars
<1>9. CASE InvokeReply
  BY <1>9 DEF InvokeReply, Goto, clientVars, signalVars, tableVars, workerVars
<1>10. CASE PullStart
  BY <1>10 DEF PullStart, Goto, clientVars, signalVars, tableVars, workerVars
<1>11. CASE PullGuest
  BY <1>11 DEF PullGuest, Goto, clientVars, signalVars, tableVars, workerVars
<1>12. CASE ReplyError
  BY <1>12 DEF ReplyError, Goto, clientVars, signalVars, tableVars, workerVars
<1>13. CASE CloseOperation
  BY <1>13 DEF CloseOperation, Swap, Goto, clientVars, signalVars, tableVars, workerVars
<1>14. CASE CloseUnlist
  BY <1>14 DEF CloseUnlist, Goto, clientVars, signalVars, tableVars, workerVars
<1>15. CASE CloseGuest
  BY <1>15 DEF CloseGuest, Goto, clientVars, signalVars, tableVars, workerVars
<1>16. CASE NextCommand
  BY <1>16 DEF NextCommand, clientVars, signalVars, tableVars, workerVars
<1>17. CASE StopCloses
  BY <1>17 DEF StopCloses, Swap, clientVars, signalVars, tableVars, workerVars
<1>18. CASE Stop
  BY <1>18 DEF Stop, clientVars, signalVars, tableVars, workerVars
<1>19. CASE Aborted
  BY <1>19 DEF Aborted, clientVars, signalVars, tableVars, workerVars
<1>20. CASE DropClient
  BY <1>20 DEF DropClient, Borrowed, clientVars, signalVars, tableVars, workerVars
<1>21. CASE DropAborts
  BY <1>21 DEF DropAborts, clientVars, signalVars, tableVars, workerVars
<1>22. ASSUME NEW i \in Operations, Invoke(i) PROVE Dropped'
  BY <1>22 DEF Invoke, Send, clientVars, signalVars, tableVars, workerVars
<1>23. ASSUME NEW i \in Operations, InvokeFails(i) PROVE Dropped'
  BY <1>23 DEF InvokeFails, clientVars, signalVars, tableVars, workerVars
<1>24. ASSUME NEW i \in Operations, Pull(i) PROVE Dropped'
  BY <1>24 DEF Pull, Send, clientVars, signalVars, tableVars, workerVars
<1>25. CASE PullFails
  BY <1>25, PullGivenUp
<1>26. ASSUME NEW i \in Operations, Close(i) PROVE Dropped'
  BY <1>26 DEF Close, Swap, clientVars, signalVars, tableVars, workerVars
<1>27. ASSUME NEW i \in Operations, Expire(i) PROVE Dropped'
  BY <1>27 DEF Expire, clientVars, signalVars, tableVars, workerVars
<1>28. ASSUME NEW i \in Operations, ExpiryDeadline(i) PROVE Dropped'
  BY <1>28 DEF ExpiryDeadline, Swap, clientVars, signalVars, tableVars, workerVars
<1>29. ASSUME NEW i \in Operations, ExpiryClosed(i) PROVE Dropped'
  BY <1>29 DEF ExpiryClosed, clientVars, signalVars, tableVars, workerVars
<1>30. ASSUME NEW i \in Operations, ExpirySend(i) PROVE Dropped'
  BY <1>30 DEF ExpirySend, Send, clientVars, signalVars, tableVars, workerVars
<1>31. ASSUME NEW i \in Operations, ExpiryEnds(i) PROVE Dropped'
  BY <1>31 DEF ExpiryEnds, clientVars, signalVars, tableVars, workerVars
<1>32. ASSUME NEW i \in Operations, Take(i) PROVE Dropped'
  BY <1>32 DEF Take, Release, clientVars, signalVars, tableVars, workerVars
<1>33. ASSUME NEW i \in Operations, DropCloses(i) PROVE Dropped'
  BY <1>33 DEF DropCloses, Swap, clientVars, signalVars, tableVars, workerVars
<1>34. ASSUME NEW i \in Operations, InvokeReceives(i) PROVE Dropped'
  BY <1>34 DEF InvokeReceives, clientVars, signalVars, tableVars, workerVars
<1>35. ASSUME NEW i \in Operations, InvokeDropped(i) PROVE Dropped'
  BY <1>35 DEF InvokeDropped, clientVars, signalVars, tableVars, workerVars
<1> QED
  BY <1>1, <1>2, <1>3, <1>4, <1>5, <1>6, <1>7, <1>8, <1>9, <1>10, <1>11, <1>12, <1>13,
     <1>14, <1>15, <1>16, <1>17, <1>18, <1>19, <1>20, <1>21, <1>22, <1>23, <1>24, <1>25,
     <1>26, <1>27, <1>28, <1>29, <1>30, <1>31, <1>32, <1>33, <1>34, <1>35 DEF Next, GuestAnswers,
     WorkerRuns, ClientActs, ExpiryRuns, DropRuns

\* live follows the table of the worker.
LEMMA StepTables == ASSUME IInv, Next PROVE Tables'
<1> USE DEF TypeOK, Busy, Tables, IInv
<1>1. CASE Receive
  BY <1>1, ReceivesCommand
<1>2. CASE InvokeStart
  BY <1>2 DEF InvokeStart, Goto, clientVars, signalVars, tableVars, workerVars
<1>3. CASE InvokeGuest
  BY <1>3 DEF InvokeGuest, Goto, clientVars, signalVars, tableVars, workerVars
<1>4. CASE GuestFails
  BY <1>4 DEF GuestFails, Goto, clientVars, signalVars, tableVars, workerVars
<1>5. CASE GuestCut
  BY <1>5 DEF GuestCut, Goto, clientVars, signalVars, tableVars, workerVars
<1>6. CASE InvokeBind
  BY <1>6 DEF InvokeBind, Bind, Goto, clientVars, signalVars, tableVars, workerVars
<1>7. CASE InvokeCheck
  BY <1>7 DEF InvokeCheck, Goto, clientVars, signalVars, tableVars, workerVars
<1>8. CASE InvokeInsert
  BY <1>8 DEF InvokeInsert, Goto, clientVars, signalVars, tableVars, workerVars
<1>9. CASE InvokeReply
  BY <1>9 DEF InvokeReply, Goto, clientVars, signalVars, tableVars, workerVars
<1>10. CASE PullStart
  BY <1>10 DEF PullStart, Goto, clientVars, signalVars, tableVars, workerVars
<1>11. CASE PullGuest
  BY <1>11 DEF PullGuest, Goto, clientVars, signalVars, tableVars, workerVars
<1>12. CASE ReplyError
  BY <1>12 DEF ReplyError, Goto, clientVars, signalVars, tableVars, workerVars
<1>13. CASE CloseOperation
  BY <1>13 DEF CloseOperation, Swap, Goto, clientVars, signalVars, tableVars, workerVars
<1>14. CASE CloseUnlist
  BY <1>14 DEF CloseUnlist, Goto, clientVars, signalVars, tableVars, workerVars
<1>15. CASE CloseGuest
  BY <1>15 DEF CloseGuest, Goto, clientVars, signalVars, tableVars, workerVars
<1>16. CASE NextCommand
  BY <1>16 DEF NextCommand, clientVars, signalVars, tableVars, workerVars
<1>17. CASE StopCloses
  BY <1>17 DEF StopCloses, Swap, clientVars, signalVars, tableVars, workerVars
<1>18. CASE Stop
  BY <1>18 DEF Stop, clientVars, signalVars, tableVars, workerVars
<1>19. CASE Aborted
  BY <1>19 DEF Aborted, clientVars, signalVars, tableVars, workerVars
<1>20. CASE DropClient
  BY <1>20 DEF DropClient, Borrowed, clientVars, signalVars, tableVars, workerVars
<1>21. CASE DropAborts
  BY <1>21 DEF DropAborts, clientVars, signalVars, tableVars, workerVars
<1>22. ASSUME NEW i \in Operations, Invoke(i) PROVE Tables'
  BY <1>22 DEF Invoke, Send, clientVars, signalVars, tableVars, workerVars
<1>23. ASSUME NEW i \in Operations, InvokeFails(i) PROVE Tables'
  BY <1>23 DEF InvokeFails, clientVars, signalVars, tableVars, workerVars
<1>24. ASSUME NEW i \in Operations, Pull(i) PROVE Tables'
  BY <1>24 DEF Pull, Send, clientVars, signalVars, tableVars, workerVars
<1>25. CASE PullFails
  BY <1>25, PullGivenUp
<1>26. ASSUME NEW i \in Operations, Close(i) PROVE Tables'
  BY <1>26 DEF Close, Swap, clientVars, signalVars, tableVars, workerVars
<1>27. ASSUME NEW i \in Operations, Expire(i) PROVE Tables'
  BY <1>27 DEF Expire, clientVars, signalVars, tableVars, workerVars
<1>28. ASSUME NEW i \in Operations, ExpiryDeadline(i) PROVE Tables'
  BY <1>28 DEF ExpiryDeadline, Swap, clientVars, signalVars, tableVars, workerVars
<1>29. ASSUME NEW i \in Operations, ExpiryClosed(i) PROVE Tables'
  BY <1>29 DEF ExpiryClosed, clientVars, signalVars, tableVars, workerVars
<1>30. ASSUME NEW i \in Operations, ExpirySend(i) PROVE Tables'
  BY <1>30 DEF ExpirySend, Send, clientVars, signalVars, tableVars, workerVars
<1>31. ASSUME NEW i \in Operations, ExpiryEnds(i) PROVE Tables'
  BY <1>31 DEF ExpiryEnds, clientVars, signalVars, tableVars, workerVars
<1>32. ASSUME NEW i \in Operations, Take(i) PROVE Tables'
  BY <1>32 DEF Take, Release, clientVars, signalVars, tableVars, workerVars
<1>33. ASSUME NEW i \in Operations, DropCloses(i) PROVE Tables'
  BY <1>33 DEF DropCloses, Swap, clientVars, signalVars, tableVars, workerVars
<1>34. ASSUME NEW i \in Operations, InvokeReceives(i) PROVE Tables'
  BY <1>34 DEF InvokeReceives, clientVars, signalVars, tableVars, workerVars
<1>35. ASSUME NEW i \in Operations, InvokeDropped(i) PROVE Tables'
  BY <1>35 DEF InvokeDropped, clientVars, signalVars, tableVars, workerVars
<1> QED
  BY <1>1, <1>2, <1>3, <1>4, <1>5, <1>6, <1>7, <1>8, <1>9, <1>10, <1>11, <1>12, <1>13,
     <1>14, <1>15, <1>16, <1>17, <1>18, <1>19, <1>20, <1>21, <1>22, <1>23, <1>24, <1>25,
     <1>26, <1>27, <1>28, <1>29, <1>30, <1>31, <1>32, <1>33, <1>34, <1>35 DEF Next, GuestAnswers,
     WorkerRuns, ClientActs, ExpiryRuns, DropRuns

\* An operation is kept only for an invoker that has got its id.
LEMMA StepKept == ASSUME IInv, Next PROVE Kept'
<1> USE DEF TypeOK, Busy, Holders, Kept, IInv
<1>1. CASE Receive
  BY <1>1, ReceivesCommand
<1>2. CASE InvokeStart
  BY <1>2 DEF InvokeStart, Goto, clientVars, signalVars, tableVars, workerVars
<1>3. CASE InvokeGuest
  BY <1>3 DEF InvokeGuest, Goto, clientVars, signalVars, tableVars, workerVars
<1>4. CASE GuestFails
  BY <1>4 DEF GuestFails, Goto, clientVars, signalVars, tableVars, workerVars
<1>5. CASE GuestCut
  BY <1>5 DEF GuestCut, Goto, clientVars, signalVars, tableVars, workerVars
<1>6. CASE InvokeBind
  BY <1>6 DEF InvokeBind, Bind, Goto, clientVars, signalVars, tableVars, workerVars
<1>7. CASE InvokeCheck
  BY <1>7 DEF InvokeCheck, Goto, clientVars, signalVars, tableVars, workerVars
<1>8. CASE InvokeInsert
  BY <1>8 DEF InvokeInsert, Goto, clientVars, signalVars, tableVars, workerVars
<1>9. CASE InvokeReply
  BY <1>9 DEF InvokeReply, Goto, clientVars, signalVars, tableVars, workerVars
<1>10. CASE PullStart
  BY <1>10 DEF PullStart, Goto, clientVars, signalVars, tableVars, workerVars
<1>11. CASE PullGuest
  BY <1>11 DEF PullGuest, Goto, clientVars, signalVars, tableVars, workerVars
<1>12. CASE ReplyError
  BY <1>12 DEF ReplyError, Goto, clientVars, signalVars, tableVars, workerVars
<1>13. CASE CloseOperation
  BY <1>13 DEF CloseOperation, Swap, Goto, clientVars, signalVars, tableVars, workerVars
<1>14. CASE CloseUnlist
  BY <1>14 DEF CloseUnlist, Goto, clientVars, signalVars, tableVars, workerVars
<1>15. CASE CloseGuest
  BY <1>15 DEF CloseGuest, Goto, clientVars, signalVars, tableVars, workerVars
<1>16. CASE NextCommand
  BY <1>16 DEF NextCommand, clientVars, signalVars, tableVars, workerVars
<1>17. CASE StopCloses
  BY <1>17 DEF StopCloses, Swap, clientVars, signalVars, tableVars, workerVars
<1>18. CASE Stop
  BY <1>18 DEF Stop, clientVars, signalVars, tableVars, workerVars
<1>19. CASE Aborted
  BY <1>19 DEF Aborted, clientVars, signalVars, tableVars, workerVars
<1>20. CASE DropClient
  BY <1>20 DEF DropClient, Borrowed, clientVars, signalVars, tableVars, workerVars
<1>21. CASE DropAborts
  BY <1>21 DEF DropAborts, clientVars, signalVars, tableVars, workerVars
<1>22. ASSUME NEW i \in Operations, Invoke(i) PROVE Kept'
  BY <1>22 DEF Invoke, Send, clientVars, signalVars, tableVars, workerVars
<1>23. ASSUME NEW i \in Operations, InvokeFails(i) PROVE Kept'
  BY <1>23 DEF InvokeFails, clientVars, signalVars, tableVars, workerVars
<1>24. ASSUME NEW i \in Operations, Pull(i) PROVE Kept'
  BY <1>24 DEF Pull, Send, clientVars, signalVars, tableVars, workerVars
<1>25. CASE PullFails
  BY <1>25, PullGivenUp
<1>26. ASSUME NEW i \in Operations, Close(i) PROVE Kept'
  BY <1>26 DEF Close, Swap, clientVars, signalVars, tableVars, workerVars
<1>27. ASSUME NEW i \in Operations, Expire(i) PROVE Kept'
  BY <1>27 DEF Expire, clientVars, signalVars, tableVars, workerVars
<1>28. ASSUME NEW i \in Operations, ExpiryDeadline(i) PROVE Kept'
  BY <1>28 DEF ExpiryDeadline, Swap, clientVars, signalVars, tableVars, workerVars
<1>29. ASSUME NEW i \in Operations, ExpiryClosed(i) PROVE Kept'
  BY <1>29 DEF ExpiryClosed, clientVars, signalVars, tableVars, workerVars
<1>30. ASSUME NEW i \in Operations, ExpirySend(i) PROVE Kept'
  BY <1>30 DEF ExpirySend, Send, clientVars, signalVars, tableVars, workerVars
<1>31. ASSUME NEW i \in Operations, ExpiryEnds(i) PROVE Kept'
  BY <1>31 DEF ExpiryEnds, clientVars, signalVars, tableVars, workerVars
<1>32. ASSUME NEW i \in Operations, Take(i) PROVE Kept'
  BY <1>32 DEF Take, Release, clientVars, signalVars, tableVars, workerVars
<1>33. ASSUME NEW i \in Operations, DropCloses(i) PROVE Kept'
  BY <1>33 DEF DropCloses, Swap, clientVars, signalVars, tableVars, workerVars
<1>34. ASSUME NEW i \in Operations, InvokeReceives(i) PROVE Kept'
  BY <1>34 DEF InvokeReceives, clientVars, signalVars, tableVars, workerVars
<1>35. ASSUME NEW i \in Operations, InvokeDropped(i) PROVE Kept'
  BY <1>35 DEF InvokeDropped, clientVars, signalVars, tableVars, workerVars
<1> QED
  BY <1>1, <1>2, <1>3, <1>4, <1>5, <1>6, <1>7, <1>8, <1>9, <1>10, <1>11, <1>12, <1>13,
     <1>14, <1>15, <1>16, <1>17, <1>18, <1>19, <1>20, <1>21, <1>22, <1>23, <1>24, <1>25,
     <1>26, <1>27, <1>28, <1>29, <1>30, <1>31, <1>32, <1>33, <1>34, <1>35 DEF Next, GuestAnswers,
     WorkerRuns, ClientActs, ExpiryRuns, DropRuns

\* The expiry task of an operation does not end before its close command is sent,
\* and no command is lost before the worker has taken it or has ended.
LEMMA StepEnding == ASSUME IInv, Next PROVE Ending'
<1>1. ASSUME UNCHANGED <<queue, operations, expiry>>, wpc # "close" \/ UNCHANGED workerVars
      PROVE  Ending'
  BY <1>1 DEF IInv, Ending, CloseQueued, workerVars
<1>2. CASE Receive
  <2>1. TypeOK /\ Ending
    BY DEF IInv
  <2>2. operations' = operations /\ expiry' = expiry /\ operations \subseteq Operations /\ wpc = "recv"
    BY <1>2, <2>1, ReceivesCommand DEF TypeOK
  <2>3. ASSUME NEW i \in operations
        PROVE  expiry[i] \in {"wait", "send"} \/ CloseQueued(i)' \/ (wop' = i /\ wpc' = "close")
    BY <1>2, <2>1, <2>2, ReceivesCommand DEF Ending
  <2> QED
    BY <2>2, <2>3 DEF Ending
<1>3. CASE \/ InvokeStart \/ InvokeGuest \/ GuestFails \/ GuestCut \/ InvokeBind \/ InvokeCheck
           \/ InvokeReply \/ PullStart \/ PullGuest \/ ReplyError \/ CloseUnlist \/ CloseGuest
           \/ NextCommand
  BY <1>1, <1>3 DEF InvokeStart, InvokeGuest, GuestFails, GuestCut, InvokeBind, InvokeCheck,
     InvokeReply, PullStart, PullGuest, ReplyError, CloseUnlist, CloseGuest, NextCommand,
     tableVars
<1>4. CASE InvokeInsert
  BY <1>4 DEF InvokeInsert, Goto, IInv, TypeOK, Busy, Ending, CloseQueued
<1>5. CASE CloseOperation
  BY <1>5 DEF CloseOperation, Goto, IInv, Ending, CloseQueued, tableVars
<1>6. CASE StopCloses
  BY <1>6 DEF StopCloses, workerVars, IInv, Ending, CloseQueued
<1>7. CASE Stop \/ Aborted
  BY <1>7 DEF Stop, Aborted, Ending
<1>8. CASE DropClient \/ DropAborts
  BY <1>1, <1>8 DEF DropClient, DropAborts, tableVars
<1>9. CASE PullFails
  BY <1>9, PullGivenUp DEF IInv, Ending, TypeOK
<1>10. ASSUME NEW i \in Operations, Invoke(i) \/ Pull(i)
       PROVE  Ending'
  BY <1>10, SendQueues DEF Invoke, Pull, IInv, Ending, TypeOK, tableVars, workerVars
<1>11. ASSUME NEW i \in Operations,
              \/ InvokeFails(i) \/ InvokeReceives(i) \/ InvokeDropped(i) \/ Close(i)
              \/ Expire(i) \/ Take(i) \/ DropCloses(i)
       PROVE  Ending'
  BY <1>1, <1>11 DEF InvokeFails, InvokeReceives, InvokeDropped, Close, Expire, Take, DropCloses,
     tableVars
<1>12. ASSUME NEW i \in Operations, ExpiryDeadline(i) \/ ExpiryClosed(i) PROVE Ending'
  BY <1>12 DEF ExpiryDeadline, ExpiryClosed, IInv, TypeOK, Ending, CloseQueued, tableVars,
     workerVars
<1>13. ASSUME NEW i \in Operations, ExpirySend(i) PROVE Ending'
  BY <1>13, SendQueues DEF ExpirySend, IInv, TypeOK, Ending, tableVars, workerVars
<1>14. ASSUME NEW i \in Operations, ExpiryEnds(i) PROVE Ending'
  BY <1>14 DEF ExpiryEnds, IInv, Tables, Ending, tableVars
<1> QED
  BY <1>2, <1>3, <1>4, <1>5, <1>6, <1>7, <1>8, <1>9, <1>10, <1>11, <1>12, <1>13, <1>14
  DEF Next, GuestAnswers, WorkerRuns, ClientActs, ExpiryRuns, DropRuns

\* The invariant of the worker, its clients and the expiry tasks.
THEOREM InductiveInvariant == Spec => []IInv
<1>1. ASSUME IInv, Next PROVE IInv'
  BY <1>1, StepTyped, StepClosed, StepHolders, StepDropped, StepTables, StepKept, StepEnding
     DEF IInv
<1>2. ASSUME IInv, UNCHANGED vars PROVE IInv'
  BY <1>2 DEF vars, clientVars, signalVars, tableVars, workerVars, IInv, TypeOK, Busy,
              ClosedHoldsNothing, Holders, Dropped, Tables, Kept, Ending, CloseQueued
<1> QED
  BY <1>1, <1>2, InitIInv, PTL DEF Spec

\* The types, and the bound of the command channel.
THEOREM TypeCorrect == Spec => []TypeOK
<1>1. IInv => TypeOK
  BY DEF IInv
<1> QED
  BY <1>1, InductiveInvariant, PTL

\* A closed signal does not keep the admission it owns (TaskCloseSignal).
THEOREM ClosedCorrect == Spec => []ClosedHoldsNothing
<1>1. IInv => ClosedHoldsNothing
  BY DEF IInv
<1> QED
  BY <1>1, InductiveInvariant, PTL

\* A worker that has ended, or was aborted by the Drop of its client, leaves no
\* slot of the ledger taken (run_worker, TaskActorClient::drop).
THEOREM DeadCorrect == Spec => []DeadHoldsNothing
<1>1. ASSUME IInv PROVE DeadHoldsNothing
  <2>1. SUFFICES ASSUME wpc = "dead", NEW i \in Operations
                 PROVE  admission[i] \in {"none", "released"} \/ taking[i] # "nobody"
    BY DEF DeadHoldsNothing
  <2>2. operations = {} /\ admission[i] # "held"
    BY <1>1, <2>1 DEF IInv, Tables, Holders
  <2>3. admission[i] = "bound" => taking[i] # "nobody"
    BY <1>1, <2>1, <2>2 DEF IInv, Holders, ClosedHoldsNothing
  <2> QED
    BY <1>1, <2>2, <2>3 DEF IInv, TypeOK
<1> QED
  BY <1>1, InductiveInvariant, PTL

\* Between two commands the worker keeps only operations whose id it sent to an
\* invoker that waited; clients can close them, and the expiry task of each ends it
\* even if the id was lost with its invoker (invoke, run_worker, invoke_operation).
THEOREM KeptCorrect == Spec => []KeptIsReachable
<1>1. IInv => KeptIsReachable
  BY DEF IInv, Tables, Kept, Ending, KeptIsReachable
<1> QED
  BY <1>1, InductiveInvariant, PTL
=============================================================================
