----------------------------- MODULE TaskActor -----------------------------
(***************************************************************************)
(* The worker that owns one FeaturePack                                    *)
(* (crates/mcode-plugin-host/src/runtime/task_worker.rs).                  *)
(*                                                                         *)
(* Clients send commands through a bounded channel; the worker serves them *)
(* one at a time, and its guest calls are cut short when the operation's   *)
(* signal closes or its deadline passes.  The signal also owns the         *)
(* admission of the operation (a slot of the Store's ledger), so that      *)
(* closing it frees the slot at once, whatever the worker is waiting for.  *)
(* Callers, an expiry task per operation, the worker, and the Drop of the  *)
(* client all close signals, on different threads.                         *)
(***************************************************************************)
EXTENDS Naturals, Sequences, FiniteSets

CONSTANTS
  MaxInvocations,     \* bound on the invocations
  Capacity,           \* COMMAND_CAPACITY
  MaxOpenOperations   \* slots of the Store's admission ledger

ASSUME TaskAssumption ==
  MaxInvocations \in Nat /\ Capacity \in Nat \ {0} /\ MaxOpenOperations \in Nat \ {0}

(* The invocations, numbered as their invoke calls send them; each has a   *)
(* deadline and a close signal.                                            *)
Operations == 1..MaxInvocations

VARIABLES
  queue,       \* commands in the channel
  alive,       \* the TaskActorClient: "yes", "dropping" or "gone"
  invocation,  \* the client's invoke call for each operation
  wanted,      \* does the caller of the pull that is being served still wait
  expired,     \* operations whose deadline has passed
  closed,      \* operations whose signal is closed
  taking,      \* who swapped the signal and has yet to take the admission
  admission,   \* where the admission of each operation is
  operations,  \* the worker's operations
  live,        \* the operations that clients can close
  expiry,      \* the expiry task of each operation
  doomed,      \* the signals that Drop of the client still has to close
  wpc,         \* where the worker is
  wop          \* the operation it works on, 0 while it waits for a command

clientVars == <<alive, invocation, wanted, doomed>>
signalVars == <<closed, taking, admission>>
tableVars == <<operations, live>>
workerVars == <<wpc, wop>>
vars == <<queue, clientVars, expired, signalVars, tableVars, expiry, workerVars>>

(* A pull is wanted as long as its future is there to receive the reply.   *)
Command == [do : {"invoke", "pull", "close"}, op : Operations, wanted : BOOLEAN]
Closers == {"caller", "expiry", "worker", "drop"}

Init ==
  /\ queue = <<>>
  /\ alive = "yes"
  /\ invocation = [i \in Operations |-> "none"]
  /\ wanted = FALSE
  /\ expired = {}
  /\ closed = {}
  /\ taking = [i \in Operations |-> "nobody"]
  /\ admission = [i \in Operations |-> "none"]
  /\ operations = {}
  /\ live = {}
  /\ expiry = [i \in Operations |-> "none"]
  /\ doomed = {}
  /\ wpc = "recv"
  /\ wop = 0

-----------------------------------------------------------------------------
(* TaskCloseSignal.                                                        *)

\* close(), first half: the swap of the flag decides who takes the admission.
Swap(i, who) ==
  /\ closed' = closed \cup {i}
  /\ taking' = IF i \in closed THEN taking ELSE [taking EXCEPT ![i] = who]
  /\ UNCHANGED admission

Release(i) == admission' = [admission EXCEPT ![i] = "released"]

\* close(), second half: under the lock, take what is there; then notify.
Take(i) ==
  /\ taking[i] # "nobody"
  /\ IF admission[i] = "bound" THEN Release(i) ELSE UNCHANGED admission
  /\ taking' = [taking EXCEPT ![i] = "nobody"]
  /\ UNCHANGED <<queue, clientVars, expired, closed, tableVars, expiry, workerVars>>

\* A task that waits in closed() has been notified.
Notified(i) == i \in closed /\ taking[i] = "nobody"

\* Mutant of Bind: the signal is not looked at under the lock.
Bind_Always(i) == admission' = [admission EXCEPT ![i] = "bound"]

\* bind_admission, under the lock.
Bind(i) == admission' = [admission EXCEPT ![i] = IF i \in closed THEN "released" ELSE "bound"]

-----------------------------------------------------------------------------
(* TaskActorClient.                                                        *)

\* Mutant of Send: the channel has no bound.
Send_Unbounded(kind, i) ==
  queue' = Append(queue, [do |-> kind, op |-> i, wanted |-> kind = "pull"])

Send(kind, i) ==
  /\ Len(queue) < Capacity
  /\ queue' = Append(queue, [do |-> kind, op |-> i, wanted |-> kind = "pull"])

Goto(l) == wpc' = l /\ UNCHANGED wop

Invoke(i) ==
  /\ alive = "yes" /\ invocation[i] = "none" /\ wpc # "dead"
  /\ \A j \in 1..(i - 1) : invocation[j] # "none"
  /\ Send("invoke", i)
  /\ invocation' = [invocation EXCEPT ![i] = "waiting"]
  /\ UNCHANGED <<alive, wanted, doomed, expired, signalVars, tableVars, expiry, workerVars>>

\* The deadline passes, the future is dropped, or the worker is gone.
InvokeFails(i) ==
  /\ invocation[i] = "waiting"
  /\ invocation' = [invocation EXCEPT ![i] = "failed"]
  /\ UNCHANGED <<queue, alive, wanted, doomed, expired, signalVars, tableVars, expiry, workerVars>>

\* The invoker is polled after the reply was sent: it has the id.
InvokeReceives(i) ==
  /\ invocation[i] = "sent"
  /\ invocation' = [invocation EXCEPT ![i] = "open"]
  /\ UNCHANGED <<queue, alive, wanted, doomed, expired, signalVars, tableVars, expiry, workerVars>>

\* The invoker is dropped after the reply was sent: the id is lost with it.
\* (The deadline alone loses nothing: timeout_at polls the reply first.)
InvokeDropped(i) ==
  /\ invocation[i] = "sent"
  /\ invocation' = [invocation EXCEPT ![i] = "lost"]
  /\ UNCHANGED <<queue, alive, wanted, doomed, expired, signalVars, tableVars, expiry, workerVars>>

Pull(i) ==
  /\ alive = "yes" /\ invocation[i] = "open" /\ wpc # "dead"
  /\ Send("pull", i)
  /\ UNCHANGED <<clientVars, expired, signalVars, tableVars, expiry, workerVars>>

\* The deadline of a pull passes or its future is dropped, while the command is
\* in the channel or while it is served.
PullFails ==
  /\ \/ /\ \E k \in 1..Len(queue) :
             queue[k].wanted /\ queue' = [queue EXCEPT ![k].wanted = FALSE]
        /\ UNCHANGED wanted
     \/ wanted /\ wanted' = FALSE /\ UNCHANGED queue
  /\ UNCHANGED <<alive, invocation, doomed, expired, signalVars, tableVars, expiry, workerVars>>

\* close() of an operation through the client, or of the signal the caller
\* handed in.
Close(i) ==
  /\ \/ alive = "yes" /\ i \in live
     \/ invocation[i] # "none"
  /\ i \notin closed
  /\ Swap(i, "caller")
  /\ UNCHANGED <<queue, clientVars, expired, tableVars, expiry, workerVars>>

\* The futures of invoke and pull that are not finished borrow the client.
Borrowed ==
  \/ \E i \in Operations : invocation[i] \in {"waiting", "sent"}
  \/ wanted \/ \E k \in 1..Len(queue) : queue[k].wanted

\* Mutant of DropClient: only the worker is aborted.
DropClient_AbortsOnly ==
  /\ alive = "yes" /\ ~Borrowed
  /\ alive' = "dropping"
  /\ doomed' = {}
  /\ UNCHANGED <<queue, invocation, wanted, expired, signalVars, tableVars, expiry, workerVars>>

\* Drop: no call borrows the client any more.  The live signals are copied
\* out, closed one by one, and then the worker is aborted.
DropClient ==
  /\ alive = "yes" /\ ~Borrowed
  /\ alive' = "dropping"
  /\ doomed' = live
  /\ UNCHANGED <<queue, invocation, wanted, expired, signalVars, tableVars, expiry, workerVars>>

DropCloses(i) ==
  /\ alive = "dropping" /\ i \in doomed
  /\ \A j \in Operations : taking[j] # "drop"
  /\ Swap(i, "drop")
  /\ doomed' = doomed \ {i}
  /\ UNCHANGED <<queue, alive, invocation, wanted, expired, tableVars, expiry, workerVars>>

DropAborts ==
  /\ alive = "dropping" /\ doomed = {}
  /\ \A j \in Operations : taking[j] # "drop"
  /\ alive' = "gone"
  /\ UNCHANGED <<queue, invocation, wanted, doomed, expired, signalVars, tableVars, expiry, workerVars>>

-----------------------------------------------------------------------------
(* The expiry task of an operation.                                        *)

Expire(i) ==
  /\ i \notin expired /\ invocation[i] # "none"
  /\ expired' = expired \cup {i}
  /\ UNCHANGED <<queue, clientVars, signalVars, tableVars, expiry, workerVars>>

\* Mutant of ExpiryDeadline: it leaves the close to the worker.
ExpiryDeadline_Sends(i) ==
  /\ expiry[i] = "wait" /\ i \in expired
  /\ expiry' = [expiry EXCEPT ![i] = "send"]
  /\ UNCHANGED <<queue, clientVars, expired, signalVars, tableVars, workerVars>>

ExpiryDeadline(i) ==
  /\ expiry[i] = "wait" /\ i \in expired
  /\ Swap(i, "expiry")
  /\ expiry' = [expiry EXCEPT ![i] = "send"]
  /\ UNCHANGED <<queue, clientVars, expired, tableVars, workerVars>>

ExpiryClosed(i) ==
  /\ expiry[i] = "wait" /\ Notified(i)
  /\ expiry' = [expiry EXCEPT ![i] = "send"]
  /\ UNCHANGED <<queue, clientVars, expired, signalVars, tableVars, workerVars>>

ExpirySend(i) ==
  /\ expiry[i] = "send" /\ taking[i] # "expiry" /\ wpc # "dead"
  /\ Send("close", i)
  /\ expiry' = [expiry EXCEPT ![i] = "done"]
  /\ UNCHANGED <<clientVars, expired, signalVars, tableVars, workerVars>>

\* The channel is closed.
ExpiryEnds(i) ==
  /\ expiry[i] \in {"wait", "send"} /\ taking[i] # "expiry" /\ wpc = "dead"
  /\ expiry' = [expiry EXCEPT ![i] = "done"]
  /\ UNCHANGED <<queue, clientVars, expired, signalVars, tableVars, workerVars>>

-----------------------------------------------------------------------------
(* run_worker.                                                             *)

Receive ==
  /\ wpc = "recv" /\ queue # <<>>
  /\ wop' = Head(queue).op
  /\ wpc' = Head(queue).do
  /\ wanted' = Head(queue).wanted
  /\ queue' = Tail(queue)
  /\ UNCHANGED <<alive, invocation, doomed, expired, signalVars, tableVars, expiry>>

\* invoke_operation up to the first poll, where a closed signal wins.
InvokeStart ==
  /\ wpc = "invoke"
  /\ Goto(IF wop \in closed THEN "unavailable" ELSE "invokeGuest")
  /\ UNCHANGED <<queue, clientVars, expired, signalVars, tableVars, expiry>>

\* The guest answers with an operation that holds a slot of the ledger.
InvokeGuest ==
  /\ wpc = "invokeGuest"
  /\ Cardinality({i \in Operations : admission[i] \in {"held", "bound"}}) < MaxOpenOperations
  /\ admission' = [admission EXCEPT ![wop] = "held"]
  /\ Goto("bind")
  /\ UNCHANGED <<queue, clientVars, expired, closed, taking, tableVars, expiry>>

\* A guest call fails: an error of the Pack, or a fatal one.
GuestFails ==
  /\ wpc \in {"invokeGuest", "pullGuest"}
  /\ Goto("packError") \/ Goto("unavailable")
  /\ UNCHANGED <<queue, clientVars, expired, signalVars, tableVars, expiry>>

\* The select and the timeout cut a guest call short.
GuestCut ==
  /\ wpc \in {"invokeGuest", "pullGuest"}
  /\ Notified(wop) \/ wop \in expired
  /\ Goto("unavailable")
  /\ UNCHANGED <<queue, clientVars, expired, signalVars, tableVars, expiry>>

InvokeBind ==
  /\ wpc = "bind"
  /\ Bind(wop)
  /\ Goto("check")
  /\ UNCHANGED <<queue, clientVars, expired, closed, taking, tableVars, expiry>>

InvokeCheck ==
  /\ wpc = "check"
  /\ Goto(IF wop \in closed THEN "unavailable" ELSE "insert")
  /\ UNCHANGED <<queue, clientVars, expired, signalVars, tableVars, expiry>>

InvokeInsert ==
  /\ wpc = "insert"
  /\ operations' = operations \cup {wop}
  /\ live' = live \cup {wop}
  /\ expiry' = [expiry EXCEPT ![wop] = "wait"]
  /\ Goto("replyInvoke")
  /\ UNCHANGED <<queue, clientVars, expired, signalVars>>

\* Mutant of InvokeReply: the result of send is ignored.
InvokeReply_Ignored ==
  /\ wpc = "replyInvoke"
  /\ invocation' = [invocation EXCEPT ![wop] = IF @ = "waiting" THEN "sent" ELSE @]
  /\ Goto("next")
  /\ UNCHANGED <<queue, alive, wanted, doomed, expired, signalVars, tableVars, expiry>>

\* reply.send: a caller that has given up by now has its operation closed.
InvokeReply ==
  /\ wpc = "replyInvoke"
  /\ \/ /\ invocation[wop] = "waiting"
        /\ invocation' = [invocation EXCEPT ![wop] = "sent"]
        /\ Goto("next")
     \/ /\ invocation[wop] # "waiting"
        /\ UNCHANGED invocation
        /\ Goto("close")
  /\ UNCHANGED <<queue, alive, wanted, doomed, expired, signalVars, tableVars, expiry>>

PullStart ==
  /\ wpc = "pull"
  /\ Goto(IF wop \notin operations THEN "packError"
          ELSE IF wop \in closed THEN "unavailable" ELSE "pullGuest")
  /\ UNCHANGED <<queue, clientVars, expired, signalVars, tableVars, expiry>>

\* A pull that nobody waits for has its operation closed.  Whether a caller
\* that got a pull, or an error, has looked at it changes nothing here.
PullGuest ==
  /\ wpc = "pullGuest"
  /\ wanted' = FALSE
  /\ Goto(IF wanted THEN "next" ELSE "close")
  /\ UNCHANGED <<queue, alive, invocation, doomed, expired, signalVars, tableVars, expiry>>

\* An error is answered; Unavailable also ends the worker.
ReplyError ==
  /\ wpc \in {"packError", "unavailable"}
  /\ wanted' = FALSE
  /\ invocation' = [invocation EXCEPT ![wop] = IF @ = "waiting" THEN "failed" ELSE @]
  /\ Goto(IF wpc = "packError" THEN "next" ELSE "stop")
  /\ UNCHANGED <<queue, alive, doomed, expired, signalVars, tableVars, expiry>>

\* close_operation: out of the table, close, out of live, then the guest's
\* destructor; an operation that is closed already is left alone.
CloseOperation ==
  /\ wpc = "close"
  /\ IF wop \in operations
     THEN Swap(wop, "worker") /\ operations' = operations \ {wop} /\ Goto("unlist")
     ELSE Goto("next") /\ UNCHANGED <<signalVars, operations>>
  /\ UNCHANGED <<queue, clientVars, expired, live, expiry>>

CloseUnlist ==
  /\ wpc = "unlist" /\ taking[wop] # "worker"
  /\ live' = live \ {wop}
  /\ Goto("dropGuest")
  /\ UNCHANGED <<queue, clientVars, expired, signalVars, operations, expiry>>

CloseGuest ==
  /\ wpc = "dropGuest"
  /\ Goto("next") \/ Goto("stop")
  /\ UNCHANGED <<queue, clientVars, expired, signalVars, tableVars, expiry>>

\* actor.is_available(): a failed guest call may have disposed the Store.
NextCommand ==
  /\ wpc = "next"
  /\ wpc' \in {"recv", "stop"} /\ wop' = 0
  /\ UNCHANGED <<queue, clientVars, expired, signalVars, tableVars, expiry>>

StopCloses ==
  /\ wpc = "stop"
  /\ \A j \in Operations : taking[j] # "worker"
  /\ \E i \in operations : Swap(i, "worker") /\ operations' = operations \ {i}
  /\ UNCHANGED <<queue, clientVars, expired, live, expiry, workerVars>>

\* The loop is over; the receiver and the commands in it are dropped.
Stop ==
  /\ wpc = "stop" /\ operations = {}
  /\ \A j \in Operations : taking[j] # "worker"
  /\ live' = {} /\ queue' = <<>>
  /\ wpc' = "dead" /\ wop' = 0
  /\ UNCHANGED <<clientVars, expired, signalVars, operations, expiry>>

\* worker.abort() takes effect where the worker awaits.
Aborted ==
  /\ alive = "gone"
  /\ wpc \in {"recv", "invokeGuest", "pullGuest", "dropGuest"}
  /\ operations' = {} /\ live' = {} /\ queue' = <<>>
  /\ wpc' = "dead" /\ wop' = 0
  /\ wanted' = FALSE
  /\ UNCHANGED <<alive, invocation, doomed, expired, signalVars, expiry>>

-----------------------------------------------------------------------------
GuestAnswers == InvokeGuest \/ GuestFails \/ PullGuest \/ CloseGuest

WorkerRuns ==
  \/ Receive \/ InvokeStart \/ GuestCut \/ InvokeBind \/ InvokeCheck \/ InvokeInsert
  \/ InvokeReply \/ PullStart \/ ReplyError \/ CloseOperation \/ CloseUnlist
  \/ NextCommand \/ StopCloses \/ Stop \/ Aborted

ExpiryRuns(i) == ExpiryDeadline(i) \/ ExpiryClosed(i) \/ ExpirySend(i) \/ ExpiryEnds(i)

ClientActs(i) ==
  \/ Invoke(i) \/ InvokeFails(i) \/ InvokeReceives(i) \/ InvokeDropped(i)
  \/ Pull(i) \/ Close(i)

DropRuns == DropAborts \/ \E i \in Operations : DropCloses(i)

Next ==
  \/ GuestAnswers \/ WorkerRuns
  \/ \E i \in Operations : ClientActs(i) \/ Expire(i) \/ ExpiryRuns(i) \/ Take(i)
  \/ PullFails \/ DropClient \/ DropRuns

(* Time passes, and the runtime runs what it can run: the worker between   *)
(* two guest calls, the expiry tasks, and a close that has begun (there    *)
(* are finitely many steps of the last two, so that none is left out for   *)
(* ever).  Guests never have to answer, not even to be destroyed, and      *)
(* clients do as they like; nothing depends on the end of a Drop.          *)
Fairness ==
  /\ WF_vars(WorkerRuns)
  /\ WF_vars(\E i \in Operations : Expire(i))
  /\ WF_vars(\E i \in Operations : ExpiryRuns(i))
  /\ WF_vars(\E i \in Operations : Take(i))

Spec == Init /\ [][Next]_vars /\ Fairness

-----------------------------------------------------------------------------
TypeOK ==
  /\ queue \in Seq(Command) /\ Len(queue) <= Capacity
  /\ alive \in {"yes", "dropping", "gone"}
  /\ invocation \in [Operations -> {"none", "waiting", "sent", "open", "failed", "lost"}]
  /\ wanted \in BOOLEAN
  /\ expired \subseteq Operations /\ closed \subseteq Operations
  /\ taking \in [Operations -> Closers \cup {"nobody"}]
  /\ admission \in [Operations -> {"none", "held", "bound", "released"}]
  /\ operations \subseteq Operations /\ live \subseteq Operations
  /\ expiry \in [Operations -> {"none", "wait", "send", "done"}]
  /\ doomed \subseteq Operations
  /\ wpc \in {"recv", "invoke", "invokeGuest", "bind", "check", "insert", "replyInvoke",
              "pull", "pullGuest", "packError", "unavailable", "close", "unlist",
              "dropGuest", "next", "stop", "dead"}
  /\ wop \in Operations \cup {0}

(* A closed signal never keeps an admission: whichever of close and        *)
(* bind_admission comes second lets go of it.                              *)
ClosedHoldsNothing ==
  \A i \in Operations : i \in closed /\ admission[i] = "bound" => taking[i] # "nobody"

(* Once the worker has ended, by itself or aborted, no operation of it     *)
(* keeps an admission, except while a close of it is being completed.      *)
DeadHoldsNothing ==
  wpc = "dead" =>
    \A i \in Operations : admission[i] \in {"none", "released"} \/ taking[i] # "nobody"

(* Between two commands the worker keeps only operations whose id it sent  *)
(* to an invoker that still waited, clients can close all of them (live),  *)
(* and each is going to be closed: its expiry task waits for it or has its *)
(* close command in the channel.  The invoker may be dropped between the   *)
(* send and its next poll ("lost"); such an operation is kept, and it is   *)
(* the expiry task that ends it.                                           *)
CloseQueued(i) == \E k \in 1..Len(queue) : queue[k].do = "close" /\ queue[k].op = i

KeptIsReachable ==
  wpc = "recv" =>
    /\ live = operations
    /\ \A i \in operations :
         /\ invocation[i] \in {"sent", "open", "lost"} /\ admission[i] # "none"
         /\ expiry[i] \in {"wait", "send"} \/ CloseQueued(i)

(* The admission of an operation is released by its deadline even if the   *)
(* worker hangs in a guest: "close releases admission before asynchronous  *)
(* guest cleanup".                                                         *)
AdmissionReleased ==
  \A i \in Operations : admission[i] \in {"held", "bound"} ~> admission[i] = "released"
=============================================================================
