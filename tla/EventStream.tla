---------------------------- MODULE EventStream ----------------------------
(***************************************************************************)
(* The bounded event stream between a provider and the agent               *)
(* (crates/mcode-provider-api/src/stream.rs).                              *)
(*                                                                         *)
(* Clones of the sender share an asynchronous mutex that is held over the  *)
(* validation of an event, the wait for a permit of the channel, the claim *)
(* of the terminal and the send.  The receiver takes no lock: it polls the *)
(* channel, then the cancellation token, then the channel again, and makes *)
(* up the terminal that is missing.  Futures of both sides can be dropped  *)
(* where they wait.                                                        *)
(***************************************************************************)
EXTENDS Naturals, Sequences, FiniteSets

CONSTANTS
  Producers,   \* clones of the EventStreamSender
  Capacity,    \* EVENT_STREAM_CAPACITY
  MaxEvents    \* bound on the events sent

ASSUME StreamAssumption == Producers # {} /\ Capacity \in Nat \ {0} /\ MaxEvents \in Nat

VARIABLES
  clones,      \* the producers that still have their clone
  pc,          \* where the send future of each producer is
  event,       \* the event it sends
  holder,      \* the producers that hold the mutex
  claimed,     \* SenderState.terminal_claimed
  queue,       \* the channel
  receiver,    \* the EventStream: "open", "closed", "dropping" or "dropped"
  cancelled,   \* the request's cancellation token
  due,         \* history: how many events were sent when it was cancelled
  rpc,         \* where the next() future of the receiver is
  sent,        \* history: events sent with a permit, in order
  got          \* history: events that next() has returned

senderVars == <<clones, pc, event, holder>>
receiverVars == <<receiver, rpc, got>>
tokenVars == <<cancelled, due>>
vars == <<senderVars, claimed, queue, receiverVars, tokenVars, sent>>

(* Deltas, terminals (Done or Error), and what send puts in the place of   *)
(* an event that is too large or cannot be encoded.                        *)
Kinds == {"delta", "terminal", "protocol"}
Item == [by : Producers, kind : Kinds]
IsTerminal(e) == e.kind # "delta"
ByStream(k) == [by |-> "stream", kind |-> k]

Init ==
  /\ clones = Producers
  /\ pc = [p \in Producers |-> "idle"]
  /\ event = [p \in Producers |-> [by |-> p, kind |-> "delta"]]
  /\ holder = {}
  /\ claimed = FALSE
  /\ queue = <<>>
  /\ receiver = "open"
  /\ cancelled = FALSE
  /\ due = 0
  /\ rpc = "idle"
  /\ sent = <<>>
  /\ got = <<>>

-----------------------------------------------------------------------------
(* EventStreamSender.                                                      *)

Permits == {p \in Producers : pc[p] = "permit"}

Goto(p, l) == pc' = [pc EXCEPT ![p] = l]

\* send() is called; it waits for the mutex.
Send(p) ==
  /\ p \in clones /\ pc[p] = "idle" /\ Len(sent) < MaxEvents
  /\ \E k \in Kinds : event' = [event EXCEPT ![p] = [by |-> p, kind |-> k]]
  /\ Goto(p, "lock")
  /\ UNCHANGED <<clones, holder, claimed, queue, receiverVars, tokenVars, sent>>

\* Mutant of Lock: the terminal is claimed before there is a permit for it.
Lock_Claims(p) ==
  /\ pc[p] = "lock" /\ holder = {}
  /\ IF claimed \/ receiver \in {"closed", "dropped"}
     THEN Goto(p, "idle") /\ UNCHANGED <<holder, claimed>>
     ELSE /\ Goto(p, "reserve") /\ holder' = {p}
          /\ claimed' = IsTerminal(event[p])
  /\ UNCHANGED <<clones, event, queue, receiverVars, tokenVars, sent>>

\* Mutant of Lock: the claim is not looked at under the mutex.
Lock_Unchecked(p) ==
  /\ pc[p] = "lock" /\ holder = {}
  /\ Goto(p, "reserve") /\ holder' = {p}
  /\ UNCHANGED <<clones, event, claimed, queue, receiverVars, tokenVars, sent>>

\* The mutex is acquired: the early return, or validation.
Lock(p) ==
  /\ pc[p] = "lock" /\ holder = {}
  /\ IF claimed \/ receiver \in {"closed", "dropped"}
     THEN Goto(p, "idle") /\ UNCHANGED holder
     ELSE Goto(p, "reserve") /\ holder' = {p}
  /\ UNCHANGED <<clones, event, claimed, queue, receiverVars, tokenVars, sent>>

\* Mutant of Reserve: nothing waits for capacity.
Reserve_Unbounded(p) ==
  /\ pc[p] = "reserve"
  /\ Goto(p, "permit")
  /\ UNCHANGED <<clones, event, holder, claimed, queue, receiverVars, tokenVars, sent>>

\* reserve() gets a permit, or fails on a closed channel.
Reserve(p) ==
  /\ pc[p] = "reserve"
  /\ \/ /\ receiver \in {"open", "dropping"}
        /\ Len(queue) + Cardinality(Permits) < Capacity
        /\ Goto(p, "permit") /\ UNCHANGED holder
     \/ /\ receiver \in {"closed", "dropped"}
        /\ Goto(p, "idle") /\ holder' = {}
  /\ UNCHANGED <<clones, event, claimed, queue, receiverVars, tokenVars, sent>>

\* The claim and permit.send(), which succeeds even if the receiver has
\* closed the channel since.
Deliver(p) ==
  /\ pc[p] = "permit"
  /\ claimed' = (claimed \/ IsTerminal(event[p]))
  /\ queue' = Append(queue, event[p])
  /\ sent' = Append(sent, event[p])
  /\ Goto(p, "idle") /\ holder' = {}
  /\ UNCHANGED <<clones, event, receiverVars, tokenVars>>

\* Mutant of DropSend: the mutex is not released.
DropSend_KeepsLock(p) ==
  /\ pc[p] \in {"lock", "reserve"}
  /\ Goto(p, "idle")
  /\ UNCHANGED <<clones, event, holder, claimed, queue, receiverVars, tokenVars, sent>>

\* The send future is dropped where it waits.
DropSend(p) ==
  /\ pc[p] \in {"lock", "reserve"}
  /\ Goto(p, "idle") /\ holder' = holder \ {p}
  /\ UNCHANGED <<clones, event, claimed, queue, receiverVars, tokenVars, sent>>

DropClone(p) ==
  /\ p \in clones /\ pc[p] = "idle"
  /\ clones' = clones \ {p}
  /\ UNCHANGED <<pc, event, holder, claimed, queue, receiverVars, tokenVars, sent>>

Cancel ==
  /\ ~cancelled
  /\ cancelled' = TRUE /\ due' = Len(sent)
  /\ UNCHANGED <<senderVars, claimed, queue, receiverVars, sent>>

-----------------------------------------------------------------------------
(* EventStream.                                                            *)

\* accept(): a terminal also finishes the stream.
Take ==
  /\ queue # <<>>
  /\ got' = Append(got, Head(queue))
  /\ queue' = Tail(queue)
  /\ receiver' = IF IsTerminal(Head(queue)) THEN "closed" ELSE receiver
  /\ rpc' = "idle"

\* Mutant of TakeClosed: a disconnected channel is taken for an empty one.
TakeClosed_Never ==
  queue = <<>> /\ clones = {} /\ rpc' = "token" /\ UNCHANGED <<queue, receiver, got>>

\* synthesize() of closed_terminal().
TakeClosed ==
  /\ queue = <<>> /\ clones = {}
  /\ got' = Append(got, ByStream(IF cancelled THEN "cancelled" ELSE "abandoned"))
  /\ receiver' = "closed"
  /\ rpc' = "idle"
  /\ UNCHANGED queue

\* next() up to its first await: the try_recv before the poll.
NextTry ==
  /\ rpc = "idle" /\ receiver = "open"
  /\ \/ Take
     \/ TakeClosed
     \/ queue = <<>> /\ clones # {} /\ rpc' = "poll" /\ UNCHANGED <<queue, receiver, got>>
  /\ UNCHANGED <<senderVars, claimed, tokenVars, sent>>

\* poll_recv, at the first poll and when the task is woken.
NextPoll ==
  /\ \/ rpc = "poll"
     \/ rpc = "pending" /\ (queue # <<>> \/ clones = {} \/ cancelled)
  /\ \/ Take
     \/ TakeClosed
     \/ queue = <<>> /\ clones # {} /\ rpc' = "token" /\ UNCHANGED <<queue, receiver, got>>
  /\ UNCHANGED <<senderVars, claimed, tokenVars, sent>>

NextToken ==
  /\ rpc = "token"
  /\ rpc' = IF cancelled THEN "again" ELSE "pending"
  /\ UNCHANGED <<senderVars, claimed, queue, receiver, got, tokenVars, sent>>

\* Mutant of NextAgain: the cancellation wins over what came in meanwhile.
NextAgain_Skipped ==
  /\ rpc = "again"
  /\ rpc' = "finish"
  /\ UNCHANGED <<senderVars, claimed, queue, receiver, got, tokenVars, sent>>

\* Cancelled: the try_recv after it.
NextAgain ==
  /\ rpc = "again"
  /\ \/ Take
     \/ queue = <<>> /\ rpc' = "finish" /\ UNCHANGED <<queue, receiver, got>>
  /\ UNCHANGED <<senderVars, claimed, tokenVars, sent>>

NextFinish ==
  /\ rpc = "finish"
  /\ got' = Append(got, ByStream("cancelled"))
  /\ receiver' = "closed" /\ rpc' = "idle"
  /\ UNCHANGED <<senderVars, claimed, queue, tokenVars, sent>>

\* The next() future is dropped where it waits.
DropNext ==
  /\ rpc = "pending"
  /\ rpc' = "idle"
  /\ UNCHANGED <<senderVars, claimed, queue, receiver, got, tokenVars, sent>>

\* Drop of the EventStream: cancel the request, then close the channel and
\* drop what is in it.
DropStream ==
  /\ rpc = "idle" /\ receiver \in {"open", "closed"}
  /\ receiver' = IF receiver = "open" THEN "dropping" ELSE "dropped"
  /\ cancelled' = TRUE /\ due' = IF cancelled THEN due ELSE Len(sent)
  /\ UNCHANGED <<senderVars, claimed, queue, rpc, got, sent>>

DropCloses ==
  /\ receiver = "dropping"
  /\ receiver' = "dropped" /\ queue' = <<>>
  /\ UNCHANGED <<senderVars, claimed, rpc, got, tokenVars, sent>>

-----------------------------------------------------------------------------
SenderStep(p) == Lock(p) \/ Reserve(p) \/ Deliver(p)

Receive == NextTry \/ NextPoll \/ NextToken \/ NextAgain \/ NextFinish

Next ==
  \/ \E p \in Producers : Send(p) \/ SenderStep(p) \/ DropSend(p) \/ DropClone(p)
  \/ Receive \/ DropNext \/ DropStream \/ DropCloses \/ Cancel

(* A send future that is polled goes on when it can (the mutex and the     *)
(* semaphore of the channel are fair), and so does a stream that is being  *)
(* dropped; the consumer keeps calling next until its terminal, unless it  *)
(* drops the stream.                                                       *)
Fairness ==
  /\ \A p \in Producers : SF_vars(Lock(p)) /\ WF_vars(Reserve(p) \/ Deliver(p))
  /\ WF_vars(Receive)
  /\ WF_vars(DropCloses)

Spec == Init /\ [][Next]_vars /\ Fairness

-----------------------------------------------------------------------------
TypeOK ==
  /\ clones \subseteq Producers
  /\ pc \in [Producers -> {"idle", "lock", "reserve", "permit"}]
  /\ event \in [Producers -> Item]
  /\ holder \subseteq Producers
  /\ claimed \in BOOLEAN /\ cancelled \in BOOLEAN /\ due \in 0..Len(sent)
  /\ queue \in Seq(Item) /\ Len(queue) + Cardinality(Permits) <= Capacity
  /\ sent \in Seq(Item)
  /\ got \in Seq(Item \cup {ByStream("cancelled"), ByStream("abandoned")})
  /\ receiver \in {"open", "closed", "dropping", "dropped"}
  /\ rpc \in {"idle", "poll", "pending", "token", "again", "finish"}

(* A terminal is claimed exactly when it has been sent: a send future that *)
(* is dropped or refused while it waits "does not claim or lose a          *)
(* terminal", and the mutex is held by who is past it and nobody else.     *)
ClaimedIsSent ==
  /\ claimed <=> \E n \in 1..Len(sent) : IsTerminal(sent[n])
  /\ holder = {p \in Producers : pc[p] \in {"reserve", "permit"}}
  /\ Cardinality(holder) <= 1

(* A stream that ends by itself has handed out everything that producers   *)
(* were told was sent; when the request was cancelled, everything that was *)
(* sent by then: "queued events take precedence over cancellation".        *)
Owed == IF cancelled THEN due ELSE Len(sent)

NothingLost == receiver = "closed" => \A n \in 1..Owed : n <= Len(got) /\ got[n] = sent[n]

(* The consumer gets a prefix of what was sent and then one terminal.      *)
Stream == INSTANCE TerminalStream WITH
  Items <- Item,
  Terminals <- {e \in Item : IsTerminal(e)},
  Cancelled <- ByStream("cancelled"),
  Abandoned <- ByStream("abandoned"),
  gone <- clones = {}
ImplementsTerminalStream == Stream!TSpec

(* Producers that have all gone end the stream of a consumer that goes on  *)
(* reading, and a stream that is closed or dropped wakes every producer    *)
(* that waits.                                                             *)
GoneEnds == clones = {} ~> receiver # "open"
ClosedWakes == \A p \in Producers : receiver \in {"closed", "dropped"} /\ pc[p] # "idle" ~> pc[p] = "idle"
=============================================================================
