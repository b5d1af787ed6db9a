------------------------- MODULE AgentStream_proofs -------------------------
(***************************************************************************)
(* Proofs about the stream of a provider and about the agent's loop that   *)
(* reads one after the other: for every set of producers, every capacity   *)
(* and every bound on events, turns, messages, responses and calls.        *)
(***************************************************************************)
EXTENDS EventStream, AgentLoop, FiniteSetTheorems, SequenceTheorems, TLAPS

-----------------------------------------------------------------------------
(* EventStream.                                                            *)

Typed ==
  /\ clones \subseteq Producers
  /\ pc \in [Producers -> {"idle", "lock", "reserve", "permit"}]
  /\ event \in [Producers -> Item]
  /\ holder \subseteq Producers
  /\ claimed \in BOOLEAN /\ cancelled \in BOOLEAN /\ due \in Nat
  /\ queue \in Seq(Item)
  /\ sent \in Seq(Item)
  /\ got \in Seq(Item \cup {ByStream("cancelled"), ByStream("abandoned")})
  /\ receiver \in {"open", "closed", "dropping", "dropped"}
  /\ rpc \in {"idle", "poll", "pending", "token", "again", "finish"}

Bounded == Len(queue) + Cardinality(Permits) <= Capacity

\* The mutex: its holder is past the check, so that nothing is claimed while
\* it is held, and producers that send still have their clone.
Mutex ==
  /\ holder = {p \in Producers : pc[p] \in {"reserve", "permit"}}
  /\ \A p, q \in holder : p = q
  /\ holder # {} => ~claimed
  /\ \A p \in Producers : pc[p] # "idle" => p \in clones

\* A terminal is the last thing that was sent.
TerminalLast ==
  /\ claimed <=> \E n \in 1..Len(sent) : IsTerminal(sent[n])
  /\ \A n \in 1..Len(sent) : IsTerminal(sent[n]) => n = Len(sent)

\* The consumer is inside next() only of an open stream, and past the token
\* only when that is cancelled.
Reading ==
  /\ rpc # "idle" => receiver = "open"
  /\ rpc \in {"again", "finish"} => cancelled

\* What was received and what is in the channel is what was sent.
Aligned ==
  /\ Len(sent) = Len(got) + Len(queue)
  /\ \A n \in 1..Len(got) : got[n] = sent[n] /\ got[n] \in Item /\ ~IsTerminal(got[n])
  /\ \A n \in 1..Len(queue) : queue[n] = sent[Len(got) + n]

OpenAligned == receiver = "open" => Aligned

\* next() gives up only behind what was sent before the cancellation.
Fulfilled ==
  /\ due <= Len(sent)
  /\ rpc = "finish" => due <= Len(got)

\* A stream that ended by itself has nothing more to come that was sent before
\* the cancellation, if there is one.
Complete ==
  receiver = "closed" =>
    /\ cancelled \/ claimed \/ clones = {}
    /\ \A n \in 1..Owed : n <= Len(got) /\ got[n] = sent[n]

IInv ==
  Typed /\ Bounded /\ Mutex /\ TerminalLast /\ Reading /\ OpenAligned /\ Fulfilled /\ Complete

-----------------------------------------------------------------------------
\* channel() establishes the invariant.
LEMMA InitIInv == Init => IInv
<1> SUFFICES ASSUME Init PROVE IInv
  OBVIOUS
<1>0. Permits = {} /\ Cardinality({}) = 0
  BY FS_EmptySet DEF Init, Permits
<1>1. Typed
  <2>1. \A p \in Producers : [by |-> p, kind |-> "delta"] \in Item
    BY DEF Item, Kinds
  <2>2. event \in [Producers -> Item]
    BY <2>1 DEF Init
  <2>3. \A S : <<>> \in Seq(S)
    OBVIOUS
  <2>4. pc \in [Producers -> {"idle", "lock", "reserve", "permit"}]
    BY DEF Init
  <2> QED
    BY <2>2, <2>3, <2>4, Zenon DEF Init, Typed
<1>2. Bounded
  BY <1>0, StreamAssumption DEF Init, Bounded
<1> QED
  BY <1>1, <1>2 DEF Init, IInv, Mutex, TerminalLast, Reading, OpenAligned, Aligned, Fulfilled,
     Complete

\* Every step of senders and receiver keeps the types.
LEMMA StepTyped == ASSUME Typed, Next PROVE Typed'
<1> USE DEF Typed
<1>1. ASSUME NEW p \in Producers, Send(p) PROVE Typed'
  BY <1>1 DEF Send, tokenVars, Goto, receiverVars, Item
<1>2. ASSUME NEW p \in Producers, Lock(p) PROVE Typed'
  BY <1>2 DEF Lock, tokenVars, Goto, receiverVars
<1>3. ASSUME NEW p \in Producers, Reserve(p) PROVE Typed'
  BY <1>3 DEF Reserve, tokenVars, Goto, receiverVars
<1>4. ASSUME NEW p \in Producers, Deliver(p) PROVE Typed'
  BY <1>4 DEF Deliver, tokenVars, Goto, receiverVars, IsTerminal
<1>5. ASSUME NEW p \in Producers, DropSend(p) PROVE Typed'
  BY <1>5 DEF DropSend, tokenVars, Goto, receiverVars
<1>6. ASSUME NEW p \in Producers, DropClone(p) PROVE Typed'
  BY <1>6 DEF DropClone, tokenVars, receiverVars
<1>7. ASSUME Take PROVE /\ queue' \in Seq(Item) /\ receiver' \in {"open", "closed", "dropping", "dropped"}
                        /\ rpc' = "idle"
                        /\ got' \in Seq(Item \cup {ByStream("cancelled"), ByStream("abandoned")})
  BY <1>7 DEF Take
<1>8. ASSUME TakeClosed PROVE /\ queue' = queue /\ receiver' = "closed" /\ rpc' = "idle"
                              /\ got' \in Seq(Item \cup {ByStream("cancelled"), ByStream("abandoned")})
  BY <1>8 DEF TakeClosed
<1>9. CASE NextTry
  BY <1>7, <1>8, <1>9 DEF NextTry, tokenVars, senderVars
<1>10. CASE NextPoll
  BY <1>7, <1>8, <1>10 DEF NextPoll, tokenVars, senderVars
<1>11. CASE NextToken
  BY <1>11 DEF NextToken, tokenVars, senderVars
<1>12. CASE NextAgain
  BY <1>7, <1>12 DEF NextAgain, tokenVars, senderVars
<1>13. CASE NextFinish
  BY <1>13 DEF NextFinish, tokenVars, senderVars
<1>14. CASE DropNext
  BY <1>14 DEF DropNext, tokenVars, senderVars
<1>15. CASE DropStream
  BY <1>15 DEF DropStream, senderVars
<1>16. CASE DropCloses
  BY <1>16 DEF DropCloses, tokenVars, senderVars
<1>17. CASE Cancel
  BY <1>17 DEF Cancel, senderVars, receiverVars
<1> QED
  BY <1>1, <1>2, <1>3, <1>4, <1>5, <1>6, <1>9, <1>10, <1>11, <1>12, <1>13, <1>14, <1>15, <1>16, <1>17
     DEF Next, SenderStep, Receive

\* What the steps of the receiver leave alone.
LEMMA ReceiverFrame ==
  ASSUME Receive \/ DropNext \/ DropStream \/ DropCloses
  PROVE  UNCHANGED <<senderVars, claimed, sent>>
BY DEF Receive, NextTry, NextPoll, NextToken, NextAgain, NextFinish, DropNext, DropStream, DropCloses

\* A producer goes to l, and takes or drops the mutex with that.
LEMMA MutexGoto ==
  ASSUME Typed, Mutex, NEW p \in clones, NEW l \in {"idle", "lock", "reserve", "permit"},
         Goto(p, l), clones' = clones,
         IF l \in {"reserve", "permit"} THEN holder \subseteq {p} /\ holder' = {p} /\ ~claimed'
                                        ELSE holder' = holder \ {p} /\ (holder' # {} => claimed' = claimed)
  PROVE  Mutex'
<1> USE DEF Typed, Mutex
<1>1. \A q \in Producers : pc'[q] = IF q = p THEN l ELSE pc[q]
  BY DEF Goto
<1>2. holder' = {q \in Producers : pc'[q] \in {"reserve", "permit"}}
  <2>1. CASE l \in {"reserve", "permit"}
    BY <1>1, <2>1
  <2>2. CASE l \notin {"reserve", "permit"}
    BY <1>1, <2>2
  <2> QED
    BY <2>1, <2>2
<1>3. \A q \in Producers : pc'[q] # "idle" => q \in clones'
  BY <1>1
<1>4. /\ \A q, r \in holder' : q = r
      /\ holder' # {} => ~claimed'
  OBVIOUS
<1> QED
  BY <1>2, <1>3, <1>4, Zenon

\* Every step keeps the mutex with who is past it, and nobody else.
LEMMA StepMutex == ASSUME Typed, Mutex, Next PROVE Mutex'
<1>1. ASSUME NEW p \in Producers, Send(p) PROVE Mutex'
  <2>1. p \in clones /\ holder \ {p} = holder
    BY <1>1 DEF Send, Mutex
  <2> QED
    BY <1>1, <2>1, MutexGoto DEF Send
<1>2. ASSUME NEW p \in Producers, Lock(p) PROVE Mutex'
  <2>1. p \in clones /\ holder \ {p} = holder
    BY <1>2 DEF Lock, Mutex
  <2> QED
    BY <1>2, <2>1, MutexGoto DEF Lock
<1>3. ASSUME NEW p \in Producers, Reserve(p) PROVE Mutex'
  <2>1. p \in clones /\ holder = {p} /\ ~claimed
    BY <1>3 DEF Reserve, Mutex
  <2> QED
    BY <1>3, <2>1, MutexGoto DEF Reserve
<1>4. ASSUME NEW p \in Producers, Deliver(p) PROVE Mutex'
  <2>1. p \in clones /\ holder = {p}
    BY <1>4 DEF Deliver, Mutex
  <2> QED
    BY <1>4, <2>1, MutexGoto DEF Deliver
<1>5. ASSUME NEW p \in Producers, DropSend(p) PROVE Mutex'
  <2>1. p \in clones
    BY <1>5 DEF DropSend, Mutex
  <2> QED
    BY <1>5, <2>1, MutexGoto DEF DropSend
<1>6. ASSUME NEW p \in Producers, DropClone(p) PROVE Mutex'
  BY <1>6 DEF DropClone, receiverVars, Typed, Mutex
<1>7. CASE Receive \/ DropNext \/ DropStream \/ DropCloses
  BY <1>7, ReceiverFrame DEF senderVars, Mutex
<1>8. CASE Cancel
  BY <1>8 DEF Cancel, senderVars, Mutex
<1> QED
  BY <1>1, <1>2, <1>3, <1>4, <1>5, <1>6, <1>7, <1>8 DEF Next, SenderStep

\* At most one producer holds a permit, and it holds the mutex.
LEMMA PermitCount ==
  ASSUME Typed, Mutex
  PROVE  /\ Permits = {} \/ \E p \in Producers : Permits = {p}
         /\ Cardinality({}) = 0 /\ \A p \in Producers : Cardinality({p}) = 1
         /\ Cardinality(Permits) \in {0, 1}
<1>1. Permits = {} \/ \E p \in Producers : Permits = {p}
  BY DEF Permits, Mutex
<1>2. Cardinality({}) = 0 /\ \A p \in Producers : Cardinality({p}) = 1
  BY FS_EmptySet, FS_Singleton
<1> QED
  BY <1>1, <1>2

\* The channel and the permits given out for it stay within its capacity.
LEMMA StepBounded == ASSUME Typed, Mutex, Bounded, Next PROVE Bounded'
<1> USE StreamAssumption DEF Typed, Bounded
<1>0. Mutex' /\ Typed'
  BY StepMutex, StepTyped
<1>1. ASSUME NEW p \in Producers, Send(p) \/ Lock(p) \/ DropSend(p) \/ DropClone(p) PROVE Bounded'
  <2>1. Permits' = Permits
    BY <1>1 DEF Send, Lock, DropSend, DropClone, Goto, Permits
  <2> QED
    BY <1>1, <2>1 DEF Send, Lock, DropSend, DropClone
<1>3. ASSUME NEW p \in Producers, Reserve(p) PROVE Bounded'
  <2>1. CASE pc' = [pc EXCEPT ![p] = "permit"]
    <3>1. Permits = {} /\ Permits' = {p}
      BY <1>3, <2>1 DEF Reserve, Mutex, Permits
    <3>2. Len(queue) + Cardinality(Permits) < Capacity /\ queue' = queue
      BY <1>3, <2>1 DEF Reserve, Goto
    <3> QED
      BY <3>1, <3>2, PermitCount
  <2>2. CASE pc' = [pc EXCEPT ![p] = "idle"]
    <3>1. Permits' = Permits
      BY <1>3, <2>2 DEF Reserve, Permits
    <3> QED
      BY <1>3, <3>1 DEF Reserve
  <2> QED
    BY <1>3, <2>1, <2>2 DEF Reserve, Goto
<1>4. ASSUME NEW p \in Producers, Deliver(p) PROVE Bounded'
  <2>1. Permits = {p} /\ Permits' = {}
    BY <1>4 DEF Deliver, Goto, Mutex, Permits
  <2>2. Len(queue') = Len(queue) + 1
    BY <1>4 DEF Deliver
  <2> QED
    BY <2>1, <2>2, PermitCount
<1>5. CASE Receive \/ DropNext \/ DropStream \/ DropCloses
  <2>1. Permits' = Permits
    BY <1>5, ReceiverFrame DEF senderVars, Permits
  <2>2. Len(queue') <= Len(queue)
    BY <1>5 DEF Receive, NextTry, NextPoll, NextToken, NextAgain, NextFinish, DropNext, DropStream,
                DropCloses, Take, TakeClosed
  <2> QED
    BY <2>1, <2>2, <1>0, PermitCount
<1>6. CASE Cancel
  BY <1>6 DEF Cancel, senderVars, Permits
<1> QED
  BY <1>1, <1>3, <1>4, <1>5, <1>6 DEF Next, SenderStep

\* Who has a permit holds the mutex, so that nothing is claimed before it sends.
LEMMA DeliverFresh ==
  ASSUME Typed, Mutex, NEW p \in Producers, Deliver(p)
  PROVE  ~claimed /\ clones # {} /\ event[p] \in Item
BY DEF Typed, Mutex, Deliver

\* Nothing is sent behind a terminal.
LEMMA StepTerminalLast == ASSUME Typed, Mutex, TerminalLast, Next PROVE TerminalLast'
<1>1. ASSUME NEW p \in Producers, Deliver(p) PROVE TerminalLast'
  <2>1. ~claimed /\ event[p] \in Item /\ sent \in Seq(Item)
    BY <1>1, DeliverFresh DEF Typed
  <2>2. \A n \in 1..Len(sent) : ~IsTerminal(sent[n])
    BY <2>1 DEF TerminalLast
  <2>3. /\ sent' = Append(sent, event[p])
        /\ claimed' = (claimed \/ IsTerminal(event[p]))
    BY <1>1 DEF Deliver
  <2>4. /\ Len(sent') = Len(sent) + 1 /\ Len(sent) \in Nat
        /\ \A n \in 1..Len(sent) : sent'[n] = sent[n]
        /\ sent'[Len(sent) + 1] = event[p]
    BY <2>1, <2>3
  <2>5. \A n \in 1..Len(sent) + 1 : IsTerminal(sent'[n]) <=> n = Len(sent) + 1 /\ IsTerminal(event[p])
    BY <2>2, <2>4 DEF IsTerminal
  <2>6. claimed' <=> IsTerminal(event[p])
    BY <2>1, <2>3
  <2> QED
    BY <2>4, <2>5, <2>6 DEF TerminalLast
<1>2. ASSUME sent' = sent, claimed' = claimed PROVE TerminalLast'
  BY <1>2 DEF TerminalLast
<1>3. ASSUME NEW p \in Producers, Send(p) \/ Lock(p) \/ Reserve(p) \/ DropSend(p) \/ DropClone(p)
      PROVE  sent' = sent /\ claimed' = claimed
  BY <1>3 DEF Send, Lock, Reserve, DropSend, DropClone
<1>4. Receive \/ DropNext \/ DropStream \/ DropCloses => sent' = sent /\ claimed' = claimed
  BY ReceiverFrame
<1>5. Cancel => sent' = sent /\ claimed' = claimed
  BY DEF Cancel
<1> QED
  BY <1>1, <1>2, <1>3, <1>4, <1>5 DEF Next, SenderStep

\* What the steps of the producers leave alone.
LEMMA SenderFrame ==
  ASSUME NEW p \in Producers, Send(p) \/ SenderStep(p) \/ DropSend(p) \/ DropClone(p)
  PROVE  UNCHANGED <<receiver, rpc, got, cancelled, due>>
BY DEF SenderStep, Send, Lock, Reserve, Deliver, DropSend, DropClone, receiverVars, tokenVars

\* next() runs on an open stream, and finishes it only when it is cancelled.
LEMMA StepReading == ASSUME Typed, Reading, Next PROVE Reading'
<1> USE DEF Reading
<1>1. ASSUME NEW p \in Producers, Send(p) \/ SenderStep(p) \/ DropSend(p) \/ DropClone(p) PROVE Reading'
  BY <1>1, SenderFrame
<1>2. CASE NextTry
  BY <1>2 DEF NextTry, Take, TakeClosed, tokenVars
<1>3. CASE NextPoll
  BY <1>3 DEF NextPoll, Take, TakeClosed, tokenVars
<1>4. CASE NextToken
  BY <1>4 DEF NextToken, tokenVars
<1>5. CASE NextAgain
  BY <1>5 DEF NextAgain, Take, tokenVars
<1>6. CASE NextFinish
  BY <1>6 DEF NextFinish, tokenVars
<1>7. CASE DropNext \/ DropStream \/ DropCloses \/ Cancel
  BY <1>7 DEF DropNext, DropStream, DropCloses, Cancel, receiverVars, tokenVars
<1> QED
  BY <1>1, <1>2, <1>3, <1>4, <1>5, <1>6, <1>7 DEF Next, Receive

\* An open stream takes the next of the events that were sent.
LEMMA TakeNext ==
  ASSUME Typed, Aligned, Take
  PROVE  /\ Len(got) \in Nat /\ Len(got) < Len(sent)
         /\ Head(queue) = sent[Len(got) + 1] /\ Head(queue) \in Item
         /\ got' = Append(got, sent[Len(got) + 1])
         /\ Len(got') = Len(got) + 1
         /\ \A n \in 1..Len(got) : got'[n] = sent[n]
         /\ got'[Len(got) + 1] = sent[Len(got) + 1]
         /\ Len(queue') = Len(queue) - 1
         /\ \A n \in 1..Len(queue') : queue'[n] = sent[Len(got') + n]
<1> USE DEF Typed
<1>1. /\ queue \in Seq(Item) /\ queue # <<>> /\ Len(queue) \in Nat /\ Len(queue) >= 1
      /\ Len(got) \in Nat /\ Len(sent) \in Nat
  BY DEF Take
<1>2. Head(queue) = queue[1] /\ queue[1] \in Item
  BY <1>1
<1>3. Len(got) < Len(sent) /\ queue[1] = sent[Len(got) + 1]
  <2>1. Len(sent) = Len(got) + Len(queue) /\ \A n \in 1..Len(queue) : queue[n] = sent[Len(got) + n]
    BY DEF Aligned
  <2>2. 1 \in 1..Len(queue)
    BY <1>1
  <2> HIDE DEF Typed
  <2> QED
    BY <1>1, <2>1, <2>2
<1>4. got' = Append(got, sent[Len(got) + 1])
  BY <1>2, <1>3 DEF Take
<1>5. /\ Len(got') = Len(got) + 1
      /\ \A n \in 1..Len(got) : got'[n] = got[n]
      /\ got'[Len(got) + 1] = sent[Len(got) + 1]
  <2>1. sent[Len(got) + 1] \in Item
    BY <1>2, <1>3
  <2> QED
    BY <1>4, <2>1
<1>6. \A n \in 1..Len(got) : got'[n] = sent[n]
  BY <1>5 DEF Aligned
<1>7. /\ Len(queue') = Len(queue) - 1
      /\ \A n \in 1..Len(queue') : queue'[n] = queue[n + 1]
  BY <1>1 DEF Take
<1>8. ASSUME NEW n \in 1..Len(queue') PROVE queue'[n] = sent[Len(got') + n]
  <2>1. n + 1 \in 1..Len(queue) /\ n \in Nat
    BY <1>1, <1>7
  <2>2. queue[n + 1] = sent[Len(got) + (n + 1)]
    BY <2>1 DEF Aligned
  <2>3. Len(got) + (n + 1) = Len(got') + n
    BY <1>1, <1>5, <2>1
  <2> QED
    BY <1>7, <2>2, <2>3
<1> QED
  BY <1>1, <1>2, <1>3, <1>4, <1>5, <1>6, <1>7, <1>8

\* Taking an event that is no terminal leaves the rest of them aligned.
LEMMA TakeAligned ==
  ASSUME Typed, Aligned, Take, sent' = sent, ~IsTerminal(Head(queue))
  PROVE  Aligned'
<1>1. /\ Len(got) \in Nat /\ Len(queue) \in Nat /\ Len(sent) \in Nat
      /\ Len(sent) = Len(got) + Len(queue)
  BY DEF Typed, Aligned
<1>2. Len(sent') = Len(got') + Len(queue')
  BY <1>1, TakeNext
<1>3. ASSUME NEW n \in 1..Len(got')
      PROVE  got'[n] = sent'[n] /\ got'[n] \in Item /\ ~IsTerminal(got'[n])
  <2>1. CASE n \in 1..Len(got)
    <3>1. got'[n] = sent[n] /\ got[n] = sent[n] /\ got[n] \in Item /\ ~IsTerminal(got[n])
      BY <2>1, TakeNext DEF Aligned
    <3> QED
      BY <3>1
  <2>2. CASE n = Len(got) + 1
    <3>1. got'[n] = Head(queue) /\ Head(queue) = sent[n] /\ Head(queue) \in Item
      BY <2>2, TakeNext
    <3> QED
      BY <3>1
  <2>3. n \in 1..Len(got) \/ n = Len(got) + 1
    BY <1>1, TakeNext
  <2> QED
    BY <2>1, <2>2, <2>3
<1> QED
  BY <1>2, <1>3, TakeNext DEF Aligned

\* What is sent goes to the end of both the channel and the history.
LEMMA DeliverAligned ==
  ASSUME Typed, Mutex, Aligned, NEW p \in Producers, Deliver(p)
  PROVE  Aligned'
<1>1. /\ event[p] \in Item /\ got' = got
      /\ Len(got) \in Nat /\ Len(queue) \in Nat /\ Len(sent) = Len(got) + Len(queue)
  BY DeliverFresh DEF Typed, Aligned, Deliver, receiverVars
<1>2. /\ Len(sent') = Len(sent) + 1 /\ \A n \in 1..Len(sent) : sent'[n] = sent[n]
      /\ sent'[Len(sent) + 1] = event[p]
  <2>1. sent' = Append(sent, event[p]) /\ sent \in Seq(Item)
    BY DEF Deliver, Typed
  <2> QED
    BY <1>1, <2>1
<1>3. /\ Len(queue') = Len(queue) + 1 /\ \A n \in 1..Len(queue) : queue'[n] = queue[n]
      /\ queue'[Len(queue) + 1] = event[p]
  BY <1>1 DEF Deliver, Typed
<1>4. Len(sent') = Len(got') + Len(queue')
  BY <1>1, <1>2, <1>3
<1>5. ASSUME NEW n \in 1..Len(got)
      PROVE  got[n] = sent'[n] /\ got[n] \in Item /\ ~IsTerminal(got[n])
  BY <1>1, <1>2 DEF Aligned
<1>6. ASSUME NEW n \in 1..Len(queue') PROVE queue'[n] = sent'[Len(got) + n]
  <2>1. CASE n \in 1..Len(queue)
    <3>1. Len(got) + n \in 1..Len(sent) /\ queue[n] = sent[Len(got) + n]
      BY <1>1, <2>1 DEF Aligned
    <3> QED
      BY <1>2, <1>3, <2>1, <3>1
  <2>2. CASE n = Len(queue) + 1
    <3>1. Len(got) + n = Len(sent) + 1
      BY <1>1, <2>2
    <3> QED
      BY <1>2, <1>3, <2>2, <3>1
  <2>3. n \in 1..Len(queue) \/ n = Len(queue) + 1
    BY <1>1, <1>3
  <2> QED
    BY <2>1, <2>2, <2>3
<1> QED
  BY <1>1, <1>4, <1>5, <1>6 DEF Aligned

\* The consumer of an open stream has a prefix of what was sent, and the
\* channel the rest.
LEMMA StepOpenAligned == ASSUME Typed, Mutex, Reading, OpenAligned, Next PROVE OpenAligned'
<1>1. ASSUME UNCHANGED <<queue, sent, got>>, receiver' = "open" => receiver = "open"
      PROVE  OpenAligned'
  BY <1>1 DEF OpenAligned, Aligned
<1>2. ASSUME Take, sent' = sent, receiver = "open" PROVE OpenAligned'
  <2>1. CASE IsTerminal(Head(queue))
    BY <1>2, <2>1 DEF Take, OpenAligned
  <2>2. CASE ~IsTerminal(Head(queue))
    BY <1>2, <2>2, TakeAligned DEF OpenAligned
  <2> QED
    BY <2>1, <2>2
<1>3. TakeClosed => OpenAligned'
  BY DEF TakeClosed, OpenAligned
<1>4. ASSUME NEW p \in Producers, Deliver(p) PROVE OpenAligned'
  BY <1>4, DeliverAligned DEF OpenAligned, Deliver, receiverVars
<1>5. ASSUME NEW p \in Producers, Send(p) \/ Lock(p) \/ Reserve(p) \/ DropSend(p) \/ DropClone(p)
      PROVE  OpenAligned'
  BY <1>1, <1>5 DEF Send, Lock, Reserve, DropSend, DropClone, receiverVars
<1>6. CASE NextTry \/ NextPoll \/ NextAgain
  <2>1. sent' = sent /\ receiver = "open"
    BY <1>6 DEF NextTry, NextPoll, NextAgain, Reading
  <2>2. Take \/ TakeClosed \/ UNCHANGED <<queue, receiver, got>>
    BY <1>6 DEF NextTry, NextPoll, NextAgain
  <2> QED
    BY <1>1, <1>2, <1>3, <2>1, <2>2
<1>7. CASE NextToken \/ DropNext \/ Cancel \/ DropStream
  BY <1>1, <1>7 DEF NextToken, DropNext, Cancel, DropStream, receiverVars
<1>8. CASE NextFinish \/ DropCloses
  BY <1>8 DEF NextFinish, DropCloses, OpenAligned
<1> QED
  BY <1>4, <1>5, <1>6, <1>7, <1>8 DEF Next, SenderStep, Receive

\* When next() gives up, the channel was empty after the cancellation.
LEMMA StepFulfilled == ASSUME Typed, Reading, OpenAligned, Fulfilled, Next PROVE Fulfilled'
<1> USE DEF Fulfilled
<1>1. ASSUME UNCHANGED <<due, sent, got>>, rpc' = "finish" => rpc = "finish" PROVE Fulfilled'
  BY <1>1
<1>2. ASSUME UNCHANGED <<due, sent>>, rpc' # "finish" PROVE Fulfilled'
  BY <1>2
<1>3. ASSUME NEW p \in Producers, Deliver(p) PROVE Fulfilled'
  <2>1. Len(sent') = Len(sent) + 1 /\ Len(sent) \in Nat
    BY <1>3 DEF Deliver, Typed
  <2> QED
    BY <1>3, <2>1 DEF Deliver, receiverVars, tokenVars, Typed
<1>4. ASSUME NEW p \in Producers, Send(p) \/ Lock(p) \/ Reserve(p) \/ DropSend(p) \/ DropClone(p)
      PROVE  Fulfilled'
  BY <1>1, <1>4 DEF Send, Lock, Reserve, DropSend, DropClone, receiverVars, tokenVars
<1>5. CASE NextTry \/ NextPoll \/ NextToken \/ NextFinish
  BY <1>2, <1>5 DEF NextTry, NextPoll, NextToken, NextFinish, Take, TakeClosed, tokenVars
<1>6. CASE NextAgain
  <2>1. UNCHANGED <<due, sent>> /\ rpc = "again"
    BY <1>6 DEF NextAgain, tokenVars
  <2>2. CASE Take
    BY <1>2, <2>1, <2>2 DEF Take
  <2>3. CASE queue = <<>> /\ UNCHANGED got
    <3>1. Aligned /\ Len(queue) = 0 /\ Len(got) \in Nat
      BY <2>1, <2>3 DEF Reading, OpenAligned, Typed
    <3>2. Len(sent) = Len(got)
      BY <3>1 DEF Aligned
    <3> QED
      BY <2>1, <2>3, <3>2
  <2> QED
    BY <1>6, <2>2, <2>3 DEF NextAgain
<1>7. CASE Cancel
  BY <1>7 DEF Cancel, receiverVars, Reading, Typed
<1>8. CASE DropStream
  BY <1>8 DEF DropStream, Typed
<1>9. CASE DropNext \/ DropCloses
  BY <1>1, <1>9 DEF DropNext, DropCloses, tokenVars
<1> QED
  BY <1>3, <1>4, <1>5, <1>6, <1>7, <1>8, <1>9 DEF Next, SenderStep, Receive

\* An open stream that ends with all that was sent has handed out what it owes.
LEMMA AllIsOwed ==
  ASSUME Typed, Fulfilled, UNCHANGED <<cancelled, due, sent>>,
         \A n \in 1..Len(sent) : n <= Len(got') /\ got'[n] = sent[n]
  PROVE  \A n \in 1..Owed' : n <= Len(got') /\ got'[n] = sent'[n]
<1>1. Owed' <= Len(sent) /\ Owed' \in Nat /\ Len(sent) \in Nat
  BY DEF Typed, Fulfilled, Owed
<1> QED
  BY <1>1

\* A stream ends by itself behind the last event there is, or behind those that
\* were sent before the cancellation.
LEMMA StepComplete ==
  ASSUME Typed, Mutex, TerminalLast, Reading, OpenAligned, Fulfilled, Complete, Next
  PROVE  Complete'
<1> USE DEF Complete
<1>1. ASSUME UNCHANGED <<sent, got, cancelled, due>>, receiver' = "closed" => receiver = "closed",
             claimed => claimed', clones' \subseteq clones
      PROVE  Complete'
  BY <1>1 DEF Typed, Owed
<1>2. ASSUME Take, UNCHANGED <<sent, cancelled, due, claimed>>, receiver = "open" PROVE Complete'
  <2>1. CASE IsTerminal(Head(queue))
    <3>1. Aligned
      BY <1>2 DEF OpenAligned
    <3>2. IsTerminal(sent[Len(got) + 1]) /\ Len(got) + 1 \in 1..Len(sent)
      BY <1>2, <2>1, <3>1, TakeNext DEF Typed
    <3>3. claimed /\ Len(sent) = Len(got) + 1
      BY <3>2 DEF TerminalLast
    <3>4. \A n \in 1..Len(sent) : n <= Len(got') /\ got'[n] = sent[n]
      BY <1>2, <3>1, <3>3, TakeNext
    <3> QED
      BY <1>2, <3>3, <3>4, AllIsOwed
  <2>2. CASE ~IsTerminal(Head(queue))
    BY <1>2, <2>2 DEF Take
  <2> QED
    BY <2>1, <2>2
<1>3. ASSUME TakeClosed, UNCHANGED <<clones, sent, cancelled, due>>, receiver = "open"
      PROVE  Complete'
  <2>1. Aligned /\ Len(queue) = 0 /\ Len(got) \in Nat
    BY <1>3 DEF OpenAligned, TakeClosed, Typed
  <2>2. Len(sent) = Len(got) /\ \A n \in 1..Len(got) : got[n] = sent[n]
    BY <2>1 DEF Aligned
  <2>3. /\ Len(got') = Len(got) + 1
        /\ \A n \in 1..Len(got) : got'[n] = got[n]
    BY <1>3 DEF TakeClosed, Typed
  <2>4. clones' = {}
    BY <1>3 DEF TakeClosed
  <2>5. \A n \in 1..Len(sent) : n <= Len(got') /\ got'[n] = sent[n]
    BY <1>3, <2>1, <2>2, <2>3
  <2> QED
    BY <1>3, <2>4, <2>5, AllIsOwed
<1>4. ASSUME NEW p \in Producers, Deliver(p) PROVE Complete'
  <2>1. ~claimed /\ clones # {}
    BY <1>4, DeliverFresh
  <2>2. UNCHANGED <<receiver, cancelled, due, got>> /\ sent' = Append(sent, event[p])
        /\ event[p] \in Item /\ sent \in Seq(Item)
    BY <1>4, DeliverFresh DEF Deliver, receiverVars, tokenVars, Typed
  <2>3. \A n \in 1..Len(sent) : sent'[n] = sent[n]
    BY <2>2
  <2>4. CASE cancelled /\ receiver = "closed"
    <3>1. due \in Nat /\ due <= Len(sent) /\ Len(sent) \in Nat
      BY <2>2 DEF Fulfilled, Typed
    <3>2. \A n \in 1..due : n <= Len(got) /\ got[n] = sent[n]
      BY <2>4 DEF Owed
    <3>3. \A n \in 1..due : n <= Len(got') /\ got'[n] = sent'[n]
      BY <2>2, <2>3, <3>1, <3>2
    <3>4. Owed' = due
      BY <2>2, <2>4 DEF Owed
    <3> QED
      BY <2>2, <2>4, <3>3, <3>4
  <2> QED
    BY <2>1, <2>2, <2>4
<1>5. ASSUME NEW p \in Producers, Send(p) \/ Lock(p) \/ Reserve(p) \/ DropSend(p) \/ DropClone(p)
      PROVE  Complete'
  BY <1>1, <1>5 DEF Send, Lock, Reserve, DropSend, DropClone, receiverVars, tokenVars
<1>6. CASE NextTry \/ NextPoll \/ NextAgain
  <2>1. UNCHANGED <<sent, claimed, clones, cancelled, due>> /\ receiver = "open"
    BY <1>6 DEF NextTry, NextPoll, NextAgain, Reading, senderVars, tokenVars
  <2>2. Take \/ TakeClosed \/ UNCHANGED <<queue, receiver, got>>
    BY <1>6 DEF NextTry, NextPoll, NextAgain
  <2> QED
    BY <1>1, <1>2, <1>3, <2>1, <2>2
<1>7. CASE NextToken \/ DropNext
  BY <1>1, <1>7 DEF NextToken, DropNext, receiverVars, senderVars, tokenVars
<1>8. CASE NextFinish
  <2>1. Aligned /\ cancelled /\ due \in Nat /\ due <= Len(got) /\ Len(got) \in Nat
    BY <1>8 DEF NextFinish, Reading, OpenAligned, Fulfilled, Typed
  <2>2. UNCHANGED <<sent, cancelled, due>>
    BY <1>8 DEF NextFinish, tokenVars
  <2>3. Len(got') = Len(got) + 1 /\ \A n \in 1..Len(got) : got'[n] = got[n]
    BY <1>8 DEF NextFinish, Typed
  <2>4. \A n \in 1..due : n \in 1..Len(got) /\ got[n] = sent[n]
    BY <2>1 DEF Aligned
  <2>5. \A n \in 1..due : n <= Len(got') /\ got'[n] = sent[n]
    BY <2>1, <2>3, <2>4
  <2>6. Owed' = due
    BY <2>1, <2>2 DEF Owed
  <2> QED
    BY <2>1, <2>2, <2>5, <2>6
<1>9. CASE DropCloses \/ DropStream
  BY <1>9 DEF DropCloses, DropStream
<1>10. CASE Cancel
  BY <1>10 DEF Cancel, senderVars, receiverVars, Owed
<1> QED
  BY <1>4, <1>5, <1>6, <1>7, <1>8, <1>9, <1>10 DEF Next, SenderStep, Receive

\* A step of anything else than the stream keeps the invariant.
LEMMA StutterIInv == ASSUME IInv, UNCHANGED vars PROVE IInv'
<1> USE DEF vars, senderVars, receiverVars, tokenVars
<1>1. Typed'
  BY DEF IInv, Typed
<1>2. Permits' = Permits
  BY DEF Permits
<1>3. Bounded' /\ Mutex'
  BY <1>2 DEF IInv, Bounded, Mutex
<1>4. TerminalLast' /\ Reading' /\ OpenAligned' /\ Fulfilled' /\ Complete'
  BY DEF IInv, TerminalLast, Reading, OpenAligned, Aligned, Fulfilled, Complete, Owed
<1> QED
  BY <1>1, <1>3, <1>4 DEF IInv

\* Every step of every side keeps the mutex, the order and the completeness of
\* what is handed out (stream.rs, send, next and drop).
THEOREM InductiveInvariant == Spec => []IInv
<1>1. ASSUME IInv, [Next]_vars PROVE IInv'
  <2>1. CASE Next
    BY <1>1, <2>1, StepTyped, StepBounded, StepMutex, StepTerminalLast, StepReading, StepOpenAligned,
       StepFulfilled, StepComplete DEF IInv
  <2>2. CASE UNCHANGED vars
    BY <1>1, <2>2, StutterIInv
  <2> QED
    BY <1>1, <2>1, <2>2
<1> QED
  BY <1>1, InitIInv, PTL DEF Spec

\* The types, and the bound on the channel and the permits given out for it.
THEOREM TypeCorrect == Spec => []TypeOK
<1>1. ASSUME IInv PROVE TypeOK
  <2>1. due \in 0..Len(sent)
    BY <1>1 DEF IInv, Typed, Fulfilled
  <2> QED
    BY <1>1, <2>1 DEF IInv, Typed, Bounded, TypeOK
<1> QED
  BY <1>1, InductiveInvariant, PTL

\* send() claims the terminal when it has a permit for it, never before, and
\* one producer at a time is past the check.
THEOREM ClaimCorrect == Spec => []ClaimedIsSent
<1>1. ASSUME IInv PROVE ClaimedIsSent
  <2>1. CASE holder = {}
    BY <2>1, <1>1, FS_EmptySet DEF IInv, Mutex, TerminalLast, ClaimedIsSent
  <2>2. ASSUME NEW p \in holder PROVE ClaimedIsSent
    <3>1. holder = {p}
      BY <1>1, <2>2 DEF IInv, Mutex
    <3>2. Cardinality({p}) = 1
      BY FS_Singleton
    <3>3. Cardinality(holder) <= 1
      BY <3>1, <3>2
    <3> QED
      BY <1>1, <3>3, Zenon DEF IInv, Mutex, TerminalLast, ClaimedIsSent
  <2> QED
    BY <2>1, <2>2
<1> QED
  BY <1>1, InductiveInvariant, PTL

\* A stream that next() ended has handed out all that producers were told was
\* sent, up to the cancellation if there is one.
THEOREM LossFree == Spec => []NothingLost
<1>1. IInv => NothingLost
  BY DEF IInv, Complete, NothingLost
<1> QED
  BY <1>1, InductiveInvariant, PTL

-----------------------------------------------------------------------------
\* The steps of the two sides are those of TerminalStream.

\* The consumer of an open stream has received no terminal yet.
LEMMA NotEnded == ASSUME Typed, Aligned PROVE ~Stream!Ended(got)
<1>1. ASSUME got # <<>>
      PROVE  /\ got[Len(got)] \notin {e \in Item : IsTerminal(e)}
             /\ got[Len(got)] # ByStream("cancelled") /\ got[Len(got)] # ByStream("abandoned")
  <2>1. Len(got) \in 1..Len(got)
    BY <1>1 DEF Typed
  <2>2. got[Len(got)] \in Item /\ ~IsTerminal(got[Len(got)])
    BY <2>1 DEF Aligned
  <2> QED
    BY <2>2 DEF Item, Kinds, IsTerminal, ByStream
<1> QED
  BY <1>1 DEF Stream!Ended

\* A send with a permit is Accept.
LEMMA DeliverAccepts ==
  ASSUME IInv, NEW p \in Producers, Deliver(p)
  PROVE  Stream!Accept
<1>1. ~claimed /\ clones # {} /\ event[p] \in Item
  BY DeliverFresh DEF IInv
<1>2. ~Stream!Ended(sent)
  <2>1. \A n \in 1..Len(sent) : ~IsTerminal(sent[n]) /\ sent[n] \in Item
    BY <1>1 DEF IInv, Typed, TerminalLast
  <2>2. sent # <<>> => Len(sent) \in 1..Len(sent)
    BY DEF IInv, Typed
  <2>3. ASSUME NEW e \in Item, ~IsTerminal(e)
        PROVE  e \notin {x \in Item : IsTerminal(x)} /\ e # ByStream("cancelled") /\ e # ByStream("abandoned")
    BY <2>3 DEF Item, Kinds, IsTerminal, ByStream
  <2> QED
    BY <2>1, <2>2, <2>3 DEF Stream!Ended
<1>3. sent' = Append(sent, event[p]) /\ UNCHANGED <<got, cancelled, due, clones>>
  BY DEF Deliver, receiverVars, tokenVars
<1> QED
  BY <1>1, <1>2, <1>3 DEF Stream!Accept

\* What next() does is Hand, Cut, Abandon or nothing that can be observed.
LEMMA ReceiveHands ==
  ASSUME IInv, Receive
  PROVE  Stream!Hand \/ Stream!Cut \/ Stream!Abandon \/ UNCHANGED Stream!tvars
<1>1. UNCHANGED <<sent, cancelled, due, clones>>
  BY DEF Receive, NextTry, NextPoll, NextToken, NextAgain, NextFinish, senderVars, tokenVars
<1>2. receiver = "open" /\ Typed /\ Aligned /\ ~Stream!Ended(got)
  <2>1. receiver = "open"
    BY DEF IInv, Reading, Receive, NextTry, NextPoll, NextToken, NextAgain, NextFinish
  <2> QED
    BY <2>1, NotEnded DEF IInv, OpenAligned
<1>3. ASSUME Take PROVE Stream!Hand
  BY <1>1, <1>2, <1>3, TakeNext DEF Stream!Hand
<1>4. ASSUME TakeClosed PROVE Stream!Cut \/ Stream!Abandon
  <2>1. got = sent
    <3>1. Len(queue) = 0 /\ Len(got) \in Nat
      BY <1>2, <1>4 DEF TakeClosed, Typed
    <3>2. Len(got) = Len(sent) /\ \A n \in 1..Len(got) : got[n] = sent[n] /\ got[n] \in Item
      BY <1>2, <3>1 DEF Aligned
    <3>3. got \in Seq(Item \cup {ByStream("cancelled"), ByStream("abandoned")}) /\ sent \in Seq(Item)
      BY <1>2 DEF Typed
    <3> QED
      BY <3>2, <3>3
  <2>2. CASE cancelled
    BY <1>1, <1>2, <1>4, <2>1, <2>2 DEF TakeClosed, Stream!Cut, IInv, Typed, Fulfilled
  <2>3. CASE ~cancelled
    BY <1>1, <1>2, <1>4, <2>1, <2>3 DEF TakeClosed, Stream!Abandon
  <2> QED
    BY <2>2, <2>3
<1>5. NextFinish => Stream!Cut
  BY <1>1, <1>2 DEF NextFinish, Stream!Cut, IInv, Reading, Fulfilled, Typed
<1>6. NextToken => got' = got
  BY DEF NextToken
<1>7. NextTry \/ NextPoll \/ NextAgain => Take \/ TakeClosed \/ got' = got
  BY DEF NextTry, NextPoll, NextAgain
<1>8. got' = got => UNCHANGED Stream!tvars
  BY <1>1 DEF Stream!tvars
<1> QED
  BY <1>3, <1>4, <1>5, <1>6, <1>7, <1>8 DEF Receive

\* The stream keeps the promise of TerminalStream: a prefix of what was sent,
\* in order, and then exactly one terminal.
THEOREM Refinement == Spec => ImplementsTerminalStream
<1>1. Init => Stream!TInit
  BY StreamAssumption DEF Init, Stream!TInit
<1>2. ASSUME IInv, [Next]_vars PROVE [Stream!TNext]_(Stream!tvars)
  <2> USE DEF Stream!TNext
  <2>1. ASSUME NEW p \in Producers, Deliver(p) PROVE Stream!TNext
    BY <1>2, <2>1, DeliverAccepts
  <2>2. ASSUME NEW p \in Producers, Send(p) \/ Lock(p) \/ Reserve(p) \/ DropSend(p)
        PROVE  UNCHANGED Stream!tvars
    BY <2>2 DEF Send, Lock, Reserve, DropSend, receiverVars, tokenVars, Stream!tvars
  <2>3. ASSUME NEW p \in Producers, DropClone(p) PROVE Stream!TNext \/ UNCHANGED Stream!tvars
    <3>1. UNCHANGED <<sent, got, cancelled, due>> /\ clones' \subseteq clones
      BY <2>3 DEF DropClone, receiverVars, tokenVars
    <3>2. CASE clones' = {}
      BY <3>1, <3>2 DEF Stream!Go
    <3>3. CASE clones' # {}
      BY <3>1, <3>3 DEF Stream!tvars
    <3> QED
      BY <3>2, <3>3
  <2>4. Receive => Stream!TNext \/ UNCHANGED Stream!tvars
    BY <1>2, ReceiveHands
  <2>5. Cancel \/ DropStream => Stream!Cancel \/ UNCHANGED Stream!tvars
    BY <1>2 DEF IInv, Typed, Cancel, DropStream, senderVars, receiverVars, Stream!Cancel, Stream!tvars
  <2>6. DropNext \/ DropCloses \/ UNCHANGED vars => UNCHANGED Stream!tvars
    BY DEF DropNext, DropCloses, vars, senderVars, receiverVars, tokenVars, Stream!tvars
  <2> QED
    BY <1>2, <2>1, <2>2, <2>3, <2>4, <2>5, <2>6 DEF Next, SenderStep
<1> QED
  BY <1>1, <1>2, InductiveInvariant, PTL DEF Spec, ImplementsTerminalStream, Stream!TSpec

-----------------------------------------------------------------------------
(* The agent's loop.                                                       *)

\* The inputs of s are queued messages of its kind, with their numbers.
OfKind(q, kind, s) ==
  \A i \in 1..Len(s) : s[i] = Input(s[i].n) /\ s[i].n \in 1..Len(q) /\ q[s[i].n] = kind

\* Inputs have the number of a queued message; those of one kind are in order.
Numbered(q, s) ==
  \A i \in 1..Len(s) : Queued(s[i]) => s[i] = Input(s[i].n) /\ s[i].n \in 1..Len(q)
InOrder(q, a, b) == Queued(a) /\ Queued(b) /\ q[a.n] = q[b.n] => a.n < b.n
Increasing(q, s) == \A i, j \in 1..Len(s) : i < j => InOrder(q, s[i], s[j])
Before(q, s, u) == \A i \in 1..Len(s), j \in 1..Len(u) : InOrder(q, s[i], u[j])

\* Message n is in s; s has a message of the kind after position b.
Placed(s, n) == \E i \in 1..Len(s) : s[i] = Input(n)
Has(q, kind, s, b) == \E i \in (b + 1)..Len(s) : Queued(s[i]) /\ q[s[i].n] = kind

\* No user input follows a queued message after position b of s.
Separate(b, s) ==
  \A i \in (b + 1)..(Len(s) - 1) : ~(Queued(s[i]) /\ s[i + 1].role = "user")

LoopTyped ==
  /\ LoopTypeOK
  /\ late <= Len(queued)
  /\ phase # "inject" => pending = <<>>
  /\ turnStart <= Len(messages)
  /\ phase # "idle" => turnStart < Len(messages)

\* Response i of s has the results of its first a calls and no more.
Answered(s, i, a) ==
  /\ \A k \in 1..a : i + k <= Len(s) /\ s[i + k] = Result(k)
  /\ i + a < Len(s) => s[i + a + 1].role # "tool"

\* The responses of s have their results, but the last one lacks c of them.
ResponsesOf(s) == {i \in 1..Len(s) : s[i].role = "assistant"}
AllAnswered(s, c) ==
  \A i \in ResponsesOf(s) :
    Answered(s, i, s[i].n - (IF \E j \in ResponsesOf(s) : j > i THEN 0 ELSE c))

\* The calls cs are the last ones of the last response of s, and the results of
\* the others end s.
OpenCalls(s, cs) ==
  \E i \in ResponsesOf(s) :
    /\ \A j \in ResponsesOf(s) : j <= i
    /\ Len(cs) <= s[i].n /\ i + s[i].n - Len(cs) = Len(s)
    /\ \A k \in 1..Len(cs) : cs[k] = s[i].n - Len(cs) + k

Answering ==
  /\ calls # <<>> <=> phase \in {"dispatch", "tool"}
  /\ calls # <<>> => OpenCalls(messages, calls)

\* Every queue is in order, behind what was taken from it.
Sorted ==
  /\ OfKind(queued, "steer", steerQueue) /\ OfKind(queued, "followUp", followupQueue)
  /\ \A s \in {messages, pending} :
       /\ Numbered(queued, s) /\ Increasing(queued, s)
       /\ Before(queued, s, steerQueue) /\ Before(queued, s, followupQueue)
  /\ Increasing(queued, steerQueue) /\ Increasing(queued, followupQueue)
  /\ Before(queued, messages, pending)
  /\ \A i \in 1..Len(pending) : Queued(pending[i])

\* A message is somewhere unless it was cleared.
Kept ==
  \A n \in 1..Len(queued) :
    n \in cleared <=> \A s \in {messages, pending, steerQueue, followupQueue} : ~Placed(s, n)

\* Input that is to be injected comes after something that is no queued input.
Spaced ==
  /\ streaming /\ mode = "OneAtATime" => Len(pending) <= 1 /\ Separate(turnStart, messages)
  /\ phase \in {"begin", "inject", "dispatch", "tool", "drain", "followUp"} =>
       ~Queued(messages[Len(messages)])

\* The loop remembers whether it took steering.
Remembers ==
  /\ phase = "begin" => \A i \in (turnStart + 1)..Len(messages) : ~Queued(messages[i])
  /\ phase \notin {"idle", "begin"} =>
       (steered <=> Has(queued, "steer", messages, turnStart) \/ Has(queued, "steer", pending, 0))
  /\ phase = "end" /\ outcome \in {"Completed", "Steered"} => (outcome = "Steered" <=> steered)

LoopInv ==
  /\ LoopTyped /\ Answering /\ CallsAnswered
  /\ Sorted /\ Kept /\ Spaced
  /\ SteeringFirst /\ Remembers

-----------------------------------------------------------------------------
\* The elements of a concatenation.
LEMMA Concat ==
  ASSUME NEW S, NEW s \in Seq(S), NEW u \in Seq(S)
  PROVE  /\ s \o u \in Seq(S)
         /\ Len(s) \in Nat /\ Len(u) \in Nat /\ Len(s \o u) = Len(s) + Len(u)
         /\ \A i \in 1..Len(s) : (s \o u)[i] = s[i]
         /\ \A i \in 1..Len(u) : (s \o u)[Len(s) + i] = u[i]
         /\ \A i \in 1..Len(s \o u) :
              i \in 1..Len(s) \/ (i - Len(s) \in 1..Len(u) /\ (s \o u)[i] = u[i - Len(s)])
OBVIOUS

\* A boundary takes a part at the front of a queue, which is empty only if the queue is.
LEMMA DrainFacts ==
  ASSUME NEW S, NEW q \in Seq(S), mode \in Modes
  PROVE  /\ Drained(q) \in Seq(S) /\ Left(q) \in Seq(S)
         /\ \E d \in 0..Len(q) :
              /\ Len(Drained(q)) = d /\ Len(Left(q)) = Len(q) - d
              /\ \A i \in 1..d : Drained(q)[i] = q[i]
              /\ \A i \in 1..(Len(q) - d) : Left(q)[i] = q[d + i]
              /\ d = 0 <=> q = <<>>
              /\ mode = "OneAtATime" => d <= 1
<1>1. CASE mode = "All" \/ q = <<>>
  <2>1. Drained(q) = q /\ Left(q) = <<>>
    BY <1>1 DEF Drained, Left
  <2>2. Len(q) \in Nat /\ (Len(q) = 0 <=> q = <<>>) /\ <<>> \in Seq(S)
    OBVIOUS
  <2>3. mode = "OneAtATime" => Len(q) <= 1
    BY <1>1, <2>2
  <2> QED
    BY <2>1, <2>2, <2>3
<1>2. CASE ~(mode = "All" \/ q = <<>>)
  <2>1. Drained(q) = <<Head(q)>> /\ Left(q) = Tail(q)
    BY <1>2 DEF Drained, Left
  <2>2. Len(q) \in Nat /\ Len(q) # 0 /\ Head(q) = q[1] /\ Head(q) \in S
    BY <1>2
  <2>3. Tail(q) \in Seq(S) /\ Len(Tail(q)) = Len(q) - 1
          /\ \A i \in 1..(Len(q) - 1) : Tail(q)[i] = q[1 + i]
    BY <1>2
  <2>4. Drained(q) \in Seq(S) /\ Len(Drained(q)) = 1 /\ \A i \in 1..1 : Drained(q)[i] = q[i]
    BY <2>1, <2>2
  <2>5. 1 \in 0..Len(q)
    BY <2>2
  <2> QED
    BY <1>2, <2>1, <2>2, <2>3, <2>4, <2>5
<1> QED
  BY <1>1, <1>2

\* What holds of the halves of a concatenation and between them holds of it.
LEMMA ConcatOrder ==
  ASSUME NEW q, NEW s \in Seq(Message), NEW u \in Seq(Message)
  PROVE  /\ Numbered(q, s) /\ Numbered(q, u) => Numbered(q, s \o u)
         /\ Increasing(q, s) /\ Increasing(q, u) /\ Before(q, s, u) => Increasing(q, s \o u)
         /\ \A v : Before(q, s, v) /\ Before(q, u, v) => Before(q, s \o u, v)
         /\ \A n : Placed(s \o u, n) <=> Placed(s, n) \/ Placed(u, n)
         /\ \A kind : \A b \in 0..Len(s) :
              Has(q, kind, s \o u, b) <=> Has(q, kind, s, b) \/ Has(q, kind, u, 0)
<1> DEFINE w == s \o u
<1>0. /\ Len(s) \in Nat /\ Len(u) \in Nat /\ Len(w) = Len(s) + Len(u)
      /\ \A i \in 1..Len(s) : i \in 1..Len(w) /\ w[i] = s[i]
      /\ \A i \in 1..Len(u) : Len(s) + i \in 1..Len(w) /\ w[Len(s) + i] = u[i]
      /\ \A i \in 1..Len(w) :
           i \in 1..Len(s) \/ (i - Len(s) \in 1..Len(u) /\ w[i] = u[i - Len(s)])
  BY Concat
<1> HIDE DEF w
<1>1. Numbered(q, s) /\ Numbered(q, u) => Numbered(q, w)
  BY <1>0 DEF Numbered
<1>2. ASSUME Increasing(q, s), Increasing(q, u), Before(q, s, u) PROVE Increasing(q, w)
  <2> SUFFICES ASSUME NEW i \in 1..Len(w), NEW j \in 1..Len(w), i < j
               PROVE  InOrder(q, w[i], w[j])
    BY DEF Increasing
  <2>1. CASE j \in 1..Len(s)
    BY <1>0, <1>2, <2>1 DEF Increasing
  <2>2. CASE i \in 1..Len(s) /\ j \notin 1..Len(s)
    BY <1>0, <1>2, <2>2 DEF Before
  <2>3. CASE i \notin 1..Len(s)
    <3>1. /\ i - Len(s) \in 1..Len(u) /\ w[i] = u[i - Len(s)]
          /\ j - Len(s) \in 1..Len(u) /\ w[j] = u[j - Len(s)]
          /\ i - Len(s) < j - Len(s)
      BY <1>0, <2>3
    <3> QED
      BY <1>2, <3>1 DEF Increasing
  <2> QED
    BY <2>1, <2>2, <2>3
<1>3. \A v : Before(q, s, v) /\ Before(q, u, v) => Before(q, w, v)
  BY <1>0 DEF Before
<1>4. ASSUME NEW n PROVE Placed(w, n) <=> Placed(s, n) \/ Placed(u, n)
  <2>1. ASSUME Placed(s, n) PROVE Placed(w, n)
    BY <1>0, <2>1 DEF Placed
  <2>2. ASSUME Placed(u, n) PROVE Placed(w, n)
    BY <1>0, <2>2 DEF Placed
  <2>3. ASSUME Placed(w, n) PROVE Placed(s, n) \/ Placed(u, n)
    BY <1>0, <2>3 DEF Placed
  <2> QED
    BY <2>1, <2>2, <2>3
<1>5. ASSUME NEW kind, NEW b \in 0..Len(s)
      PROVE  Has(q, kind, w, b) <=> Has(q, kind, s, b) \/ Has(q, kind, u, 0)
  <2>1. ASSUME Has(q, kind, s, b) PROVE Has(q, kind, w, b)
    <3>1. PICK i \in (b + 1)..Len(s) : Queued(s[i]) /\ q[s[i].n] = kind
      BY <2>1 DEF Has
    <3>2. i \in (b + 1)..Len(w) /\ w[i] = s[i]
      BY <1>0
    <3> QED
      BY <3>1, <3>2 DEF Has
  <2>2. ASSUME Has(q, kind, u, 0) PROVE Has(q, kind, w, b)
    <3>1. PICK i \in (0 + 1)..Len(u) : Queued(u[i]) /\ q[u[i].n] = kind
      BY <2>2 DEF Has
    <3>2. Len(s) + i \in (b + 1)..Len(w) /\ w[Len(s) + i] = u[i]
      BY <1>0
    <3> QED
      BY <3>1, <3>2 DEF Has
  <2>3. ASSUME Has(q, kind, w, b) PROVE Has(q, kind, s, b) \/ Has(q, kind, u, 0)
    <3>1. PICK i \in (b + 1)..Len(w) : Queued(w[i]) /\ q[w[i].n] = kind
      BY <2>3 DEF Has
    <3>2. \/ i \in (b + 1)..Len(s) /\ w[i] = s[i]
          \/ i - Len(s) \in (0 + 1)..Len(u) /\ w[i] = u[i - Len(s)]
      BY <1>0
    <3> QED
      BY <3>1, <3>2 DEF Has
  <2> QED
    BY <2>1, <2>2, <2>3
<1> QED
  BY <1>1, <1>2, <1>3, <1>4, <1>5 DEF w

\* What is no queued input disturbs no order.
LEMMA Unqueued ==
  ASSUME NEW q, NEW u \in Seq(Message), \A i \in 1..Len(u) : ~Queued(u[i])
  PROVE  /\ Numbered(q, u) /\ Increasing(q, u)
         /\ \A v : Before(q, u, v) /\ Before(q, v, u)
         /\ \A n \in Nat \ {0} : ~Placed(u, n)
         /\ \A kind : ~Has(q, kind, u, 0)
<1>1. \A n \in Nat \ {0} : Queued(Input(n))
  BY DEF Queued, Input
<1>2. (0 + 1)..Len(u) = 1..Len(u)
  OBVIOUS
<1> QED
  BY <1>1, <1>2 DEF Numbered, Increasing, Before, InOrder, Placed, Has

\* Inputs that are there keep their order when another message is queued.
LEMMA MoreQueued ==
  ASSUME NEW q \in Seq({"steer", "followUp"}), NEW k \in {"steer", "followUp"},
         NEW r, r = Append(q, k)
  PROVE  /\ \A s \in Seq(Message) : Numbered(q, s) =>
              /\ Numbered(r, s)
              /\ Increasing(q, s) => Increasing(r, s)
              /\ \A kind : \A b \in Nat : Has(q, kind, s, b) <=> Has(r, kind, s, b)
              /\ \A u \in Seq(Message) : Numbered(q, u) /\ Before(q, s, u) => Before(r, s, u)
         /\ \A kind, s : OfKind(q, kind, s) => OfKind(r, kind, s)
<1>1. Len(r) = Len(q) + 1 /\ Len(q) \in Nat /\ \A n \in 1..Len(q) : n \in 1..Len(r)
        /\ r[n] = q[n]
  OBVIOUS
<1>2. ASSUME NEW s \in Seq(Message), Numbered(q, s)
      PROVE  /\ Numbered(r, s)
             /\ Increasing(q, s) => Increasing(r, s)
             /\ \A kind : \A b \in Nat : Has(q, kind, s, b) <=> Has(r, kind, s, b)
             /\ \A u \in Seq(Message) : Numbered(q, u) /\ Before(q, s, u) => Before(r, s, u)
  <2>1. \A i \in 1..Len(s) : Queued(s[i]) => r[s[i].n] = q[s[i].n]
    BY <1>1, <1>2 DEF Numbered
  <2>2. Numbered(r, s)
    BY <1>1, <1>2 DEF Numbered
  <2>3. Increasing(q, s) => Increasing(r, s)
    BY <2>1 DEF Increasing, InOrder
  <2>4. ASSUME NEW kind, NEW b \in Nat PROVE Has(q, kind, s, b) <=> Has(r, kind, s, b)
    <3>1. \A i \in (b + 1)..Len(s) : i \in 1..Len(s)
      OBVIOUS
    <3> QED
      BY <2>1, <3>1 DEF Has
  <2>5. ASSUME NEW u \in Seq(Message), Numbered(q, u), Before(q, s, u) PROVE Before(r, s, u)
    <3>1. \A i \in 1..Len(u) : Queued(u[i]) => r[u[i].n] = q[u[i].n]
      BY <1>1, <2>5 DEF Numbered
    <3> QED
      BY <2>1, <2>5, <3>1 DEF Before, InOrder
  <2> QED
    BY <2>2, <2>3, <2>4, <2>5
<1>3. \A kind, s : OfKind(q, kind, s) => OfKind(r, kind, s)
  BY <1>1 DEF OfKind
<1> QED
  BY <1>2, <1>3

\* What the loop pushes besides inputs: prompts, responses and results.
LEMMA Pushed ==
  /\ <<>> \in Seq(Message)
  /\ \A n \in Nat : {Input(n), Response(n), Result(n)} \subseteq Message
  /\ \A m \in Message : <<m>> \in Seq(Message) /\ Len(<<m>>) = 1 /\ <<m>>[1] = m
  /\ ~Queued(Input(0)) /\ \A n \in Nat : ~Queued(Response(n)) /\ ~Queued(Result(n))
  /\ \A n : Response(n).role = "assistant" /\ Result(n).role = "tool"
  /\ \A ks \in Seq(Nat) :
       /\ Results(ks) \in Seq(Message) /\ Len(Results(ks)) = Len(ks)
       /\ \A i \in 1..Len(ks) : Results(ks)[i] = Result(ks[i])
<1> USE DEF Message, Input, Response, Result, Queued
<1>1. \A n \in Nat : {Input(n), Response(n), Result(n)} \subseteq Message
  OBVIOUS
<1>2. ASSUME NEW ks \in Seq(Nat)
      PROVE  /\ Results(ks) \in Seq(Message) /\ Len(Results(ks)) = Len(ks)
             /\ \A i \in 1..Len(ks) : Results(ks)[i] = Result(ks[i])
  <2>1. \A i \in 1..Len(ks) : Result(ks[i]) \in Message
    OBVIOUS
  <2> HIDE DEF Message, Result
  <2> QED
    BY <2>1 DEF Results
<1> QED
  BY <1>1, <1>2

\* What a step does to the messages: a handle queues or clears, a boundary takes, and
\* the loop injects what was taken or adds what is no queued input.
NewInput ==
  /\ \/ /\ queued' = Append(queued, "steer")
        /\ steerQueue' = Append(steerQueue, Input(Len(queued) + 1))
             /\ followupQueue' = followupQueue
     \/ /\ queued' = Append(queued, "followUp")
        /\ followupQueue' = Append(followupQueue, Input(Len(queued) + 1))
             /\ steerQueue' = steerQueue
  /\ UNCHANGED <<messages, pending, cleared>>
Cleared ==
  /\ \/ /\ cleared' = cleared \cup Numbers(steerQueue) /\ steerQueue' = <<>>
        /\ followupQueue' = followupQueue
     \/ /\ cleared' = cleared \cup Numbers(followupQueue) /\ followupQueue' = <<>>
        /\ steerQueue' = steerQueue
  /\ UNCHANGED <<messages, pending, queued>>
Taken ==
  /\ pending = <<>>
  /\ \/ /\ pending' = Drained(steerQueue) /\ steerQueue' = Left(steerQueue)
        /\ followupQueue' = followupQueue
     \/ /\ pending' = Drained(followupQueue) /\ followupQueue' = Left(followupQueue)
        /\ steerQueue' = steerQueue
  /\ UNCHANGED <<messages, queued, cleared>>
Injected ==
  /\ messages' = messages \o pending /\ pending' = <<>>
  /\ UNCHANGED <<steerQueue, followupQueue, queued, cleared>>
Added(u) ==
  /\ \A i \in 1..Len(u) : ~Queued(u[i])
  /\ messages' = messages \o u
  /\ UNCHANGED <<pending, steerQueue, followupQueue, queued, cleared>>

-----------------------------------------------------------------------------

\* Every step keeps the types and the places of the loop.
LEMMA StepLoopTyped ==
  ASSUME LoopTyped, Answering, Sorted, [LoopNext]_loopVars
  PROVE  LoopTyped'
<1> USE LoopAssumption DEF LoopTyped, LoopTypeOK, Answering, Outcomes, Modes
<1>1. CASE Steer
  <2>1. /\ queued' = Append(queued, "steer") /\ Len(queued) < MaxQueued
        /\ steerQueue' = Append(steerQueue, Input(Len(queued) + 1))
        /\ late' \in {late + 1, 0}
        /\ UNCHANGED <<followupQueue, active, aborted, mode, streaming, messages, phase,
                       pending, steered,
                       hasToolCalls, calls, turn, turnStart, outcome, cleared, clearing>>
    BY <1>1 DEF Steer, Queue, controlVars, localVars, queueHistory, loopControl
  <2>2. Len(queued) \in Nat /\ Input(Len(queued) + 1) \in Message
    BY Pushed
  <2>3. steerQueue' \in Seq(Message)
    BY <2>1, <2>2
  <2>4. queued' \in Seq({"steer", "followUp"}) /\ Len(queued') = Len(queued) + 1
    BY <2>1
  <2>5. late \in Nat /\ MaxQueued \in Nat /\ late <= Len(queued)
    BY LoopAssumption
  <2>6. late' <= Len(queued') /\ late' \in 0..MaxQueued
    <3>1. CASE late' = late + 1
      BY <2>1, <2>2, <2>4, <2>5, <3>1
    <3>2. CASE late' = 0
      BY <2>1, <2>2, <2>4, <2>5, <3>2
    <3> QED
      BY <2>1, <3>1, <3>2
  <2> QED
    BY <2>1, <2>2, <2>3, <2>4, <2>6
<1>2. CASE FollowUp
  <2>1. /\ queued' = Append(queued, "followUp") /\ Len(queued) < MaxQueued
        /\ followupQueue' = Append(followupQueue, Input(Len(queued) + 1))
        /\ late' = late
        /\ UNCHANGED <<steerQueue, active, aborted, mode, streaming, messages, phase, pending,
                       steered,
                       hasToolCalls, calls, turn, turnStart, outcome, cleared, clearing>>
    BY <1>2 DEF FollowUp, Queue, controlVars, localVars, queueHistory, loopControl
  <2>2. Len(queued) \in Nat /\ Input(Len(queued) + 1) \in Message
    BY Pushed
  <2>3. followupQueue' \in Seq(Message)
    BY <2>1, <2>2
  <2>4. queued' \in Seq({"steer", "followUp"}) /\ Len(queued') = Len(queued) + 1
    BY <2>1
  <2>5. late \in Nat /\ MaxQueued \in Nat /\ late <= Len(queued)
    BY LoopAssumption
  <2>6. late' <= Len(queued') /\ late' \in 0..MaxQueued
    BY <2>1, <2>2, <2>4, <2>5
  <2> QED
    BY <2>1, <2>2, <2>3, <2>4, <2>6
<1>3. CASE Abort
  BY <1>3, Pushed DEF Abort, controlVars, localVars, queueHistory, loopControl
<1>4. CASE ClearSteer
  <2>1. Numbers(steerQueue) \subseteq 1..Len(queued)
    BY DEF Sorted, OfKind, Numbers
  <2> QED
    BY <1>4, <2>1, Pushed DEF ClearSteer, controlVars, localVars, queueHistory, loopControl
<1>5. CASE ClearFollowup
  <2>1. Numbers(followupQueue) \subseteq 1..Len(queued)
    BY DEF Sorted, OfKind, Numbers
  <2> QED
    BY <1>5, <2>1, Pushed DEF ClearFollowup, controlVars, localVars, queueHistory, loopControl
<1>6. CASE SetQueueMode
  BY <1>6, Pushed DEF SetQueueMode, controlVars, localVars, queueHistory, loopControl
<1>7. CASE Prompt
  <2>1. <<Input(0)>> \in Seq(Message) /\ Len(<<Input(0)>>) = 1
    BY Pushed
  <2>2. messages' = messages \o <<Input(0)>>
    BY <1>7 DEF Prompt, Push, controlVars, localVars, queueHistory, loopControl
  <2>3. messages' \in Seq(Message) /\ Len(messages') = Len(messages) + 1
          /\ Len(messages) \in Nat
    BY <2>1, <2>2, Concat
  <2>4. /\ turn < MaxTurns /\ turn' = turn + 1 /\ turnStart' = Len(messages) /\ phase = "idle"
             /\ phase' = "begin"
        /\ active' = TRUE /\ streaming' = TRUE /\ aborted' \in BOOLEAN
        /\ UNCHANGED <<steerQueue, followupQueue, mode, pending, steered, hasToolCalls, calls,
                       outcome,
                       queued, cleared, clearing, late>>
    BY <1>7 DEF Prompt, Push, controlVars, localVars, queueHistory, loopControl
  <2>5. active' = (phase' # "idle") /\ streaming' = active'
    BY <2>4
  <2>6. turn' \in 0..MaxTurns /\ turnStart' \in Nat /\ turnStart' < Len(messages')
    BY <2>3, <2>4, LoopAssumption
  <2> QED
    BY <2>3, <2>4, <2>5, <2>6
<1>8. CASE DrainFirst
  <2>1. Drained(steerQueue) \in Seq(Message) /\ Left(steerQueue) \in Seq(Message)
    BY DrainFacts
  <2> QED
    BY <1>8, <2>1 DEF DrainFirst, controlVars, localVars, queueHistory, loopControl
<1>9. CASE Inject
  <2>1. pending \in Seq(Message) /\ Len(pending) >= 0
    BY <1>9, Pushed DEF Inject, Push, Abandon, controlVars, localVars, queueHistory, loopControl
  <2>2. messages' = messages \o pending
    BY <1>9 DEF Inject, Push, Abandon, controlVars, localVars, queueHistory, loopControl
  <2>3. messages' \in Seq(Message) /\ Len(messages') = Len(messages) + Len(pending)
          /\ Len(messages) \in Nat
    BY <2>1, <2>2, Concat
  <2> QED
    BY <1>9, <2>1, <2>3, LoopAssumption DEF Inject, Push, Abandon, controlVars, localVars,
       queueHistory, loopControl
<1>10. CASE Request
  BY <1>10, Pushed DEF Request, Abandon, controlVars, localVars, queueHistory, loopControl
<1>11. CASE StreamCancelled
  BY <1>11, Pushed DEF StreamCancelled, Abandon, controlVars, localVars, queueHistory,
     loopControl
<1>12. CASE StreamFails
  BY <1>12, Pushed DEF StreamFails, Abandon, controlVars, localVars, queueHistory,
     loopControl
<1>13. ASSUME NEW k \in 0..MaxCalls, StreamDone(k) PROVE LoopTyped'
  BY <1>13, Pushed DEF StreamDone, Push, controlVars, localVars, queueHistory, loopControl
<1>14. CASE Truncated
  BY <1>14, Pushed DEF Truncated, Push, controlVars, localVars, queueHistory, loopControl
<1>15. CASE Dispatch
  <2>1. calls \in Seq(Nat) /\ Results(calls) \in Seq(Message) /\ <<>> \in Seq(1..MaxCalls)
    BY LoopAssumption, Pushed
  <2>2. /\ messages \o Results(calls) \in Seq(Message)
        /\ Len(messages \o Results(calls)) >= Len(messages)
    BY <2>1, Concat
  <2>3. messages' \in Seq(Message) /\ Len(messages') >= Len(messages)
          /\ calls' \in Seq(1..MaxCalls)
    <3>1. CASE aborted
      BY <1>15, <2>1, <2>2, <3>1 DEF Dispatch, Push, Abandon, controlVars, localVars,
         queueHistory, loopControl
    <3>2. CASE ~aborted
      BY <1>15, <3>2 DEF Dispatch, Push, Abandon, controlVars, localVars, queueHistory,
         loopControl
    <3> QED
      BY <3>1, <3>2
  <2>4. /\ phase = "dispatch" /\ phase' \in {"end", "tool"} /\ outcome' \in Outcomes
        /\ UNCHANGED <<steerQueue, followupQueue, active, aborted, mode, streaming, pending,
                       steered,
                       hasToolCalls, turn, turnStart, queued, cleared, clearing, late>>
    BY <1>15 DEF Dispatch, Push, Abandon, controlVars, localVars, queueHistory, loopControl
  <2> QED
    BY <2>3, <2>4
<1>16. CASE ToolReturns
  <2>0. calls # <<>> /\ calls \in Seq(1..MaxCalls)
    BY <1>16 DEF ToolReturns, Push, controlVars, localVars, queueHistory, loopControl
  <2>1. Head(calls) \in 1..MaxCalls /\ Tail(calls) \in Seq(1..MaxCalls)
    BY <2>0, HeadTailProperties
  <2>2. <<Result(Head(calls))>> \in Seq(Message)
    BY <2>1, Pushed, LoopAssumption
  <2>3. /\ messages' = messages \o <<Result(Head(calls))>>
        /\ messages' \in Seq(Message) /\ Len(messages') >= Len(messages)
    BY <1>16, <2>2, Concat DEF ToolReturns, Push, controlVars, localVars, queueHistory,
       loopControl
  <2>4. /\ phase = "tool" /\ phase' \in {"drain", "dispatch"} /\ calls' = Tail(calls)
        /\ UNCHANGED <<steerQueue, followupQueue, active, aborted, mode, streaming, pending,
                       steered,
                       hasToolCalls, turn, turnStart, outcome, queued, cleared, clearing, late>>
    BY <1>16 DEF ToolReturns, Push, controlVars, localVars, queueHistory, loopControl
  <2>5. active' = (phase' # "idle") /\ streaming' = active'
    BY <2>4
  <2>6. pending' = <<>> /\ turnStart' < Len(messages')
    BY <2>3, <2>4
  <2> QED
    BY <2>1, <2>3, <2>4, <2>5, <2>6
<1>17. CASE DrainSteer
  <2>1. Drained(steerQueue) \in Seq(Message) /\ Left(steerQueue) \in Seq(Message)
    BY DrainFacts
  <2> QED
    BY <1>17, <2>1 DEF DrainSteer, controlVars, localVars, queueHistory, loopControl
<1>18. CASE DrainFollowup
  <2>1. Drained(followupQueue) \in Seq(Message) /\ Left(followupQueue) \in Seq(Message)
    BY DrainFacts
  <2>2. /\ phase = "followUp" /\ late' = 0
        /\ pending' = Drained(followupQueue) /\ followupQueue' = Left(followupQueue)
        /\ \/ pending' = <<>> /\ phase' = "end" /\ outcome' \in Outcomes /\ hasToolCalls' = hasToolCalls
           \/ phase' = "inject" /\ outcome' = outcome /\ hasToolCalls' = TRUE
        /\ UNCHANGED <<steerQueue, active, aborted, mode, streaming, messages, steered,
                       calls, turn, turnStart, queued, cleared, clearing>>
    BY <1>18 DEF DrainFollowup, Abandon, controlVars, localVars, queueHistory, loopControl
  <2>3. active' = (phase' # "idle") /\ streaming' = active'
    BY <2>2
  <2>4. late' \in 0..MaxQueued /\ late' <= Len(queued')
    BY <2>2, LoopAssumption
  <2>5. phase' # "inject" => pending' = <<>>
    BY <2>2
  <2> QED
    BY <2>1, <2>2, <2>3, <2>4, <2>5
<1>19. CASE End
  BY <1>19, Pushed DEF End, controlVars, localVars, queueHistory, loopControl
<1>20. CASE UNCHANGED loopVars
  BY <1>20 DEF loopVars, controlVars, localVars, queueHistory, loopControl
<1> QED
  BY <1>1, <1>2, <1>3, <1>4, <1>5, <1>6, <1>7, <1>8, <1>9, <1>10, <1>11, <1>12, <1>13,
     <1>14, <1>15, <1>16, <1>17, <1>18, <1>19, <1>20 DEF LoopNext, Handles, Loop, StreamEnds

\* Messages flow from the queues through the pending input into the history.
LEMMA Flow ==
  ASSUME LoopTyped, Answering, [LoopNext]_loopVars
  PROVE  \/ NewInput \/ Cleared \/ Taken \/ Injected
         \/ \E u \in Seq(Message) : Added(u)
         \/ UNCHANGED <<messages, pending, steerQueue, followupQueue, queued, cleared>>
<1>1. CASE Steer
  <2>1. NewInput
    BY <1>1 DEF Steer, Queue, controlVars, localVars, queueHistory, loopControl, NewInput
  <2> QED
    BY <2>1
<1>2. CASE FollowUp
  <2>1. NewInput
    BY <1>2 DEF FollowUp, Queue, controlVars, localVars, queueHistory, loopControl, NewInput
  <2> QED
    BY <2>1
<1>3. CASE Abort
  <2>1. UNCHANGED <<messages, pending, steerQueue, followupQueue, queued, cleared>>
    BY <1>3 DEF Abort, controlVars, localVars, queueHistory, loopControl
  <2> QED
    BY <2>1
<1>4. CASE ClearSteer
  <2>1. Cleared
    BY <1>4 DEF ClearSteer, controlVars, localVars, queueHistory, loopControl, Cleared
  <2> QED
    BY <2>1
<1>5. CASE ClearFollowup
  <2>1. Cleared
    BY <1>5 DEF ClearFollowup, controlVars, localVars, queueHistory, loopControl, Cleared
  <2> QED
    BY <2>1
<1>6. CASE SetQueueMode
  <2>1. UNCHANGED <<messages, pending, steerQueue, followupQueue, queued, cleared>>
    BY <1>6 DEF SetQueueMode, controlVars, localVars, queueHistory, loopControl
  <2> QED
    BY <2>1
<1>7. CASE Prompt
  <2> DEFINE u == <<Input(0)>>
  <2>1. u \in Seq(Message) /\ \A i \in 1..Len(u) : ~Queued(u[i])
    BY Pushed
  <2>2. Added(u)
    BY <1>7, <2>1 DEF Prompt, Push, controlVars, localVars, queueHistory, loopControl, Added
  <2> QED
    BY <2>1, <2>2
<1>8. CASE DrainFirst
  <2>1. Taken
    BY <1>8 DEF DrainFirst, controlVars, localVars, queueHistory, loopControl, Taken, LoopTyped
  <2> QED
    BY <2>1
<1>9. CASE Inject
  <2>1. Injected
    BY <1>9 DEF Inject, Push, Abandon, controlVars, localVars, queueHistory, loopControl,
       Injected
  <2> QED
    BY <2>1
<1>10. CASE Request
  <2>1. UNCHANGED <<messages, pending, steerQueue, followupQueue, queued, cleared>>
    BY <1>10 DEF Request, Abandon, controlVars, localVars, queueHistory, loopControl
  <2> QED
    BY <2>1
<1>11. CASE StreamCancelled
  <2>1. UNCHANGED <<messages, pending, steerQueue, followupQueue, queued, cleared>>
    BY <1>11 DEF StreamCancelled, Abandon, controlVars, localVars, queueHistory, loopControl
  <2> QED
    BY <2>1
<1>12. CASE StreamFails
  <2>1. UNCHANGED <<messages, pending, steerQueue, followupQueue, queued, cleared>>
    BY <1>12 DEF StreamFails, Abandon, controlVars, localVars, queueHistory, loopControl
  <2> QED
    BY <2>1
<1>13. ASSUME NEW k \in 0..MaxCalls, StreamDone(k) PROVE  \/ NewInput \/ Cleared \/ Taken \/ Injected
         \/ \E u \in Seq(Message) : Added(u)
         \/ UNCHANGED <<messages, pending, steerQueue, followupQueue, queued, cleared>>
  <2> DEFINE u == <<Response(k)>>
  <2>1. u \in Seq(Message) /\ \A i \in 1..Len(u) : ~Queued(u[i])
    BY Pushed
  <2>2. Added(u)
    BY <1>13, <2>1 DEF StreamDone, Push, controlVars, localVars, queueHistory, loopControl,
       Added
  <2> QED
    BY <2>1, <2>2
<1>14. CASE Truncated
  <2> DEFINE u == Results(calls)
  <2>0. calls \in Seq(Nat) /\ \A i \in 1..Len(calls) : calls[i] \in Nat
    BY LoopAssumption DEF LoopTyped, LoopTypeOK
  <2>1. u \in Seq(Message) /\ \A i \in 1..Len(u) : ~Queued(u[i])
    BY <2>0, Pushed
  <2>2. Added(u)
    BY <1>14, <2>1 DEF Truncated, Push, controlVars, localVars, queueHistory, loopControl, Added
  <2> QED
    BY <2>1, <2>2
<1>15. CASE Dispatch
  <2>1. CASE aborted
    <3> DEFINE u == Results(calls)
    <3>0. calls \in Seq(Nat) /\ \A i \in 1..Len(calls) : calls[i] \in Nat
      BY LoopAssumption DEF LoopTyped, LoopTypeOK
    <3>1. u \in Seq(Message) /\ \A i \in 1..Len(u) : ~Queued(u[i])
      BY <3>0, Pushed
    <3>2. Added(u)
      BY <1>15, <2>1, <3>1 DEF Dispatch, Push, Abandon, controlVars, localVars, queueHistory,
         loopControl, Added
    <3> QED
      BY <3>1, <3>2
  <2>2. CASE ~aborted
    <3>1. UNCHANGED <<messages, pending, steerQueue, followupQueue, queued, cleared>>
      BY <1>15, <2>2 DEF Dispatch, Push, Abandon, controlVars, localVars, queueHistory,
         loopControl
    <3> QED
      BY <3>1
  <2> QED
    BY <2>1, <2>2
<1>16. CASE ToolReturns
  <2> DEFINE u == <<Result(Head(calls))>>
  <2>0. Head(calls) \in Nat
    <3>1. calls # <<>> /\ calls \in Seq(1..MaxCalls)
      BY <1>16 DEF ToolReturns, Answering, LoopTyped, LoopTypeOK
    <3> QED
      BY <3>1, HeadTailProperties, LoopAssumption
  <2>1. u \in Seq(Message) /\ \A i \in 1..Len(u) : ~Queued(u[i])
    BY <2>0, Pushed
  <2>2. Added(u)
    BY <1>16, <2>1 DEF ToolReturns, Push, controlVars, localVars, queueHistory, loopControl,
       Added
  <2> QED
    BY <2>1, <2>2
<1>17. CASE DrainSteer
  <2>1. Taken
    BY <1>17 DEF DrainSteer, controlVars, localVars, queueHistory, loopControl, Taken, LoopTyped
  <2> QED
    BY <2>1
<1>18. CASE DrainFollowup
  <2>1. Taken
    BY <1>18 DEF DrainFollowup, Abandon, controlVars, localVars, queueHistory, loopControl,
       Taken, LoopTyped
  <2> QED
    BY <2>1
<1>19. CASE End
  <2>1. UNCHANGED <<messages, pending, steerQueue, followupQueue, queued, cleared>>
    BY <1>19 DEF End, controlVars, localVars, queueHistory, loopControl
  <2> QED
    BY <2>1
<1>20. CASE UNCHANGED loopVars
  <2>1. UNCHANGED <<messages, pending, steerQueue, followupQueue, queued, cleared>>
    BY <1>20 DEF loopVars, controlVars, localVars, queueHistory
  <2> QED
    BY <2>1
<1> QED
  BY <1>1, <1>2, <1>3, <1>4, <1>5, <1>6, <1>7, <1>8, <1>9, <1>10, <1>11, <1>12, <1>13,
     <1>14, <1>15, <1>16, <1>17, <1>18, <1>19, <1>20 DEF LoopNext, Handles, Loop, StreamEnds

\* A boundary takes the front of a queue: order and numbers stay.
LEMMA DrainOrder ==
  ASSUME NEW q, NEW kind, NEW s \in Seq(Message), mode \in Modes, OfKind(q, kind, s),
    Increasing(q, s)
  PROVE  /\ OfKind(q, kind, Drained(s)) /\ OfKind(q, kind, Left(s))
         /\ Increasing(q, Drained(s)) /\ Increasing(q, Left(s))
              /\ Before(q, Drained(s), Left(s))
         /\ \A u \in Seq(Message) : Before(q, u, s) => Before(q, u, Drained(s))
              /\ Before(q, u, Left(s))
         /\ \A n : Placed(s, n) <=> Placed(Drained(s), n) \/ Placed(Left(s), n)
<1> DEFINE a == Drained(s)
           b == Left(s)
<1>1. a \in Seq(Message) /\ b \in Seq(Message) /\ Len(s) \in Nat
  BY DrainFacts
<1>2. PICK d \in 0..Len(s) :
        /\ Len(a) = d /\ Len(b) = Len(s) - d
        /\ \A i \in 1..d : a[i] = s[i]
        /\ \A i \in 1..(Len(s) - d) : b[i] = s[d + i]
  BY DrainFacts
<1> HIDE DEF a, b
<1>3. /\ \A i \in 1..Len(a) : i \in 1..Len(s) /\ a[i] = s[i]
      /\ \A i \in 1..Len(b) : d + i \in 1..Len(s) /\ b[i] = s[d + i]
  BY <1>1, <1>2
<1>4. OfKind(q, kind, a) /\ OfKind(q, kind, b)
  <2>1. \A i \in 1..Len(s) : s[i] = Input(s[i].n) /\ s[i].n \in 1..Len(q) /\ q[s[i].n] = kind
    BY DEF OfKind
  <2>2. ASSUME NEW i \in 1..Len(a)
        PROVE  a[i] = Input(a[i].n) /\ a[i].n \in 1..Len(q) /\ q[a[i].n] = kind
    BY <1>3, <2>1
  <2>3. ASSUME NEW i \in 1..Len(b)
        PROVE  b[i] = Input(b[i].n) /\ b[i].n \in 1..Len(q) /\ q[b[i].n] = kind
    <3>1. d + i \in 1..Len(s) /\ b[i] = s[d + i]
      BY <1>3
    <3> QED
      BY <2>1, <3>1
  <2> QED
    BY <2>2, <2>3 DEF OfKind
<1>5. Increasing(q, a) /\ Increasing(q, b)
  <2>1. ASSUME NEW i \in 1..Len(a), NEW j \in 1..Len(a), i < j PROVE InOrder(q, a[i], a[j])
    BY <1>3, <2>1 DEF Increasing
  <2>2. ASSUME NEW i \in 1..Len(b), NEW j \in 1..Len(b), i < j PROVE InOrder(q, b[i], b[j])
    <3>1. d + i < d + j
      BY <2>2
    <3> QED
      BY <1>3, <3>1 DEF Increasing
  <2> QED
    BY <2>1, <2>2 DEF Increasing
<1>6. Before(q, a, b)
  <2> SUFFICES ASSUME NEW i \in 1..Len(a), NEW j \in 1..Len(b) PROVE InOrder(q, a[i], b[j])
    BY DEF Before
  <2>1. i < d + j
    BY <1>1, <1>2
  <2> QED
    BY <1>3, <2>1 DEF Increasing
<1>7. ASSUME NEW u \in Seq(Message), Before(q, u, s) PROVE Before(q, u, a) /\ Before(q, u, b)
  BY <1>3, <1>7 DEF Before
<1>8. ASSUME NEW n PROVE Placed(s, n) <=> Placed(a, n) \/ Placed(b, n)
  <2>1. Placed(a, n) \/ Placed(b, n) => Placed(s, n)
    BY <1>3 DEF Placed
  <2>2. ASSUME Placed(s, n) PROVE Placed(a, n) \/ Placed(b, n)
    <3>1. PICK i \in 1..Len(s) : s[i] = Input(n)
      BY <2>2 DEF Placed
    <3>2. CASE i <= d
      <4>1. i \in 1..Len(a) /\ a[i] = s[i]
        BY <1>1, <1>2, <3>2
      <4> QED
        BY <3>1, <4>1 DEF Placed
    <3>3. CASE ~(i <= d)
      <4>1. i - d \in 1..Len(b) /\ b[i - d] = s[i]
        BY <1>1, <1>2, <3>3
      <4> QED
        BY <3>1, <4>1 DEF Placed
    <3> QED
      BY <3>2, <3>3
  <2> QED
    BY <2>1, <2>2
<1> QED
  BY <1>4, <1>5, <1>6, <1>7, <1>8 DEF a, b

\* Inputs of one kind come before nothing of the other kind.
LEMMA KindsApart ==
  ASSUME NEW q, NEW s, NEW u, OfKind(q, "steer", s), OfKind(q, "followUp", u)
  PROVE  /\ Before(q, s, u) /\ Before(q, u, s)
         /\ Numbered(q, s) /\ Numbered(q, u)
         /\ \A i \in 1..Len(s) : Queued(s[i])
         /\ \A i \in 1..Len(u) : Queued(u[i])
         /\ \A n : ~(Placed(s, n) /\ Placed(u, n))
<1>1. \A i \in 1..Len(s) : s[i] = Input(s[i].n) /\ s[i].n \in 1..Len(q) /\ q[s[i].n] = "steer"
  BY DEF OfKind
<1>2. \A i \in 1..Len(u) : u[i] = Input(u[i].n) /\ u[i].n \in 1..Len(q)
        /\ q[u[i].n] = "followUp"
  BY DEF OfKind
<1>3. Before(q, s, u) /\ Before(q, u, s)
  BY <1>1, <1>2 DEF Before, InOrder
<1>4. \A m : m = Input(m.n) => m.role = "user"
  BY DEF Input
<1>5. \A i \in 1..Len(s) : Queued(s[i])
  BY <1>1, <1>4 DEF Queued
<1>6. \A i \in 1..Len(u) : Queued(u[i])
  BY <1>2, <1>4 DEF Queued
<1>7. Numbered(q, s) /\ Numbered(q, u)
  BY <1>1, <1>2 DEF Numbered
<1>8. ASSUME NEW n, Placed(s, n), Placed(u, n) PROVE FALSE
  <2>1. PICK i \in 1..Len(s) : s[i] = Input(n)
    BY <1>8 DEF Placed
  <2>2. PICK j \in 1..Len(u) : u[j] = Input(n)
    BY <1>8 DEF Placed
  <2>3. s[i].n = u[j].n
    BY <2>1, <2>2
  <2> QED
    BY <1>1, <1>2, <2>3
<1> QED
  BY <1>3, <1>5, <1>6, <1>7, <1>8

\* The queues stay in order, behind what was taken from them.
LEMMA StepSorted ==
  ASSUME LoopTyped, Answering, Sorted, [LoopNext]_loopVars
  PROVE  Sorted'
<1> USE DEF LoopTyped, LoopTypeOK
<1>0. <<>> \in Seq(Message) /\ Len(<<>>) = 0
  OBVIOUS
<1>e. \A q, kind, s : /\ OfKind(q, kind, <<>>) /\ Numbered(q, <<>>) /\ Increasing(q, <<>>)
                      /\ Before(q, s, <<>>) /\ Before(q, <<>>, s)
  BY DEF OfKind, Numbered, Increasing, Before
<1>s. /\ messages \in Seq(Message) /\ pending \in Seq(Message) /\ mode \in Modes
      /\ steerQueue \in Seq(Message) /\ followupQueue \in Seq(Message)
  OBVIOUS
<1>q. /\ OfKind(queued, "steer", steerQueue) /\ OfKind(queued, "followUp", followupQueue)
      /\ Numbered(queued, messages) /\ Increasing(queued, messages)
      /\ Before(queued, messages, steerQueue) /\ Before(queued, messages, followupQueue)
      /\ Numbered(queued, pending) /\ Increasing(queued, pending)
      /\ Before(queued, pending, steerQueue) /\ Before(queued, pending, followupQueue)
      /\ Increasing(queued, steerQueue) /\ Increasing(queued, followupQueue)
      /\ Before(queued, messages, pending)
      /\ \A i \in 1..Len(pending) : Queued(pending[i])
  BY DEF Sorted
<1>k. Numbered(queued, steerQueue) /\ Numbered(queued, followupQueue)
  BY <1>q, KindsApart
<1>1. CASE NewInput
  <2> DEFINE m == Input(Len(queued) + 1)
  <2>1. /\ Len(queued) \in Nat /\ m \in Message /\ Queued(m) /\ m.n = Len(queued) + 1
        /\ m = Input(m.n)
    BY DEF Message, Input, Queued
  <2>2. \A k \in {"steer", "followUp"} : Append(queued, k)[m.n] = k
          /\ m.n \in 1..Len(Append(queued, k))
    BY <2>1
  <2> HIDE DEF m
  <2>3. \A s \in Seq(Message) :
          Numbered(queued, s) => \A i \in 1..Len(s) : Queued(s[i]) => s[i].n < m.n
    BY <2>1 DEF Numbered
  <2>4. \A s \in Seq(Message) :
          /\ Append(s, m) \in Seq(Message) /\ Len(Append(s, m)) = Len(s) + 1
          /\ \A i \in 1..Len(s) : Append(s, m)[i] = s[i]
          /\ Append(s, m)[Len(s) + 1] = m /\ Len(s) \in Nat
    BY <2>1
  <2>5. ASSUME NEW k \in {"steer", "followUp"}, NEW r, r = Append(queued, k),
               NEW s \in Seq(Message), OfKind(queued, k, s), Increasing(queued, s)
        PROVE  /\ OfKind(r, k, Append(s, m)) /\ Increasing(r, Append(s, m))
               /\ \A u \in Seq(Message) : Numbered(queued, u) /\ Before(queued, u, s)
                    => Before(r, u, Append(s, m))
    <3>1. OfKind(r, k, s) /\ Numbered(queued, s)
      <4>1. OfKind(r, k, s)
        BY <2>5, MoreQueued
      <4>2. Numbered(queued, s)
        BY <2>5 DEF OfKind, Numbered
      <4> QED
        BY <4>1, <4>2
    <3>2. Increasing(r, s)
      BY <2>5, <3>1, MoreQueued
    <3>3. \A i \in 1..Len(Append(s, m)) : i \in 1..Len(s)
            \/ (i = Len(s) + 1 /\ Append(s, m)[i] = m)
      <4>1. /\ Len(Append(s, m)) = Len(s) + 1 /\ Len(s) \in Nat
            /\ Append(s, m)[Len(s) + 1] = m
        BY <2>4, <2>5
      <4> QED
        BY <4>1
    <3>4. OfKind(r, k, Append(s, m))
      BY <2>1, <2>2, <2>4, <2>5, <3>1, <3>3 DEF OfKind
    <3>5. Increasing(r, Append(s, m))
      <4> SUFFICES ASSUME NEW i \in 1..Len(Append(s, m)), NEW j \in 1..Len(Append(s, m)), i < j
                   PROVE  InOrder(r, Append(s, m)[i], Append(s, m)[j])
        BY DEF Increasing
      <4>1. i \in 1..Len(s) /\ Append(s, m)[i] = s[i]
        BY <2>4
      <4>2. CASE j \in 1..Len(s)
        BY <2>4, <3>2, <4>1, <4>2 DEF Increasing
      <4>3. CASE j \notin 1..Len(s)
        BY <2>3, <3>1, <3>3, <4>1, <4>3 DEF InOrder
      <4> QED
        BY <4>2, <4>3
    <3>6. ASSUME NEW u \in Seq(Message), Numbered(queued, u), Before(queued, u, s)
          PROVE  Before(r, u, Append(s, m))
      <4>1. Before(r, u, s)
        BY <2>5, <3>1, <3>6, MoreQueued
      <4>2. \A i \in 1..Len(u) : InOrder(r, u[i], m)
        BY <2>3, <3>6 DEF InOrder
      <4> QED
        BY <2>4, <3>3, <4>1, <4>2 DEF Before
    <3> QED
      BY <3>4, <3>5, <3>6
  <2>6. ASSUME NEW k \in {"steer", "followUp"}, queued' = Append(queued, k)
        PROVE  /\ Numbered(queued', messages) /\ Increasing(queued', messages)
               /\ Numbered(queued', pending) /\ Increasing(queued', pending)
               /\ Before(queued', messages, pending)
               /\ \A s \in {messages, pending} :
                    Before(queued', s, steerQueue) /\ Before(queued', s, followupQueue)
               /\ OfKind(queued', "steer", steerQueue)
                    /\ OfKind(queued', "followUp", followupQueue)
               /\ Increasing(queued', steerQueue) /\ Increasing(queued', followupQueue)
    <3> HIDE DEF LoopTyped, LoopTypeOK
    <3>1. queued \in Seq({"steer", "followUp"})
      BY DEF LoopTyped, LoopTypeOK
    <3>2. \A s \in Seq(Message) : Numbered(queued, s) =>
            /\ Numbered(queued', s)
            /\ Increasing(queued, s) => Increasing(queued', s)
            /\ \A u \in Seq(Message) :
                 Numbered(queued, u) /\ Before(queued, s, u) => Before(queued', s, u)
      BY <2>6, <3>1, MoreQueued
    <3>3. OfKind(queued', "steer", steerQueue) /\ OfKind(queued', "followUp", followupQueue)
      BY <1>q, <2>6, <3>1, MoreQueued
    <3> QED
      BY <1>s, <1>q, <1>k, <3>2, <3>3
  <2>7. CASE queued' = Append(queued, "steer")
    <3>1. steerQueue' = Append(steerQueue, m) /\ UNCHANGED <<followupQueue, messages, pending>>
      <4>1. Append(queued, "steer")[Len(queued) + 1] = "steer"
              /\ Append(queued, "followUp")[Len(queued) + 1] = "followUp"
        OBVIOUS
      <4> QED
        BY <1>1, <2>7, <4>1 DEF NewInput, m
    <3>2. /\ OfKind(queued', "steer", steerQueue') /\ Increasing(queued', steerQueue')
          /\ Before(queued', messages, steerQueue') /\ Before(queued', pending, steerQueue')
      BY <1>s, <1>q, <2>5, <2>7, <3>1
    <3> QED
      BY <1>q, <2>6, <2>7, <3>1, <3>2 DEF Sorted
  <2>8. CASE queued' = Append(queued, "followUp")
    <3>1. /\ followupQueue' = Append(followupQueue, m)
          /\ UNCHANGED <<steerQueue, messages, pending>>
      <4>1. Append(queued, "steer")[Len(queued) + 1] = "steer"
              /\ Append(queued, "followUp")[Len(queued) + 1] = "followUp"
        OBVIOUS
      <4> QED
        BY <1>1, <2>8, <4>1 DEF NewInput, m
    <3>2. /\ OfKind(queued', "followUp", followupQueue') /\ Increasing(queued', followupQueue')
          /\ Before(queued', messages, followupQueue')
               /\ Before(queued', pending, followupQueue')
      BY <1>s, <1>q, <2>5, <2>8, <3>1
    <3> QED
      BY <1>q, <2>6, <2>8, <3>1, <3>2 DEF Sorted
  <2> QED
    BY <1>1, <2>7, <2>8 DEF NewInput
<1>2. CASE Cleared
  BY <1>2, <1>e, <1>q DEF Cleared, Sorted
<1>3. CASE Taken
  <2>1. pending = <<>> /\ UNCHANGED <<messages, queued>>
    BY <1>3 DEF Taken
  <2>2. CASE pending' = Drained(steerQueue) /\ steerQueue' = Left(steerQueue)
          /\ followupQueue' = followupQueue
    <3>1. /\ OfKind(queued, "steer", pending') /\ OfKind(queued, "steer", steerQueue')
          /\ Increasing(queued, pending') /\ Increasing(queued, steerQueue')
          /\ Before(queued, pending', steerQueue')
          /\ Before(queued, messages, pending') /\ Before(queued, messages, steerQueue')
      BY <1>s, <1>q, <2>2, DrainOrder
    <3>2. /\ Before(queued, pending', followupQueue) /\ Numbered(queued, pending')
          /\ \A i \in 1..Len(pending') : Queued(pending'[i])
      BY <1>q, <3>1, KindsApart
    <3> QED
      BY <1>q, <2>1, <2>2, <3>1, <3>2 DEF Sorted
  <2>3. CASE pending' = Drained(followupQueue) /\ followupQueue' = Left(followupQueue)
          /\ steerQueue' = steerQueue
    <3>1. /\ OfKind(queued, "followUp", pending') /\ OfKind(queued, "followUp", followupQueue')
          /\ Increasing(queued, pending') /\ Increasing(queued, followupQueue')
          /\ Before(queued, pending', followupQueue')
          /\ Before(queued, messages, pending') /\ Before(queued, messages, followupQueue')
      BY <1>s, <1>q, <2>3, DrainOrder
    <3>2. /\ Before(queued, pending', steerQueue) /\ Numbered(queued, pending')
          /\ \A i \in 1..Len(pending') : Queued(pending'[i])
      BY <1>q, <3>1, KindsApart
    <3> QED
      BY <1>q, <2>1, <2>3, <3>1, <3>2 DEF Sorted
  <2> QED
    BY <1>3, <2>2, <2>3 DEF Taken
<1>4. CASE Injected
  <2>1. /\ messages' = messages \o pending /\ pending' = <<>>
        /\ UNCHANGED <<steerQueue, followupQueue, queued>>
    BY <1>4 DEF Injected
  <2>2. /\ Numbered(queued, messages') /\ Increasing(queued, messages')
        /\ Before(queued, messages', steerQueue) /\ Before(queued, messages', followupQueue)
    BY <1>s, <1>q, <2>1, ConcatOrder
  <2>3. /\ Numbered(queued, pending') /\ Increasing(queued, pending')
        /\ Before(queued, pending', steerQueue) /\ Before(queued, pending', followupQueue)
        /\ Before(queued, messages', pending')
             /\ \A i \in 1..Len(pending') : Queued(pending'[i])
    <3>1. Len(pending') = 0 /\ 1..0 = {}
      BY <1>0, <2>1
    <3> QED
      BY <1>e, <2>1, <3>1
  <2> QED
    BY <1>q, <2>1, <2>2, <2>3 DEF Sorted
<1>5. ASSUME NEW u \in Seq(Message), Added(u) PROVE Sorted'
  <2>1. /\ messages' = messages \o u
        /\ UNCHANGED <<pending, steerQueue, followupQueue, queued>>
    BY <1>5 DEF Added
  <2>2. Numbered(queued, u) /\ Increasing(queued, u)
        /\ \A v : Before(queued, u, v) /\ Before(queued, v, u)
    BY <1>5, Unqueued DEF Added
  <2>3. /\ Numbered(queued, messages') /\ Increasing(queued, messages')
        /\ \A v \in {pending, steerQueue, followupQueue} : Before(queued, messages', v)
    BY <1>s, <1>q, <2>1, <2>2, ConcatOrder
  <2> QED
    BY <1>q, <2>1, <2>3 DEF Sorted
<1>6. CASE UNCHANGED <<messages, pending, steerQueue, followupQueue, queued, cleared>>
  BY <1>6, <1>q DEF Sorted
<1> QED
  BY <1>1, <1>2, <1>3, <1>4, <1>5, <1>6, Flow

\* Nothing is in two places that are in order.
LEMMA Apart ==
  ASSUME NEW q, NEW s, NEW u, NEW n \in Nat \ {0}, Before(q, s, u), Placed(s, n)
  PROVE  ~Placed(u, n)
<1>1. Queued(Input(n)) /\ Input(n).n = n
  BY DEF Queued, Input
<1> QED
  BY <1>1 DEF Before, InOrder, Placed

\* A message leaves a place for the next one, or is cleared.
LEMMA StepKept ==
  ASSUME LoopTyped, Answering, Sorted, Kept, [LoopNext]_loopVars
  PROVE  Kept'
<1>s. /\ messages \in Seq(Message) /\ pending \in Seq(Message) /\ mode \in Modes
      /\ steerQueue \in Seq(Message) /\ followupQueue \in Seq(Message)
      /\ queued \in Seq({"steer", "followUp"}) /\ cleared \subseteq 1..Len(queued)
           /\ Len(queued) \in Nat
  BY DEF LoopTyped, LoopTypeOK
<1>k. \A n \in 1..Len(queued) :
        n \in cleared <=> ~(Placed(messages, n) \/ Placed(pending, n)
                            \/ Placed(steerQueue, n) \/ Placed(followupQueue, n))
  BY DEF Kept
<1> SUFFICES ASSUME NEW n \in 1..Len(queued')
             PROVE  n \in cleared' <=> ~(Placed(messages', n) \/ Placed(pending', n)
                                         \/ Placed(steerQueue', n) \/ Placed(followupQueue', n))
  BY DEF Kept
<1>e. \A m : ~Placed(<<>>, m)
  BY DEF Placed
<1>1. CASE NewInput
  <2> DEFINE m == Input(Len(queued) + 1)
  <2>1. m \in Message /\ \A k \in Nat : m = Input(k) <=> k = Len(queued) + 1
    BY <1>s DEF Message, Input
  <2> HIDE DEF m
  <2>2. ASSUME NEW s \in Seq(Message)
        PROVE Placed(Append(s, m), n) <=> Placed(s, n) \/ m = Input(n)
    <3>1. /\ Len(s) \in Nat /\ Len(Append(s, m)) = Len(s) + 1 /\ Append(s, m)[Len(s) + 1] = m
          /\ \A i \in 1..Len(s) : Append(s, m)[i] = s[i]
      BY <2>1
    <3>2. \A i \in 1..Len(s) : i \in 1..Len(Append(s, m))
      BY <3>1
    <3>3. Len(s) + 1 \in 1..Len(Append(s, m))
      BY <3>1
    <3>4. \A i \in 1..Len(Append(s, m)) : i \in 1..Len(s) \/ i = Len(s) + 1
      BY <3>1
    <3> QED
      BY <3>1, <3>2, <3>3, <3>4 DEF Placed
  <2>3. /\ Len(queued') = Len(queued) + 1
        /\ \/ steerQueue' = Append(steerQueue, m) /\ followupQueue' = followupQueue
           \/ followupQueue' = Append(followupQueue, m) /\ steerQueue' = steerQueue
        /\ UNCHANGED <<messages, pending, cleared>>
    BY <1>1, <1>s DEF NewInput, m
  <2>4. CASE n = Len(queued) + 1
    <3>1. n \notin cleared
      BY <1>s, <2>4
    <3>2. m = Input(n)
      BY <1>s, <2>1, <2>4
    <3> QED
      BY <1>s, <2>2, <2>3, <3>1, <3>2
  <2>5. CASE n \in 1..Len(queued)
    <3>1. m # Input(n)
      BY <1>s, <2>1, <2>5
    <3>2. /\ Placed(steerQueue', n) <=> Placed(steerQueue, n)
          /\ Placed(followupQueue', n) <=> Placed(followupQueue, n)
      <4>1. /\ Placed(Append(steerQueue, m), n) <=> Placed(steerQueue, n)
            /\ Placed(Append(followupQueue, m), n) <=> Placed(followupQueue, n)
        BY <1>s, <2>2, <3>1
      <4> QED
        BY <2>3, <4>1
    <3>3. messages' = messages /\ pending' = pending /\ cleared' = cleared
      BY <2>3
    <3> QED
      BY <1>k, <2>5, <3>2, <3>3
  <2> QED
    BY <1>s, <2>3, <2>4, <2>5
<1>2. CASE Cleared
  <2>1. /\ UNCHANGED <<messages, pending, queued>> /\ n \in 1..Len(queued) /\ n \in Nat \ {0}
    BY <1>2, <1>s DEF Cleared
  <2>2. \A s, kind : OfKind(queued, kind, s) => (n \in Numbers(s) <=> Placed(s, n))
    BY DEF OfKind, Numbers, Placed, Input
  <2>3. /\ OfKind(queued, "steer", steerQueue) /\ OfKind(queued, "followUp", followupQueue)
        /\ \A s \in {messages, pending} : Before(queued, s, steerQueue)
             /\ Before(queued, s, followupQueue)
    BY DEF Sorted
  <2>4. Before(queued, steerQueue, followupQueue) /\ Before(queued, followupQueue, steerQueue)
    BY <2>3, KindsApart
  <2>5. /\ Placed(steerQueue, n) =>
             ~Placed(messages, n) /\ ~Placed(pending, n) /\ ~Placed(followupQueue, n)
        /\ Placed(followupQueue, n) =>
             ~Placed(messages, n) /\ ~Placed(pending, n) /\ ~Placed(steerQueue, n)
    BY <2>1, <2>3, <2>4, Apart
  <2>6. /\ n \in Numbers(steerQueue) <=> Placed(steerQueue, n)
        /\ n \in Numbers(followupQueue) <=> Placed(followupQueue, n)
    BY <2>2, <2>3
  <2>7. CASE cleared' = cleared \cup Numbers(steerQueue) /\ steerQueue' = <<>>
          /\ followupQueue' = followupQueue
    BY <1>e, <1>k, <2>1, <2>5, <2>6, <2>7
  <2>8. CASE cleared' = cleared \cup Numbers(followupQueue) /\ followupQueue' = <<>>
          /\ steerQueue' = steerQueue
    BY <1>e, <1>k, <2>1, <2>5, <2>6, <2>8
  <2> QED
    BY <1>2, <2>7, <2>8 DEF Cleared
<1>3. CASE Taken
  <2>1. /\ pending = <<>> /\ UNCHANGED <<messages, queued, cleared>>
        /\ \/ /\ pending' = Drained(steerQueue) /\ steerQueue' = Left(steerQueue)
              /\ followupQueue' = followupQueue
           \/ /\ pending' = Drained(followupQueue) /\ followupQueue' = Left(followupQueue)
              /\ steerQueue' = steerQueue
    BY <1>3 DEF Taken
  <2>2. /\ Placed(steerQueue, n) <=> Placed(Drained(steerQueue), n)
             \/ Placed(Left(steerQueue), n)
        /\ Placed(followupQueue, n) <=> Placed(Drained(followupQueue), n)
             \/ Placed(Left(followupQueue), n)
    BY <1>s, DrainOrder DEF Sorted
  <2> QED
    BY <1>e, <1>k, <2>1, <2>2
<1>4. CASE Injected
  <2>1. /\ messages' = messages \o pending /\ pending' = <<>>
        /\ UNCHANGED <<steerQueue, followupQueue, queued, cleared>>
    BY <1>4 DEF Injected
  <2>2. Placed(messages', n) <=> Placed(messages, n) \/ Placed(pending, n)
    BY <1>s, <2>1, ConcatOrder
  <2> QED
    BY <1>e, <1>k, <2>1, <2>2
<1>5. ASSUME NEW u \in Seq(Message), Added(u)
      PROVE  n \in cleared' <=> ~(Placed(messages', n) \/ Placed(pending', n)
                                  \/ Placed(steerQueue', n) \/ Placed(followupQueue', n))
  <2>1. /\ messages' = messages \o u
        /\ UNCHANGED <<pending, steerQueue, followupQueue, queued, cleared>>
    BY <1>5 DEF Added
  <2>2. n \in 1..Len(queued) /\ n \in Nat \ {0}
    BY <1>s, <2>1
  <2>3. Placed(messages', n) <=> Placed(messages, n) \/ Placed(u, n)
    BY <1>s, <2>1, ConcatOrder
  <2>4. ~Placed(u, n)
    BY <1>5, <2>2, Unqueued DEF Added
  <2> QED
    BY <1>k, <2>1, <2>2, <2>3, <2>4
<1>6. CASE UNCHANGED <<messages, pending, steerQueue, followupQueue, queued, cleared>>
  BY <1>6, <1>k
<1> QED
  BY <1>1, <1>2, <1>3, <1>4, <1>5, <1>6, Flow

\* What is no user input, or one message after no queued one, keeps queued input apart.
LEMMA PushSeparate ==
  ASSUME NEW s \in Seq(Message), NEW u \in Seq(Message), NEW b \in Nat, Separate(b, s),
         \/ \A i \in 1..Len(u) : u[i].role # "user"
         \/ Len(u) <= 1 /\ (Len(s) > 0 => ~Queued(s[Len(s)]))
  PROVE  Separate(b, s \o u)
<1> DEFINE w == s \o u
<1>0. /\ Len(s) \in Nat /\ Len(u) \in Nat /\ Len(w) = Len(s) + Len(u)
      /\ \A i \in 1..Len(s) : w[i] = s[i]
      /\ \A i \in 1..Len(w) : i \in 1..Len(s)
           \/ (i - Len(s) \in 1..Len(u) /\ w[i] = u[i - Len(s)])
  BY Concat
<1> HIDE DEF w
<1> SUFFICES ASSUME NEW i \in (b + 1)..(Len(w) - 1), Queued(w[i]), w[i + 1].role = "user"
             PROVE  FALSE
  BY DEF Separate, w
<1>1. i \in 1..Len(w) /\ i + 1 \in 1..Len(w)
  BY <1>0
<1>2. CASE i < Len(s)
  <2>1. i \in (b + 1)..(Len(s) - 1) /\ w[i] = s[i] /\ w[i + 1] = s[i + 1]
    BY <1>0, <1>1, <1>2
  <2> QED
    BY <2>1 DEF Separate
<1>3. CASE ~(i < Len(s))
  <2>1. i + 1 - Len(s) \in 1..Len(u) /\ w[i + 1] = u[i + 1 - Len(s)]
    BY <1>0, <1>1, <1>3
  <2>2. Len(u) <= 1 /\ (Len(s) > 0 => ~Queued(s[Len(s)]))
    BY <2>1
  <2>3. i = Len(s) /\ w[i] = s[Len(s)] /\ Len(s) > 0
    BY <1>0, <1>1, <1>3, <2>1, <2>2
  <2> QED
    BY <2>2, <2>3
<1> QED
  BY <1>2, <1>3

\* The last element of a concatenation.
LEMMA LastOf ==
  ASSUME NEW s \in Seq(Message), NEW u \in Seq(Message), Len(u) > 0
  PROVE  Len(s \o u) > Len(s) /\ Len(u) \in 1..Len(u) /\ (s \o u)[Len(s \o u)] = u[Len(u)]
<1>1. /\ Len(s) \in Nat /\ Len(u) \in Nat /\ Len(s \o u) = Len(s) + Len(u)
      /\ \A i \in 1..Len(u) : (s \o u)[Len(s) + i] = u[i]
  BY Concat
<1>2. Len(u) \in 1..Len(u)
  BY <1>1
<1> QED
  BY <1>1, <1>2

\* In a OneAtATime turn what is injected comes after a response, a result or the prompt.
LEMMA StepSpaced ==
  ASSUME LoopTyped, Answering, Spaced, [LoopNext]_loopVars
  PROVE  Spaced'
<1> USE DEF Spaced
<1>s. /\ messages \in Seq(Message) /\ pending \in Seq(Message) /\ mode \in Modes
      /\ steerQueue \in Seq(Message) /\ followupQueue \in Seq(Message)
      /\ calls \in Seq(Nat) /\ turnStart \in Nat /\ Len(messages) \in Nat
      /\ streaming = (phase # "idle") /\ (phase # "inject" => pending = <<>>)
  BY LoopAssumption DEF LoopTyped, LoopTypeOK
<1>1. CASE Steer
  BY <1>1, <1>s DEF Steer, Queue, controlVars, localVars, queueHistory, loopControl
<1>2. CASE FollowUp
  BY <1>2, <1>s DEF FollowUp, Queue, controlVars, localVars, queueHistory, loopControl
<1>3. CASE Abort
  BY <1>3, <1>s DEF Abort, controlVars, localVars, queueHistory, loopControl
<1>4. CASE ClearSteer
  BY <1>4, <1>s DEF ClearSteer, controlVars, localVars, queueHistory, loopControl
<1>5. CASE ClearFollowup
  BY <1>5, <1>s DEF ClearFollowup, controlVars, localVars, queueHistory, loopControl
<1>6. CASE SetQueueMode
  BY <1>6, <1>s DEF SetQueueMode, controlVars, localVars, queueHistory, loopControl
<1>7. CASE Prompt
  <2> DEFINE u == <<Input(0)>>
  <2>1. u \in Seq(Message) /\ Len(u) = 1 /\ Len(u) > 0 /\ ~Queued(u[Len(u)])
    <3>1. u \in Seq(Message) /\ Len(u) = 1 /\ u[1] = Input(0) /\ ~Queued(Input(0))
      BY Pushed
    <3> QED
      BY <3>1
  <2>2. messages' = messages \o u /\ turnStart' = Len(messages) /\ pending' = pending
          /\ phase = "idle"
    BY <1>7 DEF Prompt, Push, controlVars, localVars, queueHistory, loopControl
  <2> HIDE DEF u
  <2>3. Len(messages') = Len(messages) + 1
    <3>1. messages \in Seq(Message) /\ u \in Seq(Message) /\ Len(u) = 1
      BY <1>s, <2>1
    <3>2. Len(messages \o u) = Len(messages) + Len(u)
      BY <3>1, Concat
    <3> QED
      BY <2>2, <3>1, <3>2
  <2>4. Separate(turnStart', messages')
    BY <1>s, <2>2, <2>3 DEF Separate
  <2>5. ~Queued(messages'[Len(messages')])
    BY <1>s, <2>1, <2>2, LastOf
  <2>6. Len(pending') = 0
    BY <1>s, <2>2
  <2> QED
    BY <2>4, <2>5, <2>6
<1>8. CASE DrainFirst
  <2>1. mode = "OneAtATime" => Len(Drained(steerQueue)) <= 1
    BY <1>s, DrainFacts
  <2>2. /\ phase = "begin" /\ pending' = Drained(steerQueue)
        /\ UNCHANGED <<messages, turnStart, mode, streaming>>
    BY <1>8 DEF DrainFirst, controlVars, localVars, queueHistory, loopControl
  <2> QED
    BY <2>1, <2>2
<1>9. CASE Inject
  <2>1. /\ messages' = messages \o pending /\ pending' = <<>> /\ phase = "inject"
        /\ phase' \in {"end", "request"} /\ UNCHANGED <<turnStart, mode, streaming>>
    BY <1>9 DEF Inject, Push, Abandon, controlVars, localVars, queueHistory, loopControl
  <2>2. streaming /\ mode = "OneAtATime" => Separate(turnStart', messages')
    BY <1>s, <2>1, PushSeparate
  <2>3. Len(pending') = 0
    BY <2>1
  <2> QED
    BY <2>1, <2>2, <2>3
<1>10. CASE Request
  BY <1>10, <1>s DEF Request, Abandon, controlVars, localVars, queueHistory, loopControl
<1>11. CASE StreamCancelled
  BY <1>11, <1>s DEF StreamCancelled, Abandon, controlVars, localVars, queueHistory,
     loopControl
<1>12. CASE StreamFails
  BY <1>12, <1>s DEF StreamFails, Abandon, controlVars, localVars, queueHistory, loopControl
<1>13. ASSUME NEW k \in 0..MaxCalls, StreamDone(k) PROVE Spaced'
  <2> DEFINE u == <<Response(k)>>
  <2>1. /\ u \in Seq(Message) /\ Len(u) > 0
        /\ \A i \in 1..Len(u) : u[i].role # "user" /\ ~Queued(u[i])
    <3> HIDE DEF u
    <3>1. /\ u \in Seq(Message) /\ Len(u) > 0
          /\ \A i \in 1..Len(u) :
               \E n \in Nat : u[i] \in {Response(n), Result(n)} /\ ~Queued(u[i])
      BY Pushed DEF u
    <3>2. \A n : Response(n).role # "user" /\ Result(n).role # "user"
      BY Pushed
    <3> QED
      BY <3>1, <3>2
  <2>2. messages' = messages \o u /\ UNCHANGED <<turnStart, pending, mode, streaming>>
    BY <1>13 DEF StreamDone, Push, controlVars, localVars, queueHistory, loopControl
  <2> HIDE DEF u
  <2>3. Separate(turnStart, messages) => Separate(turnStart', messages')
    BY <1>s, <2>1, <2>2, PushSeparate
  <2>4. ~Queued(messages'[Len(messages')])
    BY <1>s, <2>1, <2>2, LastOf
  <2> QED
    BY <2>2, <2>3, <2>4
<1>14. CASE Truncated
  <2> DEFINE u == Results(calls)
  <2>0. calls \in Seq(Nat) /\ Len(calls) > 0 /\ \A i \in 1..Len(calls) : calls[i] \in Nat
    <3>1. calls # <<>>
      BY <1>14 DEF Truncated
    <3> QED
      BY <1>s, <3>1
  <2>1. /\ u \in Seq(Message) /\ Len(u) > 0
        /\ \A i \in 1..Len(u) : u[i].role # "user" /\ ~Queued(u[i])
    <3> HIDE DEF u
    <3>1. /\ u \in Seq(Message) /\ Len(u) > 0
          /\ \A i \in 1..Len(u) :
               \E n \in Nat : u[i] \in {Response(n), Result(n)} /\ ~Queued(u[i])
      BY <2>0, Pushed DEF u
    <3>2. \A n : Response(n).role # "user" /\ Result(n).role # "user"
      BY Pushed
    <3> QED
      BY <3>1, <3>2
  <2>2. messages' = messages \o u /\ UNCHANGED <<turnStart, pending, mode, streaming>>
    BY <1>14 DEF Truncated, Push, controlVars, localVars, queueHistory, loopControl
  <2> HIDE DEF u
  <2>3. Separate(turnStart, messages) => Separate(turnStart', messages')
    BY <1>s, <2>1, <2>2, PushSeparate
  <2>4. ~Queued(messages'[Len(messages')])
    BY <1>s, <2>1, <2>2, LastOf
  <2> QED
    BY <2>2, <2>3, <2>4
<1>15. CASE Dispatch
  <2>1. CASE aborted
    <3> DEFINE u == Results(calls)
    <3>0. calls \in Seq(Nat) /\ Len(calls) > 0 /\ \A i \in 1..Len(calls) : calls[i] \in Nat
      <4>1. calls # <<>>
        BY <1>15 DEF Dispatch
      <4> QED
        BY <1>s, <4>1
    <3>1. /\ u \in Seq(Message) /\ Len(u) > 0
          /\ \A i \in 1..Len(u) : u[i].role # "user" /\ ~Queued(u[i])
      <4> HIDE DEF u
      <4>1. /\ u \in Seq(Message) /\ Len(u) > 0
            /\ \A i \in 1..Len(u) :
                 \E n \in Nat : u[i] \in {Response(n), Result(n)} /\ ~Queued(u[i])
        BY <3>0, Pushed DEF u
      <4>2. \A n : Response(n).role # "user" /\ Result(n).role # "user"
        BY Pushed
      <4> QED
        BY <4>1, <4>2
    <3>2. messages' = messages \o u /\ UNCHANGED <<turnStart, pending, mode, streaming>>
      BY <1>15, <2>1 DEF Dispatch, Push, Abandon, controlVars, localVars, queueHistory,
         loopControl
    <3> HIDE DEF u
    <3>3. Separate(turnStart, messages) => Separate(turnStart', messages')
      BY <1>s, <3>1, <3>2, PushSeparate
    <3>4. ~Queued(messages'[Len(messages')])
      BY <1>s, <3>1, <3>2, LastOf
    <3> QED
      BY <3>2, <3>3, <3>4
  <2>2. CASE ~aborted
    <3>1. phase = "dispatch" /\ UNCHANGED <<messages, turnStart, pending, mode, streaming>>
      BY <1>15, <2>2 DEF Dispatch, Push, Abandon, controlVars, localVars, queueHistory,
         loopControl
    <3> QED
      BY <3>1
  <2> QED
    BY <2>1, <2>2
<1>16. CASE ToolReturns
  <2> DEFINE u == <<Result(Head(calls))>>
  <2>0. Head(calls) \in Nat
    <3>1. calls # <<>>
      BY <1>16 DEF ToolReturns, Answering
    <3> QED
      BY <1>s, <3>1, HeadTailProperties
  <2>1. /\ u \in Seq(Message) /\ Len(u) > 0
        /\ \A i \in 1..Len(u) : u[i].role # "user" /\ ~Queued(u[i])
    <3> HIDE DEF u
    <3>1. /\ u \in Seq(Message) /\ Len(u) > 0
          /\ \A i \in 1..Len(u) :
               \E n \in Nat : u[i] \in {Response(n), Result(n)} /\ ~Queued(u[i])
      BY <2>0, Pushed DEF u
    <3>2. \A n : Response(n).role # "user" /\ Result(n).role # "user"
      BY Pushed
    <3> QED
      BY <3>1, <3>2
  <2>2. messages' = messages \o u /\ UNCHANGED <<turnStart, pending, mode, streaming>>
    BY <1>16 DEF ToolReturns, Push, controlVars, localVars, queueHistory, loopControl
  <2> HIDE DEF u
  <2>3. Separate(turnStart, messages) => Separate(turnStart', messages')
    BY <1>s, <2>1, <2>2, PushSeparate
  <2>4. ~Queued(messages'[Len(messages')])
    BY <1>s, <2>1, <2>2, LastOf
  <2> QED
    BY <2>2, <2>3, <2>4
<1>17. CASE DrainSteer
  <2>1. mode = "OneAtATime" => Len(Drained(steerQueue)) <= 1
    BY <1>s, DrainFacts
  <2>2. /\ phase = "drain" /\ pending' = Drained(steerQueue)
        /\ UNCHANGED <<messages, turnStart, mode, streaming>>
    BY <1>17 DEF DrainSteer, controlVars, localVars, queueHistory, loopControl
  <2> QED
    BY <2>1, <2>2
<1>18. CASE DrainFollowup
  <2>1. mode = "OneAtATime" => Len(Drained(followupQueue)) <= 1
    BY <1>s, DrainFacts
  <2>2. /\ phase = "followUp" /\ pending' = Drained(followupQueue)
        /\ UNCHANGED <<messages, turnStart, mode, streaming>>
    BY <1>18 DEF DrainFollowup, Abandon, controlVars, localVars, queueHistory, loopControl
  <2> QED
    BY <2>1, <2>2
<1>19. CASE End
  BY <1>19, <1>s DEF End, controlVars, localVars, queueHistory, loopControl
<1>20. CASE UNCHANGED loopVars
  BY <1>20 DEF loopVars, controlVars, localVars, queueHistory, loopControl
<1> QED
  BY <1>1, <1>2, <1>3, <1>4, <1>5, <1>6, <1>7, <1>8, <1>9, <1>10, <1>11, <1>12, <1>13,
     <1>14, <1>15, <1>16, <1>17, <1>18, <1>19, <1>20 DEF LoopNext, Handles, Loop, StreamEnds

\* Follow-ups are asked for only with the steering queue empty; then it grows by
\* what is counted.
LEMMA StepSteering ==
  ASSUME LoopTyped, SteeringFirst, [LoopNext]_loopVars
  PROVE  SteeringFirst'
<1> USE DEF SteeringFirst
<1>s. steerQueue \in Seq(Message) /\ mode \in Modes /\ late \in Nat
  BY LoopAssumption DEF LoopTyped, LoopTypeOK
<1>1. CASE Steer
  <2>1. /\ steerQueue' = Append(steerQueue, Input(Len(queued) + 1)) /\ phase' = phase
        /\ phase = "followUp" => late' = late + 1
    BY <1>1 DEF Steer, Queue, controlVars, localVars, queueHistory, loopControl
  <2>2. Len(steerQueue') = Len(steerQueue) + 1 /\ Len(steerQueue) \in Nat
    BY <1>s, <2>1
  <2> QED
    BY <1>s, <2>1, <2>2
<1>2. CASE FollowUp
  BY <1>2, <1>s DEF FollowUp, Queue, controlVars, localVars, queueHistory, loopControl
<1>3. CASE Abort
  BY <1>3, <1>s DEF Abort, controlVars, localVars, queueHistory, loopControl
<1>4. CASE ClearSteer
  <2>1. Len(steerQueue') = 0 /\ late' = late
    BY <1>4 DEF ClearSteer, controlVars, localVars, queueHistory, loopControl
  <2> QED
    BY <1>s, <2>1
<1>5. CASE ClearFollowup
  BY <1>5, <1>s DEF ClearFollowup, controlVars, localVars, queueHistory, loopControl
<1>6. CASE SetQueueMode
  BY <1>6, <1>s DEF SetQueueMode, controlVars, localVars, queueHistory, loopControl
<1>7. CASE Prompt
  BY <1>7, <1>s DEF Prompt, Push, controlVars, localVars, queueHistory, loopControl
<1>8. CASE DrainFirst
  BY <1>8, <1>s DEF DrainFirst, controlVars, localVars, queueHistory, loopControl
<1>9. CASE Inject
  BY <1>9, <1>s DEF Inject, Push, Abandon, controlVars, localVars, queueHistory, loopControl
<1>10. CASE Request
  BY <1>10, <1>s DEF Request, Abandon, controlVars, localVars, queueHistory, loopControl
<1>11. CASE StreamCancelled
  BY <1>11, <1>s DEF StreamCancelled, Abandon, controlVars, localVars, queueHistory,
     loopControl
<1>12. CASE StreamFails
  BY <1>12, <1>s DEF StreamFails, Abandon, controlVars, localVars, queueHistory, loopControl
<1>13. ASSUME NEW k \in 0..MaxCalls, StreamDone(k) PROVE SteeringFirst'
  BY <1>13, <1>s DEF StreamDone, Push, controlVars, localVars, queueHistory, loopControl
<1>14. CASE Truncated
  BY <1>14, <1>s DEF Truncated, Push, controlVars, localVars, queueHistory, loopControl
<1>15. CASE Dispatch
  BY <1>15, <1>s DEF Dispatch, Push, Abandon, controlVars, localVars, queueHistory,
     loopControl
<1>16. CASE ToolReturns
  BY <1>16, <1>s DEF ToolReturns, Push, controlVars, localVars, queueHistory, loopControl
<1>17. CASE DrainSteer
  <2>1. /\ pending' = Drained(steerQueue) /\ steerQueue' = Left(steerQueue) /\ late' = late
        /\ phase' = "followUp" => pending' = <<>>
    BY <1>17 DEF DrainSteer, controlVars, localVars, queueHistory, loopControl
  <2>2. Drained(steerQueue) = <<>> => Len(Left(steerQueue)) = 0
    <3>1. PICK d \in 0..Len(steerQueue) :
            /\ Len(Drained(steerQueue)) = d /\ Len(Left(steerQueue)) = Len(steerQueue) - d
            /\ d = 0 <=> steerQueue = <<>>
      BY <1>s, DrainFacts
    <3> QED
      BY <1>s, <3>1
  <2> QED
    BY <1>s, <2>1, <2>2
<1>18. CASE DrainFollowup
  BY <1>18, <1>s DEF DrainFollowup, Abandon, controlVars, localVars, queueHistory,
     loopControl
<1>19. CASE End
  BY <1>19, <1>s DEF End, controlVars, localVars, queueHistory, loopControl
<1>20. CASE UNCHANGED loopVars
  BY <1>20 DEF loopVars, controlVars, localVars, queueHistory, loopControl
<1> QED
  BY <1>1, <1>2, <1>3, <1>4, <1>5, <1>6, <1>7, <1>8, <1>9, <1>10, <1>11, <1>12, <1>13,
     <1>14, <1>15, <1>16, <1>17, <1>18, <1>19, <1>20 DEF LoopNext, Handles, Loop, StreamEnds

\* A queue, or a part of it, has messages of its kind only.
LEMMA KindHas ==
  ASSUME NEW q, NEW kind, NEW s \in Seq(Message), OfKind(q, kind, s)
  PROVE  /\ Has(q, kind, s, 0) <=> s # <<>>
         /\ \A other : other # kind => ~Has(q, other, s, 0)
<1>1. \A i \in 1..Len(s) : Queued(s[i]) /\ q[s[i].n] = kind
  <2>1. \A m : m = Input(m.n) => m.role = "user"
    BY DEF Input
  <2>2. \A i \in 1..Len(s) : s[i] = Input(s[i].n) /\ s[i].n > 0 /\ q[s[i].n] = kind
    BY DEF OfKind
  <2> QED
    BY <2>1, <2>2 DEF Queued
<1>2. (0 + 1)..Len(s) = 1..Len(s)
  OBVIOUS
<1>3. s # <<>> => 1 \in 1..Len(s)
  OBVIOUS
<1>4. s = <<>> => 1..Len(s) = {}
  OBVIOUS
<1> QED
  BY <1>1, <1>2, <1>3, <1>4 DEF Has

\* The loop remembers the steering it takes.
LEMMA StepRemembers ==
  ASSUME LoopTyped, Answering, Sorted, Remembers, [LoopNext]_loopVars
  PROVE  Remembers'
<1> USE DEF Remembers
<1>s. /\ messages \in Seq(Message) /\ pending \in Seq(Message) /\ mode \in Modes
      /\ steerQueue \in Seq(Message) /\ followupQueue \in Seq(Message)
      /\ calls \in Seq(Nat) /\ turnStart \in Nat /\ Len(messages) \in Nat
      /\ turnStart \in 0..Len(messages) /\ queued \in Seq({"steer", "followUp"})
      /\ phase # "inject" => pending = <<>>
  BY LoopAssumption DEF LoopTyped, LoopTypeOK
<1>q. Numbered(queued, messages) /\ Numbered(queued, pending)
  BY DEF Sorted
<1>d. /\ OfKind(queued, "steer", Drained(steerQueue)) /\ Drained(steerQueue) \in Seq(Message)
      /\ OfKind(queued, "followUp", Drained(followupQueue))
           /\ Drained(followupQueue) \in Seq(Message)
  <2>1. /\ OfKind(queued, "steer", steerQueue) /\ Increasing(queued, steerQueue)
        /\ OfKind(queued, "followUp", followupQueue) /\ Increasing(queued, followupQueue)
    BY DEF Sorted
  <2> QED
    BY <1>s, <2>1, DrainOrder, DrainFacts
<1>e. ~Has(queued, "steer", <<>>, 0)
  <2>1. (0 + 1)..Len(<<>>) = {}
    OBVIOUS
  <2> QED
    BY <2>1 DEF Has
<1>1. CASE Steer
  <2>1. /\ queued' = Append(queued, "steer")
        /\ UNCHANGED <<messages, pending, turnStart, phase, steered, outcome>>
    BY <1>1 DEF Steer, Queue, controlVars, localVars, queueHistory, loopControl
  <2>2. /\ Has(queued', "steer", messages, turnStart) <=> Has(queued, "steer", messages, turnStart)
        /\ Has(queued', "steer", pending, 0) <=> Has(queued, "steer", pending, 0)
    BY <1>s, <1>q, <2>1, MoreQueued
  <2> QED
    BY <2>1, <2>2
<1>2. CASE FollowUp
  <2>1. /\ queued' = Append(queued, "followUp")
        /\ UNCHANGED <<messages, pending, turnStart, phase, steered, outcome>>
    BY <1>2 DEF FollowUp, Queue, controlVars, localVars, queueHistory, loopControl
  <2>2. /\ Has(queued', "steer", messages, turnStart) <=> Has(queued, "steer", messages, turnStart)
        /\ Has(queued', "steer", pending, 0) <=> Has(queued, "steer", pending, 0)
    BY <1>s, <1>q, <2>1, MoreQueued
  <2> QED
    BY <2>1, <2>2
<1>3. CASE Abort
  BY <1>3 DEF Abort, controlVars, localVars, queueHistory, loopControl
<1>4. CASE ClearSteer
  BY <1>4 DEF ClearSteer, controlVars, localVars, queueHistory, loopControl
<1>5. CASE ClearFollowup
  BY <1>5 DEF ClearFollowup, controlVars, localVars, queueHistory, loopControl
<1>6. CASE SetQueueMode
  BY <1>6 DEF SetQueueMode, controlVars, localVars, queueHistory, loopControl
<1>7. CASE Prompt
  <2> DEFINE u == <<Input(0)>>
  <2>1. u \in Seq(Message) /\ Len(u) = 1 /\ Len(u) > 0 /\ ~Queued(u[Len(u)])
    <3>1. u \in Seq(Message) /\ Len(u) = 1 /\ u[1] = Input(0) /\ ~Queued(Input(0))
      BY Pushed
    <3> QED
      BY <3>1
  <2>2. messages' = messages \o u /\ turnStart' = Len(messages) /\ phase' = "begin"
    BY <1>7 DEF Prompt, Push, controlVars, localVars, queueHistory, loopControl
  <2> HIDE DEF u
  <2>3. Len(messages') = Len(messages) + 1
    <3>1. messages \in Seq(Message) /\ u \in Seq(Message) /\ Len(u) = 1
      BY <1>s, <2>1
    <3>2. Len(messages \o u) = Len(messages) + Len(u)
      BY <3>1, Concat
    <3> QED
      BY <2>2, <3>1, <3>2
  <2>4. ~Queued(messages'[Len(messages')])
    BY <1>s, <2>1, <2>2, LastOf
  <2>5. \A i \in (turnStart' + 1)..Len(messages') : i = Len(messages')
    BY <1>s, <2>2, <2>3
  <2> QED
    BY <2>2, <2>4, <2>5
<1>8. CASE DrainFirst
  <2>1. /\ phase = "begin" /\ phase' = "inject" /\ pending' = Drained(steerQueue)
        /\ steered' = (pending' # <<>>) /\ UNCHANGED <<messages, turnStart, queued>>
    BY <1>8 DEF DrainFirst, controlVars, localVars, queueHistory, loopControl
  <2>2. ~Has(queued, "steer", messages, turnStart)
    BY <2>1 DEF Has
  <2>3. Has(queued, "steer", pending', 0) <=> pending' # <<>>
    BY <1>d, <2>1, KindHas
  <2> QED
    BY <2>1, <2>2, <2>3
<1>9. CASE Inject
  <2>1. /\ messages' = messages \o pending /\ pending' = <<>> /\ phase = "inject"
        /\ phase' \in {"request", "end"} /\ (phase' = "end" => outcome' = "Aborted")
        /\ UNCHANGED <<turnStart, queued, steered>>
    BY <1>9 DEF Inject, Push, Abandon, controlVars, localVars, queueHistory, loopControl
  <2>2. Has(queued, "steer", messages', turnStart)
          <=> Has(queued, "steer", messages, turnStart) \/ Has(queued, "steer", pending, 0)
    BY <1>s, <2>1, ConcatOrder
  <2>3. ~Has(queued, "steer", pending', 0)
    BY <1>e, <2>1
  <2> QED
    BY <2>1, <2>2, <2>3
<1>10. CASE Request
  BY <1>10 DEF Request, Abandon, controlVars, localVars, queueHistory, loopControl
<1>11. CASE StreamCancelled
  BY <1>11 DEF StreamCancelled, Abandon, controlVars, localVars, queueHistory, loopControl
<1>12. CASE StreamFails
  BY <1>12 DEF StreamFails, Abandon, controlVars, localVars, queueHistory, loopControl
<1>13. ASSUME NEW k \in 0..MaxCalls, StreamDone(k) PROVE Remembers'
  <2> DEFINE u == <<Response(k)>>
  <2>1. u \in Seq(Message) /\ \A i \in 1..Len(u) : ~Queued(u[i])
    BY Pushed
  <2>2. /\ messages' = messages \o u /\ UNCHANGED <<turnStart, pending, queued, steered>>
        /\ phase \notin {"idle", "begin", "end"} /\ phase' # "begin"
        /\ phase' = "end" => outcome' = "Aborted"
    BY <1>13 DEF StreamDone, Push, controlVars, localVars, queueHistory, loopControl
  <2> HIDE DEF u
  <2>3. ~Has(queued, "steer", u, 0)
    BY <2>1, Unqueued
  <2>4. Has(queued, "steer", messages', turnStart) <=> Has(queued, "steer", messages, turnStart)
    BY <1>s, <2>1, <2>2, <2>3, ConcatOrder
  <2> QED
    BY <2>2, <2>4
<1>14. CASE Truncated
  <2> DEFINE u == Results(calls)
  <2>0. calls \in Seq(Nat) /\ Len(calls) > 0 /\ \A i \in 1..Len(calls) : calls[i] \in Nat
    <3>1. calls # <<>>
      BY <1>14 DEF Truncated
    <3> QED
      BY <1>s, <3>1
  <2>1. u \in Seq(Message) /\ \A i \in 1..Len(u) : ~Queued(u[i])
    BY <2>0, Pushed
  <2>2. /\ messages' = messages \o u /\ UNCHANGED <<turnStart, pending, queued, steered>>
        /\ phase \notin {"idle", "begin", "end"} /\ phase' # "begin"
        /\ phase' = "end" => outcome' = "Aborted"
    BY <1>14 DEF Truncated, Push, controlVars, localVars, queueHistory, loopControl
  <2> HIDE DEF u
  <2>3. ~Has(queued, "steer", u, 0)
    BY <2>1, Unqueued
  <2>4. Has(queued, "steer", messages', turnStart) <=> Has(queued, "steer", messages, turnStart)
    BY <1>s, <2>1, <2>2, <2>3, ConcatOrder
  <2> QED
    BY <2>2, <2>4
<1>15. CASE Dispatch
  <2>1. CASE aborted
    <3> DEFINE u == Results(calls)
    <3>0. calls \in Seq(Nat) /\ Len(calls) > 0 /\ \A i \in 1..Len(calls) : calls[i] \in Nat
      <4>1. calls # <<>>
        BY <1>15 DEF Dispatch
      <4> QED
        BY <1>s, <4>1
    <3>1. u \in Seq(Message) /\ \A i \in 1..Len(u) : ~Queued(u[i])
      BY <3>0, Pushed
    <3>2. /\ messages' = messages \o u /\ UNCHANGED <<turnStart, pending, queued, steered>>
          /\ phase \notin {"idle", "begin", "end"} /\ phase' # "begin"
          /\ phase' = "end" => outcome' = "Aborted"
      BY <1>15, <2>1 DEF Dispatch, Push, Abandon, controlVars, localVars, queueHistory,
         loopControl
    <3> HIDE DEF u
    <3>3. ~Has(queued, "steer", u, 0)
      BY <3>1, Unqueued
    <3>4. Has(queued, "steer", messages', turnStart) <=> Has(queued, "steer", messages, turnStart)
      BY <1>s, <3>1, <3>2, <3>3, ConcatOrder
    <3> QED
      BY <3>2, <3>4
  <2>2. CASE ~aborted
    <3>1. /\ phase = "dispatch" /\ phase' = "tool"
          /\ UNCHANGED <<messages, turnStart, pending, queued, steered>>
      BY <1>15, <2>2 DEF Dispatch, Push, Abandon, controlVars, localVars, queueHistory,
         loopControl
    <3> QED
      BY <3>1
  <2> QED
    BY <2>1, <2>2
<1>16. CASE ToolReturns
  <2> DEFINE u == <<Result(Head(calls))>>
  <2>0. Head(calls) \in Nat
    <3>1. calls # <<>>
      BY <1>16 DEF ToolReturns, Answering
    <3> QED
      BY <1>s, <3>1, HeadTailProperties
  <2>1. u \in Seq(Message) /\ \A i \in 1..Len(u) : ~Queued(u[i])
    BY <2>0, Pushed
  <2>2. /\ messages' = messages \o u /\ UNCHANGED <<turnStart, pending, queued, steered>>
        /\ phase \notin {"idle", "begin", "end"} /\ phase' # "begin"
        /\ phase' = "end" => outcome' = "Aborted"
    BY <1>16 DEF ToolReturns, Push, controlVars, localVars, queueHistory, loopControl
  <2> HIDE DEF u
  <2>3. ~Has(queued, "steer", u, 0)
    BY <2>1, Unqueued
  <2>4. Has(queued, "steer", messages', turnStart) <=> Has(queued, "steer", messages, turnStart)
    BY <1>s, <2>1, <2>2, <2>3, ConcatOrder
  <2> QED
    BY <2>2, <2>4
<1>17. CASE DrainSteer
  <2>1. /\ phase = "drain" /\ phase' \in {"inject", "followUp"}
             /\ pending' = Drained(steerQueue)
        /\ steered' = (steered \/ pending' # <<>>) /\ UNCHANGED <<messages, turnStart, queued>>
    BY <1>17 DEF DrainSteer, controlVars, localVars, queueHistory, loopControl
  <2>2. Has(queued, "steer", pending', 0) <=> pending' # <<>>
    BY <1>d, <2>1, KindHas
  <2>3. ~Has(queued, "steer", pending, 0)
    BY <1>s, <1>e, <2>1
  <2> QED
    BY <2>1, <2>2, <2>3
<1>18. CASE DrainFollowup
  <2>1. /\ phase = "followUp" /\ phase' \in {"inject", "end"}
             /\ pending' = Drained(followupQueue)
        /\ UNCHANGED <<messages, turnStart, queued, steered>>
        /\ phase' = "end" => outcome' = IF steered THEN "Steered" ELSE "Completed"
    BY <1>18 DEF DrainFollowup, Abandon, controlVars, localVars, queueHistory, loopControl
  <2>2. ~Has(queued, "steer", pending', 0)
    BY <1>d, <2>1, KindHas
  <2>3. ~Has(queued, "steer", pending, 0)
    BY <1>s, <1>e, <2>1
  <2>4. phase' = "end" => (outcome' = "Steered" <=> steered')
    BY <2>1
  <2>5. steered <=> Has(queued, "steer", messages, turnStart)
    BY <2>1, <2>3
  <2> QED
    BY <2>1, <2>2, <2>4, <2>5
<1>19. CASE End
  BY <1>19 DEF End, controlVars, localVars, queueHistory, loopControl
<1>20. CASE UNCHANGED loopVars
  BY <1>20 DEF loopVars, controlVars, localVars, queueHistory, loopControl
<1> QED
  BY <1>1, <1>2, <1>3, <1>4, <1>5, <1>6, <1>7, <1>8, <1>9, <1>10, <1>11, <1>12, <1>13,
     <1>14, <1>15, <1>16, <1>17, <1>18, <1>19, <1>20 DEF LoopNext, Handles, Loop, StreamEnds

\* Results stay where they are, and what follows them is no result.
LEMMA AnsweredThen ==
  ASSUME NEW s \in Seq(Message), NEW u \in Seq(Message), NEW i \in 1..Len(s), NEW a \in Nat,
         Answered(s, i, a), i + a < Len(s) \/ Len(u) = 0 \/ u[1].role # "tool"
  PROVE  i + a <= Len(s) /\ Answered(s \o u, i, a)
<1> DEFINE w == s \o u
<1>0. /\ Len(s) \in Nat /\ Len(u) \in Nat /\ Len(w) = Len(s) + Len(u)
      /\ \A j \in 1..Len(s) : w[j] = s[j]
      /\ \A j \in 1..Len(w) : j \in 1..Len(s)
           \/ (j - Len(s) \in 1..Len(u) /\ w[j] = u[j - Len(s)])
  BY Concat
<1> HIDE DEF w
<1>1. \A k \in 1..a : i + k \in 1..Len(s) /\ s[i + k] = Result(k)
  BY <1>0 DEF Answered
<1>2. i + a <= Len(s)
  <2>1. CASE a = 0
    BY <1>0, <2>1
  <2>2. CASE a # 0
    BY <1>0, <1>1, <2>2
  <2> QED
    BY <2>1, <2>2
<1>3. ASSUME NEW k \in 1..a PROVE i + k <= Len(w) /\ w[i + k] = Result(k)
  <2>1. i + k \in 1..Len(s) /\ s[i + k] = Result(k)
    BY <1>1
  <2>2. w[i + k] = s[i + k]
    BY <1>0, <2>1
  <2>3. i + k <= Len(w)
    BY <1>0, <2>1
  <2> QED
    BY <2>1, <2>2, <2>3
<1>4. ASSUME i + a < Len(w) PROVE w[i + a + 1].role # "tool"
  <2>1. CASE i + a < Len(s)
    <3>1. i + a + 1 \in 1..Len(s) /\ w[i + a + 1] = s[i + a + 1]
      BY <1>0, <2>1
    <3> QED
      BY <2>1, <3>1 DEF Answered
  <2>2. CASE i + a = Len(s)
    <3>1. i + a + 1 \in 1..Len(w) /\ i + a + 1 - Len(s) = 1 /\ i + a + 1 \notin 1..Len(s)
      BY <1>0, <1>4, <2>2
    <3>2. w[i + a + 1] = u[1] /\ Len(u) > 0
      BY <1>0, <3>1
    <3>3. u[1].role # "tool"
      BY <2>2, <3>2, <1>0
    <3> QED
      BY <3>2, <3>3
  <2> QED
    BY <1>0, <1>2, <2>1, <2>2
<1> QED
  BY <1>2, <1>3, <1>4 DEF Answered, w

\* The responses of a concatenation.
LEMMA ConcatResponses ==
  ASSUME NEW s \in Seq(Message), NEW u \in Seq(Message)
  PROVE  /\ ResponsesOf(s) \subseteq 1..Len(s) /\ Len(s) \in Nat
         /\ \A i \in 1..Len(s) : (s \o u)[i] = s[i] /\ s[i].n \in Nat
         /\ ResponsesOf(s) \subseteq ResponsesOf(s \o u)
         /\ \A i \in ResponsesOf(s \o u) :
              i \in ResponsesOf(s)
                \/ (i - Len(s) \in 1..Len(u) /\ u[i - Len(s)].role = "assistant")
<1>0. /\ Len(s) \in Nat /\ Len(u) \in Nat /\ Len(s \o u) = Len(s) + Len(u)
      /\ \A i \in 1..Len(s) : (s \o u)[i] = s[i]
      /\ \A i \in 1..Len(s \o u) :
           i \in 1..Len(s) \/ (i - Len(s) \in 1..Len(u) /\ (s \o u)[i] = u[i - Len(s)])
  BY Concat
<1>1. \A i \in 1..Len(s) : i \in 1..Len(s \o u)
  BY <1>0
<1>2. ASSUME NEW i \in 1..Len(s) PROVE s[i].n \in Nat
  <2>1. s[i] \in Message
    OBVIOUS
  <2> QED
    BY <2>1 DEF Message
<1> QED
  BY <1>0, <1>1, <1>2 DEF ResponsesOf

\* User input leaves the responses and their results as they are.
LEMMA InputAnswered ==
  ASSUME NEW s \in Seq(Message), NEW u \in Seq(Message),
         \A i \in 1..Len(u) : u[i].role = "user", AllAnswered(s, 0)
  PROVE  AllAnswered(s \o u, 0)
<1>0. /\ ResponsesOf(s) \subseteq 1..Len(s)
      /\ \A i \in 1..Len(s) : (s \o u)[i] = s[i] /\ s[i].n \in Nat
      /\ \A i \in ResponsesOf(s \o u) : i \in ResponsesOf(s)
  BY ConcatResponses
<1>1. Len(u) = 0 \/ u[1].role # "tool"
  BY 1 \in 1..Len(u) \/ Len(u) = 0
<1>2. ASSUME NEW i \in ResponsesOf(s) PROVE Answered(s \o u, i, s[i].n)
  <2>1. i \in 1..Len(s) /\ s[i].n \in Nat
    BY <1>0
  <2>2. Answered(s, i, s[i].n)
    BY <2>1 DEF AllAnswered
  <2> QED
    BY <1>1, <2>1, <2>2, AnsweredThen
<1>3. ASSUME NEW i \in ResponsesOf(s \o u)
      PROVE  Answered(s \o u, i, (s \o u)[i].n
                        - (IF \E j \in ResponsesOf(s \o u) : j > i THEN 0 ELSE 0))
  <2>1. i \in ResponsesOf(s) /\ (s \o u)[i].n = s[i].n /\ s[i].n \in Nat
    BY <1>0
  <2>2. s[i].n - (IF \E j \in ResponsesOf(s \o u) : j > i THEN 0 ELSE 0) = s[i].n
    BY <2>1
  <2> QED
    BY <1>2, <2>1, <2>2
<1> QED
  BY <1>3 DEF AllAnswered

\* A response comes after responses that have their results, and lacks all of its own.
LEMMA ResponseAnswered ==
  ASSUME NEW s \in Seq(Message), NEW k \in Nat, NEW cs, cs = [i \in 1..k |-> i],
    AllAnswered(s, 0)
  PROVE  /\ AllAnswered(s \o <<Response(k)>>, Len(cs))
         /\ OpenCalls(s \o <<Response(k)>>, cs)
<1> DEFINE u == <<Response(k)>>
           w == s \o u
<1>0. /\ u \in Seq(Message) /\ Len(u) = 1 /\ u[1] = Response(k)
      /\ u[1].role = "assistant" /\ Response(k).n = k
  BY Pushed DEF Response
<1> HIDE DEF u
<1>1. /\ ResponsesOf(s) \subseteq 1..Len(s) /\ Len(s) \in Nat
      /\ \A i \in 1..Len(s) : w[i] = s[i] /\ s[i].n \in Nat
      /\ \A i \in ResponsesOf(w) : i \in ResponsesOf(s) \/ i = Len(s) + 1
  <2>1. /\ ResponsesOf(s) \subseteq 1..Len(s) /\ Len(s) \in Nat
        /\ \A i \in 1..Len(s) : w[i] = s[i] /\ s[i].n \in Nat
        /\ \A i \in ResponsesOf(w) : i \in ResponsesOf(s) \/ i - Len(s) \in 1..Len(u)
    BY <1>0, ConcatResponses
  <2>2. ResponsesOf(w) \subseteq Nat
    BY DEF ResponsesOf
  <2> HIDE DEF w
  <2> QED
    BY <1>0, <2>1, <2>2
<1>2. Len(w) = Len(s) + 1 /\ w[Len(s) + 1] = u[1]
  <2>0. s \in Seq(Message) /\ u \in Seq(Message)
    BY <1>0
  <2>1. Len(w) = Len(s) + Len(u) /\ \A i \in 1..Len(u) : w[Len(s) + i] = u[i]
    BY <2>0, Concat
  <2> QED
    BY <1>0, <2>1
<1>3. \A i \in ResponsesOf(s) : i \in 1..Len(s) /\ Answered(w, i, s[i].n)
  <2> SUFFICES ASSUME NEW i \in ResponsesOf(s) PROVE i \in 1..Len(s) /\ Answered(w, i, s[i].n)
    OBVIOUS
  <2>1. i \in 1..Len(s) /\ s[i].n \in Nat
    BY <1>1
  <2>2. Answered(s, i, s[i].n)
    BY <2>1 DEF AllAnswered
  <2>3. u[1].role # "tool"
    BY <1>0
  <2> QED
    BY <1>0, <2>1, <2>2, <2>3, AnsweredThen
<1> HIDE DEF w
<1>4. Len(s) + 1 \in ResponsesOf(w)
  BY <1>0, <1>1, <1>2 DEF ResponsesOf
<1>5. Len(cs) = k /\ \A i \in 1..k : cs[i] = i
  OBVIOUS
<1>6. AllAnswered(w, Len(cs))
  <2> SUFFICES ASSUME NEW i \in ResponsesOf(w)
               PROVE  Answered(w, i, w[i].n - (IF \E j \in ResponsesOf(w) : j > i THEN 0 ELSE Len(cs)))
    BY DEF AllAnswered
  <2>1. CASE i \in ResponsesOf(s)
    <3>1. Len(s) + 1 > i
      BY <1>1, <2>1
    <3>2. w[i].n - (IF \E j \in ResponsesOf(w) : j > i THEN 0 ELSE Len(cs)) = s[i].n
      BY <1>1, <1>4, <2>1, <3>1
    <3> QED
      BY <1>3, <2>1, <3>2
  <2>2. CASE i = Len(s) + 1
    <3>1. ~\E j \in ResponsesOf(w) : j > i
      BY <1>1, <2>2
    <3>2. w[i].n - (IF \E j \in ResponsesOf(w) : j > i THEN 0 ELSE Len(cs)) = 0
      BY <1>0, <1>2, <1>5, <2>2, <3>1
    <3>3. Answered(w, i, 0)
      BY <1>1, <1>2, <2>2 DEF Answered
    <3> QED
      BY <3>2, <3>3
  <2> QED
    BY <1>1, <2>1, <2>2
<1>7. OpenCalls(w, cs)
  <2>1. \A j \in ResponsesOf(w) : j <= Len(s) + 1
    BY <1>1
  <2>2. w[Len(s) + 1].n = k
    BY <1>0, <1>2
  <2>3. \A i \in 1..Len(cs) : cs[i] = k - Len(cs) + i
    BY <1>5
  <2>4. Len(cs) <= k /\ Len(s) + 1 + k - Len(cs) = Len(w)
    BY <1>1, <1>2, <1>5
  <2> QED
    BY <1>4, <2>1, <2>2, <2>3, <2>4 DEF OpenCalls
<1> QED
  BY <1>6, <1>7 DEF w, u

\* u has the results of the first calls of cs, and ds the other calls.
Answers(u, cs, ds) ==
  /\ Len(u) \in 1..Len(cs) /\ Len(cs) = Len(ds) + Len(u)
  /\ \A j \in 1..Len(u) : u[j] = Result(cs[j])
  /\ \A k \in 1..Len(ds) : ds[k] = cs[Len(u) + k]

\* The results of the first calls that are open answer these, and the others stay open.
LEMMA ResultsAnswered ==
  ASSUME NEW s \in Seq(Message), NEW u \in Seq(Message), NEW cs \in Seq(Nat),
    NEW ds \in Seq(Nat),
         Answers(u, cs, ds), OpenCalls(s, cs), AllAnswered(s, Len(cs))
  PROVE  AllAnswered(s \o u, Len(ds)) /\ OpenCalls(s \o u, ds)
<1> DEFINE w == s \o u
           d == Len(u)
<1>a. /\ d \in 1..Len(cs) /\ d \in Nat /\ Len(cs) = Len(ds) + d /\ Len(cs) \in Nat
           /\ Len(ds) \in Nat
      /\ \A j \in 1..d : u[j] = Result(cs[j])
      /\ \A k \in 1..Len(ds) : ds[k] = cs[d + k]
  BY DEF Answers
<1>0. \A j \in 1..Len(u) : u[j].role = "tool"
  BY <1>a, Pushed
<1>1. /\ ResponsesOf(s) \subseteq 1..Len(s) /\ Len(s) \in Nat
      /\ \A i \in 1..Len(s) : w[i] = s[i] /\ s[i].n \in Nat
      /\ ResponsesOf(w) = ResponsesOf(s)
  <2>1. /\ ResponsesOf(s) \subseteq 1..Len(s) /\ Len(s) \in Nat
        /\ \A i \in 1..Len(s) : w[i] = s[i] /\ s[i].n \in Nat
        /\ ResponsesOf(s) \subseteq ResponsesOf(w)
        /\ \A i \in ResponsesOf(w) :
             i \in ResponsesOf(s)
               \/ (i - Len(s) \in 1..Len(u) /\ u[i - Len(s)].role = "assistant")
    BY ConcatResponses
  <2> HIDE DEF w
  <2> QED
    BY <1>0, <2>1
<1>2. Len(w) = Len(s) + d /\ \A j \in 1..d : w[Len(s) + j] = Result(cs[j])
  <2>1. Len(w) = Len(s) + Len(u) /\ \A j \in 1..Len(u) : w[Len(s) + j] = u[j]
    BY Concat
  <2> HIDE DEF w
  <2> QED
    BY <1>a, <2>1
<1> HIDE DEF d
<1>3. PICK r \in ResponsesOf(s) :
        /\ \A j \in ResponsesOf(s) : j <= r
        /\ Len(cs) <= s[r].n /\ r + s[r].n - Len(cs) = Len(s)
        /\ \A k \in 1..Len(cs) : cs[k] = s[r].n - Len(cs) + k
  BY DEF OpenCalls
<1>4. /\ r \in 1..Len(s) /\ s[r].n \in Nat /\ w[r] = s[r] /\ s[r].role = "assistant"
      /\ Len(cs) \in Nat /\ Len(ds) \in Nat /\ Len(cs) = Len(ds) + d /\ r \in Nat
  BY <1>1, <1>a DEF ResponsesOf
<1>r. \A i \in ResponsesOf(s) : i \in 1..Len(s) /\ i \in Nat /\ i <= r
  BY <1>1, <1>3
<1>5. ASSUME NEW i \in ResponsesOf(s), i # r PROVE Answered(w, i, s[i].n)
  <2>1. i \in 1..Len(s) /\ s[i].n \in Nat /\ i < r
    <3>1. i \in 1..Len(s) /\ i \in Nat /\ i <= r /\ r \in Nat
      BY <1>r, <1>4
    <3>2. s[i].n \in Nat
      BY <1>1, <3>1
    <3> QED
      BY <1>5, <3>1, <3>2
  <2>2. s[i].n - (IF \E j \in ResponsesOf(s) : j > i THEN 0 ELSE Len(cs)) = s[i].n
    <3>1. \E j \in ResponsesOf(s) : j > i
      BY <2>1
    <3>2. s[i].n - 0 = s[i].n
      BY <2>1
    <3> QED
      BY <3>1, <3>2
  <2>3. Answered(s, i, s[i].n)
    BY <2>2 DEF AllAnswered
  <2>4. i + s[i].n < r
    <3> SUFFICES ASSUME ~(i + s[i].n < r) PROVE FALSE
      OBVIOUS
    <3>1. r - i \in 1..s[i].n /\ i + (r - i) = r
      BY <1>4, <2>1
    <3>2. s[r] = Result(r - i)
      BY <2>3, <3>1 DEF Answered
    <3> QED
      BY <1>4, <3>2, Pushed
  <2>5. i + s[i].n < Len(s)
    BY <1>4, <2>1, <2>4
  <2> QED
    BY <2>1, <2>3, <2>5, AnsweredThen
<1>6. Answered(s, r, s[r].n - Len(cs))
  <2>1. ~\E j \in ResponsesOf(s) : j > r
    BY <1>r, <1>4
  <2> QED
    BY <2>1 DEF AllAnswered
<1> HIDE DEF w
<1> DEFINE n == s[r].n
<1>n. /\ n \in Nat /\ Len(s) \in Nat /\ Len(cs) \in Nat /\ Len(ds) \in Nat /\ d \in Nat
           /\ r \in Nat
      /\ Len(cs) = Len(ds) + d /\ Len(cs) <= n /\ r + n - Len(cs) = Len(s)
      /\ Len(w) = Len(s) + d /\ r \in 1..Len(s)
  BY <1>1, <1>2, <1>3, <1>4, <1>a
<1>7. Answered(w, r, s[r].n - Len(ds))
  <2> DEFINE a == s[r].n - Len(cs)
  <2>1. a \in Nat /\ s[r].n - Len(ds) = a + d /\ r + a = Len(s)
    <3> HIDE DEF n
    <3>1. n - Len(cs) \in Nat /\ n - Len(ds) = (n - Len(cs)) + d /\ r + (n - Len(cs)) = Len(s)
      BY <1>n
    <3> QED
      BY <3>1 DEF n
  <2>2. \A k \in 1..a : r + k <= Len(s) /\ s[r + k] = Result(k)
    BY <1>6 DEF Answered
  <2>3. \A k \in 1..Len(cs) : cs[k] = a + k
    BY <1>3
  <2> HIDE DEF a, n
  <2>a. a \in Nat /\ d \in Nat /\ r \in Nat /\ Len(s) \in Nat /\ r + a = Len(s)
          /\ Len(w) = Len(s) + d
    BY <1>n, <2>1
  <2>4. ASSUME NEW k \in 1..(a + d) PROVE r + k <= Len(w) /\ w[r + k] = Result(k)
    <3>0. k \in Nat /\ k <= a + d
      BY <2>a
    <3>1. r + k <= Len(w)
      BY <2>a, <3>0
    <3>2. CASE k <= a
      <4>1. k \in 1..a
        BY <2>1, <3>2
      <4>2. r + k \in 1..Len(s)
        BY <1>4, <2>1, <3>2
      <4> QED
        BY <1>1, <2>2, <3>1, <4>1, <4>2
    <3>3. CASE ~(k <= a)
      <4>1. k - a \in 1..d /\ Len(s) + (k - a) = r + k /\ a + (k - a) = k
        <5>1. k - a \in 1..d
          BY <2>a, <3>0, <3>3
        <5>2. a + (k - a) = k
          BY <2>a, <3>0, <3>3
        <5>3. Len(s) + (k - a) = r + k
          <6>1. \A x, y, z \in Nat : (x + y) + (z - y) = x + z
            OBVIOUS
          <6>2. (r + a) + (k - a) = r + k
            BY <2>a, <3>0, <6>1
          <6> QED
            BY <2>a, <6>2
        <5> QED
          BY <5>1, <5>2, <5>3
      <4>2. k - a \in 1..Len(cs)
        <5> HIDE DEF n
        <5> QED
          BY <1>n, <4>1
      <4>3. w[r + k] = Result(cs[k - a]) /\ cs[k - a] = k
        BY <1>2, <2>3, <4>1, <4>2
      <4> QED
        BY <3>1, <4>3
    <3> QED
      BY <3>2, <3>3
  <2>5. ~(r + (a + d) < Len(w))
    BY <2>a
  <2> QED
    BY <2>1, <2>4, <2>5 DEF Answered
<1>8. AllAnswered(w, Len(ds))
  <2> SUFFICES ASSUME NEW i \in ResponsesOf(w)
               PROVE  Answered(w, i, w[i].n - (IF \E j \in ResponsesOf(w) : j > i THEN 0 ELSE Len(ds)))
    BY DEF AllAnswered
  <2>1. CASE i = r
    <3>1. ~\E j \in ResponsesOf(w) : j > i
      BY <1>r, <1>1, <1>4, <2>1
    <3> QED
      BY <1>4, <1>7, <2>1, <3>1
  <2>2. CASE i # r
    <3>1. r \in ResponsesOf(w) /\ r > i /\ w[i].n = s[i].n /\ s[i].n \in Nat
      <4>1. i \in 1..Len(s) /\ i \in Nat /\ i <= r /\ r \in Nat /\ r \in ResponsesOf(w)
        BY <1>r, <1>1, <1>4
      <4>2. w[i].n = s[i].n /\ s[i].n \in Nat
        BY <1>1, <4>1
      <4> QED
        BY <2>2, <4>1, <4>2
    <3>2. w[i].n - (IF \E j \in ResponsesOf(w) : j > i THEN 0 ELSE Len(ds)) = s[i].n
      BY <3>1
    <3> QED
      BY <1>1, <1>5, <2>2, <3>2
  <2> QED
    BY <2>1, <2>2
<1>9. OpenCalls(w, ds)
  <2>0. w[r].n = n
    BY <1>4
  <2>c. \A k \in 1..Len(cs) : cs[k] = n - Len(cs) + k
    BY <1>3
  <2> HIDE DEF n
  <2>1. Len(ds) <= w[r].n /\ r + w[r].n - Len(ds) = Len(w)
    BY <1>n, <2>0
  <2>2. ASSUME NEW k \in 1..Len(ds) PROVE ds[k] = w[r].n - Len(ds) + k
    <3>1. d + k \in 1..Len(cs) /\ ds[k] = cs[d + k]
      BY <1>n, <1>a
    <3>2. cs[d + k] = n - Len(cs) + (d + k)
      BY <2>c, <3>1
    <3>3. n - Len(cs) + (d + k) = n - Len(ds) + k
      BY <1>n
    <3> QED
      BY <2>0, <3>1, <3>2, <3>3
  <2>3. \A j \in ResponsesOf(w) : j <= r
    BY <1>1, <1>3
  <2> QED
    BY <1>1, <2>1, <2>2, <2>3 DEF OpenCalls
<1> QED
  BY <1>8, <1>9 DEF w

\* Responses come when all calls have results, and results answer the first calls left.
LEMMA StepAnswering ==
  ASSUME LoopTyped, Sorted, Answering, AllAnswered(messages, Len(calls)), [LoopNext]_loopVars
  PROVE  Answering' /\ AllAnswered(messages', Len(calls'))
<1> USE DEF Answering
<1>s. /\ messages \in Seq(Message) /\ pending \in Seq(Message) /\ calls \in Seq(Nat)
      /\ <<>> \in Seq(Nat)
  BY LoopAssumption DEF LoopTyped, LoopTypeOK
<1>1. CASE Steer
  BY <1>1 DEF Steer, Queue, controlVars, localVars, queueHistory, loopControl
<1>2. CASE FollowUp
  BY <1>2 DEF FollowUp, Queue, controlVars, localVars, queueHistory, loopControl
<1>3. CASE Abort
  BY <1>3 DEF Abort, controlVars, localVars, queueHistory, loopControl
<1>4. CASE ClearSteer
  BY <1>4 DEF ClearSteer, controlVars, localVars, queueHistory, loopControl
<1>5. CASE ClearFollowup
  BY <1>5 DEF ClearFollowup, controlVars, localVars, queueHistory, loopControl
<1>6. CASE SetQueueMode
  BY <1>6 DEF SetQueueMode, controlVars, localVars, queueHistory, loopControl
<1>7. CASE Prompt
  <2>1. /\ <<Input(0)>> \in Seq(Message)
             /\ \A i \in 1..Len(<<Input(0)>>) : <<Input(0)>>[i].role = "user"
        /\ AllAnswered(messages, 0)
    <3>1. <<Input(0)>> \in Seq(Message) /\ Len(<<Input(0)>>) = 1 /\ <<Input(0)>>[1] = Input(0)
      BY Pushed
    <3>2. calls = <<>>
      BY <1>7 DEF Prompt
    <3>3. Input(0).role = "user"
      BY DEF Input
    <3> QED
      BY <3>1, <3>2, <3>3
  <2>2. messages' = messages \o <<Input(0)>> /\ calls' = calls
          /\ {phase, phase'} \cap {"dispatch", "tool"} = {}
    BY <1>7 DEF Prompt, Push, controlVars, localVars, queueHistory, loopControl
  <2>3. AllAnswered(messages', 0)
    BY <1>s, <2>1, <2>2, InputAnswered
  <2>4. calls = <<>> /\ Len(calls) = 0
    BY <2>2
  <2> QED
    BY <2>2, <2>3, <2>4
<1>8. CASE DrainFirst
  BY <1>8 DEF DrainFirst, controlVars, localVars, queueHistory, loopControl
<1>9. CASE Inject
  <2>1. /\ pending \in Seq(Message) /\ \A i \in 1..Len(pending) : pending[i].role = "user"
        /\ AllAnswered(messages, 0)
    <3>1. calls = <<>>
      BY <1>9 DEF Inject
    <3> QED
      BY <1>s, <3>1 DEF Sorted, Queued
  <2>2. messages' = messages \o pending /\ calls' = calls
          /\ {phase, phase'} \cap {"dispatch", "tool"} = {}
    BY <1>9 DEF Inject, Push, Abandon, controlVars, localVars, queueHistory, loopControl
  <2>3. AllAnswered(messages', 0)
    BY <1>s, <2>1, <2>2, InputAnswered
  <2>4. calls = <<>> /\ Len(calls) = 0
    BY <2>2
  <2> QED
    BY <2>2, <2>3, <2>4
<1>10. CASE Request
  BY <1>10 DEF Request, Abandon, controlVars, localVars, queueHistory, loopControl
<1>11. CASE StreamCancelled
  BY <1>11 DEF StreamCancelled, Abandon, controlVars, localVars, queueHistory, loopControl
<1>12. CASE StreamFails
  BY <1>12 DEF StreamFails, Abandon, controlVars, localVars, queueHistory, loopControl
<1>13. ASSUME NEW k \in 0..MaxCalls, StreamDone(k)
       PROVE Answering' /\ AllAnswered(messages', Len(calls'))
  <2>1. /\ messages' = messages \o <<Response(k)>> /\ calls' = [i \in 1..k |-> i]
        /\ phase = "stream" /\ phase' = IF k > 0 THEN "dispatch" ELSE "drain"
    BY <1>13 DEF StreamDone, Push, controlVars, localVars, queueHistory, loopControl
  <2>2. calls = <<>> /\ Len(calls) = 0 /\ k \in Nat
    BY <2>1, LoopAssumption
  <2>3. AllAnswered(messages', Len(calls')) /\ OpenCalls(messages', calls')
    BY <1>s, <2>1, <2>2, ResponseAnswered
  <2>4. Len(calls') = k /\ calls' \in Seq(Nat)
    BY <2>1, <2>2
  <2>5. calls' # <<>> <=> k > 0
    BY <2>2, <2>4
  <2> QED
    BY <2>1, <2>3, <2>5
<1>14. CASE Truncated
  <2>1. /\ messages' = messages \o Results(calls) /\ calls' = <<>> /\ calls # <<>>
        /\ phase' \notin {"dispatch", "tool"}
    BY <1>14 DEF Truncated, Push, controlVars, localVars, queueHistory, loopControl
  <2>2. /\ Results(calls) \in Seq(Message) /\ Len(Results(calls)) = Len(calls)
        /\ \A i \in 1..Len(calls) : Results(calls)[i] = Result(calls[i])
    BY <1>s, Pushed
  <2>3. Answers(Results(calls), calls, <<>>)
    <3>1. Len(calls) \in 1..Len(calls) /\ Len(<<>>) = 0 /\ Len(calls) = 0 + Len(calls)
            /\ 1..0 = {}
      BY <1>s, <2>1
    <3> QED
      BY <2>2, <3>1 DEF Answers
  <2>4. AllAnswered(messages', Len(calls'))
    BY <1>s, <2>1, <2>2, <2>3, ResultsAnswered
  <2> QED
    BY <2>1, <2>4
<1>15. CASE Dispatch
  <2>1. CASE aborted
    <3>1. /\ messages' = messages \o Results(calls) /\ calls' = <<>> /\ calls # <<>>
          /\ phase' \notin {"dispatch", "tool"}
      BY <1>15, <2>1 DEF Dispatch, Push, Abandon, controlVars, localVars, queueHistory,
         loopControl
    <3>2. /\ Results(calls) \in Seq(Message) /\ Len(Results(calls)) = Len(calls)
          /\ \A i \in 1..Len(calls) : Results(calls)[i] = Result(calls[i])
      BY <1>s, Pushed
    <3>3. Answers(Results(calls), calls, <<>>)
      <4>1. Len(calls) \in 1..Len(calls) /\ Len(<<>>) = 0 /\ Len(calls) = 0 + Len(calls)
              /\ 1..0 = {}
        BY <1>s, <3>1
      <4> QED
        BY <3>2, <4>1 DEF Answers
    <3>4. AllAnswered(messages', Len(calls'))
      BY <1>s, <3>1, <3>2, <3>3, ResultsAnswered
    <3> QED
      BY <3>1, <3>4
  <2>2. CASE ~aborted
    <3>1. phase = "dispatch" /\ phase' = "tool" /\ UNCHANGED <<messages, calls>>
      BY <1>15, <2>2 DEF Dispatch, Push, Abandon, controlVars, localVars, queueHistory,
         loopControl
    <3> QED
      BY <3>1
  <2> QED
    BY <2>1, <2>2
<1>16. CASE ToolReturns
  <2> DEFINE u == <<Result(Head(calls))>>
  <2>1. /\ messages' = messages \o u /\ calls' = Tail(calls) /\ calls # <<>>
        /\ phase' = IF calls' = <<>> THEN "drain" ELSE "dispatch"
    BY <1>16 DEF ToolReturns, Push, controlVars, localVars, queueHistory, loopControl
  <2>2. /\ Head(calls) \in Nat /\ Head(calls) = calls[1] /\ Tail(calls) \in Seq(Nat)
        /\ Len(Tail(calls)) = Len(calls) - 1
             /\ \A i \in 1..(Len(calls) - 1) : Tail(calls)[i] = calls[1 + i]
        /\ Len(calls) \in Nat /\ Len(calls) # 0
    <3>1. calls # <<>> /\ calls \in Seq(Nat)
      BY <1>s, <2>1
    <3> QED
      BY <3>1
  <2>3. u \in Seq(Message) /\ Len(u) = 1 /\ u[1] = Result(calls[1])
    BY <2>2, Pushed
  <2> HIDE DEF u
  <2>4. Answers(u, calls, Tail(calls))
    <3>1. 1 \in 1..Len(calls) /\ Len(calls) = (Len(calls) - 1) + 1
      BY <2>2
    <3> QED
      BY <2>2, <2>3, <3>1 DEF Answers
  <2>5. AllAnswered(messages', Len(calls')) /\ OpenCalls(messages', calls')
    BY <1>s, <2>1, <2>2, <2>3, <2>4, ResultsAnswered
  <2> QED
    BY <2>1, <2>5
<1>17. CASE DrainSteer
  BY <1>17 DEF DrainSteer, controlVars, localVars, queueHistory, loopControl
<1>18. CASE DrainFollowup
  BY <1>18 DEF DrainFollowup, Abandon, controlVars, localVars, queueHistory, loopControl
<1>19. CASE End
  BY <1>19 DEF End, controlVars, localVars, queueHistory, loopControl
<1>20. CASE UNCHANGED loopVars
  BY <1>20 DEF loopVars, controlVars, localVars, queueHistory, loopControl
<1> QED
  BY <1>1, <1>2, <1>3, <1>4, <1>5, <1>6, <1>7, <1>8, <1>9, <1>10, <1>11, <1>12, <1>13,
     <1>14, <1>15, <1>16, <1>17, <1>18, <1>19, <1>20 DEF LoopNext, Handles, Loop, StreamEnds

\* The same, of the property.
LEMMA StepAnswers ==
  ASSUME LoopTyped, Sorted, Answering, CallsAnswered, [LoopNext]_loopVars
  PROVE  Answering' /\ CallsAnswered'
<1>1. AllAnswered(messages, Len(calls))
  BY DEF CallsAnswered, AllAnswered, Answered, Responses, ResponsesOf
<1>2. Answering' /\ AllAnswered(messages', Len(calls'))
  BY <1>1, StepAnswering
<1>3. CallsAnswered'
  BY <1>2 DEF CallsAnswered, Answering, AllAnswered, Answered, Responses, ResponsesOf
<1> QED
  BY <1>2, <1>3

\* At first nothing is queued, and nothing was said.
LEMMA LoopStart == LoopInit => LoopInv
<1> SUFFICES ASSUME LoopInit PROVE LoopInv
  OBVIOUS
<1>1. /\ steerQueue = <<>> /\ followupQueue = <<>> /\ active = FALSE /\ aborted = FALSE
      /\ mode = "OneAtATime" /\ streaming = FALSE /\ messages = <<>> /\ phase = "idle"
      /\ pending = <<>> /\ steered = FALSE /\ hasToolCalls = FALSE /\ calls = <<>>
      /\ turn = 0 /\ turnStart = 0 /\ outcome = "Completed"
      /\ queued = <<>> /\ cleared = {} /\ clearing = FALSE /\ late = 0
  BY DEF LoopInit
<1>2. Len(<<>>) = 0 /\ 1..0 = {} /\ \A S : <<>> \in Seq(S)
  OBVIOUS
<1>3. LoopTyped
  <2>1. /\ <<>> \in Seq(Message) /\ <<>> \in Seq(1..MaxCalls)
             /\ <<>> \in Seq({"steer", "followUp"})
        /\ 0 \in 0..MaxTurns /\ 0 \in 0..MaxQueued /\ 0 <= MaxQueued /\ 0 <= 0 /\ 0 \in Nat
    BY LoopAssumption
  <2>2. /\ steerQueue \in Seq(Message) /\ followupQueue \in Seq(Message)
        /\ messages \in Seq(Message) /\ pending \in Seq(Message) /\ calls \in Seq(1..MaxCalls)
        /\ queued \in Seq({"steer", "followUp"}) /\ Len(queued) <= MaxQueued /\ Len(queued) = 0
        /\ turn \in 0..MaxTurns /\ turnStart \in Nat /\ late \in 0..MaxQueued
        /\ late <= Len(queued) /\ turnStart <= Len(messages)
    BY <1>1, <1>2, <2>1
  <2>3. active = (phase # "idle") /\ streaming = active /\ pending = <<>> /\ phase = "idle"
    BY <1>1
  <2>4. mode \in Modes /\ outcome \in Outcomes
    BY <1>1 DEF Modes, Outcomes
  <2>5. /\ aborted \in BOOLEAN /\ steered \in BOOLEAN /\ hasToolCalls \in BOOLEAN
        /\ clearing \in BOOLEAN /\ cleared \subseteq 1..Len(queued)
    BY <1>1
  <2> QED
    BY <2>2, <2>3, <2>4, <2>5 DEF LoopTyped, LoopTypeOK
<1>4. Answering /\ CallsAnswered
  BY <1>1, <1>2 DEF Answering, CallsAnswered, Responses
<1>5. Sorted
  BY <1>1, <1>2 DEF Sorted, OfKind, Numbered, Increasing, Before
<1>6. Kept
  BY <1>1, <1>2 DEF Kept
<1>7. Spaced
  BY <1>1, <1>2 DEF Spaced
<1>8. SteeringFirst /\ Remembers
  BY <1>1 DEF SteeringFirst, Remembers
<1> QED
  BY <1>3, <1>4, <1>5, <1>6, <1>7, <1>8 DEF LoopInv

\* The invariant of the loop, of its handles and of the streams it reads: what is
\* queued stays in order and in one place, what is called gets its results.
THEOREM LoopInductive == LoopSpec => []LoopInv
<1>1. ASSUME LoopInv, [LoopNext]_loopVars PROVE LoopInv'
  <2>1. LoopTyped /\ Answering /\ CallsAnswered /\ Sorted /\ Kept /\ Spaced /\ SteeringFirst
          /\ Remembers
    BY <1>1 DEF LoopInv
  <2>2. LoopTyped'
    BY <1>1, <2>1, StepLoopTyped
  <2>3. Answering' /\ CallsAnswered'
    BY <1>1, <2>1, StepAnswers
  <2>4. Sorted'
    BY <1>1, <2>1, StepSorted
  <2>5. Kept'
    BY <1>1, <2>1, StepKept
  <2>6. Spaced'
    BY <1>1, <2>1, StepSpaced
  <2>7. SteeringFirst' /\ Remembers'
    BY <1>1, <2>1, StepSteering, StepRemembers
  <2> QED
    BY <2>2, <2>3, <2>4, <2>5, <2>6, <2>7 DEF LoopInv
<1> QED
  BY <1>1, LoopStart, PTL DEF LoopSpec

\* The types of the loop's variables, and the turn that is active is the one that runs.
THEOREM LoopTypeCorrect == LoopSpec => []LoopTypeOK
<1>1. LoopInv => LoopTypeOK
  BY DEF LoopInv, LoopTyped
<1> QED
  BY <1>1, LoopInductive, PTL

\* Every tool call has its result before the next request, and in the history that
\* every turn leaves, however it ends.
THEOREM AnswersCorrect == LoopSpec => []CallsAnswered
<1>1. LoopInv => CallsAnswered
  BY DEF LoopInv
<1> QED
  BY <1>1, LoopInductive, PTL

\* What is queued and not cleared is in one place, once.
LEMMA Once == LoopInv => DeliveredOnce
<1> SUFFICES ASSUME LoopInv PROVE DeliveredOnce
  OBVIOUS
<1> DEFINE a == messages \o pending
           b == a \o steerQueue
           e == b \o followupQueue
<1>s. /\ messages \in Seq(Message) /\ pending \in Seq(Message)
      /\ steerQueue \in Seq(Message) /\ followupQueue \in Seq(Message)
  BY DEF LoopInv, LoopTyped, LoopTypeOK
<1>q. /\ OfKind(queued, "steer", steerQueue) /\ OfKind(queued, "followUp", followupQueue)
      /\ Increasing(queued, messages) /\ Increasing(queued, pending)
           /\ Before(queued, messages, pending)
      /\ Before(queued, messages, steerQueue) /\ Before(queued, messages, followupQueue)
      /\ Before(queued, pending, steerQueue) /\ Before(queued, pending, followupQueue)
      /\ Increasing(queued, steerQueue) /\ Increasing(queued, followupQueue)
  BY DEF LoopInv, Sorted
<1>a. /\ a \in Seq(Message) /\ Increasing(queued, a)
      /\ Before(queued, a, steerQueue) /\ Before(queued, a, followupQueue)
      /\ \A n : Placed(a, n) <=> Placed(messages, n) \/ Placed(pending, n)
  BY <1>s, <1>q, ConcatOrder
<1> HIDE DEF a
<1>b. /\ b \in Seq(Message) /\ Increasing(queued, b) /\ Before(queued, b, followupQueue)
      /\ \A n : Placed(b, n) <=> Placed(a, n) \/ Placed(steerQueue, n)
  <2>1. Before(queued, steerQueue, followupQueue)
    BY <1>q, KindsApart
  <2> QED
    BY <1>s, <1>q, <1>a, <2>1, ConcatOrder
<1> HIDE DEF b
<1>e. /\ e \in Seq(Message) /\ Increasing(queued, e)
      /\ \A n : Placed(e, n) <=> Placed(b, n) \/ Placed(followupQueue, n)
  BY <1>s, <1>q, <1>b, ConcatOrder
<1> HIDE DEF e
<1> SUFFICES ASSUME NEW n \in 1..Len(queued)
             PROVE  Cardinality({i \in 1..Len(e) : e[i] = Input(n)}) = IF n \in cleared THEN 0 ELSE 1
  BY DEF DeliveredOnce, e, b, a
<1>1. n \in cleared <=> ~Placed(e, n)
  <2>1. Placed(e, n) <=> Placed(messages, n) \/ Placed(pending, n)
                         \/ Placed(steerQueue, n) \/ Placed(followupQueue, n)
    BY <1>a, <1>b, <1>e
  <2> QED
    BY <2>1 DEF LoopInv, Kept
<1>2. CASE n \in cleared
  <2>1. {i \in 1..Len(e) : e[i] = Input(n)} = {}
    BY <1>1, <1>2 DEF Placed
  <2> QED
    BY <1>2, <2>1, FS_EmptySet
<1>3. CASE n \notin cleared
  <2>1. PICK i \in 1..Len(e) : e[i] = Input(n)
    BY <1>1, <1>3 DEF Placed
  <2>2. Queued(Input(n)) /\ ~(Input(n).n < Input(n).n)
    <3>1. Input(n).role = "user" /\ Input(n).n = n /\ n > 0 /\ ~(n < n)
      BY DEF Input
    <3> QED
      BY <3>1 DEF Queued
  <2>3. ASSUME NEW j \in 1..Len(e), e[j] = Input(n) PROVE j = i
    <3>1. \A x, y \in 1..Len(e) : x < y => InOrder(queued, e[x], e[y])
      BY <1>e DEF Increasing
    <3>2. ~InOrder(queued, Input(n), Input(n))
      BY <2>2 DEF InOrder
    <3>3. ~(i < j) /\ ~(j < i)
      BY <2>1, <2>3, <3>1, <3>2
    <3> QED
      BY <1>e, <3>3
  <2>4. {j \in 1..Len(e) : e[j] = Input(n)} = {i}
    BY <2>1, <2>3
  <2> QED
    BY <1>3, <2>4, FS_Singleton
<1> QED
  BY <1>2, <1>3

\* A message that a handle queues is in its queue, taken or in the history, once,
\* until a handle clears the queues: no abort and no failed turn loses it.
THEOREM DeliveryCorrect == LoopSpec => []DeliveredOnce
BY Once, LoopInductive, PTL

\* Each queue is delivered in order, and in a OneAtATime turn no two messages that
\* were queued are neighbours.
THEOREM BoundariesCorrect == LoopSpec => []BoundariesKept
<1>1. ASSUME LoopInv PROVE BoundariesKept
  <2>1. messages \in Seq(Message) /\ pending \in Seq(Message)
    BY <1>1 DEF LoopInv, LoopTyped, LoopTypeOK
  <2>2. Increasing(queued, messages \o pending)
    <3>1. /\ Increasing(queued, messages) /\ Increasing(queued, pending)
          /\ Before(queued, messages, pending)
      BY <1>1 DEF LoopInv, Sorted
    <3> QED
      BY <2>1, <3>1, ConcatOrder
  <2>3. streaming /\ mode = "OneAtATime" => Separate(turnStart, messages)
    BY <1>1 DEF LoopInv, Spaced
  <2> DEFINE delivered == messages \o pending
  <2>4. \A i, j \in 1..Len(delivered) : i < j => InOrder(queued, delivered[i], delivered[j])
    BY <2>2 DEF Increasing
  <2>5. \A i, j \in 1..Len(delivered) :
          /\ i < j /\ Queued(delivered[i]) /\ Queued(delivered[j])
          /\ queued[delivered[i].n] = queued[delivered[j].n]
          => delivered[i].n < delivered[j].n
    <3> HIDE DEF delivered
    <3> QED
      BY <2>4 DEF InOrder
  <2> QED
    BY <2>3, <2>5 DEF BoundariesKept, Separate
<1> QED
  BY <1>1, LoopInductive, PTL

\* Follow-ups are asked for when the steering that is queued came after the last look.
THEOREM SteeringCorrect == LoopSpec => []SteeringFirst
<1>1. LoopInv => SteeringFirst
  BY DEF LoopInv
<1> QED
  BY <1>1, LoopInductive, PTL

\* A turn that is not cut short reports Steered exactly when it delivered steering.
THEOREM OutcomeCorrect == LoopSpec => []SteeredOutcome
<1>1. ASSUME LoopInv PROVE SteeredOutcome
  <2> SUFFICES ASSUME phase = "end", outcome \in {"Completed", "Steered"}
               PROVE  outcome = "Steered" <=>
                        \E i \in (turnStart + 1)..Len(messages) :
                          Queued(messages[i]) /\ queued[messages[i].n] = "steer"
    BY DEF SteeredOutcome
  <2>1. pending = <<>>
    BY <1>1 DEF LoopInv, LoopTyped
  <2>2. /\ steered <=> Has(queued, "steer", messages, turnStart)
             \/ Has(queued, "steer", pending, 0)
        /\ outcome = "Steered" <=> steered
    BY <1>1 DEF LoopInv, Remembers
  <2>3. ~Has(queued, "steer", pending, 0)
    <3>1. (0 + 1)..Len(<<>>) = {}
      OBVIOUS
    <3> QED
      BY <2>1, <3>1 DEF Has
  <2>4. outcome = "Steered" <=> Has(queued, "steer", messages, turnStart)
    BY <2>2, <2>3
  <2> QED
    BY <2>4 DEF Has
<1> QED
  BY <1>1, LoopInductive, PTL
=============================================================================
