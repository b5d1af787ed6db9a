-------------------------- MODULE GenerationFence --------------------------
(***************************************************************************)
(* The generation fence of the plugin host                                 *)
(* (crates/mcode-plugin-host/src/generation.rs).                           *)
(*                                                                         *)
(* A fence gates one generation of a Pack set.  Its phase and the number   *)
(* of activities admitted to it live in one atomic word, which every       *)
(* operation reads and swaps without a lock; all the fences of a publisher *)
(* share one publication epoch (even: stable, odd: a publication is under  *)
(* way, Closed: closed for good); a mutex makes a commit window exclude    *)
(* retirement; and a Notify wakes the consumer that waits for the last     *)
(* activity to leave.  One step here is one access to one of those four.   *)
(***************************************************************************)
EXTENDS Integers, Sequences, FiniteSets

CONSTANTS
  Fences,         \* the fences of one publisher
  Threads,        \* Host threads that enter a fence, commit and leave
  Waiters,        \* consumers that await quiescence before they reclaim
  NoOne,          \* not a thread: the commit mutex is free
  Publisher,      \* not a thread: the commit mutex is held by mark_retired
  Closed,         \* PUBLICATION_CLOSED
  MaxEpoch,       \* bound on the publication epoch
  MaxActivities   \* MAX_GENERATION_ACTIVITIES

ASSUME FenceAssumption ==
  /\ IsFiniteSet(Threads)
  /\ NoOne \notin Threads /\ Publisher \notin Threads /\ NoOne # Publisher
  /\ MaxEpoch \in Nat
  /\ Closed \notin 0 .. MaxEpoch
  /\ MaxActivities \in Nat

VARIABLES
  epoch,    \* publication_state
  state,    \* the phase-plus-count word of each fence
  lock,     \* who holds the commit mutex of each fence
  permit,   \* the one stored notification of drained (Notify::notify_one)
  queue,    \* the waiters parked on drained, in the order they were polled
  pc,       \* where each thread is
  on,       \* the fence it works in
  seen,     \* the epoch and the state word it loaded
  ppc,      \* where the publisher is
  pon,      \* the fence it retires
  pseen,    \* the state word it loaded
  wpc,      \* where each waiter is
  won       \* the fence it waits for

vars == <<epoch, state, lock, permit, queue, pc, on, seen, ppc, pon, pseen, wpc, won>>
threadVars == <<pc, on, seen>>
publisherVars == <<ppc, pon, pseen>>
waiterVars == <<wpc, won>>

Phases == {"preparing", "current", "retired"}
Word == [phase : Phases, count : 0 .. MaxActivities]
Epochs == (0 .. MaxEpoch) \cup {Closed}
ThreadPcs == {"idle", "loadState", "cas", "recheck", "notify",
              "active", "checkClosed", "checkPhase", "commit"}

\* A thread at one of these holds a reservation of the fence it is on.
Holding == {"recheck", "active", "checkClosed", "checkPhase", "commit"}
Holders(f) == {t \in Threads : on[t] = f /\ pc[t] \in Holding}

Stable(e) == e # Closed /\ e % 2 = 0

Init ==
  /\ epoch = 0
  /\ state = [f \in Fences |-> [phase |-> "preparing", count |-> 0]]
  /\ lock = [f \in Fences |-> NoOne]
  /\ permit = [f \in Fences |-> FALSE]
  /\ queue = [f \in Fences |-> <<>>]
  /\ pc = [t \in Threads |-> "idle"]
  /\ on \in [Threads -> Fences]
  /\ seen = [t \in Threads |-> [epoch |-> 0, word |-> [phase |-> "preparing", count |-> 0]]]
  /\ ppc = "idle"
  /\ pon \in Fences
  /\ pseen = [phase |-> "preparing", count |-> 0]
  /\ wpc = [w \in Waiters |-> "idle"]
  /\ won \in [Waiters -> Fences]

-----------------------------------------------------------------------------
(* GenerationFence::enter, on a thread.                                    *)

Goto(t, l) == pc' = [pc EXCEPT ![t] = l]

EnterLoadEpoch(t, f) ==
  /\ pc[t] = "idle"
  /\ Stable(epoch)
  /\ on' = [on EXCEPT ![t] = f]
  /\ seen' = [seen EXCEPT ![t].epoch = epoch]
  /\ Goto(t, "loadState")
  /\ UNCHANGED <<epoch, state, lock, permit, queue, publisherVars, waiterVars>>

EnterLoadState(t) ==
  /\ pc[t] = "loadState"
  /\ seen' = [seen EXCEPT ![t].word = state[on[t]]]
  /\ Goto(t, "cas")
  /\ UNCHANGED <<epoch, state, lock, permit, queue, on, publisherVars, waiterVars>>

Admissible(word) == word.phase = "current" /\ word.count # MaxActivities

EnterRefused(t) ==
  /\ pc[t] = "cas"
  /\ ~Admissible(seen[t].word)
  /\ Goto(t, "idle")
  /\ UNCHANGED <<epoch, state, lock, permit, queue, on, seen, publisherVars, waiterVars>>

\* Mutant of EnterSwap: a store in place of the compare-and-swap.
EnterSwap_Store(t) ==
  /\ pc[t] = "cas"
  /\ Admissible(seen[t].word)
  /\ state' = [state EXCEPT ![on[t]] = [seen[t].word EXCEPT !.count = @ + 1]]
  /\ Goto(t, "recheck")
  /\ UNCHANGED <<epoch, lock, permit, queue, on, seen, publisherVars, waiterVars>>

\* compare_exchange_weak: the swap, or a failure that hands back the word.
EnterSwap(t) ==
  /\ pc[t] = "cas"
  /\ Admissible(seen[t].word)
  /\ \/ /\ state[on[t]] = seen[t].word
        /\ state' = [state EXCEPT ![on[t]].count = @ + 1]
        /\ Goto(t, "recheck")
        /\ UNCHANGED seen
     \/ /\ seen' = [seen EXCEPT ![t].word = state[on[t]]]
        /\ UNCHANGED <<state, pc>>
  /\ UNCHANGED <<epoch, lock, permit, queue, on, publisherVars, waiterVars>>

\* Mutant of Admitted: the epoch is not read again.
Admitted_Unchecked(t) == pc[t] = "recheck"

Admitted(t) == pc[t] = "recheck" /\ epoch = seen[t].epoch

EnterRecheck(t) ==
  /\ Admitted(t)
  /\ Goto(t, "active")
  /\ UNCHANGED <<epoch, state, lock, permit, queue, on, seen, publisherVars, waiterVars>>

\* Mutant of Release: notifies one release too early.
Release_Early(t) ==
  /\ state' = [state EXCEPT ![on[t]].count = @ - 1]
  /\ Goto(t, IF state[on[t]].count = 2 THEN "notify" ELSE "idle")
  /\ UNCHANGED <<epoch, lock, permit, queue, on, seen, publisherVars, waiterVars>>

\* GenerationFence::release: the count goes down, and whoever takes it to
\* zero still has the notification to send.
Release(t) ==
  /\ state' = [state EXCEPT ![on[t]].count = @ - 1]
  /\ Goto(t, IF state[on[t]].count = 1 THEN "notify" ELSE "idle")
  /\ UNCHANGED <<epoch, lock, permit, queue, on, seen, publisherVars, waiterVars>>

\* Mutant of EnterWithdraw: the activity is released and returned as well.
EnterWithdraw_Twice(t) ==
  /\ pc[t] = "recheck"
  /\ epoch # seen[t].epoch
  /\ state' = [state EXCEPT ![on[t]].count = @ - 1]
  /\ Goto(t, "active")
  /\ UNCHANGED <<epoch, lock, permit, queue, on, seen, publisherVars, waiterVars>>

EnterWithdraw(t) ==
  /\ pc[t] = "recheck"
  /\ epoch # seen[t].epoch
  /\ Release(t)

\* Drop of a GenerationActivity.
DropActivity(t) ==
  /\ pc[t] = "active"
  /\ Release(t)

\* drained.notify_one(): the first parked waiter wakes, or the permit is stored.
NotifyOne(t) ==
  LET f == on[t] IN
  /\ pc[t] = "notify"
  /\ IF queue[f] = <<>>
     THEN permit' = [permit EXCEPT ![f] = TRUE] /\ UNCHANGED <<queue, wpc>>
     ELSE /\ wpc' = [wpc EXCEPT ![Head(queue[f])] = "check"]
          /\ queue' = [queue EXCEPT ![f] = Tail(@)]
          /\ UNCHANGED permit
  /\ Goto(t, "idle")
  /\ UNCHANGED <<epoch, state, lock, on, seen, publisherVars, won>>

-----------------------------------------------------------------------------
(* GenerationActivity::begin_commit and the GenerationCommit guard.        *)

CommitLock(t) ==
  /\ pc[t] = "active"
  /\ lock[on[t]] = NoOne
  /\ lock' = [lock EXCEPT ![on[t]] = t]
  /\ Goto(t, "checkClosed")
  /\ UNCHANGED <<epoch, state, permit, queue, on, seen, publisherVars, waiterVars>>

CommitCheckClosed(t) ==
  /\ pc[t] = "checkClosed"
  /\ \/ epoch # Closed /\ Goto(t, "checkPhase") /\ UNCHANGED lock
     \/ epoch = Closed /\ Goto(t, "active") /\ lock' = [lock EXCEPT ![on[t]] = NoOne]
  /\ UNCHANGED <<epoch, state, permit, queue, on, seen, publisherVars, waiterVars>>

\* Mutant of CommitCheckPhase: the window opens whatever the phase.
CommitCheckPhase_Any(t) ==
  /\ pc[t] = "checkPhase"
  /\ Goto(t, "commit")
  /\ UNCHANGED <<epoch, state, lock, permit, queue, on, seen, publisherVars, waiterVars>>

CommitCheckPhase(t) ==
  LET current == state[on[t]].phase = "current" IN
  /\ pc[t] = "checkPhase"
  /\ \/ current /\ Goto(t, "commit") /\ UNCHANGED lock
     \/ ~current /\ Goto(t, "active") /\ lock' = [lock EXCEPT ![on[t]] = NoOne]
  /\ UNCHANGED <<epoch, state, permit, queue, on, seen, publisherVars, waiterVars>>

CommitEnd(t) ==
  /\ pc[t] = "commit"
  /\ lock' = [lock EXCEPT ![on[t]] = NoOne]
  /\ Goto(t, "active")
  /\ UNCHANGED <<epoch, state, permit, queue, on, seen, publisherVars, waiterVars>>

-----------------------------------------------------------------------------
(* The publisher, the only writer of the epoch.  It makes a generation     *)
(* current and retires one only while a publication is under way or after  *)
(* closing, which is what the odd epoch announces.                         *)

InTransition == ~Stable(epoch)

BeginPublication ==
  /\ ppc = "idle" /\ Stable(epoch) /\ epoch < MaxEpoch
  /\ epoch' = epoch + 1
  /\ UNCHANGED <<state, lock, permit, queue, threadVars, publisherVars, waiterVars>>

EndPublication ==
  /\ ppc = "idle" /\ epoch # Closed /\ InTransition /\ epoch < MaxEpoch
  /\ epoch' = epoch + 1
  /\ UNCHANGED <<state, lock, permit, queue, threadVars, publisherVars, waiterVars>>

ClosePublication ==
  /\ ppc = "idle" /\ epoch # Closed
  /\ epoch' = Closed
  /\ UNCHANGED <<state, lock, permit, queue, threadVars, publisherVars, waiterVars>>

MarkCurrent(f) ==
  /\ ppc = "idle" /\ InTransition
  /\ state[f] = [phase |-> "preparing", count |-> 0]
  /\ state' = [state EXCEPT ![f].phase = "current"]
  /\ UNCHANGED <<epoch, lock, permit, queue, threadVars, publisherVars, waiterVars>>

RetireLock(f) ==
  /\ ppc = "idle" /\ InTransition
  /\ lock[f] = NoOne
  /\ lock' = [lock EXCEPT ![f] = Publisher]
  /\ pon' = f
  /\ ppc' = "load"
  /\ UNCHANGED <<epoch, state, permit, queue, threadVars, pseen, waiterVars>>

RetireLoad ==
  /\ ppc = "load"
  /\ pseen' = state[pon]
  /\ ppc' = "cas"
  /\ UNCHANGED <<epoch, state, lock, permit, queue, threadVars, pon, waiterVars>>

RetireSwap ==
  /\ ppc = "cas"
  /\ pseen.phase # "retired"
  /\ \/ /\ state[pon] = pseen
        /\ state' = [state EXCEPT ![pon].phase = "retired"]
        /\ lock' = [lock EXCEPT ![pon] = NoOne]
        /\ ppc' = "idle"
        /\ UNCHANGED pseen
     \/ /\ pseen' = state[pon]
        /\ UNCHANGED <<state, lock, ppc>>
  /\ UNCHANGED <<epoch, permit, queue, threadVars, pon, waiterVars>>

\* Already retired: mark_retired returns and the guard is dropped.
RetireAgain ==
  /\ ppc = "cas"
  /\ pseen.phase = "retired"
  /\ lock' = [lock EXCEPT ![pon] = NoOne]
  /\ ppc' = "idle"
  /\ UNCHANGED <<epoch, state, permit, queue, threadVars, pon, pseen, waiterVars>>

-----------------------------------------------------------------------------
(* GenerationFence::wait_drained, by a consumer of a retired generation    *)
(* that reclaims its Stores as soon as the wait returns.                   *)

WaitStart(w, f) ==
  /\ wpc[w] = "idle"
  /\ state[f].phase = "retired"
  /\ won' = [won EXCEPT ![w] = f]
  /\ wpc' = [wpc EXCEPT ![w] = "check"]
  /\ UNCHANGED <<epoch, state, lock, permit, queue, threadVars, publisherVars>>

\* Mutant of WaitCheck: one activity may be left.
WaitCheck_Almost(w) ==
  /\ wpc[w] = "check"
  /\ wpc' = [wpc EXCEPT ![w] = IF state[won[w]].count <= 1 THEN "drained" ELSE "poll"]
  /\ UNCHANGED <<epoch, state, lock, permit, queue, threadVars, publisherVars, won>>

WaitCheck(w) ==
  /\ wpc[w] = "check"
  /\ wpc' = [wpc EXCEPT ![w] = IF state[won[w]].count = 0 THEN "drained" ELSE "poll"]
  /\ UNCHANGED <<epoch, state, lock, permit, queue, threadVars, publisherVars, won>>

WaitPoll(w) ==
  LET f == won[w] IN
  /\ wpc[w] = "poll"
  /\ \/ /\ permit[f]
        /\ permit' = [permit EXCEPT ![f] = FALSE]
        /\ wpc' = [wpc EXCEPT ![w] = "check"]
        /\ UNCHANGED queue
     \/ /\ ~permit[f]
        /\ queue' = [queue EXCEPT ![f] = Append(@, w)]
        /\ wpc' = [wpc EXCEPT ![w] = "parked"]
        /\ UNCHANGED permit
  /\ UNCHANGED <<epoch, state, lock, threadVars, publisherVars, won>>

-----------------------------------------------------------------------------
\* The steps a thread takes once it has called, without those it chooses.
ThreadStep(t) ==
  \/ EnterLoadState(t) \/ EnterRefused(t) \/ EnterSwap(t)
  \/ EnterRecheck(t) \/ EnterWithdraw(t) \/ DropActivity(t) \/ NotifyOne(t)
  \/ CommitCheckClosed(t) \/ CommitCheckPhase(t) \/ CommitEnd(t)

PublisherStep == RetireLoad \/ RetireSwap \/ RetireAgain

WaiterStep(w) == WaitCheck(w) \/ WaitPoll(w)

Next ==
  \/ \E t \in Threads : ThreadStep(t) \/ CommitLock(t)
                          \/ \E f \in Fences : EnterLoadEpoch(t, f)
  \/ \E w \in Waiters : WaiterStep(w) \/ \E f \in Fences : WaitStart(w, f)
  \/ PublisherStep \/ BeginPublication \/ EndPublication \/ ClosePublication
  \/ \E f \in Fences : MarkCurrent(f) \/ RetireLock(f)

Spec == Init /\ [][Next]_vars

(* The runtime polls every ready task, and the Host work of an activity is *)
(* finite: it opens commit windows only so often and then drops the        *)
(* activity.  Nobody is obliged to enter, commit, publish or wait.         *)
Fairness ==
  /\ \A t \in Threads : WF_vars(ThreadStep(t)) /\ SF_vars(DropActivity(t))
  /\ \A w \in Waiters : WF_vars(WaiterStep(w))

FairSpec == Spec /\ Fairness

-----------------------------------------------------------------------------
TypeOK ==
  /\ epoch \in Epochs
  /\ state \in [Fences -> Word]
  /\ lock \in [Fences -> Threads \cup {NoOne, Publisher}]
  /\ permit \in [Fences -> BOOLEAN]
  /\ queue \in [Fences -> Seq(Waiters)]
  /\ pc \in [Threads -> ThreadPcs]
  /\ on \in [Threads -> Fences]
  /\ seen \in [Threads -> [epoch : Epochs, word : Word]]
  /\ ppc \in {"idle", "load", "cas"}
  /\ pon \in Fences
  /\ pseen \in Word
  /\ wpc \in [Waiters -> {"idle", "check", "poll", "parked", "drained"}]
  /\ won \in [Waiters -> Fences]

(* The count in the atomic word is the number of reservations out, whatever *)
(* the interleaving of loads, swaps and releases (enter, release).          *)
CountIsHolders == \A f \in Fences : state[f].count = Cardinality(Holders(f))

(* When wait_drained has returned on a retired generation nobody holds a    *)
(* reservation of it, not even an enter that is about to withdraw: the      *)
(* Stores can be reclaimed.                                                 *)
ReclaimQuiescent ==
  \A w \in Waiters :
    wpc[w] = "drained" => state[won[w]].phase = "retired" /\ Holders(won[w]) = {}

(* A fence cannot retire while a commit window is open, and no two windows  *)
(* of one fence are open at once (begin_commit, mark_retired).              *)
CommitWindowExclusive ==
  \A t \in Threads : pc[t] = "commit" =>
    /\ state[on[t]].phase = "current"
    /\ \A u \in Threads \ {t} : pc[u] = "commit" => on[u] # on[t]

(* An enter that returns an activity found the publication stable when it   *)
(* returned, on a generation that was current then: the two reads of the    *)
(* epoch leave no room for a publication in between.                        *)
AdmittedOnCurrent ==
  [][\A t \in Threads : pc[t] = "recheck" /\ pc'[t] = "active"
       => Stable(epoch) /\ state[on[t]].phase = "current"]_vars

(* wait_drained returns: its comment says it "waits until every admitted    *)
(* activity has released its reservation", and they all do.                 *)
WaitersDrain == \A w \in Waiters : wpc[w] = "check" ~> wpc[w] = "drained"

-----------------------------------------------------------------------------
(* The inductive invariant behind the safety properties.                   *)

(* The commit mutex is held by the thread between begin_commit and the drop *)
(* of its guard, and by mark_retired; an open window pins the generation.   *)
LockHeld ==
  /\ \A t \in Threads :
       /\ pc[t] \in {"checkClosed", "checkPhase", "commit"} => lock[on[t]] = t
       /\ pc[t] = "commit" => state[on[t]].phase = "current"
  /\ ppc # "idle" => lock[pon] = Publisher

(* A publication is under way, or has closed, while mark_retired runs.      *)
RetiresInTransition == ppc # "idle" => ~Stable(epoch)

(* The epoch an enter loaded was stable and never comes back; while it is   *)
(* still there, the generation the enter reserved is current.               *)
EntersStable ==
  \A t \in Threads : pc[t] \in {"loadState", "cas", "recheck"} =>
    /\ Stable(seen[t].epoch)
    /\ epoch # Closed => seen[t].epoch <= epoch
    /\ pc[t] = "recheck" /\ seen[t].epoch = epoch => state[on[t]].phase = "current"

(* Consumers wait for retired generations only, and a wait returns when the *)
(* count of such a generation, which cannot grow any more, is zero.         *)
WaitsRetired ==
  \A w \in Waiters :
    /\ wpc[w] # "idle" => state[won[w]].phase = "retired"
    /\ wpc[w] = "drained" => state[won[w]].count = 0

(* Each parked waiter is queued once, on the fence it waits for.            *)
ParkedQueued ==
  \A f \in Fences : \A i \in 1 .. Len(queue[f]) :
    /\ wpc[queue[f][i]] = "parked" /\ won[queue[f][i]] = f
    /\ \A j \in 1 .. Len(queue[f]) : queue[f][j] = queue[f][i] => j = i

IInv ==
  /\ TypeOK /\ CountIsHolders /\ LockHeld /\ RetiresInTransition
  /\ EntersStable /\ WaitsRetired /\ ParkedQueued

-----------------------------------------------------------------------------
(* The loads, swaps, lock and notifications amount to one atomic fence.     *)
Atomic == INSTANCE AtomicFence WITH
  phase <- [f \in Fences |-> state[f].phase],
  holders <- [f \in Fences |-> Holders(f)],
  committer <- [f \in Fences |-> {t \in Threads : on[t] = f /\ pc[t] = "commit"}],
  reclaimed <- {won[w] : w \in {v \in Waiters : wpc[v] = "drained"}}

ImplementsAtomicFence == Atomic!ASpec

=============================================================================
