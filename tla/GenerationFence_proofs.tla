----------------------- MODULE GenerationFence_proofs -----------------------
(***************************************************************************)
(* The generation fence is correct for any number of threads, waiters and  *)
(* generations.  IInv is inductive; one lemma per conjunct shows that every *)
(* step preserves it, and the safety properties follow.                     *)
(***************************************************************************)
EXTENDS GenerationFence, FiniteSetTheorems, TLAPS

-----------------------------------------------------------------------------
(* The reservations of a fence, and how one thread's step changes them.    *)

LEMMA CardinalityLosesOne ==
  ASSUME NEW S, IsFiniteSet(S), NEW x \in S
  PROVE  Cardinality(S \ {x}) = Cardinality(S) - 1
BY FS_RemoveElement

LEMMA HoldersFinite ==
  ASSUME NEW f \in Fences
  PROVE  IsFiniteSet(Holders(f)) /\ Cardinality(Holders(f)) \in Nat
<1>1. Holders(f) \in SUBSET Threads
  BY DEF Holders
<1>2. IsFiniteSet(Holders(f))
  BY <1>1, FS_Subset, FenceAssumption
<1>3. QED
  BY <1>2, FS_CardinalityType

(* A thread that holds a reservation keeps the count of its fence positive. *)
LEMMA HeldCountPositive ==
  ASSUME TypeOK, CountIsHolders, NEW t \in Threads, pc[t] \in Holding
  PROVE  state[on[t]].count > 0
<1>1. t \in Holders(on[t]) /\ on[t] \in Fences
  BY DEF Holders, TypeOK
<1>2. Cardinality(Holders(on[t])) \in Nat /\ Cardinality(Holders(on[t])) # 0
  BY <1>1, HoldersFinite, FS_EmptySet
<1>3. QED
  BY <1>1, <1>2 DEF CountIsHolders

(* A step that lets no thread take, drop or move a reservation, and leaves  *)
(* the counts alone, preserves CountIsHolders.                              *)
LEMMA CountUndisturbed ==
  ASSUME CountIsHolders, [Next]_vars,
         \A t \in Threads : pc'[t] \in Holding <=> pc[t] \in Holding,
         \A t \in Threads : pc[t] \in Holding => on'[t] = on[t],
         \A f \in Fences : state'[f].count = state[f].count
  PROVE  CountIsHolders'
<1>1. \A f \in Fences : Holders(f)' = Holders(f)
  BY DEF Holders
<1>2. QED
  BY <1>1 DEF CountIsHolders

LEMMA CountSwap ==
  ASSUME TypeOK, CountIsHolders, NEW t \in Threads, EnterSwap(t)
  PROVE  CountIsHolders'
<1> USE DEF TypeOK, EnterSwap, Goto
<1>1. CASE pc' = pc /\ state' = state
  <2>1. \A f \in Fences : Holders(f)' = Holders(f)
    BY <1>1 DEF Holders
  <2>2. QED
    BY <1>1, <2>1 DEF CountIsHolders
<1>2. CASE /\ state' = [state EXCEPT ![on[t]].count = @ + 1]
           /\ pc' = [pc EXCEPT ![t] = "recheck"]
  <2>1. t \notin Holders(on[t]) /\ on[t] \in Fences
    BY DEF Holders, Holding
  <2>2. Holders(on[t])' = Holders(on[t]) \cup {t}
    BY <1>2 DEF Holders, Holding
  <2>3. \A f \in Fences \ {on[t]} : Holders(f)' = Holders(f)
    BY <1>2 DEF Holders, Holding
  <2>4. Cardinality(Holders(on[t]) \cup {t}) = Cardinality(Holders(on[t])) + 1
    BY <2>1, HoldersFinite, FS_AddElement
  <2>5. state'[on[t]].count = Cardinality(Holders(on[t])')
    BY <1>2, <2>1, <2>2, <2>4 DEF CountIsHolders, Word
  <2>6. \A f \in Fences \ {on[t]} : state'[f].count = Cardinality(Holders(f)')
    BY <1>2, <2>3 DEF CountIsHolders
  <2>7. QED
    BY <2>5, <2>6 DEF CountIsHolders
<1>3. QED
  BY <1>1, <1>2

LEMMA CountRelease ==
  ASSUME TypeOK, CountIsHolders, NEW t \in Threads, pc[t] \in Holding, Release(t)
  PROVE  CountIsHolders'
<1> USE DEF TypeOK, Release, Goto
<1>1. t \in Holders(on[t]) /\ on[t] \in Fences
  BY DEF Holders
<1>2. Holders(on[t])' = Holders(on[t]) \ {t}
  BY DEF Holders, Holding
<1>3. \A f \in Fences \ {on[t]} : Holders(f)' = Holders(f)
  BY DEF Holders, Holding
<1>4. Cardinality(Holders(on[t]) \ {t}) = Cardinality(Holders(on[t])) - 1
  <2>1. IsFiniteSet(Holders(on[t]))
    BY <1>1, HoldersFinite
  <2>2. QED
    BY <1>1, <2>1, CardinalityLosesOne
<1>5. state'[on[t]].count = Cardinality(Holders(on[t])')
  BY <1>1, <1>2, <1>4 DEF CountIsHolders, Word
<1>6. \A f \in Fences \ {on[t]} : state'[f].count = Cardinality(Holders(f)')
  BY <1>3 DEF CountIsHolders
<1>7. QED
  BY <1>5, <1>6 DEF CountIsHolders

(* Every step preserves the agreement of the count with the reservations.  *)
LEMMA CountStep == TypeOK /\ CountIsHolders /\ [Next]_vars => CountIsHolders'
<1> SUFFICES ASSUME TypeOK, CountIsHolders, [Next]_vars PROVE CountIsHolders'
  OBVIOUS
<1>1. ASSUME NEW t \in Threads, EnterSwap(t) PROVE CountIsHolders'
  BY <1>1, CountSwap
<1>2. ASSUME NEW t \in Threads, EnterWithdraw(t) \/ DropActivity(t) PROVE CountIsHolders'
  <2>1. pc[t] \in Holding /\ Release(t)
    BY <1>2 DEF EnterWithdraw, DropActivity, Holding
  <2>2. QED
    BY <2>1, CountRelease
<1>3. ASSUME NEW t \in Threads, NEW f \in Fences, EnterLoadEpoch(t, f) PROVE CountIsHolders'
  BY <1>3, CountUndisturbed DEF EnterLoadEpoch, Goto, Holding, TypeOK
<1>4. ASSUME NEW t \in Threads,
             EnterLoadState(t) \/ EnterRefused(t) \/ EnterRecheck(t) \/ NotifyOne(t)
      PROVE CountIsHolders'
  BY <1>4, CountUndisturbed
  DEF EnterLoadState, EnterRefused, EnterRecheck, Admitted, NotifyOne, Goto, Holding, TypeOK
<1>5. ASSUME NEW t \in Threads,
             CommitLock(t) \/ CommitCheckClosed(t) \/ CommitCheckPhase(t) \/ CommitEnd(t)
      PROVE CountIsHolders'
  BY <1>5, CountUndisturbed
  DEF CommitLock, CommitCheckClosed, CommitCheckPhase, CommitEnd, Goto, Holding, TypeOK
<1>6. ASSUME NEW f \in Fences, MarkCurrent(f) PROVE CountIsHolders'
  BY <1>6, CountUndisturbed DEF MarkCurrent, threadVars, TypeOK
<1>7. CASE RetireSwap
  <2>1. \A f \in Fences : state'[f].count = state[f].count
    <3>1. CASE UNCHANGED state
      BY <3>1
    <3>2. CASE state' = [state EXCEPT ![pon].phase = "retired"]
      BY <3>2 DEF TypeOK, Word
    <3>3. QED
      BY <1>7, <3>1, <3>2 DEF RetireSwap
  <2>2. QED
    BY <1>7, <2>1, CountUndisturbed DEF RetireSwap, threadVars
<1>8. CASE \/ RetireLoad \/ RetireAgain
           \/ BeginPublication \/ EndPublication \/ ClosePublication
           \/ \E f \in Fences : RetireLock(f)
  BY <1>8, CountUndisturbed
  DEF RetireLoad, RetireAgain, BeginPublication, EndPublication, ClosePublication, RetireLock,
      threadVars
<1>9. CASE \E w \in Waiters : WaiterStep(w) \/ \E f \in Fences : WaitStart(w, f)
  BY <1>9, CountUndisturbed DEF WaiterStep, WaitStart, WaitCheck, WaitPoll, threadVars
<1>10. CASE UNCHANGED vars
  BY <1>10, CountUndisturbed DEF vars
<1>11. QED
  BY <1>1, <1>2, <1>3, <1>4, <1>5, <1>6, <1>7, <1>8, <1>9, <1>10
  DEF Next, ThreadStep, PublisherStep

-----------------------------------------------------------------------------
(* Type correctness.  Only the two actions that count need more than their *)
(* own definition: a swap adds one below the limit, and a release finds    *)
(* the count positive.                                                      *)
LEMMA TypeStep == TypeOK /\ CountIsHolders /\ [Next]_vars => TypeOK'
<1> SUFFICES ASSUME TypeOK, CountIsHolders, [Next]_vars PROVE TypeOK'
  OBVIOUS
<1> USE FenceAssumption DEF TypeOK
<1>1. ASSUME NEW t \in Threads, EnterSwap(t) PROVE TypeOK'
  <2>1. Admissible(seen[t].word) => seen[t].word.count + 1 \in 0 .. MaxActivities
    BY DEF Admissible, Word
  <2>2. CASE UNCHANGED <<state, pc>>
    <3>1. state[on[t]] \in Word
      OBVIOUS
    <3>2. seen' \in [Threads -> [epoch : Epochs, word : Word]]
      <4>1. CASE seen' = seen
        BY <4>1
      <4>2. CASE seen' = [seen EXCEPT ![t].word = state[on[t]]]
        BY <3>1, <4>2
      <4>3. QED
        BY <1>1, <4>1, <4>2 DEF EnterSwap
    <3>3. QED
      BY <1>1, <2>2, <3>2 DEF EnterSwap, publisherVars, waiterVars
  <2>3. CASE /\ state[on[t]] = seen[t].word
             /\ state' = [state EXCEPT ![on[t]].count = @ + 1]
             /\ Goto(t, "recheck")
             /\ UNCHANGED seen
    <3>1. [state[on[t]] EXCEPT !.count = @ + 1] \in Word
      BY <1>1, <2>1, <2>3 DEF EnterSwap, Word
    <3>2. state' \in [Fences -> Word]
      BY <2>3, <3>1
    <3>3. QED
      BY <1>1, <2>3, <3>2 DEF EnterSwap, Goto, ThreadPcs, publisherVars, waiterVars
  <2>4. QED
    BY <1>1, <2>2, <2>3 DEF EnterSwap
<1>2. ASSUME NEW t \in Threads, EnterWithdraw(t) \/ DropActivity(t) PROVE TypeOK'
  <2>1. pc[t] \in Holding /\ Release(t)
    BY <1>2 DEF EnterWithdraw, DropActivity, Holding
  <2>2. state[on[t]].count > 0
    BY <2>1, HeldCountPositive
  <2>3. [state[on[t]] EXCEPT !.count = @ - 1] \in Word
    <3>1. state[on[t]] \in Word
      OBVIOUS
    <3>2. state[on[t]].count - 1 \in 0 .. MaxActivities
      BY <2>2, <3>1 DEF Word
    <3>3. QED
      BY <3>1, <3>2 DEF Word
  <2>4. state' \in [Fences -> Word]
    BY <2>1, <2>3 DEF Release
  <2>5. QED
    BY <2>1, <2>4 DEF Release, Goto, ThreadPcs, publisherVars, waiterVars
<1>3. ASSUME NEW t \in Threads, NEW f \in Fences, EnterLoadEpoch(t, f) PROVE TypeOK'
  BY <1>3 DEF EnterLoadEpoch, Goto, ThreadPcs, publisherVars, waiterVars
<1>4. ASSUME NEW t \in Threads,
             EnterLoadState(t) \/ EnterRefused(t) \/ EnterRecheck(t) PROVE TypeOK'
  <2>1. CASE EnterLoadState(t)
    BY <2>1 DEF EnterLoadState, Goto, ThreadPcs, publisherVars, waiterVars
  <2>2. CASE EnterRefused(t)
    BY <2>2 DEF EnterRefused, Goto, ThreadPcs, publisherVars, waiterVars
  <2>3. CASE EnterRecheck(t)
    BY <2>3 DEF EnterRecheck, Goto, ThreadPcs, publisherVars, waiterVars
  <2>4. QED
    BY <1>4, <2>1, <2>2, <2>3
<1>5. ASSUME NEW t \in Threads, NotifyOne(t) PROVE TypeOK'
  <2>1. CASE queue[on[t]] = <<>>
    BY <1>5, <2>1 DEF NotifyOne, Goto, ThreadPcs, publisherVars
  <2>2. CASE queue[on[t]] # <<>>
    <3>1. Head(queue[on[t]]) \in Waiters /\ Tail(queue[on[t]]) \in Seq(Waiters)
      BY <2>2
    <3>2. queue' \in [Fences -> Seq(Waiters)]
      BY <1>5, <2>2, <3>1 DEF NotifyOne
    <3>3. wpc' \in [Waiters -> {"idle", "check", "poll", "parked", "drained"}]
      BY <1>5, <2>2, <3>1 DEF NotifyOne
    <3>4. QED
      BY <1>5, <2>2, <3>2, <3>3 DEF NotifyOne, Goto, ThreadPcs, publisherVars
  <2>3. QED
    BY <2>1, <2>2
<1>6. ASSUME NEW t \in Threads,
             CommitLock(t) \/ CommitCheckClosed(t) \/ CommitCheckPhase(t) \/ CommitEnd(t)
      PROVE TypeOK'
  <2>1. CASE CommitLock(t)
    BY <2>1 DEF CommitLock, Goto, ThreadPcs, publisherVars, waiterVars
  <2>2. CASE CommitCheckClosed(t)
    BY <2>2 DEF CommitCheckClosed, Goto, ThreadPcs, publisherVars, waiterVars
  <2>3. CASE CommitCheckPhase(t)
    BY <2>3 DEF CommitCheckPhase, Goto, ThreadPcs, publisherVars, waiterVars
  <2>4. CASE CommitEnd(t)
    BY <2>4 DEF CommitEnd, Goto, ThreadPcs, publisherVars, waiterVars
  <2>5. QED
    BY <1>6, <2>1, <2>2, <2>3, <2>4
<1>7. CASE BeginPublication \/ EndPublication \/ ClosePublication
  <2>1. epoch' \in Epochs
    BY <1>7 DEF BeginPublication, EndPublication, ClosePublication, Epochs, Stable, InTransition
  <2>2. QED
    BY <1>7, <2>1 DEF BeginPublication, EndPublication, ClosePublication,
      threadVars, publisherVars, waiterVars
<1>8. ASSUME NEW f \in Fences, MarkCurrent(f) \/ RetireLock(f) PROVE TypeOK'
  <2>1. CASE MarkCurrent(f)
    <3>1. [state[f] EXCEPT !.phase = "current"] \in Word
      BY DEF Word, Phases
    <3>2. state' \in [Fences -> Word]
      BY <2>1, <3>1 DEF MarkCurrent
    <3>3. QED
      BY <2>1, <3>2 DEF MarkCurrent, threadVars, publisherVars, waiterVars
  <2>2. CASE RetireLock(f)
    BY <2>2 DEF RetireLock, threadVars, waiterVars
  <2>3. QED
    BY <1>8, <2>1, <2>2
<1>9. CASE PublisherStep
  <2>1. CASE RetireLoad
    BY <2>1 DEF RetireLoad, threadVars, waiterVars
  <2>2. CASE RetireSwap
    <3>1. [state[pon] EXCEPT !.phase = "retired"] \in Word
      BY DEF Word, Phases
    <3>2. state' \in [Fences -> Word]
      BY <2>2, <3>1 DEF RetireSwap
    <3>3. pseen' \in Word
      BY <2>2 DEF RetireSwap
    <3>6. lock' \in [Fences -> Threads \cup {NoOne, Publisher}]
      <4>1. NoOne \in Threads \cup {NoOne, Publisher}
        OBVIOUS
      <4>2. CASE lock' = lock
        BY <4>2
      <4>3. CASE lock' = [lock EXCEPT ![pon] = NoOne]
        BY <4>1, <4>3
      <4>4. QED
        BY <2>2, <4>2, <4>3 DEF RetireSwap
    <3>4. ppc' \in {"idle", "load", "cas"}
      BY <2>2 DEF RetireSwap
    <3>5. QED
      BY <2>2, <3>2, <3>3, <3>4, <3>6 DEF RetireSwap, threadVars, waiterVars
  <2>3. CASE RetireAgain
    BY <2>3 DEF RetireAgain, threadVars, waiterVars
  <2>4. QED
    BY <1>9, <2>1, <2>2, <2>3 DEF PublisherStep
<1>10. ASSUME NEW w \in Waiters, WaitCheck(w) PROVE TypeOK'
  BY <1>10 DEF WaitCheck, threadVars, publisherVars
<1>11. ASSUME NEW w \in Waiters, WaitPoll(w) PROVE TypeOK'
  <2>1. CASE permit[won[w]]
    BY <1>11, <2>1 DEF WaitPoll, threadVars, publisherVars
  <2>2. CASE ~permit[won[w]]
    <3>1. queue' = [queue EXCEPT ![won[w]] = Append(@, w)]
      BY <1>11, <2>2 DEF WaitPoll
    <3>2. Append(queue[won[w]], w) \in Seq(Waiters)
      OBVIOUS
    <3>3. queue' \in [Fences -> Seq(Waiters)]
      BY <3>1, <3>2
    <3>4. wpc' \in [Waiters -> {"idle", "check", "poll", "parked", "drained"}]
      BY <1>11, <2>2 DEF WaitPoll
    <3>5. QED
      BY <1>11, <2>2, <3>3, <3>4 DEF WaitPoll, threadVars, publisherVars
  <2>3. QED
    BY <2>1, <2>2
<1>12. ASSUME NEW w \in Waiters, NEW f \in Fences, WaitStart(w, f) PROVE TypeOK'
  BY <1>12 DEF WaitStart, threadVars, publisherVars
<1>13. CASE UNCHANGED vars
  BY <1>13 DEF vars
<1>14. QED
  BY <1>1, <1>2, <1>3, <1>4, <1>5, <1>6, <1>7, <1>8, <1>9, <1>10, <1>11, <1>12, <1>13
  DEF Next, ThreadStep, WaiterStep

-----------------------------------------------------------------------------
(* The commit mutex: only its holder moves on, and only its holder or the  *)
(* publisher that holds it may change the phase of a fence to "retired".   *)
LEMMA LockStep == TypeOK /\ LockHeld /\ [Next]_vars => LockHeld'
<1> SUFFICES ASSUME TypeOK, LockHeld, [Next]_vars PROVE LockHeld'
  OBVIOUS
<1> USE FenceAssumption DEF LockHeld
<1> DEFINE OfThread(u) == /\ pc[u] \in {"checkClosed", "checkPhase", "commit"} => lock[on[u]] = u
                          /\ pc[u] = "commit" => state[on[u]].phase = "current"
           OfPublisher == ppc # "idle" => lock[pon] = Publisher
<1>1. ASSUME NEW t \in Threads,
             CommitLock(t) \/ CommitCheckClosed(t) \/ CommitCheckPhase(t) \/ CommitEnd(t)
      PROVE LockHeld'
  <2>1. \/ pc[t] = "active" /\ lock[on[t]] = NoOne
        \/ lock[on[t]] = t
    BY <1>1 DEF CommitLock, CommitCheckClosed, CommitCheckPhase, CommitEnd
  <2>2. /\ pc' = [pc EXCEPT ![t] = pc'[t]]
        /\ \E h \in {t, NoOne} : lock' = [lock EXCEPT ![on[t]] = h]
        /\ UNCHANGED <<on, state, ppc, pon>>
        /\ pc'[t] \in {"checkClosed", "checkPhase", "commit"} => lock'[on[t]] = t
        /\ pc'[t] = "commit" => state[on[t]].phase = "current"
    <3>1. CASE CommitLock(t)
      BY <3>1 DEF CommitLock, Goto, TypeOK, publisherVars
    <3>2. CASE CommitCheckClosed(t)
      <4>1. CASE epoch # Closed
        BY <3>2, <4>1, <2>1 DEF CommitCheckClosed, Goto, TypeOK, publisherVars
      <4>2. CASE epoch = Closed
        BY <3>2, <4>2 DEF CommitCheckClosed, Goto, TypeOK, publisherVars
      <4>3. QED
        BY <4>1, <4>2
    <3>3. CASE CommitCheckPhase(t)
      <4>1. CASE state[on[t]].phase = "current"
        BY <3>3, <4>1, <2>1 DEF CommitCheckPhase, Goto, TypeOK, publisherVars
      <4>2. CASE state[on[t]].phase # "current"
        BY <3>3, <4>2 DEF CommitCheckPhase, Goto, TypeOK, publisherVars
      <4>3. QED
        BY <4>1, <4>2
    <3>4. CASE CommitEnd(t)
      BY <3>4 DEF CommitEnd, Goto, TypeOK, publisherVars
    <3>5. QED
      BY <1>1, <3>1, <3>2, <3>3, <3>4
  <2>3. ASSUME NEW u \in Threads PROVE OfThread(u)'
    <3>1. CASE u = t
      BY <2>2, <3>1
    <3>2. CASE u # t
      <4>1. OfThread(u) /\ pc'[u] = pc[u]
        BY <2>2, <3>2 DEF TypeOK
      <4>2. pc[u] \in {"checkClosed", "checkPhase", "commit"} => on[u] # on[t]
        BY <2>1, <3>2, <4>1 DEF TypeOK
      <4>3. QED
        BY <2>2, <3>2, <4>1, <4>2 DEF TypeOK
    <3>3. QED
      BY <3>1, <3>2
  <2>4. OfPublisher'
    <3>1. ppc # "idle" => pon # on[t]
      BY <2>1
    <3>2. QED
      BY <2>2, <3>1 DEF TypeOK
  <2>5. QED
    BY <2>3, <2>4
<1>2. ASSUME NEW t \in Threads, EnterSwap(t) PROVE LockHeld'
  <2>1. \A f \in Fences : state'[f].phase = state[f].phase
    <3>1. CASE UNCHANGED state
      BY <3>1
    <3>2. CASE state' = [state EXCEPT ![on[t]].count = @ + 1]
      BY <3>2 DEF TypeOK, Word
    <3>3. QED
      BY <1>2, <3>1, <3>2 DEF EnterSwap
  <2>2. QED
    BY <1>2, <2>1 DEF EnterSwap, Goto, TypeOK, publisherVars
<1>3. ASSUME NEW t \in Threads, EnterWithdraw(t) \/ DropActivity(t) PROVE LockHeld'
  <2>1. Release(t)
    BY <1>3 DEF EnterWithdraw, DropActivity
  <2>2. \A f \in Fences : state'[f].phase = state[f].phase
    BY <2>1 DEF Release, TypeOK, Word
  <2>3. QED
    BY <2>1, <2>2 DEF Release, Goto, TypeOK, publisherVars
<1>4. ASSUME NEW t \in Threads, NEW f \in Fences, EnterLoadEpoch(t, f) PROVE LockHeld'
  BY <1>4 DEF EnterLoadEpoch, Goto, TypeOK, publisherVars
<1>5. ASSUME NEW t \in Threads, EnterLoadState(t) PROVE LockHeld'
  BY <1>5 DEF EnterLoadState, Goto, TypeOK, publisherVars
<1>6. ASSUME NEW t \in Threads, EnterRefused(t) PROVE LockHeld'
  BY <1>6 DEF EnterRefused, Goto, TypeOK, publisherVars
<1>7. ASSUME NEW t \in Threads, EnterRecheck(t) PROVE LockHeld'
  BY <1>7 DEF EnterRecheck, Goto, TypeOK, publisherVars
<1>8. ASSUME NEW t \in Threads, NotifyOne(t) PROVE LockHeld'
  BY <1>8 DEF NotifyOne, Goto, TypeOK, publisherVars
<1>9. ASSUME NEW f \in Fences, MarkCurrent(f) PROVE LockHeld'
  <2>1. \A g \in Fences : state[g].phase = "current" => state'[g].phase = "current"
    BY <1>9 DEF MarkCurrent, TypeOK, Word
  <2>2. QED
    BY <1>9, <2>1 DEF MarkCurrent, TypeOK, threadVars, publisherVars
<1>10. ASSUME NEW f \in Fences, RetireLock(f) PROVE LockHeld'
  BY <1>10 DEF RetireLock, TypeOK, threadVars
<1>11. CASE RetireLoad
  BY <1>11 DEF RetireLoad, TypeOK, threadVars
<1>12. CASE RetireSwap
  <2>1. lock[pon] = Publisher /\ ppc = "cas"
    BY <1>12 DEF RetireSwap
  <2>2. CASE UNCHANGED <<state, lock, ppc>>
    BY <1>12, <2>2 DEF RetireSwap, TypeOK, threadVars
  <2>3. CASE /\ state' = [state EXCEPT ![pon].phase = "retired"]
             /\ lock' = [lock EXCEPT ![pon] = NoOne]
             /\ ppc' = "idle"
    <3>1. \A u \in Threads : pc[u] \in {"checkClosed", "checkPhase", "commit"} => on[u] # pon
      BY <2>1 DEF TypeOK
    <3>2. QED
      BY <1>12, <2>3, <3>1 DEF RetireSwap, TypeOK, threadVars
  <2>4. QED
    BY <1>12, <2>2, <2>3 DEF RetireSwap
<1>13. CASE RetireAgain
  <2>1. \A u \in Threads : pc[u] \in {"checkClosed", "checkPhase", "commit"} => on[u] # pon
    BY <1>13 DEF RetireAgain, TypeOK
  <2>2. QED
    BY <1>13, <2>1 DEF RetireAgain, TypeOK, threadVars
<1>14. CASE BeginPublication \/ EndPublication \/ ClosePublication
  BY <1>14 DEF BeginPublication, EndPublication, ClosePublication, threadVars, publisherVars
<1>15. CASE \E w \in Waiters : WaiterStep(w) \/ \E f \in Fences : WaitStart(w, f)
  BY <1>15 DEF WaiterStep, WaitStart, WaitCheck, WaitPoll, threadVars, publisherVars
<1>16. CASE UNCHANGED vars
  BY <1>16 DEF vars
<1>17. QED
  BY <1>1, <1>2, <1>3, <1>4, <1>5, <1>6, <1>7, <1>8, <1>9, <1>10, <1>11, <1>12, <1>13,
     <1>14, <1>15, <1>16
  DEF Next, ThreadStep, PublisherStep

-----------------------------------------------------------------------------
(* mark_retired starts in a transition and only a stable epoch ends one.   *)
LEMMA TransitionStep == TypeOK /\ RetiresInTransition /\ [Next]_vars => RetiresInTransition'
<1> SUFFICES ASSUME TypeOK, RetiresInTransition, [Next]_vars PROVE RetiresInTransition'
  OBVIOUS
<1> USE DEF RetiresInTransition
<1>1. CASE BeginPublication \/ EndPublication \/ ClosePublication
  BY <1>1 DEF BeginPublication, EndPublication, ClosePublication, publisherVars
<1>2. CASE UNCHANGED <<epoch, ppc>>
  BY <1>2 DEF Stable
<1>3. CASE PublisherStep \/ \E f \in Fences : RetireLock(f)
  <2>1. epoch' = epoch /\ ~Stable(epoch)
    BY <1>3 DEF PublisherStep, RetireLoad, RetireSwap, RetireAgain, RetireLock, InTransition
  <2>2. QED
    BY <2>1 DEF Stable
<1>4. ASSUME NEW t \in Threads, ThreadStep(t) \/ CommitLock(t) \/ \E f \in Fences : EnterLoadEpoch(t, f)
      PROVE UNCHANGED <<epoch, ppc>>
  BY <1>4 DEF ThreadStep, CommitLock, EnterLoadEpoch, EnterLoadState, EnterRefused, EnterSwap,
      EnterRecheck, EnterWithdraw, Release, DropActivity, NotifyOne, CommitCheckClosed,
      CommitCheckPhase, CommitEnd, publisherVars
<1>5. ASSUME NEW w \in Waiters, WaiterStep(w) \/ \E f \in Fences : WaitStart(w, f)
      PROVE UNCHANGED <<epoch, ppc>>
  BY <1>5 DEF WaiterStep, WaitStart, WaitCheck, WaitPoll, publisherVars
<1>6. ASSUME NEW f \in Fences, MarkCurrent(f) PROVE UNCHANGED <<epoch, ppc>>
  BY <1>6 DEF MarkCurrent, publisherVars
<1>7. CASE UNCHANGED vars
  BY <1>2, <1>7 DEF vars
<1>8. QED
  BY <1>1, <1>2, <1>3, <1>4, <1>5, <1>6, <1>7 DEF Next

-----------------------------------------------------------------------------
(* What a step may do to the word of a fence.  Retirement is final, only a *)
(* publication in transition takes a fence out of "current", and the count *)
(* of a retired fence at zero stays there.                                  *)
LEMMA WordStep ==
  ASSUME TypeOK, CountIsHolders, RetiresInTransition, [Next]_vars, NEW f \in Fences
  PROVE  /\ state[f].phase = "retired" => state'[f].phase = "retired"
         /\ state[f].phase = "retired" /\ state[f].count = 0 => state'[f].count = 0
         /\ state[f].phase = "current" /\ state'[f].phase # "current" => ~Stable(epoch)
<1> DEFINE Goal == /\ state[f].phase = "retired" => state'[f].phase = "retired"
                   /\ state[f].phase = "retired" /\ state[f].count = 0 => state'[f].count = 0
                   /\ state[f].phase = "current" /\ state'[f].phase # "current" => ~Stable(epoch)
<1>1. CASE state' = state
  BY <1>1
<1>2. ASSUME NEW t \in Threads, EnterSwap(t) PROVE Goal
  <2>1. CASE UNCHANGED state
    BY <2>1
  <2>2. CASE state[on[t]] = seen[t].word /\ state' = [state EXCEPT ![on[t]].count = @ + 1]
    BY <1>2, <2>2 DEF EnterSwap, Admissible, TypeOK, Word
  <2>3. QED
    BY <1>2, <2>1, <2>2 DEF EnterSwap
<1>3. ASSUME NEW t \in Threads, EnterWithdraw(t) \/ DropActivity(t) PROVE Goal
  <2>1. pc[t] \in Holding /\ Release(t)
    BY <1>3 DEF EnterWithdraw, DropActivity, Holding
  <2>2. state[on[t]].count > 0
    BY <2>1, HeldCountPositive
  <2>3. QED
    BY <2>1, <2>2 DEF Release, TypeOK, Word
<1>4. ASSUME NEW g \in Fences, MarkCurrent(g) PROVE Goal
  BY <1>4 DEF MarkCurrent, TypeOK, Word
<1>5. CASE RetireSwap
  <2>1. CASE UNCHANGED state
    BY <2>1
  <2>2. CASE state' = [state EXCEPT ![pon].phase = "retired"]
    BY <1>5, <2>2 DEF RetireSwap, RetiresInTransition, TypeOK, Word
  <2>3. QED
    BY <1>5, <2>1, <2>2 DEF RetireSwap
<1>6. CASE \/ RetireLoad \/ RetireAgain \/ BeginPublication \/ EndPublication \/ ClosePublication
           \/ \E g \in Fences : RetireLock(g)
  BY <1>1, <1>6 DEF RetireLoad, RetireAgain, BeginPublication, EndPublication,
      ClosePublication, RetireLock
<1>7. ASSUME NEW t \in Threads,
             \/ EnterLoadState(t) \/ EnterRefused(t) \/ EnterRecheck(t) \/ NotifyOne(t)
             \/ CommitLock(t) \/ CommitCheckClosed(t) \/ CommitCheckPhase(t) \/ CommitEnd(t)
             \/ \E g \in Fences : EnterLoadEpoch(t, g)
      PROVE state' = state
  BY <1>7 DEF EnterLoadState, EnterRefused, EnterRecheck, NotifyOne, CommitLock,
      CommitCheckClosed, CommitCheckPhase, CommitEnd, EnterLoadEpoch
<1>8. ASSUME NEW w \in Waiters, WaiterStep(w) \/ \E g \in Fences : WaitStart(w, g)
      PROVE state' = state
  BY <1>8 DEF WaiterStep, WaitStart, WaitCheck, WaitPoll
<1>9. CASE UNCHANGED vars
  BY <1>1, <1>9 DEF vars
<1>10. QED
  BY <1>1, <1>2, <1>3, <1>4, <1>5, <1>6, <1>7, <1>8, <1>9 DEF Next, ThreadStep, PublisherStep

(* A wait joins the queue of its fence when it parks and leaves it when it *)
(* is woken; nothing else moves a parked waiter.                            *)
LEMMA ParkedStep == TypeOK /\ ParkedQueued /\ [Next]_vars => ParkedQueued'
<1> SUFFICES ASSUME TypeOK, ParkedQueued, [Next]_vars PROVE ParkedQueued'
  OBVIOUS
<1>1. \A f \in Fences : queue[f] \in Seq(Waiters)
  BY DEF TypeOK
<1>2. ASSUME UNCHANGED <<wpc, won, queue>> PROVE ParkedQueued'
  BY <1>2 DEF ParkedQueued
<1>3. ASSUME NEW w \in Waiters, wpc[w] # "parked", UNCHANGED queue,
             \A v \in Waiters \ {w} : wpc'[v] = wpc[v] /\ won'[v] = won[v]
      PROVE  ParkedQueued'
  <2>1. ASSUME NEW f \in Fences, NEW i \in 1 .. Len(queue[f])
        PROVE  queue[f][i] \in Waiters \ {w}
    BY <1>1, <1>3 DEF ParkedQueued
  <2>2. QED
    BY <1>3, <2>1 DEF ParkedQueued
<1>4. ASSUME NEW t \in Threads, NotifyOne(t) PROVE ParkedQueued'
  <2>1. CASE queue[on[t]] = <<>>
    BY <1>2, <1>4, <2>1 DEF NotifyOne
  <2>2. CASE queue[on[t]] # <<>>
    <3> DEFINE f == on[t]
               h == Head(queue[f])
    <3>1. f \in Fences /\ h \in Waiters /\ h = queue[f][1] /\ 1 \in 1 .. Len(queue[f])
      BY <1>1, <2>2 DEF TypeOK
    <3>2. /\ wpc' = [wpc EXCEPT ![h] = "check"]
          /\ queue' = [queue EXCEPT ![f] = Tail(@)]
          /\ won' = won
      BY <1>4, <2>2 DEF NotifyOne
    <3>3. won[h] = f
      BY <3>1 DEF ParkedQueued
    <3>4. ASSUME NEW g \in Fences, NEW i \in 1 .. Len(queue'[g])
          PROVE  /\ wpc'[queue'[g][i]] = "parked" /\ won'[queue'[g][i]] = g
                 /\ \A j \in 1 .. Len(queue'[g]) : queue'[g][j] = queue'[g][i] => j = i
      <4>1. CASE g = f
        <5>1. queue'[f] = Tail(queue[f])
          BY <3>1, <3>2 DEF TypeOK
        <5>2. \A j \in 1 .. Len(queue'[f]) : j + 1 \in 1 .. Len(queue[f]) /\ queue'[f][j] = queue[f][j + 1]
          BY <1>1, <2>2, <3>1, <5>1
        <5>3. /\ wpc[queue[f][i + 1]] = "parked" /\ won[queue[f][i + 1]] = f
              /\ queue[f][i + 1] # h
              /\ queue[f][i + 1] \in Waiters
          BY <1>1, <3>1, <4>1, <5>2 DEF ParkedQueued
        <5>4. wpc'[queue[f][i + 1]] = "parked"
          BY <3>2, <5>3 DEF TypeOK
        <5>5. \A j \in 1 .. Len(queue'[f]) : queue'[f][j] = queue'[f][i] => j + 1 = i + 1
          BY <3>1, <4>1, <5>2 DEF ParkedQueued
        <5>6. queue'[g][i] = queue[f][i + 1]
          BY <4>1, <5>2
        <5>7. \A j \in 1 .. Len(queue'[g]) : queue'[g][j] = queue'[g][i] => j = i
          BY <4>1, <5>5
        <5>8. QED
          BY <3>2, <4>1, <5>3, <5>4, <5>6, <5>7
      <4>2. CASE g # f
        <5>1. queue'[g] = queue[g]
          BY <3>2, <4>2 DEF TypeOK
        <5>2. queue[g][i] \in Waiters /\ queue[g][i] # h /\ wpc[queue[g][i]] = "parked"
          BY <1>1, <3>3, <4>2, <5>1 DEF ParkedQueued
        <5>3. wpc'[queue[g][i]] = "parked"
          BY <3>2, <5>2 DEF TypeOK
        <5>4. won[queue[g][i]] = g /\ \A j \in 1 .. Len(queue[g]) : queue[g][j] = queue[g][i] => j = i
          BY <5>1 DEF ParkedQueued
        <5>5. QED
          BY <3>2, <5>1, <5>3, <5>4
      <4>3. QED
        BY <4>1, <4>2
    <3>5. QED
      BY <3>4 DEF ParkedQueued
  <2>3. QED
    BY <2>1, <2>2
<1>5. ASSUME NEW w \in Waiters, WaitCheck(w) PROVE ParkedQueued'
  BY <1>3, <1>5 DEF WaitCheck, TypeOK
<1>6. ASSUME NEW w \in Waiters, WaitPoll(w) PROVE ParkedQueued'
  <2>1. CASE permit[won[w]]
    BY <1>3, <1>6, <2>1 DEF WaitPoll, TypeOK
  <2>2. CASE ~permit[won[w]]
    <3> DEFINE f == won[w]
    <3>1. /\ f \in Fences /\ wpc[w] = "poll"
          /\ wpc' = [wpc EXCEPT ![w] = "parked"]
          /\ queue' = [queue EXCEPT ![f] = Append(@, w)]
          /\ won' = won
      BY <1>6, <2>2 DEF WaitPoll, TypeOK
    <3>2. \A g \in Fences : \A i \in 1 .. Len(queue[g]) :
            queue[g][i] \in Waiters \ {w} /\ wpc'[queue[g][i]] = "parked"
      BY <1>1, <3>1 DEF ParkedQueued, TypeOK
    <3>3. wpc'[w] = "parked"
      BY <3>1 DEF TypeOK
    <3>4. ASSUME NEW g \in Fences, NEW i \in 1 .. Len(queue'[g])
          PROVE  /\ wpc'[queue'[g][i]] = "parked" /\ won'[queue'[g][i]] = g
                 /\ \A j \in 1 .. Len(queue'[g]) : queue'[g][j] = queue'[g][i] => j = i
      <4>1. CASE g = f
        <5>1. queue'[f] = Append(queue[f], w) /\ queue[f] \in Seq(Waiters)
          BY <1>1, <3>1 DEF TypeOK
        <5>2. \A j \in 1 .. Len(queue'[f]) :
                \/ j \in 1 .. Len(queue[f]) /\ queue'[f][j] = queue[f][j]
                \/ j = Len(queue[f]) + 1 /\ queue'[f][j] = w
          BY <5>1
        <5>3. QED
          BY <3>1, <3>2, <3>3, <4>1, <5>1, <5>2 DEF ParkedQueued
      <4>2. CASE g # f
        <5>1. queue'[g] = queue[g]
          BY <3>1, <4>2 DEF TypeOK
        <5>2. won[queue[g][i]] = g /\ \A j \in 1 .. Len(queue[g]) : queue[g][j] = queue[g][i] => j = i
          BY <5>1 DEF ParkedQueued
        <5>3. wpc'[queue[g][i]] = "parked"
          BY <3>2, <5>1
        <5>4. QED
          BY <3>1, <5>1, <5>2, <5>3
      <4>3. QED
        BY <4>1, <4>2
    <3>5. QED
      BY <3>4 DEF ParkedQueued
  <2>3. QED
    BY <2>1, <2>2
<1>7. ASSUME NEW w \in Waiters, NEW f \in Fences, WaitStart(w, f) PROVE ParkedQueued'
  BY <1>3, <1>7 DEF WaitStart, TypeOK
<1>8. ASSUME NEW t \in Threads, ThreadStep(t) \/ CommitLock(t) \/ \E f \in Fences : EnterLoadEpoch(t, f),
             ~NotifyOne(t)
      PROVE UNCHANGED <<wpc, won, queue>>
  BY <1>8 DEF ThreadStep, CommitLock, EnterLoadEpoch, EnterLoadState, EnterRefused, EnterSwap,
      EnterRecheck, EnterWithdraw, Release, DropActivity, CommitCheckClosed,
      CommitCheckPhase, CommitEnd, waiterVars
<1>9. CASE \/ PublisherStep \/ BeginPublication \/ EndPublication \/ ClosePublication
           \/ \E f \in Fences : MarkCurrent(f) \/ RetireLock(f)
  BY <1>2, <1>9 DEF PublisherStep, RetireLoad, RetireSwap, RetireAgain, BeginPublication,
      EndPublication, ClosePublication, MarkCurrent, RetireLock, waiterVars
<1>10. CASE UNCHANGED vars
  BY <1>2, <1>10 DEF vars
<1>11. QED
  BY <1>2, <1>4, <1>5, <1>6, <1>7, <1>8, <1>9, <1>10 DEF Next, WaiterStep

(* A wait begins on a retired fence, moves to "drained" only on finding    *)
(* the count at zero, and never becomes idle again.                         *)
LEMMA WaitsStep ==
  TypeOK /\ CountIsHolders /\ RetiresInTransition /\ ParkedQueued /\ WaitsRetired /\ [Next]_vars
    => WaitsRetired'
<1> SUFFICES ASSUME TypeOK, CountIsHolders, RetiresInTransition, ParkedQueued, WaitsRetired, [Next]_vars
             PROVE  WaitsRetired'
  OBVIOUS
<1> DEFINE Same(w) == /\ won'[w] = won[w]
                      /\ wpc'[w] # "idle" => wpc[w] # "idle"
                      /\ wpc'[w] = "drained" =>
                           wpc[w] = "drained" \/ (wpc[w] # "idle" /\ state[won[w]].count = 0)
           After(w) == /\ wpc'[w] # "idle" => state'[won'[w]].phase = "retired"
                       /\ wpc'[w] = "drained" => state'[won'[w]].count = 0
<1>1. ASSUME NEW w \in Waiters, Same(w) PROVE After(w)
  BY <1>1, WordStep DEF TypeOK, WaitsRetired
<1>2. ASSUME \A w \in Waiters : After(w) PROVE WaitsRetired'
  BY <1>2 DEF WaitsRetired
<1>3. ASSUME \A w \in Waiters : Same(w) PROVE WaitsRetired'
  BY <1>1, <1>2, <1>3
<1>4. ASSUME NEW t \in Threads, NotifyOne(t) PROVE WaitsRetired'
  <2>1. CASE queue[on[t]] = <<>>
    BY <1>3, <1>4, <2>1 DEF NotifyOne
  <2>2. CASE queue[on[t]] # <<>>
    <3> DEFINE h == Head(queue[on[t]])
    <3>1. h \in Waiters /\ h = queue[on[t]][1] /\ 1 \in 1 .. Len(queue[on[t]]) /\ on[t] \in Fences
      BY <2>2 DEF TypeOK
    <3>2. wpc[h] = "parked"
      BY <3>1 DEF ParkedQueued
    <3>3. wpc' = [wpc EXCEPT ![h] = "check"] /\ won' = won
      BY <1>4, <2>2 DEF NotifyOne
    <3>4. \A w \in Waiters : Same(w)
      BY <3>2, <3>3 DEF TypeOK
    <3>5. QED
      BY <1>3, <3>4
  <2>3. QED
    BY <2>1, <2>2
<1>5. ASSUME NEW w \in Waiters, WaitCheck(w) PROVE WaitsRetired'
  BY <1>3, <1>5 DEF WaitCheck, TypeOK
<1>6. ASSUME NEW w \in Waiters, WaitPoll(w) PROVE WaitsRetired'
  BY <1>3, <1>6 DEF WaitPoll, TypeOK
<1>7. ASSUME NEW w \in Waiters, NEW f \in Fences, WaitStart(w, f) PROVE WaitsRetired'
  <2>1. ASSUME NEW v \in Waiters PROVE After(v)
    <3>1. CASE v = w
      BY <1>7, <3>1 DEF WaitStart, TypeOK
    <3>2. CASE v # w
      <4>1. Same(v)
        BY <1>7, <3>2 DEF WaitStart, TypeOK
      <4>2. QED
        BY <1>1, <4>1
    <3>3. QED
      BY <3>1, <3>2
  <2>2. QED
    BY <1>2, <2>1
<1>8. ASSUME NEW t \in Threads, ThreadStep(t) \/ CommitLock(t) \/ \E f \in Fences : EnterLoadEpoch(t, f),
             ~NotifyOne(t)
      PROVE UNCHANGED <<wpc, won>>
  BY <1>8 DEF ThreadStep, CommitLock, EnterLoadEpoch, EnterLoadState, EnterRefused, EnterSwap,
      EnterRecheck, EnterWithdraw, Release, DropActivity, CommitCheckClosed,
      CommitCheckPhase, CommitEnd, waiterVars
<1>9. CASE \/ PublisherStep \/ BeginPublication \/ EndPublication \/ ClosePublication
           \/ \E f \in Fences : MarkCurrent(f) \/ RetireLock(f)
  BY <1>3, <1>9 DEF PublisherStep, RetireLoad, RetireSwap, RetireAgain, BeginPublication,
      EndPublication, ClosePublication, MarkCurrent, RetireLock, waiterVars
<1>10. CASE UNCHANGED vars
  BY <1>3, <1>10 DEF vars
<1>11. QED
  BY <1>3, <1>4, <1>5, <1>6, <1>7, <1>8, <1>9, <1>10 DEF Next, WaiterStep

-----------------------------------------------------------------------------
(* The epoch only grows: a stable epoch that was loaded and is gone is gone *)
(* for good, and while it is there nobody takes a generation out of         *)
(* "current".                                                               *)
LEMMA EntersStep ==
  TypeOK /\ CountIsHolders /\ RetiresInTransition /\ EntersStable /\ [Next]_vars => EntersStable'
<1> SUFFICES ASSUME TypeOK, CountIsHolders, RetiresInTransition, EntersStable, [Next]_vars
             PROVE  EntersStable'
  OBVIOUS
<1> DEFINE Enters(t) == pc[t] \in {"loadState", "cas", "recheck"} =>
             /\ Stable(seen[t].epoch)
             /\ epoch # Closed => seen[t].epoch <= epoch
             /\ pc[t] = "recheck" /\ seen[t].epoch = epoch => state[on[t]].phase = "current"
<1>1. \A t \in Threads : Enters(t)
  BY DEF EntersStable
<1>2. ASSUME \A t \in Threads : Enters(t)' PROVE EntersStable'
  BY <1>2 DEF EntersStable
(* A thread that has entered nothing new is fine as long as the epoch is.  *)
<1>3. ASSUME NEW t \in Threads, epoch' = epoch,
             pc'[t] \in {"loadState", "cas", "recheck"} =>
               /\ pc[t] \in {"loadState", "cas", "recheck"}
               /\ seen'[t].epoch = seen[t].epoch
               /\ on'[t] = on[t],
             pc'[t] = "recheck" => pc[t] = "recheck"
      PROVE  Enters(t)'
  <2>1. CASE pc'[t] \in {"loadState", "cas", "recheck"}
    <3>1. Enters(t) /\ on[t] \in Fences
      BY <1>1 DEF TypeOK
    <3>2. state[on[t]].phase = "current" /\ Stable(epoch) => state'[on[t]].phase = "current"
      BY <3>1, WordStep
    <3>3. QED
      BY <1>3, <2>1, <3>1, <3>2 DEF Stable
  <2>2. QED
    BY <2>1
<1>4. CASE epoch' = epoch /\ pc' = pc /\ seen' = seen /\ on' = on
  BY <1>2, <1>3, <1>4
<1>5. CASE BeginPublication \/ EndPublication \/ ClosePublication
  <2>1. /\ epoch # Closed
        /\ epoch' = epoch + 1 \/ epoch' = Closed
        /\ UNCHANGED <<pc, seen, on, state>>
    BY <1>5 DEF BeginPublication, EndPublication, ClosePublication, Stable, threadVars
  <2>2. epoch \in Nat /\ \A t \in Threads : seen[t].epoch \in Nat \cup {Closed}
    BY <2>1, FenceAssumption DEF TypeOK, Epochs
  <2>3. \A t \in Threads : Enters(t)'
    BY <1>1, <2>1, <2>2 DEF Stable
  <2>4. QED
    BY <1>2, <2>3
<1>6. ASSUME NEW t \in Threads, NEW f \in Fences, EnterLoadEpoch(t, f) PROVE EntersStable'
  <2>1. Enters(t)'
    <3>1. pc'[t] = "loadState" /\ seen'[t].epoch = epoch /\ epoch' = epoch /\ Stable(epoch)
      BY <1>6 DEF EnterLoadEpoch, Goto, TypeOK
    <3>2. epoch \in Nat
      BY <3>1, FenceAssumption DEF TypeOK, Epochs, Stable
    <3>3. QED
      BY <3>1, <3>2
  <2>2. ASSUME NEW u \in Threads, u # t PROVE Enters(u)'
    BY <1>3, <1>6, <2>2 DEF EnterLoadEpoch, Goto, TypeOK
  <2>3. QED
    BY <1>2, <2>1, <2>2
<1>7. ASSUME NEW t \in Threads, EnterSwap(t) PROVE EntersStable'
  <2>1. ASSUME NEW u \in Threads, u # t \/ pc' = pc PROVE Enters(u)'
    BY <1>3, <1>7, <2>1 DEF EnterSwap, Goto, TypeOK
  <2>2. CASE pc' = pc
    BY <1>2, <2>1, <2>2
  <2>3. CASE /\ state[on[t]] = seen[t].word
             /\ state' = [state EXCEPT ![on[t]].count = @ + 1]
             /\ Goto(t, "recheck")
             /\ UNCHANGED seen
    <3>1. Enters(t) /\ pc[t] = "cas" /\ state[on[t]].phase = "current" /\ on' = on /\ epoch' = epoch
      BY <1>1, <1>7, <2>3 DEF EnterSwap, Admissible
    <3>2. state'[on[t]].phase = "current"
      BY <2>3, <3>1 DEF TypeOK, Word
    <3>3. Enters(t)'
      BY <2>3, <3>1, <3>2 DEF Stable
    <3>4. QED
      BY <1>2, <2>1, <3>3
  <2>4. QED
    BY <1>7, <2>2, <2>3 DEF EnterSwap
<1>8. ASSUME NEW t \in Threads, EnterLoadState(t) PROVE EntersStable'
  <2>1. \A u \in Threads : seen'[u].epoch = seen[u].epoch
    BY <1>8 DEF EnterLoadState, TypeOK
  <2>2. QED
    BY <1>2, <1>3, <1>8, <2>1 DEF EnterLoadState, Goto, TypeOK
<1>9. ASSUME NEW t \in Threads, EnterRefused(t) \/ EnterRecheck(t) \/ NotifyOne(t) PROVE EntersStable'
  BY <1>2, <1>3, <1>9 DEF EnterRefused, EnterRecheck, Admitted, NotifyOne, Goto, TypeOK
<1>10. ASSUME NEW t \in Threads, EnterWithdraw(t) \/ DropActivity(t) PROVE EntersStable'
  <2>1. Release(t)
    BY <1>10 DEF EnterWithdraw, DropActivity
  <2>2. QED
    BY <1>2, <1>3, <2>1 DEF Release, Goto, TypeOK
<1>11. ASSUME NEW t \in Threads,
              CommitLock(t) \/ CommitCheckClosed(t) \/ CommitCheckPhase(t) \/ CommitEnd(t)
      PROVE EntersStable'
  BY <1>2, <1>3, <1>11 DEF CommitLock, CommitCheckClosed, CommitCheckPhase, CommitEnd, Goto, TypeOK
<1>12. CASE PublisherStep \/ \E f \in Fences : MarkCurrent(f) \/ RetireLock(f)
  BY <1>4, <1>12 DEF PublisherStep, RetireLoad, RetireSwap, RetireAgain, MarkCurrent, RetireLock,
      threadVars
<1>13. CASE \E w \in Waiters : WaiterStep(w) \/ \E f \in Fences : WaitStart(w, f)
  BY <1>4, <1>13 DEF WaiterStep, WaitStart, WaitCheck, WaitPoll, threadVars
<1>14. CASE UNCHANGED vars
  BY <1>4, <1>14 DEF vars
<1>15. QED
  BY <1>5, <1>6, <1>7, <1>8, <1>9, <1>10, <1>11, <1>12, <1>13, <1>14 DEF Next, ThreadStep

-----------------------------------------------------------------------------
(* The inductive invariant holds in every reachable state: the conjuncts   *)
(* that the safety properties need of one another, each preserved above.   *)
THEOREM InductiveInvariant == Spec => []IInv
<1>1. Init => IInv
  <2> SUFFICES ASSUME Init PROVE IInv
    OBVIOUS
  <2>1. TypeOK
    BY FenceAssumption DEF Init, TypeOK, Epochs, Word, Phases, ThreadPcs
  <2>2. CountIsHolders
    <3>1. \A f \in Fences : Holders(f) = {} /\ state[f].count = 0
      BY DEF Init, Holders, Holding
    <3>2. QED
      BY <3>1, FS_EmptySet DEF CountIsHolders
  <2>3. LockHeld /\ RetiresInTransition /\ EntersStable /\ WaitsRetired /\ ParkedQueued
    BY DEF Init, LockHeld, RetiresInTransition, EntersStable, WaitsRetired, ParkedQueued
  <2>4. QED
    BY <2>1, <2>2, <2>3 DEF IInv
<1>2. IInv /\ [Next]_vars => IInv'
  BY TypeStep, CountStep, LockStep, TransitionStep, EntersStep, WaitsStep, ParkedStep DEF IInv
<1>3. QED
  BY <1>1, <1>2, PTL DEF Spec

(* Every count, phase and reservation keeps its type: in particular no     *)
(* release ever takes a count below zero (GenerationFence::release).       *)
THEOREM TypeCorrect == Spec => []TypeOK
<1>1. IInv => TypeOK
  BY DEF IInv
<1>2. QED
  BY <1>1, InductiveInvariant, PTL

(* The count in the atomic word is the number of reservations out.         *)
THEOREM CountCorrect == Spec => []CountIsHolders
<1>1. IInv => CountIsHolders
  BY DEF IInv
<1>2. QED
  BY <1>1, InductiveInvariant, PTL

(* A return of wait_drained means that nobody is left in the generation.   *)
THEOREM ReclaimSafe == Spec => []ReclaimQuiescent
<1>1. IInv => ReclaimQuiescent
  <2> SUFFICES ASSUME IInv, NEW w \in Waiters, wpc[w] = "drained"
               PROVE  state[won[w]].phase = "retired" /\ Holders(won[w]) = {}
    BY DEF ReclaimQuiescent
  <2>1. won[w] \in Fences /\ state[won[w]].phase = "retired" /\ state[won[w]].count = 0
    BY DEF IInv, TypeOK, WaitsRetired
  <2>2. Cardinality(Holders(won[w])) = 0
    BY <2>1 DEF IInv, CountIsHolders
  <2>3. Holders(won[w]) = {}
    BY <2>1, <2>2, HoldersFinite, FS_EmptySet
  <2>4. QED
    BY <2>1, <2>3
<1>2. QED
  BY <1>1, InductiveInvariant, PTL

(* Commit windows of a fence exclude one another and its retirement.       *)
THEOREM CommitSafe == Spec => []CommitWindowExclusive
<1>1. IInv => CommitWindowExclusive
  BY DEF IInv, LockHeld, CommitWindowExclusive
<1>2. QED
  BY <1>1, InductiveInvariant, PTL

(* enter returns an activity only on a stable publication and a generation *)
(* that is current at that moment.                                         *)
THEOREM AdmissionSafe == Spec => AdmittedOnCurrent
<1> DEFINE A == \A t \in Threads : pc[t] = "recheck" /\ pc'[t] = "active"
                  => Stable(epoch) /\ state[on[t]].phase = "current"
<1>1. IInv /\ [Next]_vars => [A]_vars
  <2> SUFFICES ASSUME IInv, [Next]_vars, NEW t \in Threads, pc[t] = "recheck", pc'[t] = "active"
               PROVE  Stable(epoch) /\ state[on[t]].phase = "current"
    OBVIOUS
  <2>1. epoch = seen[t].epoch
    <3>1. ASSUME NEW u \in Threads, pc' = [pc EXCEPT ![u] = pc'[u]], pc[u] # "recheck" PROVE FALSE
      BY <3>1 DEF IInv, TypeOK
    <3>2. ASSUME NEW u \in Threads, Release(u), pc[u] \in {"recheck", "active"} PROVE FALSE
      BY <3>2 DEF Release, Goto, IInv, TypeOK
    <3>3. ASSUME NEW u \in Threads, EnterRecheck(u) PROVE epoch = seen[t].epoch
      BY <3>3 DEF EnterRecheck, Admitted, Goto, IInv, TypeOK
    <3>4. ASSUME NEW u \in Threads, ThreadStep(u) \/ CommitLock(u) \/ \E f \in Fences : EnterLoadEpoch(u, f)
          PROVE  epoch = seen[t].epoch
      <4>1. CASE EnterRecheck(u)
        BY <3>3, <4>1
      <4>2. CASE EnterWithdraw(u) \/ DropActivity(u)
        BY <3>2, <4>2 DEF EnterWithdraw, DropActivity
      <4>3. CASE EnterSwap(u)
        BY <4>3 DEF EnterSwap, Goto, IInv, TypeOK
      <4>4. CASE \/ EnterLoadState(u) \/ EnterRefused(u) \/ NotifyOne(u)
                 \/ \E f \in Fences : EnterLoadEpoch(u, f)
        BY <3>1, <4>4 DEF EnterLoadState, EnterRefused, NotifyOne, EnterLoadEpoch, Goto, IInv, TypeOK
      <4>5. CASE CommitLock(u) \/ CommitCheckClosed(u) \/ CommitCheckPhase(u) \/ CommitEnd(u)
        BY <3>1, <4>5 DEF CommitLock, CommitCheckClosed, CommitCheckPhase, CommitEnd, Goto, IInv, TypeOK
      <4>6. QED
        BY <3>4, <4>1, <4>2, <4>3, <4>4, <4>5 DEF ThreadStep
    <3>5. ASSUME pc' = pc PROVE FALSE
      BY <3>5
    <3>6. CASE \/ PublisherStep \/ BeginPublication \/ EndPublication \/ ClosePublication
               \/ \E f \in Fences : MarkCurrent(f) \/ RetireLock(f)
      BY <3>5, <3>6 DEF PublisherStep, RetireLoad, RetireSwap, RetireAgain, BeginPublication,
        EndPublication, ClosePublication, MarkCurrent, RetireLock, threadVars
    <3>7. CASE \E w \in Waiters : WaiterStep(w) \/ \E f \in Fences : WaitStart(w, f)
      BY <3>5, <3>7 DEF WaiterStep, WaitStart, WaitCheck, WaitPoll, threadVars
    <3>8. CASE UNCHANGED vars
      BY <3>5, <3>8 DEF vars
    <3>9. QED
      BY <3>4, <3>6, <3>7, <3>8 DEF Next
  <2>2. QED
    BY <2>1 DEF IInv, EntersStable
<1>2. QED
  BY <1>1, InductiveInvariant, PTL DEF Spec, AdmittedOnCurrent

-----------------------------------------------------------------------------
(* The detailed fence implements the atomic one.  Each step of the code is *)
(* one operation of AtomicFence, or none: a swap that succeeds admits, a   *)
(* release leaves, the phase check opens the window, the retirement swap   *)
(* retires, and the read that finds the count at zero reclaims.             *)

aphase == [f \in Fences |-> state[f].phase]
aholders == [f \in Fences |-> Holders(f)]
acommitter == [f \in Fences |-> {t \in Threads : on[t] = f /\ pc[t] = "commit"}]
areclaimed == {won[w] : w \in {v \in Waiters : wpc[v] = "drained"}}

(* The mapped variables, and when a step leaves each of them alone.         *)
LEMMA HoldersSame ==
  ASSUME \A t \in Threads : pc'[t] \in Holding <=> pc[t] \in Holding,
         \A t \in Threads : pc[t] \in Holding => on'[t] = on[t]
  PROVE  aholders' = aholders
<1>1. \A f \in Fences : Holders(f)' = Holders(f)
  BY DEF Holders
<1>2. QED
  BY <1>1 DEF aholders

LEMMA CommitterSame ==
  ASSUME \A t \in Threads : pc'[t] = "commit" <=> pc[t] = "commit",
         \A t \in Threads : pc[t] = "commit" => on'[t] = on[t]
  PROVE  acommitter' = acommitter
BY DEF acommitter

LEMMA ReclaimedSame ==
  ASSUME \A w \in Waiters : wpc'[w] = "drained" <=> wpc[w] = "drained",
         \A w \in Waiters : wpc[w] = "drained" => won'[w] = won[w]
  PROVE  areclaimed' = areclaimed
BY DEF areclaimed

LEMMA PhaseSame ==
  ASSUME \A f \in Fences : state'[f].phase = state[f].phase
  PROVE  aphase' = aphase
BY DEF aphase

LEMMA AdmitStep ==
  ASSUME IInv, NEW t \in Threads, NEW f \in Fences, f = on[t],
         EnterSwap(t), pc' # pc
  PROVE  Atomic!Admit(t, f)
<1>1. /\ f \in Fences /\ pc[t] = "cas" /\ state[f].phase = "current"
      /\ state' = [state EXCEPT ![f].count = @ + 1]
      /\ pc' = [pc EXCEPT ![t] = "recheck"]
      /\ UNCHANGED <<on, wpc, won>>
  BY DEF IInv, TypeOK, EnterSwap, Admissible, Goto, waiterVars
<1>2. \A g \in Fences : state'[g].phase = state[g].phase
  BY <1>1 DEF IInv, TypeOK, Word
<1>3. \A g \in Fences : Holders(g)' = IF g = f THEN Holders(g) \cup {t} ELSE Holders(g)
  BY <1>1 DEF Holders, Holding, IInv, TypeOK
<1>4. aholders' = [aholders EXCEPT ![f] = @ \cup {t}]
  BY <1>1, <1>3 DEF aholders
<1>5. \A u \in Threads : pc'[u] = "commit" <=> pc[u] = "commit"
  BY <1>1 DEF IInv, TypeOK
<1>6. UNCHANGED <<aphase, acommitter, areclaimed>>
  BY <1>1, <1>2, <1>5, PhaseSame, CommitterSame, ReclaimedSame
<1>7. aphase[f] = "current"
  BY <1>1 DEF aphase
<1>8. QED
  BY <1>4, <1>6, <1>7 DEF Atomic!Admit, aphase, aholders, acommitter, areclaimed

LEMMA LeaveStep ==
  ASSUME IInv, NEW t \in Threads, NEW f \in Fences, f = on[t],
         EnterWithdraw(t) \/ DropActivity(t)
  PROVE  Atomic!Leave(t, f)
<1>1. /\ f \in Fences /\ pc[t] \in Holding /\ pc[t] # "commit"
      /\ state' = [state EXCEPT ![f].count = @ - 1]
      /\ \E l \in {"notify", "idle"} : pc' = [pc EXCEPT ![t] = l]
      /\ UNCHANGED <<on, wpc, won>>
  BY DEF IInv, TypeOK, EnterWithdraw, DropActivity, Release, Goto, Holding, waiterVars
<1>2. \A g \in Fences : state'[g].phase = state[g].phase
  BY <1>1 DEF IInv, TypeOK, Word
<1>3. \A g \in Fences : Holders(g)' = IF g = f THEN Holders(g) \ {t} ELSE Holders(g)
  BY <1>1 DEF Holders, Holding, IInv, TypeOK
<1>4. aholders' = [aholders EXCEPT ![f] = @ \ {t}]
  BY <1>1, <1>3 DEF aholders
<1>5. \A u \in Threads : pc'[u] = "commit" <=> pc[u] = "commit"
  BY <1>1 DEF IInv, TypeOK
<1>6. UNCHANGED <<aphase, acommitter, areclaimed>>
  BY <1>1, <1>2, <1>5, PhaseSame, CommitterSame, ReclaimedSame
<1>7. t \in aholders[f] /\ t \notin acommitter[f]
  BY <1>1 DEF aholders, acommitter, Holders
<1>8. QED
  BY <1>4, <1>6, <1>7 DEF Atomic!Leave, aphase, aholders, acommitter, areclaimed

LEMMA OpenStep ==
  ASSUME IInv, NEW t \in Threads, NEW f \in Fences, f = on[t],
         CommitCheckPhase(t), state[on[t]].phase = "current"
  PROVE  Atomic!OpenCommit(t, f)
<1>1. /\ f \in Fences /\ pc[t] = "checkPhase"
      /\ pc' = [pc EXCEPT ![t] = "commit"]
      /\ UNCHANGED <<state, on, wpc, won>>
  BY DEF IInv, TypeOK, CommitCheckPhase, Goto, waiterVars
<1>2. \A u \in Threads \ {t} : pc[u] = "commit" => on[u] # f
  BY <1>1 DEF IInv, LockHeld
<1>3. \A g \in Fences : {u \in Threads : on'[u] = g /\ pc'[u] = "commit"}
        = IF g = f THEN {t} ELSE {u \in Threads : on[u] = g /\ pc[u] = "commit"}
  BY <1>1, <1>2 DEF IInv, TypeOK
<1>4. acommitter' = [acommitter EXCEPT ![f] = {t}]
  BY <1>1, <1>3 DEF acommitter
<1>5. \A u \in Threads : pc'[u] \in Holding <=> pc[u] \in Holding
  BY <1>1 DEF IInv, TypeOK, Holding
<1>6. UNCHANGED <<aphase, aholders, areclaimed>>
  BY <1>1, <1>5, PhaseSame, HoldersSame, ReclaimedSame
<1>7. aphase[f] = "current" /\ t \in aholders[f] /\ acommitter[f] = {}
  BY <1>1, <1>2 DEF aphase, aholders, acommitter, Holders, Holding
<1>8. QED
  BY <1>4, <1>6, <1>7 DEF Atomic!OpenCommit, aphase, aholders, acommitter, areclaimed

LEMMA CloseStep ==
  ASSUME IInv, NEW t \in Threads, NEW f \in Fences, f = on[t],
         CommitEnd(t)
  PROVE  Atomic!CloseCommit(t, f)
<1>1. /\ f \in Fences /\ pc[t] = "commit"
      /\ pc' = [pc EXCEPT ![t] = "active"]
      /\ UNCHANGED <<state, on, wpc, won>>
  BY DEF IInv, TypeOK, CommitEnd, Goto, waiterVars
<1>2. \A u \in Threads \ {t} : pc[u] = "commit" => on[u] # f
  BY <1>1 DEF IInv, LockHeld
<1>3. \A g \in Fences : {u \in Threads : on'[u] = g /\ pc'[u] = "commit"}
        = IF g = f THEN {} ELSE {u \in Threads : on[u] = g /\ pc[u] = "commit"}
  BY <1>1, <1>2 DEF IInv, TypeOK
<1>4. acommitter' = [acommitter EXCEPT ![f] = {}]
  BY <1>1, <1>3 DEF acommitter
<1>5. \A u \in Threads : pc'[u] \in Holding <=> pc[u] \in Holding
  BY <1>1 DEF IInv, TypeOK, Holding
<1>6. UNCHANGED <<aphase, aholders, areclaimed>>
  BY <1>1, <1>5, PhaseSame, HoldersSame, ReclaimedSame
<1>7. acommitter[f] = {t}
  BY <1>1, <1>2 DEF acommitter
<1>8. QED
  BY <1>4, <1>6, <1>7 DEF Atomic!CloseCommit, aphase, aholders, acommitter, areclaimed

LEMMA PublishStep ==
  ASSUME IInv, NEW f \in Fences, MarkCurrent(f)
  PROVE  Atomic!Publish(f)
<1>1. /\ state[f].phase = "preparing"
      /\ state' = [state EXCEPT ![f].phase = "current"]
      /\ UNCHANGED <<pc, on, wpc, won>>
  BY DEF MarkCurrent, threadVars, waiterVars
<1>2. aphase' = [aphase EXCEPT ![f] = "current"]
  BY <1>1 DEF aphase, IInv, TypeOK, Word
<1>3. UNCHANGED <<aholders, acommitter, areclaimed>>
  BY <1>1, HoldersSame, CommitterSame, ReclaimedSame
<1>4. aphase[f] = "preparing"
  BY <1>1 DEF aphase
<1>5. QED
  BY <1>2, <1>3, <1>4 DEF Atomic!Publish, aphase, aholders, acommitter, areclaimed

LEMMA RetireStep ==
  ASSUME IInv, NEW f \in Fences, f = pon, RetireSwap, ppc' # ppc
  PROVE  Atomic!Retire(f)
<1>1. /\ state[f].phase # "retired" /\ ppc = "cas"
      /\ state' = [state EXCEPT ![f].phase = "retired"]
      /\ UNCHANGED <<pc, on, wpc, won>>
  BY DEF IInv, TypeOK, RetireSwap, threadVars, waiterVars
<1>2. aphase' = [aphase EXCEPT ![f] = "retired"]
  BY <1>1 DEF aphase, IInv, TypeOK, Word
<1>3. UNCHANGED <<aholders, acommitter, areclaimed>>
  BY <1>1, HoldersSame, CommitterSame, ReclaimedSame
<1>4. \A u \in Threads : pc[u] = "commit" => on[u] # f
  BY <1>1, FenceAssumption DEF IInv, LockHeld
<1>5. aphase[f] # "retired" /\ acommitter[f] = {}
  BY <1>1, <1>4 DEF aphase, acommitter
<1>6. QED
  BY <1>2, <1>3, <1>5 DEF Atomic!Retire, aphase, aholders, acommitter, areclaimed

LEMMA ReclaimStep ==
  ASSUME IInv, NEW w \in Waiters, NEW f \in Fences, f = won[w], WaitCheck(w), wpc'[w] = "drained"
  PROVE  Atomic!Reclaim(f)
<1>1. /\ f \in Fences /\ state[f].phase = "retired" /\ state[f].count = 0
      /\ wpc' = [wpc EXCEPT ![w] = "drained"]
      /\ UNCHANGED <<state, pc, on, won>>
  <2>1. wpc' = [wpc EXCEPT ![w] = "drained"] /\ state[f].count = 0
    BY DEF WaitCheck, IInv, TypeOK
  <2>2. QED
    BY <2>1 DEF WaitCheck, IInv, TypeOK, WaitsRetired, threadVars
<1>2. areclaimed' = areclaimed \cup {f}
  BY <1>1 DEF areclaimed, IInv, TypeOK
<1>3. UNCHANGED <<aphase, aholders, acommitter>>
  BY <1>1, PhaseSame, HoldersSame, CommitterSame
<1>4. Holders(f) = {}
  <2>1. Cardinality(Holders(f)) = 0
    BY <1>1 DEF IInv, CountIsHolders
  <2>2. QED
    BY <1>1, <2>1, HoldersFinite, FS_EmptySet
<1>5. aphase[f] = "retired" /\ aholders[f] = {}
  BY <1>1, <1>4 DEF aphase, aholders
<1>6. QED
  BY <1>2, <1>3, <1>5 DEF Atomic!Reclaim, aphase, aholders, acommitter, areclaimed

(* Every step of the code is a step of the atomic fence or a stutter.      *)
LEMMA SimulationStep == IInv /\ [Next]_vars => [Atomic!ANext]_(Atomic!avars)
<1> SUFFICES ASSUME IInv, [Next]_vars PROVE Atomic!ANext \/ UNCHANGED Atomic!avars
  OBVIOUS
<1>1. ASSUME UNCHANGED <<aphase, aholders, acommitter, areclaimed>> PROVE UNCHANGED Atomic!avars
  BY <1>1 DEF Atomic!avars, aphase, aholders, acommitter, areclaimed
<1>2. ASSUME \A f \in Fences : state'[f].phase = state[f].phase,
             \A t \in Threads : pc'[t] \in Holding <=> pc[t] \in Holding,
             \A t \in Threads : pc'[t] = "commit" <=> pc[t] = "commit",
             \A t \in Threads : pc[t] \in Holding => on'[t] = on[t],
             \A w \in Waiters : wpc'[w] = "drained" <=> wpc[w] = "drained",
             \A w \in Waiters : wpc[w] = "drained" => won'[w] = won[w]
      PROVE  UNCHANGED Atomic!avars
  <2>1. \A t \in Threads : pc[t] = "commit" => on'[t] = on[t]
    BY <1>2 DEF Holding
  <2>2. QED
    BY <1>1, <1>2, <2>1, PhaseSame, HoldersSame, CommitterSame, ReclaimedSame
<1>3. ASSUME NEW t \in Threads, ThreadStep(t) \/ CommitLock(t) \/ \E f \in Fences : EnterLoadEpoch(t, f)
      PROVE  Atomic!ANext \/ UNCHANGED Atomic!avars
  <2>1. PICK f \in Fences : f = on[t]
    BY DEF IInv, TypeOK
  <2>2. CASE EnterSwap(t)
    <3>1. CASE pc' # pc
      <4>1. Atomic!Admit(t, f)
        BY <2>1, <2>2, <3>1, AdmitStep
      <4>2. QED
        BY <4>1 DEF Atomic!ANext
    <3>2. CASE pc' = pc
      <4>1. UNCHANGED <<state, on, wpc, won>>
        BY <2>2, <3>2 DEF EnterSwap, Goto, IInv, TypeOK, waiterVars
      <4>2. QED
        BY <1>2, <3>2, <4>1
    <3>3. QED
      BY <3>1, <3>2
  <2>3. CASE EnterWithdraw(t) \/ DropActivity(t)
    <3>1. Atomic!Leave(t, f)
      BY <2>1, <2>3, LeaveStep
    <3>2. QED
      BY <3>1 DEF Atomic!ANext
  <2>4. CASE CommitCheckPhase(t)
    <3>1. CASE state[on[t]].phase = "current"
      <4>1. Atomic!OpenCommit(t, f)
        BY <2>1, <2>4, <3>1, OpenStep
      <4>2. QED
        BY <4>1 DEF Atomic!ANext
    <3>2. CASE state[on[t]].phase # "current"
      <4>1. pc[t] = "checkPhase" /\ pc' = [pc EXCEPT ![t] = "active"] /\ UNCHANGED <<state, on, wpc, won>>
        BY <2>4, <3>2 DEF CommitCheckPhase, Goto, waiterVars
      <4>2. QED
        BY <1>2, <4>1 DEF IInv, TypeOK, Holding
    <3>3. QED
      BY <3>1, <3>2
  <2>5. CASE CommitEnd(t)
    <3>1. Atomic!CloseCommit(t, f)
      BY <2>1, <2>5, CloseStep
    <3>2. QED
      BY <3>1 DEF Atomic!ANext
  <2>6. ASSUME NEW g \in Fences, EnterLoadEpoch(t, g) PROVE UNCHANGED Atomic!avars
    <3>1. /\ pc[t] = "idle" /\ pc' = [pc EXCEPT ![t] = "loadState"]
          /\ \A u \in Threads : u # t => on'[u] = on[u]
          /\ UNCHANGED <<state, wpc, won>>
      BY <2>6 DEF EnterLoadEpoch, Goto, IInv, TypeOK, waiterVars
    <3>2. QED
      BY <1>2, <3>1 DEF IInv, TypeOK, Holding
  <2>7. CASE EnterLoadState(t) \/ EnterRefused(t) \/ EnterRecheck(t) \/ CommitLock(t) \/ CommitCheckClosed(t)
    <3>1. /\ \E l \in {"cas", "idle"} : pc[t] \notin Holding /\ pc' = [pc EXCEPT ![t] = l]
          \/ \E l \in {"active", "checkClosed", "checkPhase"} :
               pc[t] \in Holding /\ pc[t] # "commit" /\ pc' = [pc EXCEPT ![t] = l]
      BY <2>7 DEF EnterLoadState, EnterRefused, EnterRecheck, Admitted, CommitLock, CommitCheckClosed, Goto, Holding
    <3>2. UNCHANGED <<state, on, wpc, won>>
      BY <2>7 DEF EnterLoadState, EnterRefused, EnterRecheck, CommitLock, CommitCheckClosed, waiterVars
    <3>3. QED
      BY <1>2, <3>1, <3>2 DEF IInv, TypeOK, Holding
  <2>8. CASE NotifyOne(t)
    <3>1. pc[t] = "notify" /\ pc' = [pc EXCEPT ![t] = "idle"] /\ UNCHANGED <<state, on, won>>
      BY <2>8 DEF NotifyOne, Goto
    <3>2. \A w \in Waiters : wpc'[w] = "drained" <=> wpc[w] = "drained"
      <4>1. CASE queue[on[t]] = <<>>
        BY <2>8, <4>1 DEF NotifyOne
      <4>2. CASE queue[on[t]] # <<>>
        <5>1. wpc' = [wpc EXCEPT ![Head(queue[on[t]])] = "check"]
          BY <2>8, <4>2 DEF NotifyOne
        <5>2. Head(queue[on[t]]) = queue[on[t]][1] /\ 1 \in 1 .. Len(queue[on[t]])
          BY <2>1, <4>2 DEF IInv, TypeOK
        <5>3. wpc[Head(queue[on[t]])] = "parked"
          BY <2>1, <5>2 DEF IInv, ParkedQueued
        <5>4. QED
          BY <5>1, <5>3 DEF IInv, TypeOK
      <4>3. QED
        BY <4>1, <4>2
    <3>3. QED
      BY <1>2, <3>1, <3>2 DEF IInv, TypeOK, Holding
  <2>9. QED
    BY <1>3, <2>2, <2>3, <2>4, <2>5, <2>6, <2>7, <2>8 DEF ThreadStep
<1>4. ASSUME NEW f \in Fences, MarkCurrent(f) PROVE Atomic!ANext
  BY <1>4, PublishStep DEF Atomic!ANext
<1>5. CASE RetireSwap
  <2>1. CASE ppc' # ppc
    <3>1. PICK f \in Fences : f = pon
      BY DEF IInv, TypeOK
    <3>2. Atomic!Retire(f)
      BY <1>5, <2>1, <3>1, RetireStep
    <3>3. QED
      BY <3>2 DEF Atomic!ANext
  <2>2. CASE ppc' = ppc
    <3>1. UNCHANGED <<state, pc, on, wpc, won>>
      BY <1>5, <2>2 DEF RetireSwap, threadVars, waiterVars
    <3>2. QED
      BY <1>2, <3>1
  <2>3. QED
    BY <2>1, <2>2
<1>6. CASE \/ RetireLoad \/ RetireAgain \/ BeginPublication \/ EndPublication \/ ClosePublication
           \/ \E f \in Fences : RetireLock(f)
  <2>1. UNCHANGED <<state, pc, on, wpc, won>>
    BY <1>6 DEF RetireLoad, RetireAgain, BeginPublication, EndPublication, ClosePublication, RetireLock,
      threadVars, waiterVars
  <2>2. QED
    BY <1>2, <2>1
<1>7. ASSUME NEW w \in Waiters, WaitCheck(w) PROVE Atomic!ANext \/ UNCHANGED Atomic!avars
  <2>1. CASE wpc'[w] = "drained"
    <3>1. PICK f \in Fences : f = won[w]
      BY DEF IInv, TypeOK
    <3>2. Atomic!Reclaim(f)
      BY <1>7, <2>1, <3>1, ReclaimStep
    <3>3. QED
      BY <3>2 DEF Atomic!ANext
  <2>2. CASE wpc'[w] # "drained"
    <3>1. wpc[w] = "check" /\ wpc' = [wpc EXCEPT ![w] = "poll"] /\ UNCHANGED <<state, pc, on, won>>
      BY <1>7, <2>2 DEF WaitCheck, threadVars, IInv, TypeOK
    <3>2. QED
      BY <1>2, <3>1 DEF IInv, TypeOK
  <2>3. QED
    BY <2>1, <2>2
<1>8. ASSUME NEW w \in Waiters, WaitPoll(w) \/ \E f \in Fences : WaitStart(w, f)
      PROVE  UNCHANGED Atomic!avars
  <2>1. /\ wpc[w] \in {"poll", "idle"}
        /\ \E l \in {"check", "parked"} : wpc' = [wpc EXCEPT ![w] = l]
        /\ \A v \in Waiters : v # w => won'[v] = won[v]
        /\ UNCHANGED <<state, pc, on>>
    BY <1>8 DEF WaitPoll, WaitStart, threadVars, IInv, TypeOK
  <2>2. QED
    BY <1>2, <2>1 DEF IInv, TypeOK
<1>9. CASE UNCHANGED vars
  BY <1>2, <1>9 DEF vars
<1>10. QED
  BY <1>3, <1>4, <1>5, <1>6, <1>7, <1>8, <1>9 DEF Next, PublisherStep, WaiterStep

(* The loads, swaps, lock and notifications of generation.rs together      *)
(* behave as one atomic fence, for any number of threads and generations.  *)
THEOREM Refinement == Spec => ImplementsAtomicFence
<1>1. Init => Atomic!AInit
  <2> SUFFICES ASSUME Init PROVE Atomic!AInit
    OBVIOUS
  <2>1. \A f \in Fences : Holders(f) = {} /\ {t \in Threads : on[t] = f /\ pc[t] = "commit"} = {}
    BY DEF Init, Holders, Holding
  <2>2. {won[w] : w \in {v \in Waiters : wpc[v] = "drained"}} = {}
    BY DEF Init
  <2>3. \A f \in Fences : state[f].phase = "preparing"
    BY DEF Init
  <2>4. QED
    BY <2>1, <2>2, <2>3 DEF Atomic!AInit
<1>2. QED
  BY <1>1, SimulationStep, InductiveInvariant, PTL DEF Spec, ImplementsAtomicFence, Atomic!ASpec

-----------------------------------------------------------------------------
(* Notify::notify_one wakes one consumer of a drained generation.  That it *)
(* is not lost on the first: once nobody is left in the generation, either *)
(* the notification is stored, or a thread is about to send it, or a       *)
(* consumer has got it (release, wait_drained).                             *)
Notifying(f) == \E t \in Threads : on[t] = f /\ pc[t] = "notify"
Asleep(f) == \E w \in Waiters : won[w] = f /\ wpc[w] \in {"poll", "parked"}
Awake(f) == \E w \in Waiters : won[w] = f /\ wpc[w] \in {"check", "drained"}

WakeupKept ==
  \A f \in Fences : state[f].phase = "retired" /\ state[f].count = 0 /\ Asleep(f)
    => permit[f] \/ Notifying(f) \/ Awake(f)

(* A stored notification and a parked consumer exclude each other, and who *)
(* is parked is where notify_one looks.                                     *)
Parked ==
  /\ \A f \in Fences : permit[f] => queue[f] = <<>>
  /\ \A w \in Waiters : wpc[w] = "parked" =>
       \E i \in 1 .. Len(queue[won[w]]) : queue[won[w]][i] = w

LEMMA ParkStep ==
  ASSUME TypeOK, ParkedQueued, Parked, [Next]_vars
  PROVE  Parked'
<1>1. \A f \in Fences : queue[f] \in Seq(Waiters)
  BY DEF TypeOK
<1>2. ASSUME UNCHANGED <<permit, queue, wpc, won>> PROVE Parked'
  BY <1>2 DEF Parked
<1>3. ASSUME NEW w \in Waiters, wpc[w] # "parked", wpc'[w] # "parked",
             UNCHANGED queue, \A f \in Fences : permit'[f] => permit[f],
             \A v \in Waiters \ {w} : wpc'[v] = wpc[v] /\ won'[v] = won[v]
      PROVE  Parked'
  BY <1>3 DEF Parked
<1>4. ASSUME NEW t \in Threads, NotifyOne(t) PROVE Parked'
  <2> DEFINE f == on[t]
             h == Head(queue[f])
  <2>1. f \in Fences /\ won' = won
    BY <1>4 DEF NotifyOne, TypeOK
  <2>2. CASE queue[f] = <<>>
    <3>1. permit' = [permit EXCEPT ![f] = TRUE] /\ UNCHANGED <<queue, wpc>>
      BY <1>4, <2>2 DEF NotifyOne
    <3>2. QED
      BY <2>1, <2>2, <3>1 DEF Parked, TypeOK
  <2>3. CASE queue[f] # <<>>
    <3>1. /\ wpc' = [wpc EXCEPT ![h] = "check"]
          /\ queue' = [queue EXCEPT ![f] = Tail(@)] /\ permit' = permit
      BY <1>4, <2>3 DEF NotifyOne
    <3>2. /\ queue[f] \in Seq(Waiters) /\ h \in Waiters /\ h = queue[f][1]
          /\ queue'[f] = Tail(queue[f]) /\ \A g \in Fences \ {f} : queue'[g] = queue[g]
      BY <1>1, <2>1, <2>3, <3>1 DEF TypeOK
    <3>3. \A g \in Fences : permit'[g] => queue'[g] = <<>>
      BY <2>1, <2>3, <3>1, <3>2 DEF Parked
    <3>4. ASSUME NEW w \in Waiters, wpc'[w] = "parked"
          PROVE  \E i \in 1 .. Len(queue'[won'[w]]) : queue'[won'[w]][i] = w
      <4>1. w # h /\ wpc[w] = "parked" /\ won'[w] = won[w] /\ won[w] \in Fences
        BY <2>1, <3>1, <3>2, <3>4 DEF TypeOK
      <4>2. PICK i \in 1 .. Len(queue[won[w]]) : queue[won[w]][i] = w
        BY <4>1 DEF Parked
      <4>3. CASE won[w] = f
        <5>1. i # 1 /\ i \in 1 .. Len(queue[f])
          BY <3>2, <4>1, <4>2, <4>3
        <5>2. i - 1 \in 1 .. Len(Tail(queue[f])) /\ Tail(queue[f])[i - 1] = queue[f][i]
          BY <2>3, <3>2, <5>1
        <5>3. QED
          BY <3>2, <4>1, <4>2, <4>3, <5>2
      <4>4. CASE won[w] # f
        BY <3>2, <4>1, <4>2, <4>4
      <4>5. QED
        BY <4>3, <4>4
    <3>5. QED
      BY <3>3, <3>4 DEF Parked
  <2>4. QED
    BY <2>2, <2>3
<1>5. ASSUME NEW w \in Waiters, WaitPoll(w) PROVE Parked'
  <2> DEFINE f == won[w]
  <2>1. f \in Fences /\ won' = won /\ wpc[w] = "poll"
    BY <1>5 DEF WaitPoll, TypeOK
  <2>2. CASE permit[f]
    <3>1. /\ permit' = [permit EXCEPT ![f] = FALSE] /\ queue' = queue
          /\ wpc' = [wpc EXCEPT ![w] = "check"]
      BY <1>5, <2>2 DEF WaitPoll
    <3>2. QED
      BY <1>3, <2>1, <3>1 DEF TypeOK
  <2>3. CASE ~permit[f]
    <3>1. /\ queue' = [queue EXCEPT ![f] = Append(@, w)] /\ permit' = permit
          /\ wpc' = [wpc EXCEPT ![w] = "parked"]
      BY <1>5, <2>3 DEF WaitPoll
    <3>2. queue'[f] = Append(queue[f], w) /\ \A g \in Fences \ {f} : queue'[g] = queue[g]
      BY <2>1, <3>1 DEF TypeOK
    <3>3. /\ \A i \in 1 .. Len(queue[f]) : i \in 1 .. Len(queue'[f]) /\ queue'[f][i] = queue[f][i]
          /\ Len(queue[f]) + 1 \in 1 .. Len(queue'[f])
          /\ queue'[f][Len(queue[f]) + 1] = w
      BY <1>1, <2>1, <3>2
    <3>4. \A g \in Fences : permit'[g] => queue'[g] = <<>>
      BY <2>3, <3>1, <3>2 DEF Parked
    <3>5. ASSUME NEW v \in Waiters, wpc'[v] = "parked"
          PROVE  \E i \in 1 .. Len(queue'[won'[v]]) : queue'[won'[v]][i] = v
      <4>1. won'[v] = won[v] /\ won[v] \in Fences
        BY <2>1 DEF TypeOK
      <4>2. CASE v = w
        BY <2>1, <3>3, <4>2
      <4>3. CASE v # w
        <5>1. wpc[v] = "parked"
          BY <3>1, <3>5, <4>3 DEF TypeOK
        <5>2. PICK i \in 1 .. Len(queue[won[v]]) : queue[won[v]][i] = v
          BY <5>1 DEF Parked
        <5>3. QED
          BY <3>2, <3>3, <4>1, <5>2
      <4>4. QED
        BY <4>2, <4>3
    <3>6. QED
      BY <3>4, <3>5 DEF Parked
  <2>4. QED
    BY <2>2, <2>3
<1>6. ASSUME NEW w \in Waiters, WaitCheck(w) PROVE Parked'
  BY <1>3, <1>6 DEF WaitCheck, TypeOK
<1>7. ASSUME NEW w \in Waiters, NEW f \in Fences, WaitStart(w, f) PROVE Parked'
  BY <1>3, <1>7 DEF WaitStart, TypeOK
<1>8. ASSUME NEW t \in Threads, ThreadStep(t) \/ CommitLock(t) \/ \E f \in Fences : EnterLoadEpoch(t, f),
             ~NotifyOne(t)
      PROVE UNCHANGED <<permit, queue, wpc, won>>
  BY <1>8 DEF ThreadStep, CommitLock, EnterLoadEpoch, EnterLoadState, EnterRefused, EnterSwap,
      EnterRecheck, EnterWithdraw, Release, DropActivity, CommitCheckClosed,
      CommitCheckPhase, CommitEnd, waiterVars
<1>9. CASE \/ PublisherStep \/ BeginPublication \/ EndPublication \/ ClosePublication
           \/ \E f \in Fences : MarkCurrent(f) \/ RetireLock(f)
  BY <1>2, <1>9 DEF PublisherStep, RetireLoad, RetireSwap, RetireAgain, BeginPublication,
      EndPublication, ClosePublication, MarkCurrent, RetireLock, waiterVars
<1>10. CASE UNCHANGED vars
  BY <1>2, <1>10 DEF vars, waiterVars
<1>11. QED
  BY <1>2, <1>4, <1>5, <1>6, <1>7, <1>8, <1>9, <1>10 DEF Next, WaiterStep

(* The last to leave has the notification to send, and whoever takes it in *)
(* finds the generation drained, so that it does not wait again.            *)
LEMMA WakeupStep ==
  ASSUME IInv, WakeupKept, [Next]_vars
  PROVE  WakeupKept'
<1> DEFINE Drained(f) == state[f].phase = "retired" /\ state[f].count = 0
<1>1. TypeOK /\ CountIsHolders /\ RetiresInTransition /\ WaitsRetired /\ ParkedQueued
  BY DEF IInv
<1>2. SUFFICES ASSUME NEW f \in Fences, Drained(f)', Asleep(f)'
               PROVE  permit'[f] \/ Notifying(f)' \/ Awake(f)'
  BY DEF WakeupKept
<1> DEFINE Goal == permit'[f] \/ Notifying(f)' \/ Awake(f)'
<1>3. ASSUME UNCHANGED <<permit, wpc, won>>, Notifying(f) => Notifying(f)',
             Drained(f) \/ Notifying(f)'
      PROVE  Goal
  BY <1>2, <1>3 DEF WakeupKept, Asleep, Awake
<1>4. Asleep(f) => state[f].phase = "retired"
  BY <1>1 DEF Asleep, WaitsRetired
<1>5. ASSUME NEW t \in Threads, EnterWithdraw(t) \/ DropActivity(t) PROVE Goal
  <2>1. pc[t] \in Holding /\ Release(t)
    BY <1>5 DEF EnterWithdraw, DropActivity, Holding
  <2>2. /\ UNCHANGED <<permit, wpc, won, on>>
        /\ state' = [state EXCEPT ![on[t]].count = @ - 1]
        /\ pc' = [pc EXCEPT ![t] = IF state[on[t]].count = 1 THEN "notify" ELSE "idle"]
    BY <2>1 DEF Release, Goto, waiterVars
  <2>3. Notifying(f) => Notifying(f)'
    BY <1>1, <2>1, <2>2 DEF Notifying, Holding, TypeOK
  <2>4. CASE on[t] = f
    <3>1. state[f].count \in Nat /\ state'[f].count = state[f].count - 1
      BY <1>1, <2>2, <2>4 DEF TypeOK, Word
    <3>2. state[f].count = 1
      BY <1>2, <3>1
    <3>3. Notifying(f)'
      BY <1>1, <2>2, <2>4, <3>2 DEF Notifying, TypeOK
    <3>4. QED
      BY <3>3
  <2>5. CASE on[t] # f
    <3>1. Drained(f)
      BY <1>1, <1>2, <2>2, <2>5 DEF TypeOK
    <3>2. QED
      BY <1>3, <2>2, <2>3, <3>1
  <2>6. QED
    BY <2>4, <2>5
<1>6. ASSUME NEW t \in Threads, EnterSwap(t) PROVE Goal
  <2>1. UNCHANGED <<permit, wpc, won, on>>
    BY <1>6 DEF EnterSwap, waiterVars
  <2>2. Notifying(f) => Notifying(f)'
    BY <1>1, <1>6, <2>1 DEF EnterSwap, Goto, Notifying, TypeOK
  <2>3. state' = state \/ state' = [state EXCEPT ![on[t]].count = @ + 1]
    BY <1>6 DEF EnterSwap
  <2>4. state[f] \in Word /\ on[t] \in Fences
    BY <1>1 DEF TypeOK
  <2>5. CASE state'[f] = state[f]
    BY <1>2, <1>3, <2>1, <2>2, <2>5
  <2>6. CASE state'[f] # state[f]
    <3>1. state'[f] = [state[f] EXCEPT !.count = @ + 1]
      BY <1>1, <2>3, <2>4, <2>6 DEF TypeOK
    <3>2. state'[f].count = state[f].count + 1 /\ state[f].count \in Nat
      BY <2>4, <3>1 DEF Word
    <3>3. QED
      BY <1>2, <3>2
  <2>7. QED
    BY <2>5, <2>6
<1>7. ASSUME NEW t \in Threads, NotifyOne(t) PROVE Goal
  <2>1. UNCHANGED <<state, on, won>> /\ pc' = [pc EXCEPT ![t] = "idle"] /\ on[t] \in Fences
    BY <1>1, <1>7 DEF NotifyOne, Goto, TypeOK
  <2>2. CASE queue[on[t]] = <<>>
    <3>1. permit' = [permit EXCEPT ![on[t]] = TRUE] /\ wpc' = wpc
      BY <1>7, <2>2 DEF NotifyOne
    <3>2. CASE on[t] = f
      BY <1>1, <3>1, <3>2 DEF TypeOK
    <3>3. CASE on[t] # f
      <4>1. permit'[f] = permit[f] /\ (Notifying(f) => Notifying(f)')
        BY <1>1, <2>1, <3>1, <3>3 DEF Notifying, TypeOK
      <4>2. QED
        BY <1>2, <2>1, <3>1, <4>1 DEF WakeupKept, Asleep, Awake
    <3>4. QED
      BY <3>2, <3>3
  <2>3. CASE queue[on[t]] # <<>>
    <3> DEFINE h == Head(queue[on[t]])
    <3>1. permit' = permit /\ wpc' = [wpc EXCEPT ![h] = "check"]
      BY <1>7, <2>3 DEF NotifyOne
    <3>2. h \in Waiters /\ wpc[h] = "parked" /\ won[h] = on[t]
      <4>1. queue[on[t]] \in Seq(Waiters) /\ h \in Waiters /\ h = queue[on[t]][1]
            /\ 1 \in 1 .. Len(queue[on[t]])
        BY <1>1, <2>1, <2>3 DEF TypeOK
      <4>2. QED
        BY <1>1, <2>1, <4>1 DEF ParkedQueued
    <3> HIDE DEF h
    <3>3. wpc'[h] = "check" /\ \A w \in Waiters \ {h} : wpc'[w] = wpc[w]
      BY <1>1, <3>1, <3>2 DEF TypeOK
    <3>4. CASE on[t] = f
      BY <2>1, <3>2, <3>3, <3>4 DEF Awake
    <3>5. CASE on[t] # f
      <4>1. Notifying(f) => Notifying(f)'
        BY <1>1, <2>1, <3>5 DEF Notifying, TypeOK
      <4>2. \A w \in Waiters : won[w] = f => wpc'[w] = wpc[w]
        BY <3>2, <3>3, <3>5
      <4>3. Asleep(f) /\ (Awake(f) => Awake(f)')
        BY <1>2, <2>1, <4>2 DEF Asleep, Awake
      <4>4. QED
        BY <1>2, <2>1, <3>1, <4>1, <4>3 DEF WakeupKept
    <3>6. QED
      BY <3>4, <3>5
  <2>4. QED
    BY <2>2, <2>3
<1>8. ASSUME NEW w \in Waiters, WaitCheck(w) PROVE Goal
  <2>1. /\ UNCHANGED <<state, permit, pc, on, won>> /\ wpc[w] = "check"
        /\ wpc' = [wpc EXCEPT ![w] = IF state[won[w]].count = 0 THEN "drained" ELSE "poll"]
    BY <1>8 DEF WaitCheck, threadVars
  <2>2. CASE won[w] = f
    <3>1. wpc'[w] = "drained"
      BY <1>1, <1>2, <2>1, <2>2 DEF TypeOK
    <3>2. QED
      BY <2>1, <2>2, <3>1 DEF Awake
  <2>3. CASE won[w] # f
    <3>1. \A v \in Waiters : won[v] = f => wpc'[v] = wpc[v]
      BY <1>1, <2>1, <2>3 DEF TypeOK
    <3>2. Asleep(f) /\ (Awake(f) => Awake(f)') /\ (Notifying(f) => Notifying(f)')
      BY <1>2, <2>1, <3>1 DEF Asleep, Awake, Notifying
    <3>3. QED
      BY <1>2, <2>1, <3>2 DEF WakeupKept
  <2>4. QED
    BY <2>2, <2>3
<1>9. ASSUME NEW w \in Waiters, WaitPoll(w) PROVE Goal
  <2>1. UNCHANGED <<state, pc, on, won>> /\ wpc[w] = "poll" /\ won[w] \in Fences
    BY <1>1, <1>9 DEF WaitPoll, threadVars, TypeOK
  <2>2. CASE permit[won[w]]
    <3>1. /\ permit' = [permit EXCEPT ![won[w]] = FALSE]
          /\ wpc' = [wpc EXCEPT ![w] = "check"]
      BY <1>9, <2>2 DEF WaitPoll
    <3>2. CASE won[w] = f
      BY <1>1, <2>1, <3>1, <3>2 DEF Awake, TypeOK
    <3>3. CASE won[w] # f
      <4>1. permit'[f] = permit[f] /\ \A v \in Waiters : won[v] = f => wpc'[v] = wpc[v]
        BY <1>1, <3>1, <3>3 DEF TypeOK
      <4>2. Asleep(f) /\ (Awake(f) => Awake(f)') /\ (Notifying(f) => Notifying(f)')
        BY <1>2, <2>1, <4>1 DEF Asleep, Awake, Notifying
      <4>3. QED
        BY <1>2, <2>1, <4>1, <4>2 DEF WakeupKept
    <3>4. QED
      BY <3>2, <3>3
  <2>3. CASE ~permit[won[w]]
    <3>1. permit' = permit /\ wpc' = [wpc EXCEPT ![w] = "parked"]
      BY <1>9, <2>3 DEF WaitPoll
    <3>2. \A v \in Waiters : /\ wpc'[v] \in {"poll", "parked"} => wpc[v] \in {"poll", "parked"}
                             /\ wpc[v] \in {"check", "drained"} => wpc'[v] = wpc[v]
      BY <1>1, <2>1, <3>1 DEF TypeOK
    <3>3. Asleep(f)
      <4>1. PICK v \in Waiters : won'[v] = f /\ wpc'[v] \in {"poll", "parked"}
        BY <1>2 DEF Asleep
      <4>2. won[v] = f /\ wpc[v] \in {"poll", "parked"}
        BY <2>1, <3>2, <4>1
      <4>3. QED
        BY <4>2 DEF Asleep
    <3>4. Awake(f) => Awake(f)'
      <4>1. ASSUME NEW v \in Waiters, won[v] = f, wpc[v] \in {"check", "drained"}
            PROVE  won'[v] = f /\ wpc'[v] \in {"check", "drained"}
        BY <2>1, <3>2, <4>1
      <4>2. QED
        BY <4>1 DEF Awake
    <3>5. Notifying(f) => Notifying(f)'
      BY <2>1 DEF Notifying
    <3>6. QED
      BY <1>2, <2>1, <3>1, <3>3, <3>4, <3>5 DEF WakeupKept
  <2>4. QED
    BY <2>2, <2>3
<1>10. ASSUME NEW w \in Waiters, NEW g \in Fences, WaitStart(w, g) PROVE Goal
  <2>1. /\ UNCHANGED <<state, permit, pc, on>> /\ wpc[w] = "idle"
        /\ won' = [won EXCEPT ![w] = g] /\ wpc' = [wpc EXCEPT ![w] = "check"]
    BY <1>10 DEF WaitStart, threadVars
  <2>2. /\ wpc'[w] = "check" /\ won'[w] = g
        /\ \A v \in Waiters \ {w} : wpc'[v] = wpc[v] /\ won'[v] = won[v]
    BY <1>1, <2>1 DEF TypeOK
  <2>3. Asleep(f) /\ (Awake(f) => Awake(f)') /\ (Notifying(f) => Notifying(f)')
    BY <1>2, <2>1, <2>2 DEF Asleep, Awake, Notifying
  <2>4. QED
    BY <1>2, <2>1, <2>3 DEF WakeupKept
<1>11. CASE RetireSwap \/ \E g \in Fences : MarkCurrent(g)
  <2>1. UNCHANGED <<permit, wpc, won, pc, on>>
    BY <1>11 DEF RetireSwap, MarkCurrent, threadVars, waiterVars
  <2>2. Asleep(f) /\ (Notifying(f) => Notifying(f)')
    BY <1>2, <2>1 DEF Asleep, Notifying
  <2>3. \/ state' = state
        \/ \E g \in Fences, p \in Phases : state' = [state EXCEPT ![g].phase = p]
    BY <1>1, <1>11 DEF RetireSwap, MarkCurrent, TypeOK, Phases
  <2>4. state'[f].count = state[f].count
    <3>1. state[f] \in Word /\ state \in [Fences -> Word]
      BY <1>1 DEF TypeOK
    <3>2. CASE state' = state
      BY <3>2
    <3>3. ASSUME NEW g \in Fences, NEW p \in Phases, state' = [state EXCEPT ![g].phase = p]
          PROVE  state'[f].count = state[f].count
      <4>1. state'[f] = state[f] \/ state'[f] = [state[f] EXCEPT !.phase = p]
        BY <3>1, <3>3
      <4>2. QED
        BY <3>1, <4>1 DEF Word
    <3>4. QED
      BY <2>3, <3>2, <3>3
  <2>5. Drained(f)
    BY <1>2, <1>4, <2>2, <2>4
  <2>6. QED
    BY <1>3, <2>1, <2>2, <2>5
<1>12. ASSUME NEW t \in Threads,
             \/ EnterLoadState(t) \/ EnterRefused(t) \/ EnterRecheck(t)
             \/ CommitLock(t) \/ CommitCheckClosed(t) \/ CommitCheckPhase(t) \/ CommitEnd(t)
             \/ \E g \in Fences : EnterLoadEpoch(t, g)
      PROVE Goal
  <2>1. UNCHANGED <<state, permit, wpc, won>>
    BY <1>12 DEF EnterLoadState, EnterRefused, EnterRecheck, CommitLock, CommitCheckClosed,
        CommitCheckPhase, CommitEnd, EnterLoadEpoch, waiterVars
  <2>2. pc[t] # "notify"
    BY <1>12 DEF EnterLoadState, EnterRefused, EnterRecheck, Admitted, CommitLock,
        CommitCheckClosed, CommitCheckPhase, CommitEnd, EnterLoadEpoch
  <2>3. \A u \in Threads \ {t} : pc'[u] = pc[u] /\ on'[u] = on[u]
    BY <1>1, <1>12 DEF EnterLoadState, EnterRefused, EnterRecheck, CommitLock,
        CommitCheckClosed, CommitCheckPhase, CommitEnd, EnterLoadEpoch, Goto, TypeOK
  <2>4. Notifying(f) => Notifying(f)'
    BY <2>2, <2>3 DEF Notifying
  <2>5. QED
    BY <1>2, <1>3, <2>1, <2>4
<1>13. CASE \/ RetireLoad \/ RetireAgain \/ BeginPublication \/ EndPublication \/ ClosePublication
            \/ (\E g \in Fences : RetireLock(g)) \/ UNCHANGED vars
  <2>1. UNCHANGED <<state, permit, wpc, won, pc, on>>
    BY <1>13 DEF RetireLoad, RetireAgain, BeginPublication, EndPublication,
        ClosePublication, RetireLock, threadVars, waiterVars, vars
  <2>2. Notifying(f) => Notifying(f)'
    BY <2>1 DEF Notifying
  <2>3. QED
    BY <1>2, <1>3, <2>1, <2>2
<1>14. QED
  BY <1>5, <1>6, <1>7, <1>8, <1>9, <1>10, <1>11, <1>12, <1>13
     DEF Next, ThreadStep, PublisherStep, WaiterStep

(* The safety half of "wait_drained returns": in a generation that nobody  *)
(* is left in, no notification is lost before a consumer has got one.       *)
THEOREM WakeupCorrect == Spec => [](WakeupKept /\ Parked)
<1>1. Init => WakeupKept /\ Parked
  BY DEF Init, WakeupKept, Parked, Asleep
<1>2. IInv /\ WakeupKept /\ Parked /\ [Next]_vars => (WakeupKept /\ Parked)'
  BY WakeupStep, ParkStep DEF IInv
<1>3. QED
  BY <1>1, <1>2, InductiveInvariant, PTL DEF Spec

(* A consumer that is alone with its generation, as every consumer of this *)
(* commit is, never sleeps on after the last activity has left: the thread *)
(* that took the count to zero has yet to wake it (release, wait_drained).  *)
AloneWakes ==
  \A w \in Waiters :
    /\ wpc[w] = "parked" /\ Holders(won[w]) = {}
    /\ \A v \in Waiters \ {w} : wpc[v] # "idle" => won[v] # won[w]
    => Notifying(won[w])

THEOREM AloneCorrect == Spec => []AloneWakes
<1>1. IInv /\ WakeupKept /\ Parked => AloneWakes
  <2> SUFFICES ASSUME IInv, WakeupKept, Parked, NEW w \in Waiters,
                      wpc[w] = "parked", Holders(won[w]) = {},
                      \A v \in Waiters \ {w} : wpc[v] # "idle" => won[v] # won[w]
               PROVE  Notifying(won[w])
    BY DEF AloneWakes
  <2> DEFINE f == won[w]
  <2>1. f \in Fences /\ queue[f] \in Seq(Waiters) /\ state[f].phase = "retired"
    BY DEF IInv, TypeOK, WaitsRetired
  <2>2. state[f].count = 0
    BY <2>1, FS_EmptySet DEF IInv, CountIsHolders
  <2>3. ~permit[f]
    BY <2>1 DEF Parked
  <2>4. Asleep(f) /\ ~Awake(f)
    BY DEF Asleep, Awake
  <2>5. QED
    BY <2>1, <2>2, <2>3, <2>4 DEF WakeupKept
<1>2. QED
  BY <1>1, InductiveInvariant, WakeupCorrect, PTL
=============================================================================
