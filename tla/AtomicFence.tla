---------------------------- MODULE AtomicFence ----------------------------
(***************************************************************************)
(* What a generation fence promises, with every operation one step:        *)
(* activities are admitted only on the current generation, a commit window *)
(* and retirement exclude each other, and a generation's Stores are        *)
(* reclaimed only when it is retired and nobody works in it any more.      *)
(* GenerationFence, which has the loads, the compare-and-swaps, the lock   *)
(* and the notifications of the code, implements this module.              *)
(***************************************************************************)
EXTENDS FiniteSets

CONSTANTS Fences,   \* the generations of one family
          Threads   \* the Host threads that work in them

VARIABLES phase,      \* the lifecycle phase of each fence
          holders,    \* who holds an activity reservation of a fence
          committer,  \* who has the commit window of a fence open
          reclaimed   \* the fences whose Stores a consumer has reclaimed

avars == <<phase, holders, committer, reclaimed>>

AInit ==
  /\ phase = [f \in Fences |-> "preparing"]
  /\ holders = [f \in Fences |-> {}]
  /\ committer = [f \in Fences |-> {}]
  /\ reclaimed = {}

Admit(t, f) ==
  /\ phase[f] = "current"
  /\ holders' = [holders EXCEPT ![f] = @ \cup {t}]
  /\ UNCHANGED <<phase, committer, reclaimed>>

Leave(t, f) ==
  /\ t \in holders[f]
  /\ t \notin committer[f]
  /\ holders' = [holders EXCEPT ![f] = @ \ {t}]
  /\ UNCHANGED <<phase, committer, reclaimed>>

OpenCommit(t, f) ==
  /\ t \in holders[f]
  /\ phase[f] = "current"
  /\ committer[f] = {}
  /\ committer' = [committer EXCEPT ![f] = {t}]
  /\ UNCHANGED <<phase, holders, reclaimed>>

CloseCommit(t, f) ==
  /\ committer[f] = {t}
  /\ committer' = [committer EXCEPT ![f] = {}]
  /\ UNCHANGED <<phase, holders, reclaimed>>

Publish(f) ==
  /\ phase[f] = "preparing"
  /\ phase' = [phase EXCEPT ![f] = "current"]
  /\ UNCHANGED <<holders, committer, reclaimed>>

Retire(f) ==
  /\ phase[f] # "retired"
  /\ committer[f] = {}
  /\ phase' = [phase EXCEPT ![f] = "retired"]
  /\ UNCHANGED <<holders, committer, reclaimed>>

Reclaim(f) ==
  /\ phase[f] = "retired"
  /\ holders[f] = {}
  /\ reclaimed' = reclaimed \cup {f}
  /\ UNCHANGED <<phase, holders, committer>>

ANext ==
  \E f \in Fences :
    \/ Publish(f) \/ Retire(f) \/ Reclaim(f)
    \/ \E t \in Threads : Admit(t, f) \/ Leave(t, f) \/ OpenCommit(t, f) \/ CloseCommit(t, f)

ASpec == AInit /\ [][ANext]_avars
=============================================================================
