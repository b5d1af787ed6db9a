------------------------ MODULE PackActivation_proofs ------------------------
(***************************************************************************)
(* Proofs about PackSelection and PackActivation, for all sets of clients, *)
(* stamps, Packs, generations and candidate loads.                         *)
(***************************************************************************)
EXTENDS PackActivation, TLAPS

\* Whoever works in a generation holds an activity of it, and nobody holds one of
\* a generation that has been reclaimed.
Working ==
  /\ \A c \in Clients : apc[c] # "idle" => c \in holders[agen[c]]
  /\ \A l \in Loaders : lpc[l] # "idle" => <<l, "initial">> \in holders[lgen[l]]
  /\ \A g \in reclaimed : phase[g] = "retired" /\ holders[g] = {}

\* A commit keeps its generation current.
Windows ==
  /\ \A c \in Clients : apc[c] \in {"confirm", "replace", "swap", "publish", "unlock"} =>
                          committer[agen[c]] = {c}
  /\ \A g \in Generations : committer[g] # {} => phase[g] = "current"

\* What an activation has found when it comes to the swap, the authority being
\* locked from there on.
Found ==
  \A c \in Clients :
    /\ apc[c] \in {"keep", "load", "confirm", "replace", "swap"} => target[c] \in Selection
    /\ apc[c] \in {"replace", "swap"} => loaded[c] = target[c].packs
    /\ apc[c] \in {"swap", "publish"} => mutex = c
    /\ apc[c] = "swap" => ~closed /\ CurrentTarget(c, target[c])

\* Nothing newer than the accepted composition is active.
NotAhead == \A c \in Clients : active[c] # None => active[c].selection.revision <= revision

IInv == TypeOK /\ StampsHeld /\ Working /\ Windows /\ Found /\ ActiveWhole /\ NotAhead

-----------------------------------------------------------------------------
\* Nothing is configured, admitted or active.
LEMMA InitIInv == Init => IInv
<1> SUFFICES ASSUME Init PROVE IInv
  OBVIOUS
<1> USE DEF Init, SelectionInit, Fence!AInit
<1>1. TypeOK
  <2>1. revision \in 0 .. MaxRevision
    BY SelectionAssumption
  <2>2. /\ cache \in [Clients -> Selection \cup {None}] /\ target \in [Clients -> Selection \cup {None}]
        /\ active \in [Clients -> [selection : Selection, instances : SUBSET Packs] \cup {None}]
        /\ loaded \in [Clients -> SUBSET Packs]
    OBVIOUS
  <2>3. /\ phase \in [Generations -> {"preparing", "current", "retired"}]
        /\ holders \in [Generations -> SUBSET Workers] /\ committer \in [Generations -> SUBSET Workers]
    OBVIOUS
  <2>4. /\ apc \in [Clients -> {"idle", "entered", "keep", "load", "confirm", "replace", "swap",
                                 "publish", "unlock", "return"}]
        /\ lpc \in [Loaders -> {"idle", "read", "bound", "release"}]
    OBVIOUS
  <2> QED
    BY <2>1, <2>2, <2>3, <2>4 DEF TypeOK
<1>2. StampsHeld /\ Working /\ Windows /\ Found /\ ActiveWhole /\ NotAhead
  BY DEF StampsHeld, Working, Windows, Found, ActiveWhole, NotAhead
<1> QED
  BY <1>1, <1>2 DEF IInv

\* Every step keeps the types.
LEMMA StepTyped == ASSUME TypeOK, Found, Next PROVE TypeOK'
<1> USE DEF TypeOK, Found, Workers, Slots, Selection
<1>1. ASSUME NEW r \in 1 .. MaxRevision, NEW packs \in SUBSET Packs, Publish(r, packs),
             UNCHANGED <<fenceVars, activationVars, loaderVars>>
      PROVE  TypeOK'
  BY <1>1, SelectionAssumption DEF Publish, fenceVars, activationVars, loaderVars
<1>2. ASSUME Close, UNCHANGED <<fenceVars, activationVars, loaderVars>> PROVE TypeOK'
  BY <1>2, SelectionAssumption DEF Close, fenceVars, activationVars, loaderVars
<1>3. ASSUME NEW c \in Clients, Client(c), Issue(c), UNCHANGED active PROVE TypeOK'
  BY <1>3, SelectionAssumption DEF Client, Issue, CurrentTarget, fenceVars, loaderVars
<1>4. ASSUME NEW c \in Clients, Client(c), Disconnect(c), active' = [active EXCEPT ![c] = None]
      PROVE  TypeOK'
  BY <1>4, SelectionAssumption DEF Client, Disconnect, fenceVars, loaderVars
<1>5. CASE Director
  <2>1. /\ phase' \in [Generations -> {"preparing", "current", "retired"}]
        /\ reclaimed' \subseteq Generations
        /\ publicationClosed' \in BOOLEAN
        /\ UNCHANGED <<holders, committer>>
    <3>1. ASSUME NEW g \in Generations, Fence!Publish(g) \/ Fence!Retire(g)
          PROVE  /\ phase' \in [Generations -> {"preparing", "current", "retired"}]
                 /\ UNCHANGED <<holders, committer, reclaimed>>
      BY <3>1 DEF Fence!Publish, Fence!Retire
    <3>2. ASSUME NEW g \in Generations, Fence!Reclaim(g)
          PROVE  reclaimed' \subseteq Generations /\ UNCHANGED <<phase, holders, committer>>
      BY <3>2 DEF Fence!Reclaim
    <3> QED
      BY <1>5, <3>1, <3>2 DEF Director
  <2>2. UNCHANGED <<selectionVars, activationVars, loaderVars>>
    BY <1>5 DEF Director
  <2> QED
    BY <2>1, <2>2 DEF selectionVars, activationVars, loaderVars
<1>6. ASSUME NEW c \in Clients, NEW g \in Generations, Enter(c, g) PROVE TypeOK'
  BY <1>6, SelectionAssumption DEF Enter, Fence!Admit, Goto, selectionVars, loaderVars
<1>7. ASSUME NEW c \in Clients, Begin(c) PROVE TypeOK'
  BY <1>7, SelectionAssumption DEF Begin, Goto, CurrentTarget, selectionVars, fenceVars,
     loaderVars
<1>8. ASSUME NEW c \in Clients, BeginRefused(c) PROVE TypeOK'
  BY <1>8, SelectionAssumption DEF BeginRefused, Goto, selectionVars, fenceVars, loaderVars
<1>9. ASSUME NEW c \in Clients, LoadPack(c) PROVE TypeOK'
  BY <1>9, SelectionAssumption DEF LoadPack, selectionVars, fenceVars, loaderVars
<1>10. ASSUME NEW c \in Clients, LoadFailed(c) PROVE TypeOK'
  BY <1>10, SelectionAssumption DEF LoadFailed, Goto, selectionVars, fenceVars, loaderVars
<1>11. ASSUME NEW c \in Clients, CommitGeneration(c) PROVE TypeOK'
  BY <1>11, SelectionAssumption DEF CommitGeneration, Prepared, Fence!OpenCommit, Goto,
     selectionVars, fenceVars, loaderVars
<1>12. ASSUME NEW c \in Clients, CommitStale(c) PROVE TypeOK'
  BY <1>12, SelectionAssumption DEF CommitStale, Prepared, Goto, selectionVars, fenceVars,
     loaderVars
<1>13. ASSUME NEW c \in Clients, CommitSelection(c) PROVE TypeOK'
  BY <1>13, SelectionAssumption DEF CommitSelection, Committable, CurrentTarget, Goto,
     selectionVars, fenceVars, loaderVars
<1>14. ASSUME NEW c \in Clients, CommitRefused(c) PROVE TypeOK'
  BY <1>14, SelectionAssumption DEF CommitRefused, Fence!CloseCommit, Goto, selectionVars,
     fenceVars, loaderVars
<1>15. ASSUME NEW c \in Clients, Swap(c) PROVE TypeOK'
  BY <1>15, SelectionAssumption DEF Swap, Goto, selectionVars, fenceVars, loaderVars
<1>16. ASSUME NEW c \in Clients, UnlockSelection(c) PROVE TypeOK'
  BY <1>16, SelectionAssumption DEF UnlockSelection, Goto, selectionVars, fenceVars,
     loaderVars
<1>17. ASSUME NEW c \in Clients, UnlockGeneration(c) PROVE TypeOK'
  BY <1>17, SelectionAssumption DEF UnlockGeneration, Fence!CloseCommit, Goto,
     selectionVars, fenceVars, loaderVars
<1>18. ASSUME NEW c \in Clients, Leave(c) PROVE TypeOK'
  BY <1>18, SelectionAssumption DEF Leave, Fence!Leave, Goto, selectionVars, fenceVars,
     loaderVars
<1>19. ASSUME NEW l \in Loaders, NEW g \in Generations, LoaderBind(l, g) PROVE TypeOK'
  BY <1>19, SelectionAssumption DEF LoaderBind, Fence!Admit, selectionVars, activationVars
<1>20. ASSUME NEW l \in Loaders, LoaderRebind(l) PROVE TypeOK'
  BY <1>20, SelectionAssumption DEF LoaderRebind, Fence!Admit, selectionVars, fenceVars,
     activationVars
<1>21. ASSUME NEW l \in Loaders, LoaderFailed(l) PROVE TypeOK'
  BY <1>21, SelectionAssumption DEF LoaderFailed, selectionVars, fenceVars, activationVars
<1>22. ASSUME NEW l \in Loaders, LoaderDropFinal(l) PROVE TypeOK'
  BY <1>22, SelectionAssumption DEF LoaderDropFinal, Fence!Leave, selectionVars, fenceVars,
     activationVars
<1>23. ASSUME NEW l \in Loaders, LoaderDropInitial(l) PROVE TypeOK'
  BY <1>23, SelectionAssumption DEF LoaderDropInitial, Fence!Leave, selectionVars,
     fenceVars, activationVars
<1> QED
  BY <1>1, <1>2, <1>3, <1>4, <1>5, <1>6, <1>7, <1>8, <1>9, <1>10, <1>11, <1>12, <1>13,
     <1>14, <1>15, <1>16, <1>17, <1>18, <1>19, <1>20, <1>21, <1>22, <1>23 DEF Next,
     Configure, Client, ActivationStep, LoaderStep

\* A stamp is live exactly while a connected client is issued it.
LEMMA StepStamps == ASSUME TypeOK, StampsHeld, Next PROVE StampsHeld'
<1> USE DEF TypeOK, StampsHeld
<1>1. ASSUME NEW r \in 1 .. MaxRevision, NEW packs \in SUBSET Packs, Publish(r, packs),
             UNCHANGED <<fenceVars, activationVars, loaderVars>>
      PROVE  StampsHeld'
  BY <1>1, SelectionAssumption DEF Publish, fenceVars, activationVars, loaderVars
<1>2. ASSUME Close, UNCHANGED <<fenceVars, activationVars, loaderVars>> PROVE StampsHeld'
  BY <1>2, SelectionAssumption DEF Close, fenceVars, activationVars, loaderVars
<1>3. ASSUME NEW c \in Clients, Client(c), Issue(c), UNCHANGED active PROVE StampsHeld'
  <2>1. PICK s \in Stamps \ liveStamps :
          /\ cache' = [cache EXCEPT ![c] = [stamp |-> s, revision |-> revision, packs |-> projection]]
          /\ liveStamps' = (liveStamps \cup {s}) \ (IF cache[c] = None THEN {} ELSE {cache[c].stamp})
    BY <1>3 DEF Issue
  <2>2. [stamp |-> s, revision |-> revision, packs |-> projection] # None
    BY SelectionAssumption DEF Selection
  <2>3. c \in connected /\ connected' = connected /\ ~closed /\ ~closed'
    BY <1>3 DEF Client, Issue
  <2>4. /\ cache'[c] # None /\ cache'[c].stamp = s
        /\ \A d \in Clients \ {c} : cache'[d] = cache[d]
    BY <2>1, <2>2
  <2>5. \A d \in connected : cache[d] # None => cache[d].stamp \in liveStamps
    BY <2>3
  <2>6. \A x \in liveStamps : \E d \in connected : cache[d] # None /\ x = cache[d].stamp
    BY <2>3
  <2>7. \A d, e \in connected : cache[d] # None /\ cache[e] # None /\ cache[d].stamp = cache[e].stamp => d = e
    BY <2>3
  <2>8. \A d, e \in connected : cache'[d] # None /\ cache'[e] # None /\ cache'[d].stamp = cache'[e].stamp => d = e
    BY <2>1, <2>4, <2>5, <2>7
  <2>9. \A x : x \in liveStamps' <=> \E d \in connected : cache'[d] # None /\ x = cache'[d].stamp
    <3>1. ASSUME NEW x \in liveStamps' PROVE \E d \in connected : cache'[d] # None /\ x = cache'[d].stamp
      BY <3>1, <2>1, <2>3, <2>4, <2>6
    <3>2. ASSUME NEW d \in connected, cache'[d] # None PROVE cache'[d].stamp \in liveStamps'
      BY <3>2, <2>1, <2>3, <2>4, <2>5, <2>7
    <3> QED
      BY <3>1, <3>2
  <2>10. liveStamps' = {cache'[d].stamp : d \in {e \in connected' : cache'[e] # None}}
    BY <2>3, <2>9
  <2> QED
    BY <2>3, <2>8, <2>10
<1>4. ASSUME NEW c \in Clients, Client(c), Disconnect(c), active' = [active EXCEPT ![c] = None]
      PROVE  StampsHeld'
  BY <1>4, SelectionAssumption DEF Client, Disconnect, fenceVars, loaderVars
<1>5. CASE Director
  BY <1>5, SelectionAssumption DEF Director, Fence!Publish, Fence!Retire, Fence!Reclaim,
     selectionVars, activationVars, loaderVars
<1>6. ASSUME NEW c \in Clients, NEW g \in Generations, Enter(c, g) PROVE StampsHeld'
  BY <1>6, SelectionAssumption DEF Enter, Fence!Admit, Goto, selectionVars, loaderVars
<1>7. ASSUME NEW c \in Clients, Begin(c) PROVE StampsHeld'
  BY <1>7, SelectionAssumption DEF Begin, Goto, CurrentTarget, selectionVars, fenceVars,
     loaderVars
<1>8. ASSUME NEW c \in Clients, BeginRefused(c) PROVE StampsHeld'
  BY <1>8, SelectionAssumption DEF BeginRefused, Goto, selectionVars, fenceVars, loaderVars
<1>9. ASSUME NEW c \in Clients, LoadPack(c) PROVE StampsHeld'
  BY <1>9, SelectionAssumption DEF LoadPack, selectionVars, fenceVars, loaderVars
<1>10. ASSUME NEW c \in Clients, LoadFailed(c) PROVE StampsHeld'
  BY <1>10, SelectionAssumption DEF LoadFailed, Goto, selectionVars, fenceVars, loaderVars
<1>11. ASSUME NEW c \in Clients, CommitGeneration(c) PROVE StampsHeld'
  BY <1>11, SelectionAssumption DEF CommitGeneration, Prepared, Fence!OpenCommit, Goto,
     selectionVars, fenceVars, loaderVars
<1>12. ASSUME NEW c \in Clients, CommitStale(c) PROVE StampsHeld'
  BY <1>12, SelectionAssumption DEF CommitStale, Prepared, Goto, selectionVars, fenceVars,
     loaderVars
<1>13. ASSUME NEW c \in Clients, CommitSelection(c) PROVE StampsHeld'
  BY <1>13, SelectionAssumption DEF CommitSelection, Committable, CurrentTarget, Goto,
     selectionVars, fenceVars, loaderVars
<1>14. ASSUME NEW c \in Clients, CommitRefused(c) PROVE StampsHeld'
  BY <1>14, SelectionAssumption DEF CommitRefused, Fence!CloseCommit, Goto, selectionVars,
     fenceVars, loaderVars
<1>15. ASSUME NEW c \in Clients, Swap(c) PROVE StampsHeld'
  BY <1>15, SelectionAssumption DEF Swap, Goto, selectionVars, fenceVars, loaderVars
<1>16. ASSUME NEW c \in Clients, UnlockSelection(c) PROVE StampsHeld'
  BY <1>16, SelectionAssumption DEF UnlockSelection, Goto, selectionVars, fenceVars,
     loaderVars
<1>17. ASSUME NEW c \in Clients, UnlockGeneration(c) PROVE StampsHeld'
  BY <1>17, SelectionAssumption DEF UnlockGeneration, Fence!CloseCommit, Goto,
     selectionVars, fenceVars, loaderVars
<1>18. ASSUME NEW c \in Clients, Leave(c) PROVE StampsHeld'
  BY <1>18, SelectionAssumption DEF Leave, Fence!Leave, Goto, selectionVars, fenceVars,
     loaderVars
<1>19. ASSUME NEW l \in Loaders, NEW g \in Generations, LoaderBind(l, g) PROVE StampsHeld'
  BY <1>19, SelectionAssumption DEF LoaderBind, Fence!Admit, selectionVars, activationVars
<1>20. ASSUME NEW l \in Loaders, LoaderRebind(l) PROVE StampsHeld'
  BY <1>20, SelectionAssumption DEF LoaderRebind, Fence!Admit, selectionVars, fenceVars,
     activationVars
<1>21. ASSUME NEW l \in Loaders, LoaderFailed(l) PROVE StampsHeld'
  BY <1>21, SelectionAssumption DEF LoaderFailed, selectionVars, fenceVars, activationVars
<1>22. ASSUME NEW l \in Loaders, LoaderDropFinal(l) PROVE StampsHeld'
  BY <1>22, SelectionAssumption DEF LoaderDropFinal, Fence!Leave, selectionVars, fenceVars,
     activationVars
<1>23. ASSUME NEW l \in Loaders, LoaderDropInitial(l) PROVE StampsHeld'
  BY <1>23, SelectionAssumption DEF LoaderDropInitial, Fence!Leave, selectionVars,
     fenceVars, activationVars
<1> QED
  BY <1>1, <1>2, <1>3, <1>4, <1>5, <1>6, <1>7, <1>8, <1>9, <1>10, <1>11, <1>12, <1>13,
     <1>14, <1>15, <1>16, <1>17, <1>18, <1>19, <1>20, <1>21, <1>22, <1>23 DEF Next,
     Configure, Client, ActivationStep, LoaderStep

\* An activity is given up by nobody but its holder.
LEMMA StepWorking == ASSUME TypeOK, Working, Next PROVE Working'
<1> USE DEF TypeOK, Working, Slots
<1>1. ASSUME NEW r \in 1 .. MaxRevision, NEW packs \in SUBSET Packs, Publish(r, packs),
             UNCHANGED <<fenceVars, activationVars, loaderVars>>
      PROVE  Working'
  BY <1>1, ActivationAssumption DEF Publish, fenceVars, activationVars, loaderVars
<1>2. ASSUME Close, UNCHANGED <<fenceVars, activationVars, loaderVars>> PROVE Working'
  BY <1>2, ActivationAssumption DEF Close, fenceVars, activationVars, loaderVars
<1>3. ASSUME NEW c \in Clients, Client(c), Issue(c), UNCHANGED active PROVE Working'
  BY <1>3, ActivationAssumption DEF Client, Issue, CurrentTarget, fenceVars, loaderVars
<1>4. ASSUME NEW c \in Clients, Client(c), Disconnect(c), active' = [active EXCEPT ![c] = None]
      PROVE  Working'
  BY <1>4, ActivationAssumption DEF Client, Disconnect, fenceVars, loaderVars
<1>5. CASE Director
  BY <1>5, ActivationAssumption DEF Director, Fence!Publish, Fence!Retire, Fence!Reclaim,
     selectionVars, activationVars, loaderVars
<1>6. ASSUME NEW c \in Clients, NEW g \in Generations, Enter(c, g) PROVE Working'
  BY <1>6, ActivationAssumption DEF Enter, Fence!Admit, Goto, selectionVars, loaderVars
<1>7. ASSUME NEW c \in Clients, Begin(c) PROVE Working'
  BY <1>7, ActivationAssumption DEF Begin, Goto, CurrentTarget, selectionVars, fenceVars,
     loaderVars
<1>8. ASSUME NEW c \in Clients, BeginRefused(c) PROVE Working'
  BY <1>8, ActivationAssumption DEF BeginRefused, Goto, selectionVars, fenceVars, loaderVars
<1>9. ASSUME NEW c \in Clients, LoadPack(c) PROVE Working'
  BY <1>9, ActivationAssumption DEF LoadPack, selectionVars, fenceVars, loaderVars
<1>10. ASSUME NEW c \in Clients, LoadFailed(c) PROVE Working'
  BY <1>10, ActivationAssumption DEF LoadFailed, Goto, selectionVars, fenceVars, loaderVars
<1>11. ASSUME NEW c \in Clients, CommitGeneration(c) PROVE Working'
  BY <1>11, ActivationAssumption DEF CommitGeneration, Prepared, Fence!OpenCommit, Goto,
     selectionVars, fenceVars, loaderVars
<1>12. ASSUME NEW c \in Clients, CommitStale(c) PROVE Working'
  BY <1>12, ActivationAssumption DEF CommitStale, Prepared, Goto, selectionVars, fenceVars,
     loaderVars
<1>13. ASSUME NEW c \in Clients, CommitSelection(c) PROVE Working'
  BY <1>13, ActivationAssumption DEF CommitSelection, Committable, CurrentTarget, Goto,
     selectionVars, fenceVars, loaderVars
<1>14. ASSUME NEW c \in Clients, CommitRefused(c) PROVE Working'
  BY <1>14, ActivationAssumption DEF CommitRefused, Fence!CloseCommit, Goto, selectionVars,
     fenceVars, loaderVars
<1>15. ASSUME NEW c \in Clients, Swap(c) PROVE Working'
  BY <1>15, ActivationAssumption DEF Swap, Goto, selectionVars, fenceVars, loaderVars
<1>16. ASSUME NEW c \in Clients, UnlockSelection(c) PROVE Working'
  BY <1>16, ActivationAssumption DEF UnlockSelection, Goto, selectionVars, fenceVars,
     loaderVars
<1>17. ASSUME NEW c \in Clients, UnlockGeneration(c) PROVE Working'
  BY <1>17, ActivationAssumption DEF UnlockGeneration, Fence!CloseCommit, Goto,
     selectionVars, fenceVars, loaderVars
<1>18. ASSUME NEW c \in Clients, Leave(c) PROVE Working'
  BY <1>18, ActivationAssumption DEF Leave, Fence!Leave, Goto, selectionVars, fenceVars,
     loaderVars
<1>19. ASSUME NEW l \in Loaders, NEW g \in Generations, LoaderBind(l, g) PROVE Working'
  BY <1>19, ActivationAssumption DEF LoaderBind, Fence!Admit, selectionVars, activationVars
<1>20. ASSUME NEW l \in Loaders, LoaderRebind(l) PROVE Working'
  BY <1>20, ActivationAssumption DEF LoaderRebind, Fence!Admit, selectionVars, fenceVars,
     activationVars
<1>21. ASSUME NEW l \in Loaders, LoaderFailed(l) PROVE Working'
  BY <1>21, ActivationAssumption DEF LoaderFailed, selectionVars, fenceVars, activationVars
<1>22. ASSUME NEW l \in Loaders, LoaderDropFinal(l) PROVE Working'
  BY <1>22, ActivationAssumption DEF LoaderDropFinal, Fence!Leave, selectionVars, fenceVars,
     activationVars
<1>23. ASSUME NEW l \in Loaders, LoaderDropInitial(l) PROVE Working'
  BY <1>23, ActivationAssumption DEF LoaderDropInitial, Fence!Leave, selectionVars,
     fenceVars, activationVars
<1> QED
  BY <1>1, <1>2, <1>3, <1>4, <1>5, <1>6, <1>7, <1>8, <1>9, <1>10, <1>11, <1>12, <1>13,
     <1>14, <1>15, <1>16, <1>17, <1>18, <1>19, <1>20, <1>21, <1>22, <1>23 DEF Next,
     Configure, Client, ActivationStep, LoaderStep

\* A commit window is closed by nobody but who opened it.
LEMMA StepWindows == ASSUME TypeOK, Windows, Next PROVE Windows'
<1> USE DEF TypeOK, Windows
<1>1. ASSUME NEW r \in 1 .. MaxRevision, NEW packs \in SUBSET Packs, Publish(r, packs),
             UNCHANGED <<fenceVars, activationVars, loaderVars>>
      PROVE  Windows'
  BY <1>1 DEF Publish, fenceVars, activationVars, loaderVars
<1>2. ASSUME Close, UNCHANGED <<fenceVars, activationVars, loaderVars>> PROVE Windows'
  BY <1>2 DEF Close, fenceVars, activationVars, loaderVars
<1>3. ASSUME NEW c \in Clients, Client(c), Issue(c), UNCHANGED active PROVE Windows'
  BY <1>3 DEF Client, Issue, CurrentTarget, fenceVars, loaderVars
<1>4. ASSUME NEW c \in Clients, Client(c), Disconnect(c), active' = [active EXCEPT ![c] = None]
      PROVE  Windows'
  BY <1>4 DEF Client, Disconnect, fenceVars, loaderVars
<1>5. CASE Director
  BY <1>5 DEF Director, Fence!Publish, Fence!Retire, Fence!Reclaim, selectionVars,
     activationVars, loaderVars
<1>6. ASSUME NEW c \in Clients, NEW g \in Generations, Enter(c, g) PROVE Windows'
  BY <1>6 DEF Enter, Fence!Admit, Goto, selectionVars, loaderVars
<1>7. ASSUME NEW c \in Clients, Begin(c) PROVE Windows'
  BY <1>7 DEF Begin, Goto, CurrentTarget, selectionVars, fenceVars, loaderVars
<1>8. ASSUME NEW c \in Clients, BeginRefused(c) PROVE Windows'
  BY <1>8 DEF BeginRefused, Goto, selectionVars, fenceVars, loaderVars
<1>9. ASSUME NEW c \in Clients, LoadPack(c) PROVE Windows'
  BY <1>9 DEF LoadPack, selectionVars, fenceVars, loaderVars
<1>10. ASSUME NEW c \in Clients, LoadFailed(c) PROVE Windows'
  BY <1>10 DEF LoadFailed, Goto, selectionVars, fenceVars, loaderVars
<1>11. ASSUME NEW c \in Clients, CommitGeneration(c) PROVE Windows'
  BY <1>11 DEF CommitGeneration, Prepared, Fence!OpenCommit, Goto, selectionVars, fenceVars,
     loaderVars
<1>12. ASSUME NEW c \in Clients, CommitStale(c) PROVE Windows'
  BY <1>12 DEF CommitStale, Prepared, Goto, selectionVars, fenceVars, loaderVars
<1>13. ASSUME NEW c \in Clients, CommitSelection(c) PROVE Windows'
  BY <1>13 DEF CommitSelection, Committable, CurrentTarget, Goto, selectionVars, fenceVars,
     loaderVars
<1>14. ASSUME NEW c \in Clients, CommitRefused(c) PROVE Windows'
  BY <1>14 DEF CommitRefused, Fence!CloseCommit, Goto, selectionVars, fenceVars, loaderVars
<1>15. ASSUME NEW c \in Clients, Swap(c) PROVE Windows'
  BY <1>15 DEF Swap, Goto, selectionVars, fenceVars, loaderVars
<1>16. ASSUME NEW c \in Clients, UnlockSelection(c) PROVE Windows'
  BY <1>16 DEF UnlockSelection, Goto, selectionVars, fenceVars, loaderVars
<1>17. ASSUME NEW c \in Clients, UnlockGeneration(c) PROVE Windows'
  BY <1>17 DEF UnlockGeneration, Fence!CloseCommit, Goto, selectionVars, fenceVars,
     loaderVars
<1>18. ASSUME NEW c \in Clients, Leave(c) PROVE Windows'
  BY <1>18 DEF Leave, Fence!Leave, Goto, selectionVars, fenceVars, loaderVars
<1>19. ASSUME NEW l \in Loaders, NEW g \in Generations, LoaderBind(l, g) PROVE Windows'
  BY <1>19 DEF LoaderBind, Fence!Admit, selectionVars, activationVars
<1>20. ASSUME NEW l \in Loaders, LoaderRebind(l) PROVE Windows'
  BY <1>20 DEF LoaderRebind, Fence!Admit, selectionVars, fenceVars, activationVars
<1>21. ASSUME NEW l \in Loaders, LoaderFailed(l) PROVE Windows'
  BY <1>21 DEF LoaderFailed, selectionVars, fenceVars, activationVars
<1>22. ASSUME NEW l \in Loaders, LoaderDropFinal(l) PROVE Windows'
  BY <1>22 DEF LoaderDropFinal, Fence!Leave, selectionVars, fenceVars, activationVars
<1>23. ASSUME NEW l \in Loaders, LoaderDropInitial(l) PROVE Windows'
  BY <1>23 DEF LoaderDropInitial, Fence!Leave, selectionVars, fenceVars, activationVars
<1> QED
  BY <1>1, <1>2, <1>3, <1>4, <1>5, <1>6, <1>7, <1>8, <1>9, <1>10, <1>11, <1>12, <1>13,
     <1>14, <1>15, <1>16, <1>17, <1>18, <1>19, <1>20, <1>21, <1>22, <1>23 DEF Next,
     Configure, Client, ActivationStep, LoaderStep

\* What was found under the lock stays true under the lock.
LEMMA StepFound == ASSUME TypeOK, Found, Next PROVE Found'
<1> USE DEF TypeOK, Found, CurrentTarget
<1>1. ASSUME NEW r \in 1 .. MaxRevision, NEW packs \in SUBSET Packs, Publish(r, packs),
             UNCHANGED <<fenceVars, activationVars, loaderVars>>
      PROVE  Found'
  BY <1>1, SelectionAssumption DEF Publish, fenceVars, activationVars, loaderVars
<1>2. ASSUME Close, UNCHANGED <<fenceVars, activationVars, loaderVars>> PROVE Found'
  BY <1>2, SelectionAssumption DEF Close, fenceVars, activationVars, loaderVars
<1>3. ASSUME NEW c \in Clients, Client(c), Issue(c), UNCHANGED active PROVE Found'
  BY <1>3, SelectionAssumption DEF Client, Issue, CurrentTarget, fenceVars, loaderVars
<1>4. ASSUME NEW c \in Clients, Client(c), Disconnect(c), active' = [active EXCEPT ![c] = None]
      PROVE  Found'
  BY <1>4, SelectionAssumption DEF Client, Disconnect, fenceVars, loaderVars
<1>5. CASE Director
  BY <1>5, SelectionAssumption DEF Director, Fence!Publish, Fence!Retire, Fence!Reclaim,
     selectionVars, activationVars, loaderVars
<1>6. ASSUME NEW c \in Clients, NEW g \in Generations, Enter(c, g) PROVE Found'
  BY <1>6, SelectionAssumption DEF Enter, Fence!Admit, Goto, selectionVars, loaderVars
<1>7. ASSUME NEW c \in Clients, Begin(c) PROVE Found'
  BY <1>7, SelectionAssumption DEF Begin, Goto, CurrentTarget, selectionVars, fenceVars,
     loaderVars
<1>8. ASSUME NEW c \in Clients, BeginRefused(c) PROVE Found'
  BY <1>8, SelectionAssumption DEF BeginRefused, Goto, selectionVars, fenceVars, loaderVars
<1>9. ASSUME NEW c \in Clients, LoadPack(c) PROVE Found'
  BY <1>9, SelectionAssumption DEF LoadPack, selectionVars, fenceVars, loaderVars
<1>10. ASSUME NEW c \in Clients, LoadFailed(c) PROVE Found'
  BY <1>10, SelectionAssumption DEF LoadFailed, Goto, selectionVars, fenceVars, loaderVars
<1>11. ASSUME NEW c \in Clients, CommitGeneration(c) PROVE Found'
  BY <1>11, SelectionAssumption DEF CommitGeneration, Prepared, Fence!OpenCommit, Goto,
     selectionVars, fenceVars, loaderVars
<1>12. ASSUME NEW c \in Clients, CommitStale(c) PROVE Found'
  BY <1>12, SelectionAssumption DEF CommitStale, Prepared, Goto, selectionVars, fenceVars,
     loaderVars
<1>13. ASSUME NEW c \in Clients, CommitSelection(c) PROVE Found'
  BY <1>13, SelectionAssumption DEF CommitSelection, Committable, CurrentTarget, Goto,
     selectionVars, fenceVars, loaderVars
<1>14. ASSUME NEW c \in Clients, CommitRefused(c) PROVE Found'
  BY <1>14, SelectionAssumption DEF CommitRefused, Fence!CloseCommit, Goto, selectionVars,
     fenceVars, loaderVars
<1>15. ASSUME NEW c \in Clients, Swap(c) PROVE Found'
  BY <1>15, SelectionAssumption DEF Swap, Goto, selectionVars, fenceVars, loaderVars
<1>16. ASSUME NEW c \in Clients, UnlockSelection(c) PROVE Found'
  BY <1>16, SelectionAssumption DEF UnlockSelection, Goto, selectionVars, fenceVars,
     loaderVars
<1>17. ASSUME NEW c \in Clients, UnlockGeneration(c) PROVE Found'
  BY <1>17, SelectionAssumption DEF UnlockGeneration, Fence!CloseCommit, Goto,
     selectionVars, fenceVars, loaderVars
<1>18. ASSUME NEW c \in Clients, Leave(c) PROVE Found'
  BY <1>18, SelectionAssumption DEF Leave, Fence!Leave, Goto, selectionVars, fenceVars,
     loaderVars
<1>19. ASSUME NEW l \in Loaders, NEW g \in Generations, LoaderBind(l, g) PROVE Found'
  BY <1>19, SelectionAssumption DEF LoaderBind, Fence!Admit, selectionVars, activationVars
<1>20. ASSUME NEW l \in Loaders, LoaderRebind(l) PROVE Found'
  BY <1>20, SelectionAssumption DEF LoaderRebind, Fence!Admit, selectionVars, fenceVars,
     activationVars
<1>21. ASSUME NEW l \in Loaders, LoaderFailed(l) PROVE Found'
  BY <1>21, SelectionAssumption DEF LoaderFailed, selectionVars, fenceVars, activationVars
<1>22. ASSUME NEW l \in Loaders, LoaderDropFinal(l) PROVE Found'
  BY <1>22, SelectionAssumption DEF LoaderDropFinal, Fence!Leave, selectionVars, fenceVars,
     activationVars
<1>23. ASSUME NEW l \in Loaders, LoaderDropInitial(l) PROVE Found'
  BY <1>23, SelectionAssumption DEF LoaderDropInitial, Fence!Leave, selectionVars,
     fenceVars, activationVars
<1> QED
  BY <1>1, <1>2, <1>3, <1>4, <1>5, <1>6, <1>7, <1>8, <1>9, <1>10, <1>11, <1>12, <1>13,
     <1>14, <1>15, <1>16, <1>17, <1>18, <1>19, <1>20, <1>21, <1>22, <1>23 DEF Next,
     Configure, Client, ActivationStep, LoaderStep

\* The set that is swapped in is whole.
LEMMA StepWhole == ASSUME TypeOK, Found, ActiveWhole, Next PROVE ActiveWhole'
<1> USE DEF TypeOK, Found, ActiveWhole
<1>1. ASSUME NEW r \in 1 .. MaxRevision, NEW packs \in SUBSET Packs, Publish(r, packs),
             UNCHANGED <<fenceVars, activationVars, loaderVars>>
      PROVE  ActiveWhole'
  BY <1>1 DEF Publish, fenceVars, activationVars, loaderVars
<1>2. ASSUME Close, UNCHANGED <<fenceVars, activationVars, loaderVars>> PROVE ActiveWhole'
  BY <1>2 DEF Close, fenceVars, activationVars, loaderVars
<1>3. ASSUME NEW c \in Clients, Client(c), Issue(c), UNCHANGED active PROVE ActiveWhole'
  BY <1>3 DEF Client, Issue, CurrentTarget, fenceVars, loaderVars
<1>4. ASSUME NEW c \in Clients, Client(c), Disconnect(c), active' = [active EXCEPT ![c] = None]
      PROVE  ActiveWhole'
  BY <1>4 DEF Client, Disconnect, fenceVars, loaderVars
<1>5. CASE Director
  BY <1>5 DEF Director, Fence!Publish, Fence!Retire, Fence!Reclaim, selectionVars,
     activationVars, loaderVars
<1>6. ASSUME NEW c \in Clients, NEW g \in Generations, Enter(c, g) PROVE ActiveWhole'
  BY <1>6 DEF Enter, Fence!Admit, Goto, selectionVars, loaderVars
<1>7. ASSUME NEW c \in Clients, Begin(c) PROVE ActiveWhole'
  BY <1>7 DEF Begin, Goto, CurrentTarget, selectionVars, fenceVars, loaderVars
<1>8. ASSUME NEW c \in Clients, BeginRefused(c) PROVE ActiveWhole'
  BY <1>8 DEF BeginRefused, Goto, selectionVars, fenceVars, loaderVars
<1>9. ASSUME NEW c \in Clients, LoadPack(c) PROVE ActiveWhole'
  BY <1>9 DEF LoadPack, selectionVars, fenceVars, loaderVars
<1>10. ASSUME NEW c \in Clients, LoadFailed(c) PROVE ActiveWhole'
  BY <1>10 DEF LoadFailed, Goto, selectionVars, fenceVars, loaderVars
<1>11. ASSUME NEW c \in Clients, CommitGeneration(c) PROVE ActiveWhole'
  BY <1>11 DEF CommitGeneration, Prepared, Fence!OpenCommit, Goto, selectionVars, fenceVars,
     loaderVars
<1>12. ASSUME NEW c \in Clients, CommitStale(c) PROVE ActiveWhole'
  BY <1>12 DEF CommitStale, Prepared, Goto, selectionVars, fenceVars, loaderVars
<1>13. ASSUME NEW c \in Clients, CommitSelection(c) PROVE ActiveWhole'
  BY <1>13 DEF CommitSelection, Committable, CurrentTarget, Goto, selectionVars, fenceVars,
     loaderVars
<1>14. ASSUME NEW c \in Clients, CommitRefused(c) PROVE ActiveWhole'
  BY <1>14 DEF CommitRefused, Fence!CloseCommit, Goto, selectionVars, fenceVars, loaderVars
<1>15. ASSUME NEW c \in Clients, Swap(c) PROVE ActiveWhole'
  BY <1>15 DEF Swap, Goto, selectionVars, fenceVars, loaderVars
<1>16. ASSUME NEW c \in Clients, UnlockSelection(c) PROVE ActiveWhole'
  BY <1>16 DEF UnlockSelection, Goto, selectionVars, fenceVars, loaderVars
<1>17. ASSUME NEW c \in Clients, UnlockGeneration(c) PROVE ActiveWhole'
  BY <1>17 DEF UnlockGeneration, Fence!CloseCommit, Goto, selectionVars, fenceVars,
     loaderVars
<1>18. ASSUME NEW c \in Clients, Leave(c) PROVE ActiveWhole'
  BY <1>18 DEF Leave, Fence!Leave, Goto, selectionVars, fenceVars, loaderVars
<1>19. ASSUME NEW l \in Loaders, NEW g \in Generations, LoaderBind(l, g) PROVE ActiveWhole'
  BY <1>19 DEF LoaderBind, Fence!Admit, selectionVars, activationVars
<1>20. ASSUME NEW l \in Loaders, LoaderRebind(l) PROVE ActiveWhole'
  BY <1>20 DEF LoaderRebind, Fence!Admit, selectionVars, fenceVars, activationVars
<1>21. ASSUME NEW l \in Loaders, LoaderFailed(l) PROVE ActiveWhole'
  BY <1>21 DEF LoaderFailed, selectionVars, fenceVars, activationVars
<1>22. ASSUME NEW l \in Loaders, LoaderDropFinal(l) PROVE ActiveWhole'
  BY <1>22 DEF LoaderDropFinal, Fence!Leave, selectionVars, fenceVars, activationVars
<1>23. ASSUME NEW l \in Loaders, LoaderDropInitial(l) PROVE ActiveWhole'
  BY <1>23 DEF LoaderDropInitial, Fence!Leave, selectionVars, fenceVars, activationVars
<1> QED
  BY <1>1, <1>2, <1>3, <1>4, <1>5, <1>6, <1>7, <1>8, <1>9, <1>10, <1>11, <1>12, <1>13,
     <1>14, <1>15, <1>16, <1>17, <1>18, <1>19, <1>20, <1>21, <1>22, <1>23 DEF Next,
     Configure, Client, ActivationStep, LoaderStep

\* The set that is swapped in has the accepted revision, which only grows.
LEMMA StepNotAhead == ASSUME TypeOK, Found, NotAhead, Next PROVE NotAhead'
<1> USE DEF TypeOK, Found, NotAhead, CurrentTarget, Selection
<1>1. ASSUME NEW r \in 1 .. MaxRevision, NEW packs \in SUBSET Packs, Publish(r, packs),
             UNCHANGED <<fenceVars, activationVars, loaderVars>>
      PROVE  NotAhead'
  BY <1>1 DEF Publish, fenceVars, activationVars, loaderVars
<1>2. ASSUME Close, UNCHANGED <<fenceVars, activationVars, loaderVars>> PROVE NotAhead'
  BY <1>2 DEF Close, fenceVars, activationVars, loaderVars
<1>3. ASSUME NEW c \in Clients, Client(c), Issue(c), UNCHANGED active PROVE NotAhead'
  BY <1>3 DEF Client, Issue, CurrentTarget, fenceVars, loaderVars
<1>4. ASSUME NEW c \in Clients, Client(c), Disconnect(c), active' = [active EXCEPT ![c] = None]
      PROVE  NotAhead'
  BY <1>4 DEF Client, Disconnect, fenceVars, loaderVars
<1>5. CASE Director
  BY <1>5 DEF Director, Fence!Publish, Fence!Retire, Fence!Reclaim, selectionVars,
     activationVars, loaderVars
<1>6. ASSUME NEW c \in Clients, NEW g \in Generations, Enter(c, g) PROVE NotAhead'
  BY <1>6 DEF Enter, Fence!Admit, Goto, selectionVars, loaderVars
<1>7. ASSUME NEW c \in Clients, Begin(c) PROVE NotAhead'
  BY <1>7 DEF Begin, Goto, CurrentTarget, selectionVars, fenceVars, loaderVars
<1>8. ASSUME NEW c \in Clients, BeginRefused(c) PROVE NotAhead'
  BY <1>8 DEF BeginRefused, Goto, selectionVars, fenceVars, loaderVars
<1>9. ASSUME NEW c \in Clients, LoadPack(c) PROVE NotAhead'
  BY <1>9 DEF LoadPack, selectionVars, fenceVars, loaderVars
<1>10. ASSUME NEW c \in Clients, LoadFailed(c) PROVE NotAhead'
  BY <1>10 DEF LoadFailed, Goto, selectionVars, fenceVars, loaderVars
<1>11. ASSUME NEW c \in Clients, CommitGeneration(c) PROVE NotAhead'
  BY <1>11 DEF CommitGeneration, Prepared, Fence!OpenCommit, Goto, selectionVars, fenceVars,
     loaderVars
<1>12. ASSUME NEW c \in Clients, CommitStale(c) PROVE NotAhead'
  BY <1>12 DEF CommitStale, Prepared, Goto, selectionVars, fenceVars, loaderVars
<1>13. ASSUME NEW c \in Clients, CommitSelection(c) PROVE NotAhead'
  BY <1>13 DEF CommitSelection, Committable, CurrentTarget, Goto, selectionVars, fenceVars,
     loaderVars
<1>14. ASSUME NEW c \in Clients, CommitRefused(c) PROVE NotAhead'
  BY <1>14 DEF CommitRefused, Fence!CloseCommit, Goto, selectionVars, fenceVars, loaderVars
<1>15. ASSUME NEW c \in Clients, Swap(c) PROVE NotAhead'
  BY <1>15 DEF Swap, Goto, selectionVars, fenceVars, loaderVars
<1>16. ASSUME NEW c \in Clients, UnlockSelection(c) PROVE NotAhead'
  BY <1>16 DEF UnlockSelection, Goto, selectionVars, fenceVars, loaderVars
<1>17. ASSUME NEW c \in Clients, UnlockGeneration(c) PROVE NotAhead'
  BY <1>17 DEF UnlockGeneration, Fence!CloseCommit, Goto, selectionVars, fenceVars,
     loaderVars
<1>18. ASSUME NEW c \in Clients, Leave(c) PROVE NotAhead'
  BY <1>18 DEF Leave, Fence!Leave, Goto, selectionVars, fenceVars, loaderVars
<1>19. ASSUME NEW l \in Loaders, NEW g \in Generations, LoaderBind(l, g) PROVE NotAhead'
  BY <1>19 DEF LoaderBind, Fence!Admit, selectionVars, activationVars
<1>20. ASSUME NEW l \in Loaders, LoaderRebind(l) PROVE NotAhead'
  BY <1>20 DEF LoaderRebind, Fence!Admit, selectionVars, fenceVars, activationVars
<1>21. ASSUME NEW l \in Loaders, LoaderFailed(l) PROVE NotAhead'
  BY <1>21 DEF LoaderFailed, selectionVars, fenceVars, activationVars
<1>22. ASSUME NEW l \in Loaders, LoaderDropFinal(l) PROVE NotAhead'
  BY <1>22 DEF LoaderDropFinal, Fence!Leave, selectionVars, fenceVars, activationVars
<1>23. ASSUME NEW l \in Loaders, LoaderDropInitial(l) PROVE NotAhead'
  BY <1>23 DEF LoaderDropInitial, Fence!Leave, selectionVars, fenceVars, activationVars
<1> QED
  BY <1>1, <1>2, <1>3, <1>4, <1>5, <1>6, <1>7, <1>8, <1>9, <1>10, <1>11, <1>12, <1>13,
     <1>14, <1>15, <1>16, <1>17, <1>18, <1>19, <1>20, <1>21, <1>22, <1>23 DEF Next,
     Configure, Client, ActivationStep, LoaderStep

\* The invariant of the authority, the activations and the candidate loads.
THEOREM InductiveInvariant == Spec => []IInv
<1>1. ASSUME IInv, Next PROVE IInv'
  BY <1>1, StepTyped, StepStamps, StepWorking, StepWindows, StepFound, StepWhole, StepNotAhead DEF IInv
<1>2. ASSUME IInv, UNCHANGED vars PROVE IInv'
  <2> USE DEF vars, selectionVars, fenceVars, activationVars, loaderVars
  <2>1. TypeOK'
    BY <1>2 DEF IInv, TypeOK
  <2>2. StampsHeld' /\ Working' /\ Windows' /\ Found' /\ ActiveWhole' /\ NotAhead'
    BY <1>2 DEF IInv, StampsHeld, Working, Windows, Found, CurrentTarget, ActiveWhole, NotAhead
  <2> QED
    BY <2>1, <2>2 DEF IInv
<1> QED
  BY <1>1, <1>2, InitIInv, PTL DEF Spec

\* The types of the authority, the fences, the activations and the loads.
THEOREM TypeCorrect == Spec => []TypeOK
<1>1. IInv => TypeOK
  BY DEF IInv
<1> QED
  BY <1>1, InductiveInvariant, PTL

\* issue, mint_stamp and release: a stamp names one selection of one client.
THEOREM StampsCorrect == Spec => []StampsHeld
<1>1. IInv => StampsHeld
  BY DEF IInv
<1> QED
  BY <1>1, InductiveInvariant, PTL

\* activate and commit: an active set is never a mixture.
THEOREM WholeCorrect == Spec => []ActiveWhole
<1>1. IInv => ActiveWhole
  BY DEF IInv
<1> QED
  BY <1>1, InductiveInvariant, PTL

\* activate and load_candidate work only in generations that are not reclaimed.
THEOREM WorkCorrect == Spec => []WorkOutlivesNoStore
<1>1. IInv => WorkOutlivesNoStore
  BY DEF IInv, Working, WorkOutlivesNoStore
<1> QED
  BY <1>1, InductiveInvariant, PTL

-----------------------------------------------------------------------------
\* Only the swap of an activation makes a new set active.
LEMMA OnlySwap ==
  ASSUME IInv, [Next]_vars, NEW c \in Clients, active'[c] # None, active'[c] # active[c]
  PROVE  Swap(c)
<1> USE DEF IInv, TypeOK
<1>1. ~UNCHANGED active
  OBVIOUS
<1>2. \A d \in Clients : Client(d) => UNCHANGED active \/ active' = [active EXCEPT ![d] = None]
  BY DEF Client
<1>3. ~\E d \in Clients : Client(d)
  BY <1>1, <1>2
<1>4. ~(Configure \/ Director \/ UNCHANGED vars)
  BY <1>1 DEF Configure, Director, vars, activationVars
<1>5. ~\E l \in Loaders : LoaderStep(l) \/ \E g \in Generations : LoaderBind(l, g)
  BY <1>1 DEF LoaderStep, LoaderBind, LoaderRebind, LoaderFailed, LoaderDropFinal, LoaderDropInitial,
              activationVars
<1>6. ~\E d \in Clients, g \in Generations : Enter(d, g)
  BY <1>1 DEF Enter
<1>7. PICK d \in Clients : ActivationStep(d)
  BY <1>3, <1>4, <1>5, <1>6 DEF Next
<1>8. Swap(d)
  BY <1>1, <1>7 DEF ActivationStep, Begin, BeginRefused, LoadPack, LoadFailed, CommitGeneration,
     CommitStale, CommitSelection, CommitRefused, UnlockSelection, UnlockGeneration, Leave
<1>9. d = c
  BY <1>8 DEF Swap
<1> QED
  BY <1>8, <1>9

\* commit: a set becomes active only on a current generation, under an open authority
\* that still configures it.
THEOREM PublicationCorrect == Spec => PublishesCurrent
<1>1. ASSUME IInv, [Next]_vars, NEW c \in Clients, active'[c] \notin {None, active[c]}
      PROVE  /\ phase[agen[c]] = "current" /\ ~closed
             /\ CurrentTarget(c, active'[c].selection)
  <2>1. Swap(c)
    BY <1>1, OnlySwap
  <2>2. ~closed /\ CurrentTarget(c, target[c])
    BY <1>1, <2>1 DEF Swap, IInv, Found
  <2>3. phase[agen[c]] = "current"
    BY <1>1, <2>1 DEF Swap, IInv, Windows, TypeOK
  <2>4. active'[c].selection = target[c]
    BY <1>1, <2>1 DEF Swap, IInv, TypeOK
  <2> QED
    BY <2>2, <2>3, <2>4
<1>2. IInv /\ [Next]_vars =>
        [\A c \in Clients : active'[c] \notin {None, active[c]} =>
           /\ phase[agen[c]] = "current"
           /\ ~closed
           /\ CurrentTarget(c, active'[c].selection)]_vars
  BY <1>1
<1> QED
  BY <1>2, InductiveInvariant, PTL DEF Spec, PublishesCurrent

\* publish and commit: the active revision of a client never goes back.
THEOREM RevisionCorrect == Spec => ActiveNeverRegresses
<1>1. ASSUME IInv, [Next]_vars, NEW c \in Clients, active[c] # None, active'[c] # None
      PROVE  active'[c].selection.revision >= active[c].selection.revision
  <2>1. active[c].selection.revision \in Nat /\ active[c].selection.revision <= revision
    BY <1>1, SelectionAssumption DEF IInv, TypeOK, NotAhead, Selection
  <2>2. CASE active'[c] = active[c]
    BY <2>1, <2>2
  <2>3. CASE active'[c] # active[c]
    <3>1. Swap(c)
      BY <1>1, <2>3, OnlySwap
    <3>2. target[c].revision = revision /\ active'[c].selection = target[c]
      BY <1>1, <3>1 DEF Swap, IInv, Found, CurrentTarget, TypeOK
    <3> QED
      BY <1>1, <2>1, <3>2 DEF IInv, TypeOK
  <2> QED
    BY <2>2, <2>3
<1>2. IInv /\ [Next]_vars =>
        [\A c \in Clients : active[c] # None /\ active'[c] # None =>
           active'[c].selection.revision >= active[c].selection.revision]_vars
  BY <1>1
<1> QED
  BY <1>2, InductiveInvariant, PTL DEF Spec, ActiveNeverRegresses
=============================================================================
