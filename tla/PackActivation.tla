--------------------------- MODULE PackActivation ---------------------------
(***************************************************************************)
(* Activation of a configured Pack set                                     *)
(* (crates/mcode-plugin-host/src/pack_activation.rs) and loading of single *)
(* Pack candidates (pack_loading.rs), over the selection authority and the *)
(* generation fence.                                                       *)
(*                                                                         *)
(* An activation runs inside one activity of a generation.  It checks the  *)
(* stamp, loads and instantiates each Pack with the mutexes free, and then *)
(* commits under both of them: first the fence's commit mutex, then the    *)
(* authority's.  Publications, closing and retirement interleave.  The     *)
(* fence is AtomicFence, which GenerationFence implements.                 *)
(***************************************************************************)
EXTENDS PackSelection

CONSTANTS
  Generations,  \* the host generations of the family
  Loaders       \* calls of CurrentPackSetService::load_candidate

VARIABLES
  phase, holders, committer, reclaimed,  \* the fences, as in AtomicFence
  publicationClosed,                     \* the publication authority has closed
  apc,     \* where the activation of each client is
  agen,    \* the generation of its activity
  target,  \* the selection it activates
  loaded,  \* the Packs it has instantiated so far
  active,  \* the Pack set of each client: the selection and its instances
  lpc,     \* where each candidate load is
  lgen     \* the generation it is bound to

fenceVars == <<phase, holders, committer, reclaimed, publicationClosed>>
activationVars == <<apc, agen, target, loaded, active>>
loaderVars == <<lpc, lgen>>
vars == <<selectionVars, fenceVars, activationVars, loaderVars>>

\* A load enters the fence twice and holds both activities until it returns.
Slots == {"initial", "final"}
Workers == Clients \cup (Loaders \X Slots)

ASSUME ActivationAssumption == Clients \cap (Loaders \X Slots) = {}

Fence == INSTANCE AtomicFence WITH Fences <- Generations, Threads <- Workers

Init ==
  /\ SelectionInit
  /\ Fence!AInit
  /\ publicationClosed = FALSE
  /\ apc = [c \in Clients |-> "idle"]
  /\ agen \in [Clients -> Generations]
  /\ target = [c \in Clients |-> None]
  /\ loaded = [c \in Clients |-> {}]
  /\ active = [c \in Clients |-> None]
  /\ lpc = [l \in Loaders |-> "idle"]
  /\ lgen \in [Loaders -> Generations]

Goto(c, l) == apc' = [apc EXCEPT ![c] = l]

-----------------------------------------------------------------------------
(* PackActivationClient::activate, which has its client to itself.         *)

Enter(c, g) ==
  /\ c \in connected /\ apc[c] = "idle"
  /\ ~publicationClosed
  /\ Fence!Admit(c, g)
  /\ agen' = [agen EXCEPT ![c] = g]
  /\ Goto(c, "entered")
  /\ UNCHANGED <<selectionVars, publicationClosed, target, loaded, active, loaderVars>>

\* begin_activation with a stamp that names the cached, current selection.
Begin(c) ==
  /\ apc[c] = "entered" /\ mutex = None
  /\ ~closed /\ cache[c] # None
  /\ CurrentTarget(c, cache[c])
  /\ target' = [target EXCEPT ![c] = cache[c]]
  /\ loaded' = [loaded EXCEPT ![c] = {}]
  /\ Goto(c, IF active[c] # None /\ active[c].selection = cache[c] THEN "keep" ELSE "load")
  /\ UNCHANGED <<selectionVars, fenceVars, agen, active, loaderVars>>

\* begin_activation with a stale or a foreign stamp, or after closing.
BeginRefused(c) ==
  /\ apc[c] = "entered" /\ mutex = None
  /\ Goto(c, "return")
  /\ UNCHANGED <<selectionVars, fenceVars, agen, target, loaded, active, loaderVars>>

LoadPack(c) ==
  /\ apc[c] = "load"
  /\ \E p \in target[c].packs \ loaded[c] : loaded' = [loaded EXCEPT ![c] = @ \cup {p}]
  /\ UNCHANGED <<selectionVars, fenceVars, apc, agen, target, active, loaderVars>>

\* A Pack cannot be read, verified, admitted or instantiated, or the caller
\* drops the call: the Packs loaded so far go, and the old set stays.
LoadFailed(c) ==
  /\ apc[c] = "load"
  /\ loaded[c] # target[c].packs
  /\ Goto(c, "return")
  /\ UNCHANGED <<selectionVars, fenceVars, agen, target, loaded, active, loaderVars>>

\* Mutant of Prepared: one Pack that failed is skipped.
Prepared_Partly(c) ==
  apc[c] = "keep" \/ (apc[c] = "load" /\ Cardinality(target[c].packs \ loaded[c]) <= 1)

Prepared(c) == apc[c] = "keep" \/ (apc[c] = "load" /\ loaded[c] = target[c].packs)

CommitGeneration(c) ==
  /\ Prepared(c)
  /\ committer[agen[c]] = {}
  /\ ~publicationClosed
  /\ Fence!OpenCommit(c, agen[c])
  /\ Goto(c, IF apc[c] = "keep" THEN "confirm" ELSE "replace")
  /\ UNCHANGED <<selectionVars, publicationClosed, agen, target, loaded, active, loaderVars>>

CommitStale(c) ==
  /\ Prepared(c)
  /\ committer[agen[c]] = {}
  /\ publicationClosed \/ phase[agen[c]] # "current"
  /\ Goto(c, "return")
  /\ UNCHANGED <<selectionVars, fenceVars, agen, target, loaded, active, loaderVars>>

\* Mutant of Committable: what begin_activation found is taken to hold still.
Committable_Unchecked(c) == ~closed

Committable(c) == ~closed /\ CurrentTarget(c, target[c])

\* commit_activation: the authority stays locked until the set is published.
CommitSelection(c) ==
  /\ apc[c] \in {"confirm", "replace"} /\ mutex = None
  /\ Committable(c)
  /\ mutex' = c
  /\ Goto(c, IF apc[c] = "confirm" THEN "publish" ELSE "swap")
  /\ UNCHANGED <<closed, revision, projection, liveStamps, cache, connected, fenceVars,
                 agen, target, loaded, active, loaderVars>>

CommitRefused(c) ==
  /\ apc[c] \in {"confirm", "replace"} /\ mutex = None
  /\ ~Committable(c)
  /\ Fence!CloseCommit(c, agen[c])
  /\ Goto(c, "return")
  /\ UNCHANGED <<selectionVars, publicationClosed, agen, target, loaded, active, loaderVars>>

Swap(c) ==
  /\ apc[c] = "swap"
  /\ active' = [active EXCEPT ![c] = [selection |-> target[c], instances |-> loaded[c]]]
  /\ Goto(c, "publish")
  /\ UNCHANGED <<selectionVars, fenceVars, agen, target, loaded, loaderVars>>

UnlockSelection(c) ==
  /\ apc[c] = "publish"
  /\ mutex' = None
  /\ Goto(c, "unlock")
  /\ UNCHANGED <<closed, revision, projection, liveStamps, cache, connected, fenceVars,
                 agen, target, loaded, active, loaderVars>>

UnlockGeneration(c) ==
  /\ apc[c] = "unlock"
  /\ Fence!CloseCommit(c, agen[c])
  /\ Goto(c, "return")
  /\ UNCHANGED <<selectionVars, publicationClosed, agen, target, loaded, active, loaderVars>>

\* The call returns; its locals go, and the caller drops its activity.
Leave(c) ==
  /\ apc[c] = "return"
  /\ Fence!Leave(c, agen[c])
  /\ target' = [target EXCEPT ![c] = None]
  /\ loaded' = [loaded EXCEPT ![c] = {}]
  /\ Goto(c, "idle")
  /\ UNCHANGED <<selectionVars, publicationClosed, agen, active, loaderVars>>

-----------------------------------------------------------------------------
(* CurrentPackSetService::load_candidate.                                  *)

\* Mutant of LoaderBind: the first activity is dropped as soon as it is bound.
LoaderBind_Dropped(l, g) ==
  /\ lpc[l] = "idle"
  /\ ~publicationClosed /\ phase[g] = "current"
  /\ lgen' = [lgen EXCEPT ![l] = g]
  /\ lpc' = [lpc EXCEPT ![l] = "read"]
  /\ UNCHANGED <<selectionVars, fenceVars, activationVars>>

LoaderBind(l, g) ==
  /\ lpc[l] = "idle"
  /\ ~publicationClosed
  /\ Fence!Admit(<<l, "initial">>, g)
  /\ lgen' = [lgen EXCEPT ![l] = g]
  /\ lpc' = [lpc EXCEPT ![l] = "read"]
  /\ UNCHANGED <<selectionVars, publicationClosed, activationVars>>

\* The authority was read and the component compiled: bind again.
LoaderRebind(l) ==
  /\ lpc[l] = "read"
  /\ ~publicationClosed
  /\ Fence!Admit(<<l, "final">>, lgen[l])
  /\ lpc' = [lpc EXCEPT ![l] = "bound"]
  /\ UNCHANGED <<selectionVars, publicationClosed, activationVars, lgen>>

\* The read, the digest, the compilation or the second binding fails.
LoaderFailed(l) ==
  /\ lpc[l] = "read"
  /\ lpc' = [lpc EXCEPT ![l] = "release"]
  /\ UNCHANGED <<selectionVars, fenceVars, activationVars, lgen>>

\* Locals are dropped in reverse order as the call returns.
LoaderDropFinal(l) ==
  /\ lpc[l] = "bound"
  /\ Fence!Leave(<<l, "final">>, lgen[l])
  /\ lpc' = [lpc EXCEPT ![l] = "release"]
  /\ UNCHANGED <<selectionVars, publicationClosed, activationVars, lgen>>

LoaderDropInitial(l) ==
  /\ lpc[l] = "release"
  /\ Fence!Leave(<<l, "initial">>, lgen[l])
  /\ lpc' = [lpc EXCEPT ![l] = "idle"]
  /\ UNCHANGED <<selectionVars, publicationClosed, activationVars, lgen>>

-----------------------------------------------------------------------------
(* The directors: of configuration, and of the generations.                *)

Configure ==
  /\ \/ \E r \in 1 .. MaxRevision, packs \in SUBSET Packs : Publish(r, packs)
     \/ Close
  /\ UNCHANGED <<fenceVars, activationVars, loaderVars>>

\* Only a client with no call under way can issue, or be dropped with its set.
Client(c) ==
  /\ c \in connected /\ apc[c] = "idle"
  /\ \/ Issue(c) /\ UNCHANGED active
     \/ Disconnect(c) /\ active' = [active EXCEPT ![c] = None]
  /\ UNCHANGED <<fenceVars, apc, agen, target, loaded, loaderVars>>

Director ==
  /\ \/ /\ \E g \in Generations : Fence!Publish(g) \/ Fence!Retire(g) \/ Fence!Reclaim(g)
        /\ UNCHANGED publicationClosed
     \/ /\ ~publicationClosed
        /\ publicationClosed' = TRUE
        /\ UNCHANGED <<phase, holders, committer, reclaimed>>
  /\ UNCHANGED <<selectionVars, activationVars, loaderVars>>

ActivationStep(c) ==
  \/ Begin(c) \/ BeginRefused(c) \/ LoadPack(c) \/ LoadFailed(c)
  \/ CommitGeneration(c) \/ CommitStale(c) \/ CommitSelection(c) \/ CommitRefused(c)
  \/ Swap(c) \/ UnlockSelection(c) \/ UnlockGeneration(c) \/ Leave(c)

LoaderStep(l) ==
  LoaderRebind(l) \/ LoaderFailed(l) \/ LoaderDropFinal(l) \/ LoaderDropInitial(l)

Next ==
  \/ Configure \/ Director
  \/ \E c \in Clients : Client(c) \/ ActivationStep(c) \/ \E g \in Generations : Enter(c, g)
  \/ \E l \in Loaders : LoaderStep(l) \/ \E g \in Generations : LoaderBind(l, g)

Spec == Init /\ [][Next]_vars

-----------------------------------------------------------------------------
TypeOK ==
  /\ closed \in BOOLEAN /\ publicationClosed \in BOOLEAN
  /\ revision \in 0 .. MaxRevision
  /\ projection \subseteq Packs
  /\ liveStamps \subseteq Stamps
  /\ cache \in [Clients -> Selection \cup {None}]
  /\ connected \subseteq Clients
  /\ mutex \in Clients \cup {None}
  /\ phase \in [Generations -> {"preparing", "current", "retired"}]
  /\ holders \in [Generations -> SUBSET Workers]
  /\ committer \in [Generations -> SUBSET Workers]
  /\ reclaimed \subseteq Generations
  /\ apc \in [Clients -> {"idle", "entered", "keep", "load", "confirm", "replace", "swap",
                          "publish", "unlock", "return"}]
  /\ agen \in [Clients -> Generations]
  /\ target \in [Clients -> Selection \cup {None}]
  /\ loaded \in [Clients -> SUBSET Packs]
  /\ active \in [Clients -> [selection : Selection, instances : SUBSET Packs] \cup {None}]
  /\ lpc \in [Loaders -> {"idle", "read", "bound", "release"}]
  /\ lgen \in [Loaders -> Generations]

(* The active set changes only while its generation is current, the        *)
(* authority is open, and the selection it was loaded for is still what is *)
(* configured, however long the loading took (activate, commit).           *)
PublishesCurrent ==
  [][\A c \in Clients : active'[c] \notin {None, active[c]} =>
       /\ phase[agen[c]] = "current"
       /\ ~closed
       /\ CurrentTarget(c, active'[c].selection)]_vars

(* A client's active set is whole: every Pack of its selection and no      *)
(* other, never a mixture of an old and a failed new one.                  *)
ActiveWhole ==
  \A c \in Clients : active[c] # None => active[c].instances = active[c].selection.packs

(* The revision a client has active never goes back, whatever is issued    *)
(* and published while it activates.                                       *)
ActiveNeverRegresses ==
  [][\A c \in Clients : active[c] # None /\ active'[c] # None =>
       active'[c].selection.revision >= active[c].selection.revision]_vars

(* A generation's Stores are never reclaimed under an activation or a      *)
(* candidate load that works in it.                                        *)
WorkOutlivesNoStore ==
  /\ \A c \in Clients : apc[c] # "idle" => agen[c] \notin reclaimed
  /\ \A l \in Loaders : lpc[l] # "idle" => lgen[l] \notin reclaimed
=============================================================================
