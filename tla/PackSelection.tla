--------------------------- MODULE PackSelection ---------------------------
(***************************************************************************)
(* The authority over which Packs are configured                           *)
(* (crates/mcode-plugin-host/src/pack_selection.rs), for the clients of    *)
(* one plugin family.  A director publishes root compositions in revision  *)
(* order; a client is issued the Packs of its family under a stamp, and    *)
(* presents the stamp to activate them.  Every operation runs under the    *)
(* authority's mutex; only the commit of an activation, in PackActivation, *)
(* keeps it for more than one step.                                        *)
(***************************************************************************)
EXTENDS Naturals, FiniteSets

CONSTANTS
  Clients,      \* PackSelectionClients of one family
  Stamps,       \* the stamps the random source can draw
  Packs,        \* Pack IDs
  MaxRevision,  \* bound on the root composition revision
  None          \* an empty cache, a free mutex, no Packs active

VARIABLES
  closed,      \* the director has begun its final shutdown
  revision,    \* revision of the accepted document; 0 is ABSENT
  projection,  \* the Packs that document selects for the family
  liveStamps,  \* stamps that may not be minted again
  cache,       \* what each client was last issued
  connected,   \* clients that have not been dropped
  mutex        \* the client that keeps the authority locked in a commit

selectionVars == <<closed, revision, projection, liveStamps, cache, connected, mutex>>

Selection == [stamp : Stamps, revision : 0 .. MaxRevision, packs : SUBSET Packs]

ASSUME SelectionAssumption ==
  /\ MaxRevision \in Nat
  /\ None \notin Clients /\ None \notin Selection

SelectionInit ==
  /\ closed = FALSE
  /\ revision = 0
  /\ projection = {}
  /\ liveStamps = {}
  /\ cache = [c \in Clients |-> None]
  /\ connected = Clients
  /\ mutex = None

-----------------------------------------------------------------------------
\* Mutant of Publish: an older composition is accepted.
Publish_AnyRevision(r, packs) ==
  /\ mutex = None /\ ~closed
  /\ r # revision /\ r > 0
  /\ revision' = r
  /\ projection' = packs
  /\ UNCHANGED <<closed, liveStamps, cache, connected, mutex>>

\* Mutant of Publish: the revision is added to the accepted one.
Publish_Added(r, packs) ==
  /\ mutex = None /\ ~closed
  /\ r > revision
  /\ revision' = revision + r
  /\ projection' = packs
  /\ UNCHANGED <<closed, liveStamps, cache, connected, mutex>>

\* publish: an older, a conflicting or a repeated revision changes nothing.
Publish(r, packs) ==
  /\ mutex = None /\ ~closed
  /\ r > revision
  /\ revision' = r
  /\ projection' = packs
  /\ UNCHANGED <<closed, liveStamps, cache, connected, mutex>>

Close ==
  /\ mutex = None /\ ~closed
  /\ closed' = TRUE
  /\ liveStamps' = {}
  /\ UNCHANGED <<revision, projection, cache, connected, mutex>>

\* activation_is_current
CurrentTarget(c, target) ==
  /\ cache[c] = target
  /\ target.revision = revision
  /\ target.packs = projection

\* Mutant of Issue: the stamp of the selection it replaces stays live.
Issue_KeepsPrevious(c) ==
  /\ mutex = None /\ ~closed
  /\ cache[c] # None => ~CurrentTarget(c, cache[c])
  /\ \E s \in Stamps \ liveStamps :
       /\ cache' = [cache EXCEPT ![c] = [stamp |-> s, revision |-> revision, packs |-> projection]]
       /\ liveStamps' = liveStamps \cup {s}
  /\ UNCHANGED <<closed, revision, projection, connected, mutex>>

\* issue: a cached selection that is still current is handed out again, which
\* changes nothing; so does a mint that fails.
Issue(c) ==
  /\ mutex = None /\ ~closed
  /\ cache[c] # None => ~CurrentTarget(c, cache[c])
  /\ \E s \in Stamps \ liveStamps :
       /\ cache' = [cache EXCEPT ![c] = [stamp |-> s, revision |-> revision, packs |-> projection]]
       /\ liveStamps' = (liveStamps \cup {s}) \
                          (IF cache[c] = None THEN {} ELSE {cache[c].stamp})
  /\ UNCHANGED <<closed, revision, projection, connected, mutex>>

\* Drop of a PackSelectionClient.
Disconnect(c) ==
  /\ mutex = None
  /\ c \in connected
  /\ connected' = connected \ {c}
  /\ liveStamps' = liveStamps \ (IF cache[c] = None THEN {} ELSE {cache[c].stamp})
  /\ cache' = [cache EXCEPT ![c] = None]
  /\ UNCHANGED <<closed, revision, projection, mutex>>

-----------------------------------------------------------------------------
(* The stamps that may not be minted are exactly those connected clients   *)
(* hold, and no two clients hold the same one: a stamp names one selection *)
(* of one client (issue, mint_stamp, release).                              *)
StampsHeld ==
  LET issued == {c \in connected : cache[c] # None} IN
  ~closed =>
    /\ liveStamps = {cache[c].stamp : c \in issued}
    /\ \A c, d \in issued : cache[c].stamp = cache[d].stamp => c = d
=============================================================================
