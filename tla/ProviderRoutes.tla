--------------------------- MODULE ProviderRoutes ---------------------------
(***************************************************************************)
(* The provider route ledger (crates/mcode-plugin-host/src/                *)
(* provider_routes/ledger.rs, stamps.rs).                                  *)
(*                                                                         *)
(* A ledger has a table of routes with three indexes, to which owners add  *)
(* their claims in batches, and a record for every live usage context.     *)
(* Clones of a ledger share one mutex that is held over every operation,   *)
(* so each is one step; what races is the snapshots that callers keep: of  *)
(* an earlier state of the request, of an earlier instance of it, or of    *)
(* another ledger.  (The models, the alias and the turn that a context     *)
(* carries unchanged from the minting on are left out: they are the same   *)
(* in all the snapshots with one stamp.)                                   *)
(***************************************************************************)
EXTENDS Naturals, FiniteSets, Sequences

CONSTANTS
  Ledgers,       \* the seals of the ledgers
  Claims,        \* ProviderRouteClaims, records of a provider, a route and a slot
  Owners,        \* ProviderRouteOwners: records of a family, a Pack and a generation
  RequestIds,
  Models,
  Stamps,        \* identities of UsageStamps: one per instance of a request
  MaxClaims,     \* MAX_PROVIDER_ROUTE_CLAIMS
  MaxBatch,      \* MAX_PROVIDER_ROUTE_CLAIMS_PER_BATCH
  MaxLive,       \* MAX_USAGE_CONTEXTS_PER_LEDGER
  None

Providers == {c.provider : c \in Claims}
Routes == {c.route : c \in Claims}
Slots == {c.slot : c \in Claims}

Ownership == [owner : Owners, claim : Claims]
Lease == [seal : Ledgers, ownership : Ownership]
Context == [lease : Lease, request : RequestIds, resolved : Models \cup {None}, stamp : Stamps]

ASSUME RoutesAssumption ==
  /\ None \notin Ownership \cup Context \cup Models \cup Routes
  /\ MaxClaims \in Nat /\ MaxBatch \in Nat /\ MaxLive \in Nat

VARIABLES
  routes,        \* RouteTable.routes of each ledger: the ownership of each route
  providers,     \* RouteTable.providers: the route of each provider
  slots,         \* RouteTable.auth_slots: the route of each slot
  requests,      \* LedgerState.requests
  terminal,      \* the stamps that are terminal
  held,          \* every context that was returned to a caller
  recorded,      \* history: the resolved model recorded for each stamp
  samples        \* history: the resolved models in the samples of each stamp

tables == <<routes, providers, slots>>
usage == <<requests, terminal, held, recorded, samples>>
vars == <<tables, usage>>

Init ==
  /\ routes = [l \in Ledgers |-> [r \in Routes |-> None]]
  /\ providers = [l \in Ledgers |-> [p \in Providers |-> None]]
  /\ slots = [l \in Ledgers |-> [s \in Slots |-> None]]
  /\ requests = [l \in Ledgers |-> [q \in RequestIds |-> None]]
  /\ terminal = {}
  /\ held = {}
  /\ recorded = [s \in Stamps |-> None]
  /\ samples = [s \in Stamps |-> <<>>]

-----------------------------------------------------------------------------
(* The route table.                                                        *)

Registered(l) == {r \in Routes : routes[l][r] # None}

\* No two claims of the batch have a provider, a route or a slot in common.
DistinctClaims(batch) ==
  \A a, b \in batch : a # b => a.provider # b.provider /\ a.route # b.route /\ a.slot # b.slot

Collides(l, c) ==
  providers[l][c.provider] # None \/ routes[l][c.route] # None \/ slots[l][c.slot] # None

\* Mutant of ValidRegistration: slots are not compared with those of others.
ValidRegistration_Slots(l, batch) ==
  /\ DistinctClaims(batch)
  /\ \A c \in batch : providers[l][c.provider] = None /\ routes[l][c.route] = None
  /\ Cardinality(Registered(l)) + Cardinality(batch) <= MaxClaims

ValidRegistration(l, batch) ==
  /\ DistinctClaims(batch)
  /\ \A c \in batch : ~Collides(l, c)
  /\ Cardinality(Registered(l)) + Cardinality(batch) <= MaxClaims

\* register_owner_claims: a whole batch or nothing.
RegisterOwnerClaims(l) ==
  \E owner \in Owners, batch \in SUBSET Claims :
    /\ owner.family = "providers"
    /\ batch # {} /\ Cardinality(batch) <= MaxBatch
    /\ ValidRegistration(l, batch)
    /\ routes' = [routes EXCEPT ![l] =
         [r \in Routes |-> IF \E c \in batch : c.route = r
                           THEN [owner |-> owner, claim |-> CHOOSE c \in batch : c.route = r]
                           ELSE @[r]]]
    /\ providers' = [providers EXCEPT ![l] =
         [p \in Providers |-> IF \E c \in batch : c.provider = p
                              THEN (CHOOSE c \in batch : c.provider = p).route ELSE @[p]]]
    /\ slots' = [slots EXCEPT ![l] =
         [s \in Slots |-> IF \E c \in batch : c.slot = s
                          THEN (CHOOSE c \in batch : c.slot = s).route ELSE @[s]]]
    /\ UNCHANGED usage

\* mint_model_route_lease changes nothing; the leases it has returned or can
\* return, the table being append-only.
Leases(l) ==
  {[seal |-> l, ownership |-> routes[l][r]] : r \in Registered(l)}

-----------------------------------------------------------------------------
(* Usage contexts.                                                         *)

Live(l) == {q \in RequestIds : requests[l][q] # None}
Minted == {c.stamp : c \in held}

\* Mutant of MintUsageContext: a request that is live already is replaced.
MintUsageContext_Again(l) ==
  \E lease \in UNION {Leases(k) : k \in Ledgers}, q \in RequestIds, s \in Stamps \ Minted :
    LET c == [lease |-> lease, request |-> q, resolved |-> None, stamp |-> s]
    IN /\ lease.seal = l
       /\ Cardinality(Live(l)) < MaxLive
       /\ requests' = [requests EXCEPT ![l][q] = c]
       /\ held' = held \cup {c}
       /\ UNCHANGED <<tables, terminal, recorded, samples>>

\* mint_usage_context by the owner of the lease: a fresh stamp.
MintUsageContext(l) ==
  \E lease \in UNION {Leases(k) : k \in Ledgers}, q \in RequestIds, s \in Stamps \ Minted :
    LET c == [lease |-> lease, request |-> q, resolved |-> None, stamp |-> s]
    IN /\ lease.seal = l
       /\ requests[l][q] = None
       /\ Cardinality(Live(l)) < MaxLive
       /\ requests' = [requests EXCEPT ![l][q] = c]
       /\ held' = held \cup {c}
       /\ UNCHANGED <<tables, terminal, recorded, samples>>

\* The checks that record_resolved_model and mint_terminal_sample share.
IsCurrent(l, c) ==
  /\ c.lease.seal = l
  /\ c.stamp \notin terminal
  /\ requests[l][c.request] = c

\* record_resolved_model.
RecordResolvedModel(l) ==
  \E c \in held, m \in Models :
    LET updated == [c EXCEPT !.resolved = m]
    IN /\ IsCurrent(l, c)
       /\ c.resolved = None
       /\ requests' = [requests EXCEPT ![l][c.request] = updated]
       /\ held' = held \cup {updated}
       /\ recorded' = [recorded EXCEPT ![c.stamp] = m]
       /\ UNCHANGED <<tables, terminal, samples>>

\* Mutant of MintTerminalSample: any snapshot of the live instance will do.
MintTerminalSample_Instance(l) ==
  \E c \in held :
    /\ c.lease.seal = l /\ c.stamp \notin terminal
    /\ requests[l][c.request] # None /\ requests[l][c.request].stamp = c.stamp
    /\ samples' = [samples EXCEPT ![c.stamp] = Append(@, c.resolved)]
    /\ terminal' = terminal \cup {c.stamp}
    /\ requests' = [requests EXCEPT ![l][c.request] = None]
    /\ UNCHANGED <<tables, held, recorded>>

\* mint_terminal_sample: the sample, the terminal mark and the end of the record.
MintTerminalSample(l) ==
  \E c \in held :
    /\ IsCurrent(l, c)
    /\ samples' = [samples EXCEPT ![c.stamp] = Append(@, c.resolved)]
    /\ terminal' = terminal \cup {c.stamp}
    /\ requests' = [requests EXCEPT ![l][c.request] = None]
    /\ UNCHANGED <<tables, held, recorded>>

Next ==
  \E l \in Ledgers :
    RegisterOwnerClaims(l) \/ MintUsageContext(l) \/ RecordResolvedModel(l) \/ MintTerminalSample(l)

Spec == Init /\ [][Next]_vars

-----------------------------------------------------------------------------
TypeOK ==
  /\ routes \in [Ledgers -> [Routes -> Ownership \cup {None}]]
  /\ providers \in [Ledgers -> [Providers -> Routes \cup {None}]]
  /\ slots \in [Ledgers -> [Slots -> Routes \cup {None}]]
  /\ requests \in [Ledgers -> [RequestIds -> Context \cup {None}]]
  /\ terminal \subseteq Minted
  /\ held \subseteq Context
  /\ recorded \in [Stamps -> Models \cup {None}]
  /\ samples \in [Stamps -> Seq(Models \cup {None})]

(* The three indexes name the same claims: the provider and the slot of a  *)
(* registered route lead to it, and to no route they were not claimed      *)
(* for, whatever batches were accepted and refused before.                 *)
IndexesAgree ==
  \A l \in Ledgers :
    /\ \A r \in Registered(l) :
         LET c == routes[l][r].claim
         IN c.route = r /\ providers[l][c.provider] = r /\ slots[l][c.slot] = r
    /\ \A p \in Providers : providers[l][p] # None =>
         providers[l][p] \in Registered(l) /\ routes[l][providers[l][p]].claim.provider = p
    /\ \A s \in Slots : slots[l][s] # None =>
         slots[l][s] \in Registered(l) /\ routes[l][slots[l][s]].claim.slot = s

(* The records of a ledger are those of its request instances that have    *)
(* not ended, so that no instance is lost and none keeps a slot of the     *)
(* ledger after its end; and they hold the model that was recorded.        *)
LiveExactly ==
  /\ \A l \in Ledgers : \A q \in Live(l) :
       LET c == requests[l][q]
       IN /\ c \in held /\ c.request = q /\ c.lease.seal = l
          /\ c.stamp \notin terminal /\ c.resolved = recorded[c.stamp]
  /\ \A c \in held : c.stamp \notin terminal =>
       /\ requests[c.lease.seal][c.request] # None
       /\ requests[c.lease.seal][c.request].stamp = c.stamp

(* The ledger implements UsageRequests: exactly one sample per instance,   *)
(* with the model that was recorded for it, whichever snapshots of this    *)
(* instance, of an earlier one under the same request id or of another     *)
(* ledger the callers present.                                             *)
Phase(s) == IF s \notin Minted THEN "new" ELSE IF s \in terminal THEN "ended" ELSE "live"

Usage == INSTANCE UsageRequests WITH
  Instances <- Stamps,
  phase <- [s \in Stamps |-> Phase(s)],
  model <- recorded,
  reports <- samples

ImplementsUsageRequests == Usage!USpec
=============================================================================
