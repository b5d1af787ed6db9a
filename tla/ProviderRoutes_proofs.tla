------------------------ MODULE ProviderRoutes_proofs ------------------------
(***************************************************************************)
(* Proofs about ProviderRoutes, for every set of ledgers, claims, owners,  *)
(* request ids, models and stamps.                                         *)
(***************************************************************************)
EXTENDS ProviderRoutes, TLAPS

\* The snapshots of one instance belong to one request of one ledger.
OneInstance ==
  \A c, d \in held : c.stamp = d.stamp => c.lease = d.lease /\ c.request = d.request

\* Nothing is recorded for an instance before it begins, or reported before it ends.
NothingEarly ==
  /\ \A s \in Stamps \ Minted : recorded[s] = None
  /\ \A s \in Stamps \ terminal : samples[s] = <<>>

IInv == TypeOK /\ IndexesAgree /\ LiveExactly /\ OneInstance /\ NothingEarly

-----------------------------------------------------------------------------
(* A lease of ledger l is a lease of the type, with l's seal: what         *)
(* mint_model_route_lease returns.                                         *)
LEMMA LeasesTyped ==
  ASSUME TypeOK, NEW l \in Ledgers, NEW lease \in Leases(l)
  PROVE  lease \in Lease /\ lease.seal = l
BY DEF TypeOK, Leases, Lease, Registered

(* The initial state.                                                      *)
LEMMA InitIInv == Init => IInv
<1> SUFFICES ASSUME Init PROVE IInv
  OBVIOUS
<1>1. TypeOK /\ NothingEarly /\ OneInstance
  BY DEF Init, TypeOK, NothingEarly, OneInstance, Minted
<1>2. IndexesAgree /\ LiveExactly
  BY DEF Init, IndexesAgree, LiveExactly, Registered, Live
<1> QED BY <1>1, <1>2 DEF IInv

(* register_owner_claims keeps the three indexes together: the claims of   *)
(* the batch are new in all three, and distinct from one another.          *)
LEMMA RegisterIndexes ==
  ASSUME TypeOK, IndexesAgree, NEW l \in Ledgers, RegisterOwnerClaims(l)
  PROVE  IndexesAgree'
<1>1. PICK owner \in Owners, batch \in SUBSET Claims :
        /\ ValidRegistration(l, batch)
        /\ routes' = [routes EXCEPT ![l] =
             [r \in Routes |-> IF \E c \in batch : c.route = r
                               THEN [owner |-> owner, claim |-> CHOOSE c \in batch : c.route = r]
                               ELSE @[r]]]
        /\ providers' = [providers EXCEPT ![l] =
             [p \in Providers |-> IF \E c \in batch : c.provider = p
                                  THEN (CHOOSE c \in batch : c.provider = p).route ELSE @[p]]]
        /\ slots' = [slots EXCEPT ![l] =
             [s \in Slots |-> IF \E c \in batch : c.slot = s
                              THEN (CHOOSE c \in batch : c.slot = s).route ELSE @[s]]]
  BY DEF RegisterOwnerClaims
<1>2. \A c \in batch :
        /\ c \in Claims /\ c.route \in Routes /\ c.provider \in Providers /\ c.slot \in Slots
        /\ (CHOOSE d \in batch : d.route = c.route) = c
        /\ (CHOOSE d \in batch : d.provider = c.provider) = c
        /\ (CHOOSE d \in batch : d.slot = c.slot) = c
  BY <1>1 DEF ValidRegistration, DistinctClaims, Routes, Providers, Slots
<1>3. \A c \in batch :
        /\ routes'[l][c.route] = [owner |-> owner, claim |-> c]
        /\ providers'[l][c.provider] = c.route
        /\ slots'[l][c.slot] = c.route
        /\ routes[l][c.route] = None /\ providers[l][c.provider] = None /\ slots[l][c.slot] = None
  <2> SUFFICES ASSUME NEW c \in batch
               PROVE  /\ routes'[l][c.route] = [owner |-> owner, claim |-> c]
                      /\ providers'[l][c.provider] = c.route
                      /\ slots'[l][c.slot] = c.route
                      /\ routes[l][c.route] = None /\ providers[l][c.provider] = None /\ slots[l][c.slot] = None
    OBVIOUS
  <2>1. routes[l][c.route] = None /\ providers[l][c.provider] = None /\ slots[l][c.slot] = None
    BY <1>1 DEF ValidRegistration, Collides
  <2>2. c.route \in Routes /\ c.provider \in Providers /\ c.slot \in Slots
    BY <1>2
  <2>3. routes'[l] = [r \in Routes |-> IF \E d \in batch : d.route = r
                                      THEN [owner |-> owner, claim |-> CHOOSE d \in batch : d.route = r]
                                      ELSE routes[l][r]]
    BY <1>1 DEF TypeOK
  <2>4. routes'[l][c.route] = [owner |-> owner, claim |-> CHOOSE d \in batch : d.route = c.route]
    BY <2>2, <2>3
  <2>5. providers'[l] = [p \in Providers |-> IF \E d \in batch : d.provider = p
                                            THEN (CHOOSE d \in batch : d.provider = p).route
                                            ELSE providers[l][p]]
    BY <1>1 DEF TypeOK
  <2>6. providers'[l][c.provider] = (CHOOSE d \in batch : d.provider = c.provider).route
    BY <2>2, <2>5
  <2>7. slots'[l] = [s \in Slots |-> IF \E d \in batch : d.slot = s
                                    THEN (CHOOSE d \in batch : d.slot = s).route ELSE slots[l][s]]
    BY <1>1 DEF TypeOK
  <2>8. slots'[l][c.slot] = (CHOOSE d \in batch : d.slot = c.slot).route
    BY <2>2, <2>7
  <2> QED BY <2>1, <2>4, <2>6, <2>8, <1>2
<1>4. /\ \A r \in Routes : routes'[l][r] = routes[l][r] \/ \E c \in batch : c.route = r
      /\ \A p \in Providers : providers'[l][p] = providers[l][p] \/ \E c \in batch : c.provider = p
      /\ \A s \in Slots : slots'[l][s] = slots[l][s] \/ \E c \in batch : c.slot = s
  BY <1>1 DEF TypeOK
<1>5. \A c \in batch : routes'[l][c.route] # None /\ routes'[l][c.route].claim = c
  <2> SUFFICES ASSUME NEW c \in batch
               PROVE  routes'[l][c.route] # None /\ routes'[l][c.route].claim = c
    OBVIOUS
  <2>1. routes'[l][c.route] = [owner |-> owner, claim |-> c]
    BY <1>3
  <2>2. [owner |-> owner, claim |-> c] \in Ownership
    BY <1>2 DEF Ownership
  <2>3. None \notin Ownership
    BY RoutesAssumption
  <2> QED BY <2>1, <2>2, <2>3
<1>6. \A r \in Registered(l) : r \in Registered(l)' /\ routes'[l][r] = routes[l][r]
  <2> SUFFICES ASSUME NEW r \in Registered(l)
               PROVE  r \in Registered(l)' /\ routes'[l][r] = routes[l][r]
    OBVIOUS
  <2>1. r \in Routes /\ routes[l][r] # None
    BY DEF Registered
  <2>2. \A c \in batch : c.route # r
    BY <2>1, <1>3
  <2>3. routes'[l][r] = routes[l][r]
    BY <2>1, <2>2, <1>4
  <2> QED BY <2>1, <2>3 DEF Registered
<1>7. ASSUME NEW k \in Ledgers, k # l
      PROVE  routes'[k] = routes[k] /\ providers'[k] = providers[k] /\ slots'[k] = slots[k]
  BY <1>1, <1>7 DEF TypeOK
<1>8. ASSUME NEW r \in Registered(l)'
      PROVE  LET c == routes'[l][r].claim
             IN c.route = r /\ providers'[l][c.provider] = r /\ slots'[l][c.slot] = r
  <2>1. CASE \E c \in batch : c.route = r
    <3>1. PICK c \in batch : c.route = r
      BY <2>1
    <3>2. routes'[l][r].claim = c
      BY <3>1, <1>5
    <3>3. providers'[l][c.provider] = r /\ slots'[l][c.slot] = r
      BY <3>1, <1>3
    <3> QED BY <3>1, <3>2, <3>3
  <2>2. CASE ~ \E c \in batch : c.route = r
    <3> DEFINE c == routes[l][r].claim
    <3>1. r \in Registered(l) /\ routes'[l][r] = routes[l][r]
      BY <1>8, <1>4, <2>2 DEF Registered
    <3>2. c \in Claims
      BY <3>1 DEF TypeOK, Registered, Ownership
    <3>3. c.route = r /\ providers[l][c.provider] = r /\ slots[l][c.slot] = r
      BY <3>1 DEF IndexesAgree
    <3>4. c.provider \in Providers /\ c.slot \in Slots /\ r # None
      BY <3>1, <3>2, RoutesAssumption DEF Providers, Slots, Registered
    <3>5. providers'[l][c.provider] = r /\ slots'[l][c.slot] = r
      <4>1. \A d \in batch : d.provider # c.provider
        BY <3>3, <3>4, <1>3
      <4>2. \A d \in batch : d.slot # c.slot
        BY <3>3, <3>4, <1>3
      <4> HIDE DEF c
      <4> QED BY <3>3, <3>4, <4>1, <4>2, <1>4
    <3> QED BY <3>1, <3>3, <3>5
  <2> QED BY <2>1, <2>2
<1>9. ASSUME NEW p \in Providers, providers'[l][p] # None
      PROVE  providers'[l][p] \in Registered(l)' /\ routes'[l][providers'[l][p]].claim.provider = p
  <2>1. CASE \E c \in batch : c.provider = p
    <3>1. PICK c \in batch : c.provider = p
      BY <2>1
    <3>2. providers'[l][p] = c.route
      BY <3>1, <1>3
    <3>3. c.route \in Routes /\ routes'[l][c.route] # None /\ routes'[l][c.route].claim = c
      BY <1>2, <1>5
    <3> QED BY <3>1, <3>2, <3>3 DEF Registered
  <2>2. CASE ~ \E c \in batch : c.provider = p
    BY <2>2, <1>4, <1>6, <1>9 DEF IndexesAgree
  <2> QED BY <2>1, <2>2
<1>10. ASSUME NEW s \in Slots, slots'[l][s] # None
       PROVE  slots'[l][s] \in Registered(l)' /\ routes'[l][slots'[l][s]].claim.slot = s
  <2>1. CASE \E c \in batch : c.slot = s
    <3>1. PICK c \in batch : c.slot = s
      BY <2>1
    <3>2. slots'[l][s] = c.route
      BY <3>1, <1>3
    <3>3. c.route \in Routes /\ routes'[l][c.route] # None /\ routes'[l][c.route].claim = c
      BY <1>2, <1>5
    <3> QED BY <3>1, <3>2, <3>3 DEF Registered
  <2>2. CASE ~ \E c \in batch : c.slot = s
    BY <2>2, <1>4, <1>6, <1>10 DEF IndexesAgree
  <2> QED BY <2>1, <2>2
<1> QED BY <1>7, <1>8, <1>9, <1>10 DEF IndexesAgree, Registered

(* register_owner_claims keeps the types of the tables.                    *)
LEMMA RegisterTyped ==
  ASSUME TypeOK, NEW l \in Ledgers, RegisterOwnerClaims(l)
  PROVE  TypeOK'
<1>1. PICK owner \in Owners, batch \in SUBSET Claims :
        /\ routes' = [routes EXCEPT ![l] =
             [r \in Routes |-> IF \E c \in batch : c.route = r
                               THEN [owner |-> owner, claim |-> CHOOSE c \in batch : c.route = r]
                               ELSE @[r]]]
        /\ providers' = [providers EXCEPT ![l] =
             [p \in Providers |-> IF \E c \in batch : c.provider = p
                                  THEN (CHOOSE c \in batch : c.provider = p).route ELSE @[p]]]
        /\ slots' = [slots EXCEPT ![l] =
             [s \in Slots |-> IF \E c \in batch : c.slot = s
                              THEN (CHOOSE c \in batch : c.slot = s).route ELSE @[s]]]
        /\ UNCHANGED usage
  BY DEF RegisterOwnerClaims
<1>2. \A c \in batch : c.route \in Routes
  BY DEF Routes
<1>3. routes' \in [Ledgers -> [Routes -> Ownership \cup {None}]]
  BY <1>1 DEF TypeOK, Ownership
<1>4. providers' \in [Ledgers -> [Providers -> Routes \cup {None}]]
  BY <1>1, <1>2 DEF TypeOK
<1>5. slots' \in [Ledgers -> [Slots -> Routes \cup {None}]]
  BY <1>1, <1>2 DEF TypeOK
<1> QED BY <1>1, <1>3, <1>4, <1>5 DEF TypeOK, usage, Minted

-----------------------------------------------------------------------------
(* mint_usage_context takes a fresh stamp and a request that is not live.  *)
LEMMA MintKeeps ==
  ASSUME IInv, NEW l \in Ledgers, MintUsageContext(l)
  PROVE  IInv'
<1>1. PICK lease \in UNION {Leases(k) : k \in Ledgers}, q \in RequestIds, s \in Stamps \ Minted :
        LET c == [lease |-> lease, request |-> q, resolved |-> None, stamp |-> s]
        IN /\ lease.seal = l
           /\ requests[l][q] = None
           /\ requests' = [requests EXCEPT ![l][q] = c]
           /\ held' = held \cup {c}
           /\ UNCHANGED <<tables, terminal, recorded, samples>>
  BY DEF MintUsageContext
<1> DEFINE c == [lease |-> lease, request |-> q, resolved |-> None, stamp |-> s]
<1>2. c \in Context /\ c # None
  BY LeasesTyped, RoutesAssumption DEF Context, IInv
<1>3. TypeOK'
  BY <1>1, <1>2 DEF TypeOK, IInv, tables, Minted
<1>4. IndexesAgree'
  BY <1>1 DEF IndexesAgree, IInv, tables, Registered
<1>5. s \notin terminal /\ recorded[s] = None
  BY DEF IInv, TypeOK, NothingEarly
<1>6. \A k \in Ledgers, r \in RequestIds :
        requests'[k][r] = IF k = l /\ r = q THEN c ELSE requests[k][r]
  BY <1>1 DEF IInv, TypeOK
<1>7. LiveExactly'
  <2>1. ASSUME NEW k \in Ledgers, NEW r \in Live(k)'
        PROVE  LET d == requests'[k][r]
               IN /\ d \in held' /\ d.request = r /\ d.lease.seal = k
                  /\ d.stamp \notin terminal' /\ d.resolved = recorded'[d.stamp]
    BY <1>1, <1>5, <1>6, <2>1 DEF IInv, LiveExactly, Live
  <2>2. ASSUME NEW d \in held', d.stamp \notin terminal'
        PROVE  /\ requests'[d.lease.seal][d.request] # None
               /\ requests'[d.lease.seal][d.request].stamp = d.stamp
    <3>1. CASE d = c
      BY <3>1, <1>1, <1>2, <1>6
    <3>2. CASE d \in held
      <4>1. d.lease.seal \in Ledgers /\ d.request \in RequestIds
        BY <3>2 DEF IInv, TypeOK, Context, Lease
      <4>2. requests[d.lease.seal][d.request] # None /\ requests[d.lease.seal][d.request].stamp = d.stamp
        BY <3>2, <2>2, <1>1 DEF IInv, LiveExactly
      <4> QED BY <4>1, <4>2, <1>1, <1>6
    <3> QED BY <3>1, <3>2, <1>1
  <2> QED BY <2>1, <2>2 DEF LiveExactly
<1>8. OneInstance'
  BY <1>1 DEF IInv, OneInstance, Minted
<1>9. NothingEarly'
  BY <1>1 DEF IInv, NothingEarly, Minted
<1> QED BY <1>3, <1>4, <1>7, <1>8, <1>9 DEF IInv

(* record_resolved_model replaces the live record by one of the same       *)
(* instance, and no other record is of that instance.                      *)
LEMMA RecordKeeps ==
  ASSUME IInv, NEW l \in Ledgers, RecordResolvedModel(l)
  PROVE  IInv'
<1>1. PICK c \in held, m \in Models :
        LET updated == [c EXCEPT !.resolved = m]
        IN /\ IsCurrent(l, c)
           /\ c.resolved = None
           /\ requests' = [requests EXCEPT ![l][c.request] = updated]
           /\ held' = held \cup {updated}
           /\ recorded' = [recorded EXCEPT ![c.stamp] = m]
           /\ UNCHANGED <<tables, terminal, samples>>
  BY DEF RecordResolvedModel
<1> DEFINE u == [c EXCEPT !.resolved = m]
<1>2. c \in Context /\ u \in Context /\ u # None
  BY RoutesAssumption DEF IInv, TypeOK, Context
<1>3. u.lease = c.lease /\ u.request = c.request /\ u.stamp = c.stamp /\ u.resolved = m
  BY <1>2 DEF Context
<1>4. Minted' = Minted
  BY <1>1, <1>3 DEF Minted
<1>5. TypeOK'
  BY <1>1, <1>2, <1>4 DEF TypeOK, IInv, tables, Context
<1>6. IndexesAgree'
  BY <1>1 DEF IndexesAgree, IInv, tables, Registered
<1>7. \A k \in Ledgers, r \in RequestIds :
        requests'[k][r] = IF k = l /\ r = c.request THEN u ELSE requests[k][r]
  BY <1>1, <1>2 DEF IInv, TypeOK, Context
<1>8. LiveExactly'
  <2>1. ASSUME NEW k \in Ledgers, NEW r \in Live(k)'
        PROVE  LET d == requests'[k][r]
               IN /\ d \in held' /\ d.request = r /\ d.lease.seal = k
                  /\ d.stamp \notin terminal' /\ d.resolved = recorded'[d.stamp]
    <3>1. CASE k = l /\ r = c.request
      <4>1. requests'[k][r] = u
        BY <3>1, <1>7 DEF Live
      <4>2. recorded'[c.stamp] = m
        BY <1>1, <1>2 DEF IInv, TypeOK, Context
      <4>3. c.stamp \notin terminal' /\ c.lease.seal = l
        BY <1>1 DEF IsCurrent
      <4> QED BY <4>1, <4>2, <4>3, <3>1, <1>1, <1>3
    <3>2. CASE ~(k = l /\ r = c.request)
      <4> DEFINE d == requests[k][r]
      <4>1. requests'[k][r] = d /\ r \in Live(k)
        BY <3>2, <1>7, <2>1 DEF Live
      <4>2. d \in held /\ d.request = r /\ d.lease.seal = k /\ d.stamp \notin terminal /\ d.resolved = recorded[d.stamp]
        BY <4>1 DEF IInv, LiveExactly
      <4>3. c.lease.seal = l
        BY <1>1 DEF IsCurrent
      <4>4. d.stamp # c.stamp
        BY <4>2, <4>3, <3>2 DEF IInv, OneInstance
      <4>5. recorded'[d.stamp] = recorded[d.stamp]
        BY <4>2, <4>4, <1>1 DEF IInv, TypeOK, Context
      <4> QED BY <4>1, <4>2, <4>5, <1>1
    <3> QED BY <3>1, <3>2
  <2>2. ASSUME NEW d \in held', d.stamp \notin terminal'
        PROVE  /\ requests'[d.lease.seal][d.request] # None
               /\ requests'[d.lease.seal][d.request].stamp = d.stamp
    <3>1. CASE d = u
      <4>1. c.lease.seal = l
        BY <1>1 DEF IsCurrent
      <4> QED BY <3>1, <4>1, <1>2, <1>3, <1>7 DEF Context
    <3>2. CASE d \in held
      <4>1. d.lease.seal \in Ledgers /\ d.request \in RequestIds
        BY <3>2 DEF IInv, TypeOK, Context, Lease
      <4>2. requests[d.lease.seal][d.request] # None /\ requests[d.lease.seal][d.request].stamp = d.stamp
        BY <3>2, <2>2, <1>1 DEF IInv, LiveExactly
      <4>3. requests[l][c.request] = c
        BY <1>1 DEF IsCurrent
      <4> QED BY <4>1, <4>2, <4>3, <1>2, <1>3, <1>7
    <3> QED BY <3>1, <3>2, <1>1
  <2> QED BY <2>1, <2>2 DEF LiveExactly
<1>9. OneInstance'
  <2>1. \A d \in held' : \E e \in held : e.stamp = d.stamp /\ e.lease = d.lease /\ e.request = d.request
    BY <1>1, <1>3
  <2> QED BY <2>1 DEF IInv, OneInstance
<1>10. NothingEarly'
  <2>1. \A s \in Stamps \ Minted : s # c.stamp
    BY DEF Minted
  <2> QED BY <2>1, <1>1, <1>4 DEF IInv, NothingEarly, TypeOK
<1> QED BY <1>5, <1>6, <1>8, <1>9, <1>10 DEF IInv

(* mint_terminal_sample ends the instance and takes its record away.       *)
LEMMA SampleKeeps ==
  ASSUME IInv, NEW l \in Ledgers, MintTerminalSample(l)
  PROVE  IInv'
<1>1. PICK c \in held :
        /\ IsCurrent(l, c)
        /\ samples' = [samples EXCEPT ![c.stamp] = Append(@, c.resolved)]
        /\ terminal' = terminal \cup {c.stamp}
        /\ requests' = [requests EXCEPT ![l][c.request] = None]
        /\ UNCHANGED <<tables, held, recorded>>
  BY DEF MintTerminalSample
<1>2. /\ c \in Context /\ c.request \in RequestIds /\ c.stamp \in Stamps
      /\ c.resolved \in Models \cup {None} /\ c.lease.seal = l
  BY <1>1 DEF IInv, TypeOK, Context, IsCurrent
<1>3. TypeOK'
  <2>1. samples' \in [Stamps -> Seq(Models \cup {None})]
    BY <1>1, <1>2 DEF IInv, TypeOK
  <2>2. requests' \in [Ledgers -> [RequestIds -> Context \cup {None}]]
    BY <1>1, <1>2 DEF IInv, TypeOK
  <2>3. terminal' \subseteq Minted'
    BY <1>1 DEF IInv, TypeOK, Minted
  <2> QED BY <2>1, <2>2, <2>3, <1>1 DEF IInv, TypeOK, tables
<1>4. IndexesAgree'
  BY <1>1 DEF IndexesAgree, IInv, tables, Registered
<1>5. \A k \in Ledgers, r \in RequestIds :
        requests'[k][r] = IF k = l /\ r = c.request THEN None ELSE requests[k][r]
  BY <1>1, <1>2 DEF IInv, TypeOK
<1>6. LiveExactly'
  <2>1. ASSUME NEW k \in Ledgers, NEW r \in Live(k)'
        PROVE  LET d == requests'[k][r]
               IN /\ d \in held' /\ d.request = r /\ d.lease.seal = k
                  /\ d.stamp \notin terminal' /\ d.resolved = recorded'[d.stamp]
    <3> DEFINE d == requests[k][r]
    <3>1. requests'[k][r] = d /\ r \in Live(k) /\ ~(k = l /\ r = c.request)
      BY <1>5, <2>1 DEF Live
    <3>2. d \in held /\ d.request = r /\ d.lease.seal = k /\ d.stamp \notin terminal /\ d.resolved = recorded[d.stamp]
      BY <3>1 DEF IInv, LiveExactly
    <3>3. d.stamp # c.stamp
      BY <3>1, <3>2, <1>2 DEF IInv, OneInstance
    <3> QED BY <3>1, <3>2, <3>3, <1>1
  <2>2. ASSUME NEW d \in held', d.stamp \notin terminal'
        PROVE  /\ requests'[d.lease.seal][d.request] # None
               /\ requests'[d.lease.seal][d.request].stamp = d.stamp
    <3>1. d \in held /\ d.stamp \notin terminal /\ d.stamp # c.stamp
      BY <2>2, <1>1
    <3>2. d.lease.seal \in Ledgers /\ d.request \in RequestIds
      BY <3>1 DEF IInv, TypeOK, Context, Lease
    <3>3. requests[d.lease.seal][d.request] # None /\ requests[d.lease.seal][d.request].stamp = d.stamp
      BY <3>1 DEF IInv, LiveExactly
    <3>4. requests[l][c.request] = c
      BY <1>1 DEF IsCurrent
    <3> QED BY <3>1, <3>2, <3>3, <3>4, <1>5
  <2> QED BY <2>1, <2>2 DEF LiveExactly
<1>7. OneInstance'
  BY <1>1 DEF IInv, OneInstance
<1>8. NothingEarly'
  BY <1>1, <1>2 DEF IInv, NothingEarly, Minted, TypeOK
<1> QED BY <1>3, <1>4, <1>6, <1>7, <1>8 DEF IInv

(* The inductive step.                                                     *)
LEMMA NextIInv == IInv /\ [Next]_vars => IInv'
<1> SUFFICES ASSUME IInv, [Next]_vars PROVE IInv'
  OBVIOUS
<1>1. ASSUME NEW l \in Ledgers, RegisterOwnerClaims(l) PROVE IInv'
  <2>1. TypeOK' /\ IndexesAgree'
    BY <1>1, RegisterTyped, RegisterIndexes DEF IInv
  <2>2. UNCHANGED usage
    BY <1>1 DEF RegisterOwnerClaims
  <2> QED BY <2>1, <2>2 DEF IInv, usage, LiveExactly, OneInstance, NothingEarly, Minted, Live
<1>2. ASSUME UNCHANGED vars PROVE IInv'
  BY <1>2 DEF IInv, vars, tables, usage, TypeOK, IndexesAgree, LiveExactly, OneInstance, NothingEarly,
              Minted, Live, Registered
<1> QED BY <1>1, <1>2, MintKeeps, RecordKeeps, SampleKeeps DEF Next

(* IInv holds in every reachable state of the ledgers.                     *)
THEOREM InductiveInvariant == Spec => []IInv
BY InitIInv, NextIInv, PTL DEF Spec

(* The types of the tables, the records and the stamps.                    *)
THEOREM TypeCorrect == Spec => []TypeOK
<1>1. IInv => TypeOK
  BY DEF IInv
<1> QED BY <1>1, InductiveInvariant, PTL

(* After any sequence of accepted and refused batches the three indexes of *)
(* the route table name the same claims (register_owner_claims).           *)
THEOREM IndexesCorrect == Spec => []IndexesAgree
<1>1. IInv => IndexesAgree
  BY DEF IInv
<1> QED BY <1>1, InductiveInvariant, PTL

(* The live records are those of the instances that have not ended, with   *)
(* the model recorded for each (mint_usage_context, record_resolved_model, *)
(* mint_terminal_sample).                                                  *)
THEOREM LiveCorrect == Spec => []LiveExactly
<1>1. IInv => LiveExactly
  BY DEF IInv
<1> QED BY <1>1, InductiveInvariant, PTL

-----------------------------------------------------------------------------
(* The refinement, one lemma for each step of the abstract specification.  *)

(* mint_usage_context starts an instance.                                  *)
LEMMA MintStarts ==
  ASSUME IInv, NEW l \in Ledgers, MintUsageContext(l)
  PROVE  Usage!UNext
<1>1. PICK lease \in UNION {Leases(k) : k \in Ledgers}, q \in RequestIds, s \in Stamps \ Minted :
        /\ held' = held \cup {[lease |-> lease, request |-> q, resolved |-> None, stamp |-> s]}
        /\ UNCHANGED <<terminal, recorded, samples>>
  BY DEF MintUsageContext
<1> DEFINE c == [lease |-> lease, request |-> q, resolved |-> None, stamp |-> s]
<1>2. Minted' = Minted \cup {s}
  <2>1. c.stamp = s /\ held' = held \cup {c}
    BY <1>1
  <2> HIDE DEF c
  <2> QED BY <2>1 DEF Minted
<1>3. s \notin terminal
  BY DEF IInv, TypeOK
<1>4. Usage!Start(s)
  BY <1>1, <1>2, <1>3 DEF Usage!Start, Phase
<1> QED BY <1>4 DEF Usage!UNext

(* record_resolved_model resolves one.                                     *)
LEMMA RecordResolves ==
  ASSUME IInv, NEW l \in Ledgers, RecordResolvedModel(l)
  PROVE  Usage!UNext
<1>1. PICK c \in held, m \in Models :
        /\ IsCurrent(l, c) /\ c.resolved = None
        /\ held' = held \cup {[c EXCEPT !.resolved = m]}
        /\ recorded' = [recorded EXCEPT ![c.stamp] = m]
        /\ UNCHANGED <<terminal, samples>>
  BY DEF RecordResolvedModel
<1>2. c \in Context /\ c.stamp \in Stamps /\ c.stamp \in Minted
  BY DEF IInv, TypeOK, Context, Minted
<1>3. Minted' = Minted
  BY <1>1, <1>2 DEF Minted, Context
<1>4. recorded[c.stamp] = None
  <2>1. c.request \in Live(l)
    BY <1>1, <1>2, RoutesAssumption DEF IsCurrent, Live, Context
  <2> QED BY <2>1, <1>1 DEF IInv, LiveExactly, IsCurrent
<1>5. Usage!Resolve(c.stamp)
  BY <1>1, <1>2, <1>3, <1>4 DEF Usage!Resolve, Phase, IsCurrent
<1> QED BY <1>2, <1>5 DEF Usage!UNext

(* mint_terminal_sample ends one, with the model that was recorded.        *)
LEMMA SampleEnds ==
  ASSUME IInv, NEW l \in Ledgers, MintTerminalSample(l)
  PROVE  Usage!UNext
<1>1. PICK c \in held :
        /\ IsCurrent(l, c)
        /\ samples' = [samples EXCEPT ![c.stamp] = Append(@, c.resolved)]
        /\ terminal' = terminal \cup {c.stamp}
        /\ UNCHANGED <<held, recorded>>
  BY DEF MintTerminalSample
<1>2. c \in Context /\ c.stamp \in Stamps /\ c.stamp \in Minted
  BY DEF IInv, TypeOK, Context, Minted
<1>3. Minted' = Minted
  BY <1>1 DEF Minted
<1>4. recorded[c.stamp] = c.resolved
  <2>1. c.request \in Live(l)
    BY <1>1, <1>2, RoutesAssumption DEF IsCurrent, Live, Context
  <2> QED BY <2>1, <1>1 DEF IInv, LiveExactly, IsCurrent
<1>5. Append(samples[c.stamp], c.resolved) = <<recorded[c.stamp]>>
  <2>1. samples[c.stamp] = <<>>
    BY <1>1, <1>2 DEF IInv, NothingEarly, IsCurrent
  <2> QED BY <2>1, <1>4
<1>6. Usage!End(c.stamp)
  BY <1>1, <1>2, <1>3, <1>5 DEF Usage!End, Phase, IsCurrent
<1> QED BY <1>2, <1>6 DEF Usage!UNext

(* The ledger implements the abstract specification: exactly one sample    *)
(* per instance, with the model recorded for it.                           *)
THEOREM Refinement == Spec => ImplementsUsageRequests
<1>1. Init => Usage!UInit
  BY DEF Init, Usage!UInit, Phase, Minted
<1>2. IInv /\ [Next]_vars => [Usage!UNext]_Usage!uvars
  <2> SUFFICES ASSUME IInv, [Next]_vars PROVE [Usage!UNext]_Usage!uvars
    OBVIOUS
  <2>1. ASSUME UNCHANGED usage PROVE UNCHANGED Usage!uvars
    BY <2>1 DEF usage, Usage!uvars, Phase, Minted
  <2>2. ASSUME NEW l \in Ledgers, RegisterOwnerClaims(l) PROVE UNCHANGED usage
    BY <2>2 DEF RegisterOwnerClaims
  <2>3. ASSUME UNCHANGED vars PROVE UNCHANGED usage
    BY <2>3 DEF vars
  <2> QED BY <2>1, <2>2, <2>3, MintStarts, RecordResolves, SampleEnds DEF Next
<1> QED BY <1>1, <1>2, InductiveInvariant, PTL DEF Spec, ImplementsUsageRequests, Usage!USpec
=============================================================================
