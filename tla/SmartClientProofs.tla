------------------------- MODULE SmartClientProofs --------------------------
(***************************************************************************)
(* Proofs about SmartClient for every set of threads, targets, coordinator *)
(* answers and operations.                                                 *)
(***************************************************************************)
EXTENDS SmartClient, TopologyProofs, FiniteSetTheorems, TLAPS

-----------------------------------------------------------------------------
(* Facts about the routing operators. *)

\* An element of a sequence belongs to its element set.
LEMMA ElementInSeq ==
    ASSUME NEW S, NEW q \in Seq(S), NEW i \in 1..Len(q)
    PROVE  q[i] \in S
  OBVIOUS

\* A sequence that is not empty has a last position.
LEMMA NonEmptySeq ==
    ASSUME NEW S, NEW q \in Seq(S), q # <<>>
    PROVE  Len(q) \in 1..Len(q)
  OBVIOUS

\* A topology that _merge_topology accepts has shards, and names targets only.
LEMMA MergedTopology ==
    ASSUME NEW s \in Streams, merge_topology(s) # Invalid
    PROVE  /\ merge_topology(s).max_shards \in Nat \ {0}
           /\ merge_topology(s).targets \subseteq Targets
<1> DEFINE last == s[Len(s)].max_shards
           peers == UNION {s[i].peerRouting : i \in 1..Len(s)}
<1>1. s \in Seq([max_shards : Nat, peerRouting : SUBSET PeerType])
  BY StreamAssumption
<1>2. /\ s # <<>>
      /\ merge_topology(s) = topology_from(last, peers)
  BY DEF merge_topology
<1>3. last \in Nat
  <2>1. s[Len(s)] \in [max_shards : Nat, peerRouting : SUBSET PeerType]
    <3>1. Len(s) \in 1..Len(s)
      BY <1>1, <1>2, NonEmptySeq
    <3> QED
      BY <1>1, <3>1, ElementInSeq
  <2> QED
    BY <2>1
<1>4. peers \subseteq PeerType
  <2>1. ASSUME NEW i \in 1..Len(s)
        PROVE  s[i].peerRouting \subseteq PeerType
    <3>1. s[i] \in [max_shards : Nat, peerRouting : SUBSET PeerType]
      BY <1>1, ElementInSeq
    <3> QED
      BY <3>1
  <2> QED
    BY <2>1
<1> HIDE DEF last, peers
<1>5. /\ ~(last <= 0)
      /\ ~BadPeers(last, peers)
      /\ topology_from(last, peers).max_shards = last
      /\ topology_from(last, peers).targets = {p.target : p \in peers}
  BY <1>2 DEF topology_from
<1>6. \A p \in peers : p.target \in Targets
  BY <1>4, <1>5 DEF BadPeers, PeerType
<1> QED
  BY <1>2, <1>3, <1>5, <1>6

\* The endpoints chosen from a snapshot are clients of that snapshot, at most
\* two and different, unless the shard has no node.
LEMMA EndpointsFromTable ==
    ASSUME NEW table \in [Targets -> Client \cup {NoClient}],
           NEW m, NEW n, NEW mode, NEW coin,
           NEW found, found = EndpointsFor(Get(table, m), Get(table, n), NoClient, mode, coin),
           found[1] # NoClient
    PROVE  /\ found \in Seq(Client)
           /\ Len(found) \in 1..2
           /\ \A i \in 1..Len(found) : found[i] \in Held(table)
           /\ Len(found) = 2 => found[1] # found[2]
<1> DEFINE master == Get(table, m)
           backup == Get(table, n)
<1>1. /\ master \in Client \cup {NoClient}
      /\ master # NoClient => master \in Held(table)
  BY DEF Get, Held
<1>2. /\ backup \in Client \cup {NoClient}
      /\ backup # NoClient => backup \in Held(table)
  BY DEF Get, Held
<1> HIDE DEF master, backup
<1>3. CASE master = NoClient \/ backup = NoClient \/ master = backup
  <2>1. found = <<IF master # NoClient THEN master ELSE backup>>
    BY <1>3 DEF EndpointsFor, master, backup
  <2> QED
    BY <1>1, <1>2, <2>1
<1>4. CASE ~(master = NoClient \/ backup = NoClient \/ master = backup)
  <2>1. \/ found = <<master>> \/ found = <<backup>>
        \/ found = <<backup, master>> \/ found = <<master, backup>>
    BY <1>4 DEF EndpointsFor, master, backup
  <2>2. master \in Client /\ backup \in Client /\ master # backup
    BY <1>1, <1>2, <1>4
  <2>3. CASE found = <<master>>
    BY <1>1, <1>4, <2>2, <2>3
  <2>4. CASE found = <<backup>>
    BY <1>2, <1>4, <2>2, <2>4
  <2>5. CASE found = <<backup, master>>
    BY <1>1, <1>2, <1>4, <2>2, <2>5
  <2>6. CASE found = <<master, backup>>
    BY <1>1, <1>2, <1>4, <2>2, <2>6
  <2> QED
    BY <2>1, <2>3, <2>4, <2>5, <2>6
<1> QED
  BY <1>3, <1>4
-----------------------------------------------------------------------------
(* Types.  max_shards must be known to be positive before the remainder in *)
(* Route is known to be a number, hence the two conjuncts about shards.    *)

TypeInv == TypeOK /\ ReadyHasShards /\ PendingHasShards /\ CallHasNode

\* The fields of a topology have their types.
LEMMA TopologyTypes ==
    ASSUME NEW T \in Topologies
    PROVE  /\ T.max_shards \in Nat
           /\ T.targets \subseteq Targets
  BY MergedTopology DEF Topologies, EmptyTopology

\* The empty topology is one.
LEMMA EmptyIsTopology ==
    /\ EmptyTopology \in Topologies
    /\ NoSnap \in [topology : Topologies, clients : [Targets -> Client \cup {NoClient}]]
  BY DEF Topologies, NoSnap, NoTable

\* What no step of an operation touches.
LEMMA CallerFrame ==
    ASSUME NEW c \in Callers, Caller(c)
    PROVE  UNCHANGED <<flags, directory, channels, refresherVars, closerVars>>
<1>1. CASE EnterWhenClosed(c) \/ Enter(c) \/ ReadyTimeout(c) \/ Return(c)
  BY <1>1 DEF EnterWhenClosed, Enter, ReadyTimeout, Return, shared
<1>2. CASE Snapshot(c) \/ Finally(c) \/ \E x \in closing[c] : CloseRetired(c, x)
  BY <1>2 DEF Snapshot, Finally, LastOut, CloseRetired
<1>3. ASSUME NEW name, NEW override, NEW hint, NEW coin, Route(c, name, override, hint, coin)
      PROVE  UNCHANGED <<flags, directory, channels, refresherVars, closerVars>>
  BY <1>3 DEF Route
<1>4. CASE CallClosed(c) \/ CallStarts(c) \/ Unavailable(c)
           \/ \E outcome \in {"ok", "error", "cancelled"} : Returns(c, outcome)
  BY <1>4 DEF CallClosed, CallStarts, Unavailable, Returns, shared
<1>5. ASSUME NEW route, FailedPrecondition(c, route)
      PROVE  UNCHANGED <<flags, directory, channels, refresherVars, closerVars>>
  BY <1>5 DEF FailedPrecondition, shared
<1> QED
  BY <1>1, <1>2, <1>3, <1>4, <1>5 DEF Caller, CallStep

\* An operation that moves on within the count, or outside it, leaves the count alone.
Labels == {"idle", "wait", "route", "call", "rpc", "finally", "closing"}
Inside == {"route", "call", "rpc", "finally"}

LEMMA SameOperations ==
    ASSUME pc \in [Callers -> Labels], NEW c \in Callers, NEW p \in Labels,
           pc' = [pc EXCEPT ![c] = p], p \in Inside <=> pc[c] \in Inside
    PROVE  /\ pc' \in [Callers -> Labels] /\ InOperation' = InOperation
           /\ \A x \in Callers : x # c => pc'[x] = pc[x]
<1>1. /\ pc' \in [Callers -> Labels] /\ pc'[c] = p
      /\ \A x \in Callers : x # c => pc'[x] = pc[x]
  OBVIOUS
<1>2. \A x \in Callers : pc'[x] \in Inside <=> pc[x] \in Inside
  BY <1>1
<1> QED
  BY <1>1, <1>2 DEF InOperation, Inside

\* The initial state has its types.
LEMMA TypeInit == Init => TypeInv
<1> SUFFICES ASSUME Init PROVE TypeInv
  OBVIOUS
<1>1. TypeOK
  <2>1. /\ snap \in [Callers -> [topology : Topologies,
                                clients : [Targets -> Client \cup {NoClient}]]]
        /\ topology \in Topologies /\ pending \in Topologies
    BY EmptyIsTopology DEF Init
  <2>2. call \in [Callers -> [name : Operations \cup {"none"},
                              override : Overrides \cup {"NONE"}, shard : Int]]
    BY DEF Init, NoCall
  <2>3. /\ endpoints \in [Callers -> Seq(Client)]
        /\ tried \in [Callers -> Seq(Client)]
    BY DEF Init
  <2>4. /\ clients \in [Targets -> Client \cup {NoClient}]
        /\ made \in [Targets -> Nat]
        /\ closing \in [Callers -> SUBSET Client]
    BY DEF Init, NoTable
  <2>5. /\ pc \in [Callers -> {"idle", "wait", "route", "call", "rpc", "finally", "closing"}]
        /\ result \in [Callers -> Outcomes]
        /\ closer \in [Closers -> {"idle", "returned", "flag", "stop", "join", "lock",
                                   "forget", "clients", "drop", "done"}]
    BY DEF Init, Outcomes
  <2>6. /\ closed \in BOOLEAN /\ stop \in BOOLEAN /\ ready \in BOOLEAN
        /\ join_timed_out \in BOOLEAN
        /\ lock \in Closers \cup {Free}
    BY DEF Init
  <2> QED
    BY <2>1, <2>2, <2>3, <2>4, <2>5, <2>6, CoordinatorAssumption DEF Init, TypeOK
<1>2. ReadyHasShards /\ PendingHasShards /\ CallHasNode
  BY DEF Init, ReadyHasShards, PendingHasShards, CallHasNode, InOperation
<1> QED
  BY <1>1, <1>2 DEF TypeInv

\* Every step of the refresher preserves the types.
LEMMA TypeRefresher ==
    ASSUME TypeInv, Refresher
    PROVE  TypeInv'
<1> USE DEF TypeInv, TypeOK, ReadyHasShards, PendingHasShards, CallHasNode, InOperation
<1> USE CoordinatorAssumption
<1>1. CASE LoopExit
  BY <1>1 DEF LoopExit, shared, flags, directory, usage, channels, callerVars, locals, closerVars
<1>2. CASE StartRefresh
  BY <1>2 DEF StartRefresh, shared, flags, directory, usage, channels, callerVars, locals, closerVars
<1>3. CASE OpenChannel
  BY <1>3 DEF OpenChannel, flags, directory, usage, callerVars, locals, closerVars
<1>4. CASE SwapChannel
  BY <1>4 DEF SwapChannel, flags, directory, usage, callerVars, locals, closerVars
<1>5. CASE StreamFails
  BY <1>5 DEF StreamFails, RetryOrGiveUp, shared, flags, directory, usage, channels, callerVars, locals, closerVars
<1>6. CASE StreamDelivers
  <2>1. pending' \in Topologies /\ pending'.max_shards > 0
    BY <1>6, MergedTopology DEF StreamDelivers, Topologies
  <2> QED
    BY <1>6, <2>1 DEF StreamDelivers, shared, flags, directory, usage, channels, callerVars, locals, closerVars
<1>7. CASE ApplyWhenClosed
  BY <1>7, EmptyIsTopology DEF ApplyWhenClosed, shared, flags, directory, usage, channels, callerVars, locals, closerVars
<1>8. CASE ApplyWhenOpen
  BY <1>8 DEF ApplyWhenOpen, shared, flags, directory, usage, channels, callerVars, locals, closerVars
<1>9. CASE Install
  <2>1. /\ clients' \in [Targets -> Client \cup {NoClient}]
        /\ made' \in [Targets -> Nat]
    BY <1>9 DEF Install, Updated, TableWith, Removed, Absent, Count, MadeWith, Client
  <2>2. retired' \subseteq Client /\ dead' \subseteq Client
    BY <1>9 DEF Install, CloseOrPark, Retiring, Removed, Absent
  <2> QED
    BY <1>9, <2>1, <2>2, EmptyIsTopology DEF Install, flags, channels, callerVars, locals, closerVars
<1>10. CASE InstallFails
  <2>1. /\ clients' \in [Targets -> Client \cup {NoClient}]
        /\ made' \in [Targets -> Nat]
    BY <1>10 DEF InstallFails, Updated, TableWith, Removed, Absent, Count, MadeWith, Client
  <2>2. retired' \subseteq Client
    BY <1>10 DEF InstallFails, Retiring, Removed, Absent
  <2> QED
    BY <1>10, <2>1, <2>2, EmptyIsTopology
       DEF InstallFails, RetryOrGiveUp, flags, channels, callerVars, locals, closerVars
<1>11. CASE WaitInterval
  BY <1>11 DEF WaitInterval, shared, flags, directory, usage, channels, callerVars, locals, closerVars
<1> QED
  BY <1>1, <1>2, <1>3, <1>4, <1>5, <1>6, <1>7, <1>8, <1>9, <1>10, <1>11 DEF Refresher
\* The endpoints a caller computes are clients of its snapshot.
LEMMA CandidatesFromSnapshot ==
    ASSUME TypeOK, NEW c \in Callers, NEW name, NEW override, NEW shard, NEW coin,
           NEW found, found = Candidates(c, name, override, shard, coin),
           found[1] # NoClient
    PROVE  /\ found \in Seq(Client)
           /\ Len(found) \in 1..2
           /\ \A i \in 1..Len(found) : found[i] \in Held(snap[c].clients)
           /\ Len(found) = 2 => found[1] # found[2]
<1>1. snap[c].clients \in [Targets -> Client \cup {NoClient}]
  BY DEF TypeOK
<1> DEFINE m == RouteOf(snap[c].topology, "MASTER", shard)
           n == RouteOf(snap[c].topology, "BACKUP", shard)
           mode == ModeFor(override, is_write(name), ConfiguredMode)
           table == snap[c].clients
<1>2. found = EndpointsFor(Get(table, m), Get(table, n), NoClient, mode, coin)
  BY DEF Candidates
<1> HIDE DEF m, n, mode, table
<1>3. table \in [Targets -> Client \cup {NoClient}]
  BY <1>1 DEF table
<1>4. /\ found \in Seq(Client)
      /\ Len(found) \in 1..2
      /\ \A i \in 1..Len(found) : found[i] \in Held(table)
      /\ Len(found) = 2 => found[1] # found[2]
  BY <1>2, <1>3, EndpointsFromTable
<1> QED
  BY <1>4 DEF table

\* The shard an operation computes is a number.
LEMMA ShardIsInt ==
    ASSUME NEW modulus \in Nat, modulus > 0, random_shard \in Nat,
           NEW hint \in Hints \cup {NoHint}
    PROVE  /\ NextRandom \in Nat
           /\ (IF hint = NoHint THEN NextRandom % modulus
                                ELSE (hint % HashModulus) % modulus) \in Int
<1>1. CounterModulus \in Nat \ {0} /\ HashModulus \in Nat \ {0}
  BY HashAssumption
<1>2. NextRandom \in Nat
  BY <1>1 DEF NextRandom
<1>3. CASE hint = NoHint
  BY <1>2, <1>3
<1>4. CASE hint # NoHint
  <2>1. hint \in Int
    BY <1>4, HashAssumption
  <2>2. HashModulus \in Int /\ HashModulus > 0
    BY <1>1
  <2>3. hint % HashModulus \in Int
    BY <2>1, <2>2
  <2> QED
    BY <1>2, <1>4, <2>3
<1> QED
  BY <1>2, <1>3, <1>4

\* Routing preserves the types: the shard is a number because max_shards is positive.
LEMMA TypeRoute ==
    ASSUME TypeInv, NEW c \in Callers,
           NEW name \in Operations, NEW override \in Overrides,
           NEW hint \in Hints \cup {NoHint}, NEW coin \in BOOLEAN,
           Route(c, name, override, hint, coin)
    PROVE  TypeInv'
<1> DEFINE modulus == snap[c].topology.max_shards
           shard == IF hint = NoHint THEN NextRandom % modulus
                                     ELSE (hint % HashModulus) % modulus
           found == Candidates(c, name, override, shard, coin)
<1>1. pc[c] = "route" /\ c \in InOperation
  BY DEF Route, InOperation
<1>2. modulus \in Nat /\ modulus > 0
  BY <1>1, TopologyTypes DEF TypeInv, TypeOK, ReadyHasShards
<1>3. shard \in Int /\ NextRandom \in Nat
  BY <1>2, ShardIsInt DEF TypeInv, TypeOK
<1>4. call' \in [Callers -> [name : Operations \cup {"none"},
                            override : Overrides \cup {"NONE"}, shard : Int]]
  BY <1>3 DEF Route, TypeInv, TypeOK
<1>5. random_shard' \in Nat
  BY <1>3 DEF Route, TypeInv, TypeOK
<1>6. /\ endpoints' \in [Callers -> Seq(Client)]
      /\ tried' \in [Callers -> Seq(Client)]
  <2>1. CASE found[1] = NoClient
    BY <2>1 DEF Route, TypeInv, TypeOK
  <2>2. CASE found[1] # NoClient
    <3>1. found \in Seq(Client) /\ Len(found) \in 1..2
      BY <2>2, CandidatesFromSnapshot DEF TypeInv
    <3>2. /\ endpoints' = [endpoints EXCEPT ![c] = found]
          /\ tried' = [tried EXCEPT ![c] = <<found[1]>>]
      BY <2>2 DEF Route
    <3> HIDE DEF found
    <3>3. <<found[1]>> \in Seq(Client)
      BY <3>1
    <3> QED
      BY <3>1, <3>2, <3>3 DEF TypeInv, TypeOK
  <2> QED
    BY <2>1, <2>2
<1>7. /\ pc' \in [Callers -> {"idle", "wait", "route", "call", "rpc", "finally", "closing"}]
      /\ result' \in [Callers -> Outcomes]
      /\ InOperation' = InOperation
  <2>1. /\ pc[c] = "route"
        /\ pc' = [pc EXCEPT ![c] = "finally"] \/ pc' = [pc EXCEPT ![c] = "call"]
        /\ result' = [result EXCEPT ![c] = "unavailable"] \/ result' = result
    BY <1>1 DEF Route
  <2>2. pc' \in [Callers -> Labels] /\ InOperation' = InOperation
    BY <2>1, SameOperations DEF TypeInv, TypeOK, Labels, Inside
  <2> QED
    BY <2>1, <2>2 DEF TypeInv, TypeOK, Outcomes, Labels
<1>8. TypeOK'
  BY <1>4, <1>5, <1>6, <1>7
     DEF Route, TypeInv, TypeOK, flags, directory, usage, channels, refresherVars, closerVars
<1>9. ReadyHasShards' /\ PendingHasShards'
  BY <1>7 DEF Route, TypeInv, ReadyHasShards, PendingHasShards, directory, refresherVars
<1>10. CallHasNode'
  <2>1. ASSUME NEW x \in Callers, pc'[x] \in {"call", "rpc"}
        PROVE  tried'[x] # <<>>
    <3>1. CASE x # c
      BY <2>1, <3>1 DEF Route, TypeInv, TypeOK, CallHasNode
    <3>2. CASE x = c
      <4>1. tried' = [tried EXCEPT ![c] = <<found[1]>>]
        BY <2>1, <3>2 DEF Route, TypeInv, TypeOK
      <4> HIDE DEF found
      <4> QED
        BY <3>2, <4>1 DEF TypeInv, TypeOK
    <3> QED
      BY <3>1, <3>2
  <2> QED
    BY <2>1 DEF CallHasNode
<1> QED
  BY <1>8, <1>9, <1>10 DEF TypeInv

\* What _active tells the operation that is about to leave: it is counted, and
\* the count drops to zero exactly when no other operation is in flight.
LEMMA LastOperation ==
    ASSUME TypeOK, ActiveIsExact, NEW c \in Callers, pc[c] = "finally"
    PROVE  /\ active - 1 \in Nat
           /\ Cardinality(InOperation \ {c}) = active - 1
           /\ active - 1 = 0 => InOperation \ {c} = {}
<1>1. IsFiniteSet(InOperation)
  BY CallerAssumption, FS_Subset DEF InOperation
<1>2. c \in InOperation
  BY DEF InOperation
<1>3. /\ IsFiniteSet(InOperation \ {c})
      /\ Cardinality(InOperation \ {c}) = Cardinality(InOperation) - 1
  BY <1>1, <1>2, FS_RemoveElement
<1>4. Cardinality(InOperation \ {c}) \in Nat
  BY <1>3, FS_CardinalityType
<1> QED
  BY <1>3, <1>4, FS_EmptySet DEF ActiveIsExact

\* What _active tells a refresh.
LEMMA NoOperation ==
    ASSUME TypeOK, ActiveIsExact, active = 0
    PROVE  InOperation = {}
<1>1. IsFiniteSet(InOperation)
  BY CallerAssumption, FS_Subset DEF InOperation
<1> QED
  BY <1>1, FS_EmptySet DEF ActiveIsExact

\* The end of an attempt preserves the types, whatever comes after it.
LEMMA TypeAttempt ==
    ASSUME TypeInv, NEW c \in Callers, pc[c] = "rpc",
           UNCHANGED <<shared, refresherVars, closerVars, snap, call, endpoints, closing>>,
           pc' = [pc EXCEPT ![c] = "call"] \/ pc' = [pc EXCEPT ![c] = "finally"],
           result' \in [Callers -> Outcomes], tried' \in [Callers -> Seq(Client)],
           tried'[c] # <<>>, \A x \in Callers : x # c => tried'[x] = tried[x]
    PROVE  TypeInv'
<1>0. pc \in [Callers -> Labels]
  BY DEF TypeInv, TypeOK, Labels
<1>1. /\ pc' \in [Callers -> {"idle", "wait", "route", "call", "rpc", "finally", "closing"}]
      /\ InOperation' = InOperation /\ \A x \in Callers : x # c => pc'[x] = pc[x]
  BY <1>0, SameOperations DEF Labels, Inside
<1> USE DEF TypeInv, TypeOK
<1>3. TypeOK'
  BY <1>1 DEF shared, flags, directory, usage, channels, refresherVars, closerVars
<1>4. ReadyHasShards' /\ PendingHasShards'
  BY <1>1 DEF ReadyHasShards, PendingHasShards, shared, directory, refresherVars
<1>5. CallHasNode'
  BY <1>1 DEF CallHasNode
<1> QED
  BY <1>3, <1>4, <1>5

\* Every step of an operation preserves the types.
LEMMA TypeCaller ==
    ASSUME TypeInv, ActiveIsExact, NEW c \in Callers, Caller(c)
    PROVE  TypeInv'
<1>5. CASE \E name \in Operations, override \in Overrides,
              hint \in Hints \cup {NoHint}, coin \in BOOLEAN :
                  Route(c, name, override, hint, coin)
  BY <1>5, TypeRoute
<1> USE DEF TypeInv, TypeOK, ReadyHasShards, PendingHasShards, CallHasNode, InOperation
<1>1. CASE EnterWhenClosed(c)
  BY <1>1 DEF EnterWhenClosed, Outcomes, shared, flags, directory, usage, channels, refresherVars, locals, closerVars
<1>2. CASE Enter(c)
  BY <1>2 DEF Enter, Outcomes, shared, flags, directory, usage, channels, refresherVars, locals, closerVars
<1>3. CASE ReadyTimeout(c)
  BY <1>3 DEF ReadyTimeout, Outcomes, shared, flags, directory, usage, channels, refresherVars, locals, closerVars
<1>4. CASE Snapshot(c)
  <2>1. snap' \in [Callers -> [topology : Topologies,
                               clients : [Targets -> Client \cup {NoClient}]]]
    BY <1>4 DEF Snapshot
  <2>2. TypeOK'
    BY <1>4, <2>1 DEF Snapshot, flags, directory, channels, refresherVars, closerVars
  <2>3. ReadyHasShards'
    BY <1>4 DEF Snapshot, ReadySeen, flags, directory
  <2>4. PendingHasShards' /\ CallHasNode'
    BY <1>4 DEF Snapshot, refresherVars
  <2> QED
    BY <2>2, <2>3, <2>4
<1>6. CASE CallClosed(c)
  BY <1>6 DEF CallClosed, Outcomes, shared, flags, directory, usage, channels, refresherVars, locals, closerVars
<1>7. CASE CallStarts(c)
  BY <1>7 DEF CallStarts, shared, flags, directory, usage, channels, refresherVars, locals, closerVars
<1>8. CASE \E outcome \in {"ok", "error", "cancelled"} : Returns(c, outcome)
  BY <1>8 DEF Returns, Finish, Outcomes, shared, flags, directory, usage, channels, refresherVars, closerVars
<1>9. CASE Unavailable(c)
  <2>1. tried' \in [Callers -> Seq(Client)]
    <3>1. CASE Len(tried[c]) = 1 /\ Len(endpoints[c]) >= 2
      <4>1. endpoints[c][2] \in Client
        BY <3>1
      <4>2. Append(tried[c], endpoints[c][2]) \in Seq(Client)
        BY <4>1
      <4> QED
        BY <1>9, <3>1, <4>2 DEF Unavailable, TryAgain
    <3>2. CASE ~(Len(tried[c]) = 1 /\ Len(endpoints[c]) >= 2)
      BY <1>9, <3>2 DEF Unavailable, Finish
    <3> QED
      BY <3>1, <3>2
  <2>2. tried'[c] # <<>>
    <3>1. tried[c] \in Seq(Client) /\ tried[c] # <<>>
      BY <1>9 DEF Unavailable
    <3>2. tried'[c] = tried[c] \/ tried'[c] = Append(tried[c], endpoints[c][2])
      BY <1>9 DEF Unavailable, TryAgain, Finish
    <3> QED
      BY <3>1, <3>2
  <2>3. /\ pc' = [pc EXCEPT ![c] = "call"] \/ pc' = [pc EXCEPT ![c] = "finally"]
        /\ result' \in [Callers -> Outcomes]
        /\ \A x \in Callers : x # c => tried'[x] = tried[x]
    BY <1>9 DEF Unavailable, TryAgain, Finish, Outcomes
  <2> QED
    BY <1>9, <2>1, <2>2, <2>3, TypeAttempt DEF Unavailable
<1>10. CASE \E route \in Targets \cup {NoTarget} : FailedPrecondition(c, route)
  <2> PICK route \in Targets \cup {NoTarget} : FailedPrecondition(c, route)
    BY <1>10
  <2> DEFINE other == Get(snap[c].clients, route)
             again == Len(tried[c]) = 1 /\ other # NoClient /\ other # Current(c)
  <2>1. tried' \in [Callers -> Seq(Client)]
    <3>1. CASE again
      <4>1. other \in Client
        BY <3>1 DEF Get
      <4> HIDE DEF other
      <4>2. Append(tried[c], other) \in Seq(Client)
        BY <4>1
      <4> QED
        BY <3>1, <4>2 DEF FailedPrecondition, MayRedirect, TryAgain, other
    <3>2. CASE ~again
      BY <3>2 DEF FailedPrecondition, MayRedirect, Finish
    <3> QED
      BY <3>1, <3>2
  <2>2. tried'[c] # <<>>
    <3>1. tried[c] \in Seq(Client) /\ tried[c] # <<>>
      BY DEF FailedPrecondition
    <3>2. tried'[c] = tried[c] \/ tried'[c] = Append(tried[c], other)
      BY DEF FailedPrecondition, TryAgain, Finish
    <3> QED
      BY <3>1, <3>2
  <2>3. /\ pc' = [pc EXCEPT ![c] = "call"] \/ pc' = [pc EXCEPT ![c] = "finally"]
        /\ result' \in [Callers -> Outcomes]
        /\ \A x \in Callers : x # c => tried'[x] = tried[x]
    BY DEF FailedPrecondition, TryAgain, Finish, Outcomes
  <2>4. /\ pc[c] = "rpc"
        /\ UNCHANGED <<shared, refresherVars, closerVars, snap, call, endpoints, closing>>
    BY DEF FailedPrecondition
  <2> QED
    BY <2>1, <2>2, <2>3, <2>4, TypeAttempt
<1>11. CASE Finally(c)
  <2>1. active' \in Nat
    BY <1>11, LastOperation DEF Finally, LastOut
  <2>2. /\ retired' \subseteq Client
        /\ closing' \in [Callers -> SUBSET Client]
    <3>1. retired \subseteq Client /\ closing \in [Callers -> SUBSET Client]
      BY DEF TypeInv, TypeOK
    <3>2. \/ retired' = {} /\ closing' = [closing EXCEPT ![c] = retired]
          \/ UNCHANGED <<retired, closing>>
      BY <1>11 DEF Finally, LastOut
    <3> QED
      BY <3>1, <3>2
  <2>3. /\ snap' \in [Callers -> [topology : Topologies,
                                 clients : [Targets -> Client \cup {NoClient}]]]
        /\ call' \in [Callers -> [name : Operations \cup {"none"},
                                 override : Overrides \cup {"NONE"}, shard : Int]]
        /\ endpoints' \in [Callers -> Seq(Client)]
        /\ tried' \in [Callers -> Seq(Client)]
    BY <1>11, EmptyIsTopology DEF Finally, LastOut, NoCall
  <2> QED
    BY <1>11, <2>1, <2>2, <2>3 DEF Finally, LastOut, flags, directory, channels, refresherVars, closerVars
<1>12. CASE \E client \in closing[c] : CloseRetired(c, client)
  BY <1>12 DEF CloseRetired, flags, directory, channels, refresherVars, locals, closerVars
<1>13. CASE Return(c)
  BY <1>13 DEF Return, shared, flags, directory, usage, channels, refresherVars, locals, closerVars
<1> QED
  BY <1>1, <1>2, <1>3, <1>4, <1>5, <1>6, <1>7, <1>8, <1>9, <1>10, <1>11, <1>12, <1>13
     DEF Caller, CallStep

\* Every step of close() preserves the types.
LEMMA TypeCloser ==
    ASSUME TypeInv, NEW k \in Closers, Closer(k)
    PROVE  TypeInv'
<1> USE DEF TypeInv, TypeOK, ReadyHasShards, PendingHasShards, CallHasNode, InOperation
<1>1. CASE CloseAgain(k)
  BY <1>1 DEF CloseAgain, shared, flags, directory, usage, channels, refresherVars, callerVars, locals
<1>2. CASE CloseBegin(k)
  BY <1>2 DEF CloseBegin, shared, flags, directory, usage, channels, refresherVars, callerVars, locals
<1>3. CASE SetClosed(k)
  BY <1>3 DEF SetClosed, directory, usage, channels, refresherVars, callerVars, locals
<1>4. CASE SetStop(k)
  BY <1>4 DEF SetStop, directory, usage, channels, refresherVars, callerVars, locals
<1>5. CASE Join(k)
  BY <1>5 DEF Join, shared, flags, directory, usage, channels, refresherVars, callerVars, locals
<1>6. CASE CloseChannel(k)
  <2>1. closer' \in [Closers -> {"idle", "returned", "flag", "stop", "join", "lock",
                                "forget", "clients", "drop", "done"}]
    BY <1>6 DEF CloseChannel
  <2> QED
    BY <1>6, <2>1 DEF CloseChannel, directory, usage, refresherVars, callerVars, locals
<1>7. CASE ForgetChannel(k)
  BY <1>7 DEF ForgetChannel, flags, directory, usage, refresherVars, callerVars, locals
<1>8. CASE CloseClients(k)
  <2>1. clients' \in [Targets -> Client \cup {NoClient}] /\ dead' \subseteq Client
    BY <1>8 DEF CloseClients, Doomed, NoTable, Held
  <2> QED
    BY <1>8, <2>1 DEF CloseClients, channels, refresherVars, callerVars, locals
<1>9. CASE DropRetired(k)
  BY <1>9 DEF DropRetired, flags, directory, channels, refresherVars, callerVars, locals
<1> QED
  BY <1>1, <1>2, <1>3, <1>4, <1>5, <1>6, <1>7, <1>8, <1>9 DEF Closer, CloseStep

-----------------------------------------------------------------------------
(* _active is exact. *)

\* Only a snapshot and a finally block change who is in an operation.
LEMMA OperationSteps ==
    ASSUME TypeOK, Next
    PROVE  \/ InOperation' = InOperation /\ active' = active
           \/ \E c \in Callers : Snapshot(c) \/ Finally(c)
<1> USE DEF TypeOK, InOperation
<1>1. CASE Refresher
  BY <1>1 DEF Refresher, LoopExit, StartRefresh, OpenChannel, SwapChannel, StreamFails,
     StreamDelivers, ApplyWhenClosed, ApplyWhenOpen, Install, InstallFails, WaitInterval,
     shared, usage, callerVars
<1>2. ASSUME NEW c \in Callers, Caller(c), ~Snapshot(c), ~Finally(c)
      PROVE  InOperation' = InOperation /\ active' = active
  <2>1. CASE \/ EnterWhenClosed(c) \/ Enter(c) \/ ReadyTimeout(c) \/ CallClosed(c)
             \/ CallStarts(c) \/ Return(c)
    BY <2>1 DEF EnterWhenClosed, Enter, ReadyTimeout, CallClosed, CallStarts, Return,
       shared, usage
  <2>2. ASSUME NEW name \in Operations, NEW override \in Overrides,
               NEW hint \in Hints \cup {NoHint}, NEW coin \in BOOLEAN,
               Route(c, name, override, hint, coin)
        PROVE  InOperation' = InOperation /\ active' = active
    BY <2>2 DEF Route, usage
  <2>3. CASE \/ \E outcome \in {"ok", "error", "cancelled"} : Returns(c, outcome)
             \/ Unavailable(c)
             \/ \E route \in Targets \cup {NoTarget} : FailedPrecondition(c, route)
             \/ \E x \in closing[c] : CloseRetired(c, x)
    BY <2>3 DEF Returns, Unavailable, FailedPrecondition, Finish, TryAgain, CloseRetired,
       shared, usage
  <2> HIDE DEF TypeOK, InOperation
  <2> QED
    BY <1>2, <2>1, <2>2, <2>3, Zenon DEF Caller, CallStep
<1>3. CASE \E k \in Closers : Closer(k)
  BY <1>3 DEF Closer, CloseStep, CloseAgain, CloseBegin, SetClosed, SetStop, Join,
     CloseChannel, ForgetChannel, CloseClients, DropRetired, shared, usage, callerVars
<1> QED
  BY <1>1, <1>2, <1>3 DEF Next

\* _active counts the operations in flight after every step.
LEMMA ActiveStep ==
    ASSUME TypeInv, ActiveIsExact, [Next]_vars
    PROVE  ActiveIsExact'
<1>1. CASE UNCHANGED vars
  BY <1>1 DEF vars, shared, usage, callerVars, ActiveIsExact, InOperation
<1>2. CASE InOperation' = InOperation /\ active' = active
  BY <1>2 DEF ActiveIsExact
<1>3. ASSUME NEW c \in Callers, Snapshot(c)
      PROVE  ActiveIsExact'
  <2>1. IsFiniteSet(InOperation)
    BY CallerAssumption, FS_Subset DEF InOperation
  <2>2. c \notin InOperation /\ InOperation' = InOperation \cup {c}
    BY <1>3 DEF Snapshot, InOperation, TypeInv, TypeOK
  <2>3. Cardinality(InOperation') = Cardinality(InOperation) + 1
    BY <2>1, <2>2, FS_AddElement
  <2> QED
    BY <1>3, <2>3 DEF Snapshot, ActiveIsExact
<1>4. ASSUME NEW c \in Callers, Finally(c)
      PROVE  ActiveIsExact'
  <2>1. InOperation' = InOperation \ {c}
    BY <1>4 DEF Finally, LastOut, InOperation, TypeInv, TypeOK
  <2>2. pc[c] = "finally" /\ active' = active - 1
    BY <1>4 DEF Finally, LastOut
  <2> QED
    BY <2>1, <2>2, LastOperation DEF ActiveIsExact, TypeInv
<1> QED
  BY <1>1, <1>2, <1>3, <1>4, OperationSteps DEF TypeInv

\* Every step of every thread preserves the types.
LEMMA TypeStep ==
    ASSUME TypeInv, ActiveIsExact, [Next]_vars
    PROVE  TypeInv'
<1>1. CASE Refresher
  BY <1>1, TypeRefresher
<1>2. CASE \E c \in Callers : Caller(c)
  BY <1>2, TypeCaller
<1>3. CASE \E k \in Closers : Closer(k)
  BY <1>3, TypeCloser
<1>4. CASE UNCHANGED vars
  BY <1>4 DEF TypeInv, TypeOK, ReadyHasShards, PendingHasShards, CallHasNode, InOperation,
     vars, shared, flags, directory, usage, channels, refresherVars, callerVars, locals, closerVars
<1> QED
  BY <1>1, <1>2, <1>3, <1>4 DEF Next

\* Types and the operation counter, together: the counter stays a natural number
\* only because it counts, and it counts every path through _execute.
THEOREM TypeCorrect == Spec => [](TypeOK /\ ActiveIsExact /\ ReadyHasShards)
<1> DEFINE Inv == TypeInv /\ ActiveIsExact
<1>1. Init => Inv
  <2>1. Init => InOperation = {} /\ active = 0
    BY DEF Init, InOperation
  <2> QED
    BY <2>1, TypeInit, FS_EmptySet DEF ActiveIsExact
<1>2. Inv /\ [Next]_vars => Inv'
  BY TypeStep, ActiveStep
<1>3. Inv => TypeOK /\ ActiveIsExact /\ ReadyHasShards
  BY DEF TypeInv
<1> QED
  BY <1>1, <1>2, <1>3, PTL DEF Spec

-----------------------------------------------------------------------------
(* Every client has one place. *)

\* Born, without the union.
LEMMA BornIff ==
    ASSUME made \in [Targets -> Nat], NEW x
    PROVE  x \in Born <=> x \in Client /\ x[2] <= made[x[1]]
<1>1. Born = Creations(made)
  BY DEF Born, Creations
<1> QED
  BY <1>1, CreationsIff

\* The clients that a refresh takes out of the dictionary.
Dropped == {clients[t] : t \in Removed}

\* Replacing the dictionary: ReplacedTable in the terms of SmartClient.
LEMMA UpdatedTable ==
    ASSUME TypeOK, Keyed,
           NEW created \in SUBSET {t \in Targets : clients[t] = NoClient},
           clients' = Updated(created), made' = Count(created)
    PROVE  /\ Keyed'
           /\ Born \subseteq Born'
           /\ Born' \subseteq Born \cup Held(clients')
           /\ \A x \in Held(clients') : x \notin Born \/ x \in Held(clients) \ Dropped
           /\ Held(clients) \subseteq Held(clients') \cup Dropped
           /\ Dropped \subseteq Held(clients)
<1>1. /\ clients \in [Targets -> Client \cup {NoClient}]
      /\ made \in [Targets -> Nat]
  BY DEF TypeOK
<1>2. /\ clients' = TableWith(clients, made, pending.targets, created)
      /\ made' = MadeWith(made, created)
  BY DEF Updated, Count
<1>3. /\ Born = Creations(made) /\ Born' = Creations(made')
      /\ Keyed = KeyedBy(clients, made) /\ Keyed' = KeyedBy(clients', made')
      /\ Dropped = Leaving(clients, pending.targets)
  BY DEF Born, Creations, Keyed, KeyedBy, Dropped, Leaving, Removed
<1> QED
  BY <1>1, <1>2, <1>3, ReplacedTable

\* A refresh, whether it fails half way or not, keeps every client in one place.
LEMMA OwnershipInstall ==
    ASSUME TypeInv, ActiveIsExact, Ownership, Install \/ InstallFails
    PROVE  Ownership'
<1> DEFINE None == {t \in Targets : clients[t] = NoClient}
<1>1. Missing \subseteq None
  BY TopologyTypes DEF Missing, Unserved, TypeInv, TypeOK
<1>2. PICK created \in SUBSET None : clients' = Updated(created) /\ made' = Count(created)
  BY <1>1 DEF Install, InstallFails
<1>3. /\ Keyed'
      /\ Born \subseteq Born'
      /\ \A x \in Held(clients') : x \notin Born \/ x \in Held(clients) \ Dropped
      /\ Held(clients) \subseteq Held(clients') \cup Dropped
      /\ Dropped \subseteq Held(clients)
  BY <1>2, UpdatedTable DEF TypeInv, Ownership
<1>4. /\ UNCHANGED <<closed, closing, snap, pc>>
      /\ \/ active = 0 /\ retired' = {} /\ dead' = dead \cup retired \cup Dropped
         \/ retired' = retired \cup Dropped /\ dead' = dead
  BY DEF Install, CloseOrPark, InstallFails, Retiring, Dropped, flags, callerVars, locals
<1>5. Closing' = Closing /\ InOperation' = InOperation
  BY <1>4 DEF Closing, InOperation
<1>6. Held(clients) \subseteq Born
  BY DEF Ownership, Keyed, Held
<1>7. retired' \cup dead' \cup Closing' \subseteq Born'
  BY <1>3, <1>4, <1>5, <1>6 DEF Ownership
<1>8. ASSUME ~closed'
      PROVE  /\ Held(clients') \cap (retired' \cup dead' \cup Closing') = {}
             /\ retired' \cap (dead' \cup Closing') = {}
  <2>1. /\ Held(clients) \cap (retired \cup dead \cup Closing) = {}
        /\ retired \cap (dead \cup Closing) = {}
        /\ retired \cup dead \cup Closing \subseteq Born
    BY <1>4, <1>8 DEF Ownership
  <2>2. Held(clients') \cap (retired \cup dead \cup Closing \cup Dropped) = {}
    <3> SUFFICES ASSUME NEW x \in Held(clients')
                 PROVE  x \notin retired \cup dead \cup Closing \cup Dropped
      OBVIOUS
    <3>1. x \notin Born \/ x \in Held(clients) \ Dropped
      BY <1>3
    <3>2. Dropped \subseteq Born
      BY <1>3, <1>6
    <3> QED
      BY <2>1, <3>1, <3>2
  <2>3. (retired \cup Dropped) \cap (dead \cup Closing) = {}
    BY <1>3, <2>1
  <2>4. CASE retired' = {} /\ dead' = dead \cup retired \cup Dropped
    BY <1>5, <2>2, <2>4
  <2>5. CASE retired' = retired \cup Dropped /\ dead' = dead
    BY <1>5, <2>2, <2>3, <2>5
  <2> QED
    BY <1>4, <2>4, <2>5
<1>9. ASSUME ~closed', NEW c \in InOperation'
      PROVE  Held(snap'[c].clients) \subseteq Held(clients') \cup retired'
  <2>1. active # 0
    BY <1>5, <1>9, NoOperation DEF TypeInv
  <2>2. retired' = retired \cup Dropped
    BY <1>4, <2>1
  <2>3. Held(snap[c].clients) \subseteq Held(clients) \cup retired
    BY <1>4, <1>5, <1>9 DEF Ownership
  <2> QED
    BY <1>3, <1>4, <2>2, <2>3
<1> QED
  BY <1>3, <1>7, <1>8, <1>9 DEF Ownership

\* The steps that move a client from one place to another; all others leave the
\* places and the snapshots alone.
LEMMA LifetimeSteps ==
    ASSUME TypeOK, Next
    PROVE  \/ Install \/ InstallFails
           \/ \E c \in Callers :
                 Snapshot(c) \/ Finally(c) \/ \E x \in closing[c] : CloseRetired(c, x)
           \/ \E k \in Closers : CloseClients(k) \/ DropRetired(k)
           \/ /\ UNCHANGED <<clients, made, retired, dead, closing, snap>>
              /\ InOperation' = InOperation
              /\ closed => closed'
<1> USE DEF TypeOK, InOperation
<1>1. CASE Refresher /\ ~Install /\ ~InstallFails
  BY <1>1 DEF Refresher, LoopExit, StartRefresh, OpenChannel, SwapChannel, StreamFails,
     StreamDelivers, ApplyWhenClosed, ApplyWhenOpen, WaitInterval,
     shared, flags, directory, usage, callerVars, locals
<1>2. ASSUME NEW c \in Callers, Caller(c), ~Snapshot(c), ~Finally(c),
             ~\E x \in closing[c] : CloseRetired(c, x)
      PROVE  /\ UNCHANGED <<clients, made, retired, dead, closing, snap>>
             /\ InOperation' = InOperation
             /\ closed => closed'
  <2> DEFINE Still == /\ UNCHANGED <<retired, dead, closing, snap>>
                      /\ InOperation' = InOperation
  <2>0. pc \in [Callers -> Labels]
    BY DEF Labels
  <2> HIDE DEF TypeOK, InOperation
  <2>1. ASSUME EnterWhenClosed(c) \/ Enter(c) \/ ReadyTimeout(c) \/ Return(c)
        PROVE  Still
    <3>1. /\ pc[c] \in {"idle", "wait", "closing"}
          /\ pc' = [pc EXCEPT ![c] = "idle"] \/ pc' = [pc EXCEPT ![c] = "wait"] \/ pc' = pc
          /\ UNCHANGED <<retired, dead, closing, snap>>
      BY <2>1 DEF EnterWhenClosed, Enter, ReadyTimeout, Return, shared, usage, locals
    <3>2. InOperation' = InOperation
      BY <2>0, <3>1, SameOperations DEF Labels, Inside, InOperation
    <3> QED
      BY <3>1, <3>2
  <2>2. ASSUME NEW name, NEW override, NEW hint, NEW coin, Route(c, name, override, hint, coin)
        PROVE  Still
    <3>1. /\ pc[c] = "route"
          /\ pc' = [pc EXCEPT ![c] = "finally"] \/ pc' = [pc EXCEPT ![c] = "call"]
          /\ UNCHANGED <<retired, dead, closing, snap>>
      BY <2>2 DEF Route, usage
    <3> QED
      BY <2>0, <3>1, SameOperations DEF Labels, Inside
  <2>3. ASSUME CallClosed(c) \/ CallStarts(c)
        PROVE  Still
    <3>1. /\ pc[c] = "call"
          /\ pc' = [pc EXCEPT ![c] = "finally"] \/ pc' = [pc EXCEPT ![c] = "rpc"]
          /\ UNCHANGED <<retired, dead, closing, snap>>
      BY <2>3 DEF CallClosed, CallStarts, shared, usage, locals
    <3> QED
      BY <2>0, <3>1, SameOperations DEF Labels, Inside
  <2>4. ASSUME \/ Unavailable(c) \/ \E route \in Targets \cup {NoTarget} : FailedPrecondition(c, route)
               \/ \E outcome \in {"ok", "error", "cancelled"} : Returns(c, outcome)
        PROVE  Still
    <3>1. /\ pc[c] = "rpc"
          /\ pc' = [pc EXCEPT ![c] = "finally"] \/ pc' = [pc EXCEPT ![c] = "call"]
          /\ UNCHANGED <<retired, dead, closing, snap>>
      BY <2>4 DEF Unavailable, FailedPrecondition, Returns, Finish, TryAgain, shared, usage
    <3> QED
      BY <2>0, <3>1, SameOperations DEF Labels, Inside
  <2>5. Still
    BY <1>2, <2>1, <2>2, <2>3, <2>4 DEF Caller, CallStep
  <2> QED
    BY <1>2, <2>5, CallerFrame DEF flags, directory
<1>3. ASSUME NEW k \in Closers, Closer(k), ~CloseClients(k), ~DropRetired(k)
      PROVE  /\ UNCHANGED <<clients, made, retired, dead, closing, snap>>
             /\ InOperation' = InOperation
             /\ closed => closed'
  BY <1>3 DEF Closer, CloseStep, CloseAgain, CloseBegin, SetClosed, SetStop, Join,
     CloseChannel, ForgetChannel, shared, flags, directory, usage, callerVars, locals
<1> QED
  BY <1>1, <1>2, <1>3 DEF Next

\* Ownership does not notice steps that leave the clients where they are.
LEMMA OwnershipFrame ==
    ASSUME Ownership, UNCHANGED <<clients, made, retired, dead, closing, snap>>,
           InOperation' \subseteq InOperation, closed => closed'
    PROVE  Ownership'
<1>1. Born' = Born /\ Closing' = Closing /\ Held(clients') = Held(clients)
  BY DEF Born, Closing
<1>2. Keyed'
  BY <1>1 DEF Ownership, Keyed
<1> QED
  BY <1>1, <1>2 DEF Ownership

\* Every step keeps each client in one place.
LEMMA OwnershipStep ==
    ASSUME TypeInv, ActiveIsExact, ClosersFlagged, Ownership, [Next]_vars
    PROVE  Ownership'
<1>1. CASE UNCHANGED vars
  <2>1. /\ UNCHANGED <<clients, made, retired, dead, closing, snap>>
        /\ InOperation' \subseteq InOperation
        /\ closed => closed'
    BY <1>1 DEF vars, shared, flags, directory, usage, callerVars, locals, InOperation
  <2> QED
    BY <2>1, OwnershipFrame
<1>2. CASE Install \/ InstallFails
  BY <1>2, OwnershipInstall
<1>3. ASSUME NEW c \in Callers, Snapshot(c)
      PROVE  Ownership'
  <2>1. /\ UNCHANGED <<clients, made, retired, dead, closing, closed>>
        /\ snap' = [snap EXCEPT ![c] = [topology |-> topology, clients |-> clients]]
        /\ InOperation' = InOperation \cup {c}
    BY <1>3 DEF Snapshot, InOperation, TypeInv, TypeOK, flags, directory
  <2>2. Born' = Born /\ Closing' = Closing /\ Held(clients') = Held(clients)
    BY <2>1 DEF Born, Closing
  <2>3. Keyed'
    BY <2>1, <2>2 DEF Ownership, Keyed
  <2>4. ASSUME ~closed', NEW d \in InOperation'
        PROVE  Held(snap'[d].clients) \subseteq Held(clients') \cup retired'
    <3>1. CASE d = c
      <4>1. snap'[d].clients = clients
        BY <2>1, <3>1 DEF TypeInv, TypeOK
      <4> QED
        BY <2>2, <4>1
    <3>2. CASE d # c
      <4>1. snap'[d] = snap[d] /\ d \in InOperation
        BY <2>1, <3>2 DEF TypeInv, TypeOK
      <4> QED
        BY <2>1, <2>2, <2>4, <4>1 DEF Ownership
    <3> QED
      BY <3>1, <3>2
  <2> QED
    BY <2>1, <2>2, <2>3, <2>4 DEF Ownership
<1>4. ASSUME NEW c \in Callers, Finally(c)
      PROVE  Ownership'
  <2>1. /\ UNCHANGED <<clients, made, dead, closed>>
        /\ InOperation' = InOperation \ {c}
        /\ \A d \in InOperation' : snap'[d] = snap[d]
    BY <1>4 DEF Finally, LastOut, InOperation, TypeInv, TypeOK, flags, directory
  <2>2. Born' = Born /\ Held(clients') = Held(clients)
    BY <2>1 DEF Born
  <2>3. Keyed'
    BY <2>1, <2>2 DEF Ownership, Keyed
  <2>4. CASE active - 1 = 0
    <3>1. InOperation' = {}
      BY <1>4, <2>1, <2>4, LastOperation DEF Finally, LastOut, TypeInv
    <3>2. retired' = {} /\ closing' = [closing EXCEPT ![c] = retired]
      BY <1>4, <2>4 DEF Finally, LastOut
    <3>3. Closing' \subseteq Closing \cup retired
      <4> SUFFICES ASSUME NEW d \in Callers PROVE closing'[d] \subseteq Closing \cup retired
        BY DEF Closing
      <4>1. closing'[d] = IF d = c THEN retired ELSE closing[d]
        BY <3>2 DEF TypeInv, TypeOK
      <4> QED
        BY <4>1 DEF Closing
    <3> QED
      BY <2>1, <2>2, <2>3, <3>1, <3>2, <3>3 DEF Ownership
  <2>5. CASE active - 1 # 0
    <3>1. retired' = retired /\ Closing' = Closing
      BY <1>4, <2>5 DEF Finally, LastOut, Closing
    <3> QED
      BY <2>1, <2>2, <2>3, <3>1 DEF Ownership
  <2> QED
    BY <2>4, <2>5
<1>5. ASSUME NEW c \in Callers, NEW x \in closing[c], CloseRetired(c, x)
      PROVE  Ownership'
  <2>1. /\ UNCHANGED <<clients, made, retired, closed, snap, pc>>
        /\ dead' = dead \cup {x}
        /\ closing' = [closing EXCEPT ![c] = @ \ {x}]
    BY <1>5 DEF CloseRetired, flags, directory, locals
  <2>2. Born' = Born /\ Held(clients') = Held(clients) /\ InOperation' = InOperation
    BY <2>1 DEF Born, InOperation
  <2>3. Keyed'
    BY <2>1, <2>2 DEF Ownership, Keyed
  <2>4. x \in Closing
    BY DEF Closing
  <2>5. Closing' \subseteq Closing
    <3> SUFFICES ASSUME NEW d \in Callers PROVE closing'[d] \subseteq Closing
      BY DEF Closing
    <3>1. closing'[d] \subseteq closing[d]
      BY <2>1 DEF TypeInv, TypeOK
    <3> QED
      BY <3>1 DEF Closing
  <2> QED
    BY <2>1, <2>2, <2>3, <2>4, <2>5 DEF Ownership
<1>6. ASSUME NEW k \in Closers, CloseClients(k)
      PROVE  Ownership'
  <2>1. /\ closed' /\ UNCHANGED <<made, retired, closing>>
        /\ dead' = dead \cup Held(clients) \cup retired
        /\ clients' = NoTable
    BY <1>6 DEF CloseClients, Doomed, ClosersFlagged, callerVars
  <2>2. Born' = Born /\ Closing' = Closing /\ Held(clients) \subseteq Born
    BY <2>1 DEF Born, Closing, Ownership, Keyed, Held
  <2>3. Keyed'
    BY <2>1 DEF Keyed, NoTable
  <2> QED
    BY <2>1, <2>2, <2>3 DEF Ownership
<1>7. ASSUME NEW k \in Closers, DropRetired(k)
      PROVE  Ownership'
  <2>1. /\ closed' /\ UNCHANGED <<made, clients, dead, closing>>
        /\ retired' = {}
    BY <1>7 DEF DropRetired, ClosersFlagged, flags, directory, callerVars
  <2>2. Born' = Born /\ Closing' = Closing /\ Held(clients') = Held(clients)
    BY <2>1 DEF Born, Closing
  <2>3. Keyed'
    BY <2>1, <2>2 DEF Ownership, Keyed
  <2> QED
    BY <2>1, <2>2, <2>3 DEF Ownership
<1> QED
  BY <1>1, <1>2, <1>3, <1>4, <1>5, <1>6, <1>7, LifetimeSteps, OwnershipFrame DEF TypeInv

-----------------------------------------------------------------------------
(* No operation loses a node client before close(). *)

\* _closed is never reset, and only close() sets it.
LEMMA ClosersFlaggedStep ==
    ASSUME TypeOK, ClosersFlagged, [Next]_vars
    PROVE  ClosersFlagged' /\ (closed => closed')
<1> USE DEF TypeOK, ClosersFlagged
<1>1. CASE UNCHANGED vars
  BY <1>1 DEF vars, shared, flags, closerVars
<1>2. CASE Refresher
  BY <1>2 DEF Refresher, LoopExit, StartRefresh, OpenChannel, SwapChannel, StreamFails,
     StreamDelivers, ApplyWhenClosed, ApplyWhenOpen, WaitInterval, Install, InstallFails,
     shared, flags, closerVars
<1>3. CASE \E c \in Callers : Caller(c)
  BY <1>3, CallerFrame DEF flags, closerVars
<1>4. CASE \E k \in Closers : Closer(k)
  BY <1>4 DEF Closer, CloseStep, CloseAgain, CloseBegin, SetClosed, SetStop, Join,
     CloseChannel, ForgetChannel, CloseClients, DropRetired, shared, flags
<1> QED
  BY <1>1, <1>2, <1>3, <1>4 DEF Next

\* A step of an operation calls nothing but clients of its own snapshot.
LEMMA SourcedCaller ==
    ASSUME TypeInv, NEW c \in Callers, Sourced(c), Caller(c)
    PROVE  Sourced(c)'
<1>1. CASE \/ EnterWhenClosed(c) \/ Enter(c) \/ ReadyTimeout(c) \/ CallClosed(c) \/ CallStarts(c)
           \/ Return(c) \/ \E x \in closing[c] : CloseRetired(c, x)
  BY <1>1 DEF EnterWhenClosed, Enter, ReadyTimeout, CallClosed, CallStarts, Return,
     CloseRetired, locals, Sourced, TypeInv, TypeOK
<1>2. CASE Snapshot(c) \/ Finally(c)
  <2>1. tried'[c] = <<>> /\ endpoints'[c] = <<>>
    BY <1>2 DEF Snapshot, Finally, LastOut, Sourced, TypeInv, TypeOK
  <2> QED
    BY <2>1 DEF Sourced
<1>3. ASSUME NEW name \in Operations, NEW override \in Overrides,
             NEW hint \in Hints \cup {NoHint}, NEW coin \in BOOLEAN,
             Route(c, name, override, hint, coin)
      PROVE  Sourced(c)'
  <2> DEFINE modulus == snap[c].topology.max_shards
             shard == IF hint = NoHint THEN NextRandom % modulus
                                       ELSE (hint % HashModulus) % modulus
             found == Candidates(c, name, override, shard, coin)
  <2>1. CASE found[1] = NoClient
    BY <1>3, <2>1 DEF Route, Sourced, TypeInv, TypeOK
  <2>2. CASE found[1] # NoClient
    <3>1. /\ found \in Seq(Client) /\ Len(found) \in 1..2
          /\ \A i \in 1..Len(found) : found[i] \in Held(snap[c].clients)
      BY <2>2, CandidatesFromSnapshot DEF TypeInv
    <3>2. /\ endpoints'[c] = found /\ tried'[c] = <<found[1]>>
          /\ pc'[c] = "call" /\ snap' = snap
      BY <1>3, <2>2 DEF Route, TypeInv, TypeOK
    <3> HIDE DEF found
    <3> QED
      BY <3>1, <3>2 DEF Sourced
  <2> QED
    BY <2>1, <2>2
<1>4. ASSUME NEW other \in Held(snap[c].clients), TryAgain(c, other),
             UNCHANGED <<snap, endpoints>>
      PROVE  Sourced(c)'
  <2>1. tried[c] \in Seq(Client) /\ other \in Client
    BY DEF Held, TypeInv, TypeOK
  <2>2. tried'[c] = Append(tried[c], other) /\ pc'[c] = "call"
    BY <1>4 DEF TryAgain, TypeInv, TypeOK
  <2>3. Len(tried'[c]) = Len(tried[c]) + 1
    BY <2>1, <2>2
  <2>4. ASSUME NEW i \in 1..Len(tried'[c]) PROVE tried'[c][i] \in Held(snap[c].clients)
    BY <2>1, <2>2, <2>3 DEF Sourced
  <2> QED
    BY <1>4, <2>2, <2>4 DEF Sourced
<1>5. ASSUME NEW outcome, Finish(c, outcome), UNCHANGED <<snap, endpoints>>
      PROVE  Sourced(c)'
  BY <1>5 DEF Finish, Sourced, TypeInv, TypeOK
<1>6. CASE \E outcome \in {"ok", "error", "cancelled"} : Returns(c, outcome)
  BY <1>5, <1>6 DEF Returns
<1>7. CASE Unavailable(c)
  <2>1. CASE Len(tried[c]) = 1 /\ Len(endpoints[c]) >= 2
    <3>1. endpoints[c][2] \in Held(snap[c].clients)
      BY <2>1 DEF Sourced, TypeInv, TypeOK
    <3> QED
      BY <1>4, <1>7, <2>1, <3>1 DEF Unavailable
  <2>2. CASE ~(Len(tried[c]) = 1 /\ Len(endpoints[c]) >= 2)
    BY <1>5, <1>7, <2>2 DEF Unavailable
  <2> QED
    BY <2>1, <2>2
<1>8. ASSUME NEW route \in Targets \cup {NoTarget}, FailedPrecondition(c, route)
      PROVE  Sourced(c)'
  <2> DEFINE other == Get(snap[c].clients, route)
  <2>1. other # NoClient => other \in Held(snap[c].clients)
    BY DEF Get, Held
  <2>2. \/ other # NoClient /\ TryAgain(c, other)
        \/ Finish(c, "failed_precondition")
    BY <1>8 DEF FailedPrecondition, MayRedirect
  <2>3. UNCHANGED <<snap, endpoints>>
    BY <1>8 DEF FailedPrecondition
  <2> QED
    BY <1>4, <1>5, <2>1, <2>2, <2>3
<1> QED
  BY <1>1, <1>2, <1>3, <1>6, <1>7, <1>8 DEF Caller, CallStep

\* A step of another thread does not touch a caller's own variables.
LEMMA OthersLeaveLocals ==
    ASSUME TypeOK, [Next]_vars, NEW c \in Callers, ~Caller(c)
    PROVE  /\ pc'[c] = pc[c] /\ snap'[c] = snap[c] /\ tried'[c] = tried[c]
           /\ endpoints'[c] = endpoints[c] /\ result'[c] = result[c]
           /\ closing'[c] = closing[c] /\ call'[c] = call[c]
<1> DEFINE Kept == /\ pc'[c] = pc[c] /\ snap'[c] = snap[c] /\ tried'[c] = tried[c]
                   /\ endpoints'[c] = endpoints[c] /\ result'[c] = result[c]
                   /\ closing'[c] = closing[c] /\ call'[c] = call[c]
<1>1. CASE UNCHANGED vars
  BY <1>1 DEF vars, callerVars, locals
<1>2. CASE Refresher
  BY <1>2 DEF Refresher, LoopExit, StartRefresh, OpenChannel, SwapChannel, StreamFails,
     StreamDelivers, ApplyWhenClosed, ApplyWhenOpen, WaitInterval, Install, InstallFails,
     callerVars, locals
<1>3. ASSUME NEW d \in Callers, Caller(d), d # c
      PROVE  Kept
  <2>1. CASE EnterWhenClosed(d) \/ Enter(d) \/ ReadyTimeout(d) \/ CallClosed(d)
             \/ CallStarts(d) \/ Return(d)
    BY <1>3, <2>1 DEF TypeOK, EnterWhenClosed, Enter, ReadyTimeout, CallClosed, CallStarts,
       Return, locals
  <2>2. CASE Snapshot(d)
    BY <1>3, <2>2 DEF TypeOK, Snapshot
  <2>3. ASSUME NEW name \in Operations, NEW override \in Overrides,
               NEW hint \in Hints \cup {NoHint}, NEW coin \in BOOLEAN,
               Route(d, name, override, hint, coin)
        PROVE  Kept
    BY <1>3, <2>3 DEF TypeOK, Route
  <2>4. CASE \E outcome \in {"ok", "error", "cancelled"} : Returns(d, outcome)
    BY <1>3, <2>4 DEF TypeOK, Returns, Finish
  <2>5. CASE Unavailable(d)
    BY <1>3, <2>5 DEF TypeOK, Unavailable, Finish, TryAgain
  <2>6. CASE \E route \in Targets \cup {NoTarget} : FailedPrecondition(d, route)
    BY <1>3, <2>6 DEF TypeOK, FailedPrecondition, Finish, TryAgain
  <2>7. CASE Finally(d)
    BY <1>3, <2>7 DEF TypeOK, Finally, LastOut
  <2>8. CASE \E client \in closing[d] : CloseRetired(d, client)
    BY <1>3, <2>8 DEF TypeOK, CloseRetired, locals
  <2> HIDE DEF Kept
  <2> QED
    BY <1>3, <2>1, <2>2, <2>3, <2>4, <2>5, <2>6, <2>7, <2>8 DEF Caller, CallStep
<1>4. CASE \E k \in Closers : Closer(k)
  BY <1>4 DEF Closer, CloseStep, CloseAgain, CloseBegin, SetClosed, SetStop, Join,
     CloseChannel, ForgetChannel, CloseClients, DropRetired, callerVars, locals
<1> QED
  BY <1>1, <1>2, <1>3, <1>4 DEF Next

\* No step makes an operation call a client that is not in its snapshot.
LEMMA TriedStep ==
    ASSUME TypeInv, TriedFromSnapshot, [Next]_vars
    PROVE  TriedFromSnapshot'
<1> SUFFICES ASSUME NEW c \in Callers PROVE Sourced(c)'
  BY DEF TriedFromSnapshot
<1>1. Sourced(c)
  BY DEF TriedFromSnapshot
<1>2. CASE Caller(c)
  BY <1>1, <1>2, SourcedCaller
<1>3. CASE ~Caller(c)
  BY <1>1, <1>3, OthersLeaveLocals DEF Sourced, TypeInv
<1> QED
  BY <1>2, <1>3

\* An operation hands the clients it closes over in its finally block and leaves
\* with none.
LEMMA ClosingIsLastStep ==
    ASSUME TypeInv, ClosingIsLast, [Next]_vars
    PROVE  ClosingIsLast'
<1> SUFFICES ASSUME NEW c \in Callers, closing'[c] # {} PROVE pc'[c] = "closing"
  BY DEF ClosingIsLast
<1>1. closing[c] # {} => pc[c] = "closing"
  BY DEF ClosingIsLast
<1>2. CASE Caller(c)
  <2>1. CASE Finally(c)
    BY <2>1 DEF Finally, LastOut, TypeInv, TypeOK
  <2>2. CASE \E x \in closing[c] : CloseRetired(c, x)
    BY <2>2 DEF CloseRetired, TypeInv, TypeOK
  <2>3. CASE ~Finally(c) /\ ~\E x \in closing[c] : CloseRetired(c, x)
    <3>1. closing' = closing /\ (pc[c] # "closing" \/ closing[c] = {})
      <4>1. CASE EnterWhenClosed(c) \/ Enter(c) \/ ReadyTimeout(c) \/ Snapshot(c) \/ Return(c)
        BY <4>1 DEF EnterWhenClosed, Enter, ReadyTimeout, Snapshot, Return
      <4>2. ASSUME NEW name, NEW override, NEW hint, NEW coin,
                   Route(c, name, override, hint, coin)
            PROVE  closing' = closing /\ pc[c] # "closing"
        BY <4>2 DEF Route
      <4>3. CASE CallClosed(c) \/ CallStarts(c) \/ Unavailable(c)
                 \/ \E outcome \in {"ok", "error", "cancelled"} : Returns(c, outcome)
        BY <4>3 DEF CallClosed, CallStarts, Unavailable, Returns
      <4>4. ASSUME NEW route, FailedPrecondition(c, route)
            PROVE  closing' = closing /\ pc[c] # "closing"
        BY <4>4 DEF FailedPrecondition
      <4> QED
        BY <1>2, <2>3, <4>1, <4>2, <4>3, <4>4 DEF Caller, CallStep
    <3> QED
      BY <1>1, <3>1
  <2> QED
    BY <2>1, <2>2, <2>3
<1>3. CASE ~Caller(c)
  BY <1>1, <1>3, OthersLeaveLocals DEF TypeInv
<1> QED
  BY <1>2, <1>3

\* Somebody can still close every client that was created and not closed.
Reachable == Born \ dead \subseteq Held(clients) \cup retired \cup Closing

\* A refresh, complete or cut short, loses no client: each one that leaves the
\* dictionary is retired or closed, each one created is in the dictionary.
LEMMA ReachableInstall ==
    ASSUME TypeInv, Ownership, Reachable, Install \/ InstallFails
    PROVE  Reachable'
<1>1. PICK created \in SUBSET {t \in Targets : clients[t] = NoClient} :
         clients' = Updated(created) /\ made' = Count(created)
  <2>1. Missing \subseteq {t \in Targets : clients[t] = NoClient}
    BY TopologyTypes DEF Missing, Unserved, TypeInv, TypeOK
  <2> QED
    BY <2>1 DEF Install, InstallFails
<1>2. /\ Born' \subseteq Born \cup Held(clients')
      /\ Held(clients) \subseteq Held(clients') \cup Dropped
  BY <1>1, UpdatedTable DEF Ownership, TypeInv
<1>3. /\ UNCHANGED closing
      /\ dead \subseteq dead' /\ retired \cup Dropped \subseteq dead' \cup retired'
  BY DEF Install, CloseOrPark, InstallFails, Retiring, Dropped, callerVars
<1>4. Closing' = Closing
  BY <1>3 DEF Closing
<1> QED
  BY <1>2, <1>3, <1>4 DEF Reachable

\* No step loses a client, except that close() forgets _retired at its end.
LEMMA ReachableStep ==
    ASSUME TypeInv, ClosingIsLast, Ownership, Reachable, [Next]_vars,
           ~\E k \in Closers : DropRetired(k)
    PROVE  Reachable'
<1>1. ASSUME UNCHANGED <<clients, made, retired, dead, closing>>
      PROVE  Reachable'
  <2>1. Born' = Born /\ Closing' = Closing /\ Held(clients') = Held(clients)
    BY <1>1 DEF Born, Closing
  <2> QED
    BY <1>1, <2>1 DEF Reachable
<1>2. CASE UNCHANGED vars
  BY <1>1, <1>2 DEF vars, shared, directory, usage, callerVars
<1>3. CASE Install \/ InstallFails
  BY <1>3, ReachableInstall
<1>4. ASSUME NEW c \in Callers, Snapshot(c) PROVE Reachable'
  BY <1>1, <1>4 DEF Snapshot, directory
<1>5. ASSUME NEW c \in Callers, Finally(c) PROVE Reachable'
  <2>1. UNCHANGED <<clients, made, dead>> /\ closing[c] = {}
    BY <1>5 DEF Finally, LastOut, ClosingIsLast, directory
  <2>2. retired \cup Closing \subseteq retired' \cup Closing'
    <3>1. CASE active - 1 = 0
      <4>1. /\ closing'[c] = retired
            /\ \A d \in Callers : d # c => closing'[d] = closing[d]
        BY <1>5, <3>1 DEF Finally, LastOut, TypeInv, TypeOK
      <4> QED
        BY <2>1, <4>1 DEF Closing
    <3>2. CASE active - 1 # 0
      BY <1>5, <3>2 DEF Finally, LastOut, Closing
    <3> QED
      BY <3>1, <3>2
  <2>3. Born' = Born /\ Held(clients') = Held(clients)
    BY <2>1 DEF Born
  <2> QED
    BY <2>1, <2>2, <2>3 DEF Reachable
<1>6. ASSUME NEW c \in Callers, NEW x \in closing[c], CloseRetired(c, x)
      PROVE  Reachable'
  <2>1. /\ UNCHANGED <<clients, made, retired>>
        /\ dead' = dead \cup {x}
        /\ closing' = [closing EXCEPT ![c] = @ \ {x}]
    BY <1>6 DEF CloseRetired, directory
  <2>2. Born' = Born /\ Held(clients') = Held(clients)
    BY <2>1 DEF Born
  <2>3. Closing \subseteq Closing' \cup {x}
    <3> SUFFICES ASSUME NEW d \in Callers PROVE closing[d] \subseteq Closing' \cup {x}
      BY DEF Closing
    <3>1. closing[d] \subseteq closing'[d] \cup {x}
      BY <2>1 DEF TypeInv, TypeOK
    <3> QED
      BY <3>1 DEF Closing
  <2> QED
    BY <2>1, <2>2, <2>3 DEF Reachable
<1>7. ASSUME NEW k \in Closers, CloseClients(k) PROVE Reachable'
  <2>1. /\ UNCHANGED <<made, closing>>
        /\ dead' = dead \cup Held(clients) \cup retired
    BY <1>7 DEF CloseClients, Doomed, callerVars
  <2>2. Born' = Born /\ Closing' = Closing
    BY <2>1 DEF Born, Closing
  <2> QED
    BY <2>1, <2>2 DEF Reachable
<1> QED
  BY <1>1, <1>2, <1>3, <1>4, <1>5, <1>6, <1>7, LifetimeSteps DEF TypeInv

\* No step before close() loses a client.
LEMMA NoClientLostStep ==
    ASSUME TypeInv, ClosersFlagged, ClosingIsLast, Ownership, NoClientLost, [Next]_vars
    PROVE  NoClientLost'
<1>1. closed => closed'
  BY ClosersFlaggedStep DEF TypeInv
<1>2. ASSUME ~closed' PROVE ~\E k \in Closers : DropRetired(k)
  BY <1>1, <1>2 DEF DropRetired, ClosersFlagged
<1>3. ASSUME ~closed' PROVE Reachable'
  BY <1>1, <1>2, <1>3, ReachableStep DEF NoClientLost, Reachable
<1> QED
  BY <1>3 DEF NoClientLost, Reachable

\* An operation is refused or cut off by a closed client only after close() has
\* begun: what it calls is in its snapshot, and nothing in there is closed.
LEMMA CancelledStep ==
    ASSUME TypeInv, ClosersFlagged, Ownership, TriedFromSnapshot, CancelledOnlyByClose,
           [Next]_vars
    PROVE  CancelledOnlyByClose'
<1> SUFFICES ASSUME NEW c \in Callers, result'[c] = "cancelled" PROVE closed'
  BY DEF CancelledOnlyByClose
<1>1. closed => closed'
  BY ClosersFlaggedStep DEF TypeInv
<1>2. result[c] = "cancelled" => closed
  BY DEF CancelledOnlyByClose
<1>3. CASE Caller(c)
  <2>1. ASSUME pc[c] \in {"call", "rpc"}, Current(c) \in dead
        PROVE  closed
    <3>1. c \in InOperation
      BY <2>1 DEF InOperation
    <3>2. tried[c] \in Seq(Client) /\ tried[c] # <<>>
      BY <2>1 DEF TypeInv, TypeOK, CallHasNode
    <3>3. Len(tried[c]) \in 1..Len(tried[c])
      BY <3>2
    <3>4. Current(c) \in Held(snap[c].clients)
      BY <3>3 DEF Current, TriedFromSnapshot, Sourced
    <3> QED
      BY <2>1, <3>1, <3>4 DEF Ownership
  <2>2. CASE EnterWhenClosed(c)
    BY <1>1, <2>2 DEF EnterWhenClosed
  <2>3. CASE CallClosed(c)
    BY <1>1, <2>1, <2>3 DEF CallClosed
  <2>4. ASSUME NEW outcome \in {"ok", "error", "cancelled"}, Returns(c, outcome)
        PROVE  closed'
    <3>1. outcome = "cancelled"
      BY <2>4 DEF Returns, Finish, TypeInv, TypeOK
    <3> QED
      BY <1>1, <2>1, <2>4, <3>1 DEF Returns
  <2>5. CASE Enter(c) \/ ReadyTimeout(c) \/ Snapshot(c) \/ CallStarts(c) \/ Finally(c)
             \/ Return(c) \/ \E x \in closing[c] : CloseRetired(c, x)
    BY <1>1, <1>2, <2>5 DEF Enter, ReadyTimeout, Snapshot, CallStarts, Finally, LastOut, Return,
       CloseRetired, TypeInv, TypeOK
  <2>6. ASSUME NEW name \in Operations, NEW override \in Overrides,
               NEW hint \in Hints \cup {NoHint}, NEW coin \in BOOLEAN,
               Route(c, name, override, hint, coin)
        PROVE  closed'
    BY <1>1, <1>2, <2>6 DEF Route, TypeInv, TypeOK
  <2>7. CASE Unavailable(c)
    BY <1>1, <1>2, <2>7 DEF Unavailable, Finish, TryAgain, TypeInv, TypeOK
  <2>8. CASE \E route \in Targets \cup {NoTarget} : FailedPrecondition(c, route)
    BY <1>1, <1>2, <2>8 DEF FailedPrecondition, Finish, TryAgain, TypeInv, TypeOK
  <2> QED
    BY <1>3, <2>2, <2>3, <2>4, <2>5, <2>6, <2>7, <2>8 DEF Caller, CallStep
<1>4. CASE ~Caller(c)
  BY <1>1, <1>2, <1>4, OthersLeaveLocals DEF TypeInv
<1> QED
  BY <1>3, <1>4

-----------------------------------------------------------------------------
(* The inductive invariant and what follows from it. *)

SafetyInv ==
    /\ TypeInv /\ ActiveIsExact /\ ClosersFlagged /\ ClosingIsLast
    /\ Ownership /\ TriedFromSnapshot /\ NoClientLost /\ CancelledOnlyByClose

\* Before the first refresh nothing has been created, so nothing can be lost.
LEMMA SafetyInit == Init => SafetyInv
<1> SUFFICES ASSUME Init PROVE SafetyInv
  OBVIOUS
<1>1. InOperation = {} /\ active = 0
  BY DEF Init, InOperation
<1>2. TypeInv /\ ActiveIsExact
  BY <1>1, TypeInit, FS_EmptySet DEF ActiveIsExact
<1>3. Born = {} /\ Closing = {} /\ Held(clients) = {}
  <2>1. made = [t \in Targets |-> 0]
    BY DEF Init
  <2>2. \A x : x \notin Born
    <3> SUFFICES ASSUME NEW x, x \in Born PROVE FALSE
      OBVIOUS
    <3>1. x \in Client /\ x[2] <= made[x[1]]
      BY <2>1, BornIff
    <3> QED
      BY <2>1, <3>1 DEF Client
  <2> QED
    BY <2>2 DEF Init, Closing, Held, NoTable
<1>4. ClosersFlagged /\ ClosingIsLast /\ TriedFromSnapshot /\ CancelledOnlyByClose
  BY DEF Init, ClosersFlagged, ClosingIsLast, TriedFromSnapshot, Sourced,
     CancelledOnlyByClose
<1>5. Ownership /\ NoClientLost
  BY <1>1, <1>3 DEF Init, Ownership, Keyed, NoClientLost, NoTable
<1> QED
  BY <1>2, <1>4, <1>5 DEF SafetyInv

\* Every step of every thread preserves it.
LEMMA SafetyStep == SafetyInv /\ [Next]_vars => SafetyInv'
<1> SUFFICES ASSUME SafetyInv, [Next]_vars PROVE SafetyInv'
  OBVIOUS
<1> USE DEF SafetyInv
<1>1. TypeInv' /\ ActiveIsExact'
  BY TypeStep, ActiveStep
<1>2. ClosersFlagged' /\ ClosingIsLast' /\ TriedFromSnapshot'
  BY ClosersFlaggedStep, ClosingIsLastStep, TriedStep DEF TypeInv
<1>3. Ownership' /\ NoClientLost' /\ CancelledOnlyByClose'
  BY OwnershipStep, NoClientLostStep, CancelledStep
<1> QED
  BY <1>1, <1>2, <1>3

\* Hence it holds throughout.
LEMMA SafetyAlways == Spec => []SafetyInv
<1> QED
  BY SafetyInit, SafetyStep, PTL DEF Spec

\* However the refresher, the callers and the closers interleave: until close()
\* begins no operation in flight holds a closed node client (_active and
\* _retired), because every client has one place.
THEOREM SafeReclamation == Spec => [](InUseNeverClosed /\ Ownership)
<1>1. SafetyInv => InUseNeverClosed /\ Ownership
  BY DEF SafetyInv, Ownership, InUseNeverClosed
<1> QED
  BY <1>1, SafetyAlways, PTL

\* Refreshes that overlap operations without an idle moment leak no client: the
\* ones _apply_topology takes out of _clients stay in _retired, or with the caller
\* that took the list over, until they are closed.
THEOREM NothingLost == Spec => []NoClientLost
<1>1. SafetyInv => NoClientLost
  BY DEF SafetyInv
<1> QED
  BY <1>1, SafetyAlways, PTL

\* No operation fails because a refresh closed the node client it was routed to:
\* in _execute a cancellation means that close() has begun.
THEOREM OnlyCloseCancels == Spec => []CancelledOnlyByClose
<1>1. SafetyInv => CancelledOnlyByClose
  BY DEF SafetyInv
<1> QED
  BY <1>1, SafetyAlways, PTL

\* On every path out of _execute the operation is counted out of _active once.
THEOREM ExactCount == Spec => []ActiveIsExact
<1>1. SafetyInv => ActiveIsExact
  BY DEF SafetyInv
<1> QED
  BY <1>1, SafetyAlways, PTL

\* No operation is routed by a topology without shards: the modulo in _shard is
\* never by zero, whatever coordinators send and whenever _ready is seen.
THEOREM ShardsWhenReady == Spec => []ReadyHasShards
<1>1. SafetyInv => ReadyHasShards
  BY DEF SafetyInv, TypeInv
<1> QED
  BY <1>1, SafetyAlways, PTL
=============================================================================
