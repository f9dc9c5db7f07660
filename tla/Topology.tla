------------------------------ MODULE Topology ------------------------------
(***************************************************************************)
(* Pure routing algorithms of the smart clients (hurricache/grpc/          *)
(* smart_client.py): how the stream of coordinator responses becomes a     *)
(* topology, which shard a key belongs to and which nodes an operation may *)
(* try, in which order.  SmartClient composes these with the threads.      *)
(*                                                                         *)
(* A response is [max_shards, peerRouting], peerRouting a set of           *)
(* [target, role, partitionIds]: neither the order of the peers nor a      *)
(* duplicate of one changes what the code computes.  ValueErrors are the   *)
(* single value Invalid, since every caller treats them alike.             *)
(***************************************************************************)
EXTENDS Integers, Sequences, FiniteSets

CONSTANTS
    Targets,      \* cache node addresses a coordinator may name
    NoTarget      \* the empty string in the target field of a peer

ASSUME TargetAssumption == NoTarget \notin Targets

Roles == {"MASTER", "BACKUP"}

Modes == {"MASTER", "MASTER_THEN_BACKUP", "BACKUP", "LB_SMART"}

\* What _topology_from and _merge_topology raise.
Invalid == [max_shards |-> 0 - 1, routes |-> <<>>, targets |-> {}]

\* _EMPTY_TOPOLOGY
EmptyTopology == [max_shards |-> 0, routes |-> <<>>, targets |-> {}]

-----------------------------------------------------------------------------
(* _topology_from *)

Claims(peers) ==
    {<<p.role, s, p.target>> :
        p \in peers, s \in UNION {q.partitionIds : q \in peers}}

\* The (role, shard, target) triples the loop over peers and partitions visits.
RouteClaims(peers) ==
    {c \in Claims(peers) :
        \E p \in peers : p.role = c[1] /\ p.target = c[3] /\ c[2] \in p.partitionIds}

\* The loop's own errors: an unnamed target or unknown role, a shard
\* beyond max_shards, two targets for one (role, shard).
BadPeers(max_shards, peers) ==
    \/ \E p \in peers : p.target = NoTarget \/ p.role \notin Roles
    \/ \E c \in RouteClaims(peers) : ~(0 <= c[2] /\ c[2] < max_shards)
    \/ \E c, d \in RouteClaims(peers) :
          c[1] = d[1] /\ c[2] = d[2] /\ c[3] # d[3]

\* The routes dictionary: (role, shard) -> target.
Routes(peers) ==
    [rs \in {<<c[1], c[2]>> : c \in RouteClaims(peers)} |->
        (CHOOSE c \in RouteClaims(peers) : c[1] = rs[1] /\ c[2] = rs[2])[3]]

topology_from(max_shards, peers) ==
    IF max_shards <= 0 \/ BadPeers(max_shards, peers) \/ RouteClaims(peers) = {}
      THEN Invalid
      ELSE [max_shards |-> max_shards,
            routes     |-> Routes(peers),
            targets    |-> {p.target : p \in peers}]

-----------------------------------------------------------------------------
(* _merge_topology: the shard count is compared with the previous response *)
(* only where the previous one was not zero.                               *)

InconsistentShards(responses) ==
    \E i \in 2..Len(responses) :
        /\ responses[i - 1].max_shards # 0
        /\ responses[i - 1].max_shards # responses[i].max_shards

merge_topology(responses) ==
    IF responses = <<>> \/ InconsistentShards(responses)
      THEN Invalid
      ELSE topology_from(responses[Len(responses)].max_shards,
                         UNION {responses[i].peerRouting : i \in 1..Len(responses)})

-----------------------------------------------------------------------------
(* _shard and the choice of endpoints in _execute.  A hint is a weak hash  *)
(* in 0..HashSpace-1, or NoHint (no hint, or one without a weak hash).     *)

\* The target a role has for a shard, NoTarget where the dictionary has none.
RouteOf(topology, role, shard) ==
    IF <<role, shard>> \in DOMAIN topology.routes
      THEN topology.routes[<<role, shard>>]
      ELSE NoTarget

\* Mutant: writes have no mode of their own.
ModeFor_AsConfigured(override, is_write, configured) ==
    IF override # "NONE" THEN override ELSE configured

\* mode_override.get() or else the default for the operation (lines 264-266).
ModeFor(override, is_write, configured) ==
    IF override # "NONE" THEN override
    ELSE IF is_write THEN "MASTER_THEN_BACKUP" ELSE configured

\* Lines 270-279: the endpoints list for a master and a backup client, none
\* standing for None.  coin is random.getrandbits(1), drawn only by LB_SMART.
EndpointsFor(master, backup, none, mode, coin) ==
    IF master = none \/ backup = none \/ master = backup
      THEN <<IF master # none THEN master ELSE backup>>
    ELSE CASE mode = "MASTER"            -> <<master>>
           [] mode = "BACKUP"            -> <<backup>>
           [] mode = "LB_SMART" /\ coin  -> <<backup, master>>
           [] OTHER                      -> <<master, backup>>

-----------------------------------------------------------------------------
(* The dictionary of node clients, _clients, and the copies operations     *)
(* take of it.  A client is the pair <<target, n>>: the n-th direct client *)
(* created for that target.                                                *)

Client == Targets \X (Nat \ {0})
NoClient == <<NoTarget, 0>>
NoTable == [t \in Targets |-> NoClient]
NoSnap == [topology |-> EmptyTopology, clients |-> NoTable]

\* clients.get(target) of a dictionary that has no entry for the empty string.
Get(table, target) == IF target \in Targets THEN table[target] ELSE NoClient

\* The client objects a dictionary holds.
Held(table) == {table[t] : t \in Targets} \ {NoClient}

\* _apply_topology: the targets that lose their client, those that need one, the
\* dictionary and the number of clients made when "created" have got theirs.
Absent(table, targets) == {t \in Targets : table[t] # NoClient /\ t \notin targets}
Unserved(table, targets) == {t \in targets : table[t] = NoClient}

TableWith(table, made, targets, created) ==
    [t \in Targets |->
        IF t \in Absent(table, targets) THEN NoClient
        ELSE IF t \in created THEN <<t, made[t] + 1>> ELSE table[t]]

MadeWith(made, created) ==
    [t \in Targets |-> IF t \in created THEN made[t] + 1 ELSE made[t]]
=============================================================================
