----------------------------- MODULE Scenarios ------------------------------
(***************************************************************************)
(* What coordinators may answer in the runs: topologies over the cache     *)
(* nodes a and b, and a node whose address is malformed.                   *)
(***************************************************************************)
EXTENDS Topology

CONSTANTS a, b, bad

Peer(target, role, shards) == [target |-> target, role |-> role, partitionIds |-> shards]
Response(max, peers) == [max_shards |-> max, peerRouting |-> peers]

\* a is the master and b the backup of the only shard.
Pair == <<Response(1, {Peer(a, "MASTER", {0}), Peer(b, "BACKUP", {0})})>>

\* Failover: a is gone, b is the master.
Failover == <<Response(1, {Peer(b, "MASTER", {0})})>>

\* Two shards announced by two coordinators' responses; a is the master of one
\* and the backup of the other.
TwoShards == <<Response(2, {Peer(a, "MASTER", {0}), Peer(b, "BACKUP", {0})}),
               Response(2, {Peer(b, "MASTER", {1}), Peer(a, "BACKUP", {1})})>>

\* Shard 1 has no node at all, shard 0 only a backup.
Holes == <<Response(2, {Peer(b, "BACKUP", {0})})>>

\* Two responses that disagree about the number of shards.
Disagree == <<Response(1, {Peer(a, "MASTER", {0})}), Response(2, {Peer(b, "MASTER", {1})})>>

\* A node whose address has no port, beside the failed-over master.
Malformed == <<Response(1, {Peer(b, "MASTER", {0}), Peer(bad, "BACKUP", {0})})>>

FlipFlop == {Pair, Failover, Disagree}
Sharded == {TwoShards, Holes, Failover}
WithMalformed == {Pair, Malformed}
MalformedFlipFlop == {Pair, Failover, Malformed}
=============================================================================
