---------------------------- MODULE SmartClient -----------------------------
(***************************************************************************)
(* The synchronous smart client, HurriCacheSmartClient (hurricache/grpc/   *)
(* smart_client.py): the threads that share one instance.                  *)
(*                                                                         *)
(*   refresher   the daemon thread of _refresh_loop: asks the coordinators *)
(*               in rotation, installs the topology they describe          *)
(*   callers     application threads inside a routed operation (_execute)  *)
(*   closers     threads that call close()                                 *)
(*                                                                         *)
(* Everything done inside one "with self._lock" block that no lock-free    *)
(* code can observe half way is one action; close() holds the lock over    *)
(* two, because _refresh_once swaps the coordinator channel without it.    *)
(* A coordinator channel is the value _coordinator_index had after it was  *)
(* opened.                                                                 *)
(***************************************************************************)
EXTENDS Topology

CONSTANTS
    Callers,          \* threads that execute operations
    Closers,          \* threads that call close()
    NumCoordinators,  \* len(self._coordinators)
    Healthy,          \* positions of coordinators that always answer
    Streams,          \* sequences of responses a coordinator may send
    BadTargets,       \* targets _split_target rejects (not host:port)
    Operations,       \* names of operations the callers execute
    Overrides,        \* caller-local modes, "NONE" when there is none
    ConfiguredMode,   \* the mode given to the constructor
    Hints,            \* weak hashes the callers pass
    NoHint,           \* no hint, or a hint without a weak hash
    HashModulus,      \* 2^32 in the code: weak hashes are masked to it
    CounterModulus,   \* 2^31 in the code: the round-robin counter wraps there
    MaxRefreshes      \* bound: refresh rounds explored

PeerType == [target : Targets \cup {NoTarget},
             role : Roles \cup {"UNKNOWN"},
             partitionIds : SUBSET Nat]

ASSUME CallerAssumption == IsFiniteSet(Callers)
ASSUME CoordinatorAssumption == NumCoordinators \in Nat \ {0}
ASSUME StreamAssumption ==
    \A s \in Streams :
        s \in Seq([max_shards : Nat, peerRouting : SUBSET PeerType])
ASSUME HashAssumption ==
    /\ Hints \subseteq Int
    /\ NoHint \notin Hints
    /\ HashModulus \in Nat \ {0}
    /\ CounterModulus \in Nat \ {0}
ASSUME ModeAssumption ==
    /\ ConfiguredMode \in Modes
    /\ Overrides \subseteq Modes \cup {"NONE"}
ASSUME RefreshAssumption == MaxRefreshes \in Nat

VARIABLES
    closed, stop,                       \* _closed, _stop
    lock,                               \* the closer that holds _lock, or Free
    topology, ready,                    \* _topology, _ready
    clients, retired, active,           \* _clients, _retired, _active
    random_shard,                       \* _random_shard
    coordinator_index, coordinator_channel,
    made,                               \* clients created so far, per target
    dead,                               \* clients that have been closed
    open_channels,                      \* coordinator channels not closed
    thread, attempt, old_channel, pending, refreshes, \* the refresher
    pc, snap, call, endpoints, tried, result, closing, \* the callers
    closer, join_timed_out              \* the closers

flags == <<closed, stop, lock>>
directory == <<topology, ready, clients, made>>
usage == <<retired, active, dead>>
channels == <<coordinator_index, coordinator_channel, open_channels>>
shared == <<flags, directory, usage, channels, random_shard>>
refresherVars == <<thread, attempt, old_channel, pending, refreshes>>
locals == <<snap, call, endpoints, tried>>
callerVars == <<locals, pc, result, closing>>
closerVars == <<closer, join_timed_out>>
vars == <<shared, refresherVars, callerVars, closerVars>>

-----------------------------------------------------------------------------
Free == "free"

\* Every client object created so far.
Born == UNION {{<<t, n>> : n \in 1..made[t]} : t \in Targets}

NoCall == [name |-> "none", override |-> "NONE", shard |-> 0]

\* Callers between the increment and the decrement of _active.
InOperation == {c \in Callers : pc[c] \in {"route", "call", "rpc", "finally"}}

Init ==
    /\ closed = FALSE /\ stop = FALSE /\ lock = Free
    /\ topology = EmptyTopology /\ ready = FALSE
    /\ clients = NoTable /\ retired = {} /\ active = 0
    /\ random_shard = 0
    /\ coordinator_index = 0 /\ coordinator_channel = 0
    /\ made = [t \in Targets |-> 0] /\ dead = {}
    /\ open_channels = {}
    /\ thread = "loop" /\ attempt = 0 /\ old_channel = 0
    /\ pending = EmptyTopology /\ refreshes = 0
    /\ pc = [c \in Callers |-> "idle"]
    /\ snap = [c \in Callers |-> NoSnap]
    /\ call = [c \in Callers |-> NoCall]
    /\ endpoints = [c \in Callers |-> <<>>]
    /\ tried = [c \in Callers |-> <<>>]
    /\ result = [c \in Callers |-> "none"]
    /\ closing = [c \in Callers |-> {}]
    /\ closer = [k \in Closers |-> "idle"]
    /\ join_timed_out = FALSE

-----------------------------------------------------------------------------
(* The refresher: _refresh_loop, _refresh_once, _apply_topology.           *)

\* while not self._stop.is_set()
LoopExit ==
    /\ thread = "loop" /\ stop
    /\ thread' = "dead"
    /\ UNCHANGED <<shared, callerVars, closerVars, attempt, old_channel, pending,
                   refreshes>>

StartRefresh ==
    /\ thread = "loop" /\ ~stop
    /\ refreshes < MaxRefreshes
    /\ thread' = "attempt" /\ attempt' = 1 /\ refreshes' = refreshes + 1
    /\ UNCHANGED <<shared, callerVars, closerVars, old_channel, pending>>

\* Rotate to the next coordinator and open a channel to it (lines 187-190).
OpenChannel ==
    /\ thread = "attempt"
    /\ coordinator_index' = coordinator_index + 1
    /\ open_channels' = open_channels \cup {coordinator_index + 1}
    /\ old_channel' = coordinator_channel
    /\ thread' = "swap"
    /\ UNCHANGED <<flags, directory, usage, callerVars, closerVars,
                   coordinator_channel, random_shard, attempt, pending, refreshes>>

\* Publish the channel, close the one read before (lines 191-193).  No lock.
SwapChannel ==
    /\ thread = "swap"
    /\ coordinator_channel' = coordinator_index
    /\ open_channels' = open_channels \ {old_channel}
    /\ old_channel' = 0
    /\ thread' = "stream"
    /\ UNCHANGED <<flags, directory, usage, callerVars, closerVars, coordinator_index,
                   random_shard, attempt, pending, refreshes>>

\* Mutant: one attempt too many.
RetryOrGiveUp_Late ==
    IF attempt <= NumCoordinators
      THEN thread' = "attempt" /\ attempt' = attempt + 1
      ELSE thread' = "wait" /\ attempt' = 0

\* An exception inside "with attempt": tenacity sleeps and tries again, and
\* after len(coordinators) attempts _refresh_loop swallows it.
RetryOrGiveUp ==
    IF attempt < NumCoordinators
      THEN thread' = "attempt" /\ attempt' = attempt + 1
      ELSE thread' = "wait" /\ attempt' = 0

\* Mutant: the first coordinator of the list, always.
CurrentCoordinator_First == 0

\* Position of the coordinator the latest channel leads to.
CurrentCoordinator == (coordinator_index - 1) % NumCoordinators

\* The stream breaks, or merge_topology rejects what it carried; a healthy
\* coordinator only fails on a channel that was closed under it.
StreamFails ==
    /\ thread = "stream"
    /\ \/ CurrentCoordinator \notin Healthy
       \/ coordinator_index \notin open_channels
    /\ RetryOrGiveUp
    /\ UNCHANGED <<shared, callerVars, closerVars, old_channel, pending,
                   refreshes>>

StreamDelivers ==
    /\ thread = "stream"
    /\ coordinator_index \in open_channels
    /\ \E s \in Streams :
          /\ merge_topology(s) # Invalid
          /\ pending' = merge_topology(s)
    /\ thread' = "apply"
    /\ UNCHANGED <<shared, callerVars, closerVars, attempt, old_channel,
                   refreshes>>

\* "if self._closed: return", before the lock is taken (lines 208-209).
ApplyWhenClosed ==
    /\ thread = "apply" /\ closed
    /\ thread' = "wait" /\ attempt' = 0 /\ pending' = EmptyTopology
    /\ UNCHANGED <<shared, callerVars, closerVars, old_channel, refreshes>>

ApplyWhenOpen ==
    /\ thread = "apply" /\ ~closed
    /\ thread' = "install"
    /\ UNCHANGED <<shared, callerVars, closerVars, attempt, old_channel, pending,
                   refreshes>>

\* Mutant: clients are created by the first refresh only.
Missing_FirstTime == {t \in pending.targets : clients[t] = NoClient /\ ~ready}

\* Mutant: the list of retired clients starts afresh.
Retiring_Afresh == {clients[t] : t \in {u \in Targets : clients[u] # NoClient
                                           /\ u \notin pending.targets}}

\* Lines 211-221: the targets that go, those that need a client, and the
\* clients waiting to be closed when the former are added.
Removed == Absent(clients, pending.targets)
Missing == Unserved(clients, pending.targets)
Retiring == retired \cup {clients[t] : t \in Removed}

\* The dictionary after removing the absent targets and creating new ones.
Updated(created) == TableWith(clients, made, pending.targets, created)
Count(created) == MadeWith(made, created)

\* Mutants: _active is not looked at; nothing is ever closed by a refresh.
CloseOrPark_Close == dead' = dead \cup Retiring /\ retired' = {}
CloseOrPark_Park == dead' = dead /\ retired' = Retiring

\* The retired clients are closed at once when no operation is in flight, and
\* are left to the last operation otherwise.
CloseOrPark ==
    IF active = 0
      THEN dead' = dead \cup Retiring /\ retired' = {}
      ELSE dead' = dead /\ retired' = Retiring

\* Lines 210-232: retire, create, publish, close.
Install ==
    /\ thread = "install" /\ lock = Free
    /\ Missing \cap BadTargets = {}
    /\ clients' = Updated(Missing)
    /\ made' = Count(Missing)
    /\ topology' = pending /\ ready' = TRUE
    /\ CloseOrPark
    /\ thread' = "wait" /\ attempt' = 0 /\ pending' = EmptyTopology
    /\ UNCHANGED <<flags, channels, callerVars, closerVars, active,
                   random_shard, old_channel, refreshes>>

\* _split_target raises on a malformed target: the clients that came before it
\* in the iteration over the set exist, the removed ones are retired, and the
\* topology is still the old one.
InstallFails ==
    /\ thread = "install" /\ lock = Free
    /\ Missing \cap BadTargets # {}
    /\ \E created \in SUBSET (Missing \ BadTargets) :
          clients' = Updated(created) /\ made' = Count(created)
    /\ retired' = Retiring
    /\ RetryOrGiveUp
    /\ pending' = EmptyTopology
    /\ UNCHANGED <<flags, channels, callerVars, closerVars, topology, ready,
                   active, dead, random_shard, old_channel, refreshes>>

\* self._stop.wait(self._refresh_interval)
WaitInterval ==
    /\ thread = "wait"
    /\ thread' = "loop"
    /\ UNCHANGED <<shared, callerVars, closerVars, attempt, old_channel, pending,
                   refreshes>>

Refresher ==
    \/ LoopExit \/ StartRefresh \/ OpenChannel \/ SwapChannel
    \/ StreamFails \/ StreamDelivers
    \/ ApplyWhenClosed \/ ApplyWhenOpen \/ Install \/ InstallFails
    \/ WaitInterval

-----------------------------------------------------------------------------
(* A caller inside _execute.                                               *)

\* operation(): a closed client raises CancelledError at once.
EnterWhenClosed(c) ==
    /\ pc[c] = "idle" /\ closed
    /\ result' = [result EXCEPT ![c] = "cancelled"]
    /\ UNCHANGED <<shared, refresherVars, locals, closerVars, pc, closing>>

Enter(c) ==
    /\ pc[c] = "idle" /\ ~closed
    /\ pc' = [pc EXCEPT ![c] = "wait"]
    /\ result' = [result EXCEPT ![c] = "none"]
    /\ UNCHANGED <<shared, refresherVars, locals, closerVars, closing>>

\* Mutant: the wait has no timeout, only readiness ends it.
ReadyTimeout_Never(c) ==
    /\ pc[c] = "wait" /\ ready
    /\ pc' = [pc EXCEPT ![c] = "idle"]
    /\ result' = [result EXCEPT ![c] = "timeout"]
    /\ UNCHANGED <<shared, refresherVars, locals, closerVars, closing>>

\* wait_until_ready runs out of time, or the operation's deadline passes.
ReadyTimeout(c) ==
    /\ pc[c] = "wait"
    /\ pc' = [pc EXCEPT ![c] = "idle"]
    /\ result' = [result EXCEPT ![c] = "timeout"]
    /\ UNCHANGED <<shared, refresherVars, locals, closerVars, closing>>

\* Mutant: the answer of _ready.wait is not looked at.
ReadySeen_Anyway == TRUE

\* wait_until_ready returned True.
ReadySeen == ready

\* Lines 257-260: count the operation and copy topology and clients.
Snapshot(c) ==
    /\ pc[c] = "wait" /\ ReadySeen /\ lock = Free
    /\ active' = active + 1
    /\ snap' = [snap EXCEPT ![c] = [topology |-> topology, clients |-> clients]]
    /\ pc' = [pc EXCEPT ![c] = "route"]
    /\ UNCHANGED <<flags, directory, channels, refresherVars, closerVars, retired,
                   dead, random_shard, call, endpoints, tried, result,
                   closing>>

NextRandom == (random_shard + 1) % CounterModulus

\* _WRITE_OPERATIONS
WriteOperations ==
    {"add_element", "add_element_hash_map", "add_element_ordered",
    "add_element_ordered_map", "add_element_ordered_set", "add_element_to_head",
    "add_element_to_head_count", "add_element_to_position",
    "add_element_to_position_after", "add_element_to_position_after_count",
    "add_element_to_position_before", "add_element_to_position_before_count",
    "add_element_to_position_by_value", "add_element_to_position_by_value_count",
    "add_element_to_tail", "add_element_to_tail_count", "add_element_unordered",
    "add_element_with_weight", "atomic_add", "atomic_and", "atomic_compare_and_set",
    "atomic_create", "atomic_exchange", "atomic_load_and_delete", "atomic_or",
    "atomic_store", "atomic_sub", "atomic_xor", "get_and_delete_value",
    "get_and_delete_value_in_container", "get_and_remove_container_value",
    "get_and_remove_element_at_position", "get_and_remove_front", "get_and_remove_tail",
    "lock_object", "remove_container_key", "remove_element_at_position",
    "remove_from_container", "remove_from_container_by_key_value", "remove_head",
    "remove_in_container", "remove_tail", "set_ttl", "unlock_object",
    "update_container_value", "update_value_in_container"}

\* Mutant: one name is missing.
is_write_Incomplete(name) == name \in WriteOperations \ {"atomic_add"}

\* _is_write
is_write(name) == name \in WriteOperations

\* The endpoints of an operation on the caller's snapshot.
Candidates(c, name, override, shard, coin) ==
    LET table  == snap[c].clients
        master == Get(table, RouteOf(snap[c].topology, "MASTER", shard))
        backup == Get(table, RouteOf(snap[c].topology, "BACKUP", shard))
    IN EndpointsFor(master, backup, NoClient,
                    ModeFor(override, is_write(name), ConfiguredMode), coin)

\* Lines 262-282: hint, mode, shard, endpoints.  Without a hint _shard takes
\* the lock again for the round-robin counter.
Route(c, name, override, hint, coin) ==
    LET modulus == snap[c].topology.max_shards
        shard == IF hint = NoHint THEN NextRandom % modulus
                                  ELSE (hint % HashModulus) % modulus
        found == Candidates(c, name, override, shard, coin)
    IN
    /\ pc[c] = "route"
    /\ IF hint = NoHint
         THEN lock = Free /\ random_shard' = NextRandom
         ELSE UNCHANGED random_shard
    /\ call' = [call EXCEPT ![c] = [name |-> name, override |-> override, shard |-> shard]]
    /\ IF found[1] = NoClient
         THEN /\ pc' = [pc EXCEPT ![c] = "finally"]
              /\ result' = [result EXCEPT ![c] = "unavailable"]
              /\ UNCHANGED <<endpoints, tried>>
         ELSE /\ pc' = [pc EXCEPT ![c] = "call"]
              /\ endpoints' = [endpoints EXCEPT ![c] = found]
              /\ tried' = [tried EXCEPT ![c] = <<found[1]>>]
              /\ UNCHANGED result
    /\ UNCHANGED <<flags, directory, usage, channels, refresherVars, closerVars, snap,
                   closing>>

\* The client the caller is talking to.
Current(c) == tried[c][Len(tried[c])]

\* operation() of the direct client: refused when that client is closed.
CallClosed(c) ==
    /\ pc[c] = "call" /\ Current(c) \in dead
    /\ pc' = [pc EXCEPT ![c] = "finally"]
    /\ result' = [result EXCEPT ![c] = "cancelled"]
    /\ UNCHANGED <<shared, refresherVars, locals, closerVars, closing>>

\* The RPC starts; DirectClient has the connection it opens.
CallStarts(c) ==
    /\ pc[c] = "call" /\ Current(c) \notin dead
    /\ pc' = [pc EXCEPT ![c] = "rpc"]
    /\ UNCHANGED <<shared, refresherVars, locals, closerVars, result, closing>>

\* Mutant: the operation returns around the finally block.
Finish_Early(c, outcome) ==
    /\ pc' = [pc EXCEPT ![c] = "idle"]
    /\ result' = [result EXCEPT ![c] = outcome]
    /\ UNCHANGED tried

\* The operation is over, with a value or an exception.
Finish(c, outcome) ==
    /\ pc' = [pc EXCEPT ![c] = "finally"]
    /\ result' = [result EXCEPT ![c] = outcome]
    /\ UNCHANGED tried

\* Mutant: the second call is not told apart from the first.
TryAgain_Forgetful(c, other) ==
    /\ pc' = [pc EXCEPT ![c] = "call"]
    /\ tried' = [tried EXCEPT ![c] = <<other>>]
    /\ UNCHANGED result

\* The operation is sent once more, to another client.
TryAgain(c, other) ==
    /\ pc' = [pc EXCEPT ![c] = "call"]
    /\ tried' = [tried EXCEPT ![c] = Append(@, other)]
    /\ UNCHANGED result

\* The RPC succeeds, or fails in a way _execute does not handle (deadline,
\* not found, PartialOperationError, ...).
Returns(c, outcome) ==
    /\ pc[c] = "rpc"
    /\ outcome \in {"ok", "error"} \/ (outcome = "cancelled" /\ Current(c) \in dead)
    /\ Finish(c, outcome)
    /\ UNCHANGED <<shared, refresherVars, closerVars, snap, call, endpoints,
                   closing>>

\* UnavailableError: the second endpoint, if there is one and this was the first.
Unavailable(c) ==
    /\ pc[c] = "rpc"
    /\ IF Len(tried[c]) = 1 /\ Len(endpoints[c]) >= 2
         THEN TryAgain(c, endpoints[c][2])
         ELSE Finish(c, "unavailable")
    /\ UNCHANGED <<shared, refresherVars, closerVars, snap, call, endpoints,
                   closing>>

\* Mutant: a node that names itself is asked again.
MayRedirect_Itself(c, other) == Len(tried[c]) = 1 /\ other # NoClient

\* Only the first failure is redirected, to a client that is known and another.
MayRedirect(c, other) ==
    Len(tried[c]) = 1 /\ other # NoClient /\ other # Current(c)

\* FailedPreconditionError: the client of the snapshot the trailer names.
FailedPrecondition(c, route) ==
    LET other == Get(snap[c].clients, route) IN
    /\ pc[c] = "rpc"
    /\ IF MayRedirect(c, other)
         THEN TryAgain(c, other)
         ELSE Finish(c, "failed_precondition")
    /\ UNCHANGED <<shared, refresherVars, closerVars, snap, call, endpoints,
                   closing>>

\* Mutant: the last operation empties the list and forgets what was on it.
LastOut_Drops(c) == retired' = {} /\ UNCHANGED closing

\* The last operation out takes the retired clients, to close them.
LastOut(c) == retired' = {} /\ closing' = [closing EXCEPT ![c] = retired]

\* The finally block, under the lock (lines 297-301).
Finally(c) ==
    /\ pc[c] = "finally" /\ lock = Free
    /\ active' = active - 1
    /\ IF active - 1 = 0 THEN LastOut(c) ELSE UNCHANGED <<retired, closing>>
    /\ pc' = [pc EXCEPT ![c] = "closing"]
    /\ snap' = [snap EXCEPT ![c] = NoSnap]
    /\ call' = [call EXCEPT ![c] = NoCall]
    /\ endpoints' = [endpoints EXCEPT ![c] = <<>>]
    /\ tried' = [tried EXCEPT ![c] = <<>>]
    /\ UNCHANGED <<flags, directory, channels, refresherVars, closerVars,
                   dead, random_shard, result>>

\* "for client in retired: client.close()", after the lock is released.
CloseRetired(c, client) ==
    /\ pc[c] = "closing" /\ client \in closing[c]
    /\ dead' = dead \cup {client}
    /\ closing' = [closing EXCEPT ![c] = @ \ {client}]
    /\ UNCHANGED <<flags, directory, channels, refresherVars, locals, closerVars,
                   retired, active, random_shard, pc, result>>

Return(c) ==
    /\ pc[c] = "closing" /\ closing[c] = {}
    /\ pc' = [pc EXCEPT ![c] = "idle"]
    /\ UNCHANGED <<shared, refresherVars, locals, closerVars, result, closing>>

CallStep(c) ==
    \/ ReadyTimeout(c) \/ Snapshot(c)
    \/ \E name \in Operations, override \in Overrides,
          hint \in Hints \cup {NoHint}, coin \in BOOLEAN :
              Route(c, name, override, hint, coin)
    \/ CallClosed(c) \/ CallStarts(c)
    \/ \E outcome \in {"ok", "error", "cancelled"} : Returns(c, outcome)
    \/ Unavailable(c)
    \/ \E route \in Targets \cup {NoTarget} : FailedPrecondition(c, route)
    \/ Finally(c)
    \/ \E client \in closing[c] : CloseRetired(c, client)
    \/ Return(c)

Caller(c) == EnterWhenClosed(c) \/ Enter(c) \/ CallStep(c)

-----------------------------------------------------------------------------
(* A thread inside close().  Neither the test nor the assignment of        *)
(* _closed is under the lock.                                              *)

CloseAgain(k) ==
    /\ closer[k] = "idle" /\ closed
    /\ closer' = [closer EXCEPT ![k] = "returned"]
    /\ UNCHANGED <<shared, refresherVars, callerVars, join_timed_out>>

CloseBegin(k) ==
    /\ closer[k] = "idle" /\ ~closed
    /\ closer' = [closer EXCEPT ![k] = "flag"]
    /\ UNCHANGED <<shared, refresherVars, callerVars, join_timed_out>>

SetClosed(k) ==
    /\ closer[k] = "flag"
    /\ closed' = TRUE
    /\ closer' = [closer EXCEPT ![k] = "stop"]
    /\ UNCHANGED <<directory, usage, channels, refresherVars, callerVars, stop, lock,
                   random_shard, join_timed_out>>

SetStop(k) ==
    /\ closer[k] = "stop"
    /\ stop' = TRUE
    /\ closer' = [closer EXCEPT ![k] = "join"]
    /\ UNCHANGED <<directory, usage, channels, refresherVars, callerVars, closed, lock,
                   random_shard, join_timed_out>>

\* self._thread.join(timeout=min(3.0, interval + 0.1)).  The refresher may still
\* be inside an RPC or a retry pause when the timeout ends the join.
Join(k) ==
    /\ closer[k] = "join"
    /\ closer' = [closer EXCEPT ![k] = "lock"]
    /\ join_timed_out' = (join_timed_out \/ thread # "dead")
    /\ UNCHANGED <<shared, refresherVars, callerVars>>

\* Lock acquired; "if channel is not None: channel.close()".
CloseChannel(k) ==
    /\ closer[k] = "lock" /\ lock = Free
    /\ lock' = k
    /\ open_channels' = open_channels \ {coordinator_channel}
    /\ closer' = [closer EXCEPT ![k] = IF coordinator_channel = 0 THEN "clients" ELSE "forget"]
    /\ UNCHANGED <<directory, usage, refresherVars, callerVars, closed, stop,
                   coordinator_index, coordinator_channel, random_shard,
                   join_timed_out>>

\* self._coordinator_channel = None, whichever channel it names by now.
ForgetChannel(k) ==
    /\ closer[k] = "forget" /\ lock = k
    /\ coordinator_channel' = 0
    /\ closer' = [closer EXCEPT ![k] = "clients"]
    /\ UNCHANGED <<flags, directory, usage, refresherVars, callerVars, coordinator_index,
                   open_channels, random_shard, join_timed_out>>

\* Mutant: only the clients in the dictionary are closed.
Doomed_Current == Held(clients)

\* [*self._clients.values(), *self._retired]
Doomed == Held(clients) \cup retired

\* Close every client, clear the dictionary, release the lock.
CloseClients(k) ==
    /\ closer[k] = "clients" /\ lock = k
    /\ dead' = dead \cup Doomed
    /\ clients' = NoTable
    /\ lock' = Free
    /\ closer' = [closer EXCEPT ![k] = "drop"]
    /\ UNCHANGED <<refresherVars, callerVars, channels, closed, stop, topology, ready,
                   made, retired, active, random_shard, join_timed_out>>

\* self._retired = [], after the lock has been released (line 328).
DropRetired(k) ==
    /\ closer[k] = "drop"
    /\ retired' = {}
    /\ closer' = [closer EXCEPT ![k] = "done"]
    /\ UNCHANGED <<flags, directory, channels, refresherVars, callerVars, active,
                   dead, random_shard, join_timed_out>>

CloseStep(k) ==
    \/ SetClosed(k) \/ SetStop(k) \/ Join(k)
    \/ CloseChannel(k) \/ ForgetChannel(k) \/ CloseClients(k) \/ DropRetired(k)

Closer(k) == CloseAgain(k) \/ CloseBegin(k) \/ CloseStep(k)

-----------------------------------------------------------------------------
Next ==
    \/ Refresher
    \/ \E c \in Callers : Caller(c)
    \/ \E k \in Closers : Closer(k)

\* The threads are preemptively scheduled and the waits are timed.  RPCs are
\* assumed to end: the client gives each a timeout, unless the application passes
\* timeout=None and the node never answers.  Starting an operation or a close is
\* the application's choice.
Fairness ==
    /\ WF_vars(Refresher)
    /\ \A c \in Callers : WF_vars(CallStep(c))
    /\ \A k \in Closers : WF_vars(CloseStep(k))

Spec == Init /\ [][Next]_vars

FairSpec == Spec /\ Fairness

-----------------------------------------------------------------------------
(* Properties.                                                             *)

Topologies == ({merge_topology(s) : s \in Streams} \ {Invalid}) \cup {EmptyTopology}

Outcomes == {"none", "ok", "error", "unavailable", "failed_precondition",
             "cancelled", "timeout"}

\* Every variable holds a value of the kind the code stores in it.
TypeOK ==
    /\ closed \in BOOLEAN /\ stop \in BOOLEAN /\ ready \in BOOLEAN
    /\ lock \in Closers \cup {Free}
    /\ topology \in Topologies /\ pending \in Topologies
    /\ clients \in [Targets -> Client \cup {NoClient}]
    /\ retired \subseteq Client /\ dead \subseteq Client
    /\ active \in Nat /\ random_shard \in Nat
    /\ coordinator_index \in Nat /\ coordinator_channel \in Nat /\ old_channel \in Nat
    /\ made \in [Targets -> Nat]
    /\ open_channels \subseteq Nat
    /\ thread \in {"loop", "attempt", "swap", "stream", "apply", "install", "wait", "dead"}
    /\ attempt \in 0..NumCoordinators /\ refreshes \in Nat
    /\ pc \in [Callers -> {"idle", "wait", "route", "call", "rpc", "finally", "closing"}]
    /\ snap \in [Callers -> [topology : Topologies,
                             clients : [Targets -> Client \cup {NoClient}]]]
    /\ call \in [Callers -> [name : Operations \cup {"none"},
                             override : Overrides \cup {"NONE"}, shard : Int]]
    /\ endpoints \in [Callers -> Seq(Client)]
    /\ tried \in [Callers -> Seq(Client)]
    /\ result \in [Callers -> Outcomes]
    /\ closing \in [Callers -> SUBSET Client]
    /\ closer \in [Closers -> {"idle", "returned", "flag", "stop", "join", "lock",
                               "forget", "clients", "drop", "done"}]
    /\ join_timed_out \in BOOLEAN

\* Until close() begins, no client that an operation in flight copied out of
\* _clients has been closed, however many refreshes retired it in between
\* (_apply_topology, finally block of _execute).
InUseNeverClosed ==
    ~closed => \A c \in InOperation : Held(snap[c].clients) \cap dead = {}

\* Until close() begins, an operation never fails because the node client it
\* was routed to had been closed by a topology refresh.
CancelledOnlyByClose == \A c \in Callers : result[c] = "cancelled" => closed

\* Clients a caller took out of _retired and has not closed yet.
Closing == UNION {closing[c] : c \in Callers}

\* Until close() begins, every client that was created and not closed can still
\* be reached by somebody who will close it: _clients, _retired, or a caller
\* that took it out of _retired.
NoClientLost ==
    ~closed => Born \ dead \subseteq
                  Held(clients) \cup retired \cup Closing

\* Every client has one place.  The dictionary holds, under each target, a client
\* that was created for it; and until close() begins what is offered, what is
\* retired, what is being closed and what is closed do not overlap, and
\* operations hold nothing but what is offered or retired.
Keyed ==
    \A t \in Targets : clients[t] # NoClient => clients[t][1] = t /\ clients[t] \in Born

Ownership ==
    /\ Keyed
    /\ retired \cup dead \cup Closing \subseteq Born
    /\ ~closed =>
          /\ Held(clients) \cap (retired \cup dead \cup Closing) = {}
          /\ retired \cap (dead \cup Closing) = {}
          /\ \A c \in InOperation : Held(snap[c].clients) \subseteq Held(clients) \cup retired

\* A close() past its first assignment has set _closed.
ClosersFlagged ==
    \A k \in Closers :
        closer[k] \in {"stop", "join", "lock", "forget", "clients", "drop", "done"} => closed

\* What an operation calls, or may call next, comes from its own snapshot.
Sourced(c) ==
    /\ pc[c] \in {"idle", "wait", "route", "closing"} => tried[c] = <<>> /\ endpoints[c] = <<>>
    /\ \A i \in 1..Len(tried[c]) : tried[c][i] \in Held(snap[c].clients)
    /\ \A i \in 1..Len(endpoints[c]) : endpoints[c][i] \in Held(snap[c].clients)

TriedFromSnapshot == \A c \in Callers : Sourced(c)

\* Only an operation that is past its finally block still has clients to close.
ClosingIsLast == \A c \in Callers : closing[c] # {} => pc[c] = "closing"

\* _active counts the operations between their snapshot and their finally
\* block, on every path out of _execute.
ActiveIsExact == active = Cardinality(InOperation)

\* The two dictionaries agree: every target that the installed topology, or the
\* snapshot an operation routes by, names has a client in the dictionary that
\* goes with it.
RoutesHaveClients ==
    /\ ~closed => \A t \in topology.targets : clients[t] # NoClient
    /\ ~closed => \A c \in InOperation :
           \A t \in snap[c].topology.targets : snap[c].clients[t] # NoClient

\* Once ready, there are shards: _shard never takes a modulo by zero.
ReadyHasShards ==
    /\ ready => topology.max_shards > 0
    /\ \A c \in InOperation : snap[c].topology.max_shards > 0

\* A topology on its way to being installed has shards.
PendingHasShards == thread \in {"apply", "install"} => pending.max_shards > 0

\* An operation that calls a node has chosen one.
CallHasNode == \A c \in Callers : pc[c] \in {"call", "rpc"} => tried[c] # <<>>

\* An operation is sent to at most two nodes, and never twice to one client.
AtMostTwoNodes ==
    \A c \in Callers :
        /\ Len(tried[c]) <= 2
        /\ Len(tried[c]) = 2 => tried[c][1] # tried[c][2]

\* The client of the master of the shard an operation was routed to.
MasterOf(c) == Get(snap[c].clients, RouteOf(snap[c].topology, "MASTER", call[c].shard))

\* The operations __getattr__ routes: the public methods of HurriCacheClient.
PublicOperations ==
    {"add_element", "add_element_hash_map", "add_element_ordered",
    "add_element_ordered_map", "add_element_ordered_set", "add_element_to_head",
    "add_element_to_head_count", "add_element_to_position",
    "add_element_to_position_after", "add_element_to_position_after_count",
    "add_element_to_position_before", "add_element_to_position_before_count",
    "add_element_to_position_by_value", "add_element_to_position_by_value_count",
    "add_element_to_tail", "add_element_to_tail_count", "add_element_unordered",
    "add_element_with_weight", "atomic_add", "atomic_and", "atomic_compare_and_set",
    "atomic_create", "atomic_exchange", "atomic_load", "atomic_load_and_delete",
    "atomic_or", "atomic_store", "atomic_sub", "atomic_xor", "contains_container_key",
    "create_key_value", "create_list", "create_map", "create_ordered_map",
    "create_ordered_set", "create_queue", "create_set", "create_vector", "exist_key",
    "exist_key_in_container", "get_and_delete_value",
    "get_and_delete_value_in_container", "get_and_remove_container_value",
    "get_and_remove_element_at_position", "get_and_remove_element_with_weight",
    "get_and_remove_front", "get_and_remove_tail", "get_container",
    "get_container_value", "get_element_at_position", "get_element_in_range",
    "get_element_with_weight", "get_front", "get_head", "get_size", "get_tail",
    "get_ttl", "get_value", "get_value_in_container", "lock_object", "remove",
    "remove_container_key", "remove_element_at_position", "remove_from_container",
    "remove_from_container_by_key_value", "remove_head", "remove_in_container",
    "remove_tail", "set_ttl", "stream_element_in_range_ordered",
    "stream_element_in_range_ordered_map", "stream_element_in_range_ordered_set",
    "stream_element_in_range_unordered", "stream_list", "stream_map",
    "stream_ordered_map", "stream_ordered_set", "stream_queue", "stream_set",
    "stream_vector", "unlock_object", "update_container_value", "update_key_value",
    "update_value", "update_value_in_container"}

\* The operations that follow the configured mode, as tests/test_routing_parity.py:16
\* has transcribed them from the Java client, "independently of the implementation's
\* policy collection"; all others write.
ConfiguredOperations ==
    {"atomic_load", "contains_container_key", "create_key_value", "create_list",
    "create_map", "create_ordered_map", "create_ordered_set", "create_queue",
    "create_set", "create_vector", "exist_key", "exist_key_in_container",
    "get_and_remove_element_with_weight", "get_container", "get_container_value",
    "get_element_at_position", "get_element_in_range", "get_element_with_weight",
    "get_front", "get_head", "get_size", "get_tail", "get_ttl", "get_value",
    "get_value_in_container", "remove", "stream_element_in_range_ordered",
    "stream_element_in_range_ordered_map", "stream_element_in_range_ordered_set",
    "stream_element_in_range_unordered", "stream_list", "stream_map",
    "stream_ordered_map", "stream_ordered_set", "stream_queue", "stream_set",
    "stream_vector", "update_key_value", "update_value"}

\* A write reaches the master before any other node, unless the caller overrode the
\* mode or the shard has no master.  What counts as a write does not depend on the
\* list the code looks at: a name missing from _WRITE_OPERATIONS is noticed.
WritesStartAtMaster ==
    \A c \in Callers :
        (/\ tried[c] # <<>> /\ call[c].override = "NONE"
         /\ call[c].name \in PublicOperations \ ConfiguredOperations
         /\ MasterOf(c) # NoClient)
        => tried[c][1] = MasterOf(c)

\* When a close() that found the refresher stopped has returned, every channel to
\* a coordinator is closed, and every client is closed or about to be by a caller
\* that is leaving _execute.
CloseReleasesAll ==
    (\E k \in Closers : closer[k] = "done") /\ ~join_timed_out
    => /\ open_channels = {}
       /\ Born \subseteq dead \cup Closing

\* "Smart-client shutdown ... closes coordinator ... channels" (README.md:203):
\* once close() has returned and the refresher has ended, no coordinator
\* channel is open.
ShutdownClosesChannels ==
    (\E k \in Closers : closer[k] = "done") /\ thread = "dead" => open_channels = {}

\* Every operation returns: no path of _execute waits for ever for the lock or the
\* readiness event, or goes from node to node without end.  (That an RPC ends is
\* assumed, see Fairness: one that was given timeout=None need not.)
OperationsReturn == \A c \in Callers : (pc[c] # "idle") ~> (pc[c] = "idle")

\* Bound: clients that can be made for one target, one per attempt.
MostClients == MaxRefreshes * NumCoordinators

\* If moments without an operation in flight keep coming, each client that has been
\* retired is itself closed in the end, whoever takes it off the list: one that is
\* there while an operation is in flight, and one that an installation is about to
\* retire or has found there.  What an aborted installation (a malformed target)
\* retires while nothing is in flight is on nobody's list of things to do until
\* the next operation or refresh.
RetiredGetClosed ==
    ([]<>(active = 0)) =>
        \A client \in Targets \X (1..MostClients) :
            (\/ client \in retired /\ active > 0
             \/ client \in Retiring /\ thread = "install" /\ Missing \cap BadTargets = {})
            ~> (client \in dead)

\* With one coordinator that answers, every round brings a topology (until close):
\* it asks every coordinator once, wherever the rounds before have left the
\* rotation.  And the client becomes ready, unless that topology names a malformed
\* target.
BecomesReady ==
    (Healthy # {}) =>
        /\ <>(ready \/ closed \/ (thread = "install" /\ Missing \cap BadTargets # {}))
        /\ \A r \in 1..MaxRefreshes :
              (refreshes = r /\ thread = "attempt" /\ attempt = 1)
                  ~> ((refreshes = r /\ thread = "install") \/ closed)

-----------------------------------------------------------------------------
(* The promise this implements: ClientPool.                                *)

Pool == INSTANCE ClientPool WITH
    Users   <- Callers,
    visible <- Held(clients),
    parked  <- (retired \cup Closing) \ dead,
    freed   <- dead,
    holds   <- [c \in Callers |-> IF c \in InOperation THEN Held(snap[c].clients) ELSE {}],
    down    <- closed

\* The threads implement the pool: publishing, retiring and closing node clients
\* under _lock, with _active as the only record of use, looks to the outside
\* like freeing exactly what no operation holds.
ImplementsPool == Pool!Spec
=============================================================================
