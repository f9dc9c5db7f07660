-------------------------- MODULE AsyncSmartClient --------------------------
(***************************************************************************)
(* The asynchronous smart client, AsyncHurriCacheSmartClient (hurricache/  *)
(* grpc/smart_client.py, from line 337): the same duties as the            *)
(* synchronous one on one event loop.  There is no lock; an action is what *)
(* a task does between two awaits that suspend it.  Those are the wait for *)
(* readiness, an RPC, the stream of a coordinator, a sleep, and in close() *)
(* the two gathers.  Channel.close() of grpc.aio without a grace period    *)
(* cancels the RPCs in flight and returns without suspending (external).   *)
(*                                                                         *)
(* Any task of the application may be cancelled where it is suspended, and *)
(* close() cancels the refresh task in the same step that sets _closed: a  *)
(* refresh task that runs at all finds the flag unset, so the tests of the *)
(* flag in _refresh_loop and _apply_topology never see it (CloseBegin).    *)
(***************************************************************************)
EXTENDS Topology

CONSTANTS
    Callers,          \* tasks that execute operations
    Closers,          \* tasks that call close()
    NumCoordinators,  \* len(self._coordinators)
    Streams,          \* sequences of responses a coordinator may send
    BadTargets,       \* targets _split_target rejects
    MaxAttempts       \* bound: attempts after which no refresh round begins

ASSUME AsyncAssumption ==
    /\ IsFiniteSet(Callers)
    /\ NumCoordinators \in Nat \ {0} /\ MaxAttempts \in Nat

VARIABLES
    closed,                         \* _closed
    task,                           \* _task: where the refresh task is suspended
    cancelling,                     \* the refresh task has been cancelled
    topology, ready, clients, retired, active,
    coordinator_index, coordinator_channel,
    made, dead, open_channels,      \* clients created and closed, open channels
    attempt,                        \* the refresh task
    pc, snap, endpoints, tried, result,
    closer, doomed                  \* close(), and the clients its gather closes

directory == <<topology, ready, clients, made>>
usage == <<retired, active, dead>>
channels == <<coordinator_index, coordinator_channel, open_channels>>
refreshVars == <<task, cancelling, attempt>>
callerVars == <<pc, snap, endpoints, tried, result>>
closerVars == <<closer, doomed>>
vars == <<closed, directory, usage, channels, refreshVars, callerVars, closerVars>>

Born == UNION {{<<t, n>> : n \in 1..made[t]} : t \in Targets}

InOperation == {c \in Callers : pc[c] = "rpc"}

Init ==
    /\ closed = FALSE /\ task = "none" /\ cancelling = FALSE
    /\ topology = EmptyTopology /\ ready = FALSE
    /\ clients = NoTable /\ retired = {} /\ active = 0
    /\ coordinator_index = 0 /\ coordinator_channel = 0
    /\ made = [t \in Targets |-> 0] /\ dead = {} /\ open_channels = {}
    /\ attempt = 0
    /\ pc = [c \in Callers |-> "idle"]
    /\ snap = [c \in Callers |-> NoSnap]
    /\ endpoints = [c \in Callers |-> <<>>]
    /\ tried = [c \in Callers |-> <<>>]
    /\ result = [c \in Callers |-> "none"]
    /\ closer = [k \in Closers |-> "idle"]
    /\ doomed = [k \in Closers |-> {}]

-----------------------------------------------------------------------------
(* The refresh task: _refresh_loop, _refresh_once, _apply_topology.        *)

\* The task is created by start(), by the first operation at the latest.
Created == IF task = "none" THEN "new" ELSE task

\* An attempt up to the stream: rotate, open a channel, close the previous one.
Connect ==
    /\ coordinator_index' = coordinator_index + 1
    /\ coordinator_channel' = coordinator_index + 1
    /\ open_channels' = (open_channels \ {coordinator_channel}) \cup {coordinator_index + 1}
    /\ task' = "stream"

\* while not self._closed
Round ==
    /\ task \in {"new", "sleep"} /\ ~cancelling /\ ~closed
    /\ coordinator_index < MaxAttempts
    /\ attempt' = 1
    /\ Connect
    /\ UNCHANGED <<closed, directory, usage, callerVars, closerVars, cancelling>>

\* The next attempt after the pause of the retry policy.
Attempt ==
    /\ task = "pause" /\ ~cancelling
    /\ attempt' = attempt + 1
    /\ Connect
    /\ UNCHANGED <<closed, directory, usage, callerVars, closerVars, cancelling>>

\* An exception in an attempt; the last one ends the round.
RetryOrSleep == task' = IF attempt < NumCoordinators THEN "pause" ELSE "sleep"

StreamFails ==
    /\ task = "stream" /\ ~cancelling
    /\ RetryOrSleep
    /\ UNCHANGED <<closed, directory, usage, channels, callerVars, closerVars, cancelling,
                   attempt>>

\* Mutant: what is retired is closed whoever uses it.
Reap_Always(leaving) == dead' = dead \cup leaving /\ retired' = {}

\* Close the retired clients, or leave them to the last operation.
Reap(leaving) ==
    IF active = 0 THEN dead' = dead \cup leaving /\ retired' = {}
                  ELSE retired' = leaving /\ UNCHANGED dead

\* The stream is merged and installed without an await in between.
StreamInstalled(new) ==
    LET missing == Unserved(clients, new.targets)
        leaving == retired \cup {clients[t] : t \in Absent(clients, new.targets)}
    IN
    /\ task = "stream" /\ ~cancelling /\ ~closed
    /\ new # Invalid /\ missing \cap BadTargets = {}
    /\ clients' = TableWith(clients, made, new.targets, missing)
    /\ made' = MadeWith(made, missing)
    /\ topology' = new /\ ready' = TRUE
    /\ Reap(leaving)
    /\ task' = "sleep"
    /\ UNCHANGED <<closed, active, channels, callerVars, closerVars, cancelling, attempt>>

\* A malformed target: the clients made before it stay, the topology is the old one.
InstallFails(new) ==
    LET missing == Unserved(clients, new.targets)
    IN
    /\ task = "stream" /\ ~cancelling /\ ~closed
    /\ new # Invalid /\ missing \cap BadTargets # {}
    /\ \E some \in SUBSET (missing \ BadTargets) :
          /\ clients' = TableWith(clients, made, new.targets, some)
          /\ made' = MadeWith(made, some)
    /\ retired' = retired \cup {clients[t] : t \in Absent(clients, new.targets)}
    /\ RetryOrSleep
    /\ UNCHANGED <<closed, topology, ready, dead, active, channels, callerVars, closerVars,
                   cancelling, attempt>>

\* Mutant: the retry policy takes the cancellation for a failed attempt.
Cancelled_Retried ==
    /\ cancelling /\ task \in {"new", "stream", "pause", "sleep"}
    /\ task' = IF task \in {"new", "sleep"} THEN "done" ELSE "pause"
    /\ UNCHANGED <<closed, directory, usage, channels, callerVars, closerVars, cancelling,
                   attempt>>

\* CancelledError is raised where the task is suspended; it is no Exception, so
\* neither the retry policy nor the loop stops it.
Cancelled ==
    /\ cancelling /\ task \in {"new", "stream", "pause", "sleep"}
    /\ task' = "done"
    /\ UNCHANGED <<closed, directory, usage, channels, callerVars, closerVars, cancelling,
                   attempt>>

Merged == {merge_topology(s) : s \in Streams}

RefreshTask ==
    \/ Round \/ Attempt \/ StreamFails \/ Cancelled
    \/ \E new \in Merged : StreamInstalled(new) \/ InstallFails(new)

-----------------------------------------------------------------------------
(* An operation: _execute.                                                 *)

\* operation() refuses; otherwise start() and the wait for readiness.
EnterClosed(c) ==
    /\ pc[c] = "idle" /\ closed
    /\ result' = [result EXCEPT ![c] = "cancelled"]
    /\ UNCHANGED <<closed, directory, usage, channels, refreshVars, closerVars, pc, snap,
                   endpoints, tried>>

Enter(c) ==
    /\ pc[c] = "idle" /\ ~closed
    /\ task' = Created
    /\ pc' = [pc EXCEPT ![c] = "wait"]
    /\ result' = [result EXCEPT ![c] = "none"]
    /\ UNCHANGED <<closed, directory, usage, channels, cancelling, attempt,
                   closerVars, snap, endpoints, tried>>

\* The wait ends without readiness: a timeout, or the task is cancelled.
WaitFails(c, outcome) ==
    /\ pc[c] = "wait"
    /\ pc' = [pc EXCEPT ![c] = "idle"]
    /\ result' = [result EXCEPT ![c] = outcome]
    /\ UNCHANGED <<closed, directory, usage, channels, refreshVars, closerVars, snap,
                   endpoints, tried>>

\* Mutant: the last one out forgets the list without closing its members.
LastOut_Forgets(before) ==
    IF before = 1 THEN retired' = {} /\ UNCHANGED dead ELSE UNCHANGED <<retired, dead>>

\* The finally block: the operation that brings _active to 0 closes the retired.
LastOut(before) ==
    IF before = 1 THEN retired' = {} /\ dead' = dead \cup retired
                  ELSE UNCHANGED <<retired, dead>>

Leave(c, outcome) ==
    /\ active' = active - 1
    /\ LastOut(active)
    /\ pc' = [pc EXCEPT ![c] = "idle"]
    /\ snap' = [snap EXCEPT ![c] = NoSnap]
    /\ endpoints' = [endpoints EXCEPT ![c] = <<>>]
    /\ tried' = [tried EXCEPT ![c] = <<>>]
    /\ result' = [result EXCEPT ![c] = outcome]

\* The nodes for a shard and a mode.  Every shard and mode is possible: see
\* Route in SmartClient for how the code computes them from the same operators.
Nodes(shard, mode, coin) ==
    EndpointsFor(Get(clients, RouteOf(topology, "MASTER", shard)),
                 Get(clients, RouteOf(topology, "BACKUP", shard)), NoClient, mode, coin)

\* From the wait to the first RPC without an await: count, copy, route, call.
\* A node client that is closed refuses the call.
Proceed(c, found) ==
    /\ pc[c] = "wait" /\ ready
    /\ IF found[1] = NoClient \/ found[1] \in dead
         THEN /\ LastOut(active + 1)
              /\ pc' = [pc EXCEPT ![c] = "idle"]
              /\ result' = [result EXCEPT ![c] =
                               IF found[1] = NoClient THEN "unavailable" ELSE "cancelled"]
              /\ UNCHANGED <<active, snap, endpoints, tried>>
         ELSE /\ active' = active + 1
              /\ snap' = [snap EXCEPT ![c] = [topology |-> topology, clients |-> clients]]
              /\ endpoints' = [endpoints EXCEPT ![c] = found]
              /\ tried' = [tried EXCEPT ![c] = <<found[1]>>]
              /\ pc' = [pc EXCEPT ![c] = "rpc"]
              /\ UNCHANGED <<retired, dead, result>>
    /\ UNCHANGED <<closed, directory, channels, refreshVars, closerVars>>

Current(c) == tried[c][Len(tried[c])]

\* The RPC ends, fails for good, or the task is cancelled in it; an RPC on a
\* client that has been closed is cancelled.
Ended(c, outcome) ==
    /\ pc[c] = "rpc"
    /\ outcome = "cancelled" => Current(c) \in dead
    /\ Leave(c, outcome)
    /\ UNCHANGED <<closed, directory, channels, refreshVars, closerVars>>

\* Mutant: the second attempt is not the last.
Second_Forgetful(c, other, otherwise) ==
    /\ pc[c] = "rpc"
    /\ IF other = NoClient THEN Leave(c, otherwise)
       ELSE /\ tried' = [tried EXCEPT ![c] = <<other>>]
            /\ UNCHANGED <<active, retired, dead, pc, snap, endpoints, result>>
    /\ UNCHANGED <<closed, directory, channels, refreshVars, closerVars>>

\* A second attempt at another client, which may have been closed meanwhile.
Second(c, other, otherwise) ==
    /\ pc[c] = "rpc"
    /\ IF Len(tried[c]) = 2 \/ other = NoClient THEN Leave(c, otherwise)
       ELSE IF other \in dead THEN Leave(c, "cancelled")
       ELSE /\ tried' = [tried EXCEPT ![c] = Append(@, other)]
            /\ UNCHANGED <<active, retired, dead, pc, snap, endpoints, result>>
    /\ UNCHANGED <<closed, directory, channels, refreshVars, closerVars>>

\* UnavailableError: the second endpoint, if there is one.
Unavailable(c) ==
    Second(c, IF Len(endpoints[c]) < 2 THEN NoClient ELSE endpoints[c][2], "unavailable")

\* FailedPreconditionError: the client the trailer names, unless it is the same.
FailedPrecondition(c, route) ==
    LET other == Get(snap[c].clients, route) IN
    /\ pc[c] = "rpc"
    /\ Second(c, IF other = Current(c) THEN NoClient ELSE other, "failed_precondition")

CallStep(c) ==
    \/ \E outcome \in {"timeout", "task_cancelled"} : WaitFails(c, outcome)
    \/ \E shard \in 0..(topology.max_shards - 1), mode \in Modes, coin \in BOOLEAN :
          Proceed(c, Nodes(shard, mode, coin))
    \/ \E outcome \in {"ok", "error", "cancelled", "task_cancelled"} : Ended(c, outcome)
    \/ Unavailable(c)
    \/ \E route \in Targets \cup {NoTarget} : FailedPrecondition(c, route)

-----------------------------------------------------------------------------
(* close()                                                                 *)

CloseAgain(k) ==
    /\ closer[k] = "idle" /\ closed
    /\ closer' = [closer EXCEPT ![k] = "returned"]
    /\ UNCHANGED <<closed, directory, usage, channels, refreshVars, callerVars, doomed>>

\* Mutant: only the clients in the dictionary are closed.
Doomed_Current == Held(clients)

\* list(self._clients.values()) + self._retired
Doomed == Held(clients) \cup retired

\* Close the coordinator channel and hand every client to a gather.
Gather(k) ==
    /\ open_channels' = open_channels \ {coordinator_channel}
    /\ coordinator_channel' = 0
    /\ doomed' = [doomed EXCEPT ![k] = Doomed]
    /\ closer' = [closer EXCEPT ![k] = "gather"]

\* Set the flag and cancel the refresh task, or go on when there is none.
CloseBegin(k) ==
    /\ closer[k] = "idle" /\ ~closed
    /\ closed' = TRUE
    /\ IF task = "none"
         THEN Gather(k) /\ UNCHANGED cancelling
         ELSE /\ cancelling' = TRUE
              /\ closer' = [closer EXCEPT ![k] = "join"]
              /\ UNCHANGED <<open_channels, coordinator_channel, doomed>>
    /\ UNCHANGED <<directory, usage, coordinator_index, task, attempt, callerVars>>

\* await asyncio.gather(self._task, return_exceptions=True)
CloseJoined(k) ==
    /\ closer[k] = "join" /\ task = "done"
    /\ Gather(k)
    /\ UNCHANGED <<closed, directory, usage, coordinator_index, refreshVars, callerVars>>

\* The tasks of the gather run one by one.
CloseClient(k, client) ==
    /\ closer[k] = "gather" /\ client \in doomed[k]
    /\ dead' = dead \cup {client}
    /\ doomed' = [doomed EXCEPT ![k] = @ \ {client}]
    /\ UNCHANGED <<closed, directory, retired, active, channels, refreshVars, callerVars,
                   closer>>

CloseEnds(k) ==
    /\ closer[k] = "gather" /\ doomed[k] = {}
    /\ clients' = NoTable /\ retired' = {}
    /\ closer' = [closer EXCEPT ![k] = "done"]
    /\ UNCHANGED <<closed, topology, ready, made, active, dead, channels, refreshVars,
                   callerVars, doomed>>

\* The task inside close() is cancelled at one of its gathers: the rest of the
\* shutdown does not happen.
CloseCancelled(k) ==
    /\ closer[k] \in {"join", "gather"}
    /\ closer' = [closer EXCEPT ![k] = "cancelled"]
    /\ doomed' = [doomed EXCEPT ![k] = {}]
    /\ UNCHANGED <<closed, directory, usage, channels, refreshVars, callerVars>>

CloseStep(k) ==
    CloseJoined(k) \/ (\E client \in doomed[k] : CloseClient(k, client)) \/ CloseEnds(k)

-----------------------------------------------------------------------------
Next ==
    \/ RefreshTask
    \/ \E c \in Callers : EnterClosed(c) \/ Enter(c) \/ CallStep(c)
    \/ \E k \in Closers :
          CloseAgain(k) \/ CloseBegin(k) \/ CloseStep(k) \/ CloseCancelled(k)

\* The event loop runs every task that can go on, and waits and sleeps are timed.
\* RPCs are assumed to end: the client gives each a timeout, unless the application
\* passes timeout=None and the node never answers.
Fairness ==
    /\ WF_vars(RefreshTask)
    /\ \A c \in Callers : WF_vars(CallStep(c))
    /\ \A k \in Closers : WF_vars(CloseStep(k))

Spec == Init /\ [][Next]_vars

FairSpec == Spec /\ Fairness

-----------------------------------------------------------------------------
(* Properties.                                                             *)

\* Until close() begins, every client that was made and not closed is offered or
\* retired.
NoClientLost == ~closed => Born \ dead \subseteq Held(clients) \cup retired

\* A close() that returned normally has released everything, whatever it met.
CloseReleasesAll ==
    (\E k \in Closers : closer[k] = "done") => open_channels = {} /\ Born \subseteq dead

\* "Smart-client shutdown ... closes coordinator and routed-node channels"
\* (README.md:203), where a task that shuts down is cancelled on the way and
\* shutdown is then asked for again.
CloseAgainReleasesAll ==
    (/\ \E k \in Closers : closer[k] = "returned"
     /\ \A k \in Closers : closer[k] \notin {"join", "gather"}
     /\ \A c \in Callers : pc[c] = "idle")
        => open_channels = {} /\ Born \subseteq dead

\* Every operation returns, cancelled or not: no path of _execute waits for ever or goes
\* from node to node without end.  (That an RPC ends is assumed, see Fairness.)
OperationsReturn == \A c \in Callers : (pc[c] # "idle") ~> (pc[c] = "idle")

\* Every close() returns: the cancelled refresh task does end.
CloseReturns == \A k \in Closers :
    (closer[k] \in {"join", "gather"}) ~> (closer[k] \in {"done", "cancelled"})

-----------------------------------------------------------------------------
(* The promise this implements: ClientPool.                                *)

Pool == INSTANCE ClientPool WITH
    Users   <- Callers,
    visible <- Held(clients),
    parked  <- retired \ dead,
    freed   <- dead,
    holds   <- [c \in Callers |-> Held(snap[c].clients)],
    down    <- closed

\* The tasks implement the same pool as the threads do.
ImplementsPool == Pool!Spec
=============================================================================
