----------------------- MODULE AsyncSmartClientProofs -----------------------
(***************************************************************************)
(* Proofs about AsyncSmartClient for every set of tasks, targets and       *)
(* coordinator answers: no node client is lost, close() releases all, and  *)
(* the tasks implement the pool that the threads implement.                *)
(***************************************************************************)
EXTENDS AsyncSmartClient, TopologyProofs, FiniteSetTheorems, TLAPS

Tables == [Targets -> Client \cup {NoClient}]

Snapshots == [topology : Merged \cup {EmptyTopology}, clients : Tables]

\* The kinds of value the proofs need.
Types ==
    /\ closed \in BOOLEAN /\ active \in Nat
    /\ topology \in Merged \cup {EmptyTopology}
    /\ clients \in Tables /\ made \in [Targets -> Nat]
    /\ pc \in [Callers -> {"idle", "wait", "rpc"}]
    /\ snap \in [Callers -> Snapshots]
    /\ coordinator_index \in Nat
    /\ closer \in [Closers -> {"idle", "returned", "join", "gather", "done", "cancelled"}]
    /\ doomed \in [Closers -> SUBSET Client]

\* _active counts the tasks that are suspended in an RPC, and only those have a
\* snapshot.
Counted ==
    /\ active = Cardinality(InOperation)
    /\ \A c \in Callers : c \notin InOperation => snap[c] = NoSnap

\* Every client has one place until close() begins, and what operations hold is
\* offered or retired.
Placed ==
    /\ KeyedBy(clients, made)
    /\ retired \cup dead \subseteq Born
    /\ \A k \in Closers : doomed[k] \subseteq Born
    /\ ~closed =>
          /\ Held(clients) \cap (retired \cup dead) = {}
          /\ retired \cap dead = {}
          /\ \A c \in InOperation : Held(snap[c].clients) \subseteq Held(clients) \cup retired

\* Every client that is not closed is offered or retired, after close() too.
Reachable == Born \ dead \subseteq Held(clients) \cup retired

PoolInv == Types /\ Counted /\ Placed /\ Reachable

-----------------------------------------------------------------------------
(* What the steps of the tasks do to clients. *)

Installs == \E new \in Merged : StreamInstalled(new) \/ InstallFails(new)

\* An operation copies the dictionary and starts its first RPC.
Acquires(c) ==
    /\ pc[c] = "wait" /\ pc' = [pc EXCEPT ![c] = "rpc"]
    /\ active' = active + 1
    /\ snap' = [snap EXCEPT ![c] = [topology |-> topology, clients |-> clients]]
    /\ UNCHANGED <<topology, clients, made, retired, dead, closed, closerVars>>

\* An operation ends before it could start one.
GivesUp(c) ==
    /\ pc[c] = "wait" /\ pc' = [pc EXCEPT ![c] = "idle"]
    /\ LastOut(active + 1)
    /\ UNCHANGED <<topology, clients, made, active, snap, closed, closerVars>>

\* An operation ends.
Releases(c) ==
    /\ pc[c] = "rpc" /\ pc' = [pc EXCEPT ![c] = "idle"]
    /\ active' = active - 1
    /\ LastOut(active)
    /\ snap' = [snap EXCEPT ![c] = NoSnap]
    /\ UNCHANGED <<topology, clients, made, closed, closerVars>>

\* Nothing happens to clients.
Quiet ==
    /\ UNCHANGED <<topology, clients, made, retired, dead, active, snap>>
    /\ pc' \in [Callers -> {"idle", "wait", "rpc"}]
    /\ InOperation' = InOperation
    /\ closed' = closed \/ closed' = TRUE

\* These are all the steps.
LEMMA TaskSteps ==
    ASSUME Types, [Next]_vars
    PROVE  \/ Installs
           \/ \E c \in Callers : Acquires(c) \/ GivesUp(c) \/ Releases(c)
           \/ \E k \in Closers : CloseEnds(k) \/ \E x \in doomed[k] : CloseClient(k, x)
           \/ Quiet
<1> USE DEF Types
<1>1. CASE UNCHANGED vars
  BY <1>1 DEF vars, directory, usage, callerVars, Quiet, InOperation
<1>2. CASE Round \/ Attempt \/ StreamFails \/ Cancelled
  BY <1>2 DEF Round, Attempt, StreamFails, Cancelled, directory, usage, callerVars, Quiet,
     InOperation
<1>3. ASSUME NEW c \in Callers,
             \/ EnterClosed(c) \/ Enter(c)
             \/ \E outcome \in {"timeout", "task_cancelled"} : WaitFails(c, outcome)
      PROVE  Quiet
  BY <1>3 DEF EnterClosed, Enter, WaitFails, directory, usage, Quiet, InOperation
<1>4. ASSUME NEW c \in Callers, NEW found, Proceed(c, found)
      PROVE  Acquires(c) \/ GivesUp(c)
  BY <1>4 DEF Proceed, Acquires, GivesUp, directory
<1>5. ASSUME NEW c \in Callers, NEW outcome, pc[c] = "rpc", Leave(c, outcome),
             UNCHANGED <<closed, directory, closerVars>>
      PROVE  Releases(c)
  BY <1>5 DEF Leave, Releases, directory
<1>6. ASSUME NEW c \in Callers, NEW outcome, Ended(c, outcome)
      PROVE  Releases(c)
  BY <1>5, <1>6 DEF Ended
<1>7. ASSUME NEW c \in Callers, NEW other, NEW otherwise, Second(c, other, otherwise)
      PROVE  Releases(c) \/ Quiet
  <2>1. CASE Leave(c, otherwise) \/ Leave(c, "cancelled")
    BY <1>5, <1>7, <2>1 DEF Second
  <2>2. CASE UNCHANGED <<active, retired, dead, pc, snap>>
    BY <1>7, <2>2 DEF Second, Quiet, InOperation, directory
  <2> QED
    BY <1>7, <2>1, <2>2 DEF Second
<1>8. ASSUME NEW c \in Callers,
             Unavailable(c) \/ \E route \in Targets \cup {NoTarget} : FailedPrecondition(c, route)
      PROVE  Releases(c) \/ Quiet
  BY <1>7, <1>8 DEF Unavailable, FailedPrecondition
<1>9. ASSUME NEW c \in Callers, CallStep(c)
      PROVE  Acquires(c) \/ GivesUp(c) \/ Releases(c) \/ Quiet
  BY <1>3, <1>4, <1>6, <1>8, <1>9 DEF CallStep
<1>10. ASSUME NEW k \in Closers,
              CloseAgain(k) \/ CloseBegin(k) \/ CloseJoined(k) \/ CloseCancelled(k)
       PROVE  Quiet
  BY <1>10 DEF CloseAgain, CloseBegin, CloseJoined, CloseCancelled, Gather, directory, usage,
     callerVars, Quiet, InOperation
<1> HIDE DEF Types
<1> QED
  BY <1>1, <1>2, <1>3, <1>9, <1>10 DEF Next, RefreshTask, CloseStep, Installs

\* A refresh takes clients out of the dictionary, closes or retires them, and
\* adds new ones.
LEMMA InstallEffects ==
    ASSUME Types, Placed, Installs
    PROVE  /\ ~closed /\ UNCHANGED <<closed, active, pc, snap, closerVars>>
           /\ topology' \in Merged \cup {EmptyTopology}
           /\ clients' \in Tables /\ made' \in [Targets -> Nat]
           /\ KeyedBy(clients', made')
           /\ Born \subseteq Born' /\ Born' \subseteq Born \cup Held(clients')
           /\ Held(clients) \subseteq Born
           /\ \E gone \in SUBSET Held(clients) :
                 /\ \A x \in Held(clients') : x \notin Born \/ x \in Held(clients) \ gone
                 /\ Held(clients) \subseteq Held(clients') \cup gone
                 /\ \/ active = 0 /\ retired' = {} /\ dead' = dead \cup retired \cup gone
                    \/ retired' = retired \cup gone /\ dead' = dead
<1>1. PICK new \in Merged : StreamInstalled(new) \/ InstallFails(new)
  BY DEF Installs
<1> DEFINE gone == Leaving(clients, new.targets)
<1>2. /\ ~closed /\ UNCHANGED <<closed, active, pc, snap, closerVars>>
      /\ topology' \in Merged \cup {EmptyTopology}
  BY <1>1 DEF StreamInstalled, InstallFails, Types, callerVars
<1>3. PICK created \in SUBSET Unserved(clients, new.targets) :
         /\ clients' = TableWith(clients, made, new.targets, created)
         /\ made' = MadeWith(made, created)
  BY <1>1 DEF StreamInstalled, InstallFails
<1>4. \A t \in Targets : t \in created => clients[t] = NoClient
  BY <1>3 DEF Unserved
<1>5. \/ active = 0 /\ retired' = {} /\ dead' = dead \cup retired \cup gone
      \/ retired' = retired \cup gone /\ dead' = dead
  BY <1>1 DEF StreamInstalled, InstallFails, Reap, Leaving
<1>6. Born = Creations(made) /\ Born' = Creations(made')
  BY DEF Born, Creations
<1>7. /\ clients' \in Tables /\ made' \in [Targets -> Nat]
      /\ KeyedBy(clients', made')
      /\ Creations(made) \subseteq Creations(made')
      /\ Creations(made') \subseteq Creations(made) \cup Held(clients')
      /\ \A x \in Held(clients') : x \notin Creations(made) \/ x \in Held(clients) \ gone
      /\ Held(clients) \subseteq Held(clients') \cup gone
      /\ gone \subseteq Held(clients)
      /\ Held(clients) \subseteq Creations(made)
  BY <1>3, <1>4, ReplacedTable DEF Types, Tables, Placed
<1> HIDE DEF gone
<1> QED
  BY <1>2, <1>5, <1>6, <1>7

-----------------------------------------------------------------------------
(* The inductive invariant. *)

\* What _active says: nobody is in an RPC, or nobody but one.
LEMMA ActiveSays ==
    ASSUME Types, Counted
    PROVE  /\ IsFiniteSet(InOperation)
           /\ active = 0 => InOperation = {}
           /\ \A c \in InOperation :
                 /\ active - 1 \in Nat
                 /\ Cardinality(InOperation \ {c}) = active - 1
                 /\ active = 1 => InOperation = {c}
<1>1. IsFiniteSet(InOperation)
  BY AsyncAssumption, FS_Subset DEF InOperation
<1>2. ASSUME NEW c \in InOperation
      PROVE  /\ active - 1 \in Nat
             /\ Cardinality(InOperation \ {c}) = active - 1
             /\ active = 1 => InOperation = {c}
  <2>1. /\ IsFiniteSet(InOperation \ {c})
        /\ Cardinality(InOperation \ {c}) = Cardinality(InOperation) - 1
    BY <1>1, FS_RemoveElement
  <2>2. Cardinality(InOperation \ {c}) \in Nat
    BY <2>1, FS_CardinalityType
  <2>3. active = 1 => InOperation \ {c} = {}
    BY <2>1, <2>2, FS_EmptySet DEF Counted
  <2> QED
    BY <2>1, <2>2, <2>3 DEF Counted
<1> QED
  BY <1>1, <1>2, FS_EmptySet DEF Counted

\* A refresh.
LEMMA InvInstalls ==
    ASSUME PoolInv, Installs
    PROVE  PoolInv'
<1>1. /\ ~closed /\ UNCHANGED <<closed, active, pc, snap, closer, doomed>>
      /\ topology' \in Merged \cup {EmptyTopology}
      /\ clients' \in Tables /\ made' \in [Targets -> Nat]
      /\ KeyedBy(clients', made')
      /\ Born \subseteq Born' /\ Born' \subseteq Born \cup Held(clients')
      /\ Held(clients) \subseteq Born
  BY InstallEffects DEF PoolInv, closerVars
<1>2. PICK gone \in SUBSET Held(clients) :
         /\ \A x \in Held(clients') : x \notin Born \/ x \in Held(clients) \ gone
         /\ Held(clients) \subseteq Held(clients') \cup gone
         /\ \/ active = 0 /\ retired' = {} /\ dead' = dead \cup retired \cup gone
            \/ retired' = retired \cup gone /\ dead' = dead
  BY InstallEffects, Zenon DEF PoolInv
<1>3. coordinator_index' = coordinator_index
  BY DEF Installs, StreamInstalled, InstallFails, channels
<1>4. Types'
  BY <1>1, <1>3 DEF PoolInv, Types
<1>5. InOperation' = InOperation
  BY <1>1 DEF InOperation
<1>6. Counted'
  BY <1>1, <1>5 DEF PoolInv, Counted
<1>7. /\ Held(clients) \cap (retired \cup dead) = {} /\ retired \cap dead = {}
      /\ retired \cup dead \subseteq Born
  BY <1>1 DEF PoolInv, Placed
<1>8. /\ Held(clients') \cap (retired' \cup dead') = {} /\ retired' \cap dead' = {}
      /\ retired' \cup dead' \subseteq Born
  <2>1. Held(clients') \cap (retired \cup dead \cup gone) = {}
    BY <1>1, <1>2, <1>7
  <2>2. (retired \cup gone) \cap dead = {} /\ gone \subseteq Born
    BY <1>1, <1>7
  <2>3. CASE retired' = {} /\ dead' = dead \cup retired \cup gone
    BY <1>7, <2>1, <2>2, <2>3
  <2>4. CASE retired' = retired \cup gone /\ dead' = dead
    BY <1>7, <2>1, <2>2, <2>4
  <2> QED
    BY <1>2, <2>3, <2>4
<1>9. ASSUME NEW c \in InOperation
      PROVE  Held(snap'[c].clients) \subseteq Held(clients') \cup retired'
  <2>1. active # 0
    BY <1>9, ActiveSays DEF PoolInv
  <2>2. retired' = retired \cup gone
    BY <1>2, <2>1
  <2>3. Held(snap[c].clients) \subseteq Held(clients) \cup retired
    BY <1>1 DEF PoolInv, Placed
  <2> QED
    BY <1>1, <1>2, <2>2, <2>3
<1>10. Placed'
  BY <1>1, <1>5, <1>8, <1>9 DEF PoolInv, Placed
<1>11. Reachable'
  BY <1>1, <1>2 DEF PoolInv, Reachable
<1> QED
  BY <1>4, <1>6, <1>10, <1>11 DEF PoolInv

\* An operation that starts its first RPC.
LEMMA InvAcquires ==
    ASSUME PoolInv, NEW c \in Callers, Acquires(c), coordinator_index' \in Nat
    PROVE  PoolInv'
<1>1. /\ UNCHANGED <<topology, clients, made, retired, dead, closed, closer, doomed>>
      /\ Born' = Born
      /\ active' = active + 1
  BY DEF Acquires, closerVars, Born
<1>2. c \notin InOperation /\ InOperation' = InOperation \cup {c}
  BY DEF Acquires, InOperation, PoolInv, Types
<1>3. /\ snap' \in [Callers -> Snapshots]
      /\ snap'[c].clients = clients
      /\ \A d \in Callers : d # c => snap'[d] = snap[d]
  BY DEF Acquires, PoolInv, Types, Snapshots
<1>4. Types'
  BY <1>1, <1>3 DEF PoolInv, Types, Acquires
<1>5. Counted'
  <2>1. Cardinality(InOperation') = Cardinality(InOperation) + 1
    BY <1>2, ActiveSays, FS_AddElement DEF PoolInv
  <2> QED
    BY <1>1, <1>2, <1>3, <2>1 DEF PoolInv, Counted
<1>6. ASSUME ~closed, NEW d \in InOperation'
      PROVE  Held(snap'[d].clients) \subseteq Held(clients) \cup retired
  <2>1. CASE d = c
    BY <1>3, <2>1
  <2>2. CASE d # c
    BY <1>2, <1>3, <1>6, <2>2 DEF PoolInv, Placed, InOperation
  <2> QED
    BY <2>1, <2>2
<1>7. Placed' /\ Reachable'
  BY <1>1, <1>6 DEF PoolInv, Placed, Reachable
<1> QED
  BY <1>4, <1>5, <1>7 DEF PoolInv

\* An operation that ends.  The last one closes what is retired, and nobody else
\* holds any of it.
LEMMA InvReleases ==
    ASSUME PoolInv, NEW c \in Callers, GivesUp(c) \/ Releases(c), coordinator_index' \in Nat
    PROVE  PoolInv'
<1>1. /\ UNCHANGED <<topology, clients, made, closed, closer, doomed>>
      /\ Born' = Born
  BY DEF GivesUp, Releases, closerVars, Born
<1>2. /\ c \notin InOperation' /\ InOperation' = InOperation \ {c}
      /\ pc' \in [Callers -> {"idle", "wait", "rpc"}]
  BY DEF GivesUp, Releases, InOperation, PoolInv, Types
<1>3. /\ snap' \in [Callers -> Snapshots]
      /\ \A d \in Callers : d # c => snap'[d] = snap[d]
      /\ snap'[c] = NoSnap
  <2>1. NoSnap \in Snapshots
    BY DEF NoSnap, Snapshots, Tables, NoTable
  <2>2. CASE GivesUp(c)
    BY <1>2, <2>2 DEF GivesUp, InOperation, PoolInv, Types, Counted
  <2>3. CASE Releases(c)
    BY <2>1, <2>3 DEF Releases, PoolInv, Types
  <2> QED
    BY <2>2, <2>3
<1>4. /\ active' \in Nat /\ active' = Cardinality(InOperation')
      /\ \/ UNCHANGED <<retired, dead>>
         \/ retired' = {} /\ dead' = dead \cup retired /\ InOperation' = {}
  <2>1. CASE GivesUp(c)
    <3>1. active' = active /\ InOperation' = InOperation /\ active \in Nat
      BY <1>2, <2>1 DEF GivesUp, InOperation, PoolInv, Types
    <3>2. active + 1 = 1 => InOperation = {}
      BY <3>1, ActiveSays DEF PoolInv
    <3> QED
      BY <2>1, <3>1, <3>2 DEF GivesUp, LastOut, PoolInv, Counted
  <2>2. CASE Releases(c)
    <3>1. c \in InOperation
      BY <2>2 DEF Releases, InOperation
    <3> QED
      BY <1>2, <2>2, <3>1, ActiveSays DEF Releases, LastOut, PoolInv
  <2> QED
    BY <2>1, <2>2
<1>5. Types' /\ Counted'
  BY <1>1, <1>2, <1>3, <1>4 DEF PoolInv, Types, Counted
<1>6. ASSUME ~closed, NEW d \in InOperation'
      PROVE  Held(snap'[d].clients) \subseteq Held(clients) \cup retired'
  BY <1>2, <1>3, <1>4, <1>6 DEF PoolInv, Placed, InOperation
<1>7. Placed'
  BY <1>1, <1>4, <1>6 DEF PoolInv, Placed
<1>8. Reachable'
  BY <1>1, <1>4 DEF PoolInv, Reachable
<1> QED
  BY <1>5, <1>7, <1>8 DEF PoolInv

-----------------------------------------------------------------------------
(* close(). *)

Stopped == task \in {"none", "done"}

\* A close() that has begun has set _closed.
Flagged == \A k \in Closers : closer[k] \in {"join", "gather", "done"} => closed

\* The current channel is the only one that can be open, and none is when close()
\* has got past the refresh task.
ChannelsKnown ==
    /\ 0 \notin open_channels /\ open_channels \subseteq {coordinator_channel}
    /\ \A k \in Closers : closer[k] \in {"gather", "done"} => Stopped /\ open_channels = {}

\* What is not closed yet is in the hands of the gather.
Gathered ==
    \A k \in Closers :
        /\ closer[k] = "gather" => Born \ dead \subseteq doomed[k]
        /\ closer[k] = "done" => Born \subseteq dead

ShutInv == Flagged /\ ChannelsKnown /\ Gathered

\* The steps close() is made of, or that it could be disturbed by.
LEMMA CloseSteps ==
    ASSUME Types, [Next]_vars
    PROVE  \/ \E k \in Closers :
                 \/ CloseBegin(k) \/ CloseJoined(k) \/ CloseEnds(k) \/ CloseCancelled(k)
                 \/ \E x \in doomed[k] : CloseClient(k, x)
           \/ /\ closed' = closed /\ doomed' = doomed
              /\ closer' \in [Closers -> {"idle", "returned", "join", "gather", "done", "cancelled"}]
              /\ \A k \in Closers : closer'[k] = closer[k] \/ closer'[k] = "returned"
              /\ \/ /\ UNCHANGED channels
                    /\ Stopped /\ closed => Stopped'
                 \/ ~Stopped /\ Connect
<1> USE DEF Types
<1>1. CASE UNCHANGED vars
  BY <1>1 DEF vars, closerVars, refreshVars, channels, Stopped
<1>2. CASE Round \/ Attempt
  BY <1>2 DEF Round, Attempt, closerVars, Stopped
<1>3. CASE StreamFails \/ Cancelled \/ \E new \in Merged : StreamInstalled(new) \/ InstallFails(new)
  BY <1>3 DEF StreamFails, Cancelled, StreamInstalled, InstallFails, RetryOrSleep, closerVars,
     Stopped, channels
<1>4. ASSUME NEW c \in Callers, EnterClosed(c) \/ Enter(c) \/ CallStep(c)
      PROVE  /\ UNCHANGED <<closed, closerVars, channels>>
             /\ Stopped /\ closed => Stopped'
  BY <1>4 DEF EnterClosed, Enter, CallStep, WaitFails, Proceed, Ended, Unavailable,
     FailedPrecondition, Second, closerVars, channels, refreshVars, Stopped
<1>5. ASSUME NEW k \in Closers, CloseAgain(k)
      PROVE  /\ closed' = closed /\ doomed' = doomed /\ UNCHANGED <<channels, task>>
             /\ closer' \in [Closers -> {"idle", "returned", "join", "gather", "done", "cancelled"}]
             /\ \A j \in Closers : closer'[j] = closer[j] \/ closer'[j] = "returned"
  BY <1>5 DEF CloseAgain, refreshVars
<1> QED
  BY <1>1, <1>2, <1>3, <1>4, <1>5, Zenon DEF Next, RefreshTask, CloseStep, Stopped, closerVars

\* The variables of close() keep their types, and it closes nothing but clients
\* that exist.
LEMMA CloserTypes ==
    ASSUME PoolInv, [Next]_vars
    PROVE  /\ coordinator_index' \in Nat
           /\ closer' \in [Closers -> {"idle", "returned", "join", "gather", "done", "cancelled"}]
           /\ doomed' \in [Closers -> SUBSET Client]
           /\ \A k \in Closers : doomed'[k] \subseteq Born
<1>1. Held(clients) \cup retired \subseteq Born
  BY DEF PoolInv, Placed, KeyedBy, Held, Born, Creations
<1>2. Born \subseteq Client
  <2>1. Born = Creations(made)
    BY DEF Born, Creations
  <2> QED
    BY <2>1, CreationsIff DEF PoolInv, Types
<1>3. \A k \in Closers : doomed[k] \subseteq Born
  BY DEF PoolInv, Placed
<1>4. ASSUME NEW k \in Closers, Gather(k), coordinator_index' = coordinator_index
      PROVE  /\ coordinator_index' \in Nat
             /\ closer' \in [Closers -> {"idle", "returned", "join", "gather", "done", "cancelled"}]
             /\ doomed' \in [Closers -> SUBSET Client]
             /\ \A j \in Closers : doomed'[j] \subseteq Born
  <2>1. Doomed \subseteq Born
    BY <1>1 DEF Doomed
  <2> QED
    BY <1>2, <1>3, <1>4, <2>1 DEF Gather, PoolInv, Types
<1>5. ASSUME NEW k \in Closers, CloseBegin(k)
      PROVE  /\ coordinator_index' \in Nat
             /\ closer' \in [Closers -> {"idle", "returned", "join", "gather", "done", "cancelled"}]
             /\ doomed' \in [Closers -> SUBSET Client]
             /\ \A j \in Closers : doomed'[j] \subseteq Born
  <2>1. CASE task = "none"
    BY <1>4, <1>5, <2>1 DEF CloseBegin
  <2>2. CASE task # "none"
    BY <1>3, <1>5, <2>2 DEF CloseBegin, PoolInv, Types
  <2> QED
    BY <2>1, <2>2
<1>6. ASSUME NEW k \in Closers, CloseJoined(k)
      PROVE  Gather(k) /\ coordinator_index' = coordinator_index
  BY <1>6 DEF CloseJoined
<1>7. ASSUME NEW k \in Closers,
             CloseEnds(k) \/ CloseCancelled(k) \/ \E x \in doomed[k] : CloseClient(k, x)
      PROVE  /\ coordinator_index' \in Nat
             /\ closer' \in [Closers -> {"idle", "returned", "join", "gather", "done", "cancelled"}]
             /\ doomed' \in [Closers -> SUBSET Client]
             /\ \A j \in Closers : doomed'[j] \subseteq Born
  BY <1>3, <1>7 DEF CloseEnds, CloseCancelled, CloseClient, channels, PoolInv, Types
<1>8. CASE /\ doomed' = doomed
           /\ closer' \in [Closers -> {"idle", "returned", "join", "gather", "done", "cancelled"}]
           /\ UNCHANGED channels \/ Connect
  BY <1>3, <1>8 DEF channels, Connect, PoolInv, Types
<1> QED
  BY <1>4, <1>5, <1>6, <1>7, <1>8, CloseSteps DEF PoolInv

\* Every step of every task keeps the clients in their places.
LEMMA PoolInvStep ==
    ASSUME PoolInv, ShutInv, [Next]_vars
    PROVE  PoolInv'
<1>1. /\ coordinator_index' \in Nat
      /\ closer' \in [Closers -> {"idle", "returned", "join", "gather", "done", "cancelled"}]
      /\ doomed' \in [Closers -> SUBSET Client]
      /\ \A k \in Closers : doomed'[k] \subseteq Born
  BY CloserTypes
<1>2. ASSUME NEW k \in Closers, CloseEnds(k)
      PROVE  PoolInv'
  <2>1. /\ clients' = NoTable /\ retired' = {}
        /\ UNCHANGED <<closed, topology, made, active, dead, pc, snap>>
        /\ closed /\ Born \subseteq dead
    BY <1>2 DEF CloseEnds, callerVars, ShutInv, Flagged, Gathered
  <2>2. Born' = Born /\ InOperation' = InOperation
    BY <2>1 DEF Born, InOperation
  <2>3. clients' \in Tables /\ KeyedBy(clients', made')
    BY <2>1 DEF NoTable, Tables, KeyedBy
  <2>4. Types' /\ Counted'
    BY <1>1, <2>1, <2>2, <2>3 DEF PoolInv, Types, Counted
  <2>5. Placed' /\ Reachable'
    BY <1>1, <2>1, <2>2, <2>3 DEF PoolInv, Placed, Reachable
  <2> QED
    BY <2>4, <2>5 DEF PoolInv
<1>3. ASSUME NEW k \in Closers, NEW x \in doomed[k], CloseClient(k, x)
      PROVE  PoolInv'
  <2>1. /\ dead' = dead \cup {x} /\ closed
        /\ UNCHANGED <<closed, topology, clients, made, retired, active, pc, snap>>
    BY <1>3 DEF CloseClient, directory, callerVars, ShutInv, Flagged
  <2>2. Born' = Born /\ InOperation' = InOperation /\ x \in Born
    BY <2>1 DEF Born, InOperation, PoolInv, Placed
  <2>3. Types' /\ Counted'
    BY <1>1, <2>1, <2>2 DEF PoolInv, Types, Counted
  <2>4. Placed' /\ Reachable'
    BY <1>1, <2>1, <2>2 DEF PoolInv, Placed, Reachable
  <2> QED
    BY <2>3, <2>4 DEF PoolInv
<1>4. CASE Quiet
  <2>1. /\ UNCHANGED <<topology, clients, made, retired, dead, active, snap>>
        /\ pc' \in [Callers -> {"idle", "wait", "rpc"}]
        /\ InOperation' = InOperation
        /\ closed' = closed \/ closed' = TRUE
    BY <1>4 DEF Quiet
  <2>2. Born' = Born
    BY <2>1 DEF Born
  <2>3. Types' /\ Counted'
    BY <1>1, <2>1 DEF PoolInv, Types, Counted
  <2>4. Placed' /\ Reachable'
    BY <1>1, <2>1, <2>2 DEF PoolInv, Placed, Reachable
  <2> QED
    BY <2>3, <2>4 DEF PoolInv
<1> QED
  BY <1>1, <1>2, <1>3, <1>4, TaskSteps, InvInstalls, InvAcquires, InvReleases DEF PoolInv

\* After close() has begun no client is created, and none comes back to life.
LEMMA NothingCreated ==
    ASSUME PoolInv, [Next]_vars
    PROVE  dead \subseteq dead' /\ (closed => Born' = Born)
<1>1. CASE Installs
  <2>1. ~closed
    BY <1>1, InstallEffects DEF PoolInv
  <2>2. dead \subseteq dead'
    BY <1>1 DEF Installs, StreamInstalled, InstallFails, Reap
  <2> QED
    BY <2>1, <2>2
<1>2. CASE \/ \E c \in Callers : Acquires(c) \/ GivesUp(c) \/ Releases(c)
           \/ \E k \in Closers : CloseEnds(k) \/ \E x \in doomed[k] : CloseClient(k, x)
           \/ Quiet
  <2>1. made' = made /\ dead \subseteq dead'
    BY <1>2 DEF Acquires, GivesUp, Releases, LastOut, CloseEnds, CloseClient, Quiet, directory
  <2> QED
    BY <2>1 DEF Born
<1> QED
  BY <1>1, <1>2, TaskSteps DEF PoolInv

\* Every step keeps what close() relies on.
LEMMA ShutInvStep ==
    ASSUME PoolInv, ShutInv, [Next]_vars
    PROVE  ShutInv'
<1>1. dead \subseteq dead' /\ (closed => Born' = Born)
  BY NothingCreated
<1>2. ASSUME NEW k \in Closers, closer[k] \in {"gather", "done"}
      PROVE  closed /\ Stopped /\ open_channels = {} /\ Born' = Born
  BY <1>1, <1>2 DEF ShutInv, Flagged, ChannelsKnown
<1>3. ASSUME NEW k \in Closers, Gather(k), closed', Stopped', UNCHANGED <<made, dead>>
      PROVE  ShutInv'
  <2>1. /\ open_channels' = {} /\ coordinator_channel' = 0
        /\ doomed'[k] = Held(clients) \cup retired /\ closer'[k] = "gather"
        /\ \A j \in Closers : j # k => doomed'[j] = doomed[j] /\ closer'[j] = closer[j]
    BY <1>3 DEF Gather, Doomed, ShutInv, ChannelsKnown, PoolInv, Types
  <2>2. Born' = Born
    BY <1>3 DEF Born
  <2>3. Born' \ dead' \subseteq doomed'[k]
    BY <1>3, <2>1, <2>2 DEF PoolInv, Reachable
  <2> QED
    BY <1>3, <2>1, <2>2, <2>3 DEF ShutInv, Flagged, ChannelsKnown, Gathered
<1>4. ASSUME NEW k \in Closers, CloseBegin(k)
      PROVE  ShutInv'
  <2>1. closed' = TRUE /\ task' = task /\ UNCHANGED <<made, dead>>
    BY <1>4 DEF CloseBegin, directory, usage
  <2>2. CASE task = "none"
    BY <1>3, <1>4, <2>1, <2>2 DEF CloseBegin, Stopped
  <2>3. CASE task # "none"
    <3>1. /\ UNCHANGED <<open_channels, coordinator_channel, doomed>>
          /\ closer' = [closer EXCEPT ![k] = "join"]
      BY <1>4, <2>3 DEF CloseBegin
    <3>2. Born' = Born
      BY <2>1 DEF Born
    <3> QED
      BY <2>1, <3>1, <3>2 DEF ShutInv, Flagged, ChannelsKnown, Gathered, Stopped, PoolInv, Types
  <2> QED
    BY <2>2, <2>3
<1>5. ASSUME NEW k \in Closers, CloseJoined(k)
      PROVE  ShutInv'
  <2>1. /\ Gather(k) /\ UNCHANGED <<made, dead, closed, task>> /\ task = "done"
        /\ closed
    BY <1>5 DEF CloseJoined, directory, usage, refreshVars, ShutInv, Flagged
  <2> QED
    BY <1>3, <2>1 DEF Stopped
<1>6. ASSUME NEW k \in Closers, NEW x \in doomed[k], CloseClient(k, x)
      PROVE  ShutInv'
  <2>1. /\ closer[k] = "gather" /\ dead' = dead \cup {x}
        /\ doomed' = [doomed EXCEPT ![k] = @ \ {x}]
        /\ UNCHANGED <<closer, closed, channels, task>>
    BY <1>6 DEF CloseClient, refreshVars
  <2>2. Born' = Born
    BY <1>2, <2>1
  <2>3. \A j \in Closers : doomed[j] \subseteq doomed'[j] \cup {x}
    BY <2>1 DEF PoolInv, Types
  <2> QED
    BY <2>1, <2>2, <2>3 DEF ShutInv, Flagged, ChannelsKnown, Gathered, Stopped, channels
<1>7. ASSUME NEW k \in Closers, CloseEnds(k)
      PROVE  ShutInv'
  <2>1. /\ closer[k] = "gather" /\ doomed[k] = {}
        /\ closer' = [closer EXCEPT ![k] = "done"]
        /\ UNCHANGED <<closed, dead, doomed, channels, task>>
    BY <1>7 DEF CloseEnds, refreshVars
  <2>2. Born' = Born /\ closed /\ Stopped /\ open_channels = {} /\ Born \subseteq dead
    BY <1>2, <2>1 DEF ShutInv, Gathered
  <2> QED
    BY <2>1, <2>2 DEF ShutInv, Flagged, ChannelsKnown, Gathered, Stopped, channels, PoolInv, Types
<1>8. ASSUME NEW k \in Closers, CloseCancelled(k)
      PROVE  ShutInv'
  <2>1. /\ closer' = [closer EXCEPT ![k] = "cancelled"]
        /\ doomed' = [doomed EXCEPT ![k] = {}]
        /\ UNCHANGED <<closed, dead, made, channels, task>>
    BY <1>8 DEF CloseCancelled, directory, usage, refreshVars
  <2>2. Born' = Born
    BY <2>1 DEF Born
  <2> QED
    BY <2>1, <2>2 DEF ShutInv, Flagged, ChannelsKnown, Gathered, Stopped, channels, PoolInv, Types
<1>9. CASE /\ closed' = closed /\ doomed' = doomed
           /\ \A k \in Closers : closer'[k] = closer[k] \/ closer'[k] = "returned"
           /\ \/ /\ UNCHANGED channels
                 /\ Stopped /\ closed => Stopped'
              \/ ~Stopped /\ Connect
  <2>1. Flagged'
    BY <1>9 DEF ShutInv, Flagged
  <2>2. Gathered'
    BY <1>1, <1>2, <1>9 DEF ShutInv, Gathered
  <2>3. ChannelsKnown'
    <3>1. CASE UNCHANGED channels /\ (Stopped /\ closed => Stopped')
      BY <1>2, <1>9, <3>1 DEF ShutInv, ChannelsKnown, channels
    <3>2. CASE ~Stopped /\ Connect
      <4>1. \A k \in Closers : closer'[k] \notin {"gather", "done"}
        BY <1>2, <1>9, <3>2
      <4>2. /\ coordinator_index \in Nat
            /\ coordinator_channel' = coordinator_index + 1
            /\ open_channels' = (open_channels \ {coordinator_channel}) \cup {coordinator_index + 1}
        BY <3>2 DEF Connect, PoolInv, Types
      <4> QED
        BY <4>1, <4>2 DEF ShutInv, ChannelsKnown
    <3> QED
      BY <1>9, <3>1, <3>2
  <2> QED
    BY <2>1, <2>2, <2>3 DEF ShutInv
<1> QED
  BY <1>4, <1>5, <1>6, <1>7, <1>8, <1>9, CloseSteps DEF PoolInv

\* Both hold throughout.
LEMMA AsyncAlways == Spec => [](PoolInv /\ ShutInv)
<1>1. Init => PoolInv /\ ShutInv
  <2> SUFFICES ASSUME Init PROVE PoolInv /\ ShutInv
    OBVIOUS
  <2>1. /\ InOperation = {} /\ Held(clients) = {}
    BY DEF Init, InOperation, Held, NoTable
  <2>2. Born = {}
    BY DEF Init, Born
  <2>3. Types
    BY DEF Init, Types, Tables, NoTable, Snapshots, NoSnap
  <2>4. Counted /\ Placed /\ Reachable
    BY <2>1, <2>2, FS_EmptySet DEF Init, Counted, Placed, Reachable, KeyedBy, NoTable
  <2>5. ShutInv
    BY DEF Init, ShutInv, Flagged, ChannelsKnown, Gathered
  <2> QED
    BY <2>3, <2>4, <2>5 DEF PoolInv
<1>2. (PoolInv /\ ShutInv) /\ [Next]_vars => (PoolInv /\ ShutInv)'
  BY PoolInvStep, ShutInvStep
<1> QED
  BY <1>1, <1>2, PTL DEF Spec

\* Until close() begins, whatever tasks are cancelled and wherever refreshes stop,
\* every client that was made and not closed is offered or retired.
THEOREM AsyncNothingLost == Spec => []NoClientLost
<1>1. PoolInv => NoClientLost
  BY DEF PoolInv, Reachable, NoClientLost
<1> QED
  BY <1>1, AsyncAlways, PTL

\* A close() that returns has released every channel and every node client: the
\* refresh task has ended when close() looks for clients, so the two gathers miss
\* nothing, and it does not need operations to be over.
THEOREM AsyncCloseReleases == Spec => []CloseReleasesAll
<1>1. ShutInv => CloseReleasesAll
  BY DEF ShutInv, ChannelsKnown, Gathered, CloseReleasesAll
<1> QED
  BY <1>1, AsyncAlways, PTL

-----------------------------------------------------------------------------
(* The tasks implement the pool.  First each action of ClientPool under    *)
(* the refinement mapping, in the terms of AsyncSmartClient.               *)

Parked == retired \ dead

Holds == [c \in Callers |-> Held(snap[c].clients)]

\* Clients are published, parked and freed before close().
LEMMA PoolRecycles ==
    ASSUME ~closed, closed' = closed, snap' = snap,
           (Held(clients') \ Held(clients)) \cap (Parked \cup dead) = {},
           dead \subseteq dead',
           dead' \ dead \subseteq Parked \cup (Held(clients) \ Held(clients')),
           \A c \in Callers : Held(snap[c].clients) \cap (dead' \ dead) = {},
           Parked' = (Parked \cup (Held(clients) \ Held(clients'))) \ (dead' \ dead)
    PROVE  Pool!Next
<1>1. (dead' \ dead) \cap Pool!InUse = {}
  BY DEF Pool!InUse
<1>2. Pool!Recycle
  BY <1>1 DEF Pool!Recycle, Parked
<1> QED
  BY <1>2 DEF Pool!Next

\* Clients are freed after close() has begun.
LEMMA PoolDismantles ==
    ASSUME closed, closed' = closed, snap' = snap,
           dead \subseteq dead',
           (Held(clients') \ Held(clients)) \cap dead' = {}
    PROVE  Pool!Next
<1>1. Pool!Dismantle
  BY DEF Pool!Dismantle
<1> QED
  BY <1>1 DEF Pool!Next

\* An operation that is not in an RPC holds nothing.
LEMMA IdleHoldsNothing ==
    ASSUME PoolInv, NEW c \in Callers, c \notin InOperation
    PROVE  Held(snap[c].clients) = {}
  BY DEF PoolInv, Counted, NoSnap, NoTable, Held

\* A refresh recycles.
LEMMA PoolInstalls ==
    ASSUME PoolInv, Installs
    PROVE  Pool!Next
<1>1. /\ ~closed /\ UNCHANGED <<closed, active, pc, snap>>
      /\ Held(clients) \subseteq Born
  BY InstallEffects DEF PoolInv
<1>2. PICK gone \in SUBSET Held(clients) :
         /\ \A x \in Held(clients') : x \notin Born \/ x \in Held(clients) \ gone
         /\ Held(clients) \subseteq Held(clients') \cup gone
         /\ \/ active = 0 /\ retired' = {} /\ dead' = dead \cup retired \cup gone
            \/ retired' = retired \cup gone /\ dead' = dead
  BY InstallEffects, Zenon DEF PoolInv
<1>3. /\ Held(clients) \cap (retired \cup dead) = {}
      /\ retired \cup dead \subseteq Born
  BY <1>1 DEF PoolInv, Placed
<1>4. Held(clients) \ Held(clients') = gone
  BY <1>1, <1>2
<1>5. (Held(clients') \ Held(clients)) \cap (Parked \cup dead) = {}
  BY <1>2, <1>3 DEF Parked
<1>6. \A c \in Callers : Held(snap[c].clients) \cap (dead' \ dead) = {}
  <2>1. CASE active = 0
    <3>1. InOperation = {}
      BY <2>1, ActiveSays DEF PoolInv
    <3> QED
      BY <3>1, IdleHoldsNothing
  <2>2. CASE dead' = dead
    BY <2>2
  <2> QED
    BY <1>2, <2>1, <2>2
<1>7. /\ dead \subseteq dead'
      /\ dead' \ dead \subseteq Parked \cup gone
      /\ Parked' = (Parked \cup gone) \ (dead' \ dead)
  BY <1>2, <1>3 DEF Parked
<1> QED
  BY <1>1, <1>4, <1>5, <1>6, <1>7, PoolRecycles

\* The copy an operation takes is the acquisition of what is offered.
LEMMA PoolAcquires ==
    ASSUME PoolInv, NEW c \in Callers, Acquires(c)
    PROVE  Pool!Next
<1>1. UNCHANGED <<clients, retired, dead, closed>>
  BY DEF Acquires
<1>2. snap'[c].clients = clients /\ \A d \in Callers : d # c => snap'[d] = snap[d]
  BY DEF Acquires, PoolInv, Types
<1>3. Holds' = [Holds EXCEPT ![c] = Held(clients)]
  <2>1. ASSUME NEW d \in Callers
        PROVE  Holds'[d] = IF d = c THEN Held(clients) ELSE Holds[d]
    BY <1>2 DEF Holds
  <2>2. /\ Holds' = [d \in Callers |-> Holds'[d]]
        /\ Holds = [d \in Callers |-> Holds[d]]
    BY DEF Holds
  <2> HIDE DEF Holds
  <2> QED
    BY <2>1, <2>2
<1>4. Pool!Acquire(c)
  BY <1>1, <1>3 DEF Pool!Acquire, Holds
<1> QED
  BY <1>4 DEF Pool!Next

\* The end of an operation is the release; the last one frees what is parked.
LEMMA PoolReleases ==
    ASSUME PoolInv, NEW c \in Callers, Releases(c)
    PROVE  Pool!Next
<1>1. /\ UNCHANGED <<clients, closed>>
      /\ c \in InOperation
      /\ snap'[c] = NoSnap /\ \A d \in Callers : d # c => snap'[d] = snap[d]
      /\ \/ UNCHANGED <<retired, dead>>
         \/ retired' = {} /\ dead' = dead \cup retired /\ active = 1
  BY DEF Releases, LastOut, InOperation, PoolInv, Types
<1>2. Holds' = [Holds EXCEPT ![c] = {}]
  <2>1. ASSUME NEW d \in Callers
        PROVE  Holds'[d] = IF d = c THEN {} ELSE Holds[d]
    <3>1. CASE d = c
      BY <1>1, <3>1 DEF Holds, NoSnap, NoTable, Held
    <3>2. CASE d # c
      BY <1>1, <3>2 DEF Holds
    <3> QED
      BY <3>1, <3>2
  <2>2. /\ Holds' = [d \in Callers |-> Holds'[d]]
        /\ Holds = [d \in Callers |-> Holds[d]]
    BY DEF Holds
  <2> HIDE DEF Holds
  <2> QED
    BY <2>1, <2>2
<1>3. (dead' \ dead) \cap UNION {Holds'[d] : d \in Callers} = {}
  <2>1. CASE dead' = dead
    BY <2>1
  <2>2. CASE active = 1
    <3>1. InOperation = {c}
      BY <1>1, <2>2, ActiveSays DEF PoolInv
    <3>2. \A d \in Callers : d # c => Holds[d] = {}
      BY <3>1, IdleHoldsNothing DEF Holds
    <3>3. \A d \in Callers : Holds'[d] = {}
      <4> HIDE DEF Holds
      <4>1. Holds = [d \in Callers |-> Holds[d]]
        BY DEF Holds
      <4> QED
        BY <1>2, <3>2, <4>1
    <3> QED
      BY <3>3
  <2> QED
    BY <1>1, <2>1, <2>2
<1>4. dead \subseteq dead' /\ dead' \ dead \subseteq Parked /\ Parked' = Parked \ (dead' \ dead)
  BY <1>1 DEF Parked
<1>5. Pool!Release(c)
  BY <1>1, <1>2, <1>3, <1>4 DEF Pool!Release, Holds, Parked
<1> QED
  BY <1>5 DEF Pool!Next

\* An operation that ends without an RPC recycles: it frees what is parked when
\* nobody is in one.
LEMMA PoolGivesUp ==
    ASSUME PoolInv, NEW c \in Callers, GivesUp(c)
    PROVE  [Pool!Next]_(Pool!vars)
<1>1. /\ UNCHANGED <<clients, closed, snap>>
      /\ \/ UNCHANGED <<retired, dead>>
         \/ retired' = {} /\ dead' = dead \cup retired /\ active + 1 = 1
  BY DEF GivesUp, LastOut
<1>2. CASE UNCHANGED <<retired, dead>>
  BY <1>1, <1>2 DEF Pool!vars
<1>3. CASE retired' = {} /\ dead' = dead \cup retired /\ active + 1 = 1
  <2>1. active = 0
    BY <1>3 DEF PoolInv, Types
  <2>2. \A d \in Callers : Held(snap[d].clients) = {}
    BY <2>1, ActiveSays, IdleHoldsNothing DEF PoolInv
  <2>3. /\ dead' \ dead \subseteq Parked
        /\ Parked' = Parked \ (dead' \ dead)
    BY <1>3 DEF Parked
  <2>4. CASE closed
    BY <1>1, <1>3, <2>4, PoolDismantles
  <2>5. CASE ~closed
    BY <1>1, <1>3, <2>2, <2>3, <2>5, PoolRecycles
  <2> QED
    BY <2>4, <2>5
<1> QED
  BY <1>1, <1>2, <1>3

\* close() dismantles.
LEMMA PoolCloses ==
    ASSUME PoolInv, ShutInv, NEW k \in Closers,
           CloseEnds(k) \/ \E x \in doomed[k] : CloseClient(k, x)
    PROVE  Pool!Next
<1>1. /\ closed /\ UNCHANGED <<closed, snap>>
      /\ dead \subseteq dead'
      /\ clients' = clients \/ clients' = NoTable
  BY DEF CloseEnds, CloseClient, ShutInv, Flagged, directory, callerVars
<1>2. (Held(clients') \ Held(clients)) \cap dead' = {}
  BY <1>1 DEF Held, NoTable
<1> QED
  BY <1>1, <1>2, PoolDismantles

\* Every step of every task is a step of the pool or invisible in it.
LEMMA PoolStep ==
    ASSUME PoolInv, ShutInv, [Next]_vars
    PROVE  [Pool!Next]_(Pool!vars)
<1>1. CASE Quiet
  <2>1. UNCHANGED <<clients, retired, dead, snap>> /\ (closed' = closed \/ closed' = TRUE)
    BY <1>1 DEF Quiet
  <2>2. CASE closed' = closed
    BY <2>1, <2>2 DEF Pool!vars
  <2>3. CASE closed' = TRUE
    BY <2>1, <2>3 DEF Pool!Next, Pool!ShutDown
  <2> QED
    BY <2>1, <2>2, <2>3
<1>2. CASE Installs
  BY <1>2, PoolInstalls
<1>3. ASSUME NEW c \in Callers, Acquires(c) \/ GivesUp(c) \/ Releases(c)
      PROVE  [Pool!Next]_(Pool!vars)
  BY <1>3, PoolAcquires, PoolReleases, PoolGivesUp
<1>4. ASSUME NEW k \in Closers, CloseEnds(k) \/ \E x \in doomed[k] : CloseClient(k, x)
      PROVE  [Pool!Next]_(Pool!vars)
  BY <1>4, PoolCloses
<1> QED
  BY <1>1, <1>2, <1>3, <1>4, TaskSteps DEF PoolInv

\* The tasks of one event loop, which share no lock, implement the same pool as
\* the threads do, wherever they are cancelled.
THEOREM AsyncRefinesPool == Spec => ImplementsPool
<1>1. Init => Pool!Init
  <2> SUFFICES ASSUME Init PROVE Pool!Init
    OBVIOUS
  <2>1. Held(clients) = {} /\ \A c \in Callers : Held(snap[c].clients) = {}
    BY DEF Init, Held, NoTable, NoSnap
  <2> QED
    BY <2>1 DEF Init, Pool!Init
<1>2. (PoolInv /\ ShutInv) /\ [Next]_vars => [Pool!Next]_(Pool!vars)
  BY PoolStep
<1> QED
  BY <1>1, <1>2, AsyncAlways, PTL DEF Spec, ImplementsPool, Pool!Spec
=============================================================================
