----------------------- MODULE SmartGuaranteesProofs ------------------------
(***************************************************************************)
(* What users of SmartClient may rely on, proved: where its operations are *)
(* sent and by which dictionaries they are routed; how its threads share   *)
(* and give back what they open, so that close() releases everything when  *)
(* it finds the refresher stopped and the threads implement ClientPool.    *)
(***************************************************************************)
EXTENDS SmartClientProofs

-----------------------------------------------------------------------------
(* Which nodes an operation is sent to, in which order. *)

\* The endpoints of an operation begin with the master of its shard where writes
\* have the master first.
MasterFirst(c) ==
    (is_write(call[c].name) /\ call[c].override = "NONE" /\ MasterOf(c) # NoClient)
    => tried[c][1] = MasterOf(c)

\* The endpoints are at most two and different; what was tried begins with the
\* first of them and has at most two entries, different ones.
Attempts(c) ==
    /\ Len(endpoints[c]) <= 2
    /\ Len(endpoints[c]) = 2 => endpoints[c][1] # endpoints[c][2]
    /\ Len(tried[c]) <= 2
    /\ Len(tried[c]) = 2 => tried[c][1] # tried[c][2]
    /\ tried[c] # <<>> => endpoints[c] # <<>> /\ tried[c][1] = endpoints[c][1]
    /\ tried[c] # <<>> => MasterFirst(c)

\* Sequences of at most two elements.
LEMMA ShortSeq ==
    ASSUME NEW S, NEW q \in Seq(S)
    PROVE  /\ Len(q) \in 1..2 => q # <<>> /\ Len(q) <= 2
           /\ Len(q) = 1 => q # <<>>
           /\ Len(q) <= 2 /\ Len(q) >= 2 => Len(q) = 2 /\ q[2] \in S
<1> DEFINE n == Len(q)
<1>1. n \in Nat /\ (q = <<>> <=> n = 0)
  OBVIOUS
<1>2. n = 2 => q[2] \in S
  OBVIOUS
<1> HIDE DEF n
<1>3. /\ n \in 1..2 => q # <<>> /\ n <= 2
      /\ n = 1 => q # <<>>
      /\ n <= 2 /\ n >= 2 => n = 2 /\ q[2] \in S
  BY <1>1, <1>2
<1> QED
  BY <1>3 DEF n

\* A write is offered the master first, whatever mode the client is configured
\* with, because its own mode replaces it.
LEMMA WriteEndpoints ==
    ASSUME NEW master, NEW backup, NEW coin, NEW configured,
           master # NoClient
    PROVE  EndpointsFor(master, backup, NoClient,
                        ModeFor("NONE", TRUE, configured), coin)[1] = master
<1> DEFINE mode == ModeFor("NONE", TRUE, configured)
           found == EndpointsFor(master, backup, NoClient, mode, coin)
<1>1. mode = "MASTER_THEN_BACKUP"
  BY DEF ModeFor
<1> HIDE DEF mode
<1>2. found = <<master>> \/ found = <<master, backup>>
  <2>1. CASE backup = NoClient \/ master = backup
    BY <2>1 DEF EndpointsFor
  <2>2. CASE ~(backup = NoClient \/ master = backup)
    <3>1. mode # "MASTER" /\ mode # "BACKUP" /\ mode # "LB_SMART"
      BY <1>1
    <3> QED
      BY <2>2, <3>1 DEF EndpointsFor
  <2> QED
    BY <2>1, <2>2
<1>3. found[1] = master
  <2> HIDE DEF found
  <2> QED
    BY <1>2
<1> QED
  BY <1>3 DEF mode

\* Routing an operation.
LEMMA AttemptsRoute ==
    ASSUME TypeInv, NEW c \in Callers, Sourced(c),
           NEW name \in Operations, NEW override \in Overrides,
           NEW hint \in Hints \cup {NoHint}, NEW coin \in BOOLEAN,
           Route(c, name, override, hint, coin)
    PROVE  Attempts(c)'
<1> DEFINE modulus == snap[c].topology.max_shards
           shard == IF hint = NoHint THEN NextRandom % modulus
                                     ELSE (hint % HashModulus) % modulus
           found == Candidates(c, name, override, shard, coin)
<1>1. /\ pc[c] = "route"
      /\ call'[c] = [name |-> name, override |-> override, shard |-> shard]
      /\ snap' = snap
  BY DEF Route, TypeInv, TypeOK
<1>2. CASE found[1] = NoClient
  <2>1. tried'[c] = <<>> /\ endpoints'[c] = <<>>
    BY <1>1, <1>2 DEF Route, Sourced
  <2> QED
    BY <2>1 DEF Attempts
<1>3. CASE found[1] # NoClient
  <2>1. endpoints'[c] = found /\ tried'[c] = <<found[1]>>
    BY <1>3 DEF Route, TypeInv, TypeOK
  <2>2. /\ found \in Seq(Client)
        /\ Len(found) \in 1..2
        /\ Len(found) = 2 => found[1] # found[2]
    BY <1>3, CandidatesFromSnapshot DEF TypeInv
  <2> DEFINE master == Get(snap[c].clients, RouteOf(snap[c].topology, "MASTER", shard))
             backup == Get(snap[c].clients, RouteOf(snap[c].topology, "BACKUP", shard))
  <2>3. MasterFirst(c)'
    <3>1. MasterOf(c)' = master
      BY <1>1 DEF MasterOf
    <3>2. SUFFICES ASSUME is_write(name), override = "NONE", master # NoClient
                   PROVE  found[1] = master
      BY <1>1, <2>1, <3>1 DEF MasterFirst
    <3>3. is_write(name) = TRUE
      BY <3>2 DEF is_write
    <3>4. found = EndpointsFor(master, backup, NoClient,
                               ModeFor("NONE", TRUE, ConfiguredMode), coin)
      BY <3>2, <3>3 DEF Candidates
    <3> HIDE DEF found, master, backup
    <3> QED
      BY <3>2, <3>4, WriteEndpoints
  <2> HIDE DEF found
  <2>4. Len(tried'[c]) = 1 /\ tried'[c][1] = found[1]
    BY <2>1, <2>2
  <2>5. endpoints'[c] # <<>> /\ Len(endpoints'[c]) <= 2
    BY <2>1, <2>2, ShortSeq
  <2> QED
    BY <2>1, <2>2, <2>3, <2>4, <2>5 DEF Attempts
<1> QED
  BY <1>2, <1>3

\* Sending an operation once more, to a client that was not tried.
LEMMA AttemptsAgain ==
    ASSUME TypeInv, NEW c \in Callers, Attempts(c), NEW other \in Client,
           Len(tried[c]) = 1, other # tried[c][1], TryAgain(c, other),
           UNCHANGED <<snap, call, endpoints>>
    PROVE  Attempts(c)'
<1>1. tried[c] \in Seq(Client) /\ tried'[c] = Append(tried[c], other)
  BY DEF TypeInv, TypeOK, TryAgain
<1>2. /\ Len(tried'[c]) = 2 /\ tried'[c][1] = tried[c][1] /\ tried'[c][2] = other
      /\ tried[c] # <<>>
  BY <1>1
<1>3. MasterFirst(c)'
  BY <1>2 DEF Attempts, MasterFirst, MasterOf
<1> QED
  BY <1>2, <1>3 DEF Attempts

\* Every step of the operation itself.
LEMMA AttemptsCaller ==
    ASSUME TypeInv, NEW c \in Callers, Sourced(c), Attempts(c), Caller(c)
    PROVE  Attempts(c)'
<1>1. ASSUME UNCHANGED <<snap[c], call[c], endpoints[c], tried[c]>>
      PROVE  Attempts(c)'
  BY <1>1 DEF Attempts, MasterFirst, MasterOf
<1>2. CASE \/ EnterWhenClosed(c) \/ Enter(c) \/ ReadyTimeout(c) \/ CallClosed(c) \/ CallStarts(c)
           \/ Return(c) \/ \E x \in closing[c] : CloseRetired(c, x)
  <2>1. UNCHANGED <<snap, call, endpoints, tried>>
    BY <1>2 DEF EnterWhenClosed, Enter, ReadyTimeout, CallClosed, CallStarts, Return,
       CloseRetired, locals
  <2> QED
    BY <1>1, <2>1
<1>3. CASE Snapshot(c) \/ Finally(c)
  <2>1. tried'[c] = <<>> /\ endpoints'[c] = <<>>
    BY <1>3 DEF Snapshot, Finally, LastOut, Sourced, TypeInv, TypeOK
  <2> QED
    BY <2>1 DEF Attempts
<1>4. ASSUME NEW outcome, Finish(c, outcome), UNCHANGED <<snap, call, endpoints>>
      PROVE  Attempts(c)'
  BY <1>1, <1>4 DEF Finish
<1>5. CASE \E outcome \in {"ok", "error", "cancelled"} : Returns(c, outcome)
  BY <1>4, <1>5 DEF Returns
<1>6. CASE Unavailable(c)
  <2>1. UNCHANGED <<snap, call, endpoints>> /\ pc[c] = "rpc"
    BY <1>6 DEF Unavailable
  <2>2. CASE Len(tried[c]) = 1 /\ Len(endpoints[c]) >= 2
    <3>1. TryAgain(c, endpoints[c][2])
      BY <1>6, <2>2 DEF Unavailable
    <3>2. endpoints[c] \in Seq(Client) /\ tried[c] \in Seq(Client)
      BY DEF TypeInv, TypeOK
    <3>3. /\ tried[c] # <<>>
          /\ Len(endpoints[c]) = 2 /\ endpoints[c][2] \in Client
      BY <2>2, <3>2, ShortSeq DEF Attempts
    <3>4. endpoints[c][2] # tried[c][1]
      BY <3>3 DEF Attempts
    <3> QED
      BY <2>1, <2>2, <3>1, <3>3, <3>4, AttemptsAgain
  <2>3. CASE ~(Len(tried[c]) = 1 /\ Len(endpoints[c]) >= 2)
    BY <1>4, <1>6, <2>1, <2>3 DEF Unavailable
  <2> QED
    BY <2>2, <2>3
<1>7. ASSUME NEW route \in Targets \cup {NoTarget}, FailedPrecondition(c, route)
      PROVE  Attempts(c)'
  <2> DEFINE other == Get(snap[c].clients, route)
  <2>1. UNCHANGED <<snap, call, endpoints>>
    BY <1>7 DEF FailedPrecondition
  <2>2. CASE MayRedirect(c, other)
    <3>1. TryAgain(c, other)
      BY <1>7, <2>2 DEF FailedPrecondition
    <3>2. other \in Client
      BY <2>2 DEF MayRedirect, Get, TypeInv, TypeOK
    <3>3. Len(tried[c]) = 1 /\ other # tried[c][1]
      BY <2>2 DEF MayRedirect, Current
    <3> HIDE DEF other
    <3> QED
      BY <2>1, <3>1, <3>2, <3>3, AttemptsAgain
  <2>3. CASE ~MayRedirect(c, other)
    BY <1>4, <1>7, <2>1, <2>3 DEF FailedPrecondition
  <2> QED
    BY <2>2, <2>3
<1> QED
  BY <1>2, <1>3, <1>5, <1>6, <1>7, AttemptsRoute DEF Caller, CallStep

\* What every operation has tried, after every step of every thread.
LEMMA AttemptsStep ==
    ASSUME SafetyInv, \A c \in Callers : Attempts(c), [Next]_vars
    PROVE  \A c \in Callers : Attempts(c)'
<1> SUFFICES ASSUME NEW c \in Callers PROVE Attempts(c)'
  OBVIOUS
<1>1. Attempts(c) /\ Sourced(c)
  BY DEF SafetyInv, TriedFromSnapshot
<1>2. CASE Caller(c)
  BY <1>1, <1>2, AttemptsCaller DEF SafetyInv
<1>3. CASE ~Caller(c)
  <2>1. UNCHANGED <<snap[c], call[c], endpoints[c], tried[c]>>
    BY <1>3, OthersLeaveLocals DEF SafetyInv, TypeInv
  <2> QED
    BY <1>1, <2>1 DEF Attempts, MasterFirst, MasterOf
<1> QED
  BY <1>2, <1>3

AttemptsInv == \A c \in Callers : Attempts(c)

\* It holds throughout.
LEMMA AttemptsAlways == Spec => []AttemptsInv
<1>1. Init => AttemptsInv
  BY DEF Init, AttemptsInv, Attempts
<1>2. SafetyInv /\ AttemptsInv /\ [Next]_vars => AttemptsInv'
  BY AttemptsStep DEF AttemptsInv
<1> QED
  BY <1>1, <1>2, SafetyAlways, PTL DEF Spec

\* However an UnavailableError and the redirections of FailedPreconditionErrors
\* follow each other, _execute sends an operation to at most two nodes and never
\* to the same client twice.
THEOREM TwoNodesAtMost == Spec => []AtMostTwoNodes
<1>1. AttemptsInv => AtMostTwoNodes
  BY DEF AttemptsInv, Attempts, AtMostTwoNodes
<1> QED
  BY <1>1, AttemptsAlways, PTL

\* _WRITE_OPERATIONS names every public operation but those that follow the mode.
LEMMA AllWritesListed == PublicOperations \ ConfiguredOperations \subseteq WriteOperations
  BY DEF PublicOperations, ConfiguredOperations, WriteOperations

\* Whatever mode the client is configured with and whichever topology its snapshot
\* holds, a write that nothing overrides reaches the master of its shard before
\* any other node (mode and endpoints in _execute).
THEOREM MasterBeforeBackup == Spec => []WritesStartAtMaster
<1>1. AttemptsInv => WritesStartAtMaster
  BY AllWritesListed DEF AttemptsInv, Attempts, MasterFirst, WritesStartAtMaster, is_write
<1> QED
  BY <1>1, AttemptsAlways, PTL

-----------------------------------------------------------------------------
(* The dictionaries an operation routes by. *)

\* Only a refresh that goes through installs a topology.
LEMMA OnlyInstall ==
    ASSUME [Next]_vars, ~Install
    PROVE  topology' = topology
<1>1. CASE UNCHANGED vars
  BY <1>1 DEF vars, shared, directory
<1>2. CASE Refresher
  BY <1>2 DEF Refresher, LoopExit, StartRefresh, OpenChannel, SwapChannel, StreamFails,
     StreamDelivers, ApplyWhenClosed, ApplyWhenOpen, WaitInterval, InstallFails,
     shared, directory
<1>3. CASE \E c \in Callers : Caller(c)
  BY <1>3, CallerFrame DEF directory
<1>4. CASE \E k \in Closers : Closer(k)
  BY <1>4 DEF Closer, CloseStep, CloseAgain, CloseBegin, SetClosed, SetStop, Join,
     CloseChannel, ForgetChannel, CloseClients, DropRetired, shared, directory
<1> QED
  BY <1>1, <1>2, <1>3, <1>4 DEF Next

\* What a topology an operation routes by and the dictionary that goes with it owe
\* each other.
Served(T, table) == \A t \in T.targets : table[t] # NoClient

\* No coordinator names a target that _split_target rejects.
WellFormedStreams ==
    \A s \in Streams :
        merge_topology(s) # Invalid => merge_topology(s).targets \cap BadTargets = {}

\* With well-formed targets a refresh never stops half way.
LEMMA RefreshesComplete ==
    ASSUME TypeOK, WellFormedStreams
    PROVE  ~InstallFails
<1>1. pending.targets \cap BadTargets = {}
  BY DEF TypeOK, Topologies, WellFormedStreams, EmptyTopology
<1> QED
  BY <1>1 DEF InstallFails, Missing, Unserved

\* A refresh leaves every target of the topology it installs with a client.
LEMMA InstallServes ==
    ASSUME TypeOK, Install
    PROVE  Served(topology', clients')
<1> SUFFICES ASSUME NEW t \in pending.targets PROVE clients'[t] # NoClient
  BY DEF Install, Served
<1>1. t \in Targets /\ made[t] \in Nat
  BY TopologyTypes DEF TypeOK
<1>2. clients'[t] = IF t \in Missing THEN <<t, made[t] + 1>> ELSE clients[t]
  BY <1>1 DEF Install, Updated, TableWith, Absent
<1>3. <<t, made[t] + 1>> # NoClient
  BY <1>1, TargetAssumption DEF NoClient
<1> QED
  BY <1>2, <1>3 DEF Missing, Unserved

\* A step of any thread keeps topology and dictionaries together.
LEMMA RoutesStep ==
    ASSUME WellFormedStreams, SafetyInv, RoutesHaveClients, [Next]_vars
    PROVE  RoutesHaveClients'
<1>1. /\ TypeOK /\ ClosersFlagged
      /\ closed => closed'
  BY ClosersFlaggedStep DEF SafetyInv, TypeInv
<1>2. SUFFICES ASSUME ~closed'
               PROVE  /\ Served(topology', clients')
                      /\ \A c \in InOperation' : Served(snap'[c].topology, snap'[c].clients)
  BY DEF RoutesHaveClients, Served
<1>3. /\ ~closed /\ Served(topology, clients)
      /\ \A c \in InOperation : Served(snap[c].topology, snap[c].clients)
  BY <1>1, <1>2 DEF RoutesHaveClients, Served
<1>4. CASE UNCHANGED vars
  BY <1>3, <1>4 DEF vars, shared, directory, callerVars, locals, InOperation
<1>5. CASE Install
  <2>1. UNCHANGED <<snap, pc>>
    BY <1>5 DEF Install, callerVars, locals
  <2> QED
    BY <1>1, <1>3, <1>5, <2>1, InstallServes DEF InOperation
<1>6. CASE InstallFails
  BY <1>1, <1>6, RefreshesComplete
<1>7. ASSUME NEW c \in Callers, Snapshot(c)
      PROVE  /\ Served(topology', clients')
             /\ \A d \in InOperation' : Served(snap'[d].topology, snap'[d].clients)
  <2>1. /\ UNCHANGED <<topology, clients>>
        /\ snap' = [snap EXCEPT ![c] = [topology |-> topology, clients |-> clients]]
        /\ InOperation' = InOperation \cup {c}
    BY <1>1, <1>7 DEF Snapshot, directory, InOperation, TypeOK
  <2>2. ASSUME NEW d \in InOperation'
        PROVE  Served(snap'[d].topology, snap'[d].clients)
    <3>1. CASE d = c
      BY <1>1, <1>3, <2>1, <3>1 DEF TypeOK
    <3>2. CASE d # c
      BY <1>1, <1>3, <2>1, <2>2, <3>2 DEF TypeOK
    <3> QED
      BY <3>1, <3>2
  <2> QED
    BY <1>3, <2>1, <2>2
<1>8. ASSUME NEW c \in Callers, Finally(c)
      PROVE  /\ Served(topology', clients')
             /\ \A d \in InOperation' : Served(snap'[d].topology, snap'[d].clients)
  <2>1. /\ UNCHANGED <<topology, clients>>
        /\ InOperation' \subseteq InOperation
        /\ \A d \in InOperation' : snap'[d] = snap[d]
    BY <1>1, <1>8 DEF Finally, LastOut, directory, InOperation, TypeOK
  <2> QED
    BY <1>3, <2>1
<1>9. ASSUME NEW c \in Callers, NEW x \in closing[c], CloseRetired(c, x)
      PROVE  /\ Served(topology', clients')
             /\ \A d \in InOperation' : Served(snap'[d].topology, snap'[d].clients)
  BY <1>3, <1>9 DEF CloseRetired, directory, locals, InOperation
<1>10. ASSUME NEW k \in Closers, CloseClients(k) \/ DropRetired(k)
       PROVE  FALSE
  BY <1>1, <1>3, <1>10 DEF CloseClients, DropRetired, ClosersFlagged
<1>11. CASE UNCHANGED <<clients, snap>> /\ InOperation' = InOperation /\ ~Install
  BY <1>3, <1>11, OnlyInstall
<1> QED
  BY <1>1, <1>4, <1>5, <1>6, <1>7, <1>8, <1>9, <1>10, <1>11, LifetimeSteps

\* When no coordinator names a malformed target, an operation never routes by a
\* topology whose targets its dictionary does not have, however refreshes,
\* operations and snapshots interleave: _apply_topology publishes _topology and
\* _clients together and _execute copies them together.  (After a malformed target
\* the dictionary is ahead of the topology: InstallFails.)
THEOREM RoutesAreServed ==
    ASSUME WellFormedStreams
    PROVE  Spec => []RoutesHaveClients
<1>1. Init => RoutesHaveClients
  BY DEF Init, RoutesHaveClients, InOperation, EmptyTopology
<1>2. SafetyInv /\ RoutesHaveClients /\ [Next]_vars => RoutesHaveClients'
  BY RoutesStep
<1> QED
  BY <1>1, <1>2, SafetyAlways, PTL DEF Spec

-----------------------------------------------------------------------------
(* close(). *)

\* A close() past its join has found the refresher stopped.
JoinedStopped ==
    \A k \in Closers : closer[k] \in {"lock", "forget", "clients", "drop", "done"} => thread = "dead"

\* The channels that can be open: the current one and, while the refresher swaps,
\* the one it has just opened; none once close() has closed the current one.
ChannelsKnown ==
    /\ 0 \notin open_channels
    /\ thread = "swap" => /\ old_channel = coordinator_channel
                          /\ open_channels \subseteq {coordinator_index, old_channel}
    /\ thread # "swap" => open_channels \subseteq {coordinator_channel}
    /\ \A k \in Closers : closer[k] \in {"forget", "clients", "drop", "done"} => open_channels = {}

\* Clients stay reachable, and close() has closed those it reached.
ClientsKnown ==
    /\ Reachable
    /\ \A k \in Closers : closer[k] \in {"drop", "done"} => Born \subseteq dead \cup Closing

\* What a close() whose join did not time out relies on.
ReleaseInv == ~join_timed_out => JoinedStopped /\ ChannelsKnown /\ ClientsKnown

\* The steps of a close() after its announcement.
ShutdownStep(k) ==
    Join(k) \/ CloseChannel(k) \/ ForgetChannel(k) \/ CloseClients(k) \/ DropRetired(k)

\* The steps of the refresher and the closers that matter for them; a caller's
\* step changes nothing here.
LEMMA ShutdownSteps ==
    ASSUME TypeOK, [Next]_vars
    PROVE  \/ OpenChannel \/ SwapChannel
           \/ \E k \in Closers : ShutdownStep(k)
           \/ /\ UNCHANGED <<channels, join_timed_out>>
              /\ (thread # "swap" /\ thread' # "swap") \/ UNCHANGED <<thread, old_channel>>
              /\ thread = "dead" => thread' = "dead"
              /\ \A k \in Closers :
                    \/ closer'[k] = closer[k]
                    \/ closer'[k] \in {"returned", "flag", "stop", "join"}
<1> USE DEF TypeOK
<1>1. CASE UNCHANGED vars
  BY <1>1 DEF vars, shared, channels, closerVars, refresherVars
<1>2. CASE Refresher /\ ~OpenChannel /\ ~SwapChannel
  <2>1. CASE LoopExit \/ StartRefresh \/ StreamFails \/ WaitInterval \/ StreamDelivers
    BY <2>1 DEF LoopExit, StartRefresh, StreamFails, RetryOrGiveUp, StreamDelivers,
       WaitInterval, shared, closerVars
  <2>2. CASE ApplyWhenClosed \/ ApplyWhenOpen \/ Install \/ InstallFails
    BY <2>2 DEF ApplyWhenClosed, ApplyWhenOpen, Install, InstallFails, RetryOrGiveUp,
       shared, closerVars
  <2> QED
    BY <1>2, <2>1, <2>2 DEF Refresher
<1>3. CASE \E c \in Callers : Caller(c)
  BY <1>3, CallerFrame DEF closerVars, refresherVars
<1>4. ASSUME NEW k \in Closers, Closer(k), ~ShutdownStep(k)
      PROVE  /\ UNCHANGED <<channels, join_timed_out, thread, old_channel>>
             /\ \A j \in Closers :
                   \/ closer'[j] = closer[j]
                   \/ closer'[j] \in {"returned", "flag", "stop", "join"}
  BY <1>4 DEF Closer, CloseStep, ShutdownStep, CloseAgain, CloseBegin, SetClosed, SetStop,
     shared, refresherVars
<1> QED
  BY <1>1, <1>2, <1>3, <1>4 DEF Next

\* The refresher and the closers never leave a channel that nobody will close,
\* as long as no join times out.
LEMMA ChannelsStep ==
    ASSUME TypeOK, [Next]_vars, JoinedStopped, ChannelsKnown, ~join_timed_out'
    PROVE  JoinedStopped' /\ ChannelsKnown'
<1>1. CASE OpenChannel
  <2>1. /\ thread = "attempt" /\ thread' = "swap"
        /\ old_channel' = coordinator_channel /\ coordinator_channel' = coordinator_channel
        /\ coordinator_index' = coordinator_index + 1
        /\ open_channels' = open_channels \cup {coordinator_index + 1}
        /\ closer' = closer
    BY <1>1 DEF OpenChannel, closerVars
  <2>2. coordinator_index \in Nat
    BY DEF TypeOK
  <2>3. \A k \in Closers : closer[k] \notin {"lock", "forget", "clients", "drop", "done"}
    BY <2>1 DEF JoinedStopped
  <2> QED
    BY <2>1, <2>2, <2>3 DEF JoinedStopped, ChannelsKnown
<1>2. CASE SwapChannel
  <2>1. /\ thread = "swap" /\ thread' = "stream"
        /\ coordinator_channel' = coordinator_index
        /\ open_channels' = open_channels \ {old_channel}
        /\ closer' = closer
    BY <1>2 DEF SwapChannel, closerVars
  <2>2. \A k \in Closers : closer[k] \notin {"lock", "forget", "clients", "drop", "done"}
    BY <2>1 DEF JoinedStopped
  <2> QED
    BY <2>1, <2>2 DEF JoinedStopped, ChannelsKnown
<1>3. ASSUME NEW k \in Closers, Join(k)
      PROVE  JoinedStopped' /\ ChannelsKnown'
  <2>1. /\ closer' = [closer EXCEPT ![k] = "lock"] /\ thread = "dead"
        /\ UNCHANGED <<thread, old_channel, channels>>
    BY <1>3 DEF Join, shared, refresherVars
  <2> QED
    BY <2>1 DEF JoinedStopped, ChannelsKnown, channels, TypeOK
<1>4. ASSUME NEW k \in Closers, CloseChannel(k)
      PROVE  JoinedStopped' /\ ChannelsKnown'
  <2>1. /\ closer' = [closer EXCEPT ![k] = IF coordinator_channel = 0 THEN "clients"
                                                                   ELSE "forget"]
        /\ closer[k] = "lock"
        /\ open_channels' = open_channels \ {coordinator_channel}
        /\ UNCHANGED <<thread, old_channel, coordinator_channel, coordinator_index>>
    BY <1>4 DEF CloseChannel, refresherVars
  <2>2. thread = "dead"
    BY <2>1 DEF JoinedStopped
  <2>3. open_channels' = {}
    BY <2>1, <2>2 DEF ChannelsKnown
  <2> QED
    BY <2>1, <2>2, <2>3 DEF JoinedStopped, ChannelsKnown
<1>5. ASSUME NEW k \in Closers, CloseClients(k) \/ DropRetired(k)
      PROVE  JoinedStopped' /\ ChannelsKnown'
  <2>1. /\ closer[k] \in {"clients", "drop"}
        /\ closer' = [closer EXCEPT ![k] = IF closer[k] = "clients" THEN "drop" ELSE "done"]
        /\ UNCHANGED <<thread, open_channels>>
    BY <1>5 DEF CloseClients, DropRetired, refresherVars, channels
  <2>2. thread = "dead" /\ open_channels = {}
    BY <2>1 DEF JoinedStopped, ChannelsKnown
  <2> QED
    BY <2>1, <2>2 DEF JoinedStopped, ChannelsKnown
<1>6. ASSUME NEW k \in Closers, ForgetChannel(k)
      PROVE  JoinedStopped' /\ ChannelsKnown'
  <2>1. /\ closer' = [closer EXCEPT ![k] = "clients"] /\ closer[k] = "forget"
        /\ UNCHANGED <<thread, open_channels>>
    BY <1>6 DEF ForgetChannel, refresherVars
  <2>2. thread = "dead" /\ open_channels = {}
    BY <2>1 DEF JoinedStopped, ChannelsKnown
  <2> QED
    BY <2>1, <2>2 DEF JoinedStopped, ChannelsKnown
<1>7. CASE /\ UNCHANGED <<channels, join_timed_out>>
           /\ (thread # "swap" /\ thread' # "swap") \/ UNCHANGED <<thread, old_channel>>
           /\ thread = "dead" => thread' = "dead"
           /\ \A k \in Closers : \/ closer'[k] = closer[k]
                                 \/ closer'[k] \in {"returned", "flag", "stop", "join"}
  BY <1>7 DEF JoinedStopped, ChannelsKnown, channels
<1> QED
  BY <1>1, <1>2, <1>3, <1>4, <1>5, <1>6, <1>7, ShutdownSteps DEF ShutdownStep

\* What is closed stays closed, and what an operation took over to close it keeps
\* until it has.
LEMMA ClosingStays ==
    ASSUME TypeOK, ClosingIsLast, [Next]_vars
    PROVE  dead \subseteq dead' /\ Closing \subseteq Closing' \cup dead'
<1>1. CASE UNCHANGED <<dead, closing>>
  BY <1>1 DEF Closing
<1>2. CASE UNCHANGED vars
  BY <1>1, <1>2 DEF vars, shared, usage, callerVars
<1>3. CASE Install \/ InstallFails
  <2>1. closing' = closing /\ dead \subseteq dead'
    BY <1>3 DEF Install, CloseOrPark, InstallFails, callerVars
  <2> QED
    BY <2>1 DEF Closing
<1>4. ASSUME NEW c \in Callers, Snapshot(c)
      PROVE  dead \subseteq dead' /\ Closing \subseteq Closing' \cup dead'
  BY <1>1, <1>4 DEF Snapshot
<1>5. ASSUME NEW c \in Callers, Finally(c)
      PROVE  dead \subseteq dead' /\ Closing \subseteq Closing' \cup dead'
  <2>1. dead' = dead /\ closing[c] = {}
    BY <1>5 DEF Finally, LastOut, ClosingIsLast
  <2>2. \A d \in Callers : d # c => closing'[d] = closing[d]
    BY <1>5 DEF Finally, LastOut, TypeOK
  <2> QED
    BY <2>1, <2>2 DEF Closing
<1>6. ASSUME NEW c \in Callers, NEW x \in closing[c], CloseRetired(c, x)
      PROVE  dead \subseteq dead' /\ Closing \subseteq Closing' \cup dead'
  <2>1. dead' = dead \cup {x} /\ closing' = [closing EXCEPT ![c] = @ \ {x}]
    BY <1>6 DEF CloseRetired
  <2>2. \A d \in Callers : closing[d] \subseteq closing'[d] \cup {x}
    BY <2>1 DEF TypeOK
  <2> QED
    BY <2>1, <2>2 DEF Closing
<1>7. ASSUME NEW k \in Closers, CloseClients(k) \/ DropRetired(k)
      PROVE  dead \subseteq dead' /\ Closing \subseteq Closing' \cup dead'
  <2>1. closing' = closing /\ dead \subseteq dead'
    BY <1>7 DEF CloseClients, DropRetired, callerVars
  <2> QED
    BY <2>1 DEF Closing
<1> QED
  BY <1>1, <1>2, <1>3, <1>4, <1>5, <1>6, <1>7, LifetimeSteps

\* Only a refresh creates clients.
LEMMA OnlyRefreshCreates ==
    ASSUME TypeOK, [Next]_vars, thread = "dead"
    PROVE  Born' = Born
<1>1. made' = made
  <2>1. ~Install /\ ~InstallFails
    BY DEF Install, InstallFails
  <2>2. CASE UNCHANGED vars
    BY <2>2 DEF vars, shared, directory
  <2>3. CASE \E c \in Callers :
                Snapshot(c) \/ Finally(c) \/ \E x \in closing[c] : CloseRetired(c, x)
    BY <2>3 DEF Snapshot, Finally, LastOut, CloseRetired, directory
  <2>4. CASE \E k \in Closers : CloseClients(k) \/ DropRetired(k)
    BY <2>4 DEF CloseClients, DropRetired, directory
  <2> QED
    BY <2>1, <2>2, <2>3, <2>4, LifetimeSteps
<1> QED
  BY <1>1 DEF Born

\* close() has closed every client when it forgets _retired: after the refresher
\* has stopped, no client is created or retired any more.
LEMMA ClientsStep ==
    ASSUME SafetyInv, [Next]_vars, JoinedStopped, ClientsKnown, ~join_timed_out'
    PROVE  ClientsKnown'
<1>1. TypeOK /\ TypeInv /\ ClosingIsLast /\ Ownership
  BY DEF SafetyInv, TypeInv
<1>2. /\ dead \subseteq dead' /\ Closing \subseteq Closing' \cup dead'
  BY <1>1, ClosingStays
<1>3. ASSUME NEW k \in Closers, closer[k] \in {"drop", "done"}
      PROVE  Born' \subseteq dead' \cup Closing'
  <2>1. thread = "dead" /\ Born \subseteq dead \cup Closing
    BY <1>3 DEF JoinedStopped, ClientsKnown
  <2> QED
    BY <1>1, <1>2, <2>1, OnlyRefreshCreates
<1>4. ASSUME NEW k \in Closers, CloseClients(k)
      PROVE  Born' \subseteq dead' \cup Closing'
  <2>1. /\ UNCHANGED <<made, closing>>
        /\ dead' = dead \cup Held(clients) \cup retired
    BY <1>4 DEF CloseClients, Doomed, callerVars
  <2>2. Born' = Born /\ Closing' = Closing
    BY <2>1 DEF Born, Closing
  <2> QED
    BY <2>1, <2>2 DEF ClientsKnown, Reachable
<1>5. Reachable'
  <2>1. CASE \E k \in Closers : DropRetired(k)
    <3>1. PICK k \in Closers : DropRetired(k)
      BY <2>1
    <3>2. closer[k] = "drop"
      BY <3>1 DEF DropRetired
    <3> QED
      BY <1>3, <3>2 DEF Reachable
  <2>2. CASE ~\E k \in Closers : DropRetired(k)
    BY <1>1, <2>2, ReachableStep DEF ClientsKnown
  <2> QED
    BY <2>1, <2>2
<1>6. ASSUME NEW k \in Closers, closer'[k] \in {"drop", "done"}
      PROVE  closer[k] \in {"drop", "done"} \/ CloseClients(k)
  <2>1. CASE OpenChannel \/ SwapChannel
    BY <1>6, <2>1 DEF OpenChannel, SwapChannel, closerVars
  <2>2. ASSUME NEW j \in Closers,
               ShutdownStep(j)
        PROVE  closer[k] \in {"drop", "done"} \/ CloseClients(k)
    <3>1. CASE j = k
      BY <1>1, <1>6, <2>2, <3>1 DEF ShutdownStep, Join, CloseChannel, ForgetChannel, DropRetired, TypeOK
    <3>2. CASE j # k
      BY <1>1, <1>6, <2>2, <3>2 DEF ShutdownStep, Join, CloseChannel, ForgetChannel,
         CloseClients, DropRetired, TypeOK
    <3> QED
      BY <3>1, <3>2
  <2> QED
    BY <1>1, <1>6, <2>1, <2>2, ShutdownSteps
<1> QED
  BY <1>3, <1>4, <1>5, <1>6 DEF ClientsKnown

\* It holds throughout.
LEMMA ReleaseAlways == Spec => []ReleaseInv
<1>1. Init => ReleaseInv
  <2> SUFFICES ASSUME Init PROVE JoinedStopped /\ ChannelsKnown /\ ClientsKnown
    BY DEF ReleaseInv
  <2>1. NoClientLost /\ ~closed
    BY SafetyInit DEF SafetyInv, Init
  <2> QED
    BY <2>1 DEF Init, JoinedStopped, ChannelsKnown, ClientsKnown, NoClientLost, Reachable
<1>2. SafetyInv /\ ReleaseInv /\ [Next]_vars => ReleaseInv'
  <2> SUFFICES ASSUME SafetyInv, ReleaseInv, [Next]_vars, ~join_timed_out'
               PROVE  JoinedStopped' /\ ChannelsKnown' /\ ClientsKnown'
    BY DEF ReleaseInv
  <2>1. TypeOK
    BY DEF SafetyInv, TypeInv
  <2>2. ~join_timed_out
    <3>1. CASE OpenChannel \/ SwapChannel
      BY <3>1 DEF OpenChannel, SwapChannel, closerVars
    <3>2. CASE \E k \in Closers : ShutdownStep(k)
      BY <3>2 DEF ShutdownStep, Join, CloseChannel, ForgetChannel, CloseClients, DropRetired
    <3> QED
      BY <2>1, <3>1, <3>2, ShutdownSteps
  <2> QED
    BY <2>1, <2>2, ChannelsStep, ClientsStep DEF ReleaseInv
<1> QED
  BY <1>1, <1>2, SafetyAlways, PTL DEF Spec

\* A close() that found the refresher stopped gives everything back: no channel to
\* a coordinator stays open and no node client stays open that a caller is not
\* about to close, with any number of overlapping close() calls and operations in
\* flight.
THEOREM CloseReleases == Spec => []CloseReleasesAll
<1>1. ReleaseInv => CloseReleasesAll
  BY DEF ReleaseInv, ChannelsKnown, ClientsKnown, CloseReleasesAll
<1> QED
  BY <1>1, ReleaseAlways, PTL

-----------------------------------------------------------------------------
(* The threads implement the pool.  First each action of ClientPool under  *)
(* the refinement mapping, in the terms of SmartClient.                    *)

Parked == (retired \cup Closing) \ dead

Holds == [c \in Callers |-> IF c \in InOperation THEN Held(snap[c].clients) ELSE {}]

\* Nothing the pool shows has changed.
LEMMA PoolStutters ==
    ASSUME UNCHANGED <<clients, retired, dead, closing, snap, closed>>,
           InOperation' = InOperation
    PROVE  UNCHANGED Pool!vars
  BY DEF Pool!vars, Closing

\* close() begins.
LEMMA PoolShutsDown ==
    ASSUME UNCHANGED <<clients, retired, dead, closing, snap>>,
           InOperation' = InOperation, closed' = TRUE
    PROVE  Pool!Next
  BY DEF Pool!Next, Pool!ShutDown, Closing

\* Clients are published, parked and freed before close().
LEMMA PoolRecycles ==
    ASSUME ~closed, closed' = closed, Holds' = Holds,
           (Held(clients') \ Held(clients)) \cap (Parked \cup dead) = {},
           dead \subseteq dead',
           dead' \ dead \subseteq Parked \cup (Held(clients) \ Held(clients')),
           \A c \in Callers : Holds[c] \cap (dead' \ dead) = {},
           Parked' = (Parked \cup (Held(clients) \ Held(clients'))) \ (dead' \ dead)
    PROVE  Pool!Next
<1>1. (dead' \ dead) \cap Pool!InUse = {}
  <2>1. Pool!InUse = UNION {Holds[c] : c \in Callers}
    BY DEF Pool!InUse, Holds
  <2> HIDE DEF Holds
  <2> QED
    BY <2>1
<1>2. Pool!Recycle
  BY <1>1 DEF Pool!Recycle, Parked, Holds
<1> QED
  BY <1>2 DEF Pool!Next

\* Clients are freed after close() has begun.
LEMMA PoolDismantles ==
    ASSUME closed, closed' = closed, Holds' = Holds,
           dead \subseteq dead',
           (Held(clients') \ Held(clients)) \cap dead' = {}
    PROVE  Pool!Next
<1>1. Pool!Dismantle
  BY DEF Pool!Dismantle, Holds
<1> QED
  BY <1>1 DEF Pool!Next

\* The mapping of the initial state.
LEMMA PoolInit == Init => Pool!Init
<1> SUFFICES ASSUME Init PROVE Pool!Init
  OBVIOUS
<1>1. Held(clients) = {} /\ Closing = {} /\ InOperation = {}
  BY DEF Init, Held, NoTable, Closing, InOperation
<1> QED
  BY <1>1 DEF Init, Pool!Init

\* A refresh, complete or cut short, recycles; when close() overtook it, what it
\* publishes is at least new.
LEMMA PoolInstall ==
    ASSUME SafetyInv, Install \/ InstallFails
    PROVE  Pool!Next
<1>1. PICK created \in SUBSET {t \in Targets : clients[t] = NoClient} :
         clients' = Updated(created) /\ made' = Count(created)
  <2>1. Missing \subseteq {t \in Targets : clients[t] = NoClient}
    BY TopologyTypes DEF Missing, Unserved, SafetyInv, TypeInv, TypeOK
  <2> QED
    BY <2>1 DEF Install, InstallFails
<1>2. /\ \A x \in Held(clients') : x \notin Born \/ x \in Held(clients) \ Dropped
      /\ Held(clients) \subseteq Held(clients') \cup Dropped
      /\ Dropped \subseteq Held(clients)
  BY <1>1, UpdatedTable DEF SafetyInv, TypeInv, Ownership
<1>3. Held(clients) \cup retired \cup dead \cup Closing \subseteq Born
  BY DEF SafetyInv, Ownership, Keyed, Held
<1>4. Held(clients) \ Held(clients') = Dropped
  BY <1>2, <1>3
<1>5. /\ UNCHANGED <<closed, closing, snap, pc>>
      /\ \/ active = 0 /\ retired' = {} /\ dead' = dead \cup retired \cup Dropped
         \/ retired' = retired \cup Dropped /\ dead' = dead
  BY DEF Install, CloseOrPark, InstallFails, Retiring, Dropped, flags, callerVars, locals
<1>6. Closing' = Closing /\ Holds' = Holds
  BY <1>5 DEF Closing, Holds, InOperation
<1>7. (Held(clients') \ Held(clients)) \cap Born = {}
  BY <1>2
<1>8. dead' \subseteq Born /\ dead \subseteq dead'
  BY <1>2, <1>3, <1>5
<1>9. CASE closed
  BY <1>5, <1>6, <1>7, <1>8, <1>9, PoolDismantles
<1>10. CASE ~closed
  <2>1. Dropped \cap dead = {}
    BY <1>2, <1>10 DEF SafetyInv, Ownership
  <2>2. \A c \in Callers : Holds[c] \cap (dead' \ dead) = {}
    <3>1. CASE active = 0
      <4>1. InOperation = {}
        BY <3>1, NoOperation DEF SafetyInv, TypeInv
      <4> QED
        BY <4>1 DEF Holds
    <3>2. CASE dead' = dead
      BY <3>2
    <3> QED
      BY <1>5, <3>1, <3>2
  <2>3. dead' \ dead \subseteq Parked \cup Dropped
    BY <1>5 DEF Parked
  <2>4. Parked' = (Parked \cup Dropped) \ (dead' \ dead)
    BY <1>5, <1>6, <2>1 DEF Parked
  <2>5. Parked \cup dead \subseteq Born
    BY <1>3 DEF Parked
  <2>6. (Held(clients') \ Held(clients)) \cap (Parked \cup dead) = {}
    BY <1>7, <2>5
  <2> QED
    BY <1>4, <1>5, <1>6, <1>8, <1>10, <2>2, <2>3, <2>4, <2>6, PoolRecycles
<1> QED
  BY <1>9, <1>10

\* The snapshot an operation takes is the acquisition of what is offered.
LEMMA PoolSnapshot ==
    ASSUME SafetyInv, NEW c \in Callers, Snapshot(c)
    PROVE  Pool!Next
<1>1. /\ UNCHANGED <<clients, retired, dead, closing, closed>>
      /\ snap' = [snap EXCEPT ![c] = [topology |-> topology, clients |-> clients]]
      /\ InOperation' = InOperation \cup {c}
  BY DEF Snapshot, InOperation, flags, directory, SafetyInv, TypeInv, TypeOK
<1>2. snap'[c].clients = clients /\ \A d \in Callers : d # c => snap'[d] = snap[d]
  BY <1>1 DEF SafetyInv, TypeInv, TypeOK
<1>3. Holds' = [Holds EXCEPT ![c] = Held(clients)]
  <2>1. ASSUME NEW d \in Callers
        PROVE  Holds'[d] = IF d = c THEN Held(clients) ELSE Holds[d]
    <3>1. CASE d = c
      BY <1>1, <1>2, <3>1 DEF Holds
    <3>2. CASE d # c
      BY <1>1, <1>2, <3>2 DEF Holds
    <3> QED
      BY <3>1, <3>2
  <2>2. /\ Holds' = [d \in Callers |-> Holds'[d]]
        /\ Holds = [d \in Callers |-> Holds[d]]
    BY DEF Holds
  <2> HIDE DEF Holds
  <2> QED
    BY <2>1, <2>2
<1>4. Closing' = Closing
  BY <1>1 DEF Closing
<1>5. Pool!Acquire(c)
  BY <1>1, <1>3, <1>4 DEF Pool!Acquire, Holds
<1> QED
  BY <1>5 DEF Pool!Next

\* The finally block is the release; it moves clients from _retired to the caller,
\* which the pool does not see.
LEMMA PoolFinally ==
    ASSUME SafetyInv, NEW c \in Callers, Finally(c)
    PROVE  Pool!Next
<1>1. /\ UNCHANGED <<clients, dead, closed>>
      /\ InOperation' = InOperation \ {c}
      /\ \A d \in Callers : d # c => snap'[d] = snap[d]
      /\ closing[c] = {}
  BY DEF Finally, LastOut, InOperation, flags, directory, SafetyInv, TypeInv, TypeOK, ClosingIsLast
<1>2. Holds' = [Holds EXCEPT ![c] = {}]
  BY <1>1 DEF Holds
<1>3. retired' \cup Closing' = retired \cup Closing
  <2>1. CASE active - 1 = 0
    <3>1. /\ closing'[c] = retired /\ retired' = {}
          /\ \A d \in Callers : d # c => closing'[d] = closing[d]
      BY <2>1 DEF Finally, LastOut, SafetyInv, TypeInv, TypeOK
    <3> QED
      BY <1>1, <3>1 DEF Closing
  <2>2. CASE active - 1 # 0
    BY <2>2 DEF Finally, LastOut, Closing
  <2> QED
    BY <2>1, <2>2
<1>4. Parked' = Parked
  BY <1>1, <1>3 DEF Parked
<1>5. Pool!Release(c)
  BY <1>1, <1>2, <1>4 DEF Pool!Release, Holds, Parked
<1> QED
  BY <1>5 DEF Pool!Next

\* A caller that closes what it took over frees nothing that is in use.
LEMMA PoolCloseRetired ==
    ASSUME SafetyInv, NEW c \in Callers, NEW x \in closing[c], CloseRetired(c, x)
    PROVE  Pool!Next
<1>1. /\ UNCHANGED <<clients, retired, closed, snap, pc>>
      /\ dead' = dead \cup {x}
      /\ closing' = [closing EXCEPT ![c] = @ \ {x}]
  BY DEF CloseRetired, flags, directory, locals
<1>2. Holds' = Holds
  BY <1>1 DEF Holds, InOperation
<1>3. x \in Closing /\ Closing' \subseteq Closing /\ Closing \subseteq Closing' \cup {x}
  <2>1. \A d \in Callers : closing'[d] \subseteq closing[d] /\ closing[d] \subseteq closing'[d] \cup {x}
    BY <1>1 DEF SafetyInv, TypeInv, TypeOK
  <2> QED
    BY <2>1 DEF Closing
<1>4. CASE closed
  BY <1>1, <1>2, <1>4, PoolDismantles
<1>5. CASE ~closed
  <2>1. \A d \in Callers : Holds[d] \cap (dead' \ dead) = {}
    BY <1>1, <1>3, <1>5 DEF SafetyInv, Ownership, Holds
  <2>2. /\ dead' \ dead \subseteq Parked
        /\ Parked' = Parked \ (dead' \ dead)
    BY <1>1, <1>3 DEF Parked
  <2> QED
    BY <1>1, <1>2, <1>5, <2>1, <2>2, PoolRecycles
<1> QED
  BY <1>4, <1>5

\* close() dismantles.
LEMMA PoolClose ==
    ASSUME SafetyInv, NEW k \in Closers, CloseClients(k) \/ DropRetired(k)
    PROVE  Pool!Next
<1>1. /\ closed /\ UNCHANGED <<closed, snap, pc>>
      /\ dead \subseteq dead'
      /\ (clients' = clients /\ dead' = dead) \/ clients' = NoTable
  BY DEF CloseClients, DropRetired, SafetyInv, ClosersFlagged, flags, directory, callerVars, locals
<1>2. Holds' = Holds
  BY <1>1 DEF Holds, InOperation
<1>3. (Held(clients') \ Held(clients)) \cap dead' = {}
  BY <1>1 DEF Held, NoTable
<1> QED
  BY <1>1, <1>2, <1>3, PoolDismantles

\* Every step of every thread is a step of the pool or invisible in it.
LEMMA PoolStep ==
    ASSUME SafetyInv, [Next]_vars
    PROVE  [Pool!Next]_(Pool!vars)
<1>1. TypeOK /\ closed' \in BOOLEAN /\ closed \in BOOLEAN
  BY SafetyStep DEF SafetyInv, TypeInv, TypeOK
<1>2. CASE UNCHANGED vars
  BY <1>2, PoolStutters DEF vars, shared, flags, directory, usage, callerVars, locals, InOperation
<1>3. CASE /\ UNCHANGED <<clients, made, retired, dead, closing, snap>>
           /\ InOperation' = InOperation
           /\ closed => closed'
  <2>1. closed' = closed \/ closed' = TRUE
    BY <1>1, <1>3
  <2> QED
    BY <1>3, <2>1, PoolStutters, PoolShutsDown
<1>4. CASE Install \/ InstallFails
  BY <1>4, PoolInstall
<1>5. ASSUME NEW c \in Callers,
             Snapshot(c) \/ Finally(c) \/ \E x \in closing[c] : CloseRetired(c, x)
      PROVE  Pool!Next
  BY <1>5, PoolSnapshot, PoolFinally, PoolCloseRetired
<1>6. ASSUME NEW k \in Closers, CloseClients(k) \/ DropRetired(k)
      PROVE  Pool!Next
  BY <1>6, PoolClose
<1> HIDE DEF Pool!Next
<1> QED
  BY <1>1, <1>2, <1>3, <1>4, <1>5, <1>6, LifetimeSteps

\* The refresher, the callers and the closers, with _lock, _active and _retired,
\* implement the pool: what they do to node clients looks to the outside like
\* publishing, parking, and freeing only what no operation holds.
THEOREM RefinesPool == Spec => ImplementsPool
<1>1. Init => Pool!Init
  BY PoolInit
<1>2. SafetyInv /\ [Next]_vars => [Pool!Next]_(Pool!vars)
  BY PoolStep
<1> QED
  BY <1>1, <1>2, SafetyAlways, PTL DEF Spec, ImplementsPool, Pool!Spec
=============================================================================
