---------------------------- MODULE DirectClient ----------------------------
(***************************************************************************)
(* The connection of one direct client, HurriCacheClient (hurricache/grpc/ *)
(* client.py), under several threads: the channel and the stub that the    *)
(* first operation opens, and close().  Nothing here is under a lock, so   *)
(* every read and every write of _closed, _channel and _stub is a step.    *)
(*                                                                         *)
(* A channel is its number in the order of creation, 0 is None, and a stub *)
(* is the channel it was made from.                                        *)
(***************************************************************************)
EXTENDS Integers, FiniteSets

CONSTANTS
    Users,          \* threads that execute operations
    Closers,        \* threads that call close()
    MaxOperations   \* bound: operations begun by all threads together

ASSUME UsersAssumption == IsFiniteSet(Users) /\ IsFiniteSet(Closers)
ASSUME OperationsAssumption == MaxOperations \in Nat

VARIABLES
    closed, channel, stub,      \* _closed, _channel, _stub
    opened,                     \* channels created so far
    shut,                       \* channels closed
    pc, seen, reads, result,    \* the users
    begun,                      \* operations begun
    closer, quiet               \* the closers; nobody was inside at their start

connection == <<closed, channel, stub, opened, shut>>
userVars == <<pc, seen, reads, result, begun>>
closerVars == <<closer, quiet>>
vars == <<connection, userVars, closerVars>>

Init ==
    /\ closed = FALSE /\ channel = 0 /\ stub = 0
    /\ opened = 0 /\ shut = {}
    /\ pc = [u \in Users |-> "idle"]
    /\ seen = [u \in Users |-> 0]
    /\ reads = [u \in Users |-> 0]
    /\ result = [u \in Users |-> "none"]
    /\ begun = 0
    /\ closer = [k \in Closers |-> "idle"]
    /\ quiet = [k \in Closers |-> FALSE]

Goto(u, label) == pc' = [pc EXCEPT ![u] = label]

\* The operation ends, with a value or an exception.
End(u, outcome) == Goto(u, "idle") /\ result' = [result EXCEPT ![u] = outcome]

-----------------------------------------------------------------------------
(* An operation.  It reads the property stub once, or, when it creates a   *)
(* container in several chunks, once more after the first RPC.             *)

\* operation(): CancelledError.
BeginClosed(u) ==
    /\ pc[u] = "idle" /\ closed
    /\ End(u, "cancelled")
    /\ UNCHANGED <<connection, closerVars, seen, reads, begun>>

Begin(u, n) ==
    /\ pc[u] = "idle" /\ ~closed /\ begun < MaxOperations
    /\ begun' = begun + 1
    /\ reads' = [reads EXCEPT ![u] = n]
    /\ Goto(u, "stub")
    /\ UNCHANGED <<connection, closerVars, seen, result>>

\* if self._stub is None
TestStub(u) ==
    /\ pc[u] = "stub"
    /\ Goto(u, IF stub = 0 THEN "channel" ELSE "assert")
    /\ UNCHANGED <<connection, closerVars, seen, reads, result, begun>>

\* if self._channel is None
TestChannel(u) ==
    /\ pc[u] = "channel"
    /\ Goto(u, IF channel = 0 THEN "open" ELSE "assert")
    /\ UNCHANGED <<connection, closerVars, seen, reads, result, begun>>

\* self._channel = grpc.insecure_channel(...)
OpenChannel(u) ==
    /\ pc[u] = "open"
    /\ opened' = opened + 1 /\ channel' = opened + 1
    /\ Goto(u, "make")
    /\ UNCHANGED <<closerVars, closed, stub, shut, seen, reads, result, begun>>

\* HurriCacheGrpcServiceStub(self._channel) fails on None.
MakeStub(u) ==
    /\ pc[u] = "make"
    /\ IF channel = 0
         THEN End(u, "internal") /\ UNCHANGED seen
         ELSE Goto(u, "keep") /\ seen' = [seen EXCEPT ![u] = channel] /\ UNCHANGED result
    /\ UNCHANGED <<connection, closerVars, reads, begun>>

\* Mutant: the stub is made and not kept.
KeepStub_Lost(u) ==
    /\ pc[u] = "keep"
    /\ Goto(u, "assert")
    /\ UNCHANGED <<connection, closerVars, seen, reads, result, begun>>

KeepStub(u) ==
    /\ pc[u] = "keep"
    /\ stub' = seen[u]
    /\ Goto(u, "assert")
    /\ UNCHANGED <<closerVars, closed, channel, opened, shut, seen, reads, result, begun>>

\* assert self._stub is not None
AssertStub(u) ==
    /\ pc[u] = "assert"
    /\ IF stub = 0 THEN End(u, "assertion") ELSE Goto(u, "fetch") /\ UNCHANGED result
    /\ UNCHANGED <<connection, closerVars, seen, reads, begun>>

\* return self._stub, and the method of it that the operation calls.
FetchStub(u) ==
    /\ pc[u] = "fetch"
    /\ IF stub = 0
         THEN End(u, "internal") /\ UNCHANGED seen
         ELSE Goto(u, "rpc") /\ seen' = [seen EXCEPT ![u] = stub] /\ UNCHANGED result
    /\ UNCHANGED <<connection, closerVars, reads, begun>>

\* The RPC (or all RPCs on this stub) succeeds; a creation goes on to its next
\* chunk and reads stub again.  The channel may be closed once the answer is there.
RpcSucceeds(u) ==
    /\ pc[u] = "rpc"
    /\ reads' = [reads EXCEPT ![u] = @ - 1]
    /\ IF reads[u] > 1 THEN Goto(u, "stub") /\ UNCHANGED result ELSE End(u, "ok")
    /\ UNCHANGED <<connection, closerVars, seen, begun>>

RpcFails(u) ==
    /\ pc[u] = "rpc"
    /\ End(u, IF seen[u] \in shut THEN "cancelled" ELSE "error")
    /\ UNCHANGED <<connection, closerVars, seen, reads, begun>>

User(u) ==
    \/ BeginClosed(u) \/ \E n \in {1, 2} : Begin(u, n)
    \/ TestStub(u) \/ TestChannel(u) \/ OpenChannel(u) \/ MakeStub(u) \/ KeepStub(u)
    \/ AssertStub(u) \/ FetchStub(u) \/ RpcSucceeds(u) \/ RpcFails(u)

-----------------------------------------------------------------------------
(* close()                                                                 *)

SetClosed(k) ==
    /\ closer[k] = "idle"
    /\ closed' = TRUE
    /\ closer' = [closer EXCEPT ![k] = "test"]
    /\ quiet' = [quiet EXCEPT ![k] = \A u \in Users : pc[u] = "idle"]
    /\ UNCHANGED <<userVars, channel, stub, opened, shut>>

\* if self._channel is not None
TestOpen(k) ==
    /\ closer[k] = "test"
    /\ closer' = [closer EXCEPT ![k] = IF channel = 0 THEN "done" ELSE "shut"]
    /\ UNCHANGED <<connection, userVars, quiet>>

\* Mutant: the channel is dropped without being closed.
CloseChannel_Drop(k) ==
    /\ closer[k] = "shut"
    /\ closer' = [closer EXCEPT ![k] = "forget_channel"]
    /\ UNCHANGED <<connection, userVars, quiet>>

\* self._channel.close(), which fails when another closer was faster.
CloseChannel(k) ==
    /\ closer[k] = "shut"
    /\ IF channel = 0
         THEN closer' = [closer EXCEPT ![k] = "failed"] /\ UNCHANGED shut
         ELSE closer' = [closer EXCEPT ![k] = "forget_channel"] /\ shut' = shut \cup {channel}
    /\ UNCHANGED <<userVars, quiet, closed, channel, stub, opened>>

ForgetChannel(k) ==
    /\ closer[k] = "forget_channel"
    /\ channel' = 0
    /\ closer' = [closer EXCEPT ![k] = "forget_stub"]
    /\ UNCHANGED <<userVars, quiet, closed, stub, opened, shut>>

ForgetStub(k) ==
    /\ closer[k] = "forget_stub"
    /\ stub' = 0
    /\ closer' = [closer EXCEPT ![k] = "done"]
    /\ UNCHANGED <<userVars, quiet, closed, channel, opened, shut>>

Closer(k) ==
    SetClosed(k) \/ TestOpen(k) \/ CloseChannel(k) \/ ForgetChannel(k) \/ ForgetStub(k)

Next == (\E u \in Users : User(u)) \/ (\E k \in Closers : Closer(k))

Spec == Init /\ [][Next]_vars

-----------------------------------------------------------------------------
(* Properties.                                                             *)

\* The threads that have used the client so far.
Seen == {u \in Users : pc[u] # "idle" \/ result[u] # "none"}

\* As long as only one thread uses a client it never meets its own assertion, or
\* a missing stub, before somebody closes it.
SoloNeverFails ==
    (Cardinality(Seen) <= 1 /\ ~closed)
        => \A u \in Users : result[u] \notin {"assertion", "internal"}

\* The calls of close() that met an operation.
Loud == {k \in Closers : closer[k] # "idle" /\ ~quiet[k]}

\* A close() of a client that only one thread has used, begun while no operation
\* was inside, leaves no channel open, although a close() that did meet an operation
\* may have come first.  After two of those it does: the second forgets a channel
\* that was opened after the first had closed the one before.
QuietCloseReleases ==
    (/\ Cardinality(Seen) <= 1 /\ Cardinality(Loud) <= 1
     /\ \E k \in Closers : closer[k] = "done" /\ quiet[k])
        => 1..opened \subseteq shut

\* "assert self._stub is not None" (client.py:118).
StubAssertion == \A u \in Users : result[u] # "assertion"
=============================================================================
