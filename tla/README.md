# HurriCache Python client: TLA+ models and proofs

This directory models the HurriCache Python client (`src/hurricache/grpc/`), checks the
models with TLC on small instances and proves their most important invariants with TLAPS
for every value of the constants.

    tlc -workers 2 -config smart_pool.cfg MCSmartClient        # a run
    tlapm SmartClientProofs.tla                                # the proofs

## 1. The system

The package is a client library for the HurriCache server (a sharded, replicated cache
reached over gRPC). It has no server code. Its parts:

| Part | Source | State it keeps | Operations | Hard behaviour |
| --- | --- | --- | --- | --- |
| Synchronous smart client | `smart_client.py` 100-334 | topology, node clients, retired clients, count of operations in flight, coordinator channel and rotation, closed and stop flags, one lock | `_refresh_loop`/`_refresh_once`/`_apply_topology` in a daemon thread; `_execute` in the callers' threads; `close` | three kinds of threads share it; parts of refresh and close run without the lock; close gives up waiting for the refresher |
| Asynchronous smart client | `smart_client.py` 337-572 | the same, no lock | the same on an event loop | awaits between reading and clearing state, cancellation |
| Topology and routing | `smart_client.py` 26-97, 234-294 | none | `_topology_from`, `_merge_topology`, `_shard`, choice of endpoints | merging responses, holes in the topology, modes |
| Direct clients | `client.py`, `async_client.py` | lazily opened channel and stub, closed flag | about a hundred operations, each written for threads and for tasks: build a request, one RPC, a stream or chunks, decode | first use and close without a lock; streams that fail half way; two copies of everything |
| Chunk planning | `batching.py` | none | `plan`, `continuation`, `check` | sizes and positions at their limits |
| Chunked sending | `client.py` 198-248, `async_client.py` 282-306 and 472-496 | loop counters | `_create_container_chunked`, `_call_add_chunked` | one chunk of several fails; answers are lost; no replay after progress |
| Operation scope | `operation.py` | context variables: deadline, start time, threshold | `operation`, `remaining`, `absolute_ttl`, `lock_expiration` | nested scopes that share one deadline and one start time; two clocks; leaving a scope by an error |
| Conversion | `utils.py`, `models.py` | none | keys, values, hints, GZIP, batches | payloads at the threshold and at the decoding limit |
| Errors | `exceptions.py` | none | `mapped_rpc_error` | which errors permit a second attempt |
| Generated bindings, tools | `*_pb2*.py`, `tools/` | none | | |

How they interact: an application thread calls an operation on the smart client, which
waits for the first topology, copies topology and node clients under the lock, chooses one
or two node clients and calls the operation of the same name on the first. The node
client plans the request, sends its chunks and maps errors. `UnavailableError` makes the
smart client repeat the operation on the second node, `FailedPreconditionError` on the
node the server's trailer names; `PartialOperationError` is never repeated. Meanwhile the
refresher asks the coordinators in rotation and replaces topology and node clients; a
client that left the topology is closed by the refresher if no operation is in flight,
and otherwise by the last operation to leave. `close()` stops the refresher, waits a
bounded time for it, and closes channels and clients.

What makes each part correct:

* smart client: no node client is closed while an operation holds it, none is forgotten,
  none is used after a regular close; operations always return; one healthy coordinator is
  enough; `close()` releases everything;
* routing: routes and clients agree, writes start at the master, at most two different
  nodes are tried;
* planning: chunks fit, cover every item once, in the right order, as few as possible, and
  what cannot be sent is refused before anything is sent;
* sending: cutting a request does not show in what the server stores; a success counts what
  is stored, an error what was acknowledged; nothing acknowledged is sent again;
* a call as a whole: one deadline and one expiry, however many scopes, chunks and attempts
  it has; nothing of it is left for the next call; a stream is complete, partial and honest,
  or an error; what one client writes another reads; both clients call the same RPCs with
  the same messages and TTL fields and read the same from the answers.

## 2. Modules

| Module | Models | Extends |
| --- | --- | --- |
| `Topology` | the pure part of routing, as operators | |
| `SmartClient` | the synchronous smart client, all its threads | `Topology` |
| `ClientPool` | abstract specification: a pool of clients freed only when unused | |
| `Scenarios` | the coordinators' answers the runs use, a malformed target among them | |
| `MCSmartClient` | constants for TLC | `SmartClient`, `Scenarios` |
| `TopologyProofs` | facts about merged topologies and tables of clients, for both smart clients | `Topology` |
| `SmartClientProofs` | typing, counting and ownership in `SmartClient` | `SmartClient`, `TopologyProofs` |
| `SmartGuaranteesProofs` | attempts and routes; `close()` and the refinement of `ClientPool` | `SmartClientProofs` |
| `Batching` | `plan()` step by step, and the sizes it compares | |
| `MCBatching`, `BatchingProofs` | small requests; proofs | `Batching` |
| `ChunkedSend` | an operation from plan to result, with the server and a second node | `Batching` |
| `MCChunkedSend` | small operations | `ChunkedSend` |
| `ChunkedSendProofs` | proofs about the loop, the server and the second node | `ChunkedSend`, `BatchingProofs` |
| `Catalogue` | tables: every operation of both direct clients and every method of the stub | |
| `Operation` | a call from its scopes to its RPCs and streams, for any operation | `Catalogue` |
| `MCOperation`, `OperationProofs` | the calls TLC makes; proofs | `Operation` |
| `DirectClient` | the lazily opened connection of one direct client under threads and `close()` | |
| `MCDirectClient`, `DirectClientProofs` | symmetry for TLC; proofs | `DirectClient` |
| `AsyncSmartClient` | the asynchronous smart client on its event loop | `Topology` |
| `MCAsyncSmartClient` | constants for TLC | `AsyncSmartClient`, `Scenarios` |
| `AsyncSmartClientProofs` | proofs about `AsyncSmartClient` | `AsyncSmartClient`, `TopologyProofs` |

### SmartClient

State: the attributes of `HurriCacheSmartClient` under their own names without the
underscore, the local variables of each thread (`thread`, `attempt`, `old_channel`,
`pending` for the refresher; `pc`, `snap`, `call`, `endpoints`, `tried`, `closing` for
the callers; `closer` for the closers), and three ghost variables that record what the
outside world sees: `made` (clients created), `dead` (clients closed), and `open_channels`
for the coordinators. A node client
is `<<target, n>>`, the n-th object created for that target, so that a client that was
closed is never confused with its successor.

One action is a block that no other thread can observe half way: the body of a
`with self._lock` block, or one read or write of a shared attribute outside it. `close()`
holds the lock over three actions (`CloseChannel`, `ForgetChannel`, `CloseClients`), because
`_refresh_once` swaps the coordinator channel without the lock; all other actions that need
the lock wait for it. `OpenChannel` and `SwapChannel` separate reading the old coordinator channel from
publishing the new one; `ApplyWhenOpen` and `Install` separate the unlocked test of
`_closed` from the locked installation; `Finally` and `CloseRetired` separate taking the
retired list (`LastOut`) from closing its members. An RPC is `CallStarts` followed by one of
`Returns`, `Unavailable` and `FailedPrecondition`; the trailer may name any target.

External: the coordinators answer with any stream of a given set (`Streams`), or fail,
unless they are in `Healthy`; node answers are nondeterministic.

### Batching and ChunkedSend

An item is its encoded size: protobuf sizes add up over a repeated field, which is what
makes the greedy cut with binary search right. `upto[i]` is the size of the first i items,
`header` that of everything else, `reserve` what the largest key hint would add, and a
position costs one byte of tag and as many as its varint needs (`VarintLimits`, the numbers
from which a varint is a byte longer, are 2^7, 2^14, 2^21 and 2^28 in the code). Each check that may find the deadline passed is a step of its own.

`ChunkedSend` runs the plan, sends one chunk after another and lets the server store,
refuse, or store and lose the answer. `form` tells the four result conventions apart:
boolean and counting additions, creations of lists (continued by `addElementToTail`,
whose zero is an error) and of sets and maps (continued by `addElement`, whose zero is
not). The server is modelled from how the client uses it: a block of items goes to the
tail, before the head item by item, to a position, or before or after a value. It takes all
items of a chunk or none. `missing` counts the items of chunks that were answered with 0 and
counted as sent all the same, which a counting operation and the creation of a set or a map
do. `Cancelled` is a task cancelled in an RPC, whose error no handler turns into a partial
one; `StubLost` is the blocking client's creation that reads `stub` again after its first
chunk and finds it gone.
`Fallback` is the smart client's second attempt, at a node that may or may not have
replicated what the first one stored.

### DirectClient

One `HurriCacheClient`, several threads that run operations on it and several that close it.
Nothing in the class takes a lock, so every read and every write of `_closed`, `_channel`
and `_stub` is a step: the test in `stub`, the test in `channel`, the assignment of the
channel, the creation of the stub from whatever `_channel` holds then, its assignment, the
assertion, the final read; and the five steps of `close()`. An operation is a number of
RPCs, because a chunked creation reads `stub` again for its continuations. Channels are
numbered, and the ghost variables say which are open. `SmartClient` abstracts all this to
one step, `CallStarts`.

### Catalogue and Operation

`Catalogue` has one row per public operation of `HurriCacheClient` and of
`AsyncHurriCacheClient`: the stub's method, the message it is given, what is read from the
answer, where the TTL goes, and for methods that call another public one, which. It also has
the stub's methods with the messages they serialize. `WrapsFlag` is a wrapper whose result is
a flag and not the count of the method it calls (`add_element_ordered_set`). Keys, positions,
container types, and lock ownership inside the messages are left out. In two of these the
clients differ: the blocking one names a lock owner in atomic requests only when the client id
is not 0 (client.py:1698 and 1993, where async_client.py:583 and 636 always do), and leaves the
type unset when it adds keys with values (client.py:1571, where async_client.py:507 sets `MAP`).

`Operation` is one thread or task that makes one call after another. `ctx` holds the three
context variables, `frames` the open scopes with the values their `finally` resets: a call
on a smart client opens one scope for `_execute`, one for the node client's method, and one
more for each method that this one calls. `Enter` is `operation()` with `_wrap`; `Build` the
method's body up to its first RPC; `Send` is `_call` or `_unary`; `UnaryReply`, `ChunkReply`,
`Batch` and `StreamEnds` are the answers; `Leave` takes a value or an exception through one
scope, where a typed stream method looks at what it got (`Promised`: the container that each
of the eight promises); `Retry` is the second attempt of
`_execute`. Two clocks run: `now` is monotonic, the wall clock may be set at any tick. A
payload is its length and what its metadata say, a batch the number of its elements and
whether keys and values pair up. `batches` is how the server happens to cut the container.

A stream is a container and the places where the server cuts it: a batch is known by how
many elements there are up to its end, and may be empty, or unpaired
(as many values as keys are expected). The i-th element of the container is the number i, with the class of its
payload, so that what a method returns can be compared with what is stored.

External: other threads may close a client at any time (`Refuse("cancelled")`; what close
does is in `DirectClient` and the smart clients), RPCs fail with any status, and gRPC ends an
RPC at the limit it was given. That a chunk is refused or too large is in `ChunkedSend`;
which nodes are tried is in `SmartClient`.

### AsyncSmartClient

On an event loop only a suspending `await` lets another task run, so an action is what lies
between two of them: waiting for readiness, an RPC, the sleep between attempts, the two
`gather`s of `close()`. There is no lock, and none of the half-way states of the threaded
client. Instead every suspended operation, and every suspended `close()`, may be cancelled;
`close()` itself cancels the refresh task. The tests of `_closed` in the refresh task never
see it set, because the cancellation comes in the same step as the flag; they are part of
the actions all the same. Which shard and which mode an operation uses are free choices
here; `SmartClient` models how they are computed, and the two classes share that code.

External: `grpc.aio.Channel.close()` without a grace period does not suspend the task, so
that the loop over the retired clients is one step.

## 3. Runs

| Run | Bounds | Shows |
| --- | --- | --- |
| `smart_pool` | 2 callers (symmetric), 1 closer, 1 coordinator, 3 refreshes, topologies that drop and restore a node or name a target that is not host:port | `TypeOK`, `InUseNeverClosed`, `NoClientLost`, `ActiveIsExact`, `CancelledOnlyByClose`; `ImplementsPool`: the threads implement `ClientPool` |
| `smart_route` | 1 caller, 2 closers (symmetric), every mode and override, hints outside the hash range, topologies with two shards, holes and failover, 2 refreshes | `ReadyHasShards`, `RoutesHaveClients`, `AtMostTwoNodes`, `WritesStartAtMaster`; `CloseReleasesAll` with racing `close()` calls |
| `smart_live` | 1 caller, 1 closer, 2 coordinators of which the second is healthy, 2 refreshes, topologies that drop a node or name a malformed target, fairness | `OperationsReturn`, `RetiredGetClosed`; `BecomesReady`: every round reaches the healthy coordinator, wherever the rotation stands |
| `batching_plan` | up to 4 items of 3 sizes, limit 12 bytes, positions up to 15, varints longer from 2, 4, 8 and 16 on | `ChunksFit`, `ChunksPartition`, `ChunksMaximal`, `RejectedEarly`, `PositionsStayPositions`, `PlanEnds`; `FewestChunks` against all ways to cut |
| `chunked_send` | up to 4 items of 2 sizes, limit 8 bytes, every form and place, 2 nodes, counts limited to 2 | `ChunkEquivalence`, `SuccessStoresAll`, `PartialIsHonest`, `NeverTooLarge`; `RepeatsAreBounded`: what may be stored twice when an answer is lost |
| `async_tasks` | 2 callers that may be cancelled, 2 closers, 2 coordinators, rounds begin until 2 attempts have been made, so up to 3 attempts, a topology and one that drops a node and names a malformed target, fairness | `NoClientLost`, `CloseReleasesAll`, `OperationsReturn`, `CloseReturns`; `ImplementsPool`: the tasks implement the same `ClientPool` |
| `direct_client` | 2 users and 3 closers (symmetric), 3 operations | `SoloNeverFails`, `QuietCloseReleases`: what holds as long as one thread uses the client |
| `direct_calls` | `MCCalls`: every operation of both clients, every timeout and TTL for a few of them, payloads around the limits, streams of up to 3 batches; 2 ticks, 2 settings of the wall clock | `DeadlineKept`, `NotCutShort`, `ExpiryHonest`, `RequestsAgree`, `RoundTrip`, `StreamHonest`, `TimedCallsReturn` |

Why the bounds are enough to be interesting. Three refreshes let a client be retired while
in use, and its target come back with a second client while the first is parked. Two callers are needed for "the
last one out". The two closers of `smart_route` race the unlocked test of `_closed`. With the second coordinator
healthy only a rotation that really advances becomes ready, and the second round begins
where the first one has left it. Malformed targets are in `smart_pool`, `smart_live` and the
two runs of the asynchronous client; `smart_route` and `smart_late_channel` have none. Four items with a limit of a
few bytes give plans of one to four chunks in which the binary search takes every branch,
and positions 3, 12 and 15 with `MaxPos = 15` meet the overflow inside a request, at its
end, and the sentinel.
`MaxRefreshes` and `MaxAttempts` bound only the exploration; `HashModulus` and `CounterModulus` stand for
2^32 and 2^31.

Two users are the least for the race of a first use, and three operations of up to two
reads of `stub` let a user meet the closed client between two of its own. Three closers are
the least with which two `close()` calls meet an operation and a third does not, where
`QuietCloseReleases` needs its premise. Two closers of the
asynchronous client reach a `close()` that is cancelled and repeated; three attempts let a
node be dropped by a failed installation and come back while its first client is in use.

A default timeout of two ticks leaves time for a call to expire between any two of its
steps, and for a second call after it; thresholds of 0, 1 and 1024 against lengths 0 to 5
with a decoding limit of 4 meet every comparison of `_compressed` and `_decode` from both
sides; three batches are the least in which an empty first one, a broken one and a good one
occur together. `Second = 2` and `MaxLock = 9` stand for 1000 milliseconds and 2^32 - 1
seconds. A call is only made if its time is up before `MaxTime`, so that the bound on the
clock never keeps a call from ending.

Deadlock is checked, except in the batching and sending models: these end, and say
`CHECK_DEADLOCK FALSE`. Callers are interchangeable in `smart_pool`, closers in `smart_route`,
users and closers in `direct_client`; these check safety only (`ImplementsPool` has no
fairness), for which the symmetry is sound.

Fairness (`Fairness` in `SmartClient`): weak fairness of the refresher, of every step of an
operation that has begun, and of every step of a `close()` that has begun. The threads are
preemptively scheduled, every wait has a timeout (`wait_until_ready`, `_stop.wait`, `join`), and
no `with self._lock` block waits for anything. RPCs are assumed to end: by default they carry a
timeout (`remaining`, `_call`), but a caller who passes `timeout=None` to a node that never
answers is not covered by `OperationsReturn`. Beginning an operation or a `close()` is the application's choice and not fair.
`RetiredGetClosed` says that each retired client is closed, not only that the list is emptied.
Its premise is that moments without an operation in flight keep coming: with operations that
always overlap the code keeps retired clients for ever. And it speaks of the clients that are
retired while an operation is in flight, which takes them along when it leaves, and of those
that an installation retires or finds in the list. An installation that is aborted by a malformed
target when nothing is in flight leaves what it has retired in the list until the next operation,
refresh or `close()`. `BecomesReady` likewise does not promise readiness when the topology that
the round brings names a malformed target.
The asynchronous client is fair in the same way, with the event loop's queue in place of the
scheduler; being cancelled is never fair. In `Operation` the caller's own steps, the passing
of time and the end of an RPC at its limit are fair; servers, topologies and other threads
owe nothing, so `TimedCallsReturn` rests on the timeouts alone, and is stated for calls that
have one.

### Where code and documentation disagree

Each of these runs checks one property that a document or an assertion states, and TLC finds
a behaviour of the code that violates it.

* `smart_late_channel` (`ShutdownClosesChannels`, README.md:203): the refresher retries
  without looking at `_stop`; after the join has timed out it opens a coordinator channel
  that outlives `close()`.
* `async_close_again` (`CloseAgainReleasesAll`, README.md:203): `close()` sets `_closed`
  first. Cancelled in one of its `gather`s, it leaves clients open, and a second `close()`
  returns at once.
* `direct_assertion` (`StubAssertion`, client.py:118): `channel` publishes `_channel` before
  `_stub`; a second thread in between skips the creation and fails the assertion.
* `ttl_on_wire` (`WireTtlAbsolute`, README.md:110): insertion next to a value puts the TTL
  into the request as the caller gave it; all other operations send a moment.

Read in the code while modelling, and part of the models without a run of their own:

* A malformed target aborts `_apply_topology` after removed clients have left `_clients` and
  before the topology is replaced, so that the installed routes name targets without a client
  until the next refresh, which is why `RoutesHaveClients` is checked without such targets.
* The join of `close()` may also time out between the unlocked test of `_closed` in
  `_apply_topology` and the installation, which then follows the shutdown (the premise
  `~join_timed_out` of `CloseReleasesAll`).
* Mutations that `_WRITE_OPERATIONS` does not list (`remove`, `update_value`, `create_*`,
  `get_and_remove_element_with_weight`) follow the configured mode as in the Java client
  (tests/test_routing_parity.py:16), where API_REFERENCE.md:179 says "Mutations use
  master-then-backup by default". A shard with one role is served by it whatever the mode.
* The creation of a set or a map goes on after a continuation that was answered with 0
  (client.py:216 asks lists, vectors and queues only), and succeeds without these items.
* A blocking creation reads `stub` again after its first chunk and outside the `try`, so that a
  `close()` by another thread just then raises the failed assertion as it is (`StubLost`, an
  exception that `PartialIsHonest` names; FINDINGS.md:94 has none).
* A map whose first batch is empty comes back as a list of its keys, without the values, where
  README.md:152 says that a decoded map is a dict (`Read` in `StreamHonest`; this needs a server
  that begins a stream with an empty batch). Of the typed methods, `stream_list`,
  `stream_vector`, `stream_queue` and `stream_set` accept the keys of such a map, and
  `stream_ordered_set` those of an ordered map, as the list they promise; the ones that promise
  a dict refuse it.
* A key over the decoding limit turns every error of its request into `ValueError`; `get_ttl`
  returns -1 without a TTL where its docstring (client.py:356) says 0.
* An operation past the test of `_closed` reopens a direct client; and two `close()` calls that
  both meet that operation leak a channel (the first closes the channel it found, the operation
  opens another, and the second, which has read the old one, sets `_channel` to `None`), which
  no later `close()` can release: the premise on `Loud` in `QuietCloseReleases`, found when the
  proof for any number of closers failed.

## 4. Proofs

Each theorem holds for every value of the constants: any number of threads, tasks, targets,
coordinators and operations, any request, limit, timeout and payload length. Its hypotheses
are the named `ASSUME`s, which TLC evaluates on the runs:

* `Topology`, `SmartClient`, `AsyncSmartClient`: finitely many callers, at least one
  coordinator, well-typed coordinator answers, positive moduli; `DirectClient`: finitely many
  threads; `Batching`: well-typed requests, whose sizes grow with every item, and finitely
  many lengths of a varint.
* `ChunkedSend`: the forms and places that the client's methods combine
  (`OperationAssumption`: creations go to the tail, a position is there for insertions at one
  and for no other), and one or two nodes (`EndpointAssumption`).
* `Operation`: settings are natural numbers (`SettingsAssumption`; the constructors check
  them), the markers for missing arguments are no numbers (`MarkerAssumption`), calls name an
  operation of the client they are made on and carry what some client can have stored
  (`CallsAssumption`). `CatalogueAssumption` is about no constant at all: it is a fact about
  the two closed tables of `Catalogue`, which TLC establishes by evaluating it (a call that
  creates has a TTL of its own, and continues with another RPC; the methods that check the
  representation are those of `Promised`, wrap one that does not check it, and accept what has
  the shape and class of the container they promise). It is an assumption only
  because the provers would have to expand a hundred rows.

| Theorem | Module | States | Argument |
| --- | --- | --- | --- |
| `TypeCorrect`, `ExactCount`, `ShardsWhenReady` | `SmartClientProofs` | `TypeOK`, `ActiveIsExact`, `ReadyHasShards` | A topology on its way to installation has shards (`PendingHasShards`), an operation that calls a node has chosen one (`CallHasNode`); cardinality of `InOperation` when one caller enters or leaves. |
| `SafeReclamation`, `NothingLost`, `OnlyCloseCancels` | `SmartClientProofs` | `InUseNeverClosed` and `Ownership`, `NoClientLost`, `CancelledOnlyByClose` | `SafetyInv`, below. |
| `TwoNodesAtMost`, `MasterBeforeBackup` | `SmartGuaranteesProofs` | `AtMostTwoNodes`, `WritesStartAtMaster` | `AttemptsInv`: at most two different endpoints, of which the attempts made so far are the beginning, or a redirection in place of the second; `AllWritesListed`: `_WRITE_OPERATIONS` against the list of the tests. |
| `RoutesAreServed` | `SmartGuaranteesProofs` | `RoutesHaveClients` | Published topology and dictionary agree, and so do those of every snapshot. |
| `CloseReleases` | `SmartGuaranteesProofs` | `CloseReleasesAll` | `ReleaseInv`: a closer past a join that did not time out has a dead refresher behind it, so the coordinator channel it closes is the only one and no client is created behind its back. |
| `RefinesPool`, `AsyncRefinesPool` | `SmartGuaranteesProofs`, `AsyncSmartClientProofs` | `ImplementsPool` | Initial states map to initial states; every action maps to a step of `ClientPool` or changes nothing the pool sees. |
| `AsyncNothingLost`, `AsyncCloseReleases` | `AsyncSmartClientProofs` | `NoClientLost`, `CloseReleasesAll` | `PoolInv` and `ShutInv`, below. |
| `PlanCorrect`, `EveryChunkFits`, `EveryChunkIsMaximal`, `RejectsBeforeCutting`, `PositionsNeverOverflow` | `BatchingProofs` | `ChunksPartition`, `ChunksFit`, `ChunksMaximal`, `RejectedEarly`, `PositionsStayPositions` | `PlanInv`, below; for positions, that the preflight has placed the last item when cutting begins (`Placed`). |
| `GreedyIsOptimal` | `BatchingProofs` | `FewestChunks` | Every chunk but the last contains a cut of any other way that fits; below. |
| `PreflightIsEnough` | `ChunkedSendProofs` | `NeverTooLarge` | `LoopInv`, below: the chunk on the wire is one that was planned, or a continuation that `Start` has checked. |
| `ChunksAreOneRequest`, `SuccessIsComplete`, `ErrorsAreHonest` | `ChunkedSendProofs` | `ChunkEquivalence`, `SuccessStoresAll`, `PartialIsHonest` | `SendInv`, below, on `AppliedAgain`: two requests in sending order do what one does. |
| `RepeatsOneChunk` | `ChunkedSendProofs` | `RepeatsAreBounded` | `RepeatInv`, below, on `PlanIsUnique`: the second node is sent the same chunks. |
| `SoloSucceeds`, `QuietCloses` | `DirectClientProofs` | `SoloNeverFails`, `QuietCloseReleases` | `Fresh` and `Held`, below. |
| `DeadlineSpansCall`, `OwnDeadlineOnly` | `OperationProofs` | `DeadlineKept`, `NotCutShort` | `DeadlineInv`, below. |
| `ExpiryIsHonest`, `PayloadsRoundTrip` | `OperationProofs` | `ExpiryHonest`, `RoundTrip` | `ContentInv`, below; `DecodeEncoded` and `DecodedIsWhole` about `utils.py`. |
| `StreamsAreHonest` | `OperationProofs` | `StreamHonest` | `StreamInv`, below; `RawIsWhole`: what the batches of a stream add up to, against the container. |

The inductive invariants, and why the properties alone are not enough:

* `SafetyInv` (`SmartClientProofs`). `InUseNeverClosed` follows from `Ownership`
  (before `close()` what operations hold is offered or retired, and both are disjoint from
  what is closed); `Ownership` is preserved by `Install` and `Finally` because `_active = 0`
  means that nobody holds anything, which is `ActiveIsExact`; that an operation is not
  cancelled needs that the client it calls is from its own snapshot (`TriedFromSnapshot`);
  `ClosingIsLast` and `ClosersFlagged` say when callers close and that a closer past its
  first assignment has set the flag. `LifetimeSteps` sorts the actions by what they do to node
  clients; routing, closing and the refinement build on it.
* `RoutesAreServed` has a hypothesis that no run's invariant has: `WellFormedStreams`, no
  coordinator names a target that is not host:port. Without it the statement is false in
  the code: such a target aborts `_apply_topology` (`InstallFails`) when the dictionary has
  already been changed and the topology has not. `smart_route` has no such targets either;
  all other theorems hold with them.
* `PoolInv` and `ShutInv` (`AsyncSmartClientProofs`) are the same argument without a lock: on an
  event loop no state lies between retiring and closing, so offered, retired and closed are
  all there is (`Reachable`); a `close()` past its first `gather` has a refresh task that has
  ended, and what it gathers is all that is open (`Gathered`). Cancelling an operation is
  covered by the same step as its return, because both leave through `finally`.
* `PlanInv` (`BatchingProofs`) says what the preflight has established so far (`Checked`), the
  invariant of the binary search (what lo cuts fits, what lies beyond hi does not: `Search`),
  and that the finished chunks are adjacent, fit and are maximal (`Listed`).
* `GreedyIsOptimal`: take any other way to cut. A chunk that were inside one of its pieces
  together with the item after it would fit with that item, because a piece's size bounds that
  of what it contains (`SmallerFits`: an item takes at least a byte, and a position that moves
  up by one item at most one more, `PositionGrows`). That contradicts `ChunksMaximal`, so the
  end of every chunk but the last has a cut of the other way inside the chunk or at its end
  (`CutInside`); these are different cuts, so there are at least as many (`FewestCuts`).
* `LoopInv` (`ChunkedSendProofs`) adds to the invariant of `plan()` that `acknowledged`, `done`
  and `total` are those of the chunks before `next` (`Counted`), that only the node in use has
  confirmed anything (`Confirmed`: a second attempt begins only at zero), and that the value an
  insertion refers to stays on every node (`Anchored`).
* `SendInv`: while no chunk was refused the node holds what one request with the items sent so
  far would leave (`Contents`, `Holds`); whatever was refused, it has grown by the items sent
  less the `missing` ones (`Grows`), which for additions is `total`; and an error tells the
  chunks before the one that failed (`Told`). It needs that the chunks
  of an insertion before or after a value, or to the head, go out in an order in which the
  second one lands next to the first.
* `RepeatInv`: an item is on the node at most once more than when the attempt began
  (`Repeated`), and what the first node may have handed to the second is the first chunk of a
  plan of the same request (`Handed`), which is the plan in use.
* `Fresh` (`DirectClientProofs`): with one user and no `close()`, a channel without a stub is in
  the hands of that user between its two assignments. `Held`: with one user and at most one
  `close()` that met an operation, the channel that `_channel` names is the only one that may
  be open, and a closer about to forget it has seen it closed.
* `DeadlineInv` (`OperationProofs`): the innermost scope, and every scope that was saved but the
  outermost's, has the deadline, start time and threshold of the call; the outermost saved
  an empty context (`Scopes`). So every way out, by return, error or cancellation, from any
  depth, ends in an empty context, and that is what the next call finds. `Limits` relates the
  limits of the readiness wait and of RPCs in flight to that deadline.
* `ContentInv`: the request that has been built, and every request that was sent, names the
  expiry of the call and the key as it is encoded; a continuation may lack a TTL only where
  the TTL is the container's.
* `StreamInv` (`OperationProofs`): the open scopes are those of the methods that wrap one
  another (`Nesting`), so an outcome that leaves a scope meets the check of that method and of
  no other; what `_collect_stream` holds is made of the batches before the next one, and the
  first batch has decided whether it is a dictionary, a list of elements or a list of keys
  (`Taken`, `Gotten`); and what is on its way to the caller is what the method of the innermost
  scope may return, or a partial result that counts the batches before the failure (`Told`,
  `Yields`). A second invariant, `Far`, says how far the stream has come when its call ends:
  a success has read every batch, and what fails after one is a partial result, a cancelled
  task, a key that cannot be named (`Unnamed`) or a typed method's refusal (`Refused`), which
  comes after the last batch only. `StreamHonest` speaks of the end only; the path from the batches through the
  nested checks and the facade's second attempt is what makes it inductive.

Only model-checked:

* everything temporal under fairness (`OperationsReturn`, `CloseReturns`, `RetiredGetClosed`,
  `BecomesReady`, `PlanEnds`, `TimedCallsReturn`), which the prover does not support;
* `RequestsAgree`: it compares the two finite tables of the catalogue, and `direct_calls` goes
  through all of their rows.

Where an argument goes over all chunks of a plan, it takes the first place where the statement
would fail (`LeastElement`, from the library's well-founded order of the natural numbers)
instead of an induction, whose rules the installed provers cannot instantiate.

## 5. Not modelled, and the plan

Left out for good: protobuf encoding, GZIP and text encoding (bytes without state), the
fields of messages other than TTLs and collections, the servicers and descriptors of the
generated bindings, tools, logging. Outside `Operation` time is abstracted to "the deadline
may have passed" wherever the code looks at it. Callers of a context-local mode are modelled
by the mode they use, not by the context variable. `_endpoints` of both smart clients and
`chunk_messages` are not called by any code.

Next, in this order:

1. `_merge_topology` against a reference that does not depend on the order of responses.
2. `DirectClient` composed with `SmartClient`: every node client a connection of its own.
