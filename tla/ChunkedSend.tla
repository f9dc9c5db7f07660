---------------------------- MODULE ChunkedSend -----------------------------
(***************************************************************************)
(* One collection operation from the call to its result: the request is    *)
(* planned (Batching), its chunks are sent one after the other             *)
(* (_call_add_chunked and _create_container_chunked of client.py), and the *)
(* smart client's _execute may repeat all of it at a second node.          *)
(*                                                                         *)
(* A request has, beside what Batching needs,                              *)
(*   form   "boolean" and "count" for the add_* operations,                *)
(*          "create_list" (list, vector, queue) and "create_set" (others)  *)
(*   op     where the server puts the items: tail, head, position, before  *)
(*          or after a value                                               *)
(*   continuation  header of an AddToRequest that continues a creation     *)
(* Items are 1..length and 0 is the value the container held before.       *)
(***************************************************************************)
EXTENDS Batching

CONSTANTS
    Endpoints,      \* nodes _execute may try: 1 (direct client) or 2
    MaxCount        \* 0xFFFFFFFF: limit of the summed counts

ASSUME EndpointAssumption == Endpoints \in {1, 2} /\ MaxCount \in Nat

OperationType(r) ==
    /\ r.form \in {"boolean", "count", "create_list", "create_set"}
    /\ r.op \in {"tail", "head", "position", "before", "after"}
    /\ r.form \in {"create_list", "create_set"} => r.op = "tail"
    /\ r.op = "position" <=> r.pos # NoPos
    /\ r.op = "after" <=> r.after
    /\ r.continuation \in Nat

ASSUME OperationAssumption == \A r \in Requests : OperationType(r)

VARIABLES
    node,                           \* the endpoint in use
    next,                           \* the chunk to send next
    acknowledged, done, total,      \* the loop's counters
    wire,                           \* the RPC: idle, ready, flight, stored, refused
    outcome,                        \* how the call ended
    store,                          \* external: what each node holds
    before,                         \* what the node in use held at the start
    confirmed,                      \* chunks each node has confirmed so far
    missing                         \* acknowledged items that the node answered with 0

sendVars == <<node, next, acknowledged, done, total, wire, outcome, store, before, confirmed,
              missing>>
vars == <<plan_vars, sendVars>>

Nodes == 1..Endpoints
Creates == request.form \in {"create_list", "create_set"}
Original == IF Creates THEN <<>> ELSE <<0>>

Undecided == [kind |-> "none", chunks |-> 0, items |-> 0]
Result(kind) == [kind |-> kind, chunks |-> 0, items |-> 0]
PartialOperationError(n, items) == [kind |-> "partial", chunks |-> n, items |-> items]

Init ==
    /\ PlanInit
    /\ node = 1 /\ next = 1
    /\ acknowledged = 0 /\ done = 0 /\ total = 0
    /\ wire = "idle" /\ outcome = Undecided
    /\ store = [n \in Nodes |-> Original]
    /\ before = Original
    /\ confirmed = [n \in Nodes |-> 0]
    /\ missing = 0

-----------------------------------------------------------------------------
(* The server, external: what a node does with the items of one request.   *)

\* Items from+1 .. to of the request.
Slice(from, to) == [i \in 1..(to - from) |-> from + i]

\* Where the value 0 is.
Pivot(s) == CHOOSE i \in 1..Len(s) : s[i] = 0

InsertedAt(s, i, items) == SubSeq(s, 1, i) \o items \o SubSeq(s, i + 1, Len(s))

\* Each item is pushed to the head, but a block goes before or after a value.
\* Without items nothing changes, wherever they would have gone.
Applied(s, items, pos) ==
    IF items = <<>> THEN s
    ELSE CASE request.op = "head"   -> Reverse(items) \o s
           [] request.op = "before" -> InsertedAt(s, Pivot(s) - 1, items)
           [] request.op = "after"  -> InsertedAt(s, Pivot(s), items)
           [] request.op = "position" /\ pos # MaxPos -> InsertedAt(s, pos, items)
           [] OTHER                 -> s \o items

-----------------------------------------------------------------------------
(* Before the first RPC.                                                   *)

Count(i) == chunks[i][2] - chunks[i][1]

\* continuation(chunk, hint).ByteSize() with the largest hint.
ContinuationBytes(i) ==
    request.continuation + (request.upto[chunks[i][2]] - request.upto[chunks[i][1]])

\* Mutant: continuations are assumed to fit where creations do.
ContinuationsFit_Assumed == TRUE

\* check(continuation(chunk, reserved)) for all chunks but the first.
ContinuationsFit ==
    Creates => \A i \in 2..Len(chunks) : ContinuationBytes(i) <= MaxRpcSize

Start ==
    /\ phase = "planned" /\ wire = "idle" /\ outcome = Undecided
    /\ IF ContinuationsFit
         THEN wire' = "ready" /\ UNCHANGED outcome
         ELSE outcome' = Result("value_error") /\ UNCHANGED wire
    /\ UNCHANGED <<plan_vars, node, next, acknowledged, done, total, store, before, confirmed,
                   missing>>

\* plan() has raised: ValueError, or the deadline has passed.
PlanFails ==
    /\ phase \in {"rejected", "expired"} /\ outcome = Undecided
    /\ outcome' = Result(IF phase = "rejected" THEN "value_error" ELSE "error")
    /\ UNCHANGED <<plan_vars, node, next, acknowledged, done, total, wire, store, before,
                   confirmed, missing>>

-----------------------------------------------------------------------------
(* The loop over the chunks.                                               *)

Ready == wire = "ready" /\ outcome = Undecided

\* "if count == 0: continue"; a creation sends its first chunk all the same.
Skips(i) == ~Creates /\ Count(i) = 0

Skip ==
    /\ Ready /\ next <= Len(chunks) /\ Skips(next)
    /\ next' = next + 1
    /\ UNCHANGED <<plan_vars, node, acknowledged, done, total, wire, outcome, store, before,
                   confirmed, missing>>

\* Mutant: an error after the first chunk is raised as it is.
Failure_Raw(kind) == Result(kind)

\* The exception handlers: progress turns any error into PartialOperationError.
Failure(kind) ==
    IF acknowledged > 0 THEN PartialOperationError(acknowledged, done) ELSE Result(kind)

\* Size of the request _call is given: the first chunk of a creation and every
\* chunk of an addition as planned, the others as continuations.
SentBytes(i) ==
    IF Creates /\ i > 1 THEN ContinuationBytes(i) ELSE Bytes(chunks[i][1], chunks[i][2])

\* remaining() or check(request) raises in _call, before anything is sent.
NotSent(kind) ==
    /\ Ready /\ next <= Len(chunks) /\ ~Skips(next)
    /\ kind = "too_large" => SentBytes(next) > MaxRpcSize
    /\ outcome' = Failure(kind)
    /\ UNCHANGED <<plan_vars, node, next, acknowledged, done, total, wire, store, before,
                   confirmed, missing>>

Send ==
    /\ Ready /\ next <= Len(chunks) /\ ~Skips(next)
    /\ SentBytes(next) <= MaxRpcSize
    /\ wire' = "flight"
    /\ UNCHANGED <<plan_vars, node, next, acknowledged, done, total, outcome, store, before,
                   confirmed, missing>>

\* External: the node stores the items of the chunk, at a position it has.
ServerStores ==
    /\ wire = "flight"
    /\ request.op = "position" =>
          PositionOf(chunks[next][1]) \in 0..Len(store[node]) \cup {MaxPos}
    /\ wire' = "stored"
    /\ store' = [store EXCEPT ![node] =
                    Applied(@, Slice(chunks[next][1], chunks[next][2]),
                            PositionOf(chunks[next][1]))]
    /\ UNCHANGED <<plan_vars, node, next, acknowledged, done, total, outcome, before, confirmed,
                   missing>>

\* External: the node stores nothing and will say 0.  createContainer answers
\* with a key hint and has no such answer.
ServerRefuses ==
    /\ wire = "flight" /\ ~(Creates /\ next = 1)
    /\ wire' = "refused"
    /\ UNCHANGED <<plan_vars, node, next, acknowledged, done, total, outcome, store, before,
                   confirmed, missing>>

\* The RPC fails, before or after the node has executed it.
RpcFails(kind) ==
    /\ wire \in {"flight", "stored", "refused"}
    /\ wire' = "ready"
    /\ outcome' = Failure(kind)
    /\ UNCHANGED <<plan_vars, node, next, acknowledged, done, total, store, before, confirmed,
                   missing>>

\* A task is cancelled in the RPC: CancelledError is no Exception, the handlers let
\* it pass.  The same goes for KeyboardInterrupt in a thread.
Cancelled ==
    /\ wire \in {"flight", "stored", "refused"}
    /\ wire' = "ready"
    /\ outcome' = Result("cancelled")
    /\ UNCHANGED <<plan_vars, node, next, acknowledged, done, total, store, before, confirmed,
                   missing>>

\* The blocking client's creation reads self.stub again after its first chunk, outside
\* the try: when another thread closes the client just then the assertion in stub fails.
StubLost ==
    /\ Creates /\ Ready /\ next = 2
    /\ outcome' = Result("stub_error")
    /\ UNCHANGED <<plan_vars, node, next, acknowledged, done, total, wire, store, before,
                   confirmed, missing>>

Size == IF wire = "stored" THEN Count(next) ELSE 0

Advance ==
    /\ wire' = "ready"
    /\ next' = next + 1
    /\ acknowledged' = acknowledged + 1
    /\ done' = done + Count(next)
    /\ confirmed' = [confirmed EXCEPT ![node] = @ + 1]
    /\ missing' = missing + (Count(next) - Size)
    /\ UNCHANGED outcome

Stop(result) ==
    /\ wire' = "ready"
    /\ outcome' = result
    /\ UNCHANGED <<next, acknowledged, done, confirmed, missing>>

\* Mutant: the chunk that overflows is not part of the progress.
Overflowed_Uncounted == PartialOperationError(acknowledged, done)

\* "count exceeds uint32": the chunk was acknowledged.
Overflowed == PartialOperationError(acknowledged + 1, done + Count(next))

CountOverflows == total + Size > MaxCount

\* "server rejected chunk": False only if there was no progress.
Refusal == IF acknowledged > 0 THEN PartialOperationError(acknowledged, done)
                               ELSE Result("false")

\* Mutant: a refusal is an ordinary answer.
Refused_Ignored == FALSE

\* A zero where the operation promises that the items are stored.
Refused ==
    Size = 0 /\ IF Creates THEN request.form = "create_list" /\ next > 1
                           ELSE request.form = "boolean"

AddReply ==
    /\ wire \in {"stored", "refused"} /\ ~Creates
    /\ IF CountOverflows
         THEN Stop(Overflowed) /\ UNCHANGED total
         ELSE /\ total' = total + Size
              /\ IF Refused THEN Stop(Refusal) ELSE Advance
    /\ UNCHANGED <<plan_vars, node, store, before>>

CreateReply ==
    /\ wire \in {"stored", "refused"} /\ Creates
    /\ IF Refused THEN Stop(PartialOperationError(acknowledged, done)) ELSE Advance
    /\ UNCHANGED <<plan_vars, node, total, store, before>>

\* return True, total or hint
Succeed ==
    /\ Ready /\ next > Len(chunks)
    /\ outcome' = Result("success")
    /\ UNCHANGED <<plan_vars, node, next, acknowledged, done, total, wire, store, before,
                   confirmed, missing>>

\* except (UnavailableError, FailedPreconditionError) in _execute
Repeatable == outcome.kind = "unavailable"

\* The operation from the beginning at the second endpoint.  External: whether
\* that node has already got what the first one stored.
Fallback(replicated) ==
    /\ Repeatable /\ node < Endpoints
    /\ LET held == IF replicated THEN store[node] ELSE store[node + 1] IN
         store' = [store EXCEPT ![node + 1] = held] /\ before' = held
    /\ node' = node + 1 /\ next' = 1
    /\ acknowledged' = 0 /\ done' = 0 /\ total' = 0 /\ missing' = 0
    /\ wire' = "idle" /\ outcome' = Undecided
    /\ phase' = "header" /\ index' = 0 /\ start' = 0 /\ lo' = 0 /\ hi' = 0 /\ chunks' = <<>>
    /\ UNCHANGED <<request, confirmed>>

Next ==
    \/ PlanStep /\ UNCHANGED sendVars
    \/ Start \/ PlanFails \/ Skip \/ Send \/ Succeed
    \/ \E kind \in {"error", "too_large"} : NotSent(kind)
    \/ ServerStores \/ ServerRefuses
    \/ \E kind \in {"unavailable", "error"} : RpcFails(kind)
    \/ AddReply \/ CreateReply \/ Cancelled \/ StubLost
    \/ \E replicated \in BOOLEAN : Fallback(replicated)

Spec == Init /\ [][Next]_vars

-----------------------------------------------------------------------------
(* Properties.                                                             *)

\* The operations that promise all or nothing chunk by chunk.
Strict == request.form \in {"boolean", "create_list"}

\* The items of the first k chunks sent, in the order the caller gave them.
FirstItems(k) ==
    IF k = 0 THEN <<>>
    ELSE IF request.after THEN Slice(chunks[k][1], chunks[1][2])
    ELSE Slice(chunks[1][1], chunks[k][2])

\* What one request with these items would have left in the container.
Unchunked(items) == Applied(before, items, request.pos)

\* Cutting a request does not show (FINDINGS.md:10 "head/tail/position/before/after
\* chunk equivalence"): after every chunk, acknowledged or lost, the node holds
\* what one request with the items sent so far would have put there.
ChunkEquivalence ==
    (Strict /\ wire # "idle") =>
        \/ store[node] = Unchunked(FirstItems(next - 1))
        \/ next <= Len(chunks) /\ store[node] = Unchunked(FirstItems(next))

Grown == Len(store[node]) - Len(before)

\* A call that succeeds has stored every item once, but for the chunks that the node
\* answered with 0 ("missing").  There are none of these for a boolean operation and
\* for lists, vectors and queues, and then the items are where one request had put
\* them.  A counting operation says how many it stored, and that fits a uint32.  The
\* creation of a set or a map accepts a 0 (client.py:216 asks lists, vectors and queues
\* only) and says nothing of it: sure is its first chunk.
SuccessStoresAll ==
    outcome.kind = "success" =>
        /\ Grown = request.length - missing
        /\ missing = 0 => store[node] = Unchunked(Slice(0, request.length))
        /\ Strict => missing = 0
        /\ ~Creates => total = Grown /\ total <= MaxCount
        /\ Creates => Grown >= Count(1)

\* The caller is told what happened.  False: nothing was stored.  After an acknowledged
\* chunk every failure is a PartialOperationError ("Partial errors expose acknowledged
\* progress and prevent replay", FINDINGS.md:94), with two exceptions: a cancellation
\* keeps its type ("Native async cancellation is preserved", FINDINGS.md:99), and a
\* creation that finds its stub gone raises what stub raised (client.py:211).
\* Without an acknowledged chunk at most the first one was stored.
\* PartialOperationError: so many chunks with so many items were acknowledged, and the
\* container grew by these items, or by one chunk more ("the failed RPC may also have
\* executed", exceptions.py:13), less what was answered with 0; the count it carries
\* is that of the acknowledged chunks, the one that overflows it left out.
PartialIsHonest ==
    /\ outcome.kind = "false" => store[node] = before
    /\ acknowledged > 0 =>
          outcome.kind \in {"none", "success", "partial", "stub_error", "cancelled"}
    /\ outcome.kind \in {"unavailable", "error", "too_large", "value_error"} =>
          Grown = 0 \/ Grown = Len(FirstItems(1))
    /\ outcome.kind = "partial" =>
          /\ outcome.chunks \in 1..Len(chunks)
          /\ outcome.items = Len(FirstItems(outcome.chunks))
          /\ \/ Grown = outcome.items - missing
             \/ /\ outcome.chunks < Len(chunks)
                /\ Grown = Len(FirstItems(outcome.chunks + 1)) - missing
          /\ Strict => missing = 0
          /\ ~Creates => \/ total = outcome.items - missing
                         \/ total = outcome.items - missing - Count(outcome.chunks)

\* The items a node holds twice.
Doubled(n) ==
    {i \in 1..request.length : Cardinality({j \in DOMAIN store[n] : store[n][j] = i}) > 1}

\* "No operation replays after acknowledged progress" (API_PARITY.md:336): the second
\* node is only tried when the first one confirmed nothing.  What it may repeat is
\* the one chunk whose answer was lost, when that node has replicated it already:
\* items of the first chunk are stored twice at most, all others once.
RepeatsAreBounded ==
    /\ \A n \in Nodes : n < node => confirmed[n] = 0
    /\ \A n \in Nodes : \A i \in 1..request.length :
          Cardinality({j \in DOMAIN store[n] : store[n][j] = i}) <= 2
    /\ \A n \in Nodes : (n = 1 \/ phase = "planned") =>
          Doubled(n) \subseteq
              IF n = 1 THEN {} ELSE (chunks[1][1] + 1)..chunks[1][2]

\* The preflight is enough: once the first chunk may be sent, no later one turns
\* out to be too large, continuations of a creation with the server's key hint included.
NeverTooLarge ==
    wire # "idle" =>
        \A i \in next..Len(chunks) : Skips(i) \/ SentBytes(i) <= MaxRpcSize
=============================================================================
