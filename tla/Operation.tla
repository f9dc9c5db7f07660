----------------------------- MODULE Operation ------------------------------
(***************************************************************************)
(* One calling context (a thread or a task) and the public operations it   *)
(* runs, one after the other: the scopes of operation.py around every      *)
(* method, the smart clients' _execute around them, and below them the     *)
(* RPCs (_call, _unary, _collect_stream, _stream) with what utils.py puts  *)
(* into a request and reads from an answer.                                *)
(*                                                                         *)
(* A call is a record:                                                     *)
(*   client, smart, op   who is called: a row of the Catalogue             *)
(*   timeout, ttl        an argument, None, or Omitted                     *)
(*   parts               RPCs a collection is cut into (see ChunkedSend)   *)
(*   key                 [raw, gz]: its length, and when compressed        *)
(*   lock                duration of lock_object                           *)
(*   answer              the payload that comes back, [message, written]   *)
(*   container, batches  what is streamed, and where the server cuts it:   *)
(*                       a batch ends after upto elements in all           *)
(* Refused chunks and the limit of request sizes are in ChunkedSend, the   *)
(* choice of the nodes in SmartClient, the channels in DirectClient.       *)
(***************************************************************************)
EXTENDS Catalogue, Integers, Sequences

CONSTANTS
    Calls,              \* the calls the program may make
    None, Omitted, Invalid,
    DefaultTimeout, DefaultTtl, DefaultThreshold,   \* of the client, see configure()
    ReadinessTimeout,
    MaxDecoded,         \* MAX_DECODED_BYTES
    Second,             \* ticks per second
    MaxLock,            \* 0xFFFFFFFF
    Epoch,              \* time.time() at the start
    Skews,              \* bound: what the wall clock may be set off by
    MaxTime             \* bound on the monotonic clock

\* What configure() and the constructors accept.  Times are in ticks.
ASSUME SettingsAssumption ==
    /\ DefaultTimeout \in Nat /\ ReadinessTimeout \in Nat
    /\ DefaultTtl \in Nat /\ DefaultThreshold \in Nat /\ MaxDecoded \in Nat
    /\ Second \in Nat \ {0} /\ Epoch \in Int /\ Skews \subseteq Int
ASSUME MarkerAssumption ==
    /\ None \notin Int /\ Omitted \notin Int /\ Invalid \notin Int
    /\ None # Omitted /\ None # Invalid /\ Omitted # Invalid

VARIABLES
    now, skew,          \* time.monotonic(), and the wall clock's distance from it
    ctx,                \* the context variables
    frames,             \* the scopes that are open, with the tokens to reset
    target,             \* the method being entered
    call, row,          \* the call, and what the method at the bottom of it asks for
    attempt,            \* _execute's endpoint
    pc,
    request,            \* what the method has built
    part, got,          \* chunk or batch to come, and the stream's result so far
    until,              \* limit of the wait or of the RPC under way
    sent,               \* the RPCs of this call
    entered,            \* history: when the call began and when its time is up
    value               \* how it ends

clocks  == <<now, skew>>
scope   == <<ctx, frames, target, call, row, attempt>>
body    == <<request, part, got, until, sent>>
program == <<scope, body, pc, entered, value>>
vars    == <<clocks, program>>

Wall == Epoch + now + skew
Least(a, b) == IF a <= b THEN a ELSE b

Outcome(kind, n, items, result, size) ==
    [kind |-> kind, chunks |-> n, items |-> items, result |-> result, size |-> size]
Pending     == Outcome("pending", 0, 0, None, None)
Error(kind) == Outcome(kind, 0, 0, None, None)

\* No batch has come yet.
Nothing == [shape |-> "none", items |-> <<>>]

\* ContextVar defaults.
Clean == [deadline |-> None, started |-> None, threshold |-> 1024]

Init ==
    /\ now = 0 /\ skew = 0
    /\ ctx = Clean /\ frames = <<>>
    /\ target = None /\ call = None /\ row = None /\ attempt = 1
    /\ pc = "idle"
    /\ request = None /\ part = 1 /\ got = Nothing /\ until = None
    /\ sent = <<>> /\ entered = None /\ value = Pending

-----------------------------------------------------------------------------
(* The arguments.                                                          *)

Rows(client) == IF client = "sync" THEN SyncOperations ELSE AsyncOperations

\* What a method that calls others ends up asking for: two calls down at most.
Called(client, op) ==
    IF Rows(client)[op].call = "wraps" THEN Rows(client)[op].op ELSE op
Resolved(client, op) ==
    LET bottom == Rows(client)[Called(client, Called(client, op))]
    IN IF "reply" \in DOMAIN Rows(client)[op]
         THEN [bottom EXCEPT !.reply = Rows(client)[op].reply]
         ELSE bottom

\* What get_container may find; a list stands for the vector, the queue and the set.
Containers == {"list", "map", "ordered_set", "ordered_map"}

IsMap(kind) == kind \in {"map", "ordered_map"}
ShapeOf(kind) == IF IsMap(kind) THEN "dict" ELSE "list"
ClassOf(kind) == IF kind \in {"ordered_set", "ordered_map"} THEN "OrderedPayload" ELSE "Payload"

\* What a typed stream is for, by its name and annotation.
Promised ==
    [op \in {"stream_list", "stream_vector", "stream_queue", "stream_set"} |-> "list"]
    @@ [stream_map         |-> "map",
        stream_ordered_set |-> "ordered_set",
        stream_ordered_map |-> "ordered_map",
        stream_element_in_range_ordered_map |-> "ordered_map"]

\* About the rows as a whole: creations are continued by another RPC, and date the
\* container; a method that checks the representation wraps one that does not; and the
\* methods that check are the typed streams, which accept what they are for.
ASSUME CatalogueAssumption ==
    \A client \in {"sync", "async"} : \A op \in DOMAIN Rows(client) :
        LET r == Resolved(client, op)
            m == Rows(client)[op]
        IN
        /\ r.ttl \in {"none", "lock", "relative", "always", "value", "values", "request", "both"}
        /\ r.call = "create" => r.ttl \in {"request", "both"} /\ r.rest # r.rpc
        /\ m.call = "wraps" =>
              /\ m.op \in DOMAIN Rows(client)
              /\ Rows(client)[m.op].call = "wraps" =>
                    m.shape = "any" /\ Rows(client)[m.op].shape = "any"
        /\ op \in DOMAIN Promised <=> m.call = "wraps" /\ m.shape # "any"
        /\ op \in DOMAIN Promised =>
              m.shape = ShapeOf(Promised[op]) /\ m.class = ClassOf(Promised[op])

Method == Rows(call.client)[target.op]

\* kwargs.get("timeout", client._default_timeout)
Timeout == IF call.timeout = Omitted THEN DefaultTimeout ELSE call.timeout

\* arguments(): the signature's default, and the client's for None.
Ttl ==
    IF call.ttl = None \/ (call.ttl = Omitted /\ row.ttl \in {"value", "request", "both"})
      THEN DefaultTtl
      ELSE IF call.ttl = Omitted THEN 0 ELSE call.ttl

-----------------------------------------------------------------------------
(* Payloads: _compressed, create_key, create_value and _decode.            *)

\* Mutant: only shorter payloads stay as they are.
Stays_Shorter(raw, threshold) == raw < threshold

Stays(raw, threshold) == raw <= threshold

Encoded(raw, gz, threshold) ==
    IF Stays(raw, threshold)
      THEN [bytes |-> raw, size |-> raw, enabled |-> FALSE, rawSize |-> None, expands |-> None]
      ELSE [bytes |-> gz, size |-> gz, enabled |-> TRUE, rawSize |-> raw, expands |-> raw]

\* The length of what comes out, None for ValueError.  expands is what GZIP makes
\* of the bytes, None if they are no GZIP; rawSize + 1 bytes of it are read.
Decoded(m) ==
    IF ~m.enabled
      THEN IF m.bytes = m.size /\ m.bytes <= MaxDecoded THEN m.bytes ELSE None
      ELSE IF /\ m.bytes = m.size
              /\ m.rawSize # None /\ m.expands # None
              /\ m.rawSize > 0 /\ m.rawSize <= MaxDecoded
              /\ Least(m.expands, m.rawSize + 1) = m.rawSize
             THEN m.rawSize ELSE None

-----------------------------------------------------------------------------
(* The calls.                                                              *)

MessageType(m) ==
    /\ m.bytes \in Nat /\ m.size \in Nat /\ m.enabled \in BOOLEAN
    /\ m.rawSize \in Nat \cup {None} /\ m.expands \in Nat \cup {None}

\* What another client has stored, with any threshold: the payload as it is or
\* compressed, and compressed only if it is not empty.
StoredBy(a) == \E t \in 0..(a.written + 1) : a.message = Encoded(a.written, a.message.bytes, t)

CallType(c) ==
    /\ c.client \in {"sync", "async"} /\ c.op \in DOMAIN Rows(c.client)
    /\ c.timeout \in Nat \cup {None, Omitted, Invalid}
    /\ c.ttl \in Nat \cup {None, Omitted, Invalid}
    /\ c.lock \in Nat \cup {Invalid}
    /\ c.key.raw \in Nat /\ c.key.gz \in Nat
    /\ c.container \in Containers
    /\ c.batches \in Seq([upto : Nat, paired : BOOLEAN])
    /\ \A i \in 2..Len(c.batches) : c.batches[i - 1].upto <= c.batches[i].upto
    /\ c.answer.message # None => MessageType(c.answer.message)
    /\ c.answer.written # None => c.answer.written \in Nat /\ StoredBy(c.answer)

ASSUME CallsAssumption == None \notin Calls /\ \A c \in Calls : CallType(c)

-----------------------------------------------------------------------------
(* Streams: decode_batch, and how batches add up.                          *)

\* Elements before batch i.
Before(i) == IF i = 1 THEN 0 ELSE call.batches[i - 1].upto

Items(from, to, as) ==
    [j \in 1..(to - from) |->
        [item |-> from + j, as |-> as, class |-> ClassOf(call.container)]]

\* A batch without keys is a list, an empty batch of a map included.
DecodeBatch(i) ==
    LET dict == IsMap(call.container) /\ Before(i) < Before(i + 1)
    IN [shape |-> IF dict THEN "dict" ELSE "list",
        items |-> Items(Before(i), Before(i + 1), IF dict THEN "pair" ELSE "element")]

\* The first batch decides on the result; a list is extended by a dict's keys.
Collected(decoded) ==
    IF got = Nothing THEN decoded
    ELSE IF got.shape = "dict" \/ decoded.shape = "list"
      THEN [got EXCEPT !.items = @ \o decoded.items]
      ELSE [got EXCEPT !.items = @ \o [j \in DOMAIN decoded.items |->
                                          [decoded.items[j] EXCEPT !.as = "key"]]]

\* Mutant: only the representation is looked at.
OfClass_Any(items, class) == TRUE

OfClass(items, class) == \A j \in DOMAIN items : items[j].class = class

\* "unexpected collection representation": what a typed method makes of a result.
Accepted(method, outcome) ==
    IF method.shape = "any" \/ outcome.kind # "ok" THEN outcome
    ELSE IF outcome.result.items = <<>>
      THEN [outcome EXCEPT !.result.shape = method.shape]
      ELSE IF /\ outcome.result.shape = method.shape
              /\ OfClass(outcome.result.items, method.class)
             THEN outcome
             ELSE Error("value_error")

-----------------------------------------------------------------------------
(* Scopes: operation() and _wrap.                                          *)

\* The caller makes a call.  Bound: its time is up before MaxTime.
Invoke(c) ==
    /\ pc = "idle"
    /\ c.timeout \notin {None, Invalid} =>
          now + (IF c.timeout = Omitted THEN DefaultTimeout ELSE c.timeout) <= MaxTime
    /\ call' = c /\ row' = Resolved(c.client, c.op)
    /\ target' = [who |-> IF c.smart THEN "facade" ELSE "node", op |-> c.op]
    /\ pc' = "enter"
    /\ UNCHANGED <<clocks, ctx, frames, attempt, body, entered, value>>

\* The call is over and its caller goes on; only the context variables stay.
Return ==
    /\ pc = "done"
    /\ pc' = "idle" /\ target' = None /\ call' = None /\ row' = None /\ attempt' = 1
    /\ request' = None /\ part' = 1 /\ got' = Nothing /\ until' = None
    /\ sent' = <<>> /\ entered' = None /\ value' = Pending
    /\ UNCHANGED <<clocks, ctx, frames>>

Raises(outcome) == pc' = "raise" /\ value' = outcome

\* "client is closed": external, another thread or task may have closed it, the
\* smart client or a node's; "timeout must be finite and nonnegative".
Refuse(kind) ==
    /\ pc = "enter" /\ (kind = "value_error" => Timeout = Invalid)
    /\ Raises(Error(kind))
    /\ UNCHANGED <<clocks, scope, body, entered>>

\* Mutant: every scope takes its own time.
End_Own == IF Timeout # None THEN now + Timeout ELSE ctx.deadline

\* The deadline of the scope: the outermost one's stays.
End == IF ctx.deadline = None /\ Timeout # None THEN now + Timeout ELSE ctx.deadline

\* remaining() raises
Expired(end) == end # None /\ now >= end

\* When the time that remaining(timeout) returns is over.
Remaining(end, timeout) ==
    IF end = None THEN (IF timeout = None THEN None ELSE now + timeout)
    ELSE IF timeout = None THEN end ELSE Least(end, now + timeout)

Enter ==
    /\ pc = "enter" /\ Timeout # Invalid
    /\ frames' = Append(frames, [who |-> target.who, op |-> target.op, saved |-> ctx])
    /\ ctx' = [deadline |-> End, threshold |-> DefaultThreshold,
               started |-> IF ctx.started = None THEN Wall ELSE ctx.started]
    /\ entered' = IF frames # <<>> THEN entered
                  ELSE [at |-> now, wall |-> Wall,
                        until |-> IF Timeout = None THEN None ELSE now + Timeout]
    /\ \/ /\ Expired(End)
          /\ Raises(Error("deadline"))
          /\ UNCHANGED <<target, until>>
       \/ /\ ~Expired(End) /\ target.who = "facade"
          /\ pc' = "wait" /\ until' = Remaining(End, ReadinessTimeout)
          /\ UNCHANGED <<target, value>>
       \/ /\ ~Expired(End) /\ target.who = "node" /\ Method.call = "wraps"
          /\ pc' = "enter" /\ target' = [target EXCEPT !.op = Method.op]
          /\ UNCHANGED <<until, value>>
       \/ /\ ~Expired(End) /\ target.who = "node" /\ Method.call # "wraps"
          /\ IF Ttl = Invalid THEN Raises(Error("value_error"))
                              ELSE pc' = "build" /\ UNCHANGED value
          /\ UNCHANGED <<target, until>>
    /\ UNCHANGED <<clocks, call, row, attempt, request, part, got, sent>>

\* Mutant: only a scope that ends well is reset.
Restored_OnSuccess(saved) == IF pc = "raise" THEN ctx ELSE saved

\* finally: the three resets
Restored(saved) == saved

Top == frames[Len(frames)]
Outer == SubSeq(frames, 1, Len(frames) - 1)

\* The exception or the value leaves the innermost scope.
Leave ==
    /\ pc \in {"return", "raise"}
    /\ IF frames = <<>>
         THEN pc' = "done" /\ UNCHANGED <<ctx, frames, value>>
         ELSE /\ ctx' = Restored(Top.saved)
              /\ frames' = Outer
              /\ IF Outer = <<>> THEN pc' = "done" /\ UNCHANGED value
                 ELSE IF Outer[Len(Outer)].who = "facade" THEN UNCHANGED <<pc, value>>
                 ELSE /\ value' = Accepted(Rows(call.client)[Outer[Len(Outer)].op], value)
                      /\ pc' = IF value'.kind = "ok" THEN pc ELSE "raise"
    /\ UNCHANGED <<clocks, target, call, row, attempt, body, entered>>

-----------------------------------------------------------------------------
(* _execute                                                                *)

ToNode == target' = [who |-> "node", op |-> call.op] /\ pc' = "enter"

\* External: the topology is there and has an endpoint, or none.
Ready(found) ==
    /\ pc = "wait"
    /\ IF found THEN ToNode /\ UNCHANGED value
                ELSE Raises(Error("unavailable")) /\ UNCHANGED target
    /\ UNCHANGED <<clocks, ctx, frames, call, row, attempt, body, entered>>

\* wait_until_ready: TimeoutError
NotReady ==
    /\ pc = "wait" /\ now >= until
    /\ Raises(Error("timeout"))
    /\ UNCHANGED <<clocks, scope, body, entered>>

\* The second attempt, if there is another endpoint; otherwise Leave.
Retry ==
    /\ pc = "raise" /\ attempt = 1 /\ value.kind \in {"unavailable", "precondition"}
    /\ Len(frames) = 2 /\ frames[1].who = "facade"
    /\ ctx' = Restored(Top.saved) /\ frames' = Outer
    /\ ToNode /\ attempt' = 2
    /\ request' = None /\ part' = 1 /\ got' = Nothing /\ until' = None /\ value' = Pending
    /\ UNCHANGED <<clocks, call, row, sent, entered>>

-----------------------------------------------------------------------------
(* The body of a method.                                                   *)

\* Mutant: expiry counts from the moment a request is built.
AbsoluteTtl_Now(ttl) == Wall + ttl

\* absolute_ttl
AbsoluteTtl(ttl) == (IF ctx.started = None THEN Wall ELSE ctx.started) + ttl

\* lock_expiration
LockExpiration == IF call.lock = 0 THEN None ELSE (Wall + call.lock) \div Second

\* "lock duration must be finite and nonnegative", "lock expiration exceeds uint32"
BadLock ==
    /\ row.ttl = "lock" /\ call.lock # 0
    /\ call.lock = Invalid \/ LockExpiration > MaxLock

Built ==
    [key    |-> Encoded(call.key.raw, call.key.gz, ctx.threshold),
     ttl    |-> CASE row.ttl = "always"   -> AbsoluteTtl(Ttl)
                  [] row.ttl = "relative" -> Ttl
                  [] row.ttl \in {"request", "both"} /\ Ttl > 0 -> AbsoluteTtl(Ttl)
                  [] OTHER                   -> None,
     values |-> IF row.ttl \in {"value", "values", "both"} /\ Ttl > 0
                  THEN AbsoluteTtl(Ttl) ELSE None,
     lock   |-> IF row.ttl = "lock" THEN LockExpiration ELSE None,
     wall   |-> IF row.ttl = "lock" THEN Wall ELSE None]

\* Collections are planned, which looks at the deadline.
Build ==
    /\ pc = "build"
    /\ \/ /\ row.call \in {"chunked", "create"} /\ Expired(ctx.deadline)
          /\ Raises(Error("deadline")) /\ UNCHANGED request
       \/ /\ row.call \in {"chunked", "create"} => ~Expired(ctx.deadline)
          /\ IF BadLock
               THEN Raises(Error("value_error")) /\ UNCHANGED request
               ELSE request' = Built /\ pc' = "call" /\ UNCHANGED value
    /\ UNCHANGED <<clocks, scope, part, got, until, sent, entered>>

\* An error after progress, of a collection or of a stream.  How many items the
\* acknowledged chunks of a collection held is in ChunkedSend.
AfterProgress(kind) ==
    IF part = 1 THEN Error(kind)
    ELSE Outcome("partial", part - 1, Len(got.items), got, None)

Continues == row.call = "create" /\ part > 1

\* Mutant: the RPC is started without a limit.
RpcLimit_None == None

\* kwargs["timeout"]
RpcLimit == Remaining(ctx.deadline, Timeout)

\* _call: remaining() and check() find the time is up, or the RPC starts.
Send ==
    /\ pc = "call"
    /\ IF Expired(ctx.deadline)
         THEN Raises(AfterProgress("deadline")) /\ UNCHANGED <<until, sent>>
         ELSE /\ pc' = "flight"
              /\ until' = RpcLimit
              /\ sent' = Append(sent,
                    [rpc     |-> IF Continues THEN row.rest ELSE row.rpc,
                     message |-> IF Continues THEN "AddToRequest" ELSE row.request,
                     ttl     |-> IF Continues THEN None ELSE request.ttl,
                     values  |-> request.values, lock |-> request.lock, wall |-> request.wall,
                     key     |-> request.key, at |-> now, until |-> until'])
              /\ UNCHANGED value
    /\ UNCHANGED <<clocks, scope, request, part, got, entered>>

InFlight(kinds) == pc = "flight" /\ row.call \in kinds

\* mapped_rpc_error, which names the key: it is decoded from the request, except
\* by _collect_stream, and a key that cannot be decoded is a ValueError.
Mapped(kind) ==
    LET unnamed == Decoded(request.key) = None IN
    CASE row.call # "stream"                  -> AfterProgress(IF unnamed THEN "value_error" ELSE kind)
      [] call.client = "async" /\ unnamed     -> Error("value_error")
      [] OTHER                                -> AfterProgress(kind)

Failed(kind) ==
    /\ Raises(Mapped(kind))
    /\ UNCHANGED <<clocks, scope, body, entered>>

\* External: the RPC ends with a status.
RpcFails(kind) == pc = "flight" /\ Failed(kind)

\* gRPC ends the RPC when the time it was given is over.
RpcExpires == pc = "flight" /\ until # None /\ now >= until /\ Failed("deadline")

Returns(result, size) == pc' = "return" /\ value' = Outcome("ok", 0, 0, result, size)

\* _extract_value, and decode_value if the answer has a value at all.
UnaryReply ==
    /\ InFlight({"unary"})
    /\ LET message == call.answer.message IN
       \/ row.reply \notin {"payload", "previous"} /\ Returns(None, None)
       \/ row.reply = "payload"  /\ message = None /\ Raises(Error("not_found"))
       \/ row.reply = "previous" /\ message = None /\ Returns(None, 0)
       \/ /\ row.reply \in {"payload", "previous"} /\ message # None
          /\ IF Decoded(message) = None THEN Raises(Error("value_error"))
                                       ELSE Returns(None, Decoded(message))
    /\ UNCHANGED <<clocks, scope, body, entered>>

ChunkReply ==
    /\ InFlight({"chunked", "create"})
    /\ IF part < call.parts THEN pc' = "call" /\ UNCHANGED value ELSE Returns(None, None)
    /\ part' = part + 1
    /\ UNCHANGED <<clocks, scope, request, got, until, sent, entered>>

\* The loop over the batches: remaining(), decode_batch, and the batch is added.
Batch ==
    /\ InFlight({"stream"}) /\ part <= Len(call.batches)
    /\ IF Expired(ctx.deadline) \/ ~call.batches[part].paired
         THEN /\ Raises(AfterProgress(
                    IF Expired(ctx.deadline) THEN "deadline" ELSE "value_error"))
              /\ UNCHANGED <<part, got>>
         ELSE part' = part + 1 /\ got' = Collected(DecodeBatch(part)) /\ UNCHANGED <<pc, value>>
    /\ UNCHANGED <<clocks, scope, request, until, sent, entered>>

StreamEnds ==
    /\ InFlight({"stream"}) /\ part > Len(call.batches)
    /\ Returns(IF got = Nothing THEN [got EXCEPT !.shape = "list"] ELSE got, None)
    /\ UNCHANGED <<clocks, scope, body, entered>>

\* asyncio.CancelledError at an await: no handler on the way catches it.
TaskCancelled ==
    /\ pc \in {"wait", "flight"} /\ call.client = "async"
    /\ Raises(Error("task_cancelled"))
    /\ UNCHANGED <<clocks, scope, body, entered>>

-----------------------------------------------------------------------------
(* Time.                                                                   *)

\* Time passes, and the wall clock may be set meanwhile.  A call begins with its
\* first scope: no clock has been read before.
Tick ==
    /\ now < MaxTime /\ ~(pc = "enter" /\ frames = <<>>)
    /\ now' = now + 1 /\ skew' \in Skews
    /\ UNCHANGED program

\* Steps the caller's own thread or task can take without anybody's help.
ClientStep == Refuse("value_error") \/ Enter \/ NotReady \/ Build \/ Send \/ Leave

Next ==
    \/ \E c \in Calls : Invoke(c)
    \/ ClientStep \/ Refuse("cancelled") \/ Retry \/ RpcExpires \/ Return
    \/ \E found \in BOOLEAN : Ready(found)
    \/ \E kind \in {"unavailable", "precondition", "other"} : RpcFails(kind)
    \/ UnaryReply \/ ChunkReply \/ Batch \/ StreamEnds
    \/ TaskCancelled
    \/ Tick

Spec == Init /\ [][Next]_vars

\* The thread is scheduled, time goes on and gRPC keeps the limits it is given.
\* Nothing is assumed of servers, topologies or other threads.
FairSpec == Spec /\ WF_vars(ClientStep) /\ WF_vars(RpcExpires) /\ WF_vars(Tick)

-----------------------------------------------------------------------------
(* Properties.                                                             *)

\* One deadline spans the whole call (README.md:237 "one monotonic deadline"): no
\* chunk, no inner method and no second attempt starts an RPC after the time the
\* caller gave is up, or with a limit beyond it.
DeadlineKept ==
    \A i \in DOMAIN sent : entered.until # None =>
        /\ sent[i].at < entered.until
        /\ sent[i].until # None /\ sent[i].until <= entered.until

\* Nobody else's deadline ends a call: what an earlier call of the same thread or
\* task has set never shows, whichever way that call ended.
NotCutShort ==
    /\ value.kind = "deadline" => entered.until # None /\ now >= entered.until
    /\ value.kind = "timeout"  =>
          now >= Remaining(entered.until, entered.at + ReadinessTimeout - now)

Expiry == entered.wall + Ttl

\* "one absolute creation TTL" (README.md:238): in all chunks and attempts of a
\* call, whatever the wall clock does meanwhile, every TTL that is sent as a moment
\* names the same one, the beginning of the call plus what was asked for, and no
\* request that should carry one is without.  (The "relative" rows do not send a
\* moment at all: WireTtlAbsolute.)  A lock never outlasts what was asked for, by the clock
\* when it was built, and falls short of it by less than a second.
ExpiryHonest ==
    sent # <<>> =>
        LET due == row.ttl \notin {"none", "lock", "relative"} /\ Ttl > 0
        IN \A i \in DOMAIN sent :
             LET s == sent[i] IN
             /\ row.ttl # "relative" /\ s.ttl # None => s.ttl = Expiry
             /\ s.values # None => s.values = Expiry
             /\ due /\ s.ttl = None /\ s.values = None =>
                   row.ttl = "request" /\ s.rpc # row.rpc
             /\ s.lock # None =>
                   s.lock * Second \in (s.wall + call.lock - Second + 1)..(s.wall + call.lock)

\* "TTL arguments are relative milliseconds; the client writes absolute Unix
\* milliseconds on the wire" (README.md:110).
WireTtlAbsolute == \A i \in DOMAIN sent : sent[i].ttl # None => sent[i].ttl = Expiry

\* A request is of the type its stub method serializes, and the answer has what is
\* read from it; and the same operation of the other client, synchronous or
\* asynchronous, is the same RPCs with the same messages, puts the TTL into the same
\* fields and reads the same from the answer.  Not compared, and different there: who
\* owns an atomic value (lock_info only if the client has an id, client.py:1698 and
\* :1993; always, async_client.py:583 and :636), and the container type of
\* add_element_unordered with keys (not set, client.py:1571; MAP, async_client.py:507).
RequestsAgree ==
    /\ pc = "build" => row = Resolved(IF call.client = "sync" THEN "async" ELSE "sync", call.op)
    /\ pc = "flight" =>
          LET s == sent[Len(sent)] IN
          IF s.rpc = row.rpc THEN Fits(s.rpc, s.message, row.reply)
                             ELSE Fits(s.rpc, s.message, "size")

\* What one client has written the other reads: a payload comes back as long as it
\* was, whatever the writer's threshold, up to the limit; damaged metadata is an
\* error, never a shorter payload; and the key of a failed request can be named.
RoundTrip ==
    call # None =>
        LET m == call.answer.message IN
        /\ (call.answer.written # None /\ call.answer.written <= MaxDecoded) =>
              Decoded(m) = call.answer.written
        /\ (value.kind = "ok" /\ value.size # None /\ m # None) =>
              value.size = IF m.enabled THEN m.expands ELSE m.bytes
        /\ \A i \in DOMAIN sent :
              call.key.raw <= MaxDecoded => Decoded(sent[i].key) = call.key.raw

Whole ==
    Items(0, Before(Len(call.batches) + 1), IF IsMap(call.container) THEN "pair" ELSE "element")

\* The first batch was empty although the container is not.
LateStart == call.batches # <<>> /\ call.batches[1].upto = 0 /\ Whole # <<>>

\* All elements, keys with their values; the keys alone, as a list, of a map whose
\* stream has begun with an empty batch.
Read ==
    IF LateStart /\ IsMap(call.container)
      THEN [shape |-> "list", items |-> Items(0, Before(Len(call.batches) + 1), "key")]
      ELSE [shape |-> ShapeOf(call.container), items |-> Whole]

\* Streams are complete or fail, and do not hide how far they came.
\*   - A stream that ends well has returned all elements.  A typed method returns its own
\*     representation, which may be the keys of a map (client.py:181, :2035: stream_list
\*     of a map that begins with an empty batch); it never returns another class.
\*   - An error after the first batch is a partial result, which holds what the batches
\*     taken so far held.  The exceptions: the task is cancelled; the key of the failed
\*     stream cannot be decoded (async_client.py:128); a typed method refuses what has
\*     been read to its end, and only another container or a late start is refused.
StreamHonest ==
    LET typed == call.op \in DOMAIN Promised
        mine  == Promised[call.op]
    IN
    /\ (pc = "done" /\ value.kind = "ok" /\ row.call = "stream") =>
          /\ IF Whole = <<>> THEN value.result.items = <<>> ELSE value.result = Read
          /\ typed => /\ value.result.shape = ShapeOf(mine)
                      /\ Whole # <<>> => ClassOf(call.container) = ClassOf(mine)
    /\ (pc = "done" /\ part > 1 /\ row.call = "stream") =>
          \/ value.kind \in {"ok", "partial", "task_cancelled"}
          \/ /\ value.kind = "value_error"
             /\ \/ call.client = "async" /\ call.key.raw > MaxDecoded
                \/ /\ typed /\ part > Len(call.batches)
                   /\ call.container # mine \/ LateStart
    /\ (value.kind = "partial" /\ row.call = "stream") =>
          /\ value.chunks = part - 1 /\ value.chunks \in 1..Len(call.batches)
          /\ value.items = Before(part) /\ Len(value.result.items) = value.items
          /\ \A j \in DOMAIN value.result.items : value.result.items[j].item = j

\* A call with a timeout returns: no wait, RPC or stream outlives it for ever,
\* whatever servers and coordinators do.
TimedCallsReturn == (pc # "idle" /\ Timeout # None) ~> (pc = "done")
=============================================================================
