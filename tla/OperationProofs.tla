-------------------------- MODULE OperationProofs ---------------------------
(***************************************************************************)
(* One deadline and one moment for every public operation, for all calls,  *)
(* timeouts and TTLs: what the scopes of operation.py promise to the       *)
(* methods they are put around.  Then what a stream becomes on its way     *)
(* from the batches, through those methods, to the caller.                 *)
(***************************************************************************)
EXTENDS Operation, SequenceTheorems, TLAPS

-----------------------------------------------------------------------------
(* Payloads.                                                               *)

\* What a client stores is what a client reads, up to the limit: for every payload
\* and every threshold the writer may have had.
LEMMA DecodeEncoded ==
    ASSUME NEW raw \in Nat, NEW gz, NEW t \in Nat, raw <= MaxDecoded
    PROVE  Decoded(Encoded(raw, gz, t)) = raw
<1>1. CASE Stays(raw, t)
  BY <1>1 DEF Decoded, Encoded
<1>2. CASE ~Stays(raw, t)
  <2>1. raw > 0
    BY <1>2 DEF Stays
  <2>2. raw # None /\ Least(raw, raw + 1) = raw
    BY MarkerAssumption DEF Least
  <2> QED
    BY <1>2, <2>1, <2>2 DEF Decoded, Encoded
<1> QED
  BY <1>1, <1>2

\* Nothing but what GZIP makes of the bytes is returned, and only all of it.
LEMMA DecodedIsWhole ==
    ASSUME NEW m, MessageType(m), Decoded(m) # None
    PROVE  Decoded(m) = IF m.enabled THEN m.expands ELSE m.bytes
<1>1. CASE ~m.enabled
  BY <1>1 DEF Decoded
<1>2. CASE m.enabled
  <2>1. /\ m.rawSize # None /\ m.expands # None
        /\ Least(m.expands, m.rawSize + 1) = m.rawSize /\ Decoded(m) = m.rawSize
    BY <1>2 DEF Decoded
  <2>2. m.rawSize \in Nat /\ m.expands \in Nat
    BY <2>1 DEF MessageType
  <2>3. m.expands = m.rawSize
    BY <2>1, <2>2 DEF Least
  <2> QED
    BY <1>2, <2>1, <2>3
<1> QED
  BY <1>1, <1>2

\* A duration in whole seconds is short of the exact one by less than a second.
LEMMA FloorDivision ==
    ASSUME NEW x \in Int, NEW d \in Nat \ {0}
    PROVE  /\ x \div d \in Int
           /\ (x \div d) * d \in (x - d + 1)..x
  OBVIOUS

-----------------------------------------------------------------------------
(* The invariant: deadlines.                                               *)

IsSeq(q) == \E S : q \in Seq(S)
IsOutcome(v) == v = Outcome(v.kind, v.chunks, v.items, v.result, v.size)

\* The variables that the proofs look into, and where the program is.
Shape ==
    /\ now \in Nat /\ skew \in Int
    /\ IsSeq(frames) /\ IsSeq(sent) /\ IsOutcome(value)

Control ==
    /\ pc \in {"idle", "enter", "wait", "build", "call", "flight", "return", "raise", "done"}
    /\ pc = "idle" => call = None /\ sent = <<>>
    /\ pc # "idle" => call \in Calls /\ row = Resolved(call.client, call.op)
    /\ pc \in {"idle", "done"} => frames = <<>>
    /\ pc \in {"wait", "build", "call", "flight", "return"} => frames # <<>>
    /\ pc \in {"idle", "enter", "wait", "build", "call", "flight"} => value = Pending
    /\ pc = "enter" => target = [who |-> target.who, op |-> target.op]
    /\ pc = "enter" /\ frames # <<>> => target.who = "node"
    /\ pc = "enter" /\ frames = <<>> => sent = <<>>

\* What every scope but the caller's own context sees, and when a call has begun.
Scoped == [deadline |-> entered.until, threshold |-> DefaultThreshold, started |-> entered.wall]

Begun ==
    /\ Timeout \in Nat \cup {None}
    /\ entered.at \in Nat /\ entered.at <= now /\ entered.wall \in Int
    /\ entered.until = IF Timeout = None THEN None ELSE entered.at + Timeout

ReadyBy == IF entered.until = None THEN entered.at + ReadinessTimeout
           ELSE Least(entered.until, entered.at + ReadinessTimeout)

Scopes ==
    /\ frames = <<>> => ctx = Clean
    /\ frames # <<>> =>
          /\ ctx = Scoped /\ frames[1].saved = Clean
          /\ \A i \in 2..Len(frames) : frames[i].saved = Scoped
    /\ (frames # <<>> \/ sent # <<>> \/ value.kind \in {"deadline", "timeout"}) => Begun

InTime(s) ==
    entered.until # None =>
        s.at < entered.until /\ s.until # None /\ s.until <= entered.until

Limits ==
    /\ pc = "wait" => until = ReadyBy
    /\ pc = "flight" => until = entered.until
    /\ \A i \in 1..Len(sent) : InTime(sent[i])
    /\ value.kind = "deadline" => entered.until # None /\ now >= entered.until
    /\ value.kind = "timeout" => now >= ReadyBy

DeadlineInv == Shape /\ Control /\ Scopes /\ Limits

\* It holds before the first call.
LEMMA DeadlineInit == Init => DeadlineInv
<1> SUFFICES ASSUME Init PROVE DeadlineInv
  OBVIOUS
<1>1. IsSeq(<<>>)
  <2>1. <<>> \in Seq({})
    OBVIOUS
  <2> QED
    BY <2>1 DEF IsSeq
<1>2. Shape
  BY <1>1 DEF Init, Shape, IsOutcome, Pending, Outcome
<1>3. Control
  BY DEF Init, Control
<1>4. Scopes /\ Limits
  BY DEF Init, Scopes, Limits, Pending, Outcome
<1> QED
  BY <1>2, <1>3, <1>4 DEF DeadlineInv

\* An error of an RPC is an error after progress, or one of the key.
LEMMA MappedIs ==
    ASSUME NEW kind
    PROVE  Mapped(kind) \in {AfterProgress("value_error"), AfterProgress(kind), Error("value_error")}
<1>1. CASE row.call # "stream"
  BY <1>1 DEF Mapped
<1>2. CASE row.call = "stream"
  BY <1>2 DEF Mapped
<1> QED
  BY <1>1, <1>2

\* Errors after progress and errors that name a key are what they are called, or
\* partial results, or errors of the key.
LEMMA ErrorKinds ==
    ASSUME NEW kind
    PROVE  /\ IsOutcome(Error(kind)) /\ Error(kind).kind = kind
           /\ IsOutcome(AfterProgress(kind)) /\ AfterProgress(kind).kind \in {kind, "partial"}
           /\ IsOutcome(Mapped(kind)) /\ Mapped(kind).kind \in {kind, "partial", "value_error"}
           /\ Error(kind).size = None /\ AfterProgress(kind).size = None /\ Mapped(kind).size = None
<1>1. \A a, b, c, d, e : IsOutcome(Outcome(a, b, c, d, e))
  BY DEF IsOutcome, Outcome
<1>2. IsOutcome(Error(kind)) /\ Error(kind).kind = kind /\ Error(kind).size = None
  BY <1>1 DEF Error, Outcome
<1>3. \A k : /\ IsOutcome(AfterProgress(k)) /\ AfterProgress(k).kind \in {k, "partial"}
             /\ AfterProgress(k).size = None
  <2> TAKE k
  <2>1. CASE part = 1
    BY <1>1, <2>1 DEF AfterProgress, Error, Outcome
  <2>2. CASE part # 1
    BY <1>1, <2>2 DEF AfterProgress, Outcome
  <2> QED
    BY <2>1, <2>2
<1>4. Mapped(kind) \in {AfterProgress("value_error"), AfterProgress(kind), Error("value_error")}
  BY MappedIs
<1>5. /\ IsOutcome(Error("value_error")) /\ Error("value_error").kind = "value_error"
      /\ Error("value_error").size = None
  BY <1>1 DEF Error, Outcome
<1>6. /\ IsOutcome(Mapped(kind)) /\ Mapped(kind).kind \in {kind, "partial", "value_error"}
      /\ Mapped(kind).size = None
  BY <1>3, <1>4, <1>5
<1> QED
  BY <1>2, <1>3, <1>6
-----------------------------------------------------------------------------
(* Steps inside a scope.                                                   *)

SameScope == UNCHANGED <<now, skew, ctx, frames, call, row, entered>>

\* What the invariant says of the time of a call only depends on the scope.
LEMMA SameTimes ==
    ASSUME SameScope
    PROVE  /\ Begun' <=> Begun
           /\ Scoped' = Scoped /\ ReadyBy' = ReadyBy
           /\ \A s : InTime(s)' <=> InTime(s)
  BY DEF SameScope, Begun, Scoped, ReadyBy, InTime, Timeout, Least

\* An exception leaves the body of a method.
LEMMA RaiseStep ==
    ASSUME DeadlineInv, SameScope, UNCHANGED sent, pc # "idle", pc' = "raise", IsOutcome(value'),
           value'.kind = "deadline" =>
               frames # <<>> /\ entered.until # None /\ now >= entered.until,
           value'.kind = "timeout" => frames # <<>> /\ now >= ReadyBy
    PROVE  DeadlineInv'
<1>1. UNCHANGED <<now, skew, ctx, frames, call, row, entered, sent>>
  BY DEF SameScope
<1>2. Shape' /\ Control'
  BY <1>1 DEF DeadlineInv, Shape, Control, IsSeq, IsOutcome
<1>3. Scopes'
  BY <1>1, SameTimes DEF DeadlineInv, Scopes
<1>4. Limits'
  BY <1>1, SameTimes DEF DeadlineInv, Limits
<1> QED
  BY <1>2, <1>3, <1>4 DEF DeadlineInv

\* A method returns.
LEMMA ReturnStep ==
    ASSUME DeadlineInv, SameScope, UNCHANGED sent, pc = "flight", NEW result, NEW size,
           Returns(result, size)
    PROVE  DeadlineInv'
<1>1. UNCHANGED <<now, skew, ctx, frames, call, row, entered, sent>>
  BY DEF SameScope
<1>2. pc' = "return" /\ IsOutcome(value') /\ value'.kind = "ok"
  BY DEF Returns, IsOutcome, Outcome
<1>3. Shape' /\ Control'
  BY <1>1, <1>2 DEF DeadlineInv, Shape, Control, IsSeq, IsOutcome
<1>4. Scopes'
  BY <1>1, <1>2, SameTimes DEF DeadlineInv, Scopes
<1>5. Limits'
  BY <1>1, <1>2, SameTimes DEF DeadlineInv, Limits
<1> QED
  BY <1>3, <1>4, <1>5 DEF DeadlineInv

\* The method goes on, without an RPC of its own or in the one it waits for.
LEMMA GoOnStep ==
    ASSUME DeadlineInv, SameScope, UNCHANGED <<sent, value>>,
           pc \in {"wait", "build", "call", "flight"},
           \/ pc' \in {"build", "call"}
           \/ pc' = "enter" /\ target' = [who |-> "node", op |-> call.op]
           \/ pc' = pc /\ pc = "flight" /\ UNCHANGED until
    PROVE  DeadlineInv'
<1>1. UNCHANGED <<now, skew, ctx, frames, call, row, entered, sent, value>>
  BY DEF SameScope
<1>2. Shape' /\ frames # <<>> /\ value = Pending
  BY <1>1 DEF DeadlineInv, Shape, Control, IsSeq, IsOutcome
<1>3. Control'
  BY <1>1, <1>2 DEF DeadlineInv, Control
<1>4. Scopes'
  BY <1>1, SameTimes DEF DeadlineInv, Scopes
<1>5. Limits'
  BY <1>1, SameTimes DEF DeadlineInv, Limits
<1> QED
  BY <1>2, <1>3, <1>4, <1>5 DEF DeadlineInv

\* In a scope the deadline is the caller's.
LEMMA ScopedDeadline ==
    ASSUME DeadlineInv, frames # <<>>
    PROVE  /\ ctx.deadline = entered.until /\ ctx.started = entered.wall
           /\ ctx.threshold = DefaultThreshold /\ Begun
           /\ entered.until \in Nat \cup {None}
           /\ Expired(ctx.deadline) => entered.until # None /\ now >= entered.until
           /\ ~Expired(ctx.deadline) /\ entered.until # None => now < entered.until
<1>1. ctx = Scoped /\ Begun
  BY DEF DeadlineInv, Scopes
<1>2. ctx.deadline = entered.until /\ ctx.started = entered.wall
      /\ ctx.threshold = DefaultThreshold
  BY <1>1 DEF Scoped
<1>3. entered.until \in Nat \cup {None} /\ now \in Nat
  BY <1>1 DEF Begun, DeadlineInv, Shape
<1> QED
  BY <1>1, <1>2, <1>3 DEF Expired

\* The limit given to an RPC is what is left of the caller's time: the timeout that
\* every RPC is given anew is never the shorter one.
LEMMA RpcLimitIsDeadline ==
    ASSUME DeadlineInv, frames # <<>>
    PROVE  RpcLimit = entered.until
<1>1. ctx.deadline = entered.until /\ Begun /\ now \in Nat
  BY ScopedDeadline DEF DeadlineInv, Shape
<1>2. CASE Timeout = None
  BY <1>1, <1>2 DEF RpcLimit, Remaining, Begun
<1>3. CASE Timeout # None
  <2>1. Timeout \in Nat /\ entered.until = entered.at + Timeout /\ entered.at \in Nat
        /\ entered.at <= now
    BY <1>1, <1>3 DEF Begun
  <2>2. entered.until # None
    BY <2>1, MarkerAssumption
  <2>3. RpcLimit = Least(entered.until, now + Timeout)
    BY <1>1, <1>3, <2>2 DEF RpcLimit, Remaining
  <2> QED
    BY <1>1, <2>1, <2>3 DEF Least
<1> QED
  BY <1>2, <1>3

\* An RPC begins.
LEMMA SendStep == DeadlineInv /\ Send => DeadlineInv'
<1> SUFFICES ASSUME DeadlineInv, Send PROVE DeadlineInv'
  OBVIOUS
<1>1. /\ pc = "call" /\ SameScope
      /\ UNCHANGED <<now, skew, ctx, frames, call, row, entered>> /\ frames # <<>>
  BY DEF Send, SameScope, clocks, scope, DeadlineInv, Control
<1>2. CASE Expired(ctx.deadline)
  <2>1. pc' = "raise" /\ value' = AfterProgress("deadline") /\ UNCHANGED sent
    BY <1>2 DEF Send, Raises
  <2>2. IsOutcome(value') /\ value'.kind \in {"deadline", "partial"}
    BY <2>1, ErrorKinds
  <2> QED
    BY <1>1, <1>2, <2>1, <2>2, ScopedDeadline, RaiseStep
<1>3. CASE ~Expired(ctx.deadline)
  <2>1. PICK s : /\ s.at = now /\ s.until = RpcLimit
                 /\ sent' = Append(sent, s)
                 /\ pc' = "flight" /\ until' = RpcLimit /\ value' = value
    <3>1. until' = RpcLimit /\ pc' = "flight" /\ value' = value
      BY <1>3 DEF Send
    <3> QED
      BY <1>3, <3>1 DEF Send
  <2>2. RpcLimit = entered.until /\ entered.until \in Nat \cup {None}
    BY <1>1, RpcLimitIsDeadline, ScopedDeadline
  <2>3. InTime(s)
    <3>1. entered.until # None => now < entered.until
      BY <1>1, <1>3, ScopedDeadline
    <3> QED
      BY <2>1, <2>2, <3>1 DEF InTime
  <2>4. PICK S : sent \in Seq(S)
    BY DEF DeadlineInv, Shape, IsSeq
  <2>5. /\ sent' \in Seq(S \cup {s}) /\ sent' # <<>> /\ Len(sent') = Len(sent) + 1
        /\ \A i \in 1..Len(sent') : sent'[i] = s \/ (i \in 1..Len(sent) /\ sent'[i] = sent[i])
    <3>1. sent \in Seq(S \cup {s})
      BY <2>4
    <3> QED
      BY <2>1, <3>1
  <2>6. Shape'
    BY <1>1, <2>1, <2>5 DEF DeadlineInv, Shape, IsSeq, IsOutcome
  <2>7. Control'
    BY <1>1, <2>1 DEF DeadlineInv, Control
  <2>8. Scopes'
    BY <1>1, <2>1, SameTimes DEF DeadlineInv, Scopes
  <2>9. Limits'
    <3>1. \A i \in 1..Len(sent') : InTime(sent'[i])
      BY <2>3, <2>5 DEF DeadlineInv, Limits
    <3>2. value'.kind \notin {"deadline", "timeout"}
      BY <1>1, <2>1 DEF DeadlineInv, Control, Pending, Outcome
    <3>3. pc' = "flight" /\ until' = entered'.until
      BY <1>1, <2>1, <2>2
    <3> QED
      BY <1>1, <3>1, <3>2, <3>3 DEF Limits, InTime
  <2> QED
    BY <2>6, <2>7, <2>8, <2>9 DEF DeadlineInv
<1> QED
  BY <1>2, <1>3

\* The other steps of a method: what it raises for the deadline is true of it.
LEMMA BodyStep ==
    ASSUME DeadlineInv,
           \/ \E kind \in {"cancelled", "value_error"} : Refuse(kind)
           \/ \E found \in BOOLEAN : Ready(found)
           \/ NotReady \/ Build \/ RpcExpires
           \/ \E kind \in {"unavailable", "precondition", "other"} : RpcFails(kind)
           \/ UnaryReply \/ ChunkReply \/ Batch \/ StreamEnds \/ TaskCancelled
    PROVE  DeadlineInv'
<1>1. ASSUME NEW kind \in {"cancelled", "value_error"}, Refuse(kind) PROVE DeadlineInv'
  BY <1>1, ErrorKinds, RaiseStep DEF Refuse, Raises, SameScope, clocks, scope, body
<1>2. ASSUME NEW found \in BOOLEAN, Ready(found) PROVE DeadlineInv'
  <2>1. pc = "wait" /\ SameScope /\ UNCHANGED sent
    BY <1>2 DEF Ready, SameScope, clocks, body
  <2>2. CASE found
    BY <1>2, <2>1, <2>2, GoOnStep DEF Ready, ToNode
  <2>3. CASE ~found
    BY <1>2, <2>1, <2>3, ErrorKinds, RaiseStep DEF Ready, Raises
  <2> QED
    BY <2>2, <2>3
<1>3. CASE NotReady
  <2>1. pc = "wait" /\ now >= until /\ SameScope /\ UNCHANGED sent /\ pc' = "raise"
        /\ value' = Error("timeout")
    BY <1>3 DEF NotReady, Raises, SameScope, clocks, scope, body
  <2>2. frames # <<>> /\ until = ReadyBy
    BY <2>1 DEF DeadlineInv, Control, Limits
  <2> QED
    BY <2>1, <2>2, ErrorKinds, RaiseStep
<1>4. CASE Build
  <2>1. pc = "build" /\ SameScope /\ UNCHANGED sent /\ frames # <<>>
    BY <1>4 DEF Build, SameScope, clocks, scope, DeadlineInv, Control
  <2>2. CASE Expired(ctx.deadline) /\ pc' = "raise" /\ value' = Error("deadline")
    BY <2>1, <2>2, ErrorKinds, ScopedDeadline, RaiseStep
  <2>3. CASE pc' = "raise" /\ value' = Error("value_error")
    BY <2>1, <2>3, ErrorKinds, RaiseStep
  <2>4. CASE pc' = "call" /\ value' = value
    BY <2>1, <2>4, GoOnStep
  <2> QED
    BY <1>4, <2>2, <2>3, <2>4 DEF Build, Raises
<1>5. ASSUME NEW kind \in {"unavailable", "precondition", "other", "deadline"}, pc = "flight",
             Failed(kind), kind = "deadline" => until # None /\ now >= until
      PROVE  DeadlineInv'
  <2>1. SameScope /\ UNCHANGED sent /\ pc' = "raise" /\ value' = Mapped(kind)
    BY <1>5 DEF Failed, Raises, SameScope, clocks, scope, body
  <2>2. frames # <<>> /\ until = entered.until
    BY <1>5 DEF DeadlineInv, Control, Limits
  <2>3. IsOutcome(value') /\ value'.kind \in {kind, "partial", "value_error"}
    BY <2>1, ErrorKinds
  <2> QED
    BY <1>5, <2>1, <2>2, <2>3, RaiseStep
<1>6. CASE RpcExpires
  BY <1>5, <1>6 DEF RpcExpires
<1>7. ASSUME NEW kind \in {"unavailable", "precondition", "other"}, RpcFails(kind)
      PROVE  DeadlineInv'
  BY <1>5, <1>7 DEF RpcFails
<1>8. CASE UnaryReply
  <2>1. pc = "flight" /\ SameScope /\ UNCHANGED sent
    BY <1>8 DEF UnaryReply, InFlight, SameScope, clocks, scope, body
  <2>2. ASSUME NEW kind \in {"not_found", "value_error"}, Raises(Error(kind))
        PROVE  DeadlineInv'
    BY <2>1, <2>2, ErrorKinds, RaiseStep DEF Raises
  <2>3. ASSUME NEW result, NEW size, Returns(result, size) PROVE DeadlineInv'
    BY <2>1, <2>3, ReturnStep
  <2> QED
    BY <1>8, <2>2, <2>3 DEF UnaryReply
<1>9. CASE ChunkReply
  <2>1. pc = "flight" /\ SameScope /\ UNCHANGED sent
    BY <1>9 DEF ChunkReply, InFlight, SameScope, clocks, scope
  <2>2. CASE pc' = "call" /\ UNCHANGED value
    BY <2>1, <2>2, GoOnStep
  <2>3. CASE Returns(None, None)
    BY <2>1, <2>3, ReturnStep
  <2> QED
    BY <1>9, <2>2, <2>3 DEF ChunkReply
<1>10. CASE Batch
  <2>1. pc = "flight" /\ SameScope /\ UNCHANGED <<sent, until>> /\ frames # <<>>
    BY <1>10 DEF Batch, InFlight, SameScope, clocks, scope, DeadlineInv, Control
  <2>2. CASE Expired(ctx.deadline)
    <3>1. pc' = "raise" /\ value' = AfterProgress("deadline")
      BY <1>10, <2>2 DEF Batch, Raises
    <3>2. IsOutcome(value') /\ value'.kind \in {"deadline", "partial"}
      BY <3>1, ErrorKinds
    <3> QED
      BY <2>1, <2>2, <3>1, <3>2, ScopedDeadline, RaiseStep
  <2>3. CASE ~Expired(ctx.deadline) /\ ~call.batches[part].paired
    <3>1. pc' = "raise" /\ value' = AfterProgress("value_error")
      BY <1>10, <2>3 DEF Batch, Raises
    <3>2. IsOutcome(value') /\ value'.kind \in {"value_error", "partial"}
      BY <3>1, ErrorKinds
    <3> QED
      BY <2>1, <3>1, <3>2, RaiseStep
  <2>4. CASE ~Expired(ctx.deadline) /\ call.batches[part].paired
    <3>1. pc' = pc /\ value' = value
      BY <1>10, <2>4 DEF Batch
    <3> QED
      BY <2>1, <3>1, GoOnStep
  <2> QED
    BY <2>2, <2>3, <2>4
<1>11. CASE StreamEnds
  <2>1. pc = "flight" /\ SameScope /\ UNCHANGED sent
    BY <1>11 DEF StreamEnds, InFlight, SameScope, clocks, scope, body
  <2> QED
    BY <1>11, <2>1, ReturnStep DEF StreamEnds
<1>12. CASE TaskCancelled
  BY <1>12, ErrorKinds, RaiseStep DEF TaskCancelled, Raises, SameScope, clocks, scope, body
<1> QED
  BY <1>1, <1>2, <1>3, <1>4, <1>6, <1>7, <1>8, <1>9, <1>10, <1>11, <1>12
-----------------------------------------------------------------------------
(* Steps into a scope and out of it, and time.                             *)

\* A sequence without elements is empty.
LEMMA EmptyLength ==
    ASSUME NEW S, NEW q \in Seq(S)
    PROVE  q = <<>> <=> Len(q) = 0
  OBVIOUS

\* A list of scopes without its last one.
LEMMA OuterFrames ==
    ASSUME IsSeq(frames), frames # <<>>
    PROVE  /\ IsSeq(Outer) /\ Len(frames) \in Nat \ {0} /\ Len(Outer) = Len(frames) - 1
           /\ Outer = <<>> <=> Len(frames) = 1
           /\ \A i \in 1..Len(Outer) : i \in 1..Len(frames) /\ Outer[i] = frames[i]
<1>1. PICK S : frames \in Seq(S)
  BY DEF IsSeq
<1>2. Len(frames) \in Nat \ {0}
  BY <1>1
<1>3. Outer \in Seq(S) /\ Len(Outer) = Len(frames) - 1
  <2> DEFINE n == Len(frames) - 1
  <2>1. n \in Nat /\ 1..n \subseteq 1..Len(frames)
    BY <1>2
  <2> HIDE DEF n
  <2>2. SubSeq(frames, 1, n) \in Seq(S) /\ Len(SubSeq(frames, 1, n)) = n
    BY <1>1, <2>1
  <2> QED
    BY <2>2 DEF Outer, n
<1>4. \A i \in 1..Len(Outer) : i \in 1..Len(frames) /\ Outer[i] = frames[i]
  <2> DEFINE n == Len(frames) - 1
  <2>1. n \in Nat /\ \A i \in 1..n : i \in 1..Len(frames)
    BY <1>2
  <2>2. Outer = SubSeq(frames, 1, n) /\ Len(Outer) = n
    BY <1>3 DEF Outer
  <2> HIDE DEF n
  <2>3. ASSUME NEW i \in 1..n PROVE SubSeq(frames, 1, n)[i] = frames[i]
    <3>1. i = 1 + i - 1
      OBVIOUS
    <3> QED
      BY <1>1, <2>1, <3>1
  <2>4. ASSUME NEW i \in 1..n PROVE i \in 1..Len(frames) /\ Outer[i] = frames[i]
    <3>1. Outer[i] = SubSeq(frames, 1, n)[i]
      BY <2>2
    <3> QED
      BY <2>1, <2>3, <3>1, Zenon
  <2> QED
    BY <2>2, <2>4, Zenon
<1>5. Outer = <<>> <=> Len(frames) = 1
  <2>1. Outer = <<>> <=> Len(Outer) = 0
    BY <1>3, EmptyLength
  <2> QED
    BY <1>2, <1>3, <2>1
<1> QED
  BY <1>2, <1>3, <1>4, <1>5 DEF IsSeq

\* The scope that is left restores what it found, whatever happened in it.
LEMMA RestoredScope ==
    ASSUME DeadlineInv, frames # <<>>, ctx' = Restored(Top.saved), frames' = Outer,
           UNCHANGED <<entered, call>>
    PROVE  /\ frames' = <<>> => ctx' = Clean
           /\ frames' # <<>> =>
                 /\ ctx' = Scoped' /\ frames'[1].saved = Clean
                 /\ \A i \in 2..Len(frames') : frames'[i].saved = Scoped'
           /\ IsSeq(frames')
<1>1. IsSeq(frames)
  BY DEF DeadlineInv, Shape
<1>2. /\ frames[1].saved = Clean
      /\ \A i \in 2..Len(frames) : frames[i].saved = Scoped
  BY DEF DeadlineInv, Scopes
<1>3. Scoped' = Scoped
  BY DEF Scoped
<1>4. ctx' = frames[Len(frames)].saved
  BY DEF Restored, Top
<1>5. CASE Len(frames) = 1
  BY <1>1, <1>2, <1>4, <1>5, OuterFrames
<1>6. CASE Len(frames) # 1
  <2>1. /\ Len(frames) \in 2..Len(frames) /\ Outer # <<>> /\ 1 \in 1..Len(Outer)
        /\ IsSeq(Outer)
        /\ \A i \in 2..Len(Outer) : i \in 2..Len(frames) /\ i \in 1..Len(Outer)
    BY <1>1, <1>6, OuterFrames
  <2>2. Outer[1] = frames[1] /\ \A i \in 2..Len(Outer) : Outer[i] = frames[i]
    BY <1>1, <2>1, OuterFrames
  <2> QED
    BY <1>2, <1>3, <1>4, <2>1, <2>2
<1> QED
  BY <1>5, <1>6

\* What a typed method makes of a result keeps its kind, or it is a ValueError.
LEMMA AcceptedKinds ==
    ASSUME IsOutcome(value), NEW method
    PROVE  /\ IsOutcome(Accepted(method, value))
           /\ Accepted(method, value).kind \in {value.kind, "value_error"}
           /\ Accepted(method, value).kind = value.kind => Accepted(method, value).size = value.size
           /\ value.kind # "ok" => Accepted(method, value) = value
<1> DEFINE a == Accepted(method, value)
<1>1. CASE a = value
  BY <1>1
<1>2. CASE a = [value EXCEPT !.result.shape = method.shape]
  <2>1. value = Outcome(value.kind, value.chunks, value.items, value.result, value.size)
    BY DEF IsOutcome
  <2>2. a = Outcome(value.kind, value.chunks, value.items,
                    [value.result EXCEPT !.shape = method.shape], value.size)
    BY <1>2, <2>1 DEF Outcome
  <2>3. IsOutcome(a) /\ a.kind = value.kind /\ a.size = value.size
    BY <2>2 DEF IsOutcome, Outcome
  <2>4. value.kind # "ok" => a = value
    BY DEF Accepted
  <2> QED
    BY <2>3, <2>4
<1>3. CASE a = Error("value_error") /\ value.kind = "ok"
  BY <1>3, ErrorKinds
<1> QED
  BY <1>1, <1>2, <1>3 DEF Accepted

\* A scope ends.
LEMMA LeaveStep == DeadlineInv /\ Leave => DeadlineInv'
<1> SUFFICES ASSUME DeadlineInv, Leave PROVE DeadlineInv'
  OBVIOUS
<1>1. /\ pc \in {"return", "raise"}
      /\ UNCHANGED <<now, skew, target, call, row, entered, until, sent>>
  BY DEF Leave, clocks, body
<1>2. Begun' <=> Begun
  BY <1>1 DEF Begun, Timeout
<1>3. ReadyBy' = ReadyBy /\ \A s : InTime(s)' <=> InTime(s)
  BY <1>1 DEF ReadyBy, Least, InTime
<1>4. /\ IsOutcome(value') /\ pc' \in {"return", "raise", "done"}
      /\ value'.kind \in {value.kind, "value_error"}
      /\ pc' = "return" => frames' # <<>>
      /\ pc' = "done" => frames' = <<>>
  <2>0. IsOutcome(value) /\ (pc = "return" => frames # <<>>) /\ IsSeq(frames)
    BY DEF DeadlineInv, Shape, Control
  <2>1. CASE frames = <<>>
    BY <1>1, <2>0, <2>1 DEF Leave
  <2>2. CASE frames # <<>> /\ Outer = <<>>
    BY <1>1, <2>0, <2>2 DEF Leave
  <2>3. CASE frames # <<>> /\ Outer # <<>> /\ Outer[Len(Outer)].who = "facade"
    BY <1>1, <2>0, <2>3 DEF Leave
  <2>4. CASE frames # <<>> /\ Outer # <<>> /\ Outer[Len(Outer)].who # "facade"
    <3>1. PICK method : value' = Accepted(method, value)
      BY <2>4 DEF Leave
    <3>2. frames' = Outer /\ pc' \in {pc, "raise"}
      BY <2>4 DEF Leave
    <3> QED
      BY <1>1, <2>0, <2>4, <3>1, <3>2, AcceptedKinds
  <2> QED
    BY <2>1, <2>2, <2>3, <2>4
<1>5. /\ frames' = <<>> => ctx' = Clean
      /\ frames' # <<>> =>
            /\ ctx' = Scoped' /\ frames'[1].saved = Clean
            /\ \A i \in 2..Len(frames') : frames'[i].saved = Scoped'
      /\ IsSeq(frames')
  <2>1. CASE frames = <<>>
    BY <1>1, <2>1 DEF Leave, DeadlineInv, Scopes, Shape
  <2>2. CASE frames # <<>>
    <3>1. ctx' = Restored(Top.saved) /\ frames' = Outer
      BY <2>2 DEF Leave
    <3> QED
      BY <1>1, <2>2, <3>1, RestoredScope
  <2> QED
    BY <2>1, <2>2
<1>6. Shape'
  BY <1>1, <1>4, <1>5 DEF DeadlineInv, Shape, IsSeq, IsOutcome
<1>7. Control'
  BY <1>1, <1>4 DEF DeadlineInv, Control
<1>8. Scopes'
  <2>1. frames' # <<>> => frames # <<>>
    BY DEF Leave
  <2>2. (frames' # <<>> \/ sent' # <<>> \/ value'.kind \in {"deadline", "timeout"}) => Begun'
    BY <1>1, <1>2, <1>4, <2>1 DEF DeadlineInv, Scopes
  <2> QED
    BY <1>5, <2>2 DEF Scopes
<1>9. Limits'
  <2>1. \A i \in 1..Len(sent') : InTime(sent'[i])
    BY <1>1 DEF DeadlineInv, Limits
  <2>2. pc' \notin {"wait", "flight"}
    BY <1>4
  <2>3. /\ value'.kind = "deadline" => entered'.until # None /\ now' >= entered'.until
        /\ value'.kind = "timeout" => now' >= ReadyBy'
    BY <1>1, <1>3, <1>4 DEF DeadlineInv, Limits
  <2> QED
    BY <1>1, <2>1, <2>2, <2>3 DEF Limits, InTime
<1> QED
  BY <1>6, <1>7, <1>8, <1>9 DEF DeadlineInv

\* The second attempt is in the same outer scope: it gets no time of its own.
LEMMA RetryStep == DeadlineInv /\ Retry => DeadlineInv'
<1> SUFFICES ASSUME DeadlineInv, Retry PROVE DeadlineInv'
  OBVIOUS
<1>1. /\ pc = "raise" /\ Len(frames) = 2 /\ ctx' = Restored(Top.saved) /\ frames' = Outer
      /\ pc' = "enter" /\ target' = [who |-> "node", op |-> call.op] /\ value' = Pending
      /\ UNCHANGED <<now, skew, call, row, sent, entered>>
  BY DEF Retry, ToNode, clocks
<1>2. IsSeq(frames)
  BY DEF DeadlineInv, Shape
<1>3. frames # <<>>
  <2>1. PICK S : frames \in Seq(S)
    BY <1>2 DEF IsSeq
  <2>2. frames = <<>> => Len(frames) = 0
    BY <2>1, EmptyLength
  <2> QED
    BY <1>1, <2>2
<1>4. frames' # <<>>
  BY <1>1, <1>2, <1>3, OuterFrames
<1>5. Begun' <=> Begun
  BY <1>1 DEF Begun, Timeout
<1>6. IsOutcome(value') /\ value'.kind = "pending"
  BY <1>1 DEF IsOutcome, Pending, Outcome
<1>7. Shape'
  BY <1>1, <1>3, <1>6, RestoredScope DEF DeadlineInv, Shape, IsSeq, IsOutcome
<1>8. Control'
  BY <1>1, <1>4 DEF DeadlineInv, Control
<1>9. Scopes'
  BY <1>1, <1>3, <1>4, <1>5, RestoredScope DEF DeadlineInv, Scopes
<1>10. Limits'
  BY <1>1, <1>6 DEF DeadlineInv, Limits, InTime
<1> QED
  BY <1>7, <1>8, <1>9, <1>10 DEF DeadlineInv
\* What operation() reads when a scope opens: the caller's own deadline and moment in
\* the outermost scope, those of the outermost scope in all others.
LEMMA EnteredScope ==
    ASSUME DeadlineInv, Enter
    PROVE  /\ ctx' = Scoped' /\ Begun' /\ End = entered'.until
           /\ frames # <<>> => entered' = entered /\ Scoped' = Scoped
           /\ frames = <<>> => entered'.at = now
<1>1. /\ pc = "enter" /\ Timeout # Invalid /\ UNCHANGED <<now, skew, call>>
      /\ ctx' = [deadline |-> End, threshold |-> DefaultThreshold,
                 started |-> IF ctx.started = None THEN Wall ELSE ctx.started]
      /\ entered' = IF frames # <<>> THEN entered
                    ELSE [at |-> now, wall |-> Wall,
                          until |-> IF Timeout = None THEN None ELSE now + Timeout]
  BY DEF Enter, clocks
<1>2. /\ Timeout \in Nat \cup {None} /\ Timeout' = Timeout
      /\ now \in Nat /\ Wall \in Int
  <2>1. call \in Calls /\ now \in Nat /\ skew \in Int
    BY <1>1 DEF DeadlineInv, Control, Shape
  <2>2. call.timeout \in Nat \cup {None, Omitted, Invalid}
    BY <2>1, CallsAssumption DEF CallType
  <2>3. Timeout \in Nat \cup {None} /\ Timeout' = Timeout
    BY <1>1, <2>2, SettingsAssumption DEF Timeout
  <2> QED
    BY <2>1, <2>3, SettingsAssumption DEF Wall
<1>3. CASE frames = <<>>
  <2>1. ctx.deadline = None /\ ctx.started = None
    BY <1>3 DEF DeadlineInv, Scopes, Clean
  <2>2. /\ entered'.at = now /\ entered'.wall = Wall
        /\ entered'.until = IF Timeout = None THEN None ELSE now + Timeout
    BY <1>1, <1>3
  <2>3. End = entered'.until
    BY <2>1, <2>2 DEF End
  <2>4. ctx' = Scoped'
    BY <1>1, <2>1, <2>2, <2>3 DEF Scoped
  <2>5. Begun'
    BY <1>1, <1>2, <2>2 DEF Begun
  <2> QED
    BY <1>3, <2>2, <2>3, <2>4, <2>5
<1>4. CASE frames # <<>>
  <2>1. entered' = entered
    BY <1>1, <1>4
  <2>2. /\ ctx.deadline = entered.until /\ ctx.started = entered.wall /\ Begun
    BY <1>4, ScopedDeadline
  <2>3. ctx.started # None
    BY <2>2, MarkerAssumption DEF Begun
  <2>4. End = entered.until
    BY <2>2, MarkerAssumption DEF End, Begun
  <2>5. Scoped' = Scoped /\ ctx' = Scoped
    BY <1>1, <2>1, <2>2, <2>3, <2>4 DEF Scoped
  <2>6. Begun'
    BY <1>1, <1>2, <2>1, <2>2 DEF Begun
  <2> QED
    BY <1>4, <2>1, <2>4, <2>5, <2>6
<1> QED
  BY <1>3, <1>4

\* A scope opens.
LEMMA EnterStep == DeadlineInv /\ Enter => DeadlineInv'
<1> SUFFICES ASSUME DeadlineInv, Enter PROVE DeadlineInv'
  OBVIOUS
<1>1. /\ pc = "enter" /\ UNCHANGED <<now, skew, call, row, sent>> /\ value = Pending
      /\ call \in Calls /\ target = [who |-> target.who, op |-> target.op]
      /\ frames # <<>> => target.who = "node"
      /\ frames = <<>> => sent = <<>>
  BY DEF Enter, clocks, DeadlineInv, Control
<1>2. /\ ctx' = Scoped' /\ Begun' /\ End = entered'.until
      /\ frames # <<>> => entered' = entered /\ Scoped' = Scoped
      /\ frames = <<>> => entered'.at = now
  BY EnteredScope
<1>3. PICK f : f.saved = ctx /\ frames' = Append(frames, f)
  BY DEF Enter
<1>4. PICK S : frames \in Seq(S)
  BY DEF DeadlineInv, Shape, IsSeq
<1>5. /\ frames' \in Seq(S \cup {f}) /\ Len(frames') = Len(frames) + 1 /\ Len(frames) \in Nat
      /\ frames'[Len(frames) + 1] = f
      /\ \A i \in 1..Len(frames) : frames'[i] = frames[i]
  <2>1. frames \in Seq(S \cup {f})
    BY <1>4
  <2> QED
    BY <1>3, <2>1
<1>6. frames' # <<>> /\ IsSeq(frames')
  BY <1>5 DEF IsSeq
<1>7. frames'[1].saved = Clean /\ \A i \in 2..Len(frames') : frames'[i].saved = Scoped'
  <2>1. CASE frames = <<>>
    <3>1. Len(frames) = 0 /\ ctx = Clean
      BY <1>4, <2>1 DEF DeadlineInv, Scopes
    <3> QED
      BY <1>3, <1>5, <3>1
  <2>2. CASE frames # <<>>
    <3>1. /\ ctx = Scoped' /\ frames[1].saved = Clean
          /\ \A i \in 2..Len(frames) : frames[i].saved = Scoped'
      BY <1>2, <2>2 DEF DeadlineInv, Scopes
    <3>2. 1 \in 1..Len(frames)
      BY <1>4, <2>2
    <3>3. ASSUME NEW i \in 2..Len(frames') PROVE frames'[i].saved = Scoped'
      <4>1. i = Len(frames) + 1 \/ (i \in 2..Len(frames) /\ i \in 1..Len(frames))
        BY <1>5
      <4> QED
        BY <1>3, <1>5, <3>1, <4>1
    <3> QED
      BY <1>5, <3>1, <3>2, <3>3
  <2> QED
    BY <2>1, <2>2
<1>8. \/ Expired(End) /\ pc' = "raise" /\ value' = Error("deadline")
      \/ /\ target.who = "facade" /\ pc' = "wait" /\ until' = Remaining(End, ReadinessTimeout)
         /\ value' = value
      \/ /\ target.who = "node" /\ pc' = "enter" /\ value' = value
         /\ target' = [target EXCEPT !.op = Method.op]
      \/ pc' = "raise" /\ value' = Error("value_error")
      \/ pc' = "build" /\ value' = value
  BY DEF Enter, Raises
<1>9. /\ IsOutcome(value') /\ value'.kind \in {"pending", "deadline", "value_error"}
      /\ value'.kind = "deadline" => Expired(End)
      /\ pc' # "raise" => value' = Pending
  <2>1. IsOutcome(Pending) /\ Pending.kind = "pending"
    BY DEF IsOutcome, Pending, Outcome
  <2> QED
    BY <1>1, <1>8, <2>1, ErrorKinds
<1>10. Shape'
  BY <1>1, <1>6, <1>9 DEF DeadlineInv, Shape, IsSeq, IsOutcome
<1>11. Control'
  <2>1. pc' = "enter" => target' = [who |-> "node", op |-> target'.op]
    <3>1. ASSUME pc' = "enter" PROVE target' = [who |-> "node", op |-> target'.op]
      <4>1. target.who = "node" /\ target' = [target EXCEPT !.op = Method.op]
        BY <1>8, <3>1
      <4> QED
        BY <1>1, <4>1
    <3> QED
      BY <3>1
  <2>2. pc' = "enter" => target' = [who |-> target'.who, op |-> target'.op] /\ target'.who = "node"
    BY <2>1
  <2>3. pc' \in {"raise", "wait", "enter", "build"}
    BY <1>8
  <2> QED
    BY <1>1, <1>6, <1>9, <2>2, <2>3 DEF DeadlineInv, Control
<1>12. Scopes'
  BY <1>2, <1>6, <1>7 DEF Scopes
<1>13. Limits'
  <2>1. \A i \in 1..Len(sent') : InTime(sent[i])'
    <3>1. CASE frames = <<>>
      BY <1>1, <3>1
    <3>2. CASE frames # <<>>
      BY <1>1, <1>2, <3>2 DEF DeadlineInv, Limits, InTime
    <3> QED
      BY <3>1, <3>2
  <2>2. pc' = "wait" => until' = ReadyBy'
    <3>1. SUFFICES ASSUME pc' = "wait" PROVE until' = ReadyBy'
      OBVIOUS
    <3>2. until' = Remaining(entered'.until, ReadinessTimeout) /\ target.who = "facade"
      BY <1>2, <1>8, <3>1
    <3>3. entered'.at = now
      BY <1>1, <1>2, <3>2
    <3>4. ReadinessTimeout # None
      BY SettingsAssumption, MarkerAssumption
    <3> QED
      BY <3>2, <3>3, <3>4 DEF Remaining, ReadyBy, Least
  <2>3. pc' # "flight" /\ value'.kind # "timeout"
    BY <1>8, <1>9
  <2>4. value'.kind = "deadline" => entered'.until # None /\ now' >= entered'.until
    BY <1>1, <1>2, <1>9 DEF Expired
  <2> QED
    BY <2>1, <2>2, <2>3, <2>4 DEF Limits
<1> QED
  BY <1>10, <1>11, <1>12, <1>13 DEF DeadlineInv

\* A call is made, and its caller goes on after it.
LEMMA CallStep ==
    ASSUME DeadlineInv, Return \/ \E c \in Calls : Invoke(c)
    PROVE  DeadlineInv'
<1>1. CASE Return
  <2>1. /\ pc = "done" /\ pc' = "idle" /\ call' = None /\ sent' = <<>> /\ value' = Pending
        /\ UNCHANGED <<now, skew, ctx, frames>> /\ frames = <<>>
    BY <1>1 DEF Return, clocks, DeadlineInv, Control
  <2>2. IsSeq(<<>>) /\ IsOutcome(Pending) /\ Pending.kind = "pending"
    <3>1. <<>> \in Seq({})
      OBVIOUS
    <3> QED
      BY <3>1 DEF IsSeq, IsOutcome, Pending, Outcome
  <2>3. Shape' /\ Control'
    BY <2>1, <2>2 DEF DeadlineInv, Shape, Control, IsSeq, IsOutcome
  <2>4. Scopes' /\ Limits'
    BY <2>1, <2>2 DEF DeadlineInv, Scopes, Limits
  <2> QED
    BY <2>3, <2>4 DEF DeadlineInv
<1>2. ASSUME NEW c \in Calls, Invoke(c) PROVE DeadlineInv'
  <2>1. /\ pc = "idle" /\ pc' = "enter" /\ call' = c /\ row' = Resolved(c.client, c.op)
        /\ target' = [who |-> IF c.smart THEN "facade" ELSE "node", op |-> c.op]
        /\ UNCHANGED <<now, skew, ctx, frames, sent, entered, value>>
    BY <1>2 DEF Invoke, clocks, body
  <2>2. frames = <<>> /\ sent = <<>> /\ value = Pending /\ Pending.kind = "pending"
    BY <2>1 DEF DeadlineInv, Control, Pending, Outcome
  <2>3. target' = [who |-> target'.who, op |-> target'.op]
    BY <2>1
  <2>4. Shape'
    BY <2>1 DEF DeadlineInv, Shape, IsSeq, IsOutcome
  <2>5. Control'
    BY <2>1, <2>2, <2>3 DEF Control
  <2>6. Scopes' /\ Limits'
    BY <2>1, <2>2 DEF DeadlineInv, Scopes, Limits
  <2> QED
    BY <2>4, <2>5, <2>6 DEF DeadlineInv
<1> QED
  BY <1>1, <1>2

\* Time passes, or nothing happens.
LEMMA TimeStep == DeadlineInv /\ (Tick \/ UNCHANGED vars) => DeadlineInv'
<1> SUFFICES ASSUME DeadlineInv, Tick \/ UNCHANGED vars PROVE DeadlineInv'
  OBVIOUS
<1>1. /\ UNCHANGED <<ctx, frames, target, call, row, until, sent, pc, entered, value>>
      /\ now' \in Nat /\ now <= now' /\ skew' \in Int /\ now \in Nat
  <2>1. now \in Nat /\ skew \in Int
    BY DEF DeadlineInv, Shape
  <2>2. CASE Tick
    BY <2>1, <2>2, SettingsAssumption DEF Tick, program, scope, body
  <2>3. CASE UNCHANGED vars
    BY <2>1, <2>3 DEF vars, program, scope, body, clocks
  <2> QED
    BY <2>2, <2>3
<1>2. Shape' /\ Control'
  BY <1>1 DEF DeadlineInv, Shape, Control, IsSeq, IsOutcome
<1>3. Begun => Begun'
  BY <1>1 DEF Begun, Timeout
<1>4. Scopes'
  BY <1>1, <1>3 DEF DeadlineInv, Scopes, Scoped
<1>5. ReadyBy' = ReadyBy
  BY <1>1 DEF ReadyBy, Least
<1>6. value.kind = "deadline" => entered'.until # None /\ now' >= entered'.until
  <2>1. SUFFICES ASSUME value.kind = "deadline"
                 PROVE  entered.until # None /\ now' >= entered.until
    BY <1>1
  <2>2. entered.until # None /\ now >= entered.until /\ Begun
    BY <2>1 DEF DeadlineInv, Limits, Scopes
  <2>3. entered.until \in Nat
    BY <2>2 DEF Begun
  <2> QED
    BY <1>1, <2>2, <2>3
<1>7. value.kind = "timeout" => now' >= ReadyBy
  <2>1. SUFFICES ASSUME value.kind = "timeout" PROVE now' >= ReadyBy
    OBVIOUS
  <2>2. now >= ReadyBy /\ Begun
    BY <2>1 DEF DeadlineInv, Limits, Scopes
  <2>3. ReadyBy \in Nat
    BY <2>2, SettingsAssumption DEF Begun, ReadyBy, Least
  <2> QED
    BY <1>1, <2>2, <2>3
<1>8. Limits'
  BY <1>1, <1>5, <1>6, <1>7 DEF DeadlineInv, Limits, InTime
<1> QED
  BY <1>2, <1>4, <1>8 DEF DeadlineInv

\* Every step keeps the invariant.
LEMMA DeadlineStep == DeadlineInv /\ [Next]_vars => DeadlineInv'
<1> SUFFICES ASSUME DeadlineInv, [Next]_vars PROVE DeadlineInv'
  OBVIOUS
<1> QED
  BY SendStep, BodyStep, LeaveStep, RetryStep, EnterStep, CallStep, TimeStep DEF Next, ClientStep

\* The invariant says what DeadlineKept and NotCutShort say.
LEMMA DeadlineConsequences == DeadlineInv => DeadlineKept /\ NotCutShort
<1> SUFFICES ASSUME DeadlineInv PROVE DeadlineKept /\ NotCutShort
  OBVIOUS
<1>1. DeadlineKept
  <2>1. PICK S : sent \in Seq(S)
    BY DEF DeadlineInv, Shape, IsSeq
  <2>2. DOMAIN sent = 1..Len(sent)
    BY <2>1
  <2> QED
    BY <2>2 DEF DeadlineInv, Limits, InTime, DeadlineKept
<1>2. ASSUME value.kind = "timeout"
      PROVE  now >= Remaining(entered.until, entered.at + ReadinessTimeout - now)
  <2>1. Begun /\ now >= ReadyBy /\ now \in Nat
    BY <1>2 DEF DeadlineInv, Limits, Scopes, Shape
  <2> DEFINE wait == entered.at + ReadinessTimeout - now
  <2>2. wait \in Int /\ now + wait = entered.at + ReadinessTimeout
    BY <2>1, SettingsAssumption DEF Begun
  <2>3. wait # None
    BY <2>2, MarkerAssumption
  <2> HIDE DEF wait
  <2>4. Remaining(entered.until, wait) = ReadyBy
    BY <2>2, <2>3 DEF Remaining, ReadyBy
  <2> QED
    BY <2>1, <2>4 DEF wait
<1>3. NotCutShort
  BY <1>2 DEF NotCutShort, DeadlineInv, Limits
<1> QED
  BY <1>1, <1>3

\* One deadline spans the whole call, for every timeout, however many chunks, inner
\* methods and attempts there are: no RPC starts after it, or with a limit beyond it.
THEOREM DeadlineSpansCall == Spec => []DeadlineKept
<1> QED
  BY DeadlineInit, DeadlineStep, DeadlineConsequences, PTL DEF Spec

\* No call is ended by a deadline that is not its own: the scopes restore what they
\* found on every way out, so nothing of an earlier call is left in the context.
THEOREM OwnDeadlineOnly == Spec => []NotCutShort
<1> QED
  BY DeadlineInit, DeadlineStep, DeadlineConsequences, PTL DEF Spec
-----------------------------------------------------------------------------
(* The invariant: what requests and answers say.                           *)

\* A lock that is sent ends at most a second early, and never late.
LockHonest(s) == s.lock * Second \in (s.wall + call.lock - Second + 1)..(s.wall + call.lock)

SentKey == Encoded(call.key.raw, call.key.gz, DefaultThreshold)

\* What the method has built, and what it has sent, in part as a continuation.
RequestOK ==
    /\ Ttl \in Nat /\ request.key = SentKey
    /\ row.ttl # "relative" /\ request.ttl # None => request.ttl = Expiry
    /\ request.values # None => request.values = Expiry
    /\ Ttl > 0 /\ row.ttl \in {"always", "request", "both"} => request.ttl = Expiry
    /\ Ttl > 0 /\ row.ttl \in {"value", "values", "both"} => request.values = Expiry
    /\ request.lock # None => LockHonest(request)

SentOK(s) ==
    /\ s.key = SentKey
    /\ row.ttl # "relative" /\ s.ttl # None => s.ttl = Expiry
    /\ s.values # None => s.values = Expiry
    /\ (/\ row.ttl \notin {"none", "lock", "relative"} /\ Ttl > 0
        /\ s.ttl = None /\ s.values = None) => row.ttl = "request" /\ s.rpc # row.rpc
    /\ s.lock # None => LockHonest(s)

ReadOK ==
    (value.kind = "ok" /\ value.size # None /\ call.answer.message # None) =>
        value.size = IF call.answer.message.enabled THEN call.answer.message.expands
                                                    ELSE call.answer.message.bytes

ContentInv ==
    /\ pc = "build" => Ttl \in Nat
    /\ pc \in {"call", "flight"} => RequestOK
    /\ \A i \in 1..Len(sent) : SentOK(sent[i])
    /\ ReadOK

\* A TTL is a number, or refused.
LEMMA TtlType ==
    ASSUME call \in Calls
    PROVE  Ttl \in Nat \cup {Invalid}
<1>1. call.ttl \in Nat \cup {None, Omitted, Invalid}
  BY CallsAssumption DEF CallType
<1> QED
  BY <1>1, SettingsAssumption DEF Ttl

\* The rows of the catalogue that a call can end up at.
LEMMA RowFacts ==
    ASSUME call \in Calls, row = Resolved(call.client, call.op)
    PROVE  /\ row.ttl \in {"none", "lock", "relative", "always", "value", "values", "request",
                           "both"}
           /\ row.call = "create" => row.ttl \in {"request", "both"} /\ row.rest # row.rpc
<1>1. call.client \in {"sync", "async"} /\ call.op \in DOMAIN Rows(call.client)
  BY CallsAssumption DEF CallType
<1> QED
  BY <1>1, CatalogueAssumption

\* What was sent stays true while the call lasts.
LEMMA SameContent ==
    ASSUME UNCHANGED <<call, row, entered>>
    PROVE  /\ Ttl' = Ttl /\ Expiry' = Expiry /\ SentKey' = SentKey
           /\ \A s : LockHonest(s)' <=> LockHonest(s)
           /\ \A s : SentOK(s)' <=> SentOK(s)
           /\ UNCHANGED request => (RequestOK' <=> RequestOK)
<1>1. Ttl' = Ttl
  BY DEF Ttl
<1>2. Expiry' = Expiry
  BY <1>1 DEF Expiry
<1>3. SentKey' = SentKey
  BY DEF SentKey, Encoded, Stays
<1>4. \A s : LockHonest(s)' <=> LockHonest(s)
  BY DEF LockHonest
<1>5. \A s : SentOK(s)' <=> SentOK(s)
  BY <1>1, <1>2, <1>3, <1>4 DEF SentOK
<1>6. UNCHANGED request => (RequestOK' <=> RequestOK)
  BY <1>1, <1>2, <1>3, <1>4 DEF RequestOK, LockHonest
<1> QED
  BY <1>1, <1>2, <1>3, <1>4, <1>5, <1>6

\* A request is built with the moment the call began.
LEMMA BuiltOK ==
    ASSUME DeadlineInv, ContentInv, pc = "build", ~BadLock, request' = Built, UNCHANGED clocks,
           UNCHANGED <<call, row, entered>>
    PROVE  RequestOK'
<1>1. /\ call \in Calls /\ frames # <<>> /\ Ttl \in Nat
  BY DEF DeadlineInv, Control, ContentInv
<1>2. /\ ctx.started = entered.wall /\ ctx.threshold = DefaultThreshold /\ entered.wall \in Int
  BY <1>1, ScopedDeadline DEF Begun
<1>3. AbsoluteTtl(Ttl) = Expiry /\ Expiry \in Int
  BY <1>1, <1>2, MarkerAssumption DEF AbsoluteTtl, Expiry
<1>4. Expiry # None
  BY <1>3, MarkerAssumption
<1>5. request'.key = SentKey
  BY <1>2 DEF Built, SentKey
<1>6. request'.values = IF row.ttl \in {"value", "values", "both"} /\ Ttl > 0 THEN Expiry ELSE None
  BY <1>3 DEF Built
<1>7. request'.ttl = CASE row.ttl = "always"   -> Expiry
                       [] row.ttl = "relative" -> Ttl
                       [] row.ttl \in {"request", "both"} /\ Ttl > 0 -> Expiry
                       [] OTHER                   -> None
  BY <1>3 DEF Built
<1>8. /\ row.ttl # "relative" => request'.ttl \in {Expiry, None}
      /\ Ttl > 0 /\ row.ttl \in {"always", "request", "both"} => request'.ttl = Expiry
  <2>1. CASE row.ttl = "always"
    BY <1>7, <2>1
  <2>2. CASE row.ttl \in {"request", "both"} /\ Ttl > 0
    BY <1>7, <2>2
  <2>3. CASE row.ttl # "always" /\ ~(row.ttl \in {"request", "both"} /\ Ttl > 0)
    BY <1>7, <2>3
  <2> QED
    BY <2>1, <2>2, <2>3
<1>9. request'.lock # None => LockHonest(request)'
  <2>1. SUFFICES ASSUME request'.lock # None PROVE LockHonest(request)'
    OBVIOUS
  <2>2. row.ttl = "lock" /\ request'.lock = LockExpiration /\ request'.wall = Wall
    BY <2>1 DEF Built
  <2>3. call.lock # 0 /\ LockExpiration = (Wall + call.lock) \div Second
    BY <2>1, <2>2 DEF LockExpiration
  <2>4. call.lock \in Nat
    <3>1. call.lock \in Nat \cup {Invalid}
      BY <1>1, CallsAssumption DEF CallType
    <3> QED
      BY <2>2, <2>3, <3>1 DEF BadLock
  <2>5. Wall \in Int
    BY SettingsAssumption DEF Wall, DeadlineInv, Shape
  <2>6. LockExpiration * Second \in (Wall + call.lock - Second + 1)..(Wall + call.lock)
    <3>1. PICK x \in Int : x = Wall + call.lock
      BY <2>4, <2>5
    <3>2. (x \div Second) * Second \in (x - Second + 1)..x
      BY FloorDivision, SettingsAssumption
    <3>3. PICK y : y = (x \div Second) * Second
      OBVIOUS
    <3>4. y \in (Wall + call.lock - Second + 1)..(Wall + call.lock)
      BY <2>4, <2>5, <3>1, <3>2, <3>3, SettingsAssumption
    <3>5. LockExpiration = x \div Second
      BY <2>3, <3>1
    <3> QED
      BY <3>3, <3>4, <3>5
  <2> QED
    BY <2>2, <2>6 DEF LockHonest
<1>10. row' = row /\ Ttl' = Ttl /\ Expiry' = Expiry /\ SentKey' = SentKey
  BY SameContent
<1> HIDE DEF Built
<1> QED
  BY <1>1, <1>4, <1>5, <1>6, <1>8, <1>9, <1>10 DEF RequestOK
\* Steps that send nothing.
LEMMA ContentKept ==
    ASSUME ContentInv, UNCHANGED <<call, row, entered, sent>>,
           pc' = "build" => Ttl \in Nat, pc' \in {"call", "flight"} => RequestOK', ReadOK'
    PROVE  ContentInv'
<1>1. Ttl' = Ttl /\ \A s : SentOK(s)' <=> SentOK(s)
  BY SameContent
<1>2. \A i \in 1..Len(sent') : SentOK(sent[i])'
  BY <1>1 DEF ContentInv
<1> QED
  BY <1>1, <1>2 DEF ContentInv

\* An answer is read whole, and what is no answer has no size.
LEMMA ReadKept ==
    ASSUME ReadOK, UNCHANGED call,
           \/ value' = value
           \/ value'.kind # "ok"
           \/ value'.size = None
           \/ value'.kind = value.kind /\ value'.size = value.size
    PROVE  ReadOK'
  BY DEF ReadOK

\* The request as it is, or what is left of it for a continuation, is sent.
LEMMA SentIsRequested ==
    ASSUME DeadlineInv, RequestOK, pc = "call", NEW s,
           s.rpc = IF Continues THEN row.rest ELSE row.rpc,
           s.ttl = IF Continues THEN None ELSE request.ttl,
           s.values = request.values, s.lock = request.lock, s.wall = request.wall,
           s.key = request.key
    PROVE  SentOK(s)
<1>1. /\ row.ttl \in {"none", "lock", "relative", "always", "value", "values", "request", "both"}
      /\ row.call = "create" => row.ttl \in {"request", "both"} /\ row.rest # row.rpc
  BY RowFacts DEF DeadlineInv, Control
<1>2. Expiry # None
  <2>1. entered.wall \in Int /\ Ttl \in Nat
    BY ScopedDeadline DEF DeadlineInv, Control, Begun, RequestOK
  <2> QED
    BY <2>1, MarkerAssumption DEF Expiry
<1>3. s.lock # None => LockHonest(s)
  BY DEF RequestOK, LockHonest
<1>4. ASSUME row.ttl \notin {"none", "lock", "relative"}, Ttl > 0, s.ttl = None, s.values = None
      PROVE  row.ttl = "request" /\ s.rpc # row.rpc
  <2>1. row.ttl \notin {"value", "values", "both"}
    BY <1>2, <1>4 DEF RequestOK
  <2>2. row.ttl \in {"always", "request"}
    BY <1>1, <1>4, <2>1
  <2>3. Continues
    BY <1>2, <1>4, <2>2 DEF RequestOK
  <2> QED
    BY <1>1, <2>2, <2>3 DEF Continues
<1>5. /\ s.key = SentKey
      /\ row.ttl # "relative" /\ s.ttl # None => s.ttl = Expiry
      /\ s.values # None => s.values = Expiry
  BY DEF RequestOK
<1> QED
  BY <1>3, <1>4, <1>5 DEF SentOK

\* An RPC begins.
LEMMA ContentSend ==
    ASSUME DeadlineInv, ContentInv, Send
    PROVE  ContentInv'
<1>1. pc = "call" /\ UNCHANGED <<call, row, entered, request>> /\ RequestOK
  BY DEF Send, scope, ContentInv
<1>2. CASE Expired(ctx.deadline)
  <2>1. pc' = "raise" /\ value' = AfterProgress("deadline") /\ UNCHANGED sent
    BY <1>2 DEF Send, Raises
  <2>2. value'.size = None
    BY <2>1, ErrorKinds
  <2>3. ReadOK'
    BY <1>1, <2>2, ReadKept DEF ContentInv
  <2> QED
    BY <1>1, <2>1, <2>3, ContentKept
<1>3. CASE ~Expired(ctx.deadline)
  <2>1. PICK s : /\ s.rpc = IF Continues THEN row.rest ELSE row.rpc
                 /\ s.ttl = IF Continues THEN None ELSE request.ttl
                 /\ s.values = request.values /\ s.lock = request.lock /\ s.wall = request.wall
                 /\ s.key = request.key
                 /\ sent' = Append(sent, s) /\ pc' = "flight" /\ value' = value
    BY <1>3 DEF Send
  <2>2. SentOK(s)
    BY <1>1, <2>1, SentIsRequested
  <2>3. PICK S : sent \in Seq(S)
    BY DEF DeadlineInv, Shape, IsSeq
  <2>4. \A i \in 1..Len(sent') : sent'[i] = s \/ (i \in 1..Len(sent) /\ sent'[i] = sent[i])
    <3>1. sent \in Seq(S \cup {s})
      BY <2>3
    <3> QED
      BY <2>1, <3>1
  <2>5. \A i \in 1..Len(sent') : SentOK(sent'[i])
    BY <2>2, <2>4 DEF ContentInv
  <2>6. /\ RequestOK' <=> RequestOK
        /\ Ttl' = Ttl /\ Expiry' = Expiry /\ SentKey' = SentKey
    BY <1>1, SameContent
  <2>7. \A i \in 1..Len(sent') : SentOK(sent[i])'
    BY <1>1, <2>5, <2>6 DEF SentOK, LockHonest
  <2>8. ReadOK'
    BY <1>1, <2>1, ReadKept DEF ContentInv
  <2> QED
    BY <1>1, <2>1, <2>6, <2>7, <2>8 DEF ContentInv
<1> QED
  BY <1>2, <1>3

\* The other steps of a method.
LEMMA ContentBody ==
    ASSUME DeadlineInv, ContentInv,
           \/ \E kind \in {"cancelled", "value_error"} : Refuse(kind)
           \/ \E found \in BOOLEAN : Ready(found)
           \/ NotReady \/ Build \/ RpcExpires
           \/ \E kind \in {"unavailable", "precondition", "other"} : RpcFails(kind)
           \/ UnaryReply \/ ChunkReply \/ Batch \/ StreamEnds \/ TaskCancelled
    PROVE  ContentInv'
<1>1. UNCHANGED <<now, skew, call, row, entered, sent>>
  BY DEF Refuse, Ready, NotReady, Build, RpcExpires, RpcFails, UnaryReply, ChunkReply, Batch,
     StreamEnds, TaskCancelled, Failed, clocks, scope, body
<1>2. ASSUME NEW outcome, Raises(outcome), outcome.size = None PROVE ContentInv'
  BY <1>1, <1>2, ReadKept, ContentKept DEF Raises, ContentInv
<1>3. ASSUME NEW result, Returns(result, None) PROVE ContentInv'
  <2>1. pc' = "return" /\ value'.size = None
    BY <1>3 DEF Returns, Outcome
  <2> QED
    BY <1>1, <2>1, ReadKept, ContentKept DEF ContentInv
<1>4. ASSUME UNCHANGED value, pc' \notin {"build", "call", "flight"} PROVE ContentInv'
  BY <1>1, <1>4, ReadKept, ContentKept DEF ContentInv
<1>5. ASSUME UNCHANGED <<value, request>>, pc = "flight", pc' \in {"call", "flight"}
      PROVE  ContentInv'
  <2>1. RequestOK'
    BY <1>1, <1>5, SameContent DEF ContentInv
  <2> QED
    BY <1>1, <1>5, <2>1, ReadKept, ContentKept DEF ContentInv
<1>6. ASSUME NEW kind \in {"cancelled", "value_error"}, Refuse(kind) PROVE ContentInv'
  BY <1>2, <1>6, ErrorKinds DEF Refuse
<1>7. ASSUME NEW found \in BOOLEAN, Ready(found) PROVE ContentInv'
  BY <1>2, <1>4, <1>7, ErrorKinds DEF Ready, ToNode
<1>8. CASE NotReady \/ TaskCancelled
  BY <1>2, <1>8, ErrorKinds DEF NotReady, TaskCancelled
<1>9. CASE Build
  <2>1. CASE ~BadLock /\ request' = Built /\ pc' = "call" /\ UNCHANGED value
    <3>1. pc = "build" /\ UNCHANGED clocks
      BY <1>9 DEF Build
    <3>2. RequestOK'
      BY <1>1, <2>1, <3>1, BuiltOK
    <3> QED
      BY <1>1, <2>1, <3>2, ReadKept, ContentKept DEF ContentInv
  <2>2. CASE \E kind : Raises(Error(kind))
    BY <1>2, <2>2, ErrorKinds
  <2> QED
    BY <1>9, <2>1, <2>2 DEF Build
<1>10. ASSUME NEW kind, Failed(kind) PROVE ContentInv'
  BY <1>2, <1>10, ErrorKinds DEF Failed
<1>11. CASE RpcExpires \/ \E kind \in {"unavailable", "precondition", "other"} : RpcFails(kind)
  BY <1>10, <1>11 DEF RpcExpires, RpcFails
<1>12. CASE UnaryReply
  <2>1. CASE \E kind : Raises(Error(kind))
    BY <1>2, <2>1, ErrorKinds
  <2>2. CASE Returns(None, None)
    BY <1>3, <2>2
  <2>3. CASE Returns(None, 0) /\ call.answer.message = None
    <3>1. pc' = "return" /\ ReadOK'
      BY <1>1, <2>3 DEF Returns, ReadOK
    <3> QED
      BY <1>1, <3>1, ContentKept
  <2>4. CASE /\ Returns(None, Decoded(call.answer.message)) /\ call.answer.message # None
             /\ Decoded(call.answer.message) # None
    <3>1. call \in Calls
      BY <1>12 DEF UnaryReply, InFlight, DeadlineInv, Control
    <3>2. MessageType(call.answer.message)
      BY <2>4, <3>1, CallsAssumption DEF CallType
    <3>3. pc' = "return" /\ value'.size = Decoded(call.answer.message)
      BY <2>4 DEF Returns, Outcome
    <3>4. ReadOK'
      BY <1>1, <2>4, <3>2, <3>3, DecodedIsWhole DEF ReadOK
    <3> QED
      BY <1>1, <3>3, <3>4, ContentKept
  <2> QED
    BY <1>12, <2>1, <2>2, <2>3, <2>4 DEF UnaryReply
<1>13. CASE ChunkReply
  <2>1. pc = "flight" /\ UNCHANGED request
    BY <1>13 DEF ChunkReply, InFlight
  <2> QED
    BY <1>3, <1>5, <1>13, <2>1 DEF ChunkReply
<1>14. CASE Batch
  <2>1. pc = "flight" /\ UNCHANGED request
    BY <1>14 DEF Batch, InFlight
  <2>2. CASE \E kind : Raises(AfterProgress(kind))
    BY <1>2, <2>2, ErrorKinds
  <2>3. CASE UNCHANGED <<pc, value>>
    BY <1>5, <2>1, <2>3
  <2> QED
    BY <1>14, <2>2, <2>3 DEF Batch
<1>15. CASE StreamEnds
  BY <1>3, <1>15 DEF StreamEnds
<1> QED
  BY <1>6, <1>7, <1>8, <1>9, <1>11, <1>12, <1>13, <1>14, <1>15

\* Every step keeps the invariant.
LEMMA ContentStep ==
    ASSUME DeadlineInv, ContentInv, [Next]_vars
    PROVE  ContentInv'
<1>1. CASE Leave
  <2>1. UNCHANGED <<call, row, entered, sent>> /\ pc' \in {"return", "raise", "done"}
    BY <1>1 DEF Leave, body
  <2>2. value' = value \/ \E method : value' = Accepted(method, value)
    BY <1>1 DEF Leave
  <2>3. IsOutcome(value)
    BY DEF DeadlineInv, Shape
  <2>4. ReadOK'
    BY <2>1, <2>2, <2>3, AcceptedKinds, ReadKept DEF ContentInv
  <2> QED
    BY <2>1, <2>4, ContentKept
<1>2. CASE Retry
  <2>1. UNCHANGED <<call, row, entered, sent>> /\ pc' = "enter" /\ value'.kind = "pending"
    BY <1>2 DEF Retry, ToNode, Pending, Outcome
  <2> QED
    BY <2>1, ReadKept, ContentKept DEF ContentInv
<1>3. CASE Tick \/ UNCHANGED vars
  <2>1. UNCHANGED <<call, row, entered, sent, request, pc, value>>
    BY <1>3 DEF Tick, vars, program, scope, body
  <2>2. RequestOK' <=> RequestOK
    BY <2>1, SameContent
  <2> QED
    BY <2>1, <2>2, ReadKept, ContentKept DEF ContentInv
<1>4. CASE Enter
  <2>1. /\ pc = "enter" /\ UNCHANGED <<call, row, sent>>
        /\ frames # <<>> => entered' = entered
        /\ call \in Calls /\ (frames = <<>> => sent = <<>>)
    BY <1>4 DEF Enter, DeadlineInv, Control
  <2>2. pc' \in {"raise", "wait", "enter", "build"} /\ (pc' = "build" => Ttl # Invalid)
    BY <1>4 DEF Enter, Raises
  <2>3. pc' = "build" => Ttl \in Nat
    BY <2>1, <2>2, TtlType
  <2>4. ReadOK'
    <3>1. value' = value \/ \E kind : value' = Error(kind)
      BY <1>4 DEF Enter, Raises
    <3> QED
      BY <2>1, <3>1, ErrorKinds, ReadKept DEF ContentInv
  <2>5. CASE frames # <<>>
    BY <2>1, <2>2, <2>3, <2>4, <2>5, ContentKept
  <2>6. CASE frames = <<>>
    <3>1. Ttl' = Ttl /\ sent' = <<>>
      BY <2>1, <2>6 DEF Ttl
    <3> QED
      BY <2>2, <2>3, <2>4, <3>1 DEF ContentInv
  <2> QED
    BY <2>5, <2>6
<1>5. CASE Return \/ \E c \in Calls : Invoke(c)
  <2>1. pc' \in {"idle", "enter"} /\ sent' = <<>> /\ value' = Pending
    BY <1>5 DEF Return, Invoke, body, DeadlineInv, Control
  <2>2. value'.kind # "ok"
    BY <2>1 DEF Pending, Outcome
  <2> QED
    BY <2>1, <2>2 DEF ContentInv, ReadOK
<1> QED
  BY <1>1, <1>2, <1>3, <1>4, <1>5, ContentSend, ContentBody DEF Next, ClientStep

\* It holds before the first call.
LEMMA ContentInit == Init => ContentInv
  BY DEF Init, ContentInv, ReadOK, Pending, Outcome

\* The invariant says what ExpiryHonest says of every request.
LEMMA ContentIsExpiry == DeadlineInv /\ ContentInv => ExpiryHonest
<1> SUFFICES ASSUME DeadlineInv, ContentInv, NEW i \in DOMAIN sent
             PROVE  LET due == row.ttl \notin {"none", "lock", "relative"} /\ Ttl > 0
                        s == sent[i]
                    IN /\ row.ttl # "relative" /\ s.ttl # None => s.ttl = Expiry
                       /\ s.values # None => s.values = Expiry
                       /\ due /\ s.ttl = None /\ s.values = None =>
                             row.ttl = "request" /\ s.rpc # row.rpc
                       /\ s.lock # None =>
                             s.lock * Second \in
                                 (s.wall + call.lock - Second + 1)..(s.wall + call.lock)
  BY DEF ExpiryHonest
<1>1. PICK S : sent \in Seq(S)
  BY DEF DeadlineInv, Shape, IsSeq
<1>2. SentOK(sent[i])
  BY <1>1 DEF ContentInv
<1> QED
  BY <1>2 DEF SentOK, LockHonest

\* The invariant says what RoundTrip says of the call under way.
LEMMA ContentIsRoundTrip == DeadlineInv /\ ContentInv => RoundTrip
<1> SUFFICES ASSUME DeadlineInv, ContentInv, call # None PROVE RoundTrip
  BY DEF RoundTrip
<1>1. call \in Calls
  BY DEF DeadlineInv, Control
<1>2. CallType(call)
  BY <1>1, CallsAssumption
<1>3. ASSUME call.answer.written # None, call.answer.written <= MaxDecoded
      PROVE  Decoded(call.answer.message) = call.answer.written
  <2>1. call.answer.written \in Nat /\ StoredBy(call.answer)
    BY <1>2, <1>3 DEF CallType
  <2>2. PICK t \in 0..(call.answer.written + 1) :
            call.answer.message
                = Encoded(call.answer.written, call.answer.message.bytes, t)
    BY <2>1 DEF StoredBy
  <2>3. t \in Nat
    BY <2>1
  <2>4. Decoded(Encoded(call.answer.written, call.answer.message.bytes, t))
            = call.answer.written
    BY <1>3, <2>1, <2>3, DecodeEncoded
  <2> QED
    BY <2>2, <2>4
<1>4. ASSUME NEW i \in DOMAIN sent, call.key.raw <= MaxDecoded
      PROVE  Decoded(sent[i].key) = call.key.raw
  <2>1. PICK S : sent \in Seq(S)
    BY DEF DeadlineInv, Shape, IsSeq
  <2>2. sent[i].key = SentKey
    BY <2>1 DEF ContentInv, SentOK
  <2>3. call.key.raw \in Nat
    BY <1>2 DEF CallType
  <2> QED
    BY <1>4, <2>2, <2>3, DecodeEncoded, SettingsAssumption DEF SentKey
<1> QED
  BY <1>3, <1>4 DEF RoundTrip, ContentInv, ReadOK

\* Every TTL of a call names the same moment, whatever the wall clock does between its
\* chunks and attempts; no request that should carry one is without; and a lock is
\* never longer than what was asked for.
THEOREM ExpiryIsHonest == Spec => []ExpiryHonest
<1> QED
  BY DeadlineInit, DeadlineStep, ContentInit, ContentStep, ContentIsExpiry, PTL DEF Spec

\* For every payload size, threshold and limit: what one client has stored another
\* reads with its length, and a key that was sent can be named in an error.
THEOREM PayloadsRoundTrip == Spec => []RoundTrip
<1> QED
  BY DeadlineInit, DeadlineStep, ContentInit, ContentStep, ContentIsRoundTrip, PTL DEF Spec

-----------------------------------------------------------------------------
(* The invariant: streams.                                                 *)

RowOf(op) == Rows(call.client)[op]

\* What may be entered from the first n scopes: what the caller or the facade called,
\* or what the method of the innermost one wraps.
Enters(n, op) ==
    /\ op \in DOMAIN Rows(call.client)
    /\ IF n = 0 \/ frames[n].who = "facade" THEN op = call.op
       ELSE RowOf(frames[n].op).call = "wraps" /\ RowOf(frames[n].op).op = op

Nesting ==
    /\ \A i \in 1..Len(frames) :
          \/ i = 1 /\ frames[i].who = "facade"
          \/ frames[i].who = "node" /\ Enters(i - 1, frames[i].op)
    /\ pc = "enter" => \/ target.who = "facade" /\ frames = <<>>
                       \/ target.who = "node" /\ Enters(Len(frames), target.op)
    /\ pc = "wait" => Len(frames) = 1 /\ frames[1].who = "facade"
    /\ pc \in {"build", "call", "flight"} => Top.who = "node" /\ RowOf(Top.op).call # "wraps"

\* What the batches before the p-th add up to: the first one decides how the items are
\* kept.
Filled == Before(2) > 0
KeptAs == IF ~IsMap(call.container) THEN "element" ELSE IF Filled THEN "pair" ELSE "key"
Gotten(p) == [shape |-> IF IsMap(call.container) /\ Filled THEN "dict" ELSE "list",
              items |-> Items(0, Before(p), KeptAs)]

Taken ==
    /\ pc = "idle" => part = 1 /\ got = Nothing
    /\ pc # "idle" /\ row.call = "stream" =>
          /\ part \in 1..(Len(call.batches) + 1)
          /\ got = IF part = 1 THEN Nothing ELSE Gotten(part)

\* What get_container returns, what a typed method makes of it, and what a method returns.
Raw == IF call.batches = <<>> THEN [shape |-> "list", items |-> <<>>]
       ELSE Gotten(Len(call.batches) + 1)

Checked(method, result) ==
    IF Raw.items = <<>> THEN result = [Raw EXCEPT !.shape = method.shape]
    ELSE result = Raw /\ Raw.shape = method.shape /\ OfClass(Raw.items, method.class)

Yields(op, result) ==
    IF RowOf(op).call = "wraps" /\ RowOf(op).shape # "any" THEN Checked(RowOf(op), result)
    ELSE result = Raw

Told ==
    pc # "idle" /\ row.call = "stream" =>
        /\ value.kind = "ok" =>
              Yields(IF frames # <<>> /\ Top.who = "node" THEN Top.op ELSE call.op, value.result)
        /\ value.kind = "partial" =>
              /\ value.chunks \in 1..Len(call.batches)
              /\ value.items = Before(value.chunks + 1)
              /\ value.result = Gotten(value.chunks + 1)

StreamInv == Nesting /\ Taken /\ Told

\* A call cuts its stream at rising positions.
LEMMA StreamTypes ==
    ASSUME call \in Calls
    PROVE  /\ call.client \in {"sync", "async"} /\ call.op \in DOMAIN Rows(call.client)
           /\ call.container \in Containers
           /\ Len(call.batches) \in Nat
           /\ call.batches = <<>> <=> Len(call.batches) = 0
           /\ \A i \in 1..(Len(call.batches) + 1) : Before(i) \in Nat
           /\ \A i \in 1..Len(call.batches) : Before(i) <= Before(i + 1)
<1> DEFINE B == [upto : Nat, paired : BOOLEAN]
<1>1. CallType(call)
  BY CallsAssumption
<1>2. call.batches \in Seq(B)
  BY <1>1 DEF CallType
<1>3. Len(call.batches) \in Nat /\ (call.batches = <<>> <=> Len(call.batches) = 0)
  BY <1>2, EmptySeq, LenProperties
<1>4. ASSUME NEW i \in 1..Len(call.batches) PROVE call.batches[i].upto \in Nat
  <2>1. call.batches[i] \in B
    BY <1>2, <1>4, ElementOfSeq
  <2> QED
    BY <2>1
<1>5. ASSUME NEW i \in 1..(Len(call.batches) + 1) PROVE Before(i) \in Nat
  <2>1. i = 1 \/ i - 1 \in 1..Len(call.batches)
    BY <1>3
  <2> QED
    BY <1>4, <2>1 DEF Before
<1>6. ASSUME NEW i \in 1..Len(call.batches) PROVE Before(i) <= Before(i + 1)
  <2>1. Before(i + 1) = call.batches[i].upto /\ Before(i + 1) \in Nat
    <3>1. i + 1 # 1 /\ (i + 1) - 1 = i /\ i + 1 \in 1..(Len(call.batches) + 1)
      BY <1>3
    <3> QED
      BY <1>5, <3>1 DEF Before
  <2>2. CASE i = 1
    BY <2>1, <2>2 DEF Before
  <2>3. CASE i # 1
    <3>1. i \in 2..Len(call.batches)
      BY <1>3, <2>3
    <3>2. call.batches[i - 1].upto <= call.batches[i].upto
      BY <1>1, <3>1 DEF CallType
    <3> QED
      BY <2>1, <2>3, <3>2 DEF Before
  <2> QED
    BY <2>2, <2>3
<1> QED
  BY <1>1, <1>3, <1>5, <1>6 DEF CallType

\* The rows a nested method can have.
LEMMA WrapperFacts ==
    ASSUME call \in Calls, NEW op \in DOMAIN Rows(call.client), RowOf(op).call = "wraps"
    PROVE  /\ RowOf(op).op \in DOMAIN Rows(call.client)
           /\ RowOf(RowOf(op).op).call = "wraps" =>
                 RowOf(op).shape = "any" /\ RowOf(RowOf(op).op).shape = "any"
<1>1. call.client \in {"sync", "async"}
  BY StreamTypes
<1> QED
  BY <1>1, CatalogueAssumption DEF RowOf

\* The methods that check are the typed streams, and they check what they are for.
LEMMA TypedStreams ==
    ASSUME call \in Calls
    PROVE  /\ call.op \in DOMAIN Promised <=>
                 RowOf(call.op).call = "wraps" /\ RowOf(call.op).shape # "any"
           /\ call.op \in DOMAIN Promised =>
                 /\ RowOf(call.op).shape = ShapeOf(Promised[call.op])
                 /\ RowOf(call.op).class = ClassOf(Promised[call.op])
<1>1. call.client \in {"sync", "async"} /\ call.op \in DOMAIN Rows(call.client)
  BY StreamTypes
<1> QED
  BY <1>1, CatalogueAssumption DEF RowOf

\* What a list of items is made of.
LEMMA ItemsAre ==
    ASSUME NEW a \in Nat, NEW b \in Nat, a <= b, NEW as
    PROVE  /\ Items(a, b, as)
                  \in Seq([item : Nat, as : {as}, class : {ClassOf(call.container)}])
           /\ Len(Items(a, b, as)) = b - a
           /\ \A j \in 1..(b - a) :
                 Items(a, b, as)[j] = [item |-> a + j, as |-> as, class |-> ClassOf(call.container)]
<1> DEFINE S == [item : Nat, as : {as}, class : {ClassOf(call.container)}]
           n == b - a
<1>1. n \in Nat
  OBVIOUS
<1>2. \A j \in 1..n : a + j \in Nat
  OBVIOUS
<1>3. Items(a, b, as) = [j \in 1..n |-> [item |-> a + j, as |-> as, class |-> ClassOf(call.container)]]
  BY DEF Items
<1> HIDE DEF n
<1>4. Items(a, b, as) \in [1..n -> S]
  BY <1>2, <1>3
<1>5. Items(a, b, as) \in Seq(S)
  BY <1>1, <1>4, SeqDef
<1>6. Len(Items(a, b, as)) = n
  <2>1. DOMAIN Items(a, b, as) = 1..n
    BY <1>4
  <2> QED
    BY <1>1, <1>5, <2>1, LenProperties
<1> QED
  BY <1>3, <1>5, <1>6 DEF n

\* The items of two adjacent batches are those of one.
LEMMA JoinedItems ==
    ASSUME NEW b \in Nat, NEW c \in Nat, b <= c, NEW as
    PROVE  Items(0, b, as) \o Items(b, c, as) = Items(0, c, as)
<1> DEFINE S == [item : Nat, as : {as}, class : {ClassOf(call.container)}]
           E(j) == [item |-> j, as |-> as, class |-> ClassOf(call.container)]
           s == Items(0, b, as)
           t == Items(b, c, as)
           u == Items(0, c, as)
<1>1. /\ s \in Seq(S) /\ Len(s) = b /\ t \in Seq(S) /\ Len(t) = c - b
      /\ u \in Seq(S) /\ Len(u) = c
  <2>1. b - 0 = b /\ c - 0 = c /\ 0 <= b /\ 0 <= c
    OBVIOUS
  <2> QED
    BY <2>1, ItemsAre
<1>2. /\ \A j \in 1..b : s[j] = E(j)
      /\ \A j \in 1..c : u[j] = E(j)
      /\ \A j \in 1..(c - b) : t[j] = E(b + j)
  <2>0. b - 0 = b /\ c - 0 = c /\ 0 <= b /\ 0 <= c
    OBVIOUS
  <2>1. \A j \in 1..b : s[j] = E(0 + j)
    <3>1. \A j \in 1..(b - 0) : s[j] = E(0 + j)
      BY <2>0, ItemsAre
    <3> QED
      BY <2>0, <3>1
  <2>2. \A j \in 1..c : u[j] = E(0 + j)
    <3>1. \A j \in 1..(c - 0) : u[j] = E(0 + j)
      BY <2>0, ItemsAre
    <3> QED
      BY <2>0, <3>1
  <2>3. \A j \in 1..(c - b) : t[j] = E(b + j)
    BY ItemsAre
  <2>4. \A j \in Nat : 0 + j = j
    OBVIOUS
  <2>5. \A j \in 1..b : j \in Nat
    OBVIOUS
  <2>6. \A j \in 1..c : j \in Nat
    OBVIOUS
  <2> HIDE DEF s, t, u
  <2> QED
    BY <2>1, <2>2, <2>3, <2>4, <2>5, <2>6
<1> HIDE DEF S, E, s, t, u
<1>3. /\ s \o t \in Seq(S) /\ Len(s \o t) = c
      /\ \A i \in 1..c : (s \o t)[i] = IF i <= b THEN s[i] ELSE t[i - b]
  <2>1. Len(s) + Len(t) = c
    BY <1>1
  <2> QED
    BY <1>1, <2>1, ConcatProperties
<1>4. ASSUME NEW i \in 1..c PROVE (s \o t)[i] = u[i]
  <2>1. CASE i <= b
    <3>1. i \in 1..b
      BY <2>1
    <3>2. (s \o t)[i] = s[i]
      BY <1>3, <2>1
    <3> QED
      BY <1>2, <3>1, <3>2
  <2>2. CASE ~(i <= b)
    <3>1. i - b \in 1..(c - b) /\ b + (i - b) = i
      BY <2>2
    <3>2. (s \o t)[i] = t[i - b]
      BY <1>3, <2>2
    <3>3. t[i - b] = E(b + (i - b))
      BY <1>2, <3>1
    <3>4. u[i] = E(i)
      BY <1>2
    <3> QED
      BY <3>1, <3>2, <3>3, <3>4
  <2> QED
    BY <2>1, <2>2
<1>5. s \o t = u
  BY <1>1, <1>3, <1>4, SeqEqual
<1> QED
  BY <1>5 DEF s, t, u

\* An empty batch has no items.
LEMMA NoItems ==
    ASSUME NEW b \in Nat, NEW as
    PROVE  Items(b, b, as) = <<>>
<1>0. b <= b /\ b - b = 0
  OBVIOUS
<1>1. Items(b, b, as) \in Seq([item : Nat, as : {as}, class : {ClassOf(call.container)}])
  BY <1>0, ItemsAre
<1>2. Len(Items(b, b, as)) = 0
  BY <1>0, ItemsAre
<1> QED
  BY <1>1, <1>2, EmptySeq

\* Pairs of a later batch that extend a list are kept as keys.
LEMMA KeysOfPairs ==
    ASSUME NEW a \in Nat, NEW b \in Nat, a <= b
    PROVE  [j \in DOMAIN Items(a, b, "pair") |-> [Items(a, b, "pair")[j] EXCEPT !.as = "key"]]
               = Items(a, b, "key")
  BY DEF Items

\* A batch adds its items to what came before.
LEMMA BatchAdds ==
    ASSUME call \in Calls, part \in 1..Len(call.batches),
           got = IF part = 1 THEN Nothing ELSE Gotten(part)
    PROVE  Collected(DecodeBatch(part)) = Gotten(part + 1)
<1> DEFINE a == Before(part)
           b == Before(part + 1)
           map == IsMap(call.container)
           d == DecodeBatch(part)
<1>1. a \in Nat /\ b \in Nat /\ a <= b /\ 0 <= a /\ 0 \in Nat /\ Before(1) = 0
  <2>1. part \in 1..(Len(call.batches) + 1) /\ part + 1 \in 1..(Len(call.batches) + 1)
    BY StreamTypes
  <2> QED
    BY <2>1, StreamTypes DEF Before
<1>2. /\ d.shape = IF map /\ a < b THEN "dict" ELSE "list"
      /\ d.items = Items(a, b, IF map /\ a < b THEN "pair" ELSE "element")
      /\ d = [shape |-> d.shape, items |-> d.items]
  BY DEF DecodeBatch
<1>3. ASSUME a = b, NEW p, NEW q PROVE Items(a, b, p) = Items(a, b, q)
  BY <1>1, <1>3, NoItems
<1>4. CASE part = 1
  <2>1. Collected(d) = d /\ a = 0 /\ b = Before(2)
    BY <1>1, <1>4 DEF Collected
  <2>2. CASE map /\ ~(a < b)
    <3>1. ~Filled /\ KeptAs = "key" /\ a = b
      BY <1>1, <2>1, <2>2 DEF Filled, KeptAs
    <3>2. Items(a, b, "element") = Items(a, b, "key")
      BY <1>3, <3>1
    <3>3. d = [shape |-> "list", items |-> Items(0, b, "key")]
      BY <1>2, <2>1, <2>2, <3>2
    <3> QED
      BY <1>4, <2>1, <3>1, <3>3 DEF Gotten
  <2>3. CASE map /\ a < b
    <3>1. Filled /\ KeptAs = "pair"
      BY <2>1, <2>3 DEF Filled, KeptAs
    <3>2. d = [shape |-> "dict", items |-> Items(0, b, "pair")]
      BY <1>2, <2>1, <2>3
    <3> QED
      BY <1>4, <2>1, <2>3, <3>1, <3>2 DEF Gotten
  <2>4. CASE ~map
    <3>1. KeptAs = "element"
      BY <2>4 DEF KeptAs
    <3>2. d = [shape |-> "list", items |-> Items(0, b, "element")]
      BY <1>2, <2>1, <2>4
    <3> QED
      BY <1>4, <2>1, <2>4, <3>1, <3>2 DEF Gotten
  <2> QED
    BY <2>2, <2>3, <2>4
<1>5. CASE part # 1
  <2> DEFINE shape == IF map /\ Filled THEN "dict" ELSE "list"
  <2>1. /\ got = [shape |-> shape, items |-> Items(0, a, KeptAs)]
        /\ got # Nothing
    BY <1>5 DEF Gotten, Nothing
  <2>2. Items(0, a, KeptAs) \o Items(a, b, KeptAs) = Items(0, b, KeptAs)
    BY <1>1, JoinedItems
  <2>3. Gotten(part + 1) = [got EXCEPT !.items = @ \o Items(a, b, KeptAs)]
    <3>1. got.items = Items(0, a, KeptAs) /\ part + 1 \in Nat
      BY <2>1
    <3>2. \A x : [got EXCEPT !.items = x] = [shape |-> shape, items |-> x]
      BY <2>1
    <3>3. Gotten(part + 1) = [shape |-> shape, items |-> Items(0, b, KeptAs)]
      BY DEF Gotten
    <3> QED
      BY <2>2, <3>1, <3>2, <3>3
  <2>4. Collected(d) = [got EXCEPT !.items = @ \o Items(a, b, KeptAs)]
    <3>1. CASE ~map
      <4>1. d.shape = "list" /\ d.items = Items(a, b, KeptAs)
        BY <1>2, <3>1 DEF KeptAs
      <4> QED
        BY <2>1, <4>1 DEF Collected
    <3>2. CASE map /\ Filled
      <4>1. KeptAs = "pair" /\ got.shape = "dict"
        BY <2>1, <3>2 DEF KeptAs
      <4>2. d.items = Items(a, b, "pair")
        BY <1>1, <1>2, <1>3, <3>2
      <4> QED
        BY <2>1, <4>1, <4>2 DEF Collected
    <3>3. CASE map /\ ~Filled /\ ~(a < b)
      <4>1. KeptAs = "key" /\ a = b
        BY <1>1, <3>3 DEF KeptAs
      <4>2. d.shape = "list" /\ d.items = Items(a, b, "key")
        BY <1>2, <1>3, <3>3, <4>1
      <4> QED
        BY <2>1, <4>1, <4>2 DEF Collected
    <3>4. CASE map /\ ~Filled /\ a < b
      <4>1. KeptAs = "key" /\ got.shape = "list"
        BY <2>1, <3>4 DEF KeptAs
      <4>2. d.shape = "dict" /\ d.items = Items(a, b, "pair")
        BY <1>2, <3>4
      <4>3. [j \in DOMAIN d.items |-> [d.items[j] EXCEPT !.as = "key"]] = Items(a, b, "key")
        BY <1>1, <4>2, KeysOfPairs
      <4>4. Collected(d) = [got EXCEPT !.items =
                               @ \o [j \in DOMAIN d.items |-> [d.items[j] EXCEPT !.as = "key"]]]
        BY <2>1, <4>1, <4>2 DEF Collected
      <4> QED
        BY <4>1, <4>3, <4>4
    <3> QED
      BY <3>1, <3>2, <3>3, <3>4
  <2> QED
    BY <2>3, <2>4
<1> QED
  BY <1>4, <1>5

\* What a call asks for does not change while it lasts.
LEMMA SameStream ==
    ASSUME UNCHANGED call
    PROVE  /\ \A p : Before(p)' = Before(p) /\ Gotten(p)' = Gotten(p)
           /\ Raw' = Raw
           /\ \A op : RowOf(op)' = RowOf(op)
           /\ \A op, result : Yields(op, result)' <=> Yields(op, result)
<1>1. /\ \A p : Before(p)' = Before(p)
      /\ \A op : RowOf(op)' = RowOf(op)
      /\ \A a, b, as : Items(a, b, as)' = Items(a, b, as)
  BY DEF Before, RowOf, Items
<1>2. KeptAs' = KeptAs /\ Filled' = Filled
  BY <1>1 DEF KeptAs, Filled
<1>3. \A p : Gotten(p)' = Gotten(p)
  BY <1>1, <1>2 DEF Gotten
<1>4. Raw' = Raw
  BY <1>3 DEF Raw
<1>5. \A method, result : Checked(method, result)' <=> Checked(method, result)
  BY <1>4 DEF Checked
<1>6. \A op, result : Yields(op, result)' <=> Yields(op, result)
  BY <1>1, <1>4, <1>5 DEF Yields
<1> QED
  BY <1>1, <1>3, <1>4, <1>6

\* Whether a scope may be entered from others depends on the innermost of them.
LEMMA SameEntry ==
    ASSUME UNCHANGED call, NEW n, n = 0 \/ frames'[n] = frames[n], NEW op
    PROVE  Enters(n, op)' <=> Enters(n, op)
  BY DEF Enters, RowOf

\* Steps that neither open nor close a scope.
LEMMA NestingKept ==
    ASSUME Nesting, UNCHANGED <<frames, call>>,
           pc' = "enter" => pc = "enter" /\ UNCHANGED target,
           pc' = "wait" => pc = "wait",
           pc' \in {"build", "call", "flight"} => pc \in {"build", "call", "flight"}
    PROVE  Nesting'
<1>1. \A n, op : Enters(n, op)' <=> Enters(n, op)
  BY SameEntry
<1>2. Top' = Top /\ \A op : RowOf(op)' = RowOf(op)
  BY DEF Top, RowOf
<1> QED
  BY <1>1, <1>2 DEF Nesting

\* Steps of a call that leave its stream alone.
LEMMA TakenKept ==
    ASSUME Taken, UNCHANGED <<call, row, part, got>>, pc # "idle", pc' # "idle"
    PROVE  Taken'
<1>1. \A p : Gotten(p)' = Gotten(p)
  BY SameStream
<1> QED
  BY <1>1 DEF Taken

\* An exception leaves the body of a method, and says how far a stream has come.
LEMMA RaiseTells ==
    ASSUME DeadlineInv, StreamInv, pc # "idle", pc' = "raise",
           UNCHANGED <<call, row, frames, part, got>>,
           NEW kind, kind \notin {"ok", "partial"}, value' \in {Error(kind), AfterProgress(kind)}
    PROVE  StreamInv'
<1>1. Nesting' /\ Taken'
  BY NestingKept, TakenKept DEF StreamInv
<1>2. ASSUME row.call = "stream"
      PROVE  /\ value'.kind # "ok"
             /\ value'.kind = "partial" =>
                   /\ value'.chunks \in 1..Len(call.batches)
                   /\ value'.items = Before(value'.chunks + 1)
                   /\ value'.result = Gotten(value'.chunks + 1)
  <2>1. /\ call \in Calls /\ part \in 1..(Len(call.batches) + 1)
        /\ got = IF part = 1 THEN Nothing ELSE Gotten(part)
    BY <1>2 DEF DeadlineInv, Control, StreamInv, Taken
  <2>2. CASE value' = Error(kind) \/ part = 1
    <3>1. value' = Error(kind)
      BY <2>2 DEF AfterProgress
    <3> QED
      BY <3>1 DEF Error, Outcome
  <2>3. CASE value' = AfterProgress(kind) /\ part # 1
    <3>1. value' = Outcome("partial", part - 1, Len(got.items), got, None) /\ got = Gotten(part)
      BY <2>1, <2>3 DEF AfterProgress
    <3>2. Before(part) \in Nat /\ Before(part) - 0 = Before(part) /\ 0 <= Before(part)
      BY <2>1, StreamTypes
    <3>3. Len(got.items) = Before(part)
      BY <3>1, <3>2, ItemsAre DEF Gotten
    <3>4. part - 1 \in 1..Len(call.batches) /\ (part - 1) + 1 = part
      BY <2>1, <2>3, StreamTypes
    <3>5. /\ value'.kind = "partial" /\ value'.chunks = part - 1
          /\ value'.items = Len(got.items) /\ value'.result = got
      BY <3>1 DEF Outcome
    <3> QED
      BY <3>1, <3>3, <3>4, <3>5
  <2> QED
    BY <2>2, <2>3
<1>3. Told'
  BY <1>2, SameStream DEF Told
<1> QED
  BY <1>1, <1>3 DEF StreamInv

\* The stream has ended: all batches were taken.
LEMMA StreamEndsWhole ==
    ASSUME DeadlineInv, StreamInv, StreamEnds
    PROVE  StreamInv'
<1>1. /\ pc = "flight" /\ row.call = "stream" /\ part > Len(call.batches)
      /\ UNCHANGED <<call, row, frames, part, got>>
      /\ Returns(IF got = Nothing THEN [got EXCEPT !.shape = "list"] ELSE got, None)
  BY DEF StreamEnds, InFlight, scope, body
<1>2. /\ call \in Calls /\ frames # <<>> /\ Len(call.batches) \in Nat
      /\ call.batches = <<>> <=> Len(call.batches) = 0
  BY <1>1, StreamTypes DEF DeadlineInv, Control
<1>3. part = Len(call.batches) + 1 /\ got = IF part = 1 THEN Nothing ELSE Gotten(part)
  BY <1>1, <1>2 DEF StreamInv, Taken
<1>4. /\ pc' = "return" /\ value'.kind = "ok"
      /\ value'.result = IF got = Nothing THEN [got EXCEPT !.shape = "list"] ELSE got
  BY <1>1 DEF Returns, Outcome
<1>5. value'.result = Raw
  <2>1. CASE part = 1
    BY <1>2, <1>3, <1>4, <2>1 DEF Raw, Nothing
  <2>2. CASE part # 1
    <3>1. got # Nothing /\ call.batches # <<>>
      BY <1>2, <1>3, <2>2 DEF Gotten, Nothing
    <3> QED
      BY <1>3, <1>4, <2>2, <3>1 DEF Raw
  <2> QED
    BY <2>1, <2>2
<1>6. Top.who = "node" /\ RowOf(Top.op).call # "wraps" /\ Top' = Top
  BY <1>1 DEF StreamInv, Nesting, Top
<1>7. Yields(Top.op, value'.result)
  BY <1>5, <1>6 DEF Yields
<1>8. Nesting' /\ Taken'
  BY <1>1, <1>4, NestingKept, TakenKept DEF StreamInv
<1>9. Told'
  BY <1>1, <1>2, <1>4, <1>6, <1>7, SameStream DEF Told
<1> QED
  BY <1>8, <1>9 DEF StreamInv

\* The steps of a method.
LEMMA StreamBody ==
    ASSUME DeadlineInv, StreamInv,
           \/ \E kind \in {"cancelled", "value_error"} : Refuse(kind)
           \/ \E found \in BOOLEAN : Ready(found)
           \/ NotReady \/ Build \/ Send \/ RpcExpires
           \/ \E kind \in {"unavailable", "precondition", "other"} : RpcFails(kind)
           \/ UnaryReply \/ ChunkReply \/ Batch \/ StreamEnds \/ TaskCancelled
    PROVE  StreamInv'
<1>1. UNCHANGED <<call, row, frames>> /\ pc # "idle"
  BY DEF Refuse, Ready, NotReady, Build, Send, RpcExpires, RpcFails, UnaryReply, ChunkReply,
     Batch, StreamEnds, TaskCancelled, InFlight, Failed, scope
<1>2. call \in Calls /\ (pc # "raise" /\ pc # "return" /\ pc # "done" => value = Pending)
  BY <1>1 DEF DeadlineInv, Control
<1>3. ASSUME NEW kind, kind \notin {"ok", "partial"}, NEW outcome \in {Error(kind), AfterProgress(kind)},
             Raises(outcome), UNCHANGED <<part, got>>
      PROVE  StreamInv'
  BY <1>1, <1>3, RaiseTells DEF Raises
<1>4. ASSUME NEW kind \in {"cancelled", "value_error"}, Refuse(kind) PROVE StreamInv'
  BY <1>3, <1>4 DEF Refuse, body
<1>5. ASSUME NEW kind \in {"deadline", "unavailable", "precondition", "other"}, Failed(kind)
      PROVE  StreamInv'
  <2>1. Raises(Mapped(kind)) /\ UNCHANGED <<part, got>>
    BY <1>5 DEF Failed, body
  <2>2. Mapped(kind) \in {AfterProgress("value_error"), AfterProgress(kind), Error("value_error")}
    BY MappedIs
  <2> QED
    BY <1>3, <2>1, <2>2
<1>6. CASE RpcExpires \/ \E kind \in {"unavailable", "precondition", "other"} : RpcFails(kind)
  BY <1>5, <1>6 DEF RpcExpires, RpcFails
<1>7. CASE NotReady \/ TaskCancelled
  <2>1. UNCHANGED <<part, got>> /\ \E kind \in {"timeout", "task_cancelled"} : Raises(Error(kind))
    BY <1>7 DEF NotReady, TaskCancelled, body
  <2> QED
    BY <1>3, <2>1
<1>8. ASSUME pc \in {"build", "call", "flight"}, pc' \in {"call", "flight", "return"},
             UNCHANGED <<part, got, value>>
      PROVE  StreamInv'
  <2>1. Nesting' /\ Taken'
    BY <1>1, <1>8, NestingKept, TakenKept DEF StreamInv
  <2>2. value'.kind = "pending"
    BY <1>2, <1>8 DEF Pending, Outcome
  <2> QED
    BY <2>1, <2>2 DEF StreamInv, Told
<1>9. CASE Build
  <2>1. pc = "build" /\ UNCHANGED <<part, got>>
    BY <1>9 DEF Build
  <2>2. CASE pc' = "call" /\ UNCHANGED value
    BY <1>8, <2>1, <2>2
  <2>3. CASE \E kind \in {"deadline", "value_error"} : Raises(Error(kind))
    BY <1>3, <2>1, <2>3
  <2> QED
    BY <1>9, <2>2, <2>3 DEF Build
<1>10. CASE Send
  <2>1. pc = "call" /\ UNCHANGED <<part, got>>
    BY <1>10 DEF Send
  <2>2. CASE pc' = "flight" /\ UNCHANGED value
    BY <1>8, <2>1, <2>2
  <2>3. CASE Raises(AfterProgress("deadline"))
    BY <1>3, <2>1, <2>3
  <2> QED
    BY <1>10, <2>2, <2>3 DEF Send
<1>11. ASSUME NEW found \in BOOLEAN, Ready(found) PROVE StreamInv'
  <2>1. pc = "wait" /\ UNCHANGED <<part, got>>
    BY <1>11 DEF Ready, body
  <2>2. CASE pc' = "enter" /\ target' = [who |-> "node", op |-> call.op] /\ UNCHANGED value
    <3>1. Len(frames) = 1 /\ frames[1].who = "facade"
      BY <2>1 DEF StreamInv, Nesting
    <3>2. \A n, op : Enters(n, op)' <=> Enters(n, op)
      BY <1>1, SameEntry
    <3>3. Enters(1, call.op)
      BY <1>2, <3>1, StreamTypes DEF Enters
    <3>4. Nesting'
      BY <1>1, <2>2, <3>1, <3>2, <3>3 DEF StreamInv, Nesting
    <3>5. Taken'
      BY <1>1, <2>1, <2>2, TakenKept DEF StreamInv
    <3>6. value'.kind = "pending"
      BY <1>2, <2>1, <2>2 DEF Pending, Outcome
    <3> QED
      BY <3>4, <3>5, <3>6 DEF StreamInv, Told
  <2>3. CASE Raises(Error("unavailable"))
    BY <1>3, <2>1, <2>3
  <2> QED
    BY <1>11, <2>2, <2>3 DEF Ready, ToNode
<1>12. CASE UnaryReply
  <2>1. UNCHANGED <<part, got>> /\ pc = "flight" /\ row.call # "stream"
    BY <1>12 DEF UnaryReply, InFlight, body
  <2>2. pc' \in {"return", "raise"}
    BY <1>12 DEF UnaryReply, Returns, Raises
  <2>3. Nesting' /\ Taken'
    BY <1>1, <2>1, <2>2, NestingKept, TakenKept DEF StreamInv
  <2> QED
    BY <1>1, <2>1, <2>3 DEF StreamInv, Told
<1>13. CASE ChunkReply
  <2>1. pc = "flight" /\ row.call # "stream" /\ pc' \in {"call", "return"}
    BY <1>13 DEF ChunkReply, InFlight, Returns
  <2>2. Nesting'
    BY <1>1, <2>1, NestingKept DEF StreamInv
  <2> QED
    BY <1>1, <2>1, <2>2 DEF StreamInv, Taken, Told
<1>14. CASE Batch
  <2>1. /\ pc = "flight" /\ row.call = "stream" /\ part <= Len(call.batches)
        /\ part \in 1..(Len(call.batches) + 1)
        /\ got = IF part = 1 THEN Nothing ELSE Gotten(part)
    BY <1>14 DEF Batch, InFlight, StreamInv, Taken
  <2>2. CASE /\ UNCHANGED <<part, got>>
             /\ \E kind \in {"deadline", "value_error"} : Raises(AfterProgress(kind))
    BY <1>3, <2>2
  <2>3. CASE part' = part + 1 /\ got' = Collected(DecodeBatch(part)) /\ UNCHANGED <<pc, value>>
    <3>1. part \in 1..Len(call.batches) /\ Len(call.batches) \in Nat
      BY <1>2, <2>1, StreamTypes
    <3>2. got' = Gotten(part + 1)
      BY <1>2, <2>1, <2>3, <3>1, BatchAdds
    <3>3. part' \in 1..(Len(call.batches) + 1) /\ part' # 1
      BY <2>3, <3>1
    <3>4. \A p : Gotten(p)' = Gotten(p)
      BY <1>1, SameStream
    <3>5. Taken'
      BY <1>1, <2>3, <3>2, <3>3, <3>4 DEF Taken
    <3>6. Nesting'
      BY <1>1, <2>1, <2>3, NestingKept DEF StreamInv
    <3>7. value'.kind = "pending"
      BY <1>2, <2>1, <2>3 DEF Pending, Outcome
    <3> QED
      BY <3>5, <3>6, <3>7 DEF StreamInv, Told
  <2> QED
    BY <1>14, <2>2, <2>3 DEF Batch
<1> QED
  BY <1>4, <1>6, <1>7, <1>9, <1>10, <1>11, <1>12, <1>13, <1>14, StreamEndsWhole

\* A scope opens: a method is entered that its caller wraps.
LEMMA StreamEnter ==
    ASSUME DeadlineInv, StreamInv, Enter
    PROVE  StreamInv'
<1>1. /\ pc = "enter" /\ UNCHANGED <<call, row, part, got>> /\ value = Pending /\ call \in Calls
      /\ frames' = Append(frames, [who |-> target.who, op |-> target.op, saved |-> ctx])
  BY DEF Enter, DeadlineInv, Control
<1>2. /\ pc' \in {"raise", "wait", "enter", "build"}
      /\ pc' = "wait" => target.who = "facade"
      /\ pc' = "enter" =>
            /\ target.who = "node" /\ Method.call = "wraps"
            /\ target' = [target EXCEPT !.op = Method.op]
      /\ pc' = "build" => target.who = "node" /\ Method.call # "wraps"
      /\ value' = value \/ value' = Error("deadline") \/ value' = Error("value_error")
  BY DEF Enter, Raises
<1>3. /\ \/ target.who = "facade" /\ frames = <<>>
         \/ target.who = "node" /\ Enters(Len(frames), target.op)
      /\ \A i \in 1..Len(frames) :
            \/ i = 1 /\ frames[i].who = "facade"
            \/ frames[i].who = "node" /\ Enters(i - 1, frames[i].op)
  BY <1>1 DEF StreamInv, Nesting
<1> DEFINE f == [who |-> target.who, op |-> target.op, saved |-> ctx]
<1>4. PICK n \in Nat :
        /\ n = Len(frames) /\ Len(frames') = n + 1 /\ frames'[n + 1] = f
        /\ \A i \in 1..n : frames'[i] = frames[i]
        /\ frames = <<>> => n = 0
  <2>1. PICK S : frames \in Seq(S)
    BY DEF DeadlineInv, Shape, IsSeq
  <2>2. frames \in Seq(S \cup {f})
    BY <2>1
  <2> QED
    BY <1>1, <2>1, <2>2
<1>5. \A i \in 0..n : \A op : Enters(i, op)' <=> Enters(i, op)
  <2>1. ASSUME NEW i \in 0..n PROVE i = 0 \/ frames'[i] = frames[i]
    BY <1>4, <2>1
  <2> QED
    BY <1>1, <2>1, SameEntry
<1> HIDE DEF f
<1>6. f.who = target.who /\ f.op = target.op
  BY DEF f
<1>7. ASSUME NEW i \in 1..(n + 1)
      PROVE  \/ i = 1 /\ frames'[i].who = "facade"
             \/ frames'[i].who = "node" /\ Enters(i - 1, frames[i].op)'
  <2>1. CASE i \in 1..n
    <3>1. i - 1 \in 0..n /\ frames'[i] = frames[i]
      BY <1>4, <2>1
    <3>2. \/ i = 1 /\ frames[i].who = "facade"
          \/ frames[i].who = "node" /\ Enters(i - 1, frames[i].op)
      BY <1>3, <1>4, <2>1
    <3> QED
      BY <1>5, <3>1, <3>2
  <2>2. CASE i = n + 1
    <3>1. i - 1 = n /\ n \in 0..n /\ (frames = <<>> => i = 1)
      BY <1>4, <2>2
    <3>2. \/ target.who = "facade" /\ frames = <<>>
          \/ target.who = "node" /\ Enters(n, target.op)
      BY <1>3, <1>4
    <3> QED
      BY <1>4, <1>5, <1>6, <2>2, <3>1, <3>2
  <2> QED
    BY <1>4, <2>1, <2>2
<1>8. pc' = "enter" => target'.who = "node" /\ Enters(n + 1, target.op)'
  <2>1. SUFFICES ASSUME pc' = "enter"
                 PROVE  target'.who = "node" /\ Enters(n + 1, target.op)'
    OBVIOUS
  <2>2. /\ target = [who |-> target.who, op |-> target.op]
        /\ target.who = "node" /\ Method.call = "wraps" /\ target' = [target EXCEPT !.op = Method.op]
    BY <1>1, <1>2, <2>1 DEF DeadlineInv, Control
  <2>3. target'.who = "node" /\ target'.op = Method.op
    BY <2>2
  <2>4. target.op \in DOMAIN Rows(call.client) /\ Method = RowOf(target.op)
    BY <1>3, <2>2 DEF Enters, Method, RowOf
  <2>5. Method.op \in DOMAIN Rows(call.client)
    BY <1>1, <2>2, <2>4, WrapperFacts
  <2>6. \A op : RowOf(op)' = RowOf(op)
    BY <1>1, SameStream
  <2>7. n + 1 # 0 /\ frames'[n + 1].who # "facade" /\ frames'[n + 1].op = target.op
    BY <1>4, <1>6, <2>2
  <2> QED
    BY <1>1, <2>2, <2>3, <2>4, <2>5, <2>6, <2>7 DEF Enters
<1>9. pc' = "wait" => n = 0 /\ frames'[1].who = "facade"
  <2>1. SUFFICES ASSUME pc' = "wait" PROVE n = 0 /\ frames'[1].who = "facade"
    OBVIOUS
  <2>2. target.who = "facade" /\ frames = <<>>
    BY <1>2, <1>3, <2>1
  <2> QED
    BY <1>4, <1>6, <2>2
<1>10. pc' = "build" => Top'.who = "node" /\ RowOf(Top.op)'.call # "wraps"
  <2>1. SUFFICES ASSUME pc' = "build" PROVE Top'.who = "node" /\ RowOf(Top.op)'.call # "wraps"
    OBVIOUS
  <2>2. target.who = "node" /\ RowOf(target.op).call # "wraps"
    BY <1>2, <2>1 DEF Method, RowOf
  <2>3. Top' = f
    BY <1>4 DEF Top
  <2> QED
    BY <1>1, <1>6, <2>2, <2>3 DEF RowOf
<1>11. Nesting'
  BY <1>2, <1>4, <1>7, <1>8, <1>9, <1>10 DEF Nesting
<1>12. Taken'
  BY <1>1, <1>2, TakenKept DEF StreamInv
<1>13. value'.kind \notin {"ok", "partial"}
  BY <1>1, <1>2 DEF Pending, Error, Outcome
<1> QED
  BY <1>11, <1>12, <1>13 DEF StreamInv, Told

\* The scopes that are left, when one closes.
LEMMA OuterNesting ==
    ASSUME DeadlineInv, Nesting, frames # <<>>, frames' = Outer, UNCHANGED call
    PROVE  /\ \A i \in 1..Len(frames') :
                 \/ i = 1 /\ frames'[i].who = "facade"
                 \/ frames'[i].who = "node" /\ Enters(i - 1, frames[i].op)'
           /\ Len(frames') = Len(frames) - 1 /\ Len(frames) \in Nat \ {0}
<1>1. /\ Len(frames) \in Nat \ {0} /\ Len(frames') = Len(frames) - 1
      /\ \A i \in 1..Len(frames') : i \in 1..Len(frames) /\ frames'[i] = frames[i]
  BY OuterFrames DEF DeadlineInv, Shape
<1>2. ASSUME NEW i \in 1..Len(frames')
      PROVE  \/ i = 1 /\ frames'[i].who = "facade"
             \/ frames'[i].who = "node" /\ Enters(i - 1, frames[i].op)'
  <2>1. i \in 1..Len(frames) /\ frames'[i] = frames[i]
    BY <1>1
  <2>2. i - 1 = 0 \/ i - 1 \in 1..Len(frames')
    BY <1>1
  <2>3. Enters(i - 1, frames[i].op)' <=> Enters(i - 1, frames[i].op)
    BY <1>1, <2>1, <2>2 DEF Enters, RowOf
  <2>4. \/ i = 1 /\ frames[i].who = "facade"
        \/ frames[i].who = "node" /\ Enters(i - 1, frames[i].op)
    BY <2>1 DEF Nesting
  <2> QED
    BY <2>1, <2>3, <2>4
<1> QED
  BY <1>1, <1>2

\* What a method that wraps another makes of its result is what that method may return.
LEMMA AcceptedYields ==
    ASSUME call \in Calls, IsOutcome(value), value.kind = "ok",
           NEW op \in DOMAIN Rows(call.client), RowOf(op).call = "wraps",
           Yields(RowOf(op).op, value.result), Accepted(RowOf(op), value).kind = "ok"
    PROVE  Yields(op, Accepted(RowOf(op), value).result)
<1> DEFINE m == RowOf(op)
           a == Accepted(m, value)
<1>1. value.result = Raw
  BY WrapperFacts DEF Yields
<1>2. CASE m.shape = "any"
  <2>1. a = value
    BY <1>2 DEF Accepted
  <2> QED
    BY <1>1, <1>2, <2>1 DEF Yields
<1>3. CASE m.shape # "any" /\ Raw.items = <<>>
  <2>1. a = [value EXCEPT !.result.shape = m.shape]
    BY <1>1, <1>3 DEF Accepted
  <2>2. value = Outcome(value.kind, value.chunks, value.items, value.result, value.size)
    BY DEF IsOutcome
  <2>3. a.result = [Raw EXCEPT !.shape = m.shape]
    BY <1>1, <2>1, <2>2 DEF Outcome
  <2> QED
    BY <1>3, <2>3 DEF Yields, Checked
<1>4. CASE m.shape # "any" /\ Raw.items # <<>>
  <2>1. a = value \/ a = Error("value_error")
    BY <1>1, <1>4 DEF Accepted
  <2>2. Error("value_error").kind # "ok"
    BY DEF Error, Outcome
  <2>3. a = value /\ value # Error("value_error")
    BY <2>1, <2>2
  <2>4. Raw.shape = m.shape /\ OfClass(Raw.items, m.class)
    BY <1>1, <1>4, <2>3 DEF Accepted
  <2> QED
    BY <1>1, <1>4, <2>3, <2>4 DEF Yields, Checked
<1> QED
  BY <1>2, <1>3, <1>4

\* A scope closes, and its result goes to the method that opened it.
LEMMA StreamLeave ==
    ASSUME DeadlineInv, StreamInv, Leave
    PROVE  StreamInv'
<1>1. /\ pc \in {"return", "raise"} /\ UNCHANGED <<target, call, row, part, got>>
      /\ call \in Calls /\ IsSeq(frames) /\ IsOutcome(value)
  BY DEF Leave, body, DeadlineInv, Control, Shape
<1>2. \A op, result : Yields(op, result)' <=> Yields(op, result)
  BY <1>1, SameStream
<1>3. CASE frames = <<>>
  <2>1. pc' = "done" /\ UNCHANGED <<frames, value>>
    BY <1>3 DEF Leave
  <2>2. Nesting' /\ Taken'
    BY <1>1, <2>1, NestingKept, TakenKept DEF StreamInv
  <2>3. Told'
    BY <1>1, <1>2, <1>3, <2>1, SameStream DEF StreamInv, Told
  <2> QED
    BY <2>2, <2>3 DEF StreamInv
<1>4. CASE frames # <<>>
  <2>1. frames' = Outer /\ pc' \in {"return", "raise", "done"}
    BY <1>1, <1>4 DEF Leave
  <2>2. /\ \A i \in 1..Len(frames') :
              \/ i = 1 /\ frames'[i].who = "facade"
              \/ frames'[i].who = "node" /\ Enters(i - 1, frames[i].op)'
        /\ Len(Outer) = Len(frames) - 1 /\ Len(frames) \in Nat \ {0}
    BY <1>1, <1>4, <2>1, OuterNesting DEF StreamInv
  <2>3. Nesting' /\ Taken'
    <3>1. Nesting'
      BY <2>1, <2>2 DEF Nesting
    <3> QED
      BY <1>1, <2>1, <3>1, TakenKept DEF StreamInv
  <2>4. PICK n \in Nat, k \in Nat :
          /\ n = Len(frames) /\ k = Len(Outer) /\ k = n - 1 /\ Top = frames[n]
          /\ Outer = <<>> <=> k = 0
          /\ Outer # <<>> => Outer[k] = frames[k]
    <3>1. /\ Outer = <<>> <=> Len(frames) = 1
          /\ \A i \in 1..Len(Outer) : Outer[i] = frames[i]
      BY <1>1, <1>4, OuterFrames
    <3>2. /\ Len(Outer) \in Nat /\ (Outer = <<>> <=> Len(Outer) = 0)
          /\ Outer # <<>> => Len(Outer) \in 1..Len(Outer)
      BY <2>2, <3>1
    <3> QED
      BY <2>2, <3>1, <3>2 DEF Top
  <2>5. \A i \in 1..n : \/ i = 1 /\ frames[i].who = "facade"
                        \/ frames[i].who = "node" /\ Enters(i - 1, frames[i].op)
    BY <2>4 DEF StreamInv, Nesting
  <2>6. ASSUME row.call = "stream", value'.kind = "ok"
        PROVE  Yields(IF frames' # <<>> /\ Top'.who = "node" THEN Top'.op ELSE call.op,
                      value'.result)
    <3>1. CASE Outer = <<>>
      <4>1. UNCHANGED value
        BY <1>4, <3>1 DEF Leave
      <4>2. Top.who = "node" => Top.op = call.op
        BY <2>4, <2>5, <3>1 DEF Enters
      <4>3. Yields(call.op, value.result)
        BY <1>1, <1>4, <2>6, <4>1, <4>2 DEF StreamInv, Told
      <4> QED
        BY <2>1, <3>1, <4>1, <4>3
    <3>2. CASE Outer # <<>> /\ Outer[k].who = "facade"
      <4>1. UNCHANGED value
        BY <1>4, <2>4, <3>2 DEF Leave
      <4>2. frames[k].who = "facade" /\ k \in 1..n
        BY <2>4, <3>2
      <4>3. k = 1 /\ n \in 1..n /\ n # 1
        BY <2>4, <2>5, <4>2
      <4>4. Top.who = "node" /\ Enters(k, Top.op)
        BY <2>4, <2>5, <4>3
      <4>5. Top.op = call.op
        BY <2>4, <3>2, <4>4 DEF Enters
      <4>6. Yields(call.op, value.result)
        BY <1>1, <1>4, <2>6, <4>1, <4>4, <4>5 DEF StreamInv, Told
      <4>7. Top'.who = "facade"
        BY <2>1, <2>4, <3>2 DEF Top
      <4> QED
        BY <4>1, <4>6, <4>7
    <3>3. CASE Outer # <<>> /\ Outer[k].who # "facade"
      <4>1. /\ value' = Accepted(RowOf(Outer[k].op), value)
            /\ Top' = Outer[k]
        BY <1>4, <2>1, <2>4, <3>3 DEF Leave, RowOf, Top
      <4>2. /\ n # 1 /\ k # 0 /\ frames[k].who = "node" /\ Enters(k - 1, frames[k].op)
            /\ Top.who = "node" /\ Enters(k, Top.op) /\ Outer[k] = frames[k]
        <5>1. k \in 1..n /\ n \in 1..n /\ n # 1 /\ k # 0 /\ Outer[k] = frames[k]
          BY <2>4, <3>3
        <5>2. frames[k].who = "node" /\ Enters(k - 1, frames[k].op)
          BY <2>5, <3>3, <5>1
        <5>3. Top.who = "node" /\ Enters(k, Top.op)
          BY <2>4, <2>5, <5>1
        <5> QED
          BY <5>1, <5>2, <5>3
      <4>3. /\ RowOf(frames[k].op).call = "wraps" /\ RowOf(frames[k].op).op = Top.op
            /\ frames[k].op \in DOMAIN Rows(call.client)
        BY <4>2 DEF Enters
      <4>4. value.kind = "ok"
        BY <1>1, <2>6, <4>1, AcceptedKinds
      <4>5. Yields(Top.op, value.result)
        BY <1>1, <1>4, <2>6, <4>2, <4>4 DEF StreamInv, Told
      <4>6. Yields(frames[k].op, Accepted(RowOf(frames[k].op), value).result)
        BY <1>1, <2>6, <4>1, <4>2, <4>3, <4>4, <4>5, AcceptedYields
      <4> QED
        BY <2>1, <3>3, <4>1, <4>2, <4>6
    <3> QED
      BY <3>1, <3>2, <3>3
  <2>7. value'.kind = "partial" => value' = value
    <3>1. value' = value \/ \E method : value' = Accepted(method, value)
      BY <1>4 DEF Leave
    <3>2. \A method : Accepted(method, value).kind = "partial" => Accepted(method, value) = value
      BY <1>1, AcceptedKinds
    <3> QED
      BY <3>1, <3>2
  <2>8. Told'
    BY <1>1, <1>2, <2>1, <2>6, <2>7, SameStream DEF StreamInv, Told
  <2> QED
    BY <2>3, <2>8 DEF StreamInv
<1> QED
  BY <1>3, <1>4

\* The second attempt begins the stream anew.
LEMMA StreamRetry ==
    ASSUME DeadlineInv, StreamInv, Retry
    PROVE  StreamInv'
<1>1. /\ pc = "raise" /\ Len(frames) = 2 /\ frames[1].who = "facade" /\ frames' = Outer
      /\ pc' = "enter" /\ target' = [who |-> "node", op |-> call.op]
      /\ part' = 1 /\ got' = Nothing /\ value' = Pending /\ UNCHANGED <<call, row>>
  BY DEF Retry, ToNode
<1>2. call \in Calls /\ IsSeq(frames)
  BY <1>1 DEF DeadlineInv, Control, Shape
<1>3. frames # <<>>
  <2>1. PICK S : frames \in Seq(S)
    BY <1>2 DEF IsSeq
  <2>2. frames = <<>> <=> Len(frames) = 0
    BY <2>1, EmptyLength
  <2> QED
    BY <1>1, <2>2
<1>4. /\ \A i \in 1..Len(frames') :
            \/ i = 1 /\ frames'[i].who = "facade"
            \/ frames'[i].who = "node" /\ Enters(i - 1, frames[i].op)'
      /\ Len(frames') = 1
  BY <1>1, <1>3, OuterNesting DEF StreamInv
<1>5. frames'[1].who = "facade"
  <2>1. 1 \in 1..Len(Outer)
    BY <1>1, <1>4
  <2>2. Outer[1] = frames[1]
    BY <1>2, <1>3, <2>1, OuterFrames
  <2> QED
    BY <1>1, <2>2
<1>6. Nesting'
  <2>1. call.op \in DOMAIN Rows(call.client)
    BY <1>2, StreamTypes
  <2>2. Enters(1, call.op)'
    BY <1>1, <1>5, <2>1 DEF Enters
  <2>3. target'.who = "node" /\ target'.op = call'.op
    BY <1>1
  <2>4. Enters(Len(frames), target.op)'
    BY <1>4, <2>2, <2>3 DEF Enters
  <2> QED
    BY <1>1, <1>4, <2>3, <2>4 DEF Nesting
<1>7. Taken'
  <2>1. Len(call.batches) \in Nat
    BY <1>2, StreamTypes
  <2> QED
    BY <1>1, <2>1 DEF Taken
<1>8. value'.kind = "pending"
  BY <1>1 DEF Pending, Outcome
<1> QED
  BY <1>6, <1>7, <1>8 DEF StreamInv, Told

\* A call is made, and its caller goes on after it.
LEMMA StreamCall ==
    ASSUME DeadlineInv, StreamInv, Return \/ \E c \in Calls : Invoke(c)
    PROVE  StreamInv'
<1>0. Len(<<>>) = 0
  OBVIOUS
<1>1. CASE Return
  <2>1. pc' = "idle" /\ frames' = <<>> /\ part' = 1 /\ got' = Nothing
    BY <1>1 DEF Return, DeadlineInv, Control
  <2> QED
    BY <1>0, <2>1 DEF StreamInv, Nesting, Taken, Told
<1>2. ASSUME NEW c \in Calls, Invoke(c) PROVE StreamInv'
  <2>1. /\ pc = "idle" /\ pc' = "enter" /\ call' = c
        /\ target' = [who |-> IF c.smart THEN "facade" ELSE "node", op |-> c.op]
        /\ frames = <<>> /\ value = Pending /\ part = 1 /\ got = Nothing
        /\ UNCHANGED <<frames, part, got, value>>
    BY <1>2 DEF Invoke, body, DeadlineInv, Control, StreamInv, Taken
  <2>2. c.op \in DOMAIN Rows(c.client) /\ c.batches \in Seq([upto : Nat, paired : BOOLEAN])
    BY CallsAssumption DEF CallType
  <2>3. target'.who = "facade" \/ (target'.who = "node" /\ target'.op = c.op)
    BY <2>1
  <2>4. Len(frames') = 0
    BY <1>0, <2>1
  <2>5. target'.op = c.op => Enters(Len(frames), target.op)'
    BY <2>1, <2>2, <2>4 DEF Enters
  <2>6. Nesting'
    BY <2>1, <2>3, <2>4, <2>5 DEF Nesting
  <2>7. Taken'
    <3>1. Len(c.batches) \in Nat
      BY <2>2, LenProperties
    <3> QED
      BY <2>1, <3>1 DEF Taken
  <2>8. value'.kind = "pending"
    BY <2>1 DEF Pending, Outcome
  <2> QED
    BY <2>6, <2>7, <2>8 DEF StreamInv, Told
<1> QED
  BY <1>1, <1>2

\* Every step keeps the invariant.
LEMMA StreamStep ==
    ASSUME DeadlineInv, StreamInv, [Next]_vars
    PROVE  StreamInv'
<1>1. CASE Tick \/ UNCHANGED vars
  <2>1. UNCHANGED <<frames, target, call, row, pc, part, got, value>>
    BY <1>1 DEF Tick, vars, program, scope, body
  <2>2. Nesting'
    BY <2>1, NestingKept DEF StreamInv
  <2>3. Taken' /\ Told'
    <3>1. Top' = Top
      BY <2>1 DEF Top
    <3> QED
      BY <2>1, <3>1, SameStream DEF StreamInv, Taken, Told
  <2> QED
    BY <2>2, <2>3 DEF StreamInv
<1> QED
  BY <1>1, StreamBody, StreamEnter, StreamLeave, StreamRetry, StreamCall DEF Next, ClientStep

\* It holds before the first call.
LEMMA StreamInit == Init => StreamInv
<1>1. Len(<<>>) = 0
  OBVIOUS
<1> QED
  BY <1>1 DEF Init, StreamInv, Nesting, Taken, Told

\* What get_container returns, against the container.
LEMMA RawIsWhole ==
    ASSUME call \in Calls
    PROVE  /\ Before(Len(call.batches) + 1) \in Nat
           /\ Raw.items \in Seq([item : Nat, as : {"element", "pair", "key"},
                                 class : {ClassOf(call.container)}])
           /\ Len(Raw.items) = Before(Len(call.batches) + 1)
           /\ \A j \in 1..Len(Raw.items) : Raw.items[j].class = ClassOf(call.container)
           /\ Whole = <<>> <=> Raw.items = <<>>
           /\ Whole # <<>> => Raw = Read
           /\ Raw = [shape |-> Raw.shape, items |-> Raw.items]
<1> DEFINE m == Len(call.batches)
           b == Before(m + 1)
           class == ClassOf(call.container)
           S == [item : Nat, as : {"element", "pair", "key"}, class : {class}]
           kind == IF IsMap(call.container) THEN "pair" ELSE "element"
<1>1. /\ m \in Nat /\ (call.batches = <<>> <=> m = 0)
      /\ b \in Nat /\ 0 <= b /\ b - 0 = b
      /\ m = 0 => b = 0
      /\ m # 0 => Before(2) \in Nat /\ Before(2) = call.batches[1].upto
  <2>1. m \in Nat /\ (call.batches = <<>> <=> m = 0)
    BY StreamTypes
  <2>2. m + 1 \in 1..(m + 1) /\ (m # 0 => 2 \in 1..(m + 1))
    BY <2>1
  <2>3. b \in Nat /\ (m # 0 => Before(2) \in Nat)
    BY <2>2, StreamTypes
  <2> QED
    BY <2>1, <2>3 DEF Before
<1> SUFFICES
      /\ b \in Nat
      /\ Raw.items \in Seq(S)
      /\ Len(Raw.items) = b
      /\ \A j \in 1..Len(Raw.items) : Raw.items[j].class = class
      /\ Whole = <<>> <=> Raw.items = <<>>
      /\ Whole # <<>> => Raw = Read
      /\ Raw = [shape |-> Raw.shape, items |-> Raw.items]
  OBVIOUS
<1> HIDE DEF b
<1>2. ASSUME NEW as \in {"element", "pair", "key"}
      PROVE  /\ Items(0, b, as) \in Seq(S) /\ Len(Items(0, b, as)) = b
             /\ \A j \in 1..b : Items(0, b, as)[j].class = class
             /\ Items(0, b, as) = <<>> <=> b = 0
  <2>1. /\ Items(0, b, as) \in Seq([item : Nat, as : {as}, class : {class}])
        /\ Len(Items(0, b, as)) = b - 0
        /\ \A j \in 1..(b - 0) :
              Items(0, b, as)[j] = [item |-> 0 + j, as |-> as, class |-> class]
    <3>1. 0 \in Nat /\ b \in Nat /\ 0 <= b
      BY <1>1
    <3> QED
      BY <3>1, ItemsAre
  <2> DEFINE T == [item : Nat, as : {as}, class : {class}]
  <2>2. ASSUME NEW e \in T PROVE e \in S
    BY <2>2
  <2>3. Items(0, b, as) \in Seq(S)
    <3>1. T \subseteq S /\ Items(0, b, as) \in Seq(T)
      BY <2>1, <2>2
    <3> HIDE DEF S, T
    <3> QED
      BY <3>1, SeqMonotonic
  <2>4. ASSUME NEW j \in 1..b PROVE Items(0, b, as)[j].class = class
    <3>1. j \in 1..(b - 0)
      BY <1>1
    <3> QED
      BY <3>1 DEF Items
  <2>5. Items(0, b, as) = <<>> <=> b = 0
    BY <1>1, <2>1, <2>3, EmptyLength
  <2> QED
    BY <1>1, <2>1, <2>3, <2>4, <2>5
<1>3. Whole = Items(0, b, kind) /\ kind \in {"element", "pair"}
  BY DEF Whole, b
<1>4. CASE m = 0
  <2>1. Raw = [shape |-> "list", items |-> <<>>] /\ b = 0
    BY <1>1, <1>4 DEF Raw
  <2>2. <<>> \in Seq(S) /\ Len(<<>>) = 0
    BY EmptySeq
  <2>3. Whole = <<>>
    BY <1>2, <1>3, <2>1
  <2> QED
    BY <1>1, <2>1, <2>2, <2>3
<1>5. CASE m # 0
  <2>1. /\ Raw.items = Items(0, b, KeptAs)
        /\ Raw.shape = IF IsMap(call.container) /\ Filled THEN "dict" ELSE "list"
        /\ Raw = [shape |-> Raw.shape, items |-> Raw.items]
    BY <1>1, <1>5 DEF Raw, Gotten, b
  <2>2. KeptAs \in {"element", "pair", "key"}
    BY DEF KeptAs
  <2>3. /\ Raw.items \in Seq(S) /\ Len(Raw.items) = b
        /\ \A j \in 1..b : Raw.items[j].class = class
        /\ Raw.items = <<>> <=> b = 0
    BY <1>2, <2>1, <2>2
  <2>4. Whole = <<>> <=> b = 0
    BY <1>2, <1>3
  <2>5. ASSUME ~IsMap(call.container) \/ Filled, Whole # <<>>
        PROVE  Raw = Read
    <3>1. Raw = [shape |-> ShapeOf(call.container), items |-> Whole]
      BY <1>3, <2>1, <2>5 DEF KeptAs, ShapeOf
    <3>2. ~(LateStart /\ IsMap(call.container))
      BY <1>1, <1>5, <2>5 DEF LateStart, Filled
    <3> QED
      BY <3>1, <3>2 DEF Read
  <2>6. ASSUME IsMap(call.container), ~Filled, Whole # <<>>
        PROVE  Raw = Read
    <3>1. Raw = [shape |-> "list", items |-> Items(0, b, "key")]
      BY <2>1, <2>6 DEF KeptAs
    <3>2. LateStart
      BY <1>1, <1>5, <2>6 DEF LateStart, Filled
    <3> QED
      BY <2>6, <3>1, <3>2 DEF Read, b
  <2> QED
    BY <1>1, <2>1, <2>3, <2>4, <2>5, <2>6
<1> QED
  BY <1>4, <1>5

-----------------------------------------------------------------------------
(* The invariant: how far a stream has come when its call ends.            *)

\* The key of the request cannot be named, and a typed method has read a container
\* that it is not for, or one that it cannot tell from such a one.
Unnamed == call.client = "async" /\ call.key.raw > MaxDecoded
Fitting(m) == Raw.shape = m.shape /\ OfClass(Raw.items, m.class)
Refused ==
    /\ part > Len(call.batches) /\ call.op \in DOMAIN Promised
    /\ Raw.items # <<>> /\ ~Fitting(RowOf(call.op))

Shown ==
    \/ value.kind \in {"ok", "partial", "task_cancelled"}
    \/ value.kind = "value_error" /\ (Unnamed \/ Refused)

Far ==
    pc # "idle" /\ row.call = "stream" =>
        /\ pc \in {"enter", "wait", "build", "call"} => part = 1
        /\ value.kind = "ok" => part > Len(call.batches)
        /\ value.kind = "partial" => part # 1 /\ value.chunks = part - 1
        /\ pc \in {"return", "raise", "done"} /\ part # 1 => Shown

\* What has been shown stays so while the value goes up.
LEMMA SameShown ==
    ASSUME UNCHANGED <<call, part>>
    PROVE  /\ Unnamed' <=> Unnamed
           /\ Refused' <=> Refused
           /\ UNCHANGED value => (Shown' <=> Shown)
<1>1. Raw' = Raw /\ RowOf(call.op)' = RowOf(call.op)
  BY SameStream
<1>2. Unnamed' <=> Unnamed
  BY DEF Unnamed
<1>3. Refused' <=> Refused
  BY <1>1 DEF Refused, Fitting, OfClass
<1> QED
  BY <1>2, <1>3 DEF Shown

\* An exception leaves the body of a method.
LEMMA FarRaise ==
    ASSUME DeadlineInv, StreamInv, Far, pc # "idle", row.call = "stream", pc' = "raise",
           UNCHANGED <<call, row, part, got>>, NEW kind, kind \notin {"ok", "partial"},
           \/ value' = AfterProgress(kind)
           \/ value' = Error(kind) /\ \/ part = 1
                                      \/ kind = "task_cancelled"
                                      \/ kind = "value_error" /\ Unnamed
    PROVE  Far'
<1>1. CASE value' = Error(kind) /\ part = 1
  <2>1. value'.kind = kind
    BY <1>1 DEF Error, Outcome
  <2> QED
    BY <1>1, <2>1 DEF Far
<1>2. CASE value' = Error(kind) /\ (kind = "task_cancelled" \/ (kind = "value_error" /\ Unnamed))
  <2>1. value'.kind = kind
    BY <1>2 DEF Error, Outcome
  <2>2. Shown'
    BY <1>2, <2>1, SameShown DEF Shown
  <2> QED
    BY <2>1, <2>2 DEF Far
<1>3. CASE value' = AfterProgress(kind) /\ part # 1
  <2>1. value'.kind = "partial" /\ value'.chunks = part - 1
    BY <1>3 DEF AfterProgress, Outcome
  <2>2. Shown'
    BY <2>1 DEF Shown
  <2> QED
    BY <1>3, <2>1, <2>2 DEF Far
<1> QED
  BY <1>1, <1>2, <1>3 DEF AfterProgress

\* The steps of a method.
LEMMA FarBody ==
    ASSUME DeadlineInv, ContentInv, StreamInv, Far, row.call = "stream",
           \/ \E kind \in {"cancelled", "value_error"} : Refuse(kind)
           \/ \E found \in BOOLEAN : Ready(found)
           \/ NotReady \/ Build \/ Send \/ RpcExpires
           \/ \E kind \in {"unavailable", "precondition", "other"} : RpcFails(kind)
           \/ UnaryReply \/ ChunkReply \/ Batch \/ StreamEnds \/ TaskCancelled
    PROVE  Far'
<1>1. UNCHANGED <<call, row>> /\ pc # "idle"
  BY DEF Refuse, Ready, NotReady, Build, Send, RpcExpires, RpcFails, UnaryReply, ChunkReply,
     Batch, StreamEnds, TaskCancelled, InFlight, Failed, scope
<1>2. /\ call \in Calls /\ (pc # "raise" /\ pc # "return" /\ pc # "done" => value = Pending)
      /\ pc \in {"enter", "wait", "build", "call"} => part = 1
  BY <1>1 DEF DeadlineInv, Control, Far
<1>3. ASSUME NEW kind, kind \notin {"ok", "partial"}, UNCHANGED <<part, got>>,
             \/ Raises(AfterProgress(kind))
             \/ Raises(Error(kind)) /\ \/ part = 1
                                       \/ kind = "task_cancelled"
                                       \/ kind = "value_error" /\ Unnamed
      PROVE  Far'
  BY <1>1, <1>3, FarRaise DEF Raises
<1>4. ASSUME pc' \notin {"return", "raise", "done"}, UNCHANGED value, value = Pending,
             pc' \in {"enter", "wait", "build", "call"} => part' = 1
      PROVE  Far'
  <2>1. value'.kind = "pending"
    BY <1>4 DEF Pending, Outcome
  <2> QED
    BY <1>4, <2>1 DEF Far
<1>5. CASE \E kind \in {"cancelled", "value_error"} : Refuse(kind)
  <2>1. PICK kind \in {"cancelled", "value_error"} : Refuse(kind)
    BY <1>5
  <2>2. pc = "enter" /\ Raises(Error(kind)) /\ UNCHANGED <<part, got>>
    BY <2>1 DEF Refuse, body
  <2> QED
    BY <1>2, <1>3, <2>2
<1>6. CASE \E found \in BOOLEAN : Ready(found)
  <2>1. pc = "wait" /\ UNCHANGED <<part, got>>
    BY <1>6 DEF Ready, body
  <2>2. CASE pc' = "enter" /\ UNCHANGED value
    BY <1>2, <1>4, <2>1, <2>2
  <2>3. CASE Raises(Error("unavailable"))
    BY <1>2, <1>3, <2>1, <2>3
  <2> QED
    BY <1>6, <2>2, <2>3 DEF Ready, ToNode
<1>7. CASE NotReady
  <2>1. pc = "wait" /\ UNCHANGED <<part, got>> /\ Raises(Error("timeout"))
    BY <1>7 DEF NotReady, body
  <2> QED
    BY <1>2, <1>3, <2>1
<1>8. CASE Build
  <2>1. pc = "build" /\ UNCHANGED <<part, got>>
    BY <1>8 DEF Build
  <2>2. CASE pc' = "call" /\ UNCHANGED value
    BY <1>2, <1>4, <2>1, <2>2
  <2>3. CASE \E kind \in {"deadline", "value_error"} : Raises(Error(kind))
    BY <1>2, <1>3, <2>1, <2>3
  <2> QED
    BY <1>8, <2>2, <2>3 DEF Build
<1>9. CASE Send
  <2>1. pc = "call" /\ UNCHANGED <<part, got>>
    BY <1>9 DEF Send
  <2>2. CASE pc' = "flight" /\ UNCHANGED value
    BY <1>2, <1>4, <2>1, <2>2
  <2>3. CASE Raises(AfterProgress("deadline"))
    BY <1>3, <2>1, <2>3
  <2> QED
    BY <1>9, <2>2, <2>3 DEF Send
<1>10. ASSUME NEW kind \in {"deadline", "unavailable", "precondition", "other"}, Failed(kind),
              pc = "flight"
       PROVE  Far'
  <2>1. Raises(Mapped(kind)) /\ UNCHANGED <<part, got>>
    BY <1>10 DEF Failed, body
  <2>2. request.key = SentKey
    BY <1>10 DEF ContentInv, RequestOK
  <2>3. call.key.raw \in Nat
    BY <1>2, CallsAssumption DEF CallType
  <2>4. Decoded(request.key) = None => ~(call.key.raw <= MaxDecoded)
    <3>1. call.key.raw <= MaxDecoded => Decoded(request.key) = call.key.raw
      BY <2>2, <2>3, DecodeEncoded, SettingsAssumption DEF SentKey
    <3> QED
      BY <2>3, <3>1, MarkerAssumption
  <2>5. CASE call.client = "async" /\ Decoded(request.key) = None
    <3>1. Unnamed
      BY <2>3, <2>4, <2>5, SettingsAssumption DEF Unnamed
    <3>2. Raises(Error("value_error"))
      BY <2>1, <2>5 DEF Mapped
    <3> QED
      BY <1>3, <2>1, <3>1, <3>2
  <2>6. CASE ~(call.client = "async" /\ Decoded(request.key) = None)
    <3>1. Raises(AfterProgress(kind))
      BY <2>1, <2>6 DEF Mapped
    <3> QED
      BY <1>3, <2>1, <3>1
  <2> QED
    BY <2>5, <2>6
<1>11. CASE RpcExpires \/ \E kind \in {"unavailable", "precondition", "other"} : RpcFails(kind)
  BY <1>10, <1>11 DEF RpcExpires, RpcFails
<1>12. CASE UnaryReply \/ ChunkReply
  BY <1>12 DEF UnaryReply, ChunkReply, InFlight
<1>13. CASE Batch
  <2>1. pc = "flight" /\ part \in 1..(Len(call.batches) + 1)
    BY <1>1, <1>13 DEF Batch, InFlight, StreamInv, Taken
  <2>2. CASE /\ UNCHANGED <<part, got>>
             /\ \E kind \in {"deadline", "value_error"} : Raises(AfterProgress(kind))
    BY <1>3, <2>2
  <2>3. CASE UNCHANGED <<pc, value>>
    BY <1>2, <1>4, <2>1, <2>3
  <2> QED
    BY <1>13, <2>2, <2>3 DEF Batch
<1>14. CASE StreamEnds
  <2>1. /\ part > Len(call.batches) /\ UNCHANGED part /\ pc' = "return" /\ value'.kind = "ok"
    BY <1>14 DEF StreamEnds, Returns, Outcome, body
  <2> QED
    BY <1>1, <2>1 DEF Far, Shown
<1>15. CASE TaskCancelled
  <2>1. UNCHANGED <<part, got>> /\ Raises(Error("task_cancelled"))
    BY <1>15 DEF TaskCancelled, body
  <2> QED
    BY <1>3, <2>1
<1> QED
  BY <1>5, <1>6, <1>7, <1>8, <1>9, <1>11, <1>12, <1>13, <1>14, <1>15

\* A scope opens, before the first batch.
LEMMA FarEnter ==
    ASSUME DeadlineInv, StreamInv, Far, row.call = "stream", Enter
    PROVE  Far'
<1>1. /\ pc = "enter" /\ UNCHANGED <<call, row, part, got>> /\ value = Pending /\ part = 1
      /\ value' = value \/ value' = Error("deadline") \/ value' = Error("value_error")
  BY DEF Enter, Raises, DeadlineInv, Control, Far
<1>2. value'.kind \notin {"ok", "partial"}
  BY <1>1 DEF Pending, Error, Outcome
<1> QED
  BY <1>1, <1>2 DEF Far

\* A typed method that refuses what it has wrapped is the one that was called, and the
\* method in it returns what was read.
LEMMA OnlyTypedRefuse ==
    ASSUME call \in Calls, StreamInv, NEW k \in Nat, k # 0,
           frames[k].who = "node", Enters(k - 1, frames[k].op),
           RowOf(frames[k].op).call = "wraps", RowOf(frames[k].op).shape # "any",
           k = 1 \/ (k - 1 = 1 /\ frames[k - 1].who = "facade")
                 \/ (frames[k - 1].who = "node" /\ Enters(k - 2, frames[k - 1].op))
    PROVE  frames[k].op = call.op
<1>1. CASE k = 1 \/ frames[k - 1].who = "facade"
  BY <1>1 DEF Enters
<1>2. CASE k # 1 /\ frames[k - 1].who # "facade"
  <2>1. /\ frames[k - 1].op \in DOMAIN Rows(call.client)
        /\ RowOf(frames[k - 1].op).call = "wraps"
        /\ RowOf(frames[k - 1].op).op = frames[k].op
    <3>1. k - 1 # 0
      BY <1>2
    <3> QED
      BY <1>2, <3>1 DEF Enters
  <2>2. RowOf(frames[k].op).shape = "any"
    BY <2>1, WrapperFacts
  <2> QED
    BY <2>2
<1> QED
  BY <1>1, <1>2

\* A scope closes.
LEMMA FarLeave ==
    ASSUME DeadlineInv, StreamInv, Far, row.call = "stream", Leave
    PROVE  Far'
<1>1. /\ pc \in {"return", "raise"} /\ UNCHANGED <<target, call, row, part, got>>
      /\ call \in Calls /\ IsSeq(frames) /\ IsOutcome(value)
      /\ pc' \in {"return", "raise", "done"}
  BY DEF Leave, body, DeadlineInv, Control, Shape
<1>2. CASE UNCHANGED value
  BY <1>1, <1>2, SameShown DEF Far
<1>3. ASSUME value' # value
      PROVE  Far'
  <2>1. /\ frames # <<>> /\ Outer # <<>> /\ Outer[Len(Outer)].who # "facade"
        /\ value' = Accepted(RowOf(Outer[Len(Outer)].op), value)
    BY <1>3 DEF Leave, RowOf
  <2>2. PICK n \in Nat, k \in Nat :
          /\ n = Len(frames) /\ k = Len(Outer) /\ k = n - 1 /\ k # 0 /\ Top = frames[n]
          /\ Outer[k] = frames[k]
    <3>1. /\ Len(frames) \in Nat \ {0} /\ Len(Outer) = Len(frames) - 1
          /\ Outer = <<>> <=> Len(frames) = 1
          /\ \A i \in 1..Len(Outer) : Outer[i] = frames[i]
      BY <1>1, <2>1, OuterFrames
    <3>2. Len(Outer) \in Nat \ {0} /\ Len(Outer) \in 1..Len(Outer)
      BY <2>1, <3>1
    <3> QED
      BY <3>1, <3>2 DEF Top
  <2>3. \A i \in 1..n : \/ i = 1 /\ frames[i].who = "facade"
                        \/ frames[i].who = "node" /\ Enters(i - 1, frames[i].op)
    BY <2>2 DEF StreamInv, Nesting
  <2> DEFINE m == RowOf(frames[k].op)
  <2>4. value' = Accepted(m, value)
    BY <2>1, <2>2
  <2>5. /\ value.kind = "ok" /\ m.shape # "any"
        /\ value.result.items = <<>> => value' = [value EXCEPT !.result.shape = m.shape]
        /\ value.result.items # <<>> =>
              /\ value' = Error("value_error")
              /\ ~(value.result.shape = m.shape /\ OfClass(value.result.items, m.class))
    BY <1>3, <2>4 DEF Accepted
  <2>6. part > Len(call.batches)
    BY <1>1, <2>5 DEF Far
  <2>7. CASE value.result.items = <<>>
    <3>1. value'.kind = "ok"
      BY <1>1, <2>4, <2>5, <2>7, AcceptedKinds DEF IsOutcome, Outcome
    <3> QED
      BY <1>1, <2>6, <3>1 DEF Far, Shown
  <2>8. CASE value.result.items # <<>>
    <3>1. /\ frames[k].who = "node" /\ Enters(k - 1, frames[k].op)
          /\ Top.who = "node" /\ Enters(k, Top.op)
      <4>1. k \in 1..n /\ n \in 1..n /\ n # 1 /\ n - 1 = k
        BY <2>2
      <4> QED
        BY <2>1, <2>2, <2>3, <4>1
    <3>2. m.call = "wraps" /\ m.op = Top.op /\ frames[k].op \in DOMAIN Rows(call.client)
      BY <2>2, <3>1 DEF Enters
    <3>3. frames[k].op = call.op
      <4>1. \/ k = 1
            \/ k - 1 = 1 /\ frames[k - 1].who = "facade"
            \/ frames[k - 1].who = "node" /\ Enters(k - 2, frames[k - 1].op)
        <5>1. k = 1 \/ (k - 1 \in 1..n /\ (k - 1) - 1 = k - 2)
          BY <2>2
        <5> QED
          BY <2>3, <5>1
      <4> QED
        BY <1>1, <2>2, <2>5, <3>1, <3>2, <4>1, OnlyTypedRefuse
    <3>4. value.result = Raw
      <4>1. ~(RowOf(Top.op).call = "wraps" /\ RowOf(Top.op).shape # "any")
        BY <1>1, <2>5, <3>2, WrapperFacts
      <4>2. Yields(Top.op, value.result)
        BY <1>1, <2>1, <2>5, <3>1 DEF StreamInv, Told
      <4> QED
        BY <4>1, <4>2 DEF Yields
    <3>5. Refused
      BY <1>1, <2>5, <2>6, <2>8, <3>2, <3>3, <3>4, TypedStreams DEF Refused, Fitting
    <3>6. value'.kind = "value_error"
      BY <2>5, <2>8 DEF Error, Outcome
    <3>7. Shown'
      BY <1>1, <3>5, <3>6, SameShown DEF Shown
    <3> QED
      BY <1>1, <3>6, <3>7 DEF Far
  <2> QED
    BY <2>7, <2>8
<1> QED
  BY <1>2, <1>3

\* Every step keeps the invariant.
LEMMA FarStep ==
    ASSUME DeadlineInv, ContentInv, StreamInv, Far, [Next]_vars
    PROVE  Far'
<1>1. CASE Tick \/ UNCHANGED vars
  <2>1. UNCHANGED <<call, row, pc, part, value>>
    BY <1>1 DEF Tick, vars, program, scope, body
  <2> QED
    BY <2>1, SameShown DEF Far
<1>2. CASE Return
  BY <1>2 DEF Return, Far
<1>3. ASSUME NEW c \in Calls, Invoke(c) PROVE Far'
  <2>1. /\ pc = "idle" /\ pc' = "enter" /\ UNCHANGED <<part, value>>
        /\ part = 1 /\ value = Pending
    BY <1>3 DEF Invoke, body, DeadlineInv, Control, StreamInv, Taken
  <2>2. value'.kind = "pending"
    BY <2>1 DEF Pending, Outcome
  <2> QED
    BY <2>1, <2>2 DEF Far
<1>4. CASE Retry
  <2>1. pc' = "enter" /\ part' = 1 /\ value' = Pending
    BY <1>4 DEF Retry, ToNode
  <2>2. value'.kind = "pending"
    BY <2>1 DEF Pending, Outcome
  <2> QED
    BY <2>1, <2>2 DEF Far
<1>5. ASSUME row.call # "stream",
             \/ \E kind \in {"cancelled", "value_error"} : Refuse(kind)
             \/ \E found \in BOOLEAN : Ready(found)
             \/ NotReady \/ Build \/ Send \/ RpcExpires
             \/ \E kind \in {"unavailable", "precondition", "other"} : RpcFails(kind)
             \/ UnaryReply \/ ChunkReply \/ Batch \/ StreamEnds \/ TaskCancelled
             \/ Enter \/ Leave
      PROVE  Far'
  <2>1. UNCHANGED row
    BY <1>5 DEF Refuse, Ready, NotReady, Build, Send, RpcExpires, RpcFails, UnaryReply,
       ChunkReply, Batch, StreamEnds, TaskCancelled, Failed, scope, Enter, Leave
  <2> QED
    BY <1>5, <2>1 DEF Far
<1> QED
  BY <1>1, <1>2, <1>3, <1>4, <1>5, FarBody, FarEnter, FarLeave DEF Next, ClientStep

\* It holds before the first call.
LEMMA FarInit == Init => Far
  BY DEF Init, Far

\* A container that a typed method is for, and that has not begun with an empty batch, is
\* never refused.
LEMMA RefusedWhy ==
    ASSUME call \in Calls, Refused
    PROVE  call.container # Promised[call.op] \/ LateStart
<1> SUFFICES ASSUME call.container = Promised[call.op], ~LateStart PROVE FALSE
  OBVIOUS
<1>1. /\ RowOf(call.op).shape = ShapeOf(call.container)
      /\ RowOf(call.op).class = ClassOf(call.container)
  BY TypedStreams DEF Refused
<1>2. Whole # <<>> /\ Raw = Read
  BY RawIsWhole DEF Refused
<1>3. Raw.shape = ShapeOf(call.container)
  BY <1>2 DEF Read
<1>4. \A j \in DOMAIN Raw.items : Raw.items[j].class = ClassOf(call.container)
  <2>1. PICK S : Raw.items \in Seq(S)
    BY RawIsWhole
  <2>2. DOMAIN Raw.items = 1..Len(Raw.items)
    BY <2>1
  <2> QED
    BY <2>2, RawIsWhole
<1> QED
  BY <1>1, <1>3, <1>4 DEF Refused, Fitting, OfClass

\* The invariants say what StreamHonest says of a stream that has ended.
LEMMA StreamIsHonest == DeadlineInv /\ StreamInv /\ Far => StreamHonest
<1> SUFFICES ASSUME DeadlineInv, StreamInv, Far PROVE StreamHonest
  OBVIOUS
<1> DEFINE typed == call.op \in DOMAIN Promised
           mine == Promised[call.op]
           result == value.result
<1>1. ASSUME pc = "done", value.kind = "ok", row.call = "stream"
      PROVE  /\ IF Whole = <<>> THEN result.items = <<>> ELSE result = Read
             /\ typed => /\ result.shape = ShapeOf(mine)
                         /\ Whole # <<>> => ClassOf(call.container) = ClassOf(mine)
  <2>1. call \in Calls /\ frames = <<>>
    BY <1>1 DEF DeadlineInv, Control
  <2>2. Yields(call.op, result)
    BY <1>1, <2>1 DEF StreamInv, Told
  <2>3. /\ typed <=> RowOf(call.op).call = "wraps" /\ RowOf(call.op).shape # "any"
        /\ typed => /\ RowOf(call.op).shape = ShapeOf(mine)
                    /\ RowOf(call.op).class = ClassOf(mine)
    BY <2>1, TypedStreams
  <2>4. CASE Whole = <<>>
    <3>1. Raw.items = <<>> /\ Raw = [shape |-> Raw.shape, items |-> Raw.items]
      BY <2>1, <2>4, RawIsWhole
    <3>2. IF typed THEN result = [Raw EXCEPT !.shape = ShapeOf(mine)] ELSE result = Raw
      BY <2>2, <2>3, <3>1 DEF Yields, Checked
    <3> QED
      BY <2>4, <3>1, <3>2
  <2>5. CASE Whole # <<>>
    <3>1. /\ Raw.items # <<>> /\ Raw = Read
          /\ DOMAIN Raw.items = 1..Len(Raw.items) /\ 1 \in 1..Len(Raw.items)
          /\ Raw.items[1].class = ClassOf(call.container)
      <4>1. PICK S : Raw.items \in Seq(S)
        BY <2>1, RawIsWhole
      <4>2. Raw.items # <<>> /\ Raw = Read
        BY <2>1, <2>5, RawIsWhole
      <4>3. Len(Raw.items) \in Nat \ {0} /\ DOMAIN Raw.items = 1..Len(Raw.items)
        BY <4>1, <4>2, EmptySeq, LenProperties
      <4>4. 1 \in 1..Len(Raw.items)
        BY <4>3
      <4> QED
        BY <2>1, <4>2, <4>3, <4>4, RawIsWhole
    <3>2. result = Raw
      BY <2>2, <3>1 DEF Yields, Checked
    <3>3. typed => /\ Raw.shape = ShapeOf(mine)
                   /\ OfClass(Raw.items, ClassOf(mine))
      BY <2>2, <2>3, <3>1 DEF Yields, Checked
    <3>4. typed => ClassOf(call.container) = ClassOf(mine)
      BY <3>1, <3>3 DEF OfClass
    <3> QED
      BY <2>5, <3>1, <3>2, <3>3, <3>4
  <2> QED
    BY <2>4, <2>5
<1>2. ASSUME pc = "done", part > 1, row.call = "stream"
      PROVE  \/ value.kind \in {"ok", "partial", "task_cancelled"}
             \/ /\ value.kind = "value_error"
                /\ \/ call.client = "async" /\ call.key.raw > MaxDecoded
                   \/ /\ typed /\ part > Len(call.batches)
                      /\ call.container # mine \/ LateStart
  <2>1. call \in Calls /\ part # 1
    BY <1>2 DEF DeadlineInv, Control
  <2>2. Shown
    BY <1>2, <2>1 DEF Far
  <2>3. Refused => /\ typed /\ part > Len(call.batches)
                   /\ call.container # mine \/ LateStart
    BY <2>1, RefusedWhy DEF Refused
  <2> QED
    BY <2>2, <2>3 DEF Shown, Unnamed
<1>3. ASSUME value.kind = "partial", row.call = "stream", pc # "idle"
      PROVE  /\ value.chunks = part - 1 /\ value.chunks \in 1..Len(call.batches)
             /\ value.items = Before(part) /\ Len(result.items) = value.items
             /\ \A j \in DOMAIN result.items : result.items[j].item = j
  <2>1. /\ value.chunks \in 1..Len(call.batches)
        /\ value.items = Before(value.chunks + 1)
        /\ value.result = Gotten(value.chunks + 1)
        /\ value.chunks = part - 1 /\ part \in 1..(Len(call.batches) + 1)
    BY <1>3 DEF StreamInv, Told, Taken, Far
  <2>2. call \in Calls
    BY <1>3 DEF DeadlineInv, Control
  <2> DEFINE n == Before(part)
             s == value.result.items
  <2>3. Len(call.batches) \in Nat
    BY <2>2, StreamTypes
  <2>4. value.chunks + 1 = part
    BY <2>1, <2>3
  <2>5. s = Items(0, n, KeptAs) /\ value.items = n
    BY <2>1, <2>4 DEF Gotten
  <2>6. n \in Nat /\ n - 0 = n /\ 0 <= n
    BY <2>1, <2>2, StreamTypes
  <2>7. DOMAIN s = 1..n /\ \A j \in 1..n : s[j].item = 0 + j
    BY <2>5, <2>6 DEF Items
  <2>8. Len(s) = n
    <3> HIDE DEF n
    <3>1. 0 \in Nat /\ Len(Items(0, n, KeptAs)) = n - 0
      BY <2>6, ItemsAre
    <3> QED
      BY <2>5, <2>6, <3>1
  <2> QED
    BY <2>1, <2>5, <2>6, <2>7, <2>8
<1>4. pc = "idle" => value.kind = "pending"
  BY DEF DeadlineInv, Control, Pending, Outcome
<1> QED
  BY <1>1, <1>2, <1>3, <1>4 DEF StreamHonest

\* For every container, every way to cut it into batches, every failure and every method:
\* a stream that ends well has returned all elements, or all keys of a map that began
\* with an empty batch, and through a typed method in its representation and of its class;
\* one that fails after its first batch says how far it came and holds just that, unless
\* its task is cancelled, its key is beyond the decoding limit or its method refuses it.
THEOREM StreamsAreHonest == Spec => []StreamHonest
<1> QED
  BY DeadlineInit, DeadlineStep, ContentInit, ContentStep, StreamInit, StreamStep, FarInit,
     FarStep, StreamIsHonest, PTL DEF Spec
=============================================================================
