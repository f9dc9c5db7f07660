------------------------------ MODULE Batching ------------------------------
(***************************************************************************)
(* plan() of hurricache/grpc/batching.py: how one request with a long      *)
(* repeated field is cut into requests the server accepts.                 *)
(*                                                                         *)
(* A request is a record                                                   *)
(*   length   number of items (values, or key/value pairs)                 *)
(*   upto     upto[i] is the encoded size of the first i items: protobuf   *)
(*            encodes a repeated field item by item, so sizes add up       *)
(*   header   encoded size of everything else, position excluded           *)
(*   reserve  what the largest key hint adds to it (0 unless creation)     *)
(*   pos      the insertion position, NoPos when the field is absent       *)
(*   after    AddToValRequest with isBefore false: insertion after a value *)
(* and a chunk is the pair <<start, end>> of the slice items[start:end].   *)
(***************************************************************************)
EXTENDS Integers, Sequences, SequencesExt, FiniteSets

CONSTANTS
    Requests,       \* the requests to plan for
    MaxRpcSize,     \* MAX_RPC_SIZE
    MaxPos,         \* 0xFFFFFFFF: the largest position, and "at the end"
    VarintLimits,   \* {2^7, 2^14, 2^21, 2^28}: where a position takes one byte more
    NoPos           \* no position

RequestType(r) ==
    /\ r.length \in Nat
    /\ r.upto \in [0..r.length -> Nat]
    /\ \A i, j \in 0..r.length : i < j => r.upto[i] < r.upto[j]
    /\ r.header \in Nat /\ r.reserve \in Nat
    /\ r.pos \in 0..MaxPos \cup {NoPos}
    /\ r.after \in BOOLEAN

ASSUME SizeAssumption ==
    /\ MaxRpcSize \in Nat /\ MaxPos \in Nat /\ NoPos \notin Int
    /\ VarintLimits \subseteq Nat /\ IsFiniteSet(VarintLimits)
ASSUME RequestAssumption == \A r \in Requests : RequestType(r)

VARIABLES
    request,
    phase,                  \* where in plan() the thread is
    index,                  \* the preflight loop
    start, lo, hi,          \* the greedy loop and its binary search
    chunks

plan_vars == <<request, phase, index, start, lo, hi, chunks>>

PlanInit ==
    /\ request \in Requests
    /\ phase = "header"
    /\ index = 0 /\ start = 0 /\ lo = 0 /\ hi = 0
    /\ chunks = <<>>

-----------------------------------------------------------------------------
(* build(start, end) and its ByteSize.                                     *)

\* The sentinel means "at the end" and is not moved along with the chunks.
Positioned == request.pos # NoPos /\ request.pos # MaxPos

\* Mutant: the position of the first item is checked instead of the last.
PositionOverflow_First(from, to) == Positioned /\ request.pos + from > MaxPos

\* "insertion position exceeds uint32"
PositionOverflow(from, to) == Positioned /\ request.pos + to > MaxPos

\* Mutant: all chunks go to the position of the first.
PositionOf_Fixed(from) == request.pos

\* The position a chunk is sent with.
PositionOf(from) == IF Positioned THEN request.pos + from ELSE request.pos

\* Tag and varint, of one to five bytes.
PositionBytes(from) ==
    IF request.pos = NoPos THEN 0
    ELSE 2 + Cardinality({limit \in VarintLimits : limit <= PositionOf(from)})

\* ByteSize of build(from, to): with the reserve, and as it is sent.
Reserved(from, to) ==
    request.header + request.reserve + PositionBytes(from)
        + (request.upto[to] - request.upto[from])

Bytes(from, to) == Reserved(from, to) - request.reserve

Fits(from, to) == Reserved(from, to) <= MaxRpcSize

-----------------------------------------------------------------------------
(* plan(), one action per size computed: each of them may find that the    *)
(* operation's deadline has passed (remaining() in check and in the loop). *)

Reject ==
    /\ phase' = "rejected"
    /\ UNCHANGED <<request, index, start, lo, hi, chunks>>

\* Mutant: the header alone is looked at.
Acceptable_Header(from, to) == from = to => Fits(from, to)

\* check(build(from, to)) raises nothing.
Acceptable(from, to) == ~PositionOverflow(from, to) /\ Fits(from, to)

\* check(build(0, 0))
CheckHeader ==
    /\ phase = "header"
    /\ IF Acceptable(0, 0)
         THEN phase' = "items" /\ UNCHANGED <<request, index, start, lo, hi, chunks>>
         ELSE Reject

\* for index in range(len(items)): check(build(index, index + 1))
CheckItem ==
    /\ phase = "items" /\ index < request.length
    /\ IF Acceptable(index, index + 1)
         THEN index' = index + 1 /\ UNCHANGED <<request, phase, start, lo, hi, chunks>>
         ELSE Reject

\* Mutant: the last item is not checked.
StartCutting_Early ==
    /\ phase = "items" /\ index >= request.length - 1
    /\ phase' = "cut"
    /\ UNCHANGED <<request, index, start, lo, hi, chunks>>

StartCutting ==
    /\ phase = "items" /\ index = request.length
    /\ phase' = "cut"
    /\ UNCHANGED <<request, index, start, lo, hi, chunks>>

\* One round of "while start < len(items)" begins.
Cut ==
    /\ phase = "cut" /\ start < request.length
    /\ phase' = "search"
    /\ lo' = start + 1 /\ hi' = request.length
    /\ UNCHANGED <<request, index, start, chunks>>

\* Mutant: rounded down, as a search for the first would do.
Middle_Down == (lo + hi) \div 2

Middle == (lo + hi + 1) \div 2

\* Mutant: the first end that is too far ends the search.
Narrow_GiveUp == IF Fits(start, Middle) THEN lo' = Middle /\ hi' = hi
                                        ELSE lo' = lo /\ hi' = lo

\* Halve the range of ends; what fits moves lo, what does not moves hi.
Narrow == IF Fits(start, Middle) THEN lo' = Middle /\ hi' = hi
                                 ELSE lo' = lo /\ hi' = Middle - 1

Probe ==
    /\ phase = "search" /\ lo < hi
    /\ IF PositionOverflow(start, Middle)
         THEN Reject
         ELSE Narrow /\ UNCHANGED <<request, phase, index, start, chunks>>

\* chunks.append((build(start, lo, False), lo - start)); start = lo
Emit ==
    /\ phase = "search" /\ lo >= hi
    /\ chunks' = Append(chunks, <<start, lo>>)
    /\ start' = lo
    /\ phase' = "cut"
    /\ UNCHANGED <<request, index, lo, hi>>

\* Mutant: insertion after a value keeps the order of the items.
InSendOrder_Forward(cs) == cs

\* Chunks inserted after a value go last chunk first.
InSendOrder(cs) == IF request.after THEN Reverse(cs) ELSE cs

\* An empty request is one empty chunk.
Planned ==
    /\ phase = "cut" /\ start >= request.length
    /\ phase' = "planned"
    /\ chunks' = InSendOrder(IF chunks = <<>> THEN <<<<0, 0>>>> ELSE chunks)
    /\ UNCHANGED <<request, index, start, lo, hi>>

\* remaining() raises DeadlineExceededError.
PlanExpires ==
    /\ \/ phase = "header"
       \/ phase = "items" /\ index < request.length
       \/ phase = "cut" /\ start < request.length
    /\ phase' = "expired"
    /\ UNCHANGED <<request, index, start, lo, hi, chunks>>

PlanStep ==
    \/ CheckHeader \/ CheckItem \/ StartCutting \/ Cut \/ Probe \/ Emit \/ Planned
    \/ PlanExpires

PlanSpec == PlanInit /\ [][PlanStep]_plan_vars

\* One thread computes; nothing it waits for.
FairPlanSpec == PlanSpec /\ WF_plan_vars(PlanStep)

-----------------------------------------------------------------------------
(* Properties.                                                             *)

\* Every variable of plan() has its type, and the search stays in the list.
PlanTypeOK ==
    /\ request \in Requests
    /\ phase \in {"header", "items", "cut", "search", "planned", "rejected", "expired"}
    /\ index \in 0..request.length
    /\ start \in 0..request.length /\ lo \in 0..request.length /\ hi \in 0..request.length
    /\ chunks \in Seq((0..request.length) \X (0..request.length))

\* Every chunk is small enough to be sent even with the largest key hint, although
\* the search never looks at its last answer again.
ChunksFit == \A i \in 1..Len(chunks) : Fits(chunks[i][1], chunks[i][2])

\* No chunk's position has run into the value that means "at the end".
PositionsStayPositions ==
    \A i \in 1..Len(chunks) :
        Positioned /\ chunks[i][1] < chunks[i][2] => PositionOf(chunks[i][1]) < MaxPos

\* The i-th chunk in the order of the items.
InOrder(i) == IF phase = "planned" /\ request.after THEN chunks[Len(chunks) + 1 - i]
                                                     ELSE chunks[i]

\* The chunks are adjacent and not empty, from the first item to start (to the
\* last item, in the end), so that no item is dropped or sent in two chunks.
ChunksPartition ==
    /\ chunks = <<>> => start = 0
    /\ chunks # <<>> =>
        /\ InOrder(1)[1] = 0 /\ InOrder(Len(chunks))[2] = start
        /\ request.length > 0 =>
              \A i \in 1..Len(chunks) : InOrder(i)[1] < InOrder(i)[2]
        /\ \A i \in 1..(Len(chunks) - 1) : InOrder(i)[2] = InOrder(i + 1)[1]
    /\ phase = "planned" => start = request.length /\ chunks # <<>>

\* A chunk ends only where the next item would not fit.
ChunksMaximal ==
    \A i \in 1..Len(chunks) :
        InOrder(i)[2] < request.length => ~Fits(InOrder(i)[1], InOrder(i)[2] + 1)

\* What the preflight guarantees, what it refuses, and that nothing after it
\* is refused: an error is raised before the first chunk exists.
SingleFits(i) == Acceptable(i, i + 1)

RejectedEarly ==
    /\ phase = "rejected" =>
          /\ chunks = <<>> /\ start = 0
          /\ Acceptable(0, 0) => \E i \in 0..(request.length - 1) : ~SingleFits(i)
    /\ phase = "planned" => \A i \in 0..(request.length - 1) : SingleFits(i)

\* The ends of the pieces when the items are cut at the positions in cuts.
PieceFits(cuts) ==
    \A a, b \in cuts \cup {0, request.length} :
        (a < b /\ ~\E c \in cuts : a < c /\ c < b) => Fits(a, b)

\* Reference: no other way to cut the items needs fewer requests.
FewestChunks ==
    (phase = "planned" /\ request.length > 0) =>
        \A cuts \in SUBSET (1..(request.length - 1)) :
            PieceFits(cuts) => Len(chunks) <= Cardinality(cuts) + 1

\* plan() ends.
PlanEnds == <>(phase \in {"planned", "rejected", "expired"})
=============================================================================
