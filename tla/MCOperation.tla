---------------------------- MODULE MCOperation -----------------------------
(***************************************************************************)
(* The calls of Operation for TLC: every operation of both clients, and    *)
(* for a few of them every timeout, every TTL, every payload and every way *)
(* to cut a stream.                                                        *)
(***************************************************************************)
EXTENDS Operation

\* What a writer with threshold t stores.
Written(raw, gz, t) == [message |-> Encoded(raw, gz, t), written |-> raw]
Plain == Written(1, 1, DefaultThreshold)
SmallKey == [raw |-> 1, gz |-> 1]
TakesTtl(client, op) == Resolved(client, op).ttl \notin {"none", "lock"}

Call(client, smart, op, timeout, ttl) ==
    [client |-> client, smart |-> smart, op |-> op, timeout |-> timeout, ttl |-> ttl,
     parts |-> 2, key |-> SmallKey, lock |-> 0, answer |-> Plain,
     container |-> "list", batches |-> <<[upto |-> 1, paired |-> TRUE]>>]

\* All operations, directly, with a timeout and a TTL.
EveryOperation ==
    UNION {{Call(client, FALSE, op, Omitted, IF TakesTtl(client, op) THEN 2 ELSE Omitted) :
                op \in DOMAIN Rows(client)} : client \in {"sync", "async"}}

\* A wrapper and what it wraps, one RPC or several: all timeouts and TTLs.
Timings ==
    {Call(client, smart, op, timeout, ttl) :
        client \in {"sync", "async"}, smart \in BOOLEAN,
        op \in {"set_ttl", "create_map", "add_element_hash_map"},
        timeout \in {Omitted, None, 0, Invalid}, ttl \in {2}}
    \cup {Call(client, FALSE, op, 1, ttl) :
            client \in {"sync", "async"}, op \in {"set_ttl", "create_map", "create_list", "add_element"},
            ttl \in {Omitted, None, 0, Invalid}}

Streams ==
    {[Call(client, smart, "stream_element_in_range_ordered", timeout, Omitted) EXCEPT
        !.container = "ordered_set", !.batches = <<[upto |-> 1, paired |-> TRUE],
                                                   [upto |-> 2, paired |-> TRUE]>>] :
        client \in {"sync", "async"}, smart \in BOOLEAN, timeout \in {Omitted, None, 1}}

Locks ==
    {[Call(client, FALSE, "lock_object", Omitted, Omitted) EXCEPT !.lock = duration] :
        client \in {"sync", "async"}, duration \in {0, 1, 2, 5, 99, Invalid}}

\* Sizes around the thresholds and the decoding limit, and damaged answers.
Sizes == {0, 1, 2, 3, MaxDecoded, MaxDecoded + 1}
Answers ==
    {Written(raw, 2, t) : raw \in Sizes, t \in {0, 1, 1024}}
    \cup {[message |-> None, written |-> None]}
    \cup {[message |-> [bytes |-> 2, size |-> size, enabled |-> enabled, rawSize |-> rawSize,
                        expands |-> expands], written |-> None] :
            size \in {1, 2}, enabled \in BOOLEAN, rawSize \in {None, 0, 2}, expands \in {None, 1, 3}}

Payloads ==
    {[Call("sync", FALSE, op, Omitted, Omitted) EXCEPT !.answer = answer] :
        op \in {"get_value", "update_value"}, answer \in Answers}
    \cup {[Call(client, FALSE, op, Omitted, Omitted) EXCEPT !.key = [raw |-> raw, gz |-> 2],
             !.batches = <<[upto |-> 1, paired |-> TRUE]>>] :
            client \in {"sync", "async"}, op \in {"get_value", "get_container", "create_list"},
            raw \in Sizes}

\* Up to three batches of no or one element, unpaired ones among them.
Grows(cut, i) == cut[i].upto - (IF i = 1 THEN 0 ELSE cut[i - 1].upto)
Cuts ==
    {cut \in UNION {[1..n -> [upto : 0..n, paired : BOOLEAN]] : n \in 0..3} :
        \A i \in DOMAIN cut : Grows(cut, i) \in {0, 1} /\ (Grows(cut, i) = 0 => cut[i].paired)}
Streamed ==
    {[Call(client[1], FALSE, client[2], Omitted, Omitted) EXCEPT !.container = kind, !.batches = cut] :
        client \in {<<"sync", "get_container">>, <<"sync", "stream_list">>,
                    <<"sync", "stream_map">>, <<"sync", "stream_ordered_map">>,
                    <<"sync", "stream_element_in_range_ordered_map">>,
                    <<"async", "stream_set">>, <<"async", "stream_map">>,
                    <<"async", "stream_ordered_set">>},
        kind \in {"list", "ordered_set", "map", "ordered_map"},
        cut \in Cuts}
\* Only maps have pairs to break.
Sensible == {c \in Streamed :
                IsMap(c.container) \/ \A i \in DOMAIN c.batches : c.batches[i].paired}

MCCalls == EveryOperation \cup Timings \cup Streams \cup Locks \cup Payloads \cup Sensible
=============================================================================
