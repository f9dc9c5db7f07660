----------------------------- MODULE MCBatching -----------------------------
(***************************************************************************)
(* Small requests for Batching: up to MaxItems items of the sizes in       *)
(* ItemSizes, with and without a position close to the limit.              *)
(***************************************************************************)
EXTENDS Batching

CONSTANTS MaxItems, ItemSizes, Headers, Reserves, Positions

Upto(sizes) ==
    LET sum[i \in 0..Len(sizes)] == IF i = 0 THEN 0 ELSE sum[i - 1] + sizes[i] IN sum

SmallRequests ==
    {[length |-> Len(sizes), upto |-> Upto(sizes), header |-> h, reserve |-> r,
      pos |-> p, after |-> a] :
        sizes \in BoundedSeq(ItemSizes, MaxItems),
        h \in Headers, r \in Reserves, p \in Positions, a \in BOOLEAN}

=============================================================================
