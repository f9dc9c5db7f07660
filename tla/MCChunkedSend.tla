--------------------------- MODULE MCChunkedSend ----------------------------
(***************************************************************************)
(* Small collection operations for ChunkedSend: up to MaxItems items,      *)
(* every form and every place to insert at.                                *)
(***************************************************************************)
EXTENDS ChunkedSend

CONSTANTS MaxItems, ItemSizes, Continuations

Upto(sizes) ==
    LET sum[i \in 0..Len(sizes)] == IF i = 0 THEN 0 ELSE sum[i - 1] + sizes[i] IN sum

Additions ==
    {[length |-> Len(sizes), upto |-> Upto(sizes), header |-> 2, reserve |-> 0,
      pos |-> IF op = "position" THEN pos ELSE NoPos, after |-> (op = "after"),
      form |-> form, op |-> op, continuation |-> 0] :
        sizes \in BoundedSeq(ItemSizes, MaxItems), form \in {"boolean", "count"},
        op \in {"tail", "head", "before", "after", "position"}, pos \in {0, 1, MaxPos}}

Creations ==
    {[length |-> Len(sizes), upto |-> Upto(sizes), header |-> 1, reserve |-> 2,
      pos |-> NoPos, after |-> FALSE, form |-> form, op |-> "tail",
      continuation |-> c] :
        sizes \in BoundedSeq(ItemSizes, MaxItems), form \in {"create_list", "create_set"},
        c \in Continuations}

Operations == Additions \cup Creations
=============================================================================
