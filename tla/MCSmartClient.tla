--------------------------- MODULE MCSmartClient ----------------------------
(***************************************************************************)
(* Small instances of SmartClient for TLC.                                 *)
(***************************************************************************)
EXTENDS SmartClient, Scenarios, TLC

\* Weak hashes outside 0..HashModulus-1 on both sides.
WideHints == {-3, 6}

\* Threads of a kind are alike.
Alike == Permutations(Callers) \cup Permutations(Closers)
=============================================================================
