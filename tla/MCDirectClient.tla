--------------------------- MODULE MCDirectClient ---------------------------
(***************************************************************************)
(* Threads of DirectClient for TLC.  Users are alike, and so are closers:  *)
(* no action and no invariant tells two of them apart.                     *)
(***************************************************************************)
EXTENDS DirectClient, TLC

Symmetry == Permutations(Users) \cup Permutations(Closers)
=============================================================================
