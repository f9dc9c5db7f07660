------------------------- MODULE MCAsyncSmartClient -------------------------
(***************************************************************************)
(* Small instances of AsyncSmartClient for TLC.                            *)
(***************************************************************************)
EXTENDS AsyncSmartClient, Scenarios
=============================================================================
