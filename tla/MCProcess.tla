----------------------------- MODULE MCProcess ------------------------------
(***************************************************************************)
(* A small instance of Process, with the shortest lookback that bridges    *)
(* the failures.                                                           *)
(***************************************************************************)
EXTENDS ProcessProps

MCLookback == LookbackNeeded

=============================================================================
