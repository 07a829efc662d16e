---------------------------- MODULE MCStatsHub ----------------------------
(***************************************************************************)
(* A small instance of StatsHub for TLC.                                   *)
(***************************************************************************)
EXTENDS StatsHub

CONSTANTS c1, c2
=============================================================================
