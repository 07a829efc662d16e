----------------------------- MODULE MCReaper -----------------------------
(***************************************************************************)
(* Model values for TLC.                                                   *)
(***************************************************************************)
EXTENDS Reaper

CONSTANTS a, b
=============================================================================
