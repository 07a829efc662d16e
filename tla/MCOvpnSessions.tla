--------------------------- MODULE MCOvpnSessions ---------------------------
(***************************************************************************)
(* Small instances of OvpnSessions for TLC.                                *)
(***************************************************************************)
EXTENDS OvpnSessions, TLC

CONSTANTS n1, n2, k1, k2

\* Nothing tells one connection identity from another.
KeySymmetry == Permutations(Key)
=============================================================================
