---------------------------- MODULE MCWGPoller ----------------------------
(***************************************************************************)
(* Small instances of WGPoller for TLC.                                    *)
(***************************************************************************)
EXTENDS WGPoller

CONSTANTS p1, n1

OneName == [k \in Peer |-> n1]

\* Every statement that a later poll repeats may fail and be rolled back.
RetriedFails ==
    {"apply", "close", "save", "trailing", "closeByName", "upsert"}
=============================================================================
