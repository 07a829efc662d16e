----------------------------- MODULE MCSettings -----------------------------
(***************************************************************************)
(* A small instance of Settings for TLC.                                   *)
(***************************************************************************)
EXTENDS Settings

CONSTANTS v0, v1, t1

\* A page that changes the address and leaves the password empty, one that
\* sets the address back and another field with it, the old form that empties the address and sets the password, and a page that
\* carries fields of another one.
SampleForms ==
    { [section |-> "general", body |-> [addr |-> v1, admin_pass |-> Empty]],
      [section |-> "general", body |-> [addr |-> v0, poll_interval |-> v1]],
      [section |-> "all", body |-> [addr |-> Empty, admin_pass |-> v1]],
      [section |-> "openvpn",
       body |-> [openvpn_status_log |-> v1, addr |-> v1, admin_pass |-> v1]] }

JustInstalled == [k \in Key |-> v0]
=============================================================================
