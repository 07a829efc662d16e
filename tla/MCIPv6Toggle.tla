--------------------------- MODULE MCIPv6Toggle ---------------------------
(***************************************************************************)
(* Small instances of IPv6Toggle for TLC.                                  *)
(***************************************************************************)
EXTENDS IPv6Toggle

On(k)  == [kind |-> k, on |-> TRUE]
Off(k) == [kind |-> k, on |-> FALSE]

\* As installed today; as installed by older scripts, without the REJECT
\* lines; with both lines of a hook active; and without a second hook.
WireGuardFiles ==
    { <<On("key"), On("upAccept"), Off("upReject"),
        On("downAccept"), Off("downReject"), On("peer")>>,
      <<On("upAccept"), On("key"), On("downAccept"), On("peer")>>,
      <<On("key"), On("upReject"), On("upAccept"), Off("downAccept")>>,
      <<On("upAccept"), On("peer")>> }

\* The premise of ToldInForce.
ASSUME OneEachInstance == \A f \in WireGuardFiles : OneEach(f)

\* All directives active, some, and none there.
OpenVPNFiles ==
    { <<On("key"), On("directive"), On("directive")>>,
      <<Off("directive"), On("key"), On("directive")>>,
      <<On("key")>> }

AllFiles == [wireguard |-> WireGuardFiles, openvpn |-> OpenVPNFiles]
=============================================================================
