---------------------------- MODULE MCDirectory ----------------------------
(***************************************************************************)
(* Small instances of Directory for TLC.                                   *)
(***************************************************************************)
EXTENDS Directory

CONSTANTS n1, n2, k1, k2, a1

\* A name comment before the header and one inside the block, and the other
\* way round with the address moved; and the first of the two peers alone and
\* without a comment, so that it is renamed.
Commented ==
    { <<Interface, Comment(n1), Header, PublicKey(k1), AllowedIPs({a1}),
        Header, Comment(n2), PublicKey(k2)>>,
      <<Interface, Header, AllowedIPs({a1}), PublicKey(k1), Header>>,
      <<Interface, Header, Comment(n1), PublicKey(k1),
        Comment(n2), Header, PublicKey(k2), AllowedIPs({a1})>> }

\* A peer without a comment before one that has one, and a comment inside a
\* block that has one before it already.
Uneven ==
    { <<Interface, Header, PublicKey(k1), AllowedIPs({a1}),
        Comment(n1), Header, PublicKey(k2)>>,
      <<Interface, Comment(n2), Header, Comment(n1), PublicKey(k1),
        Header, PublicKey(k2)>> }

\* The premise of PeersAsCommented holds of the former and not of the latter.
ASSUME TidyInstance ==
    (\A t \in Commented : Tidy(t)) /\ (\A t \in Uneven : ~Tidy(t))

Pools == {<<>>, << <<n2, a1>> >>}

Issued == {{}, {n2}}

SecondName == [k \in Key |-> n2]
=============================================================================
