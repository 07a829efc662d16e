------------------------------ MODULE PeerConf ------------------------------
(***************************************************************************)
(* The one parser of wg0.conf, ParseConfFile of internal/wireguard/        *)
(* conf.go, and what its comment says a peer is called.                    *)
(*                                                                         *)
(* A file is a sequence of the lines the parser tells apart.  The three    *)
(* conventions of a name comment are one kind of line.                     *)
(***************************************************************************)
EXTENDS Integers, Sequences, FiniteSets, SequencesExt

CONSTANTS
    Name,        \* client names
    Key,         \* public keys
    Addr,        \* VPN addresses
    FallbackOf,  \* fallbackName: the name derived from a key
    NoName, NoKey

ASSUME FallbackAssumption == FallbackOf \in [Key -> Name]
ASSUME NoneAssumption == NoName \notin Name /\ NoKey \notin Key

Comment(n)    == [kind |-> "comment", name |-> n]
Header        == [kind |-> "peer"]
PublicKey(k)  == [kind |-> "key", key |-> k]
AllowedIPs(s) == [kind |-> "ips", ips |-> s]
Interface     == [kind |-> "interface"]

Line == {Comment(n) : n \in Name} \cup {PublicKey(k) : k \in Key}
            \cup {AllowedIPs(s) : s \in SUBSET Addr} \cup {Header, Interface}

-----------------------------------------------------------------------------
(***************************************************************************)
(* The parser: the block being read, the name comment that waits for the   *)
(* next header, and the peers so far.                                      *)
(***************************************************************************)
Peer == [name : Name, key : Key, ips : SUBSET Addr]

NewBlock(n) == [name |-> n, key |-> NoKey, ips |-> {}]

Begun == [open |-> FALSE, block |-> NewBlock(NoName), pending |-> NoName, peers |-> <<>>]

\* A block without a name gets one from its key; one without a key is lost.
flush(s) ==
    LET b == s.block IN
    IF s.open /\ b.key # NoKey
    THEN Append(s.peers, [b EXCEPT !.name = IF @ = NoName THEN FallbackOf[b.key] ELSE @])
    ELSE s.peers

\* A mutated form: a comment names the next header, wherever it stands.
NameNext(s, n) == [s EXCEPT !.pending = n]

\* A comment names the block it is in, if that has no name yet, and
\* otherwise the next header.
setPeerName(s, n) ==
    IF s.open /\ s.block.name = NoName THEN [s EXCEPT !.block.name = n]
                                       ELSE [s EXCEPT !.pending = n]

ReadLine(s, line) ==
    CASE line.kind = "comment" -> setPeerName(s, line.name)
      [] line.kind = "peer" ->
           [open |-> TRUE, block |-> NewBlock(s.pending), pending |-> NoName, peers |-> flush(s)]
      [] line.kind = "interface" ->
           [s EXCEPT !.open = FALSE, !.pending = NoName, !.peers = flush(s)]
      [] line.kind = "key" -> IF s.open THEN [s EXCEPT !.block.key = line.key] ELSE s
      [] line.kind = "ips" -> IF s.open THEN [s EXCEPT !.block.ips = @ \cup line.ips] ELSE s

\* The parser after each of a file's lines.
Parsed(file) ==
    LET state[i \in 0 .. Len(file)] ==
            IF i = 0 THEN Begun ELSE ReadLine(state[i - 1], file[i])
    IN  state

\* ParseConfFile: the peers of a file, in its order.
ParsePeers(file) == flush(Parsed(file)[Len(file)])

-----------------------------------------------------------------------------
(***************************************************************************)
(* What the comment of ParseConfFile promises: "A name comment before a    *)
(* [Peer] header names that peer; one inside the block names it too (first *)
(* one wins)", and a peer without either has the fallback.                 *)
(***************************************************************************)
IsHeader(file, i)  == file[i].kind \in {"peer", "interface"}
IsComment(file, i) == file[i].kind = "comment"

\* The comments directly before a header.
Before(file, i) == {j \in 1 .. (i - 1) : \A m \in j .. (i - 1) : IsComment(file, m)}

\* The lines from a header to the next one.
Block(file, i) ==
    {j \in (i + 1) .. Len(file) : \A m \in (i + 1) .. j : ~IsHeader(file, m)}

\* The comments of a block that do not stand before the next header.
Inside(file, i) ==
    {j \in Block(file, i) :
        /\ IsComment(file, j)
        /\ \A h \in (i + 1) .. Len(file) : IsHeader(file, h) => j \notin Before(file, h)}

Naming(file, i) == Before(file, i) \cup Inside(file, i)

\* The name the comments give to the peer whose header is line i.
CommentedName(file, i, k) ==
    IF Naming(file, i) = {} THEN FallbackOf[k]
    ELSE file[CHOOSE j \in Naming(file, i) : \A m \in Naming(file, i) : j <= m].name

\* The headers of the blocks that carry this key.
HeadersOf(file, k) ==
    {i \in DOMAIN file : /\ file[i].kind = "peer"
                         /\ \E j \in Block(file, i) : file[j] = PublicKey(k)}

\* A file as the installers write it: every comment names one peer, no peer is
\* named twice, and a peer without a name has no comment in its block, nor one
\* above the header below, for the parser to take.
Tidy(file) ==
    /\ \A i \in DOMAIN file : file[i].kind = "peer" =>
          /\ \A j, m \in Naming(file, i) : j = m
          /\ Naming(file, i) = {} => \A j \in Block(file, i) : ~IsComment(file, j)
    /\ \A j \in DOMAIN file : IsComment(file, j) =>
          \E i \in DOMAIN file : file[i].kind = "peer" /\ j \in Naming(file, i)
=============================================================================
