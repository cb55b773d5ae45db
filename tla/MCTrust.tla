------------------------------ MODULE MCTrust -------------------------------
EXTENDS Trust, MCWire

CONSTANT c1

MCWidth == [Inet |-> 2, Inet6 |-> 3]
Addrs(family) == {[family |-> family, value |-> v] : v \in 0..(2 ^ MCWidth[family] - 1)}
MCPeerIps == Addrs("Inet") \cup Addrs("Inet6")

\* Every IPv4 network, host bits included, and the IPv6 networks of two addresses.
MCNets ==
  [addr : Addrs("Inet"), prefix_len : 0..2]
    \cup [addr : {a \in Addrs("Inet6") : a.value \in {2, 5}}, prefix_len : {1, 2, 3}]
MCLists ==
  [addrs : {<<>>}, nets : {<<>>} \cup {<<n>> : n \in MCNets}]
    \cup [addrs : {<<>>}, nets : {<<n, m>> : n \in MCNets, m \in {k \in MCNets : k.addr.value = 2 /\ k.prefix_len = 1}}]
    \cup [addrs : {<<a>> : a \in MCPeerIps}, nets : {<<>>} \cup {<<n>> : n \in {k \in MCNets : k.prefix_len = 1 /\ k.addr.value = 2}}]

MCStreams == {<<13, 10, 33, 17, 0, 6, 3, 4, 0, 1, 0, 2, 7, 8>>, <<7, 8>>}
AnyPolicy == [c \in Conns |-> {"Require", "Use", "Ignore", "Reject"}]
=============================================================================
