----------------------------- MODULE MCListener -----------------------------
EXTENDS Listener, MCWire

CONSTANTS c1, c2, c3

\* What peers send: a header, then application octets 7, 8.
V2Local == <<13, 10, 32, 0, 0, 0>>
V2Inet == <<13, 10, 33, 17, 0, 6, 3, 4, 0, 1, 0, 2>>
V2Unix == <<13, 10, 33, 49, 0, 4, 47, 0, 47, 0>>
V1Unknown == <<80, 82, 32, 85, 13, 10>>
V1Inet == WPrefix \o WTcp4 \o <<32, 46, 51, 32, 46, 52, 32, 49, 32, 50, 13, 10>>
Headers == {V2Local, V2Inet, V2Unix, V1Unknown, V1Inet}
Proxied == {h \o <<7, 8>> : h \in Headers}

\* Streams that are no header, or a broken one.
Others ==
  {<<>>, <<7, 8>>, <<80, 79>>, <<80, 79, 83, 84>>, <<13, 11, 12>>,
   <<13, 10, 48, 0, 0, 0, 7>>, <<13, 10, 33, 17, 0, 2, 3, 4, 7>>,
   <<80, 82, 32, 57, 13, 10, 7>>,
   [i \in 1..17 |-> IF i <= 3 THEN WPrefix[i] ELSE 33]}

AllStreams == Proxied \cup Others
OneStream == {V2Local}
EachExit == {V2Local, V1Unknown, <<7, 8, 9, 7, 8, 9>>}
V1Streams == {V1Unknown \o <<7, 8>>, <<7, 8, 9, 7>>}

AnyPolicy == [c \in Conns |-> {"Require", "Use", "Ignore", "Reject"}]
RequireOnly == [c \in Conns |-> {"Require"}]
Optional == [c \in Conns |-> {"Use"}]
RequireUse == [c \in Conns |-> IF c = c1 THEN {"Require"} ELSE {"Use"}]

AnySegment == 1..17

Symmetry == Permutations({c1, c2, c3})
=============================================================================
