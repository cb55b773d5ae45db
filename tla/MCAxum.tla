------------------------------- MODULE MCAxum -------------------------------
EXTENDS Axum, MCWire

CONSTANTS c1, c2

\* A version 1 header, and octets that are no header.
MCStreams == {<<80, 82, 32, 85, 13, 10, 7, 8>>, <<7, 8, 9, 7>>}
MCPolicy ==
  [c \in Conns |-> IF c = c1 THEN {"Require", "Ignore"} ELSE {"Use", "Reject"}]
=============================================================================
