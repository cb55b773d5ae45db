-------------------------------- MODULE Tcp --------------------------------
(***************************************************************************)
(* The TCP connections below the listener (external: tokio's TcpListener   *)
(* and TcpStream, and the peers).  A peer sends the octets of its stream   *)
(* in order, in segments of any size, and may close or reset at any time;  *)
(* the socket holds what has arrived and not been taken.                   *)
(***************************************************************************)
EXTENDS Integers, Sequences

CONSTANTS
  Conns,        \* connections (a connection stands for its peer address)
  Streams,      \* the octet sequences a peer may send
  Segments      \* the segment sizes

VARIABLES
  stream,       \* what each peer sends over the life of the connection
  arrived,      \* how many of its octets have arrived
  taken,        \* how many of those have been read from the socket
  peer          \* "open", "fin", "rst"

tcpvars == <<stream, arrived, taken, peer>>

TcpTypeOK ==
  /\ stream \in [Conns -> Streams]
  /\ arrived \in [Conns -> Nat]
  /\ taken \in [Conns -> Nat]
  /\ peer \in [Conns -> {"open", "fin", "rst"}]
  /\ \A c \in Conns : taken[c] <= arrived[c] /\ arrived[c] <= Len(stream[c])

TcpInit ==
  /\ stream \in [Conns -> Streams]
  /\ arrived = [c \in Conns |-> 0]
  /\ taken = [c \in Conns |-> 0]
  /\ peer = [c \in Conns |-> "open"]

Send(c, n) ==
  /\ peer[c] = "open"
  /\ arrived[c] + n <= Len(stream[c])
  /\ arrived' = [arrived EXCEPT ![c] = @ + n]
  /\ UNCHANGED <<stream, taken, peer>>

Close(c, how) ==
  /\ peer[c] = "open"
  /\ peer' = [peer EXCEPT ![c] = how]
  /\ UNCHANGED <<stream, arrived, taken>>

\* The outcomes of polling a read of at most max octets.  After a reset the
\* octets still in the socket may be returned first, or lost to the error.
Available(c) == arrived[c] - taken[c]
ReadCount(c, max) == IF Available(c) < max THEN Available(c) ELSE max
ReadData(c, max) == SubSeq(stream[c], taken[c] + 1, taken[c] + ReadCount(c, max))
ReadEof(c) == Available(c) = 0 /\ peer[c] = "fin"
ReadError(c) == peer[c] = "rst"
ReadPending(c) == Available(c) = 0 /\ peer[c] = "open"

Take(c, max) ==
  /\ Available(c) > 0
  /\ taken' = [taken EXCEPT ![c] = @ + ReadCount(c, max)]
  /\ UNCHANGED <<stream, arrived, peer>>
=============================================================================
