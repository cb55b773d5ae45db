----------------------------- MODULE StreamUse ------------------------------
(***************************************************************************)
(* An application that uses every side of a ProxiedStream (stream.rs): it  *)
(* reads through poll_read, writes and half-closes through AsyncWrite, and *)
(* may read the socket directly through inner(), which takes &self, as     *)
(* TcpStream::try_read does.                                               *)
(***************************************************************************)
EXTENDS Listener

CONSTANT MaxWritten     \* bound on the octets written to a stream

VARIABLES
  write_half,   \* "open", "shut", "error"
  written,      \* octets the socket accepted from the application
  bypassed      \* positions of the stream that were read through inner()

usevars == <<write_half, written, bypassed>>
suvars == <<usevars, vars>>

UseInit ==
  /\ Init
  /\ write_half = [c \in Conns |-> "open"]
  /\ written = [c \in Conns |-> 0]
  /\ bypassed = [c \in Conns |-> {}]

\* inner().try_read(): the leftover is not consulted.
inner_try_read(c, room) ==
  /\ state[c] = "open"
  /\ bypassed' = [bypassed EXCEPT ![c] = @ \cup ((taken[c] + 1)..(taken[c] + ReadCount(c, room)))]
  /\ Take(c, room)
  /\ UNCHANGED <<write_half, written, streamvars, semvars, callvars>>

\* poll_write and poll_flush delegate to the socket, which reports a reset.
poll_write(c) ==
  /\ state[c] \in {"open", "eof"} /\ write_half[c] = "open" /\ written[c] < MaxWritten
  /\ \/ written' = [written EXCEPT ![c] = @ + 1] /\ UNCHANGED write_half
     \/ peer[c] = "rst" /\ write_half' = [write_half EXCEPT ![c] = "error"] /\ UNCHANGED written
  /\ UNCHANGED <<bypassed, vars>>

\* Faulty variant: the read half goes with the write half.
poll_shutdown_both(c) ==
  /\ state[c] \in {"open", "eof"} /\ write_half[c] = "open"
  /\ write_half' = [write_half EXCEPT ![c] = "shut"]
  /\ state' = [state EXCEPT ![c] = "error"]
  /\ UNCHANGED <<written, bypassed, leftover, pos, proxy_info, delivered, tcpvars, semvars, callvars>>

poll_shutdown(c) ==
  /\ state[c] \in {"open", "eof"} /\ write_half[c] = "open"
  /\ write_half' = [write_half EXCEPT ![c] = "shut"]
  /\ UNCHANGED <<written, bypassed, vars>>

UseNext ==
  \/ Next /\ UNCHANGED usevars
  \/ \E c \in Conns : \/ \E room \in AppReads : inner_try_read(c, room)
                      \/ poll_write(c)
                      \/ poll_shutdown(c)

UseSpec == UseInit /\ [][UseNext]_suvars

\* The application goes on calling poll_read; the rest is up to it.
UseFairSpec ==
  /\ UseSpec
  /\ \A c \in Conns : WF_suvars(AppStep(c) /\ UNCHANGED usevars)

-----------------------------------------------------------------------------
\* Properties.

\* The octets of c at the positions in P, in order.
OctetsAt(c, P) ==
  LET at == SelectSeq([i \in DOMAIN stream[c] |-> i], LAMBDA i : i \in P)
  IN  [i \in DOMAIN at |-> stream[c][at[i]]]

\* What arrived up to position n after the header and was left to poll_read.
LeftToPollRead(c, n) == ((HeaderLen(c) + 1)..n) \ bypassed[c]

\* Reading through inner() takes octets out of the stream but never disturbs what
\* the wrapper holds: every octet taken from the socket after the header went to
\* exactly one of the two readers, or is still in the leftover, and poll_read
\* returns its share in order.
ReadersPartition ==
  \A c \in Conns : state[c] # "absent" =>
    delivered[c] \o SubSeq(leftover[c], pos[c] + 1, Len(leftover[c])) =
      OctetsAt(c, LeftToPollRead(c, taken[c]))

\* A half-closed stream still delivers: after poll_shutdown an application that
\* goes on reading a stream whose peer closed gets the leftover, the rest of the
\* octets, and end of file.
HalfCloseDelivers ==
  \A c \in Conns : write_half[c] = "shut" /\ peer[c] = "fin" ~>
    state[c] = "eof" /\ delivered[c] = OctetsAt(c, LeftToPollRead(c, arrived[c]))
=============================================================================
