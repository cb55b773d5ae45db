--------------------------- MODULE ProxiedStream ---------------------------
(***************************************************************************)
(* ProxiedStream (stream.rs): the accepted stream, its leftover octets and *)
(* the metadata.  delivered is what the application has read from it.      *)
(***************************************************************************)
EXTENDS Tcp

CONSTANT AppReads       \* buffer sizes the application reads with

VARIABLES
  state,        \* "absent", "open", "eof" (a read returned 0), "error"
  leftover,     \* octets read past the header
  pos,          \* cursor into leftover
  proxy_info,   \* Option of ProxyInfo
  delivered

streamvars == <<state, leftover, pos, proxy_info, delivered>>

StreamInit ==
  /\ state = [c \in Conns |-> "absent"]
  /\ leftover = [c \in Conns |-> <<>>]
  /\ pos = [c \in Conns |-> 0]
  /\ proxy_info = [c \in Conns |-> <<>>]
  /\ delivered = [c \in Conns |-> <<>>]

\* ProxiedStream::new
NewStream(c, extra, info) ==
  /\ state' = [state EXCEPT ![c] = "open"]
  /\ leftover' = [leftover EXCEPT ![c] = extra]
  /\ proxy_info' = [proxy_info EXCEPT ![c] = info]
  /\ UNCHANGED <<pos, delivered>>

Deliver(c, octets) == delivered' = [delivered EXCEPT ![c] = @ \o octets]

LeftoverRemaining(c) == Len(leftover[c]) - pos[c]

\* poll_read serves leftover octets first
ServeLeftover(c, room) ==
  LET to_copy == IF LeftoverRemaining(c) < room THEN LeftoverRemaining(c) ELSE room
  IN  /\ LeftoverRemaining(c) > 0
      /\ Deliver(c, SubSeq(leftover[c], pos[c] + 1, pos[c] + to_copy))
      /\ pos' = [pos EXCEPT ![c] = @ + to_copy]
      /\ UNCHANGED <<state, leftover, proxy_info, tcpvars>>

\* Faulty variant: the socket is read while there is leftover.
DelegateReadEager(c, room) ==
  /\ \/ /\ Deliver(c, ReadData(c, room))
        /\ Take(c, room)
        /\ UNCHANGED state
     \/ /\ ReadEof(c) \/ ReadError(c)
        /\ state' = [state EXCEPT ![c] = IF ReadEof(c) THEN "eof" ELSE "error"]
        /\ UNCHANGED <<delivered, tcpvars>>
  /\ UNCHANGED <<leftover, pos, proxy_info>>

\* Faulty variant: end of file is reported as an error.
DelegateReadEofError(c, room) ==
  /\ LeftoverRemaining(c) = 0
  /\ \/ /\ Deliver(c, ReadData(c, room))
        /\ Take(c, room)
        /\ UNCHANGED state
     \/ /\ ReadEof(c) \/ ReadError(c)
        /\ state' = [state EXCEPT ![c] = "error"]
        /\ UNCHANGED <<delivered, tcpvars>>
  /\ UNCHANGED <<leftover, pos, proxy_info>>

\* and then delegates to the socket
DelegateRead(c, room) ==
  /\ LeftoverRemaining(c) = 0
  /\ \/ /\ Deliver(c, ReadData(c, room))
        /\ Take(c, room)
        /\ UNCHANGED state
     \/ /\ ReadEof(c)
        /\ state' = [state EXCEPT ![c] = "eof"]
        /\ UNCHANGED <<delivered, tcpvars>>
     \/ /\ ReadError(c)
        /\ state' = [state EXCEPT ![c] = "error"]
        /\ UNCHANGED <<delivered, tcpvars>>
  /\ UNCHANGED <<leftover, pos, proxy_info>>

poll_read(c, room) ==
  /\ state[c] = "open"
  /\ ServeLeftover(c, room) \/ DelegateRead(c, room)

\* ProxyAddress::as_inet, ProxyInfo::source_inet
as_inet(address) == IF address.kind = "Inet" THEN <<address>> ELSE <<>>

\* Faulty variant: the header's destination is taken for the client.
source_inet_destination(info) ==
  IF info.destination = <<>> THEN <<>> ELSE as_inet(info.destination[1])

source_inet(info) == IF info.source = <<>> THEN <<>> ELSE as_inet(info.source[1])

\* The first address there is, or else the TCP peer.
OrPeer(address, c) == IF address # <<>> THEN <<"header", address[1]>> ELSE <<"peer", c>>

client_addr(c) ==
  OrPeer(IF proxy_info[c] = <<>> THEN <<>> ELSE source_inet(proxy_info[c][1]), c)

ProxyConnectInfo(client, c, info) ==
  [client_addr |-> client, peer_addr |-> c, proxy_info |-> info]

connect_info(c) == ProxyConnectInfo(client_addr(c), c, proxy_info[c])

is_proxied(info) == info.proxy_info # <<>>

\* ProxyConnectInfo made by hand: From<SocketAddr> and From<(ProxyInfo, SocketAddr)>.
from_addr(c) == ProxyConnectInfo(<<"peer", c>>, c, <<>>)
from_pair(info, c) == ProxyConnectInfo(OrPeer(source_inet(info), c), c, <<info>>)
=============================================================================
