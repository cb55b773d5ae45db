------------------------------ MODULE Handoff -------------------------------
(***************************************************************************)
(* What the listener promises about each connection, without buffers,      *)
(* reads, permits or timers.  A connection is settled once: refused,       *)
(* handed over as it is, or handed over with the metadata of the header    *)
(* its stream starts with.  From then on the application has a TCP stream  *)
(* that starts after that header.                                          *)
(***************************************************************************)
EXTENDS Integers, Sequences

CONSTANTS
  Conns,
  Streams,
  Header(_)     \* the header a stream starts with: Option of [info, len]

VARIABLES
  stream, sent, peer,   \* what the peer sends, how much of it so far, and whether it closed
  outcome,              \* "pending", "refused", "direct", "proxied"
  info,                 \* Option of the metadata
  received,             \* what the application has read
  ending                \* "open", "eof", "error": how reading ended

hvars == <<stream, sent, peer, outcome, info, received, ending>>

HInit ==
  /\ stream \in [Conns -> Streams]
  /\ sent = [c \in Conns |-> 0]
  /\ peer = [c \in Conns |-> "open"]
  /\ outcome = [c \in Conns |-> "pending"]
  /\ info = [c \in Conns |-> <<>>]
  /\ received = [c \in Conns |-> <<>>]
  /\ ending = [c \in Conns |-> "open"]

PeerSends(c) ==
  /\ peer[c] = "open"
  /\ \E n \in (sent[c] + 1)..Len(stream[c]) : sent' = [sent EXCEPT ![c] = n]
  /\ UNCHANGED <<stream, peer, outcome, info, received, ending>>

PeerCloses(c) ==
  /\ peer[c] = "open"
  /\ \E how \in {"fin", "rst"} : peer' = [peer EXCEPT ![c] = how]
  /\ UNCHANGED <<stream, sent, outcome, info, received, ending>>

\* Metadata is given only for a header that has been sent to its last octet.
Settle(c) ==
  /\ outcome[c] = "pending"
  /\ \/ /\ \E how \in {"refused", "direct"} : outcome' = [outcome EXCEPT ![c] = how]
        /\ UNCHANGED info
     \/ /\ Header(stream[c]) # <<>> /\ Header(stream[c])[1].len <= sent[c]
        /\ outcome' = [outcome EXCEPT ![c] = "proxied"]
        /\ info' = [info EXCEPT ![c] = <<Header(stream[c])[1].info>>]
  /\ UNCHANGED <<stream, sent, peer, received, ending>>

\* The octets that are the application's: those sent after the header.
Body(c) ==
  SubSeq(stream[c], 1 + (IF outcome[c] = "proxied" THEN Header(stream[c])[1].len ELSE 0), sent[c])

Reads(c) ==
  /\ outcome[c] \in {"direct", "proxied"} /\ ending[c] = "open"
  /\ \/ /\ \E n \in (Len(received[c]) + 1)..Len(Body(c)) :
             received' = [received EXCEPT ![c] = SubSeq(Body(c), 1, n)]
        /\ UNCHANGED ending
     \/ /\ peer[c] = "fin" /\ received[c] = Body(c)
        /\ ending' = [ending EXCEPT ![c] = "eof"]
        /\ UNCHANGED received
     \/ /\ peer[c] = "rst"
        /\ ending' = [ending EXCEPT ![c] = "error"]
        /\ UNCHANGED received
  /\ UNCHANGED <<stream, sent, peer, outcome, info>>

HNext == \E c \in Conns : PeerSends(c) \/ PeerCloses(c) \/ Settle(c) \/ Reads(c)

HSpec == HInit /\ [][HNext]_hvars

\* Every connection is settled, and a stream whose peer closed is read to its end.
HLive ==
  \A c \in Conns :
    /\ outcome[c] = "pending" ~> outcome[c] # "pending"
    /\ outcome[c] \in {"direct", "proxied"} /\ peer[c] # "open" ~> ending[c] # "open"
=============================================================================
