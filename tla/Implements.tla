----------------------------- MODULE Implements -----------------------------
(***************************************************************************)
(* The listener and its streams implement Handoff: the refinement mapping. *)
(***************************************************************************)
EXTENDS Listener

HeaderIn(r) ==
  IF r.tag = "Ok" THEN Some([info |-> r.info, len |-> r.consumed]) ELSE None

HeaderOf(s) == HeaderIn(parse(s))

OutcomeOf(c) ==
  CASE call[c] \in {"backlog", "waiting", "reading"} -> "pending"
    [] call[c] \in {"err", "cancelled"} -> "refused"
    [] call[c] = "ok" /\ proxy_info[c] = None -> "direct"
    [] call[c] = "ok" /\ proxy_info[c] # None -> "proxied"

EndingOf(c) == IF state[c] = "absent" THEN "open" ELSE state[c]

H == INSTANCE Handoff WITH
  Header <- HeaderOf,
  sent <- arrived,
  outcome <- [c \in Conns |-> OutcomeOf(c)],
  info <- proxy_info,
  received <- delivered,
  ending <- [c \in Conns |-> EndingOf(c)]

-----------------------------------------------------------------------------
\* Properties.

\* Every step of the listener, of the accepted stream and of the peers is one of
\* Handoff or invisible there: permits, timers, the handshake buffer and the
\* leftover cursor never show in what the application gets.
ImplementsHandoff == H!HSpec

\* Under the fairness of FairSpec every connection is settled and every closed
\* stream is read to its end, in the terms of Handoff.
ImplementsHandoffLive == H!HLive
=============================================================================
