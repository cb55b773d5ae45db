------------------------------- MODULE Policy -------------------------------
(***************************************************************************)
(* The connection policies (policy.rs): what evaluate decides for a peer   *)
(* address.  An address is a family and a number; an IpNet is an address,  *)
(* host bits included, and a prefix length.  A closure used as a policy is *)
(* the Policy constant of module Listener.                                 *)
(***************************************************************************)
EXTENDS Integers, Sequences, FiniteSetsExt, Functions

CONSTANT WIDTH          \* bits of an address: [Inet |-> 32, Inet6 |-> 128]

\* The ipnet crate.  Addresses of different families never match.
max_prefix_len(net) == WIDTH[net.addr.family]
HostCount(net) == 2 ^ (max_prefix_len(net) - net.prefix_len)
net_contains(net, ip) ==
  /\ net.addr.family = ip.family
  /\ net.addr.value \div HostCount(net) = ip.value \div HostCount(net)

TrustedProxies(exact, cidrs) == [exact |-> exact, cidrs |-> cidrs]

new(addrs) == TrustedProxies(Range(addrs), <<>>)

with_cidrs(addrs, cidrs) == TrustedProxies(Range(addrs), cidrs)

\* Faulty variant: every network that is not wider than two hosts is taken for one.
SplitNetWide(t, net) ==
  IF net.prefix_len >= max_prefix_len(net) - 1
  THEN [t EXCEPT !.exact = @ \cup {net.addr}]
  ELSE [t EXCEPT !.cidrs = Append(@, net)]

SplitNet(t, net) ==
  IF net.prefix_len = max_prefix_len(net)
  THEN [t EXCEPT !.exact = @ \cup {net.addr}]
  ELSE [t EXCEPT !.cidrs = Append(@, net)]

from_ipnets(nets) ==
  MapThenFoldSet(LAMBDA net, t : SplitNet(t, net), TrustedProxies({}, <<>>),
                 LAMBDA i : nets[i], Max, DOMAIN nets)

contains(t, ip) ==
  \/ ip \in t.exact
  \/ \E i \in DOMAIN t.cidrs : net_contains(t.cidrs[i], ip)

\* evaluate of each policy.
evaluate_AcceptAll == "Require"

\* Faulty variant: whoever is not on the list may come without a header.
evaluate_TrustedProxies_lenient(t, ip) == IF contains(t, ip) THEN "Require" ELSE "Use"

evaluate_TrustedProxies(t, ip) == IF contains(t, ip) THEN "Require" ELSE "Reject"

\* Faulty variant: mixed mode looks for a header from everybody.
evaluate_MixedMode_lenient(t, ip) == IF contains(t, ip) THEN "Require" ELSE "Use"

evaluate_MixedMode(t, ip) == IF contains(t, ip) THEN "Require" ELSE "Ignore"

evaluate_OptionalProxy == "Use"

evaluate(policy, ip) ==
  CASE policy.kind = "AcceptAll" -> evaluate_AcceptAll
    [] policy.kind = "TrustedProxies" -> evaluate_TrustedProxies(policy.trusted, ip)
    [] policy.kind = "MixedMode" -> evaluate_MixedMode(policy.trusted, ip)
    [] policy.kind = "OptionalProxy" -> evaluate_OptionalProxy
=============================================================================
