------------------------------- MODULE Trust --------------------------------
(***************************************************************************)
(* The listener with the policies of policy.rs: the decision of each       *)
(* accept is evaluate of the configured policy on the peer's IP address.   *)
(***************************************************************************)
EXTENDS Listener, Policy

CONSTANTS
  PeerIps,      \* the addresses peers connect from
  Lists         \* what the operator trusts: [addrs, nets], sequences of each

\* Module Listener leaves the decisions open; here evaluate makes them.
ASSUME TrustAssumption ==
  \A c \in Conns : Policy[c] = {"Require", "Use", "Ignore", "Reject"}

VARIABLES
  given,        \* the trust list the policy was built from
  policy,
  ip            \* each peer's address

trustvars == <<given, policy, ip, vars>>

\* The ways to build a TrustedProxies from a list.
Constructed(list) ==
  {with_cidrs(list.addrs, list.nets)}
    \cup (IF list.nets = <<>> THEN {new(list.addrs)} ELSE {})
    \cup (IF list.addrs = <<>> THEN {from_ipnets(list.nets)} ELSE {})

\* The policies an operator with that list may configure; two need no list.
Policies(list) ==
  [kind : {"TrustedProxies", "MixedMode"}, trusted : Constructed(list)]
    \cup (IF list = [addrs |-> <<>>, nets |-> <<>>]
          THEN [kind : {"AcceptAll", "OptionalProxy"}] ELSE {})

TrustInit ==
  /\ Init
  /\ given \in Lists
  /\ policy \in Policies(given)
  /\ ip \in [Conns -> PeerIps]

TrustNext ==
  /\ \/ \E c \in Conns : \/ accept(c, evaluate(policy, ip[c]))
                         \/ CallStep(c)
                         \/ cancel(c)
                         \/ PeerStep(c)
                         \/ AppStep(c)
     \/ Tick
     \/ Done
  /\ UNCHANGED <<given, policy, ip>>

TrustSpec == TrustInit /\ [][TrustNext]_trustvars

-----------------------------------------------------------------------------
\* Properties.

Bit(n, k) == (n \div (2 ^ k)) % 2

\* Reference: an address is trusted when the list names it, or names a network
\* whose prefix bits are those of the address.
Trusted(x) ==
  \/ \E i \in DOMAIN given.addrs : given.addrs[i] = x
  \/ \E i \in DOMAIN given.nets :
       /\ given.nets[i].addr.family = x.family
       /\ \A k \in (WIDTH[x.family] - given.nets[i].prefix_len)..(WIDTH[x.family] - 1) :
            Bit(given.nets[i].addr.value, k) = Bit(x.value, k)

\* The constructors split a list into addresses and networks without changing whom
\* it names: contains agrees with the reference on every address, host bits and
\* full-length prefixes included.
ListFaithful ==
  policy.kind \in {"TrustedProxies", "MixedMode"} =>
    \A x \in PeerIps : contains(policy.trusted, x) <=> Trusted(x)

\* Under TrustedProxies exactly the untrusted peers are rejected, and under
\* TrustedProxies and MixedMode a header is taken from trusted peers only, who
\* cannot connect without one; however the list was given and split.
TrustDecides ==
  \A c \in Conns :
    /\ policy.kind = "TrustedProxies" /\ call[c] # "backlog" =>
         (error[c] = Some(AcceptError("Rejected")) <=> ~ Trusted(ip[c]))
    /\ policy.kind \in {"TrustedProxies", "MixedMode"} /\ call[c] = "ok" =>
         (proxy_info[c] # None <=> Trusted(ip[c]))

\* Under MixedMode the stream of an untrusted peer is left alone: accept hands it
\* over at once under the peer's own address and as not proxied, and the application
\* reads it from its first octet, even when it starts with a header.
MixedUntouched ==
  \A c \in Conns :
    policy.kind = "MixedMode" /\ ~ Trusted(ip[c]) /\ call[c] # "backlog" =>
      /\ call[c] = "ok" /\ connect_info(c).client_addr = <<"peer", c>>
      /\ ~ is_proxied(connect_info(c))
      /\ starts_with(stream[c], delivered[c])
      /\ state[c] = "eof" => Len(delivered[c]) = arrived[c]
=============================================================================
