---------------------------- MODULE TrustProofs ----------------------------
(***************************************************************************)
(* The listener under the policies of policy.rs, for any number of peers   *)
(* and addresses: what the decision of a policy means for what accept      *)
(* returns and the application reads.                                      *)
(***************************************************************************)
EXTENDS Trust, OutcomeProofs

\* Ignore is answered with the stream itself, and Reject, like no other decision,
\* with Rejected.
Obeyed(c) ==
  call[c] # "backlog" =>
    /\ decision[c] = Some("Ignore") => call[c] = "ok"
    /\ error[c] = Some(AcceptError("Rejected")) <=> decision[c] = Some("Reject")

\* The decision of each call is the policy's.
Followed(c) == call[c] # "backlog" => decision[c] = Some(evaluate(policy, ip[c]))

Kinds == {"AcceptAll", "TrustedProxies", "MixedMode", "OptionalProxy"}
Decisions == {"Require", "Use", "Ignore", "Reject"}

TInv ==
  /\ policy.kind \in Kinds /\ ip \in [Conns -> PeerIps]
  /\ \A c \in Conns : Obeyed(c) /\ Followed(c)

\* evaluate decides by the kind of the policy and whether its list contains the peer.
LEMMA EvaluateCases ==
  ASSUME NEW p, NEW x, p.kind \in Kinds
  PROVE  /\ evaluate(p, x) \in Decisions
         /\ p.kind = "TrustedProxies" =>
              evaluate(p, x) = IF contains(p.trusted, x) THEN "Require" ELSE "Reject"
         /\ p.kind = "MixedMode" =>
              evaluate(p, x) = IF contains(p.trusted, x) THEN "Require" ELSE "Ignore"
<1>1. CASE p.kind = "AcceptAll"
  <2>1. evaluate(p, x) = "Require"
    BY <1>1, Zenon DEF evaluate, evaluate_AcceptAll
  <2> QED BY <1>1, <2>1 DEF Decisions
<1>2. CASE p.kind = "TrustedProxies"
  <2>1. evaluate(p, x) = IF contains(p.trusted, x) THEN "Require" ELSE "Reject"
    BY <1>2, Zenon DEF evaluate, evaluate_TrustedProxies
  <2> QED BY <1>2, <2>1 DEF Decisions
<1>3. CASE p.kind = "MixedMode"
  <2>1. evaluate(p, x) = IF contains(p.trusted, x) THEN "Require" ELSE "Ignore"
    BY <1>3, Zenon DEF evaluate, evaluate_MixedMode
  <2> QED BY <1>3, <2>1 DEF Decisions
<1>4. CASE p.kind = "OptionalProxy"
  <2>1. evaluate(p, x) = "Use"
    BY <1>4, Zenon DEF evaluate, evaluate_OptionalProxy
  <2> QED BY <1>4, <2>1 DEF Decisions
<1> QED BY <1>1, <1>2, <1>3, <1>4 DEF Kinds

\* A listener with one of the policies takes only steps of the listener.
LEMMA TrustSteps ==
  ASSUME policy.kind \in Kinds, [TrustNext]_trustvars
  PROVE  [Next]_vars
<1>1. ASSUME NEW c \in Conns, accept(c, evaluate(policy, ip[c])) PROVE Next
  <2>1. evaluate(policy, ip[c]) \in Policy[c]
    BY EvaluateCases, TrustAssumption, Zenon DEF Decisions
  <2> QED BY <1>1, <2>1, Zenon DEF Next
<1>2. ASSUME TrustNext PROVE Next
  BY <1>1, <1>2, Zenon DEF TrustNext, Next
<1> QED BY <1>2, Zenon DEF trustvars

\* The options and errors that the properties tell apart are different.
LEMMA Distinct ==
  /\ \A x, y : Some(x) = Some(y) <=> x = y
  /\ \A x : Some(x) # None
  /\ \A x, y : AcceptError(x) = AcceptError(y) <=> x = y
  /\ \A x : ParseFailed(x) # AcceptError("Rejected")
<1>1. \A x, y : Some(x)[1] = x /\ Some(x) # None
  BY DEF Some, None
<1>2. \A x : AcceptError(x).kind = x /\ ParseFailed(x).kind = "Parse"
  BY DEF AcceptError, ParseFailed
<1>3. \A x, y : Some(x) = Some(y) => x = y
  <2> SUFFICES ASSUME NEW x, NEW y, Some(x) = Some(y) PROVE x = y
    OBVIOUS
  <2> QED BY <1>1
<1>4. \A x, y : AcceptError(x) = AcceptError(y) => x = y
  <2> SUFFICES ASSUME NEW x, NEW y, AcceptError(x) = AcceptError(y) PROVE x = y
    OBVIOUS
  <2> QED BY <1>2
<1>5. \A x : ParseFailed(x) # AcceptError("Rejected")
  <2> SUFFICES ASSUME NEW x, ParseFailed(x) = AcceptError("Rejected") PROVE FALSE
    OBVIOUS
  <2> QED BY <1>2
<1> QED BY <1>1, <1>3, <1>4, <1>5, Zenon

\* No error of read_and_validate is Rejected.
LEMMA NeverRejectedLater ==
  ASSUME TcpTypeOK, CallTypeOK, NEW c \in Conns, CallStep(c), error[c] = None
  PROVE  /\ error'[c] # Some(AcceptError("Rejected"))
         /\ decision' = decision
<1>1. c \in DOMAIN error
  BY DEF CallTypeOK
<1>2. ASSUME NEW e, Fail(c, e), e # AcceptError("Rejected")
      PROVE  error'[c] # Some(AcceptError("Rejected"))
  <2>1. error'[c] = Some(e)
    BY <1>1, <1>2, Zenon DEF Fail
  <2> QED BY <1>2, <2>1, Distinct, Zenon
<1>3. ASSUME NEW kind \in {"HeaderTimeout", "EmptyConnection", "Io", "VersionMismatch",
                           "ValidationFailed"}
      PROVE  AcceptError(kind) # AcceptError("Rejected")
  <2>1. kind # "Rejected"
    BY <1>3
  <2> QED BY <2>1, Distinct, Zenon
<1>4. ASSUME error' = error PROVE error'[c] # Some(AcceptError("Rejected"))
  BY <1>4, Distinct, Zenon
<1>5. CASE permit_acquired(c)
  BY <1>4, <1>5, Zenon DEF permit_acquired
<1>6. CASE permit_timeout(c) \/ read_timeout(c)
  BY <1>2, <1>3, <1>6, Zenon DEF permit_timeout, read_timeout
<1>7. CASE read_eof(c)
  BY <1>2, <1>3, <1>7, Distinct, Zenon DEF read_eof
<1>8. CASE read_error(c)
  BY <1>2, <1>3, <1>8, Zenon DEF read_error
<1>9. CASE read(c)
  <2> DEFINE b == buf[c] \o ReadData(c, READ_SIZE)
  <2>1. Examine(c, b, parse(b)) /\ decision' = decision
    BY <1>9, Zenon DEF read
  <2> HIDE DEF b
  <2>2. \/ error' = error
        \/ Fail(c, AcceptError("VersionMismatch")) \/ Fail(c, AcceptError("ValidationFailed"))
        \/ Fail(c, ParseFailed(parse(b)))
    BY <2>1, Zenon DEF Examine, Succeed, ReadMore
  <2> QED BY <1>2, <1>3, <1>4, <2>1, <2>2, Distinct, Zenon
<1> QED BY <1>5, <1>6, <1>7, <1>8, <1>9, Zenon DEF CallStep

\* Every step of the listener answers the decision it was given.
LEMMA ObeyedStep ==
  ASSUME IInv, DInv, NEW c \in Conns, Obeyed(c), [Next]_vars
  PROVE  Obeyed(c)'
<1>1. TcpTypeOK /\ StreamTypeOK /\ CallTypeOK
  BY Zenon DEF IInv
<1>2. ASSUME call'[c] = call[c], decision'[c] = decision[c], error'[c] = error[c]
      PROVE  Obeyed(c)'
  BY <1>2, Zenon DEF Obeyed
<1>3. ASSUME NEW k \in Conns, k # c,
             (\E d \in Policy[k] : accept(k, d)) \/ CallStep(k) \/ cancel(k)
               \/ PeerStep(k) \/ AppStep(k)
      PROVE  Obeyed(c)'
  BY <1>1, <1>2, <1>3, OthersSame, Zenon DEF Same
<1>4. ASSUME call[c] \in {"backlog", "waiting", "reading"} PROVE error[c] = None
  BY <1>4, Zenon DEF DInv, Settled, Undecided
<1>5. ASSUME NEW d \in Policy[c], accept(c, d) PROVE Obeyed(c)'
  <2>1. decision'[c] = Some(d) /\ error[c] = None
    BY <1>1, <1>4, <1>5, Zenon DEF accept, CallTypeOK
  <2>2. /\ Some("Reject") # Some("Ignore")
        /\ \A x \in {"Require", "Use"} : Some(x) # Some("Ignore") /\ Some(x) # Some("Reject")
    BY Distinct
  <2>3. CASE d = "Reject" /\ Fail(c, AcceptError("Rejected"))
    <3>1. error'[c] = Some(AcceptError("Rejected"))
      BY <1>1, <2>3, Zenon DEF Fail, CallTypeOK
    <3> QED BY <2>1, <2>2, <2>3, <3>1, Distinct, Zenon DEF Obeyed
  <2>4. CASE d = "Ignore" /\ Succeed(c, <<>>, None)
    <3>1. call'[c] = "ok" /\ error'[c] = None
      BY <1>1, <2>1, <2>4, Zenon DEF Succeed, Return, CallTypeOK
    <3>2. decision'[c] # Some("Reject") /\ error'[c] # Some(AcceptError("Rejected"))
      BY <2>1, <2>2, <2>4, <3>1, Distinct
    <3> QED BY <3>1, <3>2, Zenon DEF Obeyed
  <2>5. CASE d \in {"Require", "Use"} /\ BeginHandshake(c)
    <3>1. error'[c] = None
      BY <2>1, <2>5, Zenon DEF BeginHandshake
    <3> QED BY <2>1, <2>2, <2>5, <3>1, Distinct, Zenon DEF Obeyed
  <2> QED BY <1>5, <2>3, <2>4, <2>5, Zenon DEF accept
<1>6. ASSUME c \in InFlight
      PROVE  /\ error[c] = None
             /\ decision[c] # Some("Ignore") /\ decision[c] # Some("Reject")
  <2>1. call[c] \in {"waiting", "reading"}
    BY <1>6, Zenon DEF InFlight
  <2>2. Undecided(c) /\ call[c] # "backlog"
    BY <2>1, Zenon DEF DInv, Settled
  <2>3. decision[c] \in {Some("Require"), Some("Use")} /\ error[c] = None
    BY <2>2, Zenon DEF Undecided
  <2>4. "Require" # "Ignore" /\ "Require" # "Reject" /\ "Use" # "Ignore" /\ "Use" # "Reject"
    OBVIOUS
  <2> QED BY <2>3, <2>4, Distinct, Zenon
<1>7. ASSUME CallStep(c) PROVE Obeyed(c)'
  <2>1. c \in InFlight
    BY <1>7, Zenon DEF CallStep, permit_acquired, permit_timeout, read, read_eof, read_error,
                       read_timeout, InFlight
  <2> QED BY <1>1, <1>6, <1>7, <2>1, NeverRejectedLater, Zenon DEF Obeyed
<1>8. ASSUME cancel(c) PROVE Obeyed(c)'
  BY <1>6, <1>8, Distinct, Zenon DEF cancel, Obeyed
<1>9. ASSUME PeerStep(c) \/ AppStep(c) \/ Tick \/ UNCHANGED vars PROVE Obeyed(c)'
  BY <1>2, <1>9, Zenon DEF PeerStep, AppStep, Tick, vars, callvars
<1> QED BY <1>3, <1>5, <1>7, <1>8, <1>9, Zenon DEF Next, Done

\* Every step of a listener with one of the policies keeps to it.
LEMMA TInvStep ==
  ASSUME IInv, DInv, TInv, [TrustNext]_trustvars
  PROVE  TInv'
<1>1. policy.kind \in Kinds /\ CallTypeOK /\ TcpTypeOK /\ StreamTypeOK
  BY Zenon DEF TInv, IInv
<1>2. UNCHANGED <<policy, ip>> /\ [Next]_vars
  BY <1>1, TrustSteps, Zenon DEF TrustNext, trustvars
<1>3. ASSUME NEW c \in Conns PROVE Followed(c)'
  <2>1. Followed(c)
    BY Zenon DEF TInv
  <2>2. ASSUME call'[c] = call[c], decision'[c] = decision[c] PROVE Followed(c)'
    BY <1>2, <2>1, <2>2, Zenon DEF Followed
  <2>3. ASSUME NEW k \in Conns, k # c,
               (\E d \in Policy[k] : accept(k, d)) \/ CallStep(k) \/ cancel(k)
                 \/ PeerStep(k) \/ AppStep(k)
        PROVE  Followed(c)'
    BY <1>1, <2>2, <2>3, OthersSame, Zenon DEF Same
  <2>4. ASSUME NEW k \in Conns, accept(k, evaluate(policy, ip[k])) PROVE Followed(c)'
    <3>1. CASE k = c
      <4>1. decision'[c] = Some(evaluate(policy, ip[c]))
        BY <1>1, <2>4, <3>1, Zenon DEF accept, CallTypeOK
      <4> QED BY <1>2, <4>1, Zenon DEF Followed
    <3>2. CASE k # c
      <4>1. evaluate(policy, ip[k]) \in Policy[k]
        BY <1>1, EvaluateCases, TrustAssumption, Zenon DEF Decisions
      <4> QED BY <2>3, <2>4, <3>2, <4>1, Zenon
    <3> QED BY <3>1, <3>2
  <2>5. ASSUME CallStep(c) \/ cancel(c) PROVE Followed(c)'
    <3>1. decision' = decision
      BY <2>5, Zenon DEF CallStep, permit_acquired, permit_timeout, read, read_eof, read_error,
                         read_timeout, cancel
    <3>2. call[c] # "backlog"
      <4>1. call[c] \in {"waiting", "reading"}
        BY <2>5, Zenon DEF CallStep, permit_acquired, permit_timeout, read, read_eof,
                           read_error, read_timeout, cancel, InFlight
      <4> QED BY <4>1
    <3> QED BY <1>2, <2>1, <3>1, <3>2, Zenon DEF Followed
  <2>6. ASSUME PeerStep(c) \/ AppStep(c) \/ Tick \/ Done \/ UNCHANGED trustvars
        PROVE  Followed(c)'
    BY <2>2, <2>6, Zenon DEF PeerStep, AppStep, Tick, Done, trustvars, vars, callvars
  <2> QED BY <2>3, <2>4, <2>5, <2>6, Zenon DEF TrustNext
<1>4. ASSUME NEW c \in Conns PROVE Obeyed(c)'
  BY <1>2, <1>4, ObeyedStep, Zenon DEF TInv
<1> QED BY <1>2, <1>3, <1>4, Zenon DEF TInv

\* No policy has decided anything at the start.
LEMMA InitTInv == TrustInit => Init /\ TInv
<1> SUFFICES ASSUME TrustInit PROVE Init /\ TInv
  OBVIOUS
<1>1. Init /\ ip \in [Conns -> PeerIps] /\ policy \in Policies(given)
  BY Zenon DEF TrustInit
<1>2. \A c \in Conns : call[c] = "backlog"
  BY <1>1, Zenon DEF Init
<1>3. policy.kind \in Kinds
  BY <1>1 DEF Policies, Kinds
<1> QED BY <1>1, <1>2, <1>3, Zenon DEF TInv, Obeyed, Followed

\* A listener with one of the policies of policy.rs is a listener.
THEOREM TrustUsesListener == TrustSpec => Spec
<1>1. policy.kind \in Kinds /\ [TrustNext]_trustvars => (policy.kind \in Kinds)'
  BY Zenon DEF TrustNext, trustvars
<1>2. policy.kind \in Kinds /\ [TrustNext]_trustvars => [Next]_vars
  BY TrustSteps
<1>3. TrustInit => Init /\ policy.kind \in Kinds
  BY InitTInv, Zenon DEF TInv
<1> QED BY <1>1, <1>2, <1>3, PTL DEF TrustSpec, Spec

\* Every reachable state under a policy satisfies the invariants.
LEMMA TrustInductive == TrustSpec => [](IInv /\ DInv /\ TInv)
<1>1. TrustSpec => [](IInv /\ DInv)
  BY TrustUsesListener, DInvInductive, PTL
<1>2. IInv /\ DInv /\ TInv /\ [TrustNext]_trustvars => TInv'
  BY TInvStep
<1> QED BY <1>1, <1>2, InitTInv, PTL DEF TrustSpec

\* As long as the list names whom it should (ListFaithful), trust is decided by it
\* alone: exactly the untrusted peers are rejected, and headers are taken from
\* trusted peers only.
THEOREM TrustByList == TrustSpec => [](ListFaithful => TrustDecides)
<1>1. ASSUME DInv, TInv, ListFaithful PROVE TrustDecides
  <2> SUFFICES ASSUME NEW c \in Conns
               PROVE  /\ policy.kind = "TrustedProxies" /\ call[c] # "backlog" =>
                           (error[c] = Some(AcceptError("Rejected")) <=> ~ Trusted(ip[c]))
                      /\ policy.kind \in {"TrustedProxies", "MixedMode"} /\ call[c] = "ok" =>
                           (proxy_info[c] # None <=> Trusted(ip[c]))
    BY Zenon DEF TrustDecides
  <2> DEFINE listed == contains(policy.trusted, ip[c])
             e == evaluate(policy, ip[c])
  <2>1. Obeyed(c) /\ Followed(c) /\ policy.kind \in Kinds /\ ip[c] \in PeerIps
    BY <1>1, Zenon DEF TInv
  <2>2. ASSUME policy.kind \in {"TrustedProxies", "MixedMode"}
        PROVE  /\ listed <=> Trusted(ip[c])
               /\ listed => e = "Require"
               /\ ~ listed => e = IF policy.kind = "TrustedProxies" THEN "Reject" ELSE "Ignore"
    <3>1. listed <=> Trusted(ip[c])
      BY <1>1, <2>1, <2>2, Zenon DEF ListFaithful
    <3> HIDE DEF listed
    <3>2. policy.kind = "TrustedProxies" => e = IF listed THEN "Require" ELSE "Reject"
      BY <2>1, EvaluateCases, Zenon DEF listed
    <3>3. policy.kind = "MixedMode" => e = IF listed THEN "Require" ELSE "Ignore"
      BY <2>1, EvaluateCases, Zenon DEF listed
    <3> HIDE DEF e
    <3> QED BY <2>2, <3>1, <3>2, <3>3
  <2> HIDE DEF listed, e
  <2>3. \A x, y \in Decisions : x # y => Some(x) # Some(y)
    BY Distinct, Zenon
  <2>4. ASSUME policy.kind = "TrustedProxies", call[c] # "backlog"
        PROVE  error[c] = Some(AcceptError("Rejected")) <=> ~ Trusted(ip[c])
    <3>1. decision[c] = Some(e)
      BY <2>1, <2>4, Zenon DEF Followed, e
    <3>2. error[c] = Some(AcceptError("Rejected")) <=> decision[c] = Some("Reject")
      BY <2>1, <2>4, Zenon DEF Obeyed
    <3>3. decision[c] = Some("Reject") <=> ~ listed
      BY <2>2, <2>3, <2>4, <3>1 DEF Decisions
    <3>4. listed <=> Trusted(ip[c])
      BY <2>2, <2>4
    <3> QED BY <3>2, <3>3, <3>4, Zenon
  <2>5. ASSUME policy.kind \in {"TrustedProxies", "MixedMode"}, call[c] = "ok"
        PROVE  proxy_info[c] # None <=> Trusted(ip[c])
    <3>1. decision[c] = Some(e) /\ Granted(c)
      <4>1. call[c] # "backlog"
        BY <2>5
      <4> QED BY <1>1, <2>1, <2>5, <4>1, Zenon DEF Followed, e, DInv, Settled, Accepted
    <3>2. listed <=> Trusted(ip[c])
      BY <2>2, <2>5, Zenon
    <3>3. e = IF listed THEN "Require" ELSE
                IF policy.kind = "TrustedProxies" THEN "Reject" ELSE "Ignore"
      BY <2>2, <2>5, Zenon
    <3>4. proxy_info[c] = None => ~ listed
      <4>1. proxy_info[c] = None => decision[c] \in {Some("Ignore"), Some("Use")}
        BY <3>1, Zenon DEF Granted
      <4> QED BY <2>3, <3>1, <3>3, <4>1 DEF Decisions
    <3>5. proxy_info[c] # None => listed
      <4>1. proxy_info[c] # None => decision[c] \in {Some("Require"), Some("Use")}
        BY <3>1, Zenon DEF Granted
      <4> QED BY <2>3, <3>1, <3>3, <4>1 DEF Decisions
    <3> QED BY <3>2, <3>4, <3>5, Zenon
  <2> QED BY <2>4, <2>5, Zenon
<1>2. DInv /\ TInv => (ListFaithful => TrustDecides)
  BY <1>1
<1> QED BY <1>2, TrustInductive, PTL

\* Under MixedMode a peer that the list does not name gets the stream it opened:
\* no header is looked for, and nothing of what it sends is kept back.
THEOREM UntrustedUntouched == TrustSpec => [](ListFaithful => MixedUntouched)
<1>1. ASSUME TcpTypeOK, StreamTypeOK, CallTypeOK, DInv, NEW c \in Conns,
             call[c] = "ok", proxy_info[c] = None
      PROVE  /\ starts_with(stream[c], delivered[c])
             /\ state[c] = "eof" => Len(delivered[c]) = arrived[c]
  <2> DEFINE s == stream[c]
             n == Mark(c)
  <2>1. Cursor(c) /\ HeaderLen(c) = 0
    BY <1>1, Zenon DEF DInv, Settled, Accepted, HeaderLen
  <2>2. /\ s \in Seq(Nat) /\ n \in Nat /\ n <= taken[c] /\ taken[c] <= arrived[c]
        /\ arrived[c] <= Len(s) /\ taken[c] \in Nat /\ arrived[c] \in Nat
    BY <1>1, <2>1, MarkBounds
  <2>3. delivered[c] = SubSeq(s, 0 + 1, n)
    BY <2>1, Zenon DEF Cursor
  <2>4. state[c] = "eof" => n = arrived[c]
    <3> SUFFICES ASSUME state[c] = "eof" PROVE n = arrived[c]
      OBVIOUS
    <3>1. arrived[c] - taken[c] = 0 /\ LeftoverRemaining(c) = 0
      BY <2>1, Zenon DEF Cursor, ReadEof, Available
    <3> QED BY <2>2, <3>1 DEF Mark
  <2> HIDE DEF s, n
  <2>5. 0 \in Nat /\ Len(s) \in Nat /\ n <= Len(s) /\ 0 + Len(s) <= Len(s)
    BY <2>2
  <2>6. starts_with(SubSeq(s, 0 + 1, 0 + Len(s)), SubSeq(s, 0 + 1, 0 + n))
    BY <2>2, <2>5, SlicePrefix, Zenon
  <2>7. SubSeq(s, 0 + 1, 0 + Len(s)) = s /\ 0 + n = n /\ Len(SubSeq(s, 0 + 1, n)) = n
    BY <2>2, <2>5
  <2>8. starts_with(s, delivered[c])
    BY <2>3, <2>6, <2>7, Zenon
  <2> QED BY <2>3, <2>4, <2>7, <2>8, Zenon DEF s
<1>2. ASSUME IInv, DInv, TInv, ListFaithful PROVE MixedUntouched
  <2> SUFFICES ASSUME NEW c \in Conns, policy.kind = "MixedMode", ~ Trusted(ip[c]),
                      call[c] # "backlog"
               PROVE  /\ call[c] = "ok" /\ connect_info(c).client_addr = <<"peer", c>>
                      /\ ~ is_proxied(connect_info(c))
                      /\ starts_with(stream[c], delivered[c])
                      /\ state[c] = "eof" => Len(delivered[c]) = arrived[c]
    BY Zenon DEF MixedUntouched
  <2>1. Obeyed(c) /\ Followed(c) /\ policy.kind \in Kinds /\ ip[c] \in PeerIps
    BY <1>2, Zenon DEF TInv
  <2>2. ~ contains(policy.trusted, ip[c])
    BY <1>2, <2>1, Zenon DEF ListFaithful
  <2>3. decision[c] = Some("Ignore")
    <3>1. evaluate(policy, ip[c]) = "Ignore"
      BY <2>1, <2>2, EvaluateCases, Zenon
    <3> QED BY <2>1, <3>1, Zenon DEF Followed
  <2>4. call[c] = "ok"
    BY <2>1, <2>3, Zenon DEF Obeyed
  <2>5. proxy_info[c] = None
    <3>1. Granted(c)
      BY <1>2, <2>4, Zenon DEF DInv, Settled, Accepted
    <3>2. decision[c] \notin {Some("Require"), Some("Use")}
      BY <2>3, Distinct
    <3> QED BY <3>1, <3>2, Zenon DEF Granted
  <2>6. connect_info(c).client_addr = <<"peer", c>> /\ connect_info(c).proxy_info = None
    BY <2>5 DEF connect_info, ProxyConnectInfo, client_addr, OrPeer, None
  <2>7. ~ is_proxied(connect_info(c))
    BY <2>6 DEF is_proxied, None
  <2> QED BY <1>1, <1>2, <2>4, <2>5, <2>6, <2>7, Zenon DEF IInv
<1>3. IInv /\ DInv /\ TInv => (ListFaithful => MixedUntouched)
  BY <1>2
<1> QED BY <1>3, TrustInductive, PTL
=============================================================================
