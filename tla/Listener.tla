------------------------------ MODULE Listener ------------------------------
(***************************************************************************)
(* ProxyProtocolListener (listener.rs): any number of concurrent accept    *)
(* calls.  A call runs from one await to the next in one step.  Time is a  *)
(* count of ticks: left is what remains of the timeout the call is under,  *)
(* age the ticks since its connection was accepted.  A task whose timeout  *)
(* has elapsed is polled before the next tick; timeout and timeout_at poll *)
(* the inner future first.                                                 *)
(***************************************************************************)
EXTENDS Parse, ProxiedStream, Semaphore

CONSTANTS
  HEADER_TIMEOUT, MAX_HEADER_SIZE,
  VERSION,            \* VersionPreference: "Both", "V1Only", "V2Only"
  READ_SIZE,          \* 256, the size of tmp
  Policy,             \* what evaluate may decide for each connection
  Validator,          \* what validate may answer; {TRUE} when there is none
  MaxCalls            \* bound on concurrent accept calls

ASSUME ListenerAssumption ==
  /\ IsFiniteSet(Conns)
  /\ \A s \in Streams : s \in Seq(Nat)
  /\ HEADER_TIMEOUT \in Nat
  /\ MAX_HEADER_SIZE \in Nat
  /\ READ_SIZE \in Nat \ {0}
  /\ Policy \in [Conns -> SUBSET {"Require", "Use", "Ignore", "Reject"}]
  /\ Validator \subseteq BOOLEAN
  /\ Segments \subseteq Nat \ {0}
  /\ AppReads \subseteq Nat \ {0}

VARIABLES
  call,         \* "backlog", "waiting" (for a permit), "reading", "ok", "err", "cancelled"
  decision,     \* Option of the PolicyDecision
  left, age, buf,
  error         \* Option of the AcceptError

callvars == <<call, decision, left, age, buf, error>>
vars == <<tcpvars, streamvars, semvars, callvars>>

AcceptError(kind) == [kind |-> kind, cause |-> None]
ParseFailed(e) == [kind |-> "Parse", cause |-> Some(e)]

InFlight == {c \in Conns : call[c] \in {"waiting", "reading"}}

Init ==
  /\ TcpInit
  /\ StreamInit
  /\ SemInit
  /\ call = [c \in Conns |-> "backlog"]
  /\ decision = [c \in Conns |-> None]
  /\ left = [c \in Conns |-> 0]
  /\ age = [c \in Conns |-> 0]
  /\ buf = [c \in Conns |-> <<>>]
  /\ error = [c \in Conns |-> None]

\* The call returns (or is dropped): its timers go with it.
Return(c, how) ==
  /\ call' = [call EXCEPT ![c] = how]
  /\ left' = [left EXCEPT ![c] = 0]
  /\ age' = [age EXCEPT ![c] = 0]

Fail(c, e) ==
  /\ Return(c, "err")
  /\ error' = [error EXCEPT ![c] = Some(e)]
  /\ UNCHANGED streamvars

Succeed(c, extra, info) ==
  /\ Return(c, "ok")
  /\ NewStream(c, extra, info)
  /\ UNCHANGED error

\* Faulty variant: each stage is given the budget of both.
StartTimerDouble(c) == left' = [left EXCEPT ![c] = 2 * HEADER_TIMEOUT]

StartTimer(c) == left' = [left EXCEPT ![c] = HEADER_TIMEOUT]

-----------------------------------------------------------------------------
\* accept, up to its first suspension in read_and_validate.

BeginHandshake(c) ==
  /\ Acquire(c)
  /\ call' = [call EXCEPT ![c] = IF permits > 0 THEN "reading" ELSE "waiting"]
  /\ StartTimer(c)
  /\ UNCHANGED <<age, error, streamvars>>

accept(c, d) ==
  /\ call[c] = "backlog"
  /\ Cardinality(InFlight) < MaxCalls
  /\ decision' = [decision EXCEPT ![c] = Some(d)]
  /\ \/ d = "Reject" /\ Fail(c, AcceptError("Rejected")) /\ UNCHANGED semvars
     \/ d = "Ignore" /\ Succeed(c, <<>>, None) /\ UNCHANGED semvars
     \/ d \in {"Require", "Use"} /\ BeginHandshake(c)
  /\ UNCHANGED <<buf, tcpvars>>

\* The waiter is polled with its permit assigned: the read deadline starts.
permit_acquired(c) ==
  /\ call[c] = "waiting" /\ c \in holders
  /\ call' = [call EXCEPT ![c] = "reading"]
  /\ StartTimer(c)
  /\ UNCHANGED <<decision, age, buf, error, tcpvars, streamvars, semvars>>

permit_timeout(c) ==
  /\ call[c] = "waiting" /\ c \notin holders /\ left[c] = 0
  /\ Fail(c, AcceptError("HeaderTimeout"))
  /\ Release(c)
  /\ UNCHANGED <<decision, buf, tcpvars>>

-----------------------------------------------------------------------------
\* The read loop of read_and_validate.

\* Faulty variant: the preference is ignored.
VersionAllowedAny(version) == TRUE

VersionAllowed(version) ==
  CASE VERSION = "V1Only" -> version # "V2"
    [] VERSION = "V2Only" -> version # "V1"
    [] OTHER -> TRUE

\* Faulty variants: no limit, and a limit off by one.
MayContinueAlways(b) == TRUE
MayContinueEarly(b) == Len(b) + 1 < MAX_HEADER_SIZE

MayContinue(b) == Len(b) < MAX_HEADER_SIZE

\* Faulty variant: what was read past the header is dropped.
AfterHeaderNothing(b, consumed) == <<>>

AfterHeader(b, consumed) == SubSeq(b, consumed + 1, Len(b))

\* Faulty variant: every read gets the whole timeout again.
ReadMoreAfresh(c) == StartTimer(c) /\ UNCHANGED <<call, age, error, streamvars, semvars>>

ReadMore(c) == UNCHANGED <<call, left, age, error, streamvars, semvars>>

\* The match on r, the parse of b; on every return the permit is dropped.
Examine(c, b, r) ==
  \/ /\ r.tag = "Ok" /\ ~ VersionAllowed(r.info.version)
     /\ Fail(c, AcceptError("VersionMismatch"))
     /\ Release(c)
  \/ /\ r.tag = "Ok" /\ VersionAllowed(r.info.version)
     /\ \E valid \in Validator :
          IF valid THEN Succeed(c, AfterHeader(b, r.consumed), Some(r.info))
          ELSE Fail(c, AcceptError("ValidationFailed"))
     /\ Release(c)
  \/ /\ r = Incomplete /\ MayContinue(b)
     /\ ReadMore(c)
  \/ /\ r = NotProxyProtocol /\ decision[c] = Some("Use")
     /\ Succeed(c, b, None)
     /\ Release(c)
  \/ /\ r.tag # "Ok"
     /\ ~ (r = Incomplete /\ MayContinue(b))
     /\ ~ (r = NotProxyProtocol /\ decision[c] = Some("Use"))
     /\ Fail(c, ParseFailed(r))
     /\ Release(c)

read(c) ==
  /\ call[c] = "reading"
  /\ Take(c, READ_SIZE)
  /\ LET b == buf[c] \o ReadData(c, READ_SIZE) IN
     /\ buf' = [buf EXCEPT ![c] = b]
     /\ Examine(c, b, parse(b))
  /\ UNCHANGED decision

\* Faulty variant: this return path keeps its permit.
read_eof_leaking(c) ==
  /\ call[c] = "reading" /\ ReadEof(c)
  /\ Fail(c, AcceptError("EmptyConnection"))
  /\ UNCHANGED <<decision, buf, tcpvars, semvars>>

read_eof(c) ==
  /\ call[c] = "reading" /\ ReadEof(c)
  /\ Fail(c, IF buf[c] = <<>> THEN AcceptError("EmptyConnection") ELSE ParseFailed(Incomplete))
  /\ Release(c)
  /\ UNCHANGED <<decision, buf, tcpvars>>

read_error(c) ==
  /\ call[c] = "reading" /\ ReadError(c)
  /\ Fail(c, AcceptError("Io"))
  /\ Release(c)
  /\ UNCHANGED <<decision, buf, tcpvars>>

\* Faulty variant: only the first octet is awaited under the deadline.
read_timeout_first(c) ==
  /\ call[c] = "reading" /\ left[c] = 0 /\ ReadPending(c) /\ buf[c] = <<>>
  /\ Fail(c, AcceptError("HeaderTimeout"))
  /\ Release(c)
  /\ UNCHANGED <<decision, buf, tcpvars>>

\* Faulty variant: the deadline is looked at before the socket.
read_timeout_eager(c) ==
  /\ call[c] = "reading" /\ left[c] = 0
  /\ Fail(c, AcceptError("HeaderTimeout"))
  /\ Release(c)
  /\ UNCHANGED <<decision, buf, tcpvars>>

read_timeout(c) ==
  /\ call[c] = "reading" /\ left[c] = 0 /\ ReadPending(c)
  /\ Fail(c, AcceptError("HeaderTimeout"))
  /\ Release(c)
  /\ UNCHANGED <<decision, buf, tcpvars>>

\* Faulty variant: the permit outlives the future that acquired it.
cancel_leaking(c) ==
  /\ c \in InFlight
  /\ Return(c, "cancelled")
  /\ UNCHANGED <<decision, buf, error, tcpvars, streamvars, semvars>>

\* The accept future is dropped while it is suspended.
cancel(c) ==
  /\ c \in InFlight
  /\ Return(c, "cancelled")
  /\ Release(c)
  /\ UNCHANGED <<decision, buf, error, tcpvars, streamvars>>

-----------------------------------------------------------------------------
Tick ==
  /\ InFlight # {}
  /\ \A c \in InFlight : left[c] > 0
  /\ left' = [c \in Conns |-> IF c \in InFlight THEN left[c] - 1 ELSE left[c]]
  /\ age' = [c \in Conns |-> IF c \in InFlight THEN age[c] + 1 ELSE age[c]]
  /\ UNCHANGED <<call, decision, buf, error, tcpvars, streamvars, semvars>>

\* The listener or the application still holds the socket.
Live(c) == call[c] \in {"backlog", "waiting", "reading"} \/ state[c] = "open"

PeerStep(c) ==
  /\ Live(c)
  /\ \/ \E n \in Segments : Send(c, n)
     \/ \E how \in {"fin", "rst"} : Close(c, how)
  /\ UNCHANGED <<streamvars, semvars, callvars>>

AppStep(c) ==
  /\ \E room \in AppReads : poll_read(c, room)
  /\ UNCHANGED <<semvars, callvars>>

\* Every connection is dealt with.
Done == (\A c \in Conns : ~ Live(c)) /\ UNCHANGED vars

CallStep(c) ==
  \/ permit_acquired(c)
  \/ permit_timeout(c)
  \/ read(c)
  \/ read_eof(c)
  \/ read_error(c)
  \/ read_timeout(c)

Next ==
  \/ \E c \in Conns : \/ \E d \in Policy[c] : accept(c, d)
                      \/ CallStep(c)
                      \/ cancel(c)
                      \/ PeerStep(c)
                      \/ AppStep(c)
  \/ Tick
  \/ Done

Spec == Init /\ [][Next]_vars

\* Timers fire, a woken task is polled, the application keeps calling accept
\* and keeps reading the streams it was given; peers promise nothing.
FairSpec ==
  /\ Spec
  /\ WF_vars(Tick)
  /\ \A c \in Conns : /\ WF_vars(\E d \in Policy[c] : accept(c, d))
                      /\ WF_vars(CallStep(c))
                      /\ WF_vars(AppStep(c))

-----------------------------------------------------------------------------
\* Properties.

\* Every variable has its type; the socket never hands out more than arrived.
TypeOK ==
  /\ TcpTypeOK
  /\ SemTypeOK(Conns)
  /\ state \in [Conns -> {"absent", "open", "eof", "error"}]
  /\ leftover \in [Conns -> Seq(Nat)]
  /\ pos \in [Conns -> Nat]
  /\ delivered \in [Conns -> Seq(Nat)]
  /\ call \in [Conns -> {"backlog", "waiting", "reading", "ok", "err", "cancelled"}]
  /\ decision \in [Conns -> {None} \cup {Some(d) : d \in {"Require", "Use", "Ignore", "Reject"}}]
  /\ left \in [Conns -> 0..HEADER_TIMEOUT]
  /\ age \in [Conns -> Nat]
  /\ buf \in [Conns -> Seq(Nat)]
  /\ DOMAIN proxy_info = Conns /\ DOMAIN error = Conns

\* Handshake permits are conserved: at most max_pending_handshakes calls read
\* headers, every exit path of read_and_validate (success, each error, timeout,
\* cancellation) gives its permit back, no call queues while a permit is free,
\* and the queue holds exactly the calls still without one.
PermitsAccountedFor ==
  /\ permits + Cardinality(holders) = MAX_PENDING_HANDSHAKES
  /\ {c \in Conns : call[c] = "reading"} \subseteq holders
  /\ holders \subseteq InFlight
  /\ Range(waiters) = InFlight \ holders
  /\ \A i, j \in DOMAIN waiters : waiters[i] = waiters[j] => i = j
  /\ waiters # <<>> => permits = 0

\* A call in read_and_validate is over within two header_timeouts of its accept,
\* one for the permit and one for the header, whatever the peer sends: reading a
\* few octets at a time does not extend the deadline.
HandshakeBounded == \A c \in InFlight : age[c] <= 2 * HEADER_TIMEOUT

\* The handshake buffer is bounded: whatever the peer sends, it grows past
\* max_header_size by less than one read (a limit of 0 still allows one read).
BufBounded ==
  \A c \in Conns : Len(buf[c]) < MAX_HEADER_SIZE + READ_SIZE \/ Len(buf[c]) <= READ_SIZE

\* The first n octets of the connection's stream.
First(c, n) == SubSeq(stream[c], 1, n)
Verdict(c) == parse(stream[c])
Wanted(version) == <<VERSION, version>> \notin {<<"V1Only", "V2">>, <<"V2Only", "V1">>}

\* What accept may return for a connection whose whole stream parses to verdict.
Deserved(c, verdict) ==
  /\ call[c] = "ok" /\ proxy_info[c] # None =>
       /\ decision[c] \in {Some("Require"), Some("Use")}
       /\ verdict.tag = "Ok" /\ Wanted(verdict.info.version)
       /\ proxy_info[c] = Some(verdict.info)
  /\ call[c] = "ok" /\ proxy_info[c] = None =>
       \/ decision[c] = Some("Ignore")
       \/ decision[c] = Some("Use") /\ verdict = NotProxyProtocol
  /\ error[c] = Some(AcceptError("VersionMismatch")) =>
       verdict.tag = "Ok" /\ ~ Wanted(verdict.info.version)
  /\ call[c] = "err" /\ error[c][1].kind = "Parse" /\ error[c][1].cause[1] # Incomplete =>
       /\ verdict = error[c][1].cause[1]
       /\ verdict = NotProxyProtocol => decision[c] = Some("Require")

\* What accept returns is the parser's verdict on the peer's whole stream, however
\* it was cut into segments and reads: metadata is that of the header, under an
\* allowed version and a policy that asked for it; a stream without metadata was
\* either not to be parsed or, under Use, is not Proxy Protocol; and each parse
\* or version error is the one the whole stream deserves.
OutcomeSound == \A c \in Conns : Deserved(c, Verdict(c))

\* Parse(Incomplete) is returned only when the peer closed in the middle of a
\* header or max_header_size octets were not enough to decide: a header that fits
\* in max_header_size is never refused for its size.
IncompleteJustified ==
  \A c \in Conns : error[c] = Some(ParseFailed(Incomplete)) =>
    /\ parse(First(c, taken[c])) = Incomplete
    /\ ReadEof(c) \/ taken[c] >= MAX_HEADER_SIZE

\* The length of the header the application must not see: none for a stream
\* handed over without metadata.
HeaderLen(c) == IF proxy_info[c] = None THEN 0 ELSE Verdict(c).consumed

\* What has arrived after the first n octets.
AfterHeaderOf(c, n) == SubSeq(stream[c], n + 1, arrived[c])

\* The application reads exactly what the peer sent after the header: in order,
\* nothing lost between the handshake buffer, the leftover cursor and the socket,
\* nothing twice; at end of file it has all of it.
NothingLost ==
  \A c \in Conns : state[c] # "absent" =>
    /\ starts_with(AfterHeaderOf(c, HeaderLen(c)), delivered[c])
    /\ state[c] = "eof" => delivered[c] = AfterHeaderOf(c, HeaderLen(c))

\* The addresses that a parsed header names as an IP source: one, or none.
IpSource(verdict) ==
  IF verdict.tag # "Ok" THEN {}
  ELSE {a \in Range(verdict.info.source) : a.kind = "Inet"}

\* The client address the application sees comes from the header only if the
\* policy had the header read; otherwise, and for a header without an IP source
\* (LOCAL, UNKNOWN, Unix), it is the TCP peer's.  The stream's own summary agrees
\* with the ones an application makes from the address and the metadata.
ClientAddrFaithful ==
  \A c \in Conns : call[c] = "ok" =>
    LET sources == IF decision[c] = Some("Ignore") THEN {} ELSE IpSource(Verdict(c))
    IN  /\ connect_info(c).client_addr \in
             IF sources = {} THEN {<<"peer", c>>} ELSE {<<"header", a>> : a \in sources}
        /\ connect_info(c) = IF proxy_info[c] = None THEN from_addr(c)
                             ELSE from_pair(proxy_info[c][1], c)

\* The read deadline never beats data: when it fires, every octet that has arrived
\* was read and parsed, and the header is still undecided.
TimeoutOnlyWhenUndecided ==
  [][\A c \in Conns :
       call[c] = "reading" /\ error'[c] = Some(AcceptError("HeaderTimeout")) =>
         parse(First(c, arrived[c])) = Incomplete]_vars

\* The whole header is in the socket of a call that reads, and fits the limit.
HeaderReady(c, verdict) ==
  /\ call[c] = "reading" /\ peer[c] # "rst"
  /\ verdict.tag = "Ok"
  /\ verdict.consumed <= arrived[c] /\ verdict.consumed <= MAX_HEADER_SIZE

\* A header that is there before its deadline and fits in max_header_size is
\* accepted, however its octets were cut: once it has arrived, the call neither
\* times out nor gives up on the header, and it does return.
HeaderAccepted ==
  \A c \in Conns : HeaderReady(c, Verdict(c)) ~>
    \/ call[c] \in {"ok", "cancelled"}
    \/ call[c] = "err" /\ error[c][1].kind \in {"Io", "VersionMismatch", "ValidationFailed"}

\* A handshake is never older than one header_timeout after accept.
HeaderWithinTimeout == \A c \in InFlight : age[c] <= HEADER_TIMEOUT

\* Under Use, a peer whose first octets match no Proxy Protocol signature is
\* passed through as a direct connection.
UsePassesDirect ==
  \A c \in Conns :
    /\ decision[c] = Some("Use") /\ arrived[c] > 0
    /\ \A sig \in {V2_SIGNATURE, V1_PREFIX} :
         ~ starts_with(sig, First(c, arrived[c])) /\ ~ starts_with(First(c, arrived[c]), sig)
    => \A e \in Range(error[c]) : e.kind = "Io"
=============================================================================
