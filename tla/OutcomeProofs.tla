--------------------------- MODULE OutcomeProofs ----------------------------
(***************************************************************************)
(* What accept returns and what the application reads, for any number of   *)
(* connections, streams and segmentations, any limit, policy, validator    *)
(* and wire format.                                                        *)
(***************************************************************************)
EXTENDS ListenerProofs

\* The call has not returned: its buffer is what it took from the socket, which
\* decides nothing yet, and no part of the stream or of a result is there.
Undecided(c) ==
  /\ state[c] = "absent" /\ proxy_info[c] = None /\ error[c] = None
  /\ delivered[c] = <<>> /\ pos[c] = 0
  /\ buf[c] = First(c, taken[c])
  /\ parse(First(c, taken[c])) = Incomplete
  /\ call[c] # "reading" => taken[c] = 0
  /\ call[c] # "backlog" => decision[c] \in {Some("Require"), Some("Use")}

\* accept was right to return a stream with this metadata.
Granted(c) ==
  IF proxy_info[c] = None
  THEN \/ decision[c] = Some("Ignore")
       \/ decision[c] = Some("Use") /\ Verdict(c) = NotProxyProtocol
  ELSE /\ decision[c] \in {Some("Require"), Some("Use")}
       /\ Verdict(c).tag = "Ok" /\ Wanted(Verdict(c).info.version)
       /\ proxy_info[c] = Some(Verdict(c).info)

\* How far into the peer's stream the application has read.
Mark(c) == taken[c] - LeftoverRemaining(c)

\* The octets from the end of the header to the mark are delivered, those from
\* the mark to what was taken from the socket are the leftover still unread.
Cursor(c) ==
  /\ pos[c] <= Len(leftover[c])
  /\ HeaderLen(c) \in Nat /\ HeaderLen(c) <= Mark(c)
  /\ delivered[c] = SubSeq(stream[c], HeaderLen(c) + 1, Mark(c))
  /\ SubSeq(leftover[c], pos[c] + 1, Len(leftover[c]))
       = SubSeq(stream[c], Mark(c) + 1, taken[c])
  /\ state[c] = "eof" => ReadEof(c) /\ LeftoverRemaining(c) = 0

Accepted(c) ==
  /\ state[c] # "absent" /\ error[c] = None
  /\ Granted(c)
  /\ Cursor(c)

\* accept was right to return this error.
Justified(c, e) ==
  \/ e \in {AcceptError(kind) : kind \in {"Rejected", "HeaderTimeout", "EmptyConnection",
                                          "Io", "ValidationFailed"}}
  \/ /\ e = AcceptError("VersionMismatch")
     /\ Verdict(c).tag = "Ok" /\ ~ Wanted(Verdict(c).info.version)
  \/ /\ e = ParseFailed(Incomplete)
     /\ parse(First(c, taken[c])) = Incomplete
     /\ ReadEof(c) \/ taken[c] >= MAX_HEADER_SIZE
  \/ /\ e = ParseFailed(Verdict(c))
     /\ Verdict(c).tag # "Ok" /\ Verdict(c) # Incomplete
     /\ Verdict(c) = NotProxyProtocol => decision[c] = Some("Require")

Refused(c) ==
  /\ state[c] = "absent" /\ proxy_info[c] = None
  /\ call[c] = "cancelled" => error[c] = None
  /\ call[c] = "err" => \E e : error[c] = Some(e) /\ Justified(c, e)

\* One of the three holds of a connection, by what became of its call.
Settled(c) ==
  /\ call[c] \in {"backlog", "waiting", "reading"} => Undecided(c)
  /\ call[c] = "ok" => Accepted(c)
  /\ call[c] \in {"err", "cancelled"} => Refused(c)

DInv == \A c \in Conns : Settled(c)

-----------------------------------------------------------------------------
\* What one connection's invariant depends on.

Same(k) ==
  /\ stream'[k] = stream[k] /\ arrived'[k] = arrived[k]
  /\ taken'[k] = taken[k] /\ peer'[k] = peer[k]
  /\ state'[k] = state[k] /\ leftover'[k] = leftover[k] /\ pos'[k] = pos[k]
  /\ proxy_info'[k] = proxy_info[k] /\ delivered'[k] = delivered[k]
  /\ call'[k] = call[k] /\ decision'[k] = decision[k]
  /\ buf'[k] = buf[k] /\ error'[k] = error[k]

\* A step of another connection keeps the invariant of this one.
LEMMA SettledFrame ==
  ASSUME NEW k \in Conns, Settled(k), Same(k)
  PROVE  Settled(k)'
<1>1. Undecided(k) => Undecided(k)'
  BY Zenon DEF Same, Undecided, First
<1>2. Granted(k) => Granted(k)'
  BY Zenon DEF Same, Granted, Verdict
<1>3. Cursor(k) => Cursor(k)'
  BY Zenon DEF Same, Cursor, Mark, HeaderLen, Verdict, LeftoverRemaining, ReadEof, Available
<1>4. ASSUME NEW e, Justified(k, e) PROVE Justified(k, e)'
  BY <1>4, Zenon DEF Same, Justified, Verdict, First, ReadEof, Available
<1>5. Refused(k) => Refused(k)'
  BY <1>4, Zenon DEF Same, Refused
<1>6. Accepted(k) => Accepted(k)'
  BY <1>2, <1>3, Zenon DEF Same, Accepted
<1> QED BY <1>1, <1>5, <1>6, Zenon DEF Same, Settled

\* A call that returns touches its own connection only.
LEMMA ReturnFrame ==
  ASSUME StreamTypeOK, CallTypeOK, NEW c \in Conns, NEW k \in Conns, k # c,
         \/ \E e : Fail(c, e)
         \/ \E extra, info : Succeed(c, extra, info)
  PROVE  /\ call'[k] = call[k] /\ error'[k] = error[k]
         /\ state'[k] = state[k] /\ leftover'[k] = leftover[k] /\ pos'[k] = pos[k]
         /\ proxy_info'[k] = proxy_info[k] /\ delivered'[k] = delivered[k]
<1>1. CASE \E e : Fail(c, e)
  BY <1>1 DEF Fail, Return, streamvars, CallTypeOK
<1>2. CASE \E extra, info : Succeed(c, extra, info)
  BY <1>2 DEF Succeed, Return, NewStream, CallTypeOK, StreamTypeOK
<1> QED BY <1>1, <1>2

\* A read of the socket touches its own connection only.
LEMMA TakeFrame ==
  ASSUME TcpTypeOK, NEW c \in Conns, NEW max, Take(c, max), NEW k \in Conns, k # c
  PROVE  /\ stream'[k] = stream[k] /\ arrived'[k] = arrived[k]
         /\ taken'[k] = taken[k] /\ peer'[k] = peer[k]
BY Zenon DEF Take, TcpTypeOK

\* So does every other step: accept calls, peers and application reads share
\* nothing but the permits.
LEMMA OthersSame ==
  ASSUME TcpTypeOK, StreamTypeOK, CallTypeOK, NEW c \in Conns, NEW k \in Conns, k # c,
         (\E d \in Policy[c] : accept(c, d)) \/ CallStep(c) \/ cancel(c)
           \/ PeerStep(c) \/ AppStep(c)
  PROVE  Same(k)
<1>1. ASSUME NEW d \in Policy[c], accept(c, d) PROVE Same(k)
  <2>1. /\ decision' = [decision EXCEPT ![c] = Some(d)] /\ UNCHANGED <<buf, tcpvars>>
        /\ (\E e : Fail(c, e)) \/ (\E extra, info : Succeed(c, extra, info)) \/ BeginHandshake(c)
    BY <1>1, Zenon DEF accept
  <2>2. decision'[k] = decision[k]
    BY <2>1, Zenon DEF CallTypeOK
  <2>3. CASE BeginHandshake(c)
    BY <2>1, <2>2, <2>3, Zenon DEF BeginHandshake, Same, CallTypeOK, tcpvars, streamvars
  <2> QED BY <2>1, <2>2, <2>3, ReturnFrame, Zenon DEF Same, tcpvars
<1>2. ASSUME permit_acquired(c) PROVE Same(k)
  BY <1>2, Zenon DEF permit_acquired, Same, CallTypeOK, tcpvars, streamvars
<1>3. ASSUME permit_timeout(c) \/ read_eof(c) \/ read_error(c) \/ read_timeout(c) PROVE Same(k)
  <2>1. (\E e : Fail(c, e)) /\ UNCHANGED <<decision, buf, tcpvars>>
    BY <1>3, Zenon DEF permit_timeout, read_eof, read_error, read_timeout
  <2> QED BY <2>1, ReturnFrame, Zenon DEF Same, tcpvars
<1>4. ASSUME read(c) PROVE Same(k)
  <2> DEFINE b == buf[c] \o ReadData(c, READ_SIZE)
  <2>1. /\ buf' = [buf EXCEPT ![c] = b]
        /\ ReadMore(c) \/ (\E e : Fail(c, e)) \/ (\E extra, info : Succeed(c, extra, info))
    BY <1>4, ReadOutcome, Zenon
  <2>2. Take(c, READ_SIZE) /\ decision' = decision
    BY <1>4, Zenon DEF read
  <2>3. /\ buf'[k] = buf[k] /\ decision'[k] = decision[k]
        /\ stream'[k] = stream[k] /\ arrived'[k] = arrived[k]
        /\ taken'[k] = taken[k] /\ peer'[k] = peer[k]
    BY <2>1, <2>2, TakeFrame, Zenon DEF CallTypeOK
  <2>4. CASE ReadMore(c)
    BY <2>3, <2>4, Zenon DEF ReadMore, Same, streamvars
  <2> QED BY <2>1, <2>3, <2>4, ReturnFrame, Zenon DEF Same
<1>5. ASSUME cancel(c) PROVE Same(k)
  BY <1>5, Zenon DEF cancel, Return, Same, CallTypeOK, tcpvars, streamvars
<1>6. ASSUME PeerStep(c) PROVE Same(k)
  BY <1>6, Zenon DEF PeerStep, Send, Close, Same, TcpTypeOK, streamvars, callvars
<1>7. ASSUME AppStep(c) PROVE Same(k)
  <2>1. UNCHANGED callvars /\ \E room \in AppReads : ServeLeftover(c, room) \/ DelegateRead(c, room)
    BY <1>7, Zenon DEF AppStep, poll_read
  <2>2. CASE \E room \in AppReads : ServeLeftover(c, room)
    BY <2>1, <2>2, Zenon DEF ServeLeftover, Deliver, Same, StreamTypeOK, tcpvars, callvars
  <2>3. ASSUME NEW room \in AppReads, DelegateRead(c, room) PROVE Same(k)
    BY <2>1, <2>3, TakeFrame, Zenon DEF DelegateRead, Deliver, Same, StreamTypeOK, tcpvars, callvars
  <2> QED BY <2>1, <2>2, <2>3, Zenon
<1> QED BY <1>1, <1>2, <1>3, <1>4, <1>5, <1>6, <1>7, Zenon DEF CallStep

-----------------------------------------------------------------------------
\* How the invariant of a connection is reached.

\* A call that returns a justified error is settled.
LEMMA FailSettles ==
  ASSUME CallTypeOK, NEW c \in Conns, NEW e, Fail(c, e),
         state[c] = "absent", proxy_info[c] = None, Justified(c, e)'
  PROVE  Settled(c)'
<1>1. call'[c] = "err" /\ error'[c] = Some(e) /\ state'[c] = "absent" /\ proxy_info'[c] = None
  BY Zenon DEF Fail, Return, streamvars, CallTypeOK
<1>2. Refused(c)'
  BY <1>1, Zenon DEF Refused
<1> QED BY <1>1, <1>2, Zenon DEF Settled

\* A call that returns a stream it was right to return is settled.
LEMMA SucceedSettles ==
  ASSUME CallTypeOK, StreamTypeOK, NEW c \in Conns, NEW extra, NEW info,
         Succeed(c, extra, info), error[c] = None, Granted(c)', Cursor(c)'
  PROVE  Settled(c)'
<1>1. call'[c] = "ok" /\ error'[c] = None /\ state'[c] = "open"
  BY Zenon DEF Succeed, Return, NewStream, CallTypeOK, StreamTypeOK
<1>2. Accepted(c)'
  BY <1>1, Zenon DEF Accepted
<1> QED BY <1>1, <1>2, Zenon DEF Settled

\* A new stream starts with its cursor at the end of the header.
LEMMA CursorStart ==
  ASSUME TcpTypeOK', NEW c \in Conns, NEW h \in Nat, h <= taken'[c], HeaderLen(c)' = h,
         state'[c] = "open", pos'[c] = 0, delivered'[c] = <<>>,
         leftover'[c] = SubSeq(stream'[c], h + 1, taken'[c])
  PROVE  Cursor(c)'
<1> DEFINE s == stream'[c]
           t == taken'[c]
           l == leftover'[c]
<1>1. s \in Seq(Nat) /\ t \in Nat /\ t <= Len(s)
  BY ListenerAssumption DEF TcpTypeOK
<1>2. l = SubSeq(s, h + 1, t) /\ h <= t
  OBVIOUS
<1>3. HeaderLen(c)' = h /\ pos'[c] = 0 /\ delivered'[c] = <<>> /\ state'[c] = "open"
  OBVIOUS
<1>4. LeftoverRemaining(c)' = Len(l) - 0 /\ Mark(c)' = t - (Len(l) - 0)
  BY <1>3 DEF LeftoverRemaining, Mark
<1> HIDE DEF s, t, l
<1>5. l \in Seq(Nat) /\ Len(l) = t - h
  BY <1>1, <1>2
<1>6. Mark(c)' = h /\ 0 <= Len(l)
  BY <1>1, <1>4, <1>5
<1>7. SubSeq(l, 0 + 1, Len(l)) = l /\ SubSeq(s, h + 1, h) = <<>>
  BY <1>1, <1>5
<1>8. SubSeq(l, 0 + 1, Len(l)) = SubSeq(s, h + 1, t)
  BY <1>2, <1>7, Zenon
<1> QED BY <1>1, <1>2, <1>3, <1>6, <1>7, <1>8 DEF Cursor, s, t, l

\* The octets a call has taken, with those of its next read, are the octets it
\* will have taken.
LEMMA ReadExtends ==
  ASSUME TcpTypeOK, NEW c \in Conns, NEW max \in Nat \ {0}, Take(c, max)
  PROVE  /\ First(c, taken[c]) \o ReadData(c, max) = First(c, taken'[c])
         /\ stream'[c] = stream[c] /\ arrived'[c] = arrived[c] /\ peer'[c] = peer[c]
         /\ taken'[c] = taken[c] + ReadCount(c, max)
         /\ taken'[c] \in 1..arrived[c]
         /\ First(c, taken'[c]) \in Seq(Nat) /\ Len(First(c, taken'[c])) = taken'[c]
<1> DEFINE s == stream[c]
           a == taken[c]
           n == ReadCount(c, max)
<1>1. /\ n \in 1..max /\ a + n <= arrived[c]
  BY ReadProperties DEF Take
<1>2. /\ s \in Seq(Nat) /\ a \in Nat /\ arrived[c] \in Nat /\ arrived[c] <= Len(s)
  BY ListenerAssumption DEF TcpTypeOK
<1>3. /\ taken'[c] = a + n /\ stream' = stream /\ arrived' = arrived /\ peer' = peer
  BY DEF Take, TcpTypeOK
<1>4. First(c, taken[c]) = SubSeq(s, 1, a) /\ ReadData(c, max) = SubSeq(s, a + 1, a + n)
      /\ First(c, taken'[c]) = SubSeq(s, 1, a + n)
  BY <1>3 DEF First, ReadData
<1> HIDE DEF s, a, n
<1>5. n \in Nat /\ 0 + a + n <= Len(s)
  BY <1>1, <1>2
<1>6. SubSeq(s, 0 + 1, 0 + a) \o SubSeq(s, 0 + a + 1, 0 + a + n) = SubSeq(s, 0 + 1, 0 + a + n)
  BY <1>2, <1>5, SliceJoin
<1>7. 0 + 1 = 1 /\ 0 + a = a
  BY <1>2
<1>8. SubSeq(s, 1, a + n) \in Seq(Nat) /\ Len(SubSeq(s, 1, a + n)) = a + n
  BY <1>2, <1>5
<1>9. a + n \in 1..arrived[c]
  BY <1>1, <1>2
<1> QED BY <1>3, <1>4, <1>6, <1>7, <1>8, <1>9, Zenon DEF s, a, n

\* Once the octets taken decide, their verdict is that of the whole stream.
LEMMA VerdictKnown ==
  ASSUME TcpTypeOK, NEW c \in Conns, NEW n \in 0..arrived[c], parse(First(c, n)) # Incomplete
  PROVE  Verdict(c) = parse(First(c, n))
<1>1. stream[c] \in Seq(Nat) /\ n \in 0..Len(stream[c])
  BY ListenerAssumption DEF TcpTypeOK
<1> QED BY <1>1, ParseStable DEF First, Verdict

\* VersionPreference in the code and in the properties.
LEMMA VersionWanted == \A version : VersionAllowed(version) <=> Wanted(version)
BY DEF VersionAllowed, Wanted

-----------------------------------------------------------------------------
\* The steps of a connection keep its own invariant.

\* accept: a refusal by the policy, a stream handed over unread, or a handshake.
LEMMA AcceptSettled ==
  ASSUME TcpTypeOK, StreamTypeOK, CallTypeOK, TcpTypeOK', NEW c \in Conns, Settled(c),
         NEW d \in Policy[c], accept(c, d)
  PROVE  Settled(c)'
<1>1. call[c] = "backlog" /\ Undecided(c)
  BY Zenon DEF accept, Settled
<1>2. /\ UNCHANGED <<buf, tcpvars>> /\ decision'[c] = Some(d)
  BY Zenon DEF accept, CallTypeOK
<1>3. taken[c] = 0
  BY <1>1, Zenon DEF Undecided
<1>4. CASE d = "Reject" /\ Fail(c, AcceptError("Rejected"))
  <2>1. Justified(c, AcceptError("Rejected"))'
    BY Zenon DEF Justified
  <2> QED BY <1>1, <1>4, <2>1, FailSettles, Zenon DEF Undecided
<1>5. CASE d = "Ignore" /\ Succeed(c, <<>>, None)
  <2>1. /\ state'[c] = "open" /\ leftover'[c] = <<>> /\ proxy_info'[c] = None
        /\ pos'[c] = 0 /\ delivered'[c] = <<>>
    BY <1>1, <1>5, Zenon DEF Succeed, NewStream, StreamTypeOK, Undecided
  <2>2. Granted(c)'
    BY <1>2, <1>5, <2>1, Zenon DEF Granted
  <2>3. taken'[c] = 0 /\ HeaderLen(c)' = 0
    BY <1>2, <1>3, <2>1, Zenon DEF tcpvars, HeaderLen
  <2>4. SubSeq(stream'[c], 0 + 1, 0) = <<>>
    <3>1. stream'[c] \in Seq(Nat)
      BY ListenerAssumption DEF TcpTypeOK
    <3> QED BY <3>1
  <2>5. Cursor(c)'
    <3>1. 0 \in Nat /\ 0 <= taken'[c] /\ leftover'[c] = SubSeq(stream'[c], 0 + 1, taken'[c])
      BY <2>1, <2>3, <2>4
    <3> QED BY <2>1, <2>3, <3>1, CursorStart, Zenon
  <2> QED BY <1>1, <1>5, <2>2, <2>5, SucceedSettles, Zenon DEF Undecided
<1>6. CASE d \in {"Require", "Use"} /\ BeginHandshake(c)
  <2>1. call'[c] \in {"waiting", "reading"} /\ UNCHANGED <<error, streamvars>>
    BY <1>6, Zenon DEF BeginHandshake, CallTypeOK
  <2>2. Undecided(c)'
    BY <1>1, <1>2, <1>3, <1>6, <2>1, Zenon DEF Undecided, First, tcpvars, streamvars
  <2> QED BY <2>1, <2>2, Zenon DEF Settled
<1> QED BY <1>4, <1>5, <1>6, Zenon DEF accept

\* The waiter is polled with its permit.
LEMMA PermitSettled ==
  ASSUME CallTypeOK, NEW c \in Conns, Settled(c), permit_acquired(c)
  PROVE  Settled(c)'
<1>1. call[c] = "waiting" /\ Undecided(c)
  BY Zenon DEF permit_acquired, Settled
<1>2. call'[c] = "reading" /\ UNCHANGED <<decision, buf, error, tcpvars, streamvars>>
  BY Zenon DEF permit_acquired, CallTypeOK
<1>3. Undecided(c)'
  BY <1>1, <1>2, Zenon DEF Undecided, First, tcpvars, streamvars
<1> QED BY <1>2, <1>3, Zenon DEF Settled

\* The ends of a handshake without a read: timeouts, end of file, socket error.
LEMMA FailSettled ==
  ASSUME TcpTypeOK, CallTypeOK, NEW c \in Conns, Settled(c),
         permit_timeout(c) \/ read_eof(c) \/ read_error(c) \/ read_timeout(c)
  PROVE  Settled(c)'
<1>1. call[c] \in {"waiting", "reading"} /\ UNCHANGED <<decision, buf, tcpvars>>
  BY Zenon DEF permit_timeout, read_eof, read_error, read_timeout
<1>2. Undecided(c)
  BY <1>1, Zenon DEF Settled
<1>3. ASSUME NEW kind \in {"HeaderTimeout", "EmptyConnection", "Io"}, Fail(c, AcceptError(kind))
      PROVE  Settled(c)'
  <2>1. Justified(c, AcceptError(kind))'
    BY Zenon DEF Justified
  <2> QED BY <1>2, <1>3, <2>1, FailSettles, Zenon DEF Undecided
<1>4. ASSUME ReadEof(c), Fail(c, ParseFailed(Incomplete)) PROVE Settled(c)'
  <2>1. Justified(c, ParseFailed(Incomplete))'
    BY <1>1, <1>2, <1>4, Zenon DEF Justified, Undecided, First, ReadEof, Available, tcpvars
  <2> QED BY <1>2, <1>4, <2>1, FailSettles, Zenon DEF Undecided
<1> QED BY <1>3, <1>4, Zenon DEF permit_timeout, read_eof, read_error, read_timeout

\* The accept future is dropped.
LEMMA CancelSettled ==
  ASSUME CallTypeOK, NEW c \in Conns, Settled(c), cancel(c)
  PROVE  Settled(c)'
<1>1. Undecided(c) /\ call'[c] = "cancelled" /\ UNCHANGED <<error, streamvars>>
  BY Zenon DEF cancel, InFlight, Settled, Return, CallTypeOK
<1> QED BY <1>1, Zenon DEF Settled, Undecided, Refused, streamvars

\* A read: what it decides is what the whole stream deserves.
LEMMA ReadSettled ==
  ASSUME TcpTypeOK, StreamTypeOK, CallTypeOK, TcpTypeOK', NEW c \in Conns, Settled(c), read(c)
  PROVE  Settled(c)'
<1> DEFINE b == First(c, taken'[c])
           r == parse(b)
<1>1. call[c] = "reading" /\ Undecided(c)
  BY Zenon DEF read, Settled
<1>2. Take(c, READ_SIZE) /\ READ_SIZE \in Nat \ {0} /\ MAX_HEADER_SIZE \in Nat
  BY ListenerAssumption, Zenon DEF read
<1>3. /\ First(c, taken[c]) \o ReadData(c, READ_SIZE) = b
      /\ stream'[c] = stream[c] /\ taken'[c] \in 1..arrived[c]
      /\ b \in Seq(Nat) /\ Len(b) = taken'[c]
  BY <1>2, ReadExtends, Zenon
<1>4. buf'[c] = b /\ Examine(c, b, r) /\ decision' = decision
  BY <1>1, <1>3, Zenon DEF read, Undecided, CallTypeOK
<1>5. r # Incomplete => Verdict(c) = r
  <2>1. taken'[c] \in 0..arrived[c]
    BY <1>3
  <2> QED BY <2>1, VerdictKnown, Zenon
<1>6. Verdict(c)' = Verdict(c) /\ First(c, taken[c])' = b
  BY <1>3, Zenon DEF Verdict, First
<1>7. state[c] = "absent" /\ proxy_info[c] = None /\ error[c] = None
      /\ delivered[c] = <<>> /\ pos[c] = 0 /\ decision[c] \in {Some("Require"), Some("Use")}
  BY <1>1, Zenon DEF Undecided
<1>8. r.tag = "Ok" => r # Incomplete
  BY DEF Incomplete
<1> HIDE DEF b, r
<1>9. CASE r.tag = "Ok" /\ ~ VersionAllowed(r.info.version)
           /\ Fail(c, AcceptError("VersionMismatch"))
  <2>1. Justified(c, AcceptError("VersionMismatch"))'
    BY <1>5, <1>6, <1>8, <1>9, VersionWanted, Zenon DEF Justified
  <2> QED BY <1>7, <1>9, <2>1, FailSettles, Zenon
<1>10. CASE Fail(c, AcceptError("ValidationFailed"))
  <2>1. Justified(c, AcceptError("ValidationFailed"))'
    BY Zenon DEF Justified
  <2> QED BY <1>7, <1>10, <2>1, FailSettles, Zenon
<1>11. ASSUME NEW h \in Nat, h <= Len(b), NEW extra, NEW info, extra = SubSeq(b, h + 1, Len(b)),
              Succeed(c, extra, info), HeaderLen(c)' = h, Granted(c)'
       PROVE  Settled(c)'
  <2>1. /\ state'[c] = "open" /\ leftover'[c] = extra /\ pos'[c] = 0 /\ delivered'[c] = <<>>
    BY <1>7, <1>11, Zenon DEF Succeed, NewStream, StreamTypeOK
  <2>2. extra = SubSeq(stream'[c], h + 1, taken'[c])
    <3> DEFINE s == stream[c]
               t == taken'[c]
    <3>1. s \in Seq(Nat) /\ t \in Nat /\ t <= Len(s) /\ stream'[c] = s
      BY <1>3, ListenerAssumption DEF TcpTypeOK
    <3>2. b = SubSeq(s, 1, t) /\ Len(b) = t
      BY <1>3, Zenon DEF b, First
    <3> HIDE DEF s, t
    <3>3. SubSeq(SubSeq(s, 1, t), h + 1, t) = SubSeq(s, h + 1, t)
      BY <1>11, <3>1, <3>2
    <3> QED BY <1>11, <3>1, <3>2, <3>3, Zenon DEF t
  <2>3. h <= taken'[c]
    BY <1>3, <1>11, Zenon
  <2>4. Cursor(c)'
    BY <1>11, <2>1, <2>2, <2>3, CursorStart, Zenon
  <2> QED BY <1>7, <1>11, <2>4, SucceedSettles, Zenon
<1>12. CASE r.tag = "Ok" /\ VersionAllowed(r.info.version)
            /\ Succeed(c, AfterHeader(b, r.consumed), Some(r.info))
  <2>1. r.consumed \in 1..Len(b)
    BY <1>3, <1>12, ConsumedInBuffer, Zenon DEF r
  <2>2. proxy_info'[c] = Some(r.info) /\ Some(r.info) # None
    BY <1>12 DEF Succeed, NewStream, StreamTypeOK, Some, None
  <2>3. Verdict(c)' = r
    BY <1>5, <1>6, <1>8, <1>12, Zenon
  <2>4. HeaderLen(c)' = r.consumed
    BY <2>2, <2>3, Zenon DEF HeaderLen
  <2>5. Granted(c)'
    BY <1>4, <1>7, <1>12, <2>2, <2>3, VersionWanted, Zenon DEF Granted
  <2>6. r.consumed \in Nat /\ r.consumed <= Len(b)
        /\ AfterHeader(b, r.consumed) = SubSeq(b, r.consumed + 1, Len(b))
    BY <1>3, <2>1 DEF AfterHeader
  <2> QED BY <1>11, <1>12, <2>4, <2>5, <2>6, Zenon
<1>13. CASE r = Incomplete /\ ReadMore(c)
  <2>1. /\ call'[c] = "reading" /\ UNCHANGED <<error, streamvars>>
    BY <1>1, <1>13, Zenon DEF ReadMore
  <2>2. Undecided(c)'
    BY <1>4, <1>6, <1>7, <1>13, <2>1, Zenon DEF Undecided, streamvars, r
  <2> QED BY <2>1, <2>2, Zenon DEF Settled
<1>14. CASE r = NotProxyProtocol /\ decision[c] = Some("Use") /\ Succeed(c, b, None)
  <2>1. proxy_info'[c] = None
    BY <1>14, Zenon DEF Succeed, NewStream, StreamTypeOK
  <2>2. NotProxyProtocol # Incomplete
    BY DEF NotProxyProtocol, Incomplete
  <2>3. Granted(c)' /\ HeaderLen(c)' = 0
    BY <1>4, <1>5, <1>6, <1>14, <2>1, <2>2, Zenon DEF Granted, HeaderLen
  <2>4. 0 \in Nat /\ 0 <= Len(b) /\ b = SubSeq(b, 0 + 1, Len(b))
    BY <1>3
  <2> QED BY <1>11, <1>14, <2>3, <2>4, Zenon
<1>15. CASE /\ r.tag # "Ok" /\ ~ (r = Incomplete /\ MayContinue(b))
            /\ ~ (r = NotProxyProtocol /\ decision[c] = Some("Use"))
            /\ Fail(c, ParseFailed(r))
  <2>1. CASE r = Incomplete
    <3>1. taken'[c] >= MAX_HEADER_SIZE
      BY <1>2, <1>3, <1>15, <2>1 DEF MayContinue
    <3>2. Justified(c, ParseFailed(Incomplete))'
      BY <1>6, <2>1, <3>1, Zenon DEF Justified, r
    <3> QED BY <1>7, <1>15, <2>1, <3>2, FailSettles, Zenon
  <2>2. CASE r # Incomplete
    <3>1. PICK e : e = ParseFailed(r)
      OBVIOUS
    <3>2. Verdict(c)' = r /\ e = ParseFailed(Verdict(c)')
      BY <1>5, <1>6, <2>2, <3>1, Zenon
    <3>3. r = NotProxyProtocol => decision'[c] = Some("Require")
      BY <1>4, <1>7, <1>15, Zenon
    <3>4. Justified(c, e)'
      BY <1>15, <2>2, <3>2, <3>3, Zenon DEF Justified
    <3> QED BY <1>7, <1>15, <3>1, <3>4, FailSettles, Zenon
  <2> QED BY <2>1, <2>2
<1> QED BY <1>4, <1>9, <1>10, <1>12, <1>13, <1>14, <1>15, Zenon DEF Examine

\* A step of the peer: an accepted stream whose end was read is closed to it.
LEMMA PeerSettled ==
  ASSUME TcpTypeOK, CallTypeOK, NEW c \in Conns, Settled(c), PeerStep(c)
  PROVE  Settled(c)'
<1>1. /\ call'[c] = call[c] /\ decision'[c] = decision[c] /\ buf'[c] = buf[c]
      /\ error'[c] = error[c] /\ state'[c] = state[c] /\ leftover'[c] = leftover[c]
      /\ pos'[c] = pos[c] /\ proxy_info'[c] = proxy_info[c] /\ delivered'[c] = delivered[c]
  BY Zenon DEF PeerStep, streamvars, callvars
<1>2. stream'[c] = stream[c] /\ taken'[c] = taken[c]
  BY Zenon DEF PeerStep, Send, Close
<1>3. call[c] \in {"backlog", "waiting", "reading"} \/ state[c] = "open"
  BY Zenon DEF PeerStep, Live
<1>4. CASE call[c] \in {"backlog", "waiting", "reading"}
  <2>1. Undecided(c) => Undecided(c)'
    BY <1>1, <1>2, Zenon DEF Undecided, First
  <2> QED BY <1>1, <1>4, <2>1, Zenon DEF Settled
<1>5. CASE call[c] = "ok" /\ state[c] = "open"
  <2>1. Granted(c) => Granted(c)'
    BY <1>1, <1>2, Zenon DEF Granted, Verdict
  <2>2. Cursor(c) => Cursor(c)'
    BY <1>1, <1>2, <1>5, Zenon DEF Cursor, Mark, HeaderLen, Verdict, LeftoverRemaining
  <2> QED BY <1>1, <1>5, <2>1, <2>2, Zenon DEF Settled, Accepted
<1>6. CASE call[c] \in {"err", "cancelled"} /\ state[c] = "open"
  BY <1>6, Zenon DEF Settled, Refused
<1> QED BY <1>3, <1>4, <1>5, <1>6, Zenon DEF CallTypeOK

\* An application read moves the mark over the octets it delivers.
LEMMA CursorMoves ==
  ASSUME TcpTypeOK, StreamTypeOK, NEW c \in Conns, Cursor(c), NEW n \in Nat, NEW octets,
         Mark(c) + n <= Len(stream[c]),
         octets = SubSeq(stream[c], Mark(c) + 1, Mark(c) + n)
  PROVE  /\ Mark(c) \in Nat
         /\ delivered[c] \o octets = SubSeq(stream[c], HeaderLen(c) + 1, Mark(c) + n)
<1> DEFINE s == stream[c]
           h == HeaderLen(c)
           m == Mark(c)
           k == m - h
<1>1. s \in Seq(Nat) /\ h \in Nat /\ h <= m /\ m + n <= Len(s)
  BY ListenerAssumption DEF TcpTypeOK, Cursor
<1>2. m \in Int
  BY DEF TcpTypeOK, StreamTypeOK, Mark, LeftoverRemaining
<1>3. delivered[c] = SubSeq(s, h + 1, m) /\ octets = SubSeq(s, m + 1, m + n)
  BY DEF Cursor
<1> HIDE DEF s, h, m
<1>4. k \in Nat /\ h + k = m /\ m \in Nat
  BY <1>1, <1>2
<1> HIDE DEF k
<1>5. SubSeq(s, h + 1, h + k) \o SubSeq(s, h + k + 1, h + k + n) = SubSeq(s, h + 1, h + k + n)
  BY <1>1, <1>4, SliceJoin
<1> QED BY <1>3, <1>4, <1>5, Zenon DEF s, h, m

\* The leftover is served: the mark moves inside what was taken.
LEMMA ServeCursor ==
  ASSUME TcpTypeOK, StreamTypeOK, NEW c \in Conns, Cursor(c), state[c] = "open",
         NEW room \in Nat \ {0}, ServeLeftover(c, room)
  PROVE  Cursor(c)' /\ state'[c] = "open"
<1> DEFINE s == stream[c]
           l == leftover[c]
           p == pos[c]
           rem == LeftoverRemaining(c)
           m == Mark(c)
           n == IF rem < room THEN rem ELSE room
           rest == rem - n
           octets == SubSeq(l, p + 1, p + n)
<1>1. /\ s \in Seq(Nat) /\ l \in Seq(Nat) /\ p \in Nat /\ taken[c] \in Nat
      /\ taken[c] <= Len(s) /\ p <= Len(l)
  BY ListenerAssumption DEF TcpTypeOK, StreamTypeOK, Cursor
<1>2. rem = Len(l) - p /\ m = taken[c] - rem /\ rem > 0
  BY DEF LeftoverRemaining, Mark, ServeLeftover
<1>3. /\ delivered'[c] = delivered[c] \o octets /\ pos'[c] = p + n
      /\ state'[c] = "open" /\ leftover'[c] = l /\ proxy_info'[c] = proxy_info[c]
      /\ stream'[c] = s /\ taken'[c] = taken[c]
  BY Zenon DEF ServeLeftover, Deliver, StreamTypeOK, tcpvars
<1>4. SubSeq(l, p + 1, Len(l)) = SubSeq(s, m + 1, taken[c]) /\ HeaderLen(c) \in Nat
      /\ HeaderLen(c) <= m
  BY Zenon DEF Cursor
<1> HIDE DEF s, l, p, rem, m
<1>5. rem \in Nat /\ m \in Nat /\ Len(l) = p + rem /\ taken[c] = m + rem
  <2>1. HeaderLen(c) \in Nat /\ HeaderLen(c) <= m /\ Len(l) \in Nat
    BY <1>1, <1>4
  <2> QED BY <1>1, <1>2, <2>1
<1>6. n \in Nat /\ rest \in Nat /\ n + rest = rem /\ n <= rem
  BY <1>2, <1>5
<1> HIDE DEF n, rest
<1>7. /\ SubSeq(l, p + 1, p + n) = SubSeq(s, m + 1, m + n)
      /\ SubSeq(l, p + n + 1, p + n + rest) = SubSeq(s, m + n + 1, m + n + rest)
  <2>1. SubSeq(l, p + 1, p + (n + rest)) = SubSeq(s, m + 1, m + (n + rest))
    BY <1>4, <1>5, <1>6, Zenon
  <2>2. p + n + rest <= Len(l) /\ m + n + rest <= Len(s)
    BY <1>1, <1>5, <1>6
  <2>3. l \in Seq(Nat) /\ s \in Seq(Nat) /\ p \in Nat /\ m \in Nat /\ n \in Nat /\ rest \in Nat
    BY <1>1, <1>5, <1>6
  <2> QED BY <2>1, <2>2, <2>3, SliceCut, SMTT(30)
<1>8. p + n + rest = Len(l) /\ m + n + rest = taken[c] /\ m + n <= Len(s) /\ p + n <= Len(l)
  BY <1>1, <1>5, <1>6
<1>9. delivered[c] \o octets = SubSeq(s, HeaderLen(c) + 1, m + n)
  BY <1>6, <1>7, <1>8, CursorMoves, Zenon DEF s, m
<1>10. LeftoverRemaining(c)' = Len(l) - (p + n) /\ HeaderLen(c)' = HeaderLen(c)
  BY <1>3, Zenon DEF LeftoverRemaining, HeaderLen, Verdict, s
<1>11. Mark(c)' = m + n /\ HeaderLen(c) <= m + n
  <2>1. Mark(c)' = taken[c] - (Len(l) - (p + n))
    BY <1>3, <1>10, Zenon DEF Mark
  <2> QED BY <1>1, <1>4, <1>5, <1>6, <2>1
<1>12. SubSeq(l, p + n + 1, Len(l)) = SubSeq(s, m + n + 1, taken[c])
  BY <1>7, <1>8, Zenon
<1>13. "open" # "eof"
  OBVIOUS
<1> QED BY <1>3, <1>4, <1>8, <1>9, <1>10, <1>11, <1>12, <1>13, Zenon DEF Cursor

\* The socket is read: the leftover is used up, and the mark moves with taken.
LEMMA DelegateCursor ==
  ASSUME TcpTypeOK, StreamTypeOK, NEW c \in Conns, Cursor(c), state[c] = "open",
         NEW room \in Nat \ {0}, DelegateRead(c, room)
  PROVE  Cursor(c)' /\ state'[c] # "absent"
<1> DEFINE s == stream[c]
           l == leftover[c]
           p == pos[c]
           n == ReadCount(c, room)
<1>1. /\ s \in Seq(Nat) /\ l \in Seq(Nat) /\ p \in Nat /\ taken[c] \in Nat
      /\ p <= Len(l) /\ HeaderLen(c) \in Nat /\ HeaderLen(c) <= Mark(c)
  BY ListenerAssumption DEF TcpTypeOK, StreamTypeOK, Cursor
<1>2. Len(l) - p = 0 /\ LeftoverRemaining(c) = 0 /\ Mark(c) = taken[c] - 0
  BY Zenon DEF DelegateRead, LeftoverRemaining, Mark
<1>3. leftover'[c] = l /\ pos'[c] = p /\ proxy_info'[c] = proxy_info[c]
  BY Zenon DEF DelegateRead
<1>4. LeftoverRemaining(c)' = 0
  BY <1>2, <1>3, Zenon DEF LeftoverRemaining
<1>5. CASE Deliver(c, ReadData(c, room)) /\ Take(c, room) /\ UNCHANGED state
  <2>1. /\ n \in Nat /\ taken'[c] = taken[c] + n /\ stream'[c] = s /\ taken[c] + n <= Len(s)
    <3>1. /\ n \in 1..room /\ taken[c] + n <= arrived[c]
      BY <1>5, ReadProperties DEF Take
    <3>2. arrived[c] \in Nat /\ arrived[c] <= Len(s) /\ Len(s) \in Nat
      BY <1>1 DEF TcpTypeOK
    <3>3. taken'[c] = taken[c] + n /\ stream'[c] = s
      BY <1>5, Zenon DEF Take, TcpTypeOK
    <3> QED BY <1>1, <3>1, <3>2, <3>3
  <2>2. Mark(c) = taken[c]
    BY <1>1, <1>2
  <2>3. /\ delivered'[c] = delivered[c] \o ReadData(c, room) /\ state'[c] = "open"
    BY <1>5, Zenon DEF Deliver, StreamTypeOK
  <2>4. ReadData(c, room) = SubSeq(s, Mark(c) + 1, Mark(c) + n)
    BY <2>2, Zenon DEF ReadData
  <2>5. delivered'[c] = SubSeq(s, HeaderLen(c) + 1, taken'[c])
    BY <2>1, <2>2, <2>3, <2>4, CursorMoves, Zenon
  <2>6. HeaderLen(c)' = HeaderLen(c) /\ Mark(c)' = taken'[c] - 0
    BY <1>3, <1>4, <2>1, Zenon DEF HeaderLen, Verdict, Mark
  <2> HIDE DEF n, s
  <2>7. Mark(c)' = taken'[c] /\ HeaderLen(c) <= taken'[c] /\ taken'[c] \in Nat
    BY <1>1, <2>1, <2>2, <2>6
  <2>8. SubSeq(l, p + 1, Len(l)) = <<>> /\ SubSeq(s, taken'[c] + 1, taken'[c]) = <<>>
    <3> HIDE DEF l, p
    <3>1. Len(l) = p /\ SubSeq(l, p + 1, p) = <<>>
      BY <1>1, <1>2
    <3>2. SubSeq(s, taken'[c] + 1, taken'[c]) = <<>>
      BY <1>1, <2>7
    <3> QED BY <3>1, <3>2, Zenon
  <2>9. "open" # "eof" /\ "open" # "absent"
    OBVIOUS
  <2> QED BY <1>1, <1>3, <2>1, <2>3, <2>5, <2>6, <2>7, <2>8, <2>9, Zenon DEF Cursor, s
<1>6. CASE /\ \/ ReadEof(c) /\ state' = [state EXCEPT ![c] = "eof"]
              \/ state' = [state EXCEPT ![c] = "error"]
           /\ UNCHANGED <<delivered, tcpvars>>
  <2>1. (state'[c] = "eof" /\ ReadEof(c)) \/ state'[c] = "error"
    BY <1>6, Zenon DEF StreamTypeOK
  <2>2. ReadEof(c)' <=> ReadEof(c)
    BY <1>6, Zenon DEF ReadEof, Available, tcpvars
  <2> QED BY <1>3, <1>4, <1>6, <2>1, <2>2, Zenon
          DEF Cursor, Mark, HeaderLen, Verdict, LeftoverRemaining, tcpvars
<1> QED BY <1>5, <1>6, Zenon DEF DelegateRead

\* An application read keeps the invariant of its stream.
LEMMA AppSettled ==
  ASSUME TcpTypeOK, StreamTypeOK, CallTypeOK, NEW c \in Conns, Settled(c), AppStep(c)
  PROVE  Settled(c)'
<1>1. PICK room \in AppReads : poll_read(c, room)
  BY Zenon DEF AppStep
<1>2. room \in Nat \ {0}
  BY ListenerAssumption
<1>3. state[c] = "open" /\ (ServeLeftover(c, room) \/ DelegateRead(c, room))
  BY <1>1, Zenon DEF poll_read
<1>4. call[c] = "ok" /\ Accepted(c)
  BY <1>3, Zenon DEF Settled, Undecided, Refused, CallTypeOK
<1>5. call'[c] = call[c] /\ decision'[c] = decision[c] /\ error'[c] = error[c]
  BY Zenon DEF AppStep, callvars
<1>6. proxy_info'[c] = proxy_info[c] /\ stream'[c] = stream[c]
  BY <1>3, Zenon DEF ServeLeftover, DelegateRead, Take, tcpvars
<1>7. Cursor(c)' /\ state'[c] # "absent"
  BY <1>2, <1>3, <1>4, ServeCursor, DelegateCursor, Zenon DEF Accepted
<1>8. Granted(c)'
  BY <1>4, <1>5, <1>6, Zenon DEF Accepted, Granted, Verdict
<1>9. Accepted(c)'
  BY <1>4, <1>5, <1>7, <1>8, Zenon DEF Accepted
<1> QED BY <1>4, <1>5, <1>9, Zenon DEF Settled

\* Every step of the system keeps the invariant of every connection.
LEMMA DInvStep ==
  ASSUME TcpTypeOK, StreamTypeOK, CallTypeOK, DInv, [Next]_vars
  PROVE  DInv'
<1>1. TcpTypeOK'
  BY TypeStep, Zenon
<1>2. ASSUME \A k \in Conns : Same(k) PROVE DInv'
  BY <1>2, SettledFrame, Zenon DEF DInv
<1>3. ASSUME NEW c \in Conns, Settled(c)',
             (\E d \in Policy[c] : accept(c, d)) \/ CallStep(c) \/ cancel(c)
               \/ PeerStep(c) \/ AppStep(c)
      PROVE  DInv'
  BY <1>3, OthersSame, SettledFrame, Zenon DEF DInv
<1>4. ASSUME NEW c \in Conns, NEW d \in Policy[c], accept(c, d) PROVE DInv'
  BY <1>1, <1>3, <1>4, AcceptSettled, Zenon DEF DInv
<1>5. ASSUME NEW c \in Conns, CallStep(c) PROVE DInv'
  BY <1>1, <1>3, <1>5, PermitSettled, FailSettled, ReadSettled, Zenon DEF DInv, CallStep
<1>6. ASSUME NEW c \in Conns, cancel(c) PROVE DInv'
  BY <1>3, <1>6, CancelSettled, Zenon DEF DInv
<1>7. ASSUME NEW c \in Conns, PeerStep(c) PROVE DInv'
  BY <1>3, <1>7, PeerSettled, Zenon DEF DInv
<1>8. ASSUME NEW c \in Conns, AppStep(c) PROVE DInv'
  BY <1>3, <1>8, AppSettled, Zenon DEF DInv
<1>9. ASSUME Tick PROVE DInv'
  BY <1>2, <1>9, Zenon DEF Tick, Same, tcpvars, streamvars
<1>10. ASSUME UNCHANGED vars PROVE DInv'
  BY <1>2, <1>10, Zenon DEF vars, Same, tcpvars, streamvars, callvars
<1> QED BY <1>4, <1>5, <1>6, <1>7, <1>8, <1>9, <1>10, Zenon DEF Next, Done

\* The initial states satisfy it.
LEMMA InitDInv == Init => DInv
<1> SUFFICES ASSUME Init, NEW c \in Conns PROVE Settled(c)
  BY DEF DInv
<1>1. /\ call[c] = "backlog" /\ state[c] = "absent" /\ proxy_info[c] = None /\ error[c] = None
      /\ delivered[c] = <<>> /\ pos[c] = 0 /\ buf[c] = <<>> /\ taken[c] = 0
  BY Zenon DEF Init, TcpInit, StreamInit, None
<1>2. stream[c] \in Seq(Nat)
  BY ListenerAssumption DEF Init, TcpInit
<1>3. First(c, 0) = <<>>
  BY <1>2 DEF First
<1>4. parse(<<>>) = Incomplete
  BY Zenon DEF parse
<1>5. Undecided(c)
  BY <1>1, <1>3, <1>4, Zenon DEF Undecided
<1> QED BY <1>1, <1>5, Zenon DEF Settled

\* Every reachable state satisfies it, and the invariant of ListenerProofs.
LEMMA DInvInductive == Spec => [](IInv /\ DInv)
<1>1. IInv /\ DInv /\ [Next]_vars => DInv'
  BY DInvStep DEF IInv
<1> QED BY <1>1, InitDInv, IInvInductive, PTL DEF Spec

-----------------------------------------------------------------------------
\* The theorems.

\* What the justification of an error says, by the kind of the error.
LEMMA JustifiedKinds ==
  ASSUME NEW c \in Conns, NEW e, Justified(c, e)
  PROVE  /\ e.kind = "VersionMismatch" =>
              Verdict(c).tag = "Ok" /\ ~ Wanted(Verdict(c).info.version)
         /\ e.kind = "Parse" /\ e.cause[1] = Incomplete =>
              /\ parse(First(c, taken[c])) = Incomplete
              /\ ReadEof(c) \/ taken[c] >= MAX_HEADER_SIZE
         /\ e.kind = "Parse" /\ e.cause[1] # Incomplete =>
              /\ Verdict(c) = e.cause[1]
              /\ Verdict(c) = NotProxyProtocol => decision[c] = Some("Require")
<1>1. /\ \A x : ParseFailed(x).kind = "Parse" /\ ParseFailed(x).cause[1] = x
      /\ \A k : AcceptError(k).kind = k
  BY DEF ParseFailed, AcceptError, Some
<1>2. CASE e \in {AcceptError(kind) : kind \in {"Rejected", "HeaderTimeout", "EmptyConnection",
                                                "Io", "ValidationFailed"}}
  <2>1. e.kind \in {"Rejected", "HeaderTimeout", "EmptyConnection", "Io", "ValidationFailed"}
    BY <1>1, <1>2
  <2> QED BY <2>1
<1>3. CASE e = AcceptError("VersionMismatch")
           /\ Verdict(c).tag = "Ok" /\ ~ Wanted(Verdict(c).info.version)
  BY <1>1, <1>3, Zenon
<1>4. CASE e = ParseFailed(Incomplete)
           /\ parse(First(c, taken[c])) = Incomplete
           /\ (ReadEof(c) \/ taken[c] >= MAX_HEADER_SIZE)
  BY <1>1, <1>4, Zenon
<1>5. CASE e = ParseFailed(Verdict(c)) /\ Verdict(c) # Incomplete
           /\ (Verdict(c) = NotProxyProtocol => decision[c] = Some("Require"))
  BY <1>1, <1>5, Zenon
<1> QED BY <1>2, <1>3, <1>4, <1>5, Zenon DEF Justified

\* What accept returns is what the peer's whole stream deserves, however the
\* stream was cut into segments and reads.
THEOREM OutcomesSound == Spec => []OutcomeSound
<1>1. DInv /\ CallTypeOK => OutcomeSound
  <2> SUFFICES ASSUME DInv, CallTypeOK, NEW c \in Conns PROVE Deserved(c, Verdict(c))
    BY DEF OutcomeSound
  <2>1. Settled(c)
    BY DEF DInv
  <2>2. CASE call[c] \in {"backlog", "waiting", "reading"}
    <3>1. error[c] = None /\ None # Some(AcceptError("VersionMismatch"))
      BY <2>1, <2>2, Zenon DEF Settled, Undecided, None, Some
    <3> QED BY <2>2, <3>1, Zenon DEF Deserved
  <2>3. CASE call[c] = "ok"
    <3>1. error[c] = None /\ None # Some(AcceptError("VersionMismatch"))
      BY <2>1, <2>3, Zenon DEF Settled, Accepted, None, Some
    <3> QED BY <2>1, <2>3, <3>1, Zenon DEF Deserved, Settled, Accepted, Granted
  <2>4. CASE call[c] = "cancelled"
    <3>1. error[c] = None /\ None # Some(AcceptError("VersionMismatch"))
      BY <2>1, <2>4, Zenon DEF Settled, Refused, None, Some
    <3> QED BY <2>4, <3>1, Zenon DEF Deserved
  <2>5. CASE call[c] = "err"
    <3>1. PICK e : error[c] = Some(e) /\ Justified(c, e)
      BY <2>1, <2>5, Zenon DEF Settled, Refused
    <3>2. error[c][1] = e /\ \A x : error[c] = Some(x) => x = e
      BY <3>1 DEF Some
    <3>3. error[c] = Some(AcceptError("VersionMismatch")) => e.kind = "VersionMismatch"
      <4>1. AcceptError("VersionMismatch").kind = "VersionMismatch"
        BY DEF AcceptError
      <4> QED BY <3>2, <4>1, Zenon
    <3> QED BY <2>5, <3>1, <3>2, <3>3, JustifiedKinds, Zenon DEF Deserved
  <2> QED BY <2>2, <2>3, <2>4, <2>5 DEF CallTypeOK
<1>2. IInv /\ DInv => OutcomeSound
  BY <1>1 DEF IInv
<1> QED BY <1>2, DInvInductive, PTL

\* A header is refused as incomplete only at the end of the peer's stream or at
\* the size limit, and only when what was read really decides nothing.
THEOREM IncompleteOnlyWhenJustified == Spec => []IncompleteJustified
<1>1. DInv /\ CallTypeOK => IncompleteJustified
  <2> SUFFICES ASSUME DInv, CallTypeOK, NEW c \in Conns, error[c] = Some(ParseFailed(Incomplete))
               PROVE  /\ parse(First(c, taken[c])) = Incomplete
                      /\ ReadEof(c) \/ taken[c] >= MAX_HEADER_SIZE
    BY DEF IncompleteJustified
  <2>1. error[c] # None
    BY DEF Some, None
  <2>2. PICK e : error[c] = Some(e) /\ Justified(c, e)
    BY <2>1, Zenon DEF DInv, Settled, Undecided, Accepted, Refused, CallTypeOK
  <2>3. e = ParseFailed(Incomplete)
    BY <2>2 DEF Some
  <2>4. e.kind = "Parse" /\ e.cause[1] = Incomplete
    BY <2>3 DEF ParseFailed, Some
  <2> QED BY <2>2, <2>4, JustifiedKinds, Zenon
<1>2. IInv /\ DInv => IncompleteJustified
  BY <1>1 DEF IInv
<1> QED BY <1>2, DInvInductive, PTL

\* A connection with a stream was accepted.
LEMMA HasStream ==
  ASSUME DInv, CallTypeOK, NEW c \in Conns, state[c] # "absent" \/ call[c] = "ok"
  PROVE  call[c] = "ok" /\ Accepted(c)
BY Zenon DEF DInv, Settled, Undecided, Refused, CallTypeOK

\* The mark lies between the header and what was taken from the socket.
LEMMA MarkBounds ==
  ASSUME TcpTypeOK, StreamTypeOK, NEW c \in Conns, Cursor(c)
  PROVE  /\ stream[c] \in Seq(Nat) /\ HeaderLen(c) \in Nat /\ Mark(c) \in Nat
         /\ HeaderLen(c) <= Mark(c) /\ Mark(c) <= taken[c]
         /\ taken[c] \in Nat /\ arrived[c] \in Nat
         /\ taken[c] <= arrived[c] /\ arrived[c] <= Len(stream[c])
<1>1. /\ stream[c] \in Seq(Nat) /\ taken[c] \in Nat /\ arrived[c] \in Nat
      /\ taken[c] <= arrived[c] /\ arrived[c] <= Len(stream[c])
  BY ListenerAssumption DEF TcpTypeOK
<1>2. HeaderLen(c) \in Nat /\ HeaderLen(c) <= Mark(c) /\ pos[c] <= Len(leftover[c])
  BY Zenon DEF Cursor
<1>3. pos[c] \in Nat /\ Len(leftover[c]) \in Nat
  BY DEF StreamTypeOK
<1> QED BY <1>1, <1>2, <1>3 DEF Mark, LeftoverRemaining

\* No octet after the header is lost, repeated or reordered on its way from the
\* socket over the handshake buffer and the leftover to the application.
THEOREM NoOctetLost == Spec => []NothingLost
<1>1. ASSUME TcpTypeOK, StreamTypeOK, CallTypeOK, DInv, NEW c \in Conns, state[c] # "absent"
      PROVE  /\ starts_with(AfterHeaderOf(c, HeaderLen(c)), delivered[c])
             /\ state[c] = "eof" => delivered[c] = AfterHeaderOf(c, HeaderLen(c))
  <2>1. Cursor(c)
    BY <1>1, HasStream, Zenon DEF Accepted
  <2> DEFINE s == stream[c]
             h == HeaderLen(c)
             n == Mark(c) - h
             m == arrived[c] - h
  <2>2. /\ s \in Seq(Nat) /\ h \in Nat /\ n \in Nat /\ m \in Nat /\ n <= m /\ h + m <= Len(s)
        /\ h + n = Mark(c) /\ h + m = arrived[c]
    BY <1>1, <2>1, MarkBounds
  <2>3. delivered[c] = SubSeq(s, h + 1, h + n) /\ AfterHeaderOf(c, h) = SubSeq(s, h + 1, h + m)
    BY <2>1, <2>2, Zenon DEF Cursor, AfterHeaderOf
  <2>4. state[c] = "eof" => n = m
    <3> SUFFICES ASSUME state[c] = "eof" PROVE n = m
      OBVIOUS
    <3>1. arrived[c] - taken[c] = 0 /\ LeftoverRemaining(c) = 0
      BY <2>1, Zenon DEF Cursor, ReadEof, Available
    <3>2. taken[c] \in Nat /\ arrived[c] \in Nat
      BY <1>1 DEF TcpTypeOK
    <3> QED BY <3>1, <3>2 DEF Mark
  <2> HIDE DEF s, h, n, m
  <2>5. starts_with(SubSeq(s, h + 1, h + m), SubSeq(s, h + 1, h + n))
    BY <2>2, SlicePrefix, Zenon
  <2> QED BY <2>3, <2>4, <2>5, Zenon DEF h
<1>2. IInv /\ DInv => NothingLost
  BY <1>1, Zenon DEF IInv, NothingLost
<1> QED BY <1>2, DInvInductive, PTL

\* The client address is the header's only if the policy had it read, and the
\* peer's otherwise; the stream's summary is the one made by hand.
THEOREM ClientAddrSound == Spec => []ClientAddrFaithful
<1>1. ASSUME DInv, CallTypeOK, NEW c \in Conns, call[c] = "ok"
      PROVE  LET sources == IF decision[c] = Some("Ignore") THEN {} ELSE IpSource(Verdict(c))
             IN  /\ connect_info(c).client_addr \in
                      IF sources = {} THEN {<<"peer", c>>} ELSE {<<"header", a>> : a \in sources}
                 /\ connect_info(c) = IF proxy_info[c] = None THEN from_addr(c)
                                      ELSE from_pair(proxy_info[c][1], c)
  <2> DEFINE sources == IF decision[c] = Some("Ignore") THEN {} ELSE IpSource(Verdict(c))
  <2>1. Granted(c)
    BY <1>1, HasStream, Zenon DEF Accepted
  <2>2. connect_info(c).client_addr = client_addr(c)
    BY DEF connect_info, ProxyConnectInfo
  <2>3. CASE proxy_info[c] = None
    <3>1. sources = {}
      <4>1. NotProxyProtocol.tag # "Ok"
        BY Tags
      <4> QED BY <2>1, <2>3, <4>1, Zenon DEF Granted, IpSource
    <3>2. client_addr(c) = <<"peer", c>>
      BY <2>3, Zenon DEF client_addr, OrPeer, None
    <3>3. connect_info(c) = from_addr(c)
      BY <2>3, <3>2, Zenon DEF connect_info, from_addr, None
    <3> QED BY <2>2, <2>3, <3>1, <3>2, <3>3, Zenon
  <2>4. CASE proxy_info[c] # None
    <3> DEFINE info == Verdict(c).info
    <3>1. /\ Verdict(c).tag = "Ok" /\ proxy_info[c] = Some(info)
          /\ decision[c] \in {Some("Require"), Some("Use")}
      BY <2>1, <2>4, Zenon DEF Granted
    <3>2. decision[c] # Some("Ignore") /\ proxy_info[c][1] = info
      BY <3>1 DEF Some
    <3>3. IsOption(info.source)
      BY <3>1, SourceOption, Zenon DEF Verdict
    <3> HIDE DEF info
    <3>4. sources = {a \in Range(info.source) : a.kind = "Inet"}
      BY <3>1, <3>2, Zenon DEF IpSource, info
    <3>5. client_addr(c) = OrPeer(source_inet(info), c)
      BY <2>4, <3>2, Zenon DEF client_addr, None
    <3>6. connect_info(c) = from_pair(info, c)
      BY <3>1, <3>5, Zenon DEF connect_info, from_pair, Some
    <3>7. CASE info.source = None
      <4>1. Range(None) = {}
        BY DEF Range, None
      <4>2. sources = {} /\ client_addr(c) = <<"peer", c>>
        BY <3>4, <3>5, <3>7, <4>1, Zenon DEF source_inet, OrPeer, None
      <4> QED BY <2>2, <2>4, <3>2, <3>6, <4>2, Zenon
    <3>8. ASSUME NEW a, info.source = Some(a)
          PROVE  client_addr(c) \in IF sources = {} THEN {<<"peer", c>>}
                                    ELSE {<<"header", x>> : x \in sources}
      <4>1. Range(Some(a)) = {a} /\ Some(a)[1] = a /\ Some(a) # <<>>
        BY DEF Range, Some
      <4>2. source_inet(info) = as_inet(a)
        BY <3>8, <4>1, Zenon DEF source_inet
      <4>3. CASE a.kind = "Inet"
        <5>1. sources = {a}
          BY <3>4, <3>8, <4>1, <4>3, Zenon
        <5>2. client_addr(c) = <<"header", a>>
          <6>1. as_inet(a) = Some(a)
            BY <4>3, Zenon DEF as_inet, Some
          <6> QED BY <3>5, <4>1, <4>2, <6>1, Zenon DEF OrPeer
        <5> QED BY <5>1, <5>2, Zenon
      <4>4. CASE a.kind # "Inet"
        <5>1. sources = {}
          BY <3>4, <3>8, <4>1, <4>4, Zenon
        <5>2. client_addr(c) = <<"peer", c>>
          BY <3>5, <4>2, <4>4, Zenon DEF as_inet, OrPeer
        <5> QED BY <5>1, <5>2, Zenon
      <4> QED BY <4>3, <4>4
    <3> QED BY <2>2, <2>4, <3>2, <3>3, <3>6, <3>7, <3>8, Zenon DEF IsOption
  <2> QED BY <2>3, <2>4
<1>2. IInv /\ DInv => ClientAddrFaithful
  BY <1>1, Zenon DEF IInv, ClientAddrFaithful
<1> QED BY <1>2, DInvInductive, PTL

\* Of the ways a handshake that reads may end, only the deadline reports a timeout.
LEMMA TimeoutStep ==
  ASSUME TcpTypeOK, StreamTypeOK, CallTypeOK, DInv, [Next]_vars, NEW c \in Conns,
         call[c] = "reading", error'[c] = Some(AcceptError("HeaderTimeout"))
  PROVE  read_timeout(c)
<1>1. error'[c] # error[c]
  <2>1. error[c] = None
    BY Zenon DEF DInv, Settled, Undecided
  <2>2. None # Some(AcceptError("HeaderTimeout"))
    BY DEF None, Some
  <2> QED BY <2>1, <2>2, Zenon
<1>2. ~ Same(c) /\ ~ UNCHANGED error
  BY <1>1, Zenon DEF Same
<1>3. (\E d \in Policy[c] : accept(c, d)) \/ CallStep(c) \/ cancel(c) \/ PeerStep(c) \/ AppStep(c)
  BY <1>2, OthersSame, Zenon DEF Next, Tick, Done, vars, callvars
<1>4. read(c) \/ read_eof(c) \/ read_error(c) \/ read_timeout(c)
  <2>1. "reading" # "backlog" /\ "reading" # "waiting"
    OBVIOUS
  <2> QED BY <1>2, <1>3, <2>1, Zenon DEF accept, CallStep, permit_acquired, permit_timeout, cancel,
                                         PeerStep, AppStep, callvars
<1>5. ASSUME NEW e, Fail(c, e) PROVE e.kind = "HeaderTimeout"
  <2>1. error'[c] = Some(e)
    BY <1>5, Zenon DEF Fail, CallTypeOK
  <2>2. Some(e) = Some(AcceptError("HeaderTimeout"))
    BY <2>1
  <2>3. e = AcceptError("HeaderTimeout")
    BY <2>2 DEF Some
  <2> QED BY <2>3 DEF AcceptError
<1>6. /\ AcceptError("VersionMismatch").kind # "HeaderTimeout"
      /\ AcceptError("ValidationFailed").kind # "HeaderTimeout"
      /\ AcceptError("EmptyConnection").kind # "HeaderTimeout"
      /\ AcceptError("Io").kind # "HeaderTimeout"
      /\ \A x : ParseFailed(x).kind # "HeaderTimeout"
  BY DEF AcceptError, ParseFailed
<1>7. ~ read(c)
  <2> SUFFICES ASSUME read(c) PROVE FALSE
    OBVIOUS
  <2> DEFINE b == buf[c] \o ReadData(c, READ_SIZE)
  <2>1. Examine(c, b, parse(b))
    BY Zenon DEF read
  <2> HIDE DEF b
  <2>2. ~ Fail(c, AcceptError("VersionMismatch")) /\ ~ Fail(c, AcceptError("ValidationFailed"))
        /\ ~ Fail(c, ParseFailed(parse(b)))
    BY <1>5, <1>6, Zenon
  <2>3. ~ ReadMore(c) /\ \A extra, info : ~ Succeed(c, extra, info)
    BY <1>2, Zenon DEF ReadMore, Succeed
  <2> QED BY <2>1, <2>2, <2>3, Zenon DEF Examine
<1>8. ~ read_eof(c) /\ ~ read_error(c)
  BY <1>5, <1>6, Zenon DEF read_eof, read_error
<1> QED BY <1>4, <1>7, <1>8

\* The deadline of a handshake fires only when every octet that has arrived was
\* read and parsed and still decides nothing.
THEOREM DeadlineNeverBeatsData == Spec => TimeoutOnlyWhenUndecided
<1>1. ASSUME TcpTypeOK, StreamTypeOK, CallTypeOK, DInv, [Next]_vars, NEW c \in Conns,
             call[c] = "reading", error'[c] = Some(AcceptError("HeaderTimeout"))
      PROVE  parse(First(c, arrived[c])) = Incomplete
  <2>1. Available(c) = 0
    BY <1>1, TimeoutStep, Zenon DEF read_timeout, ReadPending
  <2>2. arrived[c] = taken[c]
    BY <1>1, <2>1 DEF Available, TcpTypeOK
  <2> QED BY <1>1, <2>2, Zenon DEF DInv, Settled, Undecided
<1>2. IInv /\ DInv /\ [Next]_vars =>
        [\A c \in Conns :
           call[c] = "reading" /\ error'[c] = Some(AcceptError("HeaderTimeout")) =>
             parse(First(c, arrived[c])) = Incomplete]_vars
  BY <1>1, Zenon DEF IInv
<1> QED BY <1>2, DInvInductive, PTL DEF Spec, TimeoutOnlyWhenUndecided
=============================================================================
