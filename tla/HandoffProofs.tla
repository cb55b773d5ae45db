--------------------------- MODULE HandoffProofs ----------------------------
(***************************************************************************)
(* The listener and its streams implement Handoff, for every value of the  *)
(* constants: each step of a connection is one of Handoff or invisible.    *)
(***************************************************************************)
EXTENDS Implements, OutcomeProofs

\* Initially no connection is settled and nothing is delivered.
LEMMA InitRefines == Init => H!HInit
<1> SUFFICES ASSUME Init PROVE H!HInit
  OBVIOUS
<1>1. \A c \in Conns : OutcomeOf(c) = "pending" /\ EndingOf(c) = "open"
  BY DEF Init, StreamInit, OutcomeOf, EndingOf
<1> QED BY <1>1, Zenon DEF H!HInit, Init, TcpInit, StreamInit

-----------------------------------------------------------------------------
\* proxy_info is a function, so that updating it with the value it has changes
\* nothing.
InfoFcn == proxy_info = [c \in Conns |-> proxy_info[c]]

\* The metadata is assigned by ProxiedStream::new only.
LEMMA InfoFcnStep ==
  ASSUME TcpTypeOK, StreamTypeOK, CallTypeOK, InfoFcn, [Next]_vars
  PROVE  InfoFcn'
<1>1. ASSUME UNCHANGED proxy_info PROVE InfoFcn'
  BY <1>1, Zenon DEF InfoFcn
<1>2. ASSUME NEW c \in Conns, NEW extra, NEW info, Succeed(c, extra, info) PROVE InfoFcn'
  BY <1>2 DEF InfoFcn, Succeed, NewStream
<1>3. ASSUME NEW c \in Conns, NEW d \in Policy[c], accept(c, d) PROVE InfoFcn'
  BY <1>1, <1>2, <1>3, Zenon DEF accept, Fail, BeginHandshake, streamvars
<1>4. ASSUME NEW c \in Conns, read(c) PROVE InfoFcn'
  <2>1. ReadMore(c) \/ (\E e : Fail(c, e)) \/ (\E extra, info : Succeed(c, extra, info))
    BY <1>4, ReadOutcome, Zenon
  <2> QED BY <1>1, <1>2, <2>1, Zenon DEF ReadMore, Fail, streamvars
<1>5. ASSUME NEW c \in Conns, CallStep(c) \/ cancel(c), ~ read(c) PROVE InfoFcn'
  BY <1>1, <1>5, Zenon DEF CallStep, permit_acquired, permit_timeout, read_eof, read_error,
                           read_timeout, cancel, Fail, streamvars
<1>6. ASSUME NEW c \in Conns, PeerStep(c) \/ AppStep(c) PROVE InfoFcn'
  BY <1>1, <1>6, Zenon DEF PeerStep, AppStep, poll_read, ServeLeftover, DelegateRead, streamvars
<1>7. ASSUME Tick \/ UNCHANGED vars PROVE InfoFcn'
  BY <1>1, <1>7, Zenon DEF Tick, vars, streamvars
<1> QED BY <1>3, <1>4, <1>5, <1>6, <1>7, Zenon DEF Next, Done

-----------------------------------------------------------------------------
\* The mapping.

\* What Handoff sees of a connection is fixed by what its invariant is about.
LEMMA MappedFrame ==
  ASSUME NEW k \in Conns, call'[k] = call[k], proxy_info'[k] = proxy_info[k],
         state'[k] = state[k]
  PROVE  OutcomeOf(k)' = OutcomeOf(k) /\ EndingOf(k)' = EndingOf(k)
BY Zenon DEF OutcomeOf, EndingOf

\* The outcome of a connection, by what became of its call.
LEMMA OutcomeCases ==
  ASSUME NEW c \in Conns
  PROVE  /\ call[c] \in {"backlog", "waiting", "reading"} => OutcomeOf(c) = "pending"
         /\ call[c] \in {"err", "cancelled"} => OutcomeOf(c) = "refused"
         /\ call[c] = "ok" /\ proxy_info[c] = None => OutcomeOf(c) = "direct"
         /\ call[c] = "ok" /\ proxy_info[c] # None => OutcomeOf(c) = "proxied"
BY DEF OutcomeOf

\* The same after a step.
LEMMA OutcomeCasesNext ==
  ASSUME NEW c \in Conns
  PROVE  /\ call'[c] \in {"backlog", "waiting", "reading"} => OutcomeOf(c)' = "pending"
         /\ call'[c] \in {"err", "cancelled"} => OutcomeOf(c)' = "refused"
         /\ call'[c] = "ok" /\ proxy_info'[c] = None => OutcomeOf(c)' = "direct"
         /\ call'[c] = "ok" /\ proxy_info'[c] # None => OutcomeOf(c)' = "proxied"
BY DEF OutcomeOf

\* What Handoff calls the body is what has arrived after the header.
LEMMA BodyIs ==
  ASSUME NEW c \in Conns, call[c] = "ok", Accepted(c)
  PROVE  H!Body(c) = AfterHeaderOf(c, HeaderLen(c))
<1>1. [k \in Conns |-> OutcomeOf(k)][c] = OutcomeOf(c)
  OBVIOUS
<1>2. HeaderLen(c) \in Nat
  BY Zenon DEF Accepted, Cursor
<1>3. H!Body(c) = SubSeq(stream[c], 1 + HeaderLen(c), arrived[c])
  <2>1. CASE proxy_info[c] = None
    <3>1. OutcomeOf(c) # "proxied" /\ HeaderLen(c) = 0
      BY <2>1, OutcomeCases DEF HeaderLen
    <3> QED BY <1>1, <3>1, Zenon DEF H!Body
  <2>2. CASE proxy_info[c] # None
    <3>1. OutcomeOf(c) = "proxied"
      BY <2>2, OutcomeCases, Zenon
    <3>2. Verdict(c).tag = "Ok"
      BY <2>2, Zenon DEF Accepted, Granted
    <3>3. HeaderOf(stream[c])[1].len = HeaderLen(c)
      BY <2>2, <3>2 DEF HeaderOf, HeaderIn, Some, HeaderLen, Verdict
    <3> QED BY <1>1, <3>1, <3>3, Zenon DEF H!Body
  <2> QED BY <2>1, <2>2
<1>4. 1 + HeaderLen(c) = HeaderLen(c) + 1
  BY <1>2
<1> QED BY <1>3, <1>4, Zenon DEF AfterHeaderOf

-----------------------------------------------------------------------------
\* The steps.  All that Handoff can see of the other connections is unchanged.

\* Handoff sees nothing of a step that changes nothing it maps to.
LEMMA Invisible ==
  ASSUME stream' = stream, arrived' = arrived, peer' = peer, delivered' = delivered,
         call' = call, proxy_info' = proxy_info, state' = state
  PROVE  UNCHANGED H!hvars
<1>1. \A k \in Conns : OutcomeOf(k)' = OutcomeOf(k) /\ EndingOf(k)' = EndingOf(k)
  BY MappedFrame, Zenon
<1>2. /\ [k \in Conns |-> OutcomeOf(k)]' = [k \in Conns |-> OutcomeOf(k)]
      /\ [k \in Conns |-> EndingOf(k)]' = [k \in Conns |-> EndingOf(k)]
  BY <1>1, Zenon
<1> QED BY <1>2, Zenon DEF H!hvars

\* A step of a call that has not returned settles its connection or is invisible:
\* the stream it hands over has delivered nothing yet.
LEMMA CallRefines ==
  ASSUME TcpTypeOK, StreamTypeOK, CallTypeOK, InfoFcn, DInv, InfoFcn', CallTypeOK', DInv',
         TcpTypeOK', StreamTypeOK', NEW c \in Conns,
         (\E d \in Policy[c] : accept(c, d)) \/ CallStep(c) \/ cancel(c)
  PROVE  H!Settle(c) \/ UNCHANGED H!hvars
<1> DEFINE out == [k \in Conns |-> OutcomeOf(k)]
           end == [k \in Conns |-> EndingOf(k)]
<1>1. call[c] \in {"backlog", "waiting", "reading"} /\ Undecided(c) /\ OutcomeOf(c) = "pending"
  <2>1. call[c] \in {"backlog", "waiting", "reading"}
    BY Zenon DEF accept, CallStep, permit_acquired, permit_timeout, read, read_eof, read_error,
                 read_timeout, cancel, InFlight
  <2> QED BY <2>1, OutcomeCases, Zenon DEF DInv, Settled
<1>2. UNCHANGED <<stream, arrived, peer, delivered>>
  <2>1. CASE read(c)
    <3>1. ReadMore(c) \/ (\E e : Fail(c, e)) \/ (\E extra, info : Succeed(c, extra, info))
      BY <2>1, ReadOutcome, Zenon
    <3> QED BY <2>1, <3>1, Zenon DEF read, Take, ReadMore, Fail, Succeed, NewStream, streamvars
  <2>2. CASE ~ read(c)
    BY <2>2, Zenon DEF accept, BeginHandshake, CallStep, permit_acquired, permit_timeout, read_eof,
                       read_error, read_timeout, cancel, Fail, Succeed, NewStream, tcpvars, streamvars
  <2> QED BY <2>1, <2>2
<1>3. \A k \in Conns : k # c => /\ OutcomeOf(k)' = OutcomeOf(k) /\ EndingOf(k)' = EndingOf(k)
                               /\ proxy_info'[k] = proxy_info[k]
  BY OthersSame, MappedFrame, Zenon DEF Same
<1>4. EndingOf(c)' = EndingOf(c)
  <2>1. state'[c] \in {"absent", "open"}
    <3>1. state' = state \/ state' = [state EXCEPT ![c] = "open"]
      <4>1. CASE read(c)
        <5>1. ReadMore(c) \/ (\E e : Fail(c, e)) \/ (\E extra, info : Succeed(c, extra, info))
          BY <4>1, ReadOutcome, Zenon
        <5> QED BY <5>1, Zenon DEF ReadMore, Fail, Succeed, NewStream, streamvars
      <4>2. CASE ~ read(c)
        BY <4>2, Zenon DEF accept, BeginHandshake, CallStep, permit_acquired, permit_timeout,
                           read_eof, read_error, read_timeout, cancel, Fail, Succeed, NewStream,
                           streamvars
      <4> QED BY <4>1, <4>2
    <3> QED BY <1>1, <3>1, Zenon DEF Undecided, StreamTypeOK
  <2> QED BY <1>1, <2>1, Zenon DEF EndingOf, Undecided
<1>5. end' = end
  BY <1>3, <1>4, Zenon
<1>6. out' = [out EXCEPT ![c] = OutcomeOf(c)'] /\ out[c] = "pending"
  BY <1>1, <1>3, Zenon
<1>7. ASSUME proxy_info'[c] = proxy_info[c] PROVE proxy_info' = proxy_info
  <2>1. \A k \in Conns : proxy_info'[k] = proxy_info[k]
    BY <1>3, <1>7, Zenon
  <2> QED BY <2>1, Zenon DEF InfoFcn
<1> HIDE DEF out, end
<1>8. CASE call'[c] \in {"backlog", "waiting", "reading"}
  <2>1. OutcomeOf(c)' = "pending" /\ proxy_info'[c] = proxy_info[c]
    BY <1>1, <1>8, OutcomeCasesNext, Zenon DEF DInv, Settled, Undecided
  <2>2. out' = out
    BY <1>6, <2>1, Zenon DEF out
  <2> QED BY <1>2, <1>5, <1>7, <2>1, <2>2, Zenon DEF H!hvars, out, end
<1>9. CASE call'[c] \in {"err", "cancelled"}
  <2>1. OutcomeOf(c)' = "refused" /\ proxy_info'[c] = proxy_info[c]
    BY <1>1, <1>9, OutcomeCasesNext, Zenon DEF DInv, Settled, Undecided, Refused
  <2> QED BY <1>2, <1>5, <1>6, <1>7, <2>1, Zenon DEF H!Settle, out, end
<1>10. CASE call'[c] = "ok" /\ proxy_info'[c] = None
  <2>1. OutcomeOf(c)' = "direct" /\ proxy_info'[c] = proxy_info[c]
    BY <1>1, <1>10, OutcomeCasesNext, Zenon DEF Undecided
  <2> QED BY <1>2, <1>5, <1>6, <1>7, <2>1, Zenon DEF H!Settle, out, end
<1>11. CASE call'[c] = "ok" /\ proxy_info'[c] # None
  <2>1. OutcomeOf(c)' = "proxied"
    BY <1>11, OutcomeCasesNext, Zenon
  <2>2. Granted(c)' /\ Cursor(c)' /\ Verdict(c)' = Verdict(c)
    BY <1>2, <1>11, Zenon DEF DInv, Settled, Accepted, Verdict
  <2>3. Verdict(c).tag = "Ok" /\ proxy_info'[c] = Some(Verdict(c).info)
    BY <1>11, <2>2, Zenon DEF Granted
  <2>4. HeaderOf(stream[c]) = Some([info |-> Verdict(c).info, len |-> Verdict(c).consumed])
    BY <2>3, Zenon DEF HeaderOf, HeaderIn, Verdict
  <2>5. /\ HeaderOf(stream[c]) # <<>> /\ HeaderOf(stream[c])[1].info = Verdict(c).info
        /\ HeaderOf(stream[c])[1].len = Verdict(c).consumed
    BY <2>4 DEF Some
  <2>6. Verdict(c).consumed <= arrived[c]
    <3>1. HeaderLen(c)' = Verdict(c).consumed
      BY <1>11, <2>2, Zenon DEF HeaderLen
    <3>2. HeaderLen(c)' \in Nat /\ HeaderLen(c)' <= Mark(c)' /\ pos'[c] <= Len(leftover'[c])
      BY <2>2, Zenon DEF Cursor
    <3>3. /\ taken'[c] \in Nat /\ arrived[c] \in Nat /\ taken'[c] <= arrived[c]
          /\ pos'[c] \in Nat /\ Len(leftover'[c]) \in Nat
      BY <1>2 DEF TcpTypeOK, StreamTypeOK
    <3>4. Mark(c)' = taken'[c] - (Len(leftover'[c]) - pos'[c])
      BY DEF Mark, LeftoverRemaining
    <3> QED BY <3>1, <3>2, <3>3, <3>4
  <2>7. proxy_info' = [proxy_info EXCEPT ![c] = <<HeaderOf(stream[c])[1].info>>]
    <3>1. proxy_info'[c] = <<HeaderOf(stream[c])[1].info>>
      BY <2>3, <2>5, Zenon DEF Some
    <3> QED BY <1>3, <3>1, Zenon DEF InfoFcn
  <2> QED BY <1>2, <1>5, <1>6, <2>1, <2>5, <2>6, <2>7, Zenon DEF H!Settle, out, end
<1> QED BY <1>8, <1>9, <1>10, <1>11, Zenon DEF CallTypeOK

\* A step of a peer is one of Handoff's peer.
LEMMA PeerRefines ==
  ASSUME TcpTypeOK, NEW c \in Conns, PeerStep(c)
  PROVE  H!PeerSends(c) \/ H!PeerCloses(c)
<1> DEFINE out == [k \in Conns |-> OutcomeOf(k)]
           end == [k \in Conns |-> EndingOf(k)]
<1>1. UNCHANGED <<call, state, proxy_info, delivered>>
  BY Zenon DEF PeerStep, streamvars, callvars
<1>2. out' = out /\ end' = end
  <2>1. \A k \in Conns : OutcomeOf(k)' = OutcomeOf(k) /\ EndingOf(k)' = EndingOf(k)
    BY <1>1, MappedFrame, Zenon
  <2> QED BY <2>1, Zenon
<1> HIDE DEF out, end
<1>3. ASSUME NEW n \in Segments, Send(c, n) PROVE H!PeerSends(c)
  <2>1. n \in Nat \ {0} /\ arrived[c] \in Nat /\ Len(stream[c]) \in Nat
    BY ListenerAssumption DEF TcpTypeOK
  <2>2. arrived[c] + n \in (arrived[c] + 1)..Len(stream[c])
    BY <1>3, <2>1 DEF Send
  <2> QED BY <1>1, <1>2, <1>3, <2>2, Zenon DEF Send, H!PeerSends, out, end
<1>4. ASSUME NEW how \in {"fin", "rst"}, Close(c, how) PROVE H!PeerCloses(c)
  BY <1>1, <1>2, <1>4, Zenon DEF Close, H!PeerCloses, out, end
<1> QED BY <1>3, <1>4, Zenon DEF PeerStep

\* A read that returns data returns at least one octet.
LEMMA AppDelivers ==
  ASSUME TcpTypeOK, StreamTypeOK, NEW c \in Conns, NEW room \in Nat \ {0},
         \/ ServeLeftover(c, room)
         \/ DelegateRead(c, room) /\ Deliver(c, ReadData(c, room)) /\ Take(c, room)
  PROVE  \E octets \in Seq(Nat) : Len(octets) > 0 /\ delivered'[c] = delivered[c] \o octets
<1>1. CASE ServeLeftover(c, room)
  <2> DEFINE l == leftover[c]
             p == pos[c]
             rem == LeftoverRemaining(c)
             n == IF rem < room THEN rem ELSE room
             octets == SubSeq(l, p + 1, p + n)
  <2>1. l \in Seq(Nat) /\ p \in Nat /\ rem = Len(l) - p /\ rem > 0
    BY <1>1 DEF StreamTypeOK, ServeLeftover, LeftoverRemaining
  <2>2. delivered'[c] = delivered[c] \o octets
    BY <1>1, Zenon DEF ServeLeftover, Deliver, StreamTypeOK
  <2> HIDE DEF l, p, rem
  <2>3. n \in Nat /\ n > 0 /\ p + n <= Len(l)
    BY <2>1
  <2> HIDE DEF n
  <2>4. octets \in Seq(Nat) /\ Len(octets) = n
    BY <2>1, <2>3
  <2>5. Len(octets) > 0
    BY <2>3, <2>4, Zenon
  <2> QED BY <2>2, <2>4, <2>5, Zenon
<1>2. CASE Deliver(c, ReadData(c, room)) /\ Take(c, room)
  <2>1. ReadData(c, room) \in Seq(Nat) /\ Len(ReadData(c, room)) > 0
    BY <1>2, ReadProperties DEF Take
  <2>2. delivered'[c] = delivered[c] \o ReadData(c, room)
    BY <1>2, Zenon DEF Deliver, StreamTypeOK
  <2> QED BY <2>1, <2>2, Zenon
<1> QED BY <1>1, <1>2

\* An application read delivers the next octets of the body, reports its end once
\* all of it is delivered, or reports the peer's reset.
LEMMA AppRefines ==
  ASSUME TcpTypeOK, StreamTypeOK, CallTypeOK, DInv, TcpTypeOK', StreamTypeOK', CallTypeOK', DInv',
         NEW c \in Conns, AppStep(c)
  PROVE  H!Reads(c)
<1> DEFINE out == [k \in Conns |-> OutcomeOf(k)]
           end == [k \in Conns |-> EndingOf(k)]
           s == stream[c]
           h == HeaderLen(c)
<1>1. PICK room \in AppReads : poll_read(c, room)
  BY Zenon DEF AppStep
<1>2. room \in Nat \ {0}
  BY ListenerAssumption
<1>3. state[c] = "open" /\ (ServeLeftover(c, room) \/ DelegateRead(c, room))
  BY <1>1, Zenon DEF poll_read
<1>4. call[c] = "ok" /\ Accepted(c)
  BY <1>3, HasStream, Zenon
<1>5. UNCHANGED <<call, proxy_info, stream, arrived, peer>>
  BY <1>3, Zenon DEF AppStep, ServeLeftover, DelegateRead, Take, tcpvars, callvars
<1>6. out' = out /\ out[c] \in {"direct", "proxied"} /\ end[c] = "open"
  <2>1. \A k \in Conns : OutcomeOf(k)' = OutcomeOf(k)
    BY <1>5, Zenon DEF OutcomeOf
  <2>2. OutcomeOf(c) \in {"direct", "proxied"}
    BY <1>4, OutcomeCases, Zenon
  <2>3. EndingOf(c) = "open"
    BY <1>3 DEF EndingOf
  <2> QED BY <2>1, <2>2, <2>3, Zenon
<1>7. end' = [end EXCEPT ![c] = EndingOf(c)']
  <2>1. \A k \in Conns : k # c => EndingOf(k)' = EndingOf(k)
    BY OthersSame, MappedFrame, Zenon DEF Same
  <2> QED BY <2>1, Zenon
<1>8. H!Body(c) = SubSeq(s, h + 1, arrived[c])
  BY <1>4, BodyIs, Zenon DEF AfterHeaderOf
<1>9. Cursor(c) /\ Cursor(c)' /\ HeaderLen(c)' = h
  <2>1. Accepted(c)'
    BY <1>4, <1>5, Zenon DEF DInv, Settled
  <2> QED BY <1>4, <1>5, <2>1, Zenon DEF Accepted, HeaderLen, Verdict
<1>10. /\ s \in Seq(Nat) /\ h \in Nat /\ h <= Mark(c) /\ Mark(c) \in Nat
       /\ Mark(c) <= taken[c] /\ taken[c] <= arrived[c] /\ arrived[c] <= Len(s)
       /\ taken[c] \in Nat /\ arrived[c] \in Nat
  BY <1>9, MarkBounds
<1> HIDE DEF out, end
<1>11. CASE \/ ServeLeftover(c, room)
            \/ DelegateRead(c, room) /\ Deliver(c, ReadData(c, room)) /\ Take(c, room) /\ UNCHANGED state
  <2> DEFINE m == Mark(c)'
             n == m - h
             body == SubSeq(s, h + 1, arrived[c])
  <2>1. m \in Nat /\ h <= m /\ m <= arrived[c]
    <3>1. /\ taken'[c] \in Nat /\ taken'[c] <= arrived[c]
          /\ pos'[c] \in Nat /\ Len(leftover'[c]) \in Nat
      BY <1>5 DEF TcpTypeOK, StreamTypeOK
    <3>2. h <= m /\ pos'[c] <= Len(leftover'[c])
      BY <1>9, Zenon DEF Cursor
    <3>3. m = taken'[c] - (Len(leftover'[c]) - pos'[c])
      BY Zenon DEF Mark, LeftoverRemaining
    <3>4. h \in Nat /\ arrived[c] \in Nat
      BY <1>10, Zenon
    <3> HIDE DEF m, h
    <3>5. m \in Int /\ m <= taken'[c]
      BY <3>1, <3>2, <3>3
    <3> QED BY <3>1, <3>2, <3>4, <3>5
  <2>2. delivered'[c] = SubSeq(s, h + 1, m)
    BY <1>5, <1>9, Zenon DEF Cursor
  <2> HIDE DEF m, s, h
  <2>3. n \in Nat /\ h + n = m /\ n <= arrived[c] - h
    BY <1>10, <2>1
  <2>4. Len(body) = arrived[c] - h /\ Len(delivered'[c]) = n
    BY <1>10, <2>1, <2>2
  <2>5. delivered'[c] = SubSeq(body, 1, n)
    <3> DEFINE k == arrived[c] - h
    <3>1. k \in Nat /\ h + k = arrived[c] /\ n <= k /\ h + k <= Len(s)
      BY <1>10, <2>1, <2>3
    <3> HIDE DEF k, n
    <3>2. s \in Seq(Nat) /\ h \in Nat /\ n \in Nat /\ k \in Nat
      BY <1>10, <2>3, <3>1, Zenon
    <3>3. SubSeq(SubSeq(s, h + 1, h + k), 1, n) = SubSeq(s, h + 1, h + n)
      BY <3>1, <3>2, SlicePrefix, Zenon
    <3> QED BY <2>2, <2>3, <3>1, <3>3, Zenon
  <2>6. Len(delivered[c]) + 1 <= n /\ Len(delivered[c]) \in Nat
    <3>1. PICK octets \in Seq(Nat) : Len(octets) > 0 /\ delivered'[c] = delivered[c] \o octets
      BY <1>2, <1>11, AppDelivers, Zenon
    <3>2. delivered[c] \in Seq(Nat)
      BY DEF StreamTypeOK
    <3>3. Len(delivered'[c]) = Len(delivered[c]) + Len(octets)
      BY <3>1, <3>2, Concatenation, Zenon
    <3>4. Len(octets) \in Nat /\ Len(delivered[c]) \in Nat
      BY <3>1, <3>2
    <3> HIDE DEF n
    <3> QED BY <2>4, <3>1, <3>3, <3>4
  <2>7. n \in (Len(delivered[c]) + 1)..Len(body)
    <3> HIDE DEF n, body
    <3> QED BY <1>10, <2>3, <2>4, <2>6
  <2>8. delivered' = [delivered EXCEPT ![c] = SubSeq(body, 1, n)]
    <3>1. delivered' = [delivered EXCEPT ![c] = delivered'[c]]
      BY <1>11 DEF ServeLeftover, Deliver, StreamTypeOK
    <3> QED BY <2>5, <3>1, Zenon
  <2>9. end' = end
    <3>1. EndingOf(c)' = "open"
      BY <1>3, <1>11 DEF ServeLeftover, EndingOf
    <3> QED BY <1>6, <1>7, <3>1, Zenon DEF end
  <2> HIDE DEF body, n
  <2>10. H!Body(c) = body
    BY <1>8, Zenon DEF body, s, h
  <2> QED BY <1>5, <1>6, <2>7, <2>8, <2>9, <2>10, Zenon DEF H!Reads, out, end
<1>12. CASE /\ DelegateRead(c, room) /\ ReadEof(c)
            /\ state' = [state EXCEPT ![c] = "eof"] /\ UNCHANGED <<delivered, tcpvars>>
  <2>1. EndingOf(c)' = "eof" /\ peer[c] = "fin"
    BY <1>12 DEF EndingOf, StreamTypeOK, ReadEof
  <2>2. Mark(c) = arrived[c]
    <3>1. LeftoverRemaining(c) = 0 /\ arrived[c] - taken[c] = 0
      BY <1>12, Zenon DEF DelegateRead, ReadEof, Available
    <3> QED BY <1>10, <3>1 DEF Mark
  <2>3. delivered[c] = H!Body(c)
    BY <1>8, <1>9, <2>2, Zenon DEF Cursor
  <2> QED BY <1>5, <1>6, <1>7, <1>12, <2>1, <2>3, Zenon DEF H!Reads, out, end
<1>13. CASE /\ DelegateRead(c, room) /\ ReadError(c)
            /\ state' = [state EXCEPT ![c] = "error"] /\ UNCHANGED <<delivered, tcpvars>>
  <2>1. EndingOf(c)' = "error" /\ peer[c] = "rst"
    BY <1>13 DEF EndingOf, StreamTypeOK, ReadError
  <2> QED BY <1>5, <1>6, <1>7, <1>13, <2>1, Zenon DEF H!Reads, out, end
<1> QED BY <1>3, <1>11, <1>12, <1>13, Zenon DEF DelegateRead

-----------------------------------------------------------------------------
\* The listener and its streams implement Handoff: a connection is settled once,
\* metadata is that of a header the peer has sent to its last octet, and what the
\* application reads is what follows it.
THEOREM Refinement == Spec => ImplementsHandoff
<1>1. Spec => [](IInv /\ DInv /\ InfoFcn)
  <2>1. Init => InfoFcn
    BY DEF Init, StreamInit, InfoFcn
  <2>2. IInv /\ InfoFcn /\ [Next]_vars => InfoFcn'
    BY InfoFcnStep, Zenon DEF IInv
  <2> QED BY <2>1, <2>2, DInvInductive, PTL DEF Spec
<1>2. /\ IInv /\ DInv /\ InfoFcn /\ IInv' /\ DInv' /\ InfoFcn' /\ [Next]_vars
      => [H!HNext]_(H!hvars)
  <2> SUFFICES ASSUME IInv, DInv, InfoFcn, IInv', DInv', InfoFcn', [Next]_vars
               PROVE  H!HNext \/ UNCHANGED H!hvars
    OBVIOUS
  <2>1. /\ TcpTypeOK /\ StreamTypeOK /\ CallTypeOK
        /\ TcpTypeOK' /\ StreamTypeOK' /\ CallTypeOK'
    BY Zenon DEF IInv
  <2>2. ASSUME NEW c \in Conns, (\E d \in Policy[c] : accept(c, d)) \/ CallStep(c) \/ cancel(c)
        PROVE  H!HNext \/ UNCHANGED H!hvars
    BY <2>1, <2>2, CallRefines, Zenon DEF H!HNext
  <2>3. ASSUME NEW c \in Conns, PeerStep(c) PROVE H!HNext
    BY <2>1, <2>3, PeerRefines, Zenon DEF H!HNext
  <2>4. ASSUME NEW c \in Conns, AppStep(c) PROVE H!HNext
    BY <2>1, <2>4, AppRefines, Zenon DEF H!HNext
  <2>5. ASSUME Tick \/ UNCHANGED vars PROVE UNCHANGED H!hvars
    BY <2>5, Invisible, Zenon DEF Tick, vars, tcpvars, streamvars, callvars
  <2> QED BY <2>2, <2>3, <2>4, <2>5, Zenon DEF Next, Done
<1> QED BY <1>1, <1>2, InitRefines, PTL DEF Spec, ImplementsHandoff, H!HSpec
=============================================================================
