--------------------------- MODULE ListenerProofs ---------------------------
(***************************************************************************)
(* Safety of ProxyProtocolListener for any number of connections, permits, *)
(* streams and segmentations, any timeout, buffer limit, policy, validator *)
(* and wire format.                                                        *)
(***************************************************************************)
EXTENDS Listener, ParseProofs, FiniteSetTheorems

StreamTypeOK ==
  /\ state \in [Conns -> {"absent", "open", "eof", "error"}]
  /\ leftover \in [Conns -> Seq(Nat)]
  /\ pos \in [Conns -> Nat]
  /\ delivered \in [Conns -> Seq(Nat)]
  /\ DOMAIN proxy_info = Conns

CallTypeOK ==
  /\ call \in [Conns -> {"backlog", "waiting", "reading", "ok", "err", "cancelled"}]
  /\ decision \in [Conns -> {None} \cup {Some(d) : d \in {"Require", "Use", "Ignore", "Reject"}}]
  /\ left \in [Conns -> 0..HEADER_TIMEOUT]
  /\ age \in [Conns -> Nat]
  /\ buf \in [Conns -> Seq(Nat)]
  /\ DOMAIN error = Conns

\* The type invariant falls into the parts of the composed modules.
LEMMA TypeParts == TypeOK <=> TcpTypeOK /\ SemTypeOK(Conns) /\ StreamTypeOK /\ CallTypeOK
BY DEF TypeOK, StreamTypeOK, CallTypeOK

-----------------------------------------------------------------------------
\* The socket.

\* What a read of the socket returns: a few octets, no more than asked for.
LEMMA ReadProperties ==
  ASSUME TcpTypeOK, NEW c \in Conns, NEW max \in Nat \ {0}, Available(c) > 0
  PROVE  /\ ReadCount(c, max) \in 1..max
         /\ taken[c] + ReadCount(c, max) <= arrived[c]
         /\ ReadData(c, max) \in Seq(Nat)
         /\ Len(ReadData(c, max)) = ReadCount(c, max)
<1>1. taken[c] \in Nat /\ arrived[c] \in Nat /\ taken[c] <= arrived[c]
  BY DEF TcpTypeOK
<1>2. stream[c] \in Seq(Nat) /\ arrived[c] <= Len(stream[c])
  BY ListenerAssumption DEF TcpTypeOK
<1>3. ReadCount(c, max) \in 1..max /\ taken[c] + ReadCount(c, max) <= arrived[c]
  BY <1>1 DEF ReadCount, Available
<1>4. /\ ReadCount(c, max) \in Nat
      /\ taken[c] + ReadCount(c, max) <= Len(stream[c])
  BY <1>1, <1>2, <1>3
<1> DEFINE s == stream[c]
           a == taken[c]
           n == ReadCount(c, max)
<1>5. SubSeq(s, a + 1, a + n) \in Seq(Nat) /\ Len(SubSeq(s, a + 1, a + n)) = n
  <2>1. s \in Seq(Nat) /\ a \in Nat /\ n \in Nat /\ a + n <= Len(s)
    BY <1>1, <1>2, <1>4
  <2> HIDE DEF s, a, n
  <2> QED BY <2>1, Slice
<1> QED BY <1>3, <1>5 DEF ReadData

\* A read of the socket keeps the types.
LEMMA TakeType ==
  ASSUME TcpTypeOK, NEW c \in Conns, NEW max \in Nat \ {0}, Take(c, max)
  PROVE  TcpTypeOK'
<1>1. ReadCount(c, max) \in Nat /\ taken[c] + ReadCount(c, max) <= arrived[c]
  BY ReadProperties DEF Take
<1> QED BY <1>1 DEF Take, TcpTypeOK

\* A step of a peer keeps the types.
LEMMA PeerType ==
  ASSUME TcpTypeOK, NEW c \in Conns, PeerStep(c)
  PROVE  TcpTypeOK'
<1>1. ASSUME NEW n \in Segments, Send(c, n) PROVE TcpTypeOK'
  <2>1. n \in Nat
    BY ListenerAssumption
  <2> QED BY <1>1, <2>1 DEF Send, TcpTypeOK
<1>2. ASSUME NEW how \in {"fin", "rst"}, Close(c, how) PROVE TcpTypeOK'
  BY <1>2 DEF Close, TcpTypeOK
<1> QED BY <1>1, <1>2 DEF PeerStep

\* An application read keeps the types of socket and stream.
LEMMA AppType ==
  ASSUME TcpTypeOK, StreamTypeOK, NEW c \in Conns, AppStep(c)
  PROVE  TcpTypeOK' /\ StreamTypeOK'
<1>1. PICK room \in AppReads : poll_read(c, room)
  BY DEF AppStep
<1>2. room \in Nat \ {0}
  BY ListenerAssumption
<1>3. leftover[c] \in Seq(Nat) /\ Len(leftover[c]) \in Nat /\ pos[c] \in Nat
  BY DEF StreamTypeOK
<1>4. CASE ServeLeftover(c, room)
  <2> DEFINE rem == LeftoverRemaining(c)
             to_copy == IF rem < room THEN rem ELSE room
             octets == SubSeq(leftover[c], pos[c] + 1, pos[c] + to_copy)
  <2>1. to_copy \in Nat /\ pos[c] + to_copy <= Len(leftover[c])
    BY <1>2, <1>3, <1>4 DEF ServeLeftover, LeftoverRemaining
  <2>2. /\ delivered' = [delivered EXCEPT ![c] = @ \o octets]
        /\ pos' = [pos EXCEPT ![c] = @ + to_copy]
        /\ UNCHANGED <<state, leftover, proxy_info, tcpvars>>
    BY <1>4, Zenon DEF ServeLeftover, Deliver
  <2>3. octets \in Seq(Nat)
    <3> DEFINE s == leftover[c]
               a == pos[c]
    <3>1. s \in Seq(Nat) /\ a \in Nat /\ to_copy \in Nat /\ a + to_copy <= Len(s)
      BY <1>3, <2>1, Zenon
    <3>2. octets = SubSeq(s, a + 1, a + to_copy)
      BY Zenon
    <3> HIDE DEF s, a, to_copy, octets
    <3> QED BY <3>1, <3>2, Slice
  <2> HIDE DEF octets, to_copy
  <2>4. StreamTypeOK'
    BY <2>1, <2>2, <2>3 DEF StreamTypeOK
  <2> QED BY <2>2, <2>4 DEF TcpTypeOK, tcpvars
<1>5. CASE DelegateRead(c, room)
  <2>1. UNCHANGED <<leftover, pos, proxy_info>>
    BY <1>5 DEF DelegateRead
  <2>2. CASE Deliver(c, ReadData(c, room)) /\ Take(c, room) /\ UNCHANGED state
    <3>1. ReadData(c, room) \in Seq(Nat)
      BY <1>2, <2>2, ReadProperties DEF Take
    <3>2. TcpTypeOK'
      BY <1>2, <2>2, TakeType
    <3> QED BY <2>1, <2>2, <3>1, <3>2 DEF Deliver, StreamTypeOK
  <2>3. CASE ReadEof(c) /\ state' = [state EXCEPT ![c] = "eof"]
             /\ UNCHANGED <<delivered, tcpvars>>
    BY <2>1, <2>3 DEF StreamTypeOK, TcpTypeOK, tcpvars
  <2>4. CASE ReadError(c) /\ state' = [state EXCEPT ![c] = "error"]
             /\ UNCHANGED <<delivered, tcpvars>>
    BY <2>1, <2>4 DEF StreamTypeOK, TcpTypeOK, tcpvars
  <2> QED BY <1>5, <2>2, <2>3, <2>4 DEF DelegateRead
<1> QED BY <1>1, <1>4, <1>5 DEF poll_read

-----------------------------------------------------------------------------
\* How a call ends, and what one read leads to.

\* A call that returns an error keeps the types.
LEMMA FailType ==
  ASSUME StreamTypeOK, CallTypeOK, NEW c \in Conns, NEW e, Fail(c, e),
         buf' \in [Conns -> Seq(Nat)], decision' = decision
  PROVE  StreamTypeOK' /\ CallTypeOK'
<1>1. StreamTypeOK'
  BY DEF Fail, streamvars, StreamTypeOK
<1>2. 0 \in 0..HEADER_TIMEOUT
  BY ListenerAssumption
<1> QED BY <1>1, <1>2, Zenon DEF Fail, Return, CallTypeOK

\* A call that returns a stream (ProxiedStream::new) keeps the types.
LEMMA SucceedType ==
  ASSUME StreamTypeOK, CallTypeOK, NEW c \in Conns, NEW extra \in Seq(Nat), NEW info,
         Succeed(c, extra, info), buf' \in [Conns -> Seq(Nat)], decision' = decision
  PROVE  StreamTypeOK' /\ CallTypeOK'
<1>1. StreamTypeOK'
  BY DEF Succeed, NewStream, StreamTypeOK
<1>2. 0 \in 0..HEADER_TIMEOUT
  BY ListenerAssumption
<1> QED BY <1>1, <1>2, Zenon DEF Succeed, Return, CallTypeOK

\* A read appends at most READ_SIZE octets; then the call reads on, with the
\* header undecided and the buffer below its limit, or returns and drops its
\* permit.
LEMMA ReadOutcome ==
  ASSUME TcpTypeOK, CallTypeOK, NEW c \in Conns, read(c)
  PROVE  LET b == buf[c] \o ReadData(c, READ_SIZE) IN
         /\ b \in Seq(Nat) /\ Len(b) \in Nat /\ Len(b) <= Len(buf[c]) + READ_SIZE
         /\ buf' = [buf EXCEPT ![c] = b]
         /\ \/ ReadMore(c) /\ parse(b) = Incomplete /\ Len(b) < MAX_HEADER_SIZE
            \/ Release(c) /\ \E e : Fail(c, e)
            \/ Release(c) /\ \E extra \in Seq(Nat) : \E info : Succeed(c, extra, info)
<1> DEFINE b == buf[c] \o ReadData(c, READ_SIZE)
<1>1. READ_SIZE \in Nat \ {0}
  BY ListenerAssumption
<1>2. ReadData(c, READ_SIZE) \in Seq(Nat) /\ Len(ReadData(c, READ_SIZE)) \in 1..READ_SIZE
  BY <1>1, ReadProperties DEF read, Take
<1>3. buf[c] \in Seq(Nat)
  BY DEF CallTypeOK
<1>4. b \in Seq(Nat) /\ Len(b) \in Nat /\ Len(b) <= Len(buf[c]) + READ_SIZE
  BY <1>1, <1>2, <1>3
<1>5. buf' = [buf EXCEPT ![c] = b] /\ Examine(c, b, parse(b))
  BY Zenon DEF read
<1> HIDE DEF b
<1> DEFINE r == parse(b)
<1>6. ASSUME r.tag = "Ok" PROVE AfterHeader(b, r.consumed) \in Seq(Nat)
  <2>1. r.consumed \in 1..Len(b)
    BY <1>4, <1>6, ConsumedInBuffer
  <2> HIDE DEF r
  <2> QED BY <1>4, <2>1 DEF AfterHeader
<1>7. CASE r.tag = "Ok" /\ ~ VersionAllowed(r.info.version)
           /\ Fail(c, AcceptError("VersionMismatch")) /\ Release(c)
  BY <1>4, <1>5, <1>7, Zenon DEF b
<1>8. CASE r.tag = "Ok" /\ VersionAllowed(r.info.version)
           /\ (\E valid \in Validator :
                 IF valid THEN Succeed(c, AfterHeader(b, r.consumed), Some(r.info))
                 ELSE Fail(c, AcceptError("ValidationFailed")))
           /\ Release(c)
  BY <1>4, <1>5, <1>6, <1>8, Zenon DEF b
<1>9. CASE r = Incomplete /\ MayContinue(b) /\ ReadMore(c)
  BY <1>4, <1>5, <1>9, Zenon DEF b, MayContinue
<1>10. CASE r = NotProxyProtocol /\ decision[c] = Some("Use")
            /\ Succeed(c, b, None) /\ Release(c)
  BY <1>4, <1>5, <1>10, Zenon DEF b
<1>11. CASE Fail(c, ParseFailed(r)) /\ Release(c)
  BY <1>4, <1>5, <1>11, Zenon DEF b
<1> QED BY <1>5, <1>7, <1>8, <1>9, <1>10, <1>11, Zenon DEF Examine

\* The values a timer is set to are within one header_timeout.
LEMMA StartTimerType == HEADER_TIMEOUT \in 0..HEADER_TIMEOUT /\ 0 \in 0..HEADER_TIMEOUT
BY ListenerAssumption

\* accept keeps the types.
LEMMA AcceptType ==
  ASSUME StreamTypeOK, CallTypeOK, NEW c \in Conns, NEW d \in Policy[c], accept(c, d)
  PROVE  StreamTypeOK' /\ CallTypeOK'
<1> DEFINE Decisions == {None} \cup {Some(x) : x \in {"Require", "Use", "Ignore", "Reject"}}
<1>1. d \in {"Require", "Use", "Ignore", "Reject"}
  BY ListenerAssumption
<1>2. decision' \in [Conns -> Decisions]
  <2>1. Some(d) \in Decisions
    BY <1>1, Zenon
  <2>2. decision \in [Conns -> Decisions] /\ decision' = [decision EXCEPT ![c] = Some(d)]
    BY Zenon DEF accept, CallTypeOK
  <2> HIDE DEF Decisions
  <2> QED BY <2>1, <2>2
<1>3. UNCHANGED buf
  BY DEF accept
<1>4. ASSUME NEW e, Fail(c, e) PROVE StreamTypeOK' /\ CallTypeOK'
  <2>1. StreamTypeOK'
    BY <1>4 DEF Fail, streamvars, StreamTypeOK
  <2> QED BY <1>2, <1>3, <1>4, <2>1, StartTimerType DEF Fail, Return, CallTypeOK
<1>5. ASSUME Succeed(c, <<>>, None) PROVE StreamTypeOK' /\ CallTypeOK'
  <2>1. StreamTypeOK'
    BY <1>5 DEF Succeed, NewStream, StreamTypeOK
  <2> QED BY <1>2, <1>3, <1>5, <2>1, StartTimerType DEF Succeed, Return, CallTypeOK
<1>6. ASSUME BeginHandshake(c) PROVE StreamTypeOK' /\ CallTypeOK'
  <2>1. StreamTypeOK'
    BY <1>6 DEF BeginHandshake, streamvars, StreamTypeOK
  <2> QED BY <1>2, <1>3, <1>6, <2>1, StartTimerType DEF BeginHandshake, StartTimer, CallTypeOK
<1> QED BY <1>4, <1>5, <1>6, Zenon DEF accept

\* Every step of the system keeps the types of sockets, streams and calls.
LEMMA TypeStep ==
  ASSUME TcpTypeOK, StreamTypeOK, CallTypeOK, [Next]_vars
  PROVE  TcpTypeOK' /\ StreamTypeOK' /\ CallTypeOK'
<1>1. UNCHANGED tcpvars => TcpTypeOK'
  BY DEF tcpvars, TcpTypeOK
<1>2. UNCHANGED streamvars => StreamTypeOK'
  BY DEF streamvars, StreamTypeOK
<1>3. UNCHANGED callvars => CallTypeOK'
  BY DEF callvars, CallTypeOK
<1>4. buf \in [Conns -> Seq(Nat)]
  BY DEF CallTypeOK
<1>5. ASSUME NEW c \in Conns, NEW d \in Policy[c], accept(c, d)
      PROVE  TcpTypeOK' /\ StreamTypeOK' /\ CallTypeOK'
  BY <1>1, <1>5, AcceptType, Zenon DEF accept
<1>6. ASSUME NEW c \in Conns, permit_acquired(c)
      PROVE  TcpTypeOK' /\ StreamTypeOK' /\ CallTypeOK'
  <2>1. CallTypeOK'
    BY <1>6, StartTimerType DEF permit_acquired, StartTimer, CallTypeOK
  <2> QED BY <1>1, <1>2, <1>6, <2>1 DEF permit_acquired
<1>7. ASSUME NEW c \in Conns, permit_timeout(c) \/ read_eof(c) \/ read_error(c) \/ read_timeout(c)
      PROVE  TcpTypeOK' /\ StreamTypeOK' /\ CallTypeOK'
  <2>1. (\E e : Fail(c, e)) /\ UNCHANGED <<decision, buf, tcpvars>>
    BY <1>7, Zenon DEF permit_timeout, read_eof, read_error, read_timeout
  <2> QED BY <1>1, <1>4, <2>1, FailType
<1>8. ASSUME NEW c \in Conns, read(c)
      PROVE  TcpTypeOK' /\ StreamTypeOK' /\ CallTypeOK'
  <2> DEFINE b == buf[c] \o ReadData(c, READ_SIZE)
  <2>1. TcpTypeOK'
    BY <1>8, TakeType, ListenerAssumption DEF read
  <2>2. /\ b \in Seq(Nat) /\ buf' = [buf EXCEPT ![c] = b]
        /\ \/ ReadMore(c)
           \/ \E e : Fail(c, e)
           \/ \E extra \in Seq(Nat) : \E info : Succeed(c, extra, info)
    BY <1>8, ReadOutcome, Zenon
  <2> HIDE DEF b
  <2>3. buf' \in [Conns -> Seq(Nat)]
    BY <1>4, <2>2
  <2>4. decision' = decision
    BY <1>8 DEF read
  <2>5. CASE ReadMore(c)
    <3>1. CallTypeOK'
      BY <2>3, <2>4, <2>5 DEF ReadMore, CallTypeOK
    <3> QED BY <1>2, <2>1, <2>5, <3>1 DEF ReadMore
  <2>6. CASE \E e : Fail(c, e)
    BY <2>1, <2>3, <2>4, <2>6, FailType
  <2>7. CASE \E extra \in Seq(Nat) : \E info : Succeed(c, extra, info)
    BY <2>1, <2>3, <2>4, <2>7, SucceedType
  <2> QED BY <2>2, <2>5, <2>6, <2>7
<1>9. ASSUME NEW c \in Conns, cancel(c)
      PROVE  TcpTypeOK' /\ StreamTypeOK' /\ CallTypeOK'
  <2>1. CallTypeOK'
    BY <1>9, StartTimerType DEF cancel, Return, CallTypeOK
  <2> QED BY <1>1, <1>2, <1>9, <2>1 DEF cancel
<1>10. ASSUME NEW c \in Conns, PeerStep(c)
       PROVE  TcpTypeOK' /\ StreamTypeOK' /\ CallTypeOK'
  BY <1>2, <1>3, <1>10, PeerType DEF PeerStep
<1>11. ASSUME NEW c \in Conns, AppStep(c)
       PROVE  TcpTypeOK' /\ StreamTypeOK' /\ CallTypeOK'
  BY <1>3, <1>11, AppType DEF AppStep
<1>12. ASSUME Tick PROVE TcpTypeOK' /\ StreamTypeOK' /\ CallTypeOK'
  <2>1. left' \in [Conns -> 0..HEADER_TIMEOUT]
    BY <1>12, ListenerAssumption DEF Tick, CallTypeOK
  <2>2. age' \in [Conns -> Nat]
    BY <1>12 DEF Tick, CallTypeOK
  <2>3. CallTypeOK'
    BY <1>12, <2>1, <2>2 DEF Tick, CallTypeOK
  <2> QED BY <1>1, <1>2, <1>12, <2>3 DEF Tick
<1>13. ASSUME UNCHANGED vars PROVE TcpTypeOK' /\ StreamTypeOK' /\ CallTypeOK'
  BY <1>1, <1>2, <1>3, <1>13 DEF vars
<1> QED
  BY <1>5, <1>6, <1>7, <1>8, <1>9, <1>10, <1>11, <1>12, <1>13 DEF Next, CallStep, Done

-----------------------------------------------------------------------------
\* The semaphore: what acquiring and dropping permits preserves.

\* A caller that leaves a queue without repetitions leaves the others in it,
\* still without repetitions.
LEMMA WithoutProperties ==
  ASSUME NEW S, NEW s \in Seq(S), NEW e \in Range(s),
         \A i, j \in DOMAIN s : s[i] = s[j] => i = j
  PROVE  LET t == Without(s, e) IN
         /\ t \in Seq(S)
         /\ Range(t) = Range(s) \ {e}
         /\ \A i, j \in DOMAIN t : t[i] = t[j] => i = j
<1> DEFINE I == {i \in DOMAIN s : s[i] = e}
           k == Min(I)
           t == SubSeq(s, 1, k - 1) \o SubSeq(s, k + 1, Len(s))
<1>1. PICK j \in 1..Len(s) : s[j] = e
  BY DEF Range
<1>2. I \in SUBSET Nat /\ I # {}
  BY <1>1
<1>3. k \in I
  <2> HIDE DEF I
  <2> QED BY <1>2, MinIsLeast
<1>4. k \in 1..Len(s) /\ s[k] = e
  <2> HIDE DEF k
  <2> QED BY <1>3
<1>5. Without(s, e) = t
  BY <1>2, Zenon DEF Without
<1> HIDE DEF k
<1>6. /\ t \in Seq(S) /\ Len(t) = Len(s) - 1
      /\ \A i \in 1..Len(t) : t[i] = IF i < k THEN s[i] ELSE s[i + 1]
  <2> DEFINE u == SubSeq(s, 1, k - 1)
             v == SubSeq(s, k + 1, Len(s))
  <2>1. u \in Seq(S) /\ Len(u) = k - 1 /\ \A i \in 1..(k - 1) : u[i] = s[i]
    BY <1>4
  <2>2. /\ v \in Seq(S) /\ Len(v) = Len(s) - k
        /\ \A i \in 1..(Len(s) - k) : v[i] = s[i + k]
    BY <1>4
  <2> HIDE DEF u, v
  <2>3. t = u \o v
    BY Zenon DEF u, v
  <2> HIDE DEF t
  <2>4. t \in Seq(S) /\ Len(t) = Len(s) - 1
    BY <1>4, <2>1, <2>2, <2>3
  <2>5. ASSUME NEW i \in 1..Len(t)
        PROVE  t[i] = IF i < k THEN s[i] ELSE s[i + 1]
    <3>1. t[i] = IF i <= Len(u) THEN u[i] ELSE v[i - Len(u)]
      BY <1>4, <2>1, <2>2, <2>3, <2>4
    <3>2. CASE i < k
      BY <1>4, <2>1, <2>4, <3>1, <3>2
    <3>3. CASE ~ (i < k)
      <4>1. i - Len(u) \in 1..(Len(s) - k) /\ ~ (i <= Len(u)) /\ i - Len(u) + k = i + 1
        BY <1>4, <2>1, <2>4, <3>3
      <4> QED BY <2>2, <3>1, <3>3, <4>1
    <3> QED BY <3>2, <3>3
  <2> QED BY <2>4, <2>5
<1> HIDE DEF t
<1>7. ASSUME NEW i \in DOMAIN t, NEW m \in DOMAIN t, t[i] = t[m]
      PROVE  i = m
  <2> DEFINE Pos(n) == IF n < k THEN n ELSE n + 1
  <2>1. i \in 1..Len(t) /\ m \in 1..Len(t)
    BY <1>6
  <2>2. Pos(i) \in DOMAIN s /\ Pos(m) \in DOMAIN s
    BY <1>4, <1>6, <2>1
  <2>3. t[i] = s[Pos(i)] /\ t[m] = s[Pos(m)]
    BY <1>6, <2>1
  <2>4. Pos(i) = Pos(m)
    BY <1>7, <2>2, <2>3, Zenon
  <2> QED BY <1>4, <2>1, <2>4
<1>8. ASSUME NEW x \in Range(t) PROVE x \in Range(s) \ {e}
  <2>1. PICK i \in 1..Len(t) : t[i] = x
    BY <1>6 DEF Range
  <2>2. CASE i < k
    <3>1. i \in 1..Len(s) /\ s[i] = x /\ i # k
      BY <1>4, <1>6, <2>1, <2>2
    <3> QED BY <1>4, <3>1 DEF Range
  <2>3. CASE ~ (i < k)
    <3>1. i + 1 \in 1..Len(s) /\ s[i + 1] = x /\ i + 1 # k
      BY <1>4, <1>6, <2>1, <2>3
    <3> QED BY <1>4, <3>1 DEF Range
  <2> QED BY <2>2, <2>3
<1>9. ASSUME NEW x \in Range(s) \ {e} PROVE x \in Range(t)
  <2>1. PICK i \in 1..Len(s) : s[i] = x
    BY DEF Range
  <2>2. i # k
    BY <1>4, <2>1
  <2>3. CASE i < k
    <3>1. i \in 1..Len(t) /\ t[i] = x
      BY <1>4, <1>6, <2>1, <2>3
    <3> QED BY <1>6, <3>1 DEF Range
  <2>4. CASE ~ (i < k)
    <3>1. i - 1 \in 1..Len(t) /\ t[i - 1] = x
      BY <1>4, <1>6, <2>1, <2>2, <2>4
    <3> QED BY <1>6, <3>1 DEF Range
  <2> QED BY <2>3, <2>4
<1> QED BY <1>5, <1>6, <1>7, <1>8, <1>9

\* The elements of a sequence after Append, and after taking its head off.
LEMMA RangeAppend ==
  ASSUME NEW S, NEW s \in Seq(S), NEW e \in S
  PROVE  Range(Append(s, e)) = Range(s) \cup {e}
<1> DEFINE t == Append(s, e)
<1>1. /\ t \in Seq(S) /\ Len(t) = Len(s) + 1 /\ t[Len(s) + 1] = e
      /\ \A i \in 1..Len(s) : t[i] = s[i]
  OBVIOUS
<1> HIDE DEF t
<1>2. ASSUME NEW x \in Range(t) PROVE x \in Range(s) \cup {e}
  BY <1>1 DEF Range
<1>3. ASSUME NEW x \in Range(s) \cup {e} PROVE x \in Range(t)
  BY <1>1 DEF Range
<1> QED BY <1>2, <1>3 DEF t

\* The elements of a sequence without its first.
LEMMA RangeTail ==
  ASSUME NEW S, NEW s \in Seq(S), s # <<>>,
         \A i, j \in DOMAIN s : s[i] = s[j] => i = j
  PROVE  /\ Head(s) \in Range(s)
         /\ Range(Tail(s)) = Range(s) \ {Head(s)}
         /\ \A i, j \in DOMAIN Tail(s) : Tail(s)[i] = Tail(s)[j] => i = j
<1> DEFINE t == Tail(s)
<1>1. /\ t \in Seq(S) /\ Len(t) = Len(s) - 1 /\ Len(s) \in Nat \ {0} /\ Head(s) = s[1]
      /\ \A i \in 1..Len(t) : t[i] = s[i + 1]
  OBVIOUS
<1> HIDE DEF t
<1>2. Head(s) \in Range(s)
  BY <1>1 DEF Range
<1>3. ASSUME NEW x \in Range(t) PROVE x \in Range(s) \ {Head(s)}
  <2>1. PICK i \in 1..Len(t) : t[i] = x
    BY <1>1 DEF Range
  <2>2. i + 1 \in DOMAIN s /\ s[i + 1] = x /\ i + 1 # 1 /\ 1 \in DOMAIN s
    BY <1>1, <2>1
  <2>3. s[i + 1] # s[1]
    BY <2>2, Zenon
  <2>4. x \in Range(s)
    BY <2>2, Zenon DEF Range
  <2> QED BY <1>1, <2>2, <2>3, <2>4, Zenon
<1>4. ASSUME NEW x \in Range(s) \ {Head(s)} PROVE x \in Range(t)
  <2>1. PICK i \in 1..Len(s) : s[i] = x
    BY DEF Range
  <2>2. i - 1 \in 1..Len(t) /\ t[i - 1] = x
    BY <1>1, <2>1
  <2> QED BY <1>1, <2>2 DEF Range
<1>5. ASSUME NEW i \in DOMAIN t, NEW j \in DOMAIN t, t[i] = t[j]
      PROVE  i = j
  <2>1. i \in 1..Len(t) /\ j \in 1..Len(t)
    BY <1>1
  <2>2. i + 1 \in DOMAIN s /\ j + 1 \in DOMAIN s /\ s[i + 1] = s[j + 1]
    BY <1>1, <1>5, <2>1
  <2>3. i + 1 = j + 1
    BY <2>2, Zenon
  <2> QED BY <2>1, <2>3
<1> QED BY <1>2, <1>3, <1>4, <1>5 DEF t

NoRepetition == \A i, j \in DOMAIN waiters : waiters[i] = waiters[j] => i = j

Conserved(Callers) ==
  /\ SemTypeOK(Callers)
  /\ IsFiniteSet(holders)
  /\ permits + Cardinality(holders) = MAX_PENDING_HANDSHAKES
  /\ Range(waiters) \cap holders = {}
  /\ NoRepetition
  /\ waiters # <<>> => permits = 0

\* The first poll of acquire adds its caller, as a holder if a permit is free.
LEMMA AcquireConserves ==
  ASSUME NEW Callers, NEW c \in Callers, Conserved(Callers), Acquire(c),
         c \notin holders \cup Range(waiters)
  PROVE  /\ Conserved(Callers)'
         /\ (holders \cup Range(waiters))' = holders \cup Range(waiters) \cup {c}
         /\ holders \subseteq holders'
         /\ permits > 0 => c \in holders'
<1>1. /\ permits \in Nat /\ waiters \in Seq(Callers) /\ holders \subseteq Callers
      /\ IsFiniteSet(holders) /\ Cardinality(holders) \in Nat
      /\ permits + Cardinality(holders) = MAX_PENDING_HANDSHAKES
  BY FS_CardinalityType DEF Conserved, SemTypeOK
<1>2. CASE permits > 0
  <2>1. permits' = permits - 1 /\ holders' = holders \cup {c} /\ waiters' = waiters
    BY <1>2 DEF Acquire
  <2>2. waiters = <<>>
    BY <1>1, <1>2 DEF Conserved
  <2>3. IsFiniteSet(holders') /\ Cardinality(holders') = Cardinality(holders) + 1
    BY <1>1, <2>1, FS_AddElement
  <2>4. permits' \in Nat /\ permits' + Cardinality(holders') = MAX_PENDING_HANDSHAKES
    BY <1>1, <1>2, <2>1, <2>3
  <2>5. Range(waiters) \cap holders' = {}
    BY <2>1, Zenon DEF Conserved
  <2>6. SemTypeOK(Callers)'
    BY <1>1, <2>1, <2>4 DEF SemTypeOK
  <2>7. Conserved(Callers)'
    <3>1. NoRepetition'
      BY <2>1, Zenon DEF Conserved, NoRepetition
    <3> QED BY <2>1, <2>2, <2>3, <2>4, <2>5, <2>6, <3>1 DEF Conserved
  <2> QED BY <2>1, <2>7
<1>3. CASE ~ (permits > 0)
  <2>1. permits' = permits /\ holders' = holders /\ waiters' = Append(waiters, c)
    BY <1>3 DEF Acquire
  <2>2. permits' = 0
    BY <1>1, <1>3, <2>1
  <2>3. Range(waiters') = Range(waiters) \cup {c}
    BY <1>1, <2>1, RangeAppend
  <2>4. NoRepetition'
    <3> SUFFICES ASSUME NEW i \in DOMAIN waiters', NEW j \in DOMAIN waiters',
                        waiters'[i] = waiters'[j]
                 PROVE  i = j
      BY DEF NoRepetition
    <3>1. /\ i \in 1..(Len(waiters) + 1) /\ j \in 1..(Len(waiters) + 1)
          /\ Len(waiters) \in Nat
          /\ waiters'[Len(waiters) + 1] = c
          /\ \A k \in 1..Len(waiters) : waiters'[k] = waiters[k] /\ k \in DOMAIN waiters
      BY <1>1, <2>1
    <3>2. \A k \in 1..Len(waiters) : waiters[k] # c
      BY <3>1 DEF Range
    <3>3. CASE i \in 1..Len(waiters) /\ j \in 1..Len(waiters)
      BY <3>1, <3>3, Zenon DEF Conserved, NoRepetition
    <3>4. CASE ~ (i \in 1..Len(waiters) /\ j \in 1..Len(waiters))
      BY <3>1, <3>2, <3>4
    <3> QED BY <3>3, <3>4
  <2>5. waiters' \in Seq(Callers)
    BY <1>1, <2>1
  <2>6. Conserved(Callers)'
    <3>1. Range(waiters') \cap holders' = {}
      BY <2>1, <2>3, Zenon DEF Conserved
    <3> QED BY <1>1, <2>1, <2>2, <2>4, <2>5, <3>1 DEF Conserved, SemTypeOK
  <2> QED BY <1>3, <2>1, <2>3, <2>6
<1> QED BY <1>2, <1>3

\* Dropping a permit or a pending acquire removes its caller, takes no permit
\* from anyone else and hands a freed permit to the first waiter.
LEMMA ReleaseConserves ==
  ASSUME NEW Callers, NEW c, Conserved(Callers), Release(c),
         c \in holders \cup Range(waiters)
  PROVE  /\ Conserved(Callers)'
         /\ (holders \cup Range(waiters))' = (holders \cup Range(waiters)) \ {c}
         /\ holders \ {c} \subseteq holders'
<1>1. /\ permits \in Nat /\ waiters \in Seq(Callers) /\ holders \subseteq Callers
      /\ IsFiniteSet(holders) /\ Cardinality(holders) \in Nat
      /\ permits + Cardinality(holders) = MAX_PENDING_HANDSHAKES
      /\ Range(waiters) \cap holders = {}
  BY FS_CardinalityType DEF Conserved, SemTypeOK
<1>2. CASE c \notin holders
  <2>1. permits' = permits /\ holders' = holders /\ waiters' = Without(waiters, c)
    BY <1>2 DEF Release
  <2>2. c \in Range(waiters)
    BY <1>2
  <2>3. \A i, j \in DOMAIN waiters : waiters[i] = waiters[j] => i = j
    BY Zenon DEF Conserved, NoRepetition
  <2>4. /\ waiters' \in Seq(Callers)
        /\ Range(waiters') = Range(waiters) \ {c}
        /\ \A i, j \in DOMAIN waiters' : waiters'[i] = waiters'[j] => i = j
    BY <1>1, <2>1, <2>2, <2>3, WithoutProperties
  <2>5. NoRepetition'
    BY <2>4, Zenon DEF NoRepetition
  <2>6. waiters # <<>>
    BY <2>2 DEF Range
  <2>7. permits = 0
    BY <2>6 DEF Conserved
  <2>8. Range(waiters') \cap holders' = {}
    BY <1>1, <2>1, <2>4
  <2>9. Conserved(Callers)'
    BY <1>1, <2>1, <2>4, <2>5, <2>7, <2>8 DEF Conserved, SemTypeOK
  <2> QED BY <1>2, <2>1, <2>4, <2>9
<1>3. CASE c \in holders /\ waiters = <<>>
  <2>1. permits' = permits + 1 /\ holders' = holders \ {c} /\ waiters' = waiters
    BY <1>3 DEF Release
  <2>2. IsFiniteSet(holders') /\ Cardinality(holders') = Cardinality(holders) - 1
    BY <1>1, <1>3, <2>1, FS_RemoveElement
  <2>3. permits' \in Nat /\ permits' + Cardinality(holders') = MAX_PENDING_HANDSHAKES
    BY <1>1, <2>1, <2>2
  <2>4. NoRepetition'
    BY <2>1, Zenon DEF Conserved, NoRepetition
  <2>5. Conserved(Callers)'
    BY <1>1, <1>3, <2>1, <2>2, <2>3, <2>4 DEF Conserved, SemTypeOK
  <2> QED BY <1>1, <1>3, <2>1, <2>5
<1>4. CASE c \in holders /\ waiters # <<>>
  <2> DEFINE w == Head(waiters)
  <2>1. /\ permits' = permits /\ holders' = (holders \ {c}) \cup {w}
        /\ waiters' = Tail(waiters)
    BY <1>4 DEF Release
  <2>2. \A i, j \in DOMAIN waiters : waiters[i] = waiters[j] => i = j
    BY Zenon DEF Conserved, NoRepetition
  <2>3. /\ w \in Range(waiters)
        /\ Range(waiters') = Range(waiters) \ {w}
        /\ \A i, j \in DOMAIN waiters' : waiters'[i] = waiters'[j] => i = j
    BY <1>1, <1>4, <2>1, <2>2, RangeTail
  <2>4. waiters' \in Seq(Callers) /\ w \in Callers
    BY <1>1, <1>4, <2>1
  <2> HIDE DEF w
  <2>5. w \notin holders
    BY <1>1, <2>3
  <2>6. IsFiniteSet(holders') /\ Cardinality(holders') = Cardinality(holders)
    <3>1. IsFiniteSet(holders \ {c}) /\ Cardinality(holders \ {c}) = Cardinality(holders) - 1
      BY <1>1, <1>4, FS_RemoveElement
    <3>2. w \notin holders \ {c}
      BY <2>5
    <3>3. IsFiniteSet(holders') /\ Cardinality(holders') = Cardinality(holders \ {c}) + 1
      BY <2>1, <3>1, <3>2, FS_AddElement, Zenon
    <3> QED BY <1>1, <3>1, <3>3
  <2>7. permits = 0
    BY <1>4 DEF Conserved
  <2>8. NoRepetition'
    BY <2>3, Zenon DEF NoRepetition
  <2>9. Range(waiters') \cap holders' = {}
    BY <1>1, <2>1, <2>3
  <2>10. holders' \subseteq Callers
    BY <1>1, <2>1, <2>4
  <2>11. Conserved(Callers)'
    BY <1>1, <2>1, <2>4, <2>6, <2>7, <2>8, <2>9, <2>10 DEF Conserved, SemTypeOK
  <2>12. c \notin Range(waiters)
    BY <1>1, <1>4
  <2> QED BY <2>1, <2>3, <2>11, <2>12
<1> QED BY <1>2, <1>3, <1>4

-----------------------------------------------------------------------------
\* Permits.  PInv is PermitsAccountedFor with what the semaphore needs for it.

PInv ==
  /\ Conserved(Conns)
  /\ {c \in Conns : call[c] = "reading"} \subseteq holders
  /\ holders \cup Range(waiters) = InFlight

\* A step that leaves the permits and the calls alone keeps the permit invariant.
LEMMA PInvUnchanged ==
  ASSUME PInv, UNCHANGED semvars, UNCHANGED call
  PROVE  PInv'
BY DEF PInv, semvars, Conserved, SemTypeOK, NoRepetition, InFlight

\* A call that leaves read_and_validate takes itself out of the semaphore.
LEMMA PInvLeave ==
  ASSUME PInv, CallTypeOK, NEW c \in InFlight, Release(c),
         NEW how \in {"ok", "err", "cancelled"}, Return(c, how)
  PROVE  PInv'
<1>1. /\ Conserved(Conns)'
      /\ (holders \cup Range(waiters))' = (holders \cup Range(waiters)) \ {c}
      /\ holders \ {c} \subseteq holders'
  BY ReleaseConserves DEF PInv
<1>2. call \in [Conns -> {"backlog", "waiting", "reading", "ok", "err", "cancelled"}]
      /\ call' = [call EXCEPT ![c] = how] /\ c \in Conns
  BY DEF CallTypeOK, Return, InFlight
<1>3. InFlight' = InFlight \ {c}
  BY <1>2 DEF InFlight
<1>4. {k \in Conns : call'[k] = "reading"} \subseteq {k \in Conns : call[k] = "reading"} \ {c}
  BY <1>2
<1> QED BY <1>1, <1>3, <1>4 DEF PInv

\* Every step of the listener keeps the permit invariant.
LEMMA PInvStep ==
  ASSUME PInv, TcpTypeOK, CallTypeOK, [Next]_vars
  PROVE  PInv'
<1>1. call \in [Conns -> {"backlog", "waiting", "reading", "ok", "err", "cancelled"}]
  BY DEF CallTypeOK
<1>2. ASSUME NEW c \in Conns, NEW d \in Policy[c], accept(c, d)
      PROVE  PInv'
  <2>1. call[c] = "backlog" /\ c \notin InFlight
    BY <1>2 DEF accept, InFlight
  <2>2. ASSUME NEW how \in {"ok", "err"}, Return(c, how), UNCHANGED semvars
        PROVE  PInv'
    <3>1. call' = [call EXCEPT ![c] = how]
      BY <2>2 DEF Return
    <3>2. InFlight' = InFlight
      BY <1>1, <2>1, <3>1 DEF InFlight
    <3>3. {k \in Conns : call'[k] = "reading"} = {k \in Conns : call[k] = "reading"}
      BY <1>1, <2>1, <3>1
    <3>4. Conserved(Conns)' /\ holders' = holders /\ Range(waiters)' = Range(waiters)
      BY <2>2 DEF PInv, semvars, Conserved, SemTypeOK, NoRepetition
    <3> QED BY <3>2, <3>3, <3>4 DEF PInv
  <2>3. ASSUME BeginHandshake(c) PROVE PInv'
    <3>1. Acquire(c) /\ call' = [call EXCEPT ![c] = IF permits > 0 THEN "reading" ELSE "waiting"]
      BY <2>3 DEF BeginHandshake
    <3>2. /\ Conserved(Conns)'
          /\ (holders \cup Range(waiters))' = holders \cup Range(waiters) \cup {c}
          /\ holders \subseteq holders'
          /\ permits > 0 => c \in holders'
      BY <2>1, <3>1, AcquireConserves DEF PInv
    <3>3. InFlight' = InFlight \cup {c}
      BY <1>1, <3>1 DEF InFlight
    <3>4. \A k \in Conns : call'[k] = "reading" => call[k] = "reading" \/ (k = c /\ permits > 0)
      BY <1>1, <3>1
    <3> QED BY <3>2, <3>3, <3>4 DEF PInv
  <2> QED BY <1>2, <2>2, <2>3, Zenon DEF accept, Fail, Succeed
<1>3. ASSUME NEW c \in Conns, permit_acquired(c)
      PROVE  PInv'
  <2>1. /\ call[c] = "waiting" /\ c \in holders /\ UNCHANGED semvars
        /\ call' = [call EXCEPT ![c] = "reading"]
    BY <1>3 DEF permit_acquired
  <2>2. InFlight' = InFlight
    BY <1>1, <2>1 DEF InFlight
  <2>3. {k \in Conns : call'[k] = "reading"} = {k \in Conns : call[k] = "reading"} \cup {c}
    BY <1>1, <2>1
  <2>4. Conserved(Conns)' /\ holders' = holders /\ Range(waiters)' = Range(waiters)
    BY <2>1 DEF PInv, semvars, Conserved, SemTypeOK, NoRepetition
  <2> QED BY <2>1, <2>2, <2>3, <2>4 DEF PInv
<1>4. ASSUME NEW c \in Conns, permit_timeout(c) \/ read_eof(c) \/ read_error(c) \/ read_timeout(c)
      PROVE  PInv'
  <2>1. c \in InFlight
    BY <1>4 DEF permit_timeout, read_eof, read_error, read_timeout, InFlight
  <2>2. Return(c, "err") /\ Release(c)
    BY <1>4, Zenon DEF permit_timeout, read_eof, read_error, read_timeout, Fail
  <2> QED BY <2>1, <2>2, PInvLeave
<1>5. ASSUME NEW c \in Conns, read(c)
      PROVE  PInv'
  <2>1. c \in InFlight
    BY <1>5 DEF read, InFlight
  <2>2. \/ ReadMore(c)
        \/ Release(c) /\ \E e : Fail(c, e)
        \/ Release(c) /\ \E extra \in Seq(Nat) : \E info : Succeed(c, extra, info)
    BY <1>5, ReadOutcome, Zenon
  <2>3. CASE ReadMore(c)
    BY <2>3, PInvUnchanged DEF ReadMore
  <2>4. CASE Release(c) /\ Return(c, "err")
    BY <2>1, <2>4, PInvLeave
  <2>5. CASE Release(c) /\ Return(c, "ok")
    BY <2>1, <2>5, PInvLeave
  <2> QED BY <2>2, <2>3, <2>4, <2>5 DEF Fail, Succeed
<1>6. ASSUME NEW c \in Conns, cancel(c)
      PROVE  PInv'
  BY <1>6, PInvLeave DEF cancel
<1>7. ASSUME NEW c \in Conns, PeerStep(c) \/ AppStep(c)
      PROVE  PInv'
  BY <1>7, PInvUnchanged DEF PeerStep, AppStep, callvars
<1>8. ASSUME Tick PROVE PInv'
  BY <1>8, PInvUnchanged DEF Tick
<1>9. ASSUME UNCHANGED vars PROVE PInv'
  BY <1>9, PInvUnchanged DEF vars, callvars
<1> QED
  BY <1>2, <1>3, <1>4, <1>5, <1>6, <1>7, <1>8, <1>9 DEF Next, CallStep, Done

-----------------------------------------------------------------------------
\* Deadlines.  HandshakeBounded is not inductive: it needs what is left of the
\* timeout a call is under, one timeout before the permit and two after it.

Deadlines ==
  \A c \in Conns :
    /\ call[c] = "backlog" => age[c] = 0
    /\ call[c] = "waiting" => age[c] + left[c] <= HEADER_TIMEOUT
    /\ call[c] = "reading" => age[c] + left[c] <= 2 * HEADER_TIMEOUT

\* A call that returns meets the deadline invariant.
LEMMA DeadlinesReturn ==
  ASSUME Deadlines, CallTypeOK, NEW c \in Conns,
         NEW how \in {"ok", "err", "cancelled"}, Return(c, how)
  PROVE  Deadlines'
BY DEF Deadlines, CallTypeOK, Return

\* Every step of the listener keeps the deadline invariant.
LEMMA DeadlinesStep ==
  ASSUME Deadlines, TcpTypeOK, CallTypeOK, [Next]_vars
  PROVE  Deadlines'
<1>1. UNCHANGED <<call, left, age>> => Deadlines'
  BY DEF Deadlines
<1>2. HEADER_TIMEOUT \in Nat
  BY ListenerAssumption
<1>3. ASSUME NEW c \in Conns, NEW d \in Policy[c], accept(c, d)
      PROVE  Deadlines'
  <2>1. CASE BeginHandshake(c)
    <3>1. /\ call[c] = "backlog" /\ age' = age /\ left' = [left EXCEPT ![c] = HEADER_TIMEOUT]
          /\ call' = [call EXCEPT ![c] = IF permits > 0 THEN "reading" ELSE "waiting"]
      BY <1>3, <2>1 DEF accept, BeginHandshake, StartTimer
    <3> QED BY <1>2, <3>1 DEF Deadlines, CallTypeOK
  <2> QED BY <1>3, <2>1, DeadlinesReturn DEF accept, Fail, Succeed
<1>4. ASSUME NEW c \in Conns, permit_acquired(c)
      PROVE  Deadlines'
  <2>1. /\ call[c] = "waiting" /\ age' = age /\ left' = [left EXCEPT ![c] = HEADER_TIMEOUT]
        /\ call' = [call EXCEPT ![c] = "reading"]
    BY <1>4 DEF permit_acquired, StartTimer
  <2>2. left[c] \in Nat /\ age[c] \in Nat /\ age[c] + left[c] <= HEADER_TIMEOUT
    BY <1>2, <2>1 DEF Deadlines, CallTypeOK
  <2> QED BY <1>2, <2>1, <2>2 DEF Deadlines, CallTypeOK
<1>5. ASSUME NEW c \in Conns, permit_timeout(c) \/ read_eof(c) \/ read_error(c) \/ read_timeout(c)
      PROVE  Deadlines'
  <2>1. Return(c, "err")
    BY <1>5 DEF permit_timeout, read_eof, read_error, read_timeout, Fail
  <2> QED BY <2>1, DeadlinesReturn
<1>6. ASSUME NEW c \in Conns, read(c)
      PROVE  Deadlines'
  <2>1. ReadMore(c) \/ (\E e : Fail(c, e)) \/ (\E extra, info : Succeed(c, extra, info))
    BY <1>6, ReadOutcome, Zenon
  <2> QED BY <1>1, <2>1, DeadlinesReturn DEF ReadMore, Fail, Succeed
<1>7. ASSUME NEW c \in Conns, cancel(c)
      PROVE  Deadlines'
  BY <1>7, DeadlinesReturn DEF cancel
<1>8. ASSUME NEW c \in Conns, PeerStep(c) \/ AppStep(c)
      PROVE  Deadlines'
  BY <1>1, <1>8 DEF PeerStep, AppStep, callvars
<1>9. ASSUME Tick PROVE Deadlines'
  <2> SUFFICES ASSUME NEW c \in Conns
               PROVE  /\ call[c] = "backlog" => age'[c] = 0
                      /\ call[c] = "waiting" => age'[c] + left'[c] <= HEADER_TIMEOUT
                      /\ call[c] = "reading" => age'[c] + left'[c] <= 2 * HEADER_TIMEOUT
    BY <1>9 DEF Tick, Deadlines
  <2>1. left[c] \in Nat /\ age[c] \in Nat
    BY <1>2 DEF CallTypeOK
  <2>2. CASE c \in InFlight
    <3>1. age'[c] = age[c] + 1 /\ left'[c] = left[c] - 1
      BY <1>9, <2>2 DEF Tick
    <3>2. call[c] # "backlog"
      BY <2>2 DEF InFlight
    <3> QED BY <1>2, <2>1, <3>1, <3>2 DEF Deadlines
  <2>3. CASE c \notin InFlight
    BY <1>9, <2>3 DEF Tick, Deadlines, InFlight
  <2> QED BY <2>2, <2>3
<1>10. ASSUME UNCHANGED vars PROVE Deadlines'
  BY <1>1, <1>10 DEF vars, callvars
<1> QED
  BY <1>3, <1>4, <1>5, <1>6, <1>7, <1>8, <1>9, <1>10 DEF Next, CallStep, Done

-----------------------------------------------------------------------------
\* Buffers.  A call that reads on is below the limit, so its next read ends
\* less than one READ_SIZE past it.

Buffers ==
  \A c \in Conns :
    /\ call[c] \in {"backlog", "waiting"} => buf[c] = <<>>
    /\ call[c] = "reading" => buf[c] = <<>> \/ Len(buf[c]) < MAX_HEADER_SIZE

\* Every step of the listener keeps the bound on the handshake buffers.
LEMMA BuffersStep ==
  ASSUME Buffers, BufBounded, TcpTypeOK, CallTypeOK, [Next]_vars
  PROVE  Buffers' /\ BufBounded'
<1>1. UNCHANGED buf => BufBounded'
  BY DEF BufBounded
<1>2. UNCHANGED <<call, buf>> => Buffers'
  BY DEF Buffers
<1>3. ASSUME NEW c \in Conns, UNCHANGED buf, NEW how \in {"ok", "err", "cancelled"},
             Return(c, how)
      PROVE  Buffers'
  BY <1>3 DEF Return, Buffers, CallTypeOK
<1>4. ASSUME NEW c \in Conns, NEW d \in Policy[c], accept(c, d)
      PROVE  Buffers' /\ BufBounded'
  <2>1. UNCHANGED buf /\ call[c] = "backlog"
    BY <1>4, Zenon DEF accept
  <2>2. CASE BeginHandshake(c)
    BY <1>1, <2>1, <2>2, Zenon DEF BeginHandshake, Buffers, CallTypeOK
  <2> QED BY <1>1, <1>3, <1>4, <2>1, <2>2, Zenon DEF accept, Fail, Succeed
<1>5. ASSUME NEW c \in Conns, permit_acquired(c)
      PROVE  Buffers' /\ BufBounded'
  BY <1>1, <1>5 DEF permit_acquired, Buffers, CallTypeOK
<1>6. ASSUME NEW c \in Conns, permit_timeout(c) \/ read_eof(c) \/ read_error(c) \/ read_timeout(c)
      PROVE  Buffers' /\ BufBounded'
  <2>1. Return(c, "err") /\ UNCHANGED buf
    BY <1>6, Zenon DEF permit_timeout, read_eof, read_error, read_timeout, Fail
  <2> QED BY <1>1, <1>3, <2>1
<1>7. ASSUME NEW c \in Conns, read(c)
      PROVE  Buffers' /\ BufBounded'
  <2> DEFINE b == buf[c] \o ReadData(c, READ_SIZE)
  <2>1. /\ Len(b) \in Nat /\ Len(b) <= Len(buf[c]) + READ_SIZE
        /\ buf' = [buf EXCEPT ![c] = b]
        /\ \/ ReadMore(c) /\ Len(b) < MAX_HEADER_SIZE
           \/ \E e : Fail(c, e)
           \/ \E extra, info : Succeed(c, extra, info)
    BY <1>7, ReadOutcome, Zenon
  <2> HIDE DEF b
  <2>2. READ_SIZE \in Nat \ {0} /\ MAX_HEADER_SIZE \in Nat
    BY ListenerAssumption
  <2>3. buf[c] = <<>> \/ Len(buf[c]) < MAX_HEADER_SIZE
    BY <1>7 DEF read, Buffers
  <2>4. buf[c] \in Seq(Nat) /\ DOMAIN buf = Conns
    BY DEF CallTypeOK
  <2>5. Len(b) < MAX_HEADER_SIZE + READ_SIZE \/ Len(b) <= READ_SIZE
    BY <2>1, <2>2, <2>3, <2>4
  <2>6. BufBounded'
    BY <2>1, <2>4, <2>5 DEF BufBounded
  <2>7. CASE ReadMore(c) /\ Len(b) < MAX_HEADER_SIZE
    BY <1>7, <2>1, <2>4, <2>6, <2>7, Zenon DEF ReadMore, read, Buffers
  <2>8. ASSUME NEW how \in {"ok", "err"}, Return(c, how) PROVE Buffers'
    BY <2>1, <2>4, <2>8 DEF Return, Buffers, CallTypeOK
  <2> QED BY <2>1, <2>6, <2>7, <2>8 DEF Fail, Succeed
<1>8. ASSUME NEW c \in Conns, cancel(c)
      PROVE  Buffers' /\ BufBounded'
  BY <1>1, <1>3, <1>8 DEF cancel
<1>9. ASSUME NEW c \in Conns, PeerStep(c) \/ AppStep(c)
      PROVE  Buffers' /\ BufBounded'
  BY <1>1, <1>2, <1>9 DEF PeerStep, AppStep, callvars
<1>10. ASSUME Tick PROVE Buffers' /\ BufBounded'
  BY <1>1, <1>2, <1>10, Zenon DEF Tick
<1>11. ASSUME UNCHANGED vars PROVE Buffers' /\ BufBounded'
  BY <1>1, <1>2, <1>11 DEF vars, callvars
<1> QED
  BY <1>4, <1>5, <1>6, <1>7, <1>8, <1>9, <1>10, <1>11 DEF Next, CallStep, Done

-----------------------------------------------------------------------------
\* The inductive invariant, and the theorems that follow from it.

IInv ==
  /\ TcpTypeOK /\ StreamTypeOK /\ CallTypeOK
  /\ PInv /\ Deadlines /\ Buffers /\ BufBounded

\* The initial states satisfy the inductive invariant.
LEMMA InitIInv == Init => IInv
<1> SUFFICES ASSUME Init PROVE IInv
  OBVIOUS
<1>1. HEADER_TIMEOUT \in Nat /\ MAX_HEADER_SIZE \in Nat /\ READ_SIZE \in Nat \ {0}
      /\ \A s \in Streams : s \in Seq(Nat)
  BY ListenerAssumption
<1>2. TcpTypeOK
  <2>1. \A c \in Conns : stream[c] \in Seq(Nat) /\ Len(stream[c]) \in Nat
    BY <1>1 DEF Init, TcpInit
  <2> QED BY <2>1 DEF Init, TcpInit, TcpTypeOK
<1>3. StreamTypeOK
  BY DEF Init, StreamInit, StreamTypeOK
<1>4. CallTypeOK
  BY <1>1 DEF Init, CallTypeOK
<1>5. PInv
  <2>1. InFlight = {} /\ {c \in Conns : call[c] = "reading"} = {}
    BY DEF Init, InFlight
  <2>2. Range(waiters) = {} /\ NoRepetition
    BY DEF Init, SemInit, Range, NoRepetition
  <2>3. IsFiniteSet(holders) /\ Cardinality(holders) = 0
    BY FS_EmptySet DEF Init, SemInit
  <2>4. Conserved(Conns)
    BY <2>2, <2>3, PermitAssumption DEF Init, SemInit, Conserved, SemTypeOK
  <2> QED BY <2>1, <2>2, <2>4 DEF PInv, Init, SemInit
<1>6. Deadlines
  BY DEF Init, Deadlines
<1>7. Buffers /\ BufBounded
  BY <1>1 DEF Init, Buffers, BufBounded
<1> QED BY <1>2, <1>3, <1>4, <1>5, <1>6, <1>7 DEF IInv

\* Every reachable state of the listener satisfies the inductive invariant.
LEMMA IInvInductive == Spec => []IInv
<1>1. IInv /\ [Next]_vars => IInv'
  BY TypeStep, PInvStep, DeadlinesStep, BuffersStep DEF IInv
<1> QED BY <1>1, InitIInv, PTL DEF Spec

\* Type correctness, and that a socket never hands out more than has arrived.
THEOREM TypeCorrect == Spec => []TypeOK
<1>1. IInv => TypeOK
  BY TypeParts DEF IInv, PInv, Conserved
<1> QED BY <1>1, IInvInductive, PTL

\* Permits are conserved on every path out of read_and_validate, for any number
\* of calls and any max_pending_handshakes.
THEOREM PermitsConserved == Spec => []PermitsAccountedFor
<1>1. IInv => PermitsAccountedFor
  BY DEF IInv, PInv, Conserved, NoRepetition, PermitsAccountedFor
<1> QED BY <1>1, IInvInductive, PTL

\* No accept call is in read_and_validate for longer than two header_timeouts,
\* whatever its peer sends and however many calls compete for permits.
THEOREM HandshakeDeadline == Spec => []HandshakeBounded
<1>1. IInv => HandshakeBounded
  <2> SUFFICES ASSUME IInv, NEW c \in InFlight PROVE age[c] <= 2 * HEADER_TIMEOUT
    BY DEF HandshakeBounded
  <2>1. c \in Conns /\ call[c] \in {"waiting", "reading"}
    BY DEF InFlight
  <2>2. HEADER_TIMEOUT \in Nat /\ age[c] \in Nat /\ left[c] \in Nat
    BY <2>1, ListenerAssumption DEF IInv, CallTypeOK
  <2> QED BY <2>1, <2>2 DEF IInv, Deadlines
<1> QED BY <1>1, IInvInductive, PTL

\* No handshake buffer grows past its limit by a whole read.
THEOREM BufferBound == Spec => []BufBounded
<1>1. IInv => BufBounded
  BY DEF IInv
<1> QED BY <1>1, IInvInductive, PTL
=============================================================================
