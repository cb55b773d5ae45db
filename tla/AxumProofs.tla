----------------------------- MODULE AxumProofs -----------------------------
(***************************************************************************)
(* The listener under the serve loop of axum.rs, for any number of         *)
(* connections, permits and socket errors, any timeout and retry delay.    *)
(* The loop takes only steps of the listener, so all that is proved of the *)
(* listener holds under it; it adds what one accept at a time is worth.    *)
(***************************************************************************)
EXTENDS Axum, OutcomeProofs

\* What the loop may have spent so far.
Budget == (Cardinality(Conns) - Len(backlog)) * HEADER_TIMEOUT + faults * RETRY_DELAY

LoopTypeOK ==
  /\ loop \in {"accepting", "sleeping", "stopped"}
  /\ backlog \in Seq(Conns) /\ Len(backlog) <= Cardinality(Conns)
  /\ pause \in Nat /\ elapsed \in Nat /\ faults \in Nat

\* A call in flight has the loop to itself: it never waits behind another one,
\* and what is left of its timeout, like what is left of a sleep, is in the budget.
AInv ==
  /\ LoopTypeOK
  /\ loop # "sleeping" => pause = 0
  /\ InFlight # {} => loop = "accepting"
  /\ \A c, k \in InFlight : c = k
  /\ \A c \in InFlight : call[c] = "waiting" => MAX_PENDING_HANDSHAKES = 0
  /\ elapsed + pause <= Budget
  /\ \A c \in InFlight : elapsed + left[c] <= Budget

-----------------------------------------------------------------------------
\* Every step of the serve loop is a step of the listener, or none of its own.
LEMMA LoopSteps ==
  ASSUME backlog \in Seq(Conns), [AxumNext]_axumvars
  PROVE  [Next]_vars
<1>1. ASSUME next_accept PROVE Next
  <2>1. Head(backlog) \in Conns
    BY <1>1 DEF next_accept
  <2> QED BY <1>1, <2>1, Zenon DEF next_accept, Next
<1>2. ASSUME NEW c \in Conns, accept_step(c) PROVE Next
  BY <1>2, Zenon DEF accept_step, Next
<1>3. ASSUME shutdown PROVE Next \/ UNCHANGED vars
  <2>1. UNCHANGED vars \/ \E c \in InFlight : cancel(c)
    BY <1>3, Zenon DEF shutdown
  <2>2. InFlight \subseteq Conns
    BY Zenon DEF InFlight
  <2> QED BY <2>1, <2>2, Zenon DEF Next
<1>4. ASSUME AxumTick PROVE Next \/ UNCHANGED vars
  BY <1>4, Zenon DEF AxumTick, Next
<1>5. ASSUME NEW c \in Conns, PeerStep(c) \/ AppStep(c) PROVE Next
  BY <1>5, Zenon DEF Next
<1>6. ASSUME accept_io_error \/ wake \/ AxumDone \/ UNCHANGED axumvars PROVE UNCHANGED vars
  BY <1>6, Zenon DEF accept_io_error, wake, AxumDone, axumvars
<1> QED BY <1>1, <1>2, <1>3, <1>4, <1>5, <1>6, Zenon DEF AxumNext

\* The first step of an accept the loop makes: it gets a permit at once if there
\* are any, since no other accept is in flight.
LEMMA TakenUp ==
  ASSUME CallTypeOK, PInv, InFlight = {}, NEW c \in Conns, NEW d, accept(c, d)
  PROVE  /\ call[c] = "backlog"
         /\ call'[c] \in {"ok", "err", "reading", "waiting"}
         /\ c \in InFlight' => left'[c] = HEADER_TIMEOUT
         /\ call'[c] = "waiting" => MAX_PENDING_HANDSHAKES = 0
         /\ \A k \in Conns : k # c => call'[k] = call[k] /\ left'[k] = left[k]
<1>1. c \in DOMAIN call /\ c \in DOMAIN left /\ DOMAIN call = Conns /\ DOMAIN left = Conns
  BY DEF CallTypeOK
<1>2. CASE \E how \in {"ok", "err"} : Return(c, how)
  BY <1>1, <1>2 DEF Return, InFlight, accept
<1>3. CASE BeginHandshake(c)
  <2>1. MAX_PENDING_HANDSHAKES = permits /\ permits \in Nat
    <3>1. holders = {}
      BY DEF PInv
    <3> QED BY <3>1, FS_EmptySet DEF PInv, Conserved, SemTypeOK
  <2> QED BY <1>1, <1>3, <2>1 DEF BeginHandshake, StartTimer, InFlight, accept
<1> QED BY <1>2, <1>3, Zenon DEF accept, Fail, Succeed

\* A later step of that accept: it returns, or goes on reading under the same
\* deadline.  It never waits for a permit that somebody else gives back.
LEMMA Advanced ==
  ASSUME TcpTypeOK, CallTypeOK, PInv, NEW c \in Conns, CallStep(c),
         call[c] = "waiting" => MAX_PENDING_HANDSHAKES = 0
  PROVE  /\ c \in InFlight
         /\ \/ call'[c] \in {"ok", "err"}
            \/ call'[c] = "reading" /\ left'[c] = left[c]
         /\ \A k \in Conns : k # c => call'[k] = call[k] /\ left'[k] = left[k]
<1>1. c \in DOMAIN call /\ c \in DOMAIN left /\ DOMAIN call = Conns /\ DOMAIN left = Conns
  BY DEF CallTypeOK
<1>2. c \in InFlight
  BY Zenon DEF CallStep, permit_acquired, permit_timeout, read, read_eof, read_error,
               read_timeout, InFlight
<1>3. ~ permit_acquired(c)
  <2> SUFFICES ASSUME permit_acquired(c) PROVE FALSE
    OBVIOUS
  <2>1. MAX_PENDING_HANDSHAKES = 0 /\ c \in holders
    BY DEF permit_acquired
  <2>2. IsFiniteSet(holders) /\ permits \in Nat /\ permits + Cardinality(holders) = 0
    BY <2>1 DEF PInv, Conserved, SemTypeOK
  <2>3. Cardinality(holders) = 0
    BY <2>2, FS_CardinalityType
  <2> QED BY <2>1, <2>2, <2>3, FS_EmptySet
<1>4. \/ \E how \in {"ok", "err"} : Return(c, how)
      \/ call[c] = "reading" /\ UNCHANGED <<call, left>>
  <2>1. CASE read(c)
    BY <2>1, ReadOutcome, Zenon DEF read, ReadMore, Fail, Succeed
  <2> QED BY <1>3, <2>1, Zenon DEF CallStep, permit_timeout, read_eof, read_error, read_timeout, Fail
<1>5. CASE \E how \in {"ok", "err"} : Return(c, how)
  BY <1>1, <1>2, <1>5 DEF Return
<1> QED BY <1>2, <1>4, <1>5

\* What the loop does with the result: it goes on, or sleeps once for one more
\* I/O error.
LEMMA ReturnedEffect ==
  ASSUME NEW c, Returned(c)
  PROVE  \/ UNCHANGED <<loop, pause, faults>>
         \/ call'[c] = "err" /\ loop' = "sleeping" /\ pause' = RETRY_DELAY /\ faults' = faults + 1
BY Zenon DEF Returned, handle_accept_error, Sleep

\* A connection taken up adds one header_timeout to the budget, an I/O error one sleep.
LEMMA BudgetGrows ==
  ASSUME LoopTypeOK, NEW a \in {0, 1}, NEW b \in {0, 1},
         Len(backlog') = Len(backlog) - a, faults' = faults + b
  PROVE  /\ Budget \in Nat /\ Budget' \in Nat
         /\ Budget' = Budget + a * HEADER_TIMEOUT + b * RETRY_DELAY
<1> DEFINE n == Cardinality(Conns) - Len(backlog)
           x == n * HEADER_TIMEOUT
           y == faults * RETRY_DELAY
<1>1. /\ Cardinality(Conns) \in Nat /\ Len(backlog) \in Nat /\ n \in Nat /\ faults \in Nat
      /\ HEADER_TIMEOUT \in Nat /\ RETRY_DELAY \in Nat
  BY ListenerAssumption, AxumAssumption, FS_CardinalityType DEF LoopTypeOK
<1>2. Cardinality(Conns) - Len(backlog') = n + a
  BY <1>1
<1>3. Budget = x + y /\ Budget' = (n + a) * HEADER_TIMEOUT + (faults + b) * RETRY_DELAY
  BY <1>2 DEF Budget
<1> HIDE DEF n
<1>4. x \in Nat /\ y \in Nat
  BY <1>1
<1>5. (n + a) * HEADER_TIMEOUT = x + a * HEADER_TIMEOUT /\ a * HEADER_TIMEOUT \in Nat
  BY <1>1
<1>6. (faults + b) * RETRY_DELAY = y + b * RETRY_DELAY /\ b * RETRY_DELAY \in Nat
  BY <1>1
<1> HIDE DEF x, y
<1> QED BY <1>3, <1>4, <1>5, <1>6

-----------------------------------------------------------------------------
\* A step of the one accept in flight, and what the loop does with its result:
\* b is the budget before an I/O error is added to it.
LEMMA TurnKeeps ==
  ASSUME AInv, CallTypeOK', LoopTypeOK', loop = "accepting",
         NEW c \in Conns, InFlight \subseteq {c}, Returned(c), elapsed' = elapsed,
         \A k \in Conns : k # c => call'[k] = call[k],
         call'[c] = "waiting" => MAX_PENDING_HANDSHAKES = 0,
         NEW b \in Nat, elapsed <= b, c \in InFlight' => elapsed + left'[c] <= b,
         Budget' = IF faults' = faults THEN b ELSE b + RETRY_DELAY
  PROVE  AInv'
<1>1. InFlight' \subseteq {c}
  BY DEF InFlight
<1>2. RETRY_DELAY \in Nat /\ elapsed \in Nat /\ faults \in Nat /\ pause = 0 /\ left'[c] \in Nat
  BY AxumAssumption, ListenerAssumption DEF AInv, LoopTypeOK, CallTypeOK
<1>3. CASE UNCHANGED <<loop, pause, faults>>
  <2>1. Budget' = b /\ loop' = "accepting" /\ pause' = 0
    BY <1>2, <1>3
  <2>2. elapsed' + pause' <= Budget'
    BY <1>2, <2>1
  <2>3. \A k \in InFlight' : elapsed' + left'[k] <= Budget'
    BY <1>1, <2>1, Zenon
  <2>4. \A k \in InFlight' : call'[k] = "waiting" => MAX_PENDING_HANDSHAKES = 0
    BY <1>1, Zenon
  <2>5. \A k, m \in InFlight' : k = m
    BY <1>1, Zenon
  <2> QED BY <2>1, <2>2, <2>3, <2>4, <2>5, Zenon DEF AInv
<1>4. CASE /\ call'[c] = "err" /\ loop' = "sleeping"
           /\ pause' = RETRY_DELAY /\ faults' = faults + 1
  <2>1. InFlight' = {}
    BY <1>1, <1>4 DEF InFlight
  <2>2. Budget' = b + RETRY_DELAY
    BY <1>2, <1>4
  <2>3. elapsed' + pause' <= Budget'
    BY <1>2, <1>4, <2>2
  <2> QED BY <1>4, <2>1, <2>3 DEF AInv
<1> QED BY <1>3, <1>4, ReturnedEffect, Zenon

\* Every step of the loop keeps the types of its own state.
LEMMA LoopTypeStep ==
  ASSUME LoopTypeOK, [AxumNext]_axumvars
  PROVE  LoopTypeOK'
<1>1. RETRY_DELAY \in Nat
  BY AxumAssumption
<1>2. ASSUME NEW c \in Conns, Returned(c), backlog' \in Seq(Conns),
             Len(backlog') <= Cardinality(Conns), UNCHANGED elapsed
      PROVE  LoopTypeOK'
  <2>1. loop' \in {"accepting", "sleeping", "stopped"} /\ pause' \in Nat /\ faults' \in Nat
    BY <1>1, <1>2, ReturnedEffect DEF LoopTypeOK
  <2> QED BY <1>2, <2>1 DEF LoopTypeOK
<1>3. ASSUME next_accept PROVE LoopTypeOK'
  <2>1. backlog \in Seq(Conns) /\ backlog # <<>> /\ Len(backlog) <= Cardinality(Conns)
        /\ Cardinality(Conns) \in Nat
    BY <1>3, ListenerAssumption, FS_CardinalityType DEF next_accept, LoopTypeOK
  <2>2. Head(backlog) \in Conns /\ Tail(backlog) \in Seq(Conns)
        /\ Len(Tail(backlog)) <= Cardinality(Conns)
    BY <2>1
  <2> QED BY <1>2, <1>3, <2>2, Zenon DEF next_accept
<1>4. ASSUME NEW c \in Conns, accept_step(c) PROVE LoopTypeOK'
  BY <1>2, <1>4, Zenon DEF accept_step, LoopTypeOK
<1>5. ASSUME accept_io_error PROVE LoopTypeOK'
  BY <1>1, <1>5 DEF accept_io_error, handle_accept_error, Sleep, LoopTypeOK
<1>6. ASSUME wake \/ shutdown PROVE LoopTypeOK'
  BY <1>6 DEF wake, shutdown, LoopTypeOK
<1>7. ASSUME AxumTick PROVE LoopTypeOK'
  BY <1>7 DEF AxumTick, LoopTypeOK
<1>8. ASSUME UNCHANGED loopvars PROVE LoopTypeOK'
  BY <1>8 DEF loopvars, LoopTypeOK
<1> QED
  BY <1>3, <1>4, <1>5, <1>6, <1>7, <1>8, Zenon DEF AxumNext, AxumDone, axumvars

\* A step that neither moves a call nor the loop keeps the invariant.
LEMMA AInvFrame ==
  ASSUME AInv, UNCHANGED <<call, left, loopvars>>
  PROVE  AInv'
BY DEF AInv, LoopTypeOK, loopvars, InFlight, Budget

\* Every step of the loop keeps the invariant.
LEMMA AInvStep ==
  ASSUME IInv, CallTypeOK', AInv, [AxumNext]_axumvars
  PROVE  AInv'
<1> DEFINE B == Budget
<1>1. TcpTypeOK /\ CallTypeOK /\ PInv /\ LoopTypeOK
  BY Zenon DEF IInv, AInv
<1>2. LoopTypeOK'
  BY <1>1, LoopTypeStep
<1>3. /\ RETRY_DELAY \in Nat /\ HEADER_TIMEOUT \in Nat /\ elapsed \in Nat /\ pause \in Nat
      /\ faults \in Nat /\ faults' \in Nat /\ Len(backlog) \in Nat
      /\ \A c \in Conns : left[c] \in Nat /\ left'[c] \in Nat
  BY <1>1, <1>2, AxumAssumption, ListenerAssumption DEF LoopTypeOK, CallTypeOK
<1>4. B \in Nat
  <2>1. Cardinality(Conns) \in Nat /\ Cardinality(Conns) - Len(backlog) \in Nat
    BY <1>1, <1>3, ListenerAssumption, FS_CardinalityType DEF LoopTypeOK
  <2> QED BY <1>3, <2>1 DEF Budget
<1>5. elapsed + pause <= B /\ \A c \in InFlight : elapsed + left[c] <= B
  BY Zenon DEF AInv
<1> HIDE DEF B
<1>6. ASSUME NEW a \in {0, 1}, Len(backlog') = Len(backlog) - a,
             faults' = faults \/ faults' = faults + 1
      PROVE  /\ B + a * HEADER_TIMEOUT \in Nat
             /\ Budget' = IF faults' = faults THEN B + a * HEADER_TIMEOUT
                          ELSE B + a * HEADER_TIMEOUT + RETRY_DELAY
  <2> DEFINE h == a * HEADER_TIMEOUT
  <2>1. h \in Nat
    BY <1>3
  <2>2. CASE faults' = faults
    <3>1. Budget' = B + h + 0 * RETRY_DELAY
      BY <1>1, <1>3, <1>6, <2>2, BudgetGrows DEF B
    <3> HIDE DEF h
    <3> QED BY <1>3, <1>4, <2>1, <2>2, <3>1 DEF h
  <2>3. CASE faults' = faults + 1
    <3>1. Budget' = B + h + 1 * RETRY_DELAY
      BY <1>1, <1>3, <1>6, <2>3, BudgetGrows DEF B
    <3> HIDE DEF h
    <3> QED BY <1>3, <1>4, <2>1, <2>3, <3>1 DEF h
  <2> QED BY <1>6, <2>2, <2>3
<1>7. ASSUME next_accept PROVE AInv'
  <2> DEFINE c == Head(backlog)
             b == B + 1 * HEADER_TIMEOUT
  <2>1. PICK d \in Policy[c] : accept(c, d)
    BY <1>7, Zenon DEF next_accept
  <2>2. /\ loop = "accepting" /\ InFlight = {} /\ backlog # <<>> /\ Returned(c)
        /\ backlog' = Tail(backlog) /\ elapsed' = elapsed
    BY <1>7, Zenon DEF next_accept
  <2>3. c \in Conns /\ Len(backlog') = Len(backlog) - 1
    BY <1>1, <2>2 DEF LoopTypeOK
  <2> HIDE DEF c
  <2>4. /\ c \in InFlight' => left'[c] = HEADER_TIMEOUT
        /\ call'[c] = "waiting" => MAX_PENDING_HANDSHAKES = 0
        /\ \A k \in Conns : k # c => call'[k] = call[k]
    BY <1>1, <2>1, <2>2, <2>3, TakenUp, Zenon
  <2>5. faults' = faults \/ faults' = faults + 1
    BY <2>2, ReturnedEffect, Zenon
  <2>6. 1 \in {0, 1}
    OBVIOUS
  <2>7. b \in Nat /\ Budget' = IF faults' = faults THEN b ELSE b + RETRY_DELAY
    BY <1>6, <2>3, <2>5, <2>6, Zenon
  <2>8. elapsed <= b /\ elapsed + HEADER_TIMEOUT <= b
    BY <1>3, <1>4, <1>5
  <2> HIDE DEF b
  <2>9. c \in InFlight' => elapsed + left'[c] <= b
    BY <2>4, <2>8, Zenon
  <2>10. InFlight \subseteq {c}
    BY <2>2, Zenon
  <2> QED BY <1>2, <2>2, <2>3, <2>4, <2>7, <2>8, <2>9, <2>10, TurnKeeps, Zenon
<1>8. ASSUME NEW c \in Conns, accept_step(c) PROVE AInv'
  <2>1. CallStep(c) /\ Returned(c) /\ backlog' = backlog /\ elapsed' = elapsed
    BY <1>8, Zenon DEF accept_step
  <2>2. c \in InFlight
    BY <2>1, Zenon DEF CallStep, permit_acquired, permit_timeout, read, read_eof, read_error,
                       read_timeout, InFlight
  <2>3. call[c] = "waiting" => MAX_PENDING_HANDSHAKES = 0
    BY <2>2, Zenon DEF AInv
  <2>4. /\ call'[c] \in {"ok", "err"} \/ (call'[c] = "reading" /\ left'[c] = left[c])
        /\ \A k \in Conns : k # c => call'[k] = call[k]
    BY <1>1, <2>1, <2>3, Advanced, Zenon
  <2>5. loop = "accepting" /\ InFlight \subseteq {c}
    BY <2>2, Zenon DEF AInv
  <2>6. faults' = faults \/ faults' = faults + 1
    BY <2>1, ReturnedEffect, Zenon
  <2>7. Budget' = IF faults' = faults THEN B ELSE B + RETRY_DELAY
    <3>1. 0 \in {0, 1} /\ Len(backlog') = Len(backlog) - 0
      BY <1>3, <2>1
    <3>2. Budget' = IF faults' = faults THEN B + 0 * HEADER_TIMEOUT
                    ELSE B + 0 * HEADER_TIMEOUT + RETRY_DELAY
      BY <1>6, <2>6, <3>1, Zenon
    <3> QED BY <1>3, <1>4, <3>2
  <2>8. c \in InFlight' => elapsed + left'[c] <= B
    BY <1>5, <2>2, <2>4 DEF InFlight
  <2>9. elapsed <= B
    BY <1>3, <1>4, <1>5
  <2>10. call'[c] # "waiting"
    BY <2>4
  <2> QED BY <1>2, <1>4, <2>1, <2>4, <2>5, <2>7, <2>8, <2>9, <2>10, TurnKeeps, Zenon
<1>9. ASSUME accept_io_error PROVE AInv'
  <2>1. /\ InFlight' = {} /\ elapsed' = elapsed /\ Len(backlog') = Len(backlog)
        /\ loop = "accepting" /\ pause = 0
    BY <1>9 DEF accept_io_error, vars, callvars, InFlight, AInv
  <2>2. CASE UNCHANGED <<loop, pause, faults>>
    <3>1. Budget' = B
      BY <1>9, <2>2, Zenon DEF accept_io_error, Budget, B
    <3>2. elapsed' + pause' <= Budget'
      BY <1>5, <2>1, <2>2, <3>1
    <3> QED BY <1>2, <2>1, <2>2, <3>2 DEF AInv
  <2>3. CASE Sleep /\ faults' = faults + 1
    <3>1. 0 \in {0, 1} /\ Len(backlog') = Len(backlog) - 0 /\ faults' # faults
      BY <1>3, <2>1, <2>3
    <3>2. Budget' = IF faults' = faults THEN B + 0 * HEADER_TIMEOUT
                    ELSE B + 0 * HEADER_TIMEOUT + RETRY_DELAY
      BY <1>6, <2>3, <3>1, Zenon
    <3>3. Budget' = B + RETRY_DELAY
      BY <1>3, <1>4, <3>1, <3>2
    <3>4. elapsed' + pause' <= Budget'
      BY <1>3, <1>4, <1>5, <2>1, <2>3, <3>3 DEF Sleep
    <3> QED BY <1>2, <2>1, <2>3, <3>4 DEF AInv, Sleep
  <2> QED BY <1>9, <2>2, <2>3, Zenon DEF accept_io_error, handle_accept_error
<1>10. ASSUME wake PROVE AInv'
  BY <1>2, <1>10 DEF wake, vars, callvars, AInv, InFlight, Budget
<1>11. ASSUME shutdown PROVE AInv'
  <2>1. InFlight' = {}
    <3>1. CASE InFlight = {}
      BY <1>11, <3>1 DEF shutdown, vars, callvars, InFlight
    <3>2. ASSUME NEW c \in InFlight, cancel(c) PROVE InFlight' = {}
      <4>1. \A k \in InFlight : k = c
        BY Zenon DEF AInv
      <4> QED BY <1>1, <3>2, <4>1 DEF cancel, Return, CallTypeOK, InFlight
    <3> QED BY <1>11, <3>1, <3>2, Zenon DEF shutdown
  <2>2. loop' = "stopped" /\ pause' = 0 /\ elapsed' = elapsed /\ Budget' = B
    BY <1>11 DEF shutdown, Budget, B
  <2>3. elapsed' + pause' <= Budget'
    BY <1>3, <1>4, <1>5, <2>2
  <2> QED BY <1>2, <2>1, <2>2, <2>3 DEF AInv
<1>12. ASSUME AxumTick PROVE AInv'
  <2>1. elapsed' = elapsed + 1 /\ Budget' = B /\ loop' = loop
    BY <1>12 DEF AxumTick, Budget, B
  <2>2. CASE Tick /\ UNCHANGED pause
    <3>1. call' = call /\ InFlight' = InFlight /\ InFlight \subseteq Conns
      BY <2>2 DEF Tick, InFlight
    <3>2. PICK c \in InFlight : left[c] > 0
      BY <2>2, Zenon DEF Tick
    <3>3. pause = 0
      BY <3>2 DEF AInv
    <3>4. elapsed' + pause' <= Budget'
      BY <1>3, <1>4, <1>5, <2>1, <2>2, <3>1, <3>2, <3>3
    <3>5. \A k \in InFlight' : elapsed' + left'[k] <= Budget'
      <4> SUFFICES ASSUME NEW k \in InFlight PROVE elapsed' + left'[k] <= Budget'
        BY <3>1, Zenon
      <4>1. left'[k] = left[k] - 1 /\ left[k] \in Nat /\ elapsed + left[k] <= B
        BY <1>3, <1>5, <2>2, <3>1 DEF Tick
      <4> QED BY <1>3, <1>4, <2>1, <4>1
    <3> QED BY <1>2, <2>1, <2>2, <3>1, <3>4, <3>5, Zenon DEF AInv
  <2>3. CASE loop = "sleeping" /\ pause > 0 /\ pause' = pause - 1 /\ UNCHANGED vars
    <3>1. InFlight' = {}
      BY <2>3 DEF AInv, InFlight, vars, callvars
    <3>2. elapsed' + pause' <= Budget'
      BY <1>3, <1>4, <1>5, <2>1, <2>3
    <3> QED BY <1>2, <2>1, <2>3, <3>1, <3>2 DEF AInv
  <2> QED BY <1>12, <2>2, <2>3, Zenon DEF AxumTick
<1>13. ASSUME NEW c \in Conns, PeerStep(c) \/ AppStep(c), UNCHANGED loopvars PROVE AInv'
  BY <1>13, AInvFrame, Zenon DEF PeerStep, AppStep, callvars
<1>14. ASSUME UNCHANGED axumvars PROVE AInv'
  BY <1>14, AInvFrame, Zenon DEF axumvars, vars, callvars
<1> QED
  BY <1>7, <1>8, <1>9, <1>10, <1>11, <1>12, <1>13, <1>14, Zenon DEF AxumNext, AxumDone

-----------------------------------------------------------------------------
\* What ShutdownDropsOne says of the dropped calls; the permits follow from PInv.
SInv ==
  /\ \A c, k \in InFlight \cup Dropped : c = k
  /\ Dropped # {} => loop = "stopped"
  /\ \A c \in Dropped : parse(buf[c]) = Incomplete

\* A step that moves no call, buffer or loop keeps it.
LEMMA SInvFrame ==
  ASSUME SInv, UNCHANGED <<call, buf>>, loop' = loop \/ loop = "sleeping"
  PROVE  SInv'
BY DEF SInv, InFlight, Dropped

\* A step of the one accept in flight drops nothing.
LEMMA SInvTurn ==
  ASSUME SInv, NEW c \in Conns, loop = "accepting", InFlight \subseteq {c},
         call'[c] # "cancelled", \A k \in Conns : k # c => call'[k] = call[k]
  PROVE  SInv'
<1>1. Dropped = {}
  BY DEF SInv
<1>2. Dropped' = {}
  BY <1>1 DEF Dropped
<1>3. InFlight' \subseteq {c}
  BY DEF InFlight
<1> QED BY <1>2, <1>3, Zenon DEF SInv

\* A shutdown drops the call in flight, whose octets do not decide its header.
LEMMA SInvShutdown ==
  ASSUME CallTypeOK, DInv, AInv, SInv, shutdown
  PROVE  SInv'
<1>1. loop # "stopped" /\ loop' = "stopped"
  BY Zenon DEF shutdown
<1>2. Dropped = {}
  BY <1>1 DEF SInv
<1>3. CASE UNCHANGED vars
  <2>1. Dropped' = {} /\ InFlight' = InFlight
    BY <1>2, <1>3, Zenon DEF vars, callvars, Dropped, InFlight
  <2> QED BY <1>2, <2>1, Zenon DEF SInv
<1>4. ASSUME NEW c \in InFlight, cancel(c) PROVE SInv'
  <2>1. c \in Conns /\ parse(buf[c]) = Incomplete
    <3>1. c \in Conns /\ call[c] \in {"backlog", "waiting", "reading"}
      BY DEF InFlight
    <3> QED BY <3>1, Zenon DEF DInv, Settled, Undecided
  <2>2. buf' = buf /\ call'[c] = "cancelled" /\ \A k \in Conns : k # c => call'[k] = call[k]
    BY <1>4, <2>1, Zenon DEF cancel, Return, CallTypeOK
  <2>3. \A k \in InFlight : k = c
    BY Zenon DEF AInv
  <2>4. Dropped' \subseteq {c} /\ InFlight' = {}
    BY <1>2, <2>2, <2>3 DEF Dropped, InFlight
  <2> QED BY <1>1, <2>1, <2>2, <2>4, Zenon DEF SInv
<1> QED BY <1>3, <1>4, Zenon DEF shutdown

\* Every step of the loop keeps it.
LEMMA SInvStep ==
  ASSUME IInv, DInv, AInv, SInv, [AxumNext]_axumvars
  PROVE  SInv'
<1>1. TcpTypeOK /\ CallTypeOK /\ PInv /\ LoopTypeOK
  BY Zenon DEF IInv, AInv
<1>2. ASSUME next_accept PROVE SInv'
  <2> DEFINE c == Head(backlog)
  <2>1. PICK d \in Policy[c] : accept(c, d)
    BY <1>2, Zenon DEF next_accept
  <2>2. loop = "accepting" /\ InFlight = {} /\ backlog # <<>>
    BY <1>2, Zenon DEF next_accept
  <2>3. c \in Conns
    BY <1>1, <2>2 DEF LoopTypeOK
  <2> HIDE DEF c
  <2>4. /\ call'[c] \in {"ok", "err", "reading", "waiting"}
        /\ \A k \in Conns : k # c => call'[k] = call[k]
    BY <1>1, <2>1, <2>2, <2>3, TakenUp, Zenon
  <2>5. call'[c] # "cancelled" /\ InFlight \subseteq {c}
    BY <2>2, <2>4
  <2> QED BY <2>2, <2>3, <2>4, <2>5, SInvTurn, Zenon
<1>3. ASSUME NEW c \in Conns, accept_step(c) PROVE SInv'
  <2>1. CallStep(c)
    BY <1>3, Zenon DEF accept_step
  <2>2. c \in InFlight
    BY <2>1, Zenon DEF CallStep, permit_acquired, permit_timeout, read, read_eof, read_error,
                       read_timeout, InFlight
  <2>3. call[c] = "waiting" => MAX_PENDING_HANDSHAKES = 0
    BY <2>2, Zenon DEF AInv
  <2>4. /\ call'[c] \in {"ok", "err"} \/ call'[c] = "reading"
        /\ \A k \in Conns : k # c => call'[k] = call[k]
    BY <1>1, <2>1, <2>3, Advanced, Zenon
  <2>5. call'[c] # "cancelled"
    BY <2>4
  <2>6. loop = "accepting" /\ InFlight \subseteq {c}
    BY <2>2, Zenon DEF AInv
  <2> QED BY <2>4, <2>5, <2>6, SInvTurn, Zenon
<1>4. ASSUME shutdown PROVE SInv'
  BY <1>1, <1>4, SInvShutdown
<1>5. ASSUME accept_io_error PROVE SInv'
  <2>1. loop = "accepting" /\ InFlight = {} /\ UNCHANGED <<call, buf>>
    BY <1>5, Zenon DEF accept_io_error, vars, callvars
  <2>2. Dropped = {}
    BY <2>1 DEF SInv
  <2>3. Dropped' = {} /\ InFlight' = {}
    BY <2>1, <2>2, Zenon DEF Dropped, InFlight
  <2> QED BY <2>3, Zenon DEF SInv
<1>6. ASSUME wake \/ AxumDone \/ UNCHANGED axumvars PROVE SInv'
  BY <1>6, SInvFrame, Zenon DEF wake, AxumDone, axumvars, loopvars, vars, callvars
<1>7. ASSUME AxumTick PROVE SInv'
  BY <1>7, SInvFrame, Zenon DEF AxumTick, Tick, vars, callvars
<1>8. ASSUME NEW c \in Conns, PeerStep(c) \/ AppStep(c), UNCHANGED loopvars
      PROVE  SInv'
  BY <1>8, SInvFrame, Zenon DEF PeerStep, AppStep, loopvars, callvars
<1> QED BY <1>2, <1>3, <1>4, <1>5, <1>6, <1>7, <1>8, Zenon DEF AxumNext

\* The loop starts with the whole backlog to take up and nothing spent.
LEMMA InitAInv == AxumInit => Init /\ AInv /\ SInv
<1> SUFFICES ASSUME AxumInit PROVE Init /\ AInv /\ SInv
  OBVIOUS
<1>1. Init
  BY Zenon DEF AxumInit
<1>2. Cardinality(Conns) \in Nat /\ HEADER_TIMEOUT \in Nat /\ RETRY_DELAY \in Nat
  BY ListenerAssumption, AxumAssumption, FS_CardinalityType
<1>3. backlog \in Seq(Conns) /\ Len(backlog) = Cardinality(Conns)
  <2>1. backlog \in [1..Cardinality(Conns) -> Conns]
    BY Zenon DEF AxumInit, Bijection, Injection
  <2> QED BY <1>2, <2>1
<1>4. \A c \in Conns : call[c] = "backlog"
  BY <1>1, Zenon DEF Init
<1>5. InFlight = {} /\ Dropped = {}
  BY <1>4 DEF InFlight, Dropped
<1>6. loop = "accepting" /\ pause = 0 /\ elapsed = 0 /\ faults = 0
  BY Zenon DEF AxumInit
<1>7. Budget = 0
  BY <1>2, <1>3, <1>6 DEF Budget
<1>8. AInv
  BY <1>2, <1>3, <1>5, <1>6, <1>7 DEF AInv, LoopTypeOK
<1> QED BY <1>1, <1>5, <1>8, Zenon DEF SInv

\* Under the serve loop the listener is still the listener: whatever holds of every
\* behaviour of ProxyProtocolListener holds of one that axum::serve drives.
THEOREM LoopUsesListener == AxumSpec => Spec
<1>1. LoopTypeOK /\ [AxumNext]_axumvars => LoopTypeOK'
  BY LoopTypeStep
<1>2. LoopTypeOK /\ [AxumNext]_axumvars => [Next]_vars
  BY LoopSteps, Zenon DEF LoopTypeOK
<1>3. AxumInit => Init /\ LoopTypeOK
  BY InitAInv, Zenon DEF AInv
<1> QED BY <1>1, <1>2, <1>3, PTL DEF AxumSpec, Spec

\* Every reachable state under the serve loop satisfies the invariants.
LEMMA LoopInductive == AxumSpec => [](IInv /\ AInv /\ SInv)
<1>1. AxumSpec => [](IInv /\ DInv)
  BY LoopUsesListener, DInvInductive, PTL
<1>2. IInv /\ IInv' /\ AInv /\ [AxumNext]_axumvars => AInv'
  BY AInvStep, Zenon DEF IInv
<1>3. IInv /\ DInv /\ AInv /\ SInv /\ [AxumNext]_axumvars => SInv'
  BY SInvStep
<1> QED BY <1>1, <1>2, <1>3, InitAInv, PTL DEF AxumSpec

\* The loop keeps its backlog waiting for no longer than one header_timeout per
\* connection and one sleep per I/O error, and never for a permit.
THEOREM BacklogDelay == AxumSpec => []BacklogDelayBounded
<1>1. IInv /\ AInv => BacklogDelayBounded
  <2> SUFFICES ASSUME IInv, AInv PROVE BacklogDelayBounded
    OBVIOUS
  <2>1. elapsed <= Budget
    <3>1. elapsed \in Nat /\ pause \in Nat /\ elapsed + pause <= Budget
      BY Zenon DEF AInv, LoopTypeOK
    <3>2. Budget \in Nat
      <4>1. /\ Cardinality(Conns) - Len(backlog) \in Nat /\ faults \in Nat
            /\ HEADER_TIMEOUT \in Nat /\ RETRY_DELAY \in Nat
        BY ListenerAssumption, AxumAssumption, FS_CardinalityType DEF AInv, LoopTypeOK
      <4> QED BY <4>1 DEF Budget
    <3> QED BY <3>1, <3>2
  <2>2. ASSUME MAX_PENDING_HANDSHAKES > 0 PROVE waiters = <<>>
    <3>1. \A c \in InFlight : call[c] = "reading" /\ c \in Conns
      BY <2>2, PermitAssumption DEF AInv, InFlight
    <3>2. Range(waiters) = {} /\ waiters \in Seq(Conns)
      BY <3>1 DEF IInv, PInv, Conserved, SemTypeOK
    <3> QED BY <3>2 DEF Range
  <2> QED BY <2>1, <2>2, Zenon DEF BacklogDelayBounded, Budget
<1> QED BY <1>1, LoopInductive, PTL

\* A shutdown of the server loses at most the one connection in its handshake, one
\* whose header was still undecided, and leaves no permit or waiter behind.
THEOREM ShutdownCost == AxumSpec => []ShutdownDropsOne
<1>1. IInv /\ AInv /\ SInv => ShutdownDropsOne
  <2> SUFFICES ASSUME IInv, AInv, SInv, loop = "stopped"
               PROVE  permits = MAX_PENDING_HANDSHAKES /\ waiters = <<>>
    BY Zenon DEF ShutdownDropsOne, SInv
  <2>1. InFlight = {}
    BY DEF AInv
  <2>2. holders = {} /\ Range(waiters) = {}
    BY <2>1 DEF IInv, PInv
  <2>3. permits = MAX_PENDING_HANDSHAKES
    BY <2>2, FS_EmptySet DEF IInv, PInv, Conserved, SemTypeOK
  <2>4. waiters \in Seq(Conns)
    BY DEF IInv, PInv, Conserved, SemTypeOK
  <2>5. waiters = <<>>
    BY <2>2, <2>4 DEF Range
  <2> QED BY <2>3, <2>5
<1> QED BY <1>1, LoopInductive, PTL
=============================================================================
