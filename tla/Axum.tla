-------------------------------- MODULE Axum --------------------------------
(***************************************************************************)
(* The serve loop of axum.rs over the listener: one accept at a time; an   *)
(* error is logged and the loop goes on, after a sleep of one second when  *)
(* it is an I/O error other than a reset, abort or refusal.  axum::serve   *)
(* (external) hands each stream to a task of its own, calls accept again,  *)
(* and drops the future when the server is told to stop.                   *)
(***************************************************************************)
EXTENDS Listener

CONSTANTS
  RETRY_DELAY,          \* the one second of handle_accept_error, in ticks
  IoErrors,             \* the kinds of io::Error a socket may report
  MaxAcceptErrors       \* bound on the failures of TcpListener::accept

ASSUME AxumAssumption == RETRY_DELAY \in Nat /\ MaxAcceptErrors \in Nat

VARIABLES
  loop,         \* "accepting", "sleeping", "stopped"
  pause,        \* what is left of the sleep
  backlog,      \* the kernel's queue of connections
  refusals,     \* failures of TcpListener::accept so far
  elapsed,      \* ticks the loop has spent, for the properties
  faults        \* I/O errors other than connection errors, for the properties

loopvars == <<loop, pause, backlog, refusals, elapsed, faults>>
axumvars == <<loopvars, vars>>

AxumInit ==
  /\ Init
  /\ loop = "accepting"
  /\ pause = 0
  /\ backlog \in Bijection(1..Cardinality(Conns), Conns)
  /\ refusals = 0
  /\ elapsed = 0
  /\ faults = 0

is_connection_error(kind) ==
  kind \in {"ConnectionReset", "ConnectionAborted", "ConnectionRefused"}

Sleep == loop' = "sleeping" /\ pause' = RETRY_DELAY

\* Faulty variant: the loop sleeps on every error.
handle_accept_error_slow(e) ==
  /\ Sleep
  /\ IF e.kind = "Io"
     THEN \E kind \in IoErrors :
            faults' = IF is_connection_error(kind) THEN faults ELSE faults + 1
     ELSE UNCHANGED faults

\* Only an I/O error can suspend the loop.
handle_accept_error(e) ==
  IF e.kind = "Io"
  THEN \E kind \in IoErrors :
         IF is_connection_error(kind) THEN UNCHANGED <<loop, pause, faults>>
         ELSE Sleep /\ faults' = faults + 1
  ELSE UNCHANGED <<loop, pause, faults>>

\* The match on what accept returned, if the step was its last.  A stream goes to
\* its handler, which reads it from then on; the loop turns to the next accept.
Returned(c) ==
  IF call'[c] = "err" THEN handle_accept_error(error'[c][1])
  ELSE UNCHANGED <<loop, pause, faults>>

next_accept ==
  /\ loop = "accepting" /\ InFlight = {} /\ backlog # <<>>
  /\ \E d \in Policy[Head(backlog)] : accept(Head(backlog), d)
  /\ Returned(Head(backlog))
  /\ backlog' = Tail(backlog)
  /\ UNCHANGED <<refusals, elapsed>>

accept_step(c) ==
  /\ CallStep(c)
  /\ Returned(c)
  /\ UNCHANGED <<backlog, refusals, elapsed>>

\* TcpListener::accept itself fails: there is no connection yet.
accept_io_error ==
  /\ loop = "accepting" /\ InFlight = {} /\ refusals < MaxAcceptErrors
  /\ refusals' = refusals + 1
  /\ handle_accept_error(AcceptError("Io"))
  /\ UNCHANGED <<backlog, elapsed, vars>>

\* Faulty variant: the end of the sleep is not noticed.
wake_lost ==
  /\ loop = "sleeping" /\ pause = 0
  /\ UNCHANGED axumvars

wake ==
  /\ loop = "sleeping" /\ pause = 0
  /\ loop' = "accepting"
  /\ UNCHANGED <<pause, backlog, refusals, elapsed, faults, vars>>

\* Graceful shutdown drops the accept future wherever it is suspended.
shutdown ==
  /\ loop # "stopped"
  /\ loop' = "stopped" /\ pause' = 0
  /\ IF InFlight = {} THEN UNCHANGED vars ELSE \E c \in InFlight : cancel(c)
  /\ UNCHANGED <<backlog, refusals, elapsed, faults>>

AxumTick ==
  /\ \/ Tick /\ UNCHANGED pause
     \/ loop = "sleeping" /\ pause > 0 /\ pause' = pause - 1 /\ UNCHANGED vars
  /\ elapsed' = elapsed + 1
  /\ UNCHANGED <<loop, backlog, refusals, faults>>

\* What is left in the backlog after a shutdown stays there.
AxumDone ==
  /\ loop = "stopped"
  /\ \A c \in Conns : Live(c) => call[c] = "backlog"
  /\ UNCHANGED axumvars

AxumNext ==
  \/ next_accept
  \/ \E c \in Conns : accept_step(c)
  \/ accept_io_error
  \/ wake
  \/ shutdown
  \/ AxumTick
  \/ \E c \in Conns : (PeerStep(c) \/ AppStep(c)) /\ UNCHANGED loopvars
  \/ AxumDone

AxumSpec == AxumInit /\ [][AxumNext]_axumvars

\* The serve task is polled when it is woken, and time passes; peers, handlers
\* and the shutdown signal promise nothing.
AxumFairSpec ==
  /\ AxumSpec
  /\ WF_axumvars(AxumTick)
  /\ WF_axumvars(next_accept)
  /\ WF_axumvars(wake)
  /\ \A c \in Conns : WF_axumvars(accept_step(c))

-----------------------------------------------------------------------------
\* Properties.

\* How long the loop keeps the backlog waiting: one header_timeout for each
\* connection taken up so far and one sleep for each I/O error that is not a
\* connection error.  No other error costs time, and no accept of the loop waits
\* for a handshake permit, whatever max_pending_handshakes is.
BacklogDelayBounded ==
  /\ elapsed <= (Cardinality(Conns) - Len(backlog)) * HEADER_TIMEOUT + faults * RETRY_DELAY
  /\ MAX_PENDING_HANDSHAKES > 0 => waiters = <<>>

\* The connections whose accept future was dropped.
Dropped == {c \in Conns : call[c] = "cancelled"}

\* What a shutdown costs: dropping the accept future at its await loses at most the
\* one connection it was reading from, never one whose octets had already decided
\* its header, and none while the loop runs; the permit and the place in the queue
\* that the future held are given back.
ShutdownDropsOne ==
  /\ \A c, k \in InFlight \cup Dropped : c = k
  /\ Dropped # {} => loop = "stopped"
  /\ \A c \in Dropped : parse(buf[c]) = Incomplete
  /\ loop = "stopped" => permits = MAX_PENDING_HANDSHAKES /\ waiters = <<>>

\* The loop outlives every error: unless the server is told to stop, each
\* connection in the backlog is taken up and its accept returns, behind stalled
\* peers, resets and failures of TcpListener::accept.
EveryConnectionSettled ==
  \A c \in Conns : call[c] = "backlog" ~>
    call[c] \in {"ok", "err"} \/ loop = "stopped"
=============================================================================
