----------------------------- MODULE Semaphore -----------------------------
(***************************************************************************)
(* tokio::sync::Semaphore as the listener uses it (external): one permit   *)
(* per call, waiters served first in, first out.  A released permit is     *)
(* assigned to the first waiter at once, before that waiter is polled      *)
(* again; dropping a permit, or an acquire future that was assigned one,   *)
(* gives the permit back.                                                  *)
(***************************************************************************)
EXTENDS Integers, Sequences, FiniteSets, FiniteSetsExt

CONSTANT MAX_PENDING_HANDSHAKES

ASSUME PermitAssumption == MAX_PENDING_HANDSHAKES \in Nat

VARIABLES
  permits,      \* permits not assigned
  waiters,      \* queue of callers
  holders       \* callers a permit is assigned to

semvars == <<permits, waiters, holders>>

SemTypeOK(Callers) ==
  /\ permits \in Nat
  /\ waiters \in Seq(Callers)
  /\ holders \subseteq Callers

SemInit ==
  /\ permits = MAX_PENDING_HANDSHAKES
  /\ waiters = <<>>
  /\ holders = {}

\* The first poll of acquire(): a free permit is taken at once.
Acquire(c) ==
  IF permits > 0
  THEN permits' = permits - 1 /\ holders' = holders \cup {c} /\ UNCHANGED waiters
  ELSE waiters' = Append(waiters, c) /\ UNCHANGED <<permits, holders>>

\* The queue after c left it.
Without(queue, c) ==
  LET at == {i \in DOMAIN queue : queue[i] = c}
  IN  IF at = {} THEN queue
      ELSE SubSeq(queue, 1, Min(at) - 1) \o SubSeq(queue, Min(at) + 1, Len(queue))

\* Drop of the permit or of the pending acquire future.
Release(c) ==
  IF c \notin holders
  THEN /\ waiters' = Without(waiters, c)
       /\ UNCHANGED <<permits, holders>>
  ELSE IF waiters = <<>>
  THEN permits' = permits + 1 /\ holders' = holders \ {c} /\ UNCHANGED waiters
  ELSE /\ holders' = (holders \ {c}) \cup {Head(waiters)}
       /\ waiters' = Tail(waiters)
       /\ UNCHANGED permits
=============================================================================
