# A TLA+ model of proxy-protocol-rs

The crate wraps a Tokio `TcpListener`. For each connection it decides by policy whether
to expect a Proxy Protocol header, reads and parses the header under a timeout and a
concurrency limit, and hands the application a stream that starts after the header,
with the client's address from the header. This directory holds TLA+ modules that
model the crate, TLC models that check them on small instances, and theorems whose
proofs TLAPS checks.

## The system

| Part | Source (under `src/src/`) | State and operations | Module |
| --- | --- | --- | --- |
| Parser | `parse/` | pure: `parse`, `parse_v1`, `parse_v2`, `parse_tlvs`, `compute_crc32c` | `Parse`, `Feed` |
| Builder | `builder.rs` | `HeaderBuilder`: 5 constructors, 9 `with_*` calls, `build`, `write_to` | `Builder` |
| Listener | `listener.rs` | one future per `accept` call: permit, deadline, buffer | `Listener` |
| Accepted stream | `stream.rs` | socket, leftover with cursor, metadata; reads, writes, half-close, `inner()` | `ProxiedStream`, `StreamUse` |
| Sockets and peers | tokio (external) | octets sent, arrived, taken; end of file, reset | `Tcp` |
| Permits | tokio (external) | free permits, queue, holders | `Semaphore` |
| Policies | `policy.rs` | pure: a decision per peer address | `Policy`; with the listener in `Trust` |
| Configuration | `config.rs` | `ConfigBuilder`, public fields, validation | `Config`; constants of `Listener` |
| Validator | `validator.rs` | user code, yes or no | a constant of `Listener` |
| Types, errors | `types.rs`, `error.rs` | data | records of `Parse`, `Listener` |
| axum | `axum.rs` | serve loop: retry, sleep on I/O errors, shutdown | `Axum` |
| Vendor TLVs | `vendor/` | pure decoders of one TLV value | `Vendor` |
| The promise | none | a connection is settled once, then read | `Handoff`, implemented in `Implements` |

`accept` takes a connection from the backlog and asks the policy. Reject and Ignore end
the call at once. Require and Use enter `read_and_validate`: wait up to `header_timeout`
for a permit of the handshake semaphore; then, with a fresh deadline of
`header_timeout`, read up to 256 octets at a time into `buf`, calling `parse` on all of
it after each read, until the verdict is not `Incomplete` or `buf` has reached
`max_header_size`. The octets after the header become the leftover of the
`ProxiedStream`, which `poll_read` serves before the socket. Calls run concurrently;
they meet in the semaphore. Any of them may be dropped at an await.

## The modules

`Parse` is a set of operators. The wire literals and sizes (signature, `PROXY `, 107,
108, 128, the base of a length octet) are constants: the models scale them down, and
the theorems hold for all of them. What std and the crc32c crate compute (UTF-8, IP and
port parsing, the checksum) are constant operators. The TLV loops are recursive
functions over offsets; the early returns keep their order.

`Feed` is a caller of `parse` that gets its input octet by octet and retries on
`Incomplete`, which is how the documentation of `parse` tells callers to use it.

`Builder` has one action per call. An assert that fails is the status `panicked`; `build`
produces octets that `Parse` reads back. `write_to` is `build` and a write.

`Tcp` and `Semaphore` are external. A peer sends its stream in segments, and may close
or reset at any point; after a reset the octets still in the socket may be read or lost.
The semaphore is tokio's: first in, first out, a released permit is assigned to the
first waiter before that waiter runs, and dropping a permit or an assigned future gives
it back.

`ProxiedStream` adds the leftover, its cursor and what the application has read.

`Listener` composes `Parse`, `ProxiedStream` and `Semaphore`. A step of a call runs from
one await to the next, which is what a task does between two polls.

| Action | Lines of `listener.rs` |
| --- | --- |
| `accept` | 74-108, up to the first suspension |
| `permit_acquired`, `permit_timeout` | 98-108 |
| `read` with `Examine` | 111-152, one turn of the loop |
| `read_eof`, `read_error`, `read_timeout` | 111-121 |
| `cancel` | the future is dropped at 98 or 111; the permit goes with it |
| `Tick` | the clock (external) |

Every return path of `read_and_validate` includes the drop of `_permit`. Time is
counted in ticks: `left` is what remains of the current timeout, `age` the time since
accept, kept for the properties. A task whose timer has run out is polled before the
next tick; this is the idealisation of a runtime without scheduling delay, and the
bounds on time are relative to it. `timeout` and `timeout_at` poll the future before the
timer, hence the guards `c \notin holders` and `ReadPending`.

In `Listener` a connection stands for its peer address, and its policy is any choice of
decisions. An I/O error of `TcpListener::accept` returns before there is a connection;
it is an action of `Axum`, where it has an effect.

`Policy` has the three constructors of `TrustedProxies`, `contains`, and `evaluate` of each
policy. An address is a number of `WIDTH` bits with a family; `IpNet` is external, and
contains an address of its own family when the two agree after division by the number
of hosts. `Trust` is the listener with one of these policies and an IP address for each
peer: the decision of `accept` is what `evaluate` says.

`Config` has the two lists of defaults, an action for each setter, `build` with its three
checks in order and its copy of the fields, and assignment to the public fields. `given`,
kept for the property, is what the caller asked the limits to be. It goes on to the two places where the
listener uses a limit in a way that can panic: `Semaphore::new`, and the addition of
`header_timeout` to the clock by the first handshake that has a permit.

`StreamUse` is an application that uses every side of a `ProxiedStream`: `poll_read`,
`poll_write`, `poll_shutdown`, and `try_read` on the socket through `inner()`.

`Axum` is the serve loop. One `accept` is in flight at a time; `Returned` is the `match` on
its result, which returns the stream or calls `handle_accept_error`. That sleeps on an
I/O error other than a reset, abort or refusal and ignores every other error. `axum::serve`
is external: it gives each stream a task of its own, calls `accept` again, and drops the
loop wherever it is suspended when it is told to stop.

`Vendor` decodes the AWS, Azure and GCP values from the raw TLVs of a parsed header, at
the radix of the wire format.

`Handoff` says what an application may rely on, without buffers, permits or timers. A
connection is settled once: refused, handed over as it is, or handed over with the
metadata of the header its stream starts with, once the header was sent to its end. Then
the application reads what was sent after the header, in order; end of file comes when
all of it was read, and an error only after a reset. The mapping in `Implements` takes
`outcome` from `call` and `proxy_info`, `received` from `delivered` and `ending` from `state`.

Definitions commented "Faulty variant" are not part of the model: each is a plausible
bug of the definition that follows it, and shows that a property would catch it.

## What is checked

| Run | Instance | Properties |
| --- | --- | --- |
| `Feed` | the real wire format; headers of both versions and their one-octet variations, lines around the limit of 107 | `VerdictStable`, `NoLookahead` |
| `Builder` | radix 5, so that the length field holds 24; values of length 0 to 25; two TLVs; a path longer than its field and one with a NUL; vendor values in and out of format | `RoundTrip`, `VendorRoundTrip` |
| `ListenerData` | 1 connection, 14 streams, segments of 1 to 17, reads of 5, a limit of 10 | `TypeOK`, `BufBounded`, `OutcomeSound`, `IncompleteJustified`, `NothingLost`, `ClientAddrFaithful`, `HeaderAccepted`, `TimeoutOnlyWhenUndecided`, `ImplementsHandoff` |
| `ListenerPermits` | 3 connections, 3 calls, 1 permit, Use, `V2Only`, a validator; a wanted, an unwanted and no header; symmetric | `PermitsAccountedFor`, `HandshakeBounded` |
| `ListenerLive` | 2 connections, 2 calls, 1 permit, Require and Use | `HeaderAccepted`, `ImplementsHandoff`, `ImplementsHandoffLive` |
| `Trust` | 1 peer of 4 IPv4 and 8 IPv6 addresses; lists of up to two networks, or an address and a network, built every way | `ListFaithful`, `TrustDecides`, `MixedUntouched` |
| `StreamUse` | 1 connection, 5 streams, every decision, `V2Only` | `ReadersPartition`, `OutcomeSound`, `HalfCloseDelivers` |
| `Config` | limits of zero, one, and on either side of the maxima; builder and public fields | `ListensInRange` |
| `Axum` | 2 connections, a sleep of 2 ticks, a timeout of 1, one failure of `TcpListener::accept`, shutdown at any point | `BacklogDelayBounded`, `ShutdownDropsOne`, `EveryConnectionSettled` |

The comment before each property states it. In short: what `accept` returns is the
verdict of the parser on the whole stream, however it was cut; a header that fits is
not refused for its size; the application reads exactly the octets after the header and
sees the right address; a deadline never beats data that has arrived; permits are
neither lost nor duplicated on any path; a stalled or dripping peer cannot keep a call
or the backlog waiting for good; what the builder builds the parser reads back, vendor
TLVs included. A peer is trusted exactly when the list names it or its prefix, and in
mixed mode the stream of any other peer is left alone. A listener made through
`build` runs only with positive limits, and a limit panics only when it was asked for beyond
the range of the semaphore or of the clock. A stalled peer costs the connections behind it in the serve loop one
`header_timeout`, an I/O error one sleep, and no other error anything; a shutdown
loses at most the one connection in its handshake, whose header was still undecided. Reading through `inner()` while there is leftover takes octets
out of order, but none is lost or seen twice.

Why the bounds suffice. The parser takes each connection's octets alone, so its data
properties need one connection; the limit of 10 lies inside some of the streams and
beyond others, and two reads of 5 cut every header in the middle. The permit protocol
depends on the octets only through which exit is taken; three calls on one permit give
a holder, a first and a second waiter, which is what the hand-over and the queue tell
apart; calls on one permit age differently already with a timeout of one tick, since the
second starts to read when the first returns. A segment there is a whole header, which two
reads of 4 cut. Every exit that depends on the header, the version and the validator is
taken in `ListenerPermits`, except a malformed header, which `ListenerData` has for one call.
`ListenerLive` has one way to cut its streams and two calls; `ListenerData` checks
`HeaderAccepted` under every way for one call. The wire format of the listener models
has a signature of 2 octets, a prefix of 3 and a line limit of 16; the `Feed` model uses the
real sizes. Addresses of 2 and 3 bits have every prefix length, host bits and a second
family of another width. In the serve loop a second connection is what waits behind the
first, and `MaxCalls` of 2 leaves it to the loop that there is one call at a time; the
sleep is longer than the timeout so that the two cannot be confused. `StreamUse` and
`ListenerPermits` run under `V2Only`, which refuses the version 1 headers among their
streams; the other runs accept both versions.

`MaxCalls` bounds the concurrent calls, `MaxTlvs` the TLVs, `MaxWritten` the octets an
application writes and `MaxAcceptErrors` the failures of `TcpListener::accept`; nothing else
is capped. `Feed`, `Builder` and `Config` stop when the input or the chain of calls ends, so
they do not check for deadlock. The listener models do: the only final states are those
in which every connection is dealt with (`Done`), or the serve loop has stopped and no
accepted stream is open (`AxumDone`).

Fairness (`FairSpec`): weak fairness of the clock; of each call's own steps, because the
runtime polls a woken task; of `accept`, because the caller awaits it in a loop; and of
the application's reads, for the second half of `ImplementsHandoffLive`. Peers get none:
they may stall for ever, and that is the case the timeouts are for. `AxumFairSpec` is fair
to the clock and to the serve task (`next_accept`, the steps of its `accept`, `wake`), and
not to handlers, peers or the shutdown signal. `UseFairSpec` is fair to `poll_read` alone:
`HalfCloseDelivers` is about an application that goes on reading.

The liveness of `Handoff` is a pair of leads-to formulas (`HLive`) and not fairness of its
actions, whose `ENABLED` TLC cannot evaluate under the mapping.

### Where documentation and code differ

Each of these runs checks what a comment says, and TLC shows a behaviour of the code
that contradicts it.

| Run | The comment | The code |
| --- | --- | --- |
| `DocTimeout` | `config.rs:24`: maximum time for the header after accept | one timeout for the permit and another for the header |
| `DocUse` | `policy.rs:134`: no signature match, direct connection | a short stream that starts with `P` or CR stays `Incomplete` and ends in an error |
| `BuilderCrc` | `builder.rs:205`, `parse/v2.rs:219`: the checksum is computed with its TLV zeroed | with a raw TLV of type 3 before it, the parser zeroes the first and compares the last |

Four more follow from what the other runs show:

- `listener.rs:64` says of `HeaderTimeout` that the header was not received; it is also
  returned when no permit came, with the header waiting in the socket (`permit_timeout`;
  `TimeoutOnlyWhenUndecided` is about calls that read).
- `config.rs:28` speaks of a maximum buffer size; it is compared after the append, and
  `BufBounded` has the bound that holds.
- `stream.rs:108` says that `is_proxied` tells whether a header was present; it tells
  whether one was parsed, and is false for a header passed on under Ignore
  (`MixedUntouched`).
- `vendor/mod.rs:43` says that an Azure value is exactly five octets; that is checked for
  sub-type 1 only (`VendorRoundTrip`).

## What is proved

For every value of the constants, from the named assumptions: `WireAssumption` (the
signature and the prefix are non-empty and differ in their first octet, no CR in the
prefix), `PermitAssumption`, `ListenerAssumption` (finitely many connections, octets are
naturals, sizes and timeouts naturals, reads of at least one octet; zero timeouts,
limits and permits included), `InputAssumption`, `AxumAssumption` and `ConfigAssumption`
(delays and limits are naturals) and `TrustAssumption` (the listener that `Trust` composes
leaves its policy open). No assumption is made about the constant operators.

| Module | Theorems |
| --- | --- |
| `ParseProofs` | `ParseStable`, `ConsumedInBuffer`, `HeaderSuffices` |
| `FeedProofs` | `FeedVerdictStable`, `FeedNoLookahead` |
| `ListenerProofs` | `TypeCorrect`, `PermitsConserved`, `HandshakeDeadline`, `BufferBound` |
| `OutcomeProofs` | `OutcomesSound`, `IncompleteOnlyWhenJustified`, `NoOctetLost`, `ClientAddrSound`, `DeadlineNeverBeatsData` |
| `HandoffProofs` | `Refinement` |
| `AxumProofs` | `LoopUsesListener`, `BacklogDelay`, `ShutdownCost` |
| `TrustProofs` | `TrustUsesListener`, `TrustByList`, `UntrustedUntouched` |
| `ConfigProofs` | `LimitsInRange` |

The facts on minima and slices that these use come first in `ParseProofs`, those on queues
in the section of `ListenerProofs` on the semaphore. The modules that are proved about take
their helpers from `Functions` and `FiniteSetsExt` and not from `SequencesExt`, which brings
the theorems that its import of `Bags` extends into every proof obligation and makes each
several times slower.

**The parser.** `ParseStable`: a verdict other than `Incomplete` is the verdict on every
extension of the buffer. `V2Stable` shows that the fields read are those of the prefix
(`V2Fields`) and that a complete header is cut to its own length; `V1Stable` that the first
CRLF within the limit stays the first. `ConsumedInBuffer` and `HeaderSuffices`: `consumed` is
within the buffer (so `buf[consumed..]` cannot panic), and the first `consumed` octets alone
give the result. The two properties of `Feed` follow by the invariant `FInv`.

**Permits, deadlines and buffers.** For any number of connections and calls, from one
inductive invariant `IInv`:

- `PInv`: free permits plus holders make the configured number, no caller is queued
  twice or both queued and a holder, nobody queues while a permit is free (`Conserved`,
  preserved by `AcquireConserves` and `ReleaseConserves`); readers hold permits; holders
  and waiters are exactly the calls in flight. The last is needed because `Release` does
  different things for a holder and for a waiter.
- `Deadlines`: `age + left` is at most one timeout while waiting and two while reading.
  `HandshakeBounded` alone is not inductive, because a tick raises `age`.
- `Buffers`: a buffer that is still being read into is empty or below
  `max_header_size`, so one more read exceeds it by less than `READ_SIZE`.

**What accept returns and what is read.** The invariant `DInv` says one of three things of
a connection, by what became of its call:

- `Undecided`: `buf` is the first `taken` octets of the stream, the parser says
  `Incomplete` of them, and there is no result yet. With `ParseStable` the verdict on
  `buf` that ends the call is the verdict on the whole stream.
- `Accepted`: metadata, decision and the verdict on the whole stream agree (`Granted`),
  and `Cursor` holds. `Mark` is how far the application has read: `taken` less what the
  leftover still holds. The octets from the header to the mark are delivered, those from
  the mark to `taken` are the leftover. `NothingLost` alone is not inductive: it does not
  say what is in the leftover.
- `Refused`: no stream, and the error is one that the stream, the decision or the limit
  justifies (`Justified`).

`OthersSame` is what makes this work for any number of connections: a step of one leaves
all of another's state alone, except the permits. The five theorems of `OutcomeProofs`
are consequences of `IInv` and `DInv`; the last is an action property.

**The refinement.** `Refinement` is `Spec => ImplementsHandoff`. A step of a call settles its
connection or is invisible (`CallRefines`): when a header is accepted, `Undecided` and
`ConsumedInBuffer` give that the peer has sent it to its end. Steps of peers map to steps
of peers (`PeerRefines`). A read by the application maps to `Reads` (`AppRefines`): by `Cursor`
before and after, what is delivered is a longer prefix of the body, and at end of file
all of it.

**The serve loop.** Its steps are steps of the listener, so `AxumSpec => Spec`, and all of
the above holds under `axum::serve`. `AInv` adds that at most one call is in flight, that it
waits for a permit only if there are none at all, and that the time spent plus what is
left of the call's timeout, or of the sleep, is within the budget of one `header_timeout`
per connection taken up and one sleep per I/O error. `BacklogDelayBounded` alone is not
inductive, because a tick uses up the budget. `ShutdownCost` needs `DInv` as well: a call in
flight is `Undecided`, so what the drop of its future loses had no verdict yet. With no call
in flight after a shutdown, `PInv` gives that every permit is free and the queue empty.

**The policies.** `TrustSpec => Spec` in the same way. `TInv` relates calls, decisions and
errors to `evaluate`; with `DInv` it gives `TrustDecides` and `MixedUntouched` in every state
where `ListFaithful` holds. `ListFaithful`, that `contains` agrees with a bit-by-bit reference,
is about the data of a list and stays with TLC: it needs induction over prefix lengths and
over the list that `from_ipnets` folds.

**The configuration.** `CInv`: the builder has the limits that were asked for until `build`
copies them or the struct is used as it is, and each check that was passed still holds of
what was asked for. `ListensInRange` speaks of the caller's limits only; without the link
through the builder and the configuration it is not inductive.

Only model-checked: the liveness properties (`HeaderAccepted`, `ImplementsHandoffLive`,
`EveryConnectionSettled`, `HalfCloseDelivers`), since fairness and `ENABLED` are out of the
prover's reach; `RoundTrip` and `VendorRoundTrip`, `ListFaithful` and `ReadersPartition`, which
need induction over data (the TLV loops, the folds, `SelectSeq`). The theorems treat the
TLV loops as functions of the complete header, which is all they need.

## Not modelled

Formatting (`Display`), logging, plain getters and `local_addr`, and the
re-exports of the crate root: none of them changes state. A
policy or validator written by the user is any choice of answers. `axum::serve`, tokio and
`ipnet` are modelled from how this code uses them. The writes of an application have no
reader in the model: `poll_write` delegates to the socket, and only its result is kept.

## Plan

Proofs: that a read through `inner()` leaves the listener's own invariants alone
(`IInv` and `DInv` without `Cursor` under `UseSpec`), and a form of `ReadersPartition` that
does not need `SelectSeq`.

## Running

```
tlc -workers 2 -config ListenerData.cfg MCImplements
tlapm ListenerProofs.tla
```

`PROJECT.json` lists the runs with their modules, the source lines of every definition,
the hazards of the code and the properties that cover them. The slowest runs take a
minute or two; the proofs of `OutcomeProofs` take about ten minutes and the others less.
