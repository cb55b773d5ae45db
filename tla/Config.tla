------------------------------- MODULE Config -------------------------------
(***************************************************************************)
(* ProxyProtocolConfig and ConfigBuilder (config.rs), and what the         *)
(* listener does with the limits when it is made (listener.rs, new) and on *)
(* its first handshake: Semaphore::new and the addition of header_timeout  *)
(* to the clock panic beyond their range.  A configuration is a function   *)
(* from the field names; the policy and the validator are opaque values.   *)
(***************************************************************************)
EXTENDS Integers

CONSTANTS
  Values,               \* for each field, the values a caller passes (seconds for the timeout)
  MAX_PERMITS,          \* tokio's Semaphore::MAX_PERMITS
  MAX_DURATION          \* the longest time that can be added to an Instant

Fields == {"header_timeout", "max_header_size", "max_pending_handshakes",
           "policy", "validator", "version"}
Limits == {"header_timeout", "max_header_size", "max_pending_handshakes"}

ASSUME ConfigAssumption ==
  /\ DOMAIN Values = Fields
  /\ \A f \in Limits : Values[f] \subseteq Nat
  /\ MAX_PERMITS \in Nat /\ MAX_DURATION \in Nat

None == <<>>
Some(v) == <<v>>

VARIABLES
  how,          \* "none", "builder", "fields" (public fields, or Default)
  builder,      \* the fields of the ConfigBuilder, or of the struct
  config,       \* what the listener was made with
  phase,        \* "configuring", "refused", "configured", "listening", "reading", "panicked"
  refusal,      \* the field a ConfigError names
  given         \* the limits that the caller has asked for, for the properties

cvars == <<how, builder, config, phase, refusal, given>>

\* Default for ProxyProtocolConfig, and Default for ConfigBuilder.
default_config ==
  [header_timeout |-> 5, max_header_size |-> 4096, max_pending_handshakes |-> 1024,
   policy |-> "AcceptAll", validator |-> None, version |-> "Both"]
default_builder ==
  [header_timeout |-> 5, max_header_size |-> 4096, max_pending_handshakes |-> 1024,
   policy |-> "AcceptAll", validator |-> None, version |-> "Both"]

CInit ==
  /\ how = "none"
  /\ builder = default_builder
  /\ config = default_config
  /\ phase = "configuring"
  /\ refusal = "none"
  /\ given = [f \in Limits |-> default_config[f]]

\* ProxyProtocolConfig::builder, and ProxyProtocolConfig::default.
Start(way) ==
  /\ how = "none"
  /\ how' = way
  /\ builder' = IF way = "builder" THEN default_builder ELSE default_config
  /\ UNCHANGED <<config, phase, refusal, given>>

\* The caller asks for a value of a field, by a setter or by assigning to it.
Asks(way, field, value) ==
  /\ how = way /\ phase = "configuring"
  /\ given' = [f \in Limits |-> IF f = field THEN value ELSE given[f]]
  /\ UNCHANGED <<how, config, phase, refusal>>

\* The setters of ConfigBuilder.
header_timeout(timeout) ==
  /\ Asks("builder", "header_timeout", timeout)
  /\ builder' = [builder EXCEPT !.header_timeout = timeout]

max_header_size(size) ==
  /\ Asks("builder", "max_header_size", size)
  /\ builder' = [builder EXCEPT !.max_header_size = size]

max_pending_handshakes(limit) ==
  /\ Asks("builder", "max_pending_handshakes", limit)
  /\ builder' = [builder EXCEPT !.max_pending_handshakes = limit]

policy(p) ==
  /\ Asks("builder", "policy", p)
  /\ builder' = [builder EXCEPT !.policy = p]

validator(v) ==
  /\ Asks("builder", "validator", v)
  /\ builder' = [builder EXCEPT !.validator = Some(v)]

version(v) ==
  /\ Asks("builder", "version", v)
  /\ builder' = [builder EXCEPT !.version = v]

\* An assignment to a public field of ProxyProtocolConfig; validator is an Option.
assign(field, value) ==
  /\ Asks("fields", field, value)
  /\ builder' = [builder EXCEPT ![field] = IF field = "validator" THEN Some(value) ELSE value]

\* Faulty variant: the limit on pending handshakes is not looked at.
FirstZeroTwo(b) ==
  IF b.header_timeout = 0 THEN "header_timeout"
  ELSE IF b.max_header_size = 0 THEN "max_header_size"
  ELSE "none"

\* The checks of build, in their order.
FirstZero(b) ==
  IF b.header_timeout = 0 THEN "header_timeout"
  ELSE IF b.max_header_size = 0 THEN "max_header_size"
  ELSE IF b.max_pending_handshakes = 0 THEN "max_pending_handshakes"
  ELSE "none"

\* The configuration that build returns.
Built(b) ==
  [header_timeout |-> b.header_timeout,
   max_header_size |-> b.max_header_size,
   max_pending_handshakes |-> b.max_pending_handshakes,
   policy |-> b.policy,
   validator |-> b.validator,
   version |-> b.version]

build ==
  /\ how = "builder" /\ phase = "configuring"
  /\ refusal' = FirstZero(builder)
  /\ IF FirstZero(builder) = "none"
     THEN phase' = "configured" /\ config' = Built(builder)
     ELSE phase' = "refused" /\ UNCHANGED config
  /\ UNCHANGED <<how, builder, given>>

\* A struct literal over Default is used as it is.
literal ==
  /\ how = "fields" /\ phase = "configuring"
  /\ phase' = "configured" /\ config' = builder
  /\ UNCHANGED <<how, builder, refusal, given>>

\* ProxyProtocolListener::new; From<TcpListener> calls it with the default.
new_listener ==
  /\ phase = "configured"
  /\ phase' = IF config.max_pending_handshakes > MAX_PERMITS THEN "panicked" ELSE "listening"
  /\ UNCHANGED <<how, builder, config, refusal, given>>

\* The first handshake that gets a permit sets its deadline; without permits
\* none gets that far.
first_deadline ==
  /\ phase = "listening" /\ config.max_pending_handshakes > 0
  /\ phase' = IF config.header_timeout > MAX_DURATION THEN "panicked" ELSE "reading"
  /\ UNCHANGED <<how, builder, config, refusal, given>>

CNext ==
  \/ \E way \in {"builder", "fields"} : Start(way)
  \/ \E v \in Values["header_timeout"] : header_timeout(v)
  \/ \E v \in Values["max_header_size"] : max_header_size(v)
  \/ \E v \in Values["max_pending_handshakes"] : max_pending_handshakes(v)
  \/ \E v \in Values["policy"] : policy(v)
  \/ \E v \in Values["validator"] : validator(v)
  \/ \E v \in Values["version"] : version(v)
  \/ \E f \in Fields : \E v \in Values[f] : assign(f, v)
  \/ build
  \/ literal
  \/ new_listener
  \/ first_deadline

CSpec == CInit /\ [][CNext]_cvars

-----------------------------------------------------------------------------
\* Properties.

\* Construction-time validation, in terms of what the caller asked for.  A listener
\* made from build was asked for a positive timeout, size limit and permit count, so no
\* handshake waits for a permit in vain; a listener that reads a header has a permit and
\* a deadline that the clock can express, whichever way it was made; Semaphore::new and
\* the deadline panic only for a limit that was asked for beyond their range; and a
\* refusal names a limit that was asked to be zero.
ListensInRange ==
  /\ how = "builder" /\ phase \in {"listening", "reading"} => \A f \in Limits : given[f] > 0
  /\ phase \in {"listening", "reading"} => given.max_pending_handshakes <= MAX_PERMITS
  /\ phase = "reading" =>
       given.max_pending_handshakes > 0 /\ given.header_timeout <= MAX_DURATION
  /\ phase = "panicked" =>
       given.max_pending_handshakes > MAX_PERMITS \/ given.header_timeout > MAX_DURATION
  /\ phase = "refused" => refusal \in Limits /\ given[refusal] = 0
=============================================================================
