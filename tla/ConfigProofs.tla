---------------------------- MODULE ConfigProofs ----------------------------
(***************************************************************************)
(* The limits a caller asks for are those that build checks and that the   *)
(* listener runs with, whatever the limits are and in whatever order and   *)
(* way they are given.                                                     *)
(***************************************************************************)
EXTENDS Config, TLAPS

Phases == {"configuring", "refused", "configured", "listening", "reading", "panicked"}

\* A configuration with the given limits.
HasLimits(b, limits) == b = [f \in Fields |-> b[f]] /\ \A f \in Limits : b[f] = limits[f]

Positive(limits) == \A f \in Limits : limits[f] > 0

\* The invariant: the builder has the limits that were asked for until it is turned into
\* the configuration, and each check that was passed still holds of them.
CInv ==
  /\ how \in {"none", "builder", "fields"} /\ phase \in Phases
  /\ given \in [Limits -> Nat] /\ HasLimits(builder, given)
  /\ how = "none" => phase = "configuring" /\ given = [f \in Limits |-> default_config[f]]
  /\ phase \notin {"configuring", "refused"} => HasLimits(config, given)
  /\ how = "builder" /\ phase \notin {"configuring", "refused"} => Positive(given)
  /\ phase \in {"listening", "reading"} => given.max_pending_handshakes <= MAX_PERMITS
  /\ phase = "reading" =>
       given.max_pending_handshakes > 0 /\ given.header_timeout <= MAX_DURATION
  /\ phase = "panicked" =>
       given.max_pending_handshakes > MAX_PERMITS \/ given.header_timeout > MAX_DURATION
  /\ phase = "refused" => refusal \in Limits /\ given[refusal] = 0

\* The two lists of defaults give the same limits.
LEMMA DefaultsAgree ==
  LET limits == [f \in Limits |-> default_config[f]]
  IN  /\ limits \in [Limits -> Nat]
      /\ HasLimits(default_config, limits) /\ HasLimits(default_builder, limits)
<1>1. \A f \in Limits : default_config[f] \in Nat /\ default_builder[f] = default_config[f]
  BY DEF default_config, default_builder, Limits
<1>2. default_config = [f \in Fields |-> default_config[f]]
  BY DEF default_config, Fields
<1>3. default_builder = [f \in Fields |-> default_builder[f]]
  BY DEF default_builder, Fields
<1> QED BY <1>1, <1>2, <1>3 DEF HasLimits

\* build copies the limits.
LEMMA BuiltHasLimits ==
  ASSUME NEW limits, NEW b, HasLimits(b, limits)
  PROVE  HasLimits(Built(b), limits)
<1>1. Built(b) = [f \in Fields |-> Built(b)[f]]
  BY DEF Built, Fields
<1>2. \A f \in Limits : Built(b)[f] = b[f]
  BY DEF Built, Limits
<1> QED BY <1>1, <1>2 DEF HasLimits

\* build refuses exactly the configurations with a limit of zero, and names one.
LEMMA FirstZeroNames ==
  ASSUME NEW limits \in [Limits -> Nat], NEW b, HasLimits(b, limits)
  PROVE  /\ FirstZero(b) = "none" => Positive(limits)
         /\ FirstZero(b) # "none" => FirstZero(b) \in Limits /\ limits[FirstZero(b)] = 0
<1>1. /\ b.header_timeout = limits.header_timeout /\ limits.header_timeout \in Nat
      /\ b.max_header_size = limits.max_header_size /\ limits.max_header_size \in Nat
      /\ b.max_pending_handshakes = limits.max_pending_handshakes
      /\ limits.max_pending_handshakes \in Nat
  BY DEF HasLimits, Limits
<1> QED BY <1>1 DEF FirstZero, Positive, Limits

\* Every call on the builder, and every step of the listener it makes, keeps the invariant.
LEMMA CInvStep ==
  ASSUME CInv, [CNext]_cvars
  PROVE  CInv'
<1>1. given \in [Limits -> Nat] /\ HasLimits(builder, given)
  BY Zenon DEF CInv
<1>2. /\ given.header_timeout \in Nat /\ given.max_pending_handshakes \in Nat
      /\ MAX_PERMITS \in Nat /\ MAX_DURATION \in Nat
  BY <1>1, ConfigAssumption DEF Limits
<1>3. ASSUME NEW way \in {"builder", "fields"}, Start(way) PROVE CInv'
  <2>1. HasLimits(builder', given) /\ phase = "configuring"
    BY <1>3, DefaultsAgree, Zenon DEF Start, CInv
  <2> QED BY <1>3, <2>1 DEF CInv, Start
<1>4. ASSUME NEW way \in {"builder", "fields"}, NEW f \in Fields, NEW v \in Values[f], NEW w,
             f \in Limits => w = v, Asks(way, f, v), builder' = [builder EXCEPT ![f] = w]
      PROVE  CInv'
  <2>1. given' \in [Limits -> Nat] /\ HasLimits(builder', given')
    <3>1. given' = [g \in Limits |-> IF g = f THEN v ELSE given[g]]
      BY <1>4, Zenon DEF Asks
    <3>2. builder' = [g \in Fields |-> IF g = f THEN w ELSE builder[g]]
      BY <1>1, <1>4 DEF HasLimits
    <3>3. f \in Limits => v \in Nat
      BY ConfigAssumption
    <3>4. \A g \in Limits : g \in Fields
      BY DEF Limits, Fields
    <3>5. \A g \in Limits : builder'[g] = given'[g]
      BY <1>1, <1>4, <3>1, <3>2, <3>4 DEF HasLimits
    <3>6. builder' = [g \in Fields |-> builder'[g]]
      BY <3>2
    <3> QED BY <1>1, <3>1, <3>3, <3>5, <3>6 DEF HasLimits
  <2>2. how' = way /\ phase' = "configuring"
    BY <1>4, Zenon DEF Asks
  <2> QED BY <2>1, <2>2 DEF CInv, Phases
<1>5. ASSUME NEW f \in Fields, NEW v \in Values[f],
             CASE f = "header_timeout" -> header_timeout(v)
               [] f = "max_header_size" -> max_header_size(v)
               [] f = "max_pending_handshakes" -> max_pending_handshakes(v)
               [] f = "policy" -> policy(v)
               [] f = "validator" -> validator(v)
               [] f = "version" -> version(v)
      PROVE  CInv'
  <2> DEFINE w == IF f = "validator" THEN Some(v) ELSE v
  <2>1. Asks("builder", f, v) /\ builder' = [builder EXCEPT ![f] = w]
    BY <1>5, Zenon DEF Fields, header_timeout, max_header_size, max_pending_handshakes,
                       policy, validator, version
  <2>2. f \in Limits => w = v
    BY DEF Limits
  <2> QED BY <1>4, <2>1, <2>2, Zenon
<1>6. ASSUME NEW f \in Fields, NEW v \in Values[f], assign(f, v) PROVE CInv'
  <2> DEFINE w == IF f = "validator" THEN Some(v) ELSE v
  <2>1. Asks("fields", f, v) /\ builder' = [builder EXCEPT ![f] = w]
    BY <1>6, Zenon DEF assign
  <2>2. f \in Limits => w = v
    BY DEF Limits
  <2> QED BY <1>4, <2>1, <2>2, Zenon
<1>7. ASSUME build PROVE CInv'
  <2>1. CASE FirstZero(builder) = "none"
    <3>1. HasLimits(config', given) /\ Positive(given)
      BY <1>1, <1>7, <2>1, FirstZeroNames, BuiltHasLimits, Zenon DEF build
    <3> QED BY <1>7, <2>1, <3>1 DEF build, CInv, Phases
  <2>2. CASE FirstZero(builder) # "none"
    <3>1. refusal' \in Limits /\ given[refusal'] = 0
      BY <1>1, <1>7, <2>2, FirstZeroNames, Zenon DEF build
    <3> QED BY <1>7, <2>2, <3>1 DEF build, CInv, Phases
  <2> QED BY <2>1, <2>2
<1>8. ASSUME literal PROVE CInv'
  BY <1>8 DEF literal, CInv, Phases
<1>9. ASSUME phase \notin {"configuring", "refused"}
      PROVE  /\ config.max_pending_handshakes = given.max_pending_handshakes
             /\ config.header_timeout = given.header_timeout
  <2>1. HasLimits(config, given)
    BY <1>9, Zenon DEF CInv
  <2> QED BY <2>1 DEF HasLimits, Limits
<1>10. ASSUME new_listener PROVE CInv'
  <2>1. phase = "configured"
    BY <1>10 DEF new_listener
  <2> QED BY <1>2, <1>9, <1>10, <2>1 DEF new_listener, CInv, Phases
<1>11. ASSUME first_deadline PROVE CInv'
  <2>1. phase = "listening"
    BY <1>11 DEF first_deadline
  <2> QED BY <1>2, <1>9, <1>11, <2>1 DEF first_deadline, CInv, Phases
<1>12. ASSUME UNCHANGED cvars PROVE CInv'
  BY <1>12 DEF cvars, CInv
<1> QED
  BY <1>3, <1>5, <1>6, <1>7, <1>8, <1>10, <1>11, <1>12 DEF CNext, Fields

\* The defaults satisfy the invariant.
LEMMA InitCInv == CInit => CInv
BY DefaultsAgree, Zenon DEF CInit, CInv, Phases

\* Every reachable state satisfies the invariant.
LEMMA CInvInductive == CSpec => []CInv
<1>1. CInv /\ [CNext]_cvars => CInv'
  BY CInvStep
<1> QED BY <1>1, InitCInv, PTL DEF CSpec

\* A listener made from build was asked for positive limits, one that reads for limits
\* that the semaphore and the clock can hold; a panic or a refusal is for a limit that
\* was asked for beyond the range, or to be zero.
THEOREM LimitsInRange == CSpec => []ListensInRange
<1>1. CInv => ListensInRange
  BY Zenon DEF CInv, ListensInRange, Positive
<1> QED BY <1>1, CInvInductive, PTL
=============================================================================
