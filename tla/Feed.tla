-------------------------------- MODULE Feed --------------------------------
(***************************************************************************)
(* A caller of parse (parse/mod.rs) that follows its documentation: on     *)
(* Incomplete it reads more data and retries.  Octets arrive one by one.   *)
(***************************************************************************)
EXTENDS Parse

CONSTANT Inputs         \* octet sequences

ASSUME InputAssumption == \A s \in Inputs : s \in Seq(Nat)

VARIABLES input, fed, verdict

fvars == <<input, fed, verdict>>

FInit ==
  /\ input \in Inputs
  /\ fed = 0
  /\ verdict = parse(<<>>)

\* One more octet; the caller stops retrying at the first verdict.
FeedOctet ==
  /\ fed < Len(input)
  /\ fed' = fed + 1
  /\ verdict' = IF verdict = Incomplete THEN parse(SubSeq(input, 1, fed')) ELSE verdict
  /\ UNCHANGED input

FSpec == FInit /\ [][FeedOctet]_fvars

-----------------------------------------------------------------------------
\* The verdict the caller stopped at is the verdict on any longer buffer: what
\* parse decides does not depend on how much it is given at a time.
VerdictStable == verdict = parse(SubSeq(input, 1, fed))

\* A header is recognised the moment its last octet is there: a caller never has
\* to wait for octets that the peer only sends after an answer.
NoLookahead ==
  [][verdict = Incomplete /\ verdict'.tag = "Ok" => verdict'.consumed = fed']_fvars
=============================================================================
