----------------------------- MODULE FeedProofs -----------------------------
(***************************************************************************)
(* Incremental use of parse, for every input and every wire format.        *)
(***************************************************************************)
EXTENDS Feed, ParseProofs

\* The inductive invariant: the verdict is that of the octets fed so far.
FInv == input \in Inputs /\ fed \in 0..Len(input) /\ VerdictStable

\* Every state of the caller of parse satisfies the inductive invariant.
LEMMA FInvInductive == FSpec => []FInv
<1>1. FInit => FInv
  <2> SUFFICES ASSUME FInit PROVE FInv
    OBVIOUS
  <2>1. input \in Inputs /\ fed = 0 /\ verdict = parse(<<>>) /\ input \in Seq(Nat)
    BY InputAssumption DEF FInit
  <2>2. SubSeq(input, 1, 0) = <<>>
    BY <2>1
  <2>3. fed \in 0..Len(input)
    BY <2>1
  <2> QED BY <2>1, <2>2, <2>3, Zenon DEF FInv, VerdictStable
<1>2. FInv /\ [FeedOctet]_fvars => FInv'
  <2> SUFFICES ASSUME FInv, [FeedOctet]_fvars PROVE FInv'
    OBVIOUS
  <2>1. CASE FeedOctet
    <3> DEFINE b == SubSeq(input, 1, fed + 1)
    <3>1. /\ input \in Inputs /\ input \in Seq(Nat) /\ fed \in 0..Len(input)
          /\ fed + 1 \in 0..Len(input) /\ fed' = fed + 1 /\ input' = input
      BY <2>1, InputAssumption DEF FeedOctet, FInv
    <3>2. verdict' = IF verdict = Incomplete THEN parse(b) ELSE verdict
      BY <2>1, <3>1 DEF FeedOctet
    <3>3. b \in Seq(Nat) /\ fed \in 0..Len(b) /\ SubSeq(b, 1, fed) = SubSeq(input, 1, fed)
      <4>1. b \in Seq(Nat) /\ Len(b) = fed + 1
        BY <3>1
      <4>2. Agrees(b, input)
        BY <3>1, PrefixAgrees
      <4>3. fed \in 0..Len(b)
        BY <3>1, <4>1
      <4> QED BY <4>1, <4>2, <4>3, Zenon DEF Agrees
    <3>4. verdict = parse(SubSeq(b, 1, fed))
      BY <3>3 DEF FInv, VerdictStable
    <3> HIDE DEF b
    <3>5. verdict # Incomplete => parse(b) = verdict
      BY <3>3, <3>4, ParseStable
    <3>6. verdict' = parse(b)
      BY <3>2, <3>5
    <3> QED BY <3>1, <3>6 DEF FInv, VerdictStable, b
  <2>2. CASE UNCHANGED fvars
    BY <2>2 DEF fvars, FInv, VerdictStable
  <2> QED BY <2>1, <2>2
<1> QED BY <1>1, <1>2, PTL DEF FSpec

\* A caller that retries parse on Incomplete, one octet at a time, ends with the
\* verdict that one call on the whole buffer gives.
THEOREM FeedVerdictStable == FSpec => []VerdictStable
<1>1. FInv => VerdictStable
  BY DEF FInv
<1> QED BY <1>1, FInvInductive, PTL

\* No step reports a header before or after its last octet.
THEOREM FeedNoLookahead == FSpec => NoLookahead
<1> DEFINE Exact == verdict = Incomplete /\ verdict'.tag = "Ok" => verdict'.consumed = fed'
<1>1. FInv /\ FInv' /\ [FeedOctet]_fvars => [Exact]_fvars
  <2> SUFFICES ASSUME FInv, FInv', FeedOctet, verdict = Incomplete, verdict'.tag = "Ok"
               PROVE  verdict'.consumed = fed'
    OBVIOUS
  <2> DEFINE b == SubSeq(input, 1, fed + 1)
             m == verdict'.consumed
  <2>1. /\ input \in Seq(Nat) /\ fed \in 0..Len(input)
        /\ fed + 1 \in 0..Len(input) /\ fed' = fed + 1 /\ input' = input
    BY InputAssumption DEF FeedOctet, FInv
  <2>2. verdict' = parse(b) /\ verdict = parse(SubSeq(input, 1, fed))
    BY <2>1 DEF FInv, VerdictStable
  <2>3. b \in Seq(Nat) /\ Len(b) = fed + 1
    BY <2>1
  <2>4. m \in 1..(fed + 1)
    BY <2>2, <2>3, ConsumedInBuffer
  <2>5. ASSUME m \in 0..fed PROVE FALSE
    <3> DEFINE p == SubSeq(input, 1, fed)
    <3>1. parse(SubSeq(b, 1, m)) = verdict'
      BY <2>2, <2>3, HeaderSuffices
    <3>2. p \in Seq(Nat) /\ Len(p) = fed
      BY <2>1
    <3>3. Agrees(b, input) /\ Agrees(p, input)
      BY <2>1, PrefixAgrees
    <3>4. m \in 0..Len(b) /\ m \in 0..Len(p)
      BY <2>3, <2>5, <3>2, <2>1
    <3>5. SubSeq(b, 1, m) = SubSeq(p, 1, m)
      <4> HIDE DEF b, p, m
      <4> QED BY <3>3, <3>4, Zenon DEF Agrees
    <3>6. verdict' # Incomplete
      BY Tags
    <3> HIDE DEF b, m, p
    <3>7. parse(p) = verdict'
      BY <3>1, <3>2, <3>4, <3>5, <3>6, ParseStable
    <3> QED BY <2>2, <3>6, <3>7 DEF p
  <2> QED BY <2>1, <2>4, <2>5
<1> QED BY <1>1, FInvInductive, PTL DEF FSpec, NoLookahead
=============================================================================
