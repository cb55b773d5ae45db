---------------------------- MODULE ParseProofs ----------------------------
(***************************************************************************)
(* What the listener's read loop takes for granted of parse, for every     *)
(* buffer and every wire format: a verdict other than Incomplete is final, *)
(* and the header it reports lies within the buffer.  First the facts on   *)
(* minima and slices that this and the other proofs rest on.       *)
(***************************************************************************)
EXTENDS Parse, WellFoundedInduction, TLAPS

-----------------------------------------------------------------------------
\* Minima and sequences.

\* A non-empty set of naturals has a least element, and Min is that element.
LEMMA MinIsLeast ==
  ASSUME NEW S \in SUBSET Nat, S # {}
  PROVE  Min(S) \in S /\ \A y \in S : Min(S) <= y
<1>1. \E x \in S : \A y \in S : ~ (<<y, x>> \in OpToRel(<, Nat))
  BY NatLessThanWellFounded, WFMin
<1>2. \A x, y \in Nat : x < y => <<x, y>> \in OpToRel(<, Nat)
  BY DEF OpToRel
<1>3. PICK x \in S : \A y \in S : ~ (<<y, x>> \in OpToRel(<, Nat))
  BY <1>1
<1>4. \A y \in S : x <= y
  <2> SUFFICES ASSUME NEW y \in S PROVE x <= y
    OBVIOUS
  <2>1. x \in Nat /\ y \in Nat
    OBVIOUS
  <2>2. ~ (y < x)
    BY <1>2, <1>3, <2>1
  <2> QED BY <2>1, <2>2
<1> QED BY <1>4, Zenon DEF Min

\* Min is determined by being a least element.
LEMMA MinUnique ==
  ASSUME NEW S \in SUBSET Nat, NEW m \in S, \A y \in S : m <= y
  PROVE  Min(S) = m
<1>1. Min(S) \in S /\ \A y \in S : Min(S) <= y
  BY MinIsLeast
<1>2. Min(S) \in Nat /\ m \in Nat
  BY <1>1
<1>3. Min(S) <= m /\ m <= Min(S)
  BY <1>1
<1> QED BY <1>2, <1>3

-----------------------------------------------------------------------------
\* A slice of n elements after the first a.
LEMMA Slice ==
  ASSUME NEW S, NEW s \in Seq(S), NEW a \in Nat, NEW n \in Nat, a + n <= Len(s)
  PROVE  /\ SubSeq(s, a + 1, a + n) \in Seq(S)
         /\ Len(SubSeq(s, a + 1, a + n)) = n
         /\ \A i \in 1..n : SubSeq(s, a + 1, a + n)[i] = s[a + i]
OBVIOUS

\* Sequences of one length with the same elements are equal.
LEMMA SameSeq ==
  ASSUME NEW S, NEW s \in Seq(S), NEW t \in Seq(S), Len(s) = Len(t),
         \A i \in 1..Len(s) : s[i] = t[i]
  PROVE  s = t
OBVIOUS

\* The length of a concatenation.
LEMMA Concatenation ==
  ASSUME NEW S, NEW s \in Seq(S), NEW t \in Seq(S)
  PROVE  s \o t \in Seq(S) /\ Len(s \o t) = Len(s) + Len(t)
OBVIOUS

\* Two adjacent slices make one.
LEMMA SliceJoin ==
  ASSUME NEW S, NEW s \in Seq(S), NEW a \in Nat, NEW n \in Nat, NEW m \in Nat,
         a + n + m <= Len(s)
  PROVE  SubSeq(s, a + 1, a + n) \o SubSeq(s, a + n + 1, a + n + m)
           = SubSeq(s, a + 1, a + n + m)
<1> DEFINE p == SubSeq(s, a + 1, a + n)
           b == a + n
           q == SubSeq(s, b + 1, b + m)
           r == SubSeq(s, a + 1, a + (n + m))
<1>1. b \in Nat /\ n + m \in Nat /\ a + n <= Len(s) /\ b + m <= Len(s) /\ a + (n + m) <= Len(s)
  OBVIOUS
<1>2. p \in Seq(S) /\ Len(p) = n /\ \A i \in 1..n : p[i] = s[a + i]
  BY <1>1, Slice
<1>3. q \in Seq(S) /\ Len(q) = m /\ \A i \in 1..m : q[i] = s[b + i]
  <2> HIDE DEF b
  <2> QED BY <1>1, Slice
<1>4. r \in Seq(S) /\ Len(r) = n + m /\ \A i \in 1..(n + m) : r[i] = s[a + i]
  <2> DEFINE k == n + m
  <2>1. k \in Nat /\ a + k <= Len(s)
    BY <1>1
  <2> HIDE DEF k
  <2>2. /\ SubSeq(s, a + 1, a + k) \in Seq(S) /\ Len(SubSeq(s, a + 1, a + k)) = k
        /\ \A i \in 1..k : SubSeq(s, a + 1, a + k)[i] = s[a + i]
    BY <2>1, Slice
  <2> QED BY <2>2 DEF k
<1>5. SubSeq(s, a + n + 1, a + n + m) = q /\ SubSeq(s, a + 1, a + n + m) = r
  OBVIOUS
<1> HIDE DEF p, q, r
<1>6. p \o q \in Seq(S) /\ Len(p \o q) = n + m
  BY <1>2, <1>3, Concatenation, Zenon
<1>7. ASSUME NEW i \in 1..(n + m) PROVE (p \o q)[i] = r[i]
  <2>1. CASE i <= n
    <3>1. i \in 1..n /\ (p \o q)[i] = p[i]
      BY <1>2, <1>3, <2>1
    <3> QED BY <1>2, <1>4, <3>1
  <2>2. CASE ~ (i <= n)
    <3>1. i - n \in 1..m /\ b + (i - n) = a + i /\ (p \o q)[i] = q[i - n]
      BY <1>2, <1>3, <2>2
    <3> HIDE DEF b
    <3> QED BY <1>3, <1>4, <3>1
  <2> QED BY <2>1, <2>2
<1>8. p \o q = r
  BY <1>4, <1>6, <1>7, SameSeq
<1> QED BY <1>5, <1>8

\* Equal slices of two sequences can be cut at the same place.
LEMMA SliceCut ==
  ASSUME NEW S, NEW s \in Seq(S), NEW t \in Seq(S), NEW a \in Nat, NEW b \in Nat,
         NEW n \in Nat, NEW m \in Nat, a + n + m <= Len(s), b + n + m <= Len(t),
         SubSeq(s, a + 1, a + (n + m)) = SubSeq(t, b + 1, b + (n + m))
  PROVE  /\ SubSeq(s, a + 1, a + n) = SubSeq(t, b + 1, b + n)
         /\ SubSeq(s, a + n + 1, a + n + m) = SubSeq(t, b + n + 1, b + n + m)
<1>1. ASSUME NEW i \in 1..(n + m) PROVE s[a + i] = t[b + i]
  <2> DEFINE k == n + m
  <2>1. k \in Nat /\ a + k <= Len(s) /\ b + k <= Len(t) /\ i \in 1..k
    OBVIOUS
  <2>2. SubSeq(s, a + 1, a + k) = SubSeq(t, b + 1, b + k)
    OBVIOUS
  <2> HIDE DEF k
  <2>3. SubSeq(s, a + 1, a + k)[i] = s[a + i]
    BY <2>1
  <2>4. SubSeq(t, b + 1, b + k)[i] = t[b + i]
    BY <2>1
  <2> QED BY <2>2, <2>3, <2>4
<1>2. ASSUME NEW d \in Nat, NEW e \in Nat, d + e <= n + m
      PROVE  SubSeq(s, a + d + 1, a + d + e) = SubSeq(t, b + d + 1, b + d + e)
  <2> DEFINE a1 == a + d
             b1 == b + d
             p == SubSeq(s, a1 + 1, a1 + e)
             q == SubSeq(t, b1 + 1, b1 + e)
  <2>1. a1 \in Nat /\ b1 \in Nat /\ a1 + e <= Len(s) /\ b1 + e <= Len(t)
    BY <1>2
  <2>2. \A i \in 1..e : s[a1 + i] = t[b1 + i]
    <3> SUFFICES ASSUME NEW i \in 1..e PROVE s[a1 + i] = t[b1 + i]
      OBVIOUS
    <3>1. d + i \in 1..(n + m) /\ a1 + i = a + (d + i) /\ b1 + i = b + (d + i)
      BY <1>2
    <3> HIDE DEF a1, b1
    <3> QED BY <1>1, <3>1
  <2> HIDE DEF a1, b1
  <2>3. p \in Seq(S) /\ Len(p) = e /\ \A i \in 1..e : p[i] = s[a1 + i]
    BY <2>1, Slice
  <2>4. q \in Seq(S) /\ Len(q) = e /\ \A i \in 1..e : q[i] = t[b1 + i]
    BY <2>1, Slice
  <2>5. p = q
    <3> HIDE DEF p, q
    <3> QED BY <2>2, <2>3, <2>4, SameSeq
  <2> QED BY <2>5 DEF a1, b1
<1>3. SubSeq(s, a + 0 + 1, a + 0 + n) = SubSeq(t, b + 0 + 1, b + 0 + n)
  BY <1>2
<1>4. SubSeq(s, a + n + 1, a + n + m) = SubSeq(t, b + n + 1, b + n + m)
  BY <1>2
<1>5. a + 0 = a /\ b + 0 = b
  OBVIOUS
<1> QED BY <1>3, <1>4, <1>5

\* A slice is a prefix of a longer slice from the same place.
LEMMA SlicePrefix ==
  ASSUME NEW S, NEW s \in Seq(S), NEW a \in Nat, NEW n \in Nat, NEW m \in Nat, n <= m,
         a + m <= Len(s)
  PROVE  /\ SubSeq(SubSeq(s, a + 1, a + m), 1, n) = SubSeq(s, a + 1, a + n)
         /\ starts_with(SubSeq(s, a + 1, a + m), SubSeq(s, a + 1, a + n))
<1> DEFINE p == SubSeq(s, a + 1, a + n)
           q == SubSeq(s, a + 1, a + m)
           r == SubSeq(q, 1, n)
<1>1. p \in Seq(S) /\ Len(p) = n /\ \A i \in 1..n : p[i] = s[a + i]
  OBVIOUS
<1>2. q \in Seq(S) /\ Len(q) = m /\ \A i \in 1..m : q[i] = s[a + i]
  BY Slice
<1> HIDE DEF p, q
<1>3. r \in Seq(S) /\ Len(r) = n /\ \A i \in 1..n : r[i] = q[i]
  BY <1>2
<1>4. r = p
  <2> HIDE DEF r
  <2> QED BY <1>1, <1>2, <1>3, SameSeq
<1>5. starts_with(q, p)
  BY <1>1, <1>2, <1>4 DEF starts_with
<1> QED BY <1>4, <1>5 DEF p, q

-----------------------------------------------------------------------------
\* The buffer p is what had been read when the buffer was b's first octets.
Agrees(p, b) ==
  /\ p \in Seq(Nat) /\ b \in Seq(Nat) /\ Len(p) \in Nat /\ Len(b) \in Nat
  /\ Len(p) <= Len(b)
  /\ \A i \in 1..Len(p) : p[i] = b[i] /\ b[i] \in Nat
  /\ \A k \in 0..Len(p) : SubSeq(p, 1, k) = SubSeq(b, 1, k)

\* A prefix of a buffer agrees with it, octet by octet.
LEMMA PrefixAgrees ==
  ASSUME NEW b \in Seq(Nat), NEW n \in 0..Len(b)
  PROVE  Agrees(SubSeq(b, 1, n), b)
<1> DEFINE p == SubSeq(b, 1, n)
<1>1. p \in Seq(Nat) /\ Len(p) = n /\ \A i \in 1..n : p[i] = b[i] /\ b[i] \in Nat
  OBVIOUS
<1>2. ASSUME NEW k \in 0..n
      PROVE  SubSeq(p, 1, k) = SubSeq(b, 1, k)
  <2>1. /\ SubSeq(p, 1, k) \in Seq(Nat) /\ Len(SubSeq(p, 1, k)) = k
        /\ \A i \in 1..k : SubSeq(p, 1, k)[i] = p[i]
    BY <1>1
  <2>2. /\ SubSeq(b, 1, k) \in Seq(Nat) /\ Len(SubSeq(b, 1, k)) = k
        /\ \A i \in 1..k : SubSeq(b, 1, k)[i] = b[i]
    OBVIOUS
  <2> QED BY <1>1, <2>1, <2>2
<1> QED BY <1>1, <1>2 DEF Agrees

\* A buffer agrees with itself.
LEMMA AgreesItself ==
  ASSUME NEW b \in Seq(Nat)
  PROVE  Agrees(b, b)
BY DEF Agrees

\* Whether a literal starts the buffer is settled once the buffer is as long.
LEMMA StartsWithStable ==
  ASSUME NEW p, NEW b, Agrees(p, b), NEW sig \in Seq(Nat), Len(sig) <= Len(p)
  PROVE  starts_with(p, sig) <=> starts_with(b, sig)
<1>1. Len(p) \in Nat /\ Len(b) \in Nat /\ Len(p) <= Len(b)
  BY Zenon DEF Agrees
<1>2. Len(sig) \in 0..Len(p) /\ Len(sig) <= Len(b)
  BY <1>1
<1>3. SubSeq(p, 1, Len(sig)) = SubSeq(b, 1, Len(sig))
  BY <1>2, Zenon DEF Agrees
<1> QED BY <1>2, <1>3, Zenon DEF starts_with

-----------------------------------------------------------------------------
\* The product of two naturals is a natural.
LEMMA ProductNat == \A x, y \in Nat : x * y \in Nat
OBVIOUS

\* parse_v2 on q, with the fixed part of the header taken from b.
V2Octet(b, i) == b[Len(V2_SIGNATURE) + i]
V2Total(b) == V2_HEADER_LEN + BE16(V2Octet(b, 3), V2Octet(b, 4))
V2Whole(q, b) ==
  V2Header(SubSeq(q, 1, V2Total(b)),
           IF V2Octet(b, 1) % 16 = 0 THEN "Local" ELSE "Proxy",
           V2Octet(b, 2) \div 16, V2Octet(b, 2) % 16)
V2Verdict(q, b) ==
  IF V2Octet(b, 1) \div 16 # 2
  THEN Invalid("UnsupportedVersion", <<V2Octet(b, 1) \div 16>>)
  ELSE IF V2Octet(b, 1) % 16 \notin {0, 1}
  THEN Invalid("UnknownCommand", <<V2Octet(b, 1) % 16>>)
  ELSE IF Len(q) < V2Total(b) THEN Incomplete
  ELSE V2Whole(q, b)

\* parse_v2 reads no octet past the length field and the header it announces.
LEMMA V2Fields ==
  ASSUME NEW p, NEW b, Agrees(p, b), ~ (Len(p) < V2_HEADER_LEN)
  PROVE  /\ parse_v2(p) = V2Verdict(p, b)
         /\ V2Total(b) \in Nat /\ V2Total(b) >= V2_HEADER_LEN
         /\ V2_HEADER_LEN = Len(V2_SIGNATURE) + 4 /\ Len(V2_SIGNATURE) \in Nat
         /\ ~ (Len(p) < V2Total(b)) => V2Whole(p, b) = V2Whole(b, b)
<1> DEFINE s == Len(V2_SIGNATURE)
<1>1. Len(p) \in Nat
  BY Zenon DEF Agrees
<1>2. V2_HEADER_LEN = s + 4 /\ s \in Nat
  BY WireAssumption DEF V2_HEADER_LEN
<1>3. \A i \in 1..4 : V2Octet(p, i) = V2Octet(b, i) /\ V2Octet(b, i) \in Nat
  <2> HIDE DEF s
  <2>1. \A i \in 1..4 : s + i \in 1..Len(p)
    BY <1>1, <1>2
  <2> QED BY <2>1, Zenon DEF Agrees, V2Octet, s
<1>4. /\ V2Octet(p, 1) = V2Octet(b, 1) /\ V2Octet(p, 2) = V2Octet(b, 2)
      /\ V2Octet(p, 3) = V2Octet(b, 3) /\ V2Octet(p, 4) = V2Octet(b, 4)
      /\ V2Octet(b, 3) \in Nat /\ V2Octet(b, 4) \in Nat
  BY <1>3
<1>5. V2Total(b) \in Nat /\ V2Total(b) >= V2_HEADER_LEN
  <2>1. Radix \in Nat
    BY WireAssumption
  <2>2. V2Octet(b, 3) * Radix \in Nat
    BY <1>4, <2>1, ProductNat, Zenon
  <2>3. BE16(V2Octet(b, 3), V2Octet(b, 4)) \in Nat
    BY <1>4, <2>2 DEF BE16
  <2> QED BY <1>2, <2>3 DEF V2Total
<1>6. parse_v2(p) = V2Verdict(p, p)
  BY Zenon DEF parse_v2, V2NeedsMore, V2Verdict, V2Whole, V2Total, V2Octet
<1>7. V2Verdict(p, p) = V2Verdict(p, b)
  BY <1>4, Zenon DEF V2Verdict, V2Whole, V2Total
<1>8. ASSUME ~ (Len(p) < V2Total(b))
      PROVE  V2Whole(p, b) = V2Whole(b, b)
  <2>1. V2Total(b) \in 0..Len(p)
    BY <1>1, <1>5, <1>8
  <2>2. SubSeq(p, 1, V2Total(b)) = SubSeq(b, 1, V2Total(b))
    BY <2>1, Zenon DEF Agrees
  <2> QED BY <2>2, Zenon DEF V2Whole
<1> QED BY <1>2, <1>5, <1>6, <1>7, <1>8, Zenon

\* A version 2 verdict other than Incomplete stands for every longer buffer.
LEMMA V2Stable ==
  ASSUME NEW p, NEW b, Agrees(p, b), parse_v2(p) # Incomplete
  PROVE  parse_v2(b) = parse_v2(p)
<1>1. Len(p) \in Nat /\ Len(b) \in Nat /\ Len(p) <= Len(b) /\ b \in Seq(Nat)
  BY Zenon DEF Agrees
<1>2. ~ (Len(p) < V2_HEADER_LEN)
  BY Zenon DEF parse_v2
<1>3. /\ parse_v2(p) = V2Verdict(p, b) /\ V2Total(b) \in Nat
      /\ V2_HEADER_LEN = Len(V2_SIGNATURE) + 4 /\ Len(V2_SIGNATURE) \in Nat
      /\ ~ (Len(p) < V2Total(b)) => V2Whole(p, b) = V2Whole(b, b)
  BY <1>2, V2Fields
<1>4. ~ (Len(b) < V2_HEADER_LEN)
  BY <1>1, <1>2, <1>3
<1>5. parse_v2(b) = V2Verdict(b, b)
  BY <1>1, <1>4, AgreesItself, V2Fields
<1>6. ~ (Len(p) < V2Total(b)) => ~ (Len(b) < V2Total(b))
  BY <1>1, <1>3
<1> QED BY <1>3, <1>5, <1>6, Zenon DEF V2Verdict

\* parse_v1 settles on the first CRLF, or on there being none in the first
\* V1_MAX_LEN octets.
LEMMA V1Stable ==
  ASSUME NEW p, NEW b, Agrees(p, b), parse_v1(p) # Incomplete
  PROVE  parse_v1(b) = parse_v1(p)
<1> DEFINE End(q) == IF Len(q) < V1_MAX_LEN THEN Len(q) ELSE V1_MAX_LEN
           Crlf(q) == {i \in 1..(End(q) - 1) : q[i] = CR /\ q[i + 1] = LF}
           Verdict(q) ==
             IF Crlf(q) # {}
             THEN V1Line(SubSeq(q, 1, Min(Crlf(q)) - 1), Min(Crlf(q)) + 1)
             ELSE V1NoLine(q)
<1>1. Len(p) \in Nat /\ Len(b) \in Nat /\ Len(p) <= Len(b)
  BY Zenon DEF Agrees
<1>2. V1_MAX_LEN \in Nat
  BY WireAssumption
<1>3. End(p) \in Nat /\ End(b) \in Nat /\ End(p) <= End(b) /\ End(p) <= Len(p)
  BY <1>1, <1>2
<1>4. parse_v1(p) = Verdict(p) /\ parse_v1(b) = Verdict(b)
  BY Zenon DEF parse_v1
<1> HIDE DEF End
<1>5. \A i \in 1..(End(p) - 1) : i \in Crlf(p) <=> i \in Crlf(b)
  <2> SUFFICES ASSUME NEW i \in 1..(End(p) - 1)
               PROVE  i \in Crlf(p) <=> i \in Crlf(b)
    BY Zenon
  <2>1. i \in 1..(End(b) - 1) /\ i \in 1..Len(p) /\ i + 1 \in 1..Len(p)
    BY <1>1, <1>3
  <2>2. p[i] = b[i] /\ p[i + 1] = b[i + 1]
    BY <2>1, Zenon DEF Agrees
  <2> QED BY <2>1, <2>2, Zenon
<1>6. Crlf(p) \in SUBSET Nat /\ Crlf(b) \in SUBSET Nat
  BY <1>3
<1>7. /\ \A i \in Crlf(p) : i \in 1..(End(p) - 1)
      /\ \A i \in Crlf(b) : i \in 1..(End(b) - 1)
  BY Zenon
<1> HIDE DEF Crlf
<1>8. CASE Crlf(p) # {}
  <2> DEFINE m == Min(Crlf(p))
  <2>1. m \in Crlf(p) /\ \A y \in Crlf(p) : m <= y
    BY <1>6, <1>8, MinIsLeast
  <2>2. m \in 1..(End(p) - 1) /\ m \in Crlf(b)
    BY <1>5, <1>7, <2>1, Zenon
  <2> HIDE DEF m
  <2>3. ASSUME NEW y \in Crlf(b)
        PROVE  m <= y
    <3>1. y \in 1..(End(b) - 1)
      BY <1>7, Zenon
    <3>2. CASE y \in 1..(End(p) - 1)
      BY <1>5, <2>1, <3>2, Zenon
    <3>3. CASE y \notin 1..(End(p) - 1)
      BY <1>3, <2>2, <3>1, <3>3
    <3> QED BY <3>2, <3>3
  <2>4. Min(Crlf(b)) = m
    BY <1>6, <2>2, <2>3, MinUnique
  <2>5. m - 1 \in 0..Len(p)
    BY <1>1, <1>3, <2>2
  <2>6. SubSeq(p, 1, m - 1) = SubSeq(b, 1, m - 1)
    BY <2>5, Zenon DEF Agrees
  <2>7. Crlf(b) # {}
    BY <2>2, Zenon
  <2> QED BY <1>4, <1>8, <2>4, <2>6, <2>7, Zenon DEF m
<1>9. CASE Crlf(p) = {}
  <2>1. parse_v1(p) = V1NoLine(p)
    BY <1>4, <1>9, Zenon
  <2>2. ~ (Len(p) < V1_MAX_LEN)
    BY <2>1, Zenon DEF V1NoLine
  <2>3. End(p) = End(b) /\ ~ (Len(b) < V1_MAX_LEN)
    BY <1>1, <1>2, <2>2 DEF End
  <2>4. Crlf(b) = {}
    BY <1>5, <1>7, <1>9, <2>3, Zenon
  <2> QED BY <1>4, <1>9, <2>2, <2>3, <2>4, Zenon DEF V1NoLine
<1> QED BY <1>8, <1>9

\* The read loop of read_and_validate parses the buffer afresh after every read:
\* once parse has decided (anything but Incomplete), it gives the same answer
\* on every longer buffer, so how the stream is cut into reads does not matter.
THEOREM ParseStable ==
  ASSUME NEW b \in Seq(Nat), NEW n \in 0..Len(b),
         parse(SubSeq(b, 1, n)) # Incomplete
  PROVE  parse(b) = parse(SubSeq(b, 1, n))
<1> DEFINE p == SubSeq(b, 1, n)
<1>1. Agrees(p, b)
  BY PrefixAgrees
<1>2. parse(p) # Incomplete
  OBVIOUS
<1> SUFFICES parse(b) = parse(p)
  OBVIOUS
<1> HIDE DEF p
<1>3. p # <<>>
  BY <1>2, Zenon DEF parse
<1>4. /\ Len(p) \in Nat \ {0} /\ Len(b) \in Nat /\ Len(p) <= Len(b) /\ b # <<>>
      /\ p[1] = b[1]
  <2>1. p \in Seq(Nat) /\ b \in Seq(Nat)
    BY <1>1, Zenon DEF Agrees
  <2>2. Len(p) <= Len(b)
    BY <1>1, Zenon DEF Agrees
  <2>3. Len(p) \in Nat \ {0} /\ Len(b) \in Nat /\ b # <<>>
    BY <1>3, <2>1, <2>2
  <2>4. 1 \in 1..Len(p)
    BY <2>3
  <2>5. p[1] = b[1]
    BY <1>1, <2>4, Zenon DEF Agrees
  <2> QED BY <2>2, <2>3, <2>5
<1>5. /\ V2_SIGNATURE \in Seq(Nat) /\ Len(V2_SIGNATURE) \in Nat
      /\ V1_PREFIX \in Seq(Nat) /\ Len(V1_PREFIX) \in Nat
  BY WireAssumption
<1>6. CASE b[1] = V2_SIGNATURE[1]
  <2>1. ~ (Len(p) < Len(V2_SIGNATURE))
    BY <1>2, <1>3, <1>4, <1>6, Zenon DEF parse
  <2>2. Len(V2_SIGNATURE) <= Len(p) /\ ~ (Len(b) < Len(V2_SIGNATURE))
    BY <1>4, <1>5, <2>1
  <2>3. starts_with(p, V2_SIGNATURE) <=> starts_with(b, V2_SIGNATURE)
    BY <1>1, <1>5, <2>2, StartsWithStable
  <2>4. starts_with(p, V2_SIGNATURE) => parse_v2(b) = parse_v2(p)
    <3> SUFFICES ASSUME starts_with(p, V2_SIGNATURE) PROVE parse_v2(p) # Incomplete
      BY <1>1, V2Stable, Zenon
    <3> QED BY <1>2, <1>3, <1>4, <1>6, <2>1, Zenon DEF parse
  <2> QED BY <1>3, <1>4, <1>6, <2>1, <2>2, <2>3, <2>4, Zenon DEF parse
<1>7. CASE b[1] # V2_SIGNATURE[1] /\ b[1] = V1_PREFIX[1]
  <2>1. ~ (Len(p) < Len(V1_PREFIX))
    BY <1>2, <1>3, <1>4, <1>7, Zenon DEF parse
  <2>2. Len(V1_PREFIX) <= Len(p) /\ ~ (Len(b) < Len(V1_PREFIX))
    BY <1>4, <1>5, <2>1
  <2>3. starts_with(p, V1_PREFIX) <=> starts_with(b, V1_PREFIX)
    BY <1>1, <1>5, <2>2, StartsWithStable
  <2>4. starts_with(p, V1_PREFIX) => parse_v1(b) = parse_v1(p)
    <3> SUFFICES ASSUME starts_with(p, V1_PREFIX) PROVE parse_v1(p) # Incomplete
      BY <1>1, V1Stable, Zenon
    <3> QED BY <1>2, <1>3, <1>4, <1>7, <2>1, Zenon DEF parse
  <2> QED BY <1>3, <1>4, <1>7, <2>1, <2>2, <2>3, <2>4, Zenon DEF parse
<1>8. CASE b[1] # V2_SIGNATURE[1] /\ b[1] # V1_PREFIX[1]
  BY <1>3, <1>4, <1>8, Zenon DEF parse
<1> QED BY <1>6, <1>7, <1>8

-----------------------------------------------------------------------------
\* The outcomes of parse are told apart by their tags.
LEMMA Tags ==
  /\ \A reason, detail : Invalid(reason, detail).tag # "Ok"
  /\ \A expected, actual : CrcMismatch(expected, actual).tag # "Ok"
  /\ Incomplete.tag # "Ok" /\ NotProxyProtocol.tag # "Ok"
  /\ \A info, consumed : Ok(info, consumed).consumed = consumed
BY DEF Invalid, CrcMismatch, Incomplete, NotProxyProtocol, Ok

\* A complete v2 header is consumed as a whole.
LEMMA V2HeaderConsumed ==
  ASSUME NEW h, NEW command, NEW f, NEW t, V2Header(h, command, f, t).tag = "Ok"
  PROVE  V2Header(h, command, f, t).consumed = Len(h)
<1>1. ASSUME NEW addr, NEW tlvs, NEW actual,
             V2Checked(h, command, addr, tlvs, actual).tag = "Ok"
      PROVE  V2Checked(h, command, addr, tlvs, actual).consumed = Len(h)
  <2> DEFINE info == ProxyInfo("V2", command, addr.transport, addr.source,
                               addr.destination, tlvs)
  <2>1. \/ V2Checked(h, command, addr, tlvs, actual) = CrcMismatch(tlvs.crc32c[1], actual)
        \/ V2Checked(h, command, addr, tlvs, actual) = Ok(info, Len(h))
    BY Zenon DEF V2Checked
  <2> HIDE DEF info
  <2> QED BY <1>1, <2>1, Tags, SMT
<1>2. ASSUME NEW addr, NEW parsed, V2WithTlvs(h, command, addr, parsed).tag = "Ok"
      PROVE  V2WithTlvs(h, command, addr, parsed).consumed = Len(h)
  BY <1>1, <1>2, Zenon DEF V2WithTlvs
<1>3. ASSUME NEW addr, V2WithAddresses(h, command, addr).tag = "Ok"
      PROVE  V2WithAddresses(h, command, addr).consumed = Len(h)
  BY <1>2, <1>3, Zenon DEF V2WithAddresses
<1> QED BY <1>3, Zenon DEF V2Header

\* A v1 header is consumed up to and with its CRLF.
LEMMA V1LineConsumed ==
  ASSUME NEW line, NEW consumed, V1Line(line, consumed).tag = "Ok"
  PROVE  V1Line(line, consumed).consumed = consumed
BY Tags, SMTT(30) DEF V1Line

\* A version 2 header consumes at most the buffer.
LEMMA V2Consumed ==
  ASSUME NEW b \in Seq(Nat), parse_v2(b).tag = "Ok"
  PROVE  /\ parse_v2(b).consumed = V2Total(b)
         /\ parse_v2(b) = V2Whole(b, b) /\ parse_v2(b) = V2Verdict(b, b)
         /\ V2Total(b) \in 1..Len(b) /\ ~ (V2Total(b) < V2_HEADER_LEN)
         /\ V2_HEADER_LEN = Len(V2_SIGNATURE) + 4 /\ Len(V2_SIGNATURE) \in Nat
<1>1. ~ (Len(b) < V2_HEADER_LEN)
  BY Tags, Zenon DEF parse_v2
<1>2. /\ parse_v2(b) = V2Verdict(b, b)
      /\ V2Total(b) \in Nat /\ V2Total(b) >= V2_HEADER_LEN
      /\ V2_HEADER_LEN = Len(V2_SIGNATURE) + 4 /\ Len(V2_SIGNATURE) \in Nat
  BY <1>1, AgreesItself, V2Fields
<1>3. ~ (Len(b) < V2Total(b)) /\ parse_v2(b) = V2Whole(b, b)
  BY <1>2, Tags, SMT DEF V2Verdict
<1>4. Len(SubSeq(b, 1, V2Total(b))) = V2Total(b)
  BY <1>2, <1>3
<1>5. parse_v2(b).consumed = Len(SubSeq(b, 1, V2Total(b)))
  BY <1>3, V2HeaderConsumed, Zenon DEF V2Whole
<1> QED BY <1>2, <1>3, <1>4, <1>5

\* A version 1 header consumes at most the buffer.
LEMMA V1Consumed ==
  ASSUME NEW b \in Seq(Nat), parse_v1(b).tag = "Ok"
  PROVE  parse_v1(b).consumed \in 1..Len(b)
<1> DEFINE end == IF Len(b) < V1_MAX_LEN THEN Len(b) ELSE V1_MAX_LEN
           crlf == {i \in 1..(end - 1) : b[i] = CR /\ b[i + 1] = LF}
<1>1. end \in Nat /\ end <= Len(b)
  BY WireAssumption
<1>2. parse_v1(b) = IF crlf # {}
                    THEN V1Line(SubSeq(b, 1, Min(crlf) - 1), Min(crlf) + 1)
                    ELSE V1NoLine(b)
  BY Zenon DEF parse_v1
<1>3. V1NoLine(b).tag # "Ok"
  BY Tags, Zenon DEF V1NoLine
<1> HIDE DEF end
<1>4. crlf \in SUBSET Nat /\ \A i \in crlf : i \in 1..(end - 1)
  BY <1>1
<1> HIDE DEF crlf
<1>5. /\ crlf # {}
      /\ parse_v1(b) = V1Line(SubSeq(b, 1, Min(crlf) - 1), Min(crlf) + 1)
  BY <1>2, <1>3
<1>6. Min(crlf) \in 1..(end - 1)
  BY <1>4, <1>5, MinIsLeast, Zenon
<1>7. parse_v1(b).consumed = Min(crlf) + 1
  BY <1>5, V1LineConsumed, Zenon
<1> QED BY <1>1, <1>6, <1>7

\* The header parse reports never extends past the buffer it was given, and is
\* never empty: the slice buf[consumed..] in read_and_validate is in range.
THEOREM ConsumedInBuffer ==
  ASSUME NEW b \in Seq(Nat), parse(b).tag = "Ok"
  PROVE  parse(b).consumed \in 1..Len(b)
<1>1. parse(b) = parse_v2(b) \/ parse(b) = parse_v1(b)
  BY Tags, SMT DEF parse
<1> QED BY <1>1, V1Consumed, V2Consumed, Zenon

-----------------------------------------------------------------------------
IsOption(x) == x = None \/ \E a : x = Some(a)

\* The addresses of a version 2 header are one source or none.
LEMMA V2AddressesOption ==
  ASSUME NEW command, NEW f, NEW t, NEW payload, V2Addresses(command, f, t, payload).tag = "Ok"
  PROVE  IsOption(V2Addresses(command, f, t, payload).source)
<1> DEFINE addr == V2Addresses(command, f, t, payload)
<1>1. \/ addr.source = None
      \/ addr = parse_v2_addresses(f, t, payload)
  BY Tags, SMT DEF V2Addresses
<1>2. ASSUME parse_v2_addresses(f, t, payload).tag = "Ok"
      PROVE  \E a : parse_v2_addresses(f, t, payload).source = Some(a)
  BY <1>2, Tags, SMTT(30) DEF parse_v2_addresses
<1> QED BY <1>1, <1>2, Zenon DEF IsOption

\* The metadata of a version 2 header names its source, if it has one.
LEMMA V2Source ==
  ASSUME NEW h, NEW command, NEW f, NEW t, V2Header(h, command, f, t).tag = "Ok"
  PROVE  IsOption(V2Header(h, command, f, t).info.source)
<1>1. ASSUME NEW addr, NEW tlvs, NEW actual,
             V2Checked(h, command, addr, tlvs, actual).tag = "Ok"
      PROVE  V2Checked(h, command, addr, tlvs, actual).info.source = addr.source
  BY <1>1, Tags, SMT DEF V2Checked, Ok, ProxyInfo
<1>2. ASSUME NEW addr, NEW parsed, addr.tag = "Ok", V2WithTlvs(h, command, addr, parsed).tag = "Ok"
      PROVE  V2WithTlvs(h, command, addr, parsed).info.source = addr.source
  BY <1>1, <1>2, Zenon DEF V2WithTlvs
<1>3. ASSUME NEW addr, V2WithAddresses(h, command, addr).tag = "Ok"
      PROVE  /\ addr.tag = "Ok"
             /\ V2WithAddresses(h, command, addr).info.source = addr.source
  BY <1>2, <1>3, Zenon DEF V2WithAddresses
<1> DEFINE payload == SubSeq(h, V2_HEADER_LEN + 1, Len(h))
           addr == V2Addresses(command, f, t, payload)
<1>4. V2Header(h, command, f, t) = V2WithAddresses(h, command, addr)
  BY Zenon DEF V2Header
<1>5. addr.tag = "Ok" => IsOption(addr.source)
  <2> HIDE DEF payload
  <2> QED BY V2AddressesOption
<1> HIDE DEF addr
<1> QED BY <1>3, <1>4, <1>5, Zenon

\* The metadata of a version 1 line names its source, if it has one.
LEMMA V1Source ==
  ASSUME NEW line, NEW consumed, V1Line(line, consumed).tag = "Ok"
  PROVE  IsOption(V1Line(line, consumed).info.source)
<1> DEFINE source == Inet(IpAddr(Field(line, 3))[1], Port(Field(line, 5))[1])
<1>1. \A version, command, transport, src, dst, tlvs :
        Ok(ProxyInfo(version, command, transport, src, dst, tlvs), consumed).info.source = src
  BY DEF Ok, ProxyInfo
<1>2. V1Line(line, consumed).info.source \in {None, Some(source)}
  BY <1>1, Tags, SMTT(30) DEF V1Line
<1> QED BY <1>2, Zenon DEF IsOption

\* ProxyInfo::source is an Option: a parsed header names one source or none.
LEMMA SourceOption ==
  ASSUME NEW b, parse(b).tag = "Ok"
  PROVE  IsOption(parse(b).info.source)
<1>1. parse(b) = parse_v2(b) \/ parse(b) = parse_v1(b)
  BY Tags, SMT DEF parse
<1>2. parse_v2(b).tag = "Ok" => IsOption(parse_v2(b).info.source)
  BY V2Source, Tags, Zenon DEF parse_v2
<1>3. parse_v1(b).tag = "Ok" => IsOption(parse_v1(b).info.source)
  BY V1Source, Tags, Zenon DEF parse_v1, V1NoLine
<1> QED BY <1>1, <1>2, <1>3, Zenon

-----------------------------------------------------------------------------
\* A line with its CRLF is never Incomplete.
LEMMA V1LineDecided == \A line, consumed : V1Line(line, consumed) # Incomplete
<1>1. /\ \A reason, detail : Invalid(reason, detail) # Incomplete
      /\ \A info, n : Ok(info, n) # Incomplete
  BY DEF Invalid, Ok, Incomplete
<1> QED BY <1>1, SMTT(30) DEF V1Line

\* The octets a version 2 header consumes are enough to recognise it.
LEMMA V2Suffices ==
  ASSUME NEW b \in Seq(Nat), parse_v2(b).tag = "Ok", NEW p, Agrees(p, b),
         Len(p) = parse_v2(b).consumed
  PROVE  parse_v2(p) = parse_v2(b)
<1>1. /\ Len(p) = V2Total(b) /\ V2Total(b) \in 1..Len(b)
      /\ parse_v2(b) = V2Whole(b, b) /\ parse_v2(b) = V2Verdict(b, b)
      /\ ~ (V2Total(b) < V2_HEADER_LEN)
  BY V2Consumed
<1>2. ~ (Len(p) < V2Total(b)) /\ ~ (Len(b) < V2Total(b))
  BY <1>1
<1>3. /\ parse_v2(p) = V2Verdict(p, b)
      /\ V2Whole(p, b) = V2Whole(b, b)
  BY <1>1, <1>2, V2Fields, Zenon
<1> QED BY <1>1, <1>2, <1>3, Zenon DEF V2Verdict

\* The octets a version 1 line consumes are enough to recognise it.
LEMMA V1Suffices ==
  ASSUME NEW b \in Seq(Nat), parse_v1(b).tag = "Ok", starts_with(b, V1_PREFIX),
         NEW p, Agrees(p, b), Len(p) = parse_v1(b).consumed
  PROVE  parse_v1(p) = parse_v1(b) /\ Len(V1_PREFIX) < Len(p)
<1> DEFINE End(q) == IF Len(q) < V1_MAX_LEN THEN Len(q) ELSE V1_MAX_LEN
           Crlf(q) == {i \in 1..(End(q) - 1) : q[i] = CR /\ q[i + 1] = LF}
           Verdict(q) ==
             IF Crlf(q) # {}
             THEN V1Line(SubSeq(q, 1, Min(Crlf(q)) - 1), Min(Crlf(q)) + 1)
             ELSE V1NoLine(q)
           m == Min(Crlf(b))
<1>1. parse_v1(p) = Verdict(p) /\ parse_v1(b) = Verdict(b)
  BY Zenon DEF parse_v1
<1>2. V1NoLine(b).tag # "Ok"
  BY Tags, Zenon DEF V1NoLine
<1>3. End(b) \in Nat /\ End(b) <= Len(b) /\ End(b) <= V1_MAX_LEN /\ V1_MAX_LEN \in Nat
  BY WireAssumption
<1>4. Crlf(b) # {} /\ Crlf(b) \in SUBSET Nat
  <2> HIDE DEF End
  <2> QED BY <1>1, <1>2, <1>3
<1>5. m \in Crlf(b)
  <2> HIDE DEF Crlf
  <2> QED BY <1>4, MinIsLeast
<1>6. m \in 1..(End(b) - 1) /\ b[m] = CR /\ b[m + 1] = LF
  <2> HIDE DEF m, End
  <2> QED BY <1>5, Zenon
<1>7. Len(p) = m + 1
  <2> HIDE DEF m, Crlf
  <2>1. parse_v1(b) = V1Line(SubSeq(b, 1, m - 1), m + 1)
    BY <1>1, <1>4, Zenon DEF m
  <2> QED BY <2>1, V1LineConsumed, Zenon
<1> HIDE DEF m
<1>8. End(p) = m + 1
  <2> HIDE DEF Crlf
  <2>1. m + 1 <= V1_MAX_LEN /\ m + 1 \in Nat
    <3> HIDE DEF End
    <3> QED BY <1>3, <1>6
  <2> QED BY <1>3, <1>7, <2>1
<1>9. m \in Crlf(p)
  <2> HIDE DEF End
  <2>1. m \in 1..Len(p) /\ m + 1 \in 1..Len(p) /\ m \in 1..(End(p) - 1)
    BY <1>3, <1>6, <1>7, <1>8
  <2>2. p[m] = b[m] /\ p[m + 1] = b[m + 1]
    BY <2>1, Zenon DEF Agrees
  <2> QED BY <1>6, <2>1, <2>2, Zenon
<1>10. parse_v1(p) # Incomplete
  <2> HIDE DEF Crlf
  <2> QED BY <1>1, <1>9, V1LineDecided, Zenon
<1>11. Len(V1_PREFIX) < Len(p)
  <2> HIDE DEF End, Crlf
  <2>1. V1_PREFIX \in Seq(Nat) /\ Len(V1_PREFIX) \in Nat /\ Len(V1_PREFIX) <= Len(b)
    BY WireAssumption DEF starts_with
  <2>2. ASSUME m \in 1..Len(V1_PREFIX) PROVE FALSE
    <3>1. SubSeq(b, 1, Len(V1_PREFIX)) = V1_PREFIX
      BY Zenon DEF starts_with
    <3>2. SubSeq(b, 1, Len(V1_PREFIX))[m] = b[m]
      BY <2>1, <2>2
    <3>3. V1_PREFIX[m] # CR
      BY <2>2, WireAssumption, Zenon
    <3> QED BY <1>6, <3>1, <3>2, <3>3, Zenon
  <2> QED BY <1>3, <1>6, <1>7, <2>1, <2>2
<1> QED BY <1>10, <1>11, V1Stable, Zenon

\* A header is recognised from its own octets: the octets parse says it consumed
\* give the same result without the ones behind them.
THEOREM HeaderSuffices ==
  ASSUME NEW b \in Seq(Nat), parse(b).tag = "Ok"
  PROVE  parse(SubSeq(b, 1, parse(b).consumed)) = parse(b)
<1> DEFINE n == parse(b).consumed
           p == SubSeq(b, 1, n)
<1>1. n \in 1..Len(b)
  BY ConsumedInBuffer
<1>2. n \in 0..Len(b)
  BY <1>1
<1> HIDE DEF n
<1>3. Agrees(p, b)
  BY <1>2, PrefixAgrees
<1>4. Len(p) = n /\ p # <<>> /\ p[1] = b[1] /\ b # <<>>
  BY <1>1
<1> HIDE DEF p
<1>5. V2_SIGNATURE \in Seq(Nat) /\ V1_PREFIX \in Seq(Nat) /\ Len(V1_PREFIX) \in Nat
  BY WireAssumption
<1>6. CASE b[1] = V2_SIGNATURE[1]
  <2>1. parse(b) = parse_v2(b) /\ starts_with(b, V2_SIGNATURE)
    BY <1>6, <1>4, Tags, SMT DEF parse
  <2>2. parse_v2(p) = parse_v2(b)
    BY <1>3, <1>4, <2>1, V2Suffices DEF n
  <2>3. Len(V2_SIGNATURE) <= Len(p) /\ ~ (Len(p) < Len(V2_SIGNATURE))
    BY <1>4, <2>1, V2Consumed DEF n
  <2>4. starts_with(p, V2_SIGNATURE)
    BY <1>3, <1>5, <2>1, <2>3, StartsWithStable
  <2>5. parse(p) = parse_v2(p)
    BY <1>4, <1>6, <2>3, <2>4, Zenon DEF parse
  <2> QED BY <2>1, <2>2, <2>5 DEF p, n
<1>7. CASE b[1] # V2_SIGNATURE[1]
  <2>1. parse(b) = parse_v1(b) /\ starts_with(b, V1_PREFIX) /\ b[1] = V1_PREFIX[1]
    BY <1>7, <1>4, Tags, SMT DEF parse
  <2>2. parse_v1(p) = parse_v1(b) /\ Len(V1_PREFIX) < Len(p)
    BY <1>3, <1>4, <2>1, V1Suffices DEF n
  <2>3. Len(V1_PREFIX) <= Len(p) /\ ~ (Len(p) < Len(V1_PREFIX))
    BY <1>1, <1>4, <1>5, <2>2
  <2>4. starts_with(p, V1_PREFIX)
    BY <1>3, <1>5, <2>1, <2>3, StartsWithStable
  <2>5. parse(p) = parse_v1(p)
    BY <1>4, <1>7, <2>1, <2>3, <2>4, Zenon DEF parse
  <2> QED BY <2>1, <2>2, <2>5 DEF p, n
<1> QED BY <1>6, <1>7
=============================================================================
