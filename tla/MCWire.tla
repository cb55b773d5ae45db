------------------------------- MODULE MCWire -------------------------------
(***************************************************************************)
(* A scaled-down wire format and stand-ins for the library conversions,    *)
(* for the models.                                                         *)
(***************************************************************************)
EXTENDS Integers, Sequences, SequencesExt

WSignature == <<13, 10>>
WPrefix == <<80, 82, 32>>
WUnknown == <<85>>
WTcp4 == <<52>>
WTcp6 == <<54>>
WIpLen == [Inet |-> 1, Inet6 |-> 2]

WIsUtf8(s) == \A i \in DOMAIN s : s[i] < 128
WLossy(s) == [i \in DOMAIN s |-> IF s[i] < 128 THEN s[i] ELSE 65533]

Digits == 48..57
WIpText(ip) == <<IF ip.family = "Inet" THEN 46 ELSE 58>> \o
               [i \in DOMAIN ip.octets |-> 48 + ip.octets[i]]
WIpAddr(s) ==
  IF /\ Len(s) \in {2, 3} /\ s[1] = (IF Len(s) = 2 THEN 46 ELSE 58)
     /\ \A i \in 2..Len(s) : s[i] \in Digits
  THEN <<[family |-> IF Len(s) = 2 THEN "Inet" ELSE "Inet6",
          octets |-> [i \in 1..(Len(s) - 1) |-> s[i + 1] - 48]]>>
  ELSE <<>>

WPortText(p) == IF p < 10 THEN <<48 + p>> ELSE <<48 + (p \div 10), 48 + (p % 10)>>
WPort(s) ==
  IF s # <<>> /\ \A i \in DOMAIN s : s[i] \in Digits
  THEN <<FoldLeft(LAMBDA n, d : 10 * n + (d - 48), 0, s)>> ELSE <<>>

\* A position-dependent sum, computed by halves.
WCrc32c(s) ==
  LET sum[r \in (1..Len(s)) \X (1..Len(s))] ==
        LET mid == (r[1] + r[2]) \div 2
        IN  IF r[1] = r[2] THEN (s[mid] + 1) * ((7 * mid) + 3)
            ELSE sum[<<r[1], mid>>] + sum[<<mid + 1, r[2]>>]
      h == IF s = <<>> THEN 0 ELSE sum[<<1, Len(s)>>] % 65521
  IN  <<h % 16, (h \div 16) % 16, (h \div 256) % 16, h \div 4096>>
=============================================================================
