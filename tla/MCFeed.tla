------------------------------- MODULE MCFeed -------------------------------
(* The wire format at its real sizes. *)
EXTENDS Feed, MCWire

RSignature == <<13, 10, 13, 10, 0, 13, 10, 81, 85, 73, 84, 10>>
RPrefix == <<80, 82, 79, 88, 89, 32>>
RUnknown == <<85, 78, 75, 78, 79, 87, 78>>
RTcp4 == <<84, 67, 80, 52>>
RTcp6 == <<84, 67, 80, 54>>
RIpLen == [Inet |-> 4, Inet6 |-> 16]

V2(ver_cmd, fam_proto, payload) ==
  RSignature \o <<ver_cmd, fam_proto, Len(payload) \div 256, Len(payload) % 256>> \o payload
WithCrc(h) == SubSeq(h, 1, Len(h) - 4) \o WCrc32c(h)
Addresses == <<10, 0, 0, 1, 10, 0, 0, 2, 0, 80, 1, 187>>
Tlvs == <<2, 0, 2, 97, 98>> \o <<5, 0, 2, 1, 2>>
          \o <<32, 0, 9, 1, 0, 0, 0, 0, 33, 0, 1, 49>> \o <<3, 0, 4, 0, 0, 0, 0>>
Line(text) == RPrefix \o text \o <<CR, LF>>
Endpoints == <<32, 46, 49, 32, 46, 50, 32, 56, 48, 32, 57, 57>>

Inet4 == WithCrc(V2(33, 17, Addresses \o Tlvs)) \o <<7, 8>>
Local == V2(32, 0, <<4, 0, 1, 0, 2, 0, 1, 97>>) \o <<7, 8>>
LocalCrc == WithCrc(V2(32, 0, <<3, 0, 4, 0, 0, 0, 0>>))
UnixPaths == V2(33, 49, [i \in 1..216 |-> IF i \in {5, 109, 110} THEN 47 ELSE 0])
Tcp4Line == Line(RTcp4 \o Endpoints) \o <<7, 8>>
UnknownLine(n) == Line(RUnknown \o [i \in 1..(n - 15) |-> 32]) \o <<7, 8>>

Variations(s, values) == {[s EXCEPT ![i] = v] : i \in DOMAIN s, v \in values}

MCInputs ==
  {<<>>, <<71, 69, 84>>, UnixPaths, UnknownLine(15), UnknownLine(106), UnknownLine(107),
   UnknownLine(108), LocalCrc}
    \cup Variations(Inet4, {0, 1, 3, 9, 32, 255})
    \cup Variations(Local, {0, 1, 4, 16, 255})
    \cup Variations(Tcp4Line, {10, 13, 32, 46, 54, 255})
=============================================================================
