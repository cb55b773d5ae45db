------------------------------- MODULE Parse -------------------------------
(***************************************************************************)
(* The header parser: parse/mod.rs, parse/v1.rs, parse/v2.rs, parse/tlv.rs.*)
(* A buffer is a sequence of octets.  The wire literals and sizes are      *)
(* constants, so that a model can use a scaled-down wire format and a      *)
(* theorem holds for every one of them; the conversions done by std and by *)
(* the crc32c crate are constant operators.  An Option is a sequence of at *)
(* most one element; an error carries its detail as a sequence of numbers. *)
(***************************************************************************)
EXTENDS Integers, Sequences, FiniteSets, FiniteSetsExt, Functions

CONSTANTS
  V2_SIGNATURE,     \* 12 octets
  V1_PREFIX,        \* "PROXY "
  UNKNOWN,          \* "UNKNOWN"
  TCP4, TCP6,       \* "TCP4", "TCP6"
  V1_MAX_LEN,       \* 107
  IP_LEN,           \* octets of an address: [Inet |-> 4, Inet6 |-> 16]
  UNIX_LEN,         \* 108
  UNIQUE_ID_MAX,    \* 128
  Radix,            \* 256: values of one octet of a length or port field
  IsUtf8(_),        \* std::str::from_utf8 succeeds
  Lossy(_),         \* String::from_utf8_lossy
  IpAddr(_),        \* <IpAddr as FromStr>: Option of [family, octets]
  Port(_),          \* <u16 as FromStr>: Option of a port
  Crc32c(_)         \* crc32c::crc32c, as its four octets

CR == 13
LF == 10
SP == 32

ASSUME WireAssumption ==
  /\ V2_SIGNATURE \in Seq(Nat) \ {<<>>}
  /\ V1_PREFIX \in Seq(Nat) \ {<<>>}
  /\ V2_SIGNATURE[1] # V1_PREFIX[1]
  /\ \A i \in 1..Len(V1_PREFIX) : V1_PREFIX[i] # CR
  /\ V1_MAX_LEN \in Nat
  /\ Radix \in Nat \ {0}

\* <[u8]>::starts_with and str::starts_with.
starts_with(buf, sig) == Len(sig) <= Len(buf) /\ SubSeq(buf, 1, Len(sig)) = sig

None == <<>>
Some(x) == <<x>>
BE16(hi, lo) == hi * Radix + lo

\* ParseError and InvalidReason (error.rs), and the Ok of a parse.
Incomplete == [tag |-> "Incomplete"]
NotProxyProtocol == [tag |-> "NotProxyProtocol"]
Invalid(reason, detail) == [tag |-> "Invalid", reason |-> reason, detail |-> detail]
CrcMismatch(expected, actual) ==
  [tag |-> "CrcMismatch", expected |-> expected, actual |-> actual]
Ok(info, consumed) == [tag |-> "Ok", info |-> info, consumed |-> consumed]

Inet(ip, port) == [kind |-> "Inet", ip |-> ip, port |-> port]
Unix(path) == [kind |-> "Unix", path |-> path]
ProxyInfo(version, command, transport, source, destination, tlvs) ==
  [version |-> version, command |-> command, transport |-> transport,
   source |-> source, destination |-> destination, tlvs |-> tlvs]

-----------------------------------------------------------------------------
\* TLVs.

bytes_to_string(bytes) == IF IsUtf8(bytes) THEN bytes ELSE Lossy(bytes)

MalformedTlv(offset) == Invalid("MalformedTlv", <<offset>>)

\* One entry of the loop: its own error if it has one, else that of the rest.
TlvEntry(type, value, error, rest) ==
  IF error # None THEN error[1]
  ELSE IF rest.tag # "Ok" THEN rest
  ELSE [tag |-> "Ok", raw |-> <<<<type, value>>>> \o rest.raw]

\* The <<type, value>> entries of data, or the first error: a truncated entry,
\* or what Check (an Option of an error) says of an entry.
TlvLoop(data, base, Check(_, _, _)) ==
  LET walk[p \in 1..(Len(data) + 1)] ==
        LET end    == p + 2 + BE16(data[p + 1], data[p + 2])
            value  == SubSeq(data, p + 3, end)
            offset == base + p - 1
        IN  IF p > Len(data) THEN [tag |-> "Ok", raw |-> <<>>]
            ELSE IF p + 2 > Len(data) THEN MalformedTlv(offset)
            ELSE IF end > Len(data) THEN MalformedTlv(offset)
            ELSE TlvEntry(data[p], value, Check(data[p], value, offset), walk[end + 1])
  IN  walk[1]

\* A field assigned once per entry of its type keeps the last one.
LastOf(type, raw) ==
  LET of == {i \in DOMAIN raw : raw[i][1] = type}
  IN  IF of = {} THEN None ELSE Some(raw[Max(of)][2])

StringOf(value) == IF value = None THEN None ELSE Some(bytes_to_string(value[1]))

\* The SslInfo of the sub-TLVs found, or their error.
SslOf(data, subs) ==
  IF subs.tag # "Ok" THEN subs
  ELSE [tag |-> "Ok",
        ssl |-> [client_flags |-> data[1] % 8,
                 verified |-> SubSeq(data, 2, 5) = <<0, 0, 0, 0>>,
                 version |-> StringOf(LastOf(33, subs.raw)),
                 cn |-> StringOf(LastOf(34, subs.raw)),
                 cipher |-> StringOf(LastOf(35, subs.raw)),
                 sig_alg |-> StringOf(LastOf(36, subs.raw)),
                 key_alg |-> StringOf(LastOf(37, subs.raw)),
                 group |-> StringOf(LastOf(38, subs.raw)),
                 sig_scheme |-> StringOf(LastOf(39, subs.raw)),
                 client_cert |-> LastOf(40, subs.raw)]]

parse_ssl(data, outer_offset) ==
  SslOf(data, TlvLoop(SubSeq(data, 6, Len(data)), outer_offset + 5,
                      LAMBDA type, value, offset : None))

TlvsOf(raw) ==
  LET ssl == LastOf(32, raw)
  IN  [alpn |-> LastOf(1, raw), authority |-> StringOf(LastOf(2, raw)),
       crc32c |-> LastOf(3, raw), unique_id |-> LastOf(5, raw),
       ssl |-> IF ssl = None THEN None ELSE Some(parse_ssl(ssl[1], 0).ssl),
       netns |-> StringOf(LastOf(48, raw)), raw |-> raw]

\* What parse_tlvs says of one entry; ssl is the parse of an SSL entry's value.
TlvError(type, value, offset, ssl) ==
  IF \/ type = 3 /\ Len(value) # 4
     \/ type = 5 /\ Len(value) > UNIQUE_ID_MAX
     \/ type = 32 /\ Len(value) < 5
  THEN Some(MalformedTlv(offset))
  ELSE IF type = 32 /\ ssl.tag # "Ok" THEN Some(ssl)
  ELSE None

parse_tlvs(data) ==
  TlvLoop(data, 0, LAMBDA type, value, offset :
                     TlvError(type, value, offset, parse_ssl(value, offset + 3)))

-----------------------------------------------------------------------------
\* Version 2.

V2_HEADER_LEN == Len(V2_SIGNATURE) + 4

FAMILY == <<"Inet", "Inet6", "Unix">>
PROTOCOL == <<"Stream", "Datagram">>
ADDRESS_LEN(family) ==
  IF family = "Unix" THEN 2 * UNIX_LEN ELSE 2 * IP_LEN[family] + 4

extract_unix_path(field) ==
  LET zeros == {i \in DOMAIN field : field[i] = 0}
  IN  IF zeros = {} THEN field ELSE SubSeq(field, 1, Min(zeros) - 1)

parse_v2_addresses(family_nibble, proto_nibble, payload) ==
  IF family_nibble \notin 1..3 THEN Invalid("UnknownFamily", <<family_nibble>>)
  ELSE IF proto_nibble \notin 1..2 THEN Invalid("UnknownProtocol", <<proto_nibble>>)
  ELSE
    LET family == FAMILY[family_nibble]
        need   == ADDRESS_LEN(family)
        n      == IF family = "Unix" THEN UNIX_LEN ELSE IP_LEN[family]
        first  == SubSeq(payload, 1, n)
        second == SubSeq(payload, n + 1, 2 * n)
        Sock(octets, p) == Inet([family |-> family, octets |-> octets],
                                BE16(payload[p], payload[p + 1]))
        Addresses(src, dst) ==
          [tag |-> "Ok", source |-> Some(src), destination |-> Some(dst),
           tlv_offset |-> need,
           transport |-> Some([family |-> family, protocol |-> PROTOCOL[proto_nibble]])]
    IN  IF Len(payload) < need THEN Invalid("PayloadOverflow", <<need, Len(payload)>>)
        ELSE IF family = "Unix"
        THEN Addresses(Unix(extract_unix_path(first)), Unix(extract_unix_path(second)))
        ELSE Addresses(Sock(first, 2 * n + 1), Sock(second, 2 * n + 3))

\* The first checksum TLV from tlv_start (an offset) on is zeroed in the hash.
compute_crc32c(header, tlv_start) ==
  LET total == Len(header)
      find[p \in 1..(total + 1)] ==
        LET len == BE16(header[p + 1], header[p + 2])
        IN  IF p + 2 > total THEN 0
            ELSE IF p + 2 + len > total THEN 0
            ELSE IF header[p] = 3 /\ len = 4 THEN p + 3
            ELSE find[p + 3 + len]
      value == find[tlv_start + 1]
  IN  IF value = 0 THEN Crc32c(header)
      ELSE Crc32c([i \in 1..total |-> IF i \in value..(value + 3) THEN 0 ELSE header[i]])

\* The addresses of a complete header, or why it has none it should have.
V2Addresses(command, family_nibble, proto_nibble, payload) ==
  IF command = "Local"
  THEN [tag |-> "Ok", transport |-> None, source |-> None, destination |-> None,
        tlv_offset |-> 0]
  ELSE IF family_nibble = 0 \/ proto_nibble = 0 THEN Invalid("UnspecWithProxy", <<>>)
  ELSE parse_v2_addresses(family_nibble, proto_nibble, payload)

V2Checked(header, command, addr, tlvs, actual) ==
  IF tlvs.crc32c # None /\ tlvs.crc32c # Some(actual)
  THEN CrcMismatch(tlvs.crc32c[1], actual)
  ELSE Ok(ProxyInfo("V2", command, addr.transport, addr.source, addr.destination, tlvs),
          Len(header))

\* A malformed TLV fails a PROXY header; a LOCAL one is left without TLVs.
V2WithTlvs(header, command, addr, parsed) ==
  IF parsed.tag # "Ok" /\ command = "Proxy" THEN parsed
  ELSE V2Checked(header, command, addr,
                 TlvsOf(IF parsed.tag = "Ok" THEN parsed.raw ELSE <<>>),
                 compute_crc32c(header, V2_HEADER_LEN + addr.tlv_offset))

V2WithAddresses(header, command, addr) ==
  IF addr.tag # "Ok" THEN addr
  ELSE V2WithTlvs(header, command, addr,
         parse_tlvs(SubSeq(header, V2_HEADER_LEN + addr.tlv_offset + 1, Len(header))))

\* parse_v2 once the header, of total_len octets, is complete.
V2Header(header, command, family_nibble, proto_nibble) ==
  V2WithAddresses(header, command,
    V2Addresses(command, family_nibble, proto_nibble,
                SubSeq(header, V2_HEADER_LEN + 1, Len(header))))

\* Faulty variant: one octet past the header is awaited.
V2NeedsMoreLookahead(buf, total_len) == Len(buf) <= total_len

V2NeedsMore(buf, total_len) == Len(buf) < total_len

parse_v2(buf) ==
  LET n == Len(V2_SIGNATURE)
      version_nibble == buf[n + 1] \div 16
      command_nibble == buf[n + 1] % 16
      total_len == V2_HEADER_LEN + BE16(buf[n + 3], buf[n + 4])
  IN  IF Len(buf) < V2_HEADER_LEN THEN Incomplete
      ELSE IF version_nibble # 2 THEN Invalid("UnsupportedVersion", <<version_nibble>>)
      ELSE IF command_nibble \notin {0, 1} THEN Invalid("UnknownCommand", <<command_nibble>>)
      ELSE IF V2NeedsMore(buf, total_len) THEN Incomplete
      ELSE V2Header(SubSeq(buf, 1, total_len),
                    IF command_nibble = 0 THEN "Local" ELSE "Proxy",
                    buf[n + 2] \div 16, buf[n + 2] % 16)

-----------------------------------------------------------------------------
\* Version 1.

\* The n-th field of a line split at single spaces.
Field(line, n) ==
  LET spaces == {i \in 1..Len(line) : line[i] = SP}
      Space(k) == CHOOSE i \in spaces : Cardinality({j \in spaces : j <= i}) = k
      from == IF n = 1 THEN 1 ELSE Space(n - 1) + 1
      to == IF n = Cardinality(spaces) + 1 THEN Len(line) ELSE Space(n) - 1
  IN  SubSeq(line, from, to)

V1Line(line, consumed) ==
  LET unknown == V1_PREFIX \o UNKNOWN
      src_ip == IpAddr(Field(line, 3))
      dst_ip == IpAddr(Field(line, 4))
      src_port == Port(Field(line, 5))
      dst_port == Port(Field(line, 6))
      family == IF Field(line, 2) = TCP4 THEN "Inet" ELSE "Inet6"
      Fail(reason, n) == Invalid(reason, Field(line, n))
  IN  IF ~ IsUtf8(line) THEN Invalid("V1NotUtf8", <<>>)
      ELSE IF /\ starts_with(line, unknown)
              /\ Len(line) > Len(unknown) => line[Len(unknown) + 1] = SP
      THEN Ok(ProxyInfo("V1", "Proxy", None, None, None, TlvsOf(<<>>)), consumed)
      ELSE IF Cardinality({i \in 1..Len(line) : line[i] = SP}) # 5
      THEN Invalid("V1InvalidFormat", <<>>)
      ELSE IF Field(line, 2) \notin {TCP4, TCP6} THEN Fail("V1UnknownTransport", 2)
      ELSE IF src_ip = None THEN Fail("InvalidIp", 3)
      ELSE IF dst_ip = None THEN Fail("InvalidIp", 4)
      ELSE IF src_ip[1].family # family THEN Fail("InvalidIp", 3)
      ELSE IF dst_ip[1].family # family THEN Fail("InvalidIp", 4)
      ELSE IF src_port = None THEN Fail("InvalidPort", 5)
      ELSE IF dst_port = None THEN Fail("InvalidPort", 6)
      ELSE Ok(ProxyInfo("V1", "Proxy",
                        Some([family |-> family, protocol |-> "Stream"]),
                        Some(Inet(src_ip[1], src_port[1])),
                        Some(Inet(dst_ip[1], dst_port[1])), TlvsOf(<<>>)), consumed)

\* Faulty variant: a line without its end is refused at once.
V1NoLineEager(buf) == Invalid("V1TooLong", <<>>)

\* No CRLF among the first V1_MAX_LEN octets.
V1NoLine(buf) ==
  IF Len(buf) < V1_MAX_LEN THEN Incomplete ELSE Invalid("V1TooLong", <<>>)

parse_v1(buf) ==
  LET search_end == IF Len(buf) < V1_MAX_LEN THEN Len(buf) ELSE V1_MAX_LEN
      crlf == {i \in 1..(search_end - 1) : buf[i] = CR /\ buf[i + 1] = LF}
  IN  IF crlf # {} THEN V1Line(SubSeq(buf, 1, Min(crlf) - 1), Min(crlf) + 1)
      ELSE V1NoLine(buf)

-----------------------------------------------------------------------------
parse(buf) ==
  IF buf = <<>> THEN Incomplete
  ELSE IF buf[1] = V2_SIGNATURE[1]
  THEN IF Len(buf) < Len(V2_SIGNATURE) THEN Incomplete
       ELSE IF starts_with(buf, V2_SIGNATURE) THEN parse_v2(buf)
       ELSE NotProxyProtocol
  ELSE IF buf[1] = V1_PREFIX[1]
  THEN IF Len(buf) < Len(V1_PREFIX) THEN Incomplete
       ELSE IF starts_with(buf, V1_PREFIX) THEN parse_v1(buf)
       ELSE NotProxyProtocol
  ELSE NotProxyProtocol
=============================================================================
