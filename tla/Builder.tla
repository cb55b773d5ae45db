------------------------------ MODULE Builder ------------------------------
(***************************************************************************)
(* HeaderBuilder (builder.rs): a constructor, any chain of with_* calls,   *)
(* then build.  A call whose assert fails panics.  The parser of module    *)
(* Parse reads the bytes back.                                             *)
(***************************************************************************)
EXTENDS Parse, SequencesExt

CONSTANTS
  SocketAddrs,        \* the socket addresses a caller passes: Inet(ip, port)
  Paths,              \* the Unix paths
  Strings,            \* the texts and octet strings used as TLV values
  RawTlvs,            \* the <<type, value>> pairs passed to with_raw_tlv
  SslInfos,           \* the SslInfo values
  MaxTlvs,            \* bound on the with_* calls that add a TLV
  IpText(_),          \* Display of an IpAddr
  PortText(_)         \* Display of a port

VARIABLES
  builder,            \* Option of the HeaderBuilder
  status,             \* "open", "built", "panicked"
  bytes               \* what build returned

bvars == <<builder, status, bytes>>

U16_MAX == Radix * Radix - 1
ToBE16(n) == <<(n \div Radix) % Radix, n % Radix>>
Zeros(n) == [i \in 1..n |-> 0]

HeaderBuilder(version, command, transport, source, destination) ==
  [version |-> version, command |-> command, transport |-> transport,
   source |-> source, destination |-> destination,
   tlv_entries |-> <<>>, add_crc32c |-> FALSE]

BInit ==
  /\ builder = None
  /\ status = "open"
  /\ bytes = <<>>

Panic == status' = "panicked" /\ UNCHANGED <<builder, bytes>>

-----------------------------------------------------------------------------
\* Constructors.

New(b) ==
  /\ builder = None /\ status = "open"
  /\ builder' = Some(b)
  /\ UNCHANGED <<status, bytes>>

InetBuilder(version, src, dst) ==
  IF src.ip.family # dst.ip.family
  THEN builder = None /\ status = "open" /\ Panic
  ELSE New(HeaderBuilder(version, "Proxy",
                         Some([family |-> src.ip.family, protocol |-> "Stream"]),
                         Some(src), Some(dst)))

v2_proxy(src, dst) == InetBuilder("V2", src, dst)
v1_proxy(src, dst) == InetBuilder("V1", src, dst)
v2_local == New(HeaderBuilder("V2", "Local", None, None, None))
v1_unknown == New(HeaderBuilder("V1", "Proxy", None, None, None))
v2_unix(src, dst, protocol) ==
  New(HeaderBuilder("V2", "Proxy", Some([family |-> "Unix", protocol |-> protocol]),
                    Some(Unix(src)), Some(Unix(dst))))

-----------------------------------------------------------------------------
\* with_* calls.

Open == builder # None /\ status = "open"

with_transport_protocol(protocol) ==
  /\ Open
  /\ builder' = IF builder[1].transport = None THEN builder
                ELSE [builder EXCEPT ![1].transport[1].protocol = protocol]
  /\ UNCHANGED <<status, bytes>>

Push(type, value) ==
  /\ Open /\ Len(builder[1].tlv_entries) < MaxTlvs
  /\ builder' = [builder EXCEPT ![1].tlv_entries = Append(@, <<type, value>>)]
  /\ UNCHANGED <<status, bytes>>

with_alpn(alpn) == Push(1, alpn)
with_authority(authority) == Push(2, authority)
with_padding(len) == Push(4, Zeros(len))
with_netns(netns) == Push(48, netns)
with_raw_tlv(type, value) == Push(type, value)
with_unique_id(id) ==
  IF Len(id) > UNIQUE_ID_MAX THEN Open /\ Panic ELSE Push(5, id)

encode_sub_tlv(type, value) ==
  IF value = None THEN <<>> ELSE <<type>> \o ToBE16(Len(value[1])) \o value[1]

encode_ssl_tlv_value(ssl) ==
  <<ssl.client_flags, 0, 0, 0, IF ssl.verified THEN 0 ELSE 1>>
    \o encode_sub_tlv(33, ssl.version) \o encode_sub_tlv(34, ssl.cn)
    \o encode_sub_tlv(35, ssl.cipher) \o encode_sub_tlv(36, ssl.sig_alg)
    \o encode_sub_tlv(37, ssl.key_alg) \o encode_sub_tlv(38, ssl.group)
    \o encode_sub_tlv(39, ssl.sig_scheme) \o encode_sub_tlv(40, ssl.client_cert)

\* The assert of encode_sub_tlv holds for every sub-TLV present.
SubTlvsFit(ssl) ==
  \A f \in {"version", "cn", "cipher", "sig_alg", "key_alg", "group", "sig_scheme",
            "client_cert"} : ssl[f] = None \/ Len(ssl[f][1]) <= U16_MAX

with_ssl(ssl) ==
  IF SubTlvsFit(ssl) THEN Push(32, encode_ssl_tlv_value(ssl)) ELSE Open /\ Panic

with_crc32c ==
  /\ Open
  /\ builder' = [builder EXCEPT ![1].add_crc32c = TRUE]
  /\ UNCHANGED <<status, bytes>>

-----------------------------------------------------------------------------
\* build.

build_v1(b) ==
  IF b.source # None /\ b.destination # None /\ b.transport # None
  THEN V1_PREFIX \o (IF b.transport[1].family = "Inet" THEN TCP4 ELSE TCP6)
         \o <<SP>> \o IpText(b.source[1].ip)
         \o <<SP>> \o IpText(b.destination[1].ip)
         \o <<SP>> \o PortText(b.source[1].port)
         \o <<SP>> \o PortText(b.destination[1].port) \o <<CR, LF>>
  ELSE V1_PREFIX \o UNKNOWN \o <<CR, LF>>

PathField(path) ==
  [i \in 1..UNIX_LEN |-> IF i <= Len(path) THEN path[i] ELSE 0]

encode_addresses(b) ==
  LET src == b.source[1]
      dst == b.destination[1]
  IN  IF src.kind = "Unix" THEN PathField(src.path) \o PathField(dst.path)
      ELSE src.ip.octets \o dst.ip.octets \o ToBE16(src.port) \o ToBE16(dst.port)

FamProto(transport) ==
  IF transport = None THEN 0
  ELSE 16 * SelectInSeq(FAMILY, LAMBDA f : f = transport[1].family)
        + SelectInSeq(PROTOCOL, LAMBDA p : p = transport[1].protocol)

Payload(b) ==
  (IF b.command = "Local" THEN <<>> ELSE encode_addresses(b))
    \o FlattenSeq([i \in DOMAIN b.tlv_entries |->
         <<b.tlv_entries[i][1]>> \o ToBE16(Len(b.tlv_entries[i][2])) \o b.tlv_entries[i][2]])
    \o (IF b.add_crc32c THEN <<3>> \o ToBE16(4) \o Zeros(4) ELSE <<>>)

\* The length is in place before the checksum is computed over the header.
build_v2(b) ==
  LET payload == Payload(b)
      buf == V2_SIGNATURE \o <<32 + (IF b.command = "Local" THEN 0 ELSE 1),
                               FamProto(b.transport)>>
               \o ToBE16(Len(payload)) \o payload
  IN  IF b.add_crc32c THEN SubSeq(buf, 1, Len(buf) - 4) \o Crc32c(buf) ELSE buf

\* Faulty variant: the total length is not checked and wraps.
V2FitsNoTotal(b) ==
  \A i \in DOMAIN b.tlv_entries : Len(b.tlv_entries[i][2]) <= U16_MAX

\* The asserts of build_v2.
V2Fits(b) ==
  /\ \A i \in DOMAIN b.tlv_entries : Len(b.tlv_entries[i][2]) <= U16_MAX
  /\ Len(Payload(b)) <= U16_MAX

build ==
  /\ Open
  /\ LET b == builder[1] IN
     IF b.version = "V2" /\ ~ V2Fits(b) THEN Panic
     ELSE /\ bytes' = IF b.version = "V1" THEN build_v1(b) ELSE build_v2(b)
          /\ status' = "built"
          /\ UNCHANGED builder

BNext ==
  \/ \E src, dst \in SocketAddrs : v2_proxy(src, dst) \/ v1_proxy(src, dst)
  \/ \E src, dst \in Paths, p \in {"Stream", "Datagram"} : v2_unix(src, dst, p)
  \/ v2_local
  \/ v1_unknown
  \/ \E p \in {"Stream", "Datagram"} : with_transport_protocol(p)
  \/ \E s \in Strings : \/ with_alpn(s)
                        \/ with_unique_id(s)
                        \/ IsUtf8(s) /\ (with_authority(s) \/ with_netns(s))
                        \/ Len(s) <= U16_MAX /\ with_padding(Len(s))
  \/ \E tlv \in RawTlvs : with_raw_tlv(tlv[1], tlv[2])
  \/ \E ssl \in SslInfos : with_ssl(ssl)
  \/ with_crc32c
  \/ build

BSpec == BInit /\ [][BNext]_bvars

-----------------------------------------------------------------------------
\* Properties.

\* The TLVs the caller added by hand respect the wire format of their type.
Conformant(b) ==
  \A i \in DOMAIN b.tlv_entries :
    LET type == b.tlv_entries[i][1]
        value == b.tlv_entries[i][2]
    IN  /\ type # 3
        /\ type = 5 => Len(value) <= UNIQUE_ID_MAX
        /\ type = 32 => \E ssl \in SslInfos : value = encode_ssl_tlv_value(ssl)

\* The value the last with_* call for a type gave it.
LastGiven(b, type) ==
  {b.tlv_entries[i][2] : i \in {j \in DOMAIN b.tlv_entries :
     /\ b.tlv_entries[j][1] = type
     /\ \A k \in DOMAIN b.tlv_entries : b.tlv_entries[k][1] = type => k <= j}}

\* An address survives unchanged, but for a path that does not fit its field or
\* holds a NUL, which is cut there.
Survives(given, got) ==
  \/ given = got
  \/ /\ given # None /\ got # None /\ given[1].kind = "Unix" /\ got[1].kind = "Unix"
     /\ \E n \in 0..Len(given[1].path) :
          /\ got[1].path = SubSeq(given[1].path, 1, n)
          /\ n = UNIX_LEN \/ (n < Len(given[1].path) /\ given[1].path[n + 1] = 0)

\* The TLVs read back are those given, in order, and the last of each type is the
\* typed field.
TlvsSurvive(b, tlvs) ==
  /\ IsPrefix(b.tlv_entries, tlvs.raw)
  /\ Len(tlvs.raw) = Len(b.tlv_entries) + (IF b.add_crc32c THEN 1 ELSE 0)
  /\ tlvs.crc32c # None <=> b.add_crc32c
  /\ ToSet(tlvs.alpn) = LastGiven(b, 1)
  /\ ToSet(tlvs.authority) = LastGiven(b, 2)
  /\ ToSet(tlvs.unique_id) = LastGiven(b, 5)
  /\ ToSet(tlvs.netns) = LastGiven(b, 48)
  /\ {encode_ssl_tlv_value(ssl) : ssl \in ToSet(tlvs.ssl)} = LastGiven(b, 32)
  /\ ToSet(tlvs.ssl) \subseteq SslInfos

ReadsBack(b, r) ==
  /\ r.tag = "Ok" /\ r.consumed = Len(bytes)
  /\ r.info.version = b.version /\ r.info.command = b.command
  /\ Survives(b.source, r.info.source) /\ Survives(b.destination, r.info.destination)
  /\ b.version = "V1" => r.info.tlvs.raw = <<>>
  /\ b.version = "V2" => r.info.transport = b.transport /\ TlvsSurvive(b, r.info.tlvs)

\* The parser reads back what was built, all of it and nothing more: version,
\* command, addresses; for version 2 also the protocol, every TLV in order with the
\* last of each type as the typed field, and a checksum that verifies.  Version 1
\* carries neither protocol nor TLVs.
RoundTrip ==
  status = "built" /\ (builder[1].version = "V2" => Conformant(builder[1])) =>
    ReadsBack(builder[1], parse(bytes))

\* A header built with with_crc32c passes the parser's checksum test.
ChecksumVerifies ==
  status = "built" /\ builder[1].version = "V2" /\ builder[1].add_crc32c =>
    parse(bytes).tag # "CrcMismatch"
=============================================================================
