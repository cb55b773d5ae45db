------------------------------- MODULE Vendor -------------------------------
(***************************************************************************)
(* The vendor TLVs (vendor/mod.rs, aws.rs, azure.rs): Tlvs::aws, azure and *)
(* gcp decode the first raw TLV of their type.  A result is an Option of   *)
(* Ok or Err; a sub-TLV error keeps its kind.                              *)
(***************************************************************************)
EXTENDS Builder

AWS == 234
AZURE == 238
GCP == 224

VendorErr(kind) == [tag |-> "Err", kind |-> kind]

\* The digits of a fixed-width unsigned integer, least significant first.
LEValue(octets) == FoldRight(LAMBDA d, n : Radix * n + d, octets, 0)
BEValue(octets) == FoldLeft(LAMBDA n, d : Radix * n + d, 0, octets)

\* [A-Za-z0-9-]*
is_valid_vpce_id(s) ==
  \A i \in DOMAIN s : s[i] \in (48..57) \cup (65..90) \cup (97..122) \cup {45}

parse_aws_tlv(data) ==
  LET value == Tail(data) IN
  IF data = <<>> THEN VendorErr("MalformedSubTlv")
  ELSE IF Head(data) # 1
  THEN [tag |-> "Ok", vpc_endpoint_id |-> None, raw |-> <<<<Head(data), value>>>>]
  ELSE IF ~ IsUtf8(value) \/ ~ is_valid_vpce_id(value) THEN VendorErr("InvalidValue")
  ELSE [tag |-> "Ok", vpc_endpoint_id |-> Some(value), raw |-> <<<<1, value>>>>]

parse_azure_tlv(data) ==
  LET value == Tail(data) IN
  IF data = <<>> THEN VendorErr("MalformedSubTlv")
  ELSE IF Head(data) # 1
  THEN [tag |-> "Ok", private_endpoint_link_id |-> None, raw |-> <<<<Head(data), value>>>>]
  ELSE IF Len(value) # 4 THEN VendorErr("InvalidValue")
  ELSE [tag |-> "Ok", private_endpoint_link_id |-> Some(LEValue(value)), raw |-> <<<<1, value>>>>]

parse_gcp_tlv(value) ==
  IF Len(value) # 8 THEN VendorErr("InvalidValue")
  ELSE [tag |-> "Ok", psc_connection_id |-> BEValue(value)]

\* Faulty variant: the last TLV of the type, as for the typed fields.
find_last(raw, type) == LastOf(type, raw)

find(raw, type) ==
  LET i == SelectInSeq(raw, LAMBDA e : e[1] = type)
  IN  IF i = 0 THEN None ELSE Some(raw[i][2])

aws(tlvs) == [i \in DOMAIN find(tlvs.raw, AWS) |-> parse_aws_tlv(find(tlvs.raw, AWS)[i])]
azure(tlvs) == [i \in DOMAIN find(tlvs.raw, AZURE) |-> parse_azure_tlv(find(tlvs.raw, AZURE)[i])]
gcp(tlvs) == [i \in DOMAIN find(tlvs.raw, GCP) |-> parse_gcp_tlv(find(tlvs.raw, GCP)[i])]

-----------------------------------------------------------------------------
\* Properties.

\* The first value a caller of the builder gave for a type.
FirstGiven(b, type) ==
  {b.tlv_entries[i][2] : i \in {j \in DOMAIN b.tlv_entries :
     b.tlv_entries[j][1] = type /\ \A k \in 1..(j - 1) : b.tlv_entries[k][1] # type}}

\* Reference: the four octets of a u32, low end first; the eight of a u64, high end first.
LE32(n) == [i \in 1..4 |-> (n \div (Radix ^ (i - 1))) % Radix]
BE64(n) == [i \in 1..8 |-> (n \div (Radix ^ (8 - i))) % Radix]

\* Reference: an octet that no VPC endpoint identifier has.
NotInId(o) == o < 45 \/ o \in (46..47) \cup (58..64) \cup (91..96) \/ o > 122

AwsReads(value, r) ==
  IF r.tag = "Ok"
  THEN /\ value = <<r.raw[1][1]>> \o r.raw[1][2]
       /\ r.vpc_endpoint_id = IF value[1] = 1 THEN Some(r.raw[1][2]) ELSE None
       /\ \A id \in ToSet(r.vpc_endpoint_id) : \A i \in DOMAIN id : ~ NotInId(id[i])
  ELSE value = <<>> \/ (value[1] = 1 /\ \E i \in 2..Len(value) : NotInId(value[i]))

AzureReads(value, r) ==
  IF r.tag = "Ok"
  THEN /\ value = <<r.raw[1][1]>> \o r.raw[1][2]
       /\ \A id \in ToSet(r.private_endpoint_link_id) : value = <<1>> \o LE32(id)
       /\ value[1] = 1 => r.private_endpoint_link_id # None
  ELSE value = <<>> \/ (value[1] = 1 /\ Len(value) # 5)

GcpReads(value, r) ==
  IF r.tag = "Ok" THEN value = BE64(r.psc_connection_id) ELSE Len(value) # 8

VendorReads(b, tlvs) ==
  /\ Len(aws(tlvs)) = Cardinality(FirstGiven(b, AWS))
  /\ Len(azure(tlvs)) = Cardinality(FirstGiven(b, AZURE))
  /\ Len(gcp(tlvs)) = Cardinality(FirstGiven(b, GCP))
  /\ \A value \in FirstGiven(b, AWS) : AwsReads(value, aws(tlvs)[1])
  /\ \A value \in FirstGiven(b, AZURE) : AzureReads(value, azure(tlvs)[1])
  /\ \A value \in FirstGiven(b, GCP) : GcpReads(value, gcp(tlvs)[1])

\* A vendor TLV put into a header with with_raw_tlv is read back from the parsed
\* header: the identifiers are those encoded, in the byte order of the vendor, at
\* any value of their width; the first TLV counts when a type is given twice; and
\* only a value outside the vendor's format is an error.
VendorRoundTrip ==
  status = "built" /\ builder[1].version = "V2" /\ Conformant(builder[1]) =>
    VendorReads(builder[1], parse(bytes).info.tlvs)
=============================================================================
