SPECIFICATION TrustSpec
CONSTANTS
  c1 = c1
  Conns = {c1}
  WIDTH <- MCWidth
  PeerIps <- MCPeerIps
  Lists <- MCLists
  Streams <- MCStreams
  Segments = {2, 14}
  AppReads = {14}
  HEADER_TIMEOUT = 1
  MAX_HEADER_SIZE = 4
  VERSION = "Both"
  READ_SIZE = 14
  Policy <- AnyPolicy
  Validator = {TRUE}
  MaxCalls = 1
  MAX_PENDING_HANDSHAKES = 1
  V2_SIGNATURE <- WSignature
  V1_PREFIX <- WPrefix
  UNKNOWN <- WUnknown
  TCP4 <- WTcp4
  TCP6 <- WTcp6
  V1_MAX_LEN = 16
  IP_LEN <- WIpLen
  UNIX_LEN = 2
  UNIQUE_ID_MAX = 2
  Radix = 256
  IsUtf8 <- WIsUtf8
  Lossy <- WLossy
  IpAddr <- WIpAddr
  Port <- WPort
  Crc32c <- WCrc32c
INVARIANTS
  ListFaithful
  TrustDecides
  MixedUntouched
