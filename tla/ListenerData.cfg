SPECIFICATION FairSpec
CONSTANTS
  c1 = c1
  c2 = c2
  c3 = c3
  Conns = {c1}
  Streams <- AllStreams
  Segments <- AnySegment
  AppReads = {1, 4}
  HEADER_TIMEOUT = 1
  MAX_HEADER_SIZE = 10
  VERSION = "Both"
  READ_SIZE = 5
  Policy <- AnyPolicy
  Validator = {TRUE, FALSE}
  MaxCalls = 1
  MAX_PENDING_HANDSHAKES = 1
  V2_SIGNATURE <- WSignature
  V1_PREFIX <- WPrefix
  UNKNOWN <- WUnknown
  TCP4 <- WTcp4
  TCP6 <- WTcp6
  V1_MAX_LEN = 16
  IP_LEN <- WIpLen
  UNIX_LEN = 2
  UNIQUE_ID_MAX = 2
  Radix = 256
  IsUtf8 <- WIsUtf8
  Lossy <- WLossy
  IpAddr <- WIpAddr
  Port <- WPort
  Crc32c <- WCrc32c
INVARIANTS
  TypeOK
  BufBounded
  OutcomeSound
  IncompleteJustified
  NothingLost
  ClientAddrFaithful
PROPERTIES
  HeaderAccepted
  TimeoutOnlyWhenUndecided
  ImplementsHandoff
