SPECIFICATION AxumFairSpec
CONSTANTS
  c1 = c1
  c2 = c2
  Conns = {c1, c2}
  Streams <- MCStreams
  Segments = {4}
  AppReads = {8}
  HEADER_TIMEOUT = 1
  MAX_HEADER_SIZE = 6
  VERSION = "Both"
  READ_SIZE = 4
  Policy <- MCPolicy
  Validator = {TRUE}
  MaxCalls = 2
  RETRY_DELAY = 2
  IoErrors = {"ConnectionReset", "TimedOut"}
  MaxAcceptErrors = 1
  MAX_PENDING_HANDSHAKES = 1
  V2_SIGNATURE <- WSignature
  V1_PREFIX <- WPrefix
  UNKNOWN <- WUnknown
  TCP4 <- WTcp4
  TCP6 <- WTcp6
  V1_MAX_LEN = 16
  IP_LEN <- WIpLen
  UNIX_LEN = 2
  UNIQUE_ID_MAX = 2
  Radix = 256
  IsUtf8 <- WIsUtf8
  Lossy <- WLossy
  IpAddr <- WIpAddr
  Port <- WPort
  Crc32c <- WCrc32c
INVARIANTS
  BacklogDelayBounded
  ShutdownDropsOne
PROPERTY EveryConnectionSettled
