SPECIFICATION BSpec
CONSTANTS
  SocketAddrs <- MCSocketAddrs
  Paths <- MCPaths
  Strings <- MCStrings
  RawTlvs <- MCRawTlvs
  SslInfos <- MCSslInfos
  MaxTlvs = 2
  IpText <- WIpText
  PortText <- WPortText
  V2_SIGNATURE <- WSignature
  V1_PREFIX <- WPrefix
  UNKNOWN <- WUnknown
  TCP4 <- WTcp4
  TCP6 <- WTcp6
  V1_MAX_LEN = 20
  IP_LEN <- WIpLen
  UNIX_LEN = 2
  UNIQUE_ID_MAX = 2
  Radix = 5
  IsUtf8 <- WIsUtf8
  Lossy <- WLossy
  IpAddr <- WIpAddr
  Port <- WPort
  Crc32c <- WCrc32c
INVARIANTS
  RoundTrip
  VendorRoundTrip
CHECK_DEADLOCK FALSE
