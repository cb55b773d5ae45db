SPECIFICATION FSpec
CONSTANTS
  Inputs <- MCInputs
  V2_SIGNATURE <- RSignature
  V1_PREFIX <- RPrefix
  UNKNOWN <- RUnknown
  TCP4 <- RTcp4
  TCP6 <- RTcp6
  V1_MAX_LEN = 107
  IP_LEN <- RIpLen
  UNIX_LEN = 108
  UNIQUE_ID_MAX = 128
  Radix = 256
  IsUtf8 <- WIsUtf8
  Lossy <- WLossy
  IpAddr <- WIpAddr
  Port <- WPort
  Crc32c <- WCrc32c
INVARIANT VerdictStable
PROPERTY NoLookahead
CHECK_DEADLOCK FALSE
