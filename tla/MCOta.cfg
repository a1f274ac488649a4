CONSTANTS
  Byte = {0, 1}
  Half = {0, 1}
  MAX_IMAGE_BYTES = 2
  STREAM_BUFFER = 1
  Crc32 <- MCCrc32
SPECIFICATION OtaSpec
INVARIANTS
  PassedIsVerified
  RequestedIsReady
