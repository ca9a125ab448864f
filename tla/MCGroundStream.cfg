CONSTANTS
  Byte <- SmallByte
  sync_first = 2
  sync_second = 1
  header_size = 3
  minimum_frame_size = 4
  maximum_payload_size = 2
  length_low = 2
  length_high = 2
  PayloadLength <- SmallLength
  Decode <- SmallDecode
  MaxStream = 10
  TypeOf <- SmallType
  PayloadSound <- SmallSound
SPECIFICATION OfflineSpec
INVARIANT ExitStatusExact
CHECK_DEADLOCK FALSE
