CONSTANTS
  Byte <- SmallByte
  sync_first = 2
  sync_second = 1
  header_size = 3
  minimum_frame_size = 4
  maximum_payload_size = 5
  length_low = 2
  length_high = 2
  PayloadLength <- SmallLength
  Decode <- SmallDecode
  MaxStream = 12
SPECIFICATION Spec
INVARIANTS
  TypeOK
  NoOverrun
  BufferIsStreamSuffix
  DeliveredSound
  NothingLost
  BoundedDelay
  ByteAccounting
  MalformedIffLoss
PROPERTY PushReturns
