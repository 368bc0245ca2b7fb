CONSTANTS
  SIZEOF_STRUCT_MEM = 1
  MIN_SIZE = 1
  SIZEOF_PBUF = 1
  PBUF_POOL_BUFSIZE = 2
  PBUF_TRANSPORT_HLEN = 1
  PBUF_IP_HLEN = 1
  PBUF_LINK_HLEN = 0
  U16_MOD = 16
  Nets <- MCNets
SPECIFICATION PbufSpec
INVARIANTS
  NeverHalts
  CountedPointers
  TotalLengths
  Tiled
CHECK_DEADLOCK FALSE
