CONSTANTS
  ARP_TABLE_SIZE = 2
  ARP_MAXAGE = 2
  ARP_MAXPENDING = 1
  LocalNet = {1, 2, 3, 9}
  DHCP_FINE_TIMER_MSECS = 10000
  DHCP_COARSE_TIMER_SECS = 120
  U8_MOD = 12
  U16_MOD = 3
  INFINITE = 10000
  MEMP_NUM_UDP_PCB = 2
  SERVER = 9
  Nets <- MCNets
SPECIFICATION LinkFairSpec
INVARIANTS
  FramesToOwner
  AlwaysTimed
  BoundByAck
PROPERTIES
  Served
CHECK_DEADLOCK FALSE
