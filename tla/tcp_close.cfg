CONSTANTS
  SEQ_MOD = 32
  U16_MOD = 64
  U8_MOD = 4
  TCP_MSS = 2
  TCP_WND = 4
  TCP_SND_BUF = 7
  TCP_SND_QUEUELEN = 4
  MEMP_NUM_TCP_PCB = 2
  TCP_MAXRTX = 2
  TCP_SYNMAXRTX = 2
  RTO = 1
  tcp_backoff <- MCBackoff
  TCP_OOSEQ_TIMEOUT = 6
  FIN_WAIT_TICKS = 3
  SYN_RCVD_TICKS = 3
  MSL2_TICKS = 1
  POLL_INTERVAL = 1
  ISS <- MCISS
  CLIENT_PORT = 5
  SERVER_PORT = 7
  Nets <- Closing
SPECIFICATION Spec
INVARIANTS
  Deallocated
CHECK_DEADLOCK FALSE
