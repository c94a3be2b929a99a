CONSTANTS
  IKCP_OVERHEAD = 24
  METADATA_SIZE = 5
  IKCP_MTU_DEF = 80
  IKCP_MTU_MIN = 50
  IKCP_WND_RCV = 3
  FRG_MAX = 4
  Mtus = {55, 56, 80, 90}
  Windows = {0, 1, 2, 3, 4, 6}
  Lengths = {1, 24, 25, 26, 27, 50, 51, 52, 76, 77, 78, 79, 80, 101, 102, 103, 104, 129, 130, 131}
  MaxWaiting = 1
SPECIFICATION Spec
INVARIANTS TypeOK MessageFitsWindow DatagramFits
