CONSTANTS
  IKCP_OVERHEAD = 24
  METADATA_SIZE = 5
  IKCP_MTU_DEF = 1400
  IKCP_MTU_MIN = 50
  IKCP_WND_RCV = 32
  FRG_MAX = 255
  Mtus = {50}
  Windows = {128}
  Lengths = {1, 100}
  MaxWaiting = 1
SPECIFICATION Spec
INVARIANTS DatagramFits
