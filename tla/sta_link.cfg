\* Two BSSs of one open network, roaming, requests to connect.
SPECIFICATION SafeSpec
CONSTANTS
  b1 = b1
  b2 = b2
  Bss = {b1, b2}
  None = None
  NumChannels = 1
  Burst = 1
  MAX_LEN_OF_MLME_QUEUE = 9
  MaxQ = 1
  MaxAir = 1
  Psk = FALSE
  Requests = {"ssid"}
  Trouble = {}
SYMMETRY Symmetry
INVARIANTS
  TypeOK
  WaitIsTimed
PROPERTIES
  LinkUpGranted
\* a station without a network may idle
CHECK_DEADLOCK FALSE
