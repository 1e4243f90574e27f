\* One BSS, every request of a user, a scan in two bursts.
SPECIFICATION Spec
CONSTANTS
  b1 = b1
  Bss = {b1}
  None = None
  NumChannels = 2
  Burst = 1
  MAX_LEN_OF_MLME_QUEUE = 9
  MaxQ = 1
  MaxAir = 1
  Psk = FALSE
  Requests = {"ssid", "bssid", "survey", "disassociate", "down"}
  Trouble = {}
PROPERTIES
  HeldLinkIsGranted
  WaitEnds
  TrafficResumes
\* a station without a network may idle
CHECK_DEADLOCK FALSE
