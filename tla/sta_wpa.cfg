\* One BSS with WPA-PSK, every trouble, and a queue that overflows.
SPECIFICATION SafeSpec
CONSTANTS
  b1 = b1
  Bss = {b1}
  None = None
  NumChannels = 1
  Burst = 1
  MAX_LEN_OF_MLME_QUEUE = 2
  MaxQ = 2
  MaxAir = 1
  Psk = TRUE
  Requests = {"ssid"}
  Trouble = {"mem", "block", "switch", "privacy"}
INVARIANTS
  ScanGoesOn
PROPERTIES
  LinkUpGranted
\* a station without a network may idle
CHECK_DEADLOCK FALSE
