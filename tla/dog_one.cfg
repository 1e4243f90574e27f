SPECIFICATION Spec
CONSTANTS
  t1 = t1
  t2 = t2
  Threads <- MCOne
  Hz = 2
  RegMax = 9
  HIDOG_TIMER_MARGIN = 2
  DefaultMargins <- MCAnyDefault
  Nowayout = FALSE
  Nodeamon = FALSE
  Margins <- MCAnyMargin
  Writes = {TRUE, FALSE}
  Faults = TRUE
  Reboots = TRUE
  Unloads = TRUE
  EarlyOpen = FALSE
INVARIANTS TypeOK OwnerMustFeed CardAsReported SettledInv
PROPERTIES IdleNeverResets UnloadEnds
