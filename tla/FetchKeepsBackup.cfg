\* A backup on the USB, then a lost host that dr-recover.sh recovers.
SPECIFICATION Spec
CONSTANTS
  Files = {f1}
  Routes <- DrRoute
  MaxBackups = 1
  MaxRestores = 0
  MaxTroubles = 1
PROPERTIES
  FetchKeepsBackup
CHECK_DEADLOCK FALSE
