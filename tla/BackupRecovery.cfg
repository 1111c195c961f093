\* A backup and a restore, or a rebuilt host that fetches from USB, beside the
\* nightly maintenance, with a file that comes and goes and two troubles:
\* commands that fail, power cuts, a lost host.
SPECIFICATION FairSpec
CONSTANTS
  Files = {f1}
  Routes <- BothRoutes
  MaxBackups = 1
  MaxRestores = 1
  MaxTroubles = 2
INVARIANTS
  TypeOK
  RestoresWhole
PROPERTIES
  ReopensOrReports
CHECK_DEADLOCK FALSE
