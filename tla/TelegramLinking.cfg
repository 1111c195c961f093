\* Two requests of any kind at once, from any tables, with one lost database.
SPECIFICATION FairSpec
CONSTANTS
  Users = {u1, u2}
  Accounts = {a1, a2}
  Tokens = {t1, t2}
  Jobs = {j1, j2}
  None = None
  MaxFaults = 1
INVARIANTS
  TypeOK
  TokenLinksOnce
  OneUserPerAccount
PROPERTIES
  SpentForAReason
  RevokedNeverLinks
  LinksAccounts
  EveryRequestEnds
CHECK_DEADLOCK FALSE
