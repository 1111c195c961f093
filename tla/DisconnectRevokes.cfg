\* A user disconnects while the bot brings the user's token.
SPECIFICATION Spec
CONSTANTS
  Users = {u1, u2}
  Accounts = {a1, a2}
  Tokens = {t1, t2}
  Jobs = {j1, j2}
  None = None
  MaxFaults = 0
SYMMETRY Symmetry
INVARIANT DisconnectRevokes
CHECK_DEADLOCK FALSE
