SPECIFICATION Spec
CONSTANTS
  User = {u1}
  Card = {c1, c2}
  Gateway = {g1}
  NoUser = NoUser
  MaxAuth = 0
  Fault = {}
  LocalCommand = {}
INVARIANT RevokedRefusedAfterSync
CHECK_DEADLOCK FALSE
