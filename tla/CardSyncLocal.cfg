SPECIFICATION Spec
CONSTANTS
  User = {u1}
  Card = {c1, c2}
  Gateway = {g1}
  NoUser = NoUser
  MaxAuth = 0
  Fault = {"loseReply", "crash"}
  LocalCommand = {"seed", "replace", "register"}
SYMMETRY Symmetry
INVARIANT StaleOnlyIfLostOrMasked
INVARIANT GatewayNeverAhead
PROPERTY NoStaleReactivation
PROPERTY LostOnlyIfBroken
PROPERTY CopiesSpec
CHECK_DEADLOCK FALSE
