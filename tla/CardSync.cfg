SPECIFICATION FairSpec
CONSTANTS
  User = {u1}
  Card = {c1, c2}
  Gateway = {g1}
  NoUser = NoUser
  MaxAuth = 1
  Fault = {"loseReply", "crash"}
  LocalCommand = {}
INVARIANT TypeOK
INVARIANT OneActiveCardPerUser
PROPERTY IssuedOnce
PROPERTY RevokedEventuallyRefused
CHECK_DEADLOCK FALSE
