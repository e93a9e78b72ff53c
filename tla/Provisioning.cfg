SPECIFICATION Spec
CONSTANTS
  Device = {d1, d3}
  Barred = {d3}
  NoDevice = NoDevice
  Code = {c1, c2}
  NoCode = NoCode
  Token = {t1, t2}
  Request = {r1, r2}
  MaxSecret = 2
  Bind = {b1, b2}
  Nobody = Nobody
  MaxTrouble = 1
SYMMETRY Symmetry
INVARIANT TypeOK
INVARIANT TokenBindsOnce
INVARIANT StoredSecretIsCurrent
INVARIANT BoundDeviceHasGateway
INVARIANT ConfirmedOnlineWasHeard
CHECK_DEADLOCK FALSE
