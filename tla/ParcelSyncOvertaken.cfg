SPECIFICATION Spec
CONSTANTS
  demo = demo
  own = own
  Parcel = {demo, own}
  SeedOrder <- MCSeedOrder
  Numeric = {own}
  Request = {r1}
  EventId = {e1}
  MaxUpload = 2
  Patchable = {}
  Plantable = {}
  Fault = {"uploadFails"}
INVARIANT NoPickupForgotten
CHECK_DEADLOCK FALSE
