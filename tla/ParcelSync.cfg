SPECIFICATION Spec
CONSTANTS
  demo = demo
  own = own
  Parcel = {demo, own}
  SeedOrder <- MCSeedOrder
  Numeric = {own}
  Request = {r1, r2}
  EventId = {e1, e2}
  MaxUpload = 2
  Patchable = {demo}
  Plantable = {own}
  Fault = {"uploadFails", "loseReply", "crash"}
SYMMETRY Symmetry
INVARIANT TypeOK
 
INVARIANT ForgottenOnlyIfUnknown
INVARIANT GatewayParcelConverges
INVARIANT ReleasedUnlessMissed
CHECK_DEADLOCK FALSE
