SPECIFICATION Spec
CONSTANTS
  MaxEvent = 2
  Pickup = {1}
  Poison = {}
  Pusher = {loop, command}
  RunLoop = {loop}
  Request = {r1, r2}
  Nobody = Nobody
  MaxCrash = 1
SYMMETRY Symmetry
INVARIANT TypeOK
INVARIANT AppliedOnce
INVARIANT NothingClaimedEarly
PROPERTY AckedIsFinal
PROPERTY DeliverySpec
CHECK_DEADLOCK FALSE
