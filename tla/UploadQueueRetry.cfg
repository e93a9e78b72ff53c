SPECIFICATION FairSpec
CONSTANTS
  MaxEvent = 2
  Pickup = {1}
  Poison = {1}
  Pusher = {loop}
  RunLoop = {loop}
  Request = {r1, r2}
  Nobody = Nobody
  MaxCrash = 1
PROPERTY EveryEventAcked
CHECK_DEADLOCK FALSE
