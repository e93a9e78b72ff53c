SPECIFICATION Spec
CONSTANTS
    u1 = u1
    p1 = p1
    c1 = c1
    a1 = a1
    User = {u1}
    Parcel = {p1}
    Card = {c1}
    Owner <- MCOwner
    Holder <- MCHolder
    Nobody = Nobody
    Api = {a1}
    Colours = 2
    Addressed = {}
    MaxCard = 1
    MaxQr = 1
    MaxEvent = 3
    MaxCrash = 1
INVARIANT TypeOK
INVARIANT ColoursDiffer
INVARIANT GrantOnRecord
INVARIANT TaskInHand
INVARIANT GrantHadParcel
PROPERTY GrantStands
PROPERTY DoorSpec
PROPERTY RequestDecided
CHECK_DEADLOCK FALSE
