SPECIFICATION Spec
CONSTANTS
    d1 = d1
    d2 = d2
    p1 = p1
    p2 = p2
    o1 = o1
    o2 = o2
    Device = {d1, d2}
    NoDevice = NoDevice
    Legacy <- MCLegacy
    Parcel = {p1, p2}
    Op = {o1, o2}
    MaxTag = 2
    MaxDone = 5
SYMMETRY Symmetry
INVARIANT TypeOK
INVARIANT NumbersDiffer
INVARIANT DeviceNamedOnce
INVARIANT AddressIsOwn
INVARIANT BoundNotIdle
INVARIANT RunningHasReason
CHECK_DEADLOCK FALSE
