\* Two Bluetooth devices of one name; the stop of the second service may
\* throw, and the calls are answered unless doStart hangs.
SPECIFICATION FairSpec
CONSTANTS
    d1 = d1
    d2 = d2
    d3 = d3
    n1 = n1
    n2 = n2
    Devices = {d2, d3}
    NoDevice = NoDevice
    Bluetooth = {d2, d3}
    Names = {n1, n2}
    NameOf <- TwoNames
    MaxPending = 3
    NumServices = 2
    FaultyServices = {2}
INVARIANTS
    DevicesFollowHandlers
PROPERTIES
    ImplementsSlot
    SessionKept
    LockReleased
    SelfConnectAnswered
