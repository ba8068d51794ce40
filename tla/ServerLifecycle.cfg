\* A host or a Bluetooth device, told to quit twice at most.  The
\* program ends: nothing happens after that.
SPECIFICATION Spec
CONSTANTS
    Macs = {m1}
    Addresses = {b1}
    None = None
    Configurations = {{"tcp"}, {"bt"}}
    MaxObjects = 4
    MaxScans = 2
    MaxJobs = 2
    MaxRequests = 1
    MaxHostChanges = 1
    MaxBluezChanges = 2
    MaxQuits = 2
INVARIANTS
    ServerFollowsHandlers
    ProfileFollowsDevices
    OrderlyQuit
PROPERTIES
    ScansCatchUp
    QuitExits
CHECK_DEADLOCK FALSE
