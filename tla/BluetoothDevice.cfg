\* Three attempts at a time and two calls that await the lock; phone, BlueZ and
\* users are not bounded.
SPECIFICATION Spec
CONSTANTS
    Attempts = {a1, a2, a3}
    None = None
    MaxCalls = 2
INVARIANTS
    WaitsAreAwaited
    LossIsNoticed
    MessageWaitsEnd
PROPERTIES
    Settles
