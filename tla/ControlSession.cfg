\* A handshake of two rounds; at most two timers of sessions run at a time.
SPECIFICATION FairSpec
CONSTANTS
    Rounds = 2
    Signals = {s1, s2}
INVARIANTS
    WaitsAreCurrent
PROPERTIES
    AbortHitsOwnSession
    SettlesUnlessAbortLost
    SilentPhoneNoticed
