\* Two starts of the channel and a page that may come after them, beside
\* another one that has the phone project.
SPECIFICATION Spec
CONSTANTS
    MaxLag = 4
    MaxSessions = 2
    MaxStarts = 2
    MaxMedia = 1
    MaxRequests = 0
    MaxPages = 1
    MaxShows = 0
    MaxOther = 3
INVARIANTS
    DecoderListensOnce
    DecodesOwnStart
    NativeWithoutClients
\* The environment is bounded and comes to an end.
CHECK_DEADLOCK FALSE
