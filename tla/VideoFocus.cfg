\* One page, opened twice, with two views that come and go.
SPECIFICATION Spec
CONSTANTS
    MaxLag = 2
    MaxSessions = 1
    MaxStarts = 1
    MaxMedia = 1
    MaxRequests = 1
    MaxPages = 2
    MaxShows = 2
    MaxOther = 0
INVARIANTS
    DisplayedIsProjected
    HiddenIsNative
\* The environment is bounded and comes to an end.
CHECK_DEADLOCK FALSE
