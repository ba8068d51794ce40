\* Displays between, equal to and beyond the resolutions, some of them upright;
\* a frame holds two bytes, so that a message takes three.  Each input has
\* one result: nothing happens after that.  Two fingers on the screen.
SPECIFICATION Spec
CONSTANTS
    Displays <- SomeDisplays
    Densities = {140}
    MaxConfigs = 3
    MaxTokens = 3
    MaxPayload = 2
    MaxMessage = 5
    Pointers = {f1, f2}
    Points <- SomePoints
    Throttle = 2
    None = None
INVARIANTS
    VideoConfigsFit
    ConfigFilledIn
    FramesRoundTrip
    TouchesFollowPointers
CHECK_DEADLOCK FALSE
