\* A page that may lose its socket and that calls services, one of them
\* absent.  The bounds end every behaviour: nothing is left to do then.
SPECIFICATION Spec
CONSTANTS
    Pages = {p1}
    None = None
    MaxCalls = 2
    MaxLag = 2
    MaxToggles = 2
    MaxChanges = 2
    MaxFrames = 1
INVARIANTS
    AnswersHaveCallers
    RawPaired
    SubscriptionsFollow
    DevicesCurrent
PROPERTIES
    CallsAnswered
CHECK_DEADLOCK FALSE
