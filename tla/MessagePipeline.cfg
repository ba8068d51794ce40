\* Two sessions; frames of two services, in events that end anywhere.
SPECIFICATION Spec
CONSTANTS
    Control = control
    Services = {control, video}
    MaxSessions = 2
    MaxFrames = 4
INVARIANTS
    AggregatorAssertions
    DispatchedInOrder
    SentInOrder
PROPERTIES
    ImplementsStreams
    EventuallyDispatched
\* The environment is bounded and comes to an end.
CHECK_DEADLOCK FALSE
