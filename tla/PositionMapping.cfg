\* Travels below, at and above the number of canonical positions, odd and even.
CONSTANTS
    PositionMax = 12
    MaxTravel = 31
    Capacity = 1
    TimeLimit = 1
    NoId = NoId
SPECIFICATION Spec
INVARIANT Nearest
INVARIANT RoundTrips
CHECK_DEADLOCK FALSE
