\* A ring of two entries and four ids: the ring turns over, entries expire,
\* and the largest time stamp (5) makes some expiries overflow.
CONSTANTS
    id1 = id1
    id2 = id2
    id3 = id3
    id4 = id4
    NoId = NoId
    Ids <- FourIds
    Ttls = {1, 3}
    Capacity = 2
    PositionMax = 1
    TimeLimit = 5
    MaxTime = 4
    MaxAccepted = 5
SYMMETRY IdSymmetry
SPECIFICATION Spec
INVARIANT DuplicateNeedsFullRing
INVARIANT NoFalseRefusal
CHECK_DEADLOCK FALSE
