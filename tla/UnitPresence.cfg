\* Four events may wait, two losses of power.  A unit whose begin() failed does
\* nothing more: no deadlock check.
CONSTANTS
    MaxEvents = 4
    MaxOutages = 2
SPECIFICATION UnitFairSpec
INVARIANT FlagsFollowThePress
INVARIANT FlagsFollowTheEvents
INVARIANT NobodyStranded
INVARIANT WrongOnlyIfInterrupted
INVARIANT OnlineIsRevocable
INVARIANT ConnectedIsAnnounced
PROPERTY ResetOffersProvisioning
PROPERTY UnitComesOnline
CHECK_DEADLOCK FALSE
