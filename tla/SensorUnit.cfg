\* A period of two ticks on a counter that wraps after four, three revisions.
\* A unit whose start failed does nothing more: no deadlock check.
CONSTANTS
    Period = 2
    TickModulus = 4
    MaxRevision = 3
SPECIFICATION FairSpec
INVARIANT ResetStopsSampling
PROPERTY NeverBackwards
PROPERTY PublishesSpaced
PROPERTY StopComesBack
PROPERTY TelemetryFlows
CHECK_DEADLOCK FALSE
