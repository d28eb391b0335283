\* Four revisions and two connections, both tasks scheduled.  The system stops
\* when the two tasks deadlock (MotorReportingDeadlock.cfg), or when it is
\* disconnected for good.
CONSTANTS
    Main = Main
    Mqtt = Mqtt
    Nobody = Nobody
    MaxRevision = 3
    MaxConnections = 2
SPECIFICATION FairSpec
INVARIANT LastReportIsRetained
INVARIANT ResultCoversCommand
INVARIANT OnlyDeadlock
PROPERTY CatchesUp
PROPERTY ReportsAfterConnecting
CHECK_DEADLOCK FALSE
