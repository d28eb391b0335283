\* The promise of the README against the two tasks' locks: they may deadlock.
CONSTANTS
    Main = Main
    Mqtt = Mqtt
    Nobody = Nobody
    MaxRevision = 2
    MaxConnections = 2
SPECIFICATION FairSpec
PROPERTY StateIsReported
CHECK_DEADLOCK FALSE
