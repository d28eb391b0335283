\* One motor that restarts and publishes twice, set up over and over, while the
\* network is lost and the application reconnects, also elsewhere and back.  The
\* SDK may stop for good: no deadlock check.
CONSTANTS
    motor = motor
    account = account
    stranger = stranger
    c1 = c1
    c2 = c2
    Devices = {motor}
    Motors = {motor}
    Scopes = {account, stranger}
    NoScope = NoScope
    Home <- OneHome
    Commands = {}
    DeviceOf <- ForMotor
    SetupDevice = motor
    Unknown = Unknown
    SetsUp = TRUE
    MaxGeneration = 3
    MaxRevision = 2
    MaxSessions = 2
    MaxLosses = 1
    MaxWaiting = 1
SPECIFICATION Spec
INVARIANT ConnectionIsTrue
INVARIANT OnlineOnlyWhileConnected
INVARIANT ScopesKeptApart
INVARIANT RegistryAgrees
INVARIANT NoWaitWhenReady
CHECK_DEADLOCK FALSE
