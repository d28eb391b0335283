\* Two commands for one motor over a network lost once, with a disconnect or a
\* second connect, and a disposal.  The SDK may stop for good: no deadlock check.
CONSTANTS
    motor = motor
    account = account
    stranger = stranger
    c1 = c1
    c2 = c2
    Devices = {motor}
    Motors = {motor}
    Scopes = {account}
    NoScope = NoScope
    Home <- OneHome
    Commands = {c1, c2}
    DeviceOf <- ForMotor
    SetupDevice = motor
    Unknown = Unknown
    SetsUp = FALSE
    MaxGeneration = 2
    MaxRevision = 0
    MaxSessions = 1
    MaxLosses = 1
    MaxWaiting = 1
SPECIFICATION FairSpec
INVARIANT PendingAreWaiting
PROPERTY AnswersAreHonest
PROPERTY EveryCallAnswered
CHECK_DEADLOCK FALSE
