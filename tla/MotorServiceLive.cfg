\* A client with two ids against the feedback task, for ever: the clock stands
\* (fairness needs no time), the revision is not looked at.
CONSTANTS
    mqtt = mqtt
    button = button
    sampler = sampler
    owner = owner
    id1 = id1
    id2 = id2
    NoTask = NoTask
    NoId = NoId
    RemoteTasks = {mqtt}
    LocalTasks = {}
    FeedbackTasks = {sampler}
    OwnerTasks = {}
    Ids = {id1, id2}
    Ttls = {1}
    Capacity = 1
    PositionMax = 1
    MaxSteps = 1
    Overrun = 1
    MaxTime = 0
    StaleAfter = 1
    QueueDepth = 2
    RevisionModulus = 1
    TimeLimit = 9
SPECIFICATION FairSpec
PROPERTY EveryCallAnswered
PROPERTY Settles
