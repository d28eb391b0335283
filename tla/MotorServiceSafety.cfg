\* A client, the feedback task, and a third that stands for the button's task and
\* for the owner: a queue of two fills, senders block, the destructor's shutdown
\* overtakes or follows the others.  One id and one cache entry are enough to
\* refuse a duplicate; three revisions wrap; the motor may coast one step past
\* either end, so that readings can be invalid.  The system stops for good once
\* the worker has left its loop with callers still blocked.
CONSTANTS
    mqtt = mqtt
    button = button
    sampler = sampler
    owner = owner
    id1 = id1
    id2 = id2
    NoTask = NoTask
    NoId = NoId
    RemoteTasks = {mqtt}
    LocalTasks = {owner}
    FeedbackTasks = {sampler}
    OwnerTasks = {owner}
    Ids = {id1}
    Ttls = {1}
    Capacity = 1
    PositionMax = 1
    MaxSteps = 1
    Overrun = 1
    MaxTime = 1
    StaleAfter = 1
    QueueDepth = 2
    RevisionModulus = 3
    TimeLimit = 9
SPECIFICATION Spec
INVARIANT RequestsOwned
INVARIANT AtRestAfterShutdown
INVARIANT GoalWithinTravel
INVARIANT StatusTellsMotion
PROPERTY ServesInOrder
PROPERTY RevisionTracksState
CHECK_DEADLOCK FALSE
