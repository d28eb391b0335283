---------------------------- MODULE MotorService ----------------------------
(***************************************************************************)
(* MotorService (firmware/main/components/service): one worker task owns   *)
(* the motor and its canonical state.  Every other task that wants         *)
(* something of it builds a request on its own stack, puts a pointer to it *)
(* into a FreeRTOS queue and blocks on the request's semaphore until the   *)
(* worker has processed it:                                                *)
(*   - the MQTT task submits remote commands (MotorMqttAdapter),           *)
(*   - the reset button's task submits a local stop (main.cpp),            *)
(*   - the feedback task submits position readings (MotorFeedbackInput),   *)
(*   - the destructor submits a shutdown.                                  *)
(* A task stamps its request with the time BEFORE it queues it.            *)
(***************************************************************************)
EXTENDS DeviceCommon, StepperMotor, Sequences, FiniteSets

CONSTANTS
    RemoteTasks, LocalTasks, FeedbackTasks, OwnerTasks,  \* the calling tasks
    NoTask,           \* the worker is not processing a request
    Ids,              \* command ids remote clients choose from
    Ttls,             \* values of ttlMs they choose from
    StaleAfter,       \* config_.feedback_stale_after_ms
    QueueDepth,       \* kRequestQueueDepth
    RevisionModulus,  \* revision is a uint64_t: it wraps at this value
    MaxTime           \* bound: the clock stops here, the tasks go on

Tasks == RemoteTasks \cup LocalTasks \cup FeedbackTasks \cup OwnerTasks

ASSUME TasksAssumption == NoTask \notin Tasks /\ IsFiniteSet(Tasks)
ASSUME IdsAssumption == NoId \notin Ids
ASSUME TtlsAssumption == Ttls \subseteq Nat \ {0}
ASSUME StaleAfterAssumption == StaleAfter \in Nat \ {0}
ASSUME QueueDepthAssumption == QueueDepth \in Nat \ {0}
ASSUME RevisionAssumption == RevisionModulus \in Nat \ {0}
ASSUME MaxTimeAssumption == MaxTime \in Nat

VARIABLES
    now,        \* esp_timer_get_time() / 1000
    lifecycle,  \* task_: null unless "running" or "stopping"
    phase,      \* where each calling task is in dispatch()
    request,    \* the Request on each calling task's stack, while it is there
    result,     \* Request::result: what its last dispatch() leaves there
    queue,      \* request_queue_: pointers, here the tasks whose request it is
    worker,     \* the request the worker has taken from the queue
    feedback,   \* feedback_: the last processed reading
    state,      \* state_: the canonical state
    cache,      \* deduplicator_
    motor       \* motor_, and the mechanism behind it

vars == <<now, lifecycle, phase, request, result, queue, worker,
          feedback, state, cache, motor>>

(***************************************************************************)
(* Data                                                                    *)
(***************************************************************************)

Lifecycles == {"created", "running", "stopping", "stopped", "destroyed"}

Phases == {"idle", "sending", "waiting"}

\* received_at_ms is taken with the stamp (mqtt_adapter.cpp:168) and is 0 for
\* a local command.
Commands == [kind : {"command"}, remote : BOOLEAN, action : Actions,
             position : 0..PositionMax, id : Ids \cup {NoId}, ttl : Nat,
             receivedAt : Nat, stamp : Nat]

Readings == [kind : {"feedback"}, valid : BOOLEAN, position : 0..PositionMax,
             stamp : Nat]

Shutdown == [kind |-> "shutdown"]

NoRequest == [kind |-> "none"]

Requests == Commands \cup Readings \cup {Shutdown, NoRequest}

NoReading == [kind |-> "feedback", valid |-> FALSE, position |-> 0, stamp |-> 0]

Results == {"accepted", "invalid_command", "duplicate_command",
            "feedback_unavailable", "hardware_rejected"}

Errors == {"feedback_unavailable", "position_unknown", "hardware_rejected"}

MainStates == {"unknown", "idle", "opening", "closing", "stopping", "fault"}

InitialState == [main |-> "unknown", current |-> 0, target |-> 0, errors |-> {},
                 valid |-> FALSE, revision |-> 0]

\* The revision after n increments.
Revised(revision, n) == (revision + n) % RevisionModulus

ToSteps(position) == PositionToSteps(position, 0, MaxSteps)

Init ==
    /\ now = 0
    /\ lifecycle = "created"
    /\ phase = [task \in Tasks |-> "idle"]
    /\ request = [task \in Tasks |-> NoRequest]
    /\ result = [task \in Tasks |-> "hardware_rejected"]
    /\ queue = <<>>
    /\ worker = NoTask
    /\ feedback = NoReading
    /\ state = InitialState
    /\ cache = EmptyCache
    /\ motor = MotorAtOrigin

(***************************************************************************)
(* The calling tasks                                                       *)
(***************************************************************************)

\* begin() succeeds; a failing begin() leaves no worker and app_main returns.
Begin ==
    /\ lifecycle = "created"
    /\ lifecycle' = "running"
    /\ state' = InitialState
    /\ UNCHANGED <<now, phase, request, result, queue, worker, feedback, cache, motor>>

\* dispatch() up to xQueueSend: without a worker the call fails at once.
Dispatch(task, req) ==
    /\ phase[task] = "idle"
    /\ IF lifecycle \in {"running", "stopping"}
       THEN /\ phase' = [phase EXCEPT ![task] = "sending"]
            /\ request' = [request EXCEPT ![task] = req]
       ELSE UNCHANGED <<phase, request>>
    /\ result' = [result EXCEPT ![task] = "hardware_rejected"]
    /\ UNCHANGED <<now, lifecycle, queue, worker, feedback, state, cache, motor>>

\* MotorMqttAdapter::handleCommand stamps a parsed command and submits it.
HandleCommand(task) ==
    \E action \in Actions, position \in 0..PositionMax, id \in Ids, ttl \in Ttls :
        /\ action # "set_position" => position = 0
        /\ Dispatch(task, [kind |-> "command", remote |-> TRUE, action |-> action,
                           position |-> position, id |-> id, ttl |-> ttl,
                           receivedAt |-> now, stamp |-> now])

\* stopForProvisioningReset submits a local stop, stamped 0.
StopForReset(task) ==
    Dispatch(task, [kind |-> "command", remote |-> FALSE, action |-> "stop",
                    position |-> 0, id |-> NoId, ttl |-> 0,
                    receivedAt |-> 0, stamp |-> 0])

\* MotorFeedbackInput::publish stamps the pulse position and submits it.
Publish(task) ==
    LET valid == StepsInRange(motor.position, 0, MaxSteps) IN
    Dispatch(task, [kind |-> "feedback", valid |-> valid,
                    position |-> IF valid
                                 THEN StepsToPosition(motor.position, 0, MaxSteps)
                                 ELSE 0,
                    stamp |-> now])

\* ~MotorService posts a shutdown, if there is a worker.
Destroy(task) == lifecycle \in {"running", "stopping"} /\ Dispatch(task, Shutdown)

\* Mutants of Enqueue: the caller does not wait for its semaphore; the request
\* overtakes those in the queue.
EnqueueWithoutWaiting(task) ==
    /\ phase[task] = "sending" /\ lifecycle # "destroyed"
    /\ Len(queue) < QueueDepth
    /\ queue' = Append(queue, task)
    /\ phase' = [phase EXCEPT ![task] = "idle"]
    /\ UNCHANGED <<now, lifecycle, request, result, worker, feedback, state, cache, motor>>

EnqueueToFront(task) ==
    /\ phase[task] = "sending" /\ lifecycle # "destroyed"
    /\ Len(queue) < QueueDepth
    /\ queue' = <<task>> \o queue
    /\ phase' = [phase EXCEPT ![task] = "waiting"]
    /\ UNCHANGED <<now, lifecycle, request, result, worker, feedback, state, cache, motor>>

\* xQueueSend: blocks while the queue is full.
Enqueue(task) ==
    /\ phase[task] = "sending" /\ lifecycle # "destroyed"
    /\ Len(queue) < QueueDepth
    /\ queue' = Append(queue, task)
    /\ phase' = [phase EXCEPT ![task] = "waiting"]
    /\ UNCHANGED <<now, lifecycle, request, result, worker, feedback, state, cache, motor>>

(***************************************************************************)
(* The worker task                                                         *)
(***************************************************************************)

Take ==
    /\ lifecycle = "running"
    /\ worker = NoTask
    /\ queue # <<>>
    /\ worker' = Head(queue)
    /\ queue' = Tail(queue)
    /\ UNCHANGED <<now, lifecycle, phase, request, result, feedback, state, cache, motor>>

\* Mutant of Complete: the semaphore is not given.
CompleteSilently(answer) ==
    /\ result' = [result EXCEPT ![worker] = answer]
    /\ worker' = NoTask
    /\ UNCHANGED <<now, phase, request, queue>>

\* The worker leaves its answer in the request (a reading and a shutdown have
\* none: the result stays what dispatch() put there) and gives the semaphore:
\* the caller's dispatch() returns, and the request leaves the caller's stack.
Complete(answer) ==
    /\ result' = [result EXCEPT ![worker] = answer]
    /\ phase' = [phase EXCEPT ![worker] = "idle"]
    /\ request' = [request EXCEPT ![worker] = NoRequest]
    /\ worker' = NoTask
    /\ UNCHANGED <<now, queue>>

\* The request the worker has taken.
Taken == request[worker]

Processing(kind) == worker # NoTask /\ Taken.kind = kind

\* positionFeedbackAvailable(now_ms), with the stamp of the request.
FeedbackAvailable(stamp) ==
    /\ feedback.valid
    /\ stamp >= feedback.stamp
    /\ stamp - feedback.stamp <= StaleAfter

Passes(cmd) == ValidCommand(cmd, cmd.stamp, cmd.remote)

Unseen(cmd) == cmd.remote => Accepts(cache, cmd.id, cmd.stamp, cmd.ttl)

Remember(cmd) ==
    cache' = IF cmd.remote THEN AfterAccept(cache, cmd.id, cmd.stamp, cmd.ttl)
             ELSE cache

\* The MQTT task parses a command before it submits it, so an invalid one can
\* only be an expired one; the deduplicator sees the others.
RefuseCommand ==
    /\ Processing("command")
    /\ ~(Passes(Taken) /\ Unseen(Taken))
    /\ IF Passes(Taken)
       THEN Remember(Taken) /\ Complete("duplicate_command")
       ELSE UNCHANGED cache /\ Complete("invalid_command")
    /\ UNCHANGED <<lifecycle, feedback, state, motor>>

\* The command is valid, not a duplicate, and remembered.
Admit == Processing("command") /\ Passes(Taken) /\ Unseen(Taken) /\ Remember(Taken)

\* Mutant of StopMotor: the revision stays.
StopMotorUnrevised ==
    /\ Admit
    /\ Taken.action = "stop"
    /\ motor' = StopMove(motor)
    /\ state' = [state EXCEPT !.main = "stopping"]
    /\ Complete("accepted")
    /\ UNCHANGED <<lifecycle, feedback>>

StopMotor ==
    /\ Admit
    /\ Taken.action = "stop"
    /\ motor' = StopMove(motor)
    /\ state' = [state EXCEPT !.main = "stopping", !.revision = Revised(@, 1)]
    /\ Complete("accepted")
    /\ UNCHANGED <<lifecycle, feedback>>

RefuseWithoutFeedback ==
    /\ Admit
    /\ Taken.action # "stop"
    /\ ~FeedbackAvailable(Taken.stamp)
    /\ state' = [state EXCEPT !.errors = @ \cup {"feedback_unavailable"},
                              !.main = "fault", !.revision = Revised(@, 1)]
    /\ Complete("feedback_unavailable")
    /\ UNCHANGED <<lifecycle, feedback, motor>>

TargetOf(cmd) ==
    CASE cmd.action = "open"  -> PositionMax
      [] cmd.action = "close" -> 0
      [] OTHER                -> cmd.position

MotionTo(position) ==
    IF position > feedback.position THEN "opening"
    ELSE IF position < feedback.position THEN "closing" ELSE "idle"

StartMove ==
    /\ Admit
    /\ Taken.action # "stop"
    /\ FeedbackAvailable(Taken.stamp)
    /\ motor' = MoveTo(motor, ToSteps(TargetOf(Taken)))
    /\ state' = [state EXCEPT !.target = TargetOf(Taken),
                              !.main = MotionTo(TargetOf(Taken)),
                              !.revision = Revised(@, 1)]
    /\ Complete("accepted")
    /\ UNCHANGED <<lifecycle, feedback>>

\* Mutant of RefuseMove: the state is updated before the library is asked.
RefuseMoveTooLate ==
    /\ Admit
    /\ Taken.action # "stop"
    /\ FeedbackAvailable(Taken.stamp)
    /\ state' = [state EXCEPT !.target = TargetOf(Taken),
                              !.main = MotionTo(TargetOf(Taken)),
                              !.revision = Revised(@, 1)]
    /\ Complete("hardware_rejected")
    /\ UNCHANGED <<lifecycle, feedback, motor>>

\* The library rejects the target: set_position reports the error in the
\* state, open and close only answer the caller.
RefuseMove ==
    /\ Admit
    /\ Taken.action # "stop"
    /\ FeedbackAvailable(Taken.stamp)
    /\ state' = IF Taken.action = "set_position"
                THEN [state EXCEPT !.errors = @ \cup {"hardware_rejected"},
                                   !.main = "fault", !.revision = Revised(@, 2)]
                ELSE [state EXCEPT !.revision = Revised(@, 1)]
    /\ Complete("hardware_rejected")
    /\ UNCHANGED <<lifecycle, feedback, motor>>

\* Mutant of MainAfter: only an opening motor arrives.
MainAfterOpening(reading) ==
    IF ~reading.valid THEN "unknown"
    ELSE IF reading.position = state.target /\ state.main \in {"opening", "unknown"}
         THEN "idle"
         ELSE state.main

\* processFeedback's new main state.
MainAfter(reading) ==
    IF ~reading.valid THEN "unknown"
    ELSE IF /\ reading.position = state.target
            /\ state.main \in {"opening", "closing", "unknown"}
         THEN "idle"
         ELSE state.main

ApplyFeedback ==
    /\ Processing("feedback")
    /\ feedback' = Taken
    /\ state' = [state EXCEPT
           !.valid = Taken.valid,
           !.current = IF Taken.valid THEN Taken.position ELSE @,
           !.errors = IF Taken.valid
                      THEN @ \ {"feedback_unavailable", "position_unknown"} ELSE @,
           !.main = MainAfter(Taken),
           !.revision = Revised(@, 1)]
    /\ Complete(result[worker])
    /\ UNCHANGED <<lifecycle, cache, motor>>

\* Mutant of StopWorker: the motor is not stopped.
StopWorkerOnly ==
    /\ Processing("shutdown")
    /\ lifecycle' = "stopping"
    /\ Complete(result[worker])
    /\ UNCHANGED <<feedback, state, cache, motor>>

\* The worker stops the motor and leaves its loop; the state is not touched.
StopWorker ==
    /\ Processing("shutdown")
    /\ motor' = StopMove(motor)
    /\ lifecycle' = "stopping"
    /\ Complete(result[worker])
    /\ UNCHANGED <<feedback, state, cache>>

Serve ==
    \/ RefuseCommand \/ StopMotor \/ RefuseWithoutFeedback
    \/ StartMove \/ RefuseMove \/ ApplyFeedback \/ StopWorker

\* task_ = nullptr: from here on dispatch() fails at once.
WorkerExits ==
    /\ lifecycle = "stopping"
    /\ lifecycle' = "stopped"
    /\ UNCHANGED <<now, phase, request, result, queue, worker, feedback,
                   state, cache, motor>>

\* ~MotorService, whose dispatch() has returned, waits for that and deletes the
\* queue.  A caller still inside its own dispatch() is blocked on freed memory:
\* the model leaves it where it is.
DeleteQueue ==
    /\ lifecycle = "stopped"
    /\ \E task \in OwnerTasks : phase[task] = "idle"
    /\ lifecycle' = "destroyed"
    /\ UNCHANGED <<now, phase, request, result, queue, worker, feedback, state,
                   cache, motor>>

(***************************************************************************)
(* The environment                                                         *)
(***************************************************************************)

Tick ==
    /\ now < MaxTime
    /\ now' = now + 1
    /\ UNCHANGED <<lifecycle, phase, request, result, queue, worker,
                   feedback, state, cache, motor>>

MotorTurns ==
    /\ motor.heading # Wanted(motor)
    /\ motor' = Turned(motor)
    /\ UNCHANGED <<now, lifecycle, phase, request, result, queue, worker,
                   feedback, state, cache>>

MotorPulses ==
    /\ Pulsing(motor)
    /\ motor' = Pulsed(motor)
    /\ UNCHANGED <<now, lifecycle, phase, request, result, queue, worker,
                   feedback, state, cache>>

Next ==
    \/ Begin
    \/ \E task \in RemoteTasks : HandleCommand(task)
    \/ \E task \in LocalTasks : StopForReset(task)
    \/ \E task \in FeedbackTasks : Publish(task)
    \/ \E task \in OwnerTasks : Destroy(task)
    \/ \E task \in Tasks : Enqueue(task)
    \/ Take
    \/ Serve
    \/ WorkerExits \/ DeleteQueue
    \/ Tick
    \/ MotorTurns
    \/ MotorPulses

Spec == Init /\ [][Next]_vars

\* The scheduler runs every ready task: the worker never leaves a request in
\* the queue, a sender gets into a queue with room, the feedback task samples
\* for ever, and the stepper library carries a move out.  Nothing obliges a
\* remote client or a user at the button to ask for anything.
Fairness ==
    /\ WF_vars(Take) /\ WF_vars(Serve)
    /\ \A task \in Tasks : WF_vars(Enqueue(task))
    /\ \A task \in FeedbackTasks : WF_vars(Publish(task))
    /\ WF_vars(MotorTurns) /\ WF_vars(MotorPulses)

FairSpec == Spec /\ Fairness

(***************************************************************************)
(* Properties                                                              *)
(***************************************************************************)

Caches == [entries : [Slots -> [id : Ids \cup {NoId}, expiresAt : Nat]], next : Slots]

States == [main : MainStates, current : 0..PositionMax, target : 0..PositionMax,
           errors : SUBSET Errors, valid : BOOLEAN, revision : 0..RevisionModulus-1]

TypeOK ==
    /\ now \in Nat
    /\ lifecycle \in Lifecycles
    /\ phase \in [Tasks -> Phases]
    /\ request \in [Tasks -> Requests]
    /\ result \in [Tasks -> Results]
    /\ queue \in Seq(Tasks)
    /\ worker \in Tasks \cup {NoTask}
    /\ feedback \in Readings
    /\ state \in States
    /\ cache \in Caches
    /\ motor \in Motors

Queued(task) == \E i \in DOMAIN queue : queue[i] = task

\* A pointer to a request is in one place at most: once in the queue or with
\* the worker, and only while the caller that owns the memory is blocked on
\* it.  A caller that waits is in one of the two places: none is forgotten,
\* none is answered twice.
RequestsOwned ==
    /\ \A task \in Tasks :
          /\ phase[task] = "waiting" <=> (worker = task \/ Queued(task))
          /\ phase[task] = "idle" <=> request[task] = NoRequest
          /\ ~(worker = task /\ Queued(task))
    /\ \A i, j \in DOMAIN queue : queue[i] = queue[j] => i = j
    /\ Len(queue) <= QueueDepth

\* The admitted calls: the one the worker has taken, then the queue.
Order == (IF worker = NoTask THEN <<>> ELSE <<worker>>) \o queue

Server == INSTANCE RequestServer WITH order <- Order

\* Callers see a server that answers each call once, in the order in which the
\* calls entered the queue.
ServesInOrder == Server!Spec

\* firmware/main/README.md:13: commands "use bounded absolute targets in
\* 0..CONFIG_MOTOR_FULL_TRAVEL_STEPS".
GoalWithinTravel == motor.seeking => motor.goal \in 0..MaxSteps

\* While the service runs, what the canonical state says of the motion is what
\* the motor was last told, whatever was refused, rejected or read since:
\* opening and closing mean it is seeking the reported target, stopping means
\* it is not seeking any.
StatusTellsMotion ==
    lifecycle = "running" =>
        /\ motor.seeking => motor.goal = ToSteps(state.target)
        /\ state.main \in {"opening", "closing"} => motor.seeking
        /\ state.main = "stopping" => ~motor.seeking

\* A reading taken of the motor at rest on its goal is the target the state
\* reports, whatever was refused meanwhile and however both were rounded: the
\* equality test of processFeedback can succeed, provided the travel has at
\* least PositionMax steps.
ArrivalRecognised ==
    lifecycle = "running" /\ motor.seeking /\ motor.position = motor.goal
        /\ MaxSteps >= PositionMax
        => StepsToPosition(motor.position, 0, MaxSteps) = state.target

\* After the worker left its loop nothing sets the motor in motion again.
AtRestAfterShutdown == lifecycle \in {"stopping", "stopped", "destroyed"} => ~motor.seeking

\* The state never changes without its revision: MotorMqttAdapter::report
\* relies on it when it skips a state whose revision it has reported.  (No
\* step adds more than 2 to a revision, so any modulus above 2 will do.)
RevisionTracksState == [][state' # state => state'.revision # state.revision]_vars

\* Every call of submit() or updateFeedback() returns, unless the service is
\* shut down meanwhile.
EveryCallAnswered ==
    \A task \in Tasks :
        phase[task] # "idle" ~> (phase[task] = "idle" \/ lifecycle # "running")

\* No task but the feedback task calls the service any more.
Calm == <>[](\A task \in Tasks \ FeedbackTasks : phase[task] = "idle")

\* Left alone, the motor comes to rest and the state says so: no move is
\* reported as going on for ever, and a motor that was not stopped is reported
\* to be where it was sent, provided the travel has at least PositionMax steps.
Settles ==
    Calm => <>[](/\ motor.heading = 0
                 /\ state.main \notin {"opening", "closing"}
                 /\ motor.seeking => state.current = state.target)
=============================================================================
