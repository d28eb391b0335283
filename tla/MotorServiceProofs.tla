------------------------- MODULE MotorServiceProofs -------------------------
(***************************************************************************)
(* Proofs about MotorService for any number of calling tasks, any queue    *)
(* depth, any travel and any capacity of the command id cache.             *)
(***************************************************************************)
EXTENDS MotorService, TLAPS

\* The mapping between positions and steps at this motor's travel.
Mapping == INSTANCE PositionMappingProofs
           WITH MaxTravel <- MaxSteps, travel <- MaxSteps,
                position <- 0, steps <- motor.position

\* Its facts, about the operators this module sees.
LEMMA StepsFitTravel ==
    ASSUME NEW p \in 0..PositionMax
    PROVE  PositionToSteps(p, 0, MaxSteps) \in 0..MaxSteps
<1>1. Mapping!PositionToSteps(p, 0, MaxSteps) \in 0..MaxSteps
  BY PositionMaxAssumption, CapacityAssumption, TimeLimitAssumption, MaxStepsAssumption,
     Mapping!StepsWithinTravel
<1>2. PositionToSteps(p, 0, MaxSteps) = Mapping!PositionToSteps(p, 0, MaxSteps)
  BY Zenon DEF PositionToSteps, Rounded, Mapping!PositionToSteps, Mapping!Rounded
<1> QED  BY <1>1, <1>2

LEMMA PositionsReturn ==
    ASSUME NEW p \in 0..PositionMax, MaxSteps >= PositionMax
    PROVE  StepsToPosition(PositionToSteps(p, 0, MaxSteps), 0, MaxSteps) = p
<1>1. PositionMax <= MaxSteps - 0
  BY PositionMaxAssumption, MaxStepsAssumption
<1>2. Mapping!StepsToPosition(Mapping!PositionToSteps(p, 0, MaxSteps), 0, MaxSteps) = p
  BY <1>1, PositionMaxAssumption, CapacityAssumption, TimeLimitAssumption,
     MaxStepsAssumption, Mapping!PositionsSurvive
<1>3. StepsToPosition(PositionToSteps(p, 0, MaxSteps), 0, MaxSteps)
         = Mapping!StepsToPosition(Mapping!PositionToSteps(p, 0, MaxSteps), 0, MaxSteps)
  BY Zenon DEF PositionToSteps, StepsToPosition, Rounded, Mapping!PositionToSteps,
               Mapping!StepsToPosition, Mapping!Rounded
<1> QED  BY <1>2, <1>3

LEMMA PositionsFit ==
    ASSUME NEW s \in 0..MaxSteps
    PROVE  StepsToPosition(s, 0, MaxSteps) \in 0..PositionMax
<1>1. Mapping!StepsToPosition(s, 0, MaxSteps) \in 0..PositionMax
  BY PositionMaxAssumption, CapacityAssumption, TimeLimitAssumption, MaxStepsAssumption,
     Mapping!PositionsValid
<1>2. StepsToPosition(s, 0, MaxSteps) = Mapping!StepsToPosition(s, 0, MaxSteps)
  BY Zenon DEF StepsToPosition, Rounded, Mapping!StepsToPosition, Mapping!Rounded
<1> QED  BY <1>1, <1>2

(***************************************************************************)
(* The types of what the actions compute                                   *)
(***************************************************************************)

\* accept leaves a well-formed cache, whatever it answers.
LEMMA CacheType ==
    ASSUME NEW c \in Caches, NEW id \in Ids \cup {NoId}, NEW time \in Nat, NEW ttl \in Nat
    PROVE  AfterAccept(c, id, time, ttl) \in Caches
<1>1. Swept(c, id, time) \in [Slots -> [id : Ids \cup {NoId}, expiresAt : Nat]]
  BY DEF Swept, Free, Caches
<1>2. c.next \in Slots /\ NextSlot(c.next) \in Slots
  BY CapacityAssumption DEF Caches, Slots, NextSlot
<1>3. time + ttl \in Nat
  OBVIOUS
<1> QED
  BY <1>1, <1>2, <1>3 DEF AfterAccept, Caches

LEMMA RevisionType ==
    ASSUME NEW r \in 0..RevisionModulus-1, NEW n \in Nat
    PROVE  Revised(r, n) \in 0..RevisionModulus-1
BY RevisionAssumption DEF Revised

LEMMA TargetType ==
    ASSUME NEW cmd \in Commands
    PROVE  /\ TargetOf(cmd) \in 0..PositionMax
           /\ ToSteps(TargetOf(cmd)) \in 0..MaxSteps
<1>1. TargetOf(cmd) \in 0..PositionMax
  BY PositionMaxAssumption DEF TargetOf, Commands
<1> QED
  BY <1>1, StepsFitTravel DEF ToSteps

LEMMA MotorTypes ==
    ASSUME NEW m \in Motors
    PROVE  /\ \A steps \in Int : MoveTo(m, steps) \in Motors
           /\ StopMove(m) \in Motors
           /\ Turned(m) \in Motors
           /\ Pulsing(m) => Pulsed(m) \in Motors
<1>1. Wanted(m) \in {-1, 0, 1}
  BY DEF Wanted
<1>2. Pulsing(m) => Pulsed(m) \in Motors
  BY DEF Pulsing, Pulsed, Motors
<1> QED
  BY <1>1, <1>2 DEF Motors, MoveTo, StopMove, Turned

LEMMA TakenCommand ==
    TypeOK /\ Processing("command") => worker \in Tasks /\ Taken \in Commands
BY DEF TypeOK, Processing, Taken, Requests, Readings, Shutdown, NoRequest

LEMMA TakenReading ==
    TypeOK /\ Processing("feedback") => worker \in Tasks /\ Taken \in Readings
BY DEF TypeOK, Processing, Taken, Requests, Commands, Shutdown, NoRequest

LEMMA CompleteTypes ==
    ASSUME TypeOK, worker # NoTask, NEW answer \in Results, Complete(answer)
    PROVE  /\ now' \in Nat
           /\ phase' \in [Tasks -> Phases]
           /\ request' \in [Tasks -> Requests]
           /\ result' \in [Tasks -> Results]
           /\ queue' \in Seq(Tasks)
           /\ worker' \in Tasks \cup {NoTask}
BY DEF TypeOK, Complete, Phases, Requests

LEMMA DispatchTypes ==
    ASSUME TypeOK, NEW task \in Tasks, NEW req \in Requests, Dispatch(task, req)
    PROVE  TypeOK'
BY DEF TypeOK, Dispatch, Phases, Results

LEMMA TypeInit == Init => TypeOK
<1> SUFFICES ASSUME Init PROVE TypeOK
  OBVIOUS
<1>1. cache \in Caches
  BY CapacityAssumption DEF Init, EmptyCache, Caches, Slots, Free
<1>2. motor \in Motors
  BY OverrunAssumption, MaxStepsAssumption DEF Init, MotorAtOrigin, Motors, Reachable
<1>3. feedback \in Readings /\ state \in States
  BY PositionMaxAssumption, RevisionAssumption
     DEF Init, NoReading, Readings, InitialState, States, MainStates
<1>4. /\ phase \in [Tasks -> Phases]
      /\ request \in [Tasks -> Requests]
      /\ result \in [Tasks -> Results]
  BY DEF Init, Phases, Requests, Results
<1> QED
  BY <1>1, <1>2, <1>3, <1>4 DEF Init, TypeOK, Lifecycles

\* What every step of the worker on a request adds to a well-typed state.
LEMMA ServedTypes ==
    ASSUME TypeOK, worker # NoTask, NEW answer \in Results, Complete(answer),
           lifecycle' \in Lifecycles, feedback' \in Readings, state' \in States,
           cache' \in Caches, motor' \in Motors
    PROVE  TypeOK'
BY CompleteTypes DEF TypeOK

\* The cache after a command went through the deduplicator.
LEMMA RememberType ==
    ASSUME TypeOK, Processing("command"), Remember(Taken)
    PROVE  cache' \in Caches
<1>1. /\ Taken.id \in Ids \cup {NoId} /\ Taken.stamp \in Nat /\ Taken.ttl \in Nat
  BY TakenCommand DEF Commands
<1>2. cache \in Caches
  BY DEF TypeOK
<1> QED
  BY <1>1, <1>2, CacheType DEF Remember

LEMMA CommandTypes ==
    ASSUME TypeOK, RefuseCommand \/ StopMotor \/ RefuseWithoutFeedback \/ StartMove
                   \/ RefuseMove
    PROVE  TypeOK'
<1>1. /\ worker # NoTask /\ worker \in Tasks /\ Taken \in Commands
      /\ Processing("command")
  BY TakenCommand
     DEF Processing, RefuseCommand, StopMotor, RefuseWithoutFeedback, StartMove,
         RefuseMove, Admit
<1>2. /\ lifecycle \in Lifecycles /\ feedback \in Readings /\ state \in States
      /\ cache \in Caches /\ motor \in Motors
  BY DEF TypeOK
<1>3. /\ TargetOf(Taken) \in 0..PositionMax
      /\ ToSteps(TargetOf(Taken)) \in Int
      /\ MotionTo(TargetOf(Taken)) \in MainStates
  BY <1>1, TargetType, MaxStepsAssumption DEF MotionTo, MainStates
<1>4. \A n \in {1, 2} : Revised(state.revision, n) \in 0..RevisionModulus-1
  BY <1>2, RevisionType DEF States
<1>5. CASE RefuseCommand
  <2>1. PICK answer \in Results : Complete(answer)
    BY <1>5 DEF RefuseCommand, Results
  <2>2. cache' \in Caches
    BY <1>1, <1>2, <1>5, RememberType DEF RefuseCommand
  <2> QED
    BY <1>1, <1>2, <1>5, <2>1, <2>2, ServedTypes DEF RefuseCommand
<1>6. CASE StopMotor
  <2>1. /\ Complete("accepted") /\ Remember(Taken) /\ motor' = StopMove(motor)
        /\ state' = [state EXCEPT !.main = "stopping", !.revision = Revised(@, 1)]
        /\ lifecycle' = lifecycle /\ feedback' = feedback
    BY <1>6 DEF StopMotor, Admit
  <2>2. state' \in States
    BY <1>2, <1>4, <2>1 DEF States, MainStates
  <2>3. cache' \in Caches /\ motor' \in Motors /\ "accepted" \in Results
    BY <1>1, <1>2, <2>1, RememberType, MotorTypes DEF Results
  <2> QED
    BY <1>1, <1>2, <2>1, <2>2, <2>3, ServedTypes
<1>7. CASE RefuseWithoutFeedback
  <2>1. /\ Complete("feedback_unavailable") /\ Remember(Taken)
        /\ state' = [state EXCEPT !.errors = @ \cup {"feedback_unavailable"},
                                  !.main = "fault", !.revision = Revised(@, 1)]
        /\ lifecycle' = lifecycle /\ feedback' = feedback /\ motor' = motor
    BY <1>7 DEF RefuseWithoutFeedback, Admit
  <2>2. state' \in States
    BY <1>2, <1>4, <2>1 DEF States, MainStates, Errors
  <2>3. cache' \in Caches /\ "feedback_unavailable" \in Results
    BY <1>1, <1>2, <2>1, RememberType DEF Results
  <2> QED
    BY <1>1, <1>2, <2>1, <2>2, <2>3, ServedTypes
<1>8. CASE StartMove
  <2>1. /\ Complete("accepted") /\ Remember(Taken)
        /\ motor' = MoveTo(motor, ToSteps(TargetOf(Taken)))
        /\ state' = [state EXCEPT !.target = TargetOf(Taken),
                                  !.main = MotionTo(TargetOf(Taken)),
                                  !.revision = Revised(@, 1)]
        /\ lifecycle' = lifecycle /\ feedback' = feedback
    BY <1>8 DEF StartMove, Admit
  <2>2. state' \in States
    BY <1>2, <1>3, <1>4, <2>1 DEF States
  <2>3. cache' \in Caches /\ motor' \in Motors /\ "accepted" \in Results
    BY <1>1, <1>2, <1>3, <2>1, RememberType, MotorTypes DEF Results
  <2> QED
    BY <1>1, <1>2, <2>1, <2>2, <2>3, ServedTypes
<1>9. CASE RefuseMove
  <2>1. /\ Complete("hardware_rejected") /\ Remember(Taken)
        /\ \/ state' = [state EXCEPT !.errors = @ \cup {"hardware_rejected"},
                                     !.main = "fault", !.revision = Revised(@, 2)]
           \/ state' = [state EXCEPT !.revision = Revised(@, 1)]
        /\ lifecycle' = lifecycle /\ feedback' = feedback /\ motor' = motor
    BY <1>9 DEF RefuseMove, Admit
  <2>2. state' \in States
    BY <1>2, <1>4, <2>1 DEF States, MainStates, Errors
  <2>3. cache' \in Caches /\ "hardware_rejected" \in Results
    BY <1>1, <1>2, <2>1, RememberType DEF Results
  <2> QED
    BY <1>1, <1>2, <2>1, <2>2, <2>3, ServedTypes
<1> QED
  BY <1>5, <1>6, <1>7, <1>8, <1>9

LEMMA ReadingTypes == TypeOK /\ ApplyFeedback => TypeOK'
<1> SUFFICES ASSUME TypeOK, ApplyFeedback PROVE TypeOK'
  OBVIOUS
<1>1. /\ worker # NoTask /\ Taken \in Readings /\ state \in States
      /\ cache' = cache /\ motor' = motor /\ lifecycle' = lifecycle
      /\ feedback' = Taken /\ Complete(result[worker])
      /\ result[worker] \in Results
  BY TakenReading DEF ApplyFeedback, Processing, TypeOK, Results
<1>2. MainAfter(Taken) \in MainStates
  BY <1>1 DEF MainAfter, MainStates, States
<1>3. Revised(state.revision, 1) \in 0..RevisionModulus-1
  BY <1>1, RevisionType DEF States
<1>4. state' \in States
  BY <1>1, <1>2, <1>3 DEF ApplyFeedback, States, Readings
<1> QED
  BY <1>1, <1>4, ServedTypes DEF TypeOK

LEMMA ShutdownTypes == TypeOK /\ StopWorker => TypeOK'
<1> SUFFICES ASSUME TypeOK, StopWorker PROVE TypeOK'
  OBVIOUS
<1>1. /\ worker # NoTask /\ motor' \in Motors /\ lifecycle' \in Lifecycles
      /\ result[worker] \in Results
  BY MotorTypes DEF StopWorker, Processing, TypeOK, Lifecycles
<1> QED
  BY <1>1, ServedTypes DEF StopWorker, Processing, TypeOK

\* Every task's request is one of the four kinds.
LEMMA CallTypes ==
    ASSUME TypeOK, NEW task \in Tasks,
           HandleCommand(task) \/ StopForReset(task) \/ Publish(task) \/ Destroy(task)
    PROVE  TypeOK'
<1>1. CASE HandleCommand(task)
  <2>1. PICK action \in Actions, position \in 0..PositionMax, id \in Ids, ttl \in Ttls :
          Dispatch(task, [kind |-> "command", remote |-> TRUE, action |-> action,
                          position |-> position, id |-> id, ttl |-> ttl,
                          receivedAt |-> now, stamp |-> now])
    BY <1>1 DEF HandleCommand
  <2>2. [kind |-> "command", remote |-> TRUE, action |-> action,
         position |-> position, id |-> id, ttl |-> ttl,
         receivedAt |-> now, stamp |-> now] \in Requests
    BY TtlsAssumption DEF Requests, Commands, TypeOK
  <2> QED
    BY <2>1, <2>2, DispatchTypes
<1>2. CASE StopForReset(task)
  <2>1. [kind |-> "command", remote |-> FALSE, action |-> "stop",
         position |-> 0, id |-> NoId, ttl |-> 0,
         receivedAt |-> 0, stamp |-> 0] \in Requests
    BY PositionMaxAssumption DEF Requests, Commands, Actions
  <2> QED
    BY <1>2, <2>1, DispatchTypes DEF StopForReset
<1>3. CASE Publish(task)
  <2> DEFINE valid == StepsInRange(motor.position, 0, MaxSteps)
             position == IF valid THEN StepsToPosition(motor.position, 0, MaxSteps)
                         ELSE 0
  <2>1. valid \in BOOLEAN /\ (valid => motor.position \in 0..MaxSteps)
    BY DEF StepsInRange
  <2>2. position \in 0..PositionMax
    BY <2>1, PositionsFit, PositionMaxAssumption
  <2>3. now \in Nat
    BY DEF TypeOK
  <2>4. Dispatch(task, [kind |-> "feedback", valid |-> valid, position |-> position,
                        stamp |-> now])
    BY <1>3 DEF Publish
  <2> HIDE DEF valid, position
  <2>5. [kind |-> "feedback", valid |-> valid, position |-> position,
         stamp |-> now] \in Requests
    BY <2>1, <2>2, <2>3 DEF Requests, Readings
  <2> QED
    BY <2>4, <2>5, DispatchTypes
<1>4. CASE Destroy(task)
  BY <1>4, DispatchTypes DEF Destroy, Requests
<1> QED
  BY <1>1, <1>2, <1>3, <1>4

LEMMA TypeStep == TypeOK /\ [Next]_vars => TypeOK'
<1> SUFFICES ASSUME TypeOK, [Next]_vars PROVE TypeOK'
  OBVIOUS
<1>1. CASE Begin
  <2>1. InitialState \in States
    BY PositionMaxAssumption, RevisionAssumption DEF InitialState, States, MainStates
  <2> QED
    BY <1>1, <2>1 DEF Begin, TypeOK, Lifecycles
<1>2. ASSUME NEW task \in Tasks,
             HandleCommand(task) \/ StopForReset(task) \/ Publish(task) \/ Destroy(task)
      PROVE  TypeOK'
  BY <1>2, CallTypes
<1>3. ASSUME NEW task \in Tasks, Enqueue(task) PROVE TypeOK'
  BY <1>3 DEF Enqueue, TypeOK, Phases
<1>4. CASE Take
  BY <1>4 DEF Take, TypeOK
<1>5. CASE Serve
  BY <1>5, CommandTypes, ReadingTypes, ShutdownTypes DEF Serve
<1>6. CASE WorkerExits \/ DeleteQueue
  BY <1>6 DEF WorkerExits, DeleteQueue, TypeOK, Lifecycles
<1>7. CASE Tick
  BY <1>7 DEF Tick, TypeOK
<1>8. CASE MotorTurns
  BY <1>8, MotorTypes DEF MotorTurns, TypeOK
<1>9. CASE MotorPulses
  BY <1>9, MotorTypes DEF MotorPulses, TypeOK
<1>10. CASE UNCHANGED vars
  BY <1>10 DEF vars, TypeOK
<1> QED
  BY <1>1, <1>2, <1>3, <1>4, <1>5, <1>6, <1>7, <1>8, <1>9, <1>10 DEF Next, Tasks

\* Every variable keeps its type: in particular every target and every reported
\* position is a valid canonical position.
THEOREM TypeCorrect == Spec => []TypeOK
BY TypeInit, TypeStep, PTL DEF Spec

(***************************************************************************)
(* Who owns the requests                                                   *)
(***************************************************************************)

\* What every action of the worker on a request does to the calls.
LEMMA ServeCompletes ==
    ASSUME TypeOK, Serve
    PROVE  /\ worker # NoTask
           /\ \E answer \in Results : Complete(answer)
<1>1. worker # NoTask => result[worker] \in Results
  BY DEF TypeOK
<1>2. /\ worker # NoTask
      /\ \E answer \in Results \cup {result[worker]} : Complete(answer)
  BY DEF Serve, RefuseCommand, StopMotor, RefuseWithoutFeedback, StartMove, RefuseMove,
         ApplyFeedback, StopWorker, Admit, Processing, Results
<1> QED
  BY <1>1, <1>2

\* What the calling tasks do to the calls.
LEMMA CallDispatches ==
    ASSUME NEW task,
           HandleCommand(task) \/ StopForReset(task) \/ Publish(task) \/ Destroy(task)
    PROVE  \E req : req # NoRequest /\ Dispatch(task, req)
<1>1. CASE HandleCommand(task)
  <2>1. PICK action \in Actions, position \in 0..PositionMax, id \in Ids, ttl \in Ttls :
          Dispatch(task, [kind |-> "command", remote |-> TRUE, action |-> action,
                          position |-> position, id |-> id, ttl |-> ttl,
                          receivedAt |-> now, stamp |-> now])
    BY <1>1 DEF HandleCommand
  <2> QED
    BY <2>1 DEF NoRequest
<1>2. CASE StopForReset(task)
  BY <1>2 DEF StopForReset, NoRequest
<1>3. CASE Publish(task)
  BY <1>3 DEF Publish, NoRequest
<1>4. CASE Destroy(task)
  BY <1>4 DEF Destroy, Shutdown, NoRequest
<1> QED
  BY <1>1, <1>2, <1>3, <1>4

LEMMA OwnedInit == Init => RequestsOwned
BY TasksAssumption, QueueDepthAssumption DEF Init, RequestsOwned, Queued

LEMMA OwnedStep == TypeOK /\ RequestsOwned /\ [Next]_vars => RequestsOwned'
<1> SUFFICES ASSUME TypeOK, RequestsOwned, [Next]_vars PROVE RequestsOwned'
  OBVIOUS
<1> USE DEF TypeOK, RequestsOwned, Queued
<1>1. ASSUME NEW task \in Tasks,
             HandleCommand(task) \/ StopForReset(task) \/ Publish(task) \/ Destroy(task)
      PROVE  RequestsOwned'
  <2>1. PICK req : req # NoRequest /\ Dispatch(task, req)
    BY <1>1, CallDispatches
  <2> QED
    BY <2>1 DEF Dispatch
<1>2. ASSUME NEW task \in Tasks, Enqueue(task) PROVE RequestsOwned'
  <2>1. /\ phase[task] = "sending" /\ Len(queue) < QueueDepth
        /\ queue' = Append(queue, task) /\ phase' = [phase EXCEPT ![task] = "waiting"]
        /\ UNCHANGED <<request, worker>>
    BY <1>2 DEF Enqueue
  <2>2. /\ Len(queue') = Len(queue) + 1 /\ Len(queue) \in Nat
        /\ DOMAIN queue = 1..Len(queue) /\ DOMAIN queue' = 1..Len(queue) + 1
        /\ \A i \in DOMAIN queue : queue'[i] = queue[i]
        /\ queue'[Len(queue) + 1] = task
    BY <2>1
  <2>3. \A other \in Tasks : Queued(other)' <=> Queued(other) \/ other = task
    BY <2>2
  <2>4. ~Queued(task) /\ worker # task
    BY <2>1
  <2>5. \A i, j \in DOMAIN queue' : queue'[i] = queue'[j] => i = j
    BY <2>2, <2>4
  <2>6. \A other \in Tasks :
           /\ phase'[other] = "waiting" <=> (worker' = other \/ Queued(other)')
           /\ phase'[other] = "idle" <=> request'[other] = NoRequest
           /\ ~(worker' = other /\ Queued(other)')
    BY <2>1, <2>3, <2>4
  <2>7. Len(queue') <= QueueDepth
    BY <2>1, <2>2, QueueDepthAssumption
  <2> QED
    BY <2>5, <2>6, <2>7
<1>3. CASE Take
  <2>1. /\ worker = NoTask /\ queue # <<>> /\ worker' = Head(queue)
        /\ queue' = Tail(queue) /\ UNCHANGED <<phase, request>>
    BY <1>3 DEF Take
  <2>2. /\ Len(queue) \in Nat \ {0} /\ DOMAIN queue = 1..Len(queue)
        /\ DOMAIN queue' = 1..Len(queue)-1 /\ Len(queue') = Len(queue) - 1
        /\ worker' = queue[1] /\ worker' \in Tasks
        /\ \A i \in DOMAIN queue' : queue'[i] = queue[i + 1]
    BY <2>1
  <2>3. \A other \in Tasks : Queued(other) <=> worker' = other \/ Queued(other)'
    <3>1. ASSUME NEW other \in Tasks, Queued(other) PROVE worker' = other \/ Queued(other)'
      <4>1. PICK i \in DOMAIN queue : queue[i] = other
        BY <3>1
      <4>2. CASE i = 1
        BY <4>1, <4>2, <2>2
      <4>3. CASE i # 1
        <5>1. i - 1 \in DOMAIN queue' /\ queue'[i - 1] = queue[(i - 1) + 1] /\ (i - 1) + 1 = i
          BY <4>3, <2>2
        <5> QED
          BY <4>1, <5>1
      <4> QED
        BY <4>2, <4>3
    <3>2. ASSUME NEW other \in Tasks, worker' = other \/ Queued(other)' PROVE Queued(other)
      <4>1. CASE worker' = other
        BY <4>1, <2>2
      <4>2. CASE Queued(other)'
        <5>1. PICK i \in DOMAIN queue' : queue'[i] = other
          BY <4>2
        <5>2. i + 1 \in DOMAIN queue /\ queue[i + 1] = other
          BY <5>1, <2>2
        <5> QED
          BY <5>2
      <4> QED
        BY <3>2, <4>1, <4>2
    <3> QED
      BY <3>1, <3>2
  <2>4. \A i, j \in DOMAIN queue' : queue'[i] = queue'[j] => i = j
    BY <2>2
  <2>5. \A other \in Tasks : Queued(other)' => other # worker'
    <3> SUFFICES ASSUME NEW i \in DOMAIN queue', queue'[i] = worker' PROVE FALSE
      OBVIOUS
    <3>1. i + 1 \in DOMAIN queue /\ 1 \in DOMAIN queue /\ queue[i + 1] = queue[1] /\ i + 1 # 1
      BY <2>2
    <3> QED
      BY <3>1
  <2>6. \A other \in Tasks :
           /\ phase'[other] = "waiting" <=> (worker' = other \/ Queued(other)')
           /\ phase'[other] = "idle" <=> request'[other] = NoRequest
           /\ ~(worker' = other /\ Queued(other)')
    BY <2>1, <2>3, <2>5, TasksAssumption
  <2>7. Len(queue') <= QueueDepth
    BY <2>2, QueueDepthAssumption
  <2> QED
    BY <2>4, <2>6, <2>7
<1>4. CASE Serve
  <2>1. worker # NoTask /\ \E answer \in Results : Complete(answer)
    BY <1>4, ServeCompletes
  <2> QED
    BY <2>1, TasksAssumption DEF Complete
<1>5. CASE \/ Begin \/ WorkerExits \/ DeleteQueue
           \/ Tick \/ MotorTurns \/ MotorPulses \/ UNCHANGED vars
  BY <1>5 DEF Begin, WorkerExits, DeleteQueue, Tick, MotorTurns, MotorPulses, vars
<1> QED
  BY <1>1, <1>2, <1>3, <1>4, <1>5 DEF Next, Tasks

\* No request is lost, answered twice, or read after its owner's stack is gone.
THEOREM OwnershipKept == Spec => []RequestsOwned
<1>1. Init => TypeOK /\ RequestsOwned
  BY TypeInit, OwnedInit
<1>2. TypeOK /\ RequestsOwned /\ [Next]_vars => (TypeOK /\ RequestsOwned)'
  BY TypeStep, OwnedStep
<1> QED
  BY <1>1, <1>2, PTL DEF Spec

(***************************************************************************)
(* MotorService implements RequestServer                                   *)
(***************************************************************************)

LEMMA ServerInit == Init => Server!Init
BY DEF Init, Server!Init, Order

\* A step that leaves the calls alone is a stutter of the server.
LEMMA ServerStutter ==
    ASSUME UNCHANGED <<phase, worker, queue>>
    PROVE  UNCHANGED Server!vars
BY DEF Server!vars, Order

LEMMA ServerAnswers ==
    ASSUME TypeOK, worker # NoTask, NEW answer, Complete(answer)
    PROVE  Server!Answer
<1>1. worker \in Tasks /\ queue \in Seq(Tasks) /\ Order = <<worker>> \o queue
  BY DEF TypeOK, Order
<1>2. Order' = queue
  BY <1>1 DEF Complete, Order
<1>3. Order # <<>> /\ Head(Order) = worker /\ Tail(Order) = queue
  BY <1>1
<1>4. phase' = [phase EXCEPT ![worker] = "idle"]
  BY DEF Complete
<1> QED
  BY <1>2, <1>3, <1>4 DEF Server!Answer

LEMMA ServerStep == TypeOK /\ [Next]_vars => [Server!Next]_(Server!vars)
<1> SUFFICES ASSUME TypeOK, [Next]_vars PROVE Server!Next \/ UNCHANGED Server!vars
  OBVIOUS
<1>1. ASSUME NEW task \in Tasks,
             HandleCommand(task) \/ StopForReset(task) \/ Publish(task) \/ Destroy(task)
      PROVE  Server!Next \/ UNCHANGED Server!vars
  <2>1. PICK req : Dispatch(task, req)
    BY <1>1, CallDispatches
  <2>2. CASE lifecycle \in {"running", "stopping"}
    <3>1. Order' = Order
      BY <2>1 DEF Dispatch, Order
    <3>2. Server!Call(task)
      BY <2>1, <2>2, <3>1 DEF Dispatch, Server!Call
    <3> QED
      BY <3>2 DEF Server!Next
  <2>3. CASE lifecycle \notin {"running", "stopping"}
    BY <2>1, <2>3, ServerStutter DEF Dispatch
  <2> QED
    BY <2>2, <2>3
<1>2. ASSUME NEW task \in Tasks, Enqueue(task) PROVE Server!Next
  <2>1. /\ worker' = worker /\ queue' = Append(queue, task) /\ queue \in Seq(Tasks)
        /\ phase[task] = "sending" /\ phase' = [phase EXCEPT ![task] = "waiting"]
    BY <1>2 DEF Enqueue, TypeOK
  <2>2. CASE worker = NoTask
    <3>1. Order = queue /\ Order' = Append(queue, task)
      BY <2>1, <2>2 DEF Order
    <3> QED
      BY <2>1, <3>1 DEF Server!Next, Server!Admit
  <2>3. CASE worker # NoTask
    <3>1. worker \in Tasks
      BY <2>3 DEF TypeOK
    <3>2. /\ Order = <<worker>> \o queue
          /\ Order' = <<worker>> \o Append(queue, task)
      BY <2>1, <2>3 DEF Order
    <3>3. <<worker>> \o Append(queue, task) = Append(<<worker>> \o queue, task)
      BY <2>1, <3>1
    <3> QED
      BY <2>1, <3>2, <3>3 DEF Server!Next, Server!Admit
  <2> QED
    BY <2>2, <2>3
<1>3. CASE Take
  <2>1. /\ worker = NoTask /\ queue \in Seq(Tasks) /\ queue # <<>>
        /\ worker' = Head(queue) /\ queue' = Tail(queue) /\ phase' = phase
    BY <1>3 DEF Take, TypeOK
  <2>2. worker' # NoTask /\ worker' \in Tasks
    BY <2>1, TasksAssumption
  <2>3. Order = queue /\ Order' = <<Head(queue)>> \o Tail(queue)
    BY <2>1, <2>2 DEF Order
  <2>4. <<Head(queue)>> \o Tail(queue) = queue
    BY <2>1
  <2> QED
    BY <2>1, <2>3, <2>4 DEF Server!vars
<1>4. CASE Serve
  BY <1>4, ServeCompletes, ServerAnswers DEF Server!Next
<1>5. CASE \/ Begin \/ WorkerExits \/ DeleteQueue
           \/ Tick \/ MotorTurns \/ MotorPulses \/ UNCHANGED vars
  <2>1. UNCHANGED <<phase, worker, queue>>
    BY <1>5 DEF Begin, WorkerExits, DeleteQueue, Tick, MotorTurns, MotorPulses, vars
  <2> QED
    BY <2>1, ServerStutter
<1> QED
  BY <1>1, <1>2, <1>3, <1>4, <1>5 DEF Next, Tasks

\* The queue, the pointers and the worker implement the server their callers
\* rely on: calls are answered once each, first come first served.
THEOREM ImplementsServer == Spec => ServesInOrder
<1>1. Spec => []TypeOK
  BY TypeCorrect
<1> QED
  BY <1>1, ServerInit, ServerStep, PTL DEF Spec, ServesInOrder, Server!Spec

(***************************************************************************)
(* What the state says of the motion                                       *)
(***************************************************************************)

\* Only a running worker has a request in hand or sets the motor in motion,
\* and nothing happens to the state before begin().
IdleUnlessRunning ==
    /\ lifecycle # "running" => worker = NoTask /\ ~motor.seeking
    /\ lifecycle = "created" => state = InitialState

Motion == IdleUnlessRunning /\ GoalWithinTravel /\ StatusTellsMotion

LEMMA MotionInit == Init => Motion
BY DEF Init, Motion, IdleUnlessRunning, GoalWithinTravel, StatusTellsMotion,
       InitialState, MotorAtOrigin

\* A step that leaves the state alone, and neither the commands of the motor
\* nor the life cycle, keeps Motion.
LEMMA MotionKept ==
    ASSUME Motion, state' = state, lifecycle' = lifecycle,
           motor'.seeking = motor.seeking, motor'.goal = motor.goal,
           lifecycle # "running" => worker' = NoTask
    PROVE  Motion'
BY DEF Motion, IdleUnlessRunning, GoalWithinTravel, StatusTellsMotion

LEMMA MotionServed == TypeOK /\ Motion /\ Serve => Motion'
<1> SUFFICES ASSUME TypeOK, Motion, Serve PROVE Motion'
  OBVIOUS
<1>1. worker # NoTask /\ lifecycle = "running"
  BY ServeCompletes DEF Motion, IdleUnlessRunning
<1>2. worker' = NoTask
  BY ServeCompletes DEF Complete
<1>3. motor \in Motors /\ state \in States
  BY DEF TypeOK
<1>4. CASE RefuseCommand
  BY <1>1, <1>4, MotionKept DEF RefuseCommand
<1>5. CASE StopMotor
  <2>1. ~motor'.seeking /\ state'.main = "stopping" /\ lifecycle' = "running"
    BY <1>1, <1>3, <1>5 DEF StopMotor, StopMove, Motors, States
  <2> QED
    BY <2>1 DEF Motion, IdleUnlessRunning, GoalWithinTravel, StatusTellsMotion
<1>6. CASE RefuseWithoutFeedback
  <2>1. /\ motor' = motor /\ state'.main = "fault" /\ state'.target = state.target
        /\ lifecycle' = "running"
    BY <1>1, <1>3, <1>6 DEF RefuseWithoutFeedback, States
  <2> QED
    BY <1>1, <2>1 DEF Motion, IdleUnlessRunning, GoalWithinTravel, StatusTellsMotion
<1>7. CASE StartMove
  <2>1. Taken \in Commands
    BY <1>7, TakenCommand DEF StartMove, Admit
  <2>2. /\ ToSteps(TargetOf(Taken)) \in 0..MaxSteps
        /\ MotionTo(TargetOf(Taken)) \in {"opening", "closing", "idle"}
    BY <2>1, TargetType DEF MotionTo
  <2>3. /\ motor'.seeking /\ motor'.goal = ToSteps(TargetOf(Taken))
        /\ state'.target = TargetOf(Taken) /\ state'.main = MotionTo(TargetOf(Taken))
        /\ lifecycle' = "running"
    BY <1>1, <1>3, <1>7 DEF StartMove, MoveTo, Motors, States
  <2> QED
    BY <2>2, <2>3 DEF Motion, IdleUnlessRunning, GoalWithinTravel, StatusTellsMotion
<1>8. CASE RefuseMove
  <2>1. /\ motor' = motor /\ state'.main \in {state.main, "fault"}
        /\ state'.target = state.target /\ lifecycle' = "running"
    BY <1>1, <1>3, <1>8 DEF RefuseMove, States
  <2> QED
    BY <1>1, <2>1 DEF Motion, IdleUnlessRunning, GoalWithinTravel, StatusTellsMotion
<1>9. CASE ApplyFeedback
  <2>1. /\ motor' = motor /\ state'.main = MainAfter(Taken)
        /\ state'.target = state.target /\ lifecycle' = "running"
    BY <1>1, <1>3, <1>9 DEF ApplyFeedback, States
  <2>2. MainAfter(Taken) \in {state.main, "idle", "unknown"}
    BY DEF MainAfter
  <2> QED
    BY <1>1, <2>1, <2>2 DEF Motion, IdleUnlessRunning, GoalWithinTravel, StatusTellsMotion
<1>10. CASE StopWorker
  <2>1. ~motor'.seeking /\ lifecycle' = "stopping"
    BY <1>3, <1>10 DEF StopWorker, StopMove, Motors
  <2> QED
    BY <1>2, <2>1 DEF Motion, IdleUnlessRunning, GoalWithinTravel, StatusTellsMotion
<1> QED
  BY <1>4, <1>5, <1>6, <1>7, <1>8, <1>9, <1>10 DEF Serve

LEMMA MotionStep == TypeOK /\ Motion /\ [Next]_vars => Motion'
<1> SUFFICES ASSUME TypeOK, Motion, [Next]_vars PROVE Motion'
  OBVIOUS
<1>0. motor \in Motors
  BY DEF TypeOK
<1>1. CASE Begin
  <2>1. /\ lifecycle = "created" /\ lifecycle' = "running" /\ state' = InitialState
        /\ motor' = motor /\ ~motor.seeking
    BY <1>1 DEF Begin, Motion, IdleUnlessRunning
  <2> QED
    BY <2>1 DEF Motion, IdleUnlessRunning, GoalWithinTravel, StatusTellsMotion, InitialState
<1>2. ASSUME NEW task \in Tasks,
             HandleCommand(task) \/ StopForReset(task) \/ Publish(task) \/ Destroy(task)
      PROVE  Motion'
  <2>1. PICK req : Dispatch(task, req)
    BY <1>2, CallDispatches
  <2> QED
    BY <2>1, MotionKept DEF Dispatch, Motion, IdleUnlessRunning
<1>3. ASSUME NEW task \in Tasks, Enqueue(task) PROVE Motion'
  BY <1>3, MotionKept DEF Enqueue, Motion, IdleUnlessRunning
<1>4. CASE Take
  BY <1>4, MotionKept DEF Take
<1>5. CASE Serve
  BY <1>5, MotionServed
<1>6. CASE WorkerExits \/ DeleteQueue
  BY <1>6 DEF WorkerExits, DeleteQueue, Motion, IdleUnlessRunning, GoalWithinTravel,
              StatusTellsMotion
<1>7. CASE Tick \/ UNCHANGED vars
  BY <1>7, MotionKept DEF Tick, vars, Motion, IdleUnlessRunning
<1>8. CASE MotorTurns
  <2>1. motor'.seeking = motor.seeking /\ motor'.goal = motor.goal
    BY <1>0, <1>8 DEF MotorTurns, Turned, Motors
  <2> QED
    BY <1>8, <2>1, MotionKept DEF MotorTurns, Motion, IdleUnlessRunning
<1>9. CASE MotorPulses
  <2>1. motor'.seeking = motor.seeking /\ motor'.goal = motor.goal
    BY <1>0, <1>9 DEF MotorPulses, Pulsed, Motors
  <2> QED
    BY <1>9, <2>1, MotionKept DEF MotorPulses, Motion, IdleUnlessRunning
<1> QED
  BY <1>1, <1>2, <1>3, <1>4, <1>5, <1>6, <1>7, <1>8, <1>9 DEF Next, Tasks

LEMMA MotionAlways == Spec => [](TypeOK /\ Motion)
<1>1. Init => TypeOK /\ Motion
  BY TypeInit, MotionInit
<1>2. TypeOK /\ Motion /\ [Next]_vars => (TypeOK /\ Motion)'
  BY TypeStep, MotionStep
<1> QED
  BY <1>1, <1>2, PTL DEF Spec

\* The motor is never sent beyond the configured travel.
THEOREM BoundedTargets == Spec => []GoalWithinTravel
BY MotionAlways, PTL DEF Motion

\* While the service runs, the canonical state says what the motor was told.
THEOREM TruthfulState == Spec => []StatusTellsMotion
BY MotionAlways, PTL DEF Motion

\* Where the motor was sent, the reading is the target the state reports, for
\* every travel of at least PositionMax steps: no rounding hides an arrival.
THEOREM ArrivalIsRecognised == Spec => []ArrivalRecognised
<1>1. TypeOK /\ Motion => ArrivalRecognised
  <2> SUFFICES ASSUME TypeOK, StatusTellsMotion,
                      lifecycle = "running", motor.seeking, motor.position = motor.goal,
                      MaxSteps >= PositionMax
               PROVE  StepsToPosition(motor.position, 0, MaxSteps) = state.target
    BY DEF Motion, ArrivalRecognised
  <2>1. motor.position = PositionToSteps(state.target, 0, MaxSteps)
    BY DEF StatusTellsMotion, ToSteps
  <2>2. state.target \in 0..PositionMax
    BY DEF TypeOK, States
  <2> QED
    BY <2>1, <2>2, PositionsReturn
<1> QED
  BY <1>1, MotionAlways, PTL

\* A service that was shut down never sets the motor in motion again.
THEOREM QuietAfterShutdown == Spec => []AtRestAfterShutdown
<1>1. Motion => AtRestAfterShutdown
  BY DEF Motion, IdleUnlessRunning, AtRestAfterShutdown
<1> QED
  BY <1>1, MotionAlways, PTL

(***************************************************************************)
(* The revision                                                            *)
(***************************************************************************)

LEMMA RevisionMoves ==
    ASSUME RevisionModulus > 2, NEW r \in 0..RevisionModulus-1, NEW n \in {1, 2}
    PROVE  Revised(r, n) # r
BY RevisionAssumption DEF Revised

LEMMA RevisionStep ==
    ASSUME RevisionModulus > 2
    PROVE  TypeOK /\ Motion /\ [Next]_vars
              => [state' # state => state'.revision # state.revision]_vars
<1> SUFFICES ASSUME TypeOK, Motion, [Next]_vars, state' # state
             PROVE  state'.revision # state.revision
  OBVIOUS
<1>1. state \in States /\ \A n \in {1, 2} : Revised(state.revision, n) # state.revision
  BY RevisionMoves DEF TypeOK, States
<1>2. CASE Begin
  BY <1>2 DEF Begin, Motion, IdleUnlessRunning
<1>3. ASSUME NEW task \in Tasks,
             HandleCommand(task) \/ StopForReset(task) \/ Publish(task) \/ Destroy(task)
      PROVE  FALSE
  BY <1>3, CallDispatches DEF Dispatch
<1>4. CASE Serve
  <2>1. CASE RefuseCommand \/ StopWorker
    BY <2>1 DEF RefuseCommand, StopWorker
  <2>2. CASE StopMotor
    BY <1>1, <2>2 DEF StopMotor, States
  <2>3. CASE RefuseWithoutFeedback
    BY <1>1, <2>3 DEF RefuseWithoutFeedback, States
  <2>4. CASE StartMove
    BY <1>1, <2>4 DEF StartMove, States
  <2>5. CASE RefuseMove
    BY <1>1, <2>5 DEF RefuseMove, States
  <2>6. CASE ApplyFeedback
    BY <1>1, <2>6 DEF ApplyFeedback, States
  <2> QED
    BY <1>4, <2>1, <2>2, <2>3, <2>4, <2>5, <2>6 DEF Serve
<1>5. ASSUME NEW task \in Tasks, Enqueue(task) PROVE FALSE
  BY <1>5 DEF Enqueue
<1>6. CASE \/ Take \/ WorkerExits \/ DeleteQueue
           \/ Tick \/ MotorTurns \/ MotorPulses \/ UNCHANGED vars
  BY <1>6 DEF Take, WorkerExits, DeleteQueue, Tick, MotorTurns, MotorPulses, vars
<1> QED
  BY <1>2, <1>3, <1>4, <1>5, <1>6 DEF Next, Tasks

\* A reader that has seen the revision of a state has seen the state, unless
\* the counter came all the way round (in the code it has 64 bits).
THEOREM RevisionsTell ==
    ASSUME RevisionModulus > 2
    PROVE  Spec => RevisionTracksState
BY RevisionStep, MotionAlways, PTL DEF Spec, RevisionTracksState
=============================================================================
