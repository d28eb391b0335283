--------------------------- MODULE MotorReporting ---------------------------
(***************************************************************************)
(* How the canonical state reaches the broker.  Two tasks publish it: the  *)
(* main loop, every two seconds, from the snapshot at the top of its loop, *)
(* and the MQTT task, after each command.  MotorMqttAdapter::report (main/ *)
(* components/mqtt_adapter) and MqttBridge (common/components/mqtt_bridge) *)
(* serialize them with a mutex each; below, the client library runs the    *)
(* bridge's event handler under the recursive lock its publish call takes. *)
(*                                                                         *)
(* MotorService stands here for its revision alone: a state never changes  *)
(* without it (MotorService!RevisionTracksState).                          *)
(***************************************************************************)
EXTENDS Integers

CONSTANTS
    Main, Mqtt,     \* app_main's task and the client library's task
    Nobody,         \* the owner of a free mutex
    MaxRevision,    \* bound on the revision
    MaxConnections  \* bound on the connection generation

Threads == {Main, Mqtt}

ASSUME ThreadsAssumption == Main # Mqtt /\ Nobody \notin Threads
ASSUME BoundsAssumption == MaxRevision \in Nat /\ MaxConnections \in Nat

VARIABLES
    revision,      \* state_.revision of MotorService
    connected,     \* connected_ of MqttBridge
    generation,    \* connection_generation_
    at,            \* where each thread is
    document,      \* what it is publishing
    carried,       \* the revision in the snapshot it holds
    handled,       \* the revision the last command left behind
    reportMutex, publishMutex, clientLock,
    seen,          \* the generation the reporting thread has read
    lastRevision, lastGeneration,  \* last_reported_revision_, last_connection_generation_
    retained       \* the revision of the state the broker retains

vars == <<revision, connected, generation, at, document, carried, handled,
          reportMutex, publishMutex, clientLock, seen, lastRevision,
          lastGeneration, retained>>

\* UINT64_MAX in the adapter; what an earlier boot left at the broker.
NoRevision == -1

Revisions == 0..MaxRevision

Places == {"idle", "greet", "submit", "answer", "snapshot", "report", "publish",
           "send", "record"}

Documents == {"presence", "event", "refusal", "state"}

\* Where a thread waits for its next job: the main loop always has one.
Rest(thread) == IF thread = Main THEN "snapshot" ELSE "idle"

Init ==
    /\ revision = 0
    /\ connected = FALSE
    /\ generation = 0
    /\ at = [thread \in Threads |-> Rest(thread)]
    /\ document = [thread \in Threads |-> "state"]
    /\ carried = [thread \in Threads |-> 0]
    /\ handled = 0
    /\ reportMutex = Nobody /\ publishMutex = Nobody /\ clientLock = Nobody
    /\ seen = 0
    /\ lastRevision = NoRevision /\ lastGeneration = 0
    /\ retained = NoRevision

Goto(thread, place) == at' = [at EXCEPT ![thread] = place]

\* The thread returns to its rest; the library drops its lock when the handler
\* returns.
Return(thread) ==
    /\ Goto(thread, Rest(thread))
    /\ clientLock' = IF thread = Mqtt THEN Nobody ELSE clientLock

(***************************************************************************)
(* The service                                                             *)
(***************************************************************************)

\* A feedback reading or a local command changes the state.
ServiceWorks ==
    /\ revision < MaxRevision
    /\ revision' = revision + 1
    /\ UNCHANGED <<connected, generation, at, document, carried, handled,
                   reportMutex, publishMutex, clientLock, seen, lastRevision,
                   lastGeneration, retained>>

(***************************************************************************)
(* MqttBridge::handleEvent, run by the library under its lock              *)
(***************************************************************************)

HandleEvent(place) ==
    /\ at[Mqtt] = "idle" /\ clientLock = Nobody
    /\ clientLock' = Mqtt
    /\ Goto(Mqtt, place)
    /\ UNCHANGED <<revision, generation, carried, handled, reportMutex,
                   publishMutex, seen, lastRevision, lastGeneration, retained>>

Connected ==
    /\ ~connected /\ generation < MaxConnections
    /\ HandleEvent("greet")
    /\ connected' = TRUE
    /\ UNCHANGED document

\* connected_ was stored before; the subscription is the library's business.
Greet ==
    /\ at[Mqtt] = "greet"
    /\ generation' = generation + 1
    /\ document' = [document EXCEPT ![Mqtt] = "presence"]
    /\ Goto(Mqtt, "publish")
    /\ UNCHANGED <<revision, connected, carried, handled, reportMutex, publishMutex,
                   clientLock, seen, lastRevision, lastGeneration, retained>>

Disconnected ==
    /\ connected
    /\ at[Mqtt] = "idle" /\ clientLock = Nobody
    /\ connected' = FALSE
    /\ UNCHANGED <<revision, generation, at, document, carried, handled, reportMutex,
                   publishMutex, clientLock, seen, lastRevision, lastGeneration,
                   retained>>

ReceiveCommand == connected /\ HandleEvent("submit") /\ UNCHANGED <<connected, document>>

\* A retained or malformed command is answered without the service.
ReceiveRejected ==
    /\ connected
    /\ HandleEvent("publish")
    /\ document' = [document EXCEPT ![Mqtt] = "refusal"]
    /\ UNCHANGED connected

(***************************************************************************)
(* MotorMqttAdapter::handleCommand                                         *)
(***************************************************************************)

\* submit() returns: the command may or may not have changed the state.
Submit ==
    /\ at[Mqtt] = "submit"
    /\ revision' \in {revision, revision + 1} \cap Revisions
    /\ handled' = revision'
    /\ Goto(Mqtt, "answer")
    /\ UNCHANGED <<connected, generation, document, carried, reportMutex, publishMutex,
                   clientLock, seen, lastRevision, lastGeneration, retained>>

\* Mutant of PublishResult: it publishes the revision of an earlier snapshot.
PublishResultOfEarlierSnapshot ==
    /\ at[Mqtt] = "answer"
    /\ document' = [document EXCEPT ![Mqtt] = "event"]
    /\ Goto(Mqtt, "publish")
    /\ UNCHANGED <<revision, connected, generation, carried, handled, reportMutex,
                   publishMutex, clientLock, seen, lastRevision, lastGeneration,
                   retained>>

\* publishResult up to bridge_->publish: it takes a snapshot of its own.
PublishResult ==
    /\ at[Mqtt] = "answer"
    /\ carried' = [carried EXCEPT ![Mqtt] = revision]
    /\ document' = [document EXCEPT ![Mqtt] = "event"]
    /\ Goto(Mqtt, "publish")
    /\ UNCHANGED <<revision, connected, generation, handled, reportMutex, publishMutex,
                   clientLock, seen, lastRevision, lastGeneration, retained>>

\* The argument of report(service_.snapshot(), ...), before its mutex.
Snapshot(thread) ==
    /\ at[thread] = "snapshot"
    /\ carried' = [carried EXCEPT ![thread] = revision]
    /\ Goto(thread, "report")
    /\ UNCHANGED <<revision, connected, generation, document, handled, reportMutex,
                   publishMutex, clientLock, seen, lastRevision, lastGeneration,
                   retained>>

(***************************************************************************)
(* MotorMqttAdapter::report and MqttBridge::publish                        *)
(***************************************************************************)

\* Mutants of Due: a new connection, or a new revision, is not a reason.
DueForRevision(thread) == thread = Mqtt \/ carried[thread] # lastRevision
DueForConnection(thread) == thread = Mqtt \/ generation # lastGeneration

\* Only the MQTT task forces a report.
Due(thread) ==
    \/ thread = Mqtt
    \/ generation # lastGeneration
    \/ carried[thread] # lastRevision

SkipReport(thread) ==
    /\ at[thread] = "report"
    /\ reportMutex = Nobody
    /\ ~(connected /\ Due(thread))
    /\ Return(thread)
    /\ UNCHANGED <<revision, connected, generation, document, carried, handled,
                   reportMutex, publishMutex, seen, lastRevision, lastGeneration,
                   retained>>

\* Mutant of Report: the mutex is not taken.
ReportUnlocked(thread) ==
    /\ at[thread] = "report"
    /\ connected /\ Due(thread)
    /\ seen' = generation
    /\ document' = [document EXCEPT ![thread] = "state"]
    /\ Goto(thread, "publish")
    /\ UNCHANGED <<revision, connected, generation, carried, handled, reportMutex,
                   publishMutex, clientLock, lastRevision, lastGeneration, retained>>

Report(thread) ==
    /\ at[thread] = "report"
    /\ reportMutex = Nobody
    /\ connected /\ Due(thread)
    /\ reportMutex' = thread
    /\ seen' = generation
    /\ document' = [document EXCEPT ![thread] = "state"]
    /\ Goto(thread, "publish")
    /\ UNCHANGED <<revision, connected, generation, carried, handled, publishMutex,
                   clientLock, lastRevision, lastGeneration, retained>>

\* Mutant of Proceed: a publish that fails leaves the adapter's mutex locked.
ProceedLocked(thread) ==
    IF document[thread] = "event"
    THEN Goto(thread, "snapshot") /\ UNCHANGED <<clientLock, reportMutex>>
    ELSE Return(thread) /\ UNCHANGED reportMutex

\* What follows a publish that returned without the broker's copy changing:
\* the report of the state after an event, the return of the job otherwise.
Proceed(thread) ==
    IF document[thread] = "event"
    THEN Goto(thread, "snapshot") /\ UNCHANGED <<clientLock, reportMutex>>
    ELSE /\ Return(thread)
         /\ reportMutex' = IF document[thread] = "state" THEN Nobody ELSE reportMutex

PublishOffline(thread) ==
    /\ at[thread] = "publish"
    /\ ~connected
    /\ Proceed(thread)
    /\ UNCHANGED <<revision, connected, generation, document, carried, handled,
                   publishMutex, seen, lastRevision, lastGeneration, retained>>

Publish(thread) ==
    /\ at[thread] = "publish"
    /\ connected
    /\ publishMutex = Nobody
    /\ publishMutex' = thread
    /\ Goto(thread, "send")
    /\ UNCHANGED <<revision, connected, generation, document, carried, handled,
                   reportMutex, clientLock, seen, lastRevision, lastGeneration,
                   retained>>

\* The library's publish call, under the lock its task may hold already.
Sending(thread) ==
    /\ at[thread] = "send"
    /\ clientLock \in {Nobody, thread}
    /\ publishMutex' = Nobody
    /\ UNCHANGED <<revision, connected, generation, document, carried, handled,
                   seen, lastRevision, lastGeneration>>

Send(thread) ==
    /\ Sending(thread)
    /\ IF document[thread] = "state"
       THEN /\ retained' = carried[thread]
            /\ Goto(thread, "record")
            /\ UNCHANGED <<clientLock, reportMutex>>
       ELSE Proceed(thread) /\ UNCHANGED retained

\* The library refuses the message, for its properties, its size or for want of
\* memory, with or without a connection.
SendFails(thread) == Sending(thread) /\ Proceed(thread) /\ UNCHANGED retained

\* publish() returned true to report.
Record(thread) ==
    /\ at[thread] = "record"
    /\ lastRevision' = carried[thread]
    /\ lastGeneration' = seen
    /\ reportMutex' = Nobody
    /\ Return(thread)
    /\ UNCHANGED <<revision, connected, generation, document, carried, handled,
                   publishMutex, seen, retained>>

(***************************************************************************)
(* The specification                                                       *)
(***************************************************************************)

Reporting(thread) ==
    \/ Snapshot(thread) \/ SkipReport(thread) \/ Report(thread)
    \/ PublishOffline(thread) \/ Publish(thread) \/ Send(thread)
    \/ SendFails(thread) \/ Record(thread)

Handling == Greet \/ Submit \/ PublishResult

Next ==
    \/ ServiceWorks
    \/ Connected \/ Disconnected \/ ReceiveCommand \/ ReceiveRejected
    \/ Handling
    \/ \E thread \in Threads : Reporting(thread)

Spec == Init /\ [][Next]_vars

\* Both tasks run, and a task gets a mutex that is free again and again: the
\* library's task waits for the network between two events.  The library does not
\* refuse the main loop's reports for ever.  Nothing obliges the broker to send an
\* event or the state to change.
FairSpec ==
    /\ Spec
    /\ WF_vars(Handling)
    /\ \A thread \in Threads : SF_vars(Reporting(thread))
    /\ SF_vars(Send(Main))

(***************************************************************************)
(* Properties                                                              *)
(***************************************************************************)

Numbers == Revisions \cup {NoRevision}

TypeOK ==
    /\ revision \in Revisions /\ handled \in Revisions
    /\ connected \in BOOLEAN
    /\ generation \in 0..MaxConnections /\ seen \in 0..MaxConnections
    /\ at \in [Threads -> Places]
    /\ document \in [Threads -> Documents]
    /\ carried \in [Threads -> Revisions]
    /\ {reportMutex, publishMutex, clientLock} \subseteq Threads \cup {Nobody}
    /\ lastRevision \in Numbers /\ retained \in Numbers
    /\ lastGeneration \in 0..MaxConnections

\* Whenever no report is under way, what the adapter believes it reported last
\* is what the broker retains, though two tasks report: so a report skipped
\* for its revision is one clients could read already.
LastReportIsRetained == reportMutex = Nobody => lastRevision = retained

\* The result of a command goes out with a revision that covers the command,
\* whatever the feedback task does meanwhile, and the state published after it
\* is not older (README.md:65 of firmware/main: "command result and current
\* revision").
ResultCoversCommand ==
    /\ document[Mqtt] = "event" /\ at[Mqtt] \in {"publish", "send"}
          => carried[Mqtt] \in handled..revision
    /\ document[Mqtt] = "state" /\ at[Mqtt] \in {"publish", "send", "record"}
          => carried[Mqtt] \in handled..revision

\* The two tasks wait for each other: the main loop, inside bridge.publish(),
\* for the library's lock; the library's task, inside the event handler, for a
\* mutex of the main loop.
Deadlocked ==
    /\ at[Main] = "send" /\ clientLock = Mqtt
    /\ \/ at[Mqtt] = "publish" /\ connected
       \/ at[Mqtt] = "report"

\* The thread is blocked on a lock.
Waits(thread) ==
    \/ at[thread] = "report" /\ reportMutex # Nobody
    \/ at[thread] = "publish" /\ connected /\ publishMutex # Nobody
    \/ at[thread] = "send" /\ clientLock \notin {Nobody, thread}

\* The two tasks and their three locks deadlock in this one way: in any other
\* state one of them goes on, and a mutex never outlives the call that took it.
OnlyDeadlock ==
    Waits(Main) /\ (Waits(Mqtt) \/ at[Mqtt] = "idle") => Deadlocked

\* Nothing resolves it again: no timeout, no lost connection, no other task.
DeadlockLasts == [][Deadlocked => Deadlocked']_vars

\* While the connection lasts, clients can eventually read the latest state,
\* however reports and commands interleave; the one thing that can prevent it
\* is the deadlock.  (MaxRevision makes the state stop changing.)
CatchesUp == <>[]connected => <>[](retained = revision) \/ <>[]Deadlocked

\* After every connection the state is published anew, even an unchanged one.
ReportsAfterConnecting ==
    connected ~> (lastGeneration = generation \/ ~connected \/ Deadlocked)

\* firmware/main/README.md:63: "retained canonical motor state on revision
\* changes and reconnect".
StateIsReported == <>[]connected => <>[](retained = revision)
=============================================================================
