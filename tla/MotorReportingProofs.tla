------------------------ MODULE MotorReportingProofs ------------------------
(***************************************************************************)
(* Proofs about MotorReporting for every number of revisions and of        *)
(* connections.                                                            *)
(***************************************************************************)
EXTENDS MotorReporting, TLAPS

(***************************************************************************)
(* Types                                                                   *)
(***************************************************************************)

\* A connection that is greeted is still to be counted.
GreetCounts == at[Mqtt] = "greet" => generation < MaxConnections

TypeInv == TypeOK /\ GreetCounts

\* The places a thread moves between.
LEMMA ReturnsTyped ==
    ASSUME TypeOK, NEW thread \in Threads, Return(thread)
    PROVE  /\ at' \in [Threads -> Places]
           /\ clientLock' \in Threads \cup {Nobody}
           /\ at'[Mqtt] # "greet" \/ at'[Mqtt] = at[Mqtt]
BY DEF TypeOK, Return, Goto, Rest, Places, Threads

LEMMA GoesTyped ==
    ASSUME TypeOK, NEW thread \in Threads, NEW place \in Places, Goto(thread, place)
    PROVE  /\ at' \in [Threads -> Places]
           /\ at'[thread] = place
           /\ \A other \in Threads : other # thread => at'[other] = at[other]
BY DEF TypeOK, Goto

LEMMA ProceedsTyped ==
    ASSUME TypeOK, NEW thread \in Threads, Proceed(thread)
    PROVE  /\ at' \in [Threads -> Places]
           /\ {reportMutex', clientLock'} \subseteq Threads \cup {Nobody}
           /\ at'[Mqtt] # "greet" \/ at'[Mqtt] = at[Mqtt]
<1>1. CASE Goto(thread, "snapshot") /\ UNCHANGED <<clientLock, reportMutex>>
  BY <1>1 DEF TypeOK, Goto, Places
<1>2. CASE Return(thread) /\ reportMutex' \in {Nobody, reportMutex}
  BY <1>2, ReturnsTyped DEF TypeOK
<1> QED
  BY <1>1, <1>2 DEF Proceed

LEMMA ReportingTyped ==
    ASSUME TypeInv, NEW thread \in Threads, Reporting(thread)
    PROVE  TypeInv'
<1> USE DEF TypeInv, GreetCounts
<1>1. Mqtt \in Threads
  BY DEF Threads
<1>2. {"report", "publish", "send", "record"} \subseteq Places /\ "state" \in Documents
  BY DEF Places, Documents
<1>3. CASE Snapshot(thread)
  BY <1>1, <1>2, <1>3, GoesTyped DEF Snapshot, TypeOK
<1>4. CASE SkipReport(thread)
  BY <1>4, ReturnsTyped DEF SkipReport, TypeOK
<1>5. CASE Report(thread)
  BY <1>1, <1>2, <1>5, GoesTyped DEF Report, TypeOK
<1>6. CASE PublishOffline(thread)
  BY <1>6, ProceedsTyped DEF PublishOffline, TypeOK
<1>7. CASE Publish(thread)
  BY <1>1, <1>2, <1>7, GoesTyped DEF Publish, TypeOK
<1>8. CASE Send(thread)
  <2>1. CASE document[thread] = "state"
    <3>1. retained' \in Numbers
      BY <1>8, <2>1 DEF Send, TypeOK, Numbers
    <3> QED
      BY <1>1, <1>2, <1>8, <2>1, <3>1, GoesTyped DEF Send, Sending, TypeOK
  <2>2. CASE document[thread] # "state"
    BY <1>8, <2>2, ProceedsTyped DEF Send, Sending, TypeOK
  <2> QED
    BY <2>1, <2>2
<1>9. CASE SendFails(thread)
  BY <1>9, ProceedsTyped DEF SendFails, Sending, TypeOK
<1>10. CASE Record(thread)
  BY <1>10, ReturnsTyped DEF Record, TypeOK, Numbers
<1> QED
  BY <1>3, <1>4, <1>5, <1>6, <1>7, <1>8, <1>9, <1>10 DEF Reporting

LEMMA TypeStep == TypeInv /\ [Next]_vars => TypeInv'
<1> SUFFICES ASSUME TypeInv, [Next]_vars PROVE TypeInv'
  OBVIOUS
<1> USE DEF TypeInv, GreetCounts
<1>1. Mqtt \in Threads /\ MaxRevision \in Nat /\ MaxConnections \in Nat
  BY BoundsAssumption DEF Threads
<1>2. {"greet", "submit", "answer", "publish"} \subseteq Places
      /\ {"presence", "refusal", "event"} \subseteq Documents
  BY DEF Places, Documents
<1>3. CASE UNCHANGED vars
  BY <1>3 DEF vars, TypeOK
<1>4. CASE ServiceWorks
  BY <1>1, <1>4 DEF ServiceWorks, TypeOK, Revisions
<1>5. CASE Connected
  <2>1. connected' \in BOOLEAN
    BY <1>5 DEF Connected
  <2> QED
    BY <1>1, <1>2, <1>5, <2>1, GoesTyped DEF Connected, HandleEvent, TypeOK
<1>6. CASE Disconnected
  <2>1. connected' \in BOOLEAN
    BY <1>6 DEF Disconnected
  <2> QED
    BY <1>6, <2>1 DEF Disconnected, TypeOK
<1>7. CASE ReceiveCommand
  BY <1>1, <1>2, <1>7, GoesTyped DEF ReceiveCommand, HandleEvent, TypeOK
<1>8. CASE ReceiveRejected
  BY <1>1, <1>2, <1>8, GoesTyped DEF ReceiveRejected, HandleEvent, TypeOK
<1>9. CASE Greet
  BY <1>1, <1>2, <1>9, GoesTyped DEF Greet, TypeOK
<1>10. CASE Submit
  BY <1>1, <1>2, <1>10, GoesTyped DEF Submit, TypeOK
<1>11. CASE PublishResult
  BY <1>1, <1>2, <1>11, GoesTyped DEF PublishResult, TypeOK
<1> QED
  BY <1>3, <1>4, <1>5, <1>6, <1>7, <1>8, <1>9, <1>10, <1>11, ReportingTyped
     DEF Next, Handling

LEMMA TypeInvInit == Init => TypeInv
<1> SUFFICES ASSUME Init PROVE TypeInv
  OBVIOUS
<1>1. 0 \in Revisions /\ 0 \in 0..MaxConnections
  BY BoundsAssumption DEF Revisions
<1>2. connected \in BOOLEAN
  BY DEF Init
<1>3. at \in [Threads -> Places] /\ at[Mqtt] # "greet"
  BY DEF Init, Rest, Places, Threads
<1> QED
  BY <1>1, <1>2, <1>3 DEF Init, TypeInv, GreetCounts, TypeOK, Numbers, Documents

LEMMA TypesAlways == Spec => []TypeInv
BY TypeInvInit, TypeStep, PTL DEF Spec

\* For every number of revisions and connections the variables keep their
\* types; a mutex has an owner among the threads or none.
THEOREM TypeCorrect == Spec => []TypeOK
BY TypesAlways, PTL DEF TypeInv

(***************************************************************************)
(* The last report                                                         *)
(***************************************************************************)

Publishes(thread) == at[thread] \in {"publish", "send"} /\ document[thread] = "state"

\* A thread that publishes the state, or records that it did, owns the mutex
\* of the adapter.
ReporterOwns ==
    \A thread \in Threads : Publishes(thread) \/ at[thread] = "record"
        => reportMutex = thread

\* What it is about to record is what the broker retains ...
RecordsRetained == \A thread \in Threads : at[thread] = "record" => retained = carried[thread]

\* ... and while there is nothing to record, it is recorded.
Recorded == (\A thread \in Threads : at[thread] # "record") => lastRevision = retained

ReportInv == ReporterOwns /\ RecordsRetained /\ Recorded

\* A step that takes a thread elsewhere, neither to publish a state nor to
\* record, and leaves the mutex with whoever else owns it.
Elsewhere(thread) ==
    /\ at[thread] # "record" /\ at'[thread] # "record"
    /\ at'[thread] \in {"publish", "send"} =>
          \/ document'[thread] # "state"
          \/ Publishes(thread) /\ UNCHANGED reportMutex
          \/ reportMutex = Nobody /\ reportMutex' = thread
    /\ \A other \in Threads : other # thread =>
          /\ at'[other] = at[other]
          /\ document'[other] = document[other] /\ carried'[other] = carried[other]
    /\ reportMutex' = reportMutex \/ reportMutex \in {thread, Nobody}
    /\ UNCHANGED <<retained, lastRevision>>

LEMMA ElsewhereKeeps ==
    ASSUME ReportInv, NEW thread \in Threads, Elsewhere(thread)
    PROVE  ReportInv'
<1>1. Nobody \notin Threads
  BY ThreadsAssumption
<1>2. ReporterOwns'
  BY <1>1 DEF ReportInv, ReporterOwns, Elsewhere, Publishes
<1>3. RecordsRetained'
  BY DEF ReportInv, RecordsRetained, Elsewhere
<1>4. Recorded'
  <2> SUFFICES ASSUME \A t \in Threads : at'[t] # "record" PROVE lastRevision' = retained'
    BY DEF Recorded
  <2>1. \A t \in Threads : at[t] # "record"
    BY DEF Elsewhere
  <2> QED
    BY <2>1 DEF ReportInv, Recorded, Elsewhere
<1> QED
  BY <1>2, <1>3, <1>4 DEF ReportInv

LEMMA ReportingKeeps ==
    ASSUME TypeOK, ReportInv, NEW thread \in Threads, Reporting(thread)
    PROVE  ReportInv'
<1>1. /\ at \in [Threads -> Places] /\ document \in [Threads -> Documents]
      /\ carried \in [Threads -> Revisions]
      /\ Nobody \notin Threads
  BY ThreadsAssumption DEF TypeOK
<1>2. Rest(thread) \in {"snapshot", "idle"}
  BY DEF Rest
<1>3. CASE Snapshot(thread)
  <2>1. Elsewhere(thread)
    BY <1>1, <1>3 DEF Snapshot, Goto, Elsewhere
  <2> QED
    BY <2>1, ElsewhereKeeps
<1>4. CASE SkipReport(thread)
  <2>1. Elsewhere(thread)
    BY <1>1, <1>2, <1>4 DEF SkipReport, Return, Goto, Elsewhere
  <2> QED
    BY <2>1, ElsewhereKeeps
<1>5. CASE Report(thread)
  <2>1. Elsewhere(thread)
    BY <1>1, <1>5 DEF Report, Goto, Elsewhere
  <2> QED
    BY <2>1, ElsewhereKeeps
<1>6. CASE Publish(thread)
  <2>1. Elsewhere(thread)
    BY <1>1, <1>6 DEF Publish, Goto, Elsewhere, Publishes
  <2> QED
    BY <2>1, ElsewhereKeeps
<1>7. ASSUME Proceed(thread), at[thread] \in {"publish", "send"},
             UNCHANGED <<document, carried, retained, lastRevision>>
      PROVE  ReportInv'
  <2>1. document[thread] = "state" => reportMutex = thread
    BY <1>7 DEF ReportInv, ReporterOwns, Publishes
  <2>2. at' = [at EXCEPT ![thread] = "snapshot"] \/ at' = [at EXCEPT ![thread] = Rest(thread)]
    BY <1>7 DEF Proceed, Return, Goto
  <2>3. reportMutex' = reportMutex \/ document[thread] = "state"
    BY <1>7 DEF Proceed
  <2>4. Elsewhere(thread)
    BY <1>1, <1>2, <1>7, <2>1, <2>2, <2>3 DEF Elsewhere
  <2> QED
    BY <2>4, ElsewhereKeeps
<1>8. CASE PublishOffline(thread) \/ SendFails(thread)
  BY <1>7, <1>8 DEF PublishOffline, SendFails, Sending
<1>9. CASE Send(thread) /\ document[thread] # "state"
  BY <1>7, <1>9 DEF Send, Sending
<1>10. CASE Send(thread) /\ document[thread] = "state"
  <2>1. /\ at[thread] = "send" /\ at' = [at EXCEPT ![thread] = "record"]
        /\ retained' = carried[thread]
        /\ UNCHANGED <<document, carried, reportMutex, lastRevision>>
    BY <1>10 DEF Send, Sending, Goto
  <2>2. reportMutex = thread
    BY <1>10, <2>1 DEF ReportInv, ReporterOwns, Publishes
  <2>3. ReporterOwns'
    BY <1>1, <2>1, <2>2 DEF ReportInv, ReporterOwns, Publishes
  <2>4. RecordsRetained'
    BY <1>1, <2>1, <2>2 DEF ReportInv, ReporterOwns, RecordsRetained
  <2>5. Recorded'
    BY <1>1, <2>1 DEF Recorded
  <2> QED
    BY <2>3, <2>4, <2>5 DEF ReportInv
<1>11. CASE Record(thread)
  <2>1. /\ at[thread] = "record" /\ at' = [at EXCEPT ![thread] = Rest(thread)]
        /\ lastRevision' = carried[thread] /\ reportMutex' = Nobody
        /\ UNCHANGED <<document, carried, retained>>
    BY <1>11 DEF Record, Return, Goto
  <2>2. reportMutex = thread /\ retained = carried[thread]
    BY <2>1 DEF ReportInv, ReporterOwns, RecordsRetained
  <2>3. ReporterOwns'
    BY <1>1, <1>2, <2>1, <2>2 DEF ReportInv, ReporterOwns, Publishes
  <2>4. RecordsRetained'
    BY <1>1, <1>2, <2>1 DEF ReportInv, RecordsRetained
  <2>5. Recorded'
    BY <2>1, <2>2 DEF Recorded
  <2> QED
    BY <2>3, <2>4, <2>5 DEF ReportInv
<1> QED
  BY <1>3, <1>4, <1>5, <1>6, <1>8, <1>9, <1>10, <1>11 DEF Reporting

LEMMA ReportStep == TypeOK /\ ReportInv /\ [Next]_vars => ReportInv'
<1> SUFFICES ASSUME TypeOK, ReportInv, [Next]_vars PROVE ReportInv'
  OBVIOUS
<1>1. /\ at \in [Threads -> Places] /\ document \in [Threads -> Documents]
      /\ carried \in [Threads -> Revisions] /\ Mqtt \in Threads
  BY DEF TypeOK, Threads
<1>2. CASE UNCHANGED <<at, document, carried, reportMutex, retained, lastRevision>>
  BY <1>2 DEF ReportInv, ReporterOwns, RecordsRetained, Recorded, Publishes
<1>3. CASE Connected \/ ReceiveCommand \/ ReceiveRejected
  <2>1. Elsewhere(Mqtt)
    BY <1>1, <1>3 DEF Connected, ReceiveCommand, ReceiveRejected, HandleEvent, Goto, Elsewhere
  <2> QED
    BY <1>1, <2>1, ElsewhereKeeps
<1>4. CASE Handling
  <2>1. Elsewhere(Mqtt)
    BY <1>1, <1>4 DEF Handling, Greet, Submit, PublishResult, Goto, Elsewhere
  <2> QED
    BY <1>1, <2>1, ElsewhereKeeps
<1> QED
  BY <1>2, <1>3, <1>4, ReportingKeeps DEF Next, vars, ServiceWorks, Disconnected

LEMMA ReportAlways == Spec => []ReportInv
<1>1. Init => ReportInv
  <2> SUFFICES ASSUME Init PROVE ReportInv
    OBVIOUS
  <2>1. \A thread \in Threads : at[thread] \in {"snapshot", "idle"}
    BY DEF Init, Rest
  <2>2. lastRevision = retained
    BY DEF Init
  <2> QED
    BY <2>1, <2>2 DEF ReportInv, ReporterOwns, RecordsRetained, Recorded, Publishes
<1>2. TypeInv /\ ReportInv /\ [Next]_vars => ReportInv'
  BY ReportStep DEF TypeInv
<1> QED
  BY <1>1, <1>2, TypesAlways, PTL DEF Spec

\* Though two tasks report, what the adapter believes it reported last is what
\* the broker retains.
THEOREM BeliefIsRetained == Spec => []LastReportIsRetained
<1>1. ReportInv => LastReportIsRetained
  BY ThreadsAssumption DEF ReportInv, ReporterOwns, Recorded, LastReportIsRetained
<1> QED
  BY <1>1, ReportAlways, PTL

(***************************************************************************)
(* The result of a command                                                 *)
(***************************************************************************)

\* The MQTT task holds a snapshot for the command it handles.
Holds ==
    \/ at[Mqtt] \in {"report", "record"}
    \/ at[Mqtt] \in {"publish", "send"} /\ document[Mqtt] \in {"event", "state"}

ResultInv ==
    /\ handled <= revision
    /\ Holds => carried[Mqtt] \in handled..revision

LEMMA ResultStep == TypeOK /\ ResultInv /\ [Next]_vars => ResultInv'
<1> SUFFICES ASSUME TypeOK, ResultInv, [Next]_vars PROVE ResultInv'
  OBVIOUS
<1>1. /\ at \in [Threads -> Places] /\ document \in [Threads -> Documents]
      /\ carried \in [Threads -> Revisions] /\ Mqtt \in Threads
      /\ revision \in Nat /\ handled \in Nat /\ carried[Mqtt] \in Nat
      /\ Main # Mqtt
  BY ThreadsAssumption DEF TypeOK, Threads, Revisions
<1>2. CASE UNCHANGED <<at, document, carried, handled>> /\ revision' \in {revision, revision + 1}
  BY <1>1, <1>2 DEF ResultInv, Holds
<1>3. CASE Connected \/ ReceiveCommand \/ ReceiveRejected
  <2>1. ~Holds' /\ UNCHANGED <<handled, revision>>
    BY <1>1, <1>3 DEF Connected, ReceiveCommand, ReceiveRejected, HandleEvent, Goto, Holds
  <2> QED
    BY <2>1 DEF ResultInv
<1>4. CASE Greet
  <2>1. ~Holds' /\ UNCHANGED <<handled, revision>>
    BY <1>1, <1>4 DEF Greet, Goto, Holds
  <2> QED
    BY <2>1 DEF ResultInv
<1>5. CASE Submit
  <2>1. ~Holds' /\ handled' = revision' /\ revision' \in Nat
    BY <1>1, <1>5 DEF Submit, Goto, Holds
  <2> QED
    BY <2>1 DEF ResultInv
<1>6. CASE PublishResult
  <2>1. carried'[Mqtt] = revision /\ UNCHANGED <<handled, revision>>
    BY <1>1, <1>6 DEF PublishResult
  <2> QED
    BY <1>1, <2>1 DEF ResultInv
<1>7. ASSUME NEW thread \in Threads, Reporting(thread) PROVE ResultInv'
  <2>1. UNCHANGED <<handled, revision>>
    BY <1>7 DEF Reporting, Snapshot, SkipReport, Report, PublishOffline, Publish, Send,
                SendFails, Sending, Record
  <2>2. CASE Snapshot(thread)
    <3>1. CASE thread = Mqtt
      <4>1. carried'[Mqtt] = revision
        BY <1>1, <2>2, <3>1 DEF Snapshot
      <4> QED
        BY <1>1, <2>1, <4>1 DEF ResultInv
    <3>2. CASE thread # Mqtt
      <4>1. at'[Mqtt] = at[Mqtt] /\ carried'[Mqtt] = carried[Mqtt] /\ document' = document
        BY <1>1, <2>2, <3>2 DEF Snapshot, Goto
      <4> QED
        BY <2>1, <4>1 DEF ResultInv, Holds
    <3> QED
      BY <3>1, <3>2
  <2>3. CASE ~Snapshot(thread)
    <3>1. carried' = carried
      BY <1>7, <2>3 DEF Reporting, SkipReport, Report, PublishOffline, Publish, Send,
                        SendFails, Sending, Record
    <3>2. Holds' => Holds
      <4>1. CASE SkipReport(thread)
        BY <1>1, <4>1 DEF SkipReport, Return, Goto, Rest, Holds
      <4>2. CASE Report(thread)
        BY <1>1, <4>2 DEF Report, Goto, Holds
      <4>3. CASE Publish(thread)
        BY <1>1, <4>3 DEF Publish, Goto, Holds
      <4>4. CASE Record(thread)
        BY <1>1, <4>4 DEF Record, Return, Goto, Rest, Holds
      <4>5. CASE Proceed(thread) /\ document' = document
        BY <1>1, <4>5 DEF Proceed, Return, Goto, Rest, Holds
      <4>6. CASE Send(thread) /\ document[thread] = "state"
        BY <1>1, <4>6 DEF Send, Sending, Goto, Holds
      <4> QED
        BY <1>7, <2>3, <4>1, <4>2, <4>3, <4>4, <4>5, <4>6
           DEF Reporting, PublishOffline, Send, SendFails, Sending
    <3> QED
      BY <2>1, <3>1, <3>2 DEF ResultInv
  <2> QED
    BY <2>2, <2>3
<1> QED
  BY <1>1, <1>2, <1>3, <1>4, <1>5, <1>6, <1>7
     DEF Next, vars, ServiceWorks, Disconnected, Handling

\* For every number of revisions the result of a command, and the state that
\* is published after it, carry a revision that covers the command.
THEOREM ResultIsCurrent == Spec => []ResultCoversCommand
<1>1. Init => ResultInv
  <2> SUFFICES ASSUME Init PROVE ResultInv
    OBVIOUS
  <2>1. at[Mqtt] = "idle" /\ handled = revision /\ revision = 0
    BY ThreadsAssumption DEF Init, Rest, Threads
  <2> QED
    BY <2>1 DEF ResultInv, Holds
<1>2. TypeInv /\ ResultInv /\ [Next]_vars => ResultInv'
  BY ResultStep DEF TypeInv
<1>3. ResultInv => ResultCoversCommand
  BY DEF ResultInv, Holds, ResultCoversCommand
<1> QED
  BY <1>1, <1>2, <1>3, TypesAlways, PTL DEF Spec

(***************************************************************************)
(* The deadlock                                                            *)
(***************************************************************************)

\* The main loop does one thing; the library's task runs handlers, each over a
\* connection and under the library's lock.
Roles ==
    /\ at[Main] \in {"snapshot", "report", "publish", "send", "record"}
    /\ document[Main] = "state"
    /\ at[Mqtt] # "idle" => connected
    /\ clientLock = IF at[Mqtt] = "idle" THEN Nobody ELSE Mqtt

\* A mutex is locked by a thread that is in the middle of the call it guards,
\* and by each that is.
MutexesHeld ==
    /\ \A thread \in Threads : publishMutex = thread <=> at[thread] = "send"
    /\ \A thread \in Threads :
          reportMutex = thread <=> Publishes(thread) \/ at[thread] = "record"

LockInv == Roles /\ MutexesHeld

\* A step of one thread that leaves both mutexes to the other as they were.
Locks(thread) ==
    /\ at' = [at EXCEPT ![thread] = at'[thread]]
    /\ \A other \in Threads : other # thread =>
          /\ document'[other] = document[other]
          /\ publishMutex = other <=> publishMutex' = other
          /\ reportMutex = other <=> reportMutex' = other
    /\ publishMutex' = thread <=> at'[thread] = "send"
    /\ reportMutex' = thread <=>
          \/ at'[thread] \in {"publish", "send"} /\ document'[thread] = "state"
          \/ at'[thread] = "record"

LEMMA LocksKeep ==
    ASSUME TypeOK, MutexesHeld, NEW thread \in Threads, Locks(thread)
    PROVE  MutexesHeld'
<1>1. at \in [Threads -> Places]
  BY DEF TypeOK
<1>2. \A other \in Threads : other # thread => at'[other] = at[other]
  BY <1>1 DEF Locks
<1> QED
  BY <1>2 DEF MutexesHeld, Locks, Publishes

LEMMA ReportingLocks ==
    ASSUME TypeOK, LockInv, NEW thread \in Threads, Reporting(thread)
    PROVE  LockInv'
<1>1. /\ at \in [Threads -> Places] /\ document \in [Threads -> Documents]
      /\ Nobody \notin Threads /\ Main # Mqtt /\ Threads = {Main, Mqtt}
      /\ Rest(thread) = IF thread = Main THEN "snapshot" ELSE "idle"
  BY ThreadsAssumption DEF TypeOK, Threads, Rest
<1>2. \A t \in Threads : publishMutex = t <=> at[t] = "send"
  BY DEF LockInv, MutexesHeld
<1>3. \A t \in Threads :
         reportMutex = t <=> (at[t] \in {"publish", "send"} /\ document[t] = "state")
                               \/ at[t] = "record"
  BY DEF LockInv, MutexesHeld, Publishes
<1>4. CASE Snapshot(thread)
  <2>1. Locks(thread)
    BY <1>1, <1>2, <1>3, <1>4 DEF Snapshot, Goto, Locks
  <2>2. Roles'
    BY <1>1, <1>4 DEF LockInv, Roles, Snapshot, Goto
  <2> QED  BY <2>1, <2>2, LocksKeep DEF LockInv
<1>5. CASE SkipReport(thread)
  <2>1. Locks(thread)
    BY <1>1, <1>2, <1>3, <1>5 DEF SkipReport, Return, Goto, Locks
  <2>2. Roles'
    BY <1>1, <1>5 DEF LockInv, Roles, SkipReport, Return, Goto
  <2> QED  BY <2>1, <2>2, LocksKeep DEF LockInv
<1>6. CASE Report(thread)
  <2>1. Locks(thread)
    BY <1>1, <1>2, <1>3, <1>6 DEF Report, Goto, Locks
  <2>2. Roles'
    BY <1>1, <1>6 DEF LockInv, Roles, Report, Goto
  <2> QED  BY <2>1, <2>2, LocksKeep DEF LockInv
<1>7. CASE Publish(thread)
  <2>1. Locks(thread)
    BY <1>1, <1>2, <1>3, <1>7 DEF Publish, Goto, Locks
  <2>2. Roles'
    BY <1>1, <1>7 DEF LockInv, Roles, Publish, Goto
  <2> QED  BY <2>1, <2>2, LocksKeep DEF LockInv
<1>8. ASSUME Proceed(thread), UNCHANGED <<document, connected>>,
             \/ at[thread] = "publish" /\ publishMutex' = publishMutex
             \/ at[thread] = "send" /\ publishMutex' = Nobody
      PROVE  LockInv'
  <2>1. \A other \in Threads : other # thread => (publishMutex = other <=> publishMutex' = other)
    BY <1>1, <1>2, <1>8
  <2>2. publishMutex' # thread
    BY <1>1, <1>2, <1>8
  <2>3. CASE document[thread] = "event"
    <3>1. Locks(thread)
      BY <1>1, <1>3, <1>8, <2>1, <2>2, <2>3 DEF Proceed, Goto, Locks
    <3>2. Roles'
      BY <1>1, <1>8, <2>3 DEF LockInv, Roles, Proceed, Goto
    <3> QED  BY <3>1, <3>2, LocksKeep DEF LockInv
  <2>4. CASE document[thread] # "event"
    <3>1. Locks(thread)
      BY <1>1, <1>3, <1>8, <2>1, <2>2, <2>4 DEF Proceed, Return, Goto, Locks
    <3>2. Roles'
      BY <1>1, <1>8, <2>4 DEF LockInv, Roles, Proceed, Return, Goto
    <3> QED  BY <3>1, <3>2, LocksKeep DEF LockInv
  <2> QED  BY <2>3, <2>4
<1>9. CASE PublishOffline(thread) \/ SendFails(thread)
  <2>1. CASE PublishOffline(thread)
    BY <1>8, <2>1 DEF PublishOffline
  <2>2. CASE SendFails(thread)
    BY <1>8, <2>2 DEF SendFails, Sending
  <2> QED  BY <1>9, <2>1, <2>2
<1>10. CASE Send(thread) /\ document[thread] # "state"
  BY <1>8, <1>10 DEF Send, Sending
<1>11. CASE Send(thread) /\ document[thread] = "state"
  <2>1. Locks(thread)
    BY <1>1, <1>2, <1>3, <1>11 DEF Send, Sending, Goto, Locks
  <2>2. Roles'
    BY <1>1, <1>11 DEF LockInv, Roles, Send, Sending, Goto
  <2> QED  BY <2>1, <2>2, LocksKeep DEF LockInv
<1>12. CASE Record(thread)
  <2>1. Locks(thread)
    BY <1>1, <1>2, <1>3, <1>12 DEF Record, Return, Goto, Locks
  <2>2. Roles'
    BY <1>1, <1>12 DEF LockInv, Roles, Record, Return, Goto
  <2> QED  BY <2>1, <2>2, LocksKeep DEF LockInv
<1> QED
  BY <1>4, <1>5, <1>6, <1>7, <1>9, <1>10, <1>11, <1>12 DEF Reporting

LEMMA LockStep == TypeOK /\ LockInv /\ [Next]_vars => LockInv'
<1> SUFFICES ASSUME TypeOK, LockInv, [Next]_vars PROVE LockInv'
  OBVIOUS
<1>1. /\ at \in [Threads -> Places] /\ document \in [Threads -> Documents]
      /\ Nobody \notin Threads /\ Main # Mqtt /\ Threads = {Main, Mqtt}
  BY ThreadsAssumption DEF TypeOK, Threads
<1>2. CASE UNCHANGED <<at, document, connected, reportMutex, publishMutex, clientLock>>
  BY <1>2 DEF LockInv, Roles, MutexesHeld, Publishes
<1>3. CASE Disconnected
  BY <1>1, <1>3 DEF Disconnected, LockInv, Roles, MutexesHeld, Publishes
<1>4. \A t \in Threads :
         /\ publishMutex = t <=> at[t] = "send"
         /\ reportMutex = t <=> (at[t] \in {"publish", "send"} /\ document[t] = "state")
                                  \/ at[t] = "record"
  BY DEF LockInv, MutexesHeld, Publishes
<1>5. CASE Connected \/ ReceiveCommand \/ ReceiveRejected
  <2>1. Locks(Mqtt)
    BY <1>1, <1>4, <1>5
       DEF Connected, ReceiveCommand, ReceiveRejected, HandleEvent, Goto, Locks
  <2>2. Roles'
    BY <1>1, <1>5
       DEF LockInv, Roles, Connected, ReceiveCommand, ReceiveRejected, HandleEvent, Goto
  <2> QED  BY <1>1, <2>1, <2>2, LocksKeep DEF LockInv
<1>6. CASE Handling
  <2>1. Locks(Mqtt)
    BY <1>1, <1>4, <1>6 DEF Handling, Greet, Submit, PublishResult, Goto, Locks
  <2>2. Roles'
    BY <1>1, <1>6 DEF LockInv, Roles, Handling, Greet, Submit, PublishResult, Goto
  <2> QED  BY <1>1, <2>1, <2>2, LocksKeep DEF LockInv
<1> QED
  BY <1>2, <1>3, <1>5, <1>6, ReportingLocks DEF Next, vars, ServiceWorks

LEMMA LocksAlways == Spec => []LockInv
<1>1. Init => LockInv
  BY ThreadsAssumption DEF Init, LockInv, Roles, MutexesHeld, Publishes, Threads, Rest
<1>2. TypeInv /\ LockInv /\ [Next]_vars => LockInv'
  BY LockStep DEF TypeInv
<1> QED
  BY <1>1, <1>2, TypesAlways, PTL DEF Spec

\* The order in which the locks are taken leaves one way for the two tasks to
\* block each other; in every other state one of them goes on.
THEOREM OneDeadlock == Spec => []OnlyDeadlock
<1>1. TypeOK /\ LockInv => OnlyDeadlock
  <2> SUFFICES ASSUME TypeOK, LockInv, Waits(Main), Waits(Mqtt) \/ at[Mqtt] = "idle"
               PROVE  Deadlocked
    BY DEF OnlyDeadlock
  <2>1. /\ Main # Mqtt /\ Nobody # Mqtt /\ Main \in Threads /\ Mqtt \in Threads
        /\ {reportMutex, publishMutex} \subseteq {Main, Mqtt, Nobody}
    BY ThreadsAssumption DEF TypeOK, Threads
  <2>2. /\ publishMutex = Main <=> at[Main] = "send"
        /\ publishMutex = Mqtt <=> at[Mqtt] = "send"
        /\ reportMutex = Main <=> (at[Main] \in {"publish", "send"} /\ document[Main] = "state")
                                     \/ at[Main] = "record"
        /\ reportMutex = Mqtt <=> (at[Mqtt] \in {"publish", "send"} /\ document[Mqtt] = "state")
                                     \/ at[Mqtt] = "record"
    BY <2>1 DEF LockInv, MutexesHeld, Publishes
  <2>3. at[Main] = "send"
    BY <2>1, <2>2 DEF Waits, LockInv, Roles
  <2>4. clientLock = Mqtt /\ at[Mqtt] # "idle"
    BY <2>1, <2>2, <2>3 DEF Waits, LockInv, Roles
  <2> QED
    BY <2>3, <2>4 DEF Waits, Deadlocked
<1> QED
  BY <1>1, LocksAlways, TypeCorrect, PTL

\* No step of the program or of its surroundings leads out of the deadlock.
THEOREM DeadlockIsForever == Spec => DeadlockLasts
<1>1. TypeOK /\ LockInv /\ [Next]_vars => (Deadlocked => Deadlocked')
  <2> SUFFICES ASSUME TypeOK, LockInv, [Next]_vars, Deadlocked PROVE Deadlocked'
    OBVIOUS
  <2>1. /\ Main # Mqtt /\ Nobody # Mqtt /\ Nobody # Main /\ Threads = {Main, Mqtt}
        /\ at \in [Threads -> Places]
    BY ThreadsAssumption DEF TypeOK, Threads
  <2>2. /\ at[Main] = "send" /\ clientLock = Mqtt /\ connected
        /\ at[Mqtt] \in {"report", "publish"}
        /\ publishMutex = Main
    BY <2>1 DEF Deadlocked, LockInv, Roles, MutexesHeld
  <2>3. CASE UNCHANGED <<at, clientLock, connected>>
    BY <2>3 DEF Deadlocked
  <2>4. CASE Report(Mqtt)
    BY <2>1, <2>2, <2>4 DEF Report, Goto, Deadlocked
  <2>5. ~(Connected \/ Disconnected \/ ReceiveCommand \/ ReceiveRejected \/ Handling)
    BY <2>2 DEF Connected, Disconnected, ReceiveCommand, ReceiveRejected, HandleEvent,
                Handling, Greet, Submit, PublishResult
  <2>6. ~Reporting(Main)
    BY <2>1, <2>2 DEF Reporting, Snapshot, SkipReport, Report, PublishOffline, Publish,
                      Send, SendFails, Sending, Record
  <2>7. Reporting(Mqtt) => Report(Mqtt)
    BY <2>1, <2>2 DEF Reporting, Snapshot, SkipReport, Due, PublishOffline, Publish,
                      Send, SendFails, Sending, Record
  <2> QED
    BY <2>1, <2>3, <2>4, <2>5, <2>6, <2>7 DEF Next, vars, ServiceWorks
<1> QED
  BY <1>1, LocksAlways, TypeCorrect, PTL DEF Spec, DeadlockLasts
=============================================================================
