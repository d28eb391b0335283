------------------------------ MODULE DeviceSdk ------------------------------
(***************************************************************************)
(* The Dart SDK over its MQTT transport (firmware/sdk/lib/src): the device *)
(* registry, the pending commands, the wait at the end of a device set-up, *)
(* and the transport's connection generations.                             *)
(*                                                                         *)
(* Dart runs one event at a time and drains its microtasks before the next *)
(* one.  An action is an event with what it completes: a call of the       *)
(* application, a timer, the end of an I/O operation (the connection       *)
(* attempt, provisioning over BLE, the disposal of the BLE adapter).  Two  *)
(* things are microtasks of their own, between which the application may   *)
(* call again: each message that waits in the transport's stream _messages *)
(* and the rest of a connect or disconnect after the old client is let go. *)
(* What waits is handled before that rest: it was put there first, and the *)
(* library hands over one message per microtask, so little waits.  How far *)
(* a client has read is left open until it is let go of.                   *)
(*                                                                         *)
(* Around the SDK: the client library (the state of the connection,        *)
(* automatic reconnects that subscribe again) and brokers that retain      *)
(* presence and motor state, both external, and the devices, as far as the *)
(* SDK can tell: what they publish and when they are gone.                 *)
(***************************************************************************)
EXTENDS Integers, Sequences

CONSTANTS
    Devices,        \* all known device identifiers
    Motors,         \* those of them that are motors
    Scopes,         \* (server, port, account)
    NoScope,        \* _connectionScope before the first connect
    Home,           \* the scope in which each device is reached
    Commands,       \* command identifiers: _newCommandId does not repeat one
    DeviceOf,       \* the motor each command is for
    SetupDevice,    \* the device the provisioning name matches
    Unknown,        \* no record
    SetsUp,         \* bound: whether a device is set up meanwhile
    MaxGeneration,  \* bound on the connects and disconnects
    MaxRevision,    \* bound on the states a device publishes; the device goes on
                    \* for as long as it runs
    MaxSessions,    \* bound on the times a device connects
    MaxLosses,      \* bound on the times the network is lost
    MaxWaiting      \* bound on the messages about a device that wait in _messages

ASSUME DevicesAssumption ==
    /\ Motors \subseteq Devices /\ SetupDevice \in Devices
    /\ Home \in [Devices -> Scopes] /\ NoScope \notin Scopes
ASSUME CommandsAssumption == DeviceOf \in [Commands -> Motors]
ASSUME SdkBoundsAssumption ==
    /\ SetsUp \in BOOLEAN
    /\ MaxGeneration \in Nat /\ MaxRevision \in Nat
    /\ MaxSessions \in Nat /\ MaxLosses \in Nat /\ MaxWaiting \in Nat

VARIABLES
    life,            \* _disposed of the SDK, then of the transport
    scope,           \* _connectionScope
    connection,      \* _currentState.connection
    records,         \* _records: online, the domain data, its sequence number
    domainSequence,  \* _domainSequence
    pending,         \* the keys of _pending
    answer,          \* the future of each command
    setup,           \* DeviceSetup.complete
    baseline,        \* its baselineSequence
    published,       \* history: what its device had published when it began
    fresh,           \* history: whether newer data came in "late", after the
                     \* baseline was taken; "void" once the scope has changed
    generation,      \* _generation
    switching,       \* the connect or disconnect that is not through yet
    strays,          \* history: devices of another scope that were heard of while
                     \* the transport was switching, since the scope changed last
    attempts,        \* the generations whose client.connect() is running
    link,            \* the connection of the current client
    uplink,          \* what it has sent and the broker has not read
    subscribed,      \* the subscriptions the broker has read
    inbox,           \* what the broker has sent about each device; without a
                     \* connection, what waits in _messages
    losses,          \* how often the network was lost
    up,              \* is the device running and connected?
    sessions,        \* how often it has connected
    presence,        \* its retained presence
    revision,        \* the revision of the data it published last
    mail,            \* commands that reached their device
    decided,         \* commands the device has decided on
    verdict,         \* the first result it published for each
    repeated         \* commands it was given twice

callVars == <<pending, answer>>
setupVars == <<setup, baseline, published, fresh>>
sdkVars == <<scope, connection, records, domainSequence>>
linkVars == <<generation, attempts, link, uplink, subscribed>>
queueVars == <<switching, strays>>
deviceVars == <<losses, up, sessions, presence, revision, mail, decided, verdict,
                repeated>>

vars == <<life, sdkVars, callVars, setupVars, linkVars, inbox, queueVars, deviceVars>>

Topics == {"presence", "state", "event"}

Record == [online : BOOLEAN, data : 0..MaxRevision, sequence : Nat]

ASSUME UnknownAssumption == Unknown \notin Record

Subscribe(topic) == [subscribe |-> topic]
Publication(c) == [command |-> c]

PresenceMessage(status) == [topic |-> "presence", online |-> status]
StateMessage(rev) == [topic |-> "state", data |-> rev]
EventMessage(c, v) == [topic |-> "event", command |-> c, result |-> v]

Message ==
    [topic : {"presence"}, online : BOOLEAN]
      \cup [topic : {"state"}, data : 0..MaxRevision]
      \cup [topic : {"event"}, command : Commands, result : {"accepted", "rejected"}]

Packet == [subscribe : Topics] \cup [command : Commands]

Init ==
    /\ life = "open"
    /\ scope = NoScope
    /\ connection = "disconnected"
    /\ records = [d \in Devices |-> Unknown]
    /\ domainSequence = 0
    /\ pending = {}
    /\ answer = [c \in Commands |-> "uncalled"]
    /\ setup = "idle" /\ baseline = 0 /\ published = 0 /\ fresh = "no"
    /\ generation = 0 /\ attempts = {}
    /\ link = "none" /\ uplink = <<>> /\ subscribed = {}
    /\ inbox = [d \in Devices |-> <<>>]
    /\ switching = "no" /\ strays = {}
    /\ losses = 0
    /\ up = [d \in Devices |-> FALSE]
    /\ sessions = [d \in Devices |-> 0]
    /\ presence = [d \in Devices |-> "none"]
    /\ revision = [d \in Devices |-> 0]
    /\ mail = {} /\ decided = {}
    /\ verdict = [c \in Commands |-> "none"]
    /\ repeated = {}

(***************************************************************************)
(* Pending commands and state changes                                      *)
(***************************************************************************)

\* _PendingCommand.complete, or the timer's callback, and the removal of the
\* commands from _pending.
Complete(calls, result) ==
    /\ answer' = [c \in Commands |-> IF c \in calls THEN result ELSE answer[c]]
    /\ pending' = pending \ calls

\* Mutant of Ready: the message after the baseline does not count.
ReadyTooLate(recs, base) ==
    LET record == recs[SetupDevice] IN
    record # Unknown /\ record.online /\ record.sequence > base + 1

\* The test at the end of a set-up.
Ready(recs, base) ==
    LET record == recs[SetupDevice] IN
    record # Unknown /\ record.online /\ record.sequence > base

\* _emitState: the listener of _waitForReadyDevice runs within it.
EmitState(recs) ==
    /\ records' = recs
    /\ setup' = IF setup = "waiting" /\ Ready(recs, baseline) THEN "done" ELSE setup

\* Mutant of AllOffline: the devices keep their presence.
AllKept(recs) == recs

AllOffline(recs) ==
    [d \in Devices |->
        IF recs[d] = Unknown THEN Unknown ELSE [recs[d] EXCEPT !.online = FALSE]]

MarkAllOffline(state) ==
    /\ EmitState(AllOffline(records))
    /\ Complete(pending, "offline")
    /\ connection' = state

\* A state the transport lets through.
OnTransportState(state) ==
    IF life # "open" THEN UNCHANGED <<records, setup, connection, callVars>>
    ELSE IF state = "connected"
         THEN connection' = state /\ EmitState(records) /\ UNCHANGED callVars
         ELSE MarkAllOffline(state)

\* Mutant of Emit: superseded clients are heard.
EmitAlways(gen, state) == OnTransportState(state)

\* MqttControlTransport._emit: superseded clients are not heard.
Emit(gen, state) ==
    IF gen = generation /\ life # "closed"
    THEN OnTransportState(state)
    ELSE UNCHANGED <<records, setup, connection, callVars>>

(***************************************************************************)
(* connect, disconnect, dispose                                            *)
(***************************************************************************)

\* Nothing of a client that is gone waits in _messages.
Handled == link = "up" \/ \A d \in Devices : inbox[d] = <<>>

\* The microtasks are done: only then can the next event come.
Quiet == switching = "no" /\ Handled

FirstOf(q, n) == IF n < Len(q) THEN SubSeq(q, 1, n) ELSE q

\* What was read waits in _messages; the rest is never read.
StopReading ==
    IF link = "up"
    THEN \E n \in [Devices -> 0..MaxWaiting] :
            inbox' = [d \in Devices |-> FirstOf(inbox[d], n[d])]
    ELSE UNCHANGED inbox

\* _disconnectCurrent, _generation: nothing more of the old client is read, sent or
\* heard.
DropClient ==
    /\ link' = "none"
    /\ uplink' = <<>>
    /\ subscribed' = {}
    /\ StopReading

\* Mutant of ScopeChanges: the new scope was stored before the comparison.
ScopeNeverChanges(s) == scope # NoScope /\ s # s

ScopeChanges(s) == scope # NoScope /\ scope # s

\* The records, the sequence number and the calls of the scope that is left.
ClearScope ==
    /\ domainSequence' = 0
    /\ Complete(pending, "offline")
    /\ EmitState([d \in Devices |-> Unknown])
    /\ fresh' = "void"
    /\ strays' = {}

\* connect() until its first await.
Connect(s) ==
    /\ life = "open" /\ generation < MaxGeneration
    /\ generation' = generation + 1
    /\ DropClient
    /\ switching' = "connect"
    /\ scope' = s
    /\ IF ScopeChanges(s)
       THEN ClearScope
       ELSE UNCHANGED <<records, setup, callVars, domainSequence, fresh, strays>>
    /\ UNCHANGED <<life, connection, baseline, published, attempts, deviceVars>>

\* disconnect() until its first await.
Disconnect ==
    /\ life = "open" /\ generation < MaxGeneration
    /\ generation' = generation + 1
    /\ DropClient
    /\ switching' = "disconnect"
    /\ UNCHANGED <<life, sdkVars, callVars, setupVars, attempts, strays, deviceVars>>

\* The rest of the last connect or disconnect; an earlier one finds itself
\* superseded.
Switched ==
    /\ switching # "no" /\ Handled
    /\ switching' = "no"
    /\ IF switching = "connect"
       THEN attempts' = attempts \cup {generation} /\ OnTransportState("connecting")
       ELSE UNCHANGED attempts /\ OnTransportState("disconnected")
    /\ UNCHANGED <<life, scope, domainSequence, baseline, published, fresh, generation,
                   link, uplink, subscribed, inbox, strays, deviceVars>>

\* client.connect() succeeds, perhaps for a client that was superseded.
ConnectSucceeds(gen) ==
    /\ Quiet /\ gen \in attempts
    /\ attempts' = attempts \ {gen}
    /\ Emit(gen, "connected")
    /\ IF gen = generation /\ life # "closed"
       THEN /\ link' = "up"
            /\ uplink' = <<Subscribe("presence"), Subscribe("state"),
                           Subscribe("event")>>
       ELSE UNCHANGED <<link, uplink>>
    /\ UNCHANGED <<life, scope, domainSequence, baseline, published, fresh,
                   generation, subscribed, inbox, queueVars, deviceVars>>

\* It throws, or the broker rejects the connection.
ConnectFails(gen) ==
    /\ Quiet /\ gen \in attempts
    /\ attempts' = attempts \ {gen}
    /\ Emit(gen, "disconnected")
    /\ UNCHANGED <<life, scope, domainSequence, baseline, published, fresh, generation,
                   link, uplink, subscribed, inbox, queueVars, deviceVars>>

\* dispose() up to the disposal of the BLE adapter: the client still runs.
Dispose ==
    /\ life = "open"
    /\ life' = "disposing"
    /\ Complete(pending, "offline")
    /\ UNCHANGED <<sdkVars, setupVars, linkVars, inbox, queueVars, deviceVars>>

\* The rest of it; a set-up that waits for states finds their stream closed.
TransportDisposed ==
    /\ Quiet /\ life = "disposing"
    /\ life' = "closed"
    /\ generation' = generation + 1
    /\ DropClient
    /\ setup' = IF setup = "waiting" THEN "failed" ELSE setup
    /\ UNCHANGED <<sdkVars, callVars, baseline, published, fresh, attempts,
                   queueVars, deviceVars>>

(***************************************************************************)
(* Messages                                                                *)
(***************************************************************************)

Previous(d) ==
    IF records[d] = Unknown THEN [online |-> FALSE, data |-> 0, sequence |-> 0]
                            ELSE records[d]

StoreRecord(d, record) == EmitState([records EXCEPT ![d] = record])

OnPresence(d, message) ==
    /\ message.topic = "presence"
    /\ StoreRecord(d, [Previous(d) EXCEPT !.online = message.online])
    /\ UNCHANGED <<callVars, domainSequence, fresh>>

Freshness(d, data) ==
    IF d = SetupDevice /\ setup = "waiting" /\ data > published /\ fresh # "void"
    THEN "late" ELSE fresh

\* Mutant of OnDomainData: a device that publishes is online.
OnDomainDataOnline(d, message) ==
    /\ message.topic = "state"
    /\ domainSequence' = domainSequence + 1
    /\ StoreRecord(d, [online |-> TRUE, data |-> message.data,
                       sequence |-> domainSequence + 1])
    /\ fresh' = Freshness(d, message.data)
    /\ UNCHANGED callVars

\* "state" of a motor, "telemetry" of a sensor.
OnDomainData(d, message) ==
    /\ message.topic = "state"
    /\ domainSequence' = domainSequence + 1
    /\ StoreRecord(d, [Previous(d) EXCEPT !.data = message.data,
                                          !.sequence = domainSequence + 1])
    /\ fresh' = Freshness(d, message.data)
    /\ UNCHANGED callVars

\* Mutant of Matching: an event completes what waits for its device.
MatchingDevice(d, c) == {p \in pending : DeviceOf[p] = d}

\* The commands an event of device d about command c completes.
Matching(d, c) == {p \in pending : p = c /\ DeviceOf[p] = d}

OnEvent(d, message) ==
    /\ message.topic = "event"
    /\ StoreRecord(d, Previous(d))
    /\ Complete(Matching(d, message.command), message.result)
    /\ UNCHANGED <<domainSequence, fresh>>

\* _onMessage, whatever has become of the client that read the message.
Deliver(d) ==
    /\ inbox[d] # <<>>
    /\ inbox' = [inbox EXCEPT ![d] = Tail(@)]
    /\ strays' = IF switching # "no" /\ Home[d] # scope THEN strays \cup {d} ELSE strays
    /\ IF life = "open"
       THEN OnPresence(d, Head(inbox[d])) \/ OnDomainData(d, Head(inbox[d]))
              \/ OnEvent(d, Head(inbox[d]))
       ELSE UNCHANGED <<records, setup, callVars, domainSequence, fresh>>
    /\ UNCHANGED <<life, scope, connection, baseline, published, linkVars, switching,
                   deviceVars>>

(***************************************************************************)
(* Commands                                                                *)
(***************************************************************************)

IsOnline(d) == records[d] # Unknown /\ records[d].online

\* The client believes it is connected: MqttControlTransport.send goes through.
\* A call between a connect or disconnect and the rest of it counts as one before.
CanSend == link \in {"up", "broken"}

\* _command for a device that is not online, or with a send that throws.
CallUnsent(c) ==
    /\ answer[c] = "uncalled"
    /\ ~IsOnline(DeviceOf[c]) \/ ~CanSend
    /\ answer' = [answer EXCEPT ![c] = "unsent"]
    /\ UNCHANGED <<life, sdkVars, pending, setupVars, linkVars, inbox, queueVars,
                   deviceVars>>

Call(c) ==
    /\ answer[c] = "uncalled"
    /\ IsOnline(DeviceOf[c]) /\ CanSend
    /\ answer' = [answer EXCEPT ![c] = "waiting"]
    /\ pending' = pending \cup {c}
    /\ uplink' = IF link = "up" THEN Append(uplink, Publication(c)) ELSE uplink
    /\ UNCHANGED <<life, sdkVars, setupVars, generation, attempts, link, subscribed,
                   inbox, queueVars, deviceVars>>

\* Mutants of CommandTimeout: the command stays in _pending; the future is not
\* completed.
CommandTimeoutKept(c) ==
    /\ c \in pending
    /\ answer' = [answer EXCEPT ![c] = "timeout"]
    /\ UNCHANGED <<pending, life, sdkVars, setupVars, linkVars, inbox, queueVars,
                   deviceVars>>

CommandTimeoutSilent(c) ==
    /\ c \in pending
    /\ pending' = pending \ {c}
    /\ UNCHANGED <<answer, life, sdkVars, setupVars, linkVars, inbox, queueVars,
                   deviceVars>>

\* The timer of _PendingCommand (here it need not wait for the microtasks).
CommandTimeout(c) ==
    /\ c \in pending
    /\ Complete({c}, "timeout")
    /\ UNCHANGED <<life, sdkVars, setupVars, linkVars, inbox, queueVars, deviceVars>>

(***************************************************************************)
(* DeviceSetup.complete                                                    *)
(***************************************************************************)

\* A device can be found over BLE while it has no network to connect to; what
\* it sent before it lost its credentials has long been read.
StartSetup ==
    /\ SetsUp
    /\ ~up[SetupDevice] /\ inbox[SetupDevice] = <<>>
    /\ life = "open" /\ connection = "connected"
    /\ setup \in {"idle", "failed"}
    /\ setup' = "provisioning"
    /\ published' = revision[SetupDevice]
    /\ fresh' = "no"
    /\ UNCHANGED <<life, sdkVars, callVars, baseline, linkVars, inbox, queueVars,
                   deviceVars>>

Provisioned ==
    /\ Quiet /\ setup = "provisioning"
    /\ baseline' = domainSequence
    /\ setup' = IF Ready(records, domainSequence) THEN "done"
                ELSE IF life = "closed" THEN "failed"
                ELSE "waiting"
    /\ UNCHANGED <<life, sdkVars, callVars, published, fresh, linkVars, inbox,
                   queueVars, deviceVars>>

FailSetup ==
    /\ Quiet /\ setup' = "failed"
    /\ UNCHANGED <<life, sdkVars, callVars, baseline, published, fresh, linkVars,
                   inbox, queueVars, deviceVars>>

ProvisioningFails == setup = "provisioning" /\ FailSetup

\* No device was ready in time.
SetupTimeout == setup = "waiting" /\ FailSetup

(***************************************************************************)
(* The client library and the broker (external)                            *)
(***************************************************************************)

\* The network is gone; the client has not noticed.
LinkBreaks ==
    /\ link = "up" /\ losses < MaxLosses
    /\ losses' = losses + 1
    /\ link' = "broken"
    /\ uplink' = <<>>
    /\ subscribed' = {}
    /\ StopReading
    /\ UNCHANGED <<life, sdkVars, callVars, setupVars, generation, attempts, queueVars,
                   up, sessions, presence, revision, mail, decided, verdict, repeated>>

\* Keep-alive fails: onDisconnected, onAutoReconnect.
LossNoticed ==
    /\ Quiet /\ link = "broken"
    /\ link' = "down"
    /\ Emit(generation, "reconnecting")
    /\ UNCHANGED <<life, scope, domainSequence, baseline, published, fresh,
                   generation, attempts, uplink, subscribed, inbox, queueVars,
                   deviceVars>>

\* onAutoReconnected; resubscribeOnAutoReconnect.
Reconnects ==
    /\ Quiet /\ link = "down"
    /\ link' = "up"
    /\ uplink' = <<Subscribe("presence"), Subscribe("state"), Subscribe("event")>>
    /\ Emit(generation, "connected")
    /\ UNCHANGED <<life, scope, domainSequence, baseline, published, fresh,
                   generation, attempts, subscribed, inbox, queueVars, deviceVars>>

RetainedMessages(d, topic) ==
    IF Home[d] = scope /\ topic = "presence" /\ presence[d] # "none"
    THEN <<PresenceMessage(presence[d] = "online")>>
    ELSE IF Home[d] = scope /\ topic = "state" /\ d \in Motors /\ revision[d] > 0
         THEN <<StateMessage(revision[d])>>
         ELSE <<>>

BrokerSubscribes ==
    /\ link = "up" /\ uplink # <<>> /\ Head(uplink) \in [subscribe : Topics]
    /\ uplink' = Tail(uplink)
    /\ subscribed' = subscribed \cup {Head(uplink).subscribe}
    /\ inbox' = [d \in Devices |->
                    inbox[d] \o RetainedMessages(d, Head(uplink).subscribe)]
    /\ UNCHANGED <<life, sdkVars, callVars, setupVars, generation, attempts, link,
                   queueVars, deviceVars>>

BrokerForwards ==
    /\ link = "up" /\ uplink # <<>> /\ Head(uplink) \in [command : Commands]
    /\ uplink' = Tail(uplink)
    /\ LET c == Head(uplink).command IN
       mail' = IF up[DeviceOf[c]] THEN mail \cup {c} ELSE mail
    /\ UNCHANGED <<life, sdkVars, callVars, setupVars, generation, attempts, link,
                   subscribed, inbox, queueVars, losses, up, sessions, presence,
                   revision, decided, verdict, repeated>>

(***************************************************************************)
(* The devices                                                             *)
(***************************************************************************)

\* A message of device d reaches the client if it is subscribed.
Publish(d, message) ==
    inbox' = IF link = "up" /\ message.topic \in subscribed /\ Home[d] = scope
             THEN [inbox EXCEPT ![d] = Append(@, message)]
             ELSE inbox

\* MQTT_EVENT_CONNECTED: the announcement may fail, which is ignored.
DeviceConnects(d) ==
    /\ ~up[d] /\ sessions[d] < MaxSessions
    /\ up' = [up EXCEPT ![d] = TRUE]
    /\ sessions' = [sessions EXCEPT ![d] = @ + 1]
    /\ \/ /\ presence' = [presence EXCEPT ![d] = "online"]
          /\ Publish(d, PresenceMessage(TRUE))
       \/ UNCHANGED <<presence, inbox>>
    /\ UNCHANGED <<life, sdkVars, callVars, setupVars, linkVars, queueVars, losses,
                   revision, mail, decided, verdict, repeated>>

\* report(): the state has moved since the last time.  A publish that fails
\* changes nothing here.
DevicePublishes(d) ==
    /\ up[d] /\ revision[d] < MaxRevision
    /\ revision' = [revision EXCEPT ![d] = @ + 1]
    /\ Publish(d, StateMessage(revision[d] + 1))
    /\ UNCHANGED <<life, sdkVars, callVars, setupVars, linkVars, queueVars, losses, up,
                   sessions, presence, mail, decided, verdict, repeated>>

\* It stops, or loses the network: the broker will find out.
DeviceVanishes(d) ==
    /\ up[d]
    /\ up' = [up EXCEPT ![d] = FALSE]
    /\ mail' = {c \in mail : DeviceOf[c] # d}
    /\ UNCHANGED <<life, sdkVars, callVars, setupVars, linkVars, inbox, queueVars,
                   losses, sessions, presence, revision, decided, verdict, repeated>>

\* The last will.
BrokerNotices(d) ==
    /\ ~up[d] /\ sessions[d] > 0 /\ presence[d] # "offline"
    /\ presence' = [presence EXCEPT ![d] = "offline"]
    /\ Publish(d, PresenceMessage(FALSE))
    /\ UNCHANGED <<life, sdkVars, callVars, setupVars, linkVars, queueVars, losses, up,
                   sessions, revision, mail, decided, verdict, repeated>>

\* publishResult: the result goes out, or the publish fails and it is lost.
PublishResult(c) ==
    \/ \E v \in {"accepted", "rejected"} :
          /\ verdict' = IF verdict[c] = "none" THEN [verdict EXCEPT ![c] = v] ELSE verdict
          /\ Publish(DeviceOf[c], EventMessage(c, v))
    \/ UNCHANGED <<verdict, inbox>>

\* handleCommand.
DeviceDecides(c) ==
    /\ c \in mail
    /\ mail' = mail \ {c}
    /\ decided' = decided \cup {c}
    /\ PublishResult(c)
    /\ UNCHANGED <<life, sdkVars, callVars, setupVars, linkVars, queueVars, losses, up,
                   sessions, presence, revision, repeated>>

\* Delivered at least once: the device is given the command again.  It rejects it
\* as a duplicate, or takes it for new: its entry has expired or was overwritten.
DeviceRepeats(c) ==
    /\ c \in decided \ repeated /\ up[DeviceOf[c]]
    /\ repeated' = repeated \cup {c}
    /\ PublishResult(c)
    /\ UNCHANGED <<life, sdkVars, callVars, setupVars, linkVars, queueVars, losses, up,
                   sessions, presence, revision, mail, decided>>

(***************************************************************************)
(* The specification                                                       *)
(***************************************************************************)

Application ==
    \/ Disconnect \/ Dispose \/ StartSetup
    \/ \E s \in Scopes : Connect(s)
    \/ \E c \in Commands : Call(c) \/ CallUnsent(c)

Events ==
    \/ Switched \/ TransportDisposed \/ Provisioned \/ ProvisioningFails \/ SetupTimeout
    \/ \E gen \in attempts : ConnectSucceeds(gen) \/ ConnectFails(gen)
    \/ \E d \in Devices : Deliver(d)
    \/ \E c \in Commands : CommandTimeout(c)

Environment ==
    \/ LinkBreaks \/ LossNoticed \/ Reconnects \/ BrokerSubscribes \/ BrokerForwards
    \/ \E d \in Devices :
          \/ DeviceConnects(d) \/ DevicePublishes(d)
          \/ DeviceVanishes(d) \/ BrokerNotices(d)
    \/ \E c \in Commands : DeviceDecides(c) \/ DeviceRepeats(c)

Next == Application \/ Events \/ Environment

Spec == Init /\ [][Next]_vars

\* Timers fire.
Fairness == \A c \in Commands : WF_vars(CommandTimeout(c))

FairSpec == Spec /\ Fairness

(***************************************************************************)
(* Properties                                                              *)
(***************************************************************************)

TypeOK ==
    /\ life \in {"open", "disposing", "closed"}
    /\ scope \in Scopes \cup {NoScope}
    /\ connection \in {"disconnected", "connecting", "connected", "reconnecting"}
    /\ records \in [Devices -> Record \cup {Unknown}]
    /\ domainSequence \in Nat
    /\ pending \subseteq Commands
    /\ answer \in [Commands -> {"uncalled", "unsent", "waiting", "offline",
                                "timeout", "accepted", "rejected"}]
    /\ setup \in {"idle", "provisioning", "waiting", "done", "failed"}
    /\ baseline \in Nat /\ published \in 0..MaxRevision
    /\ fresh \in {"no", "late", "void"}
    /\ generation \in Nat /\ attempts \subseteq Nat
    /\ link \in {"none", "up", "broken", "down"}
    /\ uplink \in Seq(Packet)
    /\ subscribed \subseteq Topics
    /\ inbox \in [Devices -> Seq(Message)]
    /\ switching \in {"no", "connect", "disconnect"}
    /\ strays \subseteq Devices
    /\ losses \in 0..MaxLosses
    /\ up \in [Devices -> BOOLEAN]
    /\ sessions \in [Devices -> 0..MaxSessions]
    /\ presence \in [Devices -> {"none", "online", "offline"}]
    /\ revision \in [Devices -> 0..MaxRevision]
    /\ mail \subseteq Commands /\ decided \subseteq Commands
    /\ verdict \in [Commands -> {"none", "accepted", "rejected"}]
    /\ repeated \subseteq Commands

\* Once a connect or disconnect is through, the SDK shows the connection as it is
\* to the current client, however connects, disconnects, what still waits and late
\* outcomes of old attempts interleave (mqtt_control_transport.dart: the generation
\* checks).
ConnectionIsTrue ==
    life = "open" /\ switching = "no" =>
        connection = CASE link \in {"up", "broken"} -> "connected"
                       [] link = "down" -> "reconnecting"
                       [] link = "none" /\ generation \in attempts -> "connecting"
                       [] OTHER -> "disconnected"

\* No device is shown online over a connection that is not there
\* (_markAllOffline).
OnlineOnlyWhileConnected ==
    life = "open" /\ connection # "connected" => \A d \in Devices : ~IsOnline(d)

\* A change of scope leaves nothing of the old scope's devices (connect, the
\* clearing of _records; the generation checks of the listener).  The exception to
\* "data from one account cannot appear in another" (firmware/sdk/README.md:98-100):
\* what waited in _messages is recorded after the clearing, by the _onMessage that
\* asks for no scope; of that, no device is left online ("connecting").
ScopesKeptApart ==
    life = "open" =>
        \A d \in Devices :
            records[d] # Unknown /\ Home[d] # scope =>
                d \in strays /\ (switching = "no" => ~IsOnline(d))

\* Once everything the broker sent has been read, the registry agrees with the
\* broker on who is online and on the data of the motors, after any sequence of
\* disconnects, reconnects and restarts (_onMessage, _recordFor).
RegistryAgrees ==
    life = "open" /\ link = "up" /\ subscribed = Topics =>
        \A d \in Devices :
            Home[d] = scope /\ inbox[d] = <<>> =>
                /\ IsOnline(d) <=> presence[d] = "online"
                /\ d \in Motors /\ revision[d] > 0 =>
                       records[d] # Unknown /\ records[d].data = revision[d]

\* _pending holds the commands that wait for an answer: none is forgotten and
\* none stays behind (_command, _completePending, the timer's onTimeout).
PendingAreWaiting == pending = {c \in Commands : answer[c] = "waiting"}

\* Calls, answers and verdicts are those of CommandAnswers.
Answers == INSTANCE CommandAnswers
AnswersAreHonest == Answers!Spec

\* A set-up whose device is online does not wait although data the device
\* published since the set-up began came in after the baseline: losses,
\* reconnects and restarts during the wait do not hide it, as long as the scope
\* stays (_waitForReadyDevice).
NoWaitWhenReady == setup = "waiting" => ~(fresh = "late" /\ IsOnline(SetupDevice))

\* Every call is answered, also one whose connection is lost and one made while
\* the SDK is being disposed of (_PendingCommand).
EveryCallAnswered ==
    \A c \in Commands : answer[c] = "waiting" ~> answer[c] # "waiting"
=============================================================================
