# A formal model of the window motor, its sensor and their clients

The repository holds the firmware of two ESP32 devices (a motor unit that moves
a window, a sensor unit that measures the air), a Dart SDK that controls them
over MQTT and sets them up over BLE, and a Flutter app on top of it.  This
directory holds a TLA+ model of it: modules that TLC checks on small instances,
theorems about them that the TLA+ proof system checks for every instance, and
`PROJECT.json`, which maps every definition to the lines it models.

Paths below are relative to `src/`; `service.cpp` without a directory is
`firmware/main/components/service/service.cpp`, `mqtt_adapter.cpp` the one of
`firmware/main`.

## 1. The system

### Components, their state, what makes them correct

| Component | State it keeps | Operations | What must hold |
|---|---|---|---|
| `device_common` | the id cache: 8 entries and the next slot | position mapping both ways, validation, `accept` | nearest values, monotone, exact round trips where they can be; a live id runs again only after the ring has turned over; no command is refused without cause |
| `MotorService` | canonical state with a revision, last reading, id cache, a queue of request pointers, its worker | `submit`, `updateFeedback`, `snapshot`, shutdown | requests on callers' stacks stay owned; every call is answered, in order; targets stay within the travel; the state tells what the motor was told; a change has a new revision |
| `MotorController` over FastAccelStepper | the motor's pulses and target | `moveTo`, `stop`, `getPosition` | (used by the service) |
| `MotorFeedbackInput` | nothing but its task | a reading every 20 ms | readings keep coming while the service takes them |
| `MotorMqttAdapter` | revision and connection generation last reported | `handleCommand`, `report` | what it believes to be retained is retained; a result covers its command; the state catches up after every change and connection |
| `MqttBridge` | client handle, `connected_`, connection generation | `begin`, `stop`, `publish`, events | publishes are serialized; presence tells the truth; no lock order inversion |
| `app_main` (motor) | `mqtt_started`, time of the last report | a loop of 250 ms, the stop before a reset | reports do not go back in time; a reset leaves the motor at rest |
| `BleProvisioningRuntime` | `network_ready_`, `provisioning_active_`, `reset_armed_`, `reset_committed_` | Wi-Fi and provisioning events, two button handlers | one reset per press, refused if the device cannot be made safe, ending in provisioning; Wi-Fi reconnects; the flags follow the events; wrong credentials are given up |
| `StatusLed` | a signal per layer | `set`, `clear`, `updateConnectivity` | the highest layer set by anyone shows, and settles on what the README of the unit documents |
| `SensorService` | latest snapshot, its task, a stop flag | `start`, `stop`, `getLatest` | a stop comes back, and nothing samples after it; revisions grow |
| `SensorMqttAdapter` | the last snapshot, time of the last publish | `enqueue`, publishing task | snapshots are published in order, at most once a period, for ever |
| SDK (`sdk.dart`) | records per device, pending commands, connection scope, `_domainSequence` | `connect`, `disconnect`, commands, messages, set-up | a command completes once; records of one scope only; a device that is ready is really ready |
| MQTT control transport | client, generation, subscriptions | connect, reconnect, send | events of an old client are ignored |
| Provisioning workflow | session, phase | scan, connect, provision, cancel | sessions are closed on every path |
| App | command in flight, automatic mode, overrides, weather | buttons, automatic mode, settings | a recommendation is executed as shown; edits are not lost |

### How they interact

In the motor unit four tasks call into `MotorService`: the MQTT client's task
(a remote command), the button's task (a stop before a reset), the feedback
task (a reading every 20 ms) and `app_main` (snapshots).  The first three block
in `dispatch` until the service's worker has served their request.  Two tasks,
the MQTT task and `app_main`, publish the state through `MotorMqttAdapter` and
`MqttBridge`, each of which has a mutex; the MQTT client library has a lock of
its own, which its task holds while it runs the bridge's event handler.

In the app everything runs on one Dart isolate.  The SDK listens to the state
and message streams of its transport, which forwards callbacks of `mqtt_client`
stamped with the generation of the client they belong to; commands go out
through the transport and are answered by `event` messages; a device set-up
awaits the BLE adapter and then the first fresh message of the new device.

A unit of either kind starts in `app_main`, which begins its components one after
the other and then loops.  The Wi-Fi driver and the provisioning manager post
events that the default event loop's task hands to `BleProvisioningRuntime`; the
main loop reads its flags, starts the MQTT client once there is a network, and
writes the state of unit and connection to the LED, to which the button's task
writes too.  A long press calls the application's reset callback, which stops
the motor or the sampling; the release clears the credentials and restarts the
unit.  In the sensor unit the sampling task hands each snapshot to the
publishing task through a queue of one that a newer snapshot overwrites.

### What is hard

Requests on foreign stacks; time stamps taken before a queue and compared with
stamps taken by another task; two writers of one retained document; three locks
taken in two orders; rounding on both sides of an equality; an id cache that
forgets; arrival, stop and fault written into one field from two sides; flags
that lag behind the events of two sources; credentials that outlive a restart;
the last will of an old session against the presence of a new one; two tasks
writing layers of one LED; an unsigned clock that wraps, with a sentinel in its
range.  The full list, line by line, is `hazards` in `PROJECT.json`.

## 2. Plan

The order was: the pure layer and the core of the motor unit; the reporting of
its state; the SDK; then what surrounds them, a unit from its start to its
presence at the broker, the motor unit with its button and its LED, the sensor
unit; proofs behind each.  Done:

1. `DeviceCommon`, `CommandDeduplicator`, `PositionMapping` - the pure layer.
2. `StepperMotor`, `RequestServer`, `MotorService` - the core of the motor unit
   and the abstract server it implements.
3. `MotorReporting` - adapter, bridge and library locks under two tasks.
4. `CommandAnswers`, `DeviceSdk` - the SDK over its MQTT transport, and the
   abstract table of one-shot answers it implements.
5. `ResetButton`, `BleProvisioning`, `MqttBridge`, composed by `UnitPresence` -
   how a unit of either kind gets onto the Wi-Fi and to the broker, stays there
   and is reset, over losses of power.
6. `StatusLed`, `MotorUnit` - `app_main` of the motor unit: the LED two tasks
   write to, the reset against the commands of the MQTT task.
7. `LatestValue`, `SensorUnit` - the sampling task, the overwriting queue, the
   publishing task, and the abstract value that only moves forward.
8. Proofs: every invariant, action property and refinement that a passing run
   checks is a theorem; liveness stays with TLC.

Left, should the code around it move: the provisioning workflow of the SDK
(sessions, cancellation, `_setupBusy`) and the app's control of the window.

## 3. Modules

| Module | Models | Notes |
|---|---|---|
| `DeviceCommon` | `device_common.cpp` | operators only; ids are model values, `TimeLimit` is the largest `uint64_t` stamp |
| `CommandDeduplicator` (+`MC`) | `CommandDeduplicator` offered commands by one task | `history` and `refused` are history variables: what was accepted, and the last refusal |
| `PositionMapping` | both mappings against their definition | TLC walks every travel, position and step count |
| `StepperMotor` | `MotorController`, FastAccelStepper (external) | a motor is a position, a heading, whether it seeks, and its goal |
| `RequestServer` | - | what callers of the service are promised: an abstract specification |
| `MotorService` (+`MC`) | `service.cpp`, its callers' side of `mqtt_adapter.cpp`, `motor_feedback.cpp`, `main.cpp` | see below |
| `MotorReporting` | `mqtt_adapter.cpp`, `mqtt_bridge.cpp`, the loop of `main.cpp` | see below |
| `CommandAnswers` | - | what a caller of a motor command is promised: an abstract specification |
| `DeviceSdk` (+`MC`) | `sdk.dart`, its parts, `mqtt_control_transport.dart`, what the SDK sees of the devices' firmware; client library and broker (external) | see below |
| `ResetButton` | the button handlers of `ble_provisioning.cpp` | extended by the three modules of a unit, which say what the reset callback does |
| `BleProvisioning` | `ble_provisioning.cpp`; Wi-Fi driver, provisioning manager, phone (external) | see below |
| `MqttBridge` | `mqtt_bridge.cpp`: the connection and the presence; broker (external) | see below |
| `UnitPresence` | the start of the MQTT client in the loop of both `main.cpp` | composes `BleProvisioning` and `MqttBridge` |
| `StatusLed` | `status_led.cpp` | operators only: a call of the LED is a record |
| `MotorUnit` | `main.cpp` with the reset, the LED and what it needs of the service | composes `ResetButton` and `StatusLed` |
| `LatestValue` | - | what subscribers of the sensor are promised: an abstract specification |
| `SensorUnit` | `firmware/sensor`: `service.cpp`, `mqtt_adapter.cpp`, `main.cpp` | composes `ResetButton` with the pipeline |
| `*Proofs` (eight) | - | the theorems about the module of that name |

**`MotorService`.**  A calling task goes `idle -> sending -> waiting -> idle`
(`phase`): `Dispatch` builds the request on its stack and reaches `xQueueSend`,
`Enqueue` gets the pointer into the queue when there is room, `Complete` is the
semaphore.  The queue holds pointers: in the model the tasks whose `request` is
meant.  The worker takes a request (`Take`) and serves it in one step, because
`processCommand` and `processFeedback` run under `mutex_` from beginning to end
and only the worker writes what they touch; `snapshot`, the one reader outside,
takes the same mutex.  Each outcome of `processCommand` is an action:

| Code | Action |
|---|---|
| `service.cpp:141-150` invalid or duplicate | `RefuseCommand` |
| `service.cpp:153-157` stop | `StopMotor` |
| `service.cpp:160, 177, 189` | `RefuseWithoutFeedback` |
| `service.cpp:163-198` accepted | `StartMove` |
| `service.cpp:163-198`, `motor_.moveTo` false | `RefuseMove` |
| `processFeedback` | `ApplyFeedback` |
| `taskLoop`, shutdown, then `task_ = nullptr` | `StopWorker`, `WorkerExits` |
| `~MotorService`: shutdown, wait for `task_`, `vQueueDelete` | `Destroy`, `DeleteQueue` |

The destructor deletes the queue without looking who is blocked on it: a caller
found there stays where it is, because from then on it waits on freed memory,
about which nothing can be said.

Branches the code cannot reach are left out: `positionFeedbackAvailable` implies
`feedback_.position_valid` under the same mutex, so `PositionUnknown` is never
returned (`service.cpp:92, 166, 180, 192`), and a parsed position always maps to
steps.  A remote command carries its stamp twice (`received_at_ms` and `now_ms`
are one reading of the clock, `mqtt_adapter.cpp:168`), so validation never finds
it expired.  The motor turns and pulses on its own (`MotorTurns`,
`MotorPulses`): a moving motor asked to turn back, or to stop, coasts first, as
far as `Overrun` beyond an end; without a command on the way it lands exactly on
its goal.  Nothing else is assumed of the library.

**`MotorReporting`.**  The service is reduced to its revision, which is sound
because a state never changes without it (`RevisionTracksState`, proved).  Each
of the two tasks walks through the code between the points where it can block or
be overtaken: `Snapshot`, `Report` (mutex of the adapter, generation read),
`Publish` (mutex of the bridge), `Send` (lock of the library), `Record`.  The
MQTT task gets there from an event: a connection (`Greet` publishes presence), a
command (`Submit`, `PublishResult`, then a forced report), a retained or
malformed command (a refusal only).  What is assumed of the library (external:
`espressif/mqtt`): one task runs all event handlers, under a recursive lock that
`esp_mqtt_client_publish` takes as well; messages reach the broker in the order
of the calls.  A send may fail, with or without a connection (`SendFails`).

**`DeviceSdk`.**  Dart runs one event at a time and its microtasks before the
next, so an action is an event with the futures it completes: a call of the
application (`Connect`, `Disconnect`, `Dispose`, `Call`, `StartSetup`), a timer
(`CommandTimeout`, `SetupTimeout`), the end of an I/O operation
(`ConnectSucceeds`, `ConnectFails`, `Provisioned`, `ProvisioningFails`,
`TransportDisposed`).  The asynchronous gaps are where the code awaits:
`client.connect()` (several attempts may be under way, one per generation),
provisioning over BLE, the disposal of the BLE adapter between the two halves of
`dispose()`, and two that are only microtasks long:

- `connect` and `disconnect` await the end of the old subscription and go on
  afterwards (`Switched`); the application may call again in between, which
  supersedes the rest.
- `_messages` is an asynchronous stream: a message that the transport has read
  waits there for a microtask of its own (`Deliver`).  `inbox` is what the broker
  sent; when the client is let go of, any beginning of it of at most `MaxWaiting`
  messages has been read and stays, to be handled whatever the application did
  meanwhile (`StopReading`).  It is handled before the rest of the connect or
  disconnect: it was put there first, and the library hands over one message per
  microtask, so that little waits.

`EmitState` contains the listener of `_waitForReadyDevice`, because
`_stateChanges` is synchronous.

| Code | Action or operator |
|---|---|
| `sdk.dart` `_emitState`, `_markAllOffline`, `_onTransportState` | `EmitState`, `MarkAllOffline`, `OnTransportState` |
| `_onMessage`, `_recordFor` | `OnPresence`, `OnDomainData`, `OnEvent`, `Previous`, `StoreRecord` |
| `_command`, `_PendingCommand` | `CallUnsent`, `Call`, `Complete`, `CommandTimeout` |
| `_DeviceSetupImpl.complete`, `_waitForReadyDevice` | `StartSetup`, `Provisioned`, `Ready`, `SetupTimeout` |
| transport `connect`, `disconnect`, `_emit`, `_disconnectCurrent` | `Connect`, `Disconnect`, `Switched`, `ConnectSucceeds`, `ConnectFails`, `Emit`, `DropClient` |
| `_updates`, `_messages`, `_onMessages` | `StopReading`, `Deliver` |
| firmware: `handleEvent`, `report`, `handleCommand`, `publishResult`, a duplicate | `DeviceConnects`, `DevicePublishes`, `DeviceDecides`, `PublishResult`, `DeviceRepeats` |

Around it are the library (a link that is `up`, `broken` before the library
notices, or `down` while it reconnects) and brokers that retain presence and the
state of motors, deliver in order per device and send last wills.  The devices
are what the SDK can see of their firmware: they connect and announce themselves,
or fail to; they publish a state whenever its revision has moved, which it does
every 20 ms (`service.cpp:227`) and is reported every 2 s (`main.cpp:173`), so
that `MaxRevision` cuts off a sequence that goes on; they decide on a command and
publish the result, or lose it; given a command twice they answer twice,
with a refusal or, when the id has expired or was overwritten, with a second
verdict.  So a command that was executed may be reported with the result of its
second delivery, if that of the first was lost: `verdict` is what the device
published first.  Telemetry is domain data that is not retained: `Devices \
Motors`.  `published` and `fresh` are history variables: what the device of a
set-up had published when it began, and whether newer data came in after the
baseline was taken (`late`).  A set-up starts for a device that is not connected
and whose messages have been read: it is found over BLE because it has no
credentials.

**`BleProvisioning`.**  The Wi-Fi driver and the manager post events into the
default event loop (`Post`), whose task handles one at a time in order
(`Handle`); what the driver and the manager are and what the unit believes
(`ready`, `active`) differ by the events in between.  `stored` is all that
survives `Restart` and `PowerFails`.

| Code | Action |
|---|---|
| `ble_provisioning.cpp` `begin` and what it calls | `Begin` |
| `handleSystemEvent` | `GotIp`, `Disconnected` |
| `handleManagerEvent` | `CredFail`, `End` |
| `handleLongPressStart` up to the callback, its return | `LongPressStart`, `CallbackReturns` |
| `handleLongPressUp`: exchange of both flags, key level | `LongPressUp` |
| `clearProvisioning` true, `esp_restart` | `ClearSucceeds` (`ClearCredentials`), `ButtonRestarts` (`Restart`) |
| `clearProvisioning` false, the failure callback | `ClearFails`, `FailureCallbackReturns` |

Assumed of the manager (external: `espressif/network_provisioning`): it stores
credentials as they arrive, tries them a number of times, reports a failure, and
after a success neither reconnects nor tries again until it ends;
`network_prov_mgr_reset_wifi_sm_state_on_failure` erases them and lets it listen
again, or fails and leaves both as they are: `CredFail` ignores the result.  Of the
driver: `esp_wifi_connect` has an effect on an idle station.

**`MqttBridge`.**  `client` is `client_` with its flags; `session` the session of
the unit at the broker, named by the last will it was opened with.  The broker
takes a session over when the client id connects again, publishes the last will
of a session that ends without a DISCONNECT (the firmware never sends one), and
retains presence.  `unannounced` tells that `publishPresence` failed, which
`handleEvent` ignores.  A publish the client stored and could not deliver is
sent again over the next connection, where the new announcement says the same.

**`MotorUnit`.**  What it needs of the service is what `MotorService` proves:
requests are served one at a time in the order they were queued, a stop is
always accepted, a served request leaves a state that tells the motion.  The
main loop is two steps a round, the state of the motor and the connection; the
calls of the LED each makes are queued in `calls` and made one by one
(`LedCall`), because each takes the LED's mutex by itself and the button task
makes its own in between (`BeginReset`, `ResetFails`).  The first call of a list
is made in the step that reads what it shows (`Make`).  The three flags of the
connection (`link`) belong to three components and change one by one: between
`GOT_IP` and `PROV_END` a unit is provisioning, has its address and may have its
broker.  The LED is compared with the table of the README (`TableSignal`), not with
what the LED was told; `abandoned` is a history variable: the last long press came
to no restart.

| Code | Action |
|---|---|
| `main.cpp:135-156` start and its failures | `BootStep` |
| `main.cpp:158-169`, `updateMotorLed` | `ShowState`, `MotorCalls` |
| `main.cpp:170-178`, `updateConnectivity` | `ShowLink`, `ConnectivityCalls` |
| `stopForProvisioningReset` up to `submit`, `submit`, its return | `BeginReset`, `StopForReset`, `ServeStop` |
| `showProvisioningResetFailure` | `ResetFails` |
| `handleCommand` up to `submit` | `SubmitMove` |
| `processCommand`, `processFeedback` | `ServeMove`, `ServeStop`, `ServeReading` |

The branch `!stopped` of `stopForProvisioningReset` is left out: a local stop is
always accepted (`service.cpp:152-157`).

**`SensorUnit`.**  A snapshot is its revision.  The sampling task is a step per
shared access: the loop's condition, `sampleOnce`, `latest_`, the callback with
`xQueueOverwrite`, the sleep.  The adapter's task receives, decides on clock and
connection, and publishes; `last_publish` is set whatever becomes of the
attempt, which may fail with a connection as well as without one and is then not
repeated, and may take as many ticks as it likes (`Tick`).  `published` is what
was handed to the MQTT client: that is the order of which `NeverBackwards`
speaks.  What the client's outbox sends again over a new connection, as QoS 1
asks, is not modelled; a subscriber can tell such a repetition by its revision.
The clock is `xTaskGetTickCount()` modulo `TickModulus`, and 0 is the code's
"never".  The button works from the end of `provisioning.begin` (`ButtonWorks`),
before `service.start`, and goes on working when `adapter.begin` or
`service.start` fails and `app_main` returns.

| Code | Action |
|---|---|
| `SensorService::start`, `stop` | `Start`, `RequestStop` and `StopReturns` |
| `SensorService::taskLoop` | `CheckStop`, `SampleOnce`, `StoreLatest`, `HandOver`, `Sleep`, `Wake` |
| `SensorMqttAdapter::taskLoop`, `publish` | `Receive`, `Decide` (`Due`), `PublishSucceeds`, `PublishFails` |

## 4. Runs

Run with `tlc -config X.cfg M` in this directory.

| Run | Question | Bounds, and why they are enough |
|---|---|---|
| `CommandDeduplicatorRing` | what does the cache remember? | capacity 2 and 5 acceptances: the ring turns over twice; 4 ids (symmetric), ttl 1 and 3, clock to 4, largest stamp 5 so that some expiries overflow |
| `PositionMapping` | are both mappings nearest, and are the round trips exact where they can be? | 12 positions, travels 1..31: below, at and above, odd and even; half-way cases occur |
| `MotorServiceSafety` | are requests owned and answered once and in order, is the target bounded, does the state tell the truth, does a change have a new revision, is the motor at rest after a shutdown? | a client, the feedback task and one task for the button and the owner; queue of 2: a sender blocks, the shutdown is served with requests behind it; a travel of one step with one step of overrun: readings can be invalid; clock to 1, so that stamps from before a reading occur (readings too old are left to the proofs); the revision wraps at 3 |
| `MotorServiceLive` | is every call answered, does the motor come to rest with a state that says so? | two ids, the clock stands; under `FairSpec` |
| `MotorReporting` | does the adapter know what is retained, does a result cover its command, does the state catch up after changes and connections, is there one deadlock only? | 4 revisions, 2 connections; under `FairSpec` |
| `MotorReportingDeadlock` (violated) | is the state reported whatever the two tasks do? | 2 connections |
| `DeviceSdkCommands` | is each command answered, never twice, never with another verdict than its own? | two commands for one motor, a network lost once, a reconnect or disconnect, a disposal: late events, lost results, repeated deliveries and offline answers overlap; no set-ups; under `FairSpec` |
| `DeviceSdkRegistry` | does the SDK show the true connection, does a change of scope clear the records, does the registry catch up with the broker; does a ready set-up wait? | three generations, so that attempts are superseded and a scope is left and entered again; two sessions and two states of the device, so that retained data is repeated, and is old or new; one message that waits in the stream, about the one device; set-ups |
| `UnitPresence` | does a unit find to the Wi-Fi and to the broker, do its flags follow, does a reset end in provisioning, does the broker ever say "online" of a unit that is gone for good? | 4 waiting events and 2 losses of power: a drop, an address and an end can wait together, and a unit can lose its power both while it is provisioned and after a reset; 192720 states, under `UnitFairSpec` |
| `MotorUnit` | does a unit that is reset restart with a motor at rest, does the LED settle on what the README's table says, but for the magenta of an abandoned reset? | one direction of motion (the two differ in the colour only), a green signal of one round; the queue holds at most a move and the stop; 1.9 million states, under `FairSpec` |
| `MotorUnitMagenta` (violated) | does magenta mean that a reset was accepted? | as `MotorUnit` |
| `SensorUnit` | do subscribers see ever newer values, a period apart, for ever; does a reset stop the sampling and come back? | a period of 2 ticks on a counter that wraps at 4: it wraps over and over, on and off a publish; 3 revisions, so that one can be published, one held and one on its way; under `FairSpec` |

The bounds of `DeviceSdk` are `MaxGeneration` (connects and disconnects),
`MaxRevision` (states per device), `MaxSessions` (connections per device),
`MaxLosses` (losses of the network), `MaxWaiting` (messages in the stream) and
`SetsUp` (whether a device is set up meanwhile).  Those of a unit are `MaxEvents`
(a full event loop makes the poster wait) and `MaxOutages`; the sensor's
`MaxRevision` stops the count, not the sampling.

The type invariants are proved for all constants (section 6) and not listed with
the runs.  Every property of a passing run has a mutant in `PROJECT.json`: a
plausible bug in one mapped definition which the run finds.  The mutants stand
next to the definitions they change.

Deadlock is checked in `MotorServiceLive`.  It is off where the system really
stops: the cache and the mapping run out of their bounds; in
`MotorServiceSafety` a caller left in the queue of a destroyed service waits for
ever; in `MotorReporting` two tasks can deadlock (a finding), or the connection
is gone for good; an SDK that was disposed of does nothing any more; a unit
whose start failed does nothing more.

**Fairness.**  `MotorService!FairSpec`: FreeRTOS schedules the worker and every
sender (weak fairness: nothing disables a queue head, and the queue has a place for
every caller, 8 in the code and 2 for the 2 callers of `MotorServiceLive`, so
that no sender waits for room; with fewer places than callers one sender could
overtake another for ever), the feedback task loops for ever, the library carries out a move.
Nothing obliges a client or a user.  `MotorReporting!FairSpec`: both tasks run;
strong fairness for what takes a mutex, because the other task frees and takes
it again and FreeRTOS hands it to the waiting task of the highest priority; and a
main loop that tries to send over and over succeeds in the end.
Nothing obliges the network to connect.  `DeviceSdk!FairSpec`: a timer fires.
Nothing obliges the network, the broker, a device or the application.
`UnitPresence!UnitFairSpec`: the event task, the main loop and the MQTT task
run, the manager ends on its own timer, an association and a connection that are
tried over and over succeed in the end (strong fairness: each failure is
followed by another attempt), the broker takes what arrives and watches the
keepalive.  `UnitComesOnline` itself supposes a network that is steady from some
time on.  Nobody has to provision a unit or touch its button.
`MotorUnit!FairSpec`: `app_main` runs; the service may be as late as it likes, the
motor, the network and the button need never do anything.  `SensorUnit!FairSpec`:
all tasks of the unit run, a read of a sensor ends by its timeout, a publish ends,
and one that is tried over and over with a connection succeeds in the end; the
user and the network do as they like.

## 5. What the checks found

Two runs refute what the repository says of the program:

1. *Two tasks can deadlock* (`MotorReportingDeadlock`).  The main loop takes
   `publish_mutex_` and then, in the library, the client's lock; the MQTT task
   holds the client's lock when it takes `publish_mutex_` (presence, results) or
   `report_mutex_`.
2. *Magenta can mean "given up"* (`MotorUnitMagenta`).  `firmware/main/README.md:98`
   and `firmware/sensor/README.md:80` document the signal of an accepted reset; it
   is set before the stop is even tried (`main.cpp:63`) and never cleared, so it
   stays after a release that was not stable or a clearing that failed.
   `LedSettles` holds with that exception.

The others were met while modelling.  They are exceptions in a property, which
says how far the promise goes, or are described here only:

- *A live id can be executed twice.*  `mqtt-v1.md:23` says live duplicates are
  rejected; the ring overwrites the slot after the last one whether or not it is
  live, so after 8 other commands an id is forgotten.  `DuplicateNeedsFullRing`
  says what is guaranteed instead.
- *A fresh position can be called unavailable.*  A command stamped just before a
  reading but queued just after it is older than the reading, which
  `positionFeedbackAvailable` (`service.cpp:70`) takes for unavailable: the
  command is refused and the state goes to fault.
- *The retained state can go back.*  The main loop publishes a snapshot taken
  before a command was served and reported (`main.cpp:168, 174`); the next
  report corrects it (`CatchesUp`).
- *The stop of a reset does not end the moves.*  The MQTT task goes on submitting
  until the restart; a move served after the stop drives the motor while the
  unit restarts (`late` in `RestartsAtRest`).
- *A retry can be refused as a duplicate.*  The id of a command is remembered
  before the feedback is checked (`service.cpp:146`): who repeats a command that
  was refused for want of feedback, under the same id, is told `duplicate_command`.
- *A failed clearing is shown for one round.*  The red blink it sets is cleared by
  the next round of the main loop (`MotorCalls`).
- *A drop can strand the station.*  A drop handled after provisioning has
  succeeded and before its end is reconnected by nobody (`lateDrop` in
  `NobodyStranded`).
- *Wrong credentials can outlive a restart.*  The manager stores them on arrival;
  a restart before their failure is handled, or an erasing that fails, leaves a
  unit that tries them for ever and offers no provisioning (`interrupted` in
  `WrongOnlyIfInterrupted`).
- *An announcement can be lost.*  Nothing repeats an "online" the client did not
  take (`unannounced` in `ConnectedIsAnnounced`).
- *Sampling can start after a reset stopped it*: a press completed between the
  start of provisioning and the start of the sampling (`startedLate`, which speaks
  of that reset only: the next one stops the sampling).
- *Data of one account can appear in another.*  A message that waits in `_messages`
  when the application, from a microtask, connects to another scope is recorded
  after the records were cleared: `_onMessage` (`sdk.dart:190`) asks for no scope
  and no generation, the transport only before it puts the message there.
  `firmware/sdk/README.md:98` promises more than what remains true, that only what
  waited gets in and no device stays online by it (`strays` in `ScopesKeptApart`).
- *A set-up can end on an old state.*  `_domainSequence` counts the retained state
  that the broker sends when a subscription takes effect, as after a reconnect
  during the wait, as fresh (`sdk.dart:206`); with a presence that no last will has
  taken back yet, `complete` succeeds although the device has published nothing,
  against `firmware/sdk/README.md:145`.
- *Data can come before the baseline.*  A set-up reads `_domainSequence` after
  provisioning returned (`sdk_setup_impl.dart:40`) and counts what came in
  meanwhile as old.  It does not wait in vain: the next report follows within 2 s, that of a
  sensor within 5 s, of the 20 s it waits.
- *Tick 0 reads as "never".*  A publish at that tick is followed by another
  without a wait (`PublishesSpaced`).
- A change of scope resets `_domainSequence` (`sdk.dart:107`) while the baseline
  of a waiting set-up stays, so that it misses fresh data; `NoWaitWhenReady`
  therefore stops at a change of scope (`fresh = "void"`).

## 6. What is proved

By `tlapm`, for every value of the constants that satisfies the named
assumptions (in the modules that declare them; TLC evaluates them on each run).
They are sizes and ranges, and that a placeholder is none of the values it stands
apart from, as `UnknownAssumption` (no record of a device is `Unknown`):

- `CommandDeduplicatorProofs`: `TypeCorrect`; `RingHoldsHistory` by induction on
  steps: accepting moves every entry's age by one and puts the new acceptance at
  age 0, and the sweep frees expired entries only; `AtMostOncePerTurn` and
  `RefusalsAreJustified` follow from the ring invariant, the order of stamps in
  the history and the clock not going back.
- `PositionMappingProofs`: range, monotonicity and both round trips of the
  mapping, from two facts on rounded division.  `MappingNearest` (`Nearest`) adds
  that no other quotient is closer (`RoundedClosest`), and `MappingRoundTrips`
  (`RoundTrips`) puts the parts together along the walk of `PositionMapping`,
  whose position and steps stay within the travel (`InRange`).
- `MotorServiceProofs`: the inductive invariant is `TypeOK`, `RequestsOwned` and
  `Motion`.  `RequestsOwned` is inductive with `TypeOK`: every action moves at
  most one pointer.  `Motion` strengthens `StatusTellsMotion` by
  `IdleUnlessRunning` (before the worker runs and after it stopped the motor
  seeks nothing), which is what makes `QuietAfterShutdown` and the boot state
  inductive.  `BoundedTargets` uses the mapping's lemma `StepsWithinTravel`.
  `ArrivalIsRecognised` joins `Motion` with `PositionsSurvive`, of an instance of
  the mapping's proofs (`Mapping`): the goal is the target's step count, so the
  reading of a motor on its goal rounds back to the target.
  `ImplementsServer` is the refinement: `Dispatch` is a call, `Enqueue` an
  admission, each outcome of `Serve` the answer to the head of the order, all
  else a stutter; that the worker's task is the head of the order is by
  definition of `Order`, that it is `waiting` is `RequestsOwned`.  `RevisionsTell`
  needs `RevisionModulus > 2`, since a rejected set_position adds 2.
- `DeviceSdkProofs`: `TypeCorrect`, with one lemma per action.  `PendingCorrect`
  (`PendingAreWaiting`) is inductive with it: a step completes pending commands
  and removes them, adds a waiting one, or leaves both alone.  `ConnectionCorrect`
  needs `AttemptsCurrent`: running attempts belong to generations already used,
  so the next `connect` or `disconnect` supersedes them all, and the current
  client has no connection while its attempt runs or is yet to begin.
  `OnlineCorrect` adds `QueueShown`: what waits in the stream was read by a client
  that is connected, or was until a connect or disconnect that is not through, so
  that no message brings a device online over a connection that is not shown.
  `ScopesCorrect` (`ScopesKeptApart`) adds `ForeignSilent`: what waits about a device
  of another scope does so only while the transport switches, and the state it then
  reports marks all offline.
  `RegistryCorrect` (`RegistryAgrees`): of each device the broker's view is shown
  already or is the last thing on its way (`RegistryFollows`), because whatever
  changes the view also queues it (`BroadcastsCarried`: for those who are
  subscribed, and none but the current words of the device are repeated).
  `WaitEndsWhenReady` (`NoWaitWhenReady`) from `SetupInv`: every change of the
  records runs the listener of the waiting set-up, and data that came in since
  the baseline has a larger sequence number.  `ImplementsAnswers` is the
  refinement of `CommandAnswers`: `Call` maps to a call, completions to verdicts
  or to answers without one, all else to a stutter.  The step to prove is that a
  verdict that is heard is what the device published first on that command.
  `AnswersInv` says why: the broker reads a client's subscriptions before its
  commands (`SubscribesFirst`), so a result that goes out is not missed; a command
  is sent once (`SentOnce`); nobody invents an answer (`NoneInvented`); and as long
  as its caller waits, the first answer on its way or in the stream is that
  verdict, whatever a repeated delivery adds behind it (`CallersHeard`,
  `TruthFirst`).
- `MotorReportingProofs`: `TypeCorrect`.  `BeliefIsRetained`
  (`LastReportIsRetained`) is the mutual exclusion of the adapter's mutex: who
  publishes a state or records one owns it (`ReporterOwns`), what a task is
  about to record is what the broker retains (`RecordsRetained`), and while
  nobody is, the record is right (`Recorded`).  `ResultIsCurrent`
  (`ResultCoversCommand`) needs that the revision a task carries lies between
  the one its command produced and the present one (`ResultInv`).  `OneDeadlock`
  (`OnlyDeadlock`) and `DeadlockIsForever` (`DeadlockLasts`) from `LockInv`: each
  mutex is held exactly by who is in the middle of the call it guards, and the
  library's lock exactly while its task handles an event of a live connection.
- `UnitPresenceProofs`: `TypeCorrect`; `PressesLeaveNothing` for the button;
  `FlagsLagByEvents`, `StationIsReconnected` and `WrongCredentialsErased` from one
  inductive invariant, `WifiInv`.  What makes it inductive are the facts about
  the waiting events: the last one about the station tells what the station is
  (`LastEventTellsWifi`), those of the manager tell where it stands
  (`EventsTellManager`); the lemmas on handling the first and posting a last
  event carry them through the steps.  `OnlineHasWill` and `ConnectedComesOnline`
  rest on `SessionHasWill`: whatever is on its way belongs to a session that has
  a last will.  `OfflineIsDeserved` (`OfflineIsTrue`) adds `WaitsAlone`: a client
  that is off or waits to connect has no connection at the broker.
- `MotorUnitProofs`: `TypeCorrect`; `StopHolds` (`RestartsAtRest`) from
  `ResetInv`: the queue has one of five shapes, a stop waits only while the
  callback does, and from the stop on a motor that moves, or a move that waits,
  came late.  `ResetStaysShown` (`ResetIsShown`) from `ShownInv`: once set, the
  layer of the reset is touched by no call the main loop still has to make, and
  the one layer above it is off or red.
- `SensorUnitProofs`: `TypeCorrect`; `StagesOrdered`, by which the pipeline
  implements `LatestValue` (`ImplementsLatestValue`: a sample is a `Take`, a
  publish a `Show`, all else a stutter); `QuietBusForReset`; `PeriodIsKept`, where
  the tick counter, modulo its width, tells the ticks since the last attempt as
  long as they are fewer than a period (`CounterTells`).

Only model-checked: liveness, because fairness and `ENABLED` are beyond the
prover.  These are `EveryCallAnswered` (of the service and of the SDK), `Settles`,
`CatchesUp`, `ReportsAfterConnecting`, `ResetOffersProvisioning`,
`UnitComesOnline`, `LedSettles`, `StopComesBack` and `TelemetryFlows`.  Every
invariant, action property and refinement in the passing runs is a theorem.

The other way round, five properties are theorems and in no run, because runs
check what implies them or shows as much on an instance: `RingMirrorsHistory`
(the invariant behind both properties of the cache), `ArrivalRecognised` (from
`StatusTellsMotion` and `RoundTrips`), `DeadlockLasts` (part of what `CatchesUp`
supposes), `ResetIsShown` and `OfflineIsTrue`.  To have TLC look at one, add it to
the `.cfg` of its module (`MotorServiceSafety.cfg` for the service,
`CommandDeduplicatorRing.cfg` for the cache).

## 7. What is not modelled

- JSON: a document is a record; parsing is the guard "well-formed or not" in the
  firmware; the SDK reports a malformed payload as an error and changes nothing
  but `_domainSequence` (`sdk.dart:206`), which may only grow by it.
- `MqttBridge::stop`, `SensorMqttAdapter::stop`, `StatusLed::stop` and `clearAll`
  and all destructors but that of `MotorService`: the firmware's objects are
  static and never destroyed, and nothing calls them.
- A `begin()` that fails, beyond the return of `app_main`; `StatusLed::begin`
  (without an LED the unit runs on, `main.cpp:131`).
- The configuration of speed and acceleration in `MotorController`, which
  `begin` sets once and nothing changes later; the drivers of the two sensors, sequential I2C transfers and
  the decoding of a fixed frame; what a snapshot says, and with it the colours of
  the sensor's LED, whose calls are otherwise those of `MotorUnit`.
- Priorities and stack sizes of FreeRTOS tasks; time is a counter of ticks.
- The mechanics: the position is the pulse count, as for the firmware.
- In the SDK: discovery, Wi-Fi scans and `_setupBusy`; the provisioning workflow,
  one session after the other through a BLE library outside the repository, of
  which `DeviceSdk` has the outcome and `BleProvisioning` the device's side.
- The app: widget state over the SDK.  Its hazards are listed; the commands it
  sends are those of `DeviceSdk`.
- Platform runners, vendored code, tools, examples and assets.
