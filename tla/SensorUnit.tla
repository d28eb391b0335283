------------------------------ MODULE SensorUnit ------------------------------
(***************************************************************************)
(* The sensor unit (firmware/sensor): the task of SensorService samples    *)
(* the sensors and hands each snapshot to SensorMqttAdapter, through a     *)
(* queue of one that a newer snapshot overwrites; the adapter's task       *)
(* publishes what it received last, at most once a period.  The            *)
(* provisioning reset stops the sampling from the button's task.           *)
(*                                                                         *)
(* A snapshot is its revision.  The LED is left out: MotorUnit has it.     *)
(***************************************************************************)
EXTENDS ResetButton, Integers

CONSTANTS
    Period,       \* kPublishPeriod, in ticks
    TickModulus,  \* TickType_t is unsigned: xTaskGetTickCount() wraps here
    MaxRevision   \* bound: the revision stays here, the sampling goes on

ASSUME PeriodAssumption == Period \in Nat \ {0}
ASSUME TicksAssumption == TickModulus \in Nat /\ TickModulus > Period
ASSUME MaxRevisionAssumption == MaxRevision \in Nat \ {0}

VARIABLES
    boot,         \* how far app_main is
    sampler,      \* the sampling task; "off" while task_ is null
    stop,         \* stop_requested_
    revision,     \* revision_
    taken,        \* the snapshot the sampling task has at hand
    latest,       \* latest_, 0 while there is none
    box,          \* the adapter's queue_, 0 while it is empty
    held,         \* what the adapter's task received last
    publisher,    \* the adapter's task
    lastPublish,  \* last_publish, in which 0 stands for never
    tick,         \* xTaskGetTickCount()
    polled,       \* the adapter's task has looked since the last tick
    connected,    \* MqttBridge::connected()
    published,    \* history: the revision handed to the MQTT client last
    since,        \* history: ticks since then, up to Period
    startedLate   \* history: sampling started after the last reset stopped it

samplerVars == <<sampler, stop, revision, taken, latest>>

adapterVars == <<held, publisher, lastPublish, polled, published>>

vars == <<buttonVars, samplerVars, adapterVars, boot, box, tick, connected, since,
          startedLate>>

Init ==
    /\ ButtonInit
    /\ boot = "service"
    /\ sampler = "off" /\ stop = FALSE
    /\ revision = 0 /\ taken = 0 /\ latest = 0 /\ box = 0 /\ held = 0
    /\ publisher = "receiving" /\ lastPublish = 0 /\ polled = FALSE
    /\ tick = 0 /\ connected = FALSE
    /\ published = 0 /\ since = Period
    /\ startedLate = FALSE

(***************************************************************************)
(* app_main                                                                *)
(***************************************************************************)

NextBoot == [service |-> "provisioning", provisioning |-> "adapter", adapter |-> "start"]

\* SensorService::begin, the provisioning's begin and the adapter's begin.
\* When one fails app_main returns; the provisioning, and with it the button,
\* stays when the adapter is what failed.
BootStep ==
    /\ boot \in DOMAIN NextBoot
    /\ boot' \in {NextBoot[boot], IF boot = "adapter" THEN "returned" ELSE "failed"}
    /\ UNCHANGED <<buttonVars, samplerVars, adapterVars, box, tick, connected,
                   since, startedLate>>

\* SensorService::start creates the sampling task, or cannot and app_main
\* returns.
Start ==
    /\ boot = "start"
    /\ sampler = "off"
    /\ stop' = FALSE
    /\ \/ /\ boot' = "loop"
          /\ sampler' = "checking"
          /\ startedLate' = (handler \notin {"watching", "callback"})
       \/ /\ boot' = "returned"
          /\ UNCHANGED <<sampler, startedLate>>
    /\ UNCHANGED <<buttonVars, revision, taken, latest, adapterVars, box, tick,
                   connected, since>>

\* The bridge, which the loop starts, gains and loses its connection.
LinkChanges ==
    /\ boot = "loop"
    /\ connected' = ~connected
    /\ UNCHANGED <<buttonVars, samplerVars, adapterVars, boot, box, tick, since,
                   startedLate>>

(***************************************************************************)
(* The sampling task                                                       *)
(***************************************************************************)

\* A step of the sampling task leaves everything else alone but the queue.
SamplerGoes(from, to) ==
    /\ sampler = from
    /\ sampler' = to
    /\ UNCHANGED <<buttonVars, adapterVars, boot, tick, connected, since, startedLate>>

\* Mutant of CheckStop: the loop has no condition.
CheckNothing ==
    /\ SamplerGoes("checking", "sampling")
    /\ UNCHANGED <<stop, revision, taken, latest, box>>

\* The condition of the loop; task_ = nullptr at its end.
CheckStop ==
    /\ SamplerGoes("checking", IF stop THEN "off" ELSE "sampling")
    /\ UNCHANGED <<stop, revision, taken, latest, box>>

\* Mutant of SampleOnce: the counter of the samples wraps.
SampleOnceWrapped ==
    /\ SamplerGoes("sampling", "sampled")
    /\ revision' = (revision + 1) % MaxRevision
    /\ taken' = revision'
    /\ UNCHANGED <<stop, latest, box>>

SampleOnce ==
    /\ SamplerGoes("sampling", "sampled")
    /\ revision' = IF revision < MaxRevision THEN revision + 1 ELSE revision
    /\ taken' = revision'
    /\ UNCHANGED <<stop, latest, box>>

StoreLatest ==
    /\ SamplerGoes("sampled", "stored")
    /\ latest' = taken
    /\ UNCHANGED <<stop, revision, taken, box>>

\* The callback of the service: SensorMqttAdapter::enqueue overwrites.
HandOver ==
    /\ SamplerGoes("stored", "handed")
    /\ box' = IF stop THEN box ELSE taken
    /\ UNCHANGED <<stop, revision, taken, latest>>

\* Waits for the period or for a notification, unless it is to stop.
Sleep ==
    /\ SamplerGoes("handed", IF stop THEN "checking" ELSE "sleeping")
    /\ UNCHANGED <<stop, revision, taken, latest, box>>

Wake ==
    /\ SamplerGoes("sleeping", "checking")
    /\ UNCHANGED <<stop, revision, taken, latest, box>>

Sample == CheckStop \/ SampleOnce \/ StoreLatest \/ HandOver \/ Sleep \/ Wake

(***************************************************************************)
(* The adapter's task                                                      *)
(***************************************************************************)

\* xQueueReceive, up to its timeout.  The task runs in "returned" too, where
\* nobody hands it anything.
Receive ==
    /\ boot \in {"start", "loop"}
    /\ publisher = "receiving"
    /\ publisher' = "deciding"
    /\ held' = IF box # 0 THEN box ELSE held
    /\ box' = 0
    /\ UNCHANGED <<buttonVars, samplerVars, boot, lastPublish, polled, tick,
                   connected, published, since, startedLate>>

\* Mutants of Due: the difference of the ticks is not reduced, as if it could
\* not wrap; a tick too early.
DueUnwrapped == lastPublish = 0 \/ tick - lastPublish >= Period
DueEarly == lastPublish = 0 \/ (tick - lastPublish) % TickModulus >= Period - 1

\* An unsigned difference of ticks.
Due == lastPublish = 0 \/ (tick - lastPublish) % TickModulus >= Period

\* Whether to publish is decided on the connection and the clock as they are
\* here; last_publish is set whatever becomes of the attempt.
Decide ==
    /\ publisher = "deciding"
    /\ polled' = TRUE
    /\ IF held # 0 /\ connected /\ Due
       THEN publisher' = "publishing" /\ lastPublish' = tick /\ since' = 0
       ELSE publisher' = "receiving" /\ UNCHANGED <<lastPublish, since>>
    /\ UNCHANGED <<buttonVars, samplerVars, boot, box, held, tick, connected,
                   published, startedLate>>

PublishEnds ==
    /\ publisher = "publishing"
    /\ publisher' = "receiving"
    /\ UNCHANGED <<buttonVars, samplerVars, boot, box, held, lastPublish, polled,
                   tick, connected, since, startedLate>>

\* The message is with the MQTT client, which looks after the redelivery that
\* QoS 1 asks for.  The connection that MqttBridge::publish saw may be gone.
PublishSucceeds == PublishEnds /\ published' = held

\* Without a connection, or when the client refuses.  Nobody tries again.
PublishFails == PublishEnds /\ UNCHANGED published

Publish == PublishSucceeds \/ PublishFails

\* A tick stands for a time in which the adapter's task, which waits at most
\* 250 ms, looks at least once - unless it is in MqttBridge::publish, which
\* may block on the client and on the mutex for as long as they please.
Tick ==
    /\ polled \/ publisher = "publishing"
    /\ polled' = FALSE
    /\ tick' = (tick + 1) % TickModulus
    /\ since' = IF since < Period THEN since + 1 ELSE since
    /\ UNCHANGED <<buttonVars, samplerVars, boot, box, held, publisher,
                   lastPublish, connected, published, startedLate>>

(***************************************************************************)
(* The provisioning reset                                                  *)
(***************************************************************************)

\* The button is registered by the provisioning's begin, before the sampling
\* starts.
ButtonWorks == boot \in {"adapter", "start", "loop", "returned"}

Press ==
    /\ ButtonWorks
    /\ \/ Toggle \/ LongPressStart \/ Released \/ LongPressUp
       \/ ClearSucceeds \/ ClearFails \/ FailureCallbackReturns
    /\ UNCHANGED <<samplerVars, adapterVars, boot, box, tick, connected, since,
                   startedLate>>

\* SensorService::stop: with a task it asks the task to stop and waits,
\* without one it returns at once.
RequestStop ==
    /\ handler = "callback"
    /\ sampler # "off" /\ ~stop
    /\ stop' = TRUE
    /\ UNCHANGED <<buttonVars, sampler, revision, taken, latest, adapterVars,
                   boot, box, tick, connected, since, startedLate>>

\* Mutant of StopReturns: it does not wait for the task to end.
StopReturnsAtOnce ==
    /\ stop \/ sampler = "off"
    /\ CallbackReturns(TRUE)
    /\ startedLate' = FALSE
    /\ UNCHANGED <<samplerVars, adapterVars, boot, box, tick, connected, since>>

\* The reset callback returns true when stop() is done.
StopReturns ==
    /\ sampler = "off"
    /\ CallbackReturns(TRUE)
    /\ startedLate' = FALSE
    /\ UNCHANGED <<samplerVars, adapterVars, boot, box, tick, connected, since>>

Restart ==
    /\ ButtonRestarts
    /\ boot' = "service"
    /\ sampler' = "off" /\ stop' = FALSE
    /\ revision' = 0 /\ taken' = 0 /\ latest' = 0 /\ box' = 0 /\ held' = 0
    /\ publisher' = "receiving" /\ lastPublish' = 0 /\ polled' = FALSE
    /\ tick' = 0 /\ connected' = FALSE
    /\ published' = 0 /\ since' = Period
    /\ startedLate' = FALSE

Adapt == Receive \/ Decide \/ Publish

Next ==
    \/ BootStep \/ Start \/ LinkChanges
    \/ Sample \/ Adapt \/ Tick
    \/ Press \/ RequestStop \/ StopReturns \/ Restart

Spec == Init /\ [][Next]_vars

\* Every task of the unit is scheduled, its sensors answer or time out, and a
\* publish comes to an end; with a connection it does not fail for ever.  The
\* user and the network do as they like.
Fairness ==
    /\ WF_vars(Start) /\ WF_vars(Sample) /\ WF_vars(Adapt) /\ WF_vars(Tick)
    /\ SF_vars(connected /\ PublishSucceeds)
    /\ WF_vars(RequestStop) /\ WF_vars(StopReturns)

FairSpec == Spec /\ Fairness

(***************************************************************************)
(* Properties                                                              *)
(***************************************************************************)

Revisions == 0..MaxRevision

TypeOK ==
    /\ ButtonTypeOK
    /\ boot \in {"service", "provisioning", "adapter", "start", "loop", "returned", "failed"}
    /\ sampler \in {"off", "checking", "sampling", "sampled", "stored", "handed",
                    "sleeping"}
    /\ {stop, polled, connected, startedLate} \subseteq BOOLEAN
    /\ {revision, taken, latest, box, held, published} \subseteq Revisions
    /\ publisher \in {"receiving", "deciding", "publishing"}
    /\ {lastPublish, tick} \subseteq 0..TickModulus - 1
    /\ since \in 0..Period

\* Each stage of the way to the broker holds a revision no newer than the
\* stage before it, whatever was overwritten, missed or not published.
StagesInOrder ==
    /\ published <= held /\ held <= latest
    /\ box # 0 => held <= box /\ box <= latest
    /\ latest <= taken /\ taken <= revision

\* The MQTT client is handed ever newer values, with gaps, and so are the
\* subscribers (firmware/sensor/README.md), redeliveries of the client aside.
Values == INSTANCE LatestValue WITH newest <- revision, shown <- published

NeverBackwards == Values!Spec

\* Two attempts to publish are a period apart, however often the tick counter
\* wrapped in between, unless the first fell on the tick 0, which reads as
\* "never published".
PublishesSpaced ==
    [][lastPublish # 0 /\ publisher = "deciding" /\ publisher' = "publishing"
          => since = Period]_vars

\* Once the reset callback has returned and until the restart nothing samples:
\* the I2C bus is quiet when the unit restarts.  The one exception: the button
\* was pressed before app_main had started the sampling, which it then did;
\* the next reset stops that one too.
ResetStopsSampling ==
    armed \/ committed => handler = "callback" \/ sampler = "off" \/ startedLate

\* The callback, which runs in the button's task and spins, comes back.
StopComesBack == handler = "callback" ~> handler # "callback"

\* A sampling that goes on and a connection that lasts bring every value, or a
\* newer one, to the subscribers.
TelemetryFlows ==
    <>[](connected /\ sampler # "off") => <>[](published = MaxRevision)
=============================================================================
