--------------------------- MODULE BleProvisioning ---------------------------
(***************************************************************************)
(* BleProvisioningRuntime (firmware/common/components/ble_provisioning):   *)
(* how a unit gets onto the Wi-Fi and stays there.  The Wi-Fi driver and   *)
(* the provisioning manager, both external, post events into the default   *)
(* event loop; its task handles them in order.  The credentials survive a  *)
(* restart and a loss of power, everything else does not.                  *)
(***************************************************************************)
EXTENDS ResetButton, Naturals, Sequences

CONSTANTS
    MaxEvents,   \* bound: events waiting in the event loop
    MaxOutages   \* bound: losses of power

ASSUME MaxEventsAssumption == MaxEvents \in Nat \ {0}
ASSUME MaxOutagesAssumption == MaxOutages \in Nat

VARIABLES
    stored,    \* the credentials in the NVS
    boot,      \* begin(): "off" before it, then what it returned
    wifi,      \* the station driver
    manager,   \* the provisioning manager
    active,    \* provisioning_active_
    ready,     \* network_ready_
    events,    \* the event loop
    lateDrop,  \* history: a drop was handled after provisioning had succeeded
               \* and before the manager's end was
    interrupted,  \* history: a restart cut off an attempt to provision, or one
                  \* whose failed credentials are still there
    outages    \* losses of power so far

wifiVars == <<stored, boot, wifi, manager, active, ready, events, lateDrop,
              interrupted, outages>>

vars == <<buttonVars, wifiVars>>

memory == <<boot, wifi, manager, active, ready, events, lateDrop>>

\* What is in the memory of a unit that has just started.
Init ==
    /\ ButtonInit
    /\ boot = "off" /\ wifi = "idle" /\ manager = "off"
    /\ active = FALSE /\ ready = FALSE /\ events = <<>> /\ lateDrop = FALSE
    /\ stored = "none"
    /\ interrupted = FALSE
    /\ outages = 0

(***************************************************************************)
(* Start                                                                   *)
(***************************************************************************)

\* begin(): stored credentials are used, otherwise provisioning is offered.
\* When it fails it has failed before that, or in initializeResetButton after.
Begin ==
    /\ boot = "off"
    /\ boot' \in {"running", "failed"}
    /\ \/ /\ wifi' = IF stored = "none" THEN "idle" ELSE "connecting"
          /\ manager' = IF stored = "none" THEN "listening" ELSE "off"
          /\ active' = (stored = "none")
       \/ boot' = "failed" /\ UNCHANGED <<wifi, manager, active>>
    /\ UNCHANGED <<buttonVars, stored, ready, events, lateDrop, interrupted, outages>>

(***************************************************************************)
(* The driver, the manager and the phone that provisions                   *)
(***************************************************************************)

Post(posted) ==
    /\ Len(events) + Len(posted) <= MaxEvents
    /\ events' = events \o posted

\* The manager stores what the phone sends and lets the driver try it.
CredentialsArrive ==
    /\ manager = "listening"
    /\ stored' \in {"right", "wrong"}
    /\ manager' = "connecting"
    /\ wifi' = "connecting"
    /\ UNCHANGED <<buttonVars, boot, active, ready, events, lateDrop,
                   interrupted, outages>>

Associate ==
    /\ wifi = "connecting"
    /\ stored = "right"
    /\ wifi' = "up"
    /\ manager' = IF manager = "connecting" THEN "succeeded" ELSE manager
    /\ Post(<<"got_ip">>)
    /\ UNCHANGED <<buttonVars, stored, boot, active, ready, lateDrop,
                   interrupted, outages>>

\* An attempt fails.  While the manager is connecting it tries again, up to
\* wifi_conn_attempts times, and then reports the failure.
AttemptFails ==
    /\ wifi = "connecting"
    /\ \/ manager # "connecting" /\ wifi' = "idle" /\ UNCHANGED manager
          /\ Post(<<"disconnected">>)
       \/ manager = "connecting" /\ UNCHANGED <<wifi, manager>>
          /\ Post(<<"disconnected">>)
       \/ manager = "connecting" /\ wifi' = "idle" /\ manager' = "failed"
          /\ Post(<<"disconnected", "cred_fail">>)
    /\ UNCHANGED <<buttonVars, stored, boot, active, ready, lateDrop,
                   interrupted, outages>>

Drop ==
    /\ wifi = "up"
    /\ wifi' = "idle"
    /\ Post(<<"disconnected">>)
    /\ UNCHANGED <<buttonVars, stored, boot, manager, active, ready, lateDrop,
                   interrupted, outages>>

\* The phone has read the outcome, or the manager's own timer expires.
ManagerEnds ==
    /\ manager = "succeeded"
    /\ manager' = "off"
    /\ Post(<<"end">>)
    /\ UNCHANGED <<buttonVars, stored, boot, wifi, active, ready, lateDrop, interrupted, outages>>

(***************************************************************************)
(* The task of the event loop                                              *)
(***************************************************************************)

\* The handlers leave the button, the start and the power alone.
Handle(event) ==
    /\ events # <<>>
    /\ Head(events) = event
    /\ events' = Tail(events)
    /\ UNCHANGED <<buttonVars, boot, interrupted, outages>>

\* Mutant of GotIp: the flag is not set.
GotIpUnnoticed == Handle("got_ip") /\ UNCHANGED <<stored, wifi, manager, active, ready, lateDrop>>

GotIp ==
    /\ Handle("got_ip")
    /\ ready' = TRUE
    /\ UNCHANGED <<stored, wifi, manager, active, lateDrop>>

\* esp_wifi_connect() has an effect on an idle station only.
Reconnected == IF wifi = "idle" THEN "connecting" ELSE wifi

\* Mutant of Disconnected: the station is left to itself.
DisconnectedForGood ==
    /\ Handle("disconnected")
    /\ ready' = FALSE
    /\ lateDrop' = (lateDrop \/ (active /\ manager \in {"succeeded", "off"}))
    /\ UNCHANGED <<stored, wifi, manager, active>>

Disconnected ==
    /\ Handle("disconnected")
    /\ ready' = FALSE
    /\ wifi' = IF active THEN wifi ELSE Reconnected
    /\ lateDrop' = (lateDrop \/ (active /\ manager \in {"succeeded", "off"}))
    /\ UNCHANGED <<stored, manager, active>>

\* Mutant of CredFail: the credentials that failed are kept.
CredFailKept ==
    /\ Handle("cred_fail")
    /\ ready' = FALSE
    /\ manager' = "listening"
    /\ UNCHANGED <<stored, wifi, active, lateDrop>>

\* network_prov_mgr_reset_wifi_sm_state_on_failure erases the credentials and
\* lets the manager listen again, or fails, which nobody looks at.
CredFail ==
    /\ Handle("cred_fail")
    /\ ready' = FALSE
    /\ \/ stored' = "none" /\ manager' = "listening"
       \/ UNCHANGED <<stored, manager>>
    /\ UNCHANGED <<wifi, active, lateDrop>>

\* Mutant of End: the flag stays set.
EndUnnoticed == Handle("end") /\ UNCHANGED <<stored, wifi, manager, active, ready, lateDrop>>

End ==
    /\ Handle("end")
    /\ active' = FALSE
    /\ UNCHANGED <<stored, wifi, manager, ready, lateDrop>>

(***************************************************************************)
(* The reset button, with an application that accepts or refuses           *)
(***************************************************************************)

\* The handlers run once begin() has registered them.
ButtonStep ==
    /\ boot = "running"
    /\ \/ Toggle \/ LongPressStart \/ Released \/ LongPressUp
       \/ ClearFails \/ FailureCallbackReturns
       \/ \E stopped \in BOOLEAN : CallbackReturns(stopped)
    /\ UNCHANGED wifiVars

ClearCredentials ==
    /\ ClearSucceeds
    /\ stored' = "none"
    /\ UNCHANGED <<memory, interrupted, outages>>

StartAfresh ==
    /\ boot' = "off" /\ wifi' = "idle" /\ manager' = "off"
    /\ active' = FALSE /\ ready' = FALSE /\ events' = <<>> /\ lateDrop' = FALSE
    /\ interrupted' = (interrupted \/ manager \in {"connecting", "failed"})
    /\ UNCHANGED stored

Restart == ButtonRestarts /\ StartAfresh /\ UNCHANGED outages

PowerFails ==
    /\ outages < MaxOutages
    /\ outages' = outages + 1
    /\ handler' = "watching" /\ armed' = FALSE /\ committed' = FALSE
    /\ StartAfresh
    /\ UNCHANGED key

HandleEvent == GotIp \/ Disconnected \/ CredFail \/ End

\* What leaves the unit on.
Step ==
    \/ Begin
    \/ CredentialsArrive \/ Associate \/ AttemptFails \/ Drop \/ ManagerEnds
    \/ HandleEvent
    \/ ButtonStep \/ ClearCredentials

Next == Step \/ Restart \/ PowerFails

Spec == Init /\ [][Next]_vars

\* The event task runs; an access point that is tried again and again with the
\* right credentials answers; the manager's timer ends it; esp_restart happens.
\* Nobody has to press the button, to let it go or to provision the unit.
Fairness ==
    /\ WF_vars(Begin) /\ WF_vars(HandleEvent) /\ WF_vars(ManagerEnds)
    /\ WF_vars(AttemptFails) /\ SF_vars(Associate)
    /\ WF_vars(Restart)

(***************************************************************************)
(* Properties                                                              *)
(***************************************************************************)

Events == {"got_ip", "disconnected", "cred_fail", "end"}

TypeOK ==
    /\ ButtonTypeOK
    /\ stored \in {"none", "right", "wrong"}
    /\ boot \in {"off", "running", "failed"}
    /\ wifi \in {"idle", "connecting", "up"}
    /\ manager \in {"off", "listening", "connecting", "succeeded", "failed"}
    /\ {active, ready, lateDrop, interrupted} \subseteq BOOLEAN
    /\ events \in Seq(Events)
    /\ outages \in Nat

Pending(event) == \E i \in DOMAIN events : events[i] = event

\* networkReady(), on which the main loop starts the MQTT client and the LED
\* tells the connection, is what the driver is, up to events still to handle.
ReadyTracksWifi ==
    /\ ready /\ wifi # "up" => Pending("disconnected")
    /\ wifi = "up" /\ ~ready => Pending("got_ip")

\* The unit offers provisioning while the manager runs, and not after its end.
ActiveWhileManaged ==
    /\ manager # "off" => active
    /\ active /\ manager = "off" => Pending("end")

\* The two flags that the main loop reads lag behind what they tell of by the
\* events still to handle, and by no more, whatever order the events come in.
FlagsFollowTheEvents == ReadyTracksWifi /\ ActiveWhileManaged

\* Outside provisioning an idle station is about to be reconnected by the
\* handler of its drop.  The one exception: the drop was handled after the
\* provisioning had succeeded and before its end, when handleSystemEvent leaves
\* reconnecting to a manager that no longer does it.
NobodyStranded ==
    boot # "off" /\ wifi = "idle" /\ ~active /\ stored # "none"
        => Pending("disconnected") \/ lateDrop \/ boot = "failed"

\* A unit that tries for ever to join with credentials no access point takes,
\* without offering provisioning, was restarted or lost its power between the
\* arrival of the credentials and their erasure, which the handler of their failure
\* tries once.
WrongOnlyIfInterrupted == boot = "running" /\ ~active /\ stored = "wrong" => interrupted
=============================================================================
