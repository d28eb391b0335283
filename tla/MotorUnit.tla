------------------------------ MODULE MotorUnit ------------------------------
(***************************************************************************)
(* The motor unit around its service (firmware/main/main/main.cpp): the    *)
(* start of app_main, its loop, which shows the state of the motor and of  *)
(* the connection on the LED, and the provisioning reset, which stops the  *)
(* motor before the unit restarts while the MQTT task goes on taking       *)
(* commands.  The service is what MotorService promises: requests are      *)
(* served one at a time, in the order in which they were admitted.         *)
(***************************************************************************)
EXTENDS ResetButton, StatusLed

CONSTANT Directions  \* main states of an accepted move: opening, closing

ASSUME DirectionsAssumption == Directions \subseteq {"opening", "closing"}

VARIABLES
    boot,     \* how far app_main is
    link,     \* what provisioningActive(), networkReady() and connected() say
    mqtt,     \* mqtt_started
    status,   \* the service's canonical state: main state and errors
    seeking,  \* the motor drives towards a target
    queue,    \* requests waiting for the service: moves, and the reset's stop
    main,     \* app_main's loop: what it shows next
    rounds,   \* StatusLed: was_connected_ and connected_at_ms_
    layers,   \* StatusLed: layers_
    calls,    \* the calls that app_main has still to make on what it has read
    late,     \* history: a move was submitted after the stop for the reset
    abandoned \* history: the last long press came to no restart

unitVars == <<boot, link, mqtt, status, seeking, queue, main, rounds,
              layers, calls, late, abandoned>>

vars == <<buttonVars, unitVars>>

Boots == {"service", "feedback", "provisioning", "loop", "failed"}

\* Three flags of three components, which change on their own: a unit that is
\* still provisioning can have its address, and the broker, already.
Links == [active : BOOLEAN, ready : BOOLEAN, connected : BOOLEAN]

Unconnected(active) == [active |-> active, ready |-> FALSE, connected |-> FALSE]

Statuses == [main : {"unknown", "idle", "stopping", "fault"} \cup Directions,
             errors : BOOLEAN]

Unknown == [main |-> "unknown", errors |-> FALSE]

Faulty(s) == s.errors \/ s.main = "fault"

\* What a unit that starts finds in its memory, the network as it is.
Init ==
    /\ ButtonInit
    /\ boot = "service" /\ link \in {Unconnected(a) : a \in BOOLEAN} /\ mqtt = FALSE
    /\ status = Unknown /\ seeking = FALSE /\ queue = <<>>
    /\ main = "state" /\ rounds = 0 /\ layers = Dark /\ calls = <<>>
    /\ late = FALSE /\ abandoned = FALSE

(***************************************************************************)
(* The LED                                                                 *)
(***************************************************************************)

\* The first of some calls that app_main makes, under the LED's mutex.
Make(list) ==
    /\ layers' = Called(layers, Head(list))
    /\ calls' = Tail(list)

\* The button task makes its calls, in its own steps, between any two of these.
LedCall ==
    /\ calls # <<>>
    /\ Make(calls)
    /\ UNCHANGED <<buttonVars, boot, link, mqtt, status, seeking, queue, main,
                   rounds, late, abandoned>>

DeviceCall(main_state) ==
    CASE main_state = "idle"     -> Clear("device")
      [] main_state = "opening"  -> Set("device", "blue_solid")
      [] main_state = "closing"  -> Set("device", "purple_solid")
      [] main_state = "stopping" -> Set("device", "yellow_blink")
      [] main_state = "unknown"  -> Set("device", "amber_breathe")

\* Mutant of MotorCalls: a fault is not cleared.
MotorCallsSticky(s) ==
    IF Faulty(s) THEN <<Set("fault", "red_blink"), Clear("device")>>
    ELSE <<DeviceCall(s.main)>>

\* updateMotorLed
MotorCalls(s) ==
    IF Faulty(s) THEN <<Set("fault", "red_blink"), Clear("device")>>
    ELSE <<Clear("fault"), DeviceCall(s.main)>>

(***************************************************************************)
(* app_main                                                                *)
(***************************************************************************)

NextBoot == [service |-> "feedback", feedback |-> "provisioning", provisioning |-> "loop"]

\* One component begins; when it fails, app_main shows it and returns.
BootStep ==
    /\ boot \in DOMAIN NextBoot
    /\ \/ boot' = NextBoot[boot] /\ UNCHANGED <<layers, calls>>
       \/ boot' = "failed" /\ Make(<<Set("fault", "red_blink")>>)
    /\ UNCHANGED <<buttonVars, link, mqtt, status, seeking, queue, main,
                   rounds, late, abandoned>>

\* A round of the loop starts the MQTT client, once there is a network and
\* until begin() succeeds, and shows the state of the motor.  The reading and the
\* first call are one step: what happens between them could as well have happened
\* before the reading or after the call ...
ShowState ==
    /\ boot = "loop" /\ main = "state" /\ calls = <<>>
    /\ IF link.ready THEN mqtt' \in {mqtt, TRUE} ELSE UNCHANGED mqtt
    /\ main' = "link"
    /\ Make(MotorCalls(status))
    /\ UNCHANGED <<buttonVars, boot, link, status, seeking, queue, rounds,
                   late, abandoned>>

\* ... and, with updateConnectivity, of the connection; it ends with the report
\* and a delay.
ShowLink ==
    /\ boot = "loop" /\ main = "link" /\ calls = <<>>
    /\ main' = "state"
    /\ rounds' = SeenConnected(rounds, link.ready /\ link.connected)
    /\ Make(ConnectivityCalls(link.active, rounds'))
    /\ UNCHANGED <<buttonVars, boot, link, mqtt, status, seeking, queue,
                   late, abandoned>>

(***************************************************************************)
(* The network and the MQTT task                                           *)
(***************************************************************************)

\* Provisioning ends, the address comes or goes, the MQTT client connects or
\* is disconnected, which it may notice long after the address has gone.
LinkChanges ==
    /\ boot = "loop"
    /\ \/ link.active /\ link' = [link EXCEPT !.active = FALSE]
       \/ link' = [link EXCEPT !.ready = ~@]
       \/ mqtt /\ link' = [link EXCEPT !.connected = ~@]
    /\ UNCHANGED <<buttonVars, boot, mqtt, status, seeking, queue, main,
                   rounds, layers, calls, late, abandoned>>

\* The MQTT task submits one command at a time and waits for its answer.
\* What it delivers need not depend on the connection still being there.
SubmitMove ==
    /\ boot = "loop" /\ mqtt
    /\ ~\E i \in DOMAIN queue : queue[i] = "move"
    /\ queue' = Append(queue, "move")
    /\ late' = (late \/ handler \in {"holding", "releasing", "clearing", "restarting"}
                    \/ \E i \in DOMAIN queue : queue[i] = "stop")
    /\ UNCHANGED <<buttonVars, boot, link, mqtt, status, seeking, main,
                   rounds, layers, calls, abandoned>>

(***************************************************************************)
(* The service and the motor                                               *)
(***************************************************************************)

Served(request) == queue # <<>> /\ Head(queue) = request /\ queue' = Tail(queue)

\* A move is carried out, refused without a trace or refused with a fault.
ServeMove ==
    /\ Served("move")
    /\ \/ /\ seeking' = TRUE
          /\ \E m \in Directions \cup {"idle"} : status' = [status EXCEPT !.main = m]
       \/ UNCHANGED <<seeking, status>>
       \/ status' = [main |-> "fault", errors |-> TRUE] /\ UNCHANGED seeking
    /\ UNCHANGED <<buttonVars, boot, link, mqtt, main, rounds, layers,
                   calls, late, abandoned>>

\* The stop is always accepted, which lets the reset callback return true.
ServeStop ==
    /\ Served("stop")
    /\ CallbackReturns(TRUE)
    /\ status' = [status EXCEPT !.main = "stopping"]
    /\ seeking' = FALSE
    /\ UNCHANGED <<boot, link, mqtt, main, rounds, layers, calls, late, abandoned>>

\* A reading is served between two requests; it takes back the errors about
\* readings, if there are no others.
ServeReading ==
    /\ boot \in {"provisioning", "loop"}
    /\ \/ status' = [main |-> "unknown", errors |-> status.errors]
       \/ \E m \in {status.main} \cup (IF status.main \in Directions \cup {"unknown"}
                                       THEN {"idle"} ELSE {}) :
             \E e \in {FALSE, status.errors} : status' = [main |-> m, errors |-> e]
    /\ status' # status
    /\ UNCHANGED <<buttonVars, boot, link, mqtt, seeking, queue, main,
                   rounds, layers, calls, late, abandoned>>

MotorArrives ==
    /\ seeking
    /\ seeking' = FALSE
    /\ UNCHANGED <<buttonVars, boot, link, mqtt, status, queue, main,
                   rounds, layers, calls, late, abandoned>>

(***************************************************************************)
(* The provisioning reset                                                  *)
(***************************************************************************)

Press ==
    /\ boot = "loop"
    /\ Toggle
    /\ UNCHANGED unitVars

\* The reset callback shows that it runs ...
BeginReset ==
    /\ boot = "loop"
    /\ LongPressStart
    /\ abandoned' = FALSE
    /\ layers' = IF handler' = "callback"
                 THEN Called(layers, Set("resetting", "magenta_fast")) ELSE layers
    /\ UNCHANGED <<boot, link, mqtt, status, seeking, queue, main, rounds,
                   calls, late>>

\* Mutant of StopForReset: the motor is not stopped.
StopForResetSkipped ==
    /\ boot = "loop"
    /\ CallbackReturns(TRUE)
    /\ UNCHANGED <<boot, link, mqtt, status, seeking, queue, main, rounds,
                   layers, calls, late, abandoned>>

\* ... and submits the stop, whose answer it waits for (ServeStop).
StopForReset ==
    /\ handler = "callback"
    /\ ~\E i \in DOMAIN queue : queue[i] = "stop"
    /\ queue' = Append(queue, "stop")
    /\ late' = FALSE
    /\ UNCHANGED <<buttonVars, boot, link, mqtt, status, seeking, main,
                   rounds, layers, calls, abandoned>>

Release ==
    /\ boot = "loop"
    /\ Released \/ LongPressUp \/ ClearSucceeds \/ FailureCallbackReturns
    /\ late' = (late /\ handler' # "watching")
    /\ abandoned' = (abandoned \/ handler' = "watching")
    /\ UNCHANGED <<boot, link, mqtt, status, seeking, queue, main, rounds,
                   layers, calls>>

\* showProvisioningResetFailure
ResetFails ==
    /\ boot = "loop"
    /\ ClearFails
    /\ layers' = Called(layers, Set("fault", "red_blink"))
    /\ abandoned' = TRUE
    /\ UNCHANGED <<boot, link, mqtt, status, seeking, queue, main, rounds,
                   calls, late>>

Restart ==
    /\ ButtonRestarts
    /\ boot' = "service" /\ link' = Unconnected(TRUE) /\ mqtt' = FALSE
    /\ status' = Unknown /\ seeking' = FALSE /\ queue' = <<>>
    /\ main' = "state" /\ rounds' = 0 /\ layers' = Dark /\ calls' = <<>>
    /\ late' = FALSE /\ abandoned' = FALSE

Main == BootStep \/ LedCall \/ ShowState \/ ShowLink

Serve == ServeMove \/ ServeStop

Reset == BeginReset \/ StopForReset \/ Release \/ ResetFails \/ Restart

Next ==
    \/ Main
    \/ LinkChanges \/ SubmitMove \/ Serve \/ ServeReading \/ MotorArrives
    \/ Press \/ Reset

Spec == Init /\ [][Next]_vars

\* app_main is scheduled.  Nothing need ever happen to the motor, the network or
\* the button, and the service may be as late as it likes.
Fairness == WF_vars(Main)

FairSpec == Spec /\ Fairness

(***************************************************************************)
(* Properties                                                              *)
(***************************************************************************)

TypeOK ==
    /\ ButtonTypeOK
    /\ boot \in Boots /\ link \in Links /\ main \in {"state", "link"}
    /\ {mqtt, late, abandoned} \subseteq BOOLEAN
    /\ status \in Statuses
    /\ seeking \in BOOLEAN
    /\ queue \in Seq({"move", "stop"})
    /\ rounds \in 0..GreenRounds + 1
    /\ layers \in [LayerNames -> Signals \cup {Off}]
    /\ calls \in Seq(Calls)

\* The unit clears its credentials and restarts with a motor that nobody has
\* sent anywhere since it was told to stop.  The one exception: the MQTT task
\* had a move submitted after the stop, which the service serves as any other.
RestartsAtRest ==
    handler \in {"clearing", "restarting"} /\ seeking => late

\* Who holds the button until the reset begins sees it on the LED from then to the
\* restart, or a fault, whatever the main loop shows meanwhile.
ResetIsShown == handler # "watching" => Shown(layers) \in {"magenta_fast", "red_blink"}

\* The LED table of firmware/main/README.md:91-98.  Of a motor that is idle or
\* unknown it says nothing: main.cpp:92-94 and 104-106 leave the LED dark or amber.
MotorSignal == [opening |-> "blue_solid", closing |-> "purple_solid",
                stopping |-> "yellow_blink", idle |-> Off, unknown |-> "amber_breathe"]

\* A long press stands: it was neither refused nor abandoned, nor has it failed.
ResetAccepted == armed \/ committed

\* The signal of the first of these that is the case, in the order of
\* StatusLedLayer (status_led.hpp).
TableSignal ==
    IF boot = "failed" \/ Faulty(status) THEN "red_blink"
    ELSE IF ResetAccepted THEN "magenta_fast"
    ELSE IF link.active THEN "blue_breathe"
    ELSE IF ~(link.ready /\ link.connected) THEN "cyan_blink"
    ELSE MotorSignal[status.main]

\* The README gives the magenta to a reset that is accepted (firmware/main/
\* README.md:98, "provisioning reset accepted"): no unit shows it of a reset that
\* it has given up.  It does: nothing ever clears that layer.
MagentaMeansAccepted == Shown(layers) = "magenta_fast" => ResetAccepted

\* The motor, the network and the button are left alone.
Calm == <>[][UNCHANGED <<status, link, handler>>]_vars

\* Whatever the two tasks did to the layers in whatever order, once the motor,
\* the connection and the button are calm the LED comes to show what the README's
\* table says, and keeps it; a red blink set by a reset that failed is gone by
\* then.  The one exception: after a long press that came to no restart the LED shows
\* magenta where no fault covers it (see MagentaMeansAccepted).
LedSettles ==
    Calm => <>[](Shown(layers) = IF abandoned /\ TableSignal # "red_blink"
                                 THEN "magenta_fast" ELSE TableSignal)
=============================================================================
