------------------------------ MODULE StatusLed ------------------------------
(***************************************************************************)
(* The RGB LED of a unit (firmware/common/components/status_led).  Several *)
(* tasks set and clear layers of it, each call under the LED's mutex; the  *)
(* LED shows the signal of the highest layer that is set.  A call is a     *)
(* record, so that a unit can hold those a task has still to make.         *)
(***************************************************************************)
EXTENDS Integers, Sequences, FiniteSetsExt

CONSTANT GreenRounds  \* rounds of the main loop in the first second online

ASSUME GreenRoundsAssumption == GreenRounds \in Nat \ {0}

Off == "off"

\* StatusLedLayer, lowest first, and the signals the firmware puts on each.
Layers == <<"device", "network", "provisioning", "resetting", "fault">>

LayerNames == {"device", "network", "provisioning", "resetting", "fault"}

Signals == {"blue_solid", "purple_solid", "yellow_blink", "amber_breathe",
            "red_blink", "blue_breathe", "cyan_blink", "green_solid",
            "magenta_fast", "amber_solid", "orange_solid", "red_solid"}

Dark == [layer \in LayerNames |-> Off]

Set(layer, signal) == [layer |-> layer, signal |-> signal]

Clear(layer) == [layer |-> layer, signal |-> Off]

Calls == [layer : LayerNames, signal : Signals \cup {Off}]

\* The layers after a call of set() or clear().
Called(layers, call) == [layers EXCEPT ![call.layer] = call.signal]

\* applyActiveLocked: what the LED shows after a call.  (Before the first one
\* it shows the start-up test.)
Shown(layers) ==
    LET active == {i \in DOMAIN Layers : layers[Layers[i]] # Off}
    IN  IF active = {} THEN Off ELSE layers[Layers[Max(active)]]

\* was_connected_ and connected_at_ms_ as one count: the rounds for which
\* updateConnectivity has found the unit connected, up to the end of the
\* green signal.
SeenConnected(rounds, connected) ==
    IF ~connected THEN 0
    ELSE IF rounds > GreenRounds THEN rounds ELSE rounds + 1

\* The calls updateConnectivity makes, with the count it has just brought up
\* to date.
ConnectivityCalls(provisioning, rounds) ==
    << IF provisioning THEN Set("provisioning", "blue_breathe") ELSE Clear("provisioning"),
       IF rounds = 0 THEN Set("network", "cyan_blink")
       ELSE IF rounds <= GreenRounds THEN Set("network", "green_solid")
       ELSE Clear("network") >>
=============================================================================
