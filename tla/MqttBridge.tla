----------------------------- MODULE MqttBridge -----------------------------
(***************************************************************************)
(* MqttBridge (firmware/common/components/mqtt_bridge): the connection of  *)
(* a unit to the broker and the presence it announces there.  The unit     *)
(* publishes "online", retained, on each connection; "offline" is left to  *)
(* the last will, which the broker publishes when the session ends.        *)
(* esp-mqtt, which reconnects by itself and runs the handlers of the       *)
(* bridge in its task, and the broker are external.                        *)
(***************************************************************************)

VARIABLES
    client,      \* client_; connected_ and connection_state_ follow from it
    live,        \* the connection of the session at the broker works
    session,     \* the session of the unit at the broker, by its last will
    onItsWay,    \* an "online" of that session, not yet at the broker
    retained,    \* the presence the broker retains
    unannounced  \* history: the last attempt to publish "online" failed

bridgeVars == <<client, live, session, onItsWay, retained, unannounced>>

\* "off": null.  "waiting": for a connection or between two attempts.
\* "accepted": the handler of MQTT_EVENT_CONNECTED has still to run.
\* "connected": connected_ is set and the state is Online.
Clients == {"off", "waiting", "accepted", "connected"}

BridgeInit ==
    /\ client = "off"
    /\ live = FALSE /\ session = "none" /\ onItsWay = FALSE
    /\ retained = "none"
    /\ unannounced = FALSE

(***************************************************************************)
(* The unit                                                                *)
(***************************************************************************)

\* Mutant of LastWill: the client is not given one.
NoLastWill == "silent"

\* The last will begin() configures, for the topic of the presence.
LastWill == "offline"

\* begin() starts the client.  (When it fails it destroys the client again, and
\* the main loop calls it anew.)
BridgeBegins ==
    /\ client = "off"
    /\ client' = "waiting"
    /\ UNCHANGED <<live, session, onItsWay, retained, unannounced>>

\* Mutant of Connected: a unit that is connected again announces nothing.
ConnectedSilently ==
    /\ client = "accepted"
    /\ client' = "connected"
    /\ UNCHANGED <<live, session, onItsWay, retained, unannounced>>

\* MQTT_EVENT_CONNECTED: "online" is published, and nobody looks whether the
\* client took it.  (What it took and could not deliver it sends once more over
\* the next connection, on which "online" is published anyway.)
Connected ==
    /\ client = "accepted"
    /\ client' = "connected"
    /\ unannounced' \in BOOLEAN
    /\ onItsWay' = (live /\ ~unannounced')
    /\ UNCHANGED <<live, session, retained>>

\* MQTT_EVENT_DISCONNECTED: the client will try again.
Disconnects ==
    /\ client \in {"accepted", "connected"}
    /\ ~live
    /\ client' = "waiting"
    /\ UNCHANGED <<live, session, onItsWay, retained, unannounced>>

\* The unit loses its memory, and with it its end of the connection.
BridgeStartsAfresh ==
    /\ client' = "off"
    /\ live' = FALSE
    /\ onItsWay' \in {onItsWay, FALSE}
    /\ UNCHANGED <<session, retained, unannounced>>

(***************************************************************************)
(* The network and the broker                                              *)
(***************************************************************************)

LineBreaks ==
    /\ live
    /\ live' = FALSE
    /\ onItsWay' \in {onItsWay, FALSE}
    /\ UNCHANGED <<client, session, retained, unannounced>>

\* A session that ends without a DISCONNECT has its last will published.
AfterSession == IF session = "offline" THEN "offline" ELSE retained

\* The unit connects under its client id.  The session the broker may still
\* hold under that id ends first.
BrokerAccepts ==
    /\ client = "waiting"
    /\ client' = "accepted"
    /\ retained' = AfterSession
    /\ session' = LastWill
    /\ live' = TRUE
    /\ onItsWay' = FALSE
    /\ UNCHANGED unannounced

BrokerTakesOnline ==
    /\ onItsWay
    /\ retained' = "online"
    /\ onItsWay' = FALSE
    /\ UNCHANGED <<client, live, session, unannounced>>

\* The keepalive time of a dead connection runs out.
BrokerNotices ==
    /\ session # "none" /\ ~live
    /\ session' = "none"
    /\ onItsWay' = FALSE
    /\ retained' = AfterSession
    /\ UNCHANGED <<client, live, unannounced>>

BridgeTypeOK ==
    /\ client \in Clients
    /\ live \in BOOLEAN
    /\ session \in {"none", "silent", "offline"}
    /\ onItsWay \in BOOLEAN
    /\ retained \in {"none", "online", "offline"}
    /\ unannounced \in BOOLEAN
=============================================================================
