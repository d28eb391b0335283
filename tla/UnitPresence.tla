---------------------------- MODULE UnitPresence ----------------------------
(***************************************************************************)
(* A unit, main or sensor, from its start to its presence at the broker:   *)
(* BleProvisioningRuntime gets it onto the Wi-Fi, and its main loop starts *)
(* the MqttBridge once networkReady() says so.                             *)
(***************************************************************************)
EXTENDS BleProvisioning, MqttBridge

allVars == <<vars, bridgeVars>>

UnitInit == Init /\ BridgeInit

\* app_main's loop, until begin() succeeds.
AdapterBegins ==
    /\ boot = "running" /\ ready
    /\ BridgeBegins
    /\ UNCHANGED vars

Bridge ==
    /\ Connected \/ Disconnects \/ LineBreaks \/ BrokerTakesOnline \/ BrokerNotices
    /\ UNCHANGED vars

\* A connection takes a station that is up.
Connects ==
    /\ wifi = "up"
    /\ BrokerAccepts
    /\ UNCHANGED vars

Provision == Step /\ UNCHANGED bridgeVars

GoesDown == Restart \/ PowerFails

StartsAgain == GoesDown /\ BridgeStartsAfresh

UnitNext == AdapterBegins \/ Bridge \/ Connects \/ Provision \/ StartsAgain

UnitSpec == UnitInit /\ [][UnitNext]_allVars

\* The main loop and the MQTT task run, connections are tried again and again,
\* one whose station is down breaks in the end, and the broker takes what
\* arrives and watches the keepalive.
BridgeFairness ==
    /\ WF_allVars(AdapterBegins) /\ SF_allVars(Connects)
    /\ WF_bridgeVars(Connected) /\ WF_bridgeVars(Disconnects)
    /\ WF_bridgeVars(LineBreaks /\ wifi # "up")
    /\ WF_bridgeVars(BrokerTakesOnline) /\ WF_bridgeVars(BrokerNotices)

UnitFairSpec == UnitSpec /\ Fairness /\ BridgeFairness

(***************************************************************************)
(* Properties                                                              *)
(***************************************************************************)

UnitTypeOK == TypeOK /\ BridgeTypeOK

\* Clients take the retained presence for the unit's.  It says "online" only
\* while the broker holds a session that will take it back when the unit is
\* gone, by whatever way: a drop, a restart, a loss of power.
OnlineIsRevocable == retained = "online" => session = "offline"

\* Neither the last will of an earlier session nor an answer that is still on
\* its way leaves a connected unit "offline" at the broker.  The one exception:
\* the client did not take the "online", which nothing repeats.
ConnectedIsAnnounced ==
    client = "connected" /\ live => retained = "online" \/ onItsWay \/ unannounced

\* Clients see a unit go offline only when its connection is no longer there: the
\* last will of an earlier session never reaches them over the present one.
OfflineIsTrue == [][retained = "online" /\ retained' # "online" => ~live]_allVars

\* A unit that is not being provisioned and restarts for a reset comes to listen
\* for new credentials, over losses of power on the way, if begin() succeeds: it
\* restarts without the old ones, or it does not restart
\* (BleProvisioningRuntime::handleLongPressUp).  To a unit that is just being
\* provisioned the phone may bring new ones between the clearing and the restart.
ResetOffersProvisioning ==
    [](handler = "clearing" /\ ~active /\ <>(handler = "restarting")
          => <>(manager = "listening" \/ boot = "failed"))

\* The network breaks neither the station nor the connection any more.
SteadyNetwork == <>[][(wifi = "up" => wifi' = "up") /\ (live => live')]_allVars

\* Once the network is steady, a unit that stays on with the right credentials
\* and is not stranded comes to be "online" for its clients
\* (firmware/main/README.md:62).
UnitComesOnline ==
    SteadyNetwork /\ <>[](boot = "running" /\ stored = "right" /\ ~active /\ ~lateDrop)
        => <>[](retained = "online" \/ unannounced)
=============================================================================
