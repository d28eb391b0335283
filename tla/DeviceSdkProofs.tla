--------------------------- MODULE DeviceSdkProofs ---------------------------
(***************************************************************************)
(* Theorems about DeviceSdk, for every set of devices, scopes and commands *)
(* and every bound.                                                        *)
(***************************************************************************)
EXTENDS DeviceSdk, SequenceTheorems, TLAPS

USE DevicesAssumption, CommandsAssumption, SdkBoundsAssumption

(***************************************************************************)
(* Type correctness                                                        *)
(***************************************************************************)

LEMMA InitType == Init => TypeOK
BY DEF Init, TypeOK

\* What the helpers of the SDK's actions yield.
LEMMA EmitStateType ==
    ASSUME TypeOK, NEW recs \in [Devices -> Record \cup {Unknown}], EmitState(recs)
    PROVE  /\ records' \in [Devices -> Record \cup {Unknown}]
           /\ setup' \in {"idle", "provisioning", "waiting", "done", "failed"}
BY DEF EmitState, TypeOK

LEMMA AllOfflineType ==
    ASSUME TypeOK
    PROVE  AllOffline(records) \in [Devices -> Record \cup {Unknown}]
BY DEF AllOffline, TypeOK, Record

LEMMA CompleteType ==
    ASSUME TypeOK, NEW calls, NEW result \in {"offline", "timeout", "accepted", "rejected"},
           Complete(calls, result)
    PROVE  /\ pending' \subseteq Commands
           /\ answer' \in [Commands -> {"uncalled", "unsent", "waiting", "offline",
                                        "timeout", "accepted", "rejected"}]
BY DEF Complete, TypeOK

LEMMA EmitType ==
    ASSUME TypeOK, NEW gen, NEW state \in {"disconnected", "connecting", "connected",
                                             "reconnecting"},
           Emit(gen, state) \/ OnTransportState(state)
    PROVE  /\ records' \in [Devices -> Record \cup {Unknown}]
           /\ setup' \in {"idle", "provisioning", "waiting", "done", "failed"}
           /\ connection' \in {"disconnected", "connecting", "connected", "reconnecting"}
           /\ pending' \subseteq Commands
           /\ answer' \in [Commands -> {"uncalled", "unsent", "waiting", "offline",
                                        "timeout", "accepted", "rejected"}]
<1>1. CASE UNCHANGED <<records, setup, connection, callVars>>
  BY <1>1 DEF TypeOK, callVars
<1>2. CASE connection' = state /\ EmitState(records) /\ UNCHANGED callVars
  BY <1>2, EmitStateType DEF TypeOK, callVars
<1>3. CASE MarkAllOffline(state)
  <2>1. EmitState(AllOffline(records)) /\ Complete(pending, "offline") /\ connection' = state
    BY <1>3 DEF MarkAllOffline
  <2> QED  BY <2>1, EmitStateType, AllOfflineType, CompleteType
<1> QED  BY <1>1, <1>2, <1>3 DEF Emit, OnTransportState

LEMMA PublishType ==
    ASSUME TypeOK, NEW d \in Devices, NEW message \in Message, Publish(d, message)
    PROVE  inbox' \in [Devices -> Seq(Message)]
BY DEF Publish, TypeOK

LEMMA MessagesTyped ==
    ASSUME TypeOK
    PROVE  /\ \A b \in BOOLEAN : PresenceMessage(b) \in Message
           /\ \A r \in 0..MaxRevision : StateMessage(r) \in Message
           /\ \A c \in Commands, v \in {"accepted", "rejected"} :
                 EventMessage(c, v) \in Message
BY DEF PresenceMessage, StateMessage, EventMessage, Message

LEMMA MessageTopics ==
    ASSUME NEW m \in Message
    PROVE  /\ m.topic = "presence" => m.online \in BOOLEAN
           /\ m.topic = "state" => m.data \in 0..MaxRevision
           /\ m.topic = "event" =>
                 m.command \in Commands /\ m.result \in {"accepted", "rejected"}
BY DEF Message

LEMMA PreviousType ==
    ASSUME TypeOK, NEW d \in Devices
    PROVE  Previous(d) \in Record
BY DEF Previous, Record, TypeOK

\* What waits when reading stops is the beginning of what was sent.
LEMMA FirstOfIs ==
    ASSUME NEW S, NEW q \in Seq(S), NEW n \in Nat
    PROVE  /\ FirstOf(q, n) \in Seq(S)
           /\ Len(FirstOf(q, n)) <= Len(q)
           /\ \A i \in 1..Len(FirstOf(q, n)) : FirstOf(q, n)[i] = q[i]
<1>1. CASE n < Len(q)
  <2>1. /\ SubSeq(q, 1, n) \in Seq(S) /\ Len(SubSeq(q, 1, n)) = n
        /\ \A i \in 1..n : SubSeq(q, 1, n)[i] = q[i]
    BY <1>1
  <2> QED  BY <1>1, <2>1 DEF FirstOf
<1>2. CASE ~(n < Len(q))
  BY <1>2 DEF FirstOf
<1> QED  BY <1>1, <1>2

LEMMA StopReadingKeeps ==
    ASSUME TypeOK, StopReading
    PROVE  /\ inbox' \in [Devices -> Seq(Message)]
           /\ \A d \in Devices :
                 /\ Len(inbox'[d]) <= Len(inbox[d])
                 /\ \A i \in 1..Len(inbox'[d]) : inbox'[d][i] = inbox[d][i]
           /\ link # "up" => UNCHANGED inbox
<1>1. CASE link = "up"
  <2>1. PICK n \in [Devices -> 0..MaxWaiting] :
           inbox' = [d \in Devices |-> FirstOf(inbox[d], n[d])]
    BY <1>1 DEF StopReading
  <2>2. ASSUME NEW d \in Devices PROVE inbox[d] \in Seq(Message) /\ n[d] \in Nat
    BY DEF TypeOK
  <2> QED  BY <1>1, <2>1, <2>2, FirstOfIs
<1>2. CASE link # "up"
  BY <1>2 DEF StopReading, TypeOK
<1> QED  BY <1>1, <1>2

LEMMA DropClientType ==
    ASSUME TypeOK, DropClient
    PROVE  /\ link' = "none"
           /\ uplink' \in Seq(Packet)
           /\ subscribed' \subseteq Topics
           /\ inbox' \in [Devices -> Seq(Message)]
BY StopReadingKeeps DEF DropClient

LEMMA SubscriptionsType ==
    <<Subscribe("presence"), Subscribe("state"), Subscribe("event")>> \in Seq(Packet)
<1>1. /\ Subscribe("presence") \in Packet
      /\ Subscribe("state") \in Packet
      /\ Subscribe("event") \in Packet
  BY DEF Subscribe, Packet, Topics
<1> QED  BY <1>1

LEMMA RetainedType ==
    ASSUME TypeOK, NEW d \in Devices, NEW topic
    PROVE  RetainedMessages(d, topic) \in Seq(Message)
<1>1. <<PresenceMessage(presence[d] = "online")>> \in Seq(Message)
  <2>1. (presence[d] = "online") \in BOOLEAN
    OBVIOUS
  <2>2. PresenceMessage(presence[d] = "online") \in Message
    BY <2>1, MessagesTyped, Zenon
  <2> QED  BY <2>2
<1>2. <<StateMessage(revision[d])>> \in Seq(Message)
  BY MessagesTyped DEF TypeOK
<1>3. <<>> \in Seq(Message)
  OBVIOUS
<1> QED  BY <1>1, <1>2, <1>3 DEF RetainedMessages

(***************************************************************************)
(* Steps of the application                                                *)
(***************************************************************************)

LEMMA ConnectType == ASSUME TypeOK, NEW s \in Scopes, Connect(s) PROVE TypeOK'
<1>1. /\ link' = "none" /\ uplink' \in Seq(Packet) /\ subscribed' \subseteq Topics
      /\ inbox' \in [Devices -> Seq(Message)]
  BY DropClientType DEF Connect
<1>2. /\ records' \in [Devices -> Record \cup {Unknown}]
      /\ setup' \in {"idle", "provisioning", "waiting", "done", "failed"}
      /\ pending' \subseteq Commands
      /\ answer' \in [Commands -> {"uncalled", "unsent", "waiting", "offline",
                                   "timeout", "accepted", "rejected"}]
      /\ domainSequence' \in Nat /\ fresh' \in {"no", "late", "void"}
      /\ strays' \subseteq Devices
  <2>1. CASE ClearScope
    <3>1. EmitState([d \in Devices |-> Unknown]) /\ Complete(pending, "offline")
      BY <2>1 DEF ClearScope
    <3> QED  BY <2>1, <3>1, EmitStateType, CompleteType DEF ClearScope
  <2>2. CASE UNCHANGED <<records, setup, callVars, domainSequence, fresh, strays>>
    BY <2>2 DEF TypeOK, callVars
  <2> QED  BY <2>1, <2>2 DEF Connect
<1>3. generation + 1 \in Nat
  BY DEF TypeOK
<1> QED  BY <1>1, <1>2, <1>3 DEF Connect, TypeOK, deviceVars

LEMMA DisconnectType == ASSUME TypeOK, Disconnect PROVE TypeOK'
<1>1. /\ link' = "none" /\ uplink' \in Seq(Packet) /\ subscribed' \subseteq Topics
      /\ inbox' \in [Devices -> Seq(Message)]
  BY DropClientType DEF Disconnect
<1>2. generation + 1 \in Nat
  BY DEF TypeOK
<1> QED
  BY <1>1, <1>2 DEF Disconnect, TypeOK, sdkVars, callVars, setupVars, deviceVars

LEMMA SwitchedType == ASSUME TypeOK, Switched PROVE TypeOK'
<1>1. PICK state \in {"disconnected", "connecting"} : OnTransportState(state)
  BY DEF Switched
<1>2. attempts' \subseteq Nat
  BY DEF Switched, TypeOK
<1> QED  BY <1>1, <1>2, EmitType DEF Switched, TypeOK, deviceVars

LEMMA DisposeType == ASSUME TypeOK, Dispose PROVE TypeOK'
BY CompleteType DEF Dispose, TypeOK, sdkVars, setupVars, linkVars, queueVars,
   deviceVars

LEMMA CallType == ASSUME TypeOK, NEW c \in Commands, Call(c) PROVE TypeOK'
<1>1. Publication(c) \in Packet
  BY DEF Publication, Packet
<1>2. uplink' \in Seq(Packet)
  BY <1>1 DEF Call, TypeOK
<1> QED  BY <1>2 DEF Call, TypeOK, sdkVars, setupVars, queueVars, deviceVars

LEMMA CallUnsentType == ASSUME TypeOK, NEW c \in Commands, CallUnsent(c) PROVE TypeOK'
BY DEF CallUnsent, TypeOK, sdkVars, setupVars, linkVars, queueVars,
   deviceVars

LEMMA StartSetupType == ASSUME TypeOK, StartSetup PROVE TypeOK'
BY DEF StartSetup, TypeOK, sdkVars, callVars, linkVars, queueVars,
   deviceVars

(***************************************************************************)
(* Events of the SDK                                                       *)
(***************************************************************************)

LEMMA ConnectSucceedsType ==
    ASSUME TypeOK, NEW gen \in attempts, ConnectSucceeds(gen) PROVE TypeOK'
<1>1. Emit(gen, "connected")
  BY DEF ConnectSucceeds
<1>2. link' \in {"none", "up", "broken", "down"} /\ uplink' \in Seq(Packet)
  BY SubscriptionsType DEF ConnectSucceeds, TypeOK
<1> QED  BY <1>1, <1>2, EmitType DEF ConnectSucceeds, TypeOK, queueVars, deviceVars

LEMMA ConnectFailsType ==
    ASSUME TypeOK, NEW gen \in attempts, ConnectFails(gen) PROVE TypeOK'
<1>1. Emit(gen, "disconnected")
  BY DEF ConnectFails
<1> QED  BY <1>1, EmitType DEF ConnectFails, TypeOK, queueVars, deviceVars

LEMMA TransportDisposedType == ASSUME TypeOK, TransportDisposed PROVE TypeOK'
<1>1. /\ link' = "none" /\ uplink' \in Seq(Packet) /\ subscribed' \subseteq Topics
      /\ inbox' \in [Devices -> Seq(Message)]
  BY DropClientType DEF TransportDisposed
<1>2. setup' \in {"idle", "provisioning", "waiting", "done", "failed"}
  BY DEF TransportDisposed, TypeOK
<1>3. generation' \in Nat
  BY DEF TransportDisposed, TypeOK
<1> QED
  BY <1>1, <1>2, <1>3 DEF TransportDisposed, TypeOK, sdkVars, callVars, queueVars,
     deviceVars

LEMMA SetupType ==
    ASSUME TypeOK, Provisioned \/ ProvisioningFails \/ SetupTimeout PROVE TypeOK'
<1>1. /\ setup' \in {"idle", "provisioning", "waiting", "done", "failed"}
      /\ baseline' \in Nat
      /\ UNCHANGED <<life, sdkVars, callVars, published, fresh, linkVars, inbox,
                     queueVars, deviceVars>>
  BY DEF Provisioned, ProvisioningFails, SetupTimeout, FailSetup, TypeOK
<1> QED
  BY <1>1 DEF TypeOK, sdkVars, callVars, linkVars, queueVars, deviceVars

LEMMA CommandTimeoutType ==
    ASSUME TypeOK, NEW c \in Commands, CommandTimeout(c) PROVE TypeOK'
BY CompleteType DEF CommandTimeout, TypeOK, sdkVars, setupVars, linkVars, queueVars,
   deviceVars

\* The message a device's step delivers.
LEMMA DeliveredType ==
    ASSUME TypeOK, NEW d \in Devices, Deliver(d)
    PROVE  /\ Head(inbox[d]) \in Message
           /\ Tail(inbox[d]) \in Seq(Message)
BY DEF Deliver, TypeOK

LEMMA StoreRecordType ==
    ASSUME TypeOK, NEW d \in Devices, NEW record \in Record, StoreRecord(d, record)
    PROVE  /\ records' \in [Devices -> Record \cup {Unknown}]
           /\ setup' \in {"idle", "provisioning", "waiting", "done", "failed"}
<1>1. [records EXCEPT ![d] = record] \in [Devices -> Record \cup {Unknown}]
  BY DEF TypeOK
<1> QED  BY <1>1, EmitStateType DEF StoreRecord

LEMMA DeliverType == ASSUME TypeOK, NEW d \in Devices, Deliver(d) PROVE TypeOK'
<1> DEFINE m == Head(inbox[d])
<1>1. m \in Message /\ Tail(inbox[d]) \in Seq(Message)
  BY DeliveredType
<1>2. inbox' \in [Devices -> Seq(Message)] /\ strays' \subseteq Devices
  BY <1>1 DEF Deliver, TypeOK
<1>3. CASE OnPresence(d, m)
  <2>1. m.online \in BOOLEAN
    BY <1>1, <1>3, MessageTopics DEF OnPresence
  <2>2. [Previous(d) EXCEPT !.online = m.online] \in Record
    BY <2>1, PreviousType DEF Record
  <2>3. StoreRecord(d, [Previous(d) EXCEPT !.online = m.online])
    BY <1>3 DEF OnPresence
  <2> HIDE DEF m
  <2> QED
    BY <1>2, <1>3, <2>2, <2>3, StoreRecordType
       DEF OnPresence, Deliver, TypeOK, callVars, linkVars, deviceVars
<1>4. CASE OnDomainData(d, m)
  <2>1. m.data \in 0..MaxRevision
    BY <1>1, <1>4, MessageTopics DEF OnDomainData
  <2>2. domainSequence + 1 \in Nat
    BY DEF TypeOK
  <2>3. [Previous(d) EXCEPT !.data = m.data, !.sequence = domainSequence + 1] \in Record
    BY <2>1, <2>2, PreviousType DEF Record
  <2>4. StoreRecord(d, [Previous(d) EXCEPT !.data = m.data,
                                           !.sequence = domainSequence + 1])
    BY <1>4 DEF OnDomainData
  <2>5. Freshness(d, m.data) \in {"no", "late", "void"}
    BY DEF Freshness, TypeOK
  <2> HIDE DEF m
  <2> QED
    BY <1>2, <1>4, <2>2, <2>3, <2>4, <2>5, StoreRecordType
       DEF OnDomainData, Deliver, TypeOK, callVars, linkVars, deviceVars
<1>5. CASE OnEvent(d, m)
  <2>1. m.result \in {"accepted", "rejected"}
    BY <1>1, <1>5, MessageTopics DEF OnEvent
  <2>2. StoreRecord(d, Previous(d)) /\ Complete(Matching(d, m.command), m.result)
    BY <1>5 DEF OnEvent
  <2> HIDE DEF m
  <2>3. /\ records' \in [Devices -> Record \cup {Unknown}]
        /\ setup' \in {"idle", "provisioning", "waiting", "done", "failed"}
    BY <2>2, PreviousType, StoreRecordType
  <2>4. /\ pending' \subseteq Commands
        /\ answer' \in [Commands -> {"uncalled", "unsent", "waiting", "offline",
                                     "timeout", "accepted", "rejected"}]
    BY <2>1, <2>2, CompleteType
  <2> QED
    BY <1>2, <1>5, <2>3, <2>4 DEF OnEvent, Deliver, TypeOK, linkVars, deviceVars
<1>6. CASE UNCHANGED <<records, setup, callVars, domainSequence, fresh>>
  BY <1>2, <1>6 DEF Deliver, TypeOK, callVars, linkVars, deviceVars
<1> QED  BY <1>3, <1>4, <1>5, <1>6 DEF Deliver

(***************************************************************************)
(* Steps around the SDK                                                    *)
(***************************************************************************)

LEMMA LinkType ==
    ASSUME TypeOK, LinkBreaks \/ LossNoticed \/ Reconnects PROVE TypeOK'
<1>1. CASE LinkBreaks
  BY <1>1, StopReadingKeeps DEF LinkBreaks, TypeOK, sdkVars, callVars, setupVars, queueVars
<1>2. CASE LossNoticed
  BY <1>2, EmitType DEF LossNoticed, TypeOK, queueVars, deviceVars
<1>3. CASE Reconnects
  BY <1>3, EmitType, SubscriptionsType DEF Reconnects, TypeOK, queueVars, deviceVars
<1> QED  BY <1>1, <1>2, <1>3

LEMMA BrokerType ==
    ASSUME TypeOK, BrokerSubscribes \/ BrokerForwards PROVE TypeOK'
<1>1. CASE BrokerSubscribes
  <2>1. uplink' \in Seq(Packet)
    BY <1>1 DEF BrokerSubscribes, TypeOK
  <2>2. Head(uplink).subscribe \in Topics
    BY <1>1 DEF BrokerSubscribes
  <2>3. inbox' \in [Devices -> Seq(Message)]
    <3>1. ASSUME NEW d \in Devices
          PROVE  inbox[d] \o RetainedMessages(d, Head(uplink).subscribe) \in Seq(Message)
      <4>1. inbox[d] \in Seq(Message)
        BY DEF TypeOK
      <4>2. RetainedMessages(d, Head(uplink).subscribe) \in Seq(Message)
        BY RetainedType
      <4> QED  BY <4>1, <4>2
    <3> QED  BY <1>1, <3>1 DEF BrokerSubscribes
  <2> QED
    BY <1>1, <2>1, <2>2, <2>3
       DEF BrokerSubscribes, TypeOK, sdkVars, callVars, setupVars, queueVars,
           deviceVars
<1>2. CASE BrokerForwards
  <2>1. uplink' \in Seq(Packet)
    BY <1>2 DEF BrokerForwards, TypeOK
  <2>2. Head(uplink).command \in Commands
    BY <1>2 DEF BrokerForwards
  <2> QED
    BY <1>2, <2>1, <2>2 DEF BrokerForwards, TypeOK, sdkVars, callVars, setupVars, queueVars
<1> QED  BY <1>1, <1>2

\* A step of the broker or a device leaves the SDK alone.
Around ==
    UNCHANGED <<life, sdkVars, callVars, setupVars, linkVars, queueVars>>

LEMMA AroundType ==
    ASSUME TypeOK, Around, inbox' \in [Devices -> Seq(Message)],
           losses' \in 0..MaxLosses,
           up' \in [Devices -> BOOLEAN],
           sessions' \in [Devices -> 0..MaxSessions],
           presence' \in [Devices -> {"none", "online", "offline"}],
           revision' \in [Devices -> 0..MaxRevision],
           mail' \subseteq Commands, decided' \subseteq Commands,
           verdict' \in [Commands -> {"none", "accepted", "rejected"}],
           repeated' \subseteq Commands
    PROVE  TypeOK'
BY DEF Around, TypeOK, sdkVars, callVars, setupVars, linkVars, queueVars

LEMMA DeviceType ==
    ASSUME TypeOK, NEW d \in Devices,
           \/ DeviceConnects(d) \/ DevicePublishes(d)
           \/ DeviceVanishes(d) \/ BrokerNotices(d)
    PROVE  TypeOK'
<1> USE DEF TypeOK
<1>1. Around
  BY DEF DeviceConnects, DevicePublishes, DeviceVanishes, BrokerNotices, Around
<1>2. CASE DeviceConnects(d)
  <2>1. inbox' \in [Devices -> Seq(Message)]
    BY <1>2, PublishType, MessagesTyped DEF DeviceConnects
  <2>2. sessions[d] + 1 \in 0..MaxSessions
    BY <1>2 DEF DeviceConnects
  <2>3. presence' \in [Devices -> {"none", "online", "offline"}]
    BY <1>2 DEF DeviceConnects
  <2>4. sessions' \in [Devices -> 0..MaxSessions] /\ up' \in [Devices -> BOOLEAN]
    BY <1>2, <2>2 DEF DeviceConnects
  <2>5. UNCHANGED <<losses, revision, mail, decided, verdict, repeated>>
    BY <1>2 DEF DeviceConnects
  <2> QED  BY <1>1, <2>1, <2>3, <2>4, <2>5, AroundType
<1>3. CASE DevicePublishes(d)
  <2>1. revision[d] + 1 \in 0..MaxRevision
    BY <1>3 DEF DevicePublishes
  <2>2. inbox' \in [Devices -> Seq(Message)]
    BY <1>3, <2>1, PublishType, MessagesTyped DEF DevicePublishes
  <2>3. /\ revision' \in [Devices -> 0..MaxRevision]
        /\ UNCHANGED <<losses, up, sessions, presence, mail, decided, verdict, repeated>>
    BY <1>3, <2>1 DEF DevicePublishes
  <2> QED  BY <1>1, <2>2, <2>3, AroundType
<1>4. CASE DeviceVanishes(d)
  <2>1. /\ up' \in [Devices -> BOOLEAN] /\ mail' \subseteq Commands
        /\ UNCHANGED <<inbox, losses, sessions, presence, revision, decided, verdict,
                       repeated>>
    BY <1>4 DEF DeviceVanishes
  <2> QED  BY <1>1, <2>1, AroundType
<1>5. CASE BrokerNotices(d)
  <2>1. inbox' \in [Devices -> Seq(Message)]
    BY <1>5, PublishType, MessagesTyped DEF BrokerNotices
  <2>2. /\ presence' \in [Devices -> {"none", "online", "offline"}]
        /\ UNCHANGED <<losses, up, sessions, revision, mail, decided, verdict, repeated>>
    BY <1>5 DEF BrokerNotices
  <2> QED  BY <1>1, <2>1, <2>2, AroundType
<1> QED  BY <1>2, <1>3, <1>4, <1>5

\* A result that goes out is the verdict, if it is the first one.
LEMMA ResultPublished ==
    ASSUME TypeOK, NEW c \in Commands, PublishResult(c)
    PROVE  /\ \A e \in Commands \ {c} : verdict'[e] = verdict[e]
           /\ \/ UNCHANGED <<verdict, inbox>>
              \/ \E v \in {"accepted", "rejected"} :
                    /\ verdict' = [verdict EXCEPT ![c] = IF @ = "none" THEN v ELSE @]
                    /\ Publish(DeviceOf[c], EventMessage(c, v))
                    /\ EventMessage(c, v) \in Message /\ DeviceOf[c] \in Devices
<1>1. CASE UNCHANGED <<verdict, inbox>>
  BY <1>1
<1>2. ASSUME NEW v \in {"accepted", "rejected"},
             verdict' = IF verdict[c] = "none" THEN [verdict EXCEPT ![c] = v] ELSE verdict
      PROVE  /\ verdict' = [verdict EXCEPT ![c] = IF @ = "none" THEN v ELSE @]
             /\ \A e \in Commands \ {c} : verdict'[e] = verdict[e]
  BY <1>2 DEF TypeOK
<1>3. DeviceOf[c] \in Devices
  OBVIOUS
<1> QED  BY <1>1, <1>2, <1>3, MessagesTyped DEF PublishResult

LEMMA AnsweringType ==
    ASSUME TypeOK, NEW c \in Commands, DeviceDecides(c) \/ DeviceRepeats(c)
    PROVE  TypeOK'
<1>1. inbox' \in [Devices -> Seq(Message)]
      /\ verdict' \in [Commands -> {"none", "accepted", "rejected"}]
  <2>1. PublishResult(c)
    BY DEF DeviceDecides, DeviceRepeats
  <2>2. CASE UNCHANGED <<verdict, inbox>>
    BY <2>2 DEF TypeOK
  <2>3. ASSUME NEW v \in {"accepted", "rejected"},
               verdict' = [verdict EXCEPT ![c] = IF @ = "none" THEN v ELSE @],
               Publish(DeviceOf[c], EventMessage(c, v)),
               EventMessage(c, v) \in Message, DeviceOf[c] \in Devices
        PROVE  /\ inbox' \in [Devices -> Seq(Message)]
               /\ verdict' \in [Commands -> {"none", "accepted", "rejected"}]
    <3>1. inbox' \in [Devices -> Seq(Message)]
      BY <2>3, PublishType
    <3> QED  BY <2>3, <3>1 DEF TypeOK
  <2> QED  BY <2>1, <2>2, <2>3, ResultPublished
<1>2. /\ Around /\ UNCHANGED <<losses, up, sessions, presence, revision>>
      /\ mail' \subseteq Commands /\ decided' \subseteq Commands /\ repeated' \subseteq Commands
  BY DEF DeviceDecides, DeviceRepeats, Around, TypeOK
<1> QED  BY <1>1, <1>2, AroundType DEF TypeOK

LEMMA TypeStep == ASSUME TypeOK, [Next]_vars PROVE TypeOK'
<1>1. CASE Application
  BY <1>1, ConnectType, DisconnectType, DisposeType, CallType, CallUnsentType,
     StartSetupType DEF Application
<1>2. CASE Events
  BY <1>2, SwitchedType, ConnectSucceedsType, ConnectFailsType, TransportDisposedType, SetupType,
     CommandTimeoutType, DeliverType DEF Events
<1>3. CASE Environment
  BY <1>3, LinkType, BrokerType, DeviceType, AnsweringType DEF Environment
<1>4. CASE UNCHANGED vars
  BY <1>4 DEF TypeOK, vars, sdkVars, callVars, setupVars, linkVars, queueVars,
     deviceVars
<1> QED  BY <1>1, <1>2, <1>3, <1>4 DEF Next

\* Type correctness of the SDK and its surroundings.
THEOREM TypeCorrect == Spec => []TypeOK
<1>1. TypeOK /\ [Next]_vars => TypeOK'
  BY TypeStep
<1> QED  BY <1>1, InitType, PTL DEF Spec

(***************************************************************************)
(* Pending commands                                                        *)
(***************************************************************************)

\* A step completes pending commands, adds one, or leaves them alone.
LEMMA WaitingStep ==
    ASSUME TypeOK, PendingAreWaiting, [Next]_vars
    PROVE  PendingAreWaiting'
<1>1. CASE UNCHANGED callVars
  BY <1>1 DEF PendingAreWaiting, callVars
<1>2. ASSUME NEW calls, NEW result \in {"offline", "timeout", "accepted", "rejected"},
             Complete(calls, result)
      PROVE  PendingAreWaiting'
  BY <1>2 DEF Complete, PendingAreWaiting, TypeOK
<1>3. ASSUME NEW gen, NEW state, Emit(gen, state) \/ OnTransportState(state)
      PROVE  PendingAreWaiting'
  BY <1>1, <1>2, <1>3 DEF Emit, OnTransportState, MarkAllOffline, callVars
<1>4. CASE Application
  <2>1. CASE Dispose
    BY <1>2, <2>1 DEF Dispose
  <2>2. CASE Disconnect \/ StartSetup
    BY <1>1, <2>2 DEF Disconnect, StartSetup
  <2>3. CASE \E s \in Scopes : Connect(s)
    BY <1>1, <1>2, <2>3 DEF Connect, ClearScope
  <2>4. ASSUME NEW c \in Commands, Call(c) \/ CallUnsent(c) PROVE PendingAreWaiting'
    BY <2>4 DEF Call, CallUnsent, PendingAreWaiting, TypeOK
  <2> QED  BY <1>4, <2>1, <2>2, <2>3, <2>4 DEF Application
<1>5. CASE Events
  <2>1. CASE TransportDisposed \/ Provisioned \/ ProvisioningFails \/ SetupTimeout
    BY <1>1, <2>1 DEF TransportDisposed, Provisioned, ProvisioningFails, SetupTimeout,
       FailSetup
  <2>2. CASE \E gen \in attempts : ConnectSucceeds(gen) \/ ConnectFails(gen)
    BY <1>3, <2>2 DEF ConnectSucceeds, ConnectFails
  <2>3. ASSUME NEW d \in Devices, Deliver(d) PROVE PendingAreWaiting'
    <3>1. CASE UNCHANGED callVars
      BY <1>1, <3>1
    <3>2. CASE OnEvent(d, Head(inbox[d]))
      <4>1. Head(inbox[d]).result \in {"accepted", "rejected"}
        BY <2>3, <3>2, DeliveredType, MessageTopics DEF OnEvent
      <4> QED  BY <1>2, <3>2, <4>1 DEF OnEvent
    <3> QED  BY <2>3, <3>1, <3>2 DEF Deliver, OnPresence, OnDomainData
  <2>4. CASE \E c \in Commands : CommandTimeout(c)
    BY <1>2, <2>4 DEF CommandTimeout
  <2>5. CASE Switched
    BY <1>3, <2>5 DEF Switched
  <2> QED  BY <1>5, <2>1, <2>2, <2>3, <2>4, <2>5 DEF Events
<1>6. CASE Environment
  <2>1. CASE LossNoticed \/ Reconnects
    BY <1>3, <2>1 DEF LossNoticed, Reconnects
  <2>2. CASE UNCHANGED callVars
    BY <1>1, <2>2
  <2> QED
    BY <1>6, <2>1, <2>2
       DEF Environment, LinkBreaks, BrokerSubscribes, BrokerForwards, DeviceConnects,
           DevicePublishes, DeviceVanishes, BrokerNotices, DeviceDecides, DeviceRepeats
<1>7. CASE UNCHANGED vars
  BY <1>1, <1>7 DEF vars
<1> QED  BY <1>4, <1>5, <1>6, <1>7 DEF Next

\* _pending holds the commands that wait for an answer, in every execution.
THEOREM PendingCorrect == Spec => []PendingAreWaiting
<1>1. Init => PendingAreWaiting
  BY DEF Init, PendingAreWaiting
<1>2. TypeOK /\ PendingAreWaiting /\ [Next]_vars => PendingAreWaiting'
  BY WaitingStep
<1> QED  BY <1>1, <1>2, TypeCorrect, PTL DEF Spec

(***************************************************************************)
(* The connection shown                                                    *)
(***************************************************************************)

\* The generations of the running attempts have been used, and the current client
\* has no connection while its attempt runs or is yet to begin.
AttemptsCurrent ==
    /\ \A gen \in attempts : gen <= generation
    /\ generation \in attempts => link = "none"
    /\ switching # "no" => link = "none" /\ generation \notin attempts

ConnectionInv == TypeOK /\ AttemptsCurrent /\ ConnectionIsTrue

\* A transport state that is heard is the one shown.
LEMMA EmitShows ==
    ASSUME NEW state, Emit(generation, state) \/ OnTransportState(state), life = "open"
    PROVE  connection' = state
BY DEF Emit, OnTransportState, MarkAllOffline

LEMMA EmitSuperseded ==
    ASSUME NEW gen, NEW state, Emit(gen, state), gen # generation
    PROVE  UNCHANGED <<records, connection>>
BY DEF Emit

LEMMA ConnectionStep ==
    ASSUME ConnectionInv, [Next]_vars
    PROVE  AttemptsCurrent' /\ ConnectionIsTrue'
<1> USE DEF ConnectionInv
<1>1. CASE UNCHANGED <<life, connection, link, generation, attempts, switching>>
  BY <1>1 DEF AttemptsCurrent, ConnectionIsTrue
<1>2. CASE Application
  <2>1. CASE Disconnect \/ \E s \in Scopes : Connect(s)
    BY <2>1 DEF Connect, Disconnect, DropClient, AttemptsCurrent, ConnectionIsTrue, TypeOK
  <2>2. CASE Dispose
    BY <2>2 DEF Dispose, linkVars, queueVars, AttemptsCurrent, ConnectionIsTrue
  <2>3. CASE StartSetup \/ \E c \in Commands : Call(c) \/ CallUnsent(c)
    BY <1>1, <2>3 DEF StartSetup, Call, CallUnsent, sdkVars, linkVars, queueVars
  <2> QED  BY <1>2, <2>1, <2>2, <2>3 DEF Application
<1>3. CASE Events
  <2>1. CASE TransportDisposed
    BY <2>1 DEF TransportDisposed, DropClient, queueVars, Quiet, AttemptsCurrent,
       ConnectionIsTrue, TypeOK
  <2>2. CASE Provisioned \/ ProvisioningFails \/ SetupTimeout
    BY <1>1, <2>2 DEF Provisioned, ProvisioningFails, SetupTimeout, FailSetup, sdkVars,
       linkVars, queueVars
  <2>3. ASSUME NEW gen \in attempts, ConnectSucceeds(gen)
        PROVE  AttemptsCurrent' /\ ConnectionIsTrue'
    <3>1. CASE gen = generation
      BY <2>3, <3>1, EmitShows
         DEF ConnectSucceeds, queueVars, Quiet, AttemptsCurrent, ConnectionIsTrue
    <3>2. CASE gen # generation
      BY <2>3, <3>2, EmitSuperseded
         DEF ConnectSucceeds, queueVars, Quiet, AttemptsCurrent, ConnectionIsTrue
    <3> QED  BY <3>1, <3>2
  <2>4. ASSUME NEW gen \in attempts, ConnectFails(gen)
        PROVE  AttemptsCurrent' /\ ConnectionIsTrue'
    <3>1. CASE gen = generation
      BY <2>4, <3>1, EmitShows
         DEF ConnectFails, queueVars, Quiet, AttemptsCurrent, ConnectionIsTrue
    <3>2. CASE gen # generation
      BY <2>4, <3>2, EmitSuperseded
         DEF ConnectFails, queueVars, Quiet, AttemptsCurrent, ConnectionIsTrue
    <3> QED  BY <3>1, <3>2
  <2>5. CASE \E d \in Devices : Deliver(d)
    BY <1>1, <2>5 DEF Deliver, linkVars
  <2>6. CASE \E c \in Commands : CommandTimeout(c)
    BY <1>1, <2>6 DEF CommandTimeout, sdkVars, linkVars, queueVars
  <2>7. CASE Switched
    BY <2>7, EmitShows DEF Switched, AttemptsCurrent, ConnectionIsTrue, TypeOK
  <2> QED  BY <1>3, <2>1, <2>2, <2>3, <2>4, <2>5, <2>6, <2>7 DEF Events
<1>4. CASE Environment
  <2>1. CASE LinkBreaks
    BY <2>1 DEF LinkBreaks, sdkVars, queueVars, AttemptsCurrent, ConnectionIsTrue
  <2>2. CASE LossNoticed
    BY <2>2, EmitShows DEF LossNoticed, queueVars, AttemptsCurrent, ConnectionIsTrue
  <2>3. CASE Reconnects
    BY <2>3, EmitShows DEF Reconnects, queueVars, Quiet, AttemptsCurrent, ConnectionIsTrue
  <2>4. CASE UNCHANGED <<life, connection, link, generation, attempts, switching>>
    BY <1>1, <2>4
  <2> QED
    BY <1>4, <2>1, <2>2, <2>3, <2>4
       DEF Environment, BrokerSubscribes, BrokerForwards, DeviceConnects,
           DevicePublishes, DeviceVanishes, BrokerNotices, DeviceDecides, DeviceRepeats,
           sdkVars, linkVars, queueVars
<1>5. CASE UNCHANGED vars
  BY <1>1, <1>5 DEF vars, sdkVars, linkVars, queueVars
<1> QED  BY <1>2, <1>3, <1>4, <1>5 DEF Next

\* The SDK shows the connection of the current client, in every execution: late
\* outcomes of superseded attempts are never mistaken for it.
THEOREM ConnectionCorrect == Spec => []ConnectionIsTrue
<1>1. Init => AttemptsCurrent /\ ConnectionIsTrue
  BY DEF Init, AttemptsCurrent, ConnectionIsTrue
<1>2. TypeOK /\ AttemptsCurrent /\ ConnectionIsTrue /\ [Next]_vars
        => AttemptsCurrent' /\ ConnectionIsTrue'
  BY ConnectionStep DEF ConnectionInv
<1> QED  BY <1>1, <1>2, TypeCorrect, PTL DEF Spec

(***************************************************************************)
(* What waits in the transport's stream                                    *)
(***************************************************************************)

\* What waits was read by a client that is connected, or was until a connect or
\* disconnect that is not through yet: "connected" is still shown.
QueueShown ==
    life = "open" => \A d \in Devices : inbox[d] # <<>> =>
        /\ connection = "connected"
        /\ link \in {"up", "broken"} \/ switching # "no"

\* Only a running client is sent anything.
LEMMA PublishedToClient ==
    ASSUME TypeOK, NEW d \in Devices, NEW message, Publish(d, message), NEW e \in Devices,
           inbox'[e] # inbox[e]
    PROVE  link = "up" /\ Home[e] = scope /\ e = d
BY DEF Publish, TypeOK

LEMMA DeviceSends ==
    ASSUME TypeOK, NEW d \in Devices, DeviceConnects(d) \/ DevicePublishes(d) \/ BrokerNotices(d)
    PROVE  UNCHANGED inbox \/ \E message \in Message : Publish(d, message)
<1>1. CASE DeviceConnects(d)
  BY <1>1, MessagesTyped DEF DeviceConnects
<1>2. CASE DevicePublishes(d)
  <2>1. revision[d] + 1 \in 0..MaxRevision
    BY <1>2 DEF DevicePublishes, TypeOK
  <2> QED  BY <1>2, <2>1, MessagesTyped DEF DevicePublishes
<1>3. CASE BrokerNotices(d)
  BY <1>3, MessagesTyped DEF BrokerNotices
<1> QED  BY <1>1, <1>2, <1>3

LEMMA ResultSends ==
    ASSUME TypeOK, NEW c \in Commands, DeviceDecides(c) \/ DeviceRepeats(c)
    PROVE  /\ UNCHANGED inbox \/ \E message \in Message : Publish(DeviceOf[c], message)
           /\ DeviceOf[c] \in Devices
BY ResultPublished DEF DeviceDecides, DeviceRepeats

SdkWaits == UNCHANGED <<life, scope, records, connection, link, switching>>

\* What is read in a step was sent before it, except from a client that is connected.
LEMMA NothingAdded ==
    ASSUME TypeOK, [Next]_vars, NEW d \in Devices, inbox'[d] # <<>>
    PROVE  inbox[d] # <<>> \/ (link = "up" /\ Home[d] = scope /\ SdkWaits)
<1>1. CASE UNCHANGED inbox
  BY <1>1
<1>2. CASE StopReading
  <2>1. Len(inbox'[d]) <= Len(inbox[d]) /\ inbox'[d] \in Seq(Message)
    BY <1>2, StopReadingKeeps
  <2>2. inbox'[d] # <<>> => Len(inbox'[d]) > 0
    BY <2>1
  <2> QED  BY <2>1, <2>2
<1>3. CASE Application
  BY <1>1, <1>2, <1>3 DEF Application, Connect, Disconnect, DropClient, Dispose, StartSetup,
     Call, CallUnsent
<1>4. CASE Events
  <2>1. CASE \E e \in Devices : Deliver(e)
    BY <2>1 DEF Deliver, TypeOK
  <2> QED
    BY <1>1, <1>2, <1>4, <2>1
       DEF Events, Switched, TransportDisposed, DropClient, Provisioned, ProvisioningFails,
           SetupTimeout, FailSetup, ConnectSucceeds, ConnectFails, CommandTimeout
<1>5. CASE Environment
  <2>1. CASE LinkBreaks \/ LossNoticed \/ Reconnects
    BY <1>1, <1>2, <2>1 DEF LinkBreaks, LossNoticed, Reconnects
  <2>2. CASE BrokerSubscribes
    <3>1. link = "up" /\ SdkWaits
      BY <2>2 DEF BrokerSubscribes, SdkWaits, sdkVars, queueVars
    <3> QED  BY <2>2, <3>1 DEF BrokerSubscribes, RetainedMessages
  <2>3. ASSUME NEW e \in Devices, DeviceConnects(e) \/ DevicePublishes(e) \/ BrokerNotices(e)
        PROVE  inbox[d] # <<>> \/ (link = "up" /\ Home[d] = scope /\ SdkWaits)
    BY <2>3, DeviceSends, PublishedToClient
       DEF DeviceConnects, DevicePublishes, BrokerNotices, SdkWaits, sdkVars, linkVars,
           queueVars
  <2>4. ASSUME NEW c \in Commands, DeviceDecides(c) \/ DeviceRepeats(c)
        PROVE  inbox[d] # <<>> \/ (link = "up" /\ Home[d] = scope /\ SdkWaits)
    BY <2>4, ResultSends, PublishedToClient DEF DeviceDecides, DeviceRepeats, SdkWaits, sdkVars,
           linkVars, queueVars
  <2> QED
    BY <1>1, <1>5, <2>1, <2>2, <2>3, <2>4
       DEF Environment, BrokerForwards, DeviceVanishes
<1>6. CASE UNCHANGED vars
  BY <1>1, <1>6 DEF vars
<1> QED  BY <1>3, <1>4, <1>5, <1>6 DEF Next

LEMMA LifeStays == ASSUME [Next]_vars, life' = "open" PROVE life = "open"
BY DEF Next, Application, Events, Environment, vars, Connect, Disconnect, Dispose,
   StartSetup, Call, CallUnsent, Switched, TransportDisposed, Provisioned,
   ProvisioningFails, SetupTimeout, FailSetup, ConnectSucceeds, ConnectFails, Deliver,
   CommandTimeout, LinkBreaks, LossNoticed, Reconnects, BrokerSubscribes, BrokerForwards,
   DeviceConnects, DevicePublishes, DeviceVanishes, BrokerNotices, DeviceDecides,
   DeviceRepeats

LEMMA QueueStep ==
    ASSUME ConnectionInv, QueueShown, [Next]_vars
    PROVE  QueueShown'
<1> USE DEF ConnectionInv
<1> SUFFICES ASSUME life' = "open", NEW d \in Devices, inbox'[d] # <<>>
             PROVE  /\ connection' = "connected"
                    /\ link' \in {"up", "broken"} \/ switching' # "no"
  BY DEF QueueShown
<1>1. life = "open"
  BY LifeStays
<1>2. link = "up" => switching = "no" /\ connection = "connected"
  BY <1>1 DEF AttemptsCurrent, ConnectionIsTrue
<1>3. CASE inbox[d] = <<>>
  BY <1>2, <1>3, NothingAdded DEF SdkWaits
<1>4. CASE inbox[d] # <<>>
  <2>1. connection = "connected" /\ (link \in {"up", "broken"} \/ switching # "no")
    BY <1>1, <1>4 DEF QueueShown
  <2>2. ~Quiet \/ link = "up"
    BY <1>4 DEF Quiet, Handled
  <2>3. CASE UNCHANGED <<connection, link, switching>>
    BY <2>1, <2>3
  <2>4. CASE Application
    BY <2>1, <2>3, <2>4 DEF Application, Connect, Disconnect, Dispose, StartSetup, Call,
       CallUnsent, sdkVars, linkVars, queueVars
  <2>5. CASE Events
    <3>1. CASE Switched
      BY <1>2, <1>4, <3>1 DEF Switched, Handled
    <3>2. ASSUME NEW gen \in attempts, ConnectSucceeds(gen) \/ ConnectFails(gen)
          PROVE  UNCHANGED <<connection, link, switching>>
      <4>1. gen # generation
        BY <1>1, <2>2, <3>2 DEF ConnectSucceeds, ConnectFails, AttemptsCurrent
      <4> QED
        BY <3>2, <4>1, EmitSuperseded DEF ConnectSucceeds, ConnectFails, queueVars
    <3> QED
      BY <1>1, <2>3, <2>5, <3>1, <3>2
         DEF Events, TransportDisposed, Provisioned, ProvisioningFails, SetupTimeout,
             FailSetup, Deliver, CommandTimeout, sdkVars, linkVars, queueVars
  <2>6. CASE Environment
    <3>1. CASE LinkBreaks
      BY <2>1, <3>1 DEF LinkBreaks, sdkVars
    <3>2. ~LossNoticed /\ ~Reconnects
      BY <2>2 DEF LossNoticed, Reconnects
    <3> QED
      BY <2>3, <2>6, <3>1, <3>2
         DEF Environment, BrokerSubscribes, BrokerForwards, DeviceConnects,
             DevicePublishes, DeviceVanishes, BrokerNotices, DeviceDecides, DeviceRepeats,
             sdkVars, linkVars, queueVars
  <2>7. CASE UNCHANGED vars
    BY <2>3, <2>7 DEF vars, sdkVars, linkVars, queueVars
  <2> QED  BY <2>4, <2>5, <2>6, <2>7 DEF Next
<1> QED  BY <1>3, <1>4

LEMMA QueueCorrect == Spec => [](ConnectionInv /\ QueueShown)
<1>1. Init => ConnectionInv /\ QueueShown
  BY InitType DEF Init, ConnectionInv, AttemptsCurrent, ConnectionIsTrue, QueueShown
<1>2. ConnectionInv /\ QueueShown /\ [Next]_vars => (ConnectionInv /\ QueueShown)'
  BY TypeStep, ConnectionStep, QueueStep DEF ConnectionInv
<1> QED  BY <1>1, <1>2, PTL DEF Spec

(***************************************************************************)
(* Who is shown online                                                     *)
(***************************************************************************)

LEMMA AllOfflineEnds ==
    ASSUME TypeOK, records' = AllOffline(records)
    PROVE  \A d \in Devices : ~IsOnline(d)'
BY DEF AllOffline, IsOnline, TypeOK, Record

LEMMA OnlineStep ==
    ASSUME TypeOK, QueueShown, OnlineOnlyWhileConnected, [Next]_vars
    PROVE  OnlineOnlyWhileConnected'
<1>1. CASE /\ life' = "open" => life = "open"
           /\ UNCHANGED <<records, connection>>
  BY <1>1 DEF OnlineOnlyWhileConnected, IsOnline
<1>2. ASSUME NEW state, MarkAllOffline(state) PROVE OnlineOnlyWhileConnected'
  BY <1>2, AllOfflineEnds DEF MarkAllOffline, EmitState, OnlineOnlyWhileConnected
<1>3. ASSUME NEW gen, NEW state, Emit(gen, state) \/ OnTransportState(state), UNCHANGED life
      PROVE  OnlineOnlyWhileConnected'
  <2>1. CASE UNCHANGED <<records, connection>>
    BY <1>1, <1>3, <2>1
  <2>2. CASE connection' = "connected"
    BY <2>2 DEF OnlineOnlyWhileConnected
  <2>3. CASE MarkAllOffline(state)
    BY <1>2, <2>3
  <2> QED  BY <1>3, <2>1, <2>2, <2>3 DEF Emit, OnTransportState
<1>4. CASE Application
  <2>1. CASE Disconnect \/ Dispose \/ StartSetup
    BY <1>1, <2>1 DEF Disconnect, Dispose, StartSetup, sdkVars
  <2>2. ASSUME NEW s \in Scopes, Connect(s) PROVE OnlineOnlyWhileConnected'
    <3>1. CASE ScopeChanges(s)
      BY <2>2, <3>1 DEF Connect, ClearScope, EmitState, OnlineOnlyWhileConnected, IsOnline
    <3>2. CASE ~ScopeChanges(s)
      BY <1>1, <2>2, <3>2 DEF Connect
    <3> QED  BY <3>1, <3>2
  <2>3. CASE \E c \in Commands : Call(c) \/ CallUnsent(c)
    BY <1>1, <2>3 DEF Call, CallUnsent, sdkVars
  <2> QED  BY <1>4, <2>1, <2>2, <2>3 DEF Application
<1>5. CASE Events
  <2>1. CASE TransportDisposed \/ Provisioned \/ ProvisioningFails \/ SetupTimeout
    BY <1>1, <2>1 DEF TransportDisposed, Provisioned, ProvisioningFails, SetupTimeout,
       FailSetup, sdkVars
  <2>2. CASE \E gen \in attempts : ConnectSucceeds(gen) \/ ConnectFails(gen)
    BY <1>3, <2>2 DEF ConnectSucceeds, ConnectFails
  <2>3. ASSUME NEW d \in Devices, Deliver(d) PROVE OnlineOnlyWhileConnected'
    BY <2>3 DEF Deliver, QueueShown, OnlineOnlyWhileConnected, IsOnline
  <2>4. CASE \E c \in Commands : CommandTimeout(c)
    BY <1>1, <2>4 DEF CommandTimeout, sdkVars
  <2>5. CASE Switched
    BY <1>3, <2>5 DEF Switched
  <2> QED  BY <1>5, <2>1, <2>2, <2>3, <2>4, <2>5 DEF Events
<1>6. CASE Environment
  <2>1. CASE LossNoticed \/ Reconnects
    BY <1>3, <2>1 DEF LossNoticed, Reconnects
  <2>2. CASE UNCHANGED <<life, records, connection>>
    BY <1>1, <2>2
  <2> QED
    BY <1>6, <2>1, <2>2
       DEF Environment, LinkBreaks, BrokerSubscribes, BrokerForwards, DeviceConnects,
           DevicePublishes, DeviceVanishes, BrokerNotices, DeviceDecides, DeviceRepeats,
           sdkVars
<1>7. CASE UNCHANGED vars
  BY <1>1, <1>7 DEF vars, sdkVars
<1> QED  BY <1>4, <1>5, <1>6, <1>7 DEF Next

\* No device is shown online over a connection that is not there: a message waits
\* only while "connected" is shown.
THEOREM OnlineCorrect == Spec => []OnlineOnlyWhileConnected
<1>1. Init => OnlineOnlyWhileConnected
  BY DEF Init, OnlineOnlyWhileConnected, IsOnline
<1>2. TypeOK /\ QueueShown /\ OnlineOnlyWhileConnected /\ [Next]_vars
        => OnlineOnlyWhileConnected'
  BY OnlineStep
<1>3. ConnectionInv => TypeOK
  BY DEF ConnectionInv
<1> QED  BY <1>1, <1>2, <1>3, QueueCorrect, PTL DEF Spec

(***************************************************************************)
(* Records and scopes                                                      *)
(***************************************************************************)

\* What is known of a device of another scope came in while the transport was
\* switching; none is online, and nothing more waits, once that is through.
ForeignSilent ==
    life = "open" => \A d \in Devices : Home[d] # scope =>
        /\ records[d] # Unknown => d \in strays /\ (switching = "no" => ~IsOnline(d))
        /\ inbox[d] # <<>> => switching # "no"

\* A state of the transport brings no device online.
LEMMA EmitKeeps ==
    ASSUME TypeOK, NEW gen, NEW state, Emit(gen, state) \/ OnTransportState(state),
           NEW d \in Devices
    PROVE  /\ records[d] = Unknown <=> records'[d] = Unknown
           /\ IsOnline(d)' => IsOnline(d)
<1>1. CASE records' = records
  BY <1>1 DEF IsOnline
<1>2. CASE records' = AllOffline(records)
  <2>1. ASSUME records[d] # Unknown
        PROVE  [records[d] EXCEPT !.online = FALSE] \in Record
    <3>1. records[d] \in Record
      BY <2>1 DEF TypeOK
    <3> QED  BY <3>1 DEF Record
  <2>2. ~IsOnline(d)'
    BY <1>2, AllOfflineEnds
  <2>3. records[d] # Unknown => records'[d] # Unknown
    BY <1>2, <2>1, UnknownAssumption DEF AllOffline
  <2>4. records[d] = Unknown => records'[d] = Unknown
    BY <1>2 DEF AllOffline
  <2> QED  BY <2>2, <2>3, <2>4
<1> QED  BY <1>1, <1>2 DEF Emit, OnTransportState, MarkAllOffline, EmitState

LEMMA ForeignStep ==
    ASSUME ConnectionInv, ForeignSilent, [Next]_vars
    PROVE  ForeignSilent'
<1> USE DEF ConnectionInv
<1> SUFFICES ASSUME life' = "open", NEW d \in Devices, Home[d] # scope'
             PROVE  /\ records'[d] # Unknown =>
                          d \in strays' /\ (switching' = "no" => ~IsOnline(d)')
                    /\ inbox'[d] # <<>> => switching' # "no"
  BY DEF ForeignSilent, IsOnline
<1>1. life = "open"
  BY LifeStays
<1>2. ASSUME NEW s \in Scopes, Connect(s)
      PROVE  /\ switching' # "no"
             /\ records'[d] # Unknown => d \in strays'
  <2>1. CASE ScopeChanges(s)
    BY <1>2, <2>1 DEF Connect, ClearScope, EmitState
  <2>2. CASE ~ScopeChanges(s)
    BY <1>1, <1>2, <2>2 DEF Connect, ScopeChanges, ForeignSilent
  <2> QED  BY <1>2, <2>1, <2>2 DEF Connect
<1>3. CASE UNCHANGED scope
  <2>1. /\ records[d] # Unknown => d \in strays /\ (switching = "no" => ~IsOnline(d))
        /\ inbox[d] # <<>> => switching # "no"
        /\ inbox'[d] # <<>> => inbox[d] # <<>>
    BY <1>1, <1>3, NothingAdded DEF ForeignSilent
  <2>2. CASE UNCHANGED <<records, strays, switching>>
    BY <2>1, <2>2 DEF IsOnline
  <2>3. ASSUME NEW gen, NEW state, Emit(gen, state), UNCHANGED <<strays, switching>>
        PROVE  /\ records'[d] # Unknown =>
                     d \in strays' /\ (switching' = "no" => ~IsOnline(d)')
               /\ inbox'[d] # <<>> => switching' # "no"
    BY <2>1, <2>3, EmitKeeps
  <2>4. CASE Application
    <3>1. CASE Disconnect
      BY <2>1, <3>1 DEF Disconnect, sdkVars
    <3> QED
      BY <1>2, <2>1, <2>2, <2>4, <3>1 DEF Application, Dispose, StartSetup, Call,
         CallUnsent, sdkVars, queueVars
  <2>5. CASE Events
    <3>1. CASE Switched
      <4>1. inbox'[d] = <<>>
        BY <3>1 DEF Switched, Handled, AttemptsCurrent
      <4>2. \E state : OnTransportState(state) /\ state # "connected"
        BY <3>1 DEF Switched
      <4>3. records' = AllOffline(records)
        BY <1>1, <4>2 DEF OnTransportState, MarkAllOffline, EmitState
      <4>4. ~IsOnline(d)'
        BY <4>3, AllOfflineEnds
      <4>5. records'[d] # Unknown => records[d] # Unknown
        BY <4>3 DEF AllOffline
      <4> QED  BY <2>1, <3>1, <4>1, <4>4, <4>5 DEF Switched
    <3>2. CASE \E gen \in attempts : ConnectSucceeds(gen) \/ ConnectFails(gen)
      BY <2>3, <3>2 DEF ConnectSucceeds, ConnectFails, queueVars
    <3>3. ASSUME NEW e \in Devices, Deliver(e)
          PROVE  /\ records'[d] # Unknown =>
                       d \in strays' /\ (switching' = "no" => ~IsOnline(d)')
                 /\ inbox'[d] # <<>> => switching' # "no"
      <4>1. CASE e = d
        BY <1>3, <2>1, <3>3, <4>1 DEF Deliver
      <4>2. CASE e # d
        <5>1. records'[d] = records[d]
          BY <1>1, <3>3, <4>2 DEF Deliver, OnPresence, OnDomainData, OnEvent, StoreRecord,
             EmitState, TypeOK
        <5>2. UNCHANGED switching /\ strays \subseteq strays'
          BY <3>3 DEF Deliver
        <5> QED  BY <2>1, <5>1, <5>2 DEF IsOnline
      <4> QED  BY <4>1, <4>2
    <3> QED
      BY <2>2, <2>5, <3>1, <3>2, <3>3
         DEF Events, TransportDisposed, Provisioned, ProvisioningFails, SetupTimeout,
             FailSetup, CommandTimeout, sdkVars, queueVars
  <2>6. CASE Environment
    <3>1. CASE LossNoticed \/ Reconnects
      BY <2>3, <3>1 DEF LossNoticed, Reconnects, queueVars
    <3> QED
      BY <2>2, <2>6, <3>1
         DEF Environment, LinkBreaks, BrokerSubscribes, BrokerForwards, DeviceConnects,
             DevicePublishes, DeviceVanishes, BrokerNotices, DeviceDecides, DeviceRepeats,
             sdkVars, queueVars
  <2>7. CASE UNCHANGED vars
    BY <2>2, <2>7 DEF vars, sdkVars, queueVars
  <2> QED  BY <2>4, <2>5, <2>6, <2>7 DEF Next
<1>4. CASE ~UNCHANGED scope
  <2>1. \E s \in Scopes : Connect(s)
    BY <1>4 DEF Next, Application, Events, Environment, vars, Disconnect, Dispose,
       StartSetup, Call, CallUnsent, Switched, TransportDisposed, Provisioned,
       ProvisioningFails, SetupTimeout, FailSetup, ConnectSucceeds, ConnectFails, Deliver,
       CommandTimeout, LinkBreaks, LossNoticed, Reconnects, BrokerSubscribes,
       BrokerForwards, DeviceConnects, DevicePublishes, DeviceVanishes, BrokerNotices,
       DeviceDecides, DeviceRepeats, sdkVars
  <2> QED  BY <1>2, <2>1
<1> QED  BY <1>3, <1>4

LEMMA ForeignCorrect == Spec => []ForeignSilent
<1>1. Init => ForeignSilent
  BY DEF Init, ForeignSilent
<1>2. ConnectionInv /\ ForeignSilent /\ [Next]_vars => ForeignSilent'
  BY ForeignStep
<1> QED  BY <1>1, <1>2, QueueCorrect, PTL DEF Spec

\* Of a device of another scope, nothing is known but what waited when the scope
\* changed, and it is not left online, in every execution.
THEOREM ScopesCorrect == Spec => []ScopesKeptApart
<1>1. ForeignSilent => ScopesKeptApart
  BY DEF ForeignSilent, ScopesKeptApart
<1> QED  BY <1>1, ForeignCorrect, PTL

(***************************************************************************)
(* Sequences of messages                                                   *)
(***************************************************************************)

\* Message m answers command c.
IsAbout(m, c) == m.topic = "event" /\ m.command = c

\* The verdict v on command c is among the messages q.
Answered(q, c, v) == \E i \in 1..Len(q) : q[i] = EventMessage(c, v)

\* No answer to command c comes before its verdict v.
TruthFirst(q, c, v) ==
    \A i \in 1..Len(q) : IsAbout(q[i], c) => \E j \in 1..i : q[j] = EventMessage(c, v)

\* Message m is the last of its topic.
LastIs(q, m) ==
    \E i \in 1..Len(q) : q[i] = m /\ \A j \in i+1..Len(q) : q[j].topic # m.topic

Silent(q, topic) == \A i \in 1..Len(q) : q[i].topic # topic

LEMMA EventIsAbout ==
    ASSUME NEW c, NEW v PROVE IsAbout(EventMessage(c, v), c)
BY DEF IsAbout, EventMessage

LEMMA AppendAnswered ==
    ASSUME NEW q \in Seq(Message), NEW m \in Message, NEW c, NEW v,
           Answered(q, c, v) \/ m = EventMessage(c, v)
    PROVE  Answered(Append(q, m), c, v)
<1> DEFINE r == Append(q, m)
<1>1. /\ Len(q) \in Nat /\ Len(r) = Len(q) + 1 /\ r[Len(q) + 1] = m
      /\ \A i \in 1..Len(q) : r[i] = q[i]
  BY AppendProperties, LenProperties
<1> HIDE DEF r
<1> QED  BY <1>1 DEF Answered, r

LEMMA AppendTruth ==
    ASSUME NEW q \in Seq(Message), NEW m \in Message, NEW c, NEW v,
           TruthFirst(q, c, v),
           ~IsAbout(m, c) \/ Answered(q, c, v) \/ m = EventMessage(c, v)
    PROVE  TruthFirst(Append(q, m), c, v)
<1> DEFINE r == Append(q, m)
<1>1. /\ Len(q) \in Nat /\ Len(r) = Len(q) + 1 /\ r[Len(q) + 1] = m
      /\ \A i \in 1..Len(q) : r[i] = q[i]
  BY AppendProperties, LenProperties
<1> SUFFICES ASSUME NEW i \in 1..Len(r), IsAbout(r[i], c)
             PROVE  \E j \in 1..i : r[j] = EventMessage(c, v)
  BY DEF TruthFirst
<1> HIDE DEF r
<1>2. CASE i \in 1..Len(q)
  BY <1>1, <1>2 DEF TruthFirst
<1>3. CASE i = Len(q) + 1
  <2>1. CASE Answered(q, c, v)
    BY <1>1, <1>3, <2>1 DEF Answered
  <2>2. CASE m = EventMessage(c, v)
    BY <1>1, <1>3, <2>2
  <2> QED  BY <1>1, <1>3, <2>1, <2>2
<1> QED  BY <1>1, <1>2, <1>3

LEMMA TailAnswered ==
    ASSUME NEW q \in Seq(Message), q # <<>>, NEW c, NEW v, ~IsAbout(Head(q), c)
    PROVE  /\ Answered(q, c, v) => Answered(Tail(q), c, v)
           /\ TruthFirst(q, c, v) => TruthFirst(Tail(q), c, v)
<1> DEFINE t == Tail(q)
<1>1. /\ Len(q) \in Nat \ {0} /\ Len(t) = Len(q) - 1
      /\ \A i \in 1..Len(t) : t[i] = q[i + 1]
      /\ q[1] = Head(q)
  BY HeadTailProperties, EmptySeq
<1>2. q[1] # EventMessage(c, v)
  BY <1>1, EventIsAbout
<1> HIDE DEF t
<1>3. ASSUME Answered(q, c, v) PROVE Answered(t, c, v)
  <2>1. PICK i \in 1..Len(q) : q[i] = EventMessage(c, v)
    BY <1>3 DEF Answered
  <2>2. i - 1 \in 1..Len(t) /\ t[i - 1] = q[i]
    BY <1>1, <1>2, <2>1
  <2> QED  BY <2>1, <2>2 DEF Answered
<1>4. ASSUME TruthFirst(q, c, v) PROVE TruthFirst(t, c, v)
  <2> SUFFICES ASSUME NEW i \in 1..Len(t), IsAbout(t[i], c)
               PROVE  \E j \in 1..i : t[j] = EventMessage(c, v)
    BY DEF TruthFirst
  <2>1. i + 1 \in 1..Len(q) /\ t[i] = q[i + 1]
    BY <1>1
  <2>2. PICK j \in 1..i + 1 : q[j] = EventMessage(c, v)
    BY <1>4, <2>1 DEF TruthFirst
  <2>3. j - 1 \in 1..i /\ t[j - 1] = q[j]
    BY <1>1, <1>2, <2>1, <2>2
  <2> QED  BY <2>2, <2>3
<1> QED  BY <1>3, <1>4 DEF t

\* What is heard about a command first is the verdict on it.
LEMMA HeadIsTruth ==
    ASSUME NEW q \in Seq(Message), q # <<>>, NEW c, NEW v, TruthFirst(q, c, v),
           IsAbout(Head(q), c)
    PROVE  Head(q) = EventMessage(c, v)
<1>1. Len(q) \in Nat \ {0} /\ q[1] = Head(q)
  BY EmptySeq
<1>2. PICK j \in 1..1 : q[j] = EventMessage(c, v)
  BY <1>1 DEF TruthFirst
<1> QED  BY <1>1, <1>2

LEMMA AppendLast ==
    ASSUME NEW q \in Seq(Message), NEW m \in Message
    PROVE  /\ LastIs(Append(q, m), m)
           /\ \A n : LastIs(q, n) /\ m.topic # n.topic => LastIs(Append(q, m), n)
           /\ \A topic : Silent(q, topic) /\ m.topic # topic => Silent(Append(q, m), topic)
<1> DEFINE r == Append(q, m)
<1>1. /\ Len(q) \in Nat /\ Len(r) = Len(q) + 1 /\ r[Len(q) + 1] = m
      /\ \A i \in 1..Len(q) : r[i] = q[i]
  BY AppendProperties, LenProperties
<1> HIDE DEF r
<1>2. LastIs(r, m)
  BY <1>1 DEF LastIs
<1>3. ASSUME NEW n, LastIs(q, n), m.topic # n.topic PROVE LastIs(r, n)
  <2>1. PICK i \in 1..Len(q) : q[i] = n /\ \A j \in i+1..Len(q) : q[j].topic # n.topic
    BY <1>3 DEF LastIs
  <2>2. i \in 1..Len(r) /\ r[i] = n
    BY <1>1, <2>1
  <2>3. \A j \in i+1..Len(r) : r[j].topic # n.topic
    BY <1>1, <1>3, <2>1
  <2> QED  BY <2>2, <2>3 DEF LastIs
<1>4. ASSUME NEW topic, Silent(q, topic), m.topic # topic PROVE Silent(r, topic)
  BY <1>1, <1>4 DEF Silent
<1> QED  BY <1>2, <1>3, <1>4 DEF r

LEMMA TailLast ==
    ASSUME NEW q \in Seq(Message), q # <<>>
    PROVE  /\ \A n : LastIs(q, n) =>
                  LastIs(Tail(q), n) \/ (Head(q) = n /\ Silent(Tail(q), n.topic))
           /\ \A topic : Silent(q, topic) =>
                  Head(q).topic # topic /\ Silent(Tail(q), topic)
<1> DEFINE t == Tail(q)
<1>1. /\ Len(q) \in Nat \ {0} /\ Len(t) = Len(q) - 1
      /\ \A i \in 1..Len(t) : t[i] = q[i + 1]
      /\ q[1] = Head(q)
  BY HeadTailProperties, EmptySeq
<1> HIDE DEF t
<1>2. ASSUME NEW n, LastIs(q, n)
      PROVE  LastIs(t, n) \/ (Head(q) = n /\ Silent(t, n.topic))
  <2>1. PICK i \in 1..Len(q) : q[i] = n /\ \A j \in i+1..Len(q) : q[j].topic # n.topic
    BY <1>2 DEF LastIs
  <2>2. CASE i = 1
    BY <1>1, <2>1, <2>2 DEF Silent
  <2>3. CASE i # 1
    <3>1. i - 1 \in 1..Len(t) /\ t[i - 1] = n
      BY <1>1, <2>1, <2>3
    <3>2. \A j \in (i - 1)+1..Len(t) : t[j].topic # n.topic
      BY <1>1, <2>1, <2>3
    <3> QED  BY <3>1, <3>2 DEF LastIs
  <2> QED  BY <2>2, <2>3
<1>3. ASSUME NEW topic, Silent(q, topic)
      PROVE  Head(q).topic # topic /\ Silent(t, topic)
  BY <1>1, <1>3 DEF Silent
<1> QED  BY <1>2, <1>3 DEF t

\* The beginning of what was read.
LEMMA BeginningTruth ==
    ASSUME NEW q \in Seq(Message), NEW r \in Seq(Message), Len(r) <= Len(q),
           \A i \in 1..Len(r) : r[i] = q[i], NEW c, NEW v, TruthFirst(q, c, v)
    PROVE  TruthFirst(r, c, v)
<1>1. Len(q) \in Nat /\ Len(r) \in Nat
  BY LenProperties
<1> SUFFICES ASSUME NEW i \in 1..Len(r), IsAbout(r[i], c)
             PROVE  \E j \in 1..i : r[j] = EventMessage(c, v)
  BY DEF TruthFirst
<1>2. PICK j \in 1..i : q[j] = EventMessage(c, v)
  BY <1>1 DEF TruthFirst
<1> QED  BY <1>1, <1>2

LEMMA NothingOnItsWay ==
    /\ \A c, v : TruthFirst(<<>>, c, v)
    /\ \A topic : Silent(<<>>, topic)
    /\ \A n : ~LastIs(<<>>, n)
BY DEF TruthFirst, Silent, LastIs

(***************************************************************************)
(* What the broker has read and sent                                       *)
(***************************************************************************)

\* A connected client has read, and is sent, only what it subscribed to.
BroadcastsCarried ==
    /\ link # "up" => subscribed = {}
    /\ link = "up" => \A d \in Devices, topic \in Topics :
          topic \notin subscribed => Silent(inbox[d], topic)

LEMMA PublishedTo ==
    ASSUME TypeOK, NEW d \in Devices, NEW m \in Message, Publish(d, m), NEW e \in Devices
    PROVE  \/ inbox'[e] = inbox[e]
           \/ /\ e = d /\ inbox'[e] = Append(inbox[e], m)
              /\ link = "up" /\ m.topic \in subscribed /\ Home[d] = scope
BY DEF Publish, TypeOK

\* The broker sends at most one retained message per device and topic.
LEMMA RetainedSent ==
    ASSUME TypeOK, BrokerSubscribes, NEW d \in Devices
    PROVE  \/ inbox'[d] = inbox[d]
           \/ \E m \in Message : /\ m.topic = Head(uplink).subscribe
                                 /\ m.topic # "event"
                                 /\ inbox'[d] = Append(inbox[d], m)
<1> DEFINE topic == Head(uplink).subscribe
           r == RetainedMessages(d, topic)
<1>1. inbox'[d] = inbox[d] \o r /\ inbox[d] \in Seq(Message)
  BY DEF BrokerSubscribes, TypeOK
<1> HIDE DEF r
<1>2. CASE r = <<>>
  BY <1>1, <1>2
<1>3. ASSUME NEW m \in Message, r = <<m>>, m.topic = topic, m.topic # "event"
      PROVE  \E n \in Message : /\ n.topic = topic /\ n.topic # "event"
                                /\ inbox'[d] = Append(inbox[d], n)
  <2>1. inbox'[d] = Append(inbox[d], m)
    BY <1>1, <1>3, AppendIsConcat
  <2> QED  BY <1>3, <2>1
<1>4. CASE topic = "presence" /\ r = <<PresenceMessage(presence[d] = "online")>>
  <2>1. (presence[d] = "online") \in BOOLEAN
    OBVIOUS
  <2>2. PresenceMessage(presence[d] = "online") \in Message
    BY <2>1, MessagesTyped, Zenon
  <2>3. PresenceMessage(presence[d] = "online").topic = "presence"
    BY DEF PresenceMessage
  <2> QED  BY <1>3, <1>4, <2>2, <2>3
<1>5. CASE topic = "state" /\ r = <<StateMessage(revision[d])>>
  <2>1. StateMessage(revision[d]) \in Message
    BY MessagesTyped DEF TypeOK
  <2>2. StateMessage(revision[d]).topic = "state"
    BY DEF StateMessage
  <2> QED  BY <1>3, <1>5, <2>1, <2>2
<1> QED  BY <1>2, <1>4, <1>5 DEF RetainedMessages, r

LEMMA TopicOf ==
    /\ \A b : PresenceMessage(b).topic = "presence"
    /\ \A r : StateMessage(r).topic = "state"
    /\ \A c, v : EventMessage(c, v).topic = "event"
BY DEF PresenceMessage, StateMessage, EventMessage

LEMMA CarriedStep ==
    ASSUME TypeOK, BroadcastsCarried, [Next]_vars
    PROVE  BroadcastsCarried'
<1>1. CASE UNCHANGED <<link, subscribed, inbox>>
  BY <1>1 DEF BroadcastsCarried
<1>2. CASE link' # "up" /\ (subscribed' = {} \/ (link # "up" /\ UNCHANGED subscribed))
  BY <1>2 DEF BroadcastsCarried
<1>3. CASE Quiet /\ link # "up" /\ UNCHANGED <<subscribed, inbox>>
  BY <1>3, NothingOnItsWay DEF Quiet, Handled, BroadcastsCarried
<1>4. ASSUME NEW d \in Devices, NEW m \in Message, Publish(d, m),
             UNCHANGED <<link, subscribed>>
      PROVE  BroadcastsCarried'
  <2> SUFFICES ASSUME link = "up", NEW e \in Devices, NEW topic \in Topics,
                      topic \notin subscribed
               PROVE  Silent(inbox'[e], topic)
    BY <1>4 DEF BroadcastsCarried
  <2>1. inbox[e] \in Seq(Message) /\ Silent(inbox[e], topic)
    BY DEF BroadcastsCarried, TypeOK
  <2>2. CASE inbox'[e] = inbox[e]
    BY <2>1, <2>2
  <2>3. CASE inbox'[e] = Append(inbox[e], m) /\ m.topic \in subscribed
    BY <2>1, <2>3, AppendLast
  <2> QED  BY <1>4, <2>2, <2>3, PublishedTo
<1>5. CASE Application
  <2>1. CASE Disconnect \/ \E s \in Scopes : Connect(s)
    BY <1>2, <2>1 DEF Disconnect, Connect, DropClient
  <2>2. CASE Dispose \/ StartSetup \/ \E c \in Commands : Call(c) \/ CallUnsent(c)
    BY <1>1, <2>2 DEF Dispose, StartSetup, Call, CallUnsent, linkVars
  <2> QED  BY <1>5, <2>1, <2>2 DEF Application
<1>6. CASE Events
  <2>1. CASE TransportDisposed
    BY <1>2, <2>1 DEF TransportDisposed, DropClient
  <2>2. CASE \/ Switched \/ Provisioned \/ ProvisioningFails \/ SetupTimeout
             \/ \E c \in Commands : CommandTimeout(c)
             \/ \E gen \in attempts : ConnectFails(gen)
    BY <1>1, <2>2 DEF Switched, Provisioned, ProvisioningFails, SetupTimeout, FailSetup,
       CommandTimeout, ConnectFails, linkVars
  <2>3. CASE \E gen \in attempts : ConnectSucceeds(gen)
    BY <1>1, <1>3, <2>3 DEF ConnectSucceeds
  <2>4. ASSUME NEW d \in Devices, Deliver(d) PROVE BroadcastsCarried'
    <3> SUFFICES ASSUME link = "up", NEW e \in Devices, NEW topic \in Topics,
                        topic \notin subscribed
                 PROVE  Silent(inbox'[e], topic)
      BY <2>4 DEF BroadcastsCarried, Deliver, linkVars
    <3>1. inbox[e] \in Seq(Message) /\ Silent(inbox[e], topic)
      BY DEF BroadcastsCarried, TypeOK
    <3>2. inbox'[e] = inbox[e] \/ (inbox[e] # <<>> /\ inbox'[e] = Tail(inbox[e]))
      BY <2>4 DEF Deliver, TypeOK
    <3> QED  BY <3>1, <3>2, TailLast
  <2> QED  BY <1>6, <2>1, <2>2, <2>3, <2>4 DEF Events
<1>7. CASE Environment
  <2>1. CASE LinkBreaks
    BY <1>2, <2>1 DEF LinkBreaks
  <2>2. CASE LossNoticed
    BY <1>2, <2>2 DEF LossNoticed
  <2>3. CASE Reconnects
    BY <1>3, <2>3 DEF Reconnects
  <2>4. CASE BrokerSubscribes
    <3> SUFFICES ASSUME NEW e \in Devices, NEW topic \in Topics, topic \notin subscribed'
                 PROVE  Silent(inbox'[e], topic)
      BY <2>4 DEF BrokerSubscribes, BroadcastsCarried
    <3>1. topic # Head(uplink).subscribe /\ topic \notin subscribed /\ link = "up"
      BY <2>4 DEF BrokerSubscribes
    <3>2. inbox[e] \in Seq(Message) /\ Silent(inbox[e], topic)
      BY <3>1 DEF BroadcastsCarried, TypeOK
    <3> QED  BY <2>4, <3>1, <3>2, RetainedSent, AppendLast
  <2>5. ASSUME NEW d \in Devices,
               DeviceConnects(d) \/ DevicePublishes(d) \/ BrokerNotices(d)
        PROVE  BroadcastsCarried'
    <3>1. UNCHANGED <<link, subscribed>>
      BY <2>5 DEF DeviceConnects, DevicePublishes, BrokerNotices, linkVars
    <3> QED  BY <1>1, <1>4, <2>5, <3>1, DeviceSends
  <2>6. CASE BrokerForwards \/ \E d \in Devices : DeviceVanishes(d)
    BY <1>1, <2>6 DEF BrokerForwards, DeviceVanishes, linkVars
  <2>7. ASSUME NEW c \in Commands, DeviceDecides(c) \/ DeviceRepeats(c)
        PROVE  BroadcastsCarried'
    <3>1. UNCHANGED <<link, subscribed>>
      BY <2>7 DEF DeviceDecides, DeviceRepeats, linkVars
    <3> QED  BY <1>1, <1>4, <2>7, <3>1, ResultSends
  <2> QED  BY <1>7, <2>1, <2>2, <2>3, <2>4, <2>5, <2>6, <2>7 DEF Environment
<1>8. CASE UNCHANGED vars
  BY <1>1, <1>8 DEF vars, linkVars
<1> QED  BY <1>5, <1>6, <1>7, <1>8 DEF Next

LEMMA BroadcastsCorrect == Spec => []BroadcastsCarried
<1>1. Init => BroadcastsCarried
  BY NothingOnItsWay DEF Init, BroadcastsCarried
<1>2. TypeOK /\ BroadcastsCarried /\ [Next]_vars => BroadcastsCarried'
  BY CarriedStep
<1> QED  BY <1>1, <1>2, TypeCorrect, PTL DEF Spec

(***************************************************************************)
(* What the client has sent                                                *)
(***************************************************************************)

\* Among the packets q the subscription to a topic is before any command.
SubscriptionAhead(q, topic) ==
    \E j \in 1..Len(q) : /\ q[j] = Subscribe(topic)
                         /\ \A i \in 1..j : q[i] \in [subscribe : Topics]

\* The broker reads a client's subscriptions before its commands.
SubscribesFirst ==
    link = "up" =>
        \A topic \in Topics : topic \in subscribed \/ SubscriptionAhead(uplink, topic)

\* Command c is among the packets q, and there once.
Holds(q, c) == \E i \in 1..Len(q) : q[i] = Publication(c)
Once(q, c) ==
    \A i, j \in 1..Len(q) : q[i] = Publication(c) /\ q[j] = Publication(c) => i = j

LEMMA PacketsDiffer ==
    /\ \A topic, c : Subscribe(topic) # Publication(c)
    /\ \A c, e : Publication(c) = Publication(e) => c = e
    /\ \A p : ~(p \in [subscribe : Topics] /\ p \in [command : Commands])
    /\ \A p \in [command : Commands] : p = Publication(p.command)
    /\ \A p \in [subscribe : Topics] : p = Subscribe(p.subscribe)
<1>1. \A topic, c : Subscribe(topic) # Publication(c)
  <2> SUFFICES ASSUME NEW topic, NEW c, Subscribe(topic) = Publication(c) PROVE FALSE
    OBVIOUS
  <2>1. DOMAIN Subscribe(topic) = {"subscribe"} /\ DOMAIN Publication(c) = {"command"}
    BY DEF Subscribe, Publication
  <2>2. {"subscribe"} # {"command"}
    OBVIOUS
  <2> QED  BY <2>1, <2>2
<1>2. \A c, e : Publication(c) = Publication(e) => c = e
  BY DEF Publication
<1>3. \A p : ~(p \in [subscribe : Topics] /\ p \in [command : Commands])
  OBVIOUS
<1>4. \A p \in [command : Commands] : p = Publication(p.command)
  BY DEF Publication
<1>5. \A p \in [subscribe : Topics] : p = Subscribe(p.subscribe)
  BY DEF Subscribe
<1> QED  BY <1>1, <1>2, <1>3, <1>4, <1>5

LEMMA AppendPacket ==
    ASSUME NEW q \in Seq(Packet), NEW c \in Commands
    PROVE  LET r == Append(q, Publication(c)) IN
           /\ \A topic : SubscriptionAhead(q, topic) => SubscriptionAhead(r, topic)
           /\ \A e : Holds(r, e) <=> Holds(q, e) \/ e = c
           /\ \A e : Once(q, e) /\ (e = c => ~Holds(q, e)) => Once(r, e)
<1> DEFINE r == Append(q, Publication(c))
<1>1. Publication(c) \in Packet
  BY DEF Publication, Packet
<1>2. /\ Len(q) \in Nat /\ Len(r) = Len(q) + 1 /\ r[Len(q) + 1] = Publication(c)
      /\ \A i \in 1..Len(q) : r[i] = q[i]
  BY <1>1, AppendProperties, LenProperties
<1> HIDE DEF r
<1>3. ASSUME NEW topic, SubscriptionAhead(q, topic) PROVE SubscriptionAhead(r, topic)
  BY <1>2, <1>3 DEF SubscriptionAhead
<1>4. ASSUME NEW e PROVE Holds(r, e) <=> Holds(q, e) \/ e = c
  BY <1>2, PacketsDiffer DEF Holds
<1>5. ASSUME NEW e, Once(q, e), e = c => ~Holds(q, e) PROVE Once(r, e)
  BY <1>2, <1>5, PacketsDiffer DEF Holds, Once
<1> QED  BY <1>3, <1>4, <1>5 DEF r

LEMMA TailPacket ==
    ASSUME NEW q \in Seq(Packet), q # <<>>
    PROVE  /\ \A topic : SubscriptionAhead(q, topic) =>
                  /\ Head(q) \in [subscribe : Topics]
                  /\ Head(q) = Subscribe(topic) \/ SubscriptionAhead(Tail(q), topic)
           /\ \A e : Holds(Tail(q), e) => Holds(q, e)
           /\ \A e : Once(q, e) => Once(Tail(q), e)
           /\ \A e : Once(q, e) /\ Head(q) = Publication(e) =>
                  Holds(q, e) /\ ~Holds(Tail(q), e)
<1> DEFINE t == Tail(q)
<1>1. /\ Len(q) \in Nat \ {0} /\ Len(t) = Len(q) - 1
      /\ \A i \in 1..Len(t) : t[i] = q[i + 1]
      /\ q[1] = Head(q)
  BY HeadTailProperties, EmptySeq
<1> HIDE DEF t
<1>2. ASSUME NEW topic, SubscriptionAhead(q, topic)
      PROVE  /\ Head(q) \in [subscribe : Topics]
             /\ Head(q) = Subscribe(topic) \/ SubscriptionAhead(t, topic)
  <2>1. PICK j \in 1..Len(q) : /\ q[j] = Subscribe(topic)
                               /\ \A i \in 1..j : q[i] \in [subscribe : Topics]
    BY <1>2 DEF SubscriptionAhead
  <2>2. q[1] \in [subscribe : Topics]
    BY <1>1, <2>1
  <2>3. CASE j # 1
    <3>1. j - 1 \in 1..Len(t) /\ t[j - 1] = Subscribe(topic)
      BY <1>1, <2>1, <2>3
    <3>2. \A i \in 1..j - 1 : t[i] \in [subscribe : Topics]
      <4> SUFFICES ASSUME NEW i \in 1..j - 1 PROVE t[i] \in [subscribe : Topics]
        OBVIOUS
      <4>1. i \in 1..Len(t) /\ i + 1 \in 1..j
        BY <1>1
      <4> QED  BY <1>1, <2>1, <4>1
    <3> QED  BY <1>1, <2>2, <3>1, <3>2 DEF SubscriptionAhead
  <2> QED  BY <1>1, <2>1, <2>2, <2>3
<1>3. ASSUME NEW e PROVE Holds(t, e) => Holds(q, e)
  BY <1>1 DEF Holds
<1>4. ASSUME NEW e, Once(q, e) PROVE Once(t, e)
  BY <1>1, <1>4 DEF Once
<1>5. ASSUME NEW e, Once(q, e), Head(q) = Publication(e)
      PROVE  Holds(q, e) /\ ~Holds(t, e)
  BY <1>1, <1>5 DEF Holds, Once
<1> QED  BY <1>2, <1>3, <1>4, <1>5 DEF t

LEMMA FreshPackets ==
    LET q == <<Subscribe("presence"), Subscribe("state"), Subscribe("event")>> IN
    /\ \A topic \in Topics : SubscriptionAhead(q, topic)
    /\ \A c : ~Holds(q, c) /\ Once(q, c)
    /\ \A c : ~Holds(<<>>, c) /\ Once(<<>>, c)
<1> DEFINE q == <<Subscribe("presence"), Subscribe("state"), Subscribe("event")>>
<1>1. /\ Len(q) = 3 /\ q[1] = Subscribe("presence") /\ q[2] = Subscribe("state")
      /\ q[3] = Subscribe("event")
  OBVIOUS
<1>2. \A topic \in Topics : Subscribe(topic) \in [subscribe : Topics]
  BY DEF Subscribe
<1> HIDE DEF q
<1>3. ASSUME NEW topic \in Topics PROVE SubscriptionAhead(q, topic)
  <2>1. \A i \in 1..3 : q[i] \in [subscribe : Topics]
    BY <1>1, <1>2 DEF Topics
  <2>2. \E i \in 1..3 : q[i] = Subscribe(topic)
    BY <1>1 DEF Topics
  <2> QED  BY <1>1, <2>1, <2>2 DEF SubscriptionAhead
<1>4. ASSUME NEW c PROVE ~Holds(q, c) /\ Once(q, c)
  <2>1. \A i \in 1..3 : q[i] # Publication(c)
    BY <1>1, PacketsDiffer
  <2> QED  BY <1>1, <2>1 DEF Holds, Once
<1>5. \A c : ~Holds(<<>>, c) /\ Once(<<>>, c)
  BY DEF Holds, Once
<1> QED  BY <1>3, <1>4, <1>5 DEF q

LEMMA SubscribesStep ==
    ASSUME TypeOK, SubscribesFirst, [Next]_vars
    PROVE  SubscribesFirst'
<1>1. CASE link' # "up" \/ UNCHANGED <<link, uplink, subscribed>>
  BY <1>1 DEF SubscribesFirst
<1>2. CASE uplink' = <<Subscribe("presence"), Subscribe("state"), Subscribe("event")>>
  BY <1>2, FreshPackets DEF SubscribesFirst
<1>3. CASE Application
  <2>1. CASE Disconnect \/ \E s \in Scopes : Connect(s)
    BY <1>1, <2>1 DEF Disconnect, Connect, DropClient
  <2>2. CASE Dispose \/ StartSetup \/ \E c \in Commands : CallUnsent(c)
    BY <1>1, <2>2 DEF Dispose, StartSetup, CallUnsent, linkVars
  <2>3. ASSUME NEW c \in Commands, Call(c) PROVE SubscribesFirst'
    <3>1. uplink \in Seq(Packet)
      BY DEF TypeOK
    <3> QED  BY <2>3, <3>1, AppendPacket DEF Call, SubscribesFirst
  <2> QED  BY <1>3, <2>1, <2>2, <2>3 DEF Application
<1>4. CASE Events
  <2>1. CASE TransportDisposed
    BY <1>1, <2>1 DEF TransportDisposed, DropClient
  <2>2. CASE \/ Switched \/ Provisioned \/ ProvisioningFails \/ SetupTimeout
             \/ \E d \in Devices : Deliver(d)
             \/ \E c \in Commands : CommandTimeout(c)
    BY <1>1, <2>2 DEF Switched, Provisioned, ProvisioningFails, SetupTimeout, FailSetup, Deliver,
       CommandTimeout, linkVars
  <2>3. CASE \E gen \in attempts : ConnectSucceeds(gen) \/ ConnectFails(gen)
    BY <1>1, <1>2, <2>3 DEF ConnectSucceeds, ConnectFails
  <2> QED  BY <1>4, <2>1, <2>2, <2>3 DEF Events
<1>5. CASE Environment
  <2>1. CASE LinkBreaks \/ LossNoticed
    BY <1>1, <2>1 DEF LinkBreaks, LossNoticed
  <2>2. CASE Reconnects
    BY <1>2, <2>2 DEF Reconnects
  <2>3. CASE BrokerSubscribes \/ BrokerForwards
    <3>1. uplink \in Seq(Packet) /\ uplink # <<>> /\ uplink' = Tail(uplink) /\ link = "up"
      BY <2>3 DEF BrokerSubscribes, BrokerForwards, TypeOK
    <3>2. ASSUME NEW topic \in Topics
          PROVE  topic \in subscribed' \/ SubscriptionAhead(uplink', topic)
      <4>1. CASE topic \in subscribed
        BY <2>3, <4>1 DEF BrokerSubscribes, BrokerForwards
      <4>2. CASE SubscriptionAhead(uplink, topic)
        <5>1. Head(uplink) \in [subscribe : Topics]
          BY <3>1, <4>2, TailPacket
        <5>2. subscribed' = subscribed \cup {Head(uplink).subscribe}
          BY <2>3, <5>1, PacketsDiffer DEF BrokerSubscribes, BrokerForwards
        <5>3. Head(uplink) = Subscribe(topic) => topic \in subscribed'
          BY <5>2 DEF Subscribe
        <5> QED  BY <3>1, <4>2, <5>3, TailPacket
      <4> QED  BY <3>1, <4>1, <4>2 DEF SubscribesFirst
    <3> QED  BY <3>2 DEF SubscribesFirst
  <2>4. CASE UNCHANGED linkVars
    BY <1>1, <2>4 DEF linkVars
  <2> QED
    BY <1>5, <2>1, <2>2, <2>3, <2>4
       DEF Environment, DeviceConnects, DevicePublishes, DeviceVanishes, BrokerNotices,
           DeviceDecides, DeviceRepeats
<1>6. CASE UNCHANGED vars
  BY <1>1, <1>6 DEF vars, linkVars
<1> QED  BY <1>3, <1>4, <1>5, <1>6 DEF Next

LEMMA SubscribesCorrect == Spec => []SubscribesFirst
<1>1. Init => SubscribesFirst
  BY DEF Init, SubscribesFirst
<1>2. TypeOK /\ SubscribesFirst /\ [Next]_vars => SubscribesFirst'
  BY SubscribesStep
<1> QED  BY <1>1, <1>2, TypeCorrect, PTL DEF Spec

\* A command is sent once: it waits to be read by the broker, or is on its way to
\* the device, or is decided on, or was lost, but never two of these.
SentOnce ==
    \A c \in Commands :
        /\ answer[c] \in {"uncalled", "unsent"} =>
               ~Holds(uplink, c) /\ c \notin mail /\ c \notin decided
        /\ Once(uplink, c)
        /\ Holds(uplink, c) => c \notin mail /\ c \notin decided
        /\ c \in mail => c \notin decided
        /\ c \notin decided => verdict[c] = "none"

\* A call that was not made yet, or was refused, stays so unless it is made.
LEMMA CompleteAnswers ==
    ASSUME TypeOK, PendingAreWaiting, NEW calls \in SUBSET pending,
           NEW result \in {"offline", "timeout", "accepted", "rejected"},
           Complete(calls, result), NEW c \in Commands
    PROVE  /\ answer'[c] = IF c \in calls THEN result ELSE answer[c]
           /\ answer[c] \in {"uncalled", "unsent"} <=> answer'[c] \in {"uncalled", "unsent"}
BY DEF Complete, PendingAreWaiting

\* How a step that makes no call changes the answers: some of those who wait
\* get one.
LEMMA AnswersOtherwise ==
    ASSUME TypeOK, PendingAreWaiting, [Next]_vars,
           ~ \E c \in Commands : Call(c) \/ CallUnsent(c)
    PROVE  \A c \in Commands :
              /\ answer[c] \in {"uncalled", "unsent"} <=> answer'[c] \in {"uncalled", "unsent"}
              /\ c \in pending' => c \in pending
<1>1. ASSUME NEW calls \in SUBSET pending,
             NEW result \in {"offline", "timeout", "accepted", "rejected"},
             Complete(calls, result)
      PROVE  \A c \in Commands :
                /\ answer[c] \in {"uncalled", "unsent"}
                     <=> answer'[c] \in {"uncalled", "unsent"}
                /\ c \in pending' => c \in pending
  BY <1>1, CompleteAnswers DEF Complete
<1>2. CASE UNCHANGED callVars
  BY <1>2 DEF callVars
<1>3. ASSUME NEW gen, NEW state, Emit(gen, state) \/ OnTransportState(state)
      PROVE  UNCHANGED callVars \/ Complete(pending, "offline")
  BY <1>3 DEF Emit, OnTransportState, MarkAllOffline, callVars
<1>4. CASE Application
  <2>1. CASE Dispose \/ \E s \in Scopes : Connect(s)
    <3>1. UNCHANGED callVars \/ Complete(pending, "offline")
      BY <2>1 DEF Dispose, Connect, ClearScope
    <3> QED  BY <1>1, <1>2, <3>1
  <2>2. CASE Disconnect \/ StartSetup
    BY <1>2, <2>2 DEF Disconnect, StartSetup
  <2> QED  BY <1>4, <2>1, <2>2 DEF Application
<1>5. CASE Events
  <2>1. CASE TransportDisposed \/ Provisioned \/ ProvisioningFails \/ SetupTimeout
    BY <1>2, <2>1 DEF TransportDisposed, Provisioned, ProvisioningFails, SetupTimeout,
       FailSetup
  <2>2. CASE Switched \/ \E gen \in attempts : ConnectSucceeds(gen) \/ ConnectFails(gen)
    <3>1. UNCHANGED callVars \/ Complete(pending, "offline")
      BY <1>3, <2>2 DEF Switched, ConnectSucceeds, ConnectFails
    <3> QED  BY <1>1, <1>2, <3>1
  <2>3. ASSUME NEW d \in Devices, Deliver(d)
        PROVE  \/ UNCHANGED callVars
               \/ \E calls \in SUBSET pending, result \in {"accepted", "rejected"} :
                     Complete(calls, result)
    <3>1. CASE OnEvent(d, Head(inbox[d]))
      <4>1. Head(inbox[d]).result \in {"accepted", "rejected"}
        BY <2>3, <3>1, DeliveredType, MessageTopics DEF OnEvent
      <4>2. Matching(d, Head(inbox[d]).command) \in SUBSET pending
        BY DEF Matching
      <4> QED  BY <3>1, <4>1, <4>2 DEF OnEvent
    <3> QED  BY <2>3, <3>1 DEF Deliver, OnPresence, OnDomainData
  <2>4. ASSUME NEW c \in Commands, CommandTimeout(c)
        PROVE  {c} \in SUBSET pending /\ Complete({c}, "timeout")
    BY <2>4 DEF CommandTimeout
  <2> QED  BY <1>1, <1>2, <1>5, <2>1, <2>2, <2>3, <2>4 DEF Events
<1>6. CASE Environment
  <2>1. CASE LossNoticed \/ Reconnects
    <3>1. UNCHANGED callVars \/ Complete(pending, "offline")
      BY <1>3, <2>1 DEF LossNoticed, Reconnects
    <3> QED  BY <1>1, <1>2, <3>1
  <2>2. CASE UNCHANGED callVars
    BY <1>2, <2>2
  <2> QED
    BY <1>6, <2>1, <2>2
       DEF Environment, LinkBreaks, BrokerSubscribes, BrokerForwards, DeviceConnects,
           DevicePublishes, DeviceVanishes, BrokerNotices, DeviceDecides, DeviceRepeats
<1>7. CASE UNCHANGED vars
  BY <1>2, <1>7 DEF vars
<1> QED  BY <1>4, <1>5, <1>6, <1>7 DEF Next

LEMMA UplinkOtherwise ==
    ASSUME TypeOK, [Next]_vars, ~ \E c \in Commands : Call(c)
    PROVE  \A c \in Commands : /\ Holds(uplink', c) => Holds(uplink, c)
                               /\ Once(uplink, c) => Once(uplink', c)
<1>1. CASE UNCHANGED uplink
  BY <1>1
<1>2. CASE \/ uplink' = <<>>
           \/ uplink' = <<Subscribe("presence"), Subscribe("state"), Subscribe("event")>>
  BY <1>2, FreshPackets
<1>3. CASE uplink # <<>> /\ uplink' = Tail(uplink)
  <2>1. uplink \in Seq(Packet)
    BY DEF TypeOK
  <2> QED  BY <1>3, <2>1, TailPacket
<1>4. CASE Application
  BY <1>1, <1>2, <1>4
     DEF Application, Disconnect, Connect, DropClient, Dispose, StartSetup, CallUnsent,
         linkVars
<1>5. CASE Events
  BY <1>1, <1>2, <1>5
     DEF Events, Switched, TransportDisposed, DropClient, Provisioned, ProvisioningFails,
         SetupTimeout, FailSetup, ConnectSucceeds, ConnectFails, Deliver, CommandTimeout,
         linkVars
<1>6. CASE Environment
  BY <1>1, <1>2, <1>3, <1>6
     DEF Environment, LinkBreaks, LossNoticed, Reconnects, BrokerSubscribes,
         BrokerForwards, DeviceConnects, DevicePublishes, DeviceVanishes, BrokerNotices,
         DeviceDecides, DeviceRepeats, linkVars
<1>7. CASE UNCHANGED vars
  BY <1>1, <1>7 DEF vars, linkVars
<1> QED  BY <1>4, <1>5, <1>6, <1>7 DEF Next

\* The steps that concern a command on its way; no other step does.
LEMMA MailOtherwise ==
    ASSUME [Next]_vars, ~BrokerForwards,
           ~ \E c \in Commands : DeviceDecides(c) \/ DeviceRepeats(c)
    PROVE  mail' \subseteq mail /\ UNCHANGED <<decided, verdict>>
<1>1. CASE UNCHANGED <<mail, decided, verdict>>
  BY <1>1
<1>2. CASE Application
  BY <1>1, <1>2 DEF Application, Disconnect, Connect, Dispose, StartSetup, Call,
     CallUnsent, deviceVars
<1>3. CASE Events
  BY <1>1, <1>3
     DEF Events, Switched, TransportDisposed, Provisioned, ProvisioningFails, SetupTimeout,
         FailSetup, ConnectSucceeds, ConnectFails, Deliver, CommandTimeout, deviceVars
<1>4. CASE Environment
  BY <1>1, <1>4
     DEF Environment, LinkBreaks, LossNoticed, Reconnects, BrokerSubscribes,
         DeviceConnects, DevicePublishes, DeviceVanishes, BrokerNotices, deviceVars
<1>5. CASE UNCHANGED vars
  BY <1>1, <1>5 DEF vars, deviceVars
<1> QED  BY <1>2, <1>3, <1>4, <1>5 DEF Next

LEMMA SentStep ==
    ASSUME TypeOK, PendingAreWaiting, SentOnce, [Next]_vars
    PROVE  SentOnce'
<1>1. ASSUME NEW c \in Commands, Call(c) PROVE SentOnce'
  <2>1. uplink \in Seq(Packet) /\ UNCHANGED <<mail, decided, verdict>>
    BY <1>1 DEF Call, TypeOK, deviceVars
  <2>2. /\ answer[c] = "uncalled"
        /\ \A e \in Commands : answer'[e] = IF e = c THEN "waiting" ELSE answer[e]
    BY <1>1 DEF Call, TypeOK
  <2>3. CASE uplink' = Append(uplink, Publication(c))
    BY <2>1, <2>2, <2>3, AppendPacket DEF SentOnce
  <2>4. CASE UNCHANGED uplink
    BY <2>1, <2>2, <2>4 DEF SentOnce
  <2> QED  BY <1>1, <2>3, <2>4 DEF Call
<1>2. ASSUME NEW c \in Commands, CallUnsent(c) PROVE SentOnce'
  <2>1. UNCHANGED <<uplink, mail, decided, verdict>>
    BY <1>2 DEF CallUnsent, linkVars, deviceVars
  <2>2. /\ answer[c] = "uncalled"
        /\ \A e \in Commands : answer'[e] = IF e = c THEN "unsent" ELSE answer[e]
    BY <1>2 DEF CallUnsent, TypeOK
  <2> QED  BY <2>1, <2>2 DEF SentOnce
<1>3. CASE ~ \E c \in Commands : Call(c) \/ CallUnsent(c)
  <2>1. \A c \in Commands :
          /\ answer[c] \in {"uncalled", "unsent"} <=> answer'[c] \in {"uncalled", "unsent"}
          /\ Holds(uplink', c) => Holds(uplink, c)
          /\ Once(uplink, c) => Once(uplink', c)
    BY <1>3, AnswersOtherwise, UplinkOtherwise
  <2>2. CASE mail' \subseteq mail /\ UNCHANGED <<decided, verdict>>
    BY <2>1, <2>2 DEF SentOnce
  <2>3. CASE BrokerForwards
    <3>1. /\ uplink \in Seq(Packet) /\ uplink # <<>> /\ uplink' = Tail(uplink)
          /\ UNCHANGED <<decided, verdict>>
      BY <2>3 DEF BrokerForwards, TypeOK
    <3>2. PICK c \in Commands : Head(uplink) = Publication(c) /\ Head(uplink).command = c
      BY <2>3, PacketsDiffer DEF BrokerForwards
    <3>3. mail' \subseteq mail \cup {c}
      BY <2>3, <3>2 DEF BrokerForwards
    <3>4. Holds(uplink, c) /\ ~Holds(uplink', c)
      BY <3>1, <3>2, TailPacket DEF SentOnce
    <3> QED  BY <2>1, <3>1, <3>3, <3>4 DEF SentOnce
  <2>4. ASSUME NEW c \in Commands, DeviceDecides(c) PROVE SentOnce'
    <3>1. c \in mail /\ mail' = mail \ {c} /\ decided' = decided \cup {c}
      BY <2>4 DEF DeviceDecides
    <3>2. \A e \in Commands \ {c} : verdict'[e] = verdict[e]
      BY <2>4, ResultPublished DEF DeviceDecides
    <3> QED  BY <2>1, <3>1, <3>2 DEF SentOnce
  <2>5. ASSUME NEW c \in Commands, DeviceRepeats(c) PROVE SentOnce'
    <3>1. c \in decided /\ UNCHANGED <<mail, decided>>
      BY <2>5 DEF DeviceRepeats
    <3>2. \A e \in Commands \ {c} : verdict'[e] = verdict[e]
      BY <2>5, ResultPublished DEF DeviceRepeats
    <3> QED  BY <2>1, <3>1, <3>2 DEF SentOnce
  <2> QED  BY <2>2, <2>3, <2>4, <2>5, MailOtherwise
<1> QED  BY <1>1, <1>2, <1>3

LEMMA SentCorrect == Spec => []SentOnce
<1>1. Init => SentOnce
  BY FreshPackets DEF Init, SentOnce
<1>2. TypeOK /\ PendingAreWaiting /\ SentOnce /\ [Next]_vars => SentOnce'
  BY SentStep
<1> QED  BY <1>1, <1>2, TypeCorrect, PendingCorrect, PTL DEF Spec

(***************************************************************************)
(* What a caller hears                                                     *)
(***************************************************************************)

\* No answer to a command is on its way that no device has decided on.
NoneInvented ==
    \A c \in Commands, d \in Devices :
        verdict[c] = "none" => TruthFirst(inbox[d], c, "none")

LEMMA NoVerdictIsNone ==
    ASSUME NEW q \in Seq(Message), NEW c, TruthFirst(q, c, "none")
    PROVE  /\ \A i \in 1..Len(q) : ~IsAbout(q[i], c)
           /\ \A v : TruthFirst(q, c, v)
<1>1. EventMessage(c, "none") \notin Message
  BY DEF EventMessage, Message
<1>2. ASSUME NEW i \in 1..Len(q) PROVE q[i] # EventMessage(c, "none")
  <2>1. q[i] \in Message
    BY ElementOfSeq
  <2> QED  BY <1>1, <2>1
<1>3. \A i \in 1..Len(q) : ~IsAbout(q[i], c)
  <2> SUFFICES ASSUME NEW i \in 1..Len(q), IsAbout(q[i], c) PROVE FALSE
    OBVIOUS
  <2>1. PICK j \in 1..i : q[j] = EventMessage(c, "none")
    BY DEF TruthFirst
  <2>2. Len(q) \in Nat
    BY LenProperties
  <2>3. j \in 1..Len(q)
    BY <2>2
  <2> QED  BY <1>2, <2>1, <2>3
<1> QED  BY <1>3 DEF TruthFirst

LEMMA InventStep ==
    ASSUME TypeOK, NoneInvented, [Next]_vars
    PROVE  NoneInvented'
<1>1. CASE UNCHANGED <<inbox, verdict>>
  BY <1>1 DEF NoneInvented
<1>2. CASE StopReading /\ UNCHANGED verdict
  <2> SUFFICES ASSUME NEW c \in Commands, NEW d \in Devices, verdict'[c] = "none"
               PROVE  TruthFirst(inbox'[d], c, "none")
    BY DEF NoneInvented
  <2>1. TruthFirst(inbox[d], c, "none") /\ inbox[d] \in Seq(Message)
    BY <1>2 DEF NoneInvented, TypeOK
  <2>2. /\ inbox'[d] \in Seq(Message) /\ Len(inbox'[d]) <= Len(inbox[d])
        /\ \A i \in 1..Len(inbox'[d]) : inbox'[d][i] = inbox[d][i]
    BY <1>2, StopReadingKeeps
  <2> QED  BY <2>1, <2>2, BeginningTruth
<1>3. ASSUME NEW c \in Commands, NEW d \in Devices, NEW m \in Message,
             inbox'[d] = Append(inbox[d], m), ~IsAbout(m, c), verdict[c] = "none"
      PROVE  TruthFirst(inbox'[d], c, "none")
  <2>1. inbox[d] \in Seq(Message) /\ TruthFirst(inbox[d], c, "none")
    BY <1>3 DEF NoneInvented, TypeOK
  <2> QED  BY <1>3, <2>1, AppendTruth
<1>4. ASSUME NEW d \in Devices, NEW m \in Message, Publish(d, m),
             \A c \in Commands : verdict'[c] = "none" => verdict[c] = "none" /\ ~IsAbout(m, c)
      PROVE  NoneInvented'
  <2> SUFFICES ASSUME NEW c \in Commands, NEW e \in Devices, verdict'[c] = "none"
               PROVE  TruthFirst(inbox'[e], c, "none")
    BY DEF NoneInvented
  <2>1. verdict[c] = "none" /\ ~IsAbout(m, c)
    BY <1>4
  <2>2. CASE inbox'[e] = inbox[e]
    BY <2>1, <2>2 DEF NoneInvented
  <2>3. CASE inbox'[e] = Append(inbox[e], m)
    BY <1>3, <2>1, <2>3
  <2> QED  BY <1>4, <2>2, <2>3, PublishedTo
<1>5. CASE Application
  BY <1>1, <1>2, <1>5 DEF Application, Disconnect, Connect, DropClient, Dispose,
     StartSetup, Call, CallUnsent, deviceVars
<1>6. CASE Events
  <2>1. ASSUME NEW d \in Devices, Deliver(d) PROVE NoneInvented'
    <3>1. \A e \in Devices : inbox'[e] = IF e = d THEN Tail(inbox[e]) ELSE inbox[e]
      BY <2>1 DEF Deliver, TypeOK
    <3>2. UNCHANGED verdict /\ inbox[d] # <<>> /\ inbox[d] \in Seq(Message)
      BY <2>1 DEF Deliver, deviceVars, TypeOK
    <3>3. ASSUME NEW c \in Commands, verdict[c] = "none"
          PROVE  TruthFirst(Tail(inbox[d]), c, "none")
      <4>1. TruthFirst(inbox[d], c, "none")
        BY <3>3 DEF NoneInvented
      <4>2. Len(inbox[d]) \in Nat \ {0} /\ inbox[d][1] = Head(inbox[d])
        BY <3>2, EmptySeq
      <4>3. ~IsAbout(Head(inbox[d]), c)
        BY <3>2, <4>1, <4>2, NoVerdictIsNone
      <4> QED  BY <3>2, <4>1, <4>3, TailAnswered
    <3> QED  BY <3>1, <3>2, <3>3 DEF NoneInvented
  <2>2. CASE ~ \E d \in Devices : Deliver(d)
    BY <1>1, <1>2, <1>6, <2>2
       DEF Events, Switched, TransportDisposed, DropClient, Provisioned, ProvisioningFails,
           SetupTimeout, FailSetup, ConnectSucceeds, ConnectFails, CommandTimeout,
           deviceVars
  <2> QED  BY <2>1, <2>2
<1>7. CASE Environment
  <2>1. CASE LinkBreaks
    BY <1>2, <2>1 DEF LinkBreaks
  <2>2. CASE LossNoticed \/ Reconnects \/ BrokerForwards \/ \E d \in Devices : DeviceVanishes(d)
    BY <1>1, <2>2 DEF LossNoticed, Reconnects, BrokerForwards, DeviceVanishes, deviceVars
  <2>3. CASE BrokerSubscribes
    <3> SUFFICES ASSUME NEW c \in Commands, NEW d \in Devices, verdict'[c] = "none"
                 PROVE  TruthFirst(inbox'[d], c, "none")
      BY DEF NoneInvented
    <3>1. verdict[c] = "none"
      BY <2>3 DEF BrokerSubscribes, deviceVars
    <3>2. ASSUME NEW m \in Message, m.topic # "event" PROVE ~IsAbout(m, c)
      BY <3>2 DEF IsAbout
    <3> QED  BY <1>3, <2>3, <3>1, <3>2, RetainedSent DEF NoneInvented
  <2>4. ASSUME NEW d \in Devices,
               DeviceConnects(d) \/ DevicePublishes(d) \/ BrokerNotices(d)
        PROVE  NoneInvented'
    <3>1. UNCHANGED verdict
      BY <2>4 DEF DeviceConnects, DevicePublishes, BrokerNotices
    <3>2. ASSUME ~UNCHANGED inbox PROVE \E m \in Message : Publish(d, m) /\ m.topic # "event"
      <4>1. DevicePublishes(d) => revision[d] + 1 \in 0..MaxRevision
        BY DEF DevicePublishes, TypeOK
      <4> QED
        BY <2>4, <3>2, <4>1, MessagesTyped, TopicOf
           DEF DeviceConnects, DevicePublishes, BrokerNotices
    <3> QED  BY <1>1, <1>4, <3>1, <3>2 DEF IsAbout
  <2>5. ASSUME NEW e \in Commands, DeviceDecides(e) \/ DeviceRepeats(e)
        PROVE  NoneInvented'
    <3>1. PublishResult(e)
      BY <2>5 DEF DeviceDecides, DeviceRepeats
    <3>2. ASSUME NEW v \in {"accepted", "rejected"},
                 verdict' = [verdict EXCEPT ![e] = IF @ = "none" THEN v ELSE @],
                 Publish(DeviceOf[e], EventMessage(e, v)),
                 EventMessage(e, v) \in Message, DeviceOf[e] \in Devices
          PROVE  NoneInvented'
      <4>1. ASSUME NEW c \in Commands, verdict'[c] = "none"
            PROVE  verdict[c] = "none" /\ ~IsAbout(EventMessage(e, v), c)
        <5>1. c # e
          BY <3>2, <4>1 DEF TypeOK
        <5> QED  BY <3>2, <4>1, <5>1 DEF IsAbout, EventMessage, TypeOK
      <4> QED  BY <1>4, <3>2, <4>1
    <3> QED  BY <1>1, <3>1, <3>2, ResultPublished
  <2> QED  BY <1>7, <2>1, <2>2, <2>3, <2>4, <2>5 DEF Environment
<1>8. CASE UNCHANGED vars
  BY <1>1, <1>8 DEF vars, deviceVars
<1> QED  BY <1>5, <1>6, <1>7, <1>8 DEF Next

LEMMA InventCorrect == Spec => []NoneInvented
<1>1. Init => NoneInvented
  BY NothingOnItsWay DEF Init, NoneInvented
<1>2. TypeOK /\ NoneInvented /\ [Next]_vars => NoneInvented'
  BY InventStep
<1> QED  BY <1>1, <1>2, TypeCorrect, PTL DEF Spec

\* What holds of a command whose caller waits: the connection it was sent over is
\* still there, or what became of it was not noticed yet, and the first answer that
\* is read or waits is the verdict.
Heard(c) ==
    /\ link \in {"up", "broken"} \/ switching # "no"
    /\ Home[DeviceOf[c]] = scope
    /\ TruthFirst(inbox[DeviceOf[c]], c, verdict[c])
    /\ link = "up" =>
         /\ c \in mail \/ c \in decided => "event" \in subscribed
         /\ verdict[c] # "none" => Answered(inbox[DeviceOf[c]], c, verdict[c])

CallersHeard == life = "open" => \A c \in pending : Heard(c)

AnswersInv ==
    /\ ConnectionInv /\ PendingAreWaiting /\ ForeignSilent
    /\ SubscribesFirst /\ SentOnce /\ NoneInvented /\ CallersHeard

\* A step that leaves the connection and what comes over it alone.
LEMMA HeardKept ==
    ASSUME NEW c \in Commands, Heard(c), mail' \subseteq mail,
           UNCHANGED <<scope, link, switching, subscribed, decided, verdict>>,
           inbox'[DeviceOf[c]] = inbox[DeviceOf[c]]
    PROVE  Heard(c)'
BY DEF Heard

\* A message that is no answer to c.
LEMMA HeardOther ==
    ASSUME TypeOK, NEW c \in Commands, Heard(c), mail' \subseteq mail,
           UNCHANGED <<scope, link, switching, decided>>,
           subscribed \subseteq subscribed', verdict'[c] = verdict[c], NEW m \in Message, ~IsAbout(m, c),
           inbox'[DeviceOf[c]] = Append(inbox[DeviceOf[c]], m)
    PROVE  Heard(c)'
<1> DEFINE q == inbox[DeviceOf[c]]
<1>1. q \in Seq(Message)
  BY DEF TypeOK
<1>2. ASSUME NEW v PROVE /\ Answered(q, c, v) => Answered(Append(q, m), c, v)
                         /\ TruthFirst(q, c, v) => TruthFirst(Append(q, m), c, v)
  BY <1>1, AppendAnswered, AppendTruth
<1> QED  BY <1>2 DEF Heard

\* Reading stops: what waits is the beginning of what was sent.
LEMMA HeardWaits ==
    ASSUME TypeOK, NEW c \in Commands, Heard(c), StopReading, link' # "up",
           link' = "broken" \/ switching' # "no", UNCHANGED <<scope, verdict>>
    PROVE  Heard(c)'
<1>1. inbox[DeviceOf[c]] \in Seq(Message) /\ DeviceOf[c] \in Devices
  BY DEF TypeOK
<1>2. /\ inbox'[DeviceOf[c]] \in Seq(Message)
      /\ Len(inbox'[DeviceOf[c]]) <= Len(inbox[DeviceOf[c]])
      /\ \A i \in 1..Len(inbox'[DeviceOf[c]]) :
            inbox'[DeviceOf[c]][i] = inbox[DeviceOf[c]][i]
  BY <1>1, StopReadingKeeps
<1>3. TruthFirst(inbox'[DeviceOf[c]], c, verdict[c])
  BY <1>1, <1>2, BeginningTruth DEF Heard
<1> QED  BY <1>3 DEF Heard

\* The device publishes a result of command e.
LEMMA HeardResult ==
    ASSUME TypeOK, SentOnce, NoneInvented, NEW c \in Commands, Heard(c),
           NEW e \in Commands, DeviceDecides(e) \/ DeviceRepeats(e)
    PROVE  Heard(c)'
<1>1. /\ PublishResult(e) /\ (e \in mail \/ e \in decided)
      /\ mail' \subseteq mail /\ decided \subseteq decided'
      /\ decided' \subseteq decided \cup {e}
      /\ UNCHANGED <<scope, link, switching, subscribed>>
  BY DEF DeviceDecides, DeviceRepeats, sdkVars, linkVars, queueVars
<1>2. /\ DeviceOf[c] \in Devices /\ inbox[DeviceOf[c]] \in Seq(Message)
      /\ verdict[c] \in {"none", "accepted", "rejected"}
  BY DEF TypeOK
<1>3. link = "up" =>
          (c \in mail' \/ c \in decided' => "event" \in subscribed)
  BY <1>1 DEF Heard
<1>4. CASE UNCHANGED <<verdict, inbox>>
  BY <1>1, <1>3, <1>4 DEF Heard
<1>5. ASSUME NEW v \in {"accepted", "rejected"},
             verdict' = [verdict EXCEPT ![e] = IF @ = "none" THEN v ELSE @],
             Publish(DeviceOf[e], EventMessage(e, v)),
             EventMessage(e, v) \in Message, DeviceOf[e] \in Devices
      PROVE  Heard(c)'
  <2> DEFINE q == inbox[DeviceOf[c]]
             w == verdict'[c]
  <2>1. CASE e # c
    <3>1. ~IsAbout(EventMessage(e, v), c)
      BY <2>1 DEF IsAbout, EventMessage
    <3>2. verdict'[c] = verdict[c]
      BY <1>5, <2>1 DEF TypeOK
    <3>3. \A u : /\ Answered(q, c, u) => Answered(Append(q, EventMessage(e, v)), c, u)
                 /\ TruthFirst(q, c, u) => TruthFirst(Append(q, EventMessage(e, v)), c, u)
      BY <1>2, <1>5, <3>1, AppendAnswered, AppendTruth
    <3>4. inbox'[DeviceOf[c]] = q \/ inbox'[DeviceOf[c]] = Append(q, EventMessage(e, v))
      BY <1>2, <1>5, PublishedTo
    <3>5. \A u : /\ Answered(q, c, u) => Answered(inbox'[DeviceOf[c]], c, u)
                 /\ TruthFirst(q, c, u) => TruthFirst(inbox'[DeviceOf[c]], c, u)
      BY <3>3, <3>4
    <3> QED  BY <1>1, <1>3, <3>2, <3>5 DEF Heard
  <2>2. CASE e = c
    <3>1. w # "none" /\ (verdict[c] # "none" => w = verdict[c])
            /\ (verdict[c] = "none" => w = v)
      BY <1>5, <2>2 DEF TypeOK
    <3>2. TruthFirst(q, c, w)
      <4>1. CASE verdict[c] = "none"
        <5>1. TruthFirst(q, c, "none")
          BY <1>2, <4>1 DEF NoneInvented
        <5> QED  BY <1>2, <5>1, NoVerdictIsNone
      <4>2. CASE verdict[c] # "none"
        BY <3>1, <4>2 DEF Heard
      <4> QED  BY <4>1, <4>2
    <3>3. CASE link # "up"
      <4>1. UNCHANGED inbox
        BY <1>5, <3>3 DEF Publish
      <4> QED  BY <1>1, <3>2, <3>3, <4>1 DEF Heard
    <3>4. CASE link = "up"
      <4>1. "event" \in subscribed /\ Home[DeviceOf[c]] = scope
        BY <1>1, <2>2, <3>4 DEF Heard
      <4>2. inbox'[DeviceOf[c]] = Append(q, EventMessage(c, v))
        BY <1>2, <1>5, <2>2, <3>4, <4>1, TopicOf DEF Publish, TypeOK
      <4>3. Answered(q, c, w) \/ w = v
        <5>1. verdict[c] # "none" => Answered(q, c, verdict[c])
          BY <3>4 DEF Heard
        <5> QED  BY <3>1, <5>1
      <4>4. Answered(Append(q, EventMessage(c, v)), c, w)
        BY <1>2, <1>5, <2>2, <4>3, AppendAnswered
      <4>5. TruthFirst(Append(q, EventMessage(c, v)), c, w)
        BY <1>2, <1>5, <2>2, <3>2, <4>3, AppendTruth
      <4>6. /\ Answered(inbox'[DeviceOf[c]], c, verdict'[c])
            /\ TruthFirst(inbox'[DeviceOf[c]], c, verdict'[c])
        BY <4>2, <4>4, <4>5
      <4>7. Home[DeviceOf[c]] = scope' /\ (link' \in {"up", "broken"} \/ switching' # "no")
        BY <1>1, <3>4, <4>1
      <4>8. c \in mail' \/ c \in decided' => "event" \in subscribed'
        BY <1>1, <4>1
      <4> QED  BY <4>6, <4>7, <4>8 DEF Heard
    <3> QED  BY <3>3, <3>4
  <2> QED  BY <2>1, <2>2
<1> QED  BY <1>1, <1>4, <1>5, ResultPublished

LEMMA HeardStep ==
    ASSUME AnswersInv, [Next]_vars, life' = "open", NEW c \in pending'
    PROVE  Heard(c)'
<1> USE DEF AnswersInv, ConnectionInv
<1>1. life = "open"
  BY LifeStays
<1>2. CASE c \notin pending
  <2>1. c \in Commands
    BY TypeStep DEF TypeOK
  <2>2. PICK e \in Commands : Call(e) \/ CallUnsent(e)
    BY <1>2, <2>1, AnswersOtherwise
  <2>3. Call(c) /\ c \in Commands
    BY <1>2, <2>2 DEF Call, CallUnsent
  <2>4. link \in {"up", "broken"} /\ IsOnline(DeviceOf[c]) /\ DeviceOf[c] \in Devices
    BY <2>3 DEF Call, CanSend
  <2>5. Home[DeviceOf[c]] = scope
    BY <1>1, <2>4 DEF IsOnline, ForeignSilent, AttemptsCurrent
  <2>6. c \notin mail /\ c \notin decided /\ verdict[c] = "none"
    BY <2>3 DEF Call, SentOnce
  <2>7. TruthFirst(inbox[DeviceOf[c]], c, "none")
    BY <2>3, <2>4, <2>6 DEF NoneInvented
  <2> QED
    BY <2>3, <2>4, <2>5, <2>6, <2>7 DEF Call, Heard, sdkVars, queueVars, deviceVars
<1>3. CASE c \in pending
  <2>1. c \in Commands /\ Heard(c) /\ DeviceOf[c] \in Devices
    BY <1>1, <1>3 DEF CallersHeard, TypeOK
  <2>2. ~Complete(pending, "offline")
    BY <1>3 DEF Complete
  <2>3. ASSUME NEW state \in {"connecting", "disconnected", "reconnecting"},
               Emit(generation, state) \/ OnTransportState(state)
        PROVE  FALSE
    BY <1>1, <2>2, <2>3 DEF Emit, OnTransportState, MarkAllOffline
  <2>4. CASE Application
    <3>1. CASE Disconnect
      BY <2>1, <3>1, HeardWaits DEF Disconnect, DropClient, sdkVars, deviceVars
    <3>2. ASSUME NEW s \in Scopes, Connect(s) PROVE Heard(c)'
      <4>1. ~ScopeChanges(s)
        BY <2>2, <3>2 DEF Connect, ClearScope
      <4>2. scope = s
        BY <2>1, <4>1 DEF ScopeChanges, Heard
      <4> QED  BY <2>1, <3>2, <4>2, HeardWaits DEF Connect, DropClient, deviceVars
    <3>3. CASE StartSetup \/ \E e \in Commands : Call(e) \/ CallUnsent(e)
      BY <2>1, <3>3, HeardKept
         DEF StartSetup, Call, CallUnsent, sdkVars, linkVars, queueVars, deviceVars
    <3> QED  BY <2>2, <2>4, <3>1, <3>2, <3>3 DEF Application, Dispose
  <2>5. CASE Events
    <3>1. ~TransportDisposed /\ ~Switched
      BY <1>1, <2>3 DEF TransportDisposed, Switched
    <3>2. CASE \/ Provisioned \/ ProvisioningFails \/ SetupTimeout
               \/ \E e \in Commands : CommandTimeout(e)
      BY <2>1, <3>2, HeardKept
         DEF Provisioned, ProvisioningFails, SetupTimeout, FailSetup, CommandTimeout,
             sdkVars, linkVars, queueVars, deviceVars
    <3>3. CASE \E gen \in attempts : ConnectSucceeds(gen) \/ ConnectFails(gen)
      <4>1. PICK gen \in attempts : ConnectSucceeds(gen) \/ ConnectFails(gen)
        BY <3>3
      <4>2. gen # generation
        BY <2>1, <4>1 DEF Heard, AttemptsCurrent, ConnectSucceeds, ConnectFails, Quiet
      <4> QED
        BY <2>1, <4>1, <4>2, HeardKept
           DEF ConnectSucceeds, ConnectFails, queueVars, deviceVars
    <3>4. ASSUME NEW d \in Devices, Deliver(d) PROVE Heard(c)'
      <4>1. UNCHANGED <<scope, link, switching, subscribed, mail, decided, verdict>>
        BY <3>4 DEF Deliver, linkVars, deviceVars
      <4>2. CASE DeviceOf[c] # d
        BY <2>1, <3>4, <4>1, <4>2, HeardKept DEF Deliver, TypeOK
      <4>3. CASE DeviceOf[c] = d
        <5> DEFINE q == inbox[d]
        <5>1. q \in Seq(Message) /\ q # <<>> /\ inbox'[d] = Tail(q)
          BY <3>4 DEF Deliver, TypeOK
        <5>2. ~IsAbout(Head(q), c)
          <6> SUFFICES ASSUME IsAbout(Head(q), c) PROVE FALSE
            OBVIOUS
          <6>1. OnEvent(d, Head(q))
            BY <1>1, <3>4 DEF Deliver, OnPresence, OnDomainData, IsAbout
          <6>2. c \notin pending'
            BY <1>3, <4>3, <6>1 DEF OnEvent, Complete, Matching, IsAbout
          <6> QED  BY <6>2
        <5> HIDE DEF q
        <5>3. ASSUME NEW v PROVE /\ Answered(q, c, v) => Answered(Tail(q), c, v)
                                 /\ TruthFirst(q, c, v) => TruthFirst(Tail(q), c, v)
          BY <5>1, <5>2, TailAnswered
        <5> QED  BY <2>1, <4>1, <4>3, <5>1, <5>3 DEF Heard, q
      <4> QED  BY <4>2, <4>3
    <3> QED  BY <2>5, <3>1, <3>2, <3>3, <3>4 DEF Events
  <2>6. CASE Environment
    <3>1. CASE LinkBreaks
      BY <2>1, <3>1, HeardWaits DEF LinkBreaks, sdkVars
    <3>2. ~LossNoticed
      BY <2>3 DEF LossNoticed
    <3>3. ~Reconnects
      BY <2>1 DEF Reconnects, Quiet, Heard
    <3>4. CASE BrokerSubscribes
      <4>1. /\ UNCHANGED <<scope, link, switching, mail, decided, verdict>>
            /\ subscribed \subseteq subscribed'
        BY <3>4 DEF BrokerSubscribes, sdkVars, queueVars, deviceVars
      <4>2. CASE inbox'[DeviceOf[c]] = inbox[DeviceOf[c]]
        BY <2>1, <4>1, <4>2 DEF Heard
      <4>3. ASSUME NEW m \in Message, m.topic # "event",
                   inbox'[DeviceOf[c]] = Append(inbox[DeviceOf[c]], m)
            PROVE  Heard(c)'
        <5>1. ~IsAbout(m, c)
          BY <4>3 DEF IsAbout
        <5> QED  BY <2>1, <4>1, <4>3, <5>1, HeardOther
      <4> QED  BY <2>1, <3>4, <4>2, <4>3, RetainedSent
    <3>5. CASE BrokerForwards
      <4>1. /\ uplink \in Seq(Packet) /\ uplink # <<>> /\ link = "up"
            /\ Head(uplink) \in [command : Commands]
            /\ UNCHANGED <<scope, link, switching, subscribed, inbox, decided, verdict>>
        BY <3>5 DEF BrokerForwards, sdkVars, queueVars, TypeOK
      <4>2. "event" \in subscribed
        BY <4>1, TailPacket, PacketsDiffer DEF SubscribesFirst, Topics
      <4> QED  BY <2>1, <4>1, <4>2 DEF Heard
    <3>6. ASSUME NEW d \in Devices,
                 DeviceConnects(d) \/ DevicePublishes(d) \/ BrokerNotices(d)
          PROVE  Heard(c)'
      <4>1. UNCHANGED <<scope, link, switching, subscribed, mail, decided, verdict>>
        BY <3>6 DEF DeviceConnects, DevicePublishes, BrokerNotices, sdkVars, linkVars,
           queueVars
      <4>2. CASE inbox'[DeviceOf[c]] = inbox[DeviceOf[c]]
        BY <2>1, <4>1, <4>2, HeardKept
      <4>3. CASE inbox'[DeviceOf[c]] # inbox[DeviceOf[c]]
        <5>1. DevicePublishes(d) => revision[d] + 1 \in 0..MaxRevision
          BY DEF DevicePublishes, TypeOK
        <5>2. PICK m \in Message : Publish(d, m) /\ m.topic # "event"
          BY <3>6, <4>3, <5>1, MessagesTyped, TopicOf
             DEF DeviceConnects, DevicePublishes, BrokerNotices
        <5>3. ~IsAbout(m, c) /\ inbox'[DeviceOf[c]] = Append(inbox[DeviceOf[c]], m)
          BY <2>1, <4>3, <5>2, PublishedTo DEF IsAbout
        <5> QED  BY <2>1, <4>1, <5>3, HeardOther
      <4> QED  BY <4>2, <4>3
    <3>7. CASE \E d \in Devices : DeviceVanishes(d)
      BY <2>1, <3>7, HeardKept DEF DeviceVanishes, sdkVars, linkVars, queueVars
    <3>8. CASE \E e \in Commands : DeviceDecides(e) \/ DeviceRepeats(e)
      BY <2>1, <3>8, HeardResult
    <3> QED
      BY <2>6, <3>1, <3>2, <3>3, <3>4, <3>5, <3>6, <3>7, <3>8 DEF Environment
  <2>7. CASE UNCHANGED vars
    BY <2>1, <2>7, HeardKept DEF vars, sdkVars, linkVars, queueVars, deviceVars
  <2> QED  BY <2>4, <2>5, <2>6, <2>7 DEF Next
<1> QED  BY <1>2, <1>3

LEMMA AnswersInvCorrect == Spec => []AnswersInv
<1>1. Init => CallersHeard
  BY DEF Init, CallersHeard
<1>2. AnswersInv /\ [Next]_vars => CallersHeard'
  BY HeardStep DEF CallersHeard
<1> QED
  BY <1>1, <1>2, QueueCorrect, PendingCorrect, ForeignCorrect, SubscribesCorrect,
     SentCorrect, InventCorrect, PTL DEF AnswersInv, Spec

(***************************************************************************)
(* The promise to the callers                                              *)
(***************************************************************************)

LEMMA AnswersStep ==
    ASSUME AnswersInv, [Next]_vars
    PROVE  [Answers!Next]_(Answers!vars)
<1> USE DEF AnswersInv, ConnectionInv
<1>1. CASE UNCHANGED <<answer, decided, verdict>>
  BY <1>1 DEF Answers!vars
<1>2. CASE Complete(pending, "offline") /\ UNCHANGED <<decided, verdict>>
  <2>1. Answers!GiveUp
    BY <1>2 DEF Complete, PendingAreWaiting, Answers!GiveUp
  <2> QED  BY <2>1 DEF Answers!Next
<1>3. ASSUME NEW gen, NEW state, Emit(gen, state) \/ OnTransportState(state),
             UNCHANGED <<decided, verdict>>
      PROVE  [Answers!Next]_(Answers!vars)
  BY <1>1, <1>2, <1>3 DEF Emit, OnTransportState, MarkAllOffline, callVars
<1>4. CASE Application
  <2>1. CASE Dispose \/ \E s \in Scopes : Connect(s)
    BY <1>1, <1>2, <2>1 DEF Dispose, Connect, ClearScope, callVars, deviceVars
  <2>2. CASE Disconnect \/ StartSetup
    BY <1>1, <2>2 DEF Disconnect, StartSetup, callVars, deviceVars
  <2>3. ASSUME NEW c \in Commands, Call(c) PROVE Answers!Ask(c)
    BY <2>3 DEF Call, Answers!Ask, deviceVars
  <2>4. ASSUME NEW c \in Commands, CallUnsent(c) PROVE Answers!Refuse(c)
    BY <2>4 DEF CallUnsent, Answers!Refuse, deviceVars
  <2> QED  BY <1>4, <2>1, <2>2, <2>3, <2>4 DEF Application, Answers!Next
<1>5. CASE Events
  <2>1. CASE TransportDisposed \/ Provisioned \/ ProvisioningFails \/ SetupTimeout
    BY <1>1, <2>1 DEF TransportDisposed, Provisioned, ProvisioningFails, SetupTimeout,
       FailSetup, callVars, deviceVars
  <2>2. CASE Switched \/ \E gen \in attempts : ConnectSucceeds(gen) \/ ConnectFails(gen)
    BY <1>3, <2>2 DEF Switched, ConnectSucceeds, ConnectFails, deviceVars
  <2>3. ASSUME NEW d \in Devices, Deliver(d) PROVE [Answers!Next]_(Answers!vars)
    <3> DEFINE m == Head(inbox[d])
    <3>1. UNCHANGED <<decided, verdict>> /\ inbox[d] # <<>> /\ inbox[d] \in Seq(Message)
      BY <2>3 DEF Deliver, deviceVars, TypeOK
    <3>2. CASE UNCHANGED answer
      BY <1>1, <3>1, <3>2
    <3>3. CASE OnEvent(d, m) /\ life = "open" /\ answer' # answer
      <4> DEFINE c == m.command
      <4>1. m.topic = "event" /\ Complete(Matching(d, c), m.result)
        BY <3>3 DEF OnEvent
      <4>2. Matching(d, c) # {}
        <5> SUFFICES ASSUME Matching(d, c) = {} PROVE FALSE
          OBVIOUS
        <5>1. answer' = [e \in Commands |-> answer[e]]
          BY <4>1 DEF Complete
        <5> QED  BY <3>3, <5>1 DEF TypeOK
      <4>3. c \in pending /\ DeviceOf[c] = d /\ Matching(d, c) = {c}
        BY <4>2 DEF Matching
      <4>4. IsAbout(m, c)
        BY <4>1 DEF IsAbout
      <4>5. TruthFirst(inbox[d], c, verdict[c])
        BY <3>1, <3>3, <4>3 DEF CallersHeard, Heard
      <4>6. m = EventMessage(c, verdict[c]) /\ m \in Message
        BY <3>1, <4>4, <4>5, HeadIsTruth
      <4>7. m.result = verdict[c] /\ verdict[c] # "none"
        <5>1. m.result \in {"accepted", "rejected"}
          BY <4>1, <4>6, MessageTopics
        <5>2. EventMessage(c, verdict[c]).result = verdict[c]
          BY DEF EventMessage
        <5> QED  BY <4>6, <5>1, <5>2
      <4> HIDE DEF c, m
      <4>8. c \in Commands /\ answer[c] = "waiting"
        BY <4>3 DEF PendingAreWaiting
      <4>9. answer' = [answer EXCEPT ![c] = verdict[c]]
        BY <4>1, <4>3, <4>7 DEF Complete, TypeOK
      <4> QED
        BY <3>1, <4>7, <4>8, <4>9 DEF Answers!Report, Answers!Next
    <3> QED
      BY <2>3, <3>2, <3>3 DEF Deliver, OnPresence, OnDomainData, callVars
  <2>4. ASSUME NEW c \in Commands, CommandTimeout(c) PROVE Answers!TimeOut(c)
    BY <2>4 DEF CommandTimeout, Complete, PendingAreWaiting, TypeOK, Answers!TimeOut,
       deviceVars
  <2> QED  BY <1>5, <2>1, <2>2, <2>3, <2>4 DEF Events, Answers!Next
<1>6. CASE Environment
  <2>1. CASE LossNoticed \/ Reconnects
    BY <1>3, <2>1 DEF LossNoticed, Reconnects, deviceVars
  <2>2. ASSUME NEW c \in Commands, PublishResult(c), verdict[c] = "none"
        PROVE  Answers!Publish(c) \/ UNCHANGED verdict
    BY <2>2 DEF PublishResult, Answers!Publish, Answers!Verdicts
  <2>3. ASSUME NEW c \in Commands, DeviceDecides(c) PROVE Answers!Decide(c)
    <3>1. /\ answer[c] \notin {"uncalled", "unsent"}
          /\ c \notin decided /\ verdict[c] = "none"
      BY <2>3 DEF DeviceDecides, SentOnce
    <3>2. PublishResult(c) /\ decided' = decided \cup {c} /\ UNCHANGED answer
      BY <2>3 DEF DeviceDecides, callVars
    <3> QED  BY <2>2, <3>1, <3>2 DEF Answers!Decide
  <2>4. ASSUME NEW c \in Commands, DeviceRepeats(c) PROVE [Answers!Next]_(Answers!vars)
    <3>1. c \in decided /\ PublishResult(c) /\ UNCHANGED <<answer, decided>>
      BY <2>4 DEF DeviceRepeats, callVars
    <3>2. CASE UNCHANGED verdict
      BY <1>1, <3>1, <3>2
    <3>3. CASE verdict[c] = "none" /\ ~UNCHANGED verdict
      BY <2>2, <3>1, <3>3 DEF Answers!DecideAgain, Answers!Next
    <3> QED  BY <3>1, <3>2, <3>3 DEF PublishResult
  <2>5. CASE UNCHANGED <<answer, decided, verdict>>
    BY <1>1, <2>5
  <2> QED
    BY <1>6, <2>1, <2>3, <2>4, <2>5
       DEF Environment, LinkBreaks, BrokerSubscribes, BrokerForwards, DeviceConnects,
           DevicePublishes, DeviceVanishes, BrokerNotices, callVars, deviceVars,
           Answers!Next
<1>7. CASE UNCHANGED vars
  BY <1>1, <1>7 DEF vars, callVars, deviceVars
<1> QED  BY <1>4, <1>5, <1>6, <1>7 DEF Next

\* The SDK keeps what CommandAnswers promises, in every execution: one answer for
\* each call, never a verdict the device did not give on that command, and
\* nothing sent for a call it refused.
THEOREM ImplementsAnswers == Spec => AnswersAreHonest
<1>1. Init => Answers!Init
  BY DEF Init, Answers!Init
<1>2. AnswersInv /\ [Next]_vars => [Answers!Next]_(Answers!vars)
  BY AnswersStep
<1> QED
  BY <1>1, <1>2, AnswersInvCorrect, PTL DEF Spec, AnswersAreHonest, Answers!Spec

(***************************************************************************)
(* The registry and the broker                                             *)
(***************************************************************************)

HasData(record, data) == record # Unknown /\ record.data = data

\* The broker's view of who is online is what is shown of d or the last thing on
\* its way; before the subscription was read nobody is shown online.
PresenceTold(d) ==
    \/ LastIs(inbox[d], PresenceMessage(presence[d] = "online"))
    \/ /\ Silent(inbox[d], "presence")
       /\ IsOnline(d) <=> "presence" \in subscribed /\ presence[d] = "online"

\* The same of the data a motor published last, which the broker retains.
DataTold(d) ==
    d \in Motors /\ revision[d] > 0 /\ "state" \in subscribed =>
        \/ LastIs(inbox[d], StateMessage(revision[d]))
        \/ Silent(inbox[d], "state") /\ HasData(records[d], revision[d])

Told(d) == PresenceTold(d) /\ DataTold(d)

RegistryFollows ==
    life = "open" /\ link = "up" => \A d \in Devices : Home[d] = scope => Told(d)

RegistryInv == ConnectionInv /\ OnlineOnlyWhileConnected /\ BroadcastsCarried /\ RegistryFollows

\* A message that says something of d.
LEMMA LastIsHeard ==
    ASSUME NEW q \in Seq(Message), NEW m, LastIs(q, m)
    PROVE  ~Silent(q, m.topic)
BY DEF LastIs, Silent

\* A message of another topic.
LEMMA AppendKeeps ==
    ASSUME NEW q \in Seq(Message), NEW m \in Message, NEW n, m.topic # n.topic
    PROVE  /\ LastIs(q, n) => LastIs(Append(q, m), n)
           /\ Silent(q, n.topic) => Silent(Append(q, m), n.topic)
BY AppendLast

\* A step that leaves what is known of d and its device alone.
LEMMA ToldKept ==
    ASSUME NEW d \in Devices, Told(d), records'[d] = records[d], inbox'[d] = inbox[d],
           presence'[d] = presence[d], revision'[d] = revision[d], UNCHANGED subscribed
    PROVE  Told(d)'
BY DEF Told, PresenceTold, DataTold, HasData, IsOnline

\* An answer says nothing of either topic.
LEMMA ToldDespiteEvent ==
    ASSUME TypeOK, NEW d \in Devices, Told(d), NEW m \in Message, m.topic = "event",
           inbox'[d] = Append(inbox[d], m), records'[d] = records[d],
           presence'[d] = presence[d], revision'[d] = revision[d], UNCHANGED subscribed
    PROVE  Told(d)'
<1>1. inbox[d] \in Seq(Message)
  BY DEF TypeOK
<1>2. ASSUME NEW n, n.topic \in {"presence", "state"}
      PROVE  /\ LastIs(inbox[d], n) => LastIs(inbox'[d], n)
             /\ Silent(inbox[d], n.topic) => Silent(inbox'[d], n.topic)
  BY <1>1, <1>2, AppendKeeps
<1>3. ASSUME NEW topic \in {"presence", "state"}, Silent(inbox[d], topic)
      PROVE  Silent(inbox'[d], topic)
  BY <1>1, <1>3, AppendLast
<1> QED  BY <1>2, <1>3, TopicOf DEF Told, PresenceTold, DataTold, HasData, IsOnline

\* The presence of d changes, and is sent if the subscription was read.
LEMMA PresenceSent ==
    ASSUME TypeOK, BroadcastsCarried, link = "up", NEW d \in Devices, Home[d] = scope, Told(d),
           Publish(d, PresenceMessage(presence'[d] = "online")),
           UNCHANGED <<records, revision, subscribed>>
    PROVE  Told(d)'
<1> DEFINE m == PresenceMessage(presence'[d] = "online")
<1>1. m \in Message /\ m.topic = "presence" /\ inbox[d] \in Seq(Message)
  <2>1. (presence'[d] = "online") \in BOOLEAN
    OBVIOUS
  <2>2. m \in Message
    BY <2>1, MessagesTyped, Zenon
  <2> QED  BY <2>2, TopicOf DEF TypeOK
<1> HIDE DEF m
<1>2. CASE "presence" \in subscribed
  <2>1. inbox'[d] = Append(inbox[d], m)
    BY <1>1, <1>2 DEF Publish, TypeOK, m
  <2>2. PresenceTold(d)'
    BY <1>1, <2>1, AppendLast DEF PresenceTold, m
  <2>3. DataTold(d)'
    <3>1. StateMessage(revision[d]).topic = "state"
      BY TopicOf
    <3>2. /\ LastIs(inbox[d], StateMessage(revision[d]))
               => LastIs(inbox'[d], StateMessage(revision[d]))
          /\ Silent(inbox[d], "state") => Silent(inbox'[d], "state")
      BY <1>1, <2>1, <3>1, AppendLast
    <3> QED  BY <3>2 DEF Told, DataTold, HasData
  <2> QED  BY <2>2, <2>3 DEF Told
<1>3. CASE "presence" \notin subscribed
  <2>1. inbox'[d] = inbox[d]
    BY <1>1, <1>3 DEF Publish, m
  <2>2. Silent(inbox[d], "presence")
    BY <1>3 DEF BroadcastsCarried, Topics
  <2>3. ~LastIs(inbox[d], PresenceMessage(presence[d] = "online"))
    BY <1>1, <2>2, LastIsHeard, TopicOf
  <2> QED
    BY <1>3, <2>1, <2>2, <2>3 DEF Told, PresenceTold, DataTold, HasData, IsOnline
<1> QED  BY <1>2, <1>3

\* d publishes data.
LEMMA DataSent ==
    ASSUME TypeOK, link = "up", NEW d \in Devices, Home[d] = scope, Told(d),
           revision'[d] \in 0..MaxRevision, Publish(d, StateMessage(revision'[d])),
           UNCHANGED <<records, presence, subscribed>>
    PROVE  Told(d)'
<1> DEFINE m == StateMessage(revision'[d])
<1>1. m \in Message /\ m.topic = "state" /\ inbox[d] \in Seq(Message)
  BY MessagesTyped, TopicOf DEF TypeOK
<1> HIDE DEF m
<1>2. CASE "state" \in subscribed
  <2>1. inbox'[d] = Append(inbox[d], m)
    BY <1>1, <1>2 DEF Publish, TypeOK, m
  <2>2. DataTold(d)'
    BY <1>1, <2>1, AppendLast DEF DataTold, m
  <2>3. PresenceTold(d)'
    <3>1. PresenceMessage(presence[d] = "online").topic = "presence"
      BY TopicOf
    <3>2. /\ LastIs(inbox[d], PresenceMessage(presence[d] = "online"))
               => LastIs(inbox'[d], PresenceMessage(presence[d] = "online"))
          /\ Silent(inbox[d], "presence") => Silent(inbox'[d], "presence")
      BY <1>1, <2>1, <3>1, AppendLast
    <3> QED  BY <3>2 DEF Told, PresenceTold, IsOnline
  <2> QED  BY <2>2, <2>3 DEF Told
<1>3. CASE "state" \notin subscribed
  BY <1>1, <1>3 DEF Publish, Told, PresenceTold, DataTold, IsOnline, m
<1> QED  BY <1>2, <1>3

\* What the broker sends of d when it reads a subscription.
LEMMA RetainedOf ==
    ASSUME TypeOK, BrokerSubscribes, NEW d \in Devices, Home[d] = scope
    PROVE  LET topic == Head(uplink).subscribe IN
           inbox'[d] = CASE topic = "presence" /\ presence[d] # "none" ->
                              Append(inbox[d], PresenceMessage(presence[d] = "online"))
                         [] topic = "state" /\ d \in Motors /\ revision[d] > 0 ->
                              Append(inbox[d], StateMessage(revision[d]))
                         [] OTHER -> inbox[d]
<1> DEFINE topic == Head(uplink).subscribe
           p == PresenceMessage(presence[d] = "online")
           s == StateMessage(revision[d])
<1>1. inbox'[d] = inbox[d] \o RetainedMessages(d, topic) /\ inbox[d] \in Seq(Message)
  BY DEF BrokerSubscribes, TypeOK
<1>2. p \in Message
  <2>1. (presence[d] = "online") \in BOOLEAN
    OBVIOUS
  <2> QED  BY <2>1, MessagesTyped, Zenon
<1>3. s \in Message
  BY MessagesTyped DEF TypeOK
<1>4. RetainedMessages(d, topic) =
        CASE topic = "presence" /\ presence[d] # "none" -> <<p>>
          [] topic = "state" /\ d \in Motors /\ revision[d] > 0 -> <<s>>
          [] OTHER -> <<>>
  BY DEF RetainedMessages
<1> HIDE DEF p, s
<1>5. /\ inbox[d] \o <<p>> = Append(inbox[d], p)
      /\ inbox[d] \o <<s>> = Append(inbox[d], s)
      /\ inbox[d] \o <<>> = inbox[d]
  BY <1>1, <1>2, <1>3
<1> QED  BY <1>1, <1>4, <1>5 DEF p, s

LEMMA SubscriptionTold ==
    ASSUME TypeOK, BrokerSubscribes, NEW d \in Devices, Home[d] = scope, Told(d)
    PROVE  Told(d)'
<1> DEFINE topic == Head(uplink).subscribe
           p == PresenceMessage(presence[d] = "online")
           s == StateMessage(revision[d])
<1>1. /\ subscribed' = subscribed \cup {topic} /\ inbox[d] \in Seq(Message)
      /\ UNCHANGED <<records, presence, revision>>
  BY DEF BrokerSubscribes, sdkVars, deviceVars, TypeOK
<1>2. p \in Message /\ p.topic = "presence"
  <2>1. (presence[d] = "online") \in BOOLEAN
    OBVIOUS
  <2> QED  BY <2>1, MessagesTyped, TopicOf, Zenon
<1>3. s \in Message /\ s.topic = "state"
  BY MessagesTyped, TopicOf DEF TypeOK
<1>4. inbox'[d] = CASE topic = "presence" /\ presence[d] # "none" -> Append(inbox[d], p)
                    [] topic = "state" /\ d \in Motors /\ revision[d] > 0 ->
                         Append(inbox[d], s)
                    [] OTHER -> inbox[d]
  BY RetainedOf
<1>5. p' = p /\ s' = s
  BY <1>1
<1> HIDE DEF topic, p, s
<1>6. CASE topic = "presence" /\ presence[d] # "none"
  <2>1. inbox'[d] = Append(inbox[d], p)
    BY <1>4, <1>6
  <2>2. LastIs(inbox'[d], p) /\ (LastIs(inbox[d], s) => LastIs(inbox'[d], s))
        /\ (Silent(inbox[d], "state") => Silent(inbox'[d], "state"))
    BY <1>1, <1>2, <1>3, <2>1, AppendLast
  <2> QED  BY <1>1, <1>6, <2>2 DEF Told, PresenceTold, DataTold, HasData, p, s
<1>7. CASE topic = "state" /\ d \in Motors /\ revision[d] > 0
  <2>1. inbox'[d] = Append(inbox[d], s)
    BY <1>4, <1>7
  <2>2. LastIs(inbox'[d], s) /\ (LastIs(inbox[d], p) => LastIs(inbox'[d], p))
        /\ (Silent(inbox[d], "presence") => Silent(inbox'[d], "presence"))
    BY <1>1, <1>2, <1>3, <2>1, AppendLast
  <2> QED  BY <1>1, <1>7, <2>2 DEF Told, PresenceTold, DataTold, IsOnline, p, s
<1>8. CASE ~(topic = "presence" /\ presence[d] # "none")
           /\ ~(topic = "state" /\ d \in Motors /\ revision[d] > 0)
  <2>1. inbox'[d] = inbox[d]
    BY <1>4, <1>8
  <2> QED
    BY <1>1, <1>8, <2>1 DEF Told, PresenceTold, DataTold, HasData, IsOnline
<1> QED  BY <1>6, <1>7, <1>8

\* What a message of d changes in its record.
LEMMA DeliveredRecord ==
    ASSUME TypeOK, NEW d \in Devices, Deliver(d), life = "open"
    PROVE  LET m == Head(inbox[d]) IN
           /\ m.topic = "presence" => (IsOnline(d)' <=> m.online)
           /\ m.topic # "presence" => (IsOnline(d)' <=> IsOnline(d))
           /\ m.topic = "state" => HasData(records'[d], m.data)
           /\ \A data : m.topic # "state" /\ HasData(records[d], data) => HasData(records'[d], data)
           /\ \A e \in Devices \ {d} : records'[e] = records[e]
<1> DEFINE m == Head(inbox[d])
<1>1. Previous(d) \in Record /\ (IsOnline(d) <=> Previous(d).online)
      /\ \A data : HasData(records[d], data) => Previous(d).data = data
  BY PreviousType DEF Previous, IsOnline, HasData
<1>2. m \in Message
  BY DeliveredType
<1>3. ASSUME NEW record \in Record, StoreRecord(d, record)
      PROVE  /\ IsOnline(d)' <=> record.online
             /\ \A data : HasData(records'[d], data) <=> record.data = data
             /\ \A e \in Devices \ {d} : records'[e] = records[e]
  BY <1>3, UnknownAssumption DEF StoreRecord, EmitState, TypeOK, IsOnline, HasData
<1>4. CASE OnPresence(d, m)
  <2> DEFINE record == [Previous(d) EXCEPT !.online = m.online]
  <2>1. m.topic = "presence" /\ m.online \in BOOLEAN /\ StoreRecord(d, record)
    BY <1>2, <1>4, MessageTopics DEF OnPresence
  <2>2. record \in Record /\ record.online = m.online /\ record.data = Previous(d).data
    BY <1>1, <2>1 DEF Record
  <2> HIDE DEF record, m
  <2> QED  BY <1>1, <1>3, <2>1, <2>2 DEF m
<1>5. CASE OnDomainData(d, m)
  <2> DEFINE record == [Previous(d) EXCEPT !.data = m.data, !.sequence = domainSequence + 1]
  <2>1. m.topic = "state" /\ m.data \in 0..MaxRevision /\ StoreRecord(d, record)
    BY <1>2, <1>5, MessageTopics DEF OnDomainData
  <2>2. domainSequence + 1 \in Nat
    BY DEF TypeOK
  <2>3. record \in Record /\ record.online = Previous(d).online /\ record.data = m.data
    BY <1>1, <2>1, <2>2 DEF Record
  <2> HIDE DEF record, m
  <2> QED  BY <1>1, <1>3, <2>1, <2>3 DEF m
<1>6. CASE OnEvent(d, m)
  <2>1. m.topic = "event" /\ StoreRecord(d, Previous(d))
    BY <1>6 DEF OnEvent
  <2> HIDE DEF m
  <2> QED  BY <1>1, <1>3, <2>1 DEF m
<1> QED  BY <1>4, <1>5, <1>6 DEF Deliver

LEMMA DeliveryTold ==
    ASSUME TypeOK, BroadcastsCarried, NEW d \in Devices, Deliver(d), life = "open",
           link = "up", Told(d)
    PROVE  Told(d)'
<1> DEFINE q == inbox[d]
           m == Head(q)
           p == PresenceMessage(presence[d] = "online")
           s == StateMessage(revision[d])
<1>1. /\ q \in Seq(Message) /\ q # <<>> /\ inbox'[d] = Tail(q) /\ m \in Message
      /\ UNCHANGED <<presence, revision, subscribed>>
  BY DeliveredType DEF Deliver, TypeOK, linkVars, deviceVars
<1>2. /\ m.topic = "presence" => (IsOnline(d)' <=> m.online)
      /\ m.topic # "presence" => (IsOnline(d)' <=> IsOnline(d))
      /\ m.topic = "state" => HasData(records'[d], m.data)
      /\ \A data : m.topic # "state" /\ HasData(records[d], data) => HasData(records'[d], data)
  BY DeliveredRecord
<1>3. /\ p.topic = "presence" /\ (p.online <=> presence[d] = "online")
      /\ s.topic = "state" /\ s.data = revision[d]
  BY DEF PresenceMessage, StateMessage
<1>4. \A n : LastIs(q, n) => LastIs(Tail(q), n) \/ (m = n /\ Silent(Tail(q), n.topic))
  BY <1>1, TailLast
<1>5. \A topic : Silent(q, topic) => m.topic # topic /\ Silent(Tail(q), topic)
  BY <1>1, TailLast
<1>6. p' = p /\ s' = s
  BY <1>1
<1>7. m.topic = "presence" => "presence" \in subscribed
  BY <1>5 DEF BroadcastsCarried, Topics
<1>8. PresenceTold(d) <=> \/ LastIs(q, p)
                          \/ /\ Silent(q, "presence")
                             /\ IsOnline(d) <=> "presence" \in subscribed
                                                /\ presence[d] = "online"
  BY DEF PresenceTold
<1>9. PresenceTold(d)' <=> \/ LastIs(Tail(q), p)
                           \/ /\ Silent(Tail(q), "presence")
                              /\ IsOnline(d)' <=> "presence" \in subscribed
                                                  /\ presence[d] = "online"
  BY <1>1, <1>6 DEF PresenceTold
<1>10. DataTold(d) <=> (d \in Motors /\ revision[d] > 0 /\ "state" \in subscribed =>
           LastIs(q, s) \/ (Silent(q, "state") /\ HasData(records[d], revision[d])))
  BY DEF DataTold
<1>11. DataTold(d)' <=> (d \in Motors /\ revision[d] > 0 /\ "state" \in subscribed =>
           LastIs(Tail(q), s) \/ (Silent(Tail(q), "state") /\ HasData(records'[d], revision[d])))
  BY <1>1, <1>6 DEF DataTold
<1> HIDE DEF p, s, q, m
<1>12. PresenceTold(d)'
  <2>1. CASE LastIs(q, p)
    BY <1>2, <1>3, <1>4, <1>7, <1>9, <2>1
  <2>2. CASE ~LastIs(q, p)
    BY <1>2, <1>5, <1>8, <1>9, <2>2 DEF Told
  <2> QED  BY <2>1, <2>2
<1>13. DataTold(d)'
  <2> SUFFICES ASSUME d \in Motors /\ revision[d] > 0 /\ "state" \in subscribed
               PROVE  LastIs(Tail(q), s)
                        \/ (Silent(Tail(q), "state") /\ HasData(records'[d], revision[d]))
    BY <1>11
  <2>1. CASE LastIs(q, s)
    BY <1>1, <1>2, <1>3, <1>4, <2>1 DEF HasData
  <2>2. CASE ~LastIs(q, s)
    BY <1>1, <1>2, <1>5, <1>10, <2>2 DEF Told, HasData
  <2> QED  BY <2>1, <2>2
<1> QED  BY <1>12, <1>13 DEF Told

LEMMA RegistryStep ==
    ASSUME RegistryInv, [Next]_vars, life' = "open", link' = "up",
           NEW e \in Devices, Home[e] = scope'
    PROVE  Told(e)'
<1> USE DEF RegistryInv, ConnectionInv
<1>1. life = "open"
  BY LifeStays
<1>2. CASE /\ Quiet /\ link # "up" /\ connection # "connected"
           /\ UNCHANGED <<records, subscribed, inbox>>
  <2>1. ~IsOnline(e) /\ subscribed = {} /\ inbox[e] = <<>>
    BY <1>1, <1>2 DEF OnlineOnlyWhileConnected, BroadcastsCarried, Quiet, Handled
  <2> QED
    BY <1>2, <2>1, NothingOnItsWay DEF Told, PresenceTold, DataTold, IsOnline
<1>3. ASSUME Emit(generation, "connected"), connection # "connected", link # "up",
             Quiet, UNCHANGED <<subscribed, inbox>>
      PROVE  Told(e)'
  <2>1. UNCHANGED records
    BY <1>1, <1>3 DEF Emit, OnTransportState, EmitState
  <2> QED  BY <1>2, <1>3, <2>1
<1>4. CASE link = "up" /\ UNCHANGED scope
  <2>1. Told(e)
    BY <1>1, <1>4 DEF RegistryFollows
  <2>2. CASE UNCHANGED <<records, inbox, presence, revision, subscribed>>
    BY <2>1, <2>2, ToldKept
  <2>3. ASSUME NEW d \in Devices, NEW m \in Message, Publish(d, m), m.topic = "event",
               UNCHANGED <<records, presence, revision, subscribed>>
        PROVE  Told(e)'
    <3>1. CASE inbox'[e] = inbox[e]
      BY <2>1, <2>3, <3>1, ToldKept
    <3>2. CASE inbox'[e] = Append(inbox[e], m)
      BY <2>1, <2>3, <3>2, ToldDespiteEvent
    <3> QED  BY <2>3, <3>1, <3>2, PublishedTo
  <2>4. ASSUME NEW d \in Devices, NEW m \in Message, Publish(d, m), d # e,
               UNCHANGED <<records, subscribed>>, presence'[e] = presence[e],
               revision'[e] = revision[e]
        PROVE  Told(e)'
    <3>1. inbox'[e] = inbox[e]
      BY <2>4, PublishedTo
    <3> QED  BY <2>1, <2>4, <3>1, ToldKept
  <2>5. CASE Application
    BY <1>1, <2>2, <2>5
       DEF Application, Disconnect, Connect, DropClient, Dispose, StartSetup, Call,
           CallUnsent, sdkVars, linkVars, deviceVars
  <2>6. CASE Events
    <3>1. CASE \/ TransportDisposed \/ Provisioned \/ ProvisioningFails \/ SetupTimeout
               \/ \E c \in Commands : CommandTimeout(c)
      BY <2>2, <3>1
         DEF TransportDisposed, DropClient, Provisioned, ProvisioningFails, SetupTimeout,
             FailSetup, CommandTimeout, sdkVars, linkVars, deviceVars
    <3>2. ASSUME NEW gen \in attempts, ConnectSucceeds(gen) \/ ConnectFails(gen)
          PROVE  Told(e)'
      <4>1. gen # generation
        BY <1>4 DEF AttemptsCurrent
      <4>2. UNCHANGED records
        BY <3>2, <4>1, EmitSuperseded DEF ConnectSucceeds, ConnectFails
      <4> QED
        BY <2>2, <3>2, <4>2 DEF ConnectSucceeds, ConnectFails, deviceVars
    <3>3. ASSUME NEW d \in Devices, Deliver(d) PROVE Told(e)'
      <4>1. CASE d = e
        BY <1>1, <1>4, <2>1, <3>3, <4>1, DeliveryTold
      <4>2. CASE d # e
        <5>1. records'[e] = records[e] /\ inbox'[e] = inbox[e]
          BY <1>1, <3>3, <4>2, DeliveredRecord DEF Deliver, TypeOK
        <5> QED
          BY <2>1, <3>3, <5>1, ToldKept DEF Deliver, linkVars, deviceVars
      <4> QED  BY <4>1, <4>2
    <3>4. ~Switched
      BY <1>4 DEF Switched, AttemptsCurrent
    <3> QED  BY <2>6, <3>1, <3>2, <3>3, <3>4 DEF Events
  <2>7. CASE Environment
    <3>1. CASE LinkBreaks \/ LossNoticed \/ Reconnects
      BY <1>4, <3>1 DEF LinkBreaks, LossNoticed, Reconnects
    <3>2. CASE BrokerSubscribes
      BY <1>4, <2>1, <3>2, SubscriptionTold
    <3>3. CASE BrokerForwards \/ \E d \in Devices : DeviceVanishes(d)
      BY <2>2, <3>3 DEF BrokerForwards, DeviceVanishes, sdkVars, linkVars
    <3>4. ASSUME NEW d \in Devices, DeviceConnects(d) \/ BrokerNotices(d) PROVE Told(e)'
      <4>1. /\ \A f \in Devices \ {d} : presence'[f] = presence[f]
            /\ UNCHANGED <<records, revision, subscribed>>
        BY <3>4 DEF DeviceConnects, BrokerNotices, TypeOK, sdkVars, linkVars
      <4>2. CASE UNCHANGED <<presence, inbox>>
        BY <2>2, <4>1, <4>2
      <4>3. ASSUME NEW b \in BOOLEAN, Publish(d, PresenceMessage(b)),
                   (presence'[d] = "online") = b
            PROVE  Told(e)'
        <5>1. PresenceMessage(b) \in Message
          BY MessagesTyped
        <5> QED  BY <1>4, <2>1, <2>4, <4>1, <4>3, <5>1, PresenceSent
      <4> QED  BY <3>4, <4>2, <4>3 DEF DeviceConnects, BrokerNotices, TypeOK
    <3>5. ASSUME NEW d \in Devices, DevicePublishes(d) PROVE Told(e)'
      <4>1. /\ revision'[d] = revision[d] + 1 /\ revision'[d] \in 0..MaxRevision
            /\ \A f \in Devices \ {d} : revision'[f] = revision[f]
        BY <3>5 DEF DevicePublishes, TypeOK
      <4>2. /\ Publish(d, StateMessage(revision'[d]))
            /\ UNCHANGED <<records, presence, subscribed>>
        BY <3>5, <4>1 DEF DevicePublishes, sdkVars, linkVars
      <4>3. StateMessage(revision'[d]) \in Message
        BY <4>1, MessagesTyped
      <4> QED  BY <1>4, <2>1, <2>4, <4>1, <4>2, <4>3, DataSent
    <3>6. ASSUME NEW c \in Commands, DeviceDecides(c) \/ DeviceRepeats(c) PROVE Told(e)'
      <4>1. PublishResult(c) /\ UNCHANGED <<records, presence, revision, subscribed>>
        BY <3>6 DEF DeviceDecides, DeviceRepeats, sdkVars, linkVars
      <4>2. CASE UNCHANGED inbox
        BY <2>2, <4>1, <4>2
      <4> QED  BY <2>3, <4>1, <4>2, ResultPublished, TopicOf
    <3> QED
      BY <2>7, <3>1, <3>2, <3>3, <3>4, <3>5, <3>6 DEF Environment
  <2>8. CASE UNCHANGED vars
    BY <2>2, <2>8 DEF vars, sdkVars, linkVars, deviceVars
  <2> QED  BY <2>5, <2>6, <2>7, <2>8 DEF Next
<1>5. CASE link = "up" /\ scope' # scope
  BY <1>5
     DEF Next, Application, Disconnect, Dispose, StartSetup, Connect, DropClient, Call,
         CallUnsent, Events, TransportDisposed, Provisioned, ProvisioningFails,
         SetupTimeout, FailSetup, ConnectSucceeds, ConnectFails, Deliver, CommandTimeout,
         Switched, Environment, LinkBreaks, LossNoticed, Reconnects, BrokerSubscribes,
         BrokerForwards, DeviceConnects, DevicePublishes, DeviceVanishes, BrokerNotices,
         DeviceDecides, DeviceRepeats, vars, sdkVars
<1>6. CASE link # "up"
  <2>1. \/ \E gen \in attempts : ConnectSucceeds(gen)
        \/ Reconnects
    BY <1>6
       DEF Next, Application, Disconnect, Dispose, StartSetup, Connect, DropClient, Call,
           CallUnsent, Events, TransportDisposed, Provisioned, ProvisioningFails,
           SetupTimeout, FailSetup, ConnectFails, Deliver, CommandTimeout,
           Switched, Environment, LinkBreaks, LossNoticed, BrokerSubscribes,
           BrokerForwards, DeviceConnects, DevicePublishes, DeviceVanishes, BrokerNotices,
           DeviceDecides, DeviceRepeats, vars, linkVars
  <2>2. CASE Reconnects
    <3>1. connection # "connected"
      BY <1>1, <2>2 DEF Reconnects, Quiet, ConnectionIsTrue
    <3> QED  BY <1>3, <1>6, <2>2, <3>1 DEF Reconnects
  <2>3. ASSUME NEW gen \in attempts, ConnectSucceeds(gen) PROVE Told(e)'
    <3>1. gen = generation
      BY <1>6, <2>3 DEF ConnectSucceeds
    <3>2. connection # "connected"
      BY <1>1, <2>3, <3>1 DEF ConnectSucceeds, Quiet, ConnectionIsTrue, AttemptsCurrent
    <3> QED  BY <1>3, <1>6, <2>3, <3>1, <3>2 DEF ConnectSucceeds
  <2> QED  BY <2>1, <2>2, <2>3
<1> QED  BY <1>4, <1>5, <1>6

\* Once everything the broker sent has been read, the registry agrees with the
\* broker, in every execution.
THEOREM RegistryCorrect == Spec => []RegistryAgrees
<1>1. Init => RegistryFollows
  BY DEF Init, RegistryFollows
<1>2. RegistryInv /\ [Next]_vars => RegistryFollows'
  BY RegistryStep DEF RegistryFollows
<1>3. TypeOK /\ RegistryFollows => RegistryAgrees
  <2> SUFFICES ASSUME TypeOK, RegistryFollows, life = "open", link = "up", subscribed = Topics,
                      NEW d \in Devices, Home[d] = scope, inbox[d] = <<>>
               PROVE  /\ IsOnline(d) <=> presence[d] = "online"
                      /\ d \in Motors /\ revision[d] > 0 => HasData(records[d], revision[d])
    BY DEF RegistryAgrees, HasData
  <2>1. Told(d)
    BY DEF RegistryFollows
  <2> QED
    BY <2>1, NothingOnItsWay DEF Told, PresenceTold, DataTold, Topics
<1> QED
  BY <1>1, <1>2, <1>3, TypeCorrect, QueueCorrect, OnlineCorrect,
     BroadcastsCorrect, PTL DEF RegistryInv, Spec

(***************************************************************************)
(* The wait at the end of a set-up                                         *)
(***************************************************************************)

\* A set-up waits only while its device is not ready, and data that came in during
\* the wait is in the record, above the baseline.
SetupInv ==
    /\ setup = "provisioning" => fresh # "late"
    /\ setup = "waiting" =>
         /\ ~Ready(records, baseline)
         /\ fresh # "void" => baseline <= domainSequence
         /\ fresh = "late" => /\ records[SetupDevice] # Unknown
                              /\ records[SetupDevice].sequence > baseline

\* The records change to recs, which keep the sequence number of the device.
LEMMA SetupEmits ==
    ASSUME TypeOK, SetupInv, NEW recs, EmitState(recs),
           UNCHANGED <<baseline, domainSequence, fresh>>,
           records[SetupDevice] # Unknown =>
               /\ recs[SetupDevice] # Unknown
               /\ recs[SetupDevice].sequence = records[SetupDevice].sequence
    PROVE  SetupInv'
BY DEF EmitState, SetupInv, Ready

LEMMA OfflineKeepsSequence ==
    ASSUME TypeOK, NEW d \in Devices, records[d] # Unknown
    PROVE  /\ AllOffline(records)[d] # Unknown
           /\ AllOffline(records)[d].sequence = records[d].sequence
<1>1. AllOffline(records)[d] = [records[d] EXCEPT !.online = FALSE] /\ records[d] \in Record
  BY DEF AllOffline, TypeOK
<1>2. /\ [records[d] EXCEPT !.online = FALSE] \in Record
      /\ [records[d] EXCEPT !.online = FALSE].sequence = records[d].sequence
  BY <1>1 DEF Record
<1> QED  BY <1>1, <1>2, UnknownAssumption

LEMMA SetupStep ==
    ASSUME TypeOK, SetupInv, [Next]_vars
    PROVE  SetupInv'
<1>1. CASE UNCHANGED <<records, setup, baseline, fresh, domainSequence>>
  BY <1>1 DEF SetupInv, Ready
<1>2. ASSUME NEW state, MarkAllOffline(state), UNCHANGED <<baseline, domainSequence, fresh>>
      PROVE  SetupInv'
  BY <1>2, SetupEmits, OfflineKeepsSequence DEF MarkAllOffline
<1>3. ASSUME NEW gen, NEW state, Emit(gen, state) \/ OnTransportState(state),
             UNCHANGED <<baseline, domainSequence, fresh>>
      PROVE  SetupInv'
  <2>1. CASE UNCHANGED <<records, setup>>
    BY <1>1, <1>3, <2>1
  <2>2. CASE EmitState(records)
    BY <1>3, <2>2, SetupEmits
  <2>3. CASE MarkAllOffline(state)
    BY <1>2, <1>3, <2>3
  <2> QED  BY <1>3, <2>1, <2>2, <2>3 DEF Emit, OnTransportState
<1>4. CASE Application
  <2>1. CASE Disconnect \/ Dispose \/ \E c \in Commands : Call(c) \/ CallUnsent(c)
    BY <1>1, <2>1 DEF Disconnect, Dispose, Call, CallUnsent, sdkVars, setupVars
  <2>2. CASE StartSetup
    BY <2>2 DEF StartSetup, SetupInv
  <2>3. ASSUME NEW s \in Scopes, Connect(s) PROVE SetupInv'
    <3>1. CASE ScopeChanges(s)
      <4>1. /\ fresh' = "void" /\ UNCHANGED baseline
            /\ records' = [d \in Devices |-> Unknown]
        BY <2>3, <3>1 DEF Connect, ClearScope, EmitState
      <4> QED  BY <4>1 DEF SetupInv, Ready
    <3>2. CASE ~ScopeChanges(s)
      BY <1>1, <2>3, <3>2 DEF Connect
    <3> QED  BY <3>1, <3>2
  <2> QED  BY <1>4, <2>1, <2>2, <2>3 DEF Application
<1>5. CASE Events
  <2>1. CASE TransportDisposed
    BY <2>1 DEF TransportDisposed, SetupInv, Ready, sdkVars
  <2>2. CASE Provisioned
    BY <2>2 DEF Provisioned, SetupInv, Ready, sdkVars, TypeOK
  <2>3. CASE ProvisioningFails \/ SetupTimeout
    BY <2>3 DEF ProvisioningFails, SetupTimeout, FailSetup, SetupInv
  <2>4. CASE Switched \/ \E gen \in attempts : ConnectSucceeds(gen) \/ ConnectFails(gen)
    BY <1>3, <2>4 DEF Switched, ConnectSucceeds, ConnectFails
  <2>5. ASSUME NEW d \in Devices, Deliver(d) PROVE SetupInv'
    <3> DEFINE m == Head(inbox[d])
    <3>1. UNCHANGED baseline /\ m \in Message /\ Previous(d) \in Record
      BY <2>5, DeliveredType, PreviousType DEF Deliver
    <3>2. records[d] # Unknown => Previous(d).sequence = records[d].sequence
      BY DEF Previous
    <3>3. ASSUME NEW record \in Record, StoreRecord(d, record),
                 record.sequence = Previous(d).sequence,
                 UNCHANGED <<domainSequence, fresh>>
          PROVE  SetupInv'
      <4> DEFINE recs == [records EXCEPT ![d] = record]
      <4>1. records[SetupDevice] # Unknown =>
               /\ recs[SetupDevice] # Unknown
               /\ recs[SetupDevice].sequence = records[SetupDevice].sequence
        BY <3>2, <3>3, UnknownAssumption DEF TypeOK
      <4>2. EmitState(recs)
        BY <3>3 DEF StoreRecord
      <4> HIDE DEF recs
      <4> QED  BY <3>1, <3>3, <4>1, <4>2, SetupEmits
    <3>4. CASE OnPresence(d, m)
      <4> DEFINE record == [Previous(d) EXCEPT !.online = m.online]
      <4>1. m.online \in BOOLEAN
        BY <3>1, <3>4, MessageTopics DEF OnPresence
      <4>2. record \in Record /\ record.sequence = Previous(d).sequence
        BY <3>1, <4>1 DEF Record
      <4>3. StoreRecord(d, record) /\ UNCHANGED <<domainSequence, fresh>>
        BY <3>4 DEF OnPresence
      <4> HIDE DEF record
      <4> QED  BY <3>3, <4>2, <4>3
    <3>5. CASE OnDomainData(d, m)
      <4> DEFINE record == [Previous(d) EXCEPT !.data = m.data,
                                               !.sequence = domainSequence + 1]
                 recs == [records EXCEPT ![d] = record]
      <4>1. /\ m.data \in 0..MaxRevision /\ baseline \in Nat
            /\ domainSequence \in Nat /\ domainSequence + 1 \in Nat
        BY <3>1, <3>5, MessageTopics DEF OnDomainData, TypeOK
      <4>2. record \in Record /\ record.sequence = domainSequence + 1
        BY <3>1, <4>1 DEF Record
      <4>3. /\ domainSequence' = domainSequence + 1
            /\ EmitState(recs) /\ fresh' = Freshness(d, m.data)
        BY <3>5 DEF OnDomainData, StoreRecord
      <4>4. /\ recs \in [Devices -> Record \cup {Unknown}] /\ recs[d] = record
            /\ \A e \in Devices \ {d} : recs[e] = records[e]
        BY <4>2 DEF TypeOK
      <4> HIDE DEF record, recs, m
      <4>5. setup' \in {setup, "done"} /\ (setup' = "waiting" => ~Ready(recs, baseline))
            /\ records' = recs
        BY <4>3 DEF EmitState
      <4>6. fresh # "void" /\ setup = "waiting" => baseline <= domainSequence
        BY DEF SetupInv
      <4>7. CASE d = SetupDevice
        <5>1. recs[SetupDevice] # Unknown /\ recs[SetupDevice].sequence = domainSequence + 1
          BY <4>2, <4>4, <4>7, UnknownAssumption
        <5>2. (fresh = "void" => fresh' = "void")
              /\ (setup = "provisioning" /\ fresh # "late" => fresh' # "late")
          BY <4>3 DEF Freshness
        <5> QED  BY <3>1, <4>1, <4>3, <4>5, <4>6, <5>1, <5>2 DEF SetupInv, Ready
      <4>8. CASE d # SetupDevice
        <5>1. recs[SetupDevice] = records[SetupDevice] /\ fresh' = fresh
          BY <4>3, <4>4, <4>8 DEF Freshness
        <5> QED  BY <3>1, <4>1, <4>3, <4>5, <5>1 DEF SetupInv, Ready
      <4> QED  BY <4>7, <4>8
    <3>6. CASE OnEvent(d, m)
      BY <3>1, <3>3, <3>6 DEF OnEvent
    <3>7. CASE UNCHANGED <<records, setup, callVars, domainSequence, fresh>>
      BY <1>1, <3>1, <3>7
    <3> QED  BY <2>5, <3>4, <3>5, <3>6, <3>7 DEF Deliver
  <2>6. CASE \E c \in Commands : CommandTimeout(c)
    BY <1>1, <2>6 DEF CommandTimeout, sdkVars, setupVars
  <2> QED  BY <1>5, <2>1, <2>2, <2>3, <2>4, <2>5, <2>6 DEF Events
<1>6. CASE Environment
  <2>1. CASE LossNoticed \/ Reconnects
    BY <1>3, <2>1 DEF LossNoticed, Reconnects
  <2>2. CASE UNCHANGED <<sdkVars, setupVars>>
    BY <1>1, <2>2 DEF sdkVars, setupVars
  <2> QED
    BY <1>6, <2>1, <2>2
       DEF Environment, LinkBreaks, BrokerSubscribes, BrokerForwards, DeviceConnects,
           DevicePublishes, DeviceVanishes, BrokerNotices, DeviceDecides, DeviceRepeats
<1>7. CASE UNCHANGED vars
  BY <1>1, <1>7 DEF vars, sdkVars, setupVars
<1> QED  BY <1>4, <1>5, <1>6, <1>7 DEF Next

\* A set-up does not wait for a device that is online and whose new data came in
\* during the wait, in every execution.
THEOREM WaitEndsWhenReady == Spec => []NoWaitWhenReady
<1>1. Init => SetupInv
  BY DEF Init, SetupInv
<1>2. TypeOK /\ SetupInv /\ [Next]_vars => SetupInv'
  BY SetupStep
<1>3. SetupInv => NoWaitWhenReady
  BY DEF SetupInv, NoWaitWhenReady, Ready, IsOnline
<1> QED  BY <1>1, <1>2, <1>3, TypeCorrect, PTL DEF Spec
=============================================================================
