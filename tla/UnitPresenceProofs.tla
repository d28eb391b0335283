------------------------- MODULE UnitPresenceProofs -------------------------
(***************************************************************************)
(* Proofs about UnitPresence for every length of the event loop and every  *)
(* number of losses of power.                                              *)
(***************************************************************************)
EXTENDS UnitPresence, TLAPS

(***************************************************************************)
(* The button                                                              *)
(***************************************************************************)

ButtonMoves ==
    \/ Toggle \/ LongPressStart \/ Released \/ LongPressUp
    \/ ClearSucceeds \/ ClearFails \/ FailureCallbackReturns
    \/ \E stopped \in BOOLEAN : CallbackReturns(stopped)

\* The button's task starts over, with fresh flags.
ButtonFresh ==
    /\ key' = key /\ handler' = "watching" /\ armed' = FALSE /\ committed' = FALSE

ButtonInv == ButtonTypeOK /\ FlagsFollowThePress

LEMMA ButtonMovesKeep ==
    ASSUME ButtonInv, ButtonMoves \/ ButtonFresh \/ UNCHANGED buttonVars
    PROVE  ButtonInv'
<1> USE DEF ButtonInv
<1>1. CASE Toggle \/ Released \/ ClearSucceeds \/ FailureCallbackReturns
  BY <1>1 DEF ButtonTypeOK, FlagsFollowThePress, Handlers, Toggle, Released,
              ClearSucceeds, FailureCallbackReturns
<1>2. CASE ClearFails
  <2>1. ~armed /\ ~armed' /\ ~committed'
    BY <1>2 DEF ClearFails, FlagsFollowThePress
  <2> QED
    BY <1>2, <2>1 DEF ButtonTypeOK, FlagsFollowThePress, Handlers, ClearFails
<1>3. CASE LongPressStart
  <2>1. handler = "watching" /\ ~armed /\ ~committed
    BY <1>3 DEF LongPressStart, FlagsFollowThePress
  <2>2. armed' = TRUE /\ handler' = "callback" /\ UNCHANGED <<key, committed>>
    BY <1>3, <2>1 DEF LongPressStart
  <2> QED
    BY <2>1, <2>2 DEF ButtonTypeOK, FlagsFollowThePress, Handlers
<1>4. CASE LongPressUp
  BY <1>4 DEF LongPressUp, ButtonTypeOK, FlagsFollowThePress, Handlers
<1>5. ASSUME NEW stopped \in BOOLEAN, CallbackReturns(stopped) PROVE ButtonInv'
  <2>1. armed' \in BOOLEAN /\ (armed' => armed)
    BY <1>5 DEF CallbackReturns
  <2>2. handler = "callback" /\ handler' = "holding" /\ UNCHANGED <<key, committed>>
    BY <1>5 DEF CallbackReturns
  <2> QED
    BY <2>1, <2>2 DEF ButtonTypeOK, FlagsFollowThePress, Handlers
<1>6. CASE ButtonFresh
  BY <1>6 DEF ButtonFresh, ButtonTypeOK, FlagsFollowThePress, Handlers
<1>7. CASE UNCHANGED buttonVars
  BY <1>7 DEF buttonVars, ButtonTypeOK, FlagsFollowThePress
<1> QED
  BY <1>1, <1>2, <1>3, <1>4, <1>5, <1>6, <1>7 DEF ButtonMoves

LEMMA ButtonAlways == ButtonInv /\ [UnitNext]_allVars => ButtonInv'
<1> SUFFICES ASSUME ButtonInv, [UnitNext]_allVars PROVE ButtonInv'
  OBVIOUS
<1>1. ButtonMoves \/ ButtonFresh \/ UNCHANGED buttonVars
  <2>1. CASE UNCHANGED vars \/ UNCHANGED allVars
    BY <2>1 DEF vars, allVars
  <2>2. CASE Step
    <3>1. CASE HandleEvent
      BY <3>1 DEF HandleEvent, GotIp, Disconnected, CredFail, End, Handle
    <3>2. CASE ButtonStep \/ ClearCredentials
      BY <3>2 DEF ButtonStep, ClearCredentials, ButtonMoves
    <3> QED
      BY <2>2, <3>1, <3>2 DEF Step, Begin, CredentialsArrive, Associate, AttemptFails,
                              Drop, ManagerEnds
  <2>3. CASE GoesDown
    BY <2>3 DEF GoesDown, Restart, PowerFails, ButtonRestarts, ButtonFresh
  <2> QED
    BY <2>1, <2>2, <2>3 DEF UnitNext, AdapterBegins, Bridge, Connects, Provision, StartsAgain
<1> QED
  BY <1>1, ButtonMovesKeep

(***************************************************************************)
(* The event loop                                                          *)
(***************************************************************************)

\* Every a that waits is followed by a b.
Followed(a, b) ==
    \A i \in DOMAIN events : events[i] = a
        => \E j \in DOMAIN events : i < j /\ events[j] = b

Once(a) ==
    \A i, j \in DOMAIN events : events[i] = a /\ events[j] = a => i = j

\* What the handling of an event leaves in the loop.
LEMMA Handled ==
    ASSUME events \in Seq(Events), NEW e, Handle(e)
    PROVE  /\ events' \in Seq(Events)
           /\ \A a : a # e => (Pending(a)' <=> Pending(a))
           /\ \A a : Pending(a)' => Pending(a)
           /\ \A a, b : Followed(a, b) => Followed(a, b)'
           /\ \A b : Followed(e, b) => Pending(b)'
           /\ \A a : Once(a) => Once(a)'
           /\ Once(e) => ~Pending(e)'
           /\ Pending(e)
<1>1. /\ events' = Tail(events) /\ events # <<>> /\ events[1] = e
      /\ events' \in Seq(Events)
      /\ Len(events) \in Nat \ {0} /\ Len(events') = Len(events) - 1
      /\ DOMAIN events = 1..Len(events)
      /\ DOMAIN events' = 1..Len(events')
      /\ \A i \in 1..Len(events) - 1 : events'[i] = events[i + 1]
  BY DEF Handle
<1>2. ASSUME NEW i \in DOMAIN events'
      PROVE  i + 1 \in DOMAIN events /\ events'[i] = events[i + 1]
  BY <1>1, <1>2
<1>3. ASSUME NEW i \in DOMAIN events, i # 1
      PROVE  i - 1 \in DOMAIN events' /\ events'[i - 1] = events[i]
  BY <1>1, <1>3
<1>4. \A a : Pending(a)' => Pending(a)
  BY <1>2 DEF Pending
<1>5. ASSUME NEW a, a # e, Pending(a) PROVE Pending(a)'
  <2>1. PICK i \in DOMAIN events : events[i] = a
    BY <1>5 DEF Pending
  <2> QED
    BY <1>1, <1>3, <1>5, <2>1 DEF Pending
<1>6. ASSUME NEW a, NEW b, Followed(a, b) PROVE Followed(a, b)'
  <2> SUFFICES ASSUME NEW i \in DOMAIN events', events'[i] = a
               PROVE  \E j \in DOMAIN events' : i < j /\ events'[j] = b
    BY DEF Followed
  <2>1. PICK j \in DOMAIN events : i + 1 < j /\ events[j] = b
    BY <1>2, <1>6 DEF Followed
  <2>2. i \in Nat /\ j \in Nat /\ j # 1 /\ i < j - 1
    BY <1>1, <2>1
  <2> QED
    BY <1>3, <2>1, <2>2
<1>7. ASSUME NEW b, Followed(e, b) PROVE Pending(b)'
  <2>1. PICK j \in DOMAIN events : 1 < j /\ events[j] = b
    BY <1>1, <1>7 DEF Followed
  <2>2. j # 1
    BY <2>1
  <2> QED
    BY <1>3, <2>1, <2>2 DEF Pending
<1>8. ASSUME NEW a, Once(a) PROVE Once(a)'
  <2> SUFFICES ASSUME NEW i \in DOMAIN events', NEW j \in DOMAIN events',
                      events'[i] = a, events'[j] = a
               PROVE  i = j
    BY DEF Once
  <2>1. i + 1 = j + 1
    BY <1>2, <1>8 DEF Once
  <2> QED
    BY <1>1, <2>1
<1>9. ASSUME Once(e) PROVE ~Pending(e)'
  <2> SUFFICES ASSUME NEW i \in DOMAIN events', events'[i] = e PROVE FALSE
    BY DEF Pending
  <2>1. i + 1 = 1
    BY <1>1, <1>2, <1>9 DEF Once
  <2> QED
    BY <1>1, <2>1
<1>10. Pending(e)
  BY <1>1 DEF Pending
<1> QED
  BY <1>1, <1>4, <1>5, <1>6, <1>7, <1>8, <1>9, <1>10

\* What the posting of events adds to the loop.
LEMMA Posted ==
    ASSUME events \in Seq(Events), NEW p \in Seq(Events), Post(p)
    PROVE  /\ events' \in Seq(Events)
           /\ \A a : Pending(a)' <=> Pending(a) \/ \E k \in DOMAIN p : p[k] = a
           /\ \A a, b : Followed(a, b) /\ (\A k \in DOMAIN p : p[k] # a) => Followed(a, b)'
           /\ \A a, b : (\E k \in DOMAIN p : p[k] = b) /\ (\A k \in DOMAIN p : p[k] # a)
                            => Followed(a, b)'
           /\ \A a : Once(a) /\ (\A k \in DOMAIN p : p[k] # a) => Once(a)'
           /\ \A a, k : /\ k \in DOMAIN p /\ p[k] = a /\ ~Pending(a)
                        /\ \A l \in DOMAIN p : p[l] = a => l = k
                        => Once(a)'
<1>1. /\ events' = events \o p /\ events' \in Seq(Events)
      /\ Len(events) \in Nat /\ Len(p) \in Nat /\ Len(events') = Len(events) + Len(p)
      /\ DOMAIN events = 1..Len(events) /\ DOMAIN p = 1..Len(p)
      /\ DOMAIN events' = 1..Len(events')
      /\ \A i \in 1..Len(events) + Len(p) :
            events'[i] = IF i <= Len(events) THEN events[i] ELSE p[i - Len(events)]
  BY DEF Post
<1>2. ASSUME NEW i \in DOMAIN events PROVE i \in DOMAIN events' /\ events'[i] = events[i]
  BY <1>1, <1>2
<1>3. ASSUME NEW k \in DOMAIN p
      PROVE  k + Len(events) \in DOMAIN events' /\ events'[k + Len(events)] = p[k]
  BY <1>1, <1>3
<1>4. ASSUME NEW i \in DOMAIN events', i \notin DOMAIN events
      PROVE  i - Len(events) \in DOMAIN p /\ events'[i] = p[i - Len(events)]
             /\ i > Len(events)
  BY <1>1, <1>4
<1>5. \A a : Pending(a)' <=> Pending(a) \/ \E k \in DOMAIN p : p[k] = a
  BY <1>2, <1>3, <1>4 DEF Pending
<1>6. ASSUME NEW a, NEW b, Followed(a, b), \A k \in DOMAIN p : p[k] # a
      PROVE  Followed(a, b)'
  BY <1>2, <1>4, <1>6 DEF Followed
<1>7. ASSUME NEW a, NEW b, NEW l \in DOMAIN p, p[l] = b, \A k \in DOMAIN p : p[k] # a
      PROVE  Followed(a, b)'
  <2> SUFFICES ASSUME NEW i \in DOMAIN events', events'[i] = a
               PROVE  \E j \in DOMAIN events' : i < j /\ events'[j] = b
    BY DEF Followed
  <2>1. i \in DOMAIN events
    BY <1>4, <1>7
  <2>2. i < l + Len(events)
    BY <1>1, <2>1
  <2> QED
    BY <1>3, <1>7, <2>2
<1>8. ASSUME NEW a, Once(a), \A k \in DOMAIN p : p[k] # a PROVE Once(a)'
  BY <1>2, <1>4, <1>8 DEF Once
<1>9. ASSUME NEW a, NEW k \in DOMAIN p, ~Pending(a),
             \A l \in DOMAIN p : p[l] = a => l = k
      PROVE  Once(a)'
  <2> SUFFICES ASSUME NEW i \in DOMAIN events', NEW j \in DOMAIN events',
                      events'[i] = a, events'[j] = a
               PROVE  i = j
    BY DEF Once
  <2>1. i \notin DOMAIN events /\ j \notin DOMAIN events
    BY <1>2, <1>9 DEF Pending
  <2>2. i - Len(events) = k /\ j - Len(events) = k
    BY <1>4, <1>9, <2>1
  <2> QED
    BY <1>1, <2>2
<1> QED
  BY <1>1, <1>5, <1>6, <1>7, <1>8, <1>9

(***************************************************************************)
(* Types                                                                   *)
(***************************************************************************)

WifiTypes ==
    /\ stored \in {"none", "right", "wrong"}
    /\ boot \in {"off", "running", "failed"}
    /\ wifi \in {"idle", "connecting", "up"}
    /\ manager \in {"off", "listening", "connecting", "succeeded", "failed"}
    /\ active \in BOOLEAN /\ ready \in BOOLEAN
    /\ lateDrop \in BOOLEAN /\ interrupted \in BOOLEAN
    /\ events \in Seq(Events)
    /\ outages \in Nat

LEMMA TypeParts == UnitTypeOK <=> ButtonTypeOK /\ WifiTypes /\ BridgeTypeOK
BY DEF UnitTypeOK, TypeOK, WifiTypes

LEMMA WifiTypesStep == WifiTypes /\ [UnitNext]_allVars => WifiTypes'
<1> SUFFICES ASSUME WifiTypes, [UnitNext]_allVars PROVE WifiTypes'
  OBVIOUS
<1>1. CASE UNCHANGED wifiVars
  BY <1>1 DEF wifiVars, WifiTypes
<1>2. <<"got_ip">> \in Seq(Events) /\ <<"disconnected">> \in Seq(Events)
      /\ <<"end">> \in Seq(Events) /\ <<"disconnected", "cred_fail">> \in Seq(Events)
  BY DEF Events
<1>3. CASE Begin
  <2>1. /\ boot' \in {"running", "failed"}
        /\ UNCHANGED <<stored, ready, events, lateDrop, interrupted, outages>>
        /\ wifi' \in {"idle", "connecting"} \/ wifi' = wifi
        /\ manager' \in {"off", "listening"} \/ manager' = manager
    BY <1>3 DEF Begin
  <2>2. active' \in BOOLEAN
    BY <1>3 DEF Begin, WifiTypes
  <2> QED
    BY <2>1, <2>2 DEF WifiTypes
<1>4. CASE CredentialsArrive
  BY <1>4 DEF CredentialsArrive, WifiTypes
<1>5. CASE Associate
  <2>1. events' \in Seq(Events)
    BY <1>2, <1>5 DEF Associate, Post, WifiTypes
  <2> QED
    BY <1>5, <2>1 DEF Associate, WifiTypes
<1>6. CASE AttemptFails
  <2>1. events' \in Seq(Events)
    <3>1. CASE Post(<<"disconnected">>)
      BY <1>2, <3>1 DEF Post, WifiTypes
    <3>2. CASE Post(<<"disconnected", "cred_fail">>)
      BY <1>2, <3>2 DEF Post, WifiTypes
    <3> QED
      BY <1>6, <3>1, <3>2 DEF AttemptFails
  <2> QED
    BY <1>6, <2>1 DEF AttemptFails, WifiTypes
<1>7. CASE Drop
  <2>1. events' \in Seq(Events)
    BY <1>2, <1>7 DEF Drop, Post, WifiTypes
  <2> QED
    BY <1>7, <2>1 DEF Drop, WifiTypes
<1>8. CASE ManagerEnds
  <2>1. events' \in Seq(Events)
    BY <1>2, <1>8 DEF ManagerEnds, Post, WifiTypes
  <2> QED
    BY <1>8, <2>1 DEF ManagerEnds, WifiTypes
<1>9. CASE HandleEvent
  <2>1. events' \in Seq(Events)
    BY <1>9 DEF HandleEvent, GotIp, Disconnected, CredFail, End, Handle, WifiTypes
  <2>2. CASE GotIp
    BY <2>1, <2>2 DEF GotIp, Handle, WifiTypes
  <2>3. CASE Disconnected
    <3>1. wifi' \in {"idle", "connecting", "up"}
      BY <2>3 DEF Disconnected, Reconnected, WifiTypes
    <3>2. lateDrop' \in BOOLEAN
      BY <2>3 DEF Disconnected
    <3> QED
      BY <2>1, <2>3, <3>1, <3>2 DEF Disconnected, Handle, WifiTypes
  <2>4. CASE CredFail
    BY <2>1, <2>4 DEF CredFail, Handle, WifiTypes
  <2>5. CASE End
    BY <2>1, <2>5 DEF End, Handle, WifiTypes
  <2> QED
    BY <1>9, <2>2, <2>3, <2>4, <2>5 DEF HandleEvent
<1>10. CASE ButtonStep
  BY <1>1, <1>10 DEF ButtonStep
<1>11. CASE ClearCredentials
  BY <1>11 DEF ClearCredentials, memory, WifiTypes
<1>12. CASE StartAfresh /\ outages' \in Nat
  <2>1. interrupted' \in BOOLEAN
    BY <1>12 DEF StartAfresh
  <2>2. events' \in Seq(Events)
    BY <1>12 DEF StartAfresh
  <2> QED
    BY <1>12, <2>1, <2>2 DEF StartAfresh, WifiTypes
<1>13. CASE GoesDown
  <2>1. StartAfresh /\ outages' \in Nat
    BY <1>13 DEF GoesDown, Restart, PowerFails, WifiTypes
  <2> QED
    BY <1>12, <2>1
<1> QED
  BY <1>1, <1>3, <1>4, <1>5, <1>6, <1>7, <1>8, <1>9, <1>10, <1>11, <1>13
     DEF UnitNext, AdapterBegins, Bridge, Connects, Provision, StartsAgain, Step,
         vars, allVars

LEMMA BridgeTypesStep == BridgeTypeOK /\ [UnitNext]_allVars => BridgeTypeOK'
<1> SUFFICES ASSUME BridgeTypeOK, [UnitNext]_allVars PROVE BridgeTypeOK'
  OBVIOUS
<1>1. CASE UNCHANGED bridgeVars
  BY <1>1 DEF bridgeVars, BridgeTypeOK
<1>2. CASE BridgeBegins
  BY <1>2 DEF BridgeBegins, BridgeTypeOK, Clients
<1>3. CASE Connected
  <2>1. onItsWay' \in BOOLEAN
    BY <1>3 DEF Connected
  <2> QED
    BY <1>3, <2>1 DEF Connected, BridgeTypeOK, Clients
<1>4. CASE Disconnects \/ BrokerTakesOnline
  BY <1>4 DEF Disconnects, BrokerTakesOnline, BridgeTypeOK, Clients
<1>6. CASE LineBreaks \/ BridgeStartsAfresh
  <2>1. onItsWay' \in BOOLEAN
    BY <1>6 DEF LineBreaks, BridgeStartsAfresh, BridgeTypeOK
  <2> QED
    BY <1>6, <2>1 DEF LineBreaks, BridgeStartsAfresh, BridgeTypeOK, Clients
<1>5. CASE BrokerAccepts \/ BrokerNotices
  BY <1>5 DEF BrokerAccepts, BrokerNotices, AfterSession, LastWill, BridgeTypeOK, Clients
<1> QED
  BY <1>1, <1>2, <1>3, <1>4, <1>5, <1>6
     DEF UnitNext, AdapterBegins, Bridge, Connects, Provision, StartsAgain, allVars

LEMMA TypesAlways == UnitSpec => [](UnitTypeOK /\ ButtonInv)
<1>1. UnitInit => ButtonInv /\ WifiTypes /\ BridgeTypeOK
  <2> SUFFICES ASSUME UnitInit PROVE ButtonInv /\ WifiTypes /\ BridgeTypeOK
    OBVIOUS
  <2>1. ButtonInv
    BY DEF UnitInit, Init, ButtonInit, ButtonInv, ButtonTypeOK, Handlers,
           FlagsFollowThePress
  <2>2. WifiTypes
    <3>1. active \in BOOLEAN /\ ready \in BOOLEAN /\ lateDrop \in BOOLEAN
          /\ interrupted \in BOOLEAN
      BY DEF UnitInit, Init
    <3>2. events \in Seq(Events) /\ outages \in Nat
      BY DEF UnitInit, Init
    <3> QED
      BY <3>1, <3>2 DEF UnitInit, Init, WifiTypes
  <2>3. BridgeTypeOK
    BY DEF UnitInit, BridgeInit, BridgeTypeOK, Clients
  <2> QED
    BY <2>1, <2>2, <2>3
<1>2. ButtonInv /\ WifiTypes /\ BridgeTypeOK /\ [UnitNext]_allVars
        => (ButtonInv /\ WifiTypes /\ BridgeTypeOK)'
  BY ButtonAlways, WifiTypesStep, BridgeTypesStep
<1>3. ButtonInv /\ WifiTypes /\ BridgeTypeOK => UnitTypeOK /\ ButtonInv
  BY TypeParts DEF ButtonInv
<1> QED
  BY <1>1, <1>2, <1>3, PTL DEF UnitSpec

\* For every length of the event loop and every number of losses of power the
\* variables keep their types.
THEOREM TypeCorrect == UnitSpec => []UnitTypeOK
BY TypesAlways, PTL

\* No course of presses, refusals and failures leaves a flag of the reset
\* button behind.
THEOREM PressesLeaveNothing == UnitSpec => []FlagsFollowThePress
BY TypesAlways, PTL DEF ButtonInv

(***************************************************************************)
(* The station, the manager and the event loop                             *)
(***************************************************************************)

\* Before begin() nothing runs and nothing waits.
OffIsFresh ==
    boot = "off" =>
        wifi = "idle" /\ manager = "off" /\ ~active /\ ~ready /\ events = <<>>

\* While the manager offers provisioning or has failed the station is idle;
\* while it tries credentials the station does.
ManagerHoldsWifi ==
    /\ manager \in {"listening", "failed"} => wifi = "idle"
    /\ manager = "connecting" => wifi = "connecting"

\* The last of the waiting events about the station tells what it is.
LastEventTellsWifi ==
    /\ wifi # "up" => Followed("got_ip", "disconnected")
    /\ wifi = "up" => Followed("disconnected", "got_ip")

\* The event of a failure or of the end waits while the manager is still there.
EventsTellManager ==
    /\ Once("cred_fail")
    /\ Pending("cred_fail") => manager = "failed"
    /\ Pending("end") => manager = "off"

\* A station that is idle at the end of a provisioning that succeeded has its
\* drop still to be handled, or it was handled too early.
DropIsKnown ==
    active /\ manager \in {"succeeded", "off"} /\ wifi = "idle"
        => Pending("disconnected") \/ lateDrop

\* Wrong credentials are on their way to be erased.
WrongIsUnderWay ==
    stored = "wrong" => manager \in {"connecting", "failed"} \/ interrupted

WifiInv ==
    /\ OffIsFresh
    /\ ManagerHoldsWifi
    /\ LastEventTellsWifi
    /\ EventsTellManager
    /\ FlagsFollowTheEvents
    /\ DropIsKnown
    /\ NobodyStranded
    /\ WrongIsUnderWay

\* The facts about the event loop that the steps below need, for a step that
\* leaves it alone and for one that adds one event.
LEMMA Untouched ==
    ASSUME events' = events
    PROVE  /\ \A a : Pending(a)' <=> Pending(a)
           /\ \A a, b : Followed(a, b)' <=> Followed(a, b)
           /\ \A a : Once(a)' <=> Once(a)
BY DEF Pending, Followed, Once

LEMMA PostedOne ==
    ASSUME events \in Seq(Events), NEW e \in Events, Post(<<e>>)
    PROVE  /\ \A a : Pending(a)' <=> Pending(a) \/ a = e
           /\ \A a, b : Followed(a, b) /\ a # e => Followed(a, b)'
           /\ \A a : a # e => Followed(a, e)'
           /\ \A a : Once(a) /\ a # e => Once(a)'
<1> DEFINE p == <<e>>
<1>1. p \in Seq(Events) /\ DOMAIN p = {1} /\ p[1] = e
  OBVIOUS
<1>2. Post(p)
  OBVIOUS
<1> HIDE DEF p
<1> QED
  BY <1>1, <1>2, Posted

LEMMA FreshStep ==
    ASSUME events' = <<>>
    PROVE  /\ \A a : ~Pending(a)' /\ Once(a)'
           /\ \A a, b : Followed(a, b)'
BY DEF Pending, Followed, Once

LEMMA WifiInvInit == UnitInit => WifiInv
<1> SUFFICES ASSUME UnitInit PROVE WifiInv
  OBVIOUS
<1>1. events = <<>> /\ ~active /\ ~ready /\ wifi = "idle" /\ manager = "off"
      /\ stored = "none"
  BY DEF UnitInit, Init
<1>2. \A a : ~Pending(a) /\ Once(a)
  BY <1>1 DEF Pending, Once
<1>3. \A a, b : Followed(a, b)
  BY <1>1 DEF Followed
<1> QED
  BY <1>1, <1>2, <1>3
     DEF WifiInv, OffIsFresh, ManagerHoldsWifi, LastEventTellsWifi, EventsTellManager,
         FlagsFollowTheEvents, ReadyTracksWifi, ActiveWhileManaged, DropIsKnown,
         NobodyStranded, WrongIsUnderWay

WifiFacts == WifiTypes /\ WifiInv

LEMMA DriverStep ==
    ASSUME WifiFacts,
           Begin \/ CredentialsArrive \/ Associate \/ AttemptFails \/ Drop \/ ManagerEnds
    PROVE  WifiInv'
<1> USE DEF WifiFacts, WifiInv, OffIsFresh, ManagerHoldsWifi, LastEventTellsWifi,
            EventsTellManager, FlagsFollowTheEvents, ReadyTracksWifi, ActiveWhileManaged,
            DropIsKnown, NobodyStranded, WrongIsUnderWay
<1>1. events \in Seq(Events) /\ {"got_ip", "disconnected", "end"} \subseteq Events
  BY DEF WifiTypes, Events
<1>2. CASE Begin
  <2>1. events' = events /\ UNCHANGED <<stored, ready, lateDrop, interrupted>>
        /\ wifi = "idle" /\ manager = "off" /\ ~active /\ boot' # "off" /\ events = <<>>
    BY <1>2 DEF Begin
  <2>2. \A a : ~Pending(a)
    BY <2>1 DEF Pending
  <2>3. \/ /\ stored = "none" /\ wifi' = "idle" /\ manager' = "listening" /\ active'
        \/ /\ stored # "none" /\ wifi' = "connecting" /\ manager' = "off" /\ ~active'
        \/ /\ boot' = "failed" /\ wifi' = "idle" /\ manager' = "off" /\ ~active'
    BY <1>2, <2>1 DEF Begin
  <2> QED
    BY <2>1, <2>2, <2>3, Untouched
<1>3. CASE CredentialsArrive
  BY <1>3, Untouched DEF CredentialsArrive
<1>4. CASE Associate
  <2>1. Post(<<"got_ip">>)
    BY <1>4 DEF Associate
  <2> QED
    BY <1>1, <1>4, <2>1, PostedOne DEF Associate
<1>5. CASE AttemptFails
  <2>1. CASE Post(<<"disconnected">>) /\ UNCHANGED manager
    BY <1>1, <1>5, <2>1, PostedOne DEF AttemptFails
  <2>2. CASE Post(<<"disconnected", "cred_fail">>) /\ manager = "connecting"
             /\ manager' = "failed" /\ wifi' = "idle"
    <3> DEFINE p == <<"disconnected", "cred_fail">>
    <3>1. /\ p \in Seq(Events) /\ DOMAIN p = 1..2 /\ p[1] = "disconnected"
          /\ p[2] = "cred_fail"
      BY DEF Events
    <3>2. Post(p)
      BY <2>2
    <3> HIDE DEF p
    <3>3. /\ \A a : Pending(a)' <=> Pending(a) \/ a = "disconnected" \/ a = "cred_fail"
          /\ Followed("got_ip", "disconnected")'
          /\ Once("cred_fail")'
      BY <1>1, <2>2, <3>1, <3>2, Posted
    <3> QED
      BY <1>5, <2>2, <3>3 DEF AttemptFails
  <2> QED
    BY <1>5, <2>1, <2>2 DEF AttemptFails
<1>6. CASE Drop
  <2>1. Post(<<"disconnected">>)
    BY <1>6 DEF Drop
  <2> QED
    BY <1>1, <1>6, <2>1, PostedOne DEF Drop
<1>7. CASE ManagerEnds
  <2>1. Post(<<"end">>)
    BY <1>7 DEF ManagerEnds
  <2> QED
    BY <1>1, <1>7, <2>1, PostedOne DEF ManagerEnds
<1> QED
  BY <1>2, <1>3, <1>4, <1>5, <1>6, <1>7

LEMMA HandlerStep == ASSUME WifiFacts, HandleEvent PROVE WifiInv'
<1> USE DEF WifiFacts, WifiInv, OffIsFresh, ManagerHoldsWifi, LastEventTellsWifi,
            EventsTellManager, FlagsFollowTheEvents, ReadyTracksWifi, ActiveWhileManaged,
            DropIsKnown, NobodyStranded, WrongIsUnderWay
<1>1. events \in Seq(Events) /\ wifi \in {"idle", "connecting", "up"}
  BY DEF WifiTypes
<1>2. CASE GotIp
  <2>1. Handle("got_ip")
    BY <1>2 DEF GotIp
  <2> QED
    BY <1>1, <1>2, <2>1, Handled DEF GotIp, Handle
<1>3. CASE Disconnected
  <2>1. Handle("disconnected")
    BY <1>3 DEF Disconnected
  <2>2. UNCHANGED <<stored, manager, active, boot, interrupted>> /\ ~ready'
        /\ events # <<>>
    BY <1>3 DEF Disconnected, Handle
  <2>3. (lateDrop => lateDrop') /\ (active /\ manager \in {"succeeded", "off"} => lateDrop')
    BY <1>3 DEF Disconnected
  <2>4. wifi' = IF active \/ wifi # "idle" THEN wifi ELSE "connecting"
    BY <1>3 DEF Disconnected, Reconnected
  <2>5. (wifi = "up" => Pending("got_ip")') /\ LastEventTellsWifi'
    BY <1>1, <2>1, <2>4, Handled
  <2>6. EventsTellManager' /\ (Pending("end")' <=> Pending("end"))
    BY <1>1, <2>1, <2>2, Handled
  <2> QED
    BY <1>1, <2>2, <2>3, <2>4, <2>5, <2>6
<1>4. CASE CredFail
  <2>1. Handle("cred_fail")
    BY <1>4 DEF CredFail
  <2> QED
    BY <1>1, <1>4, <2>1, Handled DEF CredFail, Handle
<1>5. CASE End
  <2>1. Handle("end")
    BY <1>5 DEF End
  <2> QED
    BY <1>1, <1>5, <2>1, Handled DEF End, Handle
<1> QED
  BY <1>2, <1>3, <1>4, <1>5 DEF HandleEvent

LEMMA WifiInvStep == WifiFacts /\ [UnitNext]_allVars => WifiInv'
<1> SUFFICES ASSUME WifiFacts, [UnitNext]_allVars PROVE WifiInv'
  OBVIOUS
<1> USE DEF WifiFacts, WifiInv, OffIsFresh, ManagerHoldsWifi, LastEventTellsWifi,
            EventsTellManager, FlagsFollowTheEvents, ReadyTracksWifi, ActiveWhileManaged,
            DropIsKnown, NobodyStranded, WrongIsUnderWay
<1>1. CASE UNCHANGED wifiVars
  BY <1>1, Untouched DEF wifiVars
<1>2. CASE ClearCredentials
  BY <1>2, Untouched DEF ClearCredentials, memory
<1>3. CASE GoesDown
  <2>1. StartAfresh
    BY <1>3 DEF GoesDown, Restart, PowerFails
  <2>2. wifi' = "idle" /\ manager' = "off" /\ ~active' /\ ~ready' /\ boot' = "off"
        /\ stored' = stored /\ events' = <<>>
        /\ (interrupted \/ manager \in {"connecting", "failed"} => interrupted')
    BY <2>1 DEF StartAfresh
  <2> QED
    BY <2>2, FreshStep
<1> QED
  BY <1>1, <1>2, <1>3, DriverStep, HandlerStep
     DEF UnitNext, AdapterBegins, Bridge, Connects, Provision, StartsAgain, Step,
         ButtonStep, vars, allVars

LEMMA WifiAlways == UnitSpec => [](WifiFacts /\ ButtonInv)
<1>1. UnitTypeOK /\ WifiInv /\ [UnitNext]_allVars => WifiInv'
  BY WifiInvStep, TypeParts DEF WifiFacts
<1>2. UnitTypeOK /\ WifiInv => WifiFacts
  BY TypeParts DEF WifiFacts
<1> QED
  BY <1>1, <1>2, WifiInvInit, TypesAlways, PTL DEF UnitSpec

\* The flags of the main loop lag behind the station and the manager by the
\* waiting events and no more, for every order in which these are posted.
THEOREM FlagsLagByEvents == UnitSpec => []FlagsFollowTheEvents
<1>1. WifiFacts => FlagsFollowTheEvents
  BY DEF WifiFacts, WifiInv
<1> QED
  BY <1>1, WifiAlways, PTL

\* Outside provisioning an idle station is always reconnected, but for the
\* drop that was handled too early.
THEOREM StationIsReconnected == UnitSpec => []NobodyStranded
<1>1. WifiFacts => NobodyStranded
  BY DEF WifiFacts, WifiInv
<1> QED
  BY <1>1, WifiAlways, PTL

\* Only a restart or a loss of power in the middle of provisioning makes a
\* unit keep credentials that no access point takes.
THEOREM WrongCredentialsErased == UnitSpec => []WrongOnlyIfInterrupted
<1>1. WifiFacts => WrongOnlyIfInterrupted
  BY DEF WifiFacts, WifiInv, WrongIsUnderWay, FlagsFollowTheEvents, ActiveWhileManaged,
         WrongOnlyIfInterrupted
<1> QED
  BY <1>1, WifiAlways, PTL

(***************************************************************************)
(* The presence at the broker                                              *)
(***************************************************************************)

\* A connection that works, and an answer on its way, belong to a session
\* whose last will is "offline".
SessionHasWill == live \/ onItsWay => session = "offline"

PresenceInv == SessionHasWill /\ OnlineIsRevocable /\ ConnectedIsAnnounced

LEMMA PresenceStep == BridgeTypeOK /\ PresenceInv /\ [UnitNext]_allVars => PresenceInv'
<1> SUFFICES ASSUME BridgeTypeOK, PresenceInv, [UnitNext]_allVars PROVE PresenceInv'
  OBVIOUS
<1> USE DEF PresenceInv, SessionHasWill, OnlineIsRevocable, ConnectedIsAnnounced
<1>1. CASE UNCHANGED bridgeVars
  BY <1>1 DEF bridgeVars
<1>2. CASE BridgeBegins
  BY <1>2 DEF BridgeBegins
<1>3. CASE Connected
  <2>1. UNCHANGED <<live, session, retained>> /\ (onItsWay' => live)
        /\ (live => onItsWay' \/ unannounced')
    BY <1>3 DEF Connected
  <2> QED
    BY <2>1
<1>4. CASE Disconnects
  BY <1>4 DEF Disconnects
<1>5. CASE LineBreaks \/ BridgeStartsAfresh
  <2>1. UNCHANGED <<session, retained>> /\ ~live'
    BY <1>5 DEF LineBreaks, BridgeStartsAfresh
  <2>2. onItsWay' = onItsWay \/ ~onItsWay'
    BY <1>5 DEF LineBreaks, BridgeStartsAfresh
  <2> QED
    BY <2>1, <2>2
<1>6. CASE BrokerAccepts
  BY <1>6 DEF BrokerAccepts, LastWill
<1>7. CASE BrokerTakesOnline
  BY <1>7 DEF BrokerTakesOnline
<1>8. CASE BrokerNotices
  BY <1>8 DEF BrokerNotices, AfterSession
<1> QED
  BY <1>1, <1>2, <1>3, <1>4, <1>5, <1>6, <1>7, <1>8
     DEF UnitNext, AdapterBegins, Bridge, Connects, Provision, StartsAgain, allVars

LEMMA PresenceAlways == UnitSpec => []PresenceInv
<1>1. UnitInit => PresenceInv
  BY DEF UnitInit, BridgeInit, PresenceInv, SessionHasWill, OnlineIsRevocable,
         ConnectedIsAnnounced
<1>2. UnitTypeOK /\ PresenceInv /\ [UnitNext]_allVars => PresenceInv'
  BY PresenceStep, TypeParts
<1> QED
  BY <1>1, <1>2, TypesAlways, PTL DEF UnitSpec

\* The retained "online" always has a session behind it that takes it back.
THEOREM OnlineHasWill == UnitSpec => []OnlineIsRevocable
BY PresenceAlways, PTL DEF PresenceInv

\* A connected unit is "online" at the broker or about to be, unless the
\* client refused the announcement.
THEOREM ConnectedComesOnline == UnitSpec => []ConnectedIsAnnounced
BY PresenceAlways, PTL DEF PresenceInv

\* A client that looks for a connection has lost the one before.
WaitsAlone == client \in {"off", "waiting"} => ~live

LEMMA WaitsAloneStep == BridgeTypeOK /\ WaitsAlone /\ [UnitNext]_allVars => WaitsAlone'
BY DEF BridgeTypeOK, Clients, WaitsAlone, UnitNext, AdapterBegins, Bridge, Connects, Provision,
       StartsAgain, allVars, bridgeVars, BridgeBegins, Connected, Disconnects, LineBreaks,
       BridgeStartsAfresh, BrokerAccepts, BrokerTakesOnline, BrokerNotices

\* A unit is taken back to "offline" only after its connection is gone, however
\* its sessions follow each other.
THEOREM OfflineIsDeserved == UnitSpec => OfflineIsTrue
<1>1. UnitInit => WaitsAlone
  BY DEF UnitInit, BridgeInit, WaitsAlone
<1>2. UnitTypeOK /\ WaitsAlone /\ [UnitNext]_allVars => WaitsAlone'
  BY WaitsAloneStep, TypeParts
<1>3. WaitsAlone /\ [UnitNext]_allVars => (retained = "online" /\ retained' # "online" => ~live)
  BY DEF WaitsAlone, UnitNext, AdapterBegins, Bridge, Connects, Provision, StartsAgain,
         allVars, bridgeVars, BridgeBegins, Connected, Disconnects, LineBreaks,
         BridgeStartsAfresh, BrokerAccepts, BrokerTakesOnline, BrokerNotices
<1> QED
  BY <1>1, <1>2, <1>3, TypesAlways, PTL DEF UnitSpec, OfflineIsTrue
=============================================================================
