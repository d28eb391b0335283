--------------------------- MODULE MotorUnitProofs ---------------------------
(***************************************************************************)
(* Proofs about MotorUnit for every set of directions and every length of  *)
(* the green signal.                                                       *)
(***************************************************************************)
EXTENDS MotorUnit, SequenceTheorems, TLAPS

(***************************************************************************)
(* The button                                                              *)
(***************************************************************************)

ButtonInv == ButtonTypeOK /\ FlagsFollowThePress

ButtonMoves ==
    \/ Toggle \/ LongPressStart \/ Released \/ LongPressUp
    \/ ClearSucceeds \/ ClearFails \/ FailureCallbackReturns
    \/ CallbackReturns(TRUE) \/ ButtonRestarts

LEMMA ButtonAlways == ButtonInv /\ [Next]_vars => ButtonInv'
<1> SUFFICES ASSUME ButtonInv, [Next]_vars PROVE ButtonInv'
  OBVIOUS
<1> USE DEF ButtonInv
<1>1. ButtonMoves \/ UNCHANGED buttonVars
  BY DEF Next, vars, buttonVars, ButtonMoves, Main, BootStep, LedCall, ShowState, ShowLink,
         LinkChanges, SubmitMove, Serve, ServeMove, ServeStop, ServeReading, MotorArrives,
         Press, Reset, BeginReset, StopForReset, Release, ResetFails, Restart
<1>2. CASE Toggle \/ Released \/ ClearSucceeds \/ FailureCallbackReturns
  BY <1>2 DEF ButtonTypeOK, FlagsFollowThePress, Handlers, Toggle, Released,
              ClearSucceeds, FailureCallbackReturns
<1>3. CASE ClearFails \/ ButtonRestarts
  <2>1. ~armed /\ ~armed' /\ ~committed'
    BY <1>3 DEF ClearFails, ButtonRestarts, FlagsFollowThePress
  <2> QED
    BY <1>3, <2>1 DEF ButtonTypeOK, FlagsFollowThePress, Handlers, ClearFails, ButtonRestarts
<1>4. CASE LongPressStart
  <2>1. handler = "watching" /\ ~armed /\ ~committed
    BY <1>4 DEF LongPressStart, FlagsFollowThePress
  <2>2. armed' = TRUE /\ handler' = "callback" /\ UNCHANGED <<key, committed>>
    BY <1>4, <2>1 DEF LongPressStart
  <2> QED
    BY <2>1, <2>2 DEF ButtonTypeOK, FlagsFollowThePress, Handlers
<1>5. CASE LongPressUp
  BY <1>5 DEF LongPressUp, ButtonTypeOK, FlagsFollowThePress, Handlers
<1>6. CASE CallbackReturns(TRUE)
  <2>1. armed' = armed
    BY <1>6 DEF CallbackReturns, ButtonTypeOK
  <2> QED
    BY <1>6, <2>1 DEF CallbackReturns, ButtonTypeOK, FlagsFollowThePress, Handlers
<1>7. CASE UNCHANGED buttonVars
  BY <1>7 DEF buttonVars, ButtonTypeOK, FlagsFollowThePress
<1> QED
  BY <1>1, <1>2, <1>3, <1>4, <1>5, <1>6, <1>7 DEF ButtonMoves

(***************************************************************************)
(* The requests that wait                                                  *)
(***************************************************************************)

\* The MQTT task has at most one move waiting, the button task one stop.
Queues == {<<>>, <<"move">>, <<"stop">>, <<"move", "stop">>, <<"stop", "move">>}

MoveWaits == queue \in {<<"move">>, <<"move", "stop">>, <<"stop", "move">>}

StopWaits == queue \in {<<"stop">>, <<"move", "stop">>, <<"stop", "move">>}

LEMMA Waiting ==
    ASSUME queue \in Queues
    PROVE  /\ (\E i \in DOMAIN queue : queue[i] = "move") <=> MoveWaits
           /\ (\E i \in DOMAIN queue : queue[i] = "stop") <=> StopWaits
           /\ queue \in Seq({"move", "stop"})
<1>1. CASE queue = <<>>
  BY <1>1 DEF MoveWaits, StopWaits
<1>2. CASE queue = <<"move">>
  <2>1. DOMAIN queue = {1} /\ queue[1] = "move"
    BY <1>2
  <2> QED
    BY <1>2, <2>1 DEF MoveWaits, StopWaits
<1>3. CASE queue = <<"stop">>
  <2>1. DOMAIN queue = {1} /\ queue[1] = "stop"
    BY <1>3
  <2> QED
    BY <1>3, <2>1 DEF MoveWaits, StopWaits
<1>4. CASE queue = <<"move", "stop">>
  <2>1. DOMAIN queue = 1..2 /\ queue[1] = "move" /\ queue[2] = "stop"
    BY <1>4
  <2> QED
    BY <1>4, <2>1 DEF MoveWaits, StopWaits
<1>5. CASE queue = <<"stop", "move">>
  <2>1. DOMAIN queue = 1..2 /\ queue[1] = "stop" /\ queue[2] = "move"
    BY <1>5
  <2> QED
    BY <1>5, <2>1 DEF MoveWaits, StopWaits
<1> QED
  BY <1>1, <1>2, <1>3, <1>4, <1>5 DEF Queues

LEMMA AppendToOne ==
    ASSUME NEW S, NEW a \in S, NEW b \in S
    PROVE  Append(<<a>>, b) = <<a, b>>
<1> DEFINE s == <<a>>
           t == Append(s, b)
           u == <<a, b>>
<1>1. s \in Seq(S) /\ Len(s) = 1 /\ s[1] = a
  OBVIOUS
<1>2. u \in Seq(S) /\ Len(u) = 2 /\ u[1] = a /\ u[2] = b
  OBVIOUS
<1> HIDE DEF s, u
<1>3. t \in Seq(S) /\ Len(t) = 2 /\ t[1] = a /\ t[2] = b
  <2>1. /\ t \in Seq(S) /\ Len(t) = Len(s) + 1 /\ t[Len(s) + 1] = b
        /\ \A i \in 1..Len(s) : t[i] = s[i]
    BY <1>1, AppendProperties
  <2> QED
    BY <1>1, <2>1
<1> HIDE DEF t
<1>4. \A i \in 1..Len(t) : t[i] = u[i]
  BY <1>2, <1>3
<1>5. t = u
  BY <1>2, <1>3, <1>4, SeqEqual
<1> QED
  BY <1>5 DEF t, s, u

\* Taking the first request and adding a last one.
LEMMA Taken ==
    ASSUME queue \in Queues, NEW r, Served(r)
    PROVE  /\ queue' \in {<<>>, <<"move">>, <<"stop">>}
           /\ r = "stop" => StopWaits /\ ~StopWaits' /\ (MoveWaits' <=> queue = <<"stop", "move">>)
           /\ r = "move" => MoveWaits /\ ~MoveWaits' /\ (StopWaits' <=> queue = <<"move", "stop">>)
<1>1. CASE queue = <<>>
  BY <1>1 DEF Served
<1>2. CASE queue = <<"move">> \/ queue = <<"stop">>
  <2>1. r = queue[1] /\ queue' = <<>>
    BY <1>2 DEF Served
  <2> QED
    BY <1>2, <2>1 DEF MoveWaits, StopWaits
<1>3. CASE queue = <<"move", "stop">>
  <2>1. r = "move" /\ queue' = <<"stop">>
    BY <1>3 DEF Served
  <2> QED
    BY <1>3, <2>1 DEF MoveWaits, StopWaits
<1>4. CASE queue = <<"stop", "move">>
  <2>1. r = "stop" /\ queue' = <<"move">>
    BY <1>4 DEF Served
  <2> QED
    BY <1>4, <2>1 DEF MoveWaits, StopWaits
<1> QED
  BY <1>1, <1>2, <1>3, <1>4 DEF Queues

Requests == {"move", "stop"}

LEMMA Added ==
    ASSUME queue \in Queues
    PROVE  /\ queue' = Append(queue, "move") /\ ~MoveWaits
                => queue' \in Queues /\ MoveWaits' /\ (StopWaits' <=> StopWaits)
                   /\ (StopWaits => queue' = <<"stop", "move">>)
           /\ queue' = Append(queue, "stop") /\ ~StopWaits
                => queue' \in Queues /\ queue' # <<"stop", "move">> /\ StopWaits'
                   /\ (MoveWaits' <=> MoveWaits)
<1>1. CASE queue = <<>>
  <2>1. Append(queue, "move") = <<"move">> /\ Append(queue, "stop") = <<"stop">>
    BY <1>1
  <2> QED
    BY <1>1, <2>1 DEF Queues, MoveWaits, StopWaits
<1>2. CASE queue = <<"move">>
  <2>1. Append(queue, "stop") = <<"move", "stop">>
    BY <1>2, AppendToOne, "move" \in Requests, "stop" \in Requests DEF Requests
  <2> QED
    BY <1>2, <2>1 DEF Queues, MoveWaits, StopWaits
<1>3. CASE queue = <<"stop">>
  <2>1. Append(queue, "move") = <<"stop", "move">>
    BY <1>3, AppendToOne, "move" \in Requests, "stop" \in Requests DEF Requests
  <2> QED
    BY <1>3, <2>1 DEF Queues, MoveWaits, StopWaits
<1>4. CASE queue = <<"move", "stop">> \/ queue = <<"stop", "move">>
  BY <1>4 DEF MoveWaits, StopWaits
<1> QED
  BY <1>1, <1>2, <1>3, <1>4 DEF Queues

(***************************************************************************)
(* The stop for the reset                                                  *)
(***************************************************************************)

QuietHandlers == {"holding", "releasing", "clearing", "restarting"}

\* From the acceptance of the stop to the restart a motor that moves, and a
\* move that waits, came late.
MovesCameLate == handler \in QuietHandlers /\ (seeking \/ MoveWaits) => late

ResetInv ==
    /\ queue \in Queues
    /\ StopWaits => handler = "callback"
    /\ queue = <<"stop", "move">> => late
    /\ MovesCameLate

LEMMA ResetInvStep == ButtonInv /\ ResetInv /\ [Next]_vars => ResetInv'
<1> SUFFICES ASSUME ButtonInv, ResetInv, [Next]_vars PROVE ResetInv'
  OBVIOUS
<1> USE DEF ResetInv, MovesCameLate, QuietHandlers
<1>1. UNCHANGED queue => (MoveWaits' <=> MoveWaits) /\ (StopWaits' <=> StopWaits)
  BY DEF MoveWaits, StopWaits
<1>2. CASE UNCHANGED <<handler, seeking, queue, late>>
  BY <1>1, <1>2
<1>3. CASE SubmitMove
  <2>1. queue' = Append(queue, "move") /\ ~MoveWaits /\ UNCHANGED <<handler, seeking>>
    BY <1>3, Waiting DEF SubmitMove, buttonVars
  <2>2. (late => late') /\ (handler \in QuietHandlers => late') /\ (StopWaits => late')
    BY <1>3, Waiting DEF SubmitMove
  <2>3. queue' = <<"stop", "move">> => StopWaits'
    BY DEF StopWaits
  <2> QED
    BY <2>1, <2>2, <2>3, Added
<1>4. CASE ServeMove
  <2>1. Served("move") /\ UNCHANGED <<handler, late>>
    BY <1>4 DEF ServeMove, buttonVars
  <2>2. StopWaits' => StopWaits
    BY <2>1, Taken DEF StopWaits
  <2>3. queue' \in Queues /\ queue' # <<"stop", "move">> /\ MoveWaits /\ ~MoveWaits'
    BY <2>1, Taken DEF Queues
  <2> QED
    BY <2>1, <2>2, <2>3
<1>5. CASE ServeStop
  <2>1. Served("stop") /\ ~seeking' /\ late' = late
    BY <1>5 DEF ServeStop
  <2>2. queue' \in Queues /\ queue' # <<"stop", "move">> /\ ~StopWaits'
        /\ (MoveWaits' => late)
    BY <2>1, Taken DEF Queues
  <2> QED
    BY <2>1, <2>2
<1>6. CASE MotorArrives
  BY <1>1, <1>6 DEF MotorArrives, buttonVars
<1>7. CASE BeginReset
  <2>1. handler' = "callback" /\ UNCHANGED <<seeking, queue, late>> /\ handler = "watching"
    BY <1>7 DEF BeginReset, LongPressStart, ButtonInv, FlagsFollowThePress
  <2> QED
    BY <1>1, <2>1
<1>8. CASE StopForReset
  <2>1. queue' = Append(queue, "stop") /\ ~StopWaits /\ UNCHANGED <<handler, seeking>>
        /\ handler = "callback"
    BY <1>8, Waiting DEF StopForReset, buttonVars
  <2> QED
    BY <2>1, Added
<1>9. CASE Release \/ ResetFails
  <2>1. UNCHANGED <<seeking, queue>> /\ handler # "callback"
    BY <1>9 DEF Release, ResetFails, Released, LongPressUp, ClearSucceeds, ClearFails,
                FailureCallbackReturns
  <2>2. (handler' \in QuietHandlers => handler \in QuietHandlers)
        /\ (handler' \in QuietHandlers => (late => late'))
    BY <1>9 DEF Release, ResetFails, Released, LongPressUp, ClearSucceeds, ClearFails,
                FailureCallbackReturns
  <2>3. queue = <<"stop", "move">> => StopWaits
    BY DEF StopWaits
  <2> QED
    BY <1>1, <2>1, <2>2, <2>3
<1>10. CASE Restart
  <2>1. handler' = "watching" /\ queue' = <<>>
    BY <1>10 DEF Restart, ButtonRestarts
  <2> QED
    BY <2>1 DEF Queues, StopWaits
<1> QED
  BY <1>2, <1>3, <1>4, <1>5, <1>6, <1>7, <1>8, <1>9, <1>10
     DEF Next, vars, unitVars, buttonVars, Main, BootStep, LedCall, ShowState, ShowLink,
         LinkChanges, Serve, ServeReading, Press, Toggle, Reset

LEMMA ResetAlways == Spec => [](ButtonInv /\ ResetInv)
<1>1. Init => ButtonInv /\ ResetInv
  <2> SUFFICES ASSUME Init PROVE ButtonInv /\ ResetInv
    OBVIOUS
  <2>1. ButtonInv
    BY DEF Init, ButtonInit, ButtonInv, ButtonTypeOK, FlagsFollowThePress, Handlers
  <2>2. handler = "watching" /\ queue = <<>>
    BY DEF Init, ButtonInit
  <2> QED
    BY <2>1, <2>2 DEF ResetInv, Queues, StopWaits, MovesCameLate, QuietHandlers
<1>2. ButtonInv /\ ResetInv /\ [Next]_vars => (ButtonInv /\ ResetInv)'
  BY ButtonAlways, ResetInvStep
<1> QED
  BY <1>1, <1>2, PTL DEF Spec

\* However the moves of the MQTT task and the stop of the button task come to
\* stand in the queue, the unit restarts at rest unless a move came after the
\* stop.
THEOREM StopHolds == Spec => []RestartsAtRest
<1>1. ResetInv => RestartsAtRest
  BY DEF ResetInv, MovesCameLate, QuietHandlers, RestartsAtRest
<1> QED
  BY <1>1, ResetAlways, PTL

(***************************************************************************)
(* Types                                                                   *)
(***************************************************************************)

LedTypes ==
    /\ rounds \in 0..GreenRounds + 1
    /\ layers \in [LayerNames -> Signals \cup {Off}]
    /\ calls \in Seq(Calls)

UnitTypes ==
    /\ boot \in Boots /\ link \in Links /\ main \in {"state", "link"}
    /\ mqtt \in BOOLEAN /\ late \in BOOLEAN /\ abandoned \in BOOLEAN
    /\ status \in Statuses
    /\ seeking \in BOOLEAN

\* What is made of a list of calls: one of them, and the rest stays.
LEMMA Made ==
    ASSUME NEW S, NEW list \in Seq(S), list # <<>>, Make(list)
    PROVE  calls' \in Seq(S) /\ \E call \in S : layers' = Called(layers, call)
BY DEF Make

LEMMA CallsTyped ==
    /\ \A s \in Statuses : MotorCalls(s) \in Seq(Calls) /\ MotorCalls(s) # <<>>
    /\ \A p \in BOOLEAN, r \in Nat :
           ConnectivityCalls(p, r) \in Seq(Calls) /\ ConnectivityCalls(p, r) # <<>>
    /\ <<Set("fault", "red_blink")>> \in Seq(Calls)
<1>1. ASSUME NEW s \in Statuses PROVE MotorCalls(s) \in Seq(Calls) /\ MotorCalls(s) # <<>>
  <2>1. s.main \in {"unknown", "idle", "stopping", "fault", "opening", "closing"}
    BY DirectionsAssumption DEF Statuses
  <2>2. Set("fault", "red_blink") \in Calls /\ Clear("device") \in Calls
        /\ Clear("fault") \in Calls
    BY DEF Set, Clear, Calls, LayerNames, Signals
  <2>3. s.main # "fault" => DeviceCall(s.main) \in Calls
    BY <2>1 DEF DeviceCall, Set, Clear, Calls, LayerNames, Signals
  <2> QED
    BY <2>2, <2>3 DEF MotorCalls, Faulty
<1>2. ASSUME NEW p \in BOOLEAN, NEW r \in Nat
      PROVE  ConnectivityCalls(p, r) \in Seq(Calls) /\ ConnectivityCalls(p, r) # <<>>
  BY DEF ConnectivityCalls, Set, Clear, Calls, LayerNames, Signals
<1>3. <<Set("fault", "red_blink")>> \in Seq(Calls)
  BY DEF Set, Calls, LayerNames, Signals
<1> QED
  BY <1>1, <1>2, <1>3

LEMMA LedTypesStep == LedTypes /\ UnitTypes /\ [Next]_vars => LedTypes'
<1> SUFFICES ASSUME LedTypes, UnitTypes, [Next]_vars PROVE LedTypes'
  OBVIOUS
<1>1. CASE UNCHANGED <<rounds, layers, calls>>
  BY <1>1 DEF LedTypes
<1>2. ASSUME NEW call \in Calls, layers' = Called(layers, call)
      PROVE  layers' \in [LayerNames -> Signals \cup {Off}]
  BY <1>2 DEF LedTypes, Called, Calls
<1>3. ASSUME NEW list \in Seq(Calls), list # <<>>, Make(list)
      PROVE  calls' \in Seq(Calls) /\ layers' \in [LayerNames -> Signals \cup {Off}]
  BY <1>2, <1>3, Made
<1>4. CASE LedCall
  BY <1>3, <1>4 DEF LedCall, LedTypes
<1>5. CASE BootStep
  <2>1. rounds' = rounds
    BY <1>5 DEF BootStep
  <2>2. CASE UNCHANGED <<layers, calls>>
    BY <2>1, <2>2 DEF LedTypes
  <2>3. CASE Make(<<Set("fault", "red_blink")>>)
    BY <1>3, <2>1, <2>3, CallsTyped DEF LedTypes
  <2> QED
    BY <1>5, <2>2, <2>3 DEF BootStep
<1>6. CASE ShowState \/ ShowLink
  <2>1. CASE ShowState
    BY <1>3, <2>1, CallsTyped DEF ShowState, LedTypes, UnitTypes
  <2>2. CASE ShowLink
    <3>1. rounds' = SeenConnected(rounds, link.ready /\ link.connected)
          /\ Make(ConnectivityCalls(link.active, rounds'))
      BY <2>2 DEF ShowLink
    <3>2. rounds' \in 0..GreenRounds + 1
      BY <3>1, GreenRoundsAssumption DEF SeenConnected, LedTypes
    <3>3. link.active \in BOOLEAN /\ rounds' \in Nat
      BY <3>2, GreenRoundsAssumption DEF UnitTypes, Links
    <3> QED
      BY <1>3, <3>1, <3>2, <3>3, CallsTyped DEF LedTypes
  <2> QED
    BY <1>6, <2>1, <2>2
<1>7. CASE BeginReset \/ ResetFails
  <2>1. Set("fault", "red_blink") \in Calls /\ Set("resetting", "magenta_fast") \in Calls
    BY DEF Set, Calls, LayerNames, Signals
  <2>2. UNCHANGED <<rounds, calls>>
    BY <1>7 DEF BeginReset, ResetFails
  <2>3. layers' = layers \/ \E call \in Calls : layers' = Called(layers, call)
    BY <1>7, <2>1 DEF BeginReset, ResetFails
  <2> QED
    BY <1>2, <2>2, <2>3 DEF LedTypes
<1>8. CASE Restart
  <2>1. 0 \in 0..GreenRounds + 1
    BY GreenRoundsAssumption
  <2> QED
    BY <1>8, <2>1 DEF Restart, LedTypes, Dark
<1> QED
  BY <1>1, <1>3, <1>4, <1>5, <1>6, <1>7, <1>8
     DEF Next, vars, unitVars, Main, LinkChanges, SubmitMove, Serve, ServeMove, ServeStop,
         ServeReading, MotorArrives, Press, Reset, StopForReset, Release

LEMMA UnitTypesStep == UnitTypes /\ [Next]_vars => UnitTypes'
<1> SUFFICES ASSUME UnitTypes, [Next]_vars PROVE UnitTypes'
  OBVIOUS
<1> USE DEF UnitTypes
<1>1. CASE UNCHANGED <<boot, link, mqtt, status, seeking, main, late>>
           /\ abandoned' \in BOOLEAN
  BY <1>1
<1>2. CASE BootStep
  BY <1>2 DEF BootStep, NextBoot, Boots
<1>3. CASE ShowState
  <2>1. mqtt' \in BOOLEAN
    BY <1>3 DEF ShowState
  <2> QED
    BY <1>3, <2>1 DEF ShowState
<1>4. CASE ShowLink
  BY <1>4 DEF ShowLink
<1>5. CASE LinkChanges
  <2>1. link' \in Links
    <3>1. [link EXCEPT !.active = FALSE] \in Links
          /\ [link EXCEPT !.ready = ~@] \in Links
          /\ [link EXCEPT !.connected = ~@] \in Links
      BY DEF Links
    <3> QED
      BY <1>5, <3>1 DEF LinkChanges
  <2> QED
    BY <1>5, <2>1 DEF LinkChanges
<1>6. CASE SubmitMove
  <2>1. late' \in BOOLEAN
    BY <1>6 DEF SubmitMove
  <2> QED
    BY <1>6, <2>1 DEF SubmitMove
<1>7. CASE ServeMove \/ ServeStop \/ MotorArrives
  <2>1. seeking' \in BOOLEAN
    BY <1>7 DEF ServeMove, ServeStop, MotorArrives
  <2>2. status' \in Statuses
    <3>1. ASSUME NEW m \in Directions \cup {"idle", "stopping"},
                 status' = [status EXCEPT !.main = m]
          PROVE  status' \in Statuses
      BY <3>1 DEF Statuses
    <3>2. CASE status' = [main |-> "fault", errors |-> TRUE]
      BY <3>2 DEF Statuses
    <3>3. CASE status' = status
      BY <3>3
    <3> QED
      BY <1>7, <3>1, <3>2, <3>3 DEF ServeMove, ServeStop, MotorArrives
  <2>3. UNCHANGED <<boot, link, mqtt, main, late, abandoned>>
    BY <1>7 DEF ServeMove, ServeStop, MotorArrives
  <2> QED
    BY <2>1, <2>2, <2>3
<1>8. CASE ServeReading
  <2>1. status' \in Statuses
    <3>1. CASE status' = [main |-> "unknown", errors |-> status.errors]
      BY <3>1 DEF Statuses
    <3>2. ASSUME NEW m \in {status.main, "idle"}, NEW e \in {FALSE, status.errors},
                 status' = [main |-> m, errors |-> e]
          PROVE  status' \in Statuses
      BY <3>2 DEF Statuses
    <3> QED
      BY <1>8, <3>1, <3>2 DEF ServeReading
  <2> QED
    BY <1>8, <2>1 DEF ServeReading
<1>9. CASE StopForReset \/ Release
  <2>1. late' \in BOOLEAN /\ abandoned' \in BOOLEAN
    BY <1>9 DEF StopForReset, Release
  <2> QED
    BY <1>9, <2>1 DEF StopForReset, Release
<1>10. CASE Restart
  <2>1. {mqtt', seeking', late', abandoned'} \subseteq BOOLEAN
    BY <1>10 DEF Restart
  <2>2. status' \in Statuses
    BY <1>10 DEF Restart, Unknown, Statuses
  <2> QED
    BY <1>10, <2>1, <2>2 DEF Restart, Boots, Links, Unconnected
<1> QED
  BY <1>1, <1>2, <1>3, <1>4, <1>5, <1>6, <1>7, <1>8, <1>9, <1>10
     DEF Next, vars, unitVars, Main, LedCall, Serve, Press, Reset, BeginReset, ResetFails

LEMMA TypesInit == Init => LedTypes /\ UnitTypes
<1> SUFFICES ASSUME Init PROVE LedTypes /\ UnitTypes
  OBVIOUS
<1>1. LedTypes
  <2>1. 0 \in 0..GreenRounds + 1
    BY GreenRoundsAssumption
  <2> QED
    BY <2>1 DEF Init, LedTypes, Dark
<1>2. mqtt \in BOOLEAN /\ seeking \in BOOLEAN /\ late \in BOOLEAN /\ abandoned \in BOOLEAN
  BY DEF Init
<1>3. status \in Statuses
  BY DEF Init, Unknown, Statuses
<1> QED
  <2>1. link \in Links
    <3>1. PICK a \in BOOLEAN : link = Unconnected(a)
      BY DEF Init
    <3> QED
      BY <3>1 DEF Unconnected, Links
  <2> QED
    BY <1>1, <1>2, <1>3, <2>1 DEF Init, UnitTypes, Boots

\* For every set of directions and every length of the green signal the
\* variables keep their types, the calls of the LED included.
THEOREM TypeCorrect == Spec => []TypeOK
<1>1. Init => LedTypes /\ UnitTypes
  BY TypesInit
<1>2. LedTypes /\ UnitTypes /\ [Next]_vars => (LedTypes /\ UnitTypes)'
  BY LedTypesStep, UnitTypesStep
<1>3. ButtonInv /\ ResetInv /\ LedTypes /\ UnitTypes => TypeOK
  BY Waiting DEF ButtonInv, ResetInv, LedTypes, UnitTypes, TypeOK
<1> QED
  BY <1>1, <1>2, <1>3, ResetAlways, PTL DEF Spec

(***************************************************************************)
(* The reset on the LED                                                    *)
(***************************************************************************)

\* The calls of app_main leave the layer of the reset alone, and put no signal but
\* the red one on the layer above it.
MainCalls ==
    {call \in Calls : /\ call.layer # "resetting"
                      /\ call.layer = "fault" => call.signal \in {Off, "red_blink"}}

LEMMA MainCallsMade ==
    /\ \A s \in Statuses : MotorCalls(s) \in Seq(MainCalls) /\ MotorCalls(s) # <<>>
    /\ \A p \in BOOLEAN, r \in Nat :
           ConnectivityCalls(p, r) \in Seq(MainCalls) /\ ConnectivityCalls(p, r) # <<>>
    /\ <<Set("fault", "red_blink")>> \in Seq(MainCalls)
<1>1. ASSUME NEW s \in Statuses
      PROVE  MotorCalls(s) \in Seq(MainCalls) /\ MotorCalls(s) # <<>>
  <2>1. s.main \in {"unknown", "idle", "stopping", "fault", "opening", "closing"}
    BY DirectionsAssumption DEF Statuses
  <2>2. Set("fault", "red_blink") \in MainCalls /\ Clear("device") \in MainCalls
        /\ Clear("fault") \in MainCalls
    BY DEF MainCalls, Set, Clear, Calls, LayerNames, Signals
  <2>3. s.main # "fault" => DeviceCall(s.main) \in MainCalls
    BY <2>1 DEF DeviceCall, MainCalls, Set, Clear, Calls, LayerNames, Signals
  <2> QED  BY <2>2, <2>3 DEF MotorCalls, Faulty
<1>2. ASSUME NEW p \in BOOLEAN, NEW r \in Nat
      PROVE  ConnectivityCalls(p, r) \in Seq(MainCalls) /\ ConnectivityCalls(p, r) # <<>>
  <2>1. {Set("provisioning", "blue_breathe"), Clear("provisioning"),
         Set("network", "cyan_blink"), Set("network", "green_solid"), Clear("network")}
           \subseteq MainCalls
    BY DEF MainCalls, Set, Clear, Calls, LayerNames, Signals
  <2> QED  BY <2>1 DEF ConnectivityCalls
<1>3. <<Set("fault", "red_blink")>> \in Seq(MainCalls)
  BY DEF MainCalls, Set, Calls, LayerNames, Signals
<1> QED  BY <1>1, <1>2, <1>3

LayerTypes(shown) == shown \in [LayerNames -> Signals \cup {Off}]

\* What the highest layer but one shows unless the highest is red.
LEMMA ShownOnTop ==
    ASSUME NEW shown, LayerTypes(shown), shown["resetting"] = "magenta_fast",
           shown["fault"] \in {Off, "red_blink"}
    PROVE  Shown(shown) \in {"magenta_fast", "red_blink"}
<1> DEFINE active == {i \in DOMAIN Layers : shown[Layers[i]] # Off}
           top == CHOOSE x \in active : \A y \in active : x >= y
<1>1. DOMAIN Layers = 1..5 /\ Layers[4] = "resetting" /\ Layers[5] = "fault"
  BY DEF Layers
<1>2. 4 \in active /\ active \subseteq 1..5
  BY <1>1 DEF Off
<1>3. 5 \in active <=> shown["fault"] # Off
  BY <1>1
<1> HIDE DEF active
<1>4. \E x \in active : \A y \in active : x >= y
  <2>1. CASE 5 \in active
    BY <1>2, <2>1
  <2>2. CASE 5 \notin active
    BY <1>2, <2>2
  <2> QED  BY <2>1, <2>2
<1>5. top \in active /\ \A y \in active : top >= y
  BY <1>4
<1>6. Shown(shown) = shown[Layers[top]]
  BY <1>2 DEF Shown, active, Max
<1> HIDE DEF top
<1>7. CASE 5 \in active
  <2>1. top = 5
    BY <1>2, <1>5, <1>7
  <2> QED  BY <1>1, <1>3, <1>6, <1>7, <2>1
<1>8. CASE 5 \notin active
  <2>1. top = 4
    <3>1. top \in 1..5 /\ top >= 4 /\ top # 5
      BY <1>2, <1>5, <1>8
    <3> QED  BY <3>1
  <2> QED  BY <1>1, <1>6, <2>1
<1> QED  BY <1>7, <1>8

ShownInv ==
    /\ handler # "watching" => layers["resetting"] = "magenta_fast"
    /\ layers["fault"] \in {Off, "red_blink"}
    /\ calls \in Seq(MainCalls)

LEMMA ShownStep ==
    ASSUME ButtonInv, LedTypes, UnitTypes, LedTypes', ShownInv, [Next]_vars
    PROVE  ShownInv'
<1> USE DEF ShownInv
<1>1. layers \in [LayerNames -> Signals \cup {Off}]
      /\ "resetting" \in LayerNames /\ "fault" \in LayerNames
  BY DEF LedTypes, LayerNames
<1>2. CASE UNCHANGED <<layers, calls>> /\ (handler = "watching" => handler' = "watching")
  BY <1>2
<1>3. ASSUME NEW list \in Seq(MainCalls), list # <<>>, Make(list), UNCHANGED handler
      PROVE  ShownInv'
  <2>1. calls' \in Seq(MainCalls) /\ \E call \in MainCalls : layers' = Called(layers, call)
    BY <1>3, Made
  <2>2. PICK call \in MainCalls : layers' = [layers EXCEPT ![call.layer] = call.signal]
    BY <2>1 DEF Called
  <2> QED  BY <1>1, <1>3, <2>1, <2>2 DEF MainCalls
<1>4. CASE LedCall
  BY <1>3, <1>4 DEF LedCall, buttonVars
<1>5. CASE BootStep
  <2>1. CASE UNCHANGED <<layers, calls>>
    BY <1>2, <1>5, <2>1 DEF BootStep, buttonVars
  <2>2. CASE Make(<<Set("fault", "red_blink")>>)
    BY <1>3, <1>5, <2>2, MainCallsMade DEF BootStep, buttonVars
  <2> QED  BY <1>5, <2>1, <2>2 DEF BootStep
<1>6. CASE ShowState
  BY <1>3, <1>6, MainCallsMade DEF ShowState, buttonVars, UnitTypes
<1>7. CASE ShowLink
  <2>1. rounds' \in Nat /\ link.active \in BOOLEAN
    BY GreenRoundsAssumption DEF LedTypes, UnitTypes, Links
  <2> QED  BY <1>3, <1>7, <2>1, MainCallsMade DEF ShowLink, buttonVars
<1>8. CASE BeginReset
  <2>1. handler' = "callback" /\ calls' = calls
    BY <1>8 DEF BeginReset, LongPressStart, ButtonInv, FlagsFollowThePress
  <2>2. layers' = [layers EXCEPT !["resetting"] = "magenta_fast"]
    BY <1>8, <2>1 DEF BeginReset, Called, Set
  <2> QED  BY <1>1, <2>1, <2>2
<1>9. CASE ResetFails
  <2>1. handler = "clearing" /\ calls' = calls
    BY <1>9 DEF ResetFails, ClearFails
  <2>2. layers' = [layers EXCEPT !["fault"] = "red_blink"]
    BY <1>9 DEF ResetFails, Called, Set
  <2> QED  BY <1>1, <2>1, <2>2
<1>10. CASE Restart
  <2>1. handler' = "watching" /\ layers' = Dark /\ calls' = <<>>
    BY <1>10 DEF Restart, ButtonRestarts
  <2> QED  BY <1>1, <2>1 DEF Dark
<1>11. CASE ServeStop
  <2>1. UNCHANGED <<layers, calls>> /\ handler = "callback"
    BY <1>11 DEF ServeStop, CallbackReturns
  <2> QED  BY <1>2, <2>1
<1>12. CASE Release
  <2>1. UNCHANGED <<layers, calls>> /\ handler # "watching"
    BY <1>12 DEF Release, Released, LongPressUp, ClearSucceeds, FailureCallbackReturns
  <2> QED  BY <1>2, <2>1
<1> QED
  BY <1>2, <1>4, <1>5, <1>6, <1>7, <1>8, <1>9, <1>10, <1>11, <1>12
     DEF Next, vars, unitVars, buttonVars, Main, LinkChanges, SubmitMove, Serve, ServeMove,
         ServeReading, MotorArrives, Press, Toggle, Reset, StopForReset

\* From a long press to the restart the LED shows the reset or a fault, whatever
\* the main loop calls in between.
THEOREM ResetStaysShown == Spec => []ResetIsShown
<1>1. Init => LedTypes /\ UnitTypes /\ ShownInv
  <2> SUFFICES ASSUME Init PROVE LedTypes /\ UnitTypes /\ ShownInv
    OBVIOUS
  <2>1. LedTypes /\ UnitTypes
    BY TypesInit
  <2>2. ShownInv
    BY DEF Init, ButtonInit, Dark, LayerNames, ShownInv
  <2> QED  BY <2>1, <2>2
<1>2. ButtonInv /\ LedTypes /\ UnitTypes /\ ShownInv /\ [Next]_vars
         => (LedTypes /\ UnitTypes /\ ShownInv)'
  BY LedTypesStep, UnitTypesStep, ShownStep
<1>3. LedTypes /\ ShownInv => ResetIsShown
  BY ShownOnTop DEF LedTypes, LayerTypes, ShownInv, ResetIsShown
<1> QED
  BY <1>1, <1>2, <1>3, ResetAlways, PTL DEF Spec
=============================================================================
