--------------------------- MODULE PositionMapping ---------------------------
(***************************************************************************)
(* The position mapping checked against its reference definition: TLC      *)
(* walks through every travel up to MaxTravel and, for each, through every *)
(* canonical position and every step count.                                *)
(***************************************************************************)
EXTENDS DeviceCommon

CONSTANT MaxTravel  \* bound on the travel, in steps

ASSUME MaxTravelAssumption == MaxTravel \in Nat \ {0}

VARIABLES
    travel,    \* config_.max_steps, with config_.min_steps = 0
    position,  \* a canonical position given to position100thsToSteps
    steps      \* a step count given to stepsToPosition100ths

vars == <<travel, position, steps>>

Init == travel = 1 /\ position = 0 /\ steps = 0

NextPosition ==
    /\ ValidPosition(position + 1)
    /\ position' = position + 1
    /\ UNCHANGED <<travel, steps>>

NextSteps ==
    /\ StepsInRange(steps + 1, 0, travel)
    /\ steps' = steps + 1
    /\ UNCHANGED <<travel, position>>

NextTravel ==
    /\ travel < MaxTravel
    /\ travel' = travel + 1
    /\ position' = 0
    /\ steps' = 0

Next == NextPosition \/ NextSteps \/ NextTravel

Spec == Init /\ [][Next]_vars

(***************************************************************************)
(* Properties                                                              *)
(***************************************************************************)

Distance(a, b) == IF a < b THEN b - a ELSE a - b

\* position100thsToSteps picks a step count no other step count is closer to:
\* steps / travel against position / PositionMax, cross-multiplied.
NearestSteps ==
    LET chosen == PositionToSteps(position, 0, travel) IN
    /\ chosen \in 0..travel
    /\ \A other \in 0..travel :
          Distance(PositionMax * chosen, travel * position)
              <= Distance(PositionMax * other, travel * position)

\* stepsToPosition100ths picks a canonical position no other is closer to.
NearestPosition ==
    LET chosen == StepsToPosition(steps, 0, travel) IN
    /\ ValidPosition(chosen)
    /\ \A other \in 0..PositionMax :
          Distance(travel * chosen, PositionMax * steps)
              <= Distance(travel * other, PositionMax * steps)

\* Neither direction of the mapping is off by one anywhere, for any travel.
Nearest == NearestSteps /\ NearestPosition

\* The position reported when the motor stands at a target's step count is
\* the target itself, provided the travel has at least PositionMax steps: the
\* condition under which MotorService can recognise that it has arrived.
TargetsRecognised ==
    travel >= PositionMax =>
        StepsToPosition(PositionToSteps(position, 0, travel), 0, travel) = position

\* Commanding the reported position does not move the motor, provided the
\* travel has at most PositionMax steps.
HoldsStill ==
    travel <= PositionMax =>
        PositionToSteps(StepsToPosition(steps, 0, travel), 0, travel) = steps

\* Each round trip through both roundings is exact on the side of the travel
\* where it can be: the motor arrives, and stays where it is told it stands.
RoundTrips == TargetsRecognised /\ HoldsStill
=============================================================================
