---------------------------- MODULE StepperMotor ----------------------------
(***************************************************************************)
(* The actuator below MotorService: MotorController (firmware/main/        *)
(* components/motor) and, under it, the FastAccelStepper library, which is *)
(* not part of the repository and is modelled from how MotorController     *)
(* uses it: it accepts or rejects an absolute target, counts pulses, and   *)
(* stops asynchronously, decelerating.                                     *)
(***************************************************************************)
EXTENDS Integers

CONSTANTS
    MaxSteps,  \* CONFIG_MOTOR_FULL_TRAVEL_STEPS; min_steps is always 0
    Overrun    \* how far past either end a decelerating motor may coast

ASSUME MaxStepsAssumption == MaxSteps \in Nat \ {0}
ASSUME OverrunAssumption == Overrun \in Nat

Reachable == -Overrun..MaxSteps+Overrun

Motors == [position : Reachable,   \* getCurrentPosition()
           heading : {-1, 0, 1},   \* the direction of the pulses
           seeking : BOOLEAN,      \* moveTo was the last call, not stopMove
           goal : Int]             \* the target of the last moveTo

\* MotorFeedbackInput::begin calls setPosition(min_steps): the boot position
\* is the origin, whatever it is mechanically.
MotorAtOrigin == [position |-> 0, heading |-> 0, seeking |-> FALSE, goal |-> 0]

\* MotorController::moveTo when the library answers MOVE_OK; otherwise the
\* motor keeps what it was doing.
MoveTo(motor, steps) == [motor EXCEPT !.seeking = TRUE, !.goal = steps]

StopMove(motor) == [motor EXCEPT !.seeking = FALSE]

\* The direction the motor has to take, 0 when it has to come to rest.
Wanted(motor) ==
    IF ~motor.seeking \/ motor.goal = motor.position THEN 0
    ELSE IF motor.goal > motor.position THEN 1 ELSE -1

\* The end of a deceleration, or the start from rest.
Turned(motor) == [motor EXCEPT !.heading = Wanted(motor)]

\* A pulse is due: towards the goal, or of a deceleration that a command made
\* necessary on the way.
Pulsing(motor) == motor.heading # 0 /\ motor.position + motor.heading \in Reachable

Arriving(motor) ==
    motor.heading = Wanted(motor) /\ motor.position + motor.heading = motor.goal

\* Towards the goal the library brakes in time: it comes to rest on the goal.
Pulsed(motor) ==
    [motor EXCEPT !.position = @ + motor.heading,
                  !.heading = IF Arriving(motor) THEN 0 ELSE @]
=============================================================================
