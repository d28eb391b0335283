\* One direction of motion, a green signal of one round.  A unit whose start
\* failed does nothing more: no deadlock check.
CONSTANTS
    Directions = {"opening"}
    GreenRounds = 1
SPECIFICATION Spec
INVARIANT MagentaMeansAccepted
CHECK_DEADLOCK FALSE
