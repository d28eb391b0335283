----------------------------- MODULE LatestValue -----------------------------
(***************************************************************************)
(* What the sensor unit promises its subscribers: values are numbered as   *)
(* they are taken, any may be skipped, and none is shown after a newer one *)
(* until the unit starts afresh and counts from the beginning.             *)
(***************************************************************************)
EXTENDS Integers

VARIABLES
    newest,  \* the number of the last value taken
    shown    \* the number of the last value shown

Init == newest = 0 /\ shown = 0

Take == newest' = newest + 1 /\ UNCHANGED shown

Show == shown' \in shown..newest /\ UNCHANGED newest

Restart == newest' = 0 /\ shown' = 0

Next == Take \/ Show \/ Restart

Spec == Init /\ [][Next]_<<newest, shown>>
=============================================================================
