---------------------------- MODULE DeviceSdkMC ----------------------------
(***************************************************************************)
(* One motor, at home in one of at most two scopes.                        *)
(***************************************************************************)
EXTENDS DeviceSdk, TLC

CONSTANTS motor, account, stranger, c1, c2

OneHome == motor :> account
ForMotor == [c \in Commands |-> motor]
=============================================================================
