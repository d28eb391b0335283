--------------------------- MODULE MotorServiceMC ---------------------------
(***************************************************************************)
(* Instances of MotorService for TLC.                                      *)
(***************************************************************************)
EXTENDS MotorService, TLC

CONSTANTS mqtt, button, sampler, owner, id1, id2
=============================================================================
