------------------------ MODULE CommandDeduplicatorMC ------------------------
(***************************************************************************)
(* Instances of CommandDeduplicator for TLC.                               *)
(***************************************************************************)
EXTENDS CommandDeduplicator, TLC

CONSTANTS id1, id2, id3, id4

FourIds == {id1, id2, id3, id4}
IdSymmetry == Permutations(Ids)
=============================================================================
