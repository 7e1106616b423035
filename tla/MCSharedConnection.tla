------------------------- MODULE MCSharedConnection -------------------------
(***************************************************************************)
(* Instances of SharedConnection for TLC.  Writes are interchangeable.     *)
(***************************************************************************)
EXTENDS SharedConnection, TLC

MCSymmetry == Permutations(Writes)

=============================================================================
