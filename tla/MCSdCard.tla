------------------------------- MODULE MCSdCard -------------------------------
(***************************************************************************)
(* A small instance of SdCard: three contents, so that a save can follow   *)
(* one that was cut short after another.                                   *)
(***************************************************************************)
EXTENDS SdCard, TLC

MCSymmetry == Permutations(Contents)

=============================================================================
