--------------------------- MODULE MCBoothRuntime ---------------------------
(***************************************************************************)
(* Instances of BoothRuntime for TLC.                                      *)
(***************************************************************************)
EXTENDS BoothRuntime, TLC

=============================================================================
