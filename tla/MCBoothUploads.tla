--------------------------- MODULE MCBoothUploads ---------------------------
(***************************************************************************)
(* Instances of BoothUploads for TLC.                                      *)
(***************************************************************************)
EXTENDS BoothUploads

=============================================================================
