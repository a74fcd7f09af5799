-------------------------- MODULE MCPhotoLifecycle --------------------------
(***************************************************************************)
(* Instances of PhotoLifecycle for TLC.                                    *)
(***************************************************************************)
EXTENDS PhotoLifecycle, TLC

(* Photos, workers and requests are told apart by nothing but their names.  *)
(* Liveness runs do not use symmetry.                                       *)
Symmetry ==
  Permutations(Photos) \cup Permutations(Workers \ Ephemeral)
    \cup Permutations(Requests)

=============================================================================
