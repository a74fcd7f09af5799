-------------------------- MODULE MCDeviceRequests --------------------------
(***************************************************************************)
(* Instances of DeviceRequests for TLC.                                    *)
(***************************************************************************)
EXTENDS DeviceRequests, TLC

Symmetry == Permutations(Nonces) \cup Permutations(Pods) \cup Permutations(Handlers)

=============================================================================
