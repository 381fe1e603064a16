--------------------------- MODULE MCSyncExchange ---------------------------
(* Two devices that both write, and the two calls of each, are alike. *)
EXTENDS SyncCoordinator, TLC

Symmetry == Permutations(Devices) \cup Permutations(Calls)

=============================================================================
