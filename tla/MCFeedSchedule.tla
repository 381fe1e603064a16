--------------------------- MODULE MCFeedSchedule ---------------------------
(* The storage schedule: one feed that moves between two groups. *)
EXTENDS FeedSchedule, TLC

Symmetry == Permutations(Groups)

=============================================================================
