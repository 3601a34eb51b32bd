--------------------------- MODULE MCUrfKillswitch ---------------------------
(* Instances of UrfKillswitch for TLC.                                     *)
EXTENDS UrfKillswitch

\* The tasks are interchangeable.
TaskSymmetry == Permutations(TaskIds)
=============================================================================
