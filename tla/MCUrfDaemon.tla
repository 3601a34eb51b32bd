----------------------------- MODULE MCUrfDaemon -----------------------------
(* Instances of UrfDaemon for TLC.                                         *)
EXTENDS UrfDaemon, TLC

\* The clients are interchangeable.
ClientSymmetry == Permutations(Clients)
=============================================================================
