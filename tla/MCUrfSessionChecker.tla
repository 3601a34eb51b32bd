------------------------- MODULE MCUrfSessionChecker -------------------------
(* Two clients, of two sessions.                                           *)
EXTENDS UrfSessionChecker, TLC

CONSTANTS a, b, c1, c2

MCSessionOf == (c1 :> a) @@ (c2 :> b)
=============================================================================
