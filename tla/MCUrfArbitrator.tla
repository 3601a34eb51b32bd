---------------------------- MODULE MCUrfArbitrator ----------------------------
(* Devices of one type; the configurations say which are platform devices. *)
EXTENDS UrfArbitrator

MCTypeOf == [d \in Devices |-> "WLAN"]
=============================================================================
