---------------------------- MODULE UrfFlightMode ----------------------------
(***************************************************************************)
(* What the flight mode of urfkilld promises to its clients: one request   *)
(* at a time, flight mode changes and is announced when a request for it   *)
(* succeeds, a request that fails leaves it as it was, and every request   *)
(* ends.  A daemon that goes away takes the request in progress with it:   *)
(* what it was for may have come true, and that may have been announced,   *)
(* but nothing else.                                                       *)
(***************************************************************************)
VARIABLES
    flight_mode,       \* what IsFlightMode answers
    announced,         \* the last FlightModeChanged
    requested,         \* the value the request in progress asks for, if any
    serving            \* the daemon runs and has adapters

vars == <<flight_mode, announced, requested, serving>>

Init ==
    /\ flight_mode = FALSE
    /\ announced = FALSE
    /\ requested = {}
    /\ serving = FALSE

Request(block) ==
    /\ serving
    /\ requested = {}
    /\ block # flight_mode
    /\ requested' = {block}
    /\ UNCHANGED <<flight_mode, announced, serving>>

Succeed ==
    /\ requested # {}
    /\ requested' = {}
    /\ flight_mode' \in requested
    /\ announced' = flight_mode'
    /\ UNCHANGED serving

\* An adapter refused.
Fail ==
    /\ requested # {}
    /\ requested' = {}
    /\ UNCHANGED <<flight_mode, announced, serving>>

\* The daemon was killed, or aborted.
Lost ==
    /\ requested # {}
    /\ requested' = {}
    /\ serving' = FALSE
    /\ \/ UNCHANGED <<flight_mode, announced>>
       \/ flight_mode' \in requested /\ announced' \in {announced, flight_mode'}

\* Adapters come and go, and the daemon when nothing is requested.
Serve ==
    /\ serving' \in BOOLEAN
    /\ UNCHANGED <<flight_mode, announced, requested>>

Next == (\E block \in BOOLEAN : Request(block)) \/ Succeed \/ Fail \/ Lost \/ Serve

Safe == Init /\ [][Next]_vars
Spec == Safe /\ WF_vars(Succeed \/ Fail \/ Lost)
=============================================================================
