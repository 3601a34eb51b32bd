------------------------------ MODULE UrfTypes ------------------------------
(***************************************************************************)
(* The killswitch states and how they combine (urf-utils.h, urf-utils.c    *)
(* and the two pure functions at the top of urf-killswitch.c).             *)
(***************************************************************************)
EXTENDS Integers, FiniteSetsExt

NO_ADAPTER   == -1
UNBLOCKED    == 0
SOFT_BLOCKED == 1
HARD_BLOCKED == 2
KillswitchState == {NO_ADAPTER, UNBLOCKED, SOFT_BLOCKED, HARD_BLOCKED}

\* Mutant: the two blocks are taken for the bits of the state.
event_to_state_Bits(soft, hard) ==
    (IF soft THEN SOFT_BLOCKED ELSE 0) + (IF hard THEN HARD_BLOCKED ELSE 0)

\* The state of one device: a hardware block hides the software block.
event_to_state(soft, hard) ==
    IF hard THEN HARD_BLOCKED ELSE IF soft THEN SOFT_BLOCKED ELSE UNBLOCKED

\* The platform switch decides, unless it is open and there is another one.
aggregate_states(platform, non_platform) ==
    IF platform = UNBLOCKED /\ non_platform # NO_ADAPTER
    THEN non_platform ELSE platform

\* The most restrictive state of a set of device states: what each loop of
\* urf_killswitch_state_refresh accumulates, starting from NO_ADAPTER.
MostBlocked(states) == Max(states \cup {NO_ADAPTER})

\* The state urf_killswitch_state_refresh computes from the states of the
\* platform devices and of the others.
KillswitchStateOf(platform, others) ==
    IF platform = {} THEN MostBlocked(others)
    ELSE aggregate_states(MostBlocked(platform), MostBlocked(others))
=============================================================================
